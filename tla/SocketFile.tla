----------------------------- MODULE SocketFile -----------------------------
(***************************************************************************)
(* Private directories (dirs/src/lib.rs) and the Unix listener             *)
(* (transport/src/transports/unix.rs), for processes of one user that use  *)
(* the same path at the same time: the walk that creates and inspects each *)
(* component of a path, bind, the socket's mode, its removal on drop, and  *)
(* a crash that leaves it behind. The last component is the target.        *)
(***************************************************************************)
EXTENDS Integers, Sequences, FiniteSets

CONSTANTS
    Procs,      \* processes that bind the socket
    Ensurers,   \* processes that ensure the directory (Dir::ensure)
    Depth,      \* components of the directory's path
    Ancestors   \* what an ancestor may be at the start

VARIABLES
    fsNodes,   \* component -> what is there
    fsFirst,   \* what was there at the start
    fsSocket,  \* the socket file: its binder and whether its mode is private
    fsProc     \* process -> where it is

fsVars == <<fsNodes, fsFirst, fsSocket, fsProc>>

Missing == [kind |-> "missing"]
Entry(kind, owner, writable, sticky) ==
    [kind |-> kind, owner |-> owner, writable |-> writable, sticky |-> sticky]
PathEntries ==
    {Entry(kind, owner, writable, sticky) : kind \in {"dir", "link", "file"},
        owner \in {"me", "root", "other"}, writable \in BOOLEAN, sticky \in BOOLEAN}
PrivateDir == Entry("dir", "me", FALSE, FALSE)
Targets == {Missing, PrivateDir, Entry("dir", "me", TRUE, FALSE), Entry("dir", "root", FALSE, FALSE),
            Entry("link", "root", FALSE, FALSE), Entry("file", "me", FALSE, FALSE)}

ASSUME SocketAssumption ==
    /\ Procs \cap Ensurers = {} /\ "nobody" \notin Procs
    /\ Depth \in Nat \ {0}
    /\ Ancestors \subseteq {Missing} \cup PathEntries

Everyone == Procs \cup Ensurers
At(pc, goal) == [pc |-> pc, at |-> 1, created |-> FALSE, goal |-> goal]
(* Dir::ensure of a rooted layout walks to the root first, then to the directory. *)
FirstGoal == IF Depth > 1 THEN Depth - 1 ELSE Depth
NoSocket == [by |-> "nobody", private |-> FALSE]

SocketOff ==
    /\ fsNodes = <<>> /\ fsFirst = <<>> /\ fsSocket = NoSocket
    /\ fsProc = [p \in Everyone |-> At("off", Depth)]

SocketInit ==
    /\ fsNodes \in {f \in [1..Depth -> Ancestors \cup Targets] :
                        \A i \in 1..Depth : IF i = Depth THEN f[i] \in Targets ELSE f[i] \in Ancestors}
    /\ \A i \in 1..(Depth - 1) : fsNodes[i] = Missing => fsNodes[i + 1] = Missing
    /\ fsFirst = fsNodes /\ fsSocket = NoSocket
    /\ fsProc = [p \in Everyone |-> IF p \in Procs THEN At("exists", Depth) ELSE At("look", FirstGoal)]

Goes(p, pc) == fsProc' = [fsProc EXCEPT ![p].pc = pc]

(* ensure_path: an existing socket path skips the walk. *)
ensure_path(p) ==
    /\ fsProc[p].pc = "exists"
    /\ Goes(p, IF fsSocket = NoSocket THEN "look" ELSE "bind")
    /\ UNCHANGED <<fsNodes, fsFirst, fsSocket>>

(* symlink_metadata of the component, or its creation when it is not there. *)
Look(p) ==
    /\ fsProc[p].pc = "look"
    /\ Goes(p, IF fsNodes[fsProc[p].at] = Missing THEN "create" ELSE "inspect")
    /\ UNCHANGED <<fsNodes, fsFirst, fsSocket>>

(* Another process created the component first. *)
AfterLostRace == "inspect"

CreateDir(p) ==
    LET at == fsProc[p].at IN
    /\ fsProc[p].pc = "create"
    /\ IF fsNodes[at] = Missing
       THEN /\ fsNodes' = [fsNodes EXCEPT ![at] = PrivateDir]
            /\ fsProc' = [fsProc EXCEPT ![p].pc = "inspect", ![p].created = TRUE]
       ELSE Goes(p, AfterLostRace) /\ UNCHANGED fsNodes
    /\ UNCHANGED <<fsFirst, fsSocket>>

(* The checks on one component, in the order of the code. *)
Refused(node, target, created) ==
    \/ node.kind = "link" /\ (target \/ node.owner # "root")
    \/ node.kind = "file"
    \/ target /\ node.owner # "me"
    \/ target /\ ~created /\ node.writable
    \/ ~target /\ node.writable /\ ~node.sticky

Inspect(p) ==
    LET at == fsProc[p].at IN
    /\ fsProc[p].pc = "inspect"
    /\ IF Refused(fsNodes[at], at = fsProc[p].goal, fsProc[p].created) THEN Goes(p, "refused")
       ELSE IF at < fsProc[p].goal
       THEN fsProc' = [fsProc EXCEPT ![p] = [At("look", @.goal) EXCEPT !.at = at + 1]]
       ELSE Goes(p, "chmod")
    /\ UNCHANGED <<fsNodes, fsFirst, fsSocket>>

(* set_permissions(path, 0o700) *)
ChmodDirectory(p) ==
    /\ fsProc[p].pc = "chmod"
    /\ fsNodes' = [fsNodes EXCEPT ![fsProc[p].goal] = [@ EXCEPT !.writable = FALSE]]
    /\ IF fsProc[p].goal < Depth THEN fsProc' = [fsProc EXCEPT ![p] = At("look", Depth)]
       ELSE Goes(p, IF p \in Procs THEN "bind" ELSE "ensured")
    /\ UNCHANGED <<fsFirst, fsSocket>>

(* Mutant of AfterFailedBind: a failed bind cleans up the path. *)
RemovesSocket(socket) == NoSocket

(* AddrInUse, or no directory: bind_with_config returns and touches nothing. *)
AfterFailedBind(socket) == socket

Bind(p) ==
    /\ fsProc[p].pc = "bind"
    /\ IF fsSocket = NoSocket /\ fsNodes[Depth].kind = "dir"
       THEN fsSocket' = [by |-> p, private |-> FALSE] /\ Goes(p, "mode")
       ELSE fsSocket' = AfterFailedBind(fsSocket) /\ Goes(p, "refused")
    /\ UNCHANGED <<fsNodes, fsFirst>>

(* set_private_permissions(path, 0o600); when it fails the socket is removed. *)
ChmodSocket(p) ==
    /\ fsProc[p].pc = "mode"
    /\ \/ fsSocket' = [fsSocket EXCEPT !.private = TRUE] /\ Goes(p, "serving")
       \/ fsSocket' = NoSocket /\ Goes(p, "refused")
    /\ UNCHANGED <<fsNodes, fsFirst>>

(* Drop removes the path, then the listener is closed. *)
DropTransport(p) ==
    /\ fsProc[p].pc = "serving"
    /\ fsSocket' = NoSocket /\ Goes(p, "dropped") /\ UNCHANGED <<fsNodes, fsFirst>>

(* A crash closes the listener and leaves the file. *)
Crash(p) ==
    /\ fsProc[p].pc \in {"mode", "serving"} /\ Goes(p, "crashed")
    /\ UNCHANGED <<fsNodes, fsFirst, fsSocket>>

(* A process that failed, was dropped or crashed is started again. *)
Restart(p) ==
    /\ p \in Procs /\ fsProc[p].pc \in {"dropped", "crashed"}
    /\ fsProc' = [fsProc EXCEPT ![p] = At("exists", Depth)]
    /\ UNCHANGED <<fsNodes, fsFirst, fsSocket>>

SocketNext ==
    \E p \in Everyone :
        \/ ensure_path(p) \/ Look(p) \/ CreateDir(p) \/ Inspect(p) \/ ChmodDirectory(p)
        \/ Bind(p) \/ ChmodSocket(p) \/ DropTransport(p) \/ Crash(p) \/ Restart(p)

SocketSpec == SocketInit /\ [][SocketNext]_fsVars
-----------------------------------------------------------------------------
(* Processes that start, stop, crash and start again on one path do not get in
   each other's way. Whoever serves has the socket at the path, its own and
   private, in a private directory: no other start, failed start or drop takes it
   away. Whoever has ensured the directory finds it private. And on a path that
   holds nothing to refuse no ensure_private_directory of its own is refused: the one
   that loses a race to create a component goes on with what the other made
   (bind_with_config, Drop, ensure_private_directory). *)
StartsDoNotCollide ==
    /\ \A p \in Procs : fsProc[p].pc = "serving" =>
            fsSocket = [by |-> p, private |-> TRUE] /\ fsNodes[Depth] = PrivateDir
    /\ \A p \in Ensurers : fsProc[p].pc = "ensured" => fsNodes[Depth] = PrivateDir
    /\ (\A i \in DOMAIN fsFirst : fsFirst[i] \in {Missing, PrivateDir}) =>
            \A p \in Ensurers : fsProc[p].pc # "refused"
=============================================================================
