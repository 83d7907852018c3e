---------------------------- MODULE ConfigReload ----------------------------
(***************************************************************************)
(* Managed configuration of overseerd (crate overseerd-config): the source *)
(* files, the bindings with their live values, the ConfigReloader and the  *)
(* tasks that call it: the file watcher, the SIGHUP handler and callers of *)
(* reload().                                                               *)
(*                                                                         *)
(* A document gives each binding one raw content: a literal, a placeholder *)
(* that a resolver answers ("env"), a placeholder for the binding Linked   *)
(* ("link"), or something that does not deserialize.  A step is one file   *)
(* read, one binding prepared, one hook's answer or one binding committed: *)
(* files and resolvers change between any two of them.                     *)
(***************************************************************************)
EXTENDS Integers, Sequences, SequencesExt

CONSTANTS
    Sources,    \* the source files, in merge order
    Slots,      \* the bindings, in registration order
    Linked,     \* the binding that "link" refers to
    Literals,   \* plain values
    FirstAnswer,\* what the resolvers answer at the start
    Defaults,   \* the default content of each binding, or Absent
    Documents,  \* what each source file may contain
    Hooks,      \* the config_reload hooks
    Targets,    \* the bindings each hook takes a proposal of
    Triggers,   \* the background tasks: a subset of {"watch", "sighup"}
    Callers,    \* tasks that call reload() themselves
    MaxEdits,   \* bound: edits of the source files
    MaxChanges, \* bound: changes of what the resolvers answer
    MaxCalls    \* bound: calls of reload() and signals

Absent == "absent"
Files  == 1..Len(Sources)
Paths  == {Slots[n] : n \in 1..Len(Slots)}
Tasks  == Triggers \cup Callers

Contents == Literals \cup {"env", "link", "bad", "panic"}
Trees    == [Paths -> Contents \cup {Absent}]

\* A file that is missing, half written or malformed.
Broken == [p \in Paths |-> "broken"]

ASSUME ConfigAssumption ==
    /\ Slots \in Seq(Paths) /\ Len(Sources) \in Nat
    /\ Linked \in Paths /\ FirstAnswer \in Literals
    /\ Defaults \in [Paths -> Literals \cup {Absent}]
    /\ Documents \in [Files -> SUBSET (Trees \cup {Broken})]
    /\ Targets \in [Hooks -> SUBSET Paths]
    /\ Triggers \subseteq {"watch", "sighup"} /\ Triggers \cap Callers = {}
    /\ MaxEdits \in Nat /\ MaxChanges \in Nat /\ MaxCalls \in Nat

VARIABLES
    files,      \* what each source file contains now
    env,        \* what the resolvers answer now
    edits, changes, calls,   \* how often the world has acted
    unnoticed,  \* an edit the watcher has not been told of
    event,      \* the watcher's channel is not empty
    signal,     \* a SIGHUP is pending
    stopping,   \* stop_reload_triggers was called
    poisoned,   \* the manager's lock was dropped by a panic
    root,       \* ConfigManager::root
    live,       \* the value in each binding's Live slot
    snap,       \* each binding's committed snapshot
    generation, \* successful reloads
    outcome,    \* how the last reload ended
    job         \* where each task is

world   == <<files, env, edits, changes, calls, unnoticed, signal>>
manager == <<root, live, snap, generation>>
vars    == <<world, event, stopping, poisoned, manager, outcome, job>>

-----------------------------------------------------------------------------
(* Merging, substitution and binding. *)

Unresolved == "error"

\* merge_into for one file; the whole subtree of a binding stands for its content.
Merge(tree, doc) == [p \in Paths |-> IF doc[p] = Absent THEN tree[p] ELSE doc[p]]

EmptyTree == [p \in Paths |-> Absent]

seed_defaults_into(tree) == [p \in Paths |-> IF tree[p] = Absent THEN Defaults[p] ELSE tree[p]]

\* What a placeholder stands for when the resolvers answer e; a link to itself is a cycle.
Answer(tree, c, e) ==
    CASE c = "env" -> e
      [] c = "link" /\ tree[Linked] = "env" -> e
      [] c = "link" /\ tree[Linked] \in Literals -> tree[Linked]
      [] OTHER -> Unresolved

Placeholder(c) == c \in {"env", "link"}

\* The value binding p deserializes to, or Unresolved.
Value(tree, p, e) ==
    IF tree[p] \in Literals THEN tree[p] ELSE Answer(tree, tree[p], e)

\* The fingerprint of that pass: the raw content and the answers it consumed.
Snapshot(tree, p, e) ==
    [raw |-> tree[p], resolved |-> IF Placeholder(tree[p]) THEN {Answer(tree, tree[p], e)} ELSE {}]

RawMatches(tree, p) == tree[p] = snap[p].raw

snapshot_matches(tree, p) ==
    /\ tree[p] = snap[p].raw
    /\ \A v \in snap[p].resolved : Answer(tree, tree[p], env) = v

-----------------------------------------------------------------------------
(* The tasks.  Only the holder of in_progress is past "wait". *)

Resting == [pc |-> "idle", next |-> 1, tree |-> EmptyTree, swaps |-> <<>>, hooks |-> {},
            rejected |-> FALSE]
Phases  == {"idle", "debounce", "wait", "read", "prepare", "bind", "hooks", "commit",
            "stopped"}

\* A prepared swap: the binding, its new value and its new snapshot.
Swap(p, tree) == [path |-> p, value |-> Value(tree, p, env), snap |-> Snapshot(tree, p, env)]

Working(t) == job[t].pc \in {"read", "prepare", "bind", "hooks", "commit"}

Running(t, pc) == job[t].pc = pc

Become(t, j) == job' = [job EXCEPT ![t] = j]

\* lock_manager: a lock poisoned by a panicking reload is recovered.
lock_manager == poisoned' = FALSE

\* reload() returns and in_progress is released.
Return(t, result) == Become(t, Resting) /\ outcome' = result

Init ==
    /\ files \in [Files -> UNION Range(Documents)] /\ env = FirstAnswer
    /\ \A f \in Files : files[f] \in Documents[f] \ {Broken}
    /\ root = seed_defaults_into(FoldLeft(Merge, EmptyTree, files))
    /\ \A p \in Paths : Value(root, p, env) # Unresolved
    /\ live = [p \in Paths |-> Value(root, p, env)]
    /\ snap = [p \in Paths |-> Snapshot(root, p, env)]
    /\ edits = 0 /\ changes = 0 /\ calls = 0
    /\ unnoticed = FALSE /\ event = FALSE /\ signal = FALSE /\ stopping = FALSE
    /\ poisoned = FALSE /\ generation = 0 /\ outcome = "None"
    /\ job = [t \in Tasks |-> Resting]

-----------------------------------------------------------------------------
(* The world: editors, the notification service, signals, resolvers. *)

Edit(f, doc) ==
    /\ edits < MaxEdits /\ doc # files[f]
    /\ files' = [files EXCEPT ![f] = doc] /\ edits' = edits + 1
    /\ unnoticed' = TRUE
    /\ UNCHANGED <<env, changes, calls, signal, event, stopping, poisoned, manager, outcome, job>>

\* The watcher's callback; edits in quick succession may be reported once.
Notify ==
    /\ unnoticed /\ unnoticed' = FALSE
    /\ event' = TRUE
    /\ UNCHANGED <<files, env, edits, changes, calls, signal, stopping, poisoned, manager,
                   outcome, job>>

ResolverChanges(v) ==
    /\ changes < MaxChanges /\ v # env
    /\ env' = v /\ changes' = changes + 1
    /\ UNCHANGED <<files, edits, calls, unnoticed, signal, event, stopping, poisoned, manager,
                   outcome, job>>

Sighup ==
    /\ "sighup" \in Triggers /\ calls < MaxCalls
    /\ signal' = TRUE /\ calls' = calls + 1
    /\ UNCHANGED <<files, env, edits, changes, unnoticed, event, stopping, poisoned, manager,
                   outcome, job>>

-----------------------------------------------------------------------------
(* What brings a task to reload(). *)

WatchWakes ==
    /\ "watch" \in Triggers /\ Running("watch", "idle") /\ event
    /\ Become("watch", [Resting EXCEPT !.pc = "debounce"])
    /\ UNCHANGED <<world, event, stopping, poisoned, manager, outcome>>

\* After the debounce the channel is drained, then reload() is called.
WatchDrains ==
    /\ "watch" \in Triggers /\ Running("watch", "debounce")
    /\ event' = FALSE
    /\ Become("watch", [Resting EXCEPT !.pc = "wait"])
    /\ UNCHANGED <<world, stopping, poisoned, manager, outcome>>

SighupWakes ==
    /\ "sighup" \in Triggers /\ Running("sighup", "idle") /\ signal
    /\ signal' = FALSE
    /\ Become("sighup", [Resting EXCEPT !.pc = "wait"])
    /\ UNCHANGED <<files, env, edits, changes, calls, unnoticed, event, stopping, poisoned,
                   manager, outcome>>

CallReload(t) ==
    /\ t \in Callers /\ Running(t, "idle") /\ calls < MaxCalls
    /\ calls' = calls + 1
    /\ Become(t, [Resting EXCEPT !.pc = "wait"])
    /\ UNCHANGED <<files, env, edits, changes, unnoticed, signal, event, stopping, poisoned,
                   manager, outcome>>

-----------------------------------------------------------------------------
(* reload() *)

\* in_progress is free.
Serialized == \A t \in Tasks : ~Working(t)

Acquire(t) ==
    /\ Running(t, "wait") /\ Serialized
    /\ lock_manager
    /\ Become(t, [Resting EXCEPT !.pc = "read"])
    /\ UNCHANGED <<world, event, stopping, manager, outcome>>

\* reread, one file at a time; the first that cannot be read or parsed fails the reload.
ReadFile(t) ==
    /\ Running(t, "read") /\ job[t].next \in Files
    /\ LET doc == files[job[t].next]
       IN  IF doc = Broken
           THEN Return(t, "Load")
           ELSE /\ Become(t, [job[t] EXCEPT !.tree = Merge(@, doc), !.next = @ + 1])
                /\ UNCHANGED outcome
    /\ UNCHANGED <<world, event, stopping, poisoned, manager>>

FilesRead(t) ==
    /\ Running(t, "read") /\ job[t].next \notin Files
    /\ Become(t, [job[t] EXCEPT !.pc = "prepare", !.next = 1, !.tree = seed_defaults_into(@)])
    /\ UNCHANGED <<world, event, stopping, poisoned, manager, outcome>>

\* One binding: left alone when its snapshot still matches.
Prepare(t) ==
    /\ Running(t, "prepare") /\ job[t].next <= Len(Slots)
    /\ IF snapshot_matches(job[t].tree, Slots[job[t].next])
       THEN Become(t, [job[t] EXCEPT !.next = @ + 1])
       ELSE Become(t, [job[t] EXCEPT !.pc = "bind"])
    /\ UNCHANGED <<world, event, stopping, poisoned, manager, outcome>>

\* Otherwise it is deserialized again, in a second pass over the placeholders; an error or
\* a panic ends the reload.
Bind(t) ==
    /\ Running(t, "bind")
    /\ LET p == Slots[job[t].next]
           tree == job[t].tree
       IN  IF Value(tree, p, env) # Unresolved
           THEN /\ Become(t, [job[t] EXCEPT !.pc = "prepare", !.next = @ + 1,
                                            !.swaps = Append(@, Swap(p, tree))])
                /\ UNCHANGED <<poisoned, outcome>>
           ELSE /\ Return(t, IF tree[p] = "panic" THEN "Panicked" ELSE "Bind")
                /\ poisoned' = (tree[p] = "panic")
    /\ UNCHANGED <<world, event, stopping, manager>>

Changed(t) == {job[t].swaps[n].path : n \in 1..Len(job[t].swaps)}

\* Every binding is prepared: nothing changed, or the hooks that target a change start.
Prepared(t) ==
    /\ Running(t, "prepare") /\ job[t].next > Len(Slots)
    /\ IF job[t].swaps = <<>>
       THEN generation' = generation + 1 /\ Return(t, "Ok")
       ELSE /\ Become(t, [job[t] EXCEPT !.pc = "hooks",
                          !.hooks = {h \in Hooks : Targets[h] \cap Changed(t) # {}}])
            /\ UNCHANGED <<generation, outcome>>
    /\ UNCHANGED <<world, event, stopping, poisoned, root, live, snap>>

\* The hooks run concurrently; one accepts, or fails or panics.
HookReturns(t, h, accepts) ==
    /\ Running(t, "hooks") /\ h \in job[t].hooks
    /\ Become(t, [job[t] EXCEPT !.hooks = @ \ {h}, !.rejected = @ \/ ~accepts])
    /\ UNCHANGED <<world, event, stopping, poisoned, manager, outcome>>

HooksDone(t) ==
    /\ Running(t, "hooks") /\ job[t].hooks = {}
    /\ IF job[t].rejected
       THEN Return(t, "Hook") /\ UNCHANGED poisoned
       ELSE /\ lock_manager
            /\ Become(t, [job[t] EXCEPT !.pc = "commit", !.next = 1])
            /\ UNCHANGED outcome
    /\ UNCHANGED <<world, event, stopping, manager>>

SnapshotCommitted(swap) == swap.snap

Commit(t) ==
    /\ Running(t, "commit") /\ job[t].next <= Len(job[t].swaps)
    /\ LET swap == job[t].swaps[job[t].next]
       IN  /\ live' = [live EXCEPT ![swap.path] = swap.value]
           /\ snap' = [snap EXCEPT ![swap.path] = SnapshotCommitted(swap)]
    /\ Become(t, [job[t] EXCEPT !.next = @ + 1])
    /\ UNCHANGED <<world, event, stopping, poisoned, root, generation, outcome>>

Adopt(t) ==
    /\ Running(t, "commit") /\ job[t].next > Len(job[t].swaps)
    /\ root' = job[t].tree
    /\ generation' = generation + 1
    /\ Return(t, "Ok")
    /\ UNCHANGED <<world, event, stopping, poisoned, live, snap>>

-----------------------------------------------------------------------------
(* Shutdown and cancellation. *)

StopTriggers ==
    /\ ~stopping /\ stopping' = TRUE
    /\ UNCHANGED <<world, event, poisoned, manager, outcome, job>>

DropsIdleOnly(t) == job[t].pc = "idle"

\* Where a task awaits: only there can it be dropped.
AtAwait(t) == job[t].pc \in {"idle", "debounce", "wait"} \/ job[t].hooks # {}

AbortTrigger(t) ==
    /\ t \in Triggers /\ stopping /\ AtAwait(t)
    /\ Become(t, [Resting EXCEPT !.pc = "stopped"])
    /\ UNCHANGED <<world, event, stopping, poisoned, manager, outcome>>

\* The future of a caller's reload() is dropped.
AbandonReload(t) ==
    /\ t \in Callers /\ job[t].pc # "idle" /\ AtAwait(t)
    /\ Become(t, Resting)
    /\ UNCHANGED <<world, event, stopping, poisoned, manager, outcome>>

-----------------------------------------------------------------------------
World ==
    \/ \E f \in Files : \E doc \in Documents[f] : Edit(f, doc)
    \/ \E v \in Literals : ResolverChanges(v)
    \/ Sighup \/ StopTriggers

Reload(t) ==
    \/ Acquire(t) \/ ReadFile(t) \/ FilesRead(t) \/ Prepare(t) \/ Bind(t) \/ Prepared(t)
    \/ HooksDone(t) \/ Commit(t) \/ Adopt(t)

Next ==
    \/ World \/ Notify \/ WatchWakes \/ WatchDrains \/ SighupWakes
    \/ \E t \in Tasks : \/ Reload(t) \/ CallReload(t) \/ AbortTrigger(t) \/ AbandonReload(t)
                        \/ \E h \in Hooks : \E accepts \in BOOLEAN : HookReturns(t, h, accepts)

Spec == Init /\ [][Next]_vars

\* Every task that can proceed does, and the notification service reports edits.
Fairness ==
    /\ WF_vars(Notify) /\ WF_vars(WatchWakes) /\ WF_vars(WatchDrains) /\ WF_vars(SighupWakes)
    /\ \A t \in Tasks : WF_vars(Reload(t)) /\ WF_vars(AbortTrigger(t))

FairSpec == Spec /\ Fairness

\* A hook is the application's code: what depends on its returning says so.
HooksReturn ==
    \A t \in Tasks : \A h \in Hooks : WF_vars(\E accepts \in BOOLEAN : HookReturns(t, h, accepts))

-----------------------------------------------------------------------------
(* Properties *)

\* Every variable keeps its type; one reload at a time is past in_progress.
TypeOK ==
    /\ \A f \in Files : files[f] \in Documents[f]
    /\ env \in Literals
    /\ edits \in 0..MaxEdits /\ changes \in 0..MaxChanges /\ calls \in 0..MaxCalls
    /\ unnoticed \in BOOLEAN /\ event \in BOOLEAN /\ signal \in BOOLEAN
    /\ stopping \in BOOLEAN /\ poisoned \in BOOLEAN
    /\ root \in Trees /\ live \in [Paths -> Literals] /\ generation \in Nat
    /\ snap \in [Paths -> [raw : Contents, resolved : SUBSET Literals]]
    /\ outcome \in {"None", "Ok", "Load", "Bind", "Panicked", "Hook"}
    /\ \A t \in Tasks : /\ job[t].pc \in Phases /\ job[t].tree \in Trees
                        /\ job[t].hooks \subseteq Hooks /\ job[t].rejected \in BOOLEAN
    /\ \A t, u \in Tasks : Working(t) /\ Working(u) => t = u

Committing == \E t \in Tasks : Running(t, "commit")

\* Outside a commit all live values belong to one tree, the adopted one: a failed,
\* rejected or dropped reload publishes nothing, a successful one every binding that
\* changed, the ones that changed only through a placeholder included.
LiveIsRoot ==
    ~Committing =>
        \A p \in Paths :
            /\ snap[p] \in {Snapshot(root, p, e) : e \in Literals}
            /\ \E e \in Literals : Snapshot(root, p, e) = snap[p] /\ Value(root, p, e) = live[p]

Wanted == seed_defaults_into(FoldLeft(Merge, EmptyTree, files))

\* The files can be read and every binding deserializes, whatever the resolvers answer.
Usable ==
    /\ \A f \in Files : files[f] # Broken
    /\ \A p \in Paths : Value(Wanted, p, env) # Unresolved /\ "env" \notin {Wanted[p], Wanted[Linked]}

\* A watched configuration follows its files: when the edits leave files that can be used,
\* they are what the application sees in the end, unless a hook rejected the last reload.
\* No event is lost to the debounce, to a reload in progress or to a failed reload.  And
\* shutdown gets rid of the triggers: also of one whose hook hangs and of one that waits
\* for a reload that hangs.
EditsTakeEffect ==
    /\ HooksReturn => (<>[](Usable /\ ~stopping)
        => <>[](outcome = "Hook" \/ \A p \in Paths : live[p] = Value(Wanted, p, env)))
    /\ stopping ~> \A t \in Triggers : job[t].pc = "stopped"
=============================================================================
