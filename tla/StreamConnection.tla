-------------------------- MODULE StreamConnection --------------------------
(***************************************************************************)
(* One server-side connection of overseerd: the read loop, the responders  *)
(* and the control tasks of StreamConnection (crate overseerd-transport),  *)
(* driven by serve_connection and drive_call (crate overseerd-rpc).        *)
(*                                                                         *)
(* The wire id of a call may be used again by the peer, so what the code   *)
(* tells apart by the identity of the Arc<AtomicBool> "active" is told     *)
(* apart here by an instance number: instances are numbered in the order   *)
(* their Request was accepted.                                             *)
(*                                                                         *)
(* The peer is arbitrary: it may send any message at any time, with any    *)
(* id.  A step is one poll of one task between two points where another    *)
(* task can see or change what it shares.  Of a frame only its call and    *)
(* its kind (an item, or the one terminal frame) are kept.                 *)
(***************************************************************************)
EXTENDS Integers, Sequences, FiniteSets, Functions

CONSTANTS
    Ids,           \* the call ids the peer uses
    MaxInFlight,   \* StreamConfig::max_in_flight_calls
    MaxTasks,      \* RpcLimits::max_calls_per_connection
    Buffer,        \* INBOUND_BUFFER
    PayloadSizes,  \* lengths of the items the peer streams in
    MaxCallBytes,  \* StreamConfig::max_inbound_bytes_per_call
    MaxConnBytes,  \* StreamConfig::max_inbound_bytes_per_connection
    MaxInstances,  \* bound: requests accepted on the connection
    MaxItems       \* bound: items a response stream sends

ASSUME StreamAssumption ==
    /\ MaxInFlight \in Nat \ {0}
    /\ MaxTasks \in Nat \ {0}
    /\ Buffer \in Nat \ {0}
    /\ PayloadSizes \subseteq Nat
    /\ MaxCallBytes \in Nat \ {0}
    /\ MaxConnBytes \in Nat /\ MaxConnBytes >= MaxCallBytes
    /\ MaxInstances \in Nat
    /\ MaxItems \in Nat

Instances == 1..MaxInstances
NoCall    == 0

VARIABLES
    \* --- StreamConnection, owned by the read loop
    calls,       \* the call table: the instance a wire id stands for
    slot,        \* the CallSlot of each instance in the table
    inboundBytes,\* bytes buffered over all calls
    \* --- shared between the loop and the tasks
    active,      \* each call's terminal flag
    cancelled,   \* each call's cancellation token
    queued,      \* items in each call's request channel
    receiving,   \* whether the call's Receiver is alive
    closed,      \* ConnectionHealth: closed flag and shutdown token
    completions, \* the completion channel
    \* --- tasks
    rpc,         \* where serve_connection and its recv() are
    item,        \* the StreamItem recv() is routing
    error,       \* what ended the connection
    made,        \* requests accepted so far
    wireId,      \* the wire id of each instance
    tasks,       \* serve_connection's JoinSet of call tasks
    hpc,         \* where each call's drive_call is
    cpc,         \* where each call's control task is
    \* --- the byte stream to the peer
    out,         \* the frames written for each instance
    torn         \* whether a frame was left half written

table  == <<calls, slot, inboundBytes>>
flags  == <<active, cancelled>>
chan   == <<queued, receiving>>
server == <<rpc, item, error, made, wireId>>
wire   == <<out, torn>>
vars   == <<table, flags, chan, closed, completions, server, tasks, hpc, cpc, wire>>

CallSlots   == [inbound : BOOLEAN, sizes : Seq(PayloadSizes), bytes : Nat,
                ending : BOOLEAN, tombstone : BOOLEAN]
EmptySlot   == [inbound |-> FALSE, sizes |-> <<>>, bytes |-> 0,
                ending |-> FALSE, tombstone |-> FALSE]
NoItem      == [id |-> NoCall, size |-> 0]
Errors      == {"None", "Closed", "DuplicateCallId", "TooManyCalls", "ControlTasksSaturated",
                "ControlTask", "UnexpectedMessage", "Read", "PeerGone", "Shutdown"}
ServerPhase == {"top", "select", "route", "accepted", "draining", "dropped"}
\* "send..." is one sink.send(), "term..." one respond(), error() or finish().
CallPhase   == {"none", "run", "sendLock", "sendWrite", "termLock", "termWrite", "complete",
                "ended", "aborted"}
ControlPhase == {"none", "lock", "write", "ok", "err", "joined", "aborted"}

Tracked(g) == made >= g /\ calls[wireId[g]] = g

\* The write mutex is held for exactly the time a frame is being written.
WriterFree ==
    \A g \in Instances : hpc[g] \notin {"sendWrite", "termWrite"} /\ cpc[g] # "write"

SatSub(a, b) == IF a > b THEN a - b ELSE 0

-----------------------------------------------------------------------------
Init ==
    /\ calls = [i \in Ids |-> NoCall]
    /\ slot = [g \in Instances |-> EmptySlot]
    /\ inboundBytes = 0
    /\ active = [g \in Instances |-> FALSE]
    /\ cancelled = [g \in Instances |-> FALSE]
    /\ queued = [g \in Instances |-> 0]
    /\ receiving = [g \in Instances |-> FALSE]
    /\ closed = FALSE /\ completions = <<>>
    /\ rpc = "top" /\ item = NoItem /\ error = "None" /\ made = 0
    /\ wireId = [g \in Instances |-> NoCall]
    /\ tasks = {}
    /\ hpc = [g \in Instances |-> "none"]
    /\ cpc = [g \in Instances |-> "none"]
    /\ out = [g \in Instances |-> <<>>] /\ torn = FALSE

-----------------------------------------------------------------------------
(* The table and its byte accounting. *)

\* Items the handler took from the channel since the last reconciliation.
Consumed(g) ==
    IF slot[g].inbound THEN SatSub(Len(slot[g].sizes), queued[g]) ELSE 0

Released(g) == SumFunction(SubSeq(slot[g].sizes, 1, Consumed(g)))

Reconciled(g) ==
    [slot[g] EXCEPT !.sizes = SubSeq(@, Consumed(g) + 1, Len(@)),
                    !.bytes = SatSub(@, Released(g))]

reconcile_all_inbound_bytes ==
    /\ slot' = [g \in Instances |-> Reconciled(g)]
    /\ inboundBytes' = SatSub(inboundBytes, SumFunction([g \in Instances |-> Released(g)]))

EndConsumed(s) == s.ending /\ s.sizes = <<>>

FinalizedSlot(s) ==
    IF EndConsumed(s) THEN [s EXCEPT !.inbound = FALSE, !.ending = FALSE] ELSE s

finalize_consumed_inbound_ends ==
    /\ slot' = [g \in Instances |-> FinalizedSlot(Reconciled(g))]
    /\ inboundBytes' = SatSub(inboundBytes, SumFunction([g \in Instances |-> Released(g)]))

AnyEnding == \E g \in Instances : slot[g].ending

\* The table after remove_call for each instance of G.
RemoveCalls(G) ==
    /\ calls' = [i \in Ids |-> IF calls[i] \in G THEN NoCall ELSE calls[i]]
    /\ slot' = [g \in Instances |-> IF g \in G THEN EmptySlot ELSE slot[g]]
    /\ inboundBytes' = SatSub(inboundBytes, SumFunction([g \in G |-> slot[g].bytes]))

\* StreamConnection::close: the health flag, then cancel_all over the table.
Close ==
    /\ closed' = TRUE
    /\ cancelled' = [g \in Instances |-> cancelled[g] \/ Tracked(g)]
    /\ active' = [g \in Instances |-> active[g] /\ ~Tracked(g)]

\* recv() fails with e after close(); serve_connection leaves its loop.
CloseWith(e) == Close /\ rpc' = "draining" /\ error' = e

-----------------------------------------------------------------------------
(* recv(): the head of its loop, and the arms of its biased select.  An arm *)
(* is taken when no arm above it is ready.                                  *)

AtSelect    == rpc = "select"
NothingDone == completions = <<>> /\ \A g \in Instances : cpc[g] \notin {"ok", "err"}
Quiet       == AtSelect /\ NothingDone /\ ~closed

TimerOnly == FALSE

ReconcilesAtTop == AnyEnding

RecvTop ==
    /\ rpc = "top"
    /\ IF ReconcilesAtTop THEN finalize_consumed_inbound_ends
                    ELSE UNCHANGED <<slot, inboundBytes>>
    /\ rpc' = "select"
    /\ UNCHANGED <<calls, flags, chan, closed, completions, item, error, made, wireId,
                   tasks, hpc, cpc, wire>>

SameCall(s, g) == s = g

NotReserved(s) == ~slot[s].tombstone

\* What a completion of instance g removes from the table.
Reaped(g) ==
    {s \in {calls[wireId[g]]} \ {NoCall} : SameCall(s, g) /\ NotReserved(s)}

Reap ==
    /\ AtSelect /\ completions # <<>>
    /\ RemoveCalls(Reaped(Head(completions)))
    /\ completions' = Tail(completions)
    /\ rpc' = "top"
    /\ UNCHANGED <<flags, chan, closed, item, error, made, wireId, tasks, hpc, cpc, wire>>

FinishedControlLost(G) == {}

\* What the finished control tasks G remove: whatever their id is reserved for.
FinishedControl(G) ==
    {s \in {calls[wireId[g]] : g \in G} \ {NoCall} : slot[s].tombstone}

JoinControl(g) ==
    /\ AtSelect /\ completions = <<>>
    /\ cpc[g] \in {"ok", "err"}
    /\ cpc' = [cpc EXCEPT ![g] = "joined"]
    /\ IF cpc[g] = "ok"
       THEN /\ RemoveCalls(FinishedControl({g}))
            /\ rpc' = "top"
            /\ UNCHANGED <<flags, closed, error>>
       ELSE CloseWith("ControlTask") /\ UNCHANGED table
    /\ UNCHANGED <<chan, completions, item, made, wireId, tasks, hpc, wire>>

NotWoken == FALSE

ShutdownSeen == closed

ShutdownArm ==
    /\ AtSelect /\ NothingDone /\ ShutdownSeen
    /\ CloseWith("Closed")
    /\ UNCHANGED <<table, chan, completions, item, made, wireId, tasks, hpc, cpc, wire>>

ReconcileTimer ==
    /\ Quiet /\ AnyEnding
    /\ finalize_consumed_inbound_ends
    /\ rpc' = "top"
    /\ UNCHANGED <<calls, flags, chan, closed, completions, item, error, made, wireId,
                   tasks, hpc, cpc, wire>>

Request(i, streaming) ==
    LET g == made + 1
        full == Cardinality({j \in Ids : calls[j] # NoCall}) >= MaxInFlight
    IN  /\ Quiet /\ made < MaxInstances
        /\ IF calls[i] # NoCall \/ full
           THEN /\ CloseWith(IF calls[i] # NoCall THEN "DuplicateCallId" ELSE "TooManyCalls")
                /\ UNCHANGED <<table, receiving, made, wireId>>
           ELSE /\ made' = g /\ wireId' = [wireId EXCEPT ![g] = i]
                /\ calls' = [calls EXCEPT ![i] = g]
                /\ slot' = [slot EXCEPT ![g] = [EmptySlot EXCEPT !.inbound = streaming]]
                /\ active' = [active EXCEPT ![g] = TRUE]
                /\ receiving' = [receiving EXCEPT ![g] = streaming]
                /\ rpc' = "accepted"
                /\ UNCHANGED <<inboundBytes, cancelled, closed, error>>
        /\ UNCHANGED <<queued, completions, item, tasks, hpc, cpc, wire>>

StreamItem(i, n) ==
    /\ Quiet
    /\ reconcile_all_inbound_bytes
    /\ item' = [id |-> i, size |-> n]
    /\ rpc' = "route"
    /\ UNCHANGED <<calls, flags, chan, closed, completions, error, made, wireId, tasks,
                   hpc, cpc, wire>>

StreamEnd(i) ==
    LET g == calls[i]
    IN  /\ Quiet
        /\ IF g = NoCall
           THEN UNCHANGED <<slot, inboundBytes>>
           ELSE /\ slot' = [slot EXCEPT ![g] =
                    IF Reconciled(g).sizes = <<>>
                    THEN [Reconciled(g) EXCEPT !.inbound = FALSE]
                    ELSE [Reconciled(g) EXCEPT !.ending = TRUE]]
                /\ inboundBytes' = SatSub(inboundBytes, Released(g))
        /\ rpc' = "top"
        /\ UNCHANGED <<calls, flags, chan, closed, completions, item, error, made, wireId,
                       tasks, hpc, cpc, wire>>

Cancellable(g) == g # NoCall /\ ~slot[g].tombstone

StreamCancel(i) ==
    LET g == calls[i]
    IN  /\ Quiet
        /\ IF Cancellable(g)
           THEN /\ RemoveCalls({g})
                /\ cancelled' = [cancelled EXCEPT ![g] = TRUE]
                /\ active' = [active EXCEPT ![g] = FALSE]
           ELSE UNCHANGED <<table, flags>>
        /\ rpc' = "top"
        /\ UNCHANGED <<chan, closed, completions, item, error, made, wireId, tasks, hpc,
                       cpc, wire>>

\* The peer hangs up, sends what only a server sends, or the read fails.
ReadEnds(e) ==
    /\ Quiet /\ e \in {"PeerGone", "UnexpectedMessage", "Read"}
    /\ CloseWith(e)
    /\ UNCHANGED <<table, chan, completions, item, made, wireId, tasks, hpc, cpc, wire>>

-----------------------------------------------------------------------------
(* Routing one StreamItem, after every call was reconciled. *)

SetAside == rpc' = "top" /\ item' = NoItem

FitsCallBudget(g) == slot[g].bytes + item.size <= MaxCallBytes

FitsBudget(g) ==
    /\ slot[g].bytes + item.size <= MaxCallBytes
    /\ inboundBytes + item.size <= MaxConnBytes

OpenInbound(g) == g # NoCall /\ slot[g].inbound /\ ~slot[g].ending

\* The slot once its request stream is given up.
WithoutInbound(s) ==
    [s EXCEPT !.inbound = FALSE, !.ending = FALSE, !.sizes = <<>>, !.bytes = 0]


HasRoom(g) == queued[g] < Buffer

RouteIgnored ==
    /\ rpc = "route" /\ ~OpenInbound(calls[item.id])
    /\ SetAside
    /\ UNCHANGED <<table, flags, chan, closed, completions, error, made, wireId, tasks,
                   hpc, cpc, wire>>

RouteDelivered ==
    LET g == calls[item.id]
    IN  /\ rpc = "route" /\ OpenInbound(g) /\ FitsBudget(g)
        /\ receiving[g] /\ HasRoom(g)
        /\ queued' = [queued EXCEPT ![g] = @ + 1]
        /\ slot' = [slot EXCEPT ![g].sizes = Append(@, item.size),
                                ![g].bytes = @ + item.size]
        /\ inboundBytes' = inboundBytes + item.size
        /\ SetAside
        /\ UNCHANGED <<calls, flags, receiving, closed, completions, error, made, wireId,
                       tasks, hpc, cpc, wire>>

\* discard_closed_inbound: the handler dropped its receiver.
RouteDiscarded ==
    LET g == calls[item.id]
    IN  /\ rpc = "route" /\ OpenInbound(g) /\ FitsBudget(g) /\ ~receiving[g]
        /\ slot' = [slot EXCEPT ![g] = WithoutInbound(@)]
        /\ inboundBytes' = SatSub(inboundBytes, slot[g].bytes)
        /\ SetAside
        /\ UNCHANGED <<calls, flags, chan, closed, completions, error, made, wireId, tasks,
                       hpc, cpc, wire>>

Overflows(g) == OpenInbound(g) /\ (FitsBudget(g) => receiving[g] /\ ~HasRoom(g))

ControlsRunning == {g \in Instances : cpc[g] \in {"lock", "write"}}
ControlsOk      == {g \in Instances : cpc[g] = "ok"}
ControlsFailed  == {g \in Instances : cpc[g] = "err"}

\* reject_inbound_overflow when the handler already has the terminal frame.
RejectLost ==
    LET g == calls[item.id]
    IN  /\ rpc = "route" /\ Overflows(g) /\ ~active[g]
        /\ cancelled' = [cancelled EXCEPT ![g] = TRUE]
        /\ slot' = [slot EXCEPT ![g] = WithoutInbound(@)]
        /\ inboundBytes' = SatSub(inboundBytes, slot[g].bytes)
        /\ SetAside
        /\ UNCHANGED <<calls, active, chan, closed, completions, error, made, wireId, tasks,
                       hpc, cpc, wire>>

\* The control tasks reject_inbound_overflow joins, in the order they finished: all that
\* are done, or those before the first that failed, and it.
JoinedSets ==
    IF ControlsFailed = {} THEN {ControlsOk}
    ELSE {ok \cup {c} : ok \in SUBSET ControlsOk, c \in ControlsFailed}

\* reject_inbound_overflow when it wins the terminal frame: it reserves the id, joins
\* the control tasks that are done, and spawns one to write the StreamError.
RejectWon ==
    \E joined \in JoinedSets :
    LET g == calls[item.id]
        gone == FinishedControl(joined \cap ControlsOk)
        rejected == [WithoutInbound(slot[g]) EXCEPT !.tombstone = TRUE]
        failed == ControlsFailed # {}
        saturated == Cardinality(ControlsRunning) >= MaxInFlight
    IN  /\ rpc = "route" /\ Overflows(g) /\ active[g]
        /\ item' = NoItem
        /\ calls' = [i \in Ids |-> IF calls[i] \in gone THEN NoCall ELSE calls[i]]
        /\ slot' = [h \in Instances |-> IF h = g THEN rejected
                                        ELSE IF h \in gone THEN EmptySlot ELSE slot[h]]
        /\ inboundBytes' = SatSub(inboundBytes, slot[g].bytes)
        /\ cpc' = [c \in Instances |-> IF c \in joined THEN "joined"
                                       ELSE IF c = g /\ ~failed /\ ~saturated THEN "lock"
                                       ELSE cpc[c]]
        /\ IF failed \/ saturated
           THEN CloseWith(IF failed THEN "ControlTask" ELSE "ControlTasksSaturated")
           ELSE /\ cancelled' = [cancelled EXCEPT ![g] = TRUE]
                /\ active' = [active EXCEPT ![g] = FALSE]
                /\ rpc' = "top"
                /\ UNCHANGED <<closed, error>>
        /\ UNCHANGED <<chan, completions, made, wireId, tasks, hpc, wire>>

-----------------------------------------------------------------------------
(* Writing a frame: write_connection_frame and write_active_connection_frame. *)

\* A write given up half way may have left bytes of the frame behind.
Tears == torn' \in {torn, TRUE}

PoisonOnAbort == TRUE

\* Frames are written only while the connection is healthy, checked under the lock.
Healthy == ~closed

\* --- the control task of a rejected call

ControlAcquire(g) ==
    /\ cpc[g] = "lock" /\ WriterFree /\ Healthy
    /\ cpc' = [cpc EXCEPT ![g] = "write"]
    /\ UNCHANGED <<table, flags, chan, closed, completions, server, tasks, hpc, wire>>

ControlWritten(g) ==
    /\ cpc[g] = "write" /\ ~closed
    /\ cpc' = [cpc EXCEPT ![g] = "ok"]
    /\ out' = [out EXCEPT ![g] = Append(@, "terminal")]
    /\ UNCHANGED <<table, flags, chan, closed, completions, server, tasks, hpc, torn>>

\* What control_write_timeout covers: waiting for the lock and writing.
TimedPhases == {"lock", "write"}

\* The write fails, times out, or the connection is closed meanwhile.
ControlFails(g) ==
    /\ cpc[g] \in TimedPhases \/ (cpc[g] = "lock" /\ closed)
    /\ cpc' = [cpc EXCEPT ![g] = "err"]
    /\ closed' = TRUE
    /\ IF cpc[g] = "write" THEN Tears ELSE UNCHANGED torn
    /\ UNCHANGED <<table, flags, chan, completions, server, tasks, hpc, out>>

\* --- drive_call: the handler, and the responder or sink it answers with

DropReceiver(g) ==
    /\ receiving' = [receiving EXCEPT ![g] = FALSE]
    /\ queued' = [queued EXCEPT ![g] = 0]

Report(g) == completions' = Append(completions, g)

TakeItem(g) ==
    /\ hpc[g] \in {"run", "sendLock", "sendWrite"} /\ receiving[g] /\ queued[g] > 0
    /\ queued' = [queued EXCEPT ![g] = @ - 1]
    /\ UNCHANGED <<table, flags, receiving, closed, completions, server, tasks, hpc, cpc,
                   wire>>

CloseInbound(g) ==
    /\ hpc[g] = "run" /\ receiving[g]
    /\ DropReceiver(g)
    /\ UNCHANGED <<table, flags, closed, completions, server, tasks, hpc, cpc, wire>>

\* sink.send(): a call that lost its terminal frame fails at once, and drive_call
\* returns without another word.
SendBegin(g) ==
    /\ hpc[g] = "run" /\ Len(out[g]) < MaxItems
    /\ IF active[g]
       THEN hpc' = [hpc EXCEPT ![g] = "sendLock"] /\ UNCHANGED chan
       ELSE hpc' = [hpc EXCEPT ![g] = "ended"] /\ DropReceiver(g)
    /\ UNCHANGED <<table, flags, closed, completions, server, tasks, cpc, wire>>

StillActiveUnchecked(g) == TRUE

StillActive(g) == active[g]

SendAcquire(g) ==
    /\ hpc[g] = "sendLock" /\ WriterFree /\ Healthy /\ StillActive(g)
    /\ hpc' = [hpc EXCEPT ![g] = "sendWrite"]
    /\ UNCHANGED <<table, flags, chan, closed, completions, server, tasks, cpc, wire>>

SendWritten(g) ==
    /\ hpc[g] = "sendWrite" /\ ~closed
    /\ hpc' = [hpc EXCEPT ![g] = "run"]
    /\ out' = [out EXCEPT ![g] = Append(@, "item")]
    /\ UNCHANGED <<table, flags, chan, closed, completions, server, tasks, cpc, torn>>

\* send() returns an error: before the write, or because the write failed or was
\* interrupted by the shutdown token, which poisons the connection.
SendFails(g) ==
    /\ \/ /\ hpc[g] = "sendLock" /\ (closed \/ ~active[g])
          /\ UNCHANGED <<closed, torn>>
       \/ /\ hpc[g] = "sendWrite"
          /\ closed' = TRUE /\ Tears
    /\ hpc' = [hpc EXCEPT ![g] = "ended"]
    /\ active' = [active EXCEPT ![g] = FALSE]
    /\ Report(g) /\ DropReceiver(g)
    /\ UNCHANGED <<table, cancelled, server, tasks, cpc, out>>

TermBegin(g) ==
    /\ hpc[g] = "run"
    /\ hpc' = [hpc EXCEPT ![g] = IF active[g] THEN "termLock" ELSE "ended"]
    /\ active' = [active EXCEPT ![g] = FALSE]
    /\ IF active[g] THEN UNCHANGED chan ELSE DropReceiver(g)
    /\ UNCHANGED <<table, cancelled, closed, completions, server, tasks, cpc, wire>>

TermAcquire(g) ==
    /\ hpc[g] = "termLock" /\ WriterFree /\ Healthy
    /\ hpc' = [hpc EXCEPT ![g] = "termWrite"]
    /\ UNCHANGED <<table, flags, chan, closed, completions, server, tasks, cpc, wire>>

TermWritten(g) ==
    /\ hpc[g] = "termWrite" /\ ~closed
    /\ hpc' = [hpc EXCEPT ![g] = "complete"]
    /\ out' = [out EXCEPT ![g] = Append(@, "terminal")]
    /\ UNCHANGED <<table, flags, chan, closed, completions, server, tasks, cpc, torn>>

TermFails(g) ==
    /\ \/ hpc[g] = "termLock" /\ closed /\ UNCHANGED <<closed, torn>>
       \/ hpc[g] = "termWrite" /\ closed' = TRUE /\ Tears
    /\ hpc' = [hpc EXCEPT ![g] = "complete"]
    /\ UNCHANGED <<table, flags, chan, completions, server, tasks, cpc, out>>

\* The terminal frame was written or not: the completion is sent either way.
Complete(g) ==
    /\ hpc[g] = "complete"
    /\ hpc' = [hpc EXCEPT ![g] = "ended"]
    /\ Report(g) /\ DropReceiver(g)
    /\ UNCHANGED <<table, flags, closed, server, tasks, cpc, wire>>

-----------------------------------------------------------------------------
(* serve_connection around recv(). *)

CallsRunning == {g \in tasks : hpc[g] \notin {"ended", "aborted"}}

\* The call recv() returned: the joinable tasks are joined, then it is spawned, or
\* cancelled and its responder dropped when too many are still running.
Accept ==
    /\ rpc = "accepted"
    /\ IF Cardinality(CallsRunning) >= MaxTasks
       THEN /\ cancelled' = [cancelled EXCEPT ![made] = TRUE]
            /\ rpc' = "draining" /\ error' = "TooManyCalls"
            /\ tasks' = CallsRunning
            /\ DropReceiver(made)
            /\ hpc' = [hpc EXCEPT ![made] = "ended"]
       ELSE /\ tasks' = CallsRunning \cup {made}
            /\ hpc' = [hpc EXCEPT ![made] = "run"]
            /\ rpc' = "top"
            /\ UNCHANGED <<cancelled, error, chan>>
    /\ UNCHANGED <<table, active, closed, completions, item, made, wireId, cpc, wire>>

\* A call task ends while recv() is pending: recv() is dropped and called again.
JoinTask(g) ==
    /\ AtSelect /\ g \in tasks /\ hpc[g] = "ended"
    /\ tasks' = tasks \ {g}
    /\ rpc' = "top"
    /\ UNCHANGED <<table, flags, chan, closed, completions, item, error, made, wireId, hpc,
                   cpc, wire>>

\* The server shuts down; recv() is dropped.
ServerShutdown ==
    /\ AtSelect
    /\ rpc' = "draining" /\ error' = "Shutdown"
    /\ UNCHANGED <<table, flags, chan, closed, completions, item, made, wireId, tasks, hpc,
                   cpc, wire>>

\* tasks.shutdown() aborts every call task where it waits.  One that is writing drops
\* its FrameWriteGuard, which poisons the connection before the lock is released.
AbortTask(g) ==
    /\ rpc = "draining" /\ g \in tasks
    /\ hpc[g] \in {"run", "sendLock", "sendWrite", "termLock", "termWrite"}
    /\ hpc' = [hpc EXCEPT ![g] = "aborted"]
    /\ IF hpc[g] \in {"sendWrite", "termWrite"}
       THEN closed' = PoisonOnAbort /\ Tears
       ELSE UNCHANGED <<closed, torn>>
    /\ DropReceiver(g)
    /\ UNCHANGED <<table, flags, completions, server, tasks, cpc, out>>

\* serve_connection returns: StreamConnection is dropped, with its control tasks.
DropConnection ==
    /\ rpc = "draining" /\ CallsRunning = {}
    /\ Close
    /\ calls' = [i \in Ids |-> NoCall]
    /\ slot' = [g \in Instances |-> EmptySlot]
    /\ inboundBytes' = 0
    /\ cpc' = [g \in Instances |-> IF cpc[g] \in {"lock", "write"} THEN "aborted" ELSE cpc[g]]
    /\ IF \E g \in Instances : cpc[g] = "write" THEN Tears ELSE UNCHANGED torn
    /\ rpc' = "dropped" /\ tasks' = {} /\ completions' = <<>>
    /\ UNCHANGED <<chan, item, error, made, wireId, hpc, out>>

-----------------------------------------------------------------------------
Control(g) == ControlAcquire(g) \/ ControlWritten(g) \/ ControlFails(g)

Handler(g) ==
    \/ TakeItem(g) \/ CloseInbound(g)
    \/ SendBegin(g) \/ SendAcquire(g) \/ SendWritten(g) \/ SendFails(g)
    \/ TermBegin(g) \/ TermAcquire(g) \/ TermWritten(g) \/ TermFails(g) \/ Complete(g)

Peer ==
    \/ \E i \in Ids : \E streaming \in BOOLEAN : Request(i, streaming)
    \/ \E i \in Ids : \E n \in PayloadSizes : StreamItem(i, n)
    \/ \E i \in Ids : StreamEnd(i) \/ StreamCancel(i)
    \/ \E e \in Errors : ReadEnds(e)

Route == RouteIgnored \/ RouteDelivered \/ RouteDiscarded \/ RejectLost \/ RejectWon

Recv ==
    \/ RecvTop \/ Reap \/ ShutdownArm \/ ReconcileTimer \/ Route
    \/ \E g \in Instances : JoinControl(g)

Serve == Accept \/ DropConnection \/ \E g \in Instances : JoinTask(g) \/ AbortTask(g)

\* A connection that is dropped stays so.
Ended == rpc = "dropped" /\ UNCHANGED vars

Next ==
    \/ Peer \/ Recv \/ Serve \/ ServerShutdown
    \/ \E g \in Instances : Control(g) \/ Handler(g)
    \/ Ended

Spec == Init /\ [][Next]_vars

\* Every task that can take a step takes one.  The peer, a handler and the writing
\* of a frame may stall for ever; a write that the shutdown token interrupts may not.
Fairness ==
    /\ WF_vars(RecvTop) /\ WF_vars(Reap) /\ WF_vars(ShutdownArm)
    /\ WF_vars(ReconcileTimer) /\ WF_vars(Route)
    /\ WF_vars(Accept) /\ WF_vars(DropConnection)
    /\ \A g \in Instances :
        /\ WF_vars(JoinControl(g)) /\ WF_vars(JoinTask(g)) /\ WF_vars(AbortTask(g))
        /\ WF_vars(Control(g)) /\ WF_vars(Complete(g))
        /\ WF_vars(closed /\ (SendFails(g) \/ TermFails(g)))

FairSpec == Spec /\ Fairness

-----------------------------------------------------------------------------
(* Properties *)

TableType ==
    /\ calls \in [Ids -> Instances \cup {NoCall}]
    /\ slot \in [Instances -> CallSlots]
    /\ inboundBytes \in Nat

FlagType ==
    /\ active \in [Instances -> BOOLEAN]
    /\ cancelled \in [Instances -> BOOLEAN]

ChannelType ==
    /\ queued \in [Instances -> 0..Buffer]
    /\ receiving \in [Instances -> BOOLEAN]

SignalType == closed \in BOOLEAN /\ completions \in Seq(Instances)

ServerType ==
    /\ rpc \in ServerPhase
    /\ item.id \in Ids \cup {NoCall} /\ item.size \in PayloadSizes \cup {0}
    /\ error \in Errors
    /\ made \in 0..MaxInstances
    /\ wireId \in [Instances -> Ids \cup {NoCall}]

TaskType ==
    /\ tasks \subseteq Instances
    /\ hpc \in [Instances -> CallPhase]
    /\ cpc \in [Instances -> ControlPhase]

WireType ==
    /\ out \in [Instances -> Seq({"item", "terminal"})]
    /\ torn \in BOOLEAN

\* Every variable keeps its type: in particular a call's item count never exceeds the
\* channel's INBOUND_BUFFER and every table entry is an accepted call.
TypeOK ==
    /\ TableType /\ FlagType /\ ChannelType /\ SignalType
    /\ ServerType /\ TaskType /\ WireType

\* A call gets at most one terminal frame, from its handler or from the transport, and
\* no item after it ("ensures exactly one terminal frame wins between the handler and
\* transport"), whoever waits for the write lock while the race is decided.  Until then
\* its wire id stays with it: while the call may still answer, and while the transport's
\* own StreamError for it is pending, no StreamCancel, no other control task and no late
\* completion of an earlier call of the same id frees its slot.  So the pending control
\* tasks hold slots, which max_in_flight_calls bounds, and the ControlTasksSaturated branch
\* of reject_inbound_overflow is never taken.
TerminalIsLast ==
    \A g \in Instances :
        /\ \A n \in 1..Len(out[g]) : out[g][n] = "terminal" => n = Len(out[g])
        /\ active[g] => Tracked(g)
        /\ cpc[g] \in {"lock", "write", "ok", "err"} /\ rpc # "dropped" =>
               Tracked(g) /\ slot[g].tombstone
        /\ error # "ControlTasksSaturated"

\* The byte counters are exact: each call's is the sum of its unreconciled items, the
\* connection's is the sum over the table, both stay within budget, and no item in a
\* channel is unaccounted for (saturating subtraction never hides an error).
BytesAgree ==
    /\ inboundBytes = SumFunction([g \in Instances |-> slot[g].bytes])
    /\ inboundBytes <= MaxConnBytes
    /\ \A g \in Instances :
        /\ slot[g].bytes = SumFunction(slot[g].sizes)
        /\ slot[g].bytes <= MaxCallBytes
        /\ slot[g].inbound => queued[g] <= Len(slot[g].sizes)

\* The table and the request stream of a call that is over are released: neither a
\* lost race for the terminal frame nor a failed write leaks a slot.  A rejected call gets
\* its StreamError, or the connection is closed: a writer stuck on a peer that does not
\* read cannot hold the control task for ever.
SlotReclaimed ==
    \A g \in Instances :
        /\ (hpc[g] = "ended" /\ Tracked(g)) ~> ~Tracked(g)
        /\ cpc[g] = "lock" ~> (closed \/ cpc[g] = "ok")

\* A half-closed request stream whose items the handler consumed reaches its end, even
\* when the peer keeps the read loop busy with other messages.
EndDelivered ==
    \A g \in Instances : (slot[g].ending /\ queued[g] = 0) ~> ~slot[g].inbound

\* Once a frame was left half written no other frame is written after it: the connection
\* is poisoned before the write lock is free again.
NothingAfterTear == [][torn => UNCHANGED out]_vars

\* A poisoned connection unwinds: the connection is dropped and every call task ends, also
\* one that waits for the lock or is stuck in a write; and nothing is written behind a torn
\* frame.
ClosedUnwinds ==
    /\ closed ~> /\ rpc = "dropped"
                 /\ \A g \in Instances : hpc[g] \in {"none", "ended", "aborted"}
    /\ NothingAfterTear
=============================================================================
