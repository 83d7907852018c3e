------------------------------ MODULE RpcClient -----------------------------
(***************************************************************************)
(* The RPC client of overseerd-rpc over one byte stream: the callers       *)
(* (open, RpcSource, RpcSink), the read_loop that demultiplexes replies,   *)
(* the write_loop that owns the write half, and ClientTasks, which drains  *)
(* the writer when the last transport handle is dropped.                   *)
(*                                                                         *)
(* Call ids come from a counter and are never used again, so a call is its *)
(* id.  Every call has a receiving process (the caller of open, then the   *)
(* owner of the RpcSource) and a sending one (the owner of the RpcSink,    *)
(* for bidirectional calls a pump task).  The server is abstract: it may   *)
(* answer a call whose Request was written with items and one terminal     *)
(* frame, and it may disappear at any time.                                *)
(***************************************************************************)
EXTENDS Integers, Sequences, FiniteSets, SequencesExt

CONSTANTS
    MaxCalls,     \* bound: calls opened
    Kinds,        \* "unary": awaited with recv(); "stream": polled with poll_recv()
    WriteBuffer,  \* WRITE_BUFFER
    ReplyBuffer,  \* REPLY_BUFFER
    MaxSends,     \* bound: frames a sink sends
    MaxReplies,   \* bound: items the server streams back per call
    Terminal      \* the terminal frames the server may end a call with

ASSUME ClientAssumption ==
    /\ MaxCalls \in Nat
    /\ Kinds \subseteq {"unary", "stream"}
    /\ WriteBuffer \in Nat \ {0} /\ ReplyBuffer \in Nat \ {0}
    /\ MaxSends \in Nat /\ MaxReplies \in Nat
    /\ Terminal \subseteq {"Response", "End", "Error"}

Calls    == 1..MaxCalls
NoCall   == 0
Commands == [call : Calls, kind : {"request", "data", "cancel"}]
Idle     == [call |-> NoCall, kind |-> "data"]

VARIABLES
    \* --- ConnectionState
    closed, shutdown, drain,
    \* --- the write queue and its actor
    queue, accepting,   \* the channel, and whether its receiver accepts
    wpc, writing,       \* where write_loop is, and the command it writes
    wire,               \* the frames written for each call
    \* --- the routing table and the lanes of each call
    route,              \* whether the CallTable has the call
    active,
    items,              \* items in the bounded lane
    lane,               \* the one-shot terminal lane
    \* --- read_loop
    rpc, frame,         \* where it is, and the call and reply it works on
    \* --- the callers
    kind, src, got,     \* call shape, receiving process, what it was given
    snk, sends,         \* sending process, frames it sent
    ack,                \* the acknowledgement a process waits for
    \* --- the server
    serving,            \* it has the Request and did not end the call
    replied,            \* items it sent
    dropped             \* the last transport handle is gone

conn   == <<closed, shutdown, drain>>
writer == <<queue, accepting, wpc, writing, wire>>
lanes  == <<route, active, items, lane>>
reader == <<rpc, frame>>
source == <<kind, src, got>>
sink   == <<snk, sends>>
server == <<serving, replied>>
vars   == <<conn, writer, lanes, reader, source, sink, ack, server, dropped>>

SourcePhase == {"idle", "insert", "check", "queue", "wait", "open", "polled",
                "unroute", "release", "done"}
SinkPhase   == {"none", "run", "queue", "wait", "done"}
ReaderPhase == {"read", "push", "complete", "overflow", "clear", "stopped"}
WriterPhase == {"loop", "write", "drain", "drainWrite", "stopped"}
NoFrame     == [call |-> NoCall, reply |-> "none"]

Init ==
    /\ closed = FALSE /\ shutdown = FALSE /\ drain = FALSE
    /\ queue = <<>> /\ accepting = TRUE /\ wpc = "loop" /\ writing = Idle
    /\ wire = [c \in Calls |-> <<>>]
    /\ route = [c \in Calls |-> FALSE] /\ active = [c \in Calls |-> FALSE]
    /\ items = [c \in Calls |-> 0] /\ lane = [c \in Calls |-> "empty"]
    /\ rpc = "read" /\ frame = NoFrame
    /\ kind = [c \in Calls |-> "unary"] /\ src = [c \in Calls |-> "idle"]
    /\ got = [c \in Calls |-> <<>>]
    /\ snk = [c \in Calls |-> "none"] /\ sends = [c \in Calls |-> 0]
    /\ ack = [c \in Calls |-> [open |-> "none", sink |-> "none"]]
    /\ serving = [c \in Calls |-> FALSE] /\ replied = [c \in Calls |-> 0]
    /\ dropped = FALSE

-----------------------------------------------------------------------------
(* Shared pieces. *)

\* The routes of C leave the table; a terminal sender that was not used is dropped.
Unroute(C) ==
    /\ route' = [c \in Calls |-> route[c] /\ c \notin C]
    /\ lane' = [c \in Calls |-> IF route[c] /\ c \in C /\ lane[c] = "empty"
                                THEN "gone" ELSE lane[c]]

CloseState == closed' = TRUE /\ shutdown' = TRUE /\ UNCHANGED drain

\* Data and cancellation share one FIFO.
CancelQueued(c) == Append(queue, [call |-> c, kind |-> "cancel"])

\* Writer::cancel never waits: when the command does not fit, the connection is poisoned.
WriterCancel(c) ==
    IF closed THEN UNCHANGED <<queue, conn>>
    ELSE IF Len(queue) < WriteBuffer /\ accepting
         THEN queue' = CancelQueued(c) /\ UNCHANGED conn
         ELSE CloseState /\ UNCHANGED queue

CanQueue == accepting /\ Len(queue) < WriteBuffer

Role(k) == IF k = "request" THEN "open" ELSE "sink"

\* What becomes of the acknowledgements of the commands in cs.
Acked(cs, outcome) ==
    [c \in Calls |-> [r \in {"open", "sink"} |->
        IF \E m \in cs : m.call = c /\ m.kind # "cancel" /\ Role(m.kind) = r
        THEN outcome ELSE ack[c][r]]]

-----------------------------------------------------------------------------
(* open *)

OpenBegin(c, k) ==
    /\ src[c] = "idle" /\ ~dropped
    /\ \A b \in 1..(c - 1) : src[b] # "idle"
    /\ kind' = [kind EXCEPT ![c] = k]
    /\ src' = [src EXCEPT ![c] = IF closed THEN "done" ELSE "insert"]
    /\ UNCHANGED <<conn, writer, lanes, reader, got, sink, ack, server, dropped>>

OpenInsert(c) ==
    /\ src[c] = "insert"
    /\ route' = [route EXCEPT ![c] = TRUE] /\ active' = [active EXCEPT ![c] = TRUE]
    /\ src' = [src EXCEPT ![c] = "check"]
    /\ UNCHANGED <<conn, writer, items, lane, reader, kind, got, sink, ack, server, dropped>>

NotRechecked == FALSE

ClosedMeanwhile == closed

\* The checks of open and of write_frame, after the route is in the table.
OpenCheck(c) ==
    /\ src[c] = "check"
    /\ src' = [src EXCEPT ![c] = IF ClosedMeanwhile THEN "unroute" ELSE "queue"]
    /\ UNCHANGED <<conn, writer, lanes, reader, kind, got, sink, ack, server, dropped>>

OpenQueue(c) ==
    /\ src[c] = "queue" /\ CanQueue
    /\ queue' = Append(queue, [call |-> c, kind |-> "request"])
    /\ ack' = [ack EXCEPT ![c].open = "pending"]
    /\ src' = [src EXCEPT ![c] = "wait"]
    /\ UNCHANGED <<conn, accepting, wpc, writing, wire, lanes, reader, kind, got, sink,
                   server, dropped>>

\* into_call: the route now belongs to the RpcSource.
OpenDone(c) ==
    /\ src[c] = "wait" /\ ack[c].open = "ok"
    /\ src' = [src EXCEPT ![c] = "open"]
    /\ snk' = [snk EXCEPT ![c] = "run"]
    /\ UNCHANGED <<conn, writer, lanes, reader, kind, got, sends, ack, server, dropped>>

\* open fails, or its future is dropped: the OpenGuard cleans up.
OpenFails(c) ==
    /\ \/ src[c] = "queue" /\ ~accepting
       \/ src[c] = "wait" /\ ack[c].open = "err"
    /\ src' = [src EXCEPT ![c] = "unroute"]
    /\ UNCHANGED <<conn, writer, lanes, reader, kind, got, sink, ack, server, dropped>>

OpenAbandoned(c) ==
    /\ src[c] \in {"queue", "wait"}
    /\ src' = [src EXCEPT ![c] = "unroute"]
    /\ UNCHANGED <<conn, writer, lanes, reader, kind, got, sink, ack, server, dropped>>

-----------------------------------------------------------------------------
(* RpcSource: recv() and poll_recv(), and the drop of either guard. *)

\* decode_unary and decode_item: what the caller is told.  "gone" is a terminal lane
\* whose sender was dropped; a stream reports it like the end of the stream.
Decoded(c, r) ==
    CASE kind[c] = "unary"  /\ r \in {"End", "gone"}       -> "closed"
      [] kind[c] = "stream" /\ r \in {"End", "gone"}       -> "none"
      [] r = "Response" /\ kind[c] = "unary"               -> "value"
      [] r = "Error"                                       -> "remote"
      [] r = "item" /\ kind[c] = "stream"                  -> "item"
      [] OTHER                                             -> "decodeError"

Answered(c) == got[c] # <<>> /\ (kind[c] = "stream" => Last(got[c]) # "item")

Give(c, r) == got' = [got EXCEPT ![c] = Append(@, Decoded(c, r))]

\* A unary or client-streaming call sends everything before it awaits the response.
Awaits(c) == src[c] = "open" /\ ~Answered(c) /\ (kind[c] = "unary" => snk[c] = "done")

TakeItem(c) ==
    /\ Awaits(c) /\ items[c] > 0
    /\ items' = [items EXCEPT ![c] = @ - 1]
    /\ Give(c, "item")
    /\ UNCHANGED <<conn, writer, route, active, lane, reader, kind, src, sink, ack, server,
                   dropped>>

\* A push of read_loop holds a clone of the item sender.
ItemsClosed(c) == ~route[c] /\ ~(rpc = "push" /\ frame.call = c)

\* recv() waits for the end of the item lane before it looks at the terminal lane.
RecvTerminal(c) ==
    /\ Awaits(c) /\ kind[c] = "unary"
    /\ items[c] = 0 /\ ItemsClosed(c) /\ lane[c] # "empty"
    /\ Give(c, lane[c])
    /\ UNCHANGED <<conn, writer, lanes, reader, kind, src, sink, ack, server, dropped>>

\* poll_recv() finds the item lane empty ...
PollItems(c) ==
    /\ Awaits(c) /\ kind[c] = "stream" /\ items[c] = 0
    /\ src' = [src EXCEPT ![c] = "polled"]
    /\ UNCHANGED <<conn, writer, lanes, reader, kind, got, sink, ack, server, dropped>>

\* ... and then polls the terminal lane.
PollTerminal(c) ==
    /\ src[c] = "polled"
    /\ src' = [src EXCEPT ![c] = "open"]
    /\ IF lane[c] = "empty" THEN UNCHANGED got ELSE Give(c, lane[c])
    /\ UNCHANGED <<conn, writer, lanes, reader, kind, sink, ack, server, dropped>>

\* The source is dropped, and with it the pump of a bidirectional call.
DropSource(c) ==
    /\ src[c] = "open"
    /\ src' = [src EXCEPT ![c] = "unroute"]
    /\ UNCHANGED <<conn, writer, lanes, reader, kind, got, sink, ack, server, dropped>>

\* Drop of OpenGuard and of RpcSource: the route first, then the cancellation.
DropRoute(c) ==
    /\ src[c] = "unroute"
    /\ Unroute({c})
    /\ src' = [src EXCEPT ![c] = "release"]
    /\ UNCHANGED <<conn, writer, active, items, reader, kind, got, sink, ack, server, dropped>>

NeverCancels(c) == FALSE

CancelsOnDrop(c) == active[c]

DropCancel(c) ==
    /\ src[c] = "release"
    /\ active' = [active EXCEPT ![c] = FALSE]
    /\ IF CancelsOnDrop(c) THEN WriterCancel(c) ELSE UNCHANGED <<queue, conn>>
    /\ src' = [src EXCEPT ![c] = "done"]
    /\ items' = [items EXCEPT ![c] = 0]
    /\ UNCHANGED <<accepting, wpc, writing, wire, route, lane, reader, kind, got, sink, ack,
                   server, dropped>>

-----------------------------------------------------------------------------
(* RpcSink: send() and finish(), both one acknowledged data frame. *)

SinkSend(c) ==
    /\ snk[c] = "run" /\ sends[c] < MaxSends
    /\ snk' = [snk EXCEPT ![c] = IF closed THEN "done" ELSE "queue"]
    /\ sends' = [sends EXCEPT ![c] = @ + 1]
    /\ UNCHANGED <<conn, writer, lanes, reader, source, ack, server, dropped>>

SinkQueue(c) ==
    /\ snk[c] = "queue" /\ CanQueue
    /\ queue' = Append(queue, [call |-> c, kind |-> "data"])
    /\ ack' = [ack EXCEPT ![c].sink = "pending"]
    /\ snk' = [snk EXCEPT ![c] = "wait"]
    /\ UNCHANGED <<conn, accepting, wpc, writing, wire, lanes, reader, source, sends, server,
                   dropped>>

SinkDone(c) ==
    /\ \/ snk[c] = "wait" /\ ack[c].sink \in {"ok", "err"}
       \/ snk[c] = "queue" /\ ~accepting
    /\ snk' = [snk EXCEPT ![c] = IF @ = "wait" /\ ack[c].sink = "ok" THEN "run" ELSE "done"]
    /\ UNCHANGED <<conn, writer, lanes, reader, source, sends, ack, server, dropped>>

\* The stream of requests ends, or the pump is aborted with the response stream.
SinkEnds(c) ==
    /\ \/ snk[c] = "run"
       \/ snk[c] \in {"queue", "wait"} /\ src[c] \in {"unroute", "release", "done"}
    /\ snk' = [snk EXCEPT ![c] = "done"]
    /\ UNCHANGED <<conn, writer, lanes, reader, source, sends, ack, server, dropped>>

-----------------------------------------------------------------------------
(* read_loop *)

ReadItem(c) ==
    /\ rpc = "read" /\ serving[c] /\ replied[c] < MaxReplies
    /\ replied' = [replied EXCEPT ![c] = @ + 1]
    /\ IF route[c] THEN rpc' = "push" /\ frame' = [call |-> c, reply |-> "item"]
                   ELSE UNCHANGED reader
    /\ UNCHANGED <<conn, writer, lanes, source, sink, ack, serving, dropped>>

\* The read loop takes the route, and with it the terminal sender, out of the table.
TakeRoute(c, r) ==
    IF route[c] THEN /\ route' = [route EXCEPT ![c] = FALSE]
                     /\ rpc' = "complete" /\ frame' = [call |-> c, reply |-> r]
                ELSE /\ rpc' = "read" /\ frame' = NoFrame /\ UNCHANGED route

ReadTerminal(c, r) ==
    /\ rpc = "read" /\ serving[c]
    /\ serving' = [serving EXCEPT ![c] = FALSE]
    /\ TakeRoute(c, r)
    /\ UNCHANGED <<conn, writer, active, items, lane, source, sink, ack, replied, dropped>>

LaneFits(c) == items[c] < ReplyBuffer

\* try_send on the item lane: delivered, the receiver is gone, or the lane is full.
PushItem ==
    LET c == frame.call
    IN  /\ rpc = "push"
        /\ IF src[c] = "done"
           THEN Unroute({c}) /\ rpc' = "read" /\ frame' = NoFrame /\ UNCHANGED items
           ELSE IF LaneFits(c)
                THEN /\ items' = [items EXCEPT ![c] = @ + 1]
                     /\ rpc' = "read" /\ frame' = NoFrame /\ UNCHANGED <<route, lane>>
                ELSE TakeRoute(c, "Overflow") /\ UNCHANGED <<items, lane>>
        /\ UNCHANGED <<conn, writer, active, source, sink, ack, server, dropped>>

Published(c) == frame.reply

\* The rest of complete_call.
CompleteCall ==
    LET c == frame.call
    IN  /\ rpc = "complete"
        /\ active' = [active EXCEPT ![c] = FALSE]
        /\ lane' = [lane EXCEPT ![c] = Published(c)]
        /\ IF frame.reply = "Overflow"
           THEN rpc' = "overflow" /\ UNCHANGED frame
           ELSE rpc' = "read" /\ frame' = NoFrame
        /\ UNCHANGED <<conn, writer, route, items, source, sink, ack, server, dropped>>

CancelOverflowedCall ==
    /\ rpc = "overflow"
    /\ WriterCancel(frame.call)
    /\ rpc' = "read" /\ frame' = NoFrame
    /\ UNCHANGED <<accepting, wpc, writing, wire, lanes, source, sink, ack, server, dropped>>

\* The server disappears, sends what it may not, or the shutdown token fires.
ReaderStops ==
    /\ rpc = "read"
    /\ CloseState
    /\ rpc' = "clear"
    /\ UNCHANGED <<writer, lanes, frame, source, sink, ack, server, dropped>>

ClearNothing == {}

ClearedCalls == Calls

ReaderClears ==
    /\ rpc = "clear"
    /\ Unroute(ClearedCalls)
    /\ rpc' = "stopped"
    /\ UNCHANGED <<conn, writer, active, items, frame, source, sink, ack, server, dropped>>

-----------------------------------------------------------------------------
(* write_loop *)

Take(from, to) ==
    /\ wpc = from /\ ~shutdown /\ queue # <<>>
    /\ writing' = Head(queue) /\ queue' = Tail(queue)
    /\ wpc' = to
    /\ UNCHANGED <<conn, accepting, wire, lanes, reader, source, sink, ack, server, dropped>>

WriterTakes == ~drain /\ Take("loop", "write")

DrainTakes == Take("drain", "drainWrite")

Written ==
    /\ wpc \in {"write", "drainWrite"} /\ ~shutdown
    /\ wire' = [wire EXCEPT ![writing.call] = Append(@, writing.kind)]
    /\ ack' = Acked({writing}, "ok")
    /\ serving' = [serving EXCEPT ![writing.call] = @ \/ writing.kind = "request"]
    /\ wpc' = IF wpc = "write" THEN "loop" ELSE "drain"
    /\ writing' = Idle
    /\ UNCHANGED <<conn, queue, accepting, lanes, reader, source, sink, replied, dropped>>

\* write_loop ends: the connection is closed, the queue and its commands are dropped.
StopWriter ==
    /\ CloseState
    /\ accepting' = FALSE /\ queue' = <<>>
    /\ ack' = Acked(Range(queue) \cup {writing}, "err")
    /\ wpc' = "stopped" /\ writing' = Idle
    /\ UNCHANGED <<wire, lanes, reader, source, sink, server, dropped>>

\* An I/O error, or the shutdown token interrupts the write.
WriteFails == wpc \in {"write", "drainWrite"} /\ StopWriter

WriterShutdown == wpc \in {"loop", "drain"} /\ shutdown /\ StopWriter

\* drain_write_queue closes the queue.  Once it is empty, the select still has its branch
\* on the shutdown token, so its else branch is never taken: the writer waits for Watchdog.
StartDrain ==
    /\ wpc = "loop" /\ ~shutdown /\ drain
    /\ accepting' = FALSE /\ wpc' = "drain"
    /\ UNCHANGED <<conn, queue, writing, wire, lanes, reader, source, sink, ack, server, dropped>>

-----------------------------------------------------------------------------
(* ClientTasks *)

\* Every call holds a transport handle until it is over.
DropTransport ==
    /\ ~dropped
    /\ \A c \in Calls : src[c] \in {"idle", "done"} /\ snk[c] \in {"none", "done"}
    /\ dropped' = TRUE
    /\ closed' = TRUE /\ drain' = TRUE /\ UNCHANGED shutdown
    /\ Unroute(Calls)
    /\ UNCHANGED <<writer, active, items, reader, source, sink, ack, server>>

ReaderAborted ==
    /\ dropped /\ rpc = "read"
    /\ rpc' = "stopped"
    /\ UNCHANGED <<conn, writer, lanes, frame, source, sink, ack, server, dropped>>

WatchedPhases == WriterPhase \ {"stopped"}

\* The drain deadline: shutdown, and the writer task is aborted.
Watchdog == dropped /\ wpc \in WatchedPhases /\ StopWriter

-----------------------------------------------------------------------------
Opening(c) ==
    \/ \E k \in Kinds : OpenBegin(c, k)
    \/ OpenInsert(c) \/ OpenCheck(c) \/ OpenQueue(c) \/ OpenDone(c) \/ OpenFails(c)

Receiving(c) == TakeItem(c) \/ RecvTerminal(c) \/ PollItems(c) \/ PollTerminal(c)

Dropping(c) == DropRoute(c) \/ DropCancel(c)

Sending(c) == SinkSend(c) \/ SinkQueue(c) \/ SinkDone(c) \/ SinkEnds(c)

Reader ==
    \/ \E c \in Calls : ReadItem(c) \/ (\E r \in Terminal : ReadTerminal(c, r))
    \/ PushItem \/ CompleteCall \/ CancelOverflowedCall \/ ReaderStops \/ ReaderClears
    \/ ReaderAborted

Write ==
    WriterTakes \/ DrainTakes \/ Written \/ WriteFails \/ WriterShutdown \/ StartDrain

Next ==
    \/ \E c \in Calls : \/ Opening(c) \/ OpenAbandoned(c) \/ Receiving(c) \/ DropSource(c)
                        \/ Dropping(c) \/ Sending(c)
    \/ Reader \/ Write \/ DropTransport \/ Watchdog

Spec == Init /\ [][Next]_vars

\* Both actors and every drop run when they can; a read returns once the connection is
\* shut down.  The server owes no reply, a socket no progress, a caller no further call.
Fairness ==
    /\ WF_vars(PushItem) /\ WF_vars(CompleteCall) /\ WF_vars(CancelOverflowedCall)
    /\ WF_vars(shutdown /\ ReaderStops) /\ WF_vars(ReaderClears)
    /\ WF_vars(WriterTakes) /\ WF_vars(DrainTakes) /\ WF_vars(WriterShutdown)
    /\ WF_vars(shutdown /\ WriteFails) /\ WF_vars(StartDrain)
    /\ WF_vars(Watchdog)
    /\ \A c \in Calls : WF_vars(Dropping(c))

\* The peer keeps reading: a write is finished or fails.
SocketMoves == WF_vars(Written \/ WriteFails)

FairSpec == Spec /\ Fairness

-----------------------------------------------------------------------------
(* Properties *)

LinkType ==
    closed \in BOOLEAN /\ shutdown \in BOOLEAN /\ drain \in BOOLEAN /\ dropped \in BOOLEAN

QueueType == queue \in Seq(Commands) /\ Len(queue) <= WriteBuffer

WriterType ==
    /\ accepting \in BOOLEAN
    /\ wpc \in WriterPhase /\ writing \in Commands \cup {Idle}
    /\ wire \in [Calls -> Seq({"request", "data", "cancel"})]

LaneType ==
    /\ route \in [Calls -> BOOLEAN] /\ active \in [Calls -> BOOLEAN]
    /\ items \in [Calls -> 0..ReplyBuffer]
    /\ lane \in [Calls -> Terminal \cup {"empty", "gone", "Overflow"}]

CallerType ==
    /\ kind \in [Calls -> {"unary", "stream"}] /\ src \in [Calls -> SourcePhase]
    /\ snk \in [Calls -> SinkPhase] /\ sends \in [Calls -> 0..MaxSends]

ServerType ==
    /\ rpc \in ReaderPhase
    /\ serving \in [Calls -> BOOLEAN] /\ replied \in [Calls -> 0..MaxReplies]

\* Every variable keeps its type; no lane holds more than its buffer.
TypeOK == LinkType /\ QueueType /\ WriterType /\ LaneType /\ CallerType /\ ServerType

\* A caller that still waits has an end coming: its route is in the table of a reader that
\* will complete or clear it, the reader is completing it, or its terminal lane is settled.
CallerHasEnd ==
    \A c \in Calls : src[c] \in {"wait", "open", "polled"} =>
        \/ route[c] /\ rpc # "stopped"
        \/ lane[c] # "empty"
        \/ rpc = "complete" /\ frame.call = c

\* No Request follows a StreamCancel of its call on the wire.
CancelAfterRequest ==
    \A c \in Calls : \A m, n \in 1..Len(wire[c]) :
        m < n /\ wire[c][m] = "cancel" => wire[c][n] # "request"

\* A call the server runs and whose caller is gone is cancelled on the wire, or the whole
\* connection goes down: no drop, failed open or overflow leaves remote work orphaned, as
\* long as the peer keeps reading.  A cancellation never overtakes the request it cancels:
\* the server would drop it as unknown and then run the call for nobody.
NoOrphan ==
    /\ SocketMoves => \A c \in Calls : (serving[c] /\ src[c] = "done") ~>
        (~serving[c] \/ "cancel" \in Range(wire[c]) \/ wpc = "stopped")
    /\ []CancelAfterRequest

\* When the connection is shut down every caller that holds its stream, waiting on it or
\* not, has its end in its lane or is done with it.  The last transport
\* handle never leaves a writer behind, also when the peer has stopped reading in the middle
\* of a frame.
ShutdownResolves ==
    /\ \A c \in Calls : (shutdown /\ src[c] \in {"open", "polled"}) ~>
        (lane[c] # "empty" \/ src[c] = "done")
    /\ dropped ~> wpc = "stopped"
=============================================================================
