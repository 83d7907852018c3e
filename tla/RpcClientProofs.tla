-------------------------- MODULE RpcClientProofs ---------------------------
(***************************************************************************)
(* Proofs about RpcClient, for every number of calls, every buffer size    *)
(* and every set of terminal frames.                                       *)
(*                                                                         *)
(* A call is answered through a route in a table the reader empties when   *)
(* it stops.  ClientInv follows the route from its insertion to the lane   *)
(* it settles, across the check of the closed flag that decides the race   *)
(* between open and the reader's last sweep.  OrderInv follows the         *)
(* commands of one call through queue, writer and wire.                    *)
(***************************************************************************)
EXTENDS RpcClient, TLAPS

-----------------------------------------------------------------------------
(* The inductive invariant.                                                 *)

\* While the reader works on a frame it knows its call, and what it publishes in a
\* terminal lane settles the lane.
FrameNamed ==
    /\ rpc \in {"push", "complete", "overflow"} => frame.call \in Calls
    /\ rpc = "complete" => frame.reply \in Terminal \cup {"Overflow"}

\* The writer works on a command of the queue.
WriterNamed == wpc \in {"write", "drainWrite"} => writing \in Commands

\* The connection is marked closed before the reader clears the table, and the last
\* handle is dropped only when no call is left.
ClosedFirst ==
    /\ rpc \in {"clear", "stopped"} => closed
    /\ dropped => closed /\ \A c \in Calls : src[c] \in {"idle", "done"}

\* The reader is about to settle call c.
Completing(c) == rpc = "complete" /\ frame.call = c

\* From the insertion of its route on, a call is in the table, settled or being settled;
\* once open has found the connection open after that, the table it is in has a reader.
RouteSettles ==
    \A c \in Calls :
        /\ src[c] \in {"check", "queue", "wait", "open", "polled"} =>
               route[c] \/ lane[c] # "empty" \/ Completing(c)
        /\ src[c] \in {"queue", "wait", "open", "polled"} /\ rpc = "stopped" =>
               lane[c] # "empty"

\* The inductive invariant.
ClientInv == TypeOK /\ FrameNamed /\ WriterNamed /\ ClosedFirst /\ RouteSettles

USE ClientAssumption

-----------------------------------------------------------------------------
(* Type correctness.                                                        *)

\* A command appended to a queue with room leaves a queue within its buffer.
LEMMA QueueAppend ==
    ASSUME QueueType, Len(queue) < WriteBuffer, NEW m \in Commands
    PROVE  Append(queue, m) \in Seq(Commands) /\ Len(Append(queue, m)) <= WriteBuffer
  BY DEF QueueType

\* Writer::cancel keeps the types.
LEMMA CancelTypes ==
    ASSUME LinkType, QueueType, NEW c \in Calls, WriterCancel(c), UNCHANGED dropped
    PROVE  LinkType' /\ QueueType'
<1>1. [call |-> c, kind |-> "cancel"] \in Commands
  BY DEF Commands
<1>2. CASE Len(queue) < WriteBuffer /\ queue' = CancelQueued(c) /\ UNCHANGED conn
  BY <1>1, <1>2, QueueAppend DEF CancelQueued, QueueType, LinkType, conn
<1>3. CASE UNCHANGED queue /\ (CloseState \/ UNCHANGED conn)
  BY <1>3 DEF QueueType, LinkType, CloseState, conn
<1>q. QED
  BY <1>2, <1>3 DEF WriterCancel

\* Taking routes out of the table keeps the types.
LEMMA UnrouteTypes ==
    ASSUME LaneType, NEW C, Unroute(C), UNCHANGED <<active, items>>
    PROVE  LaneType'
  BY DEF LaneType, Unroute

\* A caller's steps keep the types.
LEMMA CallerStepTypes ==
    ASSUME TypeOK, NEW c \in Calls,
           Opening(c) \/ OpenAbandoned(c) \/ Receiving(c) \/ DropSource(c) \/ Dropping(c) \/ Sending(c)
    PROVE  TypeOK'
<1> USE DEF SourcePhase, SinkPhase
<1> USE DEF TypeOK
<1>1. ASSUME NEW k \in Kinds, OpenBegin(c, k) PROVE TypeOK'
  BY <1>1 DEF OpenBegin, conn, writer, lanes, reader, sink, server, LinkType, QueueType,
     WriterType, LaneType, CallerType, ServerType
<1>2. CASE OpenInsert(c)
  BY <1>2 DEF OpenInsert, conn, writer, lanes, reader, sink, server, LinkType, QueueType,
     WriterType, LaneType, CallerType, ServerType
<1>3. CASE OpenCheck(c) \/ OpenFails(c) \/ OpenAbandoned(c) \/ DropSource(c) \/ PollItems(c)
  <2>1. PICK phase \in SourcePhase : src' = [src EXCEPT ![c] = phase]
    BY <1>3 DEF OpenCheck, OpenFails, OpenAbandoned, DropSource, PollItems
  <2>2. UNCHANGED <<conn, writer, lanes, reader, kind, sink, server, dropped>>
    BY <1>3 DEF OpenCheck, OpenFails, OpenAbandoned, DropSource, PollItems
  <2>3. src' \in [Calls -> SourcePhase]
    BY <2>1 DEF CallerType
  <2>q. QED
    BY <2>2, <2>3 DEF conn, writer, lanes, reader, sink, server, LinkType, QueueType,
       WriterType, LaneType, CallerType, ServerType
<1>4. CASE OpenQueue(c)
  <2>1. [call |-> c, kind |-> "request"] \in Commands
    BY DEF Commands
  <2>q. QED
    BY <1>4, <2>1, QueueAppend DEF OpenQueue, CanQueue, conn, writer, lanes,
       reader, sink, server, LinkType, QueueType, WriterType, LaneType, CallerType, ServerType
<1>5a. CASE OpenDone(c)
  BY <1>5a DEF OpenDone, conn, writer, lanes, reader,
     source, sink, server, LinkType, QueueType, WriterType, LaneType, CallerType, ServerType
<1>5b. CASE SinkSend(c)
  BY <1>5b DEF SinkSend, conn, writer, lanes, reader,
     source, sink, server, LinkType, QueueType, WriterType, LaneType, CallerType, ServerType
<1>5c. CASE SinkDone(c)
  BY <1>5c DEF SinkDone, conn, writer, lanes, reader,
     source, sink, server, LinkType, QueueType, WriterType, LaneType, CallerType, ServerType
<1>5d. CASE SinkEnds(c)
  BY <1>5d DEF SinkEnds, conn, writer, lanes, reader,
     source, sink, server, LinkType, QueueType, WriterType, LaneType, CallerType, ServerType
<1>6a. CASE TakeItem(c)
  BY <1>6a DEF TakeItem, conn, writer, lanes, reader,
     source, sink, server, LinkType, QueueType, WriterType, LaneType, CallerType, ServerType
<1>6b. CASE RecvTerminal(c)
  BY <1>6b DEF RecvTerminal, conn, writer, lanes, reader,
     source, sink, server, LinkType, QueueType, WriterType, LaneType, CallerType, ServerType
<1>6c. CASE PollTerminal(c)
  BY <1>6c DEF PollTerminal, conn, writer, lanes, reader,
     source, sink, server, LinkType, QueueType, WriterType, LaneType, CallerType, ServerType
<1>7. CASE DropRoute(c)
  <2>1. LaneType'
    BY <1>7, UnrouteTypes DEF DropRoute
  <2>q. QED
    BY <1>7, <2>1 DEF DropRoute, conn, writer, reader, sink, server, LinkType,
       QueueType, WriterType, CallerType, ServerType
<1>8. CASE DropCancel(c)
  <2>1. LinkType' /\ QueueType'
    <3>1. CASE WriterCancel(c)
      BY <1>8, <3>1, CancelTypes DEF DropCancel
    <3>2. CASE UNCHANGED <<queue, conn>>
      BY <1>8, <3>2 DEF DropCancel, LinkType, QueueType, conn
    <3>q. QED
      BY <1>8, <3>1, <3>2 DEF DropCancel
  <2>q. QED
    BY <1>8, <2>1 DEF DropCancel, reader, sink, server,
       WriterType, LaneType, CallerType, ServerType
<1>9. CASE SinkQueue(c)
  <2>1. [call |-> c, kind |-> "data"] \in Commands
    BY DEF Commands
  <2>q. QED
    BY <1>9, <2>1, QueueAppend DEF SinkQueue, CanQueue, conn, writer, lanes,
       reader, source, server, LinkType, QueueType, WriterType, LaneType, CallerType, ServerType
<1>q. QED
  BY <1>1, <1>2, <1>3, <1>4, <1>5a, <1>5b, <1>5c, <1>5d, <1>6a, <1>6b, <1>6c, <1>7, <1>8, <1>9
     DEF Opening, Receiving, Dropping, Sending

\* So do the reader's.
LEMMA ReaderStepTypes ==
    ASSUME TypeOK, FrameNamed, Reader
    PROVE  TypeOK'
<1> USE DEF TypeOK
<1>1. ASSUME NEW c \in Calls, ReadItem(c) PROVE TypeOK'
  BY <1>1, SMTT(30) DEF ReadItem, ReaderPhase, conn, writer, lanes, reader, source, sink, LinkType,
     QueueType, WriterType, LaneType, CallerType, ServerType
<1>2. ASSUME NEW c \in Calls, NEW r \in Terminal, ReadTerminal(c, r) PROVE TypeOK'
  BY <1>2 DEF ReadTerminal, TakeRoute, ReaderPhase, conn, writer, source, sink, LinkType,
     QueueType, WriterType, LaneType, CallerType, ServerType
<1>3. CASE PushItem
  <2>0. frame.call \in Calls
    BY <1>3 DEF PushItem, FrameNamed
  <2>1. LaneType' /\ rpc' \in ReaderPhase
    <3>1. CASE src[frame.call] = "done"
      BY <1>3, <3>1, UnrouteTypes DEF PushItem, ReaderPhase
    <3>2. CASE src[frame.call] # "done" /\ LaneFits(frame.call)
      BY <1>3, <2>0, <3>2 DEF PushItem, LaneFits, LaneType, ReaderPhase
    <3>3. CASE src[frame.call] # "done" /\ ~LaneFits(frame.call)
      BY <1>3, <2>0, <3>3 DEF PushItem, TakeRoute, LaneType, ReaderPhase
    <3>q. QED
      BY <3>1, <3>2, <3>3
  <2>q. QED
    BY <1>3, <2>1 DEF PushItem, conn, writer, source, sink, server, LinkType, QueueType,
       WriterType, CallerType, ServerType
<1>4. CASE CompleteCall
  BY <1>4 DEF CompleteCall, Published, FrameNamed, ReaderPhase, conn, writer, source, sink,
     server, LinkType, QueueType, WriterType, LaneType, CallerType, ServerType
<1>5. CASE CancelOverflowedCall
  <2>1. LinkType' /\ QueueType'
    BY <1>5, CancelTypes DEF CancelOverflowedCall, FrameNamed
  <2>q. QED
    BY <1>5, <2>1 DEF CancelOverflowedCall, ReaderPhase, lanes, source, sink, server,
       WriterType, LaneType, CallerType, ServerType
<1>6. CASE ReaderStops
  BY <1>6 DEF ReaderStops, CloseState, ReaderPhase, writer, lanes, source, sink, server,
     LinkType, QueueType, WriterType, LaneType, CallerType, ServerType
<1>7. CASE ReaderClears
  <2>1. LaneType'
    BY <1>7, UnrouteTypes DEF ReaderClears
  <2>q. QED
    BY <1>7, <2>1 DEF ReaderClears, ReaderPhase, conn, writer, source, sink, server,
       LinkType, QueueType, WriterType, CallerType, ServerType
<1>8. CASE ReaderAborted
  BY <1>8 DEF ReaderAborted, ReaderPhase, conn, writer, lanes, source, sink, server,
     LinkType, QueueType, WriterType, LaneType, CallerType, ServerType
<1>q. QED
  BY <1>1, <1>2, <1>3, <1>4, <1>5, <1>6, <1>7, <1>8 DEF Reader

\* The head of the queue leaves it.
LEMMA TakeTypes ==
    ASSUME TypeOK, NEW from, NEW to \in WriterPhase, Take(from, to)
    PROVE  TypeOK' /\ writing' \in Commands
<1>1. /\ Head(queue) \in Commands /\ Tail(queue) \in Seq(Commands)
      /\ Len(Tail(queue)) <= WriteBuffer
  BY DEF Take, TypeOK, QueueType
<1>q. QED
  BY <1>1 DEF Take, conn, lanes, reader, source, sink, server, TypeOK, LinkType, QueueType,
     WriterType, LaneType, CallerType, ServerType

\* So does stopping the writer, which closes the queue.
LEMMA StopWriterTypes ==
    ASSUME TypeOK, StopWriter
    PROVE  TypeOK'
<1>1. QueueType'
  BY DEF StopWriter, QueueType
<1>2. LinkType' /\ WriterType'
  BY DEF StopWriter, CloseState, WriterPhase, TypeOK, LinkType, WriterType
<1>q. QED
  BY <1>1, <1>2 DEF StopWriter, lanes, reader, source, sink, server, TypeOK, LaneType,
     CallerType, ServerType

\* So do the writer's steps, dropping the transport and the watchdog.
LEMMA WriteStepTypes ==
    ASSUME TypeOK, WriterNamed, Write \/ DropTransport \/ Watchdog
    PROVE  TypeOK'
<1>1. CASE WriterTakes \/ DrainTakes
  BY <1>1, TakeTypes DEF WriterTakes, DrainTakes, WriterPhase
<1>2. CASE Written
  <2>1. writing \in Commands
    BY <1>2 DEF Written, WriterNamed
  <2>2. /\ writing.call \in Calls
        /\ Append(wire[writing.call], writing.kind) \in Seq({"request", "data", "cancel"})
    BY <2>1 DEF Commands, TypeOK, WriterType
  <2>q. QED
    BY <1>2, <2>2 DEF Written, WriterPhase, conn, lanes, reader, source, sink, TypeOK,
       LinkType, QueueType, WriterType, LaneType, CallerType, ServerType
<1>3. CASE WriteFails \/ WriterShutdown \/ Watchdog
  BY <1>3, StopWriterTypes DEF WriteFails, WriterShutdown, Watchdog
<1>4. CASE StartDrain
  BY <1>4 DEF StartDrain, WriterPhase, conn, lanes, reader, source, sink, server, TypeOK,
     LinkType, QueueType, WriterType, LaneType, CallerType, ServerType
<1>5. CASE DropTransport
  <2>1. LaneType'
    BY <1>5, UnrouteTypes DEF DropTransport, TypeOK
  <2>q. QED
    BY <1>5, <2>1 DEF DropTransport, writer, reader, source, sink, server, TypeOK,
       LinkType, QueueType, WriterType, CallerType, ServerType
<1>q. QED
  BY <1>1, <1>2, <1>3, <1>4, <1>5 DEF Write

-----------------------------------------------------------------------------
(* The other parts of the invariant.                                        *)

\* What the callers' own steps leave of them.
LEMMA CallerStepInv ==
    ASSUME ClientInv, NEW c \in Calls,
           Opening(c) \/ OpenAbandoned(c) \/ Receiving(c) \/ DropSource(c) \/ Dropping(c) \/ Sending(c)
    PROVE  (FrameNamed /\ WriterNamed /\ ClosedFirst /\ RouteSettles)'
<1>1. UNCHANGED <<rpc, frame, wpc, writing, dropped>> /\ (closed => closed')
  BY DEF Opening, OpenBegin, OpenInsert, OpenCheck, OpenQueue, OpenDone, OpenFails, OpenAbandoned,
     Receiving, TakeItem, RecvTerminal, PollItems, PollTerminal, DropSource, Dropping, DropRoute,
     DropCancel, WriterCancel, CloseState, Sending, SinkSend, SinkQueue, SinkDone, SinkEnds,
     conn, writer, reader
<1>2. FrameNamed' /\ WriterNamed'
  BY <1>1 DEF ClientInv, FrameNamed, WriterNamed
<1>3. \A d \in Calls \ {c} : src'[d] = src[d] /\ route'[d] = route[d] /\ lane'[d] = lane[d]
  <2>0. DOMAIN src = Calls /\ DOMAIN route = Calls /\ DOMAIN lane = Calls
    BY DEF ClientInv, TypeOK, LaneType, CallerType
  <2>1. CASE Opening(c) \/ OpenAbandoned(c)
    BY <2>0, <2>1 DEF Opening, OpenBegin, OpenInsert, OpenCheck, OpenQueue, OpenDone, OpenFails,
       OpenAbandoned, lanes, source
  <2>2. CASE Receiving(c) \/ DropSource(c)
    BY <2>0, <2>2 DEF Receiving, TakeItem, RecvTerminal, PollItems, PollTerminal, DropSource, lanes,
       source
  <2>3. CASE Dropping(c)
    <3>1. CASE DropRoute(c)
      <4>1. ASSUME NEW d \in Calls \ {c} PROVE route'[d] = route[d]
        <5>1. route[d] \in BOOLEAN
          BY DEF ClientInv, TypeOK, LaneType
        <5>2. route'[d] = (route[d] /\ d \notin {c})
          BY <3>1 DEF DropRoute, Unroute
        <5>q. QED
          BY <5>1, <5>2
      <4>2. \A d \in Calls \ {c} : src'[d] = src[d] /\ lane'[d] = lane[d]
        BY <2>0, <3>1 DEF DropRoute, Unroute
      <4>q. QED
        BY <4>1, <4>2
    <3>2. CASE DropCancel(c)
      BY <2>0, <3>2 DEF DropCancel, lanes
    <3>q. QED
      BY <2>3, <3>1, <3>2 DEF Dropping
  <2>4. CASE Sending(c)
    BY <2>4 DEF Sending, SinkSend, SinkQueue, SinkDone, SinkEnds, lanes, source
  <2>q. QED
    BY <2>1, <2>2, <2>3, <2>4
<1>4. ~dropped \/ src[c]' \in {"idle", "done"}
  BY DEF ClientInv, TypeOK, CallerType, ClosedFirst, Opening, OpenBegin, OpenInsert, OpenCheck,
       OpenQueue, OpenDone, OpenFails, OpenAbandoned,
     Receiving, Awaits, TakeItem, RecvTerminal, PollItems, PollTerminal, DropSource, Dropping,
     DropRoute,
     DropCancel, Sending, SinkSend, SinkQueue, SinkDone, SinkEnds, source
<1>5. ClosedFirst'
  BY <1>1, <1>3, <1>4 DEF ClientInv, ClosedFirst
<1>6. /\ src[c]' \in {"check", "queue", "wait", "open", "polled"} =>
             route[c]' \/ lane[c]' # "empty" \/ Completing(c)
      /\ src[c]' \in {"queue", "wait", "open", "polled"} /\ rpc = "stopped" => lane[c]' # "empty"
  <2> USE DEF ClientInv, TypeOK, LaneType, CallerType, RouteSettles
  <2>1. CASE \E k \in Kinds : OpenBegin(c, k)
    BY <2>1 DEF OpenBegin
  <2>2. CASE OpenInsert(c)
    BY <2>2 DEF OpenInsert
  <2>3. CASE OpenCheck(c)
    BY <2>3 DEF OpenCheck, ClosedMeanwhile, ClosedFirst, lanes
  <2>4. CASE OpenQueue(c) \/ OpenDone(c) \/ OpenFails(c) \/ OpenAbandoned(c) \/ DropSource(c)
    BY <2>4 DEF OpenQueue, OpenDone, OpenFails, OpenAbandoned, DropSource, lanes
  <2>5. CASE Receiving(c)
    BY <2>5 DEF Receiving, Awaits, TakeItem, RecvTerminal, PollItems, PollTerminal, lanes
  <2>6. CASE Dropping(c)
    BY <2>6 DEF Dropping, DropRoute, DropCancel
  <2>7. CASE Sending(c)
    BY <2>7 DEF Sending, SinkSend, SinkQueue, SinkDone, SinkEnds, lanes, source
  <2>q. QED
    BY <2>1, <2>2, <2>3, <2>4, <2>5, <2>6, <2>7 DEF Opening
<1>7. RouteSettles'
  BY <1>1, <1>3, <1>6 DEF ClientInv, RouteSettles, Completing
<1>q. QED
  BY <1>2, <1>5, <1>7

\* What the read loop's steps leave of them.
LEMMA ReaderStepInv ==
    ASSUME ClientInv, Reader
    PROVE  (FrameNamed /\ WriterNamed /\ ClosedFirst /\ RouteSettles)'
<1>1. UNCHANGED <<wpc, writing, dropped, src>> /\ (closed => closed')
  BY DEF Reader, ReadItem, ReadTerminal, TakeRoute, PushItem, CompleteCall, CancelOverflowedCall,
     WriterCancel, CloseState, ReaderStops, ReaderClears, ReaderAborted, conn, writer, source
<1>2. WriterNamed'
  BY <1>1 DEF ClientInv, WriterNamed
<1>3. FrameNamed'
  BY DEF ClientInv, FrameNamed, Reader, ReadItem, ReadTerminal, TakeRoute, PushItem, CompleteCall,
     CancelOverflowedCall, ReaderStops, ReaderClears, ReaderAborted, reader
<1>4. ClosedFirst'
  <2>1. rpc' \in {"clear", "stopped"} => closed'
    BY <1>1 DEF ClientInv, ClosedFirst, Reader, ReadItem, ReadTerminal, TakeRoute, PushItem,
       CompleteCall, CancelOverflowedCall, ReaderStops, CloseState, ReaderClears, ReaderAborted,
       reader
  <2>q. QED
    BY <1>1, <2>1 DEF ClientInv, ClosedFirst
<1>5. RouteSettles'
  <2> USE DEF ClientInv, TypeOK, LaneType, RouteSettles, Completing
  <2>1. ASSUME NEW c \in Calls, ReadItem(c) PROVE RouteSettles'
    BY <1>1, <2>1 DEF ReadItem, lanes, reader
  <2>2. ASSUME NEW c \in Calls, NEW r \in Terminal, ReadTerminal(c, r) PROVE RouteSettles'
    BY <1>1, <2>2 DEF ReadTerminal, TakeRoute
  <2>3. CASE PushItem
    <3>0. frame.call \in Calls
      BY <2>3 DEF PushItem, FrameNamed
    <3>1. CASE src[frame.call] = "done"
      BY <1>1, <2>3, <3>0, <3>1 DEF PushItem, Unroute
    <3>2. CASE src[frame.call] # "done" /\ LaneFits(frame.call)
      BY <1>1, <2>3, <3>2 DEF PushItem
    <3>3. CASE src[frame.call] # "done" /\ ~LaneFits(frame.call)
      BY <1>1, <2>3, <3>0, <3>3 DEF PushItem, TakeRoute
    <3>q. QED
      BY <3>1, <3>2, <3>3
  <2>4. CASE CompleteCall
    BY <1>1, <2>4 DEF CompleteCall, Published, FrameNamed
  <2>5. CASE CancelOverflowedCall \/ ReaderStops
    BY <1>1, <2>5 DEF CancelOverflowedCall, ReaderStops, lanes
  <2>6. CASE ReaderClears
    BY <1>1, <2>6 DEF ReaderClears, ClearedCalls, Unroute
  <2>7. CASE ReaderAborted
    BY <1>1, <2>7 DEF ReaderAborted, ClosedFirst, lanes
  <2>q. QED
    BY <2>1, <2>2, <2>3, <2>4, <2>5, <2>6, <2>7 DEF Reader
<1>q. QED
  BY <1>2, <1>3, <1>4, <1>5

\* What the writer and the drop of the last handle leave of them.
LEMMA WriteStepInv ==
    ASSUME ClientInv, Write \/ DropTransport \/ Watchdog
    PROVE  (FrameNamed /\ WriterNamed /\ ClosedFirst /\ RouteSettles)'
<1>1. UNCHANGED <<rpc, frame, src>> /\ (closed => closed')
  BY DEF Write, WriterTakes, DrainTakes, Take, Written, WriteFails, WriterShutdown, StartDrain,
     DropTransport, Watchdog, StopWriter, CloseState, conn, reader, source
<1>2. FrameNamed'
  BY <1>1 DEF ClientInv, FrameNamed
<1>3. WriterNamed'
  <2>1. CASE WriterTakes \/ DrainTakes
    BY <2>1, TakeTypes DEF WriterTakes, DrainTakes, WriterPhase, WriterNamed, ClientInv
  <2>2. CASE Written \/ WriteFails \/ WriterShutdown \/ StartDrain \/ DropTransport \/ Watchdog
    BY <2>2 DEF ClientInv, WriterNamed, Written, WriteFails, WriterShutdown, StartDrain,
       DropTransport, Watchdog, StopWriter, writer
  <2>q. QED
    BY <2>1, <2>2 DEF Write
<1>4. CASE Write \/ Watchdog
  <2>1. UNCHANGED <<route, lane, dropped>>
    BY <1>4 DEF Write, WriterTakes, DrainTakes, Take, Written, WriteFails, WriterShutdown,
       StartDrain, Watchdog, StopWriter, lanes
  <2>q. QED
    BY <1>1, <1>2, <1>3, <2>1 DEF ClientInv, ClosedFirst, RouteSettles, Completing
<1>5. CASE DropTransport
  BY <1>1, <1>2, <1>3, <1>5 DEF ClientInv, DropTransport, ClosedFirst, RouteSettles
<1>q. QED
  BY <1>4, <1>5

\* A client begins with nothing in its tables.
LEMMA ClientInvInit == Init => ClientInv
<1> SUFFICES ASSUME Init PROVE ClientInv
  OBVIOUS
<1>0. QueueType
  BY DEF Init, QueueType
<1>1a. LinkType
  BY DEF Init, LinkType
<1>1b. LaneType
  BY DEF Init, LaneType
<1>1c. ServerType
  BY DEF Init, ServerType, ReaderPhase
<1>2. WriterType /\ CallerType
  BY DEF Init, WriterType, CallerType, WriterPhase, SourcePhase, SinkPhase
<1>3. FrameNamed /\ WriterNamed /\ ClosedFirst /\ RouteSettles
  BY DEF Init, FrameNamed, WriterNamed, ClosedFirst, RouteSettles
<1>q. QED
  BY <1>0, <1>1a, <1>1b, <1>1c, <1>2, <1>3 DEF ClientInv, TypeOK

\* Every step preserves the invariant.
LEMMA ClientInvStep == ClientInv /\ [Next]_vars => ClientInv'
<1> SUFFICES ASSUME ClientInv, [Next]_vars PROVE ClientInv'
  OBVIOUS
<1>1. ASSUME NEW c \in Calls,
             Opening(c) \/ OpenAbandoned(c) \/ Receiving(c) \/ DropSource(c) \/ Dropping(c) \/ Sending(c)
      PROVE  ClientInv'
  BY <1>1, CallerStepTypes, CallerStepInv DEF ClientInv
<1>2. CASE Reader
  BY <1>2, ReaderStepTypes, ReaderStepInv DEF ClientInv
<1>3. CASE Write \/ DropTransport \/ Watchdog
  BY <1>3, WriteStepTypes, WriteStepInv DEF ClientInv
<1>4. CASE UNCHANGED vars
  BY <1>4 DEF vars, conn, writer, lanes, reader, source, sink, server, ClientInv, TypeOK,
     LinkType, QueueType, WriterType, LaneType, CallerType, ServerType, FrameNamed,
     WriterNamed, ClosedFirst, RouteSettles, Completing
<1>q. QED
  BY <1>1, <1>2, <1>3, <1>4 DEF Next

\* The invariant holds in every reachable state.
LEMMA ClientInvariant == Spec => []ClientInv
  BY ClientInvInit, ClientInvStep, PTL DEF Spec

\* Every variable of the client keeps its type; the write queue and every item lane stay
\* within WRITE_BUFFER and REPLY_BUFFER.
THEOREM ClientTypeCorrect == Spec => []TypeOK
<1>1. ClientInv => TypeOK
  BY DEF ClientInv
<1>q. QED
  BY <1>1, ClientInvariant, PTL

\* A caller that awaits open or a reply always has an end coming, however the reader's
\* stop, an overflow and the drop of other calls interleave with open's two checks.
THEOREM CallersHaveAnEnd == Spec => []CallerHasEnd
<1>1. ClientInv => CallerHasEnd
  BY DEF ClientInv, RouteSettles, Completing, CallerHasEnd
<1>q. QED
  BY <1>1, ClientInvariant, PTL

-----------------------------------------------------------------------------
(* The order of the commands of one call, from the queue to the wire.       *)

\* Command m is the Request of call c.
IsRequest(m, c) == m.call = c /\ m.kind = "request"

\* Before its Request is queued, nothing in the client or at the server is about a call.
NotYetSent(c) ==
    /\ wire[c] = <<>> /\ writing.call # c /\ snk[c] = "none" /\ ~serving[c]
    /\ \A n \in 1..Len(queue) : queue[n].call # c
    /\ rpc \in {"push", "complete", "overflow"} => frame.call # c

\* A call that has not been opened yet left no trace.
Unsent == \A c \in Calls : src[c] \in {"idle", "insert", "check", "queue"} => NotYetSent(c)

\* No Request is behind a StreamCancel of its call: on the wire, at the writer, in the queue.
WireBeforeQueue ==
    \A c \in Calls : \A m \in 1..Len(wire[c]) : wire[c][m] = "cancel" =>
        ~IsRequest(writing, c) /\ \A n \in 1..Len(queue) : ~IsRequest(queue[n], c)

\* No Request is queued behind the StreamCancel being written.
WritingBeforeQueue ==
    writing.kind = "cancel" => \A n \in 1..Len(queue) : ~IsRequest(queue[n], writing.call)

\* Nor behind a queued one.
QueueInOrder ==
    \A m, n \in 1..Len(queue) :
        m < n /\ queue[m].kind = "cancel" => ~IsRequest(queue[n], queue[m].call)

\* The inductive invariant of the order.
OrderInv == Unsent /\ CancelAfterRequest /\ WireBeforeQueue /\ WritingBeforeQueue /\ QueueInOrder

\* A command that is not a Request may join the queue at any time; a Request may when
\* nothing of its call was sent.
LEMMA OrderAppend ==
    ASSUME ClientInv, OrderInv, NEW m \in Commands, queue' = Append(queue, m),
           m.kind # "request" \/ NotYetSent(m.call), UNCHANGED <<wire, writing>>
    PROVE  (CancelAfterRequest /\ WireBeforeQueue /\ WritingBeforeQueue /\ QueueInOrder)'
<1>1. /\ queue \in Seq(Commands) /\ Len(queue') = Len(queue) + 1
      /\ \A n \in 1..Len(queue) : queue'[n] = queue[n]
      /\ queue'[Len(queue) + 1] = m
  BY DEF ClientInv, TypeOK, QueueType
<1>2. m.call \in Calls
  BY DEF Commands
<1>3. CancelAfterRequest'
  BY DEF OrderInv, CancelAfterRequest
<1>4. WireBeforeQueue'
  BY <1>1, <1>2 DEF OrderInv, WireBeforeQueue, IsRequest, NotYetSent
<1>5. WritingBeforeQueue'
  BY <1>1, <1>2 DEF OrderInv, WritingBeforeQueue, IsRequest, NotYetSent
<1>6. QueueInOrder'
  BY <1>1, <1>2 DEF OrderInv, QueueInOrder, IsRequest, NotYetSent
<1>q. QED
  BY <1>3, <1>4, <1>5, <1>6

\* Steps that leave the queue, the writer and the wire alone.
LEMMA OrderFrame ==
    ASSUME OrderInv, UNCHANGED <<queue, writing, wire>>
    PROVE  (CancelAfterRequest /\ WireBeforeQueue /\ WritingBeforeQueue /\ QueueInOrder)'
  BY DEF OrderInv, CancelAfterRequest, WireBeforeQueue, WritingBeforeQueue, QueueInOrder, IsRequest

\* Writer::cancel.
LEMMA OrderCancel ==
    ASSUME ClientInv, OrderInv, NEW c \in Calls, WriterCancel(c), UNCHANGED <<wire, writing>>
    PROVE  /\ (CancelAfterRequest /\ WireBeforeQueue /\ WritingBeforeQueue /\ QueueInOrder)'
           /\ \A d \in Calls \ {c} : (\A n \in 1..Len(queue) : queue[n].call # d)
                => \A n \in 1..Len(queue') : queue'[n].call # d
<1>1. [call |-> c, kind |-> "cancel"] \in Commands
  BY DEF Commands
<1>2. CASE queue' = CancelQueued(c)
  <2>1. /\ queue \in Seq(Commands) /\ Len(queue') = Len(queue) + 1
        /\ \A n \in 1..Len(queue) : queue'[n] = queue[n]
        /\ queue'[Len(queue) + 1] = [call |-> c, kind |-> "cancel"]
    BY <1>1, <1>2 DEF ClientInv, TypeOK, QueueType, CancelQueued
  <2>2. \A d \in Calls \ {c} : (\A n \in 1..Len(queue) : queue[n].call # d)
                => \A n \in 1..Len(queue') : queue'[n].call # d
    BY <2>1
  <2>q. QED
    BY <1>1, <1>2, <2>2, OrderAppend DEF CancelQueued
<1>3. CASE UNCHANGED queue
  BY <1>3, OrderFrame
<1>q. QED
  BY <1>2, <1>3 DEF WriterCancel

\* A caller's steps keep the order: open queues the Request first.
LEMMA CallerStepOrder ==
    ASSUME ClientInv, OrderInv, NEW c \in Calls,
           Opening(c) \/ OpenAbandoned(c) \/ Receiving(c) \/ DropSource(c) \/ Dropping(c) \/ Sending(c)
    PROVE  OrderInv'
<1>t. /\ queue \in Seq(Commands) /\ src \in [Calls -> SourcePhase] /\ snk \in [Calls -> SinkPhase]
  BY DEF ClientInv, TypeOK, QueueType, CallerType
<1>1. CASE OpenQueue(c)
  <2>1. [call |-> c, kind |-> "request"] \in Commands /\ NotYetSent(c)
    BY <1>1 DEF OpenQueue, Commands, OrderInv, Unsent
  <2>2. (CancelAfterRequest /\ WireBeforeQueue /\ WritingBeforeQueue /\ QueueInOrder)'
    BY <1>1, <2>1, OrderAppend DEF OpenQueue
  <2>3. /\ Len(queue') = Len(queue) + 1 /\ \A n \in 1..Len(queue) : queue'[n] = queue[n]
        /\ queue'[Len(queue) + 1] = [call |-> c, kind |-> "request"]
    BY <1>1, <1>t, <2>1 DEF OpenQueue
  <2>4. Unsent'
    BY <1>1, <1>t, <2>3 DEF OpenQueue, OrderInv, Unsent, NotYetSent, reader, sink, server
  <2>q. QED
    BY <2>2, <2>4 DEF OrderInv
<1>2. CASE SinkQueue(c)
  <2>1. [call |-> c, kind |-> "data"] \in Commands
    BY DEF Commands
  <2>2. (CancelAfterRequest /\ WireBeforeQueue /\ WritingBeforeQueue /\ QueueInOrder)'
    BY <1>2, <2>1, OrderAppend DEF SinkQueue
  <2>3. /\ Len(queue') = Len(queue) + 1 /\ \A n \in 1..Len(queue) : queue'[n] = queue[n]
        /\ queue'[Len(queue) + 1] = [call |-> c, kind |-> "data"]
    BY <1>2, <1>t, <2>1 DEF SinkQueue
  <2>4. Unsent'
    BY <1>2, <1>t, <2>3 DEF SinkQueue, OrderInv, Unsent, NotYetSent, reader, source, server
  <2>q. QED
    BY <2>2, <2>4 DEF OrderInv
<1>3. CASE DropCancel(c)
  <2>1. CASE WriterCancel(c)
    <3>1. /\ (CancelAfterRequest /\ WireBeforeQueue /\ WritingBeforeQueue /\ QueueInOrder)'
          /\ \A d \in Calls \ {c} : (\A n \in 1..Len(queue) : queue[n].call # d)
                => \A n \in 1..Len(queue') : queue'[n].call # d
      BY <1>3, <2>1, OrderCancel DEF DropCancel
    <3>2. Unsent'
      BY <1>3, <1>t, <3>1 DEF DropCancel, OrderInv, Unsent, NotYetSent, reader, sink, server
    <3>q. QED
      BY <3>1, <3>2 DEF OrderInv
  <2>2. CASE UNCHANGED queue
    BY <1>3, <1>t, <2>2, OrderFrame DEF DropCancel, OrderInv, Unsent, NotYetSent, reader, sink, server
  <2>q. QED
    BY <1>3, <2>1, <2>2 DEF DropCancel
<1>4. CASE \/ \E k \in Kinds : OpenBegin(c, k)
           \/ OpenInsert(c) \/ OpenCheck(c) \/ OpenDone(c) \/ OpenFails(c) \/ OpenAbandoned(c)
           \/ Receiving(c) \/ DropSource(c) \/ DropRoute(c)
           \/ SinkSend(c) \/ SinkDone(c) \/ SinkEnds(c)
  <2>1. UNCHANGED <<queue, writing, wire, serving, rpc, frame>>
    BY <1>4 DEF OpenBegin, OpenInsert, OpenCheck, OpenDone, OpenFails, OpenAbandoned, Receiving,
       TakeItem, RecvTerminal, PollItems, PollTerminal, DropSource, DropRoute, SinkSend, SinkDone,
       SinkEnds, writer, reader, server
  <2>2. \A d \in Calls : src[d]' \in {"idle", "insert", "check", "queue"} =>
            src[d] \in {"idle", "insert", "check", "queue"} /\ snk[d]' = snk[d]
    BY <1>4, <1>t DEF OpenBegin, OpenInsert, OpenCheck, OpenDone, OpenFails, OpenAbandoned, Receiving,
       Awaits, TakeItem, RecvTerminal, PollItems, PollTerminal, DropSource, DropRoute, SinkSend,
       SinkDone, SinkEnds, source, sink, OrderInv, Unsent, NotYetSent
  <2>3. Unsent'
    BY <2>1, <2>2 DEF OrderInv, Unsent, NotYetSent
  <2>q. QED
    BY <2>1, <2>3, OrderFrame DEF OrderInv
<1>q. QED
  BY <1>1, <1>2, <1>3, <1>4 DEF Opening, Dropping, Sending

\* So does the reader, whose overflow cancels a call that was opened.
LEMMA ReaderStepOrder ==
    ASSUME ClientInv, OrderInv, Reader
    PROVE  OrderInv'
<1>1. CASE CancelOverflowedCall
  <2>1. frame.call \in Calls
    BY <1>1 DEF CancelOverflowedCall, ClientInv, FrameNamed
  <2>q. QED
    BY <1>1, <2>1, OrderCancel DEF CancelOverflowedCall, OrderInv, Unsent, NotYetSent, source,
         sink, server
<1>2. CASE \/ \E c \in Calls : ReadItem(c) \/ (\E r \in Terminal : ReadTerminal(c, r))
           \/ PushItem \/ CompleteCall \/ ReaderStops \/ ReaderClears \/ ReaderAborted
  <2>1. UNCHANGED <<queue, writing, wire, src, snk>>
    BY <1>2 DEF ReadItem, ReadTerminal, PushItem, CompleteCall, ReaderStops, ReaderClears,
       ReaderAborted, writer, source, sink
  <2>2. \A d \in Calls : ~serving[d] => ~serving'[d]
    BY <1>2 DEF ReadItem, ReadTerminal, PushItem, CompleteCall, ReaderStops, ReaderClears,
       ReaderAborted, server, ClientInv, TypeOK, ServerType
  <2>3. rpc' \in {"push", "complete", "overflow"} =>
            \/ rpc \in {"push", "complete", "overflow"} /\ frame'.call = frame.call
            \/ serving[frame'.call]
    BY <1>2 DEF ReadItem, ReadTerminal, TakeRoute, PushItem, CompleteCall, ReaderStops,
       ReaderClears, ReaderAborted, reader
  <2>4. Unsent'
    BY <2>1, <2>2, <2>3 DEF OrderInv, Unsent, NotYetSent
  <2>q. QED
    BY <2>1, <2>4, OrderFrame DEF OrderInv
<1>q. QED
  BY <1>1, <1>2 DEF Reader

\* Taking the head of the queue keeps the order.
LEMMA TakeOrder ==
    ASSUME ClientInv, OrderInv, NEW from, NEW to, Take(from, to)
    PROVE  OrderInv'
<1>1. /\ queue \in Seq(Commands) /\ queue # <<>> /\ writing' = queue[1]
      /\ Len(queue') = Len(queue) - 1 /\ \A n \in 1..Len(queue') : queue'[n] = queue[n + 1]
      /\ Len(queue) \in Nat \ {0}
  BY DEF Take, ClientInv, TypeOK, QueueType
<1>2. UNCHANGED <<wire, src, snk, serving, rpc, frame>>
  BY DEF Take, source, sink, server, reader
<1>3. Unsent'
  BY <1>1, <1>2 DEF OrderInv, Unsent, NotYetSent
<1>4. CancelAfterRequest'
  BY <1>2 DEF OrderInv, CancelAfterRequest
<1>5. WireBeforeQueue'
  BY <1>1, <1>2 DEF OrderInv, WireBeforeQueue
<1>6. WritingBeforeQueue'
  BY <1>1 DEF OrderInv, WritingBeforeQueue, QueueInOrder
<1>7. QueueInOrder'
  BY <1>1 DEF OrderInv, QueueInOrder
<1>q. QED
  BY <1>3, <1>4, <1>5, <1>6, <1>7 DEF OrderInv

\* So does finishing a write.
LEMMA WrittenOrder ==
    ASSUME ClientInv, OrderInv, Written
    PROVE  OrderInv'
<1> DEFINE w == writing.call
<1>1. writing \in Commands /\ w \in Calls /\ wire[w] \in Seq({"request", "data", "cancel"})
  BY DEF Written, ClientInv, WriterNamed, Commands, TypeOK, WriterType
<1>2. /\ \A d \in Calls \ {w} : wire'[d] = wire[d]
      /\ wire'[w] = Append(wire[w], writing.kind)
      /\ Len(wire'[w]) = Len(wire[w]) + 1 /\ Len(wire[w]) \in Nat
      /\ \A n \in 1..Len(wire[w]) : wire'[w][n] = wire[w][n]
      /\ wire'[w][Len(wire[w]) + 1] = writing.kind
  BY <1>1 DEF Written, ClientInv, TypeOK, WriterType, Commands
<1>3. writing' = Idle /\ UNCHANGED <<queue, src, snk, rpc, frame>>
  BY DEF Written, source, sink, reader
<1>4. \A d \in Calls \ {w} : serving'[d] = serving[d]
  BY DEF Written, ClientInv, TypeOK, ServerType
<1>5. Unsent'
  BY <1>1, <1>2, <1>3, <1>4 DEF OrderInv, Unsent, NotYetSent, Idle, NoCall, Calls
<1>6. CancelAfterRequest'
  <2> SUFFICES ASSUME NEW d \in Calls, NEW m \in 1..Len(wire'[d]), NEW n \in 1..Len(wire'[d]),
                      m < n, wire'[d][m] = "cancel"
               PROVE  wire'[d][n] # "request"
    BY DEF CancelAfterRequest
  <2>1. CASE d # w
    BY <1>2, <2>1 DEF OrderInv, CancelAfterRequest
  <2>2. CASE d = w /\ n \in 1..Len(wire[w])
    <3>1. m \in 1..Len(wire[w]) /\ wire[w][m] = "cancel" /\ wire'[w][n] = wire[w][n]
      BY <1>2, <2>2, SMTT(30)
    <3>q. QED
      BY <1>1, <2>2, <3>1 DEF OrderInv, CancelAfterRequest
  <2>3. CASE d = w /\ n = Len(wire[w]) + 1
    <3>1. m \in 1..Len(wire[w]) /\ wire[w][m] = "cancel"
      BY <1>2, <2>3
    <3>2. ~IsRequest(writing, w)
      BY <1>1, <3>1 DEF OrderInv, WireBeforeQueue
    <3>q. QED
      BY <1>2, <2>3, <3>2 DEF IsRequest
  <2>q. QED
    BY <1>2, <2>1, <2>2, <2>3
<1>7. WireBeforeQueue'
  <2> SUFFICES ASSUME NEW d \in Calls, NEW m \in 1..Len(wire'[d]), wire'[d][m] = "cancel"
               PROVE  ~IsRequest(writing', d) /\ \A n \in 1..Len(queue') : ~IsRequest(queue'[n], d)
    BY DEF WireBeforeQueue, IsRequest
  <2>1. \A n \in 1..Len(queue) : ~IsRequest(queue[n], d)
    <3>1. CASE d # w
      BY <1>2, <3>1 DEF OrderInv, WireBeforeQueue
    <3>2. CASE d = w /\ m \in 1..Len(wire[w])
      BY <1>2, <3>2 DEF OrderInv, WireBeforeQueue
    <3>3. CASE d = w /\ m = Len(wire[w]) + 1
      BY <1>2, <3>3 DEF OrderInv, WritingBeforeQueue
    <3>q. QED
      BY <1>2, <3>1, <3>2, <3>3
  <2>q. QED
    BY <1>3, <2>1 DEF IsRequest, Idle
<1>8. WritingBeforeQueue' /\ QueueInOrder'
  BY <1>3 DEF OrderInv, WritingBeforeQueue, QueueInOrder, IsRequest, Idle
<1>q. QED
  BY <1>5, <1>6, <1>7, <1>8 DEF OrderInv

\* So do all steps of the writer.
LEMMA WriteStepOrder ==
    ASSUME ClientInv, OrderInv, Write \/ DropTransport \/ Watchdog
    PROVE  OrderInv'
<1>1. CASE WriterTakes \/ DrainTakes
  BY <1>1, TakeOrder DEF WriterTakes, DrainTakes
<1>2. CASE Written
  BY <1>2, WrittenOrder
<1>3. CASE StopWriter
  <2>1. queue' = <<>> /\ writing' = Idle /\ UNCHANGED <<wire, src, snk, serving, rpc, frame>>
    BY <1>3 DEF StopWriter, source, sink, server, reader
  <2>2. Unsent'
    BY <2>1 DEF OrderInv, Unsent, NotYetSent, Idle, NoCall, Calls
  <2>q. QED
    BY <2>1, <2>2 DEF OrderInv, CancelAfterRequest, WireBeforeQueue, WritingBeforeQueue,
       QueueInOrder, IsRequest, Idle
<1>4. CASE StartDrain \/ DropTransport
  <2>1. UNCHANGED <<queue, writing, wire, src, snk, serving, rpc, frame>>
    BY <1>4 DEF StartDrain, DropTransport, writer, source, sink, server, reader
  <2>q. QED
    BY <2>1, OrderFrame DEF OrderInv, Unsent, NotYetSent
<1>q. QED
  BY <1>1, <1>2, <1>3, <1>4 DEF Write, WriteFails, WriterShutdown, Watchdog

\* A cancellation never overtakes the Request it cancels: a StreamCancel of a call goes
\* through the same FIFO as its Request, and no Request of that call is queued after it,
\* whoever cancels (the drop of the source, of an abandoned open, or an overflowing lane).
THEOREM CancellationNeverFirst == Spec => []CancelAfterRequest
<1>1. Init => OrderInv
  BY DEF Init, OrderInv, Unsent, NotYetSent, CancelAfterRequest, WireBeforeQueue,
     WritingBeforeQueue, QueueInOrder, IsRequest, Idle, NoCall, Calls
<1>2. ClientInv /\ OrderInv /\ [Next]_vars => OrderInv'
  <2> SUFFICES ASSUME ClientInv, OrderInv, [Next]_vars PROVE OrderInv'
    OBVIOUS
  <2>1. CASE UNCHANGED vars
    BY <2>1, OrderFrame DEF vars, writer, reader, source, sink, server, OrderInv, Unsent, NotYetSent
  <2>q. QED
    BY <2>1, CallerStepOrder, ReaderStepOrder, WriteStepOrder DEF Next
<1>3. OrderInv => CancelAfterRequest
  BY DEF OrderInv
<1>q. QED
  BY <1>1, <1>2, <1>3, ClientInvariant, PTL DEF Spec
=============================================================================
