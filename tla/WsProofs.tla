------------------------------ MODULE WsProofs -------------------------------
(***************************************************************************)
(* Proofs about Ws, for any number of connections, peers and calls, every  *)
(* scenario and every depth of the queues.                                 *)
(*                                                                         *)
(* SlotInv follows the correlation table of the STOMP client: only         *)
(* requests own slots, so the acknowledgement of another command frees     *)
(* nobody's.  ServerInv follows a STOMP session through its phases: a      *)
(* writer exists from the negotiation on, an entry in the registry only    *)
(* between negotiation and teardown, or after a handler's panic.           *)
(***************************************************************************)
EXTENDS Ws, SequenceLemmas

-----------------------------------------------------------------------------
(* The client's correlation table.                                          *)

\* Slots belong to requests that wait, and the frame before the actor's close is a
\* DISCONNECT.
SlotInv ==
    /\ DOMAIN caller = Calls
    /\ StompCall => \A i \in pending : IsRequest(i) /\ Active(i)
    /\ actor = "close" => IsDisconnect(command)

\* Resolving calls that own no slot leaves the owners of the slots waiting.
LEMMA ResolveKeeps ==
    ASSUME NEW set
    PROVE  /\ DOMAIN Resolve(set) = Calls
           /\ \A i \in Calls \ set : Resolve(set)[i] = caller[i]
  BY DEF Resolve

\* Nothing of the client changes.
LEMMA ClientIdle ==
    ASSUME SlotInv, UNCHANGED clientVars, scenario' = scenario
    PROVE  SlotInv'
  BY DEF SlotInv, clientVars, StompCall, IsRequest, Active, IsDisconnect, kind, op

\* The sessions and the peers leave the client alone.
LEMMA ServerSteps ==
    ASSUME NEW c \in Conns,
           \/ Session(c) \/ JsonSession(c) \/ PeerSends(c)
           \/ (StompServe(c) \/ StompWriter(c)) /\ UNCHANGED clientVars
           \/ (PeerReads(c) \/ PeerFalls(c)) /\ Aside
    PROVE  UNCHANGED clientVars /\ scenario' = scenario
<1>1. CASE Session(c)
  BY <1>1 DEF Session, Aside, Upgrade, OpenConnectionScope, CloseUnscoped
<1>2. CASE JsonSession(c)
  BY <1>2 DEF JsonSession, JsonShutdown, JsonClose, JsonIdle, JsonProbe, SendProbe, JsonRead,
       JsonHandler, JsonReply, JsonOnly, KeepWs
<1>3. CASE PeerSends(c)
  BY <1>3 DEF PeerSends
<1>4. CASE StompServe(c) /\ UNCHANGED clientVars
  BY <1>4 DEF StompServe, OpenerShutdown, OpenerIdle, OpenerProbe, SendProbe, OpenerRead,
       Negotiate, Refuse, LoopShutdown, LoopIdle, LoopRead, Handler, Queue, Teardown, Drained,
       AbortWriter
<1>5. CASE StompWriter(c) /\ UNCHANGED clientVars
  BY <1>5 DEF StompWriter, WriterTake, WriterTick, WriterSend, WriterEnd, wsVars
<1>6. CASE (PeerReads(c) \/ PeerFalls(c)) /\ Aside
  BY <1>6 DEF PeerReads, PeerFalls, Aside
<1>q. QED
  BY <1>1, <1>2, <1>3, <1>4, <1>5, <1>6

\* A caller's step.
LEMMA CallerSteps ==
    ASSUME SlotInv, Application
    PROVE  SlotInv'
<1> USE DEF SlotInv, StompCall, IsRequest, IsDisconnect, Active, kind, op, Quiet, wsVars
<1>1. ASSUME NEW i \in Calls, Call(i) PROVE SlotInv'
  BY <1>1 DEF Call
<1>2. ASSUME NEW i \in Calls, Enqueue(i) PROVE SlotInv'
  BY <1>2 DEF Enqueue, Unslotted
<1>3. ASSUME NEW i \in Calls, TimesOut(i) PROVE SlotInv'
  BY <1>3 DEF TimesOut, Unslotted
<1>4. ASSUME NEW i \in Calls, Abandon(i) PROVE SlotInv'
  BY <1>4 DEF Abandon, Unslotted
<1>5. CASE DropStream \/ DropHandles
  BY <1>5 DEF DropStream, DropHandles
<1>q. QED
  BY <1>1, <1>2, <1>3, <1>4, <1>5 DEF Application

\* A step of the client's actor.
LEMMA ActorSteps ==
    ASSUME SlotInv, NEW c \in Conns, Actor(c)
    PROVE  SlotInv'
<1> USE DEF SlotInv, StompCall, IsRequest, IsDisconnect, Active, kind, op, Quiet, wsVars, OtherWs
<1>1. CASE Connect(c) \/ SendConnect(c) \/ AwaitConnected(c) \/ ActorUnheld(c)
  BY <1>1 DEF Connect, SendConnect, AwaitConnected, ActorUnheld
<1>2. CASE ActorTake(c)
  BY <1>2 DEF ActorTake
<1>3. CASE ActorWrite(c)
  <2>1. CASE Written(c)
    BY <1>3, <2>1, ResolveKeeps DEF ActorWrite, Written
  <2>2. CASE WriteFailed(c)
    BY <1>3, <2>2, ResolveKeeps DEF ActorWrite, WriteFailed
  <2>q. QED
    BY <1>3, <2>1, <2>2 DEF ActorWrite
<1>4. CASE ActorClose(c)
  BY <1>4, ResolveKeeps, CommandsAssumption DEF ActorClose
<1>5. CASE ActorRead(c)
  BY <1>5, ResolveKeeps DEF ActorRead, Route
<1>6. CASE ActorDrain(c)
  BY <1>6, ResolveKeeps DEF ActorDrain
<1>7. CASE ActorGone(c)
  BY <1>7, ResolveKeeps DEF ActorGone
<1>q. QED
  BY <1>1, <1>2, <1>3, <1>4, <1>5, <1>6, <1>7 DEF Actor

\* Every step keeps the table to its owners.
LEMMA SlotStep ==
    ASSUME SlotInv, [Next]_vars
    PROVE  SlotInv'
<1>1. CASE UNCHANGED vars
  BY <1>1, ClientIdle DEF vars, wsVars
<1>2. CASE TriggerShutdown /\ Aside
  BY <1>2, ClientIdle DEF TriggerShutdown, Aside
<1>3. ASSUME NEW c \in Conns, Actor(c) PROVE SlotInv'
  BY <1>3, ActorSteps
<1>4. CASE Application
  BY <1>4, CallerSteps
<1>5. CASE Bus /\ UNCHANGED clientVars
  BY <1>5, ClientIdle DEF Bus, Emit, Publish, DeliverOne, SpendPublish, wsVars
<1>q. QED
  BY <1>1, <1>2, <1>3, <1>4, <1>5, ServerSteps, ClientIdle DEF Next

\* However replies, deadlines, abandoned calls, failed writes and the closing drain
\* interleave, a slot of the STOMP client's correlation table belongs to a call in flight:
\* no slot outlives its caller (RequestGuard, actor, route, fail_requests).
THEOREM SlotsAlwaysOwned == Spec => []SlotsOwned
<1>1. Init => SlotInv
  BY DEF Init, ClientInit, SlotInv
<1>2. SlotInv => SlotsOwned
  BY DEF SlotInv, SlotsOwned
<1>q. QED
  BY <1>1, <1>2, SlotStep, PTL DEF Spec

-----------------------------------------------------------------------------
(* A STOMP session's registration and its writer.                           *)

\* Before the negotiation has succeeded there is no writer; from then until the teardown
\* the session may be registered.
Unnegotiated ==
    {"none", "rejected", "scope", "scopefail", "opener", "probing", "negotiate", "refuse"}
Registered == {"dispatch", "loop", "handler", "teardown"}

Stopped(c) == writer[c].type \in {"off", "done"}

\* The phases of a STOMP session.
SessionOK(c) ==
    /\ srv[c] \in Unnegotiated => writer[c] = Bare("off")
    /\ srv[c] = "ended" => Stopped(c)
    /\ \A i \in DOMAIN subs : subs[i].conn = c => srv[c] \in Registered \cup {"panicked"}

ServerInv ==
    /\ DOMAIN srv = Conns /\ DOMAIN writer = Conns
    /\ subs \in Seq([conn : Conns, sub_id : {"sub"}])
    /\ \A c \in Conns : IsStomp(c) => SessionOK(c)

\* A session goes from one phase to another and touches neither writer nor registry.
LEMMA Moves ==
    ASSUME ServerInv, scenario' = scenario, UNCHANGED <<writer, subs>>,
           NEW c \in Conns, NEW phase, Goto(c, phase),
           IsStomp(c) => \/ srv[c] \in Unnegotiated /\ phase \in Unnegotiated \cup {"ended"}
                         \/ srv[c] \in Registered /\ phase \in Registered \cup {"panicked"}
                         \/ srv[c] = "drain" /\ Stopped(c) /\ phase = "ended"
    PROVE  ServerInv'
<1>1. /\ DOMAIN srv' = Conns /\ srv'[c] = phase
      /\ \A d \in Conns \ {c} : srv'[d] = srv[d]
  BY DEF ServerInv, Goto
<1>2. ASSUME NEW d \in Conns, IsStomp(d) PROVE SessionOK(d)'
  <2>1. SessionOK(d)
    BY <1>2 DEF ServerInv
  <2>2. CASE d # c
    BY <1>1, <2>1, <2>2 DEF SessionOK, Stopped
  <2>3. CASE d = c
    BY <1>1, <1>2, <2>1, <2>3 DEF SessionOK, Stopped, Unnegotiated, Registered, Bare, Frame
  <2>q. QED
    BY <2>2, <2>3
<1>q. QED
  BY <1>1, <1>2 DEF ServerInv, IsStomp, kind

\* The sessions stay where they are, and no writer that is off or done moves.
LEMMA Stays ==
    ASSUME ServerInv, scenario' = scenario, UNCHANGED <<srv, subs>>, DOMAIN writer' = Conns,
           \A c \in Conns : Stopped(c) => writer'[c] = writer[c]
    PROVE  ServerInv'
  BY DEF ServerInv, SessionOK, Stopped, IsStomp, kind, Bare, Frame

\* The upgrade, before the protocol's own loop.
LEMMA UpgradeSteps ==
    ASSUME ServerInv, NEW c \in Conns, Session(c)
    PROVE  ServerInv'
<1> USE DEF Aside, regVars, Unnegotiated, Registered, IsStomp
<1>1. CASE Upgrade(c)
  BY <1>1, Moves DEF Session, Upgrade
<1>2. CASE OpenConnectionScope(c)
  BY <1>2, Moves DEF Session, OpenConnectionScope
<1>3. CASE CloseUnscoped(c)
  BY <1>3, Moves DEF Session, CloseUnscoped, TimedSend
<1>q. QED
  BY <1>1, <1>2, <1>3 DEF Session

\* The handshake.
LEMMA OpenerSteps ==
    ASSUME ServerInv, NEW c \in Conns,
           \/ OpenerShutdown(c) \/ OpenerIdle(c) \/ OpenerProbe(c) \/ OpenerRead(c)
           \/ Negotiate(c) \/ Refuse(c)
    PROVE  ServerInv'
<1> USE DEF regVars, Unnegotiated, Registered
<1>1. CASE OpenerShutdown(c)
  BY <1>1, Moves DEF OpenerShutdown
<1>2. CASE OpenerIdle(c)
  BY <1>2, Moves DEF OpenerIdle, OnTimeout
<1>3. CASE OpenerProbe(c)
  BY <1>3, Moves DEF OpenerProbe, SendProbe, TimedSend
<1>4. CASE OpenerRead(c)
  BY <1>4, Moves DEF OpenerRead
<1>5. CASE Refuse(c)
  BY <1>5, Moves DEF Refuse, TimedSend
<1>6. CASE Negotiate(c)
  <2>1. CASE Goto(c, "refuse") /\ UNCHANGED writer
    BY <1>6, <2>1, Moves DEF Negotiate
  <2>2. CASE Goto(c, "dispatch") /\ writer' = [writer EXCEPT ![c] = Bare("idle")]
    <3>1. /\ DOMAIN srv' = Conns /\ DOMAIN writer' = Conns /\ srv'[c] = "dispatch"
          /\ \A d \in Conns \ {c} : srv'[d] = srv[d] /\ writer'[d] = writer[d]
      BY <2>2 DEF ServerInv, Goto
    <3>2. UNCHANGED <<subs, scenario>>
      BY <1>6 DEF Negotiate
    <3>3. ASSUME NEW d \in Conns, IsStomp(d) PROVE SessionOK(d)'
      <4>1. SessionOK(d)
        BY <3>3 DEF ServerInv
      <4>q. QED
        BY <3>1, <3>2, <4>1 DEF SessionOK, Stopped
    <3>q. QED
      BY <3>1, <3>2, <3>3 DEF ServerInv, IsStomp, kind
  <2>q. QED
    BY <1>6, <2>1, <2>2 DEF Negotiate
<1>q. QED
  BY <1>1, <1>2, <1>3, <1>4, <1>5, <1>6

\* Where a dispatch leaves the session.
LEMMA AfterPhase ==
    ASSUME NEW c, NEW frames, NEW breaks, After(c, frames, breaks)
    PROVE  \E phase \in {"dispatch", "teardown", "loop"} : Goto(c, phase)
  BY DEF After

\* The registry changes for one registered session, which stays registered.
LEMMA Resubscribed ==
    ASSUME ServerInv, scenario' = scenario, writer' = writer,
           NEW c \in Conns, srv[c] \in Registered, NEW phase \in Registered, Goto(c, phase),
           subs' \in Seq([conn : Conns, sub_id : {"sub"}]),
           \A i \in DOMAIN subs' : subs'[i].conn # c => subs'[i] \in Range(subs)
    PROVE  ServerInv'
<1>1. /\ DOMAIN srv' = Conns /\ srv'[c] = phase
      /\ \A d \in Conns \ {c} : srv'[d] = srv[d]
  BY DEF ServerInv, Goto
<1>2. ASSUME NEW d \in Conns, IsStomp(d) PROVE SessionOK(d)'
  <2>1. SessionOK(d)
    BY <1>2 DEF ServerInv
  <2>2. CASE d # c
    <3>1. ASSUME NEW i \in DOMAIN subs', subs'[i].conn = d
          PROVE  srv[d] \in Registered \cup {"panicked"}
      <4>1. PICK j \in DOMAIN subs : subs[j] = subs'[i]
        BY <2>2, <3>1 DEF Range
      <4>q. QED
        BY <2>1, <3>1, <4>1 DEF SessionOK
    <3>q. QED
      BY <1>1, <2>1, <2>2, <3>1 DEF SessionOK, Stopped
  <2>3. CASE d = c
    BY <1>1, <2>1, <2>3 DEF SessionOK, Stopped, Unnegotiated, Registered
  <2>q. QED
    BY <2>2, <2>3
<1>q. QED
  BY <1>1, <1>2 DEF ServerInv, IsStomp, kind

\* The main select: everything but a subscription moves the session only.
LEMMA LoopSteps ==
    ASSUME ServerInv, NEW c \in Conns,
           LoopShutdown(c) \/ LoopIdle(c) \/ LoopRead(c) \/ Handler(c) \/ Queue(c)
    PROVE  ServerInv'
<1> USE DEF regVars, Unnegotiated, Registered
<1>1. CASE LoopShutdown(c)
  BY <1>1, Moves DEF LoopShutdown
<1>2. CASE LoopIdle(c)
  <2>1. CASE Goto(c, "teardown")
    BY <1>2, <2>1, Moves DEF LoopIdle
  <2>2. CASE UNCHANGED srv
    BY <1>2, <2>2, Stays DEF LoopIdle, ServerInv
  <2>q. QED
    BY <1>2, <2>1, <2>2 DEF LoopIdle, OnTimeout
<1>3. CASE Handler(c)
  BY <1>3, Moves, AfterPhase DEF Handler
<1>4. CASE Queue(c)
  BY <1>4, Moves, AfterPhase DEF Queue
<1>5. CASE LoopRead(c)
  <2>1. srv[c] = "loop" /\ scenario' = scenario /\ writer' = writer
    BY <1>5 DEF LoopRead
  <2>2. CASE UNCHANGED <<srv, subs>>
    BY <2>1, <2>2, Stays DEF ServerInv
  <2>3. CASE UNCHANGED subs /\ \E phase \in Registered : Goto(c, phase)
    BY <2>1, <2>3, Moves
  <2>4. CASE subscribe(c, "sub") /\ \E phase \in Registered : Goto(c, phase)
    <3>1. /\ subs \in Seq([conn : Conns, sub_id : {"sub"}])
          /\ subs' = Append(subs, SubEntry(c, "sub"))
          /\ SubEntry(c, "sub") \in [conn : Conns, sub_id : {"sub"}]
          /\ SubEntry(c, "sub").conn = c
      BY <2>4 DEF subscribe, SubEntry, ServerInv
    <3>2. /\ subs' \in Seq([conn : Conns, sub_id : {"sub"}])
          /\ \A i \in DOMAIN subs' : subs'[i] \in Range(subs) \/ subs'[i] = SubEntry(c, "sub")
      BY <3>1 DEF Range
    <3>q. QED
      BY <2>1, <2>4, <3>1, <3>2, Resubscribed
  <2>5. CASE unsubscribe(c, "sub") /\ \E phase \in Registered : Goto(c, phase)
    <3>1. subs \in Seq([conn : Conns, sub_id : {"sub"}])
      BY DEF ServerInv
    <3>2. /\ subs' \in Seq([conn : Conns, sub_id : {"sub"}])
          /\ \A i \in DOMAIN subs' : subs'[i] \in Range(subs)
      BY <2>5, <3>1, RetainedEntries DEF unsubscribe
    <3>q. QED
      BY <2>1, <2>5, <3>2, Resubscribed
  <2>q. QED
    BY <1>5, <2>2, <2>3, <2>4, <2>5, AfterPhase DEF LoopRead
<1>q. QED
  BY <1>1, <1>2, <1>3, <1>4, <1>5

\* The teardown: nothing of the session stays in the registry, and its writer is done
\* before it ends.
LEMMA TeardownSteps ==
    ASSUME ServerInv, NEW c \in Conns, Teardown(c) \/ Drained(c) \/ AbortWriter(c)
    PROVE  ServerInv'
<1>1. CASE Teardown(c)
  <2> DEFINE gone == {e \in Range(subs) : e.conn = c}
  <2>1. subs \in Seq([conn : Conns, sub_id : {"sub"}])
    BY DEF ServerInv
  <2>2. subs' = retain(subs, gone) /\ UNCHANGED <<writer, scenario>>
    BY <1>1 DEF Teardown, unregister
  <2>3. /\ subs' \in Seq([conn : Conns, sub_id : {"sub"}])
        /\ \A i \in DOMAIN subs' : subs'[i] \in Range(subs) \ gone
    BY <2>1, <2>2, RetainedEntries
  <2>4. \A i \in DOMAIN subs' : subs'[i].conn # c /\ \E j \in DOMAIN subs : subs[j] = subs'[i]
    BY <2>3 DEF Range
  <2>5. /\ DOMAIN srv' = Conns /\ srv'[c] = "drain"
        /\ \A d \in Conns \ {c} : srv'[d] = srv[d]
    BY <1>1 DEF Teardown, ServerInv, Goto
  <2>6. ASSUME NEW d \in Conns, IsStomp(d) PROVE SessionOK(d)'
    <3>1. SessionOK(d)
      BY <2>6 DEF ServerInv
    <3>2. CASE d = c
      BY <2>4, <2>5, <3>2 DEF SessionOK, Unnegotiated
    <3>3. CASE d # c
      <4>1. ASSUME NEW i \in DOMAIN subs', subs'[i].conn = d
          PROVE  srv[d] \in Registered \cup {"panicked"}
        BY <2>4, <3>1, <4>1 DEF SessionOK
      <4>q. QED
        BY <2>2, <2>5, <3>1, <3>3, <4>1 DEF SessionOK, Stopped
    <3>q. QED
      BY <3>2, <3>3
  <2>q. QED
    BY <2>2, <2>3, <2>5, <2>6 DEF ServerInv, IsStomp, kind
<1>2. CASE Drained(c)
  BY <1>2, Moves DEF Drained, ReceiverDropped, Stopped, Done, Bare, Frame, regVars
<1>3. CASE AbortWriter(c)
  <2>1. /\ DOMAIN srv' = Conns /\ DOMAIN writer' = Conns
        /\ srv[c] = "drain" /\ srv'[c] = "ended" /\ writer'[c] = Done
        /\ \A d \in Conns \ {c} : srv'[d] = srv[d] /\ writer'[d] = writer[d]
        /\ UNCHANGED <<subs, scenario>>
    BY <1>3 DEF AbortWriter, DropReceiver, ServerInv, Goto
  <2>2. ASSUME NEW d \in Conns, IsStomp(d) PROVE SessionOK(d)'
    <3>1. SessionOK(d)
      BY <2>2 DEF ServerInv
    <3>q. QED
      BY <2>1, <3>1 DEF SessionOK, Stopped, Done, Bare, Frame, Registered, Unnegotiated
  <2>q. QED
    BY <2>1, <2>2 DEF ServerInv, IsStomp, kind
<1>q. QED
  BY <1>1, <1>2, <1>3

\* The writer task: one that is off or done takes no step.
LEMMA WriterSteps ==
    ASSUME ServerInv, NEW c \in Conns, StompWriter(c)
    PROVE  ServerInv'
<1>1. UNCHANGED <<srv, subs, scenario>>
  BY DEF StompWriter, WriterTake, WriterTick, WriterSend, WriterEnd, wsVars
<1>2. /\ ~Stopped(c)
      /\ \E frame : writer' = [writer EXCEPT ![c] = frame]
  BY DEF StompWriter, WriterTake, WriterTick, WriterSend, WriterEnd, WriterIdle, WriterSending,
       DropReceiver, Stopped, Bare, Frame
<1>3. DOMAIN writer' = Conns /\ \A d \in Conns : Stopped(d) => writer'[d] = writer[d]
  BY <1>2 DEF ServerInv
<1>q. QED
  BY <1>1, <1>3, Stays

\* A JSON session is no STOMP session, and has neither entry nor writer.
LEMMA JsonSteps ==
    ASSUME ServerInv, NEW c \in Conns, JsonSession(c)
    PROVE  ServerInv'
<1>1. ~IsStomp(c) /\ UNCHANGED <<writer, subs, scenario>>
  BY DEF JsonSession, JsonShutdown, JsonClose, JsonIdle, JsonProbe, JsonRead, JsonHandler,
       JsonReply, JsonOnly, KeepWs, SendProbe, regVars, IsJson, IsStomp
<1>2. UNCHANGED srv \/ \E phase : Goto(c, phase)
  BY DEF JsonSession, JsonShutdown, JsonClose, JsonIdle, JsonProbe, JsonRead, JsonHandler,
       JsonReply, SendProbe, TimedSend, OnTimeout
<1>3. CASE UNCHANGED srv
  BY <1>1, <1>3, Stays DEF ServerInv
<1>4. ASSUME NEW phase, Goto(c, phase) PROVE ServerInv'
  BY <1>1, <1>4, Moves
<1>q. QED
  BY <1>2, <1>3, <1>4

\* A step that leaves the sessions, their writers and the registry alone.
Untouched == UNCHANGED <<srv, writer, subs, scenario>>

\* The client's actor and its callers are such steps.
LEMMA ClientSteps ==
    ASSUME Application \/ \E c \in Conns : Actor(c)
    PROVE  Untouched
<1>1. ASSUME NEW c \in Conns, Actor(c) PROVE Untouched
  BY <1>1 DEF Untouched, Actor, Connect, SendConnect, AwaitConnected, ActorTake, ActorWrite,
       ActorClose, ActorRead, ActorUnheld, ActorDrain, ActorGone, Quiet, wsVars, OtherWs, ServerVars
<1>2. CASE Application
  BY <1>2 DEF Untouched, Application, Call, Enqueue, TimesOut, Abandon, DropStream, DropHandles,
       Quiet, wsVars, ServerVars
<1>q. QED
  BY <1>1, <1>2

\* So are those of the peers and the bus, and the request for shutdown.
LEMMA OutsideSteps ==
    ASSUME \/ TriggerShutdown /\ Aside
           \/ \E c \in Conns : PeerSends(c) \/ ((PeerReads(c) \/ PeerFalls(c)) /\ Aside)
           \/ Bus
    PROVE  Untouched
<1>1. CASE TriggerShutdown /\ Aside
  BY <1>1 DEF Untouched, TriggerShutdown, Aside, regVars
<1>2. ASSUME NEW c \in Conns, PeerSends(c) \/ ((PeerReads(c) \/ PeerFalls(c)) /\ Aside)
      PROVE  Untouched
  BY <1>2 DEF Untouched, PeerSends, PeerReads, PeerFalls, Aside, regVars
<1>3. CASE Bus
  BY <1>3 DEF Untouched, Bus, Emit, Publish, DeliverOne, SpendPublish, wsVars
<1>q. QED
  BY <1>1, <1>2, <1>3

\* Every step keeps the sessions in order.
LEMMA ServerStep ==
    ASSUME ServerInv, [Next]_vars
    PROVE  ServerInv'
<1>1. ASSUME NEW c \in Conns, StompServe(c) PROVE ServerInv'
  BY <1>1, OpenerSteps, LoopSteps, TeardownSteps DEF StompServe
<1>2. CASE Untouched
  BY <1>2, Stays DEF Untouched, ServerInv
<1>3. UNCHANGED vars => Untouched
  BY DEF Untouched, vars, wsVars, regVars
<1>4. ASSUME NEW c \in Conns, Session(c) \/ StompWriter(c) \/ JsonSession(c) PROVE ServerInv'
  BY <1>4, UpgradeSteps, WriterSteps, JsonSteps
<1>q. QED
  BY <1>1, <1>2, <1>3, <1>4, ClientSteps, OutsideSteps DEF Next

\* A STOMP session that ended other than by a handler's panic left nothing behind, whatever
\* its peer, its publishers and the other sessions did meanwhile: no entry in the registry
\* that would keep a sender of its queue alive, and no running writer (serve, unregister,
\* the bounded wait for the writer and its abort).
THEOREM SessionsAreReleased == Spec => []SessionReleased
<1>1. Init => ServerInv
  BY DEF Init, WsInit, RegInit, ServerInv, SessionOK, Stopped, Registered, Bare, Frame
<1>2. ServerInv => SessionReleased
  BY DEF ServerInv, SessionOK, SessionReleased, Live, Ended, Stopped, Unnegotiated, Registered,
       Bare, Frame
<1>q. QED
  BY <1>1, <1>2, ServerStep, PTL DEF Spec
=============================================================================
