---------------------------------- MODULE Ws ---------------------------------
(***************************************************************************)
(* The WebSocket system: an endpoint's sessions (STOMP or JSON), the       *)
(* registry and topic bus, the client transports and foreign STOMP peers.  *)
(***************************************************************************)
EXTENDS JsonWs

vars == <<wsVars, regVars, stompVars, clientVars>>

Init == WsInit /\ RegInit /\ StompInit /\ ClientInit

(* A foreign peer may send any frame, well-formed or not; it subscribes again only
   once its previous subscription is gone. *)
PeerSends(c) ==
    /\ Foreign(c) /\ peer[c] = "open" /\ ~ServerClosed(c) /\ Room(up[c])
    /\ \E f \in scenario.frames :
          /\ f.type = "SUBSCRIBE" => \A i \in DOMAIN subs : subs[i].conn # c
          /\ up' = [up EXCEPT ![c] = Append(@, f)]
    /\ budget.frames > 0 /\ budget' = [budget EXCEPT !.frames = @ - 1]
    /\ UNCHANGED <<scenario, down, srv, awaiting_probe_reply, peer, shutdown>>
    /\ UNCHANGED regVars /\ UNCHANGED stompVars /\ UNCHANGED clientVars

Aside == UNCHANGED regVars /\ UNCHANGED stompVars /\ UNCHANGED clientVars

Session(c) ==
    \/ Upgrade(c) /\ Aside
    \/ OpenConnectionScope(c) /\ Aside
    \/ CloseUnscoped(c) /\ Aside

StompServe(c) ==
    \/ OpenerShutdown(c) \/ OpenerIdle(c) \/ OpenerProbe(c) \/ OpenerRead(c)
    \/ Negotiate(c) \/ Refuse(c)
    \/ LoopShutdown(c) \/ LoopIdle(c) \/ LoopRead(c)
    \/ Handler(c) \/ Queue(c)
    \/ Teardown(c) \/ Drained(c) \/ AbortWriter(c)

StompWriter(c) ==
    \/ WriterTake(c) \/ WriterTick(c) \/ WriterSend(c) \/ WriterEnd(c)

JsonSession(c) ==
    \/ JsonShutdown(c) \/ JsonClose(c) \/ JsonIdle(c) \/ JsonProbe(c)
    \/ JsonRead(c) \/ JsonHandler(c) \/ JsonReply(c)

Bus == Emit \/ Publish \/ DeliverOne

Actor(c) ==
    \/ Connect(c) \/ SendConnect(c) \/ AwaitConnected(c)
    \/ ActorTake(c) \/ ActorWrite(c) \/ ActorClose(c) \/ ActorRead(c)
    \/ ActorUnheld(c) \/ ActorDrain(c) \/ ActorGone(c)

Application ==
    \/ \E i \in Calls : Call(i) \/ Enqueue(i) \/ TimesOut(i) \/ Abandon(i)
    \/ DropStream \/ DropHandles

Next ==
    \/ TriggerShutdown /\ Aside
    \/ \E c \in Conns :
        \/ Session(c)
        \/ (StompServe(c) \/ StompWriter(c)) /\ UNCHANGED clientVars
        \/ JsonSession(c)
        \/ Actor(c)
        \/ (PeerReads(c) \/ PeerFalls(c)) /\ Aside
        \/ PeerSends(c)
    \/ Bus /\ UNCHANGED stompVars /\ UNCHANGED clientVars
    \/ Application

(* Every task is scheduled. A random select and a first-come-first-served channel do
   not starve a branch that keeps becoming ready; timers elapse; a handler returns; a
   foreign peer that has not fallen silent reads. Nobody has to call, publish, send,
   fall silent or shut down. *)
Fairness ==
    /\ \A c \in Conns :
        /\ WF_vars(Session(c)) /\ WF_vars(Actor(c)) /\ WF_vars(JsonSession(c))
        /\ WF_vars(StompServe(c) /\ UNCHANGED clientVars)
        /\ WF_vars(LoopShutdown(c) /\ UNCHANGED clientVars)
        /\ WF_vars(PeerReads(c) /\ Aside)
        /\ WF_vars(WriterSend(c) /\ UNCHANGED clientVars)
        /\ SF_vars((WriterTake(c) \/ WriterEnd(c)) /\ UNCHANGED clientVars)
        /\ WF_vars(ActorTake(c)) /\ SF_vars(JsonShutdown(c))
    /\ SF_vars(DeliverOne /\ UNCHANGED stompVars /\ UNCHANGED clientVars)
    /\ \A i \in Calls : WF_vars(Enqueue(i)) /\ WF_vars(TimesOut(i))

Spec == Init /\ [][Next]_vars
FairSpec == Spec /\ Fairness

-----------------------------------------------------------------------------
(* Nobody reads what the server writes: the peer is silent, or is the client, whose
   actor is itself waiting to write. *)
NobodyReads(c) ==
    peer[c] = "silent" \/ (IsClient(c) /\ actor \in {"write", "close"} /\ ~Room(up[c]))

(* The session waits in a dispatch for room in its own outbound queue, and nobody
   reads the socket its writer waits on. *)
Stalled(c) == srv[c] = "dispatch" /\ IsStomp(c) /\ ~QRoom(c) /\ NobodyReads(c)

Live(c) == srv[c] \notin Ended

(* A handler panicked and the writer it left behind does not end: the registry still
   holds a sender of its queue, or nobody reads what it is sending. *)
Orphaned(c) ==
    /\ srv[c] = "panicked" /\ ~ReceiverDropped(c)
    /\ NobodyReads(c) \/ \E i \in DOMAIN subs : subs[i].conn = c

(* A request whose handler returned without an answer. *)
Unanswered(i) ==
    \E c \in Conns : srv[c] = "loop" /\ current[c] = Frame("REQUEST", i)

(* A STOMP request that has no deadline and registers its slot only after the exiting
   actor emptied the table. *)
MissedSweep(i) ==
    /\ StompCall /\ IsRequest(i) /\ ~scenario.deadline
    /\ actor \in {"drained", "gone"}

(* Graceful shutdown reaches every session: after trigger_shutdown each live upgrade
   future ends, whatever its peer does, its writer and its publishers wait on, unless
   the session is found at some moment after it waiting in a dispatch for room in its
   own queue while nobody reads the socket. *)
ShutdownEnds == \A c \in Conns : (shutdown /\ Live(c)) ~> (~Live(c) \/ Stalled(c))

(* An awaited publish returns: a subscriber that stopped reading is probed, dropped and
   its writer aborted, which releases the publisher waiting for room in its queue. Nobody
   does so for a session stalled in a dispatch or orphaned by a panic. *)
PublishReturns ==
    (pub # <<>>) ~> (pub = <<>> \/ \E c \in Conns : Stalled(c) \/ Orphaned(c))

(* A call on a client handle ends: by its reply, its written frame, its deadline, or the
   end of the connection, including commands still queued when the actor exits. The
   exceptions: a handler that answers nothing, a request without a deadline that missed
   the exiting actor's sweep of the table, and a session stalled or orphaned. *)
CallsEnd ==
    \A i \in Calls :
        \/ <>Unanswered(i)
        \/ (Active(i) /\ ~MissedSweep(i)) ~>
               (~Active(i) \/ \E c \in Conns : Stalled(c) \/ Orphaned(c))

(* The STOMP client's correlation table holds slots of calls in flight only, however
   replies, deadlines, abandoned calls, failed writes and the closing drain interleave. *)
SlotsOwned == StompCall => \A i \in pending : Active(i)

(* A STOMP session that ended by itself left nothing behind: no entry in the registry
   that would keep its sender alive, and no running writer. One that a handler's panic
   unwound keeps both. *)
SessionReleased ==
    \A c \in Conns : ~Live(c) /\ srv[c] # "panicked" /\ IsStomp(c) =>
        /\ \A i \in DOMAIN subs : subs[i].conn # c
        /\ writer[c].type \in {"off", "done"}

=============================================================================
