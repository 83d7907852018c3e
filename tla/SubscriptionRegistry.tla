------------------------ MODULE SubscriptionRegistry -------------------------
(***************************************************************************)
(* The pub/sub registry and the topic bus over it                          *)
(* (crates/axum/src/ws/pubsub): destination to subscribers, each holding a *)
(* clone of its connection's outbound sender. One destination is modelled. *)
(* q[c] is the outbound channel of connection c, writer[c] the task that   *)
(* owns its receiver ("done" when the receiver is dropped).                *)
(***************************************************************************)
EXTENDS WsSession, SequencesExt, Vec

CONSTANTS OutboundBuffer, \* OUTBOUND_BUFFER
          Fanout          \* the N of deliver_frames

ASSUME RegistryAssumption ==
    OutboundBuffer \in Nat \ {0} /\ Fanout \in Nat

VARIABLES subs,     \* the entries of the destination, in subscription order
          q,        \* outbound channels
          writer,   \* "off" | "idle" | "done" | the frame being sent
          pub       \* targets an awaited publish has not finished with

regVars == <<subs, q, writer, pub>>

SubEntry(c, sub_id) == [conn |-> c, sub_id |-> sub_id]

RegInit ==
    /\ subs = <<>>
    /\ q = [c \in Conns |-> <<>>]
    /\ writer = [c \in Conns |-> Bare("off")]
    /\ pub = <<>>

Done == Bare("done")
ReceiverDropped(c) == writer[c] = Done

(* Both halves of a socket have been dropped. A serve that unwinds drops the reading
   half only: the other belongs to the writer task. *)
ServerClosed(c) ==
    SocketDropped(c) \/ (srv[c] = "panicked" /\ writer[c].type \in {"off", "done"})
QRoom(c) == Len(q[c]) < OutboundBuffer

subscribe(c, sub_id) == subs' = Append(subs, SubEntry(c, sub_id))

unsubscribe(c, sub_id) == subs' = retain(subs, {SubEntry(c, sub_id)})
KeepEntries(c) == UNCHANGED subs \* mutant of unregister
unregister(c) == subs' = retain(subs, {e \in Range(subs) : e.conn = c})

targets == subs

(* One more publish by application code outside the sessions. *)
SpendPublish ==
    /\ budget.publishes > 0
    /\ budget' = [budget EXCEPT !.publishes = @ - 1]
    /\ UNCHANGED <<scenario, up, down, srv, awaiting_probe_reply, peer, shutdown>>

(* try_send of one frame on the sender of an entry: dropped when the channel is
   full or its receiver is gone. *)
TrySend(queues, e) ==
    IF Len(queues[e.conn]) < OutboundBuffer /\ ~ReceiverDropped(e.conn)
    THEN [queues EXCEPT ![e.conn] = Append(@, Frame("MESSAGE", e.sub_id))]
    ELSE queues

publish_frames == FoldSeq(LAMBDA e, queues : TrySend(queues, e), q, targets)

(* TopicBus::emit from application code. *)
Emit ==
    /\ SpendPublish /\ subs # <<>>
    /\ q' = publish_frames
    /\ UNCHANGED <<subs, writer, pub>>

(* TopicBus::publish / publish_to: the senders are cloned under the lock, then
   awaited at most Fanout.max(1) at a time. *)
Publish ==
    /\ SpendPublish /\ subs # <<>> /\ pub = <<>>
    /\ pub' = targets
    /\ UNCHANGED <<subs, q, writer>>

concurrency == IF Fanout = 0 THEN 1 ELSE Fanout

DeliverOne ==
    \E i \in 1..Len(pub) :
        /\ i <= concurrency
        /\ \/ /\ QRoom(pub[i].conn) /\ ~ReceiverDropped(pub[i].conn)
              /\ q' = [q EXCEPT ![pub[i].conn] =
                          Append(@, Frame("MESSAGE", pub[i].sub_id))]
           \/ ReceiverDropped(pub[i].conn) /\ UNCHANGED q
        /\ pub' = RemoveAt(pub, i)
        /\ UNCHANGED <<subs, writer>> /\ UNCHANGED wsVars

(* A sender of connection c that is not the serve loop's own. *)
ClonedSender(c) ==
    \/ \E i \in DOMAIN subs : subs[i].conn = c
    \/ \E i \in DOMAIN pub : pub[i].conn = c

=============================================================================
