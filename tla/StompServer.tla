----------------------------- MODULE StompServer -----------------------------
(***************************************************************************)
(* One STOMP connection's serve loop, dispatch and writer task             *)
(* (crates/axum-stomp/src/server.rs). The loop owns one sender of q[c];    *)
(* the writer owns the socket's write half. While a frame is dispatched    *)
(* the loop polls neither the shutdown signal nor the idle deadline.       *)
(***************************************************************************)
EXTENDS SubscriptionRegistry

VARIABLES current, \* the inbound frame being negotiated or dispatched; a request whose
                   \* handler answered nothing stays here until the next frame
          todo,    \* frames the running dispatch still has to queue
          brk      \* the dispatch ends the session

stompVars == <<current, todo, brk>>

StompInit ==
    /\ current = [c \in Conns |-> Bare("none")]
    /\ todo = [c \in Conns |-> <<>>]
    /\ brk = [c \in Conns |-> FALSE]

Heartbeats == {"HEARTBEAT", "PONG"}  \* consumed by the loop without a dispatch
NoOutcome == UNCHANGED stompVars

(***************************************************************************)
(* The handshake: one frame, under the shutdown signal and the idle probe. *)
(***************************************************************************)
OpenerShutdown(c) ==
    /\ srv[c] = "opener" /\ IsStomp(c) /\ shutdown
    /\ Goto(c, "ended")
    /\ UNCHANGED <<scenario, budget, up, down, awaiting_probe_reply, peer, shutdown>>
    /\ UNCHANGED regVars /\ NoOutcome

OpenerIdle(c) ==
    /\ srv[c] = "opener" /\ IsStomp(c)
    /\ OnTimeout(c, "ended", Goto(c, "probing"))
    /\ UNCHANGED <<scenario, budget, up, down, peer, shutdown>>
    /\ UNCHANGED regVars /\ NoOutcome

OpenerProbe(c) ==
    /\ IsStomp(c) /\ SendProbe(c, "opener")
    /\ UNCHANGED regVars /\ NoOutcome

OpenerRead(c) ==
    /\ srv[c] = "opener" /\ IsStomp(c) /\ UpReadable(c)
    /\ on_activity(c) /\ TakeUp(c)
    /\ Goto(c, IF Received(c).type = "END" THEN "ended" ELSE "negotiate")
    /\ current' = [current EXCEPT ![c] = Received(c)]
    /\ UNCHANGED <<scenario, budget, down, peer, shutdown, todo, brk>> /\ UNCHANGED regVars

(* negotiate: an opener that is not CONNECT, an unsupported version or a refused
   authentication is an error; otherwise the connection gets an id, a channel, a
   writer and a queued CONNECTED. *)
Negotiate(c) ==
    /\ srv[c] = "negotiate"
    /\ \/ /\ current[c].type = "CONNECT"
          /\ Goto(c, "dispatch")
          /\ todo' = [todo EXCEPT ![c] = <<Bare("CONNECTED")>>]
          /\ brk' = [brk EXCEPT ![c] = FALSE]
          /\ writer' = [writer EXCEPT ![c] = Bare("idle")]
       \/ Goto(c, "refuse") /\ UNCHANGED <<writer, todo, brk>>
    /\ current' = [current EXCEPT ![c] = Bare("none")]
    /\ UNCHANGED <<scenario, budget, up, down, awaiting_probe_reply, peer, shutdown>>
    /\ UNCHANGED <<subs, q, pub>>

Refuse(c) ==
    /\ srv[c] = "refuse"
    /\ TimedSend(c, Bare("ERROR"), "ended", "ended")
    /\ UNCHANGED <<scenario, budget, up, awaiting_probe_reply, peer, shutdown>>
    /\ UNCHANGED regVars /\ NoOutcome

(***************************************************************************)
(* The main select: shutdown, idle deadline, inbound frame.                *)
(***************************************************************************)
TrySendOwn(c, frame) ==
    QRoom(c) /\ ~ReceiverDropped(c) /\ q' = [q EXCEPT ![c] = Append(@, frame)]
OwnFull(c) == ~QRoom(c) \/ ReceiverDropped(c)

LoopShutdown(c) ==
    /\ srv[c] = "loop" /\ IsStomp(c) /\ shutdown
    /\ \/ TrySendOwn(c, Bare("ERROR"))
       \/ OwnFull(c) /\ UNCHANGED q
    /\ Goto(c, "teardown")
    /\ UNCHANGED <<scenario, budget, up, down, awaiting_probe_reply, peer, shutdown>>
    /\ UNCHANGED <<subs, writer, pub>> /\ NoOutcome

LoopIdle(c) ==
    /\ srv[c] = "loop" /\ IsStomp(c)
    /\ \/ /\ awaiting_probe_reply[c] /\ UNCHANGED q
          /\ OnTimeout(c, "teardown", FALSE)
       \/ ~awaiting_probe_reply[c]
          /\ \/ TrySendOwn(c, Bare("PING")) /\ OnTimeout(c, "teardown", UNCHANGED srv)
             \/ OwnFull(c) /\ OnTimeout(c, "teardown", Goto(c, "teardown")) /\ UNCHANGED q
    /\ UNCHANGED <<scenario, budget, up, down, peer, shutdown>>
    /\ UNCHANGED <<subs, writer, pub>> /\ NoOutcome

(* What the dispatch does once its frames are known: nothing to queue returns to
   the loop, or ends the session when it broke. *)
After(c, frames, breaks) ==
    /\ todo' = [todo EXCEPT ![c] = frames]
    /\ brk' = [brk EXCEPT ![c] = breaks]
    /\ Goto(c, IF frames # <<>> THEN "dispatch" ELSE IF breaks THEN "teardown" ELSE "loop")

Receipt(frame) == IF frame.ref = "receipt" THEN <<Bare("RECEIPT")>> ELSE <<>>

LoopRead(c) ==
    LET f == Received(c) IN
    /\ srv[c] = "loop" /\ IsStomp(c) /\ UpReadable(c)
    /\ on_activity(c) /\ TakeUp(c)
    /\ \/ /\ f.type \in Heartbeats
          /\ UNCHANGED <<srv, subs, q, current, todo, brk>>
       \/ /\ f.type \in {"END", "CLOSE"}
          /\ Goto(c, "teardown") /\ UNCHANGED <<subs, q, current, todo, brk>>
       \/ /\ f.type = "SUBSCRIBE"
          /\ subscribe(c, "sub")
          /\ After(c, Receipt(f), FALSE) /\ UNCHANGED <<q, current>>
       \/ /\ f.type = "UNSUBSCRIBE"
          /\ unsubscribe(c, "sub")
          /\ After(c, Receipt(f), FALSE) /\ UNCHANGED <<q, current>>
       \/ /\ f.type = "SEND"   \* no handler: a broker publish
          /\ q' = publish_frames
          /\ After(c, Receipt(f), FALSE) /\ UNCHANGED <<subs, current>>
       \/ /\ f.type = "REQUEST" \* an /app destination: its handler runs
          /\ Goto(c, "handler")
          /\ current' = [current EXCEPT ![c] = f]
          /\ UNCHANGED <<subs, q, todo, brk>>
       \/ /\ f.type = "DISCONNECT"
          /\ After(c, <<Bare("RECEIPT")>>, TRUE) /\ UNCHANGED <<subs, q, current>>
       \/ /\ f.type \in {"BAD", "CONNECT"} \* unparseable, or not a loop command
          /\ After(c, <<Bare("ERROR")>>, TRUE) /\ UNCHANGED <<subs, q, current>>
    /\ UNCHANGED <<scenario, budget, down, peer, shutdown, writer, pub>>

Answered(c) == current' = [current EXCEPT ![c] = Bare("none")]

(* route_send's handler: it replies or fails (an error reply); it publishes or leaves
   nothing behind, as does a message scope that cannot be built; or it panics. A panic
   unwinds serve: the reading half and the loop's own sender are dropped, unregister is
   skipped and the writer task, whose JoinHandle is dropped, runs on. *)
Handler(c) ==
    /\ srv[c] = "handler" /\ IsStomp(c)
    /\ \/ /\ After(c, <<Frame("REPLY", current[c].ref)>>, FALSE)
          /\ Answered(c) /\ UNCHANGED q
       \/ /\ After(c, <<>>, FALSE)
          /\ q' \in {q, publish_frames} /\ UNCHANGED current
       \/ /\ Goto(c, "panicked")
          /\ Answered(c) /\ UNCHANGED <<q, todo, brk>>
    /\ UNCHANGED <<scenario, budget, up, down, awaiting_probe_reply, peer, shutdown>>
    /\ UNCHANGED <<subs, writer, pub>>

(* tx.send(..).await: waits for room, fails once the writer is gone. *)
Queue(c) ==
    /\ srv[c] = "dispatch"
    /\ \/ TrySendOwn(c, Head(todo[c]))
       \/ ReceiverDropped(c) /\ UNCHANGED q
    /\ After(c, Tail(todo[c]), brk[c])
    /\ UNCHANGED <<scenario, budget, up, down, awaiting_probe_reply, peer, shutdown>>
    /\ UNCHANGED <<subs, writer, pub, current>>

(* unregister, drop(tx), then the writer gets SOCKET_SEND_TIMEOUT to finish. *)
Teardown(c) ==
    /\ srv[c] = "teardown"
    /\ unregister(c)
    /\ Goto(c, "drain")
    /\ UNCHANGED <<scenario, budget, up, down, awaiting_probe_reply, peer, shutdown>>
    /\ UNCHANGED <<q, writer, pub>> /\ NoOutcome

Drained(c) ==
    /\ srv[c] = "drain" /\ ReceiverDropped(c)
    /\ Goto(c, "ended")
    /\ UNCHANGED <<scenario, budget, up, down, awaiting_probe_reply, peer, shutdown>>
    /\ UNCHANGED regVars /\ NoOutcome

DropReceiver(c) ==
    writer' = [writer EXCEPT ![c] = Done] /\ q' = [q EXCEPT ![c] = <<>>]

(* Mutants of AbortWriter: the writer is awaited without a deadline; it is left
   running when the deadline passes. *)
AwaitWriter(c) == Drained(c)
DetachWriter(c) ==
    /\ srv[c] = "drain" /\ ~ReceiverDropped(c)
    /\ Goto(c, "ended")
    /\ UNCHANGED <<scenario, budget, up, down, awaiting_probe_reply, peer, shutdown>>
    /\ UNCHANGED regVars /\ NoOutcome

AbortWriter(c) ==
    /\ srv[c] = "drain" /\ ~ReceiverDropped(c)
    /\ DropReceiver(c)
    /\ Goto(c, "ended")
    /\ UNCHANGED <<scenario, budget, up, down, awaiting_probe_reply, peer, shutdown>>
    /\ UNCHANGED <<subs, pub>> /\ NoOutcome

(***************************************************************************)
(* writer_task                                                             *)
(***************************************************************************)
WriterIdle(c) == writer[c] = Bare("idle")
WriterSending(c) == writer[c].type \notin {"off", "idle", "done"}
Sender(c) == srv[c] \in {"dispatch", "loop", "handler", "teardown"} \/ ClonedSender(c)

WriterTake(c) ==
    /\ WriterIdle(c) /\ q[c] # <<>>
    /\ writer' = [writer EXCEPT ![c] = Head(q[c])]
    /\ q' = [q EXCEPT ![c] = Tail(@)]
    /\ UNCHANGED <<subs, pub>> /\ UNCHANGED wsVars /\ NoOutcome

WriterTick(c) ==
    /\ scenario.heartbeat /\ WriterIdle(c)
    /\ writer' = [writer EXCEPT ![c] = Bare("HEARTBEAT")]
    /\ UNCHANGED <<subs, q, pub>> /\ UNCHANGED wsVars /\ NoOutcome

WriterSend(c) ==
    /\ WriterSending(c)
    /\ \/ /\ ~PeerClosed(c) /\ Room(down[c])
          /\ PutDown(c, writer[c])
          /\ writer' = [writer EXCEPT ![c] = Bare("idle")] /\ UNCHANGED q
       \/ PeerClosed(c) /\ DropReceiver(c) /\ UNCHANGED down
    /\ UNCHANGED <<scenario, budget, up, srv, awaiting_probe_reply, peer, shutdown>>
    /\ UNCHANGED <<subs, pub>> /\ NoOutcome

WriterEnd(c) ==
    /\ WriterIdle(c) /\ q[c] = <<>> /\ ~Sender(c)
    /\ DropReceiver(c)
    /\ UNCHANGED <<subs, pub>> /\ UNCHANGED wsVars /\ NoOutcome

=============================================================================
