------------------------------- MODULE WsClient ------------------------------
(***************************************************************************)
(* The two client transports over a WebSocket: StompClientTransport        *)
(* (crates/axum-stomp/src/client/transport.rs) and the correlated client   *)
(* of the JSON protocol (crates/axum/src/client/websocket/tungstenite.rs). *)
(* Handles queue commands; one actor writes them and routes inbound        *)
(* frames, and reads nothing while it is writing. A scenario has at most   *)
(* one client connection.                                                  *)
(***************************************************************************)
EXTENDS StompServer

CONSTANT ChannelDepth  \* CHANNEL_DEPTH

ASSUME ClientAssumption == ChannelDepth \in Nat \ {0}

VARIABLES actor,   \* "off" | "connect" | "await" | "idle" | "write" | "close" | "exit" |
                   \* "drained" | "gone"
          command, \* the command being written
          cmds,    \* the command channel
          rxOpen,  \* its receiver accepts commands
          pending, \* correlation slots: the shared table, or the JSON actor's own
          caller,  \* state of each call
          stream,  \* the subscription: "none" | "live" | "dropped" | "ended"
          handles  \* a client handle is alive

clientVars ==
    <<actor, command, cmds, rxOpen, pending, caller, stream, handles>>

Disconnecting == "bye" \* the command queued by the last handle's drop
Unsubscribing == "unsub"
NoCommand == "none"

ASSUME CommandsAssumption == {Disconnecting, Unsubscribing, NoCommand} \cap Calls = {}

ClientInit ==
    /\ actor = "off" /\ command = NoCommand
    /\ cmds = <<>> /\ rxOpen = TRUE /\ pending = {}
    /\ caller = [i \in Calls |-> "new"]
    /\ stream = "none" /\ handles = TRUE

Active(i) == caller[i] \in {"enqueue", "wait"}
Resolve(set) ==
    [i \in Calls |-> IF i \in set /\ Active(i) THEN "done" ELSE caller[i]]

(* What a command puts on the wire. *)
FrameOf(c, cmd) ==
    CASE cmd = Disconnecting -> Bare("DISCONNECT")
      [] cmd = Unsubscribing -> Frame("UNSUBSCRIBE", "none")
      [] op[cmd] = "request" -> Frame("REQUEST", cmd)
      [] op[cmd] = "send" -> Bare("SEND")
      [] op[cmd] = "subscribe" -> Frame("SUBSCRIBE", "none")
      [] op[cmd] = "disconnect" -> Bare("DISCONNECT")

IsRequest(cmd) == cmd \in Calls /\ op[cmd] = "request"
IsDisconnect(cmd) == cmd = Disconnecting \/ (cmd \in Calls /\ op[cmd] = "disconnect")

UpWritable(c) == ~ServerClosed(c) /\ Room(up[c])
PutUp(c, frame) == up' = [up EXCEPT ![c] = Append(@, frame)]
OtherWs == <<scenario, budget, srv, awaiting_probe_reply, shutdown>>
ServerVars == <<subs, q, writer, pub, current, todo, brk>>

(***************************************************************************)
(* connect: the STOMP handshake before the actor starts.                   *)
(***************************************************************************)
Connect(c) ==
    /\ IsClient(c) /\ peer[c] = "open" /\ actor = "off"
    /\ actor' = IF IsStomp(c) THEN "connect" ELSE "idle"
    /\ UNCHANGED <<command, cmds, rxOpen, pending, caller, stream, handles>>
    /\ UNCHANGED wsVars /\ UNCHANGED ServerVars

SendConnect(c) ==
    /\ IsClient(c) /\ actor = "connect"
    /\ \/ UpWritable(c) /\ PutUp(c, Bare("CONNECT")) /\ actor' = "await"
          /\ UNCHANGED <<peer, down, rxOpen>>
       \/ ServerClosed(c) /\ actor' = "gone" /\ rxOpen' = FALSE
          /\ Vanish(c) /\ UNCHANGED up
    /\ UNCHANGED <<command, cmds, pending, caller, stream, handles>>
    /\ UNCHANGED OtherWs /\ UNCHANGED ServerVars

DownReadable(c) == down[c] # <<>> \/ ServerClosed(c)
FromServer(c) == IF down[c] = <<>> THEN Bare("END") ELSE Head(down[c])
TakeDown(c) == down' = [down EXCEPT ![c] = IF @ = <<>> THEN @ ELSE Tail(@)]

(* The library answers a ping while the actor reads. *)
AnswerPing(c) ==
    up' = IF FromServer(c).type = "PING" /\ UpWritable(c)
          THEN [up EXCEPT ![c] = Append(@, Bare("PONG"))] ELSE up

(* await_connected: skips heart-beats and control frames. *)
AwaitConnected(c) ==
    LET f == FromServer(c).type IN
    /\ IsClient(c) /\ actor = "await" /\ DownReadable(c)
    /\ AnswerPing(c)
    /\ \/ f \in {"HEARTBEAT", "PING"} /\ TakeDown(c) /\ UNCHANGED <<actor, rxOpen, peer>>
       \/ f = "CONNECTED" /\ TakeDown(c) /\ actor' = "idle" /\ UNCHANGED <<rxOpen, peer>>
       \/ f \notin {"HEARTBEAT", "PING", "CONNECTED"}
          /\ actor' = "gone" /\ rxOpen' = FALSE /\ Vanish(c)
    /\ UNCHANGED <<command, cmds, pending, caller, stream, handles>>
    /\ UNCHANGED OtherWs /\ UNCHANGED ServerVars

(***************************************************************************)
(* The callers. A STOMP request owns its slot before its command is        *)
(* queued, and a guard removes it however the call ends.                   *)
(***************************************************************************)
Connected == actor \notin {"off", "connect", "await"}
StompCall == \E c \in Conns : kind[c] = "stomp_client"

Quiet == UNCHANGED wsVars /\ UNCHANGED ServerVars

Call(i) ==
    /\ Connected /\ handles /\ caller[i] = "new" /\ op[i] # "none"
    /\ IF op[i] = "disconnect" /\ ~rxOpen \* already dead: Ok at once
       THEN caller' = [caller EXCEPT ![i] = "done"] /\ UNCHANGED pending
       ELSE /\ caller' = [caller EXCEPT ![i] = "enqueue"]
            /\ pending' = IF IsRequest(i) /\ StompCall THEN pending \cup {i} ELSE pending
    /\ UNCHANGED <<actor, command, cmds, rxOpen, stream, handles>> /\ Quiet

LeakSlot(i) == pending \* mutant of Unslotted
Unslotted(i) == IF StompCall THEN pending \ {i} ELSE pending

Enqueue(i) ==
    /\ caller[i] = "enqueue"
    /\ \/ /\ rxOpen /\ Len(cmds) < ChannelDepth
          /\ cmds' = Append(cmds, i)
          /\ caller' = [caller EXCEPT ![i] = "wait"]
          /\ UNCHANGED pending
       \/ /\ ~rxOpen
          /\ caller' = [caller EXCEPT ![i] = "done"]
          /\ pending' = Unslotted(i)
          /\ UNCHANGED cmds
    /\ UNCHANGED <<actor, command, rxOpen, stream, handles>> /\ Quiet

(* await_reply's deadline; only STOMP requests have one. *)
TimesOut(i) ==
    /\ scenario.deadline /\ StompCall /\ IsRequest(i) /\ Active(i)
    /\ caller' = [caller EXCEPT ![i] = "done"]
    /\ pending' = Unslotted(i)
    /\ UNCHANGED <<actor, command, cmds, rxOpen, stream, handles>> /\ Quiet

(* The caller drops its future: the STOMP guard frees the slot at once, the JSON actor
   prunes it with its next command. *)
Abandon(i) ==
    /\ Active(i)
    /\ caller' = [caller EXCEPT ![i] = "done"]
    /\ pending' = Unslotted(i)
    /\ UNCHANGED <<actor, command, cmds, rxOpen, stream, handles>> /\ Quiet

TryQueue(cmd) ==
    cmds' = IF rxOpen /\ Len(cmds) < ChannelDepth THEN Append(cmds, cmd) ELSE cmds

(* Subscription::drop queues an UNSUBSCRIBE when there is room. *)
DropStream ==
    /\ stream = "live"
    /\ stream' = "dropped"
    /\ TryQueue(Unsubscribing)
    /\ UNCHANGED <<actor, command, rxOpen, pending, caller, handles>> /\ Quiet

(* The last handle goes (a subscription holds one): STOMP queues a DISCONNECT when
   there is room, and the channel closes behind it. *)
DropHandles ==
    /\ Connected /\ handles /\ stream # "live"
    /\ \A i \in Calls : ~Active(i)
    /\ handles' = FALSE
    /\ IF StompCall THEN TryQueue(Disconnecting) ELSE UNCHANGED cmds
    /\ UNCHANGED <<actor, command, rxOpen, pending, caller, stream>> /\ Quiet

(***************************************************************************)
(* The actor's select: a command, or a frame.                              *)
(***************************************************************************)
ActorTake(c) ==
    /\ IsClient(c) /\ actor = "idle" /\ cmds # <<>>
    /\ command' = Head(cmds) /\ cmds' = Tail(cmds)
    /\ rxOpen' = (rxOpen /\ ~IsDisconnect(Head(cmds)))
    /\ pending' = IF StompCall THEN pending
                  ELSE {i \in pending : caller[i] = "wait"} \* prune_pending
    /\ actor' = "write"
    /\ UNCHANGED <<caller, stream, handles>> /\ Quiet

(* write.send succeeded: the ack, or (JSON) the correlation slot. *)
Written(c) ==
    LET cmd == command IN
    /\ PutUp(c, FrameOf(c, cmd))
    /\ actor' = IF IsDisconnect(cmd) THEN "close" ELSE "idle"
    /\ pending' = IF IsRequest(cmd) /\ ~StompCall THEN pending \cup {cmd} ELSE pending
    /\ caller' = IF IsRequest(cmd) \/ IsDisconnect(cmd) THEN caller
                 ELSE Resolve({cmd})
    /\ stream' = IF cmd \in Calls /\ op[cmd] = "subscribe" /\ Active(cmd)
                 THEN "live" ELSE stream
    /\ command' = IF IsDisconnect(cmd) THEN cmd ELSE NoCommand

(* write.send failed: STOMP resolves this command and keeps its loop (a disconnect
   ends it), JSON fails everything pending and ends. *)
WriteFailed(c) ==
    LET cmd == command
        done == IF StompCall THEN {cmd} ELSE {cmd} \cup pending
    IN
    /\ caller' = Resolve(done)
    /\ pending' = IF StompCall THEN pending \ {cmd} ELSE {}
    /\ actor' = IF IsDisconnect(cmd) \/ ~StompCall THEN "exit" ELSE "idle"
    /\ command' = NoCommand
    /\ UNCHANGED <<up, stream>>

ActorWrite(c) ==
    /\ IsClient(c) /\ actor = "write"
    /\ \/ UpWritable(c) /\ Written(c)
       \/ ServerClosed(c) /\ WriteFailed(c)
    /\ UNCHANGED <<cmds, rxOpen, handles>>
    /\ UNCHANGED OtherWs /\ UNCHANGED <<down, peer>> /\ UNCHANGED ServerVars

(* write.close after a DISCONNECT, its ack, and the end of the loop. *)
ActorClose(c) ==
    /\ IsClient(c) /\ actor = "close"
    /\ \/ UpWritable(c) /\ PutUp(c, Bare("CLOSE"))
          /\ caller' = Resolve({command})
       \/ ServerClosed(c) /\ UNCHANGED up
          /\ caller' = Resolve({command})
    /\ actor' = "exit" /\ command' = NoCommand
    /\ UNCHANGED <<cmds, rxOpen, pending, stream, handles>>
    /\ UNCHANGED OtherWs /\ UNCHANGED <<down, peer>> /\ UNCHANGED ServerVars

(* route / correlate one inbound frame. *)
Route(c) ==
    LET f == FromServer(c) IN
    \/ /\ f.type \in {"REPLY"}
       /\ caller' = IF f.ref \in pending
                    THEN Resolve({f.ref})
                    ELSE caller
       /\ pending' = pending \ {f.ref}
       /\ UNCHANGED <<actor>>
    \/ /\ f.type = "MESSAGE"
       /\ UNCHANGED <<actor, pending, caller>>
    \/ /\ f.type = "ERROR"
       /\ caller' = Resolve(pending) /\ pending' = {}
       /\ actor' = "exit"
    \/ /\ f.type \in {"CLOSE", "END"} /\ kind[c] = "json_client"
       /\ caller' = Resolve(pending) /\ pending' = {}
       /\ actor' = "exit"
    \/ /\ f.type = "END" /\ kind[c] = "stomp_client"
       /\ actor' = "exit" /\ UNCHANGED <<pending, caller>>
    \/ /\ f.type \in {"PING", "HEARTBEAT", "RECEIPT", "CONNECTED"}
          \/ (f.type = "CLOSE" /\ kind[c] = "stomp_client")
       /\ UNCHANGED <<actor, pending, caller>>

ActorRead(c) ==
    /\ IsClient(c) /\ actor = "idle" /\ DownReadable(c)
    /\ TakeDown(c) /\ AnswerPing(c) /\ Route(c)
    /\ UNCHANGED <<command, cmds, rxOpen, stream, handles>>
    /\ UNCHANGED OtherWs /\ UNCHANGED peer /\ UNCHANGED ServerVars

(* Every sender is gone: recv yields None once the channel is empty. *)
ActorUnheld(c) ==
    /\ IsClient(c) /\ actor = "idle" /\ ~handles /\ cmds = <<>>
    /\ actor' = "exit"
    /\ UNCHANGED <<command, cmds, rxOpen, pending, caller, stream, handles>> /\ Quiet

(* Mutant of ActorDrain: the streams end, the requests are forgotten. *)
DrainStreams(c) ==
    /\ IsClient(c) /\ actor = "exit"
    /\ actor' = "drained"
    /\ stream' = IF stream = "live" THEN "ended" ELSE stream
    /\ UNCHANGED <<command, cmds, rxOpen, pending, caller, handles>> /\ Quiet

(* After the STOMP loop: fail_requests drains the table, the streams end. *)
ActorDrain(c) ==
    /\ IsClient(c) /\ actor = "exit"
    /\ actor' = "drained"
    /\ caller' = IF StompCall THEN Resolve(pending) ELSE caller
    /\ pending' = IF StompCall THEN {} ELSE pending
    /\ stream' = IF stream = "live" THEN "ended" ELSE stream
    /\ UNCHANGED <<command, cmds, rxOpen, handles>> /\ Quiet

(* The actor returns: its receiver, the commands in it and its socket are dropped.
   A dropped command drops its ack; a STOMP request's slot is not in its command. *)
ActorGone(c) ==
    LET dropped == Range(cmds) \cap Calls
        acked == IF StompCall THEN {i \in dropped : ~IsRequest(i)}
                 ELSE dropped \cup pending
    IN
    /\ IsClient(c) /\ actor = "drained"
    /\ actor' = "gone" /\ rxOpen' = FALSE /\ cmds' = <<>>
    /\ caller' = Resolve(acked)
    /\ pending' = IF StompCall THEN pending ELSE {}
    /\ Vanish(c)
    /\ UNCHANGED <<command, stream, handles>>
    /\ UNCHANGED OtherWs /\ UNCHANGED up /\ UNCHANGED ServerVars

=============================================================================
