------------------------------ MODULE WsSession ------------------------------
(***************************************************************************)
(* What the framework gives every WebSocket sub-protocol                   *)
(* (crates/axum/src/ws/mod.rs): admission by permit, the upgrade with its  *)
(* Connection scope, the idle probe and the shutdown signal. A connection  *)
(* has two bounded sockets, up (peer to server) and down (server to peer); *)
(* the WebSocket library and TCP behind them are external.                 *)
(***************************************************************************)
EXTENDS Naturals, Sequences, FiniteSets

CONSTANTS Conns,          \* connections that may be attempted
          Calls,          \* calls the application makes on the client handle
          Scenarios,      \* who connects, what they call: see scenario below
          MaxConnections, \* max_websocket_connections, 0 for unlimited
          SocketDepth,    \* messages one direction of a socket can hold
          IdleTimeout     \* websocket_idle_timeout_ms > 0

ASSUME WsAssumption ==
    /\ MaxConnections \in Nat
    /\ SocketDepth \in Nat \ {0}
    /\ IdleTimeout \in BOOLEAN

VARIABLES scenario,  \* the scenario of this behaviour
          budget,    \* frames a foreign peer may still send, publishes still to come
          up, down,  \* the two directions of each socket
          srv,       \* where each connection's upgrade future or serve loop is; "panicked"
                     \* once a handler unwound it
          awaiting_probe_reply, \* WsIdle
          peer,      \* "away" | "open" | "silent" | "gone"
          shutdown   \* the endpoint's watch channel

wsVars == <<scenario, budget, up, down, srv, awaiting_probe_reply, peer, shutdown>>

(* A scenario fixes each connection's protocol and peer, what each call of the client
   does and whether its STOMP requests have a deadline (request_timeout is Some), the
   frames a foreign peer chooses from, StompConfig::server_heartbeat, the permits held
   by connections it does not follow, and two bounds of the model: how many frames that
   peer sends and how often the application publishes. *)
kind == scenario.kind
op == scenario.op

Frame(type, ref) == [type |-> type, ref |-> ref]
Bare(type) == Frame(type, "none")

IsStomp(c) == kind[c] \in {"stomp_client", "stomp_foreign"}
IsClient(c) == kind[c] \in {"stomp_client", "json_client"}

Ended == {"none", "rejected", "ended", "panicked"}

WsInit ==
    /\ scenario \in Scenarios
    /\ budget = scenario.budget
    /\ up = [c \in Conns |-> <<>>]
    /\ down = [c \in Conns |-> <<>>]
    /\ srv = [c \in Conns |-> "none"]
    /\ awaiting_probe_reply = [c \in Conns |-> FALSE]
    /\ peer = [c \in Conns |-> "away"]
    /\ shutdown = FALSE

(***************************************************************************)
(* The socket. A write waits for room and fails once the other end is      *)
(* dropped; a read yields what is queued, then the end of the stream.      *)
(***************************************************************************)
PeerClosed(c) == peer[c] = "gone"
SocketDropped(c) == srv[c] \in {"ended", "rejected"} \* both halves, by serve itself
Room(queue) == Len(queue) < SocketDepth
UpReadable(c) == up[c] # <<>> \/ PeerClosed(c)
Received(c) == IF up[c] = <<>> THEN Bare("END") ELSE Head(up[c])
TakeUp(c) == up' = [up EXCEPT ![c] = IF @ = <<>> THEN @ ELSE Tail(@)]
PutDown(c, frame) == down' = [down EXCEPT ![c] = Append(@, frame)]

Goto(c, phase) == srv' = [srv EXCEPT ![c] = phase]

(* A direct send bounded by SOCKET_SEND_TIMEOUT: sent, refused by a dropped peer,
   or given up once the socket stayed full for that long. *)
TimedSend(c, frame, sent, failed) ==
    IF PeerClosed(c) THEN Goto(c, failed) /\ UNCHANGED down
    ELSE IF Room(down[c]) THEN PutDown(c, frame) /\ Goto(c, sent)
    ELSE Goto(c, failed) /\ UNCHANGED down

(***************************************************************************)
(* mount_ws: a permit is taken before the upgrade and released with the    *)
(* upgrade future, however it ends.                                        *)
(***************************************************************************)
Permits == {c \in Conns : srv[c] \notin Ended}
try_acquire ==
    MaxConnections = 0 \/ scenario.taken + Cardinality(Permits) < MaxConnections

Upgrade(c) ==
    /\ srv[c] = "none"
    /\ IF try_acquire
       THEN Goto(c, "scope") /\ peer' = [peer EXCEPT ![c] = "open"]
       ELSE Goto(c, "rejected") /\ peer' = [peer EXCEPT ![c] = "gone"]
    /\ UNCHANGED <<scenario, budget, up, down, awaiting_probe_reply, shutdown>>

(* open_scope for the Connection scope, then the protocol's serve; a failure
   sends Close under the timeout and drops the socket. *)
OpenConnectionScope(c) ==
    /\ srv[c] = "scope"
    /\ \/ Goto(c, IF IsStomp(c) THEN "opener" ELSE "loop")
       \/ Goto(c, "scopefail")
    /\ UNCHANGED <<scenario, budget, up, down, awaiting_probe_reply, peer, shutdown>>

CloseUnscoped(c) ==
    /\ srv[c] = "scopefail"
    /\ TimedSend(c, Bare("CLOSE"), "ended", "ended")
    /\ UNCHANGED <<scenario, budget, up, awaiting_probe_reply, peer, shutdown>>

(* WebsocketHandler::trigger_shutdown, called by the server's graceful stop. *)
TriggerShutdown ==
    /\ ~shutdown
    /\ shutdown' = TRUE
    /\ UNCHANGED <<scenario, budget, up, down, srv, awaiting_probe_reply, peer>>

on_activity(c) ==
    awaiting_probe_reply' = [awaiting_probe_reply EXCEPT ![c] = FALSE]

(* WsIdle::wait elapsed, then on_timeout: a second lapse drops the peer, a first
   one asks for a probe. *)
OnTimeout(c, drop, probe) ==
    /\ IdleTimeout
    /\ IF awaiting_probe_reply[c]
       THEN Goto(c, drop) /\ UNCHANGED awaiting_probe_reply
       ELSE /\ awaiting_probe_reply' = [awaiting_probe_reply EXCEPT ![c] = TRUE]
            /\ probe

(* The ping of a serve loop that owns the socket (JSON, STOMP's opener). *)
SendProbe(c, back) ==
    /\ srv[c] = "probing"
    /\ TimedSend(c, Bare("PING"), back, "ended")
    /\ UNCHANGED <<scenario, budget, up, awaiting_probe_reply, peer, shutdown>>

(***************************************************************************)
(* A peer that is not the repository's client. It reads while it is open,  *)
(* answers a ping when its own direction has room, may fall silent for     *)
(* good (neither reads nor writes) and may drop the connection.            *)
(***************************************************************************)
Foreign(c) == kind[c] = "stomp_foreign"

Vanish(c) == peer' = [peer EXCEPT ![c] = "gone"] /\ down' = [down EXCEPT ![c] = <<>>]

PeerReads(c) ==
    /\ Foreign(c) /\ peer[c] = "open" /\ down[c] # <<>>
    /\ down' = [down EXCEPT ![c] = Tail(@)]
    /\ up' = IF Head(down[c]).type = "PING" /\ Room(up[c])
             THEN [up EXCEPT ![c] = Append(@, Bare("PONG"))] ELSE up
    /\ UNCHANGED <<scenario, budget, srv, awaiting_probe_reply, peer, shutdown>>

PeerFalls(c) ==
    /\ Foreign(c) /\ peer[c] = "open" /\ ~SocketDropped(c)
    /\ \/ peer' = [peer EXCEPT ![c] = "silent"] /\ UNCHANGED down
       \/ Vanish(c)
    /\ UNCHANGED <<scenario, budget, up, srv, awaiting_probe_reply, shutdown>>

=============================================================================
