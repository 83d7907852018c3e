-------------------------------- MODULE MCWs ---------------------------------
(* Small scenarios of the WebSocket system: a foreign subscriber that a publish
   reaches, a foreign peer under server heart-beats, an upgrade that finds no permit,
   the JSON client, and the STOMP client with each of its operations. *)
EXTENDS Ws

CONSTANTS c1, r1, r2

AllConns == {c1}
AllCalls == {r1, r2}

Scenario(k, a, b, frames, heartbeat, n, m) ==
    [kind |-> (c1 :> k), op |-> (r1 :> a @@ r2 :> b), deadline |-> FALSE,
     frames |-> frames, heartbeat |-> heartbeat, taken |-> 0,
     budget |-> [frames |-> n, publishes |-> m]]

Receipted(types) == {Frame(t, "receipt") : t \in types}
Plain(types) == {Bare(t) : t \in types}

Subscriber ==
    Scenario("stomp_foreign", "none", "none",
             Plain({"CONNECT", "REQUEST"}) \cup Receipted({"SUBSCRIBE", "UNSUBSCRIBE"}),
             FALSE, 3, 1)
HeartBeaten ==
    Scenario("stomp_foreign", "none", "none",
             Plain({"CONNECT", "BAD", "HEARTBEAT", "REQUEST"}), TRUE, 2, 0)
OneClient(k, a, b, m) == Scenario(k, a, b, {}, FALSE, 0, m)

Contended ==
    [OneClient("json_client", "none", "none", 0) EXCEPT !.taken = 1]
Timed == [OneClient("stomp_client", "request", "none", 0) EXCEPT !.deadline = TRUE]

AllScenarios ==
    {Subscriber, HeartBeaten, Contended, Timed,
     OneClient("json_client", "request", "send", 0),
     OneClient("stomp_client", "send", "none", 0),
     OneClient("stomp_client", "subscribe", "none", 1),
     OneClient("stomp_client", "request", "subscribe", 0),
     OneClient("stomp_client", "request", "disconnect", 0)}
=============================================================================
