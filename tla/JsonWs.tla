-------------------------------- MODULE JsonWs -------------------------------
(***************************************************************************)
(* The JSON request/reply protocol's serve loop                            *)
(* (crates/axum-json-ws/src/lib.rs): one task owns the whole socket, every *)
(* write is bounded by SOCKET_SEND_TIMEOUT.                                *)
(***************************************************************************)
EXTENDS WsClient

IsJson(c) == kind[c] = "json_client"
JsonOnly == UNCHANGED regVars /\ UNCHANGED clientVars
KeepWs == <<scenario, budget, peer, shutdown>>

JsonShutdown(c) ==
    /\ IsJson(c) /\ srv[c] = "loop" /\ shutdown
    /\ Goto(c, "closing")
    /\ UNCHANGED KeepWs /\ UNCHANGED <<up, down, awaiting_probe_reply>>
    /\ JsonOnly /\ NoOutcome

JsonClose(c) ==
    /\ IsJson(c) /\ srv[c] = "closing"
    /\ TimedSend(c, Bare("CLOSE"), "ended", "ended")
    /\ UNCHANGED KeepWs /\ UNCHANGED <<up, awaiting_probe_reply>>
    /\ JsonOnly /\ NoOutcome

JsonIdle(c) ==
    /\ IsJson(c) /\ srv[c] = "loop"
    /\ OnTimeout(c, "ended", Goto(c, "probing"))
    /\ UNCHANGED KeepWs /\ UNCHANGED <<up, down>>
    /\ JsonOnly /\ NoOutcome

JsonProbe(c) ==
    /\ IsJson(c) /\ SendProbe(c, "loop")
    /\ JsonOnly /\ NoOutcome

JsonRead(c) ==
    LET f == Received(c) IN
    /\ IsJson(c) /\ srv[c] = "loop" /\ UpReadable(c)
    /\ TakeUp(c)
    /\ \/ /\ f.type \in {"REQUEST", "SEND"}
          /\ on_activity(c) /\ Goto(c, "handler")
          /\ current' = [current EXCEPT ![c] = f]
       \/ /\ f.type \in {"CLOSE", "END"}
          /\ Goto(c, "ended") /\ UNCHANGED <<awaiting_probe_reply, current>>
       \/ /\ f.type \in Heartbeats
          /\ on_activity(c) /\ UNCHANGED <<srv, current>>
    /\ UNCHANGED KeepWs /\ UNCHANGED <<down, todo, brk>> /\ JsonOnly

(* handle_text and render_reply: a request is answered by its value or by its error
   (no route, scope, decode or handler failure), unless its handler has no value to
   return; a send succeeds without a reply and its failure, having no id, is only
   logged. A panic unwinds serve, which owns the whole socket. *)
JsonHandler(c) ==
    /\ IsJson(c) /\ srv[c] = "handler"
    /\ \/ /\ current[c].type = "REQUEST"
          /\ todo' = [todo EXCEPT ![c] = <<Frame("REPLY", current[c].ref)>>]
          /\ Goto(c, "reply") /\ Answered(c)
       \/ Goto(c, "loop") /\ UNCHANGED <<todo, current>>
       \/ Goto(c, "ended") /\ Answered(c) /\ UNCHANGED todo
    /\ UNCHANGED KeepWs /\ UNCHANGED <<up, down, awaiting_probe_reply, brk>> /\ JsonOnly

JsonReply(c) ==
    /\ IsJson(c) /\ srv[c] = "reply"
    /\ TimedSend(c, Head(todo[c]), "loop", "ended")
    /\ todo' = [todo EXCEPT ![c] = <<>>]
    /\ UNCHANGED KeepWs /\ UNCHANGED <<up, awaiting_probe_reply, current, brk>> /\ JsonOnly

=============================================================================
