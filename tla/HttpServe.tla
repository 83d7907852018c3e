------------------------------ MODULE HttpServe -----------------------------
(***************************************************************************)
(* The HTTP server (Serve for Axum in axum/src/protocol.rs) and the stack  *)
(* of services AxumPlugin::build puts around every route: the layer that   *)
(* opens the request scope, the deadline, the body limit, then the user's  *)
(* middleware in registration order.                                       *)
(*                                                                         *)
(* axum itself is external: it accepts connections, runs each on a task of *)
(* its own, stops accepting once its shutdown future is over and is done   *)
(* when the connections are.  Dropping it does not end those tasks.  A     *)
(* connection is over when it is upgraded: on_upgrade runs the session on  *)
(* a task of its own, which nobody waits for.  Sessions are modelled in    *)
(* WsSession.                                                              *)
(***************************************************************************)
EXTENDS Integers, Sequences, SequencesExt

CONSTANTS
    Requests,   \* bound: the requests peers send
    HttpApps    \* the registrations: middleware, endpoints (the ws paths), and whether timeout
                \* (request_timeout_ms) and graceful (graceful_shutdown_timeout_ms) are set

\* What the plugin itself puts around a route; no middleware of the user is one of these.
OwnServices == {"scope", "timeout", "limit", "handler"}

ASSUME HttpServeAssumption ==
    HttpApps \subseteq [middleware : Seq(STRING \ OwnServices), endpoints : Seq(STRING),
                       timeout : BOOLEAN, graceful : BOOLEAN]

VARIABLES
    http,       \* the application
    xpc,        \* where run() is
    signalled,  \* the graceful-shutdown future is over
    notice,     \* shutdown_started holds a permit
    accepting,  \* axum accepts connections
    drained,    \* the endpoints whose connections were told to close
    request     \* each request: where it is, the services left around it, those entered,
                \* what kind it is and how it was answered

httpServer == <<xpc, signalled, notice, accepting, drained>>
httpServeVars == <<http, httpServer, request>>

HttpPhase == {"off", "select", "graceful", "returned", "dropped"}

-----------------------------------------------------------------------------
(* AxumPlugin::build *)

\* Router::layer puts the new layer outside the others.
Layered(stack, layer) == <<layer>> \o stack

FoldedInOrder(app) ==
    LET wrapped[n \in 0..Len(app.middleware)] ==
            IF n = 0 THEN <<"handler">> ELSE Layered(wrapped[n - 1], app.middleware[n])
    IN  wrapped[Len(app.middleware)]

\* Applied in reverse, so that the first middleware registered is the outermost.
UserStack(app) ==
    LET last == Len(app.middleware)
        wrapped[n \in 0..last] ==
            IF n = 0 THEN <<"handler">> ELSE Layered(wrapped[n - 1], app.middleware[last - n + 1])
    IN  wrapped[last]

\* The deadline and the body limit go around the user's middleware, the scope around all.
Deadline(app) == IF app.timeout THEN <<"timeout">> ELSE <<>>
build(app) == Layered(Deadline(app) \o Layered(UserStack(app), "limit"), "scope")

\* Two protocols at one path are refused when the second is registered.
register_ws(app) == \A i, j \in DOMAIN app.endpoints : app.endpoints[i] = app.endpoints[j] => i = j

Kinds == {"plain", "large"} \cup UNION {Range(app.endpoints) : app \in HttpApps}
NoRequest == [at |-> "none", left |-> <<>>, entered |-> <<>>, kind |-> "plain", answer |-> "none"]

HttpServeInit ==
    /\ http \in {app \in HttpApps : register_ws(app)}
    /\ xpc = "off" /\ signalled = FALSE /\ notice = FALSE /\ accepting = FALSE
    /\ drained = {} /\ request = [r \in Requests |-> NoRequest]

-----------------------------------------------------------------------------
(* A request, on the task of its connection. *)

InService(r) == request[r].at = "service"
Upgraded(r) == request[r].at \in {"socket", "stuck"}
Set(r, field, value) == [request[r] EXCEPT ![field] = value]
Becomes(r, record) == request' = [request EXCEPT ![r] = record] /\ UNCHANGED <<http, httpServer>>

Answered(r, status) ==
    Becomes(r, [request[r] EXCEPT !.at = "over", !.left = <<>>, !.answer = status])
Enters(r) ==
    Becomes(r, [request[r] EXCEPT !.left = Tail(@), !.entered = Append(@, Head(request[r].left))])

\* Sent by a peer to a route of the application.
Receive(r, kind) ==
    /\ accepting /\ request[r].at = "none"
    /\ kind \in {"plain", "large"} \cup Range(http.endpoints)
    /\ Becomes(r, [NoRequest EXCEPT !.at = "service", !.left = build(http), !.kind = kind])

\* The scope layer: open_scope may fail.
OpenScope(r) ==
    /\ InService(r) /\ Head(request[r].left) = "scope"
    /\ Enters(r) \/ Answered(r, "500")

EnterPolicy(r) ==
    /\ InService(r) /\ Head(request[r].left) \in {"timeout", "limit"}
    /\ Enters(r)

\* A middleware calls next, or answers by itself.
EnterMiddleware(r) ==
    /\ InService(r) /\ Head(request[r].left) \in Range(http.middleware)
    /\ Enters(r) \/ Answered(r, "user")

\* The handler: the body limit applies to its extractors, Inject needs the scope's handle, and a
\* socket goes on after the 101.
Handle(r) ==
    /\ InService(r) /\ Head(request[r].left) = "handler"
    /\ CASE request[r].kind = "large" /\ "limit" \in Range(request[r].entered) -> Answered(r, "413")
         [] "scope" \notin Range(request[r].entered) -> Answered(r, "500")
         [] request[r].kind \in Range(http.endpoints) ->
                Becomes(r, [request[r] EXCEPT !.at = "socket", !.left = <<>>, !.answer = "101"])
         [] OTHER -> Answered(r, "200") \/ Answered(r, "500")

\* The deadline passes: what it guards is dropped wherever it is.
RequestTimeout(r) ==
    /\ InService(r) /\ "timeout" \in Range(request[r].entered)
    /\ Answered(r, "408")

\* User code panics, or the peer goes: the connection ends without an answer.
ConnectionLost(r) == InService(r) /\ Answered(r, "lost")

\* The session of a socket: it blocks on a peer that no longer reads, it ends for any reason, or
\* because its endpoint was told to close.
SocketStalls(r) == request[r].at = "socket" /\ Becomes(r, Set(r, "at", "stuck"))
SocketCloses(r) == Upgraded(r) /\ Becomes(r, Set(r, "at", "over"))
SocketDrained(r) == request[r].at = "socket" /\ request[r].kind \in drained /\ SocketCloses(r)

RequestStep(r) ==
    \/ OpenScope(r) \/ EnterPolicy(r) \/ EnterMiddleware(r) \/ Handle(r) \/ RequestTimeout(r)
    \/ ConnectionLost(r) \/ SocketStalls(r) \/ SocketCloses(r) \/ SocketDrained(r)

-----------------------------------------------------------------------------
(* Axum::run *)

\* The listener is bound, unless that fails.
Listen ==
    /\ xpc = "off"
    /\ \/ xpc' = "select" /\ accepting' = TRUE
       \/ xpc' = "returned" /\ UNCHANGED accepting
    /\ UNCHANGED <<http, signalled, notice, drained, request>>

\* The shutdown future: each endpoint is told to close its connections, then run() is told.
ShutdownWaited(shutdown) ==
    /\ xpc # "off" /\ ~signalled /\ shutdown
    /\ signalled' = TRUE /\ drained' = Range(http.endpoints) /\ notice' = TRUE
    /\ UNCHANGED <<http, xpc, accepting, request>>

\* axum's own loop sees the end of that future.
StopAccepting ==
    /\ accepting /\ signalled /\ accepting' = FALSE
    /\ UNCHANGED <<http, xpc, signalled, notice, drained, request>>

\* What axum waits for: the requests in service, not the sessions of upgraded sockets.
ServerDone == signalled /\ ~accepting /\ \A r \in Requests : ~InService(r)

\* Either arm of the select, and the wait for the server after it.
ServerEnds ==
    /\ xpc \in {"select", "graceful"} /\ ServerDone
    /\ xpc' = "returned"
    /\ UNCHANGED <<http, signalled, notice, accepting, drained, request>>

ShutdownStarted ==
    /\ xpc = "select" /\ notice
    /\ xpc' = "graceful" /\ notice' = FALSE
    /\ UNCHANGED <<http, signalled, accepting, drained, request>>

\* The server is dropped; it no longer accepts.
GracefulTimeout ==
    /\ xpc = "graceful" /\ http.graceful
    /\ xpc' = "dropped" /\ accepting' = FALSE
    /\ UNCHANGED <<http, signalled, notice, drained, request>>

RunStep(shutdown) ==
    \/ Listen \/ ShutdownWaited(shutdown) \/ StopAccepting \/ ServerEnds
    \/ ShutdownStarted \/ GracefulTimeout

RequestsNext == \E r \in Requests : RequestStep(r) \/ \E kind \in Kinds : Receive(r, kind)

\* What run() may wait for without end: a request with no deadline, when no graceful timeout
\* is configured either.
MayHang == ~http.graceful /\ ~http.timeout /\ \E r \in Requests : InService(r)

HttpReturned == xpc \in {"returned", "dropped"}
-----------------------------------------------------------------------------
\* What surrounds the handler of every route, from the outside in.
AroundHandler(app) == <<"scope">> \o Deadline(app) \o <<"limit">> \o app.middleware

(* A request meets the layers in one order: the request scope, the deadline if there is
   one, the body limit, then every middleware in the order of registration; its handler
   runs, and a body is refused or a socket upgraded, behind all of them and nowhere else
   (AxumPlugin::build).  No request ends at a deadline that is not configured.  And run()
   does not return, short of its graceful timeout, while a request it accepted is
   unfinished; the sessions of upgraded sockets it does leave behind, each of them told to
   close, the ones upgraded during the shutdown included (Axum::run). *)
RequestsServed ==
    /\ \A r \in Requests :
        /\ IsPrefix(request[r].entered, AroundHandler(http))
        /\ request[r].answer \in {"200", "413", "101"} => request[r].entered = AroundHandler(http)
        /\ request[r].answer = "408" => http.timeout
    /\ xpc = "returned" => \A r \in Requests :
        ~InService(r) /\ (Upgraded(r) => request[r].kind \in drained)
=============================================================================
