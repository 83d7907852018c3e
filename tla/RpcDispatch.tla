---------------------------- MODULE RpcDispatch ----------------------------
(***************************************************************************)
(* One RPC call on its own task (drive_call in rpc/src/protocol.rs): its   *)
(* request scope, the middleware stack the plugin built, the router, the   *)
(* extractors of the handler it picks, the handler, and the reply or the   *)
(* response stream it pumps to the caller. An error on any of these paths, *)
(* a panic included, goes through the global error handler and is sent.    *)
(*                                                                         *)
(* Guards, layers, factories, handlers and the error handler are user      *)
(* code: each may succeed, fail or panic. A name is the tuple of its       *)
(* dotted segments, so joining two names is concatenation.                 *)
(***************************************************************************)
EXTENDS Integers, Sequences, FiniteSets, SequencesExt

CONSTANTS
    RpcApps,     \* the registrations: services, layers, hook (an error handler is set), and
                 \* components (what each depends on)
    RpcPaths,    \* the paths callers ask for
    UserCodes,   \* the status codes user code answers with
    MaxRequests, \* bound: request items the caller streams
    MaxYields    \* bound: items a response stream yields

\* A handler's parameters, by what extracts them.
ParamKinds == {"Payload", "Peer", "Cancel", "Inject", "InjectPeer", "Streaming", "RequestStream"}
RpcDescriptor ==
    [name : Seq(STRING), params : Seq(ParamKinds), stream : BOOLEAN, fallible : BOOLEAN, handler : Nat]
ServiceDescriptor == [id : STRING, name : Seq(STRING), ty : STRING, groups : Seq(Seq(RpcDescriptor))]
LayerApplier == [kind : {"guard", "layer"}, of : STRING]

\* A type has one descriptor, the one its macro generates.
ASSUME RpcAssumption ==
    /\ RpcApps \subseteq [services : Seq(ServiceDescriptor), layers : Seq(LayerApplier), hook : BOOLEAN,
                          components : SUBSET SUBSET STRING]
    /\ \A app \in RpcApps : \A i, j \in DOMAIN app.services :
            app.services[i].ty = app.services[j].ty => app.services[i] = app.services[j]
    /\ MaxRequests \in Nat /\ MaxYields \in Nat

VARIABLES
    rpcApp,     \* the application
    rpcStage,   \* where the call is
    rpcPath,    \* RpcRequest.path
    rpcPayload, \* the payload decodes to the handler's type
    rpcStack,   \* the services still around the call, the next one first
    rpcEntered, \* the layers the call went through
    rpcTarget,  \* the RPC the router picked
    rpcArgs,    \* how many parameters were extracted
    rpcSent,    \* the request items the caller streamed; each decodes ("ok") or not ("bad")
    rpcInput,   \* the request stream: "none", "open", "Streaming", "RequestStream", "ended"
    rpcGot,     \* what the handler read of it
    rpcRead,    \* how many frames that took
    rpcError,   \* the ErrorResponse on its way to the wire
    rpcWire     \* what the caller was sent

callVars == <<rpcPath, rpcPayload, rpcApp>>
inputVars == <<rpcSent, rpcInput, rpcGot, rpcRead>>
rpcVars == <<callVars, rpcStage, rpcStack, rpcEntered, rpcTarget, rpcArgs, inputVars, rpcError, rpcWire>>

-----------------------------------------------------------------------------
(* Assembly: routes and layers. *)

\* Every RPC a service's handler blocks contribute, the blocks in order.
RpcsOf(service) == FlattenSeq(service.groups)

\* A type registered twice counts once.
resolved_services(services) ==
    LET kept[n \in 0..Len(services)] ==
            IF n = 0 THEN <<>>
            ELSE IF \E i \in DOMAIN kept[n - 1] : kept[n - 1][i].ty = services[n].ty THEN kept[n - 1]
            ELSE Append(kept[n - 1], services[n])
    IN  kept[Len(services)]

RoutePath(service, rpc) == service.name \o rpc.name

\* Every route of the resolved services, in registration order.
RouteList(resolved) ==
    FlattenSeq([i \in DOMAIN resolved |->
        [k \in DOMAIN RpcsOf(resolved[i]) |->
            [path |-> RoutePath(resolved[i], RpcsOf(resolved[i])[k]), rpc |-> RpcsOf(resolved[i])[k]]]])

Distinct(s) == \A i, j \in DOMAIN s : s[i] = s[j] => i = j

NamesOnly(resolved) ==
    /\ Distinct([i \in DOMAIN resolved |-> resolved[i].id])
    /\ \A i \in DOMAIN resolved :
        /\ RpcsOf(resolved[i]) # <<>>
        /\ Distinct([k \in DOMAIN RpcsOf(resolved[i]) |-> RpcsOf(resolved[i])[k].name])

validate_services(resolved) ==
    LET routes == RouteList(resolved)
    IN  NamesOnly(resolved) /\ Distinct([i \in DOMAIN routes |-> routes[i].path])

\* RpcRouter::from_services: a later route at the same path would replace the earlier.
from_services(resolved) ==
    LET routes == RouteList(resolved)
        Final(p) == CHOOSE i \in DOMAIN routes :
                        routes[i].path = p /\ \A j \in (i + 1)..Len(routes) : routes[j].path # p
    IN  [p \in {routes[i].path : i \in DOMAIN routes} |-> routes[Final(p)].rpc]

RouterService == [kind |-> "router"]
Wrap(service, layer) == <<layer>> \o service

FoldedForward(layers) ==
    LET wrapped[n \in 0..Len(layers)] ==
            IF n = 0 THEN <<RouterService>> ELSE Wrap(wrapped[n - 1], layers[n])
    IN  wrapped[Len(layers)]

\* Applied in reverse, so that the first layer registered is the outermost.
Stacked(layers) ==
    LET wrapped[n \in 0..Len(layers)] ==
            IF n = 0 THEN <<RouterService>> ELSE Wrap(wrapped[n - 1], layers[Len(layers) - n + 1])
    IN  wrapped[Len(layers)]

\* serve_connection seeds the peer into the connection scope for these applications only.
needs_peer(app) == \E deps \in app.components : "PeerInfo" \in deps

-----------------------------------------------------------------------------
(* Errors. *)

\* `hooks` counts the calls of the error handler on the way to the wire.
ErrorResponse(code) == [code |-> code, hooks |-> 0]
internal_error_response == ErrorResponse("Internal")

status_code(error) ==
    CASE error \in {"InvalidPayload", "NotStreaming"} -> "BadInput"
      [] error = "RouteNotFound" -> "NotFound"
      [] OTHER -> "Internal"

\* The error handler maps the error to any code, or panics.
apply_error_handler(error) ==
    IF ~rpcApp.hook THEN {error}
    ELSE {[code |-> c, hooks |-> error.hooks + 1] :
            c \in {error.code, internal_error_response.code} \cup UserCodes}

InputDropped == rpcInput' = IF rpcInput = "none" THEN "none" ELSE "ended"

\* The call's error arm. The context is gone by then, and its request stream with it.
FailsWith(error) == rpcError' = error /\ rpcStage' = "failing" /\ InputDropped

-----------------------------------------------------------------------------
(* The call. *)

RpcStart ==
    /\ rpcEntered = <<>> /\ rpcTarget = <<>> /\ rpcArgs = 0
    /\ rpcSent = <<>> /\ rpcGot = <<>> /\ rpcRead = 0
    /\ rpcError = internal_error_response /\ rpcWire = <<>>

\* A registration that does not validate fails the build: nothing is served.
RpcInit ==
    /\ rpcApp \in RpcApps /\ rpcPath \in RpcPaths /\ rpcPayload \in BOOLEAN
    /\ rpcInput \in {"none", "open"} /\ RpcStart
    /\ LET resolved == resolved_services(rpcApp.services)
       IN  rpcStage = IF validate_services(resolved) THEN "scope" ELSE "refused"
    /\ rpcStack = Stacked(rpcApp.layers)

RpcOff ==
    /\ rpcApp = CHOOSE app \in RpcApps : TRUE
    /\ rpcPath = <<>> /\ rpcPayload = FALSE /\ rpcInput = "none" /\ RpcStart
    /\ rpcStage = "off" /\ rpcStack = <<>>

\* open_scope: the request scope's factories may fail or panic.
OpenRequestScope ==
    /\ rpcStage = "scope"
    /\ \/ rpcStage' = "layers" /\ UNCHANGED <<rpcError, rpcInput>>
       \/ FailsWith(ErrorResponse(status_code("App")))
       \/ FailsWith(internal_error_response)
    /\ UNCHANGED <<callVars, rpcStack, rpcEntered, rpcTarget, rpcArgs, rpcSent, rpcGot, rpcRead, rpcWire>>

\* GuardService::call, or the service of a tower layer, which may answer by itself. A
\* stack that is not ready fails like its outermost layer. What a layer makes of the inner
\* service's response once that returns is left out.
EnterLayer ==
    /\ rpcStage = "layers" /\ Head(rpcStack) # RouterService
    /\ \/ /\ rpcStack' = Tail(rpcStack) /\ rpcEntered' = Append(rpcEntered, Head(rpcStack))
          /\ UNCHANGED <<rpcStage, rpcError, rpcInput>>
       \/ /\ \/ \E code \in UserCodes : FailsWith(ErrorResponse(code))
             \/ FailsWith(internal_error_response)
          /\ UNCHANGED <<rpcStack, rpcEntered>>
       \/ /\ Head(rpcStack).kind = "layer" /\ rpcStage' = "reply" /\ InputDropped
          /\ UNCHANGED <<rpcStack, rpcEntered, rpcError>>
    /\ UNCHANGED <<callVars, rpcTarget, rpcArgs, rpcSent, rpcGot, rpcRead, rpcWire>>

\* RpcRouter::dispatch.
dispatch ==
    /\ rpcStage = "layers" /\ Head(rpcStack) = RouterService
    /\ LET routes == from_services(resolved_services(rpcApp.services))
       IN  IF rpcPath \in DOMAIN routes
           THEN /\ rpcTarget' = routes[rpcPath] /\ rpcStage' = "extract"
                /\ UNCHANGED <<rpcError, rpcInput>>
           ELSE /\ FailsWith(ErrorResponse(status_code("RouteNotFound")))
                /\ UNCHANGED rpcTarget
    /\ UNCHANGED <<callVars, rpcStack, rpcEntered, rpcArgs, rpcSent, rpcGot, rpcRead, rpcWire>>

NextParam == rpcTarget.params[rpcArgs + 1]
Extracted ==
    /\ rpcArgs' = rpcArgs + 1 /\ UNCHANGED <<rpcStage, rpcError>>
ExtractionFails(error) == FailsWith(ErrorResponse(status_code(error))) /\ UNCHANGED rpcArgs

\* take_requests gives the receiver out once.
TakeRequests(as) ==
    IF rpcInput = "open" THEN Extracted /\ rpcInput' = as ELSE ExtractionFails("NotStreaming")

\* Payload, Peer, Cancel, Inject, Streaming and RequestStream, in parameter order.
from_context ==
    /\ rpcStage = "extract" /\ rpcArgs < Len(rpcTarget.params)
    /\ CASE NextParam = "Payload" ->
              IF rpcPayload THEN Extracted /\ UNCHANGED rpcInput ELSE ExtractionFails("InvalidPayload")
         [] NextParam \in {"Peer", "Cancel"} -> Extracted /\ UNCHANGED rpcInput
         [] NextParam = "Inject" -> (Extracted /\ UNCHANGED rpcInput) \/ ExtractionFails("Di")
         [] NextParam = "InjectPeer" ->
              IF needs_peer(rpcApp) THEN Extracted /\ UNCHANGED rpcInput ELSE ExtractionFails("Di")
         [] OTHER -> TakeRequests(NextParam)
    /\ UNCHANGED <<callVars, rpcStack, rpcEntered, rpcTarget, rpcSent, rpcGot, rpcRead, rpcWire>>

CallHandler ==
    /\ rpcStage = "extract" /\ rpcArgs = Len(rpcTarget.params)
    /\ rpcStage' = "run"
    /\ UNCHANGED <<callVars, rpcStack, rpcEntered, rpcTarget, rpcArgs, inputVars, rpcError, rpcWire>>

\* The caller streams an item, through the call's channel.
CallerSends(frame) ==
    /\ rpcInput \in {"open", "Streaming", "RequestStream"} /\ Len(rpcSent) < MaxRequests
    /\ rpcStage \notin {"refused", "done", "gone", "failing"}
    /\ rpcSent' = Append(rpcSent, frame)
    /\ UNCHANGED <<callVars, rpcStage, rpcStack, rpcEntered, rpcTarget, rpcArgs, rpcInput, rpcGot,
                   rpcRead, rpcError, rpcWire>>

\* RequestStream ends at the first item that does not decode.
DecodeFails == rpcInput' = "ended" /\ UNCHANGED rpcGot

\* Streaming yields the error as an item and goes on.
ReadRequest ==
    /\ rpcStage \in {"run", "pump"} /\ rpcInput \in {"Streaming", "RequestStream"}
    /\ rpcRead < Len(rpcSent) /\ rpcRead' = rpcRead + 1
    /\ IF rpcInput = "Streaming" \/ rpcSent[rpcRead'] = "ok"
       THEN rpcGot' = Append(rpcGot, rpcSent[rpcRead']) /\ UNCHANGED rpcInput
       ELSE DecodeFails
    /\ UNCHANGED <<callVars, rpcStage, rpcStack, rpcEntered, rpcTarget, rpcArgs, rpcSent, rpcError, rpcWire>>

\* The handler returns: a value to serialize, a stream, an Err where it is fallible; or it
\* panics. A stream may go on reading the requests.
HandlerReturns ==
    /\ rpcStage = "run"
    /\ \/ /\ rpcStage' = IF rpcTarget.stream THEN "pump" ELSE "reply"
          /\ IF rpcTarget.stream /\ rpcInput # "open" THEN UNCHANGED rpcInput ELSE InputDropped
          /\ UNCHANGED rpcError
       \/ ~rpcTarget.stream /\ FailsWith(ErrorResponse(status_code("Serialization")))
       \/ rpcTarget.fallible /\ \E code \in UserCodes : FailsWith(ErrorResponse(code))
       \/ FailsWith(internal_error_response)
    /\ UNCHANGED <<callVars, rpcStack, rpcEntered, rpcTarget, rpcArgs, rpcSent, rpcGot, rpcRead, rpcWire>>

Reply ==
    /\ rpcStage = "reply" /\ rpcStage' = "done" /\ rpcWire' = Append(rpcWire, [kind |-> "Ok"])
    /\ UNCHANGED <<callVars, rpcStack, rpcEntered, rpcTarget, rpcArgs, inputVars, rpcError>>

\* respond(Err): what the error handler made of it.
SendError ==
    /\ rpcStage = "failing" /\ rpcStage' = "done"
    /\ \E error \in apply_error_handler(rpcError) :
            rpcWire' = Append(rpcWire, [kind |-> "Err", error |-> error])
    /\ UNCHANGED <<callVars, rpcStack, rpcEntered, rpcTarget, rpcArgs, inputVars, rpcError>>

Yielded == Len(rpcWire)
SinkItem ==
    /\ rpcStage = "pump" /\ Yielded < MaxYields
    /\ rpcWire' = Append(rpcWire, [kind |-> "item"])
    /\ UNCHANGED <<callVars, rpcStage, rpcStack, rpcEntered, rpcTarget, rpcArgs, inputVars, rpcError>>

\* The stream yields an Err, an item that does not encode, or panics.
StreamFails(error) ==
    /\ rpcStage = "pump" /\ rpcStage' = "done"
    /\ rpcError' = error
    /\ \E e \in apply_error_handler(error) : rpcWire' = Append(rpcWire, [kind |-> "StreamError", error |-> e])
    /\ UNCHANGED <<callVars, rpcStack, rpcEntered, rpcTarget, rpcArgs, inputVars>>

SinkFinish ==
    /\ rpcStage = "pump" /\ rpcStage' = "done" /\ rpcWire' = Append(rpcWire, [kind |-> "End"])
    /\ UNCHANGED <<callVars, rpcStack, rpcEntered, rpcTarget, rpcArgs, inputVars, rpcError>>

\* The connection ends: the task is aborted, or its next send fails and it returns.
ConnectionGone ==
    /\ rpcStage \notin {"off", "refused", "done", "gone"} /\ rpcStage' = "gone"
    /\ UNCHANGED <<callVars, rpcStack, rpcEntered, rpcTarget, rpcArgs, inputVars, rpcError, rpcWire>>

StreamErrors == {internal_error_response} \cup {ErrorResponse(c) : c \in UserCodes}

RpcNext ==
    \/ OpenRequestScope \/ EnterLayer \/ dispatch \/ from_context \/ CallHandler \/ ReadRequest
    \/ HandlerReturns \/ Reply \/ SendError \/ SinkItem \/ SinkFinish \/ ConnectionGone
    \/ \E frame \in {"ok", "bad"} : CallerSends(frame)
    \/ \E error \in StreamErrors : StreamFails(error)

RpcSpec == RpcInit /\ [][RpcNext]_rpcVars
-----------------------------------------------------------------------------
Terminators == {"Ok", "Err", "StreamError", "End"}

\* The RPCs that declare the path, in the services as registered.
Declares(rpc) ==
    \E i \in DOMAIN rpcApp.services : \E k \in DOMAIN RpcsOf(rpcApp.services[i]) :
        RpcsOf(rpcApp.services[i])[k] = rpc /\ RoutePath(rpcApp.services[i], rpc) = rpcPath

(* A call that is not cut off by its connection is answered by exactly one
   terminator, the last frame it is sent; every error on the wire, from the scope,
   a layer, an extractor, the handler or the middle of its stream, went through the
   error handler exactly once (drive_call, apply_error_handler). A handler runs only
   after every layer admitted the call, in registration order, and it is the one RPC
   that declares the call's path (RpcPlugin::build, validate_services); what it reads
   of its request stream is what was sent, cut before the first bad item if it takes
   the items without errors (Streaming, RequestStream). *)
CallAnswered ==
    /\ \A i \in DOMAIN rpcWire :
        /\ rpcWire[i].kind \in Terminators <=> i = Len(rpcWire) /\ rpcStage = "done"
        /\ rpcWire[i].kind \in {"Err", "StreamError"} =>
                rpcWire[i].error.hooks = IF rpcApp.hook THEN 1 ELSE 0
    /\ rpcStage = "done" => rpcWire # <<>>
    /\ rpcTarget # <<>> =>
        /\ rpcEntered = rpcApp.layers
        /\ Declares(rpcTarget) /\ \A i \in DOMAIN rpcApp.services :
                \A k \in DOMAIN RpcsOf(rpcApp.services[i]) :
                    Declares(RpcsOf(rpcApp.services[i])[k]) => RpcsOf(rpcApp.services[i])[k] = rpcTarget
        /\ IF "RequestStream" \in {rpcTarget.params[k] : k \in DOMAIN rpcTarget.params}
           THEN /\ IsPrefix(rpcGot, rpcSent) /\ "bad" \notin {rpcGot[k] : k \in DOMAIN rpcGot}
           ELSE rpcGot = SubSeq(rpcSent, 1, rpcRead)
=============================================================================
