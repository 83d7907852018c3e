----------------------------- MODULE HttpClient -----------------------------
(***************************************************************************)
(* One call of a generated HTTP client over either backend                 *)
(* (axum/src/client/hyper_backend.rs, reqwest_backend.rs): unary,          *)
(* open_stream, which hands out the response body as it arrives, and       *)
(* send_stream. Each operation is the sequence of its steps; every step    *)
(* may fail, and `?` ends the call there. The interceptor is user code     *)
(* that sees the request, the response and a terminal error. Another       *)
(* thread may replace the header provider that clones of a client share.   *)
(***************************************************************************)
EXTENDS Integers, Sequences, SequencesExt

CONSTANTS
    HeaderMaps,   \* the headers a request may carry: name -> its values
    Providers,    \* what a header provider returns, with <<>> for no provider
    MaxBodyParts  \* bound: chunks of a streamed response body

ASSUME HttpAssumption == <<>> \in Providers /\ MaxBodyParts \in Nat

VARIABLES
    httpOp,       \* the steps of the operation
    httpLeft,     \* those still to take
    httpProvider, \* ReqwestClient::header_provider
    httpOwn,      \* the headers of the caller's request
    httpShown,    \* the headers on_request is given
    httpHeaders,  \* the headers it leaves, which are sent
    httpStatus,   \* parts.status
    httpSeen,     \* what the interceptor saw, in order
    httpResult,   \* "pending", "ok", "dropped", the ClientError the call returned, or
                  \* "broken": the last item of the stream it returned is an error
    httpBody,     \* what the body stream has yielded: "chunk" or "error"
    httpItems     \* what a decoder above it has yielded

RequestVars == <<httpShown, httpHeaders>>
ResponseVars == <<httpStatus, httpBody, httpItems>>
httpVars == <<httpOp, httpLeft, httpProvider, httpOwn, RequestVars, ResponseVars, httpSeen, httpResult>>

-----------------------------------------------------------------------------
(* The operations. *)

build_request == <<"encode", "prepare_parts", "build">>
build_stream_request == <<"prepare_parts", "build">>
Finishing == <<"on_response", "collect", "status", "decode">>

\* Mutant of HyperOpenStream: the status is classified before the interceptor sees it.
ClassifiedFirst == build_request \o <<"send", "refuse", "on_response", "stream">>

HyperUnary == build_request \o <<"send">> \o Finishing
HyperOpenStream == build_request \o <<"send", "on_response", "refuse", "stream">>
HyperSendStream == build_stream_request \o <<"send">> \o Finishing

ReqwestUnary == <<"encode", "prepare_request", "send">> \o Finishing
ReqwestOpenStream == <<"encode", "prepare_request", "send", "on_response", "refuse", "stream">>
ReqwestSendStream == <<"prepare_request", "send">> \o Finishing

Operations ==
    {HyperUnary, HyperOpenStream, HyperSendStream, ReqwestUnary, ReqwestOpenStream, ReqwestSendStream}

HttpStart ==
    /\ httpShown = <<>> /\ httpHeaders = <<>> /\ httpStatus = "none" /\ httpSeen = <<>> /\ httpResult = "pending"
    /\ httpBody = <<>> /\ httpItems = <<>>
HttpInit ==
    /\ httpOp \in Operations /\ httpLeft = httpOp
    /\ httpProvider \in Providers /\ httpOwn \in HeaderMaps /\ HttpStart
HttpOff == httpOp = <<>> /\ httpLeft = <<>> /\ httpProvider = <<>> /\ httpOwn = <<>> /\ HttpStart

-----------------------------------------------------------------------------
(* The steps. *)

AtStep(step) == httpResult = "pending" /\ httpLeft # <<>> /\ Head(httpLeft) = step
Proceeds == httpLeft' = Tail(httpLeft) /\ UNCHANGED httpResult

\* on_error, and the call returns the error.
fail(error) ==
    /\ httpResult' = error /\ httpSeen' = Append(httpSeen, error)
    /\ httpLeft' = <<>>

Fixed == UNCHANGED <<httpOp, httpProvider, httpOwn>>

\* encode, and the request builder, which refuses parts it cannot assemble.
Encode ==
    /\ AtStep("encode") \/ AtStep("build")
    /\ (Proceeds /\ UNCHANGED httpSeen) \/ fail("Encode")
    /\ Fixed /\ UNCHANGED <<RequestVars, ResponseVars>>

\* insert replaces: of a name's own values the last stays.
merged_headers ==
    [n \in DOMAIN httpProvider \cup DOMAIN httpOwn |->
        IF n \in DOMAIN httpOwn THEN <<httpOwn[n][Len(httpOwn[n])]>> ELSE httpProvider[n]]

\* The interceptor is given the request's parts, and may change the headers in place.
on_request(headers) ==
    /\ httpShown' = headers /\ httpHeaders' \in {headers} \cup HeaderMaps
    /\ httpSeen' = Append(httpSeen, "on_request")

\* The URI may not parse; then the interceptor sees the request.
prepare_parts ==
    /\ AtStep("prepare_parts")
    /\ (Proceeds /\ on_request(httpOwn)) \/ (fail("Encode") /\ UNCHANGED RequestVars)
    /\ Fixed /\ UNCHANGED ResponseVars

prepare_request ==
    /\ AtStep("prepare_request")
    /\ (Proceeds /\ on_request(merged_headers)) \/ (fail("Encode") /\ UNCHANGED RequestVars)
    /\ Fixed /\ UNCHANGED ResponseVars

\* The response's status and headers arrive, or the connection or a streamed request body fails.
Send ==
    /\ AtStep("send")
    /\ \/ Proceeds /\ httpStatus' \in {"success", "failure"} /\ UNCHANGED httpSeen
       \/ fail("Transport") /\ UNCHANGED httpStatus
    /\ Fixed /\ UNCHANGED <<RequestVars, httpBody, httpItems>>

\* response_parts: the interceptor may change the status.
OnResponse ==
    /\ AtStep("on_response") /\ Proceeds
    /\ httpStatus' \in {"success", "failure"} /\ httpSeen' = Append(httpSeen, "on_response")
    /\ Fixed /\ UNCHANGED <<RequestVars, httpBody, httpItems>>

Collect ==
    /\ AtStep("collect")
    /\ (Proceeds /\ UNCHANGED httpSeen) \/ fail("Transport")
    /\ Fixed /\ UNCHANGED <<RequestVars, ResponseVars>>

\* remote_error, after the body was read.
Classify ==
    /\ AtStep("status")
    /\ IF httpStatus = "success" THEN Proceeds /\ UNCHANGED httpSeen ELSE fail("Remote")
    /\ Fixed /\ UNCHANGED <<RequestVars, ResponseVars>>

\* A streamed response reads its body first only when the status is no success.
Refuse ==
    /\ AtStep("refuse")
    /\ IF httpStatus = "success" THEN Proceeds /\ UNCHANGED httpSeen
       ELSE fail("Remote") \/ fail("Transport")
    /\ Fixed /\ UNCHANGED <<RequestVars, ResponseVars>>

Decode ==
    /\ AtStep("decode")
    /\ \/ httpLeft' = <<>> /\ httpResult' = "ok" /\ UNCHANGED httpSeen
       \/ fail("Decode")
    /\ Fixed /\ UNCHANGED <<RequestVars, ResponseVars>>

HandOutStream ==
    /\ AtStep("stream") /\ Proceeds /\ UNCHANGED httpSeen
    /\ Fixed /\ UNCHANGED <<RequestVars, ResponseVars>>

\* The stream was returned; the body may fail between two chunks, and says so as an item.
Streams == httpResult = "pending" /\ httpLeft = <<>> /\ httpOp # <<>>
BodyFailed == "error" \in {httpBody[i] : i \in DOMAIN httpBody}

BodyStream(chunk) ==
    /\ Streams /\ Len(httpBody) < MaxBodyParts /\ ~BodyFailed
    /\ httpBody' = Append(httpBody, chunk)
    /\ Fixed /\ UNCHANGED <<httpLeft, RequestVars, httpStatus, httpSeen, httpResult, httpItems>>

\* RawStream::decode_stream: chunks are items, up to the first error.
decode_stream ==
    /\ Streams /\ Len(httpItems) < Len(httpBody) /\ httpBody[Len(httpItems) + 1] = "chunk"
    /\ httpItems' = Append(httpItems, "chunk")
    /\ Fixed /\ UNCHANGED <<httpLeft, RequestVars, httpStatus, httpSeen, httpResult, httpBody>>

\* The caller has every item; the error that ended the body, if one did, was the last. The
\* stream has no interceptor.
StreamOver ==
    /\ Streams /\ httpResult' = IF BodyFailed THEN "broken" ELSE "ok"
    /\ \A i \in DOMAIN httpBody : i > Len(httpItems) => httpBody[i] = "error"
    /\ Fixed /\ UNCHANGED <<httpLeft, RequestVars, httpStatus, httpSeen, httpBody, httpItems>>

\* The caller drops the call, or the stream, at any await.
DropHttpCall ==
    /\ httpResult = "pending" /\ httpOp # <<>> /\ httpResult' = "dropped" /\ httpLeft' = <<>>
    /\ Fixed /\ UNCHANGED <<RequestVars, httpStatus, httpSeen, httpBody, httpItems>>

set_header_provider(provider) ==
    /\ provider # <<>> /\ httpProvider' = provider /\ httpOp # <<>>
    /\ UNCHANGED <<httpOp, httpLeft, httpOwn, RequestVars, ResponseVars, httpSeen, httpResult>>

HttpNext ==
    \/ Encode \/ prepare_parts \/ prepare_request \/ Send \/ OnResponse \/ Collect \/ Classify
    \/ Refuse \/ Decode \/ HandOutStream \/ decode_stream \/ StreamOver \/ DropHttpCall
    \/ \E chunk \in {"chunk", "error"} : BodyStream(chunk)
    \/ \E provider \in Providers : set_header_provider(provider)

HttpSpec == HttpInit /\ [][HttpNext]_httpVars
-----------------------------------------------------------------------------
ClientErrors == {"Encode", "Transport", "Remote", "Decode"}

\* What the interceptor saw besides the error that ended the call.
Hooks == IF httpResult \in ClientErrors THEN Front(httpSeen) ELSE httpSeen

(* Over both backends and all three operations the interceptor sees the request
   before the response, each once, and a call that returns an error shows it that
   error, once and last; a call that succeeds, or is dropped, shows it none, and
   neither does a stream that breaks after it was returned: that error reaches the
   caller only. What it makes of the status decides: a call succeeds, or yields a
   chunk, only with a status of success after on_response, and is refused as Remote
   only with another. In the headers on_request is given, which it may change, the
   request's own win over the provider's, whoever replaces it meanwhile (fail,
   response_parts, merged_headers). *)
HooksAgree ==
    /\ Hooks \in {<<>>, <<"on_request">>, <<"on_request", "on_response">>}
    /\ httpResult \in ClientErrors => httpSeen = Append(Hooks, httpResult)
    /\ httpResult = "Remote" => httpStatus = "failure" /\ Len(Hooks) = 2
    /\ httpResult \in {"ok", "broken"} \/ httpBody # <<>> => httpStatus = "success" /\ Len(Hooks) = 2
    /\ httpResult = "ok" => ~BodyFailed
    /\ Hooks # <<>> => \A n \in DOMAIN httpOwn :
            n \in DOMAIN httpShown /\ httpShown[n][Len(httpShown[n])] = httpOwn[n][Len(httpOwn[n])]
=============================================================================
