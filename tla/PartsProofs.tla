---------------------------- MODULE PartsProofs -----------------------------
(***************************************************************************)
(* Proofs about the smaller parts, each for itself: the calls of an HTTP   *)
(* client and its interceptor, a call through the RPC router, the shared   *)
(* lazy handle of a scope, the Unix socket file and its private directory, *)
(* the history of runs the job scheduler keeps, the captured logs, and the *)
(* NDJSON decoder of a streamed body.                                      *)
(***************************************************************************)
EXTENDS SocketFile, JobHistories, ScopeContainer, HttpClient, RpcDispatch, NdjsonStream, SequenceLemmas

-----------------------------------------------------------------------------
(* HttpClient: what is left of a call, by how far the interceptor got.      *)

StepNames == {"encode", "prepare_parts", "prepare_request", "build", "send", "on_response", "collect",
              "status", "decode", "refuse", "stream"}

\* What is left before each step, of the operations that collect the response and of those
\* that stream it; the hyper backend's first.
AtDecode == <<"decode">>
AtStatus == <<"status", "decode">>
AtCollect == <<"collect", "status", "decode">>
AtOnResponse == <<"on_response", "collect", "status", "decode">>
AtSend == <<"send", "on_response", "collect", "status", "decode">>
AtBuild == <<"build", "send", "on_response", "collect", "status", "decode">>
AtParts == <<"prepare_parts", "build", "send", "on_response", "collect", "status", "decode">>
AtEncode == <<"encode", "prepare_parts", "build", "send", "on_response", "collect", "status", "decode">>
AtRequest == <<"prepare_request", "send", "on_response", "collect", "status", "decode">>
AtEncodeReq == <<"encode", "prepare_request", "send", "on_response", "collect", "status", "decode">>
AtStream == <<"stream">>
AtRefuse == <<"refuse", "stream">>
OpenOnResponse == <<"on_response", "refuse", "stream">>
OpenSend == <<"send", "on_response", "refuse", "stream">>
OpenBuild == <<"build", "send", "on_response", "refuse", "stream">>
OpenParts == <<"prepare_parts", "build", "send", "on_response", "refuse", "stream">>
OpenEncode == <<"encode", "prepare_parts", "build", "send", "on_response", "refuse", "stream">>
OpenRequest == <<"prepare_request", "send", "on_response", "refuse", "stream">>
OpenEncodeReq == <<"encode", "prepare_request", "send", "on_response", "refuse", "stream">>

\* Before the interceptor saw the request; before it saw the response; before the status was
\* looked at; and after it was found a success.
Early == {AtEncode, AtParts, AtEncodeReq, AtRequest, OpenEncode, OpenParts, OpenEncodeReq, OpenRequest}
Middle == {AtBuild, AtSend, AtOnResponse, OpenBuild, OpenSend, OpenOnResponse}
Unchecked == {AtCollect, AtStatus, AtRefuse}
Checked == {AtDecode, AtStream, <<>>}

\* A concatenation, by its elements.
LEMMA Glued ==
    ASSUME NEW S, NEW a \in Seq(S), NEW b \in Seq(S), NEW c \in Seq(S), Len(c) = Len(a) + Len(b),
           \A i \in 1..Len(a) : c[i] = a[i], \A i \in 1..Len(b) : c[Len(a) + i] = b[i]
    PROVE  a \o b = c
<1>1. a \o b \in Seq(S) /\ Len(a \o b) = Len(c)
  OBVIOUS
<1>2. \A i \in 1..Len(a \o b) : (a \o b)[i] = c[i]
  <2>1. SUFFICES ASSUME NEW i \in 1..Len(c) PROVE (a \o b)[i] = c[i]
    BY <1>1
  <2>2. CASE i \in 1..Len(a)
    BY <2>2
  <2>3. CASE i \notin 1..Len(a)
    <3>1. i - Len(a) \in 1..Len(b) /\ i = Len(a) + (i - Len(a))
      BY <2>3
    <3>q. QED
      BY <3>1, <2>3
  <2>q. QED
    BY <2>2, <2>3
<1>q. QED
  BY <1>1, <1>2, SeqEqual

\* The steps of the operations that collect the response, one by one.
LEMMA UnaryTails ==
    /\ Head(AtEncode) = "encode" /\ Tail(AtEncode) = AtParts /\ AtEncode # <<>>
    /\ Head(AtParts) = "prepare_parts" /\ Tail(AtParts) = AtBuild /\ AtParts # <<>>
    /\ Head(AtEncodeReq) = "encode" /\ Tail(AtEncodeReq) = AtRequest /\ AtEncodeReq # <<>>
    /\ Head(AtRequest) = "prepare_request" /\ Tail(AtRequest) = AtSend /\ AtRequest # <<>>
    /\ Head(AtBuild) = "build" /\ Tail(AtBuild) = AtSend /\ AtBuild # <<>>
    /\ Head(AtSend) = "send" /\ Tail(AtSend) = AtOnResponse /\ AtSend # <<>>
    /\ Head(AtOnResponse) = "on_response" /\ Tail(AtOnResponse) = AtCollect /\ AtOnResponse # <<>>
    /\ Head(AtCollect) = "collect" /\ Tail(AtCollect) = AtStatus /\ AtCollect # <<>>
    /\ Head(AtStatus) = "status" /\ Tail(AtStatus) = AtDecode /\ AtStatus # <<>>
    /\ Head(AtDecode) = "decode" /\ Tail(AtDecode) = <<>> /\ AtDecode # <<>>
  BY DEF AtEncode, AtParts, AtBuild, AtEncodeReq, AtRequest, AtSend, AtOnResponse, AtCollect, AtStatus, AtDecode

\* The steps of the operations that stream the response, one by one.
LEMMA OpenTails ==
    /\ Head(OpenEncode) = "encode" /\ Tail(OpenEncode) = OpenParts /\ OpenEncode # <<>>
    /\ Head(OpenParts) = "prepare_parts" /\ Tail(OpenParts) = OpenBuild /\ OpenParts # <<>>
    /\ Head(OpenEncodeReq) = "encode" /\ Tail(OpenEncodeReq) = OpenRequest /\ OpenEncodeReq # <<>>
    /\ Head(OpenRequest) = "prepare_request" /\ Tail(OpenRequest) = OpenSend /\ OpenRequest # <<>>
    /\ Head(OpenBuild) = "build" /\ Tail(OpenBuild) = OpenSend /\ OpenBuild # <<>>
    /\ Head(OpenSend) = "send" /\ Tail(OpenSend) = OpenOnResponse /\ OpenSend # <<>>
    /\ Head(OpenOnResponse) = "on_response" /\ Tail(OpenOnResponse) = AtRefuse /\ OpenOnResponse # <<>>
    /\ Head(AtRefuse) = "refuse" /\ Tail(AtRefuse) = AtStream /\ AtRefuse # <<>>
    /\ Head(AtStream) = "stream" /\ Tail(AtStream) = <<>> /\ AtStream # <<>>
  BY DEF OpenEncode, OpenParts, OpenBuild, OpenEncodeReq, OpenRequest, OpenSend, OpenOnResponse, AtRefuse, AtStream

\* Before the interceptor has seen the request.
LEMMA EarlySteps ==
    \A l \in Early : /\ l # <<>> /\ Head(l) \in {"encode", "prepare_parts", "prepare_request"}
                     /\ Head(l) = "encode" => Tail(l) \in Early
                     /\ Head(l) # "encode" => Tail(l) \in Middle
<1> SUFFICES ASSUME NEW l \in Early
             PROVE  /\ l # <<>> /\ Head(l) \in {"encode", "prepare_parts", "prepare_request"}
                    /\ Head(l) = "encode" => Tail(l) \in Early
                    /\ Head(l) # "encode" => Tail(l) \in Middle
  OBVIOUS
<1>1. CASE l \in {AtEncode, AtEncodeReq, OpenEncode, OpenEncodeReq}
  BY <1>1, UnaryTails, OpenTails, ZenonT(40) DEF Early
<1>2. CASE l \in {AtParts, AtRequest, OpenParts, OpenRequest}
  BY <1>2, UnaryTails, OpenTails, ZenonT(40) DEF Middle
<1>q. QED
  BY <1>1, <1>2 DEF Early

\* Between the request and the response.
LEMMA MiddleSteps ==
    \A l \in Middle : /\ l # <<>> /\ Head(l) \in {"build", "send", "on_response"}
                      /\ Head(l) # "on_response" => Tail(l) \in Middle
                      /\ Head(l) = "on_response" => Tail(l) \in Unchecked
<1> SUFFICES ASSUME NEW l \in Middle
             PROVE  /\ l # <<>> /\ Head(l) \in {"build", "send", "on_response"}
                    /\ Head(l) # "on_response" => Tail(l) \in Middle
                    /\ Head(l) = "on_response" => Tail(l) \in Unchecked
  OBVIOUS
<1>1. CASE l \in {AtBuild, AtSend, OpenBuild, OpenSend}
  BY <1>1, UnaryTails, OpenTails, ZenonT(40) DEF Middle
<1>2. CASE l \in {AtOnResponse, OpenOnResponse}
  BY <1>2, UnaryTails, OpenTails DEF Unchecked
<1>q. QED
  BY <1>1, <1>2 DEF Middle

\* Between the response and its status.
LEMMA UncheckedSteps ==
    \A l \in Unchecked : /\ l # <<>> /\ Head(l) \in {"collect", "status", "refuse"}
                         /\ Head(l) = "collect" => Tail(l) \in Unchecked
                         /\ Head(l) # "collect" => Tail(l) \in Checked
  BY UnaryTails, OpenTails, ZenonT(40) DEF Unchecked, Checked

\* After the status.
LEMMA CheckedSteps ==
    \A l \in Checked : l # <<>> => Head(l) \in {"decode", "stream"} /\ Tail(l) = <<>>
  BY UnaryTails, OpenTails DEF Checked

\* No operation has shown the interceptor anything when it starts.
LEMMA OperationsStartEarly == Operations \subseteq Early
<1> DEFINE sent == <<"encode", "prepare_parts", "build", "send">>
           streamed == <<"prepare_parts", "build", "send">>
           requested == <<"encode", "prepare_request", "send">>
           request == <<"prepare_request", "send">>
           opening == <<"send", "on_response", "refuse", "stream">>
           send == <<"send">>
<1>1. build_request \o send = sent
  <2>1. build_request \in Seq(StepNames) /\ send \in Seq(StepNames) /\ sent \in Seq(StepNames)
    BY DEF StepNames, build_request
  <2>2. Len(sent) = Len(build_request) + Len(send)
    BY DEF build_request
  <2>3. \A i \in 1..Len(build_request) : sent[i] = build_request[i]
    BY DEF build_request
  <2>4. \A i \in 1..Len(send) : sent[Len(build_request) + i] = send[i]
    BY DEF build_request
  <2>q. QED
    BY <2>1, <2>2, <2>3, <2>4, Glued
<1>2. build_stream_request \o send = streamed
  <2>1. build_stream_request \in Seq(StepNames) /\ send \in Seq(StepNames) /\ streamed \in Seq(StepNames)
    BY DEF StepNames, build_stream_request
  <2>2. Len(streamed) = Len(build_stream_request) + Len(send)
    BY DEF build_stream_request
  <2>3. \A i \in 1..Len(build_stream_request) : streamed[i] = build_stream_request[i]
    BY DEF build_stream_request
  <2>4. \A i \in 1..Len(send) : streamed[Len(build_stream_request) + i] = send[i]
    BY DEF build_stream_request
  <2>q. QED
    BY <2>1, <2>2, <2>3, <2>4, Glued
<1>3. sent \o Finishing = AtEncode
  <2>1. sent \in Seq(StepNames) /\ Finishing \in Seq(StepNames) /\ AtEncode \in Seq(StepNames)
    BY DEF StepNames, Finishing, AtEncode
  <2>2. Len(AtEncode) = Len(sent) + Len(Finishing)
    BY DEF Finishing, AtEncode
  <2>3. \A i \in 1..Len(sent) : AtEncode[i] = sent[i]
    BY DEF Finishing, AtEncode
  <2>4. \A i \in 1..Len(Finishing) : AtEncode[Len(sent) + i] = Finishing[i]
    BY DEF Finishing, AtEncode
  <2>q. QED
    BY <2>1, <2>2, <2>3, <2>4, Glued
<1>4. streamed \o Finishing = AtParts
  <2>1. streamed \in Seq(StepNames) /\ Finishing \in Seq(StepNames) /\ AtParts \in Seq(StepNames)
    BY DEF StepNames, Finishing, AtParts
  <2>2. Len(AtParts) = Len(streamed) + Len(Finishing)
    BY DEF Finishing, AtParts
  <2>3. \A i \in 1..Len(streamed) : AtParts[i] = streamed[i]
    BY DEF Finishing, AtParts
  <2>4. \A i \in 1..Len(Finishing) : AtParts[Len(streamed) + i] = Finishing[i]
    BY DEF Finishing, AtParts
  <2>q. QED
    BY <2>1, <2>2, <2>3, <2>4, Glued
<1>5. build_request \o opening = OpenEncode
  <2>1. build_request \in Seq(StepNames) /\ opening \in Seq(StepNames) /\ OpenEncode \in Seq(StepNames)
    BY DEF StepNames, build_request, OpenEncode
  <2>2. Len(OpenEncode) = Len(build_request) + Len(opening)
    BY DEF build_request, OpenEncode
  <2>3. \A i \in 1..Len(build_request) : OpenEncode[i] = build_request[i]
    BY DEF build_request, OpenEncode
  <2>4. \A i \in 1..Len(opening) : OpenEncode[Len(build_request) + i] = opening[i]
    BY DEF build_request, OpenEncode
  <2>q. QED
    BY <2>1, <2>2, <2>3, <2>4, Glued
<1>6. requested \o Finishing = AtEncodeReq
  <2>1. requested \in Seq(StepNames) /\ Finishing \in Seq(StepNames) /\ AtEncodeReq \in Seq(StepNames)
    BY DEF StepNames, Finishing, AtEncodeReq
  <2>2. Len(AtEncodeReq) = Len(requested) + Len(Finishing)
    BY DEF Finishing, AtEncodeReq
  <2>3. \A i \in 1..Len(requested) : AtEncodeReq[i] = requested[i]
    BY DEF Finishing, AtEncodeReq
  <2>4. \A i \in 1..Len(Finishing) : AtEncodeReq[Len(requested) + i] = Finishing[i]
    BY DEF Finishing, AtEncodeReq
  <2>q. QED
    BY <2>1, <2>2, <2>3, <2>4, Glued
<1>7. request \o Finishing = AtRequest
  <2>1. request \in Seq(StepNames) /\ Finishing \in Seq(StepNames) /\ AtRequest \in Seq(StepNames)
    BY DEF StepNames, Finishing, AtRequest
  <2>2. Len(AtRequest) = Len(request) + Len(Finishing)
    BY DEF Finishing, AtRequest
  <2>3. \A i \in 1..Len(request) : AtRequest[i] = request[i]
    BY DEF Finishing, AtRequest
  <2>4. \A i \in 1..Len(Finishing) : AtRequest[Len(request) + i] = Finishing[i]
    BY DEF Finishing, AtRequest
  <2>q. QED
    BY <2>1, <2>2, <2>3, <2>4, Glued
<1>q. QED
  BY <1>1, <1>2, <1>3, <1>4, <1>5, <1>6, <1>7, Zenon
  DEF Operations, Early, HyperUnary, HyperOpenStream, HyperSendStream, ReqwestUnary, ReqwestOpenStream,
      ReqwestSendStream, OpenEncodeReq

-----------------------------------------------------------------------------
\* How far the call is says what the interceptor saw and what the status is.
HookLists == {<<>>, <<"on_request">>, <<"on_request", "on_response">>}
Both == <<"on_request", "on_response">>

HttpPhase ==
    \/ httpLeft \in Early /\ httpSeen = <<>>
    \/ httpLeft \in Middle /\ httpSeen = <<"on_request">>
    \/ httpLeft \in Unchecked /\ httpSeen = Both /\ httpStatus \in {"success", "failure"}
    \/ httpLeft \in Checked /\ httpSeen = Both /\ httpStatus = "success"

OwnHeadersWin ==
    \A n \in DOMAIN httpOwn :
        n \in DOMAIN httpShown /\ httpShown[n][Len(httpShown[n])] = httpOwn[n][Len(httpOwn[n])]

HttpInv ==
    /\ httpResult \in {"pending", "ok", "broken", "dropped"} \cup ClientErrors
    /\ httpResult = "pending" => HttpPhase /\ (httpBody # <<>> => httpLeft = <<>>)
    /\ httpBody # <<>> \/ httpResult \in {"ok", "broken"} => Hooks = Both /\ httpStatus = "success"
    /\ httpResult = "ok" => ~BodyFailed
    /\ httpResult = "Remote" => Hooks = Both /\ httpStatus = "failure"
    /\ Hooks \in HookLists
    /\ httpResult \in ClientErrors => httpSeen = Append(Hooks, httpResult)
    /\ Hooks # <<>> => OwnHeadersWin

\* The front of a sequence that was appended to.
LEMMA FrontOfAppend ==
    ASSUME NEW S, NEW s \in Seq(S), NEW e \in S
    PROVE  Front(Append(s, e)) = s
<1>1. Append(s, e) \in Seq(S) /\ Len(Append(s, e)) = Len(s) + 1 /\ \A i \in 1..Len(s) : Append(s, e)[i] = s[i]
  OBVIOUS
<1> DEFINE t == SubSeq(Append(s, e), 1, Len(s))
<1>2. t \in Seq(S) /\ Len(t) = Len(s) /\ \A i \in 1..Len(s) : t[i] = s[i]
  BY <1>1
<1>3. t = s
  BY <1>2, SeqEqual
<1>q. QED
  BY <1>1, <1>3 DEF Front

\* The hooks of a call that fails are those it had.
LEMMA HooksOnFailure ==
    ASSUME httpResult = "pending", httpSeen \in HookLists, NEW e \in ClientErrors, fail(e)
    PROVE  Hooks = httpSeen /\ Hooks' = httpSeen
<1> DEFINE S == {"on_request", "on_response", "Encode", "Transport", "Remote", "Decode"}
<1>1. httpSeen \in Seq(S) /\ e \in S
  <2>1. e \in S
    BY DEF ClientErrors
  <2>2. CASE httpSeen = <<>>
    BY <2>1, <2>2
  <2>3. CASE httpSeen = <<"on_request">>
    BY <2>1, <2>3
  <2>4. CASE httpSeen = <<"on_request", "on_response">>
    BY <2>1, <2>4
  <2>q. QED
    BY <2>2, <2>3, <2>4 DEF HookLists
<1>2. httpResult' \in ClientErrors /\ httpSeen' = Append(httpSeen, e) /\ httpResult \notin ClientErrors
  BY DEF fail, ClientErrors
<1>3. Front(Append(httpSeen, e)) = httpSeen
  BY <1>1, FrontOfAppend
<1>q. QED
  BY <1>2, <1>3, Zenon DEF Hooks

\* The hooks of a call that is under way.
LEMMA PendingHooks ==
    ASSUME HttpInv, httpResult = "pending"
    PROVE  Hooks = httpSeen /\ httpSeen \in HookLists /\ HttpPhase /\ (httpLeft # <<>> => httpBody = <<>>)
  BY DEF HttpInv, Hooks, ClientErrors

\* An error ends the call: the interceptor saw it after what it had seen.
LEMMA CallFails ==
    ASSUME HttpInv, httpResult = "pending", httpLeft # <<>>, NEW e \in ClientErrors, fail(e),
           UNCHANGED <<httpOwn, httpShown, httpStatus, httpBody>>,
           e = "Remote" => httpSeen = Both /\ httpStatus = "failure"
    PROVE  HttpInv'
<1>1. Hooks = httpSeen /\ httpSeen \in HookLists /\ httpBody = <<>>
  BY PendingHooks
<1>2. Hooks' = httpSeen
  BY <1>1, HooksOnFailure
<1>3. httpResult' = e /\ httpSeen' = Append(httpSeen, e) /\ e \notin {"pending", "ok", "broken", "dropped"}
  BY DEF fail, ClientErrors
<1>4. Hooks' # <<>> => OwnHeadersWin'
  BY <1>1, <1>2 DEF HttpInv, OwnHeadersWin
<1>q. QED
  BY <1>1, <1>2, <1>3, <1>4, Zenon DEF HttpInv

\* The call goes on in the phase it is in then.
LEMMA CallMoves ==
    ASSUME HttpInv, httpResult = "pending", httpLeft # <<>>, httpResult' = "pending", httpBody' = httpBody,
           HttpPhase', httpSeen' = <<>> \/ OwnHeadersWin'
    PROVE  HttpInv'
<1>1. httpBody' = <<>>
  BY PendingHooks
<1>2. Hooks' = httpSeen' /\ httpResult' \notin ClientErrors
  BY DEF Hooks, ClientErrors
<1>3. httpSeen' \in HookLists
  BY DEF HttpPhase, HookLists, Both
<1>q. QED
  BY <1>1, <1>2, <1>3, Zenon DEF HttpInv

\* A call's own headers win still when no header changes.
LEMMA KeepsHeaders ==
    ASSUME HttpInv, httpResult = "pending", UNCHANGED <<httpOwn, httpShown>>
    PROVE  httpSeen # <<>> => OwnHeadersWin'
  BY PendingHooks DEF HttpInv, OwnHeadersWin

\* What is left of a call, by the step it is at.
LEMMA AtPhase ==
    ASSUME HttpInv, NEW step, AtStep(step)
    PROVE  /\ httpResult = "pending" /\ httpLeft # <<>> /\ Head(httpLeft) = step
           /\ step \in {"encode", "prepare_parts", "prepare_request"} =>
                httpSeen = <<>> /\ (step = "encode" => Tail(httpLeft) \in Early)
                               /\ (step # "encode" => Tail(httpLeft) \in Middle)
           /\ step \in {"build", "send", "on_response"} =>
                httpSeen = <<"on_request">> /\ (step # "on_response" => Tail(httpLeft) \in Middle)
                                           /\ (step = "on_response" => Tail(httpLeft) \in Unchecked)
           /\ step \in {"collect", "status", "refuse"} =>
                /\ httpSeen = Both /\ httpStatus \in {"success", "failure"}
                /\ step = "collect" => Tail(httpLeft) \in Unchecked
                /\ step # "collect" => Tail(httpLeft) \in Checked
           /\ step \in {"decode", "stream"} =>
                httpSeen = Both /\ httpStatus = "success" /\ Tail(httpLeft) = <<>>
<1>1. httpResult = "pending" /\ httpLeft # <<>> /\ Head(httpLeft) = step /\ HttpPhase
  BY PendingHooks DEF AtStep
<1>2. CASE httpLeft \in Early /\ httpSeen = <<>>
  BY <1>1, <1>2, EarlySteps
<1>3. CASE httpLeft \in Middle /\ httpSeen = <<"on_request">>
  BY <1>1, <1>3, MiddleSteps
<1>4. CASE httpLeft \in Unchecked /\ httpSeen = Both /\ httpStatus \in {"success", "failure"}
  BY <1>1, <1>4, UncheckedSteps
<1>5. CASE httpLeft \in Checked /\ httpSeen = Both /\ httpStatus = "success"
  BY <1>1, <1>5, CheckedSteps
<1>q. QED
  BY <1>1, <1>2, <1>3, <1>4, <1>5 DEF HttpPhase

\* What the interceptor has seen, as sequences.
LEMMA SeenGrows ==
    /\ Append(<<>>, "on_request") = <<"on_request">>
    /\ Append(<<"on_request">>, "on_response") = Both
    /\ Both # <<>> /\ <<"on_request">> # <<>> /\ Len(Both) = 2
<1>1. Append(<<>>, "on_request") = <<"on_request">>
  OBVIOUS
<1>2. Append(<<"on_request">>, "on_response") = Both
  <2> DEFINE S == {"on_request", "on_response"}
             t == Append(<<"on_request">>, "on_response")
  <2>1. t \in Seq(S) /\ Both \in Seq(S) /\ Len(t) = 2 /\ Len(Both) = 2
    BY DEF Both
  <2>2. \A i \in 1..2 : t[i] = Both[i]
    BY DEF Both
  <2>q. QED
    BY <2>1, <2>2, SeqEqual
<1>3. Both # <<>> /\ Len(Both) = 2
  BY DEF Both
<1>4. <<"on_request">> # <<>>
  OBVIOUS
<1>q. QED
  BY <1>1, <1>2, <1>3, <1>4, Zenon

\* The steps up to the response.
LEMMA RequestSteps ==
    ASSUME HttpInv, Encode \/ prepare_parts \/ prepare_request \/ Send \/ OnResponse
    PROVE  HttpInv'
<1> USE DEF Fixed, RequestVars, ResponseVars
<1>e. {"Encode", "Transport"} \subseteq ClientErrors /\ "Remote" \notin {"Encode", "Transport"}
  BY DEF ClientErrors
<1>1. CASE Encode
  <2>1. AtStep("encode") \/ AtStep("build")
    BY <1>1 DEF Encode
  <2>2. httpResult = "pending" /\ httpLeft # <<>>
    BY <2>1, AtPhase
  <2>3. CASE fail("Encode")
    BY <1>1, <1>e, <2>2, <2>3, CallFails DEF Encode
  <2>4. CASE Proceeds /\ UNCHANGED httpSeen
    <3>1. HttpPhase'
      BY <2>1, <2>4, AtPhase DEF HttpPhase, Proceeds
    <3>q. QED
      BY <1>1, <2>2, <2>4, <3>1, KeepsHeaders, CallMoves DEF Encode, Proceeds
  <2>q. QED
    BY <1>1, <2>3, <2>4 DEF Encode
<1>2. CASE prepare_parts \/ prepare_request
  <2>1. AtStep("prepare_parts") \/ AtStep("prepare_request")
    BY <1>2 DEF prepare_parts, prepare_request
  <2>2. httpResult = "pending" /\ httpLeft # <<>> /\ httpSeen = <<>> /\ Tail(httpLeft) \in Middle
    BY <2>1, AtPhase
  <2>3. CASE fail("Encode") /\ UNCHANGED RequestVars
    BY <1>2, <1>e, <2>2, <2>3, CallFails DEF prepare_parts, prepare_request
  <2>4. CASE Proceeds /\ httpShown' \in {httpOwn, merged_headers} /\ httpSeen' = Append(httpSeen, "on_request")
    <3>1. HttpPhase'
      BY <2>2, <2>4, SeenGrows DEF HttpPhase, Proceeds
    <3>2. httpOwn' = httpOwn
      BY <1>2 DEF prepare_parts, prepare_request
    <3>3. ASSUME httpShown' = httpOwn PROVE OwnHeadersWin'
      BY <3>2, <3>3 DEF OwnHeadersWin
    <3>4. ASSUME httpShown' = merged_headers PROVE OwnHeadersWin'
      <4>1. ASSUME NEW n \in DOMAIN httpOwn
            PROVE  n \in DOMAIN merged_headers /\ merged_headers[n] = <<httpOwn[n][Len(httpOwn[n])]>>
        BY DEF merged_headers
      <4>2. \A x : Len(<<x>>) = 1 /\ <<x>>[1] = x
        OBVIOUS
      <4>3. ASSUME NEW n \in DOMAIN httpOwn
            PROVE  merged_headers[n][Len(merged_headers[n])] = httpOwn[n][Len(httpOwn[n])]
        BY <4>1, <4>2
      <4>q. QED
        BY <3>2, <3>4, <4>1, <4>3 DEF OwnHeadersWin
    <3>5. OwnHeadersWin'
      BY <2>4, <3>3, <3>4
    <3>q. QED
      BY <1>2, <2>2, <2>4, <3>1, <3>5, CallMoves DEF prepare_parts, prepare_request, Proceeds
  <2>q. QED
    BY <1>2, <2>3, <2>4 DEF prepare_parts, prepare_request, on_request
<1>3. CASE Send
  <2>1. AtStep("send")
    BY <1>3 DEF Send
  <2>2. httpResult = "pending" /\ httpLeft # <<>>
    BY <2>1, AtPhase
  <2>3. CASE fail("Transport") /\ UNCHANGED httpStatus
    BY <1>3, <1>e, <2>2, <2>3, CallFails DEF Send
  <2>4. CASE Proceeds /\ UNCHANGED httpSeen
    <3>1. HttpPhase'
      BY <2>1, <2>4, AtPhase DEF HttpPhase, Proceeds
    <3>q. QED
      BY <1>3, <2>2, <2>4, <3>1, KeepsHeaders, CallMoves DEF Send, Proceeds
  <2>q. QED
    BY <1>3, <2>3, <2>4 DEF Send
<1>4. CASE OnResponse
  <2>1. AtStep("on_response") /\ Proceeds /\ httpStatus' \in {"success", "failure"}
    BY <1>4 DEF OnResponse
  <2>2. httpResult = "pending" /\ httpLeft # <<>> /\ httpSeen = <<"on_request">>
    BY <2>1, AtPhase
  <2>3. HttpPhase'
    BY <1>4, <2>1, <2>2, AtPhase, SeenGrows DEF OnResponse, HttpPhase, Proceeds
  <2>4. OwnHeadersWin'
    BY <1>4, <2>2, KeepsHeaders, SeenGrows DEF OnResponse
  <2>q. QED
    BY <1>4, <2>1, <2>2, <2>3, <2>4, CallMoves DEF OnResponse, Proceeds
<1>q. QED
  BY <1>1, <1>2, <1>3, <1>4

\* The steps that read the response.
LEMMA ResponseSteps ==
    ASSUME HttpInv, Collect \/ Classify \/ Refuse \/ Decode \/ HandOutStream
    PROVE  HttpInv'
<1> USE DEF Fixed, RequestVars, ResponseVars
<1>e. {"Encode", "Transport", "Remote", "Decode"} \subseteq ClientErrors
  BY DEF ClientErrors
<1>1. PICK step \in {"collect", "status", "refuse", "decode", "stream"} : AtStep(step)
  BY DEF Collect, Classify, Refuse, Decode, HandOutStream
<1>2. /\ httpResult = "pending" /\ httpLeft # <<>> /\ httpSeen = Both /\ Head(httpLeft) = step
      /\ httpStatus \in {"success", "failure"} /\ (step \in {"decode", "stream"} => httpStatus = "success")
  BY <1>1, AtPhase
<1>3. UNCHANGED <<httpOwn, httpShown, httpStatus, httpBody>>
  BY DEF Collect, Classify, Refuse, Decode, HandOutStream
<1>4. OwnHeadersWin'
  BY <1>2, <1>3, KeepsHeaders, SeenGrows
<1>5. CASE fail("Transport") \/ fail("Decode")
  BY <1>2, <1>3, <1>5, <1>e, CallFails
<1>6. CASE fail("Remote") /\ httpStatus # "success"
  BY <1>2, <1>3, <1>6, <1>e, CallFails
<1>7. CASE Proceeds /\ UNCHANGED httpSeen /\ (step \in {"status", "refuse"} => httpStatus = "success")
  <2>1. HttpPhase'
    <3>1. CASE step = "collect"
      BY <1>1, <1>2, <1>3, <1>7, <3>1, AtPhase DEF HttpPhase, Proceeds
    <3>2. CASE step \in {"status", "refuse"}
      BY <1>1, <1>2, <1>3, <1>7, <3>2, AtPhase DEF HttpPhase, Proceeds
    <3>3. CASE step \in {"decode", "stream"}
      BY <1>1, <1>2, <1>3, <1>7, <3>3, AtPhase DEF HttpPhase, Proceeds, Checked
    <3>q. QED
      BY <3>1, <3>2, <3>3
  <2>q. QED
    BY <1>2, <1>3, <1>4, <1>7, <2>1, CallMoves DEF Proceeds
<1>8. CASE step = "decode" /\ httpResult' = "ok" /\ UNCHANGED httpSeen
  <2>1. httpResult' \notin ClientErrors /\ httpResult' \notin {"pending", "Remote"}
    BY <1>8 DEF ClientErrors
  <2>2. Hooks' = Both /\ httpStatus' = "success" /\ Both \in HookLists
    BY <1>2, <1>3, <1>8, <2>1 DEF Hooks, HookLists, Both
  <2>3. ~BodyFailed'
    BY <1>2, <1>3, PendingHooks DEF BodyFailed
  <2>q. QED
    BY <1>4, <1>8, <2>1, <2>2, <2>3, Zenon DEF HttpInv
<1>q. QED
  <2>1. CASE Collect
    BY <1>2, <1>5, <1>7, <2>1 DEF Collect, AtStep
  <2>2. CASE Classify
    BY <1>2, <1>6, <1>7, <2>2 DEF Classify, AtStep
  <2>3. CASE Refuse
    BY <1>2, <1>5, <1>6, <1>7, <2>3 DEF Refuse, AtStep
  <2>4. CASE Decode
    BY <1>2, <1>5, <1>8, <2>4 DEF Decode, AtStep
  <2>5. CASE HandOutStream
    BY <1>2, <1>7, <2>5 DEF HandOutStream, AtStep
  <2>q. QED
    BY <2>1, <2>2, <2>3, <2>4, <2>5

\* The steps of a stream that was handed out, and what happens around a call.
LEMMA StreamSteps ==
    ASSUME HttpInv,
           \/ decode_stream \/ StreamOver \/ DropHttpCall
           \/ \E chunk \in {"chunk", "error"} : BodyStream(chunk)
           \/ \E provider \in Providers : set_header_provider(provider)
    PROVE  HttpInv'
<1> USE DEF Fixed, RequestVars, ResponseVars
<1>1. CASE /\ Streams /\ UNCHANGED <<httpLeft, httpOwn, httpShown, httpStatus, httpSeen>>
           /\ httpResult' \in {"pending", "ok", "broken"} /\ (httpResult' = "ok" => ~BodyFailed')
  <2>1. httpResult = "pending" /\ httpLeft = <<>>
    BY <1>1 DEF Streams
  <2>2. httpSeen = Both /\ httpStatus = "success"
    BY <2>1, PendingHooks, EarlySteps, MiddleSteps, UncheckedSteps DEF HttpPhase
  <2>3. httpResult' \notin ClientErrors /\ httpResult' # "Remote" /\ Hooks' = Both /\ Both \in HookLists
    BY <1>1, <2>2 DEF Hooks, ClientErrors, HookLists, Both
  <2>4. HttpPhase'
    BY <1>1, <2>1, <2>2 DEF HttpPhase, Checked
  <2>5. OwnHeadersWin'
    BY <1>1, <2>1, <2>2, KeepsHeaders, SeenGrows
  <2>6. httpResult' \in {"pending", "ok", "broken", "dropped"} \cup ClientErrors /\ httpLeft' = <<>> /\ httpStatus' = "success"
    BY <1>1, <2>1, <2>2
  <2>q. QED
    BY <1>1, <2>3, <2>4, <2>5, <2>6, Zenon DEF HttpInv
<1>2. CASE DropHttpCall
  <2>1. /\ httpResult = "pending" /\ httpResult' = "dropped"
        /\ UNCHANGED <<httpOwn, httpShown, httpStatus, httpSeen, httpBody>>
    BY <1>2 DEF DropHttpCall
  <2>2. httpResult' \notin ClientErrors \cup {"pending", "ok", "broken", "Remote"} /\ httpResult \notin ClientErrors
    BY <2>1 DEF ClientErrors
  <2>3. Hooks' = httpSeen /\ Hooks = httpSeen
    BY <2>1, <2>2 DEF Hooks
  <2>4. OwnHeadersWin' \/ httpSeen = <<>>
    BY <2>1, KeepsHeaders
  <2>q. QED
    BY <2>1, <2>2, <2>3, <2>4, Zenon DEF HttpInv
<1>3. CASE \E provider \in Providers : set_header_provider(provider)
  BY <1>3 DEF set_header_provider, HttpInv, HttpPhase, Hooks, OwnHeadersWin, BodyFailed
<1>4. CASE decode_stream \/ StreamOver \/ \E chunk \in {"chunk", "error"} : BodyStream(chunk)
  BY <1>1, <1>4 DEF decode_stream, StreamOver, BodyStream, Streams, BodyFailed
<1>q. QED
  BY <1>2, <1>3, <1>4

\* Every step of a call keeps its invariant.
LEMMA HttpStep == HttpInv /\ [HttpNext]_httpVars => HttpInv'
<1>1. ASSUME HttpInv, UNCHANGED httpVars PROVE HttpInv'
  BY <1>1 DEF httpVars, RequestVars, ResponseVars, HttpInv, HttpPhase, Hooks, OwnHeadersWin, BodyFailed
<1>q. QED
  BY <1>1, RequestSteps, ResponseSteps, StreamSteps, Zenon DEF HttpNext

\* A call that has not begun.
LEMMA HttpStarts == HttpInit => HttpInv
<1> SUFFICES ASSUME HttpInit PROVE HttpInv
  OBVIOUS
<1>1. httpResult = "pending" /\ httpSeen = <<>> /\ httpBody = <<>> /\ httpLeft \in Early
  BY OperationsStartEarly DEF HttpInit, HttpStart
<1>2. Hooks = <<>> /\ httpResult \notin ClientErrors \cup {"ok", "broken"}
  BY <1>1 DEF Hooks, ClientErrors
<1>q. QED
  BY <1>1, <1>2 DEF HttpInv, HttpPhase, HookLists

(* Of every call over either backend, whatever headers it and its provider carry, whatever the
   interceptor makes of them and however long its body is, the interceptor sees the request, the
   response and the error the call returns in that order, and what it makes of the status decides
   the call; the error that breaks a stream after the call returned it is shown to the caller only
   (fail, response_parts, open_stream). *)
THEOREM InterceptorSeesEveryCall == HttpSpec => []HooksAgree
<1>1. HttpInv => HooksAgree
  BY SeenGrows, Zenon DEF HttpInv, HooksAgree, HookLists, Both, OwnHeadersWin
<1>q. QED
  BY <1>1, HttpStarts, HttpStep, PTL DEF HttpSpec

-----------------------------------------------------------------------------
(* RpcDispatch: the assembly.                                               *)

Services == LayerApplier \cup {RouterService}

\* The call meets the layers in the order of their registration, and then the router.
LEMMA StackOrder ==
    ASSUME NEW layers \in Seq(LayerApplier)
    PROVE  /\ Stacked(layers) \in Seq(Services) /\ Len(Stacked(layers)) = Len(layers) + 1
           /\ \A i \in 1..Len(layers) : Stacked(layers)[i] = layers[i]
           /\ Stacked(layers)[Len(layers) + 1] = RouterService
<1>1. layers \in Seq(Services) /\ RouterService \in Services
  BY DEF Services
<1>2. Stacked(layers) = Wrapped(RouterService, layers)
  BY DEF Stacked, Wrapped, Wrap
<1>3. \A i \in 1..Len(layers) : Wrapped(RouterService, layers)[i] = layers[i]
  BY <1>1, WrappedLayer
<1>4. /\ Wrapped(RouterService, layers) \in Seq(Services)
      /\ Len(Wrapped(RouterService, layers)) = Len(layers) + 1
      /\ Wrapped(RouterService, layers)[Len(layers) + 1] = RouterService
  BY <1>1, WrappedInOrder, Zenon
<1>q. QED
  BY <1>2, <1>3, <1>4, Zenon

\* What filtering the services by type has kept of each prefix.
IsResolved(f, services, m) ==
    f = [n \in 0..m |->
            IF n = 0 THEN <<>>
            ELSE IF \E i \in DOMAIN f[n - 1] : f[n - 1][i].ty = services[n].ty THEN f[n - 1]
            ELSE Append(f[n - 1], services[n])]

KeptOf(before, service) ==
    IF \E i \in DOMAIN before : before[i].ty = service.ty THEN before ELSE Append(before, service)

\* The recursive equation, at one prefix.
LEMMA IsResolvedUnfold ==
    ASSUME NEW f, NEW services, NEW m \in Nat, IsResolved(f, services, m), NEW n \in 0..m
    PROVE  f[n] = IF n = 0 THEN <<>> ELSE KeptOf(f[n - 1], services[n])
<1> DEFINE h == [k \in 0..m |->
                    IF k = 0 THEN <<>>
                    ELSE IF \E i \in DOMAIN f[k - 1] : f[k - 1][i].ty = services[k].ty THEN f[k - 1]
                    ELSE Append(f[k - 1], services[k])]
<1>1. f = h
  BY DEF IsResolved
<1>2. h[n] = IF n = 0 THEN <<>> ELSE KeptOf(f[n - 1], services[n])
  BY DEF KeptOf
<1>q. QED
  BY <1>1, <1>2

\* The recursion has a solution.
LEMMA IsResolvedExists ==
    ASSUME NEW S, NEW services, NEW m \in Nat, \A n \in 1..m : services[n] \in S
    PROVE  \E f : IsResolved(f, services, m)
<1>1. PICK V : V = Seq(S)
  OBVIOUS
<1>2. PICK g : g = [n \in 1..m |-> [v \in V |-> KeptOf(v, services[n])]]
  OBVIOUS
<1>3. ASSUME NEW n \in 1..m, NEW v \in V PROVE KeptOf(v, services[n]) \in V
  <2>1. v \in V /\ Append(v, services[n]) \in V
    BY <1>1
  <2>q. QED
    BY <2>1, Zenon DEF KeptOf
<1>4. Maps(g, m, V)
  BY ONLY <1>2, <1>3 DEF Maps
<1>5. PICK b \in V : b = <<>>
  BY <1>1, EmptySeq
<1>6. PICK f : Iterates(f, b, g, m, V)
  BY <1>4, Iterated, Zenon
<1> DEFINE r == [n \in 0..m |-> IF n = 0 THEN <<>> ELSE KeptOf(f[n - 1], services[n])]
<1>7. f \in [0..m -> V] /\ f[0] = b /\ \A n \in 1..m : f[n] = g[n][f[n - 1]]
  BY <1>6 DEF Iterates
<1>8. ASSUME NEW n \in 0..m PROVE f[n] = r[n]
  <2>1. CASE n = 0
    BY <1>5, <1>7, <2>1
  <2>2. CASE n # 0
    <3>1. n \in 1..m /\ n - 1 \in 0..m
      BY <2>2
    <3>2. f[n - 1] \in V
      BY <1>7, <3>1
    <3>3. g[n][f[n - 1]] = KeptOf(f[n - 1], services[n])
      BY <1>2, <3>1, <3>2
    <3>q. QED
      BY <1>7, <2>2, <3>1, <3>3
  <2>q. QED
    BY <2>1, <2>2
<1>9. f = r
  BY <1>7, <1>8
<1>q. QED
  BY <1>9 DEF IsResolved, KeptOf

\* Where a type has one descriptor, resolving keeps every service.
LEMMA ResolvedServices ==
    ASSUME NEW services \in Seq(ServiceDescriptor),
           \A i, j \in DOMAIN services : services[i].ty = services[j].ty => services[i] = services[j]
    PROVE  /\ resolved_services(services) \in Seq(ServiceDescriptor)
           /\ Range(resolved_services(services)) = Range(services)
<1>0. PICK S : S = ServiceDescriptor
  OBVIOUS
<1>1. PICK m \in Nat : m = Len(services) /\ DOMAIN services = 1..m /\ \A n \in 1..m : services[n] \in S
  BY <1>0
<1>2. PICK f : resolved_services(services) = f[m] /\ IsResolved(f, services, m)
  <2> DEFINE f == CHOOSE g : IsResolved(g, services, Len(services))
  <2>1. resolved_services(services) = f[Len(services)]
    BY DEF resolved_services, IsResolved
  <2>2. IsResolved(f, services, Len(services))
    BY <1>1, IsResolvedExists
  <2>q. QED
    BY <1>1, <2>1, <2>2
<1> DEFINE Good(n) == /\ f[n] \in Seq(S)
                      /\ \A i \in DOMAIN f[n] : \E j \in 1..n : f[n][i] = services[j]
                      /\ \A j \in 1..n : \E i \in DOMAIN f[n] : f[n][i] = services[j]
           G == {n \in 0..m : Good(n)}
<1>3. 0 \in G
  <2>1. f[0] = <<>>
    BY ONLY <1>2, m \in Nat, 0 \in 0..m, IsResolvedUnfold
  <2>2. Good(0)
    BY <2>1
  <2>q. QED
    BY <2>2
<1>4. ASSUME NEW n \in 0..(m - 1), n \in G PROVE n + 1 \in G
  <2>1. n + 1 \in 0..m /\ n + 1 \in 1..m /\ (n + 1) - 1 = n /\ n + 1 # 0 /\ n \in Nat
    OBVIOUS
  <2>2. f[n + 1] = KeptOf(f[n], services[n + 1])
    <3>1. f[n + 1] = IF n + 1 = 0 THEN <<>> ELSE KeptOf(f[(n + 1) - 1], services[n + 1])
      BY ONLY <1>2, <2>1, m \in Nat, IsResolvedUnfold
    <3>q. QED
      BY <2>1, <3>1
  <2>3. Good(n)
    BY <1>4
  <2>4. \A k : k \in 1..(n + 1) <=> k \in 1..n \/ k = n + 1
    BY <2>1
  <2>5. CASE \E i \in DOMAIN f[n] : f[n][i].ty = services[n + 1].ty
    <3>1. f[n + 1] = f[n]
      BY <2>2, <2>5 DEF KeptOf
    <3>2. PICK i \in DOMAIN f[n] : f[n][i].ty = services[n + 1].ty
      BY <2>5
    <3>3. PICK j \in 1..n : f[n][i] = services[j]
      BY <2>3
    <3>4. services[j] = services[n + 1]
      BY <1>1, <2>1, <3>2, <3>3
    <3>5. f[n][i] = services[n + 1]
      BY <3>3, <3>4
    <3>6. \A a \in DOMAIN f[n + 1] : \E b \in 1..(n + 1) : f[n + 1][a] = services[b]
      BY <2>3, <2>4, <3>1
    <3>7. \A b \in 1..(n + 1) : \E a \in DOMAIN f[n + 1] : f[n + 1][a] = services[b]
      <4>1. \A b \in 1..n : \E a \in DOMAIN f[n] : f[n][a] = services[b]
        BY <2>3
      <4>q. QED
        BY <2>4, <3>1, <3>2, <3>5, <4>1, Zenon
    <3>8. Good(n + 1)
      BY <2>3, <3>1, <3>6, <3>7
    <3>q. QED
      BY <2>1, <3>8
  <2>6. CASE ~\E i \in DOMAIN f[n] : f[n][i].ty = services[n + 1].ty
    <3>1. f[n + 1] = Append(f[n], services[n + 1])
      BY <2>2, <2>6 DEF KeptOf
    <3>2. PICK x \in S : x = services[n + 1]
      BY <1>1, <2>1
    <3>3. PICK s \in Seq(S) : s = f[n]
      BY <2>3
    <3>4. /\ Append(s, x) \in Seq(S) /\ DOMAIN Append(s, x) = DOMAIN s \cup {Len(s) + 1} /\ Append(s, x)[Len(s) + 1] = x
          /\ \A i \in DOMAIN s : Append(s, x)[i] = s[i]
      OBVIOUS
    <3>5. PICK t : t = f[n + 1]
      OBVIOUS
    <3>6. t = Append(s, x)
      BY <3>1, <3>2, <3>3, <3>5
    <3>7. t \in Seq(S) /\ DOMAIN t = DOMAIN s \cup {Len(s) + 1} /\ t[Len(s) + 1] = x /\ \A i \in DOMAIN s : t[i] = s[i]
      BY <3>4, <3>6
    <3>8. /\ \A i \in DOMAIN s : \E j \in 1..n : s[i] = services[j]
          /\ \A j \in 1..n : \E i \in DOMAIN s : s[i] = services[j]
      BY <2>3, <3>3
    <3>9. ASSUME NEW i \in DOMAIN t PROVE \E j \in 1..(n + 1) : t[i] = services[j]
      <4>1. CASE i \in DOMAIN s
        BY <2>4, <3>7, <3>8, <4>1, Zenon
      <4>2. CASE i = Len(s) + 1
        BY <2>4, <3>2, <3>7, <4>2, Zenon
      <4>q. QED
        BY <3>7, <4>1, <4>2
    <3>a. \A j \in 1..(n + 1) : \E i \in DOMAIN t : t[i] = services[j]
      BY <2>4, <3>2, <3>7, <3>8
    <3>b. Good(n + 1)
      BY <3>5, <3>7, <3>9, <3>a
    <3>q. QED
      BY <2>1, <3>b
  <2>q. QED
    BY <2>5, <2>6
<1>5. m \in G
  <2> HIDE DEF G
  <2>q. QED
    BY <1>3, <1>4, Climb
<1>6. PICK t : t = resolved_services(services)
  OBVIOUS
<1>7. /\ t \in Seq(S) /\ \A i \in DOMAIN t : \E j \in 1..m : t[i] = services[j]
      /\ \A j \in 1..m : \E i \in DOMAIN t : t[i] = services[j]
  <2>1. Good(m) /\ t = f[m]
    BY <1>2, <1>5, <1>6
  <2>q. QED
    BY <2>1, Zenon
<1>8. \A x : x \in Range(t) <=> x \in Range(services)
  <2>1. \A x : x \in Range(t) <=> \E i \in DOMAIN t : x = t[i]
    BY DEF Range
  <2>2. \A x : x \in Range(services) <=> \E j \in 1..m : x = services[j]
    BY <1>1 DEF Range
  <2>3. ASSUME NEW x \in Range(t) PROVE x \in Range(services)
    <3>1. PICK i \in DOMAIN t : x = t[i]
      BY <2>1
    <3>q. QED
      BY <1>7, <2>2, <3>1
  <2>4. ASSUME NEW x \in Range(services) PROVE x \in Range(t)
    <3>1. PICK j \in 1..m : x = services[j]
      BY <2>2
    <3>q. QED
      BY <1>7, <2>1, <3>1
  <2>q. QED
    BY <2>3, <2>4
<1>q. QED
  BY <1>0, <1>6, <1>7, <1>8

-----------------------------------------------------------------------------
(* RpcDispatch: the routes.                                                 *)

RouteOf(service, rpc) == [path |-> RoutePath(service, rpc), rpc |-> rpc]
RouteEntry == [path : Seq(STRING), rpc : RpcDescriptor]

\* The types of an application and of a call.
LEMMA RpcTypes ==
    ASSUME NEW service \in ServiceDescriptor
    PROVE  /\ RpcsOf(service) \in Seq(RpcDescriptor)
           /\ \A k \in DOMAIN RpcsOf(service) : RouteOf(service, RpcsOf(service)[k]) \in RouteEntry
<1>1. service.groups \in Seq(Seq(RpcDescriptor)) /\ service.name \in Seq(STRING)
  BY DEF ServiceDescriptor
<1>2. RpcsOf(service) \in Seq(RpcDescriptor)
  BY <1>1, Flattened DEF RpcsOf
<1>3. ASSUME NEW rpc \in RpcDescriptor PROVE RouteOf(service, rpc) \in RouteEntry
  <2>1. rpc.name \in Seq(STRING)
    BY DEF RpcDescriptor
  <2>2. RoutePath(service, rpc) \in Seq(STRING)
    BY <1>1, <2>1 DEF RoutePath
  <2>q. QED
    BY <2>2 DEF RouteOf, RouteEntry
<1>q. QED
  BY <1>2, <1>3

\* The routes are those of the services' RPCs.
LEMMA RouteListHas ==
    ASSUME NEW resolved \in Seq(ServiceDescriptor)
    PROVE  /\ RouteList(resolved) \in Seq(RouteEntry)
           /\ \A x : x \in Range(RouteList(resolved)) <=>
                \E i \in DOMAIN resolved : \E k \in DOMAIN RpcsOf(resolved[i]) :
                    x = RouteOf(resolved[i], RpcsOf(resolved[i])[k])
<1> DEFINE Row(i) == [k \in DOMAIN RpcsOf(resolved[i]) |-> RouteOf(resolved[i], RpcsOf(resolved[i])[k])]
           table == [i \in DOMAIN resolved |-> Row(i)]
<1>1. RouteList(resolved) = FlattenSeq(table)
  BY DEF RouteList, RouteOf
<1>2. ASSUME NEW i \in DOMAIN resolved PROVE Row(i) \in Seq(RouteEntry)
  <2>1. resolved[i] \in ServiceDescriptor
    OBVIOUS
  <2>2. PICK n \in Nat : DOMAIN RpcsOf(resolved[i]) = 1..n
    BY <2>1, RpcTypes
  <2>3. \A k \in 1..n : RouteOf(resolved[i], RpcsOf(resolved[i])[k]) \in RouteEntry
    BY <2>1, <2>2, RpcTypes
  <2>4. Row(i) \in [1..n -> RouteEntry]
    BY <2>2, <2>3
  <2> HIDE DEF Row
  <2>q. QED
    BY <2>4
<1>3. table \in Seq(Seq(RouteEntry)) /\ DOMAIN table = DOMAIN resolved
  <2> HIDE DEF Row
  <2>1. Len(resolved) \in Nat /\ DOMAIN resolved = 1..Len(resolved)
    OBVIOUS
  <2>2. table \in [1..Len(resolved) -> Seq(RouteEntry)]
    BY <1>2, <2>1
  <2> HIDE DEF table
  <2>q. QED
    BY <2>1, <2>2
<1>4. \A i \in DOMAIN resolved : \A x : x \in Range(table[i]) <=>
         \E k \in DOMAIN RpcsOf(resolved[i]) : x = RouteOf(resolved[i], RpcsOf(resolved[i])[k])
  BY DEF Range
<1> HIDE DEF table
<1>q. QED
  BY <1>1, <1>3, <1>4, Flattened

\* Of services that validate, the router holds for a path the one RPC that declares it.
LEMMA Routed ==
    ASSUME NEW resolved \in Seq(ServiceDescriptor), validate_services(resolved),
           NEW p, p \in DOMAIN from_services(resolved)
    PROVE  /\ from_services(resolved)[p] \in RpcDescriptor
           /\ \E i \in DOMAIN resolved : \E k \in DOMAIN RpcsOf(resolved[i]) :
                /\ RpcsOf(resolved[i])[k] = from_services(resolved)[p]
                /\ RoutePath(resolved[i], from_services(resolved)[p]) = p
           /\ \A i \in DOMAIN resolved : \A k \in DOMAIN RpcsOf(resolved[i]) :
                RoutePath(resolved[i], RpcsOf(resolved[i])[k]) = p =>
                    RpcsOf(resolved[i])[k] = from_services(resolved)[p]
<1>1. PICK routes : routes = RouteList(resolved)
  OBVIOUS
<1>2. routes \in Seq(RouteEntry)
  BY <1>1, RouteListHas
<1>3. \A a, b \in DOMAIN routes : routes[a].path = routes[b].path => a = b
  <2> DEFINE paths == [i \in DOMAIN routes |-> routes[i].path]
  <2>1. Distinct(paths)
    BY <1>1 DEF validate_services
  <2>q. QED
    BY <2>1 DEF Distinct
<1> DEFINE Final(q) == CHOOSE i \in DOMAIN routes :
                          routes[i].path = q /\ \A j \in (i + 1)..Len(routes) : routes[j].path # q
<1>4. from_services(resolved) = [q \in {routes[i].path : i \in DOMAIN routes} |-> routes[Final(q)].rpc]
  BY <1>1 DEF from_services
<1>5. PICK n \in DOMAIN routes : routes[n].path = p
  BY <1>4
<1>6. /\ routes[n].path = p /\ \A j \in (n + 1)..Len(routes) : routes[j].path # p
      /\ n \in 1..Len(routes)
  BY <1>2, <1>3, <1>5
<1>7. Final(p) \in DOMAIN routes /\ routes[Final(p)].path = p
  BY <1>5, <1>6
<1>8. Final(p) = n
  BY <1>3, <1>5, <1>7
<1> HIDE DEF Final
<1>9. from_services(resolved)[p] = routes[n].rpc
  BY <1>4, <1>5, <1>8
<1>a. routes[n] \in RouteEntry /\ routes[n] \in Range(routes)
  BY <1>2 DEF Range
<1>b. routes[n].rpc \in RpcDescriptor
  BY <1>a DEF RouteEntry
<1>c. PICK i \in DOMAIN resolved : \E k \in DOMAIN RpcsOf(resolved[i]) :
          routes[n] = RouteOf(resolved[i], RpcsOf(resolved[i])[k])
  BY <1>1, <1>a, RouteListHas
<1>d. PICK k \in DOMAIN RpcsOf(resolved[i]) : routes[n] = RouteOf(resolved[i], RpcsOf(resolved[i])[k])
  BY <1>c
<1>e. routes[n].rpc = RpcsOf(resolved[i])[k] /\ RoutePath(resolved[i], routes[n].rpc) = p
  BY <1>5, <1>d DEF RouteOf
<1>f. ASSUME NEW i2 \in DOMAIN resolved, NEW k2 \in DOMAIN RpcsOf(resolved[i2]),
             RoutePath(resolved[i2], RpcsOf(resolved[i2])[k2]) = p
      PROVE  RpcsOf(resolved[i2])[k2] = routes[n].rpc
  <2>1. RouteOf(resolved[i2], RpcsOf(resolved[i2])[k2]) \in Range(routes)
    BY <1>1, RouteListHas
  <2>2. PICK j \in DOMAIN routes : routes[j] = RouteOf(resolved[i2], RpcsOf(resolved[i2])[k2])
    BY <2>1 DEF Range
  <2>3. routes[j].path = p /\ routes[j].rpc = RpcsOf(resolved[i2])[k2]
    BY <1>f, <2>2 DEF RouteOf
  <2>q. QED
    BY <1>3, <1>5, <2>3
<1>q. QED
  BY <1>9, <1>b, <1>e, <1>f

\* The same of the services as registered.
LEMMA OnlyDeclared ==
    ASSUME rpcApp \in RpcApps, NEW resolved, resolved = resolved_services(rpcApp.services),
           validate_services(resolved), rpcPath \in DOMAIN from_services(resolved),
           NEW target, target = from_services(resolved)[rpcPath]
    PROVE  /\ target \in RpcDescriptor /\ Declares(target)
           /\ \A i \in DOMAIN rpcApp.services : \A k \in DOMAIN RpcsOf(rpcApp.services[i]) :
                Declares(RpcsOf(rpcApp.services[i])[k]) => RpcsOf(rpcApp.services[i])[k] = target
<1>1. PICK services \in Seq(ServiceDescriptor) : services = rpcApp.services
  BY RpcAssumption
<1>2. \A i, j \in DOMAIN services : services[i].ty = services[j].ty => services[i] = services[j]
  BY <1>1, RpcAssumption
<1>3. resolved \in Seq(ServiceDescriptor) /\ Range(resolved) = Range(services)
  BY ONLY <1>1, <1>2, resolved = resolved_services(rpcApp.services), ResolvedServices
<1>4. /\ \A i \in DOMAIN resolved : \E j \in DOMAIN services : resolved[i] = services[j]
      /\ \A j \in DOMAIN services : \E i \in DOMAIN resolved : resolved[i] = services[j]
  BY <1>3 DEF Range
<1>5. /\ target \in RpcDescriptor
      /\ \E i \in DOMAIN resolved : \E k \in DOMAIN RpcsOf(resolved[i]) :
                RpcsOf(resolved[i])[k] = target /\ RoutePath(resolved[i], target) = rpcPath
      /\ \A i \in DOMAIN resolved : \A k \in DOMAIN RpcsOf(resolved[i]) :
                RoutePath(resolved[i], RpcsOf(resolved[i])[k]) = rpcPath => RpcsOf(resolved[i])[k] = target
  BY <1>3, Routed
<1>6. \A rpc : Declares(rpc) <=> \E j \in DOMAIN services : \E k \in DOMAIN RpcsOf(services[j]) :
                                  RpcsOf(services[j])[k] = rpc /\ RoutePath(services[j], rpc) = rpcPath
  BY <1>1 DEF Declares
<1>7. Declares(target)
  BY <1>4, <1>5, <1>6
<1>8. ASSUME NEW rpc, Declares(rpc) PROVE rpc = target
  BY <1>4, <1>5, <1>6, <1>8
<1>q. QED
  BY <1>5, <1>7, <1>8

-----------------------------------------------------------------------------
(* RpcDispatch: the call.                                                   *)

Codes == UserCodes \cup {"BadInput", "NotFound", "Internal"}
Errors == {ErrorResponse(c) : c \in Codes}
Answers == {[code |-> c, hooks |-> h] : c \in Codes, h \in Nat}
Frame ==
    {[kind |-> k] : k \in {"item", "Ok", "End"}}
        \cup {[kind |-> k, error |-> e] : k \in {"Err", "StreamError"}, e \in Answers}
Hooked == IF rpcApp.hook THEN 1 ELSE 0

\* The wire holds items, and a terminator once the call is done.
WireOK ==
    /\ rpcWire \in Seq(Frame)
    /\ \A i \in 1..Len(rpcWire) : rpcWire[i].kind \in {"Err", "StreamError"} => rpcWire[i].error.hooks = Hooked
    /\ \A i \in 1..Len(rpcWire) : rpcWire[i].kind # "item" => i = Len(rpcWire) /\ rpcStage = "done"
    /\ rpcStage = "done" => rpcWire # <<>> /\ rpcWire[Len(rpcWire)].kind # "item"

\* What was entered and what is left are the layers and the router, in their order.
StackOK ==
    /\ rpcEntered \in Seq(LayerApplier) /\ rpcStack \in Seq(Services)
    /\ Len(rpcStack) = Len(rpcApp.layers) + 1 - Len(rpcEntered) /\ Len(rpcStack) >= 1
    /\ \A i \in 1..Len(rpcEntered) : rpcEntered[i] = rpcApp.layers[i]
    /\ \A i \in 1..(Len(rpcStack) - 1) : rpcStack[i] = rpcApp.layers[Len(rpcEntered) + i]
    /\ rpcStack[Len(rpcStack)] = RouterService

\* What was read is a prefix of what was sent; the rest of the frames read were not yielded,
\* which only a stream that has ended does.
ReadOK ==
    /\ rpcSent \in Seq({"ok", "bad"}) /\ rpcGot \in Seq({"ok", "bad"}) /\ rpcRead \in Nat
    /\ Len(rpcGot) <= rpcRead /\ rpcRead <= Len(rpcSent)
    /\ \A i \in 1..Len(rpcGot) : rpcGot[i] = rpcSent[i]
    /\ rpcInput # "ended" => Len(rpcGot) = rpcRead

TakesItems == \E k \in DOMAIN rpcTarget.params : rpcTarget.params[k] = "RequestStream"

OneDeclared ==
    /\ Declares(rpcTarget)
    /\ \A i \in DOMAIN rpcApp.services : \A k \in DOMAIN RpcsOf(rpcApp.services[i]) :
            Declares(RpcsOf(rpcApp.services[i])[k]) => RpcsOf(rpcApp.services[i])[k] = rpcTarget

Undispatched == rpcTarget = <<>> /\ rpcGot = <<>> /\ rpcRead = 0
Dispatched ==
    /\ rpcTarget \in RpcDescriptor /\ rpcEntered = rpcApp.layers /\ OneDeclared
    /\ TakesItems => \A i \in 1..Len(rpcGot) : rpcGot[i] # "bad"
    /\ ~TakesItems => Len(rpcGot) = rpcRead

\* The request stream went to the parameter that took it.
ArgsOK ==
    /\ rpcArgs \in 0..Len(rpcTarget.params)
    /\ rpcInput \in {"none", "open", "Streaming"} =>
            \A i \in 1..rpcArgs : rpcTarget.params[i] # "RequestStream"
    /\ rpcInput = "RequestStream" => TakesItems

PhaseOK ==
    /\ Undispatched \/ Dispatched
    /\ rpcStage \in {"scope", "layers"} => Undispatched /\ rpcArgs = 0 /\ rpcInput # "RequestStream"
    /\ rpcStage = "extract" => Dispatched /\ ArgsOK /\ rpcGot = <<>> /\ rpcRead = 0
    /\ rpcStage \in {"run", "pump"} => Dispatched /\ ArgsOK /\ rpcArgs = Len(rpcTarget.params)

Inputs == {"none", "open", "Streaming", "RequestStream", "ended"}
Stages == {"refused", "scope", "layers", "extract", "run", "pump", "reply", "failing", "done", "gone"}

RpcInv ==
    /\ rpcApp \in RpcApps /\ rpcStage \in Stages /\ rpcInput \in Inputs /\ rpcError \in Errors
    /\ rpcStage # "refused" => validate_services(resolved_services(rpcApp.services))
    /\ WireOK /\ StackOK /\ ReadOK /\ PhaseOK

Ending == {"done", "gone", "refused"}

\* The errors that are made from a status.
LEMMA ErrorCodes == (\A e : ErrorResponse(status_code(e)) \in Errors) /\ internal_error_response \in Errors
                    /\ (\A c \in UserCodes : ErrorResponse(c) \in Errors)
<1>1. \A e : status_code(e) \in Codes
  BY DEF status_code, Codes
<1>2. "Internal" \in Codes /\ UserCodes \subseteq Codes
  BY DEF Codes
<1>q. QED
  BY <1>1, <1>2 DEF Errors, internal_error_response

\* An error's way to the wire leads through the error handler once.
LEMMA HandledOnce ==
    ASSUME NEW error \in Errors, NEW e \in apply_error_handler(error)
    PROVE  e \in Answers /\ e.hooks = Hooked
<1>1. PICK c \in Codes : error = [code |-> c, hooks |-> 0]
  BY DEF Errors, ErrorResponse
<1>2. CASE ~rpcApp.hook
  BY <1>1, <1>2 DEF apply_error_handler, Answers, Hooked
<1>3. CASE rpcApp.hook
  <2>1. PICK d \in {error.code, internal_error_response.code} \cup UserCodes :
            e = [code |-> d, hooks |-> error.hooks + 1]
    BY <1>3 DEF apply_error_handler
  <2>2. d \in Codes
    BY <1>1, <2>1 DEF Codes, internal_error_response, ErrorResponse
  <2>3. e = [code |-> d, hooks |-> 1]
    BY <1>1, <2>1
  <2>q. QED
    BY <1>3, <2>2, <2>3 DEF Answers, Hooked
<1>q. QED
  BY <1>2, <1>3

\* The wire when nothing is sent.
LEMMA WireKept ==
    ASSUME WireOK, rpcStage # "done", rpcStage' # "done", UNCHANGED <<rpcApp, rpcWire>>
    PROVE  WireOK'
  BY DEF WireOK, Hooked

\* The wire with one more frame.
LEMMA WireAppends ==
    ASSUME WireOK, rpcStage # "done", rpcApp' = rpcApp, NEW frame \in Frame, rpcWire' = Append(rpcWire, frame),
           frame.kind \in {"Err", "StreamError"} => frame.error.hooks = Hooked,
           frame.kind # "item" <=> rpcStage' = "done"
    PROVE  WireOK'
<1>1. PICK w \in Seq(Frame) : w = rpcWire
  BY DEF WireOK
<1>2. \A i \in 1..Len(w) : w[i].kind = "item" /\ w[i].kind \notin {"Err", "StreamError"}
  BY <1>1 DEF WireOK
<1>3. PICK x \in Seq(Frame) : x = rpcWire'
  BY <1>1
<1>4. /\ Len(x) = Len(w) + 1 /\ x[Len(x)] = frame /\ x # <<>>
      /\ \A i \in 1..Len(x) : i # Len(x) => x[i] = w[i] /\ i \in 1..Len(w)
  BY <1>1, <1>3
<1>5. Hooked' = Hooked
  BY DEF Hooked
<1>6. \A i \in 1..Len(x) : x[i].kind \in {"Err", "StreamError"} => x[i].error.hooks = Hooked
  BY <1>2, <1>4
<1>7. \A i \in 1..Len(x) : x[i].kind # "item" => i = Len(x) /\ rpcStage' = "done"
  BY <1>2, <1>4
<1>8. rpcStage' = "done" => x # <<>> /\ x[Len(x)].kind # "item"
  BY <1>4
<1>q. QED
  BY <1>3, <1>5, <1>6, <1>7, <1>8 DEF WireOK

\* A layer is not the router service.
LEMMA LayerIsNoRouter == ASSUME NEW l \in LayerApplier PROVE l # RouterService
<1>1. l.kind \in {"guard", "layer"}
  BY DEF LayerApplier
<1>2. RouterService.kind = "router"
  BY DEF RouterService
<1>q. QED
  BY <1>1, <1>2

\* At the router every layer was entered, before it there is one to enter.
LEMMA StackHead ==
    ASSUME rpcApp \in RpcApps, StackOK
    PROVE  /\ Head(rpcStack) = RouterService => rpcEntered = rpcApp.layers
           /\ Head(rpcStack) # RouterService => Len(rpcStack) >= 2 /\ Head(rpcStack) = rpcApp.layers[Len(rpcEntered) + 1]
<1>1. PICK layers \in Seq(LayerApplier) : layers = rpcApp.layers
  BY RpcAssumption
<1>2. PICK k \in Nat : k = Len(rpcStack) /\ k >= 1
  <2>1. Len(rpcStack) \in Nat /\ Len(rpcStack) >= 1
    BY DEF StackOK
  <2>q. QED
    BY <2>1
<1>3. Head(rpcStack) = rpcStack[1]
  BY <1>2 DEF StackOK
<1>4. CASE k = 1
  <2>1. Len(rpcEntered) = Len(layers) /\ rpcEntered \in Seq(LayerApplier) /\ \A i \in 1..Len(rpcEntered) : rpcEntered[i] = layers[i]
    BY <1>1, <1>2, <1>4 DEF StackOK
  <2>2. rpcEntered = layers
    BY <2>1, SeqEqual
  <2>q. QED
    BY <1>1, <1>2, <1>3, <1>4, <2>2 DEF StackOK
<1>5. CASE k # 1
  <2>1. rpcStack[1] = layers[Len(rpcEntered) + 1] /\ Len(rpcEntered) + 1 \in 1..Len(layers)
    BY <1>1, <1>2, <1>5 DEF StackOK
  <2>2. rpcStack[1] \in LayerApplier
    BY <2>1
  <2>q. QED
    BY <1>1, <1>2, <1>3, <1>5, <2>1, <2>2, LayerIsNoRouter
<1>q. QED
  BY <1>4, <1>5

\* What the call's way through its phases leaves alone.
LEMMA StackKept ==
    ASSUME StackOK, UNCHANGED <<rpcApp, rpcStack, rpcEntered>> PROVE StackOK'
  BY DEF StackOK

\* What was dispatched stays so while the call does not move.
LEMMA DispatchKept ==
    ASSUME UNCHANGED <<rpcApp, rpcPath, rpcTarget, rpcEntered, rpcGot, rpcRead>>
    PROVE  /\ Dispatched => Dispatched'
           /\ Undispatched => Undispatched'
           /\ TakesItems' <=> TakesItems
  BY DEF Dispatched, Undispatched, TakesItems, OneDeclared, Declares

\* The call is over but for its answer, or its connection is gone.
LEMMA CallEnds ==
    ASSUME RpcInv, rpcStage \notin Ending, rpcStage' \in {"failing", "reply", "gone"}, rpcError' \in Errors,
           InputDropped \/ UNCHANGED rpcInput,
           UNCHANGED <<callVars, rpcStack, rpcEntered, rpcTarget, rpcArgs, rpcSent, rpcGot, rpcRead, rpcWire>>
    PROVE  RpcInv'
<1> USE DEF callVars
<1>1. WireOK'
  BY WireKept DEF RpcInv, Ending
<1>2. StackOK'
  BY StackKept DEF RpcInv
<1>3. rpcInput' \in Inputs /\ (rpcInput' # "ended" => rpcInput # "ended")
  BY DEF RpcInv, InputDropped, Inputs
<1>4. ReadOK'
  BY <1>3 DEF RpcInv, ReadOK
<1>5. (Undispatched \/ Dispatched)'
  BY DispatchKept DEF RpcInv, PhaseOK
<1>6. PhaseOK'
  BY <1>5 DEF PhaseOK
<1>q. QED
  BY <1>1, <1>2, <1>3, <1>4, <1>6 DEF RpcInv, Stages, Ending

\* The request's scope is opened.
LEMMA ScopeStep == ASSUME RpcInv, OpenRequestScope PROVE RpcInv'
<1>1. rpcStage = "scope" /\ rpcStage \notin Ending
  BY DEF OpenRequestScope, Ending
<1>2. CASE rpcStage' = "layers" /\ UNCHANGED <<rpcError, rpcInput>>
  <2>1. WireOK' /\ StackOK'
    BY <1>1, <1>2, WireKept, StackKept DEF RpcInv, OpenRequestScope, callVars
  <2>2. ReadOK'
    BY <1>2 DEF RpcInv, OpenRequestScope, ReadOK
  <2>3. Undispatched' /\ rpcArgs' = 0
    BY <1>1 DEF RpcInv, PhaseOK, OpenRequestScope, Undispatched
  <2>4. PhaseOK'
    BY <1>1, <1>2, <2>3 DEF PhaseOK, RpcInv
  <2>q. QED
    BY <1>1, <1>2, <2>1, <2>2, <2>4 DEF RpcInv, OpenRequestScope, callVars, Stages
<1>3. CASE \E e \in Errors : FailsWith(e)
  BY <1>1, <1>3, CallEnds DEF OpenRequestScope, FailsWith
<1>q. QED
  BY <1>2, <1>3, ErrorCodes DEF OpenRequestScope

\* The call enters a layer.
LEMMA LayerStep == ASSUME RpcInv, EnterLayer PROVE RpcInv'
<1>1. rpcStage = "layers" /\ rpcStage \notin Ending /\ Head(rpcStack) # RouterService
  BY DEF EnterLayer, Ending
<1>2. CASE /\ rpcStack' = Tail(rpcStack) /\ rpcEntered' = Append(rpcEntered, Head(rpcStack))
           /\ UNCHANGED <<rpcStage, rpcError, rpcInput>>
  <2>0. UNCHANGED <<callVars, rpcTarget, rpcArgs, rpcSent, rpcGot, rpcRead, rpcWire>>
    BY DEF EnterLayer
  <2>1. WireOK' /\ ReadOK'
    BY <1>1, <1>2, <2>0, WireKept DEF RpcInv, callVars, ReadOK
  <2>2. PICK layers \in Seq(LayerApplier) : layers = rpcApp.layers
    BY RpcAssumption DEF RpcInv
  <2>3. PICK st \in Seq(Services) : st = rpcStack
    BY DEF RpcInv, StackOK
  <2>4. PICK en \in Seq(LayerApplier) : en = rpcEntered
    BY DEF RpcInv, StackOK
  <2>5. Len(st) >= 2 /\ Head(st) = layers[Len(en) + 1]
    BY <1>1, <2>2, <2>3, <2>4, StackHead DEF RpcInv
  <2>6. /\ Len(st) = Len(layers) + 1 - Len(en)
        /\ \A i \in 1..Len(en) : en[i] = layers[i]
        /\ \A i \in 1..(Len(st) - 1) : st[i] = layers[Len(en) + i]
        /\ st[Len(st)] = RouterService
    BY <2>2, <2>3, <2>4 DEF RpcInv, StackOK
  <2>7. Head(st) \in LayerApplier
    <3>1. Len(en) + 1 \in 1..Len(layers)
      BY <2>5, <2>6
    <3>q. QED
      BY <2>5, <3>1
  <2>8. PICK t \in Seq(Services) : t = Tail(st)
    <3>1. Tail(st) \in Seq(Services)
      BY <2>5
    <3>q. QED
      BY <3>1
  <2>9. Len(t) = Len(st) - 1 /\ \A i \in 1..Len(t) : t[i] = st[i + 1]
    BY <2>5, <2>8
  <2>a. PICK n \in Seq(LayerApplier) : n = Append(en, Head(st))
    <3>1. Append(en, Head(st)) \in Seq(LayerApplier)
      BY <2>7
    <3>q. QED
      BY <3>1
  <2>b. Len(n) = Len(en) + 1 /\ n[Len(en) + 1] = Head(st) /\ \A i \in 1..Len(en) : n[i] = en[i]
    BY <2>7, <2>a
  <2>c. \A i \in 1..Len(n) : n[i] = layers[i]
    <3>1. \A i \in 1..Len(n) : i \in 1..Len(en) \/ i = Len(en) + 1
      BY <2>b
    <3>q. QED
      BY <2>5, <2>6, <2>b, <3>1
  <2>d. Len(t) >= 1 /\ Len(t) = Len(layers) + 1 - Len(n)
    BY <2>5, <2>6, <2>9, <2>b
  <2>e. \A i \in 1..(Len(t) - 1) : t[i] = layers[Len(n) + i]
    <3>1. SUFFICES ASSUME NEW i \in 1..(Len(t) - 1) PROVE t[i] = layers[Len(n) + i]
      OBVIOUS
    <3>2. i + 1 \in 1..(Len(st) - 1) /\ i \in 1..Len(t) /\ Len(en) + (i + 1) = Len(n) + i
      BY <2>9, <2>b
    <3>q. QED
      BY <2>6, <2>9, <3>2
  <2>f. t[Len(t)] = RouterService
    <3>1. Len(t) \in 1..Len(t) /\ Len(t) + 1 = Len(st)
      BY <2>9, <2>d
    <3>q. QED
      BY <2>6, <2>9, <3>1
  <2>g. StackOK'
    BY <1>2, <2>0, <2>2, <2>3, <2>4, <2>8, <2>a, <2>c, <2>d, <2>e, <2>f DEF StackOK, callVars
  <2>h. Undispatched' /\ rpcArgs' = 0
    BY <1>1, <2>0 DEF RpcInv, PhaseOK, Undispatched
  <2>i. PhaseOK'
    BY <1>1, <1>2, <2>h DEF PhaseOK, RpcInv
  <2>q. QED
    BY <1>1, <1>2, <2>0, <2>1, <2>g, <2>i DEF RpcInv, callVars
<1>3. CASE (\E e \in Errors : FailsWith(e)) /\ UNCHANGED <<rpcStack, rpcEntered>>
  BY <1>1, <1>3, CallEnds DEF EnterLayer, FailsWith
<1>4. CASE rpcStage' = "reply" /\ InputDropped /\ UNCHANGED <<rpcStack, rpcEntered, rpcError>>
  BY <1>1, <1>4, CallEnds DEF EnterLayer, RpcInv
<1>q. QED
  BY <1>2, <1>3, <1>4, ErrorCodes DEF EnterLayer

\* The router finds the handler.
LEMMA DispatchStep == ASSUME RpcInv, dispatch PROVE RpcInv'
<1>1. rpcStage = "layers" /\ rpcStage \notin Ending /\ Head(rpcStack) = RouterService
  BY DEF dispatch, Ending
<1>2. PICK resolved : resolved = resolved_services(rpcApp.services)
  OBVIOUS
<1>0. UNCHANGED <<callVars, rpcStack, rpcEntered, rpcArgs, rpcSent, rpcGot, rpcRead, rpcWire>>
  BY DEF dispatch
<1>3. CASE rpcPath \in DOMAIN from_services(resolved)
  <2>1. /\ rpcTarget' = from_services(resolved)[rpcPath] /\ rpcStage' = "extract"
        /\ UNCHANGED <<rpcError, rpcInput>>
    BY <1>2, <1>3 DEF dispatch
  <2>2. WireOK' /\ StackOK'
    BY <1>0, <1>1, <2>1, WireKept, StackKept DEF RpcInv, callVars
  <2>3. ReadOK'
    BY <1>0, <2>1 DEF RpcInv, ReadOK
  <2>4. rpcApp \in RpcApps /\ validate_services(resolved)
    BY <1>1, <1>2 DEF RpcInv
  <2>5. PICK target : target = from_services(resolved)[rpcPath]
    OBVIOUS
  <2>6. /\ target \in RpcDescriptor /\ Declares(target)
        /\ \A i \in DOMAIN rpcApp.services : \A k \in DOMAIN RpcsOf(rpcApp.services[i]) :
                Declares(RpcsOf(rpcApp.services[i])[k]) => RpcsOf(rpcApp.services[i])[k] = target
    BY <1>2, <1>3, <2>4, <2>5, OnlyDeclared
  <2>7. OneDeclared'
    BY <1>0, <2>1, <2>5, <2>6 DEF OneDeclared, Declares, callVars
  <2>8. rpcEntered' = rpcApp'.layers
    BY <1>0, <1>1, <2>4, StackHead DEF RpcInv, callVars
  <2>9. rpcGot' = <<>> /\ rpcRead' = 0 /\ rpcArgs' = 0
    BY <1>0, <1>1 DEF RpcInv, PhaseOK, Undispatched
  <2>a. Dispatched'
    BY <2>1, <2>5, <2>6, <2>7, <2>8, <2>9 DEF Dispatched
  <2>b. rpcTarget'.params \in Seq(ParamKinds)
    BY <2>1, <2>5, <2>6 DEF RpcDescriptor
  <2>c. rpcInput # "RequestStream"
    BY <1>1 DEF RpcInv, PhaseOK
  <2>d. ArgsOK'
    BY <2>1, <2>9, <2>b, <2>c DEF ArgsOK
  <2>e. PhaseOK'
    BY <2>1, <2>9, <2>a, <2>d DEF PhaseOK
  <2>q. QED
    BY <1>0, <1>2, <2>1, <2>2, <2>3, <2>4, <2>e DEF RpcInv, callVars, Stages
<1>4. CASE rpcPath \notin DOMAIN from_services(resolved)
  <2>1. FailsWith(ErrorResponse(status_code("RouteNotFound"))) /\ UNCHANGED rpcTarget
    BY <1>2, <1>4 DEF dispatch
  <2>q. QED
    BY <1>0, <1>1, <2>1, ErrorCodes, CallEnds DEF FailsWith
<1>q. QED
  BY <1>3, <1>4

\* One more parameter was extracted.
LEMMA Extracts ==
    ASSUME RpcInv, rpcStage = "extract", rpcArgs < Len(rpcTarget.params), Extracted,
           \/ UNCHANGED rpcInput /\ NextParam # "RequestStream"
           \/ rpcInput = "open" /\ rpcInput' = NextParam /\ NextParam \in {"Streaming", "RequestStream"},
           UNCHANGED <<callVars, rpcStack, rpcEntered, rpcTarget, rpcSent, rpcGot, rpcRead, rpcWire>>
    PROVE  RpcInv'
<1> USE DEF callVars
<1>0. rpcArgs' = rpcArgs + 1 /\ UNCHANGED <<rpcStage, rpcError>>
  BY DEF Extracted
<1>1. WireOK' /\ StackOK'
  BY <1>0, WireKept, StackKept DEF RpcInv
<1>2. rpcInput' \in Inputs /\ (rpcInput' # "ended" => rpcInput # "ended")
  BY DEF RpcInv, Inputs
<1>3. ReadOK'
  BY <1>2 DEF RpcInv, ReadOK
<1>4. Dispatched /\ ArgsOK /\ rpcGot = <<>> /\ rpcRead = 0
  BY DEF RpcInv, PhaseOK
<1>5. PICK params \in Seq(ParamKinds) : params = rpcTarget.params
  BY <1>4 DEF Dispatched, RpcDescriptor
<1>6. rpcArgs \in 0..Len(params) /\ rpcArgs + 1 \in 0..Len(params) /\ rpcArgs + 1 \in DOMAIN params /\ NextParam = params[rpcArgs + 1]
  BY <1>4, <1>5 DEF ArgsOK, NextParam
<1>7. Dispatched' /\ (TakesItems' <=> TakesItems)
  BY <1>4, DispatchKept
<1>8. \A i \in 1..(rpcArgs + 1) : i \in 1..rpcArgs \/ i = rpcArgs + 1
  BY <1>6
<1>9. NextParam = "RequestStream" => TakesItems
  BY <1>5, <1>6 DEF TakesItems
<1>a. rpcInput' \in {"none", "open", "Streaming"} => rpcInput \in {"none", "open", "Streaming"} /\ NextParam # "RequestStream"
  OBVIOUS
<1>b. rpcInput' \in {"none", "open", "Streaming"} => \A i \in 1..(rpcArgs + 1) : params[i] # "RequestStream"
  BY <1>4, <1>5, <1>6, <1>8, <1>a DEF ArgsOK
<1>c. rpcInput' = "RequestStream" => TakesItems
  BY <1>4, <1>9 DEF ArgsOK
<1>d. ArgsOK'
  BY <1>0, <1>5, <1>6, <1>7, <1>b, <1>c DEF ArgsOK
<1>e. PhaseOK'
  BY <1>0, <1>4, <1>7, <1>d DEF PhaseOK
<1>q. QED
  BY <1>0, <1>1, <1>2, <1>3, <1>e DEF RpcInv

\* An extractor reads the request.
LEMMA ExtractStep == ASSUME RpcInv, from_context PROVE RpcInv'
<1>1. /\ rpcStage = "extract" /\ rpcStage \notin Ending /\ rpcArgs < Len(rpcTarget.params)
      /\ UNCHANGED <<callVars, rpcStack, rpcEntered, rpcTarget, rpcSent, rpcGot, rpcRead, rpcWire>>
  BY DEF from_context, Ending
<1>2. ASSUME NEW e, ExtractionFails(e) PROVE RpcInv'
  BY <1>1, <1>2, ErrorCodes, CallEnds DEF ExtractionFails, FailsWith
<1>3. NextParam \in ParamKinds
  <2>1. Dispatched /\ ArgsOK
    BY <1>1 DEF RpcInv, PhaseOK
  <2>2. PICK params \in Seq(ParamKinds) : params = rpcTarget.params
    BY <2>1 DEF Dispatched, RpcDescriptor
  <2>3. rpcArgs + 1 \in 1..Len(params)
    BY <1>1, <2>1, <2>2 DEF ArgsOK
  <2>q. QED
    BY <2>2, <2>3 DEF NextParam
<1>4. CASE Extracted /\ UNCHANGED rpcInput /\ NextParam # "RequestStream"
  BY <1>1, <1>4, Extracts
<1>5. CASE Extracted /\ rpcInput = "open" /\ rpcInput' = NextParam /\ NextParam \in {"Streaming", "RequestStream"}
  BY <1>1, <1>5, Extracts
<1>6. CASE NextParam \in {"Payload", "Peer", "Cancel", "Inject", "InjectPeer"}
  <2>1. (Extracted /\ UNCHANGED rpcInput) \/ \E e : ExtractionFails(e)
    BY <1>6, Zenon DEF from_context
  <2>q. QED
    BY <1>2, <1>4, <1>6, <2>1
<1>7. CASE NextParam \in {"Streaming", "RequestStream"}
  <2>1. TakeRequests(NextParam)
    BY <1>7 DEF from_context
  <2>q. QED
    BY <1>2, <1>5, <1>7, <2>1 DEF TakeRequests
<1>q. QED
  BY <1>3, <1>6, <1>7 DEF ParamKinds

\* The handler is called.
LEMMA CallStep == ASSUME RpcInv, CallHandler PROVE RpcInv'
<1> USE DEF callVars, inputVars
<1>1. /\ rpcStage = "extract" /\ rpcStage' = "run" /\ rpcArgs = Len(rpcTarget.params)
      /\ UNCHANGED <<callVars, rpcStack, rpcEntered, rpcTarget, rpcArgs, inputVars, rpcError, rpcWire>>
  BY DEF CallHandler
<1>2. WireOK' /\ StackOK'
  BY <1>1, WireKept, StackKept DEF RpcInv
<1>3. ReadOK'
  BY <1>1 DEF RpcInv, ReadOK
<1>4. Dispatched' /\ (TakesItems' <=> TakesItems) /\ ArgsOK
  BY <1>1, DispatchKept DEF RpcInv, PhaseOK
<1>5. ArgsOK'
  BY <1>1, <1>4 DEF ArgsOK
<1>6. PhaseOK'
  BY <1>1, <1>4, <1>5 DEF PhaseOK
<1>q. QED
  BY <1>1, <1>2, <1>3, <1>6 DEF RpcInv, Stages

\* The caller sends a frame.
LEMMA CallerStep ==
    ASSUME RpcInv, NEW frame \in {"ok", "bad"}, CallerSends(frame) PROVE RpcInv'
<1> USE DEF callVars
<1>1. /\ rpcStage # "done" /\ rpcSent' = Append(rpcSent, frame)
      /\ UNCHANGED <<callVars, rpcStage, rpcStack, rpcEntered, rpcTarget, rpcArgs, rpcInput, rpcGot, rpcRead, rpcError, rpcWire>>
  BY DEF CallerSends
<1>2. WireOK' /\ StackOK'
  BY <1>1, WireKept, StackKept DEF RpcInv
<1>3. ReadOK'
  <2>1. PICK s \in Seq({"ok", "bad"}) : s = rpcSent
    BY DEF RpcInv, ReadOK
  <2>2. Append(s, frame) \in Seq({"ok", "bad"}) /\ Len(Append(s, frame)) = Len(s) + 1
        /\ \A i \in 1..Len(s) : Append(s, frame)[i] = s[i]
    OBVIOUS
  <2>3. Len(rpcGot) \in Nat /\ rpcRead \in Nat /\ Len(rpcGot) <= rpcRead /\ rpcRead <= Len(s)
    BY <2>1 DEF RpcInv, ReadOK
  <2>4. \A i \in 1..Len(rpcGot) : i \in 1..Len(s) /\ rpcGot[i] = s[i]
    BY <2>1, <2>3 DEF RpcInv, ReadOK
  <2>5. \A i \in 1..Len(rpcGot) : rpcGot[i] = Append(s, frame)[i]
    BY <2>2, <2>4
  <2>6. rpcRead <= Len(Append(s, frame))
    BY <2>2, <2>3
  <2>q. QED
    BY <1>1, <2>1, <2>2, <2>5, <2>6 DEF RpcInv, ReadOK
<1>4. (Dispatched => Dispatched') /\ (Undispatched => Undispatched') /\ (TakesItems' <=> TakesItems)
  BY <1>1, DispatchKept
<1>5. ArgsOK => ArgsOK'
  BY <1>1, <1>4 DEF ArgsOK
<1>6. PhaseOK'
  BY <1>1, <1>4, <1>5 DEF RpcInv, PhaseOK
<1>q. QED
  BY <1>1, <1>2, <1>3, <1>6 DEF RpcInv

\* A frame that is yielded was the next one sent.
LEMMA ReadStep == ASSUME RpcInv, ReadRequest PROVE RpcInv'
<1> USE DEF callVars
<1>1. /\ rpcStage \in {"run", "pump"} /\ rpcInput \in {"Streaming", "RequestStream"}
      /\ rpcRead < Len(rpcSent) /\ rpcRead' = rpcRead + 1
      /\ UNCHANGED <<callVars, rpcStage, rpcStack, rpcEntered, rpcTarget, rpcArgs, rpcSent, rpcError, rpcWire>>
  BY DEF ReadRequest
<1>2. WireOK' /\ StackOK'
  BY <1>1, WireKept, StackKept DEF RpcInv
<1>3. Dispatched /\ ArgsOK /\ rpcArgs = Len(rpcTarget.params)
  BY <1>1 DEF RpcInv, PhaseOK
<1>4. PICK sent \in Seq({"ok", "bad"}) : sent = rpcSent
  BY DEF RpcInv, ReadOK
<1>5. PICK got \in Seq({"ok", "bad"}) : got = rpcGot
  BY DEF RpcInv, ReadOK
<1>6. /\ rpcRead \in Nat /\ Len(got) = rpcRead /\ rpcRead + 1 \in 1..Len(sent) /\ Len(sent) \in Nat
      /\ \A i \in 1..Len(got) : got[i] = sent[i]
  BY <1>1, <1>4, <1>5 DEF RpcInv, ReadOK
<1>7. PICK params \in Seq(ParamKinds) : params = rpcTarget.params
  BY <1>3 DEF Dispatched, RpcDescriptor
<1>8. /\ rpcInput = "RequestStream" => TakesItems
      /\ rpcInput = "Streaming" => ~TakesItems
  BY <1>3, <1>7 DEF ArgsOK, TakesItems
<1>9. TakesItems' <=> TakesItems
  BY <1>1 DEF TakesItems
<1>a. OneDeclared' /\ rpcTarget' \in RpcDescriptor /\ rpcEntered' = rpcApp'.layers
  BY <1>1, <1>3, ZenonT(40) DEF Dispatched, OneDeclared, Declares
<1>b. CASE rpcInput = "Streaming" \/ rpcSent[rpcRead'] = "ok"
  <2>1. rpcGot' = Append(got, sent[rpcRead + 1]) /\ UNCHANGED rpcInput
    BY <1>1, <1>4, <1>5, <1>b DEF ReadRequest
  <2>2. PICK x \in {"ok", "bad"} : x = sent[rpcRead + 1]
    BY <1>6
  <2>3. PICK more \in Seq({"ok", "bad"}) : more = Append(got, x)
    <3>1. Append(got, x) \in Seq({"ok", "bad"})
      BY <2>2
    <3>q. QED
      BY <3>1
  <2>4. Len(more) = rpcRead + 1 /\ more[rpcRead + 1] = x /\ \A i \in 1..rpcRead : more[i] = got[i]
    BY <1>6, <2>3
  <2>5. \A i \in 1..(rpcRead + 1) : i \in 1..rpcRead \/ i = rpcRead + 1
    BY <1>6
  <2>6. \A i \in 1..Len(more) : more[i] = sent[i]
    BY <1>6, <2>2, <2>4, <2>5
  <2>7. ReadOK'
    BY <1>1, <1>4, <1>6, <2>1, <2>2, <2>3, <2>4, <2>6 DEF ReadOK
  <2>8. TakesItems => \A i \in 1..Len(more) : more[i] # "bad"
    <3>1. SUFFICES ASSUME TakesItems PROVE \A i \in 1..Len(more) : more[i] # "bad"
      OBVIOUS
    <3>2. x = "ok"
      BY <1>1, <1>4, <1>8, <1>b, <2>2, <3>1
    <3>3. \A i \in 1..rpcRead : got[i] # "bad"
      BY <1>3, <1>5, <1>6, <3>1 DEF Dispatched
    <3>q. QED
      BY <2>4, <2>5, <3>2, <3>3
  <2>9. Dispatched'
    BY <1>1, <1>9, <1>a, <2>1, <2>2, <2>3, <2>4, <2>8 DEF Dispatched
  <2>a. ArgsOK'
    BY <1>1, <1>3, <1>9, <2>1 DEF ArgsOK
  <2>b. PhaseOK'
    BY <1>1, <1>3, <2>9, <2>a DEF PhaseOK
  <2>q. QED
    BY <1>1, <1>2, <2>1, <2>7, <2>b DEF RpcInv
<1>c. CASE ~(rpcInput = "Streaming" \/ rpcSent[rpcRead'] = "ok")
  <2>1. rpcInput' = "ended" /\ UNCHANGED rpcGot /\ rpcInput = "RequestStream"
    BY <1>1, <1>c DEF ReadRequest, DecodeFails
  <2>2. ReadOK'
    BY <1>1, <1>4, <1>5, <1>6, <2>1 DEF ReadOK
  <2>3. Dispatched'
    BY <1>3, <1>8, <1>9, <1>a, <2>1 DEF Dispatched
  <2>4. ArgsOK'
    BY <1>1, <1>3, <2>1 DEF ArgsOK
  <2>5. PhaseOK'
    BY <1>1, <1>3, <2>3, <2>4 DEF PhaseOK
  <2>q. QED
    BY <1>1, <1>2, <2>1, <2>2, <2>5 DEF RpcInv, Inputs
<1>q. QED
  BY <1>b, <1>c

\* The handler returns.
LEMMA HandlerStep == ASSUME RpcInv, HandlerReturns PROVE RpcInv'
<1> USE DEF callVars
<1>1. /\ rpcStage = "run" /\ rpcStage \notin Ending
      /\ UNCHANGED <<callVars, rpcStack, rpcEntered, rpcTarget, rpcArgs, rpcSent, rpcGot, rpcRead, rpcWire>>
  BY DEF HandlerReturns, Ending
<1>2. CASE \E e \in Errors : FailsWith(e)
  BY <1>1, <1>2, CallEnds DEF FailsWith
<1>3. CASE rpcStage' = "reply" /\ InputDropped /\ UNCHANGED rpcError
  BY <1>1, <1>3, CallEnds DEF RpcInv
<1>4. CASE rpcStage' = "pump" /\ (UNCHANGED rpcInput \/ InputDropped) /\ UNCHANGED rpcError
  <2>1. WireOK' /\ StackOK'
    BY <1>1, <1>4, WireKept, StackKept DEF RpcInv
  <2>2. /\ rpcInput' \in Inputs /\ (rpcInput' # "ended" => rpcInput # "ended")
        /\ rpcInput' = rpcInput \/ rpcInput' = "ended"
    BY <1>4 DEF RpcInv, Inputs, InputDropped
  <2>3. ReadOK'
    BY <1>1, <2>2 DEF RpcInv, ReadOK
  <2>4. Dispatched' /\ (TakesItems' <=> TakesItems) /\ ArgsOK /\ rpcArgs = Len(rpcTarget.params)
    BY <1>1, DispatchKept DEF RpcInv, PhaseOK
  <2>5. ArgsOK'
    BY <1>1, <2>2, <2>4 DEF ArgsOK
  <2>6. PhaseOK'
    BY <1>1, <1>4, <2>4, <2>5 DEF PhaseOK
  <2>q. QED
    BY <1>1, <1>4, <2>1, <2>2, <2>3, <2>6 DEF RpcInv, Stages
<1>q. QED
  <2>1. CASE /\ rpcStage' = IF rpcTarget.stream THEN "pump" ELSE "reply"
             /\ IF rpcTarget.stream /\ rpcInput # "open" THEN UNCHANGED rpcInput ELSE InputDropped
             /\ UNCHANGED rpcError
    BY <1>3, <1>4, <2>1
  <2>q. QED
    BY <1>2, <2>1, ErrorCodes DEF HandlerReturns

\* A frame is sent; a terminator ends the call.
LEMMA FrameSent ==
    ASSUME RpcInv, rpcStage \in {"reply", "failing", "pump"}, NEW frame \in Frame, rpcWire' = Append(rpcWire, frame),
           frame.kind \in {"Err", "StreamError"} => frame.error.hooks = Hooked,
           \/ frame.kind = "item" /\ UNCHANGED rpcStage
           \/ frame.kind # "item" /\ rpcStage' = "done",
           rpcError' \in Errors,
           UNCHANGED <<callVars, rpcStack, rpcEntered, rpcTarget, rpcArgs, inputVars>>
    PROVE  RpcInv'
<1> USE DEF callVars, inputVars
<1>1. WireOK'
  BY WireAppends DEF RpcInv
<1>2. StackOK'
  BY StackKept DEF RpcInv
<1>3. ReadOK'
  BY DEF RpcInv, ReadOK
<1>4. (Dispatched => Dispatched') /\ (Undispatched => Undispatched') /\ (TakesItems' <=> TakesItems)
  BY DispatchKept
<1>5. ArgsOK => ArgsOK'
  BY <1>4 DEF ArgsOK
<1>6. PhaseOK'
  BY <1>4, <1>5 DEF RpcInv, PhaseOK
<1>q. QED
  BY <1>1, <1>2, <1>3, <1>6 DEF RpcInv, Stages

\* The answer is sent.
LEMMA AnswerSteps ==
    ASSUME RpcInv, Reply \/ SendError \/ SinkItem \/ SinkFinish \/ \E error \in StreamErrors : StreamFails(error)
    PROVE  RpcInv'
<1>1. ASSUME NEW k \in {"item", "Ok", "End"}
      PROVE  [kind |-> k] \in Frame /\ [kind |-> k].kind = k /\ k \notin {"Err", "StreamError"}
  BY DEF Frame
<1>2. ASSUME NEW k \in {"Err", "StreamError"}, NEW e \in Answers, e.hooks = Hooked
      PROVE  /\ [kind |-> k, error |-> e] \in Frame /\ [kind |-> k, error |-> e].kind = k /\ k # "item"
             /\ [kind |-> k, error |-> e].error.hooks = Hooked
  BY <1>2 DEF Frame
<1>3. CASE Reply
  BY <1>1, <1>3, FrameSent DEF Reply, RpcInv
<1>4. CASE SinkItem
  BY <1>1, <1>4, FrameSent DEF SinkItem, RpcInv
<1>5. CASE SinkFinish
  BY <1>1, <1>5, FrameSent DEF SinkFinish, RpcInv
<1>6. CASE SendError
  <2>1. rpcError \in Errors
    BY DEF RpcInv
  <2>2. PICK e \in apply_error_handler(rpcError) : rpcWire' = Append(rpcWire, [kind |-> "Err", error |-> e])
    BY <1>6 DEF SendError
  <2>3. e \in Answers /\ e.hooks = Hooked
    BY <2>1, HandledOnce
  <2>q. QED
    BY <1>2, <1>6, <2>1, <2>2, <2>3, FrameSent DEF SendError
<1>7. ASSUME NEW error \in StreamErrors, StreamFails(error) PROVE RpcInv'
  <2>1. error \in Errors
    BY ErrorCodes DEF StreamErrors
  <2>2. PICK e \in apply_error_handler(error) : rpcWire' = Append(rpcWire, [kind |-> "StreamError", error |-> e])
    BY <1>7 DEF StreamFails
  <2>3. e \in Answers /\ e.hooks = Hooked
    BY <2>1, HandledOnce
  <2>q. QED
    BY <1>2, <1>7, <2>1, <2>2, <2>3, FrameSent DEF StreamFails
<1>q. QED
  BY <1>3, <1>4, <1>5, <1>6, <1>7

\* Every step of a call keeps its invariant.
LEMMA RpcStep == RpcInv /\ [RpcNext]_rpcVars => RpcInv'
<1> SUFFICES ASSUME RpcInv, [RpcNext]_rpcVars PROVE RpcInv'
  OBVIOUS
<1>1. CASE UNCHANGED rpcVars
  <2>1. UNCHANGED <<callVars, rpcStage, rpcStack, rpcEntered, rpcTarget, rpcArgs, inputVars, rpcError, rpcWire>>
    BY <1>1 DEF rpcVars
  <2> USE DEF callVars, inputVars
  <2>2. WireOK' /\ StackOK' /\ ReadOK'
    BY <2>1 DEF RpcInv, WireOK, StackOK, ReadOK, Hooked
  <2>3. (Dispatched => Dispatched') /\ (Undispatched => Undispatched') /\ (TakesItems' <=> TakesItems)
    BY <2>1, DispatchKept
  <2>4. ArgsOK => ArgsOK'
    BY <2>1, <2>3 DEF ArgsOK
  <2>5. PhaseOK'
    BY <2>1, <2>3, <2>4 DEF RpcInv, PhaseOK
  <2>q. QED
    BY <2>1, <2>2, <2>5 DEF RpcInv
<1>2. CASE ConnectionGone
  BY <1>2, CallEnds DEF ConnectionGone, Ending, inputVars, RpcInv
<1>q. QED
  BY <1>1, <1>2, ScopeStep, LayerStep, DispatchStep, ExtractStep, CallStep, ReadStep, HandlerStep, AnswerSteps, CallerStep
  DEF RpcNext

\* A call that has not begun.
LEMMA RpcStarts == RpcInit => RpcInv
<1> SUFFICES ASSUME RpcInit PROVE RpcInv
  OBVIOUS
<1>1. /\ rpcApp \in RpcApps /\ rpcInput \in {"none", "open"} /\ rpcStack = Stacked(rpcApp.layers)
      /\ rpcEntered = <<>> /\ rpcTarget = <<>> /\ rpcArgs = 0 /\ rpcSent = <<>> /\ rpcGot = <<>> /\ rpcRead = 0
      /\ rpcError = internal_error_response /\ rpcWire = <<>>
  BY DEF RpcInit, RpcStart
<1>2. rpcStage = IF validate_services(resolved_services(rpcApp.services)) THEN "scope" ELSE "refused"
  BY DEF RpcInit
<1>3. WireOK
  BY <1>1, <1>2 DEF WireOK
<1>4. StackOK
  <2>1. PICK layers \in Seq(LayerApplier) : layers = rpcApp.layers
    BY <1>1, RpcAssumption
  <2>2. PICK st \in Seq(Services) : st = rpcStack
    BY <1>1, <2>1, StackOrder
  <2>3. Len(st) = Len(layers) + 1 /\ Len(layers) \in Nat /\ st[Len(layers) + 1] = RouterService /\ \A i \in 1..Len(layers) : st[i] = layers[i]
    BY <1>1, <2>1, <2>2, StackOrder
  <2>q. QED
    BY <1>1, <2>1, <2>2, <2>3 DEF StackOK
<1>5. ReadOK
  BY <1>1 DEF ReadOK
<1>6. PhaseOK
  BY <1>1, <1>2 DEF PhaseOK, Undispatched
<1>q. QED
  BY <1>1, <1>2, <1>3, <1>4, <1>5, <1>6, ErrorCodes DEF RpcInv, Stages, Inputs

\* What the invariant says of the answer.
LEMMA AnswersFollow == RpcInv => CallAnswered
<1> SUFFICES ASSUME RpcInv PROVE CallAnswered
  OBVIOUS
<1>1. PICK wire \in Seq(Frame) : wire = rpcWire
  BY DEF RpcInv, WireOK
<1>2. ASSUME NEW i \in DOMAIN wire
      PROVE  /\ wire[i].kind \in Terminators <=> i = Len(wire) /\ rpcStage = "done"
             /\ wire[i].kind \in {"Err", "StreamError"} => wire[i].error.hooks = Hooked
  <2>1. wire[i] \in Frame /\ i \in 1..Len(wire)
    OBVIOUS
  <2>2. wire[i].kind \in {"item", "Ok", "End", "Err", "StreamError"}
    BY <2>1 DEF Frame
  <2>3. wire[i].kind \in Terminators <=> wire[i].kind # "item"
    BY <2>2 DEF Terminators
  <2>q. QED
    BY <1>1, <2>1, <2>3 DEF RpcInv, WireOK
<1>3. ASSUME rpcTarget # <<>>
      PROVE  /\ rpcEntered = rpcApp.layers /\ OneDeclared
             /\ IF "RequestStream" \in {rpcTarget.params[k] : k \in DOMAIN rpcTarget.params}
                THEN IsPrefix(rpcGot, rpcSent) /\ "bad" \notin {rpcGot[k] : k \in DOMAIN rpcGot}
                ELSE rpcGot = SubSeq(rpcSent, 1, rpcRead)
  <2>1. Dispatched
    BY <1>3 DEF RpcInv, PhaseOK, Undispatched
  <2>2. PICK sent \in Seq({"ok", "bad"}) : sent = rpcSent
    BY DEF RpcInv, ReadOK
  <2>3. PICK got \in Seq({"ok", "bad"}) : got = rpcGot
    BY DEF RpcInv, ReadOK
  <2>4. /\ rpcRead \in Nat /\ Len(got) <= rpcRead /\ rpcRead <= Len(sent) /\ Len(got) \in Nat /\ Len(sent) \in Nat
        /\ \A i \in 1..Len(got) : got[i] = sent[i]
    BY <2>2, <2>3 DEF RpcInv, ReadOK
  <2>5. PICK cut \in Seq({"ok", "bad"}) : cut = SubSeq(sent, 1, Len(got)) /\ Len(cut) = Len(got) /\ \A i \in 1..Len(got) : cut[i] = sent[i]
    <3>1. SubSeq(sent, 1, Len(got)) \in Seq({"ok", "bad"}) /\ Len(SubSeq(sent, 1, Len(got))) = Len(got)
          /\ \A i \in 1..Len(got) : SubSeq(sent, 1, Len(got))[i] = sent[i]
      BY <2>4
    <3>q. QED
      BY <3>1
  <2>6. cut = got
    BY <2>4, <2>5, SeqEqual
  <2>7. SubSeq(got, 1, Len(got)) = got
    BY SubSeqFull
  <2>8. IsPrefix(got, sent)
    BY <2>4, <2>5, <2>6, <2>7 DEF IsPrefix
  <2>9. TakesItems <=> "RequestStream" \in {rpcTarget.params[k] : k \in DOMAIN rpcTarget.params}
    BY DEF TakesItems
  <2>a. CASE TakesItems
    BY <2>1, <2>3, <2>2, <2>8, <2>9, <2>a DEF Dispatched
  <2>b. CASE ~TakesItems
    <3>1. Len(got) = rpcRead
      BY <2>1, <2>3, <2>b DEF Dispatched
    <3>q. QED
      BY <2>1, <2>2, <2>3, <2>5, <2>6, <2>9, <2>b, <3>1 DEF Dispatched
  <2>q. QED
    BY <2>a, <2>b
<1>4. rpcStage = "done" => rpcWire # <<>>
  BY DEF RpcInv, WireOK
<1>q. QED
  BY <1>1, <1>2, <1>3, <1>4 DEF CallAnswered, OneDeclared, Hooked

(* Whatever services, layers and error handler an application registers: a call that its
   connection does not cut off is answered by one terminator, every error on the wire passed the
   error handler once, and the handler that ran is the one RPC that declares the path, behind
   every layer, reading what was sent (drive_call, RpcPlugin::build, validate_services). *)
THEOREM CallsAreAnswered == RpcSpec => []CallAnswered
<1>q. QED
  BY RpcStarts, RpcStep, AnswersFollow, PTL DEF RpcSpec

-----------------------------------------------------------------------------
(* ScopeContainer: the shared lazy handle.                                  *)

CallerAt == {"idle", "locking", "creating", "replacing", "done", "failed", "unavailable"}
LazyType ==
    /\ DOMAIN lazy = {"at", "cell", "lock", "made", "replaced", "pc", "got"}
    /\ lazy.cell \in Nat /\ lazy.made \in Nat
    /\ lazy.pc \in [Callers -> CallerAt] /\ lazy.got \in [Callers -> Nat]

\* Who creates holds the lock, and until create() has replaced the value it finds the cache
\* empty and everyone has what is in it.
LazyInv ==
    /\ LazyType
    /\ \A c \in Callers : lazy.pc[c] = "creating" => lazy.lock = c
    /\ ~lazy.replaced => \A c \in Callers :
          /\ lazy.got[c] \in {0, lazy.cell}
          /\ lazy.pc[c] = "creating" => lazy.cell = 0

\* Every step of a caller keeps the invariant.
LEMMA LazyStep == LazyInv /\ [Next]_vars => LazyInv'
<1> SUFFICES ASSUME LazyInv, [Next]_vars PROVE LazyInv'
  OBVIOUS
<1> USE ContainerAssumption DEF LazyInv, LazyType, CallerAt
<1>1. ASSUME lazy' = lazy PROVE LazyInv'
  BY <1>1
<1>2. CASE Plan \/ StartRoot \/ OpenChild \/ Construct \/ FactoryFails \/ Freeze \/ FreshCreate \/ Close
  BY <1>1, <1>2 DEF Plan, StartRoot, OpenChild, Construct, FactoryFails, Freeze, FreshCreate, Close
<1>3. ASSUME NEW c \in Callers, GetOrCreate(c) PROVE LazyInv'
  <2>1. PICK e : lazy' = IF lazy.cell # 0
                         THEN [lazy EXCEPT !.pc[c] = "done", !.got[c] = lazy.cell]
                         ELSE [lazy EXCEPT !.at = e, !.pc[c] = "locking"]
    BY <1>3 DEF GetOrCreate
  <2>2. CASE lazy.cell # 0
    BY <2>1, <2>2
  <2>3. CASE lazy.cell = 0
    BY <2>1, <2>3
  <2>q. QED
    BY <2>2, <2>3
<1>4. ASSUME NEW c \in Callers, Lock(c) PROVE LazyInv'
  BY <1>4 DEF Lock, Upgraded, CachedMeanwhile
<1>5. ASSUME NEW c \in Callers, Create(c) PROVE LazyInv'
  BY <1>5 DEF Create, Upgraded
<1>6. ASSUME NEW c \in Callers, Publish(c) PROVE LazyInv'
  <2> DEFINE made == lazy.made + 1
             freed == IF lazy.lock = c THEN "" ELSE lazy.lock
             replaced == lazy.replaced \/ lazy.pc[c] = "replacing"
  <2>a. lazy.pc[c] \in {"creating", "replacing"}
    BY <1>6, Zenon DEF Publish
  <2>b. /\ made \in Nat /\ lazy.pc \in [Callers -> CallerAt] /\ lazy.got \in [Callers -> Nat]
        /\ DOMAIN lazy = {"at", "cell", "lock", "made", "replaced", "pc", "got"}
    <3>1. LazyType
      OBVIOUS
    <3> HIDE DEF LazyInv
    <3>q. QED
      BY ONLY <3>1 DEF LazyType
  <2>1. \A d \in Callers : d # c /\ lazy.pc[d] = "creating" => freed = d
    OBVIOUS
  <2>2. CASE lazy' = [lazy EXCEPT !.pc[c] = "failed", !.lock = freed]
    <3> HIDE DEF freed
    <3>q. QED
      BY <2>1, <2>2
  <2>3. CASE lazy' = [lazy EXCEPT !.made = made, !.cell = made, !.got[c] = made,
                         !.pc[c] = "done", !.lock = freed, !.replaced = replaced]
    <3>1. ~replaced => \A d \in Callers : lazy.got[d] = 0 /\ (lazy.pc[d] = "creating" => d = c)
      BY <2>a
    <3> HIDE DEF freed, replaced, made
    <3>2. /\ lazy'.made = made /\ lazy'.cell = made /\ lazy'.lock = freed
          /\ lazy'.got = [lazy.got EXCEPT ![c] = made] /\ lazy'.pc = [lazy.pc EXCEPT ![c] = "done"]
          /\ DOMAIN lazy' = DOMAIN lazy
      BY <2>3
    <3>3. lazy'.replaced = replaced
      BY <2>3
    <3>q. QED
      <4>1. /\ LazyType' /\ \A d \in Callers : lazy'.pc[d] = "creating" => lazy'.lock = d
        <5> HIDE DEF LazyInv
        <5>0. lazy'.pc \in [Callers -> CallerAt]
          BY ONLY c \in Callers, <2>b, <3>2 DEF CallerAt
        <5>1. lazy'.pc \in [Callers -> CallerAt] /\ lazy'.got \in [Callers -> Nat]
          BY ONLY c \in Callers, <2>b, <3>2, <5>0
        <5>2. LazyType'
          BY <2>b, <3>2, <5>1
        <5>3. ASSUME NEW d \in Callers, lazy'.pc[d] = "creating" PROVE lazy'.lock = d
          <6>1. d # c /\ lazy.pc[d] = "creating"
            BY <2>b, <3>2, <5>3
          <6>q. QED
            BY <2>1, <3>2, <6>1
        <5>q. QED
          BY <5>2, <5>3
      <4>2. ASSUME ~lazy'.replaced, NEW d \in Callers
            PROVE  lazy'.got[d] \in {0, lazy'.cell} /\ lazy'.pc[d] # "creating"
        <5>1. ~replaced
          BY <3>3, <4>2, Zenon
        <5>q. QED
          BY <3>1, <3>2, <5>1
      <4>q. QED
        BY <4>1, <4>2
  <2>q. QED
    BY <1>6, <2>2, <2>3 DEF Publish
<1>7. CASE UNCHANGED vars
  BY <1>1, <1>7 DEF vars
<1>q. QED
  BY <1>2, <1>3, <1>4, <1>5, <1>6, <1>7 DEF Next

(* However many callers of a shared lazy handle race, fail or find the factory gone: those that
   got a value from get_or_create got the same one, unless create() replaced it meanwhile, for
   every registry, plan and scope chain (Lazy::get_or_create, Lazy::create). *)
THEOREM LazyCallersAgree == Spec => []LazyAgrees
<1>1. Init => LazyInv
  <2> SUFFICES ASSUME Init PROVE LazyInv
    OBVIOUS
  <2>1. /\ lazy.cell = 0 /\ lazy.made = 0 /\ lazy.pc = [c \in Callers |-> "idle"]
        /\ lazy.got = [c \in Callers |-> 0] /\ ~lazy.replaced
        /\ DOMAIN lazy = {"at", "cell", "lock", "made", "replaced", "pc", "got"}
    BY DEF Init, NoHandle
  <2>q. QED
    BY <2>1 DEF LazyInv, LazyType, CallerAt
<1>2. LazyInv => LazyAgrees
  BY DEF LazyInv, LazyAgrees, LazyType
<1>q. QED
  BY <1>1, <1>2, LazyStep, PTL DEF Spec

USE SocketAssumption

-----------------------------------------------------------------------------
(* SocketFile: the invariant.                                               *)

Phases == {"exists", "look", "create", "inspect", "chmod", "bind", "mode", "serving",
           "ensured", "refused", "dropped", "crashed"}

\* Past the walk.
Bound == {"bind", "mode", "serving", "ensured"}

Nodes == [kind : {"dir", "link", "file"}, owner : {"me", "root", "other"},
          writable : BOOLEAN, sticky : BOOLEAN]
ProcType == [pc : Phases, at : 1..Depth, created : BOOLEAN, goal : 1..Depth]

PathType ==
    /\ fsNodes \in [1..Depth -> {Missing} \cup Nodes] /\ DOMAIN fsFirst = 1..Depth
    /\ fsNodes[Depth] \in Targets
    /\ fsProc \in [Everyone -> ProcType]
    /\ fsSocket \in [by : Procs \cup {"nobody"}, private : BOOLEAN]

\* Where one process is on its way. What it has looked at stays there; what it has accepted
\* as its directory it can make private; and past that the directory is private.
WalkOK(p) ==
    LET proc == fsProc[p] IN
    /\ proc.at <= proc.goal
    /\ proc.pc = "inspect" => fsNodes[proc.at] # Missing
    /\ proc.pc = "chmod" => fsNodes[proc.goal] # Missing
    /\ proc.pc = "chmod" /\ proc.goal = Depth =>
            fsNodes[Depth] \in {PrivateDir, Entry("dir", "me", TRUE, FALSE)}
    /\ proc.pc \in Bound => fsNodes[Depth] = PrivateDir

\* Whoever has bound the socket and not yet gone owns it.
OwnerOK(p) ==
    /\ fsProc[p].pc \in {"exists", "bind", "mode", "serving"} => p \in Procs
    /\ fsProc[p].pc = "mode" => fsSocket = [by |-> p, private |-> FALSE]
    /\ fsProc[p].pc = "serving" => fsSocket = [by |-> p, private |-> TRUE]

\* A path with nothing to refuse stays one.
Harmless(nodes) == \A i \in 1..Depth : nodes[i] \in {Missing, PrivateDir}
CleanOK ==
    Harmless(fsFirst) =>
        Harmless(fsNodes) /\ \A p \in Ensurers : fsProc[p].pc # "refused"

SocketInv ==
    /\ PathType
    /\ \A p \in Everyone : WalkOK(p) /\ OwnerOK(p)
    /\ fsSocket # NoSocket => fsNodes[Depth] = PrivateDir
    /\ CleanOK

-----------------------------------------------------------------------------
(* SocketFile: the steps.                                                   *)

\* What a component can be, told apart.
LEMMA NodeFacts ==
    /\ Missing # PrivateDir /\ Missing # Entry("dir", "me", TRUE, FALSE)
    /\ Missing \notin Nodes /\ PrivateDir \in Nodes
    /\ PrivateDir.kind = "dir" /\ PrivateDir.owner = "me" /\ ~PrivateDir.writable
    /\ PrivateDir \in Targets
  BY DEF Missing, PrivateDir, Entry, Targets, Nodes

\* A target that is there and passes the checks is the user's own directory.
LEMMA Accepted ==
    ASSUME NEW node \in Targets, node # Missing, NEW created, ~Refused(node, TRUE, created)
    PROVE  node \in {PrivateDir, Entry("dir", "me", TRUE, FALSE)}
  BY DEF Targets, Refused, Missing, PrivateDir, Entry

\* Only process p moves.
Moves(p) ==
    /\ fsProc' \in [Everyone -> ProcType]
    /\ \A r \in Everyone \ {p} : fsProc'[r] = fsProc[r]

\* It keeps its place on the path.
LEMMA GoesEffect ==
    ASSUME PathType, NEW p \in Everyone, NEW phase \in Phases, Goes(p, phase)
    PROVE  /\ Moves(p) /\ fsProc'[p].pc = phase
           /\ fsProc'[p].at = fsProc[p].at /\ fsProc'[p].goal = fsProc[p].goal
<1> DEFINE r == [fsProc[p] EXCEPT !.pc = phase]
<1>1. fsProc' = [fsProc EXCEPT ![p] = r]
  BY DEF Goes
<1>2. fsProc \in [Everyone -> ProcType] /\ fsProc[p] \in ProcType
  BY DEF PathType
<1>3. r \in ProcType /\ r.pc = phase /\ r.at = fsProc[p].at /\ r.goal = fsProc[p].goal
  BY <1>2 DEF ProcType
<1> HIDE DEF r
<1>q. QED
  BY <1>1, <1>2, <1>3 DEF Moves

\* It begins a walk, or goes on to the next component.
LEMMA WalkEffect ==
    ASSUME PathType, NEW p \in Everyone, NEW proc \in ProcType, fsProc' = [fsProc EXCEPT ![p] = proc]
    PROVE  Moves(p) /\ fsProc'[p] = proc
  BY DEF PathType, Moves

\* A process at the beginning of a walk.
LEMMA AtFields ==
    ASSUME NEW phase \in Phases, NEW goal \in 1..Depth
    PROVE  /\ At(phase, goal) \in ProcType
           /\ At(phase, goal).pc = phase /\ At(phase, goal).at = 1 /\ At(phase, goal).goal = goal
<1>1. 1 \in 1..Depth
  OBVIOUS
<1>q. QED
  BY <1>1 DEF At, ProcType

\* A process at component n of its walk.
LEMMA NextFields ==
    ASSUME NEW goal \in 1..Depth, NEW n \in 1..Depth
    PROVE  LET proc == [At("look", goal) EXCEPT !.at = n]
           IN  proc \in ProcType /\ proc.pc = "look" /\ proc.at = n /\ proc.goal = goal
  BY DEF At, ProcType, Phases

\* A step of one process that leaves the path and the socket alone.
LEMMA ProcMoves ==
    ASSUME SocketInv, UNCHANGED <<fsNodes, fsFirst, fsSocket>>, NEW p \in Everyone, Moves(p),
           (WalkOK(p) /\ OwnerOK(p))',
           fsProc'[p].pc = "refused" => p \in Procs \/ ~Harmless(fsFirst)
    PROVE  SocketInv'
<1>1. ASSUME NEW r \in Everyone PROVE WalkOK(r)' /\ OwnerOK(r)'
  BY DEF SocketInv, WalkOK, OwnerOK, Moves
<1>2. CleanOK'
  BY DEF SocketInv, CleanOK, Harmless, Everyone, Moves
<1>q. QED
  BY <1>1, <1>2 DEF SocketInv, PathType, Moves

\* The steps that only look.
LEMMA LookSteps ==
    ASSUME SocketInv, NEW p \in Everyone,
           ensure_path(p) \/ Look(p) \/ Inspect(p) \/ Crash(p) \/ Restart(p)
    PROVE  SocketInv'
<1>1. /\ PathType /\ WalkOK(p) /\ OwnerOK(p)
      /\ fsProc[p].at \in 1..Depth /\ fsProc[p].goal \in 1..Depth
      /\ DOMAIN fsNodes = 1..Depth /\ fsNodes[Depth] \in Targets
  BY DEF SocketInv, PathType, ProcType
<1>2. UNCHANGED <<fsNodes, fsFirst, fsSocket>>
  BY DEF ensure_path, Look, Inspect, Crash, Restart
<1>3. CASE ensure_path(p)
  <2>1. PICK phase \in {"look", "bind"} :
            Goes(p, phase) /\ (phase = "bind" => fsNodes[Depth] = PrivateDir)
    BY <1>3 DEF ensure_path, SocketInv
  <2>2. /\ Moves(p) /\ fsProc'[p].pc = phase
        /\ fsProc'[p].at = fsProc[p].at /\ fsProc'[p].goal = fsProc[p].goal
    BY <1>1, <2>1, GoesEffect DEF Phases
  <2>3. (WalkOK(p) /\ OwnerOK(p))'
    BY <1>1, <1>2, <1>3, <2>1, <2>2 DEF WalkOK, OwnerOK, Bound, ensure_path
  <2>q. QED
    BY <1>2, <2>1, <2>2, <2>3, ProcMoves
<1>4. CASE Look(p)
  <2>1. PICK phase \in {"create", "inspect"} :
            Goes(p, phase) /\ (phase = "inspect" => fsNodes[fsProc[p].at] # Missing)
    BY <1>4 DEF Look
  <2>2. /\ Moves(p) /\ fsProc'[p].pc = phase
        /\ fsProc'[p].at = fsProc[p].at /\ fsProc'[p].goal = fsProc[p].goal
    BY <1>1, <2>1, GoesEffect DEF Phases
  <2>3. (WalkOK(p) /\ OwnerOK(p))'
    BY <1>1, <1>2, <2>1, <2>2 DEF WalkOK, OwnerOK, Bound
  <2>q. QED
    BY <1>2, <2>1, <2>2, <2>3, ProcMoves
<1>5. CASE Inspect(p)
  <2> DEFINE at == fsProc[p].at
             goal == fsProc[p].goal
             refused == Refused(fsNodes[at], at = goal, fsProc[p].created)
  <2>1. at \in 1..Depth /\ goal \in 1..Depth /\ at <= goal /\ fsNodes[at] # Missing
    BY <1>1, <1>5 DEF Inspect, WalkOK
  <2>2. CASE refused
    <3>1. fsNodes[at] # PrivateDir
      BY <2>2, NodeFacts DEF Refused
    <3>2. ~Harmless(fsFirst)
      BY <2>1, <3>1 DEF Harmless, SocketInv, CleanOK
    <3>3. Goes(p, "refused")
      BY <1>5, <2>2 DEF Inspect
    <3>4. Moves(p) /\ fsProc'[p].pc = "refused" /\ fsProc'[p].at = at /\ fsProc'[p].goal = goal
      BY <1>1, <3>3, GoesEffect DEF Phases
    <3>5. (WalkOK(p) /\ OwnerOK(p))'
      BY <1>1, <3>4 DEF WalkOK, OwnerOK, Bound
    <3>q. QED
      BY <1>2, <3>2, <3>4, <3>5, ProcMoves
  <2>3. CASE ~refused /\ at < goal
    <3> DEFINE next == [At("look", goal) EXCEPT !.at = at + 1]
    <3>1. fsProc' = [fsProc EXCEPT ![p] = next]
      BY <1>5, <2>3 DEF Inspect
    <3>2. at + 1 \in 1..Depth /\ at + 1 <= goal
      BY <2>1, <2>3
    <3>3. next \in ProcType /\ next.pc = "look" /\ next.at = at + 1 /\ next.goal = goal
      BY <2>1, <3>2, NextFields
    <3> HIDE DEF next
    <3>4. Moves(p) /\ fsProc'[p] = next
      BY <1>1, <3>1, <3>3, WalkEffect
    <3>5. (WalkOK(p) /\ OwnerOK(p))'
      BY <3>2, <3>3, <3>4 DEF WalkOK, OwnerOK, Bound
    <3>q. QED
      BY <1>2, <3>3, <3>4, <3>5, ProcMoves
  <2>4. CASE ~refused /\ at = goal
    <3>1. goal = Depth => fsNodes[Depth] \in {PrivateDir, Entry("dir", "me", TRUE, FALSE)}
      BY <1>1, <2>1, <2>4, Accepted
    <3>2. Goes(p, "chmod")
      BY <1>5, <2>1, <2>4 DEF Inspect
    <3>3. Moves(p) /\ fsProc'[p].pc = "chmod" /\ fsProc'[p].at = at /\ fsProc'[p].goal = goal
      BY <1>1, <3>2, GoesEffect DEF Phases
    <3>4. (WalkOK(p) /\ OwnerOK(p))'
      BY <1>1, <1>2, <2>1, <2>4, <3>1, <3>3 DEF WalkOK, OwnerOK, Bound
    <3>q. QED
      BY <1>2, <3>3, <3>4, ProcMoves
  <2>q. QED
    BY <2>1, <2>2, <2>3, <2>4
<1>6. CASE Crash(p)
  <2>1. /\ Moves(p) /\ fsProc'[p].pc = "crashed"
        /\ fsProc'[p].at = fsProc[p].at /\ fsProc'[p].goal = fsProc[p].goal
    BY <1>1, <1>6, GoesEffect DEF Crash, Phases
  <2>2. (WalkOK(p) /\ OwnerOK(p))'
    BY <1>1, <2>1 DEF WalkOK, OwnerOK, Bound
  <2>q. QED
    BY <1>2, <2>1, <2>2, ProcMoves
<1>7. CASE Restart(p)
  <2> DEFINE first == At("exists", Depth)
  <2>1. Depth \in 1..Depth /\ 1 <= Depth
    OBVIOUS
  <2>2. fsProc' = [fsProc EXCEPT ![p] = first] /\ p \in Procs
    BY <1>7 DEF Restart
  <2>3. first \in ProcType /\ first.pc = "exists" /\ first.at = 1 /\ first.goal = Depth
    BY <2>1, AtFields DEF Phases
  <2> HIDE DEF first
  <2>4. Moves(p) /\ fsProc'[p] = first
    BY <1>1, <2>2, <2>3, WalkEffect
  <2>5. (WalkOK(p) /\ OwnerOK(p))'
    BY <2>1, <2>2, <2>3, <2>4 DEF WalkOK, OwnerOK, Bound
  <2>q. QED
    BY <1>2, <2>3, <2>4, <2>5, ProcMoves
<1>q. QED
  BY <1>3, <1>4, <1>5, <1>6, <1>7

\* A component is created, or made private: a component that is there stays there, and a
\* private directory stays one.
LEMMA PathChanges ==
    ASSUME SocketInv, UNCHANGED <<fsFirst, fsSocket>>, NEW p \in Everyone, Moves(p),
           (WalkOK(p) /\ OwnerOK(p))', fsProc'[p].pc # "refused",
           fsNodes' \in [1..Depth -> {Missing} \cup Nodes], fsNodes'[Depth] \in Targets,
           \A i \in 1..Depth : fsNodes[i] # Missing => fsNodes'[i] # Missing,
           \A i \in 1..Depth : fsNodes[i] = PrivateDir => fsNodes'[i] = PrivateDir,
           \A i \in 1..Depth : fsNodes[i] = Missing => fsNodes'[i] \in {Missing, PrivateDir},
           fsNodes'[Depth] \in {fsNodes[Depth], PrivateDir}
    PROVE  SocketInv'
<1>1. ASSUME NEW r \in Everyone PROVE WalkOK(r)' /\ OwnerOK(r)'
  <2>1. CASE r # p
    <3>1. /\ WalkOK(r) /\ OwnerOK(r) /\ fsProc'[r] = fsProc[r]
          /\ fsProc[r].at \in 1..Depth /\ fsProc[r].goal \in 1..Depth /\ Depth \in 1..Depth
      BY <2>1 DEF SocketInv, Moves, PathType, ProcType
    <3>q. QED
      BY <3>1 DEF WalkOK, OwnerOK
  <2>q. QED
    BY <2>1
<1>2. CleanOK'
  BY DEF SocketInv, CleanOK, Harmless, Everyone, Moves
<1>3. fsSocket' # NoSocket => fsNodes'[Depth] = PrivateDir
  <2>1. Depth \in 1..Depth
    OBVIOUS
  <2>q. QED
    BY <2>1 DEF SocketInv
<1>q. QED
  BY <1>1, <1>2, <1>3 DEF SocketInv, PathType, Moves, NoSocket

\* create_dir: the one that loses the race goes on with what the other made.
LEMMA CreateStep ==
    ASSUME SocketInv, NEW p \in Everyone, CreateDir(p)
    PROVE  SocketInv'
<1> DEFINE at == fsProc[p].at
<1>1. /\ PathType /\ WalkOK(p) /\ OwnerOK(p) /\ DOMAIN fsNodes = 1..Depth
      /\ at \in 1..Depth /\ fsProc[p].goal \in 1..Depth /\ Depth \in 1..Depth
      /\ fsNodes[Depth] \in Targets
  BY DEF SocketInv, PathType, ProcType
<1>2. CASE fsNodes[at] = Missing
  <2> DEFINE proc == [fsProc[p] EXCEPT !.pc = "inspect", !.created = TRUE]
  <2>1. /\ fsNodes' = [fsNodes EXCEPT ![at] = PrivateDir]
        /\ fsProc' = [fsProc EXCEPT ![p] = proc] /\ UNCHANGED <<fsFirst, fsSocket>>
    BY <1>2 DEF CreateDir
  <2>2. /\ proc \in ProcType /\ proc.pc = "inspect"
        /\ proc.at = at /\ proc.goal = fsProc[p].goal
    <3>1. fsProc[p] \in ProcType
      BY <1>1 DEF PathType
    <3>q. QED
      BY <3>1 DEF ProcType, Phases
  <2> HIDE DEF proc
  <2>3. Moves(p) /\ fsProc'[p] = proc
    BY <1>1, <2>1, <2>2, WalkEffect
  <2>4. /\ fsNodes' \in [1..Depth -> {Missing} \cup Nodes] /\ fsNodes'[at] = PrivateDir
        /\ \A i \in 1..Depth : i # at => fsNodes'[i] = fsNodes[i]
    BY <1>1, <2>1, NodeFacts DEF PathType
  <2>5. (WalkOK(p) /\ OwnerOK(p))'
    BY <1>1, <2>2, <2>3, <2>4, NodeFacts DEF WalkOK, OwnerOK, Bound
  <2>q. QED
    BY <1>1, <1>2, <2>1, <2>2, <2>3, <2>4, <2>5, NodeFacts, PathChanges
<1>3. CASE fsNodes[at] # Missing
  <2>1. Goes(p, "inspect") /\ UNCHANGED <<fsNodes, fsFirst, fsSocket>>
    BY <1>3 DEF CreateDir, AfterLostRace
  <2>2. Moves(p) /\ fsProc'[p].pc = "inspect" /\ fsProc'[p].at = at /\ fsProc'[p].goal = fsProc[p].goal
    BY <1>1, <2>1, GoesEffect DEF Phases
  <2>3. (WalkOK(p) /\ OwnerOK(p))'
    BY <1>1, <1>3, <2>1, <2>2 DEF WalkOK, OwnerOK, Bound
  <2>q. QED
    BY <2>1, <2>2, <2>3, ProcMoves
<1>q. QED
  BY <1>2, <1>3

\* A record is its fields.
LEMMA NodeFields ==
    ASSUME NEW node \in Nodes
    PROVE  node = [kind |-> node.kind, owner |-> node.owner, writable |-> node.writable,
                   sticky |-> node.sticky]
  BY DEF Nodes

\* So is a socket.
LEMMA SocketFields ==
    ASSUME NEW S, NEW socket \in [by : S, private : BOOLEAN]
    PROVE  socket = [by |-> socket.by, private |-> socket.private]
  OBVIOUS

\* What chmod makes of a component that is there, and of the user's own directory.
LEMMA Chmodded ==
    ASSUME NEW node \in Nodes
    PROVE  /\ [node EXCEPT !.writable = FALSE] \in Nodes
           /\ node \in {PrivateDir, Entry("dir", "me", TRUE, FALSE)} =>
                    [node EXCEPT !.writable = FALSE] = PrivateDir
<1> DEFINE made == [node EXCEPT !.writable = FALSE]
<1>1. /\ made \in Nodes /\ ~made.writable
      /\ made.kind = node.kind /\ made.owner = node.owner /\ made.sticky = node.sticky
  BY DEF Nodes
<1>2. ASSUME node \in {PrivateDir, Entry("dir", "me", TRUE, FALSE)}
      PROVE  node.kind = "dir" /\ node.owner = "me" /\ ~node.sticky
  BY <1>2 DEF PrivateDir, Entry
<1>3. /\ PrivateDir \in Nodes /\ PrivateDir.kind = "dir" /\ PrivateDir.owner = "me"
      /\ ~PrivateDir.sticky /\ ~PrivateDir.writable
  BY DEF PrivateDir, Entry, Nodes
<1> HIDE DEF made
<1>4. node \in {PrivateDir, Entry("dir", "me", TRUE, FALSE)} => made = PrivateDir
  <2>1. made = [kind |-> made.kind, owner |-> made.owner, writable |-> made.writable,
                sticky |-> made.sticky]
    BY <1>1, NodeFields
  <2>2. made.writable = FALSE /\ made.sticky \in BOOLEAN
    BY <1>1 DEF Nodes
  <2>q. QED
    BY <1>1, <1>2, <2>1, <2>2 DEF PrivateDir, Entry
<1>q. QED
  BY <1>1, <1>4 DEF made

\* set_permissions: the walk's goal is made private.
LEMMA ChmodStep ==
    ASSUME SocketInv, NEW p \in Everyone, ChmodDirectory(p)
    PROVE  SocketInv'
<1> DEFINE goal == fsProc[p].goal
           node == [fsNodes[goal] EXCEPT !.writable = FALSE]
<1>1. /\ PathType /\ WalkOK(p) /\ OwnerOK(p) /\ fsNodes \in [1..Depth -> {Missing} \cup Nodes]
      /\ goal \in 1..Depth /\ Depth \in 1..Depth /\ fsNodes[Depth] \in Targets
      /\ fsProc[p].at \in 1..Depth
  BY DEF SocketInv, PathType, ProcType
<1>2. /\ fsNodes' = [fsNodes EXCEPT ![goal] = node] /\ UNCHANGED <<fsFirst, fsSocket>>
      /\ fsProc[p].pc = "chmod" /\ fsNodes[goal] # Missing
  BY <1>1 DEF ChmodDirectory, WalkOK
<1>3. fsNodes[goal] \in Nodes
  BY <1>1, <1>2
<1>4. /\ node \in Nodes
      /\ fsNodes[goal] = PrivateDir => node = PrivateDir
      /\ goal = Depth => node = PrivateDir
  BY <1>1, <1>2, <1>3, Chmodded DEF WalkOK
<1> HIDE DEF node
<1>5. /\ fsNodes' \in [1..Depth -> {Missing} \cup Nodes] /\ fsNodes'[goal] = node
      /\ \A i \in 1..Depth : i # goal => fsNodes'[i] = fsNodes[i]
  BY <1>1, <1>2, <1>4
<1>6. /\ fsNodes'[Depth] \in {fsNodes[Depth], PrivateDir} /\ fsNodes'[Depth] \in Targets
      /\ \A i \in 1..Depth : fsNodes[i] # Missing => fsNodes'[i] # Missing
      /\ \A i \in 1..Depth : fsNodes[i] = PrivateDir => fsNodes'[i] = PrivateDir
      /\ \A i \in 1..Depth : fsNodes[i] = Missing => fsNodes'[i] \in {Missing, PrivateDir}
  BY <1>1, <1>2, <1>4, <1>5, NodeFacts
<1>7. CASE goal < Depth
  <2> DEFINE first == At("look", Depth)
  <2>1. fsProc' = [fsProc EXCEPT ![p] = first]
    BY <1>7 DEF ChmodDirectory
  <2>2. first \in ProcType /\ first.pc = "look" /\ first.at = 1 /\ first.goal = Depth
    BY <1>1, AtFields DEF Phases
  <2> HIDE DEF first
  <2>3. Moves(p) /\ fsProc'[p] = first
    BY <1>1, <2>1, <2>2, WalkEffect
  <2>4. 1 <= Depth
    OBVIOUS
  <2>5. (WalkOK(p) /\ OwnerOK(p))'
    BY <2>2, <2>3, <2>4 DEF WalkOK, OwnerOK, Bound
  <2>q. QED
    BY <1>2, <1>5, <1>6, <2>2, <2>3, <2>5, PathChanges
<1>8. CASE goal = Depth
  <2>1. PICK phase \in {"bind", "ensured"} : Goes(p, phase) /\ (phase = "bind" => p \in Procs)
    BY <1>1, <1>8 DEF ChmodDirectory
  <2>2. /\ Moves(p) /\ fsProc'[p].pc = phase
        /\ fsProc'[p].at = fsProc[p].at /\ fsProc'[p].goal = goal
    BY <1>1, <2>1, GoesEffect DEF Phases
  <2>3. (WalkOK(p) /\ OwnerOK(p))'
    BY <1>1, <1>4, <1>5, <1>8, <2>1, <2>2 DEF WalkOK, OwnerOK, Bound
  <2>q. QED
    BY <1>2, <1>5, <1>6, <2>1, <2>2, <2>3, PathChanges
<1>q. QED
  BY <1>1, <1>7, <1>8

\* The socket changes hands only while nobody but p has it.
LEMMA SocketChanges ==
    ASSUME SocketInv, UNCHANGED <<fsNodes, fsFirst>>, NEW p \in Procs, Moves(p),
           (WalkOK(p) /\ OwnerOK(p))', fsSocket.by \in {p, "nobody"},
           fsSocket' \in [by : Procs \cup {"nobody"}, private : BOOLEAN],
           fsNodes[Depth] = PrivateDir
    PROVE  SocketInv'
<1>1. ASSUME NEW r \in Everyone PROVE WalkOK(r)' /\ OwnerOK(r)'
  <2>1. CASE r # p
    <3>1. WalkOK(r) /\ OwnerOK(r) /\ fsProc'[r] = fsProc[r]
      BY <2>1 DEF SocketInv, Moves
    <3>2. fsProc[r].pc \notin {"mode", "serving"}
      BY <2>1, <3>1 DEF OwnerOK
    <3>q. QED
      BY <3>1, <3>2 DEF WalkOK, OwnerOK
  <2>q. QED
    BY <2>1
<1>2. CleanOK'
  BY DEF SocketInv, CleanOK, Harmless, Everyone, Moves
<1>q. QED
  BY <1>1, <1>2 DEF SocketInv, PathType, Moves

\* bind, the socket's mode, and the removal by its owner.
LEMMA SocketSteps ==
    ASSUME SocketInv, NEW p \in Everyone, Bind(p) \/ ChmodSocket(p) \/ DropTransport(p)
    PROVE  SocketInv'
<1>1. /\ PathType /\ WalkOK(p) /\ OwnerOK(p)
      /\ fsSocket \in [by : Procs \cup {"nobody"}, private : BOOLEAN]
      /\ fsProc[p].pc \in {"bind", "mode", "serving"} /\ p \in Procs
      /\ UNCHANGED <<fsNodes, fsFirst>> /\ fsNodes[Depth] = PrivateDir
  BY DEF SocketInv, PathType, OwnerOK, WalkOK, Bound, Bind, ChmodSocket, DropTransport
<1>2. NoSocket.by = "nobody" /\ NoSocket \in [by : Procs \cup {"nobody"}, private : BOOLEAN]
  BY DEF NoSocket
<1>3. CASE Bind(p) /\ fsSocket = NoSocket
  <2>1. Goes(p, "mode") /\ fsSocket' = [by |-> p, private |-> FALSE]
    BY <1>1, <1>3, NodeFacts DEF Bind
  <2>2. /\ Moves(p) /\ fsProc'[p].pc = "mode"
        /\ fsProc'[p].at = fsProc[p].at /\ fsProc'[p].goal = fsProc[p].goal
    BY <1>1, <2>1, GoesEffect DEF Phases
  <2>3. (WalkOK(p) /\ OwnerOK(p))'
    BY <1>1, <2>1, <2>2 DEF WalkOK, OwnerOK, Bound
  <2>4. fsSocket' \in [by : Procs \cup {"nobody"}, private : BOOLEAN]
    BY <1>1, <2>1
  <2>q. QED
    BY <1>1, <1>2, <1>3, <2>2, <2>3, <2>4, SocketChanges
<1>4. CASE Bind(p) /\ fsSocket # NoSocket
  <2>1. Goes(p, "refused") /\ fsSocket' = fsSocket
    BY <1>4 DEF Bind, AfterFailedBind
  <2>2. /\ Moves(p) /\ fsProc'[p].pc = "refused"
        /\ fsProc'[p].at = fsProc[p].at /\ fsProc'[p].goal = fsProc[p].goal
    BY <1>1, <2>1, GoesEffect DEF Phases
  <2>3. (WalkOK(p) /\ OwnerOK(p))'
    BY <1>1, <2>2 DEF WalkOK, OwnerOK, Bound
  <2>q. QED
    BY <1>1, <2>1, <2>2, <2>3, ProcMoves
<1>5. CASE ChmodSocket(p) \/ DropTransport(p)
  <2>1. fsSocket.by = p /\ fsProc[p].pc \in {"mode", "serving"}
    BY <1>1, <1>5 DEF OwnerOK, ChmodSocket, DropTransport
  <2>2. PICK phase \in {"serving", "refused", "dropped"} :
            /\ Goes(p, phase)
            /\ phase = "serving" => fsSocket' = [by |-> p, private |-> TRUE]
            /\ phase # "serving" => fsSocket' = NoSocket
    <3>1. CASE ChmodSocket(p)
      <4>1. fsSocket = [by |-> p, private |-> FALSE]
        BY <1>1, <3>1 DEF ChmodSocket, OwnerOK
      <4> DEFINE private == [fsSocket EXCEPT !.private = TRUE]
      <4>2. private \in [by : {p}, private : BOOLEAN] /\ private.by = p /\ private.private = TRUE
        BY <4>1
      <4> HIDE DEF private
      <4>3. private = [by |-> p, private |-> TRUE]
        BY <4>2, SocketFields
      <4>q. QED
        BY <3>1, <4>3 DEF ChmodSocket, private
    <3>2. CASE DropTransport(p)
      BY <3>2 DEF DropTransport
    <3>q. QED
      BY <1>5, <3>1, <3>2
  <2>3. /\ Moves(p) /\ fsProc'[p].pc = phase
        /\ fsProc'[p].at = fsProc[p].at /\ fsProc'[p].goal = fsProc[p].goal
    BY <1>1, <2>2, GoesEffect DEF Phases
  <2>4. (WalkOK(p) /\ OwnerOK(p))'
    BY <1>1, <2>2, <2>3 DEF WalkOK, OwnerOK, Bound
  <2>5. fsSocket' \in [by : Procs \cup {"nobody"}, private : BOOLEAN]
    <3>1. [by |-> p, private |-> TRUE] \in [by : Procs \cup {"nobody"}, private : BOOLEAN]
      BY <1>1
    <3>q. QED
      BY <1>2, <2>2, <3>1
  <2>q. QED
    BY <1>1, <2>1, <2>3, <2>4, <2>5, SocketChanges
<1>q. QED
  BY <1>3, <1>4, <1>5

\* Every step keeps the invariant.
LEMMA SocketStep ==
    ASSUME SocketInv, [SocketNext]_fsVars
    PROVE  SocketInv'
<1>1. CASE UNCHANGED fsVars
  BY <1>1 DEF fsVars, SocketInv, PathType, WalkOK, OwnerOK, CleanOK, Harmless
<1>q. QED
  BY <1>1, LookSteps, CreateStep, ChmodStep, SocketSteps DEF SocketNext

\* For any number of processes and any depth of the path, starts, failed starts, drops,
\* crashes and restarts do not get in each other's way: whoever serves has its own private
\* socket in a private directory, whoever has ensured the directory finds it private, and
\* on a path with nothing to refuse nobody is refused for losing a race to create it
\* (ensure_private_directory, bind_with_config, Drop for UnixTransport).
THEOREM StartsNeverCollide == SocketSpec => []StartsDoNotCollide
<1>1. SocketInit => SocketInv
  <2> SUFFICES ASSUME SocketInit PROVE SocketInv
    OBVIOUS
  <2>1. \A node \in Targets \cup Ancestors : node \in {Missing} \cup Nodes
    <3>1. PathEntries \subseteq Nodes
      BY DEF PathEntries, Entry, Nodes
    <3>2. Targets \subseteq {Missing} \cup Nodes
      BY DEF Targets, Entry, PrivateDir, Nodes
    <3>q. QED
      BY <3>1, <3>2
  <2>2. /\ fsNodes \in [1..Depth -> Ancestors \cup Targets] /\ fsFirst = fsNodes
        /\ Depth \in 1..Depth /\ fsNodes[Depth] \in Targets
    BY DEF SocketInit
  <2>3. fsNodes \in [1..Depth -> {Missing} \cup Nodes]
    BY <2>1, <2>2
  <2>4. FirstGoal \in 1..Depth
    BY DEF FirstGoal
  <2>5. /\ \A p \in Procs : fsProc[p] = At("exists", Depth)
        /\ \A p \in Ensurers : fsProc[p] = At("look", FirstGoal)
        /\ DOMAIN fsProc = Everyone /\ fsSocket = NoSocket
    BY DEF SocketInit, Everyone
  <2>6. ASSUME NEW p \in Everyone
        PROVE  /\ fsProc[p] \in ProcType /\ fsProc[p].at = 1 /\ fsProc[p].goal \in 1..Depth
               /\ fsProc[p].pc \in {"exists", "look"}
               /\ fsProc[p].pc = "exists" => p \in Procs
    <3>1. CASE p \in Procs
      BY <2>2, <2>5, <3>1, AtFields DEF Phases
    <3>2. CASE p \in Ensurers
      BY <2>4, <2>5, <3>2, AtFields DEF Phases
    <3>q. QED
      BY <3>1, <3>2 DEF Everyone
  <2>7. fsProc \in [Everyone -> ProcType]
    BY <2>5, <2>6 DEF SocketInit
  <2>8. \A p \in Everyone : WalkOK(p) /\ OwnerOK(p)
    <3>1. \A n \in 1..Depth : 1 <= n
      OBVIOUS
    <3>q. QED
      BY <2>6, <3>1 DEF WalkOK, OwnerOK, Bound
  <2>9. CleanOK
    BY <2>2, <2>6 DEF CleanOK, Everyone
  <2>q. QED
    BY <2>2, <2>3, <2>5, <2>7, <2>8, <2>9 DEF SocketInv, PathType, NoSocket
<1>2. SocketInv => StartsDoNotCollide
  BY DEF SocketInv, PathType, WalkOK, OwnerOK, CleanOK, Harmless, StartsDoNotCollide, Everyone, Bound
<1>q. QED
  BY <1>1, <1>2, SocketStep, PTL DEF SocketSpec
-----------------------------------------------------------------------------
(* JobScheduler: the invariant.                                             *)

Endings == Outcomes \cup {"Running", "Skipped"}
Loops == {"driving", "done", "gone"}
Summaries == [run : Nat, outcome : Endings]
Schedules == {Unparsed} \cup [kind : STRING, value : STRING]
EntryType ==
    [schedule : Schedules, static : BOOLEAN, overlap : STRING,
     limits : SUBSET Nat, holds : STRING, cancelled : BOOLEAN, loop : Loops, active : Int,
     runCount : Nat, failures : Nat, skipped : Nat, last : Seq(Summaries), recent : Seq(Summaries)]
RunType ==
    [job : Nat, phase : {"jitter", "body", "panicked", "recorded", "over"},
     outcome : Endings, root : BOOLEAN]

\* What the registry, the runs and the order of their starts are.
SchedulerType ==
    /\ schStatics \in Seq(JobDescriptors)
    /\ schJobs \in Seq(EntryType) /\ schRuns \in Seq(RunType)
    /\ schBegun \in Seq(Seq(Nat)) /\ Len(schBegun) = Len(schJobs)

\* A run belongs to a job and its outcome is known once it is recorded.
RunOK(run, jobs) ==
    /\ run.job \in 1..Len(jobs)
    /\ run.phase \in {"jitter", "body"} => run.outcome = "Running"

\* Only runs of job j began as runs of job j.
BegunOK(begun, runs, j) ==
    \A i \in 1..Len(begun) : begun[i] \in 1..Len(runs) /\ runs[begun[i]].job = j

\* The history of an entry, of whose job the runs begun have started.
RecentOK(e, begun, runs) ==
    /\ Len(e.recent) <= RecentCap /\ Len(e.recent) <= Len(begun)
    /\ Len(e.recent) = RecentCap \/ Len(e.recent) = Len(begun)
    /\ \A i \in 1..Len(e.recent) :
          LET r == begun[Len(begun) - Len(e.recent) + i]
          IN  e.recent[i] = Summary(r, runs[r].outcome)
LastOK(e, begun, runs) ==
    IF Len(begun) = 0 THEN e.last = <<>>
    ELSE e.last = <<Summary(begun[Len(begun)], runs[begun[Len(begun)]].outcome)>>

\* Its counters.
Ended(runs, j) ==
    {r \in 1..Len(runs) : runs[r].job = j /\ runs[r].outcome \notin {"Running", "Skipped"}}
Busy(runs, j) == {r \in 1..Len(runs) : runs[r].job = j /\ runs[r].phase # "over"}
CountsOK(e, runs, j) ==
    e.runCount = Cardinality(Ended(runs, j)) /\ e.active = Cardinality(Busy(runs, j))

EntryOK(e, begun, runs, j) ==
    BegunOK(begun, runs, j) /\ RecentOK(e, begun, runs) /\ LastOK(e, begun, runs)
    /\ CountsOK(e, runs, j)

SchedulerInv ==
    /\ SchedulerType
    /\ \A r \in 1..Len(schRuns) : RunOK(schRuns[r], schJobs)
    /\ \A j \in 1..Len(schJobs) : EntryOK(schJobs[j], schBegun[j], schRuns, j)

-----------------------------------------------------------------------------
HIDE SocketAssumption
USE SchedulerAssumption

\* The smaller and the larger of two numbers.
LEMMA SmallerOf ==
    ASSUME NEW a \in Nat, NEW b \in Nat
    PROVE  Min({a, b}) = IF a <= b THEN a ELSE b
<1>1. \E x \in {a, b} : \A y \in {a, b} : x <= y
  OBVIOUS
<1>2. Min({a, b}) \in {a, b} /\ \A y \in {a, b} : Min({a, b}) <= y
  BY <1>1 DEF Min
<1> DEFINE m == Min({a, b})
<1>3. m \in {a, b} /\ m <= a /\ m <= b
  BY <1>2
<1> HIDE DEF m
<1>4. m = IF a <= b THEN a ELSE b
  BY <1>3
<1>q. QED
  BY <1>4 DEF m

\* The larger of two numbers.
LEMMA LargerOf ==
    ASSUME NEW a \in Int, NEW b \in Int
    PROVE  Max({a, b}) = IF a >= b THEN a ELSE b
<1>1. \E x \in {a, b} : \A y \in {a, b} : x >= y
  OBVIOUS
<1>2. Max({a, b}) \in {a, b} /\ \A y \in {a, b} : Max({a, b}) >= y
  BY <1>1 DEF Max
<1> DEFINE m == Max({a, b})
<1>3. m \in {a, b} /\ m >= a /\ m >= b
  BY <1>2
<1> HIDE DEF m
<1>4. m = IF a >= b THEN a ELSE b
  BY <1>3
<1>q. QED
  BY <1>4 DEF m

\* The newest RecentCap of a sequence.
LEMMA CappedIs ==
    ASSUME NEW s \in Seq(Summaries)
    PROVE  /\ Capped(s) \in Seq(Summaries)
           /\ Len(Capped(s)) = IF Len(s) <= RecentCap THEN Len(s) ELSE RecentCap
           /\ \A i \in 1..Len(Capped(s)) : Capped(s)[i] = s[Len(s) - Len(Capped(s)) + i]
<1> DEFINE m == IF Len(s) <= RecentCap THEN 1 ELSE Len(s) - RecentCap + 1
<1>1. Max({1, Len(s) - RecentCap + 1}) = m
  BY LargerOf
<1>2. Capped(s) = SubSeq(s, m, Len(s))
  BY <1>1 DEF Capped
<1>3. m \in 1..(Len(s) + 1)
  OBVIOUS
<1>4. /\ Capped(s) \in Seq(Summaries) /\ Len(Capped(s)) = Len(s) - m + 1
      /\ \A i \in 1..(Len(s) - m + 1) : Capped(s)[i] = s[m + i - 1]
  <2> HIDE DEF m
  <2>q. QED
    BY <1>2, <1>3, SubSeqProperties
<1>5. Len(Capped(s)) = IF Len(s) <= RecentCap THEN Len(s) ELSE RecentCap
  BY <1>4
<1>6. ASSUME NEW i \in 1..Len(Capped(s)) PROVE Capped(s)[i] = s[Len(s) - Len(Capped(s)) + i]
  <2>1. m + i - 1 = Len(s) - Len(Capped(s)) + i
    BY <1>3, <1>4
  <2>q. QED
    BY <1>4, <2>1
<1>q. QED
  BY <1>4, <1>5, <1>6

\* What is known of one job.
LEMMA JobFacts ==
    ASSUME SchedulerInv, NEW j \in 1..Len(schJobs)
    PROVE  /\ schJobs[j] \in EntryType /\ schBegun[j] \in Seq(Nat)
           /\ schJobs[j].recent \in Seq(Summaries) /\ schJobs[j].last \in Seq(Summaries)
           /\ schJobs[j].active \in Int /\ schJobs[j].runCount \in Nat
           /\ EntryOK(schJobs[j], schBegun[j], schRuns, j)
<1>1. schJobs[j] \in EntryType /\ schBegun[j] \in Seq(Nat) /\ EntryOK(schJobs[j], schBegun[j], schRuns, j)
  BY DEF SchedulerInv, SchedulerType
<1>q. QED
  BY <1>1 DEF EntryType

\* What the invariant says is the property.
LEMMA HistoryFollows == SchedulerInv => HistoryAgrees
<1> SUFFICES ASSUME SchedulerInv, NEW j \in JobIds
             PROVE  LET begun == schBegun[j]
                        kept == Min({RecentCap, Len(begun)})
                    IN /\ schJobs[j].recent = [i \in 1..kept |-> Shown(begun[Len(begun) - kept + i])]
                       /\ schJobs[j].last = IF begun = <<>> THEN <<>> ELSE <<Shown(Last(begun))>>
                       /\ schJobs[j].runCount = Cardinality(Finished(j))
                       /\ schJobs[j].active = Cardinality(Unexited(j))
  BY DEF HistoryAgrees
<1> DEFINE begun == schBegun[j]
           kept == Min({RecentCap, Len(begun)})
           e == schJobs[j]
<1>0. j \in 1..Len(schJobs) /\ DOMAIN schRuns = 1..Len(schRuns)
  BY DEF JobIds, SchedulerInv, SchedulerType
<1>1. /\ e \in EntryType /\ begun \in Seq(Nat) /\ EntryOK(e, begun, schRuns, j)
      /\ DOMAIN schRuns = 1..Len(schRuns) /\ e.recent \in Seq(Summaries)
  BY <1>0, JobFacts
<1>2. Finished(j) = Ended(schRuns, j) /\ Unexited(j) = Busy(schRuns, j)
  BY <1>1 DEF Finished, Unexited, RunsOf, Ended, Busy
<1>3. kept = IF RecentCap <= Len(begun) THEN RecentCap ELSE Len(begun)
  BY <1>1, SmallerOf
<1>4. kept = Len(e.recent)
  BY <1>1, <1>3 DEF EntryOK, RecentOK
<1>5. e.recent = [i \in 1..kept |-> Shown(begun[Len(begun) - kept + i])]
  <2> HIDE DEF kept, e
  <2>1. \A i \in 1..kept : e.recent[i] = Shown(begun[Len(begun) - kept + i])
    BY <1>1, <1>4 DEF EntryOK, RecentOK, Shown
  <2>2. e.recent = [i \in 1..kept |-> e.recent[i]]
    BY <1>1, <1>4, SMTT(30)
  <2>q. QED
    BY <2>1, <2>2
<1>6. e.last = IF begun = <<>> THEN <<>> ELSE <<Shown(Last(begun))>>
  <2>1. begun = <<>> <=> Len(begun) = 0
    BY <1>1
  <2>q. QED
    BY <1>1, <2>1 DEF EntryOK, LastOK, Shown, Last
<1>q. QED
  BY <1>1, <1>2, <1>5, <1>6 DEF EntryOK, CountsOK

-----------------------------------------------------------------------------
(* JobScheduler: the steps.                                                 *)

\* The fields the property speaks of.
SameFields(e, f) ==
    e.active = f.active /\ e.runCount = f.runCount /\ e.last = f.last /\ e.recent = f.recent

\* The sets behind the counters are finite.
LEMMA FiniteRuns ==
    ASSUME NEW runs \in Seq(RunType), NEW j
    PROVE  IsFiniteSet(Ended(runs, j)) /\ IsFiniteSet(Busy(runs, j))
<1>1. IsFiniteSet(1..Len(runs))
  BY FS_Interval
<1>2. Ended(runs, j) \subseteq 1..Len(runs) /\ Busy(runs, j) \subseteq 1..Len(runs)
  BY DEF Ended, Busy
<1>q. QED
  BY <1>1, <1>2, FS_Subset

\* A history stays true while the runs it lists keep their outcome.
LEMMA HistoryKept ==
    ASSUME NEW e, NEW f, f.recent = e.recent, f.last = e.last, Len(e.recent) \in Nat,
           NEW b, Len(b) \in Nat, NEW runs, NEW more, NEW j,
           Len(runs) \in Nat, Len(more) \in Nat, Len(runs) <= Len(more),
           BegunOK(b, runs, j), RecentOK(e, b, runs), LastOK(e, b, runs),
           \A q \in 1..Len(runs) : runs[q].job = j =>
               more[q].job = j /\ more[q].outcome = runs[q].outcome
    PROVE  BegunOK(b, more, j) /\ RecentOK(f, b, more) /\ LastOK(f, b, more)
<1>1. \A q \in 1..Len(runs) : q \in 1..Len(more)
  OBVIOUS
<1>2. \A i \in 1..Len(b) : /\ b[i] \in 1..Len(more) /\ more[b[i]].job = j
                           /\ more[b[i]].outcome = runs[b[i]].outcome
  BY <1>1 DEF BegunOK
<1>3. Len(e.recent) <= Len(b)
  BY DEF RecentOK
<1>4. \A i \in 1..Len(e.recent) : Len(b) - Len(e.recent) + i \in 1..Len(b)
  BY <1>3
<1>5. RecentOK(f, b, more)
  BY <1>2, <1>4 DEF RecentOK
<1>6. LastOK(f, b, more)
  <2>1. Len(b) # 0 => Len(b) \in 1..Len(b)
    OBVIOUS
  <2>q. QED
    BY <1>2, <2>1 DEF LastOK
<1>q. QED
  BY <1>2, <1>5, <1>6 DEF BegunOK

\* The entry, the starts and the runs of one job change, and nothing else.
LEMMA OneJobMoves ==
    ASSUME SchedulerInv, NEW j \in 1..Len(schJobs), NEW e \in EntryType, NEW b \in Seq(Nat),
           schJobs' = [schJobs EXCEPT ![j] = e], schBegun' = [schBegun EXCEPT ![j] = b],
           schStatics' = schStatics,
           schRuns' \in Seq(RunType), Len(schRuns) <= Len(schRuns'),
           \A r \in 1..Len(schRuns) : /\ schRuns'[r].job = schRuns[r].job
                                      /\ schRuns[r].job # j => schRuns'[r] = schRuns[r],
           \A r \in 1..Len(schRuns') : r > Len(schRuns) => schRuns'[r].job = j,
           \A r \in 1..Len(schRuns') : RunOK(schRuns'[r], schJobs),
           EntryOK(e, b, schRuns', j)
    PROVE  SchedulerInv'
<1>0. PICK runs \in Seq(RunType) : runs = schRuns'
  OBVIOUS
<1>1. Len(schJobs') = Len(schJobs) /\ SchedulerType'
  BY DEF SchedulerInv, SchedulerType
<1>2. \A r \in 1..Len(schRuns') : RunOK(schRuns'[r], schJobs')
  BY <1>1 DEF RunOK
<1>3. ASSUME NEW k \in 1..Len(schJobs) PROVE EntryOK(schJobs'[k], schBegun'[k], schRuns', k)
  <2>1. CASE k = j
    BY <2>1 DEF SchedulerInv, SchedulerType
  <2>2. CASE k # j
    <3>0. /\ Len(schRuns) <= Len(runs)
          /\ \A r \in 1..Len(schRuns) : schRuns[r].job # j => runs[r] = schRuns[r]
          /\ \A r \in 1..Len(schRuns) : runs[r].job = schRuns[r].job
          /\ \A r \in 1..Len(runs) : r > Len(schRuns) => runs[r].job = j
      BY <1>0
    <3>1. schJobs'[k] = schJobs[k] /\ schBegun'[k] = schBegun[k]
      BY <2>2 DEF SchedulerInv, SchedulerType
    <3>2. EntryOK(schJobs[k], schBegun[k], schRuns, k) /\ schBegun[k] \in Seq(Nat)
          /\ schJobs[k].recent \in Seq(Summaries)
      BY JobFacts
    <3>3. schRuns \in Seq(RunType)
      BY DEF SchedulerInv, SchedulerType
    <3>4. \A r \in 1..Len(schRuns) : schRuns[r].job = k => runs[r] = schRuns[r]
      BY <2>2, <3>0
    <3>5. \A r \in 1..Len(runs) : runs[r].job = k => r \in 1..Len(schRuns) /\ schRuns[r].job = k
      <4>1. \A r \in 1..Len(runs) : r \in 1..Len(schRuns) \/ r > Len(schRuns)
        BY <3>3
      <4>q. QED
        BY <2>2, <3>0, <4>1
    <3>6. Ended(runs, k) = Ended(schRuns, k) /\ Busy(runs, k) = Busy(schRuns, k)
      <4>1. \A r \in 1..Len(schRuns) : r \in 1..Len(runs)
        BY <3>0, <3>3
      <4>2. \A r \in 1..Len(schRuns) : schRuns[r].job = k => runs[r] = schRuns[r] /\ runs[r].job = k
        BY <3>4
      <4>q. QED
        BY <3>4, <3>5, <4>1, <4>2 DEF Ended, Busy
    <3>7. /\ BegunOK(schBegun[k], runs, k) /\ RecentOK(schJobs[k], schBegun[k], runs)
          /\ LastOK(schJobs[k], schBegun[k], runs)
      <4>1. /\ Len(schJobs[k].recent) \in Nat /\ Len(schBegun[k]) \in Nat
            /\ Len(runs) \in Nat /\ Len(schRuns) \in Nat
        BY <3>2, <3>3
      <4>2. /\ BegunOK(schBegun[k], schRuns, k) /\ RecentOK(schJobs[k], schBegun[k], schRuns)
            /\ LastOK(schJobs[k], schBegun[k], schRuns)
        BY <3>2 DEF EntryOK
      <4>q. QED
        BY <3>0, <3>4, <4>1, <4>2, HistoryKept
    <3>q. QED
      BY <1>0, <3>1, <3>2, <3>6, <3>7 DEF EntryOK, CountsOK
  <2>q. QED
    BY <2>1, <2>2
<1>q. QED
  BY <1>1, <1>2, <1>3 DEF SchedulerInv

\* A step of the loop, or a cancellation, that leaves the runs alone.
LEMMA EntryMoves ==
    ASSUME SchedulerInv, NEW j \in 1..Len(schJobs), NEW e \in EntryType, SameFields(e, schJobs[j]),
           schJobs' = [schJobs EXCEPT ![j] = e], UNCHANGED <<schRuns, schBegun, schStatics>>
    PROVE  SchedulerInv'
<1>1. EntryOK(e, schBegun[j], schRuns, j)
  BY JobFacts DEF EntryOK, RecentOK, LastOK, CountsOK, SameFields
<1>2. schBegun' = [schBegun EXCEPT ![j] = schBegun[j]] /\ schBegun[j] \in Seq(Nat)
  BY JobFacts DEF SchedulerInv, SchedulerType
<1>3. schRuns \in Seq(RunType) /\ \A r \in 1..Len(schRuns) : RunOK(schRuns[r], schJobs)
  BY DEF SchedulerInv, SchedulerType
<1>4. Len(schRuns) <= Len(schRuns) /\ \A r \in 1..Len(schRuns) : ~(r > Len(schRuns))
  BY <1>3
<1>5. schRuns' = schRuns /\ schStatics' = schStatics
  OBVIOUS
<1> HIDE DEF SameFields
<1>q. QED
  BY <1>1, <1>2, <1>3, <1>4, <1>5, OneJobMoves

\* A run of job j moves on, within the job.
RunMoves(r, j, run) ==
    /\ r \in 1..Len(schRuns) /\ schRuns[r].job = j /\ run \in RunType /\ run.job = j
    /\ schRuns' = [schRuns EXCEPT ![r] = run]

\* What that leaves for OneJobMoves.
LEMMA RunMoved ==
    ASSUME SchedulerInv, NEW j \in 1..Len(schJobs), NEW r, NEW run, RunMoves(r, j, run),
           run.phase \in {"jitter", "body"} => run.outcome = "Running"
    PROVE  /\ schRuns' \in Seq(RunType) /\ Len(schRuns') = Len(schRuns) /\ Len(schRuns) \in Nat
           /\ schRuns'[r] = run
           /\ \A q \in 1..Len(schRuns) : q # r => schRuns'[q] = schRuns[q]
           /\ \A q \in 1..Len(schRuns) : /\ schRuns'[q].job = schRuns[q].job
                                         /\ schRuns[q].job # j => schRuns'[q] = schRuns[q]
           /\ \A q \in 1..Len(schRuns') : RunOK(schRuns'[q], schJobs)
<1>1. schRuns \in Seq(RunType) /\ \A q \in 1..Len(schRuns) : RunOK(schRuns[q], schJobs)
  BY DEF SchedulerInv, SchedulerType
<1>2. /\ schRuns' \in Seq(RunType) /\ Len(schRuns') = Len(schRuns) /\ Len(schRuns) \in Nat
      /\ schRuns'[r] = run /\ \A q \in 1..Len(schRuns) : q # r => schRuns'[q] = schRuns[q]
  BY <1>1 DEF RunMoves
<1>3. RunOK(run, schJobs)
  BY DEF RunMoves, RunOK
<1>4. schRuns[r].job = j /\ run.job = j
  BY DEF RunMoves
<1>q. QED
  BY <1>1, <1>2, <1>3, <1>4

\* What a run does to the sets that are counted.
LEMMA RunCounted ==
    ASSUME SchedulerInv, NEW j \in 1..Len(schJobs), NEW r, NEW run, RunMoves(r, j, run)
    PROVE  /\ run.phase # "over" /\ schRuns[r].phase # "over" => Busy(schRuns', j) = Busy(schRuns, j)
           /\ run.phase = "over" => Busy(schRuns', j) = Busy(schRuns, j) \ {r}
           /\ run.outcome = schRuns[r].outcome => Ended(schRuns', j) = Ended(schRuns, j)
           /\ run.outcome \notin {"Running", "Skipped"} => Ended(schRuns', j) = Ended(schRuns, j) \cup {r}
<1>1. schRuns \in Seq(RunType) /\ r \in 1..Len(schRuns) /\ schRuns[r].job = j /\ run.job = j
  BY DEF SchedulerInv, SchedulerType, RunMoves
<1>2. /\ Len(schRuns') = Len(schRuns) /\ schRuns'[r] = run
      /\ \A q \in 1..Len(schRuns) : q # r => schRuns'[q] = schRuns[q]
  BY <1>1 DEF RunMoves
<1>q. QED
  BY <1>1, <1>2 DEF Busy, Ended

\* Adding to a finite set and removing from it.
LEMMA CountedOnce ==
    ASSUME NEW S, IsFiniteSet(S), NEW x
    PROVE  /\ Cardinality(S) \in Nat
           /\ x \notin S => Cardinality(S \cup {x}) = Cardinality(S) + 1
           /\ x \in S => Cardinality(S \ {x}) = Cardinality(S) - 1
  BY FS_AddElement, FS_RemoveElement, FS_CardinalityType

\* A step of one run.
LEMMA RunStep ==
    ASSUME SchedulerInv, NEW j \in 1..Len(schJobs), NEW r, NEW run, RunMoves(r, j, run),
           run.phase \in {"jitter", "body"} => run.outcome = "Running",
           NEW e \in EntryType, NEW b \in Seq(Nat), EntryOK(e, b, schRuns', j),
           schJobs' = [schJobs EXCEPT ![j] = e], schBegun' = [schBegun EXCEPT ![j] = b],
           schStatics' = schStatics
    PROVE  SchedulerInv'
<1>1. /\ schRuns' \in Seq(RunType) /\ Len(schRuns') = Len(schRuns) /\ Len(schRuns) \in Nat
      /\ \A q \in 1..Len(schRuns) : /\ schRuns'[q].job = schRuns[q].job
                                    /\ schRuns[q].job # j => schRuns'[q] = schRuns[q]
      /\ \A q \in 1..Len(schRuns') : RunOK(schRuns'[q], schJobs)
  BY RunMoved
<1>2. /\ Len(schRuns) <= Len(schRuns')
      /\ \A q \in 1..Len(schRuns') : q > Len(schRuns) => schRuns'[q].job = j
  BY <1>1
<1>q. QED
  BY <1>1, <1>2, OneJobMoves

\* A run that moves on without ending leaves the history of its job true.
LEMMA RunHistory ==
    ASSUME SchedulerInv, NEW j \in 1..Len(schJobs), NEW r, NEW run, RunMoves(r, j, run),
           run.phase \in {"jitter", "body"} => run.outcome = "Running",
           run.outcome = schRuns[r].outcome,
           NEW f, f.recent = schJobs[j].recent, f.last = schJobs[j].last
    PROVE  /\ BegunOK(schBegun[j], schRuns', j) /\ RecentOK(f, schBegun[j], schRuns')
           /\ LastOK(f, schBegun[j], schRuns')
<1>1. /\ Len(schRuns') = Len(schRuns) /\ Len(schRuns) \in Nat /\ schRuns'[r] = run
      /\ \A q \in 1..Len(schRuns) : q # r => schRuns'[q] = schRuns[q]
  BY RunMoved
<1>2. r \in 1..Len(schRuns) /\ schRuns[r].job = j /\ run.job = j
  BY DEF RunMoves
<1>3. \A q \in 1..Len(schRuns) : schRuns[q].job = j =>
          schRuns'[q].job = j /\ schRuns'[q].outcome = schRuns[q].outcome
  BY <1>1, <1>2
<1>4. Len(schJobs[j].recent) \in Nat /\ Len(schBegun[j]) \in Nat
  BY JobFacts
<1>5. /\ BegunOK(schBegun[j], schRuns, j) /\ RecentOK(schJobs[j], schBegun[j], schRuns)
      /\ LastOK(schJobs[j], schBegun[j], schRuns)
  BY JobFacts DEF EntryOK
<1>6. Len(schRuns') \in Nat /\ Len(schRuns) <= Len(schRuns')
  BY <1>1
<1>q. QED
  BY <1>1, <1>3, <1>4, <1>5, <1>6, HistoryKept

\* The job of a run, and what its entry says.
LEMMA RunFacts ==
    ASSUME SchedulerInv, NEW r \in DOMAIN schRuns
    PROVE  /\ r \in 1..Len(schRuns) /\ r \in Nat /\ schRuns[r] \in RunType
           /\ schRuns[r].job \in 1..Len(schJobs)
           /\ schRuns[r].phase \in {"jitter", "body"} => schRuns[r].outcome = "Running"
           /\ IsFiniteSet(Busy(schRuns, schRuns[r].job)) /\ IsFiniteSet(Ended(schRuns, schRuns[r].job))
<1>1. schRuns \in Seq(RunType) /\ r \in 1..Len(schRuns) /\ RunOK(schRuns[r], schJobs)
  BY DEF SchedulerInv, SchedulerType
<1>q. QED
  BY <1>1, FiniteRuns DEF RunOK

\* Updating the fields of an entry.
LEMMA EntryFields ==
    ASSUME NEW e \in EntryType
    PROVE  /\ \A n \in Int : LET f == [e EXCEPT !.active = n] IN
                 f \in EntryType /\ f.active = n /\ f.runCount = e.runCount
                 /\ f.last = e.last /\ f.recent = e.recent
           /\ \A n \in Nat : LET f == [e EXCEPT !.skipped = n] IN f \in EntryType /\ SameFields(f, e)
           /\ LET f == [e EXCEPT !.cancelled = TRUE] IN f \in EntryType /\ SameFields(f, e)
           /\ \A l \in Loops : LET f == [e EXCEPT !.loop = l] IN f \in EntryType /\ SameFields(f, e)
           /\ e.skipped \in Nat /\ e.failures \in Nat
<1>1. ASSUME NEW n \in Int
      PROVE  LET f == [e EXCEPT !.active = n] IN
                 f \in EntryType /\ f.active = n /\ f.runCount = e.runCount
                 /\ f.last = e.last /\ f.recent = e.recent
  BY DEF EntryType
<1>2. ASSUME NEW n \in Nat
      PROVE  LET f == [e EXCEPT !.skipped = n] IN f \in EntryType /\ SameFields(f, e)
  BY DEF EntryType, SameFields
<1>3. LET f == [e EXCEPT !.cancelled = TRUE] IN f \in EntryType /\ SameFields(f, e)
  BY DEF EntryType, SameFields
<1>4. ASSUME NEW l \in Loops
      PROVE  LET f == [e EXCEPT !.loop = l] IN f \in EntryType /\ SameFields(f, e)
  BY DEF EntryType, SameFields
<1>5. e.skipped \in Nat /\ e.failures \in Nat
  BY DEF EntryType
<1>q. QED
  BY <1>1, <1>2, <1>3, <1>4, <1>5

\* exit_run: one run less in flight.
LEMMA ExitRun ==
    ASSUME SchedulerInv, NEW r \in DOMAIN schRuns, exit_run(r)
    PROVE  SchedulerInv'
<1> DEFINE j == schRuns[r].job
           run == [schRuns[r] EXCEPT !.phase = "over"]
           e == [schJobs[j] EXCEPT !.active = schJobs[j].active - 1]
<1>1. /\ j \in 1..Len(schJobs) /\ schRuns[r] \in RunType /\ r \in 1..Len(schRuns)
      /\ IsFiniteSet(Busy(schRuns, j))
  BY RunFacts
<1>2. run \in RunType /\ run.job = j /\ run.phase = "over" /\ run.outcome = schRuns[r].outcome
  BY <1>1 DEF RunType
<1>3. RunMoves(r, j, run) /\ schJobs' = [schJobs EXCEPT ![j] = e]
      /\ UNCHANGED <<schBegun, schStatics>> /\ schRuns[r].phase = "recorded"
  BY <1>1, <1>2 DEF exit_run, RunMoves
<1>4. /\ e \in EntryType /\ e.active = schJobs[j].active - 1 /\ e.runCount = schJobs[j].runCount
      /\ e.last = schJobs[j].last /\ e.recent = schJobs[j].recent
      /\ EntryOK(schJobs[j], schBegun[j], schRuns, j) /\ schBegun[j] \in Seq(Nat)
  <2>1. /\ schJobs[j] \in EntryType /\ schJobs[j].active \in Int
        /\ EntryOK(schJobs[j], schBegun[j], schRuns, j) /\ schBegun[j] \in Seq(Nat)
    BY <1>1, JobFacts
  <2>2. schJobs[j].active - 1 \in Int
    BY <2>1
  <2>q. QED
    BY <2>1, <2>2, EntryFields
<1> HIDE DEF j, run, e
<1>5. Busy(schRuns', j) = Busy(schRuns, j) \ {r} /\ Ended(schRuns', j) = Ended(schRuns, j)
  BY <1>1, <1>2, <1>3, RunCounted
<1>6. r \in Busy(schRuns, j)
  BY <1>1, <1>3 DEF Busy, j
<1>7. CountsOK(e, schRuns', j)
  BY <1>1, <1>4, <1>5, <1>6, CountedOnce DEF EntryOK, CountsOK
<1>9. BegunOK(schBegun[j], schRuns', j) /\ RecentOK(e, schBegun[j], schRuns') /\ LastOK(e, schBegun[j], schRuns')
  BY <1>1, <1>2, <1>3, <1>4, RunHistory
<1>10. schBegun' = [schBegun EXCEPT ![j] = schBegun[j]]
  BY <1>1, <1>3 DEF SchedulerInv, SchedulerType
<1>q. QED
  BY <1>1, <1>2, <1>3, <1>4, <1>7, <1>9, <1>10, RunStep DEF EntryOK

\* A panic: the run ends, and its entry goes on as if it had not.
LEMMA Panicked ==
    ASSUME SchedulerInv, NEW r \in DOMAIN schRuns, BodyPanics(r)
    PROVE  SchedulerInv'
<1> DEFINE j == schRuns[r].job
           run == [schRuns[r] EXCEPT !.phase = "panicked"]
<1>1. j \in 1..Len(schJobs) /\ schRuns[r] \in RunType /\ r \in 1..Len(schRuns)
  BY RunFacts
<1>2. run \in RunType /\ run.job = j /\ run.phase = "panicked" /\ run.outcome = schRuns[r].outcome
  BY <1>1 DEF RunType
<1>3. RunMoves(r, j, run) /\ schRuns[r].phase = "body" /\ UNCHANGED <<schJobs, schBegun, schStatics>>
  BY <1>1, <1>2 DEF BodyPanics, RunMoves
<1>4. /\ schJobs[j] \in EntryType /\ schBegun[j] \in Seq(Nat)
      /\ EntryOK(schJobs[j], schBegun[j], schRuns, j)
  BY <1>1, JobFacts
<1> HIDE DEF j, run
<1>5. Busy(schRuns', j) = Busy(schRuns, j) /\ Ended(schRuns', j) = Ended(schRuns, j)
  BY <1>1, <1>2, <1>3, RunCounted
<1>6. CountsOK(schJobs[j], schRuns', j)
  BY <1>4, <1>5 DEF EntryOK, CountsOK
<1>7. /\ BegunOK(schBegun[j], schRuns', j) /\ RecentOK(schJobs[j], schBegun[j], schRuns')
      /\ LastOK(schJobs[j], schBegun[j], schRuns')
  BY <1>1, <1>2, <1>3, RunHistory
<1>8. /\ schJobs' = [schJobs EXCEPT ![j] = schJobs[j]]
      /\ schBegun' = [schBegun EXCEPT ![j] = schBegun[j]]
  BY <1>1, <1>3 DEF SchedulerInv, SchedulerType
<1>q. QED
  BY <1>1, <1>2, <1>3, <1>4, <1>6, <1>7, <1>8, RunStep DEF EntryOK

\* record_start: one start more, the newest.
LEMMA RecordStart ==
    ASSUME SchedulerInv, NEW r \in DOMAIN schRuns, record_start(r)
    PROVE  SchedulerInv'
<1> DEFINE j == schRuns[r].job
           here == "container" \in schHolders
           run == [schRuns[r] EXCEPT !.phase = "body", !.root = here]
           s == Summary(r, "Running")
           old == schJobs[j].recent
           e == [schJobs[j] EXCEPT !.last = <<s>>, !.recent = Capped(Append(old, s))]
           b == schBegun[j]
<1>1. /\ j \in 1..Len(schJobs) /\ schRuns[r] \in RunType /\ r \in 1..Len(schRuns) /\ r \in Nat
      /\ schRuns[r].phase = "jitter" /\ schRuns[r].outcome = "Running"
  BY RunFacts DEF record_start
<1>2. run \in RunType /\ run.job = j /\ run.phase = "body" /\ run.outcome = "Running"
  <2>1. here \in BOOLEAN
    OBVIOUS
  <2> HIDE DEF here
  <2>q. QED
    BY <1>1, <2>1 DEF RunType
<1>3. /\ RunMoves(r, j, run) /\ schJobs' = [schJobs EXCEPT ![j] = e]
      /\ schBegun' = [schBegun EXCEPT ![j] = Append(b, r)] /\ schStatics' = schStatics
  <2>1. schRuns' = [schRuns EXCEPT ![r] = run]
    BY DEF record_start
  <2>2. /\ schJobs' = [schJobs EXCEPT ![j] = e] /\ schBegun' = [schBegun EXCEPT ![j] = Append(b, r)]
        /\ schStatics' = schStatics
    BY DEF record_start
  <2> HIDE DEF run, e
  <2>q. QED
    BY <1>1, <1>2, <2>1, <2>2 DEF RunMoves
<1>4. /\ schJobs[j] \in EntryType /\ b \in Seq(Nat) /\ old \in Seq(Summaries)
      /\ EntryOK(schJobs[j], b, schRuns, j)
  BY <1>1, JobFacts
<1>5. s \in Summaries /\ s = Summary(r, "Running") /\ Append(old, s) \in Seq(Summaries)
  <2>1. s \in Summaries
    BY <1>1 DEF Summaries, Summary, Endings
  <2>q. QED
    BY <1>4, <2>1
<1> DEFINE new == Capped(Append(old, s))
<1>6. /\ new \in Seq(Summaries) /\ Len(new) = IF Len(old) + 1 <= RecentCap THEN Len(old) + 1 ELSE RecentCap
      /\ \A i \in 1..Len(new) : new[i] = Append(old, s)[Len(old) + 1 - Len(new) + i]
  <2>1. Len(Append(old, s)) = Len(old) + 1
    BY <1>4
  <2>q. QED
    <3>1. PICK w \in Seq(Summaries) : w = Append(old, s)
      BY <1>5
    <3>2. Len(w) = Len(old) + 1 /\ new = Capped(w)
      BY <2>1, <3>1
    <3> HIDE DEF new, s, old
    <3>3. /\ new \in Seq(Summaries) /\ Len(new) = IF Len(w) <= RecentCap THEN Len(w) ELSE RecentCap
          /\ \A i \in 1..Len(new) : new[i] = w[Len(w) - Len(new) + i]
      BY <3>2, CappedIs
    <3>4. ASSUME NEW i \in 1..Len(new) PROVE new[i] = Append(old, s)[Len(old) + 1 - Len(new) + i]
      <4>1. PICK k : k = Len(w) - Len(new) + i
        OBVIOUS
      <4>2. new[i] = w[k]
        BY <3>3, <4>1
      <4>3. k = Len(old) + 1 - Len(new) + i
        BY <3>2, <4>1
      <4>4. w[k] = Append(old, s)[k]
        BY <3>1, Zenon
      <4>q. QED
        BY <4>2, <4>3, <4>4, Zenon
    <3>5. Len(new) = IF Len(old) + 1 <= RecentCap THEN Len(old) + 1 ELSE RecentCap
      BY <3>2, <3>3
    <3>q. QED
      BY <3>3, <3>4, <3>5
<1>7. /\ e \in EntryType /\ e.active = schJobs[j].active /\ e.runCount = schJobs[j].runCount
      /\ e.last = <<s>> /\ e.recent = new
  <2>1. <<s>> \in Seq(Summaries)
    BY <1>5
  <2> HIDE DEF new, s
  <2>q. QED
    BY <1>4, <1>6, <2>1 DEF EntryType, new
<1> HIDE DEF j, here, run, e, new, s
<1>8. /\ BegunOK(b, schRuns', j) /\ RecentOK(schJobs[j], b, schRuns') /\ LastOK(schJobs[j], b, schRuns')
  BY <1>1, <1>2, <1>3, RunHistory
<1>9. /\ schRuns'[r] = run /\ Len(schRuns') = Len(schRuns)
  BY <1>1, <1>2, <1>3, RunMoved
<1>10. Busy(schRuns', j) = Busy(schRuns, j) /\ Ended(schRuns', j) = Ended(schRuns, j)
  BY <1>1, <1>2, <1>3, RunCounted
<1>11. CountsOK(e, schRuns', j)
  BY <1>4, <1>7, <1>10 DEF EntryOK, CountsOK
<1> DEFINE c == Append(b, r)
<1>12. /\ c \in Seq(Nat) /\ Len(c) = Len(b) + 1 /\ Len(b) \in Nat /\ c[Len(b) + 1] = r
       /\ \A i \in 1..Len(b) : c[i] = b[i]
  BY <1>1, <1>4
<1> HIDE DEF b, c
<1>13. BegunOK(c, schRuns', j)
  <2>1. \A i \in 1..Len(c) : i \in 1..Len(b) \/ i = Len(b) + 1
    BY <1>12
  <2>q. QED
    BY <1>1, <1>2, <1>8, <1>9, <1>12, <2>1 DEF BegunOK
<1>14. LastOK(e, c, schRuns')
  BY <1>2, <1>5, <1>7, <1>9, <1>12 DEF LastOK
<1>15. RecentOK(e, c, schRuns')
  <2>1. /\ Len(old) <= RecentCap /\ Len(old) <= Len(b) /\ Len(old) \in Nat /\ Len(new) \in Nat
        /\ Len(old) = RecentCap \/ Len(old) = Len(b)
        /\ \A i \in 1..Len(old) : old[i] = Summary(b[Len(b) - Len(old) + i], schRuns'[b[Len(b) - Len(old) + i]].outcome)
    <3>1. RecentOK(schJobs[j], b, schRuns') /\ Len(schJobs[j].recent) \in Nat
      BY <1>4, <1>8
    <3>2. Len(new) \in Nat
      BY <1>6
    <3>q. QED
      BY <3>1, <3>2 DEF RecentOK
  <2> HIDE DEF old
  <2>2. /\ Len(new) <= RecentCap /\ Len(new) <= Len(c)
        /\ Len(new) = RecentCap \/ Len(new) = Len(c)
        /\ Len(new) <= Len(old) + 1 /\ Len(new) >= 1
    BY <1>6, <1>12, <2>1
  <2>3. ASSUME NEW i \in 1..Len(new)
        PROVE  new[i] = Summary(c[Len(c) - Len(new) + i], schRuns'[c[Len(c) - Len(new) + i]].outcome)
    <3>1. CASE i = Len(new)
      <4>1. new[i] = s
        <5>1. i \in 1..Len(new) /\ Len(old) + 1 - Len(new) + i = Len(old) + 1
          BY <2>1, <3>1
        <5>2. new[i] = Append(old, s)[Len(old) + 1]
          BY <1>6, <5>1
        <5>q. QED
          BY <1>4, <5>2 DEF old
      <4>2. Len(c) - Len(new) + i = Len(b) + 1
        BY <1>12, <2>1, <3>1
      <4>q. QED
        BY <1>2, <1>5, <1>9, <1>12, <4>1, <4>2
    <3>2. CASE i < Len(new)
      <4>1. PICK k \in 1..Len(old) : k = Len(old) + 1 - Len(new) + i
        <5>1. \A o, n, h \in Nat : 1 <= h /\ h < n /\ n <= o + 1 => o + 1 - n + h \in 1..o
          OBVIOUS
        <5>2. Len(old) + 1 - Len(new) + i \in 1..Len(old)
          BY <2>1, <2>2, <3>2, <5>1
        <5>q. QED
          BY <5>2
      <4>2. new[i] = old[k]
        <5>1. new[i] = Append(old, s)[k]
          BY <1>6, <4>1
        <5>q. QED
          BY <1>4, <5>1 DEF old
      <4>3. /\ Len(c) - Len(new) + i = Len(b) - Len(old) + k
            /\ Len(b) - Len(old) + k \in 1..Len(b)
        <5>1. \A o, n, h, m, y \in Nat : /\ y = o + 1 - n + h => m + 1 - n + h = m - o + y
                                        /\ 1 <= y /\ y <= o /\ o <= m => m - o + y \in 1..m
          OBVIOUS
        <5>2. /\ Len(old) \in Nat /\ Len(new) \in Nat /\ i \in Nat /\ Len(b) \in Nat /\ k \in Nat
              /\ 1 <= k /\ k <= Len(old) /\ Len(old) <= Len(b)
          BY <1>12, <2>1, <4>1
        <5>3. Len(b) + 1 - Len(new) + i = Len(b) - Len(old) + k /\ Len(b) - Len(old) + k \in 1..Len(b)
          BY ONLY <4>1, <5>1, <5>2
        <5>q. QED
          BY <1>12, <5>3
      <4>q. QED
        BY <1>12, <2>1, <4>2, <4>3
    <3>q. QED
      BY <2>1, <3>1, <3>2
  <2>q. QED
    BY <1>7, <2>1, <2>2, <2>3 DEF RecentOK
<1>q. QED
  BY <1>1, <1>2, <1>3, <1>7, <1>11, <1>12, <1>13, <1>14, <1>15, RunStep DEF EntryOK, c

\* record_finish: the run's own summary is finalised, wherever it is, and one run more ended.
LEMMA RecordFinish ==
    ASSUME SchedulerInv, NEW r \in DOMAIN schRuns, NEW outcome \in Outcomes, record_finish(r, outcome)
    PROVE  SchedulerInv'
<1> DEFINE j == schRuns[r].job
           run == [schRuns[r] EXCEPT !.phase = "recorded", !.outcome = outcome]
           entry == schJobs[j]
           failures == IF outcome \in {"Failed", "TimedOut"} THEN entry.failures + 1 ELSE entry.failures
           e == [entry EXCEPT !.runCount = entry.runCount + 1, !.failures = failures,
                              !.last = Finalized(entry.last, r, outcome),
                              !.recent = Finalized(entry.recent, r, outcome)]
           b == schBegun[j]
<1>1. /\ j \in 1..Len(schJobs) /\ schRuns[r] \in RunType /\ r \in 1..Len(schRuns) /\ r \in Nat
      /\ schRuns[r].phase = "body" /\ schRuns[r].outcome = "Running"
      /\ IsFiniteSet(Ended(schRuns, j))
  BY RunFacts DEF record_finish
<1>2. run \in RunType /\ run.job = j /\ run.phase = "recorded" /\ run.outcome = outcome
  BY <1>1 DEF RunType, Endings
<1>3. /\ RunMoves(r, j, run) /\ schJobs' = [schJobs EXCEPT ![j] = e]
      /\ UNCHANGED <<schBegun, schStatics>>
  <2>1. schRuns' = [schRuns EXCEPT ![r] = run]
    BY DEF record_finish
  <2>2. schJobs' = [schJobs EXCEPT ![j] = e] /\ UNCHANGED <<schBegun, schStatics>>
    BY DEF record_finish
  <2> HIDE DEF run, e
  <2>q. QED
    BY <1>1, <1>2, <2>1, <2>2 DEF RunMoves
<1>4. /\ entry \in EntryType /\ b \in Seq(Nat)
      /\ entry.recent \in Seq(Summaries) /\ entry.last \in Seq(Summaries)
      /\ entry.runCount \in Nat /\ entry.failures \in Nat /\ EntryOK(entry, b, schRuns, j)
  BY <1>1, JobFacts, EntryFields
<1>5. ASSUME NEW s \in Seq(Summaries)
      PROVE  /\ Finalized(s, r, outcome) \in Seq(Summaries) /\ Len(Finalized(s, r, outcome)) = Len(s)
             /\ \A i \in 1..Len(s) : Finalized(s, r, outcome)[i] =
                     IF s[i].run = r THEN Summary(r, outcome) ELSE s[i]
  <2>1. Summary(r, outcome) \in Summaries
    BY <1>1 DEF Summary, Summaries, Endings
  <2>q. QED
    BY <2>1 DEF Finalized
<1>6. /\ e \in EntryType /\ e.active = entry.active /\ e.runCount = entry.runCount + 1
      /\ e.last = Finalized(entry.last, r, outcome) /\ e.recent = Finalized(entry.recent, r, outcome)
  <2>1. failures \in Nat /\ entry.runCount + 1 \in Nat
    BY <1>4
  <2>2. Finalized(entry.last, r, outcome) \in Seq(Summaries) /\ Finalized(entry.recent, r, outcome) \in Seq(Summaries)
    BY <1>4, <1>5
  <2> HIDE DEF entry, failures
  <2>q. QED
    BY <1>4, <2>1, <2>2 DEF EntryType
<1> HIDE DEF run, e, failures
<1>7. /\ schRuns'[r] = run /\ Len(schRuns') = Len(schRuns) /\ Len(schRuns) \in Nat
      /\ \A q \in 1..Len(schRuns) : q # r => schRuns'[q] = schRuns[q]
  BY <1>1, <1>2, <1>3, RunMoved, SMTT(30)
<1>8. Busy(schRuns', j) = Busy(schRuns, j) /\ Ended(schRuns', j) = Ended(schRuns, j) \cup {r}
  <2> HIDE DEF j
  <2>q. QED
    BY <1>1, <1>2, <1>3, RunCounted DEF Outcomes
<1>9. CountsOK(e, schRuns', j)
  <2>1. r \notin Ended(schRuns, j)
    BY <1>1 DEF Ended
  <2>2. Cardinality(Ended(schRuns', j)) = Cardinality(Ended(schRuns, j)) + 1
    BY <1>1, <1>8, <2>1, CountedOnce
  <2>q. QED
    BY <1>4, <1>6, <1>8, <2>2 DEF EntryOK, CountsOK
<1> HIDE DEF b, entry, j
<1>10. BegunOK(b, schRuns', j)
  BY <1>2, <1>4, <1>7 DEF EntryOK, BegunOK
\* What a summary becomes is what the run's record becomes.
<1>11. ASSUME NEW q \in 1..Len(schRuns), NEW old, old = Summary(q, schRuns[q].outcome)
       PROVE  (IF old.run = r THEN Summary(r, outcome) ELSE old) = Summary(q, schRuns'[q].outcome)
  BY <1>2, <1>7, <1>11 DEF Summary
<1>12. RecentOK(e, b, schRuns')
  <2>1. /\ RecentOK(entry, b, schRuns) /\ BegunOK(b, schRuns, j)
        /\ Len(entry.recent) \in Nat /\ Len(b) \in Nat
    BY <1>4 DEF EntryOK
  <2>2. /\ Len(e.recent) = Len(entry.recent)
        /\ \A i \in 1..Len(entry.recent) : e.recent[i] =
                IF entry.recent[i].run = r THEN Summary(r, outcome) ELSE entry.recent[i]
    BY <1>4, <1>5, <1>6
  <2>3. Len(entry.recent) <= Len(b)
    BY <2>1 DEF RecentOK
  <2>4. ASSUME NEW i \in 1..Len(entry.recent)
        PROVE  LET q == b[Len(b) - Len(entry.recent) + i]
               IN  e.recent[i] = Summary(q, schRuns'[q].outcome)
    <3>0. Len(b) - Len(entry.recent) + i \in 1..Len(b)
      BY <2>1, <2>3
    <3>1. PICK k \in 1..Len(b) : k = Len(b) - Len(entry.recent) + i
      BY <3>0
    <3>2. b[k] \in 1..Len(schRuns) /\ entry.recent[i] = Summary(b[k], schRuns[b[k]].outcome)
      BY <2>1, <3>1 DEF RecentOK, BegunOK
    <3>q. QED
      BY <1>11, <2>2, <3>1, <3>2
  <2>q. QED
    BY <2>1, <2>2, <2>4 DEF RecentOK
<1>13. LastOK(e, b, schRuns')
  <2>1. LastOK(entry, b, schRuns) /\ BegunOK(b, schRuns, j) /\ Len(b) \in Nat
    BY <1>4 DEF EntryOK
  <2>2. CASE Len(b) = 0
    <3>1. entry.last = <<>>
      BY <2>1, <2>2 DEF LastOK
    <3>2. Len(e.last) = 0 /\ e.last \in Seq(Summaries)
      BY <1>4, <1>5, <1>6, <3>1
    <3>q. QED
      BY <2>2, <3>2 DEF LastOK
  <2>3. CASE Len(b) # 0
    <3> DEFINE q == b[Len(b)]
    <3>1. q \in 1..Len(schRuns) /\ entry.last = <<Summary(q, schRuns[q].outcome)>>
      BY <2>1, <2>3 DEF LastOK, BegunOK
    <3> HIDE DEF q
    <3>2. Len(entry.last) = 1 /\ entry.last[1] = Summary(q, schRuns[q].outcome)
      BY <3>1
    <3>3. e.last \in Seq(Summaries) /\ Len(e.last) = 1 /\ e.last[1] = Summary(q, schRuns'[q].outcome)
      <4>1. /\ e.last \in Seq(Summaries) /\ Len(e.last) = 1
            /\ e.last[1] = IF entry.last[1].run = r THEN Summary(r, outcome) ELSE entry.last[1]
        <5>1. entry.last \in Seq(Summaries) /\ 1 \in 1..Len(entry.last)
          BY <1>4, <3>2
        <5>q. QED
          BY <1>5, <1>6, <3>2, <5>1
      <4>q. QED
        BY <1>11, <3>1, <3>2, <4>1
    <3>4. e.last = <<Summary(q, schRuns'[q].outcome)>>
      BY <3>3
    <3>q. QED
      BY <2>3, <3>4 DEF LastOK, q
  <2>q. QED
    BY <2>2, <2>3
<1>14. schBegun' = [schBegun EXCEPT ![j] = b]
  BY <1>1, <1>3 DEF SchedulerInv, SchedulerType, b
<1>q. QED
  BY <1>1, <1>2, <1>3, <1>4, <1>6, <1>9, <1>10, <1>12, <1>13, <1>14, RunStep DEF EntryOK

\* maybe_start_run takes a run id, for a run or for a firing that is skipped.
LEMMA JobFires ==
    ASSUME SchedulerInv, NEW j \in JobIds, FireJob(j)
    PROVE  SchedulerInv'
<1> DEFINE skips == schJobs[j].overlap = "Skip" /\ schJobs[j].active > 0
           run == [job |-> j, phase |-> IF skips THEN "over" ELSE "jitter",
                   outcome |-> IF skips THEN "Skipped" ELSE "Running", root |-> FALSE]
           n == Len(schRuns) + 1
           entry == schJobs[j]
           e == IF skips THEN [entry EXCEPT !.skipped = entry.skipped + 1]
                         ELSE [entry EXCEPT !.active = entry.active + 1]
<1>1. /\ j \in 1..Len(schJobs) /\ j \in Nat /\ schRuns \in Seq(RunType) /\ Len(schRuns) \in Nat
      /\ \A q \in 1..Len(schRuns) : RunOK(schRuns[q], schJobs)
  BY DEF JobIds, SchedulerInv, SchedulerType
<1>2. /\ entry \in EntryType /\ schBegun[j] \in Seq(Nat) /\ entry.recent \in Seq(Summaries)
      /\ entry.active \in Int /\ entry.skipped \in Nat /\ EntryOK(entry, schBegun[j], schRuns, j)
  BY <1>1, JobFacts, EntryFields
<1>3. /\ run \in RunType /\ run.job = j
      /\ \/ skips /\ run.phase = "over" /\ run.outcome = "Skipped"
         \/ ~skips /\ run.phase = "jitter" /\ run.outcome = "Running"
  <2> HIDE DEF skips
  <2>1. CASE skips
    BY <1>1, <2>1 DEF RunType, Endings
  <2>2. CASE ~skips
    BY <1>1, <2>2 DEF RunType, Endings
  <2>q. QED
    BY <2>1, <2>2
<1>4. /\ schRuns' = Append(schRuns, run) /\ schJobs' = [schJobs EXCEPT ![j] = e]
      /\ UNCHANGED <<schBegun, schStatics>>
  <2>1. schRuns' = Append(schRuns, run) /\ UNCHANGED <<schBegun, schStatics>>
    BY DEF FireJob
  <2>2. schJobs' = IF skips THEN [schJobs EXCEPT ![j].skipped = @ + 1]
                            ELSE [schJobs EXCEPT ![j].active = @ + 1]
    BY DEF FireJob
  <2>3. schJobs' = [schJobs EXCEPT ![j] = e]
    <3> HIDE DEF skips
    <3>q. QED
      BY <2>2
  <2>q. QED
    BY <2>1, <2>3
<1>5. /\ e \in EntryType /\ e.runCount = entry.runCount /\ e.last = entry.last /\ e.recent = entry.recent
      /\ e.active = IF skips THEN entry.active ELSE entry.active + 1
  <2> HIDE DEF skips, entry
  <2>0. entry.skipped + 1 \in Nat /\ entry.active + 1 \in Int
    BY <1>2
  <2>1. CASE skips
    <3>1. e = [entry EXCEPT !.skipped = entry.skipped + 1]
      BY <2>1
    <3> HIDE DEF e
    <3>q. QED
      BY <1>2, <2>0, <2>1, <3>1, EntryFields DEF SameFields
  <2>2. CASE ~skips
    <3>1. e = [entry EXCEPT !.active = entry.active + 1]
      BY <2>2
    <3> HIDE DEF e
    <3>2. PICK m \in Int : m = entry.active + 1
      BY <2>0
    <3>3. e = [entry EXCEPT !.active = m]
      BY <3>1, <3>2
    <3>4. /\ e \in EntryType /\ e.active = m /\ e.runCount = entry.runCount
          /\ e.last = entry.last /\ e.recent = entry.recent
      BY <1>2, <3>3, EntryFields
    <3>q. QED
      BY <2>2, <3>2, <3>4
  <2>q. QED
    BY <2>1, <2>2
<1> HIDE DEF run, e, entry, skips
<1>6. /\ schRuns' \in Seq(RunType) /\ Len(schRuns') = n /\ schRuns'[n] = run
      /\ \A q \in 1..Len(schRuns) : schRuns'[q] = schRuns[q]
  BY <1>1, <1>3, <1>4
<1>7. \A q \in 1..n : q \in 1..Len(schRuns) \/ q = n
  BY <1>1
<1>8. \A q \in 1..Len(schRuns') : RunOK(schRuns'[q], schJobs)
  BY <1>1, <1>3, <1>6, <1>7 DEF RunOK
<1>9. /\ n \notin 1..Len(schRuns) /\ n \in 1..n /\ \A q \in 1..Len(schRuns) : q \in 1..n
  BY <1>1
<1>10. /\ Ended(schRuns', j) = Ended(schRuns, j)
       /\ Busy(schRuns', j) = IF skips THEN Busy(schRuns, j) ELSE Busy(schRuns, j) \cup {n}
  <2> HIDE DEF n
  <2>1. Ended(schRuns', j) = Ended(schRuns, j)
    BY <1>3, <1>6, <1>7, <1>9 DEF Ended
  <2>2. CASE skips
    BY <1>3, <1>6, <1>7, <1>9, <2>1, <2>2 DEF Busy
  <2>3. CASE ~skips
    BY <1>3, <1>6, <1>7, <1>9, <2>1, <2>3 DEF Busy
  <2>q. QED
    BY <2>1, <2>2, <2>3
<1>11. CountsOK(e, schRuns', j)
  <2>1. IsFiniteSet(Busy(schRuns, j)) /\ n \notin Busy(schRuns, j)
    BY <1>1, <1>9, FiniteRuns DEF Busy
  <2>2. Cardinality(Busy(schRuns, j) \cup {n}) = Cardinality(Busy(schRuns, j)) + 1
    BY <2>1, CountedOnce
  <2>q. QED
    BY <1>2, <1>5, <1>10, <2>2 DEF EntryOK, CountsOK
<1>12. /\ BegunOK(schBegun[j], schRuns', j) /\ RecentOK(e, schBegun[j], schRuns')
       /\ LastOK(e, schBegun[j], schRuns')
  <2>1. /\ BegunOK(schBegun[j], schRuns, j) /\ RecentOK(entry, schBegun[j], schRuns)
        /\ LastOK(entry, schBegun[j], schRuns) /\ Len(entry.recent) \in Nat /\ Len(schBegun[j]) \in Nat
    BY <1>2 DEF EntryOK
  <2>2. Len(schRuns') \in Nat /\ Len(schRuns) <= Len(schRuns')
    BY <1>1, <1>6
  <2>3. \A q \in 1..Len(schRuns) : schRuns[q].job = j =>
            schRuns'[q].job = j /\ schRuns'[q].outcome = schRuns[q].outcome
    BY <1>6
  <2>q. QED
    BY <1>1, <1>5, <2>1, <2>2, <2>3, HistoryKept
<1>13. schBegun' = [schBegun EXCEPT ![j] = schBegun[j]] /\ schStatics' = schStatics
  BY <1>1, <1>4 DEF SchedulerInv, SchedulerType
<1>14. /\ Len(schRuns) <= Len(schRuns')
       /\ \A q \in 1..Len(schRuns') : q > Len(schRuns) => schRuns'[q].job = j
  BY <1>1, <1>3, <1>6, <1>7
<1>15. \A q \in 1..Len(schRuns) : /\ schRuns'[q].job = schRuns[q].job
                                  /\ schRuns[q].job # j => schRuns'[q] = schRuns[q]
  BY <1>6
<1>16. EntryOK(e, schBegun[j], schRuns', j)
  BY <1>11, <1>12 DEF EntryOK
<1>q. QED
  BY <1>1, <1>2, <1>4, <1>5, <1>6, <1>8, <1>13, <1>14, <1>15, <1>16, OneJobMoves

\* A new entry has an empty history.
LEMMA JobSpawned ==
    ASSUME SchedulerInv, NEW job \in JobDescriptors, NEW schedule \in Schedules,
           spawn(schedule, job), UNCHANGED <<schRuns, schStatics>>
    PROVE  SchedulerInv'
<1> DEFINE e == NewEntry(schedule, job)
           n == Len(schJobs) + 1
<1>1. /\ schJobs \in Seq(EntryType) /\ schBegun \in Seq(Seq(Nat)) /\ Len(schBegun) = Len(schJobs)
      /\ schRuns \in Seq(RunType) /\ \A r \in 1..Len(schRuns) : RunOK(schRuns[r], schJobs)
      /\ schStatics \in Seq(JobDescriptors) /\ Len(schJobs) \in Nat
  BY DEF SchedulerInv, SchedulerType
<1>2. e \in EntryType /\ e.recent = <<>> /\ e.last = <<>> /\ e.active = 0 /\ e.runCount = 0
  BY DEF NewEntry, EntryType, JobDescriptors, Loops
<1> HIDE DEF e
<1>3. schJobs' = Append(schJobs, e) /\ schBegun' = Append(schBegun, <<>>)
  BY DEF spawn, e
<1>4. /\ schJobs' \in Seq(EntryType) /\ Len(schJobs') = n /\ schJobs'[n] = e
      /\ \A k \in 1..Len(schJobs) : schJobs'[k] = schJobs[k]
  BY <1>1, <1>2, <1>3
<1>5. /\ schBegun' \in Seq(Seq(Nat)) /\ Len(schBegun') = n /\ schBegun'[n] = <<>>
      /\ \A k \in 1..Len(schJobs) : schBegun'[k] = schBegun[k]
  BY <1>1, <1>3
<1>6. \A k \in 1..n : k \in 1..Len(schJobs) \/ k = n
  BY <1>1
<1>7. n \notin 1..Len(schJobs) /\ \A k \in 1..Len(schJobs) : k \in 1..n
  BY <1>1
<1>8. SchedulerType'
  BY <1>1, <1>4, <1>5 DEF SchedulerType
<1>9. \A r \in 1..Len(schRuns') : RunOK(schRuns'[r], schJobs')
  BY <1>1, <1>4, <1>7 DEF RunOK
<1>10. EntryOK(e, <<>>, schRuns, n)
  <2>1. Ended(schRuns, n) = {} /\ Busy(schRuns, n) = {}
    BY <1>1, <1>7 DEF Ended, Busy, RunOK
  <2>2. CountsOK(e, schRuns, n)
    BY <1>2, <2>1, FS_EmptySet DEF CountsOK
  <2>q. QED
    BY <1>2, <2>2 DEF EntryOK, BegunOK, RecentOK, LastOK
<1>11. ASSUME NEW k \in 1..Len(schJobs') PROVE EntryOK(schJobs'[k], schBegun'[k], schRuns', k)
  <2>1. CASE k \in 1..Len(schJobs)
    BY <1>4, <1>5, <2>1 DEF SchedulerInv
  <2>2. CASE k = n
    BY <1>4, <1>5, <1>10, <2>2
  <2>q. QED
    BY <1>4, <1>6, <2>1, <2>2
<1>q. QED
  BY <1>8, <1>9, <1>11 DEF SchedulerInv

\* Every step keeps the invariant.
LEMMA SchedulerStep == SchedulerInv /\ [SchedulerNext]_schVars => SchedulerInv'
<1> SUFFICES ASSUME SchedulerInv, [SchedulerNext]_schVars PROVE SchedulerInv'
  OBVIOUS
<1>1. ASSUME UNCHANGED <<schJobs, schRuns, schBegun, schStatics>> PROVE SchedulerInv'
  BY <1>1 DEF SchedulerInv, SchedulerType
<1>2. CASE StartStatic
  <2> DEFINE job == schStatics[schStarting]
             schedule == parse(job.kind, job.raw)
  <2>1. job \in JobDescriptors
    BY <1>2 DEF StartStatic, SchedulerInv, SchedulerType
  <2>2. schedule \in Schedules
    <3>1. job.kind \in STRING /\ job.raw \in STRING
      BY <2>1 DEF JobDescriptors
    <3>2. [kind |-> job.kind, value |-> job.raw] \in Schedules
      BY <3>1 DEF Schedules
    <3>q. QED
      BY <3>2 DEF parse, Schedules
  <2>3. \/ spawn(schedule, job) /\ UNCHANGED <<schRuns, schStatics>>
        \/ UNCHANGED <<schJobs, schRuns, schBegun, schStatics>>
    BY <1>2 DEF StartStatic
  <2> HIDE DEF job, schedule
  <2>q. QED
    BY <1>1, <2>1, <2>2, <2>3, JobSpawned
<1>3. ASSUME NEW job \in Dynamic, schedule_with(job) PROVE SchedulerInv'
  <2> DEFINE schedule == [kind |-> job.kind, value |-> job.raw]
  <2>1. job \in JobDescriptors
    OBVIOUS
  <2>2. schedule \in Schedules
    BY <2>1 DEF JobDescriptors, Schedules
  <2>3. spawn(schedule, job) /\ UNCHANGED <<schRuns, schStatics>>
    BY <1>3 DEF schedule_with
  <2> HIDE DEF schedule
  <2>q. QED
    BY <2>1, <2>2, <2>3, JobSpawned
<1>4. ASSUME NEW j \in JobIds, CancelJob(j) \/ LoopEnds(j) \/ LoopRemoves(j) PROVE SchedulerInv'
  <2>1. j \in 1..Len(schJobs) /\ schJobs[j] \in EntryType
    <3>1. j \in 1..Len(schJobs)
      BY DEF JobIds, SchedulerInv, SchedulerType
    <3>q. QED
      BY <3>1, JobFacts
  <2>2. \E e \in EntryType : SameFields(e, schJobs[j]) /\ schJobs' = [schJobs EXCEPT ![j] = e]
    <3>1. CASE CancelJob(j)
      <4>1. schJobs' = [schJobs EXCEPT ![j] = [schJobs[j] EXCEPT !.cancelled = TRUE]]
        BY <3>1 DEF CancelJob
      <4>q. QED
        BY <2>1, <4>1, EntryFields
    <3>2. CASE LoopEnds(j)
      <4>1. schJobs' = [schJobs EXCEPT ![j] = [schJobs[j] EXCEPT !.loop = "done"]]
        BY <3>2 DEF LoopEnds
      <4>q. QED
        BY <2>1, <4>1, EntryFields DEF Loops
    <3>3. CASE LoopRemoves(j)
      <4>1. schJobs' = [schJobs EXCEPT ![j] = [schJobs[j] EXCEPT !.loop = "gone"]]
        BY <3>3 DEF LoopRemoves
      <4>q. QED
        BY <2>1, <4>1, EntryFields DEF Loops
    <3>q. QED
      BY <1>4, <3>1, <3>2, <3>3
  <2>3. UNCHANGED <<schRuns, schBegun, schStatics>>
    BY <1>4 DEF CancelJob, LoopEnds, LoopRemoves
  <2>q. QED
    BY <2>1, <2>2, <2>3, EntryMoves
<1>5. ASSUME NEW j \in JobIds, DropJobHandle(j) PROVE SchedulerInv'
  BY <1>1, <1>5 DEF DropJobHandle
<1>6. ASSUME NEW holder, Release(holder) PROVE SchedulerInv'
  BY <1>1, <1>6 DEF Release
<1>7. CASE UNCHANGED schVars
  BY <1>1, <1>7 DEF schVars
<1>q. QED
  BY <1>2, <1>3, <1>4, <1>5, <1>6, <1>7, JobFires, RecordStart, Panicked, ExitRun, RecordFinish
     DEF SchedulerNext

(* For every set of job lists and of jobs scheduled at run time, however many
   runs overlap, end out of order or fall out of the history meanwhile: the
   history of a job (record_start, record_finish, recent_runs) is its latest
   RECENT_RUNS_CAP starts, each with the outcome of that very run, its last run
   is the one that started last, and its counters count the runs that ended and
   the runs that have not left: those in flight and those whose body panicked. *)
THEOREM HistoriesStayTrue == SchedulerSpec => []HistoryAgrees
<1>1. SchedulerInit => SchedulerInv
  <2> SUFFICES ASSUME SchedulerInit PROVE SchedulerInv
    OBVIOUS
  <2>1. schJobs = <<>> /\ schRuns = <<>> /\ schBegun = <<>> /\ schStatics \in Seq(JobDescriptors)
    BY DEF SchedulerInit, SchedulerEmpty
  <2>q. QED
    BY <2>1 DEF SchedulerInv, SchedulerType
<1>q. QED
  BY <1>1, SchedulerStep, HistoryFollows, PTL DEF SchedulerSpec

-----------------------------------------------------------------------------
(* The captured logs: the inductive invariant.                              *)

Record == [run : LogRuns, at : Nat, size : Sizes, id : Nat]
RunLog == [records : Seq(Record), bytes : Nat, first : Nat]

\* a is the end of b.
Ends(a, b) ==
    /\ a \in Seq(Record) /\ b \in Seq(Record) /\ Len(a) <= Len(b)
    /\ \A i \in 1..Len(a) : a[i] = b[Len(b) - Len(a) + i]

\* A log is within its limits and its bytes are those of its records.
Bounded(log) ==
    /\ log \in RunLog /\ log.records # <<>>
    /\ log.bytes = SizeOf(log.records)
    /\ log.bytes > MaxLogBytes => Len(log.records) = 1

LogInv ==
    /\ logOn \in BOOLEAN /\ logClock \in Nat /\ logEvents \in Nat
    /\ logHeld \in [Threads -> Record \cup {NoRecord}]
    /\ logChannel \in Seq(Record)
    /\ logStored \in [LogRuns -> Seq(Record)]
    /\ DOMAIN logStore \subseteq LogRuns
    /\ Lists(logOrder, DOMAIN logStore) /\ Len(logOrder) <= MaxLogRuns
    /\ \A run \in DOMAIN logStore :
        Bounded(logStore[run]) /\ Ends(logStore[run].records, logStored[run])

\* The sizes of some records, as a sequence of numbers.
SizesOf(records) == [i \in DOMAIN records |-> records[i].size]

\* They are numbers, one for each record.
LEMMA SizesAre ==
    ASSUME NEW s \in Seq(Record)
    PROVE  /\ SizesOf(s) \in Seq(Nat) /\ Len(SizesOf(s)) = Len(s)
           /\ \A i \in 1..Len(s) : SizesOf(s)[i] = s[i].size
<1>1. PICK m \in Nat : m = Len(s) /\ DOMAIN s = 1..m /\ \A i \in 1..m : s[i] \in Record
  OBVIOUS
<1>2. SizesOf(s) \in [1..m -> Nat]
  BY <1>1, LogAssumption DEF SizesOf, Record
<1>q. QED
  BY <1>1, <1>2 DEF SizesOf

\* The bytes of a log are those it sheds and those it keeps.
LEMMA SizeSplits ==
    ASSUME NEW s \in Seq(Record), NEW k \in 0..Len(s)
    PROVE  /\ SizeOf(s) \in Nat
           /\ SizeOf(SubSeq(s, 1, k)) \in Nat /\ SizeOf(SubSeq(s, k + 1, Len(s))) \in Nat
           /\ SizeOf(s) = SizeOf(SubSeq(s, 1, k)) + SizeOf(SubSeq(s, k + 1, Len(s)))
<1>1. PICK z \in Seq(Nat) : z = SizesOf(s) /\ Len(z) = Len(s) /\ \A i \in 1..Len(s) : z[i] = s[i].size
  BY SizesAre
<1>2. PICK m \in Nat : m = Len(s) /\ m = Len(z) /\ k \in 0..m
  BY <1>1
<1>3. ASSUME NEW a \in 1..(m + 1), NEW b \in 0..m PROVE SizesOf(SubSeq(s, a, b)) = SubSeq(z, a, b)
  <2>1. /\ SubSeq(s, a, b) = [i \in 1..(b - a + 1) |-> s[a + i - 1]]
        /\ SubSeq(z, a, b) = [i \in 1..(b - a + 1) |-> z[a + i - 1]]
    BY DEF SubSeq
  <2>2. \A i \in 1..(b - a + 1) : a + i - 1 \in 1..Len(s)
    BY <1>2
  <2>3. \A i \in 1..(b - a + 1) : z[a + i - 1] = s[a + i - 1].size
    BY <1>1, <2>2
  <2>4. PICK t : t = SubSeq(s, a, b) /\ t = [i \in 1..(b - a + 1) |-> s[a + i - 1]]
    BY <2>1
  <2>5. SizesOf(t) = [i \in 1..(b - a + 1) |-> s[a + i - 1].size]
    BY <2>4 DEF SizesOf
  <2>q. QED
    BY <2>1, <2>3, <2>4, <2>5
<1>4. SizesOf(SubSeq(s, 1, k)) = SubSeq(z, 1, k) /\ SizesOf(SubSeq(s, k + 1, m)) = SubSeq(z, k + 1, m)
  <2>1. 1 \in 1..(m + 1) /\ k \in 0..m /\ k + 1 \in 1..(m + 1) /\ m \in 0..m
    BY <1>2
  <2>q. QED
    BY <1>3, <2>1
<1>5. /\ SubSeq(z, 1, k) \in Seq(Nat) /\ SubSeq(z, k + 1, m) \in Seq(Nat)
      /\ SumFunction(z) = SumFunction(SubSeq(z, 1, k)) + SumFunction(SubSeq(z, k + 1, m))
  BY <1>2, SeqSumSplit
<1>6. SumFunction(z) \in Nat /\ SumFunction(SubSeq(z, 1, k)) \in Nat /\ SumFunction(SubSeq(z, k + 1, m)) \in Nat
  BY <1>5, SeqSumType
<1>q. QED
  BY <1>1, <1>2, <1>4, <1>5, <1>6 DEF SizeOf, SizesOf

\* One more record adds its size.
LEMMA SizeAppends ==
    ASSUME NEW s \in Seq(Record), NEW r \in Record
    PROVE  SizeOf(Append(s, r)) = SizeOf(s) + r.size /\ SizeOf(s) \in Nat /\ r.size \in Nat
<1>1. r.size \in Nat
  BY LogAssumption DEF Record
<1>2. SizesOf(Append(s, r)) = Append(SizesOf(s), r.size)
  <2>1. PICK m \in Nat : m = Len(s) /\ DOMAIN s = 1..m
    OBVIOUS
  <2>2. PICK t : t = Append(s, r)
    OBVIOUS
  <2>3. DOMAIN t = 1..(m + 1) /\ t[m + 1] = r /\ \A i \in 1..m : t[i] = s[i]
    BY <2>1, <2>2
  <2>4. PICK z \in Seq(Nat) : z = SizesOf(s) /\ Len(z) = m /\ \A i \in 1..m : z[i] = s[i].size
    BY <2>1, SizesAre
  <2>5. PICK y : y = Append(z, r.size)
    OBVIOUS
  <2>6. y = [i \in 1..(m + 1) |-> t[i].size]
    <3>1. y \in Seq(Nat) /\ Len(y) = m + 1 /\ y[m + 1] = r.size /\ \A i \in 1..m : y[i] = z[i]
      BY <1>1, <2>4, <2>5
    <3>2. y \in [1..(m + 1) -> Nat]
      BY <3>1
    <3>3. ASSUME NEW i \in 1..(m + 1) PROVE y[i] = t[i].size
      BY <2>3, <2>4, <3>1
    <3>q. QED
      BY <3>2, <3>3
  <2>q. QED
    BY <2>2, <2>3, <2>4, <2>5, <2>6 DEF SizesOf
<1>3. SizesOf(s) \in Seq(Nat)
  BY SizesAre
<1>4. SumFunction(Append(SizesOf(s), r.size)) = SumFunction(SizesOf(s)) + r.size /\ SumFunction(SizesOf(s)) \in Nat
  BY <1>1, <1>3, SeqSumAppend, SeqSumType
<1>q. QED
  BY <1>1, <1>2, <1>4 DEF SizeOf, SizesOf

\* What Shed keeps: an end of the records that fits, or the last one alone.
LEMMA ShedKeeps ==
    ASSUME NEW s \in Seq(Record), s # <<>>
    PROVE  \E k \in 0..(Len(s) - 1) :
               /\ Shed(s) = SubSeq(s, k + 1, Len(s))
               /\ SizeOf(Shed(s)) <= MaxLogBytes \/ k + 1 = Len(s)
<1>1. PICK m \in Nat : m = Len(s) /\ m # 0
  OBVIOUS
<1> DEFINE fits == {n \in 1..m : SizeOf(SubSeq(s, n, m)) <= MaxLogBytes \/ n = m}
           from == CHOOSE n \in fits : \A j \in fits : n <= j
<1>2. fits \subseteq Nat /\ fits # {}
  <2>1. m \in fits
    BY <1>1
  <2>2. fits \subseteq Nat
    OBVIOUS
  <2> HIDE DEF fits
  <2>q. QED
    BY <2>1, <2>2
<1>3. \E n \in fits : \A j \in fits : n <= j
  <2> HIDE DEF fits
  <2>1. PICK n \in fits : \A j \in fits : <<j, n>> \notin OpToRel(<, Nat)
    BY <1>2, NatLessThanWellFounded, WFMin
  <2>2. ASSUME NEW j \in fits PROVE n <= j
    <3>1. j \in Nat /\ n \in Nat
      BY <1>2
    <3>2. j < n => <<j, n>> \in OpToRel(<, Nat)
      BY <3>1 DEF OpToRel
    <3>3. ~(j < n)
      BY <2>1, <3>2, Zenon
    <3>q. QED
      BY <3>1, <3>3
  <2>q. QED
    BY <2>2
<1>4. from \in fits
  <2> HIDE DEF fits
  <2>q. QED
    BY <1>3
<1>5. Shed(s) = SubSeq(s, from, m)
  BY <1>1 DEF Shed
<1> HIDE DEF from
<1>6. PICK k \in 0..(m - 1) : k + 1 = from
  BY <1>1, <1>4, from - 1 \in 0..(m - 1), (from - 1) + 1 = from
<1>q. QED
  BY <1>1, <1>4, <1>5, <1>6

\* The records from k + 1 on.
LEMMA LastOfEnds ==
    ASSUME NEW s \in Seq(Record), NEW k \in 0..Len(s)
    PROVE  \E t \in Seq(Record) :
               /\ t = SubSeq(s, k + 1, Len(s)) /\ Len(t) = Len(s) - k
               /\ \A i \in 1..(Len(s) - k) : t[i] = s[k + i]
<1>1. PICK m \in Nat : m = Len(s) /\ k \in 0..m /\ \A i \in 1..m : s[i] \in Record
  OBVIOUS
<1>2. PICK t : t = SubSeq(s, k + 1, m)
  OBVIOUS
<1>3. t = [i \in 1..(m - k) |-> s[k + i]] /\ m - k \in Nat
  <2>1. t = [i \in 1..(m - (k + 1) + 1) |-> s[(k + 1) + i - 1]]
    BY <1>2 DEF SubSeq
  <2>2. m - (k + 1) + 1 = m - k /\ \A i \in 1..(m - k) : (k + 1) + i - 1 = k + i
    BY <1>1
  <2>q. QED
    BY <1>1, <2>1, <2>2
<1>4. t \in [1..(m - k) -> Record]
  <2>1. \A i \in 1..(m - k) : k + i \in 1..m
    BY <1>1
  <2>q. QED
    BY <1>1, <1>3, <2>1
<1>5. t \in Seq(Record) /\ Len(t) = m - k
  <2>1. PICK d \in Nat : d = m - k
    BY <1>3
  <2>2. t \in [1..d -> Record]
    BY <1>4, <2>1
  <2>q. QED
    BY <2>1, <2>2
<1>q. QED
  BY <1>1, <1>2, <1>3, <1>5

\* A sequence of records and one more.
LEMMA OneMoreRecord ==
    ASSUME NEW s \in Seq(Record), NEW r \in Record
    PROVE  /\ Append(s, r) \in Seq(Record) /\ Len(Append(s, r)) = Len(s) + 1
           /\ Append(s, r)[Len(s) + 1] = r /\ \A i \in 1..Len(s) : Append(s, r)[i] = s[i]
  OBVIOUS

\* A run's log after one more record: within its limits, and still the end of
\* what reached the store.
LEMMA PushedKeeps ==
    ASSUME NEW log \in RunLog, log.bytes = SizeOf(log.records), NEW r \in Record,
           NEW mine, Ends(log.records, mine)
    PROVE  Bounded(Pushed(log, r)) /\ Ends(Pushed(log, r).records, Append(mine, r))
<1>1. PICK old \in Seq(Record) : old = log.records
  BY DEF RunLog
<1>2. PICK all \in Seq(Record) :
          /\ all = Append(old, r) /\ Len(all) = Len(old) + 1 /\ all[Len(old) + 1] = r
          /\ \A i \in 1..Len(old) : all[i] = old[i]
  BY OneMoreRecord, Zenon
<1>3. PICK m \in Nat : m = Len(all) /\ m # 0 /\ Len(old) = m - 1
  BY <1>2
<1>4. PICK k \in 0..(m - 1) : /\ Shed(all) = SubSeq(all, k + 1, m)
                              /\ SizeOf(Shed(all)) <= MaxLogBytes \/ k + 1 = m
  <2>1. all # <<>>
    BY <1>3
  <2>q. QED
    BY <1>3, <2>1, ShedKeeps
<1>5. PICK kept \in Seq(Record) :
          kept = Shed(all) /\ Len(kept) = m - k /\ \A i \in 1..(m - k) : kept[i] = all[k + i]
  <2>1. k \in 0..Len(all)
    BY <1>3
  <2>2. PICK t \in Seq(Record) :
            /\ t = SubSeq(all, k + 1, Len(all)) /\ Len(t) = Len(all) - k
            /\ \A i \in 1..(Len(all) - k) : t[i] = all[k + i]
    BY <2>1, LastOfEnds, Zenon
  <2>3. t = Shed(all) /\ Len(t) = m - k /\ \A i \in 1..(m - k) : t[i] = all[k + i]
    BY <1>3, <1>4, <2>2, Zenon
  <2>q. QED
    BY <2>3, Zenon
<1>6. SizeOf(old) + r.size = SizeOf(SubSeq(all, 1, k)) + SizeOf(kept)
  <2>1. k \in 0..Len(all)
    BY <1>3
  <2>2. SizeOf(all) = SizeOf(SubSeq(all, 1, k)) + SizeOf(SubSeq(all, k + 1, Len(all)))
    BY <2>1, SizeSplits
  <2>3. SizeOf(all) = SizeOf(old) + r.size
    BY <1>2, SizeAppends
  <2>q. QED
    BY <1>3, <1>4, <1>5, <2>2, <2>3
<1>7. SizeOf(SubSeq(all, 1, k)) \in Nat /\ SizeOf(kept) \in Nat /\ r.size \in Nat /\ SizeOf(old) \in Nat
  <2>1. k \in 0..Len(all)
    BY <1>3
  <2>q. QED
    BY <1>3, <1>4, <1>5, <2>1, SizeSplits, SizeAppends
<1>8. Pushed(log, r) = [records |-> kept, bytes |-> SizeOf(kept), first |-> log.first]
  <2>1. Len(all) - Len(kept) = k
    BY <1>3, <1>5
  <2>2. log.bytes + r.size - SizeOf(SubSeq(all, 1, k)) = SizeOf(kept)
    <3>1. PICK a \in Nat, b \in Nat, c \in Nat, d \in Nat :
              a = SizeOf(SubSeq(all, 1, k)) /\ b = SizeOf(kept) /\ c = r.size /\ d = SizeOf(old)
      BY <1>7
    <3>2. d + c = a + b /\ log.bytes = d
      BY <1>1, <1>6, <3>1
    <3>3. d + c - a = b
      BY <3>2
    <3>q. QED
      BY <3>1, <3>2, <3>3
  <2>q. QED
    BY <1>1, <1>2, <1>5, <2>1, <2>2 DEF Pushed
<1>9. Bounded(Pushed(log, r))
  <2>1. kept # <<>> /\ (SizeOf(kept) > MaxLogBytes => Len(kept) = 1)
    <3>1. kept # <<>> /\ (k + 1 = m => Len(kept) = 1)
      BY <1>3, <1>5
    <3>2. SizeOf(kept) <= MaxLogBytes \/ k + 1 = m
      BY <1>4, <1>5
    <3>3. MaxLogBytes \in Nat
      BY LogAssumption
    <3>q. QED
      BY <1>7, <3>1, <3>2, <3>3
  <2>2. log.first \in Nat
    BY DEF RunLog
  <2>q. QED
    <3>1. PICK p : p = Pushed(log, r)
      OBVIOUS
    <3>2. p \in RunLog /\ p.records = kept /\ p.bytes = SizeOf(kept)
      BY <1>5, <1>7, <1>8, <2>2, <3>1 DEF RunLog
    <3>q. QED
      BY <2>1, <3>1, <3>2 DEF Bounded
<1>10. Ends(kept, Append(mine, r))
  <2>1. PICK n \in Nat : n = Len(mine) /\ mine \in Seq(Record) /\ m - 1 <= n
    BY <1>1, <1>3 DEF Ends
  <2>2. PICK new \in Seq(Record) : /\ new = Append(mine, r) /\ Len(new) = n + 1 /\ new[n + 1] = r
                                   /\ \A i \in 1..n : new[i] = mine[i]
    BY <2>1, OneMoreRecord, Zenon
  <2>3. ASSUME NEW i \in 1..(m - k) PROVE kept[i] = new[(n + 1) - (m - k) + i]
    <3>1. kept[i] = all[k + i] /\ k + i \in 1..m
      BY <1>3, <1>5
    <3>2. CASE k + i = m
      <4>1. all[m] = r /\ (n + 1) - (m - k) + i = n + 1
        <5>1. Len(old) + 1 = m
          BY <1>2, <1>3
        <5>2. all[m] = r
          BY <1>2, <5>1
        <5>3. (n + 1) - (m - k) + i = n + 1
          <6>1. i \in Int /\ k \in Int /\ m \in Int /\ n \in Int /\ k + i = m
            BY <3>2
          <6>q. QED
            BY <6>1
        <5>q. QED
          BY <5>2, <5>3
      <4>q. QED
        BY <2>2, <3>1, <3>2, <4>1
    <3>3. CASE k + i # m
      <4>1. k + i \in 1..(m - 1)
        BY <1>3, <3>1, <3>3
      <4>2. all[k + i] = old[k + i] /\ k + i \in 1..Len(old)
        BY <1>2, <1>3, <4>1
      <4>4. old[k + i] = mine[n - (m - 1) + (k + i)]
        BY <1>1, <1>3, <2>1, <4>2 DEF Ends
      <4>3. n - (m - 1) + (k + i) \in 1..n /\ n - (m - 1) + (k + i) = (n + 1) - (m - k) + i
        BY <1>3, <2>1, <4>1
      <4>q. QED
        BY <2>2, <3>1, <4>2, <4>3, <4>4
    <3>q. QED
      BY <3>2, <3>3
  <2>4. Len(kept) <= Len(new)
    BY <1>3, <1>5, <2>1, <2>2
  <2>q. QED
    BY <1>5, <2>2, <2>3, <2>4 DEF Ends
<1>q. QED
  BY <1>8, <1>9, <1>10

\* A sequence that agrees with the end of another is a suffix of it.
LEMMA SuffixByElements == ASSUME NEW a, NEW b, Ends(a, b) PROVE IsSuffix(a, b)
<1>1. PICK m \in Nat, n \in Nat :
          /\ m = Len(a) /\ n = Len(b) /\ m <= n /\ a \in Seq(Record) /\ b \in Seq(Record)
          /\ \A i \in 1..m : a[i] = b[n - m + i]
  <2>1. Len(a) \in Nat /\ Len(b) \in Nat
    BY DEF Ends
  <2>q. QED
    BY <2>1 DEF Ends
<1>2. PICK c : c = Reverse(a) /\ c = [i \in 1..m |-> a[(m - i) + 1]]
  BY <1>1 DEF Reverse
<1>3. PICK d : d = Reverse(b) /\ d = [i \in 1..n |-> b[(n - i) + 1]]
  BY <1>1 DEF Reverse
<1>4. \A i \in 1..m : (m - i) + 1 \in 1..m /\ n - m + ((m - i) + 1) = (n - i) + 1
  BY <1>1
<1>5. c \in Seq(Record) /\ Len(c) = m
  <2>1. c \in [1..m -> Record]
    BY <1>1, <1>2, <1>4
  <2>q. QED
    BY <2>1
<1>6. d \in Seq(Record) /\ Len(d) = n
  <2>1. \A i \in 1..n : (n - i) + 1 \in 1..n
    OBVIOUS
  <2>2. d \in [1..n -> Record]
    BY <1>1, <1>3, <2>1
  <2>q. QED
    BY <2>2
<1>7. ASSUME NEW i \in 1..m PROVE c[i] = d[i]
  <2>1. c[i] = a[(m - i) + 1] /\ d[i] = b[(n - i) + 1]
    BY <1>1, <1>2, <1>3
  <2>2. a[(m - i) + 1] = b[n - m + ((m - i) + 1)]
    BY <1>1, <1>4
  <2>q. QED
    BY <1>4, <2>1, <2>2
<1>8. IsPrefix(c, d)
  BY <1>1, <1>5, <1>6, <1>7, PrefixByElements
<1>q. QED
  BY <1>2, <1>3, <1>8 DEF IsSuffix

\* What the invariant says of the store's answers.
LEMMA LogsFollow == LogInv => LogsAreTheLatest
<1> SUFFICES ASSUME LogInv PROVE LogsAreTheLatest
  OBVIOUS
<1>1. Range(logOrder) = DOMAIN logStore /\ Len(logOrder) = Cardinality(DOMAIN logStore)
  BY ListsCount DEF LogInv
<1>2. ASSUME NEW run \in DOMAIN logStore
      PROVE  /\ IsSuffix(logStore[run].records, logStored[run]) /\ Bounded(logStore[run])
             /\ RecordsOf(run, 1) = <<Last(logStored[run])>>
  <2>1. Bounded(logStore[run]) /\ Ends(logStore[run].records, logStored[run])
    BY DEF LogInv
  <2>2. PICK all, mine : all = logStore[run].records /\ mine = logStored[run]
    OBVIOUS
  <2>3. PICK m \in Nat, n \in Nat :
            /\ m = Len(all) /\ n = Len(mine) /\ m # 0 /\ m <= n /\ all[m] = mine[n - m + m]
            /\ all \in Seq(Record) /\ n - m + m = n
    <3>1. /\ all \in Seq(Record) /\ mine \in Seq(Record) /\ all # <<>> /\ Len(all) <= Len(mine)
          /\ \A i \in 1..Len(all) : all[i] = mine[Len(mine) - Len(all) + i]
      BY <2>1, <2>2 DEF Ends, Bounded
    <3>2. Len(all) \in Nat /\ Len(mine) \in Nat /\ Len(all) \in 1..Len(all) /\ Len(all) # 0
      BY <3>1
    <3>3. Len(mine) - Len(all) + Len(all) = Len(mine)
      BY <3>2
    <3>q. QED
      BY <3>1, <3>2, <3>3
  <2>4. RecordsOf(run, 1) = SubSeq(all, m, m)
    <3>1. (IF m > 1 THEN m - 1 ELSE 0) + 1 = m
      BY <2>3
    <3>q. QED
      BY <2>2, <2>3, <3>1 DEF RecordsOf
  <2>5. SubSeq(all, m, m) = <<all[m]>>
    <3>1. SubSeq(all, m, m) = [i \in 1..(m - m + 1) |-> all[m + i - 1]]
      BY DEF SubSeq
    <3>2. m - m + 1 = 1 /\ m + 1 - 1 = m
      OBVIOUS
    <3>3. SubSeq(all, m, m) = [i \in 1..1 |-> all[m + i - 1]]
      BY <3>1, <3>2
    <3>4. [i \in 1..1 |-> all[m + i - 1]] = <<all[m]>>
      BY <3>2
    <3>q. QED
      BY <3>3, <3>4
  <2>6. IsSuffix(logStore[run].records, logStored[run])
    BY <2>1, SuffixByElements
  <2>q. QED
    BY <2>1, <2>2, <2>3, <2>4, <2>5, <2>6 DEF Last
<1>3. Len(logOrder) <= MaxLogRuns
  BY DEF LogInv
<1>q. QED
  BY <1>1, <1>2, <1>3 DEF LogsAreTheLatest, Bounded

\* The drain task's step.
LEMMA RecordStep == ASSUME LogInv, record PROVE LogInv'
<1>1. PICK r, live, log, order, excess, evicted :
          /\ r = Head(logChannel) /\ live = LiveRuns(r.at)
          /\ log = Pushed(LogFor(r, live), r) /\ order = OrderWith(r.run, live)
          /\ excess = (IF Len(order) > MaxLogRuns THEN Len(order) - MaxLogRuns ELSE 0)
          /\ evicted = {order[i] : i \in 1..excess}
          /\ logChannel # <<>> /\ logChannel' = Tail(logChannel)
          /\ logOrder' = SubSeq(order, excess + 1, Len(order))
          /\ logStore' = [run \in (live \cup {r.run}) \ evicted |->
                              IF run = r.run THEN log ELSE logStore[run]]
          /\ logStored' = [logStored EXCEPT ![r.run] = Append(@, r)]
          /\ UNCHANGED <<logOn, logClock, logEvents, logHeld>>
  BY DEF record
<1>2. r \in Record /\ logChannel' \in Seq(Record)
  BY <1>1 DEF LogInv
<1>3. live \subseteq DOMAIN logStore /\ live \subseteq LogRuns /\ r.run \in LogRuns /\ r.at \in Nat
  BY <1>1, <1>2 DEF LogInv, LiveRuns, Record
<1>4. PICK held : held = live \cup {r.run} /\ Lists(order, held)
  <2>1. Lists(LiveOrder(live), live)
    <3>1. PICK S : S = DOMAIN logStore /\ S \subseteq LogRuns /\ Lists(logOrder, S)
      BY DEF LogInv
    <3>2. Lists(retain(logOrder, LogRuns \ live), S \ (LogRuns \ live))
      BY <3>1, ListsRetained
    <3>3. S \ (LogRuns \ live) = live
      BY <1>3, <3>1
    <3>q. QED
      BY <3>2, <3>3 DEF LiveOrder
  <2>2. CASE r.run \in live
    BY <1>1, <2>1, <2>2, live \cup {r.run} = live DEF OrderWith
  <2>3. CASE r.run \notin live
    BY <1>1, <2>1, <2>3, ListsAppend DEF OrderWith
  <2>q. QED
    BY <2>2, <2>3
<1>5. /\ excess \in 0..Len(order) /\ Len(order) - excess <= MaxLogRuns
  BY <1>1, <1>4, LogAssumption DEF Lists
<1>6. Lists(logOrder', held \ evicted) /\ Len(logOrder') <= MaxLogRuns
  <2>1. /\ Lists(SubSeq(order, excess + 1, Len(order)), held \ {order[i] : i \in 1..excess})
        /\ Len(SubSeq(order, excess + 1, Len(order))) = Len(order) - excess
    BY <1>4, <1>5, ListsDropped
  <2>q. QED
    BY <1>1, <1>5, <2>1
<1>7. DOMAIN logStore' = held \ evicted /\ DOMAIN logStore' \subseteq LogRuns
  BY <1>1, <1>3, <1>4
<1>8. logStored' \in [LogRuns -> Seq(Record)]
  <2>1. logStored \in [LogRuns -> Seq(Record)]
    BY DEF LogInv
  <2>2. Append(logStored[r.run], r) \in Seq(Record)
    BY <1>2, <1>3, <2>1, OneMoreRecord
  <2>q. QED
    BY <1>1, <1>3, <2>1, <2>2
<1>9. Bounded(log) /\ Ends(log.records, Append(logStored[r.run], r))
  <2>1. PICK old : old = LogFor(r, live)
    OBVIOUS
  <2>2. old \in RunLog /\ old.bytes = SizeOf(old.records) /\ Ends(old.records, logStored[r.run])
    <3>1. CASE r.run \in live
      BY <1>3, <2>1, <3>1 DEF LogFor, LogInv, Bounded
    <3>2. CASE r.run \notin live
      <4>1. old.records = <<>> /\ old.bytes = 0 /\ old \in RunLog
        BY <1>3, <2>1, <3>2 DEF LogFor, RunLog
      <4>2. SizeOf(<<>>) = 0
        <5>1. SizesOf(<<>>) \in Seq(Nat) /\ SizesOf(<<>>) = <<>>
          BY DEF SizesOf
        <5>q. QED
          BY <5>1, SeqSumType DEF SizeOf, SizesOf
      <4>3. Ends(<<>>, logStored[r.run])
        BY <1>3 DEF Ends, LogInv
      <4>q. QED
        BY <4>1, <4>2, <4>3
    <3>q. QED
      BY <3>1, <3>2
  <2>q. QED
    BY <1>1, <1>2, <2>1, <2>2, PushedKeeps
<1>10. ASSUME NEW run \in DOMAIN logStore'
       PROVE  Bounded(logStore'[run]) /\ Ends(logStore'[run].records, logStored'[run])
  <2>1. CASE run = r.run
    <3>1. logStore'[run] = log /\ logStored'[run] = Append(logStored[r.run], r)
      BY <1>1, <1>3, <1>10, <2>1 DEF LogInv
    <3>q. QED
      BY <1>9, <3>1
  <2>2. CASE run # r.run
    <3>1. run \in live
      BY <1>4, <1>7, <1>10, <2>2
    <3>2. logStore'[run] = logStore[run] /\ logStored'[run] = logStored[run] /\ run \in DOMAIN logStore
      BY <1>1, <1>3, <1>10, <2>2, <3>1 DEF LogInv
    <3>q. QED
      BY <3>2 DEF LogInv
  <2>q. QED
    BY <2>1, <2>2
<1>11. /\ logOn' \in BOOLEAN /\ logClock' \in Nat /\ logEvents' \in Nat
       /\ logHeld' \in [Threads -> Record \cup {NoRecord}]
  BY <1>1 DEF LogInv
<1>12. /\ Lists(logOrder', DOMAIN logStore')
  BY <1>6, <1>7
<1>q. QED
  BY <1>2, <1>6, <1>7, <1>8, <1>10, <1>11, <1>12 DEF LogInv

\* Every step of the capture keeps its invariant.
LEMMA LogStep == LogInv /\ [LogNext]_logVars => LogInv'
<1> SUFFICES ASSUME LogInv, [LogNext]_logVars PROVE LogInv'
  OBVIOUS
<1>1. ASSUME NEW t \in Threads, NEW run \in LogRuns, NEW size \in Sizes, Stamp(t, run, size)
      PROVE  LogInv'
  <2>1. PICK r \in Record : logHeld' = [logHeld EXCEPT ![t] = r]
    BY <1>1 DEF Stamp, LogInv, Record
  <2>2. logHeld' \in [Threads -> Record \cup {NoRecord}] /\ logEvents' \in Nat
    BY <1>1, <2>1 DEF Stamp, LogInv
  <2>3. UNCHANGED <<logOn, logClock, logChannel, logStore, logOrder, logStored>>
    BY <1>1 DEF Stamp
  <2>q. QED
    BY <2>2, <2>3 DEF LogInv
<1>2. ASSUME NEW t \in Threads, Forward(t) PROVE LogInv'
  <2>1. logHeld[t] \in Record
    BY <1>2 DEF Forward, LogInv
  <2>2. Append(logChannel, logHeld[t]) \in Seq(Record) /\ logChannel \in Seq(Record)
    BY <2>1, OneMoreRecord DEF LogInv
  <2>3. logHeld' \in [Threads -> Record \cup {NoRecord}] /\ logChannel' \in Seq(Record)
    BY <1>2, <2>2 DEF Forward, LogInv
  <2>4. UNCHANGED <<logOn, logClock, logEvents, logStore, logOrder, logStored>>
    BY <1>2 DEF Forward
  <2>q. QED
    BY <2>3, <2>4 DEF LogInv
<1>3. CASE LogTick
  BY <1>3 DEF LogTick, LogInv
<1>4. CASE record
  BY <1>4, RecordStep
<1>5. CASE UNCHANGED logVars
  BY <1>5 DEF logVars, LogInv
<1>q. QED
  BY <1>1, <1>2, <1>3, <1>4, <1>5 DEF LogNext

\* The capture starts with an empty store.
LEMMA LogStarts == logOn \in BOOLEAN /\ LogStart => LogInv
<1> SUFFICES ASSUME logOn \in BOOLEAN, LogStart PROVE LogInv
  OBVIOUS
<1>1. logHeld \in [Threads -> Record \cup {NoRecord}] /\ logStored \in [LogRuns -> Seq(Record)]
  BY DEF LogStart
<1>2. PICK N : N = DOMAIN logStore /\ N = {}
  BY DEF LogStart
<1>3. Lists(<<>>, N)
  BY <1>2 DEF Lists
<1>q. QED
  BY <1>1, <1>2, <1>3, LogAssumption DEF LogStart, LogInv

\* The bounded histories of a job's runs, its captured log and its recent runs,
\* hold the latest of what happened, whatever was shed, expired or evicted.
THEOREM HistoriesHoldTheLatest == LogSpec /\ SchedulerSpec => []HistoriesAgree
<1>1. LogSpec => []LogsAreTheLatest
  BY LogStarts, LogStep, LogsFollow, PTL DEF LogSpec
<1>2. LogsAreTheLatest /\ HistoryAgrees => HistoriesAgree
  BY DEF HistoriesAgree
<1>q. QED
  BY <1>1, <1>2, HistoriesStayTrue, PTL

-----------------------------------------------------------------------------
(* NdjsonStream: the lines of a body, by the position up to which it is     *)
(* read.                                                                    *)

BodyLines == Seq(Seq(Bytes))

\* A line ends at n, and is not empty.
EndsLine(body, n) == n \in Cuts(body) /\ n - 1 \notin Cuts(body)

\* f holds the lines that end before each position.
IsLines(f, body) ==
    f = [n \in 0..(Len(body) + 1) |->
            IF n = 0 THEN <<>>
            ELSE IF EndsLine(body, n) THEN Append(f[n - 1], LineBefore(body, n)) ELSE f[n - 1]]
LinesAt(f, body) ==
    /\ f \in [0..(Len(body) + 1) -> BodyLines] /\ f[0] = <<>>
    /\ \A n \in 1..(Len(body) + 1) :
        f[n] = IF EndsLine(body, n) THEN Append(f[n - 1], LineBefore(body, n)) ELSE f[n - 1]

\* The cut before a position, and the line from there.
LEMMA CutBefore ==
    ASSUME NEW body \in Seq(Bytes), NEW n \in 1..(Len(body) + 1)
    PROVE  \E c \in Cuts(body) :
              /\ c \in 0..(n - 1) /\ \A d \in Cuts(body) : ~(c < d /\ d < n)
              /\ LineBefore(body, n) = SubSeq(body, c + 1, n - 1)
<1>1. PICK m \in Nat : m = Len(body) /\ n \in 1..(m + 1) /\ DOMAIN body = 1..m
  OBVIOUS
<1> DEFINE before == {c \in Cuts(body) : c < n}
           cut == CHOOSE c \in before : \A d \in before : d <= c
<1>2. before \subseteq 0..(n - 1) /\ 0 \in before /\ n - 1 \in Nat
  BY <1>1 DEF Cuts
<1>3. cut \in before /\ \A d \in before : d <= cut
  <2> HIDE DEF before
  <2>1. \E c \in before : \A d \in before : d <= c
    BY <1>2, GreatestOf
  <2>q. QED
    BY <2>1
<1>4. LineBefore(body, n) = SubSeq(body, cut + 1, n - 1)
  BY DEF LineBefore
<1>5. PICK c : c = cut
  OBVIOUS
<1>6. c \in Cuts(body) /\ c \in 0..(n - 1)
  BY <1>2, <1>3, <1>5
<1>7. ASSUME NEW d \in Cuts(body), c < d, d < n PROVE FALSE
  <2>1. d \in before /\ d \in Int /\ c \in Int
    BY <1>2, <1>6, <1>7
  <2>2. d <= c
    BY <1>3, <1>5, <2>1
  <2>q. QED
    BY <1>7, <2>1, <2>2
<1>q. QED
  BY <1>4, <1>5, <1>6, <1>7

\* A line is made of the body's bytes.
LEMMA LineBeforeType ==
    ASSUME NEW body \in Seq(Bytes), NEW n \in 1..(Len(body) + 1)
    PROVE  LineBefore(body, n) \in Seq(Bytes)
<1>1. PICK m \in Nat : m = Len(body) /\ n \in 1..(m + 1)
  OBVIOUS
<1>2. PICK c \in 0..(n - 1) : LineBefore(body, n) = SubSeq(body, c + 1, n - 1)
  BY CutBefore
<1>3. c + 1 \in 1..(Len(body) + 2) /\ n - 1 \in 0..Len(body)
  BY <1>1
<1>q. QED
  BY <1>2, <1>3, PartOf

\* The recursion of Lines has a solution.
LEMMA LinesAre ==
    ASSUME NEW body \in Seq(Bytes)
    PROVE  \E f : LinesAt(f, body) /\ Lines(body) = f[Len(body) + 1]
<1>1. PICK m \in Nat : m = Len(body) + 1
  OBVIOUS
<1>2. PICK V : V = BodyLines
  OBVIOUS
<1>3. PICK g : g = [n \in 1..m |-> [v \in V |-> IF EndsLine(body, n) THEN Append(v, LineBefore(body, n)) ELSE v]]
  OBVIOUS
<1>4. <<>> \in V
  BY <1>2 DEF BodyLines
<1>5. ASSUME NEW n \in 1..m, NEW v \in V PROVE Append(v, LineBefore(body, n)) \in V
  <2>1. LineBefore(body, n) \in Seq(Bytes)
    BY <1>1, LineBeforeType
  <2>2. v \in Seq(Seq(Bytes))
    BY <1>2 DEF BodyLines
  <2>3. PICK T, x : T = Seq(Bytes) /\ x = LineBefore(body, n) /\ x \in T /\ v \in Seq(T)
    BY <2>1, <2>2
  <2>4. Append(v, x) \in Seq(T)
    BY <2>3
  <2>q. QED
    BY <1>2, <2>3, <2>4 DEF BodyLines
<1>6. Maps(g, m, V)
  BY <1>3, <1>5 DEF Maps
<1>7. PICK f : Iterates(f, <<>>, g, m, V)
  BY <1>4, <1>6, Iterated
<1>8. /\ f \in [0..m -> V] /\ f[0] = <<>>
      /\ \A n \in 1..m : f[n] = IF EndsLine(body, n) THEN Append(f[n - 1], LineBefore(body, n)) ELSE f[n - 1]
  <2>1. f \in [0..m -> V] /\ f[0] = <<>> /\ \A n \in 1..m : f[n] = g[n][f[n - 1]]
    BY <1>7 DEF Iterates
  <2>2. ASSUME NEW n \in 1..m
        PROVE  f[n] = IF EndsLine(body, n) THEN Append(f[n - 1], LineBefore(body, n)) ELSE f[n - 1]
    <3>1. f[n - 1] \in V
      BY <2>1, n - 1 \in 0..m
    <3>q. QED
      BY <1>3, <2>1, <3>1
  <2>q. QED
    BY <2>1, <2>2
<1>9. LinesAt(f, body)
  BY <1>1, <1>2, <1>8 DEF LinesAt
<1>10. IsLines(f, body)
  <2>1. \A n \in 0..m : n # 0 => n \in 1..m
    OBVIOUS
  <2>q. QED
    BY <1>1, <1>8, <2>1 DEF IsLines
<1>11. PICK h : h = (CHOOSE e : IsLines(e, body)) /\ IsLines(h, body)
  BY <1>10
<1>12. Lines(body) = h[m]
  BY <1>1, <1>11 DEF Lines, IsLines, EndsLine
<1>13. LinesAt(h, body)
  <2>1. \A n \in 0..m : h[n] = IF n = 0 THEN <<>> ELSE IF EndsLine(body, n) THEN Append(h[n - 1], LineBefore(body, n)) ELSE h[n - 1]
    <3> DEFINE e == [n \in 0..m |-> IF n = 0 THEN <<>> ELSE IF EndsLine(body, n) THEN Append(h[n - 1], LineBefore(body, n)) ELSE h[n - 1]]
    <3>1. h = e
      BY <1>1, <1>11 DEF IsLines
    <3>2. \A n \in 0..m : e[n] = IF n = 0 THEN <<>> ELSE IF EndsLine(body, n) THEN Append(h[n - 1], LineBefore(body, n)) ELSE h[n - 1]
      OBVIOUS
    <3> HIDE DEF e
    <3>q. QED
      BY <3>1, <3>2
  <2> DEFINE G == {n \in 0..m : h[n] = f[n]}
  <2>2. 0 \in G
    BY <1>8, <2>1
  <2>3. ASSUME NEW n \in 0..(m - 1), n \in G PROVE n + 1 \in G
    <3>1. n + 1 \in 1..m /\ (n + 1) - 1 = n /\ n + 1 \in 0..m /\ n + 1 # 0
      OBVIOUS
    <3>2. h[n] = f[n]
      BY <2>3
    <3>3. h[n + 1] = IF EndsLine(body, n + 1) THEN Append(h[n], LineBefore(body, n + 1)) ELSE h[n]
      BY <2>1, <3>1
    <3>4. f[n + 1] = IF EndsLine(body, n + 1) THEN Append(f[n], LineBefore(body, n + 1)) ELSE f[n]
      BY <1>8, <3>1
    <3>q. QED
      BY <3>1, <3>2, <3>3, <3>4
  <2>4. ASSUME NEW n \in 0..m PROVE h[n] = f[n]
    <3>1. n \in G
      <4> HIDE DEF G
      <4>1. n \in Nat /\ \A k \in 0..(n - 1) : k \in 0..(m - 1)
        OBVIOUS
      <4>q. QED
        BY <2>2, <2>3, <4>1, Climb
    <3>q. QED
      BY <3>1
  <2>5. h = f
    <3>1. DOMAIN h = 0..m /\ h = [n \in 0..m |-> h[n]]
      BY <1>1, <1>11 DEF IsLines
    <3>2. f = [n \in 0..m |-> f[n]]
      BY <1>8
    <3>3. [n \in 0..m |-> h[n]] = [n \in 0..m |-> f[n]]
      BY <2>4
    <3>q. QED
      BY <3>1, <3>2, <3>3, Zenon
  <2>q. QED
    BY <1>9, <2>5
<1>q. QED
  BY <1>1, <1>12, <1>13

\* Between two cuts there is one line, or none.
LEMMA LineTaken ==
    ASSUME NEW body \in Seq(Bytes), NEW f, LinesAt(f, body), NEW p \in Cuts(body), NEW q \in Cuts(body),
           p < q, \A d \in Cuts(body) : ~(p < d /\ d < q)
    PROVE  f[q] = IF q = p + 1 THEN f[p] ELSE Append(f[p], SubSeq(body, p + 1, q - 1))
<1>1. PICK m \in Nat : m = Len(body) /\ DOMAIN body = 1..m /\ p \in 0..m /\ q \in 1..(m + 1)
  BY DEF Cuts
<1>2. ASSUME NEW n \in 1..(m + 1)
      PROVE  f[n] = IF EndsLine(body, n) THEN Append(f[n - 1], LineBefore(body, n)) ELSE f[n - 1]
  BY <1>1 DEF LinesAt
<1>3. f[q - 1] = f[p]
  <2>1. PICK k \in Nat : k = (q - 1) - p
    BY <1>1
  <2> DEFINE G == {j \in 0..k : f[p + j] = f[p]}
  <2>2. 0 \in G
    BY <1>1
  <2>3. ASSUME NEW j \in 0..(k - 1), j \in G PROVE j + 1 \in G
    <3>1. p + (j + 1) \in 1..(m + 1) /\ p < p + (j + 1) /\ p + (j + 1) < q /\ (p + (j + 1)) - 1 = p + j
      BY <1>1, <2>1
    <3>2. p + (j + 1) \notin Cuts(body)
      BY <3>1
    <3>3. f[p + (j + 1)] = f[p + j]
      BY <1>2, <3>1, <3>2 DEF EndsLine
    <3>4. f[p + j] = f[p] /\ j + 1 \in 0..k
      BY <2>1, <2>3
    <3>q. QED
      BY <3>3, <3>4
  <2>4. k \in G
    <3> HIDE DEF G
    <3>q. QED
      BY <2>2, <2>3, Climb
  <2>5. f[p + k] = f[p]
    BY <2>4
  <2>6. p + k = q - 1
    BY <1>1, <2>1
  <2>q. QED
    BY <2>5, <2>6
<1>4. q \in 1..(m + 1) /\ f[q] = IF EndsLine(body, q) THEN Append(f[q - 1], LineBefore(body, q)) ELSE f[q - 1]
  BY <1>1, <1>2
<1>5. CASE q = p + 1
  <2>1. ~EndsLine(body, q)
    BY <1>1, <1>5 DEF EndsLine
  <2>q. QED
    BY <1>3, <1>4, <1>5, <2>1
<1>6. CASE q # p + 1
  <2>1. p < q - 1 /\ q - 1 < q
    BY <1>1, <1>6
  <2>2. EndsLine(body, q)
    BY <2>1 DEF EndsLine
  <2>3. PICK c \in Cuts(body) : /\ c \in 0..(q - 1) /\ \A d \in Cuts(body) : ~(c < d /\ d < q)
                               /\ LineBefore(body, q) = SubSeq(body, c + 1, q - 1)
    BY <1>1, CutBefore
  <2>4. c = p
    <3>1. c \in Int /\ p \in Int /\ c < q
      BY <1>1, <2>3
    <3>2. ~(p < c) /\ ~(c < p)
      BY <2>3, <3>1
    <3>q. QED
      BY <3>1, <3>2
  <2>q. QED
    BY <1>3, <1>4, <1>6, <2>2, <2>3, <2>4
<1>q. QED
  BY <1>5, <1>6

\* a begins b.
Begins(a, b) ==
    a \in BodyLines /\ b \in BodyLines /\ Len(a) <= Len(b) /\ \A i \in 1..Len(a) : a[i] = b[i]

\* What is read first comes first.
LEMMA LinesGrow ==
    ASSUME NEW body \in Seq(Bytes), NEW f, LinesAt(f, body), NEW p \in 0..(Len(body) + 1)
    PROVE  \A q \in p..(Len(body) + 1) : Begins(f[p], f[q])
<1>1. PICK m \in Nat : m = Len(body) + 1 /\ p \in 0..m
  OBVIOUS
<1>2. PICK k \in Nat : k = m - p
  BY <1>1
<1> DEFINE G == {j \in 0..k : Begins(f[p], f[p + j])}
<1>3. ASSUME NEW n \in 0..m PROVE f[n] \in BodyLines
  BY <1>1 DEF LinesAt
<1>4. 0 \in G
  <2>1. p + 0 = p /\ f[p] \in BodyLines
    BY <1>1, <1>3
  <2>2. Begins(f[p], f[p])
    BY <2>1 DEF Begins, BodyLines
  <2>q. QED
    BY <2>1, <2>2
<1>5. ASSUME NEW j \in 0..(k - 1), j \in G PROVE j + 1 \in G
  <2>1. PICK n \in 1..m : n = p + (j + 1) /\ n - 1 = p + j /\ n - 1 \in 0..m /\ n \in 0..m
    BY <1>1, <1>2
  <2>2. f[n] = IF EndsLine(body, n) THEN Append(f[n - 1], LineBefore(body, n)) ELSE f[n - 1]
    BY <1>1, <2>1 DEF LinesAt
  <2>3. Begins(f[p], f[n - 1]) /\ j + 1 \in 0..k
    BY <1>2, <1>5, <2>1
  <2>4. f[n] \in BodyLines /\ f[n - 1] \in BodyLines
    BY <1>3, <2>1
  <2>5. CASE EndsLine(body, n)
    <3>1. LineBefore(body, n) \in Seq(Bytes)
      BY <1>1, LineBeforeType
    <3>2. PICK T, a, x : T = Seq(Bytes) /\ a = f[n - 1] /\ x = LineBefore(body, n) /\ x \in T /\ a \in Seq(T)
      BY <2>4, <3>1 DEF BodyLines
    <3>3. Len(Append(a, x)) = Len(a) + 1 /\ \A i \in 1..Len(a) : Append(a, x)[i] = a[i]
      BY <3>2
    <3>4. Len(f[n]) = Len(f[n - 1]) + 1 /\ \A i \in 1..Len(f[n - 1]) : f[n][i] = f[n - 1][i]
      BY <2>2, <2>5, <3>2, <3>3
    <3>5. Len(f[p]) \in Nat /\ Len(f[n - 1]) \in Nat
      BY <2>3, SMTT(30) DEF Begins, BodyLines
    <3>6. Begins(f[p], f[n])
      BY <2>3, <2>4, <3>4, <3>5 DEF Begins
    <3>q. QED
      BY <2>1, <2>3, <3>6
  <2>6. CASE ~EndsLine(body, n)
    BY <2>1, <2>2, <2>3, <2>6
  <2>q. QED
    BY <2>5, <2>6
<1>6. ASSUME NEW q \in p..(Len(body) + 1) PROVE Begins(f[p], f[q])
  <2>1. PICK j \in Nat : p + j = q /\ j \in 0..k /\ \A i \in 0..(j - 1) : i \in 0..(k - 1)
    BY <1>1, <1>2, q - p \in Nat, p + (q - p) = q
  <2>2. j \in G
    <3> HIDE DEF G
    <3>q. QED
      BY <1>4, <1>5, <2>1, Climb
  <2>q. QED
    BY <2>1, <2>2
<1>q. QED
  BY <1>6

\* buf holds the body from after p up to q.
Buffered(buf, body, p, q) ==
    /\ buf \in Seq(Bytes) /\ Len(buf) = (IF p < q THEN q - p ELSE 0)
    /\ \A i \in 1..Len(buf) : buf[i] = body[p + i]

\* The position of the first newline.
LEMMA FirstNewline ==
    ASSUME NEW buf \in Seq(Bytes), HasNewline(buf)
    PROVE  /\ Newline(buf) \in 1..Len(buf) /\ buf[Newline(buf)] = NL
           /\ \A j \in 1..(Newline(buf) - 1) : buf[j] # NL
<1>1. PICK n \in Nat : n = Len(buf) /\ DOMAIN buf = 1..n
  OBVIOUS
<1> DEFINE S == {i \in 1..n : buf[i] = NL}
<1>2. S \subseteq Nat /\ S # {}
  BY <1>1 DEF HasNewline
<1>3. PICK i \in S : \A j \in S : i <= j
  <2> HIDE DEF S
  <2>q. QED
    BY <1>2, LeastOf
<1>4. \A j \in 1..(i - 1) : buf[j] # NL
  <2> SUFFICES ASSUME NEW j \in 1..(i - 1), buf[j] = NL PROVE FALSE
    OBVIOUS
  <2>1. j \in 1..n /\ j < i
    BY <1>1
  <2>2. j \in S
    BY <2>1
  <2>q. QED
    BY <1>3, <2>1, <2>2
<1>5. \E k \in DOMAIN buf : buf[k] = NL /\ \A j \in 1..(k - 1) : buf[j] # NL
  BY <1>1, <1>4
<1>6. Newline(buf) \in DOMAIN buf /\ buf[Newline(buf)] = NL /\ \A j \in 1..(Newline(buf) - 1) : buf[j] # NL
  BY <1>5 DEF Newline
<1>q. QED
  BY <1>1, <1>6

\* The first line in the decoder's buffer is the next one of the body.
LEMMA BufferLine ==
    ASSUME NEW body \in Seq(Bytes), NEW p \in Cuts(body), NEW q \in 0..Len(body), NEW buf,
           Buffered(buf, body, p, q), HasNewline(buf)
    PROVE  \E at \in 1..Len(buf) :
              /\ at = Newline(buf) /\ p + at \in Cuts(body) /\ p + at <= q /\ p < p + at
              /\ \A d \in Cuts(body) : ~(p < d /\ d < p + at)
              /\ SubSeq(buf, 1, at - 1) = SubSeq(body, p + 1, (p + at) - 1)
              /\ Buffered(After(buf, at), body, p + at, q)
<1>1. PICK m \in Nat : m = Len(body) /\ DOMAIN body = 1..m /\ p \in 0..(m + 1) /\ q \in 0..m
  BY DEF Cuts
<1>2. PICK n \in Nat : n = Len(buf) /\ buf \in Seq(Bytes)
  BY DEF Buffered
<1>3. PICK at \in 1..n : at = Newline(buf) /\ buf[at] = NL /\ \A j \in 1..(at - 1) : buf[j] # NL
  BY <1>2, FirstNewline
<1>5. n = q - p /\ p < q /\ \A i \in 1..n : buf[i] = body[p + i]
  BY <1>1, <1>2, <1>3 DEF Buffered
<1>7. p + at \in 1..m /\ p + at <= q /\ p + at \in Cuts(body) /\ p < p + at
  <2>1. p + at \in 1..m /\ p + at <= q /\ p < p + at
    BY <1>1, <1>3, <1>5
  <2>2. body[p + at] = NL
    BY <1>3, <1>5
  <2>q. QED
    BY <1>1, <2>1, <2>2 DEF Cuts
<1>8. ASSUME NEW d \in Cuts(body), p < d, d < p + at PROVE FALSE
  <2>1. d \in 1..m /\ body[d] = NL
    BY <1>1, <1>7, <1>8 DEF Cuts
  <2>2. PICK j \in 1..(at - 1) : p + j = d /\ j \in 1..n
    BY <1>1, <1>3, <1>8, <2>1, d - p \in 1..(at - 1), p + (d - p) = d
  <2>3. buf[j] = body[d]
    BY <1>5, <2>2
  <2>q. QED
    BY <1>3, <2>1, <2>2, <2>3
<1>9. SubSeq(buf, 1, at - 1) = SubSeq(body, p + 1, (p + at) - 1)
  <2>0. SubSeq(buf, 1, at - 1) = [i \in 1..(at - 1 - 1 + 1) |-> buf[1 + i - 1]]
    BY DEF SubSeq
  <2>1. SubSeq(body, p + 1, (p + at) - 1) = [i \in 1..((p + at) - 1 - (p + 1) + 1) |-> body[(p + 1) + i - 1]]
    BY <1>1 DEF SubSeq
  <2>2. at - 1 - 1 + 1 = at - 1 /\ (p + at) - 1 - (p + 1) + 1 = at - 1
    BY <1>1, <1>3
  <2>3. \A i \in 1..(at - 1) : i \in 1..n /\ 1 + i - 1 = i /\ (p + 1) + i - 1 = p + i
    BY <1>1, <1>2, <1>3
  <2>4. \A i \in 1..(at - 1) : buf[1 + i - 1] = body[(p + 1) + i - 1]
    BY <1>5, <2>3
  <2>q. QED
    BY <2>0, <2>1, <2>2, <2>4, ZenonT(40)
<1>10. Buffered(After(buf, at), body, p + at, q)
  <2>1. PICK t : t = After(buf, at) /\ t = SubSeq(buf, at + 1, n)
    BY <1>2 DEF After
  <2>2. at + 1 \in 1..(Len(buf) + 2) /\ n \in 0..Len(buf)
    BY <1>2, <1>3
  <2>3. /\ t \in Seq(Bytes) /\ Len(t) = IF at + 1 <= n THEN n - (at + 1) + 1 ELSE 0
        /\ \A i \in 1..(n - (at + 1) + 1) : t[i] = buf[(at + 1) + i - 1]
    BY <1>2, <2>1, <2>2, PartOf
  <2>4. Len(t) = IF p + at < q THEN q - (p + at) ELSE 0
    BY <1>1, <1>3, <1>5, <2>3
  <2>5. ASSUME NEW i \in 1..Len(t) PROVE t[i] = body[(p + at) + i]
    <3>1. i \in 1..(n - (at + 1) + 1) /\ at + i \in 1..n /\ (at + 1) + i - 1 = at + i /\ p + (at + i) = (p + at) + i
      <4>1. i \in 1..(n - at)
        BY <1>2, <2>3
      <4>q. QED
        BY <1>1, <1>2, <4>1
    <3>q. QED
      BY <1>5, <2>3, <3>1
  <2>q. QED
    BY <2>1, <2>3, <2>4, <2>5 DEF Buffered
<1>q. QED
  BY <1>2, <1>3, <1>7, <1>8, <1>9, <1>10

-----------------------------------------------------------------------------
(* What the decoder has made of what it has read.                           *)

Good(a) == \A i \in 1..Len(a) : GoodLine(a[i])

\* a are the first lines of the body, all good; and all of those before the first bad one.
SureOf(a, body) == Begins(a, Lines(body)) /\ Good(a)
Whole(a, body) ==
    SureOf(a, body) /\ (Len(a) < Len(Lines(body)) => ~GoodLine(Lines(body)[Len(a) + 1]))

\* The items are the lines before a cut p, the buffer is the body from there up to q.
Reading(items, buf, body, p, q) ==
    /\ p \in Cuts(body) /\ q \in 0..Len(body) /\ (p <= q \/ p = Len(body) + 1)
    /\ Buffered(buf, body, p, q) /\ Good(items)
    /\ \E f : LinesAt(f, body) /\ Lines(body) = f[Len(body) + 1] /\ items = f[p]

\* What a reading decoder has is sure.
LEMMA ReadingSure ==
    ASSUME NEW body \in Seq(Bytes), NEW items, NEW buf, NEW p, NEW q, Reading(items, buf, body, p, q)
    PROVE  SureOf(items, body) /\ items \in BodyLines
<1>1. PICK f : LinesAt(f, body) /\ Lines(body) = f[Len(body) + 1] /\ items = f[p] /\ Good(items)
  BY DEF Reading
<1>2. p \in 0..(Len(body) + 1) /\ Len(body) + 1 \in p..(Len(body) + 1)
  BY DEF Reading, Cuts
<1>3. Begins(items, Lines(body))
  BY <1>1, <1>2, LinesGrow
<1>q. QED
  BY <1>1, <1>3 DEF SureOf, Begins

\* One more line.
LEMMA OneMoreLine ==
    ASSUME NEW a \in BodyLines, NEW line \in Seq(Bytes)
    PROVE  /\ Append(a, line) \in BodyLines /\ Len(Append(a, line)) = Len(a) + 1 /\ Len(a) \in Nat
           /\ Append(a, line)[Len(a) + 1] = line /\ \A i \in 1..Len(a) : Append(a, line)[i] = a[i]
           /\ Good(a) /\ GoodLine(line) => Good(Append(a, line))
<1>1. PICK T : T = Seq(Bytes) /\ a \in Seq(T) /\ line \in T
  BY DEF BodyLines
<1>2. PICK b : b = Append(a, line)
  OBVIOUS
<1>3. /\ b \in Seq(T) /\ Len(b) = Len(a) + 1 /\ Len(a) \in Nat
      /\ b[Len(a) + 1] = line /\ \A i \in 1..Len(a) : b[i] = a[i]
  BY <1>1, <1>2
<1>4. ASSUME Good(a), GoodLine(line), NEW i \in 1..Len(b) PROVE GoodLine(b[i])
  <2>1. i = Len(a) + 1 \/ i \in 1..Len(a)
    BY <1>3
  <2>q. QED
    BY <1>3, <1>4, <2>1 DEF Good
<1>q. QED
  BY <1>1, <1>2, <1>3, <1>4 DEF BodyLines, Good

\* The line up to the next cut r: the one after the items.
LEMMA LineNext ==
    ASSUME NEW body \in Seq(Bytes), NEW items, NEW buf, NEW p, NEW q, Reading(items, buf, body, p, q),
           NEW r \in Cuts(body), p < r, \A d \in Cuts(body) : ~(p < d /\ d < r)
    PROVE  /\ \E f : LinesAt(f, body) /\ Lines(body) = f[Len(body) + 1]
                     /\ f[r] = IF r = p + 1 THEN items ELSE Append(items, SubSeq(body, p + 1, r - 1))
           /\ r # p + 1 => /\ SubSeq(body, p + 1, r - 1) \in Seq(Bytes)
                           /\ Len(SubSeq(body, p + 1, r - 1)) = (r - 1) - p
                           /\ ~GoodLine(SubSeq(body, p + 1, r - 1)) => Whole(items, body)
           /\ r = Len(body) + 1 /\ r = p + 1 => Whole(items, body)
<1>1. PICK m \in Nat : m = Len(body) /\ p \in 0..(m + 1) /\ r \in 1..(m + 1) /\ p \in Cuts(body)
  BY DEF Reading, Cuts
<1>2. PICK f : LinesAt(f, body) /\ Lines(body) = f[m + 1] /\ items = f[p] /\ Good(items)
  BY <1>1 DEF Reading
<1>3. f[r] = IF r = p + 1 THEN items ELSE Append(items, SubSeq(body, p + 1, r - 1))
  BY <1>1, <1>2, LineTaken
<1>4. SureOf(items, body) /\ items \in BodyLines
  BY ReadingSure
<1>5. PICK line : line = SubSeq(body, p + 1, r - 1)
  OBVIOUS
<1>6. ASSUME r # p + 1 PROVE line \in Seq(Bytes) /\ Len(line) = (r - 1) - p
  <2>1. p + 1 \in 1..(Len(body) + 2) /\ r - 1 \in 0..Len(body) /\ p + 1 <= r - 1 /\ (r - 1) - (p + 1) + 1 = (r - 1) - p
    BY <1>1, <1>6
  <2>q. QED
    BY <1>5, <2>1, PartOf
<1>7. ASSUME r # p + 1, ~GoodLine(line) PROVE Whole(items, body)
  <2>1. Begins(f[r], f[m + 1])
    <3>1. r \in 0..(Len(body) + 1) /\ m + 1 \in r..(Len(body) + 1)
      BY <1>1
    <3>q. QED
      BY <1>2, <3>1, LinesGrow
  <2>2. f[r] = Append(items, line) /\ line \in Seq(Bytes)
    BY <1>3, <1>5, <1>6, <1>7
  <2>3. Len(f[r]) = Len(items) + 1 /\ Len(items) \in Nat /\ f[r][Len(items) + 1] = line
    BY <1>4, <2>2, OneMoreLine
  <2>4. Lines(body)[Len(items) + 1] = line
    BY <1>2, <2>1, <2>3 DEF Begins
  <2>q. QED
    BY <1>4, <1>7, <2>4 DEF Whole
<1>8. ASSUME r = Len(body) + 1, r = p + 1 PROVE Whole(items, body)
  <2>1. Lines(body) = items
    BY <1>1, <1>2, <1>3, <1>8
  <2>2. Len(items) \in Nat
    BY <1>4 DEF BodyLines
  <2>q. QED
    BY <1>4, <2>1, <2>2 DEF Whole
<1>q. QED
  BY <1>1, <1>2, <1>3, <1>5, <1>6, <1>7, <1>8

\* A line is taken off the buffer.
LEMMA ReadLine ==
    ASSUME NEW body \in Seq(Bytes), NEW items, NEW buf, NEW p, NEW q, Reading(items, buf, body, p, q),
           HasNewline(buf)
    PROVE  \E at \in Nat : \E line, rest :
              /\ at = Newline(buf) /\ line = SubSeq(buf, 1, at - 1) /\ rest = After(buf, at)
              /\ p + at <= q
              /\ at = 1 => Reading(items, rest, body, p + at, q)
              /\ at # 1 => /\ line \in Seq(Bytes)
                           /\ GoodLine(line) => Reading(Append(items, line), rest, body, p + at, q)
                           /\ ~GoodLine(line) => Whole(items, body)
<1>1. p \in Cuts(body) /\ q \in 0..Len(body) /\ Buffered(buf, body, p, q) /\ Good(items)
  BY DEF Reading
<1>2. PICK at \in 1..Len(buf) :
              /\ at = Newline(buf) /\ p + at \in Cuts(body) /\ p + at <= q /\ p < p + at
              /\ \A d \in Cuts(body) : ~(p < d /\ d < p + at)
              /\ SubSeq(buf, 1, at - 1) = SubSeq(body, p + 1, (p + at) - 1)
              /\ Buffered(After(buf, at), body, p + at, q)
  BY <1>1, BufferLine
<1>3. PICK r, line, rest : r = p + at /\ line = SubSeq(body, p + 1, r - 1) /\ rest = After(buf, at)
  OBVIOUS
<1>4. /\ \E f : LinesAt(f, body) /\ Lines(body) = f[Len(body) + 1]
                     /\ f[r] = IF r = p + 1 THEN items ELSE Append(items, line)
      /\ r # p + 1 => line \in Seq(Bytes) /\ (~GoodLine(line) => Whole(items, body))
  <2>1. r \in Cuts(body) /\ p < r /\ \A d \in Cuts(body) : ~(p < d /\ d < r)
    BY <1>2, <1>3
  <2>2. /\ \E f : LinesAt(f, body) /\ Lines(body) = f[Len(body) + 1]
                     /\ f[r] = IF r = p + 1 THEN items ELSE Append(items, SubSeq(body, p + 1, r - 1))
        /\ r # p + 1 => /\ SubSeq(body, p + 1, r - 1) \in Seq(Bytes)
                        /\ ~GoodLine(SubSeq(body, p + 1, r - 1)) => Whole(items, body)
    BY <2>1, LineNext
  <2>q. QED
    BY <1>3, <2>2
<1>5. r = p + 1 <=> at = 1
  <2>1. p \in Int /\ at \in Int
    BY <1>1, <1>2 DEF Cuts
  <2>q. QED
    BY <1>3, <2>1
<1>6. r \in Cuts(body) /\ r <= q /\ Buffered(rest, body, r, q)
  BY <1>2, <1>3
<1>7. ASSUME at = 1 PROVE Reading(items, rest, body, r, q)
  BY <1>1, <1>4, <1>5, <1>6, <1>7 DEF Reading
<1>8. ASSUME at # 1, GoodLine(line) PROVE Reading(Append(items, line), rest, body, r, q)
  <2>1. line \in Seq(Bytes) /\ items \in BodyLines
    BY <1>4, <1>5, <1>8, ReadingSure
  <2>2. Good(Append(items, line))
    BY <1>1, <1>8, <2>1, OneMoreLine
  <2>q. QED
    BY <1>1, <1>4, <1>5, <1>6, <1>8, <2>2 DEF Reading
<1>9. at \in Nat /\ line = SubSeq(buf, 1, at - 1)
  <2>1. at \in Nat
    <3>1. Len(buf) \in Nat
      BY <1>1 DEF Buffered
    <3>q. QED
      BY <3>1
  <2>2. line = SubSeq(buf, 1, at - 1)
    BY <1>2, <1>3, Zenon
  <2>q. QED
    BY <2>1, <2>2
<1>q. QED
  <2>1. /\ at = Newline(buf) /\ rest = After(buf, at) /\ p + at <= q
        /\ at = 1 => Reading(items, rest, body, p + at, q)
        /\ at # 1 => /\ line \in Seq(Bytes)
                     /\ GoodLine(line) => Reading(Append(items, line), rest, body, p + at, q)
                     /\ ~GoodLine(line) => Whole(items, body)
    BY <1>2, <1>3, <1>4, <1>5, <1>7, <1>8, Zenon
  <2>q. QED
    BY <1>9, <2>1, Zenon

\* The rest of the body, once it has ended.
LEMMA ReadRest ==
    ASSUME NEW body \in Seq(Bytes), NEW items, NEW buf, NEW p, Reading(items, buf, body, p, Len(body)),
           ~HasNewline(buf)
    PROVE  /\ buf = <<>> => Whole(items, body)
           /\ buf # <<>> =>
                /\ buf \in Seq(Bytes)
                /\ GoodLine(buf) => Reading(Append(items, buf), <<>>, body, Len(body) + 1, Len(body))
                /\ ~GoodLine(buf) => Whole(items, body)
<1>1. PICK m \in Nat : m = Len(body) /\ DOMAIN body = 1..m /\ p \in 0..(m + 1) /\ p \in Cuts(body) /\ m + 1 \in Cuts(body)
  BY DEF Reading, Cuts
<1>2. Buffered(buf, body, p, m) /\ Good(items) /\ (p <= m \/ p = m + 1)
  BY <1>1 DEF Reading
<1>3. PICK n \in Nat : n = Len(buf) /\ buf \in Seq(Bytes) /\ DOMAIN buf = 1..n
  BY <1>2 DEF Buffered
<1>4. n = (IF p < m THEN m - p ELSE 0) /\ \A i \in 1..n : buf[i] = body[p + i]
  BY <1>2, <1>3 DEF Buffered
<1>5. ASSUME NEW d \in Cuts(body), p < d, d < m + 1 PROVE FALSE
  <2>1. d \in 1..m /\ body[d] = NL
    BY <1>1, <1>5 DEF Cuts
  <2>2. PICK j \in 1..n : p + j = d
    BY <1>1, <1>4, <1>5, <2>1, d - p \in 1..n, p + (d - p) = d
  <2>3. buf[j] = NL
    BY <1>4, <2>1, <2>2
  <2>q. QED
    BY <1>3, <2>2, <2>3 DEF HasNewline
<1>6. CASE p = m + 1
  <2>1. buf = <<>>
    BY <1>3, <1>4, <1>6
  <2>2. Whole(items, body)
    <3>1. SureOf(items, body) /\ items \in BodyLines
      BY ReadingSure
    <3>2. Lines(body) = items /\ Len(items) \in Nat
      BY <1>1, <1>6, <3>1 DEF Reading, BodyLines
    <3>q. QED
      BY <3>1, <3>2 DEF Whole
  <2>q. QED
    BY <2>1, <2>2
<1>7. CASE p # m + 1
  <2>0. p \in 0..m /\ p < m + 1
    BY <1>1, <1>7
  <2>1. /\ \E f : LinesAt(f, body) /\ Lines(body) = f[Len(body) + 1]
                     /\ f[m + 1] = IF m + 1 = p + 1 THEN items ELSE Append(items, SubSeq(body, p + 1, (m + 1) - 1))
        /\ m + 1 # p + 1 => /\ SubSeq(body, p + 1, (m + 1) - 1) \in Seq(Bytes)
                            /\ ~GoodLine(SubSeq(body, p + 1, (m + 1) - 1)) => Whole(items, body)
        /\ m + 1 = Len(body) + 1 /\ m + 1 = p + 1 => Whole(items, body)
    BY <1>1, <1>5, <2>0, LineNext, SMTT(30)
  <2>2. CASE m = p
    <3>1. buf = <<>>
      BY <1>3, <1>4, <2>2
    <3>q. QED
      BY <1>1, <2>1, <2>2, <3>1
  <2>3. CASE m # p
    <3>1. n = m - p /\ n # 0 /\ buf # <<>> /\ m + 1 # p + 1 /\ (m + 1) - 1 = m
      BY <1>3, <1>4, <2>0, <2>3
    <3>2. SubSeq(body, p + 1, m) = buf
      <4>1. /\ SubSeq(body, p + 1, m) \in Seq(Bytes) /\ Len(SubSeq(body, p + 1, m)) = n
            /\ \A i \in 1..n : SubSeq(body, p + 1, m)[i] = body[p + i]
        <5>1. p + 1 \in 1..(Len(body) + 2) /\ m \in 0..Len(body) /\ p + 1 <= m /\ m - (p + 1) + 1 = n
          BY <1>1, <2>0, <2>3, <3>1
        <5>2. \A i \in 1..n : (p + 1) + i - 1 = p + i
          BY <2>0
        <5>q. QED
          BY <5>1, <5>2, PartOf
      <4>2. PICK t : t = SubSeq(body, p + 1, m) /\ t \in Seq(Bytes) /\ Len(t) = n /\ \A i \in 1..n : t[i] = buf[i]
        BY <1>4, <4>1
      <4>3. t = buf
        BY <1>3, <4>2, SeqEqual
      <4>q. QED
        BY <4>2, <4>3
    <3>3. ~GoodLine(buf) => Whole(items, body)
      BY <2>1, <3>1, <3>2
    <3>4. ASSUME GoodLine(buf) PROVE Reading(Append(items, buf), <<>>, body, m + 1, m)
      <4>1. items \in BodyLines
        BY ReadingSure
      <4>2. Good(Append(items, buf))
        BY <1>2, <1>3, <3>4, <4>1, OneMoreLine
      <4>3. Buffered(<<>>, body, m + 1, m)
        BY DEF Buffered
      <4>4. \E f : LinesAt(f, body) /\ Lines(body) = f[m + 1] /\ f[m + 1] = Append(items, buf)
        BY <1>1, <2>1, <3>1, <3>2
      <4>q. QED
        BY <1>1, <4>2, <4>3, <4>4 DEF Reading
    <3>q. QED
      BY <1>1, <1>3, <3>1, <3>3, <3>4
  <2>q. QED
    BY <2>2, <2>3
<1>q. QED
  BY <1>6, <1>7

\* chunk is the n bytes of the body after q.
Chunked(chunk, body, q, n) ==
    chunk \in Seq(Bytes) /\ Len(chunk) = n /\ \A i \in 1..n : chunk[i] = body[q + i]

\* The chunk the body yields is that part of it.
LEMMA ChunkOf ==
    ASSUME NEW body \in Seq(Bytes), NEW q \in Nat, NEW n \in Nat, n >= 1, q + n <= Len(body)
    PROVE  Chunked(SubSeq(body, q + 1, q + n), body, q, n)
<1>1. PICK a \in 1..(Len(body) + 2) : a = q + 1
  BY q + 1 \in 1..(Len(body) + 2)
<1>2. PICK b \in 0..Len(body) : b = q + n
  BY q + n \in 0..Len(body)
<1>3. PICK t : t = SubSeq(body, a, b)
  OBVIOUS
<1>4. a <= b /\ b - a + 1 = n
  BY <1>1, <1>2
<1>5. t \in Seq(Bytes) /\ Len(t) = n /\ \A i \in 1..n : t[i] = body[a + i - 1]
  BY <1>3, <1>4, PartOf
<1>6. \A i \in 1..n : a + i - 1 = q + i
  BY <1>1
<1>7. Chunked(t, body, q, n)
  BY <1>5, <1>6 DEF Chunked
<1>q. QED
  BY <1>1, <1>2, <1>3, <1>7

\* A chunk joins the buffer.
LEMMA ReadChunk ==
    ASSUME NEW body \in Seq(Bytes), NEW items, NEW buf, NEW p, NEW q, Reading(items, buf, body, p, q), p <= q,
           NEW n \in Nat, n >= 1, q + n <= Len(body), NEW chunk, Chunked(chunk, body, q, n)
    PROVE  Reading(items, buf \o chunk, body, p, q + n) /\ p <= q + n
<1>1. PICK m \in Nat : m = Len(body) /\ p \in 0..(m + 1) /\ q \in 0..m /\ p \in Cuts(body)
  BY DEF Reading, Cuts
<1>2. PICK k \in Nat : k = Len(buf) /\ buf \in Seq(Bytes) /\ k = q - p /\ \A i \in 1..k : buf[i] = body[p + i]
  BY <1>1 DEF Reading, Buffered
<1>3. chunk \in Seq(Bytes) /\ Len(chunk) = n /\ \A i \in 1..n : chunk[i] = body[q + i]
  BY DEF Chunked
<1>4. PICK t : t = buf \o chunk
  OBVIOUS
<1>5. /\ t \in Seq(Bytes) /\ Len(t) = k + n
      /\ \A i \in 1..(k + n) : t[i] = IF i <= k THEN buf[i] ELSE chunk[i - k]
  <2>1. buf \in Seq(Bytes) /\ chunk \in Seq(Bytes)
    BY <1>2, <1>3
  <2>2. /\ buf \o chunk \in Seq(Bytes) /\ Len(buf \o chunk) = Len(buf) + Len(chunk)
        /\ \A i \in 1..(Len(buf) + Len(chunk)) :
            (buf \o chunk)[i] = IF i <= Len(buf) THEN buf[i] ELSE chunk[i - Len(buf)]
    BY <2>1, ConcatProperties, Zenon
  <2>q. QED
    BY <1>2, <1>3, <1>4, <2>2, Zenon
<1>6. ASSUME NEW i \in 1..(k + n) PROVE t[i] = body[p + i]
  <2>1. CASE i <= k
    BY <1>2, <1>5, <2>1
  <2>2. CASE ~(i <= k)
    <3>1. PICK j \in 1..n : i = k + j /\ q + j = p + i
      BY <1>1, <1>2, <2>2, i - k \in 1..n
    <3>2. t[i] = chunk[j]
      BY <1>5, <2>2, <3>1
    <3>q. QED
      BY <1>3, <3>1, <3>2
  <2>q. QED
    BY <2>1, <2>2
<1>7. q + n \in 0..m /\ p <= q + n /\ p < q + n /\ k + n = (q + n) - p
  BY <1>1, <1>2
<1>8. Buffered(t, body, p, q + n)
  BY <1>5, <1>6, <1>7 DEF Buffered
<1>q. QED
  BY <1>1, <1>4, <1>7, <1>8 DEF Reading

\* A line that would be oversized with the chunk is: PendingLine counts a part of it.
LEMMA ReadOversized ==
    ASSUME NEW body \in Seq(Bytes), NEW items, NEW buf, NEW p, NEW q, Reading(items, buf, body, p, q), p <= q,
           ~HasNewline(buf), NEW n \in Nat, n >= 1, q + n <= Len(body), NEW chunk, Chunked(chunk, body, q, n),
           Len(buf) + (IF HasNewline(chunk) THEN Newline(chunk) - 1 ELSE Len(chunk)) > MaxLineBytes
    PROVE  Whole(items, body)
<1>1. PICK m \in Nat : /\ m = Len(body) /\ DOMAIN body = 1..m /\ p \in 0..(m + 1) /\ q \in 0..m
                       /\ p \in Cuts(body) /\ m + 1 \in Cuts(body)
  BY DEF Reading, Cuts
<1>2. PICK k \in Nat : /\ k = Len(buf) /\ buf \in Seq(Bytes) /\ DOMAIN buf = 1..k /\ k = q - p
                       /\ \A i \in 1..k : buf[i] = body[p + i]
  BY <1>1 DEF Reading, Buffered
<1>3. chunk \in Seq(Bytes) /\ Len(chunk) = n /\ DOMAIN chunk = 1..n /\ \A i \in 1..n : chunk[i] = body[q + i]
  BY DEF Chunked
<1>4. PICK h \in 0..n : /\ h = (IF HasNewline(chunk) THEN Newline(chunk) - 1 ELSE n)
                        /\ \A i \in 1..h : chunk[i] # NL
  <2>1. CASE HasNewline(chunk)
    <3>1. Newline(chunk) \in 1..n /\ \A j \in 1..(Newline(chunk) - 1) : chunk[j] # NL
      BY <1>3, <2>1, FirstNewline
    <3>2. Newline(chunk) - 1 \in 0..n
      BY <3>1
    <3>q. QED
      BY <2>1, <3>1, <3>2
  <2>2. CASE ~HasNewline(chunk)
    <3>1. \A i \in 1..n : chunk[i] # NL
      BY <1>3, <2>2 DEF HasNewline
    <3>2. n \in 0..n
      OBVIOUS
    <3>q. QED
      BY <2>2, <3>1, <3>2
  <2>q. QED
    BY <2>1, <2>2
<1>5. k + h > MaxLineBytes /\ MaxLineBytes \in Nat
  BY <1>2, <1>3, <1>4, NdjsonAssumption
<1> DEFINE S == {c \in Cuts(body) : p < c}
<1>6. S \subseteq Nat /\ m + 1 \in S
  BY <1>1 DEF Cuts
<1>7. PICK r \in S : \A j \in S : r <= j
  <2> HIDE DEF S
  <2>q. QED
    BY <1>6, LeastOf
<1>8. r \in Cuts(body) /\ p < r /\ r \in Nat /\ r <= m + 1
  BY <1>6, <1>7
<1>9. ASSUME NEW d \in Cuts(body), p < d, d < r PROVE FALSE
  <2>1. d \in S /\ d \in Nat
    BY <1>6, <1>9
  <2>q. QED
    BY <1>7, <1>8, <1>9, <2>1
<1>10. q + h < r
  <2> SUFFICES ASSUME ~(q + h < r) PROVE FALSE
    OBVIOUS
  <2>1. r \in 1..m /\ r <= q + h
    BY <1>1, <1>3, <1>4, <1>8
  <2>2. body[r] = NL
    BY <1>1, <1>8, <2>1 DEF Cuts
  <2>3. CASE r <= q
    <3>1. PICK j \in 1..k : p + j = r
      BY <1>1, <1>2, <1>8, <2>1, <2>3, r - p \in 1..k
    <3>2. buf[j] = NL
      BY <1>2, <2>2, <3>1
    <3>q. QED
      BY <1>2, <3>1, <3>2 DEF HasNewline
  <2>4. CASE ~(r <= q)
    <3>1. PICK j \in 1..h : q + j = r /\ j \in 1..n
      BY <1>1, <1>4, <2>1, <2>4, r - q \in 1..h
    <3>2. chunk[j] = NL
      BY <1>3, <2>2, <3>1
    <3>q. QED
      BY <1>4, <3>1, <3>2
  <2>q. QED
    BY <2>3, <2>4
<1>11. r # p + 1 /\ (r - 1) - p > MaxLineBytes
  BY <1>1, <1>2, <1>4, <1>5, <1>8, <1>10, SMTT(30)
<1>12. PICK line : line = SubSeq(body, p + 1, r - 1)
  OBVIOUS
<1>13. Len(line) = (r - 1) - p /\ (~GoodLine(line) => Whole(items, body))
  BY <1>8, <1>9, <1>11, <1>12, LineNext
<1>14. ~GoodLine(line)
  <2>1. GoodLine(line) => Len(line) <= MaxLineBytes
    BY DEF GoodLine
  <2>2. PICK x \in Int : x = (r - 1) - p
    BY <1>1, <1>8
  <2>q. QED
    BY <1>5, <1>11, <1>13, <2>1, <2>2
<1>q. QED
  BY <1>13, <1>14

\* Expected, from what SelectInSeq finds: the lines before the first bad one.
LEMMA ExpectedIs ==
    ASSUME ndBody \in Seq(Bytes), NEW a
    PROVE  /\ SureOf(a, ndBody) => IsPrefix(a, Expected)
           /\ Whole(a, ndBody) => a = Expected
<1> SUFFICES ASSUME SureOf(a, ndBody)
             PROVE  IsPrefix(a, Expected) /\ (Whole(a, ndBody) => a = Expected)
  BY DEF Whole
<1>1. PICK T, l : T = Seq(Bytes) /\ l = Lines(ndBody) /\ l \in Seq(T) /\ a \in Seq(T)
  BY DEF SureOf, Begins, BodyLines
<1>2. PICK m \in Nat, k \in Nat : m = Len(l) /\ k = Len(a)
  BY <1>1
<1>3. k <= m /\ \A i \in 1..k : a[i] = l[i] /\ GoodLine(l[i])
  BY <1>1, <1>2 DEF SureOf, Begins, Good
<1>4. Whole(a, ndBody) => (k < m => ~GoodLine(l[k + 1]))
  BY <1>1, <1>2 DEF Whole
<1> DEFINE I == {i \in 1..m : ~GoodLine(l[i])}
           bad == IF I # {} THEN Min(I) ELSE 0
<1>5. Expected = IF bad = 0 THEN l ELSE SubSeq(l, 1, bad - 1)
  BY <1>1, <1>2 DEF Expected, SelectInSeq
<1>6. CASE I = {}
  <2>1. Expected = l
    BY <1>5, <1>6
  <2>2. IsPrefix(a, l) /\ (k = m => a = l)
    BY <1>1, <1>2, <1>3, PrefixByElements
  <2>3. Whole(a, ndBody) => k = m
    <3> SUFFICES ASSUME k < m, ~GoodLine(l[k + 1]) PROVE FALSE
      BY <1>3, <1>4
    <3>1. k + 1 \in 1..m
      OBVIOUS
    <3>2. k + 1 \in I
      BY <3>1
    <3>q. QED
      BY <1>6, <3>2
  <2>q. QED
    BY <2>1, <2>2, <2>3
<1>7. CASE I # {}
  <2>1. PICK b \in I : b = bad /\ \A j \in I : b <= j
    <3>1. I \subseteq Nat
      OBVIOUS
    <3>2. \E i \in I : \A j \in I : i <= j
      <4> HIDE DEF I
      <4>q. QED
        BY <1>7, <3>1, LeastOf
    <3>3. Min(I) \in I /\ \A j \in I : Min(I) <= j
      <4> HIDE DEF I
      <4>q. QED
        BY <3>2 DEF Min
    <3>q. QED
      BY <1>7, <3>3
  <2>2. b \in 1..m /\ ~GoodLine(l[b])
    OBVIOUS
  <2>3. PICK t : t = SubSeq(l, 1, b - 1) /\ t = Expected
    <3> HIDE DEF bad
    <3>1. bad # 0
      BY <2>1, <2>2
    <3>q. QED
      BY <1>5, <2>1, <3>1
  <2>4. t \in Seq(T) /\ Len(t) = b - 1 /\ \A i \in 1..(b - 1) : t[i] = l[i]
    <3>1. PICK c \in 0..Len(l) : c = b - 1
      BY <1>2, <2>2
    <3>2. 1 \in 1..(Len(l) + 2)
      BY <1>1
    <3>3. /\ SubSeq(l, 1, c) \in Seq(T) /\ Len(SubSeq(l, 1, c)) = IF 1 <= c THEN c - 1 + 1 ELSE 0
          /\ \A i \in 1..(c - 1 + 1) : SubSeq(l, 1, c)[i] = l[1 + i - 1]
      BY <1>1, <3>2, PartOf
    <3>4. c \in Nat /\ c - 1 + 1 = c /\ (~(1 <= c) => c = 0) /\ \A i \in 1..c : 1 + i - 1 = i
      BY <1>1, <1>2, <3>1
    <3>5. SubSeq(l, 1, c) \in Seq(T) /\ Len(SubSeq(l, 1, c)) = c /\ \A i \in 1..c : SubSeq(l, 1, c)[i] = l[i]
      BY <3>3, <3>4
    <3>q. QED
      BY <2>3, <3>1, <3>5
  <2>5. k <= b - 1
    <3> SUFFICES ASSUME b \in 1..k PROVE FALSE
      BY <2>2
    <3>q. QED
      BY <1>3, <2>2
  <2>6. Len(a) <= Len(t) /\ \A i \in 1..Len(a) : a[i] = t[i]
    <3>1. \A i \in 1..k : i \in 1..(b - 1)
      BY <2>2, <2>5
    <3>q. QED
      BY <1>2, <1>3, <2>4, <2>5, <3>1
  <2>7. IsPrefix(a, t) /\ (Len(a) = Len(t) => a = t)
    BY <1>1, <2>4, <2>6, PrefixByElements
  <2>8. ASSUME Whole(a, ndBody) PROVE Len(a) = Len(t)
    <3>1. k < m /\ k + 1 \in 1..m
      BY <2>2, <2>5
    <3>2. k + 1 \in I
      BY <1>4, <2>8, <3>1
    <3>3. b <= k + 1
      BY <2>1, <3>2
    <3>q. QED
      BY <1>2, <2>2, <2>4, <2>5, <3>3
  <2>q. QED
    BY <2>3, <2>7, <2>8
<1>q. QED
  BY <1>6, <1>7

\* Without its last item.
LEMMA FrontSure ==
    ASSUME NEW body, NEW a, SureOf(a, body), a # <<>>
    PROVE  SureOf(Front(a), body)
<1>1. PICK T, l : T = Seq(Bytes) /\ l = Lines(body) /\ l \in Seq(T) /\ a \in Seq(T)
  BY DEF SureOf, Begins, BodyLines
<1>2. PICK k \in Nat : k = Len(a) - 1 /\ k \in 0..Len(a)
  <2>1. Len(a) \in Nat /\ Len(a) # 0
    BY <1>1
  <2>2. Len(a) - 1 \in Nat /\ Len(a) - 1 \in 0..Len(a)
    BY <2>1
  <2>q. QED
    BY <2>2
<1>3. PICK t : t = SubSeq(a, 1, k) /\ t = Front(a)
  BY <1>2 DEF Front
<1>4. t \in Seq(T) /\ Len(t) = k /\ \A i \in 1..k : t[i] = a[i]
  <2>1. 1 \in 1..(Len(a) + 2)
    BY <1>1
  <2>2. /\ SubSeq(a, 1, k) \in Seq(T) /\ Len(SubSeq(a, 1, k)) = IF 1 <= k THEN k - 1 + 1 ELSE 0
        /\ \A i \in 1..(k - 1 + 1) : SubSeq(a, 1, k)[i] = a[1 + i - 1]
    BY <1>1, <1>2, <2>1, PartOf
  <2>3. k - 1 + 1 = k /\ (~(1 <= k) => k = 0) /\ \A i \in 1..k : 1 + i - 1 = i
    OBVIOUS
  <2>q. QED
    BY <1>3, <2>2, <2>3
<1>5. \A i \in 1..k : i \in 1..Len(a)
  BY <1>1, <1>2
<1>6. Begins(t, l)
  <2>1. Len(a) <= Len(l) /\ \A i \in 1..Len(a) : a[i] = l[i]
    BY <1>1 DEF SureOf, Begins
  <2>2. Len(a) \in Nat /\ Len(l) \in Nat
    BY <1>1
  <2>3. Len(t) <= Len(l)
    BY <1>2, <1>4, <2>1, <2>2
  <2>4. \A i \in 1..Len(t) : t[i] = l[i]
    BY <1>4, <1>5, <2>1
  <2>5. t \in BodyLines /\ l \in BodyLines
    BY <1>1, <1>4 DEF BodyLines
  <2>q. QED
    BY <2>3, <2>4, <2>5 DEF Begins
<1>7. Good(t)
  <2>1. \A i \in 1..Len(a) : GoodLine(a[i])
    BY DEF SureOf, Good
  <2>q. QED
    BY <1>4, <1>5, <2>1 DEF Good
<1>q. QED
  BY <1>1, <1>3, <1>6, <1>7 DEF SureOf

-----------------------------------------------------------------------------
(* The decoder's invariant.                                                 *)

\* The items that are certain to be lines of the body.
Certain(items, end, done) ==
    IF end \in {"bytes", "deadline"} /\ done /\ items # <<>> THEN Front(items) ELSE items

BodyEndings == {"end", "oversized", "undecodable"}
NdTypes ==
    /\ ndBody \in Seq(Bytes) /\ ndRead \in 0..Len(ndBody) /\ ndDone \in BOOLEAN
    /\ ndPhase \in {"poll", "loop", "wait", "ended"} /\ ndItems \in BodyLines
    /\ ndEnd \in {"none", "items", "deadline", "bytes", "transport"} \cup BodyEndings

\* The item limit: reached only while the decoder is not being polled.
NdCount ==
    /\ MaxStreamItems > 0 => /\ Len(ndItems) <= MaxStreamItems
                             /\ ndPhase \in {"loop", "wait"} => Len(ndItems) < MaxStreamItems
    /\ ndEnd = "items" => Len(ndItems) = MaxStreamItems

\* Before it ends the decoder has the body up to where it was read, or, cut short
\* below, a last item it may have from a part of a line.
NdReads ==
    \E p : /\ Reading(ndItems, ndBuffer, ndBody, p, ndRead)
           /\ ndDone => ndRead = Len(ndBody)
           /\ ~ndDone => p <= ndRead
NdCutShort ==
    \/ \E p, q : Reading(ndItems, ndBuffer, ndBody, p, q)
    \/ ndBuffer = <<>> /\ ndItems # <<>> /\ SureOf(Front(ndItems), ndBody)
NdOpen ==
    ndPhase # "ended" =>
        /\ ndEnd \in {"none", "bytes", "deadline"} /\ (ndEnd # "none" => ndDone)
        /\ ndPhase = "wait" => ~ndDone /\ ~HasNewline(ndBuffer)
        /\ ndEnd = "none" => NdReads
        /\ ndEnd # "none" => NdCutShort
NdEnded ==
    ndPhase = "ended" =>
        /\ SureOf(Certain(ndItems, ndEnd, ndDone), ndBody)
        /\ ndEnd \in BodyEndings => Whole(ndItems, ndBody)
NdInv == NdTypes /\ NdCount /\ NdOpen /\ NdEnded

\* What is sure stays so whatever ends the stream.
LEMMA CertainSure ==
    ASSUME NEW items, NEW body, SureOf(items, body), NEW end, NEW done
    PROVE  SureOf(Certain(items, end, done), body)
  BY FrontSure DEF Certain

\* Until the stream ends its items are sure, the last one after a cut excepted.
LEMMA OpenSure ==
    ASSUME NdInv, ndPhase # "ended"
    PROVE  /\ SureOf(Certain(ndItems, ndEnd, ndDone), ndBody)
           /\ ndEnd = "none" => SureOf(ndItems, ndBody)
<1>1. ndBody \in Seq(Bytes)
  BY DEF NdInv, NdTypes
<1>2. CASE ndEnd = "none"
  <2>1. PICK p : Reading(ndItems, ndBuffer, ndBody, p, ndRead)
    BY <1>2 DEF NdInv, NdOpen, NdReads, NdCutShort
  <2>2. SureOf(ndItems, ndBody)
    BY <1>1, <2>1, ReadingSure
  <2>q. QED
    BY <2>2, CertainSure
<1>3. CASE ndEnd # "none"
  <2>1. CASE \E p, q : Reading(ndItems, ndBuffer, ndBody, p, q)
    <3>1. SureOf(ndItems, ndBody)
      BY <1>1, <2>1, ReadingSure
    <3>q. QED
      BY <1>3, <3>1, CertainSure
  <2>2. CASE ndItems # <<>> /\ SureOf(Front(ndItems), ndBody)
    <3>1. ndEnd \in {"bytes", "deadline"} /\ ndDone
      BY <1>3 DEF NdInv, NdOpen, NdReads, NdCutShort
    <3>q. QED
      BY <1>3, <2>2, <3>1 DEF Certain
  <2>q. QED
    BY <1>3, <2>1, <2>2 DEF NdInv, NdOpen, NdReads, NdCutShort
<1>q. QED
  BY <1>2, <1>3

\* The invariant implies the property.
LEMMA NdInvImplies == NdInv => DecodedAgrees
<1> SUFFICES ASSUME NdInv PROVE DecodedAgrees
  OBVIOUS
<1>1. ndBody \in Seq(Bytes)
  BY DEF NdInv, NdTypes
<1>2. PICK sure : sure = Certain(ndItems, ndEnd, ndDone)
  OBVIOUS
<1>3. SureOf(sure, ndBody)
  BY <1>2, OpenSure DEF NdInv, NdEnded
<1>4. IsPrefix(sure, Expected)
  BY <1>1, <1>3, ExpectedIs
<1>5. ndPhase = "ended" /\ ndEnd \in {"end", "oversized", "undecodable"} => ndItems = Expected
  BY <1>1, ExpectedIs DEF NdInv, NdEnded, BodyEndings
<1>6. ndEnd = "items" => Len(ndItems) = MaxStreamItems
  BY DEF NdInv, NdCount
<1>q. QED
  BY <1>2, <1>4, <1>5, <1>6, Zenon DEF DecodedAgrees, Certain

-----------------------------------------------------------------------------
(* The steps.                                                               *)

\* The invariant holds before the first poll.
LEMMA NdInit == NdjsonInit => NdInv
<1> SUFFICES ASSUME NdjsonInit PROVE NdInv
  OBVIOUS
<1>1. ndBody \in Seq(Bytes)
  <2>1. PICK n \in 0..MaxBody : ndBody \in [1..n -> Bytes]
    BY DEF NdjsonInit
  <2>2. n \in Nat
    BY NdjsonAssumption
  <2>q. QED
    BY <2>1, <2>2
<1>2. /\ ndRead = 0 /\ ndBuffer = <<>> /\ ndDone = FALSE /\ ndPhase = "poll"
      /\ ndItems = <<>> /\ ndEnd = "none"
  BY DEF NdjsonInit
<1>3. ndItems \in BodyLines /\ Len(ndItems) = 0 /\ ndRead \in 0..Len(ndBody)
  BY <1>1, <1>2 DEF BodyLines
<1>4. NdTypes
  BY <1>1, <1>2, <1>3 DEF NdTypes
<1>5. NdCount
  BY <1>2, <1>3, NdjsonAssumption DEF NdCount
<1>6. Reading(ndItems, ndBuffer, ndBody, 0, ndRead)
  <2>1. 0 \in Cuts(ndBody) /\ 0 <= ndRead
    BY <1>2 DEF Cuts
  <2>2. Buffered(ndBuffer, ndBody, 0, ndRead) /\ Good(ndItems)
    BY <1>2, <1>3 DEF Buffered, Good
  <2>3. \E f : LinesAt(f, ndBody) /\ Lines(ndBody) = f[Len(ndBody) + 1] /\ ndItems = f[0]
    BY <1>1, <1>2, LinesAre DEF LinesAt
  <2>q. QED
    BY <1>3, <2>1, <2>2, <2>3 DEF Reading
<1>7. NdOpen
  BY <1>2, <1>6 DEF NdOpen, NdReads, NdCutShort
<1>q. QED
  BY <1>2, <1>4, <1>5, <1>7 DEF NdInv, NdEnded

\* The stream ends.
LEMMA StopKeeps ==
    ASSUME NdInv, ndPhase # "ended", NEW why \in {"items", "deadline", "transport"} \cup BodyEndings, Stop(why),
           UNCHANGED <<ndBody, ndItems, ndDone>>, ndRead' \in 0..Len(ndBody),
           why = "items" => Len(ndItems) = MaxStreamItems,
           ndEnd = "none" /\ why \in BodyEndings => Whole(ndItems, ndBody)
    PROVE  NdInv'
<1>1. ndPhase' = "ended" /\ ndEnd' = IF ndEnd = "none" THEN why ELSE ndEnd
  BY DEF Stop
<1>2. ndBody' = ndBody /\ ndItems' = ndItems /\ ndDone' = ndDone
  OBVIOUS
<1>3. ndEnd \in {"none", "bytes", "deadline"}
  BY DEF NdInv, NdOpen, NdReads, NdCutShort
<1>4. NdTypes'
  BY <1>1, <1>2, <1>3 DEF NdInv, NdTypes, BodyEndings
<1>5. NdCount'
  BY <1>1, <1>2, <1>3 DEF NdInv, NdCount
<1>6. SureOf(Certain(ndItems, ndEnd', ndDone), ndBody)
  <2>1. CASE ndEnd = "none"
    <3>1. SureOf(ndItems, ndBody)
      BY <2>1, OpenSure
    <3>q. QED
      BY <3>1, CertainSure
  <2>2. CASE ndEnd # "none"
    BY <1>1, <2>2, OpenSure
  <2>q. QED
    BY <2>1, <2>2
<1>7. ndEnd' \in BodyEndings => Whole(ndItems, ndBody)
  BY <1>1, <1>3 DEF BodyEndings
<1>8. NdOpen' /\ NdEnded'
  BY <1>1, <1>2, <1>6, <1>7 DEF NdOpen, NdReads, NdCutShort, NdEnded
<1>q. QED
  BY <1>4, <1>5, <1>8 DEF NdInv

\* A line is taken: an item, or the end of the stream.
LEMMA TakeKeeps ==
    ASSUME NdInv, ndPhase = "loop", NEW line \in Seq(Bytes), NEW rest, Take(line, rest),
           UNCHANGED <<ndBody, ndRead, ndDone, ndLate>>,
           ndEnd = "none" /\ GoodLine(line) =>
               \E p : /\ Reading(Append(ndItems, line), rest, ndBody, p, ndRead)
                      /\ ~ndDone => p <= ndRead,
           ndEnd = "none" /\ ~GoodLine(line) => Whole(ndItems, ndBody),
           ndEnd # "none" /\ GoodLine(line) =>
               \/ \E p, q : Reading(Append(ndItems, line), rest, ndBody, p, q)
               \/ rest = <<>> /\ SureOf(ndItems, ndBody)
    PROVE  NdInv'
<1>1. CASE ~GoodLine(line)
  <2>1. PICK why \in BodyEndings : Stop(why) /\ ndItems' = ndItems
    <3>1. Len(line) > MaxLineBytes \/ ~Decodes(line)
      BY <1>1, NdjsonAssumption DEF GoodLine
    <3>q. QED
      BY <3>1 DEF Take, BodyEndings
  <2>2. why \in {"items", "deadline", "transport"} \cup BodyEndings /\ why # "items"
    BY DEF BodyEndings
  <2>3. ndRead' \in 0..Len(ndBody) /\ ndBody' = ndBody /\ ndDone' = ndDone
    BY DEF NdInv, NdTypes
  <2>q. QED
    BY <1>1, <2>1, <2>2, <2>3, StopKeeps
<1>2. CASE GoodLine(line)
  <2>1. ndItems' = Append(ndItems, line) /\ ndPhase' = "poll" /\ ndEnd' = ndEnd /\ ndBuffer' = rest
    BY <1>2, NdjsonAssumption DEF Take, GoodLine
  <2>2. ndBody' = ndBody /\ ndRead' = ndRead /\ ndDone' = ndDone
    OBVIOUS
  <2>3. ndItems \in BodyLines /\ ndBody \in Seq(Bytes)
    BY DEF NdInv, NdTypes
  <2>4. ndItems' \in BodyLines /\ Len(ndItems') = Len(ndItems) + 1 /\ Len(ndItems) \in Nat
    BY <2>1, <2>3, OneMoreLine
  <2>5. NdTypes'
    BY <2>1, <2>2, <2>4 DEF NdInv, NdTypes
  <2>6. ndEnd \in {"none", "bytes", "deadline"} /\ (ndEnd # "none" => ndDone)
    BY DEF NdInv, NdOpen, NdReads, NdCutShort
  <2>7. NdCount'
    <3>1. MaxStreamItems > 0 => Len(ndItems) < MaxStreamItems
      BY DEF NdInv, NdCount
    <3>q. QED
      BY <2>1, <2>4, <2>6, <3>1, NdjsonAssumption DEF NdCount
  <2>8. ndEnd = "none" => NdReads'
    <3> SUFFICES ASSUME ndEnd = "none" PROVE NdReads'
      OBVIOUS
    <3>1. PICK p : Reading(ndItems', ndBuffer', ndBody', p, ndRead') /\ (~ndDone => p <= ndRead)
      BY <1>2, <2>1, <2>2
    <3>2. ndDone => ndRead = Len(ndBody)
      BY DEF NdInv, NdOpen, NdReads
    <3>q. QED
      BY <2>2, <3>1, <3>2 DEF NdReads
  <2>9. ndEnd # "none" => NdCutShort'
    <3>1. ndItems' # <<>>
      BY <2>4
    <3>2. Front(ndItems') = ndItems
      <4>1. PICK T : T = Seq(Bytes) /\ ndItems \in Seq(T) /\ line \in T
        BY <2>3 DEF BodyLines
      <4>2. Front(Append(ndItems, line)) = ndItems
        BY <4>1, FrontOfAppend
      <4>q. QED
        BY <2>1, <4>2
    <3>q. QED
      BY <1>2, <2>1, <2>2, <3>1, <3>2 DEF NdCutShort
  <2>10. NdOpen'
    BY <2>1, <2>2, <2>6, <2>8, <2>9 DEF NdOpen
  <2>q. QED
    BY <2>1, <2>5, <2>7, <2>10 DEF NdInv, NdEnded
<1>q. QED
  BY <1>1, <1>2

\* The decoder goes on with the same items: what it has of the body is as before.
LEMMA GoOnKeeps ==
    ASSUME NdInv, ndPhase # "ended", ndPhase' \in {"loop", "wait"}, ndBody' = ndBody, ndItems' = ndItems,
           ndRead' \in 0..Len(ndBody), ndDone' \in BOOLEAN, ndEnd' \in {"none", "bytes", "deadline"},
           MaxStreamItems > 0 => Len(ndItems) < MaxStreamItems, NdOpen'
    PROVE  NdInv'
<1>1. NdTypes'
  BY DEF NdInv, NdTypes, BodyEndings
<1>2. NdCount'
  BY NdjsonAssumption DEF NdInv, NdCount, NdTypes
<1>q. QED
  BY <1>1, <1>2 DEF NdInv, NdEnded

\* The handler asks for an item: the item limit and the deadline are looked at first.
LEMMA PollItemKeeps == NdInv /\ PollItem => NdInv'
<1> SUFFICES ASSUME NdInv, PollItem PROVE NdInv'
  OBVIOUS
<1>1. /\ ndPhase = "poll" /\ ndBody' = ndBody /\ ndRead' = ndRead /\ ndBuffer' = ndBuffer
      /\ ndDone' = ndDone /\ ndItems' = ndItems
  BY DEF PollItem
<1>2. ndRead \in 0..Len(ndBody) /\ ndDone \in BOOLEAN /\ Len(ndItems) \in Nat
  BY DEF NdInv, NdTypes, BodyLines
<1>3. CASE MaxStreamItems > 0 /\ Len(ndItems) >= MaxStreamItems
  <2>1. Stop("items")
    BY <1>3 DEF PollItem
  <2>2. Len(ndItems) = MaxStreamItems
    BY <1>2, <1>3, NdjsonAssumption DEF NdInv, NdCount
  <2>q. QED
    BY <1>1, <1>2, <2>1, <2>2, StopKeeps DEF BodyEndings
<1>4. CASE ~(MaxStreamItems > 0 /\ Len(ndItems) >= MaxStreamItems) /\ ndLate
  <2>1. Stop("deadline")
    BY <1>4 DEF PollItem
  <2>q. QED
    BY <1>1, <1>2, <2>1, StopKeeps DEF BodyEndings
<1>5. CASE ~(MaxStreamItems > 0 /\ Len(ndItems) >= MaxStreamItems) /\ ~ndLate
  <2>1. ndPhase' = "loop" /\ ndEnd' = ndEnd
    BY <1>5 DEF PollItem
  <2>2. MaxStreamItems > 0 => Len(ndItems) < MaxStreamItems
    BY <1>2, <1>5, NdjsonAssumption
  <2>3. NdOpen' /\ ndEnd \in {"none", "bytes", "deadline"}
    BY <1>1, <2>1 DEF NdInv, NdOpen, NdReads, NdCutShort
  <2>q. QED
    BY <1>1, <1>2, <2>1, <2>2, <2>3, GoOnKeeps
<1>q. QED
  BY <1>3, <1>4, <1>5

\* A line is taken off the buffer, an empty one skipped.
LEMMA TakeLineKeeps == NdInv /\ TakeLine => NdInv'
<1> SUFFICES ASSUME NdInv, TakeLine PROVE NdInv'
  OBVIOUS
<1>1. /\ ndPhase = "loop" /\ HasNewline(ndBuffer) /\ ndBody' = ndBody /\ ndRead' = ndRead
      /\ ndDone' = ndDone /\ ndLate' = ndLate
  BY DEF TakeLine
<1>2. ndBody \in Seq(Bytes) /\ ndRead \in 0..Len(ndBody) /\ ndDone \in BOOLEAN /\ ndItems \in BodyLines
  BY DEF NdInv, NdTypes
<1>3. PICK p, q : /\ Reading(ndItems, ndBuffer, ndBody, p, q)
                  /\ ndEnd = "none" => q = ndRead
  <2>1. CASE ndEnd = "none"
    BY <1>1, <2>1 DEF NdInv, NdOpen, NdReads, NdCutShort
  <2>2. CASE ndEnd # "none"
    <3>1. ~(ndBuffer = <<>>)
      BY <1>1 DEF HasNewline
    <3>q. QED
      BY <1>1, <2>2, <3>1 DEF NdInv, NdOpen, NdReads, NdCutShort
  <2>q. QED
    BY <2>1, <2>2
<1>4. PICK at \in Nat : \E line, rest :
              /\ at = Newline(ndBuffer) /\ line = SubSeq(ndBuffer, 1, at - 1) /\ rest = After(ndBuffer, at)
              /\ p + at <= q
              /\ at = 1 => Reading(ndItems, rest, ndBody, p + at, q)
              /\ at # 1 => /\ line \in Seq(Bytes)
                           /\ GoodLine(line) => Reading(Append(ndItems, line), rest, ndBody, p + at, q)
                           /\ ~GoodLine(line) => Whole(ndItems, ndBody)
  BY <1>1, <1>2, <1>3, ReadLine
<1>5. PICK line, rest :
              /\ at = Newline(ndBuffer) /\ line = SubSeq(ndBuffer, 1, at - 1) /\ rest = After(ndBuffer, at)
              /\ p + at <= q
              /\ at = 1 => Reading(ndItems, rest, ndBody, p + at, q)
              /\ at # 1 => /\ line \in Seq(Bytes)
                           /\ GoodLine(line) => Reading(Append(ndItems, line), rest, ndBody, p + at, q)
                           /\ ~GoodLine(line) => Whole(ndItems, ndBody)
  BY <1>4
<1>6. PICK r : r = p + at /\ r <= q
  BY <1>5
<1>7. CASE at = 1
  <2>1. ndBuffer' = rest /\ ndPhase' = ndPhase /\ ndEnd' = ndEnd /\ ndItems' = ndItems
    BY <1>5, <1>7, Zenon DEF TakeLine
  <2>2. Reading(ndItems, rest, ndBody, r, q)
    BY <1>5, <1>6, <1>7
  <2>3. /\ ndEnd \in {"none", "bytes", "deadline"} /\ (ndEnd # "none" => ndDone)
        /\ ndEnd = "none" /\ ndDone => ndRead = Len(ndBody)
    BY <1>1 DEF NdInv, NdOpen, NdReads, NdCutShort
  <2>4. ndEnd = "none" => NdReads'
    BY <1>1, <1>3, <1>6, <2>1, <2>2, <2>3 DEF NdReads
  <2>5. NdCutShort'
    BY <1>1, <2>1, <2>2 DEF NdCutShort
  <2>6. NdOpen'
    BY <1>1, <2>1, <2>3, <2>4, <2>5 DEF NdOpen
  <2>7. MaxStreamItems > 0 => Len(ndItems) < MaxStreamItems
    BY <1>1 DEF NdInv, NdCount
  <2>q. QED
    BY <1>1, <1>2, <2>1, <2>3, <2>6, <2>7, GoOnKeeps
<1>8. CASE at # 1
  <2>1. Take(line, rest)
    BY <1>5, <1>8, Zenon DEF TakeLine
  <2>2. line \in Seq(Bytes)
    BY <1>5, <1>8
  <2>3. ASSUME ndEnd = "none", GoodLine(line)
        PROVE  \E x : /\ Reading(Append(ndItems, line), rest, ndBody, x, ndRead)
                      /\ ~ndDone => x <= ndRead
    BY <1>3, <1>5, <1>6, <1>8, <2>3
  <2>4. ndEnd = "none" /\ ~GoodLine(line) => Whole(ndItems, ndBody)
    BY <1>5, <1>8
  <2>5. GoodLine(line) => \E x, y : Reading(Append(ndItems, line), rest, ndBody, x, y)
    BY <1>5, <1>8
  <2>q. QED
    BY <1>1, <2>1, <2>2, <2>3, <2>4, <2>5, TakeKeeps
<1>q. QED
  BY <1>7, <1>8

\* The rest of the buffer is taken as the last line.
LEMMA TakeRestKeeps == NdInv /\ TakeRest => NdInv'
<1> SUFFICES ASSUME NdInv, TakeRest PROVE NdInv'
  OBVIOUS
<1>1. /\ ndPhase = "loop" /\ ~HasNewline(ndBuffer) /\ ndDone /\ ndBody' = ndBody /\ ndRead' = ndRead
      /\ ndDone' = ndDone /\ ndLate' = ndLate
  BY DEF TakeRest
<1>2. ndBody \in Seq(Bytes) /\ ndRead \in 0..Len(ndBody) /\ ndDone \in BOOLEAN /\ ndItems \in BodyLines
  BY DEF NdInv, NdTypes
<1>3. ASSUME ndEnd = "none" PROVE \E p : Reading(ndItems, ndBuffer, ndBody, p, ndRead) /\ ndRead = Len(ndBody)
  BY <1>1, <1>3 DEF NdInv, NdOpen, NdReads, NdCutShort
<1>4. CASE ndBuffer = <<>>
  <2>1. Stop("end") /\ ndItems' = ndItems
    BY <1>4 DEF TakeRest
  <2>2. ndEnd = "none" => Whole(ndItems, ndBody)
    BY <1>1, <1>2, <1>3, <1>4, ReadRest
  <2>q. QED
    BY <1>1, <1>2, <2>1, <2>2, StopKeeps DEF BodyEndings
<1>5. CASE ndBuffer # <<>>
  <2>1. Take(ndBuffer, <<>>)
    BY <1>5 DEF TakeRest
  <2>2. PICK p, q : Reading(ndItems, ndBuffer, ndBody, p, q)
    BY <1>1, <1>3, <1>5 DEF NdInv, NdOpen, NdReads, NdCutShort
  <2>3. ndBuffer \in Seq(Bytes) /\ SureOf(ndItems, ndBody)
    BY <1>2, <2>2, ReadingSure DEF Reading, Buffered
  <2>4. ASSUME ndEnd = "none"
        PROVE  /\ GoodLine(ndBuffer) => \E x : Reading(Append(ndItems, ndBuffer), <<>>, ndBody, x, ndRead)
               /\ ~GoodLine(ndBuffer) => Whole(ndItems, ndBody)
    <3>1. PICK x : Reading(ndItems, ndBuffer, ndBody, x, Len(ndBody)) /\ ndRead = Len(ndBody)
      BY <1>3, <2>4
    <3>q. QED
      BY <1>1, <1>2, <1>5, <3>1, ReadRest
  <2>5. ndEnd = "none" /\ GoodLine(ndBuffer) =>
               \E x : /\ Reading(Append(ndItems, ndBuffer), <<>>, ndBody, x, ndRead)
                      /\ ~ndDone => x <= ndRead
    BY <1>1, <2>4
  <2>6. ndEnd # "none" /\ GoodLine(ndBuffer) =>
               \/ \E x, y : Reading(Append(ndItems, ndBuffer), <<>>, ndBody, x, y)
               \/ <<>> = <<>> /\ SureOf(ndItems, ndBody)
    BY <2>3
  <2>7. PICK rest : rest = <<>> /\ Take(ndBuffer, rest)
    BY <2>1
  <2>q. QED
    BY <1>1, <2>3, <2>4, <2>5, <2>6, <2>7, TakeKeeps
<1>q. QED
  BY <1>4, <1>5

\* The body is cut short below the decoder, which goes on with what it has.
LEMMA CutKeeps ==
    ASSUME NdInv, ndPhase \in {"loop", "wait"}, ~ndDone, NEW why \in {"bytes", "deadline"}, BodyEnds(why),
           ndBody' = ndBody, ndBuffer' = ndBuffer, ndItems' = ndItems, ndRead' \in 0..Len(ndBody)
    PROVE  NdInv'
<1>1. ndDone' = TRUE /\ ndPhase' = "loop" /\ ndEnd' = why
  BY DEF BodyEnds
<1>2. ndEnd = "none" /\ \E p : Reading(ndItems, ndBuffer, ndBody, p, ndRead)
  BY DEF NdInv, NdOpen, NdReads, NdCutShort
<1>3. NdCutShort'
  BY <1>2 DEF NdCutShort
<1>4. NdOpen'
  BY <1>1, <1>3 DEF NdOpen
<1>5. MaxStreamItems > 0 => Len(ndItems) < MaxStreamItems
  BY DEF NdInv, NdCount
<1>q. QED
  BY <1>1, <1>4, <1>5, GoOnKeeps

\* The decoder polls the body: the deadline is looked at first.
LEMMA PollBodyKeeps == NdInv /\ PollBody => NdInv'
<1> SUFFICES ASSUME NdInv, PollBody PROVE NdInv'
  OBVIOUS
<1>1. /\ ndPhase = "loop" /\ ~HasNewline(ndBuffer) /\ ~ndDone /\ ndBody' = ndBody /\ ndRead' = ndRead
      /\ ndBuffer' = ndBuffer /\ ndItems' = ndItems
  BY DEF PollBody
<1>2. ndRead \in 0..Len(ndBody)
  BY DEF NdInv, NdTypes
<1>3. CASE ndLate
  <2>1. BodyEnds("deadline")
    BY <1>3 DEF PollBody
  <2>q. QED
    BY <1>1, <1>2, <2>1, CutKeeps
<1>4. CASE ~ndLate
  <2>1. ndPhase' = "wait" /\ ndDone' = ndDone /\ ndEnd' = ndEnd
    BY <1>4 DEF PollBody
  <2>2. NdOpen' /\ ndEnd \in {"none", "bytes", "deadline"}
    BY <1>1, <2>1 DEF NdInv, NdOpen, NdReads, NdCutShort
  <2>3. MaxStreamItems > 0 => Len(ndItems) < MaxStreamItems
    BY <1>1 DEF NdInv, NdCount
  <2>4. ndDone \in BOOLEAN
    BY DEF NdInv, NdTypes
  <2>q. QED
    BY <1>1, <1>2, <2>1, <2>2, <2>3, <2>4, GoOnKeeps
<1>q. QED
  BY <1>3, <1>4

\* A chunk arrives: dropped over the byte limit, refused over the line limit, or buffered.
LEMMA ChunkKeeps == ASSUME NEW n \in 1..MaxChunk PROVE NdInv /\ Chunk(n) => NdInv'
<1> SUFFICES ASSUME NdInv, Chunk(n) PROVE NdInv'
  OBVIOUS
<1>1. /\ ndPhase = "wait" /\ ndRead + n <= Len(ndBody) /\ ndRead' = ndRead + n
      /\ ndBody' = ndBody /\ ndItems' = ndItems
  BY DEF Chunk
<1>2. ndBody \in Seq(Bytes) /\ ndRead \in 0..Len(ndBody) /\ n \in Nat /\ n >= 1
  BY NdjsonAssumption DEF NdInv, NdTypes
<1>3. ndRead \in Nat /\ ndRead' \in 0..Len(ndBody)
  BY <1>1, <1>2
<1>4. ~ndDone /\ ~HasNewline(ndBuffer) /\ ndEnd = "none"
  BY <1>1 DEF NdInv, NdOpen, NdReads, NdCutShort
<1>5. PICK p : Reading(ndItems, ndBuffer, ndBody, p, ndRead) /\ p <= ndRead
  BY <1>1, <1>4 DEF NdInv, NdOpen, NdReads, NdCutShort
<1>6. PICK chunk : chunk = SubSeq(ndBody, ndRead + 1, ndRead + n) /\ Chunked(chunk, ndBody, ndRead, n)
  BY <1>1, <1>2, <1>3, ChunkOf
<1>7. CASE MaxStreamBytes > 0 /\ ndRead + n > MaxStreamBytes
  <2>1. BodyEnds("bytes") /\ ndBuffer' = ndBuffer
    BY <1>7 DEF Chunk
  <2>q. QED
    BY <1>1, <1>3, <1>4, <2>1, CutKeeps
<1>8. CASE ~(MaxStreamBytes > 0 /\ ndRead + n > MaxStreamBytes) /\ PendingLine(chunk) > MaxLineBytes
  <2>1. Stop("oversized") /\ ndDone' = ndDone
    BY <1>6, <1>8 DEF Chunk
  <2>2. Len(ndBuffer) + (IF HasNewline(chunk) THEN Newline(chunk) - 1 ELSE Len(chunk)) > MaxLineBytes
    BY <1>8 DEF PendingLine
  <2>3. Whole(ndItems, ndBody)
    BY <1>1, <1>2, <1>4, <1>5, <1>6, <2>2, ReadOversized
  <2>q. QED
    BY <1>1, <1>3, <2>1, <2>3, StopKeeps DEF BodyEndings
<1>9. CASE ~(MaxStreamBytes > 0 /\ ndRead + n > MaxStreamBytes) /\ ~(PendingLine(chunk) > MaxLineBytes)
  <2>1. ndBuffer' = ndBuffer \o chunk /\ ndPhase' = "loop" /\ ndDone' = ndDone /\ ndEnd' = ndEnd
    BY <1>6, <1>9 DEF Chunk
  <2>2. Reading(ndItems, ndBuffer \o chunk, ndBody, p, ndRead + n) /\ p <= ndRead + n
    BY <1>1, <1>2, <1>5, <1>6, ReadChunk
  <2>3. Reading(ndItems', ndBuffer', ndBody', p, ndRead') /\ p <= ndRead'
    BY <1>1, <2>1, <2>2
  <2>4. NdOpen'
    BY <1>4, <2>1, <2>3 DEF NdOpen, NdReads, NdCutShort
  <2>5. MaxStreamItems > 0 => Len(ndItems) < MaxStreamItems
    BY <1>1 DEF NdInv, NdCount
  <2>6. ndDone' \in BOOLEAN
    BY <2>1 DEF NdInv, NdTypes
  <2>q. QED
    BY <1>1, <1>3, <1>4, <2>1, <2>4, <2>5, <2>6, GoOnKeeps
<1>q. QED
  BY <1>7, <1>8, <1>9

\* The body ends.
LEMMA BodyEndKeeps == NdInv /\ BodyEnd => NdInv'
<1> SUFFICES ASSUME NdInv, BodyEnd PROVE NdInv'
  OBVIOUS
<1>1. /\ ndPhase = "wait" /\ ndRead = Len(ndBody) /\ ndDone' = TRUE /\ ndPhase' = "loop" /\ ndBody' = ndBody
      /\ ndRead' = ndRead /\ ndBuffer' = ndBuffer /\ ndItems' = ndItems /\ ndEnd' = ndEnd
  BY DEF BodyEnd
<1>2. ndRead \in 0..Len(ndBody)
  BY DEF NdInv, NdTypes
<1>3. ndEnd = "none" /\ \E p : Reading(ndItems, ndBuffer, ndBody, p, ndRead)
  BY <1>1 DEF NdInv, NdOpen, NdReads, NdCutShort
<1>4. NdOpen'
  BY <1>1, <1>3 DEF NdOpen, NdReads, NdCutShort
<1>5. MaxStreamItems > 0 => Len(ndItems) < MaxStreamItems
  BY <1>1 DEF NdInv, NdCount
<1>q. QED
  BY <1>1, <1>2, <1>3, <1>4, <1>5, GoOnKeeps

\* The transport fails.
LEMMA BodyErrorKeeps == NdInv /\ BodyError => NdInv'
<1> SUFFICES ASSUME NdInv, BodyError PROVE NdInv'
  OBVIOUS
<1>1. /\ ndPhase = "wait" /\ Stop("transport") /\ ndBody' = ndBody /\ ndRead' = ndRead
      /\ ndItems' = ndItems /\ ndDone' = ndDone
  BY DEF BodyError
<1>2. ndRead \in 0..Len(ndBody)
  BY DEF NdInv, NdTypes
<1>q. QED
  BY <1>1, <1>2, StopKeeps DEF BodyEndings

\* The deadline passes while the decoder waits for the body.
LEMMA BodyTimeoutKeeps == NdInv /\ BodyTimeout => NdInv'
<1> SUFFICES ASSUME NdInv, BodyTimeout PROVE NdInv'
  OBVIOUS
<1>1. /\ ndPhase = "wait" /\ BodyEnds("deadline") /\ ndBody' = ndBody /\ ndRead' = ndRead
      /\ ndBuffer' = ndBuffer /\ ndItems' = ndItems
  BY DEF BodyTimeout
<1>2. ndRead \in 0..Len(ndBody) /\ ~ndDone
  BY <1>1 DEF NdInv, NdTypes, NdOpen, NdReads, NdCutShort
<1>q. QED
  BY <1>1, <1>2, CutKeeps

\* The deadline passes.
LEMMA DeadlineKeeps == NdInv /\ Deadline => NdInv'
  BY DEF NdInv, NdTypes, NdCount, NdOpen, NdReads, NdCutShort, NdEnded, Deadline

\* A stuttering step.
LEMMA NdSame == NdInv /\ UNCHANGED ndVars => NdInv'
  BY DEF NdInv, NdTypes, NdCount, NdOpen, NdReads, NdCutShort, NdEnded, ndVars

\* Every step keeps the invariant.
LEMMA NdStep == NdInv /\ [NdjsonNext]_ndVars => NdInv'
<1> SUFFICES ASSUME NdInv, [NdjsonNext]_ndVars PROVE NdInv'
  OBVIOUS
<1>q. QED
  BY PollItemKeeps, TakeLineKeeps, TakeRestKeeps, PollBodyKeeps, ChunkKeeps, BodyEndKeeps, BodyErrorKeeps,
     BodyTimeoutKeeps, DeadlineKeeps, NdSame DEF NdjsonNext

\* Whatever chunks the client's bytes arrive in and wherever a limit, the deadline or the
\* transport cuts them, the handler of a streamed body gets the body's lines, in order, up to
\* the first that is oversized or does not decode, and all of those when the stream ends with
\* the body; only the last item after a cut below the decoder is not sure (ndjson_decode).
THEOREM ItemsAreTheLines == BodySpec => []DecodedAgrees
<1>1. BodySpec => []NdInv
  BY NdInit, NdStep, PTL DEF BodySpec
<1>q. QED
  BY <1>1, NdInvImplies, PTL
=============================================================================
