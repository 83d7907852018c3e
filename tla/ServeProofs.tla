---------------------------- MODULE ServeProofs ----------------------------
(***************************************************************************)
(* Proofs about an application that serves (AppServe, with RpcServe and    *)
(* HttpServe) and about the frame reader of its connections, for every     *)
(* number of connections, requests and hooks, every registration, every    *)
(* payload and every limit.                                                *)
(*                                                                         *)
(* The requests come first.  The services left around a request and those  *)
(* it has entered are, together, what AxumPlugin::build made: the layers   *)
(* in the order of their registration, then the handler.                   *)
(*                                                                         *)
(* The application is in one phase, each protocol's serve() in another,    *)
(* and their tasks run on whatever the phase.  The invariant says which    *)
(* phases go together, and that a protocol that is not entered yet, or has *)
(* returned in good order, has no task left that could start another one.  *)
(*                                                                         *)
(* The reader implements FrameChannel, however its bytes are cut into      *)
(* reads and wherever a read is given up.  The proof follows the byte      *)
(* stream S the peer has written so far and the offsets o at which its     *)
(* frames begin: what the reader holds and what is still on the wire are   *)
(* consecutive slices of S from the first frame that was not delivered.    *)
(* Neither S nor o is part of the state; the invariant says they exist.    *)
(***************************************************************************)
EXTENDS AppServe, MessageReader, SequenceLemmas

-----------------------------------------------------------------------------
(* Requests behind their layers.                                            *)

\* Names of services and kinds of requests, and the other values a request takes.
Names == STRING \cup OwnServices \cup {"plain", "large"}
Places == {"none", "service", "socket", "stuck", "over"}
Statuses == {"none", "200", "101", "408", "413", "500", "user", "lost"}

\* The names a service may have.
LEMMA NamesHold ==
    OwnServices \subseteq Names /\ STRING \subseteq Names /\ {"plain", "large"} \subseteq Names /\ "handler" \in Names
  BY DEF Names, OwnServices

\* One element after a sequence, and a sequence without its first.
LEMMA OneMore ==
    ASSUME NEW S, NEW s \in Seq(S), NEW x \in S
    PROVE  /\ s \o <<x>> \in Seq(S) /\ Len(s \o <<x>>) = Len(s) + 1
           /\ \A i \in 1..Len(s) : (s \o <<x>>)[i] = s[i]
           /\ (s \o <<x>>)[Len(s) + 1] = x
           /\ Append(s, x) \in Seq(S) /\ Len(Append(s, x)) = Len(s) + 1
           /\ \A i \in 1..Len(s) : Append(s, x)[i] = s[i]
           /\ Append(s, x)[Len(s) + 1] = x
  OBVIOUS

\* A sequence without its first element.
LEMMA OneLess ==
    ASSUME NEW S, NEW s \in Seq(S), s # <<>>
    PROVE  /\ Tail(s) \in Seq(S) /\ Len(Tail(s)) + 1 = Len(s) /\ Head(s) \in S /\ Head(s) = s[1]
           /\ \A i \in 1..Len(Tail(s)) : Tail(s)[i] = s[i + 1]
  OBVIOUS

\* A sequence over a set is one over a larger set.
LEMMA SeqMono == ASSUME NEW S, NEW T, S \subseteq T, NEW s \in Seq(S) PROVE s \in Seq(T)
  OBVIOUS

\* Concatenation, as an operator of its own.
Cat(s, t) == s \o t

\* The elements of a concatenation.
LEMMA CatLaws ==
    ASSUME NEW S, NEW s \in Seq(S), NEW t \in Seq(S)
    PROVE  Cat(s, t) \in Seq(S) /\ Range(Cat(s, t)) = Range(s) \cup Range(t)
  BY RangeConcatenation DEF Cat

\* Concatenation is associative.
LEMMA CatAssociative ==
    ASSUME NEW S, NEW s \in Seq(S), NEW t \in Seq(S), NEW u \in Seq(S)
    PROVE  Cat(Cat(s, t), u) = Cat(s, Cat(t, u))
  BY ConcatAssociative DEF Cat

\* Five sequences one after the other, however they are grouped.
LEMMA Regrouped ==
    ASSUME NEW S, NEW a \in Seq(S), NEW b \in Seq(S), NEW c \in Seq(S), NEW d \in Seq(S), NEW e \in Seq(S)
    PROVE  /\ Cat(a, Cat(b, Cat(c, Cat(d, e)))) = Cat(Cat(Cat(Cat(a, b), c), d), e)
           /\ Cat(Cat(Cat(a, b), c), d) \in Seq(S)
           /\ Range(Cat(Cat(Cat(a, b), c), d)) = ((Range(a) \cup Range(b)) \cup Range(c)) \cup Range(d)
<1>1. /\ Cat(a, b) \in Seq(S) /\ Cat(d, e) \in Seq(S) /\ Range(Cat(a, b)) = Range(a) \cup Range(b)
  BY CatLaws
<1>2. /\ Cat(Cat(a, b), c) \in Seq(S) /\ Cat(c, Cat(d, e)) \in Seq(S)
      /\ Range(Cat(Cat(a, b), c)) = Range(Cat(a, b)) \cup Range(c)
  BY <1>1, CatLaws
<1>3. /\ Cat(Cat(Cat(a, b), c), d) \in Seq(S)
      /\ Range(Cat(Cat(Cat(a, b), c), d)) = Range(Cat(Cat(a, b), c)) \cup Range(d)
  BY <1>2, CatLaws
<1>4. Cat(a, Cat(b, Cat(c, Cat(d, e)))) = Cat(Cat(a, b), Cat(c, Cat(d, e)))
  BY <1>2, CatAssociative
<1>5. Cat(Cat(a, b), Cat(c, Cat(d, e))) = Cat(Cat(Cat(a, b), c), Cat(d, e))
  BY <1>1, CatAssociative
<1>6. Cat(Cat(Cat(a, b), c), Cat(d, e)) = Cat(Cat(Cat(Cat(a, b), c), d), e)
  BY <1>2, CatAssociative
<1>q. QED
  BY <1>1, <1>2, <1>3, <1>4, <1>5, <1>6, Zenon

\* The layers are those of AroundHandler, and behind them the handler.
LEMMA BuiltAround ==
    ASSUME NEW a \in HttpApps
    PROVE  /\ AroundHandler(a) \in Seq(Names)
           /\ build(a) = AroundHandler(a) \o <<"handler">>
           /\ "handler" \notin Range(AroundHandler(a)) /\ "limit" \in Range(AroundHandler(a))
           /\ "timeout" \in Range(AroundHandler(a)) => a.timeout
<1>1. PICK M \in Seq(STRING \ OwnServices) : M = a.middleware
  BY HttpServeAssumption
<1>2. M \in Seq(Names) /\ "handler" \in Names
  BY NamesHold, SeqMono
<1>3. UserStack(a) = M \o <<"handler">>
  <2>1. UserStack(a) = Wrapped("handler", M)
    BY <1>1 DEF UserStack, Wrapped, Layered
  <2>2. /\ Wrapped("handler", M) \in Seq(Names) /\ Len(Wrapped("handler", M)) = Len(M) + 1
        /\ Wrapped("handler", M)[Len(M) + 1] = "handler"
    BY <1>2, WrappedInOrder, ZenonT(40)
  <2>3. \A i \in 1..Len(M) : Wrapped("handler", M)[i] = M[i]
    BY <1>2, WrappedLayer
  <2>4. PICK W \in Seq(Names) : /\ W = Wrapped("handler", M) /\ Len(W) = Len(M) + 1
                                 /\ W[Len(M) + 1] = "handler" /\ \A i \in 1..Len(M) : W[i] = M[i]
    BY <2>2, <2>3, Zenon
  <2>5. PICK V \in Seq(Names) : /\ V = M \o <<"handler">> /\ Len(V) = Len(M) + 1
                                 /\ V[Len(M) + 1] = "handler" /\ \A i \in 1..Len(M) : V[i] = M[i]
    <3>1. PICK h \in Names : h = "handler"
      BY <1>2
    <3>2. /\ M \o <<h>> \in Seq(Names) /\ Len(M \o <<h>>) = Len(M) + 1
          /\ (M \o <<h>>)[Len(M) + 1] = h /\ \A i \in 1..Len(M) : (M \o <<h>>)[i] = M[i]
      BY <1>2, OneMore
    <3>q. QED
      BY <3>1, <3>2
  <2>6. \A i \in 1..Len(W) : W[i] = V[i]
    BY <2>4, <2>5
  <2>7. W = V
    BY <2>4, <2>5, <2>6, SeqEqual
  <2>q. QED
    BY <2>1, <2>4, <2>5, <2>7
<1>4. PICK D \in Seq(Names) : D = Deadline(a) /\ Range(D) \subseteq {"timeout"} /\ (Range(D) # {} => a.timeout)
  <2>1. /\ Deadline(a) \in Seq(Names) /\ Range(Deadline(a)) \subseteq {"timeout"}
        /\ Range(Deadline(a)) # {} => a.timeout
    <3>1. CASE a.timeout
      <4>1. PICK t \in Names : t = "timeout"
        BY NamesHold DEF OwnServices
      <4>2. Deadline(a) = <<t>>
        BY <3>1, <4>1 DEF Deadline
      <4>3. <<t>> \in Seq(Names) /\ Range(<<t>>) = {t}
        BY DEF Range
      <4>q. QED
        BY <3>1, <4>1, <4>2, <4>3, Zenon
    <3>2. CASE ~a.timeout
      <4>1. Deadline(a) = <<>> /\ <<>> \in Seq(Names) /\ Range(<<>>) = {}
        BY <3>2 DEF Deadline, Range
      <4>q. QED
        BY <4>1
    <3>q. QED
      BY <3>1, <3>2
  <2>q. QED
    BY <2>1
<1>5. PICK S1 \in Seq(Names), L1 \in Seq(Names), H1 \in Seq(Names) :
          /\ S1 = <<"scope">> /\ L1 = <<"limit">> /\ H1 = <<"handler">>
          /\ Range(S1) = {"scope"} /\ Range(L1) = {"limit"} /\ Range(H1) = {"handler"}
  <2>1. "scope" \in Names /\ "limit" \in Names /\ "handler" \in Names
    BY NamesHold DEF OwnServices
  <2>2. ASSUME NEW x \in Names PROVE <<x>> \in Seq(Names) /\ Range(<<x>>) = {x}
    BY DEF Range
  <2>q. QED
    BY <2>1, <2>2, Zenon
<1>6. /\ build(a) = Cat(S1, Cat(D, Cat(L1, Cat(M, H1))))
      /\ AroundHandler(a) = Cat(Cat(Cat(S1, D), L1), M)
  BY <1>1, <1>3, <1>4, <1>5 DEF build, Layered, AroundHandler, Cat
<1>7. /\ build(a) = Cat(AroundHandler(a), H1) /\ AroundHandler(a) \in Seq(Names)
      /\ Range(AroundHandler(a)) = ((Range(S1) \cup Range(D)) \cup Range(L1)) \cup Range(M)
  BY <1>2, <1>6, Regrouped
<1>8. build(a) = AroundHandler(a) \o <<"handler">>
  BY <1>5, <1>7 DEF Cat
<1>10. \A x \in Range(M) : x \notin OwnServices
  BY DEF Range
<1>q. QED
  BY <1>4, <1>5, <1>7, <1>8, <1>10 DEF OwnServices

HttpRequest ==
    [at : Places, left : Seq(Names), entered : Seq(Names), kind : Names, answer : Statuses]

\* The services left around a request in service.
LeftOf(q, A) ==
    /\ q.answer = "none" /\ Len(q.left) = Len(A) + 1 - Len(q.entered)
    /\ \A i \in 1..Len(q.left) : q.left[i] = (A \o <<"handler">>)[Len(q.entered) + i]

\* A request has entered the layers A from the outside in.
BehindLayers(q, A) ==
    /\ q \in HttpRequest /\ Len(q.entered) <= Len(A)
    /\ \A i \in 1..Len(q.entered) : q.entered[i] = A[i]
    /\ q.at = "service" => LeftOf(q, A)
    /\ q.answer \in {"200", "413", "101"} => Len(q.entered) = Len(A)
    /\ q.answer = "408" => "timeout" \in Range(A)

\* The inductive invariant of the requests.
ServedInv == \A r \in Requests : BehindLayers(request[r], AroundHandler(http))

Layers == {A \in Seq(Names) : "handler" \notin Range(A) /\ "limit" \in Range(A)}

\* What is at the head of the services left.
LEMMA NextService ==
    ASSUME NEW A \in Layers, NEW q, BehindLayers(q, A), q.at = "service"
    PROVE  /\ q.left # <<>> /\ Head(q.left) \in Names
           /\ Head(q.left) = "handler" => Len(q.entered) = Len(A)
           /\ Head(q.left) # "handler" =>
                  Len(q.entered) + 1 <= Len(A) /\ Head(q.left) = A[Len(q.entered) + 1]
<1>1. /\ q.left \in Seq(Names) /\ q.entered \in Seq(Names) /\ LeftOf(q, A) /\ A \in Seq(Names)
      /\ Len(q.entered) <= Len(A)
  BY DEF BehindLayers, HttpRequest, Layers
<1>2. PICK L \in Seq(Names), n \in Nat, m \in Nat :
          L = q.left /\ n = Len(q.entered) /\ m = Len(A) /\ n <= m /\ Len(L) = m + 1 - n
  <2>1. Len(q.entered) \in Nat /\ Len(A) \in Nat
    BY <1>1
  <2>q. QED
    BY <1>1, <2>1 DEF LeftOf
<1>3. 1 \in 1..Len(L) /\ L # <<>>
  <2>1. Len(L) \in Nat /\ Len(L) >= 1
    BY <1>2
  <2>2. Len(<<>>) = 0
    OBVIOUS
  <2>3. L # <<>>
    BY <2>1, <2>2
  <2>q. QED
    BY <2>1, <2>3
<1>4. Head(L) = L[1] /\ L[1] = (A \o <<"handler">>)[n + 1] /\ Head(L) \in Names
  BY <1>1, <1>2, <1>3 DEF LeftOf
<1>5. CASE n = m
  BY <1>1, <1>2, <1>3, <1>4, <1>5
<1>6. CASE n < m
  <2>1. (A \o <<"handler">>)[n + 1] = A[n + 1] /\ n + 1 \in 1..Len(A)
    BY <1>1, <1>2, <1>6
  <2>2. A[n + 1] \in Range(A)
    BY <1>1, <2>1 DEF Range
  <2>3. A[n + 1] # "handler"
    BY <2>2 DEF Layers
  <2>q. QED
    BY <1>2, <1>3, <1>4, <2>1, <2>3
<1>q. QED
  BY <1>2, <1>5, <1>6

\* Entering the next service.
LEMMA EnteredNext ==
    ASSUME NEW A \in Layers, NEW q, BehindLayers(q, A), q.at = "service", Head(q.left) # "handler"
    PROVE  BehindLayers([q EXCEPT !.left = Tail(@), !.entered = Append(@, Head(q.left))], A)
<1>1. /\ q \in HttpRequest /\ LeftOf(q, A) /\ A \in Seq(Names)
      /\ q.left \in Seq(Names) /\ q.entered \in Seq(Names)
      /\ \A i \in 1..Len(q.entered) : q.entered[i] = A[i]
  BY DEF BehindLayers, HttpRequest, Layers
<1>2. /\ q.left # <<>> /\ Head(q.left) \in Names
      /\ Len(q.entered) + 1 <= Len(A) /\ Head(q.left) = A[Len(q.entered) + 1]
  BY NextService
<1>3. PICK K \in Seq(Names), F \in Seq(Names), L \in Seq(Names), E \in Seq(Names), n \in Nat :
          /\ K = q.left /\ F = q.entered /\ n = Len(F)
          /\ L = Tail(K) /\ E = Append(F, Head(K))
  <2>1. PICK K \in Seq(Names), F \in Seq(Names), n \in Nat : K = q.left /\ F = q.entered /\ n = Len(F)
    BY <1>1
  <2>2. Tail(K) \in Seq(Names) /\ Append(F, Head(K)) \in Seq(Names)
    BY <1>2, <2>1
  <2>q. QED
    BY <2>1, <2>2
<1>a. /\ K # <<>> /\ Head(K) \in Names /\ n + 1 <= Len(A) /\ Head(K) = A[n + 1]
      /\ \A i \in 1..n : F[i] = A[i]
  BY <1>1, <1>2, <1>3
<1>4. PICK p : p = [q EXCEPT !.left = L, !.entered = E]
  OBVIOUS
<1>5. p = [q EXCEPT !.left = Tail(@), !.entered = Append(@, Head(q.left))]
  BY <1>3, <1>4
<1>6. /\ p \in HttpRequest /\ p.left = L /\ p.entered = E /\ p.answer = q.answer /\ p.kind = q.kind
      /\ p.at = "service"
  BY <1>1, <1>3, <1>4 DEF HttpRequest
<1>7. Len(E) = n + 1 /\ Len(E) <= Len(A) /\ \A i \in 1..Len(E) : E[i] = A[i]
  <2>1. Len(E) = n + 1 /\ E[n + 1] = Head(K) /\ \A i \in 1..n : E[i] = F[i]
    BY <1>3, <1>a, OneMore
  <2>2. n + 1 <= Len(A) /\ \A i \in 1..(n + 1) : E[i] = A[i]
    <3> SUFFICES ASSUME NEW i \in 1..(n + 1) PROVE E[i] = A[i]
      BY <1>a
    <3>1. CASE i = n + 1
      BY <1>a, <2>1, <3>1
    <3>2. CASE i # n + 1
      <4>1. i \in 1..n
        BY <3>2
      <4>q. QED
        BY <1>a, <2>1, <4>1
    <3>q. QED
      BY <3>1, <3>2
  <2>q. QED
    BY <2>1, <2>2
<1>8. LeftOf(p, A)
  <2>a. Len(A) \in Nat
    BY <1>1
  <2>1. PICK m, B : m \in Nat /\ m = Len(A) /\ B = A \o <<"handler">>
    BY <2>a
  <2>2. Len(K) = m + 1 - n /\ \A i \in 1..Len(K) : K[i] = B[n + i]
    BY <1>1, <1>3, <2>1 DEF LeftOf
  <2>3. Len(L) + 1 = Len(K) /\ Len(L) \in Nat /\ \A i \in 1..Len(L) : L[i] = K[i + 1]
    BY <1>3, <1>a, OneLess
  <2>4. ASSUME NEW i \in 1..Len(L) PROVE L[i] = B[Len(E) + i]
    <3>1. i + 1 \in 1..Len(K) /\ n + (i + 1) = Len(E) + i
      BY <1>7, <2>3
    <3>q. QED
      BY <2>2, <2>3, <3>1
  <2>5. Len(L) = m + 1 - Len(E)
    BY <1>7, <2>1, <2>2, <2>3
  <2>q. QED
    BY <1>1, <1>6, <2>1, <2>4, <2>5 DEF LeftOf
<1>9. q.answer = "none"
  BY <1>1 DEF LeftOf
<1>q. QED
  BY <1>5, <1>6, <1>7, <1>8, <1>9 DEF BehindLayers

\* Leaving the stack: with an answer, or as an upgraded socket.
LEMMA LeavesStack ==
    ASSUME NEW A \in Layers, NEW q, BehindLayers(q, A), NEW at \in Places, NEW status \in Statuses,
           at # "service",
           status \in {"200", "413", "101"} => Len(q.entered) = Len(A),
           status = "408" => "timeout" \in Range(A)
    PROVE  BehindLayers([q EXCEPT !.at = at, !.left = <<>>, !.answer = status], A)
<1>1. q \in HttpRequest /\ <<>> \in Seq(Names)
  BY DEF BehindLayers
<1>2. PICK p : p = [q EXCEPT !.at = at, !.left = <<>>, !.answer = status]
  OBVIOUS
<1>3. /\ p \in HttpRequest /\ p.entered = q.entered /\ p.answer = status /\ p.kind = q.kind
      /\ p.at = at
  BY <1>1, <1>2 DEF HttpRequest
<1>q. QED
  BY <1>2, <1>3 DEF BehindLayers

\* A socket changes its place only.
LEMMA SocketMoves ==
    ASSUME NEW A, NEW q, BehindLayers(q, A), NEW at \in {"stuck", "over"}
    PROVE  BehindLayers([q EXCEPT !["at"] = at], A)
<1>1. q \in HttpRequest /\ at \in Places /\ at # "service"
  BY DEF BehindLayers, Places
<1>2. PICK p : p = [q EXCEPT !.at = at]
  OBVIOUS
<1>3. /\ p \in HttpRequest /\ p.entered = q.entered /\ p.answer = q.answer /\ p.kind = q.kind
      /\ p.at = at
  BY <1>1, <1>2 DEF HttpRequest
<1>q. QED
  BY <1>2, <1>3 DEF BehindLayers

\* The layers around the handler, as a value.
LEMMA HttpLayers ==
    ASSUME TypeOK
    PROVE  AroundHandler(http) \in Layers /\ ("timeout" \in Range(AroundHandler(http)) => http.timeout)
  BY BuiltAround DEF TypeOK, Layers

\* A step of a request keeps it behind its layers.
LEMMA RequestBehind ==
    ASSUME TypeOK, ServedInv, NEW r \in Requests, RequestStep(r)
    PROVE  \E q : Becomes(r, q) /\ BehindLayers(q, AroundHandler(http))
<1>1. PICK A \in Layers : A = AroundHandler(http) /\ BehindLayers(request[r], A)
  BY HttpLayers DEF ServedInv
<1> SUFFICES \E q : Becomes(r, q) /\ BehindLayers(q, A)
  BY <1>1
<1>2. ASSUME InService(r), Enters(r), Head(request[r].left) # "handler"
      PROVE  \E q : Becomes(r, q) /\ BehindLayers(q, A)
  BY <1>1, <1>2, EnteredNext DEF InService, Enters
<1>3. ASSUME NEW at \in Places, NEW status \in Statuses, at # "service",
             Becomes(r, [request[r] EXCEPT !.at = at, !.left = <<>>, !.answer = status]),
             status \in {"200", "413", "101"} => Len(request[r].entered) = Len(A),
             status = "408" => "timeout" \in Range(A)
      PROVE  \E q : Becomes(r, q) /\ BehindLayers(q, A)
  BY <1>1, <1>3, LeavesStack
<1>4. ASSUME NEW status \in {"500", "user", "lost"}, Answered(r, status)
      PROVE  \E q : Becomes(r, q) /\ BehindLayers(q, A)
  <2>1. /\ status \in Statuses /\ "over" \in Places /\ "over" # "service"
        /\ status \notin {"200", "413", "101", "408"}
    BY DEF Statuses, Places
  <2>q. QED
    BY <1>3, <1>4, <2>1 DEF Answered
<1>5. CASE OpenScope(r)
  BY <1>2, <1>4, <1>5 DEF OpenScope
<1>6. CASE EnterPolicy(r)
  BY <1>2, <1>6 DEF EnterPolicy
<1>7. CASE EnterMiddleware(r)
  <2>1. Head(request[r].left) # "handler"
    <3>1. http.middleware \in Seq(STRING \ OwnServices)
      BY HttpServeAssumption DEF TypeOK
    <3>q. QED
      BY <1>7, <3>1 DEF EnterMiddleware, Range, OwnServices
  <2>q. QED
    BY <1>2, <1>4, <1>7, <2>1 DEF EnterMiddleware
<1>8. CASE Handle(r)
  <2>1. Len(request[r].entered) = Len(A)
    BY <1>1, <1>8, NextService DEF Handle, InService
  <2>2. "limit" \in Range(request[r].entered)
    <3>1. request[r].entered \in Seq(Names) /\ A \in Seq(Names) /\ "limit" \in Range(A)
      BY <1>1 DEF BehindLayers, HttpRequest, Layers
    <3>2. PICK i \in 1..Len(A) : A[i] = "limit"
      BY <3>1 DEF Range
    <3>3. request[r].entered[i] = "limit" /\ i \in DOMAIN request[r].entered
      BY <1>1, <2>1, <3>1, <3>2 DEF BehindLayers
    <3>q. QED
      BY <3>3 DEF Range
  <2>3. \/ Answered(r, "413") \/ Answered(r, "500")
        \/ Answered(r, "200")
        \/ Becomes(r, [request[r] EXCEPT !.at = "socket", !.left = <<>>, !.answer = "101"])
    BY <1>8, <2>2 DEF Handle
  <2>4. {"413", "200", "101"} \subseteq Statuses /\ {"over", "socket"} \subseteq Places
    BY DEF Statuses, Places
  <2>5. CASE Answered(r, "413")
    BY <1>3, <2>1, <2>4, <2>5 DEF Answered
  <2>6. CASE Answered(r, "200")
    BY <1>3, <2>1, <2>4, <2>6 DEF Answered
  <2>7. CASE Becomes(r, [request[r] EXCEPT !.at = "socket", !.left = <<>>, !.answer = "101"])
    BY <1>3, <2>1, <2>4, <2>7
  <2>q. QED
    BY <1>4, <2>3, <2>5, <2>6, <2>7
<1>9. CASE RequestTimeout(r)
  <2>1. "timeout" \in Range(A)
    <3>1. request[r].entered \in Seq(Names) /\ A \in Seq(Names) /\ Len(request[r].entered) <= Len(A)
      BY <1>1 DEF BehindLayers, HttpRequest, Layers
    <3>2. PICK i \in 1..Len(request[r].entered) : request[r].entered[i] = "timeout"
      BY <1>9, <3>1 DEF RequestTimeout, Range
    <3>3. A[i] = "timeout" /\ i \in DOMAIN A
      BY <1>1, <3>1, <3>2 DEF BehindLayers
    <3>q. QED
      BY <3>3 DEF Range
  <2>2. "408" \in Statuses /\ "over" \in Places
    BY DEF Statuses, Places
  <2>q. QED
    BY <1>3, <1>9, <2>1, <2>2 DEF RequestTimeout, Answered
<1>10. CASE ConnectionLost(r)
  BY <1>4, <1>10 DEF ConnectionLost
<1>11. CASE SocketStalls(r) \/ SocketCloses(r) \/ SocketDrained(r)
  BY <1>1, <1>11, SocketMoves DEF SocketStalls, SocketCloses, SocketDrained, Set
<1>q. QED
  BY <1>5, <1>6, <1>7, <1>8, <1>9, <1>10, <1>11 DEF RequestStep

\* A request that arrives is outside all layers.
LEMMA ReceivedOutside ==
    ASSUME TypeOK, NEW r \in Requests, NEW kind \in Kinds, Receive(r, kind)
    PROVE  \E q : Becomes(r, q) /\ BehindLayers(q, AroundHandler(http))
<1>1. PICK A \in Layers : A = AroundHandler(http) /\ build(http) = A \o <<"handler">>
  BY HttpLayers, BuiltAround DEF TypeOK
<1>2. PICK B \in Seq(Names) : B = build(http) /\ Len(B) = Len(A) + 1
  <2>1. A \o <<"handler">> \in Seq(Names) /\ Len(A \o <<"handler">>) = Len(A) + 1
    <3>1. PICK h \in Names : h = "handler"
      BY NamesHold
    <3>2. A \o <<h>> \in Seq(Names) /\ Len(A \o <<h>>) = Len(A) + 1
      BY OneMore DEF Layers
    <3>q. QED
      BY <3>1, <3>2
  <2>q. QED
    BY <1>1, <2>1
<1>3. kind \in Names
  <2>1. PICK e \in Seq(STRING) : e = http.endpoints
    BY HttpServeAssumption DEF TypeOK
  <2>2. Range(e) \subseteq STRING
    BY DEF Range
  <2>q. QED
    BY <2>1, <2>2, NamesHold DEF Receive
<1>4. PICK q : q = [NoRequest EXCEPT !.at = "service", !.left = B, !.kind = kind]
  OBVIOUS
<1>5. /\ q \in HttpRequest /\ q.left = B /\ q.entered = <<>> /\ q.answer = "none" /\ q.kind = kind
  <2>1. <<>> \in Seq(Names) /\ "none" \in Statuses /\ "service" \in Places
    BY DEF Statuses, Places
  <2>2. q = [at |-> "service", left |-> B, entered |-> <<>>, kind |-> kind, answer |-> "none"]
    BY <1>4 DEF NoRequest
  <2>q. QED
    BY <1>3, <2>1, <2>2 DEF HttpRequest
<1>6. LeftOf(q, A)
  BY <1>1, <1>2, <1>5 DEF LeftOf, Layers
<1>7. BehindLayers(q, A)
  BY <1>5, <1>6 DEF BehindLayers, Layers
<1>q. QED
  BY <1>1, <1>2, <1>4, <1>7 DEF Receive

-----------------------------------------------------------------------------
(* The application: its inductive invariant.                                *)

\* No request is being served, none is an open socket, and none will be.
NoRequests == ~accepting /\ \A r \in Requests : ~InService(r) /\ ~Upgraded(r)

\* The RPC server: off outside its mode and before it is entered, over on the way out;
\* while it is off, and after it returned without a panic, no connection task is alive.
RpcOver ==
    /\ spc # "off" => mode = "rpc" /\ apc \notin {"startup", "spawn"}
    /\ apc \in {"stopping", "cleanup", "hooks", "done"} => spc \in {"off", "returned"}
    /\ spc = "off" \/ (spc = "returned" /\ result # "panic") => Alive = {}

\* The HTTP server, in the same way.
HttpOver ==
    /\ xpc # "off" => mode = "http" /\ apc \notin {"startup", "spawn"}
    /\ apc \in {"stopping", "cleanup", "hooks", "done"} => xpc \in {"off", "returned", "dropped"}

\* App::run never serves, App::serve never waits.
ModeFixed == apc = "waiting" => mode = "run"

\* No reload trigger runs before the start-up hooks are done or after serve() is over.
TriggersOver == apc \in {"startup", "cleanup", "hooks", "done"} => triggers # "running"

\* Every hook that run_shutdown selected is running or has returned.
HooksAccounted ==
    /\ apc = "hooks" => Paired \subseteq hooks \cup tornDown
    /\ apc = "done" => Paired \subseteq tornDown

\* The inductive invariant.
TeardownInv ==
    TypeOK /\ RpcOver /\ HttpOver /\ ModeFixed /\ TriggersOver /\ HooksAccounted

-----------------------------------------------------------------------------
(* Types.                                                                   *)

\* The JoinSet stays within its limit when a slot is free for one more.
LEMMA HeldAfterAccept ==
    ASSUME conn \in [Connections -> ConnPhase], NEW c \in Connections, Admits,
           conn' = [conn EXCEPT ![c] = "opening"]
    PROVE  Cardinality(Held') <= MaxConnections
<1>1. Held' \subseteq Held \cup {c} /\ Held \subseteq Connections
  BY DEF Held
<1>2. IsFiniteSet(Held) /\ IsFiniteSet(Held \cup {c})
  BY ServeAssumption, <1>1, FS_Subset, FS_AddElement
<1>3. Cardinality(Held \cup {c}) <= Cardinality(Held) + 1 /\ Cardinality(Held) \in Nat
  BY <1>2, FS_AddElement, FS_CardinalityType
<1>4. Cardinality(Held') <= Cardinality(Held \cup {c}) /\ Cardinality(Held') \in Nat
  BY <1>1, <1>2, FS_Subset, FS_CardinalityType
<1>5. Cardinality(Held \cup {c}) \in Nat /\ Cardinality(Held) < MaxConnections
  BY <1>2, FS_CardinalityType DEF Admits
<1>q. QED
  BY ServeAssumption, <1>3, <1>4, <1>5

\* And when tasks leave it.
LEMMA HeldShrinks ==
    ASSUME TypeOK, Held' \subseteq Held
    PROVE  Cardinality(Held') <= MaxConnections
<1>1. IsFiniteSet(Held)
  BY ServeAssumption, FS_Subset DEF Held
<1>2. Cardinality(Held') <= Cardinality(Held) /\ Cardinality(Held') \in Nat /\ Cardinality(Held) \in Nat
  BY <1>1, FS_Subset, FS_CardinalityType
<1>q. QED
  BY ServeAssumption, <1>2 DEF TypeOK

\* The part of TypeOK that serve() and its connection tasks change.
ServeType ==
    /\ shutdown \in BOOLEAN /\ cancelled \in BOOLEAN
    /\ spc \in ServePhase /\ conn \in [Connections -> ConnPhase]
    /\ Cardinality(Held) <= MaxConnections
    /\ retry \in RetryInitial..RetryMax
    /\ result \in {"none", "ok", "error", "panic"}

\* A step of a connection task only lets the JoinSet shrink.
LEMMA ConnectionTypes ==
    ASSUME TypeOK, NEW c \in Connections, ConnectionStep(c)
    PROVE  ServeType' /\ UNCHANGED <<shutdown, spc, cancelled, retry, result>>
<1>1. /\ \E s \in {"serving", "ended", "joined"} :
           conn[c] \in {"opening", "serving", "ended"} /\ conn' = [conn EXCEPT ![c] = s]
      /\ UNCHANGED <<shutdown, spc, cancelled, retry, result>>
  BY DEF ConnectionStep, Join, ScopeOpened, ScopeFails, ConnectionEnds, ConnectionCancelled
<1>2. Held' \subseteq Held /\ conn' \in [Connections -> ConnPhase]
  BY <1>1 DEF Held, TypeOK, ConnPhase
<1>3. Cardinality(Held') <= MaxConnections
  BY <1>2, HeldShrinks
<1>q. QED
  BY <1>1, <1>2, <1>3 DEF TypeOK, ServeType

\* Doubling the back-off keeps it between its limits.
LEMMA RetryTypes ==
    ASSUME NEW n \in RetryInitial..RetryMax
    PROVE  /\ RetryInitial \in RetryInitial..RetryMax
           /\ (IF n * 2 < RetryMax THEN n * 2 ELSE RetryMax) \in RetryInitial..RetryMax
<1>1. n \in Nat /\ n * 2 \in Nat /\ n * 2 >= RetryInitial
  BY ServeAssumption
<1>q. QED
  BY ServeAssumption, <1>1

\* serve() keeps the types.
LEMMA ServeTypes ==
    ASSUME TypeOK, ServeNext
    PROVE  ServeType'
<1>1. ASSUME NEW c \in Connections, Accept(c) PROVE ServeType'
  BY <1>1, HeldAfterAccept, RetryTypes DEF Accept, TypeOK, ServeType, ConnPhase
<1>2. CASE BackoffOver
  <2>1. retry' \in RetryInitial..RetryMax
    BY <1>2, RetryTypes DEF BackoffOver, TypeOK
  <2>q. QED
    BY <1>2, <2>1 DEF BackoffOver, TypeOK, ServeType, Held, ServePhase
<1>3. CASE AcceptTransient \/ AcceptClosed \/ AcceptFails \/ ServePanics
  BY <1>3 DEF AcceptTransient, AcceptClosed, AcceptFails, ServePanics, TypeOK, ServeType, Held,
              ServePhase
<1>4. CASE SeeShutdown \/ DrainShutdown \/ ServeReturns \/ RequestShutdown
  BY <1>4 DEF SeeShutdown, DrainShutdown, ServeReturns, RequestShutdown, server, TypeOK,
              ServeType, Held, ServePhase
<1>q. QED
  BY <1>1, <1>2, <1>3, <1>4, ConnectionTypes DEF ServeNext, AcceptArm, ServeStep

\* The part of TypeOK that run() changes.
HttpType ==
    /\ http \in HttpApps /\ xpc \in HttpPhase
    /\ signalled \in BOOLEAN /\ notice \in BOOLEAN /\ accepting \in BOOLEAN

\* The part of TypeOK that the application changes.
AppType ==
    /\ mode \in {"rpc", "http", "run"} /\ apc \in AppPhase /\ failed \in BOOLEAN
    /\ succeeded \in 0..Len(StartupHooks)
    /\ triggers \in {"none", "running", "stopped"}
    /\ hooks \subseteq 1..Len(ShutdownHooks) /\ tornDown \subseteq 1..Len(ShutdownHooks)

\* What a step leaves of the types of what it does not touch.
LEMMA TypesKept ==
    ASSUME TypeOK
    PROVE  /\ ServeType /\ HttpType /\ AppType
           /\ UNCHANGED serveVars => ServeType'
           /\ UNCHANGED httpServeVars => HttpType'
           /\ UNCHANGED app => AppType'
           /\ ServeType' /\ HttpType' /\ AppType' => TypeOK'
<1>1. ServeType /\ HttpType /\ AppType
  BY DEF TypeOK, ServeType, HttpType, AppType
<1>2. UNCHANGED serveVars => ServeType'
  BY <1>1 DEF ServeType, serveVars, server, Held
<1>3. UNCHANGED httpServeVars => HttpType'
  BY <1>1 DEF HttpType, httpServeVars, httpServer
<1>4. UNCHANGED app => AppType'
  BY <1>1 DEF AppType, app
<1>5. ServeType' /\ HttpType' /\ AppType' => TypeOK'
  BY DEF TypeOK, ServeType, HttpType, AppType
<1>q. QED
  BY <1>1, <1>2, <1>3, <1>4, <1>5

\* A step of a request changes the request and nothing else.
LEMMA RequestsOnly ==
    ASSUME RequestsNext
    PROVE  UNCHANGED <<http, httpServer>>
  BY DEF RequestsNext, RequestStep, Receive, OpenScope, EnterPolicy, EnterMiddleware, Handle,
         RequestTimeout, ConnectionLost, SocketStalls, SocketCloses, SocketDrained, Answered,
         Enters, Becomes

\* The application's own steps.
AppStep == Step \/ \E n \in 1..Len(ShutdownHooks) : ShutdownHookReturns(n)

\* They keep the types.
LEMMA AppStepTypes ==
    ASSUME TypeOK, AppStep
    PROVE  TypeOK'
<1>1. ServeType /\ HttpType /\ AppType
  BY TypesKept
<1>2. CASE SpawnTriggers
  BY <1>1, <1>2, TypesKept DEF SpawnTriggers, ServeType, ServePhase, Held, AppType, AppPhase
<1>3. CASE ~SpawnTriggers
  <2>1. UNCHANGED <<serveVars, httpServeVars>>
    BY <1>3 DEF AppStep, Step, StartupHookOk, StartupHookFails, StartupDone, WaitEnds, ServeEnded,
                TriggersStopped, RunShutdown, Ended, ShutdownHookReturns, protocols
  <2>2. ASSUME StartupHookOk PROVE AppType'
    <3>1. succeeded + 1 \in 0..Len(StartupHooks)
      BY <1>1, <2>2 DEF StartupHookOk, AppType, NextHook
    <3>q. QED
      BY <1>1, <2>2, <3>1 DEF StartupHookOk, AppType, NextHook
  <2>3. ASSUME ~StartupHookOk PROVE AppType'
    BY <1>1, <1>3, <2>3 DEF AppStep, Step, StartupHookFails, StartupDone, WaitEnds, ServeEnded,
         TriggersStopped, RunShutdown, Ended, ShutdownHookReturns, AppType, AppPhase,
         AfterFailure, Paired
  <2>4. AppType'
    BY <2>2, <2>3
  <2>q. QED
    BY <2>1, <2>4, TypesKept
<1>q. QED
  BY <1>2, <1>3

\* Every step keeps the types.
LEMMA TypeStep == ASSUME TypeOK, [Next]_vars PROVE TypeOK'
<1>1. ServeType /\ HttpType /\ AppType
  BY TypesKept
<1>2. CASE RpcProtocol
  BY <1>2, ServeTypes, TypesKept DEF RpcProtocol
<1>3. CASE HttpProtocol
  <2>1. HttpType'
    BY <1>1, <1>3 DEF HttpProtocol, RunStep, Listen, ShutdownWaited, StopAccepting, ServerEnds,
         ShutdownStarted, GracefulTimeout, HttpType, HttpPhase
  <2>q. QED
    BY <1>3, <2>1, TypesKept DEF HttpProtocol
<1>4. CASE HttpRequests
  <2>1. HttpType'
    BY <1>1, <1>4, RequestsOnly DEF HttpRequests, HttpType, httpServer
  <2>q. QED
    BY <1>4, <2>1, TypesKept DEF HttpRequests
<1>5. CASE Outside
  <2>1. ServeType'
    BY <1>1, <1>5, ConnectionTypes DEF Outside, RequestShutdown, server, ServeType, Held
  <2>q. QED
    BY <1>5, <2>1, TypesKept DEF Outside
<1>6. CASE CtrlC
  <2>1. ServeType'
    BY <1>1, <1>6 DEF CtrlC, server, ServeType, Held
  <2>q. QED
    BY <1>6, <2>1, TypesKept DEF CtrlC
<1>7. CASE UNCHANGED vars
  BY <1>7, TypesKept DEF vars
<1>q. QED
  BY <1>2, <1>3, <1>4, <1>5, <1>6, <1>7, AppStepTypes DEF Next, AppStep

-----------------------------------------------------------------------------
(* The rest of the invariant.                                               *)

\* Where no connection task is alive none can move, short of joining one that ended.
LEMMA ConnectionQuiet ==
    ASSUME TypeOK, NEW c \in Connections, ConnectionStep(c)
    PROVE  /\ UNCHANGED <<shutdown, spc, cancelled, retry, result>>
           /\ Alive = {} => Alive' = {}
<1>1. \/ conn[c] = "ended" /\ conn' = [conn EXCEPT ![c] = "joined"]
      \/ c \in Alive
  BY DEF ConnectionStep, Join, ScopeOpened, ScopeFails, ConnectionEnds, ConnectionCancelled, Alive
<1>q. QED
  BY <1>1, ConnectionTypes DEF TypeOK, Alive

\* Where nothing is accepted and nothing open no request can move.
LEMMA RequestsQuiet == ASSUME RequestsNext PROVE ~NoRequests
<1>1. PICK r \in Requests : RequestStep(r) \/ \E kind \in Kinds : Receive(r, kind)
  BY DEF RequestsNext
<1>2. CASE RequestStep(r)
  BY <1>2 DEF RequestStep, OpenScope, EnterPolicy, EnterMiddleware, Handle,
         RequestTimeout, ConnectionLost, SocketStalls, SocketCloses, SocketDrained, InService,
         Upgraded, NoRequests
<1>3. CASE \E kind \in Kinds : Receive(r, kind)
  BY <1>3 DEF Receive, NoRequests
<1>q. QED
  BY <1>1, <1>2, <1>3

\* The phases of the application and of the RPC server.
LEMMA RpcOverStep == ASSUME TeardownInv, [Next]_vars PROVE RpcOver'
<1> USE DEF TeardownInv, RpcOver
<1>1. CASE RpcProtocol
  <2>1. apc = "serving" /\ mode = "rpc" /\ ServeNext /\ apc' = "serving" /\ mode' = "rpc"
    BY <1>1 DEF RpcProtocol, app
  <2>2. CASE AcceptArm \/ BackoffOver \/ SeeShutdown \/ DrainShutdown
    <3>1. spc' # "off" /\ (spc' = "returned" => result' = "panic")
      BY <2>2 DEF AcceptArm, AcceptTransient, AcceptClosed, AcceptFails, ServePanics, Accept,
                  BackoffOver, SeeShutdown, DrainShutdown
    <3>q. QED
      BY <2>1, <3>1
  <2>3. CASE ServeReturns
    <3>1. Held = {} /\ conn' = conn
      BY <2>3 DEF ServeReturns, AllJoined
    <3>2. Alive' = {}
      BY <3>1 DEF Held, Alive
    <3>q. QED
      BY <2>1, <3>2
  <2>4. CASE RequestShutdown
    BY <2>1, <2>4 DEF RequestShutdown, server, Alive
  <2>5. ASSUME NEW c \in Connections, ConnectionStep(c) PROVE RpcOver'
    BY <2>1, <2>5, ConnectionQuiet
  <2>q. QED
    BY <2>1, <2>2, <2>3, <2>4, <2>5 DEF ServeNext, ServeStep
<1>2. CASE HttpProtocol \/ HttpRequests \/ UNCHANGED vars
  <2>1. UNCHANGED <<serveVars, app>>
    BY <1>2 DEF HttpProtocol, HttpRequests, vars
  <2>q. QED
    BY <2>1 DEF serveVars, server, app, Alive
<1>3. CASE Outside
  <2>1. UNCHANGED app
    BY <1>3 DEF Outside
  <2>2. CASE RequestShutdown
    BY <2>1, <2>2 DEF RequestShutdown, server, Alive, app
  <2>3. ASSUME NEW c \in Connections, ConnectionStep(c) PROVE RpcOver'
    BY <2>1, <2>3, ConnectionQuiet DEF app
  <2>q. QED
    BY <1>3, <2>2, <2>3 DEF Outside
<1>4. CASE CtrlC
  BY <1>4 DEF CtrlC, server, Alive, app
<1>5. CASE AppStep
  <2>1. CASE SpawnTriggers
    <3>1. spc = "off" /\ Alive' = {}
      BY <2>1 DEF SpawnTriggers, Alive
    <3>q. QED
      BY <2>1, <3>1 DEF SpawnTriggers
  <2>2. CASE ~SpawnTriggers
    <3>1. UNCHANGED <<spc, result, conn, mode>>
      BY <1>5, <2>2 DEF AppStep, Step, StartupHookOk, StartupHookFails, StartupDone, WaitEnds,
           ServeEnded, TriggersStopped, RunShutdown, Ended, ShutdownHookReturns, protocols,
           serveVars, server
    <3>2. apc' # "startup" \/ apc = "startup"
      BY <1>5, <2>2 DEF AppStep, Step, StartupHookOk, StartupHookFails, StartupDone, WaitEnds,
           ServeEnded, TriggersStopped, RunShutdown, Ended, ShutdownHookReturns, AfterFailure
    <3>3. apc' = "spawn" => apc \in {"spawn", "startup"}
      BY <1>5, <2>2 DEF AppStep, Step, StartupHookOk, StartupHookFails, StartupDone, WaitEnds,
           ServeEnded, TriggersStopped, RunShutdown, Ended, ShutdownHookReturns, AfterFailure
    <3>4. apc' \in {"stopping", "cleanup", "hooks", "done"} => spc \in {"off", "returned"}
      BY <1>5, <2>2 DEF AppStep, Step, StartupHookOk, StartupHookFails, StartupDone, WaitEnds,
           ServeEnded, TriggersStopped, RunShutdown, Ended, ShutdownHookReturns, AfterFailure,
           HttpOver, HttpReturned, ModeFixed
    <3>q. QED
      BY <3>1, <3>2, <3>3, <3>4 DEF Alive
  <2>q. QED
    BY <2>1, <2>2
<1>q. QED
  BY <1>1, <1>2, <1>3, <1>4, <1>5 DEF Next, AppStep

\* The phases of the application and of the HTTP server.
LEMMA HttpOverStep == ASSUME TeardownInv, [Next]_vars PROVE HttpOver'
<1> USE DEF TeardownInv, HttpOver
<1>1. CASE HttpProtocol
  <2>1. apc = "serving" /\ mode = "http" /\ apc' = "serving" /\ mode' = "http"
    BY <1>1 DEF HttpProtocol, app
  <2>q. QED
    BY <2>1
<1>2. CASE HttpRequests
  <2>1. UNCHANGED <<app, xpc>>
    BY <1>2, RequestsOnly DEF HttpRequests, httpServer
  <2>q. QED
    BY <2>1 DEF app
<1>3. CASE RpcProtocol \/ Outside \/ CtrlC \/ UNCHANGED vars
  <2>1. UNCHANGED <<app, httpServeVars>>
    BY <1>3 DEF RpcProtocol, Outside, CtrlC, vars
  <2>q. QED
    BY <2>1 DEF app, httpServeVars, httpServer
<1>4. CASE AppStep
  <2>1. UNCHANGED <<mode, xpc>>
    BY <1>4 DEF AppStep, Step, StartupHookOk, StartupHookFails, StartupDone, SpawnTriggers,
         WaitEnds, ServeEnded, TriggersStopped, RunShutdown, Ended, ShutdownHookReturns,
         protocols, httpServeVars, httpServer
  <2>2. apc' \in {"startup", "spawn"} => apc \in {"startup", "spawn"}
    BY <1>4 DEF AppStep, Step, StartupHookOk, StartupHookFails, StartupDone, SpawnTriggers,
         WaitEnds, ServeEnded, TriggersStopped, RunShutdown, Ended, ShutdownHookReturns,
         AfterFailure
  <2>3. apc' \in {"stopping", "cleanup", "hooks", "done"} => xpc \in {"off", "returned", "dropped"}
    BY <1>4 DEF AppStep, Step, StartupHookOk, StartupHookFails, StartupDone, SpawnTriggers,
         WaitEnds, ServeEnded, TriggersStopped, RunShutdown, Ended, ShutdownHookReturns,
         AfterFailure, RpcOver, HttpReturned, ModeFixed
  <2>q. QED
    BY <2>1, <2>2, <2>3
<1>q. QED
  BY <1>1, <1>2, <1>3, <1>4 DEF Next, AppStep

\* The rest concerns the application alone.
LEMMA AppInvStep ==
    ASSUME TeardownInv, [Next]_vars
    PROVE  (ModeFixed /\ TriggersOver /\ HooksAccounted)'
<1> USE DEF TeardownInv, ModeFixed, TriggersOver, HooksAccounted
<1>1. CASE UNCHANGED app
  BY <1>1 DEF app, Paired, started
<1>2. CASE AppStep
  <2>1. (ModeFixed /\ TriggersOver)'
    BY <1>2 DEF AppStep, Step, StartupHookOk, StartupHookFails, StartupDone, SpawnTriggers,
         WaitEnds, ServeEnded, TriggersStopped, RunShutdown, Ended, ShutdownHookReturns,
         AfterFailure
  <2>2. HooksAccounted'
    <3>1. CASE RunShutdown
      BY <3>1 DEF RunShutdown, Paired, started
    <3>2. ASSUME NEW n \in 1..Len(ShutdownHooks), ShutdownHookReturns(n) PROVE HooksAccounted'
      BY <3>2 DEF ShutdownHookReturns, Paired, started
    <3>3. CASE Ended
      BY <3>3 DEF Ended, Paired, started
    <3>4. CASE StartupHookOk \/ StartupHookFails \/ StartupDone \/ SpawnTriggers \/ WaitEnds
                  \/ ServeEnded \/ TriggersStopped
      <4>1. apc' \notin {"hooks", "done"}
        BY <3>4 DEF StartupHookOk, StartupHookFails, StartupDone, SpawnTriggers,
             WaitEnds, ServeEnded, TriggersStopped, AfterFailure
      <4>q. QED
        BY <4>1
    <3>q. QED
      BY <1>2, <3>1, <3>2, <3>3, <3>4 DEF AppStep, Step
  <2>q. QED
    BY <2>1, <2>2
<1>q. QED
  BY <1>1, <1>2 DEF Next, AppStep, RpcProtocol, HttpProtocol, HttpRequests, Outside, CtrlC, vars

\* The initial states satisfy the invariant.
LEMMA TeardownInit == Init => TeardownInv
<1> SUFFICES ASSUME Init PROVE TeardownInv
  OBVIOUS
<1>1. Held = {} /\ Alive = {} /\ Cardinality({}) = 0
  BY FS_EmptySet DEF Init, ServeInit, Held, Alive
<1>2. TypeOK
  <2>1. ServeType
    <3>1. RetryInitial \in RetryInitial..RetryMax /\ 0 <= MaxConnections
      BY ServeAssumption
    <3>q. QED
      BY <1>1, <3>1 DEF Init, ServeInit, ServeType, ServePhase, ConnPhase
  <2>2. HttpType
    BY DEF Init, HttpServeInit, HttpType, HttpPhase
  <2>3. AppType
    <3>1. 0 \in 0..Len(StartupHooks)
      OBVIOUS
    <3>q. QED
      BY <3>1 DEF Init, AppType, AppPhase
  <2>q. QED
    BY <2>1, <2>2, <2>3 DEF TypeOK, ServeType, HttpType, AppType
<1>q. QED
  BY <1>1, <1>2 DEF Init, ServeInit, HttpServeInit, TeardownInv, RpcOver, HttpOver,
     ModeFixed, TriggersOver, HooksAccounted

\* The invariant holds in every reachable state.
LEMMA TeardownInvariant == Spec => []TeardownInv
<1>1. TeardownInv /\ [Next]_vars => TeardownInv'
  BY TypeStep, RpcOverStep, HttpOverStep, AppInvStep DEF TeardownInv
<1>q. QED
  BY <1>1, TeardownInit, PTL DEF Spec

\* The JoinSet never exceeds max_connections, the back-off after a transient accept error
\* stays between accept_retry_initial and accept_retry_max, and every variable keeps its type.
THEOREM ServeTypeCorrect == Spec => []TypeOK
<1>1. TeardownInv => TypeOK
  BY DEF TeardownInv
<1>q. QED
  BY <1>1, TeardownInvariant, PTL

-----------------------------------------------------------------------------
(* The requests again: every step keeps them behind their layers.           *)

\* Requests move on their own tasks only, and the registration never changes.
LEMMA OnlyRequestsMove ==
    ASSUME [Next]_vars
    PROVE  UNCHANGED <<http, request>> \/ (RequestsNext /\ http' = http)
<1>1. CASE HttpRequests
  BY <1>1, RequestsOnly DEF HttpRequests
<1>2. CASE HttpProtocol
  BY <1>2 DEF HttpProtocol, RunStep, Listen, ShutdownWaited, StopAccepting, ServerEnds,
              ShutdownStarted, GracefulTimeout
<1>3. CASE RpcProtocol \/ Outside \/ CtrlC \/ UNCHANGED vars
  BY <1>3 DEF RpcProtocol, Outside, CtrlC, vars, httpServeVars
<1>4. CASE AppStep
  BY <1>4 DEF AppStep, Step, StartupHookOk, StartupHookFails, StartupDone, SpawnTriggers,
         WaitEnds, ServeEnded, TriggersStopped, RunShutdown, Ended, ShutdownHookReturns,
         protocols, httpServeVars
<1>q. QED
  BY <1>1, <1>2, <1>3, <1>4 DEF Next, AppStep

ServedTypes == ServedInv /\ request = [r \in Requests |-> request[r]]

\* Every step keeps the requests behind their layers.
LEMMA ServedStep == ASSUME TypeOK, ServedTypes, [Next]_vars PROVE ServedTypes'
<1>1. CASE UNCHANGED <<http, request>>
  BY <1>1 DEF ServedTypes, ServedInv
<1>2. CASE RequestsNext /\ http' = http
  <2>1. PICK r \in Requests : RequestStep(r) \/ \E kind \in Kinds : Receive(r, kind)
    BY <1>2 DEF RequestsNext
  <2>2. PICK q : Becomes(r, q) /\ BehindLayers(q, AroundHandler(http))
    BY <2>1, RequestBehind, ReceivedOutside DEF ServedTypes
  <2>3. request' = [request EXCEPT ![r] = q] /\ request = [s \in Requests |-> request[s]]
    BY <2>2 DEF Becomes, ServedTypes
  <2>4. request' = [s \in Requests |-> IF s = r THEN q ELSE request[s]]
    BY <2>3
  <2>5. \A s \in Requests : BehindLayers(request'[s], AroundHandler(http))
    BY <2>2, <2>4 DEF ServedTypes, ServedInv
  <2>6. request' = [s \in Requests |-> request'[s]]
    BY <2>4
  <2>7. AroundHandler(http) = AroundHandler(http')
    BY <1>2
  <2>q. QED
    BY <2>5, <2>6, <2>7 DEF ServedTypes, ServedInv
<1>q. QED
  BY <1>1, <1>2, OnlyRequestsMove

\* No request is there at the start.
LEMMA ServedStarts == Init => ServedTypes
<1> SUFFICES ASSUME Init PROVE ServedTypes
  OBVIOUS
<1>1. request = [r \in Requests |-> NoRequest] /\ TypeOK
  BY TeardownInit DEF Init, HttpServeInit, TeardownInv
<1>2. PICK A \in Layers : A = AroundHandler(http)
  BY <1>1, HttpLayers
<1>3. NoRequest \in HttpRequest /\ NoRequest.entered = <<>> /\ NoRequest.answer = "none" /\ NoRequest.at = "none"
  <2>1. /\ <<>> \in Seq(Names) /\ "none" \in Statuses /\ "none" \in Places /\ "plain" \in Names
    BY DEF Statuses, Places, Names
  <2>q. QED
    BY <2>1 DEF NoRequest, HttpRequest
<1>4. BehindLayers(NoRequest, A)
  BY <1>3 DEF BehindLayers, Layers
<1>q. QED
  BY <1>1, <1>2, <1>4 DEF ServedTypes, ServedInv

-----------------------------------------------------------------------------
(* What run() leaves behind.                                                *)

\* Sockets belong to an endpoint, and once the shutdown future is over every endpoint was
\* told to close.  Before that run() returns only if it never served; when it returned no
\* request is in service and none can come.
SocketsTold ==
    /\ \A r \in Requests : Upgraded(r) => request[r].kind \in Range(http.endpoints)
    /\ signalled => drained = Range(http.endpoints)
    /\ notice \/ xpc \in {"graceful", "dropped"} => signalled
    /\ xpc = "off" => ~signalled
    /\ xpc \in {"off", "returned"} /\ ~signalled => NoRequests
    /\ xpc = "returned" => ~accepting /\ \A r \in Requests : ~InService(r)

\* The invariant of the server and its requests.
RequestsInv == TeardownInv /\ ServedTypes /\ SocketsTold

\* A step of a request: it is in service only if it was or is accepted now, and it is a socket
\* only if it was or is upgraded now, at one of the endpoints.
MovesTo(r, q) ==
    /\ Becomes(r, q)
    /\ q.at = "service" => InService(r) \/ accepting
    /\ q.at \in {"socket", "stuck"} =>
           \/ Upgraded(r) /\ q.kind = request[r].kind
           \/ InService(r) /\ q.kind \in Range(http.endpoints)

\* Every step of a request is of that kind.
LEMMA RequestMoves ==
    ASSUME ServedTypes, NEW r \in Requests, RequestStep(r) \/ \E kind \in Kinds : Receive(r, kind)
    PROVE  \E q : MovesTo(r, q)
<1> USE DEF MovesTo
<1>1. request[r] \in HttpRequest
  BY DEF ServedTypes, ServedInv, BehindLayers
<1>2. ASSUME NEW status, Answered(r, status)
      PROVE  \E q : Becomes(r, q) /\ q.at \notin {"service", "socket", "stuck"}
  <2>1. PICK q : q = [request[r] EXCEPT !.at = "over", !.left = <<>>, !.answer = status]
    OBVIOUS
  <2>2. q.at = "over"
    BY <1>1, <2>1 DEF HttpRequest
  <2>q. QED
    BY <1>2, <2>1, <2>2 DEF Answered
<1>3. ASSUME InService(r), Enters(r)
      PROVE  \E q : Becomes(r, q) /\ q.at \notin {"socket", "stuck"}
  <2>1. PICK q : q = [request[r] EXCEPT !.left = Tail(@), !.entered = Append(@, Head(request[r].left))]
    OBVIOUS
  <2>2. q.at = "service"
    BY <1>1, <1>3, <2>1 DEF HttpRequest, InService
  <2>q. QED
    BY <1>3, <2>1, <2>2 DEF Enters
<1>4. CASE OpenScope(r) \/ EnterPolicy(r) \/ EnterMiddleware(r)
  BY <1>2, <1>3, <1>4 DEF OpenScope, EnterPolicy, EnterMiddleware
<1>5. CASE RequestTimeout(r) \/ ConnectionLost(r)
  BY <1>2, <1>5 DEF RequestTimeout, ConnectionLost
<1>6. CASE Handle(r)
  <2>1. \/ \E status : Answered(r, status)
        \/ /\ request[r].kind \in Range(http.endpoints)
           /\ Becomes(r, [request[r] EXCEPT !.at = "socket", !.left = <<>>, !.answer = "101"])
    BY <1>6 DEF Handle
  <2>2. CASE /\ request[r].kind \in Range(http.endpoints)
             /\ Becomes(r, [request[r] EXCEPT !.at = "socket", !.left = <<>>, !.answer = "101"])
    <3>1. PICK q : q = [request[r] EXCEPT !.at = "socket", !.left = <<>>, !.answer = "101"]
      OBVIOUS
    <3>2. q.at = "socket" /\ q.kind = request[r].kind
      BY <1>1, <3>1 DEF HttpRequest
    <3>q. QED
      BY <1>6, <2>2, <3>1, <3>2 DEF Handle
  <2>q. QED
    BY <1>2, <2>1, <2>2
<1>7. CASE SocketStalls(r) \/ SocketCloses(r) \/ SocketDrained(r)
  <2>1. PICK at \in {"stuck", "over"} : Upgraded(r) /\ Becomes(r, [request[r] EXCEPT !.at = at])
    BY <1>7 DEF SocketStalls, SocketCloses, SocketDrained, Set, Upgraded
  <2>2. PICK q : q = [request[r] EXCEPT !.at = at]
    OBVIOUS
  <2>3. q.at = at /\ q.kind = request[r].kind
    BY <1>1, <2>2 DEF HttpRequest
  <2>q. QED
    BY <2>1, <2>2, <2>3
<1>8. CASE \E kind \in Kinds : Receive(r, kind)
  <2>1. PICK kind \in Kinds : Receive(r, kind)
    BY <1>8
  <2>2. PICK q : q = [NoRequest EXCEPT !.at = "service", !.left = build(http), !.kind = kind]
    OBVIOUS
  <2>3. q.at = "service"
    BY <2>2 DEF NoRequest
  <2>q. QED
    BY <2>1, <2>2, <2>3 DEF Receive
<1>q. QED
  BY <1>4, <1>5, <1>6, <1>7, <1>8 DEF RequestStep

\* Every step keeps the sockets told.
LEMMA ToldStep == ASSUME RequestsInv, [Next]_vars PROVE SocketsTold'
<1> USE DEF RequestsInv, SocketsTold
<1>1. CASE HttpProtocol
  <2>1. RunStep(shutdown) /\ UNCHANGED <<http, request>>
    BY <1>1 DEF HttpProtocol, RunStep, Listen, ShutdownWaited, StopAccepting, ServerEnds,
                ShutdownStarted, GracefulTimeout
  <2>2. \A r \in Requests : (InService(r)' <=> InService(r)) /\ (Upgraded(r)' <=> Upgraded(r))
    BY <2>1 DEF InService, Upgraded
  <2>3. CASE Listen
    BY <2>1, <2>2, <2>3 DEF Listen, NoRequests
  <2>4. CASE ShutdownWaited(shutdown)
    BY <2>1, <2>2, <2>4 DEF ShutdownWaited, NoRequests
  <2>5. CASE StopAccepting
    BY <2>1, <2>2, <2>5 DEF StopAccepting, NoRequests
  <2>6. CASE ServerEnds
    BY <2>1, <2>2, <2>6 DEF ServerEnds, ServerDone, NoRequests
  <2>7. CASE ShutdownStarted
    BY <2>1, <2>2, <2>7 DEF ShutdownStarted, NoRequests
  <2>8. CASE GracefulTimeout
    BY <2>1, <2>2, <2>8 DEF GracefulTimeout, NoRequests
  <2>q. QED
    BY <2>1, <2>3, <2>4, <2>5, <2>6, <2>7, <2>8 DEF RunStep
<1>2. CASE HttpRequests
  <2>1. PICK r \in Requests : RequestStep(r) \/ \E kind \in Kinds : Receive(r, kind)
    BY <1>2 DEF HttpRequests, RequestsNext
  <2>2. PICK q : MovesTo(r, q)
    <3>1. ServedTypes
      OBVIOUS
    <3>q. QED
      BY <2>1, <3>1, RequestMoves
  <2>3. ~NoRequests
    BY <1>2, RequestsQuiet DEF HttpRequests
  <2>4. /\ UNCHANGED <<http, xpc, signalled, notice, accepting, drained>>
        /\ request' = [s \in Requests |-> IF s = r THEN q ELSE request[s]]
    BY <2>2 DEF MovesTo, Becomes, httpServer, ServedTypes
  <2>5. \A s \in Requests : s # r =>
            (InService(s)' <=> InService(s)) /\ (Upgraded(s)' <=> Upgraded(s)) /\ request'[s] = request[s]
    BY <2>4 DEF InService, Upgraded
  <2>6. /\ InService(r)' => InService(r) \/ accepting
        /\ Upgraded(r)' => request'[r].kind \in Range(http.endpoints)
    BY <2>2, <2>4 DEF MovesTo, InService, Upgraded
  <2>q. QED
    BY <2>3, <2>4, <2>5, <2>6
<1>3. CASE RpcProtocol \/ Outside \/ CtrlC \/ AppStep \/ UNCHANGED vars
  <2>1. UNCHANGED httpServeVars
    BY <1>3 DEF RpcProtocol, Outside, CtrlC, vars, AppStep, Step, StartupHookOk, StartupHookFails,
         StartupDone, SpawnTriggers, WaitEnds, ServeEnded, TriggersStopped, RunShutdown, Ended,
         ShutdownHookReturns, protocols
  <2>q. QED
    BY <2>1 DEF httpServeVars, httpServer, NoRequests, InService, Upgraded
<1>q. QED
  BY <1>1, <1>2, <1>3 DEF Next, AppStep

\* The invariant of the server and its requests holds in every reachable state.
LEMMA RequestsInvariant == Spec => []RequestsInv
<1>1. Init => SocketsTold
  BY DEF Init, HttpServeInit, SocketsTold, NoRequests, InService, Upgraded, NoRequest
<1>2. TeardownInv /\ ServedTypes /\ [Next]_vars => ServedTypes'
  BY ServedStep DEF TeardownInv
<1>3. TeardownInv /\ ServedTypes /\ SocketsTold /\ [Next]_vars => SocketsTold'
  BY ToldStep DEF RequestsInv
<1>q. QED
  BY <1>1, <1>2, <1>3, ServedStarts, TeardownInvariant, PTL DEF Spec, RequestsInv

\* Shutdown hooks run when no connection task, request or reload trigger is left and every
\* open WebSocket was told to close, and all that are due have run when the application ends,
\* for every mode, every way out and any number of connections, requests and hooks.
THEOREM TeardownIsOrderly == Spec => []OrderlyTeardown
<1>1. RequestsInv => OrderlyTeardown
  <2> SUFFICES ASSUME RequestsInv PROVE OrderlyTeardown
    OBVIOUS
  <2>1. apc \in {"hooks", "done"} =>
            /\ triggers # "running" /\ (result # "panic" => Alive = {})
            /\ xpc \in {"off", "returned", "dropped"}
    BY DEF RequestsInv, TeardownInv, TriggersOver, RpcOver, HttpOver
  <2>2. \A n \in 1..Len(ShutdownHooks) : ShutdownHooks[n] \in started => n \in Paired
    BY DEF Paired
  <2>3. apc \in {"hooks", "done"} =>
            /\ xpc # "dropped" => \A r \in Requests : ~InService(r)
            /\ \A r \in Requests : Upgraded(r) => request[r].kind \in drained
    BY <2>1 DEF RequestsInv, SocketsTold, NoRequests
  <2>q. QED
    BY <2>1, <2>2, <2>3 DEF OrderlyTeardown, RequestsInv, TeardownInv, HooksAccounted
<1>q. QED
  BY <1>1, RequestsInvariant, PTL

\* Every request is served behind its layers, and run() returns with none in service and
\* every socket told to close.
THEOREM RequestsAreServed == Spec => []RequestsServed
<1>1. RequestsInv => RequestsServed
  <2> SUFFICES ASSUME RequestsInv PROVE RequestsServed
    OBVIOUS
  <2>1. /\ TypeOK /\ ServedTypes
        /\ xpc = "returned" => \A r \in Requests :
               ~InService(r) /\ (Upgraded(r) => request[r].kind \in drained)
    BY DEF RequestsInv, TeardownInv, SocketsTold, NoRequests
  <2>2. PICK A \in Layers : A = AroundHandler(http) /\ ("timeout" \in Range(A) => http.timeout)
    BY <2>1, HttpLayers
  <2>3. ASSUME NEW r \in Requests
        PROVE  /\ IsPrefix(request[r].entered, A)
               /\ request[r].answer \in {"200", "413", "101"} => request[r].entered = A
               /\ request[r].answer = "408" => http.timeout
    <3>1. BehindLayers(request[r], A)
      BY <2>1, <2>2 DEF ServedTypes, ServedInv
    <3>2. PICK E \in Seq(Names) : E = request[r].entered
      BY <3>1 DEF BehindLayers, HttpRequest
    <3>3. IsPrefix(E, A) /\ (Len(E) = Len(A) => E = A)
      BY <3>1, <3>2, PrefixByElements DEF BehindLayers, Layers
    <3>q. QED
      BY <2>2, <3>1, <3>2, <3>3 DEF BehindLayers
  <2>q. QED
    BY <2>1, <2>2, <2>3 DEF RequestsServed
<1>q. QED
  BY <1>1, RequestsInvariant, PTL

-----------------------------------------------------------------------------
(* The frame reader: its inductive invariant.                               *)

\* The k-th frame lies in S from offset o[k - 1] on.
FrameAt(S, o, k) ==
    /\ o[k] = o[k - 1] + PrefixLen + Len(sent[k])
    /\ \A i \in 1..PrefixLen : S[o[k - 1] + i] = EncodeLen(Len(sent[k]))[i]
    /\ \A i \in 1..Len(sent[k]) : S[o[k - 1] + PrefixLen + i] = sent[k][i]

\* S is what the peer has written.
Written(S, o) ==
    /\ S \in Seq(Bytes) /\ o \in [0..Len(sent) -> Nat]
    /\ o[0] = 0 /\ Len(S) = o[Len(sent)] /\ \A k \in 0..Len(sent) : o[k] <= Len(S)
    /\ \A k \in 1..Len(sent) : FrameAt(S, o, k)

\* The reader's progress and the wire are what follows offset b of S; a peer that is there
\* loses nothing.
Slices(S, b) ==
    /\ \A i \in 1..Len(prefix) : prefix[i] = S[b + i]
    /\ \A i \in 1..Len(payload) : payload[i] = S[b + PrefixLen + i]
    /\ \A i \in 1..Len(wire) : wire[i] = S[b + Len(prefix) + Len(payload) + i]
    /\ b + Len(prefix) + Len(payload) + Len(wire) <= Len(S)
    /\ ~eof => b + Len(prefix) + Len(payload) + Len(wire) = Len(S)

\* A length that was taken is that of the frame being read.
LengthTaken ==
    /\ InPrefix => expected = Unknown
    /\ expected = Unknown => payload = <<>>
    /\ expected # Unknown => /\ Len(delivered) < Len(sent)
                             /\ expected = Len(sent[Len(delivered) + 1])
                             /\ Len(payload) <= expected

\* The reader is in step with what was written.
InStep ==
    /\ Len(delivered) <= Len(sent) /\ LengthTaken
    /\ \E S, o : Written(S, o) /\ Slices(S, o[Len(delivered)])

\* The inductive invariant: after an error nothing more is read.
ReaderInv == ReaderTypeOK /\ (~broken => InStep)

-----------------------------------------------------------------------------
(* Sequences.                                                               *)

\* The elements of a concatenation.
LEMMA ConcatAt ==
    ASSUME NEW X, NEW s \in Seq(X), NEW t \in Seq(X)
    PROVE  /\ s \o t \in Seq(X) /\ Len(s \o t) = Len(s) + Len(t)
           /\ \A i \in 1..Len(s) : (s \o t)[i] = s[i]
           /\ \A i \in 1..Len(t) : (s \o t)[Len(s) + i] = t[i]
  OBVIOUS

\* The two parts a read cuts the wire into.
LEMMA CutAt ==
    ASSUME NEW X, NEW s \in Seq(X), NEW n \in 0..Len(s)
    PROVE  /\ SubSeq(s, 1, n) \in Seq(X) /\ Len(SubSeq(s, 1, n)) = n
           /\ \A i \in 1..n : SubSeq(s, 1, n)[i] = s[i]
           /\ SubSeq(s, n + 1, Len(s)) \in Seq(X) /\ Len(SubSeq(s, n + 1, Len(s))) = Len(s) - n
           /\ \A i \in 1..(Len(s) - n) : SubSeq(s, n + 1, Len(s))[i] = s[n + i]
<1>1. SubSeq(s, 1, n) \in Seq(X) /\ Len(SubSeq(s, 1, n)) = n
  OBVIOUS
<1>2. \A i \in 1..n : SubSeq(s, 1, n)[i] = s[i]
  OBVIOUS
<1>3. SubSeq(s, n + 1, Len(s)) \in Seq(X) /\ Len(SubSeq(s, n + 1, Len(s))) = Len(s) - n
  OBVIOUS
<1>4. \A i \in 1..(Len(s) - n) : SubSeq(s, n + 1, Len(s))[i] = s[n + i]
  OBVIOUS
<1>q. QED
  BY <1>1, <1>2, <1>3, <1>4

\* Reading n bytes moves them from the wire w to the end of what the reader holds, a: if a
\* and w were consecutive slices of S they still are.
LEMMA Moved ==
    ASSUME NEW X, NEW a \in Seq(X), NEW w \in Seq(X), NEW n \in 0..Len(w),
           NEW S, NEW b \in Nat,
           \A i \in 1..Len(a) : a[i] = S[b + i],
           \A i \in 1..Len(w) : w[i] = S[b + Len(a) + i]
    PROVE  LET c == a \o SubSeq(w, 1, n)
               v == SubSeq(w, n + 1, Len(w))
           IN  /\ c \in Seq(X) /\ Len(c) = Len(a) + n
               /\ v \in Seq(X) /\ Len(v) = Len(w) - n
               /\ \A i \in 1..Len(c) : c[i] = S[b + i]
               /\ \A i \in 1..Len(v) : v[i] = S[b + Len(c) + i]
<1>0. PICK c, v, h : /\ h = SubSeq(w, 1, n) /\ c = a \o h /\ v = SubSeq(w, n + 1, Len(w))
  OBVIOUS
<1>1. h \in Seq(X) /\ Len(h) = n /\ \A i \in 1..n : h[i] = w[i]
  BY <1>0, CutAt
<1>2. /\ c \in Seq(X) /\ Len(c) = Len(a) + n
      /\ \A i \in 1..Len(a) : c[i] = a[i]
      /\ \A i \in 1..n : c[Len(a) + i] = w[i]
  BY <1>0, <1>1, ConcatAt
<1>3. v \in Seq(X) /\ Len(v) = Len(w) - n /\ \A i \in 1..(Len(w) - n) : v[i] = w[n + i]
  BY <1>0, CutAt
<1>4. PICK la \in Nat, lw \in Nat : la = Len(a) /\ lw = Len(w)
  OBVIOUS
<1>5. ASSUME NEW i \in 1..(la + n) PROVE c[i] = S[b + i]
  <2>1. CASE i \in 1..la
    BY <1>2, <1>4, <2>1
  <2>2. CASE i \notin 1..la
    <3>1. PICK j \in 1..n : i = la + j
      <4>1. i - la \in 1..n /\ i = la + (i - la)
        BY <1>4, <2>2
      <4>q. QED
        BY <4>1
    <3>2. j \in 1..lw
      BY <1>4
    <3>3. b + i = b + la + j
      BY <3>1
    <3>q. QED
      BY <1>2, <1>4, <3>1, <3>2, <3>3
  <2>q. QED
    BY <2>1, <2>2
<1>6. ASSUME NEW i \in 1..(lw - n) PROVE v[i] = S[b + (la + n) + i]
  <2>1. n + i \in 1..lw /\ b + la + (n + i) = b + (la + n) + i
    BY <1>4
  <2>q. QED
    BY <1>3, <1>4, <2>1
<1>7. /\ c \in Seq(X) /\ Len(c) = Len(a) + n
      /\ v \in Seq(X) /\ Len(v) = Len(w) - n
      /\ \A i \in 1..Len(c) : c[i] = S[b + i]
      /\ \A i \in 1..Len(v) : v[i] = S[b + Len(c) + i]
  BY <1>2, <1>3, <1>4, <1>5, <1>6
<1>q. QED
  BY <1>0, <1>7

USE ReaderAssumption

\* Bytes that agree with an encoded length decode to the length that was encoded.
LEMMA DecodeAgrees ==
    ASSUME NEW p \in Payloads, NEW s, \A i \in 1..PrefixLen : s[i] = EncodeLen(Len(p))[i]
    PROVE  DecodeLen(s) = Len(p)
<1>1. DecodeLen(s) = DecodeLen(EncodeLen(Len(p)))
  <2> DEFINE e == EncodeLen(Len(p))
  <2>1. \A i \in 1..PrefixLen : s[i] = e[i]
    OBVIOUS
  <2> HIDE DEF e
  <2>2. [k \in 1..PrefixLen |-> s[k] * Base^(k - 1)] = [k \in 1..PrefixLen |-> e[k] * Base^(k - 1)]
    BY <2>1
  <2>q. QED
    BY <2>2 DEF DecodeLen, e
<1>q. QED
  BY <1>1, PrefixAssumption

-----------------------------------------------------------------------------
(* The steps of the reader.                                                 *)

\* What the offsets are, for the frame that is read next.
LEMMA Offsets ==
    ASSUME ReaderTypeOK, InStep, NEW S, NEW o, Written(S, o)
    PROVE  /\ Len(delivered) \in 0..Len(sent) /\ Len(sent) \in Nat
           /\ o[Len(delivered)] \in Nat /\ Len(S) \in Nat
           /\ Len(delivered) = Len(sent) => Len(S) = o[Len(delivered)]
           /\ Len(delivered) < Len(sent) =>
                /\ Len(delivered) + 1 \in 1..Len(sent)
                /\ sent[Len(delivered) + 1] \in Payloads /\ sent[Len(delivered) + 1] \in Seq(Bytes)
                /\ FrameAt(S, o, Len(delivered) + 1)
                /\ o[Len(delivered) + 1] \in Nat
<1>1. Len(delivered) \in 0..Len(sent) /\ Len(sent) \in Nat
  BY DEF ReaderTypeOK, InStep
<1>2. o[Len(delivered)] \in Nat /\ Len(S) \in Nat
  BY <1>1 DEF Written
<1>3. Len(delivered) = Len(sent) => Len(S) = o[Len(delivered)]
  BY DEF Written
<1>4. ASSUME Len(delivered) < Len(sent)
      PROVE  /\ Len(delivered) + 1 \in 1..Len(sent)
             /\ sent[Len(delivered) + 1] \in Payloads /\ sent[Len(delivered) + 1] \in Seq(Bytes)
             /\ FrameAt(S, o, Len(delivered) + 1)
             /\ o[Len(delivered) + 1] \in Nat
  <2>1. Len(delivered) + 1 \in 1..Len(sent) /\ Len(delivered) + 1 \in 0..Len(sent)
    BY <1>1, <1>4
  <2>2. sent[Len(delivered) + 1] \in Payloads
    BY <2>1 DEF ReaderTypeOK
  <2>q. QED
    BY <2>1, <2>2 DEF Written, Bytes
<1>q. QED
  BY <1>1, <1>2, <1>3, <1>4

\* More bytes of the prefix.
LEMMA ReadPrefixStep ==
    ASSUME ReaderTypeOK, InStep, ReadPrefix
    PROVE  ReaderTypeOK' /\ InStep'
<1>1. PICK n \in 1..PrefixLen : Read(PrefixRoom, n) /\ prefix' = prefix \o SubSeq(wire, 1, n)
  BY DEF ReadPrefix
<1>2. /\ n \in 1..ready /\ n <= PrefixRoom /\ wire' = SubSeq(wire, n + 1, Len(wire))
      /\ ready' = ready - n /\ deadline' = IdleTicks
      /\ UNCHANGED <<sent, eof, expected, payload, reading, delivered, broken>>
  BY <1>1 DEF Read, ReadPrefix, outcome
<1>3. /\ prefix \in Seq(Bytes) /\ wire \in Seq(Bytes)
      /\ n \in 0..Len(wire) /\ ready \in 0..Len(wire)
      /\ Len(prefix) < PrefixLen /\ Len(wire) \in Nat /\ Len(prefix) \in Nat
  BY <1>2 DEF ReaderTypeOK, ReadPrefix, InPrefix
<1>4. n <= PrefixLen - Len(prefix)
  BY <1>2, <1>3 DEF PrefixRoom
<1>5. expected = Unknown /\ payload = <<>> /\ Len(payload) = 0
  BY DEF ReadPrefix, InStep, LengthTaken
<1>6. PICK S, o : Written(S, o) /\ Slices(S, o[Len(delivered)])
  BY DEF InStep
<1>7. PICK b \in Nat : b = o[Len(delivered)]
  BY <1>6, Offsets
<1>8. /\ \A i \in 1..Len(prefix) : prefix[i] = S[b + i]
      /\ \A i \in 1..Len(wire) : wire[i] = S[b + Len(prefix) + i]
      /\ b + Len(prefix) + Len(wire) <= Len(S) /\ Len(S) \in Nat
      /\ ~eof => b + Len(prefix) + Len(wire) = Len(S)
  <2>1. /\ \A i \in 1..Len(prefix) : prefix[i] = S[b + i]
        /\ \A i \in 1..Len(wire) : wire[i] = S[b + Len(prefix) + Len(payload) + i]
        /\ b + Len(prefix) + Len(payload) + Len(wire) <= Len(S) /\ Len(S) \in Nat
        /\ ~eof => b + Len(prefix) + Len(payload) + Len(wire) = Len(S)
    BY <1>6, <1>7, Offsets DEF Slices
  <2>2. b + Len(prefix) + Len(payload) = b + Len(prefix)
    BY <1>3, <1>5
  <2>q. QED
    BY <2>1, <2>2
<1>9. /\ prefix' \in Seq(Bytes) /\ Len(prefix') = Len(prefix) + n
      /\ wire' \in Seq(Bytes) /\ Len(wire') = Len(wire) - n
      /\ \A i \in 1..Len(prefix') : prefix'[i] = S[b + i]
      /\ \A i \in 1..Len(wire') : wire'[i] = S[b + Len(prefix') + i]
  <2> HIDE ReaderAssumption
  <2>1. wire' = SubSeq(wire, n + 1, Len(wire)) /\ prefix' = prefix \o SubSeq(wire, 1, n)
    BY <1>1, <1>2
  <2>2. prefix \in Seq(Bytes) /\ wire \in Seq(Bytes) /\ n \in 0..Len(wire)
    BY <1>3
  <2>3. /\ \A i \in 1..Len(prefix) : prefix[i] = S[b + i]
        /\ \A i \in 1..Len(wire) : wire[i] = S[b + Len(prefix) + i]
    BY <1>8
  <2> DEFINE c == prefix \o SubSeq(wire, 1, n)
             v == SubSeq(wire, n + 1, Len(wire))
  <2>4. /\ c \in Seq(Bytes) /\ Len(c) = Len(prefix) + n
        /\ v \in Seq(Bytes) /\ Len(v) = Len(wire) - n
        /\ \A i \in 1..Len(c) : c[i] = S[b + i]
        /\ \A i \in 1..Len(v) : v[i] = S[b + Len(c) + i]
    BY <2>2, <2>3, Moved
  <2> HIDE DEF c, v
  <2>q. QED
    BY <2>1, <2>4 DEF c, v
<1>10. ReaderTypeOK'
  BY <1>2, <1>3, <1>4, <1>9 DEF ReaderTypeOK
<1>11. LengthTaken'
  BY <1>2, <1>5 DEF LengthTaken
<1>12. Written(S, o)'
  BY <1>2, <1>6 DEF Written, FrameAt
<1>13. Slices(S, b)'
  <2>1. Len(payload') = 0 /\ b + Len(prefix') + Len(payload') = b + Len(prefix')
    BY <1>2, <1>3, <1>5, <1>9
  <2>2. /\ b + Len(prefix') + Len(wire') <= Len(S)
        /\ ~eof' => b + Len(prefix') + Len(wire') = Len(S)
    <3>1. /\ Len(prefix') = Len(prefix) + n /\ Len(wire') = Len(wire) - n /\ eof' = eof
          /\ Len(S) \in Nat /\ b + Len(prefix) + Len(wire) <= Len(S)
          /\ ~eof => b + Len(prefix) + Len(wire) = Len(S)
      BY <1>2, <1>8, <1>9
    <3>2. b + (Len(prefix) + n) + (Len(wire) - n) = b + Len(prefix) + Len(wire)
      BY <1>3
    <3>q. QED
      BY <3>1, <3>2
  <2>3. \A i \in 1..Len(payload') : FALSE
    BY <2>1
  <2>q. QED
    BY <1>9, <2>1, <2>2, <2>3 DEF Slices
<1>q. QED
  BY <1>2, <1>7, <1>10, <1>11, <1>12, <1>13 DEF InStep

\* More bytes of the payload.
LEMMA ReadPayloadStep ==
    ASSUME ReaderTypeOK, InStep, ReadPayload
    PROVE  ReaderTypeOK' /\ InStep'
<1>1. PICK n \in 1..ChunkLen : Read(ChunkRoom, n) /\ payload' = payload \o SubSeq(wire, 1, n)
  BY DEF ReadPayload
<1>2. /\ n \in 1..ready /\ n <= ChunkRoom /\ wire' = SubSeq(wire, n + 1, Len(wire))
      /\ ready' = ready - n /\ deadline' = IdleTicks
      /\ UNCHANGED <<sent, eof, prefix, expected, reading, delivered, broken>>
  BY <1>1 DEF Read, ReadPayload, outcome
<1>3. /\ payload \in Seq(Bytes) /\ wire \in Seq(Bytes)
      /\ n \in 0..Len(wire) /\ ready \in 0..Len(wire) /\ Len(wire) \in Nat
      /\ Len(payload) \in Nat /\ Len(prefix) \in Nat /\ Len(prefix) <= PrefixLen
      /\ expected # Unknown /\ expected \in Nat /\ Len(payload) < expected
  BY <1>2 DEF ReaderTypeOK, ReadPayload, InPayload
<1>4. n <= expected - Len(payload) /\ Len(payload) + n <= expected
  BY <1>2, <1>3 DEF ChunkRoom
<1>5. Len(prefix) = PrefixLen /\ ~InPrefix
  BY <1>3 DEF InStep, LengthTaken, InPrefix
<1>6. PICK S, o : Written(S, o) /\ Slices(S, o[Len(delivered)])
  BY DEF InStep
<1>7. PICK b \in Nat : b = o[Len(delivered)]
  BY <1>6, Offsets
<1>8. PICK c \in Nat : c = b + PrefixLen
  OBVIOUS
<1>9. /\ \A i \in 1..Len(prefix) : prefix[i] = S[b + i]
      /\ \A i \in 1..Len(payload) : payload[i] = S[c + i]
      /\ \A i \in 1..Len(wire) : wire[i] = S[c + Len(payload) + i]
      /\ c + Len(payload) + Len(wire) <= Len(S) /\ Len(S) \in Nat
      /\ ~eof => c + Len(payload) + Len(wire) = Len(S)
  BY <1>5, <1>6, <1>7, <1>8, Offsets DEF Slices
<1>10. /\ payload' \in Seq(Bytes) /\ Len(payload') = Len(payload) + n
       /\ wire' \in Seq(Bytes) /\ Len(wire') = Len(wire) - n
       /\ \A i \in 1..Len(payload') : payload'[i] = S[c + i]
       /\ \A i \in 1..Len(wire') : wire'[i] = S[c + Len(payload') + i]
  <2> HIDE ReaderAssumption
  <2>1. wire' = SubSeq(wire, n + 1, Len(wire)) /\ payload' = payload \o SubSeq(wire, 1, n)
    BY <1>1, <1>2
  <2>2. payload \in Seq(Bytes) /\ wire \in Seq(Bytes) /\ n \in 0..Len(wire)
    BY <1>3
  <2>3. /\ \A i \in 1..Len(payload) : payload[i] = S[c + i]
        /\ \A i \in 1..Len(wire) : wire[i] = S[c + Len(payload) + i]
    BY <1>9
  <2> DEFINE d == payload \o SubSeq(wire, 1, n)
             v == SubSeq(wire, n + 1, Len(wire))
  <2>4. /\ d \in Seq(Bytes) /\ Len(d) = Len(payload) + n
        /\ v \in Seq(Bytes) /\ Len(v) = Len(wire) - n
        /\ \A i \in 1..Len(d) : d[i] = S[c + i]
        /\ \A i \in 1..Len(v) : v[i] = S[c + Len(d) + i]
    BY <2>2, <2>3, Moved
  <2> HIDE DEF d, v
  <2>q. QED
    BY <2>1, <2>4 DEF d, v
<1>11. ReaderTypeOK'
  BY <1>2, <1>3, <1>10 DEF ReaderTypeOK
<1>12. LengthTaken'
  <2>1. InPrefix' <=> InPrefix
    BY <1>2 DEF InPrefix
  <2>2. /\ Len(delivered) < Len(sent) /\ expected = Len(sent[Len(delivered) + 1])
    BY <1>3 DEF InStep, LengthTaken
  <2>q. QED
    BY <1>2, <1>3, <1>4, <1>5, <1>10, <2>1, <2>2 DEF LengthTaken
<1>13. Written(S, o)'
  BY <1>2, <1>6 DEF Written, FrameAt
<1>14. Slices(S, b)'
  <2>1. prefix' = prefix /\ Len(prefix) = PrefixLen /\ b + Len(prefix') = c
    BY <1>2, <1>5, <1>8
  <2>2. /\ c + Len(payload') + Len(wire') <= Len(S)
        /\ ~eof' => c + Len(payload') + Len(wire') = Len(S)
    <3>1. /\ Len(payload') = Len(payload) + n /\ Len(wire') = Len(wire) - n /\ eof' = eof
          /\ Len(S) \in Nat /\ c + Len(payload) + Len(wire) <= Len(S)
          /\ ~eof => c + Len(payload) + Len(wire) = Len(S)
      BY <1>2, <1>9, <1>10
    <3>2. c + (Len(payload) + n) + (Len(wire) - n) = c + Len(payload) + Len(wire)
      BY <1>3
    <3>q. QED
      BY <3>1, <3>2
  <2>q. QED
    BY <1>8, <1>9, <1>10, <2>1, <2>2 DEF Slices
<1>q. QED
  BY <1>2, <1>7, <1>11, <1>12, <1>13, <1>14 DEF InStep

\* The length that is taken is that of the next frame.
LEMMA TakeLengthStep ==
    ASSUME ReaderTypeOK, InStep, TakeLength
    PROVE  ReaderTypeOK' /\ (~broken' => InStep')
<1>1. /\ ~InPrefix /\ expected = Unknown /\ broken = FALSE
      /\ UNCHANGED <<sent, wire, ready, eof, prefix, payload, deadline, reading, delivered>>
  BY DEF TakeLength, peer, ReaderTypeOK
<1>2. PICK S, o : Written(S, o) /\ Slices(S, o[Len(delivered)])
  BY DEF InStep
<1>3. PICK n \in Nat, b \in Nat : n = Len(delivered) /\ b = o[n]
  BY <1>2, Offsets
<1>4. Len(prefix) = PrefixLen /\ payload = <<>> /\ Len(payload) = 0 /\ Len(wire) \in Nat
  BY <1>1 DEF InPrefix, ReaderTypeOK, InStep, LengthTaken
<1>5. n < Len(sent) /\ n + 1 \in 1..Len(sent)
  <2>1. b + PrefixLen <= Len(S) /\ Len(S) \in Nat
    <3>1. /\ b + Len(prefix) + Len(payload) + Len(wire) <= Len(S) /\ Len(S) \in Nat
      BY <1>2, <1>3, Offsets DEF Slices
    <3>q. QED
      BY <1>4, <3>1
  <2>2. Len(S) # b
    BY <2>1
  <2>q. QED
    BY <1>2, <1>3, <2>2, Offsets
<1>6. PICK p \in Payloads : p = sent[n + 1] /\ Len(p) \in Nat
  BY <1>2, <1>3, <1>5, Offsets
<1>7. DecodeLen(prefix) = Len(p)
  <2>1. \A i \in 1..PrefixLen : prefix[i] = S[b + i]
    BY <1>2, <1>3, <1>4 DEF Slices
  <2>2. FrameAt(S, o, n + 1) /\ n + 1 - 1 = n
    BY <1>2, <1>3, <1>5, Offsets
  <2>3. \A i \in 1..PrefixLen : S[b + i] = EncodeLen(Len(p))[i]
    BY <1>3, <1>6, <2>2 DEF FrameAt
  <2>q. QED
    BY <2>1, <2>3, DecodeAgrees
<1>8. \/ Len(p) <= MaxFrameLen /\ expected' = Len(p) /\ broken' = broken
      \/ broken' = TRUE /\ expected' = expected
  BY <1>7 DEF TakeLength, FitsFrame
<1>9. ReaderTypeOK'
  <2>1. expected' \in 0..MaxFrameLen \cup {Unknown}
    <3>1. expected' = Unknown \/ (expected' = Len(p) /\ Len(p) <= MaxFrameLen)
      BY <1>1, <1>8
    <3>q. QED
      BY <1>6, <3>1
  <2>2. broken' = FALSE \/ broken' = TRUE
    BY <1>1, <1>8
  <2>q. QED
    BY <1>1, <2>1, <2>2 DEF ReaderTypeOK
<1>10. ASSUME expected' = Len(p) PROVE LengthTaken'
  <2>1. InPrefix' = InPrefix
    BY <1>1 DEF InPrefix
  <2>q. QED
    BY <1>1, <1>3, <1>4, <1>5, <1>6, <1>10, <2>1 DEF LengthTaken, Unknown
<1>11. Written(S, o)'
  BY <1>1, <1>2 DEF Written, FrameAt
<1>12. Slices(S, b)'
  BY <1>1, <1>2, <1>3 DEF Slices
<1>13. ~broken' => expected' = Len(p)
  BY <1>8
<1>14. (Len(delivered) <= Len(sent))'
  BY <1>1 DEF InStep
<1>q. QED
  BY <1>1, <1>3, <1>9, <1>10, <1>11, <1>12, <1>13, <1>14 DEF InStep

\* A complete frame is the next one that was sent.
LEMMA FrameComplete ==
    ASSUME ReaderTypeOK, InStep, expected # Unknown, ~InPayload
    PROVE  /\ Len(delivered) + 1 \in 1..Len(sent)
           /\ payload = sent[Len(delivered) + 1]
<1>1. PICK S, o : Written(S, o) /\ Slices(S, o[Len(delivered)])
  BY DEF InStep
<1>2. PICK n \in Nat, b \in Nat : n = Len(delivered) /\ b = o[n]
  BY <1>1, Offsets
<1>3. n < Len(sent) /\ expected = Len(sent[n + 1]) /\ Len(payload) <= expected
  BY <1>2 DEF InStep, LengthTaken
<1>4. PICK p \in Payloads : p = sent[n + 1] /\ p \in Seq(Bytes)
  BY <1>1, <1>2, <1>3, Offsets
<1>5. Len(payload) = Len(p) /\ payload \in Seq(Bytes)
  BY <1>3, <1>4 DEF InPayload, ReaderTypeOK
<1>6. ASSUME NEW i \in 1..Len(p) PROVE payload[i] = p[i]
  <2>1. payload[i] = S[b + PrefixLen + i]
    BY <1>1, <1>2, <1>5 DEF Slices
  <2>2. FrameAt(S, o, n + 1) /\ n + 1 - 1 = n
    BY <1>1, <1>2, <1>3, Offsets
  <2>q. QED
    BY <1>2, <1>4, <2>1, <2>2 DEF FrameAt
<1>7. payload = p
  BY <1>4, <1>5, <1>6, SeqEqual
<1>q. QED
  BY <1>1, <1>2, <1>3, <1>4, <1>7, Offsets

\* Handing a frame over moves on to the next offset.
LEMMA FinishStep ==
    ASSUME ReaderTypeOK, InStep, Finish
    PROVE  ReaderTypeOK' /\ (~broken' => InStep')
<1>1. /\ ~InPrefix /\ expected # Unknown /\ ~InPayload /\ broken = FALSE
      /\ prefix' = <<>> /\ expected' = Unknown /\ payload' = <<>> /\ deadline' = NoTimer
      /\ reading' = FALSE /\ UNCHANGED <<sent, wire, ready, eof>>
  BY DEF Finish, peer, ReaderTypeOK
<1>2. \/ payload \in Messages /\ delivered' = Append(delivered, payload) /\ broken' = broken
      \/ broken' = TRUE /\ delivered' = delivered
  BY DEF Finish
<1>3. ReaderTypeOK'
  <2>1. delivered' \in Seq(Messages)
    <3>1. delivered \in Seq(Messages)
      BY DEF ReaderTypeOK
    <3>2. ASSUME NEW f \in Messages PROVE Append(delivered, f) \in Seq(Messages)
      BY <3>1
    <3>q. QED
      BY ONLY <1>2, <3>1, <3>2
  <2>2. broken' = FALSE \/ broken' = TRUE
    BY <1>1, <1>2
  <2>3. /\ prefix' \in Seq(Bytes) /\ Len(prefix') <= PrefixLen /\ payload' \in Seq(Bytes)
        /\ deadline' \in -1..IdleTicks /\ expected' \in 0..MaxFrameLen \cup {Unknown}
    BY <1>1 DEF NoTimer
  <2>4. /\ sent' \in Seq(Payloads) /\ wire' \in Seq(Bytes) /\ ready' \in 0..Len(wire')
        /\ eof' \in BOOLEAN /\ reading' \in BOOLEAN
    BY <1>1 DEF ReaderTypeOK
  <2>q. QED
    BY <2>1, <2>2, <2>3, <2>4 DEF ReaderTypeOK
<1>4. ASSUME ~broken' PROVE InStep'
  <2>1. PICK S, o : Written(S, o) /\ Slices(S, o[Len(delivered)])
    BY DEF InStep
  <2>2. PICK n \in Nat, b \in Nat : n = Len(delivered) /\ b = o[n]
    BY <2>1, Offsets
  <2>3. n + 1 \in 1..Len(sent) /\ payload = sent[n + 1]
    BY <1>1, <2>2, FrameComplete
  <2>4. Len(delivered') = n + 1
    BY <1>2, <1>4, <2>2 DEF ReaderTypeOK
  <2>5. n < Len(sent) /\ Len(sent) \in Nat
    BY <2>2, <2>3 DEF ReaderTypeOK
  <2>6. PICK d \in Nat : d = o[n + 1] /\ d = b + PrefixLen + Len(payload)
    <3>1. FrameAt(S, o, n + 1) /\ n + 1 - 1 = n /\ o[n + 1] \in Nat
      BY <2>1, <2>2, <2>5, Offsets
    <3>q. QED
      BY <2>2, <2>3, <3>1 DEF FrameAt
  <2>7. Len(prefix) = PrefixLen
    BY <1>1 DEF InPrefix, ReaderTypeOK
  <2>8. /\ \A i \in 1..Len(wire) : wire[i] = S[d + i]
        /\ d + Len(wire) <= Len(S) /\ (~eof => d + Len(wire) = Len(S))
    BY <2>1, <2>2, <2>6, <2>7 DEF Slices
  <2>9. Slices(S, d)'
    <3>1. Len(prefix') = 0 /\ Len(payload') = 0 /\ d + Len(prefix') + Len(payload') = d
      BY <1>1
    <3>2. (\A i \in 1..Len(prefix') : FALSE) /\ (\A i \in 1..Len(payload') : FALSE)
      BY <3>1
    <3>q. QED
      BY <1>1, <2>8, <3>1, <3>2 DEF Slices
  <2>10. Written(S, o)'
    BY <1>1, <2>1 DEF Written, FrameAt
  <2>11. LengthTaken'
    BY <1>1 DEF LengthTaken
  <2>12. (Len(delivered) <= Len(sent))'
    BY <1>1, <2>4, <2>5, <2>3
  <2>q. QED
    BY <2>4, <2>6, <2>9, <2>10, <2>11, <2>12 DEF InStep
<1>q. QED
  BY <1>3, <1>4

-----------------------------------------------------------------------------
(* The peer, and the steps that leave the bytes alone.                      *)

\* A frame is appended to what was written.
LEMMA WriteStep ==
    ASSUME ReaderInv, NEW p \in Payloads, write_message(p)
    PROVE  ReaderInv'
<1>1. /\ ~eof /\ sent' = Append(sent, p) /\ wire' = wire \o (EncodeLen(Len(p)) \o p)
      /\ UNCHANGED <<ready, eof, prefix, expected, payload, deadline, reading, delivered, broken>>
  BY DEF write_message, frame, outcome
<1>2. PICK e \in Seq(Bytes) : e = EncodeLen(Len(p)) /\ Len(e) = PrefixLen
  <2>1. EncodeLen(Len(p)) \in [1..PrefixLen -> Bytes]
    BY PrefixAssumption
  <2> DEFINE e == EncodeLen(Len(p))
  <2>2. e \in [1..PrefixLen -> Bytes]
    BY <2>1
  <2> HIDE DEF e
  <2>3. e \in Seq(Bytes) /\ Len(e) = PrefixLen
    BY <2>2
  <2>q. QED
    BY <2>3 DEF e
<1>3. p \in Seq(Bytes) /\ sent \in Seq(Payloads) /\ wire \in Seq(Bytes)
  BY DEF ReaderInv, ReaderTypeOK, Bytes
<1>4. PICK f \in Seq(Bytes) : /\ f = e \o p /\ Len(f) = PrefixLen + Len(p)
                              /\ \A i \in 1..PrefixLen : f[i] = e[i]
                              /\ \A i \in 1..Len(p) : f[PrefixLen + i] = p[i]
  <2>1. PICK f : f = e \o p
    OBVIOUS
  <2>2. /\ f \in Seq(Bytes) /\ Len(f) = Len(e) + Len(p)
        /\ \A i \in 1..Len(e) : f[i] = e[i]
        /\ \A i \in 1..Len(p) : f[Len(e) + i] = p[i]
    BY <1>3, <2>1, ConcatAt
  <2>q. QED
    BY <1>2, <2>1, <2>2
<1>5. /\ wire' = wire \o f /\ wire' \in Seq(Bytes) /\ Len(wire') = Len(wire) + Len(f)
      /\ \A i \in 1..Len(wire) : wire'[i] = wire[i]
      /\ \A i \in 1..Len(f) : wire'[Len(wire) + i] = f[i]
  <2>1. wire' = wire \o f
    BY <1>1, <1>2, <1>4
  <2>2. PICK w : w = wire \o f
    OBVIOUS
  <2>3. /\ w \in Seq(Bytes) /\ Len(w) = Len(wire) + Len(f)
        /\ \A i \in 1..Len(wire) : w[i] = wire[i]
        /\ \A i \in 1..Len(f) : w[Len(wire) + i] = f[i]
    BY <1>3, <2>2, ConcatAt
  <2>q. QED
    BY <2>1, <2>2, <2>3
<1>6. ReaderTypeOK'
  <2>1. sent' \in Seq(Payloads) /\ ready' \in 0..Len(wire')
    BY <1>1, <1>3, <1>4, <1>5 DEF ReaderInv, ReaderTypeOK
  <2>q. QED
    BY <1>1, <1>5, <2>1 DEF ReaderInv, ReaderTypeOK
<1>7. ASSUME ~broken PROVE InStep'
  <2>1. InStep /\ Len(delivered) <= Len(sent) /\ Len(delivered) \in Nat /\ Len(sent) \in Nat
    BY <1>7 DEF ReaderInv, InStep, ReaderTypeOK
  <2>2. PICK S, o : Written(S, o) /\ Slices(S, o[Len(delivered)])
    BY <2>1 DEF InStep
  <2>3. PICK m \in Nat, b \in Nat : m = Len(sent) /\ b = o[Len(delivered)]
    BY <2>1, <2>2, Offsets DEF ReaderInv
  <2>4. /\ S \in Seq(Bytes) /\ o \in [0..m -> Nat] /\ o[0] = 0 /\ o[m] = Len(S)
        /\ \A k \in 0..m : o[k] <= Len(S)
        /\ \A k \in 1..m : FrameAt(S, o, k)
    BY <2>2, <2>3 DEF Written
  <2>5. PICK T \in Seq(Bytes) : /\ Len(T) = Len(S) + Len(f)
                                /\ \A i \in 1..Len(S) : T[i] = S[i]
                                /\ \A i \in 1..Len(f) : T[Len(S) + i] = f[i]
    <3>1. PICK T : T = S \o f
      OBVIOUS
    <3>2. /\ T \in Seq(Bytes) /\ Len(T) = Len(S) + Len(f)
          /\ \A i \in 1..Len(S) : T[i] = S[i]
          /\ \A i \in 1..Len(f) : T[Len(S) + i] = f[i]
      BY <2>4, <3>1, ConcatAt
    <3>q. QED
      BY <3>2
  <2>6. PICK q \in [0..(m + 1) -> Nat] : /\ \A k \in 0..m : q[k] = o[k]
                                         /\ q[m + 1] = Len(S) + Len(f)
    <3> DEFINE q == [k \in 0..(m + 1) |-> IF k \in 0..m THEN o[k] ELSE Len(S) + Len(f)]
    <3>1. Len(S) + Len(f) \in Nat /\ m + 1 \in 0..(m + 1) /\ m + 1 \notin 0..m
      BY <1>4, <2>4
    <3>2. q \in [0..(m + 1) -> Nat]
      BY <2>4, <3>1
    <3>3. (\A k \in 0..m : q[k] = o[k]) /\ q[m + 1] = Len(S) + Len(f)
      BY <3>1
    <3>q. QED
      BY <3>2, <3>3
  <2>7. /\ Len(sent') = m + 1 /\ sent'[m + 1] = p /\ \A k \in 1..m : sent'[k] = sent[k]
    BY <1>1, <1>3, <2>3
  <2>8. \A k \in 1..m : sent[k] \in Seq(Bytes) /\ Len(sent[k]) \in Nat
    BY <1>3, <2>3 DEF Bytes
  <2>9. ASSUME NEW k \in 1..m PROVE FrameAt(T, q, k)'
    <3>0. k - 1 \in 0..m /\ k \in 0..m
      OBVIOUS
    <3>1. PICK u \in Nat, l \in Nat : u = o[k - 1] /\ l = Len(sent[k])
      BY <2>4, <2>8, <3>0
    <3>2. /\ o[k] = u + PrefixLen + l
          /\ \A i \in 1..PrefixLen : S[u + i] = EncodeLen(l)[i]
          /\ \A i \in 1..l : S[u + PrefixLen + i] = sent[k][i]
      BY <2>4, <3>1 DEF FrameAt
    <3>3. u + PrefixLen + l <= Len(S) /\ Len(S) \in Nat
      BY <2>4, <3>2
    <3>4. \A i \in 1..PrefixLen : u + i \in 1..Len(S)
      BY <3>3
    <3>5. \A i \in 1..l : u + PrefixLen + i \in 1..Len(S)
      BY <3>3
    <3>6. q[k] = o[k] /\ q[k - 1] = u /\ sent'[k] = sent[k]
      BY <2>6, <2>7, <3>0, <3>1
    <3>7. \A i \in 1..PrefixLen : T[u + i] = EncodeLen(l)[i]
      BY <2>5, <3>2, <3>4
    <3>8. \A i \in 1..l : T[u + PrefixLen + i] = sent[k][i]
      BY <2>5, <3>2, <3>5
    <3>q. QED
      BY <3>1, <3>2, <3>6, <3>7, <3>8 DEF FrameAt
  <2>10. FrameAt(T, q, m + 1)'
    <3>1. PICK u \in Nat, l \in Nat : u = Len(S) /\ l = Len(p)
      BY <1>3, <2>4
    <3>2. q[m + 1] = u + PrefixLen + l /\ q[(m + 1) - 1] = u /\ m + 1 - 1 = m
      BY <1>4, <2>4, <2>6, <3>1
    <3>3. ASSUME NEW i \in 1..PrefixLen PROVE T[u + i] = e[i]
      <4>1. i \in 1..Len(f) /\ f[i] = e[i]
        BY <1>4
      <4>q. QED
        BY <2>5, <3>1, <4>1
    <3>4. ASSUME NEW i \in 1..l PROVE T[u + PrefixLen + i] = p[i]
      <4>1. PrefixLen + i \in 1..Len(f) /\ u + (PrefixLen + i) = u + PrefixLen + i
        BY <1>4, <3>1
      <4>q. QED
        BY <1>4, <2>5, <3>1, <4>1
    <3>q. QED
      BY <1>2, <2>7, <3>1, <3>2, <3>3, <3>4 DEF FrameAt
  <2>11. Written(T, q)'
    <3>1. \A k \in 1..(m + 1) : k \in 1..m \/ k = m + 1
      OBVIOUS
    <3>2. \A k \in 1..(m + 1) : FrameAt(T, q, k)'
      BY <2>9, <2>10, <3>1
    <3>3. \A k \in 0..(m + 1) : q[k] <= Len(T)
      <4>1. \A k \in 0..(m + 1) : k \in 0..m \/ k = m + 1
        OBVIOUS
      <4>2. \A k \in 0..m : q[k] <= Len(T)
        BY <1>4, <2>4, <2>5, <2>6
      <4>3. q[m + 1] <= Len(T)
        BY <1>4, <2>4, <2>5, <2>6
      <4>q. QED
        BY <4>1, <4>2, <4>3
    <3>4. q[0] = 0 /\ Len(T) = q[m + 1]
      BY <2>4, <2>5, <2>6
    <3>q. QED
      BY <2>5, <2>6, <2>7, <3>2, <3>3, <3>4 DEF Written
  <2>12. Slices(T, b)'
    <3>1. PICK x \in Nat, y \in Nat, z \in Nat :
              x = Len(prefix) /\ y = Len(payload) /\ z = Len(wire)
      BY <1>3 DEF ReaderInv, ReaderTypeOK
    <3>2. /\ b + x + y + z = Len(S) /\ Len(S) \in Nat
          /\ \A i \in 1..x : prefix[i] = S[b + i]
          /\ \A i \in 1..y : payload[i] = S[b + PrefixLen + i]
          /\ \A i \in 1..z : wire[i] = S[b + x + y + i]
      <4>1. ~eof /\ Slices(S, b)
        BY <1>1, <2>2, <2>3
      <4>2. Len(S) \in Nat
        BY <2>4
      <4>q. QED
        BY <3>1, <4>1, <4>2 DEF Slices
    <3>3. y = 0 \/ x = PrefixLen
      BY <2>1, <3>1 DEF InStep, LengthTaken, InPrefix, ReaderInv, ReaderTypeOK
    <3>4. ASSUME NEW i \in 1..x PROVE prefix[i] = T[b + i]
      <4>1. b + i \in 1..Len(S)
        BY <3>2
      <4>q. QED
        BY <2>5, <3>2, <4>1
    <3>5. ASSUME NEW i \in 1..y PROVE payload[i] = T[b + PrefixLen + i]
      <4>1. b + PrefixLen + i \in 1..Len(S)
        BY <3>2, <3>3, SMTT(30)
      <4>q. QED
        BY <2>5, <3>2, <4>1
    <3>6. ASSUME NEW i \in 1..(z + Len(f)) PROVE wire'[i] = T[b + x + y + i]
      <4>1. CASE i \in 1..z
        <5>1. b + x + y + i \in 1..Len(S)
          BY <3>2, <4>1
        <5>q. QED
          BY <1>5, <2>5, <3>1, <3>2, <4>1, <5>1
      <4>2. CASE i \notin 1..z
        <5>1. PICK j \in 1..Len(f) : i = z + j
          <6>1. i - z \in 1..Len(f) /\ i = z + (i - z)
            BY <1>4, <4>2
          <6>q. QED
            BY <6>1
        <5>2. b + x + y + i = Len(S) + j
          <6>1. b + x + y + z = Len(S) /\ Len(S) \in Nat /\ j \in Int
            BY <3>2, <5>1
          <6>2. b + x + y + (z + j) = (b + x + y + z) + j
            BY <6>1
          <6>q. QED
            BY <5>1, <6>1, <6>2
        <5>q. QED
          BY <1>5, <2>5, <3>1, <5>1, <5>2
      <4>q. QED
        BY <4>1, <4>2
    <3>7. b + x + y + (z + Len(f)) = Len(T) /\ Len(T) \in Nat
      <4>1. Len(f) \in Nat
        OBVIOUS
      <4>2. PICK lf \in Nat, ls \in Nat : lf = Len(f) /\ ls = Len(S)
        BY <3>2, <4>1
      <4>3. Len(T) = ls + lf /\ b + x + y + z = ls
        BY <2>5, <3>2, <4>2
      <4>4. b + x + y + (z + lf) = ls + lf
        BY <4>3
      <4>q. QED
        BY <4>2, <4>3, <4>4
    <3>8. prefix' = prefix /\ payload' = payload /\ Len(wire') = z + Len(f)
      BY <1>1, <1>5, <3>1
    <3>q. QED
      BY <3>1, <3>4, <3>5, <3>6, <3>7, <3>8 DEF Slices
  <2>13. LengthTaken'
    <3>1. (InPrefix' <=> InPrefix) /\ LengthTaken
      BY <1>1, <2>1 DEF InPrefix, InStep
    <3>2. expected # Unknown => Len(delivered) + 1 \in 1..m
      BY <2>1, <2>3, <3>1 DEF LengthTaken
    <3>q. QED
      BY <1>1, <2>1, <2>3, <2>7, <3>1, <3>2 DEF LengthTaken
  <2>14. q[Len(delivered')] = b /\ (Len(delivered) <= Len(sent))'
    BY <1>1, <2>1, <2>3, <2>6, <2>7
  <2>q. QED
    BY <2>11, <2>12, <2>13, <2>14 DEF InStep
<1>q. QED
  BY <1>1, <1>6, <1>7 DEF ReaderInv

\* What has not arrived is cut off.
LEMMA HangUpStep == ASSUME ReaderInv, HangUp PROVE ReaderInv'
<1>1. /\ eof' = TRUE /\ wire' = SubSeq(wire, 1, ready)
      /\ UNCHANGED <<sent, ready, prefix, expected, payload, deadline, reading, delivered, broken>>
  BY DEF HangUp, frame, outcome
<1>2. wire \in Seq(Bytes) /\ ready \in 0..Len(wire) /\ Len(wire) \in Nat
  BY DEF ReaderInv, ReaderTypeOK
<1>3. wire' \in Seq(Bytes) /\ Len(wire') = ready /\ \A i \in 1..ready : wire'[i] = wire[i]
  BY <1>1, <1>2, CutAt
<1>4. ReaderTypeOK'
  BY <1>1, <1>2, <1>3 DEF ReaderInv, ReaderTypeOK
<1>5. ASSUME ~broken PROVE InStep'
  <2>1. InStep
    BY <1>5 DEF ReaderInv
  <2>2. PICK S, o : Written(S, o) /\ Slices(S, o[Len(delivered)])
    BY <2>1 DEF InStep
  <2>3. PICK b \in Nat : b = o[Len(delivered)]
    BY <2>1, <2>2, Offsets DEF ReaderInv
  <2>4. Written(S, o)' /\ Len(S) \in Nat
    BY <1>1, <2>2 DEF Written, FrameAt
  <2>5. Len(prefix) \in Nat /\ Len(payload) \in Nat
    BY DEF ReaderInv, ReaderTypeOK
  <2>6. Slices(S, b)'
    <3>1. \A i \in 1..Len(wire') : wire'[i] = S[b + Len(prefix) + Len(payload) + i]
      <4>1. \A i \in 1..Len(wire) : wire[i] = S[b + Len(prefix) + Len(payload) + i]
        BY <2>2, <2>3 DEF Slices
      <4>2. \A i \in 1..ready : i \in 1..Len(wire)
        BY <1>2
      <4>q. QED
        BY <1>3, <4>1, <4>2
    <3>2. b + Len(prefix) + Len(payload) + Len(wire') <= Len(S)
      <4>1. b + Len(prefix) + Len(payload) + Len(wire) <= Len(S)
        BY <2>2, <2>3 DEF Slices
      <4>q. QED
        BY <1>2, <1>3, <2>4, <2>5, <4>1
    <3>q. QED
      BY <1>1, <2>2, <2>3, <3>1, <3>2 DEF Slices
  <2>7. LengthTaken' /\ (Len(delivered) <= Len(sent))'
    BY <1>1, <2>1 DEF InStep, LengthTaken, InPrefix
  <2>q. QED
    BY <1>1, <2>3, <2>4, <2>6, <2>7 DEF InStep
<1>q. QED
  BY <1>1, <1>4, <1>5 DEF ReaderInv

\* The variables that InStep reads.
stream == <<sent, wire, eof, prefix, expected, payload, delivered>>

\* A step that leaves the bytes alone leaves the reader in step.
LEMMA StreamKept ==
    ASSUME InStep, UNCHANGED stream
    PROVE  InStep'
<1>1. UNCHANGED <<sent, wire, eof, prefix, expected, payload, delivered>>
  BY DEF stream
<1>2. PICK S, o : Written(S, o) /\ Slices(S, o[Len(delivered)])
  BY DEF InStep
<1>3. PICK b : b = o[Len(delivered)]
  OBVIOUS
<1>4. Written(S, o)'
  BY <1>1, <1>2 DEF Written, FrameAt
<1>5. Slices(S, b)'
  BY <1>1, <1>2, <1>3 DEF Slices
<1>6. LengthTaken' /\ (Len(delivered) <= Len(sent))'
  BY <1>1 DEF InStep, LengthTaken, InPrefix
<1>q. QED
  BY <1>1, <1>3, <1>4, <1>5, <1>6 DEF InStep

\* Arrivals, calls, cancellations, errors and the passing of time.
LEMMA QuietStep ==
    ASSUME ReaderInv,
           Arrive \/ Call \/ Cancel \/ ReadEof \/ ReadTimeout \/ Tick \/ UNCHANGED readerVars
    PROVE  ReaderInv'
<1>1. UNCHANGED stream /\ (broken' = broken \/ broken' = TRUE)
  <2>1. CASE Arrive
    BY <2>1 DEF Arrive, frame, outcome, stream
  <2>2. CASE Call
    BY <2>2 DEF Call, peer, frame, stream
  <2>3. CASE Cancel
    BY <2>3 DEF Cancel, PayloadKept, peer, stream
  <2>4. CASE ReadEof
    BY <2>4 DEF ReadEof, peer, frame, stream
  <2>5. CASE ReadTimeout
    BY <2>5 DEF ReadTimeout, peer, frame, stream
  <2>6. CASE Tick
    BY <2>6 DEF Tick, peer, outcome, stream
  <2>7. CASE UNCHANGED readerVars
    BY <2>7 DEF readerVars, peer, frame, outcome, stream
  <2>q. QED
    BY <2>1, <2>2, <2>3, <2>4, <2>5, <2>6, <2>7
<1>2. ready' \in 0..Len(wire) /\ deadline' \in -1..IdleTicks /\ reading' \in BOOLEAN
  <2>0. /\ ready \in 0..Len(wire) /\ Len(wire) \in Nat /\ deadline \in -1..IdleTicks
        /\ reading \in BOOLEAN
    BY DEF ReaderInv, ReaderTypeOK
  <2>1. CASE Arrive
    <3>1. PICK n \in (ready + 1)..Len(wire) : ready' = n
      BY <2>1 DEF Arrive
    <3>2. deadline' = deadline /\ reading' = reading
      BY <2>1 DEF Arrive, frame, outcome
    <3>q. QED
      BY <2>0, <3>1, <3>2
  <2>2. CASE Call
    BY <2>0, <2>2 DEF Call, peer, frame
  <2>3. CASE Cancel
    BY <2>0, <2>3 DEF Cancel, DeadlineKept, peer
  <2>4. CASE ReadEof
    BY <2>0, <2>4 DEF ReadEof, peer, frame
  <2>5. CASE ReadTimeout
    BY <2>0, <2>5 DEF ReadTimeout, peer, frame
  <2>6. CASE Tick
    <3>1. deadline > 0 /\ deadline' = deadline - 1 /\ ready' = ready /\ reading' = reading
      BY <2>6 DEF Tick, peer, outcome
    <3>q. QED
      BY <2>0, <3>1
  <2>7. CASE UNCHANGED readerVars
    BY <2>0, <2>7 DEF readerVars, peer, frame, outcome
  <2>q. QED
    BY <2>1, <2>2, <2>3, <2>4, <2>5, <2>6, <2>7
<1>3. ReaderTypeOK'
  <2>1. UNCHANGED <<sent, wire, eof, prefix, expected, payload, delivered>>
    BY <1>1 DEF stream
  <2>2. broken' \in BOOLEAN
    BY <1>1 DEF ReaderInv, ReaderTypeOK
  <2>q. QED
    BY <1>2, <2>1, <2>2 DEF ReaderInv, ReaderTypeOK
<1>4. ASSUME ~broken' PROVE InStep'
  <2>1. ~broken
    BY <1>1, <1>4
  <2>q. QED
    BY <1>1, <2>1, StreamKept DEF ReaderInv
<1>q. QED
  BY <1>3, <1>4 DEF ReaderInv

-----------------------------------------------------------------------------
(* The theorems.                                                            *)

\* Nothing is written yet: the empty stream, and one offset.
LEMMA ReaderInvInit == ReaderInit => ReaderInv
<1> SUFFICES ASSUME ReaderInit PROVE ReaderInv
  OBVIOUS
<1>1. /\ sent = <<>> /\ wire = <<>> /\ ready = 0 /\ eof = FALSE
      /\ prefix = <<>> /\ expected = Unknown /\ payload = <<>> /\ deadline = NoTimer
      /\ reading = FALSE /\ delivered = <<>> /\ broken = FALSE
  BY DEF ReaderInit
<1>2. ReaderTypeOK
  <2>1. /\ sent \in Seq(Payloads) /\ wire \in Seq(Bytes) /\ prefix \in Seq(Bytes)
        /\ payload \in Seq(Bytes) /\ delivered \in Seq(Messages)
    BY <1>1
  <2>2. /\ Len(prefix) = 0 /\ ready \in 0..Len(wire) /\ deadline \in -1..IdleTicks
    BY <1>1 DEF NoTimer
  <2>3. /\ Len(prefix) <= PrefixLen /\ expected \in 0..MaxFrameLen \cup {Unknown}
    BY <1>1, <2>2
  <2>4. eof \in BOOLEAN /\ reading \in BOOLEAN /\ broken \in BOOLEAN
    BY <1>1
  <2>q. QED
    BY <2>1, <2>2, <2>3, <2>4 DEF ReaderTypeOK
<1>3. LengthTaken /\ Len(delivered) <= Len(sent) /\ Len(delivered) = 0 /\ Len(sent) = 0
  BY <1>1 DEF LengthTaken
<1>4. PICK o \in [0..0 -> Nat] : o[0] = 0
  <2> DEFINE o == [k \in 0..0 |-> 0]
  <2>1. o \in [0..0 -> Nat] /\ o[0] = 0
    OBVIOUS
  <2>q. QED
    BY <2>1
<1>5. PICK S \in Seq(Bytes) : S = <<>> /\ Len(S) = 0
  OBVIOUS
<1>6. Written(S, o)
  <2>1. \A k \in 0..0 : k = 0
    OBVIOUS
  <2>2. \A k \in 1..0 : FALSE
    OBVIOUS
  <2>q. QED
    BY <1>3, <1>4, <1>5, <2>1, <2>2 DEF Written
<1>7. Slices(S, 0)
  <2>1. Len(prefix) = 0 /\ Len(payload) = 0 /\ Len(wire) = 0
    BY <1>1
  <2>2. \A k \in 1..0 : FALSE
    OBVIOUS
  <2>q. QED
    BY <1>5, <2>1, <2>2 DEF Slices
<1>q. QED
  BY <1>2, <1>3, <1>4, <1>6, <1>7 DEF ReaderInv, InStep

\* Every step of the reader keeps its invariant.
LEMMA ReaderInvStep == ReaderInv /\ [ReaderNext]_readerVars => ReaderInv'
<1> SUFFICES ASSUME ReaderInv, [ReaderNext]_readerVars PROVE ReaderInv'
  OBVIOUS
<1>1. ASSUME NEW p \in Payloads, write_message(p) PROVE ReaderInv'
  BY <1>1, WriteStep
<1>2. CASE HangUp
  BY <1>2, HangUpStep
<1>3. CASE ReaderStep
  <2>1. ~broken
    BY <1>3 DEF ReaderStep, ReadPrefix, ReadPayload, TakeLength, Finish, Awaiting
  <2>2. ReaderTypeOK /\ InStep
    BY <2>1 DEF ReaderInv
  <2>q. QED
    BY <1>3, <2>2, ReadPrefixStep, ReadPayloadStep, TakeLengthStep, FinishStep
       DEF ReaderStep, ReaderInv
<1>4. CASE Arrive \/ Call \/ Cancel \/ ReadEof \/ ReadTimeout \/ Tick \/ UNCHANGED readerVars
  BY <1>4, QuietStep
<1>q. QED
  BY <1>1, <1>2, <1>3, <1>4 DEF ReaderNext

\* The invariant of the reader holds throughout.
LEMMA ReaderInvariant == ReaderSpec => []ReaderInv
<1>1. ReaderInit => ReaderInv
  BY ReaderInvInit
<1>2. ReaderInv /\ [ReaderNext]_readerVars => ReaderInv'
  BY ReaderInvStep
<1>q. QED
  BY <1>1, <1>2, PTL DEF ReaderSpec

\* Every variable keeps its type, and no frame longer than max_frame_len is begun, for
\* every limit: the length is compared with max_frame_len before it becomes expected_len.
THEOREM ReaderTypeCorrect == ReaderSpec => []ReaderTypeOK
<1>1. ReaderInv => ReaderTypeOK
  BY DEF ReaderInv
<1>q. QED
  BY <1>1, ReaderInvariant, PTL

\* The incremental decoder implements the frame channel: for all payloads, limits and
\* prefix lengths, however read() cuts the bytes and wherever recv() drops the future,
\* read_message returns exactly the frames that were written, in order, and nothing after
\* an error.  The only steps the channel sees are a write, a complete frame and an error.
THEOREM ReaderImplementsChannel == ReaderSpec => ChannelSpec
<1>1. ReaderInit => Channel!ChannelInit
  BY DEF ReaderInit, Channel!ChannelInit
<1>2. ASSUME ReaderInv, [ReaderNext]_readerVars
      PROVE  [Channel!Submit \/ Channel!Deliver \/ Channel!Fail]_Channel!channel
  <2>1. ASSUME NEW p \in Payloads, write_message(p) PROVE Channel!Submit
    BY <2>1 DEF write_message, outcome, Channel!Submit
  <2>2. CASE Finish
    <3>1. /\ ~broken /\ expected # Unknown /\ ~InPayload /\ sent' = sent
      BY <2>2 DEF Finish, peer
    <3>2. ReaderTypeOK /\ InStep
      BY <1>2, <3>1 DEF ReaderInv
    <3>3. Len(delivered) + 1 \in 1..Len(sent) /\ payload = sent[Len(delivered) + 1]
      BY <3>1, <3>2, FrameComplete
    <3>4. Len(delivered) + 1 <= Len(sent)
      BY <3>2, <3>3 DEF ReaderTypeOK
    <3>5. CASE payload \in Messages
      <4>1. delivered' = Append(delivered, payload) /\ broken' = broken
        BY <2>2, <3>5 DEF Finish
      <4>q. QED
        BY <3>1, <3>3, <3>4, <3>5, <4>1 DEF Channel!Deliver
    <3>6. CASE payload \notin Messages
      BY <2>2, <3>1, <3>6 DEF Finish, Channel!Fail
    <3>q. QED
      BY <3>5, <3>6
  <2>3. CASE TakeLength \/ ReadEof \/ ReadTimeout
    <3>1. UNCHANGED <<sent, delivered>> /\ ~broken /\ (broken' = TRUE \/ broken' = broken)
      BY <2>3 DEF TakeLength, ReadEof, ReadTimeout, Awaiting, peer
    <3>q. QED
      BY <3>1 DEF Channel!Fail, Channel!channel
  <2>4. CASE ReadPrefix \/ ReadPayload
    BY <2>4 DEF ReadPrefix, ReadPayload, Read, outcome, Channel!channel
  <2>5. CASE Arrive \/ HangUp \/ Call \/ Cancel \/ Tick \/ UNCHANGED readerVars
    BY <2>5 DEF Arrive, HangUp, Call, Cancel, Tick, readerVars, peer, outcome, Channel!channel
  <2>q. QED
    BY <1>2, <2>1, <2>2, <2>3, <2>4, <2>5 DEF ReaderNext, ReaderStep
<1>q. QED
  BY <1>1, <1>2, ReaderInvariant, PTL DEF ReaderSpec, ChannelSpec, Channel!ChannelSpec
=============================================================================
