---------------------------- MODULE NdjsonStream ----------------------------
(***************************************************************************)
(* A streamed request body (axum/src/stream.rs): the byte and deadline     *)
(* limits under the NDJSON decoder and the item and deadline limits above  *)
(* it, pulled by the handler one item at a time. The client's bytes arrive *)
(* in chunks of any size; the transport may fail and the deadline may pass *)
(* at any point. A byte is a digit, an "x" that no JSON value holds, or a  *)
(* newline; an item is a number, so a run of digits.                       *)
(***************************************************************************)
EXTENDS Integers, Sequences, SequencesExt

CONSTANTS
    MaxBody,        \* bound: bytes the client sends
    MaxChunk,       \* bound: bytes in one chunk
    MaxLineBytes,   \* MAX_NDJSON_LINE_BYTES
    MaxStreamBytes, \* max_stream_request_bytes; 0 is no limit
    MaxStreamItems  \* max_stream_request_items; 0 is no limit

ASSUME NdjsonAssumption ==
    /\ MaxBody \in Nat /\ MaxChunk \in Nat \ {0} /\ MaxLineBytes \in Nat
    /\ MaxStreamBytes \in Nat /\ MaxStreamItems \in Nat

VARIABLES
    ndBody,    \* every byte the client sends
    ndRead,    \* how many of them the body has yielded, dropped ones too
    ndBuffer,  \* the decoder's buffer
    ndDone,    \* the decoder has seen the body end
    ndPhase,   \* "poll", "loop", "wait", or "ended"
    ndLate,    \* the deadline has passed
    ndItems,   \* what the handler got
    ndEnd      \* why the stream ended, or was cut short below the decoder

ndVars == <<ndBody, ndRead, ndBuffer, ndDone, ndPhase, ndLate, ndItems, ndEnd>>

NL == "nl"
Bytes == {"1", "x", NL}

NdjsonOff ==
    /\ ndBody = <<>> /\ ndRead = 0 /\ ndBuffer = <<>> /\ ndDone = FALSE /\ ndPhase = "off"
    /\ ndLate = FALSE /\ ndItems = <<>> /\ ndEnd = "none"

NdjsonInit ==
    /\ ndBody \in UNION {[1..n -> Bytes] : n \in 0..MaxBody}
    /\ ndRead = 0 /\ ndBuffer = <<>> /\ ndDone = FALSE /\ ndPhase = "poll"
    /\ ndLate = FALSE /\ ndItems = <<>> /\ ndEnd = "none"

HasNewline(bytes) == \E i \in DOMAIN bytes : bytes[i] = NL
Newline(bytes) == CHOOSE i \in DOMAIN bytes : bytes[i] = NL /\ \A j \in 1..(i - 1) : bytes[j] # NL
After(bytes, n) == SubSeq(bytes, n + 1, Len(bytes))
Decodes(line) == line # <<>> /\ \A i \in DOMAIN line : line[i] = "1"

Stop(why) == ndPhase' = "ended" /\ ndEnd' = IF ndEnd = "none" THEN why ELSE ndEnd

(* limit_decoded_items_until, before it polls the decoder. *)
PollItem ==
    /\ ndPhase = "poll"
    /\ IF MaxStreamItems > 0 /\ Len(ndItems) >= MaxStreamItems THEN Stop("items")
       ELSE IF ndLate THEN Stop("deadline")
       ELSE ndPhase' = "loop" /\ UNCHANGED ndEnd
    /\ UNCHANGED <<ndBody, ndRead, ndBuffer, ndDone, ndLate, ndItems>>

(* One line is taken off the buffer: an empty one is skipped, an oversized or
   undecodable one ends the stream. *)
Take(line, rest) ==
    /\ ndBuffer' = rest
    /\ IF Len(line) > MaxLineBytes THEN Stop("oversized") /\ UNCHANGED ndItems
       ELSE IF ~Decodes(line) THEN Stop("undecodable") /\ UNCHANGED ndItems
       ELSE ndItems' = Append(ndItems, line) /\ ndPhase' = "poll" /\ UNCHANGED ndEnd

TakeLine ==
    /\ ndPhase = "loop" /\ HasNewline(ndBuffer)
    /\ LET at == Newline(ndBuffer) IN
       IF at = 1 THEN ndBuffer' = After(ndBuffer, 1) /\ UNCHANGED <<ndPhase, ndEnd, ndItems>>
       ELSE Take(SubSeq(ndBuffer, 1, at - 1), After(ndBuffer, at))
    /\ UNCHANGED <<ndBody, ndRead, ndDone, ndLate>>

(* The body has ended: what is left in the buffer is the last line. *)
TakeRest ==
    /\ ndPhase = "loop" /\ ~HasNewline(ndBuffer) /\ ndDone
    /\ IF ndBuffer = <<>> THEN Stop("end") /\ UNCHANGED <<ndBuffer, ndItems>>
       ELSE Take(ndBuffer, <<>>)
    /\ UNCHANGED <<ndBody, ndRead, ndDone, ndLate>>

(* The limited body answers that it has ended. *)
BodyEnds(why) == ndDone' = TRUE /\ ndPhase' = "loop" /\ ndEnd' = why

(* limit_request_body_until: the deadline is looked at before the body is polled. *)
PollBody ==
    /\ ndPhase = "loop" /\ ~HasNewline(ndBuffer) /\ ~ndDone
    /\ IF ndLate THEN BodyEnds("deadline") ELSE ndPhase' = "wait" /\ UNCHANGED <<ndDone, ndEnd>>
    /\ UNCHANGED <<ndBody, ndRead, ndBuffer, ndLate, ndItems>>

(* Mutant of PendingLine: the whole chunk counts as one line. *)
WholeChunk(chunk) == Len(ndBuffer) + Len(chunk)

(* How long the line that the buffer starts becomes with the chunk. *)
PendingLine(chunk) ==
    Len(ndBuffer) + IF HasNewline(chunk) THEN Newline(chunk) - 1 ELSE Len(chunk)

(* A chunk of n bytes: the byte limit drops the one that exceeds it, the decoder
   stops at a line that would be oversized. *)
Chunk(n) ==
    LET chunk == SubSeq(ndBody, ndRead + 1, ndRead + n) IN
    /\ ndPhase = "wait" /\ ndRead + n <= Len(ndBody)
    /\ ndRead' = ndRead + n
    /\ IF MaxStreamBytes > 0 /\ ndRead + n > MaxStreamBytes
       THEN BodyEnds("bytes") /\ UNCHANGED ndBuffer
       ELSE IF PendingLine(chunk) > MaxLineBytes
       THEN Stop("oversized") /\ UNCHANGED <<ndDone, ndBuffer>>
       ELSE ndBuffer' = ndBuffer \o chunk /\ ndPhase' = "loop" /\ UNCHANGED <<ndDone, ndEnd>>
    /\ UNCHANGED <<ndBody, ndLate, ndItems>>

BodyEnd ==
    /\ ndPhase = "wait" /\ ndRead = Len(ndBody)
    /\ ndDone' = TRUE /\ ndPhase' = "loop"
    /\ UNCHANGED <<ndBody, ndRead, ndBuffer, ndLate, ndItems, ndEnd>>

BodyError ==
    /\ ndPhase = "wait" /\ Stop("transport")
    /\ UNCHANGED <<ndBody, ndRead, ndBuffer, ndDone, ndLate, ndItems>>

(* timeout_at around the body: the decoder above is polled first and goes on. *)
BodyTimeout ==
    /\ ndPhase = "wait" /\ ndLate /\ BodyEnds("deadline")
    /\ UNCHANGED <<ndBody, ndRead, ndBuffer, ndLate, ndItems>>

Deadline ==
    /\ ndPhase \notin {"off", "ended"} /\ ~ndLate /\ ndLate' = TRUE
    /\ UNCHANGED <<ndBody, ndRead, ndBuffer, ndDone, ndPhase, ndItems, ndEnd>>

NdjsonNext ==
    \/ PollItem \/ TakeLine \/ TakeRest \/ PollBody \/ BodyEnd \/ BodyError \/ BodyTimeout
    \/ Deadline
    \/ \E n \in 1..MaxChunk : Chunk(n)

BodySpec == NdjsonInit /\ [][NdjsonNext]_ndVars
-----------------------------------------------------------------------------
(* A body is cut at its newlines and at its two ends.  Its lines are the stretches
   between two cuts, the empty ones left out: LinesTo[n] are those that end before
   position n. *)
Cuts(body) == {0, Len(body) + 1} \cup {i \in DOMAIN body : body[i] = NL}
LineBefore(body, n) ==
    LET before == {c \in Cuts(body) : c < n}
        cut == CHOOSE c \in before : \A d \in before : d <= c
    IN SubSeq(body, cut + 1, n - 1)
Lines(body) ==
    LET LinesTo[n \in 0..(Len(body) + 1)] ==
            IF n = 0 THEN <<>>
            ELSE IF n \in Cuts(body) /\ n - 1 \notin Cuts(body)
                 THEN Append(LinesTo[n - 1], LineBefore(body, n))
            ELSE LinesTo[n - 1]
    IN LinesTo[Len(body) + 1]

(* The lines that precede the first that is oversized or does not decode. *)
GoodLine(line) == Decodes(line) /\ Len(line) <= MaxLineBytes
Expected ==
    LET bad == SelectInSeq(Lines(ndBody), LAMBDA line : ~GoodLine(line))
    IN IF bad = 0 THEN Lines(ndBody) ELSE SubSeq(Lines(ndBody), 1, bad - 1)

(* However the body is cut into chunks, the handler gets the client's lines in
   order up to the first bad one: all of them when the stream ends with the body,
   a prefix when the transport, the item limit or the deadline ends it. Only the
   last item after a cut below the decoder is left open (ndjson_decode). *)
DecodedAgrees ==
    LET sure == IF ndEnd \in {"bytes", "deadline"} /\ ndDone /\ ndItems # <<>>
                THEN Front(ndItems) ELSE ndItems
    IN /\ IsPrefix(sure, Expected)
       /\ ndPhase = "ended" /\ ndEnd \in {"end", "oversized", "undecodable"} => ndItems = Expected
       /\ ndEnd = "items" => Len(ndItems) = MaxStreamItems

(* Every item is a line the client sent: "yields T per NDJSON line". *)
OnlySentItems == IsPrefix(ndItems, Lines(ndBody))
=============================================================================
