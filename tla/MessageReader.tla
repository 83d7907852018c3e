---------------------------- MODULE MessageReader ---------------------------
(***************************************************************************)
(* The length-prefixed framing of overseerd-transport: write_message, and  *)
(* the incremental decoder MessageReader.                                  *)
(*                                                                         *)
(* recv() polls read_message inside a select, so the future is dropped     *)
(* whenever another arm wins; the progress on a frame and its idle         *)
(* deadline live in the reader.  The bytes are modelled: a prefix is the   *)
(* little-endian number of payload bytes, over a small base and width.     *)
(***************************************************************************)
EXTENDS Integers, Sequences, FiniteSets, Functions

CONSTANTS
    Base,        \* values of a byte (256 in the code)
    PrefixLen,   \* bytes of a length prefix (4 in the code)
    MaxFrameLen, \* FrameConfig::max_frame_len
    ChunkLen,    \* READ_CHUNK_LEN
    IdleTicks,   \* FrameConfig::read_idle_timeout
    Payloads,    \* payloads a peer may send, as sequences of bytes
    Messages,    \* those that decode to a WireMessage
    MaxFrames    \* bound: frames sent

ASSUME ReaderAssumption ==
    /\ Base \in Nat \ {0, 1} /\ PrefixLen \in Nat \ {0}
    /\ MaxFrameLen \in Nat \ {0} /\ ChunkLen \in Nat \ {0} /\ IdleTicks \in Nat \ {0}
    /\ Payloads \subseteq Seq(0..(Base - 1)) /\ Messages \subseteq Payloads
    /\ MaxFrames \in Nat

Bytes   == 0..(Base - 1)
Unknown == -1       \* expected_len = None
NoTimer == -1       \* idle_deadline = None

VARIABLES
    sent,        \* the payloads written by the peer
    wire,        \* bytes written and not yet read
    ready,       \* how many of them have arrived
    eof,         \* the peer hung up
    prefix,      \* prefix[..prefix_read]
    expected,    \* expected_len
    payload,
    deadline,    \* ticks left until idle_deadline
    reading,     \* whether a read_message future exists
    delivered,   \* the messages read_message returned
    broken       \* read_message returned an error; the connection closes

peer       == <<sent, wire, ready, eof>>
frame      == <<prefix, expected, payload, deadline>>
outcome    == <<reading, delivered, broken>>
readerVars == <<peer, frame, outcome>>

ReaderInit ==
    /\ sent = <<>> /\ wire = <<>> /\ ready = 0 /\ eof = FALSE
    /\ prefix = <<>> /\ expected = Unknown /\ payload = <<>> /\ deadline = NoTimer
    /\ reading = FALSE /\ delivered = <<>> /\ broken = FALSE

-----------------------------------------------------------------------------
(* The writer, and the byte stream between. *)

\* The little-endian digits of n.
EncodeLen(n) == [k \in 1..PrefixLen |-> (n \div Base^(k - 1)) % Base]

DecodeLen(p) == SumFunction([k \in 1..PrefixLen |-> p[k] * Base^(k - 1)])

\* to_le_bytes writes bytes, and from_le_bytes inverts it for every length that is sent.
ASSUME PrefixAssumption ==
    \A p \in Payloads : /\ EncodeLen(Len(p)) \in [1..PrefixLen -> Bytes]
                        /\ DecodeLen(EncodeLen(Len(p))) = Len(p)

write_message(p) ==
    /\ Len(sent) < MaxFrames /\ ~eof
    /\ sent' = Append(sent, p)
    /\ wire' = wire \o (EncodeLen(Len(p)) \o p)
    /\ UNCHANGED <<ready, eof, frame, outcome>>

Arrive ==
    /\ \E n \in (ready + 1)..Len(wire) : ready' = n
    /\ UNCHANGED <<sent, wire, eof, frame, outcome>>

\* The peer goes away; what has not arrived is lost.
HangUp ==
    /\ ~eof
    /\ eof' = TRUE /\ wire' = SubSeq(wire, 1, ready)
    /\ UNCHANGED <<sent, ready, frame, outcome>>

-----------------------------------------------------------------------------
(* read_message. *)

\* Where read_message awaits the reader.
InPrefix  == Len(prefix) < PrefixLen
InPayload == expected # Unknown /\ Len(payload) < expected
Awaiting  == reading /\ ~broken /\ (InPrefix \/ InPayload)

\* The read has nothing to return: no byte, no end of stream, no timeout.
Pending == Awaiting /\ ready = 0 /\ ~eof /\ deadline # 0

Call ==
    /\ ~reading /\ ~broken
    /\ reading' = TRUE
    /\ UNCHANGED <<peer, frame, delivered, broken>>

DeadlineRestarted == IF deadline = NoTimer THEN NoTimer ELSE IdleTicks

\* The progress a dropped future leaves behind: all of it.
DeadlineKept == deadline

PayloadLost == <<>>

PayloadKept == payload

\* The future is dropped while its read is pending.
Cancel ==
    /\ Pending
    /\ reading' = FALSE
    /\ deadline' = DeadlineKept /\ payload' = PayloadKept
    /\ UNCHANGED <<peer, prefix, expected, delivered, broken>>

\* reader.read(buf) with room for "room" bytes: some of the bytes that arrived.
Read(room, n) ==
    /\ n \in 1..ready /\ n <= room
    /\ wire' = SubSeq(wire, n + 1, Len(wire))
    /\ ready' = ready - n
    /\ UNCHANGED <<sent, eof>>

\* The first byte is read alone: an idle connection has no deadline.
PrefixRoom == IF prefix = <<>> THEN 1 ELSE PrefixLen - Len(prefix)

ReadPrefix ==
    /\ Awaiting /\ InPrefix
    /\ \E n \in 1..PrefixLen :
        Read(PrefixRoom, n) /\ prefix' = prefix \o SubSeq(wire, 1, n)
    /\ deadline' = IdleTicks
    /\ UNCHANGED <<expected, payload, outcome>>

FitsFrame(n) == n <= MaxFrameLen

\* The length is checked before anything is allocated for it.
TakeLength ==
    /\ reading /\ ~broken /\ ~InPrefix /\ expected = Unknown
    /\ IF FitsFrame(DecodeLen(prefix))
       THEN expected' = DecodeLen(prefix) /\ UNCHANGED broken
       ELSE broken' = TRUE /\ UNCHANGED expected
    /\ UNCHANGED <<peer, prefix, payload, deadline, reading, delivered>>

\* Never past the end of the frame: the bytes after it belong to the next one.
ChunkRoom == IF expected - Len(payload) < ChunkLen THEN expected - Len(payload) ELSE ChunkLen

ReadPayload ==
    /\ Awaiting /\ InPayload
    /\ \E n \in 1..ChunkLen :
        Read(ChunkRoom, n) /\ payload' = payload \o SubSeq(wire, 1, n)
    /\ deadline' = IdleTicks
    /\ UNCHANGED <<prefix, expected, outcome>>

\* The frame is complete: it is decoded, and the reader reset either way.
Finish ==
    /\ reading /\ ~broken /\ ~InPrefix /\ expected # Unknown /\ ~InPayload
    /\ IF payload \in Messages
       THEN delivered' = Append(delivered, payload) /\ UNCHANGED broken
       ELSE broken' = TRUE /\ UNCHANGED delivered
    /\ prefix' = <<>> /\ expected' = Unknown /\ payload' = <<>> /\ deadline' = NoTimer
    /\ reading' = FALSE
    /\ UNCHANGED peer

ReadEof ==
    /\ Awaiting /\ ready = 0 /\ eof
    /\ broken' = TRUE
    /\ UNCHANGED <<peer, frame, reading, delivered>>

\* timeout_at polls the read first.
ReadTimeout ==
    /\ Awaiting /\ ready = 0 /\ deadline = 0
    /\ broken' = TRUE
    /\ UNCHANGED <<peer, frame, reading, delivered>>

Tick ==
    /\ deadline > 0
    /\ deadline' = deadline - 1
    /\ UNCHANGED <<peer, prefix, expected, payload, outcome>>

-----------------------------------------------------------------------------
ReaderStep == ReadPrefix \/ TakeLength \/ ReadPayload \/ Finish

ReaderNext ==
    \/ \E p \in Payloads : write_message(p)
    \/ Arrive \/ HangUp \/ Call \/ Cancel \/ ReaderStep \/ ReadEof \/ ReadTimeout \/ Tick

ReaderSpec == ReaderInit /\ [][ReaderNext]_readerVars

\* The connection's read loop keeps calling recv(), a call that can proceed does, and
\* time passes.  The peer and the network owe nothing.
ReaderFairness ==
    /\ WF_readerVars(Call) /\ WF_readerVars(ReaderStep) /\ WF_readerVars(ReadEof)
    /\ WF_readerVars(ReadTimeout) /\ WF_readerVars(Tick)

-----------------------------------------------------------------------------
(* Properties *)

\* Every variable keeps its type; no frame longer than max_frame_len is begun.
ReaderTypeOK ==
    /\ sent \in Seq(Payloads)
    /\ wire \in Seq(Bytes) /\ ready \in 0..Len(wire) /\ eof \in BOOLEAN
    /\ prefix \in Seq(Bytes) /\ Len(prefix) <= PrefixLen
    /\ expected \in 0..MaxFrameLen \cup {Unknown}
    /\ payload \in Seq(Bytes)
    /\ deadline \in -1..IdleTicks
    /\ reading \in BOOLEAN /\ broken \in BOOLEAN
    /\ delivered \in Seq(Messages)

\* However the bytes are cut into reads, and wherever a read is given up, the reader
\* hands over exactly the frames that were written, in order.
Channel == INSTANCE FrameChannel WITH failed <- broken

ChannelSpec == Channel!ChannelSpec

Partial == prefix # <<>>

\* A peer that stops in the middle of a frame is detected, even when the reads are
\* given up over and over: the frame is completed or the read fails.
StallDetected == Partial ~> (~Partial \/ broken)
=============================================================================
