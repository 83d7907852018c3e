---------------------------- MODULE FrameChannel ----------------------------
(***************************************************************************)
(* What a framed connection promises its reader: the messages come out in  *)
(* the order they went in, none twice, none skipped, none invented, and    *)
(* nothing comes out after an error.  MessageReader implements it.         *)
(***************************************************************************)
EXTENDS Sequences, Naturals

CONSTANTS
    Payloads,   \* what a peer may put into a frame
    Messages    \* the payloads that decode to a WireMessage

VARIABLES sent, delivered, failed

channel == <<sent, delivered, failed>>

ChannelInit == sent = <<>> /\ delivered = <<>> /\ failed = FALSE

Submit == \E p \in Payloads : sent' = Append(sent, p) /\ UNCHANGED <<delivered, failed>>

\* The reader gets the oldest frame it has not seen.
Deliver ==
    LET n == Len(delivered) + 1
    IN  /\ ~failed /\ n <= Len(sent) /\ sent[n] \in Messages
        /\ delivered' = Append(delivered, sent[n])
        /\ UNCHANGED <<sent, failed>>

Fail == ~failed /\ failed' = TRUE /\ UNCHANGED <<sent, delivered>>

ChannelSpec == ChannelInit /\ [][Submit \/ Deliver \/ Fail]_channel
=============================================================================
