-------------------------------- MODULE Vec --------------------------------
(***************************************************************************)
(* What the registries and the log buffer do to their vectors.             *)
(***************************************************************************)
EXTENDS Integers, Sequences

(* Vec::retain: the entries of s that are not in gone, in their order. *)
retain(s, gone) ==
    LET kept[n \in 0..Len(s)] ==
            IF n = 0 THEN <<>>
            ELSE IF s[n] \in gone THEN kept[n - 1] ELSE Append(kept[n - 1], s[n])
    IN kept[Len(s)]
=============================================================================
