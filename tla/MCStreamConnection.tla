------------------------ MODULE MCStreamConnection -------------------------
(* StreamConnection with interchangeable wire ids. *)
EXTENDS StreamConnection, TLC

IdSymmetry == Permutations(Ids)
=============================================================================
