---------------------------- MODULE MCCommittee ----------------------------
(* Instances of Committee for TLC. *)
EXTENDS Committee, TLC

\* The accounts that differ from the creator in nothing but their name.
Others == Permutations(People \ {Creator})
=============================================================================
