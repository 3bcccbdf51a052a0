------------------------- MODULE MCDistributionTree -------------------------
(***************************************************************************)
(* Instances of DistributionTree for TLC.  Accounts are numbers: voter i   *)
(* is the i-th of the snapshot.                                            *)
(***************************************************************************)
EXTENDS DistributionTree

\* Equal counts, so that a claim can be mistaken for another, and a larger one.
Voter(i) == <<i, IF i = 4 THEN 2 ELSE 1>>

\* Trees of one to four levels.
UpToSixteen == {[i \in 1 .. n |-> Voter(i)] : n \in 1 .. 16}

UpToFour == {[i \in 1 .. n |-> Voter(i)] : n \in 1 .. 4}
=============================================================================
