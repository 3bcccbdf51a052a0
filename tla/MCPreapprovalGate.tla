------------------------- MODULE MCPreapprovalGate -------------------------
(***************************************************************************)
(* Instances of PreapprovalGate for TLC: the configurations name the       *)
(* accounts and the applications.                                          *)
(***************************************************************************)
EXTENDS PreapprovalGate
=============================================================================
