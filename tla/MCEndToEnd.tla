----------------------------- MODULE MCEndToEnd -----------------------------
(***************************************************************************)
(* An instance of EndToEnd for TLC: the client, one stranger, and three    *)
(* accounts that may opt in to the governance token, listed around the     *)
(* client.                                                                 *)
(***************************************************************************)
EXTENDS EndToEnd

CONSTANTS creator, stranger, b1, b2, b3

ByAddress == <<b1, creator, stranger, b2, b3>>

SixtyPercent == [type |-> "PAYMENT", data |-> [vtype |-> "GOVERNANCE_TOKEN", pct |-> 60]]

Rules == {SixtyPercent}

\* Yes and no as the client writes them, and yes in a single byte.
VoteArgs == {<<1, 8>>, <<2, 8>>, <<1, 1>>}

GroupCompletions == {"NoOp", "OptIn", "CloseOut", "ClearState"}
=============================================================================
