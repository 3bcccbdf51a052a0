----------------------------- MODULE MCAlgoDao -----------------------------
(***************************************************************************)
(* An instance of AlgoDao for TLC.  Nobody votes (MCProposal has the       *)
(* votes), so that a proposal passes once its rounds are over and its      *)
(* result is computed; what remains is the interplay of rules, trust,      *)
(* results, funds, registrations and the groups that implement.            *)
(***************************************************************************)
EXTENDS AlgoDao

CONSTANTS a1, a2, payee, member

\* The options as the client library writes them.
ClientArgs == {YesKey, NoKey}

Gov(n) == [vtype |-> "GOVERNANCE_TOKEN", pct |-> n]

\* A proposal that nobody can register with.
Disburse ==
    [asset |-> NoAsset, regBegin |-> 1, regEnd |-> 0, voteBegin |-> 0, voteEnd |-> 0,
     data |-> Gov(100), type |-> "PAYMENT", dao |-> TRUE,
     pay |-> [payee |-> payee, amount |-> 1]]

\* A payment that may be registered with in the first round, and one of another DAO.
Kinds ==
    [prop \in {a1, a2} |->
        IF prop = a1 THEN [Disburse EXCEPT !.regBegin = 0] ELSE [Disburse EXCEPT !.dao = FALSE]]

\* Two rules for one type, of which the payments meet the first, and one for another.
Rules == {[type |-> "PAYMENT", data |-> Gov(100)], [type |-> "PAYMENT", data |-> Gov(50)],
          [type |-> "NEW_COMMITTEE", data |-> Gov(50)]}
=============================================================================
