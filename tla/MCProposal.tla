----------------------------- MODULE MCProposal -----------------------------
(***************************************************************************)
(* Instances of Proposal for TLC: two proposals that share an election     *)
(* token, and one proposal with two tokens to choose from.                 *)
(***************************************************************************)
EXTENDS Proposal

CONSTANTS a1, a2, e1

Prop(asset, begin, end, data) ==
    [asset |-> asset, regBegin |-> 0, regEnd |-> begin, voteBegin |-> begin,
     voteEnd |-> end, data |-> data, type |-> "PAYMENT", dao |-> TRUE, pay |-> NoData]

Pct(n) == [vtype |-> "GOVERNANCE_TOKEN", pct |-> n]

\* The options as the client library writes them.
ClientArgs == {YesKey, NoKey}

\* The same, and a yes in one byte.
Args == ClientArgs \cup {<<1, 1>>}

\* Two votes in rounds that overlap, the second without a token yet, and vote data.
TwoProposals ==
    [prop \in {a1, a2} |->
        IF prop = a1 THEN Prop(e1, 0, 1, Pct(60)) ELSE Prop(NoAsset, 0, 0, NoData)]

\* One proposal, created without a token.
OneProposal == [prop \in {a1} |-> Prop(NoAsset, 0, 0, Pct(60))]
=============================================================================
