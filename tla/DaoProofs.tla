----------------------------- MODULE DaoProofs -----------------------------
(***************************************************************************)
(* Proofs about AlgoDao, for every set of proposals, rules and payees and  *)
(* whatever groups are sent: it implements Disbursement, what it pays      *)
(* stays justified, and how often it pays is bounded.                      *)
(***************************************************************************)
EXTENDS AlgoDao, ProposalProofs

(***************************************************************************)
(* What holds of the state of the DAO, whatever the limits on its rules,   *)
(* committees and funds: a DAO that runs was not deleted.                  *)
(***************************************************************************)
DaoState ==
    /\ deleted \in BOOLEAN /\ finalized \in BOOLEAN
    /\ ~(deleted /\ finalized)
    /\ rules \in Seq(RuleInputs)
    /\ daoMembers \subseteq People
    /\ trusted \subseteq Proposals
    /\ treasury \in Nat
    /\ received \in [Payees -> Nat]

(***************************************************************************)
(* Who has opted in to the DAO: other than its creator, only with a call   *)
(* that implements a proposal, which was in order then and still is.       *)
(***************************************************************************)
MembersApproved ==
    daoMembers \subseteq {Creator} \/ (finalized /\ \E prop \in Proposals : Qualifies(prop))

(***************************************************************************)
(* A payee was paid for a proposal that qualified, and it still does.      *)
(***************************************************************************)
ReceiptsJustified ==
    \A q \in Payees : received[q] > 0 =>
        finalized /\ \E prop \in Proposals : Qualifies(prop) /\ Granted(prop).payee = q

DaoInv == ResultsInv /\ DaoState /\ MembersApproved /\ ReceiptsJustified

-----------------------------------------------------------------------------
(***************************************************************************)
(* The steps, by what they do to the DAO.                                  *)
(***************************************************************************)
Writes(call) ==
    \/ \E id \in CommitteeIds : AddCommittee(call, id)
    \/ \E rule \in RuleInputs : AddRule(call, rule)
    \/ Finalize(call)

\* The second half of a group that implements a proposal.
Closes(prop) == \E second \in Call : SecondHalf(second, prop)

LEMMA SecondHalfVotes ==
    ASSUME NEW prop \in Proposals, NEW second \in Call, SecondHalf(second, prop)
    PROVE  ProposalNext /\ UNCHANGED passed
<1>1. second.by \in People
  BY DEF Call
<1>2. CASE SetImplemented(prop, TRUE)
  BY <1>2 DEF SetImplemented, ProposalNext
<1>3. CASE Register(second.by, prop) \/ CloseOut(second.by, prop)
  BY <1>1, <1>3 DEF Register, CloseOut, ProposalNext, VoteCall
<1> QED
  BY <1>2, <1>3 DEF SecondHalf

LEMMA DaoCases ==
    ASSUME [DaoNext]_daoVars
    PROVE  /\ [ProposalNext]_voteVars
           /\ \/ (\E call \in Call : Writes(call)) /\ UNCHANGED voteVars
              \/ \E p \in People : DeleteDao(p)
              \/ \E p \in People : ClearDao(p)
              \/ \E call \in Call, prop \in Proposals :
                    ImplementProposal(call, prop) /\ Closes(prop)
              \/ UNCHANGED ownVars
              \/ (\E prop \in Proposals : GrantTrust(prop)) /\ UNCHANGED voteVars
              \/ (\E amount \in 1 .. MaxFunds : FundDao(amount)) /\ UNCHANGED voteVars
<1>1. ASSUME NEW first \in Call, NEW second \in Call, NEW prop \in Proposals,
             ImplementGroup(first, second, prop)
      PROVE  /\ ProposalNext
             /\ \/ \E p \in People : DeleteDao(p)
                \/ \E p \in People : ClearDao(p)
                \/ ImplementProposal(first, prop) /\ Closes(prop)
  <2>1. first.by \in People /\ SecondHalf(second, prop) /\ FirstHalf(first, prop)
    BY <1>1 DEF Call, ImplementGroup
  <2>2. ProposalNext /\ Closes(prop)
    BY <2>1, SecondHalfVotes DEF Closes
  <2> QED
    BY <2>1, <2>2 DEF FirstHalf
<1>2. ASSUME NEW call \in Call, Writes(call) PROVE UNCHANGED voteVars
  BY <1>2 DEF Writes, AddCommittee, AddRule, Finalize
<1>3. ASSUME NEW prop \in Proposals, GrantTrust(prop) PROVE UNCHANGED voteVars
  BY <1>3 DEF GrantTrust
<1>4. ASSUME NEW amount \in 1 .. MaxFunds, FundDao(amount) PROVE UNCHANGED voteVars
  BY <1>4 DEF FundDao
<1>5. ASSUME NEW prop \in Proposals, SetImplemented(prop, FALSE) PROVE ProposalNext
  BY <1>5 DEF ProposalNext
<1>6. VoteCall \/ VoteTick => ProposalNext
  BY DEF ProposalNext
<1>7. UNCHANGED daoVars => UNCHANGED voteVars /\ UNCHANGED ownVars
  BY DEF daoVars
<1>8. CASE DaoStep
  <2>1. CASE \E call \in Call : Writes(call)
    BY <1>2, <2>1
  <2>2. CASE \E p \in People : (DeleteDao(p) \/ ClearDao(p)) /\ UNCHANGED voteVars
    BY <2>2
  <2>3. CASE \E first \in Call, second \in Call, prop \in Proposals :
                 ImplementGroup(first, second, prop)
    BY <1>1, <2>3
  <2> QED
    BY <1>8, <2>1, <2>2, <2>3 DEF DaoStep, Writes
<1> QED
  BY <1>3, <1>4, <1>5, <1>6, <1>7, <1>8, Zenon DEF DaoNext, ElsewhereImplemented

\* The votes of the proposals go on as if there were no DAO.
LEMMA DaoStepsVote == [DaoNext]_daoVars => [ProposalNext]_voteVars
  BY DaoCases

(***************************************************************************)
(* The DAO takes nothing from the voting and adds nothing to it.           *)
(***************************************************************************)
THEOREM DaoKeepsVotes == DaoSpec => ProposalSpec
  BY DaoStepsVote, PTL DEF DaoSpec, ProposalSpec

LEMMA DaoInvInit == ProposalInit /\ DaoInit => DaoInv
<1> SUFFICES ASSUME ProposalInit, DaoInit PROVE DaoInv
  OBVIOUS
<1>1. ResultsInv
  BY ResultsInvInit
<1>2. /\ deleted = FALSE /\ finalized = FALSE /\ rules = <<>> /\ daoMembers = {}
      /\ trusted = {} /\ treasury = 0 /\ received = [q \in Payees |-> 0]
  BY DEF DaoInit
<1>3. rules \in Seq(RuleInputs) /\ treasury \in Nat /\ received \in [Payees -> Nat]
  BY <1>2
<1>4. DaoState
  BY <1>2, <1>3 DEF DaoState
<1>5. MembersApproved
  BY <1>2 DEF MembersApproved
<1>6. ReceiptsJustified
  BY <1>2 DEF ReceiptsJustified
<1> QED
  BY <1>1, <1>4, <1>5, <1>6 DEF DaoInv
-----------------------------------------------------------------------------
(***************************************************************************)
(* What makes a proposal qualify is never undone once the DAO runs.        *)
(***************************************************************************)
LEMMA PassedStays ==
    ASSUME ProposalTypeOK, [ProposalNext]_voteVars, NEW prop \in Proposals, passed[prop]
    PROVE  passed'[prop]
<1>1. passed \in [Proposals -> BOOLEAN]
  BY DEF ProposalTypeOK
<1>2. CASE UNCHANGED passed
  BY <1>2
<1>3. ASSUME NEW other \in Proposals, FinalizeVote(other) PROVE passed'[prop]
  BY <1>1, <1>3 DEF FinalizeVote
<1>4. UNCHANGED passed \/ \E other \in Proposals : FinalizeVote(other)
  BY DEF ProposalNext, VoteCall, VoteTick, SetImplemented, Register, CloseOut, OptInVoteToken,
         SetVoteToken, MoveElection, CastVote, voteVars
<1> QED
  BY <1>2, <1>3, <1>4

LEMMA QualifiesStays ==
    ASSUME DaoInv, [ProposalNext]_voteVars, trusted \subseteq trusted', UNCHANGED rules,
           NEW prop \in Proposals, Qualifies(prop)
    PROVE  Qualifies(prop)'
<1>1. passed'[prop]
  BY PassedStays DEF DaoInv, ResultsInv, Qualifies
<1>2. MeetsCriteria(prop)'
  BY DEF Qualifies, MeetsCriteria, FindsRule
<1> QED
  BY <1>1, <1>2 DEF Qualifies

\* Steps of the votes implement nothing: "setimplemented" is half of a group.
LEMMA VotesImplementNothing == VoteCall \/ VoteTick => UNCHANGED implemented
  BY DEF VoteCall, VoteTick, Register, CloseOut, OptInVoteToken, SetVoteToken, MoveElection,
         CastVote, FinalizeVote

LEMMA GrantType ==
    ASSUME NEW prop \in Proposals
    PROVE  /\ Granted(prop).amount \in Nat
           /\ Granted(prop).amount # 0 => Granted(prop).payee \in Payees
<1>1. CASE Pays(prop) /\ Config[prop].pay # NoData
  BY <1>1, AlgoDaoAssumption DEF Granted, Payment
<1>2. CASE ~(Pays(prop) /\ Config[prop].pay # NoData)
  BY <1>2 DEF Granted
<1> QED
  BY <1>1, <1>2

(***************************************************************************)
(* A call that implements a proposal pays what it grants, which may be     *)
(* nothing.                                                                *)
(***************************************************************************)
LEMMA ImplementPays ==
    ASSUME DaoInv, NEW call, NEW prop \in Proposals, ImplementProposal(call, prop)
    PROVE  /\ treasury' = treasury - Granted(prop).amount
           /\ treasury >= Granted(prop).amount
           /\ received' = [received EXCEPT ![Granted(prop).payee] = @ + Granted(prop).amount]
           /\ Granted(prop).amount \in Nat
           /\ treasury' \in Nat /\ received' \in [Payees -> Nat]
<1>1. treasury \in Nat /\ received \in [Payees -> Nat]
  BY DEF DaoInv, DaoState
<1>2. CASE Pays(prop)
  <2> DEFINE pay == Config[prop].pay
  <2>1. pay # NoData /\ pay.amount <= treasury
    BY <1>2 DEF ImplementProposal, CanPay
  <2>2. pay \in Payment
    BY <2>1, AlgoDaoAssumption
  <2>3. Granted(prop) = pay
    BY <1>2, <2>1 DEF Granted
  <2>4. /\ treasury' = treasury - pay.amount
        /\ received' = [received EXCEPT ![pay.payee] = @ + pay.amount]
    BY <1>2 DEF ImplementProposal, Pay
  <2> HIDE DEF pay
  <2>5. pay.amount \in Nat /\ pay.payee \in Payees
    BY <2>2 DEF Payment
  <2>6. treasury' \in Nat
    BY <1>1, <2>1, <2>4, <2>5
  <2>7. received' \in [Payees -> Nat]
    BY <1>1, <2>4, <2>5
  <2> QED
    BY <2>1, <2>3, <2>4, <2>5, <2>6, <2>7
<1>3. CASE ~Pays(prop)
  <2>1. Granted(prop).amount = 0
    BY <1>3 DEF Granted
  <2>2. treasury' = treasury /\ received' = received
    BY <1>3 DEF ImplementProposal, Pay
  <2> DEFINE payee == Granted(prop).payee
  <2> HIDE DEF payee
  <2>3. received = [received EXCEPT ![payee] = @ + 0]
    <3>1. \A q \in Payees : received[q] + 0 = received[q]
      BY <1>1
    <3> QED
      BY <1>1, <3>1
  <2>4. received = [received EXCEPT ![Granted(prop).payee] = @ + 0]
    BY <2>3 DEF payee
  <2> QED
    BY <1>1, <2>1, <2>2, <2>4
<1> QED
  BY <1>2, <1>3

-----------------------------------------------------------------------------
(***************************************************************************)
(* What was in order stays in order: for every step, by what it does to    *)
(* trust and rules.                                                        *)
(***************************************************************************)
LEMMA OrderStays ==
    ASSUME DaoInv, [ProposalNext]_voteVars,
           finalized => finalized' /\ trusted \subseteq trusted' /\ UNCHANGED rules
    PROVE  \A prop \in Proposals : finalized /\ Qualifies(prop) => finalized' /\ Qualifies(prop)'
  BY QualifiesStays

LEMMA JustifiedStays ==
    ASSUME DaoInv, [ProposalNext]_voteVars, UNCHANGED received,
           daoMembers' \subseteq daoMembers \cup {Creator},
           finalized => finalized' /\ trusted \subseteq trusted' /\ UNCHANGED rules
    PROVE  MembersApproved' /\ ReceiptsJustified'
<1>1. MembersApproved /\ ReceiptsJustified
  BY DEF DaoInv
<1>2. \A prop \in Proposals : finalized /\ Qualifies(prop) => finalized' /\ Qualifies(prop)'
  BY OrderStays
<1>3. MembersApproved'
  BY <1>1, <1>2 DEF MembersApproved
<1>4. ReceiptsJustified'
  <2> SUFFICES ASSUME NEW q \in Payees, received[q] > 0
               PROVE  finalized' /\ \E prop \in Proposals : /\ Qualifies(prop)'
                                                            /\ Granted(prop).payee = q
    BY DEF ReceiptsJustified, Granted
  <2> QED
    BY <1>1, <1>2 DEF ReceiptsJustified
<1> QED
  BY <1>3, <1>4

LEMMA ImplementInv ==
    ASSUME DaoInv, NEW call \in Call, NEW prop \in Proposals, ImplementProposal(call, prop),
           [ProposalNext]_voteVars
    PROVE  DaoState' /\ MembersApproved' /\ ReceiptsJustified'
<1>1. UNCHANGED <<deleted, finalized, rules, committees, trusted>>
  BY DEF ImplementProposal
<1>2. finalized /\ Qualifies(prop)
  BY DEF ImplementProposal, Qualifies
<1>3. \A other \in Proposals : finalized /\ Qualifies(other) => finalized' /\ Qualifies(other)'
  BY <1>1, OrderStays
<1>4. daoMembers' \subseteq People
  BY DEF DaoInv, DaoState, ImplementProposal, Completed, Call
<1>5. DaoState'
  BY <1>1, <1>4, ImplementPays DEF DaoInv, DaoState
<1>6. MembersApproved'
  BY <1>2, <1>3 DEF MembersApproved
<1>7. ReceiptsJustified'
  <2> SUFFICES ASSUME NEW q \in Payees, received'[q] > 0
               PROVE  finalized' /\ \E other \in Proposals : /\ Qualifies(other)'
                                                             /\ Granted(other).payee = q
    BY DEF ReceiptsJustified, Granted
  <2>1. CASE Granted(prop).payee = q
    BY <1>2, <1>3, <2>1
  <2>2. CASE Granted(prop).payee # q
    <3>1. received'[q] = received[q]
      <4>1. received' = [received EXCEPT ![Granted(prop).payee] = @ + Granted(prop).amount]
        BY ImplementPays
      <4>2. received \in [Payees -> Nat]
        BY DEF DaoInv, DaoState
      <4> HIDE DEF DaoInv
      <4> QED
        BY <2>2, <4>1, <4>2
    <3> QED
      BY <1>3, <3>1 DEF DaoInv, ReceiptsJustified
  <2> QED
    BY <2>1, <2>2
<1> QED
  BY <1>5, <1>6, <1>7
-----------------------------------------------------------------------------
LEMMA DaoInvStep == DaoInv /\ [DaoNext]_daoVars => DaoInv'
<1> SUFFICES ASSUME DaoInv, [DaoNext]_daoVars PROVE DaoInv'
  OBVIOUS
<1>1. DaoState /\ ResultsInv
  BY DEF DaoInv
<1>2. [ProposalNext]_voteVars
  BY DaoStepsVote
<1>3. ResultsInv'
  BY <1>1, <1>2, ProposalStep
<1>4. DaoState' /\ MembersApproved' /\ ReceiptsJustified'
  <2>1. ASSUME NEW call \in Call, Writes(call)
        PROVE  DaoState' /\ MembersApproved' /\ ReceiptsJustified'
    <3>1. SetupPhaseApproved(call.by) /\ Completed(call)
      BY <2>1 DEF Writes, AddCommittee, AddRule, Finalize
    <3>2. ~deleted /\ ~finalized /\ call.by = Creator
      BY <3>1 DEF SetupPhaseApproved
    <3>3. daoMembers' \subseteq daoMembers \cup {Creator}
      BY <3>1, <3>2 DEF Completed
    <3>4. UNCHANGED <<deleted, trusted, treasury, received>>
      BY <2>1 DEF Writes, AddCommittee, AddRule, Finalize
    <3>5. rules' = rules \/ \E rule \in RuleInputs : rules' = Append(rules, rule)
      BY <2>1 DEF Writes, AddCommittee, AddRule, Finalize
    <3>6. rules' \in Seq(RuleInputs)
      BY <1>1, <3>5 DEF DaoState
    <3>7. finalized' \in BOOLEAN
      BY <1>1, <2>1 DEF Writes, AddCommittee, AddRule, Finalize, DaoState
    <3>8. DaoState'
      BY <1>1, <3>2, <3>3, <3>4, <3>6, <3>7, ProposalAssumption DEF DaoState
    <3> QED
      BY <1>2, <3>2, <3>3, <3>4, <3>8, JustifiedStays
  <2>2. ASSUME NEW p \in People, DeleteDao(p)
        PROVE  DaoState' /\ MembersApproved' /\ ReceiptsJustified'
    <3>1. ~finalized /\ deleted' = TRUE
      BY <2>2 DEF DeleteDao, SetupPhaseApproved
    <3>2. UNCHANGED <<finalized, rules, daoMembers, trusted, treasury, received>>
      BY <2>2 DEF DeleteDao
    <3>3. DaoState'
      BY <1>1, <3>1, <3>2 DEF DaoState
    <3> QED
      BY <1>2, <3>1, <3>2, <3>3, JustifiedStays
  <2>3. ASSUME NEW p \in People, ClearDao(p)
        PROVE  DaoState' /\ MembersApproved' /\ ReceiptsJustified'
    <3>1. daoMembers' = daoMembers \ {p}
      BY <2>3 DEF ClearDao
    <3>2. UNCHANGED <<deleted, finalized, rules, trusted, treasury, received>>
      BY <2>3 DEF ClearDao
    <3>3. DaoState'
      BY <1>1, <3>1, <3>2 DEF DaoState
    <3>4. daoMembers' \subseteq daoMembers \cup {Creator}
      BY <3>1
    <3> QED
      BY <1>2, <3>2, <3>3, <3>4, JustifiedStays
  <2>4. ASSUME NEW call \in Call, NEW prop \in Proposals, ImplementProposal(call, prop)
        PROVE  DaoState' /\ MembersApproved' /\ ReceiptsJustified'
    BY <1>2, <2>4, ImplementInv
  <2>5. CASE UNCHANGED ownVars
    <3>1. UNCHANGED <<deleted, finalized, rules, daoMembers, trusted, treasury, received>>
      BY <2>5 DEF ownVars
    <3>2. DaoState'
      BY <1>1, <3>1 DEF DaoState
    <3> QED
      BY <1>2, <3>1, <3>2, JustifiedStays
  <2>6. ASSUME NEW prop \in Proposals, GrantTrust(prop)
        PROVE  DaoState' /\ MembersApproved' /\ ReceiptsJustified'
    <3>1. trusted' = trusted \cup {prop}
      BY <2>6 DEF GrantTrust
    <3>2. UNCHANGED <<deleted, finalized, rules, daoMembers, treasury, received>>
      BY <2>6 DEF GrantTrust
    <3>3. DaoState'
      BY <1>1, <3>1, <3>2 DEF DaoState
    <3>4. trusted \subseteq trusted'
      BY <3>1
    <3> QED
      BY <1>2, <3>2, <3>3, <3>4, JustifiedStays
  <2>7. ASSUME NEW amount \in 1 .. MaxFunds, FundDao(amount)
        PROVE  DaoState' /\ MembersApproved' /\ ReceiptsJustified'
    <3>1. treasury' = treasury + amount /\ amount \in Nat
      BY <2>7, AlgoDaoAssumption DEF FundDao
    <3>2. UNCHANGED <<deleted, finalized, rules, daoMembers, trusted, received>>
      BY <2>7 DEF FundDao
    <3>3. treasury' \in Nat
      BY <1>1, <3>1 DEF DaoState
    <3>4. DaoState'
      BY <1>1, <3>2, <3>3 DEF DaoState
    <3> QED
      BY <1>2, <3>2, <3>4, JustifiedStays
  <2> QED
    BY <2>1, <2>2, <2>3, <2>4, <2>5, <2>6, <2>7, DaoCases, Zenon
<1> QED
  BY <1>3, <1>4 DEF DaoInv

THEOREM DaoInvariant == DaoSpec => []DaoInv
  BY DaoInvInit, DaoInvStep, PTL DEF DaoSpec

(***************************************************************************)
(* What a payee got, it got from a running DAO and for a proposal that     *)
(* pays it and is trusted, obeys its rule and has passed.                  *)
(***************************************************************************)
THEOREM PaymentsJustified == DaoSpec => []ReceiptsJustified
<1>1. DaoInv => ReceiptsJustified
  BY DEF DaoInv
<1> QED
  BY <1>1, DaoInvariant, PTL

(***************************************************************************)
(* As long as no proposal is in order, nobody but the creator gets one     *)
(* marked implemented: to clear the DAO in the group takes having opted in *)
(* to it, and that takes a call that the DAO approves.                     *)
(***************************************************************************)
THEOREM MarksAreApproved == DaoSpec => MarksFollowApproval
<1> DEFINE Follow ==
        \A prop \in Proposals :
            /\ implemented'[prop] /\ ~implemented[prop] /\ Config[prop].dao
            /\ Creator \notin daoMembers /\ ~deleted'
            => finalized /\ \E other \in Proposals : Qualifies(other)
<1>1. DaoInv /\ [DaoNext]_daoVars => [Follow]_daoVars
  <2> SUFFICES ASSUME DaoInv, DaoNext, NEW prop \in Proposals,
                      implemented'[prop], ~implemented[prop], Config[prop].dao,
                      Creator \notin daoMembers, ~deleted'
               PROVE  finalized /\ \E other \in Proposals : Qualifies(other)
    OBVIOUS
  <2>1. implemented \in [Proposals -> BOOLEAN] /\ implemented' # implemented
    BY DEF DaoInv, ResultsInv, ProposalTypeOK
  <2>2. \E first \in Call, second \in Call, other \in Proposals :
            ImplementGroup(first, second, other)
    <3>1. CASE DaoStep
      BY <2>1, <3>1
      DEF DaoStep, AddCommittee, AddRule, Finalize, voteVars
    <3>2. CASE ElsewhereImplemented
      <4>1. PICK other \in Proposals : SetImplemented(other, FALSE)
        BY <3>2 DEF ElsewhereImplemented
      <4>2. other # prop
        BY <4>1 DEF SetImplemented
      <4>3. implemented'[prop] = implemented[prop]
        BY <2>1, <4>1, <4>2 DEF SetImplemented
      <4> QED
        BY <4>3
    <3>3. CASE VoteCall \/ VoteTick
      BY <2>1, <3>3, VotesImplementNothing
    <3>4. CASE \/ \E other \in Proposals : GrantTrust(other)
               \/ \E amount \in 1 .. MaxFunds : FundDao(amount)
      BY <2>1, <3>4 DEF GrantTrust, FundDao, voteVars
    <3> QED
      BY <3>1, <3>2, <3>3, <3>4 DEF DaoNext
  <2>3. PICK first \in Call, second \in Call, other \in Proposals :
            ImplementGroup(first, second, other)
    BY <2>2
  <2>4. CASE ImplementProposal(first, other)
    BY <2>4 DEF ImplementProposal, Qualifies
  <2>5. CASE ClearDao(first.by)
    <3>1. first.by \in daoMembers
      BY <2>5 DEF ClearDao
    <3> QED
      BY <3>1 DEF DaoInv, MembersApproved
  <2>6. CASE DeleteDao(first.by)
    BY <2>6 DEF DeleteDao
  <2> QED
    BY <2>3, <2>4, <2>5, <2>6 DEF ImplementGroup, FirstHalf
<1> QED
  BY <1>1, DaoInvariant, PTL DEF DaoSpec, MarksFollowApproval

(***************************************************************************)
(* Rules are only appended, so the first rule for a type stays the first.  *)
(***************************************************************************)
THEOREM FirstRuleCounts == DaoSpec => RulesSettled
<1> DEFINE Settled ==
        \A i \in DOMAIN rules :
            /\ rules'[i] = rules[i]
            /\ FindsRule(rules[i].type, i) => FindsRule(rules[i].type, i)'
<1>1. DaoInv /\ [DaoNext]_daoVars => [Settled]_daoVars
  <2> SUFFICES ASSUME DaoInv, [DaoNext]_daoVars PROVE Settled
    OBVIOUS
  <2>1. rules \in Seq(RuleInputs)
    BY DEF DaoInv, DaoState
  <2>2. rules' = rules \/ \E rule \in RuleInputs : rules' = Append(rules, rule)
    BY DaoCases
    DEF Writes, AddCommittee, AddRule, Finalize, DeleteDao, ClearDao, ImplementProposal,
        GrantTrust, FundDao, ownVars
  <2>3. \A i \in DOMAIN rules : i \in DOMAIN rules' /\ rules'[i] = rules[i]
    BY <2>1, <2>2
  <2>4. \A i \in DOMAIN rules : i \in Nat /\ \A j \in 1 .. i - 1 : j \in DOMAIN rules
    BY <2>1
  <2> QED
    BY <2>3, <2>4 DEF FindsRule
<1> QED
  BY <1>1, DaoInvariant, PTL DEF DaoSpec, RulesSettled
-----------------------------------------------------------------------------
(***************************************************************************)
(* Money.  What the DAO holds and what it has paid out is never more than  *)
(* what it was funded with; with the limits on the rules and the           *)
(* committees, that bounds its state.                                      *)
(***************************************************************************)
Paid == SumFunctionOnSet(received, Payees)

DaoBounds ==
    /\ treasury + Paid <= MaxFunds
    /\ Len(rules) <= MaxRules
    /\ committees \in Seq(CommitteeIds) /\ Len(committees) <= MaxCommittees

LEMMA PaidNat == ASSUME DaoState PROVE Paid \in Nat
  BY AlgoDaoAssumption, SumNat DEF DaoState, Paid

(***************************************************************************)
(* A payment moves units from the account of the DAO to the payee.         *)
(***************************************************************************)
LEMMA ImplementKeepsFunds ==
    ASSUME DaoInv, NEW call, NEW prop \in Proposals,
           ImplementProposal(call, prop)
    PROVE  treasury' + Paid' = treasury + Paid
<1> DEFINE n == Granted(prop).amount
           q == Granted(prop).payee
<1>1. /\ treasury' = treasury - n /\ treasury >= n
      /\ received' = [received EXCEPT ![q] = @ + n]
      /\ received' \in [Payees -> Nat]
  BY ImplementPays
<1>2. n \in Nat /\ (n # 0 => q \in Payees)
  BY GrantType
<1>3. treasury \in Nat /\ received \in [Payees -> Nat] /\ Paid \in Nat
  BY PaidNat DEF DaoInv, DaoState
<1> HIDE DEF n, q
<1>4. CASE n = 0
  <2>1. received' = received
    BY <1>1, <1>3, <1>4
  <2>2. Paid' = Paid
    BY <2>1 DEF Paid
  <2>3. treasury' = treasury
    BY <1>1, <1>3, <1>4
  <2> QED
    BY <2>2, <2>3
<1>5. CASE n # 0
  <2>1. q \in Payees /\ received'[q] = received[q] + n
    BY <1>1, <1>2, <1>3, <1>5
  <2>2. \A other \in Payees \ {q} : received'[other] = received[other]
    BY <1>1, <1>3
  <2>3. \A other \in Payees : received[other] \in Nat /\ received'[other] \in Nat
    BY <1>1, <1>3
  <2>4. SumFunctionOnSet(received', Payees) + received[q]
            = SumFunctionOnSet(received, Payees) + received'[q]
    BY <2>1, <2>2, <2>3, AlgoDaoAssumption, SumUpdate
  <2>5. SumFunctionOnSet(received', Payees) \in Nat
    BY <2>3, AlgoDaoAssumption, SumNat
  <2> QED
    BY <1>1, <1>2, <1>3, <2>1, <2>3, <2>4, <2>5 DEF Paid
<1> QED
  BY <1>4, <1>5

LEMMA DaoBoundsInit == DaoInit => DaoBounds
<1> SUFFICES ASSUME DaoInit PROVE DaoBounds
  OBVIOUS
<1>1. Paid = 0
  <2>1. \A q \in Payees : received[q] = 0
    BY DEF DaoInit
  <2> QED
    BY <2>1, AlgoDaoAssumption, SumOfZeros DEF Paid
<1>2. treasury = 0 /\ rules = <<>> /\ committees = <<>>
  BY DEF DaoInit
<1> QED
  BY <1>1, <1>2, AlgoDaoAssumption DEF DaoBounds

LEMMA DaoBoundsStep == DaoInv /\ DaoBounds /\ [DaoNext]_daoVars => DaoBounds'
<1> SUFFICES ASSUME DaoInv, DaoBounds, [DaoNext]_daoVars PROVE DaoBounds'
  OBVIOUS
<1>1. rules \in Seq(RuleInputs) /\ committees \in Seq(CommitteeIds)
  BY DEF DaoInv, DaoState, DaoBounds
<1>2. ASSUME UNCHANGED <<rules, committees, treasury, received>> PROVE DaoBounds'
  BY <1>2 DEF DaoBounds, Paid
<1>3. ASSUME NEW call \in Call, NEW id \in CommitteeIds, AddCommittee(call, id)
      PROVE  DaoBounds'
  <2>1. Len(committees) < MaxCommittees /\ committees' = Append(committees, id)
    BY <1>3 DEF AddCommittee
  <2>2. committees' \in Seq(CommitteeIds) /\ Len(committees') <= MaxCommittees
    BY <1>1, <2>1, AlgoDaoAssumption
  <2>3. UNCHANGED <<rules, treasury, received>>
    BY <1>3 DEF AddCommittee
  <2> QED
    BY <2>2, <2>3 DEF DaoBounds, Paid
<1>4. ASSUME NEW call \in Call, NEW rule \in RuleInputs, AddRule(call, rule)
      PROVE  DaoBounds'
  <2>1. Len(rules) < MaxRules /\ rules' = Append(rules, rule)
    BY <1>4 DEF AddRule
  <2>2. Len(rules') <= MaxRules
    BY <1>1, <2>1, AlgoDaoAssumption
  <2>3. UNCHANGED <<committees, treasury, received>>
    BY <1>4 DEF AddRule
  <2> QED
    BY <2>2, <2>3 DEF DaoBounds, Paid
<1>5. ASSUME NEW call \in Call, NEW prop \in Proposals, ImplementProposal(call, prop)
      PROVE  DaoBounds'
  <2>1. UNCHANGED <<rules, committees>>
    BY <1>5 DEF ImplementProposal
  <2> QED
    BY <1>5, <2>1, ImplementKeepsFunds DEF DaoBounds
<1>6. ASSUME NEW amount \in 1 .. MaxFunds, FundDao(amount) PROVE DaoBounds'
  <2>1. /\ treasury + Paid + amount <= MaxFunds /\ treasury' = treasury + amount
        /\ UNCHANGED <<rules, committees, received>>
    BY <1>6 DEF FundDao, Paid
  <2>2. treasury \in Nat /\ Paid \in Nat /\ amount \in Nat
    BY PaidNat, AlgoDaoAssumption DEF DaoInv, DaoState
  <2>3. treasury' + Paid <= MaxFunds
    BY <2>1, <2>2, AlgoDaoAssumption
  <2> QED
    BY <2>1, <2>3 DEF DaoBounds, Paid
<1>7. ASSUME \/ \E call \in Call : Finalize(call)
             \/ \E p \in People : DeleteDao(p) \/ ClearDao(p)
             \/ \E prop \in Proposals : GrantTrust(prop)
             \/ UNCHANGED ownVars
      PROVE  DaoBounds'
  <2>1. UNCHANGED <<rules, committees, treasury, received>>
    BY <1>7 DEF Finalize, DeleteDao, ClearDao, GrantTrust, ownVars
  <2> QED
    BY <1>2, <2>1
<1> QED
  BY <1>3, <1>4, <1>5, <1>6, <1>7, DaoCases, Zenon DEF Writes

THEOREM DaoBoundsInvariant == DaoSpec => []DaoBounds
  BY DaoBoundsInit, DaoBoundsStep, DaoInvariant, PTL DEF DaoSpec

(***************************************************************************)
(* The state of the DAO and of its proposals keeps its type, the limits on *)
(* the rules, the committees and the funds included.                       *)
(***************************************************************************)
THEOREM DaoKeepsTypes == DaoSpec => []DaoTypes
<1>1. DaoInv /\ DaoBounds => DaoTypes
  <2> SUFFICES ASSUME DaoInv, DaoBounds PROVE DaoTypes
    OBVIOUS
  <2>1. treasury \in Nat /\ received \in [Payees -> Nat] /\ Paid \in Nat
    BY PaidNat DEF DaoInv, DaoState
  <2>2. treasury \in 0 .. MaxFunds
    BY <2>1, AlgoDaoAssumption DEF DaoBounds
  <2>3. \A q \in Payees : received[q] \in 0 .. MaxFunds
    <3> TAKE q \in Payees
    <3>1. received[q] \in Nat /\ received[q] <= Paid
      BY <2>1, AlgoDaoAssumption, SumMember DEF Paid
    <3> QED
      BY <2>1, <3>1, AlgoDaoAssumption DEF DaoBounds
  <2>4. received \in [Payees -> 0 .. MaxFunds]
    BY <2>1, <2>3
  <2> QED
    BY <2>2, <2>4 DEF DaoTypes, DaoTypeOK, DaoInv, DaoState, DaoBounds, ResultsInv
<1> QED
  BY <1>1, DaoInvariant, DaoBoundsInvariant, PTL
-----------------------------------------------------------------------------
(***************************************************************************)
(* How often a proposal pays.                                              *)
(***************************************************************************)
LEMMA RegisteredFinite ==
    ASSUME NEW ballots
    PROVE  /\ IsFiniteSet({p \in People : ballots[p].optedin})
           /\ Cardinality({p \in People : ballots[p].optedin}) \in Nat
<1>1. IsFiniteSet(People) /\ {p \in People : ballots[p].optedin} \in SUBSET People
  BY AccountsFinite
<1>2. IsFiniteSet({p \in People : ballots[p].optedin})
  BY <1>1, FS_Subset
<1> QED
  BY <1>2, FS_CardinalityType

LEMMA ChancesNat ==
    ASSUME NEW prop \in Proposals
    PROVE  Chances(prop) \in Nat /\ Chances(prop)' \in Nat
<1>1. Cardinality({p \in People : voter[prop][p].optedin}) \in Nat
  BY RegisteredFinite
<1>2. Cardinality({p \in People : voter'[prop][p].optedin}) \in Nat
  BY RegisteredFinite
<1> QED
  BY <1>1, <1>2 DEF Chances

\* Who leaves, and a mark that stays, take chances away and give none.
LEMMA ChancesShrink ==
    ASSUME NEW prop \in Proposals, implemented[prop] => implemented'[prop],
           \A p \in People : voter'[prop][p].optedin => voter[prop][p].optedin
    PROVE  Chances(prop)' <= Chances(prop)
<1> DEFINE R == {p \in People : voter[prop][p].optedin}
           S == {p \in People : voter'[prop][p].optedin}
<1>1. S \in SUBSET R
  OBVIOUS
<1>2. IsFiniteSet(R) /\ Cardinality(R) \in Nat /\ Cardinality(S) \in Nat
  BY RegisteredFinite
<1>3. Cardinality(S) <= Cardinality(R)
  BY <1>1, <1>2, FS_Subset
<1>4. /\ Chances(prop) = Cardinality(R) + (IF implemented[prop] THEN 0 ELSE 1)
      /\ Chances(prop)' = Cardinality(S) + (IF implemented'[prop] THEN 0 ELSE 1)
  BY DEF Chances
<1> HIDE DEF R, S
<1> QED
  BY <1>2, <1>3, <1>4

\* Once the vote is over nobody registers any more.
LEMMA RegistrationOver ==
    ASSUME DaoInv, RegistrationsClose, NEW prop \in Proposals, passed[prop], NEW p \in People
    PROVE  ~Register(p, prop)
<1>1. VoteOver(prop)
  BY DEF DaoInv, ResultsInv, ResultsAreLate
<1>2. Config[prop].regEnd \in Nat /\ Config[prop].voteEnd \in Nat
  BY ProposalAssumption
<1>3. round \in Nat
  BY DEF DaoInv, ResultsInv, ProposalTypeOK
<1> QED
  BY <1>1, <1>2, <1>3 DEF RegistrationsClose, Register, Within, VoteOver

LEMMA PassedLosesChances ==
    ASSUME DaoInv, RegistrationsClose, [ProposalNext]_voteVars, NEW prop \in Proposals, passed[prop]
    PROVE  Chances(prop)' <= Chances(prop)
<1>1. /\ voter \in [Proposals -> [People -> Ballot]]
      /\ implemented \in [Proposals -> BOOLEAN]
  BY DEF DaoInv, ResultsInv, ProposalTypeOK
<1>2. implemented[prop] => implemented'[prop]
  <2>1. \/ UNCHANGED implemented
        \/ \E other \in Proposals, here \in BOOLEAN : SetImplemented(other, here)
    BY VotesImplementNothing DEF ProposalNext, voteVars
  <2> QED
    BY <1>1, <2>1 DEF SetImplemented
<1>3. \A p \in People : voter'[prop][p].optedin => voter[prop][p].optedin
  <2>1. ASSUME NEW p \in People, NEW other \in Proposals, Register(p, other)
        PROVE  voter'[prop] = voter[prop]
    <3>1. other # prop
      BY <2>1, RegistrationOver
    <3> QED
      BY <1>1, <2>1, <3>1 DEF Register
  <2>2. ASSUME NEW p \in People, NEW other \in Proposals, CloseOut(p, other)
        PROVE  \A q \in People : voter'[prop][q].optedin => voter[prop][q].optedin
    <3>1. voter' = [voter EXCEPT ![other][p] = NotRegistered] /\ ~NotRegistered.optedin
      BY <2>2 DEF CloseOut, NotRegistered
    <3> QED
      BY <1>1, <3>1
  <2>3. ASSUME NEW p \in People, NEW other \in Proposals, NEW arg \in OptionArgs,
               NEW xfer \in ElecTransfers, CastVote(p, other, arg, xfer)
        PROVE  \A q \in People : voter'[prop][q].optedin = voter[prop][q].optedin
    <3>1. voter' = [voter EXCEPT ![other][p] = Recorded(@, arg, xfer.amount)]
      BY <2>3 DEF CastVote
    <3>2. voter[other][p] \in Ballot
      BY <1>1
    <3>3. Recorded(voter[other][p], arg, xfer.amount).optedin = voter[other][p].optedin
      BY <3>2 DEF Recorded, Ballot
    <3> QED
      BY <1>1, <3>1, <3>3
  <2>4. ASSUME \/ VoteTick
               \/ \E p \in People, other \in Proposals, asset \in Assets :
                     OptInVoteToken(p, other, asset) \/ SetVoteToken(p, other, asset)
               \/ \E xfer \in ElecTransfers \cup Issues : MoveElection(xfer)
               \/ \E other \in Proposals : FinalizeVote(other)
               \/ \E other \in Proposals, here \in BOOLEAN : SetImplemented(other, here)
               \/ UNCHANGED voteVars
        PROVE  UNCHANGED voter
    BY <2>4 DEF VoteTick, OptInVoteToken, SetVoteToken, MoveElection, FinalizeVote, SetImplemented,
                voteVars
  <2> QED
    BY <2>1, <2>2, <2>3, <2>4 DEF ProposalNext, VoteCall
<1> QED
  BY <1>2, <1>3, ChancesShrink

\* The second half of a group that implements a proposal uses up one of its chances.
LEMMA ClosingTakesChance ==
    ASSUME DaoInv, RegistrationsClose, NEW prop \in Proposals, passed[prop], Closes(prop)
    PROVE  Chances(prop)' + 1 <= Chances(prop)
<1> DEFINE R == {p \in People : voter[prop][p].optedin}
           S == {p \in People : voter'[prop][p].optedin}
<1>1. /\ voter \in [Proposals -> [People -> Ballot]]
      /\ implemented \in [Proposals -> BOOLEAN]
  BY DEF DaoInv, ResultsInv, ProposalTypeOK
<1>2. IsFiniteSet(R) /\ Cardinality(R) \in Nat /\ Cardinality(S) \in Nat
  BY RegisteredFinite
<1>3. /\ Chances(prop) = Cardinality(R) + (IF implemented[prop] THEN 0 ELSE 1)
      /\ Chances(prop)' = Cardinality(S) + (IF implemented'[prop] THEN 0 ELSE 1)
  BY DEF Chances
<1>4. PICK second \in Call : SecondHalf(second, prop)
  BY DEF Closes
<1>5. second.by \in People
  BY DEF Call
<1>6. ~Register(second.by, prop)
  BY <1>5, RegistrationOver
<1>7. CASE SetImplemented(prop, TRUE)
  <2>1. ~implemented[prop] /\ implemented'[prop] /\ voter' = voter
    BY <1>1, <1>7 DEF SetImplemented
  <2>2. S = R
    BY <2>1
  <2> HIDE DEF R, S
  <2> QED
    BY <1>2, <1>3, <2>1, <2>2
<1>8. CASE CloseOut(second.by, prop)
  <2>1. voter[prop][second.by].optedin /\ implemented' = implemented
    BY <1>8 DEF CloseOut
  <2>2. voter' = [voter EXCEPT ![prop][second.by] = NotRegistered]
    BY <1>8 DEF CloseOut
  <2>3. S = R \ {second.by}
    BY <1>1, <1>5, <2>2 DEF NotRegistered
  <2>4. second.by \in R
    BY <1>5, <2>1
  <2> HIDE DEF R, S
  <2>5. Cardinality(S) = Cardinality(R) - 1
    BY <1>2, <2>3, <2>4, FS_RemoveElement
  <2> QED
    BY <1>2, <1>3, <2>1, <2>5
<1> HIDE DEF R, S
<1> QED
  BY <1>4, <1>6, <1>7, <1>8 DEF SecondHalf

LEMMA MayPayNat ==
    ASSUME NEW prop \in Proposals, NEW q
    PROVE  MayPay(prop, q) \in Nat /\ MayPay(prop, q)' \in Nat
<1> DEFINE n == Granted(prop).amount
           c == Chances(prop)
           d == Chances(prop)'
<1>1. n \in Nat /\ c \in Nat /\ d \in Nat
  BY GrantType, ChancesNat
<1>2. /\ MayPay(prop, q) = n * c \/ MayPay(prop, q) = 0
      /\ MayPay(prop, q)' = n * d \/ MayPay(prop, q)' = 0
  BY DEF MayPay, Granted, Pays
<1> HIDE DEF n, c, d
<1> QED
  BY <1>1, <1>2

LEMMA Product ==
    ASSUME NEW n \in Nat, NEW c \in Nat, NEW d \in Nat
    PROVE  /\ d <= c => n * d <= n * c
           /\ d + 1 <= c => n * d + n <= n * c
<1>1. ASSUME d <= c PROVE n * d <= n * c
  <2>1. PICK e \in Nat : c = d + e
    <3>1. c - d \in Nat /\ c = d + (c - d)
      BY <1>1
    <3> QED
      BY <3>1
  <2>2. n * c = n * d + n * e
    BY <2>1
  <2>3. n * e \in Nat /\ n * d \in Nat
    BY <2>1
  <2> QED
    BY <2>2, <2>3
<1>2. ASSUME d + 1 <= c PROVE n * d + n <= n * c
  <2>1. PICK e \in Nat : c = d + 1 + e
    <3>1. c - d - 1 \in Nat /\ c = d + 1 + (c - d - 1)
      BY <1>2
    <3> QED
      BY <3>1
  <2>2. n * c = n * d + n + n * e
    BY <2>1
  <2>3. n * e \in Nat /\ n * d \in Nat
    BY <2>1
  <2> QED
    BY <2>2, <2>3
<1> QED
  BY <1>1, <1>2

\* What is left to pay of one proposal, in a step after which the same proposals have passed.
LEMMA MayPayShrinks ==
    ASSUME DaoInv, RegistrationsClose, [ProposalNext]_voteVars, UNCHANGED passed,
           NEW prop \in Proposals, NEW q
    PROVE  /\ MayPay(prop, q)' <= MayPay(prop, q)
           /\ passed[prop] /\ Closes(prop) /\ Granted(prop).payee = q
              => MayPay(prop, q)' + Granted(prop).amount <= MayPay(prop, q)
<1> DEFINE n == Granted(prop).amount
           c == Chances(prop)
           d == Chances(prop)'
<1>1. n \in Nat /\ c \in Nat /\ d \in Nat
  BY GrantType, ChancesNat
<1>2. /\ MayPay(prop, q) = IF passed[prop] /\ Granted(prop).payee = q THEN n * c ELSE 0
      /\ MayPay(prop, q)' = IF passed[prop] /\ Granted(prop).payee = q THEN n * d ELSE 0
  BY DEF MayPay, Granted, Pays
<1>3. passed[prop] => d <= c
  BY PassedLosesChances
<1>4. passed[prop] /\ Closes(prop) => d + 1 <= c
  BY ClosingTakesChance
<1>5. (d <= c => n * d <= n * c) /\ (d + 1 <= c => n * d + n <= n * c)
  BY <1>1, Product
<1> HIDE DEF c, d
<1> QED
  BY <1>2, <1>3, <1>4, <1>5

LEMMA MayGetSum ==
    ASSUME NEW q
    PROVE  /\ MayGet(q) = SumFunctionOnSet([prop \in Proposals |-> MayPay(prop, q)], Proposals)
           /\ MayGet(q)' = SumFunctionOnSet([prop \in Proposals |-> MayPay(prop, q)'], Proposals)
           /\ MayGet(q) \in Nat /\ MayGet(q)' \in Nat
<1>1. /\ MayGet(q) = SumFunctionOnSet([prop \in Proposals |-> MayPay(prop, q)], Proposals)
      /\ MayGet(q)' = SumFunctionOnSet([prop \in Proposals |-> MayPay(prop, q)'], Proposals)
  BY DEF MayGet
<1>2. \A prop \in Proposals : MayPay(prop, q) \in Nat /\ MayPay(prop, q)' \in Nat
  BY MayPayNat
<1>3. IsFiniteSet(Proposals)
  BY AccountsFinite
<1>4. SumFunctionOnSet([prop \in Proposals |-> MayPay(prop, q)], Proposals) \in Nat
  BY <1>2, <1>3, SumNat
<1>5. SumFunctionOnSet([prop \in Proposals |-> MayPay(prop, q)'], Proposals) \in Nat
  BY <1>2, <1>3, SumNat
<1> QED
  BY <1>1, <1>4, <1>5

LEMMA MayGetShrinks ==
    ASSUME DaoInv, RegistrationsClose, [ProposalNext]_voteVars, UNCHANGED passed, NEW q
    PROVE  MayGet(q)' <= MayGet(q)
<1> DEFINE f == [prop \in Proposals |-> MayPay(prop, q)]
           h == [prop \in Proposals |-> MayPay(prop, q)']
<1>1. \A prop \in Proposals : f[prop] \in Nat /\ h[prop] \in Nat /\ h[prop] <= f[prop]
  BY MayPayNat, MayPayShrinks
<1>2. MayGet(q) = SumFunctionOnSet(f, Proposals) /\ MayGet(q)' = SumFunctionOnSet(h, Proposals)
  BY MayGetSum
<1> HIDE DEF f, h
<1> QED
  BY <1>1, <1>2, AccountsFinite, SumMonotone

LEMMA PaymentTakesChance ==
    ASSUME DaoInv, RegistrationsClose, [ProposalNext]_voteVars, UNCHANGED passed,
           NEW prop \in Proposals, passed[prop], Closes(prop)
    PROVE  MayGet(Granted(prop).payee)' + Granted(prop).amount <= MayGet(Granted(prop).payee)
<1> DEFINE q == Granted(prop).payee
           n == Granted(prop).amount
           f == [other \in Proposals |-> MayPay(other, q)]
           h == [other \in Proposals |-> MayPay(other, q)']
           g == [h EXCEPT ![prop] = @ + n]
<1>1. n \in Nat /\ IsFiniteSet(Proposals)
  BY GrantType, AccountsFinite
<1>2. \A other \in Proposals : f[other] \in Nat /\ h[other] \in Nat /\ h[other] <= f[other]
  BY MayPayNat, MayPayShrinks
<1>3. h[prop] + n <= f[prop]
  BY MayPayShrinks
<1>4. MayGet(q) = SumFunctionOnSet(f, Proposals) /\ MayGet(q)' = SumFunctionOnSet(h, Proposals)
  BY MayGetSum
<1>5. h \in [Proposals -> Nat]
  BY <1>2
<1>6. MayGet(q) \in Nat /\ MayGet(q)' \in Nat
  BY MayGetSum
<1> HIDE DEF f, h, n
<1>7. /\ g[prop] = h[prop] + n /\ \A other \in Proposals \ {prop} : g[other] = h[other]
      /\ \A other \in Proposals : g[other] \in Nat
  BY <1>1, <1>5
<1> HIDE DEF g
<1>8. SumFunctionOnSet(g, Proposals) + h[prop] = SumFunctionOnSet(h, Proposals) + g[prop]
  BY <1>1, <1>2, <1>7, SumUpdate
<1>9. SumFunctionOnSet(g, Proposals) <= SumFunctionOnSet(f, Proposals)
  <2>1. \A other \in Proposals : g[other] \in Nat /\ f[other] \in Nat /\ g[other] <= f[other]
    BY <1>2, <1>3, <1>7
  <2> QED
    BY <1>1, <2>1, SumMonotone
<1>10. SumFunctionOnSet(g, Proposals) \in Nat
  BY <1>1, <1>7, SumNat
<1>11. MayGet(q)' + n <= MayGet(q)
  <2> DEFINE a == SumFunctionOnSet(f, Proposals)
             b == SumFunctionOnSet(h, Proposals)
             e == SumFunctionOnSet(g, Proposals)
  <2>1. a \in Nat /\ b \in Nat /\ e \in Nat /\ h[prop] \in Nat /\ n \in Nat
    BY <1>1, <1>2, <1>4, <1>6, <1>10
  <2>2. e + h[prop] = b + (h[prop] + n) /\ e <= a
    BY <1>7, <1>8, <1>9
  <2> HIDE DEF a, b, e
  <2>3. b + n <= a
    BY <2>1, <2>2
  <2> QED
    BY <1>4, <2>3 DEF a, b
<1> QED
  BY <1>11 DEF n

(***************************************************************************)
(* How often a proposal pays is bounded by the mark and the registrations: *)
(* a step after which no other proposal has passed leaves a payee with no  *)
(* more than it had and could still get.                                   *)
(***************************************************************************)
THEOREM PaymentsAreBounded == DaoSpec => PaymentsBounded
<1> DEFINE Bounded ==
        UNCHANGED passed /\ RegistrationsClose =>
            \A q \in Payees : received'[q] + MayGet(q)' <= received[q] + MayGet(q)
<1>1. DaoInv /\ [DaoNext]_daoVars => [Bounded]_daoVars
  <2> SUFFICES ASSUME DaoInv, [DaoNext]_daoVars, UNCHANGED passed, RegistrationsClose,
                      NEW q \in Payees
               PROVE  received'[q] + MayGet(q)' <= received[q] + MayGet(q)
    OBVIOUS
  <2>1. [ProposalNext]_voteVars
    BY DaoStepsVote
  <2>2. received \in [Payees -> Nat] /\ MayGet(q) \in Nat /\ MayGet(q)' \in Nat
    BY MayGetSum DEF DaoInv, DaoState
  <2>3. MayGet(q)' <= MayGet(q)
    BY <2>1, MayGetShrinks
  <2>4. CASE received'[q] = received[q]
    BY <2>2, <2>3, <2>4
  <2>5. ASSUME NEW call \in Call, NEW prop \in Proposals, ImplementProposal(call, prop),
               Closes(prop)
        PROVE  received'[q] + MayGet(q)' <= received[q] + MayGet(q)
    <3> DEFINE n == Granted(prop).amount
    <3>1. /\ received' = [received EXCEPT ![Granted(prop).payee] = @ + n]
          /\ n \in Nat /\ passed[prop]
      BY <2>5, ImplementPays DEF ImplementProposal
    <3>2. CASE Granted(prop).payee # q
      <4>1. received'[q] = received[q]
        BY <2>2, <3>1, <3>2
      <4> QED
        BY <2>2, <2>3, <4>1
    <3>3. CASE Granted(prop).payee = q
      <4>1. received'[q] = received[q] + n
        BY <2>2, <3>1, <3>3
      <4>2. MayGet(q)' + n <= MayGet(q)
        BY <2>1, <2>5, <3>1, <3>3, PaymentTakesChance
      <4> HIDE DEF n
      <4> QED
        BY <2>2, <3>1, <4>1, <4>2
    <3> QED
      BY <3>2, <3>3
  <2>6. \/ received' = received
        \/ \E call \in Call, prop \in Proposals : ImplementProposal(call, prop) /\ Closes(prop)
    BY DaoCases
    DEF Writes, AddCommittee, AddRule, Finalize, DeleteDao, ClearDao, GrantTrust, FundDao, ownVars
  <2> QED
    BY <2>4, <2>5, <2>6
<1> QED
  BY <1>1, DaoInvariant, PTL DEF DaoSpec, PaymentsBounded

(***************************************************************************)
(* What is proved of the votes holds with the DAO around them.             *)
(***************************************************************************)
COROLLARY DaoVotesAreBacked == DaoSpec => [](NoDoubleVoting /\ VotesBacked)
  BY DaoKeepsVotes, NoUnitVotesTwice, VotesAreBacked, PTL
-----------------------------------------------------------------------------
(***************************************************************************)
(* The refinement: what the DAO is for Disbursement.                       *)
(***************************************************************************)
Phase == IF deleted THEN "deleted" ELSE IF finalized THEN "running" ELSE "setup"

Eligible == IF finalized THEN {prop \in Proposals : Qualifies(prop)} ELSE {}

LEMMA DisbursementInitially == ProposalInit /\ DaoInit => Abstract!DisbursementInit
<1> SUFFICES ASSUME ProposalInit, DaoInit PROVE Abstract!DisbursementInit
  OBVIOUS
<1>1. Phase = "setup" /\ Eligible = {}
  BY DEF DaoInit, Phase, Eligible
<1>2. treasury = 0 /\ received = [q \in Payees |-> 0]
  BY DEF DaoInit
<1> QED
  BY <1>1, <1>2 DEF Abstract!DisbursementInit, Phase, Eligible

\* Steps that do not pay are set-up, qualification or nothing.
LEMMA EligibleGrows ==
    ASSUME DaoInv, [ProposalNext]_voteVars, UNCHANGED <<deleted, finalized>>,
           finalized => UNCHANGED rules, trusted \subseteq trusted',
           UNCHANGED <<treasury, received>>
    PROVE  Abstract!Qualify \/ UNCHANGED Abstract!disbursementVars
<1>1. Phase' = Phase
  BY DEF Phase
<1>2. CASE finalized
  <2>1. Eligible \subseteq Eligible'
    BY <1>2, QualifiesStays DEF Eligible
  <2>2. Eligible' \subseteq Proposals
    BY DEF Eligible
  <2>3. Phase = "running"
    BY <1>2 DEF Phase, DaoInv, DaoState
  <2>4. Abstract!Qualify
    BY <1>1, <2>1, <2>2, <2>3 DEF Abstract!Qualify, Phase, Eligible
  <2> QED
    BY <2>4
<1>3. CASE ~finalized
  <2>1. Eligible' = Eligible
    BY <1>3 DEF Eligible
  <2>2. UNCHANGED Abstract!disbursementVars
    BY <1>1, <2>1 DEF Abstract!disbursementVars, Phase, Eligible
  <2> QED
    BY <2>2
<1> QED
  BY <1>2, <1>3

LEMMA FinalizeLaunches ==
    ASSUME DaoInv, NEW call, Finalize(call)
    PROVE  Abstract!Launch
<1>1. ~finalized /\ ~deleted /\ finalized' = TRUE /\ UNCHANGED deleted
  BY DEF Finalize, SetupPhaseApproved
<1>2. UNCHANGED <<treasury, received>>
  BY DEF Finalize
<1>3. Phase = "setup" /\ Phase' = "running"
  BY <1>1 DEF Phase
<1>4. Eligible' \subseteq Proposals
  BY DEF Eligible
<1> QED
  BY <1>2, <1>3, <1>4 DEF Abstract!Launch, Phase, Eligible

LEMMA DeleteAbandons ==
    ASSUME DaoInv, NEW p, DeleteDao(p)
    PROVE  Abstract!Abandon
<1>1. ~finalized /\ ~deleted /\ deleted' = TRUE /\ UNCHANGED finalized
  BY DEF DeleteDao, SetupPhaseApproved
<1>2. UNCHANGED <<treasury, received>>
  BY DEF DeleteDao
<1>3. Phase = "setup" /\ Phase' = "deleted"
  BY <1>1 DEF Phase
<1>4. Eligible' = Eligible
  BY <1>1 DEF Eligible
<1> QED
  BY <1>2, <1>3, <1>4 DEF Abstract!Abandon, Phase, Eligible

LEMMA FundDeposits ==
    ASSUME DaoInv, NEW amount \in 1 .. MaxFunds, FundDao(amount)
    PROVE  Abstract!Deposit
<1>1. treasury' = treasury + amount /\ UNCHANGED received
  BY DEF FundDao
<1>2. UNCHANGED <<deleted, finalized, rules, trusted, passed>>
  BY DEF FundDao, voteVars
<1>3. treasury' > treasury
  BY <1>1, AlgoDaoAssumption DEF DaoInv, DaoState
<1>4. Phase' = Phase /\ Eligible' = Eligible
  BY <1>2 DEF Phase, Eligible, Qualifies, MeetsCriteria, FindsRule
<1> QED
  BY <1>1, <1>3, <1>4 DEF Abstract!Deposit, Phase, Eligible

LEMMA ImplementCarriesOut ==
    ASSUME DaoInv, NEW call, NEW prop \in Proposals, ImplementProposal(call, prop), Closes(prop)
    PROVE  Abstract!CarryOut(prop)
<1>1. /\ ~deleted /\ finalized /\ Qualifies(prop)
      /\ UNCHANGED <<deleted, finalized, rules, trusted>>
  BY DEF ImplementProposal, Qualifies
<1>2. UNCHANGED passed
  BY SecondHalfVotes DEF Closes
<1>3. Phase = "running" /\ Phase' = Phase
  BY <1>1 DEF Phase
<1>4. prop \in Eligible /\ Eligible' = Eligible
  BY <1>1, <1>2 DEF Eligible, Qualifies, MeetsCriteria, FindsRule
<1>5. [other \in Proposals |-> Granted(other)][prop] = Granted(prop)
  OBVIOUS
<1> QED
  BY <1>3, <1>4, <1>5, ImplementPays DEF Abstract!CarryOut, Phase, Eligible

LEMMA DaoStepDisburses ==
    DaoInv /\ [DaoNext]_daoVars =>
        [Abstract!DisbursementNext]_(Abstract!disbursementVars)
<1> SUFFICES ASSUME DaoInv, [DaoNext]_daoVars
             PROVE  Abstract!DisbursementNext \/ UNCHANGED Abstract!disbursementVars
  OBVIOUS
<1>1. [ProposalNext]_voteVars
  BY DaoStepsVote
<1>2. ASSUME NEW call \in Call, Finalize(call) PROVE Abstract!DisbursementNext
  BY <1>2, FinalizeLaunches DEF Abstract!DisbursementNext
<1>3. ASSUME NEW p \in People, DeleteDao(p) PROVE Abstract!DisbursementNext
  BY <1>3, DeleteAbandons DEF Abstract!DisbursementNext
<1>4. ASSUME NEW call \in Call, NEW prop \in Proposals, ImplementProposal(call, prop),
             Closes(prop)
      PROVE  Abstract!DisbursementNext
  BY <1>4, ImplementCarriesOut DEF Abstract!DisbursementNext
<1>5. ASSUME NEW amount \in 1 .. MaxFunds, FundDao(amount) PROVE Abstract!DisbursementNext
  BY <1>5, FundDeposits DEF Abstract!DisbursementNext
<1>6. ASSUME \/ \E call \in Call, id \in CommitteeIds : AddCommittee(call, id)
             \/ \E call \in Call, rule \in RuleInputs : AddRule(call, rule)
             \/ \E p \in People : ClearDao(p)
             \/ \E prop \in Proposals : GrantTrust(prop)
             \/ UNCHANGED ownVars
      PROVE  Abstract!Qualify \/ UNCHANGED Abstract!disbursementVars
  <2>1. UNCHANGED <<deleted, finalized, treasury, received>>
    BY <1>6 DEF AddCommittee, AddRule, ClearDao, GrantTrust, ownVars
  <2>2. trusted \subseteq trusted' /\ (finalized => UNCHANGED rules)
    BY <1>6 DEF AddCommittee, AddRule, SetupPhaseApproved, ClearDao, GrantTrust, ownVars
  <2> QED
    BY <1>1, <2>1, <2>2, EligibleGrows
<1>7. Abstract!Qualify => Abstract!DisbursementNext
  BY DEF Abstract!DisbursementNext
<1> QED
  BY <1>2, <1>3, <1>4, <1>5, <1>6, <1>7, DaoCases, Zenon DEF Writes

(***************************************************************************)
(* The DAO implements Disbursement: nothing is paid during the setup, and  *)
(* what is paid is the whole grant of a proposal that is eligible by then. *)
(***************************************************************************)
THEOREM DaoImplements == DaoSpec => ImplementsDisbursement
  BY DisbursementInitially, DaoStepDisburses, DaoInvariant, PTL
  DEF DaoSpec, ImplementsDisbursement, Abstract!DisbursementSpec
=============================================================================
