-------------------------- MODULE GovernanceProofs --------------------------
(***************************************************************************)
(* Proofs about Governance: with the gate in the place of what AlgoDao     *)
(* takes as given, every behaviour is one of AlgoDao, for any committee,   *)
(* applications, rules and supply of trust.                                *)
(*                                                                         *)
(* And about EndToEnd: the script, with everything that others do while it *)
(* runs, is one of Governance, for any length of the voting, any lag and   *)
(* any accounts around it; what each of its calls needs is there when it   *)
(* is made, and after its vote the payment cannot be stopped.              *)
(***************************************************************************)
EXTENDS EndToEnd, GateProofs, AsaProofs

LEMMA GovernanceInvInit == GovernanceInit => GateInv
  BY GateInvInit DEF GovernanceInit

\* The gate has no other reason to be trusted than to be an application.
LEMMA TrustedAreEntrusted ==
    /\ Trusted = Entrusted \cap Apps
    /\ Trusted' = Entrusted' \cap Apps
  BY DEF Trusted, Entrusted, Holders, Receivers

\* What the gate does is nothing to the DAO, or one more trusted proposal.
LEMMA GateGrantsTrust ==
    ASSUME GateInv, GateCall
    PROVE  \/ Trusted' = Trusted
           \/ \E app \in Apps : app \notin Trusted /\ Trusted' = Trusted \cup {app}
<1>1. CASE InitTrustToken
  <2>1. Trusted' = {}
    BY <1>1, GateAssumption
       DEF InitTrustToken, Trusted, Holders, IsMember, TrustAccounts, Receivers, NewAsset,
           NoHolding
  <2>2. Trusted = {}
    BY <1>1, InitTrustInv, TrustedAreEntrusted
  <2> QED
    BY <2>1, <2>2
<1>2. ASSUME Entrusted' = Entrusted PROVE Trusted' = Trusted
  BY <1>2, TrustedAreEntrusted
<1>3. ASSUME NEW a \in Receivers, OptInTrust(a)
      PROVE  Trusted' = Trusted
  BY <1>2, <1>3, OptInTrustInv
<1>4. ASSUME NEW p \in People, OptInGate(p) \/ LeaveGate(p)
      PROVE  Trusted' = Trusted
  BY <1>2, <1>4, TrustStutter DEF OptInGate, LeaveGate
<1>5. ASSUME NEW m \in People, NEW app \in AppIds, NEW addr \in TrustAccounts,
             AssessProposal(m, app, addr)
      PROVE  Trusted' = Trusted
  BY <1>2, <1>5, TrustStutter DEF AssessProposal
<1>6. ASSUME NEW m \in People, NEW app \in AppIds, NEW vote \in BOOLEAN,
             GateVote(m, app, vote)
      PROVE  \/ Trusted' = Trusted
             \/ /\ consideredAddr \in Apps \ Trusted
                /\ Trusted' = Trusted \cup {consideredAddr}
  <2>1. UNCHANGED initialized /\ consideredAddr \in TrustAccounts
    BY <1>6 DEF GateVote, GateInv
  <2>2. (CanEntrust(consideredAddr) /\ trust' = Entrust(consideredAddr)) \/ UNCHANGED trust
    BY <1>6, Zenon DEF GateVote
  <2>3. CASE CanEntrust(consideredAddr) /\ trust' = Entrust(consideredAddr)
    <3>1. Entrusted' = (Entrusted \cup {consideredAddr}) \ {GateAddr}
      BY <2>1, <2>3, EntrustInv
    <3>2. GateAddr \notin Apps
      BY GateAssumption
    <3> QED
      BY <3>1, <3>2, TrustedAreEntrusted
  <2>4. CASE UNCHANGED trust
    BY <1>2, <2>1, <2>4, TrustStutter
  <2> QED
    BY <2>2, <2>3, <2>4
<1> QED
  BY <1>1, <1>3, <1>4, <1>5, <1>6, Zenon DEF GateCall

LEMMA GateInvKept == GateInv /\ [GovernanceNext]_governanceVars => GateInv'
<1> SUFFICES ASSUME GateInv, [GovernanceNext]_governanceVars PROVE GateInv'
  OBVIOUS
<1>1. CASE RoundPasses
  <2>1. GateTick \/ UNCHANGED gateVars
    BY <1>1 DEF RoundPasses, GateTick, gateVars
  <2> QED
    BY <2>1, GateCallInv, GateInvStutter
<1>2. CASE GateSide
  <2>1. GateCall \/ UNCHANGED gateVars
    BY <1>2 DEF GateSide
  <2> QED
    BY <2>1, GateCallInv, GateInvStutter
<1>3. CASE DaoSide \/ UNCHANGED governanceVars
  <2>1. UNCHANGED gateVars
    BY <1>3 DEF DaoSide, governanceVars, gateAllVars
  <2> QED
    BY <2>1, GateInvStutter
<1> QED
  BY <1>1, <1>2, <1>3 DEF GovernanceNext

LEMMA GovernanceStepsDao ==
    ASSUME GateInv, [GovernanceNext]_governanceVars
    PROVE  [Dao!DaoNext]_(Dao!daoVars)
<1>1. CASE RoundPasses
  <2>1. Trusted' = Trusted
    BY <1>1 DEF RoundPasses, Trusted, Holders, IsMember
  <2> QED
    BY <1>1, <2>1 DEF RoundPasses, daoOwnVars, Dao!DaoNext, Dao!ownVars
<1>2. CASE GateSide
  <2>1. UNCHANGED daoStateVars
    BY <1>2 DEF GateSide
  <2>2. UNCHANGED gateVars => Trusted' = Trusted
    BY GateInvStutter, TrustedAreEntrusted
  <2>3. GateCall \/ UNCHANGED gateVars
    BY <1>2 DEF GateSide
  <2>4. CASE Trusted' = Trusted
    BY <2>1, <2>4 DEF daoStateVars, daoOwnVars, Dao!daoVars, Dao!voteVars, Dao!ownVars
  <2>5. CASE \E app \in Apps : app \notin Trusted /\ Trusted' = Trusted \cup {app}
    BY <2>1, <2>5 DEF daoStateVars, daoOwnVars, Dao!DaoNext, Dao!GrantTrust, Dao!voteVars
  <2> QED
    BY <2>2, <2>3, <2>4, <2>5, GateGrantsTrust
<1>3. CASE DaoSide
  <2>1. UNCHANGED gateVars
    BY <1>3 DEF DaoSide, gateAllVars
  <2>2. Trusted' = Trusted
    BY <2>1, GateInvStutter, TrustedAreEntrusted
  <2> QED
    BY <1>3, <2>2 DEF DaoSide, daoOwnVars, Dao!DaoNext, Dao!ownVars
<1>4. CASE UNCHANGED governanceVars
  <2>1. Trusted' = Trusted
    BY <1>4, GateInvStutter, TrustedAreEntrusted DEF governanceVars, gateAllVars
  <2> QED
    BY <1>4, <2>1 DEF governanceVars, daoStateVars, daoOwnVars, Dao!daoVars, Dao!voteVars,
                      Dao!ownVars
<1> QED
  BY <1>1, <1>2, <1>3, <1>4 DEF GovernanceNext

(***************************************************************************)
(* AlgoDao takes the trusted proposals as given, one more at a time and    *)
(* never one less: the gate, whatever its committee does, gives it that.   *)
(***************************************************************************)
THEOREM GateServesDao == GovernanceSpec => ImplementsDao
<1>1. GovernanceInit => Dao!ProposalInit /\ Dao!DaoInit
  <2> SUFFICES ASSUME GovernanceInit PROVE Dao!ProposalInit /\ Dao!DaoInit
    OBVIOUS
  <2>1. Trusted = {}
    BY GovernanceInvInit, TrustedAreEntrusted DEF GovernanceInit, GateInit, GateInv, TrustReserve
  <2> QED
    BY <2>1 DEF GovernanceInit, Dao!DaoInit
<1> QED
  BY <1>1, GovernanceInvInit, GateInvKept, GovernanceStepsDao, PTL
     DEF GovernanceSpec, ImplementsDao, Dao!DaoSpec

(***************************************************************************)
(* The committee is asked for its members and its size, and nothing in the *)
(* gate, the proposals or the DAO moves it: what is proved of it alone     *)
(* holds of it here.                                                       *)
(***************************************************************************)
THEOREM GovernanceKeepsCommittee == GovernanceSpec => CommitteeSpec
<1>1. [GovernanceNext]_governanceVars => [CommitteeNext]_committeeVars
  BY DEF GovernanceNext, RoundPasses, GateSide, DaoSide, governanceVars, gateAllVars, committeeVars
<1> QED
  BY <1>1, PTL DEF GovernanceSpec, GovernanceInit, CommitteeSpec

(***************************************************************************)
(* The gate and its committee make the steps they make alone: the rounds   *)
(* the proposals count are its rounds, and no call of another contract     *)
(* touches its state.                                                      *)
(***************************************************************************)
LEMMA GovernanceKeepsGate == GovernanceSpec => GateSafety
<1>1. ASSUME RoundPasses PROVE [GateNext]_gateAllVars
  <2>1. UNCHANGED committeeVars
    BY <1>1 DEF RoundPasses
  <2>2. CASE elapsed <= MinRounds
    BY <1>1, <2>1, <2>2 DEF RoundPasses, GateTick, GateNext
  <2>3. CASE ~(elapsed <= MinRounds)
    BY <1>1, <2>1, <2>3 DEF RoundPasses, gateAllVars, gateVars
  <2> QED
    BY <2>2, <2>3
<1>2. [GovernanceNext]_governanceVars => [GateNext]_gateAllVars
  BY <1>1 DEF GovernanceNext, GateSide, DaoSide, GateNext, governanceVars
<1> QED
  BY <1>2, PTL DEF GovernanceSpec, GovernanceInit, GateSafety

(***************************************************************************)
(* What is proved of the gate holds of it among the other contracts: votes *)
(* of yes are in their tally, and all ballots where no member puts up the  *)
(* id 0; no trust is lost or taken back, a vote that has ended is settled, *)
(* and a member's vote counts once.                                        *)
(***************************************************************************)
THEOREM GovernanceGateHolds ==
    GovernanceSpec => /\ []YesVotesCovered /\ BallotsCovered /\ []TrustAccounting
                      /\ TrustPermanent /\ SettledVote /\ CountsEachOnce
  BY GovernanceKeepsGate, YesVotesAreCovered, BallotsAreCovered, TrustIsConserved,
     TrustNeverTakenBack, EndedVoteSettled, VotesCountOnce
-----------------------------------------------------------------------------
(***************************************************************************)
(* What is proved of AlgoDao, where the trusted proposals are those of the *)
(* gate.                                                                   *)
(***************************************************************************)
DaoFacts == INSTANCE DaoProofs WITH
    Proposals <- Apps,
    voter     <- ballots,
    trusted   <- Trusted

\* The definitions of AlgoDao are the same in both instances.
LEMMA SameRegistrations ==
    ASSUME NEW p \in People, NEW app \in Apps
    PROVE  /\ Dao!Register(p, app) => DaoFacts!Register(p, app)
           /\ Dao!CloseOut(p, app) => DaoFacts!CloseOut(p, app)
  BY DEF Dao!Register, DaoFacts!Register, Dao!CloseOut, DaoFacts!CloseOut, Dao!Within,
         DaoFacts!Within, Dao!NotRegistered, DaoFacts!NotRegistered, Dao!NoVotes,
         DaoFacts!NoVotes

LEMMA SameVotes ==
    /\ Dao!VoteCall => DaoFacts!VoteCall
    /\ Dao!VoteTick => DaoFacts!VoteTick
<1>1. Dao!VoteTick => DaoFacts!VoteTick
  BY DEF Dao!VoteTick, DaoFacts!VoteTick
<1> USE DEF Dao!YesKey, DaoFacts!YesKey, Dao!NoKey, DaoFacts!NoKey, Dao!Yes, DaoFacts!Yes,
         Dao!No, DaoFacts!No,
         Dao!Within, DaoFacts!Within, Dao!VoteAccounts, DaoFacts!VoteAccounts,
         Dao!Transfer, DaoFacts!Transfer, Dao!CanTransfer, DaoFacts!CanTransfer,
         Dao!Movable, DaoFacts!Movable
<1>3. ASSUME NEW p \in People, NEW app \in Apps, NEW asset \in Assets
      PROVE  /\ Dao!OptInVoteToken(p, app, asset) => DaoFacts!OptInVoteToken(p, app, asset)
             /\ Dao!SetVoteToken(p, app, asset) => DaoFacts!SetVoteToken(p, app, asset)
  BY DEF Dao!OptInVoteToken, DaoFacts!OptInVoteToken, Dao!SetVoteToken,
         DaoFacts!SetVoteToken
<1>4. ASSUME NEW xfer
      PROVE  Dao!MoveElection(xfer) => DaoFacts!MoveElection(xfer)
  BY DEF Dao!MoveElection, DaoFacts!MoveElection, Dao!CanMove, DaoFacts!CanMove,
         Dao!Move, DaoFacts!Move
<1>5. ASSUME NEW p \in People, NEW app \in Apps, NEW arg, NEW xfer
      PROVE  Dao!CastVote(p, app, arg, xfer) => DaoFacts!CastVote(p, app, arg, xfer)
  BY DEF Dao!CastVote, DaoFacts!CastVote, Dao!CanMove, DaoFacts!CanMove, Dao!Move,
         DaoFacts!Move, Dao!NewTally, DaoFacts!NewTally, Dao!IsDeposit,
         DaoFacts!IsDeposit, Dao!Recorded, DaoFacts!Recorded, Dao!HasRoom, DaoFacts!HasRoom,
         Dao!Cardinality, DaoFacts!Cardinality
<1>6. ASSUME NEW app \in Apps
      PROVE  Dao!FinalizeVote(app) => DaoFacts!FinalizeVote(app)
  BY DEF Dao!FinalizeVote, DaoFacts!FinalizeVote, Dao!VoteOver, DaoFacts!VoteOver,
         Dao!MinVotesNeeded, DaoFacts!MinVotesNeeded
<1>7. Dao!ElecTransfers = DaoFacts!ElecTransfers /\ Dao!Issues = DaoFacts!Issues
  BY DEF Dao!ElecTransfers, DaoFacts!ElecTransfers, Dao!Issues, DaoFacts!Issues
<1> QED
  BY <1>1, <1>3, <1>4, <1>5, <1>6, <1>7, SameRegistrations, Zenon
     DEF Dao!VoteCall, DaoFacts!VoteCall

LEMMA SameSteps == Dao!DaoNext => DaoFacts!DaoNext
<1> USE DEF Dao!voteVars, DaoFacts!voteVars, Dao!ownVars, DaoFacts!ownVars
<1>0. Dao!Call = DaoFacts!Call
  BY DEF Dao!Call, DaoFacts!Call
<1>1. ASSUME NEW call, NEW p, NEW id, NEW rule
      PROVE  /\ Dao!AddCommittee(call, id) => DaoFacts!AddCommittee(call, id)
             /\ Dao!AddRule(call, rule) => DaoFacts!AddRule(call, rule)
             /\ Dao!Finalize(call) => DaoFacts!Finalize(call)
             /\ Dao!DeleteDao(p) => DaoFacts!DeleteDao(p)
             /\ Dao!ClearDao(p) => DaoFacts!ClearDao(p)
  BY DEF Dao!AddCommittee, DaoFacts!AddCommittee, Dao!AddRule, DaoFacts!AddRule,
         Dao!Finalize, DaoFacts!Finalize, Dao!DeleteDao, DaoFacts!DeleteDao,
         Dao!ClearDao, DaoFacts!ClearDao, Dao!Completed, DaoFacts!Completed,
         Dao!SetupPhaseApproved, DaoFacts!SetupPhaseApproved
<1>2. ASSUME NEW call, NEW app \in Apps
      PROVE  Dao!ImplementProposal(call, app) => DaoFacts!ImplementProposal(call, app)
  BY DEF Dao!ImplementProposal, DaoFacts!ImplementProposal, Dao!MeetsCriteria,
         DaoFacts!MeetsCriteria, Dao!FindsRule, DaoFacts!FindsRule, Dao!CanPay,
         DaoFacts!CanPay, Dao!Pay, DaoFacts!Pay, Dao!Pays, DaoFacts!Pays,
         Dao!Completed, DaoFacts!Completed
<1>6. ASSUME NEW app, NEW here
      PROVE  Dao!SetImplemented(app, here) => DaoFacts!SetImplemented(app, here)
  BY DEF Dao!SetImplemented, DaoFacts!SetImplemented
<1>7. ASSUME NEW second \in Dao!Call, NEW app \in Apps
      PROVE  Dao!SecondHalf(second, app) => DaoFacts!SecondHalf(second, app)
  BY <1>6, SameRegistrations DEF Dao!SecondHalf, DaoFacts!SecondHalf, Dao!Call
<1>8. ASSUME NEW first \in Dao!Call, NEW second \in Dao!Call, NEW app \in Apps
      PROVE  Dao!ImplementGroup(first, second, app) => DaoFacts!ImplementGroup(first, second, app)
  <2>1. Dao!FirstHalf(first, app) => DaoFacts!FirstHalf(first, app)
    BY <1>1, <1>2, Zenon DEF Dao!FirstHalf, DaoFacts!FirstHalf
  <2> QED
    BY <1>7, <2>1, Zenon DEF Dao!ImplementGroup, DaoFacts!ImplementGroup
<1>3. ASSUME NEW app \in Apps
      PROVE  Dao!GrantTrust(app) => DaoFacts!GrantTrust(app)
  BY DEF Dao!GrantTrust, DaoFacts!GrantTrust
<1>4. ASSUME NEW amount
      PROVE  Dao!FundDao(amount) => DaoFacts!FundDao(amount)
  BY DEF Dao!FundDao, DaoFacts!FundDao, Dao!SumFunctionOnSet, DaoFacts!SumFunctionOnSet,
         Dao!FoldFunctionOnSet, DaoFacts!FoldFunctionOnSet, Dao!MapThenFoldSet,
         DaoFacts!MapThenFoldSet
<1>5. Dao!DaoStep => DaoFacts!DaoStep
  BY <1>0, <1>1, <1>8, Zenon DEF Dao!DaoStep, DaoFacts!DaoStep
<1>9. Dao!ElsewhereImplemented => DaoFacts!ElsewhereImplemented
  BY <1>6, Zenon DEF Dao!ElsewhereImplemented, DaoFacts!ElsewhereImplemented
<1> QED
  BY <1>3, <1>4, <1>5, <1>9, SameVotes, Zenon DEF Dao!DaoNext, DaoFacts!DaoNext

LEMMA SameDao == Dao!DaoSpec => DaoFacts!DaoSpec
<1>1. Dao!ProposalInit /\ Dao!DaoInit => DaoFacts!ProposalInit /\ DaoFacts!DaoInit
  BY DEF Dao!ProposalInit, DaoFacts!ProposalInit, Dao!DaoInit, DaoFacts!DaoInit,
         Dao!VoteAccounts, DaoFacts!VoteAccounts, Dao!NoVotes, DaoFacts!NoVotes,
         Dao!NotRegistered, DaoFacts!NotRegistered,
         Dao!NewAsset, DaoFacts!NewAsset, Dao!NoHolding, DaoFacts!NoHolding
<1>2. [Dao!DaoNext]_(Dao!daoVars) => [DaoFacts!DaoNext]_(DaoFacts!daoVars)
  BY SameSteps DEF Dao!daoVars, DaoFacts!daoVars, Dao!voteVars, DaoFacts!voteVars,
         Dao!ownVars, DaoFacts!ownVars
<1> QED
  BY <1>1, <1>2, PTL DEF Dao!DaoSpec, DaoFacts!DaoSpec

(***************************************************************************)
(* The theorems of DaoProofs, without its assumptions on the constants,    *)
(* which are those of Governance.                                          *)
(***************************************************************************)
LEMMA DaoFactsHold ==
    DaoFacts!DaoSpec => /\ DaoFacts!ImplementsDisbursement
                        /\ DaoFacts!PaymentsBounded
                        /\ DaoFacts!MarksFollowApproval
                        /\ []DaoFacts!ReceiptsJustified
                        /\ [](DaoFacts!NoDoubleVoting /\ DaoFacts!VotesBacked)
                        /\ []DaoFacts!DaoTypes
<1> USE DaoAssumption
    DEF Dao!ProposalAssumption, Dao!AlgoDaoAssumption, Dao!IsFiniteSet, DaoFacts!IsFiniteSet,
        DaoFacts!Rule, DaoFacts!ProposalType, DaoFacts!Payment, DaoFacts!VoteData,
        DaoFacts!VoteType, DaoFacts!OnComplete, DaoFacts!Options, DaoFacts!YesKey,
        DaoFacts!NoKey, DaoFacts!Yes, DaoFacts!No, Dao!Rule, Dao!ProposalType, Dao!Payment,
        Dao!VoteData, Dao!VoteType, Dao!OnComplete, Dao!Options, Dao!YesKey, Dao!NoKey,
        Dao!Yes, Dao!No
<1>1. DaoFacts!DaoSpec => DaoFacts!ImplementsDisbursement
  BY DaoFacts!DaoImplements
<1>2. DaoFacts!DaoSpec => DaoFacts!PaymentsBounded
  BY DaoFacts!PaymentsAreBounded
<1>3. DaoFacts!DaoSpec => DaoFacts!MarksFollowApproval
  BY DaoFacts!MarksAreApproved
<1>4. DaoFacts!DaoSpec => []DaoFacts!ReceiptsJustified
  BY DaoFacts!PaymentsJustified
<1>5. DaoFacts!DaoSpec => [](DaoFacts!NoDoubleVoting /\ DaoFacts!VotesBacked)
  BY DaoFacts!DaoVotesAreBacked
<1>6. DaoFacts!DaoSpec => []DaoFacts!DaoTypes
  BY DaoFacts!DaoKeepsTypes
<1> QED
  BY <1>1, <1>2, <1>3, <1>4, <1>5, <1>6

(***************************************************************************)
(* The whole of the contracts implements the abstract specification of the *)
(* money: nothing before the DAO runs, whole grants of eligible proposals  *)
(* after, and no eligible one is ever made ineligible again.               *)
(***************************************************************************)
THEOREM MoneyDisbursed == GovernanceSpec => DaoFacts!ImplementsDisbursement
  BY DaoFactsHold, SameDao, GateServesDao DEF ImplementsDao

(***************************************************************************)
(* What a payee got, it got for a proposal whose account holds the frozen  *)
(* unit of the gate, which passed and meets the rules of the running DAO:  *)
(* a trusted account holds a unit, and a unit is frozen wherever the gate  *)
(* sent it.                                                                *)
(***************************************************************************)
THEOREM OnlyThroughGate == GovernanceSpec => []PaidThroughGate
<1>1. GateInv /\ DaoFacts!ReceiptsJustified => PaidThroughGate
  <2> SUFFICES ASSUME GateInv, DaoFacts!ReceiptsJustified, NEW q \in Payees, received[q] > 0
               PROVE  /\ initialized /\ finalized
                      /\ \E app \in Apps : /\ Dao!Granted(app).payee = q
                                          /\ trust[app].frozen
                                          /\ Dao!Qualifies(app)
    BY DEF PaidThroughGate
  <2>1. PICK app \in Apps : DaoFacts!Qualifies(app) /\ DaoFacts!Granted(app).payee = q
    BY DEF DaoFacts!ReceiptsJustified
  <2>2. finalized
    BY DEF DaoFacts!ReceiptsJustified
  <2>3. Dao!Qualifies(app)
    BY <2>1
    DEF DaoFacts!Qualifies, Dao!Qualifies, DaoFacts!MeetsCriteria, Dao!MeetsCriteria,
        DaoFacts!FindsRule, Dao!FindsRule
  <2>4. Dao!Granted(app).payee = q
    BY <2>1 DEF DaoFacts!Granted, Dao!Granted, DaoFacts!Pays, Dao!Pays
  <2>5. app \in Entrusted /\ app \in Receivers
    BY <2>3, TrustedAreEntrusted DEF Dao!Qualifies, Receivers
  <2>6. initialized
    BY <2>5 DEF GateInv, TrustReserve
  <2>7. trust[app].amount = 1
    BY <2>5 DEF GateInv, TrustUnits, Entrusted, Holders, IsMember
  <2> QED
    BY <2>2, <2>3, <2>4, <2>5, <2>6, <2>7 DEF GateInv, TrustUnits
<1>2. GovernanceSpec => []GateInv
  BY GovernanceInvInit, GateInvKept, PTL DEF GovernanceSpec
<1> QED
  BY <1>1, <1>2, DaoFactsHold, SameDao, GateServesDao, PTL DEF ImplementsDao

(***************************************************************************)
(* What is proved of the votes of a DAO holds of one that trusts through   *)
(* the gate: no unit votes twice, and a vote is backed by a deposit.       *)
(***************************************************************************)
THEOREM GovernanceVotesOnce ==
    GovernanceSpec => [](DaoFacts!NoDoubleVoting /\ DaoFacts!VotesBacked)
  BY DaoFactsHold, SameDao, GateServesDao DEF ImplementsDao

(***************************************************************************)
(* So does what is proved of the groups that anyone may send: how often a  *)
(* proposal is paid, and who marks one that is not in order.               *)
(***************************************************************************)
THEOREM GovernanceBoundsGroups ==
    GovernanceSpec => DaoFacts!PaymentsBounded /\ DaoFacts!MarksFollowApproval
  BY DaoFactsHold, SameDao, GateServesDao DEF ImplementsDao
-----------------------------------------------------------------------------

(***************************************************************************)
(* The calls of the script are numbered in its order.                      *)
(***************************************************************************)
LEMMA CallNumbers ==
    /\ DOMAIN Calls = 1 .. 28 /\ Len(Calls) = 28
    /\ Number("inittoken_committee") = 1 /\ Number("optin_committee") = 2
    /\ Number("setmembers") = 3 /\ Number("createasset") = 4 /\ Number("deploy_gate") = 5
    /\ Number("optin_gate") = 6 /\ Number("inittoken_gate") = 7 /\ Number("addrule") = 8
    /\ Number("fund_dao") = 9 /\ Number("finalize") = 10 /\ Number("status") = 11
    /\ Number("deploy_tree") = 12 /\ Number("fund_tree") = 13 /\ Number("inittoken_tree") = 14
    /\ Number("optin_election") = 15 /\ Number("claim") = 16 /\ Number("fund_receiver") = 17
    /\ Number("deploy_proposal") = 18 /\ Number("fund_proposal") = 19
    /\ Number("optintoken_trust") = 20 /\ Number("optintoken_election") = 21
    /\ Number("assess") = 22 /\ Number("gate_vote") = 23 /\ Number("register") = 24
    /\ Number("vote") = 25 /\ Number("wait") = 26 /\ Number("finalizevote") = 27
    /\ Number("implement") = 28
<1>1. DOMAIN Calls = 1 .. 28 /\ Len(Calls) = 28
  BY DEF Calls
<1>2. /\ Calls[1] = "inittoken_committee" /\ Calls[2] = "optin_committee"
      /\ Calls[3] = "setmembers" /\ Calls[4] = "createasset" /\ Calls[5] = "deploy_gate"
      /\ Calls[6] = "optin_gate" /\ Calls[7] = "inittoken_gate" /\ Calls[8] = "addrule"
      /\ Calls[9] = "fund_dao" /\ Calls[10] = "finalize" /\ Calls[11] = "status"
      /\ Calls[12] = "deploy_tree" /\ Calls[13] = "fund_tree" /\ Calls[14] = "inittoken_tree"
      /\ Calls[15] = "optin_election" /\ Calls[16] = "claim" /\ Calls[17] = "fund_receiver"
      /\ Calls[18] = "deploy_proposal" /\ Calls[19] = "fund_proposal"
      /\ Calls[20] = "optintoken_trust" /\ Calls[21] = "optintoken_election"
      /\ Calls[22] = "assess" /\ Calls[23] = "gate_vote" /\ Calls[24] = "register"
      /\ Calls[25] = "vote" /\ Calls[26] = "wait" /\ Calls[27] = "finalizevote"
      /\ Calls[28] = "implement"
  BY DEF Calls
<1>3. ASSUME NEW i \in 1 .. 28, NEW j \in 1 .. 28, Calls[j] = Calls[i] PROVE j = i
  <2>1. j = 1 \/ j = 2 \/ j = 3 \/ j = 4 \/ j = 5 \/ j = 6 \/ j = 7 \/ j = 8 \/ j = 9
         \/ j = 10 \/ j = 11 \/ j = 12 \/ j = 13 \/ j = 14 \/ j = 15 \/ j = 16 \/ j = 17
         \/ j = 18 \/ j = 19 \/ j = 20 \/ j = 21 \/ j = 22 \/ j = 23 \/ j = 24 \/ j = 25
         \/ j = 26 \/ j = 27 \/ j = 28
    OBVIOUS
  <2>2. i = 1 \/ i = 2 \/ i = 3 \/ i = 4 \/ i = 5 \/ i = 6 \/ i = 7 \/ i = 8 \/ i = 9
         \/ i = 10 \/ i = 11 \/ i = 12 \/ i = 13 \/ i = 14 \/ i = 15 \/ i = 16 \/ i = 17
         \/ i = 18 \/ i = 19 \/ i = 20 \/ i = 21 \/ i = 22 \/ i = 23 \/ i = 24 \/ i = 25
         \/ i = 26 \/ i = 27 \/ i = 28
    OBVIOUS
  <2> QED
    BY <1>2, <1>3, <2>1, <2>2
<1>4. ASSUME NEW i \in 1 .. 28 PROVE Number(Calls[i]) = i
  BY <1>1, <1>3 DEF Number
<1>5. /\ Number(Calls[1]) = 1 /\ Number(Calls[2]) = 2 /\ Number(Calls[3]) = 3
      /\ Number(Calls[4]) = 4 /\ Number(Calls[5]) = 5 /\ Number(Calls[6]) = 6
      /\ Number(Calls[7]) = 7 /\ Number(Calls[8]) = 8 /\ Number(Calls[9]) = 9
      /\ Number(Calls[10]) = 10 /\ Number(Calls[11]) = 11 /\ Number(Calls[12]) = 12
      /\ Number(Calls[13]) = 13 /\ Number(Calls[14]) = 14 /\ Number(Calls[15]) = 15
      /\ Number(Calls[16]) = 16 /\ Number(Calls[17]) = 17 /\ Number(Calls[18]) = 18
      /\ Number(Calls[19]) = 19 /\ Number(Calls[20]) = 20 /\ Number(Calls[21]) = 21
      /\ Number(Calls[22]) = 22 /\ Number(Calls[23]) = 23 /\ Number(Calls[24]) = 24
      /\ Number(Calls[25]) = 25 /\ Number(Calls[26]) = 26 /\ Number(Calls[27]) = 27
      /\ Number(Calls[28]) = 28
  BY <1>4
<1> QED
  BY <1>1, <1>2, <1>5, SMTT(60)

\* What makes lists those of the first so many addresses that are in a set.
AreListed(accounts, list) ==
    list = [i \in 0 .. Len(Addresses) |->
               IF i = 0 THEN <<>>
               ELSE IF Addresses[i] \in accounts THEN Append(list[i - 1], Addresses[i])
               ELSE list[i - 1]]

LEMMA ListsExist ==
    ASSUME NEW accounts
    PROVE  \E list : AreListed(accounts, list) /\ Listed(accounts) = list[Len(Addresses)]
<1> DEFINE part(g, i) == IF i = 0 THEN <<>>
                         ELSE IF Addresses[i] \in accounts THEN Append(g[i - 1], Addresses[i])
                         ELSE g[i - 1]
           upTo(g, n) == g = [i \in 0 .. n |-> part(g, i)]
           good == {n \in Nat : \E g : upTo(g, n)}
<1>1. 0 \in good
  <2> DEFINE g == [i \in 0 .. 0 |-> <<>>]
  <2>1. upTo(g, 0)
    OBVIOUS
  <2> QED
    BY <2>1
<1>2. ASSUME NEW n \in Nat, n \in good PROVE n + 1 \in good
  <2>1. PICK g : upTo(g, n)
    BY <1>2
  <2> DEFINE h == [i \in 0 .. n + 1 |-> IF i = n + 1 THEN part(g, n + 1) ELSE g[i]]
  <2>2. upTo(h, n + 1)
    <3> SUFFICES ASSUME NEW i \in 0 .. n + 1 PROVE h[i] = part(h, i)
      OBVIOUS
    <3>1. \A j \in 0 .. n : h[j] = g[j]
      OBVIOUS
    <3>2. i # 0 => i - 1 \in 0 .. n
      OBVIOUS
    <3>3. part(h, i) = part(g, i)
      BY <3>1, <3>2
    <3>4. h[i] = part(g, i)
      <4>1. CASE i = n + 1
        BY <4>1
      <4>2. CASE i # n + 1
        <5>1. i \in 0 .. n
          BY <4>2
        <5>2. g[i] = part(g, i)
          <6> HIDE DEF part
          <6> QED
            BY <2>1, <5>1
        <5> QED
          BY <3>1, <5>1, <5>2
      <4> QED
        BY <4>1, <4>2
    <3> QED
      BY <3>3, <3>4
  <2> HIDE DEF upTo, h
  <2> QED
    BY <2>2
<1>3. Len(Addresses) \in good
  <2>1. Len(Addresses) \in Nat
    BY EndToEndAssumption
  <2> HIDE DEF good
  <2> QED
    BY <1>1, <1>2, <2>1, NatSetInduction
<1>4. \E list : AreListed(accounts, list)
  BY <1>3 DEF AreListed
<1> DEFINE list == CHOOSE list : AreListed(accounts, list)
<1>5. Listed(accounts) = list[Len(Addresses)]
  BY Zenon DEF Listed, AreListed
<1> QED
  BY <1>4, <1>5

(***************************************************************************)
(* The accounts listed are those of the set that the indexer has.          *)
(***************************************************************************)
LEMMA ListedAreThose ==
    ASSUME NEW accounts
    PROVE  /\ Listed(accounts) \in Seq(GovAccounts)
           /\ \A i \in DOMAIN Listed(accounts) : Listed(accounts)[i] \in accounts
           /\ \A a \in accounts \cap GovAccounts :
                  \E i \in DOMAIN Listed(accounts) : Listed(accounts)[i] = a
<1>1. PICK list : AreListed(accounts, list) /\ Listed(accounts) = list[Len(Addresses)]
  BY ListsExist
<1> DEFINE those(n) == /\ list[n] \in Seq(GovAccounts)
                       /\ \A i \in DOMAIN list[n] : list[n][i] \in accounts
                       /\ \A j \in 1 .. n : Addresses[j] \in accounts =>
                              \E i \in DOMAIN list[n] : list[n][i] = Addresses[j]
           good == {n \in Nat : n <= Len(Addresses) => those(n)}
<1>2. /\ Len(Addresses) \in Nat /\ DOMAIN Addresses = 1 .. Len(Addresses)
      /\ \A j \in 1 .. Len(Addresses) : Addresses[j] \in GovAccounts
  BY EndToEndAssumption
<1>3. 0 \in good
  <2>1. list[0] = <<>>
    BY <1>1, <1>2 DEF AreListed
  <2>2. <<>> \in Seq(GovAccounts) /\ DOMAIN <<>> = {}
    OBVIOUS
  <2>3. those(0)
    BY <2>1, <2>2
  <2> HIDE DEF those
  <2> QED
    BY <2>3
<1>4. ASSUME NEW n \in Nat, n \in good PROVE n + 1 \in good
  <2> SUFFICES ASSUME n + 1 <= Len(Addresses) PROVE those(n + 1)
    OBVIOUS
  <2>1. those(n)
    BY <1>2, <1>4
  <2>2. /\ n + 1 \in 1 .. Len(Addresses) /\ n + 1 \in 0 .. Len(Addresses)
        /\ n + 1 # 0 /\ (n + 1) - 1 = n
    BY <1>2
  <2>3. list[n + 1] = IF Addresses[n + 1] \in accounts THEN Append(list[n], Addresses[n + 1])
                      ELSE list[n]
    BY <1>1, <2>2 DEF AreListed
  <2>4. PICK a : a = Addresses[n + 1]
    OBVIOUS
  <2>5. a \in GovAccounts
    BY <1>2, <2>2, <2>4
  <2>6. PICK old \in Seq(GovAccounts) : old = list[n]
    BY <2>1
  <2>7. CASE a \in accounts
    <3>1. list[n + 1] = Append(old, a)
      BY <2>3, <2>4, <2>6, <2>7
    <3>2. /\ Append(old, a) \in Seq(GovAccounts)
          /\ DOMAIN Append(old, a) = 1 .. Len(old) + 1 /\ DOMAIN old = 1 .. Len(old)
          /\ Len(old) \in Nat
          /\ Append(old, a)[Len(old) + 1] = a
          /\ \A i \in DOMAIN old : Append(old, a)[i] = old[i]
      BY <2>5
    <3>3. \A i \in DOMAIN list[n + 1] : list[n + 1][i] \in accounts
      BY <2>1, <2>6, <2>7, <3>1, <3>2
    <3>4. ASSUME NEW j \in 1 .. n + 1, Addresses[j] \in accounts
          PROVE  \E i \in DOMAIN list[n + 1] : list[n + 1][i] = Addresses[j]
      <4>1. CASE j = n + 1
        BY <2>4, <3>1, <3>2, <4>1
      <4>2. CASE j # n + 1
        <5>1. j \in 1 .. n
          BY <4>2
        <5>2. PICK i \in DOMAIN old : old[i] = Addresses[j]
          BY <2>1, <2>6, <3>4, <5>1
        <5> QED
          BY <3>1, <3>2, <5>2
      <4> QED
        BY <4>1, <4>2
    <3> QED
      BY <3>1, <3>2, <3>3, <3>4
  <2>8. CASE a \notin accounts
    <3>1. list[n + 1] = old
      BY <2>3, <2>4, <2>6, <2>8
    <3>2. ASSUME NEW j \in 1 .. n + 1, Addresses[j] \in accounts
          PROVE  \E i \in DOMAIN list[n + 1] : list[n + 1][i] = Addresses[j]
      <4>1. j # n + 1
        BY <2>4, <2>8, <3>2
      <4>2. j \in 1 .. n
        BY <4>1
      <4> QED
        BY <2>1, <2>6, <3>1, <3>2, <4>2
    <3> QED
      BY <2>1, <2>6, <3>1, <3>2
  <2> QED
    BY <2>7, <2>8
<1>5. \A n \in Nat : n \in good
  <2> HIDE DEF good
  <2> QED
    BY <1>3, <1>4, NatSetInduction
<1>6. those(Len(Addresses))
  BY <1>2, <1>5
<1>7. \A a \in accounts \cap GovAccounts : \E j \in 1 .. Len(Addresses) : Addresses[j] = a
  BY <1>2 DEF GovAccounts
<1> QED
  BY <1>1, <1>6, <1>7

(***************************************************************************)
(* In a distribution the client has every vote there is, and the others    *)
(* none.                                                                   *)
(***************************************************************************)
LEMMA DistributionShape ==
    ASSUME NEW d \in Distributions
    PROVE  /\ \A i \in DOMAIN d : d[i][2] = IF d[i][1] = Creator THEN Supply ELSE 0
           /\ \E i \in DOMAIN d : d[i][1] = Creator
<1>1. PICK others \in SUBSET GovAccounts :
          d = LET holders == Listed({Creator} \cup others)
              IN [i \in DOMAIN holders |->
                     <<holders[i], IF holders[i] = Creator THEN Supply ELSE 0>>]
  BY DEF Distributions
<1> DEFINE holders == Listed({Creator} \cup others)
<1>2. d = [i \in DOMAIN holders |-> <<holders[i], IF holders[i] = Creator THEN Supply ELSE 0>>]
  BY <1>1
<1>3. \E i \in DOMAIN holders : holders[i] = Creator
  BY ListedAreThose, EndToEndAssumption, CommitteeAssumption
<1> HIDE DEF holders
<1> QED
  BY <1>2, <1>3

(***************************************************************************)
(* What the governance token looks like from "createasset" on: the client  *)
(* has all of it.                                                          *)
(***************************************************************************)
GovInv ==
    /\ gov \in [GovAccounts -> Holding]
    /\ \A a \in GovAccounts : a # Creator => gov[a].amount = 0
    /\ Done("createasset") => gov[Creator].optedin /\ gov[Creator].amount = Supply

LEMMA CountsAreDistribution ==
    ASSUME GovInv, Done("createasset")
    PROVE  TokenCounts \in Distributions
<1> DEFINE others == {a \in GovAccounts : gov[a].optedin}
           holders == Listed(others)
<1>1. {Creator} \cup others = others
  BY EndToEndAssumption, CommitteeAssumption DEF GovInv
<1>2. TokenCounts = [i \in DOMAIN holders |-> <<holders[i], gov[holders[i]].amount>>]
  BY DEF TokenCounts
<1>3. \A i \in DOMAIN holders : holders[i] \in GovAccounts
  BY ListedAreThose
<1>4. \A i \in DOMAIN holders :
          gov[holders[i]].amount = IF holders[i] = Creator THEN Supply ELSE 0
  BY <1>3 DEF GovInv
<1>5. TokenCounts =
          [i \in DOMAIN holders |-> <<holders[i], IF holders[i] = Creator THEN Supply ELSE 0>>]
  <2> HIDE DEF holders
  <2> QED
    BY <1>2, <1>4
<1>6. TokenCounts =
          LET listed == Listed({Creator} \cup others)
          IN [i \in DOMAIN listed |-> <<listed[i], IF listed[i] = Creator THEN Supply ELSE 0>>]
  <2> HIDE DEF others
  <2> QED
    BY <1>1, <1>5, Zenon
<1>7. others \in SUBSET GovAccounts
  OBVIOUS
<1> HIDE DEF others
<1> QED
  BY <1>6, <1>7 DEF Distributions

(***************************************************************************)
(* The tree is that of the distribution, and the election token is as it   *)
(* was created until the client has its contract create it.                *)
(***************************************************************************)
TreeInv ==
    /\ distribution \in Distributions \cup {<<>>}
    /\ Done("status") => distribution \in Distributions
    /\ snapshot \in {<<>>, distribution}
    /\ snapshot # <<>> => Done("deploy_tree")
    /\ electionAsset = IF Done("inittoken_tree") THEN 1 ELSE 0
    /\ ~Done("inittoken_tree") =>
           elec = [asset \in Assets |-> NewAsset(Dao!VoteAccounts, Issuer, Supply)]
    /\ claimed \in [{1} -> [People -> 0 .. Supply]]

ScriptInv ==
    /\ pc \in 1 .. Len(Calls) + 1
    /\ lag \in 0 .. MaxLag
    /\ committeeAsset \in 0 .. assetId
    /\ GovInv
    /\ TreeInv

LEMMA ScriptInvInit == EndToEndInit => ScriptInv
<1> SUFFICES ASSUME EndToEndInit PROVE ScriptInv
  OBVIOUS
<1>1. pc = 1 /\ ~Done("createasset") /\ ~Done("status") /\ ~Done("inittoken_tree")
  BY CallNumbers DEF EndToEndInit, Done
<1>2. GovInv
  BY <1>1 DEF EndToEndInit, GovInv, NoHolding, Holding
<1>3. Supply \in Nat
  BY DaoAssumption DEF Dao!ProposalAssumption
<1>4. elec = [asset \in Assets |-> NewAsset(Dao!VoteAccounts, Issuer, Supply)]
  BY DEF EndToEndInit, GovernanceInit, Dao!ProposalInit, Dao!NewAsset, NewAsset,
         Dao!NoHolding, NoHolding
<1>5. claimed \in [{1} -> [People -> 0 .. Supply]]
  BY <1>3 DEF EndToEndInit
<1>6. TreeInv
  BY <1>1, <1>4, <1>5 DEF EndToEndInit, TreeInv
<1>7. committeeAsset \in 0 .. assetId /\ lag \in 0 .. MaxLag
  BY EndToEndAssumption DEF EndToEndInit, GovernanceInit, CommitteeInit
<1> QED
  BY <1>1, <1>2, <1>6, <1>7, CallNumbers DEF ScriptInv

(***************************************************************************)
(* The calls of the script and of the others, contract by contract, are    *)
(* steps of Governance.                                                    *)
(***************************************************************************)
LEMMA CommitteeCalls ==
    ASSUME CreateCommittee \/ StrangerOnCommittee
    PROVE  [GovernanceNext]_governanceVars
<1>1. [from |-> Creator, to |-> Creator, amount |-> 0] \in Transfers
  BY CommitteeAssumption DEF Transfers, CommitteeAccounts
<1>2. \/ InitToken
      \/ SetMembers(Creator, {Creator})
      \/ MoveToken([from |-> Creator, to |-> Creator, amount |-> 0])
      \/ UNCHANGED committeeVars
  BY Zenon DEF CreateCommittee, StrangerOnCommittee, OnCommittee
<1>3. CommitteeNext \/ UNCHANGED committeeVars
  BY <1>1, <1>2, CommitteeAssumption DEF CommitteeNext
<1>4. UNCHANGED <<gateVars, daoStateVars>>
  BY DEF CreateCommittee, StrangerOnCommittee, OnCommittee
<1> QED
  BY <1>3, <1>4 DEF GovernanceNext, GateSide, governanceVars, gateAllVars

LEMMA GateCalls ==
    ASSUME \/ OnGate(InitTrustToken)
           \/ OnGate(OptInTrust(App))
           \/ \E p \in People : OnGate(OptInGate(p) \/ LeaveGate(p))
           \/ OnGate(AssessProposal(Creator, App, App))
           \/ OnGate(GateVote(Creator, App, TRUE))
    PROVE  GovernanceNext
<1>0. App \in AppIds /\ App \in Receivers /\ App \in TrustAccounts /\ Creator \in People
  BY CommitteeAssumption, EndToEndAssumption DEF AppIds, Receivers, TrustAccounts
<1>1. GateCall
  BY <1>0, Zenon DEF OnGate, GateCall
<1>2. UNCHANGED <<committeeVars, daoStateVars>>
  BY DEF OnGate
<1> QED
  BY <1>1, <1>2 DEF GovernanceNext, GateSide

LEMMA ClientCalls == ByClient \in Dao!Call
  BY CommitteeAssumption, ScriptAssumption DEF ByClient, Dao!Call

LEMMA StrangersCalls ==
    /\ \A p \in Strangers : p \in People
    /\ \A call \in StrangersCall : call \in Dao!Call
  BY DEF Strangers, StrangersCall, Dao!Call

LEMMA DaoCalls ==
    ASSUME \/ OnDao(Dao!AddRule(ByClient, PaymentRule))
           \/ OnDao(Dao!Finalize(ByClient))
           \/ \E amount \in 1 .. MaxFunds : OnDao(Dao!FundDao(amount))
           \/ \E p \in People : OnDao(Dao!ClearDao(p)) /\ UNCHANGED votingVars
           \/ \E first \in Dao!Call, second \in Dao!Call :
                 OnDao(Dao!ImplementGroup(first, second, App))
    PROVE  GovernanceNext
<1>1. UNCHANGED votingVars => UNCHANGED Dao!voteVars
  BY DEF votingVars, Dao!voteVars
<1>2. Dao!DaoStep \/ \E amount \in 1 .. MaxFunds : Dao!FundDao(amount)
  BY <1>1, ClientCalls, EndToEndAssumption, Zenon DEF OnDao, Dao!DaoStep
<1>3. UNCHANGED gateAllVars
  BY DEF OnDao
<1> QED
  BY <1>2, <1>3, Zenon DEF GovernanceNext, DaoSide

LEMMA ProposalCalls ==
    ASSUME \/ OnProposal(Dao!OptInVoteToken(Creator, App, 1))
           \/ \E p \in People : OnProposal(Dao!Register(p, App) \/ Dao!CloseOut(p, App))
           \/ \E p \in People, arg \in OptionArgs, units \in 0 .. Supply :
                 OnProposal(Dao!CastVote(p, App, arg, Deposit(p, units)))
           \/ OnProposal(Dao!FinalizeVote(App))
    PROVE  GovernanceNext
<1>1. \A p \in People, units \in 0 .. Supply : Deposit(p, units) \in Dao!ElecTransfers
  BY EndToEndAssumption DEF Deposit, Dao!ElecTransfers, Dao!VoteAccounts
<1>2. 1 \in Assets /\ Creator \in People /\ App \in Apps
  BY CommitteeAssumption, EndToEndAssumption
<1>3. Dao!VoteCall
  BY <1>1, <1>2, Zenon DEF OnProposal, Dao!VoteCall
<1>4. UNCHANGED gateAllVars /\ UNCHANGED daoOwnVars
  BY DEF OnProposal
<1> QED
  BY <1>3, <1>4 DEF GovernanceNext, DaoSide

(***************************************************************************)
(* What the tree pays the client is every election token there is.         *)
(***************************************************************************)
LEMMA ClientClaimsAll ==
    ASSUME ScriptInv, Tree!Claim(Creator, CreatorIndex)
    PROVE  Tree!Share(CreatorIndex) = Supply /\ electionAsset = 1
<1>1. snapshot # <<>> /\ electionAsset # 0
  BY DEF Tree!Claim, Tree!Live
<1>2. snapshot = distribution /\ Done("status")
  BY <1>1, CallNumbers DEF ScriptInv, TreeInv, Done
<1>3. distribution \in Distributions
  BY <1>2 DEF ScriptInv, TreeInv
<1>4. \E i \in DOMAIN distribution : distribution[i][1] = Creator
  BY <1>3, DistributionShape
<1> DEFINE i == CHOOSE i \in DOMAIN distribution : distribution[i][1] = Creator
<1>5. i \in DOMAIN distribution /\ distribution[i][1] = Creator
  BY <1>4
<1>6. distribution[i][2] = Supply
  BY <1>3, <1>5, DistributionShape
<1>7. DOMAIN distribution \subseteq Nat
  <2>1. PICK others : distribution =
            LET holders == Listed({Creator} \cup others)
            IN [j \in DOMAIN holders |->
                   <<holders[j], IF holders[j] = Creator THEN Supply ELSE 0>>]
    BY <1>3 DEF Distributions
  <2>2. Listed({Creator} \cup others) \in Seq(GovAccounts)
    BY ListedAreThose
  <2> QED
    BY <2>1, <2>2
<1>8. CreatorIndex = i - 1
  BY DEF CreatorIndex
<1> HIDE DEF i
<1>9. CreatorIndex + 1 = i
  BY <1>5, <1>7, <1>8
<1> QED
  BY <1>1, <1>2, <1>6, <1>9 DEF Tree!Share, ScriptInv, TreeInv

LEMMA ElectionCalls ==
    ASSUME ScriptInv, CreateElection
    PROVE  [GovernanceNext]_governanceVars
<1>1. ASSUME OnTree(Tree!DeployTree(distribution)) \/ Other PROVE UNCHANGED governanceVars
  BY <1>1 DEF OnTree, Other, Tree!DeployTree, governanceVars, daoStateVars
<1>2. ASSUME At("inittoken_tree"), OnTree(Tree!InitElectionToken(Creator, Supply))
      PROVE  UNCHANGED governanceVars
  <2>1. ~Done("inittoken_tree")
    BY <1>2 DEF At, Done, ScriptInv
  <2>2. /\ electionAsset = 0
        /\ elec = [asset \in Assets |-> NewAsset(Dao!VoteAccounts, Issuer, Supply)]
    BY <2>1 DEF ScriptInv, TreeInv
  <2>3. elec' = [elec EXCEPT ![1] = NewAsset(Dao!VoteAccounts, Issuer, Supply)]
    BY <1>2, <2>2
    DEF OnTree, Tree!InitElectionToken, Tree!NewAsset, NewAsset, Tree!NoHolding, NoHolding
  <2>4. elec' = elec
    BY <2>2, <2>3, EndToEndAssumption
  <2> QED
    BY <1>2, <2>4 DEF OnTree, governanceVars, daoStateVars
<1>3. ASSUME NEW xfer \in Dao!ElecTransfers \cup Dao!Issues, Dao!CanMove(xfer), Dao!Move(xfer),
             UNCHANGED <<gateAllVars, daoOwnVars, round, voteAsset, allVotes, slots, ballots,
                         passed, implemented>>
      PROVE  GovernanceNext
  BY <1>3 DEF Dao!MoveElection, Dao!VoteCall, GovernanceNext, DaoSide
<1>4. ASSUME OnTree(Tree!MoveUnits(1, Creator, Creator, 0)) PROVE GovernanceNext
  <2> DEFINE xfer == [asset |-> 1, from |-> Creator, to |-> Creator, amount |-> 0]
  <2>1. xfer \in Dao!ElecTransfers
    BY CommitteeAssumption, EndToEndAssumption, DaoAssumption
    DEF Dao!ElecTransfers, Dao!VoteAccounts, Dao!ProposalAssumption
  <2>2. Dao!CanMove(xfer) /\ Dao!Move(xfer)
    BY <1>4 DEF OnTree, Tree!MoveUnits, Tree!CanTransfer, Tree!Transfer, Dao!CanMove,
                Dao!Move, Dao!CanTransfer, Dao!Transfer
  <2> HIDE DEF xfer
  <2> QED
    BY <1>3, <1>4, <2>1, <2>2 DEF OnTree
<1>5. ASSUME OnTree(Tree!Claim(Creator, CreatorIndex)) PROVE GovernanceNext
  <2> DEFINE xfer == [asset |-> 1, from |-> Issuer, to |-> Creator, amount |-> Supply]
  <2>1. Tree!Share(CreatorIndex) = Supply /\ electionAsset = 1
    BY <1>5, ClientClaimsAll DEF OnTree
  <2>2. xfer \in Dao!Issues
    BY CommitteeAssumption, EndToEndAssumption, DaoAssumption
    DEF Dao!Issues, Dao!ProposalAssumption
  <2>3. Tree!PayUnits(Creator, Supply)
    BY <1>5, <2>1 DEF OnTree, Tree!Claim
  <2>4. Dao!CanMove(xfer) /\ Dao!Move(xfer)
    BY <2>1, <2>3 DEF Tree!PayUnits, Tree!CanTransfer, Tree!Transfer, Tree!Movable, Dao!CanMove,
                Dao!Move, Dao!CanTransfer, Dao!Transfer, Dao!Movable
  <2> HIDE DEF xfer
  <2> QED
    BY <1>3, <1>5, <2>2, <2>4 DEF OnTree
<1> QED
  BY <1>1, <1>2, <1>4, <1>5, Zenon DEF CreateElection

(***************************************************************************)
(* Every step of the script, of the others and of the clock is a step of   *)
(* Governance, or nothing to it.                                           *)
(***************************************************************************)
LEMMA ScriptStepsGovernance ==
    ASSUME ScriptInv, [EndToEndNext]_endToEndVars
    PROVE  [GovernanceNext]_governanceVars
<1> USE CommitteeAssumption, EndToEndAssumption
<1>1. ASSUME ClientStep PROVE [GovernanceNext]_governanceVars
  <2>1. CASE CreateCommittee
    BY <2>1, CommitteeCalls
  <2>2. CASE CreateGovernanceToken
    BY <2>2 DEF CreateGovernanceToken
  <2>3. CASE CreateGate
    <3>1. OnGate(OptInGate(Creator)) => OnGate(OptInGate(Creator) \/ LeaveGate(Creator))
      BY DEF OnGate
    <3> QED
      BY <2>3, <3>1, GateCalls, Zenon DEF CreateGate, Other
  <2>4. CASE CreateDao
    BY <2>4, DaoCalls, Zenon DEF CreateDao
  <2>5. CASE BuildDistribution
    BY <2>5 DEF BuildDistribution, Other
  <2>6. CASE CreateElection
    BY <2>6, ElectionCalls
  <2>7. CASE CreateProposal
    BY <2>7, GateCalls, ProposalCalls, Zenon DEF CreateProposal, Other
  <2>8. CASE PreapproveProposal
    BY <2>8, GateCalls, Zenon DEF PreapproveProposal
  <2>9. CASE VoteOnProposal
    <3>1. Dao!YesKey \in OptionArgs
      BY DaoAssumption DEF Dao!ProposalAssumption
    <3>2. OnProposal(Dao!Register(Creator, App)) =>
              OnProposal(Dao!Register(Creator, App) \/ Dao!CloseOut(Creator, App))
      BY DEF OnProposal
    <3> QED
      BY <2>9, <3>1, <3>2, ProposalCalls, Zenon DEF VoteOnProposal
  <2>10. CASE WaitForRound
    BY <2>10 DEF WaitForRound, Other
  <2>11. CASE ImplementProposal
    BY <2>11, ProposalCalls, DaoCalls, ClientCalls, Zenon DEF ImplementProposal
  <2> QED
    BY <1>1, <2>1, <2>2, <2>3, <2>4, <2>5, <2>6, <2>7, <2>8, <2>9, <2>10, <2>11, Zenon
    DEF ClientStep
<1>2. ASSUME StrangerStep PROVE [GovernanceNext]_governanceVars
  <2>1. CASE StrangerOnCommittee
    BY <2>1, CommitteeCalls
  <2>2. CASE StrangerOnGate
    BY <2>2, GateCalls, Zenon DEF StrangerOnGate, Strangers
  <2>3. CASE StrangerOnGovernanceToken
    BY <2>3 DEF StrangerOnGovernanceToken
  <2>4. CASE StrangerOnProposal
    <3>1. /\ \A p \in Strangers : p \in People
          /\ \A call \in StrangersCall : call \in Dao!Call
      BY StrangersCalls
    <3>2. 0 \in 0 .. Supply
      BY DaoAssumption DEF Dao!ProposalAssumption
    <3> QED
      BY <2>4, <3>1, <3>2, ProposalCalls, DaoCalls, Zenon DEF StrangerOnProposal
  <2>5. CASE StrangerOnDao
    BY <2>5, StrangersCalls, DaoCalls, Zenon DEF StrangerOnDao
  <2> QED
    BY <1>2, <2>1, <2>2, <2>3, <2>4, <2>5, Zenon DEF StrangerStep
<1>3. ASSUME RoundOfScript PROVE GovernanceNext
  BY <1>3, Zenon DEF RoundOfScript, GovernanceNext
<1>4. ASSUME UNCHANGED endToEndVars PROVE UNCHANGED governanceVars
  BY <1>4 DEF endToEndVars
<1> QED
  BY <1>1, <1>2, <1>3, <1>4, Zenon DEF EndToEndNext

(***************************************************************************)
(* The parts of the invariant under steps that leave their variables       *)
(* alone, at calls that do not matter to them.                             *)
(***************************************************************************)
LEMMA GovKept ==
    ASSUME GovInv, pc \in Nat, UNCHANGED gov,
           pc' = pc \/ (pc' = pc + 1 /\ pc # Number("createasset"))
    PROVE  GovInv'
<1>1. Done("createasset")' => Done("createasset")
  BY CallNumbers DEF Done
<1> QED
  BY <1>1 DEF GovInv

LEMMA TreeKept ==
    ASSUME TreeInv, pc \in Nat, UNCHANGED <<distribution, treeOwnVars>>,
           UNCHANGED elec \/ Done("inittoken_tree"),
           \/ pc' = pc
           \/ pc' = pc + 1 /\ pc # Number("status") /\ pc # Number("inittoken_tree")
    PROVE  TreeInv'
<1>1. /\ Done("status")' <=> Done("status")
      /\ Done("inittoken_tree")' <=> Done("inittoken_tree")
      /\ Done("deploy_tree") => Done("deploy_tree")'
  BY CallNumbers DEF Done
<1> QED
  BY <1>1 DEF TreeInv, treeOwnVars

\* A step of the client is at one of its calls, and goes on to the next.
LEMMA ClientGoesOn ==
    ASSUME ClientStep
    PROVE  pc \in 1 .. 28 /\ pc' = pc + 1 /\ lag' = 0
<1>1. \/ At("inittoken_committee") \/ At("optin_committee") \/ At("setmembers")
      \/ At("createasset") \/ At("deploy_gate") \/ At("optin_gate") \/ At("inittoken_gate")
      \/ At("addrule") \/ At("fund_dao") \/ At("finalize") \/ At("status")
      \/ At("deploy_tree") \/ At("fund_tree") \/ At("inittoken_tree") \/ At("optin_election")
      \/ At("claim") \/ At("fund_receiver")
      \/ At("deploy_proposal") \/ At("fund_proposal") \/ At("optintoken_trust")
      \/ At("optintoken_election") \/ At("assess") \/ At("gate_vote")
      \/ At("register") \/ At("vote") \/ At("wait") \/ At("finalizevote") \/ At("implement")
  <2> USE Zenon
  <2>1. CASE CreateCommittee
    BY <2>1 DEF CreateCommittee
  <2>2. CASE CreateGovernanceToken \/ BuildDistribution \/ WaitForRound
    BY <2>2 DEF CreateGovernanceToken, BuildDistribution, WaitForRound
  <2>3. CASE CreateGate
    BY <2>3 DEF CreateGate
  <2>4. CASE CreateDao
    BY <2>4 DEF CreateDao
  <2>5. CASE CreateElection
    BY <2>5 DEF CreateElection
  <2>6. CASE CreateProposal
    BY <2>6 DEF CreateProposal
  <2>7. CASE PreapproveProposal \/ VoteOnProposal \/ ImplementProposal
    BY <2>7 DEF PreapproveProposal, VoteOnProposal, ImplementProposal
  <2> QED
    BY <2>1, <2>2, <2>3, <2>4, <2>5, <2>6, <2>7 DEF ClientStep
<1> QED
  BY <1>1, CallNumbers DEF At

\* The calls that concern neither the governance token nor the tree.
LEMMA OtherCalls ==
    ASSUME \/ CreateCommittee \/ CreateGate \/ CreateDao
           \/ CreateProposal \/ PreapproveProposal
           \/ VoteOnProposal \/ WaitForRound \/ ImplementProposal
    PROVE  /\ UNCHANGED <<gov, distribution, treeOwnVars>>
           /\ UNCHANGED elec \/ Done("inittoken_tree")
           /\ pc # Number("createasset") /\ pc # Number("status")
           /\ pc # Number("inittoken_tree")
<1>1. CASE CreateCommittee
  BY <1>1, CallNumbers DEF CreateCommittee, OnCommittee, daoStateVars, At
<1>2. CASE CreateGate
  BY <1>2, CallNumbers DEF CreateGate, OnGate, Other, daoStateVars, governanceVars, At
<1>3. CASE CreateDao
  <2>1. At("addrule") \/ At("fund_dao") \/ At("finalize")
    BY <1>3, Zenon DEF CreateDao
  <2>2. \/ Dao!AddRule(ByClient, PaymentRule) \/ Dao!FundDao(PaidAmount)
        \/ Dao!Finalize(ByClient)
    BY <1>3, Zenon DEF CreateDao, OnDao
  <2>3. UNCHANGED Dao!voteVars
    BY <2>2, Zenon DEF Dao!AddRule, Dao!FundDao, Dao!Finalize
  <2>4. UNCHANGED <<gov, distribution, treeOwnVars>>
    BY <1>3, Zenon DEF CreateDao, OnDao
  <2> QED
    BY <2>1, <2>3, <2>4, CallNumbers DEF At, Dao!voteVars
<1>4. CASE \/ CreateProposal \/ PreapproveProposal
           \/ VoteOnProposal \/ WaitForRound \/ ImplementProposal
  <2>1. \/ At("deploy_proposal") \/ At("fund_proposal") \/ At("optintoken_trust")
        \/ At("optintoken_election") \/ At("assess") \/ At("gate_vote")
        \/ At("register") \/ At("vote") \/ At("wait") \/ At("finalizevote") \/ At("implement")
    BY <1>4, Zenon
    DEF CreateProposal, PreapproveProposal, VoteOnProposal, WaitForRound, ImplementProposal
  <2>2. UNCHANGED gov /\ UNCHANGED distribution /\ UNCHANGED treeOwnVars
    <3>1. CASE CreateProposal
      BY <3>1 DEF CreateProposal, OnProposal, OnGate, Other
    <3>2. CASE PreapproveProposal
      BY <3>2, Zenon DEF PreapproveProposal, OnGate
    <3>3. CASE VoteOnProposal
      BY <3>3 DEF VoteOnProposal, OnProposal
    <3>4. CASE WaitForRound \/ ImplementProposal
      BY <3>4 DEF WaitForRound, ImplementProposal, OnProposal, OnDao, Other
    <3> QED
      BY <1>4, <3>1, <3>2, <3>3, <3>4, Zenon
  <2> QED
    BY <2>1, <2>2, CallNumbers DEF At, Done
<1> QED
  BY <1>1, <1>2, <1>3, <1>4, Zenon

LEMMA CreateTokenInv ==
    ASSUME ScriptInv, CreateGovernanceToken PROVE GovInv' /\ TreeInv'
<1>1. pc = 4 /\ pc' = pc + 1
  BY CallNumbers DEF CreateGovernanceToken, At
<1>2. gov' = [a \in GovAccounts |->
                 IF a = Creator THEN [optedin |-> TRUE, amount |-> Supply, frozen |-> FALSE]
                 ELSE [optedin |-> FALSE, amount |-> 0, frozen |-> FALSE]]
  BY DEF CreateGovernanceToken, NewAsset, NoHolding
<1>3. GovInv'
  BY <1>2, EndToEndAssumption, CommitteeAssumption, DaoAssumption
  DEF GovInv, Holding, Dao!ProposalAssumption
<1>4. TreeInv'
  BY <1>1, TreeKept, CallNumbers
  DEF ScriptInv, CreateGovernanceToken, governanceVars, daoStateVars
<1> QED
  BY <1>3, <1>4

LEMMA BuildDistributionInv ==
    ASSUME ScriptInv, BuildDistribution PROVE GovInv' /\ TreeInv'
<1>1. pc = 11 /\ pc' = pc + 1 /\ UNCHANGED <<gov, elec, treeOwnVars>>
  BY CallNumbers DEF BuildDistribution, At, Other, governanceVars, daoStateVars
<1>2. GovInv'
  BY <1>1, GovKept, CallNumbers DEF ScriptInv
<1>3. distribution' \in Distributions
  <2>1. GovInv /\ Done("createasset")
    BY <1>1, CallNumbers DEF ScriptInv, Done
  <2>2. distribution' = TokenCounts
    BY DEF BuildDistribution
  <2> QED
    BY <2>1, <2>2, CountsAreDistribution
<1>4. snapshot = <<>> /\ ~Done("inittoken_tree") /\ ~Done("inittoken_tree")'
  <2>1. /\ ~Done("deploy_tree") /\ ~Done("inittoken_tree")
        /\ ~Done("inittoken_tree")'
    BY <1>1, CallNumbers DEF Done
  <2>2. snapshot = <<>>
    BY <2>1 DEF ScriptInv, TreeInv
  <2> QED
    BY <2>1, <2>2
<1>5. TreeInv'
  BY <1>1, <1>3, <1>4 DEF ScriptInv, TreeInv, treeOwnVars
<1> QED
  BY <1>2, <1>5

LEMMA CreateElectionInv ==
    ASSUME ScriptInv, CreateElection PROVE GovInv' /\ TreeInv'
<1>1. /\ pc \in 12 .. 17 /\ pc' = pc + 1 /\ UNCHANGED <<gov, distribution>>
      /\ GovInv /\ TreeInv
  <2>1. \/ At("deploy_tree") \/ At("fund_tree") \/ At("inittoken_tree")
        \/ At("optin_election") \/ At("claim") \/ At("fund_receiver")
    BY Zenon DEF CreateElection
  <2>2. UNCHANGED gov /\ UNCHANGED distribution
    BY DEF CreateElection, OnTree, Other
  <2> QED
    BY <2>1, <2>2, CallNumbers DEF ScriptInv, At
<1>2. GovInv'
  BY <1>1, GovKept, CallNumbers
<1>3. Done("status") /\ Done("status")' /\ Done("deploy_tree")'
  BY <1>1, CallNumbers DEF Done
<1>4. ASSUME pc # 14, UNCHANGED <<elec, treeOwnVars>> PROVE TreeInv'
  BY <1>1, <1>4, TreeKept, CallNumbers
<1>5. CASE At("deploy_tree") /\ OnTree(Tree!DeployTree(distribution))
  <2>1. ~Done("inittoken_tree") /\ ~Done("inittoken_tree")'
    BY <1>1, <1>5, CallNumbers DEF Done, At
  <2>2. snapshot' = distribution /\ UNCHANGED <<electionAsset, elec, claimed>>
    BY <1>5 DEF OnTree, Tree!DeployTree
  <2> QED
    BY <1>1, <1>2, <1>3, <2>1, <2>2 DEF TreeInv
<1>6. CASE At("inittoken_tree") /\ OnTree(Tree!InitElectionToken(Creator, Supply))
  <2>1. ~Done("inittoken_tree") /\ Done("inittoken_tree")'
    BY <1>1, <1>6, CallNumbers DEF Done, At
  <2>2. electionAsset' = electionAsset + 1 /\ UNCHANGED <<snapshot, claimed>>
    BY <1>6 DEF OnTree, Tree!InitElectionToken
  <2> QED
    BY <1>1, <1>2, <1>3, <2>1, <2>2 DEF TreeInv
<1>7. CASE At("optin_election") /\ OnTree(Tree!MoveUnits(1, Creator, Creator, 0))
  <2>1. Done("inittoken_tree")
    BY <1>7, CallNumbers DEF Done, At
  <2>2. pc # 14
    BY <1>7, CallNumbers DEF At
  <2>3. UNCHANGED treeOwnVars
    BY <1>7 DEF OnTree, Tree!MoveUnits, treeOwnVars
  <2> QED
    BY <1>1, <1>2, <2>1, <2>2, <2>3, TreeKept, CallNumbers
<1>8. CASE At("claim") /\ OnTree(Tree!Claim(Creator, CreatorIndex))
  <2>1. Done("inittoken_tree") /\ Done("inittoken_tree")'
    BY <1>1, <1>8, CallNumbers DEF Done, At
  <2>2. Tree!Share(CreatorIndex) = Supply /\ electionAsset = 1
    BY <1>8, ClientClaimsAll DEF OnTree
  <2>3. /\ claimed' = [claimed EXCEPT ![1][Creator] = @ + Supply]
        /\ claimed[1][Creator] + Supply <= Supply
        /\ UNCHANGED <<snapshot, electionAsset>>
    BY <1>8, <2>2 DEF OnTree, Tree!Claim
  <2>4. Supply \in Nat
    BY DaoAssumption DEF Dao!ProposalAssumption
  <2>5. claimed' \in [{1} -> [People -> 0 .. Supply]]
    BY <1>1, <2>3, <2>4, CommitteeAssumption DEF TreeInv
  <2> QED
    BY <1>1, <1>2, <1>3, <2>1, <2>3, <2>5 DEF TreeInv
<1>9. CASE (At("fund_tree") \/ At("fund_receiver")) /\ Other
  <2>1. pc # 14
    BY <1>9, CallNumbers DEF At
  <2>2. UNCHANGED <<elec, treeOwnVars>>
    BY <1>9 DEF Other, governanceVars, daoStateVars
  <2> QED
    BY <1>2, <1>4, <2>1, <2>2
<1> QED
  BY <1>2, <1>5, <1>6, <1>7, <1>8, <1>9, Zenon DEF CreateElection

LEMMA StrangerKeeps ==
    ASSUME ScriptInv, StrangerStep PROVE GovInv' /\ TreeInv'
<1>1. pc \in Nat /\ UNCHANGED <<pc, distribution>> /\ GovInv /\ TreeInv
  BY CallNumbers DEF ScriptInv, StrangerStep, clientVars
<1>2. UNCHANGED treeOwnVars /\ (UNCHANGED elec \/ Done("inittoken_tree"))
  <2>1. CASE StrangerOnCommittee \/ StrangerOnGate
    BY <2>1 DEF StrangerOnCommittee, StrangerOnGate, OnCommittee, OnGate, daoStateVars
  <2>2. CASE StrangerOnGovernanceToken
    BY <2>2 DEF StrangerOnGovernanceToken, governanceVars, daoStateVars
  <2>3. CASE StrangerOnProposal
    BY <1>1, <2>3, CallNumbers DEF StrangerOnProposal, OnProposal, OnDao, Done
  <2>4. CASE StrangerOnDao
    <3>1. UNCHANGED treeOwnVars /\ (UNCHANGED Dao!voteVars \/ UNCHANGED votingVars)
      BY <2>4, Zenon DEF StrangerOnDao, OnDao, Dao!FundDao
    <3> QED
      BY <3>1 DEF Dao!voteVars, votingVars
  <2> QED
    BY <2>1, <2>2, <2>3, <2>4, Zenon DEF StrangerStep
<1>3. TreeInv'
  BY <1>1, <1>2, TreeKept
<1>4. GovInv'
  <2>1. CASE UNCHANGED gov
    BY <1>1, <2>1, GovKept
  <2>2. CASE StrangerOnGovernanceToken
    <3>1. PICK a \in GovAccounts \ {Creator} : gov' = [gov EXCEPT ![a].optedin = TRUE]
      BY <2>2 DEF StrangerOnGovernanceToken, OptInTo, Transfer
    <3> QED
      BY <1>1, <3>1, EndToEndAssumption, CommitteeAssumption DEF GovInv, Done, Holding
  <2> QED
    BY <2>1, <2>2
    DEF StrangerStep, StrangerOnCommittee, StrangerOnGate, StrangerOnProposal, StrangerOnDao,
        OnCommittee, OnGate, OnProposal, OnDao
<1> QED
  BY <1>3, <1>4

\* The committee is never asked to do anything it would not do alone.
LEMMA CommitteeOfScript ==
    ASSUME CommitteeInv, ScriptInv, [EndToEndNext]_endToEndVars
    PROVE  CommitteeInv'
<1>1. [GovernanceNext]_governanceVars
  BY ScriptStepsGovernance
<1>2. [CommitteeNext]_committeeVars
  BY <1>1 DEF GovernanceNext, RoundPasses, GateSide, DaoSide, governanceVars, gateAllVars,
              committeeVars
<1> QED
  BY <1>2, CommitteeStep

\* The client names an asset that the committee has had.
LEMMA AssetKnown ==
    ASSUME CommitteeTypeOK, committeeAsset \in 0 .. assetId, EndToEndNext
    PROVE  committeeAsset' \in 0 .. assetId'
<1>1. assetId \in Nat
  BY CommitteeAssumption DEF CommitteeTypeOK
<1>2. ASSUME UNCHANGED assetId, UNCHANGED committeeAsset
      PROVE  committeeAsset' \in 0 .. assetId'
  BY <1>2
<1>3. CASE CreateCommittee
  <2>1. CASE InitToken /\ committeeAsset' = assetId'
    BY <1>1, <2>1 DEF InitToken
  <2>2. CASE UNCHANGED committeeAsset /\ UNCHANGED assetId
    BY <1>2, <2>2
  <2> QED
    BY <1>3, <2>1, <2>2, Zenon
    DEF CreateCommittee, OnCommittee, MoveToken, SetMembers, committeeVars
<1>4. CASE CreateGovernanceToken \/ BuildDistribution \/ WaitForRound
  BY <1>2, <1>4
  DEF CreateGovernanceToken, BuildDistribution, WaitForRound, Other, governanceVars,
      gateAllVars, committeeVars
<1>5. CASE CreateGate \/ CreateProposal \/ PreapproveProposal
  BY <1>2, <1>5
  DEF CreateGate, CreateProposal, PreapproveProposal, OnGate, OnProposal, Other,
      governanceVars, gateAllVars, committeeVars
<1>6. CASE CreateDao \/ CreateElection
  BY <1>2, <1>6
  DEF CreateDao, CreateElection, OnDao, OnTree, Other, governanceVars, gateAllVars,
      committeeVars
<1>7. CASE VoteOnProposal \/ ImplementProposal
  BY <1>2, <1>7
  DEF VoteOnProposal, ImplementProposal, OnProposal, OnDao, gateAllVars, committeeVars
<1>8. CASE StrangerStep
  <2>1. UNCHANGED committeeAsset
    BY <1>8 DEF StrangerStep, clientVars
  <2>2. CASE StrangerOnCommittee
    BY <1>1, <2>1, <2>2 DEF StrangerOnCommittee, OnCommittee, InitToken
  <2>3. CASE StrangerOnGate
    BY <1>2, <2>1, <2>3 DEF StrangerOnGate, OnGate, committeeVars
  <2>4. CASE StrangerOnGovernanceToken
    BY <1>2, <2>1, <2>4
    DEF StrangerOnGovernanceToken, governanceVars, gateAllVars, committeeVars
  <2>5. CASE StrangerOnProposal \/ StrangerOnDao
    BY <1>2, <2>1, <2>5
    DEF StrangerOnProposal, StrangerOnDao, OnProposal, OnDao, gateAllVars, committeeVars
  <2> QED
    BY <1>8, <2>2, <2>3, <2>4, <2>5, Zenon DEF StrangerStep
<1>9. CASE RoundOfScript
  BY <1>2, <1>9 DEF RoundOfScript, RoundPasses, committeeVars
<1> QED
  BY <1>3, <1>4, <1>5, <1>6, <1>7, <1>8, <1>9, Zenon DEF EndToEndNext, ClientStep

LEMMA ScriptInvStep ==
    ASSUME CommitteeTypeOK, ScriptInv, [EndToEndNext]_endToEndVars
    PROVE  ScriptInv'
<1> USE EndToEndAssumption
<1>1. CASE ClientStep
  <2>1. pc \in 1 .. 28 /\ pc' = pc + 1 /\ lag' = 0
    BY <1>1, ClientGoesOn
  <2>2. GovInv' /\ TreeInv'
    <3>1. CASE CreateGovernanceToken
      BY <3>1, CreateTokenInv
    <3>2. CASE BuildDistribution
      BY <3>2, BuildDistributionInv
    <3>3. CASE CreateElection
      BY <3>3, CreateElectionInv
    <3>4. CASE \/ CreateCommittee \/ CreateGate \/ CreateDao
               \/ CreateProposal \/ PreapproveProposal
               \/ VoteOnProposal \/ WaitForRound \/ ImplementProposal
      <4>1. /\ UNCHANGED <<gov, distribution, treeOwnVars>>
            /\ UNCHANGED elec \/ Done("inittoken_tree")
            /\ pc # Number("createasset") /\ pc # Number("status")
            /\ pc # Number("inittoken_tree")
        BY <3>4, OtherCalls, Zenon
      <4>2. GovInv /\ TreeInv /\ pc \in Nat
        BY <2>1 DEF ScriptInv
      <4> QED
        BY <2>1, <4>1, <4>2, GovKept, TreeKept
    <3> QED
      BY <1>1, <3>1, <3>2, <3>3, <3>4, Zenon DEF ClientStep
  <2>3. committeeAsset' \in 0 .. assetId'
    BY <1>1, AssetKnown DEF ScriptInv, EndToEndNext
  <2> QED
    BY <2>1, <2>2, <2>3, CallNumbers DEF ScriptInv
<1>2. CASE StrangerStep
  <2>1. GovInv' /\ TreeInv'
    BY <1>2, StrangerKeeps
  <2>2. committeeAsset' \in 0 .. assetId'
    BY <1>2, AssetKnown DEF ScriptInv, EndToEndNext
  <2> QED
    BY <1>2, <2>1, <2>2 DEF ScriptInv, StrangerStep, clientVars
<1>3. CASE RoundOfScript
  <2>1. UNCHANGED <<pc, gov, distribution, treeOwnVars, elec>>
    BY <1>3 DEF RoundOfScript, RoundPasses, Dao!VoteTick
  <2>2. lag' \in 0 .. MaxLag
    BY <1>3 DEF RoundOfScript, ScriptInv
  <2>3. pc \in Nat
    BY CallNumbers DEF ScriptInv
  <2>4. GovInv' /\ TreeInv'
    BY <2>1, <2>3, GovKept, TreeKept DEF ScriptInv
  <2>5. committeeAsset' \in 0 .. assetId'
    BY <1>3, AssetKnown DEF ScriptInv, EndToEndNext
  <2> QED
    BY <2>1, <2>2, <2>4, <2>5 DEF ScriptInv
<1>4. CASE UNCHANGED endToEndVars
  <2>1. /\ UNCHANGED <<pc, lag, committeeAsset, gov, distribution, treeOwnVars>>
        /\ UNCHANGED <<elec, assetId>>
    BY <1>4 DEF endToEndVars, governanceVars, clientVars, daoStateVars, gateAllVars,
                committeeVars
  <2>2. pc \in Nat
    BY CallNumbers DEF ScriptInv
  <2>3. GovInv' /\ TreeInv'
    BY <2>1, <2>2, GovKept, TreeKept DEF ScriptInv
  <2> QED
    BY <2>1, <2>3 DEF ScriptInv
<1> QED
  BY <1>1, <1>2, <1>3, <1>4, Zenon DEF EndToEndNext

LEMMA ScriptInvariant == EndToEndSpec => [](ScriptInv /\ CommitteeInv)
<1>1. EndToEndInit => ScriptInv /\ CommitteeInv
  BY ScriptInvInit, CommitteeInvInit DEF EndToEndInit, GovernanceInit
<1>2. ScriptInv /\ CommitteeInv /\ [EndToEndNext]_endToEndVars => (ScriptInv /\ CommitteeInv)'
  BY ScriptInvStep, CommitteeOfScript DEF CommitteeInv
<1> QED
  BY <1>1, <1>2, PTL DEF EndToEndSpec

(***************************************************************************)
(* The script, what others do in between and the rounds that pass are      *)
(* allowed by Governance.  The client's own tree, which the contracts know *)
(* nothing of, is what pays the election tokens out: all of them to the    *)
(* client, once, as a transfer of the issuer.                              *)
(***************************************************************************)
THEOREM ScriptIsGovernance == EndToEndSpec => ImplementsGovernance
<1>1. EndToEndInit => GovernanceInit
  BY DEF EndToEndInit
<1>2. ScriptInv /\ [EndToEndNext]_endToEndVars => [GovernanceNext]_governanceVars
  BY ScriptStepsGovernance
<1> QED
  BY <1>1, <1>2, ScriptInvariant, PTL DEF EndToEndSpec, ImplementsGovernance, GovernanceSpec

\* The state of the gate and of the DAO, in the script.
LEMMA ScriptGate == EndToEndSpec => []GateInv
<1>1. EndToEndInit => GateInv
  BY GovernanceInvInit DEF EndToEndInit
<1>2. ScriptInv /\ GateInv /\ [EndToEndNext]_endToEndVars => GateInv'
  BY ScriptStepsGovernance, GateInvKept
<1> QED
  BY <1>1, <1>2, ScriptInvariant, PTL DEF EndToEndSpec

LEMMA ScriptDao == EndToEndSpec => []DaoFacts!DaoTypes
  BY ScriptIsGovernance, GateServesDao, SameDao, DaoFactsHold
  DEF ImplementsGovernance, ImplementsDao

(***************************************************************************)
(* The state of the script keeps its type, and so does that of the gate    *)
(* and the tree it works with.                                             *)
(***************************************************************************)
THEOREM ScriptTypes == EndToEndSpec => []EndToEndTypeOK
<1>1. ScriptInv /\ GateInv /\ DaoFacts!DaoTypes => EndToEndTypeOK
  <2> SUFFICES ASSUME ScriptInv, GateInv, DaoFacts!DaoTypes PROVE EndToEndTypeOK
    OBVIOUS
  <2> USE EndToEndAssumption
  <2>1. elec \in [1 .. 1 -> [Dao!VoteAccounts -> Tree!Holding]] /\ round \in 0 .. Horizon
    <3>1. 1 .. 1 = {1}
      OBVIOUS
    <3>2. /\ elec \in [Assets -> [DaoFacts!VoteAccounts -> DaoFacts!Holding]]
          /\ round \in 0 .. Horizon
      BY DEF DaoFacts!DaoTypes, DaoFacts!ProposalTypeOK
    <3>3. DaoFacts!Holding = Tree!Holding /\ DaoFacts!VoteAccounts = Dao!VoteAccounts
      BY DEF DaoFacts!Holding, Tree!Holding, DaoFacts!VoteAccounts, Dao!VoteAccounts
    <3> QED
      BY <3>1, <3>2, <3>3
  <2>2. electionAsset \in 0 .. 1 /\ electionAsset \in 0 .. electionAsset
    BY DEF ScriptInv, TreeInv
  <2>3. claimed \in [1 .. 1 -> [People -> 0 .. Supply]]
    <3>1. 1 .. 1 = {1}
      OBVIOUS
    <3> QED
      BY <3>1 DEF ScriptInv, TreeInv
  <2>4. snapshot \in Distributions \cup {<<>>}
    BY DEF ScriptInv, TreeInv
  <2>5. Tree!TreeTypeOK
    BY <2>1, <2>2, <2>3, <2>4 DEF Tree!TreeTypeOK, Tree!ElectionAssets
  <2> QED
    BY <2>5 DEF EndToEndTypeOK, ScriptInv, GovInv, GateInv
<1> QED
  BY <1>1, ScriptInvariant, ScriptGate, ScriptDao, PTL

(***************************************************************************)
(* In the script, too, the payment is made only for a proposal that went   *)
(* through the gate, passed and meets the rules.                           *)
(***************************************************************************)
THEOREM ScriptPaysThroughGate == EndToEndSpec => []PaidThroughGate
  BY ScriptIsGovernance, OnlyThroughGate DEF ImplementsGovernance

(***************************************************************************)
(* Whatever the strangers call between the calls of the script, no unit    *)
(* votes twice and every vote is backed by units of the proposal.          *)
(***************************************************************************)
THEOREM ScriptVotesOnce ==
    EndToEndSpec => [](DaoFacts!NoDoubleVoting /\ DaoFacts!VotesBacked)
  BY ScriptIsGovernance, GovernanceVotesOnce DEF ImplementsGovernance
-----------------------------------------------------------------------------
(***************************************************************************)
(* Which contract a step of the script is about, at which of its calls,    *)
(* and what it leaves alone.                                               *)
(***************************************************************************)
ClientMove ==
    \/ /\ CreateCommittee /\ pc \in 1 .. 3
       /\ UNCHANGED <<gateVars, daoStateVars, treeOwnVars, distribution>>
    \/ /\ \/ CreateGovernanceToken /\ pc = 4
          \/ BuildDistribution /\ pc = 11
          \/ WaitForRound /\ pc = 26
       /\ UNCHANGED <<governanceVars, treeOwnVars, committeeAsset>>
    \/ /\ CreateGate /\ pc \in 5 .. 7
       /\ UNCHANGED <<committeeVars, daoStateVars, treeOwnVars, committeeAsset, distribution>>
    \/ /\ CreateDao /\ pc \in 8 .. 10
       /\ UNCHANGED <<gateAllVars, treeOwnVars, committeeAsset, distribution>>
    \/ /\ CreateElection /\ pc \in 12 .. 17
       /\ UNCHANGED <<gateAllVars, daoOwnVars, round, voteAsset, allVotes, slots, ballots,
                      passed, implemented, committeeAsset, distribution>>
    \/ /\ CreateProposal /\ pc \in 18 .. 21
       /\ UNCHANGED <<committeeVars, daoOwnVars, treeOwnVars, committeeAsset, distribution>>
    \/ /\ PreapproveProposal /\ pc \in 22 .. 23
       /\ UNCHANGED <<committeeVars, daoStateVars, treeOwnVars, committeeAsset, distribution>>
    \/ /\ VoteOnProposal /\ pc \in 24 .. 25
       /\ UNCHANGED <<gateAllVars, daoOwnVars, treeOwnVars, committeeAsset, distribution>>
    \/ /\ ImplementProposal /\ pc \in 27 .. 28
       /\ UNCHANGED <<gateAllVars, treeOwnVars, committeeAsset, distribution>>

LEMMA ClientMoves ==
    ASSUME ClientStep
    PROVE  pc' = pc + 1 /\ lag' = 0 /\ (Timed => lag > 0) /\ ClientMove
<1>1. CASE CreateCommittee
  <2>1. \/ At("inittoken_committee") \/ At("optin_committee") \/ At("setmembers")
    BY <1>1, Zenon DEF CreateCommittee
  <2>2. UNCHANGED <<gateVars, daoStateVars, treeOwnVars, distribution>>
    BY <1>1, Zenon DEF CreateCommittee, OnCommittee
  <2> QED
    BY <1>1, <2>1, <2>2, CallNumbers DEF At, ClientMove
<1>2. CASE CreateGovernanceToken
  BY <1>2, CallNumbers DEF CreateGovernanceToken, At, ClientMove
<1>3. CASE BuildDistribution
  BY <1>3, CallNumbers DEF BuildDistribution, At, Other, ClientMove
<1>4. CASE WaitForRound
  BY <1>4, CallNumbers DEF WaitForRound, At, Other, ClientMove
<1>5. CASE CreateGate
  <2>1. At("deploy_gate") \/ At("optin_gate") \/ At("inittoken_gate")
    BY <1>5, Zenon DEF CreateGate
  <2>2. UNCHANGED <<committeeVars, daoStateVars, treeOwnVars, committeeAsset, distribution>>
    BY <1>5 DEF CreateGate, OnGate, Other, governanceVars, gateAllVars
  <2> QED
    BY <1>5, <2>1, <2>2, CallNumbers DEF At, ClientMove
<1>6. CASE CreateDao
  <2>1. At("addrule") \/ At("fund_dao") \/ At("finalize")
    BY <1>6, Zenon DEF CreateDao
  <2>2. UNCHANGED <<gateAllVars, treeOwnVars, committeeAsset, distribution>>
    BY <1>6 DEF CreateDao, OnDao
  <2> QED
    BY <1>6, <2>1, <2>2, CallNumbers DEF At, ClientMove
<1>7. CASE CreateElection
  <2>1. \/ At("deploy_tree") \/ At("fund_tree") \/ At("inittoken_tree")
        \/ At("optin_election") \/ At("claim") \/ At("fund_receiver")
    BY <1>7, Zenon DEF CreateElection
  <2>2. UNCHANGED <<gateAllVars, daoOwnVars, round, voteAsset, allVotes, slots, ballots,
                    passed, implemented, committeeAsset, distribution>>
    BY <1>7 DEF CreateElection, OnTree, Other, governanceVars, daoStateVars
  <2> QED
    BY <1>7, <2>1, <2>2, CallNumbers DEF At, ClientMove
<1>8. CASE CreateProposal
  <2>1. \/ At("deploy_proposal") \/ At("fund_proposal") \/ At("optintoken_trust")
        \/ At("optintoken_election")
    BY <1>8, Zenon DEF CreateProposal
  <2>2. UNCHANGED <<committeeVars, daoOwnVars, treeOwnVars, committeeAsset, distribution>>
    BY <1>8 DEF CreateProposal, OnGate, OnProposal, Other, governanceVars, gateAllVars,
                daoStateVars
  <2> QED
    BY <1>8, <2>1, <2>2, CallNumbers DEF At, ClientMove
<1>9. CASE PreapproveProposal
  <2>1. At("assess") \/ At("gate_vote")
    BY <1>9, Zenon DEF PreapproveProposal
  <2>2. UNCHANGED <<committeeVars, daoStateVars, treeOwnVars, committeeAsset, distribution>>
    BY <1>9, Zenon DEF PreapproveProposal, OnGate
  <2> QED
    BY <1>9, <2>1, <2>2, CallNumbers DEF At, ClientMove
<1>10. CASE VoteOnProposal
  <2>1. At("register") \/ At("vote")
    BY <1>10, Zenon DEF VoteOnProposal
  <2>2. UNCHANGED <<gateAllVars, daoOwnVars, treeOwnVars, committeeAsset, distribution>>
    BY <1>10 DEF VoteOnProposal, OnProposal
  <2> QED
    BY <1>10, <2>1, <2>2, CallNumbers DEF At, ClientMove
<1>11. CASE ImplementProposal
  <2>1. At("finalizevote") \/ At("implement")
    BY <1>11, Zenon DEF ImplementProposal
  <2>2. UNCHANGED <<gateAllVars, treeOwnVars, committeeAsset, distribution>>
    BY <1>11 DEF ImplementProposal, OnProposal, OnDao
  <2> QED
    BY <1>11, <2>1, <2>2, CallNumbers DEF At, ClientMove
<1> QED
  BY <1>1, <1>2, <1>3, <1>4, <1>5, <1>6, <1>7, <1>8, <1>9, <1>10, <1>11, Zenon DEF ClientStep

\* What a step of the others is about.
StrangerMove ==
    \/ InitToken /\ UNCHANGED <<gateVars, daoStateVars, treeOwnVars>>
    \/ /\ InitTrustToken \/ \E p \in Strangers : OptInGate(p) \/ LeaveGate(p)
       /\ UNCHANGED <<committeeVars, daoStateVars, treeOwnVars>>
    \/ UNCHANGED <<governanceVars, treeOwnVars>>
    \/ /\ Done("deploy_proposal")
       /\ \/ \E p \in Strangers : Dao!Register(p, App) \/ Dao!CloseOut(p, App)
          \/ \E p \in Strangers, arg \in OptionArgs : Dao!CastVote(p, App, arg, Deposit(p, 0))
          \/ Dao!FinalizeVote(App)
       /\ UNCHANGED <<gateAllVars, daoOwnVars, treeOwnVars>>
    \/ /\ Done("fund_dao")
       /\ \/ \E amount \in 1 .. MaxFunds : Dao!FundDao(amount)
          \/ \E p \in Strangers : Dao!ClearDao(p) /\ UNCHANGED votingVars
          \/ \E first \in StrangersCall, second \in StrangersCall :
                Dao!ImplementGroup(first, second, App)
       /\ UNCHANGED <<gateAllVars, treeOwnVars>>

LEMMA StrangerMoves ==
    ASSUME StrangerStep, pc \in Nat
    PROVE  StrangerMove /\ UNCHANGED clientVars
<1> SUFFICES StrangerMove
  BY DEF StrangerStep
<1>1. CASE StrangerOnCommittee
  BY <1>1, Zenon DEF StrangerOnCommittee, OnCommittee, StrangerMove
<1>2. CASE StrangerOnGate
  BY <1>2, Zenon DEF StrangerOnGate, OnGate, StrangerMove
<1>3. CASE StrangerOnGovernanceToken
  BY <1>3, Zenon DEF StrangerOnGovernanceToken, StrangerMove
<1>4. CASE StrangerOnProposal
  <2>1. Done("deploy_proposal") => Done("fund_dao")
    BY CallNumbers DEF Done
  <2> QED
    BY <1>4, <2>1, Zenon DEF StrangerOnProposal, OnProposal, OnDao, StrangerMove
<1>5. CASE StrangerOnDao
  BY <1>5, Zenon DEF StrangerOnDao, OnDao, StrangerMove
<1> QED
  BY <1>1, <1>2, <1>3, <1>4, <1>5, Zenon DEF StrangerStep
-----------------------------------------------------------------------------
(***************************************************************************)
(* The committee is empty until the client selects itself; if nobody has   *)
(* replaced its asset since, the client is still the member.               *)
(***************************************************************************)
CommitteePart ==
    /\ Done("inittoken_committee") <=> committeeAsset # 0
    /\ Members \subseteq {Creator}
    /\ Done("setmembers") \/ Members = {}
    /\ committeeAsset = assetId =>
           /\ Done("optin_committee") => token[Creator].optedin
           /\ Done("setmembers") => Creator \in Members

LEMMA CommitteePartKept ==
    ASSUME CommitteePart, pc \in Nat, UNCHANGED <<committeeVars, committeeAsset>>,
           pc' = pc \/ (pc' = pc + 1 /\ pc > 3)
    PROVE  CommitteePart'
<1>1. Members' = Members
  BY DEF committeeVars, Members, Holders, IsMember
<1> QED
  BY <1>1, CallNumbers DEF CommitteePart, Done, committeeVars

LEMMA NewCommitteeEmpty ==
    ASSUME InitToken
    PROVE  Members' = {}
  BY CommitteeAssumption
  DEF InitToken, NewAsset, NoHolding, Members, Holders, IsMember, CommitteeAccounts

LEMMA CommitteePartStep ==
    ASSUME CommitteeInv, ScriptInv, CommitteePart, [EndToEndNext]_endToEndVars
    PROVE  CommitteePart'
<1>1. pc \in Nat /\ assetId \in Nat /\ committeeAsset \in 0 .. assetId
  BY CallNumbers, CommitteeAssumption DEF ScriptInv, CommitteeInv, CommitteeTypeOK
<1>2. ASSUME InitToken, pc' = pc, UNCHANGED committeeAsset PROVE CommitteePart'
  <2>1. Members' = {} /\ assetId' = assetId + 1
    BY <1>2, NewCommitteeEmpty DEF InitToken
  <2> QED
    BY <1>1, <1>2, <2>1 DEF CommitteePart, Done
<1>3. CASE CreateCommittee
  <2>1. CASE At("inittoken_committee")
    <3>1. pc = 1 /\ pc' = 2 /\ InitToken /\ committeeAsset' = assetId'
      BY <1>3, <2>1, CallNumbers DEF CreateCommittee, At, OnCommittee
    <3>2. Members' = {} /\ assetId' = assetId + 1
      BY <3>1, NewCommitteeEmpty DEF InitToken
    <3> QED
      BY <1>1, <3>1, <3>2, CallNumbers DEF CommitteePart, Done
  <2>2. CASE At("optin_committee")
    <3>1. pc = 2 /\ pc' = 3 /\ UNCHANGED <<committeeAsset, assetId>>
      BY <1>3, <2>2, CallNumbers DEF CreateCommittee, At, OnCommittee, MoveToken, committeeVars
    <3>2. CASE committeeAsset = assetId
      <4> DEFINE xfer == [from |-> Creator, to |-> Creator, amount |-> 0]
      <4>1. MoveToken(xfer)
        BY <1>3, <2>2, <3>1, <3>2, CallNumbers DEF CreateCommittee, At, OnCommittee
      <4>2. xfer \in Transfers
        BY CommitteeAssumption DEF Transfers, CommitteeAccounts
      <4>3. Members' = Members
        BY <4>1, <4>2, MoveTokenInv
      <4>4. token' = [token EXCEPT ![Creator].optedin = TRUE]
        BY <4>1 DEF MoveToken, Transfer
      <4>5. token'[Creator].optedin
        BY <4>4, CommitteeAssumption
        DEF CommitteeInv, CommitteeTypeOK, CommitteeAccounts, Holding
      <4> QED
        BY <3>1, <4>3, <4>5, CallNumbers DEF CommitteePart, Done
    <3>3. CASE committeeAsset # assetId
      <4>1. UNCHANGED committeeVars
        BY <1>3, <2>2, <3>1, <3>3, CallNumbers DEF CreateCommittee, At, OnCommittee
      <4>2. Members' = Members
        BY <4>1 DEF committeeVars, Members, Holders, IsMember
      <4> QED
        BY <3>1, <3>3, <4>2, CallNumbers DEF CommitteePart, Done
    <3> QED
      BY <3>2, <3>3
  <2>3. CASE At("setmembers")
    <3>1. /\ pc = 3 /\ pc' = 4 /\ SetMembers(Creator, {Creator})
          /\ UNCHANGED committeeAsset
      BY <1>3, <2>3, CallNumbers DEF CreateCommittee, At, OnCommittee
    <3>2. Members' = {Creator}
      BY <3>1, SetMembersInv, CommitteeAssumption
    <3>3. UNCHANGED assetId /\ token'[Creator].optedin
      <4>1. CommitteeInv'
        BY <3>1, SetMembersInv, CommitteeAssumption
      <4>2. Creator \in Members'
        BY <3>2
      <4>3. token'[Creator].amount = 1
        BY <4>1, <4>2, CommitteeAssumption DEF Members, Holders, IsMember, CommitteeInv, UnitsFrozen
      <4> QED
        BY <3>1, <4>1, <4>3, CommitteeAssumption DEF CommitteeInv, UnitsFrozen, SetMembers
    <3> QED
      BY <3>1, <3>2, <3>3, CallNumbers DEF CommitteePart, Done
  <2> QED
    BY <1>3, <2>1, <2>2, <2>3, Zenon DEF CreateCommittee
<1>4. CASE ClientStep /\ ~CreateCommittee
  <2>1. UNCHANGED <<committeeVars, committeeAsset>> /\ pc > 3 /\ pc' = pc + 1
    BY <1>4, ClientMoves DEF ClientMove, governanceVars, gateAllVars
  <2> QED
    BY <1>1, <2>1, CommitteePartKept
<1>5. CASE StrangerStep
  <2>1. StrangerMove /\ pc' = pc /\ UNCHANGED committeeAsset
    BY <1>1, <1>5, StrangerMoves DEF clientVars
  <2>2. InitToken \/ UNCHANGED committeeVars
    BY <2>1 DEF StrangerMove, governanceVars, gateAllVars
  <2> QED
    BY <1>1, <1>2, <2>1, <2>2, CommitteePartKept
<1>6. CASE RoundOfScript \/ UNCHANGED endToEndVars
  <2>1. UNCHANGED <<pc, committeeVars, committeeAsset>>
    BY <1>6 DEF RoundOfScript, RoundPasses, endToEndVars, clientVars, governanceVars, gateAllVars
  <2> QED
    BY <1>1, <2>1, CommitteePartKept
<1> QED
  BY <1>3, <1>4, <1>5, <1>6, Zenon DEF EndToEndNext

(***************************************************************************)
(* The gate waits for the client: nobody but the client can have an        *)
(* application considered or vote, and its one vote is a majority.         *)
(***************************************************************************)
GatePart ==
    /\ Done("inittoken_gate") => initialized
    /\ voter[Creator].optedin <=> Done("optin_gate")
    /\ inProgress => Done("assess")
    /\ Done("assess") /\ ~Done("gate_vote") =>
           inProgress /\ considered = App /\ consideredAddr = App
    /\ ~Done("gate_vote") =>
           /\ initialized => trust[GateAddr].optedin
           /\ Done("optintoken_trust") => trust[App].optedin
           /\ Entrusted = {}
           /\ \A p \in People : voter[p].app = NoApp
    /\ Done("gate_vote") => App \in Trusted

LEMMA GatePartKept ==
    ASSUME GatePart, pc \in Nat, UNCHANGED gateVars,
           pc' = pc \/ (pc' = pc + 1 /\ pc \notin {6, 7, 20, 22, 23})
    PROVE  GatePart'
<1>1. Entrusted' = Entrusted /\ Trusted' = Trusted
  BY DEF gateVars, Entrusted, Trusted, Holders, IsMember
<1> QED
  BY <1>1, CallNumbers DEF GatePart, Done, gateVars

\* The only member has the majority.
LEMMA ClientIsMajority ==
    ASSUME CommitteeInv, GateInv, CommitteePart, assetId # 0, GateVote(Creator, App, TRUE),
           consideredAddr = App
    PROVE  CanEntrust(App) /\ trust' = Entrust(App)
<1>1. Cardinality(Members) \in 0 .. 1
  <2>1. /\ IsFiniteSet({Creator}) /\ Cardinality({Creator}) = 1
    BY FS_Singleton
  <2>2. Cardinality(Members) \in Nat /\ Cardinality(Members) <= Cardinality({Creator})
    BY <2>1, FS_Subset, MembersFinite, FS_CardinalityType DEF CommitteePart
  <2> QED
    BY <2>1, <2>2
<1>2. CommitteeSize \in 0 .. 1
  <2>1. token[CommitteeAddr].amount \in Nat
    BY CommitteeAssumption DEF CommitteeInv, CommitteeTypeOK, CommitteeAccounts, Holding
  <2> QED
    BY <1>1, <2>1, CommitteeAssumption DEF CommitteeInv, ReserveCounts, CommitteeSize
<1> DEFINE rest == Rescinded(yesVotes, Creator, TRUE)
           yes  == Counted(rest, TRUE, TRUE)
<1>3. yes \in Nat /\ yes > 0
  <2>1. yesVotes \in Nat
    BY GateAssumption DEF GateInv, GateTypeOK
  <2>2. rest \in Nat
    BY <2>1 DEF Rescinded, GateVote, CanRescind
  <2>3. yes = rest + 1
    BY Zenon DEF Counted
  <2> HIDE DEF yes, rest
  <2> QED
    BY <2>2, <2>3
<1>4. Majority(yes)
  <2> HIDE DEF yes
  <2> QED
    BY <1>2, <1>3 DEF Majority
<1> QED
  BY <1>4, Zenon DEF GateVote

LEMMA GatePartStep ==
    ASSUME CommitteeInv, GateInv, ScriptInv, CommitteePart, GatePart,
           [EndToEndNext]_endToEndVars
    PROVE  GatePart'
<1>1. /\ pc \in Nat /\ App \in Apps /\ App # NoApp /\ Creator \in People
      /\ GateAddr \notin Receivers /\ App \in Receivers
  <2>1. pc \in Nat
    BY CallNumbers DEF ScriptInv
  <2> QED
    BY <2>1, CommitteeAssumption, GateAssumption, EndToEndAssumption DEF Receivers
<1>2. voter \in [People -> Voter] /\ trust \in [TrustAccounts -> Holding]
  BY DEF GateInv, GateTypeOK
<1>3. ASSUME InitTrustToken, pc' = pc \/ (pc = 7 /\ pc' = 8) PROVE GatePart'
  <2>1. Entrusted = {} /\ Entrusted' = {}
    <3>1. Entrusted' = {}
      BY <1>1, <1>3
      DEF InitTrustToken, Entrusted, Holders, IsMember, TrustAccounts, NewAsset, NoHolding
    <3> QED
      BY <1>3, <3>1, InitTrustInv
  <2>2. initialized' /\ trust'[GateAddr].optedin
    BY <1>3 DEF InitTrustToken, NewAsset, TrustAccounts
  <2>3. ~Done("inittoken_gate") /\ ~Done("optintoken_trust")' /\ ~Done("gate_vote")'
    BY <1>1, <1>3, CallNumbers DEF InitTrustToken, GatePart, Done
  <2>4. UNCHANGED <<considered, consideredAddr, inProgress, voter>>
    BY <1>3 DEF InitTrustToken
  <2> QED
    BY <1>1, <1>3, <2>1, <2>2, <2>3, <2>4, CallNumbers DEF GatePart, Done
<1>4. ASSUME NEW p \in Strangers, OptInGate(p) \/ LeaveGate(p), pc' = pc PROVE GatePart'
  <2>1. p \in People /\ p # Creator
    BY DEF Strangers
  <2>2. /\ voter' = [voter EXCEPT ![p].optedin = TRUE] \/ voter' = [voter EXCEPT ![p] = NoVoter]
        /\ UNCHANGED <<initialized, trust, considered, consideredAddr, inProgress>>
    BY <1>4 DEF OptInGate, LeaveGate
  <2>3. voter'[Creator] = voter[Creator]
    BY <1>1, <1>2, <2>1, <2>2
  <2>4. \A q \in People : voter'[q].app = voter[q].app \/ voter'[q].app = NoApp
    BY <1>2, <2>1, <2>2 DEF NoVoter, Voter
  <2>5. Entrusted' = Entrusted /\ Trusted' = Trusted
    BY <2>2, TrustStutter, TrustedAreEntrusted
  <2> QED
    BY <1>4, <2>2, <2>3, <2>4, <2>5 DEF GatePart, Done
<1>5. CASE CreateGate
  <2>1. CASE At("deploy_gate")
    BY <1>1, <1>5, <2>1, GatePartKept, CallNumbers
    DEF CreateGate, At, OnGate, Other, governanceVars, gateAllVars
  <2>2. CASE At("optin_gate")
    <3>1. pc = 6 /\ pc' = 7 /\ OptInGate(Creator)
      BY <1>5, <2>2, CallNumbers DEF CreateGate, At, OnGate
    <3>2. /\ voter' = [voter EXCEPT ![Creator].optedin = TRUE]
          /\ UNCHANGED <<initialized, trust, considered, consideredAddr, inProgress>>
      BY <3>1 DEF OptInGate
    <3>3. voter'[Creator].optedin /\ \A q \in People : voter'[q].app = voter[q].app
      BY <1>1, <1>2, <3>2 DEF Voter
    <3>4. Entrusted' = Entrusted /\ Trusted' = Trusted
      BY <3>2, TrustStutter, TrustedAreEntrusted
    <3> QED
      BY <3>1, <3>2, <3>3, <3>4, CallNumbers DEF GatePart, Done
  <2>3. CASE At("inittoken_gate")
    BY <1>3, <1>5, <2>3, CallNumbers DEF CreateGate, At, OnGate
  <2> QED
    BY <1>5, <2>1, <2>2, <2>3, Zenon DEF CreateGate
<1>6. CASE CreateProposal
  <2>1. CASE At("optintoken_trust")
    <3>1. pc = 20 /\ pc' = 21 /\ OptInTrust(App)
      BY <1>6, <2>1, CallNumbers DEF CreateProposal, At, OnGate
    <3>2. /\ trust' = [trust EXCEPT ![App].optedin = TRUE]
          /\ UNCHANGED <<initialized, voter, considered, consideredAddr, inProgress>>
      BY <3>1 DEF OptInTrust, Transfer
    <3>3. trust'[App].optedin /\ (trust[GateAddr].optedin => trust'[GateAddr].optedin)
      BY <1>1, <1>2, <3>2 DEF TrustAccounts, Holding
    <3>4. Entrusted' = Entrusted /\ Trusted' = Trusted
      BY <1>1, <3>1, OptInTrustInv, TrustedAreEntrusted
    <3> QED
      BY <3>1, <3>2, <3>3, <3>4, CallNumbers DEF GatePart, Done
  <2>2. CASE ~At("optintoken_trust")
    <3>1. UNCHANGED gateVars /\ pc \in 18 .. 21 /\ pc # 20 /\ pc' = pc + 1
      BY <1>6, <2>2, CallNumbers
      DEF CreateProposal, At, OnProposal, Other, governanceVars, gateAllVars
    <3> QED
      BY <1>1, <3>1, GatePartKept
  <2> QED
    BY <2>1, <2>2
<1>7. CASE PreapproveProposal
  <2>1. CASE At("assess")
    <3>1. pc = 22 /\ pc' = 23 /\ AssessProposal(Creator, App, App)
      <4>1. pc = 22 /\ pc' = 23 /\ ~At("gate_vote")
        BY <2>1, CallNumbers DEF At
      <4> QED
        BY <1>7, <4>1, Zenon DEF PreapproveProposal, OnGate
    <3>2. /\ inProgress' /\ considered' = App /\ consideredAddr' = App
          /\ UNCHANGED <<initialized, trust, voter>>
      BY <3>1 DEF AssessProposal
    <3>3. Entrusted' = Entrusted /\ Trusted' = Trusted
      BY <3>2, TrustStutter, TrustedAreEntrusted
    <3> QED
      BY <3>1, <3>2, <3>3, CallNumbers DEF GatePart, Done
  <2>2. CASE At("gate_vote")
    <3>1. pc = 23 /\ pc' = 24 /\ GateVote(Creator, App, TRUE)
      <4>1. pc = 23 /\ pc' = 24 /\ ~At("assess")
        BY <2>2, CallNumbers DEF At
      <4> QED
        BY <1>7, <4>1, Zenon DEF PreapproveProposal, OnGate
    <3>2. assetId # 0
      BY <3>1, CallNumbers DEF CommitteePart, Done, ScriptInv
    <3>3. CanEntrust(App) /\ trust' = Entrust(App)
      <4>1. consideredAddr = App
        BY <3>1, CallNumbers DEF GatePart, Done
      <4> QED
        BY <3>1, <3>2, <4>1, ClientIsMajority
    <3>4. /\ UNCHANGED initialized
          /\ voter' = [voter EXCEPT ![Creator].app = App, ![Creator].vote = TRUE]
      BY <3>1 DEF GateVote
    <3>5. App \in Trusted'
      BY <1>1, <3>3, <3>4, EntrustInv, TrustedAreEntrusted DEF TrustAccounts
    <3>6. voter'[Creator].optedin = voter[Creator].optedin
      BY <1>2, <3>4 DEF Voter
    <3> QED
      BY <3>1, <3>4, <3>5, <3>6, CallNumbers DEF GatePart, Done
  <2> QED
    BY <1>7, <2>1, <2>2, Zenon DEF PreapproveProposal
<1>8. CASE ClientStep /\ ~CreateGate /\ ~CreateProposal /\ ~PreapproveProposal
  <2>1. UNCHANGED gateVars /\ pc' = pc + 1 /\ pc \notin {6, 7, 20, 22, 23}
    BY <1>8, ClientMoves DEF ClientMove, governanceVars, gateAllVars
  <2> QED
    BY <1>1, <2>1, GatePartKept
<1>9. CASE StrangerStep
  <2>1. StrangerMove /\ pc' = pc
    BY <1>1, <1>9, StrangerMoves DEF clientVars
  <2>2. \/ InitTrustToken
        \/ \E p \in Strangers : OptInGate(p) \/ LeaveGate(p)
        \/ UNCHANGED gateVars
    BY <2>1 DEF StrangerMove, governanceVars, gateAllVars
  <2> QED
    BY <1>1, <1>3, <1>4, <2>1, <2>2, GatePartKept
<1>10. CASE UNCHANGED endToEndVars
  BY <1>1, <1>10, GatePartKept DEF endToEndVars, clientVars, governanceVars, gateAllVars
<1>11. CASE RoundOfScript
  <2>1. UNCHANGED <<pc, initialized, trust, considered, consideredAddr, inProgress, voter>>
    BY <1>11 DEF RoundOfScript, RoundPasses
  <2>2. Entrusted' = Entrusted /\ Trusted' = Trusted
    BY <2>1, TrustStutter, TrustedAreEntrusted
  <2> QED
    BY <2>1, <2>2 DEF GatePart, Done
<1> QED
  BY <1>5, <1>6, <1>7, <1>8, <1>9, <1>10, <1>11, Zenon DEF EndToEndNext
-----------------------------------------------------------------------------
\* The types of the state of the proposals and the DAO, as Governance names it.
DaoStateTypes ==
    /\ round \in Nat
    /\ elec \in [Assets -> [Dao!VoteAccounts -> Holding]]
    /\ voteAsset \in [Apps -> Assets \cup {NoAsset}]
    /\ allVotes \in [Apps -> [OptionArgs -> Nat]]
    /\ ballots \in [Apps -> [People -> Dao!Ballot]]
    /\ passed \in [Apps -> BOOLEAN] /\ implemented \in [Apps -> BOOLEAN]
    /\ treasury \in Nat /\ received \in [Payees -> Nat]

LEMMA DaoStateTyped == DaoFacts!DaoTypes => DaoStateTypes
<1> SUFFICES ASSUME DaoFacts!DaoTypes PROVE DaoStateTypes
  OBVIOUS
<1>1. /\ DaoFacts!Holding = Holding /\ DaoFacts!VoteAccounts = Dao!VoteAccounts
      /\ DaoFacts!Ballot = Dao!Ballot
  BY DEF DaoFacts!Holding, Holding, DaoFacts!VoteAccounts, Dao!VoteAccounts,
         DaoFacts!Ballot, Dao!Ballot
<1>2. Horizon \in Nat /\ MaxFunds \in Nat
  BY DaoAssumption DEF Dao!ProposalAssumption, Dao!AlgoDaoAssumption
<1> QED
  BY <1>1, <1>2 DEF DaoFacts!DaoTypes, DaoFacts!ProposalTypeOK, DaoFacts!DaoTypeOK,
                    DaoStateTypes

\* The proposal of the script.
LEMMA ProposalOfScript ==
    /\ App \in Apps /\ Creator \in People
    /\ Config[App].asset = 1
    /\ Config[App].regBegin = 0 /\ Config[App].regEnd = VotingRounds
    /\ Config[App].voteBegin = 0 /\ Config[App].voteEnd = VotingRounds
    /\ Config[App].data = PaymentRule.data /\ Config[App].type = "PAYMENT"
    /\ Config[App].dao
    /\ Config[App].pay = [payee |-> Receiver, amount |-> PaidAmount]
  BY ScriptAssumption, EndToEndAssumption, CommitteeAssumption DEF ScriptProposal
-----------------------------------------------------------------------------
\* What the second half of a group changes.
LEMMA SecondHalves ==
    ASSUME NEW second, Dao!SecondHalf(second, App)
    PROVE  /\ UNCHANGED <<round, elec, voteAsset, allVotes, slots, passed>>
           /\ \/ UNCHANGED ballots
              \/ Dao!Register(second.by, App) \/ Dao!CloseOut(second.by, App)
           /\ second.completion = "NoOp" => UNCHANGED ballots
  BY DEF Dao!SecondHalf, Dao!SetImplemented, Dao!Register, Dao!CloseOut

(***************************************************************************)
(* The DAO is as the client set it up: until it pays, nobody has opted in  *)
(* to it, so that nobody can clear that, and it has the funds.             *)
(***************************************************************************)
Unspoiled ==
    /\ daoMembers = {} /\ ~implemented[App]
    /\ Done("fund_dao") => PaidAmount <= treasury

DaoPart ==
    /\ ~deleted /\ (finalized <=> Done("finalize"))
    /\ rules = IF Done("addrule") THEN <<PaymentRule>> ELSE <<>>
    /\ Paid \/ Unspoiled

LEMMA DaoPartKept ==
    ASSUME DaoPart, pc \in Nat, UNCHANGED <<daoOwnVars, implemented>>,
           pc' = pc \/ (pc' = pc + 1 /\ pc \notin {8, 9, 10})
    PROVE  DaoPart'
<1>1. /\ Done("addrule")' <=> Done("addrule")
      /\ Done("fund_dao")' <=> Done("fund_dao")
      /\ Done("finalize")' <=> Done("finalize")
  BY CallNumbers DEF Done
<1> QED
  BY <1>1 DEF DaoPart, Unspoiled, Paid, daoOwnVars

\* The proposal pays the whole of what is to be paid.
LEMMA PaymentPays ==
    ASSUME DaoStateTypes, NEW call, Dao!ImplementProposal(call, App)
    PROVE  Paid'
<1>1. received' = [received EXCEPT ![Receiver] = @ + PaidAmount]
  BY ProposalOfScript DEF Dao!ImplementProposal, Dao!Pay, Dao!Pays
<1>2. Receiver \in Payees /\ PaidAmount \in Nat
  <2>1. MaxFunds \in Nat
    BY DaoAssumption DEF Dao!AlgoDaoAssumption
  <2> QED
    BY <2>1, ScriptAssumption, EndToEndAssumption
<1> QED
  BY <1>1, <1>2 DEF DaoStateTypes, Paid

\* Whoever sends the group, and however it is completed.
LEMMA DaoPartGroup ==
    ASSUME DaoStateTypes, DaoPart, pc \in Nat, NEW first, NEW second,
           Dao!ImplementGroup(first, second, App),
           first.by # Creator \/ first.completion = "NoOp",
           pc' = pc \/ (pc' = pc + 1 /\ pc \notin {8, 9, 10})
    PROVE  DaoPart'
<1>1. /\ Done("addrule")' <=> Done("addrule")
      /\ Done("finalize")' <=> Done("finalize")
  BY CallNumbers DEF Done
<1>2. \/ Dao!ImplementProposal(first, App)
      \/ Dao!ClearDao(first.by)
      \/ first.completion = "DeleteApplication" /\ Dao!DeleteDao(first.by)
  BY Zenon DEF Dao!ImplementGroup, Dao!FirstHalf
<1>3. CASE Dao!ImplementProposal(first, App)
  <2>1. Paid' /\ UNCHANGED <<deleted, finalized, rules>>
    BY <1>3, PaymentPays DEF Dao!ImplementProposal
  <2> QED
    BY <1>1, <2>1 DEF DaoPart
<1>4. CASE Dao!ClearDao(first.by)
  <2>1. first.by \in daoMembers /\ UNCHANGED <<deleted, finalized, rules, received>>
    BY <1>4 DEF Dao!ClearDao
  <2>2. Paid /\ Paid'
    BY <2>1 DEF DaoPart, Unspoiled, Paid
  <2> QED
    BY <1>1, <2>1, <2>2 DEF DaoPart
<1>5. CASE first.completion = "DeleteApplication" /\ Dao!DeleteDao(first.by)
  BY <1>5 DEF Dao!DeleteDao, Dao!SetupPhaseApproved
<1> QED
  BY <1>2, <1>3, <1>4, <1>5

LEMMA DaoPartStep ==
    ASSUME DaoStateTypes, ScriptInv, DaoPart, [EndToEndNext]_endToEndVars
    PROVE  DaoPart'
<1>1. pc \in Nat /\ PaidAmount \in Nat
  <2>1. MaxFunds \in Nat
    BY DaoAssumption DEF Dao!AlgoDaoAssumption
  <2> QED
    BY <2>1, CallNumbers, EndToEndAssumption DEF ScriptInv
<1>2. CASE CreateDao
  <2>1. CASE At("addrule")
    <3>1. pc = 8 /\ pc' = 9 /\ ~At("fund_dao") /\ ~At("finalize")
      BY <2>1, CallNumbers DEF At
    <3>2. Dao!AddRule(ByClient, PaymentRule)
      BY <1>2, <3>1, Zenon DEF CreateDao, OnDao
    <3>3. /\ rules' = Append(rules, PaymentRule)
          /\ UNCHANGED <<deleted, finalized, daoMembers, implemented, received>>
      BY <3>2 DEF Dao!AddRule, Dao!Completed, ByClient, Dao!voteVars
    <3>4. rules' = <<PaymentRule>>
      <4>1. ~Done("addrule")
        BY <3>1, CallNumbers DEF Done
      <4>2. rules = <<>>
        BY <4>1 DEF DaoPart
      <4> QED
        BY <3>3, <4>2
    <3>5. /\ Done("addrule")' /\ ~Done("fund_dao")'
          /\ Done("finalize")' <=> Done("finalize")
      BY <3>1, CallNumbers DEF Done
    <3> QED
      BY <3>3, <3>4, <3>5 DEF DaoPart, Unspoiled, Paid
  <2>2. CASE At("fund_dao")
    <3>1. pc = 9 /\ pc' = 10 /\ ~At("addrule") /\ ~At("finalize")
      BY <2>2, CallNumbers DEF At
    <3>2. Dao!FundDao(PaidAmount)
      BY <1>2, <3>1, Zenon DEF CreateDao, OnDao
    <3>3. /\ treasury' = treasury + PaidAmount
          /\ UNCHANGED <<deleted, finalized, rules, daoMembers, implemented, received>>
      BY <3>2 DEF Dao!FundDao, Dao!voteVars
    <3>4. PaidAmount <= treasury'
      BY <1>1, <3>3 DEF DaoStateTypes
    <3>5. /\ Done("addrule")' <=> Done("addrule")
          /\ Done("finalize")' <=> Done("finalize")
      BY <3>1, CallNumbers DEF Done
    <3> QED
      BY <3>3, <3>4, <3>5 DEF DaoPart, Unspoiled, Paid
  <2>3. CASE At("finalize")
    <3>1. pc = 10 /\ pc' = 11 /\ ~At("addrule") /\ ~At("fund_dao")
      BY <2>3, CallNumbers DEF At
    <3>2. Dao!Finalize(ByClient)
      BY <1>2, <3>1, Zenon DEF CreateDao, OnDao
    <3>3. /\ finalized'
          /\ UNCHANGED <<deleted, rules, daoMembers, treasury, received, implemented>>
      BY <3>2 DEF Dao!Finalize, Dao!Completed, ByClient, Dao!voteVars
    <3>4. /\ Done("addrule")' <=> Done("addrule")
          /\ Done("fund_dao")' <=> Done("fund_dao")
          /\ Done("finalize")'
      BY <3>1, CallNumbers DEF Done
    <3> QED
      BY <3>3, <3>4 DEF DaoPart, Unspoiled, Paid
  <2> QED
    BY <1>2, <2>1, <2>2, <2>3, Zenon DEF CreateDao
<1>3. CASE ImplementProposal
  <2>1. pc \in {27, 28} /\ pc' = pc + 1
    BY <1>3, ClientMoves, CallNumbers DEF ImplementProposal, At
  <2>2. \/ Dao!ImplementGroup(ByClient, ByClient, App)
        \/ UNCHANGED <<daoOwnVars, implemented>>
    BY <1>3 DEF ImplementProposal, OnDao, OnProposal, Dao!FinalizeVote
  <2>3. ByClient.completion = "NoOp"
    BY DEF ByClient
  <2> QED
    BY <1>1, <2>1, <2>2, <2>3, DaoPartKept, DaoPartGroup
<1>4. CASE ClientStep /\ ~CreateDao /\ ~ImplementProposal
  <2>1. UNCHANGED daoOwnVars /\ pc' = pc + 1 /\ pc \notin {8, 9, 10}
    BY <1>4, ClientMoves DEF ClientMove, governanceVars, daoStateVars
  <2>2. UNCHANGED implemented
    <3>1. CASE VoteOnProposal
      BY <3>1 DEF VoteOnProposal, OnProposal, Dao!Register, Dao!CastVote
    <3>2. CASE CreateProposal
      BY <3>2 DEF CreateProposal, OnGate, OnProposal, Other, governanceVars, daoStateVars,
                  Dao!OptInVoteToken
    <3>3. CASE ~VoteOnProposal /\ ~CreateProposal
      BY <1>4, <3>3, ClientMoves DEF ClientMove, governanceVars, daoStateVars
    <3> QED
      BY <3>1, <3>2, <3>3
  <2> QED
    BY <1>1, <2>1, <2>2, DaoPartKept
<1>5. CASE StrangerStep
  <2>1. StrangerMove /\ pc' = pc
    BY <1>1, <1>5, StrangerMoves DEF clientVars
  <2>2. \/ UNCHANGED <<daoOwnVars, implemented>>
        \/ \E amount \in 1 .. MaxFunds : Dao!FundDao(amount)
        \/ \E p \in Strangers : Dao!ClearDao(p) /\ UNCHANGED votingVars
        \/ \E first \in StrangersCall, second \in StrangersCall :
              Dao!ImplementGroup(first, second, App)
    BY <2>1 DEF StrangerMove, governanceVars, daoStateVars, Dao!Register, Dao!CloseOut,
                Dao!CastVote, Dao!FinalizeVote
  <2>3. ASSUME NEW amount \in 1 .. MaxFunds, Dao!FundDao(amount) PROVE DaoPart'
    <3>1. /\ treasury' = treasury + amount
          /\ UNCHANGED <<deleted, finalized, rules, daoMembers, implemented, received>>
      BY <2>3 DEF Dao!FundDao, Dao!voteVars
    <3>2. PaidAmount <= treasury => PaidAmount <= treasury'
      BY <1>1, <3>1 DEF DaoStateTypes
    <3> QED
      BY <2>1, <3>1, <3>2 DEF DaoPart, Unspoiled, Paid, Done
  <2>4. ASSUME NEW p \in Strangers, Dao!ClearDao(p) PROVE DaoPart'
    <3>1. p \in daoMembers /\ UNCHANGED <<deleted, finalized, rules, received>>
      BY <2>4 DEF Dao!ClearDao
    <3>2. Paid /\ Paid'
      BY <3>1 DEF DaoPart, Unspoiled, Paid
    <3> QED
      BY <2>1, <3>1, <3>2 DEF DaoPart, Done
  <2>5. ASSUME NEW first \in StrangersCall, NEW second \in StrangersCall,
               Dao!ImplementGroup(first, second, App)
        PROVE  DaoPart'
    <3>1. first.by # Creator
      BY DEF StrangersCall, Strangers
    <3> QED
      BY <1>1, <2>1, <2>5, <3>1, DaoPartGroup
  <2> QED
    BY <1>1, <2>1, <2>2, <2>3, <2>4, <2>5, DaoPartKept
<1>6. CASE RoundOfScript \/ UNCHANGED endToEndVars
  <2>1. UNCHANGED <<pc, daoOwnVars, implemented>>
    BY <1>6 DEF RoundOfScript, RoundPasses, Dao!VoteTick, endToEndVars, clientVars,
                governanceVars, daoStateVars
  <2> QED
    BY <1>1, <2>1, DaoPartKept
<1> QED
  BY <1>2, <1>3, <1>4, <1>5, <1>6, Zenon DEF EndToEndNext

(***************************************************************************)
(* The votes counted are the client's, all of them yes, and registered is  *)
(* the client until the end.                                               *)
(***************************************************************************)
VotePart ==
    /\ voteAsset[App] = 1
    /\ ballots[App][Creator].optedin <=> Done("register")
    /\ ~Done("vote") => ballots[App][Creator].keys = {}
    /\ allVotes[App][Dao!YesKey] = IF Done("vote") THEN VoteUnits ELSE 0
    /\ allVotes[App][Dao!NoKey] = 0
    /\ Done("finalizevote") => passed[App]

LEMMA YesAndNo ==
    /\ Dao!YesKey \in OptionArgs /\ Dao!NoKey \in OptionArgs /\ Dao!YesKey # Dao!NoKey
    /\ VoteUnits \in Nat /\ VoteUnits <= Supply /\ Supply \in Nat
<1>1. Dao!YesKey # Dao!NoKey
  BY DEF Dao!YesKey, Dao!NoKey, Dao!Yes, Dao!No
<1> QED
  BY <1>1, DaoAssumption, EndToEndAssumption DEF Dao!ProposalAssumption

LEMMA VotePartKept ==
    ASSUME VotePart, pc \in Nat, UNCHANGED <<voteAsset, ballots, allVotes, passed>>,
           pc' = pc \/ (pc' = pc + 1 /\ pc \notin {24, 25, 27})
    PROVE  VotePart'
<1>1. /\ Done("register")' <=> Done("register")
      /\ Done("vote")' <=> Done("vote")
      /\ Done("finalizevote")' <=> Done("finalizevote")
  BY CallNumbers DEF Done
<1> QED
  BY <1>1 DEF VotePart

\* The rule for payments takes a percentage of the votes.
LEMMA RuleOfScript ==
    /\ PaymentRule.data \in Dao!VoteData /\ PaymentRule.data # NoData
    /\ PaymentRule.data.pct \in 0 .. 100 /\ MaxUint \in Nat
<1>1. PaymentRule \in Dao!Rule /\ NoData \notin Dao!VoteData /\ MaxUint \in Nat
  BY EndToEndAssumption, DaoAssumption DEF Dao!AlgoDaoAssumption, Dao!ProposalAssumption
<1> QED
  BY <1>1 DEF Dao!Rule, Dao!VoteData

LEMMA PartOfVotes ==
    ASSUME NEW pct \in 0 .. 100, NEW units \in Nat, NEW most \in Nat, units <= most
    PROVE  /\ pct * units \in Nat /\ pct * units <= 100 * most
           /\ (pct * units) \div 100 \in Nat /\ (pct * units) \div 100 <= units
<1>1. pct * units \in Nat /\ pct * units <= 100 * units
  OBVIOUS
<1>2. \A n \in Nat : n <= 100 * units => n \div 100 \in Nat /\ n \div 100 <= units
  OBVIOUS
<1> QED
  BY <1>1, <1>2

\* What the client voted is enough, whatever the percentage.
LEMMA VotesAreEnough ==
    ASSUME VotePart, Done("vote")
    PROVE  LET yes   == allVotes[App][Dao!YesKey]
               total == yes + allVotes[App][Dao!NoKey]
               pct   == PaymentRule.data.pct
           IN  /\ total <= MaxUint /\ pct * total <= MaxUint
               /\ yes >= Dao!MinVotesNeeded(pct, total)
<1> DEFINE pct == PaymentRule.data.pct
<1>1. allVotes[App][Dao!YesKey] = VoteUnits /\ allVotes[App][Dao!NoKey] = 0
  BY DEF VotePart
<1>2. VoteUnits + 0 = VoteUnits
  BY YesAndNo
<1>3. pct \in 0 .. 100
  BY RuleOfScript
<1> HIDE DEF pct
<1>4. /\ pct * VoteUnits \in Nat /\ pct * VoteUnits <= 100 * Supply
      /\ (pct * VoteUnits) \div 100 \in Nat /\ (pct * VoteUnits) \div 100 <= VoteUnits
  BY <1>3, YesAndNo, PartOfVotes
<1>5. pct * VoteUnits <= MaxUint /\ VoteUnits <= MaxUint
  <2>1. \A a, b, c \in Nat : a <= b /\ b <= c => a <= c
    OBVIOUS
  <2>2. 100 * Supply \in Nat /\ 100 * Supply <= MaxUint /\ VoteUnits <= 100 * Supply
    BY YesAndNo, ScriptAssumption
  <2> QED
    BY <1>4, <2>1, <2>2, YesAndNo, RuleOfScript
<1>6. VoteUnits >= Dao!MinVotesNeeded(pct, VoteUnits)
  BY <1>4 DEF Dao!MinVotesNeeded
<1> QED
  BY <1>1, <1>2, <1>5, <1>6 DEF pct

LEMMA VotePartRegister ==
    ASSUME DaoStateTypes, VotePart, pc \in Nat,
           \/ pc = 24 /\ pc' = 25 /\ Dao!Register(Creator, App)
           \/ pc' = pc /\ \E p \in Strangers : Dao!Register(p, App) \/ Dao!CloseOut(p, App)
    PROVE  VotePart'
<1>1. UNCHANGED <<voteAsset, allVotes, passed>>
  BY DEF Dao!Register, Dao!CloseOut
<1>2. /\ ballots'[App][Creator].optedin <=> Done("register")'
      /\ ballots'[App][Creator].keys = ballots[App][Creator].keys
  <2>1. CASE pc = 24 /\ pc' = 25 /\ Dao!Register(Creator, App)
    <3>1. ballots' = [ballots EXCEPT ![App][Creator].optedin = TRUE]
      BY <2>1 DEF Dao!Register
    <3> QED
      BY <2>1, <3>1, ProposalOfScript, CallNumbers DEF DaoStateTypes, Dao!Ballot, Done
  <2>2. ASSUME NEW p \in Strangers, Dao!Register(p, App) \/ Dao!CloseOut(p, App), pc' = pc
        PROVE  /\ ballots'[App][Creator].optedin <=> Done("register")'
               /\ ballots'[App][Creator].keys = ballots[App][Creator].keys
    <3>1. p \in People /\ p # Creator
      BY DEF Strangers
    <3>2. \/ ballots' = [ballots EXCEPT ![App][p].optedin = TRUE]
          \/ ballots' = [ballots EXCEPT ![App][p] = Dao!NotRegistered]
      BY <2>2 DEF Dao!Register, Dao!CloseOut
    <3>3. ballots'[App][Creator] = ballots[App][Creator]
      BY <3>1, <3>2, ProposalOfScript DEF DaoStateTypes
    <3> QED
      BY <2>2, <3>3 DEF VotePart, Done
  <2> QED
    BY <2>1, <2>2
<1>3. /\ Done("vote")' <=> Done("vote")
      /\ Done("finalizevote")' <=> Done("finalizevote")
  BY CallNumbers DEF Done
<1> QED
  BY <1>1, <1>2, <1>3 DEF VotePart

LEMMA VotePartVote ==
    ASSUME DaoStateTypes, VotePart, pc \in Nat, NEW p \in People, NEW arg \in OptionArgs,
           NEW units \in Nat, Dao!CastVote(p, App, arg, Deposit(p, units)),
           \/ pc = 25 /\ pc' = 26 /\ arg = Dao!YesKey /\ units = VoteUnits
           \/ pc' = pc /\ units = 0 /\ p # Creator
    PROVE  VotePart'
<1>1. UNCHANGED <<voteAsset, passed>>
  BY DEF Dao!CastVote
<1>2. /\ ballots'[App][Creator].optedin = ballots[App][Creator].optedin
      /\ p # Creator => ballots'[App][Creator] = ballots[App][Creator]
  <2>1. ballots' = [ballots EXCEPT ![App][p] = Dao!Recorded(ballots[App][p], arg, units)]
    BY DEF Dao!CastVote, Deposit
  <2>2. Dao!Recorded(ballots[App][p], arg, units).optedin = ballots[App][p].optedin
    BY ProposalOfScript DEF DaoStateTypes, Dao!Ballot, Dao!Recorded
  <2> QED
    BY <2>1, <2>2, ProposalOfScript DEF DaoStateTypes
<1>3. /\ allVotes'[App][arg] = allVotes[App][arg] + units
      /\ \A o \in OptionArgs \ {arg} : allVotes'[App][o] = allVotes[App][o]
  <2>1. allVotes' = [allVotes EXCEPT ![App][arg] = allVotes[App][arg] + units]
    BY DEF Dao!CastVote, Dao!NewTally, Deposit
  <2> QED
    BY <2>1, ProposalOfScript DEF DaoStateTypes
<1>4. allVotes[App] \in [OptionArgs -> Nat]
  BY ProposalOfScript DEF DaoStateTypes
<1>5. CASE pc = 25 /\ pc' = 26 /\ arg = Dao!YesKey /\ units = VoteUnits
  <2>1. /\ Done("register") /\ Done("register")' /\ ~Done("vote") /\ Done("vote")'
        /\ ~Done("finalizevote")'
    BY <1>5, CallNumbers DEF Done
  <2> QED
    BY <1>1, <1>2, <1>3, <1>5, <2>1, YesAndNo DEF VotePart
<1>6. CASE pc' = pc /\ units = 0 /\ p # Creator
  <2>1. \A o \in OptionArgs : allVotes'[App][o] = allVotes[App][o]
    BY <1>3, <1>4, <1>6
  <2> QED
    BY <1>1, <1>2, <1>6, <2>1, YesAndNo DEF VotePart, Done
<1> QED
  BY <1>5, <1>6

LEMMA VotePartFinalize ==
    ASSUME DaoStateTypes, VotePart, pc \in Nat, Dao!FinalizeVote(App),
           pc' = pc \/ (pc = 27 /\ pc' = 28)
    PROVE  VotePart'
<1> DEFINE enough == LET yes == allVotes[App][Dao!YesKey] IN
                     yes >= Dao!MinVotesNeeded(PaymentRule.data.pct, yes + allVotes[App][Dao!NoKey])
<1>1. UNCHANGED <<voteAsset, ballots, allVotes>>
  BY DEF Dao!FinalizeVote
<1>2. passed' = [passed EXCEPT ![App] = @ \/ enough]
  BY ProposalOfScript DEF Dao!FinalizeVote
<1>3. passed'[App] <=> passed[App] \/ enough
  BY <1>2, ProposalOfScript, Zenon DEF DaoStateTypes
<1>4. Done("vote") => enough
  BY VotesAreEnough
<1> HIDE DEF enough
<1>5. /\ Done("vote")' <=> Done("vote")
      /\ Done("register")' <=> Done("register")
      /\ Done("finalizevote")' => Done("vote")
  BY CallNumbers DEF Done
<1> QED
  BY <1>1, <1>3, <1>4, <1>5 DEF VotePart

LEMMA VotePartStep ==
    ASSUME DaoStateTypes, ScriptInv, VotePart, [EndToEndNext]_endToEndVars
    PROVE  VotePart'
<1>1. pc \in Nat
  BY CallNumbers DEF ScriptInv
<1>2. CASE VoteOnProposal
  <2>1. CASE At("register")
    <3>1. pc = 24 /\ pc' = 25 /\ ~At("vote")
      BY <2>1, CallNumbers DEF At
    <3>2. Dao!Register(Creator, App)
      BY <1>2, <3>1, Zenon DEF VoteOnProposal, OnProposal
    <3> QED
      BY <1>1, <3>1, <3>2, VotePartRegister
  <2>2. CASE At("vote")
    <3>1. pc = 25 /\ pc' = 26 /\ ~At("register")
      BY <2>2, CallNumbers DEF At
    <3>2. Dao!CastVote(Creator, App, Dao!YesKey, Deposit(Creator, VoteUnits))
      BY <1>2, <3>1, Zenon DEF VoteOnProposal, OnProposal
    <3> QED
      BY <1>1, <3>1, <3>2, VotePartVote, YesAndNo, ProposalOfScript
  <2> QED
    BY <1>2, <2>1, <2>2, Zenon DEF VoteOnProposal
<1>3. CASE ImplementProposal
  <2>1. CASE At("finalizevote")
    <3>1. pc = 27 /\ pc' = 28 /\ ~At("implement")
      BY <2>1, CallNumbers DEF At
    <3>2. Dao!FinalizeVote(App)
      BY <1>3, <3>1, Zenon DEF ImplementProposal, OnProposal
    <3> QED
      BY <1>1, <3>1, <3>2, VotePartFinalize
  <2>2. CASE At("implement")
    <3>1. pc = 28 /\ pc' = 29 /\ ~At("finalizevote")
      BY <2>2, CallNumbers DEF At
    <3>2. Dao!SecondHalf(ByClient, App)
      BY <1>3, <3>1, Zenon DEF ImplementProposal, OnDao, Dao!ImplementGroup
    <3>3. UNCHANGED <<voteAsset, ballots, allVotes, passed>>
      BY <3>2, SecondHalves DEF ByClient
    <3> QED
      BY <1>1, <3>1, <3>3, VotePartKept
  <2> QED
    BY <1>3, <2>1, <2>2, Zenon DEF ImplementProposal
<1>4. CASE ClientStep /\ ~VoteOnProposal /\ ~ImplementProposal
  <2>1. pc' = pc + 1 /\ pc \notin {24, 25, 27}
    BY <1>4, ClientMoves DEF ClientMove
  <2>2. UNCHANGED <<voteAsset, ballots, allVotes, passed>>
    <3>1. CASE CreateDao
      BY <3>1 DEF CreateDao, OnDao, Dao!AddRule, Dao!FundDao, Dao!Finalize, Dao!voteVars
    <3>2. CASE CreateProposal
      BY <3>2 DEF CreateProposal, OnGate, OnProposal, Other, governanceVars, daoStateVars,
                  Dao!OptInVoteToken
    <3>3. CASE ~CreateDao /\ ~CreateProposal
      BY <1>4, <3>3, ClientMoves DEF ClientMove, governanceVars, daoStateVars
    <3> QED
      BY <3>1, <3>2, <3>3
  <2> QED
    BY <1>1, <2>1, <2>2, VotePartKept
<1>5. CASE StrangerStep
  <2>1. StrangerMove /\ pc' = pc
    BY <1>1, <1>5, StrangerMoves DEF clientVars
  <2>2. ASSUME NEW first \in StrangersCall, NEW second \in StrangersCall,
               Dao!ImplementGroup(first, second, App)
        PROVE  VotePart'
    <3>1. second.by \in Strangers /\ Dao!SecondHalf(second, App)
      BY <2>2 DEF StrangersCall, Dao!ImplementGroup
    <3>2. /\ UNCHANGED <<voteAsset, allVotes, passed>>
          /\ \/ UNCHANGED ballots
             \/ Dao!Register(second.by, App) \/ Dao!CloseOut(second.by, App)
      BY <3>1, SecondHalves
    <3> QED
      BY <1>1, <2>1, <3>1, <3>2, VotePartKept, VotePartRegister
  <2>3. ASSUME NEW p \in Strangers, NEW arg \in OptionArgs,
               Dao!CastVote(p, App, arg, Deposit(p, 0))
        PROVE  VotePart'
    <3>1. p \in People /\ p # Creator
      BY DEF Strangers
    <3> QED
      BY <1>1, <2>1, <2>3, <3>1, VotePartVote
  <2>4. \/ UNCHANGED <<voteAsset, ballots, allVotes, passed>>
        \/ \E p \in Strangers : Dao!Register(p, App) \/ Dao!CloseOut(p, App)
        \/ \E p \in Strangers, arg \in OptionArgs : Dao!CastVote(p, App, arg, Deposit(p, 0))
        \/ Dao!FinalizeVote(App)
        \/ \E first \in StrangersCall, second \in StrangersCall :
              Dao!ImplementGroup(first, second, App)
    BY <2>1 DEF StrangerMove, governanceVars, daoStateVars, Dao!FundDao, Dao!voteVars,
                votingVars
  <2> QED
    BY <1>1, <2>1, <2>2, <2>3, <2>4, VotePartKept, VotePartRegister, VotePartFinalize
<1>6. CASE RoundOfScript \/ UNCHANGED endToEndVars
  <2>1. UNCHANGED <<pc, voteAsset, ballots, allVotes, passed>>
    BY <1>6 DEF RoundOfScript, RoundPasses, Dao!VoteTick, endToEndVars, clientVars,
                governanceVars, daoStateVars
  <2> QED
    BY <1>1, <2>1, VotePartKept
<1> QED
  BY <1>2, <1>3, <1>4, <1>5, <1>6, Zenon DEF EndToEndNext
-----------------------------------------------------------------------------
(***************************************************************************)
(* Rounds are counted from the call that reads the last one, and each of   *)
(* the client's calls takes MaxLag of them at most; after the wait, the    *)
(* last round to vote in is over.                                          *)
(***************************************************************************)
ClockPart ==
    /\ ~Done("status") => round = 0
    /\ Timed => round <= MaxLag * (pc - 12) + lag
    /\ Done("wait") => round >= VotingRounds + 2

LEMMA OneMoreCall ==
    ASSUME NEW n \in Nat, NEW l \in 0 .. MaxLag, NEW r \in Nat, r <= MaxLag * n + l
    PROVE  r <= MaxLag * (n + 1) + 0
<1>1. MaxLag \in Nat
  BY EndToEndAssumption
<1>2. MaxLag * n \in Nat /\ MaxLag * (n + 1) = MaxLag * n + MaxLag
  BY <1>1
<1> QED
  BY <1>1, <1>2

LEMMA ClockPartStep ==
    ASSUME DaoStateTypes, ScriptInv, ClockPart, [EndToEndNext]_endToEndVars
    PROVE  ClockPart'
<1>1. /\ pc \in Nat /\ lag \in 0 .. MaxLag /\ round \in Nat
      /\ MaxLag \in Nat /\ VotingRounds \in Nat
  BY CallNumbers, EndToEndAssumption DEF ScriptInv, DaoStateTypes
<1>2. CASE ClientStep
  <2>1. pc' = pc + 1 /\ lag' = 0 /\ ClientMove
    BY <1>2, ClientMoves
  <2>2. UNCHANGED round
    BY <2>1 DEF ClientMove, governanceVars, daoStateVars, CreateDao, OnDao, Dao!AddRule,
                Dao!FundDao, Dao!Finalize, Dao!voteVars, CreateProposal, OnGate, OnProposal,
                Other, Dao!OptInVoteToken, VoteOnProposal, Dao!Register, Dao!CastVote,
                ImplementProposal, Dao!FinalizeVote, Dao!ImplementGroup, Dao!SecondHalf,
                Dao!SetImplemented, Dao!CloseOut
  <2>3. pc = 26 => round >= VotingRounds + 2
    <3>1. pc = 26 => WaitForRound
      BY <2>1 DEF ClientMove
    <3> QED
      BY <1>1, <3>1 DEF WaitForRound
  <2>4. pc \in 12 .. 24 => round <= MaxLag * ((pc + 1) - 12) + 0
    <3>1. ASSUME pc \in 12 .. 24 PROVE round <= MaxLag * ((pc - 12) + 1) + 0
      <4>1. round <= MaxLag * (pc - 12) + lag
        BY <3>1, CallNumbers DEF ClockPart, Timed, Done
      <4> QED
        BY <1>1, <3>1, <4>1, OneMoreCall
    <3>2. ASSUME pc \in 12 .. 24 PROVE (pc - 12) + 1 = (pc + 1) - 12
      BY <3>2
    <3> QED
      BY <3>1, <3>2
  <2>5. pc = 11 => round <= MaxLag * ((pc + 1) - 12) + 0
    BY <1>1, CallNumbers DEF ClockPart, Done
  <2>6. (Timed' => pc \in 11 .. 24) /\ (~Done("status")' => ~Done("status"))
    BY <1>1, <2>1, CallNumbers DEF Timed, Done
  <2>7. Timed' => round' <= MaxLag * (pc' - 12) + lag'
    BY <2>1, <2>2, <2>4, <2>5, <2>6
  <2>8. Done("wait")' => pc = 26 \/ Done("wait")
    BY <1>1, <2>1, CallNumbers DEF Done
  <2> QED
    BY <2>2, <2>3, <2>6, <2>7, <2>8 DEF ClockPart
<1>3. CASE RoundOfScript
  <2>1. pc' = pc /\ round' = round + 1 /\ (lag' = lag + 1 \/ pc = 26)
    BY <1>3, CallNumbers DEF RoundOfScript, RoundPasses, Dao!VoteTick
  <2>2. Done("status")
    BY <1>1, <1>3, CallNumbers DEF RoundOfScript, Timed, Done
  <2>3. (Timed' <=> Timed) /\ (pc = 26 => ~Timed) /\ (Timed => pc \in 12 .. 25)
    BY <1>1, <2>1, CallNumbers DEF Timed, Done
  <2>4. ASSUME Timed, lag' = lag + 1 PROVE round' <= MaxLag * (pc' - 12) + lag'
    <3>1. round <= MaxLag * (pc - 12) + lag /\ MaxLag * (pc - 12) \in Int
      BY <1>1, <2>4 DEF ClockPart
    <3> QED
      BY <1>1, <2>1, <2>4, <3>1
  <2> QED
    BY <1>1, <2>1, <2>2, <2>3, <2>4 DEF ClockPart, Done
<1>4. CASE StrangerStep
  <2>1. StrangerMove /\ UNCHANGED <<pc, lag>>
    BY <1>1, <1>4, StrangerMoves DEF clientVars
  <2>2. UNCHANGED round
    BY <2>1, SecondHalves
    DEF StrangerMove, governanceVars, daoStateVars, Dao!Register, Dao!CloseOut, Dao!CastVote,
        Dao!FinalizeVote, Dao!ImplementGroup, Dao!FundDao, Dao!voteVars, votingVars
  <2> QED
    BY <2>1, <2>2 DEF ClockPart, Timed, Done
<1>5. CASE UNCHANGED endToEndVars
  BY <1>5 DEF ClockPart, Timed, Done, endToEndVars, clientVars, governanceVars, daoStateVars
<1> QED
  BY <1>2, <1>3, <1>4, <1>5, Zenon DEF EndToEndNext

\* The calls up to the vote come in time.
LEMMA InTime ==
    ASSUME DaoStateTypes, ScriptInv, ClockPart, pc \in 12 .. 25
    PROVE  round <= VotingRounds
<1>1. round <= MaxLag * (pc - 12) + lag
  BY CallNumbers DEF ClockPart, Timed, Done
<1>2. lag \in 0 .. MaxLag /\ round \in Nat /\ MaxLag \in Nat /\ VotingRounds \in Nat
      /\ 14 * MaxLag <= VotingRounds
  BY EndToEndAssumption, ScriptAssumption DEF ScriptInv, DaoStateTypes
<1>3. MaxLag * (pc - 12) \in Nat /\ MaxLag * (pc - 12) <= 13 * MaxLag
  <2>1. \A n \in 0 .. 13 : MaxLag * n \in Nat /\ MaxLag * n <= 13 * MaxLag
    BY <1>2
  <2>2. pc - 12 \in 0 .. 13
    OBVIOUS
  <2> QED
    BY <2>1, <2>2
<1> QED
  BY <1>1, <1>2, <1>3
-----------------------------------------------------------------------------
(***************************************************************************)
(* The tree is deployed with what the client has read, which it has built  *)
(* a tree of before.                                                       *)
(***************************************************************************)
TreePart ==
    /\ Done("deploy_tree") <=> snapshot # <<>>
    /\ Done("status") => Tree!BuildsTree(Len(distribution))

LEMMA TreePartKept ==
    ASSUME TreePart, pc \in Nat, UNCHANGED <<snapshot, distribution>>,
           pc' = pc \/ (pc' = pc + 1 /\ pc \notin {11, 12})
    PROVE  TreePart'
<1>1. /\ Done("deploy_tree")' <=> Done("deploy_tree")
      /\ Done("status")' <=> Done("status")
  BY CallNumbers DEF Done
<1> QED
  BY <1>1 DEF TreePart

LEMMA DistributionNotEmpty == \A d \in Distributions : d # <<>>
<1> SUFFICES ASSUME NEW d \in Distributions PROVE DOMAIN d # {}
  OBVIOUS
<1> QED
  BY DistributionShape

LEMMA TreePartStep ==
    ASSUME ScriptInv, TreePart, [EndToEndNext]_endToEndVars
    PROVE  TreePart'
<1>1. pc \in Nat
  BY CallNumbers DEF ScriptInv
<1>2. CASE BuildDistribution
  <2>1. pc = 11 /\ pc' = 12 /\ UNCHANGED snapshot
    BY <1>2, CallNumbers DEF BuildDistribution, At, Other, treeOwnVars
  <2>2. Tree!BuildsTree(Len(distribution'))
    BY <1>2, Zenon DEF BuildDistribution
  <2> QED
    BY <2>1, <2>2, CallNumbers DEF TreePart, Done
<1>3. CASE CreateElection
  <2>1. CASE At("deploy_tree")
    <3>1. pc = 12 /\ pc' = 13 /\ ~At("fund_tree") /\ ~At("inittoken_tree")
          /\ ~At("optin_election") /\ ~At("claim") /\ ~At("fund_receiver")
      BY <2>1, CallNumbers DEF At
    <3>2. Tree!DeployTree(distribution) /\ UNCHANGED distribution
      BY <1>3, <3>1, Zenon DEF CreateElection, OnTree
    <3>3. snapshot' = distribution
      BY <3>2 DEF Tree!DeployTree
    <3>4. distribution # <<>>
      BY <3>1, DistributionNotEmpty, CallNumbers DEF ScriptInv, TreeInv, Done
    <3> QED
      BY <3>1, <3>2, <3>3, <3>4, CallNumbers DEF TreePart, Done
  <2>2. CASE ~At("deploy_tree")
    <3>1. pc \in 12 .. 17 /\ pc' = pc + 1 /\ UNCHANGED distribution
      <4>1. \/ At("fund_tree") \/ At("inittoken_tree")
            \/ At("optin_election") \/ At("claim") \/ At("fund_receiver")
        BY <1>3, <2>2, Zenon DEF CreateElection
      <4> QED
        BY <1>3, <4>1, CallNumbers DEF CreateElection, At
    <3>2. pc # 12
      BY <2>2, <3>1, <1>3, ClientMoves, CallNumbers DEF At, ClientStep
    <3>3. UNCHANGED snapshot
      BY <1>3, <2>2
      DEF CreateElection, OnTree, Tree!InitElectionToken, Tree!MoveUnits, Tree!Claim,
          Other, treeOwnVars
    <3> QED
      BY <1>1, <3>1, <3>2, <3>3, TreePartKept
  <2> QED
    BY <2>1, <2>2
<1>4. CASE ClientStep /\ ~BuildDistribution /\ ~CreateElection
  <2>1. pc' = pc + 1 /\ pc \notin {11, 12} /\ UNCHANGED snapshot /\ UNCHANGED distribution
    <3>1. pc' = pc + 1 /\ ClientMove
      BY <1>4, ClientMoves
    <3>2. UNCHANGED distribution
      BY <1>4 DEF ClientStep, CreateCommittee, CreateGovernanceToken, CreateGate, CreateDao,
                  CreateProposal, PreapproveProposal, VoteOnProposal, WaitForRound,
                  ImplementProposal
    <3> QED
      BY <1>4, <3>1, <3>2 DEF ClientMove, treeOwnVars
  <2> QED
    BY <1>1, <2>1, TreePartKept
<1>5. CASE StrangerStep \/ RoundOfScript \/ UNCHANGED endToEndVars
  <2>1. UNCHANGED <<pc, snapshot, distribution>>
    <3>1. CASE StrangerStep
      BY <1>1, <3>1, StrangerMoves DEF StrangerMove, clientVars, treeOwnVars
    <3>2. CASE RoundOfScript \/ UNCHANGED endToEndVars
      BY <3>2 DEF RoundOfScript, endToEndVars, clientVars, treeOwnVars
    <3> QED
      BY <1>5, <3>1, <3>2
  <2> QED
    BY <1>1, <2>1, TreePartKept
<1> QED
  BY <1>2, <1>3, <1>4, <1>5, Zenon DEF EndToEndNext
-----------------------------------------------------------------------------
LEMMA TransferFlags ==
    ASSUME NEW accounts, NEW ledger \in [accounts -> Holding],
           NEW from \in accounts, NEW to \in accounts, NEW n \in Nat, NEW a \in accounts
    PROVE  LET new == Transfer(ledger, from, to, n) IN
           /\ new[a].frozen = ledger[a].frozen
           /\ ledger[a].optedin => new[a].optedin
           /\ n = 0 => new[a].amount = ledger[a].amount
           /\ n = 0 /\ from = to => new[from].optedin
<1>1. CASE n = 0
  BY <1>1 DEF Transfer, Holding
<1>2. CASE n # 0
  <2> DEFINE less == [ledger EXCEPT ![from].amount = @ - n]
  <2>1. Transfer(ledger, from, to, n) = [less EXCEPT ![to].amount = @ + n]
    BY <1>2 DEF Transfer
  <2>2. DOMAIN less = accounts /\ less[a].frozen = ledger[a].frozen
        /\ less[a].optedin = ledger[a].optedin /\ DOMAIN less[a] = DOMAIN ledger[a]
    BY DEF Holding
  <2> HIDE DEF less
  <2>3. /\ [less EXCEPT ![to].amount = @ + n][a].frozen = ledger[a].frozen
        /\ [less EXCEPT ![to].amount = @ + n][a].optedin = ledger[a].optedin
    BY <2>2
  <2> QED
    BY <1>2, <2>1, <2>3
<1> QED
  BY <1>1, <1>2

(***************************************************************************)
(* Nobody can freeze the election token; the issuer has all of it until    *)
(* the client claims it, and the client at least as much until it votes.   *)
(***************************************************************************)
TokenPart ==
    /\ \A a \in Dao!VoteAccounts : ~elec[1][a].frozen
    /\ elec[1][Issuer].optedin
    /\ ~Done("claim") => elec[1][Issuer].amount = Supply
    /\ Done("optin_election") => elec[1][Creator].optedin
    /\ Done("optintoken_election") => elec[1][App].optedin
    /\ Done("claim") /\ ~Done("vote") => Supply <= elec[1][Creator].amount

ElectionMoves(from, to, n) ==
    /\ CanTransfer(elec[1], from, to, n)
    /\ elec' = [elec EXCEPT ![1] = Transfer(@, from, to, n)]

LEMMA TokenPartKept ==
    ASSUME TokenPart, pc \in Nat, UNCHANGED elec,
           pc' = pc \/ (pc' = pc + 1 /\ pc \notin {15, 16, 21})
    PROVE  TokenPart'
<1>1. /\ Done("claim")' <=> Done("claim")
      /\ Done("optin_election")' <=> Done("optin_election")
      /\ Done("optintoken_election")' <=> Done("optintoken_election")
      /\ Done("vote") => Done("vote")'
  BY CallNumbers DEF Done
<1> QED
  BY <1>1 DEF TokenPart

LEMMA AccountsOfScript ==
    /\ Creator \in Dao!VoteAccounts /\ App \in Dao!VoteAccounts /\ Issuer \in Dao!VoteAccounts
    /\ Creator # Issuer /\ App # Issuer /\ \A p \in People : p # App /\ p \in Dao!VoteAccounts
    /\ 1 \in Assets
  BY EndToEndAssumption, CommitteeAssumption, DaoAssumption
  DEF Dao!VoteAccounts, Dao!ProposalAssumption

LEMMA TokenPartMoves ==
    ASSUME DaoStateTypes, TokenPart, NEW from \in Dao!VoteAccounts, NEW to \in Dao!VoteAccounts,
           NEW n \in Nat, ElectionMoves(from, to, n), pc' = pc + 1,
           \/ pc = 15 /\ from = Creator /\ to = Creator /\ n = 0
           \/ pc = 16 /\ from = Issuer /\ to = Creator /\ n = Supply
           \/ pc = 21 /\ from = App /\ to = App /\ n = 0
           \/ pc = 25 /\ from = Creator /\ to = App
    PROVE  TokenPart'
<1> DEFINE old == elec[1]
           new == Transfer(old, from, to, n)
<1>1. elec'[1] = new
  BY AccountsOfScript DEF ElectionMoves, DaoStateTypes
<1>2. old \in [Dao!VoteAccounts -> Holding]
  BY AccountsOfScript DEF DaoStateTypes
<1>3. /\ \A a \in Dao!VoteAccounts : /\ new[a].frozen = old[a].frozen
                                     /\ old[a].optedin => new[a].optedin
                                     /\ n = 0 => new[a].amount = old[a].amount
      /\ n = 0 /\ from = to => new[from].optedin
  BY <1>2, TransferFlags
<1>4. \A a \in Dao!VoteAccounts \ {from} :
          new[a].amount = IF a = to THEN old[a].amount + n ELSE old[a].amount
  BY <1>2, TransferAmounts
<1>5. /\ old[Creator].amount \in Nat
      /\ \A a \in Dao!VoteAccounts : ~old[a].frozen
      /\ old[Issuer].optedin
      /\ ~Done("claim") => old[Issuer].amount = Supply
      /\ Done("optin_election") => old[Creator].optedin
      /\ Done("optintoken_election") => old[App].optedin
      /\ Done("claim") /\ ~Done("vote") => Supply <= old[Creator].amount
  BY <1>2, AccountsOfScript DEF TokenPart, Holding
<1>6. Supply \in Nat
  BY YesAndNo
<1> HIDE DEF old, new
<1>7. /\ \A a \in Dao!VoteAccounts : ~new[a].frozen
      /\ new[Issuer].optedin
  BY <1>3, <1>5, AccountsOfScript
<1>8. /\ ~Done("claim")' => new[Issuer].amount = Supply
      /\ Done("optin_election")' => new[Creator].optedin
      /\ Done("optintoken_election")' => new[App].optedin
      /\ Done("claim")' /\ ~Done("vote")' => Supply <= new[Creator].amount
  <2>1. CASE pc = 15 /\ from = Creator /\ to = Creator /\ n = 0
    BY <1>3, <1>5, <2>1, AccountsOfScript, CallNumbers DEF Done
  <2>2. CASE pc = 16 /\ from = Issuer /\ to = Creator /\ n = Supply
    <3>1. new[Creator].amount = old[Creator].amount + Supply
      BY <1>4, <2>2, AccountsOfScript
    <3>2. Supply <= new[Creator].amount
      BY <1>5, <1>6, <3>1
    <3> QED
      BY <1>3, <1>5, <2>2, <3>2, AccountsOfScript, CallNumbers DEF Done
  <2>3. CASE pc = 21 /\ from = App /\ to = App /\ n = 0
    BY <1>3, <1>5, <2>3, AccountsOfScript, CallNumbers DEF Done
  <2>4. CASE pc = 25 /\ from = Creator /\ to = App
    BY <1>3, <1>5, <2>4, AccountsOfScript, CallNumbers DEF Done
  <2> QED
    BY <2>1, <2>2, <2>3, <2>4
<1> QED
  BY <1>1, <1>7, <1>8 DEF TokenPart

\* The transfers of the script, and of those who vote with no units.
LEMMA DepositMoves ==
    ASSUME NEW p \in People, NEW arg, NEW units, VotePart,
           Dao!CastVote(p, App, arg, Deposit(p, units))
    PROVE  ElectionMoves(p, App, units)
<1>1. Dao!CanMove(Deposit(p, units)) /\ Dao!Move(Deposit(p, units))
  BY DEF Dao!CastVote
<1> QED
  BY <1>1 DEF Dao!CanMove, Dao!Move, Dao!CanTransfer, Dao!Transfer, Dao!Movable, CanTransfer,
              Transfer, Movable, Deposit, ElectionMoves

LEMMA TokenPartStep ==
    ASSUME DaoStateTypes, ScriptInv, VotePart, TokenPart, [EndToEndNext]_endToEndVars
    PROVE  TokenPart'
<1>1. /\ pc \in Nat /\ Supply \in Nat /\ 0 \in Nat /\ VoteUnits \in Nat
  BY CallNumbers, YesAndNo DEF ScriptInv
<1>2. CASE CreateElection
  <2>1. pc' = pc + 1 /\ pc \in 12 .. 17
    BY <1>2, ClientMoves, CallNumbers DEF ClientStep, CreateElection, At
  <2>2. CASE At("deploy_tree") \/ At("fund_tree") \/ At("fund_receiver")
    <3>1. pc \in {12, 13, 17} /\ ~At("inittoken_tree") /\ ~At("optin_election") /\ ~At("claim")
      BY <2>2, CallNumbers DEF At
    <3>2. OnTree(Tree!DeployTree(distribution)) \/ Other
      BY <1>2, <3>1, Zenon DEF CreateElection
    <3>3. UNCHANGED elec
      BY <3>2 DEF OnTree, Tree!DeployTree, Other, governanceVars, daoStateVars
    <3> QED
      BY <1>1, <2>1, <3>1, <3>3, TokenPartKept
  <2>3. CASE At("inittoken_tree")
    <3>1. pc = 14 /\ ~At("deploy_tree") /\ ~At("fund_tree") /\ ~At("optin_election")
          /\ ~At("claim") /\ ~At("fund_receiver") /\ ~Done("inittoken_tree")
      BY <2>3, CallNumbers DEF At, Done
    <3>2. Tree!InitElectionToken(Creator, Supply)
      BY <1>2, <3>1, Zenon DEF CreateElection, OnTree
    <3>3. /\ electionAsset = 0
          /\ elec = [asset \in Assets |-> NewAsset(Dao!VoteAccounts, Issuer, Supply)]
      BY <3>1 DEF ScriptInv, TreeInv
    <3>4. elec' = [elec EXCEPT ![1] = NewAsset(Dao!VoteAccounts, Issuer, Supply)]
      BY <3>2, <3>3
      DEF Tree!InitElectionToken, Tree!NewAsset, NewAsset, Tree!NoHolding, NoHolding
    <3>5. elec' = elec
      BY <3>3, <3>4, AccountsOfScript
    <3> QED
      BY <1>1, <2>1, <3>1, <3>5, TokenPartKept
  <2>4. CASE At("optin_election")
    <3>1. pc = 15 /\ ~At("deploy_tree") /\ ~At("fund_tree") /\ ~At("inittoken_tree")
          /\ ~At("claim") /\ ~At("fund_receiver")
      BY <2>4, CallNumbers DEF At
    <3>2. Tree!MoveUnits(1, Creator, Creator, 0)
      BY <1>2, <3>1, Zenon DEF CreateElection, OnTree
    <3>3. ElectionMoves(Creator, Creator, 0)
      BY <3>2 DEF Tree!MoveUnits, Tree!CanTransfer, Tree!Transfer, Tree!Movable, CanTransfer,
                  Transfer, Movable, ElectionMoves
    <3> QED
      BY <1>1, <2>1, <3>1, <3>3, TokenPartMoves, AccountsOfScript
  <2>5. CASE At("claim")
    <3>1. pc = 16 /\ ~At("deploy_tree") /\ ~At("fund_tree") /\ ~At("inittoken_tree")
          /\ ~At("optin_election") /\ ~At("fund_receiver")
      BY <2>5, CallNumbers DEF At
    <3>2. Tree!Claim(Creator, CreatorIndex)
      BY <1>2, <3>1, Zenon DEF CreateElection, OnTree
    <3>3. Tree!PayUnits(Creator, Supply) /\ electionAsset = 1
      BY <3>2, ClientClaimsAll DEF Tree!Claim
    <3>4. ElectionMoves(Issuer, Creator, Supply)
      BY <3>3 DEF Tree!PayUnits, Tree!CanTransfer, Tree!Transfer, Tree!Movable, CanTransfer,
                  Transfer, Movable, ElectionMoves
    <3> QED
      BY <1>1, <2>1, <3>1, <3>4, TokenPartMoves, AccountsOfScript
  <2> QED
    BY <1>2, <2>2, <2>3, <2>4, <2>5, Zenon DEF CreateElection
<1>3. CASE CreateProposal
  <2>1. pc' = pc + 1 /\ pc \in 18 .. 21
    BY <1>3, ClientMoves, CallNumbers DEF ClientStep, CreateProposal, At
  <2>2. CASE At("optintoken_election")
    <3>1. pc = 21 /\ ~At("deploy_proposal") /\ ~At("fund_proposal") /\ ~At("optintoken_trust")
      BY <2>2, CallNumbers DEF At
    <3>2. Dao!OptInVoteToken(Creator, App, 1)
      BY <1>3, <3>1, Zenon DEF CreateProposal, OnProposal
    <3>3. ElectionMoves(App, App, 0)
      BY <3>2 DEF Dao!OptInVoteToken, Dao!Transfer, CanTransfer, Transfer, ElectionMoves
    <3> QED
      BY <1>1, <2>1, <3>1, <3>3, TokenPartMoves, AccountsOfScript
  <2>3. CASE ~At("optintoken_election")
    <3>1. UNCHANGED elec
      BY <1>3, <2>3 DEF CreateProposal, OnGate, Other, governanceVars, daoStateVars
    <3>2. pc # 21
      <4>1. \/ At("deploy_proposal") \/ At("fund_proposal") \/ At("optintoken_trust")
        BY <1>3, <2>3, Zenon DEF CreateProposal
      <4> QED
        BY <4>1, CallNumbers DEF At
    <3> QED
      BY <1>1, <2>1, <3>1, <3>2, TokenPartKept
  <2> QED
    BY <2>2, <2>3
<1>4. CASE VoteOnProposal
  <2>1. CASE At("register")
    <3>1. pc = 24 /\ pc' = 25 /\ ~At("vote")
      BY <2>1, CallNumbers DEF At
    <3>2. UNCHANGED elec
      BY <1>4, <3>1 DEF VoteOnProposal, OnProposal, Dao!Register
    <3> QED
      BY <1>1, <3>1, <3>2, TokenPartKept
  <2>2. CASE At("vote")
    <3>1. pc = 25 /\ pc' = pc + 1 /\ ~At("register")
      BY <2>2, CallNumbers DEF At
    <3>2. Dao!CastVote(Creator, App, Dao!YesKey, Deposit(Creator, VoteUnits))
      BY <1>4, <3>1, Zenon DEF VoteOnProposal, OnProposal
    <3>3. ElectionMoves(Creator, App, VoteUnits)
      BY <3>2, DepositMoves, ProposalOfScript
    <3> QED
      BY <1>1, <3>1, <3>3, TokenPartMoves, AccountsOfScript
  <2> QED
    BY <1>4, <2>1, <2>2, Zenon DEF VoteOnProposal
<1>5. CASE ClientStep /\ ~CreateElection /\ ~CreateProposal /\ ~VoteOnProposal
  <2>1. pc' = pc + 1 /\ ClientMove
    BY <1>5, ClientMoves
  <2>2. UNCHANGED elec /\ pc \notin {15, 16, 21}
    BY <1>5, <2>1
    DEF ClientMove, governanceVars, daoStateVars, CreateDao, OnDao, Dao!AddRule, Dao!FundDao,
        Dao!Finalize, Dao!voteVars, ImplementProposal, OnProposal, Dao!FinalizeVote,
        Dao!ImplementGroup, Dao!SecondHalf, Dao!SetImplemented, Dao!Register, Dao!CloseOut
  <2> QED
    BY <1>1, <2>1, <2>2, TokenPartKept
<1>6. CASE StrangerStep
  <2>1. StrangerMove /\ pc' = pc
    BY <1>1, <1>6, StrangerMoves DEF clientVars
  <2>2. \/ UNCHANGED elec
        \/ \E p \in Strangers, arg \in OptionArgs : Dao!CastVote(p, App, arg, Deposit(p, 0))
    BY <2>1, SecondHalves
    DEF StrangerMove, governanceVars, daoStateVars, Dao!Register, Dao!CloseOut,
        Dao!FinalizeVote, Dao!ImplementGroup, Dao!FundDao, Dao!voteVars, votingVars
  <2>3. ASSUME NEW p \in Strangers, NEW arg, Dao!CastVote(p, App, arg, Deposit(p, 0))
        PROVE  UNCHANGED elec
    <3>1. p \in People /\ p # App
      BY AccountsOfScript DEF Strangers
    <3>2. elec' = [elec EXCEPT ![1] = Transfer(@, p, App, 0)]
      BY <2>3, <3>1, DepositMoves DEF ElectionMoves
    <3>3. elec' = [elec EXCEPT ![1] = @]
      BY <3>1, <3>2 DEF Transfer
    <3> QED
      BY <3>3 DEF DaoStateTypes
  <2> QED
    BY <1>1, <2>1, <2>2, <2>3, TokenPartKept
<1>7. CASE RoundOfScript \/ UNCHANGED endToEndVars
  <2>1. UNCHANGED <<pc, elec>>
    BY <1>7 DEF RoundOfScript, RoundPasses, Dao!VoteTick, endToEndVars, clientVars,
                governanceVars, daoStateVars
  <2> QED
    BY <1>1, <2>1, TokenPartKept
<1> QED
  BY <1>2, <1>3, <1>4, <1>5, <1>6, <1>7, Zenon DEF EndToEndNext
-----------------------------------------------------------------------------
(***************************************************************************)
(* All of it together is inductive.                                        *)
(***************************************************************************)
ScriptParts ==
    /\ CommitteePart /\ GatePart
    /\ DaoPart /\ VotePart /\ ClockPart
    /\ TreePart /\ TokenPart

\* Nothing is done yet.
LEMMA NothingDone ==
    ASSUME pc = 1
    PROVE  /\ ~Done("inittoken_committee") /\ ~Done("optin_committee") /\ ~Done("setmembers")
           /\ ~Done("optin_gate") /\ ~Done("inittoken_gate")
           /\ ~Done("addrule") /\ ~Done("fund_dao") /\ ~Done("finalize") /\ ~Done("status")
           /\ ~Done("deploy_tree") /\ ~Done("optin_election") /\ ~Done("claim")
           /\ ~Done("optintoken_trust") /\ ~Done("optintoken_election") /\ ~Done("assess")
           /\ ~Done("gate_vote") /\ ~Done("register") /\ ~Done("vote") /\ ~Done("wait")
           /\ ~Done("finalizevote")
  BY CallNumbers DEF Done

LEMMA ScriptPartsInit == EndToEndInit => ScriptParts
<1> SUFFICES ASSUME EndToEndInit PROVE ScriptParts
  OBVIOUS
<1> USE NothingDone
<1>1. pc = 1 /\ CommitteeInit /\ GateInit /\ Dao!ProposalInit /\ Dao!DaoInit
  BY DEF EndToEndInit, GovernanceInit
<1>2. CommitteePart
  <2>1. Members = {}
    BY <1>1 DEF CommitteeInit, Members, Holders, IsMember, NoHolding, CommitteeAccounts
  <2> QED
    BY <1>1, <2>1 DEF CommitteePart, EndToEndInit
<1>3. GatePart
  <2>1. ~initialized /\ ~inProgress /\ voter = [p \in People |-> NoVoter] /\ Creator \in People
    BY <1>1, CommitteeAssumption DEF GateInit
  <2>2. Entrusted = {}
    BY <1>1, GovernanceInvInit DEF EndToEndInit, GateInv, TrustReserve, GateInit
  <2> QED
    BY <1>1, <2>1, <2>2 DEF GatePart, NoVoter
<1>4. DaoPart
  BY <1>1, ProposalOfScript DEF DaoPart, Unspoiled, Dao!DaoInit, Dao!ProposalInit
<1>5. VotePart
  <2>1. /\ voteAsset[App] = Config[App].asset /\ allVotes[App] = Dao!NoVotes
        /\ ballots[App][Creator] = Dao!NotRegistered
    BY <1>1, ProposalOfScript DEF Dao!ProposalInit
  <2>2. /\ Dao!NoVotes[Dao!YesKey] = 0 /\ Dao!NoVotes[Dao!NoKey] = 0
        /\ ~Dao!NotRegistered.optedin /\ Dao!NotRegistered.keys = {}
    BY YesAndNo DEF Dao!NoVotes, Dao!NotRegistered
  <2> QED
    BY <1>1, <2>1, <2>2, ProposalOfScript DEF VotePart
<1>6. ClockPart
  BY <1>1 DEF ClockPart, Timed, Dao!ProposalInit
<1>7. TreePart
  BY <1>1 DEF TreePart, EndToEndInit
<1>8. TokenPart
  <2>1. elec[1] = NewAsset(Dao!VoteAccounts, Issuer, Supply)
    BY <1>1, AccountsOfScript DEF Dao!ProposalInit, Dao!NewAsset, NewAsset, Dao!NoHolding, NoHolding
  <2> QED
    BY <1>1, <2>1, AccountsOfScript DEF TokenPart, NewAsset, NoHolding
<1> QED
  BY <1>2, <1>3, <1>4, <1>5, <1>6, <1>7, <1>8 DEF ScriptParts

LEMMA ScriptPartsStep ==
    ASSUME CommitteeInv, GateInv, DaoStateTypes, ScriptInv, ScriptParts,
           [EndToEndNext]_endToEndVars
    PROVE  ScriptParts'
  BY CommitteePartStep, GatePartStep, DaoPartStep, VotePartStep, ClockPartStep, TreePartStep,
     TokenPartStep, Zenon
  DEF ScriptParts

LEMMA ScriptPartsInvariant ==
    EndToEndSpec => [](CommitteeInv /\ GateInv /\ DaoStateTypes /\ ScriptInv /\ ScriptParts)
<1>1. EndToEndInit => ScriptParts
  BY ScriptPartsInit
<1>2. /\ CommitteeInv /\ GateInv /\ DaoFacts!DaoTypes /\ ScriptInv /\ ScriptParts
      /\ [EndToEndNext]_endToEndVars
      => ScriptParts'
  BY ScriptPartsStep, DaoStateTyped
<1> QED
  BY <1>1, <1>2, ScriptInvariant, ScriptGate, ScriptDao, DaoStateTyped, PTL DEF EndToEndSpec
-----------------------------------------------------------------------------
LEMMA MembersCanBeSet ==
    ASSUME CommitteeInv, CommitteePart, assetId = committeeAsset, pc = 3
    PROVE  token[CommitteeAddr].amount = MaxMembers /\ CanAddMembers({Creator})
<1>1. Done("inittoken_committee") /\ Done("optin_committee") /\ ~Done("setmembers")
  BY CallNumbers DEF Done
<1>2. Members = {} /\ assetId # 0 /\ token[Creator].optedin
  BY <1>1 DEF CommitteePart
<1>3. Cardinality(Members) = 0 /\ Cardinality({Creator}) = 1
  BY <1>2, FS_EmptySet, FS_Singleton
<1>4. /\ token[CommitteeAddr].amount \in Nat /\ MaxMembers \in Nat
      /\ Creator \in People /\ token[Creator].amount \in {0, 1}
  BY CommitteeAssumption
  DEF CommitteeInv, CommitteeTypeOK, CommitteeAccounts, Holding, UnitsFrozen
<1>5. token[CommitteeAddr].amount = MaxMembers /\ Movable(token, CommitteeAddr)
  BY <1>2, <1>3, <1>4 DEF CommitteeInv, ReserveCounts, Movable
<1>6. Movable(token, Creator)
  <2>1. ~IsMember(token, Creator)
    BY <1>2, <1>4 DEF Members, Holders
  <2> QED
    BY <1>2, <1>4, <2>1 DEF IsMember, CommitteeInv, UnitsFrozen, Movable
<1> QED
  BY <1>3, <1>4, <1>5, <1>6, ScriptAssumption DEF CanAddMembers

LEMMA ProposalCanBeTrusted ==
    ASSUME GateInv, GatePart, pc = 23
    PROVE  /\ voter[Creator].optedin
           /\ inProgress /\ considered = App /\ consideredAddr = App
           /\ CanRescind(Creator) /\ CanEntrust(App)
<1>1. /\ Done("optin_gate") /\ Done("inittoken_gate") /\ Done("optintoken_trust")
      /\ Done("assess") /\ ~Done("gate_vote")
  BY CallNumbers DEF Done
<1>2. /\ Creator \in People /\ App \in Receivers /\ App # NoApp /\ GateAddr \notin Receivers
      /\ TrustTotal \in Nat /\ TrustTotal > 0
  BY CommitteeAssumption, GateAssumption, EndToEndAssumption, ScriptAssumption DEF Receivers
<1>3. /\ voter[Creator].optedin /\ inProgress /\ considered = App /\ consideredAddr = App
      /\ voter[Creator].app = NoApp
      /\ initialized /\ trust[GateAddr].optedin /\ trust[App].optedin /\ Entrusted = {}
  BY <1>1, <1>2 DEF GatePart
<1>4. CanRescind(Creator)
  BY <1>2, <1>3 DEF CanRescind, VotedOn
<1>5. trust \in [TrustAccounts -> Holding] /\ GateAddr \in TrustAccounts /\ App \in TrustAccounts
  BY <1>2 DEF GateInv, GateTypeOK, TrustAccounts
<1>6. trust[GateAddr].amount = TrustTotal
  BY <1>2, <1>3, <1>5, FS_EmptySet DEF GateInv, TrustReserve, Holding
<1>7. ~trust[App].frozen
  <2>1. ~IsMember(trust, App)
    BY <1>2, <1>3 DEF Entrusted, Holders
  <2> QED
    BY <1>2, <1>3, <1>5, <2>1 DEF IsMember, GateInv, TrustUnits, Holding
<1> DEFINE thawed == SetAssetFreeze(trust, GateAddr, FALSE)
<1>8. /\ thawed[GateAddr].optedin /\ ~thawed[GateAddr].frozen
      /\ thawed[GateAddr].amount >= 1
      /\ thawed[App].optedin /\ ~thawed[App].frozen
  BY <1>2, <1>3, <1>5, <1>6, <1>7 DEF SetAssetFreeze, Holding
<1>9. CanEntrust(App)
  BY <1>3, <1>8 DEF CanEntrust, CanFreeze, CanTransfer, Movable
<1> QED
  BY <1>3, <1>4, <1>9

LEMMA RoomForFirst == Dao!HasRoom({}, Dao!YesKey)
<1>1. \A S : Dao!Cardinality(S) = Cardinality(S)
  BY DEF Dao!Cardinality, Cardinality
<1>2. Cardinality({Dao!YesKey}) = 1
  BY FS_Singleton
<1>3. NumOptions \in Nat /\ NumOptions >= 2
  BY DaoAssumption DEF Dao!ProposalAssumption
<1>4. {} \cup {Dao!YesKey} = {Dao!YesKey}
  OBVIOUS
<1> QED
  BY <1>1, <1>2, <1>3, <1>4 DEF Dao!HasRoom

LEMMA VoteCanBeCast ==
    ASSUME DaoStateTypes, ScriptInv, VotePart, TokenPart, pc = 25
    PROVE  LET deposit == Deposit(Creator, VoteUnits) IN
           /\ ballots[App][Creator].optedin
           /\ Dao!IsDeposit(App, deposit) /\ Dao!CanMove(deposit)
           /\ Dao!HasRoom(ballots[App][Creator].keys, Dao!YesKey)
           /\ allVotes[App][Dao!YesKey] + VoteUnits <= MaxUint
<1>1. /\ Done("optin_election") /\ Done("claim") /\ Done("optintoken_election")
      /\ Done("register") /\ ~Done("vote")
  BY CallNumbers DEF Done
<1>2. /\ ballots[App][Creator].optedin /\ ballots[App][Creator].keys = {}
      /\ voteAsset[App] = 1 /\ allVotes[App][Dao!YesKey] = 0
  BY <1>1 DEF VotePart
<1>3. 0 + VoteUnits <= MaxUint
  BY YesAndNo, RuleOfScript, ScriptAssumption
<1>4. /\ elec[1][Creator].optedin /\ ~elec[1][Creator].frozen
      /\ elec[1][App].optedin /\ ~elec[1][App].frozen
      /\ Supply <= elec[1][Creator].amount
  BY <1>1, AccountsOfScript DEF TokenPart
<1>5. elec[1][Creator].amount >= VoteUnits
  <2>1. elec[1][Creator].amount \in Nat
    BY AccountsOfScript DEF DaoStateTypes, Holding
  <2> QED
    BY <1>4, <2>1, YesAndNo
<1>6. Dao!CanMove(Deposit(Creator, VoteUnits))
  BY <1>4, <1>5 DEF Dao!CanMove, Dao!CanTransfer, Dao!Movable, Deposit
<1>7. Dao!IsDeposit(App, Deposit(Creator, VoteUnits))
  BY <1>2 DEF Dao!IsDeposit, Deposit
<1>8. Dao!HasRoom(ballots[App][Creator].keys, Dao!YesKey)
  BY <1>2, RoomForFirst
<1> QED
  BY <1>2, <1>3, <1>6, <1>7, <1>8

\* What the client has done and not done when it makes a call.
LEMMA DoneBefore ==
    ASSUME pc \in Nat
    PROVE  /\ Due("setmembers") => pc = 3
           /\ Due("optin_gate") => ~Done("optin_gate")
           /\ Due("addrule") \/ Due("finalize") => ~Done("finalize")
           /\ Due("deploy_tree") => Done("status") /\ ~Done("deploy_tree")
           /\ Due("inittoken_tree") => pc = 14 /\ ~Done("inittoken_tree")
           /\ Due("claim") => pc = 16
           /\ Due("optintoken_trust") => Done("inittoken_gate")
           /\ Due("assess") => pc = 22 /\ Done("setmembers") /\ ~Done("assess")
           /\ Due("gate_vote") => pc = 23 /\ Done("setmembers")
           /\ Due("register") => pc = 24 /\ ~Done("register")
           /\ Due("vote") => pc = 25
  BY CallNumbers DEF Due, Done

LEMMA PartsAcceptCalls ==
    ASSUME CommitteeInv, GateInv, DaoStateTypes, ScriptInv, ScriptParts
    PROVE  CallsAccepted
<1> SUFFICES ASSUME ~InTheWay PROVE CallsAccepted
  BY DEF CallsAccepted
<1>1. /\ CommitteePart /\ GatePart /\ DaoPart /\ VotePart /\ ClockPart /\ TreePart /\ TokenPart
      /\ TreeInv /\ pc \in Nat
  BY CallNumbers DEF ScriptParts, ScriptInv
<1>2. ASSUME pc \in 2 .. 23 PROVE committeeAsset # 0 /\ assetId = committeeAsset
  <2>1. Done("inittoken_committee") /\ ~Done("gate_vote")
    BY <1>1, <1>2, CallNumbers DEF Done
  <2> QED
    BY <1>1, <2>1 DEF CommitteePart, InTheWay, CommitteeReplaced
<1>3. ASSUME pc \in 13 .. 28 PROVE Tree!Live
  <2>1. Done("deploy_tree")
    BY <1>3, CallNumbers DEF Done
  <2> QED
    BY <1>1, <2>1 DEF TreePart, Tree!Live
<1>4. ASSUME Due("setmembers")
      PROVE  token[CommitteeAddr].amount = MaxMembers /\ CanAddMembers({Creator})
  BY <1>1, <1>2, <1>4, DoneBefore, MembersCanBeSet
<1>5. ASSUME Due("optin_gate") PROVE ~voter[Creator].optedin
  BY <1>1, <1>5, DoneBefore DEF GatePart
<1>6. ASSUME Due("addrule") \/ Due("finalize") PROVE Dao!SetupPhaseApproved(Creator)
  BY <1>1, <1>6, DoneBefore DEF DaoPart, Dao!SetupPhaseApproved
<1>7. ASSUME Due("deploy_tree") PROVE snapshot = <<>> /\ Tree!BuildsTree(Len(distribution))
  BY <1>1, <1>7, DoneBefore DEF TreePart
<1>8. ASSUME Due("inittoken_tree") PROVE Tree!Live /\ electionAsset = 0
  BY <1>1, <1>3, <1>8, DoneBefore DEF TreeInv
<1>9. ASSUME Due("claim")
      PROVE  /\ Tree!Live /\ round <= VotingRounds
             /\ Tree!CanTransfer(elec[1], Issuer, Creator, Supply)
  <2>1. pc = 16
    BY <1>1, <1>9, DoneBefore
  <2>2. /\ elec[1][Issuer].optedin /\ ~elec[1][Issuer].frozen /\ elec[1][Issuer].amount = Supply
        /\ elec[1][Creator].optedin /\ ~elec[1][Creator].frozen
    BY <1>1, <2>1, AccountsOfScript, CallNumbers DEF TokenPart, Done
  <2>3. Tree!CanTransfer(elec[1], Issuer, Creator, Supply)
    BY <2>2, YesAndNo DEF Tree!CanTransfer, Tree!Movable
  <2> QED
    BY <1>1, <1>3, <2>1, <2>3, InTime
<1>10. ASSUME Due("optintoken_trust") PROVE initialized
  BY <1>1, <1>10, DoneBefore DEF GatePart
<1>11. ASSUME Due("assess") PROVE Creator \in Members /\ ~inProgress
  BY <1>1, <1>2, <1>11, DoneBefore DEF GatePart, CommitteePart
<1>12. ASSUME Due("gate_vote")
       PROVE  /\ Creator \in Members /\ voter[Creator].optedin
              /\ inProgress /\ considered = App /\ consideredAddr = App
              /\ CanRescind(Creator) /\ CanEntrust(App)
  <2>1. pc = 23 /\ Done("setmembers")
    BY <1>1, <1>12, DoneBefore
  <2>2. Creator \in Members
    BY <1>1, <1>2, <2>1 DEF CommitteePart
  <2> QED
    BY <1>1, <2>1, <2>2, ProposalCanBeTrusted
<1>13. ASSUME Due("register") PROVE ~ballots[App][Creator].optedin /\ round <= VotingRounds
  BY <1>1, <1>13, DoneBefore, InTime DEF VotePart
<1>14. ASSUME Due("vote")
       PROVE  LET deposit == Deposit(Creator, VoteUnits) IN
              /\ ballots[App][Creator].optedin /\ round <= VotingRounds
              /\ Dao!IsDeposit(App, deposit) /\ Dao!CanMove(deposit)
              /\ Dao!HasRoom(slots[App], Dao!YesKey)
              /\ Dao!HasRoom(ballots[App][Creator].keys, Dao!YesKey)
              /\ allVotes[App][Dao!YesKey] + VoteUnits <= MaxUint
  <2>1. pc = 25
    BY <1>1, <1>14, DoneBefore
  <2>2. round <= VotingRounds
    BY <1>1, <2>1, InTime
  <2>3. Dao!HasRoom(slots[App], Dao!YesKey)
    <3>1. ~Done("vote")
      BY <2>1, CallNumbers DEF Done
    <3> QED
      BY <3>1 DEF InTheWay, SlotsTaken
  <2> QED
    BY <1>1, <2>1, <2>2, <2>3, VoteCanBeCast, Zenon
<1> QED
  BY <1>4, <1>5, <1>6, <1>7, <1>8, <1>9, <1>10, <1>11, <1>12, <1>13, <1>14, Zenon
  DEF CallsAccepted

(***************************************************************************)
(* Nobody can have a call of the client refused, for any number of them    *)
(* and whatever they do, but in the four ways named.                       *)
(***************************************************************************)
THEOREM ClientIsServed == EndToEndSpec => []CallsAccepted
  BY ScriptPartsInvariant, PartsAcceptCalls, PTL

LEMMA PartsAssurePayment ==
    ASSUME GateInv, DaoStateTypes, ScriptInv, ScriptParts
    PROVE  PaymentAssured
<1> SUFFICES ASSUME Done("vote") PROVE PaymentAssured
  BY DEF PaymentAssured
<1> DEFINE yes   == allVotes[App][Dao!YesKey]
           total == yes + allVotes[App][Dao!NoKey]
           pct   == PaymentRule.data.pct
<1>1. /\ GatePart /\ DaoPart /\ VotePart /\ ClockPart /\ pc \in Nat
  BY CallNumbers DEF ScriptParts, ScriptInv
<1>2. Done("gate_vote") /\ Done("addrule") /\ Done("fund_dao") /\ Done("finalize")
  BY <1>1, CallNumbers DEF Done
<1>3. App \in Trusted
  BY <1>1, <1>2 DEF GatePart
<1>4. ~deleted /\ finalized /\ rules = <<PaymentRule>>
  BY <1>1, <1>2 DEF DaoPart
<1>5. Dao!MeetsCriteria(App)
  <2>1. 1 \in DOMAIN rules /\ rules[1] = PaymentRule
    BY <1>4
  <2>2. Dao!FindsRule("PAYMENT", 1)
    BY <2>1, ScriptAssumption DEF Dao!FindsRule
  <2> QED
    BY <2>1, <2>2, ProposalOfScript DEF Dao!MeetsCriteria
<1>6. total <= MaxUint /\ pct * total <= MaxUint /\ yes >= Dao!MinVotesNeeded(pct, total)
  BY <1>1, VotesAreEnough
<1>7. Done("wait") => Dao!VoteOver(App)
  <2>1. VotingRounds \in Nat /\ round \in Nat
    BY EndToEndAssumption DEF DaoStateTypes
  <2> QED
    BY <1>1, <2>1, ProposalOfScript DEF ClockPart, Dao!VoteOver
<1>8. Done("finalizevote") => passed[App]
  BY <1>1 DEF VotePart
<1>9. Paid \/ (~implemented[App] /\ Dao!CanPay(App))
  <2>1. Config[App].pay # NoData
    <3>1. NoData \notin Dao!Payment /\ MaxFunds \in Nat
      BY DaoAssumption DEF Dao!AlgoDaoAssumption
    <3>2. Config[App].pay \in Dao!Payment
      BY <3>1, ProposalOfScript, ScriptAssumption, EndToEndAssumption DEF Dao!Payment
    <3> QED
      BY <3>1, <3>2
  <2>2. Config[App].pay.amount = PaidAmount
    BY ProposalOfScript
  <2>3. Paid \/ (~implemented[App] /\ PaidAmount <= treasury)
    BY <1>1, <1>2 DEF DaoPart, Unspoiled
  <2> QED
    BY <2>1, <2>2, <2>3 DEF Dao!CanPay
<1> HIDE DEF yes, total, pct
<1> QED
  BY <1>3, <1>4, <1>5, <1>6, <1>7, <1>8, <1>9, Zenon DEF PaymentAssured, yes, total, pct

(***************************************************************************)
(* The vote of the client decides: from then on nobody can take away what  *)
(* the payment needs, for any number of others and whatever they do.       *)
(***************************************************************************)
THEOREM VoteDecides == EndToEndSpec => []PaymentAssured
  BY ScriptPartsInvariant, PartsAssurePayment, PTL
=============================================================================
