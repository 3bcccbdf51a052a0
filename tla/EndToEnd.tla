------------------------------ MODULE EndToEnd ------------------------------
(***************************************************************************)
(* scripts/end2end.py: one client creates the committee, the gate, the     *)
(* DAO, the election and a payment, votes it through and has it paid.  It  *)
(* sends one transaction after another and stops at the first one that is  *)
(* refused, while anyone else may call the contracts in between.           *)
(*                                                                         *)
(* Rounds matter once the client has read the last round, which everything *)
(* counts from: they are counted from there, and round is the one the next *)
(* transaction gets into at the earliest.                                  *)
(***************************************************************************)
EXTENDS Governance

CONSTANTS
    App,            \* the proposal
    Bystanders,     \* accounts that may opt in to the governance token, and no more
    Addresses,      \* the accounts in the order in which the indexer lists them
    Receiver,
    PaymentRule,
    PaidAmount,     \* what the proposal pays
    VoteUnits,      \* the election tokens the client votes with
    VotingRounds,
    MaxLag          \* rounds until a transaction of the client is confirmed, at most

GovAccounts == {Addresses[i] : i \in DOMAIN Addresses}

ASSUME EndToEndAssumption ==
    /\ App \in Apps
    /\ Assets = {1}
    /\ Issuer \notin People
    /\ Addresses \in Seq(GovAccounts) /\ People \cup Bystanders = GovAccounts
    /\ PaymentRule \in RuleInputs /\ PaidAmount \in 1 .. MaxFunds
    /\ VoteUnits \in 0 .. Supply
    /\ VotingRounds \in Nat /\ VotingRounds + 2 <= Horizon
    /\ MaxLag \in Nat \ {0}

Strangers == People \ {Creator}

\* The calls of the script that reach the chain, in its order.
Calls == <<
    "inittoken_committee", "optin_committee", "setmembers", "createasset",
    "deploy_gate", "optin_gate", "inittoken_gate", "addrule", "fund_dao", "finalize",
    "status",
    "deploy_tree", "fund_tree", "inittoken_tree", "optin_election", "claim",
    "fund_receiver", "deploy_proposal", "fund_proposal", "optintoken_trust",
    "optintoken_election", "assess", "gate_vote", "register", "vote",
    "wait", "finalizevote", "implement" >>

\* What the proposal is created with.
ScriptProposal ==
    [app \in Apps |->
        [asset |-> 1,
         regBegin |-> 0, regEnd |-> VotingRounds, voteBegin |-> 0, voteEnd |-> VotingRounds,
         data |-> PaymentRule.data, type |-> "PAYMENT", dao |-> TRUE,
         pay |-> [payee |-> Receiver, amount |-> PaidAmount]]]

(***************************************************************************)
(* The client creates the proposal as its rule wants it, the shares and    *)
(* votes are small for the machine, and the calls from reading the last    *)
(* round to the vote fit in the voting rounds.                             *)
(***************************************************************************)
ASSUME ScriptAssumption ==
    /\ Config = ScriptProposal /\ PaymentRule.type = "PAYMENT" /\ Receiver \in Payees
    /\ "NoOp" \in Completions
    /\ MaxMembers > 0 /\ TrustTotal > 0
    /\ 100 * Supply <= MaxUint
    /\ 14 * MaxLag <= VotingRounds

VARIABLES
    pc,             \* the call the client makes next
    lag,            \* rounds since the one before, while they matter
    committeeAsset, \* _assetid of the DeployedCommittee
    gov,            \* the ledger of the governance token
    distribution,   \* addr2count of the CreateTree
    snapshot, electionAsset, claimed    \* the distribution tree

clientVars == <<pc, lag, committeeAsset, distribution>>

treeOwnVars == <<snapshot, electionAsset, claimed>>

\* The state of the votes, voteVars of Proposal.
votingVars == <<round, elec, voteAsset, allVotes, slots, ballots, passed, implemented>>

endToEndVars == <<governanceVars, clientVars, gov, treeOwnVars>>

\* The accounts of a set, in the order of the indexer.
Listed(accounts) ==
    LET list[i \in 0 .. Len(Addresses)] ==
            IF i = 0 THEN <<>>
            ELSE IF Addresses[i] \in accounts THEN Append(list[i - 1], Addresses[i])
            ELSE list[i - 1]
    IN list[Len(Addresses)]

\* The client holds every unit of the governance token; others may hold none of it.
Distributions ==
    {LET holders == Listed({Creator} \cup others)
     IN [i \in DOMAIN holders |-> <<holders[i], IF holders[i] = Creator THEN Supply ELSE 0>>]
     : others \in SUBSET GovAccounts}

(***************************************************************************)
(* The tree pays from the ledger that the proposals count in.  Until its   *)
(* asset exists, the ledger is the one the asset will start with.          *)
(***************************************************************************)
Tree == INSTANCE DistributionTree WITH
    TreeAddr   <- Issuer,
    Accounts   <- Dao!VoteAccounts,
    Snapshots  <- Distributions,
    Totals     <- {Supply},
    RegBegin   <- 0,
    RegEnd     <- VotingRounds,
    MaxAssets  <- 1,
    MaxClaimed <- Supply,
    status     <- "running",
    created    <- electionAsset,
    assetId    <- electionAsset,
    ledger     <- elec

Number(call) == CHOOSE i \in DOMAIN Calls : Calls[i] = call

Done(call) == pc > Number(call)

\* Between reading the last round and the vote, rounds pass as the client waits.
Timed == Done("status") /\ ~Done("vote")

EndToEndTypeOK ==
    /\ pc \in 1 .. Len(Calls) + 1
    /\ lag \in 0 .. MaxLag
    /\ committeeAsset \in 0 .. assetId
    /\ gov \in [GovAccounts -> Holding]
    /\ GateTypeOK /\ Tree!TreeTypeOK

EndToEndInit ==
    /\ GovernanceInit
    /\ pc = 1
    /\ lag = 0
    /\ committeeAsset = 0
    /\ gov = [a \in GovAccounts |-> NoHolding]
    /\ distribution = <<>>
    /\ snapshot = <<>>
    /\ electionAsset = 0
    /\ claimed = [asset \in {1} |-> [p \in People |-> 0]]
-----------------------------------------------------------------------------
\* A call of the contract named, and of no other.
OnCommittee(call) == call /\ UNCHANGED <<gateVars, daoStateVars, gov, treeOwnVars>>
OnGate(call) == call /\ UNCHANGED <<committeeVars, daoStateVars, gov, treeOwnVars>>
OnProposal(call) == UNCHANGED <<gateAllVars, daoOwnVars, gov, treeOwnVars>> /\ call
OnDao(call) == UNCHANGED <<gateAllVars, gov, treeOwnVars>> /\ call
OnTree(call) ==
    /\ UNCHANGED <<gateAllVars, daoOwnVars, round, voteAsset, allVotes, slots, ballots, passed,
                   implemented, gov>>
    /\ call

\* A deployment or a payment whose effect the model has from the start.
Other == UNCHANGED <<governanceVars, gov, treeOwnVars>>

\* The calls of the client library are for their methods, and sent by the client.
ByClient == [by |-> Creator, completion |-> "NoOp"]

\* The client makes a call, a round or more after the last one.
At(call) ==
    /\ pc = Number(call)
    /\ Timed => lag > 0
    /\ pc' = pc + 1
    /\ lag' = 0

OptInTo(ledger, a) == Transfer(ledger, a, a, 0)

\* The committee, its asset and its only member.
CreateCommittee ==
    \/ /\ At("inittoken_committee")
       /\ OnCommittee(InitToken)
       /\ committeeAsset' = assetId'
       /\ UNCHANGED distribution
    \/ /\ At("optin_committee")
       /\ OnCommittee(IF committeeAsset = assetId
                      THEN MoveToken([from |-> Creator, to |-> Creator, amount |-> 0])
                      ELSE UNCHANGED committeeVars)
       /\ UNCHANGED <<committeeAsset, distribution>>
    \/ /\ At("setmembers")
       /\ committeeAsset = assetId
       /\ OnCommittee(SetMembers(Creator, {Creator}))
       /\ UNCHANGED <<committeeAsset, distribution>>

\* createasset
CreateGovernanceToken ==
    /\ At("createasset")
    /\ gov' = NewAsset(GovAccounts, Creator, Supply)
    /\ UNCHANGED <<governanceVars, treeOwnVars, committeeAsset, distribution>>

CreateGate ==
    /\ \/ At("deploy_gate") /\ Other
       \/ At("optin_gate") /\ OnGate(OptInGate(Creator))
       \/ At("inittoken_gate") /\ OnGate(InitTrustToken)
    /\ UNCHANGED <<committeeAsset, distribution>>

CreateDao ==
    /\ \/ At("addrule") /\ OnDao(Dao!AddRule(ByClient, PaymentRule))
       \/ At("fund_dao") /\ OnDao(Dao!FundDao(PaidAmount))
       \/ At("finalize") /\ OnDao(Dao!Finalize(ByClient))
    /\ UNCHANGED <<committeeAsset, distribution>>

\* Mutant of TokenCounts: one vote for each account.
TokenCountsEach ==
    LET holders == Listed({a \in GovAccounts : gov[a].optedin})
    IN [i \in DOMAIN holders |-> <<holders[i], 1>>]

(***************************************************************************)
(* gettokencounts and builddistribution: the accounts that opted in to the *)
(* governance token, also those without a unit, with one vote for each     *)
(* unit.  MerkleTree raises for a number of them it cannot build.          *)
(***************************************************************************)
TokenCounts ==
    LET holders == Listed({a \in GovAccounts : gov[a].optedin})
    IN [i \in DOMAIN holders |-> <<holders[i], gov[holders[i]].amount>>]

BuildDistribution ==
    /\ At("status")
    /\ Tree!BuildsTree(Len(TokenCounts))
    /\ distribution' = TokenCounts
    /\ UNCHANGED committeeAsset
    /\ Other

CreatorIndex == (CHOOSE i \in DOMAIN distribution : distribution[i][1] = Creator) - 1

CreateElection ==
    /\ \/ At("deploy_tree") /\ OnTree(Tree!DeployTree(distribution))
       \/ At("inittoken_tree") /\ OnTree(Tree!InitElectionToken(Creator, Supply))
       \/ At("optin_election") /\ OnTree(Tree!MoveUnits(1, Creator, Creator, 0))
       \/ At("claim") /\ OnTree(Tree!Claim(Creator, CreatorIndex))
       \/ (At("fund_tree") \/ At("fund_receiver")) /\ Other
    /\ UNCHANGED <<committeeAsset, distribution>>

\* Mutant of CreateProposal: the proposal does not opt in to the trust asset.
CreateProposalUntrusted ==
    /\ \/ (At("deploy_proposal") \/ At("fund_proposal") \/ At("optintoken_trust")) /\ Other
       \/ At("optintoken_election") /\ OnProposal(Dao!OptInVoteToken(Creator, App, 1))
    /\ UNCHANGED <<committeeAsset, distribution>>

CreateProposal ==
    /\ \/ (At("deploy_proposal") \/ At("fund_proposal")) /\ Other
       \/ At("optintoken_trust") /\ OnGate(OptInTrust(App))
       \/ At("optintoken_election") /\ OnProposal(Dao!OptInVoteToken(Creator, App, 1))
    /\ UNCHANGED <<committeeAsset, distribution>>

(***************************************************************************)
(* The gate object names the asset the committee had when it was created.  *)
(* Where the client is still a member, that is the asset of now.           *)
(***************************************************************************)
PreapproveProposal ==
    /\ \/ At("assess") /\ OnGate(AssessProposal(Creator, App, App))
       \/ At("gate_vote") /\ OnGate(GateVote(Creator, App, TRUE))
    /\ UNCHANGED <<committeeAsset, distribution>>

Deposit(p, units) == [asset |-> 1, from |-> p, to |-> App, amount |-> units]

VoteOnProposal ==
    /\ \/ At("register") /\ OnProposal(Dao!Register(Creator, App))
       \/ /\ At("vote")
          /\ OnProposal(Dao!CastVote(Creator, App, Dao!YesKey, Deposit(Creator, VoteUnits)))
    /\ UNCHANGED <<committeeAsset, distribution>>

\* Mutant of WaitForRound: until the round before the last one to vote in.
WaitTooShort ==
    /\ At("wait")
    /\ round - 1 >= VotingRounds - 1
    /\ Other
    /\ UNCHANGED <<committeeAsset, distribution>>

\* wait_for_round, until the node has the round after the last one to vote in.
WaitForRound ==
    /\ At("wait")
    /\ round - 1 >= VotingRounds + 1
    /\ Other
    /\ UNCHANGED <<committeeAsset, distribution>>

ImplementProposal ==
    /\ \/ At("finalizevote") /\ OnProposal(Dao!FinalizeVote(App))
       \/ At("implement") /\ OnDao(Dao!ImplementGroup(ByClient, ByClient, App))
    /\ UNCHANGED <<committeeAsset, distribution>>

ClientStep ==
    \/ CreateCommittee \/ CreateGovernanceToken \/ CreateGate \/ CreateDao
    \/ BuildDistribution \/ CreateElection
    \/ CreateProposal \/ PreapproveProposal
    \/ VoteOnProposal \/ WaitForRound \/ ImplementProposal
-----------------------------------------------------------------------------
(***************************************************************************)
(* What the others may do once a contract is there, with the arguments and *)
(* the OnCompletion of their choice.  MaxTokens leaves one asset of the    *)
(* committee for the client.  Left out is what changes nothing (a claim of *)
(* no units), what is not read again (opting in to the governance token    *)
(* after the snapshot) and opting in to the other assets, of which nobody  *)
(* sends a stranger a unit.                                                *)
(***************************************************************************)
StrangersCall == [by : Strangers, completion : Completions]

StrangerOnCommittee ==
    /\ assetId + 1 < MaxTokens \/ committeeAsset # 0
    /\ OnCommittee(InitToken)

StrangerOnGate ==
    /\ Done("deploy_gate")
    /\ \/ OnGate(InitTrustToken)
       \/ \E p \in Strangers : OnGate(OptInGate(p) \/ LeaveGate(p))

StrangerOnGovernanceToken ==
    /\ Done("createasset") /\ ~Done("status")
    /\ \E a \in GovAccounts \ {Creator} : gov' = OptInTo(gov, a)
    /\ UNCHANGED <<governanceVars, treeOwnVars>>

StrangerOnProposal ==
    /\ Done("deploy_proposal")
    /\ \/ \E p \in Strangers : OnProposal(Dao!Register(p, App) \/ Dao!CloseOut(p, App))
       \/ \E p \in Strangers, arg \in OptionArgs :
             OnProposal(Dao!CastVote(p, App, arg, Deposit(p, 0)))
       \/ OnProposal(Dao!FinalizeVote(App))
       \/ \E first \in StrangersCall, second \in StrangersCall :
             OnDao(Dao!ImplementGroup(first, second, App))

StrangerOnDao ==
    /\ Done("fund_dao")
    /\ \/ \E amount \in 1 .. MaxFunds : OnDao(Dao!FundDao(amount))
       \/ \E p \in Strangers : OnDao(Dao!ClearDao(p)) /\ UNCHANGED votingVars

StrangerStep ==
    /\ \/ StrangerOnCommittee \/ StrangerOnGate \/ StrangerOnGovernanceToken
       \/ StrangerOnProposal \/ StrangerOnDao
    /\ UNCHANGED clientVars

\* No call of the client takes more than MaxLag rounds; the wait takes any number.
RoundOfScript ==
    /\ \/ Timed /\ lag < MaxLag /\ lag' = lag + 1
       \/ pc = Number("wait") /\ UNCHANGED lag
    /\ RoundPasses
    /\ UNCHANGED <<pc, committeeAsset, distribution, gov, treeOwnVars>>

EndToEndNext == ClientStep \/ StrangerStep \/ RoundOfScript

EndToEndSpec ==
    /\ EndToEndInit
    /\ [][EndToEndNext]_endToEndVars
    /\ WF_endToEndVars(ClientStep)
    /\ WF_endToEndVars(RoundOfScript)
-----------------------------------------------------------------------------
\* Someone creates the gate's trust asset first, and the client's own call is refused.
TrustTokenTaken == initialized /\ ~Done("inittoken_gate")

\* Someone replaces the committee's asset before its only member has voted.
CommitteeReplaced == committeeAsset # 0 /\ assetId # committeeAsset /\ ~Done("gate_vote")

\* Accounts without a unit make the tree impossible to build, or the client's proof wrong.
TreeSpoiled ==
    IF Done("deploy_tree")
    THEN ~Done("claim") /\ ~Tree!Accepted(CreatorIndex)
    ELSE pc = Number("status") /\ ~Tree!BuildsTree(Len(TokenCounts))

\* Votes without a unit, of options in other bytes, leave no room to record the client's.
SlotsTaken == ~Done("vote") /\ ~Dao!HasRoom(slots[App], Dao!YesKey)

InTheWay == TrustTokenTaken \/ CommitteeReplaced \/ TreeSpoiled \/ SlotsTaken

Paid == received[Receiver] >= PaidAmount

(***************************************************************************)
(* The script does what its first lines say: the payment is made, unless   *)
(* someone else gets in its way in one of four ways.                       *)
(***************************************************************************)
ScriptPays == <>(Paid \/ InTheWay)

(***************************************************************************)
(* Once the client has voted, nobody can stop the payment any more,        *)
(* whatever groups they send: at most they make it themselves.             *)
(***************************************************************************)
VoteSettles == Done("vote") ~> Paid

Due(call) == pc = Number(call)

(***************************************************************************)
(* Why the script pays: in none of the four ways, and whatever else the    *)
(* others do before and between its calls, the contracts refuse no call of *)
(* the client, and none comes after the last round to register, claim or   *)
(* vote in.                                                                *)
(***************************************************************************)
CallsAccepted ==
    ~InTheWay =>
    /\ Due("setmembers") =>
           token[CommitteeAddr].amount = MaxMembers /\ CanAddMembers({Creator})
    /\ Due("optin_gate") => ~voter[Creator].optedin
    /\ Due("addrule") \/ Due("finalize") => Dao!SetupPhaseApproved(Creator)
    /\ Due("deploy_tree") => snapshot = <<>> /\ Tree!BuildsTree(Len(distribution))
    /\ Due("inittoken_tree") => Tree!Live /\ electionAsset = 0
    /\ Due("claim") => /\ Tree!Live /\ round <= VotingRounds
                       /\ Tree!CanTransfer(elec[1], Issuer, Creator, Supply)
    /\ Due("optintoken_trust") => initialized
    /\ Due("assess") => Creator \in Members /\ ~inProgress
    /\ Due("gate_vote") => /\ Creator \in Members /\ voter[Creator].optedin
                           /\ inProgress /\ considered = App /\ consideredAddr = App
                           /\ CanRescind(Creator) /\ CanEntrust(App)
    /\ Due("register") => ~ballots[App][Creator].optedin /\ round <= VotingRounds
    /\ Due("vote") => LET deposit == Deposit(Creator, VoteUnits) IN
           /\ ballots[App][Creator].optedin /\ round <= VotingRounds
           /\ Dao!IsDeposit(App, deposit) /\ Dao!CanMove(deposit)
           /\ Dao!HasRoom(slots[App], Dao!YesKey)
           /\ Dao!HasRoom(ballots[App][Creator].keys, Dao!YesKey)
           /\ allVotes[App][Dao!YesKey] + VoteUnits <= MaxUint

(***************************************************************************)
(* Once the client has voted, all that the payment needs is there, and     *)
(* nothing that others do takes it away: trust, the rule, a result that is *)
(* computed and is yes, and until it is made the funds and the mark that   *)
(* the proposal still lacks.                                               *)
(***************************************************************************)
PaymentAssured ==
    Done("vote") =>
    LET yes   == allVotes[App][Dao!YesKey]
        total == yes + allVotes[App][Dao!NoKey]
        pct   == PaymentRule.data.pct
    IN
    /\ ~deleted /\ finalized
    /\ App \in Trusted /\ Dao!MeetsCriteria(App)
    /\ total <= MaxUint /\ pct * total <= MaxUint
    /\ yes >= Dao!MinVotesNeeded(pct, total)
    /\ Done("wait") => Dao!VoteOver(App)
    /\ Done("finalizevote") => passed[App]
    /\ Paid \/ (~implemented[App] /\ Dao!CanPay(App))

\* The script and those around it do nothing that Governance does not allow.
ImplementsGovernance == GovernanceSpec
=============================================================================
