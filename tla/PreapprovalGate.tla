-------------------------- MODULE PreapprovalGate --------------------------
(***************************************************************************)
(* The PreapprovalGate contract of governance.py, together with the        *)
(* committee it asks: members have the gate consider an application, vote  *)
(* on it, and a majority makes the gate send one unit of its trust asset,  *)
(* frozen, to the address that came with the application.  The gate reads  *)
(* the committee's asset and size at each call, while members come and go. *)
(***************************************************************************)
EXTENDS Committee

CONSTANTS
    Apps,       \* the applications (proposals) that may be assessed
    NoApp,      \* the application id 0, and the empty address
    Others,     \* accounts of nothing that may be assessed, which may hold trust too
    GateAddr,   \* the account of the gate
    TrustTotal, \* the units of the trust asset
    MinRounds,  \* MinRoundsPerProposal
    MaxTally    \* bound of the model on either tally

ASSUME GateAssumption ==
    /\ NoApp \notin Apps \cup Others \cup {GateAddr}
    /\ GateAddr \notin Apps \cup Others
    /\ TrustTotal \in Nat
    /\ MinRounds \in Nat
    /\ MaxTally \in Nat

VARIABLES
    initialized,
    trust,          \* the ledger of the trust asset
    considered,     \* ConsideredAppId
    consideredAddr, \* ConsideredAppAddr, an argument of its own
    yesVotes, noVotes,
    inProgress,     \* VoteInProgress
    elapsed,        \* rounds since VotingStartRound, up to the first that counts
    voter           \* the local state of each account: VotedAppId and Vote

gateVars == <<initialized, trust, considered, consideredAddr, yesVotes, noVotes,
              inProgress, elapsed, voter>>

gateAllVars == <<committeeVars, gateVars>>

\* The applications a call may name: any id, also that of none.
AppIds == Apps \cup {NoApp}

\* The accounts other than the gate that may opt in to the trust asset.
Receivers == Apps \cup Others

TrustAccounts == Receivers \cup {GateAddr}

\* Without a vote, the id reads 0 and the vote no: what the chain returns for no value.
NoVoter == [optedin |-> FALSE, app |-> NoApp, vote |-> FALSE]

Voter == [optedin : BOOLEAN, app : AppIds, vote : BOOLEAN]

GateTypeOK ==
    /\ initialized \in BOOLEAN
    /\ trust \in [TrustAccounts -> Holding]
    /\ considered \in AppIds
    /\ consideredAddr \in TrustAccounts \cup {NoApp}
    /\ yesVotes \in 0 .. MaxTally
    /\ noVotes \in 0 .. MaxTally
    /\ inProgress \in BOOLEAN
    /\ elapsed \in 0 .. MinRounds + 1
    /\ voter \in [People -> Voter]

GateInit ==
    /\ initialized = FALSE
    /\ trust = [a \in TrustAccounts |-> NoHolding]
    /\ considered = NoApp
    /\ consideredAddr = NoApp
    /\ yesVotes = 0
    /\ noVotes = 0
    /\ inProgress = FALSE
    /\ elapsed = 0
    /\ voter = [p \in People |-> NoVoter]

\* The accounts that hold a unit of trust, and the applications among them.
Entrusted == Holders(trust, Receivers)

Trusted == Holders(trust, Apps)
-----------------------------------------------------------------------------
\* Mutant of InitTrustToken: it may be called again.
InitTrustTokenAgain ==
    /\ initialized' = TRUE
    /\ trust' = NewAsset(TrustAccounts, GateAddr, TrustTotal)
    /\ UNCHANGED <<considered, consideredAddr, yesVotes, noVotes, inProgress, elapsed, voter>>

\* "inittoken", for anyone, once.
InitTrustToken ==
    /\ ~initialized
    /\ initialized' = TRUE
    /\ trust' = NewAsset(TrustAccounts, GateAddr, TrustTotal)
    /\ UNCHANGED <<considered, consideredAddr, yesVotes, noVotes, inProgress, elapsed, voter>>

\* The "optintoken" call of a proposal, with the trust asset, or the opt-in of another account.
OptInTrust(a) ==
    /\ initialized
    /\ trust' = Transfer(trust, a, a, 0)
    /\ UNCHANGED <<initialized, considered, consideredAddr, yesVotes, noVotes, inProgress,
                   elapsed, voter>>

OptInGate(p) ==
    /\ ~voter[p].optedin
    /\ voter' = [voter EXCEPT ![p].optedin = TRUE]
    /\ UNCHANGED <<initialized, trust, considered, consideredAddr, yesVotes, noVotes,
                   inProgress, elapsed>>

\* Mutant of AssessProposal: the tallies start from zero, the ballots stay.
AssessProposalReset(m, app, addr) ==
    /\ m \in Members
    /\ inProgress => elapsed > MinRounds
    /\ inProgress' = TRUE
    /\ elapsed' = 0
    /\ considered' = app
    /\ consideredAddr' = addr
    /\ yesVotes' = 0 /\ noVotes' = 0
    /\ UNCHANGED <<initialized, trust, voter>>

\* Mutant of AssessProposal: it does not wait for the rounds of the one before.
AssessProposalAtOnce(m, app, addr) ==
    /\ m \in Members
    /\ inProgress' = TRUE
    /\ elapsed' = 0
    /\ considered' = app
    /\ consideredAddr' = addr
    /\ UNCHANGED <<initialized, trust, yesVotes, noVotes, voter>>

(***************************************************************************)
(* "assessproposal": a member puts up another application, by any id and   *)
(* with any address; one under vote gives way only when its rounds are     *)
(* over.  The tallies stay as they are.                                    *)
(***************************************************************************)
AssessProposal(m, app, addr) ==
    /\ m \in Members
    /\ inProgress => elapsed > MinRounds
    /\ inProgress' = TRUE
    /\ elapsed' = 0
    /\ considered' = app
    /\ consideredAddr' = addr
    /\ UNCHANGED <<initialized, trust, yesVotes, noVotes, voter>>

\* Whether the contract takes p to have voted on the application under consideration.
VotedOn(p) == voter[p].app = considered

\* Mutant of Rescinded: a vote already given stays in its tally.
NotRescinded(tally, p, side) == tally

\* Mutant of Rescinded: the vote is taken from the other tally.
RescindedSwapped(tally, p, side) ==
    IF VotedOn(p) /\ voter[p].vote # side THEN tally - 1 ELSE tally

\* A tally without the vote that p takes back: it is one less if p gave it.
Rescinded(tally, p, side) ==
    IF VotedOn(p) /\ voter[p].vote = side THEN tally - 1 ELSE tally

Counted(tally, vote, side) == IF vote = side THEN tally + 1 ELSE tally

\* On the chain a subtraction below zero refuses the call.
CanRescind(p) == VotedOn(p) => IF voter[p].vote THEN yesVotes > 0 ELSE noVotes > 0

Majority(tally) == tally > CommitteeSize \div 2

\* The gate thaws its own holding, sends one unit and freezes it there.
CanEntrust(a) ==
    LET thawed == SetAssetFreeze(trust, GateAddr, FALSE) IN
    /\ CanFreeze(trust, GateAddr)
    /\ CanTransfer(thawed, GateAddr, a, 1)

\* Mutant of Entrust: the unit is not frozen where it went.
EntrustUnfrozen(a) ==
    SendAsset(SetAssetFreeze(trust, GateAddr, FALSE), GateAddr, a)

Entrust(a) ==
    SetAssetFreeze(SendAsset(SetAssetFreeze(trust, GateAddr, FALSE), GateAddr, a), a, TRUE)

(***************************************************************************)
(* "vote": a vote already given on this application is taken back, the new *)
(* one recorded and counted.  A majority either way ends the vote, and a   *)
(* majority of yes sends the unit in the same call; when it cannot be      *)
(* sent, the vote itself is refused.                                       *)
(***************************************************************************)
GateVote(m, app, vote) ==
    LET yes == Counted(Rescinded(yesVotes, m, TRUE), vote, TRUE)
        no  == Counted(Rescinded(noVotes, m, FALSE), vote, FALSE)
    IN
    /\ m \in Members
    /\ considered = app
    /\ inProgress
    /\ voter[m].optedin
    /\ CanRescind(m)
    /\ yes <= MaxTally /\ no <= MaxTally
    /\ yesVotes' = yes
    /\ noVotes' = no
    /\ voter' = [voter EXCEPT ![m].app = app, ![m].vote = vote]
    /\ IF Majority(yes)
       THEN CanEntrust(consideredAddr) /\ trust' = Entrust(consideredAddr)
       ELSE UNCHANGED trust
    /\ inProgress' = ~(Majority(yes) \/ Majority(no))
    /\ UNCHANGED <<initialized, considered, consideredAddr, elapsed>>

\* Mutant of LeaveGate: the vote is taken back whether or not it is in progress.
LeaveGateAlways(p) ==
    /\ voter[p].optedin
    /\ CanRescind(p)
    /\ yesVotes' = Rescinded(yesVotes, p, TRUE)
    /\ noVotes' = Rescinded(noVotes, p, FALSE)
    /\ voter' = [voter EXCEPT ![p] = NoVoter]
    /\ UNCHANGED <<initialized, trust, considered, consideredAddr, inProgress, elapsed>>

(***************************************************************************)
(* CloseOut and ClearState: the account's local state is erased, and its   *)
(* vote with it when the vote is still in progress.  Where the subtraction *)
(* fails, a close-out is refused; a clear still erases the local state.    *)
(***************************************************************************)
LeaveGate(p) ==
    LET takenBack == inProgress /\ CanRescind(p) IN
    /\ voter[p].optedin
    /\ yesVotes' = IF takenBack THEN Rescinded(yesVotes, p, TRUE) ELSE yesVotes
    /\ noVotes' = IF takenBack THEN Rescinded(noVotes, p, FALSE) ELSE noVotes
    /\ voter' = [voter EXCEPT ![p] = NoVoter]
    /\ UNCHANGED <<initialized, trust, considered, consideredAddr, inProgress, elapsed>>

\* A round passes.
GateTick ==
    /\ elapsed <= MinRounds
    /\ elapsed' = elapsed + 1
    /\ UNCHANGED <<initialized, trust, considered, consideredAddr, yesVotes, noVotes,
                   inProgress, voter>>

GateCall ==
    \/ InitTrustToken
    \/ \E a \in Receivers : OptInTrust(a)
    \/ \E p \in People : OptInGate(p) \/ LeaveGate(p)
    \/ \E m \in People, app \in AppIds, addr \in TrustAccounts : AssessProposal(m, app, addr)
    \/ \E m \in People, app \in AppIds, vote \in BOOLEAN : GateVote(m, app, vote)

GateNext ==
    \/ (GateCall \/ GateTick) /\ UNCHANGED committeeVars
    \/ CommitteeNext /\ UNCHANGED gateVars

GateFairness == WF_gateAllVars(GateTick /\ UNCHANGED committeeVars)

\* The steps of the gate and its committee, wherever they are used.
GateSafety ==
    /\ CommitteeInit /\ GateInit
    /\ [][GateNext]_gateAllVars

GateSpec == GateSafety /\ GateFairness
-----------------------------------------------------------------------------
GateTypes == CommitteeTypeOK /\ GateTypeOK

\* The accounts whose recorded vote, on whatever application, is this one.
Ballots(vote) == {p \in People : voter[p].app # NoApp /\ voter[p].vote = vote}

(***************************************************************************)
(* The yes tally counts every account whose recorded vote is yes, on       *)
(* whatever application: none loses its vote to the calls of another.      *)
(***************************************************************************)
YesVotesCovered == Cardinality({p \in People : voter[p].vote}) <= yesVotes

(***************************************************************************)
(* Every recorded vote is still in the tally it went to, so that taking a  *)
(* vote back never runs below zero (governance.py:498, 499, 563, 564) and  *)
(* never makes a call of a member fail, nor a clear forget a tally.  Under *)
(* a vote on the id 0 an account that never voted takes a ballot back that *)
(* is not there, so this holds where there is no such vote.                *)
(***************************************************************************)
TallyCoversBallots ==
    /\ Cardinality(Ballots(TRUE)) <= yesVotes
    /\ Cardinality(Ballots(FALSE)) <= noVotes

(***************************************************************************)
(* Where the members never have the gate vote on the id 0, which is what   *)
(* an account that has not voted has as its last one, the tallies always   *)
(* cover the recorded votes, through every other change of the             *)
(* application, of mind and of membership.                                 *)
(***************************************************************************)
BallotsCovered == [](inProgress => considered # NoApp) => []TallyCoversBallots

(***************************************************************************)
(* Trust is one unit, frozen where it went, and none is lost: the reserve  *)
(* of the gate and the accounts entrusted hold the whole supply, wherever  *)
(* the members had the units sent.                                         *)
(***************************************************************************)
TrustAccounting ==
    /\ \A a \in Receivers : /\ trust[a].amount <= 1
                            /\ trust[a].frozen <=> trust[a].amount = 1
    /\ initialized => trust[GateAddr].amount + Cardinality(Entrusted) = TrustTotal

(***************************************************************************)
(* No sequence of calls takes trust back from an application, although the *)
(* README (lines 106, 107) says the gate can: there is no such method.     *)
(***************************************************************************)
TrustPermanent == [][Trusted \subseteq Trusted']_gateAllVars

(***************************************************************************)
(* A vote that has ended is settled: until another one starts, neither a   *)
(* late vote nor an account that leaves moves its tallies.                 *)
(***************************************************************************)
SettledVote == [][~inProgress => UNCHANGED <<yesVotes, noVotes>>]_gateAllVars

(***************************************************************************)
(* While a vote on an application runs, the tallies move exactly as the    *)
(* number of accounts with a recorded vote on it: a vote that is repeated  *)
(* (the retry of a call whose answer was lost), changed, or given again    *)
(* after leaving counts once.  An account that has not voted has the id 0, *)
(* so a vote on that id, and tallies one has left short, are excepted.     *)
(***************************************************************************)
CountsEachOnce ==
    [][inProgress /\ considered' = considered /\ considered # NoApp /\ TallyCoversBallots =>
          LET current == {p \in People : VotedOn(p)} IN
          yesVotes' + noVotes' + Cardinality(current)
              = yesVotes + noVotes + Cardinality(current')]_gateAllVars

(***************************************************************************)
(* The gate is never locked: a vote in progress ends or reaches the round  *)
(* from which any member can move on to another application, however much  *)
(* the members vote meanwhile (comment at governance.py:455).              *)
(***************************************************************************)
GateNeverLocked == inProgress ~> (~inProgress \/ elapsed > MinRounds)

(***************************************************************************)
(* README, lines 83 to 85: a majority vote of the committee members moves  *)
(* a proposal forward.  When a unit of trust is sent, more than half of    *)
(* the members have a yes vote on the application under consideration.     *)
(***************************************************************************)
TrustByMajority ==
    [][Entrusted' # Entrusted =>
          2 * Cardinality({m \in Members : voter'[m].app = considered /\ voter'[m].vote})
              > Cardinality(Members)]_gateAllVars
=============================================================================
