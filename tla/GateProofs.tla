---------------------------- MODULE GateProofs ----------------------------
(***************************************************************************)
(* Proofs about PreapprovalGate, for every set of accounts and of          *)
(* applications, every supply of trust and every number of rounds.         *)
(***************************************************************************)
EXTENDS PreapprovalGate, CommitteeProofs

(***************************************************************************)
(* What holds of the holdings of those that may be entrusted: one unit at  *)
(* most, and frozen exactly when there is one.                             *)
(***************************************************************************)
TrustUnits ==
    \A a \in Receivers : /\ trust[a].amount \in {0, 1}
                         /\ trust[a].amount = 1 => trust[a].optedin
                         /\ trust[a].frozen <=> trust[a].amount = 1

\* The gate's own holding: nothing before the asset exists, the reserve after.
TrustReserve ==
    /\ IsFiniteSet(Entrusted)
    /\ ~initialized => Entrusted = {} /\ ~trust[GateAddr].optedin
    /\ initialized => trust[GateAddr].amount + Cardinality(Entrusted) = TrustTotal

GateInv ==
    /\ GateTypeOK
    /\ inProgress => consideredAddr \in TrustAccounts
    /\ TrustUnits
    /\ TrustReserve
    /\ YesVotesCovered

\* The accounts with a yes, on any id, and those with a recorded yes or no on an application.
YesVoters == {p \in People : voter[p].vote}
YesBallots == Ballots(TRUE)
NoBallots  == Ballots(FALSE)

LEMMA VotersFinite == ASSUME NEW S, S \subseteq People
                      PROVE  IsFiniteSet(S) /\ Cardinality(S) \in Nat
  BY CommitteeAssumption, FS_Subset, FS_CardinalityType

LEMMA BallotsOfPeople ==
    YesVoters \subseteq People /\ YesBallots \subseteq People /\ NoBallots \subseteq People
  BY DEF YesVoters, YesBallots, NoBallots, Ballots

LEMMA YesCovered == YesVotesCovered <=> Cardinality(YesVoters) <= yesVotes
  BY Zenon DEF YesVotesCovered, YesVoters

LEMMA TalliesCover ==
    TallyCoversBallots <=> /\ Cardinality(YesBallots) <= yesVotes
                           /\ Cardinality(NoBallots) <= noVotes
  BY Zenon DEF TallyCoversBallots, YesBallots, NoBallots

LEMMA GateInvInit == GateInit => GateInv
<1> SUFFICES ASSUME GateInit PROVE GateInv
  OBVIOUS
<1> USE GateAssumption
<1>1. /\ yesVotes = 0 /\ noVotes = 0 /\ elapsed = 0
      /\ considered = NoApp /\ consideredAddr = NoApp
      /\ trust = [a \in TrustAccounts |-> NoHolding]
      /\ voter = [p \in People |-> NoVoter]
  BY DEF GateInit
<1>2. initialized = FALSE /\ inProgress = FALSE
  BY DEF GateInit
<1>3. GateTypeOK
  <2>1. NoHolding \in Holding
    BY DEF NoHolding, Holding
  <2>2. NoVoter \in Voter
    BY DEF NoVoter, Voter, AppIds
  <2>3. initialized \in BOOLEAN /\ inProgress \in BOOLEAN
    BY <1>2
  <2>4. trust \in [TrustAccounts -> Holding] /\ voter \in [People -> Voter]
    BY <1>1, <2>1, <2>2
  <2>5. yesVotes \in 0 .. MaxTally /\ noVotes \in 0 .. MaxTally /\ elapsed \in 0 .. MinRounds + 1
    BY <1>1
  <2> QED
    BY <1>1, <2>3, <2>4, <2>5 DEF GateTypeOK, AppIds
<1>4. TrustUnits
  BY <1>1 DEF TrustUnits, TrustAccounts, NoHolding
<1>5. Entrusted = {}
  BY <1>1 DEF Entrusted, Holders, IsMember, TrustAccounts, NoHolding
<1>6. TrustReserve
  BY <1>1, <1>2, <1>5, FS_EmptySet DEF TrustReserve, TrustAccounts, NoHolding
<1>7. YesVoters = {}
  BY <1>1 DEF YesVoters, NoVoter
<1>8. YesVotesCovered
  BY <1>1, <1>7, FS_EmptySet, YesCovered
<1> QED
  BY <1>2, <1>3, <1>4, <1>6, <1>8 DEF GateInv
-----------------------------------------------------------------------------
(***************************************************************************)
(* The trust asset.                                                        *)
(***************************************************************************)
LEMMA InitTrustInv ==
    ASSUME GateInv, InitTrustToken
    PROVE  /\ TrustUnits' /\ TrustReserve' /\ trust' \in [TrustAccounts -> Holding]
           /\ Entrusted = {}
<1> USE GateAssumption DEF InitTrustToken, Receivers
<1>1. trust' = NewAsset(TrustAccounts, GateAddr, TrustTotal)
  OBVIOUS
<1>2. trust' \in [TrustAccounts -> Holding]
  BY <1>1 DEF NewAsset, NoHolding, Holding
<1>3. TrustUnits'
  BY <1>1 DEF TrustUnits, TrustAccounts, NewAsset, NoHolding
<1>4. Entrusted' = {}
  BY <1>1 DEF Entrusted, Holders, IsMember, TrustAccounts, NewAsset, NoHolding
<1>5. TrustReserve'
  BY <1>1, <1>4, FS_EmptySet DEF TrustReserve, TrustAccounts, NewAsset
<1> QED
  BY <1>2, <1>3, <1>5 DEF GateInv, TrustReserve

\* Opting in changes no amount.
LEMMA OptInTrustInv ==
    ASSUME GateInv, NEW a0 \in Receivers, OptInTrust(a0)
    PROVE  /\ TrustUnits' /\ TrustReserve' /\ trust' \in [TrustAccounts -> Holding]
           /\ Entrusted' = Entrusted
<1> USE DEF GateInv, GateTypeOK, TrustAccounts
<1>0. GateAddr \notin Receivers
  BY GateAssumption DEF Receivers
<1>1. trust' = [trust EXCEPT ![a0].optedin = TRUE] /\ initialized /\ initialized'
  BY DEF OptInTrust, Transfer
<1>2. \A a \in TrustAccounts : /\ trust'[a] \in Holding
                               /\ trust'[a].amount = trust[a].amount
                               /\ trust'[a].frozen = trust[a].frozen
                               /\ trust[a].optedin => trust'[a].optedin
  <2> TAKE a \in TrustAccounts
  <2>1. trust[a] \in Holding
    OBVIOUS
  <2>2. trust'[a] = trust[a] \/ trust'[a] = [trust[a] EXCEPT !.optedin = TRUE]
    BY <1>1
  <2> QED
    BY <2>1, <2>2 DEF Holding
<1>3. trust' \in [TrustAccounts -> Holding]
  BY <1>1, <1>2
<1>4. TrustUnits'
  BY <1>2 DEF TrustUnits
<1>5. Entrusted' = Entrusted
  BY <1>2 DEF Entrusted, Holders, IsMember, TrustUnits
<1>6. TrustReserve'
  BY <1>1, <1>2, <1>5 DEF TrustReserve
<1> QED
  BY <1>3, <1>4, <1>5, <1>6

(***************************************************************************)
(* A unit can only go to an account that has none: the holding of one that *)
(* has is frozen, and a frozen holding receives nothing.                   *)
(***************************************************************************)
LEMMA EntrustReceiver ==
    ASSUME GateInv, NEW app \in Receivers, CanEntrust(app), trust' = Entrust(app),
           UNCHANGED initialized
    PROVE  /\ TrustUnits' /\ TrustReserve' /\ trust' \in [TrustAccounts -> Holding]
           /\ app \notin Entrusted /\ Entrusted' = Entrusted \cup {app}
<1> USE DEF GateInv, GateTypeOK, TrustAccounts
<1>0. GateAddr \notin Receivers
  BY GateAssumption DEF Receivers
<1> DEFINE thawed == SetAssetFreeze(trust, GateAddr, FALSE)
           sent   == SendAsset(thawed, GateAddr, app)
<1>1. /\ thawed[GateAddr] \in Holding
      /\ thawed[GateAddr].amount = trust[GateAddr].amount
      /\ thawed[GateAddr].optedin = trust[GateAddr].optedin
  <2>1. trust[GateAddr] \in Holding
    OBVIOUS
  <2>2. thawed[GateAddr] = [trust[GateAddr] EXCEPT !.frozen = FALSE]
    BY DEF SetAssetFreeze
  <2> QED
    BY <2>1, <2>2 DEF Holding
<1>2. \A a \in Receivers : thawed[a] = trust[a]
  BY <1>0 DEF SetAssetFreeze
<1>3. thawed \in [TrustAccounts -> Holding]
  BY DEF SetAssetFreeze, Holding
<1>4. trust[GateAddr].optedin /\ CanTransfer(thawed, GateAddr, app, 1)
  BY DEF CanEntrust, CanFreeze
<1>5. /\ trust[GateAddr].amount >= 1
      /\ trust[app].optedin /\ trust[app].amount = 0
  <2> HIDE DEF thawed
  <2>1. /\ thawed[GateAddr].amount >= 1
        /\ thawed[app].optedin /\ ~thawed[app].frozen
    BY <1>4 DEF CanTransfer, Movable
  <2>2. thawed[app] = trust[app]
    BY <1>2
  <2> QED
    BY <1>1, <2>1, <2>2 DEF TrustUnits
<1>6. initialized /\ initialized'
  BY <1>4 DEF TrustReserve
<1>7. sent = [[thawed EXCEPT ![GateAddr].amount = @ - 1] EXCEPT ![app].amount = @ + 1]
  BY DEF SendAsset, Transfer
<1>8. trust' = [sent EXCEPT ![app].frozen = TRUE]
  BY DEF Entrust, SetAssetFreeze
<1> HIDE DEF thawed, sent
<1>9. \A a \in Receivers \ {app} : trust'[a] = trust[a]
  BY <1>0, <1>2, <1>3, <1>7, <1>8
<1>10. /\ trust'[GateAddr] \in Holding
       /\ trust'[GateAddr].amount = trust[GateAddr].amount - 1
  <2>1. trust'[GateAddr] = [thawed[GateAddr] EXCEPT !.amount = @ - 1]
    BY <1>0, <1>3, <1>7, <1>8
  <2>2. thawed[GateAddr].amount - 1 \in Nat
    BY <1>1, <1>5 DEF Holding
  <2> QED
    BY <1>1, <2>1, <2>2 DEF Holding
<1>11. /\ trust'[app] \in Holding
       /\ trust'[app].amount = 1
       /\ trust'[app].optedin /\ trust'[app].frozen
  <2>1. sent[app] = [trust[app] EXCEPT !.amount = @ + 1]
    BY <1>0, <1>2, <1>3, <1>7
  <2>2. trust[app] \in Holding /\ trust[app].amount + 1 = 1
    BY <1>5
  <2>3. sent[app] = [trust[app] EXCEPT !.amount = 1]
    BY <2>1, <2>2
  <2>4. sent[app] \in Holding /\ sent[app].amount = 1 /\ sent[app].optedin
    BY <1>5, <2>2, <2>3 DEF Holding
  <2>5. trust'[app] = [sent[app] EXCEPT !.frozen = TRUE]
    BY <1>3, <1>7, <1>8
  <2> QED
    BY <2>4, <2>5 DEF Holding
<1>12. trust' \in [TrustAccounts -> Holding]
  <2>1. \A a \in TrustAccounts : trust'[a] \in Holding
    BY <1>9, <1>10, <1>11
  <2>2. trust' = [a \in TrustAccounts |-> trust'[a]]
    BY <1>3, <1>7, <1>8
  <2> QED
    BY <2>1, <2>2
<1>13. TrustUnits'
  BY <1>9, <1>11 DEF TrustUnits
<1>14. app \notin Entrusted
  BY <1>5 DEF Entrusted, Holders, IsMember
<1>15. Entrusted' = Entrusted \cup {app}
  BY <1>9, <1>11 DEF Entrusted, Holders, IsMember
<1>16. IsFiniteSet(Entrusted') /\ Cardinality(Entrusted') = Cardinality(Entrusted) + 1
  BY <1>14, <1>15, FS_AddElement DEF TrustReserve
<1>17. Cardinality(Entrusted) \in Nat /\ trust[GateAddr].amount \in Nat
  BY FS_CardinalityType DEF TrustReserve, Holding
<1>18. TrustReserve'
  BY <1>6, <1>10, <1>16, <1>17 DEF TrustReserve
<1> QED
  BY <1>12, <1>13, <1>14, <1>15, <1>18

\* A unit sent to the gate itself stays in its reserve.
LEMMA EntrustGate ==
    ASSUME GateInv, CanEntrust(GateAddr), trust' = Entrust(GateAddr), UNCHANGED initialized
    PROVE  /\ TrustUnits' /\ TrustReserve' /\ trust' \in [TrustAccounts -> Holding]
           /\ Entrusted' = Entrusted
<1> USE DEF GateInv, GateTypeOK, TrustAccounts
<1>0. GateAddr \notin Receivers
  BY GateAssumption DEF Receivers
<1> DEFINE thawed == SetAssetFreeze(trust, GateAddr, FALSE)
           sent   == SendAsset(thawed, GateAddr, GateAddr)
<1>1. /\ thawed[GateAddr] = [trust[GateAddr] EXCEPT !.frozen = FALSE]
      /\ \A a \in Receivers : thawed[a] = trust[a]
      /\ thawed \in [TrustAccounts -> Holding]
  BY <1>0 DEF SetAssetFreeze, Holding
<1>2. sent = [[thawed EXCEPT ![GateAddr].amount = @ - 1] EXCEPT ![GateAddr].amount = @ + 1]
  BY DEF SendAsset, Transfer
<1>3. trust' = [sent EXCEPT ![GateAddr].frozen = TRUE]
  BY DEF Entrust, SetAssetFreeze
<1>4. trust[GateAddr] \in Holding /\ trust[GateAddr].optedin
  BY DEF CanEntrust, CanFreeze
<1> HIDE DEF thawed, sent
<1>5. \A a \in Receivers : trust'[a] = trust[a]
  BY <1>0, <1>1, <1>2, <1>3
<1>6. trust'[GateAddr] \in Holding /\ trust'[GateAddr].amount = trust[GateAddr].amount
  <2>1. /\ thawed[GateAddr] \in Holding
        /\ thawed[GateAddr].amount = trust[GateAddr].amount
    BY <1>1, <1>4 DEF Holding
  <2>2. sent[GateAddr] = [thawed[GateAddr] EXCEPT !.amount = @ - 1 + 1]
    BY <1>1, <1>2
  <2>3. thawed[GateAddr].amount - 1 + 1 = thawed[GateAddr].amount
    BY <2>1 DEF Holding
  <2>4. sent[GateAddr] = [thawed[GateAddr] EXCEPT !.amount = thawed[GateAddr].amount]
    BY <2>2, <2>3
  <2>5. sent[GateAddr] \in Holding /\ sent[GateAddr].amount = trust[GateAddr].amount
    BY <2>1, <2>4 DEF Holding
  <2>6. trust'[GateAddr] = [sent[GateAddr] EXCEPT !.frozen = TRUE]
    BY <1>1, <1>2, <1>3
  <2> QED
    BY <2>5, <2>6 DEF Holding
<1>7. trust' \in [TrustAccounts -> Holding]
  <2>1. \A a \in TrustAccounts : trust'[a] \in Holding
    BY <1>5, <1>6
  <2>2. trust' = [a \in TrustAccounts |-> trust'[a]]
    BY <1>1, <1>2, <1>3
  <2> QED
    BY <2>1, <2>2
<1>8. Entrusted' = Entrusted
  BY <1>5 DEF Entrusted, Holders, IsMember
<1>9. initialized /\ initialized'
  BY <1>4 DEF TrustReserve
<1> QED
  BY <1>5, <1>6, <1>7, <1>8, <1>9 DEF TrustUnits, TrustReserve

\* Wherever a unit is sent, the accounts entrusted stay so.
LEMMA EntrustInv ==
    ASSUME GateInv, NEW a \in TrustAccounts, CanEntrust(a), trust' = Entrust(a),
           UNCHANGED initialized
    PROVE  /\ TrustUnits' /\ TrustReserve' /\ trust' \in [TrustAccounts -> Holding]
           /\ Entrusted' = (Entrusted \cup {a}) \ {GateAddr}
<1>1. CASE a \in Receivers
  <2>1. GateAddr \notin Entrusted \cup {a}
    BY <1>1, GateAssumption DEF Entrusted, Holders, Receivers
  <2> QED
    BY <1>1, <2>1, EntrustReceiver
<1>2. CASE a = GateAddr
  <2>1. GateAddr \notin Entrusted
    BY GateAssumption DEF Entrusted, Holders, Receivers
  <2> QED
    BY <1>2, <2>1, EntrustGate
<1> QED
  BY <1>1, <1>2 DEF TrustAccounts
-----------------------------------------------------------------------------
(***************************************************************************)
(* The ballots.  Let S be a set of accounts that a tally covers, with p in *)
(* it when the contract takes p to have voted for that side: the tally     *)
(* without the vote of p covers the others.                                *)
(***************************************************************************)
LEMMA RescindCovers ==
    ASSUME NEW S, S \subseteq People, NEW p \in People, NEW side \in BOOLEAN,
           NEW tally \in Nat, Cardinality(S) <= tally,
           VotedOn(p) /\ voter[p].vote = side => p \in S
    PROVE  Cardinality(S \ {p}) <= Rescinded(tally, p, side)
<1>1. /\ Cardinality(S) \in Nat
      /\ Cardinality(S \ {p}) = IF p \in S THEN Cardinality(S) - 1 ELSE Cardinality(S)
  BY VotersFinite, FS_RemoveElement
<1>2. CASE VotedOn(p) /\ voter[p].vote = side
  <2>1. p \in S /\ Rescinded(tally, p, side) = tally - 1
    BY <1>2 DEF Rescinded
  <2> QED
    BY <1>1, <2>1
<1>3. CASE ~(VotedOn(p) /\ voter[p].vote = side)
  <2>1. Rescinded(tally, p, side) = tally
    BY <1>3 DEF Rescinded
  <2> QED
    BY <1>1, <2>1
<1> QED
  BY <1>2, <1>3

\* The tally with the new vote of p covers the set that p joins or not.
LEMMA CountedCovers ==
    ASSUME NEW S, S \subseteq People, NEW p \in People, NEW side \in BOOLEAN,
           NEW vote \in BOOLEAN, NEW tally \in Nat, Cardinality(S \ {p}) <= tally
    PROVE  Cardinality(IF vote = side THEN S \cup {p} ELSE S \ {p})
              <= Counted(tally, vote, side)
<1>1. IsFiniteSet(S \ {p}) /\ Cardinality(S \ {p}) \in Nat
  BY VotersFinite, S \ {p} \subseteq People
<1>2. CASE vote = side
  <2>1. S \cup {p} = (S \ {p}) \cup {p} /\ p \notin S \ {p}
    OBVIOUS
  <2>2. Cardinality(S \cup {p}) = Cardinality(S \ {p}) + 1
    BY <1>1, <2>1, FS_AddElement
  <2> QED
    BY <1>1, <1>2, <2>2 DEF Counted
<1>3. CASE vote # side
  BY <1>3 DEF Counted
<1> QED
  BY <1>2, <1>3

LEMMA RescindTypes ==
    ASSUME GateInv, NEW p \in People, CanRescind(p)
    PROVE  /\ Rescinded(yesVotes, p, TRUE) \in 0 .. MaxTally
           /\ Rescinded(noVotes, p, FALSE) \in 0 .. MaxTally
<1>1. /\ yesVotes \in 0 .. MaxTally /\ noVotes \in 0 .. MaxTally
      /\ voter[p].vote \in BOOLEAN /\ MaxTally \in Nat
  BY GateAssumption DEF GateInv, GateTypeOK, Voter
<1> QED
  BY <1>1 DEF CanRescind, Rescinded

\* What a vote does to the local state.
LEMMA VoteRecorded ==
    ASSUME GateInv, NEW m \in People, NEW app \in AppIds, NEW vote \in BOOLEAN,
           GateVote(m, app, vote)
    PROVE  /\ voter' \in [People -> Voter]
           /\ voter'[m].app = app /\ voter'[m].vote = vote
           /\ \A p \in People \ {m} : voter'[p] = voter[p]
<1> USE DEF GateInv, GateTypeOK
<1>1. voter[m] \in Voter
  OBVIOUS
<1>2. voter' = [voter EXCEPT ![m].app = app, ![m].vote = vote]
  BY DEF GateVote
<1>3. /\ voter'[m] = [voter[m] EXCEPT !.app = app, !.vote = vote]
      /\ \A p \in People \ {m} : voter'[p] = voter[p]
  BY <1>2
<1>4. voter'[m] = [optedin |-> voter[m].optedin, app |-> app, vote |-> vote]
  BY <1>1, <1>3 DEF Voter
<1>5. voter'[m] \in Voter
  BY <1>1, <1>4 DEF Voter
<1>6. voter' \in [People -> Voter]
  BY <1>2, <1>3, <1>5
<1> QED
  BY <1>3, <1>4, <1>6

\* What a vote does to the tallies.
LEMMA VoteCounted ==
    ASSUME GateInv, NEW m \in People, NEW app \in AppIds, NEW vote \in BOOLEAN,
           GateVote(m, app, vote)
    PROVE  /\ yesVotes' = Counted(Rescinded(yesVotes, m, TRUE), vote, TRUE)
           /\ noVotes' = Counted(Rescinded(noVotes, m, FALSE), vote, FALSE)
           /\ Rescinded(yesVotes, m, TRUE) \in Nat /\ Rescinded(noVotes, m, FALSE) \in Nat
           /\ yesVotes' \in 0 .. MaxTally /\ noVotes' \in 0 .. MaxTally
<1> DEFINE yes == Rescinded(yesVotes, m, TRUE)
           no  == Rescinded(noVotes, m, FALSE)
<1>1. /\ yesVotes' = Counted(yes, vote, TRUE) /\ noVotes' = Counted(no, vote, FALSE)
      /\ yesVotes' <= MaxTally /\ noVotes' <= MaxTally
  BY DEF GateVote
<1>2. yes \in 0 .. MaxTally /\ no \in 0 .. MaxTally
  BY RescindTypes DEF GateVote
<1> HIDE DEF yes, no
<1>3. yes \in Nat /\ no \in Nat
  BY <1>2
<1>4. yesVotes' \in 0 .. MaxTally /\ noVotes' \in 0 .. MaxTally
  BY <1>1, <1>3, GateAssumption DEF Counted
<1> QED
  BY <1>1, <1>3, <1>4 DEF yes, no

LEMMA GateVoteYes ==
    ASSUME GateInv, NEW m \in People, NEW app \in AppIds, NEW vote \in BOOLEAN,
           GateVote(m, app, vote)
    PROVE  YesVotesCovered'
<1>1. yesVotes \in Nat /\ voter[m].vote \in BOOLEAN
  BY GateAssumption DEF GateInv, GateTypeOK, Voter
<1>2. Cardinality(YesVoters) <= yesVotes
  BY YesCovered DEF GateInv
<1>3. voter[m].vote = TRUE => m \in YesVoters
  BY DEF YesVoters
<1>4. Cardinality(YesVoters \ {m}) <= Rescinded(yesVotes, m, TRUE)
  BY <1>1, <1>2, <1>3, BallotsOfPeople, RescindCovers
<1>5. YesVoters' = IF vote = TRUE THEN YesVoters \cup {m} ELSE YesVoters \ {m}
  BY VoteRecorded DEF YesVoters
<1>6. Cardinality(YesVoters') <= Counted(Rescinded(yesVotes, m, TRUE), vote, TRUE)
  <2>1. Rescinded(yesVotes, m, TRUE) \in Nat
    BY VoteCounted
  <2>2. Cardinality(IF vote = TRUE THEN YesVoters \cup {m} ELSE YesVoters \ {m})
           <= Counted(Rescinded(yesVotes, m, TRUE), vote, TRUE)
    BY <1>4, <2>1, BallotsOfPeople, CountedCovers
  <2> QED
    BY <1>5, <2>2, Zenon
<1> QED
  BY <1>6, VoteCounted, Zenon DEF YesVotesCovered, YesVoters

LEMMA LeaveGateTallies ==
    ASSUME GateInv, NEW p \in People, LeaveGate(p)
    PROVE  /\ voter' \in [People -> Voter] /\ voter'[p] = NoVoter
           /\ \A q \in People \ {p} : voter'[q] = voter[q]
           /\ yesVotes' \in 0 .. MaxTally /\ noVotes' \in 0 .. MaxTally
           /\ \/ /\ inProgress /\ CanRescind(p)
                 /\ yesVotes' = Rescinded(yesVotes, p, TRUE)
                 /\ noVotes' = Rescinded(noVotes, p, FALSE)
              \/ ~(inProgress /\ CanRescind(p)) /\ UNCHANGED <<yesVotes, noVotes>>
<1>1. /\ voter \in [People -> Voter]
      /\ yesVotes \in 0 .. MaxTally /\ noVotes \in 0 .. MaxTally
  BY DEF GateInv, GateTypeOK
<1>2. /\ voter' \in [People -> Voter] /\ voter'[p] = NoVoter
      /\ \A q \in People \ {p} : voter'[q] = voter[q]
  BY <1>1 DEF LeaveGate, NoVoter, Voter, AppIds
<1>3. CASE inProgress /\ CanRescind(p)
  <2>1. yesVotes' = Rescinded(yesVotes, p, TRUE) /\ noVotes' = Rescinded(noVotes, p, FALSE)
    BY <1>3 DEF LeaveGate
  <2> QED
    BY <1>2, <1>3, <2>1, RescindTypes
<1>4. CASE ~(inProgress /\ CanRescind(p))
  <2>1. UNCHANGED <<yesVotes, noVotes>>
    BY <1>4 DEF LeaveGate
  <2> QED
    BY <1>1, <1>2, <1>4, <2>1
<1> QED
  BY <1>3, <1>4

\* An account that leaves keeps a tally covering a set that it was in, if its vote was.
LEMMA LeaveCovers ==
    ASSUME NEW S, S \subseteq People, NEW p \in People, NEW side \in BOOLEAN,
           NEW tally \in Nat, Cardinality(S) <= tally,
           VotedOn(p) /\ voter[p].vote = side => p \in S,
           NEW left, left = Rescinded(tally, p, side) \/ left = tally
    PROVE  Cardinality(S \ {p}) <= left
<1>1. Cardinality(S \ {p}) <= Rescinded(tally, p, side)
  BY RescindCovers
<1>2. Cardinality(S \ {p}) <= tally
  BY VotersFinite, FS_RemoveElement
<1> QED
  BY <1>1, <1>2

LEMMA LeaveGateYes ==
    ASSUME GateInv, NEW p \in People, LeaveGate(p)
    PROVE  YesVotesCovered'
<1>1. yesVotes \in Nat /\ Cardinality(YesVoters) <= yesVotes
  BY GateAssumption, YesCovered DEF GateInv, GateTypeOK
<1>2. voter[p].vote = TRUE => p \in YesVoters
  BY DEF YesVoters
<1>3. yesVotes' = Rescinded(yesVotes, p, TRUE) \/ yesVotes' = yesVotes
  BY LeaveGateTallies
<1>4. Cardinality(YesVoters \ {p}) <= yesVotes'
  BY <1>1, <1>2, <1>3, BallotsOfPeople, LeaveCovers
<1>5. YesVoters' = YesVoters \ {p}
  <2>1. voter'[p] = NoVoter /\ \A q \in People \ {p} : voter'[q] = voter[q]
    BY LeaveGateTallies
  <2> QED
    BY <2>1 DEF YesVoters, NoVoter
<1> QED
  BY <1>4, <1>5, Zenon DEF YesVotesCovered, YesVoters
-----------------------------------------------------------------------------
(***************************************************************************)
(* The whole next-state relation.                                          *)
(***************************************************************************)
\* The parts of the invariant about the asset, when no unit moves.
LEMMA TrustStutter ==
    ASSUME GateInv, UNCHANGED <<initialized, trust>>
    PROVE  TrustUnits' /\ TrustReserve' /\ Entrusted' = Entrusted
<1>1. Entrusted' = Entrusted
  BY DEF Entrusted, Holders, IsMember
<1> QED
  BY <1>1 DEF GateInv, TrustUnits, TrustReserve

\* The part about the yes votes, when no account's vote changes.
LEMMA YesStutter ==
    ASSUME GateInv, UNCHANGED yesVotes, \A p \in People : voter'[p].vote = voter[p].vote
    PROVE  YesVotesCovered'
<1>1. YesVoters' = YesVoters
  BY DEF YesVoters
<1>2. Cardinality(YesVoters') <= yesVotes'
  BY <1>1, YesCovered DEF GateInv
<1> QED
  BY <1>2, Zenon DEF YesVotesCovered, YesVoters

LEMMA GateInvStutter ==
    ASSUME GateInv, UNCHANGED gateVars
    PROVE  GateInv' /\ Entrusted' = Entrusted
<1> USE DEF gateVars
<1>1. TrustUnits' /\ TrustReserve' /\ Entrusted' = Entrusted
  BY TrustStutter
<1>2. YesVotesCovered'
  BY YesStutter
<1>3. GateTypeOK' /\ (inProgress' => consideredAddr' \in TrustAccounts)
  BY DEF GateInv, GateTypeOK
<1> QED
  BY <1>1, <1>2, <1>3 DEF GateInv

\* What opting in does to the local state.
LEMMA OptInGateVoter ==
    ASSUME GateInv, NEW p \in People, OptInGate(p)
    PROVE  /\ voter' \in [People -> Voter]
           /\ \A q \in People : voter'[q].app = voter[q].app /\ voter'[q].vote = voter[q].vote
<1>1. voter \in [People -> Voter] /\ voter' = [voter EXCEPT ![p].optedin = TRUE]
  BY DEF OptInGate, GateInv, GateTypeOK
<1>2. \A q \in People : /\ voter'[q].app = voter[q].app
                        /\ voter'[q].vote = voter[q].vote
                        /\ voter'[q] \in Voter
  <2> TAKE q \in People
  <2>1. voter[q] \in Voter
    BY <1>1
  <2>2. voter'[q] = voter[q] \/ voter'[q] = [voter[q] EXCEPT !.optedin = TRUE]
    BY <1>1
  <2> QED
    BY <2>1, <2>2 DEF Voter
<1> QED
  BY <1>1, <1>2

LEMMA GateCallInv ==
    ASSUME GateInv, GateCall \/ GateTick
    PROVE  GateInv' /\ Entrusted \subseteq Entrusted'
<1> USE GateAssumption
<1>1. /\ GateTypeOK /\ TrustUnits /\ TrustReserve
      /\ inProgress => consideredAddr \in TrustAccounts
  BY DEF GateInv
<1>2. CASE InitTrustToken
  <2>1. YesVotesCovered'
    BY <1>2, YesStutter DEF InitTrustToken
  <2>2. TrustUnits' /\ TrustReserve' /\ trust' \in [TrustAccounts -> Holding] /\ Entrusted = {}
    BY <1>2, InitTrustInv
  <2>3. GateTypeOK'
    BY <1>1, <1>2, <2>2 DEF InitTrustToken, GateTypeOK
  <2> QED
    BY <1>1, <1>2, <2>1, <2>2, <2>3 DEF InitTrustToken, GateInv
<1>3. ASSUME NEW a0 \in Receivers, OptInTrust(a0)
      PROVE  GateInv' /\ Entrusted \subseteq Entrusted'
  <2>1. YesVotesCovered'
    BY <1>3, YesStutter DEF OptInTrust
  <2>2. /\ TrustUnits' /\ TrustReserve' /\ trust' \in [TrustAccounts -> Holding]
        /\ Entrusted' = Entrusted
    BY <1>3, OptInTrustInv
  <2>3. GateTypeOK'
    BY <1>1, <1>3, <2>2 DEF OptInTrust, GateTypeOK
  <2> QED
    BY <1>1, <1>3, <2>1, <2>2, <2>3 DEF OptInTrust, GateInv
<1>4. ASSUME NEW p \in People, OptInGate(p)
      PROVE  GateInv' /\ Entrusted \subseteq Entrusted'
  <2>1. TrustUnits' /\ TrustReserve' /\ Entrusted' = Entrusted
    BY <1>4, TrustStutter DEF OptInGate
  <2>2. voter' \in [People -> Voter] /\ YesVotesCovered'
    BY <1>4, OptInGateVoter, YesStutter DEF OptInGate
  <2>3. GateTypeOK'
    BY <1>1, <1>4, <2>2 DEF OptInGate, GateTypeOK
  <2> QED
    BY <1>1, <1>4, <2>1, <2>2, <2>3 DEF OptInGate, GateInv
<1>5. ASSUME NEW p \in People, LeaveGate(p)
      PROVE  GateInv' /\ Entrusted \subseteq Entrusted'
  <2>1. TrustUnits' /\ TrustReserve' /\ Entrusted' = Entrusted
    BY <1>5, TrustStutter DEF LeaveGate
  <2>2. /\ yesVotes' \in 0 .. MaxTally /\ noVotes' \in 0 .. MaxTally
        /\ voter' \in [People -> Voter]
    BY <1>5, LeaveGateTallies
  <2>3. UNCHANGED <<initialized, trust, considered, consideredAddr, inProgress, elapsed>>
    BY <1>5 DEF LeaveGate
  <2>4. GateTypeOK'
    BY <1>1, <2>2, <2>3 DEF GateTypeOK
  <2>5. YesVotesCovered'
    BY <1>5, LeaveGateYes
  <2> QED
    BY <1>1, <2>1, <2>3, <2>4, <2>5 DEF GateInv
<1>6. ASSUME NEW m \in People, NEW app \in AppIds, NEW addr \in TrustAccounts,
             AssessProposal(m, app, addr)
      PROVE  GateInv' /\ Entrusted \subseteq Entrusted'
  <2>1. TrustUnits' /\ TrustReserve' /\ Entrusted' = Entrusted
    BY <1>6, TrustStutter DEF AssessProposal
  <2>2. YesVotesCovered'
    BY <1>6, YesStutter DEF AssessProposal
  <2>3. GateTypeOK' /\ consideredAddr' \in TrustAccounts
    BY <1>1, <1>6 DEF AssessProposal, GateTypeOK
  <2> QED
    BY <2>1, <2>2, <2>3 DEF GateInv
<1>7. ASSUME NEW m \in People, NEW app \in AppIds, NEW vote \in BOOLEAN, GateVote(m, app, vote)
      PROVE  GateInv' /\ Entrusted \subseteq Entrusted'
  <2>1. /\ yesVotes' \in 0 .. MaxTally /\ noVotes' \in 0 .. MaxTally
        /\ voter' \in [People -> Voter]
        /\ YesVotesCovered'
    BY <1>7, VoteCounted, VoteRecorded, GateVoteYes
  <2>2. /\ UNCHANGED <<initialized, considered, consideredAddr, elapsed>>
        /\ consideredAddr \in TrustAccounts
    BY <1>1, <1>7 DEF GateVote
  <2>3. inProgress' \in BOOLEAN
    BY <1>7 DEF GateVote
  <2>4. (CanEntrust(consideredAddr) /\ trust' = Entrust(consideredAddr)) \/ UNCHANGED trust
    BY <1>7, Zenon DEF GateVote
  <2>5. /\ TrustUnits' /\ TrustReserve'
        /\ trust' \in [TrustAccounts -> Holding]
        /\ Entrusted \subseteq Entrusted'
    <3>1. CASE CanEntrust(consideredAddr) /\ trust' = Entrust(consideredAddr)
      <4>1. GateAddr \notin Entrusted
        BY DEF Entrusted, Holders, Receivers
      <4> QED
        BY <2>2, <3>1, <4>1, EntrustInv
    <3>2. CASE UNCHANGED trust
      BY <1>1, <2>2, <3>2, TrustStutter DEF GateTypeOK
    <3> QED
      BY <2>4, <3>1, <3>2
  <2>6. GateTypeOK'
    BY <1>1, <2>1, <2>2, <2>3, <2>5 DEF GateTypeOK
  <2> QED
    BY <2>1, <2>2, <2>5, <2>6 DEF GateInv
<1>8. CASE GateTick
  <2>1. TrustUnits' /\ TrustReserve' /\ Entrusted' = Entrusted
    BY <1>8, TrustStutter DEF GateTick
  <2>2. YesVotesCovered'
    BY <1>8, YesStutter DEF GateTick
  <2>3. GateTypeOK'
    BY <1>1, <1>8 DEF GateTick, GateTypeOK
  <2> QED
    BY <1>1, <1>8, <2>1, <2>2, <2>3 DEF GateTick, GateInv
<1> QED
  BY <1>2, <1>3, <1>4, <1>5, <1>6, <1>7, <1>8, Zenon DEF GateCall

LEMMA GateStep ==
    GateInv /\ [GateNext]_gateAllVars => GateInv' /\ Trusted \subseteq Trusted'
<1> SUFFICES ASSUME GateInv, [GateNext]_gateAllVars PROVE GateInv' /\ Trusted \subseteq Trusted'
  OBVIOUS
<1>1. (GateCall \/ GateTick) \/ UNCHANGED gateVars
  BY DEF GateNext, gateAllVars
<1>2. GateInv' /\ Entrusted \subseteq Entrusted'
  BY <1>1, GateCallInv, GateInvStutter
<1> QED
  BY <1>2 DEF Trusted, Entrusted, Holders, Receivers

THEOREM GateInvariant == GateSafety => []GateInv
  BY GateInvInit, GateStep, PTL DEF GateSafety

(***************************************************************************)
(* The gate only reads its committee: whatever it is called to do, the     *)
(* committee behaves as it does alone, and what is proved of it holds.     *)
(***************************************************************************)
THEOREM GateReadsCommittee == GateSafety => CommitteeSpec
<1>1. [GateNext]_gateAllVars => [CommitteeNext]_committeeVars
  BY DEF GateNext, gateAllVars, committeeVars
<1> QED
  BY <1>1, PTL DEF GateSafety, CommitteeSpec

(***************************************************************************)
(* The state of the gate and of its committee keeps its type.              *)
(***************************************************************************)
THEOREM GateTypesHold == GateSafety => []GateTypes
<1>1. GateInv => GateTypeOK
  BY DEF GateInv
<1> QED
  BY <1>1, GateInvariant, GateReadsCommittee, CommitteeTypes, PTL DEF GateTypes

(***************************************************************************)
(* The yes tally counts every account whose recorded vote is yes, whatever *)
(* ids and addresses the members put up.                                   *)
(***************************************************************************)
THEOREM YesVotesAreCovered == GateSafety => []YesVotesCovered
<1>1. GateInv => YesVotesCovered
  BY DEF GateInv
<1> QED
  BY <1>1, GateInvariant, PTL

(***************************************************************************)
(* No unit of trust is lost, and each is frozen where it went, whatever    *)
(* address came with the application.                                      *)
(***************************************************************************)
THEOREM TrustIsConserved == GateSafety => []TrustAccounting
<1>1. GateInv => TrustAccounting
  <2> SUFFICES ASSUME GateInv PROVE TrustAccounting
    OBVIOUS
  <2>1. \A a \in Receivers : /\ trust[a].amount <= 1
                             /\ trust[a].frozen <=> trust[a].amount = 1
    BY DEF GateInv, TrustUnits
  <2>2. initialized => trust[GateAddr].amount + Cardinality(Entrusted) = TrustTotal
    BY DEF GateInv, TrustReserve
  <2> QED
    BY <2>1, <2>2 DEF TrustAccounting
<1> QED
  BY <1>1, GateInvariant, PTL

(***************************************************************************)
(* No sequence of calls takes trust back from an application.              *)
(***************************************************************************)
THEOREM TrustNeverTakenBack == GateSafety => TrustPermanent
<1>1. GateInv /\ [GateNext]_gateAllVars => [Trusted \subseteq Trusted']_gateAllVars
  BY GateStep
<1> QED
  BY <1>1, GateInvariant, PTL DEF GateSafety, TrustPermanent

(***************************************************************************)
(* Neither a late vote nor an account that leaves moves the tallies of a   *)
(* vote that has ended.                                                    *)
(***************************************************************************)
THEOREM EndedVoteSettled == GateSafety => SettledVote
<1> DEFINE Settled == ~inProgress => UNCHANGED <<yesVotes, noVotes>>
<1>1. [GateNext]_gateAllVars => [Settled]_gateAllVars
  BY DEF GateNext, GateCall, GateTick, InitTrustToken, OptInTrust, OptInGate, LeaveGate,
         AssessProposal, GateVote, gateVars
<1> QED
  BY <1>1, PTL DEF GateSafety, SettledVote
-----------------------------------------------------------------------------
(***************************************************************************)
(* The recorded ballots, as long as there is no vote on the id 0.          *)
(***************************************************************************)
NotOnZero == inProgress => considered # NoApp

\* A vote that counts on an application under consideration is one of its ballots.
LEMMA CurrentBallots ==
    ASSUME NEW p \in People, considered # NoApp
    PROVE  /\ VotedOn(p) /\ voter[p].vote = TRUE => p \in YesBallots
           /\ VotedOn(p) /\ voter[p].vote = FALSE => p \in NoBallots
  BY DEF VotedOn, YesBallots, NoBallots, Ballots

LEMMA BallotsStutter ==
    ASSUME TallyCoversBallots, UNCHANGED <<yesVotes, noVotes>>,
           \A p \in People : /\ voter'[p].app = voter[p].app
                             /\ voter'[p].vote = voter[p].vote
    PROVE  TallyCoversBallots'
<1>1. YesBallots' = YesBallots /\ NoBallots' = NoBallots
  BY DEF YesBallots, NoBallots, Ballots
<1>2. Cardinality(YesBallots') <= yesVotes' /\ Cardinality(NoBallots') <= noVotes'
  BY <1>1, TalliesCover
<1> QED
  BY <1>2, Zenon DEF TallyCoversBallots, YesBallots, NoBallots

LEMMA GateVoteBallots ==
    ASSUME GateInv, NotOnZero, TallyCoversBallots,
           NEW m \in People, NEW app \in AppIds, NEW vote \in BOOLEAN, GateVote(m, app, vote)
    PROVE  TallyCoversBallots'
<1>1. considered = app /\ app # NoApp /\ considered # NoApp
  BY DEF GateVote, NotOnZero
<1>2. yesVotes \in Nat /\ noVotes \in Nat
  BY GateAssumption DEF GateInv, GateTypeOK
<1>3. Cardinality(YesBallots) <= yesVotes /\ Cardinality(NoBallots) <= noVotes
  BY TalliesCover
<1>4. /\ Cardinality(YesBallots \ {m}) <= Rescinded(yesVotes, m, TRUE)
      /\ Cardinality(NoBallots \ {m}) <= Rescinded(noVotes, m, FALSE)
  <2>1. /\ VotedOn(m) /\ voter[m].vote = TRUE => m \in YesBallots
        /\ VotedOn(m) /\ voter[m].vote = FALSE => m \in NoBallots
    BY <1>1, CurrentBallots
  <2> QED
    BY <1>2, <1>3, <2>1, BallotsOfPeople, RescindCovers
<1>5. /\ YesBallots' = IF vote = TRUE THEN YesBallots \cup {m} ELSE YesBallots \ {m}
      /\ NoBallots' = IF vote = FALSE THEN NoBallots \cup {m} ELSE NoBallots \ {m}
  BY <1>1, VoteRecorded DEF YesBallots, NoBallots, Ballots
<1>6. /\ Cardinality(YesBallots') <= Counted(Rescinded(yesVotes, m, TRUE), vote, TRUE)
      /\ Cardinality(NoBallots') <= Counted(Rescinded(noVotes, m, FALSE), vote, FALSE)
  <2>1. Rescinded(yesVotes, m, TRUE) \in Nat /\ Rescinded(noVotes, m, FALSE) \in Nat
    BY VoteCounted
  <2>2. Cardinality(IF vote = TRUE THEN YesBallots \cup {m} ELSE YesBallots \ {m})
           <= Counted(Rescinded(yesVotes, m, TRUE), vote, TRUE)
    BY <1>4, <2>1, BallotsOfPeople, CountedCovers
  <2>3. Cardinality(IF vote = FALSE THEN NoBallots \cup {m} ELSE NoBallots \ {m})
           <= Counted(Rescinded(noVotes, m, FALSE), vote, FALSE)
    BY <1>4, <2>1, BallotsOfPeople, CountedCovers
  <2> QED
    BY <1>5, <2>2, <2>3, Zenon
<1>7. Cardinality(YesBallots') <= yesVotes' /\ Cardinality(NoBallots') <= noVotes'
  BY <1>6, VoteCounted
<1> QED
  BY <1>7, Zenon DEF TallyCoversBallots, YesBallots, NoBallots

\* With the ballots covered, every vote on the application can be taken back.
LEMMA CoveredCanRescind ==
    ASSUME GateInv, considered # NoApp, TallyCoversBallots, NEW p \in People
    PROVE  CanRescind(p)
<1> SUFFICES ASSUME VotedOn(p) PROVE IF voter[p].vote THEN yesVotes > 0 ELSE noVotes > 0
  BY DEF CanRescind
<1>1. voter[p].vote \in BOOLEAN /\ yesVotes \in Nat /\ noVotes \in Nat
  BY GateAssumption DEF GateInv, GateTypeOK, Voter
<1>2. /\ IsFiniteSet(YesBallots) /\ Cardinality(YesBallots) \in Nat
      /\ IsFiniteSet(NoBallots) /\ Cardinality(NoBallots) \in Nat
  BY BallotsOfPeople, VotersFinite
<1>3. Cardinality(YesBallots) <= yesVotes /\ Cardinality(NoBallots) <= noVotes
  BY TalliesCover
<1>4. CASE voter[p].vote = TRUE
  <2>1. Cardinality(YesBallots) # 0
    BY <1>2, <1>4, CurrentBallots, FS_EmptySet
  <2> QED
    BY <1>1, <1>2, <1>3, <1>4, <2>1
<1>5. CASE voter[p].vote = FALSE
  <2>1. Cardinality(NoBallots) # 0
    BY <1>2, <1>5, CurrentBallots, FS_EmptySet
  <2> QED
    BY <1>1, <1>2, <1>3, <1>5, <2>1
<1> QED
  BY <1>1, <1>4, <1>5

LEMMA LeaveGateBallots ==
    ASSUME GateInv, NotOnZero, TallyCoversBallots, NEW p \in People, LeaveGate(p)
    PROVE  TallyCoversBallots'
<1>1. yesVotes \in Nat /\ noVotes \in Nat
  BY GateAssumption DEF GateInv, GateTypeOK
<1>2. Cardinality(YesBallots) <= yesVotes /\ Cardinality(NoBallots) <= noVotes
  BY TalliesCover
<1>3. YesBallots' = YesBallots \ {p} /\ NoBallots' = NoBallots \ {p}
  <2>1. voter'[p] = NoVoter /\ \A q \in People \ {p} : voter'[q] = voter[q]
    BY LeaveGateTallies
  <2> QED
    BY <2>1 DEF YesBallots, NoBallots, Ballots, NoVoter
<1>4. Cardinality(YesBallots \ {p}) <= yesVotes' /\ Cardinality(NoBallots \ {p}) <= noVotes'
  <2>1. CASE inProgress /\ CanRescind(p)
    <3>1. considered # NoApp
      BY <2>1 DEF NotOnZero
    <3>2. /\ VotedOn(p) /\ voter[p].vote = TRUE => p \in YesBallots
          /\ VotedOn(p) /\ voter[p].vote = FALSE => p \in NoBallots
      BY <3>1, CurrentBallots
    <3>3. yesVotes' = Rescinded(yesVotes, p, TRUE) /\ noVotes' = Rescinded(noVotes, p, FALSE)
      BY <2>1, LeaveGateTallies
    <3> QED
      BY <1>1, <1>2, <3>2, <3>3, BallotsOfPeople, RescindCovers
  <2>2. CASE ~(inProgress /\ CanRescind(p))
    <3>1. yesVotes' = yesVotes /\ noVotes' = noVotes
      BY <2>2, LeaveGateTallies
    <3> QED
      BY <1>1, <1>2, <3>1, BallotsOfPeople, VotersFinite, FS_RemoveElement
  <2> QED
    BY <2>1, <2>2
<1> QED
  BY <1>3, <1>4, Zenon DEF TallyCoversBallots, YesBallots, NoBallots

(***************************************************************************)
(* Unless the members vote on the id 0, every recorded vote stays in the   *)
(* tally it went to, so that taking it back never goes below zero.         *)
(***************************************************************************)
THEOREM BallotsAreCovered == GateSafety => BallotsCovered
<1>1. GateInit => TallyCoversBallots
  <2> SUFFICES ASSUME GateInit PROVE TallyCoversBallots
    OBVIOUS
  <2>1. YesBallots = {} /\ NoBallots = {}
    BY DEF GateInit, YesBallots, NoBallots, Ballots, NoVoter
  <2> QED
    BY <2>1, FS_EmptySet, TalliesCover DEF GateInit
<1>2. GateInv /\ NotOnZero /\ TallyCoversBallots /\ [GateNext]_gateAllVars
         => TallyCoversBallots'
  <2> SUFFICES ASSUME GateInv, NotOnZero, TallyCoversBallots, [GateNext]_gateAllVars
               PROVE  TallyCoversBallots'
    OBVIOUS
  <2>1. CASE InitTrustToken
    BY <2>1, BallotsStutter DEF InitTrustToken
  <2>2. ASSUME NEW a0 \in Receivers, OptInTrust(a0) PROVE TallyCoversBallots'
    BY <2>2, BallotsStutter DEF OptInTrust
  <2>3. ASSUME NEW p \in People, OptInGate(p) PROVE TallyCoversBallots'
    BY <2>3, OptInGateVoter, BallotsStutter DEF OptInGate
  <2>4. ASSUME NEW p \in People, LeaveGate(p) PROVE TallyCoversBallots'
    BY <2>4, LeaveGateBallots
  <2>5. ASSUME NEW m \in People, NEW app \in AppIds, NEW addr \in TrustAccounts,
               AssessProposal(m, app, addr)
        PROVE  TallyCoversBallots'
    BY <2>5, BallotsStutter DEF AssessProposal
  <2>6. ASSUME NEW m \in People, NEW app \in AppIds, NEW vote \in BOOLEAN,
               GateVote(m, app, vote)
        PROVE  TallyCoversBallots'
    BY <2>6, GateVoteBallots
  <2>7. CASE GateTick
    BY <2>7, BallotsStutter DEF GateTick
  <2>8. CASE UNCHANGED gateVars
    BY <2>8, BallotsStutter DEF gateVars
  <2>9. GateCall \/ GateTick \/ UNCHANGED gateVars
    BY DEF GateNext, gateAllVars
  <2> QED
    BY <2>1, <2>2, <2>3, <2>4, <2>5, <2>6, <2>7, <2>8, <2>9, Zenon DEF GateCall
<1> QED
  BY <1>1, <1>2, GateInvariant, PTL DEF GateSafety, BallotsCovered, NotOnZero
-----------------------------------------------------------------------------
(***************************************************************************)
(* How the tallies follow the accounts with a vote on the application.     *)
(***************************************************************************)
Current == {p \in People : VotedOn(p)}

Total == yesVotes + noVotes

\* CountsEachOnce for one step.
EachOnce ==
    inProgress /\ considered' = considered /\ considered # NoApp /\ TallyCoversBallots =>
        Total' + Cardinality(Current) = Total + Cardinality(Current')

LEMMA CurrentFinite == IsFiniteSet(Current) /\ Cardinality(Current) \in Nat
  BY VotersFinite DEF Current

\* Where no vote and no tally changes, nothing does.
LEMMA EachOnceStutter ==
    ASSUME UNCHANGED <<yesVotes, noVotes>>,
           \A p \in People : voter'[p].app = voter[p].app
    PROVE  EachOnce
<1>1. ASSUME considered' = considered PROVE Current' = Current
  BY <1>1 DEF Current, VotedOn
<1>2. Total' = Total
  BY DEF Total
<1> QED
  BY <1>1, <1>2 DEF EachOnce

\* Both tallies together lose one when p takes a vote on the application back.
LEMMA RescindedTotal ==
    ASSUME GateInv, NEW p \in People, CanRescind(p)
    PROVE  /\ Rescinded(yesVotes, p, TRUE) \in Nat /\ Rescinded(noVotes, p, FALSE) \in Nat
           /\ Rescinded(yesVotes, p, TRUE) + Rescinded(noVotes, p, FALSE)
                 = IF VotedOn(p) THEN Total - 1 ELSE Total
<1> DEFINE yes == Rescinded(yesVotes, p, TRUE)
           no  == Rescinded(noVotes, p, FALSE)
<1>1. yes \in Nat /\ no \in Nat
  <2>1. yes \in 0 .. MaxTally /\ no \in 0 .. MaxTally
    BY RescindTypes
  <2> HIDE DEF yes, no
  <2> QED
    BY <2>1
<1>2. yesVotes \in Nat /\ noVotes \in Nat
  BY GateAssumption DEF GateInv, GateTypeOK
<1>3. voter[p].vote \in BOOLEAN
  BY DEF GateInv, GateTypeOK, Voter
<1>4. yes + no = IF VotedOn(p) THEN Total - 1 ELSE Total
  <2>1. CASE VotedOn(p) /\ voter[p].vote = TRUE
    <3>1. yes = yesVotes - 1
      BY <2>1 DEF Rescinded
    <3>2. no = noVotes
      BY <2>1 DEF Rescinded
    <3> HIDE DEF yes, no
    <3> QED
      BY <1>2, <2>1, <3>1, <3>2 DEF Total
  <2>2. CASE VotedOn(p) /\ voter[p].vote = FALSE
    <3>1. yes = yesVotes
      BY <2>2 DEF Rescinded
    <3>2. no = noVotes - 1
      BY <2>2 DEF Rescinded
    <3> HIDE DEF yes, no
    <3> QED
      BY <1>2, <2>2, <3>1, <3>2 DEF Total
  <2>3. CASE ~VotedOn(p)
    <3>1. yes = yesVotes /\ no = noVotes
      BY <2>3 DEF Rescinded
    <3> HIDE DEF yes, no
    <3> QED
      BY <2>3, <3>1 DEF Total
  <2> QED
    BY <1>3, <2>1, <2>2, <2>3
<1> QED
  BY <1>1, <1>4, Zenon

LEMMA GateVoteEachOnce ==
    ASSUME GateInv, NEW m \in People, NEW app \in AppIds, NEW vote \in BOOLEAN,
           GateVote(m, app, vote)
    PROVE  EachOnce
<1> DEFINE yes == Rescinded(yesVotes, m, TRUE)
           no  == Rescinded(noVotes, m, FALSE)
<1>1. considered = app /\ considered' = app /\ CanRescind(m)
  BY DEF GateVote
<1>2. yes \in Nat /\ no \in Nat /\ yes + no = IF VotedOn(m) THEN Total - 1 ELSE Total
  BY <1>1, RescindedTotal
<1>3. yesVotes' = Counted(yes, vote, TRUE) /\ noVotes' = Counted(no, vote, FALSE)
  BY DEF GateVote
<1>4. Total' = IF VotedOn(m) THEN Total ELSE Total + 1
  <2> HIDE DEF yes, no
  <2>1. Total \in Nat
    BY GateAssumption DEF GateInv, GateTypeOK, Total
  <2>2. Total' = yes + no + 1
    <3>1. CASE vote = TRUE
      BY <1>2, <1>3, <3>1 DEF Counted, Total
    <3>2. CASE vote = FALSE
      BY <1>2, <1>3, <3>2 DEF Counted, Total
    <3> QED
      BY <3>1, <3>2
  <2> QED
    BY <1>2, <2>1, <2>2
<1>5. /\ voter'[m].app = app
      /\ \A p \in People \ {m} : voter'[p].app = voter[p].app
  BY VoteRecorded
<1>6. Current' = Current \cup {m}
  BY <1>1, <1>5 DEF Current, VotedOn
<1>7. Cardinality(Current') = IF VotedOn(m) THEN Cardinality(Current)
                                            ELSE Cardinality(Current) + 1
  <2>1. VotedOn(m) <=> m \in Current
    BY DEF Current
  <2> QED
    BY <1>6, <2>1, CurrentFinite, FS_AddElement
<1>8. Total \in Nat /\ Cardinality(Current) \in Nat
  BY CurrentFinite, GateAssumption DEF GateInv, GateTypeOK, Total
<1>9. Total' + Cardinality(Current) = Total + Cardinality(Current')
  BY <1>4, <1>7, <1>8
<1> QED
  BY <1>9 DEF EachOnce

LEMMA LeaveGateEachOnce ==
    ASSUME GateInv, NEW p \in People, LeaveGate(p)
    PROVE  EachOnce
<1> SUFFICES ASSUME inProgress, considered' = considered, considered # NoApp,
                    TallyCoversBallots
             PROVE  Total' + Cardinality(Current) = Total + Cardinality(Current')
  BY DEF EachOnce
<1>1. CanRescind(p)
  BY CoveredCanRescind
<1>2. Total' = IF VotedOn(p) THEN Total - 1 ELSE Total
  <2>1. yesVotes' = Rescinded(yesVotes, p, TRUE) /\ noVotes' = Rescinded(noVotes, p, FALSE)
    BY <1>1, LeaveGateTallies
  <2> QED
    BY <1>1, <2>1, RescindedTotal DEF Total
<1>3. voter'[p].app = NoApp /\ \A q \in People \ {p} : voter'[q] = voter[q]
  <2>1. voter'[p] = NoVoter /\ \A q \in People \ {p} : voter'[q] = voter[q]
    BY LeaveGateTallies
  <2> QED
    BY <2>1 DEF NoVoter
<1>4. Current' = Current \ {p}
  BY <1>3 DEF Current, VotedOn
<1>5. Cardinality(Current') = IF VotedOn(p) THEN Cardinality(Current) - 1
                                            ELSE Cardinality(Current)
  <2>1. VotedOn(p) <=> p \in Current
    BY DEF Current
  <2> QED
    BY <1>4, <2>1, CurrentFinite, FS_RemoveElement
<1>6. Total \in Nat /\ Cardinality(Current) \in Nat
  BY CurrentFinite, GateAssumption DEF GateInv, GateTypeOK, Total
<1> QED
  BY <1>2, <1>5, <1>6

(***************************************************************************)
(* However often a member votes, changes its vote, leaves and comes back,  *)
(* its vote on an application, the id 0 apart, counts once while the vote  *)
(* runs.                                                                   *)
(***************************************************************************)
THEOREM VotesCountOnce == GateSafety => CountsEachOnce
<1>1. GateInv /\ [GateNext]_gateAllVars => EachOnce
  <2> SUFFICES ASSUME GateInv, [GateNext]_gateAllVars PROVE EachOnce
    OBVIOUS
  <2>1. CASE InitTrustToken
    BY <2>1, EachOnceStutter DEF InitTrustToken
  <2>2. ASSUME NEW a0 \in Receivers, OptInTrust(a0) PROVE EachOnce
    BY <2>2, EachOnceStutter DEF OptInTrust
  <2>3. ASSUME NEW p \in People, OptInGate(p) PROVE EachOnce
    BY <2>3, OptInGateVoter, EachOnceStutter DEF OptInGate
  <2>4. ASSUME NEW p \in People, LeaveGate(p) PROVE EachOnce
    BY <2>4, LeaveGateEachOnce
  <2>5. ASSUME NEW m \in People, NEW app \in AppIds, NEW addr \in TrustAccounts,
               AssessProposal(m, app, addr)
        PROVE  EachOnce
    BY <2>5, EachOnceStutter DEF AssessProposal
  <2>6. ASSUME NEW m \in People, NEW app \in AppIds, NEW vote \in BOOLEAN,
               GateVote(m, app, vote)
        PROVE  EachOnce
    BY <2>6, GateVoteEachOnce
  <2>7. CASE GateTick
    BY <2>7, EachOnceStutter DEF GateTick
  <2>8. CASE UNCHANGED gateVars
    BY <2>8, EachOnceStutter DEF gateVars
  <2>9. GateCall \/ GateTick \/ UNCHANGED gateVars
    BY DEF GateNext, gateAllVars
  <2> QED
    BY <2>1, <2>2, <2>3, <2>4, <2>5, <2>6, <2>7, <2>8, <2>9, Zenon DEF GateCall
<1>2. [EachOnce]_gateAllVars
      <=> [inProgress /\ considered' = considered /\ considered # NoApp
             /\ TallyCoversBallots =>
             LET current == {p \in People : VotedOn(p)} IN
             yesVotes' + noVotes' + Cardinality(current)
                 = yesVotes + noVotes + Cardinality(current')]_gateAllVars
  BY Zenon DEF EachOnce, Total, Current
<1> QED
  BY <1>1, <1>2, GateInvariant, PTL DEF GateSafety, CountsEachOnce
=============================================================================
