-------------------------- MODULE CommitteeProofs --------------------------
(***************************************************************************)
(* Proofs about Committee, for every set of accounts and every size.       *)
(***************************************************************************)
EXTENDS Committee, FiniteSetTheorems, TLAPS

(***************************************************************************)
(* What holds of the holdings of people: one unit at most, frozen exactly  *)
(* when there is one.  This is what stops a plain transfer, and what makes *)
(* a resignation give back the caller's own unit.                          *)
(***************************************************************************)
UnitsFrozen ==
    \A p \in People : /\ token[p].amount \in {0, 1}
                      /\ token[p].amount = 1 => token[p].optedin
                      /\ token[p].frozen <=> token[p].amount = 1

\* What holds of the contract's own holding once there is an asset.
ReserveCounts ==
    assetId # 0 => /\ token[CommitteeAddr].optedin
                   /\ ~token[CommitteeAddr].frozen
                   /\ token[CommitteeAddr].amount + Cardinality(Members) = MaxMembers

CommitteeInv == CommitteeTypeOK /\ UnitsFrozen /\ ReserveCounts

LEMMA MembersFinite == IsFiniteSet(Members) /\ Members \subseteq People
<1>1. Members \subseteq People
  BY DEF Members, Holders
<1> QED
  BY <1>1, CommitteeAssumption, FS_Subset

LEMMA CommitteeInvInit == CommitteeInit => CommitteeInv
  BY CommitteeAssumption
  DEF CommitteeInit, CommitteeInv, CommitteeTypeOK, UnitsFrozen, ReserveCounts,
      CommitteeAccounts, NoHolding, Holding

LEMMA InitTokenInv == CommitteeInv /\ InitToken => CommitteeInv'
<1> SUFFICES ASSUME CommitteeInv, InitToken PROVE CommitteeInv'
  OBVIOUS
<1> USE CommitteeAssumption DEF CommitteeInv, CommitteeTypeOK, CommitteeAccounts
<1>1. CommitteeTypeOK'
  BY DEF InitToken, NewAsset, NoHolding, Holding
<1>2. UnitsFrozen'
  BY DEF InitToken, NewAsset, NoHolding, UnitsFrozen
<1>3. Members' = {}
  BY DEF InitToken, NewAsset, NoHolding, Members, Holders, IsMember
<1>4. ReserveCounts'
  BY <1>3, FS_EmptySet DEF InitToken, NewAsset, ReserveCounts
<1> QED
  BY <1>1, <1>2, <1>4

\* While nobody is on the committee, every unit is in the reserve.
LEMMA FullReserve ==
    ASSUME CommitteeInv, assetId # 0, token[CommitteeAddr].amount = MaxMembers
    PROVE  Members = {}
<1>1. Cardinality(Members) \in Nat
  BY MembersFinite, FS_CardinalityType
<1>2. Cardinality(Members) = 0
  BY <1>1, CommitteeAssumption DEF CommitteeInv, ReserveCounts
<1> QED
  BY <1>2, MembersFinite, FS_EmptySet

LEMMA SetMembersInv ==
    ASSUME CommitteeInv, NEW caller \in People, NEW new \in SUBSET People,
           SetMembers(caller, new)
    PROVE  CommitteeInv' /\ Members' = new /\ Members = {}
<1> USE CommitteeAssumption DEF CommitteeInv, CommitteeTypeOK, CommitteeAccounts
<1>1. Members = {}
  BY FullReserve DEF SetMembers
<1>2. \A p \in People : token[p].amount = 0
  BY <1>1 DEF UnitsFrozen, Members, Holders, IsMember
<1>3. Cardinality(new) \in Nat
  BY FS_Subset, FS_CardinalityType
<1>4. token' = AddMembers(new) /\ assetId' = assetId
  BY DEF SetMembers
<1>5. \A m \in new : /\ token'[m] \in Holding
                     /\ token'[m].optedin /\ token'[m].frozen
                     /\ token'[m].amount = 1
  <2> TAKE m \in new
  <2>1. m \in People /\ token[m] \in Holding /\ token[m].optedin
    BY DEF SetMembers, CanAddMembers, Movable
  <2>2. token'[m] = [token[m] EXCEPT !.amount = @ + 1, !.frozen = TRUE]
    BY <1>4, <2>1 DEF AddMembers
  <2>3. token[m].amount + 1 = 1
    BY <1>2, <2>1
  <2>4. token'[m] = [token[m] EXCEPT !.amount = 1, !.frozen = TRUE]
    BY <2>2, <2>3
  <2> DEFINE given == [token[m] EXCEPT !.amount = 1]
  <2>5. given \in Holding /\ given.optedin /\ given.amount = 1
    BY <2>1 DEF Holding
  <2>6. token'[m] = [given EXCEPT !.frozen = TRUE]
    BY <2>1, <2>4 DEF Holding
  <2> HIDE DEF given
  <2> QED
    BY <2>5, <2>6 DEF Holding
<1>6. \A p \in People \ new : token'[p] = token[p]
  BY <1>4 DEF AddMembers
<1>7. /\ token'[CommitteeAddr].amount = MaxMembers - Cardinality(new)
      /\ token'[CommitteeAddr].optedin = token[CommitteeAddr].optedin
      /\ token'[CommitteeAddr].frozen = token[CommitteeAddr].frozen
      /\ token'[CommitteeAddr] \in Holding
  <2>1. token[CommitteeAddr] \in Holding
    OBVIOUS
  <2>2. token'[CommitteeAddr] = [token[CommitteeAddr] EXCEPT !.amount = @ - Cardinality(new)]
    BY <1>4 DEF AddMembers
  <2>3. MaxMembers - Cardinality(new) \in Nat /\ token[CommitteeAddr].amount = MaxMembers
    BY <1>3 DEF SetMembers, CanAddMembers
  <2> QED
    BY <2>1, <2>2, <2>3 DEF Holding
<1>8. CommitteeTypeOK'
  <2>1. \A a \in CommitteeAccounts : token'[a] \in Holding
    BY <1>5, <1>6, <1>7
  <2>2. token' \in [CommitteeAccounts -> Holding]
    BY <1>4, <2>1 DEF AddMembers
  <2> QED
    BY <1>4, <2>2
<1>9. UnitsFrozen'
  BY <1>5, <1>6 DEF UnitsFrozen
<1>10. Members' = new
  BY <1>2, <1>5, <1>6 DEF Members, Holders, IsMember
<1>11. ReserveCounts'
  BY <1>3, <1>4, <1>7, <1>10 DEF ReserveCounts, SetMembers
<1> QED
  BY <1>1, <1>8, <1>9, <1>10, <1>11

\* Only the caller's own unit can be given back: every other one is frozen.
LEMMA ResignInv ==
    ASSUME CommitteeInv, NEW caller \in People, NEW xfer \in Transfers,
           Resign(caller, xfer)
    PROVE  CommitteeInv' /\ caller \in Members /\ Members' = Members \ {caller}
<1> USE CommitteeAssumption DEF CommitteeInv, CommitteeTypeOK, CommitteeAccounts
<1> DEFINE thawed == SetAssetFreeze(token, caller, FALSE)
<1>1. xfer.from \in People /\ xfer.amount = 1 /\ xfer.to = CommitteeAddr
  BY DEF Transfers, Resign, MayResign
<1>2. Movable(thawed, xfer.from) /\ thawed[xfer.from].amount >= 1
  BY <1>1, xfer.amount # 0 DEF Resign, MayResign, Thawed, CanTransfer
<1>3. \A a \in CommitteeAccounts \ {caller} : thawed[a] = token[a]
  BY DEF SetAssetFreeze
<1>4. /\ thawed[caller] \in Holding
      /\ thawed[caller].optedin = token[caller].optedin
      /\ thawed[caller].amount = token[caller].amount
      /\ thawed[caller].frozen = FALSE
  <2>1. token[caller] \in Holding
    OBVIOUS
  <2>2. thawed[caller] = [token[caller] EXCEPT !.frozen = FALSE]
    BY DEF SetAssetFreeze
  <2> QED
    BY <2>1, <2>2 DEF Holding
<1>5. xfer.from = caller
  <2> SUFFICES ASSUME xfer.from # caller PROVE FALSE
    OBVIOUS
  <2>1. thawed[xfer.from] = token[xfer.from]
    BY <1>1, <1>3
  <2>2. token[xfer.from].amount >= 1 /\ ~token[xfer.from].frozen
    BY <1>2, <2>1 DEF Movable
  <2>3. token[xfer.from].amount = 1
    BY <1>1, <2>2 DEF UnitsFrozen
  <2> QED
    BY <1>1, <2>2, <2>3 DEF UnitsFrozen
<1>6. token[caller].amount = 1 /\ token[caller].optedin
  <2>1. token[caller].amount >= 1 /\ token[caller].optedin
    BY <1>2, <1>4, <1>5 DEF Movable
  <2> QED
    BY <2>1 DEF UnitsFrozen
<1>7. assetId # 0 /\ assetId' = assetId
  BY DEF Resign, MayResign
<1>8. token' = [[thawed EXCEPT ![caller].amount = @ - 1] EXCEPT ![CommitteeAddr].amount = @ + 1]
  BY <1>1, <1>5 DEF Resign, Returned, Thawed, Transfer
<1>9. thawed \in [CommitteeAccounts -> Holding]
  BY DEF SetAssetFreeze, Holding
<1>10. \A p \in People \ {caller} : token'[p] = token[p]
  BY <1>3, <1>8, <1>9
<1>11. /\ token'[caller] \in Holding
       /\ token'[caller].amount = 0
       /\ token'[caller].frozen = FALSE
  <2>1. token'[caller] = [thawed[caller] EXCEPT !.amount = @ - 1]
    BY <1>8, <1>9
  <2> HIDE DEF thawed
  <2>2. thawed[caller].amount - 1 = 0
    BY <1>4, <1>6
  <2>3. token'[caller] = [thawed[caller] EXCEPT !.amount = 0]
    BY <2>1, <2>2
  <2> QED
    BY <2>3, <1>4 DEF Holding
<1>12. /\ token'[CommitteeAddr] \in Holding
       /\ token'[CommitteeAddr].optedin
       /\ ~token'[CommitteeAddr].frozen
       /\ token'[CommitteeAddr].amount = token[CommitteeAddr].amount + 1
  <2>1. token[CommitteeAddr] \in Holding /\ thawed[CommitteeAddr] = token[CommitteeAddr]
    BY <1>3
  <2>2. token'[CommitteeAddr] = [token[CommitteeAddr] EXCEPT !.amount = @ + 1]
    BY <1>8, <1>9, <2>1
  <2> QED
    BY <1>7, <2>1, <2>2 DEF ReserveCounts, Holding
<1>13. CommitteeTypeOK'
  <2>1. \A a \in CommitteeAccounts : token'[a] \in Holding
    BY <1>10, <1>11, <1>12
  <2>2. token' \in [CommitteeAccounts -> Holding]
    BY <1>8, <1>9, <2>1
  <2> QED
    BY <1>7, <2>2
<1>14. UnitsFrozen'
  BY <1>10, <1>11 DEF UnitsFrozen
<1>15. caller \in Members
  BY <1>6 DEF Members, Holders, IsMember
<1>16. Members' = Members \ {caller}
  BY <1>10, <1>11 DEF Members, Holders, IsMember
<1>17. Cardinality(Members') = Cardinality(Members) - 1
  BY <1>15, <1>16, MembersFinite, FS_RemoveElement
<1>18. Cardinality(Members) \in Nat /\ token[CommitteeAddr].amount \in Nat
  BY MembersFinite, FS_CardinalityType DEF Holding
<1>19. ReserveCounts'
  BY <1>7, <1>12, <1>17, <1>18 DEF ReserveCounts
<1> QED
  BY <1>13, <1>14, <1>15, <1>16, <1>19

\* A plain transfer moves nothing: it is an opt-in or has no effect.
LEMMA MoveTokenInv ==
    ASSUME CommitteeInv, NEW xfer \in Transfers, MoveToken(xfer)
    PROVE  CommitteeInv' /\ Members' = Members
<1> USE CommitteeAssumption DEF CommitteeInv, CommitteeTypeOK, CommitteeAccounts
<1>1. xfer.from \in People /\ xfer.amount \in 0 .. 1
  BY DEF Transfers
<1>2. xfer.amount = 0
  BY <1>1 DEF MoveToken, CanTransfer, Movable, UnitsFrozen, Holding
<1>3. assetId' = assetId
  BY DEF MoveToken
<1>4. \/ token' = token
      \/ token' = [token EXCEPT ![xfer.from].optedin = TRUE]
  BY <1>2 DEF MoveToken, Transfer
<1>5. \A a \in CommitteeAccounts :
         /\ token'[a] \in Holding
         /\ token'[a].amount = token[a].amount
         /\ token'[a].frozen = token[a].frozen
         /\ token[a].optedin => token'[a].optedin
  <2> TAKE a \in CommitteeAccounts
  <2>1. token[a] \in Holding
    OBVIOUS
  <2>2. token'[a] = token[a] \/ token'[a] = [token[a] EXCEPT !.optedin = TRUE]
    BY <1>1, <1>4
  <2> QED
    BY <2>1, <2>2 DEF Holding
<1>6. CommitteeTypeOK'
  BY <1>3, <1>4, <1>5
<1>7. UnitsFrozen'
  BY <1>5 DEF UnitsFrozen
<1>8. Members' = Members
  BY <1>5 DEF Members, Holders, IsMember, UnitsFrozen
<1>9. ReserveCounts'
  BY <1>3, <1>5, <1>8 DEF ReserveCounts
<1> QED
  BY <1>6, <1>7, <1>8, <1>9

LEMMA CommitteeStep == CommitteeInv /\ [CommitteeNext]_committeeVars => CommitteeInv'
<1> SUFFICES ASSUME CommitteeInv, [CommitteeNext]_committeeVars PROVE CommitteeInv'
  OBVIOUS
<1>1. CASE InitToken
  BY <1>1, InitTokenInv
<1>2. CASE \E p \in People, new \in SUBSET People : SetMembers(p, new)
  BY <1>2, SetMembersInv
<1>3. CASE \E p \in People, xfer \in Transfers : Resign(p, xfer)
  BY <1>3, ResignInv
<1>4. CASE \E xfer \in Transfers : MoveToken(xfer)
  BY <1>4, MoveTokenInv
<1>5. CASE UNCHANGED committeeVars
  BY <1>5 DEF committeeVars, CommitteeInv, CommitteeTypeOK, UnitsFrozen, ReserveCounts,
              Members, Holders, IsMember
<1> QED
  BY <1>1, <1>2, <1>3, <1>4, <1>5 DEF CommitteeNext

THEOREM CommitteeInvariant == CommitteeSpec => []CommitteeInv
  BY CommitteeInvInit, CommitteeStep, PTL DEF CommitteeSpec

(***************************************************************************)
(* The state of the committee contract keeps its type.                     *)
(***************************************************************************)
THEOREM CommitteeTypes == CommitteeSpec => []CommitteeTypeOK
  BY CommitteeInvariant, PTL DEF CommitteeInv

(***************************************************************************)
(* The committee size the contract computes is its number of members.      *)
(***************************************************************************)
THEOREM SizeIsMembers == CommitteeSpec => []SizeCountsMembers
<1>1. CommitteeInv => SizeCountsMembers
  <2>1. Cardinality(Members) \in Nat
    BY MembersFinite, FS_CardinalityType
  <2> QED
    BY <2>1, CommitteeAssumption
    DEF CommitteeInv, CommitteeTypeOK, ReserveCounts, SizeCountsMembers, CommitteeSize,
        CommitteeAccounts, Holding
<1> QED
  BY <1>1, CommitteeInvariant, PTL

(***************************************************************************)
(* A member holds one frozen unit, so membership is never passed on.       *)
(***************************************************************************)
THEOREM MembershipStaysFrozen == CommitteeSpec => []MembershipFrozen
<1>1. CommitteeInv => MembershipFrozen
  BY DEF CommitteeInv, UnitsFrozen, MembershipFrozen, Members, Holders, IsMember
<1> QED
  BY <1>1, CommitteeInvariant, PTL

(***************************************************************************)
(* Nobody joins a committee that has members.                              *)
(***************************************************************************)
THEOREM JoinsOnlyEmpty == CommitteeSpec => JoinsEmptyCommittee
<1> DEFINE Joins == Members' \subseteq Members \/ Members = {}
<1>1. CommitteeInv /\ [CommitteeNext]_committeeVars => [Joins]_committeeVars
  <2> SUFFICES ASSUME CommitteeInv, CommitteeNext PROVE Joins
    OBVIOUS
  <2>1. CASE InitToken
    BY <2>1, CommitteeAssumption
    DEF InitToken, NewAsset, NoHolding, Members, Holders, IsMember, CommitteeAccounts
  <2>2. CASE \E p \in People, new \in SUBSET People : SetMembers(p, new)
    BY <2>2, SetMembersInv
  <2>3. CASE \E p \in People, xfer \in Transfers : Resign(p, xfer)
    BY <2>3, ResignInv
  <2>4. CASE \E xfer \in Transfers : MoveToken(xfer)
    BY <2>4, MoveTokenInv
  <2> QED
    BY <2>1, <2>2, <2>3, <2>4 DEF CommitteeNext
<1> QED
  BY <1>1, CommitteeInvariant, PTL DEF CommitteeSpec, JoinsEmptyCommittee

\* Without an asset there is no unit.
LEMMA UnitsNeedAsset == CommitteeSpec => [](assetId = 0 => Members = {})
<1>1. CommitteeInit => (assetId = 0 => Members = {})
  BY DEF CommitteeInit, Members, Holders, IsMember, NoHolding, CommitteeAccounts
<1>2. ASSUME CommitteeInv, assetId = 0 => Members = {}, [CommitteeNext]_committeeVars
      PROVE  (assetId = 0 => Members = {})'
  <2>1. CASE InitToken
    <3>1. assetId' # 0
      BY <1>2, <2>1, CommitteeAssumption DEF InitToken, CommitteeInv, CommitteeTypeOK
    <3> QED
      BY <3>1
  <2>2. CASE \/ \E p \in People, new \in SUBSET People : SetMembers(p, new)
             \/ \E p \in People, xfer \in Transfers : Resign(p, xfer)
             \/ \E xfer \in Transfers : MoveToken(xfer)
    BY <2>2 DEF SetMembers, Resign, MayResign, MoveToken
  <2>3. CASE UNCHANGED committeeVars
    BY <1>2, <2>3 DEF committeeVars, Members, Holders, IsMember
  <2> QED
    BY <1>2, <2>1, <2>2, <2>3 DEF CommitteeNext
<1> QED
  BY <1>1, <1>2, CommitteeInvariant, PTL DEF CommitteeSpec

(***************************************************************************)
(* A member is never stuck on the committee: none of the guards of         *)
(* "resign" ever refuses the group that call_resign builds for it.         *)
(***************************************************************************)
THEOREM MembersResign == CommitteeSpec => []CanResign
<1>1. ASSUME CommitteeInv, assetId = 0 => Members = {} PROVE CanResign
  <2> SUFFICES ASSUME NEW m \in Members
               PROVE  /\ MayResign(m, ResignGroup(m))
                      /\ m \notin Holders(Returned(m, ResignGroup(m)), People)
    BY DEF CanResign
  <2> USE CommitteeAssumption DEF CommitteeInv, CommitteeTypeOK, CommitteeAccounts
  <2>1. /\ assetId # 0 /\ m \in People /\ m # CommitteeAddr
        /\ token[m].optedin /\ token[m].amount = 1 /\ token[m] \in Holding
    BY <1>1 DEF Members, Holders, IsMember, UnitsFrozen
  <2>2. /\ token[CommitteeAddr].optedin /\ ~token[CommitteeAddr].frozen
        /\ token[CommitteeAddr] \in Holding
    BY <1>1, <2>1 DEF ReserveCounts
  <2>3. /\ Thawed(m)[CommitteeAddr] = token[CommitteeAddr]
        /\ Thawed(m)[m] = [token[m] EXCEPT !.frozen = FALSE]
        /\ Thawed(m) \in [CommitteeAccounts -> Holding]
    BY <1>1, <2>1 DEF Thawed, SetAssetFreeze, Holding
  <2>4. Thawed(m)[m].optedin /\ ~Thawed(m)[m].frozen /\ Thawed(m)[m].amount = 1
    BY <2>1, <2>3 DEF Holding
  <2>5. CanFreeze(token, m) /\ CanTransfer(Thawed(m), m, CommitteeAddr, 1)
    BY <2>1, <2>2, <2>3, <2>4 DEF CanFreeze, CanTransfer, Movable
  <2>6. Returned(m, ResignGroup(m))[m].amount = 0
    <3>1. PICK thawed \in [CommitteeAccounts -> Holding] : thawed = Thawed(m)
      BY <2>3
    <3> DEFINE spent == [thawed EXCEPT ![m].amount = @ - 1]
    <3>2. spent[m].amount = 0 /\ DOMAIN spent = CommitteeAccounts
      BY <2>1, <2>4, <3>1 DEF Holding
    <3>3. Returned(m, ResignGroup(m)) = [spent EXCEPT ![CommitteeAddr].amount = @ + 1]
      BY <3>1 DEF Returned, ResignGroup, Transfer
    <3> HIDE DEF spent
    <3> QED
      BY <2>1, <3>2, <3>3
  <2> QED
    BY <2>1, <2>5, <2>6 DEF MayResign, ResignGroup, Holders, IsMember
<1> QED
  BY <1>1, CommitteeInvariant, UnitsNeedAsset, PTL
=============================================================================
