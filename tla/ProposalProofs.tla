--------------------------- MODULE ProposalProofs ---------------------------
(***************************************************************************)
(* Proofs about Proposal, for every set of proposals, however configured,  *)
(* every election token and every size of the machine's integers.          *)
(***************************************************************************)
EXTENDS Proposal, AsaProofs

(***************************************************************************)
(* A result computed after the last voting round: no vote comes after it.  *)
(***************************************************************************)
ResultsAreLate == \A prop \in Proposals : passed[prop] => VoteOver(prop)

ResultsInv == ProposalTypeOK /\ ResultsAreLate /\ PassedSound

LEMMA MoveType ==
    ASSUME ProposalTypeOK, NEW asset \in Assets, NEW from \in VoteAccounts,
           NEW to \in VoteAccounts, NEW n \in Nat, CanTransfer(elec[asset], from, to, n)
    PROVE  [elec EXCEPT ![asset] = Transfer(@, from, to, n)] \in [Assets -> [VoteAccounts -> Holding]]
<1>1. elec[asset] \in [VoteAccounts -> Holding]
  BY DEF ProposalTypeOK
<1>2. Transfer(elec[asset], from, to, n) \in [VoteAccounts -> Holding]
  BY <1>1, TransferType
<1> QED
  BY <1>2 DEF ProposalTypeOK

\* What a proposal is created with.
LEMMA ConfigType ==
    ASSUME NEW prop \in Proposals
    PROVE  /\ Config[prop].asset \in Assets \cup {NoAsset}
           /\ Config[prop].voteBegin \in Nat /\ Config[prop].voteEnd \in Nat
           /\ Config[prop].data \in VoteData \cup {NoData}
  BY ProposalAssumption

LEMMA OptionsOfAVote == YesKey \in OptionArgs /\ NoKey \in OptionArgs
  BY ProposalAssumption

LEMMA ResultsInvInit == ProposalInit => ResultsInv
<1> SUFFICES ASSUME ProposalInit PROVE ResultsInv
  OBVIOUS
<1>1. \A asset \in Assets : elec[asset] \in [VoteAccounts -> Holding]
  <2>1. NewAsset(VoteAccounts, Issuer, Supply) \in [VoteAccounts -> Holding]
    BY ProposalAssumption DEF NewAsset, NoHolding, Holding
  <2>2. elec = [asset \in Assets |-> NewAsset(VoteAccounts, Issuer, Supply)]
    BY DEF ProposalInit
  <2> QED
    BY <2>1, <2>2, Zenon
<1>2. elec \in [Assets -> [VoteAccounts -> Holding]]
  BY <1>1 DEF ProposalInit
<1>3. NoVotes \in [OptionArgs -> Nat]
  BY DEF NoVotes
<1>4. NotRegistered \in Ballot
  BY <1>3 DEF NotRegistered, Ballot
<1>5. voter \in [Proposals -> [People -> Ballot]]
  BY <1>4 DEF ProposalInit
<1>6. allVotes \in [Proposals -> [OptionArgs -> Nat]]
  BY <1>3 DEF ProposalInit
<1>7. voteAsset \in [Proposals -> Assets \cup {NoAsset}]
  BY ConfigType DEF ProposalInit
<1>8. round \in 0 .. Horizon /\ slots \in [Proposals -> SUBSET OptionArgs]
  BY ProposalAssumption DEF ProposalInit
<1>9. /\ passed \in [Proposals -> BOOLEAN] /\ implemented \in [Proposals -> BOOLEAN]
      /\ \A prop \in Proposals : passed[prop] = FALSE
  BY DEF ProposalInit
<1> QED
  BY <1>2, <1>5, <1>6, <1>7, <1>8, <1>9
  DEF ResultsInv, ProposalTypeOK, ResultsAreLate, PassedSound, Ballot
-----------------------------------------------------------------------------
(***************************************************************************)
(* Votes: once the result of a proposal is computed, none is counted.      *)
(***************************************************************************)
LEMMA RecordedType ==
    ASSUME NEW ballot \in Ballot, NEW arg \in OptionArgs, NEW votes \in Nat
    PROVE  /\ Recorded(ballot, arg, votes) \in Ballot
           /\ Recorded(ballot, arg, votes).voted = [ballot.voted EXCEPT ![arg] = votes]
<1>1. [ballot.voted EXCEPT ![arg] = votes] \in [OptionArgs -> Nat]
  BY DEF Ballot
<1>2. ballot.keys \cup {arg} \in SUBSET OptionArgs
  BY DEF Ballot
<1> QED
  BY <1>1, <1>2 DEF Ballot, Recorded

LEMMA CastVoteInv ==
    ASSUME ResultsInv, NEW p \in People, NEW prop \in Proposals, NEW arg \in OptionArgs,
           NEW xfer \in ElecTransfers, CastVote(p, prop, arg, xfer)
    PROVE  ResultsInv'
<1> USE DEF ResultsInv, ProposalTypeOK
<1>1. /\ xfer.asset \in Assets /\ xfer.from \in VoteAccounts /\ xfer.to \in VoteAccounts
      /\ xfer.amount \in Nat
  BY ProposalAssumption DEF ElecTransfers, VoteAccounts
<1>2. elec' \in [Assets -> [VoteAccounts -> Holding]]
  BY <1>1, MoveType DEF CastVote, CanMove, Move
<1>3. voter' \in [Proposals -> [People -> Ballot]]
  <2>1. voter' = [voter EXCEPT ![prop][p] = Recorded(@, arg, xfer.amount)]
    BY DEF CastVote
  <2>2. voter[prop] \in [People -> Ballot] /\ voter[prop][p] \in Ballot
    OBVIOUS
  <2>3. Recorded(voter[prop][p], arg, xfer.amount) \in Ballot
    BY <1>1, <2>2, RecordedType
  <2>4. [voter[prop] EXCEPT ![p] = Recorded(@, arg, xfer.amount)] \in [People -> Ballot]
    BY <2>2, <2>3
  <2> QED
    BY <2>1, <2>4
<1>4. /\ allVotes' \in [Proposals -> [OptionArgs -> Nat]]
      /\ \A other \in Proposals \ {prop} : allVotes'[other] = allVotes[other]
  <2>1. allVotes' = [allVotes EXCEPT ![prop][arg] = allVotes[prop][arg] + xfer.amount]
    BY DEF CastVote, NewTally
  <2>2. [allVotes[prop] EXCEPT ![arg] = allVotes[prop][arg] + xfer.amount] \in [OptionArgs -> Nat]
    BY <1>1
  <2> QED
    BY <2>1, <2>2
<1>5. /\ UNCHANGED <<round, voteAsset, passed, implemented>>
      /\ slots' \in [Proposals -> SUBSET OptionArgs]
  BY DEF CastVote
<1>6. ProposalTypeOK'
  BY <1>2, <1>3, <1>4, <1>5
<1>7. ~passed[prop]
  <2>1. round <= Config[prop].voteEnd
    BY DEF CastVote, Within
  <2>2. round \in Nat /\ Config[prop].voteEnd \in Nat
    BY ProposalAssumption, ConfigType
  <2> QED
    BY <2>1, <2>2 DEF ResultsAreLate, VoteOver
<1>8. ResultsAreLate'
  BY <1>5 DEF ResultsAreLate, VoteOver
<1>9. PassedSound'
  BY <1>4, <1>5, <1>7 DEF PassedSound
<1> QED
  BY <1>6, <1>8, <1>9

\* Rounding down loses less than one vote.
LEMMA Threshold ==
    ASSUME NEW needed \in Nat, NEW yes \in Nat, yes >= needed \div 100
    PROVE  100 * yes + 100 > needed
  OBVIOUS

LEMMA FinalizeVoteInv ==
    ASSUME ResultsInv, NEW prop \in Proposals, FinalizeVote(prop)
    PROVE  ResultsInv'
<1> USE DEF ResultsInv, ProposalTypeOK
<1> DEFINE yes   == allVotes[prop][YesKey]
           total == yes + allVotes[prop][NoKey]
           data  == Config[prop].data
<1>1. UNCHANGED <<round, elec, voteAsset, allVotes, slots, voter, implemented>>
  BY DEF FinalizeVote
<1>2. /\ VoteOver(prop) /\ data # NoData
      /\ passed' = [passed EXCEPT ![prop] = @ \/ yes >= MinVotesNeeded(data.pct, total)]
  BY DEF FinalizeVote
<1>3. passed' \in [Proposals -> BOOLEAN]
  BY <1>2
<1>4. ProposalTypeOK'
  BY <1>1, <1>3
<1>5. ResultsAreLate'
  BY <1>1, <1>2 DEF ResultsAreLate, VoteOver
<1>6. yes \in Nat /\ total \in Nat /\ data.pct \in Nat
  <2>1. allVotes[prop] \in [OptionArgs -> Nat]
    OBVIOUS
  <2>2. yes \in Nat /\ total \in Nat
    BY <2>1, OptionsOfAVote
  <2>3. data \in VoteData
    BY <1>2, ConfigType
  <2> HIDE DEF data
  <2>4. data.pct \in Nat
    BY <2>3 DEF VoteData
  <2> QED
    BY <2>2, <2>4
<1>7. yes >= MinVotesNeeded(data.pct, total) => 100 * yes + 100 > data.pct * total
  <2>1. data.pct * total \in Nat
    BY <1>6
  <2> HIDE DEF yes, total, data
  <2> QED
    BY <1>6, <2>1, Threshold DEF MinVotesNeeded
<1>8. passed'[prop] => data # NoData /\ 100 * yes + 100 > data.pct * total
  BY <1>2, <1>7 DEF PassedSound
<1>9. \A other \in Proposals \ {prop} : passed'[other] = passed[other]
  BY <1>2
<1>10. PassedSound'
  BY <1>1, <1>8, <1>9 DEF PassedSound
<1> QED
  BY <1>4, <1>5, <1>10
-----------------------------------------------------------------------------
(***************************************************************************)
(* The other calls move neither a tally nor a result.                      *)
(***************************************************************************)
LEMMA ResultsKept ==
    ASSUME ResultsInv, ProposalTypeOK', UNCHANGED <<round, allVotes, passed>>
    PROVE  ResultsInv'
  BY DEF ResultsInv, ResultsAreLate, VoteOver, PassedSound

LEMMA RegisterType ==
    ASSUME ProposalTypeOK, NEW p \in People, NEW prop \in Proposals,
           Register(p, prop) \/ CloseOut(p, prop)
    PROVE  ProposalTypeOK' /\ UNCHANGED <<round, allVotes, passed>>
<1>1. voter \in [Proposals -> [People -> Ballot]]
  BY DEF ProposalTypeOK, Ballot
<1>2. voter' \in [Proposals -> [People -> Ballot]]
  <2>1. CASE Register(p, prop)
    <3>1. voter' = [voter EXCEPT ![prop][p].optedin = TRUE]
      BY <2>1 DEF Register
    <3>2. voter[prop] \in [People -> Ballot] /\ voter[prop][p] \in Ballot
      BY <1>1
    <3>3. [voter[prop][p] EXCEPT !.optedin = TRUE] \in Ballot
      BY <3>2 DEF Ballot
    <3>4. [voter[prop] EXCEPT ![p].optedin = TRUE] \in [People -> Ballot]
      BY <3>2, <3>3
    <3> QED
      BY <1>1, <3>1, <3>4
  <2>2. CASE CloseOut(p, prop)
    <3>1. voter' = [voter EXCEPT ![prop][p] = NotRegistered]
      BY <2>2 DEF CloseOut
    <3>2. NotRegistered \in Ballot
      BY DEF NotRegistered, NoVotes, Ballot
    <3>3. [voter[prop] EXCEPT ![p] = NotRegistered] \in [People -> Ballot]
      BY <1>1, <3>2
    <3> QED
      BY <1>1, <3>1, <3>3
  <2> QED
    BY <2>1, <2>2
<1>3. UNCHANGED <<round, elec, voteAsset, allVotes, slots, passed, implemented>>
  BY DEF Register, CloseOut
<1> QED
  BY <1>2, <1>3 DEF ProposalTypeOK, Ballot

LEMMA TokenCallType ==
    ASSUME ProposalTypeOK, NEW p \in People, NEW prop \in Proposals, NEW asset \in Assets,
           OptInVoteToken(p, prop, asset) \/ SetVoteToken(p, prop, asset)
    PROVE  ProposalTypeOK' /\ UNCHANGED <<round, allVotes, passed>>
<1>1. CASE OptInVoteToken(p, prop, asset)
  <2>1. elec' = [elec EXCEPT ![asset] = Transfer(@, prop, prop, 0)]
    BY <1>1 DEF OptInVoteToken
  <2>2. prop \in VoteAccounts /\ CanTransfer(elec[asset], prop, prop, 0)
    BY DEF VoteAccounts, CanTransfer
  <2>3. elec' \in [Assets -> [VoteAccounts -> Holding]]
    BY <2>1, <2>2, MoveType
  <2>4. UNCHANGED <<round, voteAsset, allVotes, slots, voter, passed, implemented>>
    BY <1>1 DEF OptInVoteToken
  <2> QED
    BY <2>3, <2>4 DEF ProposalTypeOK
<1>2. CASE SetVoteToken(p, prop, asset)
  BY <1>2 DEF SetVoteToken, ProposalTypeOK
<1> QED
  BY <1>1, <1>2

LEMMA MoveElectionType ==
    ASSUME ProposalTypeOK, NEW xfer \in ElecTransfers \cup Issues, MoveElection(xfer)
    PROVE  ProposalTypeOK' /\ UNCHANGED <<round, allVotes, passed>>
<1>1. /\ xfer.asset \in Assets /\ xfer.from \in VoteAccounts /\ xfer.to \in VoteAccounts
      /\ xfer.amount \in Nat
  <2>1. CASE xfer \in ElecTransfers
    BY <2>1, ProposalAssumption DEF ElecTransfers, VoteAccounts
  <2>2. CASE xfer \in Issues
    BY <2>2, ProposalAssumption DEF Issues, VoteAccounts
  <2> QED
    BY <2>1, <2>2
<1>2. elec' \in [Assets -> [VoteAccounts -> Holding]]
  BY <1>1, MoveType DEF MoveElection, CanMove, Move
<1>3. UNCHANGED <<round, voteAsset, allVotes, slots, voter, passed, implemented>>
  BY DEF MoveElection
<1> QED
  BY <1>2, <1>3 DEF ProposalTypeOK

LEMMA VoteTickInv == ASSUME ResultsInv, VoteTick PROVE ResultsInv'
<1> USE DEF ResultsInv
<1>1. round' = round + 1 /\ round < Horizon
  BY DEF VoteTick
<1>2. UNCHANGED <<elec, voteAsset, allVotes, slots, voter, passed, implemented>>
  BY DEF VoteTick
<1>3. round \in 0 .. Horizon
  BY DEF ProposalTypeOK
<1>4. round' \in 0 .. Horizon
  BY <1>1, <1>3, ProposalAssumption
<1>5. ProposalTypeOK'
  BY <1>2, <1>4 DEF ProposalTypeOK
<1>6. ResultsAreLate'
  <2> SUFFICES ASSUME NEW prop \in Proposals, passed[prop]
               PROVE  round' > Config[prop].voteEnd
    BY <1>2 DEF ResultsAreLate, VoteOver
  <2>1. round > Config[prop].voteEnd /\ Config[prop].voteEnd \in Nat
    BY ConfigType DEF ResultsAreLate, VoteOver
  <2> QED
    BY <1>1, <1>3, <2>1
<1>7. PassedSound'
  BY <1>2 DEF PassedSound
<1> QED
  BY <1>5, <1>6, <1>7

LEMMA ProposalStep == ResultsInv /\ [ProposalNext]_voteVars => ResultsInv'
<1> SUFFICES ASSUME ResultsInv, [ProposalNext]_voteVars PROVE ResultsInv'
  OBVIOUS
<1>1. ProposalTypeOK
  BY DEF ResultsInv
<1>2. ASSUME NEW p \in People, NEW prop \in Proposals, Register(p, prop) \/ CloseOut(p, prop)
      PROVE  ResultsInv'
  BY <1>1, <1>2, RegisterType, ResultsKept
<1>3. ASSUME NEW p \in People, NEW prop \in Proposals, NEW asset \in Assets,
             OptInVoteToken(p, prop, asset) \/ SetVoteToken(p, prop, asset)
      PROVE  ResultsInv'
  BY <1>1, <1>3, TokenCallType, ResultsKept
<1>4. ASSUME NEW xfer \in ElecTransfers \cup Issues, MoveElection(xfer) PROVE ResultsInv'
  BY <1>1, <1>4, MoveElectionType, ResultsKept
<1>5. ASSUME NEW p \in People, NEW prop \in Proposals, NEW arg \in OptionArgs,
             NEW xfer \in ElecTransfers, CastVote(p, prop, arg, xfer)
      PROVE  ResultsInv'
  BY <1>5, CastVoteInv
<1>6. ASSUME NEW prop \in Proposals, FinalizeVote(prop) PROVE ResultsInv'
  BY <1>6, FinalizeVoteInv
<1>7. ASSUME NEW prop \in Proposals, NEW here \in BOOLEAN, SetImplemented(prop, here) PROVE ResultsInv'
  <2>1. ProposalTypeOK' /\ UNCHANGED <<round, allVotes, passed>>
    BY <1>1, <1>7 DEF SetImplemented, ProposalTypeOK
  <2> QED
    BY <2>1, ResultsKept
<1>8. CASE VoteTick
  BY <1>8, VoteTickInv
<1>9. CASE UNCHANGED voteVars
  <2>1. ProposalTypeOK' /\ UNCHANGED <<round, allVotes, passed>>
    BY <1>1, <1>9 DEF voteVars, ProposalTypeOK
  <2> QED
    BY <2>1, ResultsKept
<1> QED
  BY <1>2, <1>3, <1>4, <1>5, <1>6, <1>7, <1>8, <1>9, Zenon DEF ProposalNext, VoteCall

THEOREM ResultsInvariant == ProposalSpec => []ResultsInv
  BY ResultsInvInit, ProposalStep, PTL DEF ProposalSpec

(***************************************************************************)
(* The state of the proposals keeps its type.                              *)
(***************************************************************************)
THEOREM ProposalTypes == ProposalSpec => []ProposalTypeOK
<1>1. ResultsInv => ProposalTypeOK
  BY DEF ResultsInv
<1> QED
  BY <1>1, ResultsInvariant, PTL

(***************************************************************************)
(* A proposal that passed has, with the tallies it has now, the percentage *)
(* it asks for up to less than one vote.                                   *)
(***************************************************************************)
THEOREM ResultsAreSound == ProposalSpec => []PassedSound
<1>1. ResultsInv => PassedSound
  BY DEF ResultsInv
<1> QED
  BY <1>1, ResultsInvariant, PTL
-----------------------------------------------------------------------------
(***************************************************************************)
(* Votes and units.  The chain makes and loses no unit of an election      *)
(* token, and a proposal never sends one: what it holds only grows.        *)
(***************************************************************************)
UnitsConserved == \A asset \in Assets : Units(elec[asset], VoteAccounts) = Supply

VotesInv == UnitsConserved /\ VotesBacked

LEMMA AccountsFinite ==
    /\ IsFiniteSet(VoteAccounts) /\ IsFiniteSet(Proposals) /\ IsFiniteSet(People)
    /\ IsFiniteSet(OptionArgs) /\ Issuer \in VoteAccounts
<1>1. IsFiniteSet(OptionArgs)
  <2>1. IsFiniteSet(Options)
    BY FS_Interval, ProposalAssumption DEF Options
  <2>2. IsFiniteSet(1 .. 8)
    <3>1. 1 \in Int /\ 8 \in Int
      OBVIOUS
    <3> QED
      BY <3>1, FS_Interval, Zenon
  <2>3. IsFiniteSet(Options \X (1 .. 8))
    BY <2>1, <2>2, FS_Product
  <2> QED
    BY <2>3, FS_Subset, ProposalAssumption
<1>2. IsFiniteSet(People \cup Proposals) /\ IsFiniteSet({Issuer})
  BY FS_Union, FS_Singleton, ProposalAssumption
<1>3. IsFiniteSet(VoteAccounts)
  BY <1>2, FS_Union DEF VoteAccounts
<1> QED
  BY <1>1, <1>3, ProposalAssumption DEF VoteAccounts

LEMMA TallyNat == ASSUME ProposalTypeOK, NEW prop \in Proposals PROVE Tally(prop) \in Nat
<1>1. \A arg \in OptionArgs : allVotes[prop][arg] \in Nat
  BY DEF ProposalTypeOK
<1> QED
  BY <1>1, AccountsFinite, SumNat DEF Tally

LEMMA VotesInvInit == ProposalInit => VotesInv
<1> SUFFICES ASSUME ProposalInit PROVE VotesInv
  OBVIOUS
<1>1. UnitsConserved
  <2> SUFFICES ASSUME NEW asset \in Assets PROVE Units(elec[asset], VoteAccounts) = Supply
    BY DEF UnitsConserved
  <2>1. elec[asset] = NewAsset(VoteAccounts, Issuer, Supply)
    BY DEF ProposalInit
  <2> QED
    BY <2>1, AccountsFinite, NewAssetUnits, ProposalAssumption
<1>2. VotesBacked
  <2> SUFFICES ASSUME NEW prop \in Proposals
               PROVE  IF voteAsset[prop] = NoAsset
                      THEN Tally(prop) = 0
                      ELSE Tally(prop) <= elec[voteAsset[prop]][prop].amount
    BY DEF VotesBacked
  <2>1. \A arg \in OptionArgs : allVotes[prop][arg] = 0
    BY DEF ProposalInit, NoVotes
  <2>2. Tally(prop) = 0
    BY <2>1, AccountsFinite, SumOfZeros DEF Tally
  <2>3. voteAsset[prop] # NoAsset => elec[voteAsset[prop]][prop].amount \in Nat
    <3>1. ProposalTypeOK
      BY ResultsInvInit DEF ResultsInv
    <3>2. voteAsset[prop] # NoAsset => elec[voteAsset[prop]][prop] \in Holding
      BY <3>1 DEF ProposalTypeOK, VoteAccounts
    <3> QED
      BY <3>2 DEF Holding
  <2> QED
    BY <2>2, <2>3
<1> QED
  BY <1>1, <1>2 DEF VotesInv

(***************************************************************************)
(* What moves between accounts in any call: no proposal pays.              *)
(***************************************************************************)
LEMMA MoveKeepsUnits ==
    ASSUME ProposalTypeOK, UnitsConserved, NEW asset \in Assets, NEW from \in VoteAccounts,
           NEW to \in VoteAccounts, NEW n \in Nat, CanTransfer(elec[asset], from, to, n),
           elec' = [elec EXCEPT ![asset] = Transfer(@, from, to, n)]
    PROVE  UnitsConserved'
<1>1. elec[asset] \in [VoteAccounts -> Holding] /\ elec'[asset] = Transfer(elec[asset], from, to, n)
  BY DEF ProposalTypeOK
<1>2. Units(elec'[asset], VoteAccounts) = Units(elec[asset], VoteAccounts)
  BY <1>1, AccountsFinite, TransferConserves
<1>3. \A other \in Assets \ {asset} : elec'[other] = elec[other]
  BY DEF ProposalTypeOK
<1> QED
  BY <1>2, <1>3 DEF UnitsConserved

LEMMA MoveAmounts ==
    ASSUME ProposalTypeOK, NEW xfer, xfer.asset \in Assets,
           xfer.from \in VoteAccounts \ Proposals, xfer.to \in VoteAccounts,
           xfer.amount \in Nat, Move(xfer), NEW asset \in Assets, NEW prop \in Proposals
    PROVE  /\ elec[asset][prop].amount \in Nat
           /\ elec'[asset][prop].amount =
                  IF asset = xfer.asset /\ prop = xfer.to
                  THEN elec[asset][prop].amount + xfer.amount
                  ELSE elec[asset][prop].amount
<1>1. elec[asset] \in [VoteAccounts -> Holding] /\ prop \in VoteAccounts /\ prop # xfer.from
  BY DEF ProposalTypeOK, VoteAccounts
<1>2. elec[asset][prop].amount \in Nat
  BY <1>1 DEF Holding
<1>3. CASE asset = xfer.asset
  <2>1. elec'[asset] = Transfer(elec[asset], xfer.from, xfer.to, xfer.amount)
    BY <1>3 DEF ProposalTypeOK, Move
  <2> QED
    BY <1>1, <1>2, <1>3, <2>1, TransferAmounts
<1>4. CASE asset # xfer.asset
  <2>1. elec'[asset] = elec[asset]
    BY <1>4 DEF ProposalTypeOK, Move
  <2> QED
    BY <1>2, <1>4, <2>1
<1> QED
  BY <1>3, <1>4

(***************************************************************************)
(* A vote: the tally grows by what the proposal receives.                  *)
(***************************************************************************)
LEMMA CastVoteTally ==
    ASSUME ProposalTypeOK, NEW p \in People, NEW prop \in Proposals, NEW arg \in OptionArgs,
           NEW xfer \in ElecTransfers, CastVote(p, prop, arg, xfer)
    PROVE  /\ Tally(prop)' = Tally(prop) + xfer.amount
           /\ \A other \in Proposals \ {prop} : Tally(other)' = Tally(other)
<1>1. allVotes' = [allVotes EXCEPT ![prop][arg] = allVotes[prop][arg] + xfer.amount]
  BY DEF CastVote, NewTally
<1>2. xfer.amount \in Nat
  BY ProposalAssumption DEF ElecTransfers
<1>3. allVotes[prop] \in [OptionArgs -> Nat]
  BY DEF ProposalTypeOK
<1>4. /\ \A o \in OptionArgs : allVotes[prop][o] \in Nat /\ allVotes'[prop][o] \in Nat
      /\ \A o \in OptionArgs \ {arg} : allVotes'[prop][o] = allVotes[prop][o]
      /\ allVotes'[prop][arg] = allVotes[prop][arg] + xfer.amount
  BY <1>1, <1>2, <1>3 DEF ProposalTypeOK
<1>5. SumFunctionOnSet(allVotes'[prop], OptionArgs) + allVotes[prop][arg]
          = SumFunctionOnSet(allVotes[prop], OptionArgs) + allVotes'[prop][arg]
  BY <1>4, AccountsFinite, SumUpdate
<1>6. /\ SumFunctionOnSet(allVotes[prop], OptionArgs) \in Nat
      /\ SumFunctionOnSet(allVotes'[prop], OptionArgs) \in Nat
  BY <1>4, AccountsFinite, SumNat
<1>7. Tally(prop)' = Tally(prop) + xfer.amount
  BY <1>2, <1>4, <1>5, <1>6 DEF Tally
<1>8. \A other \in Proposals \ {prop} : allVotes'[other] = allVotes[other]
  BY <1>1 DEF ProposalTypeOK
<1> QED
  BY <1>7, <1>8 DEF Tally

LEMMA CastVoteBacked ==
    ASSUME ProposalTypeOK, VotesInv, NEW p \in People, NEW prop \in Proposals,
           NEW arg \in OptionArgs, NEW xfer \in ElecTransfers, CastVote(p, prop, arg, xfer)
    PROVE  VotesInv'
<1>1. /\ xfer.asset \in Assets /\ xfer.from \in VoteAccounts \ Proposals
      /\ xfer.to \in VoteAccounts /\ xfer.amount \in Nat
  BY ProposalAssumption DEF ElecTransfers, VoteAccounts
<1>2. /\ xfer.asset = voteAsset[prop] /\ xfer.to = prop /\ UNCHANGED voteAsset
      /\ CanTransfer(elec[xfer.asset], xfer.from, xfer.to, xfer.amount)
      /\ Move(xfer)
  BY DEF CastVote, IsDeposit, CanMove
<1>3. UnitsConserved'
  BY <1>1, <1>2, MoveKeepsUnits DEF VotesInv, Move
<1>4. VotesBacked'
  <2> SUFFICES ASSUME NEW other \in Proposals
               PROVE  IF voteAsset[other] = NoAsset
                      THEN Tally(other)' = 0
                      ELSE Tally(other)' <= elec'[voteAsset[other]][other].amount
    BY <1>2 DEF VotesBacked
  <2> DEFINE held == elec[voteAsset[other]][other].amount
  <2>1. Tally(other) \in Nat
    BY TallyNat
  <2>2. IF voteAsset[other] = NoAsset THEN Tally(other) = 0 ELSE Tally(other) <= held
    BY DEF VotesInv, VotesBacked
  <2>3. voteAsset[other] # NoAsset => voteAsset[other] \in Assets
    BY DEF ProposalTypeOK
  <2>4. voteAsset[other] # NoAsset =>
            /\ held \in Nat
            /\ elec'[voteAsset[other]][other].amount =
                   IF voteAsset[other] = xfer.asset /\ other = xfer.to
                   THEN held + xfer.amount ELSE held
    <3> SUFFICES ASSUME NEW asset \in Assets, asset = voteAsset[other]
                 PROVE  /\ elec[asset][other].amount \in Nat
                        /\ elec'[asset][other].amount =
                               IF asset = xfer.asset /\ other = xfer.to
                               THEN elec[asset][other].amount + xfer.amount
                               ELSE elec[asset][other].amount
      BY <2>3
    <3> QED
      BY <1>1, <1>2, MoveAmounts
  <2>5. CASE other = prop
    <3>1. Tally(other)' = Tally(other) + xfer.amount
      BY <2>5, CastVoteTally
    <3>2. voteAsset[other] # NoAsset
      BY <1>1, <1>2, <2>5, ProposalAssumption
    <3>3. elec'[voteAsset[other]][other].amount = held + xfer.amount
      BY <1>2, <2>4, <2>5, <3>2
    <3> HIDE DEF held
    <3> QED
      BY <1>1, <2>1, <2>2, <2>4, <3>1, <3>2, <3>3
  <2>6. CASE other # prop
    <3>1. Tally(other)' = Tally(other)
      BY <2>6, CastVoteTally
    <3>2. voteAsset[other] # NoAsset => elec'[voteAsset[other]][other].amount = held
      BY <1>2, <2>4, <2>6
    <3> HIDE DEF held
    <3> QED
      BY <2>2, <3>1, <3>2
  <2> QED
    BY <2>5, <2>6
<1> QED
  BY <1>3, <1>4 DEF VotesInv

(***************************************************************************)
(* The calls that count nothing: what a proposal holds does not shrink.    *)
(***************************************************************************)
LEMMA VotesKept ==
    ASSUME ProposalTypeOK, VotesInv, UnitsConserved', UNCHANGED <<voteAsset, allVotes>>,
           \A asset \in Assets, prop \in Proposals :
               /\ elec[asset][prop].amount \in Nat /\ elec'[asset][prop].amount \in Nat
               /\ elec[asset][prop].amount <= elec'[asset][prop].amount
    PROVE  VotesInv'
<1>1. VotesBacked'
  <2> SUFFICES ASSUME NEW prop \in Proposals
               PROVE  IF voteAsset[prop] = NoAsset
                      THEN Tally(prop) = 0
                      ELSE Tally(prop) <= elec'[voteAsset[prop]][prop].amount
    BY DEF VotesBacked, Tally
  <2>1. CASE voteAsset[prop] = NoAsset
    BY <2>1 DEF VotesInv, VotesBacked
  <2>2. CASE voteAsset[prop] # NoAsset
    <3>1. Tally(prop) \in Nat /\ voteAsset[prop] \in Assets
      BY <2>2, TallyNat DEF ProposalTypeOK
    <3>2. Tally(prop) <= elec[voteAsset[prop]][prop].amount
      BY <2>2 DEF VotesInv, VotesBacked
    <3> QED
      BY <2>2, <3>1, <3>2
  <2> QED
    BY <2>1, <2>2
<1> QED
  BY <1>1 DEF VotesInv

LEMMA HeldByProposal ==
    ASSUME ProposalTypeOK, NEW asset \in Assets, NEW prop \in Proposals
    PROVE  elec[asset][prop].amount \in Nat
<1>1. elec[asset][prop] \in Holding
  BY DEF ProposalTypeOK, VoteAccounts
<1> QED
  BY <1>1 DEF Holding

LEMMA MoveElectionVotes ==
    ASSUME ProposalTypeOK, VotesInv, NEW xfer \in ElecTransfers \cup Issues, MoveElection(xfer)
    PROVE  VotesInv'
<1>1. /\ xfer.asset \in Assets /\ xfer.from \in VoteAccounts \ Proposals
      /\ xfer.to \in VoteAccounts /\ xfer.amount \in Nat
  <2>1. CASE xfer \in ElecTransfers
    BY <2>1, ProposalAssumption DEF ElecTransfers, VoteAccounts
  <2>2. CASE xfer \in Issues
    BY <2>2, ProposalAssumption DEF Issues, VoteAccounts
  <2> QED
    BY <2>1, <2>2
<1>2. /\ CanTransfer(elec[xfer.asset], xfer.from, xfer.to, xfer.amount) /\ Move(xfer)
      /\ UNCHANGED <<voteAsset, allVotes>>
  BY DEF MoveElection, CanMove
<1>3. UnitsConserved'
  BY <1>1, <1>2, MoveKeepsUnits DEF VotesInv, Move
<1>4. ASSUME NEW asset \in Assets, NEW prop \in Proposals
      PROVE  /\ elec[asset][prop].amount \in Nat /\ elec'[asset][prop].amount \in Nat
             /\ elec[asset][prop].amount <= elec'[asset][prop].amount
  <2>1. /\ elec[asset][prop].amount \in Nat
        /\ elec'[asset][prop].amount =
               IF asset = xfer.asset /\ prop = xfer.to
               THEN elec[asset][prop].amount + xfer.amount
               ELSE elec[asset][prop].amount
    BY <1>1, <1>2, MoveAmounts
  <2> QED
    BY <1>1, <2>1
<1> QED
  BY <1>2, <1>3, <1>4, VotesKept

LEMMA OptInVoteTokenVotes ==
    ASSUME ProposalTypeOK, VotesInv, NEW p \in People, NEW prop \in Proposals,
           NEW asset \in Assets, OptInVoteToken(p, prop, asset)
    PROVE  VotesInv'
<1>1. /\ elec' = [elec EXCEPT ![asset] = Transfer(@, prop, prop, 0)]
      /\ UNCHANGED <<voteAsset, allVotes>>
  BY DEF OptInVoteToken
<1>2. prop \in VoteAccounts /\ CanTransfer(elec[asset], prop, prop, 0)
  BY DEF VoteAccounts, CanTransfer
<1>3. UnitsConserved'
  BY <1>1, <1>2, MoveKeepsUnits DEF VotesInv
<1>4. ASSUME NEW other \in Assets, NEW q \in Proposals
      PROVE  elec'[other][q].amount = elec[other][q].amount
  <2>1. elec[other] \in [VoteAccounts -> Holding] /\ q \in VoteAccounts
    BY DEF ProposalTypeOK, VoteAccounts
  <2>2. CASE other = asset
    <3>1. elec'[other] = [elec[other] EXCEPT ![prop].optedin = TRUE]
      BY <1>1, <2>2 DEF Transfer, ProposalTypeOK
    <3> QED
      BY <2>1, <3>1 DEF Holding
  <2>3. CASE other # asset
    BY <1>1, <2>3 DEF ProposalTypeOK
  <2> QED
    BY <2>2, <2>3
<1> QED
  BY <1>1, <1>3, <1>4, HeldByProposal, VotesKept

(***************************************************************************)
(* The first asset of a proposal: nothing was counted before it.           *)
(***************************************************************************)
LEMMA SetVoteTokenVotes ==
    ASSUME ProposalTypeOK, VotesInv, NEW p \in People, NEW prop \in Proposals,
           NEW asset \in Assets, SetVoteToken(p, prop, asset)
    PROVE  VotesInv'
<1>1. /\ voteAsset[prop] = NoAsset /\ voteAsset' = [voteAsset EXCEPT ![prop] = asset]
      /\ UNCHANGED <<elec, allVotes>>
  BY DEF SetVoteToken
<1>2. VotesBacked'
  <2> SUFFICES ASSUME NEW other \in Proposals
               PROVE  IF voteAsset'[other] = NoAsset
                      THEN Tally(other) = 0
                      ELSE Tally(other) <= elec[voteAsset'[other]][other].amount
    BY <1>1 DEF VotesBacked, Tally
  <2>1. IF voteAsset[other] = NoAsset
        THEN Tally(other) = 0
        ELSE Tally(other) <= elec[voteAsset[other]][other].amount
    BY DEF VotesInv, VotesBacked
  <2>2. CASE other = prop
    <3>1. voteAsset'[other] = asset /\ Tally(other) = 0
      BY <1>1, <2>1, <2>2 DEF ProposalTypeOK
    <3>2. elec[asset][other].amount \in Nat
      BY HeldByProposal
    <3> QED
      BY <3>1, <3>2
  <2>3. CASE other # prop
    <3>1. voteAsset'[other] = voteAsset[other]
      BY <1>1, <2>3 DEF ProposalTypeOK
    <3> QED
      BY <2>1, <3>1
  <2> QED
    BY <2>2, <2>3
<1>3. UnitsConserved'
  BY <1>1 DEF VotesInv, UnitsConserved
<1> QED
  BY <1>2, <1>3 DEF VotesInv

LEMMA VotesUntouched ==
    ASSUME VotesInv, UNCHANGED <<elec, voteAsset, allVotes>> PROVE VotesInv'
  BY DEF VotesInv, UnitsConserved, VotesBacked, Tally

LEMMA VotesStep == ProposalTypeOK /\ VotesInv /\ [ProposalNext]_voteVars => VotesInv'
<1> SUFFICES ASSUME ProposalTypeOK, VotesInv, [ProposalNext]_voteVars PROVE VotesInv'
  OBVIOUS
<1>1. ASSUME NEW p \in People, NEW prop \in Proposals, Register(p, prop) \/ CloseOut(p, prop)
      PROVE  VotesInv'
  BY <1>1, VotesUntouched DEF Register, CloseOut
<1>2. ASSUME NEW p \in People, NEW prop \in Proposals, NEW asset \in Assets,
             OptInVoteToken(p, prop, asset) \/ SetVoteToken(p, prop, asset)
      PROVE  VotesInv'
  BY <1>2, OptInVoteTokenVotes, SetVoteTokenVotes
<1>3. ASSUME NEW xfer \in ElecTransfers \cup Issues, MoveElection(xfer) PROVE VotesInv'
  BY <1>3, MoveElectionVotes
<1>4. ASSUME NEW p \in People, NEW prop \in Proposals, NEW arg \in OptionArgs,
             NEW xfer \in ElecTransfers, CastVote(p, prop, arg, xfer)
      PROVE  VotesInv'
  BY <1>4, CastVoteBacked
<1>5. ASSUME NEW prop \in Proposals,
             FinalizeVote(prop) \/ \E here \in BOOLEAN : SetImplemented(prop, here)
      PROVE  VotesInv'
  BY <1>5, VotesUntouched DEF FinalizeVote, SetImplemented
<1>6. CASE VoteTick
  BY <1>6, VotesUntouched DEF VoteTick
<1>7. CASE UNCHANGED voteVars
  BY <1>7, VotesUntouched DEF voteVars
<1> QED
  BY <1>1, <1>2, <1>3, <1>4, <1>5, <1>6, <1>7, Zenon DEF ProposalNext, VoteCall

(***************************************************************************)
(* The votes of the proposals that count an asset are at most what these   *)
(* proposals hold of it, and that is at most what there is.                *)
(***************************************************************************)
LEMMA BackedVotesAreSingle ==
    ASSUME ProposalTypeOK, VotesInv, NEW asset \in Assets
    PROVE  SumFunctionOnSet([prop \in Proposals |-> Tally(prop)],
                            {prop \in Proposals : voteAsset[prop] = asset}) <= Supply
<1> DEFINE counting == {prop \in Proposals : voteAsset[prop] = asset}
           tally    == [prop \in Proposals |-> Tally(prop)]
           held     == [a \in VoteAccounts |-> elec[asset][a].amount]
<1>1. \A a \in VoteAccounts : held[a] \in Nat
  <2>1. \A a \in VoteAccounts : elec[asset][a] \in Holding
    BY DEF ProposalTypeOK
  <2> QED
    BY <2>1 DEF Holding
<1>2. counting \in SUBSET VoteAccounts /\ IsFiniteSet(VoteAccounts) /\ IsFiniteSet(counting)
  <2>1. counting \in SUBSET Proposals
    OBVIOUS
  <2> HIDE DEF counting
  <2> QED
    BY <2>1, AccountsFinite, FS_Subset DEF VoteAccounts
<1>3. ASSUME NEW prop \in counting
      PROVE  tally[prop] \in Nat /\ held[prop] \in Nat /\ tally[prop] <= held[prop]
  <2>1. prop \in Proposals /\ prop \in VoteAccounts /\ voteAsset[prop] = asset
    BY <1>2
  <2>2. Tally(prop) \in Nat
    BY <2>1, TallyNat
  <2>3. Tally(prop) <= elec[asset][prop].amount
    BY <2>1, ProposalAssumption DEF VotesInv, VotesBacked
  <2> QED
    BY <1>1, <2>1, <2>2, <2>3
<1>4. SumFunctionOnSet(held, VoteAccounts) = Supply
  BY DEF VotesInv, UnitsConserved, Units
<1> HIDE DEF counting, tally, held
<1>5. SumFunctionOnSet(tally, counting) <= SumFunctionOnSet(held, counting)
  BY <1>2, <1>3, SumMonotone
<1>6. SumFunctionOnSet(held, counting) <= SumFunctionOnSet(held, VoteAccounts)
  BY <1>1, <1>2, SumSubset
<1>7. SumFunctionOnSet(tally, counting) \in Nat /\ SumFunctionOnSet(held, counting) \in Nat
  BY <1>2, <1>3, SumNat
<1>8. SumFunctionOnSet(tally, counting) <= Supply
  BY <1>4, <1>5, <1>6, <1>7, ProposalAssumption
<1> QED
  BY <1>8 DEF counting, tally

THEOREM VotesInvariant == ProposalSpec => []VotesInv
  BY VotesInvInit, VotesStep, ProposalTypes, PTL DEF ProposalSpec

(***************************************************************************)
(* Every vote counted is backed by a unit the proposal holds, in the asset *)
(* it counts.                                                              *)
(***************************************************************************)
THEOREM VotesAreBacked == ProposalSpec => []VotesBacked
<1>1. VotesInv => VotesBacked
  BY DEF VotesInv
<1> QED
  BY <1>1, VotesInvariant, PTL

(***************************************************************************)
(* No unit votes twice: the votes of all the proposals that share an       *)
(* election token stay within its supply.                                  *)
(***************************************************************************)
THEOREM NoUnitVotesTwice == ProposalSpec => []NoDoubleVoting
<1>1. ProposalTypeOK /\ VotesInv => NoDoubleVoting
  BY BackedVotesAreSingle DEF NoDoubleVoting
<1> QED
  BY <1>1, VotesInvariant, ProposalTypes, PTL
-----------------------------------------------------------------------------
(***************************************************************************)
(* Records.  An account's record under a key is its last deposit, the    *)
(* tally all of them.                                                      *)
(***************************************************************************)
Records(prop, arg) == [p \in People |-> voter[prop][p].voted[arg]]

LEMMA RecordsNat ==
    ASSUME ProposalTypeOK, NEW prop \in Proposals, NEW arg \in OptionArgs
    PROVE  /\ \A p \in People : Records(prop, arg)[p] \in Nat
           /\ SumFunctionOnSet(Records(prop, arg), People) \in Nat
           /\ allVotes[prop][arg] \in Nat
<1>1. ASSUME NEW p \in People PROVE Records(prop, arg)[p] \in Nat
  <2>1. voter[prop][p] \in Ballot
    BY DEF ProposalTypeOK, Ballot
  <2>2. voter[prop][p].voted[arg] \in Nat
    BY <2>1 DEF Ballot
  <2> QED
    BY <2>2 DEF Records
<1>2. allVotes[prop][arg] \in Nat
  BY DEF ProposalTypeOK
<1> QED
  BY <1>1, <1>2, AccountsFinite, SumNat

LEMMA RecordsInit == ProposalInit => RecordsWithinTally
<1> SUFFICES ASSUME ProposalInit, NEW prop \in Proposals, NEW arg \in OptionArgs
             PROVE  SumFunctionOnSet(Records(prop, arg), People) <= allVotes[prop][arg]
  BY DEF RecordsWithinTally, Records
<1>1. \A p \in People : Records(prop, arg)[p] = 0
  BY DEF ProposalInit, NotRegistered, NoVotes, Records
<1>2. SumFunctionOnSet(Records(prop, arg), People) = 0
  BY <1>1, AccountsFinite, SumOfZeros
<1>3. allVotes[prop][arg] = 0
  BY DEF ProposalInit, NoVotes
<1> QED
  BY <1>2, <1>3

(***************************************************************************)
(* No record grows, and no tally moves.                                    *)
(***************************************************************************)
LEMMA RecordsKept ==
    ASSUME ProposalTypeOK, ProposalTypeOK', RecordsWithinTally, UNCHANGED allVotes,
           \A prop \in Proposals, p \in People, arg \in OptionArgs :
               voter'[prop][p].voted[arg] <= voter[prop][p].voted[arg]
    PROVE  RecordsWithinTally'
<1> SUFFICES ASSUME NEW prop \in Proposals, NEW arg \in OptionArgs
             PROVE  SumFunctionOnSet(Records(prop, arg)', People) <= allVotes[prop][arg]
  BY DEF RecordsWithinTally, Records
<1>1. \A p \in People : Records(prop, arg)'[p] <= Records(prop, arg)[p]
  BY DEF Records
<1>2. /\ \A p \in People : Records(prop, arg)[p] \in Nat /\ Records(prop, arg)'[p] \in Nat
      /\ SumFunctionOnSet(Records(prop, arg), People) \in Nat
      /\ SumFunctionOnSet(Records(prop, arg)', People) \in Nat
      /\ allVotes[prop][arg] \in Nat
  <2>1. /\ \A p \in People : Records(prop, arg)[p] \in Nat
        /\ SumFunctionOnSet(Records(prop, arg), People) \in Nat
        /\ allVotes[prop][arg] \in Nat
    BY RecordsNat
  <2>2. \A p \in People : Records(prop, arg)'[p] \in Nat
    <3>1. voter' \in [Proposals -> [People -> Ballot]]
      BY DEF ProposalTypeOK, Ballot
    <3> QED
      BY <3>1 DEF Records, Ballot
  <2>3. SumFunctionOnSet(Records(prop, arg)', People) \in Nat
    BY <2>2, AccountsFinite, SumNat
  <2> QED
    BY <2>1, <2>2, <2>3
<1>3. SumFunctionOnSet(Records(prop, arg)', People)
          <= SumFunctionOnSet(Records(prop, arg), People)
  BY <1>1, <1>2, AccountsFinite, SumMonotone
<1>4. SumFunctionOnSet(Records(prop, arg), People) <= allVotes[prop][arg]
  BY DEF RecordsWithinTally, Records
<1> QED
  BY <1>2, <1>3, <1>4

(***************************************************************************)
(* A vote replaces the record, but adds to the tally.                      *)
(***************************************************************************)
LEMMA CastVoteRecords ==
    ASSUME ProposalTypeOK, ProposalTypeOK', RecordsWithinTally, NEW p \in People,
           NEW prop \in Proposals, NEW arg \in OptionArgs, NEW xfer \in ElecTransfers,
           CastVote(p, prop, arg, xfer)
    PROVE  RecordsWithinTally'
<1> SUFFICES ASSUME NEW q \in Proposals, NEW o \in OptionArgs
             PROVE  SumFunctionOnSet(Records(q, o)', People) <= allVotes'[q][o]
  BY DEF RecordsWithinTally, Records
<1>1. /\ voter' = [voter EXCEPT ![prop][p] = Recorded(@, arg, xfer.amount)]
      /\ allVotes' = [allVotes EXCEPT ![prop][arg] = allVotes[prop][arg] + xfer.amount]
  BY DEF CastVote, NewTally
<1>2. /\ voter'[prop][p].voted = [voter[prop][p].voted EXCEPT ![arg] = xfer.amount]
      /\ \A other \in People \ {p} : voter'[prop][other] = voter[prop][other]
      /\ \A other \in Proposals \ {prop} : voter'[other] = voter[other]
  <2>1. voter[prop] \in [People -> Ballot] /\ voter[prop][p] \in Ballot /\ xfer.amount \in Nat
    BY ProposalAssumption DEF ProposalTypeOK, ElecTransfers
  <2>2. Recorded(voter[prop][p], arg, xfer.amount).voted
            = [voter[prop][p].voted EXCEPT ![arg] = xfer.amount]
    BY <2>1, RecordedType
  <2> QED
    BY <1>1, <2>1, <2>2 DEF ProposalTypeOK
<1>3. xfer.amount \in Nat
  BY ProposalAssumption DEF ElecTransfers
<1>4. SumFunctionOnSet(Records(q, o), People) <= allVotes[q][o]
  BY DEF RecordsWithinTally, Records
<1>5. CASE q = prop /\ o = arg
  <2>1. allVotes'[q][o] = allVotes[q][o] + xfer.amount
    BY <1>1, <1>5 DEF ProposalTypeOK
  <2>2. voter'[prop][p].voted[arg] = xfer.amount
    <3>1. voter[prop][p] \in Ballot
      BY DEF ProposalTypeOK
    <3> QED
      BY <1>2, <3>1 DEF Ballot
  <2>4. /\ Records(q, o)'[p] = xfer.amount
        /\ \A other \in People \ {p} : Records(q, o)'[other] = Records(q, o)[other]
    BY <1>5, <1>2, <2>2 DEF Records
  <2>5. /\ \A other \in People : Records(q, o)[other] \in Nat
        /\ SumFunctionOnSet(Records(q, o), People) \in Nat /\ allVotes[q][o] \in Nat
    BY RecordsNat
  <2>6. \A other \in People : Records(q, o)'[other] \in Nat
    BY <1>3, <2>4, <2>5
  <2>7. SumFunctionOnSet(Records(q, o)', People) \in Nat
    BY <2>6, AccountsFinite, SumNat
  <2>8. SumFunctionOnSet(Records(q, o)', People) + Records(q, o)[p]
            = SumFunctionOnSet(Records(q, o), People) + Records(q, o)'[p]
    BY <2>4, <2>5, <2>6, AccountsFinite, SumUpdate
  <2>9. Records(q, o)[p] \in Nat
    BY <2>5
  <2> QED
    BY <1>3, <1>4, <2>1, <2>4, <2>5, <2>7, <2>8, <2>9
<1>6. CASE ~ (q = prop /\ o = arg)
  <2>1. allVotes'[q][o] = allVotes[q][o]
    BY <1>1, <1>6 DEF ProposalTypeOK
  <2>2. \A other \in People : voter'[q][other].voted[o] = voter[q][other].voted[o]
    <3> SUFFICES ASSUME NEW other \in People
                 PROVE  voter'[q][other].voted[o] = voter[q][other].voted[o]
      OBVIOUS
    <3>1. voter[q][other] \in Ballot
      BY DEF ProposalTypeOK
    <3>2. CASE q = prop /\ other = p
      <4>1. o # arg
        BY <1>6, <3>2
      <4> QED
        BY <1>2, <3>1, <3>2, <4>1 DEF Ballot
    <3>3. CASE ~ (q = prop /\ other = p)
      BY <1>2, <3>3
    <3> QED
      BY <3>2, <3>3
  <2>3. Records(q, o)' = Records(q, o)
    BY <2>2 DEF Records
  <2> QED
    BY <1>4, <2>1, <2>3
<1> QED
  BY <1>5, <1>6

LEMMA CloseOutRecords ==
    ASSUME ProposalTypeOK, NEW p \in People, NEW prop \in Proposals,
           Register(p, prop) \/ CloseOut(p, prop)
    PROVE  \A q \in Proposals, other \in People, arg \in OptionArgs :
               voter'[q][other].voted[arg] <= voter[q][other].voted[arg]
<1> SUFFICES ASSUME NEW q \in Proposals, NEW other \in People, NEW arg \in OptionArgs
             PROVE  voter'[q][other].voted[arg] <= voter[q][other].voted[arg]
  OBVIOUS
<1>1. /\ voter \in [Proposals -> [People -> Ballot]]
      /\ voter[q][other] \in Ballot
  BY DEF ProposalTypeOK, Ballot
<1>2. voter[q][other].voted[arg] \in Nat
  BY <1>1 DEF Ballot
<1>3. CASE q = prop /\ other = p
  <2>1. CASE Register(p, prop)
    <3>1. voter'[q] = [voter[q] EXCEPT ![p].optedin = TRUE]
      BY <1>1, <1>3, <2>1 DEF Register
    <3>2. voter'[q][p] = [voter[q][p] EXCEPT !.optedin = TRUE]
      BY <1>1, <3>1
    <3>3. voter'[q][p].voted = voter[q][p].voted
      BY <1>1, <1>3, <3>2 DEF Ballot
    <3> QED
      BY <1>2, <1>3, <3>3
  <2>2. CASE CloseOut(p, prop)
    <3>1. voter'[q][other] = NotRegistered
      BY <1>1, <1>3, <2>2 DEF CloseOut
    <3> QED
      BY <1>2, <3>1 DEF NotRegistered, NoVotes
  <2> QED
    BY <2>1, <2>2
<1>4. CASE ~ (q = prop /\ other = p)
  <2>1. voter'[q][other] = voter[q][other]
    BY <1>1, <1>4 DEF Register, CloseOut
  <2> QED
    BY <1>2, <2>1
<1> QED
  BY <1>3, <1>4

LEMMA RecordsStep ==
    ProposalTypeOK /\ ProposalTypeOK' /\ RecordsWithinTally /\ [ProposalNext]_voteVars
        => RecordsWithinTally'
<1> SUFFICES ASSUME ProposalTypeOK, ProposalTypeOK', RecordsWithinTally,
                    [ProposalNext]_voteVars
             PROVE  RecordsWithinTally'
  OBVIOUS
<1>1. ASSUME UNCHANGED <<allVotes, voter>> PROVE RecordsWithinTally'
  BY <1>1 DEF RecordsWithinTally
<1>2. ASSUME NEW p \in People, NEW prop \in Proposals, Register(p, prop) \/ CloseOut(p, prop)
      PROVE  RecordsWithinTally'
  <2>1. UNCHANGED allVotes
    BY <1>2 DEF Register, CloseOut
  <2> QED
    BY <1>2, <2>1, CloseOutRecords, RecordsKept
<1>3. ASSUME NEW p \in People, NEW prop \in Proposals, NEW asset \in Assets,
             OptInVoteToken(p, prop, asset) \/ SetVoteToken(p, prop, asset)
      PROVE  RecordsWithinTally'
  BY <1>1, <1>3 DEF OptInVoteToken, SetVoteToken
<1>4. ASSUME NEW xfer \in ElecTransfers \cup Issues, MoveElection(xfer)
      PROVE  RecordsWithinTally'
  BY <1>1, <1>4 DEF MoveElection
<1>5. ASSUME NEW p \in People, NEW prop \in Proposals, NEW arg \in OptionArgs,
             NEW xfer \in ElecTransfers, CastVote(p, prop, arg, xfer)
      PROVE  RecordsWithinTally'
  BY <1>5, CastVoteRecords
<1>6. ASSUME NEW prop \in Proposals,
             FinalizeVote(prop) \/ \E here \in BOOLEAN : SetImplemented(prop, here)
      PROVE  RecordsWithinTally'
  BY <1>1, <1>6 DEF FinalizeVote, SetImplemented
<1>7. CASE VoteTick \/ UNCHANGED voteVars
  BY <1>1, <1>7 DEF VoteTick, voteVars
<1> QED
  BY <1>2, <1>3, <1>4, <1>5, <1>6, <1>7, Zenon DEF ProposalNext, VoteCall

(***************************************************************************)
(* What the accounts record under a key never exceeds its tally.         *)
(***************************************************************************)
THEOREM RecordsAreBounded == ProposalSpec => []RecordsWithinTally
  BY RecordsInit, RecordsStep, ProposalTypes, PTL DEF ProposalSpec
=============================================================================
