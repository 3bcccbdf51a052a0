------------------------------ MODULE Proposal ------------------------------
(***************************************************************************)
(* The Proposal contracts of voting.py: accounts register, deposit         *)
(* election tokens with the option they vote for, and once the voting      *)
(* rounds are over anyone may have the result computed.  Several           *)
(* proposals run side by side and may share an election token.             *)
(*                                                                         *)
(* A proposal is named by its application, which also stands for its       *)
(* account.  What a proposal is created with never changes, so it is the   *)
(* constant Config.                                                        *)
(***************************************************************************)
EXTENDS Asa

CONSTANTS
    People,     \* ordinary accounts: voters, the creator
    Creator,    \* the account that deployed the proposals
    Proposals,
    Assets,     \* the election tokens
    NoAsset,    \* the asset id 0
    Issuer,     \* the account that issues the election tokens: a person or a distribution tree
    Supply,     \* the units of each election token
    Config,     \* what each proposal was created with
    NoData,     \* an empty VoteTypeData or AdditionalData
    NumOptions, \* the options of an up/down vote: 1 for yes, 2 for no, ...
    OptionArgs, \* the arguments that name an option: the option, and the bytes it is written in
    MaxUint,    \* the largest integer of the machine
    Horizon     \* bound of the model: the last round

Yes == 1
No == 2
Options == 1 .. NumOptions

(***************************************************************************)
(* A vote is kept under the bytes of its argument, of which only the value *)
(* is checked (voting.py:198, 199, 209): the option 1 has one key for each *)
(* width it may be written in.  The result reads the keys of eight bytes,  *)
(* which is what the client library writes.                                *)
(***************************************************************************)
YesKey == <<Yes, 8>>
NoKey == <<No, 8>>

(***************************************************************************)
(* ProposalType and VoteType.  A proposal votes by governance token only   *)
(* (setvotedata); its vote data hold that and the percentage to reach.     *)
(***************************************************************************)
ProposalType == {"PAYMENT", "ADD_COMMITTEE_MEMBER", "CLOSE_AND_DISBURSE",
                 "EJECT_COMMITTEE_MEMBER", "NEW_COMMITTEE"}

VoteType == {"COMMITTEE", "GOVERNANCE_TOKEN"}

VoteData == [vtype : VoteType, pct : 0 .. 100]

ASSUME ProposalAssumption ==
    /\ Creator \in People
    /\ IsFiniteSet(People) /\ IsFiniteSet(Proposals)
    /\ People \cap Proposals = {} /\ Issuer \notin Proposals
    /\ NoAsset \notin Assets
    /\ Supply \in Nat /\ MaxUint \in Nat /\ Horizon \in Nat
    /\ NumOptions \in Nat /\ NumOptions >= 2
    /\ OptionArgs \subseteq Options \X (1 .. 8)
    /\ YesKey \in OptionArgs /\ NoKey \in OptionArgs
    /\ NoData \notin VoteData
    /\ \A prop \in Proposals :
          /\ Config[prop].asset \in Assets \cup {NoAsset}
          /\ {Config[prop].regBegin, Config[prop].regEnd,
              Config[prop].voteBegin, Config[prop].voteEnd} \subseteq Nat
          /\ Config[prop].data \in VoteData \cup {NoData}
          /\ Config[prop].type \in ProposalType
          /\ Config[prop].dao \in BOOLEAN

VARIABLES
    round,
    elec,       \* the ledger of each election token
    voteAsset,  \* VoteAssetId of each proposal
    allVotes,   \* the tally of each proposal under each key, zero where there is none
    slots,      \* the keys of each proposal that have a value in its global state
    voter,      \* the local state of each account in each proposal
    passed, implemented

voteVars == <<round, elec, voteAsset, allVotes, slots, voter, passed, implemented>>

VoteAccounts == People \cup Proposals \cup {Issuer}

NoVotes == [arg \in OptionArgs |-> 0]

NotRegistered == [optedin |-> FALSE, keys |-> {}, voted |-> NoVotes]

Ballot == [optedin : BOOLEAN, keys : SUBSET OptionArgs, voted : [OptionArgs -> Nat]]

ProposalTypeOK ==
    /\ round \in 0 .. Horizon
    /\ elec \in [Assets -> [VoteAccounts -> Holding]]
    /\ voteAsset \in [Proposals -> Assets \cup {NoAsset}]
    /\ allVotes \in [Proposals -> [OptionArgs -> Nat]]
    /\ slots \in [Proposals -> SUBSET OptionArgs]
    /\ voter \in [Proposals -> [People -> Ballot]]
    /\ passed \in [Proposals -> BOOLEAN]
    /\ implemented \in [Proposals -> BOOLEAN]

ProposalInit ==
    /\ round = 0
    /\ elec = [asset \in Assets |-> NewAsset(VoteAccounts, Issuer, Supply)]
    /\ voteAsset = [prop \in Proposals |-> Config[prop].asset]
    /\ allVotes = [prop \in Proposals |-> NoVotes]
    /\ slots = [prop \in Proposals |-> {}]
    /\ voter = [prop \in Proposals |-> [p \in People |-> NotRegistered]]
    /\ passed = [prop \in Proposals |-> FALSE]
    /\ implemented = [prop \in Proposals |-> FALSE]

Within(first, last) == first <= round /\ round <= last
-----------------------------------------------------------------------------
\* OptIn, in the registration rounds.
Register(p, prop) ==
    /\ ~voter[prop][p].optedin
    /\ Within(Config[prop].regBegin, Config[prop].regEnd)
    /\ voter' = [voter EXCEPT ![prop][p].optedin = TRUE]
    /\ UNCHANGED <<round, elec, voteAsset, allVotes, slots, passed, implemented>>

\* CloseOut and ClearState: only the local state is erased.
CloseOut(p, prop) ==
    /\ voter[prop][p].optedin
    /\ voter' = [voter EXCEPT ![prop][p] = NotRegistered]
    /\ UNCHANGED <<round, elec, voteAsset, allVotes, slots, passed, implemented>>

\* "optintoken" with an election token.
OptInVoteToken(caller, prop, asset) ==
    /\ caller = Creator
    /\ elec' = [elec EXCEPT ![asset] = Transfer(@, prop, prop, 0)]
    /\ UNCHANGED <<round, voteAsset, allVotes, slots, voter, passed, implemented>>

\* Mutant of SetVoteToken: the asset may be replaced.
SetVoteTokenAgain(caller, prop, asset) ==
    /\ caller = Creator
    /\ voteAsset' = [voteAsset EXCEPT ![prop] = asset]
    /\ UNCHANGED <<round, elec, allVotes, slots, voter, passed, implemented>>

\* "setvotetoken", while the asset id is zero.
SetVoteToken(caller, prop, asset) ==
    /\ caller = Creator
    /\ voteAsset[prop] = NoAsset
    /\ voteAsset' = [voteAsset EXCEPT ![prop] = asset]
    /\ UNCHANGED <<round, elec, allVotes, slots, voter, passed, implemented>>

ElecTransfers ==
    [asset : Assets, from : People, to : VoteAccounts, amount : 0 .. Supply]

\* What the issuer hands out, where it is a contract that people claim from.
Issues == [asset : Assets, from : {Issuer}, to : People, amount : 0 .. Supply]

CanMove(xfer) == CanTransfer(elec[xfer.asset], xfer.from, xfer.to, xfer.amount)

Move(xfer) ==
    elec' = [elec EXCEPT ![xfer.asset] = Transfer(@, xfer.from, xfer.to, xfer.amount)]

\* A transfer of an election token outside of a vote, opt-in included.
MoveElection(xfer) ==
    /\ CanMove(xfer)
    /\ Move(xfer)
    /\ UNCHANGED <<round, voteAsset, allVotes, slots, voter, passed, implemented>>

\* Mutant of IsDeposit: any account may receive the units.
IsTransfer(prop, xfer) == xfer.asset = voteAsset[prop]

\* What the second transaction of a vote must be.
IsDeposit(prop, xfer) == xfer.asset = voteAsset[prop] /\ xfer.to = prop

\* Mutant of NewTally: the deposit replaces the tally, as it does the record.
LastDeposit(prop, arg, votes) == votes

\* Mutant of NewTally: the deposit is taken off the tally.
Uncounted(prop, arg, votes) == allVotes[prop][arg] - votes

NewTally(prop, arg, votes) == allVotes[prop][arg] + votes

\* The schemas have room for a key for each option, of whatever width (voting.py:298 to 307).
HasRoom(keys, arg) == Cardinality(keys \cup {arg}) <= NumOptions

\* The local state of a voter with this vote: what was under its key is overwritten.
Recorded(ballot, arg, votes) == [ballot EXCEPT !.keys = @ \cup {arg}, !.voted[arg] = votes]

(***************************************************************************)
(* "vote": the second transaction of the group deposits the units that     *)
(* count.  The voter's own record keeps the last deposit under the key,    *)
(* the tally all of them.  Nothing ties the depositor to the voter.        *)
(***************************************************************************)
CastVote(p, prop, arg, xfer) ==
    LET sum == NewTally(prop, arg, xfer.amount) IN
    /\ Within(Config[prop].voteBegin, Config[prop].voteEnd)
    /\ IsDeposit(prop, xfer)
    /\ voter[prop][p].optedin
    /\ HasRoom(slots[prop], arg)
    /\ HasRoom(voter[prop][p].keys, arg)
    /\ sum <= MaxUint
    /\ CanMove(xfer)
    /\ voter' = [voter EXCEPT ![prop][p] = Recorded(@, arg, xfer.amount)]
    /\ allVotes' = [allVotes EXCEPT ![prop][arg] = sum]
    /\ slots' = [slots EXCEPT ![prop] = @ \cup {arg}]
    /\ Move(xfer)
    /\ UNCHANGED <<round, voteAsset, passed, implemented>>

\* minvotesneeded, where the product fits in an integer.
MinVotesNeeded(pct, total) == (pct * total) \div 100

\* Mutant of VoteOver: the last voting round counts as over.
VoteEnding(prop) == round >= Config[prop].voteEnd

VoteOver(prop) == round > Config[prop].voteEnd

(***************************************************************************)
(* "finalizevote": for anyone, any number of times, once the voting rounds *)
(* are over.  Empty vote data and a product that overflows refuse it.      *)
(***************************************************************************)
FinalizeVote(prop) ==
    LET yes   == allVotes[prop][YesKey]
        total == yes + allVotes[prop][NoKey]
        data  == Config[prop].data
    IN
    /\ VoteOver(prop)
    /\ data # NoData
    /\ total <= MaxUint
    /\ data.pct * total <= MaxUint
    /\ passed' = [passed EXCEPT ![prop] = @ \/ yes >= MinVotesNeeded(data.pct, total)]
    /\ UNCHANGED <<round, elec, voteAsset, allVotes, slots, voter, implemented>>

\* Mutant of SetImplemented: it may be called again.
SetImplementedAgain(prop, here) ==
    /\ Config[prop].dao = here
    /\ implemented' = [implemented EXCEPT ![prop] = TRUE]
    /\ UNCHANGED <<round, elec, voteAsset, allVotes, slots, voter, passed>>

(***************************************************************************)
(* "setimplemented": second in a group whose first transaction is one to   *)
(* the proposal's own DAO with the argument "implementproposal"; here says *)
(* whether that one is to the DAO of AlgoDao.  Whether the DAO carries     *)
(* anything out in it, the proposal does not see; what the first           *)
(* transaction may be is in AlgoDao.                                       *)
(***************************************************************************)
SetImplemented(prop, here) ==
    /\ Config[prop].dao = here
    /\ ~implemented[prop]
    /\ implemented' = [implemented EXCEPT ![prop] = TRUE]
    /\ UNCHANGED <<round, elec, voteAsset, allVotes, slots, voter, passed>>

VoteTick ==
    /\ round < Horizon
    /\ round' = round + 1
    /\ UNCHANGED <<elec, voteAsset, allVotes, slots, voter, passed, implemented>>

\* Every call but "setimplemented", which is half of a group.
VoteCall ==
    \/ \E p \in People, prop \in Proposals : Register(p, prop) \/ CloseOut(p, prop)
    \/ \E p \in People, prop \in Proposals, asset \in Assets :
          OptInVoteToken(p, prop, asset) \/ SetVoteToken(p, prop, asset)
    \/ \E xfer \in ElecTransfers \cup Issues : MoveElection(xfer)
    \/ \E p \in People, prop \in Proposals, arg \in OptionArgs, xfer \in ElecTransfers :
          CastVote(p, prop, arg, xfer)
    \/ \E prop \in Proposals : FinalizeVote(prop)

ProposalNext ==
    \/ VoteCall \/ VoteTick
    \/ \E prop \in Proposals, here \in BOOLEAN : SetImplemented(prop, here)

ProposalSpec == ProposalInit /\ [][ProposalNext]_voteVars
-----------------------------------------------------------------------------
Tally(prop) == SumFunctionOnSet(allVotes[prop], OptionArgs)

(***************************************************************************)
(* Every vote counted, under whatever key, is backed by a unit that the    *)
(* proposal still holds, in the asset it counts: neither an overwritten    *)
(* record, nor a later change of the asset, nor a voter who leaves makes a *)
(* vote without a deposit.                                                 *)
(***************************************************************************)
VotesBacked ==
    \A prop \in Proposals :
        IF voteAsset[prop] = NoAsset
        THEN Tally(prop) = 0
        ELSE Tally(prop) <= elec[voteAsset[prop]][prop].amount

(***************************************************************************)
(* No unit votes twice (README, lines 124 to 128): the votes counted by    *)
(* all the proposals that share an election token never exceed its supply. *)
(***************************************************************************)
NoDoubleVoting ==
    \A asset \in Assets :
        SumFunctionOnSet([prop \in Proposals |-> Tally(prop)],
                         {prop \in Proposals : voteAsset[prop] = asset}) <= Supply

(***************************************************************************)
(* A result is final: with the tallies it has now, however late the result *)
(* was computed, a proposal that passed has the percentage of yes votes it *)
(* asks for, or misses it by less than one vote (a threshold of less than  *)
(* one vote is none: a single no vote may pass).                           *)
(***************************************************************************)
PassedSound ==
    \A prop \in Proposals : passed[prop] =>
        LET data == Config[prop].data
            total == allVotes[prop][YesKey] + allVotes[prop][NoKey]
        IN data # NoData /\ 100 * allVotes[prop][YesKey] + 100 > data.pct * total

(***************************************************************************)
(* What the accounts record under a key, together, is never more than its  *)
(* tally.                                                                  *)
(***************************************************************************)
RecordsWithinTally ==
    \A prop \in Proposals, arg \in OptionArgs :
        SumFunctionOnSet([p \in People |-> voter[prop][p].voted[arg]], People)
            <= allVotes[prop][arg]
=============================================================================
