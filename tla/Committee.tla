----------------------------- MODULE Committee -----------------------------
(***************************************************************************)
(* The Committee contract of committee.py.  Membership is one unit of an   *)
(* asset the contract creates; the contract freezes the unit in the        *)
(* member's account, so that it can only come back through "resign".       *)
(*                                                                         *)
(* Each action is one transaction group, which the chain executes          *)
(* atomically.  Calls that change nothing (a refused group, OptIn,         *)
(* CloseOut, "checkmembership", "optintoken") are stuttering steps.        *)
(***************************************************************************)
EXTENDS Asa

CONSTANTS
    People,         \* ordinary accounts: members, voters, the creator
    Creator,        \* the account that deployed the contracts
    CommitteeAddr,  \* the account of the committee contract
    MaxMembers,     \* the size the committee is created with
    MaxTokens       \* bound of the model: calls to "inittoken"

ASSUME CommitteeAssumption ==
    /\ IsFiniteSet(People)
    /\ Creator \in People
    /\ CommitteeAddr \notin People
    /\ MaxMembers \in Nat
    /\ MaxTokens \in Nat

\* The most accounts one call can name, the limit of the chain.
MaxTxnAccounts == 4

CommitteeAccounts == People \cup {CommitteeAddr}

VARIABLES
    assetId,    \* the current membership asset, numbered from 1; 0 for none
    token       \* the ledger of that asset

committeeVars == <<assetId, token>>

CommitteeTypeOK ==
    /\ assetId \in 0 .. MaxTokens
    /\ token \in [CommitteeAccounts -> Holding]

CommitteeInit ==
    /\ assetId = 0
    /\ token = [a \in CommitteeAccounts |-> NoHolding]

Members == Holders(token, People)

\* current_committee_size_ex: what is missing from the reserve is on the committee.
CommitteeSize == MaxMembers - token[CommitteeAddr].amount

(***************************************************************************)
(* "inittoken": anyone may call it, at any time; the asset it creates      *)
(* replaces the one the contract used until then.                          *)
(***************************************************************************)
InitToken ==
    /\ assetId < MaxTokens
    /\ assetId' = assetId + 1
    /\ token' = NewAsset(CommitteeAccounts, CommitteeAddr, MaxMembers)

\* Mutant of CanAddMembers: there may be more members than units.
CanAddMembersUnfunded(new) ==
    /\ \A m \in new : Movable(token, m)
    /\ new = {} \/ Movable(token, CommitteeAddr)

\* add_members: one frozen unit to each account of a set.
CanAddMembers(new) ==
    /\ \A m \in new : Movable(token, m)
    /\ new = {} \/ Movable(token, CommitteeAddr)
    /\ Cardinality(new) <= token[CommitteeAddr].amount

\* Mutant of AddMembers: the units are not frozen.
AddMembersUnfrozen(new) ==
    [a \in CommitteeAccounts |->
        IF a \in new
        THEN [token[a] EXCEPT !.amount = @ + 1]
        ELSE IF a = CommitteeAddr
        THEN [token[a] EXCEPT !.amount = @ - Cardinality(new)]
        ELSE token[a]]

AddMembers(new) ==
    [a \in CommitteeAccounts |->
        IF a \in new
        THEN [token[a] EXCEPT !.amount = @ + 1, !.frozen = TRUE]
        ELSE IF a = CommitteeAddr
        THEN [token[a] EXCEPT !.amount = @ - Cardinality(new)]
        ELSE token[a]]

\* Mutant of SetMembers: the reserve need not be full.
SetMembersAnytime(caller, new) ==
    /\ caller = Creator
    /\ assetId # 0
    /\ Cardinality(new) <= MaxTxnAccounts
    /\ CanAddMembers(new)
    /\ token' = AddMembers(new)
    /\ UNCHANGED assetId

(***************************************************************************)
(* "setmembers": the addresses must differ, the second unit sent to an     *)
(* account finds the first one frozen.                                     *)
(***************************************************************************)
SetMembers(caller, new) ==
    /\ caller = Creator
    /\ assetId # 0
    /\ token[CommitteeAddr].optedin
    /\ token[CommitteeAddr].amount = MaxMembers
    /\ Cardinality(new) <= MaxTxnAccounts
    /\ CanAddMembers(new)
    /\ token' = AddMembers(new)
    /\ UNCHANGED assetId

(***************************************************************************)
(* "resign": the second transaction of the group must give one unit back;  *)
(* the call thaws the caller's holding first.  Nothing ties the account    *)
(* that pays to the caller.                                                *)
(***************************************************************************)
Transfers == [from : People, to : CommitteeAccounts, amount : 0 .. 1]

\* Mutant of Thawed: the caller's unit stays frozen.
NotThawed(caller) == token

Thawed(caller) == SetAssetFreeze(token, caller, FALSE)

MayResign(caller, xfer) ==
    /\ assetId # 0
    /\ xfer.amount = 1
    /\ xfer.to = CommitteeAddr
    /\ CanFreeze(token, caller)
    /\ CanTransfer(Thawed(caller), xfer.from, xfer.to, xfer.amount)

Returned(caller, xfer) == Transfer(Thawed(caller), xfer.from, xfer.to, xfer.amount)

Resign(caller, xfer) ==
    /\ MayResign(caller, xfer)
    /\ token' = Returned(caller, xfer)
    /\ UNCHANGED assetId

\* A plain transfer of the asset by an account that may hold it, opt-in included.
MoveToken(xfer) ==
    /\ assetId # 0
    /\ CanTransfer(token, xfer.from, xfer.to, xfer.amount)
    /\ token' = Transfer(token, xfer.from, xfer.to, xfer.amount)
    /\ UNCHANGED assetId

CommitteeNext ==
    \/ InitToken
    \/ \E p \in People, new \in SUBSET People : SetMembers(p, new)
    \/ \E p \in People, xfer \in Transfers : Resign(p, xfer)
    \/ \E xfer \in Transfers : MoveToken(xfer)

CommitteeSpec == CommitteeInit /\ [][CommitteeNext]_committeeVars
-----------------------------------------------------------------------------
(***************************************************************************)
(* The size the contract computes from its own reserve is the number of    *)
(* accounts that hold a unit: no member counts twice and none is lost.     *)
(***************************************************************************)
SizeCountsMembers == assetId # 0 => CommitteeSize = Cardinality(Members)

(***************************************************************************)
(* Membership cannot be passed on: a member holds exactly one unit, and    *)
(* holds it frozen.                                                        *)
(***************************************************************************)
MembershipFrozen ==
    \A m \in Members : token[m].amount = 1 /\ token[m].frozen

(***************************************************************************)
(* "setmembers" selects members only while no one is on the committee      *)
(* (comment at committee.py:180): nobody joins a committee that has        *)
(* members, whatever transfers and resignations come between.              *)
(***************************************************************************)
JoinsEmptyCommittee ==
    [][Members' \subseteq Members \/ Members = {}]_committeeVars

(***************************************************************************)
(* A member can always resign with the group that call_resign builds, and  *)
(* is no longer a member after it: the call never refuses it, nor leaves a *)
(* unit, thawed or frozen, behind.                                         *)
(***************************************************************************)
ResignGroup(m) == [from |-> m, to |-> CommitteeAddr, amount |-> 1]

CanResign ==
    \A m \in Members :
        /\ MayResign(m, ResignGroup(m))
        /\ m \notin Holders(Returned(m, ResignGroup(m)), People)

(***************************************************************************)
(* The README (lines 111 to 114) has a member leave the committee only by  *)
(* resigning or by being ejected through a clawback, which the code does   *)
(* not offer: members leave in no other step.                              *)
(***************************************************************************)
LeavesByResigning ==
    [][Members \ Members' # {} =>
          \E p \in People, xfer \in Transfers : Resign(p, xfer)]_committeeVars
=============================================================================
