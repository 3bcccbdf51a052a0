-------------------------- MODULE DistributionTree --------------------------
(***************************************************************************)
(* The TokenDistributionTree contract of assets.py: it holds the election  *)
(* tokens and pays each voter its count of them against a Merkle proof, in *)
(* the registration rounds.  The client builds the tree and the proofs.    *)
(*                                                                         *)
(* A snapshot (addr2count) is a sequence of accounts with their counts, in *)
(* the order of the client's dictionary.                                   *)
(***************************************************************************)
EXTENDS Asa, Merkle

CONSTANTS
    People,     \* the accounts that act: some of the voters, and some others
    Creator,
    TreeAddr,   \* the account of the contract
    Accounts,   \* every account whose holdings matter
    Snapshots,  \* what the client may build a tree of
    Totals,     \* the units "inittoken" is called with
    RegBegin, RegEnd,
    Horizon,    \* bound of the model: the last round
    MaxAssets,  \* bound of the model: calls to "inittoken"
    MaxClaimed  \* bound of the model: what one account is paid of an asset in all

ASSUME TreeAssumption ==
    /\ \A values \in Snapshots :
          /\ Len(values) \in 1 .. MaxLeaves /\ DOMAIN values = 1 .. Len(values)
          /\ \A i \in DOMAIN values :
                values[i] = <<values[i][1], values[i][2]>> /\ values[i][2] \in Nat
          /\ \A i, j \in DOMAIN values : values[i][1] = values[j][1] => i = j
    /\ RegBegin \in Nat /\ RegEnd \in Nat /\ Horizon \in Nat /\ MaxAssets \in Nat
    /\ MaxClaimed \in Nat /\ Totals \subseteq Nat
    /\ Creator \in People /\ TreeAddr \notin People
    /\ People \cup {TreeAddr} \subseteq Accounts

ElectionAssets == 1 .. MaxAssets

VARIABLES
    snapshot,   \* what the tree was built of; empty before it is deployed
    status,     \* of the application: deleted, or replaced by another program
    created,    \* how many assets the contract created, numbered from 1
    assetId,    \* the one it gives out, 0 for none
    ledger,     \* the ledger of each asset
    claimed,    \* what each account was paid of each asset
    round

treeVars == <<snapshot, status, created, assetId, ledger, claimed, round>>

TreeTypeOK ==
    /\ snapshot \in Snapshots \cup {<<>>}
    /\ status \in {"running", "deleted", "replaced"}
    /\ created \in 0 .. MaxAssets
    /\ assetId \in 0 .. created
    /\ ledger \in [ElectionAssets -> [Accounts -> Holding]]
    /\ claimed \in [ElectionAssets -> [People -> 0 .. MaxClaimed]]
    /\ round \in 0 .. Horizon

TreeInit ==
    /\ snapshot = <<>>
    /\ status = "running"
    /\ created = 0
    /\ assetId = 0
    /\ ledger = [asset \in ElectionAssets |-> [a \in Accounts |-> NoHolding]]
    /\ claimed = [asset \in ElectionAssets |-> [p \in People |-> 0]]
    /\ round = 0

Live == snapshot # <<>> /\ status = "running"

\* The tree is built, in the client, and the contract created with its root.
DeployTree(values) ==
    /\ snapshot = <<>>
    /\ BuildsTree(Len(values))
    /\ snapshot' = values
    /\ UNCHANGED <<status, created, assetId, ledger, claimed, round>>

\* Mutant of InitElectionToken: the units go to the caller.
InitElectionTokenToCreator(caller, units) ==
    /\ Live
    /\ caller = Creator
    /\ created < MaxAssets
    /\ created' = created + 1
    /\ assetId' = created + 1
    /\ ledger' = [ledger EXCEPT ![created + 1] = NewAsset(Accounts, caller, units)]
    /\ UNCHANGED <<snapshot, status, claimed, round>>

\* "inittoken", as often as the creator calls it: each asset replaces the one before.
InitElectionToken(caller, units) ==
    /\ Live
    /\ caller = Creator
    /\ created < MaxAssets
    /\ created' = created + 1
    /\ assetId' = created + 1
    /\ ledger' = [ledger EXCEPT ![created + 1] = NewAsset(Accounts, TreeAddr, units)]
    /\ UNCHANGED <<snapshot, status, claimed, round>>

\* Mutant of OptInElectionToken: the asset need not exist.
OptInUnchecked(caller, asset) ==
    /\ Live
    /\ caller = Creator
    /\ assetId' = asset
    /\ UNCHANGED <<snapshot, status, created, ledger, claimed, round>>

(***************************************************************************)
(* "optintoken": call_optintoken names the asset of the last "inittoken"   *)
(* of the same client object.  Another object may have called it since, so *)
(* that an earlier asset comes back.                                       *)
(***************************************************************************)
OptInElectionToken(caller, asset) ==
    /\ Live
    /\ caller = Creator
    /\ asset \in 1 .. created
    /\ ledger' = [ledger EXCEPT ![asset] = Transfer(@, TreeAddr, TreeAddr, 0)]
    /\ assetId' = asset
    /\ UNCHANGED <<snapshot, status, created, claimed, round>>

\* A plain transfer of an asset, opt-in included.
MoveUnits(asset, from, to, units) ==
    /\ asset \in 1 .. created
    /\ CanTransfer(ledger[asset], from, to, units)
    /\ ledger' = [ledger EXCEPT ![asset] = Transfer(@, from, to, units)]
    /\ UNCHANGED <<snapshot, status, created, assetId, claimed, round>>

\* Mutant of Verifies: the leaf is not tied to the caller.
VerifiesForAnyone(p, count, index, proof) ==
    \E q \in People :
        VerifyMerkle(Leaf(<<q, count>>), index, proof, RootHash(snapshot))

Verifies(p, count, index, proof) ==
    VerifyMerkle(Leaf(<<p, count>>), index, proof, RootHash(snapshot))

\* transferelectiontokens: the contract pays units of its current asset.
PayUnits(p, units) ==
    /\ assetId # 0
    /\ CanTransfer(ledger[assetId], TreeAddr, p, units)
    /\ ledger' = [ledger EXCEPT ![assetId] = Transfer(@, TreeAddr, p, units)]

\* The count of the voter at an index.
Share(index) == snapshot[index + 1][2]

(***************************************************************************)
(* "claim" of account p with the arguments call_claim makes for the voter  *)
(* at an index.  The contract keeps no record of the claims it has paid.   *)
(***************************************************************************)
Claim(p, index) ==
    /\ Live /\ assetId # 0
    /\ index < Len(snapshot)
    /\ claimed[assetId][p] + Share(index) <= MaxClaimed
    /\ RegBegin <= round /\ round <= RegEnd
    /\ CanProve(Len(snapshot), index)
    /\ Verifies(p, Share(index), index, CreateProof(snapshot, index))
    /\ PayUnits(p, Share(index))
    /\ claimed' = [claimed EXCEPT ![assetId][p] = @ + Share(index)]
    /\ UNCHANGED <<snapshot, status, created, assetId, round>>

\* DeleteApplication, or UpdateApplication, after which another program runs.
EndTree(caller, fate) ==
    /\ Live
    /\ caller = Creator
    /\ status' = fate
    /\ UNCHANGED <<snapshot, created, assetId, ledger, claimed, round>>

TreeTick ==
    /\ round < Horizon
    /\ round' = round + 1
    /\ UNCHANGED <<snapshot, status, created, assetId, ledger, claimed>>

TreeNext ==
    \/ \E values \in Snapshots : DeployTree(values)
    \/ \E p \in People, units \in Totals : InitElectionToken(p, units)
    \/ \E p \in People, asset \in ElectionAssets : OptInElectionToken(p, asset)
    \/ \E p \in People, fate \in {"deleted", "replaced"} : EndTree(p, fate)
    \/ \E asset \in ElectionAssets, from \in People, to \in Accounts, units \in 0 .. 1 :
          MoveUnits(asset, from, to, units)
    \/ \E p \in People, index \in 0 .. MaxLeaves - 1 : Claim(p, index)
    \/ TreeTick

TreeSpec == TreeInit /\ [][TreeNext]_treeVars
-----------------------------------------------------------------------------
\* What the snapshot gives an account.
ShareOf(p) ==
    IF \E i \in DOMAIN snapshot : snapshot[i][1] = p
    THEN snapshot[CHOOSE i \in DOMAIN snapshot : snapshot[i][1] = p][2]
    ELSE 0

(***************************************************************************)
(* An account is paid its own count, whole, or nothing: another voter's    *)
(* arguments get it nothing, and neither does a snapshot without it.       *)
(***************************************************************************)
OwnShareOnly ==
    \A asset \in ElectionAssets, p \in People :
        \E times \in 0 .. claimed[asset][p] : claimed[asset][p] = times * ShareOf(p)

(***************************************************************************)
(* Which claims the contract accepts, of all those the client can make for *)
(* a tree just deployed: those of a voter whose place among the leaves     *)
(* from left to right is its place in the snapshot, in a tree as high as   *)
(* the proofs are long.  The tree splits the leaves by even and odd index, *)
(* the proof counts them from left to right.                               *)
(***************************************************************************)
InPlace(index) ==
    LET n == Len(snapshot) IN
    /\ Depth(n) = Height(n)
    /\ LevelOrder(n)[Depth(n)][index + 1] = index

Accepted(index) ==
    /\ CanProve(Len(snapshot), index)
    /\ Verifies(snapshot[index + 1][1], Share(index), index, CreateProof(snapshot, index))

AcceptsInPlace ==
    [][snapshot # snapshot' =>
          \A index \in 0 .. Len(snapshot') - 1 : (Accepted(index) <=> InPlace(index))']_treeVars

(***************************************************************************)
(* assets.py, lines 60 to 63: callers claim a specific count in accordance *)
(* with the tree.  No account is paid more than its count.                 *)
(***************************************************************************)
ClaimsOnce == \A asset \in ElectionAssets, p \in People : claimed[asset][p] <= ShareOf(p)

(***************************************************************************)
(* The same lines, and README lines 127 and 128: every voter of the        *)
(* snapshot can claim, which needs its proof to verify.                    *)
(***************************************************************************)
EveryVoterVerifies == \A index \in 0 .. Len(snapshot) - 1 : Accepted(index)
=============================================================================
