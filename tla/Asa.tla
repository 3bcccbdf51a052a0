-------------------------------- MODULE Asa --------------------------------
(***************************************************************************)
(* The ledger of one Algorand Standard Asset (ASA), as the contracts use   *)
(* it.  A ledger is a function from accounts to holdings.  The module has  *)
(* no state: each component that owns an asset keeps its ledger in a       *)
(* variable, and conjoins the guard of an operation (CanTransfer, ...)     *)
(* with the ledger that results (Transfer, ...).  A transaction the chain  *)
(* refuses takes back everything its group did, so a false guard simply    *)
(* disables the action of the whole group.                                 *)
(***************************************************************************)
EXTENDS Naturals, FiniteSetsExt

NoHolding == [optedin |-> FALSE, amount |-> 0, frozen |-> FALSE]

Holding == [optedin : BOOLEAN, amount : Nat, frozen : BOOLEAN]

\* An asset just created: its creator holds every unit, nobody else opted in.
NewAsset(accounts, creator, total) ==
    [a \in accounts |-> IF a = creator
                        THEN [optedin |-> TRUE, amount |-> total, frozen |-> FALSE]
                        ELSE NoHolding]

Movable(ledger, a) == ledger[a].optedin /\ ~ledger[a].frozen

(***************************************************************************)
(* An asset transfer of n units.  A transfer of zero units to oneself is   *)
(* how an account opts in; any other transfer of zero units does nothing,  *)
(* even for a frozen holding.                                              *)
(***************************************************************************)
CanTransfer(ledger, from, to, n) ==
    \/ n = 0
    \/ /\ Movable(ledger, from)
       /\ Movable(ledger, to)
       /\ ledger[from].amount >= n

Transfer(ledger, from, to, n) ==
    IF n = 0
    THEN IF from = to THEN [ledger EXCEPT ![from].optedin = TRUE] ELSE ledger
    ELSE [[ledger EXCEPT ![from].amount = @ - n] EXCEPT ![to].amount = @ + n]

\* send_asset: one unit, from the account of the contract.
SendAsset(ledger, app, a) == Transfer(ledger, app, a, 1)

\* set_asset_freeze: only an account that opted in has a holding to freeze.
CanFreeze(ledger, a) == ledger[a].optedin

SetAssetFreeze(ledger, a, frozen) == [ledger EXCEPT ![a].frozen = frozen]

\* is_member
IsMember(ledger, a) == ledger[a].optedin /\ ledger[a].amount > 0

Holders(ledger, accounts) == {a \in accounts : IsMember(ledger, a)}
=============================================================================
