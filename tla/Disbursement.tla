---------------------------- MODULE Disbursement ----------------------------
(***************************************************************************)
(* What the governance of an AlgoDao promises about its money, apart from  *)
(* trust tokens, rules, votes and transaction groups.  While the DAO is    *)
(* being set up nothing is paid.  Once it runs, proposals become eligible  *)
(* for good, and what is paid is the grant of an eligible one.  How often  *)
(* it is paid, the contracts do not promise.                               *)
(***************************************************************************)
EXTENDS Naturals

CONSTANTS
    Candidates, \* the proposals
    Payees,     \* the accounts that may be paid
    Grant       \* what each proposal pays, and to whom

VARIABLES
    phase,      \* "setup", "running" or "deleted"
    eligible,   \* the proposals that may be carried out
    funds,      \* what the DAO holds
    received    \* what each payee was paid

disbursementVars == <<phase, eligible, funds, received>>

DisbursementInit ==
    /\ phase = "setup"
    /\ eligible = {}
    /\ funds = 0
    /\ received = [q \in Payees |-> 0]

Deposit ==
    /\ funds' > funds
    /\ UNCHANGED <<phase, eligible, received>>

Abandon ==
    /\ phase = "setup"
    /\ phase' = "deleted"
    /\ UNCHANGED <<eligible, funds, received>>

\* The DAO starts to run, perhaps with proposals that qualify already.
Launch ==
    /\ phase = "setup"
    /\ phase' = "running"
    /\ eligible' \subseteq Candidates
    /\ UNCHANGED <<funds, received>>

Qualify ==
    /\ phase = "running"
    /\ eligible \subseteq eligible'
    /\ eligible' \subseteq Candidates
    /\ UNCHANGED <<phase, funds, received>>

CarryOut(prop) ==
    /\ phase = "running"
    /\ prop \in eligible
    /\ funds >= Grant[prop].amount
    /\ funds' = funds - Grant[prop].amount
    /\ received' = [received EXCEPT ![Grant[prop].payee] = @ + Grant[prop].amount]
    /\ UNCHANGED <<phase, eligible>>

DisbursementNext ==
    \/ Deposit \/ Abandon \/ Launch \/ Qualify
    \/ \E prop \in Candidates : CarryOut(prop)

DisbursementSpec == DisbursementInit /\ [][DisbursementNext]_disbursementVars
=============================================================================
