---------------------------- MODULE Confirmation ----------------------------
(***************************************************************************)
(* One call of a contract by the client: call_method of contract.py sends  *)
(* the transaction, waits in wait_for_confirmation of helpers.py for some  *)
(* rounds, and asks the node for the transaction once more.  After it the  *)
(* client may wait for a later round (wait_for_round).  The node and its   *)
(* rounds go on meanwhile.  Any request to the node may fail, and the one  *)
(* that sends the transaction may fail after the node has it.              *)
(***************************************************************************)
EXTENDS Naturals

CONSTANTS
    Timeout,    \* rounds to wait
    Target,     \* the round of wait_for_round
    Horizon     \* bound of the model: the last round

ASSUME ConfirmationAssumption ==
    Timeout \in Nat \ {0} /\ Horizon \in Nat /\ Timeout <= Horizon /\ Target \in 0 .. Horizon

VARIABLES
    tx,         \* the transaction, as the chain has it
    last,       \* last-round of the node
    pc,         \* where the client is
    start,      \* start_round
    current,    \* current_round; last_round in wait_for_round
    waited,     \* how wait_for_confirmation ended
    answer      \* what call_method returned: the state of the transaction

confirmationVars == <<tx, last, pc, start, current, waited, answer>>

ConfirmationTypeOK ==
    /\ tx \in {"unsent", "pending", "confirmed", "rejected"}
    /\ last \in 0 .. Horizon
    /\ pc \in {"send", "status", "poll", "block", "fetch", "done",
              "rounds", "reached", "failed"}
    /\ start \in 0 .. Horizon - Timeout + 1
    /\ current \in 0 .. Horizon + 1
    /\ waited \in {"no", "info", "nothing", "pool error", "timeout", "node error"}
    /\ answer \in {"none", "pending", "confirmed", "rejected"}

ConfirmationInit ==
    /\ tx = "unsent"
    /\ last = 0
    /\ pc = "send"
    /\ start = 0
    /\ current = 0
    /\ waited = "no"
    /\ answer = "none"
-----------------------------------------------------------------------------
\* wait_for_confirmation ends: by returning to call_method, or by raising.
Return(how) == waited' = how /\ pc' = "fetch"
Raise(how) == waited' = how /\ pc' = "done"

Send ==
    /\ pc = "send"
    /\ tx' = "pending"
    /\ pc' = "status"
    /\ UNCHANGED <<last, start, current, waited, answer>>

(***************************************************************************)
(* Asking for the suggested parameters or sending fails: the transaction   *)
(* was not sent, the node refused it, or it has it and the answer is lost. *)
(***************************************************************************)
SendFails ==
    /\ pc = "send"
    /\ tx' \in {"unsent", "rejected", "pending"}
    /\ Raise("node error")
    /\ UNCHANGED <<last, start, current, answer>>

\* Mutant of Status: one round is skipped.
StatusSkips ==
    /\ pc = "status"
    /\ last + Timeout <= Horizon
    /\ start' = last + 2
    /\ current' = last + 2
    /\ pc' = "poll"
    /\ UNCHANGED <<tx, last, waited, answer>>

\* The model has the rounds that a whole wait takes from here.
Status ==
    /\ pc = "status"
    /\ last + Timeout <= Horizon
    /\ start' = last + 1
    /\ current' = last + 1
    /\ pc' = "poll"
    /\ UNCHANGED <<tx, last, waited, answer>>

\* Mutant of Poll: a confirmed-round of zero is taken for a confirmation.
PollHasty ==
    /\ pc = "poll"
    /\ current < start + Timeout
    /\ \/ tx \in {"pending", "confirmed"} /\ Return("info")
       \/ tx = "rejected" /\ Raise("pool error")
    /\ UNCHANGED <<tx, last, start, current, answer>>

\* One turn of the loop, when the node answers.
Poll ==
    /\ pc = "poll"
    /\ current < start + Timeout
    /\ \/ tx = "confirmed" /\ Return("info")
       \/ tx = "rejected" /\ Raise("pool error")
       \/ tx = "pending" /\ pc' = "block" /\ UNCHANGED waited
    /\ UNCHANGED <<tx, last, start, current, answer>>

(***************************************************************************)
(* A question to the node fails.  About the transaction, the wait returns  *)
(* without a value; about a round, it raises what the node raised.         *)
(***************************************************************************)
NodeFails ==
    /\ \/ pc = "poll" /\ current < start + Timeout /\ Return("nothing")
       \/ pc \in {"status", "block"} /\ Raise("node error")
       \/ pc = "rounds" /\ pc' = "failed" /\ UNCHANGED waited
    /\ UNCHANGED <<tx, last, start, current, answer>>

GiveUp ==
    /\ pc = "poll"
    /\ current >= start + Timeout
    /\ Raise("timeout")
    /\ UNCHANGED <<tx, last, start, current, answer>>

\* Mutant of AfterBlock: it does not wait for the block.
AfterBlockAtOnce ==
    /\ pc = "block"
    /\ pc' = "poll"
    /\ current' = current + 1
    /\ UNCHANGED <<tx, last, start, waited, answer>>

\* Mutant of AfterBlock: the round is not counted.
AfterBlockStays ==
    /\ pc = "block"
    /\ last >= current
    /\ pc' = "poll"
    /\ UNCHANGED <<tx, last, start, current, waited, answer>>

\* status_after_block answers once the node has the block.
AfterBlock ==
    /\ pc = "block"
    /\ last >= current
    /\ pc' = "poll"
    /\ current' = current + 1
    /\ UNCHANGED <<tx, last, start, waited, answer>>

\* call_method asks once more and returns what the node says.
Fetch ==
    /\ pc = "fetch"
    /\ pc' = "done"
    /\ answer' \in {tx, "none"}
    /\ UNCHANGED <<tx, last, start, current, waited>>

(***************************************************************************)
(* wait_for_round, which the client may call once the call has returned:   *)
(* it asks for the last round, then for one round after the other.         *)
(***************************************************************************)
BeginRounds ==
    /\ pc = "done" /\ answer # "none"
    /\ \/ pc' = "rounds" /\ current' = last
       \/ pc' = "failed" /\ UNCHANGED current
    /\ UNCHANGED <<tx, last, start, waited, answer>>

\* Mutant of AfterRound: it does not wait for the round it has counted.
AfterRoundAtOnce ==
    /\ pc = "rounds" /\ current < Target
    /\ current' = current + 1
    /\ UNCHANGED <<tx, last, pc, start, waited, answer>>

AfterRound ==
    /\ pc = "rounds" /\ current < Target
    /\ last >= current + 1
    /\ current' = current + 1
    /\ UNCHANGED <<tx, last, pc, start, waited, answer>>

ReachRound ==
    /\ pc = "rounds" /\ current >= Target
    /\ pc' = "reached"
    /\ UNCHANGED <<tx, last, start, current, waited, answer>>

\* The transaction gets into a round, or the pool refuses it.
Resolve ==
    /\ tx = "pending"
    /\ tx' \in {"confirmed", "rejected"}
    /\ UNCHANGED <<last, pc, start, current, waited, answer>>

NewRound ==
    /\ last < Horizon
    /\ last' = last + 1
    /\ UNCHANGED <<tx, pc, start, current, waited, answer>>

ClientStep ==
    \/ Send \/ Status \/ Poll \/ GiveUp \/ AfterBlock \/ Fetch
    \/ AfterRound \/ ReachRound

ConfirmationNext ==
    ClientStep \/ SendFails \/ NodeFails \/ BeginRounds \/ Resolve \/ NewRound

ConfirmationSpec ==
    /\ ConfirmationInit
    /\ [][ConfirmationNext]_confirmationVars
    /\ WF_confirmationVars(ClientStep)
    /\ WF_confirmationVars(NewRound)
-----------------------------------------------------------------------------
(***************************************************************************)
(* The wait gives up only after the node has made all the rounds it may    *)
(* wait for, counted from the one it started in.                           *)
(***************************************************************************)
TimeoutWaits == waited = "timeout" => last >= start + Timeout - 1

(***************************************************************************)
(* A verdict about the transaction is the chain's: nothing that happens    *)
(* after the node was asked turns it.                                      *)
(***************************************************************************)
VerdictStands ==
    /\ waited = "info" => tx = "confirmed"
    /\ waited = "pool error" => tx = "rejected"
    /\ answer \in {"confirmed", "rejected"} => tx = answer

(***************************************************************************)
(* A client that returns from wait_for_round is at the round or after it,  *)
(* so that the next transaction comes later than it.                       *)
(***************************************************************************)
RoundReached == pc = "reached" => last >= Target

(***************************************************************************)
(* Both waits end, whatever the node does with the transaction, as long as *)
(* the rounds go on.                                                       *)
(***************************************************************************)
CallReturns ==
    /\ pc = "poll" ~> pc = "done"
    /\ pc = "rounds" ~> pc \in {"reached", "failed"}
=============================================================================
