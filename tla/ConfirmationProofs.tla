------------------------- MODULE ConfirmationProofs -------------------------
(***************************************************************************)
(* Proofs about Confirmation, for every timeout and every last round.      *)
(***************************************************************************)
EXTENDS Confirmation, TLAPS

\* The client counts a round only once the node has made the one before it.
RoundsCounted ==
    /\ pc \in {"poll", "block"} => start <= current /\ current <= last + 1
    /\ pc = "block" => current < start + Timeout
    /\ pc = "rounds" => current <= last

\* While the client waits there is no verdict, and no answer before it is done.
Undecided ==
    /\ pc \in {"send", "status", "poll", "block"} => waited = "no"
    /\ pc = "fetch" => waited \in {"info", "nothing"}
    /\ pc \in {"send", "status", "poll", "block", "fetch"} => answer = "none"
    /\ tx = "unsent" => answer = "none" /\ (pc = "send" \/ waited = "node error")

ConfirmationInv ==
    /\ ConfirmationTypeOK
    /\ RoundsCounted
    /\ Undecided
    /\ TimeoutWaits
    /\ VerdictStands
    /\ RoundReached

LEMMA ConfirmationInvInit == ConfirmationInit => ConfirmationInv
  BY ConfirmationAssumption
  DEF ConfirmationInit, ConfirmationInv, ConfirmationTypeOK, RoundsCounted,
      Undecided, TimeoutWaits, VerdictStands, RoundReached

LEMMA ConfirmationStep ==
    ConfirmationInv /\ [ConfirmationNext]_confirmationVars => ConfirmationInv'
<1> SUFFICES ASSUME ConfirmationInv, [ConfirmationNext]_confirmationVars
             PROVE  ConfirmationInv'
  OBVIOUS
<1>1. /\ Timeout \in Nat /\ Horizon \in Nat /\ Timeout > 0 /\ Timeout <= Horizon
      /\ Target \in Nat /\ Target <= Horizon
      /\ last \in Nat /\ last <= Horizon
      /\ start \in Nat /\ start <= Horizon - Timeout + 1
      /\ current \in Nat /\ current <= Horizon + 1
  <2>1. /\ Timeout \in Nat /\ Timeout > 0 /\ Horizon \in Nat /\ Timeout <= Horizon
        /\ Target \in Nat /\ Target <= Horizon
    BY ConfirmationAssumption
  <2>2. /\ last \in 0 .. Horizon
        /\ start \in 0 .. Horizon - Timeout + 1
        /\ current \in 0 .. Horizon + 1
    BY DEF ConfirmationInv, ConfirmationTypeOK
  <2> QED
    BY <2>1, <2>2
<1> USE DEF ConfirmationInv, ConfirmationTypeOK, RoundsCounted, Undecided, TimeoutWaits,
            VerdictStands, RoundReached
<1>2. CASE Send
  BY <1>2 DEF Send
<1>3. CASE Status
  <2>1. ConfirmationTypeOK'
    BY <1>1, <1>3 DEF Status
  <2>2. RoundsCounted' /\ Undecided'
    BY <1>1, <1>3 DEF Status
  <2>3. TimeoutWaits'
    BY <1>1, <1>3 DEF Status
  <2>4. VerdictStands' /\ RoundReached'
    BY <1>3 DEF Status
  <2> QED
    BY <2>1, <2>2, <2>3, <2>4
<1>4. CASE Poll
  BY <1>4 DEF Poll, Return, Raise
<1>5. CASE GiveUp
  <2>1. ConfirmationTypeOK'
    BY <1>1, <1>5 DEF GiveUp, Raise
  <2>2. RoundsCounted' /\ Undecided'
    BY <1>1, <1>5 DEF GiveUp, Raise
  <2>3. TimeoutWaits'
    BY <1>1, <1>5 DEF GiveUp, Raise
  <2>4. VerdictStands' /\ RoundReached'
    BY <1>5 DEF GiveUp, Raise
  <2> QED
    BY <2>1, <2>2, <2>3, <2>4
<1>6. CASE AfterBlock
  <2>1. ConfirmationTypeOK'
    BY <1>1, <1>6 DEF AfterBlock
  <2>2. RoundsCounted' /\ Undecided'
    BY <1>1, <1>6 DEF AfterBlock
  <2>3. TimeoutWaits'
    BY <1>1, <1>6 DEF AfterBlock
  <2>4. VerdictStands' /\ RoundReached'
    BY <1>6 DEF AfterBlock
  <2> QED
    BY <2>1, <2>2, <2>3, <2>4
<1>7. CASE Fetch
  BY <1>7 DEF Fetch
<1>8. CASE NodeFails
  BY <1>8 DEF NodeFails, Return, Raise
<1>9. CASE Resolve
  BY <1>9 DEF Resolve
<1>10. CASE NewRound
  <2>1. last' = last + 1 /\ last < Horizon
    BY <1>10 DEF NewRound
  <2>2. UNCHANGED <<tx, pc, start, current, waited, answer>>
    BY <1>10 DEF NewRound
  <2>3. /\ last' \in 0 .. Horizon /\ (current <= last + 1 => current <= last' + 1)
        /\ current <= last => current <= last'
        /\ last >= Target => last' >= Target
    <3> HIDE DEF ConfirmationInv
    <3> QED
      BY <1>1, <2>1
  <2>4. ConfirmationTypeOK'
    BY <2>2, <2>3
  <2>5. RoundsCounted' /\ Undecided'
    BY <2>2, <2>3
  <2>6. TimeoutWaits'
    BY <1>1, <2>1, <2>2
  <2>7. VerdictStands' /\ RoundReached'
    BY <2>2, <2>3
  <2> QED
    BY <2>4, <2>5, <2>6, <2>7
<1>11. CASE UNCHANGED confirmationVars
  BY <1>11 DEF confirmationVars
<1>12. CASE SendFails
  BY <1>12 DEF SendFails, Raise
<1>13. CASE BeginRounds
  <2>1. current' \in 0 .. Horizon + 1 /\ (pc' = "rounds" => current' <= last')
    <3> HIDE DEF ConfirmationInv
    <3> QED
      BY <1>1, <1>13 DEF BeginRounds
  <2>2. ConfirmationTypeOK'
    BY <2>1, <1>13 DEF BeginRounds
  <2>3. RoundsCounted' /\ Undecided'
    BY <2>1, <1>13 DEF BeginRounds
  <2>4. TimeoutWaits'
    BY <1>13 DEF BeginRounds
  <2>5. VerdictStands' /\ RoundReached'
    BY <2>1, <1>13 DEF BeginRounds
  <2> QED
    BY <2>2, <2>3, <2>4, <2>5
<1>14. CASE AfterRound
  <2>1. current' \in 0 .. Horizon + 1 /\ current' <= last' /\ pc' = "rounds"
    <3> HIDE DEF ConfirmationInv
    <3> QED
      BY <1>1, <1>14 DEF AfterRound
  <2>2. ConfirmationTypeOK'
    BY <2>1, <1>14 DEF AfterRound
  <2>3. RoundsCounted' /\ Undecided'
    BY <2>1, <1>14 DEF AfterRound
  <2>4. TimeoutWaits'
    BY <1>14 DEF AfterRound
  <2>5. VerdictStands' /\ RoundReached'
    BY <2>1, <1>14 DEF AfterRound
  <2> QED
    BY <2>2, <2>3, <2>4, <2>5
<1>15. CASE ReachRound
  <2>1. current <= last
    BY <1>15 DEF ReachRound
  <2>2. pc' = "reached" /\ last' >= Target
    <3> HIDE DEF ConfirmationInv
    <3> QED
      BY <1>1, <1>15, <2>1 DEF ReachRound
  <2>3. ConfirmationTypeOK'
    BY <2>2, <1>15 DEF ReachRound
  <2>4. RoundsCounted' /\ Undecided'
    BY <2>2, <1>15 DEF ReachRound
  <2>5. TimeoutWaits'
    BY <1>15 DEF ReachRound
  <2>6. VerdictStands' /\ RoundReached'
    BY <2>2, <1>15 DEF ReachRound
  <2> QED
    BY <2>3, <2>4, <2>5, <2>6
<1> QED
  BY <1>2, <1>3, <1>4, <1>5, <1>6, <1>7, <1>8, <1>9, <1>10, <1>11, <1>12, <1>13, <1>14, <1>15
  DEF ConfirmationNext, ClientStep

THEOREM ConfirmationInvariant == ConfirmationSpec => []ConfirmationInv
  BY ConfirmationInvInit, ConfirmationStep, PTL DEF ConfirmationSpec

(***************************************************************************)
(* The state of a call keeps its type.                                     *)
(***************************************************************************)
THEOREM ConfirmationTypes == ConfirmationSpec => []ConfirmationTypeOK
<1>1. ConfirmationInv => ConfirmationTypeOK
  BY DEF ConfirmationInv
<1> QED
  BY <1>1, ConfirmationInvariant, PTL

(***************************************************************************)
(* The wait does not give up before the node has made the rounds it waits  *)
(* for.                                                                    *)
(***************************************************************************)
THEOREM TimeoutNotEarly == ConfirmationSpec => []TimeoutWaits
<1>1. ConfirmationInv => TimeoutWaits
  BY DEF ConfirmationInv
<1> QED
  BY <1>1, ConfirmationInvariant, PTL

(***************************************************************************)
(* A verdict about the transaction is the chain's, from then on.           *)
(***************************************************************************)
THEOREM VerdictIsFinal == ConfirmationSpec => []VerdictStands
<1>1. ConfirmationInv => VerdictStands
  BY DEF ConfirmationInv
<1> QED
  BY <1>1, ConfirmationInvariant, PTL

(***************************************************************************)
(* wait_for_round does not return before the round it waits for.           *)
(***************************************************************************)
THEOREM RoundNotEarly == ConfirmationSpec => []RoundReached
<1>1. ConfirmationInv => RoundReached
  BY DEF ConfirmationInv
<1> QED
  BY <1>1, ConfirmationInvariant, PTL
=============================================================================
