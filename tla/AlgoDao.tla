------------------------------ MODULE AlgoDao ------------------------------
(***************************************************************************)
(* The AlgoDao contract of governance.py with the proposals it carries     *)
(* out.  Its creator writes the rules and finalizes the DAO; from then on  *)
(* anyone may send the group that implements a proposal that is trusted,   *)
(* obeys the rule for its type and has passed.                             *)
(*                                                                         *)
(* Each half of that group looks at the argument of the other one, and not *)
(* at its OnCompletion: with another than NoOp, a call that carries the    *)
(* argument does something else than the method of that name.              *)
(***************************************************************************)
EXTENDS Proposal, Sequences

CONSTANTS
    Completions,    \* the OnCompletion values that calls are sent with
    RuleInputs,     \* the rules "addrule" is called with
    CommitteeIds,   \* the committees "addcommittee" is called with
    Payees,         \* the accounts that proposals pay
    MaxRules,       \* how many rules fit in a value of the global state
    MaxCommittees,  \* how many committees do
    MaxFunds        \* bound of the model: what the DAO is ever funded with

\* Neither contract lets anyone update it.
OnComplete == {"NoOp", "OptIn", "CloseOut", "ClearState", "DeleteApplication"}

Rule == [type : ProposalType, data : VoteData]

Payment == [payee : Payees, amount : Nat]

\* A call: who signs it, and its OnCompletion.
Call == [by : People, completion : Completions]

ASSUME AlgoDaoAssumption ==
    /\ Completions \subseteq OnComplete
    /\ RuleInputs \subseteq Rule
    /\ MaxRules \in Nat /\ MaxCommittees \in Nat /\ MaxFunds \in Nat
    /\ IsFiniteSet(Payees) /\ NoData \notin Payment
    /\ \A prop \in Proposals : Config[prop].pay \in Payment \cup {NoData}

VARIABLES
    deleted,    \* the application is gone
    finalized,
    rules, committees,
    daoMembers, \* the accounts opted in to the DAO
    trusted,    \* the proposals whose account holds a unit of the trust asset
    treasury,   \* what the account of the DAO holds
    received    \* what each payee got from it

ownVars == <<deleted, finalized, rules, committees, daoMembers, trusted, treasury, received>>

daoVars == <<voteVars, ownVars>>

DaoTypeOK ==
    /\ deleted \in BOOLEAN
    /\ finalized \in BOOLEAN
    /\ rules \in Seq(RuleInputs) /\ Len(rules) <= MaxRules
    /\ committees \in Seq(CommitteeIds) /\ Len(committees) <= MaxCommittees
    /\ daoMembers \subseteq People
    /\ trusted \subseteq Proposals
    /\ treasury \in 0 .. MaxFunds
    /\ received \in [Payees -> 0 .. MaxFunds]

DaoInit ==
    /\ deleted = FALSE
    /\ finalized = FALSE
    /\ rules = <<>>
    /\ committees = <<>>
    /\ daoMembers = {}
    /\ trusted = {}
    /\ treasury = 0
    /\ received = [q \in Payees |-> 0]
-----------------------------------------------------------------------------
(***************************************************************************)
(* What else a call does that the DAO approves: it finds its method by the *)
(* argument alone (governance.py:229 to 237), so that a call of any method *)
(* may opt its sender in to the DAO or out of it.                          *)
(***************************************************************************)
Completed(call) ==
    \/ call.completion = "NoOp" /\ UNCHANGED daoMembers
    \/ /\ call.completion = "OptIn"
       /\ call.by \notin daoMembers
       /\ daoMembers' = daoMembers \cup {call.by}
    \/ /\ call.completion = "CloseOut"
       /\ call.by \in daoMembers
       /\ daoMembers' = daoMembers \ {call.by}

SetupPhaseApproved(caller) == ~deleted /\ ~finalized /\ caller = Creator

AddCommittee(call, id) ==
    /\ SetupPhaseApproved(call.by)
    /\ Len(committees) < MaxCommittees
    /\ committees' = Append(committees, id)
    /\ Completed(call)
    /\ UNCHANGED <<voteVars, deleted, finalized, rules, trusted, treasury, received>>

\* Mutant of AddRule: the rule goes in front of the others.
AddRuleInFront(call, rule) ==
    /\ SetupPhaseApproved(call.by)
    /\ Len(rules) < MaxRules
    /\ rules' = <<rule>> \o rules
    /\ Completed(call)
    /\ UNCHANGED <<voteVars, deleted, finalized, committees, trusted, treasury, received>>

AddRule(call, rule) ==
    /\ SetupPhaseApproved(call.by)
    /\ Len(rules) < MaxRules
    /\ rules' = Append(rules, rule)
    /\ Completed(call)
    /\ UNCHANGED <<voteVars, deleted, finalized, committees, trusted, treasury, received>>

Finalize(call) ==
    /\ SetupPhaseApproved(call.by)
    /\ finalized' = TRUE
    /\ Completed(call)
    /\ UNCHANGED <<voteVars, deleted, rules, committees, trusted, treasury, received>>

\* can_delete: nothing ever sets Closed, so only during the setup.
DeleteDao(caller) ==
    /\ SetupPhaseApproved(caller)
    /\ deleted' = TRUE
    /\ UNCHANGED <<finalized, rules, committees, daoMembers, trusted, treasury, received>>

\* ClearState: the program for it approves whatever it is sent, also once the DAO is deleted.
ClearDao(caller) ==
    /\ caller \in daoMembers
    /\ daoMembers' = daoMembers \ {caller}
    /\ UNCHANGED <<deleted, finalized, rules, committees, trusted, treasury, received>>

\* find_rule: the first rule for a type is the one that counts.
FindsRule(type, i) ==
    /\ i \in DOMAIN rules
    /\ rules[i].type = type
    /\ \A j \in 1 .. i - 1 : rules[j].type # type

\* proposal_meets_criteria, with satisfies_rule: the vote data equal the rule.
MeetsCriteria(prop) ==
    \E i \in DOMAIN rules : /\ FindsRule(Config[prop].type, i)
                            /\ Config[prop].data = rules[i].data

(***************************************************************************)
(* implement_proposal: only a payment does anything, and it needs the data *)
(* that name its payee and the funds.                                      *)
(***************************************************************************)
Pays(prop) == Config[prop].type = "PAYMENT"

\* Mutant of CanPay: the funds are not checked.
CanPayUnfunded(prop) == Pays(prop) => Config[prop].pay # NoData

CanPay(prop) ==
    Pays(prop) => /\ Config[prop].pay # NoData
                  /\ Config[prop].pay.amount <= treasury

Pay(prop) ==
    IF Pays(prop)
    THEN LET pay == Config[prop].pay IN
         /\ treasury' = treasury - pay.amount
         /\ received' = [received EXCEPT ![pay.payee] = @ + pay.amount]
    ELSE UNCHANGED <<treasury, received>>

\* Mutant of ImplementProposal: the DAO need not be finalized.
ImplementInSetup(call, prop) ==
    /\ ~deleted
    /\ prop \in trusted
    /\ MeetsCriteria(prop)
    /\ passed[prop]
    /\ CanPay(prop)
    /\ Pay(prop)
    /\ Completed(call)
    /\ UNCHANGED <<deleted, finalized, rules, committees, trusted>>

\* Mutant of ImplementProposal: the result of the vote is not asked for.
ImplementAnyResult(call, prop) ==
    /\ ~deleted
    /\ finalized
    /\ prop \in trusted
    /\ MeetsCriteria(prop)
    /\ CanPay(prop)
    /\ Pay(prop)
    /\ Completed(call)
    /\ UNCHANGED <<deleted, finalized, rules, committees, trusted>>

\* "implementproposal": whether the proposal is implemented already, the DAO does not read.
ImplementProposal(call, prop) ==
    /\ ~deleted
    /\ finalized
    /\ prop \in trusted
    /\ MeetsCriteria(prop)
    /\ passed[prop]
    /\ CanPay(prop)
    /\ Pay(prop)
    /\ Completed(call)
    /\ UNCHANGED <<deleted, finalized, rules, committees, trusted>>

\* A call of the DAO with the argument "implementproposal": to clear or delete, it reads none.
FirstHalf(first, prop) ==
    \/ ImplementProposal(first, prop)
    \/ first.completion = "ClearState" /\ ClearDao(first.by)
    \/ first.completion = "DeleteApplication" /\ DeleteDao(first.by)

\* A call of the proposal with the argument "setimplemented": only NoOp reads it.
SecondHalf(second, prop) ==
    \/ second.completion = "NoOp" /\ SetImplemented(prop, TRUE)
    \/ second.completion = "OptIn" /\ Register(second.by, prop)
    \/ second.completion \in {"CloseOut", "ClearState"} /\ CloseOut(second.by, prop)

(***************************************************************************)
(* The group of call_implementproposal, signed and completed in any way:   *)
(* "implementproposal" to the DAO, then "setimplemented" to the proposal.  *)
(* Both halves happen or neither.                                          *)
(***************************************************************************)
ImplementGroup(first, second, prop) == FirstHalf(first, prop) /\ SecondHalf(second, prop)

(***************************************************************************)
(* What happens around the DAO: the gate makes a proposal trusted, and     *)
(* does not go back on it; an account funds the DAO.                       *)
(***************************************************************************)
GrantTrust(prop) ==
    /\ prop \notin trusted
    /\ trusted' = trusted \cup {prop}
    /\ UNCHANGED <<voteVars, deleted, finalized, rules, committees, daoMembers, treasury,
                   received>>

\* The payees are paid by the DAO alone, so what is left to fund shrinks with it.
FundDao(amount) ==
    /\ treasury + SumFunctionOnSet(received, Payees) + amount <= MaxFunds
    /\ treasury' = treasury + amount
    /\ UNCHANGED <<voteVars, deleted, finalized, rules, committees, daoMembers, trusted,
                   received>>

DaoStep ==
    \/ \E call \in Call :
          \/ \E id \in CommitteeIds : AddCommittee(call, id)
          \/ \E rule \in RuleInputs : AddRule(call, rule)
          \/ Finalize(call)
    \/ \E p \in People : (DeleteDao(p) \/ ClearDao(p)) /\ UNCHANGED voteVars
    \/ \E first \in Call, second \in Call, prop \in Proposals :
          ImplementGroup(first, second, prop)

\* A proposal of another DAO is implemented there.
ElsewhereImplemented ==
    \E prop \in Proposals : SetImplemented(prop, FALSE) /\ UNCHANGED ownVars

DaoNext ==
    \/ DaoStep \/ ElsewhereImplemented
    \/ (VoteCall \/ VoteTick) /\ UNCHANGED ownVars
    \/ \E prop \in Proposals : GrantTrust(prop)
    \/ \E amount \in 1 .. MaxFunds : FundDao(amount)

DaoSpec == ProposalInit /\ DaoInit /\ [][DaoNext]_daoVars
-----------------------------------------------------------------------------
DaoTypes == ProposalTypeOK /\ DaoTypeOK

Qualifies(prop) == prop \in trusted /\ passed[prop] /\ MeetsCriteria(prop)

Granted(prop) ==
    IF Pays(prop) /\ Config[prop].pay # NoData
    THEN Config[prop].pay
    ELSE [payee |-> CHOOSE q \in Payees : TRUE, amount |-> 0]

\* What a proposal may still be paid with: the mark it does not have yet, and registrations.
Chances(prop) ==
    Cardinality({p \in People : voter[prop][p].optedin}) + (IF implemented[prop] THEN 0 ELSE 1)

MayPay(prop, q) ==
    IF passed[prop] /\ Granted(prop).payee = q THEN Granted(prop).amount * Chances(prop) ELSE 0

\* What a payee may still get from the proposals that have passed.
MayGet(q) == SumFunctionOnSet([prop \in Proposals |-> MayPay(prop, q)], Proposals)

RegistrationsClose == \A prop \in Proposals : Config[prop].regEnd <= Config[prop].voteEnd

(***************************************************************************)
(* How often a proposal pays.  That Implemented is zero (voting.py:260) is *)
(* asked by a NoOp of the proposal alone, and the group may hold another   *)
(* call of it, so a proposal may pay more than once.  Where nobody         *)
(* registers once the vote is over, every payment uses up the mark of      *)
(* being implemented or one of the registrations: what a payee got and may *)
(* still get only grows as further proposals pass.  So a proposal with     *)
(* which nobody is registered when its vote is over pays once, and another *)
(* one more time for each who is.                                          *)
(***************************************************************************)
PaymentsBounded ==
    [][UNCHANGED passed /\ RegistrationsClose =>
          \A q \in Payees : received'[q] + MayGet(q)' <= received[q] + MayGet(q)]_daoVars

(***************************************************************************)
(* Who marks a proposal implemented that is not in order: the mark follows *)
(* the DAO's own calls, so that as long as no proposal at all is in order, *)
(* only the creator, who opted in during the setup or deletes the DAO,     *)
(* gets a proposal of this DAO marked.                                     *)
(***************************************************************************)
MarksFollowApproval ==
    [][\A prop \in Proposals :
          /\ implemented'[prop] /\ ~implemented[prop] /\ Config[prop].dao
          /\ Creator \notin daoMembers /\ ~deleted'
          => finalized /\ \E other \in Proposals : Qualifies(other)]_daoVars

(***************************************************************************)
(* The rule for a type is settled when it is first written: no later call  *)
(* changes what a proposal of that type must meet, setup included.         *)
(***************************************************************************)
RulesSettled ==
    [][\A i \in DOMAIN rules :
          /\ rules'[i] = rules[i]
          /\ FindsRule(rules[i].type, i) => FindsRule(rules[i].type, i)']_daoVars

(***************************************************************************)
(* The DAO implements Disbursement, whatever groups are sent: a proposal   *)
(* is eligible once the DAO runs and the proposal qualifies, and money     *)
(* leaves the DAO as the whole grant of an eligible one and to its payee.  *)
(***************************************************************************)
Abstract == INSTANCE Disbursement WITH
    Candidates <- Proposals,
    Grant      <- [prop \in Proposals |-> Granted(prop)],
    phase      <- IF deleted THEN "deleted" ELSE IF finalized THEN "running" ELSE "setup",
    eligible   <- IF finalized THEN {prop \in Proposals : Qualifies(prop)} ELSE {},
    funds      <- treasury

ImplementsDisbursement == Abstract!DisbursementSpec
=============================================================================
