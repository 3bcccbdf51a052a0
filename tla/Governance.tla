----------------------------- MODULE Governance -----------------------------
(***************************************************************************)
(* The contracts of a DAO together, as README.md (lines 58 to 107) puts    *)
(* them: the trust committee, the gate it votes through, the proposals and *)
(* the DAO, all on one chain.  Where AlgoDao takes the trusted proposals   *)
(* as given, here they are those whose account holds a unit of the gate's  *)
(* trust asset (proposal_trusted of governance.py).                        *)
(***************************************************************************)
EXTENDS PreapprovalGate, Sequences

CONSTANTS Assets, NoAsset, Issuer, Supply, Config, NoData, NumOptions, OptionArgs, MaxUint,
          Horizon, Completions, RuleInputs, CommitteeIds, Payees, MaxRules, MaxCommittees,
          MaxFunds

VARIABLES
    round, elec, voteAsset, allVotes, slots, passed, implemented,
    ballots,    \* the local state of the accounts in the proposals
    deleted, finalized, rules, committees, daoMembers, treasury, received

Dao == INSTANCE AlgoDao WITH
    Proposals <- Apps,
    voter     <- ballots,
    trusted   <- Trusted

ASSUME DaoAssumption == Dao!ProposalAssumption /\ Dao!AlgoDaoAssumption

daoOwnVars == <<deleted, finalized, rules, committees, daoMembers, treasury, received>>

\* The state of the contracts other than the committee and the gate.
daoStateVars ==
    <<round, elec, voteAsset, allVotes, slots, passed, implemented, ballots, daoOwnVars>>

governanceVars == <<gateAllVars, daoStateVars>>

GovernanceInit ==
    /\ CommitteeInit
    /\ GateInit
    /\ Dao!ProposalInit
    /\ Dao!DaoInit

\* The gate and the proposals count the same rounds.
RoundPasses ==
    /\ Dao!VoteTick
    /\ elapsed' = IF elapsed <= MinRounds THEN elapsed + 1 ELSE elapsed
    /\ UNCHANGED <<committeeVars, initialized, trust, considered, consideredAddr, yesVotes,
                   noVotes, inProgress, voter>>
    /\ UNCHANGED daoOwnVars

GateSide ==
    /\ UNCHANGED daoStateVars
    /\ \/ GateCall /\ UNCHANGED committeeVars
       \/ CommitteeNext /\ UNCHANGED gateVars

DaoSide ==
    /\ UNCHANGED gateAllVars
    /\ \/ Dao!DaoStep
       \/ Dao!ElsewhereImplemented
       \/ Dao!VoteCall /\ UNCHANGED daoOwnVars
       \/ \E amount \in 1 .. MaxFunds : Dao!FundDao(amount)

GovernanceNext == RoundPasses \/ GateSide \/ DaoSide

GovernanceSpec == GovernanceInit /\ [][GovernanceNext]_governanceVars
-----------------------------------------------------------------------------
(***************************************************************************)
(* The gate is what AlgoDao takes it for: seen from the DAO, each of its   *)
(* steps makes one proposal trusted, for good, or does nothing.            *)
(***************************************************************************)
ImplementsDao == Dao!DaoSpec

(***************************************************************************)
(* Money leaves the DAO only through the gate: for what a payee has got    *)
(* there is a proposal that pays it, whose account holds the unit of trust *)
(* frozen, to stay there, and which met its rule and passed.               *)
(***************************************************************************)
PaidThroughGate ==
    \A q \in Payees : received[q] > 0 =>
        /\ initialized /\ finalized
        /\ \E app \in Apps : /\ Dao!Granted(app).payee = q
                            /\ trust[app].frozen
                            /\ Dao!Qualifies(app)
=============================================================================
