# A verification of AlgoDao

AlgoDao (`src/`) is a DAO for Algorand written in PyTeal: Python classes build
the TEAL programs of five contracts and a small client library sends the calls.
This directory models the contracts, the Merkle tree, the client's waiting and
the end-to-end script in TLA+, checks them with TLC on small instances, and proves
the safety properties with TLAPS for every value of the constants.

## 1. The system

### Components

| component | state | operations |
|---|---|---|
| `Committee` contract (`committee.py:117-233`) | `AssetId`, `MaxMembers`; the ledger of the membership asset | `inittoken`, `setmembers`, `resign`, `checkmembership`, `optintoken`; opt-in, close-out |
| `PreapprovalGate` (`governance.py:352-580`) | considered application, `YesVotes`, `NoVotes`, `VotingStartRound`, `VoteInProgress`; per account `VotedAppId`, `Vote`; the ledger of the trust asset | `inittoken`, `assessproposal`, `vote`; opt-in, close-out, clear |
| `Proposal` (`voting.py:71-307`) | rounds, vote asset, `AllVotes` under the bytes of each option, `Passed`, `Implemented`; per account `Voted` likewise; its deposits | registration, `optintoken`, `setvotetoken`, `vote`, `finalizevote`, `setimplemented`; close-out, clear |
| `AlgoDao` (`governance.py:134-245`) | `Finalized`, `Closed`, committees, rules, the treasury; the accounts opted in | `addcommittee`, `addrule`, `finalize`, `implementproposal`, delete; opt-in, close-out, clear |
| `TokenDistributionTree` (`assets.py:58-245`) | root hash, rounds, `AssetId`; the ledger of the election token | `inittoken`, `optintoken`, `claim`, delete, update |
| `MerkleTree` (`merkle.py`) | the tree | construction, `createproof` |
| client (`contract.py`, `helpers.py`) | a call under way | `call_method`, `wait_for_confirmation`, `wait_for_round` (the same loop in `deploy.py:29-35`) |
| `Election` (`voting.py:381-420`) | none | reads the indexer into a snapshot of the governance token |
| end-to-end script (`scripts/end2end.py`) | the ids and the distribution it read, the calls it has yet to make | creates everything above, votes a payment through and has it paid |
| `createasset` (`assets.py`) | none | the governance token; metadata and its hash |
| `deploy.py` otherwise, `types.py`, `NftCheckProgram` | none | compilation, formatting, declarations, a testing contract nothing deploys |

### How they interact

A trust committee votes in the gate. The gate reads the committee's `AssetId`
and size at every call (`governance.py:446-453`) and, on a majority, sends one frozen
unit of the trust asset to the address that was put up with the application. Voters get
election tokens from the distribution tree against a Merkle proof the client
builds, and deposit them in a proposal. Anyone has the proposal's result
computed once the rounds are over. Anyone sends the group `implementproposal` of
the DAO and `setimplemented` of the proposal: the DAO checks in the other
contracts' state that the proposal is trusted, obeys the rule for its type and
passed, and pays; the proposal checks that it is called with its own DAO and was
not implemented before. Each half is found by its argument alone, so that what
runs depends on how the sender has the other half completed (see below).

### What is hard

There are no threads: the chain executes transaction groups one at a time, each
whole or not at all. The difficulty is in the order in which many accounts send
groups, each of which finds the state the others left:

- the gate's tallies outlive the vote, the ballots in local state and the
  members that cast them;
- membership, trust and election tokens are units of assets that accounts can
  move on their own, and freezing is all that stops them;
- `resign` and `implementproposal` are halves of groups whose other half is only
  partly examined: the DAO reads the argument `setimplemented` of the second
  transaction and the proposal the argument `implementproposal` of the first, and
  neither its OnCompletion, although a close-out, an opt-in, a clear or a deletion
  is approved before, or without, a look at the arguments;
- the gate takes any id to vote on, 0 included, which is also what an account that
  has not voted has as its last one, and any address to send the unit to;
- a vote is kept under the bytes of its option, of which only the value is
  checked, in a global state with room for a fixed number of keys;
- the order of rounds: registering, voting, computing a result, late or twice;
- the client retries after a wait that may end without an answer;
- the script makes its calls one after another, with ids and holdings it read
  earlier, while anyone else may call the same contracts in between;
- fourteen of those calls have to fit in the forty rounds that count from a round
  read before them;
- the snapshot lists every account that opted in to the governance token, with
  or without a unit, and the tree depends on how many they are and in which order;
- integers: subtraction below zero and overflow refuse a call, division rounds
  down, the tree's depth is computed with the natural logarithm.

### What makes each component correct

- Committee: the size computed from the reserve counts the members; membership
  is one frozen unit; a member can resign; nobody joins a committee with members.
- Gate: each yes is in its tally, and each ballot where nobody has the gate vote
  on the id 0; trust is conserved, frozen and permanent; an ended vote is settled;
  the gate is not locked; a majority makes trust.
- Proposal: votes are backed by deposits, no unit votes twice, a result is final.
- DAO: money leaves only for proposals that are trusted, meet their rule and
  passed, for each at most once for its mark and once for each registration with
  it; no mark without the DAO's approval of a proposal, but for the creator's
  clear or deletion; the rules are settled.
- Tree: an account is paid its share, once; every voter can claim.
- Client: the wait ends, not too early, and tells the truth.
- Script: the payment is made unless someone gets in the way in a known manner,
  and nobody can after the client has voted.

## 2. The modules

| module | models |
|---|---|
| `Asa` | an asset's ledger as a function, the guards and results of its transfers and freezes, and the helpers of `committee.py` built on them |
| `Committee` | the Committee contract and plain transfers of its asset |
| `PreapprovalGate` | extends `Committee` with the gate that reads it |
| `Proposal` | several proposals and election tokens |
| `Disbursement` | abstract: what the DAO promises about its money |
| `AlgoDao` | extends `Proposal` with the DAO; refines `Disbursement` |
| `Governance` | `PreapprovalGate` and an instance of `AlgoDao` on one chain; refines `AlgoDao` |
| `Merkle` | building a tree, its levels, proofs and their verification |
| `DistributionTree` | the distribution contract over `Asa` and `Merkle` |
| `EndToEnd` | extends `Governance` with an instance of `DistributionTree`, the governance token and the script, and what others may do meanwhile; refines `Governance` |
| `Confirmation` | one call by the client against the node, and the wait for a round |
| `AsaProofs` | induction over numbers and finite sets, the laws of sums, and theorems about `Asa` |
| `CommitteeProofs`, `GateProofs`, `ProposalProofs`, `DaoProofs`, `TreeProofs`, `ConfirmationProofs` | theorems about `Committee`, `PreapprovalGate`, `Proposal`, `AlgoDao`, `DistributionTree` with `Merkle`, `Confirmation` |
| `GovernanceProofs` | theorems about `Governance` and `EndToEnd` |
| `MC...` | instances for TLC |

One action is one transaction group: its guard is the conjunction of the
contract's assertions and of what the chain demands of the inner and grouped
transactions, since a failure anywhere takes everything back. A call that fails,
or changes nothing, is a stuttering step. An operator preceded by the comment
"Mutant of ..." is a version of the operation with a plausible fault in it; no
specification uses it. It is there to show that the property checked does
depend on the operation.

In `EndToEnd` the tree pays from the very ledger the proposals count in: the
instance of `DistributionTree` has `elec` for its `ledger`, and the account of the
tree is the `Issuer` of the proposals' election token. An election token is
therefore given out, claimed, deposited and counted in one piece of state. The
client's own steps are those of the components' actions with the arguments the
script passes; a call that would be refused is not enabled, and the client, which
raises, stays there.

State and code correspond by name (`considered` is `ConsideredAppId`,
`consideredAddr` is `ConsideredAppAddr`, `inProgress` is `VoteInProgress`, and so
on). Six abstractions deserve a word.

- An asset id or an application id also stands for its address. `Committee`
  keeps the ledger of the current asset only: after another `inittoken` nothing
  in the contracts reads the older one.
- `elapsed` in the gate is the number of rounds since `VotingStartRound`, kept
  only as far as the comparison at `governance.py:471` distinguishes.
- A hash is a record of what was hashed, so that equal hashes have equal inputs.
- The argument of an option is a pair, the option and the number of bytes it is
  written in (`OptionArgs`): the pair is the key of the tally and of the local
  record, and the option is all that is checked. The client writes eight bytes
  (`YesKey`, `NoKey`), which is also what `finalizevote` reads. `slots` has the keys
  with a value in the global state, as many as the schema allows for.
- A call of the DAO or of a proposal is its sender and its OnCompletion
  (`Call`). `FirstHalf` and `SecondHalf` say what each half of the implementing
  group does under each; a half that reads no argument is the opt-in, close-out,
  clear or deletion it is.
- `EndToEnd` counts rounds from the last round the script reads; before that they
  play no part. `round` is the first one the next transaction can be in.

### Assumptions about the environment

- Groups have two transactions, as the client library builds them, in any form:
  from any accounts, and with any OnCompletion of both halves of the implementing
  group. In `resign` and `vote` the transaction that is not a call of the contract
  is a transfer by an ordinary account, which need not be the caller, because the
  contracts do not compare them.
- Accounts are ordinary: they do not close a holding (`close_to`) or rekey.
  Minimum balances and fees are left out.
- The gate may vote on any id and send the unit to any account that opted in to
  the trust asset (`Receivers`: the applications of `Apps` and `Others`). An
  application that the DAO implements is an honest Proposal, deployed by the
  client library: its schema has eleven integers and one for each option, all
  eleven are written at its creation, and so there is room for exactly
  `NumOptions` keys of votes. It holds its unit (it cannot move it, the unit is
  frozen). Proposals are created by one account.
- Another DAO exists only as far as it may implement a proposal of its own
  (`ElsewhereImplemented`).
- The client of the tree passes `optintoken` the asset of its own last `inittoken`.
  With several client objects that may be an older asset than the current one,
  which then comes back: both are modelled, other assets are not.
- `optintoken` of the committee begins an inner transaction and never submits it
  (`committee.py:166-173`), so it is a step without effect.
- `status_after_block` answers once the node has the block. The indexer lists the
  holders on one page and up to date (`voting.py:413` reads one page), in an order
  that does not change (`Addresses`).
- In `EndToEnd` the others leave out what changes nothing or is not read again:
  claims of no units, opting in to the governance token after the snapshot, opting
  in to other assets. They have no units to vote or to send. The gate object names
  the committee's asset as its client knew it; where the client is still a member
  that is the asset of now.
- `ScriptAssumption` of `EndToEnd` is what the script passes: the proposal is
  created with the rounds and the percentage its payment rule asks for, there is
  a seat on the committee and a unit of trust, a hundred times the supply is an
  integer of the chain, the calls it makes are NoOps, and the fourteen calls
  between reading the round and the vote fit in the voting rounds (40) at `MaxLag`
  rounds a call. Only the last can fail of a real run: the code takes no care of
  it.

## 3. What TLC checks

All runs set `CHECK_DEADLOCK FALSE`: rounds, assets and funds are bounded in the
models, and a DAO that has done everything may stop.

**committee** — five accounts, three seats, three assets. More people than seats,
more than the four accounts one call can name, room for two elections and for an
asset replaced while it has members. `SizeCountsMembers`, `MembershipFrozen`,
`CanResign`, `JoinsEmptyCommittee`. Accounts other than the
creator are symmetric.

**gate** — a committee of two, two applications and the id of none, any address
put up with each, one trust unit (so that the supply runs out), tallies up to two.
With two seats one yes is not a majority, and with one member it is.

- `YesVotesCovered` and `BallotsCovered` are why the subtractions at
  `governance.py:498-499` and `563-564` do not fail, through re-votes, close-outs and
  an application put up again. For the yes tally that is so whatever is put up:
  an account without a vote reads as one that voted no. The no tally covers its
  ballots only while the gate never votes on the id 0: the code takes any id
  (`governance.py:477`), 0 is also the last one of an account that never voted, and
  the branch at lines 493-500, which by its comment rescinds the vote of a user who
  "has already voted on this proposal", then takes back a ballot that nobody gave.
  TLC shows it when `TallyCoversBallots` is taken for an invariant. `CountsEachOnce`
  has the same condition.
- `TrustAccounting` and `TrustPermanent` are about the asset. The receiver of a unit is
  the address put up, which the contract does not relate to the id
  (`governance.py:478`), so the unit may go to another account than the application
  voted on, against the docstring at lines 362-366; the accounts entrusted and the
  reserve still hold the supply, one frozen unit each. Nothing takes a unit
  back, although `README.md:106-107` of the repository says the gate can.
- `SettledVote` is about late votes and accounts that leave; `CountsEachOnce` is about
  voting again, leaving and coming back (a call repeated because its answer was
  lost): while a vote runs, the tallies and the set of accounts with a ballot on the
  application change by the same number.
- `GateNeverLocked` is the liveness property below. No symmetry, because of it.

**gate_stale_tally** (a violation of `TrustByMajority`) — `assessproposal` leaves
the tallies of the last application in place, so the next one needs fewer votes.
Members who resign leave their votes in the tally too, and the majority is one
of the committee as it is then.

**proposals_shared** — two proposals with overlapping rounds and one election
token of one unit, which the second names only later; `NoDoubleVoting`.
**proposal_token** — one proposal, two tokens of two units to choose from, a yes
written in eight bytes or in one, and 60 percent asked for, which is one vote of
two after rounding down; `VotesBacked`, `RecordsWithinTally` and `PassedSound`. The
two are separate because two proposals with two tokens are too many states, and
each question needs only one of the two. A product that overflows refuses the
finalization: with votes this few none does, and the theorem of `PassedSound` is for
any `MaxUint`. The votes under a key the result does
not read count for nothing, and are backed and recorded like the others.

`PassedSound` says as much as the code gives: the percentage is met up to less
than one vote. `scripts/end2end.py:72-74` asks for 60 percent, yet 60 percent of
one vote is 0 (`voting.py:67`), so a proposal with a single No vote passes, as does
one without any vote.

**dao** — a payment that may be registered with in the first round and a payment
that belongs to another DAO; up to two rules out of three, two of which are for
one type; up to three units of funds; two accounts, the creator and another, which
send the implementing group with any OnCompletion of its halves, opt in to the DAO
and out of it, and register. Nobody votes here, so that proposals pass once their
rounds are over.

- `PaymentsBounded`: the DAO reads the argument of the second half and not its
  OnCompletion (`governance.py:203-213`), and the proposal approves a close-out, an
  opt-in or a clear before it comes to `setimplemented` (`voting.py:266-277`), so a
  proposal may pay without being marked, and again, and so may one of another DAO.
  What holds is the bound: every payment after the rounds uses up the
  mark or one of the registrations with the proposal. With nobody registered that
  is once, as the assertion at `voting.py:260` intends.
- `MarksFollowApproval`: the other way round, `setimplemented` reads the argument of
  the first half and not its OnCompletion (`voting.py:258-259`), so a clear or a
  deletion of the DAO that carries it marks a proposal that was neither checked nor
  paid, against `README.md:162-164` of the repository. To clear one must have
  opted in, which the DAO approves only with a call it carries out: the property
  says that a mark comes with the approval of some proposal, now or earlier, or
  from the creator, who may opt in or delete during the setup.
- `RulesSettled`, and `ImplementsDisbursement`, the refinement of the abstract
  specification. There a proposal is eligible once the DAO runs and the proposal
  qualifies, eligibility is for good, and every payment is one whole grant of an
  eligible proposal to its payee.

**end_to_end** — the script with its client, one stranger who may call every
contract, and three accounts listed before and after the client that may opt in
to the governance token. One client asset and one of the stranger's for the
committee, one proposal, two units of the election token, one round for each
call, and fourteen rounds to vote in: the fourteen calls between reading the round
and the vote just fit, as the script's forty rounds fit two for each call. The
stranger may vote with no units, in any bytes, and send the implementing group in
any form.

- `ScriptPays`: the proposal is paid, or one of four things got in the way:
  someone created the gate's trust asset first (`TrustTokenTaken`,
  `governance.py:425`), replaced the committee's asset before the client voted
  (`CommitteeReplaced`), opted in to the governance token such that the tree
  cannot be built or the client's proof fails (`TreeSpoiled`), or used up the room
  for votes with votes of no units in other bytes (`SlotsTaken`,
  `voting.py:209-220`). Each of the four is needed: without it TLC finds a run that
  is never paid. With more rounds for a call than fit the property fails, as
  the proposal can be voted on only in the rounds counted from the one read.
- `VoteSettles`: once the client has voted, the payment is made whatever the
  stranger does: computing the result, implementing the proposal, in any form of
  the group, or replacing the committee before the client gets there included. The
  stranger can only bring the payment forward: to close out of the proposal in the
  group pays, and to clear the DAO's state in it needs an opt-in that the DAO
  approves with a payment only.
- `CallsAccepted` and `PaymentAssured` say why, state by state. Unless someone got
  in the way, what the contract demands of the call the client makes next holds,
  deadlines included, whatever the stranger has done and does meanwhile; and once
  the client has voted, trust, the rule, a yes that can be computed and the funds are
  there, and the proposal is not marked, until the payment is made. The bounds of the model (`MaxFunds`, `MaxTally`,
  `Horizon` and so on) are not among those demands.
- `ImplementsGovernance`: the script and those around it make no step that the
  composition of the contracts does not allow, so that what is proved of
  `Governance` holds here; the election tokens that enter the voting come from the
  ledger of the tree.
- `ImplementsDao` and `PaidThroughGate`, of `Governance`: the trusted proposals
  `AlgoDao` takes as given are what the gate makes, and a payment leaves the DAO only
  for a proposal that holds the frozen unit.

**tree** — snapshots of sixteen voters and every smaller size that has a tree (1,
2, 3, 4, 8; `math.log` at `merkle.py:44` gives the others a number of leaves that
cannot be halved down to pairs, and the assertion at line 61 fails). Two voters
and an outsider act, under any voter's arguments; the creator may make two assets
of two units, bring the first one back, delete the contract or replace its
program. `OwnShareOnly`: an account is paid its own count, whole, any number of
times, of each asset. `AcceptsInPlace` characterises the claims the contract
accepts: `_buildtree` splits leaves by parity, so the place of a leaf from left to
right is not its index, and a proof is accepted only where the two agree and the
proof is as long as the tree is high (it is not with sixteen voters). The accounts
that act include voters in and out of place.

**tree_proofs** (a violation of `EveryVoterVerifies`) and **tree_two_claims** (of
`ClaimsOnce`) show the two consequences for a small tree: with three or four voters,
whose trees both have four leaves, the proofs of the two leaves in the middle
fail; and a voter is paid twice.

**committee_reinit** (a violation of `LeavesByResigning`) — anyone may call
`inittoken` again, and the new asset has no members.

**confirmation** — the timeout of four rounds the code has by default, twice as many
rounds, a node that may fail at every question, and a transaction that may be
confirmed or rejected at any point or never. The node may have the transaction
although sending it failed, and every later question may fail. `TimeoutWaits`,
`VerdictStands`; `RoundReached`, that `wait_for_round`, which the script calls next
with round 7, does not return before the node has that round; `CallReturns`,
that both come to an end. When the node fails once, the wait returns `None` to
`call_method`, which goes on (`helpers.py:40-41`), although its docstring has it
return the information or raise: the outcome `"nothing"` of the model, which no
property forbids. `VerdictStands` is about the verdicts there are.

### Fairness

- `GateFairness` is weak fairness of a round passing. The chain makes rounds
  whether or not anyone calls the gate; no call is assumed to be made.
- `ConfirmationSpec` is weakly fair to rounds and to the client's own steps (a
  program that is not blocked goes on). It is not fair to the transaction being
  resolved nor to the node failing.
- `EndToEndSpec` is weakly fair to the client's next call (a program goes on unless
  its call is refused) and to a round passing where the client waits for one. It is
  not fair to anyone else.

### Bounds

`MaxTokens`, `MaxTally`, `Horizon`, `MaxAssets`, `MaxClaimed`, `MaxFunds` and `MaxLag`
bound the models and nothing in the code. `MaxTxnAccounts`, `MaxRules` and
`MaxCommittees` are limits of the chain (accounts of a call, size of a value in
global state). `MaxMembers`, `TrustTotal`, `Supply`, `MinRounds`, `VotingRounds`, `Timeout`
and `Target` are parameters of the deployment or of the call. `MaxUint` stands for 2^64 - 1.
`Completions` has the OnCompletions and `OptionArgs` the arguments that the calls of a run
use; the theorems hold for any of them that contain what the client sends.

## 4. What is proved

Every theorem below holds for all values of the constants that satisfy the named
assumptions of its module (`CommitteeAssumption`, `GateAssumption`, ...), which TLC
evaluates in the runs. The assumptions ask for what the code or the chain gives:
finitely many people, proposals and payees; counts and rounds that are natural
numbers; a snapshot that names each account once, as a dictionary does, and has no
more than the 54 entries for which `PowersOfE` is exact; a script whose inputs are
among those `Governance` takes.

Most are the properties that the runs check on a small instance. The others say
that a composition leaves a component as it is, or carry a result over to one.

### Induction and sums (`AsaProofs`)

Sums over accounts and proposals are folds, and the tree and its proofs are
recursive functions. What is proved of them goes by induction: `SetInduction` and
`NatSetInduction` state it with the set of what is good, and rest on the well-founded
orders of the library (`WFMin`). A fold or a recursive function is a CHOOSE of a
function that satisfies its equation; the first step is always that one exists
(`SumsExist`, `NodesExist`, `RunningExists`, `OrderExists`, `ListsExist`). From that
come the laws of sums that the other modules use: `SumSplit`, `SumMonotone`,
`SumUpdate`, `SumMember`. `TransferConserves` is the first use: a transfer that the
chain accepts leaves the units of an asset as many as they were, one from an account
to itself included.

### The committee (`CommitteeProofs`)

- `CommitteeTypes`: `CommitteeSpec => []CommitteeTypeOK`;
- `SizeIsMembers`: `CommitteeSpec => []SizeCountsMembers`;
- `MembershipStaysFrozen`: `CommitteeSpec => []MembershipFrozen`;
- `JoinsOnlyEmpty`: `CommitteeSpec => JoinsEmptyCommittee`;
- `MembersResign`: `CommitteeSpec => []CanResign`.

None of the invariants is inductive alone. Transfers preserve that a member has
one unit because the unit is frozen, freezing is preserved because a thawed unit
leaves in the same group, and the size counts members because each has one. The
inductive invariant `CommitteeInv` is their conjunction with the types and with
what relates the reserve to the members; the lemmas show it step by step for
each action, with the cardinality facts of the library for `setmembers` and
`resign`. The action property follows from it: `setmembers` needs a full reserve,
hence an empty committee, and no other step adds a member. `CanResign` says that the
guards of `Resign`, which are `MayResign`, hold of the group that `call_resign` builds,
and that the member is none afterwards.

### The gate (`GateProofs`)

- `GateReadsCommittee`: `GateSafety => CommitteeSpec`, so that the theorems above hold
  of the committee of a gate;
- `GateTypesHold`: `GateSafety => []GateTypes`;
- `YesVotesAreCovered`: `GateSafety => []YesVotesCovered`;
- `BallotsAreCovered`: `GateSafety => BallotsCovered`;
- `TrustIsConserved`: `GateSafety => []TrustAccounting`;
- `TrustNeverTakenBack`: `GateSafety => TrustPermanent`;
- `EndedVoteSettled`: `GateSafety => SettledVote`;
- `VotesCountOnce`: `GateSafety => CountsEachOnce`.

`GateSafety` is `GateSpec` without the fairness of the rounds. None of these needs it,
and stated so they apply to the gate among the other contracts.

`GateInv` has two halves. About votes, `YesVotesCovered`: a yes that is taken back was
recorded as one, so the set of accounts with a yes and the tally shrink together
(`RescindCovers`), and an account without a vote reads as one with a no, whatever the
id under vote. `BallotsAreCovered` and `VotesCountOnce` are about behaviours in which
the id under vote is never 0 (`NotOnZero`): there `VotedOn` holds only of accounts that
did vote, and both sets of ballots stay within their tallies (`GateVoteBallots`,
`LeaveGateBallots`). About trust (`TrustUnits`, `TrustReserve`): whatever the address, an
account holds one unit at most and a unit is frozen, so the gate can send a unit
only to a receiver without one (`EntrustReceiver`, `EntrustInv`), and the set of accounts
entrusted grows by one as the reserve shrinks by one. A unit sent to the gate itself
(`EntrustGate`) changes nothing but the flag of its holding. The set of receivers need
not be finite: the ones entrusted are.
`VotesCountOnce` follows `Current`, the accounts with a ballot on the application
under vote, and `Total`, the sum of the tallies: a ballot taken back takes one from
each (`RescindedTotal`) and a new one adds one to each (`GateVoteEachOnce`,
`LeaveGateEachOnce`).

### The proposals (`ProposalProofs`)

- `ProposalTypes`: `ProposalSpec => []ProposalTypeOK`;
- `ResultsAreSound`: `ProposalSpec => []PassedSound`;
- `VotesAreBacked`: `ProposalSpec => []VotesBacked`;
- `NoUnitVotesTwice`: `ProposalSpec => []NoDoubleVoting`;
- `RecordsAreBounded`: `ProposalSpec => []RecordsWithinTally`.

`PassedSound` speaks of the tallies of now, which a vote changes. It is inductive
with `ResultsAreLate`: a proposal that passed is past its last voting round, so no
vote comes any more. `Threshold` bounds what the division loses.

`VotesInv` is `VotesBacked` and the conservation of the units of each election token.
A vote adds as many units to the account of the proposal as to its tally
(`CastVoteBacked`); no other transfer takes any away, since only people and the issuer
send (`MoveElectionVotes`); and a proposal that has no token yet has no votes, so that
choosing one later makes none unbacked (`SetVoteTokenVotes`). The tally is the sum over
all keys, those included that the result does not read. `NoDoubleVoting`
follows from the two (`BackedVotesAreSingle`): the tallies that count a token are at
most what distinct accounts hold of it, which is at most what all of them hold, which
is the supply. `RecordsWithinTally` is inductive with the types: a vote replaces one
record by its own units and adds them to the tally (`CastVoteRecords`), and leaving
only lowers the records.

### The DAO (`DaoProofs`)

- `DaoKeepsVotes`: `DaoSpec => ProposalSpec`, and with it the theorems above;
- `PaymentsJustified`: `DaoSpec => []ReceiptsJustified`;
- `MarksAreApproved`: `DaoSpec => MarksFollowApproval`;
- `PaymentsAreBounded`: `DaoSpec => PaymentsBounded`;
- `FirstRuleCounts`: `DaoSpec => RulesSettled`;
- `DaoKeepsTypes`: `DaoSpec => []DaoTypes`;
- `DaoImplements`: `DaoSpec => ImplementsDisbursement`.

The steps of the DAO are split once, in `DaoCases`: a call that writes its state, a
clear or a deletion, alone or as the first half of a group, a group whose first half
implements a proposal and whose second is any call of that proposal, and what happens
around the DAO.

`DaoInv` is the type of the DAO's own state without the bounds on its funds, that a
DAO that runs was not deleted, the invariant of the proposals, `ReceiptsJustified` and
`MembersApproved`. `ReceiptsJustified` says that a payee has money only of a DAO that
runs and with a proposal that names it and qualifies, however the group was
completed: the payment is made in `ImplementProposal`, which asks for all of that.
`QualifiesStays` is why it still does: results and trust only grow, and rules do not
change once the DAO is finalized. `MembersApproved` says that only the creator, or
accounts whose call came with a qualifying proposal, are opted in to the DAO; with it
`MarksAreApproved` follows, as a half that clears needs its sender to be opted in.

`PaymentsAreBounded` compares what a payee got and may still get (`MayGet`) before and
after a step. Once a proposal has passed its rounds are over, and where nobody may
register after them nobody does (`RegistrationOver`), so its chances only shrink
(`PassedLosesChances`): a close-out or a clear takes away a registration
(`ClosingTakesChance`), `setimplemented` the mark, and a second half that is an
opt-in is refused. Hence the group that pays takes at least one chance from the
proposal it pays for (`PaymentTakesChance`), which is worth what is paid.

The bounds on the funds hold because the treasury and all that was received are
together never more than what was paid in (`DaoBounds`): a payment moves an amount
from one to the other. For the refinement, `FinalizeLaunches`, `DeleteAbandons`,
`FundDeposits` and `ImplementCarriesOut` name the abstract step of each action, and
`EligibleGrows` is for all the others. A proposal that pays nothing is carried out
with an amount of zero (`ImplementPays`).

### The tree (`TreeProofs`)

- `TreeTypes`: `TreeSpec => []TreeTypeOK`;
- `VerifiedValueIsInTree`: what `verifymerkle` accepts is in the tree;
- `SharesArePersonal`: `TreeSpec => []OwnShareOnly`;
- `ClaimsAcceptedInPlace`: `TreeSpec => AcceptsInPlace`.

The types need no proof to be right: the contract gives out an asset it made, and a
transfer the chain accepts takes no holding below zero.

`VerifiedValueIsInTree` is the soundness of the tree for a proof of any hashes: where
a running hash meets a node of the tree, what was hashed to it meets the node's
children, and so down to the leaves (`HashesMeetAtHeight`), where only a leaf is equal
to a leaf. With `OwnShareOnly` it gives that a claim pays the claimant's own count
(`ClaimPaysOwnShare`); the invariant adds that a deployed snapshot is one a tree can be
built of, and `DeployShares` that nothing is paid before there is one.

`AcceptsInPlace` says which proofs verify. `LevelParent` and `AncestorHalves` describe
the levels that `createproof` reads: the node above the one at a place is at half the
place. Hence a proof holds the siblings of the nodes above the place the index names
(`ProofFollowsLevels`), and the running hash is the node there at every level just when
the leaf hashed is the one at that place (`HashesMeetAncestors`). The leaf at the place
is the voter's if its number is the index; otherwise it is that of another voter or
the padding (`OneLeafPerVoter`). No tree is higher than five, so that powers of two are
read off literals (`Doubling`, `HeightOfTree`).

### The client (`ConfirmationProofs`)

- `ConfirmationTypes`: `ConfirmationSpec => []ConfirmationTypeOK`;
- `TimeoutNotEarly`: `ConfirmationSpec => []TimeoutWaits`;
- `VerdictIsFinal`: `ConfirmationSpec => []VerdictStands`;
- `RoundNotEarly`: `ConfirmationSpec => []RoundReached`.

The round the client counts is at most one ahead of the node (`RoundsCounted`), and
there is neither a verdict nor an answer before the end of the wait
(`Undecided`); with these the properties are inductive.

### The contracts composed, and the script (`GovernanceProofs`)

- `GateServesDao`: `GovernanceSpec => ImplementsDao`;
- `GovernanceKeepsCommittee`: `GovernanceSpec => CommitteeSpec`;
- `GovernanceGateHolds`: `YesVotesCovered`, `BallotsCovered`, `TrustAccounting`,
  `TrustPermanent`, `SettledVote` and `CountsEachOnce`, of its gate (by
  `GovernanceSpec => GateSafety`);
- `MoneyDisbursed`: `GovernanceSpec => ImplementsDisbursement`, of its DAO;
- `OnlyThroughGate`: `GovernanceSpec => []PaidThroughGate`, from `ReceiptsJustified` of
  its DAO and the trust of the gate;
- `GovernanceVotesOnce`: `NoDoubleVoting` and `VotesBacked`, of its proposals;
- `GovernanceBoundsGroups`: `PaymentsBounded` and `MarksFollowApproval`, of its DAO;
- `ScriptIsGovernance`: `EndToEndSpec => ImplementsGovernance`;
- `ScriptTypes`: `EndToEndSpec => []EndToEndTypeOK`;
- `ScriptPaysThroughGate`: `EndToEndSpec => []PaidThroughGate`;
- `ScriptVotesOnce`: `NoDoubleVoting` and `VotesBacked`, of the script's proposal;
- `ClientIsServed`: `EndToEndSpec => []CallsAccepted`;
- `VoteDecides`: `EndToEndSpec => []PaymentAssured`.

`GateInv` is inductive for the composition too (`GateInvKept`): the other contracts
leave its variables alone. From it `GateGrantsTrust`: a call of the gate leaves the
trusted proposals or adds one, which is all `AlgoDao` assumes of them, and
`GovernanceStepsDao` gives each step of the composition its step of `AlgoDao`. The
theorems of `DaoProofs` then apply to the DAO in it. They are about another instance
of the same module; `SameVotes`, `SameSteps` and `SameDao` show that its definitions
are those of the instance in `Governance`. `DaoAssumption` gives that instance the
assumptions of `Proposal` and `AlgoDao`.

For the script most calls are those of `Governance` with particular arguments. The
tree is what needs an invariant, `ScriptInv`, because `Governance` knows of none: its
asset is created as a step without effect on the proposals' ledger, which holds only
if nobody has moved a unit before, and what it pays to the client has to be a transfer
of the whole supply. So `ScriptInv` follows the calls done: the client holds every
governance token from `createasset` on (`GovInv`), hence the distribution read is one
in which it has all the votes (`CountsAreDistribution`, `DistributionShape`); the tree
is built of that distribution, and the ledger is as it was created until the call that
creates its asset (`TreeInv`). `ClientClaimsAll` draws the conclusion about the claim.

For `ClientIsServed` and `VoteDecides` the calls done have to say what each contract is
in. `ScriptParts` is that, one part for each contract, inductive together with
`CommitteeInv`, `GateInv`, the types of the DAO and `ScriptInv`:

- `CommitteePart`: nobody but the client is ever a member, and the client is one from
  `setmembers` until the asset is replaced (joining needs an empty committee, and
  only the creator selects members);
- `GatePart`: hence only the client has an application considered or votes, there is no
  vote and no trust before its own, and its one vote is a majority
  (`ClientIsMajority`); the trust stays when the committee is replaced;
- `DaoPart`: the rules are the one the client added, and until the proposal is paid
  nobody is opted in to the DAO, the proposal is not marked and the funds are there
  (`Unspoiled`). A group whose first half clears the DAO's state needs an account
  opted in, which an account becomes only in a group that the DAO carries out, and
  that one pays (`DaoPartGroup`): so strangers cannot get the mark without the payment;
- `VotePart`: the key of yes holds the client's votes and the key of no none, and the
  client stays registered, as another account can only register or leave for itself;
  votes in other bytes have no units and only take room, which `SlotsTaken` excuses;
- `ClockPart`: rounds since the round was read are at most `MaxLag` for each call made,
  and the wait ends after the last voting round;
- `TreePart`, `TokenPart`: the tree is of the distribution read, the issuer holds the
  supply until the claim, and the client from then until it votes. Nobody can freeze
  the election token, and a transfer leaves the flags of a holding (`TransferFlags`).

Each part has one lemma for the steps that leave its contract alone and one for those
that do not; `ClientMoves` and `StrangerMoves` say once which contract a step is about,
so that no part looks at the steps of another. `PartsAcceptCalls` and
`PartsAssurePayment` draw the two invariants from the parts, call by call; the
percentage is met because every vote the result reads is yes, and its multiplication does not overflow
because a hundred times the supply does not.

### Only model-checked

- Liveness: `GateNeverLocked`, `CallReturns`, `ScriptPays` and `VoteSettles`. What the
  last two promise beyond fairness, that no call of the client is refused and that the
  payment is decided by the vote, is `ClientIsServed` and `VoteDecides`; that the
  client then makes its calls is left to TLC.

## 5. What is not modelled, and why

- `NftCheckProgram` (`assets.py:319`): a testing contract that nothing deploys.
- `types.py`, the metadata of assets and its hash, compilation, keys, the
  construction of clients and the formatting of state: input and output with no
  state of their own.
- More than one page of the indexer's answer (`voting.py:413`).
- The lasting effect `optintoken` of the committee was meant to have: the code does
  not submit it, so there is none. A committee asset that would be sent to the
  committee's account (`README.md:103-105` of the repository) cannot be.
- Committee votes (`NotImplementedError` at `voting.py:135`) and the proposal types
  other than payments, which `implement_proposal` leaves as a TODO: a proposal of
  another type is carried out without effect, and that is modelled.

## 6. Plan

Done so far, in this order: `Asa`, `Committee` and its proofs; `PreapprovalGate`;
`Proposal`; `Disbursement` and `AlgoDao`; `Merkle` and `DistributionTree`;
`Confirmation`; `Governance`; the proofs about the gate, the proposals, the DAO and
the client; several assets, deletion and update in `DistributionTree`; failures of
sending and `wait_for_round` in `Confirmation`; `EndToEnd`; `CountsEachOnce`; the
proofs about `Governance` and the types of the tree; induction, sums and the
properties that rest on them; what the Merkle proofs prove; the proof that the script
implements `Governance`; `CallsAccepted` and `PaymentAssured` with their proofs; ids
and addresses of any kind in the gate, options as bytes in the proposal, and the
implementing group with any OnCompletion, through all modules and proofs above them.
Every invariant and every action property that a run checks is proved.

To do, of the models: strangers with votes in `EndToEnd`, in the committee and in the
election; a client that retries `call_implementproposal` through `Confirmation`.
