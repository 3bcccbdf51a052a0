SPECIFICATION GateSpec
CONSTANTS
    People = {creator, p1}
    Creator = creator
    CommitteeAddr = committee
    MaxMembers = 2
    MaxTokens = 1
    Apps = {a1, a2}
    NoApp = noapp
    Others = {}
    GateAddr = gate
    TrustTotal = 1
    MinRounds = 1
    MaxTally = 2
    creator = creator
    p1 = p1
    committee = committee
    a1 = a1
    a2 = a2
    noapp = noapp
    gate = gate
INVARIANTS
    GateTypes
    YesVotesCovered
    TrustAccounting
PROPERTIES
    TrustPermanent
    BallotsCovered
    SettledVote
    CountsEachOnce
    GateNeverLocked
CHECK_DEADLOCK FALSE
