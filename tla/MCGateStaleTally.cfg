SPECIFICATION GateSpec
CONSTANTS
    People = {creator, p1}
    Creator = creator
    CommitteeAddr = committee
    MaxMembers = 1
    MaxTokens = 1
    Apps = {a1, a2}
    NoApp = noapp
    Others = {}
    GateAddr = gate
    TrustTotal = 2
    MinRounds = 1
    MaxTally = 3
    creator = creator
    p1 = p1
    committee = committee
    a1 = a1
    a2 = a2
    noapp = noapp
    gate = gate
PROPERTY
    TrustByMajority
CHECK_DEADLOCK FALSE
