SPECIFICATION CommitteeSpec
CONSTANTS
    People = {creator, p1, p2, p3, p4}
    Creator = creator
    CommitteeAddr = committee
    MaxMembers = 3
    MaxTokens = 3
    creator = creator
    p1 = p1
    p2 = p2
    p3 = p3
    p4 = p4
    committee = committee
SYMMETRY Others
INVARIANTS
    CommitteeTypeOK
    SizeCountsMembers
    MembershipFrozen
    CanResign
PROPERTY
    JoinsEmptyCommittee
CHECK_DEADLOCK FALSE
