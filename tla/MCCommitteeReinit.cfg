SPECIFICATION CommitteeSpec
CONSTANTS
    People = {creator, p1}
    Creator = creator
    CommitteeAddr = committee
    MaxMembers = 1
    MaxTokens = 2
    creator = creator
    p1 = p1
    committee = committee
PROPERTY
    LeavesByResigning
CHECK_DEADLOCK FALSE
