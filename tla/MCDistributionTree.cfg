SPECIFICATION TreeSpec
CONSTANTS
    People = {1, 4, 99}
    Creator = 1
    TreeAddr = 100
    Accounts = {1, 4, 99, 100}
    Snapshots <- UpToSixteen
    Totals = {2}
    RegBegin = 1
    RegEnd = 1
    Horizon = 2
    MaxAssets = 2
    MaxClaimed = 2
INVARIANTS
    TreeTypeOK
    OwnShareOnly
PROPERTY
    AcceptsInPlace
CHECK_DEADLOCK FALSE
