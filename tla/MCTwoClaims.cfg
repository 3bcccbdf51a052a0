SPECIFICATION TreeSpec
CONSTANTS
    People = {1, 99}
    Creator = 1
    TreeAddr = 100
    Accounts = {1, 99, 100}
    Snapshots <- UpToFour
    Totals = {4}
    RegBegin = 1
    RegEnd = 1
    Horizon = 2
    MaxAssets = 1
    MaxClaimed = 4
INVARIANT
    ClaimsOnce
CHECK_DEADLOCK FALSE
