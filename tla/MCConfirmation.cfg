SPECIFICATION ConfirmationSpec
CONSTANTS
    Timeout = 4
    Target = 7
    Horizon = 8
INVARIANTS
    ConfirmationTypeOK
    TimeoutWaits
    VerdictStands
    RoundReached
PROPERTY
    CallReturns
CHECK_DEADLOCK FALSE
