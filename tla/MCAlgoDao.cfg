SPECIFICATION DaoSpec
CONSTANTS
    People = {creator, member}
    member = member
    Creator = creator
    Issuer = creator
    Proposals = {a1, a2}
    Assets = {}
    NoAsset = noasset
    Supply = 0
    OptionArgs <- ClientArgs
    Config <- Kinds
    NoData = nodata
    NumOptions = 2
    MaxUint = 1000
    Horizon = 1
    Completions <- OnComplete
    RuleInputs <- Rules
    CommitteeIds = {c1}
    Payees = {payee}
    MaxRules = 2
    MaxCommittees = 1
    MaxFunds = 3
    creator = creator
    payee = payee
    a1 = a1
    a2 = a2
    c1 = c1
    noasset = noasset
    nodata = nodata
INVARIANTS
    DaoTypes
PROPERTIES
    RulesSettled
    PaymentsBounded
    MarksFollowApproval
    ImplementsDisbursement
CHECK_DEADLOCK FALSE
