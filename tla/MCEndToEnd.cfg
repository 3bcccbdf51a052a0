SPECIFICATION EndToEndSpec
CONSTANTS
    creator = creator
    stranger = stranger
    b1 = b1
    b2 = b2
    b3 = b3
    People = {creator, stranger}
    Creator = creator
    CommitteeAddr = committee
    MaxMembers = 2
    MaxTokens = 2
    Apps = {app}
    App = app
    NoApp = noapp
    Others = {}
    GateAddr = gate
    TrustTotal = 2
    MinRounds = 1
    MaxTally = 1
    Assets = {1}
    NoAsset = 0
    Issuer = tree
    Supply = 2
    Config <- ScriptProposal
    NoData = nodata
    NumOptions = 2
    OptionArgs <- VoteArgs
    MaxUint = 1000
    Horizon = 16
    Completions <- GroupCompletions
    RuleInputs <- Rules
    CommitteeIds = {}
    Payees = {receiver}
    MaxRules = 1
    MaxCommittees = 1
    MaxFunds = 2
    Bystanders = {b1, b2, b3}
    Addresses <- ByAddress
    Receiver = receiver
    PaymentRule <- SixtyPercent
    PaidAmount = 1
    VoteUnits = 1
    VotingRounds = 14
    MaxLag = 1
INVARIANTS
    EndToEndTypeOK
    PaidThroughGate
    CallsAccepted
    PaymentAssured
PROPERTIES
    ImplementsDao
    ImplementsGovernance
    ScriptPays
    VoteSettles
CHECK_DEADLOCK FALSE
