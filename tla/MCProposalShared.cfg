SPECIFICATION ProposalSpec
CONSTANTS
    People = {creator, p1}
    Creator = creator
    Issuer = creator
    Proposals = {a1, a2}
    Assets = {e1}
    NoAsset = noasset
    Supply = 1
    Config <- TwoProposals
    NoData = nodata
    NumOptions = 2
    OptionArgs <- ClientArgs
    MaxUint = 1000
    Horizon = 1
    creator = creator
    p1 = p1
    a1 = a1
    a2 = a2
    e1 = e1
    noasset = noasset
    nodata = nodata
INVARIANTS
    ProposalTypeOK
    NoDoubleVoting
CHECK_DEADLOCK FALSE
