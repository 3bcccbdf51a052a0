SPECIFICATION ProposalSpec
CONSTANTS
    People = {creator, p1}
    Creator = creator
    Issuer = creator
    Proposals = {a1}
    Assets = {e1, e2}
    NoAsset = noasset
    Supply = 2
    Config <- OneProposal
    NoData = nodata
    NumOptions = 2
    OptionArgs <- Args
    MaxUint = 127
    Horizon = 1
    creator = creator
    p1 = p1
    a1 = a1
    a2 = a2
    e1 = e1
    e2 = e2
    noasset = noasset
    nodata = nodata
INVARIANTS
    VotesBacked
    RecordsWithinTally
    PassedSound
CHECK_DEADLOCK FALSE
