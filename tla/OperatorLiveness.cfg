CONSTANTS
    MaxBlock = 6
    MAX_NUM_HEADERS = 3
    Unindexed = {2}
    FunctionIds = {f1}
    Gateways = {g1}
    PlatformGateway = g1
    GenesisBlocks = {1}
    MaxGuardianUpdates = 0
    MaxRequests = 1
    BlockInterval = 2
    DATA_COMMITMENT_MAX = 3
    MaxRestarts = 1
    AuthoritySetId <- MCAuthoritySetId
    HeaderHash <- MCHeaderHash
    AuthoritySetHash <- MCAuthoritySetHash
    DataRootCommitment <- MCDataRootCommitment
    StateRootCommitment <- MCStateRootCommitment
    Hash <- MCHash
    Zero <- MCZero
SPECIFICATION FairOpSpec
CHECK_DEADLOCK FALSE
PROPERTIES
    CatchesUp
