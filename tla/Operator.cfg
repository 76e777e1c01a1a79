CONSTANTS
    MaxBlock = 5
    MAX_NUM_HEADERS = 3
    Unindexed = {}
    FunctionIds = {f1}
    Gateways = {g1}
    PlatformGateway = g1
    GenesisBlocks = {1}
    MaxGuardianUpdates = 1
    MaxRequests = 1
    BlockInterval = 2
    DATA_COMMITMENT_MAX = 3
    MaxRestarts = 0
    AuthoritySetId <- MCAuthoritySetId
    HeaderHash <- MCHeaderHash
    AuthoritySetHash <- MCAuthoritySetHash
    DataRootCommitment <- MCDataRootCommitment
    StateRootCommitment <- MCStateRootCommitment
    Hash <- MCHash
    Zero <- MCZero
SPECIFICATION OpSpec
CHECK_DEADLOCK FALSE
INVARIANTS
    OpTypeOK
    RequestWithinSet
    RequestProvable
    RotateRequestProvable
    
