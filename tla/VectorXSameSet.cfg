CONSTANTS
    MaxBlock = 4
    MAX_NUM_HEADERS = 3
    Unindexed = {}
    FunctionIds = {f1}
    Gateways = {g1}
    GenesisBlocks = {1}
    MaxGuardianUpdates = 0
    MaxRequests = 1
    AuthoritySetId <- MCAuthoritySetId
    HeaderHash <- MCHeaderHash
    AuthoritySetHash <- MCAuthoritySetHash
    DataRootCommitment <- MCDataRootCommitment
    StateRootCommitment <- MCStateRootCommitment
    Hash <- MCHash
    Zero <- MCZero
SPECIFICATION Spec
CHECK_DEADLOCK FALSE
INVARIANT SameAuthoritySet
