CONSTANTS
    MaxBlock = 4
    MAX_NUM_HEADERS = 2
    Unindexed = {}
    FunctionIds = {f1}
    Gateways = {g1}
    GenesisBlocks = {1, 2}
    MaxGuardianUpdates = 1
    MaxRequests = 2
    AuthoritySetId <- MCAuthoritySetId
    HeaderHash <- MCHeaderHash
    AuthoritySetHash <- MCAuthoritySetHash
    DataRootCommitment <- MCDataRootCommitment
    StateRootCommitment <- MCStateRootCommitment
    Hash <- MCHash
    Zero <- MCZero
SPECIFICATION DummySpec
CHECK_DEADLOCK FALSE
INVARIANTS
    
    WrongSetIsThatOfBlockZero
