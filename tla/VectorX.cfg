CONSTANTS
    MaxBlock = 4
    MAX_NUM_HEADERS = 2
    Unindexed = {}
    FunctionIds = {f1, f2}
    Gateways = {g1, g2}
    GenesisBlocks = {1, 2}
    MaxGuardianUpdates = 2
    MaxRequests = 2
    AuthoritySetId <- MCAuthoritySetId
    HeaderHash <- MCHeaderHash
    AuthoritySetHash <- MCAuthoritySetHash
    DataRootCommitment <- MCDataRootCommitment
    StateRootCommitment <- MCStateRootCommitment
    Hash <- MCHash
    Zero <- MCZero
SYMMETRY MCSymmetry
SPECIFICATION Spec
CHECK_DEADLOCK FALSE
INVARIANTS
    TypeOK
    CanonicalStore
    Coverage
    Disjoint
    CanAdvance
PROPERTIES
    WriteOnce
    ProvenAdvance
    ImplementsLightClient
