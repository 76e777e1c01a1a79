CONSTANTS
    MaxBlock = 10
    HEADERS_PER_MAP = 2
    MAX_NUM_HEADERS = 6
    MAX_CONCURRENT_WS_REQUESTS = 4
    MAX_AUTHORITY_SET_SIZE = 4
    TrustedBlocks = {1}
    Unindexed = {6}
    a = a
    b = b
    c = c
    Authority = {a, b, c}
    DUMMY_PUBLIC_KEY = dummy
    AuthoritiesOf <- MCAuthoritiesOf
    AuthoritySetId <- MCAuthoritySetId
    Headers <- MCHeaders
    EmptyHeader <- MCEmptyHeader
    Number <- MCNumber
    ParentHash <- MCParentHash
    StateRoot <- MCStateRoot
    DataRoot <- MCDataRoot
    ZeroRoot <- MCZeroRoot
    HeaderHash <- MCHeaderHash
    AuthoritySetHash <- MCAuthoritySetHash
    DataRootCommitment <- MCDataRootCommitment
    StateRootCommitment <- MCStateRootCommitment
    Hash <- MCHash
    Zero <- MCZero
SPECIFICATION HeaderRangeSpec
CHECK_DEADLOCK FALSE
INVARIANTS
    SubchainSound
    CommitmentsAgree
    
    HeaderRangeComplete
