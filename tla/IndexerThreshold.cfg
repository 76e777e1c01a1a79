CONSTANTS
    MaxBlock = 5
    MAX_NUM_HEADERS = 4
    MAX_AUTHORITY_SET_SIZE = 5
    MaxPending = 2
    Unindexed = {}
    a = a
    b = b
    c = c
    d = d
    Authority = {a, b, c, d}
    DUMMY_PUBLIC_KEY = dummy
    AuthoritiesOf <- MCAuthoritiesOf
    AuthoritySetId <- MCAuthoritySetId
    HeaderHash <- MCHeaderHash
    AuthoritySetHash <- MCAuthoritySetHash
    DataRootCommitment <- MCCommitment
    StateRootCommitment <- MCCommitment
    Hash <- MCHash
    Zero <- MCZero
SPECIFICATION IndexerSpec
INVARIANTS
    ThresholdIsQuorum
