CONSTANTS
    MaxBlock = 7
    MAX_NUM_HEADERS = 4
    MAX_AUTHORITY_SET_SIZE = 65
    MAX_HEADER_SIZE = 35840
    ExtensionLength = 300
    FirstHeights = {0, 60, 16380, 1073741820}
    SetSizes <- MCSetSizes
    Unindexed = {}
    Authority <- MCAuthority
    DUMMY_PUBLIC_KEY = 0
    AuthoritiesOf <- MCAuthoritiesOf
    AuthoritySetId <- MCAuthoritySetId
    HeaderHash <- MCHeaderHash
    AuthoritySetHash <- MCAuthoritySetHash
    DataRootCommitment <- MCCommitment
    StateRootCommitment <- MCCommitment
    Hash <- MCHash
    Zero <- MCZero
    Digest <- MCDigest
SPECIFICATION RotateSpec
CHECK_DEADLOCK FALSE
INVARIANTS
    RotateComplete
    
    HeadersDecode
PROPERTIES
    HintPanicsOnlyIfCurrent
