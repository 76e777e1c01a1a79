CONSTANTS
    MaxBlock = 20
    EpochEnds = {1, 2, 3, 7, 11, 12, 18, 20}
    MAX_NUM_HEADERS = 4
    Unindexed = {}
    AuthoritySetId <- MCAuthoritySetId
    HeaderHash <- MCHeaderHash
    AuthoritySetHash <- MCAuthoritySetHash
    DataRootCommitment <- MCCommitment
    StateRootCommitment <- MCCommitment
    Hash <- MCHash
    Zero = "zero"
SPECIFICATION LJSpec
CHECK_DEADLOCK FALSE
INVARIANTS
    LJTypeOK
    SearchCorrect
PROPERTIES
    SearchEnds
