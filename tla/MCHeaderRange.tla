--------------------------- MODULE MCHeaderRange ---------------------------
(* An instance of HeaderRange for TLC: an epoch ends at block 3, two       *)
(* headers fork off at it, one skips a height, and a set of three follows  *)
(* one of two.                                                             *)
EXTENDS HeaderRange

CONSTANTS a, b, c

(* The tags are nested so that TLC can compare a header hash with the hash *)
(* of a set and with a node of a tree.                                     *)
Tagged(tag, n) == <<<<<<tag>>>>, n>>
Main(n) == Tagged("main", n)
Fork(n) == Tagged("fork", n)
Skip(n) == Tagged("skip", n)

MCEmptyHeader == Tagged("empty", 0)
MCZero == Tagged("zero", 0)

MCHeaders == {Main(n) : n \in Blocks} \cup {Fork(n) : n \in 3 .. 4}
                \cup {Skip(4), MCEmptyHeader}

MCHeaderHash == [n \in 0 .. MaxBlock |-> Main(n)]
MCNumber == [h \in MCHeaders |-> h[2]]
MCParentHash ==
    [h \in MCHeaders |->
        IF h = MCEmptyHeader \/ h = Main(0) THEN MCZero
        ELSE IF h \in {Fork(3), Skip(4)} THEN Main(2)
        ELSE <<h[1], h[2] - 1>>]

(* Leaves are 1-tuples and inner nodes pairs, so they never collide. *)
MCZeroRoot == <<MCZero>>
RootOf(h, kind) == IF h = MCEmptyHeader THEN MCZeroRoot ELSE <<Tagged(kind, h)>>
MCStateRoot == [h \in MCHeaders |-> RootOf(h, "state")]
MCDataRoot == [h \in MCHeaders |-> RootOf(h, "data")]

MCAuthoritySetId == [n \in 0 .. MaxBlock |-> IF n < 3 THEN 0 ELSE 1]
MCAuthoritiesOf == [s \in SetIds |-> IF s = 0 THEN <<b, a>> ELSE <<a, b, c>>]
MCAuthoritySetHash ==
    [s \in SetIds |-> compute_authority_set_hash(AuthoritiesOf[s])]

(* A commitment that no range of the contract has is any other hash. *)
InCircuit(k) == k[2] - k[1] \in 1 .. MAX_NUM_HEADERS
MCStateRootCommitment ==
    [k \in Blocks \X Blocks |->
        IF InCircuit(k) THEN get_merkle_root_commitments(k[1], k[2]).state
        ELSE Main(0)]
MCDataRootCommitment ==
    [k \in Blocks \X Blocks |->
        IF InCircuit(k) THEN get_merkle_root_commitments(k[1], k[2]).data
        ELSE Main(0)]

MCHash == {HeaderHash[n] : n \in Blocks}
            \cup {AuthoritySetHash[s] : s \in SetIds}
            \cup {StateRootCommitment[k] : k \in Blocks \X Blocks}
            \cup {DataRootCommitment[k] : k \in Blocks \X Blocks}
=============================================================================
