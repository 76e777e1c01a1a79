----------------------------- MODULE MCIndexer -----------------------------
(* Instances of Indexer for TLC: epochs end at blocks 2 and 4.  Sets 0 and *)
(* 2 have three members, all of whom must sign, set 1 has four, of whom    *)
(* three are enough; the circuit has a slot more than either.              *)
EXTENDS Indexer

CONSTANTS a, b, c, d

MCAuthoritySetId == [n \in 0 .. MaxBlock |-> n \div 2]
MCAuthoritiesOf ==
    [s \in SetIds |-> IF s = 1 THEN <<d, b, a, c>> ELSE <<a, b, c>>]

(* The tags are nested so that TLC can compare the hashes of headers, of   *)
(* sets and Zero.                                                          *)
Header(n) == <<<<"header">>, n>>
MCHeaderHash == [n \in 0 .. MaxBlock |-> Header(n)]
MCAuthoritySetHash ==
    [s \in SetIds |-> compute_authority_set_hash(AuthoritiesOf[s])]
MCCommitment == [k \in (0 .. MaxBlock) \X (0 .. MaxBlock) |-> Header(0)]
MCHash == {Header(n) : n \in 0 .. MaxBlock}
            \cup {AuthoritySetHash[s] : s \in SetIds}
MCZero == <<"zero">>
=============================================================================
