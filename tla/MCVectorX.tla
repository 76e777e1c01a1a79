----------------------------- MODULE MCVectorX -----------------------------
(* Instances of VectorX for TLC: a short chain with tagged hashes. *)
EXTENDS VectorX, TLC

(* Epochs end at blocks 2 and 4; set ids start at 3. *)
MCAuthoritySetId == [b \in 0 .. MaxBlock |-> 3 + b \div 2]

MCHeaderHash == [b \in 0 .. MaxBlock |-> <<"header", b>>]
MCAuthoritySetHash == [s \in SetIds |-> <<"set", s>>]
MCDataRootCommitment ==
    [k \in (0 .. MaxBlock) \X (0 .. MaxBlock) |-> <<"data", k>>]
MCStateRootCommitment ==
    [k \in (0 .. MaxBlock) \X (0 .. MaxBlock) |-> <<"state", k>>]
MCHash == {MCHeaderHash[b] : b \in Blocks}
            \cup {MCAuthoritySetHash[s] : s \in SetIds}
            \cup {MCDataRootCommitment[k] : k \in Keys}
            \cup {MCStateRootCommitment[k] : k \in Keys}
MCZero == <<"zero">>

(* Function ids and gateways are only compared for equality. *)
MCSymmetry == Permutations(FunctionIds) \cup Permutations(Gateways)
=============================================================================
