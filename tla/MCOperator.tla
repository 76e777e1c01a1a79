----------------------------- MODULE MCOperator -----------------------------
(* Instances of Operator for TLC: a short chain with tagged hashes. *)
EXTENDS Operator

(* Epochs end at blocks 3 and 5; set ids start at 0. *)
MCAuthoritySetId ==
    [b \in 0 .. MaxBlock |-> IF b < 3 THEN 0 ELSE IF b < 5 THEN 1 ELSE 2]

MCHeaderHash == [b \in 0 .. MaxBlock |-> <<"header", b>>]
MCAuthoritySetHash == [s \in SetIds |-> <<"set", s>>]
MCDataRootCommitment ==
    [k \in (0 .. MaxBlock) \X (0 .. MaxBlock) |-> <<"data", k>>]
MCStateRootCommitment ==
    [k \in (0 .. MaxBlock) \X (0 .. MaxBlock) |-> <<"state", k>>]
MCHash == {MCHeaderHash[b] : b \in Blocks}
            \cup {MCAuthoritySetHash[s] : s \in SetIds}
            \cup {MCDataRootCommitment[k] : k \in Keys}
            \cup {MCStateRootCommitment[k] : k \in Keys}
MCZero == <<"zero">>
=============================================================================
