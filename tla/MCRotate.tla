------------------------------ MODULE MCRotate ------------------------------
(* An instance of Rotate for TLC: a set of one, sets whose count has one   *)
(* byte and two bytes, up to the size of the circuit, and digests with     *)
(* logs of BABE and of GRANDPA before and behind the announcement.         *)
EXTENDS Rotate

CONSTANTS SetSizes  \* the size of set s is SetSizes[s + 1]

MCSetSizes == <<2, 64, 63, 65, 1, 3>>

(* Epochs end at blocks 1, 3, 5 and 7. *)
MCAuthoritySetId == [b \in 0 .. MaxBlock |-> (b + 1) \div 2]
MCAuthority == 1 .. 100
MCAuthoritiesOf ==
    [s \in SetIds |-> [i \in 1 .. SetSizes[s + 1] |-> s + i]]
MCHeaderHash == [b \in 0 .. MaxBlock |-> <<<<"header">>, b>>]
MCAuthoritySetHash ==
    [s \in SetIds |-> compute_authority_set_hash(AuthoritiesOf[s])]
MCCommitment == [k \in (0 .. MaxBlock) \X (0 .. MaxBlock) |-> <<<<"header">>, 0>>]
MCHash == {MCHeaderHash[b] : b \in 0 .. MaxBlock}
            \cup {MCAuthoritySetHash[s] : s \in SetIds}
MCZero == <<"zero">>

Babe == PlainLog(PreRuntime, "BABE", 1, 33)
NextEpochData(b) == ListLog("BABE", 1, get_authorities(b), <<"opaque", 0>>, 32)
OnDisabled == PlainLog(Consensus, "FRNK", 3, 8)
BabeSeal == PlainLog(Seal, "BABE", 0, 64)

MCDigest ==
    [b \in 0 .. MaxBlock |->
        IF b \in {1, 7} THEN <<ScheduledChange(get_authorities(b))>>
        ELSE IF b = 5 THEN <<Babe, ScheduledChange(get_authorities(b)), BabeSeal>>
        ELSE IF b = 3 THEN <<Babe, NextEpochData(b),
                             ScheduledChange(get_authorities(b)), OnDisabled,
                             BabeSeal>>
        ELSE <<Babe, OnDisabled, NextEpochData(b), BabeSeal>>]
=============================================================================
