------------------------ MODULE Justification_proofs ------------------------
(***************************************************************************)
(* What a prover makes of the precommits of a set, for every authority     *)
(* set, every number of slots and every subset of signers: the lemmas that *)
(* the proofs about the indexer and about the circuits share.              *)
(***************************************************************************)
EXTENDS Justification, Avail_proofs, FiniteSetTheorems, SequenceTheorems

-----------------------------------------------------------------------------
(* Authority sets: the keys of a set, and counting signatures by slots.    *)

(* The set that justifies a block has a list of keys. *)
LEMMA KeysOfSet ==
    ASSUME NEW s \in SetIds
    PROVE  LET keys == AuthoritiesOf[s]
           IN  /\ keys \in Seq(Authority)
               /\ Len(keys) \in Nat \ {0}
               /\ Len(keys) <= MAX_AUTHORITY_SET_SIZE
               /\ \A i, j \in 1 .. Len(keys) : keys[i] = keys[j] => i = j
BY AuthoritiesAssumption

(* Counting the slots whose key signed is counting the signers. *)
LEMMA SlotsOfSigners ==
    ASSUME NEW s \in SetIds, NEW signers \in SUBSET Members(s)
    PROVE  LET keys == AuthoritiesOf[s]
               slots == {i \in 1 .. Len(keys) : keys[i] \in signers}
           IN  /\ IsFiniteSet(signers)
               /\ Cardinality(signers) \in Nat
               /\ Cardinality(slots) = Cardinality(signers)
<1> DEFINE keys == AuthoritiesOf[s]
           slots == {i \in 1 .. Len(keys) : keys[i] \in signers}
           f == [i \in slots |-> keys[i]]
<1>1. /\ Len(keys) \in Nat
      /\ \A i, j \in 1 .. Len(keys) : keys[i] = keys[j] => i = j
  BY KeysOfSet
<1>2. IsFiniteSet(slots)
  <2>1. IsFiniteSet(1 .. Len(keys))
    BY <1>1, FS_Interval
  <2> QED  BY <2>1, FS_Subset
<1>3. \A v \in signers : \E i \in slots : f[i] = v
  BY DEF Members
<1>4. f \in Bijection(slots, signers)
  <2>1. f \in [slots -> signers]
    OBVIOUS
  <2>2. f \in Surjection(slots, signers)
    BY <1>3, <2>1 DEF Surjection
  <2>3. f \in Injection(slots, signers)
    BY <1>1, <2>1 DEF Injection, IsInjective
  <2> QED  BY <2>2, <2>3 DEF Bijection
<1>5. ExistsBijection(slots, signers)
  BY <1>4 DEF ExistsBijection
<1>6. IsFiniteSet(signers) /\ Cardinality(signers) = Cardinality(slots)
  BY <1>2, <1>5, FS_Bijection
<1> QED  BY <1>6, FS_CardinalityType

(* A set has as many members as keys. *)
LEMMA MembersOfSet ==
    ASSUME NEW s \in SetIds
    PROVE  /\ IsFiniteSet(Members(s))
           /\ Cardinality(Members(s)) = Len(AuthoritiesOf[s])
<1> DEFINE keys == AuthoritiesOf[s]
           slots == {i \in 1 .. Len(keys) : keys[i] \in Members(s)}
<1>1. slots = 1 .. Len(keys)
  BY DEF Members
<1>2. Len(keys) \in Nat
  BY KeysOfSet
<1>3. Cardinality(1 .. Len(keys)) = Len(keys)
  BY <1>2, FS_Interval
<1> QED  BY <1>1, <1>3, SlotsOfSigners

(* The rounded threshold of the indexer is GRANDPA's own, and both pass    *)
(* the strict threshold of the circuit.                                    *)
LEMMA Thresholds ==
    ASSUME NEW n \in Nat \ {0}, NEW k \in Nat
    PROVE  /\ k > (n * 2) \div 3 => k >= n - (n - 1) \div 3
           /\ k >= n - (n - 1) \div 3 => k * 3 > n * 2
OBVIOUS

-----------------------------------------------------------------------------
(* The hash of an authority set: the chain the fetcher computes and the    *)
(* one the circuit computes over all its slots.                            *)

(* A chain of length n that is extended at the indices of P. *)
IsChain(f, base, P, key, n) ==
    f = [i \in 0 .. n |-> IF i = 0 THEN base
                          ELSE IF i \in P THEN <<f[i - 1], key[i]>>
                                          ELSE f[i - 1]]

LEMMA ChainLinks ==
    ASSUME NEW f, NEW base, NEW P, NEW key, NEW n \in Nat,
           IsChain(f, base, P, key, n)
    PROVE  /\ f[0] = base
           /\ \A i \in 1 .. n : f[i] = IF i \in P THEN <<f[i - 1], key[i]>>
                                                  ELSE f[i - 1]
<1>1. \A i \in 0 .. n : f[i] = IF i = 0 THEN base
                               ELSE IF i \in P THEN <<f[i - 1], key[i]>>
                                               ELSE f[i - 1]
  BY DEF IsChain
<1>2. 0 \in 0 .. n /\ \A i \in 1 .. n : i \in 0 .. n /\ i # 0
  OBVIOUS
<1> QED  BY <1>1, <1>2

(* Such a chain exists at every length. *)
LEMMA ChainExists ==
    ASSUME NEW base, NEW P, NEW key, NEW n \in Nat
    PROVE  \E f : IsChain(f, base, P, key, n)
<1> USE DEF IsChain
<1> DEFINE Chain(f, m) == IsChain(f, base, P, key, m)
           S == {m \in Nat : ~\E f : Chain(f, m)}
<1>1. SUFFICES ASSUME S # {} PROVE FALSE
  OBVIOUS
<1>2. PICK m \in S : \A k \in S : m <= k
  <2>1. S \subseteq Nat
    OBVIOUS
  <2> HIDE DEF S
  <2> QED  BY <1>1, <2>1, LeastNatural
<1>3. CASE m = 0
  <2> DEFINE g == [i \in 0 .. 0 |-> base]
  <2>1. Chain(g, 0)
    OBVIOUS
  <2> QED  BY <1>2, <1>3, <2>1
<1>4. CASE m # 0
  <2>1. m - 1 \in Nat /\ m - 1 \notin S
    BY <1>2, <1>4
  <2>2. PICK f : Chain(f, m - 1)
    BY <2>1
  <2> DEFINE last == IF m \in P THEN <<f[m - 1], key[m]>> ELSE f[m - 1]
             g == [i \in 0 .. m |-> IF i = m THEN last ELSE f[i]]
  <2> HIDE DEF last
  <2>3. \A i \in 0 .. m : g[i] = IF i = m THEN last ELSE f[i]
    OBVIOUS
  <2>4. \A i \in 0 .. m - 1 : f[i] = IF i = 0 THEN base
                                     ELSE IF i \in P THEN <<f[i - 1], key[i]>>
                                                     ELSE f[i - 1]
    BY <2>2
  <2>5. \A i \in 1 .. m : i - 1 \in 0 .. m - 1 /\ g[i - 1] = f[i - 1]
    BY <1>4, <2>1
  <2>6. \A i \in 0 .. m : g[i] = IF i = 0 THEN base
                                 ELSE IF i \in P THEN <<g[i - 1], key[i]>>
                                                 ELSE g[i - 1]
    <3> SUFFICES ASSUME NEW i \in 0 .. m
                 PROVE  g[i] = IF i = 0 THEN base
                               ELSE IF i \in P THEN <<g[i - 1], key[i]>>
                                               ELSE g[i - 1]
      OBVIOUS
    <3> HIDE DEF g
    <3>1. CASE i = m
      BY <1>4, <2>1, <2>3, <2>5, <3>1 DEF last
    <3>2. CASE i # m
      <4>1. i \in 0 .. m - 1 /\ g[i] = f[i]
        BY <2>1, <2>3, <3>2
      <4>2. i # 0 => g[i - 1] = f[i - 1]
        BY <2>1, <2>5, <4>1
      <4> QED  BY <2>4, <4>1, <4>2
    <3> QED  BY <3>1, <3>2
  <2>7. Chain(g, m)
    BY <2>6
  <2> QED  BY <1>2, <2>7
<1> QED  BY <1>3, <1>4

(* The circuit hashes every slot and keeps the result while the            *)
(* authorities are enabled: over the padded keys of a set that is the      *)
(* chain of the keys.                                                      *)
LEMMA CommitmentIsHash ==
    ASSUME NEW s \in SetIds, NEW pubkeys,
           \A i \in 1 .. Len(AuthoritiesOf[s]) : pubkeys[i] = AuthoritiesOf[s][i]
    PROVE  compute_authority_set_commitment(Len(AuthoritiesOf[s]), pubkeys) =
               compute_authority_set_hash(AuthoritiesOf[s])
<1> DEFINE keys == AuthoritiesOf[s]
           n == Len(keys)
           last == MAX_AUTHORITY_SET_SIZE - 1
           IsHash(f) == f = [i \in 0 .. n |->
                               IF i = 0 THEN <<>> ELSE <<f[i - 1], keys[i]>>]
           IsCommitment(f) ==
               f = [i \in 0 .. last |->
                       IF i = 0 THEN <<<<>>, pubkeys[1]>>
                       ELSE IF authority_enabled(i, n)
                            THEN <<f[i - 1], pubkeys[i + 1]>>
                            ELSE f[i - 1]]
           H == CHOOSE f : IsHash(f)
           C == CHOOSE f : IsCommitment(f)
<1>1. /\ n \in Nat \ {0} /\ last \in Nat /\ n <= last + 1
      /\ Slots = 1 .. last + 1
  BY KeysOfSet, AuthoritiesAssumption DEF Slots
<1>2. compute_authority_set_hash(keys) = H[n]
  BY DEF compute_authority_set_hash
<1>3. compute_authority_set_commitment(n, pubkeys) = C[last]
  BY DEF compute_authority_set_commitment
<1> HIDE DEF n, last
<1> DEFINE all == 1 .. n
           none == <<>>
<1>4. IsChain(H, none, all, keys, n)
  <2>1. \A f : IsChain(f, none, all, keys, n) <=> IsHash(f)
    <3>1. \A i \in 0 .. n : i # 0 => i \in 1 .. n
      BY <1>1
    <3> QED  BY <3>1 DEF IsChain
  <2> HIDE DEF IsHash, none, all, keys
  <2>2. \E f : IsChain(f, none, all, keys, n)
    BY <1>1, ChainExists
  <2> QED  BY <2>1, <2>2
<1> DEFINE P == {i \in 0 .. last : authority_enabled(i, n)}
           key == [i \in 0 .. last |-> pubkeys[i + 1]]
           first == <<<<>>, pubkeys[1]>>
<1>5. IsChain(C, first, P, key, last)
  <2>1. \A f : IsChain(f, first, P, key, last) <=> IsCommitment(f)
    BY DEF IsChain
  <2>2. \E f : IsChain(f, first, P, key, last)
    <3> HIDE DEF P, key, first
    <3> QED  BY <1>1, ChainExists
  <2> HIDE DEF IsCommitment, P, key, first
  <2> QED  BY <2>1, <2>2
<1>6. /\ H[0] = <<>>
      /\ \A i \in 1 .. n : H[i] = <<H[i - 1], keys[i]>>
  <2> HIDE DEF H, keys
  <2>1. /\ H[0] = none
        /\ \A i \in 1 .. n : H[i] = IF i \in all THEN <<H[i - 1], keys[i]>>
                                                 ELSE H[i - 1]
    <3> HIDE DEF all, none
    <3> QED  BY <1>1, <1>4, ChainLinks
  <2> QED  BY <2>1
<1>7. /\ C[0] = first
      /\ \A i \in 1 .. last : C[i] = IF i < n THEN <<C[i - 1], pubkeys[i + 1]>>
                                     ELSE C[i - 1]
  <2>1. \A i \in 1 .. last : /\ i \in P <=> i < n
                             /\ key[i] = pubkeys[i + 1]
    BY <1>1 DEF authority_enabled
  <2> HIDE DEF C, P, key, first
  <2>2. /\ C[0] = first
        /\ \A i \in 1 .. last : C[i] = IF i \in P THEN <<C[i - 1], key[i]>>
                                                  ELSE C[i - 1]
    BY <1>1, <1>5, ChainLinks
  <2> QED  BY <2>1, <2>2
<1> HIDE DEF H, C
<1> DEFINE Reached(i) == IF i < n THEN i + 1 ELSE n
           Bad == {i \in 0 .. last : C[i] # H[Reached(i)]}
<1>8. Bad = {}
  <2>1. SUFFICES ASSUME Bad # {} PROVE FALSE
    OBVIOUS
  <2>2. PICK m \in Bad : \A k \in Bad : m <= k
    <3>1. Bad \subseteq Nat
      OBVIOUS
    <3> HIDE DEF Bad
    <3> QED  BY <2>1, <3>1, LeastNatural
  <2>3. \A i \in 1 .. n : pubkeys[i] = keys[i]
    BY DEF n
  <2>4. CASE m = 0
    <3>1. 1 \in 1 .. n /\ Reached(0) = 1
      BY <1>1
    <3>2. H[1] = <<H[0], keys[1]>>
      BY <1>6, <3>1
    <3> QED  BY <1>6, <1>7, <2>2, <2>3, <2>4, <3>1, <3>2
  <2>5. CASE m # 0
    <3>1. m \in 1 .. last /\ m - 1 \in 0 .. last /\ m - 1 \notin Bad
      BY <1>1, <2>2, <2>5
    <3>2. C[m - 1] = H[Reached(m - 1)]
      BY <3>1
    <3>3. CASE m < n
      <4>1. Reached(m - 1) = m /\ Reached(m) = m + 1 /\ m + 1 \in 1 .. n
        BY <1>1, <3>1, <3>3
      <4>2. H[m + 1] = <<H[m], keys[m + 1]>>
        BY <1>6, <4>1
      <4> QED  BY <1>7, <2>2, <2>3, <3>1, <3>2, <3>3, <4>1, <4>2
    <3>4. CASE ~(m < n)
      <4>1. Reached(m - 1) = n /\ Reached(m) = n
        BY <1>1, <3>1, <3>4
      <4> QED  BY <1>7, <2>2, <3>1, <3>2, <3>4, <4>1
    <3> QED  BY <3>3, <3>4
  <2> QED  BY <2>4, <2>5
<1>9. C[last] = H[n]
  <2>1. last \in 0 .. last /\ Reached(last) = n
    BY <1>1
  <2> QED  BY <1>8, <2>1
<1> QED  BY <1>2, <1>3, <1>9 DEF n, last

-----------------------------------------------------------------------------
(* What a prover makes of a justification.                                 *)

(* The set whose precommits justify a block is one of the chain's. *)
LEMMA JustifyingSetType ==
    ASSUME NEW b \in Blocks \ {0}
    PROVE  /\ JustifyingSet(b) \in SetIds
           /\ get_authorities(b - 1) = AuthoritiesOf[JustifyingSet(b)]
BY SetIdOfBlock DEF JustifyingSet, get_authorities

(* Signatures on the message of a block by more than two thirds of the set *)
(* that justifies it: the hint accepts them and the circuit proves them.   *)
LEMMA SignedIsProvable ==
    ASSUME NEW b \in Blocks \ {0},
           NEW signers \in SUBSET Members(JustifyingSet(b)),
           Cardinality(signers) * 3 > Len(get_authorities(b - 1)) * 2
    PROVE  Provable(b, JustificationData(get_authorities(b - 1),
                           SignedMessage(b, JustifyingSet(b)), signers))
<1> DEFINE id == JustifyingSet(b)
           keys == AuthoritiesOf[id]
           n == Len(keys)
           message == SignedMessage(b, id)
           data == JustificationData(keys, message, signers)
           j == CircuitJustification(b, data)
           slots == {i \in 1 .. n : keys[i] \in signers}
<1>1. id \in SetIds /\ get_authorities(b - 1) = keys
  BY JustifyingSetType
<1>2. /\ n \in Nat \ {0} /\ n <= MAX_AUTHORITY_SET_SIZE
      /\ MAX_AUTHORITY_SET_SIZE \in Nat
      /\ keys \in Seq(Authority)
      /\ \A i \in 1 .. n : i \in Slots /\ keys[i] \in Authority
  BY <1>1, KeysOfSet, AuthoritiesAssumption DEF Slots
<1>3. Cardinality(slots) = Cardinality(signers) /\ Cardinality(signers) \in Nat
  BY <1>1, SlotsOfSigners
<1> HIDE DEF n
<1>4. /\ data.signed_message = message /\ data.pubkeys = keys
      /\ data.num_authorities = n
      /\ \A i \in 1 .. n : data.validator_signed[i] = (keys[i] \in signers)
      /\ \A i \in 1 .. n : keys[i] \in signers =>
            data.signatures[i] = Signature(keys[i], message)
  BY DEF JustificationData, n
<1> HIDE DEF data, message
<1>5. /\ j.authority_set_id = id /\ j.signed_message = message
      /\ j.num_authorities = n
      /\ j.pubkeys = [i \in Slots |-> IF i <= n THEN keys[i]
                                                ELSE DUMMY_PUBLIC_KEY]
      /\ \A i \in Slots : j.validator_signed[i] =
            IF i <= n THEN data.validator_signed[i] ELSE FALSE
      /\ \A i \in 1 .. n : j.signatures[i] = data.signatures[i]
  BY <1>2, <1>4 DEF CircuitJustification, Slots
<1> HIDE DEF j
<1>6. \A i \in Slots : j.validator_signed[i] <=> i \in slots
  <2> SUFFICES ASSUME NEW i \in Slots
               PROVE  j.validator_signed[i] <=> i \in slots
    OBVIOUS
  <2>1. i \in slots <=> i <= n /\ keys[i] \in signers
    BY <1>2 DEF Slots
  <2>2. CASE i <= n
    <3>1. i \in 1 .. n
      BY <1>2, <2>2 DEF Slots
    <3>2. j.validator_signed[i] = (keys[i] \in signers)
      BY <1>4, <1>5, <2>2, <3>1, Zenon
    <3> QED  BY <2>1, <2>2, <3>2
  <2>3. CASE ~(i <= n)
    <3>1. j.validator_signed[i] = FALSE
      BY <1>5, <2>3, Zenon
    <3> QED  BY <2>1, <2>3, <3>1
  <2> QED  BY <2>2, <2>3
<1>7. \A i \in slots : verify_signature(j.pubkeys[i], j.signed_message,
                                        j.signatures[i])
  <2> SUFFICES ASSUME NEW i \in slots
               PROVE  verify_signature(j.pubkeys[i], j.signed_message,
                                       j.signatures[i])
    OBVIOUS
  <2>1. i \in 1 .. n /\ i \in Slots /\ i <= n
    BY <1>2
  <2>2. j.pubkeys[i] = keys[i] /\ j.signatures[i] = Signature(keys[i], message)
    BY <1>4, <1>5, <2>1
  <2> QED  BY <1>5, <2>2 DEF verify_signature
<1>8. EnoughVotingPower(data)
  <2>1. {i \in 1 .. n : data.validator_signed[i]} = slots
    BY <1>4
  <2>2. VotingWeight(data) = Cardinality(slots)
    BY <1>4, <2>1 DEF VotingWeight
  <2>3. Cardinality(signers) * 3 > n * 2
    BY <1>1 DEF n
  <2> QED  BY <1>2, <1>3, <1>4, <2>2, <2>3 DEF EnoughVotingPower
<1>9. HintSimpleJustification(id, data, j)
  <2>1. \A i \in 1 .. n : j.validator_signed[i] => i \in slots
    BY <1>2, <1>6
  <2> QED  BY <1>5, <1>7, <1>8, <2>1 DEF HintSimpleJustification
<1>10. compute_authority_set_commitment(n, j.pubkeys)
           = compute_authority_set_hash(keys)
  <2>1. \A i \in 1 .. n : j.pubkeys[i] = keys[i]
    BY <1>2, <1>5
  <2> QED  BY <1>1, <2>1, CommitmentIsHash DEF n
<1>11. verify_voting_threshold(n, j.validator_signed)
  <2>1. {i \in Slots : j.validator_signed[i]} = slots
    BY <1>2, <1>6
  <2> QED  BY <1>1, <1>3, <2>1 DEF verify_voting_threshold, n
<1>12. message.block_number = b /\ message.authority_set_id = id
       /\ message.block_hash = HeaderHash[b]
  BY DEF message, SignedMessage
<1>13. verify_simple_justification(b, HeaderHash[b], id,
           compute_authority_set_hash(keys), j)
  BY <1>2, <1>5, <1>6, <1>7, <1>10, <1>11, <1>12
     DEF verify_simple_justification
<1> QED  BY <1>1, <1>9, <1>13 DEF Provable, data, j, message
=============================================================================
