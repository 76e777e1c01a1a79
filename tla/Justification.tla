--------------------------- MODULE Justification ---------------------------
(***************************************************************************)
(* GRANDPA justifications as the indexer stores them, as RpcDataFetcher    *)
(* hands them to the prover and as verify_simple_justification checks      *)
(* them in the circuit.                                                    *)
(*                                                                         *)
(* The hash of an authority set is the chain of its keys (SHA-256 is taken *)
(* to be injective) and a signature is the pair of its key and its message.*)
(* Sequences count from 1 where the code's arrays count from 0.  The round *)
(* in the signed message is left out: all precommits of a justification    *)
(* are of one round.                                                       *)
(***************************************************************************)
EXTENDS Avail, Sequences, FiniteSets

CONSTANTS
    Authority,              \* the public keys
    AuthoritiesOf,          \* [SetIds -> Seq(Authority)]: keys of a set
    DUMMY_PUBLIC_KEY,       \* the key that pads the arrays of the circuit
    MAX_AUTHORITY_SET_SIZE  \* the length of those arrays

(* A set lists each of its members once and fits the circuit; all weights  *)
(* are 1, which get_authorities asserts.                                   *)
ASSUME AuthoritiesAssumption ==
    /\ MAX_AUTHORITY_SET_SIZE \in Nat \ {0}
    /\ DUMMY_PUBLIC_KEY \notin Authority
    /\ AuthoritiesOf \in [SetIds -> Seq(Authority)]
    /\ \A s \in SetIds :
          /\ Len(AuthoritiesOf[s]) \in 1 .. MAX_AUTHORITY_SET_SIZE
          /\ \A i, j \in 1 .. Len(AuthoritiesOf[s]) :
                AuthoritiesOf[s][i] = AuthoritiesOf[s][j] => i = j

Slots == 1 .. MAX_AUTHORITY_SET_SIZE

get_authorities(block_number) == AuthoritiesOf[AuthoritySetId[block_number]]

Members(set) == {AuthoritiesOf[set][i] : i \in 1 .. Len(AuthoritiesOf[set])}

-----------------------------------------------------------------------------
(* Messages and signatures. *)

SignedMessage(block_number, authority_set_id) ==
    [block_hash       |-> HeaderHash[block_number],
     block_number     |-> block_number,
     authority_set_id |-> authority_set_id]

Signature(key, message) == [key |-> key, message |-> message]

DUMMY_SIGNATURE ==
    Signature(DUMMY_PUBLIC_KEY,
              [block_hash |-> Zero, block_number |-> 0, authority_set_id |-> 0])

verify_signature(pubkey, message, signature) ==
    signature = Signature(pubkey, message)

-----------------------------------------------------------------------------
(* The circuit. *)

(* compute_authority_set_hash: the chained hash of a list of keys. *)
compute_authority_set_hash(authorities) ==
    LET hash_so_far[i \in 0 .. Len(authorities)] ==
            IF i = 0 THEN <<>> ELSE <<hash_so_far[i - 1], authorities[i]>>
    IN  hash_so_far[Len(authorities)]

(* It is what genesis.rs posts and what the rotate circuit returns. *)
ASSUME AuthoritySetHashAssumption ==
    \A s \in SetIds :
        AuthoritySetHash[s] = compute_authority_set_hash(AuthoritiesOf[s])

(* authority_enabled after iteration i: it stays off once i met the end. *)
authority_enabled(i, num_active_authorities) ==
    \A j \in 1 .. i : j # num_active_authorities

(* The hash in the circuit: every slot is hashed, the result kept while    *)
(* the authorities are enabled.                                            *)
compute_authority_set_commitment(num_active_authorities, signers) ==
    LET commitment_so_far[i \in 0 .. MAX_AUTHORITY_SET_SIZE - 1] ==
            IF i = 0 THEN <<<<>>, signers[1]>>
            ELSE IF authority_enabled(i, num_active_authorities)
                 THEN <<commitment_so_far[i - 1], signers[i + 1]>>
                 ELSE commitment_so_far[i - 1]
    IN  commitment_so_far[MAX_AUTHORITY_SET_SIZE - 1]

(* The flags of all slots are added up, those past the authorities too. *)
verify_voting_threshold(num_active_authorities, validator_signed) ==
    Cardinality({i \in Slots : validator_signed[i]}) * 3
        > num_active_authorities * 2

(* Mutant: the header in the message is not compared. *)
verify_simple_justification_of_number(block_number, block_hash, set_id, set_hash, j) ==
    /\ j.num_authorities # 0
    /\ set_hash = compute_authority_set_commitment(j.num_authorities, j.pubkeys)
    /\ j.signed_message.block_number = block_number
    /\ j.signed_message.authority_set_id = set_id
    /\ \A i \in Slots : j.validator_signed[i] =>
          verify_signature(j.pubkeys[i], j.signed_message, j.signatures[i])
    /\ verify_voting_threshold(j.num_authorities, j.validator_signed)

verify_simple_justification(block_number, block_hash, set_id, set_hash, j) ==
    /\ j.num_authorities # 0
    /\ set_hash = compute_authority_set_commitment(j.num_authorities, j.pubkeys)
    /\ j.signed_message.block_number = block_number
    /\ j.signed_message.authority_set_id = set_id
    /\ j.signed_message.block_hash = block_hash
    /\ \A i \in Slots : j.validator_signed[i] =>
          verify_signature(j.pubkeys[i], j.signed_message, j.signatures[i])
    /\ verify_voting_threshold(j.num_authorities, j.validator_signed)

-----------------------------------------------------------------------------
(***************************************************************************)
(* From a GRANDPA commit to the lists of the circuit.  A commit is a       *)
(* record: target, the block it finalizes; precommits, a function from the *)
(* keys that voted to the blocks they voted for; first, the block that     *)
(* precommits[0] votes for.  A voter signed with the id of the set that    *)
(* justifies the target, whatever id the reader assumes.                   *)
(***************************************************************************)
Signers(commit, signed_message) ==
    {v \in DOMAIN commit.precommits :
        verify_signature(v, signed_message,
            Signature(v, SignedMessage(commit.precommits[v],
                                       JustifyingSet(commit.target))))}

(* The loop over the authorities, common to the indexer and the fetcher:   *)
(* one slot per authority, in the order of the set.                        *)
JustificationData(authorities, signed_message, signers) ==
    [signed_message   |-> signed_message,
     pubkeys          |-> authorities,
     validator_signed |-> [i \in 1 .. Len(authorities) |->
                              authorities[i] \in signers],
     signatures       |-> [i \in 1 .. Len(authorities) |->
                              IF authorities[i] \in signers
                              THEN Signature(authorities[i], signed_message)
                              ELSE DUMMY_SIGNATURE],
     num_authorities  |-> Len(authorities)]

VotingWeight(data) ==
    Cardinality({i \in 1 .. data.num_authorities : data.validator_signed[i]})

(* The hint's own threshold: it lets exactly two thirds pass. *)
EnoughVotingPower(data) == ~(VotingWeight(data) * 3 < data.num_authorities * 2)

(* get_justification_from_block pads the lists to the size of the circuit. *)
CircuitJustification(block_number, data) ==
    LET Pad(list, dummy) == [i \in Slots |-> IF i <= data.num_authorities
                                             THEN list[i] ELSE dummy]
    IN  [authority_set_id |-> JustifyingSet(block_number),
         signed_message   |-> data.signed_message,
         pubkeys          |-> Pad(data.pubkeys, DUMMY_PUBLIC_KEY),
         validator_signed |-> Pad(data.validator_signed, FALSE),
         signatures       |-> Pad(data.signatures, DUMMY_SIGNATURE),
         num_authorities  |-> data.num_authorities]

(* HintSimpleJustification panics unless all of this holds. *)
HintSimpleJustification(authority_set_id, data, justification) ==
    /\ EnoughVotingPower(data)
    /\ justification.authority_set_id = authority_set_id
    /\ \A i \in 1 .. justification.num_authorities :
          justification.validator_signed[i] =>
             verify_signature(justification.pubkeys[i],
                              justification.signed_message,
                              justification.signatures[i])

(* The prover gets a proof for the public inputs a correct request names.  *)
Provable(block_number, data) ==
    LET id == JustifyingSet(block_number)
        justification == CircuitJustification(block_number, data)
    IN  /\ HintSimpleJustification(id, data, justification)
        /\ verify_simple_justification(block_number, HeaderHash[block_number],
              id, compute_authority_set_hash(get_authorities(block_number - 1)),
              justification)
=============================================================================
