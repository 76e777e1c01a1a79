------------------------------- MODULE Avail -------------------------------
(***************************************************************************)
(* The finalized Avail chain, as the code of this repository reads it, and *)
(* what the two Vector X circuits attest about it.                         *)
(*                                                                         *)
(* The chain itself is external.  GRANDPA finalizes one header per height, *)
(* so the chain is given by constant functions of the height.  The id in   *)
(* grandpa.current_set_id at block b is AuthoritySetId[b]; it changes at   *)
(* an epoch end block, which is the LAST block justified by the old set:   *)
(* block b is justified by the set stored at block b - 1.                  *)
(***************************************************************************)
EXTENDS Integers

CONSTANTS
    MaxBlock,             \* the highest height of the instance
    AuthoritySetId,       \* [Blocks -> Nat]: grandpa.current_set_id at a block
    Hash,                 \* the non-zero bytes32 values
    Zero,                 \* bytes32(0), what an unset mapping entry reads
    HeaderHash,           \* [Blocks -> Hash]: hash of the header at a height
    AuthoritySetHash,     \* [SetIds -> Hash]: hash of a set's public keys
    DataRootCommitment,   \* [Blocks \X Blocks -> Hash]: root over (s, e]
    StateRootCommitment,  \* [Blocks \X Blocks -> Hash]: root over (s, e]
    MAX_NUM_HEADERS,      \* headers a header range circuit can hold
    Unindexed             \* blocks whose justification bin/indexer.rs missed

Blocks == 0 .. MaxBlock

\* One id beyond the last announced set: requestRotate reads it.
SetIds == 0 .. AuthoritySetId[MaxBlock] + 1

(* Heights are naturals and the instance has at least one block after 0. *)
ASSUME MaxBlockAssumption == MaxBlock \in Nat \ {0}

(* A set id never decreases and is never skipped from a block to the next. *)
ASSUME AuthoritySetIdAssumption ==
    /\ AuthoritySetId \in [Blocks -> Nat]
    /\ \A a, b \in Blocks : a <= b => AuthoritySetId[a] <= AuthoritySetId[b]
    /\ \A b \in Blocks \ {0} : AuthoritySetId[b] <= AuthoritySetId[b - 1] + 1

(* Hashes are opaque; none of the values the code hashes to is bytes32(0). *)
ASSUME HashAssumption ==
    /\ Zero \notin Hash
    /\ HeaderHash \in [Blocks -> Hash]
    /\ AuthoritySetHash \in [SetIds -> Hash]
    /\ DataRootCommitment \in [Blocks \X Blocks -> Hash]
    /\ StateRootCommitment \in [Blocks \X Blocks -> Hash]

ASSUME MaxNumHeadersAssumption == MAX_NUM_HEADERS \in Nat \ {0}

-----------------------------------------------------------------------------
(* The set whose precommits justify block b (the set of its parent). *)
JustifyingSet(b) == AuthoritySetId[b - 1]

(* b is the last block justified by set id, and announces set id + 1. *)
IsEpochEnd(id, b) ==
    /\ b # 0
    /\ AuthoritySetId[b - 1] = id
    /\ AuthoritySetId[b] = id + 1

(* last_justified_block(id) when the finalized head is head: the epoch end *)
(* of set id, or 0 while the set is still the current one.                 *)
last_justified_block(id, head) ==
    IF \E b \in Blocks : b <= head /\ IsEpochEnd(id, b)
    THEN CHOOSE b \in Blocks : b <= head /\ IsEpochEnd(id, b)
    ELSE 0

(* get_justification_data: an epoch end block has its justification served *)
(* by grandpa_proveFinality, any other block only if the indexer stored it *)
(* in Redis.                                                               *)
JustificationAvailable(b) ==
    IsEpochEnd(JustifyingSet(b), b) \/ b \notin Unindexed

-----------------------------------------------------------------------------
(* Public inputs and outputs of the circuits, and when a proof exists.     *)

HeaderRangeInput == [trustedBlock     : Blocks,
                     trustedHeader    : Hash,
                     authoritySetId   : SetIds,
                     authoritySetHash : Hash,
                     targetBlock      : Blocks]

RotateInput == [authoritySetId : SetIds, authoritySetHash : Hash]

(***************************************************************************)
(* CombinedHeaderRangeCircuit: verify_subchain links every header of       *)
(* (trustedBlock, targetBlock] to the trusted header hash, by parent hash  *)
(* and by number, and holds at most MAX_NUM_HEADERS of them;               *)
(* verify_simple_justification needs more than 2/3 of the set with the     *)
(* given hash to have precommitted the target header under the given id.   *)
(* No constraint relates the set of the trusted block to the given set.    *)
(***************************************************************************)
HeaderRangeProvable(input, head) ==
    /\ input.trustedBlock < input.targetBlock
    /\ input.targetBlock <= head
    /\ input.targetBlock <= input.trustedBlock + MAX_NUM_HEADERS
    /\ JustificationAvailable(input.targetBlock)
    /\ input.trustedHeader = HeaderHash[input.trustedBlock]
    /\ input.authoritySetId = JustifyingSet(input.targetBlock)
    /\ input.authoritySetHash = AuthoritySetHash[input.authoritySetId]

HeaderRangeOutput(input) ==
    [targetHeaderHash    |-> HeaderHash[input.targetBlock],
     stateRootCommitment |->
        StateRootCommitment[<<input.trustedBlock, input.targetBlock>>],
     dataRootCommitment  |->
        DataRootCommitment[<<input.trustedBlock, input.targetBlock>>]]

(***************************************************************************)
(* RotateCircuit: the hint fetches the epoch end block of the given set,   *)
(* the circuit checks that the set justified it and that its digest        *)
(* announces the returned set, which is taken to have two members at least *)
(* (see RotateComplete in Rotate).                                         *)
(***************************************************************************)
RotateProvable(input, head) ==
    /\ \E b \in Blocks : b <= head /\ IsEpochEnd(input.authoritySetId, b)
    /\ input.authoritySetHash = AuthoritySetHash[input.authoritySetId]

RotateOutput(input) == AuthoritySetHash[input.authoritySetId + 1]
=============================================================================
