---------------------------- MODULE HeaderRange ----------------------------
(***************************************************************************)
(* CombinedHeaderRangeCircuit: verify_subchain and then                    *)
(* verify_simple_justification on what it returned, for public inputs that *)
(* the contract can name.  It grounds HeaderRangeProvable and              *)
(* HeaderRangeOutput of Avail, on which the modules of the contract and of *)
(* the operator rest.                                                      *)
(*                                                                         *)
(* The headers are any that satisfy the constraints.  The justification is *)
(* the one the hint builds: the authorities of the parent of the target,   *)
(* with the precommits of some of them for some finalized block.           *)
(***************************************************************************)
EXTENDS SubchainVerification, Justification

(* The contract stores for a range what get_merkle_root_commitments posts. *)
ASSUME CommitmentsAssumption ==
    \A s, e \in Blocks : e - s \in 1 .. MAX_NUM_HEADERS =>
        [state |-> StateRootCommitment[<<s, e>>],
         data  |-> DataRootCommitment[<<s, e>>]]
            = get_merkle_root_commitments(s, e)

VARIABLES
    authority_set_id,   \* NotRead until the justification is checked
    evm_output          \* what the proof writes; NotWritten: no proof yet

headerRangeVars == <<vars, authority_set_id, evm_output>>

NotRead == -1
NotWritten == [targetHeaderHash |-> Zero]

(* The set is not used before the justification, so it is chosen there.    *)
HeaderRangeInit ==
    /\ Init
    /\ authority_set_id = NotRead
    /\ evm_output = NotWritten

VerifySubchain ==
    /\ Next
    /\ UNCHANGED <<authority_set_id, evm_output>>

(* The authorities that signed message are signers. *)
HintedData(message, signers) ==
    JustificationData(get_authorities(target_block - 1), message, signers)

(* The justification is fetched for the target, if it is served; the block *)
(* it is about is for the constraints to compare.  The set hash of the     *)
(* public input is the one that the contract stores for the id.            *)
Justified(set_id, message, signers) ==
    LET data == HintedData(message, signers)
        justification == CircuitJustification(target_block, data)
    IN  /\ JustificationAvailable(target_block)
        /\ HintSimpleJustification(set_id, data, justification)
        /\ verify_simple_justification(target_block, output.target_header_hash,
               set_id, AuthoritySetHash[set_id], justification)

define(set_id, message, signers) ==
    /\ phase = "done" /\ evm_output = NotWritten
    /\ Justified(set_id, message, signers)
    /\ authority_set_id' = set_id
    /\ evm_output' = [targetHeaderHash    |-> output.target_header_hash,
                      stateRootCommitment |-> output.state_root_merkle_root,
                      dataRootCommitment  |-> output.data_root_merkle_root]
    /\ UNCHANGED vars

HeaderRangeNext ==
    \/ VerifySubchain
    \/ /\ target_block > 0
       /\ \E s \in SetIds, b \in Blocks \ {0} :
          \E signers \in SUBSET Members(JustifyingSet(b)) :
             define(s, SignedMessage(b, JustifyingSet(b)), signers)

HeaderRangeSpec == HeaderRangeInit /\ [][HeaderRangeNext]_headerRangeVars

-----------------------------------------------------------------------------
Input(set_id) ==
    [trustedBlock     |-> trusted_block,
     trustedHeader    |-> HeaderHash[trusted_block],
     authoritySetId   |-> set_id,
     authoritySetHash |-> AuthoritySetHash[set_id],
     targetBlock      |-> target_block]

(* A proof exists only for an input that HeaderRangeProvable admits, and   *)
(* its output is the header of the target and the two commitments that the *)
(* fetcher computes off chain, whatever headers were supplied: forks,      *)
(* skipped heights and padding included (header_range.rs: define).  A      *)
(* range longer than MAX_NUM_HEADERS, which no request of the contract     *)
(* names, may fit a circuit that was rounded up, and is left out.          *)
HeaderRangeSound ==
    evm_output # NotWritten /\ Length <= MAX_NUM_HEADERS =>
        /\ HeaderRangeProvable(Input(authority_set_id), MaxBlock)
        /\ evm_output = HeaderRangeOutput(Input(authority_set_id))

(* For an input that HeaderRangeProvable admits the prover of this         *)
(* repository gets a proof: no assertion fails on the headers it fetches,  *)
(* and with the precommits of all authorities the justification passes     *)
(* (header_range.rs: define).                                              *)
HeaderRangeComplete ==
    \A s \in SetIds : honest /\ HeaderRangeProvable(Input(s), MaxBlock) =>
        /\ HonestProverSucceeds
        /\ phase = "done" =>
              Justified(s, SignedMessage(target_block, s), Members(s))
=============================================================================
