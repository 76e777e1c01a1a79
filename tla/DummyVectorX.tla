---------------------------- MODULE DummyVectorX ----------------------------
(***************************************************************************)
(* The contract configured with the function ids of the dummy programs,    *)
(* which read the answer from an Avail node instead of proving it.  Only   *)
(* the finalized chain is modelled: a program asked about a block above    *)
(* the finalized head fails.                                               *)
(***************************************************************************)
EXTENDS VectorX

(* The panic of get_merkle_root_commitments. *)
RangeTooLarge(input) ==
    input.targetBlock - input.trustedBlock > MAX_NUM_HEADERS

(* DummyHeaderRange::run returns; the trusted header hash and the          *)
(* authority set of the input are read and dropped.                        *)
DummyHeaderRangeReturns(input) == input.targetBlock <= head /\ ~RangeTooLarge(input)

(* Mutant: the commitments leave out the first block of the range. *)
DummyHeaderRangeFromNext(input) ==
    LET range == <<input.trustedBlock + 1, input.targetBlock>>
    IN  [targetHeaderHash    |-> HeaderHash[input.targetBlock],
         stateRootCommitment |-> StateRootCommitment[range],
         dataRootCommitment  |-> DataRootCommitment[range]]

DummyHeaderRange(input) ==
    LET range == <<input.trustedBlock, input.targetBlock>>
    IN  [targetHeaderHash    |-> HeaderHash[input.targetBlock],
         stateRootCommitment |-> StateRootCommitment[range],
         dataRootCommitment  |-> DataRootCommitment[range]]

(* RpcDataFetcher::compute_authority_set_hash. *)
compute_authority_set_hash(b) == AuthoritySetHash[AuthoritySetId[b]]

(* Mutant: the set that justified the epoch end block. *)
DummyRotateOfParent(input) ==
    LET b == last_justified_block(input.authoritySetId, head)
    IN  compute_authority_set_hash(IF b = 0 THEN 0 ELSE b - 1)

(* DummyRotate::run; it always returns, with the authorities of block 0    *)
(* when last_justified_block answers that the set has not ended.           *)
DummyRotate(input) ==
    compute_authority_set_hash(last_justified_block(input.authoritySetId, head))

-----------------------------------------------------------------------------
(* The callbacks of VectorX with the output of a dummy program. *)

DummyFulfillHeaderRange ==
    \E call \in headerRangeRequests, s \in SetIds, b \in Blocks :
        LET output == DummyHeaderRange(call.input)
            key == RangeKey(latestBlock, b)
        IN  /\ DummyHeaderRangeReturns(call.input)
            /\ ~frozen
            /\ KnownHeader(latestBlock) /\ KnownSet(s) /\ b > latestBlock
            /\ verifiedCall(call, headerRangeFunctionId, EncodedHeaderRange(s, b))
            /\ blockHeightToHeaderHash' =
                  [blockHeightToHeaderHash EXCEPT ![b] = output.targetHeaderHash]
            /\ dataRootCommitments' =
                  [dataRootCommitments EXCEPT ![key] = output.dataRootCommitment]
            /\ stateRootCommitments' =
                  [stateRootCommitments EXCEPT ![key] = output.stateRootCommitment]
            /\ rangeStartBlocks' = [rangeStartBlocks EXCEPT ![key] = latestBlock]
            /\ latestBlock' = b
            /\ UNCHANGED <<configVars, authoritySetIdToHash, requestVars, head,
                           historyVars>>

DummyFulfillRotate ==
    \E call \in rotateRequests, s \in SetIds :
        /\ ~frozen
        /\ KnownSet(s)
        /\ verifiedCall(call, rotateFunctionId, EncodedRotate(s))
        /\ authoritySetIdToHash' =
              [authoritySetIdToHash EXCEPT
                  ![NextAuthoritySetId(s)] = DummyRotate(call.input)]
        /\ UNCHANGED <<configVars, latestBlock, blockHeightToHeaderHash,
                       rangeVars, requestVars, head, historyVars>>

DummyNext ==
    \/ \E h \in GenesisBlocks, g \in Gateways, f, r \in FunctionIds :
          initialize(h, g, f, r)
    \/ Guardian
    \/ \E s \in SetIds, b \in Blocks : requestHeaderRange(s, b)
    \/ \E s \in 0 .. AuthoritySetId[MaxBlock] : requestRotate(s)
    \/ DummyFulfillHeaderRange
    \/ DummyFulfillRotate
    \/ LoseHeaderRangeRequest
    \/ LoseRotateRequest
    \/ FinalizeBlock

DummySpec == Init /\ [][DummyNext]_vars

-----------------------------------------------------------------------------
(* The headers and the commitments stay those of the chain although the    *)
(* program ignores the trusted header and the authority set: the contract  *)
(* pins both (dummy_header_range.rs: run; VectorX.sol: commitHeaderRange). *)
DummyRangesCanonical ==
    /\ \A b \in Blocks :
          KnownHeader(b) => b <= head /\ blockHeightToHeaderHash[b] = HeaderHash[b]
    /\ \A k \in Ranges :
          /\ dataRootCommitments[k] = DataRootCommitment[k]
          /\ stateRootCommitments[k] = StateRootCommitment[k]

(* The only authority set hash that can be stored under a wrong id is that *)
(* of the set of block 0, under an id whose epoch a rotate was asked for   *)
(* before it ended (dummy_rotate.rs: run).                                 *)
WrongSetIsThatOfBlockZero ==
    \A s \in SetIds :
        KnownSet(s) => authoritySetIdToHash[s] \in
                           {AuthoritySetHash[s], compute_authority_set_hash(0)}
=============================================================================
