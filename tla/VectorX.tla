------------------------------ MODULE VectorX ------------------------------
(***************************************************************************)
(* The VectorX contract: an on-chain light client of Avail whose state     *)
(* moves by proofs delivered through a SuccinctGateway, or by the          *)
(* guardian.                                                               *)
(*                                                                         *)
(* Anyone may request a proof.  A request in flight may be lost, delayed,  *)
(* reordered with any other step and fulfilled more than once; the proof   *)
(* is about the state the request was made in, and is checked against the  *)
(* state in which it is delivered.  A call that reverts changes nothing,   *)
(* so it is a disabled action here.                                        *)
(***************************************************************************)
EXTENDS Avail, Sequences, FiniteSets

CONSTANTS
    FunctionIds,         \* function ids the guardian may configure
    Gateways,            \* SuccinctGateway addresses
    GenesisBlocks,       \* heights the guardian may (re)start from
    MaxGuardianUpdates,  \* bound on calls of the guardian functions
    MaxRequests          \* bound on requests in flight

ASSUME GenesisAssumption == GenesisBlocks \subseteq Blocks

ASSUME BoundsAssumption == MaxGuardianUpdates \in Nat /\ MaxRequests \in Nat

VARIABLES
    initialized,              \* the initializer modifier's flag
    frozen,
    gateway,
    latestBlock,
    headerRangeFunctionId,
    rotateFunctionId,
    blockHeightToHeaderHash,  \* [Blocks -> Hash \cup {Zero}]
    authoritySetIdToHash,     \* [SetIds -> Hash \cup {Zero}]
    dataRootCommitments,      \* [Blocks \X Blocks -> Hash \cup {Zero}]
    stateRootCommitments,
    rangeStartBlocks,         \* [Blocks \X Blocks -> Blocks]
    headerRangeRequests,      \* header range calls in flight at a gateway
    rotateRequests,           \* rotate calls in flight at a gateway
    head,                     \* Avail's finalized head
    anchor,                   \* history: last height set by the guardian
    resets,                   \* history: number of updateGenesisState calls
    guardianUpdates           \* number of calls of guardian functions

configVars == <<initialized, frozen, gateway, headerRangeFunctionId,
                rotateFunctionId>>
rangeVars == <<dataRootCommitments, stateRootCommitments, rangeStartBlocks>>
storeVars == <<latestBlock, blockHeightToHeaderHash, authoritySetIdToHash,
               rangeVars>>
requestVars == <<headerRangeRequests, rotateRequests>>
historyVars == <<anchor, resets, guardianUpdates>>
vars == <<configVars, storeVars, requestVars, head, historyVars>>

HeaderRangeCall == [gateway : Gateways, functionId : FunctionIds,
                    input : HeaderRangeInput]
RotateCall == [gateway : Gateways, functionId : FunctionIds,
               input : RotateInput]

Keys == Blocks \X Blocks

(* Mutant: the key is encoded as (end, start). *)
RangeKeySwapped(_startBlock, _endBlock) == <<_endBlock, _startBlock>>

(* keccak256(abi.encode(start, end)): collision free, so the pair itself. *)
RangeKey(_startBlock, _endBlock) == <<_startBlock, _endBlock>>

-----------------------------------------------------------------------------
(* The proxy before initialize: every storage slot reads zero. *)
Init ==
    /\ initialized = FALSE
    /\ frozen = FALSE
    /\ gateway = Zero
    /\ latestBlock = 0
    /\ headerRangeFunctionId = Zero
    /\ rotateFunctionId = Zero
    /\ blockHeightToHeaderHash = [b \in Blocks |-> Zero]
    /\ authoritySetIdToHash = [s \in SetIds |-> Zero]
    /\ dataRootCommitments = [k \in Keys |-> Zero]
    /\ stateRootCommitments = [k \in Keys |-> Zero]
    /\ rangeStartBlocks = [k \in Keys |-> 0]
    /\ headerRangeRequests = {}
    /\ rotateRequests = {}
    /\ head \in Blocks
    /\ anchor = 0
    /\ resets = 0
    /\ guardianUpdates = 0

-----------------------------------------------------------------------------
(* The guardian.  Its inputs are what bin/genesis.rs and                   *)
(* bin/fill_block_range.rs print: the header hash of a finalized block and *)
(* the id and hash of the authority set AT that block.                     *)

(* The three writes that initialize and updateGenesisState share. *)
SetGenesis(_height) ==
    /\ blockHeightToHeaderHash' =
          [blockHeightToHeaderHash EXCEPT ![_height] = HeaderHash[_height]]
    /\ authoritySetIdToHash' =
          [authoritySetIdToHash EXCEPT ![AuthoritySetId[_height]] =
              AuthoritySetHash[AuthoritySetId[_height]]]
    /\ latestBlock' = _height
    /\ anchor' = _height

initialize(_height, _gateway, _headerRangeFunctionId, _rotateFunctionId) ==
    /\ ~initialized
    /\ _height <= head
    /\ initialized' = TRUE
    /\ gateway' = _gateway
    /\ headerRangeFunctionId' = _headerRangeFunctionId
    /\ rotateFunctionId' = _rotateFunctionId
    /\ SetGenesis(_height)
    /\ UNCHANGED <<frozen, rangeVars, requestVars, head, resets,
                   guardianUpdates>>

(* The guardian role is granted by initialize. *)
onlyGuardian ==
    /\ initialized
    /\ guardianUpdates < MaxGuardianUpdates
    /\ guardianUpdates' = guardianUpdates + 1

updateFreeze(_freeze) ==
    /\ onlyGuardian
    /\ frozen' = _freeze
    /\ UNCHANGED <<initialized, gateway, headerRangeFunctionId,
                   rotateFunctionId, storeVars, requestVars, head, anchor,
                   resets>>

updateFunctionIds(_headerRangeFunctionId, _rotateFunctionId) ==
    /\ onlyGuardian
    /\ headerRangeFunctionId' = _headerRangeFunctionId
    /\ rotateFunctionId' = _rotateFunctionId
    /\ UNCHANGED <<initialized, frozen, gateway, storeVars, requestVars, head,
                   anchor, resets>>

updateGateway(_gateway) ==
    /\ onlyGuardian
    /\ gateway' = _gateway
    /\ UNCHANGED <<initialized, frozen, headerRangeFunctionId,
                   rotateFunctionId, storeVars, requestVars, head, anchor,
                   resets>>

(* May move the head back; what was stored above it stays stored. *)
updateGenesisState(_height) ==
    /\ onlyGuardian
    /\ _height <= head
    /\ SetGenesis(_height)
    /\ resets' = resets + 1
    /\ UNCHANGED <<configVars, rangeVars, requestVars, head>>

(***************************************************************************)
(* bin/fill_block_range.rs: cut (start, end] into batches of at most       *)
(* MAX_NUM_HEADERS blocks, as the two arrays it posts.                     *)
(***************************************************************************)
NumBatches(start, end) ==
    (end - start + MAX_NUM_HEADERS - 1) \div MAX_NUM_HEADERS

FillStartBlocks(start, end) ==
    [i \in 1 .. NumBatches(start, end) |-> start + (i - 1) * MAX_NUM_HEADERS]

(* Mutant: the last batch is not cut at end. *)
FillEndBlocksUncut(start, end) ==
    [i \in 1 .. NumBatches(start, end) |-> start + i * MAX_NUM_HEADERS]

FillEndBlocks(start, end) ==
    [i \in 1 .. NumBatches(start, end) |->
        IF start + i * MAX_NUM_HEADERS < end THEN start + i * MAX_NUM_HEADERS
                                             ELSE end]

(* Mutant: the authority set is fetched at the first block of the fill. *)
FillAuthoritySetAtStart(start, end) == AuthoritySetId[start]

FillEndAuthoritySetId(start, end) == AuthoritySetId[end]

(* Mutant: nothing ties the posted ranges to the head of the contract. *)
LinkedAmongThemselves(_startBlocks, _endBlocks) ==
    \A i \in 1 .. Len(_startBlocks) - 1 : _endBlocks[i] = _startBlocks[i + 1]

(* The require statements of updateBlockRangeData. *)
LinkedToHead(_startBlocks, _endBlocks) ==
    /\ _startBlocks[1] = latestBlock
    /\ \A i \in 1 .. Len(_startBlocks) - 1 :
          _endBlocks[i] = _startBlocks[i + 1]

(***************************************************************************)
(* The guardian's script reads latestBlock, fetches the data and posts it  *)
(* later: start is whatever it read, and only the require below protects   *)
(* against a commit in between.                                            *)
(***************************************************************************)
updateBlockRangeData(_startBlocks, _endBlocks, _endAuthoritySetId) ==
    LET n == Len(_startBlocks)
        keys == {RangeKey(_startBlocks[i], _endBlocks[i]) : i \in 1 .. n}
        ends == {_endBlocks[i] : i \in 1 .. n}
    IN  /\ onlyGuardian
        /\ n > 0 /\ Len(_endBlocks) = n
        /\ LinkedToHead(_startBlocks, _endBlocks)
        /\ dataRootCommitments' =
              [k \in Keys |-> IF k \in keys THEN DataRootCommitment[k]
                                            ELSE dataRootCommitments[k]]
        /\ stateRootCommitments' =
              [k \in Keys |-> IF k \in keys THEN StateRootCommitment[k]
                                            ELSE stateRootCommitments[k]]
        /\ rangeStartBlocks' =
              [k \in Keys |-> IF k \in keys THEN k[1]
                                            ELSE rangeStartBlocks[k]]
        /\ blockHeightToHeaderHash' =
              [b \in Blocks |-> IF b \in ends THEN HeaderHash[b]
                                              ELSE blockHeightToHeaderHash[b]]
        /\ authoritySetIdToHash' =
              [authoritySetIdToHash EXCEPT ![_endAuthoritySetId] =
                  AuthoritySetHash[_endAuthoritySetId]]
        /\ latestBlock' = _endBlocks[n]
        /\ UNCHANGED <<configVars, requestVars, head, anchor, resets>>

-----------------------------------------------------------------------------
(* Header ranges. *)

(* abi.encodePacked of the contract's current view of the range. *)
EncodedHeaderRange(_authoritySetId, _block) ==
    [trustedBlock     |-> latestBlock,
     trustedHeader    |-> blockHeightToHeaderHash[latestBlock],
     authoritySetId   |-> _authoritySetId,
     authoritySetHash |-> authoritySetIdToHash[_authoritySetId],
     targetBlock      |-> _block]

RequestsInFlight == Cardinality(headerRangeRequests)
                        + Cardinality(rotateRequests)

(* Open to anyone, also while the contract is frozen. *)
requestHeaderRange(_authoritySetId, _requestedBlock) ==
    /\ blockHeightToHeaderHash[latestBlock] # Zero
    /\ authoritySetIdToHash[_authoritySetId] # Zero
    /\ _requestedBlock > latestBlock
    /\ RequestsInFlight < MaxRequests
    /\ headerRangeRequests' = headerRangeRequests \cup
          {[gateway    |-> gateway,
            functionId |-> headerRangeFunctionId,
            input      |-> EncodedHeaderRange(_authoritySetId,
                                              _requestedBlock)]}
    /\ UNCHANGED <<configVars, storeVars, rotateRequests, head, historyVars>>

(***************************************************************************)
(* SuccinctGateway.verifiedCall during the fulfilment of call: it answers  *)
(* only at the gateway that fulfils, for that function and that input.     *)
(***************************************************************************)
verifiedCall(call, functionId, input) ==
    /\ call.gateway = gateway
    /\ call.functionId = functionId
    /\ call.input = input

(***************************************************************************)
(* The callback of a fulfilled call.  Its arguments are calldata, so they  *)
(* need not be the ones in the proven input; the input is recomputed from  *)
(* the state the callback finds.                                           *)
(***************************************************************************)
commitHeaderRange(call, _authoritySetId, _targetBlock) ==
    LET input == EncodedHeaderRange(_authoritySetId, _targetBlock)
        output == HeaderRangeOutput(call.input)
        key == RangeKey(latestBlock, _targetBlock)
    IN  /\ ~frozen
        /\ blockHeightToHeaderHash[latestBlock] # Zero
        /\ authoritySetIdToHash[_authoritySetId] # Zero
        /\ _targetBlock > latestBlock
        /\ verifiedCall(call, headerRangeFunctionId, input)
        /\ blockHeightToHeaderHash' =
              [blockHeightToHeaderHash EXCEPT ![_targetBlock] =
                  output.targetHeaderHash]
        /\ dataRootCommitments' =
              [dataRootCommitments EXCEPT ![key] = output.dataRootCommitment]
        /\ stateRootCommitments' =
              [stateRootCommitments EXCEPT ![key] = output.stateRootCommitment]
        /\ rangeStartBlocks' = [rangeStartBlocks EXCEPT ![key] = latestBlock]
        /\ latestBlock' = _targetBlock
        /\ UNCHANGED <<configVars, authoritySetIdToHash, requestVars, head,
                       historyVars>>

-----------------------------------------------------------------------------
(* Authority set rotation. *)

NextAuthoritySetId(_currentAuthoritySetId) == _currentAuthoritySetId + 1

EncodedRotate(_currentAuthoritySetId) ==
    [authoritySetId   |-> _currentAuthoritySetId,
     authoritySetHash |-> authoritySetIdToHash[_currentAuthoritySetId]]

requestRotate(_currentAuthoritySetId) ==
    /\ authoritySetIdToHash[_currentAuthoritySetId] # Zero
    /\ authoritySetIdToHash[NextAuthoritySetId(_currentAuthoritySetId)] = Zero
    /\ RequestsInFlight < MaxRequests
    /\ rotateRequests' = rotateRequests \cup
          {[gateway    |-> gateway,
            functionId |-> rotateFunctionId,
            input      |-> EncodedRotate(_currentAuthoritySetId)]}
    /\ UNCHANGED <<configVars, storeVars, headerRangeRequests, head,
                   historyVars>>

(* Does not look whether the next set is already known. *)
rotate(call, _currentAuthoritySetId) ==
    LET input == EncodedRotate(_currentAuthoritySetId)
    IN  /\ ~frozen
        /\ authoritySetIdToHash[_currentAuthoritySetId] # Zero
        /\ verifiedCall(call, rotateFunctionId, input)
        /\ authoritySetIdToHash' =
              [authoritySetIdToHash EXCEPT
                  ![NextAuthoritySetId(_currentAuthoritySetId)] =
                      RotateOutput(call.input)]
        /\ UNCHANGED <<configVars, latestBlock, blockHeightToHeaderHash,
                       rangeVars, requestVars, head, historyVars>>

-----------------------------------------------------------------------------
(* The gateway, the provers and the chain. *)

(* fulfillCall: prove the input of a request, then call back.  The request *)
(* stays, so it can be fulfilled again.                                    *)
FulfillHeaderRange ==
    \E call \in headerRangeRequests :
        /\ HeaderRangeProvable(call.input, head)
        /\ \E s \in SetIds, b \in Blocks : commitHeaderRange(call, s, b)

FulfillRotate ==
    \E call \in rotateRequests :
        /\ RotateProvable(call.input, head)
        /\ \E s \in SetIds : rotate(call, s)

LoseHeaderRangeRequest ==
    /\ \E call \in headerRangeRequests :
          headerRangeRequests' = headerRangeRequests \ {call}
    /\ UNCHANGED <<configVars, storeVars, rotateRequests, head, historyVars>>

LoseRotateRequest ==
    /\ \E call \in rotateRequests : rotateRequests' = rotateRequests \ {call}
    /\ UNCHANGED <<configVars, storeVars, headerRangeRequests, head,
                   historyVars>>

FinalizeBlock ==
    /\ head < MaxBlock
    /\ head' = head + 1
    /\ UNCHANGED <<configVars, storeVars, requestVars, historyVars>>

-----------------------------------------------------------------------------
Guardian ==
    \/ \E f \in BOOLEAN : updateFreeze(f)
    \/ \E h, r \in FunctionIds : updateFunctionIds(h, r)
    \/ \E g \in Gateways : updateGateway(g)
    \/ \E h \in GenesisBlocks : updateGenesisState(h)
    \/ \E start, end \in Blocks :
          /\ start < end /\ end <= head
          /\ updateBlockRangeData(FillStartBlocks(start, end),
                                  FillEndBlocks(start, end),
                                  FillEndAuthoritySetId(start, end))

Next ==
    \/ \E h \in GenesisBlocks, g \in Gateways, f, r \in FunctionIds :
          initialize(h, g, f, r)
    \/ Guardian
    \/ \E s \in SetIds, b \in Blocks : requestHeaderRange(s, b)
    \/ \E s \in 0 .. AuthoritySetId[MaxBlock] : requestRotate(s)
    \/ FulfillHeaderRange
    \/ FulfillRotate
    \/ LoseHeaderRangeRequest
    \/ LoseRotateRequest
    \/ FinalizeBlock

Spec == Init /\ [][Next]_vars

-----------------------------------------------------------------------------
KnownHeader(b) == blockHeightToHeaderHash[b] # Zero
KnownSet(s) == authoritySetIdToHash[s] # Zero
Ranges == {k \in Keys : dataRootCommitments[k] # Zero}

(* Every variable of the contract keeps its storage type, and a request    *)
(* in flight never carries a zero header or authority set hash.            *)
TypeOK ==
    /\ initialized \in BOOLEAN
    /\ frozen \in BOOLEAN
    /\ gateway \in Gateways \cup {Zero}
    /\ latestBlock \in Blocks
    /\ headerRangeFunctionId \in FunctionIds \cup {Zero}
    /\ rotateFunctionId \in FunctionIds \cup {Zero}
    /\ blockHeightToHeaderHash \in [Blocks -> Hash \cup {Zero}]
    /\ authoritySetIdToHash \in [SetIds -> Hash \cup {Zero}]
    /\ dataRootCommitments \in [Keys -> Hash \cup {Zero}]
    /\ stateRootCommitments \in [Keys -> Hash \cup {Zero}]
    /\ rangeStartBlocks \in [Keys -> Blocks]
    /\ headerRangeRequests \subseteq HeaderRangeCall
    /\ rotateRequests \subseteq RotateCall
    /\ head \in Blocks
    /\ anchor \in Blocks
    /\ resets \in Nat
    /\ guardianUpdates \in Nat

(* Before initialize nothing is known and nothing can be requested; after  *)
(* it the gateway and both function ids are configured ones.               *)
Configured ==
    IF initialized
    THEN /\ gateway \in Gateways
         /\ headerRangeFunctionId \in FunctionIds
         /\ rotateFunctionId \in FunctionIds
    ELSE /\ \A b \in Blocks : ~KnownHeader(b)
         /\ \A s \in SetIds : ~KnownSet(s)
         /\ Ranges = {}
         /\ headerRangeRequests = {} /\ rotateRequests = {}

(* Whatever mix of delayed, repeated and reordered proofs, rotations and   *)
(* guardian writes happened, every header hash, authority set hash and     *)
(* commitment the contract stores is the one of the Avail chain for that   *)
(* very height, set id or range (VectorX.sol: blockHeightToHeaderHash,     *)
(* authoritySetIdToHash, dataRootCommitments, stateRootCommitments).       *)
CanonicalStore ==
    /\ \A b \in Blocks :
          KnownHeader(b) => blockHeightToHeaderHash[b] = HeaderHash[b]
    /\ \A s \in SetIds :
          KnownSet(s) => authoritySetIdToHash[s] = AuthoritySetHash[s]
    /\ \A k \in Ranges :
          /\ dataRootCommitments[k] = DataRootCommitment[k]
          /\ stateRootCommitments[k] = StateRootCommitment[k]
          /\ rangeStartBlocks[k] = k[1]

(* The contract never runs ahead of the chain: no header above the         *)
(* finalized head, and no authority set that no finalized block announced. *)
NothingFromTheFuture ==
    /\ \A b \in Blocks : KnownHeader(b) => b <= head
    /\ \A s \in SetIds : KnownSet(s) => s <= AuthoritySetId[head]

(* Every block between the last height set by the guardian and latestBlock *)
(* lies in a stored commitment range that is itself between the two, and   *)
(* both ends of every stored range have stored headers: what a consumer of *)
(* the data root commitments relies on.                                    *)
Coverage ==
    initialized =>
        /\ anchor <= latestBlock
        /\ KnownHeader(latestBlock)
        /\ \A b \in anchor + 1 .. latestBlock : \E k \in Ranges :
              anchor <= k[1] /\ k[1] < b /\ b <= k[2] /\ k[2] <= latestBlock
        /\ \A k \in Ranges :
              k[1] < k[2] /\ KnownHeader(k[1]) /\ KnownHeader(k[2])

(* As long as the guardian never resets the genesis state, the stored      *)
(* ranges do not overlap and stay between the genesis height and           *)
(* latestBlock: with Coverage, they partition those blocks, so a block is  *)
(* committed exactly once although proofs race each other.                 *)
Disjoint ==
    resets = 0 =>
        \A k \in Ranges :
            /\ anchor <= k[1] /\ k[2] <= latestBlock
            /\ \A l \in Ranges \ {k} : k[2] <= l[1] \/ l[2] <= k[1]

(* The contract is never stuck for want of an authority set: it knows the  *)
(* set that justifies the block after latestBlock, or the set before it,   *)
(* from which that set can be rotated in.                                  *)
CanAdvance ==
    initialized =>
        \E s \in SetIds : /\ KnownSet(s)
                           /\ s <= AuthoritySetId[latestBlock]
                           /\ s + 1 >= AuthoritySetId[latestBlock]

(* A stored header hash, authority set hash or commitment is never changed *)
(* or erased by any later call, the guardian's included.                   *)
WriteOnce ==
    [][/\ \A b \in Blocks : KnownHeader(b) =>
              blockHeightToHeaderHash'[b] = blockHeightToHeaderHash[b]
       /\ \A s \in SetIds : KnownSet(s) =>
              authoritySetIdToHash'[s] = authoritySetIdToHash[s]
       /\ \A k \in Ranges :
              /\ dataRootCommitments'[k] = dataRootCommitments[k]
              /\ stateRootCommitments'[k] = stateRootCommitments[k]]_vars

(* Without the guardian the head of an initialized contract only moves     *)
(* forward, by at most one circuit's worth of headers, to a block that a   *)
(* set known to the contract justified, and it brings the commitments of   *)
(* exactly the blocks it passed.                                           *)
ProvenAdvance ==
    [][initialized /\ guardianUpdates' = guardianUpdates
            /\ latestBlock' # latestBlock =>
          /\ latestBlock < latestBlock'
          /\ latestBlock' <= latestBlock + MAX_NUM_HEADERS
          /\ KnownSet(JustifyingSet(latestBlock'))
          /\ Ranges' = Ranges \cup {<<latestBlock, latestBlock'>>}]_vars

(* What the contract's comments ask of a header range: the trusted block   *)
(* and the requested block have the same authority set, the one that       *)
(* justifies the block after the trusted one.                              *)
SameAuthoritySet ==
    \A call \in headerRangeRequests :
        HeaderRangeProvable(call.input, head) =>
            call.input.authoritySetId =
                JustifyingSet(call.input.trustedBlock + 1)

(***************************************************************************)
(* The refinement mapping: the facts are the entries of the mappings that  *)
(* are not zero.                                                           *)
(***************************************************************************)
HeaderFacts == {<<b, blockHeightToHeaderHash[b]>> :
                    b \in {c \in Blocks : KnownHeader(c)}}
SetFacts == {<<s, authoritySetIdToHash[s]>> :
                 s \in {t \in SetIds : KnownSet(t)}}
CommitmentFacts == {<<k, dataRootCommitments[k], stateRootCommitments[k]>> :
                        k \in Ranges}

LC == INSTANCE LightClient WITH
          finalized   <- head,
          tip         <- latestBlock,
          headers     <- HeaderFacts,
          sets        <- SetFacts,
          commitments <- CommitmentFacts

(* The contract implements the abstract light client: whatever proofs are  *)
(* requested, lost, delayed or delivered twice and whatever the guardian   *)
(* reconfigures, the store changes only by a step that a light client that *)
(* sees the chain itself could take (VectorX.sol, every function that      *)
(* writes).                                                                *)
ImplementsLightClient == LC!LCSpec
=============================================================================
