------------------------------ MODULE Operator ------------------------------
(***************************************************************************)
(* bin/vectorx.rs: the operator that keeps the contract up to date, run    *)
(* against the contract, the proving platform and a growing Avail chain.   *)
(*                                                                         *)
(* Every await of the loop that reads the contract or the chain is a step  *)
(* of its own, so proofs, guardian calls and requests of third parties     *)
(* come between any two reads.  A panic in one of the unwraps ends the     *)
(* process, which keeps no state: Restart.                                 *)
(***************************************************************************)
EXTENDS VectorX

CONSTANTS
    BlockInterval,        \* UPDATE_DELAY_BLOCKS
    DATA_COMMITMENT_MAX,  \* bound of run on one header range
    PlatformGateway,      \* the gateway the proving platform fulfils through
    MaxRestarts           \* bound on operator restarts

ASSUME OperatorAssumption ==
    /\ BlockInterval \in Nat \ {0}
    /\ DATA_COMMITMENT_MAX \in Nat \ {0}
    /\ DATA_COMMITMENT_MAX <= MAX_NUM_HEADERS
    /\ PlatformGateway \in Gateways
    /\ MaxRestarts \in Nat

VARIABLES
    op,       \* the await the operator is about to perform, and its locals
    restarts

allVars == <<vars, op, restarts>>

(* The start of an iteration of run: no local is live. *)
LoopStart ==
    [pc             |-> "rotate_function",
     functionId     |-> Zero,    \* rotate_ or header_range_function_id
     currentBlock   |-> 0,       \* current_block of the contract data
     nextExists     |-> FALSE,   \* next_authority_set_hash_exists
     headBlock      |-> 0,       \* avail_chain_latest_block_nb
     contractBlock  |-> 0,       \* contract_latest_block_nb
     blockToRequest |-> 0,       \* block_to_request
     requestSet     |-> 0,       \* request_authority_set_id
     targetBlock    |-> 0]       \* block_to_step_to

OpInit ==
    /\ Init
    /\ op = LoopStart
    /\ restarts = 0

(* current_block - 1 of a contract started at height 0: the build panics,  *)
(* or wraps to a block that does not exist and panics in the unwrap.  The  *)
(* process ends: only Restart is left.                                     *)
HasBlockBefore == op.currentBlock # 0

(* The set that justified the contract's current block. *)
CurrentSet == AuthoritySetId[op.currentBlock - 1]

-----------------------------------------------------------------------------
(* The platform (SuccinctClient, external).  A request it refuses is one   *)
(* it loses at once; a full queue loses an older request.                  *)

submit_platform_request(hr, rot) ==
    \/ /\ RequestsInFlight < MaxRequests
       /\ headerRangeRequests' = headerRangeRequests \cup hr
       /\ rotateRequests' = rotateRequests \cup rot
    \/ /\ RequestsInFlight >= MaxRequests
       /\ \/ \E old \in headerRangeRequests :
                /\ headerRangeRequests' = (headerRangeRequests \ {old}) \cup hr
                /\ rotateRequests' = rotateRequests \cup rot
          \/ \E old \in rotateRequests :
                /\ rotateRequests' = (rotateRequests \ {old}) \cup rot
                /\ headerRangeRequests' = headerRangeRequests \cup hr

-----------------------------------------------------------------------------
(* find_and_request_rotate *)

(* get_contract_data_for_rotate: three reads of the contract. *)
ReadRotateFunctionId ==
    /\ op.pc = "rotate_function" /\ initialized
    /\ op' = [op EXCEPT !.pc = "rotate_block", !.functionId = rotateFunctionId]

ReadRotateBlock ==
    /\ op.pc = "rotate_block"
    /\ op' = [op EXCEPT !.pc = "rotate_next", !.currentBlock = latestBlock]

ReadRotateNext ==
    /\ op.pc = "rotate_next" /\ HasBlockBefore
    /\ op' = [op EXCEPT !.pc = "rotate_head",
                        !.nextExists = KnownSet(CurrentSet + 1)]

(* Mutant: the comparison with the head's set is not strict. *)
RotateNeededEarly == CurrentSet <= AuthoritySetId[head - 1] /\ ~op.nextExists

(* Mutant: a rotate is requested one epoch late. *)
RotateNeededLate == CurrentSet + 1 < AuthoritySetId[head - 1] /\ ~op.nextExists

RotateNeeded == CurrentSet < AuthoritySetId[head - 1] /\ ~op.nextExists

(* Reading the head decides whether a rotate is requested. *)
ReadRotateHead ==
    /\ op.pc = "rotate_head"
    /\ op' = IF RotateNeeded THEN [op EXCEPT !.pc = "rotate_submit"]
                             ELSE [LoopStart EXCEPT !.pc = "run_head"]

request_rotate ==
    /\ op.pc = "rotate_submit"
    /\ submit_platform_request({},
          {[gateway    |-> PlatformGateway,
            functionId |-> op.functionId,
            input      |-> EncodedRotate(CurrentSet)]})
    /\ op' = [LoopStart EXCEPT !.pc = "run_head"]

-----------------------------------------------------------------------------
(* run *)

ReadHead ==
    /\ op.pc = "run_head"
    /\ op' = [op EXCEPT !.pc = "run_latest", !.headBlock = head]

(* Mutant: the head of Avail does not bound the request. *)
BlockToRequestUnbounded(avail, contract) ==
    LET max_block == DATA_COMMITMENT_MAX + contract
    IN  max_block - (max_block % BlockInterval)

(* Mutant: the multiple is strictly below the bound. *)
BlockToRequestBelow(avail, contract) ==
    LET max_block == IF avail < DATA_COMMITMENT_MAX + contract
                     THEN avail ELSE DATA_COMMITMENT_MAX + contract
    IN  max_block - ((max_block - 1) % BlockInterval) - 1

(* The highest multiple of BlockInterval up to min(head, latest + max). *)
BlockToRequest(avail, contract) ==
    LET max_block == IF avail < DATA_COMMITMENT_MAX + contract
                     THEN avail ELSE DATA_COMMITMENT_MAX + contract
    IN  max_block - (max_block % BlockInterval)

ReadLatest ==
    LET block == BlockToRequest(op.headBlock, latestBlock)
    IN  /\ op.pc = "run_latest"
        /\ op' = IF block > latestBlock
                 THEN [LoopStart EXCEPT !.pc = "range_function",
                                        !.contractBlock = latestBlock,
                                        !.blockToRequest = block]
                 ELSE LoopStart

-----------------------------------------------------------------------------
(* find_and_request_header_range *)

(* get_contract_data_for_header_range: latestBlock is read once more. *)
ReadRangeFunctionId ==
    /\ op.pc = "range_function"
    /\ op' = [op EXCEPT !.pc = "range_block",
                        !.functionId = headerRangeFunctionId]

ReadRangeBlock ==
    /\ op.pc = "range_block"
    /\ op' = [op EXCEPT !.pc = "range_next", !.currentBlock = latestBlock]

ReadRangeNext ==
    /\ op.pc = "range_next" /\ HasBlockBefore
    /\ op' = [op EXCEPT !.pc = "range_set",
                        !.nextExists = KnownSet(CurrentSet + 1)]

(* Mutant: the next set is used whether or not the contract knows it. *)
NeverWait(atEpochEnd) == FALSE

WaitForRotate(atEpochEnd) == atEpochEnd /\ ~op.nextExists

(* The set to request with; without it the next iteration rotates first. *)
ChooseRequestSet ==
    LET atEpochEnd == op.currentBlock = last_justified_block(CurrentSet, head)
    IN  /\ op.pc = "range_set"
        /\ op' = IF WaitForRotate(atEpochEnd)
                 THEN LoopStart
                 ELSE [op EXCEPT !.pc = "range_target",
                                 !.requestSet = IF atEpochEnd
                                                THEN CurrentSet + 1
                                                ELSE CurrentSet]

(* Mutant: the end of the requested set's epoch is ignored. *)
StepToBlockAcrossEpochs(max_block_to_request, last) == max_block_to_request

StepToBlock(max_block_to_request, last) ==
    IF last = 0 \/ max_block_to_request < last THEN max_block_to_request
                                               ELSE last

find_block_to_step_to ==
    /\ op.pc = "range_target"
    /\ op' = [op EXCEPT
                 !.pc = "range_submit",
                 !.targetBlock =
                     StepToBlock(op.blockToRequest,
                                 last_justified_block(op.requestSet, head))]

(* What request_header_range sends: the hashes are read from the contract  *)
(* at the block and the set chosen by the earlier reads.                   *)
HeaderRangeRequest ==
    [gateway    |-> PlatformGateway,
     functionId |-> op.functionId,
     input      |->
        [trustedBlock     |-> op.currentBlock,
         trustedHeader    |-> blockHeightToHeaderHash[op.currentBlock],
         authoritySetId   |-> op.requestSet,
         authoritySetHash |-> authoritySetIdToHash[op.requestSet],
         targetBlock      |-> op.targetBlock]]

request_header_range ==
    /\ op.pc = "range_submit"
    /\ submit_platform_request({HeaderRangeRequest}, {})
    /\ op' = LoopStart

-----------------------------------------------------------------------------
ReadStep ==
    \/ ReadRotateFunctionId \/ ReadRotateBlock \/ ReadRotateNext
    \/ ReadRotateHead
    \/ ReadHead \/ ReadLatest
    \/ ReadRangeFunctionId \/ ReadRangeBlock \/ ReadRangeNext
    \/ ChooseRequestSet \/ find_block_to_step_to

SubmitStep == request_rotate \/ request_header_range

OperatorStep ==
    \/ ReadStep /\ UNCHANGED <<vars, restarts>>
    \/ SubmitStep /\ UNCHANGED <<configVars, storeVars, head, historyVars,
                                 restarts>>

Restart ==
    /\ op # LoopStart
    /\ restarts < MaxRestarts
    /\ restarts' = restarts + 1
    /\ op' = LoopStart
    /\ UNCHANGED vars

OpNext ==
    \/ OperatorStep
    \/ Restart
    \/ Next /\ UNCHANGED <<op, restarts>>

OpSpec == OpInit /\ [][OpNext]_allVars

(***************************************************************************)
(* Fairness.  The loop runs for as long as the process does and every      *)
(* await returns.  Avail keeps finalizing.  The platform may lose or delay *)
(* any request but not every one of a request that keeps being made.  The  *)
(* guardian, third parties and restarts owe nothing.                       *)
(***************************************************************************)
ProveHeaderRange == FulfillHeaderRange /\ UNCHANGED <<op, restarts>>
ProveRotate == FulfillRotate /\ UNCHANGED <<op, restarts>>
GrowChain == FinalizeBlock /\ UNCHANGED <<op, restarts>>

FairOpSpec ==
    /\ OpSpec
    /\ WF_allVars(OperatorStep)
    /\ WF_allVars(GrowChain)
    /\ SF_allVars(ProveHeaderRange)
    /\ SF_allVars(ProveRotate)

-----------------------------------------------------------------------------
PCs == {"rotate_function", "rotate_block", "rotate_next", "rotate_head",
        "rotate_submit", "run_head", "run_latest", "range_function",
        "range_block", "range_next", "range_set", "range_target",
        "range_submit"}

Locals == [pc : PCs, functionId : FunctionIds \cup {Zero},
           currentBlock : Blocks, nextExists : BOOLEAN, headBlock : Blocks,
           contractBlock : Blocks, blockToRequest : Blocks,
           requestSet : SetIds, targetBlock : Blocks]

(* The operator's locals keep their types and, as TypeOK says of every     *)
(* request in flight, no request it submits carries a zero hash, which     *)
(* get_header_range_input_data and get_rotate_input_data would encode      *)
(* without a check.                                                        *)
OpTypeOK ==
    /\ TypeOK
    /\ op \in Locals
    /\ restarts \in 0 .. MaxRestarts

(* Whatever changed between its reads, a header range the operator is      *)
(* about to request and that is not empty lies in the epoch of the set it  *)
(* is requested with, which is the set of the block after the trusted one  *)
(* (find_and_request_header_range, find_block_to_step_to).                 *)
RequestWithinSet ==
    op.pc = "range_submit" /\ op.targetBlock > op.currentBlock =>
        /\ op.requestSet = JustifyingSet(op.currentBlock + 1)
        /\ op.requestSet = JustifyingSet(op.targetBlock)

(* If latestBlock was the same at the two reads of one iteration, the      *)
(* circuit can prove the requested range as soon as the justification of   *)
(* its target can be fetched: right hashes, right set, not longer than the *)
(* circuit, not beyond the finalized head.                                 *)
RequestProvable ==
    op.pc = "range_submit" /\ op.currentBlock = op.contractBlock
            /\ JustificationAvailable(op.targetBlock) =>
        HeaderRangeProvable(HeaderRangeRequest.input, head)

(* A rotate the operator is about to request is about a set the contract   *)
(* knows and whose epoch has ended, although the contract may have moved   *)
(* on since it was read (find_and_request_rotate).                         *)
RotateRequestProvable ==
    op.pc = "rotate_submit" => RotateProvable(EncodedRotate(CurrentSet), head)

(* An iteration does not end without a request while Avail is an interval  *)
(* ahead of the contract, provided the interval is not longer than a       *)
(* header range may be; a longer one can leave the contract behind for     *)
(* good (run).                                                             *)
NeverIdleBehind ==
    op.pc = "run_latest" /\ BlockInterval <= DATA_COMMITMENT_MAX
            /\ op.headBlock >= latestBlock + BlockInterval =>
        BlockToRequest(op.headBlock, latestBlock) > latestBlock

(* If the contract does not stay frozen, it is brought to the last         *)
(* multiple of the interval that Avail finalizes and stays there or        *)
(* beyond, through every epoch change, stale proof, lost request, change   *)
(* of function ids, operator restart and guardian reset on the way.        *)
CatchesUp ==
    <>initialized /\ <>[]~frozen =>
        <>[](latestBlock >= MaxBlock - (MaxBlock % BlockInterval))
=============================================================================
