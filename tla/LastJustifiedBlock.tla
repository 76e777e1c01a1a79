------------------------- MODULE LastJustifiedBlock -------------------------
(***************************************************************************)
(* RpcDataFetcher::last_justified_block: the binary search for the epoch   *)
(* end block of an authority set, over a chain that grows meanwhile.       *)
(*                                                                         *)
(* One iteration of the loop is one step: the two set ids it fetches are   *)
(* those of finalized blocks, which never change.  u32 arithmetic: a mid   *)
(* of 0 must never be decremented.                                         *)
(***************************************************************************)
EXTENDS Avail

(* Set ids start at 0 with the first block. *)
ASSUME FirstSetAssumption == AuthoritySetId[0] = 0

VARIABLES
    head,    \* Avail's finalized head
    phase,   \* "idle", "search" or "done"
    target,  \* target_authority_set_id
    top,     \* the head the search started from
    low,
    high,
    epoch_end_block_number

searchVars == <<phase, target, top, low, high, epoch_end_block_number>>
ljVars == <<head, searchVars>>

LJInit ==
    /\ head \in Blocks
    /\ phase = "idle"
    /\ target = 0 /\ top = 0 /\ low = 0 /\ high = 0
    /\ epoch_end_block_number = 0

Call(id) ==
    /\ phase = "idle"
    /\ phase' = "search"
    /\ target' = id
    /\ top' = head /\ low' = 0 /\ high' = head
    /\ epoch_end_block_number' = 0
    /\ UNCHANGED head

Mid == (low + high) \div 2

(* Mutant: any block of the next epoch will do. *)
AnyBlockOfNextEpoch == TRUE

(* The block before is of the target set, or there is none. *)
FirstOfNextEpoch == Mid = 0 \/ AuthoritySetId[Mid - 1] = target

(* Ordering::Equal on the epoch end, or on the first block. *)
Found ==
    /\ AuthoritySetId[Mid] = target + 1
    /\ FirstOfNextEpoch
    /\ epoch_end_block_number' = Mid
    /\ phase' = "done"
    /\ UNCHANGED <<head, target, top, low, high>>

(* Ordering::Equal inside the next epoch, or Ordering::Greater. *)
SearchBelow ==
    /\ \/ AuthoritySetId[Mid] > target + 1
       \/ AuthoritySetId[Mid] = target + 1 /\ ~FirstOfNextEpoch
    /\ high' = Mid - 1
    /\ UNCHANGED <<head, phase, target, top, low, epoch_end_block_number>>

(* Mutant: Ordering::Less keeps mid in the range. *)
AboveMidInclusive == Mid

(* Mutant: one block too many is skipped. *)
AboveMidSkipping == Mid + 2

AboveMid == Mid + 1

(* Ordering::Less *)
SearchAbove ==
    /\ AuthoritySetId[Mid] < target + 1
    /\ low' = AboveMid
    /\ UNCHANGED <<head, phase, target, top, high, epoch_end_block_number>>

Iterate ==
    /\ phase = "search" /\ low <= high
    /\ Found \/ SearchBelow \/ SearchAbove

(* The range is empty: epoch_end_block_number is still 0. *)
Exhausted ==
    /\ phase = "search" /\ low > high
    /\ phase' = "done"
    /\ UNCHANGED <<head, target, top, low, high, epoch_end_block_number>>

Grow ==
    /\ head < MaxBlock
    /\ head' = head + 1
    /\ UNCHANGED searchVars

LJNext ==
    \/ \E id \in SetIds : Call(id)
    \/ Iterate
    \/ Exhausted
    \/ Grow

LJSpec == LJInit /\ [][LJNext]_ljVars /\ WF_ljVars(Iterate \/ Exhausted)

-----------------------------------------------------------------------------
(* The bounds stay heights of the chain, up to one past either end: high   *)
(* is a u32 that mid - 1 never takes below zero.                           *)
LJTypeOK ==
    /\ head \in Blocks
    /\ phase \in {"idle", "search", "done"}
    /\ target \in SetIds
    /\ top \in Blocks
    /\ low \in 0 .. top + 1
    /\ high \in 0 .. top
    /\ epoch_end_block_number \in 0 .. top

(* The search returns the epoch end block of the target set among the      *)
(* blocks finalized when it started, and 0 if that set had not ended then. *)
SearchCorrect ==
    phase = "done" =>
        epoch_end_block_number = last_justified_block(target, top)

(* "Returns 0 if curr_authority_set_id <= target_authority_set_id", and    *)
(* only then: the sentinel that find_block_to_step_to and RotateHint take. *)
ZeroMeansCurrent ==
    phase = "done" =>
        (epoch_end_block_number = 0 <=> AuthoritySetId[top] <= target)

(* The search ends. *)
SearchEnds == phase = "search" ~> phase = "done"
=============================================================================
