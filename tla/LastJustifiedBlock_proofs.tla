---------------------- MODULE LastJustifiedBlock_proofs ----------------------
(***************************************************************************)
(* The binary search of last_justified_block is correct for every chain,   *)
(* every head it starts from and every set id.                             *)
(*                                                                         *)
(* The loop invariant says that the epoch end block, if there is one, is   *)
(* never thrown out of low .. high, and that the set ids just outside the  *)
(* range lie on the expected side of the target.  The second part is what  *)
(* makes the sentinel 0 mean that the target set has not ended: when the   *)
(* range is empty, its two sides are neighbours.                           *)
(***************************************************************************)
EXTENDS LastJustifiedBlock, Avail_proofs

(* What holds at the head of the while loop. *)
LoopInv ==
    /\ epoch_end_block_number = 0
    /\ low <= high + 1
    /\ low > 0 => AuthoritySetId[low - 1] <= target
    /\ high < top => AuthoritySetId[high + 1] > target
    /\ \A e \in Blocks :
          e <= top /\ IsEpochEnd(target, e) => low <= e /\ e <= high

LJInv ==
    /\ LJTypeOK
    /\ phase = "search" => LoopInv
    /\ SearchCorrect
    /\ ZeroMeansCurrent

-----------------------------------------------------------------------------
(* The set ids of the chain, as facts about single blocks. *)
LEMMA ChainFacts ==
    /\ MaxBlock \in Nat \ {0}
    /\ \A b \in Blocks : b \in Nat /\ b <= MaxBlock /\ AuthoritySetId[b] \in Nat
    /\ \A a, b \in Blocks : a <= b => AuthoritySetId[a] <= AuthoritySetId[b]
    /\ \A b \in Blocks \ {0} :
          b - 1 \in Blocks /\ AuthoritySetId[b] <= AuthoritySetId[b - 1] + 1
    /\ AuthoritySetId[0] = 0
    /\ \A s \in SetIds : s \in Nat
BY SetIdOfBlock, FirstSetAssumption

LEMMA LastJustifiedIsZero ==
    ASSUME NEW id, NEW h,
           \A b \in Blocks : ~(b <= h /\ IsEpochEnd(id, b))
    PROVE  last_justified_block(id, h) = 0
BY DEF last_justified_block

(* Mid lies in the range and halves it. *)
LEMMA MidBounds ==
    ASSUME LJTypeOK, low <= high
    PROVE  Mid \in Blocks /\ low <= Mid /\ Mid <= high /\ Mid <= top
<1>1. low \in Nat /\ high \in Nat /\ top \in Nat /\ high <= top
         /\ top <= MaxBlock /\ MaxBlock \in Nat
  BY ChainFacts DEF LJTypeOK, Blocks
<1>2. Mid \in Int /\ low <= Mid /\ Mid <= high
  BY <1>1 DEF Mid
<1> QED BY <1>1, <1>2 DEF Blocks

-----------------------------------------------------------------------------
LEMMA LJInvInit == LJInit => LJInv
<1> SUFFICES ASSUME LJInit PROVE LJInv
  OBVIOUS
<1>1. 0 \in Blocks /\ 0 \in SetIds
  BY ChainFacts, MaxBlockAssumption, AuthoritySetIdAssumption
     DEF Blocks, SetIds
<1>2. LJTypeOK
  BY <1>1 DEF LJInit, LJTypeOK
<1> QED BY <1>2 DEF LJInit, LJInv, SearchCorrect, ZeroMeansCurrent

(* A call starts with the whole chain in range. *)
LEMMA CallStep ==
    ASSUME LJInv, NEW id \in SetIds, Call(id)
    PROVE  LJInv'
<1>1. LJTypeOK'
  BY ChainFacts DEF LJInv, LJTypeOK, Call, Blocks
<1>2. LoopInv'
  BY ChainFacts DEF LJInv, LJTypeOK, Call, LoopInv, IsEpochEnd, Blocks
<1> QED BY <1>1, <1>2 DEF LJInv, Call, SearchCorrect, ZeroMeansCurrent

(* The two sets around a found block decide both results. *)
LEMMA FoundStep ==
    ASSUME LJInv, phase = "search", low <= high, Found
    PROVE  LJInv'
<1>1. Mid \in Blocks /\ Mid <= high /\ Mid <= top
         /\ target \in SetIds /\ top \in Blocks
  BY MidBounds DEF LJInv, LJTypeOK
<1>2. Mid # 0 /\ AuthoritySetId[Mid - 1] = target
  BY <1>1, ChainFacts DEF Found, FirstOfNextEpoch
<1>3. IsEpochEnd(target, Mid)
  BY <1>2 DEF Found, IsEpochEnd
<1>4. last_justified_block(target, top) = Mid
  BY <1>1, <1>3, LastJustifiedIs
<1>5. AuthoritySetId[Mid] <= AuthoritySetId[top]
  BY <1>1, ChainFacts
<1>6. AuthoritySetId[top] > target
  BY <1>1, <1>5, ChainFacts DEF Found
<1>7. LJTypeOK'
  BY <1>1, ChainFacts DEF LJInv, LJTypeOK, Found, Blocks
<1>8. SearchCorrect'
  BY <1>4 DEF Found, SearchCorrect
<1>9. ZeroMeansCurrent'
  BY <1>1, <1>2, <1>6, ChainFacts DEF Found, ZeroMeansCurrent
<1> QED BY <1>7, <1>8, <1>9 DEF LJInv, Found

LEMMA BelowStep ==
    ASSUME LJInv, phase = "search", low <= high, SearchBelow
    PROVE  LJInv'
<1>1. /\ Mid \in Blocks /\ low <= Mid /\ Mid <= high /\ Mid <= top
      /\ target \in SetIds /\ top \in Blocks /\ low \in Nat /\ high \in Nat
  BY MidBounds, ChainFacts DEF LJInv, LJTypeOK
<1>2. AuthoritySetId[Mid] > target /\ Mid # 0
  BY <1>1, ChainFacts DEF SearchBelow
<1>3. LJTypeOK'
  BY <1>1, <1>2, ChainFacts DEF LJInv, LJTypeOK, SearchBelow, Blocks
<1>4. ASSUME NEW e \in Blocks, e <= top, IsEpochEnd(target, e)
      PROVE  e <= Mid - 1
  <2>1. CASE e = Mid
    BY <1>1, <1>4, <2>1, ChainFacts
       DEF SearchBelow, FirstOfNextEpoch, IsEpochEnd
  <2>2. CASE e > Mid
    <3>1. e - 1 \in Blocks /\ Mid <= e - 1
      BY <1>1, <2>2, ChainFacts
    <3>2. AuthoritySetId[Mid] <= AuthoritySetId[e - 1]
      BY <1>1, <3>1, ChainFacts
    <3> QED BY <1>1, <1>2, <1>4, <3>1, <3>2, ChainFacts DEF IsEpochEnd
  <2> QED BY <1>1, <2>1, <2>2, ChainFacts
<1>5. LoopInv'
  <2>1. high' + 1 = Mid /\ low' = low /\ top' = top /\ target' = target
    BY <1>1, ChainFacts DEF SearchBelow
  <2>2. \A e \in Blocks : e <= top /\ IsEpochEnd(target, e) =>
            low <= e /\ e <= Mid - 1
    BY <1>4 DEF LJInv, LoopInv
  <2>3. high' = Mid - 1 /\ epoch_end_block_number' = 0
    BY DEF SearchBelow, LJInv, LoopInv
  <2>4. (\A e \in Blocks :
            e <= top /\ IsEpochEnd(target, e) => low <= e /\ e <= high)'
    BY <2>1, <2>2, <2>3 DEF IsEpochEnd
  <2>5. (low > 0 => AuthoritySetId[low - 1] <= target)'
    BY <2>1 DEF LJInv, LoopInv
  <2>6. (high < top => AuthoritySetId[high + 1] > target)'
    BY <1>2, <2>1
  <2>7. (low <= high + 1)'
    BY <1>1, <2>1
  <2> QED BY <2>3, <2>4, <2>5, <2>6, <2>7 DEF LoopInv
<1> QED BY <1>3, <1>5
        DEF LJInv, SearchBelow, SearchCorrect, ZeroMeansCurrent

LEMMA AboveStep ==
    ASSUME LJInv, phase = "search", low <= high, SearchAbove
    PROVE  LJInv'
<1>1. /\ Mid \in Blocks /\ low <= Mid /\ Mid <= high /\ Mid <= top
      /\ target \in SetIds /\ top \in Blocks /\ low \in Nat /\ high \in Nat
  BY MidBounds, ChainFacts DEF LJInv, LJTypeOK
<1>2. AuthoritySetId[Mid] <= target
  BY <1>1, ChainFacts DEF SearchAbove
<1>3. LJTypeOK'
  BY <1>1, ChainFacts DEF LJInv, LJTypeOK, SearchAbove, AboveMid, Blocks
<1>4. ASSUME NEW e \in Blocks, e <= top, IsEpochEnd(target, e)
      PROVE  Mid + 1 <= e
  <2>1. CASE e <= Mid
    <3>1. AuthoritySetId[e] <= AuthoritySetId[Mid]
      BY <1>1, <2>1, ChainFacts
    <3> QED BY <1>1, <1>2, <1>4, <3>1, ChainFacts DEF IsEpochEnd
  <2> QED BY <1>1, <2>1, ChainFacts
<1>5. LoopInv'
  <2>1. low' = Mid + 1 /\ high' = high /\ top' = top /\ target' = target
           /\ epoch_end_block_number' = 0
    BY DEF SearchAbove, AboveMid, LJInv, LoopInv
  <2>2. \A e \in Blocks : e <= top /\ IsEpochEnd(target, e) =>
            Mid + 1 <= e /\ e <= high
    BY <1>4 DEF LJInv, LoopInv
  <2>3. (\A e \in Blocks :
            e <= top /\ IsEpochEnd(target, e) => low <= e /\ e <= high)'
    BY <2>1, <2>2 DEF IsEpochEnd
  <2>4. low' - 1 = Mid
    BY <1>1, <2>1, ChainFacts
  <2>5. (low > 0 => AuthoritySetId[low - 1] <= target)'
    BY <1>2, <2>1, <2>4
  <2>6. (high < top => AuthoritySetId[high + 1] > target)'
    BY <2>1 DEF LJInv, LoopInv
  <2>7. (low <= high + 1)'
    BY <1>1, <2>1, ChainFacts
  <2> QED BY <2>1, <2>3, <2>5, <2>6, <2>7 DEF LoopInv
<1> QED BY <1>3, <1>5
        DEF LJInv, SearchAbove, SearchCorrect, ZeroMeansCurrent

(* When the range is empty, the set ids on its two sides are neighbours:   *)
(* were there a block above it, that block would be the epoch end.         *)
LEMMA ExhaustedStep ==
    ASSUME LJInv, Exhausted
    PROVE  LJInv'
<1>1. LoopInv /\ LJTypeOK
  BY DEF LJInv, Exhausted
<1>2. target \in SetIds /\ top \in Blocks /\ low \in Nat /\ high \in Nat
         /\ high <= top /\ low = high + 1
  BY <1>1, ChainFacts DEF LJTypeOK, LoopInv, Exhausted
<1>3. \A e \in Blocks : ~(e <= top /\ IsEpochEnd(target, e))
  BY <1>1, <1>2, ChainFacts DEF LoopInv
<1>4. AuthoritySetId[high] <= target
  BY <1>1, <1>2 DEF LoopInv
<1>5. ASSUME high < top PROVE FALSE
  <2>1. high + 1 \in Blocks /\ high \in Blocks /\ high + 1 # 0
           /\ (high + 1) - 1 = high
    BY <1>2, <1>5, ChainFacts DEF Blocks
  <2>2. AuthoritySetId[high + 1] > target
    BY <1>1, <1>5 DEF LoopInv
  <2>3. AuthoritySetId[high + 1] <= AuthoritySetId[high] + 1
    BY <2>1, ChainFacts
  <2>4. AuthoritySetId[high + 1] = target + 1 /\ AuthoritySetId[high] = target
    BY <1>2, <1>4, <2>1, <2>2, <2>3, ChainFacts
  <2>5. IsEpochEnd(target, high + 1)
    BY <2>1, <2>4 DEF IsEpochEnd
  <2>6. high + 1 <= top
    BY <1>2, <1>5, ChainFacts
  <2> QED BY <1>3, <2>1, <2>5, <2>6
<1>6. AuthoritySetId[top] <= target
  BY <1>2, <1>4, <1>5, ChainFacts
<1>7. SearchCorrect'
  BY <1>1, <1>3, LastJustifiedIsZero DEF Exhausted, LoopInv, SearchCorrect
<1>8. ZeroMeansCurrent'
  BY <1>1, <1>6 DEF Exhausted, LoopInv, ZeroMeansCurrent
<1>9. LJTypeOK'
  BY <1>1 DEF LJTypeOK, Exhausted
<1> QED BY <1>7, <1>8, <1>9 DEF LJInv, Exhausted

LEMMA GrowStep ==
    ASSUME LJInv, Grow
    PROVE  LJInv'
<1>1. head' \in Blocks
  BY ChainFacts DEF LJInv, LJTypeOK, Grow, Blocks
<1>2. UNCHANGED <<phase, target, top, low, high, epoch_end_block_number>>
  BY DEF Grow, searchVars
<1>3. LJTypeOK'
  BY <1>1, <1>2 DEF LJInv, LJTypeOK
<1> QED BY <1>2, <1>3 DEF LJInv, LoopInv, SearchCorrect, ZeroMeansCurrent,
        IsEpochEnd, last_justified_block

LEMMA LJInvStep == LJInv /\ [LJNext]_ljVars => LJInv'
<1> SUFFICES ASSUME LJInv, [LJNext]_ljVars PROVE LJInv'
  OBVIOUS
<1>1. CASE \E id \in SetIds : Call(id)
  BY <1>1, CallStep
<1>2. CASE Iterate
  BY <1>2, FoundStep, BelowStep, AboveStep DEF Iterate
<1>3. CASE Exhausted
  BY <1>3, ExhaustedStep
<1>4. CASE Grow
  BY <1>4, GrowStep
<1>5. CASE UNCHANGED ljVars
  BY <1>5 DEF LJInv, LJTypeOK, LoopInv, SearchCorrect, ZeroMeansCurrent,
     IsEpochEnd, last_justified_block, ljVars, searchVars
<1> QED BY <1>1, <1>2, <1>3, <1>4, <1>5 DEF LJNext

-----------------------------------------------------------------------------
(* The bounds of the search stay heights of the chain: mid - 1 is never    *)
(* taken of a mid that is 0, so the u32 never wraps.                       *)
THEOREM SearchInBounds == LJSpec => []LJTypeOK
<1>1. LJInv => LJTypeOK
  BY DEF LJInv
<1> QED BY LJInvInit, LJInvStep, <1>1, PTL DEF LJSpec

(* Whatever the chain, the block returned by last_justified_block is the   *)
(* epoch end block of the set asked for, as of the head at the call.       *)
THEOREM SearchReturnsEpochEnd == LJSpec => []SearchCorrect
<1>1. LJInv => SearchCorrect
  BY DEF LJInv
<1> QED BY LJInvInit, LJInvStep, <1>1, PTL DEF LJSpec

(* The sentinel 0 is returned exactly when the set asked for has not ended *)
(* at the head of the call.                                                *)
THEOREM SentinelIsExact == LJSpec => []ZeroMeansCurrent
<1>1. LJInv => ZeroMeansCurrent
  BY DEF LJInv
<1> QED BY LJInvInit, LJInvStep, <1>1, PTL DEF LJSpec
=============================================================================
