--------------------------- MODULE VectorX_proofs ---------------------------
(* Proofs about the contract, for every value of the constants: alone,     *)
(* with the dummy programs in place of the circuits, and with the operator *)
(* next to it.                                                             *)
EXTENDS DummyVectorX, Operator, Avail_proofs, SequenceTheorems, TLAPS

-----------------------------------------------------------------------------
(* The arithmetic of bin/fill_block_range.rs.                              *)

(* The number of batches is the rounded up quotient of the length. *)
LEMMA NumBatchesBounds ==
    ASSUME NEW start \in Blocks, NEW end \in Blocks, start < end
    PROVE  LET n == NumBatches(start, end)
           IN  /\ n \in Nat \ {0}
               /\ start + (n - 1) * MAX_NUM_HEADERS < end
               /\ end <= start + n * MAX_NUM_HEADERS
<1> DEFINE N == MAX_NUM_HEADERS
           a == end - start + N - 1
           n == NumBatches(start, end)
<1>1. /\ N \in Nat /\ N > 0 /\ a \in Nat /\ a >= N
      /\ start \in Nat /\ end \in Nat
  BY MaxNumHeadersAssumption, MaxBlockAssumption DEF Blocks
<1>2. n = a \div N
  BY DEF NumBatches
<1>3. a \div N \in Int /\ a = N * (a \div N) + (a % N) /\ a % N \in 0 .. N - 1
  <2> HIDE DEF a, N
  <2> QED  BY <1>1
<1>4. N * n <= a /\ a < N * n + N /\ n \in Int
  BY <1>1, <1>2, <1>3
<1>5. n > 0
  <2>1. SUFFICES ASSUME n <= 0 PROVE FALSE
    BY <1>4
  <2>2. N * n <= 0
    <3> HIDE DEF n, N
    <3> QED  BY <1>1, <1>4, <2>1
  <2> QED  BY <1>1, <1>4, <2>2
<1>6. (n - 1) * N = N * n - N /\ n * N = N * n
  <2> HIDE DEF n, N
  <2> QED  BY <1>1, <1>4
<1> QED  BY <1>1, <1>4, <1>5, <1>6

(* The two arrays describe consecutive non-empty ranges from start to end. *)
LEMMA FillBlockRange ==
    ASSUME NEW start \in Blocks, NEW end \in Blocks, start < end
    PROVE  LET n == NumBatches(start, end)
               S == FillStartBlocks(start, end)
               E == FillEndBlocks(start, end)
           IN  /\ n \in Nat \ {0}
               /\ S \in Seq(Blocks) /\ Len(S) = n
               /\ E \in Seq(Blocks) /\ Len(E) = n
               /\ S[1] = start /\ E[n] = end
               /\ \A i \in 1 .. n : /\ start <= S[i] /\ S[i] < E[i]
                                    /\ E[i] <= end
               /\ \A i \in 1 .. n, j \in 1 .. n : i < j => E[i] <= S[j]
               /\ \A b \in start + 1 .. end : \E i \in 1 .. n :
                     S[i] < b /\ b <= E[i]
<1> DEFINE N == MAX_NUM_HEADERS
           n == NumBatches(start, end)
           S == FillStartBlocks(start, end)
           E == FillEndBlocks(start, end)
<1>1. N \in Nat /\ N > 0 /\ start \in Nat /\ end \in Nat /\ start < end
  BY MaxNumHeadersAssumption, MaxBlockAssumption DEF Blocks
<1>2. /\ n \in Nat \ {0}
      /\ start + (n - 1) * N < end
      /\ end <= start + n * N
  BY NumBatchesBounds
<1>3. /\ S = [i \in 1 .. n |-> start + (i - 1) * N]
      /\ E = [i \in 1 .. n |-> IF start + i * N < end THEN start + i * N
                                                      ELSE end]
  BY DEF FillStartBlocks, FillEndBlocks
<1> HIDE DEF n, N, S, E
<1>4. \A i \in 1 .. n : /\ (i - 1) * N \in Nat /\ i * N = (i - 1) * N + N
                        /\ (i - 1) * N <= (n - 1) * N
  BY <1>1, <1>2
<1>5. \A i \in 1 .. n, j \in 1 .. n : i < j => i * N <= (j - 1) * N
  BY <1>1, <1>2
<1>6. \A i \in 1 .. n : /\ S[i] = start + (i - 1) * N
                        /\ S[i] \in Nat /\ E[i] \in Nat
                        /\ start <= S[i] /\ S[i] < E[i] /\ E[i] <= end
                        /\ E[i] <= start + i * N
  <2> SUFFICES ASSUME NEW i \in 1 .. n
               PROVE  /\ S[i] = start + (i - 1) * N
                      /\ S[i] \in Nat /\ E[i] \in Nat
                      /\ start <= S[i] /\ S[i] < E[i] /\ E[i] <= end
                      /\ E[i] <= start + i * N
    OBVIOUS
  <2>1. PICK p \in Nat : p = (i - 1) * N
    BY <1>4
  <2>2. i * N = p + N
    BY <1>4, <2>1
  <2>3. PICK q \in Nat : q = (n - 1) * N
    BY <1>1, <1>2
  <2>4. p <= q /\ start + q < end
    BY <1>2, <1>4, <2>1, <2>3
  <2>5. S[i] = start + p /\ E[i] = IF start + (p + N) < end
                                   THEN start + (p + N) ELSE end
    BY <1>3, <2>1, <2>2
  <2> QED  BY <1>1, <2>1, <2>2, <2>4, <2>5
<1>7. S \in Seq(Blocks) /\ Len(S) = n /\ E \in Seq(Blocks) /\ Len(E) = n
  <2>1. \A i \in 1 .. n : S[i] \in Blocks /\ E[i] \in Blocks
    BY <1>1, <1>6, MaxBlockAssumption DEF Blocks
  <2>2. S \in [1 .. n -> Blocks] /\ E \in [1 .. n -> Blocks]
    BY <2>1, <1>3
  <2>3. S \in Seq(Blocks) /\ E \in Seq(Blocks)
    BY <1>2, <2>2, SeqDef
  <2>4. DOMAIN S = 1 .. n /\ DOMAIN E = 1 .. n
    BY <1>3
  <2> QED  BY <1>2, <2>3, <2>4, LenProperties
<1>8. S[1] = start
  <2>1. 1 \in 1 .. n /\ (1 - 1) * N = 0
    BY <1>1, <1>2
  <2> QED  BY <1>1, <1>6, <2>1
<1>9. E[n] = end
  BY <1>1, <1>2, <1>3
<1>10. \A i \in 1 .. n, j \in 1 .. n : i < j => E[i] <= S[j]
  <2> SUFFICES ASSUME NEW i \in 1 .. n, NEW j \in 1 .. n, i < j
               PROVE  E[i] <= S[j]
    OBVIOUS
  <2>1. i * N \in Nat /\ (j - 1) * N \in Nat
    BY <1>1, <1>2, <1>4
  <2> QED  BY <1>1, <1>5, <1>6, <2>1
<1>11. \A b \in start + 1 .. end : \E i \in 1 .. n : S[i] < b /\ b <= E[i]
  <2> SUFFICES ASSUME NEW b \in start + 1 .. end
               PROVE  \E i \in 1 .. n : S[i] < b /\ b <= E[i]
    OBVIOUS
  <2> DEFINE d == b - start - 1
             q == d \div N
  <2>1. d \in Nat /\ b = start + d + 1 /\ b <= end
    BY <1>1
  <2>2. q \in Int /\ d = N * q + (d % N) /\ d % N \in 0 .. N - 1
    <3> HIDE DEF d
    <3> QED  BY <1>1, <2>1
  <2>3. N * q <= d /\ d < N * q + N /\ q * N = N * q
    <3> HIDE DEF q, d
    <3> QED  BY <1>1, <2>1, <2>2
  <2> HIDE DEF d, q
  <2>4. q >= 0
    <3>1. SUFFICES ASSUME q <= -1 PROVE FALSE
      BY <2>2
    <3>2. N * q <= N * (-1)
      BY <1>1, <2>2, <3>1
    <3> QED  BY <1>1, <2>1, <2>2, <2>3, <3>2
  <2>5. q <= n - 1
    <3>1. SUFFICES ASSUME n <= q PROVE FALSE
      BY <1>2, <2>2
    <3>2. n * N <= q * N
      BY <1>1, <1>2, <2>2, <3>1
    <3>3. n * N \in Nat /\ q * N \in Int
      BY <1>1, <1>2, <2>2
    <3> QED  BY <1>1, <1>2, <2>1, <2>3, <3>2, <3>3
  <2>6. q + 1 \in 1 .. n /\ (q + 1) - 1 = q
    BY <1>2, <2>2, <2>4, <2>5
  <2>7. S[q + 1] = start + q * N
    BY <1>6, <2>6
  <2>8. PICK r \in Int : r = q * N
    BY <1>1, <2>2
  <2>9. (q + 1) * N = r + N
    BY <1>1, <2>2, <2>8
  <2>10. E[q + 1] = IF start + (r + N) < end THEN start + (r + N) ELSE end
    BY <1>3, <2>6, <2>9
  <2>11. S[q + 1] < b /\ b <= E[q + 1]
    BY <1>1, <2>1, <2>3, <2>7, <2>8, <2>10
  <2> QED  BY <2>6, <2>11
<1> QED  BY <1>2, <1>6, <1>7, <1>8, <1>9, <1>10, <1>11 DEF n, S, E

-----------------------------------------------------------------------------
(* Type correctness.                                                       *)

TypeInv == TypeOK /\ Configured

(* The last announced set is below the extra id of SetIds. *)
LEMMA SetIdsFacts ==
    /\ AuthoritySetId[MaxBlock] \in Nat
    /\ \A b \in Blocks : AuthoritySetId[b] \in 0 .. AuthoritySetId[MaxBlock]
    /\ \A b \in Blocks : AuthoritySetId[b] \in SetIds
    /\ \A s \in 0 .. AuthoritySetId[MaxBlock] : s \in SetIds /\ s + 1 \in SetIds
<1>1. MaxBlock \in Blocks /\ \A b \in Blocks : b <= MaxBlock
  BY MaxBlockAssumption DEF Blocks
<1> QED  BY <1>1, AuthoritySetIdAssumption DEF SetIds

(* A set that a rotate proof can be made for has a successor in SetIds,    *)
(* announced by a block at or below the head.                              *)
LEMMA RotateProvableFacts ==
    ASSUME NEW input \in RotateInput, NEW h \in Blocks,
           RotateProvable(input, h)
    PROVE  /\ input.authoritySetId + 1 \in SetIds
           /\ input.authoritySetId + 1 <= AuthoritySetId[h]
           /\ RotateOutput(input) = AuthoritySetHash[input.authoritySetId + 1]
           /\ RotateOutput(input) \in Hash
<1>1. PICK b \in Blocks : b <= h /\ IsEpochEnd(input.authoritySetId, b)
  BY DEF RotateProvable
<1>2. AuthoritySetId[b] = input.authoritySetId + 1
  BY <1>1 DEF IsEpochEnd
<1>3. AuthoritySetId[b] <= AuthoritySetId[h]
  BY <1>1, AuthoritySetIdAssumption
<1>4. AuthoritySetId[b] \in SetIds
  BY SetIdsFacts
<1> QED  BY <1>2, <1>3, <1>4, HashAssumption DEF RotateOutput

LEMMA TypeInvInit ==
    Init => TypeInv
<1> SUFFICES ASSUME Init PROVE TypeInv
  OBVIOUS
<1>1. 0 \in Blocks
  BY MaxBlockAssumption DEF Blocks
<1>2. TypeOK
  BY <1>1 DEF Init, TypeOK
<1>3. Configured
  <2>1. Ranges = {}
    BY DEF Init, Ranges
  <2> QED  BY <2>1 DEF Init, Configured, KnownHeader, KnownSet
<1> QED  BY <1>2, <1>3 DEF TypeInv

LEMMA TypeInvStep ==
    TypeInv /\ [Next]_vars => TypeInv'
<1> SUFFICES ASSUME TypeInv, [Next]_vars PROVE TypeInv'
  OBVIOUS
<1> USE DEF TypeInv
<1>1. ASSUME NEW h \in GenesisBlocks, NEW g \in Gateways,
             NEW f \in FunctionIds, NEW r \in FunctionIds,
             initialize(h, g, f, r)
      PROVE  TypeInv'
  <2>1. /\ h \in Blocks /\ HeaderHash[h] \in Hash
        /\ AuthoritySetHash[AuthoritySetId[h]] \in Hash
    BY GenesisAssumption, SetIdsFacts, HashAssumption
  <2> QED  BY <1>1, <2>1 DEF initialize, SetGenesis, TypeOK, Configured,
              rangeVars, requestVars
<1>2. ASSUME NEW f \in BOOLEAN, updateFreeze(f) PROVE TypeInv'
  BY <1>2 DEF updateFreeze, onlyGuardian, storeVars, rangeVars, requestVars,
     TypeOK, Configured, KnownHeader, KnownSet, Ranges
<1>3. ASSUME NEW f \in FunctionIds, NEW r \in FunctionIds,
             updateFunctionIds(f, r)
      PROVE  TypeInv'
  BY <1>3 DEF updateFunctionIds, onlyGuardian, storeVars, rangeVars,
     requestVars, TypeOK, Configured
<1>4. ASSUME NEW g \in Gateways, updateGateway(g) PROVE TypeInv'
  BY <1>4 DEF updateGateway, onlyGuardian, storeVars, rangeVars,
     requestVars, TypeOK, Configured
<1>5. ASSUME NEW h \in GenesisBlocks, updateGenesisState(h) PROVE TypeInv'
  <2>1. /\ h \in Blocks /\ HeaderHash[h] \in Hash
        /\ AuthoritySetHash[AuthoritySetId[h]] \in Hash
    BY GenesisAssumption, SetIdsFacts, HashAssumption
  <2>2. /\ blockHeightToHeaderHash' \in [Blocks -> Hash \cup {Zero}]
        /\ authoritySetIdToHash' \in [SetIds -> Hash \cup {Zero}]
        /\ latestBlock' \in Blocks /\ anchor' \in Blocks
    BY <1>5, <2>1 DEF updateGenesisState, SetGenesis, TypeOK
  <2>3. /\ UNCHANGED <<configVars, rangeVars, requestVars, head>>
        /\ initialized /\ resets' = resets + 1
        /\ guardianUpdates' = guardianUpdates + 1
    BY <1>5 DEF updateGenesisState, onlyGuardian
  <2>4. TypeOK'
    BY <2>2, <2>3 DEF TypeOK, configVars, rangeVars, requestVars
  <2>5. Configured'
    BY <2>3 DEF Configured, configVars
  <2> QED  BY <2>4, <2>5
<1>6. ASSUME NEW start \in Blocks, NEW end \in Blocks, start < end,
             end <= head,
             updateBlockRangeData(FillStartBlocks(start, end),
                                  FillEndBlocks(start, end),
                                  FillEndAuthoritySetId(start, end))
      PROVE  TypeInv'
  <2> DEFINE n == NumBatches(start, end)
             S == FillStartBlocks(start, end)
             E == FillEndBlocks(start, end)
             id == FillEndAuthoritySetId(start, end)
             keys == {RangeKey(S[i], E[i]) : i \in 1 .. Len(S)}
             ends == {E[i] : i \in 1 .. Len(S)}
  <2>1. n \in Nat \ {0} /\ Len(S) = n /\ E[n] = end
    BY <1>6, FillBlockRange
  <2>2. id \in SetIds /\ AuthoritySetHash[id] \in Hash
    BY SetIdsFacts, HashAssumption DEF FillEndAuthoritySetId
  <2> HIDE DEF S, E, id, n
  <2>3. /\ dataRootCommitments' \in [Keys -> Hash \cup {Zero}]
        /\ stateRootCommitments' \in [Keys -> Hash \cup {Zero}]
    BY <1>6, HashAssumption DEF updateBlockRangeData, TypeOK, Keys, S, E
  <2>4. rangeStartBlocks' \in [Keys -> Blocks]
    <3>1. rangeStartBlocks' =
             [k \in Keys |-> IF k \in keys THEN k[1] ELSE rangeStartBlocks[k]]
      BY <1>6 DEF updateBlockRangeData, S, E
    <3>2. \A k \in Keys : k[1] \in Blocks
      BY DEF Keys
    <3> HIDE DEF keys
    <3> QED  BY <3>1, <3>2 DEF TypeOK
  <2>5. blockHeightToHeaderHash' \in [Blocks -> Hash \cup {Zero}]
    BY <1>6, HashAssumption DEF updateBlockRangeData, TypeOK
  <2>6. authoritySetIdToHash' \in [SetIds -> Hash \cup {Zero}]
    <3>1. authoritySetIdToHash' =
             [authoritySetIdToHash EXCEPT ![id] = AuthoritySetHash[id]]
      BY <1>6 DEF updateBlockRangeData, id
    <3> QED  BY <2>2, <3>1 DEF TypeOK
  <2>7. latestBlock' = end
    BY <1>6, <2>1 DEF updateBlockRangeData, S, E
  <2>8. /\ UNCHANGED <<configVars, requestVars, head, anchor, resets>>
        /\ initialized /\ guardianUpdates' = guardianUpdates + 1
    BY <1>6 DEF updateBlockRangeData, onlyGuardian
  <2> QED  BY <2>3, <2>4, <2>5, <2>6, <2>7, <2>8
              DEF TypeOK, Configured, configVars, requestVars
<1>7. ASSUME NEW s \in SetIds, NEW b \in Blocks, requestHeaderRange(s, b)
      PROVE  TypeInv'
  <2>1. /\ initialized
        /\ EncodedHeaderRange(s, b) \in HeaderRangeInput
    BY <1>7 DEF requestHeaderRange, EncodedHeaderRange, HeaderRangeInput,
       TypeOK, Configured, KnownHeader
  <2> QED  BY <1>7, <2>1 DEF requestHeaderRange, HeaderRangeCall, TypeOK,
              Configured, configVars, storeVars, rangeVars, historyVars
<1>8. ASSUME NEW s \in 0 .. AuthoritySetId[MaxBlock], requestRotate(s)
      PROVE  TypeInv'
  <2>1. /\ initialized
        /\ EncodedRotate(s) \in RotateInput
    BY <1>8, SetIdsFacts DEF requestRotate, EncodedRotate, RotateInput,
       TypeOK, Configured, KnownSet
  <2> QED  BY <1>8, <2>1 DEF requestRotate, RotateCall, TypeOK,
              Configured, configVars, storeVars, rangeVars, historyVars
<1>9. ASSUME NEW call \in headerRangeRequests,
             HeaderRangeProvable(call.input, head),
             NEW s \in SetIds, NEW b \in Blocks, commitHeaderRange(call, s, b)
      PROVE  TypeInv'
  <2> DEFINE out == HeaderRangeOutput(call.input)
  <2>1. initialized /\ call.input \in HeaderRangeInput
    BY <1>9 DEF commitHeaderRange, TypeOK, Configured, KnownHeader,
       HeaderRangeCall
  <2>2. /\ out.targetHeaderHash \in Hash
        /\ out.dataRootCommitment \in Hash
        /\ out.stateRootCommitment \in Hash
    BY <2>1, HashAssumption DEF HeaderRangeOutput, HeaderRangeInput
  <2> HIDE DEF out
  <2> QED  BY <1>9, <2>1, <2>2 DEF commitHeaderRange, out, TypeOK,
              Configured, configVars, requestVars, historyVars
<1>10. ASSUME NEW call \in rotateRequests, RotateProvable(call.input, head),
              NEW s \in SetIds, rotate(call, s)
       PROVE  TypeInv'
  <2>1. initialized /\ call.input \in RotateInput
    BY <1>10 DEF rotate, TypeOK, Configured, KnownSet, RotateCall
  <2>2. RotateOutput(call.input) \in Hash
    BY <1>10, <2>1, RotateProvableFacts DEF TypeOK
  <2> QED  BY <1>10, <2>1, <2>2 DEF rotate, TypeOK, Configured, configVars,
              rangeVars, requestVars, historyVars
<1>11. CASE LoseHeaderRangeRequest
  BY <1>11 DEF LoseHeaderRangeRequest, TypeOK, Configured, configVars,
     storeVars, rangeVars, historyVars, KnownHeader, KnownSet, Ranges
<1>12. CASE LoseRotateRequest
  BY <1>12 DEF LoseRotateRequest, TypeOK, Configured, configVars,
     storeVars, rangeVars, historyVars, KnownHeader, KnownSet, Ranges
<1>13. CASE FinalizeBlock
  BY <1>13, MaxBlockAssumption DEF FinalizeBlock, TypeOK, Configured,
     configVars, storeVars, rangeVars, requestVars, historyVars, KnownHeader,
     KnownSet, Ranges, Blocks
<1>14. CASE UNCHANGED vars
  BY <1>14 DEF vars, TypeOK, Configured, configVars, storeVars, rangeVars,
     requestVars, historyVars, KnownHeader, KnownSet, Ranges
<1> QED  BY <1>1, <1>2, <1>3, <1>4, <1>5, <1>6, <1>7, <1>8, <1>9, <1>10,
            <1>11, <1>12, <1>13, <1>14
            DEF Next, Guardian, FulfillHeaderRange, FulfillRotate

(* Whatever the guardian, the provers and the open request functions do,   *)
(* the contract's storage and the requests in flight keep their types.     *)
THEOREM TypeCorrect == Spec => []TypeOK
<1>1. TypeInv => TypeOK
  BY DEF TypeInv
<1> QED  BY TypeInvInit, TypeInvStep, <1>1, PTL DEF Spec

-----------------------------------------------------------------------------
(* What a step does to the store, by kind of step.                         *)

(* Nothing is written; the head of Avail may have grown. *)
IdleStep ==
    /\ UNCHANGED <<storeVars, initialized, anchor, resets>>
    /\ head' \in Blocks /\ head <= head'

(* initialize or updateGenesisState at height h. *)
GenesisStep(h) ==
    /\ h \in Blocks /\ h <= head
    /\ SetGenesis(h)
    /\ initialized'
    /\ initialized => /\ resets' = resets + 1
                      /\ guardianUpdates' = guardianUpdates + 1
    /\ UNCHANGED <<rangeVars, head>>

(* updateBlockRangeData with the batches of (start, end]. *)
FillStep(start, end) ==
    LET n == NumBatches(start, end)
        S == FillStartBlocks(start, end)
        E == FillEndBlocks(start, end)
        keys == {<<S[i], E[i]>> : i \in 1 .. n}
        ends == {E[i] : i \in 1 .. n}
    IN  /\ start \in Blocks /\ end \in Blocks /\ start < end /\ end <= head
        /\ start = latestBlock /\ latestBlock' = end
        /\ dataRootCommitments' =
              [k \in Keys |-> IF k \in keys THEN DataRootCommitment[k]
                                            ELSE dataRootCommitments[k]]
        /\ stateRootCommitments' =
              [k \in Keys |-> IF k \in keys THEN StateRootCommitment[k]
                                            ELSE stateRootCommitments[k]]
        /\ rangeStartBlocks' =
              [k \in Keys |-> IF k \in keys THEN k[1]
                                            ELSE rangeStartBlocks[k]]
        /\ blockHeightToHeaderHash' =
              [b \in Blocks |-> IF b \in ends THEN HeaderHash[b]
                                              ELSE blockHeightToHeaderHash[b]]
        /\ authoritySetIdToHash' =
              [authoritySetIdToHash EXCEPT ![AuthoritySetId[end]] =
                  AuthoritySetHash[AuthoritySetId[end]]]
        /\ initialized
        /\ guardianUpdates' = guardianUpdates + 1
        /\ UNCHANGED <<initialized, head, anchor, resets>>

(* commitHeaderRange of (latestBlock, b] justified by set s. *)
CommitStep(s, b) ==
    LET key == <<latestBlock, b>>
    IN  /\ s \in SetIds /\ b \in Blocks
        /\ latestBlock < b /\ b <= head
        /\ b <= latestBlock + MAX_NUM_HEADERS
        /\ s = JustifyingSet(b)
        /\ KnownHeader(latestBlock) /\ KnownSet(s)
        /\ initialized
        /\ latestBlock' = b
        /\ blockHeightToHeaderHash' =
              [blockHeightToHeaderHash EXCEPT ![b] = HeaderHash[b]]
        /\ dataRootCommitments' =
              [dataRootCommitments EXCEPT ![key] = DataRootCommitment[key]]
        /\ stateRootCommitments' =
              [stateRootCommitments EXCEPT ![key] = StateRootCommitment[key]]
        /\ rangeStartBlocks' = [rangeStartBlocks EXCEPT ![key] = latestBlock]
        /\ UNCHANGED <<authoritySetIdToHash, initialized, head, anchor, resets>>

(* rotate from set s to set s + 1. *)
RotateStep(s) ==
    /\ s \in SetIds /\ s + 1 \in SetIds
    /\ s + 1 <= AuthoritySetId[head]
    /\ KnownSet(s)
    /\ initialized
    /\ authoritySetIdToHash' =
          [authoritySetIdToHash EXCEPT ![s + 1] = AuthoritySetHash[s + 1]]
    /\ UNCHANGED <<latestBlock, blockHeightToHeaderHash, rangeVars, head,
                   initialized, anchor, resets>>

(* Every step of the specification is of one of these kinds. *)
LEMMA StepKinds ==
    ASSUME TypeInv, [Next]_vars
    PROVE  \/ IdleStep
           \/ \E h \in Blocks : GenesisStep(h)
           \/ \E start \in Blocks, end \in Blocks : FillStep(start, end)
           \/ \E s \in SetIds, b \in Blocks : CommitStep(s, b)
           \/ \E s \in SetIds : RotateStep(s)
<1>1. ASSUME NEW h \in GenesisBlocks, NEW g \in Gateways,
             NEW f \in FunctionIds, NEW r \in FunctionIds,
             initialize(h, g, f, r)
      PROVE  h \in Blocks /\ GenesisStep(h)
  BY <1>1, GenesisAssumption DEF initialize, GenesisStep
<1>2. ASSUME NEW h \in GenesisBlocks, updateGenesisState(h)
      PROVE  h \in Blocks /\ GenesisStep(h)
  BY <1>2, GenesisAssumption DEF updateGenesisState, onlyGuardian,
     configVars, GenesisStep
<1>3. ASSUME NEW start \in Blocks, NEW end \in Blocks, start < end,
             end <= head,
             updateBlockRangeData(FillStartBlocks(start, end),
                                  FillEndBlocks(start, end),
                                  FillEndAuthoritySetId(start, end))
      PROVE  FillStep(start, end)
  <2> DEFINE n == NumBatches(start, end)
             S == FillStartBlocks(start, end)
             E == FillEndBlocks(start, end)
  <2>1. /\ n \in Nat \ {0} /\ Len(S) = n
        /\ S[1] = start /\ E[n] = end
    BY <1>3, FillBlockRange
  <2> HIDE DEF n, S, E
  <2> QED  BY <1>3, <2>1 DEF updateBlockRangeData, onlyGuardian, configVars,
              LinkedToHead, RangeKey, FillEndAuthoritySetId, FillStep, n, S, E
<1>4. ASSUME NEW call \in headerRangeRequests,
             HeaderRangeProvable(call.input, head),
             NEW s \in SetIds, NEW b \in Blocks, commitHeaderRange(call, s, b)
      PROVE  CommitStep(s, b)
  <2>1. call.input = EncodedHeaderRange(s, b)
    BY <1>4 DEF commitHeaderRange, verifiedCall
  <2>2. /\ call.input.trustedBlock = latestBlock
        /\ call.input.targetBlock = b
        /\ call.input.authoritySetId = s
    BY <2>1 DEF EncodedHeaderRange
  <2>3. initialized
    BY <1>4 DEF commitHeaderRange, TypeInv, TypeOK, Configured, KnownHeader
  <2>4. /\ s = JustifyingSet(b)
        /\ latestBlock < b /\ b <= head
        /\ b <= latestBlock + MAX_NUM_HEADERS
    BY <1>4, <2>2 DEF HeaderRangeProvable
  <2>5. HeaderRangeOutput(call.input) =
           [targetHeaderHash    |-> HeaderHash[b],
            stateRootCommitment |-> StateRootCommitment[<<latestBlock, b>>],
            dataRootCommitment  |-> DataRootCommitment[<<latestBlock, b>>]]
    BY <2>2 DEF HeaderRangeOutput
  <2> QED  BY <1>4, <2>3, <2>4, <2>5 DEF commitHeaderRange, CommitStep,
              RangeKey, KnownHeader, KnownSet, configVars, historyVars
<1>5. ASSUME NEW call \in rotateRequests, RotateProvable(call.input, head),
             NEW s \in SetIds, rotate(call, s)
      PROVE  RotateStep(s)
  <2>1. call.input = EncodedRotate(s) /\ call.input \in RotateInput
    BY <1>5 DEF rotate, verifiedCall, TypeInv, TypeOK, RotateCall
  <2>2. call.input.authoritySetId = s
    BY <2>1 DEF EncodedRotate
  <2>3. /\ s + 1 \in SetIds /\ s + 1 <= AuthoritySetId[head]
        /\ RotateOutput(call.input) = AuthoritySetHash[s + 1]
    BY <1>5, <2>1, <2>2, RotateProvableFacts DEF TypeInv, TypeOK
  <2>4. initialized
    BY <1>5 DEF rotate, TypeInv, TypeOK, Configured, KnownSet
  <2> QED  BY <1>5, <2>3, <2>4 DEF rotate, RotateStep, KnownSet,
              NextAuthoritySetId, configVars, historyVars
<1>6. ASSUME \/ \E f \in BOOLEAN : updateFreeze(f)
             \/ \E f, r \in FunctionIds : updateFunctionIds(f, r)
             \/ \E g \in Gateways : updateGateway(g)
             \/ \E s \in SetIds, b \in Blocks : requestHeaderRange(s, b)
             \/ \E s \in 0 .. AuthoritySetId[MaxBlock] : requestRotate(s)
             \/ LoseHeaderRangeRequest
             \/ LoseRotateRequest
             \/ UNCHANGED vars
      PROVE  IdleStep
  <2>1. UNCHANGED <<storeVars, initialized, head, anchor, resets>>
    BY <1>6 DEF updateFreeze, updateFunctionIds, updateGateway,
       requestHeaderRange, requestRotate, LoseHeaderRangeRequest,
       LoseRotateRequest, vars, configVars, historyVars
  <2> QED  BY <2>1 DEF IdleStep, TypeInv, TypeOK, Blocks
<1>7. ASSUME FinalizeBlock PROVE IdleStep
  BY <1>7, MaxBlockAssumption DEF FinalizeBlock, IdleStep, configVars,
     historyVars, TypeInv, TypeOK, Blocks
<1> QED  BY <1>1, <1>2, <1>3, <1>4, <1>5, <1>6, <1>7
            DEF Next, Guardian, FulfillHeaderRange, FulfillRotate

-----------------------------------------------------------------------------
(* The store holds only facts of the chain.                                *)

LEMMA CanonicalStoreStep ==
    ASSUME TypeInv, CanonicalStore, [Next]_vars
    PROVE  CanonicalStore'
<1> USE DEF CanonicalStore, KnownHeader, KnownSet, Ranges
<1>1. CASE IdleStep
  BY <1>1 DEF IdleStep, storeVars, rangeVars
<1>2. ASSUME NEW h \in Blocks, GenesisStep(h) PROVE CanonicalStore'
  BY <1>2, SetIdsFacts DEF GenesisStep, SetGenesis, rangeVars, TypeInv, TypeOK
<1>3. ASSUME NEW start \in Blocks, NEW end \in Blocks, FillStep(start, end)
      PROVE  CanonicalStore'
  <2>1. /\ \A b \in Blocks : \/ blockHeightToHeaderHash'[b] = HeaderHash[b]
                             \/ blockHeightToHeaderHash'[b] =
                                    blockHeightToHeaderHash[b]
        /\ \A s \in SetIds : \/ authoritySetIdToHash'[s] = AuthoritySetHash[s]
                             \/ authoritySetIdToHash'[s] =
                                    authoritySetIdToHash[s]
    BY <1>3, SetIdsFacts DEF FillStep, TypeInv, TypeOK
  <2>2. \A k \in Keys :
           \/ /\ dataRootCommitments'[k] = DataRootCommitment[k]
              /\ stateRootCommitments'[k] = StateRootCommitment[k]
              /\ rangeStartBlocks'[k] = k[1]
           \/ /\ dataRootCommitments'[k] = dataRootCommitments[k]
              /\ stateRootCommitments'[k] = stateRootCommitments[k]
              /\ rangeStartBlocks'[k] = rangeStartBlocks[k]
    BY <1>3 DEF FillStep
  <2> QED  BY <2>1, <2>2
<1>4. ASSUME NEW s \in SetIds, NEW b \in Blocks, CommitStep(s, b)
      PROVE  CanonicalStore'
  <2>1. <<latestBlock, b>> \in Keys /\ <<latestBlock, b>>[1] = latestBlock
    BY DEF Keys, TypeInv, TypeOK
  <2> QED  BY <1>4, <2>1 DEF CommitStep, TypeInv, TypeOK
<1>5. ASSUME NEW s \in SetIds, RotateStep(s) PROVE CanonicalStore'
  BY <1>5 DEF RotateStep, rangeVars, TypeInv, TypeOK
<1> QED  BY <1>1, <1>2, <1>3, <1>4, <1>5, StepKinds

(* For every chain, every set of function ids and gateways and every       *)
(* number of guardian calls and requests: the contract stores only hashes  *)
(* and commitments of the Avail chain, each under its own key.             *)
THEOREM StoreIsCanonical == Spec => []CanonicalStore
<1>1. Init => CanonicalStore
  BY DEF Init, CanonicalStore, KnownHeader, KnownSet, Ranges
<1>2. TypeInv /\ CanonicalStore /\ [Next]_vars => CanonicalStore'
  BY CanonicalStoreStep
<1> QED  BY <1>1, <1>2, TypeInvInit, TypeInvStep, PTL DEF Spec

-----------------------------------------------------------------------------
(* The store never runs ahead of the chain.                                *)

LEMMA FutureStep ==
    ASSUME TypeInv, TypeInv', NothingFromTheFuture, [Next]_vars
    PROVE  NothingFromTheFuture'
<1> USE DEF NothingFromTheFuture, KnownHeader, KnownSet
<1>0. /\ \A b \in Blocks : b \in Nat /\ AuthoritySetId[b] \in Nat
      /\ \A s \in SetIds : s \in Nat
      /\ head \in Blocks /\ head' \in Blocks
  BY AuthoritySetIdAssumption, SetIdsFacts DEF Blocks, SetIds, TypeInv, TypeOK
<1>1. CASE IdleStep
  <2>1. AuthoritySetId[head] <= AuthoritySetId[head']
    BY <1>0, <1>1, AuthoritySetIdAssumption DEF IdleStep
  <2> QED  BY <1>0, <1>1, <2>1 DEF IdleStep, storeVars
<1>2. ASSUME NEW h \in Blocks, GenesisStep(h) PROVE NothingFromTheFuture'
  <2>1. AuthoritySetId[h] <= AuthoritySetId[head] /\ head' = head
    BY <1>0, <1>2, AuthoritySetIdAssumption DEF GenesisStep
  <2> QED  BY <1>0, <1>2, <2>1 DEF GenesisStep, SetGenesis, TypeInv, TypeOK
<1>3. ASSUME NEW start \in Blocks, NEW end \in Blocks, FillStep(start, end)
      PROVE  NothingFromTheFuture'
  <2> DEFINE E == FillEndBlocks(start, end)
  <2>1. /\ AuthoritySetId[end] <= AuthoritySetId[head] /\ head' = head
        /\ start < end /\ end <= head
    BY <1>0, <1>3, AuthoritySetIdAssumption DEF FillStep
  <2>2. \A i \in 1 .. NumBatches(start, end) : E[i] <= end /\ E[i] \in Blocks
    <3>1. /\ \A i \in 1 .. NumBatches(start, end) : E[i] <= end
          /\ E \in Seq(Blocks) /\ Len(E) = NumBatches(start, end)
      BY <2>1, FillBlockRange
    <3> QED  BY <3>1
  <2>3. \A b \in Blocks : \/ b <= end
                         \/ blockHeightToHeaderHash'[b] =
                                blockHeightToHeaderHash[b]
    <3> HIDE DEF E
    <3> QED  BY <1>3, <2>2 DEF FillStep, E
  <2>4. \A s \in SetIds : \/ s = AuthoritySetId[end]
                         \/ authoritySetIdToHash'[s] = authoritySetIdToHash[s]
    BY <1>3 DEF FillStep, TypeInv, TypeOK
  <2> QED  BY <1>0, <2>1, <2>3, <2>4
<1>4. ASSUME NEW s \in SetIds, NEW b \in Blocks, CommitStep(s, b)
      PROVE  NothingFromTheFuture'
  BY <1>0, <1>4 DEF CommitStep, TypeInv, TypeOK
<1>5. ASSUME NEW s \in SetIds, RotateStep(s) PROVE NothingFromTheFuture'
  BY <1>0, <1>5 DEF RotateStep, TypeInv, TypeOK
<1> QED  BY <1>1, <1>2, <1>3, <1>4, <1>5, StepKinds

(* No header above the finalized head and no unannounced authority set is  *)
(* ever stored.                                                            *)
THEOREM NeverAheadOfTheChain == Spec => []NothingFromTheFuture
<1>1. Init => NothingFromTheFuture
  BY DEF Init, NothingFromTheFuture, KnownHeader, KnownSet
<1>2. TypeInv /\ TypeInv' /\ NothingFromTheFuture /\ [Next]_vars
         => NothingFromTheFuture'
  BY FutureStep
<1> QED  BY <1>1, <1>2, TypeInvInit, TypeInvStep, PTL DEF Spec

-----------------------------------------------------------------------------
(* The contract can always advance.                                        *)

LEMMA CanAdvanceStep ==
    ASSUME TypeInv, TypeInv', CanAdvance, [Next]_vars
    PROVE  CanAdvance'
<1> USE DEF CanAdvance, KnownSet
<1>0. /\ \A b \in Blocks : b \in Nat /\ AuthoritySetId[b] \in Nat
                           /\ AuthoritySetId[b] \in SetIds
                           /\ AuthoritySetHash[AuthoritySetId[b]] # Zero
      /\ \A s \in SetIds : s \in Nat /\ AuthoritySetHash[s] # Zero
  <2>1. (\A b \in Blocks : b \in Nat) /\ (\A s \in SetIds : s \in Nat)
    BY SetIdsFacts DEF Blocks, SetIds
  <2>2. \A s \in SetIds : AuthoritySetHash[s] # Zero
    BY HashAssumption
  <2> QED  BY <2>1, <2>2, SetIdsFacts
<1>1. CASE IdleStep
  BY <1>1 DEF IdleStep, storeVars
<1>2. ASSUME NEW h \in Blocks, GenesisStep(h) PROVE CanAdvance'
  <2>1. authoritySetIdToHash'[AuthoritySetId[h]] # Zero /\ latestBlock' = h
    BY <1>0, <1>2 DEF GenesisStep, SetGenesis, TypeInv, TypeOK
  <2> QED  BY <1>0, <2>1
<1>3. ASSUME NEW start \in Blocks, NEW end \in Blocks, FillStep(start, end)
      PROVE  CanAdvance'
  <2>1. authoritySetIdToHash'[AuthoritySetId[end]] # Zero /\ latestBlock' = end
    BY <1>0, <1>3 DEF FillStep, TypeInv, TypeOK
  <2> QED  BY <1>0, <2>1
<1>4. ASSUME NEW s \in SetIds, NEW b \in Blocks, CommitStep(s, b)
      PROVE  CanAdvance'
  <2>1. b # 0 /\ b - 1 \in Blocks /\ b - 1 <= b
    BY <1>4, MaxBlockAssumption DEF CommitStep, TypeInv, TypeOK, Blocks
  <2>2. s = AuthoritySetId[b - 1] /\ latestBlock' = b
        /\ authoritySetIdToHash'[s] # Zero
    BY <1>4 DEF CommitStep, JustifyingSet
  <2>3. s <= AuthoritySetId[b] /\ AuthoritySetId[b] <= s + 1
    BY <2>1, <2>2, AuthoritySetIdAssumption
  <2> QED  BY <1>0, <2>2, <2>3
<1>5. ASSUME NEW s \in SetIds, RotateStep(s) PROVE CanAdvance'
  <2>1. /\ initialized' = initialized /\ latestBlock' = latestBlock
        /\ \A t \in SetIds : authoritySetIdToHash[t] # Zero
                               => authoritySetIdToHash'[t] # Zero
    BY <1>0, <1>5 DEF RotateStep, TypeInv, TypeOK
  <2> QED  BY <1>5, <2>1 DEF RotateStep
<1> QED  BY <1>1, <1>2, <1>3, <1>4, <1>5, StepKinds

(* No history of commits, rotations, fills and resets leaves the contract  *)
(* without the authority set for its next block or the set before it.      *)
THEOREM NeverStuck == Spec => []CanAdvance
<1>1. Init => CanAdvance
  BY DEF Init, CanAdvance
<1>2. TypeInv /\ TypeInv' /\ CanAdvance /\ [Next]_vars => CanAdvance'
  BY CanAdvanceStep
<1> QED  BY <1>1, <1>2, TypeInvInit, TypeInvStep, PTL DEF Spec

-----------------------------------------------------------------------------
(* Ranges: what the steps add, and that they tile the committed blocks.    *)

LEMMA CommitRanges ==
    ASSUME TypeInv, NEW s \in SetIds, NEW b \in Blocks, CommitStep(s, b)
    PROVE  /\ Ranges' = Ranges \cup {<<latestBlock, b>>}
           /\ KnownHeader(b)'
           /\ \A c \in Blocks : KnownHeader(c) => KnownHeader(c)'
<1>1. <<latestBlock, b>> \in Keys
  BY DEF Keys, TypeInv, TypeOK
<1>2. DataRootCommitment[<<latestBlock, b>>] # Zero /\ HeaderHash[b] # Zero
  BY <1>1, HashAssumption DEF Keys
<1>3. \A k \in Keys : dataRootCommitments'[k] =
         IF k = <<latestBlock, b>> THEN DataRootCommitment[<<latestBlock, b>>]
                                   ELSE dataRootCommitments[k]
  BY <1>1 DEF CommitStep, TypeInv, TypeOK
<1>4. \A c \in Blocks : blockHeightToHeaderHash'[c] =
         IF c = b THEN HeaderHash[b] ELSE blockHeightToHeaderHash[c]
  BY DEF CommitStep, TypeInv, TypeOK
<1> QED  BY <1>1, <1>2, <1>3, <1>4 DEF Ranges, KnownHeader

FillKeys(start, end) ==
    {<<FillStartBlocks(start, end)[i], FillEndBlocks(start, end)[i]>> :
        i \in 1 .. NumBatches(start, end)}

(* The batches of a fill lie in the filled blocks, cover them, do not      *)
(* overlap, and each starts at start or where another one ends.            *)
LEMMA FillKeysTile ==
    ASSUME NEW start \in Blocks, NEW end \in Blocks, start < end
    PROVE  /\ FillKeys(start, end) \subseteq Keys
           /\ \A k \in FillKeys(start, end) :
                 start <= k[1] /\ k[1] < k[2] /\ k[2] <= end
           /\ \A b \in start + 1 .. end : \E k \in FillKeys(start, end) :
                 k[1] < b /\ b <= k[2]
           /\ \A k, l \in FillKeys(start, end) :
                 k # l => k[2] <= l[1] \/ l[2] <= k[1]
           /\ \A k \in FillKeys(start, end) :
                 k[1] = start \/ \E l \in FillKeys(start, end) : l[2] = k[1]
<1> DEFINE n == NumBatches(start, end)
           S == FillStartBlocks(start, end)
           E == FillEndBlocks(start, end)
           K == FillKeys(start, end)
<1>1. /\ n \in Nat \ {0}
      /\ S \in Seq(Blocks) /\ Len(S) = n
      /\ E \in Seq(Blocks) /\ Len(E) = n
      /\ S[1] = start
      /\ \A i \in 1 .. n : /\ start <= S[i] /\ S[i] < E[i]
                           /\ E[i] <= end
      /\ \A i \in 1 .. n, j \in 1 .. n : i < j => E[i] <= S[j]
      /\ \A b \in start + 1 .. end : \E i \in 1 .. n : S[i] < b /\ b <= E[i]
  BY FillBlockRange
<1>2. K = {<<S[i], E[i]>> : i \in 1 .. n}
  BY DEF FillKeys
<1> HIDE DEF n, S, E, K
<1>3. \A i \in 1 .. n : S[i] \in Blocks /\ E[i] \in Blocks
  BY <1>1
<1>4. K \subseteq Keys
  BY <1>2, <1>3 DEF Keys
<1>5. \A k \in K : start <= k[1] /\ k[1] < k[2] /\ k[2] <= end
  BY <1>1, <1>2
<1>6. \A b \in start + 1 .. end : \E k \in K : k[1] < b /\ b <= k[2]
  <2> SUFFICES ASSUME NEW b \in start + 1 .. end
               PROVE  \E k \in K : k[1] < b /\ b <= k[2]
    OBVIOUS
  <2>1. PICK i \in 1 .. n : S[i] < b /\ b <= E[i]
    BY <1>1
  <2>2. <<S[i], E[i]>> \in K
    BY <1>2
  <2> QED  BY <2>1, <2>2
<1>7. \A k, l \in K : k # l => k[2] <= l[1] \/ l[2] <= k[1]
  <2> SUFFICES ASSUME NEW k \in K, NEW l \in K, k # l
               PROVE  k[2] <= l[1] \/ l[2] <= k[1]
    OBVIOUS
  <2>1. PICK i \in 1 .. n : k = <<S[i], E[i]>>
    BY <1>2
  <2>2. PICK j \in 1 .. n : l = <<S[j], E[j]>>
    BY <1>2
  <2>3. i < j \/ j < i
    BY <1>1, <2>1, <2>2
  <2>4. E[i] <= S[j] \/ E[j] <= S[i]
    BY <1>1, <2>3
  <2> QED  BY <2>1, <2>2, <2>4
<1>8. \A k \in K : k[1] = start \/ \E l \in K : l[2] = k[1]
  <2> SUFFICES ASSUME NEW k \in K, k[1] # start
               PROVE  \E l \in K : l[2] = k[1]
    OBVIOUS
  <2>1. k[1] \in start + 1 .. end
    BY <1>4, <1>5 DEF Keys, Blocks
  <2>2. PICK l \in K : l[1] < k[1] /\ k[1] <= l[2]
    BY <1>6, <2>1
  <2>3. k # l /\ k[1] \in Int /\ k[2] \in Int /\ l[1] \in Int /\ l[2] \in Int
    BY <1>4, <2>2 DEF Keys, Blocks
  <2>4. l[2] <= k[1]
    BY <1>5, <1>7, <2>2, <2>3
  <2> QED  BY <2>2, <2>3, <2>4
<1> QED  BY <1>4, <1>5, <1>6, <1>7, <1>8 DEF K

LEMMA FillRanges ==
    ASSUME TypeInv, NEW start \in Blocks, NEW end \in Blocks,
           FillStep(start, end)
    PROVE  /\ Ranges' = Ranges \cup FillKeys(start, end)
           /\ \A k \in FillKeys(start, end) : KnownHeader(k[2])'
           /\ KnownHeader(end)'
           /\ \A c \in Blocks : KnownHeader(c) => KnownHeader(c)'
<1> DEFINE n == NumBatches(start, end)
           S == FillStartBlocks(start, end)
           E == FillEndBlocks(start, end)
           K == FillKeys(start, end)
           ends == {E[i] : i \in 1 .. n}
<1>1. K = {<<S[i], E[i]>> : i \in 1 .. n} /\ K \subseteq Keys
  BY FillKeysTile DEF FillKeys, FillStep
<1>2. /\ n \in Nat \ {0} /\ E[n] = end
  BY FillBlockRange DEF FillStep
<1> HIDE DEF n, S, E, K
<1>3. \A k \in Keys : dataRootCommitments'[k] =
         IF k \in K THEN DataRootCommitment[k] ELSE dataRootCommitments[k]
  BY <1>1 DEF FillStep, n, S, E
<1>4. \A c \in Blocks : blockHeightToHeaderHash'[c] =
         IF c \in ends THEN HeaderHash[c] ELSE blockHeightToHeaderHash[c]
  BY DEF FillStep, n, E
<1>5. /\ \A k \in Keys : DataRootCommitment[k] # Zero
      /\ \A c \in Blocks : HeaderHash[c] # Zero
  BY HashAssumption DEF Keys
<1>6. Ranges' = Ranges \cup K
  BY <1>1, <1>3, <1>5 DEF Ranges
<1>7. \A c \in Blocks : KnownHeader(c) => KnownHeader(c)'
  BY <1>4, <1>5 DEF KnownHeader
<1>8. \A c \in ends \cap Blocks : KnownHeader(c)'
  BY <1>4, <1>5 DEF KnownHeader
<1>9. end \in ends
  BY <1>2
<1>10. \A k \in K : k[2] \in ends \cap Blocks
  BY <1>1 DEF Keys
<1> QED  BY <1>6, <1>7, <1>8, <1>9, <1>10 DEF K

LEMMA CoverageStep ==
    ASSUME TypeInv, TypeInv', Coverage, [Next]_vars
    PROVE  Coverage'
<1>0. /\ latestBlock \in Blocks /\ anchor \in Blocks
      /\ \A b \in Blocks : b \in Nat
  BY DEF TypeInv, TypeOK, Blocks
<1>1. CASE IdleStep
  BY <1>1 DEF IdleStep, Coverage, storeVars, rangeVars, KnownHeader, Ranges
<1>2. ASSUME NEW h \in Blocks, GenesisStep(h) PROVE Coverage'
  <2>1. /\ Ranges' = Ranges /\ anchor' = h /\ latestBlock' = h
        /\ h + 1 .. h = {} /\ h <= h
    BY <1>0, <1>2 DEF GenesisStep, SetGenesis, rangeVars, Ranges
  <2>2. KnownHeader(h)' /\ \A c \in Blocks : KnownHeader(c) => KnownHeader(c)'
    <3>1. \A c \in Blocks : blockHeightToHeaderHash'[c] =
             IF c = h THEN HeaderHash[h] ELSE blockHeightToHeaderHash[c]
      BY <1>2 DEF GenesisStep, SetGenesis, TypeInv, TypeOK
    <3>2. HeaderHash[h] # Zero
      BY HashAssumption
    <3> QED  BY <3>1, <3>2 DEF KnownHeader
  <2>3. \A k \in Ranges : k[1] < k[2] /\ KnownHeader(k[1])
                           /\ KnownHeader(k[2])
    <3>1. CASE initialized
      BY <3>1 DEF Coverage
    <3>2. CASE ~initialized
      BY <3>2 DEF TypeInv, Configured
    <3> QED  BY <3>1, <3>2
  <2>4. \A k \in Ranges : k[1] \in Blocks /\ k[2] \in Blocks
    BY DEF Ranges, Keys
  <2> QED  BY <2>1, <2>2, <2>3, <2>4 DEF Coverage
<1>3. ASSUME NEW start \in Blocks, NEW end \in Blocks, FillStep(start, end)
      PROVE  Coverage'
  <2> DEFINE K == FillKeys(start, end)
  <2>1. /\ start = latestBlock /\ latestBlock' = end /\ start < end
        /\ anchor' = anchor /\ initialized
    BY <1>3 DEF FillStep
  <2>2. /\ Ranges' = Ranges \cup K
        /\ \A k \in K : KnownHeader(k[2])'
        /\ KnownHeader(end)'
        /\ \A c \in Blocks : KnownHeader(c) => KnownHeader(c)'
    BY <1>3, FillRanges
  <2>3. /\ K \subseteq Keys
        /\ \A k \in K : start <= k[1] /\ k[1] < k[2] /\ k[2] <= end
        /\ \A b \in start + 1 .. end : \E k \in K : k[1] < b /\ b <= k[2]
        /\ \A k \in K : k[1] = start \/ \E l \in K : l[2] = k[1]
    BY <2>1, FillKeysTile
  <2> HIDE DEF K
  <2>4. /\ anchor <= latestBlock /\ KnownHeader(latestBlock)
        /\ \A b \in anchor + 1 .. latestBlock : \E k \in Ranges :
              anchor <= k[1] /\ k[1] < b /\ b <= k[2] /\ k[2] <= latestBlock
        /\ \A k \in Ranges :
              k[1] < k[2] /\ KnownHeader(k[1]) /\ KnownHeader(k[2])
    BY <2>1 DEF Coverage
  <2>5. \A k \in Ranges \cup K : k[1] \in Blocks /\ k[2] \in Blocks
    BY <2>3 DEF Ranges, Keys
  <2>6. anchor' <= latestBlock' /\ KnownHeader(latestBlock)'
    BY <1>0, <2>1, <2>2, <2>4 DEF KnownHeader
  <2>7. ASSUME NEW b \in anchor + 1 .. end
        PROVE  \E k \in Ranges' : /\ anchor <= k[1] /\ k[1] < b
                                  /\ b <= k[2] /\ k[2] <= end
    <3>1. CASE b <= start
      <4>1. b \in anchor + 1 .. latestBlock
        BY <1>0, <2>1, <3>1
      <4>2. PICK k \in Ranges : /\ anchor <= k[1] /\ k[1] < b
                                /\ b <= k[2] /\ k[2] <= latestBlock
        BY <2>4, <4>1
      <4> QED  BY <1>0, <2>1, <2>2, <2>5, <4>2
    <3>2. CASE b > start
      <4>1. b \in start + 1 .. end
        BY <1>0, <3>2
      <4>2. PICK k \in K : k[1] < b /\ b <= k[2]
        BY <2>3, <4>1
      <4>3. k[2] <= end /\ anchor <= k[1]
        BY <1>0, <2>1, <2>3, <2>4, <2>5, <4>2
      <4> QED  BY <2>2, <4>2, <4>3
    <3> QED  BY <1>0, <3>1, <3>2
  <2>8. ASSUME NEW k \in Ranges'
        PROVE  k[1] < k[2] /\ KnownHeader(k[1])' /\ KnownHeader(k[2])'
    <3>1. CASE k \in Ranges
      BY <2>2, <2>4, <2>5, <3>1
    <3>2. CASE k \in K
      <4>1. KnownHeader(start)'
        BY <1>0, <2>1, <2>2, <2>4
      <4> QED  BY <2>2, <2>3, <3>2, <4>1
    <3> QED  BY <2>2, <3>1, <3>2
  <2> QED  BY <2>1, <2>6, <2>7, <2>8 DEF Coverage
<1>4. ASSUME NEW s \in SetIds, NEW b \in Blocks, CommitStep(s, b)
      PROVE  Coverage'
  <2>1. /\ latestBlock < b /\ latestBlock' = b
        /\ anchor' = anchor /\ initialized
    BY <1>4 DEF CommitStep
  <2>2. /\ Ranges' = Ranges \cup {<<latestBlock, b>>}
        /\ KnownHeader(b)'
        /\ \A c \in Blocks : KnownHeader(c) => KnownHeader(c)'
    BY <1>4, CommitRanges
  <2>3. /\ anchor <= latestBlock /\ KnownHeader(latestBlock)
        /\ \A c \in anchor + 1 .. latestBlock : \E k \in Ranges :
              anchor <= k[1] /\ k[1] < c /\ c <= k[2] /\ k[2] <= latestBlock
        /\ \A k \in Ranges :
              k[1] < k[2] /\ KnownHeader(k[1]) /\ KnownHeader(k[2])
    BY <2>1 DEF Coverage
  <2>4. \A k \in Ranges : k[1] \in Blocks /\ k[2] \in Blocks
    BY DEF Ranges, Keys
  <2>5. anchor' <= latestBlock' /\ KnownHeader(latestBlock)'
    BY <1>0, <2>1, <2>2, <2>3 DEF KnownHeader
  <2>6. ASSUME NEW c \in anchor + 1 .. b
        PROVE  \E k \in Ranges' : /\ anchor <= k[1] /\ k[1] < c
                                  /\ c <= k[2] /\ k[2] <= b
    <3>1. CASE c <= latestBlock
      <4>1. PICK k \in Ranges : /\ anchor <= k[1] /\ k[1] < c
                                /\ c <= k[2] /\ k[2] <= latestBlock
        BY <1>0, <2>3, <3>1
      <4> QED  BY <1>0, <2>1, <2>2, <2>4, <4>1
    <3>2. CASE c > latestBlock
      <4>1. <<latestBlock, b>> \in Ranges'
        BY <2>2
      <4> QED  BY <1>0, <2>3, <3>2, <4>1
    <3> QED  BY <1>0, <3>1, <3>2
  <2>7. ASSUME NEW k \in Ranges'
        PROVE  k[1] < k[2] /\ KnownHeader(k[1])' /\ KnownHeader(k[2])'
    <3>1. CASE k \in Ranges
      BY <2>2, <2>3, <2>4, <3>1
    <3>2. CASE k = <<latestBlock, b>>
      BY <1>0, <2>1, <2>2, <2>3, <3>2
    <3> QED  BY <2>2, <3>1, <3>2
  <2> QED  BY <2>1, <2>5, <2>6, <2>7 DEF Coverage
<1>5. ASSUME NEW s \in SetIds, RotateStep(s) PROVE Coverage'
  BY <1>5 DEF RotateStep, Coverage, rangeVars, KnownHeader, Ranges
<1> QED  BY <1>1, <1>2, <1>3, <1>4, <1>5, StepKinds

(* Every block between the last height set by the guardian and latestBlock *)
(* is covered by a stored commitment range, whatever the order in which    *)
(* proofs, fills and resets were applied.                                  *)
THEOREM CommittedBlocksCovered == Spec => []Coverage
<1>1. Init => Coverage
  BY DEF Init, Coverage
<1>2. TypeInv /\ TypeInv' /\ Coverage /\ [Next]_vars => Coverage'
  BY CoverageStep
<1> QED  BY <1>1, <1>2, TypeInvInit, TypeInvStep, PTL DEF Spec

LEMMA DisjointStep ==
    ASSUME TypeInv, TypeInv', Coverage, Disjoint, [Next]_vars
    PROVE  Disjoint'
<1>0. /\ latestBlock \in Blocks /\ anchor \in Blocks /\ resets \in Nat
      /\ \A b \in Blocks : b \in Nat
      /\ \A k \in Ranges : k[1] \in Nat /\ k[2] \in Nat
  BY DEF TypeInv, TypeOK, Blocks, Ranges, Keys
<1>1. CASE IdleStep
  BY <1>1 DEF IdleStep, Disjoint, storeVars, rangeVars, Ranges
<1>2. ASSUME NEW h \in Blocks, GenesisStep(h) PROVE Disjoint'
  <2>1. CASE initialized
    BY <1>0, <1>2, <2>1 DEF GenesisStep, Disjoint
  <2>2. CASE ~initialized
    <3>1. Ranges' = {}
      BY <1>2, <2>2 DEF GenesisStep, rangeVars, Ranges, TypeInv, Configured
    <3> QED  BY <3>1 DEF Disjoint
  <2> QED  BY <2>1, <2>2
<1>3. ASSUME NEW start \in Blocks, NEW end \in Blocks, FillStep(start, end)
      PROVE  Disjoint'
  <2> DEFINE K == FillKeys(start, end)
  <2>1. /\ start = latestBlock /\ latestBlock' = end /\ start < end
        /\ anchor' = anchor /\ initialized /\ resets' = resets
    BY <1>3 DEF FillStep
  <2>2. Ranges' = Ranges \cup K
    BY <1>3, FillRanges
  <2>3. /\ K \subseteq Keys
        /\ \A k \in K : start <= k[1] /\ k[1] < k[2] /\ k[2] <= end
        /\ \A k, l \in K : k # l => k[2] <= l[1] \/ l[2] <= k[1]
    BY <2>1, FillKeysTile
  <2> HIDE DEF K
  <2>4. anchor <= latestBlock
    BY <2>1 DEF Coverage
  <2>5. SUFFICES ASSUME resets = 0
                 PROVE  \A k \in Ranges \cup K :
                          /\ anchor <= k[1] /\ k[2] <= end
                          /\ \A l \in (Ranges \cup K) \ {k} :
                                k[2] <= l[1] \/ l[2] <= k[1]
    BY <2>1, <2>2 DEF Disjoint
  <2>6. \A k \in K : k[1] \in Nat /\ k[2] \in Nat
    BY <2>3 DEF Keys, Blocks
  <2>7. \A k \in Ranges :
           /\ anchor <= k[1] /\ k[2] <= latestBlock
           /\ \A l \in Ranges \ {k} : k[2] <= l[1] \/ l[2] <= k[1]
    BY <2>5 DEF Disjoint
  <2>8. \A k \in Ranges, l \in K : k[2] <= l[1]
    BY <1>0, <2>1, <2>3, <2>6, <2>7
  <2>9. \A k \in Ranges \cup K : anchor <= k[1] /\ k[2] <= end
    BY <1>0, <2>1, <2>3, <2>4, <2>6, <2>7
  <2> QED  BY <2>3, <2>7, <2>8, <2>9
<1>4. ASSUME NEW s \in SetIds, NEW b \in Blocks, CommitStep(s, b)
      PROVE  Disjoint'
  <2>1. /\ latestBlock < b /\ latestBlock' = b
        /\ anchor' = anchor /\ initialized /\ resets' = resets
    BY <1>4 DEF CommitStep
  <2>2. Ranges' = Ranges \cup {<<latestBlock, b>>}
    BY <1>4, CommitRanges
  <2>3. anchor <= latestBlock
    BY <2>1 DEF Coverage
  <2>4. SUFFICES ASSUME resets = 0
                 PROVE  \A k \in Ranges \cup {<<latestBlock, b>>} :
                          /\ anchor <= k[1] /\ k[2] <= b
                          /\ \A l \in (Ranges \cup {<<latestBlock, b>>}) \ {k} :
                                k[2] <= l[1] \/ l[2] <= k[1]
    BY <2>1, <2>2 DEF Disjoint
  <2>5. \A k \in Ranges :
           /\ anchor <= k[1] /\ k[2] <= latestBlock
           /\ \A l \in Ranges \ {k} : k[2] <= l[1] \/ l[2] <= k[1]
    BY <2>4 DEF Disjoint
  <2> QED  BY <1>0, <2>1, <2>3, <2>5
<1>5. ASSUME NEW s \in SetIds, RotateStep(s) PROVE Disjoint'
  BY <1>5 DEF RotateStep, Disjoint, rangeVars, Ranges
<1> QED  BY <1>1, <1>2, <1>3, <1>4, <1>5, StepKinds

(* Until the guardian resets the genesis state no block is committed       *)
(* twice: the stored ranges are pairwise disjoint.                         *)
THEOREM NoBlockCommittedTwice == Spec => []Disjoint
<1>1. Init => Coverage /\ Disjoint
  BY DEF Init, Coverage, Disjoint, Ranges
<1>2. TypeInv /\ TypeInv' /\ Coverage /\ Disjoint /\ [Next]_vars
         => Coverage' /\ Disjoint'
  BY CoverageStep, DisjointStep
<1> QED  BY <1>1, <1>2, TypeInvInit, TypeInvStep, PTL DEF Spec

-----------------------------------------------------------------------------
(* What a step may never do.                                               *)

LEMMA KnownStays ==
    ASSUME TypeInv, [Next]_vars
    PROVE  /\ \A b \in Blocks : KnownHeader(b) => KnownHeader(b)'
           /\ \A s \in SetIds : KnownSet(s) => KnownSet(s)'
           /\ Ranges \subseteq Ranges'
<1>0. /\ \A s \in SetIds : AuthoritySetHash[s] # Zero
      /\ \A b \in Blocks : HeaderHash[b] # Zero /\ AuthoritySetId[b] \in SetIds
  BY HashAssumption, SetIdsFacts
<1>1. CASE IdleStep
  BY <1>1 DEF IdleStep, storeVars, rangeVars, KnownHeader, KnownSet, Ranges
<1>2. ASSUME NEW h \in Blocks, GenesisStep(h)
      PROVE  /\ \A b \in Blocks : KnownHeader(b) => KnownHeader(b)'
             /\ \A s \in SetIds : KnownSet(s) => KnownSet(s)'
             /\ Ranges \subseteq Ranges'
  <2>1. /\ \A b \in Blocks : blockHeightToHeaderHash'[b] =
              IF b = h THEN HeaderHash[h] ELSE blockHeightToHeaderHash[b]
        /\ \A s \in SetIds : authoritySetIdToHash'[s] =
              IF s = AuthoritySetId[h] THEN AuthoritySetHash[s]
                                       ELSE authoritySetIdToHash[s]
    BY <1>2 DEF GenesisStep, SetGenesis, TypeInv, TypeOK
  <2>2. Ranges' = Ranges
    BY <1>2 DEF GenesisStep, rangeVars, Ranges
  <2> QED  BY <1>0, <2>1, <2>2 DEF KnownHeader, KnownSet
<1>3. ASSUME NEW start \in Blocks, NEW end \in Blocks, FillStep(start, end)
      PROVE  /\ \A b \in Blocks : KnownHeader(b) => KnownHeader(b)'
             /\ \A s \in SetIds : KnownSet(s) => KnownSet(s)'
             /\ Ranges \subseteq Ranges'
  <2>1. \A s \in SetIds : authoritySetIdToHash'[s] =
              IF s = AuthoritySetId[end] THEN AuthoritySetHash[s]
                                         ELSE authoritySetIdToHash[s]
    BY <1>3 DEF FillStep, TypeInv, TypeOK
  <2> QED  BY <1>0, <1>3, <2>1, FillRanges DEF KnownSet
<1>4. ASSUME NEW s \in SetIds, NEW b \in Blocks, CommitStep(s, b)
      PROVE  /\ \A c \in Blocks : KnownHeader(c) => KnownHeader(c)'
             /\ \A t \in SetIds : KnownSet(t) => KnownSet(t)'
             /\ Ranges \subseteq Ranges'
  <2>1. authoritySetIdToHash' = authoritySetIdToHash
    BY <1>4 DEF CommitStep
  <2> QED  BY <1>4, <2>1, CommitRanges DEF KnownSet
<1>5. ASSUME NEW s \in SetIds, RotateStep(s)
      PROVE  /\ \A b \in Blocks : KnownHeader(b) => KnownHeader(b)'
             /\ \A t \in SetIds : KnownSet(t) => KnownSet(t)'
             /\ Ranges \subseteq Ranges'
  <2>1. \A t \in SetIds : authoritySetIdToHash'[t] =
              IF t = s + 1 THEN AuthoritySetHash[t] ELSE authoritySetIdToHash[t]
    BY <1>5 DEF RotateStep, TypeInv, TypeOK
  <2>2. Ranges' = Ranges /\ blockHeightToHeaderHash' = blockHeightToHeaderHash
    BY <1>5 DEF RotateStep, rangeVars, Ranges
  <2> QED  BY <1>0, <2>1, <2>2 DEF KnownHeader, KnownSet
<1> QED  BY <1>1, <1>2, <1>3, <1>4, <1>5, StepKinds

(* No call, the guardian's included, changes or erases a stored header     *)
(* hash, authority set hash or commitment: a late or repeated rotate or    *)
(* commit can only write what is already there.                            *)
THEOREM StoreIsWriteOnce == Spec => WriteOnce
<1> DEFINE Kept ==
      /\ \A b \in Blocks : KnownHeader(b) =>
            blockHeightToHeaderHash'[b] = blockHeightToHeaderHash[b]
      /\ \A s \in SetIds : KnownSet(s) =>
            authoritySetIdToHash'[s] = authoritySetIdToHash[s]
      /\ \A k \in Ranges :
            /\ dataRootCommitments'[k] = dataRootCommitments[k]
            /\ stateRootCommitments'[k] = stateRootCommitments[k]
<1>1. TypeInv /\ CanonicalStore /\ CanonicalStore' /\ [Next]_vars => Kept
  <2> SUFFICES ASSUME TypeInv, CanonicalStore, CanonicalStore', [Next]_vars
               PROVE  Kept
    OBVIOUS
  <2>1. /\ \A b \in Blocks : KnownHeader(b) => KnownHeader(b)'
        /\ \A s \in SetIds : KnownSet(s) => KnownSet(s)'
        /\ Ranges \subseteq Ranges'
    BY KnownStays
  <2>2. ASSUME NEW b \in Blocks, KnownHeader(b)
        PROVE  blockHeightToHeaderHash'[b] = blockHeightToHeaderHash[b]
    BY <2>1, <2>2 DEF CanonicalStore
  <2>3. ASSUME NEW s \in SetIds, KnownSet(s)
        PROVE  authoritySetIdToHash'[s] = authoritySetIdToHash[s]
    BY <2>1, <2>3 DEF CanonicalStore
  <2>4. ASSUME NEW k \in Ranges
        PROVE  /\ dataRootCommitments'[k] = dataRootCommitments[k]
               /\ stateRootCommitments'[k] = stateRootCommitments[k]
    BY <2>1 DEF CanonicalStore
  <2> QED  BY <2>2, <2>3, <2>4
<1>2. Spec => [](TypeInv /\ CanonicalStore)
  BY StoreIsCanonical, TypeInvInit, TypeInvStep, PTL DEF Spec
<1>3. TypeInv /\ CanonicalStore /\ CanonicalStore' /\ [Next]_vars => [Kept]_vars
  BY <1>1
<1> HIDE DEF Kept
<1>4. Spec => [][Kept]_vars
  BY <1>2, <1>3, PTL DEF Spec
<1> QED  BY <1>4 DEF WriteOnce, Kept

(* Without the guardian the head moves only forward, by a proven range of  *)
(* at most MAX_NUM_HEADERS blocks that a known authority set justified,    *)
(* and the commitments stored with it are those of the blocks it passed.   *)
THEOREM HeadAdvancesByProof == Spec => ProvenAdvance
<1> DEFINE Advance ==
      initialized /\ guardianUpdates' = guardianUpdates
            /\ latestBlock' # latestBlock =>
          /\ latestBlock < latestBlock'
          /\ latestBlock' <= latestBlock + MAX_NUM_HEADERS
          /\ KnownSet(JustifyingSet(latestBlock'))
          /\ Ranges' = Ranges \cup {<<latestBlock, latestBlock'>>}
<1>1. TypeInv /\ [Next]_vars => Advance
  <2> SUFFICES ASSUME TypeInv, [Next]_vars, initialized,
                      guardianUpdates' = guardianUpdates,
                      latestBlock' # latestBlock
               PROVE  /\ latestBlock < latestBlock'
                      /\ latestBlock' <= latestBlock + MAX_NUM_HEADERS
                      /\ KnownSet(JustifyingSet(latestBlock'))
                      /\ Ranges' = Ranges \cup {<<latestBlock, latestBlock'>>}
    OBVIOUS
  <2>1. guardianUpdates' # guardianUpdates + 1
    BY DEF TypeInv, TypeOK
  <2>2. ~IdleStep /\ \A s \in SetIds : ~RotateStep(s)
    BY DEF IdleStep, RotateStep, storeVars
  <2>3. /\ \A h \in Blocks : ~GenesisStep(h)
        /\ \A start \in Blocks, end \in Blocks : ~FillStep(start, end)
    BY <2>1 DEF GenesisStep, FillStep
  <2>4. PICK s \in SetIds, b \in Blocks : CommitStep(s, b)
    BY <2>2, <2>3, StepKinds
  <2>5. Ranges' = Ranges \cup {<<latestBlock, b>>}
    BY <2>4, CommitRanges
  <2> QED  BY <2>4, <2>5 DEF CommitStep
<1>2. TypeInv /\ [Next]_vars => [Advance]_vars
  BY <1>1
<1> HIDE DEF Advance
<1>3. Spec => [][Advance]_vars
  BY <1>2, TypeInvInit, TypeInvStep, PTL DEF Spec
<1> QED  BY <1>3 DEF ProvenAdvance, Advance

-----------------------------------------------------------------------------
(* The contract implements the abstract light client, for every value of   *)
(* the constants: the refinement mapping of VectorX turns every step of    *)
(* the contract into a step of LightClient or into a stuttering step.      *)

KnownHeaders == {b \in Blocks : KnownHeader(b)}
KnownSets == {s \in SetIds : KnownSet(s)}

(* In a canonical store the facts are those of the known keys. *)
FactsOfKnown ==
    /\ HeaderFacts = {LC!HeaderFact(b) : b \in KnownHeaders}
    /\ SetFacts = {LC!SetFact(s) : s \in KnownSets}
    /\ CommitmentFacts = {LC!CommitmentFact(k) : k \in Ranges}

LEMMA FactsAreOfTheChain ==
    ASSUME CanonicalStore
    PROVE  FactsOfKnown
<1> USE DEF KnownHeaders, KnownSets
<1>1. \A b \in KnownHeaders :
          <<b, blockHeightToHeaderHash[b]>> = LC!HeaderFact(b)
  BY DEF CanonicalStore, LC!HeaderFact
<1>2. \A s \in KnownSets : <<s, authoritySetIdToHash[s]>> = LC!SetFact(s)
  BY DEF CanonicalStore, LC!SetFact
<1>3. \A k \in Ranges :
          <<k, dataRootCommitments[k], stateRootCommitments[k]>>
              = LC!CommitmentFact(k)
  BY DEF CanonicalStore, LC!CommitmentFact
<1> QED  BY <1>1, <1>2, <1>3 DEF FactsOfKnown, HeaderFacts, SetFacts,
            CommitmentFacts

(* No batch of a fill is longer than what one proof covers. *)
LEMMA FillBatchesShort ==
    ASSUME NEW start \in Blocks, NEW end \in Blocks, start < end
    PROVE  \A k \in FillKeys(start, end) : k[2] <= k[1] + MAX_NUM_HEADERS
<1> DEFINE N == MAX_NUM_HEADERS
           n == NumBatches(start, end)
<1>1. N \in Nat /\ N > 0 /\ start \in Nat /\ end \in Nat
  BY MaxNumHeadersAssumption, MaxBlockAssumption DEF Blocks
<1>2. n \in Nat
  BY NumBatchesBounds
<1> HIDE DEF n, N
<1>3. ASSUME NEW i \in 1 .. n
      PROVE  FillEndBlocks(start, end)[i] <= FillStartBlocks(start, end)[i] + N
  <2>1. PICK p \in Int : p = (i - 1) * N
    BY <1>1, <1>2
  <2>2. i * N = p + N
    BY <1>1, <1>2, <2>1
  <2>3. FillStartBlocks(start, end)[i] = start + p
    BY <2>1 DEF FillStartBlocks, n, N
  <2>4. FillEndBlocks(start, end)[i] = IF start + (p + N) < end
                                       THEN start + (p + N) ELSE end
    BY <2>2 DEF FillEndBlocks, n, N
  <2> QED  BY <1>1, <2>1, <2>3, <2>4
<1> QED  BY <1>3 DEF FillKeys, n, N

-----------------------------------------------------------------------------
(* The abstract step behind every kind of step of the contract.            *)

LEMMA GenesisIsAnchor ==
    ASSUME TypeInv, FactsOfKnown, FactsOfKnown', NEW h \in Blocks,
           GenesisStep(h)
    PROVE  LC!Anchor(h)
<1>1. AuthoritySetId[h] \in SetIds
  BY SetIdsFacts
<1>2. HeaderHash[h] # Zero /\ AuthoritySetHash[AuthoritySetId[h]] # Zero
  BY <1>1, HashAssumption
<1>3. KnownHeaders' = KnownHeaders \cup {h}
  BY <1>2 DEF GenesisStep, SetGenesis, TypeInv, TypeOK, KnownHeader,
     KnownHeaders
<1>4. KnownSets' = KnownSets \cup {AuthoritySetId[h]}
  BY <1>1, <1>2 DEF GenesisStep, SetGenesis, TypeInv, TypeOK, KnownSet,
     KnownSets
<1>5. Ranges' = Ranges
  BY DEF GenesisStep, rangeVars, Ranges
<1>6. /\ HeaderFacts' = HeaderFacts \cup {LC!HeaderFact(h)}
      /\ SetFacts' = SetFacts \cup {LC!SetFact(AuthoritySetId[h])}
      /\ CommitmentFacts' = CommitmentFacts
  BY <1>3, <1>4, <1>5 DEF FactsOfKnown, LC!HeaderFact, LC!SetFact,
     LC!CommitmentFact
<1> QED  BY <1>6 DEF LC!Anchor, GenesisStep, SetGenesis

LEMMA CommitIsProve ==
    ASSUME TypeInv, FactsOfKnown, FactsOfKnown',
           NEW s \in SetIds, NEW b \in Blocks, CommitStep(s, b)
    PROVE  LC!Prove(b)
<1>1. latestBlock \in Blocks /\ head \in Blocks
  BY DEF TypeInv, TypeOK
<1>2. HeaderHash[b] # Zero
  BY HashAssumption
<1>3. KnownHeaders' = KnownHeaders \cup {b}
  BY <1>2 DEF CommitStep, TypeInv, TypeOK, KnownHeader, KnownHeaders
<1>4. Ranges' = Ranges \cup {<<latestBlock, b>>}
  BY CommitRanges
<1>5. /\ HeaderFacts' = HeaderFacts \cup {LC!HeaderFact(b)}
      /\ CommitmentFacts' =
            CommitmentFacts \cup {LC!CommitmentFact(<<latestBlock, b>>)}
  BY <1>3, <1>4 DEF FactsOfKnown, LC!HeaderFact, LC!CommitmentFact
<1>6. SetFacts' = SetFacts
  BY DEF CommitStep, SetFacts, KnownSet
<1>7. /\ LC!HeaderFact(latestBlock) \in HeaderFacts
      /\ LC!SetFact(JustifyingSet(b)) \in SetFacts
  BY <1>1 DEF CommitStep, FactsOfKnown, KnownHeaders, KnownSets
<1>8. <<latestBlock, b>> \in LC!ShortRanges(latestBlock, head)
  BY <1>1, MaxBlockAssumption DEF CommitStep, LC!ShortRanges, Blocks,
     LC!Blocks
<1> QED  BY <1>5, <1>6, <1>7, <1>8 DEF LC!Prove, CommitStep, LC!JustifyingSet,
            JustifyingSet

LEMMA FillIsFill ==
    ASSUME TypeInv, FactsOfKnown, FactsOfKnown', Coverage,
           NEW start \in Blocks, NEW end \in Blocks, FillStep(start, end)
    PROVE  LC!Fill(end)
<1> DEFINE K == FillKeys(start, end)
<1>1. /\ start = latestBlock /\ latestBlock' = end /\ start < end
      /\ end <= head /\ head' = head /\ initialized
      /\ AuthoritySetId[end] \in SetIds
  BY SetIdsFacts DEF FillStep
<1>2. Ranges' = Ranges \cup K
  BY FillRanges
<1>3. /\ K \subseteq Keys
      /\ \A k \in K : start <= k[1] /\ k[1] < k[2] /\ k[2] <= end
      /\ \A c \in start + 1 .. end : \E k \in K : k[1] < c /\ c <= k[2]
      /\ \A k, l \in K : k # l => k[2] <= l[1] \/ l[2] <= k[1]
  BY <1>1, FillKeysTile
<1>4. \A k \in K : k[2] <= k[1] + MAX_NUM_HEADERS
  BY <1>1, FillBatchesShort
<1>5. KnownHeaders' = KnownHeaders \cup {k[2] : k \in K}
  <2>1. {k[2] : k \in K} = {FillEndBlocks(start, end)[i] :
                               i \in 1 .. NumBatches(start, end)}
    <3> DEFINE S == FillStartBlocks(start, end)
               E == FillEndBlocks(start, end)
               n == NumBatches(start, end)
    <3>1. K = {<<S[i], E[i]>> : i \in 1 .. n}
      BY DEF FillKeys
    <3> HIDE DEF S, E, n, K
    <3>2. ASSUME NEW k \in K PROVE k[2] \in {E[i] : i \in 1 .. n}
      <4>1. PICK i \in 1 .. n : k = <<S[i], E[i]>>
        BY <3>1
      <4> QED  BY <4>1
    <3>3. ASSUME NEW i \in 1 .. n PROVE E[i] \in {k[2] : k \in K}
      <4>1. <<S[i], E[i]>> \in K /\ <<S[i], E[i]>>[2] = E[i]
        BY <3>1
      <4> QED  BY <4>1
    <3> QED  BY <3>2, <3>3 DEF E, n
  <2>2. {k[2] : k \in K} \subseteq Blocks
    BY <1>3 DEF Keys
  <2>3. \A c \in Blocks : blockHeightToHeaderHash'[c] =
           IF c \in {k[2] : k \in K} THEN HeaderHash[c]
                                     ELSE blockHeightToHeaderHash[c]
    BY <2>1 DEF FillStep
  <2>4. \A c \in Blocks : HeaderHash[c] # Zero
    BY HashAssumption
  <2> HIDE DEF K
  <2> QED  BY <2>2, <2>3, <2>4 DEF KnownHeaders, KnownHeader
<1> HIDE DEF K
<1>6. KnownSets' = KnownSets \cup {AuthoritySetId[end]}
  BY <1>1, HashAssumption DEF FillStep, KnownSets, KnownSet, TypeInv, TypeOK
<1>7. /\ HeaderFacts' = HeaderFacts \cup {LC!HeaderFact(k[2]) : k \in K}
      /\ CommitmentFacts' = CommitmentFacts
            \cup {LC!CommitmentFact(k) : k \in K}
      /\ SetFacts' = SetFacts \cup {LC!SetFact(AuthoritySetId[end])}
  BY <1>2, <1>5, <1>6 DEF FactsOfKnown, LC!HeaderFact, LC!SetFact,
     LC!CommitmentFact
<1>8. K \subseteq LC!ShortRanges(start, end)
  BY <1>3, <1>4 DEF LC!ShortRanges, Keys, Blocks, LC!Blocks
<1>9. LC!Tiles(K, start, end)
  <2> SUFFICES ASSUME NEW c \in start + 1 .. end
               PROVE  \E k \in K :
                         /\ k[1] < c /\ c <= k[2]
                         /\ \A l \in K : l[1] < c /\ c <= l[2] => l = k
    BY DEF LC!Tiles
  <2>1. PICK k \in K : k[1] < c /\ c <= k[2]
    BY <1>3
  <2>2. ASSUME NEW l \in K, l[1] < c, c <= l[2] PROVE l = k
    <3>1. /\ c \in Int /\ k[1] \in Int /\ k[2] \in Int
          /\ l[1] \in Int /\ l[2] \in Int
      BY <1>3 DEF Keys, Blocks
    <3> QED  BY <1>3, <2>1, <2>2, <3>1
  <2> QED  BY <2>1, <2>2
<1>10. LC!HeaderFact(latestBlock) \in HeaderFacts
  BY <1>1 DEF Coverage, FactsOfKnown, KnownHeaders
<1> QED  BY <1>1, <1>7, <1>8, <1>9, <1>10 DEF LC!Fill

LEMMA RotateIsHandOver ==
    ASSUME TypeInv, FactsOfKnown, FactsOfKnown', NEW s \in SetIds,
           RotateStep(s)
    PROVE  LC!HandOver(s)
<1>1. AuthoritySetHash[s + 1] # Zero /\ s + 1 \in SetIds
  BY HashAssumption DEF RotateStep
<1>2. KnownSets' = KnownSets \cup {s + 1}
  BY <1>1 DEF RotateStep, KnownSets, KnownSet, TypeInv, TypeOK
<1>3. SetFacts' = SetFacts \cup {LC!SetFact(s + 1)}
  BY <1>2 DEF FactsOfKnown, LC!SetFact
<1>4. HeaderFacts' = HeaderFacts /\ CommitmentFacts' = CommitmentFacts
  BY DEF RotateStep, rangeVars, HeaderFacts, KnownHeader, CommitmentFacts,
     Ranges
<1>5. LC!SetFact(s) \in SetFacts
  BY DEF FactsOfKnown, KnownSets, RotateStep
<1> QED  BY <1>3, <1>4, <1>5 DEF LC!HandOver, RotateStep

LEMMA IdleIsStutterOrFinalize ==
    ASSUME TypeInv, IdleStep
    PROVE  LC!Finalize \/ UNCHANGED LC!lcVars
<1>1. /\ HeaderFacts' = HeaderFacts /\ SetFacts' = SetFacts
      /\ CommitmentFacts' = CommitmentFacts /\ latestBlock' = latestBlock
  BY DEF IdleStep, storeVars, rangeVars, HeaderFacts, KnownHeader, SetFacts,
     KnownSet, CommitmentFacts, Ranges
<1>2. head' = head \/ head' \in head + 1 .. MaxBlock
  BY MaxBlockAssumption DEF IdleStep, TypeInv, TypeOK, Blocks
<1> QED  BY <1>1, <1>2 DEF LC!Finalize, LC!lcVars

-----------------------------------------------------------------------------
(* Every behaviour of the contract is, through the refinement mapping, a   *)
(* behaviour of the abstract light client: no proof, however late, lost or *)
(* repeated, and no guardian call adds a fact that does not follow from    *)
(* the finalized chain and the facts stored before.                        *)
THEOREM ContractImplementsLightClient == Spec => ImplementsLightClient
<1>1. Init => LC!LCInit
  BY DEF Init, LC!LCInit, LC!Blocks, Blocks, HeaderFacts, SetFacts,
     CommitmentFacts, KnownHeader, KnownSet, Ranges
<1>2. ASSUME TypeInv, FactsOfKnown, FactsOfKnown', Coverage, [Next]_vars
      PROVE  [LC!LCNext]_(LC!lcVars)
  <2>1. CASE IdleStep
    BY <1>2, <2>1, IdleIsStutterOrFinalize DEF LC!LCNext
  <2>2. ASSUME NEW h \in Blocks, GenesisStep(h) PROVE LC!LCNext
    BY <1>2, <2>2, GenesisIsAnchor DEF LC!LCNext, LC!Blocks, Blocks
  <2>3. ASSUME NEW start \in Blocks, NEW end \in Blocks, FillStep(start, end)
        PROVE  LC!LCNext
    BY <1>2, <2>3, FillIsFill DEF LC!LCNext, LC!Blocks, Blocks
  <2>4. ASSUME NEW s \in SetIds, NEW b \in Blocks, CommitStep(s, b)
        PROVE  LC!LCNext
    BY <1>2, <2>4, CommitIsProve DEF LC!LCNext, LC!Blocks, Blocks
  <2>5. ASSUME NEW s \in SetIds, RotateStep(s) PROVE LC!LCNext
    BY <1>2, <2>5, RotateIsHandOver DEF LC!LCNext, LC!SetIds,
       SetIds
  <2> QED  BY <1>2, <2>1, <2>2, <2>3, <2>4, <2>5, StepKinds
<1>3. CanonicalStore => FactsOfKnown
  BY FactsAreOfTheChain
<1>4. Spec => [](TypeInv /\ FactsOfKnown /\ Coverage)
  BY <1>3, StoreIsCanonical, CommittedBlocksCovered, TypeInvInit, TypeInvStep,
     PTL DEF Spec
<1> QED  BY <1>1, <1>2, <1>4, PTL DEF Spec, ImplementsLightClient, LC!LCSpec

-----------------------------------------------------------------------------
(***************************************************************************)
(* What the contract keeps when it runs with the dummy programs.  Every    *)
(* step is a step of the contract proved about above, or the delivery of a *)
(* dummy program's answer.                                                 *)
(***************************************************************************)

(* commitHeaderRange of (latestBlock, b] with the answer of the dummy      *)
(* header range program.                                                   *)
DummyCommitStep(b) ==
    LET key == <<latestBlock, b>>
    IN  /\ initialized
        /\ latestBlock < b /\ b <= head
        /\ blockHeightToHeaderHash' =
              [blockHeightToHeaderHash EXCEPT ![b] = HeaderHash[b]]
        /\ dataRootCommitments' =
              [dataRootCommitments EXCEPT ![key] = DataRootCommitment[key]]
        /\ stateRootCommitments' =
              [stateRootCommitments EXCEPT ![key] = StateRootCommitment[key]]
        /\ rangeStartBlocks' = [rangeStartBlocks EXCEPT ![key] = latestBlock]
        /\ latestBlock' = b
        /\ UNCHANGED <<configVars, authoritySetIdToHash, requestVars, head,
                       historyVars>>

(* rotate from set s with hash as the answer of the dummy rotate program.  *)
(* Nothing keeps s + 1 among the announced sets.                           *)
DummyRotateStep(s, hash) ==
    /\ initialized
    /\ authoritySetIdToHash' = [authoritySetIdToHash EXCEPT ![s + 1] = hash]
    /\ UNCHANGED <<configVars, latestBlock, blockHeightToHeaderHash, rangeVars,
                   requestVars, head, historyVars>>

(* The hashes the dummy rotate program may answer for set s. *)
RotateAnswers(s) == {AuthoritySetHash[AuthoritySetId[b]] :
                        b \in {c \in Blocks : c = 0 \/ IsEpochEnd(s, c)}}

(* The program answers the authorities of the epoch end block, or those of *)
(* block 0 when the set has not ended.                                     *)
LEMMA DummyRotateAnswers ==
    ASSUME NEW input \in RotateInput
    PROVE  DummyRotate(input) \in RotateAnswers(input.authoritySetId)
<1> DEFINE s == input.authoritySetId
           b == last_justified_block(s, head)
<1>1. b \in Blocks /\ (b = 0 \/ IsEpochEnd(s, b))
  <2>1. CASE \E c \in Blocks : c <= head /\ IsEpochEnd(s, c)
    BY <2>1 DEF last_justified_block
  <2>2. CASE ~\E c \in Blocks : c <= head /\ IsEpochEnd(s, c)
    BY <2>2, MaxBlockAssumption DEF last_justified_block, Blocks
  <2> QED  BY <2>1, <2>2
<1>2. DummyRotate(input) = AuthoritySetHash[AuthoritySetId[b]]
  BY DEF DummyRotate, compute_authority_set_hash
<1> HIDE DEF b, s
<1> QED  BY <1>1, <1>2 DEF RotateAnswers, s

(* Under the id it is stored at, an answer is the announced hash or that   *)
(* of the set of block 0.                                                  *)
LEMMA AnswersAreKnownSets ==
    ASSUME NEW s \in SetIds, NEW hash \in RotateAnswers(s)
    PROVE  /\ hash \in Hash
           /\ hash \in {AuthoritySetHash[s + 1], compute_authority_set_hash(0)}
<1>1. PICK b \in Blocks : /\ b = 0 \/ IsEpochEnd(s, b)
                          /\ hash = AuthoritySetHash[AuthoritySetId[b]]
  BY DEF RotateAnswers
<1>2. hash \in Hash
  BY <1>1, SetIdsFacts, HashAssumption
<1>3. CASE b = 0
  BY <1>1, <1>2, <1>3 DEF compute_authority_set_hash
<1>4. CASE IsEpochEnd(s, b)
  BY <1>1, <1>2, <1>4 DEF IsEpochEnd
<1> QED  BY <1>1, <1>3, <1>4

LEMMA DummyStepKinds ==
    ASSUME TypeInv, [DummyNext]_vars
    PROVE  \/ [Next]_vars
           \/ \E b \in Blocks : DummyCommitStep(b)
           \/ \E s \in SetIds : \E hash \in RotateAnswers(s) :
                 DummyRotateStep(s, hash)
<1>1. CASE DummyFulfillHeaderRange
  <2>1. PICK call \in headerRangeRequests, s \in SetIds, b \in Blocks :
           LET output == DummyHeaderRange(call.input)
               key == RangeKey(latestBlock, b)
           IN  /\ DummyHeaderRangeReturns(call.input)
               /\ KnownHeader(latestBlock) /\ b > latestBlock
               /\ call.input = EncodedHeaderRange(s, b)
               /\ blockHeightToHeaderHash' =
                     [blockHeightToHeaderHash EXCEPT
                         ![b] = output.targetHeaderHash]
               /\ dataRootCommitments' =
                     [dataRootCommitments EXCEPT
                         ![key] = output.dataRootCommitment]
               /\ stateRootCommitments' =
                     [stateRootCommitments EXCEPT
                         ![key] = output.stateRootCommitment]
               /\ rangeStartBlocks' =
                     [rangeStartBlocks EXCEPT ![key] = latestBlock]
               /\ latestBlock' = b
               /\ UNCHANGED <<configVars, authoritySetIdToHash, requestVars,
                              head, historyVars>>
    BY <1>1 DEF DummyFulfillHeaderRange, verifiedCall
  <2>2. /\ call.input.trustedBlock = latestBlock
        /\ call.input.targetBlock = b
    BY <2>1 DEF EncodedHeaderRange
  <2>3. initialized /\ latestBlock \in Nat /\ b \in Nat
    BY <2>1 DEF TypeInv, TypeOK, Configured, Blocks
  <2>4. b <= head
    BY <2>1, <2>2 DEF DummyHeaderRangeReturns
  <2>5. DummyHeaderRange(call.input) =
           [targetHeaderHash    |-> HeaderHash[b],
            stateRootCommitment |-> StateRootCommitment[<<latestBlock, b>>],
            dataRootCommitment  |-> DataRootCommitment[<<latestBlock, b>>]]
    BY <2>2 DEF DummyHeaderRange
  <2>6. DummyCommitStep(b)
    BY <2>1, <2>3, <2>4, <2>5 DEF DummyCommitStep, RangeKey
  <2> QED  BY <2>6
<1>2. CASE DummyFulfillRotate
  <2>1. PICK call \in rotateRequests, s \in SetIds :
           /\ KnownSet(s)
           /\ call.input = EncodedRotate(s)
           /\ authoritySetIdToHash' =
                 [authoritySetIdToHash EXCEPT ![s + 1] = DummyRotate(call.input)]
           /\ UNCHANGED <<configVars, latestBlock, blockHeightToHeaderHash,
                          rangeVars, requestVars, head, historyVars>>
    BY <1>2 DEF DummyFulfillRotate, verifiedCall, NextAuthoritySetId
  <2>2. initialized /\ call.input \in RotateInput
    BY <2>1 DEF TypeInv, TypeOK, Configured, RotateCall
  <2>3. call.input.authoritySetId = s
    BY <2>1 DEF EncodedRotate
  <2>4. DummyRotate(call.input) \in RotateAnswers(s)
    BY <2>2, <2>3, DummyRotateAnswers
  <2>5. DummyRotateStep(s, DummyRotate(call.input))
    BY <2>1, <2>2 DEF DummyRotateStep
  <2> QED  BY <2>4, <2>5
<1> QED  BY <1>1, <1>2 DEF DummyNext, Next

-----------------------------------------------------------------------------
(* The types, which also bound what a request in flight can carry.         *)

LEMMA DummyTypeStep ==
    ASSUME TypeInv, [DummyNext]_vars
    PROVE  TypeInv'
<1>1. CASE [Next]_vars
  BY <1>1, TypeInvStep
<1>2. ASSUME NEW b \in Blocks, DummyCommitStep(b) PROVE TypeInv'
  <2> DEFINE key == <<latestBlock, b>>
  <2>1. /\ key \in Keys /\ HeaderHash[b] \in Hash
        /\ DataRootCommitment[key] \in Hash
        /\ StateRootCommitment[key] \in Hash
    BY HashAssumption DEF TypeInv, TypeOK, Keys
  <2> HIDE DEF key
  <2>2. TypeOK'
    BY <1>2, <2>1 DEF DummyCommitStep, key, TypeInv, TypeOK, configVars,
       requestVars, historyVars
  <2>3. Configured'
    BY <1>2 DEF DummyCommitStep, TypeInv, Configured, configVars
  <2> QED  BY <2>2, <2>3 DEF TypeInv
<1>3. ASSUME NEW s \in SetIds, NEW hash \in RotateAnswers(s),
             DummyRotateStep(s, hash)
      PROVE  TypeInv'
  <2>1. hash \in Hash
    BY AnswersAreKnownSets
  <2>2. TypeOK'
    BY <1>3, <2>1 DEF DummyRotateStep, TypeInv, TypeOK, configVars,
       rangeVars, requestVars, historyVars
  <2>3. Configured'
    BY <1>3 DEF DummyRotateStep, TypeInv, Configured, configVars
  <2> QED  BY <2>2, <2>3 DEF TypeInv
<1> QED  BY <1>1, <1>2, <1>3, DummyStepKinds

-----------------------------------------------------------------------------
(* The headers and the commitments.                                        *)

LEMMA DummyRangesStep ==
    ASSUME TypeInv, DummyRangesCanonical, [DummyNext]_vars
    PROVE  DummyRangesCanonical'
<1> USE DEF DummyRangesCanonical, KnownHeader, Ranges
<1>0. /\ \A b \in Blocks : b \in Nat
      /\ head \in Blocks /\ latestBlock \in Blocks
  BY DEF Blocks, TypeInv, TypeOK
<1>1. CASE [Next]_vars
  <2>1. CASE IdleStep
    BY <1>0, <2>1 DEF IdleStep, storeVars, rangeVars
  <2>2. ASSUME NEW h \in Blocks, GenesisStep(h) PROVE DummyRangesCanonical'
    BY <1>0, <2>2 DEF GenesisStep, SetGenesis, rangeVars, TypeInv, TypeOK
  <2>3. ASSUME NEW start \in Blocks, NEW end \in Blocks, FillStep(start, end)
        PROVE  DummyRangesCanonical'
    <3>1. \A k \in Keys :
             \/ /\ dataRootCommitments'[k] = DataRootCommitment[k]
                /\ stateRootCommitments'[k] = StateRootCommitment[k]
             \/ /\ dataRootCommitments'[k] = dataRootCommitments[k]
                /\ stateRootCommitments'[k] = stateRootCommitments[k]
      BY <2>3 DEF FillStep
    <3> DEFINE E == FillEndBlocks(start, end)
    <3>2. head' = head /\ start < end /\ end <= head
      BY <2>3 DEF FillStep
    <3>3. \A i \in 1 .. NumBatches(start, end) : E[i] <= end /\ E[i] \in Blocks
      <4>1. /\ \A i \in 1 .. NumBatches(start, end) : E[i] <= end
            /\ E \in Seq(Blocks) /\ Len(E) = NumBatches(start, end)
        BY <3>2, FillBlockRange
      <4> QED  BY <4>1
    <3>4. \A b \in Blocks :
             \/ b <= end /\ blockHeightToHeaderHash'[b] = HeaderHash[b]
             \/ blockHeightToHeaderHash'[b] = blockHeightToHeaderHash[b]
      <4> HIDE DEF E
      <4> QED  BY <2>3, <3>3 DEF FillStep, E
    <3> QED  BY <1>0, <3>1, <3>2, <3>4
  <2>4. ASSUME NEW s \in SetIds, NEW b \in Blocks, CommitStep(s, b)
        PROVE  DummyRangesCanonical'
    <3>1. <<latestBlock, b>> \in Keys
      BY <1>0 DEF Keys
    <3> QED  BY <1>0, <2>4, <3>1 DEF CommitStep, TypeInv, TypeOK
  <2>5. ASSUME NEW s \in SetIds, RotateStep(s) PROVE DummyRangesCanonical'
    BY <2>5 DEF RotateStep, rangeVars
  <2> QED  BY <1>1, <2>1, <2>2, <2>3, <2>4, <2>5, StepKinds
<1>2. ASSUME NEW b \in Blocks, DummyCommitStep(b) PROVE DummyRangesCanonical'
  <2>1. <<latestBlock, b>> \in Keys
    BY <1>0 DEF Keys
  <2> QED  BY <1>0, <1>2, <2>1 DEF DummyCommitStep, TypeInv, TypeOK
<1>3. ASSUME NEW s \in SetIds, NEW hash \in RotateAnswers(s),
             DummyRotateStep(s, hash)
      PROVE  DummyRangesCanonical'
  BY <1>3 DEF DummyRotateStep, rangeVars
<1> QED  BY <1>1, <1>2, <1>3, DummyStepKinds

(* Although the dummy header range program drops the trusted header and    *)
(* the authority set it is given, the contract stores only the headers and *)
(* commitments of the finalized chain (dummy_header_range.rs: run;         *)
(* VectorX.sol: commitHeaderRange).                                        *)
THEOREM DummyRangesAreCanonical == DummySpec => []DummyRangesCanonical
<1>1. Init => DummyRangesCanonical
  BY DEF Init, DummyRangesCanonical, KnownHeader, Ranges
<1>2. TypeInv /\ DummyRangesCanonical /\ [DummyNext]_vars
         => DummyRangesCanonical'
  BY DummyRangesStep
<1>3. TypeInv /\ [DummyNext]_vars => TypeInv'
  BY DummyTypeStep
<1> QED  BY <1>1, <1>2, <1>3, TypeInvInit, PTL DEF DummySpec

-----------------------------------------------------------------------------
(* The authority sets.                                                     *)

LEMMA DummySetsStep ==
    ASSUME TypeInv, WrongSetIsThatOfBlockZero, [DummyNext]_vars
    PROVE  WrongSetIsThatOfBlockZero'
<1> USE DEF WrongSetIsThatOfBlockZero, KnownSet, compute_authority_set_hash
<1>1. CASE [Next]_vars
  <2> DEFINE Honest ==
        \A s \in SetIds : \/ authoritySetIdToHash'[s] = authoritySetIdToHash[s]
                          \/ authoritySetIdToHash'[s] = AuthoritySetHash[s]
  <2>1. Honest
    <3>1. CASE IdleStep
      BY <3>1 DEF IdleStep, storeVars
    <3>2. ASSUME NEW h \in Blocks, GenesisStep(h) PROVE Honest
      BY <3>2 DEF GenesisStep, SetGenesis, TypeInv, TypeOK
    <3>3. ASSUME NEW start \in Blocks, NEW end \in Blocks,
                 FillStep(start, end)
          PROVE  Honest
      BY <3>3 DEF FillStep, TypeInv, TypeOK
    <3>4. ASSUME NEW s \in SetIds, NEW b \in Blocks, CommitStep(s, b)
          PROVE  Honest
      BY <3>4 DEF CommitStep
    <3>5. ASSUME NEW s \in SetIds, RotateStep(s) PROVE Honest
      BY <3>5 DEF RotateStep, TypeInv, TypeOK
    <3> QED  BY <1>1, <3>1, <3>2, <3>3, <3>4, <3>5, StepKinds
  <2> QED  BY <2>1
<1>2. ASSUME NEW b \in Blocks, DummyCommitStep(b)
      PROVE  WrongSetIsThatOfBlockZero'
  BY <1>2 DEF DummyCommitStep
<1>3. ASSUME NEW s \in SetIds, NEW hash \in RotateAnswers(s),
             DummyRotateStep(s, hash)
      PROVE  WrongSetIsThatOfBlockZero'
  <2>1. hash \in {AuthoritySetHash[s + 1], AuthoritySetHash[AuthoritySetId[0]]}
    BY AnswersAreKnownSets
  <2> QED  BY <1>3, <2>1 DEF DummyRotateStep, TypeInv, TypeOK
<1> QED  BY <1>1, <1>2, <1>3, DummyStepKinds

(* The only wrong authority set a dummy rotate can plant is that of        *)
(* block 0 (dummy_rotate.rs: run; VectorX.sol: rotate).                    *)
THEOREM WrongSetsAreThatOfBlockZero == DummySpec => []WrongSetIsThatOfBlockZero
<1>1. Init => WrongSetIsThatOfBlockZero
  BY DEF Init, WrongSetIsThatOfBlockZero, KnownSet
<1>2. TypeInv /\ WrongSetIsThatOfBlockZero /\ [DummyNext]_vars
         => WrongSetIsThatOfBlockZero'
  BY DummySetsStep
<1>3. TypeInv /\ [DummyNext]_vars => TypeInv'
  BY DummyTypeStep
<1> QED  BY <1>1, <1>2, <1>3, TypeInvInit, PTL DEF DummySpec

-----------------------------------------------------------------------------
(***************************************************************************)
(* The operator, for every chain, interval, number of restarts and order   *)
(* of its reads with the proofs, guardian calls and blocks in between.     *)
(*                                                                         *)
(* The argument: the store only grows and the chain only grows, so what    *)
(* the operator concluded from a read stays true while it reads on.  The   *)
(* invariant says, for every await, what the reads before it established.  *)
(***************************************************************************)

(* The bounds of BlockToRequest (vectorx.rs: run): a multiple of the       *)
(* interval, not above the finalized head nor the longest range, and above *)
(* the contract's block once Avail is an interval ahead.                   *)
THEOREM BlockToRequestBounds ==
    ASSUME NEW avail \in Nat, NEW contract \in Nat
    PROVE  /\ \E q \in Nat :
                 BlockToRequest(avail, contract) = BlockInterval * q
           /\ BlockToRequest(avail, contract) <= avail
           /\ BlockToRequest(avail, contract) <= contract + DATA_COMMITMENT_MAX
           /\ BlockInterval <= DATA_COMMITMENT_MAX
                  /\ avail >= contract + BlockInterval =>
                BlockToRequest(avail, contract) > contract
<1> DEFINE limit == DATA_COMMITMENT_MAX + contract
           max_block == IF avail < limit THEN avail ELSE limit
           rest == max_block % BlockInterval
           q == max_block \div BlockInterval
<1>1. BlockInterval \in Nat /\ BlockInterval > 0 /\ DATA_COMMITMENT_MAX \in Nat
  BY OperatorAssumption
<1>2. max_block \in Nat /\ max_block <= avail /\ max_block <= limit
  BY <1>1
<1>3. BlockToRequest(avail, contract) = max_block - rest
  BY DEF BlockToRequest
<1>4. BlockInterval <= DATA_COMMITMENT_MAX /\ avail >= contract + BlockInterval
          => max_block >= contract + BlockInterval
  BY <1>1
<1> HIDE DEF max_block
<1>5. rest \in Nat /\ rest < BlockInterval /\ q \in Nat
  BY <1>1, <1>2
<1>6. max_block = BlockInterval * q + rest
  BY <1>1, <1>2
<1> HIDE DEF rest, q
<1>7. BlockInterval * q \in Nat
  BY <1>1, <1>5
<1>8. max_block - rest = BlockInterval * q
  BY <1>2, <1>5, <1>6, <1>7
<1>9. \E n \in Nat : BlockToRequest(avail, contract) = BlockInterval * n
  BY <1>3, <1>5, <1>8
<1>10. max_block - rest <= avail /\ max_block - rest <= limit
  BY <1>1, <1>2, <1>5
<1>11. BlockInterval <= DATA_COMMITMENT_MAX /\ avail >= contract + BlockInterval
          => max_block - rest > contract
  BY <1>1, <1>2, <1>4, <1>5
<1>12. BlockToRequest(avail, contract) <= contract + DATA_COMMITMENT_MAX
  BY <1>1, <1>3, <1>10
<1> HIDE DEF limit
<1> QED  BY <1>3, <1>9, <1>10, <1>11, <1>12

-----------------------------------------------------------------------------
(* What the proofs need of the contract.                                   *)

(* One of the two sets around a block is known: the set that justified it, *)
(* after a proof, or the set it announces, after a guardian's write.       *)
SetAround(b) ==
    KnownSet(AuthoritySetId[b]) \/ KnownSet(AuthoritySetId[b - 1])

ContractInv ==
    /\ TypeInv
    /\ CanonicalStore
    /\ NothingFromTheFuture
    /\ Coverage
    /\ initialized /\ latestBlock # 0 => SetAround(latestBlock)

LEMMA ContractInvInit == Init => ContractInv
<1> SUFFICES ASSUME Init PROVE ContractInv
  OBVIOUS
<1>1. CanonicalStore /\ NothingFromTheFuture
  BY DEF Init, CanonicalStore, NothingFromTheFuture, KnownHeader, KnownSet,
         Ranges
<1>2. Coverage /\ ~initialized
  BY DEF Init, Coverage
<1> QED  BY <1>1, <1>2, TypeInvInit DEF ContractInv

(* The chain and what is known of it only grow. *)
LEMMA OnlyGrows ==
    ASSUME TypeInv, [Next]_vars
    PROVE  /\ head' \in Blocks /\ head <= head'
           /\ initialized => initialized'
           /\ \A b \in Blocks : KnownHeader(b) => KnownHeader(b)'
           /\ \A s \in SetIds : KnownSet(s) => KnownSet(s)'
<1>1. head \in Blocks /\ head \in Nat
  BY DEF TypeInv, TypeOK, Blocks
<1>2. CASE IdleStep
  BY <1>2, KnownStays DEF IdleStep
<1>3. ASSUME UNCHANGED head, initialized => initialized'
      PROVE  head' \in Blocks /\ head <= head' /\ (initialized => initialized')
  BY <1>1, <1>3
<1>4. ASSUME NEW h \in Blocks, GenesisStep(h)
      PROVE  UNCHANGED head /\ (initialized => initialized')
  BY <1>4 DEF GenesisStep
<1>5. ASSUME NEW start \in Blocks, NEW end \in Blocks, FillStep(start, end)
      PROVE  UNCHANGED head /\ (initialized => initialized')
  BY <1>5 DEF FillStep
<1>6. ASSUME NEW s \in SetIds, NEW b \in Blocks, CommitStep(s, b)
      PROVE  UNCHANGED head /\ (initialized => initialized')
  BY <1>6 DEF CommitStep
<1>7. ASSUME NEW s \in SetIds, RotateStep(s)
      PROVE  UNCHANGED head /\ (initialized => initialized')
  BY <1>7 DEF RotateStep
<1> QED  BY <1>2, <1>3, <1>4, <1>5, <1>6, <1>7, StepKinds, KnownStays

LEMMA SetAroundStep ==
    ASSUME TypeInv, TypeInv', [Next]_vars,
           initialized /\ latestBlock # 0 => SetAround(latestBlock)
    PROVE  (initialized /\ latestBlock # 0 => SetAround(latestBlock))'
<1>0. /\ latestBlock \in Blocks /\ latestBlock' \in Blocks
      /\ \A b \in Blocks : AuthoritySetId[b] \in SetIds
      /\ \A b \in Blocks \ {0} : AuthoritySetId[b - 1] \in SetIds
      /\ \A s \in SetIds : AuthoritySetHash[s] # Zero
  BY SetIdOfBlock, HashAssumption DEF TypeInv, TypeOK
<1> SUFFICES ASSUME initialized', latestBlock' # 0
             PROVE  SetAround(latestBlock)'
  OBVIOUS
<1>1. ASSUME UNCHANGED <<latestBlock, initialized>>
      PROVE  SetAround(latestBlock)'
  <2>1. SetAround(latestBlock)
    BY <1>1
  <2> QED  BY <1>0, <1>1, <2>1, KnownStays DEF SetAround, KnownSet
<1>2. ASSUME NEW h \in Blocks, GenesisStep(h) PROVE SetAround(latestBlock)'
  BY <1>0, <1>2 DEF GenesisStep, SetGenesis, SetAround, KnownSet, TypeInv, TypeOK
<1>3. ASSUME NEW start \in Blocks, NEW end \in Blocks, FillStep(start, end)
      PROVE  SetAround(latestBlock)'
  BY <1>0, <1>3 DEF FillStep, SetAround, KnownSet, TypeInv, TypeOK
<1>4. ASSUME NEW s \in SetIds, NEW b \in Blocks, CommitStep(s, b)
      PROVE  SetAround(latestBlock)'
  BY <1>4 DEF CommitStep, SetAround, KnownSet, JustifyingSet
<1> QED  BY <1>1, <1>2, <1>3, <1>4, StepKinds
            DEF IdleStep, RotateStep, storeVars

LEMMA ContractInvStep ==
    ASSUME ContractInv, [Next]_vars
    PROVE  ContractInv'
<1>1. TypeInv'
  BY TypeInvStep DEF ContractInv
<1> QED  BY <1>1, CanonicalStoreStep, FutureStep, CoverageStep, SetAroundStep
            DEF ContractInv

-----------------------------------------------------------------------------
(* What the reads before an await have established.                        *)

(* The awaits at which functionId, currentBlock and nextExists are live,   *)
(* and those of find_and_request_header_range.                             *)
FunctionRead == PCs \ {"rotate_function", "run_head", "run_latest",
                       "range_function"}
BlockRead == FunctionRead \ {"rotate_block", "range_block"}
NextRead == BlockRead \ {"rotate_next", "range_next"}
InRange == {"range_function", "range_block", "range_next", "range_set",
            "range_target", "range_submit"}
SetChosen == {"range_target", "range_submit"}

ContractRead ==
    /\ op.pc # "rotate_function" => initialized
    /\ op.pc \in FunctionRead => op.functionId \in FunctionIds
    /\ op.pc \in BlockRead =>
          /\ KnownHeader(op.currentBlock)
          /\ op.currentBlock # 0 => SetAround(op.currentBlock)
    /\ op.pc \in NextRead =>
          /\ op.currentBlock # 0
          /\ KnownSet(IF op.nextExists THEN CurrentSet + 1 ELSE CurrentSet)

RotateDecided ==
    op.pc = "rotate_submit" =>
        ~op.nextExists /\ CurrentSet < AuthoritySetId[head - 1]

RangeDecided ==
    /\ op.pc = "run_latest" => op.headBlock <= head
    /\ op.pc \in InRange =>
          /\ op.contractBlock < op.blockToRequest
          /\ op.blockToRequest <= op.contractBlock + DATA_COMMITMENT_MAX
          /\ op.blockToRequest <= head
    /\ op.pc \in SetChosen =>
          /\ op.requestSet = AuthoritySetId[op.currentBlock]
          /\ KnownSet(op.requestSet)
    /\ op.pc = "range_submit" =>
          /\ op.targetBlock <= op.blockToRequest
          /\ op.targetBlock > op.currentBlock =>
                op.requestSet = AuthoritySetId[op.targetBlock - 1]
          /\ op.blockToRequest > op.currentBlock =>
                op.targetBlock > op.currentBlock

OpInv ==
    /\ ContractInv
    /\ op \in Locals
    /\ restarts \in 0 .. MaxRestarts
    /\ ContractRead
    /\ RotateDecided
    /\ RangeDecided

LEMMA OpInvInit == OpInit => OpInv
<1> SUFFICES ASSUME OpInit PROVE OpInv
  OBVIOUS
<1>1. 0 \in Blocks /\ 0 \in SetIds
  BY SetIdOfBlock DEF Blocks, SetIds
<1>2. ContractInv
  BY ContractInvInit DEF OpInit
<1>3. op \in Locals /\ op.pc = "rotate_function"
  BY <1>1 DEF OpInit, LoopStart, Locals, PCs
<1>4. restarts \in 0 .. MaxRestarts
  BY OperatorAssumption DEF OpInit
<1>5. ContractRead /\ RotateDecided /\ RangeDecided
  BY <1>3 DEF ContractRead, RotateDecided, RangeDecided, FunctionRead,
       BlockRead, NextRead, InRange, SetChosen
<1> QED  BY <1>2, <1>3, <1>4, <1>5 DEF OpInv

(* The facts about the chain that every read rests on. *)
LEMMA OpFacts ==
    ASSUME OpInv
    PROVE  /\ head \in Blocks /\ latestBlock \in Blocks
           /\ op.currentBlock \in Blocks
           /\ op.pc \in BlockRead => op.currentBlock <= head
           /\ op.pc \in NextRead =>
                /\ op.currentBlock - 1 \in Blocks
                /\ head - 1 \in Blocks
                /\ CurrentSet \in SetIds /\ CurrentSet + 1 \in SetIds
                /\ CurrentSet \in Nat
<1> USE DEF OpInv
<1>1. head \in Blocks /\ latestBlock \in Blocks /\ op.currentBlock \in Blocks
  BY DEF ContractInv, TypeInv, TypeOK, Locals
<1>2. ASSUME op.pc \in BlockRead PROVE op.currentBlock <= head
  BY <1>1, <1>2 DEF ContractRead, ContractInv, NothingFromTheFuture
<1>3. ASSUME op.pc \in NextRead
      PROVE  /\ op.currentBlock - 1 \in Blocks
             /\ head - 1 \in Blocks
             /\ CurrentSet \in SetIds /\ CurrentSet + 1 \in SetIds
             /\ CurrentSet \in Nat
  <2>1. op.currentBlock # 0 /\ op.currentBlock <= head
    BY <1>2, <1>3 DEF ContractRead, NextRead
  <2>2. op.currentBlock - 1 \in Blocks /\ head - 1 \in Blocks
    BY <1>1, <2>1, SetIdOfBlock
  <2> QED  BY <2>2, SetIdOfBlock DEF CurrentSet
<1> QED  BY <1>1, <1>2, <1>3

(* The start of an iteration, and of run after find_and_request_rotate. *)
LEMMA LoopStartInv ==
    ASSUME \/ op' = LoopStart
           \/ initialized' /\ op' = [LoopStart EXCEPT !.pc = "run_head"]
    PROVE  op' \in Locals /\ ContractRead' /\ RotateDecided' /\ RangeDecided'
<1>1. 0 \in Blocks /\ 0 \in SetIds
  BY SetIdOfBlock DEF Blocks, SetIds
<1>2. LoopStart \in Locals /\ LoopStart.pc = "rotate_function"
  BY <1>1 DEF LoopStart, Locals, PCs
<1>3. /\ [LoopStart EXCEPT !.pc = "run_head"] \in Locals
      /\ [LoopStart EXCEPT !.pc = "run_head"].pc = "run_head"
  BY <1>1 DEF LoopStart, Locals, PCs
<1> QED  BY <1>2, <1>3 DEF ContractRead, RotateDecided, RangeDecided, FunctionRead,
              BlockRead, NextRead, InRange, SetChosen

(* A step of the contract, of Avail or of the platform between two awaits  *)
(* takes nothing away from what was read.                                  *)
LEMMA OthersStep ==
    ASSUME OpInv, [Next]_vars, UNCHANGED <<op, restarts>>
    PROVE  OpInv'
<1> USE DEF OpInv
<1>1. ContractInv' /\ head' \in Blocks
  BY ContractInvStep, OnlyGrows DEF ContractInv
<1>2. /\ head \in Nat /\ head' \in Nat /\ head <= head'
      /\ initialized => initialized'
      /\ \A b \in Blocks : KnownHeader(b) => KnownHeader(b)'
      /\ \A s \in SetIds : KnownSet(s) => KnownSet(s)'
  BY <1>1, OnlyGrows, OpFacts, SetIdOfBlock DEF ContractInv
<1>3. op.currentBlock \in Blocks /\ op.requestSet \in SetIds
  BY DEF Locals
<1>4. op.currentBlock # 0 /\ SetAround(op.currentBlock)
         => SetAround(op.currentBlock)'
  BY <1>2, <1>3, SetIdOfBlock DEF SetAround
<1>5. ContractRead'
  <2>1. op.pc \in NextRead =>
           KnownSet(IF op.nextExists THEN CurrentSet + 1 ELSE CurrentSet)'
    BY <1>2, OpFacts DEF ContractRead, CurrentSet
  <2> QED  BY <1>2, <1>3, <1>4, <2>1 DEF ContractRead
<1>6. RotateDecided'
  <2>1. op.pc = "rotate_submit" => op.pc \in NextRead
    BY DEF NextRead, BlockRead, FunctionRead, PCs
  <2>2. op.pc = "rotate_submit" =>
           /\ head - 1 \in Blocks /\ head' - 1 \in Blocks /\ CurrentSet \in Nat
           /\ AuthoritySetId[head - 1] <= AuthoritySetId[head' - 1]
    BY <1>1, <1>2, <2>1, OpFacts, SetIdOfBlock
  <2> QED  BY <2>2, SetIdOfBlock DEF RotateDecided, CurrentSet
<1>7. RangeDecided'
  <2>1. op.headBlock \in Nat /\ op.blockToRequest \in Nat
    BY SetIdOfBlock DEF Locals
  <2> QED  BY <1>2, <1>3, <2>1 DEF RangeDecided
<1> QED  BY <1>1, <1>5, <1>6, <1>7

-----------------------------------------------------------------------------
(* When the next set is not known, the contract still has the current one. *)
LEMMA NextOrCurrentKnown ==
    ASSUME OpInv, op.pc \in BlockRead, op.currentBlock \in Blocks \ {0}
    PROVE  KnownSet(CurrentSet + 1) \/ KnownSet(CurrentSet)
<1>1. SetAround(op.currentBlock)
  BY DEF OpInv, ContractRead
<1>2. AuthoritySetId[op.currentBlock] \in {CurrentSet, CurrentSet + 1}
  BY SetIdOfBlock DEF CurrentSet
<1> QED  BY <1>1, <1>2 DEF SetAround, CurrentSet

(* The reads of find_and_request_rotate. *)
LEMMA RotateReadsStep ==
    ASSUME OpInv, UNCHANGED <<vars, restarts>>,
           \/ ReadRotateFunctionId \/ ReadRotateBlock \/ ReadRotateNext
           \/ ReadRotateHead
    PROVE  OpInv'
<1> USE DEF OpInv
<1>0. ContractInv' /\ restarts' \in 0 .. MaxRestarts
  BY ContractInvStep
<1>1. UNCHANGED <<initialized, head, blockHeightToHeaderHash,
                  authoritySetIdToHash>>
  BY DEF vars, configVars, storeVars
<1>2. SUFFICES op' \in Locals /\ ContractRead' /\ RotateDecided' /\ RangeDecided'
  BY <1>0
<1> USE DEF ContractRead, RotateDecided, RangeDecided, FunctionRead, BlockRead,
            NextRead, InRange, SetChosen, PCs
<1>3. CASE ReadRotateFunctionId
  <2>1. rotateFunctionId \in FunctionIds
    BY <1>3 DEF ReadRotateFunctionId, ContractInv, TypeInv, Configured
  <2> QED  BY <1>1, <1>3, <2>1 DEF ReadRotateFunctionId, Locals
<1>4. CASE ReadRotateBlock
  <2>1. /\ latestBlock \in Blocks /\ KnownHeader(latestBlock)
        /\ latestBlock # 0 => SetAround(latestBlock)
    BY <1>4 DEF ReadRotateBlock, ContractInv, Coverage, TypeInv, TypeOK
  <2> QED  BY <1>1, <1>4, <2>1
              DEF ReadRotateBlock, Locals, SetAround, KnownHeader, KnownSet
<1>5. CASE ReadRotateNext
  <2>1. /\ op.pc = "rotate_next" /\ op.currentBlock \in Blocks \ {0}
        /\ op' = [op EXCEPT !.pc = "rotate_head",
                            !.nextExists = KnownSet(CurrentSet + 1)]
    BY <1>5 DEF ReadRotateNext, HasBlockBefore, Locals
  <2>2. KnownSet(CurrentSet + 1) \/ KnownSet(CurrentSet)
    BY <2>1, NextOrCurrentKnown
  <2> QED  BY <1>1, <2>1, <2>2
              DEF Locals, SetAround, KnownHeader, KnownSet, CurrentSet
<1>6. CASE ReadRotateHead
  <2>1. CASE RotateNeeded
    <3>1. op.pc = "rotate_head" /\ op' = [op EXCEPT !.pc = "rotate_submit"]
      BY <1>6, <2>1 DEF ReadRotateHead
    <3> QED  BY <1>1, <2>1, <3>1
                DEF Locals, SetAround, KnownHeader, KnownSet, CurrentSet,
                    RotateNeeded
  <2>2. CASE ~RotateNeeded
    <3>1. op' = [LoopStart EXCEPT !.pc = "run_head"] /\ initialized'
      BY <1>1, <1>6, <2>2 DEF ReadRotateHead
    <3> QED  BY <3>1, LoopStartInv
  <2> QED  BY <2>1, <2>2
<1> QED  BY <1>3, <1>4, <1>5, <1>6

(* The two heights that run reads. *)
LEMMA RunReadsStep ==
    ASSUME OpInv, UNCHANGED <<vars, restarts>>, ReadHead \/ ReadLatest
    PROVE  OpInv'
<1> USE DEF OpInv
<1>0. ContractInv' /\ restarts' \in 0 .. MaxRestarts
  BY ContractInvStep
<1>1. UNCHANGED <<initialized, head, blockHeightToHeaderHash,
                  authoritySetIdToHash>>
  BY DEF vars, configVars, storeVars
<1>2. SUFFICES op' \in Locals /\ ContractRead' /\ RotateDecided' /\ RangeDecided'
  BY <1>0
<1>3. head \in Blocks /\ latestBlock \in Blocks
  BY OpFacts
<1>4. CASE ReadHead
  <2>1. /\ op.pc = "run_head"
        /\ op' = [op EXCEPT !.pc = "run_latest", !.headBlock = head]
    BY <1>4 DEF ReadHead
  <2>2. head <= head
    BY <1>3, SetIdOfBlock
  <2> QED  BY <1>1, <1>3, <2>1, <2>2
              DEF Locals, ContractRead, RotateDecided, RangeDecided,
                  FunctionRead, BlockRead, NextRead, InRange, SetChosen, PCs
<1>5. CASE ReadLatest
  <2> DEFINE block == BlockToRequest(op.headBlock, latestBlock)
  <2>1. op.headBlock \in Nat /\ latestBlock \in Nat /\ op.headBlock <= head
    BY <1>3, <1>5, SetIdOfBlock DEF ReadLatest, Locals, RangeDecided
  <2>2. /\ block \in Int
        /\ block <= op.headBlock
        /\ block <= latestBlock + DATA_COMMITMENT_MAX
    <3>1. \E q \in Nat : block = BlockInterval * q
      BY <2>1, BlockToRequestBounds
    <3>2. block \in Int
      BY <3>1, OperatorAssumption
    <3> QED  BY <2>1, <3>2, BlockToRequestBounds
  <2>3. CASE block > latestBlock
    <3>1. op' = [LoopStart EXCEPT !.pc = "range_function",
                                  !.contractBlock = latestBlock,
                                  !.blockToRequest = block]
      BY <1>5, <2>3 DEF ReadLatest
    <3>2. block \in Blocks /\ block <= head
      BY <1>3, <2>1, <2>2, <2>3, SetIdOfBlock DEF Blocks
    <3>3. initialized'
      BY <1>1, <1>5 DEF ReadLatest, ContractRead
    <3>4. 0 \in Blocks /\ 0 \in SetIds
      BY SetIdOfBlock DEF Blocks, SetIds
    <3> HIDE DEF block
    <3> QED  BY <1>1, <1>3, <2>2, <2>3, <3>1, <3>2, <3>3, <3>4
                DEF Locals, LoopStart, ContractRead, RotateDecided,
                    RangeDecided, FunctionRead, BlockRead, NextRead, InRange,
                    SetChosen, PCs
  <2>4. CASE ~(block > latestBlock)
    BY <1>5, <2>4, LoopStartInv DEF ReadLatest
  <2> QED  BY <2>3, <2>4
<1> QED  BY <1>4, <1>5

(* The reads of get_contract_data_for_header_range. *)
LEMMA RangeReadsStep ==
    ASSUME OpInv, UNCHANGED <<vars, restarts>>,
           ReadRangeFunctionId \/ ReadRangeBlock \/ ReadRangeNext
    PROVE  OpInv'
<1> USE DEF OpInv
<1>0. ContractInv' /\ restarts' \in 0 .. MaxRestarts
  BY ContractInvStep
<1>1. UNCHANGED <<initialized, head, blockHeightToHeaderHash,
                  authoritySetIdToHash>>
  BY DEF vars, configVars, storeVars
<1>2. SUFFICES op' \in Locals /\ ContractRead' /\ RotateDecided' /\ RangeDecided'
  BY <1>0
<1> USE DEF ContractRead, RotateDecided, RangeDecided, FunctionRead, BlockRead,
            NextRead, InRange, SetChosen, PCs
<1>3. CASE ReadRangeFunctionId
  <2>1. /\ op.pc = "range_function"
        /\ op' = [op EXCEPT !.pc = "range_block",
                            !.functionId = headerRangeFunctionId]
        /\ headerRangeFunctionId \in FunctionIds
    BY <1>3 DEF ReadRangeFunctionId, ContractInv, TypeInv, Configured
  <2> QED  BY <1>1, <2>1 DEF Locals
<1>4. CASE ReadRangeBlock
  <2>1. /\ latestBlock \in Blocks /\ KnownHeader(latestBlock)
        /\ latestBlock # 0 => SetAround(latestBlock)
    BY <1>4 DEF ReadRangeBlock, ContractInv, Coverage, TypeInv, TypeOK
  <2>2. /\ op.pc = "range_block"
        /\ op' = [op EXCEPT !.pc = "range_next", !.currentBlock = latestBlock]
    BY <1>4 DEF ReadRangeBlock
  <2> QED  BY <1>1, <2>1, <2>2
              DEF Locals, SetAround, KnownHeader, KnownSet
<1>5. CASE ReadRangeNext
  <2>1. /\ op.pc = "range_next" /\ op.currentBlock \in Blocks \ {0}
        /\ op' = [op EXCEPT !.pc = "range_set",
                            !.nextExists = KnownSet(CurrentSet + 1)]
    BY <1>5 DEF ReadRangeNext, HasBlockBefore, Locals
  <2>2. KnownSet(CurrentSet + 1) \/ KnownSet(CurrentSet)
    BY <2>1, NextOrCurrentKnown
  <2> QED  BY <1>1, <2>1, <2>2
              DEF Locals, SetAround, KnownHeader, KnownSet, CurrentSet
<1> QED  BY <1>3, <1>4, <1>5

(* The set chosen is the one that justifies the block after the trusted    *)
(* one, and the contract knows it.                                         *)
LEMMA ChooseRequestSetStep ==
    ASSUME OpInv, UNCHANGED <<vars, restarts>>, ChooseRequestSet
    PROVE  OpInv'
<1> USE DEF OpInv
<1> DEFINE cb == op.currentBlock
           last == last_justified_block(CurrentSet, head)
           set == IF cb = last THEN CurrentSet + 1 ELSE CurrentSet
<1>0. ContractInv' /\ restarts' \in 0 .. MaxRestarts
  BY ContractInvStep
<1>1. UNCHANGED <<initialized, head, blockHeightToHeaderHash,
                  authoritySetIdToHash>>
  BY DEF vars, configVars, storeVars
<1>2. op.pc = "range_set" /\ op.pc \in NextRead /\ op.pc \in BlockRead
  BY DEF ChooseRequestSet, NextRead, BlockRead, FunctionRead, PCs
<1>3. /\ cb \in Blocks \ {0} /\ cb <= head /\ head \in Blocks
      /\ SetAround(cb)
      /\ KnownSet(IF op.nextExists THEN CurrentSet + 1 ELSE CurrentSet)
      /\ CurrentSet \in SetIds /\ CurrentSet + 1 \in SetIds
      /\ AuthoritySetId[cb] \in {CurrentSet, CurrentSet + 1}
  BY <1>2, OpFacts, SetIdOfBlock DEF ContractRead, CurrentSet
<1>4. cb = last <=> AuthoritySetId[cb] = CurrentSet + 1
  <2>1. AuthoritySetId[cb] = CurrentSet + 1 <=> IsEpochEnd(CurrentSet, cb)
    BY <1>3 DEF IsEpochEnd, CurrentSet
  <2>2. IsEpochEnd(CurrentSet, cb) => cb = last
    BY <1>3, LastJustifiedIs
  <2>3. cb = last => IsEpochEnd(CurrentSet, cb)
    BY <1>3, LastJustifiedCases
  <2> QED  BY <2>1, <2>2, <2>3
<1>5. CASE WaitForRotate(cb = last)
  <2>1. op' = LoopStart
    BY <1>5 DEF ChooseRequestSet
  <2> QED  BY <1>0, <2>1, LoopStartInv
<1>6. CASE ~WaitForRotate(cb = last)
  <2>1. op' = [op EXCEPT !.pc = "range_target", !.requestSet = set]
    BY <1>6 DEF ChooseRequestSet
  <2>2. set = AuthoritySetId[cb] /\ set \in SetIds
    BY <1>3, <1>4
  <2>3. KnownSet(set)
    <3>1. CASE cb = last
      BY <1>3, <1>6, <3>1 DEF WaitForRotate
    <3>2. CASE cb # last
      BY <1>3, <1>4, <3>2 DEF SetAround, CurrentSet
    <3> QED  BY <3>1, <3>2
  <2> HIDE DEF set, last
  <2>4. op' \in Locals
    BY <2>1, <2>2 DEF Locals, PCs
  <2>5. ContractRead'
    BY <1>1, <1>2, <1>3, <2>1
       DEF ContractRead, FunctionRead, BlockRead, NextRead, PCs, Locals,
           KnownHeader, KnownSet, SetAround, CurrentSet
  <2>6. RotateDecided' /\ RangeDecided'
    BY <1>1, <1>2, <2>1, <2>2, <2>3
       DEF RotateDecided, RangeDecided, InRange, SetChosen, Locals, KnownSet
  <2> QED  BY <1>0, <2>4, <2>5, <2>6
<1> QED  BY <1>5, <1>6

(* The target lies in the epoch of the chosen set. *)
LEMMA StepToStep ==
    ASSUME OpInv, UNCHANGED <<vars, restarts>>, find_block_to_step_to
    PROVE  OpInv'
<1> USE DEF OpInv
<1> DEFINE cb == op.currentBlock
           last == last_justified_block(op.requestSet, head)
           target == StepToBlock(op.blockToRequest, last)
<1>0. ContractInv' /\ restarts' \in 0 .. MaxRestarts
  BY ContractInvStep
<1>1. UNCHANGED <<initialized, head, blockHeightToHeaderHash,
                  authoritySetIdToHash>>
  BY DEF vars, configVars, storeVars
<1>2. /\ op.pc = "range_target"
      /\ op' = [op EXCEPT !.pc = "range_submit", !.targetBlock = target]
  BY DEF find_block_to_step_to
<1>3. /\ op.pc \in NextRead /\ op.pc \in BlockRead /\ op.pc \in InRange
      /\ op.pc \in SetChosen
  BY <1>2 DEF NextRead, BlockRead, FunctionRead, InRange, SetChosen, PCs
<1>4. /\ cb \in Blocks /\ cb <= head /\ head \in Blocks
      /\ op.blockToRequest \in Blocks /\ op.blockToRequest <= head
      /\ op.requestSet = AuthoritySetId[cb]
  BY <1>3, OpFacts DEF RangeDecided, Locals
<1>5. \/ last \in Blocks /\ last # 0 /\ last <= head
            /\ IsEpochEnd(op.requestSet, last)
      \/ last = 0 /\ \A c \in Blocks : ~(c <= head /\ IsEpochEnd(op.requestSet, c))
  BY <1>4, LastJustifiedCases
<1>6. target \in Blocks /\ target <= op.blockToRequest
  BY <1>4, <1>5, SetIdOfBlock DEF StepToBlock
<1>7. ASSUME target > cb PROVE op.requestSet = AuthoritySetId[target - 1]
  <2>1. /\ target - 1 \in Blocks /\ cb <= target - 1 /\ target - 1 <= head
        /\ AuthoritySetId[cb] <= AuthoritySetId[target - 1]
        /\ AuthoritySetId[cb] \in Nat /\ AuthoritySetId[target - 1] \in Nat
    BY <1>4, <1>6, <1>7, SetIdOfBlock
  <2>2. CASE last # 0
    <3>1. target <= last /\ last - 1 \in Blocks
      BY <1>4, <1>5, <2>2, SetIdOfBlock DEF StepToBlock
    <3>2. AuthoritySetId[target - 1] <= AuthoritySetId[last - 1]
      BY <1>5, <1>6, <2>1, <2>2, <3>1, SetIdOfBlock
    <3>3. AuthoritySetId[last - 1] = AuthoritySetId[cb]
      BY <1>4, <1>5, <2>2 DEF IsEpochEnd
    <3> QED  BY <1>4, <2>1, <3>2, <3>3
  <2>3. CASE last = 0
    <3>1. ~(AuthoritySetId[cb] < AuthoritySetId[target - 1])
      <4>1. SUFFICES ASSUME AuthoritySetId[cb] < AuthoritySetId[target - 1]
                     PROVE  FALSE
        OBVIOUS
      <4>2. PICK c \in Blocks : c <= target - 1 /\ IsEpochEnd(AuthoritySetId[cb], c)
        BY <1>4, <2>1, <4>1, EpochEndsBetween
      <4>3. c <= head
        BY <1>4, <1>6, <2>1, <4>2, SetIdOfBlock
      <4> QED  BY <1>4, <1>5, <2>3, <4>2, <4>3
    <3> QED  BY <1>4, <2>1, <3>1
  <2> QED  BY <2>2, <2>3
<1>8. ASSUME op.blockToRequest > cb PROVE target > cb
  <2>1. CASE last # 0
    <3>1. last > cb
      <4>1. SUFFICES ASSUME last <= cb PROVE FALSE
        BY <1>4, <1>5, SetIdOfBlock
      <4>2. AuthoritySetId[last] <= AuthoritySetId[cb]
        BY <1>4, <1>5, <2>1, <4>1, SetIdOfBlock
      <4>3. AuthoritySetId[last] = AuthoritySetId[cb] + 1
        BY <1>4, <1>5, <2>1 DEF IsEpochEnd
      <4> QED  BY <1>4, <4>2, <4>3, SetIdOfBlock
    <3> QED  BY <1>8, <3>1 DEF StepToBlock
  <2>2. CASE last = 0
    BY <1>8, <2>2 DEF StepToBlock
  <2> QED  BY <2>1, <2>2
<1> HIDE DEF target, last
<1>9. op' \in Locals
  BY <1>2, <1>6 DEF Locals, PCs
<1>10. ContractRead'
  BY <1>1, <1>2, <1>3
     DEF ContractRead, FunctionRead, BlockRead, NextRead, PCs, Locals,
         KnownHeader, KnownSet, SetAround, CurrentSet
<1>11. RotateDecided' /\ RangeDecided'
  BY <1>1, <1>2, <1>3, <1>6, <1>7, <1>8
     DEF RotateDecided, RangeDecided, InRange, SetChosen, Locals, KnownSet
<1> QED  BY <1>0, <1>9, <1>10, <1>11

-----------------------------------------------------------------------------
(* What the operator submits.                                              *)

(* The provable requests, from what the reads have established. *)
LEMMA SubmittedRotate ==
    ASSUME OpInv, op.pc = "rotate_submit"
    PROVE  /\ RotateProvable(EncodedRotate(CurrentSet), head)
           /\ EncodedRotate(CurrentSet) \in RotateInput
           /\ op.functionId \in FunctionIds
<1> USE DEF OpInv
<1>1. op.pc \in NextRead /\ op.pc \in FunctionRead /\ op.pc \in BlockRead
  BY DEF NextRead, BlockRead, FunctionRead, PCs
<1>2. /\ op.functionId \in FunctionIds
      /\ KnownSet(CurrentSet) /\ CurrentSet \in SetIds
      /\ CurrentSet < AuthoritySetId[head - 1]
      /\ op.currentBlock - 1 \in Blocks /\ head - 1 \in Blocks
      /\ op.currentBlock <= head
      /\ op.currentBlock \in Nat /\ head \in Nat
  BY <1>1, OpFacts, SetIdOfBlock DEF ContractRead, RotateDecided
<1>3. authoritySetIdToHash[CurrentSet] = AuthoritySetHash[CurrentSet]
         /\ AuthoritySetHash[CurrentSet] \in Hash
  BY <1>2, HashAssumption DEF ContractInv, CanonicalStore
<1>4. PICK c \in Blocks : c <= head - 1 /\ IsEpochEnd(CurrentSet, c)
  <2>1. op.currentBlock - 1 <= head - 1
    BY <1>2
  <2> QED  BY <1>2, <2>1, EpochEndsBetween DEF CurrentSet
<1>5. c <= head
  BY <1>2, <1>4, SetIdOfBlock
<1> QED  BY <1>2, <1>3, <1>4, <1>5
            DEF RotateProvable, EncodedRotate, RotateInput

LEMMA SubmittedHeaderRange ==
    ASSUME OpInv, op.pc = "range_submit"
    PROVE  /\ HeaderRangeRequest.input \in HeaderRangeInput
           /\ op.functionId \in FunctionIds
           /\ HeaderRangeRequest.input.trustedHeader =
                 HeaderHash[op.currentBlock]
           /\ HeaderRangeRequest.input.authoritySetHash =
                 AuthoritySetHash[op.requestSet]
<1> USE DEF OpInv
<1>1. op.pc \in FunctionRead /\ op.pc \in BlockRead /\ op.pc \in SetChosen
  BY DEF BlockRead, FunctionRead, SetChosen, PCs
<1>2. /\ op.functionId \in FunctionIds
      /\ op.currentBlock \in Blocks /\ KnownHeader(op.currentBlock)
      /\ op.requestSet \in SetIds /\ KnownSet(op.requestSet)
      /\ op.targetBlock \in Blocks
  BY <1>1 DEF ContractRead, RangeDecided, Locals
<1>3. /\ blockHeightToHeaderHash[op.currentBlock] = HeaderHash[op.currentBlock]
      /\ authoritySetIdToHash[op.requestSet] = AuthoritySetHash[op.requestSet]
      /\ HeaderHash[op.currentBlock] \in Hash
      /\ AuthoritySetHash[op.requestSet] \in Hash
  BY <1>2, HashAssumption DEF ContractInv, CanonicalStore
<1> QED  BY <1>2, <1>3 DEF HeaderRangeRequest, HeaderRangeInput

(* A submission adds a well formed request and leaves the store alone. *)
LEMMA SubmitStepInv ==
    ASSUME OpInv, SubmitStep,
           UNCHANGED <<configVars, storeVars, head, historyVars, restarts>>
    PROVE  OpInv'
<1> USE DEF OpInv
<1>1. initialized
  BY DEF SubmitStep, request_rotate, request_header_range, ContractRead
<1>2. /\ headerRangeRequests' \subseteq HeaderRangeCall
      /\ rotateRequests' \subseteq RotateCall
  <2>1. /\ headerRangeRequests \subseteq HeaderRangeCall
        /\ rotateRequests \subseteq RotateCall
    BY DEF ContractInv, TypeInv, TypeOK
  <2>2. CASE request_rotate
    <3>1. [gateway |-> PlatformGateway, functionId |-> op.functionId,
           input |-> EncodedRotate(CurrentSet)] \in RotateCall
      BY <2>2, SubmittedRotate, OperatorAssumption
         DEF request_rotate, RotateCall
    <3> QED  BY <2>1, <2>2, <3>1 DEF request_rotate, submit_platform_request
  <2>3. CASE request_header_range
    <3>1. HeaderRangeRequest \in HeaderRangeCall
      <4>1. HeaderRangeRequest.input \in HeaderRangeInput
               /\ op.functionId \in FunctionIds
        BY <2>3, SubmittedHeaderRange DEF request_header_range
      <4> QED  BY <4>1, OperatorAssumption
                  DEF HeaderRangeRequest, HeaderRangeCall
    <3> QED  BY <2>1, <2>3, <3>1
                DEF request_header_range, submit_platform_request
  <2> QED  BY <2>2, <2>3 DEF SubmitStep
<1>3. TypeInv'
  BY <1>1, <1>2 DEF ContractInv, TypeInv, TypeOK, Configured, configVars,
     storeVars, rangeVars, historyVars
<1>4. ContractInv'
  BY <1>1, <1>3 DEF ContractInv, CanonicalStore, NothingFromTheFuture, Coverage,
     SetAround, KnownHeader, KnownSet, Ranges, configVars, storeVars,
     rangeVars, historyVars
<1>5. \/ op' = LoopStart
      \/ initialized' /\ op' = [LoopStart EXCEPT !.pc = "run_head"]
  BY <1>1 DEF SubmitStep, request_rotate, request_header_range, configVars
<1> QED  BY <1>4, <1>5, LoopStartInv

LEMMA OpInvStep == OpInv /\ [OpNext]_allVars => OpInv'
<1> SUFFICES ASSUME OpInv, [OpNext]_allVars PROVE OpInv'
  OBVIOUS
<1>1. CASE ReadStep /\ UNCHANGED <<vars, restarts>>
  BY <1>1, RotateReadsStep, RunReadsStep, RangeReadsStep,
     ChooseRequestSetStep, StepToStep DEF ReadStep
<1>2. CASE SubmitStep /\ UNCHANGED <<configVars, storeVars, head, historyVars,
                                     restarts>>
  BY <1>2, SubmitStepInv
<1>3. CASE Restart
  <2>1. ContractInv'
    BY <1>3, ContractInvStep DEF Restart, OpInv
  <2>2. restarts' \in 0 .. MaxRestarts
    BY <1>3, OperatorAssumption DEF Restart, OpInv
  <2> QED  BY <1>3, <2>1, <2>2, LoopStartInv DEF Restart, OpInv
<1>4. CASE Next /\ UNCHANGED <<op, restarts>>
  BY <1>4, OthersStep
<1>5. CASE UNCHANGED allVars
  BY <1>5, OthersStep DEF allVars
<1> QED  BY <1>1, <1>2, <1>3, <1>4, <1>5 DEF OpNext, OperatorStep

LEMMA OperatorInvariant == OpSpec => []OpInv
BY OpInvInit, OpInvStep, PTL DEF OpSpec

-----------------------------------------------------------------------------
(* The operator's locals keep their types, and no request that it submits  *)
(* carries a zero header or authority set hash, although                   *)
(* get_header_range_input_data and get_rotate_input_data encode whatever   *)
(* the contract answers.                                                   *)
THEOREM OperatorTypeCorrect == OpSpec => []OpTypeOK
<1>1. OpInv => OpTypeOK
  BY DEF OpInv, ContractInv, TypeInv, OpTypeOK
<1> QED  BY <1>1, OperatorInvariant, PTL

(* A header range that is about to be requested lies in the epoch of the   *)
(* set it is requested with, whatever changed between the reads            *)
(* (find_and_request_header_range, find_block_to_step_to).                 *)
THEOREM OperatorRequestsWithinSet == OpSpec => []RequestWithinSet
<1>1. OpInv => RequestWithinSet
  <2> SUFFICES ASSUME OpInv, op.pc = "range_submit",
                      op.targetBlock > op.currentBlock
               PROVE  /\ op.requestSet = JustifyingSet(op.currentBlock + 1)
                      /\ op.requestSet = JustifyingSet(op.targetBlock)
    BY DEF RequestWithinSet
  <2>1. /\ op.requestSet = AuthoritySetId[op.currentBlock]
        /\ op.requestSet = AuthoritySetId[op.targetBlock - 1]
    BY DEF OpInv, RangeDecided, SetChosen
  <2>2. (op.currentBlock + 1) - 1 = op.currentBlock
    BY SetIdOfBlock DEF OpInv, Locals
  <2> QED  BY <2>1, <2>2 DEF JustifyingSet
<1> QED  BY <1>1, OperatorInvariant, PTL

(* With one latestBlock for both of its reads, the requested range can be  *)
(* proved: right hashes, right set, within the circuit and the finalized   *)
(* chain (find_and_request_header_range, run).                             *)
THEOREM OperatorRequestsProvable == OpSpec => []RequestProvable
<1>1. OpInv => RequestProvable
  <2> SUFFICES ASSUME OpInv, op.pc = "range_submit",
                      op.currentBlock = op.contractBlock,
                      JustificationAvailable(op.targetBlock)
               PROVE  HeaderRangeProvable(HeaderRangeRequest.input, head)
    BY DEF RequestProvable
  <2>1. /\ op.currentBlock < op.blockToRequest
        /\ op.blockToRequest <= op.currentBlock + DATA_COMMITMENT_MAX
        /\ op.blockToRequest <= head
        /\ op.targetBlock <= op.blockToRequest
        /\ op.targetBlock > op.currentBlock
        /\ op.requestSet = JustifyingSet(op.targetBlock)
    BY DEF OpInv, RangeDecided, InRange, SetChosen, Locals, Blocks,
       JustifyingSet
  <2>2. /\ op.currentBlock \in Nat /\ op.targetBlock \in Nat
        /\ op.blockToRequest \in Nat /\ head \in Nat
    BY OpFacts, SetIdOfBlock DEF OpInv, Locals
  <2>3. /\ op.targetBlock <= head
        /\ op.targetBlock <= op.currentBlock + MAX_NUM_HEADERS
    BY <2>1, <2>2, OperatorAssumption, MaxNumHeadersAssumption
  <2>4. /\ HeaderRangeRequest.input.trustedBlock = op.currentBlock
        /\ HeaderRangeRequest.input.targetBlock = op.targetBlock
        /\ HeaderRangeRequest.input.authoritySetId = op.requestSet
    BY DEF HeaderRangeRequest
  <2> QED  BY <2>1, <2>3, <2>4, SubmittedHeaderRange DEF HeaderRangeProvable
<1> QED  BY <1>1, OperatorInvariant, PTL

(* A rotate that is about to be requested is about a set that the contract *)
(* knows and whose epoch has ended, although the contract may have moved   *)
(* on since it was read (find_and_request_rotate).                         *)
THEOREM OperatorRotatesProvable == OpSpec => []RotateRequestProvable
<1>1. OpInv => RotateRequestProvable
  BY SubmittedRotate DEF RotateRequestProvable
<1> QED  BY <1>1, OperatorInvariant, PTL

(* The operator is never idle while Avail is an interval ahead of the      *)
(* contract (vectorx.rs: run), for every interval up to the limit.         *)
THEOREM OperatorNeverIdle == OpSpec => []NeverIdleBehind
<1>1. OpInv => NeverIdleBehind
  <2> SUFFICES ASSUME OpInv, BlockInterval <= DATA_COMMITMENT_MAX,
                      op.headBlock >= latestBlock + BlockInterval
               PROVE  BlockToRequest(op.headBlock, latestBlock) > latestBlock
    BY DEF NeverIdleBehind
  <2>1. op.headBlock \in Nat /\ latestBlock \in Nat
    BY OpFacts, SetIdOfBlock DEF OpInv, Locals
  <2> QED  BY <2>1, BlockToRequestBounds
<1> QED  BY <1>1, OperatorInvariant, PTL
=============================================================================
