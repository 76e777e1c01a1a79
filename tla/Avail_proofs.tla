---------------------------- MODULE Avail_proofs ----------------------------
(***************************************************************************)
(* What is read from the chain: the arithmetic of set ids and epoch ends   *)
(* that the proofs about the operator, the fetcher, the indexer and the    *)
(* circuits share, and what the decoders of its encodings return, for      *)
(* every number and not only for the widths a run tries.                   *)
(***************************************************************************)
EXTENDS Avail, Scale, WellFoundedInduction, TLAPS

(* The least number principle, for a set in place of a predicate. *)
LEMMA LeastNatural ==
    ASSUME NEW S, S \subseteq Nat, S # {}
    PROVE  \E m \in S : \A n \in S : m <= n
<1> DEFINE Less == {p \in Nat \X Nat : p[1] < p[2]}
<1>1. IsWellFoundedOn(Less, Nat)
  BY NatLessThanWellFounded DEF OpToRel
<1> HIDE DEF Less
<1>2. PICK m \in S : \A n \in S : <<n, m>> \notin Less
  BY <1>1, WFMin
<1>3. \A n \in S : ~(n < m)
  BY <1>2 DEF Less
<1> QED  BY <1>2, <1>3

-----------------------------------------------------------------------------
(* The set ids of the chain, as facts about single blocks. *)
LEMMA SetIdOfBlock ==
    /\ MaxBlock \in Nat \ {0}
    /\ \A b \in Blocks : /\ b \in Nat /\ b <= MaxBlock
                         /\ AuthoritySetId[b] \in Nat
                         /\ AuthoritySetId[b] \in SetIds
                         /\ AuthoritySetId[b] + 1 \in SetIds
    /\ \A a, b \in Blocks : a <= b => AuthoritySetId[a] <= AuthoritySetId[b]
    /\ \A b \in Blocks \ {0} :
          b - 1 \in Blocks /\ AuthoritySetId[b] <= AuthoritySetId[b - 1] + 1
    /\ \A s \in SetIds : s \in Nat
<1>1. MaxBlock \in Nat \ {0} /\ MaxBlock \in Blocks
  BY MaxBlockAssumption DEF Blocks
<1>2. \A b \in Blocks : b \in Nat /\ b <= MaxBlock
  BY <1>1 DEF Blocks
<1>3. \A b \in Blocks : /\ AuthoritySetId[b] \in Nat
                        /\ AuthoritySetId[b] <= AuthoritySetId[MaxBlock]
  BY <1>1, <1>2, AuthoritySetIdAssumption
<1>4. \A b \in Blocks \ {0} : b - 1 \in Blocks
  BY <1>1 DEF Blocks
<1> QED  BY <1>1, <1>2, <1>3, <1>4, AuthoritySetIdAssumption DEF SetIds

(* A set has one epoch end block. *)
LEMMA EpochEndUnique ==
    ASSUME NEW id, NEW a \in Blocks, NEW b \in Blocks,
           IsEpochEnd(id, a), IsEpochEnd(id, b)
    PROVE  a = b
<1>1. ASSUME NEW x \in Blocks, NEW y \in Blocks, x < y,
             IsEpochEnd(id, x), IsEpochEnd(id, y)
      PROVE  FALSE
  <2>1. x <= y - 1 /\ y - 1 \in Blocks
    BY <1>1, SetIdOfBlock DEF IsEpochEnd
  <2>2. AuthoritySetId[x] <= AuthoritySetId[y - 1]
    BY <2>1, SetIdOfBlock
  <2>3. AuthoritySetId[y - 1] \in Nat
    BY <2>1, SetIdOfBlock
  <2> QED  BY <1>1, <2>2, <2>3 DEF IsEpochEnd
<1> QED  BY <1>1, SetIdOfBlock

(* The epoch end block of a set that has ended is last_justified_block. *)
LEMMA LastJustifiedIs ==
    ASSUME NEW id, NEW h \in Blocks, NEW b \in Blocks,
           b <= h, IsEpochEnd(id, b)
    PROVE  last_justified_block(id, h) = b
<1>1. \A c \in Blocks : c <= h /\ IsEpochEnd(id, c) => c = b
  BY EpochEndUnique
<1> QED  BY <1>1 DEF last_justified_block

(* last_justified_block is an epoch end at or below the head, or 0. *)
LEMMA LastJustifiedCases ==
    ASSUME NEW id, NEW h \in Blocks
    PROVE  LET b == last_justified_block(id, h)
           IN  \/ b \in Blocks /\ b # 0 /\ b <= h /\ IsEpochEnd(id, b)
               \/ b = 0 /\ \A c \in Blocks : ~(c <= h /\ IsEpochEnd(id, c))
BY DEF last_justified_block, IsEpochEnd

(* Set ids are not skipped: every id from that of one block up to that of  *)
(* a later one has its epoch end in between.                               *)
LEMMA EpochEndOfId ==
    ASSUME NEW a \in Blocks, NEW b \in Blocks, NEW id \in Nat,
           AuthoritySetId[a] <= id, id < AuthoritySetId[b]
    PROVE  \E c \in Blocks : a < c /\ c <= b /\ IsEpochEnd(id, c)
<1> DEFINE S == {c \in Blocks : a <= c /\ id < AuthoritySetId[c]}
<1>1. a <= b
  BY SetIdOfBlock
<1>2. S \subseteq Nat /\ b \in S
  BY <1>1, SetIdOfBlock
<1>3. PICK c \in S : \A d \in S : c <= d
  <2> HIDE DEF S
  <2> QED  BY <1>2, LeastNatural
<1>4. c \in Blocks /\ a < c /\ c <= b /\ c # 0
  BY <1>2, <1>3, SetIdOfBlock
<1>5. c - 1 \in Blocks /\ a <= c - 1 /\ c - 1 \notin S
  BY <1>3, <1>4, SetIdOfBlock
<1>6. AuthoritySetId[c - 1] = id
  BY <1>3, <1>4, <1>5, SetIdOfBlock
<1>7. AuthoritySetId[c] = id + 1
  BY <1>3, <1>4, <1>6, SetIdOfBlock
<1> QED  BY <1>4, <1>6, <1>7 DEF IsEpochEnd

(* In particular the epoch of the earlier block ends in between when the   *)
(* id of the later one is higher.                                          *)
LEMMA EpochEndsBetween ==
    ASSUME NEW a \in Blocks, NEW b \in Blocks, a <= b,
           AuthoritySetId[a] < AuthoritySetId[b]
    PROVE  \E c \in Blocks : a < c /\ c <= b /\ IsEpochEnd(AuthoritySetId[a], c)
BY EpochEndOfId, SetIdOfBlock

-----------------------------------------------------------------------------
(* SCALE encodings.                                                        *)


(* decode_compact_int returns the encoded block number, whatever the bytes *)
(* behind a short encoding are, and its assertion holds; the circuit's     *)
(* table of lengths and its table of state root positions agree with the   *)
(* encoder's length.  Five bytes hold every number below 2^32.             *)
THEOREM CompactRoundTrip ==
    ASSUME NEW n \in Nat, NEW b,
           \A i \in 0 .. CompactLength(n) - 1 : b[i] = CompactByte(n, i)
    PROVE  /\ CompressMode(b) = CompactMode(n)
           /\ CompactValue(b, CompressMode(b)) = n
           /\ ValidEncodedLength(b)
           /\ EncodedLength(CompressMode(b)) = CompactLength(n)
           /\ StateRootStart(CompressMode(b)) = HASH_SIZE + CompactLength(n)
<1>1. CASE n < 64
  <2>1. CompactMode(n) = 0 /\ CompactLength(n) = 1
    BY <1>1, SMT DEF CompactMode, CompactLength
  <2>2. b[0] = n * 4
    BY <1>1, <2>1, SMT DEF CompactByte
  <2>3. b[0] % 4 = 0 /\ b[0] \div 4 = n
    BY <2>2, SMT
  <2> QED  BY <2>1, <2>3, SMT DEF CompressMode, CompactValue, ValidEncodedLength,
              EncodedLength, StateRootStart, HASH_SIZE
<1>2. CASE n >= 64 /\ n < 16384
  <2>1. CompactMode(n) = 1 /\ CompactLength(n) = 2
    BY <1>2, SMT DEF CompactMode, CompactLength
  <2>2. b[0] = (n % 64) * 4 + 1 /\ b[1] = (n \div 64) % 256
    BY <2>1, SMT DEF CompactByte
  <2>3. b[0] % 4 = 1 /\ b[0] \div 4 = n % 64 /\ b[1] = n \div 64
    BY <1>2, <2>2, SMT
  <2>4. b[0] \div 4 + b[1] * 64 = n
    BY <2>3, SMT
  <2> QED  BY <2>1, <2>3, <2>4, SMT DEF CompressMode, CompactValue,
              ValidEncodedLength, EncodedLength, StateRootStart, HASH_SIZE
<1>3. CASE n >= 16384 /\ n < 1073741824
  <2>1. CompactMode(n) = 2 /\ CompactLength(n) = 4
    BY <1>3, SMT DEF CompactMode, CompactLength
  <2>2. /\ b[0] = (n % 64) * 4 + 2 /\ b[1] = (n \div 64) % 256
        /\ b[2] = (n \div 16384) % 256 /\ b[3] = n \div 4194304
    BY <2>1, SMT DEF CompactByte
  <2>3. b[0] % 4 = 2 /\ b[0] \div 4 = n % 64
    BY <2>2, SMT
  <2>4. (n % 64) + ((n \div 64) % 256) * 64 + ((n \div 16384) % 256) * 16384
            + (n \div 4194304) * 4194304 = n
    BY SMT
  <2>5. b[0] \div 4 + b[1] * 64 + b[2] * 16384 + b[3] * 4194304 = n
    BY <2>2, <2>3, <2>4, SMT
  <2> QED  BY <2>1, <2>3, <2>5, SMT DEF CompressMode, CompactValue,
              ValidEncodedLength, EncodedLength, StateRootStart, HASH_SIZE
<1>4. CASE n >= 1073741824
  <2>1. CompactMode(n) = 3 /\ CompactLength(n) = 5
    BY <1>4, SMT DEF CompactMode, CompactLength
  <2>2. /\ b[0] = 3 /\ b[1] = n % 256 /\ b[2] = (n \div 256) % 256
        /\ b[3] = (n \div 65536) % 256 /\ b[4] = n \div 16777216
    BY <2>1, SMT DEF CompactByte
  <2>3. (n % 256) + ((n \div 256) % 256) * 256 + ((n \div 65536) % 256) * 65536
            + (n \div 16777216) * 16777216 = n
    BY SMT
  <2>4. b[0] % 4 = 3 /\ b[0] \div 4 = 0
    BY <2>2, SMT
  <2> QED  BY <2>1, <2>2, <2>3, <2>4, SMT DEF CompressMode, CompactValue,
              ValidEncodedLength, EncodedLength, StateRootStart, HASH_SIZE
<1> QED  BY <1>1, <1>2, <1>3, <1>4, SMT

(* get_authorities guesses the width of the authority count from the       *)
(* length of the stored value; for every set it was written for the guess  *)
(* is right, the assertion on the rest holds and it reads all authorities. *)
THEOREM AuthoritiesOffsetRight ==
    ASSUME NEW n \in Nat, n < 16384
    PROVE  LET len == StoredAuthoritiesLength(n)
           IN  /\ AuthoritiesOffset(len) = 1 + CompactLength(n)
               /\ AuthoritiesAligned(len)
               /\ AuthoritiesRead(len) = n
<1> DEFINE len == StoredAuthoritiesLength(n)
<1>1. VALIDATOR_LENGTH = 40 /\ n \in Nat /\ n <= 16383
  BY SMT DEF VALIDATOR_LENGTH, PUBKEY_LENGTH, WEIGHT_LENGTH
<1>2. CompactLength(n) = IF n < 64 THEN 1 ELSE 2
  BY <1>1, SMT DEF CompactLength
<1>3. len = 1 + CompactLength(n) + n * 40
  BY <1>1, SMT DEF StoredAuthoritiesLength
<1>4. AuthoritiesOffset(len) = 1 + CompactLength(n)
  BY <1>1, <1>2, <1>3, SMT DEF AuthoritiesOffset
<1>5. len - AuthoritiesOffset(len) = n * 40
  BY <1>1, <1>2, <1>3, <1>4, SMT
<1>6. (n * 40) % 40 = 0 /\ (n * 40) \div 40 = n
  BY <1>1, SMT
<1> QED  BY <1>1, <1>4, <1>5, <1>6, SMT DEF AuthoritiesAligned, AuthoritiesRead
=============================================================================
