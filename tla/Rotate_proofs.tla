---------------------------- MODULE Rotate_proofs ----------------------------
(***************************************************************************)
(* The hint of the rotate circuit and the decoder of headers, for every    *)
(* chain, every digest and every height, not only those a run tries.       *)
(***************************************************************************)
EXTENDS Rotate, Justification_proofs

RotateInv == head \in Blocks /\ firstHeight \in Nat

LEMMA RotateStart == RotateInit => RotateInv
BY HeaderSizeAssumption DEF RotateInit, RotateInv

LEMMA RotateStep == RotateInv /\ [RotateNext]_rotateVars => RotateInv'
<1> SUFFICES ASSUME RotateInv, [RotateNext]_rotateVars PROVE RotateInv'
  OBVIOUS
<1>1. CASE Finalize
  BY <1>1, MaxBlockAssumption DEF Finalize, RotateInv, Blocks
<1>2. CASE RotateHint
  BY <1>2 DEF RotateHint, RotateInv
<1>3. CASE OtherWitness
  BY <1>3 DEF OtherWitness, RotateInv
<1>4. CASE Prove
  BY <1>4 DEF Prove, RotateInv
<1>5. CASE UNCHANGED rotateVars
  BY <1>5 DEF rotateVars, RotateInv
<1> QED  BY <1>1, <1>2, <1>3, <1>4, <1>5 DEF RotateNext

-----------------------------------------------------------------------------
(* Lengths.                                                                *)

LEMMA Sizes ==
    /\ HASH_SIZE = 32 /\ PUBKEY_LENGTH = 32 /\ VALIDATOR_LENGTH = 40
    /\ DELAY_LENGTH = 4 /\ DATA_ROOT_OFFSET_FROM_END = 32
BY DEF HASH_SIZE, PUBKEY_LENGTH, VALIDATOR_LENGTH, WEIGHT_LENGTH, DELAY_LENGTH,
       DATA_ROOT_OFFSET_FROM_END

LEMMA CompactLengthIs ==
    ASSUME NEW n \in Nat
    PROVE  CompactLength(n) \in 1 .. 5
BY DEF CompactLength

(* What a log takes: its value has a tag, a list and a tail at least a byte long. *)
LEMMA LogLengths ==
    ASSUME NEW b \in Blocks, NEW i \in 1 .. Len(Digest[b])
    PROVE  LET log == Digest[b][i]
           IN  /\ Len(log.keys) \in Nat
               /\ log.tailLength \in Nat /\ log.tailLength > 0
               /\ ValueLength(log) \in Nat
               /\ ValueLength(log) =
                     1 + log.tailLength
                       + IF log.listed THEN CompactLength(Len(log.keys))
                                              + Len(log.keys) * 40
                         ELSE 0
               /\ LogLength(log) \in Nat
               /\ LogLength(log) = 5 + CompactLength(ValueLength(log))
                                     + ValueLength(log)
<1> DEFINE log == Digest[b][i]
           n == Len(log.keys)
           v == ValueLength(log)
<1>1. n \in Nat /\ log.tailLength \in Nat /\ log.tailLength > 0
  BY LogsAssumption
<1>2. CompactLength(n) \in 1 .. 5
  BY <1>1, CompactLengthIs
<1>3. v = 1 + log.tailLength + IF log.listed THEN CompactLength(n) + n * 40 ELSE 0
  BY Sizes DEF ValueLength
<1>4. v \in Nat
  <2> HIDE DEF v, n
  <2> DEFINE l == n * 40
             c == CompactLength(n)
  <2>1. l \in Nat /\ c \in Nat
    BY <1>1, <1>2
  <2>2. CASE log.listed
    <3>1. v = 1 + log.tailLength + (c + l)
      BY <1>3, <2>2
    <3> HIDE DEF l, c
    <3> QED  BY <1>1, <2>1, <3>1
  <2>3. CASE ~log.listed
    <3>1. v = 1 + log.tailLength + 0
      BY <1>3, <2>3
    <3> QED  BY <1>1, <3>1
  <2> QED  BY <2>2, <2>3
<1>5. CompactLength(v) \in 1 .. 5
  BY <1>4, CompactLengthIs
<1>6. LogLength(log) = 1 + 4 + CompactLength(v) + v
  BY DEF LogLength
<1>7. LogLength(log) \in Nat /\ LogLength(log) = 5 + CompactLength(v) + v
  BY <1>4, <1>5, <1>6
<1> QED  BY <1>1, <1>3, <1>4, <1>7

-----------------------------------------------------------------------------
(* Where the logs of a digest lie.                                         *)

IsSum(f, b) ==
    f = [j \in 0 .. Len(Digest[b]) |->
            IF j = 0 THEN 0 ELSE f[j - 1] + LogLength(Digest[b][j])]

IsSumUpTo(f, b, n) ==
    f = [j \in 0 .. n |-> IF j = 0 THEN 0 ELSE f[j - 1] + LogLength(Digest[b][j])]

LEMMA SumExists ==
    ASSUME NEW b, NEW n \in Nat
    PROVE  \E f : IsSumUpTo(f, b, n)
<1> DEFINE S == {m \in Nat : ~\E f : IsSumUpTo(f, b, m)}
<1>1. SUFFICES ASSUME S # {} PROVE FALSE
  OBVIOUS
<1>2. PICK m \in S : \A k \in S : m <= k
  <2>1. S \subseteq Nat
    OBVIOUS
  <2> HIDE DEF S
  <2> QED  BY <1>1, <2>1, LeastNatural
<1>3. CASE m = 0
  <2> DEFINE g == [k \in 0 .. 0 |-> 0]
  <2>1. IsSumUpTo(g, b, 0)
    BY DEF IsSumUpTo
  <2> QED  BY <1>2, <1>3, <2>1
<1>4. CASE m # 0
  <2>1. m - 1 \in Nat /\ m - 1 \notin S
    BY <1>2, <1>4
  <2>2. PICK f : IsSumUpTo(f, b, m - 1)
    BY <2>1
  <2> DEFINE last == f[m - 1] + LogLength(Digest[b][m])
             g == [k \in 0 .. m |-> IF k = m THEN last ELSE f[k]]
  <2> HIDE DEF last
  <2>3. \A k \in 0 .. m : g[k] = IF k = m THEN last ELSE f[k]
    OBVIOUS
  <2>4. \A k \in 0 .. m - 1 :
           f[k] = IF k = 0 THEN 0 ELSE f[k - 1] + LogLength(Digest[b][k])
    BY <2>2 DEF IsSumUpTo
  <2>5. \A k \in 1 .. m : k - 1 \in 0 .. m - 1 /\ g[k - 1] = f[k - 1]
    BY <1>4, <2>1
  <2>6. \A k \in 0 .. m :
           g[k] = IF k = 0 THEN 0 ELSE g[k - 1] + LogLength(Digest[b][k])
    <3> SUFFICES ASSUME NEW k \in 0 .. m
                 PROVE  g[k] = IF k = 0 THEN 0
                               ELSE g[k - 1] + LogLength(Digest[b][k])
      OBVIOUS
    <3> HIDE DEF g
    <3>1. CASE k = m
      BY <1>4, <2>1, <2>3, <2>5, <3>1 DEF last
    <3>2. CASE k # m
      <4>1. k \in 0 .. m - 1 /\ g[k] = f[k]
        BY <2>1, <2>3, <3>2
      <4>2. k # 0 => g[k - 1] = f[k - 1]
        BY <2>1, <2>5, <4>1
      <4> QED  BY <2>4, <4>1, <4>2
    <3> QED  BY <3>1, <3>2
  <2>7. IsSumUpTo(g, b, m)
    BY <2>6 DEF IsSumUpTo
  <2> QED  BY <1>2, <2>7
<1> QED  BY <1>3, <1>4

(* The logs lie one behind the other. *)
LEMMA LogsLengthStep ==
    ASSUME NEW b \in Blocks
    PROVE  /\ LogsLength(b, 0) = 0
           /\ \A i \in 1 .. Len(Digest[b]) :
                 LogsLength(b, i) = LogsLength(b, i - 1) + LogLength(Digest[b][i])
<1> DEFINE sum == CHOOSE f : IsSum(f, b)
<1>1. Len(Digest[b]) \in Nat
  BY LogsAssumption
<1>2. \E f : IsSum(f, b)
  BY <1>1, SumExists DEF IsSum, IsSumUpTo
<1>3. IsSum(sum, b)
  <2> HIDE DEF sum
  <2> QED  BY <1>2 DEF sum
<1>4. \A i : LogsLength(b, i) = sum[i]
  BY DEF LogsLength, IsSum
<1> HIDE DEF sum
<1>5. \A j \in 0 .. Len(Digest[b]) :
         sum[j] = IF j = 0 THEN 0 ELSE sum[j - 1] + LogLength(Digest[b][j])
  BY <1>3 DEF IsSum
<1> QED  BY <1>1, <1>4, <1>5

(* An earlier log ends before a later one begins. *)
LEMMA LogsInOrder ==
    ASSUME NEW b \in Blocks, NEW j \in 0 .. Len(Digest[b])
    PROVE  /\ LogsLength(b, j) \in Nat
           /\ \A i \in 0 .. j : /\ LogsLength(b, i) \in Nat
                                /\ LogsLength(b, i) <= LogsLength(b, j)
<1> DEFINE Ordered(m) ==
             /\ LogsLength(b, m) \in Nat
             /\ \A i \in 0 .. m : /\ LogsLength(b, i) \in Nat
                                  /\ LogsLength(b, i) <= LogsLength(b, m)
           S == {m \in 0 .. Len(Digest[b]) : ~Ordered(m)}
<1>1. SUFFICES ASSUME S # {} PROVE FALSE
  OBVIOUS
<1>2. Len(Digest[b]) \in Nat
  BY LogsAssumption
<1>3. PICK m \in S : \A k \in S : m <= k
  <2>1. S \subseteq Nat
    BY <1>2
  <2> HIDE DEF S
  <2> QED  BY <1>1, <2>1, LeastNatural
<1>4. m \in 0 .. Len(Digest[b]) /\ ~Ordered(m)
  OBVIOUS
<1>5. CASE m = 0
  <2>1. LogsLength(b, 0) = 0
    BY LogsLengthStep
  <2>2. \A i \in 0 .. 0 : i = 0
    OBVIOUS
  <2> QED  BY <1>4, <1>5, <2>1, <2>2
<1>6. CASE m # 0
  <2> DEFINE p == m - 1
  <2>1. m \in 1 .. Len(Digest[b]) /\ p \in 0 .. Len(Digest[b]) /\ p < m
        /\ m \in Nat /\ p \in Nat
    BY <1>2, <1>4, <1>6
  <2>2. LogsLength(b, m) = LogsLength(b, p) + LogLength(Digest[b][m])
    BY <2>1, LogsLengthStep
  <2>3. p \notin S
    BY <1>3, <2>1
  <2>4. LogLength(Digest[b][m]) \in Nat
    BY <2>1, LogLengths
  <2>5. Ordered(p)
    BY <2>1, <2>3
  <2>6. LogsLength(b, m) \in Nat /\ LogsLength(b, p) <= LogsLength(b, m)
    BY <2>2, <2>4, <2>5
  <2>7. \A i \in 0 .. m : i = m \/ i \in 0 .. p
    BY <2>1
  <2> HIDE DEF p
  <2>8. Ordered(m)
    BY <2>5, <2>6, <2>7
  <2> QED  BY <1>4, <2>8
<1> QED  BY <1>5, <1>6

LEMMA HeaderSizes ==
    ASSUME NEW b \in Blocks, firstHeight \in Nat
    PROVE  /\ number(b) \in Nat /\ CompactLength(number(b)) \in 1 .. 5
           /\ DigestStart(b) \in Nat
           /\ DigestStart(b) = 96 + CompactLength(number(b))
           /\ LogsLength(b, Len(Digest[b])) \in Nat
           /\ header_size(b) \in Nat /\ header_size(b) <= MAX_HEADER_SIZE
           /\ header_size(b) = DigestStart(b) + 1 + LogsLength(b, Len(Digest[b]))
                                 + ExtensionLength + 32
           /\ ExtensionLength \in Nat /\ MAX_HEADER_SIZE \in Nat
<1> DEFINE sum == LogsLength(b, Len(Digest[b]))
           c == CompactLength(number(b))
<1>1. number(b) \in Nat
  BY SetIdOfBlock DEF number
<1>2. c \in 1 .. 5
  BY <1>1, CompactLengthIs
<1>3. Len(Digest[b]) \in 0 .. Len(Digest[b])
  BY LogsAssumption
<1>4. sum \in Nat
  BY <1>3, LogsInOrder
<1>5. DigestStart(b) = 32 + c + 2 * 32
  BY Sizes DEF DigestStart
<1>6. header_size(b) = DigestStart(b) + 1 + sum + ExtensionLength + 32
  BY Sizes DEF header_size
<1>7. /\ ExtensionLength \in Nat /\ MAX_HEADER_SIZE \in Nat
      /\ 3 * 32 + 5 + 1 + sum + ExtensionLength + 32 <= MAX_HEADER_SIZE
  BY HeaderSizeAssumption, Sizes
<1> DEFINE ds == DigestStart(b)
           size == header_size(b)
<1> HIDE DEF sum, c, ds, size
<1>8. ds \in Nat /\ ds = 96 + c /\ ds <= 101
  BY <1>2, <1>5 DEF ds
<1>9. size = ds + 1 + sum + ExtensionLength + 32
  BY <1>6 DEF ds, size
<1>10. size \in Nat /\ size <= MAX_HEADER_SIZE
  BY <1>4, <1>7, <1>8, <1>9
<1> QED  BY <1>1, <1>2, <1>4, <1>7, <1>8, <1>9, <1>10, Zenon DEF sum, c, ds, size

-----------------------------------------------------------------------------
(* The hint.                                                               *)

(* The log at which the hint stops is the announcement of the next set. *)
LEMMA AnnouncementIs ==
    ASSUME NEW b \in Blocks, IsEpochEnd(JustifyingSet(b), b)
    PROVE  LET i == FirstGrandpaLog(b)
           IN  /\ i \in 1 .. Len(Digest[b])
               /\ IsGrandpaLog(Digest[b][i])
               /\ Digest[b][i] = ScheduledChange(get_authorities(b))
<1> DEFINE grandpa == {j \in 1 .. Len(Digest[b]) : IsGrandpaLog(Digest[b][j])}
           First(i) == /\ IsGrandpaLog(Digest[b][i])
                       /\ \A j \in 1 .. i - 1 : ~IsGrandpaLog(Digest[b][j])
<1>1. b # 0
  BY DEF IsEpochEnd
<1>2. PICK i \in grandpa : /\ Digest[b][i] = ScheduledChange(get_authorities(b))
                            /\ \A j \in grandpa : i <= j
  BY <1>1, DigestAssumption DEF IsGrandpaLog
<1>3. Len(Digest[b]) \in Nat
  BY LogsAssumption
<1>4. i \in 1 .. Len(Digest[b]) /\ First(i)
  <2>1. \A j \in 1 .. i - 1 : j \in 1 .. Len(Digest[b]) /\ ~(i <= j)
    BY <1>2, <1>3
  <2> QED  BY <1>2, <2>1
<1>5. \A k \in 1 .. Len(Digest[b]) : First(k) => k = i
  <2> SUFFICES ASSUME NEW k \in 1 .. Len(Digest[b]), First(k), k # i
               PROVE  FALSE
    OBVIOUS
  <2>1. i <= k
    BY <1>2
  <2>2. i \in 1 .. k - 1
    BY <1>3, <1>4, <2>1
  <2> QED  BY <1>4, <2>2
<1>6. FirstGrandpaLog(b) = CHOOSE k \in 1 .. Len(Digest[b]) : First(k)
  BY DEF FirstGrandpaLog
<1>7. FirstGrandpaLog(b) = i
  <2> HIDE DEF First
  <2> QED  BY <1>4, <1>5, <1>6
<1> QED  BY <1>2, <1>4, <1>7

(* The number of authorities is read right for every set of the circuit. *)
LEMMA StoredCountRead ==
    ASSUME NEW n \in Nat, n <= MAX_AUTHORITY_SET_SIZE
    PROVE  /\ AuthoritiesAligned(StoredAuthoritiesLength(n))
           /\ AuthoritiesRead(StoredAuthoritiesLength(n)) = n
<1>1. MAX_AUTHORITY_SET_SIZE \in Nat
  BY AuthoritiesAssumption
<1>2. n <= 409
  BY <1>1, SetSizeAssumption
<1>3. n < 16384
  BY <1>2
<1> QED  BY <1>3, AuthoritiesOffsetRight

(* Every assertion of the hint holds at an epoch end. *)
LEMMA HintAsserts ==
    ASSUME NEW b \in Blocks, IsEpochEnd(JustifyingSet(b), b), firstHeight \in Nat
    PROVE  HeaderRotateAsserts(b)
<1> DEFINE keys == get_authorities(b)
           i == FirstGrandpaLog(b)
<1>1. b # 0 /\ AuthoritySetId[b] - 1 = AuthoritySetId[b - 1]
  BY SetIdOfBlock DEF IsEpochEnd, JustifyingSet
<1>2. header_size(b) <= MAX_HEADER_SIZE
  BY HeaderSizes
<1>3. Len(keys) \in Nat /\ Len(keys) <= MAX_AUTHORITY_SET_SIZE
  BY SetIdOfBlock, KeysOfSet DEF get_authorities
<1>4. /\ AuthoritiesAligned(StoredAuthoritiesLength(Len(keys)))
      /\ AuthoritiesRead(StoredAuthoritiesLength(Len(keys))) = Len(keys)
  BY <1>3, StoredCountRead
<1>5. /\ i \in 1 .. Len(Digest[b]) /\ IsGrandpaLog(Digest[b][i])
      /\ Digest[b][i].tag = 1 /\ Digest[b][i].keys = keys
      /\ Digest[b][i].tail = ZeroDelay
  <2>1. /\ i \in 1 .. Len(Digest[b]) /\ IsGrandpaLog(Digest[b][i])
        /\ Digest[b][i] = ScheduledChange(keys)
    BY AnnouncementIs
  <2> HIDE DEF keys, i
  <2> QED  BY <2>1 DEF ScheduledChange, ListLog
<1> QED  BY <1>1, <1>2, <1>4, <1>5 DEF HeaderRotateAsserts

(* get_header_rotate, with its assertions about the width of the stored    *)
(* count, the logs before the announcement and the size of the header,     *)
(* panics only while the requested set is still the current one.           *)
THEOREM HintSucceedsOncePossible == RotateSpec => HintPanicsOnlyIfCurrent
<1> DEFINE A == status' = "panicked" /\ status # "panicked" =>
                    ~RotateProvable(PublicInput, head)
<1>1. RotateInv /\ [RotateNext]_rotateVars => [A]_rotateVars
  <2> SUFFICES ASSUME RotateInv, RotateNext, status' = "panicked",
                      status # "panicked", RotateProvable(PublicInput, head)
               PROVE  FALSE
    BY DEF rotateVars
  <2>1. RotateHint
    BY DEF RotateNext, Finalize, OtherWitness, Prove
  <2> DEFINE b == last_justified_block(authority_set_id, head)
  <2>2. ~HeaderRotateAsserts(b)
    BY <2>1 DEF RotateHint
  <2>3. PICK c \in Blocks : c <= head /\ IsEpochEnd(authority_set_id, c)
    BY DEF RotateProvable, PublicInput
  <2>4. b = c
    BY <2>3, LastJustifiedIs DEF RotateInv
  <2>5. IsEpochEnd(JustifyingSet(c), c)
    BY <2>3 DEF IsEpochEnd, JustifyingSet
  <2>6. HeaderRotateAsserts(c)
    BY <2>5, HintAsserts DEF RotateInv
  <2> QED  BY <2>2, <2>4, <2>6
<1> QED  BY <1>1, RotateStart, RotateStep, PTL DEF RotateSpec, HintPanicsOnlyIfCurrent

-----------------------------------------------------------------------------
(* The fields of a header.                                                 *)

LEMMA FieldIs ==
    ASSUME NEW p, NEW field
    PROVE  DOMAIN Field(p, field) = {p} /\ Field(p, field)[p] = field
BY DEF Field

(* Of two parts the first one wins; no two fields of a header overlap. *)
LEMMA JoinIs ==
    ASSUME NEW f, NEW g
    PROVE  /\ DOMAIN (f ++ g) = DOMAIN f \cup DOMAIN g
           /\ \A p \in DOMAIN f : (f ++ g)[p] = f[p]
           /\ \A p \in DOMAIN g : p \notin DOMAIN f => (f ++ g)[p] = g[p]
BY DEF ++

LEMMA CompactFieldsAre ==
    ASSUME NEW n \in Nat, NEW at \in Nat
    PROVE  /\ DOMAIN CompactFields(n, at) = at .. at + CompactLength(n) - 1
           /\ \A i \in 0 .. CompactLength(n) - 1 :
                 CompactFields(n, at)[at + i] = <<"byte", CompactByte(n, i)>>
<1>1. CompactLength(n) \in 1 .. 5
  BY CompactLengthIs
<1>2. \A i \in 0 .. CompactLength(n) - 1 :
         at + i \in at .. at + CompactLength(n) - 1 /\ (at + i) - at = i
  BY <1>1
<1> QED  BY <1>2 DEF CompactFields

Has(fields, p, field) == p \in DOMAIN fields /\ fields[p] = field

HasList(fields, keys, at) ==
    \A i \in 1 .. Len(keys) :
        /\ Has(fields, at + (i - 1) * 40, <<"key", keys[i]>>)
        /\ Has(fields, at + (i - 1) * 40 + 32, <<"weight", 1>>)

(* Behind the list of n authorities at a position lie n times 40 bytes. *)
LEMMA AuthorityFieldsAre ==
    ASSUME NEW keys, Len(keys) \in Nat, NEW at \in Nat
    PROVE  /\ \A p \in DOMAIN AuthorityFields(keys, at) :
                 /\ p \in Nat /\ at <= p /\ p < at + Len(keys) * 40
                 /\ AuthorityFields(keys, at)[p][1] # "engine"
           /\ HasList(AuthorityFields(keys, at), keys, at)
<1> DEFINE n == Len(keys)
           K == {at + (i - 1) * 40 : i \in 1 .. n}
           W == {at + (i - 1) * 40 + 32 : i \in 1 .. n}
           f == [p \in K |-> <<"key", keys[(p - at) \div 40 + 1]>>]
           g == [p \in W |-> <<"weight", 1>>]
<1>1. AuthorityFields(keys, at) = f ++ g
  BY Sizes DEF AuthorityFields
<1>2. DOMAIN f = K /\ DOMAIN g = W
  OBVIOUS
<1>3. \A i \in 1 .. n : /\ f[at + (i - 1) * 40] = <<"key", keys[i]>>
                         /\ g[at + (i - 1) * 40 + 32] = <<"weight", 1>>
  <2> SUFFICES ASSUME NEW i \in 1 .. n
               PROVE  /\ f[at + (i - 1) * 40] = <<"key", keys[i]>>
                      /\ g[at + (i - 1) * 40 + 32] = <<"weight", 1>>
    OBVIOUS
  <2> DEFINE p == at + (i - 1) * 40
  <2>1. i \in Nat
    OBVIOUS
  <2>2. (p - at) \div 40 + 1 = i
    BY <2>1
  <2>3. p \in K /\ p + 32 \in W
    OBVIOUS
  <2> HIDE DEF p, K, W
  <2>4. f[p] = <<"key", keys[i]>> /\ g[p + 32] = <<"weight", 1>>
    BY <2>2, <2>3
  <2> QED  BY <2>4 DEF p
<1>4. \A i \in 1 .. n : at + (i - 1) * 40 \in K /\ at + (i - 1) * 40 + 32 \in W
  OBVIOUS
<1>5. \A p \in W : p \notin K
  <2> SUFFICES ASSUME NEW i \in 1 .. n, NEW j \in 1 .. n,
                      at + (i - 1) * 40 + 32 = at + (j - 1) * 40
               PROVE  FALSE
    OBVIOUS
  <2>1. i \in Int /\ j \in Int
    OBVIOUS
  <2> QED  BY <2>1
<1>6. \A p \in K \cup W : p \in Nat /\ at <= p /\ p < at + n * 40
  <2>1. \A i \in 1 .. n : /\ i \in Nat /\ i >= 1
                           /\ at + (i - 1) * 40 \in Nat
                           /\ at <= at + (i - 1) * 40
                           /\ at + (i - 1) * 40 + 32 < at + n * 40
    OBVIOUS
  <2> QED  BY <2>1
<1> DEFINE F == AuthorityFields(keys, at)
<1> HIDE DEF f, g, K, W, n, F
<1>7. /\ DOMAIN F = K \cup W
      /\ \A p \in K : F[p] = f[p]
      /\ \A p \in W : F[p] = g[p]
  <2>1. F = f ++ g
    BY <1>1 DEF F
  <2>2. /\ DOMAIN (f ++ g) = DOMAIN f \cup DOMAIN g
        /\ \A p \in DOMAIN f : (f ++ g)[p] = f[p]
        /\ \A p \in DOMAIN g : p \notin DOMAIN f => (f ++ g)[p] = g[p]
    BY JoinIs, Zenon
  <2> QED  BY <1>2, <1>5, <2>1, <2>2, Zenon
<1>8. \A i \in 1 .. n : /\ at + (i - 1) * 40 \in DOMAIN F
                         /\ F[at + (i - 1) * 40] = <<"key", keys[i]>>
                         /\ at + (i - 1) * 40 + 32 \in DOMAIN F
                         /\ F[at + (i - 1) * 40 + 32] = <<"weight", 1>>
  <2> SUFFICES ASSUME NEW i \in 1 .. n
               PROVE  /\ at + (i - 1) * 40 \in DOMAIN F
                      /\ F[at + (i - 1) * 40] = <<"key", keys[i]>>
                      /\ at + (i - 1) * 40 + 32 \in DOMAIN F
                      /\ F[at + (i - 1) * 40 + 32] = <<"weight", 1>>
    OBVIOUS
  <2> DEFINE p == at + (i - 1) * 40
             q == at + (i - 1) * 40 + 32
  <2>1. p \in K /\ q \in W
    BY <1>4
  <2>2. f[p] = <<"key", keys[i]>> /\ g[q] = <<"weight", 1>>
    BY <1>3
  <2> HIDE DEF p, q
  <2>3. /\ p \in DOMAIN F /\ F[p] = <<"key", keys[i]>>
        /\ q \in DOMAIN F /\ F[q] = <<"weight", 1>>
    BY <1>7, <2>1, <2>2
  <2> QED  BY <2>3 DEF p, q
<1>9. \A p \in DOMAIN F : p \in Nat /\ at <= p /\ p < at + n * 40
  BY <1>6, <1>7
<1>10. \A p \in DOMAIN F : F[p][1] # "engine"
  <2>1. (\A p \in K : f[p][1] = "key") /\ (\A p \in W : g[p][1] = "weight")
    BY DEF f, g
  <2> QED  BY <1>7, <2>1
<1>11. HasList(F, keys, at)
  BY <1>8 DEF HasList, Has, n
<1> QED  BY <1>9, <1>10, <1>11 DEF n, F

Joins(j, f, g) ==
    /\ DOMAIN j = DOMAIN f \cup DOMAIN g
    /\ \A p \in DOMAIN f : j[p] = f[p]
    /\ \A p \in DOMAIN g : j[p] = g[p]

LEMMA Joined ==
    ASSUME NEW f, NEW g, DOMAIN g \cap DOMAIN f = {}
    PROVE  Joins(f ++ g, f, g)
<1> DEFINE j == f ++ g
<1>1. /\ DOMAIN j = DOMAIN f \cup DOMAIN g
      /\ \A p \in DOMAIN f : j[p] = f[p]
      /\ \A p \in DOMAIN g : p \notin DOMAIN f => j[p] = g[p]
  BY JoinIs, Zenon
<1> HIDE DEF j
<1>2. \A p \in DOMAIN g : p \notin DOMAIN f
  OBVIOUS
<1>3. Joins(j, f, g)
  BY <1>1, <1>2, Zenon DEF Joins
<1> QED  BY <1>3, Zenon DEF j

(* The parts of a log, and the first parts of a header. *)
Disjoint(a, b, c, d, e, f) ==
    /\ DOMAIN b \cap DOMAIN a = {}
    /\ DOMAIN c \cap (DOMAIN a \cup DOMAIN b) = {}
    /\ DOMAIN d \cap (DOMAIN a \cup DOMAIN b \cup DOMAIN c) = {}
    /\ DOMAIN e \cap (DOMAIN a \cup DOMAIN b \cup DOMAIN c \cup DOMAIN d) = {}
    /\ DOMAIN f \cap (DOMAIN a \cup DOMAIN b \cup DOMAIN c \cup DOMAIN d
                          \cup DOMAIN e) = {}

JoinsAll(j, a, b, c, d, e, f) ==
    /\ DOMAIN j = DOMAIN a \cup DOMAIN b \cup DOMAIN c \cup DOMAIN d
                    \cup DOMAIN e \cup DOMAIN f
    /\ \A p \in DOMAIN a : j[p] = a[p]
    /\ \A p \in DOMAIN b : j[p] = b[p]
    /\ \A p \in DOMAIN c : j[p] = c[p]
    /\ \A p \in DOMAIN d : j[p] = d[p]
    /\ \A p \in DOMAIN e : j[p] = e[p]
    /\ \A p \in DOMAIN f : j[p] = f[p]

LEMMA SixParts ==
    ASSUME NEW a, NEW b, NEW c, NEW d, NEW e, NEW f, Disjoint(a, b, c, d, e, f)
    PROVE  JoinsAll(a ++ b ++ c ++ d ++ e ++ f, a, b, c, d, e, f)
<1> DEFINE j2 == a ++ b
           j3 == j2 ++ c
           j4 == j3 ++ d
           j5 == j4 ++ e
           j6 == j5 ++ f
<1>1. Joins(j2, a, b)
  BY Joined, Zenon DEF Disjoint
<1> HIDE DEF j2
<1>2. Joins(j3, j2, c)
  <2>1. DOMAIN c \cap DOMAIN j2 = {}
    BY <1>1 DEF Joins, Disjoint
  <2> QED  BY <2>1, Joined, Zenon
<1> HIDE DEF j3
<1>3. Joins(j4, j3, d)
  <2>1. DOMAIN d \cap DOMAIN j3 = {}
    BY <1>1, <1>2 DEF Joins, Disjoint
  <2> QED  BY <2>1, Joined, Zenon
<1> HIDE DEF j4
<1>4. Joins(j5, j4, e)
  <2>1. DOMAIN e \cap DOMAIN j4 = {}
    BY <1>1, <1>2, <1>3 DEF Joins, Disjoint
  <2> QED  BY <2>1, Joined, Zenon
<1> HIDE DEF j5
<1>5. Joins(j6, j5, f)
  <2>1. DOMAIN f \cap DOMAIN j5 = {}
    BY <1>1, <1>2, <1>3, <1>4 DEF Joins, Disjoint
  <2> QED  BY <2>1, Joined, Zenon
<1>6. a ++ b ++ c ++ d ++ e ++ f = j6
  BY Zenon DEF j2, j3, j4, j5
<1> HIDE DEF j6
<1>7. JoinsAll(j6, a, b, c, d, e, f)
  BY <1>1, <1>2, <1>3, <1>4, <1>5 DEF Joins, JoinsAll
<1> QED  BY <1>6, <1>7, Zenon

(* The fields of a log that is encoded at a position. *)
HasLog(fields, log, at) ==
    LET n == Len(log.keys)
        v == ValueLength(log)
        value == at + 5 + CompactLength(v)
        list == value + 1 + CompactLength(n)
    IN  /\ Has(fields, at, <<"byte", log.flag>>)
        /\ Has(fields, at + 1, <<"engine", log.engine>>)
        /\ \A k \in 0 .. CompactLength(v) - 1 :
              Has(fields, at + 5 + k, <<"byte", CompactByte(v, k)>>)
        /\ Has(fields, value, <<"byte", log.tag>>)
        /\ Has(fields, value + v - log.tailLength, log.tail)
        /\ log.listed =>
              /\ \A k \in 0 .. CompactLength(n) - 1 :
                    Has(fields, value + 1 + k, <<"byte", CompactByte(n, k)>>)
              /\ HasList(fields, log.keys, list)

LEMMA HasLogIn ==
    ASSUME NEW f, NEW g, NEW log, NEW at, HasLog(f, log, at),
           \A p \in DOMAIN f : p \in DOMAIN g /\ g[p] = f[p]
    PROVE  HasLog(g, log, at)
<1>1. \A p, field : Has(f, p, field) => Has(g, p, field)
  BY DEF Has
<1> QED  BY <1>1, Zenon DEF HasLog, HasList

(* Where the fields of an encoded log are; they do not overlap, and only   *)
(* one of them is an engine id.                                            *)
LEMMA LogFieldsAre ==
    ASSUME NEW b \in Blocks, NEW i \in 1 .. Len(Digest[b]), NEW at \in Nat
    PROVE  LET fields == LogFields(Digest[b][i], at)
           IN  /\ \A p \in DOMAIN fields :
                     /\ p \in Nat /\ at <= p /\ p < at + LogLength(Digest[b][i])
                     /\ fields[p][1] = "engine" => p = at + 1
               /\ HasLog(fields, Digest[b][i], at)
<1> DEFINE log == Digest[b][i]
           n == Len(log.keys)
           v == ValueLength(log)
           cv == CompactLength(v)
           cn == CompactLength(n)
           t == log.tailLength
           value == at + 5 + cv
           list == value + 1 + cn
           fields == LogFields(log, at)
           fa == Field(at, <<"byte", log.flag>>)
           fb == Field(at + 1, <<"engine", log.engine>>)
           fc == CompactFields(v, at + 5)
           fd == Field(value, <<"byte", log.tag>>)
           fe == Field(value + v - t, log.tail)
           g == CompactFields(n, value + 1)
           h == AuthorityFields(log.keys, list)
           ff == IF log.listed THEN g ++ h ELSE <<>>
<1>1. fields = fa ++ fb ++ fc ++ fd ++ fe ++ ff
  BY DEF LogFields
<1>2. /\ n \in Nat /\ v \in Nat /\ t \in Nat /\ t > 0
      /\ v = 1 + t + IF log.listed THEN cn + n * 40 ELSE 0
      /\ LogLength(log) = 5 + cv + v
  BY LogLengths
<1>3. cv \in 1 .. 5 /\ cn \in 1 .. 5
  BY <1>2, CompactLengthIs
<1> HIDE DEF n, v, cv, cn, t
<1>4. value \in Nat /\ list \in Nat /\ value + v - t \in Nat /\ at + 5 \in Nat
      /\ value + 1 \in Nat
  <2>1. n * 40 \in Nat
    BY <1>2
  <2> QED  BY <1>2, <1>3, <2>1
<1>5. /\ DOMAIN g = value + 1 .. list - 1
      /\ \A k \in 0 .. cn - 1 : g[value + 1 + k] = <<"byte", CompactByte(n, k)>>
  <2>1. value + 1 + CompactLength(n) - 1 = list - 1
    BY <1>3, <1>4 DEF cn
  <2> HIDE DEF value, list
  <2> QED  BY <1>2, <1>4, <2>1, CompactFieldsAre DEF cn
<1>6. /\ \A p \in DOMAIN h : /\ p \in Nat /\ list <= p /\ p < list + n * 40
                           /\ h[p][1] # "engine"
      /\ HasList(h, log.keys, list)
  <2> DEFINE keys == log.keys
  <2>1. Len(keys) \in Nat /\ n = Len(keys)
    BY <1>2 DEF n
  <2>2. list \in Nat
    BY <1>4
  <2> HIDE DEF list, keys
  <2>3. /\ \A p \in DOMAIN AuthorityFields(keys, list) :
              /\ p \in Nat /\ list <= p /\ p < list + Len(keys) * 40
              /\ AuthorityFields(keys, list)[p][1] # "engine"
        /\ HasList(AuthorityFields(keys, list), keys, list)
    BY <2>1, <2>2, AuthorityFieldsAre
  <2> QED  BY <2>1, <2>3, Zenon DEF keys
<1> DEFINE stop == value + v - t
<1>7. /\ \A p \in DOMAIN ff : p \in Nat /\ value < p /\ p < stop
      /\ log.listed => Joins(ff, g, h)
  <2>1. CASE log.listed
    <3>1. DOMAIN h \cap DOMAIN g = {}
      <4> HIDE DEF g, h, list, value
      <4> QED  BY <1>4, <1>5, <1>6
    <3>2. Joins(g ++ h, g, h)
      <4> HIDE DEF g, h
      <4> QED  BY <3>1, Joined
    <3>3. ff = g ++ h
      BY <2>1
    <3> HIDE DEF g, h, ff
    <3>4. Joins(ff, g, h)
      BY <3>2, <3>3
    <3>5. stop = list + n * 40 /\ value < list
      BY <1>2, <1>3, <1>4, <2>1
    <3>6. \A p \in DOMAIN g : p \in Nat /\ value < p /\ p < stop
      <4>1. n * 40 \in Nat
        BY <1>2
      <4> HIDE DEF value, list, stop
      <4> QED  BY <1>4, <1>5, <3>5, <4>1
    <3>7. \A p \in DOMAIN h : p \in Nat /\ value < p /\ p < stop
      <4> HIDE DEF value, list, stop
      <4> QED  BY <1>4, <1>6, <3>5
    <3> QED  BY <3>4, <3>6, <3>7 DEF Joins
  <2>2. CASE ~log.listed
    <3>1. ff = <<>>
      BY <2>2
    <3>2. DOMAIN ff = {}
      BY <3>1
    <3> QED  BY <2>2, <3>2
  <2> QED  BY <2>1, <2>2
<1>8. /\ DOMAIN fa = {at} /\ fa[at] = <<"byte", log.flag>>
      /\ DOMAIN fb = {at + 1} /\ fb[at + 1] = <<"engine", log.engine>>
      /\ DOMAIN fd = {value} /\ fd[value] = <<"byte", log.tag>>
      /\ DOMAIN fe = {stop} /\ fe[stop] = log.tail
  BY FieldIs, Zenon
<1>9. /\ DOMAIN fc = at + 5 .. value - 1
      /\ \A k \in 0 .. cv - 1 : fc[at + 5 + k] = <<"byte", CompactByte(v, k)>>
  <2> DEFINE start == at + 5
  <2>1. start \in Nat /\ start + CompactLength(v) - 1 = value - 1
    BY <1>3 DEF cv
  <2> HIDE DEF start, value
  <2>2. /\ DOMAIN CompactFields(v, start) = start .. value - 1
        /\ \A k \in 0 .. cv - 1 :
              CompactFields(v, start)[start + k] = <<"byte", CompactByte(v, k)>>
    <3>1. /\ DOMAIN CompactFields(v, start) = start .. start + CompactLength(v) - 1
          /\ \A k \in 0 .. CompactLength(v) - 1 :
                CompactFields(v, start)[start + k] = <<"byte", CompactByte(v, k)>>
      BY <1>2, <2>1, CompactFieldsAre, Zenon
    <3> QED  BY <2>1, <3>1, Zenon DEF cv
  <2> QED  BY <2>2, Zenon DEF start
<1>10. value < stop /\ at + 5 <= value /\ stop \in Nat
  <2>1. CASE log.listed
    <3> DEFINE l == n * 40
    <3>1. l \in Nat /\ v = 1 + t + (cn + l)
      BY <1>2, <2>1
    <3>2. cn \in Nat /\ cn > 0
      BY <1>3
    <3> HIDE DEF l
    <3>3. v - t = 1 + cn + l
      BY <1>2, <3>1, <3>2
    <3>4. stop = value + (1 + cn + l)
      <4> HIDE DEF value
      <4> QED  BY <1>2, <1>4, <3>1, <3>2, <3>3
    <3>5. value \in Nat /\ at + 5 <= value
      BY <1>3
    <3> HIDE DEF value, stop
    <3> QED  BY <3>1, <3>2, <3>4, <3>5
  <2>2. CASE ~log.listed
    BY <1>2, <1>3, <1>4, <2>2
  <2> QED  BY <2>1, <2>2
<1>11. at + LogLength(log) = stop + t
  BY <1>2, <1>3, <1>4
<1> HIDE DEF fa, fb, fc, fd, fe, ff, value, list, stop
<1>12. Disjoint(fa, fb, fc, fd, fe, ff)
  BY <1>4, <1>7, <1>8, <1>9, <1>10 DEF Disjoint
<1>13. JoinsAll(fields, fa, fb, fc, fd, fe, ff)
  BY <1>1, <1>12, SixParts, Zenon
<1> HIDE DEF fields
<1>14. \A p \in DOMAIN fields : p \in Nat /\ at <= p /\ p < stop + t
  <2>1. /\ t \in Nat /\ t > 0 /\ value \in Nat /\ stop \in Nat
        /\ at + 5 <= value /\ value < stop
    BY <1>2, <1>4, <1>10
  <2>2. at \in Nat /\ at < stop + t /\ at + 1 \in Nat /\ at + 1 < stop + t
    BY <2>1
  <2>3. \A p \in at + 5 .. value - 1 : p \in Nat /\ at <= p /\ p < stop + t
    BY <2>1
  <2>4. at <= value /\ at <= stop /\ value < stop + t /\ stop < stop + t
    BY <2>1
  <2>5. \A p \in DOMAIN ff : p \in Nat /\ at <= p /\ p < stop + t
    BY <1>7, <2>1
  <2>6. DOMAIN fields = {at, at + 1} \cup (at + 5 .. value - 1) \cup {value, stop}
                          \cup DOMAIN ff
    BY <1>8, <1>9, <1>13 DEF JoinsAll
  <2>7. at <= at + 1 /\ at <= at
    OBVIOUS
  <2> QED  BY <2>1, <2>2, <2>3, <2>4, <2>5, <2>6, <2>7
<1>15. /\ Has(fields, at, <<"byte", log.flag>>) /\ Has(fields, at + 1, <<"engine", log.engine>>)
       /\ Has(fields, value, <<"byte", log.tag>>) /\ Has(fields, stop, log.tail)
  BY <1>8, <1>13 DEF JoinsAll, Has
<1>16. \A k \in 0 .. cv - 1 : Has(fields, at + 5 + k, <<"byte", CompactByte(v, k)>>)
  <2>1. \A k \in 0 .. cv - 1 : at + 5 + k \in at + 5 .. value - 1
    BY <1>3 DEF value
  <2> QED  BY <1>9, <1>13, <2>1 DEF JoinsAll, Has
<1>17. ASSUME log.listed
       PROVE  /\ \A k \in 0 .. cn - 1 :
                    Has(fields, value + 1 + k, <<"byte", CompactByte(n, k)>>)
              /\ HasList(fields, log.keys, list)
  <2>1. \A p \in DOMAIN g : p \in DOMAIN fields /\ fields[p] = g[p]
    BY <1>7, <1>13, <1>17 DEF Joins, JoinsAll
  <2>2. \A p \in DOMAIN h : p \in DOMAIN fields /\ fields[p] = h[p]
    BY <1>7, <1>13, <1>17 DEF Joins, JoinsAll
  <2>3. \A k \in 0 .. cn - 1 : value + 1 + k \in value + 1 .. list - 1
    BY <1>3, <1>4 DEF list
  <2> HIDE DEF g, h
  <2>4. \A k \in 0 .. cn - 1 :
           Has(fields, value + 1 + k, <<"byte", CompactByte(n, k)>>)
    BY <1>5, <2>1, <2>3 DEF Has
  <2>5. HasList(fields, log.keys, list)
    BY <1>6, <2>2 DEF HasList, Has
  <2> QED  BY <2>4, <2>5
<1>18. HasLog(fields, log, at)
  BY <1>15, <1>16, <1>17, Zenon DEF HasLog, n, v, cv, cn, t, value, list, stop
<1>19. \A p \in DOMAIN fields : fields[p][1] = "engine" => p = at + 1
  <2>1. \A p \in DOMAIN ff : ff[p][1] # "engine"
    <3>1. \A p \in DOMAIN g : g[p][1] # "engine"
      BY DEF CompactFields
    <3>2. \A p \in DOMAIN h : h[p][1] # "engine"
      BY <1>6
    <3> HIDE DEF g, h
    <3>3. CASE log.listed
      BY <1>7, <3>1, <3>2, <3>3 DEF Joins
    <3>4. CASE ~log.listed
      <4>1. DOMAIN ff = {}
        BY <3>4 DEF ff
      <4> QED  BY <4>1
    <3> QED  BY <3>3, <3>4
  <2>2. \A p \in DOMAIN fc : fc[p][1] # "engine"
    BY DEF fc, CompactFields
  <2>3. log.tail[1] # "engine"
    BY LogsAssumption
  <2>4. /\ fa[at][1] = "byte" /\ fd[value][1] = "byte" /\ fe[stop][1] # "engine"
    BY <1>8, <2>3
  <2>5. /\ \A p \in DOMAIN fa \cup DOMAIN fc \cup DOMAIN fd \cup DOMAIN fe \cup DOMAIN ff :
              fields[p][1] # "engine"
    BY <1>8, <1>13, <2>1, <2>2, <2>4 DEF JoinsAll
  <2> QED  BY <1>8, <1>13, <2>5 DEF JoinsAll
<1> QED  BY <1>11, <1>14, <1>18, <1>19, Zenon DEF fields

(* Each log begins behind the one before. *)
LEMMA LogsPlaced ==
    ASSUME NEW b \in Blocks, firstHeight \in Nat, NEW i \in 1 .. Len(Digest[b])
    PROVE  LET stop == LogStart(b, i) + LogLength(Digest[b][i])
           IN  /\ LogStart(b, i) \in Nat
               /\ DigestStart(b) + 1 <= LogStart(b, i)
               /\ stop <= DigestStart(b) + 1 + LogsLength(b, Len(Digest[b]))
               /\ \A j \in 1 .. Len(Digest[b]) : i < j => stop <= LogStart(b, j)
<1> DEFINE n == Len(Digest[b])
           L(j) == LogsLength(b, j)
           stop == LogStart(b, i) + LogLength(Digest[b][i])
<1>1. n \in Nat
  BY LogsAssumption
<1>2. i \in 0 .. n /\ i - 1 \in 0 .. n /\ n \in 0 .. n
  BY <1>1
<1>3. L(i) = L(i - 1) + LogLength(Digest[b][i])
  BY LogsLengthStep
<1>4. L(i - 1) \in Nat /\ L(i) \in Nat /\ L(i) <= L(n) /\ L(n) \in Nat
  BY <1>2, LogsInOrder
<1>5. LogLength(Digest[b][i]) \in Nat
  BY LogLengths
<1>6. DigestStart(b) \in Nat
  BY HeaderSizes
<1>7. \A j \in 1 .. n : LogStart(b, j) = DigestStart(b) + 1 + L(j - 1)
  BY DEF LogStart
<1>8. stop = DigestStart(b) + 1 + L(i)
  <2> DEFINE before == L(i - 1)
             length == LogLength(Digest[b][i])
             first == DigestStart(b)
  <2>1. stop = (first + 1 + before) + length /\ L(i) = before + length
    BY <1>3, <1>7
  <2>2. before \in Nat /\ length \in Nat /\ first \in Nat
    BY <1>4, <1>5, <1>6
  <2> HIDE DEF L, before, length, first, stop
  <2>3. stop = first + 1 + L(i)
    BY <2>1, <2>2
  <2> QED  BY <2>3 DEF first
<1>9. \A j \in 1 .. n : i < j => L(j - 1) \in Nat /\ L(i) <= L(j - 1)
  <2> SUFFICES ASSUME NEW j \in 1 .. n, i < j
               PROVE  L(j - 1) \in Nat /\ L(i) <= L(j - 1)
    OBVIOUS
  <2> DEFINE k == j - 1
  <2>1. k \in 0 .. n /\ i \in 0 .. k
    BY <1>1
  <2> HIDE DEF k
  <2>2. L(k) \in Nat /\ L(i) <= L(k)
    BY <2>1, LogsInOrder
  <2> QED  BY <2>2 DEF k
<1> HIDE DEF L, n, stop
<1>10. /\ LogStart(b, i) \in Nat /\ DigestStart(b) + 1 <= LogStart(b, i)
       /\ stop <= DigestStart(b) + 1 + L(n)
       /\ \A j \in 1 .. n : i < j => stop <= LogStart(b, j)
  <2> DEFINE first == DigestStart(b) + 1
  <2>1. first \in Nat /\ stop = first + L(i)
    BY <1>6, <1>8
  <2>2. \A j \in 1 .. n : LogStart(b, j) = first + L(j - 1)
    BY <1>7
  <2>3. i \in 1 .. n
    BY DEF n
  <2> HIDE DEF first
  <2>4. LogStart(b, i) \in Nat /\ first <= LogStart(b, i)
    BY <1>4, <2>1, <2>2, <2>3
  <2>5. stop <= first + L(n)
    BY <1>4, <2>1
  <2>6. ASSUME NEW j \in 1 .. n, i < j
        PROVE  stop <= LogStart(b, j)
    <3>1. LogStart(b, j) = first + L(j - 1) /\ L(j - 1) \in Nat /\ L(i) <= L(j - 1)
      BY <1>9, <2>2, <2>6
    <3> QED  BY <1>4, <2>1, <3>1
  <2> QED  BY <2>4, <2>5, <2>6 DEF first
<1> QED  BY <1>10, Zenon DEF L, n, stop

(* The digest has the fields of its logs and no others. *)
LEMMA DigestFieldsAre ==
    ASSUME NEW b \in Blocks, firstHeight \in Nat
    PROVE  /\ \A p \in DOMAIN DigestFields(b) :
                 /\ p \in Nat /\ DigestStart(b) < p
                 /\ p < DigestStart(b) + 1 + LogsLength(b, Len(Digest[b]))
                 /\ \E i \in 1 .. Len(Digest[b]) :
                       p \in DOMAIN LogFields(Digest[b][i], LogStart(b, i))
           /\ \A i \in 1 .. Len(Digest[b]) :
                 \A p \in DOMAIN LogFields(Digest[b][i], LogStart(b, i)) :
                    /\ p \in DOMAIN DigestFields(b)
                    /\ DigestFields(b)[p] =
                          LogFields(Digest[b][i], LogStart(b, i))[p]
<1> DEFINE n == Len(Digest[b])
           logs == [i \in 1 .. n |-> LogFields(Digest[b][i], LogStart(b, i))]
           D == UNION {DOMAIN logs[i] : i \in DOMAIN logs}
           At(p) == CHOOSE i \in DOMAIN logs : p \in DOMAIN logs[i]
<1>1. DigestFields(b) = [p \in D |-> logs[At(p)][p]]
  BY DEF DigestFields
<1>2. \A i \in 1 .. n : \A p \in DOMAIN logs[i] :
         /\ p \in Nat /\ LogStart(b, i) <= p
         /\ p < LogStart(b, i) + LogLength(Digest[b][i])
  <2> SUFFICES ASSUME NEW i \in 1 .. n
               PROVE  \A p \in DOMAIN LogFields(Digest[b][i], LogStart(b, i)) :
                         /\ p \in Nat /\ LogStart(b, i) <= p
                         /\ p < LogStart(b, i) + LogLength(Digest[b][i])
    OBVIOUS
  <2> DEFINE at == LogStart(b, i)
  <2>1. at \in Nat
    BY LogsPlaced
  <2> HIDE DEF at
  <2>2. \A p \in DOMAIN LogFields(Digest[b][i], at) :
           p \in Nat /\ at <= p /\ p < at + LogLength(Digest[b][i])
    BY <2>1, LogFieldsAre
  <2> QED  BY <2>2 DEF at
<1>3. \A i, j \in 1 .. n : \A p : p \in DOMAIN logs[i] /\ p \in DOMAIN logs[j] => i = j
  <2> HIDE DEF logs
  <2>1. ASSUME NEW i \in 1 .. n, NEW j \in 1 .. n, i < j, NEW p,
               p \in DOMAIN logs[i], p \in DOMAIN logs[j]
        PROVE  FALSE
    <3> DEFINE stop == LogStart(b, i) + LogLength(Digest[b][i])
    <3>1. stop <= LogStart(b, j) /\ LogStart(b, j) \in Nat /\ LogStart(b, i) \in Nat
      BY <2>1, LogsPlaced
    <3>2. LogLength(Digest[b][i]) \in Nat
      BY LogLengths
    <3>3. stop \in Nat
      BY <3>1, <3>2
    <3>4. p \in Nat /\ p < stop /\ LogStart(b, j) <= p
      BY <1>2, <2>1
    <3> HIDE DEF stop
    <3> QED  BY <3>1, <3>3, <3>4
  <2>2. \A i, j \in 1 .. n : i < j \/ j < i \/ i = j
    OBVIOUS
  <2> QED  BY <2>1, <2>2
<1>4. \A i \in 1 .. n : \A p \in DOMAIN logs[i] :
         p \in D /\ At(p) = i
  <2>1. DOMAIN logs = 1 .. n
    OBVIOUS
  <2> HIDE DEF logs
  <2> SUFFICES ASSUME NEW i \in 1 .. n, NEW p \in DOMAIN logs[i]
               PROVE  p \in D /\ At(p) = i
    OBVIOUS
  <2>2. p \in D
    BY <2>1
  <2>3. \E k \in DOMAIN logs : p \in DOMAIN logs[k]
    BY <2>1
  <2>4. At(p) \in DOMAIN logs /\ p \in DOMAIN logs[At(p)]
    BY <2>3
  <2> HIDE DEF At
  <2>5. At(p) = i
    BY <1>3, <2>1, <2>4
  <2> QED  BY <2>2, <2>5
<1>5. \A p \in D : \E i \in 1 .. n : p \in DOMAIN logs[i]
  OBVIOUS
<1>6. \A i \in 1 .. n :
         /\ DigestStart(b) + 1 <= LogStart(b, i) /\ LogStart(b, i) \in Nat
         /\ LogStart(b, i) + LogLength(Digest[b][i]) <=
               DigestStart(b) + 1 + LogsLength(b, n)
         /\ LogLength(Digest[b][i]) \in Nat
  BY LogsPlaced, LogLengths
<1>7. DigestStart(b) \in Nat /\ LogsLength(b, n) \in Nat
  BY HeaderSizes
<1>8. \A p \in D : /\ p \in Nat /\ DigestStart(b) < p
                    /\ p < DigestStart(b) + 1 + LogsLength(b, n)
  <2> SUFFICES ASSUME NEW p \in D
               PROVE  /\ p \in Nat /\ DigestStart(b) < p
                      /\ p < DigestStart(b) + 1 + LogsLength(b, n)
    OBVIOUS
  <2>1. PICK i \in 1 .. n : p \in DOMAIN logs[i]
    BY <1>5
  <2> HIDE DEF D, logs, n
  <2>2. /\ p \in Nat /\ LogStart(b, i) <= p
        /\ p < LogStart(b, i) + LogLength(Digest[b][i])
    BY <1>2, <2>1
  <2> QED  BY <1>6, <1>7, <2>2
<1>9. \A i \in 1 .. n : logs[i] = LogFields(Digest[b][i], LogStart(b, i))
  OBVIOUS
<1> DEFINE F == DigestFields(b)
<1> HIDE DEF logs, D, At
<1>10. DOMAIN F = D /\ \A p \in D : F[p] = logs[At(p)][p]
  BY <1>1
<1> HIDE DEF F
<1>11. \A i \in 1 .. n : \A p \in DOMAIN logs[i] : p \in DOMAIN F /\ F[p] = logs[i][p]
  BY <1>4, <1>10
<1>12. \A p \in DOMAIN F : /\ p \in Nat /\ DigestStart(b) < p
                           /\ p < DigestStart(b) + 1 + LogsLength(b, n)
                           /\ \E i \in 1 .. n : p \in DOMAIN logs[i]
  BY <1>5, <1>8, <1>10
<1> QED  BY <1>9, <1>11, <1>12 DEF F, n

(* Where the fields of a header are; nothing else begins at the data root. *)
LEMMA HeaderFieldsAre ==
    ASSUME NEW b \in Blocks, firstHeight \in Nat
    PROVE  LET fields == HeaderFields(b)
               c == CompactLength(number(b))
           IN  /\ Has(fields, 0, <<"parent", b>>)
               /\ \A k \in 0 .. c - 1 :
                     Has(fields, 32 + k, <<"byte", CompactByte(number(b), k)>>)
               /\ Has(fields, 32 + c, <<"state root", b>>)
               /\ Has(fields, 64 + c, <<"extrinsics root", b>>)
               /\ \A p \in DOMAIN DigestFields(b) : Has(fields, p, DigestFields(b)[p])
               /\ Has(fields, header_size(b) - 32, <<"data root", b>>)
               /\ \A p \in DOMAIN fields :
                     \/ p \in DOMAIN DigestFields(b)
                     \/ p = header_size(b) - 32 /\ fields[p] = <<"data root", b>>
                     \/ p \in 0 .. DigestStart(b)
                        /\ fields[p][1] \in {"parent", "byte", "state root",
                                            "extrinsics root"}
<1> DEFINE fields == HeaderFields(b)
           n == number(b)
           c == CompactLength(n)
           ds == DigestStart(b)
           root == header_size(b) - 32
           sum == LogsLength(b, Len(Digest[b]))
           fa == Field(0, <<"parent", b>>)
           fb == CompactFields(n, 32)
           fc == Field(ds - 64, <<"state root", b>>)
           fd == Field(ds - 32, <<"extrinsics root", b>>)
           fe == CompactFields(Len(Digest[b]), ds)
           ff == DigestFields(b)
           fg == Field(root, <<"data root", b>>)
           six == fa ++ fb ++ fc ++ fd ++ fe ++ ff
<1>1. fields = six ++ fg
  BY Sizes DEF HeaderFields
<1>2. /\ n \in Nat /\ c \in 1 .. 5 /\ ds \in Nat /\ ds = 96 + c
      /\ sum \in Nat /\ root \in Nat /\ ds + 1 + sum <= root
  <2>1. /\ n \in Nat /\ c \in 1 .. 5 /\ ds \in Nat /\ ds = 96 + c /\ sum \in Nat
        /\ header_size(b) = ds + 1 + sum + ExtensionLength + 32
        /\ ExtensionLength \in Nat
    BY HeaderSizes
  <2> HIDE DEF n, c, ds, sum
  <2> QED  BY <2>1
<1>3. /\ DOMAIN fa = {0} /\ fa[0] = <<"parent", b>>
      /\ DOMAIN fc = {ds - 64} /\ fc[ds - 64] = <<"state root", b>>
      /\ DOMAIN fd = {ds - 32} /\ fd[ds - 32] = <<"extrinsics root", b>>
      /\ DOMAIN fg = {root} /\ fg[root] = <<"data root", b>>
  BY FieldIs, Zenon
<1>4. /\ DOMAIN fb = 32 .. 32 + c - 1
      /\ \A k \in 0 .. c - 1 : fb[32 + k] = <<"byte", CompactByte(n, k)>>
      /\ \A p \in DOMAIN fb : fb[p][1] = "byte"
  <2>1. /\ DOMAIN fb = 32 .. 32 + c - 1
        /\ \A k \in 0 .. c - 1 : fb[32 + k] = <<"byte", CompactByte(n, k)>>
    <3> HIDE DEF n
    <3> QED  BY <1>2, CompactFieldsAre
  <2>2. \A p \in DOMAIN fb : fb[p][1] = "byte"
    BY DEF CompactFields
  <2> QED  BY <2>1, <2>2
<1>5. /\ DOMAIN fe = {ds} /\ fe[ds][1] = "byte"
  <2> DEFINE m == Len(Digest[b])
  <2>1. m \in Nat /\ m < 64
    BY LogsAssumption, DigestAssumption
  <2> HIDE DEF m, ds
  <2>2. CompactLength(m) = 1
    BY <2>1 DEF CompactLength
  <2>3. ds .. ds + 1 - 1 = {ds}
    BY <1>2
  <2> QED  BY <2>2, <2>3 DEF CompactFields, m
<1>6. \A p \in DOMAIN ff : p \in Nat /\ ds < p /\ p < ds + 1 + sum
  BY DigestFieldsAre
<1> HIDE DEF fields, n, c, ds, root, sum, fa, fb, fc, fd, fe, ff, fg
<1>7. Disjoint(fa, fb, fc, fd, fe, ff)
  <2>1. /\ ds - 64 = 32 + c /\ ds - 32 = 64 + c /\ ds = 96 + c
        /\ c \in Nat /\ 0 < c /\ 32 + c - 1 < 32 + c
    BY <1>2
  <2>2. \A p \in 32 .. 32 + c - 1 : p \in Nat /\ 0 < p /\ p < 32 + c
    BY <2>1
  <2>3. 0 < 32 + c /\ 32 + c < 64 + c /\ 64 + c < 96 + c
    BY <2>1
  <2>4. \A p \in DOMAIN ff : /\ p \in Nat /\ p # 0 /\ p > 96 + c
                             /\ p > 64 + c /\ p > 32 + c
    BY <1>6, <2>1
  <2>5. /\ DOMAIN fa = {0} /\ DOMAIN fb = 32 .. 32 + c - 1
        /\ DOMAIN fc = {32 + c} /\ DOMAIN fd = {64 + c} /\ DOMAIN fe = {96 + c}
    BY <1>3, <1>4, <1>5, <2>1
  <2>6. \A p \in DOMAIN ff : /\ p # 0 /\ p # 32 + c /\ p # 64 + c /\ p # 96 + c
                             /\ p \notin 32 .. 32 + c - 1
    BY <2>1, <2>2, <2>4
  <2>7. /\ 0 # 32 + c /\ 0 # 64 + c /\ 0 # 96 + c /\ 32 + c # 64 + c
        /\ 32 + c # 96 + c /\ 64 + c # 96 + c
    BY <2>1
  <2>8. \A p \in 32 .. 32 + c - 1 : p # 0 /\ p # 32 + c /\ p # 64 + c /\ p # 96 + c
    BY <2>1, <2>2, <2>3
  <2> QED  BY <2>5, <2>6, <2>7, <2>8 DEF Disjoint
<1>8. JoinsAll(six, fa, fb, fc, fd, fe, ff)
  BY <1>7, SixParts, Zenon
<1> HIDE DEF six
<1>9. \A p \in DOMAIN six : p \in Nat /\ p < root
  <2>1. \A p \in {0, ds - 64, ds - 32, ds} : p \in Nat /\ p < root
    BY <1>2
  <2>2. \A p \in 32 .. 32 + c - 1 : p \in Nat /\ p < root
    BY <1>2
  <2>3. \A p \in DOMAIN ff : p \in Nat /\ p < root
    BY <1>2, <1>6
  <2>4. DOMAIN six = {0, ds - 64, ds - 32, ds} \cup (32 .. 32 + c - 1) \cup DOMAIN ff
    BY <1>3, <1>4, <1>5, <1>8 DEF JoinsAll
  <2> QED  BY <2>1, <2>2, <2>3, <2>4
<1>10. Joins(fields, six, fg)
  <2>1. DOMAIN fg \cap DOMAIN six = {}
    <3>1. root \notin DOMAIN six
      <4>1. ~(root < root)
        BY <1>2
      <4> QED  BY <1>9, <4>1
    <3>2. DOMAIN fg = {root}
      BY <1>3
    <3> QED  BY <3>1, <3>2
  <2> QED  BY <1>1, <2>1, Joined, Zenon
<1>11. Has(fields, 0, <<"parent", b>>) /\ Has(fields, root, <<"data root", b>>)
  BY <1>3, <1>8, <1>10 DEF Joins, JoinsAll, Has
<1>12. Has(fields, ds - 64, <<"state root", b>>) /\ Has(fields, ds - 32, <<"extrinsics root", b>>)
  BY <1>3, <1>8, <1>10 DEF Joins, JoinsAll, Has
<1>13. \A k \in 0 .. c - 1 : Has(fields, 32 + k, <<"byte", CompactByte(n, k)>>)
  <2>1. \A k \in 0 .. c - 1 : 32 + k \in DOMAIN fb
    BY <1>2, <1>4
  <2>2. \A p \in DOMAIN fb : p \in DOMAIN fields /\ fields[p] = fb[p]
    BY <1>8, <1>10 DEF Joins, JoinsAll
  <2> QED  BY <1>4, <2>1, <2>2 DEF Has
<1>14. \A p \in DOMAIN ff : Has(fields, p, ff[p])
  BY <1>8, <1>10 DEF Joins, JoinsAll, Has
<1>15. \A p \in DOMAIN fields :
         \/ p \in DOMAIN ff
         \/ p = root /\ fields[p] = <<"data root", b>>
         \/ p \in 0 .. ds /\ fields[p][1] \in {"parent", "byte", "state root",
                                                "extrinsics root"}
  <2>1. \A p \in {0, ds - 64, ds - 32, ds} : p \in 0 .. ds
    BY <1>2
  <2>2. \A p \in 32 .. 32 + c - 1 : p \in 0 .. ds
    BY <1>2
  <2>3. \A p \in 32 .. 32 + c - 1 : fields[p][1] = "byte"
    BY <1>4, <1>8, <1>10 DEF Joins, JoinsAll
  <2>4. fields[ds][1] = "byte"
    BY <1>5, <1>8, <1>10 DEF Joins, JoinsAll
  <2>5. DOMAIN six = {0} \cup (32 .. 32 + c - 1) \cup {ds - 64} \cup {ds - 32} \cup {ds}
                       \cup DOMAIN ff
    BY <1>3, <1>4, <1>5, <1>8 DEF JoinsAll
  <2>6. DOMAIN fields = DOMAIN six \cup {root}
    BY <1>3, <1>10 DEF Joins
  <2>7. /\ fields[0] = <<"parent", b>> /\ fields[root] = <<"data root", b>>
        /\ fields[ds - 64] = <<"state root", b>>
        /\ fields[ds - 32] = <<"extrinsics root", b>>
    BY <1>11, <1>12 DEF Has
  <2>8. /\ fields[0][1] = "parent" /\ fields[ds - 64][1] = "state root"
        /\ fields[ds - 32][1] = "extrinsics root"
    <3>1. /\ <<"parent", b>>[1] = "parent" /\ <<"state root", b>>[1] = "state root"
          /\ <<"extrinsics root", b>>[1] = "extrinsics root"
      OBVIOUS
    <3> QED  BY <2>7, <3>1, Zenon
  <2> SUFFICES ASSUME NEW p \in DOMAIN fields, p \notin DOMAIN ff, p # root
               PROVE  p \in 0 .. ds /\ fields[p][1] \in {"parent", "byte", "state root",
                                                       "extrinsics root"}
    BY <2>7
  <2>9. CASE p \in 32 .. 32 + c - 1
    BY <2>2, <2>3, <2>9
  <2>10. CASE p \in {0, ds - 64, ds - 32, ds}
    BY <2>1, <2>4, <2>8, <2>10
  <2> QED  BY <2>5, <2>6, <2>9, <2>10
<1>16. ds - 64 = 32 + c /\ ds - 32 = 64 + c
  BY <1>2
<1>17. Has(fields, 32 + c, <<"state root", b>>) /\ Has(fields, 64 + c, <<"extrinsics root", b>>)
  BY <1>12, <1>16
<1> QED  BY <1>11, <1>13, <1>14, <1>15, <1>17, Zenon
         DEF fields, n, c, ds, root, ff

-----------------------------------------------------------------------------
(* decode_header.                                                          *)

(* A compact integer that lies in the fields is read whole, even where     *)
(* other fields follow within the five bytes.                              *)
LEMMA CompactRead ==
    ASSUME NEW n \in Nat, NEW fields, NEW p \in Nat,
           \A k \in 0 .. CompactLength(n) - 1 :
              p + k \in DOMAIN fields /\ fields[p + k] = <<"byte", CompactByte(n, k)>>
    PROVE  LET b == CompactBytesAt(fields, p)
           IN  /\ CompressMode(b) = CompactMode(n)
               /\ CompactValue(b, CompressMode(b)) = n
               /\ ValidEncodedLength(b)
               /\ EncodedLength(CompressMode(b)) = CompactLength(n)
               /\ StateRootStart(CompressMode(b)) = HASH_SIZE + CompactLength(n)
<1> DEFINE b == CompactBytesAt(fields, p)
<1>1. CompactLength(n) \in 1 .. 5
  BY CompactLengthIs
<1>2. \A k \in 0 .. CompactLength(n) - 1 : b[k] = CompactByte(n, k)
  <2> SUFFICES ASSUME NEW k \in 0 .. CompactLength(n) - 1
               PROVE  b[k] = CompactByte(n, k)
    OBVIOUS
  <2> DEFINE f == Read(fields, p + k)
  <2>1. k \in 0 .. 4
    BY <1>1
  <2>2. f = <<"byte", CompactByte(n, k)>>
    BY DEF Read
  <2>3. b[k] = IF f[1] = "byte" THEN f[2] ELSE 0
    BY <2>1 DEF CompactBytesAt
  <2> HIDE DEF f, b
  <2> QED  BY <2>2, <2>3
<1> HIDE DEF b
<1> QED  BY <1>2, CompactRoundTrip DEF b

LEMMA HeaderDecodes ==
    ASSUME NEW b \in Blocks, firstHeight \in Nat
    PROVE  decode_header(HeaderFields(b), header_size(b)) =
              [valid        |-> TRUE,
               block_number |-> number(b),
               parent_hash  |-> <<"parent", b>>,
               state_root   |-> <<"state root", b>>,
               data_root    |-> <<"data root", b>>]
<1> DEFINE fields == HeaderFields(b)
           size == header_size(b)
           n == number(b)
           c == CompactLength(n)
           bytes == CompactBytesAt(fields, 32)
           mode == CompressMode(bytes)
<1>1. n \in Nat /\ c \in 1 .. 5
  BY HeaderSizes
<1>2. size \in Nat /\ size <= MAX_HEADER_SIZE /\ size >= 32 /\ MAX_HEADER_SIZE \in Nat
  <2> DEFINE start == DigestStart(b)
             sum == LogsLength(b, Len(Digest[b]))
  <2>1. /\ size \in Nat /\ size <= MAX_HEADER_SIZE /\ MAX_HEADER_SIZE \in Nat
        /\ start \in Nat /\ sum \in Nat /\ ExtensionLength \in Nat
        /\ size = start + 1 + sum + ExtensionLength + 32
    BY HeaderSizes
  <2> HIDE DEF start, sum, size
  <2> QED  BY <2>1
<1>3. /\ Has(fields, 0, <<"parent", b>>) /\ Has(fields, 32 + c, <<"state root", b>>)
      /\ Has(fields, size - 32, <<"data root", b>>)
      /\ \A k \in 0 .. c - 1 : Has(fields, 32 + k, <<"byte", CompactByte(n, k)>>)
  BY HeaderFieldsAre, Zenon
<1>4. /\ CompactValue(bytes, mode) = n /\ ValidEncodedLength(bytes)
      /\ StateRootStart(mode) = 32 + c
  <2> HIDE DEF fields, n
  <2>1. HASH_SIZE = 32 /\ 32 \in Nat
    BY Sizes
  <2>2. \A k \in 0 .. CompactLength(n) - 1 :
           32 + k \in DOMAIN fields /\ fields[32 + k] = <<"byte", CompactByte(n, k)>>
    BY <1>3 DEF Has
  <2>3. /\ CompactValue(bytes, mode) = n /\ ValidEncodedLength(bytes)
        /\ StateRootStart(mode) = HASH_SIZE + CompactLength(n)
    <3> DEFINE p == 32
    <3>1. p \in Nat /\ \A k \in 0 .. CompactLength(n) - 1 :
             p + k \in DOMAIN fields /\ fields[p + k] = <<"byte", CompactByte(n, k)>>
      BY <2>1, <2>2
    <3> HIDE DEF p
    <3>2. LET r == CompactBytesAt(fields, p)
          IN  /\ CompactValue(r, CompressMode(r)) = n
              /\ ValidEncodedLength(r)
              /\ StateRootStart(CompressMode(r)) = HASH_SIZE + CompactLength(n)
      BY <1>1, <3>1, CompactRead
    <3> QED  BY <3>2, Zenon DEF p
  <2> QED  BY <2>1, <2>3, Zenon
<1>5. DataRootStart(size) = size - 32
  <2> HIDE DEF size
  <2> QED  BY <1>2, Sizes DEF DataRootStart
<1>6. get_fixed_subarray(size - 32, 32)
  <2> HIDE DEF size
  <2> QED  BY <1>2 DEF get_fixed_subarray
<1>7. /\ Read(fields, 0) = <<"parent", b>>
      /\ Read(fields, 32 + c) = <<"state root", b>>
      /\ Read(fields, size - 32) = <<"data root", b>>
  <2> HIDE DEF fields, size, c
  <2> QED  BY <1>3 DEF Read, Has
<1>8. decode_header(fields, size) =
         [valid        |-> ValidEncodedLength(bytes)
                            /\ get_fixed_subarray(DataRootStart(size), 32),
          block_number |-> CompactValue(bytes, mode),
          parent_hash  |-> Read(fields, 0),
          state_root   |-> Read(fields, StateRootStart(mode)),
          data_root    |-> Read(fields, DataRootStart(size))]
  <2> HIDE DEF fields, size
  <2> QED  BY Sizes DEF decode_header
<1>9. (ValidEncodedLength(bytes) /\ get_fixed_subarray(DataRootStart(size), 32)) = TRUE
  BY <1>4, <1>5, <1>6
<1> HIDE DEF fields, size, n, c, bytes, mode
<1>10. decode_header(fields, size) =
         [valid        |-> TRUE,
          block_number |-> n,
          parent_hash  |-> <<"parent", b>>,
          state_root   |-> <<"state root", b>>,
          data_root    |-> <<"data root", b>>]
  BY <1>4, <1>5, <1>7, <1>8, <1>9
<1> QED  BY <1>10 DEF fields, size, n

(* The empty header of a padding slot. *)
LEMMA PaddingDecodes ==
    /\ decode_header(NoFields, 0).valid
    /\ decode_header(NoFields, 0).block_number = 0
<1> DEFINE bytes == CompactBytesAt(NoFields, 32)
<1>1. bytes[0] = 0
  <2>1. \A p : Read(NoFields, p) = <<"inside", p>>
    BY DEF Read, NoFields
  <2>2. \A p : Read(NoFields, p)[1] # "byte"
    BY <2>1
  <2> QED  BY <2>2 DEF CompactBytesAt
<1>2. CompressMode(bytes) = 0 /\ ValidEncodedLength(bytes) /\ CompactValue(bytes, 0) = 0
  <2> HIDE DEF bytes
  <2> QED  BY <1>1 DEF CompressMode, ValidEncodedLength, CompactValue
<1>3. MAX_HEADER_SIZE \in Nat /\ 32 <= MAX_HEADER_SIZE
  <2>1. 0 \in Blocks
    BY MaxBlockAssumption DEF Blocks
  <2> DEFINE sum == LogsLength(0, Len(Digest[0]))
  <2>2. sum \in Nat
    <3>1. Len(Digest[0]) \in 0 .. Len(Digest[0])
      BY <2>1, LogsAssumption
    <3> QED  BY <2>1, <3>1, LogsInOrder
  <2>3. /\ ExtensionLength \in Nat /\ MAX_HEADER_SIZE \in Nat
        /\ 3 * 32 + 5 + 1 + sum + ExtensionLength + 32 <= MAX_HEADER_SIZE
    BY <2>1, HeaderSizeAssumption, Sizes
  <2> HIDE DEF sum
  <2> QED  BY <2>2, <2>3
<1>4. get_fixed_subarray(DataRootStart(0), HASH_SIZE)
  BY <1>3, Sizes DEF get_fixed_subarray, DataRootStart
<1>5. /\ decode_header(NoFields, 0).valid =
            (/\ ValidEncodedLength(CompactBytesAt(NoFields, HASH_SIZE))
             /\ get_fixed_subarray(DataRootStart(0), HASH_SIZE))
      /\ decode_header(NoFields, 0).block_number =
            CompactValue(CompactBytesAt(NoFields, HASH_SIZE),
                         CompressMode(CompactBytesAt(NoFields, HASH_SIZE)))
  BY DEF decode_header
<1>6. CompactBytesAt(NoFields, HASH_SIZE) = bytes
  BY Sizes
<1> HIDE DEF bytes
<1> QED  BY <1>2, <1>4, <1>5, <1>6

(* decode_header reads number and roots out of every header, whatever the  *)
(* width of its number and whatever its digest and extension hold, and     *)
(* accepts the padding of the subchain circuit.                            *)
THEOREM DecodesEveryHeader == RotateSpec => []HeadersDecode
<1>1. RotateInv => HeadersDecode
  BY HeaderDecodes, PaddingDecodes, Zenon DEF RotateInv, HeadersDecode
<1> QED  BY <1>1, RotateStart, RotateStep, PTL DEF RotateSpec

-----------------------------------------------------------------------------
(* The announcement in a header.                                           *)

LEMMA HeaderHasLog ==
    ASSUME NEW b \in Blocks, firstHeight \in Nat, NEW i \in 1 .. Len(Digest[b])
    PROVE  HasLog(HeaderFields(b), Digest[b][i], LogStart(b, i))
<1> DEFINE at == LogStart(b, i)
           log == Digest[b][i]
           f == LogFields(log, at)
           g == HeaderFields(b)
           d == DigestFields(b)
<1>1. at \in Nat
  BY LogsPlaced
<1>2. HasLog(f, log, at)
  <2> HIDE DEF at
  <2> QED  BY <1>1, LogFieldsAre
<1>3. \A p \in DOMAIN f : p \in DOMAIN d /\ d[p] = f[p]
  BY DigestFieldsAre, Zenon
<1>4. \A p \in DOMAIN d : p \in DOMAIN g /\ g[p] = d[p]
  BY HeaderFieldsAre, Zenon DEF Has
<1> HIDE DEF at, log, f, g, d
<1>5. HasLog(g, log, at)
  BY <1>2, <1>3, <1>4, HasLogIn
<1> QED  BY <1>5 DEF at, log, g

(* The only engine ids in a header are those of the logs. *)
LEMMA EngineIds ==
    ASSUME NEW b \in Blocks, firstHeight \in Nat, NEW p \in DOMAIN HeaderFields(b)
    PROVE  /\ p \in Nat
           /\ HeaderFields(b)[p][1] = "engine" =>
                 \E i \in 1 .. Len(Digest[b]) : p = LogStart(b, i) + 1
<1> DEFINE g == HeaderFields(b)
           d == DigestFields(b)
           root == header_size(b) - 32
<1>1. \/ p \in DOMAIN d
      \/ p = root /\ g[p] = <<"data root", b>>
      \/ p \in 0 .. DigestStart(b)
            /\ g[p][1] \in {"parent", "byte", "state root", "extrinsics root"}
  BY HeaderFieldsAre, Zenon
<1>2. root \in Nat /\ DigestStart(b) \in Nat
  <2> DEFINE start == DigestStart(b)
             sum == LogsLength(b, Len(Digest[b]))
             size == header_size(b)
  <2>1. /\ start \in Nat /\ sum \in Nat /\ ExtensionLength \in Nat
        /\ size = start + 1 + sum + ExtensionLength + 32
    BY HeaderSizes
  <2> HIDE DEF start, sum, size
  <2>2. start \in Nat /\ size - 32 \in Nat
    BY <2>1
  <2> QED  BY <2>2 DEF start, size
<1>3. CASE p \in DOMAIN d
  <2>1. p \in Nat
    BY <1>3, DigestFieldsAre
  <2>2. PICK i \in 1 .. Len(Digest[b]) :
           p \in DOMAIN LogFields(Digest[b][i], LogStart(b, i))
    BY <1>3, DigestFieldsAre
  <2> DEFINE at == LogStart(b, i)
             f == LogFields(Digest[b][i], at)
  <2>3. at \in Nat
    BY LogsPlaced
  <2>4. f[p][1] = "engine" => p = at + 1
    <3>1. p \in DOMAIN f
      BY <2>2
    <3> HIDE DEF at
    <3> QED  BY <2>3, <3>1, LogFieldsAre
  <2>5. d[p] = f[p]
    BY <2>2, DigestFieldsAre, Zenon
  <2>6. g[p] = d[p]
    BY <1>3, HeaderFieldsAre, Zenon DEF Has
  <2> HIDE DEF f, g, d
  <2>7. g[p][1] = "engine" => p = at + 1
    BY <2>4, <2>5, <2>6
  <2> QED  BY <2>1, <2>7 DEF g
<1>4. CASE p = root /\ g[p] = <<"data root", b>>
  <2>1. g[p][1] # "engine"
    <3> HIDE DEF g
    <3>1. <<"data root", b>>[1] = "data root"
      OBVIOUS
    <3> QED  BY <1>4, <3>1
  <2>2. p \in Nat
    BY <1>2, <1>4
  <2> QED  BY <2>1, <2>2
<1>5. CASE p \in 0 .. DigestStart(b)
            /\ g[p][1] \in {"parent", "byte", "state root", "extrinsics root"}
  <2> DEFINE last == DigestStart(b)
  <2>1. p \in Nat
    <3>1. last \in Nat /\ p \in 0 .. last
      BY <1>2, <1>5, Zenon
    <3> HIDE DEF last
    <3> QED  BY <3>1
  <2>2. g[p][1] # "engine"
    <3> HIDE DEF g
    <3> QED  BY <1>5
  <2> QED  BY <2>1, <2>2
<1> QED  BY <1>1, <1>3, <1>4, <1>5, Zenon

(* An announcement of one authority alone has a one byte length. *)
LEMMA AnnouncementLength ==
    ASSUME NEW n \in Nat, 1 <= n, n <= 409, NEW v,
           v = 1 + 4 + CompactLength(n) + n * 40
    PROVE  v \in Nat /\ CompactLength(v) = IF n = 1 THEN 1 ELSE 2
<1>1. CASE n = 1
  BY <1>1 DEF CompactLength
<1>2. CASE n > 1 /\ n < 64
  <2>1. CompactLength(n) = 1
    BY <1>2 DEF CompactLength
  <2>2. v \in Nat /\ v >= 64 /\ v < 16384
    BY <1>2, <2>1
  <2> QED  BY <1>2, <2>2 DEF CompactLength
<1>3. CASE n >= 64
  <2>1. CompactLength(n) = 2
    BY <1>3 DEF CompactLength
  <2>2. v \in Nat /\ v >= 64 /\ v < 16384
    BY <1>3, <2>1
  <2> QED  BY <1>3, <2>2 DEF CompactLength
<1> QED  BY <1>1, <1>2, <1>3

-----------------------------------------------------------------------------
(* The witness of the hint.                                                *)

LEMMA HasRead ==
    ASSUME NEW fields, NEW p, NEW field, Has(fields, p, field)
    PROVE  Read(fields, p) = field
BY DEF Has, Read

(* The gadget finds the announcement where the hint says, unless the set   *)
(* has a single authority.                                                 *)
LEMMA HintWitnessFits ==
    ASSUME NEW b \in Blocks, IsEpochEnd(JustifyingSet(b), b), firstHeight \in Nat
    PROVE  LET keys == get_authorities(b)
           IN  verify_epoch_end_header(HeaderFields(b), Len(keys), StartPosition(b),
                                       PadKeys(keys))
                  <=> Len(keys) # 1
<1> DEFINE keys == get_authorities(b)
           n == Len(keys)
           i == FirstGrandpaLog(b)
           log == Digest[b][i]
           fields == HeaderFields(b)
           start == StartPosition(b)
           at == LogStart(b, i)
           v == ValueLength(log)
           cn == CompactLength(n)
           cv == CompactLength(v)
           before == LogsLength(b, i - 1)
           list == start + 9 + cn
           accepted == verify_epoch_end_header(fields, n, start, PadKeys(keys))
<1>1. i \in 1 .. Len(Digest[b]) /\ log = ScheduledChange(keys)
  BY AnnouncementIs
<1>2. /\ log.flag = 4 /\ log.engine = "FRNK" /\ log.tag = 1 /\ log.keys = keys
      /\ log.listed /\ log.tail = ZeroDelay /\ log.tailLength = 4
      /\ IsScheduledChange(log)
  <2> HIDE DEF log, keys
  <2> QED  BY <1>1, Sizes DEF ScheduledChange, ListLog, Consensus, IsScheduledChange
<1>3. /\ n \in Nat /\ 1 <= n /\ n <= MAX_AUTHORITY_SET_SIZE
      /\ MAX_AUTHORITY_SET_SIZE \in Nat /\ MAX_AUTHORITY_SET_SIZE <= 409
  <2>1. keys = AuthoritiesOf[AuthoritySetId[b]] /\ AuthoritySetId[b] \in SetIds
    BY SetIdOfBlock DEF get_authorities
  <2>2. n \in Nat \ {0} /\ n <= MAX_AUTHORITY_SET_SIZE
    BY <2>1, KeysOfSet
  <2>3. MAX_AUTHORITY_SET_SIZE \in Nat
    BY AuthoritiesAssumption
  <2> HIDE DEF n
  <2> QED  BY <2>2, <2>3, SetSizeAssumption
<1>4. cn \in 1 .. 2
  <2> HIDE DEF n
  <2> QED  BY <1>3 DEF CompactLength
<1>5. v = 1 + 4 + cn + n * 40
  <2>1. v = 1 + log.tailLength + IF log.listed THEN CompactLength(Len(log.keys))
                                                    + Len(log.keys) * 40
                                 ELSE 0
    BY <1>1, LogLengths
  <2> HIDE DEF log, v
  <2>2. v = 1 + 4 + (CompactLength(Len(keys)) + Len(keys) * 40)
    BY <1>2, <2>1
  <2>3. cn \in Nat /\ n * 40 \in Nat
    <3> HIDE DEF cn, n
    <3> QED  BY <1>3, <1>4
  <2> HIDE DEF keys
  <2> QED  BY <2>2, <2>3
<1>6. v \in Nat /\ cv = IF n = 1 THEN 1 ELSE 2
  <2>1. n <= 409
    <3> HIDE DEF n
    <3> QED  BY <1>3
  <2> HIDE DEF n, v
  <2> QED  BY <1>3, <1>5, <2>1, AnnouncementLength
<1>7. /\ before \in Nat /\ start \in Nat /\ at = start + 1
      /\ start <= 3 * 32 + 5 + before
  <2> DEFINE c == CompactLength(number(b))
             ds == DigestStart(b)
  <2>1. before \in Nat
    <3>1. i - 1 \in 0 .. Len(Digest[b])
      BY <1>1, LogsAssumption
    <3> QED  BY <3>1, LogsInOrder
  <2>2. c \in 1 .. 5 /\ ds = 96 + c /\ ds \in Nat
    BY HeaderSizes
  <2>3. start = 32 + c + 2 * 32 + before
    BY Sizes DEF StartPosition
  <2>4. at = ds + 1 + before
    BY DEF LogStart
  <2> HIDE DEF c, ds, before, start, at
  <2> QED  BY <2>1, <2>2, <2>3, <2>4
<1>8. 3 * 32 + 5 + before + 14 + (MAX_AUTHORITY_SET_SIZE * 40 + 4) <= MAX_HEADER_SIZE
      /\ MAX_HEADER_SIZE \in Nat
  <2>1. 3 * 32 + 5 + before + (9 + 5) + (MAX_AUTHORITY_SET_SIZE * 40 + 4)
            <= MAX_HEADER_SIZE
    <3> HIDE DEF i
    <3> QED  BY <1>1, <1>2, RoomAssumption, Sizes
             DEF MAX_PREFIX_LENGTH, BASE_PREFIX_LENGTH, MAX_SUBARRAY_SIZE
  <2>2. 9 + 5 = 14
    OBVIOUS
  <2> HIDE DEF before
  <2> QED  BY <2>1, <2>2, HeaderSizeAssumption
<1> DEFINE value == at + 5 + cv
<1>9. /\ Has(fields, at, <<"byte", 4>>) /\ Has(fields, at + 1, <<"engine", "FRNK">>)
      /\ Has(fields, value, <<"byte", 1>>)
      /\ Has(fields, value + v - 4, ZeroDelay)
      /\ \A k \in 0 .. cn - 1 : Has(fields, value + 1 + k, <<"byte", CompactByte(n, k)>>)
      /\ HasList(fields, keys, value + 1 + cn)
  <2>1. HasLog(fields, log, at)
    BY <1>1, HeaderHasLog
  <2> HIDE DEF log, fields, at, keys
  <2> QED  BY <1>2, <2>1, Zenon DEF HasLog
<1> HIDE DEF keys, n, i, log, fields, start, at, v, cn, cv, before
<1>10. /\ accepted <=>
             /\ n # 0 /\ get_fixed_subarray(start, 14)
             /\ verify_prefix_epoch_end_header(fields, start)
             /\ ValidEncodedLength(CompactBytesAt(fields, start + 9))
             /\ CompactValue(CompactBytesAt(fields, start + 9),
                             CompressMode(CompactBytesAt(fields, start + 9))) = n
             /\ LET cursor == start + 9 + EncodedLength(CompressMode(
                                CompactBytesAt(fields, start + 9)))
                IN  /\ get_fixed_subarray(cursor, MAX_AUTHORITY_SET_SIZE * 40 + 4)
                    /\ \A j \in Slots : ~validator_disabled(j, n) =>
                          /\ Read(fields, cursor + (j - 1) * 40)
                                = <<"key", PadKeys(keys)[j]>>
                          /\ Read(fields, cursor + (j - 1) * 40 + 32) = <<"weight", 1>>
                    /\ \A j \in Slots : j = n =>
                          Read(fields, cursor + (j - 1) * 40 + 40) = ZeroDelay
  BY Sizes DEF verify_epoch_end_header, MAX_PREFIX_LENGTH, BASE_PREFIX_LENGTH,
               MAX_SUBARRAY_SIZE
<1>11. CASE n = 1
  <2>1. cn = 1 /\ CompactByte(n, 0) = 4
    BY <1>11 DEF cn, CompactLength, CompactByte, CompactMode
  <2>2. value + 1 + 0 = start + 8
    BY <1>6, <1>7, <1>11
  <2>3. Has(fields, start + 8, <<"byte", 4>>)
    BY <1>9, <2>1, <2>2
  <2>4. Read(fields, start + 8) # <<"byte", 1>>
    BY <2>3, HasRead
  <2>5. ~accepted
    BY <1>10, <2>4 DEF verify_prefix_epoch_end_header
  <2> QED  BY <1>11, <2>5 DEF n, accepted, fields, start, keys
<1>12. CASE n # 1
  <2>1. value = start + 8 /\ at + 1 = start + 2 /\ value + 1 + cn = list
    BY <1>4, <1>6, <1>7, <1>12
  <2>2. value + v - 4 = list + (n - 1) * 40 + 40
    BY <1>3, <1>4, <1>5, <1>7, <2>1
  <2>3. verify_prefix_epoch_end_header(fields, start)
    <3>1. /\ Has(fields, start + 1, <<"byte", 4>>)
          /\ Has(fields, start + 2, <<"engine", "FRNK">>)
          /\ Has(fields, start + 8, <<"byte", 1>>)
      BY <1>7, <1>9, <2>1, Zenon
    <3> QED  BY <3>1, HasRead DEF verify_prefix_epoch_end_header, Consensus
  <2> DEFINE p == start + 9
             bytes == CompactBytesAt(fields, p)
  <2>4. /\ CompactValue(bytes, CompressMode(bytes)) = n
        /\ ValidEncodedLength(bytes)
        /\ EncodedLength(CompressMode(bytes)) = cn
    <3>1. p \in Nat /\ \A k \in 0 .. cn - 1 : value + 1 + k = p + k
      BY <1>4, <1>7, <2>1
    <3>2. \A k \in 0 .. cn - 1 :
             p + k \in DOMAIN fields /\ fields[p + k] = <<"byte", CompactByte(n, k)>>
      BY <1>9, <3>1 DEF Has
    <3> HIDE DEF p
    <3> QED  BY <1>3, <3>1, <3>2, CompactRead, Zenon DEF cn
  <2>5. get_fixed_subarray(start, 14)
    <3>1. start + 14 <= MAX_HEADER_SIZE
      <4> DEFINE room == MAX_AUTHORITY_SET_SIZE * 40 + 4
      <4>1. room \in Nat
        BY <1>3
      <4> HIDE DEF room
      <4>2. 3 * 32 + 5 + before + 14 + room <= MAX_HEADER_SIZE
        BY <1>8, Zenon DEF room
      <4> QED  BY <1>7, <1>8, <4>1, <4>2
    <3> QED  BY <1>7, <3>1 DEF get_fixed_subarray
  <2>6. get_fixed_subarray(list, MAX_AUTHORITY_SET_SIZE * 40 + 4)
    <3> DEFINE room == MAX_AUTHORITY_SET_SIZE * 40 + 4
    <3>1. room \in Nat
      BY <1>3
    <3>2. list \in Nat /\ list <= 3 * 32 + 5 + before + 14
      BY <1>4, <1>7
    <3> HIDE DEF room, list
    <3>3. 3 * 32 + 5 + before + 14 + room <= MAX_HEADER_SIZE
      BY <1>8, Zenon DEF room
    <3>4. list + room <= MAX_HEADER_SIZE /\ list >= 0
      BY <1>7, <1>8, <3>1, <3>2, <3>3
    <3> QED  BY <3>4 DEF get_fixed_subarray, room
  <2>7. ASSUME NEW j \in Slots, ~validator_disabled(j, n)
        PROVE  /\ Read(fields, list + (j - 1) * 40) = <<"key", PadKeys(keys)[j]>>
               /\ Read(fields, list + (j - 1) * 40 + 32) = <<"weight", 1>>
    <3>1. j \in 1 .. n
      <4>1. j \in Nat /\ 1 <= j
        BY <1>3 DEF Slots
      <4>2. n \notin 1 .. j - 1
        BY <2>7 DEF validator_disabled
      <4> QED  BY <1>3, <4>1, <4>2
    <3>2. PadKeys(keys)[j] = keys[j]
      <4>1. j <= n
        BY <3>1
      <4> QED  BY <4>1 DEF PadKeys, n
    <3>3. /\ Has(fields, list + (j - 1) * 40, <<"key", keys[j]>>)
          /\ Has(fields, list + (j - 1) * 40 + 32, <<"weight", 1>>)
      <4>1. HasList(fields, keys, list)
        BY <1>9, <2>1, Zenon
      <4> HIDE DEF list
      <4> QED  BY <3>1, <4>1 DEF HasList, n
    <3> QED  BY <3>2, <3>3, HasRead, Zenon
  <2>8. Read(fields, list + (n - 1) * 40 + 40) = ZeroDelay
    <3>1. Has(fields, list + (n - 1) * 40 + 40, ZeroDelay)
      BY <1>9, <2>2, Zenon
    <3> QED  BY <3>1, HasRead, Zenon
  <2>9. n # 0
    BY <1>3
  <2> HIDE DEF accepted
  <2>10. accepted
    BY <1>10, <2>3, <2>4, <2>5, <2>6, <2>7, <2>8, <2>9, Zenon DEF p, bytes, list
  <2> QED  BY <1>12, <2>10, Zenon DEF n, accepted, fields, start, keys
<1> QED  BY <1>11, <1>12

(* The whole set of an epoch end signs it. *)
LEMMA EpochEndSigned ==
    ASSUME NEW b \in Blocks, NEW id, IsEpochEnd(id, b)
    PROVE  verify_simple_justification(b, HeaderHash[b], id, AuthoritySetHash[id],
                                       EpochEndJustification(b))
<1> DEFINE signers == Members(id)
           keys == AuthoritiesOf[id]
           n == Len(keys)
           data == JustificationData(get_authorities(b - 1), SignedMessage(b, id), signers)
<1>1. b \in Blocks \ {0} /\ id = JustifyingSet(b)
  BY DEF IsEpochEnd, JustifyingSet
<1>2. id \in SetIds /\ get_authorities(b - 1) = keys
  BY <1>1, JustifyingSetType
<1>3. Cardinality(signers) = n
  BY <1>2, MembersOfSet
<1>4. n \in Nat \ {0}
  BY <1>2, KeysOfSet
<1>5. Cardinality(signers) * 3 > Len(get_authorities(b - 1)) * 2
  <2>1. n * 3 > n * 2
    <3> HIDE DEF n
    <3> QED  BY <1>4
  <2> QED  BY <1>2, <1>3, <2>1, Zenon
<1>6. Provable(b, data)
  <2> HIDE DEF signers
  <2>1. signers \in SUBSET Members(JustifyingSet(b))
    BY <1>1 DEF signers
  <2> QED  BY <1>1, <1>5, <2>1, SignedIsProvable, Zenon
<1>7. EpochEndJustification(b) = CircuitJustification(b, data)
  BY <1>1, <1>2, Zenon DEF EpochEndJustification, Members
<1>8. AuthoritySetHash[id] = compute_authority_set_hash(get_authorities(b - 1))
  BY <1>2, AuthoritySetHashAssumption
<1> HIDE DEF data
<1> QED  BY <1>1, <1>6, <1>7, <1>8, Zenon DEF Provable

(* What the circuit returns for the keys of the announced set. *)
LEMMA OutputIs ==
    ASSUME NEW b \in Blocks, NEW id, IsEpochEnd(id, b), NEW pubkeys,
           \A i \in 1 .. Len(get_authorities(b)) : pubkeys[i] = get_authorities(b)[i]
    PROVE  compute_authority_set_commitment(Len(get_authorities(b)), pubkeys)
               = AuthoritySetHash[id + 1]
<1> DEFINE s == AuthoritySetId[b]
<1>1. s \in SetIds /\ get_authorities(b) = AuthoritiesOf[s] /\ s = id + 1
  BY SetIdOfBlock DEF get_authorities, IsEpochEnd
<1> HIDE DEF s
<1>2. compute_authority_set_commitment(Len(AuthoritiesOf[s]), pubkeys)
          = compute_authority_set_hash(AuthoritiesOf[s])
  BY <1>1, CommitmentIsHash, Zenon
<1>3. AuthoritySetHash[s] = compute_authority_set_hash(AuthoritiesOf[s])
  BY <1>1, AuthoritySetHashAssumption
<1> QED  BY <1>1, <1>2, <1>3, Zenon

LEMMA PaddedKeys ==
    ASSUME NEW keys, Len(keys) \in Nat, Len(keys) <= MAX_AUTHORITY_SET_SIZE
    PROVE  \A i \in 1 .. Len(keys) : PadKeys(keys)[i] = keys[i]
<1>1. MAX_AUTHORITY_SET_SIZE \in Nat
  BY AuthoritiesAssumption
<1>2. \A i \in 1 .. Len(keys) : i \in Slots /\ i <= Len(keys)
  BY <1>1 DEF Slots
<1> QED  BY <1>2 DEF PadKeys

(* The circuit accepts the witness of the hint, for all sets but those of  *)
(* one authority, and returns the hash of the next set.                    *)
LEMMA HintWitnessProves ==
    ASSUME NEW b \in Blocks, NEW id, IsEpochEnd(id, b), firstHeight \in Nat
    PROVE  LET w == get_header_rotate(b)
           IN  /\ rotate(id, AuthoritySetHash[id], w) <=> w.num_authorities # 1
               /\ compute_authority_set_commitment(w.num_authorities, w.new_pubkeys)
                      = AuthoritySetHash[id + 1]
<1> DEFINE keys == get_authorities(b)
           w == get_header_rotate(b)
<1>1. /\ w.block = b /\ w.num_authorities = Len(keys)
      /\ w.start_position = StartPosition(b) /\ w.new_pubkeys = PadKeys(keys)
  BY DEF get_header_rotate
<1>2. IsEpochEnd(JustifyingSet(b), b)
  BY DEF IsEpochEnd, JustifyingSet
<1>3. verify_epoch_end_header(HeaderFields(b), Len(keys), StartPosition(b), PadKeys(keys))
          <=> Len(keys) # 1
  BY <1>2, HintWitnessFits
<1>4. verify_simple_justification(b, HeaderHash[b], id, AuthoritySetHash[id],
                                  EpochEndJustification(b))
  BY EpochEndSigned
<1>5. \A i \in 1 .. Len(keys) : PadKeys(keys)[i] = keys[i]
  <2>1. Len(keys) \in Nat /\ Len(keys) <= MAX_AUTHORITY_SET_SIZE
    BY SetIdOfBlock, KeysOfSet DEF get_authorities
  <2> HIDE DEF keys
  <2> QED  BY <2>1, PaddedKeys
<1>6. compute_authority_set_commitment(Len(keys), PadKeys(keys)) = AuthoritySetHash[id + 1]
  BY <1>5, OutputIs
<1> HIDE DEF w, keys
<1> QED  BY <1>1, <1>3, <1>4, <1>6, Zenon DEF rotate, w

HintInv ==
    /\ RotateInv
    /\ byHint /\ status \notin {"requested", "panicked"} =>
          \E b \in Blocks : IsEpochEnd(authority_set_id, b)
                            /\ witness = get_header_rotate(b)
    /\ RotateComplete

LEMMA HintStart == RotateInit => HintInv
<1> SUFFICES ASSUME RotateInit PROVE HintInv
  OBVIOUS
<1>1. status = "requested"
  BY DEF RotateInit
<1> QED  BY <1>1, RotateStart DEF HintInv, RotateComplete

LEMMA HintStep == HintInv /\ [RotateNext]_rotateVars => HintInv'
<1> SUFFICES ASSUME HintInv, [RotateNext]_rotateVars PROVE HintInv'
  OBVIOUS
<1>a. RotateInv'
  BY RotateStep DEF HintInv
<1>b. firstHeight' = firstHeight
  BY DEF RotateNext, Finalize, RotateHint, OtherWitness, Prove, rotateVars
<1>c. \A c \in Blocks : get_header_rotate(c)' = get_header_rotate(c)
  BY <1>b DEF get_header_rotate, StartPosition, number
<1>1. CASE Finalize
  BY <1>a, <1>c, <1>1 DEF Finalize, HintInv, RotateComplete, RotateOutput, PublicInput
<1>2. CASE RotateHint
  <2> DEFINE b == last_justified_block(authority_set_id, head)
  <2>1. CASE HeaderRotateAsserts(b)
    <3>1. b # 0
      BY <2>1 DEF HeaderRotateAsserts
    <3>2. b \in Blocks /\ IsEpochEnd(authority_set_id, b)
      BY <3>1, LastJustifiedCases DEF HintInv, RotateInv
    <3>3. /\ status' = "witnessed" /\ witness' = get_header_rotate(b)
          /\ authority_set_id' = authority_set_id /\ firstHeight' = firstHeight
      BY <1>2, <2>1 DEF RotateHint
    <3>4. PICK c \in Blocks : c = b
      BY <3>2
    <3>5. IsEpochEnd(authority_set_id, c)' /\ (witness = get_header_rotate(c))'
      <4>1. witness' = get_header_rotate(c)
        BY <3>3, <3>4
      <4>2. IsEpochEnd(authority_set_id', c)
        BY <3>2, <3>3, <3>4
      <4> QED  BY <1>c, <4>1, <4>2
    <3> QED  BY <1>a, <3>3, <3>5 DEF HintInv, RotateComplete
  <2>2. CASE ~HeaderRotateAsserts(b)
    <3>1. status' = "panicked"
      BY <1>2, <2>2 DEF RotateHint
    <3> QED  BY <1>a, <3>1 DEF HintInv, RotateComplete
  <2> QED  BY <2>1, <2>2
<1>3. CASE OtherWitness
  <2>1. byHint' = FALSE
    BY <1>3 DEF OtherWitness
  <2> QED  BY <1>a, <2>1 DEF HintInv, RotateComplete
<1>4. CASE Prove
  <2> SUFFICES ASSUME byHint' PROVE HintInv'
    BY <1>a DEF HintInv, RotateComplete
  <2>1. /\ byHint /\ status = "witnessed" /\ witness' = witness
        /\ authority_set_id' = authority_set_id
    BY <1>4 DEF Prove
  <2>2. PICK b \in Blocks : /\ IsEpochEnd(authority_set_id, b)
                            /\ witness = get_header_rotate(b)
    BY <2>1 DEF HintInv
  <2>3. /\ rotate(authority_set_id, AuthoritySetHash[authority_set_id], witness)
              <=> witness.num_authorities # 1
        /\ compute_authority_set_commitment(witness.num_authorities,
                                             witness.new_pubkeys)
              = AuthoritySetHash[authority_set_id + 1]
    BY <2>2, HintWitnessProves DEF HintInv, RotateInv
  <2>4. RotateComplete'
    <3>1. RotateOutput(PublicInput)' = AuthoritySetHash[authority_set_id + 1]
      BY <2>1 DEF RotateOutput, PublicInput
    <3>2. CASE witness.num_authorities # 1
      BY <1>4, <2>1, <2>3, <3>1, <3>2 DEF Prove, RotateComplete
    <3>3. CASE witness.num_authorities = 1
      BY <1>4, <2>1, <2>3, <3>3 DEF Prove, RotateComplete
    <3> QED  BY <3>2, <3>3
  <2>5. (IsEpochEnd(authority_set_id, b))' /\ (witness = get_header_rotate(b))'
    BY <1>c, <2>1, <2>2
  <2> QED  BY <1>a, <2>4, <2>5 DEF HintInv
<1>5. CASE UNCHANGED rotateVars
  BY <1>a, <1>c, <1>5 DEF rotateVars, HintInv, RotateComplete, RotateOutput, PublicInput
<1> QED  BY <1>1, <1>2, <1>3, <1>4, <1>5 DEF RotateNext

(* The witness of the hint is proved and names the next set, whatever the  *)
(* widths of the number and of the count and whatever the digest, unless   *)
(* the announced set has a single authority: that one is rejected.         *)
THEOREM HintIsProved == RotateSpec => []RotateComplete
<1>1. HintInv => RotateComplete
  BY DEF HintInv
<1> QED  BY <1>1, HintStart, HintStep, PTL DEF RotateSpec

-----------------------------------------------------------------------------
(* Any witness.                                                            *)

(* A count whose first byte is 0, or no byte at all, is 0. *)
LEMMA ZeroCount ==
    ASSUME NEW fields, NEW p \in Nat,
           Read(fields, p)[1] = "byte" => Read(fields, p)[2] = 0
    PROVE  LET b == CompactBytesAt(fields, p)
           IN  CompactValue(b, CompressMode(b)) = 0
<1> DEFINE b == CompactBytesAt(fields, p)
           f == Read(fields, p)
<1>1. b[0] = IF f[1] = "byte" THEN f[2] ELSE 0
  <2>1. p + 0 = p
    OBVIOUS
  <2> QED  BY <2>1 DEF CompactBytesAt
<1> HIDE DEF b
<1>2. b[0] = 0
  BY <1>1
<1>3. CompressMode(b) = 0 /\ CompactValue(b, 0) = 0
  BY <1>2 DEF CompressMode, CompactValue
<1> QED  BY <1>3 DEF b

(* What the gadget accepts starts one byte before a log of GRANDPA. *)
LEMMA AcceptedPrefix ==
    ASSUME NEW b \in Blocks, firstHeight \in Nat, NEW start \in Nat,
           verify_prefix_epoch_end_header(HeaderFields(b), start)
    PROVE  \E i \in 1 .. Len(Digest[b]) :
              /\ LogStart(b, i) = start + 1
              /\ IsGrandpaLog(Digest[b][i])
<1> DEFINE g == HeaderFields(b)
           p == start + 2
<1>1. /\ Read(g, start + 1) = <<"byte", 4>> /\ Read(g, p) = <<"engine", "FRNK">>
  BY DEF verify_prefix_epoch_end_header, Consensus
<1>2. p \in DOMAIN g /\ g[p] = <<"engine", "FRNK">>
  <2> HIDE DEF g, p
  <2>1. <<"inside", p>>[1] = "inside" /\ <<"engine", "FRNK">>[1] = "engine"
    OBVIOUS
  <2>2. <<"inside", p>> # <<"engine", "FRNK">>
    BY <2>1
  <2> QED  BY <1>1, <2>2 DEF Read
<1>3. g[p][1] = "engine"
  <2> HIDE DEF g, p
  <2> QED  BY <1>2
<1>4. PICK i \in 1 .. Len(Digest[b]) : p = LogStart(b, i) + 1
  BY <1>2, <1>3, EngineIds
<1> DEFINE at == LogStart(b, i)
           log == Digest[b][i]
<1>5. at \in Nat
  BY LogsPlaced
<1>6. at = start + 1 /\ at + 1 = p
  <2> HIDE DEF at
  <2>1. start + 2 = at + 1
    BY <1>4 DEF at
  <2> QED  BY <1>5, <2>1
<1>7. HasLog(g, log, at)
  BY HeaderHasLog
<1>8. Has(g, at, <<"byte", log.flag>>) /\ Has(g, at + 1, <<"engine", log.engine>>)
  <2> HIDE DEF g, log, at
  <2> QED  BY <1>7, Zenon DEF HasLog
<1>9. Read(g, at) = <<"byte", log.flag>> /\ Read(g, at + 1) = <<"engine", log.engine>>
  <2> HIDE DEF g, log, at
  <2> QED  BY <1>8, HasRead, Zenon
<1>10. <<"byte", log.flag>> = <<"byte", 4>> /\ <<"engine", log.engine>> = <<"engine", "FRNK">>
  <2> HIDE DEF g, log, at, p
  <2> QED  BY <1>1, <1>6, <1>9, Zenon
<1>11. IsGrandpaLog(log)
  <2> HIDE DEF log
  <2>1. log.flag = 4 /\ log.engine = "FRNK"
    BY <1>10
  <2> QED  BY <2>1 DEF IsGrandpaLog, Consensus
<1> QED  BY <1>6, <1>11 DEF at, log

(* The length of a log is below the one that fills the fourth byte. *)
LEMMA ValueFits ==
    ASSUME NEW b \in Blocks, firstHeight \in Nat, NEW i \in 1 .. Len(Digest[b])
    PROVE  LET v == ValueLength(Digest[b][i])
           IN  v \in Nat /\ v < 4194304
<1> DEFINE v == ValueLength(Digest[b][i])
           cv == CompactLength(v)
           l == LogLength(Digest[b][i])
           at == LogStart(b, i)
           ds == DigestStart(b)
           sum == LogsLength(b, Len(Digest[b]))
           size == header_size(b)
<1>1. v \in Nat /\ l = 5 + cv + v
  BY LogLengths
<1>2. cv \in 1 .. 5
  BY <1>1, CompactLengthIs
<1>3. at \in Nat /\ at + l <= ds + 1 + sum
  BY LogsPlaced
<1>4. /\ ds \in Nat /\ sum \in Nat /\ ExtensionLength \in Nat /\ MAX_HEADER_SIZE \in Nat
      /\ size = ds + 1 + sum + ExtensionLength + 32 /\ size <= MAX_HEADER_SIZE
  BY HeaderSizes
<1>5. MAX_HEADER_SIZE < 4194304
  BY HeaderSizeAssumption
<1> HIDE DEF v, cv, l, at, ds, sum, size
<1>6. v < MAX_HEADER_SIZE
  BY <1>1, <1>2, <1>3, <1>4
<1>7. v < 4194304
  BY <1>1, <1>4, <1>5, <1>6
<1> QED  BY <1>1, <1>7 DEF v

(* A log the gadget accepts has a two byte length and a list behind its    *)
(* tag: with any other length the byte it takes for the tag, or for the    *)
(* number of authorities, is one that it refuses.                          *)
LEMMA AcceptedIsList ==
    ASSUME NEW b \in Blocks, firstHeight \in Nat, NEW start \in Nat, NEW n, n # 0,
           NEW i \in 1 .. Len(Digest[b]), LogStart(b, i) = start + 1,
           Read(HeaderFields(b), start + 8) = <<"byte", 1>>,
           LET count == CompactBytesAt(HeaderFields(b), start + 9)
           IN  CompactValue(count, CompressMode(count)) = n
    PROVE  /\ CompactLength(ValueLength(Digest[b][i])) = 2
           /\ Digest[b][i].tag = 1
           /\ Digest[b][i].listed
<1> DEFINE log == Digest[b][i]
           fields == HeaderFields(b)
           at == LogStart(b, i)
           v == ValueLength(log)
           cv == CompactLength(v)
           m == Len(log.keys)
           value == at + 5 + cv
<1>1. /\ m \in Nat /\ log.tailLength \in Nat /\ log.tailLength > 0 /\ v \in Nat
      /\ v = 1 + log.tailLength + IF log.listed THEN CompactLength(m) + m * 40 ELSE 0
  BY LogLengths, Zenon
<1>2. v < 4194304
  BY ValueFits
<1>3. log.tail[1] \in {"delay", "opaque"}
  BY LogsAssumption
<1>4. /\ \A k \in 0 .. cv - 1 : Has(fields, at + 5 + k, <<"byte", CompactByte(v, k)>>)
      /\ Has(fields, value, <<"byte", log.tag>>)
      /\ Has(fields, value + v - log.tailLength, log.tail)
      /\ log.listed =>
            \A k \in 0 .. CompactLength(m) - 1 :
               Has(fields, value + 1 + k, <<"byte", CompactByte(m, k)>>)
  <2>1. HasLog(fields, log, at)
    BY HeaderHasLog
  <2> HIDE DEF log, fields, at
  <2> QED  BY <2>1, Zenon DEF HasLog
<1>5. at = start + 1
  OBVIOUS
<1>6. ~(Read(fields, start + 9)[1] = "byte" => Read(fields, start + 9)[2] = 0)
  <2>1. start + 9 \in Nat
    OBVIOUS
  <2> HIDE DEF fields
  <2> QED  BY <2>1, ZeroCount, Zenon DEF fields
<1>7. Read(fields, start + 8) = <<"byte", 1>>
  OBVIOUS
<1>8. CompactLength(m) \in 1 .. 5
  BY <1>1, CompactLengthIs
<1> HIDE DEF log, fields, at, v, m
<1>9. cv \in {1, 2, 4}
  BY <1>1, <1>2 DEF CompactLength
<1>10. \A k \in 0 .. cv - 1 : start + 6 + k = at + 5 + k
  <2> HIDE DEF cv
  <2> QED  BY <1>5, <1>9
<1>11. ~log.listed => v = 1 + log.tailLength
  BY <1>1
<1>12. ~log.listed => ~Has(fields, value + v - log.tailLength, <<"byte", 1>>)
  <2>1. ~(log.tail = <<"byte", 1>>)
    <3>1. <<"byte", 1>>[1] = "byte"
      OBVIOUS
    <3> QED  BY <1>3, <3>1
  <2> HIDE DEF value
  <2> QED  BY <1>4, <2>1 DEF Has
<1> HIDE DEF cv
<1>13. CASE cv = 1
  <2>1. value = start + 7 /\ value + 1 = start + 8 /\ value + 1 + 0 = start + 8
    BY <1>5, <1>13
  <2>2. v < 64
    BY <1>1, <1>13 DEF cv, CompactLength
  <2>3. CASE log.listed
    <3>1. m * 40 < 64
      <4> DEFINE l == m * 40
                 c == CompactLength(m)
      <4>1. l \in Nat /\ c \in Nat /\ v = 1 + log.tailLength + (c + l)
        BY <1>1, <1>8, <2>3
      <4> HIDE DEF l, c
      <4>2. l < 64
        BY <1>1, <2>2, <4>1
      <4> QED  BY <4>2 DEF l
    <3>2. m = 0 \/ m = 1
      BY <1>1, <3>1
    <3>3. CompactByte(m, 0) # 1
      BY <3>2 DEF CompactByte, CompactMode
    <3>4. Has(fields, value + 1 + 0, <<"byte", CompactByte(m, 0)>>)
      <4>1. 0 \in 0 .. CompactLength(m) - 1
        BY <1>8
      <4> QED  BY <1>4, <2>3, <4>1, Zenon
    <3>5. <<"byte", CompactByte(m, 0)>> = <<"byte", 1>>
      BY <1>7, <2>1, <3>4, HasRead, Zenon
    <3> HIDE DEF value
    <3> QED  BY <3>3, <3>5
  <2>4. CASE ~log.listed
    <3>1. value + v - log.tailLength = start + 8
      <4> HIDE DEF value
      <4> QED  BY <1>1, <1>11, <2>1, <2>4
    <3>2. Has(fields, start + 8, log.tail) /\ ~Has(fields, start + 8, <<"byte", 1>>)
      BY <1>4, <1>12, <2>4, <3>1, Zenon
    <3> QED  BY <1>7, <3>2, Zenon DEF Has, Read
  <2> QED  BY <2>3, <2>4
<1>14. CASE cv = 4
  <2>1. 3 \in 0 .. cv - 1 /\ at + 5 + 3 = start + 9
    BY <1>5, <1>14
  <2>2. Has(fields, start + 9, <<"byte", CompactByte(v, 3)>>)
    BY <1>4, <2>1, Zenon
  <2>3. CompactByte(v, 3) = 0
    <3>1. CompactMode(v) = 2
      BY <1>1, <1>2, <1>14 DEF cv, CompactLength, CompactMode
    <3>2. v \div 4194304 = 0
      BY <1>1, <1>2
    <3> QED  BY <3>1, <3>2 DEF CompactByte
  <2>4. Read(fields, start + 9) = <<"byte", 0>>
    BY <2>2, <2>3, HasRead, Zenon
  <2> QED  BY <1>6, <2>4
<1>15. CASE cv = 2
  <2>1. value = start + 8
    BY <1>5, <1>15
  <2>2. <<"byte", log.tag>> = <<"byte", 1>>
    BY <1>4, <1>7, <2>1, HasRead, Zenon
  <2>3. log.tag = 1
    <3> HIDE DEF value
    <3> QED  BY <2>2
  <2>4. log.listed
    <3> SUFFICES ASSUME ~log.listed PROVE FALSE
      OBVIOUS
    <3>1. value + v - log.tailLength = start + 9
      <4> HIDE DEF value
      <4> QED  BY <1>1, <1>11, <2>1
    <3>2. Has(fields, start + 9, log.tail)
      BY <1>4, <3>1, Zenon
    <3>3. Read(fields, start + 9) = log.tail
      BY <3>2, HasRead, Zenon
    <3> QED  BY <1>3, <1>6, <3>3
  <2> QED  BY <1>15, <2>3, <2>4 DEF cv, v, log
<1> QED  BY <1>9, <1>13, <1>14, <1>15

(* The gadget accepts no list but the one an epoch end block announces, at *)
(* its length and with its keys.                                           *)
LEMMA AcceptedIsAnnouncement ==
    ASSUME NEW b \in Blocks, firstHeight \in Nat, NEW start \in Nat,
           NEW n \in Slots, NEW pubkeys,
           verify_epoch_end_header(HeaderFields(b), n, start, pubkeys)
    PROVE  LET keys == get_authorities(b)
           IN  /\ IsEpochEnd(JustifyingSet(b), b)
               /\ n = Len(keys)
               /\ \A i \in 1 .. Len(keys) : pubkeys[i] = keys[i]
<1> DEFINE fields == HeaderFields(b)
           keys == get_authorities(b)
           m == Len(keys)
           cm == CompactLength(m)
           count == CompactBytesAt(fields, start + 9)
           cursor == start + 9 + EncodedLength(CompressMode(count))
<1>1. /\ verify_prefix_epoch_end_header(fields, start)
      /\ CompactValue(count, CompressMode(count)) = n
      /\ n # 0
      /\ \A j \in Slots : ~validator_disabled(j, n) =>
            Read(fields, cursor + (j - 1) * 40) = <<"key", pubkeys[j]>>
  BY Sizes DEF verify_epoch_end_header, BASE_PREFIX_LENGTH
<1>2. PICK i \in 1 .. Len(Digest[b]) : LogStart(b, i) = start + 1
                                       /\ IsGrandpaLog(Digest[b][i])
  BY <1>1, AcceptedPrefix
<1> DEFINE log == Digest[b][i]
           at == LogStart(b, i)
<1>3. CompactLength(ValueLength(log)) = 2 /\ log.tag = 1 /\ log.listed
  <2>1. Read(fields, start + 8) = <<"byte", 1>>
    BY <1>1 DEF verify_prefix_epoch_end_header
  <2> QED  BY <1>1, <1>2, <2>1, AcceptedIsList, Zenon
<1>4. IsEpochEnd(JustifyingSet(b), b) /\ log = ScheduledChange(keys)
  <2>1. IsScheduledChange(log) /\ log.flag = Consensus /\ log.engine = "FRNK"
    BY <1>2, <1>3 DEF IsScheduledChange, IsGrandpaLog
  <2> QED  BY <1>2, <2>1, DigestAssumption
<1>5. log.keys = keys
  <2> HIDE DEF log, keys
  <2> QED  BY <1>4 DEF ScheduledChange, ListLog
<1>6. m \in Nat /\ m <= MAX_AUTHORITY_SET_SIZE /\ MAX_AUTHORITY_SET_SIZE \in Nat
  BY SetIdOfBlock, KeysOfSet, AuthoritiesAssumption DEF get_authorities
<1>7. /\ \A k \in 0 .. cm - 1 :
            Has(fields, at + 5 + 2 + 1 + k, <<"byte", CompactByte(m, k)>>)
      /\ HasList(fields, keys, at + 5 + 2 + 1 + cm)
  <2>1. HasLog(fields, log, at)
    BY <1>2, HeaderHasLog
  <2> HIDE DEF log, fields, at, keys
  <2> QED  BY <1>3, <1>5, <2>1, Zenon DEF HasLog
<1>8. cm \in 1 .. 5
  BY <1>6, CompactLengthIs
<1>9. at + 5 + 2 + 1 + cm = start + 9 + cm
      /\ \A k \in 0 .. cm - 1 : at + 5 + 2 + 1 + k = start + 9 + k
  <2>1. at = start + 1
    BY <1>2
  <2> HIDE DEF at, cm
  <2> QED  BY <1>8, <2>1
<1>10. CompactValue(count, CompressMode(count)) = m
       /\ EncodedLength(CompressMode(count)) = cm
  <2> DEFINE p == start + 9
  <2>1. \A k \in 0 .. cm - 1 :
           p + k \in DOMAIN fields /\ fields[p + k] = <<"byte", CompactByte(m, k)>>
    <3> HIDE DEF fields, at, keys, cm, m
    <3> QED  BY <1>7, <1>9 DEF Has
  <2>2. p \in Nat
    OBVIOUS
  <2> HIDE DEF fields, keys, p, m
  <2> QED  BY <1>6, <2>1, <2>2, CompactRead, Zenon DEF p
<1>11. n = m /\ cursor = start + 9 + cm
  BY <1>1, <1>10
<1>12. ASSUME NEW j \in 1 .. m
       PROVE  pubkeys[j] = keys[j]
  <2>1. j \in Slots /\ ~validator_disabled(j, n)
    <3>1. j \in Slots /\ m \notin 1 .. j - 1
      <4> HIDE DEF m
      <4> QED  BY <1>6, <1>12 DEF Slots
    <3> QED  BY <1>11, <3>1 DEF validator_disabled
  <2>2. Read(fields, start + 9 + cm + (j - 1) * 40) = <<"key", pubkeys[j]>>
    <3> HIDE DEF fields, count, cm
    <3> QED  BY <1>1, <1>11, <2>1
  <2>3. Has(fields, start + 9 + cm + (j - 1) * 40, <<"key", keys[j]>>)
    <3> HIDE DEF fields, keys, cm, at
    <3>1. HasList(fields, keys, start + 9 + cm)
      BY <1>7, <1>9, Zenon
    <3> QED  BY <1>12, <3>1, Zenon DEF HasList, m
  <2>4. <<"key", pubkeys[j]>> = <<"key", keys[j]>>
    BY <2>2, <2>3, HasRead, Zenon
  <2> HIDE DEF keys
  <2> QED  BY <2>4
<1> QED  BY <1>4, <1>11, <1>12, Zenon DEF m

(* What a witness satisfies, from the hint or not: it holds the header of  *)
(* a finalized block that the requested set justified.                     *)
WitnessOfSet ==
    /\ witness.block \in Blocks \ {0}
    /\ witness.block <= head
    /\ JustifyingSet(witness.block) = authority_set_id
    /\ witness.num_authorities \in Slots
    /\ witness.start_position \in Nat

WitnessInv ==
    /\ RotateInv
    /\ status \in {"witnessed", "proved"} => WitnessOfSet
    /\ OnlyScheduledChange

LEMMA WitnessStart == RotateInit => WitnessInv
<1> SUFFICES ASSUME RotateInit PROVE WitnessInv
  OBVIOUS
<1>1. status = "requested"
  BY DEF RotateInit
<1> QED  BY <1>1, RotateStart DEF WitnessInv, OnlyScheduledChange

(* The witness of the hint is one of those. *)
LEMMA HintOfSet ==
    ASSUME NEW b \in Blocks, IsEpochEnd(JustifyingSet(b), b), firstHeight \in Nat
    PROVE  Len(get_authorities(b)) \in Slots /\ StartPosition(b) \in Nat
<1> DEFINE n == Len(get_authorities(b))
           i == FirstGrandpaLog(b)
           c == CompactLength(number(b))
           before == LogsLength(b, i - 1)
<1>1. n \in Nat \ {0} /\ n <= MAX_AUTHORITY_SET_SIZE /\ MAX_AUTHORITY_SET_SIZE \in Nat
  BY SetIdOfBlock, KeysOfSet, AuthoritiesAssumption DEF get_authorities
<1>2. n \in Slots
  <2> HIDE DEF n
  <2> QED  BY <1>1 DEF Slots
<1>3. before \in Nat
  <2>1. i \in 1 .. Len(Digest[b])
    BY AnnouncementIs
  <2>2. i - 1 \in 0 .. Len(Digest[b])
    BY <2>1, LogsAssumption
  <2> QED  BY <2>2, LogsInOrder
<1>4. c \in 1 .. 5
  BY HeaderSizes
<1>5. StartPosition(b) = 32 + c + 2 * 32 + before
  BY Sizes DEF StartPosition
<1>6. StartPosition(b) \in Nat
  <2> HIDE DEF c, before
  <2> QED  BY <1>3, <1>4, <1>5
<1> QED  BY <1>2, <1>6

LEMMA WitnessStep == WitnessInv /\ [RotateNext]_rotateVars => WitnessInv'
<1> SUFFICES ASSUME WitnessInv, [RotateNext]_rotateVars PROVE WitnessInv'
  OBVIOUS
<1>a. RotateInv'
  BY RotateStep DEF WitnessInv
<1>1. CASE Finalize
  <2>1. /\ authority_set_id' = authority_set_id /\ status' = status
        /\ witness' = witness /\ output' = output /\ head' = head + 1
    BY <1>1 DEF Finalize
  <2>2. head \in Nat /\ \A b \in Blocks : b \in Nat
    BY SetIdOfBlock DEF WitnessInv, RotateInv
  <2>3. \A b \in Blocks : b <= head => b <= head + 1
    BY <2>2
  <2>4. status \in {"witnessed", "proved"} => WitnessOfSet'
    BY <2>1, <2>3 DEF WitnessInv, WitnessOfSet
  <2>5. OnlyScheduledChange'
    BY <2>1, <2>3 DEF WitnessInv, OnlyScheduledChange, RotateProvable, RotateOutput,
                      PublicInput
  <2> QED  BY <1>a, <2>1, <2>4, <2>5 DEF WitnessInv
<1>2. CASE RotateHint
  <2> DEFINE b == last_justified_block(authority_set_id, head)
  <2>1. status' \in {"witnessed", "panicked"}
    BY <1>2 DEF RotateHint
  <2>2. CASE status' = "witnessed"
    <3>1. HeaderRotateAsserts(b) /\ witness' = get_header_rotate(b)
      BY <1>2, <2>2 DEF RotateHint
    <3>2. b # 0
      BY <3>1 DEF HeaderRotateAsserts
    <3>3. b \in Blocks /\ b <= head /\ IsEpochEnd(authority_set_id, b)
      BY <3>2, LastJustifiedCases DEF WitnessInv, RotateInv
    <3> HIDE DEF b
    <3>4. JustifyingSet(b) = authority_set_id
      BY <3>3 DEF IsEpochEnd, JustifyingSet
    <3>5. Len(get_authorities(b)) \in Slots /\ StartPosition(b) \in Nat
      BY <3>3, <3>4, HintOfSet DEF WitnessInv, RotateInv
    <3>6. head' = head /\ authority_set_id' = authority_set_id
      BY <1>2 DEF RotateHint
    <3>7. WitnessOfSet'
      BY <3>1, <3>2, <3>3, <3>4, <3>5, <3>6 DEF WitnessOfSet, get_header_rotate
    <3> QED  BY <1>a, <2>2, <3>7 DEF WitnessInv, OnlyScheduledChange
  <2>3. CASE status' = "panicked"
    BY <1>a, <2>3 DEF WitnessInv, OnlyScheduledChange
  <2> QED  BY <2>1, <2>2, <2>3
<1>3. CASE OtherWitness
  <2>1. PICK b \in Blocks \ {0} :
           /\ b <= head /\ JustifyingSet(b) = authority_set_id
           /\ \E p \in DOMAIN HeaderFields(b) :
                 /\ p > 0
                 /\ \E m \in Slots : \E keys :
                       witness' = [block           |-> b,
                                   num_authorities |-> m,
                                   start_position  |-> p - 1,
                                   new_pubkeys     |-> keys]
    <3>1. \A n : {n, n - 1} \cap Slots \subseteq Slots
      OBVIOUS
    <3> QED  BY <1>3, <3>1, Zenon DEF OtherWitness
  <2>2. PICK p \in DOMAIN HeaderFields(b) :
           /\ p > 0
           /\ \E m \in Slots : \E keys :
                 witness' = [block           |-> b,
                             num_authorities |-> m,
                             start_position  |-> p - 1,
                             new_pubkeys     |-> keys]
    BY <2>1
  <2>3. p - 1 \in Nat
    <3>1. p \in Nat
      BY EngineIds DEF WitnessInv, RotateInv
    <3> QED  BY <2>2, <3>1
  <2>4. head' = head /\ authority_set_id' = authority_set_id /\ status' = "witnessed"
    BY <1>3 DEF OtherWitness
  <2>5. WitnessOfSet'
    BY <2>1, <2>2, <2>3, <2>4 DEF WitnessOfSet
  <2> QED  BY <1>a, <2>4, <2>5 DEF WitnessInv, OnlyScheduledChange
<1>4. CASE Prove
  <2> DEFINE b == witness.block
             n == witness.num_authorities
             keys == witness.new_pubkeys
             id == authority_set_id
  <2>1. /\ status = "witnessed" /\ head' = head /\ witness' = witness
        /\ authority_set_id' = id
    BY <1>4 DEF Prove
  <2>2. WitnessOfSet /\ WitnessOfSet'
    BY <2>1 DEF WitnessInv, WitnessOfSet
  <2>3. CASE status' = "proved"
    <3>1. /\ verify_epoch_end_header(HeaderFields(b), n, witness.start_position, keys)
          /\ output' = compute_authority_set_commitment(n, keys)
      BY <1>4, <2>3 DEF Prove, rotate
    <3>2. /\ b \in Blocks /\ b <= head /\ JustifyingSet(b) = id
          /\ n \in Slots /\ witness.start_position \in Nat /\ firstHeight \in Nat
      BY <2>2 DEF WitnessOfSet, WitnessInv, RotateInv
    <3>3. /\ IsEpochEnd(JustifyingSet(b), b) /\ n = Len(get_authorities(b))
          /\ \A i \in 1 .. Len(get_authorities(b)) : keys[i] = get_authorities(b)[i]
      BY <3>1, <3>2, AcceptedIsAnnouncement
    <3>4. IsEpochEnd(id, b) /\ output' = AuthoritySetHash[id + 1]
      <4>1. IsEpochEnd(id, b)
        BY <3>2, <3>3
      <4>2. compute_authority_set_commitment(n, keys) = AuthoritySetHash[id + 1]
        <5> HIDE DEF b, n, keys, id
        <5> QED  BY <3>2, <3>3, <4>1, OutputIs, Zenon
      <4> QED  BY <3>1, <4>1, <4>2
    <3>5. OnlyScheduledChange'
      BY <2>1, <3>2, <3>4 DEF OnlyScheduledChange, RotateProvable, RotateOutput,
                              PublicInput
    <3> QED  BY <1>a, <2>2, <3>5 DEF WitnessInv
  <2>4. CASE status' # "proved"
    BY <1>a, <2>2, <2>4 DEF WitnessInv, OnlyScheduledChange
  <2> QED  BY <2>3, <2>4
<1>5. CASE UNCHANGED rotateVars
  BY <1>a, <1>5 DEF rotateVars, WitnessInv, WitnessOfSet, OnlyScheduledChange,
                    RotateProvable, RotateOutput, PublicInput
<1> QED  BY <1>1, <1>2, <1>3, <1>4, <1>5 DEF RotateNext

(* Whatever header of the requested set, start position, number of         *)
(* authorities and keys a prover supplies, a proof of the rotate circuit   *)
(* exists only when the epoch has ended, and its output is the hash of the *)
(* set that the header announces.                                          *)
THEOREM OnlyAnnouncedSet == RotateSpec => []OnlyScheduledChange
<1>1. WitnessInv => OnlyScheduledChange
  BY DEF WitnessInv
<1> QED  BY <1>1, WitnessStart, WitnessStep, PTL DEF RotateSpec
=============================================================================
