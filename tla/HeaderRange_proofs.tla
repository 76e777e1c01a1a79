------------------------- MODULE HeaderRange_proofs -------------------------
(***************************************************************************)
(* The header range circuit, for every chain, every number of headers per  *)
(* map job and every headers a prover may supply.                          *)
(***************************************************************************)
EXTENDS HeaderRange, Justification_proofs

-----------------------------------------------------------------------------
(* Powers of two.                                                          *)

IsDoubling(f, n) == f = [k \in 0 .. n |-> IF k = 0 THEN 1 ELSE 2 * f[k - 1]]

LEMMA DoublingExists ==
    ASSUME NEW n \in Nat
    PROVE  \E f : IsDoubling(f, n)
<1> DEFINE S == {m \in Nat : ~\E f : IsDoubling(f, m)}
<1>1. SUFFICES ASSUME S # {} PROVE FALSE
  OBVIOUS
<1>2. PICK m \in S : \A k \in S : m <= k
  <2>1. S \subseteq Nat
    OBVIOUS
  <2> HIDE DEF S
  <2> QED  BY <1>1, <2>1, LeastNatural
<1>3. CASE m = 0
  <2> DEFINE g == [k \in 0 .. 0 |-> 1]
  <2>1. IsDoubling(g, 0)
    BY DEF IsDoubling
  <2> QED  BY <1>2, <1>3, <2>1
<1>4. CASE m # 0
  <2>1. m - 1 \in Nat /\ m - 1 \notin S
    BY <1>2, <1>4
  <2>2. PICK f : IsDoubling(f, m - 1)
    BY <2>1
  <2> DEFINE last == 2 * f[m - 1]
             g == [k \in 0 .. m |-> IF k = m THEN last ELSE f[k]]
  <2> HIDE DEF last
  <2>3. \A k \in 0 .. m : g[k] = IF k = m THEN last ELSE f[k]
    OBVIOUS
  <2>4. \A k \in 0 .. m - 1 : f[k] = IF k = 0 THEN 1 ELSE 2 * f[k - 1]
    BY <2>2 DEF IsDoubling
  <2>5. \A k \in 1 .. m : k - 1 \in 0 .. m - 1 /\ g[k - 1] = f[k - 1]
    BY <1>4, <2>1
  <2>6. \A k \in 0 .. m : g[k] = IF k = 0 THEN 1 ELSE 2 * g[k - 1]
    <3> SUFFICES ASSUME NEW k \in 0 .. m
                 PROVE  g[k] = IF k = 0 THEN 1 ELSE 2 * g[k - 1]
      OBVIOUS
    <3> HIDE DEF g
    <3>1. CASE k = m
      BY <1>4, <2>1, <2>3, <2>5, <3>1 DEF last
    <3>2. CASE k # m
      <4>1. k \in 0 .. m - 1 /\ g[k] = f[k]
        BY <2>1, <2>3, <3>2
      <4>2. k # 0 => g[k - 1] = f[k - 1]
        BY <2>1, <2>5, <4>1
      <4> QED  BY <2>4, <4>1, <4>2
    <3> QED  BY <3>1, <3>2
  <2>7. IsDoubling(g, m)
    BY <2>6 DEF IsDoubling
  <2> QED  BY <1>2, <2>7
<1> QED  BY <1>3, <1>4

LEMMA DoublingUnique ==
    ASSUME NEW m \in Nat, NEW n \in Nat, NEW f, NEW g,
           IsDoubling(f, m), IsDoubling(g, n), m <= n
    PROVE  f[m] = g[m]
<1> DEFINE S == {k \in 0 .. m : f[k] # g[k]}
<1>1. SUFFICES ASSUME S # {} PROVE FALSE
  OBVIOUS
<1>2. PICK k \in S : \A l \in S : k <= l
  <2>1. S \subseteq Nat
    OBVIOUS
  <2> HIDE DEF S
  <2> QED  BY <1>1, <2>1, LeastNatural
<1>3. k # 0 => k - 1 \in 0 .. m /\ f[k - 1] = g[k - 1]
  BY <1>2
<1>4. k \in 0 .. m /\ k \in 0 .. n
  BY <1>2
<1>5. /\ f[k] = IF k = 0 THEN 1 ELSE 2 * f[k - 1]
      /\ g[k] = IF k = 0 THEN 1 ELSE 2 * g[k - 1]
  BY <1>4 DEF IsDoubling
<1> QED  BY <1>2, <1>3, <1>5

LEMMA PowersOfTwo ==
    /\ pow2[0] = 1
    /\ \A k \in Nat : pow2[k + 1] = 2 * pow2[k]
<1> DEFINE Eq(f) == f = [k \in Nat |-> IF k = 0 THEN 1 ELSE 2 * f[k - 1]]
           C(n) == CHOOSE f : IsDoubling(f, n)
           g == [n \in Nat |-> C(n)[n]]
<1>1. \A n \in Nat : IsDoubling(C(n), n)
  <2> SUFFICES ASSUME NEW n \in Nat PROVE IsDoubling(C(n), n)
    OBVIOUS
  <2>1. \E f : IsDoubling(f, n)
    BY DoublingExists
  <2> QED  BY <2>1
<1>2. \A n \in Nat : g[n] = C(n)[n]
  OBVIOUS
<1> HIDE DEF C
<1>3. \A n \in Nat : g[n] = IF n = 0 THEN 1 ELSE 2 * g[n - 1]
  <2> SUFFICES ASSUME NEW n \in Nat
               PROVE  g[n] = IF n = 0 THEN 1 ELSE 2 * g[n - 1]
    OBVIOUS
  <2> HIDE DEF g
  <2>1. C(n)[n] = IF n = 0 THEN 1 ELSE 2 * C(n)[n - 1]
    <3>1. IsDoubling(C(n), n) /\ n \in 0 .. n
      BY <1>1
    <3> QED  BY <3>1 DEF IsDoubling
  <2>2. ASSUME n # 0 PROVE C(n)[n - 1] = C(n - 1)[n - 1]
    <3>1. n - 1 \in Nat /\ n - 1 <= n
      BY <2>2
    <3>2. IsDoubling(C(n), n) /\ IsDoubling(C(n - 1), n - 1)
      BY <1>1, <3>1
    <3> QED  BY <3>1, <3>2, DoublingUnique
  <2>3. n # 0 => g[n - 1] = C(n - 1)[n - 1]
    BY <1>2
  <2> QED  BY <1>2, <2>1, <2>2, <2>3
<1>4. Eq(g)
  BY <1>3
<1> HIDE DEF g
<1>5. pow2 = CHOOSE f : Eq(f)
  BY DEF pow2
<1>6. Eq(pow2)
  <2> HIDE DEF Eq
  <2> QED  BY <1>4, <1>5
<1>7. \A k \in Nat : pow2[k] = IF k = 0 THEN 1 ELSE 2 * pow2[k - 1]
  BY <1>6
<1>8. 0 \in Nat /\ \A k \in Nat : k + 1 \in Nat /\ k + 1 # 0 /\ (k + 1) - 1 = k
  OBVIOUS
<1> QED  BY <1>7, <1>8

LEMMA PowersArePositive ==
    \A k \in Nat : pow2[k] \in Nat /\ pow2[k] > k
<1> DEFINE S == {k \in Nat : ~(pow2[k] \in Nat /\ pow2[k] > k)}
<1>1. SUFFICES ASSUME S # {} PROVE FALSE
  OBVIOUS
<1>2. PICK k \in S : \A l \in S : k <= l
  <2>1. S \subseteq Nat
    OBVIOUS
  <2> HIDE DEF S
  <2> QED  BY <1>1, <2>1, LeastNatural
<1>3. k # 0
  BY <1>2, PowersOfTwo
<1>4. k - 1 \in Nat /\ k - 1 \notin S /\ (k - 1) + 1 = k
  BY <1>2, <1>3
<1>5. pow2[k - 1] \in Nat /\ pow2[k - 1] > k - 1 /\ pow2[k] = 2 * pow2[k - 1]
  BY <1>4, PowersOfTwo
<1> QED  BY <1>2, <1>3, <1>5

LEMMA PowersAdd ==
    ASSUME NEW a \in Nat, NEW b \in Nat
    PROVE  pow2[a + b] = pow2[a] * pow2[b]
<1> DEFINE S == {k \in Nat : pow2[a + k] # pow2[a] * pow2[k]}
<1>1. SUFFICES ASSUME S # {} PROVE FALSE
  OBVIOUS
<1>2. PICK k \in S : \A l \in S : k <= l
  <2>1. S \subseteq Nat
    OBVIOUS
  <2> HIDE DEF S
  <2> QED  BY <1>1, <2>1, LeastNatural
<1>3. k # 0
  BY <1>2, PowersOfTwo, PowersArePositive
<1>4. k - 1 \in Nat /\ k - 1 \notin S /\ (k - 1) + 1 = k
      /\ a + (k - 1) \in Nat /\ (a + (k - 1)) + 1 = a + k
  BY <1>2, <1>3
<1>5. /\ pow2[a + (k - 1)] = pow2[a] * pow2[k - 1]
      /\ pow2[k] = 2 * pow2[k - 1]
      /\ pow2[a + k] = 2 * pow2[a + (k - 1)]
  BY <1>4, PowersOfTwo
<1>6. \A x, y \in Nat : 2 * (x * y) = x * (2 * y)
  OBVIOUS
<1>7. pow2[a] \in Nat /\ pow2[k - 1] \in Nat
  BY <1>4, PowersArePositive
<1> QED  BY <1>2, <1>5, <1>6, <1>7

(* PowerOfTwo returns a power of two that is not below its argument. *)
LEMMA PowerOfTwoIs ==
    ASSUME NEW n \in Nat
    PROVE  \E k \in Nat : PowerOfTwo(n) = pow2[k] /\ pow2[k] >= n
<1> DEFINE S == {k \in Nat : pow2[k] >= n}
           P(k) == pow2[k] >= n /\ \A l \in 0 .. k - 1 : pow2[l] < n
<1>1. n \in S
  BY PowersArePositive
<1>2. PICK k \in S : \A l \in S : k <= l
  <2>1. S \subseteq Nat
    OBVIOUS
  <2> HIDE DEF S
  <2> QED  BY <1>1, <2>1, LeastNatural
<1>3. k \in 0 .. n /\ P(k)
  BY <1>1, <1>2, PowersArePositive
<1>4. \E l \in 0 .. n : P(l)
  BY <1>3
<1> DEFINE c == CHOOSE l \in 0 .. n : P(l)
<1>5. PowerOfTwo(n) = pow2[c]
  BY DEF PowerOfTwo
<1>6. c \in 0 .. n /\ P(c)
  BY <1>4
<1> HIDE DEF c
<1>7. c \in Nat /\ pow2[c] >= n
  BY <1>6
<1> QED  BY <1>5, <1>7

-----------------------------------------------------------------------------
(* Merkle trees.                                                           *)

LEMMA LengthIs ==
    ASSUME NEW n \in Nat, NEW f, DOMAIN f = 1 .. n, f = [i \in DOMAIN f |-> f[i]]
    PROVE  Len(f) = n
<1> DEFINE S == {f[i] : i \in 1 .. n}
<1>1. f \in [1 .. n -> S]
  OBVIOUS
<1> HIDE DEF S
<1>2. f \in Seq(S)
  BY <1>1
<1> QED  BY <1>2, LenProperties

LEMMA LayerAboveIs ==
    ASSUME NEW n \in Nat, NEW f, Len(f) \div 2 = n
    PROVE  /\ DOMAIN LayerAbove(f) = 1 .. n
           /\ Len(LayerAbove(f)) = n
           /\ \A i \in 1 .. n :
                 LayerAbove(f)[i] = sha256(f[2 * i - 1], f[2 * i])
<1>1. LayerAbove(f) = [i \in 1 .. n |-> sha256(f[2 * i - 1], f[2 * i])]
  BY DEF LayerAbove
<1>2. DOMAIN LayerAbove(f) = 1 .. n
      /\ LayerAbove(f) = [i \in DOMAIN LayerAbove(f) |-> LayerAbove(f)[i]]
  BY <1>1
<1> QED  BY <1>1, <1>2, LengthIs

LEMMA LayerNode ==
    ASSUME NEW f, NEW i \in 1 .. Len(f) \div 2
    PROVE  LayerAbove(f)[i] = sha256(f[2 * i - 1], f[2 * i])
BY DEF LayerAbove

(* The layers of a tree, up to the n-th. *)
IsLayering(f, layer, n) ==
    f = [k \in 0 .. n |-> IF k = 0 THEN layer ELSE LayerAbove(f[k - 1])]

LEMMA LayeringExists ==
    ASSUME NEW layer, NEW n \in Nat
    PROVE  \E f : IsLayering(f, layer, n)
<1> DEFINE S == {m \in Nat : ~\E f : IsLayering(f, layer, m)}
<1>1. SUFFICES ASSUME S # {} PROVE FALSE
  OBVIOUS
<1>2. PICK m \in S : \A k \in S : m <= k
  <2>1. S \subseteq Nat
    OBVIOUS
  <2> HIDE DEF S
  <2> QED  BY <1>1, <2>1, LeastNatural
<1>3. CASE m = 0
  <2> DEFINE g == [k \in 0 .. 0 |-> layer]
  <2>1. IsLayering(g, layer, 0)
    BY DEF IsLayering
  <2> QED  BY <1>2, <1>3, <2>1
<1>4. CASE m # 0
  <2>1. m - 1 \in Nat /\ m - 1 \notin S
    BY <1>2, <1>4
  <2>2. PICK f : IsLayering(f, layer, m - 1)
    BY <2>1
  <2> DEFINE last == LayerAbove(f[m - 1])
             g == [k \in 0 .. m |-> IF k = m THEN last ELSE f[k]]
  <2> HIDE DEF last
  <2>3. \A k \in 0 .. m : g[k] = IF k = m THEN last ELSE f[k]
    OBVIOUS
  <2>4. \A k \in 0 .. m - 1 :
           f[k] = IF k = 0 THEN layer ELSE LayerAbove(f[k - 1])
    BY <2>2 DEF IsLayering
  <2>5. \A k \in 1 .. m : k - 1 \in 0 .. m - 1 /\ g[k - 1] = f[k - 1]
    BY <1>4, <2>1
  <2>6. \A k \in 0 .. m : g[k] = IF k = 0 THEN layer ELSE LayerAbove(g[k - 1])
    <3> SUFFICES ASSUME NEW k \in 0 .. m
                 PROVE  g[k] = IF k = 0 THEN layer ELSE LayerAbove(g[k - 1])
      OBVIOUS
    <3> HIDE DEF g
    <3>1. CASE k = m
      BY <1>4, <2>1, <2>3, <2>5, <3>1 DEF last
    <3>2. CASE k # m
      <4>1. k \in 0 .. m - 1 /\ g[k] = f[k]
        BY <2>1, <2>3, <3>2
      <4>2. k # 0 => g[k - 1] = f[k - 1]
        BY <2>1, <2>5, <4>1
      <4> QED  BY <2>4, <4>1, <4>2
    <3> QED  BY <3>1, <3>2
  <2>7. IsLayering(g, layer, m)
    BY <2>6 DEF IsLayering
  <2> QED  BY <1>2, <2>7
<1> QED  BY <1>3, <1>4

(* Layer t of a tree of pow2[k] leaves has pow2[k - t] nodes. *)
LEMMA LayerLengths ==
    ASSUME NEW layer, NEW n \in Nat, NEW f, IsLayering(f, layer, n),
           NEW k \in 0 .. n, Len(layer) = pow2[k]
    PROVE  \A t \in 0 .. k : Len(f[t]) = pow2[k - t]
<1> DEFINE S == {t \in 0 .. k : Len(f[t]) # pow2[k - t]}
<1>1. SUFFICES ASSUME S # {} PROVE FALSE
  OBVIOUS
<1>2. PICK t \in S : \A l \in S : t <= l
  <2>1. S \subseteq Nat
    OBVIOUS
  <2> HIDE DEF S
  <2> QED  BY <1>1, <2>1, LeastNatural
<1>3. \A i \in 0 .. n :
         f[i] = IF i = 0 THEN layer ELSE LayerAbove(f[i - 1])
  BY DEF IsLayering
<1>4. t \in 0 .. n /\ t # 0
  BY <1>2, <1>3
<1>5. t - 1 \in 0 .. k /\ t - 1 \notin S
  BY <1>2, <1>4
<1>6. Len(f[t - 1]) = pow2[k - (t - 1)]
  BY <1>5
<1>7. k - t \in Nat /\ (k - t) + 1 = k - (t - 1)
  BY <1>2, <1>4
<1>8. pow2[k - (t - 1)] = 2 * pow2[k - t] /\ pow2[k - t] \in Nat
  BY <1>7, PowersOfTwo, PowersArePositive
<1>9. f[t] = LayerAbove(f[t - 1])
  BY <1>3, <1>4
<1>10. Len(f[t - 1]) \div 2 = pow2[k - t]
  BY <1>6, <1>8
<1>11. Len(f[t]) = pow2[k - t]
  BY <1>8, <1>9, <1>10, LayerAboveIs
<1> QED  BY <1>2, <1>11

(* The layers above the root are empty. *)
LEMMA LayersEnd ==
    ASSUME NEW layer, NEW n \in Nat, NEW f, IsLayering(f, layer, n),
           NEW k \in 0 .. n, Len(f[k]) = 1
    PROVE  \A t \in k + 1 .. n : Len(f[t]) = 0
<1> DEFINE S == {t \in k + 1 .. n : Len(f[t]) # 0}
<1>1. SUFFICES ASSUME S # {} PROVE FALSE
  OBVIOUS
<1>2. PICK t \in S : \A l \in S : t <= l
  <2>1. S \subseteq Nat
    OBVIOUS
  <2> HIDE DEF S
  <2> QED  BY <1>1, <2>1, LeastNatural
<1>3. t \in 0 .. n /\ t # 0 /\ t - 1 \in k .. n
  BY <1>2
<1>4. f[t] = LayerAbove(f[t - 1])
  BY <1>3 DEF IsLayering
<1>5. Len(f[t - 1]) \in {0, 1}
  <2>1. t - 1 # k => t - 1 \in k + 1 .. n /\ ~(t <= t - 1)
    BY <1>3
  <2>2. t - 1 # k => t - 1 \notin S
    BY <1>2, <2>1
  <2>3. t - 1 # k => Len(f[t - 1]) = 0
    BY <2>1, <2>2
  <2> QED  BY <2>3
<1>6. Len(f[t - 1]) \div 2 = 0
  <2>1. 0 \div 2 = 0 /\ 1 \div 2 = 0
    OBVIOUS
  <2> QED  BY <1>5, <2>1, Zenon
<1>7. Len(f[t]) = 0
  BY <1>4, <1>6, LayerAboveIs
<1> QED  BY <1>2, <1>7

(* The root of a tree of pow2[k] leaves is the only node of layer k. *)
LEMMA RootIs ==
    ASSUME NEW layer, NEW k \in Nat, Len(layer) = pow2[k]
    PROVE  \E f : IsLayering(f, layer, pow2[k]) /\ MerkleLayers(layer) = f[k][1]
<1> DEFINE L == pow2[k]
           f == CHOOSE g : IsLayering(g, layer, L)
           P(t) == Len(f[t]) = 1
           depth == CHOOSE t \in 0 .. L : P(t)
<1>1. L \in Nat /\ k \in 0 .. L
  BY PowersArePositive
<1>2. IsLayering(f, layer, L)
  BY <1>1, LayeringExists
<1>3. MerkleLayers(layer) = f[depth][1]
  BY DEF MerkleLayers, IsLayering
<1> HIDE DEF f, L
<1>4. \A t \in 0 .. k : Len(f[t]) = pow2[k - t]
  BY <1>1, <1>2, LayerLengths DEF L
<1>5. Len(f[k]) = 1
  <2>1. k \in 0 .. k /\ k - k = 0
    OBVIOUS
  <2>2. Len(f[k]) = pow2[k - k]
    BY <1>4, <2>1, Zenon
  <2> QED  BY <2>1, <2>2, PowersOfTwo, Zenon
<1>6. \A t \in 0 .. L : P(t) => t = k
  <2> SUFFICES ASSUME NEW t \in 0 .. L, Len(f[t]) = 1
               PROVE  t = k
    OBVIOUS
  <2>1. t \in Nat /\ t <= L
    BY <1>1
  <2>2. ASSUME t < k PROVE FALSE
    <3>1. k - t \in Nat /\ k - t >= 1 /\ t \in 0 .. k
      BY <2>1, <2>2
    <3>2. pow2[k - t] \in Nat /\ pow2[k - t] > k - t
      BY <3>1, PowersArePositive
    <3>3. Len(f[t]) = pow2[k - t]
      BY <1>4, <3>1, Zenon
    <3>4. pow2[k - t] # 1
      BY <3>1, <3>2
    <3> QED  BY <3>3, <3>4
  <2>3. ASSUME k < t PROVE FALSE
    <3>1. t \in k + 1 .. L
      BY <1>1, <2>1, <2>3
    <3>2. Len(f[t]) = 0
      BY <1>1, <1>2, <1>5, <3>1, LayersEnd
    <3> QED  BY <3>2
  <2> QED  BY <2>1, <2>2, <2>3
<1>7. \E t \in 0 .. L : P(t)
  BY <1>1, <1>5
<1>8. depth \in 0 .. L /\ P(depth)
  BY <1>7
<1> HIDE DEF depth
<1>9. depth = k
  BY <1>6, <1>8
<1> QED  BY <1>2, <1>3, <1>9 DEF L

(* The two halves of pow2[k + 1] leaves. *)
Halves(layer, left, right, k) ==
    /\ Len(layer) = pow2[k + 1] /\ Len(left) = pow2[k] /\ Len(right) = pow2[k]
    /\ \A i \in 1 .. pow2[k] :
          layer[i] = left[i] /\ layer[pow2[k] + i] = right[i]

(* Below its root, a tree is its two halves side by side. *)
LEMMA LayersSplit ==
    ASSUME NEW k \in Nat, NEW layer, NEW left, NEW right,
           Halves(layer, left, right, k),
           NEW f, NEW g, NEW h, IsLayering(f, layer, pow2[k + 1]),
           IsLayering(g, left, pow2[k]), IsLayering(h, right, pow2[k])
    PROVE  \A t \in 0 .. k : \A i \in 1 .. pow2[k - t] :
               f[t][i] = g[t][i] /\ f[t][pow2[k - t] + i] = h[t][i]
<1> DEFINE Same(t) == \A i \in 1 .. pow2[k - t] :
               f[t][i] = g[t][i] /\ f[t][pow2[k - t] + i] = h[t][i]
           S == {t \in 0 .. k : ~Same(t)}
<1>1. SUFFICES ASSUME S # {} PROVE FALSE
  OBVIOUS
<1>2. PICK t \in S : \A l \in S : t <= l
  <2>1. S \subseteq Nat
    OBVIOUS
  <2> HIDE DEF S
  <2> QED  BY <1>1, <2>1, LeastNatural
<1>3. /\ pow2[k] \in Nat /\ pow2[k] > k
      /\ pow2[k + 1] \in Nat /\ pow2[k + 1] > k + 1
  BY PowersArePositive
<1>4. CASE t = 0
  <2>1. k - 0 = k /\ 0 \in 0 .. pow2[k] /\ 0 \in 0 .. pow2[k + 1]
    BY <1>3
  <2>2. f[0] = layer /\ g[0] = left /\ h[0] = right
    BY <2>1 DEF IsLayering
  <2>3. Same(0)
    BY <2>1, <2>2 DEF Halves
  <2> QED  BY <1>2, <1>4, <2>3
<1>5. CASE t # 0
  <2> DEFINE w == pow2[k - t]
  <2>1. /\ t \in 0 .. k /\ t - 1 \in 0 .. k /\ t - 1 \notin S /\ k - t \in Nat
        /\ k - (t - 1) = (k - t) + 1 /\ (k + 1) - (t - 1) = (k - t) + 2
        /\ (k - t) + 2 = ((k - t) + 1) + 1 /\ t - 1 \in 0 .. k + 1
    BY <1>2, <1>5
  <2>2. w \in Nat /\ pow2[k - (t - 1)] = 2 * w /\ pow2[(k + 1) - (t - 1)] = 4 * w
    <3> DEFINE d == k - t
    <3>1. d \in Nat /\ d + 1 \in Nat
      BY <2>1
    <3> HIDE DEF d
    <3>2. pow2[d] \in Nat /\ pow2[d + 1] = 2 * pow2[d]
          /\ pow2[(d + 1) + 1] = 2 * pow2[d + 1]
      BY <3>1, PowersOfTwo, PowersArePositive
    <3>3. pow2[(d + 1) + 1] = 4 * pow2[d]
      BY <3>2
    <3>4. k - (t - 1) = d + 1 /\ (k + 1) - (t - 1) = (d + 1) + 1
      BY <2>1 DEF d
    <3> QED  BY <3>2, <3>3, <3>4 DEF d
  <2>3. Same(t - 1)
    BY <2>1
  <2>4. /\ k \in 0 .. pow2[k] /\ k + 1 \in 0 .. pow2[k + 1]
        /\ t \in 0 .. pow2[k] /\ t \in 0 .. pow2[k + 1]
    BY <1>3, <2>1
  <2> HIDE DEF w, S
  <2>5. Len(f[t - 1]) = 4 * w
    <3>1. \A l \in 0 .. k + 1 : Len(f[l]) = pow2[(k + 1) - l]
      BY <1>3, <2>4, LayerLengths DEF Halves
    <3> QED  BY <2>1, <2>2, <3>1, Zenon
  <2>6. Len(g[t - 1]) = 2 * w /\ Len(h[t - 1]) = 2 * w
    <3>1. \A l \in 0 .. k : Len(g[l]) = pow2[k - l]
      BY <1>3, <2>4, LayerLengths DEF Halves
    <3>2. \A l \in 0 .. k : Len(h[l]) = pow2[k - l]
      BY <1>3, <2>4, LayerLengths DEF Halves
    <3> QED  BY <2>1, <2>2, <3>1, <3>2, Zenon
  <2>7. /\ f[t] = LayerAbove(f[t - 1]) /\ g[t] = LayerAbove(g[t - 1])
        /\ h[t] = LayerAbove(h[t - 1])
    BY <1>5, <2>4 DEF IsLayering
  <2>8. \A i \in 1 .. 2 * w : f[t][i] = sha256(f[t - 1][2 * i - 1], f[t - 1][2 * i])
    <3>1. 2 * w \in Nat /\ (4 * w) \div 2 = 2 * w
      BY <2>2
    <3>2. Len(f[t - 1]) \div 2 = 2 * w
      BY <2>5, <3>1
    <3> SUFFICES ASSUME NEW i \in 1 .. 2 * w
                 PROVE  f[t][i] = sha256(f[t - 1][2 * i - 1], f[t - 1][2 * i])
      OBVIOUS
    <3>3. i \in 1 .. Len(f[t - 1]) \div 2
      BY <3>2, Zenon
    <3> QED  BY <2>7, <3>3, LayerNode, Zenon
  <2>9. \A i \in 1 .. w :
           /\ g[t][i] = sha256(g[t - 1][2 * i - 1], g[t - 1][2 * i])
           /\ h[t][i] = sha256(h[t - 1][2 * i - 1], h[t - 1][2 * i])
    <3>1. (2 * w) \div 2 = w
      BY <2>2
    <3>2. Len(g[t - 1]) \div 2 = w /\ Len(h[t - 1]) \div 2 = w
      BY <2>6, <3>1
    <3>3. \A i \in 1 .. w :
             LayerAbove(g[t - 1])[i] = sha256(g[t - 1][2 * i - 1], g[t - 1][2 * i])
      BY <2>2, <3>2, LayerAboveIs
    <3>4. \A i \in 1 .. w :
             LayerAbove(h[t - 1])[i] = sha256(h[t - 1][2 * i - 1], h[t - 1][2 * i])
      BY <2>2, <3>2, LayerAboveIs
    <3> QED  BY <2>7, <3>3, <3>4
  <2>10. \A i \in 1 .. 2 * w :
            f[t - 1][i] = g[t - 1][i] /\ f[t - 1][2 * w + i] = h[t - 1][i]
    BY <2>2, <2>3
  <2>11. ASSUME NEW i \in 1 .. w
         PROVE  f[t][i] = g[t][i] /\ f[t][w + i] = h[t][i]
    <3>1. /\ i \in 1 .. 2 * w /\ w + i \in 1 .. 2 * w
          /\ 2 * i - 1 \in 1 .. 2 * w /\ 2 * i \in 1 .. 2 * w
          /\ 2 * (w + i) - 1 = 2 * w + (2 * i - 1)
          /\ 2 * (w + i) = 2 * w + 2 * i
      BY <2>2
    <3>2. f[t][i] = sha256(f[t - 1][2 * i - 1], f[t - 1][2 * i])
      BY <2>8, <3>1
    <3>3. f[t][w + i] = sha256(f[t - 1][2 * (w + i) - 1], f[t - 1][2 * (w + i)])
      BY <2>8, <3>1
    <3>4. /\ f[t - 1][2 * i - 1] = g[t - 1][2 * i - 1]
          /\ f[t - 1][2 * i] = g[t - 1][2 * i]
          /\ f[t - 1][2 * w + (2 * i - 1)] = h[t - 1][2 * i - 1]
          /\ f[t - 1][2 * w + 2 * i] = h[t - 1][2 * i]
      BY <2>10, <3>1
    <3> QED  BY <2>9, <3>1, <3>2, <3>3, <3>4
  <2>12. Same(t)
    BY <2>11 DEF w
  <2> QED  BY <1>2, <2>12 DEF S
<1> QED  BY <1>4, <1>5

(* The root of a tree is the hash of the roots of its halves. *)
LEMMA MerkleSplit ==
    ASSUME NEW k \in Nat, NEW layer, NEW left, NEW right,
           Halves(layer, left, right, k)
    PROVE  MerkleLayers(layer) = sha256(MerkleLayers(left), MerkleLayers(right))
<1>1. k + 1 \in Nat /\ k - k = 0 /\ (k + 1) - k = 1 /\ k \in 0 .. k
      /\ k \in 0 .. k + 1
  OBVIOUS
<1>2. PICK f : IsLayering(f, layer, pow2[k + 1])
               /\ MerkleLayers(layer) = f[k + 1][1]
  BY <1>1, RootIs DEF Halves
<1>3. PICK g : IsLayering(g, left, pow2[k]) /\ MerkleLayers(left) = g[k][1]
  BY RootIs DEF Halves
<1>4. PICK h : IsLayering(h, right, pow2[k]) /\ MerkleLayers(right) = h[k][1]
  BY RootIs DEF Halves
<1>5. \A t \in 0 .. k : \A i \in 1 .. pow2[k - t] :
         f[t][i] = g[t][i] /\ f[t][pow2[k - t] + i] = h[t][i]
  BY <1>2, <1>3, <1>4, LayersSplit
<1>6. pow2[0] = 1 /\ pow2[1] = 2 /\ 1 \in 1 .. pow2[0]
  <2>1. 0 \in Nat /\ 0 + 1 = 1 /\ 2 * 1 = 2 /\ 1 \in 1 .. 1
    OBVIOUS
  <2>2. pow2[0] = 1 /\ pow2[0 + 1] = 2 * pow2[0]
    BY <2>1, PowersOfTwo, Zenon
  <2> QED  BY <2>1, <2>2, Zenon
<1>7. f[k][1] = g[k][1] /\ f[k][2] = h[k][1]
  <2>1. f[k][1] = g[k][1] /\ f[k][pow2[0] + 1] = h[k][1]
    BY <1>1, <1>5, <1>6, Zenon
  <2> QED  BY <1>6, <2>1
<1>8. k + 1 \in 0 .. pow2[k + 1] /\ k + 1 # 0 /\ (k + 1) - 1 = k
      /\ pow2[k + 1] \in Nat
  BY PowersArePositive
<1>9. f[k + 1] = LayerAbove(f[k])
  BY <1>2, <1>8 DEF IsLayering
<1>10. Len(f[k]) \div 2 = 1
  <2>1. \A t \in 0 .. k + 1 : Len(f[t]) = pow2[(k + 1) - t]
    BY <1>2, <1>8, LayerLengths DEF Halves
  <2>2. Len(f[k]) = 2
    BY <1>1, <1>6, <2>1, Zenon
  <2> QED  BY <2>2
<1>11. f[k + 1][1] = sha256(f[k][1], f[k][2])
  <2>1. 1 \in 1 .. 1 /\ 2 * 1 - 1 = 1 /\ 2 * 1 = 2
    OBVIOUS
  <2>2. 1 \in 1 .. Len(f[k]) \div 2
    BY <1>10, <2>1, Zenon
  <2>3. LayerAbove(f[k])[1] = sha256(f[k][2 * 1 - 1], f[k][2 * 1])
    BY <2>2, LayerNode, Zenon
  <2> QED  BY <1>9, <2>1, <2>3, Zenon
<1> QED  BY <1>2, <1>3, <1>4, <1>7, <1>11

-----------------------------------------------------------------------------
(* Segments: what a node of the map-reduce says about the headers at the   *)
(* w heights from trusted + lo + 1 on, of which those up to target count.  *)

Enabled(trusted, target, lo, w) ==
    IF target <= trusted + lo THEN 0
    ELSE IF target - trusted - lo < w THEN target - trusted - lo ELSE w

Leaves(Root, H, n, w) == [i \in 1 .. w |-> IF i <= n THEN Root[H[i]] ELSE ZeroRoot]

Linked(trusted, H, lo, n) ==
    /\ \A i \in 1 .. n : Number[H[i]] = trusted + lo + i
    /\ \A i \in 2 .. n : ParentHash[H[i]] = H[i - 1]

SegmentEnds(node, trusted, H, lo, n) ==
    /\ node.num_blocks = n
    /\ n = 0 => node.end_header_hash = Zero /\ node.end_block = 0
    /\ n # 0 => /\ node.start_block = trusted + lo + 1
                /\ node.start_parent = ParentHash[H[1]]
                /\ node.end_block = trusted + lo + n
                /\ node.end_header_hash = H[n]

SegmentRoots(node, H, n, w) ==
    /\ node.state_merkle_root = MerkleLayers(Leaves(StateRoot, H, n, w))
    /\ node.data_merkle_root = MerkleLayers(Leaves(DataRoot, H, n, w))

IsSegment(node, trusted, target, H, lo, w) ==
    LET n == Enabled(trusted, target, lo, w)
    IN  /\ Linked(trusted, H, lo, n)
        /\ SegmentEnds(node, trusted, H, lo, n)
        /\ SegmentRoots(node, H, n, w)

Segment(node, trusted, target, lo, w) ==
    \E H \in [1 .. w -> Headers] : IsSegment(node, trusted, target, H, lo, w)

LEMMA EnabledIs ==
    ASSUME NEW trusted \in Nat, NEW target \in Nat, NEW lo \in Nat, NEW w \in Nat
    PROVE  Enabled(trusted, target, lo, w) \in 0 .. w
BY DEF Enabled

LEMMA RootOfLeaves ==
    ASSUME NEW w \in Nat, NEW n, NEW Root, NEW H
    PROVE  get_root_from_hashed_leaves([i \in 1 .. w |-> Root[H[i]]], n)
              = MerkleLayers(Leaves(Root, H, n, w))
<1> DEFINE leaves == [i \in 1 .. w |-> Root[H[i]]]
<1>1. Len(leaves) = w
  <2>1. DOMAIN leaves = 1 .. w /\ leaves = [i \in DOMAIN leaves |-> leaves[i]]
    OBVIOUS
  <2> HIDE DEF leaves
  <2> QED  BY <2>1, LengthIs
<1>2. \A i \in 1 .. w : leaves[i] = Root[H[i]]
  OBVIOUS
<1> HIDE DEF leaves
<1>3. [i \in 1 .. Len(leaves) |-> IF i <= n THEN leaves[i] ELSE ZeroRoot]
         = Leaves(Root, H, n, w)
  BY <1>1, <1>2 DEF Leaves
<1>4. get_root_from_hashed_leaves(leaves, n) = MerkleLayers(Leaves(Root, H, n, w))
  BY <1>3 DEF get_root_from_hashed_leaves
<1> QED  BY <1>4 DEF leaves

(* The constants of the circuit. *)
LEMMA CircuitConstants ==
    /\ \E k \in Nat : HEADERS_PER_MAP = pow2[k]
    /\ \E k \in Nat : num_map_jobs = pow2[k]
    /\ HEADERS_PER_MAP \in Nat /\ HEADERS_PER_MAP > 0
    /\ num_map_jobs \in Nat /\ num_map_jobs > 0
<1>1. PICK k \in Nat : HEADERS_PER_MAP = pow2[k]
  BY HeadersPerMapAssumption
<1>2. HEADERS_PER_MAP \in Nat /\ HEADERS_PER_MAP > 0
  BY <1>1, PowersArePositive
<1> DEFINE m == MAX_NUM_HEADERS + HEADERS_PER_MAP - 1
<1>3. m \in Nat
  BY <1>2, MaxNumHeadersAssumption
<1> HIDE DEF m
<1>4. m \div HEADERS_PER_MAP \in Nat
  <2>1. \A x \in Nat : \A y \in Nat \ {0} : x \div y \in Nat
    OBVIOUS
  <2>2. HEADERS_PER_MAP \in Nat \ {0}
    BY <1>2
  <2> QED  BY <1>3, <2>1, <2>2
<1>5. JobsNeeded \in Nat
  BY <1>4 DEF JobsNeeded, m
<1>6. PICK l \in Nat : num_map_jobs = pow2[l]
  BY <1>5, PowerOfTwoIs DEF num_map_jobs
<1>7. num_map_jobs \in Nat /\ num_map_jobs > 0
  BY <1>6, PowersArePositive
<1> QED  BY <1>1, <1>2, <1>6, <1>7

-----------------------------------------------------------------------------
(* Map: the headers of a job that are not padding are those up to the      *)
(* target, each the child of the one before it.                            *)
LEMMA EnabledHeaders ==
    ASSUME trusted_block \in Nat, target_block \in Nat, NEW job, NEW headers,
           NEW lo \in Nat, BatchStart(job) = trusted_block + lo + 1,
           headers \in [1 .. HEADERS_PER_MAP -> Headers],
           MapAssertions(job, headers)
    PROVE  LET n == Enabled(trusted_block, target_block, lo, HEADERS_PER_MAP)
           IN  \A i \in 1 .. HEADERS_PER_MAP :
                  /\ i <= n => /\ ~Noop(job, headers, i)
                               /\ Number[headers[i]] = trusted_block + lo + i
                  /\ n < i => Noop(job, headers, i)
<1> DEFINE w == HEADERS_PER_MAP
           n == Enabled(trusted_block, target_block, lo, w)
           Good(i) == /\ ~Noop(job, headers, i)
                      /\ Number[headers[i]] = trusted_block + lo + i
           S == {i \in 1 .. n : ~Good(i)}
<1>1. w \in Nat /\ w > 0 /\ n \in 0 .. w
  BY CircuitConstants, EnabledIs
<1>2. BatchStart(job) = trusted_block + lo + 1
  OBVIOUS
<1>3. is_batch_disabled(job) <=> n = 0
  BY <1>1, <1>2 DEF is_batch_disabled, Enabled
<1>4. \A i \in 1 .. w : Noop(job, headers, i) <=>
         is_batch_disabled(job) \/ \E j \in 1 .. i - 1 : Number[headers[j]] = target_block
  BY DEF Noop
<1>5. n # 0 => Number[headers[1]] = trusted_block + lo + 1
  BY <1>2, <1>3 DEF MapAssertions
<1>6. n # 0 => /\ trusted_block + lo + n <= target_block
               /\ n < w => trusted_block + lo + n = target_block
  BY <1>1 DEF Enabled
<1>7. \A i \in 2 .. w : ~Noop(job, headers, i) =>
         Number[headers[i]] = Number[headers[i - 1]] + 1
  BY DEF MapAssertions, BatchLinked
<1> HIDE DEF n
<1>8. S = {}
  <2>1. SUFFICES ASSUME S # {} PROVE FALSE
    OBVIOUS
  <2>2. PICK i \in S : \A l \in S : i <= l
    <3>1. S \subseteq Nat
      BY <1>1
    <3> HIDE DEF S
    <3> QED  BY <2>1, <3>1, LeastNatural
  <2>3. i \in 1 .. n /\ i \in 1 .. w /\ n # 0
    BY <1>1
  <2>4. CASE i = 1
    <3>1. ~Noop(job, headers, 1)
      BY <1>3, <1>4, <2>3, <2>4
    <3> QED  BY <1>5, <2>2, <2>3, <2>4, <3>1
  <2>5. CASE i # 1
    <3>1. i - 1 \in 1 .. n /\ i - 1 \in 1 .. w /\ ~(i <= i - 1) /\ i \in 2 .. w
      BY <1>1, <2>3, <2>5
    <3>2. i - 1 \notin S
      BY <2>2, <3>1, Zenon
    <3>3. Good(i - 1)
      BY <3>1, <3>2
    <3>4. ~Noop(job, headers, i)
      <4>1. SUFFICES ASSUME NEW j \in 1 .. i - 1, Number[headers[j]] = target_block
                     PROVE  FALSE
        BY <1>3, <1>4, <2>3
      <4>2. CASE j = i - 1
        <5>1. target_block = trusted_block + lo + (i - 1)
          BY <3>3, <4>1, <4>2
        <5>2. /\ i \in Nat /\ n \in Nat /\ i <= n
              /\ trusted_block + lo + n <= target_block
          BY <1>1, <1>6, <2>3
        <5> HIDE DEF S
        <5> QED  BY <5>1, <5>2
      <4>3. CASE j # i - 1
        <5>1. j \in 1 .. (i - 1) - 1
          BY <3>1, <4>3
        <5> QED  BY <1>4, <3>1, <3>3, <4>1, <5>1
      <4> QED  BY <4>2, <4>3
    <3>5. Number[headers[i]] = trusted_block + lo + i
      BY <1>1, <1>7, <3>1, <3>3, <3>4
    <3> QED  BY <2>2, <3>4, <3>5
  <2> QED  BY <2>4, <2>5
<1>9. ASSUME NEW i \in 1 .. w, n < i PROVE Noop(job, headers, i)
  <2>1. CASE n = 0
    BY <1>3, <1>4, <2>1
  <2>2. CASE n # 0
    <3>1. n \in 1 .. n /\ n \in 1 .. i - 1 /\ n < w
      BY <1>1, <1>9, <2>2
    <3>2. Number[headers[n]] = trusted_block + lo + n
      BY <1>8, <3>1
    <3>3. trusted_block + lo + n = target_block
      BY <1>6, <2>2, <3>1, Zenon
    <3>4. Number[headers[n]] = target_block
      BY <3>2, <3>3
    <3> QED  BY <1>4, <3>1, <3>4
  <2> QED  BY <2>1, <2>2
<1>10. ASSUME NEW i \in 1 .. w, i <= n PROVE Good(i)
  BY <1>1, <1>8, <1>10
<1> QED  BY <1>9, <1>10 DEF n

LEMMA NumHeadersIs ==
    ASSUME NEW job, NEW headers, NEW n \in 0 .. HEADERS_PER_MAP,
           \A i \in 1 .. HEADERS_PER_MAP : Noop(job, headers, i) <=> n < i
    PROVE  NumHeaders(job, headers) = n
<1>1. HEADERS_PER_MAP \in Nat /\ n \in Nat
  BY CircuitConstants
<1>2. {i \in 1 .. HEADERS_PER_MAP : ~Noop(job, headers, i)} = 1 .. n
  BY <1>1
<1>3. Cardinality(1 .. n) = n
  BY <1>1, FS_Interval
<1> QED  BY <1>2, <1>3 DEF NumHeaders

(* A map job that passes its assertions is a segment. *)
LEMMA MapSegment ==
    ASSUME trusted_block \in Nat, target_block \in Nat, NEW job, NEW headers,
           NEW lo \in Nat, BatchStart(job) = trusted_block + lo + 1,
           headers \in [1 .. HEADERS_PER_MAP -> Headers],
           MapAssertions(job, headers)
    PROVE  Segment(MapOutput(job, headers), trusted_block, target_block,
                   lo, HEADERS_PER_MAP)
<1> DEFINE w == HEADERS_PER_MAP
           n == Enabled(trusted_block, target_block, lo, w)
           node == MapOutput(job, headers)
<1>1. w \in Nat /\ w > 0 /\ n \in 0 .. w
  BY CircuitConstants, EnabledIs
<1>2. \A i \in 1 .. w :
         /\ i <= n => /\ ~Noop(job, headers, i)
                      /\ Number[headers[i]] = trusted_block + lo + i
         /\ n < i => Noop(job, headers, i)
  BY EnabledHeaders
<1> HIDE DEF n
<1>3. NumHeaders(job, headers) = n
  <2>1. \A i \in 1 .. w : Noop(job, headers, i) <=> n < i
    BY <1>1, <1>2
  <2> QED  BY <1>1, <2>1, NumHeadersIs
<1>4. /\ node.num_blocks = n
      /\ node.start_block = Number[headers[1]]
      /\ node.start_parent = ParentHash[headers[1]]
      /\ node.end_block = EndBlock(job, headers)
      /\ node.end_header_hash = IF n = 0 THEN Zero ELSE headers[n]
  BY <1>3 DEF MapOutput
<1>5. EndBlock(job, headers) = IF n = 0 THEN 0 ELSE Number[headers[n]]
  BY <1>3 DEF EndBlock
<1>6. SegmentRoots(node, headers, n, w)
  <2>1. nb_enabled_leaves(job, headers) = n
    BY <1>3 DEF nb_enabled_leaves
  <2>2. /\ node.state_merkle_root = get_root_from_hashed_leaves(
              [i \in 1 .. w |-> StateRoot[headers[i]]], n)
        /\ node.data_merkle_root = get_root_from_hashed_leaves(
              [i \in 1 .. w |-> DataRoot[headers[i]]], n)
    BY <2>1 DEF MapOutput
  <2>3. /\ get_root_from_hashed_leaves([i \in 1 .. w |-> StateRoot[headers[i]]], n)
              = MerkleLayers(Leaves(StateRoot, headers, n, w))
        /\ get_root_from_hashed_leaves([i \in 1 .. w |-> DataRoot[headers[i]]], n)
              = MerkleLayers(Leaves(DataRoot, headers, n, w))
    BY <1>1, RootOfLeaves
  <2> QED  BY <2>2, <2>3 DEF SegmentRoots
<1> HIDE DEF node
<1>7. Linked(trusted_block, headers, lo, n)
  <2>1. \A i \in 2 .. w : ~Noop(job, headers, i) =>
           ParentHash[headers[i]] = headers[i - 1]
    BY DEF MapAssertions, BatchLinked
  <2> QED  BY <1>1, <1>2, <2>1 DEF Linked
<1>8. SegmentEnds(node, trusted_block, headers, lo, n)
  <2>1. n # 0 => 1 \in 1 .. w /\ 1 <= n /\ n \in 1 .. w
    BY <1>1
  <2>2. n # 0 => /\ Number[headers[1]] = trusted_block + lo + 1
                 /\ Number[headers[n]] = trusted_block + lo + n
    BY <1>2, <2>1
  <2> QED  BY <1>4, <1>5, <2>2 DEF SegmentEnds
<1> QED  BY <1>6, <1>7, <1>8 DEF Segment, IsSegment, n, node

-----------------------------------------------------------------------------
(* Reduce: two segments side by side that are linked are one segment.      *)

Joined(left, right, w) ==
    [i \in 1 .. 2 * w |-> IF i <= w THEN left[i] ELSE right[i - w]]

LEMMA JoinedIs ==
    ASSUME NEW w \in Nat, NEW left \in [1 .. w -> Headers],
           NEW right \in [1 .. w -> Headers]
    PROVE  /\ Joined(left, right, w) \in [1 .. 2 * w -> Headers]
           /\ \A i \in 1 .. w : /\ Joined(left, right, w)[i] = left[i]
                               /\ Joined(left, right, w)[w + i] = right[i]
<1> DEFINE H == Joined(left, right, w)
<1>1. \A i \in 1 .. 2 * w : H[i] = IF i <= w THEN left[i] ELSE right[i - w]
  BY DEF Joined
<1>2. \A i \in 1 .. 2 * w : H[i] \in Headers
  <2> SUFFICES ASSUME NEW i \in 1 .. 2 * w PROVE H[i] \in Headers
    OBVIOUS
  <2> HIDE DEF H
  <2>1. CASE i <= w
    <3>1. i \in 1 .. w
      BY <2>1
    <3> QED  BY <1>1, <2>1, <3>1
  <2>2. CASE ~(i <= w)
    <3>1. i - w \in 1 .. w
      BY <2>2
    <3> QED  BY <1>1, <2>2, <3>1
  <2> QED  BY <2>1, <2>2
<1>3. H \in [1 .. 2 * w -> Headers]
  <2>1. H = [i \in 1 .. 2 * w |-> H[i]]
    BY DEF Joined
  <2> HIDE DEF H
  <2> QED  BY <1>2, <2>1
<1>4. ASSUME NEW i \in 1 .. w PROVE H[i] = left[i] /\ H[w + i] = right[i]
  <2>1. i \in 1 .. 2 * w /\ w + i \in 1 .. 2 * w /\ ~(w + i <= w) /\ (w + i) - w = i
    OBVIOUS
  <2> HIDE DEF H
  <2> QED  BY <1>1, <2>1
<1> QED  BY <1>3, <1>4

IsPower(w) == \E k \in Nat : w = pow2[k]

(* The w heights from lo on and the w from mid on are double from lo on.   *)
Adjacent(lo, w, mid, double) ==
    mid \in Nat /\ mid = lo + w /\ double \in Nat /\ double = 2 * w

LEMMA EnabledSplit ==
    ASSUME NEW trusted \in Nat, NEW target \in Nat, NEW lo \in Nat, NEW w \in Nat,
           NEW mid, NEW double, Adjacent(lo, w, mid, double)
    PROVE  /\ Enabled(trusted, target, lo, double)
                 = Enabled(trusted, target, lo, w) + Enabled(trusted, target, mid, w)
           /\ Enabled(trusted, target, mid, w) # 0 =>
                 Enabled(trusted, target, lo, w) = w
BY DEF Enabled, Adjacent

(* The leaves that count of two halves are a prefix of all. *)
Prefix(l, r, n, w) ==
    /\ l \in 0 .. w /\ r \in 0 .. w /\ n = l + r
    /\ r # 0 => l = w

LEMMA LeavesHalves ==
    ASSUME NEW w \in Nat, IsPower(w), NEW Root,
           NEW left \in [1 .. w -> Headers], NEW right \in [1 .. w -> Headers],
           NEW l, NEW r, NEW n, Prefix(l, r, n, w),
           NEW lo, NEW mid, NEW double, Adjacent(lo, w, mid, double)
    PROVE  MerkleLayers(Leaves(Root, Joined(left, right, w), n, double))
              = sha256(MerkleLayers(Leaves(Root, left, l, w)),
                       MerkleLayers(Leaves(Root, right, r, w)))
<1> DEFINE H == Joined(left, right, w)
           all == Leaves(Root, H, n, double)
           first == Leaves(Root, left, l, w)
           second == Leaves(Root, right, r, w)
<1>1. /\ l \in 0 .. w /\ r \in 0 .. w /\ n = l + r /\ double = 2 * w
      /\ r # 0 => l = w
  BY DEF Prefix, Adjacent
<1>2. \A i \in 1 .. w : H[i] = left[i] /\ H[w + i] = right[i]
  BY JoinedIs
<1> HIDE DEF H
<1>3. /\ \A i \in 1 .. double : all[i] = IF i <= n THEN Root[H[i]] ELSE ZeroRoot
      /\ \A i \in 1 .. w : first[i] = IF i <= l THEN Root[left[i]] ELSE ZeroRoot
      /\ \A i \in 1 .. w : second[i] = IF i <= r THEN Root[right[i]] ELSE ZeroRoot
  BY DEF Leaves
<1>4. Len(all) = double
  <2>1. DOMAIN all = 1 .. double /\ all = [i \in DOMAIN all |-> all[i]]
    BY DEF Leaves
  <2>2. double \in Nat
    BY DEF Adjacent
  <2> HIDE DEF all
  <2> QED  BY <2>1, <2>2, LengthIs
<1>5. Len(first) = w
  <2>1. DOMAIN first = 1 .. w /\ first = [i \in DOMAIN first |-> first[i]]
    BY DEF Leaves
  <2> HIDE DEF first
  <2> QED  BY <2>1, LengthIs
<1>6. Len(second) = w
  <2>1. DOMAIN second = 1 .. w /\ second = [i \in DOMAIN second |-> second[i]]
    BY DEF Leaves
  <2> HIDE DEF second
  <2> QED  BY <2>1, LengthIs
<1> HIDE DEF all, first, second
<1>7. ASSUME NEW i \in 1 .. w PROVE all[i] = first[i] /\ all[w + i] = second[i]
  <2>1. i \in 1 .. double /\ w + i \in 1 .. double
    BY <1>1
  <2>2. (i <= n <=> i <= l) /\ (w + i <= n <=> i <= r)
    BY <1>1
  <2>3. all[i] = IF i <= l THEN Root[left[i]] ELSE ZeroRoot
    BY <1>2, <1>3, <2>1, <2>2
  <2>4. all[w + i] = IF i <= r THEN Root[right[i]] ELSE ZeroRoot
    BY <1>2, <1>3, <2>1, <2>2
  <2> QED  BY <1>3, <2>3, <2>4
<1>8. PICK k \in Nat : w = pow2[k]
  BY DEF IsPower
<1>9. Halves(all, first, second, k)
  <2>1. pow2[k + 1] = double
    BY <1>1, <1>8, PowersOfTwo
  <2> QED  BY <1>4, <1>5, <1>6, <1>7, <1>8, <2>1 DEF Halves
<1>20. MerkleLayers(all) = sha256(MerkleLayers(first), MerkleLayers(second))
  BY <1>9, MerkleSplit
<1> QED  BY <1>20 DEF all, first, second, H

LEMMA ReduceSegment ==
    ASSUME NEW trusted \in Nat, NEW target \in Nat, NEW lo \in Nat,
           NEW w \in Nat, IsPower(w), NEW left, NEW right,
           NEW mid, NEW double, Adjacent(lo, w, mid, double),
           Segment(left, trusted, target, lo, w),
           Segment(right, trusted, target, mid, w),
           SubchainsLinked(left, right)
    PROVE  Segment(ReduceOutput(left, right), trusted, target, lo, double)
<1> DEFINE l == Enabled(trusted, target, lo, w)
           r == Enabled(trusted, target, mid, w)
           n == Enabled(trusted, target, lo, double)
           node == ReduceOutput(left, right)
<1>1. PICK HL \in [1 .. w -> Headers] : IsSegment(left, trusted, target, HL, lo, w)
  BY DEF Segment
<1>2. PICK HR \in [1 .. w -> Headers] : IsSegment(right, trusted, target, HR, mid, w)
  BY DEF Segment
<1> DEFINE H == Joined(HL, HR, w)
<1>3. /\ Linked(trusted, HL, lo, l) /\ SegmentEnds(left, trusted, HL, lo, l)
      /\ SegmentRoots(left, HL, l, w)
  BY <1>1 DEF IsSegment
<1>4. /\ Linked(trusted, HR, mid, r) /\ SegmentEnds(right, trusted, HR, mid, r)
      /\ SegmentRoots(right, HR, r, w)
  BY <1>2 DEF IsSegment
<1>5. mid \in Nat /\ mid = lo + w /\ double \in Nat /\ double = 2 * w
  BY DEF Adjacent
<1>6. Prefix(l, r, n, w)
  <2>1. l \in 0 .. w /\ r \in 0 .. w
    BY <1>5, EnabledIs
  <2>2. n = l + r /\ (r # 0 => l = w)
    BY EnabledSplit
  <2> HIDE DEF l, r, n
  <2> QED  BY <2>1, <2>2 DEF Prefix
<1> HIDE DEF l, r, n
<1>7. SegmentRoots(node, H, n, double)
  <2>1. /\ node.state_merkle_root
              = sha256(left.state_merkle_root, right.state_merkle_root)
        /\ node.data_merkle_root
              = sha256(left.data_merkle_root, right.data_merkle_root)
    BY DEF ReduceOutput
  <2>2. MerkleLayers(Leaves(StateRoot, H, n, double))
           = sha256(MerkleLayers(Leaves(StateRoot, HL, l, w)),
                    MerkleLayers(Leaves(StateRoot, HR, r, w)))
    BY <1>6, LeavesHalves
  <2>3. MerkleLayers(Leaves(DataRoot, H, n, double))
           = sha256(MerkleLayers(Leaves(DataRoot, HL, l, w)),
                    MerkleLayers(Leaves(DataRoot, HR, r, w)))
    BY <1>6, LeavesHalves
  <2> QED  BY <1>3, <1>4, <2>1, <2>2, <2>3 DEF SegmentRoots
<1>8. Joined(HL, HR, w) \in [1 .. 2 * w -> Headers]
      /\ \A i \in 1 .. w : H[i] = HL[i] /\ H[w + i] = HR[i]
  BY JoinedIs
<1>9. H \in [1 .. double -> Headers]
  BY <1>5, <1>8
<1> HIDE DEF H, node
<1>10. /\ l \in Nat /\ l <= w /\ r \in Nat /\ r <= w /\ n \in Nat /\ n = l + r
       /\ r # 0 => l = w /\ l # 0
  BY <1>6 DEF Prefix
<1>11. r # 0 => HL[w] = ParentHash[HR[1]]
  <2> SUFFICES ASSUME r # 0 PROVE HL[w] = ParentHash[HR[1]]
    OBVIOUS
  <2>1. l = w /\ l # 0
    BY <1>10
  <2>2. left.end_header_hash = HL[w]
    BY <1>3, <2>1 DEF SegmentEnds
  <2>3. right.num_blocks = r /\ right.start_parent = ParentHash[HR[1]]
    BY <1>4 DEF SegmentEnds
  <2> QED  BY <2>2, <2>3 DEF SubchainsLinked
<1>12. Linked(trusted, H, lo, n)
  <2>1. ASSUME NEW i \in 1 .. n PROVE Number[H[i]] = trusted + lo + i
    <3>1. CASE i <= w
      <4>1. i \in 1 .. l /\ i \in 1 .. w
        BY <1>10, <3>1
      <4> QED  BY <1>3, <1>8, <4>1 DEF Linked
    <3>2. CASE ~(i <= w)
      <4>1. r # 0 /\ i \in Nat
        BY <1>10, <3>2
      <4>2. l = w
        BY <1>10, <4>1
      <4>3. PICK j \in 1 .. w : j \in 1 .. r /\ i = w + j
        <5>1. i - w \in 1 .. w /\ i - w \in 1 .. r /\ i = w + (i - w)
          BY <1>10, <3>2, <4>1, <4>2
        <5> QED  BY <5>1
      <4>4. Number[HR[j]] = trusted + mid + j
        BY <1>4, <4>3 DEF Linked
      <4>5. H[w + j] = HR[j]
        BY <1>8, <4>3
      <4>6. trusted + mid + j = trusted + lo + (w + j)
        BY <1>5
      <4> QED  BY <4>3, <4>4, <4>5, <4>6
    <3> QED  BY <3>1, <3>2
  <2>2. ASSUME NEW i \in 2 .. n PROVE ParentHash[H[i]] = H[i - 1]
    <3>1. i \in Nat /\ i >= 2 /\ i <= n
      BY <1>10
    <3>2. CASE i <= w
      <4>1. i \in 2 .. l /\ i \in 1 .. w /\ i - 1 \in 1 .. w
        BY <1>10, <3>1, <3>2
      <4> QED  BY <1>3, <1>8, <4>1 DEF Linked
    <3>3. CASE i = w + 1
      <4>1. r # 0
        BY <1>10, <3>1, <3>3
      <4>2. l = w /\ w # 0 /\ i - 1 = w
        BY <1>10, <3>3, <4>1
      <4>3. 1 \in 1 .. w /\ w \in 1 .. w
        BY <4>2
      <4>4. H[w + 1] = HR[1] /\ H[w] = HL[w]
        BY <1>8, <4>3
      <4> QED  BY <1>11, <3>3, <4>1, <4>2, <4>4
    <3>4. CASE w + 1 < i
      <4>1. r # 0
        BY <1>10, <3>1, <3>4
      <4>2. l = w
        BY <1>10, <4>1
      <4>3. PICK j \in 1 .. w : /\ j \in 2 .. r /\ j - 1 \in 1 .. w
                               /\ i = w + j /\ i - 1 = w + (j - 1)
        <5>1. i - w \in 1 .. w /\ i - w \in 2 .. r /\ (i - w) - 1 \in 1 .. w
          BY <1>10, <3>1, <3>4, <4>2
        <5>2. i = w + (i - w) /\ i - 1 = w + ((i - w) - 1)
          BY <3>1
        <5> QED  BY <5>1, <5>2
      <4>4. ParentHash[HR[j]] = HR[j - 1]
        BY <1>4, <4>3 DEF Linked
      <4>5. H[w + j] = HR[j] /\ H[w + (j - 1)] = HR[j - 1]
        BY <1>8, <4>3
      <4> QED  BY <4>3, <4>4, <4>5
    <3> QED  BY <3>1, <3>2, <3>3, <3>4
  <2> QED  BY <2>1, <2>2 DEF Linked
<1>13. SegmentEnds(node, trusted, H, lo, n)
  <2>1. node.num_blocks = n
    BY <1>3, <1>4, <1>10 DEF node, ReduceOutput, SegmentEnds
  <2>2. /\ node.start_block = left.start_block
        /\ node.start_parent = left.start_parent
    BY DEF node, ReduceOutput
  <2>3. CASE r = 0
    <3>1. node.end_block = left.end_block
          /\ node.end_header_hash = left.end_header_hash
      BY <1>4, <2>3 DEF node, ReduceOutput, SegmentEnds
    <3>2. n = l /\ (l # 0 => 1 \in 1 .. w /\ l \in 1 .. w)
      BY <1>10, <2>3
    <3>3. l # 0 => H[1] = HL[1] /\ H[l] = HL[l]
      BY <1>8, <3>2
    <3> QED  BY <1>3, <2>1, <2>2, <3>1, <3>2, <3>3 DEF SegmentEnds
  <2>4. CASE r # 0
    <3>1. node.end_block = right.end_block
          /\ node.end_header_hash = right.end_header_hash
      BY <1>4, <2>4 DEF node, ReduceOutput, SegmentEnds
    <3>2. l = w /\ l # 0
      BY <1>10, <2>4
    <3>3. 1 \in 1 .. w /\ r \in 1 .. w /\ n = w + r /\ n # 0
      BY <1>10, <2>4, <3>2
    <3>4. H[1] = HL[1] /\ H[w + r] = HR[r]
      BY <1>8, <3>3
    <3>5. trusted + mid + r = trusted + lo + n
      BY <1>5, <1>10, <3>3
    <3>6. right.end_block = trusted + mid + r /\ right.end_header_hash = HR[r]
      BY <1>4, <2>4 DEF SegmentEnds
    <3>7. left.start_block = trusted + lo + 1
          /\ left.start_parent = ParentHash[HL[1]]
      BY <1>3, <3>2 DEF SegmentEnds
    <3> QED  BY <2>1, <2>2, <3>1, <3>3, <3>4, <3>5, <3>6, <3>7 DEF SegmentEnds
  <2> QED  BY <2>3, <2>4
<1> QED  BY <1>7, <1>9, <1>12, <1>13 DEF Segment, IsSegment, n, node, H

-----------------------------------------------------------------------------
(* The way back from the output's header. *)

IsWay(f) ==
    f = [i \in 0 .. Length |->
            IF i = 0 THEN output.target_header_hash
            ELSE IF f[i - 1] \in Headers THEN ParentHash[f[i - 1]] ELSE Zero]

WayOf(H) ==
    [i \in 0 .. Length |-> IF i = Length THEN ParentHash[H[1]] ELSE H[Length - i]]

LEMMA WayOfIsWay ==
    ASSUME Length \in Nat, Length > 0, NEW H,
           \A i \in 1 .. Length : H[i] \in Headers,
           \A i \in 2 .. Length : ParentHash[H[i]] = H[i - 1],
           output.target_header_hash = H[Length]
    PROVE  IsWay(WayOf(H))
<1> DEFINE n == Length
           g == WayOf(H)
<1>1. \A i \in 0 .. n : g[i] = IF i = n THEN ParentHash[H[1]] ELSE H[n - i]
  BY DEF WayOf
<1>2. g = [i \in 0 .. n |-> g[i]]
  BY DEF WayOf
<1> HIDE DEF g, n
<1>3. n \in Nat /\ n > 0
  BY DEF n
<1>4. /\ \A i \in 1 .. n : H[i] \in Headers
      /\ \A i \in 2 .. n : ParentHash[H[i]] = H[i - 1]
      /\ output.target_header_hash = H[n]
  BY DEF n
<1>5. ASSUME NEW i \in 0 .. n
      PROVE  g[i] = IF i = 0 THEN output.target_header_hash
                    ELSE IF g[i - 1] \in Headers THEN ParentHash[g[i - 1]] ELSE Zero
  <2>1. CASE i = 0
    <3>1. n - 0 = n /\ 0 # n /\ 0 \in 0 .. n
      BY <1>3
    <3> QED  BY <1>1, <1>4, <2>1, <3>1
  <2>2. CASE i # 0
    <3>1. /\ i - 1 \in 0 .. n /\ i - 1 # n /\ n - (i - 1) \in 1 .. n
      BY <1>3, <2>2
    <3>2. g[i - 1] = H[n - (i - 1)] /\ g[i - 1] \in Headers
      BY <1>1, <1>4, <3>1
    <3>3. CASE i = n
      <4>1. n - (i - 1) = 1
        BY <1>3, <3>3
      <4> QED  BY <1>1, <2>2, <3>2, <3>3, <4>1
    <3>4. CASE i # n
      <4>1. n - (i - 1) \in 2 .. n /\ (n - (i - 1)) - 1 = n - i
        BY <1>3, <2>2, <3>4
      <4>2. ParentHash[H[n - (i - 1)]] = H[n - i]
        BY <1>4, <4>1
      <4> QED  BY <1>1, <2>2, <3>2, <3>4, <4>2
    <3> QED  BY <3>3, <3>4
  <2> QED  BY <2>1, <2>2
<1> QED  BY <1>2, <1>5 DEF IsWay, n, g

LEMMA WayUnique ==
    ASSUME Length \in Nat, NEW f, NEW g, IsWay(f), IsWay(g)
    PROVE  f = g
<1> DEFINE n == Length
           S == {i \in 0 .. n : f[i] # g[i]}
<1>1. n \in Nat
  OBVIOUS
<1>2. \A i \in 0 .. n :
         /\ f[i] = IF i = 0 THEN output.target_header_hash
                   ELSE IF f[i - 1] \in Headers THEN ParentHash[f[i - 1]] ELSE Zero
         /\ g[i] = IF i = 0 THEN output.target_header_hash
                   ELSE IF g[i - 1] \in Headers THEN ParentHash[g[i - 1]] ELSE Zero
  BY DEF IsWay
<1>3. f = [i \in 0 .. n |-> f[i]] /\ g = [i \in 0 .. n |-> g[i]]
  BY DEF IsWay
<1> HIDE DEF n
<1>4. S = {}
  <2>1. SUFFICES ASSUME S # {} PROVE FALSE
    OBVIOUS
  <2>2. PICK i \in S : \A j \in S : i <= j
    <3>1. S \subseteq Nat
      BY <1>1
    <3> HIDE DEF S
    <3> QED  BY <2>1, <3>1, LeastNatural
  <2>3. i # 0
    BY <1>2, <2>2
  <2>4. i - 1 \in 0 .. n /\ ~(i <= i - 1)
    BY <1>1, <2>3
  <2>5. i - 1 \notin S
    BY <2>2, <2>4, Zenon
  <2>6. f[i - 1] = g[i - 1]
    BY <2>4, <2>5
  <2> QED  BY <1>2, <2>2, <2>3, <2>6
<1> QED  BY <1>3, <1>4

LEMMA AncestorsAre ==
    ASSUME Length \in Nat, Length > 0, NEW H,
           \A i \in 1 .. Length : H[i] \in Headers,
           \A i \in 2 .. Length : ParentHash[H[i]] = H[i - 1],
           output.target_header_hash = H[Length]
    PROVE  Ancestors = WayOf(H)
<1>1. IsWay(WayOf(H))
  BY WayOfIsWay
<1>2. Ancestors = CHOOSE f : IsWay(f)
  BY DEF Ancestors, IsWay
<1>3. IsWay(Ancestors)
  BY <1>1, <1>2
<1> QED  BY <1>1, <1>3, WayUnique

(* A single segment that is grounded in the inputs is what SubchainSound   *)
(* says of the output.                                                     *)
SubchainBody(w) ==
    IF trusted_block < target_block
    THEN LET way == Ancestors
             roots(Root) == [i \in 1 .. Length |-> Root[way[Length - i]]]
             tree(Root) == MerkleLayers(Padded(roots(Root), w))
         IN  /\ way[Length] = HeaderHash[trusted_block]
             /\ \A i \in 0 .. Length - 1 :
                   way[i] \in Headers /\ Number[way[i]] = target_block - i
             /\ output.state_root_merkle_root = tree(StateRoot)
             /\ output.data_root_merkle_root = tree(DataRoot)
    ELSE output.target_header_hash = Zero

LEMMA PaddedLeaves ==
    ASSUME Length \in Nat, Length > 0, NEW H, NEW way, way = WayOf(H), NEW Root, NEW w
    PROVE  Padded([i \in 1 .. Length |-> Root[way[Length - i]]], w)
              = Leaves(Root, H, Length, w)
<1> DEFINE n == Length
           leaves == [i \in 1 .. n |-> Root[way[n - i]]]
<1>1. \A i \in 0 .. n : way[i] = IF i = n THEN ParentHash[H[1]] ELSE H[n - i]
  BY DEF WayOf
<1> HIDE DEF n
<1>2. n \in Nat /\ n > 0
  BY DEF n
<1>3. ASSUME NEW i \in 1 .. n PROVE leaves[i] = Root[H[i]]
  <2>1. n - i \in 0 .. n /\ n - i # n /\ n - (n - i) = i
    BY <1>2
  <2>2. way[n - i] = H[n - (n - i)]
    BY <1>1, <2>1
  <2> QED  BY <2>1, <2>2
<1>4. Len(leaves) = n
  <2>1. DOMAIN leaves = 1 .. n /\ leaves = [i \in DOMAIN leaves |-> leaves[i]]
    OBVIOUS
  <2> HIDE DEF leaves
  <2> QED  BY <1>2, <2>1, LengthIs
<1> HIDE DEF leaves
<1>5. ASSUME NEW i \in 1 .. w
      PROVE  (IF i <= n THEN leaves[i] ELSE ZeroRoot)
                = IF i <= n THEN Root[H[i]] ELSE ZeroRoot
  <2>1. i <= n => i \in 1 .. n
    BY <1>2
  <2> QED  BY <1>3, <2>1
<1>6. Padded(leaves, w) = Leaves(Root, H, n, w)
  BY <1>4, <1>5 DEF Padded, Leaves
<1> QED  BY <1>6 DEF leaves, n

OutputOf(node, w) ==
    /\ Segment(node, trusted_block, target_block, 0, w)
    /\ node.start_parent = HeaderHash[trusted_block]
    /\ node.end_block = target_block
    /\ output.target_header_hash = node.end_header_hash
    /\ output.state_root_merkle_root = node.state_merkle_root
    /\ output.data_root_merkle_root = node.data_merkle_root

LEMMA GroundedSegment ==
    ASSUME trusted_block \in Nat, target_block \in Nat, NEW node, NEW w \in Nat,
           w > 0,
           OutputOf(node, w)
    PROVE  SubchainBody(w)
<1> DEFINE n == Enabled(trusted_block, target_block, 0, w)
<1>1. PICK H \in [1 .. w -> Headers] :
         IsSegment(node, trusted_block, target_block, H, 0, w)
  BY DEF OutputOf, Segment
<1>2. /\ Linked(trusted_block, H, 0, n) /\ SegmentEnds(node, trusted_block, H, 0, n)
      /\ SegmentRoots(node, H, n, w)
  BY <1>1 DEF IsSegment
<1>3. n \in 0 .. w
  <2>1. 0 \in Nat
    OBVIOUS
  <2> QED  BY <2>1, EnabledIs
<1>4. n = 0 <=> ~(trusted_block < target_block)
  BY DEF Enabled
<1> HIDE DEF n
<1>5. CASE n = 0
  <2>1. output.target_header_hash = Zero
    BY <1>2, <1>5 DEF OutputOf, SegmentEnds
  <2> QED  BY <1>4, <1>5, <2>1 DEF SubchainBody
<1>6. CASE n # 0
  <2>1. /\ node.start_parent = ParentHash[H[1]]
        /\ node.end_block = trusted_block + 0 + n
        /\ node.end_header_hash = H[n]
        /\ node.start_parent = HeaderHash[trusted_block]
        /\ node.end_block = target_block
        /\ output.target_header_hash = H[n]
    BY <1>2, <1>6 DEF OutputOf, SegmentEnds
  <2>2. Length = n /\ Length \in Nat /\ Length > 0
    BY <1>3, <1>6, <2>1 DEF Length
  <2>3. /\ \A i \in 1 .. n : H[i] \in Headers
        /\ \A i \in 1 .. n : Number[H[i]] = trusted_block + i
        /\ \A i \in 2 .. n : ParentHash[H[i]] = H[i - 1]
    <3>1. \A i \in 1 .. n : H[i] \in Headers
      BY <1>3
    <3>2. \A i \in 1 .. n : Number[H[i]] = trusted_block + 0 + i
      BY <1>2 DEF Linked
    <3>3. \A i \in 2 .. n : ParentHash[H[i]] = H[i - 1]
      BY <1>2 DEF Linked
    <3>4. \A i \in 1 .. n : trusted_block + 0 + i = trusted_block + i
      BY <1>3
    <3> QED  BY <3>1, <3>2, <3>3, <3>4
  <2> DEFINE way == Ancestors
  <2>4. way = WayOf(H)
    BY <2>1, <2>2, <2>3, AncestorsAre
  <2> HIDE DEF way
  <2>5. \A i \in 0 .. n : way[i] = IF i = n THEN ParentHash[H[1]] ELSE H[n - i]
    BY <2>2, <2>4 DEF WayOf
  <2>6. way[n] = HeaderHash[trusted_block]
    BY <2>1, <2>2, <2>5
  <2>7. ASSUME NEW i \in 0 .. n - 1
        PROVE  way[i] \in Headers /\ Number[way[i]] = target_block - i
    <3>1. i \in 0 .. n /\ i # n /\ n - i \in 1 .. n
      BY <1>3
    <3>2. way[i] = H[n - i]
      BY <2>5, <3>1
    <3>3. way[i] \in Headers /\ Number[way[i]] = trusted_block + (n - i)
      BY <2>3, <3>1, <3>2
    <3>4. trusted_block + (n - i) = target_block - i
      BY <1>3, <2>1
    <3> QED  BY <3>3, <3>4
  <2>8. /\ Padded([i \in 1 .. Length |-> StateRoot[way[Length - i]]], w)
             = Leaves(StateRoot, H, n, w)
        /\ Padded([i \in 1 .. Length |-> DataRoot[way[Length - i]]], w)
             = Leaves(DataRoot, H, n, w)
    <3>1. Padded([i \in 1 .. Length |-> StateRoot[way[Length - i]]], w)
             = Leaves(StateRoot, H, Length, w)
      BY <2>2, <2>4, PaddedLeaves
    <3>2. Padded([i \in 1 .. Length |-> DataRoot[way[Length - i]]], w)
             = Leaves(DataRoot, H, Length, w)
      BY <2>2, <2>4, PaddedLeaves
    <3> QED  BY <2>2, <3>1, <3>2
  <2>9. /\ output.state_root_merkle_root = MerkleLayers(
              Padded([i \in 1 .. Length |-> StateRoot[way[Length - i]]], w))
        /\ output.data_root_merkle_root = MerkleLayers(
              Padded([i \in 1 .. Length |-> DataRoot[way[Length - i]]], w))
    BY <1>2, <2>8 DEF OutputOf, SegmentRoots
  <2>10. trusted_block < target_block
    BY <1>4, <1>6
  <2> QED  BY <2>2, <2>6, <2>7, <2>9, <2>10 DEF SubchainBody, way
<1> QED  BY <1>5, <1>6

-----------------------------------------------------------------------------
(* The inductive invariant.                                                *)

IsSequence(s) == Len(s) \in Nat /\ s = [i \in 1 .. Len(s) |-> s[i]]

LEMMA AppendIs ==
    ASSUME NEW s, NEW x, IsSequence(s)
    PROVE  /\ IsSequence(Append(s, x)) /\ Len(Append(s, x)) = Len(s) + 1
           /\ \A i \in 1 .. Len(s) : Append(s, x)[i] = s[i]
           /\ Append(s, x)[Len(s) + 1] = x
<1> DEFINE S == {s[i] : i \in 1 .. Len(s)} \cup {x}
           t == Append(s, x)
<1>1. s \in Seq(S) /\ x \in S /\ Len(s) \in Nat
  <2>1. s \in [1 .. Len(s) -> S] /\ Len(s) \in Nat
    BY DEF IsSequence
  <2> HIDE DEF S
  <2>2. s \in Seq(S)
    BY <2>1
  <2> QED  BY <2>1, <2>2 DEF S
<1> HIDE DEF S
<1>2. /\ t \in Seq(S) /\ Len(t) = Len(s) + 1
      /\ \A i \in 1 .. Len(s) : t[i] = s[i]
      /\ t[Len(s) + 1] = x
  BY <1>1, AppendProperties
<1> HIDE DEF t
<1>3. t = [i \in 1 .. Len(t) |-> t[i]] /\ Len(t) \in Nat
  BY <1>2, LenProperties
<1> QED  BY <1>2, <1>3 DEF IsSequence, t

(* A finished job is a segment of HEADERS_PER_MAP heights. *)
Mapped ==
    /\ Len(nodes) < num_map_jobs
    /\ \A j \in 1 .. Len(nodes) :
          Segment(nodes[j], trusted_block, target_block,
                  (j - 1) * HEADERS_PER_MAP, HEADERS_PER_MAP)

(* The nodes of a layer are segments of one width, which cover all jobs. *)
Reduced(w) ==
    /\ IsPower(w) /\ IsPower(Len(nodes))
    /\ Len(nodes) * w = num_map_jobs * HEADERS_PER_MAP
    /\ \A i \in 1 .. Len(nodes) :
          Segment(nodes[i], trusted_block, target_block, (i - 1) * w, w)

SubchainInv ==
    /\ trusted_block \in Nat /\ target_block \in Nat
    /\ phase \in {"map", "reduce", "done"}
    /\ IsSequence(nodes)
    /\ phase = "map" => Mapped
    /\ phase = "reduce" => \E w \in Nat : Reduced(w)
    /\ phase = "done" => \E node : OutputOf(node, num_map_jobs * HEADERS_PER_MAP)

LEMMA SubchainInit == Init => SubchainInv
<1> SUFFICES ASSUME Init PROVE SubchainInv
  OBVIOUS
<1>1. trusted_block \in Nat /\ target_block \in Nat
  BY TrustedAssumption, MaxBlockAssumption DEF Init, Blocks
<1>2. nodes = <<>> /\ phase = "map"
  BY DEF Init
<1>3. Len(nodes) = 0 /\ IsSequence(nodes)
  BY <1>2 DEF IsSequence
<1>4. Mapped
  BY <1>3, CircuitConstants DEF Mapped
<1> QED  BY <1>1, <1>2, <1>3, <1>4 DEF SubchainInv

LEMMA SubchainMapStep ==
    ASSUME SubchainInv, NEW headers \in [1 .. HEADERS_PER_MAP -> Headers],
           MapJob(headers)
    PROVE  SubchainInv'
<1> DEFINE job == Len(nodes) + 1
           w == HEADERS_PER_MAP
           lo == Len(nodes) * w
           node == MapOutput(job, headers)
<1>1. /\ phase = "map" /\ MapAssertions(job, headers)
      /\ nodes' = Append(nodes, node)
      /\ phase' = IF job = num_map_jobs THEN "reduce" ELSE "map"
      /\ UNCHANGED <<trusted_block, target_block>>
  BY DEF MapJob
<1>2. /\ trusted_block \in Nat /\ target_block \in Nat
      /\ IsSequence(nodes) /\ Len(nodes) \in Nat /\ Mapped
  BY <1>1 DEF SubchainInv, IsSequence
<1>3. w \in Nat /\ w > 0 /\ num_map_jobs \in Nat /\ IsPower(w) /\ IsPower(num_map_jobs)
  BY CircuitConstants DEF IsPower
<1>4. lo \in Nat /\ BatchStart(job) = trusted_block + lo + 1
      /\ lo = (job - 1) * w
  <2>1. (Len(nodes) + 1) - 1 = Len(nodes)
    BY <1>2
  <2> QED  BY <1>2, <1>3, <2>1 DEF BatchStart
<1> HIDE DEF node
<1>5. Segment(node, trusted_block, target_block, lo, w)
  <2> HIDE DEF lo, job
  <2> QED  BY <1>1, <1>2, <1>4, MapSegment DEF node
<1>6. /\ IsSequence(nodes') /\ Len(nodes') = job
      /\ \A i \in 1 .. Len(nodes) : nodes'[i] = nodes[i]
      /\ nodes'[job] = node
  BY <1>1, <1>2, AppendIs
<1>7. ASSUME NEW j \in 1 .. job
      PROVE  Segment(nodes'[j], trusted_block, target_block, (j - 1) * w, w)
  <2>1. CASE j = job
    <3> HIDE DEF lo, job, w
    <3> QED  BY <1>4, <1>5, <1>6, <2>1
  <2>2. CASE j # job
    <3>1. j \in 1 .. Len(nodes)
      BY <1>2, <2>2
    <3>2. Segment(nodes[j], trusted_block, target_block, (j - 1) * w, w)
      BY <1>2, <3>1 DEF Mapped
    <3>3. nodes'[j] = nodes[j]
      BY <1>6, <3>1
    <3> QED  BY <3>2, <3>3
  <2> QED  BY <2>1, <2>2
<1>8. CASE job = num_map_jobs
  <2>1. Reduced(w)'
    BY <1>1, <1>3, <1>6, <1>7, <1>8 DEF Reduced
  <2> QED  BY <1>1, <1>2, <1>3, <1>6, <1>8, <2>1 DEF SubchainInv
<1>9. CASE job # num_map_jobs
  <2>1. job < num_map_jobs
    BY <1>2, <1>3, <1>9 DEF Mapped
  <2>2. Mapped'
    BY <1>1, <1>6, <1>7, <2>1 DEF Mapped
  <2> QED  BY <1>1, <1>2, <1>6, <1>9, <2>2 DEF SubchainInv
<1> QED  BY <1>8, <1>9

(* Half of a power of two other than 1 is a power of two. *)
LEMMA PowerHalves ==
    ASSUME NEW n \in Nat, IsPower(n), n > 1
    PROVE  /\ n \div 2 \in Nat /\ IsPower(n \div 2)
           /\ n = 2 * (n \div 2)
<1>1. PICK k \in Nat : n = pow2[k]
  BY DEF IsPower
<1>2. k # 0
  BY <1>1, PowersOfTwo
<1>3. k - 1 \in Nat /\ (k - 1) + 1 = k
  BY <1>2
<1>4. n = 2 * pow2[k - 1] /\ pow2[k - 1] \in Nat
  BY <1>1, <1>3, PowersOfTwo, PowersArePositive
<1>5. n \div 2 = pow2[k - 1]
  BY <1>4
<1> QED  BY <1>3, <1>4, <1>5 DEF IsPower

LEMMA PowerDoubles ==
    ASSUME NEW n \in Nat, IsPower(n)
    PROVE  IsPower(2 * n)
<1>1. PICK k \in Nat : n = pow2[k]
  BY DEF IsPower
<1>2. k + 1 \in Nat /\ pow2[k + 1] = 2 * n
  BY <1>1, PowersOfTwo
<1> QED  BY <1>2 DEF IsPower

(* Nodes 2i - 1 and 2i of a layer of width w lie side by side. *)
LEMMA PairAdjacent ==
    ASSUME NEW i \in Nat, i > 0, NEW w \in Nat
    PROVE  /\ ((2 * i - 1) - 1) * w = (i - 1) * (2 * w)
           /\ (2 * i - 1) * w = (i - 1) * (2 * w) + w
           /\ (i - 1) * (2 * w) \in Nat
<1>1. PICK p \in Nat : i = p + 1
  <2>1. i - 1 \in Nat /\ i = (i - 1) + 1
    OBVIOUS
  <2> QED  BY <2>1
<1>2. (2 * i - 1) - 1 = 2 * p /\ 2 * i - 1 = 2 * p + 1 /\ i - 1 = p
  BY <1>1
<1>3. (2 * p) * w = p * (2 * w) /\ (2 * p + 1) * w = p * (2 * w) + w /\ p * (2 * w) \in Nat
  OBVIOUS
<1> QED  BY <1>2, <1>3

LEMMA SubchainReduceStep ==
    ASSUME SubchainInv, ReduceLayer
    PROVE  SubchainInv'
<1> DEFINE m == Len(nodes) \div 2
<1>1. /\ phase = "reduce" /\ Len(nodes) > 1 /\ LayerLinked
      /\ nodes' = [i \in 1 .. m |-> ReduceOutput(nodes[2 * i - 1], nodes[2 * i])]
      /\ UNCHANGED <<trusted_block, target_block, phase, output>>
  BY DEF ReduceLayer
<1>2. /\ trusted_block \in Nat /\ target_block \in Nat /\ Len(nodes) \in Nat
      /\ \E w \in Nat : Reduced(w)
  BY <1>1 DEF SubchainInv, IsSequence
<1>3. PICK w \in Nat : Reduced(w)
  BY <1>2
<1>4. /\ IsPower(w) /\ IsPower(Len(nodes))
      /\ Len(nodes) * w = num_map_jobs * HEADERS_PER_MAP
      /\ \A i \in 1 .. Len(nodes) :
            Segment(nodes[i], trusted_block, target_block, (i - 1) * w, w)
  BY <1>3 DEF Reduced
<1>5. m \in Nat /\ IsPower(m) /\ Len(nodes) = 2 * m
  <2> DEFINE n == Len(nodes)
  <2>1. n \in Nat /\ IsPower(n) /\ n > 1
    BY <1>1, <1>2, <1>4
  <2> HIDE DEF n
  <2>2. n \div 2 \in Nat /\ IsPower(n \div 2) /\ n = 2 * (n \div 2)
    BY <2>1, PowerHalves
  <2> QED  BY <2>2 DEF n
<1> DEFINE double == 2 * w
<1>6. double \in Nat /\ IsPower(double)
  BY <1>4, PowerDoubles
<1>7. IsSequence(nodes') /\ Len(nodes') = m
  <2>1. DOMAIN nodes' = 1 .. m /\ nodes' = [i \in DOMAIN nodes' |-> nodes'[i]]
    BY <1>1
  <2>2. Len(nodes') = m
    <3> HIDE DEF m
    <3> QED  BY <1>5, <2>1, LengthIs
  <2> QED  BY <1>5, <2>1, <2>2 DEF IsSequence
<1>8. Len(nodes') * double = num_map_jobs * HEADERS_PER_MAP
  <2> HIDE DEF m
  <2>1. m * (2 * w) = (2 * m) * w
    BY <1>5
  <2>2. m * double = Len(nodes) * w
    BY <1>5, <2>1
  <2> QED  BY <1>4, <1>7, <2>2
<1>9. ASSUME NEW i \in 1 .. m
      PROVE  Segment(nodes'[i], trusted_block, target_block, (i - 1) * double, double)
  <2> DEFINE left == nodes[2 * i - 1]
             right == nodes[2 * i]
             lo == (i - 1) * double
             mid == (2 * i - 1) * w
  <2>1. i \in Nat /\ i > 0 /\ 2 * i - 1 \in 1 .. Len(nodes) /\ 2 * i \in 1 .. Len(nodes)
    BY <1>5
  <2>2. /\ ((2 * i - 1) - 1) * w = lo /\ mid = lo + w /\ lo \in Nat
    BY <2>1, PairAdjacent
  <2>3. Segment(left, trusted_block, target_block, lo, w)
    BY <1>4, <2>1, <2>2
  <2>4. Segment(right, trusted_block, target_block, mid, w)
    BY <1>4, <2>1
  <2>5. SubchainsLinked(left, right)
    BY <1>1 DEF LayerLinked
  <2>6. Adjacent(lo, w, mid, double)
    <3>1. lo \in Nat /\ mid = lo + w /\ double \in Nat /\ double = 2 * w
      BY <1>6, <2>2
    <3> HIDE DEF lo, mid, double
    <3>2. mid \in Nat
      BY <3>1
    <3> QED  BY <3>1, <3>2 DEF Adjacent
  <2> HIDE DEF left, right, lo, mid, double
  <2>7. Segment(ReduceOutput(left, right), trusted_block, target_block, lo, double)
    BY <1>2, <1>4, <2>2, <2>3, <2>4, <2>5, <2>6, ReduceSegment
  <2>8. nodes'[i] = ReduceOutput(left, right)
    BY <1>1 DEF left, right
  <2> QED  BY <2>7, <2>8 DEF lo
<1> HIDE DEF m, double
<1>10. Reduced(double)'
  <2>1. \A i \in 1 .. Len(nodes') : Segment(nodes'[i], trusted_block', target_block',
                                           (i - 1) * double, double)
    BY <1>1, <1>7, <1>9
  <2> QED  BY <1>5, <1>6, <1>7, <1>8, <2>1 DEF Reduced
<1> QED  BY <1>1, <1>2, <1>6, <1>7, <1>10 DEF SubchainInv

LEMMA SubchainOutputStep ==
    ASSUME SubchainInv, Output
    PROVE  SubchainInv'
<1> DEFINE N == num_map_jobs * HEADERS_PER_MAP
<1>1. /\ phase = "reduce" /\ Len(nodes) = 1 /\ GroundedInInputs /\ phase' = "done"
      /\ output'.target_header_hash = nodes[1].end_header_hash
      /\ output'.state_root_merkle_root = nodes[1].state_merkle_root
      /\ output'.data_root_merkle_root = nodes[1].data_merkle_root
      /\ UNCHANGED <<trusted_block, target_block, nodes>>
  BY DEF Output
<1>2. /\ trusted_block \in Nat /\ target_block \in Nat /\ IsSequence(nodes)
      /\ \E w \in Nat : Reduced(w)
  BY <1>1 DEF SubchainInv
<1>3. PICK w \in Nat : Reduced(w)
  BY <1>2
<1>4. w = N
  <2>1. 1 * w = N
    BY <1>1, <1>3 DEF Reduced
  <2> HIDE DEF N
  <2> QED  BY <2>1
<1>5. Segment(nodes[1], trusted_block, target_block, 0, N)
  <2>1. 1 \in 1 .. Len(nodes) /\ (1 - 1) * w = 0
    BY <1>1
  <2>2. Segment(nodes[1], trusted_block, target_block, (1 - 1) * w, w)
    BY <1>3, <2>1 DEF Reduced
  <2> HIDE DEF N
  <2> QED  BY <1>4, <2>1, <2>2
<1>6. nodes[1].start_parent = HeaderHash[trusted_block]
      /\ nodes[1].end_block = target_block
  BY <1>1 DEF GroundedInInputs
<1> HIDE DEF N
<1>7. OutputOf(nodes[1], N)'
  BY <1>1, <1>5, <1>6 DEF OutputOf
<1>8. (\E node : OutputOf(node, N))'
  BY <1>7
<1> QED  BY <1>1, <1>2, <1>8 DEF SubchainInv, N

LEMMA SubchainStep == SubchainInv /\ [Next]_vars => SubchainInv'
<1> SUFFICES ASSUME SubchainInv, [Next]_vars PROVE SubchainInv'
  OBVIOUS
<1>1. ASSUME NEW headers \in [1 .. HEADERS_PER_MAP -> Headers], MapJob(headers)
      PROVE  SubchainInv'
  BY <1>1, SubchainMapStep
<1>2. CASE ReduceLayer
  BY <1>2, SubchainReduceStep
<1>3. CASE Output
  BY <1>3, SubchainOutputStep
<1>4. CASE UNCHANGED vars
  BY <1>4 DEF vars, SubchainInv, Mapped, Reduced, OutputOf
<1> QED  BY <1>1, <1>2, <1>3, <1>4 DEF Next

-----------------------------------------------------------------------------
(* What the fetcher computes off chain.                                    *)

LEMMA PowersGrow ==
    ASSUME NEW b \in Nat
    PROVE  \A a \in 0 .. b : pow2[a] <= pow2[b]
<1> DEFINE S == {d \in 0 .. b : ~(pow2[b - d] <= pow2[b])}
<1>1. S = {}
  <2>1. SUFFICES ASSUME S # {} PROVE FALSE
    OBVIOUS
  <2>2. PICK d \in S : \A e \in S : d <= e
    <3>1. S \subseteq Nat
      OBVIOUS
    <3> HIDE DEF S
    <3> QED  BY <2>1, <3>1, LeastNatural
  <2>3. d # 0 /\ d \in Nat /\ d <= b
    BY <2>2, PowersArePositive
  <2>4. d - 1 \in 0 .. b /\ ~(d <= d - 1) /\ b - d \in Nat
        /\ (b - d) + 1 = b - (d - 1)
    BY <2>3
  <2>5. d - 1 \notin S
    BY <2>2, <2>4, Zenon
  <2>6. pow2[b - (d - 1)] <= pow2[b]
    BY <2>4, <2>5
  <2>7. pow2[b - (d - 1)] = 2 * pow2[b - d] /\ pow2[b - d] \in Nat
        /\ pow2[b] \in Nat
    BY <2>4, PowersOfTwo, PowersArePositive
  <2>8. pow2[b - d] <= pow2[b]
    BY <2>6, <2>7
  <2> QED  BY <2>2, <2>8
<1>2. ASSUME NEW a \in 0 .. b PROVE pow2[a] <= pow2[b]
  <2>1. b - a \in 0 .. b /\ b - (b - a) = a
    OBVIOUS
  <2> QED  BY <1>1, <2>1
<1> QED  BY <1>2

(* PowerOfTwo(n) is the least power of two that is not below n. *)
LEMMA PowerOfTwoLeast ==
    ASSUME NEW n \in Nat, NEW k \in Nat, pow2[k] >= n,
           k # 0 => pow2[k - 1] < n
    PROVE  PowerOfTwo(n) = pow2[k]
<1> DEFINE P(c) == pow2[c] >= n /\ \A l \in 0 .. c - 1 : pow2[l] < n
           c == CHOOSE c \in 0 .. n : P(c)
<1>1. ASSUME k # 0, NEW l \in 0 .. k - 1 PROVE pow2[l] < n
  <2>1. k - 1 \in Nat
    BY <1>1
  <2>2. pow2[l] <= pow2[k - 1] /\ pow2[l] \in Nat /\ pow2[k - 1] \in Nat
    BY <2>1, PowersGrow, PowersArePositive
  <2> QED  BY <1>1, <2>2
<1>2. P(k)
  BY <1>1
<1>3. k \in 0 .. n
  <2>1. CASE k = 0
    BY <2>1
  <2>2. CASE k # 0
    <3>1. k - 1 \in Nat /\ pow2[k - 1] \in Nat /\ pow2[k - 1] > k - 1
      BY <2>2, PowersArePositive
    <3> QED  BY <2>2, <3>1
  <2> QED  BY <2>1, <2>2
<1>4. \E d \in 0 .. n : P(d)
  BY <1>2, <1>3
<1>5. PowerOfTwo(n) = pow2[c]
  BY DEF PowerOfTwo
<1>6. c \in 0 .. n /\ P(c)
  BY <1>4
<1> HIDE DEF c
<1>7. ~(c < k)
  <2>1. c < k => c \in 0 .. k - 1
    BY <1>6
  <2>2. pow2[c] \in Nat
    BY <1>6, PowersArePositive
  <2> QED  BY <1>2, <1>6, <2>1, <2>2
<1>8. ~(k < c)
  <2>1. k < c => k \in 0 .. c - 1
    BY <1>6
  <2>2. pow2[k] \in Nat
    BY PowersArePositive
  <2> QED  BY <1>6, <2>1, <2>2
<1>9. c = k
  BY <1>6, <1>7, <1>8
<1> QED  BY <1>5, <1>9

LEMMA CeilingDivides ==
    ASSUME NEW m \in Nat, NEW h \in Nat, m > 0, h > 0,
           NEW j \in Nat, j = (m + h - 1) \div h
    PROVE  j * h >= m /\ (j - 1) * h < m
OBVIOUS

(* The tree of the circuit has as many leaves as the tree of the fetcher:  *)
(* with a single map job it could have more.                               *)
LEMMA TreesAreOfOneSize ==
    /\ PowerOfTwo(MAX_NUM_HEADERS) = num_map_jobs * HEADERS_PER_MAP
    /\ MAX_NUM_HEADERS <= num_map_jobs * HEADERS_PER_MAP
<1> DEFINE h == HEADERS_PER_MAP
           j == JobsNeeded
<1>1. PICK a \in Nat : h = pow2[a]
  BY CircuitConstants
<1>2. h \in Nat /\ h > 0 /\ MAX_NUM_HEADERS \in Nat /\ MAX_NUM_HEADERS > 0
  BY CircuitConstants, MaxNumHeadersAssumption
<1>3. j \in Nat /\ j * h >= MAX_NUM_HEADERS /\ (j - 1) * h < MAX_NUM_HEADERS
  <2> DEFINE m == MAX_NUM_HEADERS + h - 1
  <2>1. j = m \div h
    BY DEF JobsNeeded
  <2>2. m \in Nat /\ h \in Nat \ {0}
    BY <1>2
  <2> HIDE DEF m, h, j
  <2>3. \A x \in Nat : \A y \in Nat \ {0} : x \div y \in Nat
    OBVIOUS
  <2>4. j \in Nat
    BY <2>1, <2>2, <2>3
  <2> QED  BY <1>2, <2>1, <2>4, CeilingDivides DEF m
<1>4. PICK b \in Nat : /\ num_map_jobs = pow2[b] /\ pow2[b] >= j
                       /\ \A l \in 0 .. b - 1 : pow2[l] < j
  <2> DEFINE P(c) == pow2[c] >= j /\ \A l \in 0 .. c - 1 : pow2[l] < j
  <2> HIDE DEF j
  <2>1. \E c \in 0 .. j : P(c)
    <3> DEFINE S == {k \in Nat : pow2[k] >= j}
    <3>1. j \in S
      BY <1>3, PowersArePositive
    <3>2. PICK k \in S : \A l \in S : k <= l
      <4>1. S \subseteq Nat
        OBVIOUS
      <4> HIDE DEF S
      <4> QED  BY <3>1, <4>1, LeastNatural
    <3>3. k \in 0 .. j /\ P(k)
      BY <1>3, <3>1, <3>2, PowersArePositive
    <3> QED  BY <3>3
  <2> DEFINE c == CHOOSE c \in 0 .. j : P(c)
  <2>2. num_map_jobs = pow2[c]
    BY DEF num_map_jobs, PowerOfTwo, j
  <2>3. c \in 0 .. j /\ P(c)
    BY <2>1
  <2> HIDE DEF c
  <2>4. c \in Nat
    BY <1>3, <2>3
  <2> QED  BY <2>2, <2>3, <2>4
<1>5. b # 0
  BY <1>4, NumMapJobsAssumption, PowersOfTwo
<1>6. /\ b - 1 \in Nat /\ b - 1 \in 0 .. b - 1 /\ (b - 1) + 1 = b
      /\ a + b \in Nat /\ a + (b - 1) \in Nat /\ (a + b) - 1 = a + (b - 1)
      /\ a + b # 0
  BY <1>5
<1>7. /\ pow2[a + b] = h * pow2[b] /\ pow2[a + (b - 1)] = h * pow2[b - 1]
      /\ pow2[b] \in Nat /\ pow2[b - 1] \in Nat
  BY <1>1, <1>6, PowersAdd, PowersArePositive
<1>8. pow2[b - 1] < j
  BY <1>4, <1>6
<1> HIDE DEF h, j
<1>9. h * pow2[b] >= MAX_NUM_HEADERS
  <2>1. \A x, y, z \in Nat : x <= y => x * z <= z * y
    OBVIOUS
  <2>2. j * h <= h * pow2[b]
    BY <1>2, <1>3, <1>4, <1>7, <2>1
  <2>3. \A x, y, z \in Nat : x >= y /\ x <= z => z >= y
    OBVIOUS
  <2>4. j * h \in Nat /\ h * pow2[b] \in Nat
    BY <1>2, <1>3, <1>7
  <2> QED  BY <1>2, <1>3, <2>2, <2>3, <2>4
<1>10. h * pow2[b - 1] < MAX_NUM_HEADERS
  <2>1. \A x, y, z \in Nat : x < y => z * x <= (y - 1) * z
    <3> SUFFICES ASSUME NEW x \in Nat, NEW y \in Nat, NEW z \in Nat, x < y
                 PROVE  z * x <= (y - 1) * z
      OBVIOUS
    <3>1. y - 1 \in Nat /\ x <= y - 1
      OBVIOUS
    <3>2. \A u, v, t \in Nat : u <= v => t * u <= v * t
      OBVIOUS
    <3> QED  BY <3>1, <3>2
  <2>2. h * pow2[b - 1] <= (j - 1) * h
    BY <1>2, <1>3, <1>7, <1>8, <2>1
  <2>3. \A x, y, z \in Int : x <= y /\ y < z => x < z
    OBVIOUS
  <2>4. h * pow2[b - 1] \in Int /\ (j - 1) * h \in Int
    BY <1>2, <1>3, <1>7
  <2> QED  BY <1>2, <1>3, <2>2, <2>3, <2>4
<1>11. pow2[a + b] >= MAX_NUM_HEADERS /\ pow2[(a + b) - 1] < MAX_NUM_HEADERS
  BY <1>6, <1>7, <1>9, <1>10
<1>12. PowerOfTwo(MAX_NUM_HEADERS) = pow2[a + b]
  <2> DEFINE k == a + b
  <2>1. k \in Nat /\ pow2[k] >= MAX_NUM_HEADERS /\ pow2[k - 1] < MAX_NUM_HEADERS
    BY <1>6, <1>11
  <2> HIDE DEF k
  <2>2. PowerOfTwo(MAX_NUM_HEADERS) = pow2[k]
    BY <1>2, <2>1, PowerOfTwoLeast
  <2> QED  BY <2>2 DEF k
<1>13. \A x, y \in Nat : x * y = y * x
  OBVIOUS
<1>14. pow2[a + b] = num_map_jobs * HEADERS_PER_MAP
  BY <1>2, <1>4, <1>7, <1>13 DEF h
<1> QED  BY <1>2, <1>11, <1>12, <1>14, PowersArePositive

-----------------------------------------------------------------------------
(* The loop of get_block_headers_range.                                    *)

IsLoop(f, start, last, n) ==
    f = [k \in 0 .. n |->
            IF k = 0 THEN [curr_block |-> start, headers |-> <<>>]
            ELSE FetchChunk(f[k - 1], last)]

LEMMA LoopExists ==
    ASSUME NEW start, NEW last, NEW n \in Nat
    PROVE  \E f : IsLoop(f, start, last, n)
<1> DEFINE S == {m \in Nat : ~\E f : IsLoop(f, start, last, m)}
           first == [curr_block |-> start, headers |-> <<>>]
<1>1. SUFFICES ASSUME S # {} PROVE FALSE
  OBVIOUS
<1>2. PICK m \in S : \A k \in S : m <= k
  <2>1. S \subseteq Nat
    OBVIOUS
  <2> HIDE DEF S
  <2> QED  BY <1>1, <2>1, LeastNatural
<1>3. CASE m = 0
  <2> DEFINE g == [k \in 0 .. 0 |-> first]
  <2>1. IsLoop(g, start, last, 0)
    BY DEF IsLoop
  <2> QED  BY <1>2, <1>3, <2>1
<1>4. CASE m # 0
  <2>1. m - 1 \in Nat /\ m - 1 \notin S
    BY <1>2, <1>4
  <2>2. PICK f : IsLoop(f, start, last, m - 1)
    BY <2>1
  <2> DEFINE end == FetchChunk(f[m - 1], last)
             g == [k \in 0 .. m |-> IF k = m THEN end ELSE f[k]]
  <2>3. \A k \in 0 .. m - 1 :
           f[k] = IF k = 0 THEN first ELSE FetchChunk(f[k - 1], last)
    BY <2>2 DEF IsLoop
  <2> HIDE DEF end, first
  <2>4. \A k \in 0 .. m : g[k] = IF k = m THEN end ELSE f[k]
    OBVIOUS
  <2>5. \A k \in 1 .. m : k - 1 \in 0 .. m - 1 /\ g[k - 1] = f[k - 1]
    BY <1>4, <2>1
  <2>6. \A k \in 0 .. m : g[k] = IF k = 0 THEN first ELSE FetchChunk(g[k - 1], last)
    <3> SUFFICES ASSUME NEW k \in 0 .. m
                 PROVE  g[k] = IF k = 0 THEN first ELSE FetchChunk(g[k - 1], last)
      OBVIOUS
    <3> HIDE DEF g
    <3>1. CASE k = m
      BY <1>4, <2>1, <2>4, <2>5, <3>1 DEF end
    <3>2. CASE k # m
      <4>1. k \in 0 .. m - 1 /\ g[k] = f[k]
        BY <2>1, <2>4, <3>2
      <4>2. k # 0 => g[k - 1] = f[k - 1]
        BY <2>1, <2>5, <4>1
      <4> QED  BY <2>3, <4>1, <4>2
    <3> QED  BY <3>1, <3>2
  <2>7. IsLoop(g, start, last, m)
    BY <2>6 DEF IsLoop, first
  <2> QED  BY <1>2, <2>7
<1> QED  BY <1>3, <1>4

LEMMA HeadersFromIs ==
    ASSUME NEW first \in Nat, NEW last \in Int, last - first + 1 \in Nat
    PROVE  /\ Len(HeadersFrom(first, last)) = last - first + 1
           /\ \A i \in 1 .. last - first + 1 :
                 HeadersFrom(first, last)[i] = HeaderHash[first + i - 1]
<1> DEFINE n == last - first + 1
           s == HeadersFrom(first, last)
<1>1. s = [i \in 1 .. n |-> HeaderHash[first + i - 1]]
  BY DEF HeadersFrom
<1>2. DOMAIN s = 1 .. n /\ s = [i \in DOMAIN s |-> s[i]]
  BY <1>1
<1>3. n \in Nat
  OBVIOUS
<1> HIDE DEF n, s
<1>4. Len(s) = n
  BY <1>2, <1>3, LengthIs
<1> QED  BY <1>1, <1>4 DEF n, s

(* Chunks that follow each other are one range. *)
LEMMA HeadersFromSplit ==
    ASSUME NEW first \in Nat, NEW mid \in Int, NEW last \in Int,
           first <= mid + 1, mid <= last
    PROVE  HeadersFrom(first, mid) \o HeadersFrom(mid + 1, last)
              = HeadersFrom(first, last)
<1> DEFINE S == {HeaderHash[b] : b \in Nat}
           m == mid - first + 1
           n == last - mid
           next == mid + 1
           s == HeadersFrom(first, mid)
           t == HeadersFrom(next, last)
           u == HeadersFrom(first, last)
<1>1. /\ m \in Nat /\ n \in Nat /\ next \in Nat /\ last - next + 1 = n
      /\ last - first + 1 = m + n
  OBVIOUS
<1>2. /\ s = [i \in 1 .. m |-> HeaderHash[first + i - 1]]
      /\ t = [i \in 1 .. n |-> HeaderHash[next + i - 1]]
      /\ u = [i \in 1 .. m + n |-> HeaderHash[first + i - 1]]
  BY <1>1 DEF HeadersFrom
<1>3. s \in [1 .. m -> S] /\ t \in [1 .. n -> S] /\ u \in [1 .. m + n -> S]
  <2>1. \A i \in 1 .. m + n : first + i - 1 \in Nat
    BY <1>1
  <2>2. \A i \in 1 .. m : first + i - 1 \in Nat
    BY <1>1
  <2>3. \A i \in 1 .. n : next + i - 1 \in Nat
    BY <1>1
  <2> HIDE DEF m, n, next, s, t, u
  <2> QED  BY <1>2, <2>1, <2>2, <2>3
<1> HIDE DEF S, s, t, u
<1>4. s \in Seq(S) /\ t \in Seq(S) /\ u \in Seq(S)
      /\ Len(s) = m /\ Len(t) = n /\ Len(u) = m + n
  <2> HIDE DEF m, n
  <2>1. m + n \in Nat
    BY <1>1
  <2> QED  BY <1>1, <1>3, <2>1, LenProperties
<1>5. /\ s \o t \in Seq(S) /\ Len(s \o t) = m + n
      /\ \A i \in 1 .. m : (s \o t)[i] = s[i]
      /\ \A i \in m + 1 .. m + n : (s \o t)[i] = t[i - m]
  <2> HIDE DEF m, n
  <2>1. /\ s \o t \in Seq(S) /\ Len(s \o t) = Len(s) + Len(t)
        /\ \A i \in 1 .. Len(s) + Len(t) :
              (s \o t)[i] = IF i <= Len(s) THEN s[i] ELSE t[i - Len(s)]
    BY <1>4, ConcatProperties
  <2> QED  BY <1>1, <1>4, <2>1
<1>6. \A i \in 1 .. m + n : (s \o t)[i] = u[i]
  <2> SUFFICES ASSUME NEW i \in 1 .. m + n PROVE (s \o t)[i] = u[i]
    OBVIOUS
  <2>1. CASE i <= m
    <3>1. i \in 1 .. m
      BY <1>1, <2>1
    <3>2. s[i] = HeaderHash[first + i - 1] /\ u[i] = HeaderHash[first + i - 1]
      <4> HIDE DEF m, n, next
      <4> QED  BY <1>2, <3>1
    <3> QED  BY <1>5, <3>1, <3>2, Zenon
  <2>2. CASE ~(i <= m)
    <3>1. i \in m + 1 .. m + n /\ i - m \in 1 .. n
          /\ next + (i - m) - 1 = first + i - 1
      BY <1>1, <2>2
    <3>2. t[i - m] = HeaderHash[next + (i - m) - 1]
          /\ u[i] = HeaderHash[first + i - 1]
      <4> HIDE DEF m, n, next
      <4> QED  BY <1>2, <3>1
    <3>3. (s \o t)[i] = t[i - m]
      BY <1>5, <3>1, Zenon
    <3> QED  BY <3>1, <3>2, <3>3, Zenon
  <2> QED  BY <2>1, <2>2
<1>7. s \o t = u
  <2> DEFINE c == s \o t
  <2> HIDE DEF c, m, n
  <2>1. c \in [1 .. m + n -> S] /\ u \in [1 .. m + n -> S]
    BY <1>4, <1>5, LenProperties DEF c
  <2>2. \A i \in 1 .. m + n : c[i] = u[i]
    BY <1>6 DEF c
  <2>3. c = u
    <3> DEFINE D == 1 .. m + n
    <3> HIDE DEF D
    <3>1. c \in [D -> S] /\ u \in [D -> S] /\ \A i \in D : c[i] = u[i]
      BY <2>1, <2>2 DEF D
    <3> QED  BY <3>1
  <2> QED  BY <2>3 DEF c
<1> QED  BY <1>7 DEF s, t, u

(* However the range is cut into chunks, every header of it is fetched     *)
(* once and in order.                                                      *)
LEMMA FetchesTheRange ==
    ASSUME NEW start \in Nat, NEW last \in Nat, start <= last
    PROVE  get_block_headers_range(start, last) = HeadersFrom(start, last)
<1> DEFINE n == last + 1
           f == CHOOSE f : IsLoop(f, start, last, n)
           Sofar(loop, k) ==
              /\ loop.curr_block \in Nat
              /\ loop.curr_block >= start + k \/ loop.curr_block > last
              /\ loop.curr_block >= start
              /\ loop.headers = HeadersFrom(start,
                    IF loop.curr_block > last THEN last ELSE loop.curr_block - 1)
<1>1. get_block_headers_range(start, last) = f[n].headers
  BY DEF get_block_headers_range, IsLoop
<1>2. n \in Nat
  OBVIOUS
<1>3. IsLoop(f, start, last, n)
  BY <1>2, LoopExists
<1> HIDE DEF f
<1>4. \A k \in 0 .. n : f[k] =
         IF k = 0 THEN [curr_block |-> start, headers |-> <<>>]
         ELSE FetchChunk(f[k - 1], last)
  BY <1>3 DEF IsLoop
<1>5. Sofar(f[0], 0)
  <2>1. f[0] = [curr_block |-> start, headers |-> <<>>]
    BY <1>2, <1>4
  <2>2. HeadersFrom(start, start - 1) = <<>>
    BY DEF HeadersFrom
  <2> QED  BY <2>1, <2>2
<1>6. ASSUME NEW k \in 0 .. n, k # 0, Sofar(f[k - 1], k - 1)
      PROVE  Sofar(f[k], k)
  <2> DEFINE l == f[k - 1]
  <2>1. f[k] = FetchChunk(l, last)
    BY <1>4, <1>6
  <2>2. Sofar(l, k - 1)
    BY <1>6
  <2> HIDE DEF l
  <2>3. CASE l.curr_block > last
    BY <2>1, <2>2, <2>3 DEF FetchChunk
  <2>4. CASE ~(l.curr_block > last)
    <3> DEFINE c == l.curr_block
               e == ChunkEnd(c, last)
               m == c - 1
    <3>1. /\ c \in Nat /\ c >= start /\ c <= last /\ c >= start + (k - 1)
          /\ l.headers = HeadersFrom(start, m)
      BY <2>2, <2>4
    <3>2. /\ f[k].curr_block = NextChunk(c)
          /\ f[k].headers = l.headers \o HeadersFrom(c, e)
      <4> HIDE DEF m, e
      <4>1. f[k] = [curr_block |-> NextChunk(c),
                    headers    |-> l.headers \o HeadersFrom(c, e)]
        BY <2>1, <2>4, Zenon DEF FetchChunk, c, e
      <4> DEFINE hs == l.headers \o HeadersFrom(c, e)
      <4> HIDE DEF hs, c
      <4>2. f[k] = [curr_block |-> NextChunk(c), headers |-> hs]
        BY <4>1, Zenon DEF hs
      <4> QED  BY <4>2 DEF hs
    <3> HIDE DEF c
    <3>3. /\ e \in Int /\ m \in Int /\ start <= m + 1 /\ m <= e /\ m + 1 = c
          /\ NextChunk(c) \in Nat /\ NextChunk(c) > c
          /\ e = IF NextChunk(c) > last THEN last ELSE NextChunk(c) - 1
      BY <3>1, MaxRequestsAssumption DEF ChunkEnd, NextChunk
    <3> HIDE DEF e, m
    <3>4. HeadersFrom(start, m) \o HeadersFrom(m + 1, e) = HeadersFrom(start, e)
      BY <3>3, HeadersFromSplit
    <3>5. f[k].headers = HeadersFrom(start, e)
      BY <3>1, <3>2, <3>3, <3>4, Zenon
    <3>6. NextChunk(c) >= start + k /\ NextChunk(c) >= start
      BY <3>1, <3>3
    <3> QED  BY <3>2, <3>3, <3>5, <3>6
  <2> QED  BY <2>3, <2>4
<1> HIDE DEF Sofar, n
<1>7. \A k \in 0 .. n : Sofar(f[k], k)
  <2> DEFINE S == {k \in 0 .. n : ~Sofar(f[k], k)}
  <2>1. SUFFICES ASSUME S # {} PROVE FALSE
    OBVIOUS
  <2>2. PICK k \in S : \A j \in S : k <= j
    <3>1. S \subseteq Nat
      BY <1>2
    <3> HIDE DEF S
    <3> QED  BY <2>1, <3>1, LeastNatural
  <2>3. k \in 0 .. n /\ k # 0
    BY <1>5, <2>2
  <2>4. k - 1 \in 0 .. n /\ ~(k <= k - 1)
    BY <1>2, <2>3
  <2>5. k - 1 \notin S
    BY <2>2, <2>4, Zenon
  <2>6. Sofar(f[k - 1], k - 1)
    BY <2>4, <2>5
  <2> QED  BY <1>6, <2>2, <2>3, <2>6
<1>8. Sofar(f[n], n) /\ n = last + 1
  <2>1. n \in 0 .. n
    BY <1>2
  <2> QED  BY <1>7, <2>1 DEF n
<1>9. f[n].headers = HeadersFrom(start, last)
  BY <1>8 DEF Sofar
<1> QED  BY <1>1, <1>9

-----------------------------------------------------------------------------
(* CommitmentsAgree.                                                       *)

OfChain(H, trusted, n) == \A i \in 1 .. n : H[i] = HeaderHash[trusted + i]

(* Headers that are linked and end at a header of the chain are the chain's. *)
LEMMA LinkedToTheChain ==
    ASSUME NEW trusted \in Nat, NEW n \in Nat, n > 0, NEW H,
           trusted + n \in Blocks,
           \A i \in 2 .. n : ParentHash[H[i]] = H[i - 1],
           H[n] = HeaderHash[trusted + n]
    PROVE  OfChain(H, trusted, n)
<1> DEFINE S == {d \in 0 .. n - 1 : H[n - d] # HeaderHash[trusted + (n - d)]}
<1>1. S = {}
  <2>1. SUFFICES ASSUME S # {} PROVE FALSE
    OBVIOUS
  <2>2. PICK d \in S : \A e \in S : d <= e
    <3>1. S \subseteq Nat
      OBVIOUS
    <3> HIDE DEF S
    <3> QED  BY <2>1, <3>1, LeastNatural
  <2>3. d # 0 /\ d \in 1 .. n - 1
    BY <2>2
  <2> DEFINE i == n - (d - 1)
  <2>4. /\ d - 1 \in 0 .. n - 1 /\ ~(d <= d - 1)
        /\ i \in 2 .. n /\ i - 1 = n - d
        /\ trusted + i \in 1 .. MaxBlock /\ (trusted + i) - 1 = trusted + (n - d)
    BY <2>3, MaxBlockAssumption DEF Blocks
  <2>5. d - 1 \notin S
    BY <2>2, <2>4, Zenon
  <2>6. H[i] = HeaderHash[trusted + i]
    BY <2>4, <2>5
  <2> HIDE DEF i
  <2>7. ParentHash[H[i]] = H[n - d]
    BY <2>4
  <2>8. ParentHash[HeaderHash[trusted + i]] = HeaderHash[trusted + (n - d)]
    BY <2>4, ChainAssumption
  <2> QED  BY <2>2, <2>6, <2>7, <2>8
<1>2. ASSUME NEW i \in 1 .. n PROVE H[i] = HeaderHash[trusted + i]
  <2>1. n - i \in 0 .. n - 1 /\ n - (n - i) = i
    OBVIOUS
  <2> QED  BY <1>1, <2>1
<1> QED  BY <1>2 DEF OfChain

(* The root that the fetcher computes over the headers it fetched is that  *)
(* of the circuit's tree over the same headers.                            *)
LEMMA RootOffChain ==
    ASSUME NEW trusted \in Nat, NEW n \in 1 .. MAX_NUM_HEADERS, NEW Root, NEW H,
           OfChain(H, trusted, n), NEW headers, Len(headers) = n,
           \A i \in 1 .. n : headers[i] = HeaderHash[trusted + i]
    PROVE  get_merkle_root(Padded([i \in 1 .. Len(headers) |-> Root[headers[i]]],
                                  MAX_NUM_HEADERS))
              = MerkleLayers(Leaves(Root, H, n, num_map_jobs * HEADERS_PER_MAP))
<1> DEFINE w == num_map_jobs * HEADERS_PER_MAP
           m == MAX_NUM_HEADERS
           roots == [i \in 1 .. n |-> Root[headers[i]]]
           leaves == Padded(roots, m)
<1>1. m \in Nat /\ n \in Nat /\ n <= m
  BY MaxNumHeadersAssumption
<1>2. Len(roots) = n /\ \A i \in 1 .. n : roots[i] = Root[H[i]]
  <2>1. DOMAIN roots = 1 .. n /\ roots = [i \in DOMAIN roots |-> roots[i]]
    OBVIOUS
  <2>2. \A i \in 1 .. n : roots[i] = Root[H[i]]
    BY DEF OfChain
  <2> HIDE DEF roots
  <2> QED  BY <1>1, <2>1, <2>2, LengthIs
<1> HIDE DEF roots
<1>3. leaves = [i \in 1 .. m |-> IF i <= n THEN roots[i] ELSE ZeroRoot]
  BY <1>2 DEF Padded
<1>4. Len(leaves) = m
  <2>1. DOMAIN leaves = 1 .. m /\ leaves = [i \in DOMAIN leaves |-> leaves[i]]
    BY <1>3
  <2> HIDE DEF leaves, m
  <2> QED  BY <1>1, <2>1, LengthIs
<1> HIDE DEF leaves
<1>5. Padded(leaves, w) = Leaves(Root, H, n, w)
  <2>1. ASSUME NEW i \in 1 .. w
        PROVE  (IF i <= m THEN leaves[i] ELSE ZeroRoot)
                  = IF i <= n THEN Root[H[i]] ELSE ZeroRoot
    <3>1. i \in Nat /\ i >= 1
      OBVIOUS
    <3> HIDE DEF m, w
    <3>2. CASE i <= n
      <4>1. i \in 1 .. n /\ i \in 1 .. m /\ i <= m
        BY <1>1, <3>1, <3>2
      <4> QED  BY <1>2, <1>3, <3>2, <4>1
    <3>3. CASE ~(i <= n) /\ i <= m
      <4>1. i \in 1 .. m
        BY <1>1, <3>1, <3>3
      <4> QED  BY <1>3, <3>3, <4>1
    <3>4. CASE ~(i <= m)
      <4>1. ~(i <= n)
        BY <1>1, <3>1, <3>4
      <4> QED  BY <3>4, <4>1
    <3> QED  BY <3>2, <3>3, <3>4
  <2>2. Padded(leaves, w) = [i \in 1 .. w |-> IF i <= m THEN leaves[i] ELSE ZeroRoot]
    BY <1>4 DEF Padded
  <2> HIDE DEF m, w
  <2> QED  BY <2>1, <2>2 DEF Leaves
<1>6. PowerOfTwo(Len(leaves)) = w
  BY <1>4, TreesAreOfOneSize
<1>7. get_merkle_root(leaves) = MerkleLayers(Leaves(Root, H, n, w))
  BY <1>5, <1>6 DEF get_merkle_root
<1>8. leaves = Padded([i \in 1 .. Len(headers) |-> Root[headers[i]]], m)
  BY DEF leaves, roots
<1> QED  BY <1>7, <1>8

LEMMA OffChainCommitments ==
    ASSUME NEW trusted \in Nat, NEW target \in Nat,
           NEW n \in 1 .. MAX_NUM_HEADERS, target = trusted + n, NEW H,
           OfChain(H, trusted, n)
    PROVE  get_merkle_root_commitments(trusted, target) =
              LET w == num_map_jobs * HEADERS_PER_MAP
              IN  [state |-> MerkleLayers(Leaves(StateRoot, H, n, w)),
                   data  |-> MerkleLayers(Leaves(DataRoot, H, n, w))]
<1> DEFINE w == num_map_jobs * HEADERS_PER_MAP
           start == trusted + 1
           headers == get_block_headers_range(start, target)
           root(Root) == get_merkle_root(
              Padded([i \in 1 .. Len(headers) |-> Root[headers[i]]], MAX_NUM_HEADERS))
<1>1. n \in Nat /\ start \in Nat /\ start <= target /\ target - start + 1 = n
  BY MaxNumHeadersAssumption
<1>2. headers = HeadersFrom(start, target)
  <2> HIDE DEF start
  <2> QED  BY <1>1, FetchesTheRange
<1>3. Len(headers) = n /\ \A i \in 1 .. n : headers[i] = HeaderHash[trusted + i]
  <2> DEFINE s == HeadersFrom(start, target)
  <2>1. target \in Int /\ \A i \in 1 .. n : start + i - 1 = trusted + i
    BY <1>1
  <2> HIDE DEF start, headers
  <2>2. Len(s) = n /\ \A i \in 1 .. n : s[i] = HeaderHash[start + i - 1]
    BY <1>1, <2>1, HeadersFromIs
  <2> HIDE DEF s
  <2>3. \A i \in 1 .. n : s[i] = HeaderHash[trusted + i]
    BY <2>1, <2>2
  <2>4. headers = s
    BY <1>2 DEF s
  <2> QED  BY <2>2, <2>3, <2>4
<1>4. get_merkle_root_commitments(trusted, target)
         = [state |-> root(StateRoot), data |-> root(DataRoot)]
  BY DEF get_merkle_root_commitments
<1> HIDE DEF headers, w
<1>5. root(StateRoot) = MerkleLayers(Leaves(StateRoot, H, n, w))
  BY <1>3, RootOffChain DEF w
<1>6. root(DataRoot) = MerkleLayers(Leaves(DataRoot, H, n, w))
  BY <1>3, RootOffChain DEF w
<1> QED  BY <1>4, <1>5, <1>6, Zenon DEF w

InBlocks == trusted_block \in Blocks /\ target_block \in Blocks

(* For the header of the chain the circuit commits to what is computed     *)
(* off chain.                                                              *)
LEMMA OutputCommits ==
    ASSUME SubchainInv, InBlocks, phase = "done",
           output.target_header_hash = HeaderHash[target_block],
           Length \in 1 .. MAX_NUM_HEADERS
    PROVE  [state |-> output.state_root_merkle_root,
            data  |-> output.data_root_merkle_root]
               = get_merkle_root_commitments(trusted_block, target_block)
<1> DEFINE w == num_map_jobs * HEADERS_PER_MAP
           n == Length
<1>1. PICK node : OutputOf(node, w)
  BY DEF SubchainInv
<1>2. PICK H \in [1 .. w -> Headers] :
         IsSegment(node, trusted_block, target_block, H, 0, w)
  BY <1>1 DEF OutputOf, Segment
<1>3. /\ trusted_block \in Nat /\ target_block \in Nat /\ n \in Nat /\ n > 0
      /\ target_block = trusted_block + n /\ n <= MAX_NUM_HEADERS
  BY MaxNumHeadersAssumption DEF SubchainInv, Length
<1>4. w \in Nat /\ MAX_NUM_HEADERS <= w
  <2>1. \A x, y \in Nat : x * y \in Nat
    OBVIOUS
  <2> QED  BY <2>1, CircuitConstants, TreesAreOfOneSize
<1> HIDE DEF w
<1>5. Enabled(trusted_block, target_block, 0, w) = n
  BY <1>3, <1>4, MaxNumHeadersAssumption DEF Enabled, Length
<1>6. /\ Linked(trusted_block, H, 0, n)
      /\ SegmentEnds(node, trusted_block, H, 0, n)
      /\ SegmentRoots(node, H, n, w)
  BY <1>2, <1>5 DEF IsSegment
<1> HIDE DEF n
<1>7. H[n] = HeaderHash[trusted_block + n]
  <2>1. H[n] = node.end_header_hash
    BY <1>3, <1>6 DEF SegmentEnds
  <2>2. node.end_header_hash = HeaderHash[target_block]
    BY <1>1 DEF OutputOf
  <2> QED  BY <1>3, <2>1, <2>2
<1>8. OfChain(H, trusted_block, n)
  <2>1. \A i \in 2 .. n : ParentHash[H[i]] = H[i - 1]
    BY <1>6 DEF Linked
  <2>2. trusted_block + n \in Blocks
    BY <1>3 DEF InBlocks
  <2> QED  BY <1>3, <1>7, <2>1, <2>2, LinkedToTheChain
<1>9. get_merkle_root_commitments(trusted_block, target_block) =
         [state |-> MerkleLayers(Leaves(StateRoot, H, n, w)),
          data  |-> MerkleLayers(Leaves(DataRoot, H, n, w))]
  <2>1. n \in 1 .. MAX_NUM_HEADERS
    BY DEF n
  <2> QED  BY <1>3, <1>8, <2>1, OffChainCommitments DEF w
<1>10. /\ output.state_root_merkle_root = MerkleLayers(Leaves(StateRoot, H, n, w))
       /\ output.data_root_merkle_root = MerkleLayers(Leaves(DataRoot, H, n, w))
  BY <1>1, <1>6 DEF OutputOf, SegmentRoots
<1> QED  BY <1>9, <1>10

-----------------------------------------------------------------------------
(* The circuit.                                                            *)

(* What holds of a proof when it is written and afterwards. *)
Written ==
    /\ phase = "done" /\ target_block > 0
    /\ JustificationAvailable(target_block)
    /\ authority_set_id = JustifyingSet(target_block)
    /\ output.target_header_hash = HeaderHash[target_block]
    /\ evm_output = [targetHeaderHash    |-> output.target_header_hash,
                     stateRootCommitment |-> output.state_root_merkle_root,
                     dataRootCommitment  |-> output.data_root_merkle_root]

HeaderRangeInv ==
    /\ SubchainInv
    /\ InBlocks
    /\ evm_output # NotWritten => Written

(* A checked justification is for the target: the header that was signed   *)
(* at its height is the one that the subchain ends with.                   *)
LEMMA JustifiedIsTarget ==
    ASSUME NEW s, NEW b, NEW signers,
           Justified(s, SignedMessage(b, JustifyingSet(b)), signers)
    PROVE  /\ JustificationAvailable(target_block)
           /\ s = JustifyingSet(target_block)
           /\ output.target_header_hash = HeaderHash[target_block]
<1> DEFINE message == SignedMessage(b, JustifyingSet(b))
           data == HintedData(message, signers)
           justification == CircuitJustification(target_block, data)
<1>1. /\ JustificationAvailable(target_block)
      /\ HintSimpleJustification(s, data, justification)
      /\ verify_simple_justification(target_block, output.target_header_hash,
             s, AuthoritySetHash[s], justification)
  BY DEF Justified
<1>2. /\ justification.authority_set_id = JustifyingSet(target_block)
      /\ justification.signed_message = message
  BY DEF CircuitJustification, HintedData, JustificationData
<1> HIDE DEF justification, data
<1>3. justification.authority_set_id = s
  BY <1>1 DEF HintSimpleJustification
<1>4. /\ justification.signed_message.block_number = target_block
      /\ justification.signed_message.block_hash = output.target_header_hash
  BY <1>1 DEF verify_simple_justification
<1>5. message.block_number = b /\ message.block_hash = HeaderHash[b]
  BY DEF SignedMessage
<1> QED  BY <1>1, <1>2, <1>3, <1>4, <1>5

LEMMA HeaderRangeStart == HeaderRangeInit => HeaderRangeInv
<1> SUFFICES ASSUME HeaderRangeInit PROVE HeaderRangeInv
  OBVIOUS
<1>1. Init /\ evm_output = NotWritten
  BY DEF HeaderRangeInit
<1>2. InBlocks
  BY <1>1, TrustedAssumption DEF Init, InBlocks, Blocks
<1> QED  BY <1>1, <1>2, SubchainInit DEF HeaderRangeInv

LEMMA HeaderRangeStep ==
    HeaderRangeInv /\ [HeaderRangeNext]_headerRangeVars => HeaderRangeInv'
<1> SUFFICES ASSUME HeaderRangeInv, [HeaderRangeNext]_headerRangeVars
             PROVE  HeaderRangeInv'
  OBVIOUS
<1>1. [Next]_vars
  BY DEF HeaderRangeNext, VerifySubchain, define, headerRangeVars
<1>2. SubchainInv'
  BY <1>1, SubchainStep DEF HeaderRangeInv
<1>3. InBlocks'
  <2>1. trusted_block' = trusted_block /\ target_block' = target_block
    BY <1>1 DEF Next, MapJob, ReduceLayer, Output, vars
  <2> QED  BY <2>1 DEF HeaderRangeInv, InBlocks
<1>4. ASSUME evm_output' # NotWritten
      PROVE  Written'
  <2>1. CASE VerifySubchain
    <3>1. evm_output' = evm_output /\ authority_set_id' = authority_set_id /\ Next
      BY <2>1 DEF VerifySubchain
    <3>2. Written
      BY <1>4, <3>1 DEF HeaderRangeInv
    <3>3. phase # "done"
      BY <3>1 DEF Next, MapJob, ReduceLayer, Output
    <3> QED  BY <3>2, <3>3 DEF Written
  <2>2. ASSUME target_block > 0, NEW s \in SetIds, NEW b \in Blocks, NEW signers,
               define(s, SignedMessage(b, JustifyingSet(b)), signers)
        PROVE  Written'
    <3>1. /\ Justified(s, SignedMessage(b, JustifyingSet(b)), signers)
          /\ phase = "done" /\ authority_set_id' = s
          /\ evm_output' =
                [targetHeaderHash    |-> output.target_header_hash,
                 stateRootCommitment |-> output.state_root_merkle_root,
                 dataRootCommitment  |-> output.data_root_merkle_root]
          /\ phase' = phase /\ target_block' = target_block /\ output' = output
      BY <2>2 DEF define, vars
    <3>2. /\ JustificationAvailable(target_block)
          /\ s = JustifyingSet(target_block)
          /\ output.target_header_hash = HeaderHash[target_block]
      BY <3>1, JustifiedIsTarget
    <3> QED  BY <2>2, <3>1, <3>2 DEF Written, JustificationAvailable, IsEpochEnd,
                                    JustifyingSet
  <2>3. CASE UNCHANGED headerRangeVars
    BY <1>4, <2>3 DEF HeaderRangeInv, Written, headerRangeVars, vars,
                      JustificationAvailable, IsEpochEnd, JustifyingSet
  <2> QED  BY <2>1, <2>2, <2>3 DEF HeaderRangeNext
<1> QED  BY <1>2, <1>3, <1>4 DEF HeaderRangeInv

LEMMA InvSound == HeaderRangeInv => SubchainSound
<1> SUFFICES ASSUME HeaderRangeInv, phase = "done"
             PROVE  SubchainSound
  BY DEF SubchainSound
<1> DEFINE w == num_map_jobs * HEADERS_PER_MAP
<1>1. w \in Nat /\ w > 0
  <2>1. \A x, y \in Nat : x > 0 /\ y > 0 => x * y \in Nat /\ x * y > 0
    OBVIOUS
  <2> QED  BY <2>1, CircuitConstants
<1>2. trusted_block \in Nat /\ target_block \in Nat /\ \E node : OutputOf(node, w)
  BY DEF HeaderRangeInv, SubchainInv
<1> HIDE DEF w
<1>3. SubchainBody(w)
  BY <1>1, <1>2, GroundedSegment
<1> QED  BY <1>3 DEF SubchainBody, SubchainSound, w

LEMMA InvAgree == HeaderRangeInv => CommitmentsAgree
BY OutputCommits DEF HeaderRangeInv, CommitmentsAgree

LEMMA InvHeaderRangeSound == HeaderRangeInv => HeaderRangeSound
<1> SUFFICES ASSUME HeaderRangeInv, evm_output # NotWritten, Length <= MAX_NUM_HEADERS
             PROVE  /\ HeaderRangeProvable(Input(authority_set_id), MaxBlock)
                    /\ evm_output = HeaderRangeOutput(Input(authority_set_id))
  BY DEF HeaderRangeSound
<1>1. Written /\ InBlocks
  BY DEF HeaderRangeInv
<1>2. trusted_block \in Nat /\ target_block \in Nat /\ target_block <= MaxBlock
      /\ MAX_NUM_HEADERS \in Nat
  BY <1>1, MaxBlockAssumption, MaxNumHeadersAssumption DEF InBlocks, Blocks
<1>3. trusted_block < target_block
  <2>1. HeaderHash[target_block] # Zero
    BY <1>1, HashAssumption DEF InBlocks
  <2>2. ~(trusted_block < target_block) => output.target_header_hash = Zero
    BY <1>1, InvSound DEF SubchainSound, Written
  <2> QED  BY <1>1, <2>1, <2>2 DEF Written
<1>4. Length \in 1 .. MAX_NUM_HEADERS
      /\ target_block - trusted_block \in 1 .. MAX_NUM_HEADERS
      /\ target_block <= trusted_block + MAX_NUM_HEADERS
  BY <1>2, <1>3 DEF Length
<1>5. HeaderRangeProvable(Input(authority_set_id), MaxBlock)
  BY <1>1, <1>2, <1>3, <1>4 DEF HeaderRangeProvable, Input, Written
<1>6. [state |-> output.state_root_merkle_root,
       data  |-> output.data_root_merkle_root]
         = get_merkle_root_commitments(trusted_block, target_block)
  BY <1>1, <1>4, InvAgree DEF CommitmentsAgree, Written
<1>7. [state |-> StateRootCommitment[<<trusted_block, target_block>>],
       data  |-> DataRootCommitment[<<trusted_block, target_block>>]]
         = get_merkle_root_commitments(trusted_block, target_block)
  BY <1>1, <1>4, CommitmentsAssumption DEF InBlocks
<1>8. /\ output.state_root_merkle_root
            = StateRootCommitment[<<trusted_block, target_block>>]
      /\ output.data_root_merkle_root
            = DataRootCommitment[<<trusted_block, target_block>>]
  BY <1>6, <1>7
<1>9. evm_output = HeaderRangeOutput(Input(authority_set_id))
  BY <1>1, <1>8 DEF HeaderRangeOutput, Input, Written
<1> QED  BY <1>5, <1>9

(* Whatever headers the prover supplied, the target hash of a proof is the *)
(* header of the target block of a chain of consecutive, linked headers    *)
(* from the trusted one, and the two roots commit to exactly these         *)
(* (subchain_verification.rs: verify_subchain).                            *)
THEOREM SubchainIsSound == HeaderRangeSpec => []SubchainSound
BY HeaderRangeStart, HeaderRangeStep, InvSound, PTL DEF HeaderRangeSpec

(* For a finalized target the circuit and get_merkle_root_commitments      *)
(* compute the same roots, for every chunk of requests and every arity of  *)
(* the map jobs: both trees have the same number of leaves.                *)
THEOREM CommitmentsAlwaysAgree == HeaderRangeSpec => []CommitmentsAgree
BY HeaderRangeStart, HeaderRangeStep, InvAgree, PTL DEF HeaderRangeSpec

(* A proof of the header range circuit is one that HeaderRangeProvable     *)
(* admits, and writes HeaderRangeOutput, on which the contract rests       *)
(* (header_range.rs: define).                                              *)
THEOREM HeaderRangeIsSound == HeaderRangeSpec => []HeaderRangeSound
BY HeaderRangeStart, HeaderRangeStep, InvHeaderRangeSound, PTL DEF HeaderRangeSpec

-----------------------------------------------------------------------------
(* The prover of this repository: what its headers make of a node, as long *)
(* as the range is not longer than the circuit.                            *)

InCircuit == InBlocks /\ Length \in 1 .. MAX_NUM_HEADERS

HonestNode(node, trusted, target, lo, w) ==
    LET n == Enabled(trusted, target, lo, w)
    IN  /\ node.num_blocks = n
        /\ n # 0 => /\ node.start_block = trusted + lo + 1
                    /\ node.start_parent = HeaderHash[trusted + lo]
                    /\ node.end_block = trusted + lo + n
                    /\ node.end_header_hash = HeaderHash[trusted + lo + n]

HonestLayer(w) ==
    \A i \in 1 .. Len(nodes) :
        HonestNode(nodes[i], trusted_block, target_block, (i - 1) * w, w)

HonestInv ==
    honest /\ InCircuit =>
        /\ phase = "map" => HonestLayer(HEADERS_PER_MAP)
        /\ phase = "reduce" =>
              \A w \in Nat :
                  Len(nodes) * w = num_map_jobs * HEADERS_PER_MAP => HonestLayer(w)
        /\ phase = "done" =>
              output.target_header_hash = HeaderHash[target_block]

(* The headers of a job: those of the chain up to the target, then padding. *)
LEMMA HintIs ==
    ASSUME trusted_block \in Nat, target_block \in Nat, NEW job, NEW lo \in Nat,
           BatchStart(job) = trusted_block + lo + 1,
           BatchEnd(job) = trusted_block + lo + HEADERS_PER_MAP
    PROVE  LET n == Enabled(trusted_block, target_block, lo, HEADERS_PER_MAP)
           IN  \A i \in 1 .. HEADERS_PER_MAP :
                  FetchedHint(job)[i] =
                      IF i <= n THEN HeaderHash[trusted_block + lo + i]
                      ELSE EmptyHeader
<1> DEFINE w == HEADERS_PER_MAP
           start == BatchStart(job)
           end == BatchEnd(job)
           last == IF end < target_block THEN end ELSE target_block
           headers == IF last >= start
                      THEN get_block_headers_range(start, last) ELSE <<>>
           n == Enabled(trusted_block, target_block, lo, w)
<1>1. FetchedHint(job) =
         [i \in 1 .. w |-> IF i <= Len(headers) THEN headers[i] ELSE EmptyHeader]
  BY DEF FetchedHint, HeaderRangeFetcherHint
<1>2. w \in Nat /\ w > 0
  BY CircuitConstants
<1>3. /\ start \in Nat /\ last \in Nat /\ start = trusted_block + lo + 1
      /\ n = IF last >= start THEN last - start + 1 ELSE 0
  BY <1>2 DEF Enabled
<1> HIDE DEF start, end, last, n
<1>4. Len(headers) = n
      /\ \A i \in 1 .. n : headers[i] = HeaderHash[trusted_block + lo + i]
  <2>1. CASE last >= start
    <3> DEFINE s == HeadersFrom(start, last)
    <3>1. headers = s
      BY <1>3, <2>1, FetchesTheRange
    <3>2. last \in Int /\ last - start + 1 = n /\ n \in Nat
      BY <1>3, <2>1
    <3>3. Len(s) = last - start + 1
          /\ \A i \in 1 .. last - start + 1 : s[i] = HeaderHash[start + i - 1]
      BY <1>3, <3>2, HeadersFromIs
    <3>4. \A i \in 1 .. n : start + i - 1 = trusted_block + lo + i
      BY <1>3, <3>2
    <3> HIDE DEF s, headers
    <3> QED  BY <3>1, <3>2, <3>3, <3>4
  <2>2. CASE ~(last >= start)
    BY <1>3, <2>2
  <2> QED  BY <2>1, <2>2
<1> HIDE DEF headers
<1>5. n \in Nat
  BY <1>3
<1>6. ASSUME NEW i \in 1 .. w
      PROVE  FetchedHint(job)[i] = IF i <= n THEN HeaderHash[trusted_block + lo + i]
                                   ELSE EmptyHeader
  <2>1. i <= n => i \in 1 .. n
    BY <1>5
  <2> QED  BY <1>1, <1>4, <2>1
<1> QED  BY <1>6 DEF n, w

(* No assertion of a map job fails on them, and its node is honest. *)
LEMMA HintPasses ==
    ASSUME InCircuit, NEW job, NEW lo \in Nat,
           BatchStart(job) = trusted_block + lo + 1,
           BatchEnd(job) = trusted_block + lo + HEADERS_PER_MAP
    PROVE  /\ MapAssertions(job, FetchedHint(job))
           /\ HonestNode(MapOutput(job, FetchedHint(job)),
                         trusted_block, target_block, lo, HEADERS_PER_MAP)
<1> DEFINE w == HEADERS_PER_MAP
           n == Enabled(trusted_block, target_block, lo, w)
           h == FetchedHint(job)
           node == MapOutput(job, h)
<1>1. /\ trusted_block \in Nat /\ target_block \in Nat /\ target_block <= MaxBlock
      /\ trusted_block < target_block
  BY MaxBlockAssumption, MaxNumHeadersAssumption DEF InCircuit, InBlocks, Blocks, Length
<1>2. w \in Nat /\ w > 0 /\ n \in 0 .. w
  BY <1>1, CircuitConstants, EnabledIs
<1>3. \A i \in 1 .. w :
         h[i] = IF i <= n THEN HeaderHash[trusted_block + lo + i] ELSE EmptyHeader
  BY <1>1, HintIs
<1>4. /\ is_batch_disabled(job) <=> n = 0
      /\ n # 0 => trusted_block + lo + n <= target_block
      /\ n # 0 /\ n < w => trusted_block + lo + n = target_block
  BY <1>1, <1>2 DEF is_batch_disabled, Enabled
<1>5. \A i \in 1 .. w + 1 : Noop(job, h, i) <=>
         is_batch_disabled(job) \/ \E j \in 1 .. i - 1 : Number[h[j]] = target_block
  BY DEF Noop
<1> HIDE DEF n, h
<1>6. ASSUME NEW i \in 1 .. n
      PROVE  /\ i \in 1 .. w /\ h[i] = HeaderHash[trusted_block + lo + i]
             /\ Number[h[i]] = trusted_block + lo + i
             /\ trusted_block + lo + i \in 1 .. MaxBlock
  <2>1. i \in 1 .. w /\ i <= n /\ n # 0
    BY <1>2
  <2>2. trusted_block + lo + i \in 1 .. MaxBlock
        /\ trusted_block + lo + i \in 0 .. MaxBlock
    BY <1>1, <1>2, <1>4, <2>1, MaxBlockAssumption
  <2>3. h[i] = HeaderHash[trusted_block + lo + i]
    BY <1>3, <2>1
  <2>4. Number[HeaderHash[trusted_block + lo + i]] = trusted_block + lo + i
    <3> DEFINE b == trusted_block + lo + i
    <3>1. b \in 0 .. MaxBlock
      BY <2>2
    <3> HIDE DEF b
    <3>2. Number[HeaderHash[b]] = b
      BY <3>1, ChainAssumption
    <3> QED  BY <3>2 DEF b
  <2> QED  BY <2>1, <2>2, <2>3, <2>4
<1>7. ASSUME NEW i \in 1 .. w, i <= n PROVE ~Noop(job, h, i)
  <2>1. SUFFICES ASSUME NEW j \in 1 .. i - 1, Number[h[j]] = target_block
                 PROVE  FALSE
    <3>1. n # 0 /\ i \in 1 .. w + 1
      BY <1>2, <1>7
    <3> QED  BY <1>4, <1>5, <3>1
  <2>2. j \in 1 .. n /\ j < i /\ j \in Nat /\ i \in Nat /\ n \in Nat /\ n # 0
    BY <1>2, <1>7
  <2>3. trusted_block + lo + j = target_block
    BY <1>6, <2>1, <2>2
  <2>4. trusted_block + lo + n <= target_block
    BY <1>4, <2>2
  <2> QED  BY <1>1, <1>7, <2>2, <2>3, <2>4
<1>8. ASSUME NEW i \in 1 .. w + 1, n < i, n < w PROVE Noop(job, h, i)
  <2>1. CASE n = 0
    BY <1>4, <1>5, <2>1
  <2>2. CASE n # 0
    <3>1. n \in 1 .. n /\ n \in 1 .. i - 1
      BY <1>2, <1>8, <2>2
    <3>2. Number[h[n]] = target_block
      BY <1>4, <1>6, <1>8, <2>2, <3>1
    <3> QED  BY <1>5, <3>1, <3>2
  <2> QED  BY <2>1, <2>2
<1>9. NumHeaders(job, h) = n
  <2>1. \A i \in 1 .. w : Noop(job, h, i) <=> n < i
    <3> SUFFICES ASSUME NEW i \in 1 .. w PROVE Noop(job, h, i) <=> n < i
      OBVIOUS
    <3>1. i \in 1 .. w + 1 /\ (n < i => n < w) /\ (i <= n \/ n < i)
          /\ ~(i <= n /\ n < i)
      BY <1>2
    <3> QED  BY <1>7, <1>8, <3>1
  <2> QED  BY <1>2, <2>1, NumHeadersIs
<1>10. EndBlock(job, h) = IF n = 0 THEN 0 ELSE Number[h[n]]
  BY <1>9 DEF EndBlock
<1>11. n # 0 => n \in 1 .. n /\ 1 \in 1 .. n /\ n \in Nat
  BY <1>2
<1>12. BatchLinked(job, h)
  <2> SUFFICES ASSUME NEW i \in 2 .. w, ~Noop(job, h, i)
               PROVE  ParentHash[h[i]] = h[i - 1] /\ Number[h[i]] = Number[h[i - 1]] + 1
    BY DEF BatchLinked
  <2>1. i <= n
    <3>1. i \in 1 .. w + 1 /\ (n < i => n < w)
      BY <1>2
    <3>2. ~(n < i)
      BY <1>8, <3>1
    <3> QED  BY <1>2, <3>2
  <2>2. i \in 1 .. n /\ i - 1 \in 1 .. n
    BY <1>2, <2>1
  <2> DEFINE b == trusted_block + lo + i
  <2>3. /\ h[i] = HeaderHash[b] /\ Number[h[i]] = b /\ b \in 1 .. MaxBlock
        /\ h[i - 1] = HeaderHash[b - 1] /\ Number[h[i - 1]] = b - 1
    <3>1. trusted_block + lo + (i - 1) = b - 1
      BY <1>1
    <3> QED  BY <1>6, <2>2, <3>1
  <2> HIDE DEF b
  <2>4. ParentHash[HeaderHash[b]] = HeaderHash[b - 1] /\ b = (b - 1) + 1
    BY <2>3, ChainAssumption
  <2> QED  BY <2>3, <2>4
<1>13. Number[h[1]] = BatchStart(job) \/ is_batch_disabled(job)
  BY <1>4, <1>6, <1>11
<1>14. EndBlock(job, h) = BatchEnd(job) \/ Noop(job, h, w + 1)
  <2>1. CASE n = w
    BY <1>2, <1>6, <1>10, <1>11, <2>1
  <2>2. CASE n # w
    <3>1. n < w /\ n < w + 1 /\ w + 1 \in 1 .. w + 1
      BY <1>2, <2>2
    <3> QED  BY <1>8, <3>1
  <2> QED  BY <2>1, <2>2
<1>15. MapAssertions(job, h)
  BY <1>12, <1>13, <1>14 DEF MapAssertions
<1>16. HonestNode(node, trusted_block, target_block, lo, w)
  <2>1. /\ node.num_blocks = n
        /\ node.start_block = Number[h[1]]
        /\ node.start_parent = ParentHash[h[1]]
        /\ node.end_block = EndBlock(job, h)
        /\ node.end_header_hash = IF n = 0 THEN Zero ELSE h[n]
    BY <1>9 DEF MapOutput
  <2> HIDE DEF node
  <2>2. ASSUME n # 0
        PROVE  /\ node.start_block = trusted_block + lo + 1
               /\ node.start_parent = HeaderHash[trusted_block + lo]
               /\ node.end_block = trusted_block + lo + n
               /\ node.end_header_hash = HeaderHash[trusted_block + lo + n]
    <3> DEFINE b == trusted_block + lo + 1
    <3>1. h[1] = HeaderHash[b] /\ Number[h[1]] = b /\ b \in 1 .. MaxBlock
      BY <1>6, <1>11, <2>2
    <3>2. b - 1 = trusted_block + lo
      BY <1>1
    <3> HIDE DEF b
    <3>3. ParentHash[HeaderHash[b]] = HeaderHash[b - 1]
      BY <3>1, ChainAssumption
    <3>4. h[n] = HeaderHash[trusted_block + lo + n]
          /\ Number[h[n]] = trusted_block + lo + n
      BY <1>6, <1>11, <2>2
    <3> QED  BY <1>10, <2>1, <2>2, <3>1, <3>2, <3>3, <3>4 DEF b
  <2> QED  BY <2>1, <2>2 DEF HonestNode, n
<1> QED  BY <1>15, <1>16 DEF h, node

(* Honest nodes of two halves are linked, and their parent is honest. *)
LEMMA HonestReduce ==
    ASSUME NEW trusted \in Nat, NEW target \in Nat, NEW lo \in Nat, NEW w \in Nat,
           NEW mid, NEW double, Adjacent(lo, w, mid, double), NEW left, NEW right,
           HonestNode(left, trusted, target, lo, w),
           HonestNode(right, trusted, target, mid, w)
    PROVE  /\ SubchainsLinked(left, right)
           /\ HonestNode(ReduceOutput(left, right), trusted, target, lo, double)
<1> DEFINE l == Enabled(trusted, target, lo, w)
           r == Enabled(trusted, target, mid, w)
           n == Enabled(trusted, target, lo, double)
           node == ReduceOutput(left, right)
<1>1. mid \in Nat /\ mid = lo + w
  BY DEF Adjacent
<1>2. l \in 0 .. w /\ r \in 0 .. w /\ n = l + r /\ (r # 0 => l = w)
  BY <1>1, EnabledIs, EnabledSplit
<1>3. /\ left.num_blocks = l
      /\ l # 0 => /\ left.start_block = trusted + lo + 1
                  /\ left.start_parent = HeaderHash[trusted + lo]
                  /\ left.end_block = trusted + lo + l
                  /\ left.end_header_hash = HeaderHash[trusted + lo + l]
  BY DEF HonestNode
<1>4. /\ right.num_blocks = r
      /\ r # 0 => /\ right.start_block = trusted + mid + 1
                  /\ right.start_parent = HeaderHash[trusted + mid]
                  /\ right.end_block = trusted + mid + r
                  /\ right.end_header_hash = HeaderHash[trusted + mid + r]
  BY DEF HonestNode
<1>5. /\ node.num_blocks = left.num_blocks + right.num_blocks
      /\ node.start_block = left.start_block
      /\ node.start_parent = left.start_parent
      /\ right.num_blocks = 0 => /\ node.end_block = left.end_block
                                 /\ node.end_header_hash = left.end_header_hash
      /\ right.num_blocks # 0 => /\ node.end_block = right.end_block
                                 /\ node.end_header_hash = right.end_header_hash
  BY DEF ReduceOutput
<1> HIDE DEF l, r, n, node
<1>6. r # 0 => /\ l # 0 /\ trusted + lo + l = trusted + mid
               /\ trusted + mid + r = trusted + lo + n
               /\ trusted + mid = (trusted + mid + 1) - 1
  BY <1>1, <1>2
<1>7. r = 0 => n = l
  BY <1>2
<1>8. n # 0 => l # 0
  BY <1>2
<1>9. SubchainsLinked(left, right)
  <2>1. CASE r = 0
    BY <1>4, <2>1 DEF SubchainsLinked
  <2>2. CASE r # 0
    <3>1. left.end_header_hash = right.start_parent
      BY <1>3, <1>4, <1>6, <2>2
    <3>2. left.end_block = right.start_block - 1
      BY <1>3, <1>4, <1>6, <2>2
    <3> QED  BY <3>1, <3>2 DEF SubchainsLinked
  <2> QED  BY <2>1, <2>2
<1>10. ASSUME n # 0
       PROVE  /\ node.start_block = trusted + lo + 1
              /\ node.start_parent = HeaderHash[trusted + lo]
              /\ node.end_block = trusted + lo + n
              /\ node.end_header_hash = HeaderHash[trusted + lo + n]
  <2>1. node.start_block = trusted + lo + 1
        /\ node.start_parent = HeaderHash[trusted + lo]
    BY <1>3, <1>5, <1>8, <1>10
  <2>2. CASE r = 0
    BY <1>3, <1>4, <1>5, <1>7, <1>10, <2>1, <2>2
  <2>3. CASE r # 0
    BY <1>4, <1>5, <1>6, <2>1, <2>3
  <2> QED  BY <2>2, <2>3
<1>11. node.num_blocks = n
  BY <1>2, <1>3, <1>4, <1>5
<1> QED  BY <1>9, <1>10, <1>11 DEF HonestNode, n, node

LEMMA Cancel ==
    ASSUME NEW n \in Nat, n > 0, NEW a \in Nat, NEW b \in Nat, n * a = n * b
    PROVE  a = b
<1>1. ASSUME NEW c \in Nat, NEW d \in Nat, d > 0
      PROVE  n * (c + d) # n * c
  <2>1. n * (c + d) = n * c + n * d /\ n * d > 0 /\ n * c \in Nat /\ n * d \in Nat
    BY <1>1
  <2> QED  BY <2>1
<1>2. CASE a < b
  <2>1. b - a \in Nat /\ b - a > 0 /\ a + (b - a) = b
    BY <1>2
  <2> QED  BY <1>1, <2>1
<1>3. CASE b < a
  <2>1. a - b \in Nat /\ a - b > 0 /\ b + (a - b) = a
    BY <1>3
  <2> QED  BY <1>1, <2>1
<1> QED  BY <1>2, <1>3

LEMMA HonestInit == Init => HonestInv
<1> SUFFICES ASSUME Init PROVE HonestInv
  OBVIOUS
<1>1. phase = "map" /\ Len(nodes) = 0
  BY DEF Init
<1>2. HonestLayer(HEADERS_PER_MAP)
  BY <1>1 DEF HonestLayer
<1> QED  BY <1>1, <1>2 DEF HonestInv

LEMMA HonestMapStep ==
    ASSUME SubchainInv, HonestInv,
           NEW headers \in [1 .. HEADERS_PER_MAP -> Headers], MapJob(headers)
    PROVE  HonestInv'
<1> SUFFICES ASSUME honest', InCircuit'
             PROVE  /\ phase' = "map" => HonestLayer(HEADERS_PER_MAP)'
                    /\ phase' = "reduce" =>
                          \A w \in Nat :
                             Len(nodes)' * w = num_map_jobs * HEADERS_PER_MAP =>
                                HonestLayer(w)'
                    /\ phase' # "done"
  BY DEF HonestInv
<1> DEFINE job == Len(nodes) + 1
           w == HEADERS_PER_MAP
           lo == Len(nodes) * w
           node == MapOutput(job, headers)
<1>1. /\ phase = "map" /\ nodes' = Append(nodes, node)
      /\ phase' = IF job = num_map_jobs THEN "reduce" ELSE "map"
      /\ honest /\ headers = FetchedHint(job)
      /\ UNCHANGED <<trusted_block, target_block>>
  BY DEF MapJob
<1>2. InCircuit
  BY <1>1 DEF InCircuit, InBlocks, Length
<1>3. HonestLayer(w)
  BY <1>1, <1>2 DEF HonestInv
<1>4. IsSequence(nodes) /\ Len(nodes) \in Nat
  BY DEF SubchainInv, IsSequence
<1>5. w \in Nat /\ w > 0 /\ num_map_jobs \in Nat /\ num_map_jobs > 0
  BY CircuitConstants
<1>6. trusted_block \in Nat
  BY DEF SubchainInv
<1>7. lo \in Nat /\ lo = (job - 1) * w
      /\ BatchStart(job) = trusted_block + lo + 1
      /\ BatchEnd(job) = trusted_block + lo + w
  <2>1. (Len(nodes) + 1) - 1 = Len(nodes)
    BY <1>4
  <2>2. (Len(nodes) + 1) * w = lo + w /\ lo \in Nat
    BY <1>4, <1>5
  <2>3. BatchStart(job) = trusted_block + lo + 1
    BY <2>1 DEF BatchStart
  <2>4. BatchEnd(job) = trusted_block + (Len(nodes) + 1) * w
    BY DEF BatchEnd
  <2>5. BatchEnd(job) = trusted_block + lo + w
    <3> HIDE DEF lo, w, job
    <3> QED  BY <1>5, <1>6, <2>2, <2>4
  <2> QED  BY <2>1, <2>2, <2>3, <2>5
<1> HIDE DEF node
<1>8. HonestNode(node, trusted_block, target_block, lo, w)
  <2> HIDE DEF lo, job
  <2> QED  BY <1>1, <1>2, <1>7, HintPasses DEF node
<1>9. /\ Len(nodes') = job /\ nodes'[job] = node
      /\ \A i \in 1 .. Len(nodes) : nodes'[i] = nodes[i]
  BY <1>1, <1>4, AppendIs
<1>10. ASSUME NEW j \in 1 .. job
       PROVE  HonestNode(nodes'[j], trusted_block, target_block, (j - 1) * w, w)
  <2>1. CASE j = job
    <3> HIDE DEF lo, job, w
    <3> QED  BY <1>7, <1>8, <1>9, <2>1
  <2>2. CASE j # job
    <3>1. j \in 1 .. Len(nodes)
      BY <1>4, <2>2
    <3>2. HonestNode(nodes[j], trusted_block, target_block, (j - 1) * w, w)
      BY <1>3, <3>1 DEF HonestLayer
    <3>3. nodes'[j] = nodes[j]
      BY <1>9, <3>1
    <3> QED  BY <3>2, <3>3
  <2> QED  BY <2>1, <2>2
<1>11. HonestLayer(w)'
  <2> HIDE DEF job
  <2> QED  BY <1>1, <1>9, <1>10 DEF HonestLayer
<1>12. ASSUME phase' = "reduce", NEW v \in Nat,
              Len(nodes)' * v = num_map_jobs * HEADERS_PER_MAP
       PROVE  HonestLayer(v)'
  <2>1. Len(nodes)' = num_map_jobs
    BY <1>1, <1>9, <1>12
  <2> DEFINE N == num_map_jobs
  <2>2. N * v = N * w
    BY <1>12, <2>1
  <2>3. N \in Nat /\ N > 0
    BY <1>5
  <2> HIDE DEF N
  <2>4. v = w
    <3> HIDE DEF w
    <3> QED  BY <1>5, <2>2, <2>3, Cancel
  <2> QED  BY <1>11, <2>4
<1> QED  BY <1>1, <1>11, <1>12

LEMMA HonestReduceStep ==
    ASSUME SubchainInv, HonestInv, ReduceLayer
    PROVE  HonestInv'
<1> DEFINE m == Len(nodes) \div 2
           N == num_map_jobs * HEADERS_PER_MAP
<1> SUFFICES ASSUME honest', InCircuit'
             PROVE  /\ phase' = "reduce"
                    /\ \A w \in Nat : Len(nodes)' * w = N => HonestLayer(w)'
  BY DEF HonestInv
<1>1. /\ phase = "reduce" /\ Len(nodes) > 1
      /\ nodes' = [i \in 1 .. m |-> ReduceOutput(nodes[2 * i - 1], nodes[2 * i])]
      /\ honest /\ UNCHANGED <<trusted_block, target_block, phase, output>>
  BY DEF ReduceLayer
<1>2. InCircuit
  BY <1>1 DEF InCircuit, InBlocks, Length
<1>3. \A w \in Nat : Len(nodes) * w = N => HonestLayer(w)
  BY <1>1, <1>2 DEF HonestInv
<1>4. /\ trusted_block \in Nat /\ target_block \in Nat /\ Len(nodes) \in Nat
      /\ IsPower(Len(nodes))
      /\ \E w \in Nat : Len(nodes) * w = N
  BY <1>1 DEF SubchainInv, IsSequence, Reduced
<1>5. m \in Nat /\ m > 0 /\ Len(nodes) = 2 * m
  <2> DEFINE n == Len(nodes)
  <2>1. n \in Nat /\ IsPower(n) /\ n > 1
    BY <1>1, <1>4
  <2> HIDE DEF n
  <2>2. n \div 2 \in Nat /\ n = 2 * (n \div 2)
    BY <2>1, PowerHalves
  <2>3. n \div 2 > 0
    BY <2>1, <2>2
  <2> QED  BY <2>2, <2>3 DEF n
<1>6. PICK w \in Nat : Len(nodes) * w = N
  BY <1>4
<1>7. HonestLayer(w)
  BY <1>3, <1>6
<1> DEFINE double == 2 * w
<1>8. Len(nodes)' = m
  <2>1. DOMAIN nodes' = 1 .. m /\ nodes' = [i \in DOMAIN nodes' |-> nodes'[i]]
    BY <1>1
  <2> HIDE DEF m
  <2>2. Len(nodes') = m
    BY <1>5, <2>1, LengthIs
  <2> QED  BY <2>2
<1>9. m * double = N
  <2>1. Len(nodes) * w = (2 * m) * w
    BY <1>5, Zenon
  <2> HIDE DEF m
  <2>2. (2 * m) * w = m * (2 * w)
    BY <1>5
  <2> QED  BY <1>6, <2>1, <2>2
<1>10. ASSUME NEW i \in 1 .. m
       PROVE  HonestNode(nodes'[i], trusted_block, target_block, (i - 1) * double, double)
  <2> DEFINE left == nodes[2 * i - 1]
             right == nodes[2 * i]
             lo == (i - 1) * double
             mid == (2 * i - 1) * w
  <2>1. i \in Nat /\ i > 0 /\ 2 * i - 1 \in 1 .. Len(nodes) /\ 2 * i \in 1 .. Len(nodes)
    BY <1>5
  <2>2. /\ ((2 * i - 1) - 1) * w = lo /\ mid = lo + w /\ lo \in Nat
    BY <2>1, PairAdjacent
  <2>3. HonestNode(left, trusted_block, target_block, lo, w)
    BY <1>7, <2>1, <2>2 DEF HonestLayer
  <2>4. HonestNode(right, trusted_block, target_block, mid, w)
    BY <1>7, <2>1 DEF HonestLayer
  <2>5. Adjacent(lo, w, mid, double)
    <3>1. lo \in Nat /\ mid = lo + w /\ double \in Nat /\ double = 2 * w
      BY <2>2
    <3> HIDE DEF lo, mid, double
    <3>2. mid \in Nat
      BY <3>1
    <3> QED  BY <3>1, <3>2 DEF Adjacent
  <2> HIDE DEF left, right, lo, mid, double
  <2>6. HonestNode(ReduceOutput(left, right), trusted_block, target_block, lo, double)
    BY <1>4, <2>2, <2>3, <2>4, <2>5, HonestReduce
  <2>7. nodes'[i] = ReduceOutput(left, right)
    BY <1>1 DEF left, right
  <2> QED  BY <2>6, <2>7 DEF lo
<1>11. double \in Nat
  OBVIOUS
<1> HIDE DEF m, double, N
<1>12. HonestLayer(double)'
  BY <1>1, <1>8, <1>10 DEF HonestLayer
<1>13. ASSUME NEW v \in Nat, Len(nodes)' * v = N PROVE HonestLayer(v)'
  <2>1. m * v = m * double
    BY <1>8, <1>9, <1>13
  <2>2. v = double
    BY <1>5, <1>11, <2>1, Cancel
  <2> QED  BY <1>12, <2>2
<1> QED  BY <1>1, <1>13

(* The root covers the whole range, which the tree has room for. *)
LEMMA HonestRoot ==
    ASSUME SubchainInv, HonestInv, honest, InCircuit, phase = "reduce", Len(nodes) = 1
    PROVE  /\ nodes[1].start_parent = HeaderHash[trusted_block]
           /\ nodes[1].end_block = target_block
           /\ nodes[1].end_header_hash = HeaderHash[target_block]
<1> DEFINE N == num_map_jobs * HEADERS_PER_MAP
<1>1. trusted_block \in Nat /\ target_block \in Nat
      /\ target_block - trusted_block \in 1 .. MAX_NUM_HEADERS
  BY DEF SubchainInv, InCircuit, Length
<1>2. N \in Nat /\ MAX_NUM_HEADERS <= N /\ MAX_NUM_HEADERS \in Nat
  BY CircuitConstants, TreesAreOfOneSize, MaxNumHeadersAssumption
<1> HIDE DEF N
<1>3. HonestLayer(N)
  <2>1. Len(nodes) * N = N
    BY <1>2
  <2> QED  BY <1>2, <2>1 DEF HonestInv, N
<1>4. HonestNode(nodes[1], trusted_block, target_block, 0, N)
  <2>1. 1 \in 1 .. Len(nodes) /\ (1 - 1) * N = 0
    BY <1>2
  <2>2. HonestNode(nodes[1], trusted_block, target_block, (1 - 1) * N, N)
    BY <1>3, <2>1 DEF HonestLayer
  <2> QED  BY <2>1, <2>2
<1>5. Enabled(trusted_block, target_block, 0, N) = target_block - trusted_block
  BY <1>1, <1>2 DEF Enabled
<1> DEFINE n == target_block - trusted_block
<1>6. n # 0 /\ trusted_block + 0 = trusted_block /\ trusted_block + 0 + n = target_block
  BY <1>1
<1> HIDE DEF n
<1>7. /\ nodes[1].start_parent = HeaderHash[trusted_block + 0]
      /\ nodes[1].end_block = trusted_block + 0 + n
      /\ nodes[1].end_header_hash = HeaderHash[trusted_block + 0 + n]
  BY <1>4, <1>5, <1>6 DEF HonestNode, n
<1> QED  BY <1>6, <1>7

LEMMA HonestOutputStep ==
    ASSUME SubchainInv, HonestInv, Output
    PROVE  HonestInv'
<1> SUFFICES ASSUME honest', InCircuit'
             PROVE  /\ phase' = "done"
                    /\ output'.target_header_hash = HeaderHash[target_block']
  BY DEF HonestInv
<1>1. /\ phase = "reduce" /\ Len(nodes) = 1 /\ phase' = "done"
      /\ output'.target_header_hash = nodes[1].end_header_hash
      /\ honest /\ UNCHANGED <<trusted_block, target_block, nodes>>
  BY DEF Output
<1>2. InCircuit
  BY <1>1 DEF InCircuit, InBlocks, Length
<1> QED  BY <1>1, <1>2, HonestRoot

LEMMA HonestStep == SubchainInv /\ HonestInv /\ [Next]_vars => HonestInv'
<1> SUFFICES ASSUME SubchainInv, HonestInv, [Next]_vars PROVE HonestInv'
  OBVIOUS
<1>1. CASE \E headers \in [1 .. HEADERS_PER_MAP -> Headers] : MapJob(headers)
  BY <1>1, HonestMapStep
<1>2. CASE ReduceLayer
  BY <1>2, HonestReduceStep
<1>3. CASE Output
  BY <1>3, HonestOutputStep
<1>4. CASE UNCHANGED vars
  BY <1>4 DEF vars, HonestInv, HonestLayer, InCircuit, InBlocks, Length
<1> QED  BY <1>1, <1>2, <1>3, <1>4 DEF Next

(* No assertion of the subchain fails on what the fetcher supplies. *)
LEMMA HonestPasses ==
    ASSUME SubchainInv, HonestInv, InBlocks
    PROVE  HonestProverSucceeds
<1> SUFFICES ASSUME honest, InCircuit
             PROVE  /\ phase = "map" =>
                          MapAssertions(Len(nodes) + 1, FetchedHint(Len(nodes) + 1))
                    /\ phase = "reduce" /\ Len(nodes) > 1 => LayerLinked
                    /\ phase = "reduce" /\ Len(nodes) = 1 => GroundedInInputs
  BY DEF HonestProverSucceeds, InCircuit
<1>1. ASSUME phase = "map"
      PROVE  MapAssertions(Len(nodes) + 1, FetchedHint(Len(nodes) + 1))
  <2> DEFINE job == Len(nodes) + 1
             w == HEADERS_PER_MAP
             lo == Len(nodes) * w
  <2>1. Len(nodes) \in Nat /\ w \in Nat /\ trusted_block \in Nat
    BY CircuitConstants DEF SubchainInv, IsSequence
  <2>2. (Len(nodes) + 1) * w = lo + w /\ lo \in Nat
        /\ (Len(nodes) + 1) - 1 = Len(nodes)
    BY <2>1
  <2>3. BatchStart(job) = trusted_block + lo + 1
    BY <2>2 DEF BatchStart
  <2>4. BatchEnd(job) = trusted_block + (Len(nodes) + 1) * w
    BY DEF BatchEnd
  <2>5. BatchEnd(job) = trusted_block + lo + w
    <3> HIDE DEF lo, w, job
    <3> QED  BY <2>1, <2>2, <2>4
  <2> HIDE DEF lo, job
  <2>6. MapAssertions(job, FetchedHint(job))
    BY <2>2, <2>3, <2>5, HintPasses
  <2> QED  BY <2>6 DEF job
<1>2. ASSUME phase = "reduce", Len(nodes) > 1 PROVE LayerLinked
  <2> DEFINE m == Len(nodes) \div 2
             N == num_map_jobs * HEADERS_PER_MAP
  <2>1. /\ trusted_block \in Nat /\ target_block \in Nat /\ Len(nodes) \in Nat
        /\ \E w \in Nat : Len(nodes) * w = N
    BY <1>2 DEF SubchainInv, IsSequence, Reduced
  <2>2. PICK w \in Nat : Len(nodes) * w = N
    BY <2>1
  <2>3. HonestLayer(w)
    BY <1>2, <2>2 DEF HonestInv
  <2>4. m \in Nat /\ 2 * m <= Len(nodes)
    BY <2>1
  <2>5. ASSUME NEW i \in 1 .. m
        PROVE  SubchainsLinked(nodes[2 * i - 1], nodes[2 * i])
    <3> DEFINE left == nodes[2 * i - 1]
               right == nodes[2 * i]
               double == 2 * w
               lo == (i - 1) * double
               mid == (2 * i - 1) * w
    <3>1. i \in Nat /\ i > 0 /\ 2 * i - 1 \in 1 .. Len(nodes)
          /\ 2 * i \in 1 .. Len(nodes)
      BY <2>1, <2>4
    <3>2. /\ ((2 * i - 1) - 1) * w = lo /\ mid = lo + w /\ lo \in Nat
      BY <3>1, PairAdjacent
    <3>3. HonestNode(left, trusted_block, target_block, lo, w)
      BY <2>3, <3>1, <3>2 DEF HonestLayer
    <3>4. HonestNode(right, trusted_block, target_block, mid, w)
      BY <2>3, <3>1 DEF HonestLayer
    <3>5. Adjacent(lo, w, mid, double)
      <4>1. lo \in Nat /\ mid = lo + w /\ double \in Nat /\ double = 2 * w
        BY <3>2
      <4> HIDE DEF lo, mid, double
      <4>2. mid \in Nat
        BY <4>1
      <4> QED  BY <4>1, <4>2 DEF Adjacent
    <3> HIDE DEF left, right, lo, mid, double
    <3>6. SubchainsLinked(left, right)
      BY <2>1, <3>2, <3>3, <3>4, <3>5, HonestReduce
    <3> QED  BY <3>6 DEF left, right
  <2> QED  BY <2>5 DEF LayerLinked
<1>3. ASSUME phase = "reduce", Len(nodes) = 1 PROVE GroundedInInputs
  BY <1>3, HonestRoot DEF GroundedInInputs
<1> QED  BY <1>1, <1>2, <1>3

(* The precommits of a whole set justify the target it finalized. *)
LEMMA AllSigned ==
    ASSUME target_block \in Blocks \ {0}, JustificationAvailable(target_block),
           output.target_header_hash = HeaderHash[target_block],
           NEW s, s = JustifyingSet(target_block)
    PROVE  Justified(s, SignedMessage(target_block, s), Members(s))
<1> DEFINE keys == get_authorities(target_block - 1)
           data == JustificationData(keys, SignedMessage(target_block, s), Members(s))
           justification == CircuitJustification(target_block, data)
<1>1. s \in SetIds /\ keys = AuthoritiesOf[s]
  BY JustifyingSetType
<1>2. Cardinality(Members(s)) * 3 > Len(keys) * 2
  <2>1. Len(keys) \in Nat \ {0}
    BY <1>1, KeysOfSet
  <2>2. Cardinality(Members(s)) = Len(keys)
    BY <1>1, MembersOfSet
  <2> HIDE DEF keys
  <2> QED  BY <2>1, <2>2
<1>3. Provable(target_block, data)
  BY <1>2, SignedIsProvable
<1>4. AuthoritySetHash[s] = compute_authority_set_hash(keys)
  BY <1>1, AuthoritySetHashAssumption
<1> HIDE DEF data
<1>5. /\ HintSimpleJustification(s, data, justification)
      /\ verify_simple_justification(target_block, HeaderHash[target_block],
             s, AuthoritySetHash[s], justification)
  BY <1>3, <1>4 DEF Provable
<1> QED  BY <1>5 DEF Justified, HintedData, data

LEMMA InvComplete == HeaderRangeInv /\ HonestInv => HeaderRangeComplete
<1> SUFFICES ASSUME HeaderRangeInv, HonestInv, NEW s \in SetIds, honest,
                    HeaderRangeProvable(Input(s), MaxBlock)
             PROVE  /\ HonestProverSucceeds
                    /\ phase = "done" =>
                          Justified(s, SignedMessage(target_block, s), Members(s))
  BY DEF HeaderRangeComplete
<1>1. SubchainInv /\ InBlocks
  BY DEF HeaderRangeInv
<1>2. /\ trusted_block < target_block
      /\ target_block <= trusted_block + MAX_NUM_HEADERS
      /\ JustificationAvailable(target_block)
      /\ s = JustifyingSet(target_block)
  BY DEF HeaderRangeProvable, Input
<1>3. target_block \in Blocks \ {0} /\ InCircuit
  BY <1>1, <1>2, MaxBlockAssumption, MaxNumHeadersAssumption
     DEF InBlocks, Blocks, InCircuit, Length
<1>4. phase = "done" => output.target_header_hash = HeaderHash[target_block]
  BY <1>3 DEF HonestInv
<1> QED  BY <1>1, <1>2, <1>3, <1>4, HonestPasses, AllSigned

LEMMA HonestStart == HeaderRangeInit => HonestInv
BY HonestInit DEF HeaderRangeInit

LEMMA HonestRangeStep ==
    HeaderRangeInv /\ HonestInv /\ [HeaderRangeNext]_headerRangeVars => HonestInv'
<1> SUFFICES ASSUME HeaderRangeInv, HonestInv, [HeaderRangeNext]_headerRangeVars
             PROVE  [Next]_vars
  BY HonestStep DEF HeaderRangeInv
<1>1. CASE VerifySubchain
  BY <1>1 DEF VerifySubchain
<1>2. CASE \E s \in SetIds, b \in Blocks \ {0} :
              \E signers \in SUBSET Members(JustifyingSet(b)) :
                 define(s, SignedMessage(b, JustifyingSet(b)), signers)
  BY <1>2 DEF define
<1>3. CASE UNCHANGED headerRangeVars
  BY <1>3 DEF headerRangeVars
<1> QED  BY <1>1, <1>2, <1>3 DEF HeaderRangeNext

(* For a range that HeaderRangeProvable admits no assertion fails on the   *)
(* headers that the fetcher supplies, at every size of the map-reduce, and *)
(* the precommits of the whole set pass the justification                  *)
(* (header_range.rs: define).                                              *)
THEOREM HonestProverGetsProof == HeaderRangeSpec => []HeaderRangeComplete
<1>1. HeaderRangeInit => HeaderRangeInv /\ HonestInv
  BY HeaderRangeStart, HonestStart
<1>2. HeaderRangeInv /\ HonestInv /\ [HeaderRangeNext]_headerRangeVars
         => HeaderRangeInv' /\ HonestInv'
  BY HeaderRangeStep, HonestRangeStep
<1> QED  BY <1>1, <1>2, InvComplete, PTL DEF HeaderRangeSpec
=============================================================================
