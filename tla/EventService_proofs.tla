------------------------ MODULE EventService_proofs ------------------------
(***************************************************************************)
(* The event service, for every list of deployments, every choice of those *)
(* that are configured, and every number of resets, reorganizations and    *)
(* starts: what Redis holds was stored by the contract, and a subscription *)
(* loses no log while it is open.                                          *)
(***************************************************************************)
EXTENDS EventService, SequenceTheorems, WellFoundedInduction, TLAPS

(* A transaction emits one log at least. *)
Transaction(c) == Seq(BlockRanges(c)) \ {<<>>}

StoredBy(txs) == UNION {ToSet(txs[i]) : i \in DOMAIN txs}

(* The ranges that the contract stores or stored before a reorganization. *)
EverStored(txs, rem) == StoredBy(txs) \cup rem

LogsOf(c, rs) == {Log(c, r, isRemoved) : r \in rs, isRemoved \in BOOLEAN}

Entries(c, rs) == {Entry(c, r) : r \in rs}

RangesIn(st) == {<<st[i].startBlock, st[i].endBlock>> : i \in DOMAIN st}

(***************************************************************************)
(* The inductive invariant of one deployment, on the values of its         *)
(* variables.  Every log in the stream is of a range that was stored,      *)
(* because reorganized ranges are kept in removed; nothing is delivered    *)
(* before the subscription is made; and what was delivered is in Redis or  *)
(* still in the stream.                                                    *)
(***************************************************************************)
DeploymentOK(c, latest, txs, rem, tk, st, del, rgs, aw) ==
    /\ latest \in Blocks(c)
    /\ txs \in Seq(Transaction(c))
    /\ rem \subseteq BlockRanges(c)
    /\ tk \in {"none", "connecting", "listening", "draining", "returned",
               "panicked"}
    /\ tk = "none" <=> aw = 0
    /\ st \in Seq(LogsOf(c, EverStored(txs, rem)))
    /\ st # <<>> => tk \in {"listening", "draining"}
    /\ rgs \subseteq Entries(c, EverStored(txs, rem))
    /\ tk = "connecting" => del = {}
    /\ tk \in {"listening", "draining", "returned"} =>
          \A r \in del : Entry(c, r) \in rgs \/ r \in RangesIn(st)

DeploymentInv(c) ==
    DeploymentOK(c, latestBlock[c], transactions[c], removed[c], task[c],
                 stream[c], delivered[c], ranges[c], awaited)

HandlesInv ==
    /\ awaited \in 0 .. Len(join_handles)
    /\ \A i \in 1 .. awaited - 1 : task[join_handles[i]] = "returned"

EventsInv ==
    /\ DOMAIN latestBlock = Configured
    /\ DOMAIN transactions = Configured
    /\ DOMAIN removed = Configured
    /\ DOMAIN task = Configured
    /\ DOMAIN stream = Configured
    /\ DOMAIN delivered = Configured
    /\ DOMAIN ranges = Configured
    /\ HandlesInv
    /\ \A c \in Configured : DeploymentInv(c)

-----------------------------------------------------------------------------
(* The handles main awaits are of configured deployments. *)
LEMMA HandlesAreConfigured ==
    /\ Len(join_handles) \in Nat
    /\ join_handles # <<>> => Len(join_handles) > 0
    /\ \A i \in 1 .. Len(join_handles) : join_handles[i] \in Configured
<1> DEFINE IsPushed(f, m) ==
               f = [n \in 0 .. m |->
                       IF n = 0 THEN <<>>
                       ELSE IF chains[n] \in Configured
                            THEN Append(f[n - 1], chains[n])
                            ELSE f[n - 1]]
           Less == {p \in Nat \X Nat : p[1] < p[2]}
           S == {m \in Nat : ~\E f \in [0 .. m -> Seq(Configured)] : IsPushed(f, m)}
           last == Len(chains)
           pushed == CHOOSE f : IsPushed(f, last)
<1>1. S = {}
  <2>1. SUFFICES ASSUME S # {} PROVE FALSE
    OBVIOUS
  <2>2. PICK m \in S : \A k \in S : ~(k < m)
    <3>1. IsWellFoundedOn(Less, Nat)
      BY NatLessThanWellFounded DEF OpToRel
    <3>2. S \subseteq Nat
      OBVIOUS
    <3>3. \E m \in S : \A k \in S : <<k, m>> \notin Less
      <4> HIDE DEF S, Less
      <4> QED  BY <2>1, <3>1, <3>2, WFMin
    <3> QED  BY <3>2, <3>3
  <2>3. CASE m = 0
    <3> DEFINE f == [n \in 0 .. 0 |-> <<>>]
    <3>1. <<>> \in Seq(Configured)
      BY EmptySeq
    <3>2. f \in [0 .. 0 -> Seq(Configured)] /\ IsPushed(f, 0)
      BY <3>1
    <3> QED  BY <2>2, <2>3, <3>2
  <2>4. CASE m # 0
    <3>1. m - 1 \in Nat /\ m - 1 \notin S /\ m \in Nat
      <4>1. m \in Nat
        OBVIOUS
      <4> HIDE DEF S
      <4> QED  BY <2>2, <2>4, <4>1
    <3>2. PICK f \in [0 .. m - 1 -> Seq(Configured)] : IsPushed(f, m - 1)
      BY <3>1
    <3> DEFINE new == IF chains[m] \in Configured
                      THEN Append(f[m - 1], chains[m]) ELSE f[m - 1]
               g == [n \in 0 .. m |-> IF n = m THEN new ELSE f[n]]
    <3>3. f[m - 1] \in Seq(Configured)
      BY <3>1, <3>2
    <3>4. new \in Seq(Configured)
      BY <3>3
    <3> HIDE DEF new
    <3>5. \A n \in 0 .. m - 1 : f[n] = IF n = 0 THEN <<>>
                                       ELSE IF chains[n] \in Configured
                                            THEN Append(f[n - 1], chains[n])
                                            ELSE f[n - 1]
      BY <3>2
    <3>6. \A n \in 0 .. m : g[n] = IF n = m THEN new ELSE f[n]
      OBVIOUS
    <3>7. g \in [0 .. m -> Seq(Configured)]
      BY <3>1, <3>2, <3>4
    <3>8. \A n \in 0 .. m : g[n] = IF n = 0 THEN <<>>
                                   ELSE IF chains[n] \in Configured
                                        THEN Append(g[n - 1], chains[n])
                                        ELSE g[n - 1]
      <4> SUFFICES ASSUME NEW n \in 0 .. m
                   PROVE  g[n] = IF n = 0 THEN <<>>
                                 ELSE IF chains[n] \in Configured
                                      THEN Append(g[n - 1], chains[n])
                                      ELSE g[n - 1]
        OBVIOUS
      <4>1. n # 0 => g[n - 1] = f[n - 1]
        BY <3>1, <3>6
      <4> HIDE DEF g
      <4>2. CASE n = m
        BY <2>4, <3>6, <4>1, <4>2 DEF new
      <4>3. CASE n # m
        <5>1. n \in 0 .. m - 1 /\ g[n] = f[n]
          BY <3>1, <3>6, <4>3
        <5> QED  BY <3>5, <4>1, <5>1
      <4> QED  BY <4>2, <4>3
    <3>9. IsPushed(g, m)
      BY <3>8
    <3> HIDE DEF g, IsPushed
    <3> QED  BY <2>2, <3>7, <3>9
  <2> QED  BY <2>3, <2>4
<1>2. last \in Nat
  BY EventServiceAssumption
<1>3. PICK f \in [0 .. last -> Seq(Configured)] : IsPushed(f, last)
  <2> HIDE DEF IsPushed
  <2> QED  BY <1>1, <1>2
<1> HIDE DEF S
<1>4. IsPushed(pushed, last)
  <2> HIDE DEF IsPushed
  <2> QED  BY <1>3
<1>5. join_handles = pushed[last]
  BY DEF join_handles
<1> DEFINE Bad == {n \in 0 .. last : pushed[n] \notin Seq(Configured)}
<1>6. Bad = {}
  <2>1. SUFFICES ASSUME Bad # {} PROVE FALSE
    OBVIOUS
  <2>2. PICK m \in Bad : \A k \in Bad : ~(k < m)
    <3>1. IsWellFoundedOn(Less, Nat)
      BY NatLessThanWellFounded DEF OpToRel
    <3>2. Bad \subseteq Nat
      BY <1>2
    <3>3. \E m \in Bad : \A k \in Bad : <<k, m>> \notin Less
      <4> HIDE DEF Bad, Less
      <4> QED  BY <2>1, <3>1, <3>2, WFMin
    <3> QED  BY <3>2, <3>3
  <2> HIDE DEF pushed, last
  <2>3. pushed[m] = IF m = 0 THEN <<>>
                    ELSE IF chains[m] \in Configured
                         THEN Append(pushed[m - 1], chains[m])
                         ELSE pushed[m - 1]
    BY <1>4, <2>2
  <2>4. m # 0 => m - 1 \in 0 .. last /\ m - 1 \notin Bad
    BY <1>2, <2>2
  <2>5. m # 0 => pushed[m - 1] \in Seq(Configured)
    BY <2>4
  <2>6. pushed[m] \in Seq(Configured)
    BY <2>3, <2>5, EmptySeq
  <2> QED  BY <2>2, <2>6
<1>7. join_handles \in Seq(Configured)
  <2> HIDE DEF pushed, last
  <2> QED  BY <1>2, <1>5, <1>6
<1> QED  BY <1>7, ElementOfSeq, LenProperties, EmptySeq

-----------------------------------------------------------------------------
(* A step of one deployment leaves the others as they are. *)

(* new is old with another value v for c. *)
Changed(c, old, new, v) ==
    /\ DOMAIN new = Configured
    /\ new[c] = v
    /\ \A d \in Configured \ {c} : new[d] = old[d]

LEMMA ChangedBy ==
    ASSUME NEW c \in Configured, NEW old, DOMAIN old = Configured, NEW v
    PROVE  /\ Changed(c, old, old, old[c])
           /\ Changed(c, old, [old EXCEPT ![c] = v], v)
BY DEF Changed

LEMMA OneDeploymentStep ==
    ASSUME EventsInv, NEW c \in Configured, UNCHANGED awaited,
           NEW latest, Changed(c, latestBlock, latestBlock', latest),
           NEW txs, Changed(c, transactions, transactions', txs),
           NEW rem, Changed(c, removed, removed', rem),
           NEW tk, Changed(c, task, task', tk),
           NEW st, Changed(c, stream, stream', st),
           NEW del, Changed(c, delivered, delivered', del),
           NEW rgs, Changed(c, ranges, ranges', rgs),
           task[c] = "returned" => tk = "returned",
           DeploymentOK(c, latest, txs, rem, tk, st, del, rgs, awaited)
    PROVE  EventsInv'
<1> USE DEF EventsInv, Changed
<1>1. HandlesInv'
  <2>1. \A i \in 1 .. awaited - 1 : join_handles[i] \in Configured
    BY HandlesAreConfigured DEF HandlesInv
  <2>2. \A d \in Configured : task[d] = "returned" => task'[d] = "returned"
    OBVIOUS
  <2> QED  BY <2>1, <2>2 DEF HandlesInv
<1>2. \A d \in Configured : DeploymentInv(d)'
  <2> SUFFICES ASSUME NEW d \in Configured PROVE DeploymentInv(d)'
    OBVIOUS
  <2>1. CASE d = c
    BY <2>1 DEF DeploymentInv
  <2>2. CASE d # c
    BY <2>2 DEF DeploymentInv
  <2> QED  BY <2>1, <2>2
<1> QED  BY <1>1, <1>2

-----------------------------------------------------------------------------
(* The history of a contract and the logs of a stream.                     *)

(* The ranges a contract stored are ranges of its blocks. *)
LEMMA StoredAreRanges ==
    ASSUME NEW c \in Configured, NEW txs \in Seq(Transaction(c))
    PROVE  StoredBy(txs) \subseteq BlockRanges(c)
<1>1. \A i \in DOMAIN txs : txs[i] \in Seq(BlockRanges(c))
  BY LenProperties DEF Transaction
<1>2. \A i \in DOMAIN txs : \A j \in DOMAIN txs[i] : txs[i][j] \in BlockRanges(c)
  BY <1>1, LenProperties
<1> QED  BY <1>2 DEF StoredBy, ToSet

(* A new transaction adds its ranges. *)
LEMMA StoredByAppend ==
    ASSUME NEW c \in Configured, NEW txs \in Seq(Transaction(c)),
           NEW rs \in Transaction(c)
    PROVE  /\ Append(txs, rs) \in Seq(Transaction(c))
           /\ StoredBy(Append(txs, rs)) = StoredBy(txs) \cup ToSet(rs)
<1> DEFINE T == Transaction(c)
           new == Append(txs, rs)
<1> HIDE DEF T
<1>1. /\ new \in Seq(T) /\ Len(new) = Len(txs) + 1 /\ Len(txs) \in Nat
      /\ DOMAIN new = 1 .. Len(txs) + 1 /\ DOMAIN txs = 1 .. Len(txs)
      /\ \A i \in 1 .. Len(txs) : new[i] = txs[i]
      /\ new[Len(txs) + 1] = rs
  BY DEF T
<1>2. \A x : x \in StoredBy(new) <=> x \in StoredBy(txs) \cup ToSet(rs)
  <2> HIDE DEF new
  <2>1. \A i \in DOMAIN new : i \in DOMAIN txs \/ i = Len(txs) + 1
    BY <1>1
  <2>2. /\ \A i \in DOMAIN txs : i \in DOMAIN new /\ new[i] = txs[i]
        /\ Len(txs) + 1 \in DOMAIN new
    BY <1>1
  <2> QED  BY <1>1, <2>1, <2>2 DEF StoredBy
<1>3. StoredBy(new) = StoredBy(txs) \cup ToSet(rs)
  BY <1>2
<1> QED  BY <1>1, <1>3 DEF T

(* A reorganization takes those of the last transaction. *)
LEMMA StoredByFront ==
    ASSUME NEW c \in Configured, NEW txs \in Seq(Transaction(c)), txs # <<>>
    PROVE  /\ Front(txs) \in Seq(Transaction(c))
           /\ Last(txs) \in Transaction(c)
           /\ StoredBy(txs) = StoredBy(Front(txs)) \cup ToSet(Last(txs))
<1> DEFINE T == Transaction(c)
           n == Len(txs)
           old == Front(txs)
<1> HIDE DEF T
<1>1. /\ n \in Nat \ {0} /\ DOMAIN txs = 1 .. n
      /\ \A i \in 1 .. n : txs[i] \in T
  BY EmptySeq, LenProperties, ElementOfSeq DEF T
<1>2. /\ old \in Seq(T) /\ Len(old) = n - 1
      /\ \A i \in 1 .. n - 1 : old[i] = txs[i]
  <2>1. \A i \in 1 .. n - 1 : txs[i] \in T
    BY <1>1
  <2>2. /\ SubSeq(txs, 1, n - 1) \in Seq(T)
        /\ Len(SubSeq(txs, 1, n - 1)) =
              IF 1 <= n - 1 THEN (n - 1) - 1 + 1 ELSE 0
        /\ \A i \in 1 .. (n - 1) - 1 + 1 :
              SubSeq(txs, 1, n - 1)[i] = txs[1 + i - 1]
    <3> HIDE DEF n
    <3> QED  BY <1>1, <2>1, SubSeqProperties
  <2> QED  BY <1>1, <2>2 DEF Front
<1>3. DOMAIN old = 1 .. n - 1
  BY <1>2, LenProperties
<1> HIDE DEF old, n
<1>4. Last(txs) = txs[n] /\ Last(txs) \in T
  BY <1>1 DEF Last, n
<1>5. \A x : x \in StoredBy(txs) <=> x \in StoredBy(old) \cup ToSet(txs[n])
  <2>1. \A i \in DOMAIN txs : i \in DOMAIN old \/ i = n
    BY <1>1, <1>3
  <2>2. /\ \A i \in DOMAIN old : i \in DOMAIN txs /\ old[i] = txs[i]
        /\ n \in DOMAIN txs
    BY <1>1, <1>2, <1>3
  <2> QED  BY <2>1, <2>2 DEF StoredBy
<1>6. StoredBy(txs) = StoredBy(old) \cup ToSet(txs[n])
  BY <1>5
<1> QED  BY <1>2, <1>4, <1>6 DEF T, old

(* What a log says. *)
LEMMA LogFacts ==
    ASSUME NEW c \in Configured, NEW r \in BlockRanges(c), NEW isRemoved
    PROVE  LET log == Log(c, r, isRemoved)
           IN  /\ <<log.startBlock, log.endBlock>> = r
               /\ DataCommitmentRange(log) = Entry(c, r).member
               /\ log.endBlock = Entry(c, r).score
BY DEF BlockRanges, Log, DataCommitmentRange, Entry

(* A delivery appends the logs of a transaction to the stream. *)
WithLogs(st, c, rs, isRemoved) ==
    st \o [i \in DOMAIN rs |-> Log(c, rs[i], isRemoved)]

LEMMA DeliverLogs ==
    ASSUME NEW c \in Configured, NEW R \in SUBSET BlockRanges(c),
           NEW rs \in Seq(R), NEW isRemoved \in BOOLEAN,
           NEW st \in Seq(LogsOf(c, R))
    PROVE  LET new == WithLogs(st, c, rs, isRemoved)
           IN  /\ new \in Seq(LogsOf(c, R))
               /\ RangesIn(new) = RangesIn(st) \cup ToSet(rs)
<1> DEFINE L == LogsOf(c, R)
           logs == [i \in DOMAIN rs |-> Log(c, rs[i], isRemoved)]
           new == st \o logs
<1>1. /\ Len(rs) \in Nat /\ DOMAIN rs = 1 .. Len(rs)
      /\ \A i \in 1 .. Len(rs) : rs[i] \in R
  BY LenProperties, ElementOfSeq
<1>2. logs \in Seq(L) /\ Len(logs) = Len(rs)
  <2>1. \A i \in 1 .. Len(rs) : Log(c, rs[i], isRemoved) \in L
    BY <1>1 DEF LogsOf
  <2> HIDE DEF L
  <2>2. logs \in [1 .. Len(rs) -> L] /\ DOMAIN logs = 1 .. Len(rs)
    BY <1>1, <2>1
  <2>3. logs \in Seq(L)
    BY <1>1, <2>2, SeqDef
  <2> HIDE DEF logs
  <2> QED  BY <1>1, <2>2, <2>3, LenProperties
<1>3. \A i \in 1 .. Len(rs) :
          <<logs[i].startBlock, logs[i].endBlock>> = rs[i]
  BY <1>1, LogFacts
<1> HIDE DEF logs, L
<1>4. st \in Seq(L)
  BY DEF L
<1>5. /\ new \in Seq(L) /\ Len(new) = Len(st) + Len(rs)
      /\ \A i \in 1 .. Len(st) + Len(rs) :
            new[i] = IF i <= Len(st) THEN st[i] ELSE logs[i - Len(st)]
  <2>1. /\ new \in Seq(L) /\ Len(new) = Len(st) + Len(logs)
        /\ \A i \in 1 .. Len(st) + Len(logs) :
              new[i] = IF i <= Len(st) THEN st[i] ELSE logs[i - Len(st)]
    BY <1>2, <1>4, ConcatProperties
  <2> HIDE DEF new
  <2> QED  BY <1>2, <2>1
<1>6. /\ Len(st) \in Nat /\ DOMAIN st = 1 .. Len(st)
      /\ DOMAIN new = 1 .. Len(st) + Len(rs)
  <2> HIDE DEF new
  <2> QED  BY <1>4, <1>5, LenProperties
<1> HIDE DEF new
<1>7. RangesIn(new) \subseteq RangesIn(st) \cup ToSet(rs)
  <2> SUFFICES ASSUME NEW i \in DOMAIN new
               PROVE  <<new[i].startBlock, new[i].endBlock>>
                          \in RangesIn(st) \cup ToSet(rs)
    BY DEF RangesIn
  <2>1. CASE i <= Len(st)
    BY <1>1, <1>5, <1>6, <2>1 DEF RangesIn
  <2>2. CASE ~(i <= Len(st))
    <3>1. i - Len(st) \in 1 .. Len(rs) /\ new[i] = logs[i - Len(st)]
      BY <1>1, <1>5, <1>6, <2>2
    <3>2. <<new[i].startBlock, new[i].endBlock>> = rs[i - Len(st)]
      BY <1>3, <3>1
    <3> QED  BY <1>1, <3>1, <3>2 DEF ToSet
  <2> QED  BY <2>1, <2>2
<1>8. RangesIn(st) \subseteq RangesIn(new)
  <2>1. \A i \in DOMAIN st : i \in DOMAIN new /\ new[i] = st[i]
    BY <1>1, <1>5, <1>6
  <2> QED  BY <2>1 DEF RangesIn
<1>9. ToSet(rs) \subseteq RangesIn(new)
  <2> SUFFICES ASSUME NEW i \in 1 .. Len(rs) PROVE rs[i] \in RangesIn(new)
    BY <1>1 DEF ToSet
  <2>1. PICK k \in 1 .. Len(st) + Len(rs) : k = Len(st) + i
    BY <1>1, <1>6
  <2>2. k \in DOMAIN new /\ ~(k <= Len(st)) /\ k - Len(st) = i
    BY <1>1, <1>6, <2>1
  <2>3. new[k] = logs[i]
    BY <1>5, <2>2
  <2> QED  BY <1>3, <2>2, <2>3 DEF RangesIn
<1> QED  BY <1>5, <1>7, <1>8, <1>9 DEF L, new, logs, WithLogs

-----------------------------------------------------------------------------
(* The contracts. *)

(* What Deliver does to the stream and to what was delivered, when the     *)
(* ranges of the logs are among those that were ever stored.               *)
LEMMA DeliverStep ==
    ASSUME EventsInv, NEW c \in Configured, NEW R \in SUBSET BlockRanges(c),
           EverStored(transactions[c], removed[c]) \subseteq R,
           NEW rs \in Seq(R), NEW isRemoved \in BOOLEAN,
           Deliver(c, rs, isRemoved)
    PROVE  \E st, del :
              /\ Changed(c, stream, stream', st)
              /\ Changed(c, delivered, delivered', del)
              /\ st \in Seq(LogsOf(c, R))
              /\ st # <<>> => task[c] \in {"listening", "draining"}
              /\ task[c] = "connecting" => del = {}
              /\ task[c] \in {"listening", "draining", "returned"} =>
                    \A r \in del : Entry(c, r) \in ranges[c] \/ r \in RangesIn(st)
<1>1. /\ stream[c] \in Seq(LogsOf(c, R))
      /\ DOMAIN stream = Configured /\ DOMAIN delivered = Configured
  <2>1. LogsOf(c, EverStored(transactions[c], removed[c])) \subseteq LogsOf(c, R)
    BY DEF LogsOf
  <2> QED  BY <2>1, SeqMonotonic DEF EventsInv, DeploymentInv, DeploymentOK
<1>2. CASE task[c] = "listening"
  <2> DEFINE st == WithLogs(stream[c], c, rs, isRemoved)
             del == delivered[c] \cup ToSet(rs)
  <2>1. st \in Seq(LogsOf(c, R)) /\ RangesIn(st) = RangesIn(stream[c]) \cup ToSet(rs)
    BY <1>1, DeliverLogs
  <2>2. /\ stream' = [stream EXCEPT ![c] = st]
        /\ delivered' = [delivered EXCEPT ![c] = del]
    BY <1>2 DEF Deliver, WithLogs
  <2> HIDE DEF st
  <2>3. /\ Changed(c, stream, stream', st)
        /\ Changed(c, delivered, delivered', del)
    BY <1>1, <2>2, ChangedBy
  <2>4. \A r \in delivered[c] : Entry(c, r) \in ranges[c] \/ r \in RangesIn(stream[c])
    BY <1>2 DEF EventsInv, DeploymentInv, DeploymentOK
  <2> QED  BY <1>2, <2>1, <2>3, <2>4
<1>3. CASE task[c] # "listening"
  <2>1. UNCHANGED <<stream, delivered>>
    BY <1>3 DEF Deliver
  <2>2. /\ Changed(c, stream, stream', stream[c])
        /\ Changed(c, delivered, delivered', delivered[c])
    BY <1>1, <2>1, ChangedBy
  <2> QED  BY <1>1, <2>2 DEF EventsInv, DeploymentInv, DeploymentOK
<1> QED  BY <1>2, <1>3

LEMMA EmitStep ==
    ASSUME EventsInv, NEW c \in Configured, NEW rs \in Transaction(c),
           Last(rs)[2] \in Blocks(c), Emit(c, rs)
    PROVE  EventsInv'
<1> DEFINE txs == Append(transactions[c], rs)
           R == EverStored(txs, removed[c])
           old == EverStored(transactions[c], removed[c])
<1>1. DeploymentInv(c) /\ transactions[c] \in Seq(Transaction(c))
      /\ removed[c] \subseteq BlockRanges(c)
  BY DEF EventsInv, DeploymentInv, DeploymentOK
<1>2. txs \in Seq(Transaction(c)) /\ StoredBy(txs) = StoredBy(transactions[c]) \cup ToSet(rs)
  BY <1>1, StoredByAppend
<1> HIDE DEF txs
<1>3. R \in SUBSET BlockRanges(c) /\ old \subseteq R /\ ToSet(rs) \subseteq R
  BY <1>1, <1>2, StoredAreRanges DEF EverStored
<1>4. rs \in Seq(R)
  <2>1. rs \in Seq(BlockRanges(c))
    BY DEF Transaction
  <2>2. /\ Len(rs) \in Nat /\ DOMAIN rs = 1 .. Len(rs)
        /\ rs \in [1 .. Len(rs) -> BlockRanges(c)]
    BY <2>1, LenProperties
  <2>3. \A i \in 1 .. Len(rs) : rs[i] \in R
    BY <1>3, <2>2 DEF ToSet
  <2> HIDE DEF R
  <2>4. rs \in [1 .. Len(rs) -> R]
    BY <2>2, <2>3
  <2> QED  BY <2>2, <2>4, SeqDef
<1>5. /\ DOMAIN transactions = Configured /\ DOMAIN latestBlock = Configured
      /\ DOMAIN removed = Configured /\ DOMAIN task = Configured
      /\ DOMAIN ranges = Configured
  BY DEF EventsInv
<1>6. PICK st, del :
          /\ Changed(c, stream, stream', st)
          /\ Changed(c, delivered, delivered', del)
          /\ st \in Seq(LogsOf(c, R))
          /\ st # <<>> => task[c] \in {"listening", "draining"}
          /\ task[c] = "connecting" => del = {}
          /\ task[c] \in {"listening", "draining", "returned"} =>
                \A r \in del : Entry(c, r) \in ranges[c] \/ r \in RangesIn(st)
  <2>1. Deliver(c, rs, FALSE)
    BY DEF Emit
  <2> HIDE DEF R
  <2> QED  BY <1>3, <1>4, <2>1, DeliverStep
<1>7. /\ Changed(c, transactions, transactions', txs)
      /\ Changed(c, latestBlock, latestBlock', Last(rs)[2])
      /\ Changed(c, removed, removed', removed[c])
      /\ Changed(c, task, task', task[c])
      /\ Changed(c, ranges, ranges', ranges[c])
      /\ UNCHANGED awaited
  <2>1. /\ transactions' = [transactions EXCEPT ![c] = txs]
        /\ latestBlock' = [latestBlock EXCEPT ![c] = Last(rs)[2]]
        /\ UNCHANGED <<removed, task, ranges, awaited>>
    BY DEF Emit, txs
  <2> QED  BY <1>5, <2>1, ChangedBy
<1>8. DeploymentOK(c, Last(rs)[2], txs, removed[c], task[c], st, del,
                   ranges[c], awaited)
  <2>1. Entries(c, old) \subseteq Entries(c, R)
    BY <1>3 DEF Entries
  <2> HIDE DEF R, old
  <2> QED  BY <1>1, <1>2, <1>6, <2>1 DEF DeploymentInv, DeploymentOK, R, old
<1> QED  BY <1>6, <1>7, <1>8, OneDeploymentStep

LEMMA commitHeaderRangeStep ==
    ASSUME EventsInv, NEW c \in Configured, NEW b \in Blocks(c),
           commitHeaderRange(c, b)
    PROVE  EventsInv'
<1> DEFINE r == <<latestBlock[c], b>>
           rs == <<r>>
<1>1. r \in BlockRanges(c)
  <2>1. latestBlock[c] \in Blocks(c) /\ b > latestBlock[c]
    BY DEF EventsInv, DeploymentInv, DeploymentOK, commitHeaderRange
  <2> QED  BY <2>1 DEF BlockRanges, Blocks
<1>2. rs \in Transaction(c) /\ Last(rs) = r
  <2> HIDE DEF r
  <2> QED  BY <1>1 DEF Transaction, Last
<1>3. Emit(c, rs) /\ Last(rs)[2] = b
  BY <1>2 DEF commitHeaderRange
<1> HIDE DEF rs
<1> QED  BY <1>2, <1>3, EmitStep

LEMMA updateBlockRangeDataStep ==
    ASSUME EventsInv, NEW c \in Configured, NEW m \in Blocks(c),
           NEW e \in Blocks(c), updateBlockRangeData(c, m, e)
    PROVE  EventsInv'
<1> DEFINE r1 == <<latestBlock[c], m>>
           r2 == <<m, e>>
           rs == <<r1, r2>>
<1>1. r1 \in BlockRanges(c) /\ r2 \in BlockRanges(c)
  <2>1. latestBlock[c] \in Blocks(c) /\ latestBlock[c] < m /\ m < e
    BY DEF EventsInv, DeploymentInv, DeploymentOK, updateBlockRangeData
  <2> QED  BY <2>1 DEF BlockRanges, Blocks
<1>2. rs \in Transaction(c) /\ Last(rs) = r2
  <2> HIDE DEF r1, r2
  <2> QED  BY <1>1 DEF Transaction, Last
<1>3. Emit(c, rs) /\ Last(rs)[2] = e
  BY <1>2 DEF updateBlockRangeData
<1> HIDE DEF rs
<1> QED  BY <1>2, <1>3, EmitStep

LEMMA ReorganizeStep ==
    ASSUME EventsInv, NEW c \in Configured, Reorganize(c)
    PROVE  EventsInv'
<1> DEFINE last == Last(transactions[c])
           txs == Front(transactions[c])
           rem == removed[c] \cup ToSet(last)
           R == EverStored(transactions[c], removed[c])
<1>1. DeploymentInv(c) /\ transactions[c] \in Seq(Transaction(c))
      /\ removed[c] \subseteq BlockRanges(c) /\ transactions[c] # <<>>
  BY DEF EventsInv, DeploymentInv, DeploymentOK, Reorganize
<1>2. /\ txs \in Seq(Transaction(c)) /\ last \in Transaction(c)
      /\ StoredBy(transactions[c]) = StoredBy(txs) \cup ToSet(last)
  BY <1>1, StoredByFront
<1> HIDE DEF last, txs
<1>3. R \in SUBSET BlockRanges(c) /\ EverStored(txs, rem) = R /\ ToSet(last) \subseteq R
  BY <1>1, <1>2, StoredAreRanges DEF EverStored
<1>4. /\ last \in Seq(R) /\ last[1][1] \in Blocks(c)
      /\ rem \subseteq BlockRanges(c)
  <2>1. last \in Seq(BlockRanges(c)) /\ last # <<>>
    BY <1>2 DEF Transaction
  <2>2. /\ Len(last) \in Nat \ {0} /\ DOMAIN last = 1 .. Len(last)
        /\ last \in [1 .. Len(last) -> BlockRanges(c)]
    BY <2>1, LenProperties, EmptySeq
  <2>3. \A i \in 1 .. Len(last) : last[i] \in R /\ last[i] \in ToSet(last)
    BY <1>3, <2>2 DEF ToSet
  <2>4. last \in Seq(R)
    <3> HIDE DEF R
    <3>1. last \in [1 .. Len(last) -> R]
      BY <2>2, <2>3
    <3> QED  BY <2>2, <3>1, SeqDef
  <2>5. last[1] \in BlockRanges(c)
    BY <2>2
  <2> QED  BY <1>1, <1>3, <2>4, <2>5 DEF BlockRanges
<1>5. /\ DOMAIN transactions = Configured /\ DOMAIN latestBlock = Configured
      /\ DOMAIN removed = Configured /\ DOMAIN task = Configured
      /\ DOMAIN ranges = Configured
  BY DEF EventsInv
<1>6. PICK st, del :
          /\ Changed(c, stream, stream', st)
          /\ Changed(c, delivered, delivered', del)
          /\ st \in Seq(LogsOf(c, R))
          /\ st # <<>> => task[c] \in {"listening", "draining"}
          /\ task[c] = "connecting" => del = {}
          /\ task[c] \in {"listening", "draining", "returned"} =>
                \A r \in del : Entry(c, r) \in ranges[c] \/ r \in RangesIn(st)
  <2>1. Deliver(c, last, TRUE)
    BY DEF Reorganize, last
  <2>2. EverStored(transactions[c], removed[c]) \subseteq R
    OBVIOUS
  <2> HIDE DEF R
  <2> QED  BY <1>3, <1>4, <2>1, <2>2, DeliverStep
<1>7. /\ Changed(c, transactions, transactions', txs)
      /\ Changed(c, latestBlock, latestBlock', last[1][1])
      /\ Changed(c, removed, removed', rem)
      /\ Changed(c, task, task', task[c])
      /\ Changed(c, ranges, ranges', ranges[c])
      /\ UNCHANGED awaited
  <2>1. /\ transactions' = [transactions EXCEPT ![c] = txs]
        /\ latestBlock' = [latestBlock EXCEPT ![c] = last[1][1]]
        /\ removed' = [removed EXCEPT ![c] = rem]
        /\ UNCHANGED <<task, ranges, awaited>>
    BY DEF Reorganize, txs, last
  <2> HIDE DEF rem
  <2> QED  BY <1>5, <2>1, ChangedBy
<1>8. DeploymentOK(c, last[1][1], txs, rem, task[c], st, del, ranges[c], awaited)
  <2> HIDE DEF rem
  <2> QED  BY <1>1, <1>2, <1>3, <1>4, <1>6 DEF DeploymentInv, DeploymentOK
<1> QED  BY <1>6, <1>7, <1>8, OneDeploymentStep

LEMMA updateGenesisStateStep ==
    ASSUME EventsInv, NEW c \in Configured, NEW b \in Blocks(c),
           updateGenesisState(c, b)
    PROVE  EventsInv'
<1>1. /\ latestBlock' = [latestBlock EXCEPT ![c] = b]
      /\ UNCHANGED <<transactions, removed, task, stream, delivered, awaited, ranges>>
  BY DEF updateGenesisState, listenerVars
<1>2. /\ Changed(c, latestBlock, latestBlock', b)
      /\ Changed(c, transactions, transactions', transactions[c])
      /\ Changed(c, removed, removed', removed[c])
      /\ Changed(c, task, task', task[c])
      /\ Changed(c, stream, stream', stream[c])
      /\ Changed(c, delivered, delivered', delivered[c])
      /\ Changed(c, ranges, ranges', ranges[c])
  BY <1>1, ChangedBy DEF EventsInv
<1>3. DeploymentOK(c, b, transactions[c], removed[c], task[c], stream[c],
                   delivered[c], ranges[c], awaited)
  BY DEF EventsInv, DeploymentInv, DeploymentOK
<1> QED  BY <1>1, <1>2, <1>3, OneDeploymentStep

-----------------------------------------------------------------------------
(* The listeners. *)

(* The steps that move a listener on and at most empty its stream. *)
LEMMA TaskStep ==
    ASSUME EventsInv, NEW c \in Configured,
           NEW tk \in {"listening", "draining", "returned", "panicked"},
           task' = [task EXCEPT ![c] = tk],
           task[c] \in {"connecting", "listening", "draining"},
           \/ UNCHANGED stream
           \/ tk = "panicked" /\ stream' = [stream EXCEPT ![c] = <<>>],
           tk \in {"returned", "panicked"} => stream'[c] = <<>>,
           tk = "draining" => task[c] = "listening",
           tk = "returned" => task[c] = "draining",
           UNCHANGED <<contractVars, delivered, awaited, ranges>>
    PROVE  EventsInv'
<1>1. PICK st : /\ Changed(c, stream, stream', st)
                /\ st = stream[c] \/ (st = <<>> /\ tk = "panicked")
                /\ tk \in {"returned", "panicked"} => st = <<>>
  BY ChangedBy DEF EventsInv, Changed
<1>2. /\ Changed(c, latestBlock, latestBlock', latestBlock[c])
      /\ Changed(c, transactions, transactions', transactions[c])
      /\ Changed(c, removed, removed', removed[c])
      /\ Changed(c, task, task', tk)
      /\ Changed(c, delivered, delivered', delivered[c])
      /\ Changed(c, ranges, ranges', ranges[c])
  BY ChangedBy DEF EventsInv, contractVars
<1>3. <<>> \in Seq(LogsOf(c, EverStored(transactions[c], removed[c])))
  BY EmptySeq
<1>4. DeploymentOK(c, latestBlock[c], transactions[c], removed[c], tk, st,
                   delivered[c], ranges[c], awaited)
  BY <1>1, <1>3 DEF EventsInv, DeploymentInv, DeploymentOK
<1> QED  BY <1>1, <1>2, <1>4, OneDeploymentStep

(* One log goes from the stream into the sorted set; what it replaces      *)
(* there, if anything, is the same entry.                                  *)
LEMMA PublishStep ==
    ASSUME EventsInv, NEW c \in Configured, Publish(c)
    PROVE  EventsInv'
<1> DEFINE R == EverStored(transactions[c], removed[c])
           log == Head(stream[c])
           range == DataCommitmentRange(log)
           st == Tail(stream[c])
           rgs == zadd(ranges[c], range, range.end)
<1>1. /\ DeploymentInv(c) /\ stream[c] \in Seq(LogsOf(c, R)) /\ stream[c] # <<>>
      /\ transactions[c] \in Seq(Transaction(c))
      /\ removed[c] \subseteq BlockRanges(c)
      /\ ranges[c] \subseteq Entries(c, R)
      /\ task[c] \in {"listening", "draining"}
  BY DEF EventsInv, DeploymentInv, DeploymentOK, Publish
<1>2. R \subseteq BlockRanges(c)
  BY <1>1, StoredAreRanges DEF EverStored
<1> HIDE DEF R
<1>3. /\ log \in LogsOf(c, R) /\ st \in Seq(LogsOf(c, R))
      /\ Len(stream[c]) \in Nat \ {0} /\ DOMAIN stream[c] = 1 .. Len(stream[c])
      /\ Len(st) = Len(stream[c]) - 1
      /\ \A i \in 1 .. Len(st) : st[i] = stream[c][i + 1]
      /\ stream[c][1] = log
  BY <1>1, HeadTailProperties, LenProperties, EmptySeq
<1>4. DOMAIN st = 1 .. Len(st)
  <2> HIDE DEF st
  <2> QED  BY <1>3, LenProperties
<1> HIDE DEF log, st
<1>5. PICK r \in R : \E isRemoved \in BOOLEAN : log = Log(c, r, isRemoved)
  BY <1>3 DEF LogsOf
<1>6. /\ <<log.startBlock, log.endBlock>> = r
      /\ range = Entry(c, r).member /\ range.end = Entry(c, r).score
  <2>1. DataCommitmentRange(log).end = log.endBlock
    BY DEF DataCommitmentRange
  <2> QED  BY <1>2, <1>5, <2>1, LogFacts
<1>7. \A x : Entry(c, x).score = Entry(c, x).member.end
  BY DEF Entry
<1>8. \A x, y : Entry(c, x).member = Entry(c, y).member => Entry(c, x) = Entry(c, y)
  <2> SUFFICES ASSUME NEW x, NEW y, Entry(c, x).member = Entry(c, y).member
               PROVE  Entry(c, x) = Entry(c, y)
    OBVIOUS
  <2>1. Entry(c, x).score = Entry(c, y).score
    BY <1>7
  <2>2. \A z : Entry(c, z) = [member |-> Entry(c, z).member,
                              score |-> Entry(c, z).score]
    BY DEF Entry
  <2> QED  BY <2>1, <2>2
<1>9. rgs = {e \in ranges[c] : e.member # Entry(c, r).member} \cup {Entry(c, r)}
  <2>1. Entry(c, r) = [member |-> range, score |-> range.end]
    <3>1. Entry(c, r) = [member |-> Entry(c, r).member,
                         score |-> Entry(c, r).score]
      BY DEF Entry
    <3> HIDE DEF range
    <3> QED  BY <1>6, <3>1
  <2> HIDE DEF range
  <2> QED  BY <1>6, <2>1 DEF zadd
<1>10. rgs \subseteq Entries(c, R)
  BY <1>1, <1>5, <1>9 DEF Entries
<1>11. \A x : Entry(c, x) \in ranges[c] => Entry(c, x) \in rgs
  <2> HIDE DEF rgs
  <2> QED  BY <1>8, <1>9
<1>12. \A x \in RangesIn(stream[c]) : x = r \/ x \in RangesIn(st)
  <2> SUFFICES ASSUME NEW i \in DOMAIN stream[c]
               PROVE  LET x == <<stream[c][i].startBlock, stream[c][i].endBlock>>
                      IN  x = r \/ x \in RangesIn(st)
    BY DEF RangesIn
  <2>1. CASE i = 1
    BY <1>3, <1>6, <2>1
  <2>2. CASE i # 1
    <3>1. i - 1 \in 1 .. Len(st) /\ (i - 1) + 1 = i
      BY <1>3, <2>2
    <3>2. st[i - 1] = stream[c][i]
      BY <1>3, <3>1
    <3> QED  BY <1>4, <3>1, <3>2 DEF RangesIn
  <2> QED  BY <2>1, <2>2
<1>13. \A x \in delivered[c] : Entry(c, x) \in rgs \/ x \in RangesIn(st)
  <2>1. \A x \in delivered[c] : Entry(c, x) \in ranges[c] \/ x \in RangesIn(stream[c])
    BY <1>1 DEF DeploymentInv, DeploymentOK
  <2>2. Entry(c, r) \in rgs
    BY <1>9
  <2> HIDE DEF rgs
  <2> QED  BY <1>11, <1>12, <2>1, <2>2
<1>14. /\ Changed(c, stream, stream', st)
       /\ Changed(c, ranges, ranges', rgs)
       /\ Changed(c, latestBlock, latestBlock', latestBlock[c])
       /\ Changed(c, transactions, transactions', transactions[c])
       /\ Changed(c, removed, removed', removed[c])
       /\ Changed(c, task, task', task[c])
       /\ Changed(c, delivered, delivered', delivered[c])
       /\ UNCHANGED awaited
  <2>1. /\ stream' = [stream EXCEPT ![c] = st]
        /\ ranges' = [ranges EXCEPT ![c] = rgs]
        /\ UNCHANGED <<latestBlock, transactions, removed, task, delivered, awaited>>
    BY DEF Publish, contractVars, st, log
  <2> HIDE DEF rgs
  <2> QED  BY <2>1, ChangedBy DEF EventsInv
<1>15. DeploymentOK(c, latestBlock[c], transactions[c], removed[c], task[c], st,
                    delivered[c], rgs, awaited)
  <2> HIDE DEF rgs
  <2> QED  BY <1>1, <1>3, <1>10, <1>13 DEF DeploymentInv, DeploymentOK, R
<1> HIDE DEF rgs
<1> QED  BY <1>14, <1>15, OneDeploymentStep

-----------------------------------------------------------------------------
(* main. *)

(* A process that starts or ends takes all listeners with it. *)
LEMMA ProcessStep ==
    ASSUME EventsInv, NEW tk \in {"none", "connecting"},
           task' = [c \in Configured |-> tk],
           stream' = [c \in Configured |-> <<>>],
           delivered' = [c \in Configured |-> {}],
           awaited' = IF tk = "none" THEN 0 ELSE 1,
           awaited' <= Len(join_handles),
           UNCHANGED <<contractVars, ranges>>
    PROVE  EventsInv'
<1> USE DEF EventsInv
<1>1. HandlesInv'
  <2>1. Len(join_handles) \in Nat
    BY HandlesAreConfigured
  <2>2. 1 .. awaited' - 1 = {}
    OBVIOUS
  <2> QED  BY <2>1, <2>2 DEF HandlesInv
<1>2. \A c \in Configured : DeploymentInv(c)'
  <2> SUFFICES ASSUME NEW c \in Configured PROVE DeploymentInv(c)'
    OBVIOUS
  <2>1. <<>> \in Seq(LogsOf(c, EverStored(transactions[c], removed[c])))
    BY EmptySeq
  <2> QED  BY <2>1 DEF DeploymentInv, DeploymentOK, contractVars
<1> QED  BY <1>1, <1>2 DEF contractVars

LEMMA EventsInvInit == EventsInit => EventsInv
<1> SUFFICES ASSUME EventsInit PROVE EventsInv
  OBVIOUS
<1>1. HandlesInv
  <2>1. Len(join_handles) \in Nat /\ 1 .. 0 - 1 = {}
    BY HandlesAreConfigured
  <2> QED  BY <2>1 DEF EventsInit, HandlesInv
<1>2. \A c \in Configured : DeploymentInv(c)
  <2> SUFFICES ASSUME NEW c \in Configured PROVE DeploymentInv(c)
    OBVIOUS
  <2>1. /\ <<>> \in Seq(LogsOf(c, EverStored(<<>>, {})))
        /\ <<>> \in Seq(Transaction(c))
    BY EmptySeq
  <2>2. 0 \in Blocks(c)
    BY EventServiceAssumption DEF Blocks
  <2> QED  BY <2>1, <2>2 DEF EventsInit, DeploymentInv, DeploymentOK
<1> QED  BY <1>1, <1>2 DEF EventsInit, EventsInv

LEMMA EventsInvNext == EventsInv /\ [EventsNext]_eventVars => EventsInv'
<1> SUFFICES ASSUME EventsInv, [EventsNext]_eventVars PROVE EventsInv'
  OBVIOUS
<1>0. Len(join_handles) \in Nat /\ awaited \in 0 .. Len(join_handles)
  BY HandlesAreConfigured DEF EventsInv, HandlesInv
<1>1. ASSUME NEW c \in Configured, NEW b \in Blocks(c), commitHeaderRange(c, b)
      PROVE  EventsInv'
  BY <1>1, commitHeaderRangeStep
<1>2. ASSUME NEW c \in Configured, NEW b \in Blocks(c), NEW e \in Blocks(c),
             updateBlockRangeData(c, b, e)
      PROVE  EventsInv'
  BY <1>2, updateBlockRangeDataStep
<1>3. ASSUME NEW c \in Configured, NEW b \in Blocks(c), updateGenesisState(c, b)
      PROVE  EventsInv'
  BY <1>3, updateGenesisStateStep
<1>4. ASSUME NEW c \in Configured, Reorganize(c)
      PROVE  EventsInv'
  BY <1>4, ReorganizeStep
<1>5. ASSUME NEW c \in Configured, Subscribe(c)
      PROVE  EventsInv'
  BY <1>5, TaskStep DEF Subscribe
<1>6. ASSUME NEW c \in Configured, Publish(c)
      PROVE  EventsInv'
  BY <1>6, PublishStep
<1>7. ASSUME NEW c \in Configured, Return(c)
      PROVE  EventsInv'
  BY <1>7, TaskStep DEF Return
<1>8. ASSUME NEW c \in Configured, Panic(c)
      PROVE  EventsInv'
  <2>1. stream'[c] = <<>>
    BY <1>8 DEF Panic, EventsInv
  <2> QED  BY <1>8, <2>1, TaskStep DEF Panic
<1>9. ASSUME NEW c \in Configured, Disconnect(c)
      PROVE  EventsInv'
  BY <1>9, TaskStep DEF Disconnect
<1>10. CASE Start
  <2>1. 1 <= Len(join_handles)
    BY <1>10, HandlesAreConfigured DEF Start
  <2> QED  BY <1>10, <2>1, ProcessStep DEF Start
<1>11. CASE ProcessEnds
  BY <1>0, <1>11, ProcessStep DEF ProcessEnds
<1>12. CASE AwaitReturned /\ ~ProcessEnds
  <2>1. /\ awaited # 0 /\ awaited < Len(join_handles)
        /\ task[join_handles[awaited]] = "returned"
        /\ awaited' = awaited + 1
        /\ UNCHANGED <<contractVars, listenerVars, ranges>>
    BY <1>12 DEF AwaitReturned
  <2>2. HandlesInv'
    <3>1. \A i \in 1 .. awaited' - 1 : i \in 1 .. awaited - 1 \/ i = awaited
      BY <1>0, <2>1
    <3>2. UNCHANGED task
      BY <2>1 DEF listenerVars
    <3>3. \A i \in 1 .. awaited - 1 : task[join_handles[i]] = "returned"
      BY DEF EventsInv, HandlesInv
    <3>4. awaited' \in 0 .. Len(join_handles)
      BY <1>0, <2>1
    <3> QED  BY <2>1, <3>1, <3>2, <3>3, <3>4 DEF HandlesInv
  <2>3. awaited = 0 <=> awaited' = 0
    BY <1>0, <2>1
  <2>4. \A c \in Configured : DeploymentInv(c)'
    BY <2>1, <2>3 DEF EventsInv, DeploymentInv, DeploymentOK, contractVars,
                      listenerVars
  <2> QED  BY <2>1, <2>2, <2>4 DEF EventsInv, contractVars, listenerVars
<1>13. CASE UNCHANGED eventVars
  <2>1. UNCHANGED <<latestBlock, transactions, removed, task, stream, delivered,
                    awaited, ranges>>
    BY <1>13 DEF eventVars, contractVars, listenerVars
  <2> QED  BY <2>1 DEF EventsInv, HandlesInv, DeploymentInv
<1> QED  BY <1>1, <1>2, <1>3, <1>4, <1>5, <1>6, <1>7, <1>8, <1>9, <1>10, <1>11,
            <1>12, <1>13
         DEF EventsNext, listen_for_events, AwaitReturned, AwaitPanicked, Kill

LEMMA EventsInvariant == EventsSpec => []EventsInv
BY EventsInvInit, EventsInvNext, PTL DEF EventsSpec

-----------------------------------------------------------------------------
(* The properties of a deployment, in the terms of the service. *)
LEMMA DeploymentFacts ==
    ASSUME EventsInv, NEW c \in Configured
    PROVE  /\ DeploymentInv(c)
           /\ Stored(c) = StoredBy(transactions[c])
           /\ InStream(c) = RangesIn(stream[c])
           /\ Stored(c) \subseteq BlockRanges(c)
<1>1. DeploymentInv(c)
  BY DEF EventsInv
<1>2. Stored(c) = StoredBy(transactions[c])
  BY DEF Stored, StoredBy
<1>3. InStream(c) = RangesIn(stream[c])
  BY DEF InStream, RangesIn
<1> QED  BY <1>1, <1>2, <1>3, StoredAreRanges DEF DeploymentInv, DeploymentOK

(* Types, and what main and the listeners know of each other: there is a   *)
(* listener and an open stream only with a process, and main has seen      *)
(* every handle before the awaited one return.                             *)
THEOREM EventsTypeCorrect == EventsSpec => []EventsTypeOK
<1>1. EventsInv => EventsTypeOK
  <2> SUFFICES ASSUME EventsInv PROVE EventsTypeOK
    OBVIOUS
  <2>1. \A c \in Configured :
            /\ latestBlock[c] \in Blocks(c)
            /\ Stored(c) \cup removed[c] \subseteq BlockRanges(c)
            /\ task[c] \in {"none", "connecting", "listening", "draining",
                            "returned", "panicked"}
            /\ task[c] = "none" <=> awaited = 0
            /\ stream[c] # <<>> => task[c] \in {"listening", "draining"}
    BY DeploymentFacts DEF DeploymentInv, DeploymentOK
  <2> QED  BY <2>1 DEF EventsInv, HandlesInv, EventsTypeOK
<1> QED  BY <1>1, EventsInvariant, PTL

(* Whatever is delivered, redelivered as removed, overlapping or out of    *)
(* order after a reset, Redis holds only ranges that the contract of that  *)
(* deployment stored, with their own data commitment and score.            *)
THEOREM PublishedRangesWereStored == EventsSpec => []PublishedWasStored
<1>1. EventsInv => PublishedWasStored
  BY DeploymentFacts
     DEF PublishedWasStored, DeploymentInv, DeploymentOK, EverStored, Entries
<1> QED  BY <1>1, EventsInvariant, PTL

(* A subscription loses no log while its listener is alive or after it     *)
(* returned, for every interleaving of the listeners and of main.          *)
THEOREM SubscriptionLosesNothing == EventsSpec => []NothingDropped
<1>1. EventsInv => NothingDropped
  BY DeploymentFacts DEF NothingDropped, DeploymentInv, DeploymentOK
<1> QED  BY <1>1, EventsInvariant, PTL
=============================================================================
