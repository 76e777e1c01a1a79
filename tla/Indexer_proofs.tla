--------------------------- MODULE Indexer_proofs ---------------------------
(***************************************************************************)
(* The indexer, the node and the fetcher that reads from both, for every   *)
(* chain, every authority set and every place at which the indexer may     *)
(* stop: what is listed is stored, nothing is stored for an epoch end      *)
(* block, the node serves every epoch end, what is served is provable and  *)
(* the search in a range finds what it should.                             *)
(***************************************************************************)
EXTENDS Indexer, Justification_proofs

-----------------------------------------------------------------------------
(* GRANDPA commits.                                                        *)

(* The target and the votes of a commit. *)
LEMMA CommitFacts ==
    ASSUME NEW b \in Blocks \ {0}, NEW c \in Commits(b)
    PROVE  LET set == JustifyingSet(b)
           IN  /\ c.target = b
               /\ DOMAIN c.precommits \in SUBSET Members(set)
               /\ \A v \in DOMAIN c.precommits :
                     /\ c.precommits[v] \in VotableBlocks(set)
                     /\ c.precommits[v] >= b
               /\ \E v \in DOMAIN c.precommits : c.first = c.precommits[v]
               /\ IsCommit(b, c.precommits)
<1> DEFINE set == JustifyingSet(b)
           votes == UNION {[voters -> VotableBlocks(set)] :
                              voters \in SUBSET Members(set) \ {{}}}
<1>1. PICK p \in votes : /\ IsCommit(b, p)
                         /\ \E v \in DOMAIN p :
                               c = [target |-> b, precommits |-> p, first |-> p[v]]
  BY DEF Commits
<1>2. PICK voters \in SUBSET Members(set) : p \in [voters -> VotableBlocks(set)]
  BY <1>1
<1>3. c.target = b /\ c.precommits = p /\ \E v \in DOMAIN p : c.first = p[v]
  BY <1>1
<1>4. \A v \in DOMAIN p : p[v] >= b
  BY <1>1 DEF IsCommit
<1> QED  BY <1>1, <1>2, <1>3, <1>4

(* A signer's vote is for the block of the message, and it signed with the *)
(* id of the set that justifies the target.                                *)
LEMMA SignersFacts ==
    ASSUME NEW c, NEW b, NEW id
    PROVE  /\ Signers(c, SignedMessage(b, id)) \subseteq DOMAIN c.precommits
           /\ \A v \in Signers(c, SignedMessage(b, id)) :
                 c.precommits[v] = b /\ JustifyingSet(c.target) = id
           /\ \A v \in DOMAIN c.precommits :
                 c.precommits[v] = b /\ JustifyingSet(c.target) = id =>
                     v \in Signers(c, SignedMessage(b, id))
<1>1. \A x, y, k : SignedMessage(x, y) = SignedMessage(b, id) => x = b /\ y = id
  <2> SUFFICES ASSUME NEW x, NEW y,
                      SignedMessage(x, y) = SignedMessage(b, id)
               PROVE  x = b /\ y = id
    OBVIOUS
  <2>1. /\ SignedMessage(x, y).block_number = x
        /\ SignedMessage(x, y).authority_set_id = y
        /\ SignedMessage(b, id).block_number = b
        /\ SignedMessage(b, id).authority_set_id = id
    BY DEF SignedMessage
  <2> QED  BY <2>1
<1>2. \A v, m1, m2 : verify_signature(v, m1, Signature(v, m2)) <=> m1 = m2
  <2> SUFFICES ASSUME NEW v, NEW m1, NEW m2
               PROVE  verify_signature(v, m1, Signature(v, m2)) <=> m1 = m2
    OBVIOUS
  <2>1. Signature(v, m1).message = m1 /\ Signature(v, m2).message = m2
    BY DEF Signature
  <2> QED  BY <2>1 DEF verify_signature
<1> QED  BY <1>1, <1>2 DEF Signers

(* A block that is no epoch end: the two readers use the same set id, and  *)
(* when the indexer's threshold passes the first precommit is for the      *)
(* target, because a supermajority for a later block would have made that  *)
(* block the target.                                                       *)
LEMMA AcceptedIsProvable ==
    ASSUME NEW b \in Blocks \ {0}, NEW c \in Commits(b),
           EnoughSignatures(c), ~IsEpochEndBlock(b)
    PROVE  Provable(b, StoredJustificationData(c))
<1> DEFINE set == JustifyingSet(b)
           n == Len(get_authorities(b - 1))
           signers == Signers(c, IndexerMessage(c))
           For(x) == {v \in DOMAIN c.precommits : c.precommits[v] >= x}
<1>1. /\ c.target = b
      /\ DOMAIN c.precommits \in SUBSET Members(set)
      /\ \E v \in DOMAIN c.precommits : c.first = c.precommits[v]
      /\ \A v \in DOMAIN c.precommits :
            c.precommits[v] \in VotableBlocks(set) /\ c.precommits[v] >= b
      /\ IsCommit(b, c.precommits)
  BY CommitFacts
<1>2. IndexerSetId(c) = set
  BY <1>1, SetIdOfBlock
     DEF IndexerSetId, IsEpochEndBlock, IsEpochEnd, JustifyingSet
<1>3. /\ set \in SetIds /\ n \in Nat \ {0}
      /\ Cardinality(Members(set)) = n /\ IsFiniteSet(Members(set))
  BY JustifyingSetType, KeysOfSet, MembersOfSet
<1>4. /\ signers \subseteq DOMAIN c.precommits
      /\ \A v \in signers : c.precommits[v] = c.first
  BY <1>2, SignersFacts DEF IndexerMessage
<1>5. signers \in SUBSET Members(set) /\ Cardinality(signers) \in Nat
  <2>1. signers \in SUBSET Members(set)
    BY <1>1, <1>4
  <2> HIDE DEF signers, set
  <2> QED  BY <1>3, <2>1, SlotsOfSigners
<1>6. Cardinality(signers) > (n * 2) \div 3
  BY <1>1 DEF EnoughSignatures
<1>7. Cardinality(signers) >= n - (n - 1) \div 3
      /\ Cardinality(signers) * 3 > n * 2
  <2> HIDE DEF signers, n
  <2> QED  BY <1>3, <1>5, <1>6, Thresholds
<1>8. c.first \in VotableBlocks(set) /\ c.first >= b
      /\ c.first \in Nat /\ b \in Nat
  BY <1>1, SetIdOfBlock DEF VotableBlocks
<1>9. c.first = b
  <2>1. SUFFICES ASSUME c.first > b PROVE FALSE
    BY <1>8
  <2>2. ~IsSupermajority(For(c.first), set)
    BY <1>1, <1>8, <2>1 DEF IsCommit
  <2>3. signers \subseteq For(c.first)
    BY <1>4, <1>8
  <2>4. For(c.first) \in SUBSET Members(set)
    BY <1>1
  <2> HIDE DEF signers, For, set, n
  <2>5. IsFiniteSet(For(c.first)) /\ Cardinality(For(c.first)) \in Nat
    BY <1>3, <2>4, SlotsOfSigners
  <2>6. Cardinality(signers) <= Cardinality(For(c.first))
    BY <2>3, <2>5, FS_Subset
  <2>7. IsSupermajority(For(c.first), set)
    BY <1>3, <1>5, <1>7, <2>5, <2>6 DEF IsSupermajority
  <2> QED  BY <2>2, <2>7
<1>10. IndexerMessage(c) = SignedMessage(b, set)
  BY <1>2, <1>9 DEF IndexerMessage
<1>11. StoredJustificationData(c) =
           JustificationData(get_authorities(b - 1), SignedMessage(b, set), signers)
  BY <1>1, <1>10 DEF StoredJustificationData
<1> HIDE DEF signers
<1> QED  BY <1>5, <1>7, <1>11, SignedIsProvable

(* The set of an epoch end block votes for no later block. *)
LEMMA EpochEndCommit ==
    ASSUME NEW b \in Blocks \ {0}, NEW c \in Commits(b), IsEpochEndBlock(b)
    PROVE  /\ c.first = b
           /\ Signers(c, SignedMessage(b, JustifyingSet(b)))
                 = DOMAIN c.precommits
<1> DEFINE set == JustifyingSet(b)
<1>1. /\ c.target = b
      /\ \E v \in DOMAIN c.precommits : c.first = c.precommits[v]
      /\ \A v \in DOMAIN c.precommits :
            c.precommits[v] \in VotableBlocks(set) /\ c.precommits[v] >= b
  BY CommitFacts
<1>2. \A x \in VotableBlocks(set) : x >= b => x = b
  <2> SUFFICES ASSUME NEW x \in VotableBlocks(set), x > b PROVE FALSE
    BY SetIdOfBlock DEF VotableBlocks
  <2>1. /\ x \in Blocks \ {0} /\ x - 1 \in Blocks /\ b <= x - 1
        /\ AuthoritySetId[x - 1] = set
    BY SetIdOfBlock DEF VotableBlocks, JustifyingSet
  <2>2. AuthoritySetId[b] <= AuthoritySetId[x - 1]
    BY <2>1, SetIdOfBlock
  <2>3. AuthoritySetId[b] = set + 1 /\ set \in Nat
    BY SetIdOfBlock DEF IsEpochEndBlock, IsEpochEnd, JustifyingSet
  <2> QED  BY <2>1, <2>2, <2>3
<1>3. \A v \in DOMAIN c.precommits : c.precommits[v] = b
  BY <1>1, <1>2
<1> QED  BY <1>1, <1>3, SignersFacts

(* The indexer reads the set id at the block itself: at an epoch end no    *)
(* signature verifies, and no signature is never enough.                   *)
LEMMA EpochEndNotEnough ==
    ASSUME NEW b \in Blocks \ {0}, NEW c \in Commits(b), IsEpochEndBlock(b)
    PROVE  ~EnoughSignatures(c)
<1>1. c.target = b
  BY CommitFacts
<1>2. IndexerSetId(c) # JustifyingSet(c.target)
  BY <1>1, SetIdOfBlock
     DEF IndexerSetId, IsEpochEndBlock, IsEpochEnd, JustifyingSet
<1>3. Signers(c, IndexerMessage(c)) = {}
  BY <1>2, SignersFacts DEF IndexerMessage
<1>4. Cardinality(Signers(c, IndexerMessage(c))) = 0
  BY <1>3, FS_EmptySet
<1>5. Len(get_authorities(b - 1)) \in Nat
  BY JustifyingSetType, KeysOfSet
<1>6. ~(0 > (Len(get_authorities(b - 1)) * 2) \div 3)
  BY <1>5
<1> QED BY <1>1, <1>4, <1>6 DEF EnoughSignatures

-----------------------------------------------------------------------------
(***************************************************************************)
(* The inductive invariant.  Between the two writes the commit is still    *)
(* the first of the queue; it passed the threshold, and after the first    *)
(* write it is stored.  The node kept a commit for every finalized epoch   *)
(* end, and an entry of Redis was made from a commit that passed.          *)
(***************************************************************************)
Writing ==
    indexer \in {"json_set", "zadd"} =>
        /\ EnoughSignatures(Head(subscription))
        /\ indexer = "zadd" => Head(subscription).target \in DOMAIN justifications

ProofsKept ==
    \A b \in 1 .. head : IsEpochEndBlock(b) =>
        b \in DOMAIN finality_proofs /\ finality_proofs[b] \in Commits(b)

StoredFromCommits ==
    \A b \in DOMAIN justifications : \E c \in Commits(b) :
        EnoughSignatures(c) /\ justifications[b] = StoredJustificationData(c)

IndexerInv ==
    /\ IndexerTypeOK
    /\ Writing
    /\ ListedIsStored
    /\ ProofsKept
    /\ StoredFromCommits

Finalized == UNION {Commits(b) : b \in 1 .. head}

(* The finalized heights after 0. *)
LEMMA FinalizedHeights ==
    ASSUME head \in Blocks
    PROVE  /\ head \in Nat /\ 1 .. head \subseteq Blocks \ {0}
           /\ \A c \in Finalized :
                 c.target \in 1 .. head /\ c \in Commits(c.target)
<1>1. head \in Nat /\ 1 .. head \subseteq Blocks \ {0}
  BY SetIdOfBlock DEF Blocks
<1>2. \A b \in 1 .. head : \A c \in Commits(b) : c.target = b
  BY <1>1, CommitFacts
<1> QED  BY <1>1, <1>2 DEF Finalized

LEMMA IndexerInvInit == IndexerInit => IndexerInv
<1> SUFFICES ASSUME IndexerInit PROVE IndexerInv
  OBVIOUS
<1>1. head \in Blocks /\ 1 .. head = {}
  BY SetIdOfBlock DEF IndexerInit, Blocks
<1>2. IndexerTypeOK
  BY <1>1, EmptySeq DEF IndexerInit, IndexerTypeOK
<1> QED  BY <1>1, <1>2 DEF IndexerInit, IndexerInv, Writing, ListedIsStored,
                           ProofsKept, StoredFromCommits

(* Between two finalized heads of which the higher one is justified by the *)
(* set of the lower one, only the higher one can be an epoch end.          *)
LEMMA NoEpochEndSkipped ==
    ASSUME NEW h \in Blocks, NEW t \in Blocks, h < t,
           JustifyingSet(t) = AuthoritySetId[h],
           NEW b \in Blocks, h < b, b <= t, IsEpochEndBlock(b)
    PROVE  b = t
<1>1. SUFFICES ASSUME b < t PROVE FALSE
  BY SetIdOfBlock
<1>2. /\ b # 0 /\ b - 1 \in Blocks /\ h <= b - 1
      /\ t - 1 \in Blocks /\ b <= t - 1
  BY <1>1, SetIdOfBlock
<1>3. /\ AuthoritySetId[h] <= AuthoritySetId[b - 1]
      /\ AuthoritySetId[b] <= AuthoritySetId[t - 1]
  BY <1>2, SetIdOfBlock
<1>4. AuthoritySetId[b] = AuthoritySetId[b - 1] + 1
  BY DEF IsEpochEndBlock, IsEpochEnd, JustifyingSet
<1> QED  BY <1>2, <1>3, <1>4, SetIdOfBlock DEF JustifyingSet

(* What the steps leave in Redis and in the subscription is of heights     *)
(* that stay finalized.                                                    *)
LEMMA FinalizeStep ==
    ASSUME IndexerInv, NEW t \in Blocks \ {0}, NEW c \in Commits(t), Finalize(c)
    PROVE  IndexerInv'
<1> USE DEF IndexerInv
<1>1. /\ c.target = t /\ t > head /\ head' = t /\ JustifyingSet(t) = AuthoritySetId[head]
      /\ head \in Nat /\ t \in Nat
  BY CommitFacts, SetIdOfBlock DEF Finalize, IndexerTypeOK
<1>2. /\ UNCHANGED <<indexer, justifications, blocks>>
      /\ subscription' = IF indexer = "down" THEN subscription
                                             ELSE Append(subscription, c)
  BY DEF Finalize, redisVars
<1>3. 1 .. head \subseteq 1 .. head'
  BY <1>1
<1>4. t \in 1 .. head' /\ c \in UNION {Commits(b) : b \in 1 .. head'}
  BY <1>1
<1>5. subscription \in Seq(UNION {Commits(b) : b \in 1 .. head'})
  <2>1. UNION {Commits(b) : b \in 1 .. head}
            \subseteq UNION {Commits(b) : b \in 1 .. head'}
    BY <1>3
  <2>2. subscription \in Seq(UNION {Commits(b) : b \in 1 .. head})
    BY DEF IndexerTypeOK
  <2> QED  BY <2>1, <2>2, SeqMonotonic
<1>6. /\ subscription' \in Seq(UNION {Commits(b) : b \in 1 .. head'})
      /\ subscription # <<>> /\ indexer # "down" =>
            subscription' # <<>> /\ Head(subscription') = Head(subscription)
  <2> DEFINE F == UNION {Commits(b) : b \in 1 .. head'}
  <2>1. subscription \in Seq(F) /\ c \in F
    BY <1>4, <1>5
  <2> HIDE DEF F
  <2>2. /\ Append(subscription, c) \in Seq(F)
        /\ subscription # <<>> =>
              /\ Append(subscription, c) # <<>>
              /\ Head(Append(subscription, c)) = Head(subscription)
    BY <2>1
  <2> QED  BY <1>2, <2>1, <2>2 DEF F
<1>7. finality_proofs' = IF IsEpochEndBlock(t) THEN Put(finality_proofs, t, c)
                                               ELSE finality_proofs
  BY <1>1 DEF Finalize
<1>8. /\ IsEpochEndBlock(t) =>
            /\ DOMAIN finality_proofs' = DOMAIN finality_proofs \cup {t}
            /\ finality_proofs'[t] = c
      /\ ~IsEpochEndBlock(t) => DOMAIN finality_proofs' = DOMAIN finality_proofs
      /\ \A b \in DOMAIN finality_proofs \ {t} :
            /\ b \in DOMAIN finality_proofs'
            /\ finality_proofs'[b] = finality_proofs[b]
  BY <1>7 DEF Put
<1>9. ProofsKept'
  <2> SUFFICES ASSUME NEW b \in 1 .. head', IsEpochEndBlock(b)
               PROVE  /\ b \in DOMAIN finality_proofs'
                      /\ finality_proofs'[b] \in Commits(b)
    BY DEF ProofsKept
  <2>1. CASE b = t
    BY <1>8, <2>1
  <2>2. CASE b # t
    <3>1. b \in Blocks /\ b <= t /\ b \in Nat
      BY <1>1, SetIdOfBlock DEF Blocks
    <3>2. ~(head < b)
      BY <1>1, <2>2, <3>1, NoEpochEndSkipped DEF IndexerTypeOK
    <3>3. b \in 1 .. head
      BY <1>1, <3>1, <3>2
    <3> QED  BY <1>8, <2>2, <3>3 DEF ProofsKept
  <2> QED  BY <2>1, <2>2
<1>10. IndexerTypeOK'
  <2>1. DOMAIN finality_proofs' \subseteq {b \in 1 .. head' : IsEpochEndBlock(b)}
    BY <1>3, <1>4, <1>8 DEF IndexerTypeOK
  <2> QED  BY <1>1, <1>2, <1>3, <1>6, <2>1 DEF IndexerTypeOK
<1>11. Writing'
  BY <1>2, <1>6 DEF IndexerTypeOK, Writing, EnoughSignatures
<1> QED  BY <1>2, <1>9, <1>10, <1>11
         DEF ListedIsStored, StoredFromCommits

(* Every step of the node, of the indexer and of its environment. *)
LEMMA IndexerInvNext == IndexerInv /\ [IndexerNext]_indexerVars => IndexerInv'
<1> SUFFICES ASSUME IndexerInv, [IndexerNext]_indexerVars PROVE IndexerInv'
  OBVIOUS
<1> USE DEF IndexerInv
<1>1. ASSUME NEW target \in Blocks \ {0}, NEW commit \in Commits(target),
             Finalize(commit)
      PROVE  IndexerInv'
  BY <1>1, FinalizeStep
<1>2. ASSUME UNCHANGED <<head, finality_proofs, redisVars>>,
             subscription' \in Seq(Finalized),
             indexer' \in {"listening", "json_set", "zadd", "down"},
             indexer' \in {"json_set", "zadd"} => subscription' # <<>>,
             Writing'
      PROVE  IndexerInv'
  BY <1>2 DEF redisVars, IndexerTypeOK, ListedIsStored, ProofsKept,
              StoredFromCommits, Finalized
<1>3. subscription \in Seq(Finalized)
  BY DEF IndexerTypeOK, Finalized
<1>4. subscription # <<>> =>
          /\ Head(subscription) \in Finalized
          /\ Tail(subscription) \in Seq(Finalized)
  BY <1>3, HeadTailProperties
<1>5. <<>> \in Seq(Finalized)
  BY EmptySeq
<1>6. CASE Skip
  BY <1>2, <1>4, <1>6 DEF Skip, Writing
<1>7. CASE Accept
  BY <1>2, <1>3, <1>7 DEF Accept, Writing, EnoughSignatures
<1>8. CASE JsonSet
  <2> DEFINE c == Head(subscription)
  <2>1. /\ c \in Finalized /\ EnoughSignatures(c)
        /\ c.target \in 1 .. head /\ c \in Commits(c.target)
    BY <1>4, <1>8, FinalizedHeights DEF JsonSet, IndexerTypeOK, Writing
  <2>2. /\ DOMAIN justifications' = DOMAIN justifications \cup {c.target}
        /\ justifications'[c.target] = StoredJustificationData(c)
        /\ \A b \in DOMAIN justifications \ {c.target} :
              justifications'[b] = justifications[b]
    BY <1>8 DEF JsonSet, Put
  <2>3. /\ UNCHANGED <<head, finality_proofs, subscription, blocks>>
        /\ indexer' = "zadd" /\ subscription # <<>>
    BY <1>8 DEF JsonSet, IndexerTypeOK
  <2>4. StoredFromCommits'
    BY <2>1, <2>2 DEF StoredFromCommits
  <2>5. IndexerTypeOK'
    BY <2>1, <2>2, <2>3 DEF IndexerTypeOK
  <2>6. Writing'
    BY <2>1, <2>2, <2>3 DEF Writing, EnoughSignatures
  <2> QED  BY <2>2, <2>3, <2>4, <2>5, <2>6 DEF ListedIsStored, ProofsKept
<1>9. CASE Zadd
  <2> DEFINE c == Head(subscription)
  <2>1. /\ c.target \in 1 .. head /\ c.target \in DOMAIN justifications
        /\ Tail(subscription) \in Seq(Finalized)
    BY <1>4, <1>9, FinalizedHeights DEF Zadd, IndexerTypeOK, Writing
  <2>2. /\ UNCHANGED <<head, finality_proofs, justifications>>
        /\ blocks' = blocks \cup {c.target} /\ indexer' = "listening"
        /\ subscription' = Tail(subscription)
    BY <1>9 DEF Zadd
  <2>3. IndexerTypeOK'
    BY <2>1, <2>2 DEF IndexerTypeOK, Finalized
  <2> QED  BY <2>1, <2>2, <2>3
           DEF Writing, ListedIsStored, ProofsKept, StoredFromCommits
<1>10. CASE Stop
  BY <1>2, <1>5, <1>10 DEF Stop, Writing
<1>11. CASE Restart
  BY <1>2, <1>3, <1>11 DEF Restart, Writing
<1>12. CASE UNCHANGED indexerVars
  BY <1>2, <1>3, <1>12 DEF indexerVars, Writing, EnoughSignatures, IndexerTypeOK, redisVars
<1> QED BY <1>1, <1>6, <1>7, <1>8, <1>9, <1>10, <1>11, <1>12
        DEF IndexerNext, IndexerStep

LEMMA IndexerInvariant == IndexerSpec => []IndexerInv
BY IndexerInvInit, IndexerInvNext, PTL DEF IndexerSpec

-----------------------------------------------------------------------------
(* The walk over the epochs of find_justifications_in_range: it returns    *)
(* the epoch ends of the range, all of them unless the range is one block. *)
LEMMA WalkFindsEpochEnds ==
    ASSUME head \in Blocks, NEW start \in 1 .. head, NEW end \in 1 .. head
    PROVE  /\ start < end => EpochEndBlocks(start, end) =
                                 {b \in start .. end : IsEpochEndBlock(b)}
           /\ ~(start < end) => EpochEndBlocks(start, end) = {}
<1> DEFINE start_era == AuthoritySetId[start - 1]
           last_era == AuthoritySetId[MaxBlock] + 1
           eras == start_era .. last_era
           epoch_end(era) == last_justified_block(era, head)
           curr_block(era) == IF era = start_era THEN start
                              ELSE epoch_end(era - 1)
           stop(era) == curr_block(era) >= end \/ WalkEnds(epoch_end(era), end)
           IsWalk(f) == f = [era \in eras |->
                                IF stop(era) THEN {}
                                ELSE {epoch_end(era)} \cup f[era + 1]]
           walk == CHOOSE f : IsWalk(f)
           met(era) == {x \in eras : era <= x /\ \A y \in era .. x : ~stop(y)}
           found == [era \in eras |-> {epoch_end(x) : x \in met(era)}]
<1>1. EpochEndBlocks(start, end) = walk[start_era]
  BY DEF EpochEndBlocks
<1>2. /\ start \in Blocks \ {0} /\ end \in Blocks \ {0} /\ start - 1 \in Blocks
      /\ head \in Nat /\ start \in Nat /\ end \in Nat /\ head <= MaxBlock
      /\ MaxBlock \in Blocks
  BY FinalizedHeights, SetIdOfBlock DEF Blocks
<1>3. /\ start_era \in Nat /\ last_era \in Nat /\ start_era < last_era
      /\ \A b \in Blocks : AuthoritySetId[b] < last_era
  BY <1>2, SetIdOfBlock
<1>4. \A era \in eras :
          \/ /\ epoch_end(era) \in Blocks \ {0} /\ epoch_end(era) <= head
             /\ IsEpochEnd(era, epoch_end(era))
          \/ /\ epoch_end(era) = 0
             /\ \A c \in Blocks : ~(c <= head /\ IsEpochEnd(era, c))
  BY LastJustifiedCases
<1>5. stop(last_era)
  <2>1. \A c \in Blocks : ~IsEpochEnd(last_era, c)
    BY <1>3, SetIdOfBlock DEF IsEpochEnd
  <2>2. epoch_end(last_era) = 0
    BY <1>3, <1>4, <2>1
  <2> QED  BY <2>2 DEF WalkEnds
<1> HIDE DEF start_era, last_era, stop, epoch_end
<1>6. \A era \in eras : ~stop(era) => era + 1 \in eras /\ era \in met(era)
                                      /\ met(era) = {era} \cup met(era + 1)
  BY <1>3, <1>5
<1>7. \A era \in eras : stop(era) => met(era) = {}
  BY <1>3
<1>8. IsWalk(found)
  <2>1. \A era \in eras :
            {epoch_end(x) : x \in met(era)} =
                IF stop(era) THEN {} ELSE {epoch_end(era)} \cup found[era + 1]
    <3> SUFFICES ASSUME NEW era \in eras
                 PROVE  {epoch_end(x) : x \in met(era)} =
                            IF stop(era) THEN {}
                            ELSE {epoch_end(era)} \cup found[era + 1]
      OBVIOUS
    <3>1. CASE stop(era)
      BY <1>7, <3>1
    <3>2. CASE ~stop(era)
      <4>1. found[era + 1] = {epoch_end(x) : x \in met(era + 1)}
        BY <1>6, <3>2
      <4> QED  BY <1>6, <3>2, <4>1
    <3> QED  BY <3>1, <3>2
  <2> QED  BY <2>1
<1>9. IsWalk(walk)
  <2> HIDE DEF IsWalk, found
  <2> QED  BY <1>8
<1>10. \A era \in eras : walk[era] = found[era]
  <2> DEFINE Bad == {n \in Nat : last_era - n \in eras
                                 /\ walk[last_era - n] # found[last_era - n]}
  <2>1. Bad = {}
    <3>1. SUFFICES ASSUME Bad # {} PROVE FALSE
      OBVIOUS
    <3>2. PICK n \in Bad : \A k \in Bad : n <= k
      <4>1. Bad \subseteq Nat
        OBVIOUS
      <4> HIDE DEF Bad
      <4> QED  BY <3>1, <4>1, LeastNatural
    <3> DEFINE era == last_era - n
    <3>3. n \in Nat /\ era \in eras /\ walk[era] # found[era]
      BY <3>2
    <3> HIDE DEF walk, found
    <3>4. /\ walk[era] = IF stop(era) THEN {}
                         ELSE {epoch_end(era)} \cup walk[era + 1]
          /\ found[era] = IF stop(era) THEN {}
                          ELSE {epoch_end(era)} \cup found[era + 1]
      BY <1>8, <1>9, <3>3
    <3>5. ~stop(era) /\ era + 1 \in eras
      BY <1>6, <3>3, <3>4
    <3>6. n - 1 \in Nat /\ last_era - (n - 1) = era + 1
      BY <1>3, <3>3, <3>5
    <3>7. n - 1 \notin Bad
      BY <3>2, <3>6
    <3> HIDE DEF era
    <3> QED  BY <3>3, <3>4, <3>5, <3>6, <3>7
  <2> SUFFICES ASSUME NEW era \in eras PROVE walk[era] = found[era]
    OBVIOUS
  <2>2. last_era - era \in Nat /\ last_era - (last_era - era) = era
    BY <1>3
  <2> HIDE DEF walk, found
  <2> QED  BY <2>1, <2>2
<1>11. EpochEndBlocks(start, end) = {epoch_end(x) : x \in met(start_era)}
  <2>1. start_era \in eras
    BY <1>3
  <2> HIDE DEF walk
  <2> QED  BY <1>1, <1>10, <2>1
<1> HIDE DEF walk, found
<1>12. ASSUME start < end, NEW x \in met(start_era)
       PROVE  epoch_end(x) \in start .. end /\ IsEpochEndBlock(epoch_end(x))
  <2>1. x \in eras /\ ~stop(x) /\ start_era <= x
    BY <1>3, <1>12
  <2>2. PICK e : e = epoch_end(x)
    OBVIOUS
  <2>3. ~WalkEnds(e, end)
    BY <2>1, <2>2 DEF stop
  <2>4. e \in Blocks \ {0} /\ IsEpochEnd(x, e) /\ e \in Nat
    BY <1>4, <2>1, <2>2, <2>3, SetIdOfBlock DEF WalkEnds
  <2>5. e <= end
    BY <1>2, <2>3, <2>4 DEF WalkEnds
  <2>6. /\ AuthoritySetId[e] = x + 1 /\ AuthoritySetId[e - 1] = x
        /\ AuthoritySetId[start - 1] <= x /\ x \in Nat
    BY <1>3, <2>1, <2>4 DEF IsEpochEnd, start_era
  <2>7. ~(e <= start - 1)
    BY <1>2, <2>4, <2>6, SetIdOfBlock
  <2>8. e \in start .. end
    BY <1>2, <2>4, <2>5, <2>7
  <2>9. IsEpochEndBlock(e)
    BY <2>4, <2>6 DEF IsEpochEndBlock, IsEpochEnd, JustifyingSet
  <2> QED  BY <2>2, <2>8, <2>9
<1>13. ASSUME start < end, NEW b \in start .. end, IsEpochEndBlock(b)
       PROVE  \E x \in met(start_era) : b = epoch_end(x)
  <2> DEFINE x == JustifyingSet(b)
  <2>1. /\ b \in Blocks \ {0} /\ b - 1 \in Blocks /\ b <= head
        /\ start - 1 <= b - 1 /\ IsEpochEnd(x, b) /\ x = AuthoritySetId[b - 1]
    BY <1>2, <1>13, SetIdOfBlock DEF IsEpochEndBlock, JustifyingSet, Blocks
  <2>2. x \in eras /\ x \in Nat
    BY <1>2, <1>3, <2>1, SetIdOfBlock DEF start_era
  <2>3. epoch_end(x) = b
    BY <1>2, <2>1, LastJustifiedIs DEF epoch_end
  <2>4. \A y \in start_era .. x - 1 : /\ epoch_end(y) # 0 /\ epoch_end(y) < b
                                      /\ epoch_end(y) \in Nat
    <3> SUFFICES ASSUME NEW y \in start_era .. x - 1
                 PROVE  /\ epoch_end(y) # 0 /\ epoch_end(y) < b
                        /\ epoch_end(y) \in Nat
      OBVIOUS
    <3>1. y \in Nat /\ AuthoritySetId[start - 1] <= y /\ y < AuthoritySetId[b - 1]
      BY <1>3, <2>1, <2>2 DEF start_era
    <3>2. PICK c \in Blocks : start - 1 < c /\ c <= b - 1 /\ IsEpochEnd(y, c)
      BY <1>2, <2>1, <3>1, EpochEndOfId
    <3>3. c <= head
      BY <1>2, <2>1, <3>2, SetIdOfBlock
    <3>4. epoch_end(y) = c
      BY <3>2, <3>3, LastJustifiedIs DEF epoch_end
    <3> QED  BY <1>2, <2>1, <3>2, <3>4, SetIdOfBlock
  <2>5. \A y \in start_era .. x : ~stop(y)
    <3> SUFFICES ASSUME NEW y \in start_era .. x PROVE ~stop(y)
      OBVIOUS
    <3>1. b \in Nat /\ b <= end
      BY <1>2, <1>13
    <3>2. epoch_end(y) # 0 /\ epoch_end(y) <= end
      BY <1>2, <1>3, <2>1, <2>2, <2>3, <2>4, <3>1
    <3>3. ~(curr_block(y) >= end)
      <4>1. CASE y = start_era
        BY <1>2, <1>13, <4>1
      <4>2. CASE y # start_era
        <5>1. y - 1 \in start_era .. x - 1
          BY <1>3, <2>2, <4>2
        <5>2. epoch_end(y - 1) < b /\ epoch_end(y - 1) \in Nat
          BY <2>4, <5>1
        <5> QED  BY <1>2, <3>1, <4>2, <5>2
      <4> QED  BY <4>1, <4>2
    <3>4. ~(epoch_end(y) > end)
      BY <1>2, <1>3, <2>1, <2>2, <2>3, <2>4, <3>1, <3>2
    <3> QED  BY <3>2, <3>3, <3>4 DEF stop, WalkEnds
  <2>6. x \in met(start_era)
    BY <1>3, <2>2, <2>5
  <2> QED  BY <2>3, <2>6
<1>14. ~(start < end) => stop(start_era)
  BY <1>2 DEF stop
<1>15. ~(start < end) => met(start_era) = {}
  BY <1>3, <1>7, <1>14
<1>16. ASSUME start < end
       PROVE  {epoch_end(x) : x \in met(start_era)} =
                  {b \in start .. end : IsEpochEndBlock(b)}
  <2> HIDE DEF met
  <2> QED  BY <1>12, <1>13, <1>16
<1> QED  BY <1>11, <1>15, <1>16

-----------------------------------------------------------------------------
(* Every finalized epoch end is served by the node: its commit was kept,   *)
(* and all its precommits are for the block itself.                        *)
LEMMA EpochEndsAreServed == IndexerInv => EpochEndServed
<1> SUFFICES ASSUME IndexerInv, NEW b \in 1 .. head, IsEpochEndBlock(b)
             PROVE  Served(b)
  BY DEF EpochEndServed
<1>1. b \in Blocks \ {0}
  BY FinalizedHeights DEF IndexerInv, IndexerTypeOK
<1>2. b \in DOMAIN finality_proofs /\ finality_proofs[b] \in Commits(b)
  BY DEF IndexerInv, ProofsKept
<1>3. Signers(finality_proofs[b], FinalityMessage(b))
          = DOMAIN finality_proofs[b].precommits
  BY <1>1, <1>2, EpochEndCommit DEF FinalityMessage
<1> QED  BY <1>2, <1>3 DEF Served

(* What is stored was accepted, so it is of no epoch end block. *)
LEMMA StoredIsNoEpochEnd ==
    ASSUME IndexerInv, NEW b \in DOMAIN justifications
    PROVE  b \in Blocks \ {0} /\ ~IsEpochEndBlock(b)
<1>1. b \in Blocks \ {0}
  BY FinalizedHeights DEF IndexerInv, IndexerTypeOK
<1>2. \E c \in Commits(b) : EnoughSignatures(c)
  BY DEF IndexerInv, StoredFromCommits
<1> QED  BY <1>1, <1>2, EpochEndNotEnough

LEMMA ServedJustificationsAreProvable == IndexerInv => ServedIsProvable
<1> SUFFICES ASSUME IndexerInv, NEW b \in 1 .. head, Served(b)
             PROVE  Provable(b, get_justification_data(b))
  BY DEF ServedIsProvable
<1>1. b \in Blocks \ {0}
  BY FinalizedHeights DEF IndexerInv, IndexerTypeOK
<1>2. CASE IsEpochEndBlock(b)
  <2> DEFINE c == finality_proofs[b]
             set == JustifyingSet(b)
             voters == DOMAIN c.precommits
             n == Len(get_authorities(b - 1))
  <2>1. c \in Commits(b)
    BY <1>2 DEF IndexerInv, ProofsKept
  <2>2. /\ FinalityMessage(b) = SignedMessage(b, set)
        /\ Signers(c, FinalityMessage(b)) = voters
    BY <1>1, <1>2, <2>1, EpochEndCommit DEF FinalityMessage
  <2>3. /\ voters \in SUBSET Members(set)
        /\ IsSupermajority(voters, set)
    BY <1>1, <2>1, CommitFacts DEF IsCommit
  <2>4. /\ set \in SetIds /\ n \in Nat \ {0}
        /\ Cardinality(Members(set)) = n
    BY <1>1, JustifyingSetType, KeysOfSet, MembersOfSet
  <2>5. Cardinality(voters) >= n - (n - 1) \div 3
    BY <2>3, <2>4 DEF IsSupermajority
  <2>6. Cardinality(voters) \in Nat
    <3> HIDE DEF voters, set
    <3> QED  BY <2>3, <2>4, SlotsOfSigners
  <2>7. Cardinality(voters) * 3 > n * 2
    <3> HIDE DEF voters, n
    <3> QED  BY <2>4, <2>5, <2>6, Thresholds
  <2>8. get_justification_data(b) =
            JustificationData(get_authorities(b - 1), SignedMessage(b, set), voters)
    BY <1>2, <2>2 DEF get_justification_data
  <2> HIDE DEF voters
  <2> QED  BY <1>1, <2>3, <2>7, <2>8, SignedIsProvable
<1>3. CASE ~IsEpochEndBlock(b)
  <2>1. b \in DOMAIN justifications
    BY <1>3 DEF Served
  <2>2. \E c \in Commits(b) :
            EnoughSignatures(c) /\ justifications[b] = StoredJustificationData(c)
    BY <2>1 DEF IndexerInv, StoredFromCommits
  <2> QED  BY <1>1, <1>3, <2>2, AcceptedIsProvable DEF get_justification_data
<1> QED  BY <1>2, <1>3

LEMMA SearchFindsServed == IndexerInv => FoundIsServed
<1> SUFFICES ASSUME IndexerInv, NEW start \in 1 .. head, NEW end \in 1 .. head
             PROVE  LET redis_blocks == get_blocks_in_range(start, end)
                        epoch_end_blocks == EpochEndBlocks(start, end)
                    IN  /\ \A b \in redis_blocks \cup epoch_end_blocks :
                              Served(b) /\ b \in start .. end
                        /\ redis_blocks \cap epoch_end_blocks = {}
                        /\ start < end =>
                              {b \in start .. end : IsEpochEndBlock(b)}
                                  = epoch_end_blocks
  BY DEF FoundIsServed
<1>1. head \in Blocks /\ head \in Nat
  BY FinalizedHeights DEF IndexerInv, IndexerTypeOK
<1>2. \A b \in get_blocks_in_range(start, end) :
          /\ b \in DOMAIN justifications /\ ~IsEpochEndBlock(b)
          /\ b \in start .. end
  <2>1. \A b \in blocks : b \in DOMAIN justifications /\ b \in 1 .. head
    BY DEF IndexerInv, IndexerTypeOK, ListedIsStored
  <2> QED  BY <1>1, <2>1, StoredIsNoEpochEnd DEF get_blocks_in_range
<1>3. /\ start < end => EpochEndBlocks(start, end) =
                            {b \in start .. end : IsEpochEndBlock(b)}
      /\ ~(start < end) => EpochEndBlocks(start, end) = {}
  BY <1>1, WalkFindsEpochEnds
<1>4. \A b \in EpochEndBlocks(start, end) :
          b \in start .. end /\ IsEpochEndBlock(b)
  BY <1>3
<1>5. \A b \in start .. end : IsEpochEndBlock(b) => Served(b)
  <2>1. start .. end \subseteq 1 .. head
    BY <1>1
  <2> QED  BY <2>1, EpochEndsAreServed DEF EpochEndServed
<1>6. \A b \in get_blocks_in_range(start, end) : Served(b)
  BY <1>2 DEF Served
<1> QED  BY <1>2, <1>3, <1>4, <1>5, <1>6

-----------------------------------------------------------------------------
(* The state of the node, of Redis and of the indexer's loop has its type: *)
(* what Redis lists and stores, and the commit in the loop, are of         *)
(* finalized heights, however often the indexer stopped and was restarted. *)
THEOREM IndexerTypeCorrect == IndexerSpec => []IndexerTypeOK
<1>1. IndexerInv => IndexerTypeOK
  BY DEF IndexerInv
<1> QED BY <1>1, IndexerInvariant, PTL

(* A block in the sorted set of Redis has its justification, wherever the  *)
(* indexer stopped between the two writes of add_justification.            *)
THEOREM ListedHasJustification == IndexerSpec => []ListedIsStored
<1>1. IndexerInv => ListedIsStored
  BY DEF IndexerInv
<1> QED BY <1>1, IndexerInvariant, PTL

(* The indexer, which checks signatures with the set id of the justified   *)
(* block, never stores an epoch end block.                                 *)
THEOREM EpochEndsLeftToTheNode == IndexerSpec => []EpochEndsNotStored
<1>1. IndexerInv => EpochEndsNotStored
  BY StoredIsNoEpochEnd DEF EpochEndsNotStored
<1> QED BY <1>1, IndexerInvariant, PTL

(* The node serves every finalized epoch end, and every precommit of it    *)
(* verifies: none waits for the indexer.                                   *)
THEOREM EpochEndsAlwaysServed == IndexerSpec => []EpochEndServed
BY EpochEndsAreServed, IndexerInvariant, PTL

(* Whatever get_justification_data returns, HintSimpleJustification        *)
(* accepts and verify_simple_justification proves for the very block, set  *)
(* id and set hash a correct request names: for every set size, every      *)
(* split of the votes over later blocks and every order of the precommits. *)
THEOREM ServedJustificationsProvable == IndexerSpec => []ServedIsProvable
BY ServedJustificationsAreProvable, IndexerInvariant, PTL

(* find_justifications_in_range returns each block it can serve once, and  *)
(* every epoch end of a range of two blocks or more.                       *)
THEOREM SearchFindsAllEpochEnds == IndexerSpec => []FoundIsServed
BY SearchFindsServed, IndexerInvariant, PTL
=============================================================================
