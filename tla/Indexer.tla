------------------------------ MODULE Indexer ------------------------------
(***************************************************************************)
(* bin/indexer.rs: the justification subscription of an Avail node, the    *)
(* loop that filters and stores what it delivers, the two Redis structures *)
(* it writes one after the other, and the reads of RpcDataFetcher that     *)
(* serve a prover from Redis or from the node.                             *)
(*                                                                         *)
(* What is read from the chain is finalized and never changes, so a pass   *)
(* through the loop up to its first write is one step.  A panic (an RPC    *)
(* error, a hash mismatch, three failed connections to Redis) and the end  *)
(* of the stream are the same step, Stop.                                  *)
(***************************************************************************)
EXTENDS Justification

CONSTANT MaxPending   \* commits the subscription may hold

VARIABLES
    head,             \* Avail's finalized head
    finality_proofs,  \* node: the commits of epoch end blocks, by block
    subscription,     \* commits delivered; the first one is in the loop
    indexer,          \* "listening", "json_set", "zadd" or "down"
    justifications,   \* Redis: what json_set stored, by block number
    blocks            \* Redis: the sorted set of block numbers

redisVars == <<justifications, blocks>>
indexerVars == <<head, finality_proofs, subscription, indexer, redisVars>>

IsEpochEndBlock(b) == IsEpochEnd(JustifyingSet(b), b)

IndexerInit ==
    /\ head = 0
    /\ finality_proofs = <<>>
    /\ subscription = <<>>
    /\ indexer = "listening"
    /\ justifications = <<>>
    /\ blocks = {}

-----------------------------------------------------------------------------
(* The node.                                                               *)

(* GRANDPA's own threshold for a set of voters of weight 1. *)
IsSupermajority(voters, set) ==
    LET n == Cardinality(Members(set))
    IN  Cardinality(voters) >= n - (n - 1) \div 3

(* The blocks set may vote for: up to the block that announces the next    *)
(* set, no further.                                                        *)
VotableBlocks(set) == {b \in Blocks \ {0} : JustifyingSet(b) = set}

(* The target of a commit is the highest block that a supermajority voted  *)
(* for or built upon; some of the precommits may be for later blocks.      *)
IsCommit(target, precommits) ==
    LET set == JustifyingSet(target)
        VotersFor(b) == {v \in DOMAIN precommits : precommits[v] >= b}
    IN  /\ \A v \in DOMAIN precommits : precommits[v] >= target
        /\ IsSupermajority(DOMAIN precommits, set)
        /\ \A b \in VotableBlocks(set) :
              b > target => ~IsSupermajority(VotersFor(b), set)

Commits(target) ==
    LET set == JustifyingSet(target)
        votes == UNION {[voters -> VotableBlocks(set)] :
                           voters \in SUBSET Members(set) \ {{}}}
    IN  UNION {{[target |-> target, precommits |-> p, first |-> p[v]] :
                   v \in DOMAIN p} : p \in {q \in votes : IsCommit(target, q)}}

Put(f, key, value) ==
    [k \in DOMAIN f \cup {key} |-> IF k = key THEN value ELSE f[k]]

(* A block is finalized, with all blocks below it.  The node keeps the     *)
(* commit only if an epoch ends there; subscribers see it once.            *)
Finalize(commit) ==
    /\ commit.target > head
    /\ JustifyingSet(commit.target) = AuthoritySetId[head]
    /\ Len(subscription) < MaxPending
    /\ head' = commit.target
    /\ finality_proofs' = IF IsEpochEndBlock(commit.target)
                          THEN Put(finality_proofs, commit.target, commit)
                          ELSE finality_proofs
    /\ subscription' = IF indexer = "down" THEN subscription
                                           ELSE Append(subscription, commit)
    /\ UNCHANGED <<indexer, redisVars>>

-----------------------------------------------------------------------------
(* The indexer.                                                            *)

(* Mutant: the set of the parent block, as the fetcher reads it. *)
IndexerSetIdOfParent(commit) == AuthoritySetId[commit.target - 1]

(* The set id is read at the justified block itself. *)
IndexerSetId(commit) == AuthoritySetId[commit.target]

IndexerMessage(commit) == SignedMessage(commit.first, IndexerSetId(commit))

(* Mutant: any valid signature will do. *)
AnySigned(commit) ==
    Cardinality(Signers(commit, IndexerMessage(commit))) > 0

(* Mutant: a supermajority is never reached by all of three authorities. *)
RequiredSignaturesPlusOne(commit) ==
    Cardinality(Signers(commit, IndexerMessage(commit)))
        > (Len(get_authorities(commit.target - 1)) * 2) \div 3 + 1

(* More than (num_authorities * 2) / 3 signatures verified. *)
EnoughSignatures(commit) ==
    Cardinality(Signers(commit, IndexerMessage(commit)))
        > (Len(get_authorities(commit.target - 1)) * 2) \div 3

StoredJustificationData(commit) ==
    JustificationData(get_authorities(commit.target - 1),
                      IndexerMessage(commit),
                      Signers(commit, IndexerMessage(commit)))

(* The "continue" of the loop. *)
Skip ==
    /\ indexer = "listening" /\ subscription # <<>>
    /\ ~EnoughSignatures(Head(subscription))
    /\ subscription' = Tail(subscription)
    /\ UNCHANGED <<head, finality_proofs, indexer, redisVars>>

(* Mutant: the block is listed before its justification is stored. *)
AcceptAndList ==
    /\ indexer = "listening" /\ subscription # <<>>
    /\ EnoughSignatures(Head(subscription))
    /\ indexer' = "json_set"
    /\ blocks' = blocks \cup {Head(subscription).target}
    /\ UNCHANGED <<head, finality_proofs, subscription, justifications>>

Accept ==
    /\ indexer = "listening" /\ subscription # <<>>
    /\ EnoughSignatures(Head(subscription))
    /\ indexer' = "json_set"
    /\ UNCHANGED <<head, finality_proofs, subscription, redisVars>>

(* The two writes of add_justification. *)
JsonSet ==
    LET commit == Head(subscription)
    IN  /\ indexer = "json_set"
        /\ justifications' = Put(justifications, commit.target,
                                 StoredJustificationData(commit))
        /\ indexer' = "zadd"
        /\ UNCHANGED <<head, finality_proofs, subscription, blocks>>

Zadd ==
    /\ indexer = "zadd"
    /\ blocks' = blocks \cup {Head(subscription).target}
    /\ indexer' = "listening"
    /\ subscription' = Tail(subscription)
    /\ UNCHANGED <<head, finality_proofs, justifications>>

(* Mutant: the subscription is renewed in the middle of a write. *)
Resubscribe ==
    /\ indexer # "down"
    /\ subscription' = <<>>
    /\ UNCHANGED <<head, finality_proofs, indexer, redisVars>>

Stop ==
    /\ indexer # "down"
    /\ indexer' = "down"
    /\ subscription' = <<>>
    /\ UNCHANGED <<head, finality_proofs, redisVars>>

(* Started again by hand: a new subscription, which begins at the present. *)
Restart ==
    /\ indexer = "down"
    /\ indexer' = "listening"
    /\ UNCHANGED <<head, finality_proofs, subscription, redisVars>>

IndexerStep == Skip \/ Accept \/ JsonSet \/ Zadd

IndexerNext ==
    \/ \E target \in Blocks \ {0} : \E commit \in Commits(target) :
          Finalize(commit)
    \/ IndexerStep
    \/ Stop
    \/ Restart

IndexerSpec ==
    IndexerInit /\ [][IndexerNext]_indexerVars /\ WF_indexerVars(IndexerStep)

-----------------------------------------------------------------------------
(* What RpcDataFetcher reads for a prover.                                 *)

(* Mutant: the id at the epoch end block itself. *)
FinalityMessageOfBlock(b) ==
    SignedMessage(finality_proofs[b].first, AuthoritySetId[b])

(* The message of an epoch end block, with the id its parent stores. *)
FinalityMessage(b) == SignedMessage(finality_proofs[b].first, JustifyingSet(b))

(* get_justification_data returns: the node serves an epoch end block, and *)
(* every precommit verifies; Redis has an entry for any other block.       *)
Served(b) ==
    \/ /\ IsEpochEndBlock(b)
       /\ b \in DOMAIN finality_proofs
       /\ Signers(finality_proofs[b], FinalityMessage(b)) =
             DOMAIN finality_proofs[b].precommits
    \/ ~IsEpochEndBlock(b) /\ b \in DOMAIN justifications

get_justification_data(b) ==
    IF IsEpochEndBlock(b)
    THEN JustificationData(get_authorities(b - 1), FinalityMessage(b),
                           Signers(finality_proofs[b], FinalityMessage(b)))
    ELSE justifications[b]

get_blocks_in_range(start, end) == {b \in blocks : start <= b /\ b <= end}

(* Mutant: the end of the range is left out. *)
WalkEndsAtEnd(epoch_end_block, end_block) ==
    epoch_end_block = 0 \/ epoch_end_block >= end_block

(* The two breaks of the walk over the epochs. *)
WalkEnds(epoch_end_block, end_block) ==
    epoch_end_block = 0 \/ epoch_end_block > end_block

(* The epoch ends find_justifications_in_range meets, from the set of      *)
(* start_block - 1 on.                                                     *)
EpochEndBlocks(start_block, end_block) ==
    LET start_era == AuthoritySetId[start_block - 1]
        curr_block(era) == IF era = start_era THEN start_block
                           ELSE last_justified_block(era - 1, head)
        walk[era \in start_era .. AuthoritySetId[MaxBlock] + 1] ==
            IF \/ curr_block(era) >= end_block
               \/ WalkEnds(last_justified_block(era, head), end_block)
            THEN {}
            ELSE {last_justified_block(era, head)} \cup walk[era + 1]
    IN  walk[start_era]

-----------------------------------------------------------------------------
(* Every component of the state has its type, a commit in the loop is of a *)
(* finalized block, and the sorted set and the JSON keys are heights.      *)
IndexerTypeOK ==
    /\ head \in Blocks
    /\ DOMAIN finality_proofs \subseteq {b \in 1 .. head : IsEpochEndBlock(b)}
    /\ subscription \in Seq(UNION {Commits(b) : b \in 1 .. head})
    /\ indexer \in {"listening", "json_set", "zadd", "down"}
    /\ indexer \in {"json_set", "zadd"} => subscription # <<>>
    /\ DOMAIN justifications \subseteq 1 .. head
    /\ blocks \subseteq 1 .. head

(* Whatever the fetcher can serve, the hint accepts and the circuit can    *)
(* prove: the message is about that very block, the padded keys hash to    *)
(* the set on the contract and the votes pass the strict threshold, though *)
(* the indexer reads another set id, takes its message from the first      *)
(* precommit and rounds its threshold down.                                *)
ServedIsProvable ==
    \A b \in 1 .. head : Served(b) => Provable(b, get_justification_data(b))

(* No epoch end waits for the indexer: once one is finalized the node      *)
(* serves it and every one of its precommits verifies.                     *)
EpochEndServed == \A b \in 1 .. head : IsEpochEndBlock(b) => Served(b)

(* A block in the sorted set has its justification, whatever write the     *)
(* indexer stopped at.                                                     *)
ListedIsStored == blocks \subseteq DOMAIN justifications

(* No epoch end block gets into Redis: the signatures are checked with the *)
(* id of the set that the block announces, and none verifies.              *)
EpochEndsNotStored == \A b \in DOMAIN justifications : ~IsEpochEndBlock(b)

(* Every block that find_justifications_in_range returns lies in the range *)
(* and can be served, none is returned twice, from Redis and from the walk *)
(* over the epochs, and no epoch end is missed, neither one at the start   *)
(* nor one at the end.  Only a range of one block, for which the walk      *)
(* takes no step, has no epoch end.                                        *)
FoundIsServed ==
    \A start, end \in 1 .. head :
        LET redis_blocks == get_blocks_in_range(start, end)
            epoch_end_blocks == EpochEndBlocks(start, end)
        IN  /\ \A b \in redis_blocks \cup epoch_end_blocks :
                  Served(b) /\ b \in start .. end
            /\ redis_blocks \cap epoch_end_blocks = {}
            /\ start < end =>
                  {b \in start .. end : IsEpochEndBlock(b)} = epoch_end_blocks

(* A justification whose precommits are all for its target, the only kind  *)
(* the circuit covers, is listed in the end unless the indexer stops or    *)
(* the block is an epoch end.                                              *)
SimpleIsListed ==
    \A b \in Blocks \ {0} :
        (\E i \in 1 .. Len(subscription) :
            /\ subscription[i].target = b /\ ~IsEpochEndBlock(b)
            /\ \A v \in DOMAIN subscription[i].precommits :
                  subscription[i].precommits[v] = b)
        ~> (b \in blocks \/ indexer = "down")

(* What the comment on verify_simple_justification says: more than 2/3 of  *)
(* the validators have signed, for every choice of the flags.              *)
ThresholdIsQuorum ==
    LET n == Len(get_authorities(head))
    IN  \A validator_signed \in [Slots -> BOOLEAN] :
            verify_voting_threshold(n, validator_signed) =>
                Cardinality({i \in 1 .. n : validator_signed[i]}) * 3 > n * 2
=============================================================================
