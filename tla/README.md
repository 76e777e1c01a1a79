# Vector X: a TLA+ verification project

Vector X is an on-chain light client of the Avail chain. A Solidity contract
stores Avail header hashes, authority set hashes and commitments to the data and
state roots of ranges of blocks. It moves forward by zero-knowledge proofs of two
circuits, `header_range` and `rotate`, that a proving platform delivers through a
SuccinctGateway. An operator decides which proofs to ask for; an indexer keeps the
justifications the prover needs.

This directory models that system in TLA+, checks it with TLC and proves the main
results with TLAPS. Paths below are relative to the repository root (`src/`).

## 1. Inventory

| Component | State | Operations | Interacts with | What makes it correct |
|---|---|---|---|---|
| Contract `contracts/src/VectorX.sol` | freeze flag, gateway, function ids, `latestBlock`, header hashes, authority set hashes, range commitments | `initialize`, `updateFreeze`, `updateFunctionIds`, `updateGateway`, `updateGenesisState`, `updateBlockRangeData`, `requestHeaderRange`, `commitHeaderRange`, `requestRotate`, `rotate` | gateway (requests, `verifiedCall`, callback), guardian, anyone | stores only what Avail finalized; ranges tile the chain; never stuck; nothing rewritten |
| Operator `bin/vectorx.rs` | none between iterations; locals of one iteration | `run`, `find_and_request_rotate`, `find_and_request_header_range`, `find_block_to_step_to` | reads the contract and Avail, submits to the platform | asks only for what can be proved, inside one authority set; the contract catches up |
| Header range circuit `circuits/header_range.rs` | none | `verify_subchain`, `verify_simple_justification` | headers and justification from hints | the output follows from the public inputs whatever the hints say |
| Rotate circuit `circuits/rotate.rs`, `circuits/builder/rotate.rs`, `circuits/builder/decoder.rs` | none | `RotateHint`, `rotate`, `verify_epoch_end_header`, `decode_header`, `decode_compact_int` | hint, an Avail header byte by byte | returns the set the header announces, whatever the witness; the fetched witness always passes |
| Data fetcher `circuits/input/mod.rs` | WS and Redis connections | `last_justified_block`, `get_merkle_root_commitments`, `get_block_headers_range`, `get_justification_data`, ... | Avail node, Redis | epoch ends found exactly; commitments equal the circuit's |
| Scripts `bin/genesis.rs`, `bin/fill_block_range.rs` | none | print or post genesis data and ranges | guardian functions of the contract | posted ranges meet the head of the contract |
| Indexer `bin/indexer.rs` | Redis keys and a sorted set | subscription loop, `add_justification` | Avail node, prover | whatever is stored can be proved; what is listed is stored |
| Justification gadget `circuits/builder/justification.rs` | none | `compute_authority_set_commitment`, `verify_voting_threshold`, `verify_simple_justification` | hint, both circuits | accepts what the fetcher serves; a proof means a quorum |
| Event service `bin/events.rs` | a task per deployment, its log stream, a sorted set of ranges in Redis | `listen_for_events`, `main`, `add_data_commitment_range` | contracts' logs, Redis | publishes nothing but stored ranges; loses no log it was given; does not die half |
| Dummy programs `circuits/dummy_*.rs` | none | answer without proving | platform | what the contract stores from them is still true of the chain |

The behaviours that are hard to test: proofs are about the state of the request
and land in another state; requests are lost, repeated, reordered and raced by
third parties; the guardian changes everything at any time; the operator reads the
contract several times per iteration; sets change at an epoch end that belongs to
the *old* set; the prover may supply any header and any witness; fields of a header
move with the width of the numbers before them; listeners of one process end one
by one. `PROJECT.json` lists these
hazards with their lines and the properties that cover them.

## 2. Modules

| Module | Models | Extends |
|---|---|---|
| `Avail` | the finalized chain as constants; when a proof of either circuit exists and what it returns | |
| `LightClient` | the abstract specification of the contract: a client that learns facts of the chain | `Avail` |
| `VectorX` | the contract, the gateway's requests, the guardian and its scripts; implements `LightClient` | `Avail` |
| `Operator` | `bin/vectorx.rs` composed with the contract and the chain | `VectorX` |
| `DummyVectorX` | the dummy programs composed with the contract | `VectorX` |
| `LastJustifiedBlock` | the binary search of `last_justified_block` | `Avail` |
| `SubchainVerification` | the map-reduce gadget of the header range circuit, its hint, and the off-chain commitments | `Avail` |
| `Justification` | a justification as stored, padded, hinted and checked by the circuit | `Avail` |
| `HeaderRange` | the header range circuit: the two gadgets composed | `SubchainVerification`, `Justification` |
| `Scale` | SCALE encodings and the positions computed from them | |
| `Rotate` | the rotate circuit and its hint, on encoded headers | `Justification`, `Scale` |
| `Indexer` | the node's commits, `bin/indexer.rs`, Redis, and what the fetcher serves | `Justification` |
| `EventService` | `bin/events.rs`, the logs it is given and its sorted sets | |
| `Avail_proofs` | lemmas about set ids and epoch ends; theorems about the encodings | `Avail`, `Scale`, `TLAPS` |
| `Justification_proofs` | lemmas about authority sets and what a prover makes of their signatures | `Justification`, `Avail_proofs` |
| `VectorX_proofs` | theorems about the contract, alone, with the dummy programs and with the operator | `DummyVectorX`, `Operator`, `Avail_proofs` |
| `Indexer_proofs`, `HeaderRange_proofs`, `Rotate_proofs` | theorems | the module they are about, `Justification_proofs` |
| `LastJustifiedBlock_proofs` | theorems | `LastJustifiedBlock`, `Avail_proofs` |
| `EventService_proofs` | theorems | `EventService`, `TLAPS` |
| `MC...` | constants for TLC | |

### Avail

GRANDPA finalizes one header per height, so the chain is a set of constant
functions. `AuthoritySetId[b]` is `grandpa.current_set_id` at block `b`. It
changes at an epoch end block, which is the last block justified by the old set:
block `b` is justified by `AuthoritySetId[b - 1]` (`JustifyingSet`). Assumptions:
ids never decrease, are never skipped, and no hash is `bytes32(0)`. Hashes are
opaque and tagged with what they are the hash of.

`HeaderRangeProvable` and `RotateProvable` say for which public inputs a proof
exists; `HeaderRangeOutput` and `RotateOutput` what it returns. A proof of a range
also needs the justification of its target: an epoch end block has it from the
node, any other block only if the indexer stored it (`Unindexed` is the set it
missed). These two pairs are the interface between the circuits and the contract:
`VectorX` and `Operator` rest on them, `HeaderRange` and `Rotate` show that the
circuits come to them. The model takes from cryptography that proofs and signatures cannot be forged and
hashes do not collide.

### VectorX

The variables are the contract's storage under the contract's names, plus the two
sets of requests in flight, the chain's `head`, and three history variables
(`anchor`, the last height the guardian set; `resets`; `guardianUpdates`). Each
external function is one action with the whole function in it. A revert changes
nothing and is a disabled action.

* A request stores the packed input it was made with. Fulfilling it needs a proof
  of *that* input; the callback rebuilds the input from the state it finds and
  `verifiedCall` answers only if both agree, at the configured gateway and for the
  configured function. The callback's arguments are arbitrary, because calldata is
  not part of the proof.
* A fulfilled request stays, so it can be fulfilled again; it can be lost at any
  time. Anyone may request, also while the contract is frozen.
* The guardian's data is what `bin/genesis.rs` and `bin/fill_block_range.rs`
  compute. A fill starts at *any* block, since the script reads `latestBlock` long
  before it posts.
* `keccak256(abi.encode(start, end))` is the pair `<<start, end>>`.

### LightClient

What a reader of the contract may rely on, without requests, gateways or proofs: a
trusted height and growing sets of facts (height and header, id and authority set,
range and commitments), each true of the finalized chain. `Prove` needs the set
that justifies the target, `HandOver` a final block that announces the next set,
and the two actions of the guardian are `Anchor` and `Fill`. `VectorX` maps its
storage to these facts (`HeaderFacts`, `SetFacts`, `CommitmentFacts`; a zero entry
is no fact), so `ImplementsLightClient` says that no history of stale, repeated or
reordered proofs shows a reader anything a light client could not have learned in
that step. Requests, losses and configuration changes are stutters.

### Operator

`op` holds the await the operator is about to perform and its locals. Each read of
the contract or the head is a step; reads of data about finalized blocks
(`get_authority_set_id`) happen within the step before, because they never change.
The two hash reads before a submission and the submission are one step: what they
read is write-once (`WriteOnce`). A contract that was started at height 0 stops the
operator at `current_block - 1` (`HasBlockBefore`): only a restart is left. Next to the operator, all actions of `VectorX`
stay possible, third-party requests included. A submission that fails is one that
is lost at once.

### LastJustifiedBlock

One iteration of the `while` loop per step, over a chain that grows. The result is
compared with the definition `last_justified_block` of `Avail`, which `Operator`
uses.

### SubchainVerification

A map job accepts any sequence of headers that satisfies its assertions; the
hint is only what an honest prover supplies (`HeaderRangeFetcherHint`, padding
included). Headers are named by their hash and decoded by constant functions.
`sha256` of two nodes is the pair of them. The reference is the definition of the
off-chain `get_merkle_root_commitments`, chunked fetching included, and the walk
back through parent hashes from the returned header.

### HeaderRange

The state of `SubchainVerification` plus the authority set of the public input and
what the proof writes. When the subchain is done, `define` checks a justification,
if the fetcher can serve one for the target (`JustificationAvailable`): the
authorities come from the parent of the target, the message is about any finalized
block, any subset of its set signed. The public set is any that the contract may
store, with its hash (`AuthoritySetHashAssumption`: what `genesis.rs` posts and a
rotation returns is the chained hash of the keys). `CommitmentsAssumption` says the
same of the stored commitments: they are those of `get_merkle_root_commitments`,
which the fill script posts. `HeaderRangeSound` and
`HeaderRangeComplete` are the two directions of "a proof exists exactly when
`HeaderRangeProvable` holds, and writes `HeaderRangeOutput`".

### Scale and Rotate

`Scale` has the compact integers (the encoder as the reference, the decoder of
`decode_compact_int` as the code), the header positions of `decode_header` and the
offset by which `get_authorities` guesses the width of the count.

In `Rotate` a header is a partial function from byte positions to the fields that
start there, built with the real sizes by an encoder of digests: the engine id, tag
and keys of every log, the compact lengths in between. The circuit reads it by
position. `RotateHint` is the whole hint: `last_justified_block`, the assertions of
`get_header_rotate` (which stop the prover) and the positions it computes.
`OtherWitness` is a prover who supplies something else: any justified header, any
position at which a byte begins, the count found there or one less, a key
replaced. `DigestAssumption` is what the Avail runtime promises about digests: the
announcement is the first GRANDPA log of an epoch end block, without delay, and no
other block has one. Bytes inside a key or an opaque field do not imitate other
fields; without that every parser by position could be fooled by a chosen key.

### EventService

A listener per configured deployment with its subscription (`stream`), the sorted
set of Redis, and `main`, which awaits the join handles in their order. Each
contract is reduced to its head and the transactions that emitted a log
(`commitHeaderRange`, `updateBlockRangeData`, the latter with several logs) and
`updateGenesisState`, which emits none of these. A reorganization takes back the
last such transaction and what followed it; an open subscription then gets its logs
again, marked `removed`. A connection may close at any time, an `unwrap` may panic,
the process may be killed and started again. `delivered` is a history variable of
the open subscription.

### DummyVectorX

The run functions of both dummy programs as operators, and the callbacks of the
contract with their outputs. Requests, guardian and chain are those of `VectorX`.

### Justification and Indexer

`Justification` holds the definitions without state: the keys of an authority set,
the two ways to hash them (`compute_authority_set_hash` outside the circuit, and
`compute_authority_set_commitment` over padded slots inside it), the lists that
indexer and fetcher build from a commit, the padding, the checks of the hint and
those of the circuit. `Provable` composes hint and circuit for the public inputs
a correct request has. SHA-256 and signatures are ideal; the round is left out of
the signed message.

`Indexer` is the state machine. GRANDPA and the node are external: a commit's
target is the highest block that a supermajority voted for or built upon, a set
votes for no block after the one that announces its successor, and each voter has
one precommit. The `precommits[0]` of the code may be any of them (`first`), also
one for a later block. The node keeps only the commits of epoch ends. The indexer
takes a commit (`Skip` or `Accept`), then performs the two Redis writes of
`add_justification` in two steps, and may stop anywhere; a panic, a failed
connection and the end of the stream are the same `Stop`. What it misses while it
is down is the constant `Unindexed` of `Avail`. Reads by the fetcher are operators,
since what they read on the chain is final: `Served` says that
`get_justification_data` returns, `EpochEndBlocks` is the walk of
`find_justifications_in_range`.

## 3. Runs

| Run | Checks | Result |
|---|---|---|
| `vectorx` | `TypeOK`, `CanonicalStore`, `Coverage`, `Disjoint`, `CanAdvance`, `WriteOnce`, `ProvenAdvance`, `ImplementsLightClient` | hold |
| `vectorx_same_set` | `SameAuthoritySet` | violated, see section 6 |
| `operator` | `OpTypeOK`, `RequestWithinSet`, `RequestProvable`, `RotateRequestProvable`, `NeverIdleBehind` | hold |
| `operator_liveness`, `operator_guardian` | `CatchesUp` | hold |
| `last_justified_block` | `LJTypeOK`, `SearchCorrect`, `SearchEnds` | hold |
| `indexer` | `IndexerTypeOK`, `ServedIsProvable`, `EpochEndServed`, `ListedIsStored`, `EpochEndsNotStored`, `FoundIsServed`, `SimpleIsListed` | hold |
| `voting_threshold` | `ThresholdIsQuorum` | violated, see section 6 |
| `header_range` | `SubchainSound`, `CommitmentsAgree`, `HeaderRangeSound`, `HeaderRangeComplete` | hold |
| `rotate` | `RotateComplete`, `OnlyScheduledChange`, `HeadersDecode`, `HintPanicsOnlyIfCurrent` | hold |
| `event_service` | `EventsTypeOK`, `PublishedWasStored`, `NothingDropped`, `DeliveredIsPublished`, `EndedIsNoticed` | hold |
| `dummy` | `DummyRangesCanonical`, `WrongSetIsThatOfBlockZero` | hold |

Run one with `tlc -config VectorX.cfg MCVectorX`. For every property of a passing
run `PROJECT.json` names a mutant, an operator marked "Mutant" in the module, that
makes the property fail when it replaces the definition after it.

**Bounds.** `vectorx`: five blocks, epoch ends at 2 and 4, circuits of two
headers, so that a range can stay in an epoch, end at its end or span it; two
requests in flight, so that they race; two guardian calls, so that a reset follows
a fill, or a freeze is lifted; two function ids and two gateways, symmetric since
they are only compared. `operator`: epoch ends at 3 and 5, an interval of 2, so
that the interval and the epoch end each bound the step. One request in flight is
enough there, because the operator forgets what it asked for; a full queue loses
the older request. `operator_liveness` has a block without justification and a
restart and no guardian; `operator_guardian` has a guardian call at any point and a
second function id. `last_justified_block`: 21 blocks, every head, every set id,
epochs of one block to six. `indexer`: epoch ends at 2 and 4; sets of
three, where all must sign, and of four, where one may be missing, in different
orders; five slots, so that there is padding; at most two commits waiting, so that
the node is ahead of the indexer. `header_range`: four jobs of two headers
with `MAX_NUM_HEADERS` 6, so that the number of jobs is rounded up, and chunks of
four headers, so that a range takes more than one; trusted block 1 and targets from
0 to one block more than the circuit holds; an epoch end at 3, which is inside a
range or its end; block 6 without a stored justification; two forked headers and one that skips a height; a set of two,
where all must sign, and one of three in another order; every subset of signers and
every block they may have signed. `rotate`: block 0 of the instance stands for
heights 0, 60, 16380 and 2^30 - 4, so that the width of the number changes inside
the instance at each of its three boundaries; sets of 2, 64, 63, 65 and 1
authorities, so that the count has one byte and two, up to the 65 slots of the
circuit; a digest with the announcement alone, between other logs, and behind a BABE
log that also carries a list of keys. `event_service`: two of three deployments
configured; one gets to height 2, so that a fill has two logs and after a reset a
range ends where another one did, the other is followed for its listener alone; one
reorganization, two starts. `dummy`: the chain of `vectorx` with one gateway, one
function id and one guardian call. Deadlock is checked for `indexer`, which can
always stop or start; the other instances end when their counters and the chain
do.

**Fairness** (`FairOpSpec`). Weak fairness of the operator's steps: `run` loops
for ever and each of its awaits returns. Weak fairness of finalization: Avail's
own liveness. Strong fairness of the two proof deliveries: the platform may lose or
delay any request, but not every repetition of one that is asked for in every
iteration. Nothing is assumed of the guardian, of third parties or of restarts.
`CatchesUp` has the premise that the contract does not stay frozen.
`LJSpec` assumes weak fairness of the loop, and `IndexerSpec` of the indexer's own
steps; `SimpleIsListed` excuses an indexer that stops. `EventsSpec` assumes weak
fairness of each listener (subscribe, take a log, return) and of `main` at a handle
that is ready, since tokio polls every task that can go on; nothing is assumed of
panics, closed connections, kills or starts.

Two limits of `CatchesUp` are facts about the configuration. If the target at the
range limit has no stored justification and is no epoch end, the operator asks for
it for ever (`bin/vectorx.rs:398` never tries another block); the liveness run has
its missing block below that limit. And an `UPDATE_DELAY_BLOCKS` above the 256
blocks of one circuit can leave nothing to request: `NeverIdleBehind` has the
premise that it is not, and holds for every other value.

## 4. Proofs

Every theorem holds for all chains, bounds and other constants that satisfy the
named `ASSUME`s. Those say no more than the code or its environment does: set ids
never decrease or skip, hashes are not zero, the fill and the circuit have the same
positive size; `DATA_COMMITMENT_MAX <= MAX_NUM_HEADERS` (both are 256,
`bin/vectorx.rs` and `circuits/consts.rs:53`); authority sets are lists without
repetition that fit the circuit; the chains of the event service form a sequence.
For the header range circuit: finalized headers are linked by parent hash and
number, an empty header decodes to zeros, the headers per map job are a power of
two (8 in the source), there are two map jobs or more
(`circuits/builder/subchain_verification.rs:80` asserts it), a chunk of requests is
not empty, the contract trusts a block of the chain, and its two kinds of stored
hashes are those the fetcher computes. For the rotate circuit: what the runtime
promises about digests (`DigestAssumption`); a log has bytes behind its tag, which
imitate no other field (`LogsAssumption`); every header fits `MAX_HEADER_SIZE`, also
with a number of five bytes, and that is less than 2^22 bytes (35840 in
`circuits/consts.rs`; `HeaderSizeAssumption`); the circuit takes at most 409
authorities (300, `SetSizeAssumption`), beyond which the length of an announcement
takes four bytes and the hint's witness would fail; and the logs before an
announcement leave room for the list of a *full* set, because the gadget always
cuts out that many bytes (`RoomAssumption`).

**Contract** (`VectorX_proofs`). Every property of the run `vectorx`, and
`NothingFromTheFuture`, which for TLC is part of `ImplementsLightClient`.

* *Inductive invariant.* `TypeOK` is not inductive alone: that no request carries
  a zero hash needs `Configured` (before `initialize` nothing is stored and
  nothing is requested) and the fact that a stored hash is never erased.
* *Step kinds.* `StepKinds` reduces the nine disjuncts of `Next` and the stutter
  to five effects on the store: nothing, a genesis write, a fill, a commit and a
  rotation. Every later lemma has one case per kind.
* *Canonical store.* A commit writes the output for `call.input`, and
  `verifiedCall` equates `call.input` with the input rebuilt from the current
  state; so the key, the target and the output belong together. This is the
  argument against stale proofs.
* *Never stuck.* `CanAdvance` needs that a commit stays within what the known sets
  justify: if the new head were two sets ahead, the set that justified it would
  have had to be known.
* *Coverage and disjointness.* `NumBatchesBounds`, `FillBlockRange` and
  `FillKeysTile` show that the batches of a fill tile `(start, end]`;
  `CommitRanges` and `FillRanges` say how `Ranges` grows.
* *Refinement.* `FactsAreOfTheChain` turns a canonical store into sets of facts, and
  one lemma per step kind finds the step of `LightClient` (`GenesisIsAnchor`,
  `CommitIsProve`, `FillIsFill`, `RotateIsHandOver`). The hard one is the fill: its
  batches have to be ranges a prover could have proved (`FillBatchesShort`) that
  cover every block exactly once.

**Dummy programs** (`VectorX_proofs`). Both properties of the run `dummy`. A
step is one of the contract's, or a commit or rotation with a dummy answer
(`DummyStepKinds`), so the lemmas about the contract carry over. The invariant is
the type invariant with each property. A dummy commit is canonical because the
answer depends only on the two block numbers, which `verifiedCall` ties to the
contract's state. A dummy rotation may even be about the id after the last
announced set, and the write then falls outside `SetIds`.

**Operator** (`VectorX_proofs`). Every invariant of the run `operator`, also for a
genesis height of 0.

* *What the contract owes the operator.* `ContractInv` joins `TypeInv`,
  `CanonicalStore`, `NothingFromTheFuture` and `Coverage` to a fact none of them
  has: of the two sets around `latestBlock`, the one that justified it or the one it
  announces, the contract knows one (`SetAround`). A commit leaves the first, the
  guardian the second.
* *What a read establishes.* `OpInv` says for each await what the earlier reads
  have made true and what no step of the contract can take back
  (`OthersStep`): sets and headers stay known, the head only grows. `ContractRead`
  carries `SetAround` to the block that was read; `RangeDecided` says that the
  target lies in the epoch of the block read *second*, which is why a
  `latestBlock` that moved between `run` and `find_and_request_header_range` spoils
  the request at most, and never takes it out of its set.
* *Provability.* `SubmittedHeaderRange` and `SubmittedRotate` turn the last await
  into the inputs of a proof: the set id is `JustifyingSet` of the target because
  `find_block_to_step_to` stops at the epoch end, which `LastJustifiedCases` and
  `EpochEndsBetween` find. `NeverIdleBehind` is the arithmetic of the rounding
  (`BlockToRequestBounds`).

**Epoch search** (`LastJustifiedBlock_proofs`). The search is correct for every
chain, head and set. The loop invariant says that the epoch end, if any, stays in
`low .. high`, and that the ids just outside the range lie on the right side of the
target. The second half makes the sentinel exact (`ZeroMeansCurrent`): when the range
is empty its two sides are neighbours, and as ids are never skipped a block above
would be the epoch end. `high` stays a natural number because block 0 has set 0
(`FirstSetAssumption`), so `mid - 1` is never taken of 0.

**Indexer and justifications** (`Indexer_proofs`). Every invariant of the run
`indexer`.

* *Inductive invariant.* `IndexerInv` adds to the types and `ListedIsStored` that a
  commit stays at the front of the queue between the two writes, has passed the
  threshold and, after the first write, is stored (`Writing`); that the node kept a
  commit of every finalized epoch end (`ProofsKept`); and that whatever is stored
  was made from a commit that passed (`StoredFromCommits`). Without the last two
  nothing is known of what the fetcher reads.
* *The set's hash* (`Justification_proofs`, with the next). `CommitmentIsHash`: the
  chain of hashes that the circuit computes over its padded slots, disabled after
  `num_authorities`, is the one the fetcher computes over the keys alone, for every
  number of slots.
* *The three thresholds.* `Thresholds` relates the rounded threshold of the indexer,
  the strict one of the circuit and the supermajority of GRANDPA;
  `SignedIsProvable` shows that a list of precommits with enough of them, padded to
  the slots of the circuit, passes hint and circuit.
* *The two sources.* `AcceptedIsProvable` and `EpochEndCommit` bring what Redis holds
  and what the node kept to `SignedIsProvable`.
* *Epoch ends.* `EpochEndNotEnough`: at an epoch end the id the indexer reads differs
  from the one that was signed, so no signature verifies and zero are never enough.
* *The search.* `WalkFindsEpochEnds` is a walk from epoch end to epoch end; it ends at
  the block asked for and passes every epoch end, because the next one is that of
  the set id read (`EpochEndOfId`).

**Event service** (`EventService_proofs`). Every invariant of the run
`event_service`. The deployments are independent but for `main`: a step changes one
of them or the process (`OneDeploymentStep`), so the invariant is a formula
`DeploymentOK` of the values of one deployment. `NothingDropped` needs to know
that whatever was delivered is in Redis *or still in the stream*;
`PublishedWasStored` that every log in the stream is of a range stored once, where
ranges that a reorganization takes back move to `removed`; and both, that nothing
is delivered before the subscription is made. `EventsTypeOK` needs that there is a task
exactly while there is a process, and that handles are awaited in the order of the
list.

**Header range circuit** (`HeaderRange_proofs`). Every invariant of the run
`header_range`, for every chain, every arity and number of map jobs, and every
headers a prover may supply. Together the two directions prove what the theorems
about contract and operator take from `Avail`: a proof exists exactly when
`HeaderRangeProvable` says so, and writes `HeaderRangeOutput`.

* *Segments.* A node of a layer stands for `w` heights from an offset on
  (`Segment`): there are headers, linked and numbered as far as the target
  (`Enabled`), whose ends and roots it records. `MapSegment` gets this from the
  assertions of a map job and nothing else; for that it has to be shown that the
  flag `curr_block_noop` turns on exactly behind the target (`EnabledHeaders`).
  `ReduceSegment` joins two neighbours. `SubchainInv` says that every layer consists
  of segments of one width that cover all jobs, and that the final output is that of
  one segment.
* *Trees.* The root of two halves side by side is the hash of their roots
  (`MerkleSplit`), which is what ties the map-reduce of subtrees to the single tree
  of `SubchainSound`.
* *On chain and off chain.* `TreesAreOfOneSize`: the fetcher pads to the next power
  of two above `MAX_NUM_HEADERS`, the circuit rounds the number of jobs up, and both
  trees have the same number of leaves, which with a single map job could fail.
  `FetchesTheRange`: the chunked loop returns each block once and in order.
  `LinkedToTheChain`: headers that are linked and end at a finalized header are
  finalized.
* *The justification.* `JustifiedIsTarget`: only a message about the target itself,
  signed under the id of its set, passes, and the header it names is the one the
  subchain ended with. `HeaderRangeInv` keeps that of a written output.
* *The honest prover.* `HonestInv` says what the nodes are when every hint was the
  fetcher's: from the block after the trusted one to the last one enabled, with the
  hashes of the chain. With it no assertion fails at any layer (`HonestPasses`), the
  root covers the whole range because the circuit has room for it (`HonestRoot`),
  and the signatures of the whole set pass (`AllSigned`).

**Rotate circuit** (`Rotate_proofs`). Every property of the run `rotate`, for every
digest, every height, every size of the sets and every extension. As for the other circuit, the two
directions `HintIsProved` and `OnlyAnnouncedSet` prove what the theorems about contract
and operator take from `Avail`, with the exception of sets of one authority.

* *The layout.* A header is joined from parts, and of two parts that overlap the
  first would win; so the lemmas show that none do. `LogFieldsAre` and
  `HeaderFieldsAre` place the parts of a log and of a header in intervals
  that follow each other, `LogsLengthStep`, `LogsInOrder` and `LogsPlaced` the
  logs of a digest. What is left of them is `HeaderHasLog`: every field of every log
  is where the encoder's lengths put it; and `EngineIds`: an engine id is nowhere
  but one byte into a log.
* *Decoding.* `CompactRead` brings `CompactRoundTrip` to bytes at a position, with
  whatever follows; `HeaderDecodes` needs only the offsets of four fields.
* *The hint.* `AnnouncementIs` makes the log at which the loop breaks the
  announcement, `LastJustifiedCases` its block the epoch end. `AnnouncementLength` is
  the arithmetic of the two bytes that are skipped: the length of the value has two
  bytes for 2 to 409 authorities. `HintInv` says that the witness is that of
  `get_header_rotate`, which no later step changes.
* *Any witness.* `AcceptedPrefix`: a prover's start position lies one byte before a
  GRANDPA log, since nothing else holds its engine id. `AcceptedIsList`: this log
  has a two byte length and a list. With a length of one byte the gadget reads the
  first byte of the count, or of the tail, for the tag; with four it reads the
  highest byte of the length for the count, which is 0, and no number of
  authorities; and behind a tag without a list no count begins. `AcceptedIsAnnouncement`
  then fixes the number of authorities by the decoded count and their keys one by
  one. `WitnessInv` keeps that the header is a finalized one that the requested set
  justified.

**Encodings** (`Avail_proofs`). Decoding inverts encoding for every 32-bit number and any
bytes that follow (`CompactRoundTrip`), and the width guessed from the length is right
for every count below 2^14 (`AuthoritiesOffsetRight`).

Where an argument is by induction over the naturals (the chain of hashes, the layers
of a tree, the chunks of requests, the walk over epochs, the next epoch end) the proofs take a least counterexample
(`LeastNatural`). For the same reason recursive definitions that are reasoned about
are recursive functions, `join_handles` for one.

Only model-checked: the liveness properties (`CatchesUp`, `SearchEnds`,
`SimpleIsListed`, `DeliveredIsPublished`, `EndedIsNoticed`; fairness is outside the
prover's reach). Every safety property that a passing run checks is also a theorem.

## 5. Not modelled

Gas, fees, events, the proxy upgrade and timelock inherited from
TimelockedUpgradeable; encodings of calldata, apart from which fields they contain;
the proof system, the signature and hash gadgets and plonky2x's subarray check
(external, trusted); entry points under `bin/` that only start a backend; type
declarations in `circuits/vars.rs`. Blocks that are not finalized, which only a
dummy program could be asked about. A GRANDPA log before the announcement, which
would stop the hint of the rotate circuit: the runtime deposits none
(`DigestAssumption`). The SCALE encoding of precommits in `decode_precommit` has
fixed positions and is taken as the record of its fields (`SignedMessage`).

## 6. Findings

Two statements of the repository are refuted by a run.

* **The documented precondition of a header range is not enforced** (run
  `vectorx_same_set`). The contract
  comments (`contracts/src/VectorX.sol:151`, `:204`) require the trusted and the
  requested block to have the same authority set and the circuit notes it as given
  (`circuits/builder/subchain_verification.rs:417`), but the contract takes any
  set it knows and the circuit ties that set to the target only. After a rotate, a
  range across an epoch end is accepted. The stored data is still canonical
  (`CanonicalStore`), and the operator never asks for such a range
  (`RequestWithinSet`).
* **The threshold counts every slot** (run `voting_threshold`). `verify_voting_threshold`
  (`circuits/builder/justification.rs:173`) adds up the flags of all slots of the
  circuit, while the commitment covers the first `num_authorities` of them. The
  documented guarantee (`:116`, more than 2/3 of the validators signed) holds for
  the lists that `get_justification_from_block` builds, where the padding flags
  are false, and is not implied by the gadget's constraints alone. `Avail` takes
  the documented guarantee as given: its `HeaderRangeProvable` and
  `RotateProvable`, and with them the results about the contract, assume lists
  padded that way.

The other limits met while modelling are part of the statement of a property that
holds, which says exactly how far the code goes.

* **A set of one authority cannot be rotated in** (`RotateComplete`). The gadget
  expects two bytes between engine id and tag (`circuits/builder/rotate.rs:86`, and
  so does the comment at `circuits/input/mod.rs:847`); the value of an announcement
  of one authority is 46 bytes long, and its length takes one byte. The hint returns
  data and the circuit rejects it. Two authorities are enough. `RotateProvable` of
  `Avail` assumes at least two.
* **A dummy rotate of an unfinished epoch stores a wrong set**
  (`WrongSetIsThatOfBlockZero`). The sentinel 0 of
  `last_justified_block` is used as a block number
  (`circuits/dummy_rotate.rs:20`). A rotate of the current set may be requested,
  and the contract then holds the set of block 0 under the next id. With the
  circuit there is no proof for such a request. Headers and commitments stay
  canonical also in a dummy deployment (`DummyRangesCanonical`).
* **The event service does not catch up** (`NothingDropped` is about an open
  subscription). It subscribes to new logs (`bin/events.rs:45`); what the contract
  stored before stays unpublished, although the README (`README.md:62`) wants every
  stored commitment served. A range that a reorganization takes back stays published
  (`PublishedWasStored`).
* **A panicking listener is noticed only in the order of the list**
  (`EndedIsNoticed`). The handles are awaited one after the other
  (`bin/events.rs:111`), so the `expect` for a later deployment is not reached
  while an earlier one listens.
* **A range of one block has no epoch end** (`FoundIsServed`).
  `find_justifications_in_range` promises to include start and end block
  (`circuits/input/mod.rs:326`), but its walk runs only while
  `curr_block < end_block` (`:353`). Only tests call it.
* **A test asserts the wrong set id.** `test_get_new_authority_set`
  (`circuits/input/mod.rs:1063`, ignored in CI) asserts that the set at the
  epoch end block is the target set; by `SearchCorrect` it is the target plus one.

## 7. Plan

Done, in this order: `Avail`, `VectorX` with its proofs, `Operator`,
`LastJustifiedBlock` with its proofs, `SubchainVerification`, `Justification` and
`Indexer` with its first proofs; `LightClient` with the refinement and its proof,
`Scale` with its proofs, `Rotate`, `EventService`, `DummyVectorX`, `HeaderRange`,
and the first proof about the operator. Every component of the inventory that
keeps state or computes something has a module.

Then the proofs about the safety of the operator, the indexer, the event service,
the dummy programs and the two circuits: with these every safety property that a
passing run checks is a theorem.

Next: the composition of the theorems about the circuits with those about the
contract, now tied by the definitions of `Avail` they share, in one statement; and
fewer assumptions on headers in `Rotate`, whose layout lemmas need the bounds on the
size of a header only where a subarray is cut out.
