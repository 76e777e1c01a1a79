------------------------ MODULE SubchainVerification ------------------------
(***************************************************************************)
(* verify_subchain: the map-reduce part of the header range circuit.       *)
(*                                                                         *)
(* The headers of a map job come from a hint, so the constraints have to   *)
(* hold the output together whatever headers the prover supplies: a job    *)
(* takes ANY sequence of headers that satisfies its assertions.  A failed  *)
(* assertion is a disabled action: no proof is generated.                  *)
(*                                                                         *)
(* A header is named by its hash, which is collision free; what decode_    *)
(* header extracts from it is given by functions of the header.            *)
(***************************************************************************)
EXTENDS Avail, Sequences, FiniteSets

CONSTANTS
    Headers,                     \* every header a prover can supply
    EmptyHeader,                 \* EncodedHeader of size 0, all bytes zero
    Number,                      \* [Headers -> Nat]
    ParentHash,                  \* [Headers -> Headers \cup {Zero}]
    StateRoot,                   \* [Headers -> roots]
    DataRoot,
    ZeroRoot,                    \* an empty leaf
    HEADERS_PER_MAP,
    MAX_CONCURRENT_WS_REQUESTS,
    TrustedBlocks                \* heights the contract may trust

(* Finalized headers are linked; the empty header decodes to zeros. *)
ASSUME ChainAssumption ==
    /\ Number \in [Headers -> Nat]
    /\ \A b \in 0 .. MaxBlock : HeaderHash[b] \in Headers /\ Number[HeaderHash[b]] = b
    /\ \A b \in 1 .. MaxBlock : ParentHash[HeaderHash[b]] = HeaderHash[b - 1]
    /\ EmptyHeader \in Headers /\ Zero \notin Headers
    /\ Number[EmptyHeader] = 0 /\ ParentHash[EmptyHeader] = Zero

ASSUME TrustedAssumption == TrustedBlocks \subseteq Blocks

ASSUME MaxRequestsAssumption == MAX_CONCURRENT_WS_REQUESTS \in Nat \ {0}

(* 2usize.pow *)
pow2[k \in Nat] == IF k = 0 THEN 1 ELSE 2 * pow2[k - 1]

(* The arity of a map job is a power of two, as 8 is in the source. *)
ASSUME HeadersPerMapAssumption == \E k \in 0 .. 8 : HEADERS_PER_MAP = pow2[k]

VARIABLES
    trusted_block,
    target_block,
    phase,          \* "map", "reduce" or "done"
    nodes,          \* MapReduceSubchainVariables of the current layer
    honest,         \* history: every hint was HeaderRangeFetcherHint's
    output          \* SubchainVerificationVariable

vars == <<trusted_block, target_block, phase, nodes, honest, output>>

NoOutput == [target_header_hash     |-> Zero,
             state_root_merkle_root |-> ZeroRoot,
             data_root_merkle_root  |-> ZeroRoot]

-----------------------------------------------------------------------------
(* Merkle trees; sha256 of two nodes is the pair of them. *)
sha256(left, right) == <<left, right>>

LayerAbove(layer) ==
    [i \in 1 .. Len(layer) \div 2 |-> sha256(layer[2 * i - 1], layer[2 * i])]

(* The root: the only node of the first layer of length one. *)
MerkleLayers(layer) ==
    LET layers[k \in 0 .. Len(layer)] ==
            IF k = 0 THEN layer ELSE LayerAbove(layers[k - 1])
        depth == CHOOSE k \in 0 .. Len(layer) : Len(layers[k]) = 1
    IN  layers[depth][1]

(* The smallest power of two that is not below n. *)
PowerOfTwo(n) ==
    pow2[CHOOSE k \in 0 .. n : pow2[k] >= n /\ \A l \in 0 .. k - 1 : pow2[l] < n]

Padded(leaves, n) ==
    [i \in 1 .. n |-> IF i <= Len(leaves) THEN leaves[i] ELSE ZeroRoot]

(* RpcDataFetcher::get_merkle_root *)
get_merkle_root(leaves) ==
    MerkleLayers(Padded(leaves, PowerOfTwo(Len(leaves))))

(* The circuit's tree (external): leaves beyond the enabled ones are empty. *)
get_root_from_hashed_leaves(leaves, nb_enabled) ==
    MerkleLayers([i \in 1 .. Len(leaves) |->
                     IF i <= nb_enabled THEN leaves[i] ELSE ZeroRoot])

-----------------------------------------------------------------------------
(* Fetching headers, in chunks of concurrent requests. *)

(* Mutant: consecutive chunks share a block. *)
OverlappingChunk(curr_block) == curr_block + MAX_CONCURRENT_WS_REQUESTS - 1

NextChunk(curr_block) == curr_block + MAX_CONCURRENT_WS_REQUESTS

ChunkEnd(curr_block, end_block_number) ==
    IF curr_block + MAX_CONCURRENT_WS_REQUESTS - 1 < end_block_number
    THEN curr_block + MAX_CONCURRENT_WS_REQUESTS - 1 ELSE end_block_number

(* get_header of the blocks from first to last. *)
HeadersFrom(first, last) ==
    [i \in 1 .. last - first + 1 |-> HeaderHash[first + i - 1]]

(* One iteration of the while loop. *)
FetchChunk(loop, end_block_number) ==
    IF loop.curr_block > end_block_number THEN loop
    ELSE [curr_block |-> NextChunk(loop.curr_block),
          headers    |-> loop.headers \o
                             HeadersFrom(loop.curr_block,
                                ChunkEnd(loop.curr_block, end_block_number))]

(* It has ended after as many iterations as there are blocks. *)
get_block_headers_range(start_block_number, end_block_number) ==
    LET loop[n \in 0 .. end_block_number + 1] ==
            IF n = 0 THEN [curr_block |-> start_block_number, headers |-> <<>>]
            ELSE FetchChunk(loop[n - 1], end_block_number)
    IN  loop[end_block_number + 1].headers

(* What the prover of this repository supplies to a map job. *)
HeaderRangeFetcherHint(start_block, last_block, max_block) ==
    LET last == IF last_block < max_block THEN last_block ELSE max_block
        headers == IF last >= start_block
                   THEN get_block_headers_range(start_block, last) ELSE <<>>
    IN  [i \in 1 .. HEADERS_PER_MAP |->
            IF i <= Len(headers) THEN headers[i] ELSE EmptyHeader]

(* RpcDataFetcher::get_merkle_root_commitments: what fill_block_range posts *)
(* for (start_block, end_block].                                            *)
get_merkle_root_commitments(start_block, end_block) ==
    LET headers == get_block_headers_range(start_block + 1, end_block)
        leaves(Root) == Padded([i \in 1 .. Len(headers) |-> Root[headers[i]]],
                               MAX_NUM_HEADERS)
    IN  [state |-> get_merkle_root(leaves(StateRoot)),
         data  |-> get_merkle_root(leaves(DataRoot))]

-----------------------------------------------------------------------------
(* Map *)

(* MAX_NUM_HEADERS / HEADERS_PER_MAP, rounded up. *)
JobsNeeded == (MAX_NUM_HEADERS + HEADERS_PER_MAP - 1) \div HEADERS_PER_MAP

(* Mutant: floor of the logarithm instead of its ceiling. *)
NumMapJobsFloor == PowerOfTwo(JobsNeeded + 1) \div 2

num_map_jobs == PowerOfTwo(JobsNeeded)

(* "Number of map jobs must be at least 2!" *)
ASSUME NumMapJobsAssumption == num_map_jobs >= 2

BatchStart(job) == trusted_block + (job - 1) * HEADERS_PER_MAP + 1
BatchEnd(job) == trusted_block + job * HEADERS_PER_MAP

is_batch_disabled(job) == target_block < BatchStart(job)

(* curr_block_noop when header i is reached: the batch is disabled or the *)
(* target was met before i.                                               *)
Noop(job, headers, i) ==
    \/ is_batch_disabled(job)
    \/ \E j \in 1 .. i - 1 : Number[headers[j]] = target_block

(* num_headers: the headers up to the target. *)
NumHeaders(job, headers) ==
    Cardinality({i \in 1 .. HEADERS_PER_MAP : ~Noop(job, headers, i)})

EndBlock(job, headers) ==
    LET n == NumHeaders(job, headers)
    IN  IF n = 0 THEN 0 ELSE Number[headers[n]]

nb_enabled_leaves(job, headers) == NumHeaders(job, headers)

(* Header i is the child of header i - 1, by hash and by number. *)
BatchLinked(job, headers) ==
    \A i \in 2 .. HEADERS_PER_MAP : ~Noop(job, headers, i) =>
        /\ ParentHash[headers[i]] = headers[i - 1]
        /\ Number[headers[i]] = Number[headers[i - 1]] + 1

MapAssertions(job, headers) ==
    /\ BatchLinked(job, headers)
    /\ Number[headers[1]] = BatchStart(job) \/ is_batch_disabled(job)
    /\ \/ EndBlock(job, headers) = BatchEnd(job)
       \/ Noop(job, headers, HEADERS_PER_MAP + 1)

MapOutput(job, headers) ==
    LET n == NumHeaders(job, headers)
        root(Root) == get_root_from_hashed_leaves(
                          [i \in 1 .. HEADERS_PER_MAP |-> Root[headers[i]]],
                          nb_enabled_leaves(job, headers))
    IN  [num_blocks        |-> n,
         start_block       |-> Number[headers[1]],
         start_header_hash |-> headers[1],
         start_parent      |-> ParentHash[headers[1]],
         end_block         |-> EndBlock(job, headers),
         end_header_hash   |-> IF n = 0 THEN Zero ELSE headers[n],
         state_merkle_root |-> root(StateRoot),
         data_merkle_root  |-> root(DataRoot)]

-----------------------------------------------------------------------------
(* Reduce *)

(* Mutant: the right subchain is not tied to the left one by hash. *)
SubchainsSequential(left, right) ==
    right.num_blocks = 0 \/ left.end_block = right.start_block - 1

SubchainsLinked(left, right) ==
    \/ right.num_blocks = 0
    \/ /\ left.end_header_hash = right.start_parent
       /\ left.end_block = right.start_block - 1

ReduceOutput(left, right) ==
    LET last == IF right.num_blocks = 0 THEN left ELSE right
    IN  [num_blocks        |-> left.num_blocks + right.num_blocks,
         start_block       |-> left.start_block,
         start_header_hash |-> left.start_header_hash,
         start_parent      |-> left.start_parent,
         end_block         |-> last.end_block,
         end_header_hash   |-> last.end_header_hash,
         state_merkle_root |-> sha256(left.state_merkle_root,
                                      right.state_merkle_root),
         data_merkle_root  |-> sha256(left.data_merkle_root,
                                      right.data_merkle_root)]

LayerLinked ==
    \A i \in 1 .. Len(nodes) \div 2 :
        SubchainsLinked(nodes[2 * i - 1], nodes[2 * i])

(* The last two assertions of verify_subchain. *)
GroundedInInputs ==
    /\ nodes[1].start_parent = HeaderHash[trusted_block]
    /\ nodes[1].end_block = target_block

-----------------------------------------------------------------------------
(* The contract requests with its own header; the target is calldata. *)
Init ==
    /\ trusted_block \in TrustedBlocks
    /\ target_block \in 0 .. MaxBlock
    /\ phase = "map"
    /\ nodes = <<>>
    /\ honest = TRUE
    /\ output = NoOutput

FetchedHint(job) ==
    HeaderRangeFetcherHint(BatchStart(job), BatchEnd(job), target_block)

MapJob(headers) ==
    LET job == Len(nodes) + 1
    IN  /\ phase = "map"
        /\ MapAssertions(job, headers)
        /\ nodes' = Append(nodes, MapOutput(job, headers))
        /\ phase' = IF job = num_map_jobs THEN "reduce" ELSE "map"
        /\ honest' = (honest /\ headers = FetchedHint(job))
        /\ UNCHANGED <<trusted_block, target_block, output>>

ReduceLayer ==
    /\ phase = "reduce" /\ Len(nodes) > 1
    /\ LayerLinked
    /\ nodes' = [i \in 1 .. Len(nodes) \div 2 |->
                    ReduceOutput(nodes[2 * i - 1], nodes[2 * i])]
    /\ UNCHANGED <<trusted_block, target_block, phase, honest, output>>

Output ==
    /\ phase = "reduce" /\ Len(nodes) = 1
    /\ GroundedInInputs
    /\ phase' = "done"
    /\ output' = [target_header_hash     |-> nodes[1].end_header_hash,
                  state_root_merkle_root |-> nodes[1].state_merkle_root,
                  data_root_merkle_root  |-> nodes[1].data_merkle_root]
    /\ UNCHANGED <<trusted_block, target_block, nodes, honest>>

Next ==
    \/ \E headers \in [1 .. HEADERS_PER_MAP -> Headers] : MapJob(headers)
    \/ ReduceLayer
    \/ Output

Spec == Init /\ [][Next]_vars

-----------------------------------------------------------------------------
Length == target_block - trusted_block

(* The headers from the output's header back through its ancestors. *)
Ancestors ==
    LET back[i \in 0 .. Length] ==
            IF i = 0 THEN output.target_header_hash
            ELSE IF back[i - 1] \in Headers THEN ParentHash[back[i - 1]]
            ELSE Zero
    IN  back

(* Whatever headers the prover supplied, a proof of a non-empty range says *)
(* that the returned header is the target-th, that going back through its  *)
(* parents meets consecutive numbers and ends at the trusted header, and   *)
(* that the roots commit to exactly the headers on that way.  A proof of   *)
(* an empty range returns the zero hash, which no authority justifies.     *)
SubchainSound ==
    phase = "done" =>
        IF trusted_block < target_block
        THEN LET way == Ancestors
                 roots(Root) == [i \in 1 .. Length |-> Root[way[Length - i]]]
                 tree(Root) == MerkleLayers(
                                  Padded(roots(Root),
                                         num_map_jobs * HEADERS_PER_MAP))
             IN  /\ way[Length] = HeaderHash[trusted_block]
                 /\ \A i \in 0 .. Length - 1 :
                       way[i] \in Headers /\ Number[way[i]] = target_block - i
                 /\ output.state_root_merkle_root = tree(StateRoot)
                 /\ output.data_root_merkle_root = tree(DataRoot)
        ELSE output.target_header_hash = Zero

(* For the finalized target header the circuit commits to the very roots   *)
(* that get_merkle_root_commitments computes off chain: a range that the   *)
(* guardian fills in and one that is proved are stored alike.              *)
CommitmentsAgree ==
    phase = "done" /\ output.target_header_hash = HeaderHash[target_block]
            /\ Length \in 1 .. MAX_NUM_HEADERS =>
        [state |-> output.state_root_merkle_root,
         data  |-> output.data_root_merkle_root]
            = get_merkle_root_commitments(trusted_block, target_block)

(* The prover of this repository never fails an assertion on a range of up *)
(* to MAX_NUM_HEADERS finalized headers, padding included.                 *)
HonestProverSucceeds ==
    honest /\ Length \in 1 .. MAX_NUM_HEADERS =>
        /\ phase = "map" =>
              MapAssertions(Len(nodes) + 1, FetchedHint(Len(nodes) + 1))
        /\ phase = "reduce" /\ Len(nodes) > 1 => LayerLinked
        /\ phase = "reduce" /\ Len(nodes) = 1 => GroundedInInputs
=============================================================================
