---------------------------- MODULE EventService ----------------------------
(***************************************************************************)
(* bin/events.rs: one process with a listener for every configured         *)
(* deployment of VectorX, each of which subscribes to the logs             *)
(* HeaderRangeCommitmentStored of its contract and adds the ranges to a    *)
(* sorted set in Redis.                                                    *)
(*                                                                         *)
(* The contracts are reduced to their head and to the transactions that    *)
(* emit the log.  A subscription delivers the logs that are mined after it *)
(* is made; when a reorganization drops a transaction its logs are         *)
(* delivered again, marked as removed.                                     *)
(***************************************************************************)
EXTENDS Integers, Sequences, SequencesExt

CONSTANTS
    chains,      \* the deployments, in the order of the list in main
    Configured,  \* those whose two environment variables are set
    MaxBlock,    \* highest Avail block that each deployment gets to
    MaxResets,   \* bound on updateGenesisState calls
    MaxReorgs,   \* bound on reorganizations
    MaxStarts    \* bound on starts of the service

ASSUME EventServiceAssumption ==
    /\ chains \in Seq(ToSet(chains))
    /\ Configured \subseteq ToSet(chains)
    /\ MaxBlock \in [Configured -> Nat]
    /\ {MaxResets, MaxReorgs, MaxStarts} \subseteq Nat

VARIABLES
    latestBlock,   \* contracts: the head
    transactions,  \* contracts: the ranges each transaction on the chain stored
    removed,       \* history: ranges a reorganization took from the chain
    task,          \* listeners: their progress
    stream,        \* listeners: logs delivered and not yet taken
    delivered,     \* history: ranges of the logs of the subscription
    awaited,       \* main: the join handle it waits for; 0: no process
    ranges,        \* Redis: the sorted set of every deployment
    resets, reorgs, starts

contractVars == <<latestBlock, transactions, removed, resets, reorgs>>
listenerVars == <<task, stream, delivered>>
eventVars == <<contractVars, listenerVars, awaited, ranges, starts>>

(* The loop over the list: chains without their variables are skipped. *)
join_handles ==
    LET pushed[n \in 0 .. Len(chains)] ==
            IF n = 0 THEN <<>>
            ELSE IF chains[n] \in Configured
                 THEN Append(pushed[n - 1], chains[n])
                 ELSE pushed[n - 1]
    IN  pushed[Len(chains)]

Blocks(c) == 0 .. MaxBlock[c]
BlockRanges(c) == {r \in Blocks(c) \X Blocks(c) : r[1] < r[2]}
Stored(c) == UNION {ToSet(transactions[c][i]) : i \in DOMAIN transactions[c]}

(* The commitments of a range of the chain that deployment c follows. *)
DataCommitment(c, r) == <<"data", c, r>>
StateCommitment(c, r) == <<"state", c, r>>

Log(c, r, isRemoved) ==
    [startBlock |-> r[1], endBlock |-> r[2],
     dataCommitment |-> DataCommitment(c, r),
     stateCommitment |-> StateCommitment(c, r),
     removed |-> isRemoved]

EventsInit ==
    /\ latestBlock = [c \in Configured |-> 0]
    /\ transactions = [c \in Configured |-> <<>>]
    /\ removed = [c \in Configured |-> {}]
    /\ task = [c \in Configured |-> "none"]
    /\ stream = [c \in Configured |-> <<>>]
    /\ delivered = [c \in Configured |-> {}]
    /\ awaited = 0
    /\ ranges = [c \in Configured |-> {}]
    /\ resets = 0 /\ reorgs = 0 /\ starts = 0

-----------------------------------------------------------------------------
(* The contracts. *)

(* The logs reach the listener only through a subscription that is open. *)
Deliver(c, rs, isRemoved) ==
    IF task[c] = "listening"
    THEN /\ stream' = [stream EXCEPT ![c] = @ \o
                [i \in DOMAIN rs |-> Log(c, rs[i], isRemoved)]]
         /\ delivered' = [delivered EXCEPT ![c] = @ \cup ToSet(rs)]
    ELSE UNCHANGED <<stream, delivered>>

Emit(c, rs) ==
    /\ transactions' = [transactions EXCEPT ![c] = Append(@, rs)]
    /\ latestBlock' = [latestBlock EXCEPT ![c] = Last(rs)[2]]
    /\ Deliver(c, rs, FALSE)
    /\ UNCHANGED <<removed, task, awaited, ranges, resets, reorgs, starts>>

commitHeaderRange(c, _targetBlock) ==
    /\ _targetBlock > latestBlock[c]
    /\ Emit(c, <<<<latestBlock[c], _targetBlock>>>>)

(* Two batches in one transaction: one log for each, in their order. *)
updateBlockRangeData(c, mid, end) ==
    /\ latestBlock[c] < mid /\ mid < end
    /\ Emit(c, <<<<latestBlock[c], mid>>, <<mid, end>>>>)

(* Emits no log that the service subscribes to. *)
updateGenesisState(c, _height) ==
    /\ resets < MaxResets
    /\ resets' = resets + 1
    /\ latestBlock' = [latestBlock EXCEPT ![c] = _height]
    /\ UNCHANGED <<transactions, removed, listenerVars, awaited, ranges,
                   reorgs, starts>>

(* The last transaction that emitted logs, and what came after it, is      *)
(* taken from the chain.                                                   *)
Reorganize(c) ==
    /\ transactions[c] # <<>> /\ reorgs < MaxReorgs
    /\ reorgs' = reorgs + 1
    /\ transactions' = [transactions EXCEPT ![c] = Front(@)]
    /\ latestBlock' = [latestBlock EXCEPT ![c] = Last(transactions[c])[1][1]]
    /\ removed' = [removed EXCEPT ![c] = @ \cup ToSet(Last(transactions[c]))]
    /\ Deliver(c, Last(transactions[c]), TRUE)
    /\ UNCHANGED <<task, awaited, ranges, resets, starts>>

-----------------------------------------------------------------------------
(* A listener. *)

(* connect, get_chainid, RpcDataFetcher::new and subscribe_logs; there is  *)
(* no query for the logs of the past.                                      *)
Subscribe(c) ==
    /\ task[c] = "connecting"
    /\ task' = [task EXCEPT ![c] = "listening"]
    /\ UNCHANGED <<contractVars, stream, delivered, awaited, ranges, starts>>

(* Mutant: the fourth field of the tuple instead of the third. *)
DataCommitmentRangeOfState(log) ==
    [start |-> log.startBlock, end |-> log.endBlock,
     data_commitment |-> log.stateCommitment]

(* Only log.data is decoded: whether the log is removed is not looked at. *)
DataCommitmentRange(log) ==
    [start |-> log.startBlock, end |-> log.endBlock,
     data_commitment |-> log.dataCommitment]

(* Mutant: one member for each score. *)
ZaddOverScore(set, member, score) ==
    {e \in set : e.score # score} \cup {[member |-> member, score |-> score]}

zadd(set, member, score) ==
    {e \in set : e.member # member} \cup {[member |-> member, score |-> score]}

(* Mutant: the loop waits for a range beyond the last one it stored. *)
PublishOnlyNewer(c) ==
    LET range == DataCommitmentRange(Head(stream[c]))
    IN  /\ task[c] \in {"listening", "draining"} /\ stream[c] # <<>>
        /\ \A e \in ranges[c] : e.score < range.end
        /\ stream' = [stream EXCEPT ![c] = Tail(@)]
        /\ ranges' = [ranges EXCEPT ![c] = zadd(@, range, range.end)]
        /\ UNCHANGED <<contractVars, task, delivered, awaited, starts>>

(* One pass through the loop, with add_data_commitment_range. *)
Publish(c) ==
    LET range == DataCommitmentRange(Head(stream[c]))
    IN  /\ task[c] \in {"listening", "draining"} /\ stream[c] # <<>>
        /\ stream' = [stream EXCEPT ![c] = Tail(@)]
        /\ ranges' = [ranges EXCEPT ![c] = zadd(@, range, range.end)]
        /\ UNCHANGED <<contractVars, task, delivered, awaited, starts>>

(* The connection to the Ethereum node closes: what it delivered can still *)
(* be taken from the stream.                                               *)
Disconnect(c) ==
    /\ task[c] = "listening"
    /\ task' = [task EXCEPT ![c] = "draining"]
    /\ UNCHANGED <<contractVars, stream, delivered, awaited, ranges, starts>>

(* stream.next() is None: the function returns, and nothing reconnects. *)
Return(c) ==
    /\ task[c] = "draining" /\ stream[c] = <<>>
    /\ task' = [task EXCEPT ![c] = "returned"]
    /\ UNCHANGED <<contractVars, stream, delivered, awaited, ranges, starts>>

(* An unwrap or expect: of the connections, or of Redis for a log. *)
Panic(c) ==
    /\ \/ task[c] = "connecting"
       \/ task[c] \in {"listening", "draining"} /\ stream[c] # <<>>
    /\ task' = [task EXCEPT ![c] = "panicked"]
    /\ stream' = [stream EXCEPT ![c] = <<>>]
    /\ UNCHANGED <<contractVars, delivered, awaited, ranges, starts>>

listen_for_events(c) == Subscribe(c) \/ Publish(c) \/ Return(c)

-----------------------------------------------------------------------------
(* main. *)

Start ==
    /\ awaited = 0 /\ join_handles # <<>> /\ starts < MaxStarts
    /\ starts' = starts + 1
    /\ awaited' = 1
    /\ task' = [c \in Configured |-> "connecting"]
    /\ stream' = [c \in Configured |-> <<>>]
    /\ delivered' = [c \in Configured |-> {}]
    /\ UNCHANGED <<contractVars, ranges>>

(* Mutant: the subscriptions outlive the process. *)
ProcessEndsWithOpenStreams ==
    /\ awaited' = 0
    /\ task' = [c \in Configured |-> "none"]
    /\ UNCHANGED <<stream, delivered, contractVars, ranges, starts>>

(* The runtime is dropped, and with it every task. *)
ProcessEnds ==
    /\ awaited' = 0
    /\ task' = [c \in Configured |-> "none"]
    /\ stream' = [c \in Configured |-> <<>>]
    /\ delivered' = [c \in Configured |-> {}]
    /\ UNCHANGED <<contractVars, ranges, starts>>

(* Mutant: main keeps waiting when the last listener has returned. *)
AwaitReturnedButLast ==
    /\ awaited \in 1 .. Len(join_handles) - 1
    /\ task[join_handles[awaited]] = "returned"
    /\ awaited' = awaited + 1
    /\ UNCHANGED <<contractVars, listenerVars, ranges, starts>>

(* handle.await is Ok: on to the next handle; after the last, main ends. *)
AwaitReturned ==
    /\ awaited # 0
    /\ task[join_handles[awaited]] = "returned"
    /\ IF awaited < Len(join_handles)
       THEN /\ awaited' = awaited + 1
            /\ UNCHANGED <<contractVars, listenerVars, ranges, starts>>
       ELSE ProcessEnds

(* The expect on handle.await. *)
AwaitPanicked ==
    /\ awaited # 0
    /\ task[join_handles[awaited]] = "panicked"
    /\ ProcessEnds

Kill == awaited # 0 /\ ProcessEnds

EventsNext ==
    \/ \E c \in Configured :
          \/ \E b \in Blocks(c) : commitHeaderRange(c, b)
          \/ \E b, e \in Blocks(c) : updateBlockRangeData(c, b, e)
          \/ \E b \in Blocks(c) : updateGenesisState(c, b)
          \/ Reorganize(c)
          \/ listen_for_events(c)
          \/ Panic(c)
          \/ Disconnect(c)
    \/ Start
    \/ AwaitReturned
    \/ AwaitPanicked
    \/ Kill

(* tokio polls every task that is ready: listeners and main.  No panic is  *)
(* ever due.                                                               *)
EventsSpec ==
    /\ EventsInit /\ [][EventsNext]_eventVars
    /\ \A c \in Configured : WF_eventVars(listen_for_events(c))
    /\ WF_eventVars(AwaitReturned \/ AwaitPanicked)

-----------------------------------------------------------------------------
Entry(c, r) ==
    [member |-> [start |-> r[1], end |-> r[2],
                 data_commitment |-> DataCommitment(c, r)],
     score  |-> r[2]]

InStream(c) == {<<stream[c][i].startBlock, stream[c][i].endBlock>> :
                    i \in DOMAIN stream[c]}

(* Types, and what main and the listeners know of each other: without a    *)
(* process there is no listener and no open stream, and every handle       *)
(* before the awaited one has returned (events.rs: main).                  *)
EventsTypeOK ==
    /\ awaited \in 0 .. Len(join_handles)
    /\ \A c \in Configured :
          /\ latestBlock[c] \in Blocks(c)
          /\ Stored(c) \cup removed[c] \subseteq BlockRanges(c)
          /\ task[c] \in {"none", "connecting", "listening", "draining",
                          "returned", "panicked"}
          /\ task[c] = "none" <=> awaited = 0
          /\ stream[c] # <<>> => task[c] \in {"listening", "draining"}
    /\ \A i \in 1 .. awaited - 1 : task[join_handles[i]] = "returned"

(* Every entry of a sorted set is a range of that deployment with its data *)
(* commitment, scored by its end, which the contract stores, or stored     *)
(* until a reorganization took it back: the service does not act on the    *)
(* removed flag of a log (events.rs: listen_for_events).                   *)
PublishedWasStored ==
    \A c \in Configured :
        ranges[c] \subseteq {Entry(c, r) : r \in Stored(c) \cup removed[c]}

(* While a subscription is open no log of it is lost: what it delivered is *)
(* in the sorted set or still in the stream, also when ranges overlap or   *)
(* end at the same block after the contract was reset (events.rs:          *)
(* listen_for_events; input/mod.rs: add_data_commitment_range).            *)
NothingDropped ==
    \A c \in Configured :
        task[c] \in {"listening", "draining", "returned"} =>
            \A r \in delivered[c] :
                Entry(c, r) \in ranges[c] \/ r \in InStream(c)

(* A log in a stream gets published unless its listener panics or the      *)
(* process ends (events.rs: listen_for_events).                            *)
DeliveredIsPublished ==
    \A c \in Configured : \A r \in BlockRanges(c) :
        r \in InStream(c) ~> \/ Entry(c, r) \in ranges[c]
                             \/ task[c] = "panicked"
                             \/ awaited = 0

(* The handles are awaited in their order.  A listener that panics ends    *)
(* the process once no listener before it is left, and so do listeners     *)
(* that have all returned, so that the service can be started again        *)
(* (events.rs: main).                                                      *)
EndedIsNoticed ==
    \A i \in 1 .. Len(join_handles) :
        /\ \A j \in 1 .. i : task[join_handles[j]] \in {"returned", "panicked"}
        /\ i = Len(join_handles) \/ task[join_handles[i]] = "panicked"
        ~> awaited = 0
=============================================================================
