------------------------------ MODULE RSFetcher ------------------------------
(***************************************************************************)
(* The Python end of the indexer (lib/backend/rsfetcher.py): a thread that *)
(* moves blocks from the indexer to a queue, and the calls of the server's *)
(* main thread, catch_up(): start(), get_block() and stop().               *)
(*                                                                         *)
(* start() and stop() run with no other thread of the fetcher alive, so    *)
(* each of them is one step.  A process that ends loses RocksDB too, which *)
(* start_all() deletes before catch_up().                                  *)
(***************************************************************************)
EXTENDS Indexer

CONSTANTS
  Tips,           \* the chains that bitcoind may have, one block long at first
  MaxStarts       \* bound: how often catch_up() starts the fetcher

ASSUME RSFetcherAssumption == Tips \subseteq Block /\ MaxStarts \in Nat

VARIABLES
  prefetch,       \* the prefetch thread: [pc, held], held is the block in its hands
  prefetch_queue,
  stopped_event,
  next_height,
  running,        \* the main thread has started the fetcher
  starts,
  \* history variables: the tips since start(), and since the first start of the
  \* process; the chain of the block get_block() returned last, and that block
  tips, seen, from, block

python  == <<prefetch, prefetch_queue, stopped_event, next_height, running, starts>>
history == <<tips, seen, from, block>>
vars == <<ivars, python, history>>

NoThread == [pc |-> "none", held |-> Idle]

----------------------------------------------------------------------------
Init ==
  /\ tip \in Tips /\ Height(tip) = 1
  /\ reorgs = 0 /\ failures = 0
  /\ stored = [h \in Heights |-> NoBlock] /\ indexed = {}
  /\ start_height = 0 /\ stopped = TRUE
  /\ producer = [pc |-> "height", height |-> 0, target_height |-> 0,
                 rollback_height |-> NoRollback, i |-> 0, parent |-> NoBlock]
  /\ fetching = [w \in Fetchers |-> Idle]
  /\ next_index = 0 /\ heap = [h \in Heights |-> 0]
  /\ pending_blocks = [h \in Heights |-> Idle] /\ prev_height = 0
  /\ c1 = <<>> /\ c3 = <<>> /\ c4 = <<>> /\ c5 = <<>> /\ out = <<>>
  /\ prefetch = NoThread /\ prefetch_queue = <<>> /\ stopped_event = FALSE
  /\ next_height = 0 /\ running = FALSE /\ starts = 0
  /\ tips = {} /\ seen = {} /\ from = NoChain /\ block = NoBlock

NewTip ==
  /\ \E b \in Tips :
       /\ MineTip(b)
       /\ tips' = IF running THEN tips \cup {b} ELSE tips
       /\ seen' = IF seen = {} THEN seen ELSE seen \cup {b}
  /\ UNCHANGED <<failures, pipeline, python, from, block>>

----------------------------------------------------------------------------
\* start(), stop() and the end of the process

Start ==
  /\ ~running /\ starts < MaxStarts
  /\ \E height \in 2..Height(tip) : StartAt(height) /\ next_height' = height
  /\ running' = TRUE /\ starts' = starts + 1
  /\ stopped_event' = FALSE /\ prefetch_queue' = <<>>
  /\ prefetch' = [pc |-> "run", held |-> Idle]
  /\ tips' = {tip} /\ seen' = seen \cup {tip} /\ from' = NoChain
  /\ UNCHANGED <<bitcoind, failures, block>>

\* The threads end, the channels are drained; RocksDB stays as it is.
Ended ==
  /\ stopped' = TRUE
  /\ start_height' = 0 /\ next_index' = 0 /\ prev_height' = 0 /\ next_height' = 0
  /\ producer' = [pc |-> "height", height |-> 0, target_height |-> 0,
                  rollback_height |-> NoRollback, i |-> 0, parent |-> NoBlock]
  /\ fetching' = [w \in Fetchers |-> Idle]
  /\ heap' = [h \in Heights |-> 0] /\ pending_blocks' = [h \in Heights |-> Idle]
  /\ c1' = <<>> /\ c3' = <<>> /\ c4' = <<>> /\ c5' = <<>> /\ out' = <<>>
  /\ prefetch' = NoThread /\ prefetch_queue' = <<>>
  /\ running' = FALSE /\ tips' = {} /\ from' = NoChain

Stop ==
  /\ running
  /\ Ended /\ stopped_event' = TRUE
  /\ UNCHANGED <<bitcoind, failures, rocksdb, starts, seen, block>>

ProcessEnds ==
  /\ Ended /\ stopped_event' = FALSE
  /\ stored' = [h \in Heights |-> NoBlock] /\ indexed' = {} /\ seen' = {}

Crash ==
  /\ running /\ failures < MaxFailures
  /\ failures' = failures + 1
  /\ ProcessEnds
  /\ UNCHANGED <<bitcoind, starts, block>>

----------------------------------------------------------------------------
\* prefetch_blocks()

\* get_block_non_blocking(): "Stopped error" when a worker has failed.
Prefetch ==
  /\ prefetch.pc = "run" /\ ~stopped_event /\ ~stopped /\ out # <<>>
  /\ prefetch' = [pc |-> "put", held |-> Head(out)]
  /\ out' = Tail(out)
  /\ UNCHANGED <<bitcoind, failures, rocksdb, start_height, stopped, producer,
                 fetching, orderer, prev_height, c1, c3, c4, c5, prefetch_queue,
                 stopped_event, next_height, running, starts, history>>

PutInQueue ==
  /\ prefetch.pc = "put" /\ ~stopped_event /\ HasRoom(prefetch_queue)
  /\ prefetch_queue' = Append(prefetch_queue, prefetch.held)
  /\ prefetch' = [pc |-> "run", held |-> Idle]
  /\ UNCHANGED <<ivars, stopped_event, next_height, running, starts, history>>

PrefetchFindsStopped ==
  /\ prefetch.pc = "run" /\ ~stopped_event /\ stopped
  /\ prefetch' = [prefetch EXCEPT !.pc = "restart"]
  /\ UNCHANGED <<ivars, prefetch_queue, stopped_event, next_height, running, starts,
                 history>>

\* restart() calls stop(), whose executor.shutdown(wait=True) joins the thread it
\* runs in: a RuntimeError, after stopped_event has been set.
PrefetchRestarts ==
  /\ prefetch.pc = "restart"
  /\ prefetch' = [prefetch EXCEPT !.pc = "dead"] /\ stopped_event' = TRUE
  /\ UNCHANGED <<ivars, prefetch_queue, next_height, running, starts, history>>

----------------------------------------------------------------------------
\* get_block(), called by catch_up()

\* The height that is expected after this block: a block that is out of order is
\* only warned about.
NextHeightUncorrected(item) == next_height + 1
NextHeight(item) == item.height + 1

GetBlock ==
  /\ running /\ ~stopped_event /\ prefetch_queue # <<>>
  /\ LET item == Head(prefetch_queue) IN
     /\ block' = BlockOf(item) /\ from' = item.from
     /\ next_height' = NextHeight(item)
  /\ prefetch_queue' = Tail(prefetch_queue)
  /\ UNCHANGED <<ivars, prefetch, stopped_event, running, starts, tips, seen>>

\* None: catch_up() reads the height of None, an exception that ends the process.
GetBlockOfStopped ==
  /\ running /\ stopped_event
  /\ ProcessEnds
  /\ UNCHANGED <<bitcoind, failures, starts, block>>

----------------------------------------------------------------------------
\* A step of a thread of the indexer.
IndexerStep == Worker /\ UNCHANGED <<python, history>>
IndexerFails == ReadParentFails /\ UNCHANGED <<python, history>>

Prefetcher == Prefetch \/ PutInQueue \/ PrefetchFindsStopped \/ PrefetchRestarts
Consumer == GetBlock \/ GetBlockOfStopped

Next ==
  \/ NewTip
  \/ Start \/ Stop \/ Crash
  \/ IndexerStep \/ IndexerFails
  \/ Prefetcher \/ Consumer

Spec == Init /\ [][Next]_vars

\* Every thread keeps running, and catch_up() keeps asking for blocks.
FairSpec ==
  /\ Spec
  /\ WF_vars(IndexerStep) /\ WF_vars(Prefetcher) /\ WF_vars(Consumer)

----------------------------------------------------------------------------
\* Type invariant.
TypeOK ==
  /\ tip \in Block
  /\ stored \in [Heights -> Block \cup {NoBlock}] /\ indexed \subseteq Heights
  /\ producer.pc \in {"height", "read", "compare", "send"}
  /\ producer.rollback_height \in Nat \cup {NoRollback}
  /\ fetching \in [Fetchers -> Item]
  /\ heap \in [Heights -> Nat] /\ pending_blocks \in [Heights -> Item]
  /\ \A c \in {c1, c3, c4, c5, out, prefetch_queue} :
       c \in Seq(Item) /\ Len(c) <= Capacity
  /\ prefetch.pc \in {"none", "run", "put", "restart", "dead"} /\ prefetch.held \in Item
  /\ {stopped, stopped_event, running} \subseteq BOOLEAN
  /\ {start_height, next_index, prev_height, next_height, starts} \subseteq Nat

\* The reporter's check of the order (Error::OrderInvariant) never fails, so that
\* only a failed RPC call stops the indexer: whatever the parallel fetchers and
\* the reorganizations do to the order, the orderer undoes it.
OrderInvariant == ~stopped /\ c5 # <<>> => IsNext(Head(c5))

\* What the block parser relies on: heights come in order from the start height,
\* and go back only over a block that was replaced after the last one was read.
Stream == INSTANCE BlockStream WITH
  fetcher <- [next |-> next_height, from |-> from, tips |-> tips, seen |-> seen]
StreamSpec == Stream!Spec

\* The producer waits for a block below the start height to be written: nobody
\* will write it.
WaitsBelowStart ==
  producer.pc = "compare" /\ producer.i <= start_height
    /\ stored[producer.i - 1] = NoBlock

\* Once bitcoind rests, its tip is delivered to catch_up(), unless the fetcher is
\* ended or waits below its start height (in a behaviour of the model bitcoind
\* rests after finitely many tips).
TipIsDelivered == []<>(~running \/ block = tip \/ WaitsBelowStart)
=============================================================================
