------------------------------- MODULE Indexer -------------------------------
(***************************************************************************)
(* The block indexer of counterparty-rs (src/indexer): threads connected   *)
(* by bounded channels that read the blocks of bitcoind ahead of their     *)
(* consumer, in parallel, and hand them over in order.                     *)
(*                                                                         *)
(*   producer --c1--> fetchers --c3--> orderer --c4--> writer --c5-->      *)
(*   reporter --out--> get_block_non_blocking()                            *)
(*                                                                         *)
(* The extractors, which only convert a block, are part of the fetchers    *)
(* before them.  A worker takes an item, works on it and sends it on in    *)
(* one step; what it holds while it waits for a place in the next channel  *)
(* counts as a place more in the channel before.  Heights stand for        *)
(* heights far above ReorgWindow, where `target - window` does not wrap.   *)
(***************************************************************************)
EXTENDS Chain, Integers, FiniteSets, FiniteSetsExt

CONSTANTS
  Fetchers,       \* the fetcher threads (parallelism / 2)
  Capacity,       \* places in a channel (32; 64 in `out`)
  ReorgWindow,    \* reorg_window (50)
  MaxReorgs,      \* bound: how often bitcoind switches to another branch
  MaxFailures     \* bound: how often an RPC call that is not retried fails

ASSUME IndexerAssumption ==
  /\ Fetchers # {} /\ IsFiniteSet(Fetchers)
  /\ {MaxHeight, Capacity, ReorgWindow} \subseteq Nat \ {0}
  /\ {MaxReorgs, MaxFailures} \subseteq Nat

NoRollback == -1                              \* rollback_height: None
NoBlock == <<>>
NoChain == <<>>

\* What goes down the channels: `from` is the tip of bitcoind when the block was
\* read, so the block is the one of that chain at `height`.
Item == [height : Nat, target : Nat, rollback : Nat \cup {NoRollback},
         from : Block \cup {NoChain}]
Idle == [height |-> 0, target |-> 0, rollback |-> NoRollback, from |-> NoChain]
BlockOf(item) == AncestorAt(item.from, item.height)

VARIABLES
  tip, reorgs, failures,
  \* RocksDB: BlockAtHeightHasHash, and the heights in its index
  stored, indexed,
  start_height,
  stopped,        \* the Stopper
  producer,       \* [pc, height, target_height, rollback_height, i, parent]
  fetching,       \* for each fetcher thread, the item it has taken
  next_index, heap, pending_blocks,                       \* the orderer
  prev_height,                                            \* the reporter
  c1, c3, c4, c5, out

bitcoind == <<tip, reorgs>>
rocksdb  == <<stored, indexed>>
orderer  == <<next_index, heap, pending_blocks>>
channels == <<c1, c3, c4, c5, out>>
pipeline == <<rocksdb, start_height, stopped, producer, fetching, orderer,
              prev_height, channels>>
ivars    == <<bitcoind, failures, pipeline>>

HasRoom(c) == Len(c) < Capacity
InReorgWindow(height, target) == height >= target - ReorgWindow
Heights == 1..MaxHeight

\* rollback_to_height: what the index lists above the height is deleted; entries
\* written outside the reorganization window are not in the index.
RolledBack(height) == [h \in Heights |-> IF h > height /\ h \in indexed
                                           THEN NoBlock ELSE stored[h]]
RollbackTo(height) ==
  /\ stored' = RolledBack(height)
  /\ indexed' = {h \in indexed : h <= height}

----------------------------------------------------------------------------
\* bitcoind: reorganizations are not deeper than ReorgWindow.
ForkDepth(b) ==
  Height(tip) - Max({h \in 1..Height(tip) : AncestorAt(b, h) = AncestorAt(tip, h)})

MineTip(b) ==
  /\ Height(b) > Height(tip) /\ b[1] = tip[1]
  /\ ForkDepth(b) <= ReorgWindow
  /\ IF ForkDepth(b) = 0 THEN UNCHANGED reorgs
                         ELSE reorgs < MaxReorgs /\ reorgs' = reorgs + 1
  /\ tip' = b

----------------------------------------------------------------------------
\* handlers::start, with the start_height that Python always sets
StartAt(height) ==
  /\ start_height' = height /\ stopped' = FALSE
  /\ RollbackTo(height - 1)
  /\ producer' = [pc |-> "height", height |-> height, target_height |-> height - 1,
                  rollback_height |-> NoRollback, i |-> 0, parent |-> NoBlock]
  /\ fetching' = [w \in Fetchers |-> Idle]
  /\ next_index' = height /\ heap' = [h \in Heights |-> 0]
  /\ pending_blocks' = [h \in Heights |-> Idle]
  /\ prev_height' = height - 1
  /\ c1' = <<>> /\ c3' = <<>> /\ c4' = <<>> /\ c5' = <<>> /\ out' = <<>>

----------------------------------------------------------------------------
\* producer

\* The top of the loop: which height is next, and is it to be checked for a
\* reorganization.  The height is not above the chain, else the thread sleeps.
ProduceHeight ==
  /\ ~stopped /\ producer.pc = "height"
  /\ LET target == IF producer.target_height < producer.height
                     THEN Height(tip) ELSE producer.target_height
         checked == /\ InReorgWindow(producer.height, target)
                    /\ producer.height # start_height
     IN /\ target >= producer.height
        /\ producer' = [producer EXCEPT !.target_height = target,
                          !.rollback_height = NoRollback,
                          !.pc = IF checked THEN "read" ELSE "send",
                          !.i = producer.height]
  /\ UNCHANGED <<bitcoind, failures, rocksdb, start_height, stopped, fetching,
                 orderer, prev_height, channels>>

\* get_last_matching_height: the parent of the block at height i ...
ReadParent ==
  /\ ~stopped /\ producer.pc = "read" /\ producer.i <= Height(tip)
  /\ producer' = [producer EXCEPT !.pc = "compare",
                    !.parent = ParentOf(AncestorAt(tip, producer.i))]
  /\ UNCHANGED <<bitcoind, failures, rocksdb, start_height, stopped, fetching,
                 orderer, prev_height, channels>>

\* ... whose RPC calls are not retried: a failure ends the thread, and a thread
\* that ends with an error stops all others ...
ReadParentFails ==
  /\ ~stopped /\ producer.pc = "read" /\ failures < MaxFailures
  /\ failures' = failures + 1 /\ stopped' = TRUE
  /\ UNCHANGED <<bitcoind, rocksdb, start_height, producer, fetching, orderer,
                 prev_height, channels>>

\* ... is compared with the block below, which must have been written.
MustBeWritten(h) == stored[h] # NoBlock

\* The producer goes back to the last height that matches.
WithRollback(matching) ==
  [producer EXCEPT !.pc = "send", !.rollback_height = matching,
                   !.height = matching + 1, !.target_height = matching + 1]

CompareParent ==
  /\ ~stopped /\ producer.pc = "compare" /\ producer.i > 1
  /\ MustBeWritten(producer.i - 1)
  /\ LET j == producer.i - 1 IN
     CASE stored[j] # producer.parent ->
            producer' = [producer EXCEPT !.pc = "read", !.i = j] /\ UNCHANGED rocksdb
       [] stored[j] = producer.parent /\ j < producer.height - 1 ->
            RollbackTo(j) /\ producer' = WithRollback(j)
       [] OTHER ->
            producer' = [producer EXCEPT !.pc = "send"] /\ UNCHANGED rocksdb
  /\ UNCHANGED <<bitcoind, failures, start_height, stopped, fetching, orderer,
                 prev_height, channels>>

Produce ==
  /\ ~stopped /\ producer.pc = "send" /\ HasRoom(c1)
  /\ c1' = Append(c1, [height |-> producer.height, target |-> producer.target_height,
                       rollback |-> producer.rollback_height, from |-> NoChain])
  /\ producer' = [producer EXCEPT !.pc = "height", !.height = @ + 1]
  /\ UNCHANGED <<bitcoind, failures, rocksdb, start_height, stopped, fetching,
                 orderer, prev_height, c3, c4, c5, out>>

----------------------------------------------------------------------------
\* fetchers and extractors

Take(w) ==
  /\ ~stopped /\ fetching[w] = Idle /\ c1 # <<>>
  /\ fetching' = [fetching EXCEPT ![w] = Head(c1)] /\ c1' = Tail(c1)
  /\ UNCHANGED <<bitcoind, failures, rocksdb, start_height, stopped, producer,
                 orderer, prev_height, c3, c4, c5, out>>

\* get_block_hash and get_block, both retried until they succeed.
Fetch(w) ==
  /\ ~stopped /\ fetching[w] # Idle /\ HasRoom(c3)
  /\ fetching[w].height <= Height(tip)
  /\ c3' = Append(c3, [fetching[w] EXCEPT !.from = tip])
  /\ fetching' = [fetching EXCEPT ![w] = Idle]
  /\ UNCHANGED <<bitcoind, failures, rocksdb, start_height, stopped, producer,
                 orderer, prev_height, c1, c4, c5, out>>

----------------------------------------------------------------------------
\* orderer: `heap` counts the heights in the binary heap

InHeap == {h \in Heights : heap[h] > 0}
IsTop(h) == h \in InHeap /\ \A k \in InHeap : h <= k

\* The height that is next after an item has been received.
NextIndexKept(item) == next_index
NextIndex(item) == IF item.rollback = NoRollback THEN next_index ELSE item.rollback + 1

Order ==
  /\ ~stopped /\ c3 # <<>> /\ ~IsTop(next_index)
  /\ LET item == Head(c3) IN
     /\ next_index' = NextIndex(item)
     /\ heap' = [heap EXCEPT ![item.height] = @ + 1]
     /\ pending_blocks' = [pending_blocks EXCEPT ![item.height] = item]
  /\ c3' = Tail(c3)
  /\ UNCHANGED <<bitcoind, failures, rocksdb, start_height, stopped, producer,
                 fetching, prev_height, c1, c4, c5, out>>

SendOrdered ==
  /\ ~stopped /\ IsTop(next_index)
  /\ heap' = [heap EXCEPT ![next_index] = @ - 1]
  /\ IF pending_blocks[next_index] = Idle
       THEN UNCHANGED <<next_index, pending_blocks, c4>>
       ELSE /\ HasRoom(c4)
            /\ c4' = Append(c4, pending_blocks[next_index])
            /\ pending_blocks' = [pending_blocks EXCEPT ![next_index] = Idle]
            /\ next_index' = next_index + 1
  /\ UNCHANGED <<bitcoind, failures, rocksdb, start_height, stopped, producer,
                 fetching, prev_height, c1, c3, c5, out>>

----------------------------------------------------------------------------
\* writer: batches of one block; in the window the entry is indexed, and what
\* has fallen out of the window is deleted

Write ==
  /\ ~stopped /\ c4 # <<>> /\ HasRoom(c5)
  /\ LET item == Head(c4)
         h == item.height
         expired == {k \in indexed \cup {h} : k < h - ReorgWindow}
     IN IF InReorgWindow(h + 1, item.target)
          THEN /\ stored' = [k \in Heights |-> IF k = h THEN BlockOf(item)
                                               ELSE IF k \in expired THEN NoBlock
                                               ELSE stored[k]]
               /\ indexed' = (indexed \cup {h}) \ expired
          ELSE stored' = [stored EXCEPT ![h] = BlockOf(item)] /\ UNCHANGED indexed
  /\ c5' = Append(c5, Head(c4)) /\ c4' = Tail(c4)
  /\ UNCHANGED <<bitcoind, failures, start_height, stopped, producer, fetching,
                 orderer, prev_height, c1, c3, out>>

----------------------------------------------------------------------------
\* reporter: an error unless the block is the next one

IsNextWithoutRollback(item) == item.height = prev_height + 1
IsNext(item) ==
  item.height = 1 + IF item.rollback = NoRollback THEN prev_height ELSE item.rollback

Report ==
  /\ ~stopped /\ c5 # <<>>
  /\ IF IsNext(Head(c5))
       THEN /\ HasRoom(out)
            /\ out' = Append(out, Head(c5))
            /\ prev_height' = Head(c5).height /\ c5' = Tail(c5)
            /\ UNCHANGED stopped
       ELSE stopped' = TRUE /\ UNCHANGED <<out, prev_height, c5>>
  /\ UNCHANGED <<bitcoind, failures, rocksdb, start_height, producer, fetching,
                 orderer, c1, c3, c4>>

Worker ==
  \/ ProduceHeight \/ ReadParent \/ CompareParent \/ Produce
  \/ \E w \in Fetchers : Take(w) \/ Fetch(w)
  \/ Order \/ SendOrdered \/ Write \/ Report
=============================================================================
