------------------------------- MODULE Blocks -------------------------------
(***************************************************************************)
(* The block parser of counterparty-core: how the ledger database follows  *)
(* the chain of bitcoind (lib/blocks.py, lib/follow.py, lib/check.py,      *)
(* server.py).  One thread, the server's main thread, runs catch_up() and  *)
(* then the BlockchainWatcher; bitcoind moves under it, the process may be *)
(* killed between any two statements that reach the database, and an       *)
(* operator may run the `rollback` command while the server is down.       *)
(*                                                                         *)
(* A block is its path of labels (Chain).  A consensus hash commits to the *)
(* previous consensus hash and to the content of the block, so it is a     *)
(* sequence of labels too; it is right exactly when it equals the path.    *)
(***************************************************************************)
EXTENDS Chain, FiniteSets

CONSTANTS
  MaxReorgs,    \* bound: how often bitcoind switches to another branch
  MaxFailures,  \* bound: how often the process is killed or an RPC call raises
  MaxCommands,  \* bound: how often the operator runs `rollback`
  TABLES        \* the tables cleaned before `blocks`, in the order of the code

ASSUME BoundsAssumption ==
  /\ MaxHeight \in Nat \ {0}
  /\ {MaxReorgs, MaxFailures, MaxCommands} \subseteq Nat

ASSUME TablesAssumption ==
  /\ TABLES \in Seq(STRING)
  /\ \E i \in DOMAIN TABLES : TABLES[i] = "orders"

----------------------------------------------------------------------------
\* Rows and hashes

Content(b) == b[Len(b)]

Seed == <<>>                                  \* CONSENSUS_HASH_SEED
ConsensusHash(previous, b) == Append(previous, Content(b))
BlockRow == [hash : Block, ledger_hash : Seq(Label)]
Table == {TABLES[i] : i \in DOMAIN TABLES}

VARIABLES
  \* bitcoind
  tip,            \* the tip of its active chain
  reorgs,         \* how often the active chain has switched branches
  \* the ledger database, which survives a crash
  blocks,         \* table `blocks`, by block_index: [hash, ledger_hash]
  rows,           \* for each other table, the blocks whose rows it holds
  \* the server process
  pc,             \* where the main thread is
  caller,         \* who runs the steps below: catch_up, follow or rollback
  CURRENT_BLOCK_INDEX,
  block_count,    \* catch_up: the last getblockcount()
  fetcher,        \* RSFetcher: its next height, the tips it saw
  block_height,   \* catch_up: the height of the block the fetcher delivered
  decoded_block,  \* parse_new_block: the block being parsed
  previous_block, \* parse_new_block: the ledger_hash of `previous_block`
  scan,           \* parse_new_block: previous_block_index
  table,          \* rollback: the position in TABLES of the next DELETE
  orders_cache,   \* the in-memory singletons: the blocks whose rows they hold
  watching,       \* the BlockchainWatcher is subscribed to bitcoind's ZMQ
  zmq,            \* rawblock notifications not handled yet
  \* counters of the bounds
  failures, commands

bitcoind == <<tip, reorgs>>
db       == <<blocks, rows>>
parsing  == <<decoded_block, previous_block, scan, table>>
catching == <<block_count, fetcher, block_height>>
bounds   == <<failures, commands>>
vars == <<bitcoind, db, pc, caller, CURRENT_BLOCK_INDEX, catching, parsing,
          orders_cache, watching, zmq, bounds>>

BlocksInDb == {blocks[i].hash : i \in DOMAIN blocks}
TopHash == blocks[Len(blocks)].hash

\* The query of last_db_index(); in this module a block row is only ever
\* committed with its ledger_hash, so the last row is the one it returns.
LastDbIndex == Len(blocks)

\* The caches (OrdersCache, AssetCache, ...) are singletons filled from the
\* database at their first use and kept in step with every row parsed later.
CacheAfter(b) ==
  (IF orders_cache = {} THEN rows["orders"] ELSE orders_cache) \cup {b}

----------------------------------------------------------------------------
\* bitcoind

Init ==
  /\ \E l \in Label : tip = <<l>>
  /\ reorgs = 0
  /\ blocks = <<>> /\ rows = [t \in Table |-> {}]
  /\ pc = "catch_up" /\ caller = "catch_up"
  /\ CURRENT_BLOCK_INDEX = 0
  /\ block_count = 0 /\ fetcher = NoFetcher /\ block_height = 0
  /\ decoded_block = <<>> /\ previous_block = Seed /\ scan = 0 /\ table = 1
  /\ orders_cache = {}
  /\ watching = FALSE /\ zmq = <<>>
  /\ failures = 0 /\ commands = 0

\* bitcoind activates a chain with more work than the active one, which may
\* leave the active branch.  The ZMQ interface announces the new tip only, not
\* the blocks connected below it.
NewTip ==
  /\ \E b \in Block :
       /\ Height(b) > Height(tip) /\ b[1] = tip[1]
       /\ IF AncestorAt(b, Height(tip)) = tip
            THEN UNCHANGED reorgs
            ELSE reorgs < MaxReorgs /\ reorgs' = reorgs + 1
       /\ tip' = b
       /\ zmq' = IF watching THEN Append(zmq, b) ELSE zmq
       /\ fetcher' = WithTip(fetcher, b)
  /\ UNCHANGED <<db, pc, caller, CURRENT_BLOCK_INDEX, block_count, block_height,
                 parsing, orders_cache, watching, bounds>>

----------------------------------------------------------------------------
\* Losing the process

\* What survives is the database: every variable of the process is reset.
LoseProcess ==
  /\ pc' = "down" /\ caller' = "catch_up"
  /\ CURRENT_BLOCK_INDEX' = 0
  /\ block_count' = 0 /\ fetcher' = NoFetcher /\ block_height' = 0
  /\ decoded_block' = <<>> /\ previous_block' = Seed /\ scan' = 0 /\ table' = 1
  /\ orders_cache' = {} /\ watching' = FALSE /\ zmq' = <<>>

\* An exception under catch_up() of start_all() ends the process.  Under the
\* watcher it breaks the loop of handle() and leaves a live process whose
\* event loop has nothing to run.
Raise ==
  IF watching
    THEN /\ pc' = "stuck"
         /\ UNCHANGED <<caller, CURRENT_BLOCK_INDEX, catching, parsing,
                        orders_cache, watching, zmq>>
    ELSE LoseProcess

Crash ==
  /\ pc # "down" /\ failures < MaxFailures
  /\ failures' = failures + 1
  /\ LoseProcess
  /\ UNCHANGED <<bitcoind, db, commands>>

\* Where the thread depends on an answer: the RPC calls of catch_up() and of the search
\* for the fork, and the next block of the fetcher.
AwaitsAnswer ==
  \/ pc \in {"catch_up", "scan", "reread"}
  \/ pc = "refresh" /\ CURRENT_BLOCK_INDEX = block_count
  \/ pc = "loop" /\ CURRENT_BLOCK_INDEX < block_count

\* rpc_call() gives up, as bitcoind is unreachable or answers with an error; or the
\* fetcher has been stopped and get_block() returns None, which has no height.
RpcError ==
  /\ AwaitsAnswer /\ failures < MaxFailures
  /\ failures' = failures + 1
  /\ Raise
  /\ UNCHANGED <<bitcoind, db, commands>>

Restart ==
  /\ pc = "down"
  /\ pc' = "catch_up"
  /\ UNCHANGED <<bitcoind, db, caller, CURRENT_BLOCK_INDEX, catching, parsing,
                 orders_cache, watching, zmq, bounds>>

----------------------------------------------------------------------------
\* catch_up()

CatchUp ==
  /\ pc = "catch_up"
  /\ CURRENT_BLOCK_INDEX' = LastDbIndex
  /\ block_count' = Height(tip)
  /\ fetcher' = Stopped(fetcher)
  /\ pc' = "loop" /\ caller' = "catch_up"
  /\ UNCHANGED <<bitcoind, db, block_height, parsing, orders_cache, watching,
                 zmq, bounds>>

StartedFetcher(height) == StartedAt(fetcher, tip, height)

\* get_block(): what the fetcher delivers is decoded and checked for a gap.
FetchBlock ==
  /\ pc = "loop" /\ CURRENT_BLOCK_INDEX < block_count
  /\ LET started == IF fetcher.next = 0
                      THEN StartedFetcher(CURRENT_BLOCK_INDEX + 1) ELSE fetcher
     IN \E t \in started.tips : \E h \in 1..Height(t) :
          /\ CanDeliver(started, t, h)
          /\ block_height' = h
          /\ decoded_block' = AncestorAt(t, h)
          /\ fetcher' = AfterDelivery(started, t, h)
          /\ pc' = IF h <= CURRENT_BLOCK_INDEX + 1 THEN "parse" ELSE "gap"
  /\ UNCHANGED <<bitcoind, db, caller, CURRENT_BLOCK_INDEX, block_count,
                 previous_block, scan, table, orders_cache, watching, zmq, bounds>>

\* The loop ends and the fetcher is stopped.
CatchUpDone ==
  /\ pc = "loop" /\ CURRENT_BLOCK_INDEX >= block_count
  /\ fetcher' = Stopped(fetcher)
  /\ pc' = IF watching THEN "follow" ELSE "subscribe"
  /\ UNCHANGED <<bitcoind, db, caller, CURRENT_BLOCK_INDEX, block_count,
                 block_height, parsing, orders_cache, watching, zmq, bounds>>

\* The end of an iteration: block_count is read again once it is reached.
NextBlockCountReadOnce == block_count
NextBlockCount ==
  IF CURRENT_BLOCK_INDEX = block_count THEN Height(tip) ELSE block_count

RefreshBlockCount ==
  /\ pc = "refresh"
  /\ block_count' = NextBlockCount
  /\ pc' = "loop"
  /\ UNCHANGED <<bitcoind, db, caller, CURRENT_BLOCK_INDEX, fetcher, block_height,
                 parsing, orders_cache, watching, zmq, bounds>>

----------------------------------------------------------------------------
\* start_blockchain_watcher() and receive_rawblock()

\* Only what is announced from here on reaches the watcher.
Subscribe ==
  /\ pc = "subscribe"
  /\ watching' = TRUE /\ zmq' = <<>>
  /\ pc' = "follow"
  /\ UNCHANGED <<bitcoind, db, caller, CURRENT_BLOCK_INDEX, catching, parsing,
                 orders_cache, bounds>>

\* BitcoindZMQError: catch up again and retry.
SubscribeFails ==
  /\ pc = "subscribe" /\ failures < MaxFailures
  /\ failures' = failures + 1
  /\ pc' = "catch_up"
  /\ UNCHANGED <<bitcoind, db, caller, CURRENT_BLOCK_INDEX, catching, parsing,
                 orders_cache, watching, zmq, commands>>

\* What receive_rawblock() does with a block: ignore it if catch_up() has
\* parsed it, parse it above its parent, or catch up if the parent is missing.
HandlerWithoutCatchUp(b) ==
  IF b \notin BlocksInDb /\ ParentOf(b) \in BlocksInDb THEN "parse" ELSE "follow"
Handler(b) ==
  IF b \in BlocksInDb THEN "follow"
  ELSE IF ParentOf(b) \in BlocksInDb THEN "parse" ELSE "catch_up"

ReceiveRawblock ==
  /\ pc = "follow" /\ zmq # <<>>
  /\ zmq' = Tail(zmq)
  /\ pc' = Handler(Head(zmq))
  /\ caller' = "follow" /\ decoded_block' = Head(zmq)
  /\ UNCHANGED <<bitcoind, db, CURRENT_BLOCK_INDEX, catching, previous_block, scan,
                 table, orders_cache, watching, bounds>>

----------------------------------------------------------------------------
\* parse_new_block()

\* It never looks at the height of the block: it takes the next index, and
\* compares the parent of the block with the block it has below that index.
ExtendsUnchecked(b, previous) == TRUE
Extends(b, previous) == ParentOf(b) = previous.hash

ParseNewBlock ==
  /\ pc = "parse"
  /\ CURRENT_BLOCK_INDEX' = CURRENT_BLOCK_INDEX + 1
  /\ IF CURRENT_BLOCK_INDEX = 0
       THEN previous_block' = Seed /\ pc' = "commit" /\ UNCHANGED scan
       ELSE LET previous == blocks[CURRENT_BLOCK_INDEX] IN
            /\ previous_block' = previous.ledger_hash
            /\ IF Extends(decoded_block, previous)
                 THEN pc' = "commit" /\ UNCHANGED scan
                 ELSE pc' = "scan" /\ scan' = CURRENT_BLOCK_INDEX
  /\ UNCHANGED <<bitcoind, db, caller, catching, decoded_block, table,
                 orders_cache, watching, zmq, bounds>>

\* One turn of the loop that looks for the last block bitcoind still has: one
\* RPC call, so the chain may change between two turns.  A height bitcoind does
\* not have makes rpc_call() wait.
ScanBack ==
  /\ pc = "scan" /\ scan \in 1..Height(tip)
  /\ IF AncestorAt(tip, scan) # blocks[scan].hash
       THEN scan' = scan - 1 /\ UNCHANGED pc
       ELSE pc' = "reread" /\ UNCHANGED scan
  /\ UNCHANGED <<bitcoind, db, caller, CURRENT_BLOCK_INDEX, catching, decoded_block,
                 previous_block, table, orders_cache, watching, zmq, bounds>>

\* getblockhash() and getblock(): the block is replaced by the one bitcoind has
\* above the block found by the scan.  `previous_block` stays what it was.
RereadBlock ==
  /\ pc = "reread" /\ scan + 1 <= Height(tip)
  /\ decoded_block' = AncestorAt(tip, scan + 1)
  /\ pc' = "rollback" /\ table' = 1
  /\ UNCHANGED <<bitcoind, db, caller, CURRENT_BLOCK_INDEX, catching, previous_block,
                 scan, orders_cache, watching, zmq, bounds>>

----------------------------------------------------------------------------
\* rollback(): one DELETE ... WHERE block_index >= n per table, each of them
\* its own SQLite transaction; n is scan + 1.

KeptIncludingTheFirstOrphan(t) == {b \in rows[t] : Height(b) <= scan + 1}
Kept(t) == {b \in rows[t] : Height(b) <= scan}

CleanTable ==
  /\ pc = "rollback" /\ table \in DOMAIN TABLES
  /\ rows' = [rows EXCEPT ![TABLES[table]] = Kept(TABLES[table])]
  /\ table' = table + 1
  /\ UNCHANGED <<bitcoind, blocks, pc, caller, CURRENT_BLOCK_INDEX, catching,
                 decoded_block, previous_block, scan, orders_cache, watching, zmq,
                 bounds>>

\* Table `blocks` comes last; then the caller goes on with index n, or the
\* command exits.
IndexAfterRollback == scan + 1

CleanBlocks ==
  /\ pc = "rollback" /\ table \notin DOMAIN TABLES
  /\ blocks' = SubSeq(blocks, 1, scan)
  /\ IF caller = "rollback"
       THEN LoseProcess
       ELSE /\ CURRENT_BLOCK_INDEX' = IndexAfterRollback
            /\ pc' = "commit"
            /\ UNCHANGED <<caller, catching, parsing, orders_cache, watching, zmq>>
  /\ UNCHANGED <<bitcoind, rows, bounds>>

\* `counterparty-server rollback n`, run while the server is down.
RollbackCommand ==
  /\ pc = "down" /\ commands < MaxCommands
  /\ commands' = commands + 1
  /\ \E n \in DOMAIN blocks : scan' = n - 1
  /\ table' = 1 /\ pc' = "rollback" /\ caller' = "rollback"
  /\ UNCHANGED <<bitcoind, db, CURRENT_BLOCK_INDEX, catching, decoded_block,
                 previous_block, orders_cache, watching, zmq, failures>>

----------------------------------------------------------------------------
\* The transaction of parse_new_block(): "ensure all the block or nothing"

\* block_index, block_hash and previous_block_hash are UNIQUE in `blocks`, and
\* parse_block() asserts that it works on CURRENT_BLOCK_INDEX.
CanInsert(b) ==
  /\ Height(b) = CURRENT_BLOCK_INDEX
  /\ \A i \in DOMAIN blocks : /\ i # CURRENT_BLOCK_INDEX
                              /\ blocks[i].hash # b
                              /\ ParentOf(blocks[i].hash) # ParentOf(b)

\* Back in catch_up(): the index that was parsed is compared with the height of
\* the block the fetcher delivered; a lower one means there was a reorganization
\* and the fetcher is restarted, a higher one fails an assertion.
FetcherNotRestarted == fetcher
FetcherAfterBlock ==
  IF CURRENT_BLOCK_INDEX < block_height
    THEN StartedFetcher(CURRENT_BLOCK_INDEX + 1) ELSE fetcher

ReturnToCatchUp ==
  IF CURRENT_BLOCK_INDEX <= block_height
    THEN /\ fetcher' = FetcherAfterBlock
         /\ pc' = "refresh"
         /\ orders_cache' = CacheAfter(decoded_block)
         /\ UNCHANGED <<caller, CURRENT_BLOCK_INDEX, block_count, block_height,
                        parsing, watching, zmq>>
    ELSE Raise

ReturnToFollow ==
  /\ pc' = "follow"
  /\ orders_cache' = CacheAfter(decoded_block)
  /\ UNCHANGED <<caller, CURRENT_BLOCK_INDEX, catching, parsing, watching, zmq>>

CommitBlock ==
  /\ pc = "commit"
  /\ IF CanInsert(decoded_block)
       THEN /\ blocks' = Append(blocks,
                 [hash        |-> decoded_block,
                  ledger_hash |-> ConsensusHash(previous_block, decoded_block)])
            /\ rows' = [t \in Table |-> rows[t] \cup {decoded_block}]
            /\ IF caller = "follow" THEN ReturnToFollow ELSE ReturnToCatchUp
       ELSE UNCHANGED db /\ Raise
  /\ UNCHANGED <<bitcoind, bounds>>

----------------------------------------------------------------------------
Parser ==
  \/ CatchUp \/ FetchBlock \/ CatchUpDone \/ RefreshBlockCount
  \/ Subscribe \/ ReceiveRawblock
  \/ ParseNewBlock \/ ScanBack \/ RereadBlock
  \/ CleanTable \/ CleanBlocks \/ CommitBlock

Next ==
  \/ NewTip
  \/ Parser
  \/ SubscribeFails \/ RpcError \/ Crash \/ Restart
  \/ RollbackCommand

Spec == Init /\ [][Next]_vars

\* The thread keeps running while its process is up, and the service manager
\* starts a process that has exited.
FairSpec == Spec /\ WF_vars(Parser) /\ WF_vars(Restart)

----------------------------------------------------------------------------
\* Type invariant: the values the tables and the variables of the thread take.
TypeOK ==
  /\ tip \in Block /\ reorgs \in Nat
  /\ blocks \in Seq(BlockRow)
  /\ rows \in [Table -> SUBSET Block]
  /\ pc \in {"catch_up", "loop", "gap", "refresh", "subscribe", "follow", "parse",
             "scan", "reread", "rollback", "commit", "down", "stuck"}
  /\ caller \in {"catch_up", "follow", "rollback"}
  /\ {CURRENT_BLOCK_INDEX, block_count, block_height, scan, table} \subseteq Nat
  /\ fetcher \in Fetcher
  /\ decoded_block \in Block \cup {<<>>} /\ previous_block \in Seq(Label)
  /\ orders_cache \subseteq Block
  /\ watching \in BOOLEAN /\ zmq \in Seq(Block)
  /\ {failures, commands} \subseteq Nat

\* Foreign keys are switched off during a rollback; still no row of another
\* table ever refers to a block that is not in `blocks`, because the tables are
\* cleaned before `blocks` and a block is inserted together with its rows.  A
\* process killed between two DELETEs leaves no orphan rows.
RowsHaveTheirBlock == \A t \in Table : rows[t] \subseteq BlocksInDb

\* The assertion of catch_up() on gaps never fails: the fetcher is restarted
\* whenever parse_new_block() went back below the height it delivered.
NoGap == pc # "gap"

\* The global CURRENT_BLOCK_INDEX, which every step moves, stays in step with
\* the database over reorganizations, rollbacks, catch-ups and restarts; so the
\* assertions on block_index in list_tx() and parse_block() never fail.
IndexTracksDb ==
  /\ pc \in {"loop", "refresh", "subscribe", "follow"} =>
       CURRENT_BLOCK_INDEX = Len(blocks)
  /\ pc = "commit" => /\ CURRENT_BLOCK_INDEX = Len(blocks) + 1
                      /\ CURRENT_BLOCK_INDEX = Height(decoded_block)

\* None of the assertions of catch_up(), list_tx() and parse_block() on heights ever
\* fails.
AssertionsHold == NoGap /\ IndexTracksDb

\* Each block is the child of the block below it: parse_new_block() is to "search
\* last block with the correct hash" and to parse the block above that one.
Linked ==
  \A i \in DOMAIN blocks : i > 1 => ParentOf(blocks[i].hash) = blocks[i - 1].hash

\* The same as long as bitcoind switches branches once only: its tips, crashes and
\* rollbacks may come between any two RPC calls of the search for the fork.
LinkedWithOneReorg == reorgs <= 1 => Linked

\* A consensus hash is a function of the blocks up to its own, not of the
\* branches the node has seen.
HashesFollowTheChain == \A i \in DOMAIN blocks : blocks[i].ledger_hash = blocks[i].hash

\* When catch_up() hands over, the top of the database is bitcoind's tip as it
\* was when the block count was last read: what is then missing was mined later.
HandsOverAtTheTip ==
  [][pc = "refresh" /\ pc' = "loop" /\ block_count' = CURRENT_BLOCK_INDEX
       => TopHash = tip]_vars

\* Once a block of some height has been announced, the database gets to that height on
\* the active chain, whatever crashes, reorganizations and commands come between,
\* unless the chain gets shorter or the thread is stuck after an exception.
AnnouncedBlocksAreFollowed ==
  \A h \in 1..MaxHeight :
    (\E i \in DOMAIN zmq : Height(zmq[i]) = h)
      ~> \/ Height(tip) < h \/ AncestorAt(tip, h) \in BlocksInDb
         \/ pc = "stuck"
=============================================================================
