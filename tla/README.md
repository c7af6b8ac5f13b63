# Verification of counterparty-core

TLA+ models of counterparty-core: the Python server (with a block indexer in
Rust) that follows bitcoind, derives the ledger of the Counterparty protocol from
the transactions of its blocks, keeps it in SQLite and serves it over HTTP.
`CC/` below is `src/counterparty-core/counterpartycore/`.

1. [The system](#1-the-system) – parts, state, operations, what is hard
2. [Plan](#2-plan) – modules, abstract specifications, runs, theorems
3. [Blocks](#3-blocks-the-block-parser) – the block parser
4. [ApiWatcher](#4-apiwatcher-the-api-database) – the API database
5. [Orders](#5-orders-the-exchange) – the decentralized exchange
6. [Dispensers](#6-dispensers) – sales by a machine
7. [Assets and Fairminters](#7-assets-and-fairminters) – issuance, destruction, dividends, minting
8. [Bets](#8-bets) – bets and the broadcasts that decide them
9. [Holdings](#9-holdings-sends-sweeps-and-outputs) – sends, sweeps, assets on outputs
10. [Coins](#10-coins-composing-transactions) – composing transactions
11. [Proved and checked](#11-what-is-proved-what-is-checked)
12. [Not modelled](#12-not-modelled)

Check a module with `tlc -config MCBlocks_once.cfg MCBlocks.tla`, a proof with
`tlapm BlocksProofs.tla`; `PROJECT.json` lists the runs, the mutants that show
that a property can fail, the source lines of every definition, the findings,
the hazards and the theorems.

## 1. The system

One process (`CC/server.py`, `start_all`). Its main thread catches up with
bitcoind and then follows it; other threads serve the APIs, keep a second
database for API v2, check asset conservation and prefetch blocks.

| Part | State it keeps | Operations | Interacts with |
|---|---|---|---|
| Block parser `lib/blocks.py`, `lib/follow.py` | ledger database; `util.CURRENT_BLOCK_INDEX`; the block being parsed | `catch_up`, `parse_new_block`, `rollback`, `reparse`, `receive_rawblock` | RPC and ZMQ of bitcoind, RSFetcher, message handlers, caches |
| RSFetcher `lib/backend/rsfetcher.py` | queue of prefetched blocks, prefetch thread | `start`, `get_block`, `stop`, `restart` | block parser, Rust indexer |
| Rust indexer `counterparty-rs/src/indexer` | RocksDB of blocks, channels between workers | producer, parallel fetchers, orderer, writer, reporter | bitcoind, RSFetcher |
| Message handlers `lib/messages/*` | one table per message kind | `parse` of each, `match`, `expire` | ledger primitives |
| Ledger primitives `lib/ledger.py` | balances, debits, credits, `messages` journal, singleton caches (orders, assets, UTXOs) | `debit`, `credit`, `insert_record`, `update_*` | every handler |
| API watcher `lib/api/api_watcher.py` | API database: copies of the messages, balances, state tables | `catch_up`, `parse_event`, `rollback_event(s)`, mempool sync | reads the ledger database while it is written |
| Mempool `lib/mempool.py` | `mempool` table, `PARSING_MEMPOOL` | `parse_mempool_transactions`, `clean_*` | block parser's thread and tables |
| Database `lib/database.py` | connection pools, `config` table | `connection`, `update_version` | all |
| Composition `lib/transaction*`, `lib/api/compose.py` | UTXO locks | select inputs, serialize | APIs, bitcoind |
| Decoding `lib/gettxinfo.py`, `lib/script.py` | – | transaction → source, destinations, data | block parser |
| HTTP APIs `lib/api/*` | response caches | queries | read both databases |

### What makes each part correct, and what is hard about it

*Block parser.* The ledger is a function of the chain: after any number of
reorganizations, crashes and catch-ups the tables hold the rows of exactly the
blocks of one chain, every consensus hash is the one a fresh node computes, and
announced blocks are eventually parsed. It is hard because bitcoind moves between
two RPC calls; a rollback is a sequence of separate SQLite transactions; the
position is a global variable moved by five functions; the fetcher reads ahead of
the parser, and both react to the same reorganization.

*API watcher.* The API database is what replaying the ledger's messages gives, and
a reorganization of the ledger is undone there too. It is hard because the
messages are read while the other thread deletes and rewrites them, and because
undoing an update needs the state from before the update.

*DEX, dispensers, fairminters, bets.* No asset is created or lost by escrow: what
balances, open offers, pending matches and destructions hold adds up to what was
issued, whatever the order of offers, payments, cancels and expirations. It is
hard because matches fill several offers, rounding is by quantities in both
directions, a payment races an expiration, and an expired match reopens its offers.

*Issuances.* Supply, locks and ownership change only as the owner's messages allow.

*Sends and outputs.* An asset is on an address or on one output, and follows that
output when it is spent. It is hard because the transactions of a block are all listed
before the first is parsed, with a cache for what the earlier ones will do.

*Composition.* Two transactions composed one after the other do not spend the same
coin, and each pays its fee. It is hard because the locks are caches with an age and
a size, used by several threads between calls.

*RSFetcher, Rust indexer.* Blocks are delivered once, in order, without gaps, and
stopping terminates: worker threads, queues with timeouts, restart from inside a worker.

*Mempool.* Parsing unconfirmed transactions leaves no trace in the ledger.

## 2. Plan

One module per component, so that it can be proved about: no `RECURSIVE` operator, one
action per operation, invariants in named parts. `MC*` modules hold the instances.

| Module | Models | Main properties |
|---|---|---|
| `Chain` | blocks as paths, and what may be expected of a fetcher | – |
| `Blocks` (on `Chain`), `BlocksProofs` | following the chain of bitcoind | rows and blocks agree, linked chain, heights in step, announced blocks are followed |
| `BlockStream` (on `Chain`) | abstract: what a fetcher promises | implemented by `RSFetcher`, relied on by `Blocks` |
| `Indexer` (on `Chain`) | the Rust pipeline | order |
| `RSFetcher` (on `Indexer`) | its Python end, composed with the pipeline | implements `BlockStream`; the tip is delivered |
| `ApiWatcher`, `ApiWatcherProofs` | the API database following the ledger database | tables are those of the messages, supplies follow them |
| `Orders`, `OrdersProofs` | orders, matches, BTC payments, cancels, expirations | conservation, fair and timely trades |
| `Dispensers`, `DispensersProofs` | open, refill, dispense, close | what is left equals what was put in less what was given |
| `Assets` | issuance, destruction, dividend, the cache of supplies | (in `Fairminters`) |
| `Fairminters` (on `Assets`), `FairmintersProofs` | fair minters, mints, caps, escrow | escrow covered, caps, end of minting, rights of holders |
| `Bets`, `BetsProofs` | bets, matches, broadcasts | odds, conservation, nobody bets on what is known |
| `Holdings`, `HoldingsProofs` | sends, sweeps, attach, detach, move, gas | nothing is left on a spent output |
| `Coins` | the coins of composed transactions, `UTXOLocks` | coins kept apart, fees paid |
| `SumTheorems` | what sums over finite sets obey, for the proofs | – |

*Compositions.* `RSFetcher` composes the fetcher with the indexer, `Fairminters` the
minting with everything else that changes an asset, including orders as far as they
hold an asset in escrow. `Blocks` and `RSFetcher` meet in `BlockStream`: the latter is
shown to implement it and the former takes its steps (`Chain!CanDeliver`).

*What would come next:* the mempool rows of the API watcher; `check_database_version`; proofs about
the fetcher (`OrderInvariant`, the steps of `StreamSpec`: section 11) and about `Coins`.

## 3. Blocks: the block parser

`Blocks.tla` models the main thread (`lib/blocks.py` `catch_up`,
`parse_new_block`, `rollback`; `lib/follow.py` `start_blockchain_watcher`,
`receive_rawblock`; `server.py` `start_all`, `rollback`), with bitcoind, the block
fetcher and the process around it.

*Data.* A block hash commits to the chain below it, so a block is its path: a
sequence of labels, one per height. `hash_prev` is the path without its last
label. `check.consensus_hash` hashes the previous consensus hash with the content
of the block, so a consensus hash is a sequence of labels too, and is right when
it equals the path. Ledger rows are abstracted to the blocks they belong to: what
the properties tell apart is which block's rows a table holds.

*State.* `blocks` and `rows` are the database and survive a crash; `pc`,
`CURRENT_BLOCK_INDEX`, the locals of `catch_up` and `parse_new_block`, the caches,
the ZMQ queue and the fetcher are the process and do not.

*Actions.* One per stretch of code that bitcoind or a crash cannot split:

| Action | Code |
|---|---|
| `NewTip` | bitcoind connects blocks, or switches branches; ZMQ announces the new tip only |
| `CatchUp`, `FetchBlock`, `RefreshBlockCount`, `CatchUpDone` | the parts of `catch_up()`, split at the RPC calls and at `get_block()` |
| `Subscribe`, `SubscribeFails`, `ReceiveRawblock` | the watcher |
| `ParseNewBlock`, `ScanBack`, `RereadBlock` | `parse_new_block()` up to the rollback: one action per RPC call (the two calls of `RereadBlock` name one block, by its hash) |
| `CleanTable`, `CleanBlocks` | one autocommitted DELETE each |
| `CommitBlock` | the transaction of the block, and the return to `catch_up()` or to the watcher |
| `RpcError`, `Crash`, `Restart`, `RollbackCommand` | what happens to the process; `RpcError` wherever it waits for bitcoind or for the fetcher (`AwaitsAnswer`: both `getblockcount`, the calls of the search for the fork, and a `get_block()` that returns None) |

*The fetcher* is `Chain!Fetcher`: it delivers heights in order from any chain that
was active since it was started, and goes back only over a block that was replaced
after it was read. `RSFetcher` is shown to do so (below).

*Not modelled here:* `get_blocks_behind()`/`wait_for_block()` (they only wait), the
asset conservation check of `catch_up` (read-only), the mempool, the upgrade and
`reparse` paths (section 12), and the BLOCK_FIRST special case of `rollback()`, which
drops and recreates the tables in the same order as the DELETEs.

### Runs

| Run | Bounds | Result |
|---|---|---|
| `blocks_once` | height 4, 1 reorganization, 1 crash or RPC error, 1 rollback command, 3 tables, fairness | rows have their block, the heights asserted by the code agree, the chain is linked, `catch_up` hands over at the tip, announced blocks are followed |
| `blocks_hashes` | height 4, 1 reorganization | **violated**: `previous_block` is stale after a rollback |

Height 4 is the least at which a reorganization orphans two parsed blocks above a
common ancestor while the new branch is longer; two labels give every block a
sibling; three tables put one before and one after `orders`, the one a cache
copies. `CHECK_DEADLOCK` is off because the bounded chain stops growing and the
follower then has nothing to do.

*Fairness.* `WF(Parser)`: the main thread is never descheduled for ever.
`WF(Restart)`: a service manager starts the server again. Nothing is assumed of
bitcoind.

*Finding* (`blocks_hashes`): `parse_new_block` reads `previous_block` before it handles
the reorganization (blocks.py:1235) and passes its hashes on after the rollback. The
row it read is the last one of the database (index `CURRENT_BLOCK_INDEX - 1`), which is
an orphan in every reorganization the node detects, so the first block of the new branch
is always hashed on the consensus hash of an orphan: orphaning the top block alone is
enough. Release 10.4.5 says that unequal hashes after a reorganization were fixed; they
are not.

Facts of the code that are left outside the properties:

- `LinkedWithOneReorg` is about one reorganization. A second one between the scan for
  the fork and `getblock` (blocks.py:1248) links the block that is re-read, which nothing
  compares again with the block the scan stopped at, to a block that is not its parent
  (TLC finds it at `MaxHeight = 5`, `MaxReorgs = 2`).
- With two reorganizations the watcher can also stop for good: the assertion
  `parsed_block_index == block_height` of `catch_up` (blocks.py:1387) fails when the
  block that was re-read is higher than the one delivered, `handle()` logs the
  exception and leaves its loop, and the process stays up following nothing
  (`pc = "stuck"`, which `AnnouncedBlocksAreFollowed` excepts). An RPC call that fails
  under the watcher, or a `get_block()` that returns None, ends in the same state.
- `rollback()` autocommits each DELETE. Killed in between, it leaves tables without the
  rows of blocks that are still in `blocks`, and the next start parses on from there.
  The rollback of a reorganization is run into again by the next start, unless bitcoind
  has returned to the old branch in between; a rollback command is not.
- `rollback()` cleans tables, not the singletons: OrdersCache and AssetCache keep what the
  old branch put there until the process ends (`orders_cache` in the model).

### The fetcher: `BlockStream`, `Indexer`, `RSFetcher`

`Indexer.tla` models `counterparty-rs/src/indexer`: the producer, which reads heights
and, near the tip, compares each block with the one stored below it and looks for the
fork; parallel fetchers; the orderer with its heap; the writer to RocksDB; the reporter,
which checks the order; the bounded channels between them and the `Stopper`.
`RSFetcher.tla` adds `lib/backend/rsfetcher.py`: the prefetch thread, its queue,
`get_block`, `stop`, `restart`, and the calls `catch_up()` makes.

`StreamSpec` (`BlockStream!Spec` through `INSTANCE ... WITH`) is the refinement: whatever
the threads, failures and reorganizations do, what `get_block` returns is a behaviour of
`BlockStream`. `OrderInvariant` is the reporter's own check, which would stop the indexer.
`TipIsDelivered` is liveness: in `WF` of the indexer's steps, of the prefetch thread and
of a consumer that keeps asking, the tip of bitcoind gets to `catch_up()`.

| Run | Bounds | Result |
|---|---|---|
| `fetch_stream` | height 4, 3 branches, 2 fetcher threads, channels of 1, 1 reorganization, 1 failed RPC call, 2 starts | all three hold |

Channels of one place make every worker block on the next; two threads finish in both
orders; branches that leave the main one at heights 2 and 3 make the producer go back one
and two blocks; with a window of 1 the producer checks some blocks and not others, and the
writer indexes all of them (section 11).

Two facts limit `TipIsDelivered`. (1) The producer looks for the fork in the store that
the end of its own pipeline writes (producer.rs:35-42): if it goes back below the height
it was started at, it waits for a block nobody will write (`WaitsBelowStart`). (2) The
prefetch thread that finds the indexer stopped calls `restart()`, hence `stop()` and
`executor.shutdown(wait=True)`, from inside that very executor (rsfetcher.py:225): a
thread cannot join itself, and the RuntimeError ends it. `stopped_event` is set by then,
so `get_block()` returns None, and the exception that follows ends the process: nothing
is restarted, which `~running` excepts.

### Theorems (`BlocksProofs.tla`)

For any set of labels, any bounds and any list of tables that holds `orders`:

- `TypeCorrect`: `Spec => []TypeOK`
- `NoRowWithoutItsBlock`: `Spec => []RowsHaveTheirBlock`
- `IndexInStep`, `NoGapEver`: `Spec => []IndexTracksDb`, `Spec => []NoGap`
- `AssertionsNeverFail`: `Spec => []AssertionsHold`, from both
- `HandOverAtTheTip`: `Spec => HandsOverAtTheTip`
- `LinkedAfterOneReorg`: `Spec => []LinkedWithOneReorg`

The first three follow from one inductive invariant, `IInv`. None of the
properties is inductive alone: that no row is without its block after
`CleanBlocks` needs that every table was cleaned first (`Cleaned`, about the
position in TABLES) and that a row of `blocks` is at the index of the height of its
block (`Heights`); that in turn needs the index to be in step (`Position`) and the
block being parsed to be one above the top (`ParsedBlock`), which holds in
`ParseNewBlock` only because its parent was compared, and after a rollback because
the block was read at `scan + 1`. There is one lemma per action. `NoGapEver` rests
on a second invariant, `FetcherBehind`, on top of the first.

`HandOverAtTheTip` holds for any number of reorganizations. Its invariant,
`KnownBelowTip`, says that no block the parser, the fetcher or the database knows is above
bitcoind's tip, and that the only one as high is the tip itself: a chain becomes active by
being higher. So a database as high as the block count just read ends in the tip.

`LinkedAfterOneReorg` has one invariant for each side of the reorganization. Before it
(`OneBranch`) every known block is on the active chain, so the parser never searches for
a fork. After it (`AtMostTwoBranches`) the active chain is only extended: what the
search stopped at is still an ancestor of the tip when the block is read again, and stays
below it through the rollback. The second reorganization of the list above breaks exactly
that clause, about `pc = "reread"`. `FetcherAbove` says that between two blocks the
fetcher is stopped or one above the database, so a block is parsed at its own height.

The liveness property is model-checked only.

## 4. ApiWatcher: the API database

`ApiWatcher.tla` models `lib/api/api_watcher.py`: the thread of the API process
that turns the ledger's events (`messages`) into a second database.

*Data.* An event is a record: its name, block, the id of the row it is about, and
what it writes there. One event of each way of being handled is kept: `NEW_BLOCK`,
`OPEN_ORDER` (insert), `ORDER_UPDATE`, `BLOCK_PARSED` (update), `CREDIT`, `DEBIT`
(insert, and add to a balance), `ORDER_EXPIRATION` (insert in two tables),
`ASSET_CREATION`, `ASSET_ISSUANCE`, `ASSET_DESTRUCTION` (`assets_info`), `BURN`,
`ASSET_DIVIDEND` (the supply of XCP), `NEW_TRANSACTION_OUTPUT` (skipped). The hash
of an event covers the one before it, so the hash of the i-th event is the
sequence of the first i events.

*State.* `journal` is the ledger's table; `api_db` is the API database: `messages`
(with `event_hash`, `previous_state`, `insert_rowid`), a table per category from
rowid to row, and the derived tables; `pc` and `caller` say where the thread is;
`AssetCache` is the singleton of the API process, empty or a sequence of the one supply
it holds.

| Action | Code |
|---|---|
| `CommitBlock`, `RollbackLedger` | the ledger process: a block, or the blocks of a rollback, in one transaction |
| `NothingToCheck`, `UndoMissing`, `UndoDivergent`, `CheckDone` | `check_event_hashes`: one step per turn of its two loops |
| `CountEvents`, `CatchUpEvent` | `catch_up`: one step per SELECT on the ledger |
| `RefreshXcpSupply`, `PeekLedger`, `ParseNextEvent` | `follow` and `parse_next_event`: one step per SELECT |
| `Restart` | the API process is killed and started again, at any point |

`ParseEvent` and `UndoEvent` are the transactions of `parse_event` and
`rollback_event`. An exception (a UNIQUE constraint, no row to delete,
`parse_event(None)`) sets `pc` to `"dead"`: nothing in the code restarts the thread.

*Not modelled:* the mempool rows (`clean_mempool`, `synchronize_mempool`), the
counters of fairminters (added and subtracted like balances), migrations.

| Run | Bounds | Result |
|---|---|---|
| `api_replay` | 3 blocks of every kind of event, 1 ledger rollback (of any block), 1 restart, fairness | every table is that of the messages; supplies change with them; the chain of messages is whole until a rollback; in the end the last events agree, or the thread is dead |
| `api_states` | 2 blocks, 1 rollback | **violated**: undoing an update restores nothing |

Three blocks let one be kept, one be orphaned and one be built on the new branch;
a block holds at most two events of its own, so that a rollback undoes several and
the watcher may stand in the middle of one. *Fairness* is weak fairness of the
thread's own steps: it runs until the process ends; nothing is assumed of the
ledger, whose events are bounded.

*Finding.* `api_states`: `parse_event` reads `previous_state` after it has run the
UPDATE, so `rollback_event` writes the new state back.

*Exceptions in the passing properties*, each of which the code does run into:

- `SuppliesAreTracked` excepts `refresh_xcp_supply`: it takes the supply of a
  ledger that may be ahead of the API database, and the burns of the blocks in
  between are added again when they are parsed. `xcp_supply()` is five SELECTs
  (ledger.py:2436-2499) with no transaction around them; the model takes them in one
  step, so it does not show that a block committed between two of them is half counted.
  For the same reason nothing is said of the value a new API database starts with
  (api_watcher.py:924): it is the supply of the ledger at that moment, the model begins
  with an empty ledger, where it is 0, and `refresh_xcp_supply` replaces it anyway.
- It excepts undoing an issuance: `refresh_assets_info` takes the supply from the
  AssetCache of the API process, filled at its first use and maintained by nobody
  there, so from the second undone issuance on it is stale.
- `WholeUntilRollback` ends with the first rollback of the ledger: the hash check compares
  the last event only and the next event is read afterwards by its index, so a rollback
  between the two leaves an orphaned event below the new ones for ever.
- `LastEventAgrees` excepts a dead thread: a rollback between the two SELECTs of
  `parse_next_event` ends in `parse_event(None)`; one during `catch_up` may end in
  a second row of `blocks` with the same index.

*Proved* (`ApiWatcherProofs.tla`), for any blocks and any number of blocks, of rollbacks of
the ledger and of restarts at any point:

- `WholeBeforeAnyRollback`: `Spec => []WholeUntilRollback`
- `TypeCorrect`: `Spec => []TypeOK`
- `TablesReplayed`: `Spec => []TablesAreReplayed`
- `SuppliesTracked`: `Spec => SuppliesAreTracked`

The first rests on the messages being a prefix of the ledger's until it is first
rolled back: then the check undoes nothing, and the event read by its index is the next
one. After a rollback that is false, and the others hold all the same, because they
relate the API database to its own messages. Their inductive invariant is `ReplayInv`:
the types, `TablesAreReplayed`, and three facts without which undoing an event could
disturb more than parsing it had added.

- `ExpiredOnce`: an order has one message of expiration, so the row that undoing it
  deletes is its own.
- `OnlyUpdatesHaveAState`: `previous_state` is kept for updates only, so an insert that is
  undone restores nothing.
- `NoAssetNoSupply`: before its creation an asset has no supply, so the issuances
  that come first, or are left when the creation is undone, are no drift.

The types include that an event's hash covers it and that it has an `insert_rowid` exactly
if it inserts; with them the message that is undone is the last insert of its table, and
its rowid the highest. There is one lemma for each kind of event, parsed and undone.
Rows are stated as the set of messages that insert into a table, balances as sums over it
(`SumTheorems`), so the argument needs no induction over the sequence of messages.

## 5. Orders: the exchange

`Orders.tla` models `lib/messages/order.py`, `btcpay.py` and `cancel.py` and what
they call in `lib/ledger.py`: the queries on orders and matches and the
OrdersCache. The rules are those of mainnet since block 866000; branches for
earlier blocks and for test networks are left out.

*Data.* An order is a record of the columns of its last row, known by its place in
`orders` (its `tx_index`); a match is a record in `order_matches` and its place
is its id. Balances are a function of address and asset; BTC has no balance. Quantities and prices
are integers and fractions of integers compared crosswise, `round()` is Python's
(half to even). The limits of `MAX_INT` and of the expiration are left out, and so
are rejected transactions, which are recorded and change nothing else; but a rejected order
gets into the cache (`InvalidOrder`).

| Action | Code |
|---|---|
| `Order` | `order.parse`: cut down to the balance, `validate`, debit, insert; then the first lines of `match` |
| `InvalidOrder` | `order.parse` of an order found invalid: its row is never looked at again, but `insert_order` (ledger.py:2015) puts it into the OrdersCache too, where it may fall to it to clean the filled ones |
| `MatchNext`, `MatchEnd` | `match`: up to and including the next trade; the end of the loop |
| `Cancel` | `cancel.parse` with `cancel_order` |
| `BTCPay` | `btcpay.parse`: credit, close the match, `mark_order_as_filled` |
| `NextBlock` | `parse_block` calls `order.expire`, which reads the matches due |
| `ExpireOrderMatch`, `MatchesExpired` | `cancel_order_match` with `exact_penalty`, per match |
| `Rematch`, `MatchedAgain` | `match` of both orders of each match that expired |
| `ExpireOrder`, `OrdersExpired` | `expire_orders`: those due now and in the block before |

`cached` is the set of orders of which the OrdersCache holds a row. While the node
is catching up `match` asks the cache, afterwards the database; `StartMatch` chooses
either, so each property holds for both.

### Runs

| Run | Bounds | Result |
|---|---|---|
| `orders_book` | 3 orders out of 6 offers of 2 traders, 4 blocks, matches live 1, the cache cleans after 2 | all seven properties hold |
| `orders_issued` | the same | **violated**: what is issued is not what `ledger.held` finds |

Three orders are the least with which one has two matches, one paid and one pending,
and with which one taker has two prices to choose from. The
offers hold a seller of 6 A for BTC and two buyers at prices 1 and 3, so that trades
are at the limit, better than it, partial, and below `MinBTC`; and a buyer of A for
XCP between two sellers, one below his price and one above it, at quantities that
round. `alice` has 8 A: her third order is cut down to what is left. Four blocks let
a match be made, expire, and its orders be matched anew and cleaned from the cache;
the penalty of an order that left its BTC unpaid needs an offer that expires before
the match of it does (`BuyDear`). `CHECK_DEADLOCK` is off because the last block is a bound.

`TradesAreFair` is two things. `LimitPrice` says what an owner may rely on: tx0 is paid its own price up to the
rounding of half a unit, and tx1 never pays more than half a unit above what it
offered. `BestPriceFirst`: of two trades that an order made in the block it was opened
in (`opened`), the better price came first, and of equal prices the older order; when it is
matched anew later, others have come and gone.
`BookIsNotCrossed` says that the loops of `match` and of the re-match
overlook nobody: two open orders in the cache that would trade in both roles have been
matched. It excepts a pair of which one could not pay the fee of the trade there was to
make (`FeeCovers`): the trade is passed over, what is left later may be small enough for
the fee, and nobody tries again.

*Finding* (`orders_issued`): a sell order for BTC that is bought at a better price has
`get_remaining = 0` and `give_remaining > 0`. The payment marks it as filled
(ledger.py:2047) without the credit that `match` makes for orders without BTC.
What is left belongs to nobody; `ledger.held` knows of it only for XCP, so
`check.asset_conservation` raises. `EveryStepConserves` counts the rest of every such
order and then holds.

Facts of the code that are left outside the properties, and why:

- `mark_order_as_filled` does not look at the status: a payment for a match of an
  order that was cancelled or has expired, and whose remaining quantity is zero on
  one side, turns it into a filled one (`Revives`). Its rest was credited when it was
  closed and is then counted again; `EveryStepConserves` excepts that step. A
  later expiration opens the order again; one that had expired is no longer
  in the cache, so a node that is catching up and one that is following match differently.
- A payment naming a completed match of two tokens reaches `assert False`
  (btcpay.py:102). `BTCPay` is guarded by the status, so the model has no such payment.
- An order filled by one payment is opened again when another match of it expires, up to
  `MatchLife` (20) blocks after its own `expire_index`; `expire_orders` looks back one block
  (order.py:977-980), so it stays open and matches for ever.
- The lines that would expire a BTC sell order with its match (order.py:1000-1014) test
  the status of a row that was read while it was pending: they are dead, and not modelled.

### Theorems (`OrdersProofs.tla`)

For any addresses, assets, offers, funds and bounds with `MatchLife < CleanAge`:

- `TypeCorrect`: `Spec => []TypeOK`
- `NoSecondMatch`: `Spec => []MatchedOnce`
- `MatchesAreTimely`: `Spec => []PendingIsTimely`
- `MatchesAreSettledOnce`: `Spec => SettledOnce`
- `CacheDropsForGood`: `Spec => DroppedForGood`
- `NobodyOverspends`: `Spec => []Solvent`
- `TradesStayFair`: `Spec => []TradesAreFair`
- `NothingIsCreatedOrLost`: `Spec => EveryStepConserves`
- `BookStaysUncrossed`: `Spec => []BookIsNotCrossed`

The first five follow from `IInv`. `TypeOK` needs that `match` never meets an order with
itself (`matching \notin candidates`). That a match is settled once needs that the
list read at the start of a block stays pending while it is worked off
(`ExpiringIsPending`), and timeliness that every late match is on that list
(`PendingIsCurrent`). That the cache drops no order for which a match is pending
needs `FilledIsRecent`: an order was filled after its last match was made, hence a
pending match of it expires within `MatchLife` of the block it was filled in, and
the cleaning waits `CleanAge`. There is one lemma per action, and lemmas on what
each helper does to the type of a row.

`Solvent` is inductive as it stands, given `TypeOK`. The step that could break it is a
trade: its forward quantity is a minimum of what both orders have left, rounded down,
and its backward quantity is that times tx0's price, rounded half to even, which can
exceed the exact amount. It never exceeds what tx1 has left, because a fraction that is
at most an integer is rounded to at most that integer (`RoundBound`, `TradeBound`).

The last three rest on `LoopsInv`: nothing is matched while matches or orders expire, and
what is being matched or due to expire stays open. For fair trades (`FairInv`) the invariant
is about the loop half way: whatever the order being matched has taken in this block is at
least as good as each candidate it still has (`BestSoFar`); products of prices are
compared by lemmas of their own. For the book (`BookInv`) it is that a crossed pair
is on somebody's list: it is being matched, or one of the two waits in `rematching`
(`CrossedIsTried`); this needs that no order has more left than it was opened for
(`WithinQuantity`), which is the conservation of its books. Conservation is proved on sums
over addresses, orders and matches: each action is shown to be one of a few changes
(a payment out of a balance, a trade, the end of a match, the end of an order), and each
change to move as much out of one sum as into another.

`MatchedOnce` and `Solvent` are only proved: no run repeats them.

## 6. Dispensers

`Dispensers.tla` models `messages/dispenser.py` and `messages/dispense.py` under the rules
of mainnet since block 866000. A row of `dispensers` is a record; the queries of
`ledger.get_dispensers` look at the last row of each address and asset (`IsLast`), and so
do the actions. A dispenser opened on an address by another one (its origin) can only be
older than these rules (`Legacy`).

| Action | Code |
|---|---|
| `ParseOpen` (`OpenDispenser`, `RefillDispenser`) | `dispenser.parse` of an OPEN message: a new one or a refill, with the oracle's fee |
| `ParseClose` | closing: `CloseDelay` (5) blocks later; `validate` looks up the price of a feed that a CLOSE names too |
| `ParseBroadcast` | prices of oracles; they count from the next block |
| `ParseDispense`, `Dispense` | a BTC payment with several outputs; each dispenser of each output in turn |
| `NextBlock`, `ClosePending` | `close_pending` before the transactions of a block |

`Dispense` follows the code's quotient of two integers through a float (`RoundsUp`,
`FloatFloor`): `Mantissa` (2^53) is small in the instance so that rounding up does happen.
That is `remaining`, the quotient that decides how much is given at most. The price of an
oracle also goes through floats (dispense.py:23), which `MustGive` takes as the exact
integer quotient: with an oracle the real number of lots may be one off, and nothing is
claimed of what such a dispense costs (`IsPaidFor` is about dispensers without an oracle);
that it gives no more than there is does not depend on it.
An exception while a dispense is parsed stops every node at its block (`stopped`).

Run `dispensers`: 4 blocks, 5 transactions, two addresses, two assets, an oracle, offers
that divide their escrow and that do not, one refill, two dispenses, a delay of one
block. `OneLiveDispenser`: what the queries leave out is closed. `EscrowIsAccounted`: of
each live dispenser, put in = given + left; of each asset, nothing is lost; and no
dispense is cheaper than its rate. `NoWayBack`: a closing dispenser is neither opened nor
refilled, and closes in the block announced. `StopsForAReason`: only a feed without a
positive price or an amount beyond the mantissa makes the parser raise, and both do.

### Theorems (`DispensersProofs.tla`)

For any addresses, assets, offers, payments, prices, delays and limits:

- `TypeCorrect`: `Spec => []TypeOK`, no balance negative included
- `OneLive`: `Spec => []OneLiveDispenser`
- `BooksAlwaysBalance`: `Spec => []BooksBalance`, the part of `EscrowIsAccounted` that is about
  each dispenser: it can give once more, nothing of its escrow is lost, it is paid for what
  it gives
- `EscrowAlwaysAccounted`: `Spec => []EscrowIsAccounted`, which adds that of each asset nothing
  is created or lost
- `AlwaysStopsForAReason`: `Spec => []StopsForAReason`
- `NoWayBackEver`: `Spec => NoWayBack`

All follow from one invariant, `IInv`, and from a relation between a row before and
after a step, `RowsStep`, proved once for each action. The invariant adds to these that a
closing row has not missed its block (`ClosingInTime`) and that no payment is half parsed
when a row is due (`DueBeforePayments`): without the latter an output of a payment could come
between the start of a block and the closing. That a payment is never worth less than what
is given for it (`LotsArePaid`) needs only that the number of lots is at most the quotient
of payment and rate, whichever way the float rounds what is left. That the asset is conserved
is a sum over addresses and rows. It needs that at most one row of an asset gives for one
output (`OneLiveDispenser`), that whoever closes a dispenser is an address to be credited
(`ClosersAreKnown`), and that nobody pays himself (`PaysOthers`): two rows of `balances`
change, not one. That the parser stops for a reason needs what a float is: below `Mantissa` the
quotient of two integers is not rounded up to the next one by `FloatFloor`, so that no dispense
gives more than there is (`Binade` is the power of two that the size of an ulp follows).

## 7. Assets and Fairminters

`Assets.tla` models `messages/issuance.py`, `destroy.py`, `dividend.py` and, in
`ledger.py`, the queries on `issuances`, the supplies and the `AssetCache`;
`Fairminters.tla` extends it with `fairminter.py` and `fairmint.py`. A block is parsed as
`before_block` (opening, `OpenFairminter`), its transactions (`Transaction`), `after_block`
(`SettleSoftCap`, then `CloseFairminter`); a restart may come with the next block.
Orders appear as what they hold in escrow (`ParseOrder`, `CancelOrder`). Rows of
`issuances` are kept whole, since queries differ in which row of an asset they read.

Run `fairminters`: an asset and its subasset, two addresses, four transactions over three
blocks, a free fair minter with a hard cap and a commission, a paid one with a soft cap, a
burning one that starts later; restarts between blocks. `MintEscrowIsCovered`: assets and
XCP are conserved, and UNSPENDABLE covers all premints and all escrowed mints and payments.
`HardCapUnlessMisled`: no mint exceeds a hard cap and no mint raises. `MintingEnds`: one
live fair minter per asset, `fair_minting` as long as it lives, caps decided on time.
`RightsAreKept`: a lock is for good and an asset changes hands by its owner only.

*What limits them.* `AssetCache` adds every row that is inserted, refused ones too
(ledger.py:40-51), but fills itself from valid ones only (ledger.py:1030-1076). A refused
destruction so lowers the supply that mints are measured against: the cap is exceeded, or,
after a refused issuance, the amount minted is negative and the credit raises (`stopped`).
A fair mint copies its row from the cache (`get_last_issuance`), a refused issuance
included. `misled` is set when a decision is taken on a cache that differs from the
tables; without it TLC finds `HardCapHolds` violated in five steps. A fair minter
confirmed after its own `end_block` (`late`, fairminter.py:453) is inserted closed, leaves
`fair_minting` set for ever and its premint at UNSPENDABLE.

*Other facts met while modelling.* `get_asset` sorts by `tx_index` only and so returns the
first row inserted among those of one transaction: after `close_fairminter` by the
hard cap it says `fair_minting` until the next transaction of the asset. A new fair
minter clears `description_locked`. A reset looks at balances only, so escrowed units
survive it; a reset without holders makes the issuer of the first row the owner
(`ResetIsLost`). A fair minter does not ask who owns a subasset's parent. Dividends are
paid to UNSPENDABLE and to escrows.

### Theorems (`FairmintersProofs.tla`)

For any addresses, assets, terms, messages, funds and number of blocks, if parsing begins
after the genesis block (`0 < FirstBlock`; a fair minter with `start_block` 0 starts at once):

- `TypesAreKept`: `Spec => []TypeOK`, no balance, escrow or sum of mints below zero included
- `MintEscrowAlwaysCovered`: `Spec => []MintEscrowIsCovered`
- `CapAlwaysHolds`: `Spec => []HardCapUnlessMisled`
- `MintingAlwaysEnds`: `Spec => []MintingEnds`
- `RightsAreAlwaysKept`: `Spec => RightsAreKept`

All follow from one invariant, `IInv`. `RowsOK` says what the three ways in which the code
reads the last issuance of an asset (by rowid, by `tx_index`, from the cache) have in common:
the same issuer, and the newest by `tx_index` may say `fair_minting` when the last one no longer
does, never the reverse. `MintingOK`: at most one fair minter of an asset is live, none
beside one that was late, and the last row tells. `UnlockedOK`: an asset that is minted is
not locked, so a mint copies no lock. `MintersOK`: what status, blocks and soft cap of a fair
minter say of each other. `CoveredOK`: UNSPENDABLE holds the sum of what all of them will take.
`ConservedOK`: a sum over addresses, escrows and rows of issuances. `CapOK`: no live fair
minter is at its cap. Each part that reads the cache holds only as long as nobody was `misled`;
conservation and coverage hold even then. For each step the tables of amounts are treated
first (`LedgerKept`, lemmas `...Keeps`), then the rest (`...Inv`).

*Left out:* texts of descriptions, callable assets (no longer issued), holders on outputs,
the float quotient of a dividend, and `MAX_INT` reached by free mints.

## 8. Bets

`Bets.tla` models `messages/bet.py`, `broadcast.py` and the cancelling of bets under the
rules of mainnet since block 557236. `ParseBet` validates and debits, `TryBet` is one turn
of the loop of `match`, `EndOfMatch` its end; `ParseBroadcast` settles, or drops, every
match of its feed; `NextBlock` expires bets by block and matches two weeks after their
deadline. Fees of feeds are exact fractions of `Unit`.

Run `bets`: 3 blocks, 5 transactions, a feed, two betters, five kinds of bet whose odds
round, six broadcasts (early, deciding, dropping, locking). `WagerIsAccounted`: XCP is
conserved and each wager is what its matches stake plus what is left. `OddsAreKept`: both
sides get their odds up to half a unit. `PendingIsUndecided`: no match is pending over a
value announced since its deadline. `BookIsNotCrossed`: the loop overlooks no partner.

*Facts.* The two `sorted(...)` of `match` discard their results (bet.py:587-590, below a
comment that says "Sort by price first"): the oldest bet is matched, whatever its price; by
now that is the protocol. A wager larger than the balance with a counterwager of zero
divides by zero before it is validated (`stopped`). Matches whose deadline is more than
four weeks old are never expired (ledger.py:1668-1671); `Times` allows for it. A lock
broadcast stores timestamp 0.

### Theorems (`BetsProofs.tla`)

For any addresses, funds, bets, broadcasts, clocks and number of blocks:

- `TypesAreKept`: `Spec => []TypeOK`
- `MatchesKeepOdds`: `Spec => []OddsAreKept`
- `MatchesAreUndecided`: `Spec => []PendingIsUndecided`
- `OpenBetsAreNotCrossed`: `Spec => []BookIsNotCrossed`
- `WagersAreAccounted`: `Spec => []WagerIsAccounted`

`Sound` is the common invariant: types, and what the rows and the bet that is being matched
refer to; `StepKinds` reduces the actions to five kinds of step (a bet opens, trades, passes
a candidate over, rests, or bets and matches end). The odds follow from the rounding of one
trade (`RoundIsNear`); that no match is pending over a known value, from three
facts: a broadcast settles every match it decides, a bet is refused unless its deadline is
ahead of the last broadcast, and until a feed is locked its last broadcast is its latest; the book from the loop half way; conservation from sums over addresses, open bets and
pending matches, where a settlement pays both betters and the feed.

*Left out:* contracts for difference, which can no longer be opened; broadcasts that set
address options; `rps.py`, `rpsresolve.py`, which only replay recorded games.

## 9. Holdings: sends, sweeps and outputs

`Holdings.tla` models sends (`versions/send1.py`, `enhanced_send.py`, `mpma.py`), sweeps,
`attach.py`, `detach.py`, `move.py`, `gas.py`, and what `gettxinfo.py` looks up while it
lists a block. Rules of mainnet since block 871900. `ListTx` is a Bitcoin transaction that
is listed, `EndOfList` the end of that loop, `ParseTx` the parsing of one transaction in
the order of the list, `Restart` a new process between two blocks. An output is the
number of its transaction and its place. A burn (first destination `UNSPENDABLE`) is parsed by
`burn.parse`, which on mainnet only credits a list of the year 2014 (section 12), and
`parse_tx` returns before it looks at a message (`ReturnsEarly`).

Run `holdings`: 3 transactions over up to 3 blocks, 3 addresses and the one of burns,
20 forms of transaction (messages with outputs before, after and around the data, burns,
several OP_RETURNs), the first block from the fetcher and the others from notifications, fees
that grow with use.
Three transactions are enough to attach, spend and spend again, in one block or in
several. `TypeOK` includes that nothing is overdrawn (several sends of one message, a
sweep with its fee); `CacheCoversAttached` that a restarted node finds the same inputs;
`NothingIsLeftBehind` that what is attached moves with its output; `OnlyTheirOwn`
that a transaction takes from its source and its inputs only.

*Exceptions in `NothingIsLeftBehind`*, each reachable: (a) an output to which something
is attached and that is spent in the same block: the spending transaction was listed before
the attachment was parsed, and its assets stay on a spent output; (b) an attach or
detach that `parse_tx` returns from early moves nothing at all, neither before nor after:
because it has several destinations before its data (blocks.py:138), or because its
destination is `UNSPENDABLE` and it is a burn as well (blocks.py:142-144); (c) an OP_RETURN as first output is written as "" (gettxinfo.py:604), so
that an attach to vout 0 is accepted although release-notes-v10.7.0.md:23 says that it is
invalid; of several OP_RETURNs only the first is compared (`IsCompared`).

*Two lists of outputs.* The fetcher lists the outputs of a transaction only up to the first
that is change, or that it cannot parse (`Stops`; bitcoin_client.rs:434-451). A block that is
read with bitcoind's RPC or comes as a notification has all of them
(`deserialize.read_transaction`). What `get_utxos_info` writes down differs: the number of
outputs, and the first one that is no OP_RETURN. So an attach to an output behind the first
change is refused by a node that catches up and accepted by one that follows; and when an
OP_RETURN of another protocol comes first, the assets of the inputs go back to their owners
for the one (no other output is listed) and to the next output for the other. `FollowsFrom` says
which blocks come which way, in any split; the properties hold for each node by itself. No
text of the repository compares the two, so this is no finding of a run.

### Theorems (`HoldingsProofs.tla`)

For any addresses, assets, funds, forms of transaction, fees, chains of them, and blocks
delivered either way:

- `TypesAreKept`: `Spec => []TypeOK`, nothing overdrawn included
- `OnlyOwnIsTaken`: `Spec => OnlyTheirOwn`
- `AttachedAreCached`: `Spec => []CacheCoversAttached`
- `AttachedFollowTheirOutput`: `Spec => []NothingIsLeftBehind`

`Sound` is the common invariant: types, and what the listed transactions refer to (inputs that
are older and spent, a destination among their own outputs). Every way to parse a transaction
is reduced to its `Effect`: from whom it takes, to whom it gives, and that the outputs it
spends are emptied; that a message with several sends overdraws nothing is that the sum
of its transfers from a holder is covered. The cache is complete (`CacheOK`) because
every move and attach adds its destination and only outputs that were seen are read; nothing is
left behind because a spent output was not seen, or is still to be moved, or is empty and no
transaction that is still to be parsed can attach to it (`SpentOK`).

*Left out:* memos and the addresses that require one; `utxo.py` (message 100), which
mainnet disabled before it was used; the numbers behind `calculate_fee`, which are a table
by average count.

## 10. Coins: composing transactions

`Coins.tla` models `construct` (`lib/transaction.py`) with `transaction_inputs.py` and
`transaction_outputs.py`: threads of one API process choose the coins of transactions,
lock them in `UTXOLocks`, compute change and fee, and unlock them when the result does
not parse back. Each use of a cache (`ThreadSafeTTLCache`, `DictCache`) is a step of its own, since
each takes a lock of its own: `self.utxo_locks[source]` (`LockNext`, `UnlockNext`) and the
`.set` or `.pop` on what it returned (`SetLock`, `PopLock`) are two, and between them the
cache may be evicted or replaced. Everything between is interleaved. A transaction is its coins, its bill and how it ended
(`log`). Requests vary the encoding, named inputs, a UTXO as source, locks switched off, an
exact fee, unconfirmed coins.

Run `coins`: 2 threads, 3 compositions, 5 coins, 9 requests, room for the locks of one
address, locks that live one tick. Two threads and one more composition afterwards show a
lock lost by each of the ways below; symmetry is on the threads, the properties are not
temporal.

- `LocksKeepCoinsApart`: when a composition looks for the locks of its source, every coin
  that another composition has locked by then (returned or still on its way) is one it does
  not spend while that lock lasts, but for the UTXO that is its source. Excepted are coins
  whose lock was lost before it looked at them.
- `CoinsPayForIt`: coins = outputs + change + fee, the change is no dust, the fee is enough
  and no coin is superfluous.
- `RefusedOnlyIfPoor`: "insufficient" is said of the coins that `sort_unspent_txouts` leaves
  only when no choice of them would do: they come largest first and without dust, so the first
  ones are the best. Named inputs are neither sorted nor filtered
  (transaction_inputs.py:268-274): of them it says only that no first ones would do. One request
  names 1500 sat and then 9000 sat: the first costs more than it is worth, and together they
  leave too little, though the second alone would pay.

The fee is `int(size / 1000 * fee_per_kb)`, a product of floats. Where the exact product is an
integer the float may be just below it and a satoshi is lost; the constant `FallsShort` lists
such pairs, and the requests meet two of them (282 bytes at 25000 and at 26000).

*How locks get lost* (`lost`): the FIFO eviction of `DictCache` (util.py:500) drops the locks
of another address; two threads that both find no cache for a source each install one
(transaction_inputs.py:141); a cache that is evicted or replaced while a thread has got hold
of it takes that thread's lock with it (`SetLock`), or shows it locks nobody adds to any more
(`FilterNext`); a composition that fails unlocks its coins whoever locked
them (transaction.py:121), even when its request asked for no locks. Two compositions that
both look for locks before either has taken its own may choose the same coin, whatever the comment at transaction_inputs.py:122 says
of transactions "created at the same time". Each gunicorn worker is a process with locks
of its own (wsgi.py:170). A UTXO that is the source ignores locks. `exclude_utxos` is
ignored when locks are switched off. A multisig source goes on adding coins after the
funds were sufficient; its change may get negative, and `to_bytes` then raises with the
coins locked (`Overflow`).

*Left out:* serialization; the p2sh encoding, which is refused, with its locks; overrides of
dust sizes; more than a hundred named inputs and malformed ones; the race at the
construction of the singleton; the composition of each message, which repeats the
validation that its `parse` makes.

## 11. What is proved, what is checked

| | proved for all values (TLAPS) | model-checked on the instances above |
|---|---|---|
| `Blocks` | types, `RowsHaveTheirBlock`, `AssertionsHold`, `HandsOverAtTheTip`, `LinkedWithOneReorg` | the same, and liveness |
| `ApiWatcher` | types, `WholeUntilRollback`, `TablesAreReplayed`, `SuppliesAreTracked` | the same, and liveness |
| `Orders` | types, `PendingIsTimely`, `SettledOnce`, `DroppedForGood`, `MatchedOnce`, `Solvent`, `TradesAreFair`, `EveryStepConserves`, `BookIsNotCrossed` | the same, but `MatchedOnce` and `Solvent` |
| `Dispensers` | types, `OneLiveDispenser`, `NoWayBack`, `EscrowIsAccounted`, `StopsForAReason` | the same, but types |
| `Fairminters` (and `Assets`) | types, `MintEscrowIsCovered`, `HardCapUnlessMisled`, `MintingEnds`, `RightsAreKept` | the same, but types |
| `Bets` | types, `OddsAreKept`, `PendingIsUndecided`, `BookIsNotCrossed`, `WagerIsAccounted` | the same |
| `Holdings` | types, `OnlyTheirOwn`, `CacheCoversAttached`, `NothingIsLeftBehind` | the same |
| fetcher, `Coins` | – | all |

The theorems assume only the named assumptions of their modules on the constants (TLC
evaluates them in every run); the bounds (last block, number of transactions) are constants
like the others, so the theorems hold for histories of any length.

Sums over finite sets are computed with `SumFunctionOnSet` of the community modules.
`SumTheorems` proves what the conservation proofs use: a sum is over its elements in any order,
a change of one element changes it by the difference, disjoint parts add up, the sums of a table
by rows and by columns agree. The library's induction theorems take an operator as parameter,
which no installed prover can instantiate; `SumTheorems` does induction with a set
of subsets instead (`SubsetInduction`), from the well-foundedness of the strict subset relation.

Left to TLC: liveness and whatever rests on `ENABLED`; `Coins`; the fetcher
(`OrderInvariant`) and its refinement of `BlockStream` (`StreamSpec`), a pipeline of many
stages whose inductive invariant has not been worked out. It would have to say of every
channel, thread and heap which heights are in flight and on which branch, and that a block in
RocksDB that the index does not list is never replaced: it was written further below the
tip than a reorganization reaches. That is why an old entry, which `rollback_to_height`
leaves behind, does not mislead the producer after a second start at a lower height. The
instance of `fetch_stream` has no such entry: of four blocks, the first of which is never
fetched, all are written inside a window of 1. With five blocks there is one, and
`OrderInvariant` and `StreamSpec` hold there too (all states of two branches, one fetcher
thread, no failure: 850,000); random simulation of six (window 2, 3 reorganizations, 3 starts,
channels of 2) found no violation either. Neither is a run of the
project: with the threads, failures and liveness of `fetch_stream` they take too long.

## 12. Not modelled

- *Serialization and decoding of bytes* (`script.py`, `arc4.py`, `common_serializer.py`,
  `api/compose.py`, pack and unpack of messages): pure functions. The modules take decoded
  messages from small sets of those a parser can produce.
- *HTTP* (`api_server.py`, `api_v1.py`, `queries.py`, `routes.py`): reads.
- *Mempool* (`mempool.py`, the mempool half of `follow.py` and of `api_watcher.py`):
  unconfirmed transactions are parsed in a fake block inside one transaction that is always
  rolled back. What survives is one table that is replaced. `MEMPOOL_SKIP_EVENT_HASHES`
  is listed as a hazard.
- *Reparse and versions*: the deletion of all derived rows and `catch_up` over the stored
  blocks; the same steps as `rollback` and `catch_up` in `Blocks`.
- *Burns*: on mainnet one credit per row of a CSV file of 2014.
- *SQLite, RocksDB, bitcoind* are atomic transactions, a map, and a tip that moves; the
  connection pool is left out.
- *Configuration, logging, telemetry, wallet*: no protocol state.
- *Rules of earlier blocks* (`util.enabled`) and of test networks: each module names the
  block since which its rules hold.
- Two hazards of `order.py` and `btcpay.py` (section 5) end in an exception or a
  revival no text speaks of; they are described there.
