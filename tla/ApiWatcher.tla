------------------------------ MODULE ApiWatcher ------------------------------
(***************************************************************************)
(* The API watcher (lib/api/api_watcher.py): a thread of the API process   *)
(* that rebuilds a second database from the events that the ledger process *)
(* commits in its table `messages`, and undoes events when the ledger      *)
(* database has been rolled back.                                          *)
(*                                                                         *)
(* The two processes share only the ledger database.  Each SELECT of the   *)
(* watcher on it is a step of its own, and the ledger may commit or roll   *)
(* back a block between any two of them; parse_event and rollback_event    *)
(* are transactions of the API database.  The API process may be killed    *)
(* between any two steps.                                                  *)
(*                                                                         *)
(* An event hash covers the event and the hash before it, so the hash of   *)
(* the i-th event IS the sequence of the first i events.                   *)
(***************************************************************************)
EXTENDS Integers, Sequences, FiniteSets, FiniteSetsExt, SequencesExt

CONSTANTS
  Body,        \* what a block may hold between NEW_BLOCK and BLOCK_PARSED
  Address,     \* the addresses that have a balance
  MaxBlock,    \* bound: block_index of the highest block
  Base,        \* the ledger is never rolled back below block Base + 1
  MaxReorgs,   \* bound: how often the ledger is rolled back
  MaxRestarts  \* bound: how often the API process is killed and started again

ASSUME BoundsAssumption ==
  /\ {MaxBlock, Base, MaxReorgs, MaxRestarts} \subseteq Nat
  /\ IsFiniteSet(Address)

----------------------------------------------------------------------------
\* Events.  `object` is the id of the row an event is about; `quantity` and
\* `status` are what it writes there.

Category == [NEW_BLOCK         |-> "blocks",   BLOCK_PARSED      |-> "blocks",
             OPEN_ORDER        |-> "orders",   ORDER_UPDATE      |-> "orders",
             ORDER_EXPIRATION  |-> "order_expirations",
             CREDIT            |-> "credits",  DEBIT             |-> "debits",
             ASSET_CREATION    |-> "assets",   ASSET_ISSUANCE    |-> "issuances",
             ASSET_DESTRUCTION |-> "destructions",
             BURN              |-> "burns",    ASSET_DIVIDEND    |-> "dividends",
             NEW_TRANSACTION_OUTPUT |-> "transaction_outputs"]

UpdateEvents == {"BLOCK_PARSED", "ORDER_UPDATE"}        \* command: update, parse
SKIP_EVENTS == {"NEW_TRANSACTION_OUTPUT"}
InsertEvents == DOMAIN Category \ (UpdateEvents \union SKIP_EVENTS)
UniqueTables == {"blocks", "order_expirations", "assets"}
EventTables == {Category[e] : e \in InsertEvents}
EVENTS_ADDRESS_FIELDS ==
  {"OPEN_ORDER", "ORDER_EXPIRATION", "CREDIT", "DEBIT", "ASSET_ISSUANCE",
   "ASSET_DESTRUCTION", "BURN", "ASSET_DIVIDEND"}

Event(name, b, o, q, s) ==
  [event |-> name, block_index |-> b, object |-> o, quantity |-> q, status |-> s]

Status == {"new", "parsed", "open", "cancelled", "expired", "valid", "invalid"}
EventRecord == [event : DOMAIN Category, block_index : Nat, object : Nat,
                quantity : Nat, status : Status]

ASSUME BodyAssumption == Body \subseteq Seq(EventRecord) /\ Address \subseteq Nat

Null == "null"                                \* previous_state of an insert
NoCache == <<>>                               \* AssetCache before its first use

VARIABLES
  journal,      \* ledger database: table `messages`
  reorgs,       \* how often the ledger was rolled back
  api_db,       \* the API database
  AssetCache,   \* API process: the supply its AssetCache holds (<<supply>>), or NoCache
  pc,           \* where the watcher's thread is
  caller,       \* who called check_event_hashes: catch_up or parse_next_event
  restarts      \* how often the API process was started again

ledger == <<journal, reorgs>>
watcher == <<api_db, AssetCache, pc, caller>>
vars == <<journal, reorgs, api_db, AssetCache, pc, caller, restarts>>

EventHashBefore(i) == SubSeq(journal, 1, i - 1)
EventHash(i) == SubSeq(journal, 1, i)

----------------------------------------------------------------------------
\* The API database: `messages`, a table for each category (rowid to row), and
\* the tables that are computed from events.

EmptyDb ==
  [messages |-> <<>>,
   tables |-> [t \in EventTables |-> <<>>],
   balances |-> [a \in Address |-> 0],
   all_expirations |-> {},
   supply |-> 0,                              \* assets_info: the one asset; 0 if no row
   xcp_supply |-> 0,                          \* assets_info, XCP: of an empty ledger
   address_events |-> {}]

Row(e) == [object |-> e.object, quantity |-> e.quantity, status |-> e.status]
NextRowid(t) == IF DOMAIN t = {} THEN 1 ELSE Max(DOMAIN t) + 1
Total(f) == SumFunctionOnSet(f, DOMAIN f)
SumOf(t) ==
  Total([r \in DOMAIN t |-> IF t[r].status = "valid" THEN t[r].quantity ELSE 0])

\* insert_event_to_sql, update_event_to_sql: the statement of an event.
ExecuteEvent(tables, e) ==
  LET t == Category[e.event] IN
  IF e.event \in UpdateEvents
  THEN [tables EXCEPT ![t] =
          [r \in DOMAIN @ |-> IF @[r].object = e.object
                              THEN [@[r] EXCEPT !.status = e.status] ELSE @[r]]]
  ELSE [tables EXCEPT ![t] =
          [r \in DOMAIN @ \union {NextRowid(@)} |->
             IF r \in DOMAIN @ THEN @[r] ELSE Row(e)]]

ConstraintError(tables, e) ==
  /\ e.event \in InsertEvents
  /\ Category[e.event] \in UniqueTables
  /\ \E r \in DOMAIN tables[Category[e.event]] :
       tables[Category[e.event]][r].object = e.object

\* The row of assets_info comes and goes with the row of assets.
HasAsset(tables) == DOMAIN tables["assets"] # {}

BalanceChange(e) == CASE e.event = "CREDIT" -> e.quantity
                      [] e.event = "DEBIT"  -> 0 - e.quantity
                      [] OTHER              -> 0
RevertedBalance(e) == 0 - BalanceChange(e)
SupplyChange(e) == CASE e.event = "ASSET_ISSUANCE" /\ e.status = "valid"    -> e.quantity
                     [] e.event = "ASSET_DESTRUCTION" /\ e.status = "valid" -> 0 - e.quantity
                     [] OTHER                                               -> 0
XcpSupplyChange(e) == CASE e.event = "BURN" /\ e.status = "valid" -> e.quantity
                        [] e.event = "ASSET_DIVIDEND"             -> 0 - e.quantity
                        [] OTHER                                  -> 0

UpdateBalances(balances, e, change) ==
  [a \in Address |-> balances[a] + (IF a = e.object THEN change ELSE 0)]
Expiration(e) == IF e.event = "ORDER_EXPIRATION" THEN {<<e.object, e.block_index>>} ELSE {}

\* get_event_previous_state, which parse_event calls when the event has been
\* executed: the first row the event is about, as it then is.
PreviousState(tables, e) ==
  LET t == tables[Category[e.event]]
      about == {r \in DOMAIN t : t[r].object = e.object}
  IN IF e.event \in UpdateEvents /\ about # {} THEN t[Min(about)].status ELSE Null

\* What the transaction of parse_event leaves in the database.
ParseEvent(db, e, hash) ==
  LET i == Len(db.messages) + 1
      executed == ExecuteEvent(db.tables, e)
      message == [event |-> e, event_hash |-> hash,
                  previous_state |-> PreviousState(executed, e),
                  insert_rowid |-> IF e.event \in InsertEvents
                                   THEN NextRowid(db.tables[Category[e.event]]) ELSE 0]
  IN IF e.event \in SKIP_EVENTS
     THEN [db EXCEPT !.messages = Append(@, [event |-> e, event_hash |-> hash,
                                   previous_state |-> Null, insert_rowid |-> 0])]
     ELSE [messages |-> Append(db.messages, message),
           tables |-> executed,
           balances |-> UpdateBalances(db.balances, e, BalanceChange(e)),
           all_expirations |-> db.all_expirations \union Expiration(e),
           supply |-> IF HasAsset(db.tables) THEN db.supply + SupplyChange(e) ELSE 0,
           xcp_supply |-> db.xcp_supply + XcpSupplyChange(e),
           address_events |-> db.address_events \union
              (IF e.event \in EVENTS_ADDRESS_FIELDS THEN {i} ELSE {})]

\* The row statement of rollback_event: an insert deletes its row by rowid, an
\* update writes previous_state back to the rows it was about.
UndoStatementByObject(tables, m) ==
  LET t == Category[m.event.event] IN
  IF m.previous_state = Null
  THEN [tables EXCEPT ![t] =
          [r \in {r \in DOMAIN @ : @[r].object # m.event.object} |-> @[r]]]
  ELSE ExecuteEvent(tables, [m.event EXCEPT !.status = m.previous_state])
UndoStatement(tables, m) ==
  LET t == Category[m.event.event] IN
  IF m.previous_state = Null
  THEN [tables EXCEPT ![t] = [r \in DOMAIN @ \ {m.insert_rowid} |-> @[r]]]
  ELSE ExecuteEvent(tables, [m.event EXCEPT !.status = m.previous_state])

\* rollback_event raises when there is no row to delete.
CannotUndo(db, m) ==
  /\ m.event.event \notin SKIP_EVENTS
  /\ m.previous_state = Null
  /\ m.insert_rowid \notin DOMAIN db.tables[Category[m.event.event]]

\* ledger.asset_supply(api_db, asset), by the AssetCache of the API process.
CachedSupply(tables) ==
  IF AssetCache = NoCache
  THEN SumOf(tables["issuances"]) - SumOf(tables["destructions"]) ELSE AssetCache[1]

SupplyNotRestored(supply, tables, e) ==
  IF e.event = "ASSET_ISSUANCE" THEN CachedSupply(tables) ELSE supply
\* rollback_assets_info: an issuance is not subtracted, the supply is refreshed.
SupplyUndone(supply, tables, e) ==
  CASE ~ HasAsset(tables) -> 0
    [] HasAsset(tables) /\ e.event = "ASSET_ISSUANCE" ->
         IF e.status = "valid" /\ DOMAIN tables["issuances"] # {}
         THEN CachedSupply(tables) ELSE supply
    [] HasAsset(tables) /\ e.event # "ASSET_ISSUANCE" -> supply - SupplyChange(e)

\* What the transaction of rollback_event leaves in the database.
UndoEvent(db, m) ==
  LET e == m.event
      undone == UndoStatement(db.tables, m)
  IN IF e.event \in SKIP_EVENTS THEN [db EXCEPT !.messages = Front(@)]
     ELSE [messages |-> Front(db.messages),
           tables |-> undone,
           balances |-> UpdateBalances(db.balances, e, RevertedBalance(e)),
           all_expirations |-> db.all_expirations \ Expiration(e),
           supply |-> SupplyUndone(db.supply, undone, e),
           xcp_supply |-> db.xcp_supply - XcpSupplyChange(e),
           address_events |-> db.address_events \ {Len(db.messages)}]

----------------------------------------------------------------------------
\* The ledger process, as the watcher sees it: the events of a block, or of the
\* blocks of a rollback, appear and disappear in one transaction.

LastBlock == IF journal = <<>> THEN 0 ELSE Last(journal).block_index

\* What the ledger's own rules let a journal hold.
Opened(j, o) == \E k \in DOMAIN j : j[k].event = "OPEN_ORDER" /\ j[k].object = o
Expired(j, o) == \E k \in DOMAIN j : j[k].event = "ORDER_EXPIRATION" /\ j[k].object = o
Possible(j, e) ==
  CASE e.event = "OPEN_ORDER" -> ~ Opened(j, e.object)
    [] e.event \in {"ORDER_UPDATE", "ORDER_EXPIRATION"} ->
         Opened(j, e.object) /\ ~ Expired(j, e.object)
    [] e.event = "ASSET_CREATION" -> \A k \in DOMAIN j : j[k].event # "ASSET_CREATION"
    [] e.event \in {"ASSET_ISSUANCE", "ASSET_DESTRUCTION"} ->
         \E k \in DOMAIN j : j[k].event = "ASSET_CREATION"
    [] e.event = "DEBIT" ->
         Total([k \in DOMAIN j |-> IF j[k].object = e.object THEN BalanceChange(j[k]) ELSE 0])
           >= e.quantity
    [] OTHER -> TRUE

BlockEvents(b, hash, body) ==
  <<Event("NEW_BLOCK", b, b, hash, "new")>>
    \o [i \in DOMAIN body |-> [body[i] EXCEPT !.block_index = b]]
    \o <<Event("BLOCK_PARSED", b, b, hash, "parsed")>>

\* A block is parsed: one of a new branch, or (`hash` is an old one) the same
\* block once more after a rollback or a reparse.
CommitBlock ==
  /\ LastBlock < MaxBlock
  /\ \E body \in Body, hash \in 0..reorgs :
       LET events == BlockEvents(LastBlock + 1, hash, body) IN
       /\ \A i \in DOMAIN events : Possible(journal \o SubSeq(events, 1, i - 1), events[i])
       /\ journal' = journal \o events
  /\ UNCHANGED <<reorgs, watcher, restarts>>

\* blocks.rollback deletes the messages of the orphaned blocks, which are the last
\* ones: events are journalled in the order of their blocks.
RollbackLedger ==
  /\ reorgs < MaxReorgs
  /\ \E b \in Base + 1 .. LastBlock :
       journal' = SubSeq(journal, 1,
                         Cardinality({i \in DOMAIN journal : journal[i].block_index < b}))
  /\ reorgs' = reorgs + 1
  /\ UNCHANGED <<watcher, restarts>>

----------------------------------------------------------------------------
\* The watcher.

Die == /\ pc' = "dead"                        \* an exception ends the thread
       /\ UNCHANGED <<api_db, AssetCache, caller>>

AfterCheck == IF caller = "catch_up" THEN "count" ELSE "peek"
LastMessage == Last(api_db.messages)

\* rollback_event, and get_last_event on what it leaves: None has no
\* "message_index".
RollbackEvent(then) ==
  IF CannotUndo(api_db, LastMessage) THEN Die
  ELSE LET after == UndoEvent(api_db, LastMessage) IN
       /\ api_db' = after
       /\ AssetCache' = IF /\ LastMessage.event.event = "ASSET_ISSUANCE"
                           /\ LastMessage.event.status = "valid"
                           /\ DOMAIN after.tables["issuances"] # {}
                        THEN <<CachedSupply(after.tables)>> ELSE AssetCache
       /\ pc' = IF after.messages = <<>> THEN "dead" ELSE then
       /\ UNCHANGED caller

NextIndexSkipping == Len(api_db.messages) + 2
NextIndex == Len(api_db.messages) + 1
LedgerHas == Len(api_db.messages) \in DOMAIN journal
SameEvent == journal[Len(api_db.messages)] = LastMessage.event
SameHash == EventHash(Len(api_db.messages)) = LastMessage.event_hash

\* check_event_hashes on an empty API database.
NothingToCheck ==
  /\ pc = "missing" /\ api_db.messages = <<>>
  /\ pc' = AfterCheck
  /\ UNCHANGED <<ledger, api_db, AssetCache, caller, restarts>>

\* check_event_hashes, first loop: the ledger has no event at this index.
UndoMissing ==
  /\ pc = "missing" /\ api_db.messages # <<>> /\ ~ LedgerHas
  /\ RollbackEvent("missing")
  /\ UNCHANGED <<ledger, restarts>>

\* check_event_hashes, second loop: the ledger has another event there.
UndoDivergent ==
  /\ pc \in {"missing", "compare"} /\ api_db.messages # <<>>
  /\ LedgerHas /\ ~ SameHash
  /\ RollbackEvent("compare")
  /\ UNCHANGED <<ledger, restarts>>

\* The loops end: the hashes agree, or the second loop finds no ledger event.
CheckDone ==
  /\ pc \in {"missing", "compare"} /\ api_db.messages # <<>>
  /\ \/ LedgerHas /\ SameHash
     \/ ~ LedgerHas /\ pc = "compare"
  /\ pc' = AfterCheck
  /\ UNCHANGED <<ledger, api_db, AssetCache, caller, restarts>>

\* catch_up: get_event_to_parse_count.
CountEvents ==
  /\ pc = "count"
  /\ pc' = IF Len(journal) > Len(api_db.messages) THEN "next" ELSE "refresh"
  /\ UNCHANGED <<ledger, api_db, AssetCache, caller, restarts>>

\* parse_event: the whole transaction, or an exception and nothing.
Parse(e, then) ==
  IF ConstraintError(api_db.tables, e) THEN Die
  ELSE /\ api_db' = ParseEvent(api_db, e, EventHash(NextIndex))
       /\ pc' = then
       /\ UNCHANGED <<AssetCache, caller>>

\* catch_up: one turn of its loop; no hash is checked any more.
CatchUpEvent ==
  /\ pc = "next"
  /\ IF NextIndex \in DOMAIN journal
     THEN Parse(journal[NextIndex], "next")
     ELSE pc' = "refresh" /\ UNCHANGED <<api_db, AssetCache, caller>>
  /\ UNCHANGED <<ledger, restarts>>

\* follow: refresh_xcp_supply reads the ledger's supply, then the loop begins.  The
\* SELECTs that xcp_supply() makes, one per table, are one step here.
RefreshXcpSupply ==
  /\ pc = "refresh"
  /\ api_db' = [api_db EXCEPT !.xcp_supply =
                  Total([i \in DOMAIN journal |-> XcpSupplyChange(journal[i])])]
  /\ pc' = "missing" /\ caller' = "follow"
  /\ UNCHANGED <<ledger, AssetCache, restarts>>

\* parse_next_event: is the ledger ahead?  If not, NoEventToParse.
PeekLedger ==
  /\ pc = "peek"
  /\ pc' = IF Len(journal) > Len(api_db.messages) THEN "fetch" ELSE "missing"
  /\ UNCHANGED <<ledger, api_db, AssetCache, caller, restarts>>

\* parse_next_event: the event itself, by a second SELECT.
ParseNextEvent ==
  /\ pc = "fetch"
  /\ IF NextIndex \in DOMAIN journal
     THEN Parse(journal[NextIndex], "missing")
     ELSE Die                                 \* parse_event(None)
  /\ UNCHANGED <<ledger, restarts>>

\* The API process ends, or is killed, and is started again.
Restart ==
  /\ restarts < MaxRestarts
  /\ restarts' = restarts + 1
  /\ pc' = "missing" /\ caller' = "catch_up"
  /\ AssetCache' = NoCache
  /\ UNCHANGED <<ledger, api_db>>

Init ==
  /\ journal = <<>> /\ reorgs = 0
  /\ api_db = EmptyDb
  /\ AssetCache = NoCache
  /\ pc = "missing" /\ caller = "catch_up"
  /\ restarts = 0

Watch ==
  \/ NothingToCheck \/ UndoMissing \/ UndoDivergent \/ CheckDone
  \/ CountEvents \/ CatchUpEvent \/ RefreshXcpSupply \/ PeekLedger \/ ParseNextEvent

Next == Watch \/ CommitBlock \/ RollbackLedger \/ Restart

Spec == Init /\ [][Next]_vars

\* The thread keeps running; nothing is assumed of the ledger or of restarts.
FairSpec == Spec /\ WF_vars(Watch)

----------------------------------------------------------------------------
\* What the API database ought to hold: what the events in its own messages say,
\* each parsed once and in their order.

Inserts(t) == {i \in DOMAIN api_db.messages :
  LET e == api_db.messages[i].event IN e.event \in InsertEvents /\ Category[e.event] = t}
About(t, o) == {i \in DOMAIN api_db.messages :
  LET e == api_db.messages[i].event IN Category[e.event] = t /\ e.object = o}
Created == {i \in DOMAIN api_db.messages :
  api_db.messages[i].event.event = "ASSET_CREATION"}

TableRow == [object : Nat, quantity : Nat, status : Status]
Message == [event : EventRecord, event_hash : Seq(EventRecord),
            previous_state : Status \union {Null}, insert_rowid : Nat]
ApiDb == [messages : Seq(Message), tables : [EventTables -> Seq(TableRow)],
          balances : [Address -> Int], all_expirations : SUBSET (Nat \X Nat),
          supply : Int, xcp_supply : Int, address_events : SUBSET Nat]

TypeOK ==
  /\ journal \in Seq(EventRecord)
  /\ api_db \in ApiDb
  /\ \A i \in DOMAIN api_db.messages :
       LET m == api_db.messages[i] IN
       /\ m.event_hash # <<>> /\ Last(m.event_hash) = m.event
       /\ m.insert_rowid > 0 <=> m.event.event \in InsertEvents
  /\ AssetCache \in Seq(Int) /\ Len(AssetCache) <= 1
  /\ pc \in {"missing", "compare", "count", "next", "refresh", "peek", "fetch", "dead"}
  /\ caller \in {"catch_up", "follow"}
  /\ reorgs \in 0..MaxReorgs /\ restarts \in 0..MaxRestarts

\* The rows of a table are those of the inserts in the messages, one for each, in their
\* order and at the rowid that the message recorded.
TableIsReplayed(t) ==
  /\ DOMAIN api_db.tables[t] = 1..Cardinality(Inserts(t))
  /\ DOMAIN api_db.tables[t] = {api_db.messages[i].insert_rowid : i \in Inserts(t)}
  /\ \A i \in Inserts(t) :
       api_db.tables[t][api_db.messages[i].insert_rowid].object
         = api_db.messages[i].event.object
  /\ \A i, j \in Inserts(t) :
       i < j => api_db.messages[i].insert_rowid < api_db.messages[j].insert_rowid

\* Whatever was undone and parsed again, the rows of every table, and the rows
\* computed from expirations and addresses, are those of the messages that are
\* left: an event's rows never outlive it, and undoing one event never takes
\* the row of another (rollback_event deletes by rowid).
RowsAreReplayed ==
  /\ \A t \in EventTables : TableIsReplayed(t)
  /\ api_db.all_expirations =
       UNION {Expiration(api_db.messages[i].event) : i \in DOMAIN api_db.messages}
  /\ api_db.address_events =
       {i \in DOMAIN api_db.messages :
          api_db.messages[i].event.event \in EVENTS_ADDRESS_FIELDS}

\* The balances, which parse_event adds to and rollback_event subtracts from,
\* are the sum of the credits and debits that are in the messages.
BalancesAreReplayed ==
  \A a \in Address :
    api_db.balances[a] =
      Total([i \in DOMAIN api_db.messages |->
               LET e == api_db.messages[i].event IN
               IF e.object = a THEN BalanceChange(e) ELSE 0])

\* Every table, whatever it is computed with, is that of the messages that are left.
TablesAreReplayed == RowsAreReplayed /\ BalancesAreReplayed

\* The rows that events have updated hold what the last event that is left
\* wrote: undoing an update restores the row.
StatesAreReplayed ==
  \A t \in {Category[u] : u \in UpdateEvents} : \A r \in DOMAIN api_db.tables[t] :
    api_db.tables[t][r].status =
      api_db.messages[Max(About(t, api_db.tables[t][r].object))].event.status

\* The two supplies in assets_info, which are not computed from rows but added
\* to and subtracted from: parsing and undoing an event change them by what they
\* change the sum over the messages (for the asset, over those that follow its
\* creation: before it there is no row to add to).  The steps that write a supply read
\* elsewhere are the exceptions: refresh_xcp_supply, and undoing an issuance.
XcpSupplyDrift == api_db.xcp_supply -
  Total([i \in DOMAIN api_db.messages |-> XcpSupplyChange(api_db.messages[i].event)])
SupplyDrift == api_db.supply -
  Total([i \in DOMAIN api_db.messages |->
           IF \E c \in Created : c < i THEN SupplyChange(api_db.messages[i].event) ELSE 0])
UndoesIssuance ==
  /\ Len(api_db'.messages) < Len(api_db.messages)
  /\ LastMessage.event.event \in {"ASSET_CREATION", "ASSET_ISSUANCE"}
SuppliesAreTracked ==
  [][UNCHANGED api_db
     \/ /\ pc = "refresh" \/ XcpSupplyDrift' = XcpSupplyDrift
        /\ UndoesIssuance \/ SupplyDrift' = SupplyDrift]_vars

\* The hash chain of the API database is unbroken: each event was hashed on the
\* events that stand before it, so it is a history the ledger has had.
Events == [i \in DOMAIN api_db.messages |-> api_db.messages[i].event]
ChainIsWhole == \A i \in DOMAIN api_db.messages :
                  api_db.messages[i].event_hash = SubSeq(Events, 1, i)

\* The same until the ledger is rolled back for the first time: catch_up, which
\* compares no hash in its loop, and parse_next_event neither skip nor repeat an
\* event, wherever the API process is killed.
WholeUntilRollback == reorgs = 0 => ChainIsWhole

\* When the ledger comes to rest the watcher ends on the ledger's last event,
\* unless its thread has died.
InStep == journal # <<>> => /\ Len(api_db.messages) = Len(journal)
                            /\ LastMessage.event_hash = journal
LastEventAgrees == <>[](pc = "dead" \/ InStep)
=============================================================================
