--------------------------- MODULE ApiWatcherProofs ---------------------------
(***************************************************************************)
(* What the API watcher guarantees, for any blocks, any number of them, of *)
(* rollbacks of the ledger and of restarts of the API process at any point.*)
(*                                                                         *)
(* Until the ledger is rolled back its messages are a prefix of the        *)
(* ledger's.  ChainIsWhole alone is not inductive: that the next event     *)
(* extends the chain depends on the events so far being the ledger's.  The *)
(* invariant IInv says so, and that the ledger is at least as long,        *)
(* without which the check of the hashes would undo events.                *)
(*                                                                         *)
(* Whatever is rolled back, the tables are what the messages that are left *)
(* say (ReplayInv): an insert that is undone is the last of its table, so  *)
(* its rowid is the highest; an order expires once, so undoing one         *)
(* expiration takes no other; only an update has a state to restore; and   *)
(* without an asset there is no supply.                                    *)
(***************************************************************************)
EXTENDS ApiWatcher, SumTheorems, SequenceTheorems, TLAPS

\* A message of the API database, whatever its rowid is.
IsMessage(m, i) == m.event = journal[i] /\ m.event_hash = SubSeq(journal, 1, i)
IsASequence(s) == s \in Seq({s[i] : i \in DOMAIN s})

Agrees ==
  /\ journal \in Seq(EventRecord)
  /\ "messages" \in DOMAIN api_db
  /\ IsASequence(api_db.messages)
  /\ Len(api_db.messages) <= Len(journal)
  /\ \A i \in 1..Len(api_db.messages) : IsMessage(api_db.messages[i], i)
  /\ reorgs \in Nat

IInv == reorgs \in Nat /\ (reorgs = 0 => Agrees)

----------------------------------------------------------------------------
\* Sequences of anything.
LEMMA AppendIsASequence ==
  ASSUME NEW s, IsASequence(s), NEW e
  PROVE  /\ IsASequence(Append(s, e))
         /\ Len(s) \in Nat
         /\ Len(Append(s, e)) = Len(s) + 1
         /\ \A i \in 1..Len(s) : Append(s, e)[i] = s[i]
         /\ Append(s, e)[Len(s) + 1] = e
<1> DEFINE R == {s[i] : i \in DOMAIN s}
           S == R \union {e}
           a == Append(s, e)
<1>1. s \in Seq(R)
  BY DEF IsASequence
<1>2. s \in [1..Len(s) -> R] /\ Len(s) \in Nat
  BY <1>1, LenProperties
<1>3. s \in Seq(S)
  BY <1>2
<1>4. /\ a \in Seq(S) /\ Len(a) = Len(s) + 1
      /\ \A i \in 1..Len(s) : a[i] = s[i]
      /\ a[Len(s) + 1] = e
  BY <1>3, AppendProperties
<1>5. a \in [1..Len(a) -> {a[i] : i \in DOMAIN a}] /\ Len(a) \in Nat
  BY <1>4, LenProperties
<1>6. IsASequence(a)
  BY <1>5 DEF IsASequence
<1> QED
  BY <1>2, <1>4, <1>6

\* The events of a block are well formed.
LEMMA EventsAreRecords ==
  ASSUME NEW b \in Nat, NEW h \in Nat, NEW body \in Body
  PROVE  BlockEvents(b, h, body) \in Seq(EventRecord)
<1>1. body \in Seq(EventRecord)
  BY BodyAssumption
<1>2. [i \in DOMAIN body |-> [body[i] EXCEPT !.block_index = b]] \in Seq(EventRecord)
  <2>1. body \in [1..Len(body) -> EventRecord] /\ Len(body) \in Nat /\ DOMAIN body = 1..Len(body)
    BY <1>1, LenProperties
  <2>2. \A i \in 1..Len(body) : [body[i] EXCEPT !.block_index = b] \in EventRecord
    BY <2>1 DEF EventRecord
  <2> QED
    BY <2>1, <2>2
<1>3. /\ <<Event("NEW_BLOCK", b, b, h, "new")>> \in Seq(EventRecord)
      /\ <<Event("BLOCK_PARSED", b, b, h, "parsed")>> \in Seq(EventRecord)
  <2>1. {"NEW_BLOCK", "BLOCK_PARSED"} \subseteq DOMAIN Category
    BY DEF Category
  <2>2. /\ Event("NEW_BLOCK", b, b, h, "new") \in EventRecord
        /\ Event("BLOCK_PARSED", b, b, h, "parsed") \in EventRecord
    <3>1. ASSUME NEW n \in DOMAIN Category, NEW s \in Status
          PROVE  Event(n, b, b, h, s) \in EventRecord
      BY DEF Event, EventRecord
    <3>2. "new" \in Status /\ "parsed" \in Status
      BY DEF Status
    <3> QED
      BY <2>1, <3>1, <3>2
  <2> QED
    BY <2>2
<1> DEFINE first == <<Event("NEW_BLOCK", b, b, h, "new")>>
           middle == [i \in DOMAIN body |-> [body[i] EXCEPT !.block_index = b]]
           last == <<Event("BLOCK_PARSED", b, b, h, "parsed")>>
<1>4. /\ first \in Seq(EventRecord)
      /\ middle \in Seq(EventRecord)
      /\ last \in Seq(EventRecord)
  <2>1. first \in Seq(EventRecord)
    BY <1>3
  <2>2. middle \in Seq(EventRecord)
    BY <1>2
  <2>3. last \in Seq(EventRecord)
    BY <1>3
  <2> HIDE DEF first, middle, last
  <2> QED
    BY <2>1, <2>2, <2>3
<1>5. BlockEvents(b, h, body) = first \o middle \o last
  BY DEF BlockEvents
<1> HIDE DEF first, middle, last
<1> QED
  BY <1>4, <1>5, ConcatProperties

\* What a prefix of the journal is does not change when events are appended.
LEMMA PrefixOfLonger ==
  ASSUME NEW j \in Seq(EventRecord), NEW more \in Seq(EventRecord), NEW i \in 1..Len(j)
  PROVE  (j \o more)[i] = j[i] /\ SubSeq(j \o more, 1, i) = SubSeq(j, 1, i)
<1>1. /\ Len(j) \in Nat /\ Len(more) \in Nat
      /\ \A k \in 1..Len(j) : (j \o more)[k] = j[k]
  BY ConcatProperties, LenProperties
<1>2. \A k \in 1..i : k \in 1..Len(j)
  BY <1>1
<1> QED
  BY <1>1, <1>2

----------------------------------------------------------------------------
\* The initial state.
LEMMA InitAgrees == Init => Agrees
<1> SUFFICES ASSUME Init PROVE Agrees
  OBVIOUS
<1>1. journal = <<>> /\ api_db.messages = <<>> /\ "messages" \in DOMAIN api_db /\ reorgs = 0
  BY DEF Init, EmptyDb
<1> QED
  BY <1>1 DEF Agrees, IsASequence

\* The check finds every event of the API database in the ledger.
LEMMA AgreesWhileChecked ==
  ASSUME Agrees, api_db.messages # <<>>
  PROVE  LedgerHas /\ SameHash
<1> DEFINE n == Len(api_db.messages)
<1>1. n \in Nat /\ n # 0 /\ api_db.messages[n] = Last(api_db.messages)
  BY LenProperties, EmptySeq DEF Agrees, IsASequence, Last
<1>2. n \in 1..Len(journal) /\ DOMAIN journal = 1..Len(journal)
  BY <1>1, LenProperties DEF Agrees
<1>3. IsMessage(api_db.messages[n], n)
  BY <1>1 DEF Agrees
<1> QED
  BY <1>1, <1>2, <1>3 DEF LedgerHas, SameHash, LastMessage, EventHash, IsMessage

\* parse_event appends one message, whatever else it does.
LEMMA ParseAppends ==
  ASSUME NEW db, NEW e, NEW h
  PROVE  /\ "messages" \in DOMAIN ParseEvent(db, e, h) \/ e.event \in SKIP_EVENTS
         /\ e.event \notin SKIP_EVENTS =>
              \E m : /\ ParseEvent(db, e, h).messages = Append(db.messages, m)
                     /\ m.event = e /\ m.event_hash = h
         /\ "messages" \in DOMAIN db /\ e.event \in SKIP_EVENTS =>
              /\ "messages" \in DOMAIN ParseEvent(db, e, h)
              /\ \E m : /\ ParseEvent(db, e, h).messages = Append(db.messages, m)
                        /\ m.event = e /\ m.event_hash = h
BY DEF ParseEvent

----------------------------------------------------------------------------
\* A step that parses the next event, or kills the thread.
LEMMA ParseKeeps ==
  ASSUME Agrees, NextIndex \in DOMAIN journal, NEW then, Parse(journal[NextIndex], then),
         UNCHANGED ledger
  PROVE  Agrees'
<1> DEFINE n == Len(api_db.messages)
           e == journal[NextIndex]
<1>1. CASE ConstraintError(api_db.tables, e)
  BY <1>1 DEF Parse, Die, Agrees, IsMessage, IsASequence, ledger
<1>2. CASE ~ ConstraintError(api_db.tables, e)
  <2>1. api_db' = ParseEvent(api_db, e, EventHash(NextIndex))
    BY <1>2 DEF Parse
  <2>2. PICK m : /\ api_db'.messages = Append(api_db.messages, m)
                 /\ m.event = e /\ m.event_hash = EventHash(NextIndex)
    BY <2>1, ParseAppends DEF Agrees
  <2>3. "messages" \in DOMAIN api_db'
    BY <2>1, ParseAppends DEF Agrees
  <2>4. /\ n \in Nat
        /\ NextIndex \in 1..Len(journal) /\ NextIndex = n + 1
    BY LenProperties, AppendIsASequence DEF Agrees, NextIndex
  <2>5. /\ IsASequence(api_db'.messages)
        /\ Len(api_db'.messages) = n + 1
        /\ \A i \in 1..n : api_db'.messages[i] = api_db.messages[i]
        /\ api_db'.messages[n + 1] = m
    BY <2>2, AppendIsASequence DEF Agrees
  <2>6. journal' = journal /\ reorgs' = reorgs
    BY DEF ledger
  <2>7. ASSUME NEW i \in 1..Len(api_db'.messages)
        PROVE  IsMessage(api_db.messages[i], i)'
    <3>1. CASE i = n + 1
      BY <3>1, <2>2, <2>4, <2>5, <2>6 DEF IsMessage, EventHash
    <3>2. CASE i # n + 1
      <4>1. i \in 1..n
        BY <3>2, <2>4, <2>5
      <4> QED
        BY <4>1, <2>5, <2>6 DEF Agrees, IsMessage
    <3> QED
      BY <3>1, <3>2
  <2> QED
    BY <2>3, <2>4, <2>5, <2>6, <2>7 DEF Agrees, IsASequence
<1> QED
  BY <1>1, <1>2

\* The block the journal ends with.
LEMMA LastBlockIsNat ==
  ASSUME journal \in Seq(EventRecord)
  PROVE  LastBlock \in Nat
<1>1. CASE journal = <<>>
  BY <1>1 DEF LastBlock
<1>2. CASE journal # <<>>
  <2>1. Last(journal) \in EventRecord
    BY <1>2, EmptySeq, LenProperties DEF Last
  <2> QED
    BY <2>1, <1>2 DEF LastBlock, EventRecord
<1> QED
  BY <1>1, <1>2

\* The ledger grows.
LEMMA CommitBlockKeeps ==
  ASSUME Agrees, CommitBlock
  PROVE  Agrees'
<1>1. PICK body \in Body, hash \in 0..reorgs :
        journal' = journal \o BlockEvents(LastBlock + 1, hash, body)
  BY DEF CommitBlock
<1> DEFINE more == BlockEvents(LastBlock + 1, hash, body)
<1>2. LastBlock \in Nat
  BY LastBlockIsNat DEF Agrees
<1>3. more \in Seq(EventRecord)
  BY <1>2, EventsAreRecords DEF Agrees
<1> HIDE DEF more
<1>4. journal' = journal \o more /\ api_db' = api_db /\ reorgs' = reorgs
  BY <1>1 DEF CommitBlock, watcher, more
<1>5. /\ journal' \in Seq(EventRecord)
      /\ Len(journal') = Len(journal) + Len(more)
      /\ Len(journal) \in Nat /\ Len(more) \in Nat
  BY <1>3, <1>4, ConcatProperties, LenProperties DEF Agrees
<1>6. Len(api_db.messages) \in Nat
  BY AppendIsASequence DEF Agrees
<1>7. ASSUME NEW i \in 1..Len(api_db'.messages)
      PROVE  IsMessage(api_db.messages[i], i)'
  <2>1. i \in 1..Len(journal) /\ i \in 1..Len(api_db.messages)
    BY <1>4, <1>5, <1>6 DEF Agrees
  <2>2. IsMessage(api_db.messages[i], i)
    BY <2>1 DEF Agrees
  <2> QED
    BY <1>3, <1>4, <2>1, <2>2, PrefixOfLonger DEF Agrees, IsMessage
<1> QED
  BY <1>4, <1>5, <1>6, <1>7 DEF Agrees, IsASequence

\* Steps that leave both sequences of messages alone.
LEMMA OtherStepsKeep ==
  ASSUME Agrees, UNCHANGED ledger, "messages" \in DOMAIN api_db',
         api_db'.messages = api_db.messages
  PROVE  Agrees'
BY DEF Agrees, IsMessage, IsASequence, ledger

\* Every step of the system, before the first rollback.
LEMMA NextKeeps ==
  ASSUME Agrees, reorgs = 0, [Next]_vars
  PROVE  IInv'
<1>1. ASSUME NothingToCheck PROVE Agrees'
  BY <1>1, OtherStepsKeep DEF NothingToCheck, Agrees
<1>2. ASSUME UndoMissing PROVE IInv'
  BY <1>2, AgreesWhileChecked DEF UndoMissing
<1>3. ASSUME UndoDivergent PROVE IInv'
  BY <1>3, AgreesWhileChecked DEF UndoDivergent
<1>4. ASSUME CheckDone PROVE Agrees'
  BY <1>4, OtherStepsKeep DEF CheckDone, Agrees
<1>5. ASSUME CountEvents PROVE Agrees'
  BY <1>5, OtherStepsKeep DEF CountEvents, Agrees
<1>6. ASSUME CatchUpEvent PROVE Agrees'
  <2>1. UNCHANGED ledger
    BY <1>6 DEF CatchUpEvent
  <2>2. CASE NextIndex \in DOMAIN journal
    <3>1. Parse(journal[NextIndex], "next")
      BY <1>6, <2>2 DEF CatchUpEvent
    <3> QED
      BY <2>1, <2>2, <3>1, ParseKeeps
  <2>3. CASE NextIndex \notin DOMAIN journal
    BY <1>6, <2>1, <2>3, OtherStepsKeep DEF CatchUpEvent, Agrees
  <2> QED
    BY <2>2, <2>3
<1>7. ASSUME RefreshXcpSupply PROVE Agrees'
  BY <1>7, OtherStepsKeep DEF RefreshXcpSupply, Agrees
<1>8. ASSUME PeekLedger PROVE Agrees'
  BY <1>8, OtherStepsKeep DEF PeekLedger, Agrees
<1>9. ASSUME ParseNextEvent PROVE Agrees'
  <2>1. UNCHANGED ledger
    BY <1>9 DEF ParseNextEvent
  <2>2. CASE NextIndex \in DOMAIN journal
    <3>1. Parse(journal[NextIndex], "missing")
      BY <1>9, <2>2 DEF ParseNextEvent
    <3> QED
      BY <2>1, <2>2, <3>1, ParseKeeps
  <2>3. CASE NextIndex \notin DOMAIN journal
    BY <1>9, <2>1, <2>3, OtherStepsKeep DEF ParseNextEvent, Die, Agrees
  <2> QED
    BY <2>2, <2>3
<1>10. ASSUME CommitBlock PROVE Agrees'
  BY <1>10, CommitBlockKeeps
<1>11. ASSUME RollbackLedger PROVE IInv'
  BY <1>11 DEF RollbackLedger, IInv
<1>12. ASSUME Restart PROVE Agrees'
  BY <1>12, OtherStepsKeep DEF Restart, Agrees
<1>13. ASSUME UNCHANGED vars PROVE Agrees'
  BY <1>13, OtherStepsKeep DEF vars, Agrees, ledger
<1>14. Agrees' => IInv'
  BY DEF IInv, Agrees
<1> QED
  BY <1>14, <1>1, <1>2, <1>3, <1>4, <1>5, <1>6, <1>7, <1>8, <1>9, <1>10, <1>11, <1>12,
     <1>13 DEF Next, Watch

----------------------------------------------------------------------------
\* A prefix of the ledger's messages is a whole chain.
LEMMA PrefixIsWhole == Agrees => ChainIsWhole
<1> SUFFICES ASSUME Agrees, NEW i \in DOMAIN api_db.messages
             PROVE  api_db.messages[i].event_hash = SubSeq(Events, 1, i)
  BY DEF ChainIsWhole
<1> DEFINE n == Len(api_db.messages)
<1>1. n \in Nat /\ DOMAIN api_db.messages = 1..n /\ i \in 1..n
  BY LenProperties DEF Agrees, IsASequence
<1>2. Events = [k \in 1..n |-> journal[k]]
  BY <1>1 DEF Events, Agrees, IsMessage
<1>3. SubSeq(Events, 1, i) = SubSeq(journal, 1, i)
  <2>1. \A k \in 1..i : k \in 1..n /\ Events[k] = journal[k]
    BY <1>1, <1>2
  <2> QED
    BY <2>1, <1>1
<1> QED
  BY <1>1, <1>3 DEF Agrees, IsMessage

\* A rollback ends the guarantee for good: reorgs only grows.
LEMMA ReorgsGrow ==
  ASSUME reorgs \in Nat, reorgs # 0, [Next]_vars
  PROVE  IInv'
<1>1. CASE UNCHANGED reorgs
  BY <1>1 DEF IInv
<1>2. CASE RollbackLedger
  BY <1>2 DEF RollbackLedger, IInv
<1>3. ASSUME Watch \/ CommitBlock \/ Restart \/ UNCHANGED vars PROVE UNCHANGED reorgs
  <2>1. ASSUME UNCHANGED ledger PROVE UNCHANGED reorgs
    BY <2>1 DEF ledger
  <2>2. ASSUME Watch PROVE UNCHANGED ledger
    BY <2>2 DEF Watch, NothingToCheck, UndoMissing, UndoDivergent, CheckDone, CountEvents,
                CatchUpEvent, RefreshXcpSupply, PeekLedger, ParseNextEvent
  <2>3. ASSUME CommitBlock PROVE UNCHANGED reorgs
    BY <2>3 DEF CommitBlock
  <2>4. ASSUME Restart PROVE UNCHANGED ledger
    BY <2>4 DEF Restart
  <2>5. ASSUME UNCHANGED vars PROVE UNCHANGED reorgs
    BY <2>5 DEF vars
  <2> QED
    BY <1>3, <2>1, <2>2, <2>3, <2>4, <2>5
<1> QED
  BY <1>1, <1>2, <1>3 DEF Next

\* Until the ledger is rolled back the hash chain of the API database is
\* unbroken, whatever the blocks hold and however often the API process is
\* killed and started again: catch_up, which checks no hash in its loop, and
\* parse_next_event neither skip nor repeat an event.
THEOREM WholeBeforeAnyRollback == Spec => []WholeUntilRollback
<1>1. Init => IInv
  BY InitAgrees DEF IInv, Agrees
<1>2. IInv /\ [Next]_vars => IInv'
  BY NextKeeps, ReorgsGrow DEF IInv
<1>3. IInv => WholeUntilRollback
  BY PrefixIsWhole DEF IInv, WholeUntilRollback
<1> QED
  BY <1>1, <1>2, <1>3, PTL DEF Spec

----------------------------------------------------------------------------
\* The tables of the API database, and what the statements of events do to them.
Tables == [EventTables -> Seq(TableRow)]

\* Every event but those that are skipped has a table.
LEMMA Categories ==
  /\ \A e \in UpdateEvents : e \in DOMAIN Category /\ Category[e] \in EventTables
  /\ \A e \in InsertEvents : e \in DOMAIN Category /\ Category[e] \in EventTables
  /\ \A e \in InsertEvents : e \notin UpdateEvents /\ e \notin SKIP_EVENTS
  /\ \A e \in DOMAIN Category : e \in UpdateEvents \/ e \in InsertEvents \/ e \in SKIP_EVENTS
<1>1. \A e \in InsertEvents : e \in DOMAIN Category /\ Category[e] \in EventTables
  BY DEF InsertEvents, EventTables
<1>2. /\ "NEW_BLOCK" \in InsertEvents /\ "OPEN_ORDER" \in InsertEvents
      /\ Category["NEW_BLOCK"] = "blocks" /\ Category["OPEN_ORDER"] = "orders"
      /\ Category["BLOCK_PARSED"] = "blocks" /\ Category["ORDER_UPDATE"] = "orders"
      /\ "BLOCK_PARSED" \in DOMAIN Category /\ "ORDER_UPDATE" \in DOMAIN Category
  BY DEF InsertEvents, UpdateEvents, SKIP_EVENTS, Category
<1>3. \A e \in UpdateEvents : e \in DOMAIN Category /\ Category[e] \in EventTables
  BY <1>1, <1>2 DEF UpdateEvents
<1>4. \A e \in InsertEvents : e \notin UpdateEvents /\ e \notin SKIP_EVENTS
  BY DEF InsertEvents
<1>5. \A e \in DOMAIN Category : e \in UpdateEvents \/ e \in InsertEvents \/ e \in SKIP_EVENTS
  BY DEF InsertEvents
<1> QED
  BY <1>1, <1>3, <1>4, <1>5

\* The rowid of the next insert in a table whose rows are 1, ..., n.
LEMMA NextRowidIsNext ==
  ASSUME NEW t, NEW n \in Nat, DOMAIN t = 1..n
  PROVE  NextRowid(t) = n + 1
<1>1. CASE n = 0
  BY <1>1 DEF NextRowid
<1>2. CASE n # 0
  <2>1. Max(1..n) = n
    BY <1>2 DEF Max
  <2> QED
    BY <1>2, <2>1 DEF NextRowid
<1> QED
  BY <1>1, <1>2

\* What an insert writes is a row.
LEMMA RowType == ASSUME NEW e \in EventRecord PROVE Row(e) \in TableRow
BY DEF Row, TableRow, EventRecord

\* An insert appends the row of the event to its table.
LEMMA ExecutedInsert ==
  ASSUME NEW tables \in Tables, NEW e \in EventRecord, e.event \in InsertEvents,
         NEW t, t = Category[e.event], NEW n, n = Len(tables[t])
  PROVE  /\ n \in Nat /\ NextRowid(tables[t]) = n + 1
         /\ ExecuteEvent(tables, e) \in Tables
         /\ \A u \in EventTables \ {t} : ExecuteEvent(tables, e)[u] = tables[u]
         /\ DOMAIN ExecuteEvent(tables, e)[t] = 1..(n + 1)
         /\ \A r \in 1..n : ExecuteEvent(tables, e)[t][r] = tables[t][r]
         /\ ExecuteEvent(tables, e)[t][n + 1] = Row(e)
<1>1. t \in EventTables /\ e.event \notin UpdateEvents
  BY Categories
<1>2. tables[t] \in Seq(TableRow) /\ n \in Nat /\ DOMAIN tables[t] = 1..n
  BY <1>1, LenProperties DEF Tables
<1>3. NextRowid(tables[t]) = n + 1
  BY <1>2, NextRowidIsNext
<1> DEFINE new == [r \in DOMAIN tables[t] \union {NextRowid(tables[t])} |->
                    IF r \in DOMAIN tables[t] THEN tables[t][r] ELSE Row(e)]
<1>4. ExecuteEvent(tables, e) = [tables EXCEPT ![t] = new]
  BY <1>1 DEF ExecuteEvent
<1>5. DOMAIN new = 1..(n + 1)
  BY <1>2, <1>3
<1>6. \A r \in 1..n : new[r] = tables[t][r]
  BY <1>2, <1>3
<1>7. new[n + 1] = Row(e)
  BY <1>2, <1>3
<1>8. new \in Seq(TableRow)
  <2>1. Row(e) \in TableRow /\ \A r \in 1..n : tables[t][r] \in TableRow
    BY <1>2, RowType
  <2>2. new = [r \in 1..(n + 1) |-> new[r]]
    BY <1>5
  <2>3. \A r \in 1..(n + 1) : new[r] \in TableRow
    BY <1>2, <1>5, <1>6, <1>7, <2>1
  <2> HIDE DEF new
  <2> QED
    BY <1>2, <2>2, <2>3
<1> HIDE DEF new
<1> QED
  BY <1>1, <1>2, <1>3, <1>4, <1>5, <1>6, <1>7, <1>8 DEF Tables

\* An update writes only the status of rows.
LEMMA ExecutedUpdate ==
  ASSUME NEW tables \in Tables, NEW e \in EventRecord, e.event \in UpdateEvents
  PROVE  /\ ExecuteEvent(tables, e) \in Tables
         /\ \A t \in EventTables :
              /\ DOMAIN ExecuteEvent(tables, e)[t] = DOMAIN tables[t]
              /\ \A r \in DOMAIN tables[t] :
                   /\ ExecuteEvent(tables, e)[t][r].object = tables[t][r].object
                   /\ ExecuteEvent(tables, e)[t][r].quantity = tables[t][r].quantity
         /\ \A t \in EventTables \ {"blocks", "orders"} :
              ExecuteEvent(tables, e)[t] = tables[t]
<1> DEFINE c == Category[e.event]
           new == [r \in DOMAIN tables[c] |->
                    IF tables[c][r].object = e.object
                    THEN [tables[c][r] EXCEPT !.status = e.status] ELSE tables[c][r]]
<1>1. c \in EventTables /\ c \in {"blocks", "orders"}
  <2>1. c \in {"blocks", "orders"}
    BY DEF UpdateEvents, Category
  <2> QED
    BY <2>1, Categories
<1>2. ExecuteEvent(tables, e) = [tables EXCEPT ![c] = new]
  BY DEF ExecuteEvent
<1>3. tables[c] \in Seq(TableRow) /\ Len(tables[c]) \in Nat /\ DOMAIN tables[c] = 1..Len(tables[c])
  BY <1>1, LenProperties DEF Tables
<1>4. e.status \in Status
  BY DEF EventRecord
<1>5. \A r \in DOMAIN tables[c] :
        /\ new[r] \in TableRow
        /\ new[r].object = tables[c][r].object /\ new[r].quantity = tables[c][r].quantity
  <2>1. ASSUME NEW row \in TableRow
        PROVE  /\ [row EXCEPT !.status = e.status] \in TableRow
               /\ [row EXCEPT !.status = e.status].object = row.object
               /\ [row EXCEPT !.status = e.status].quantity = row.quantity
    BY <1>4 DEF TableRow
  <2>2. \A r \in DOMAIN tables[c] : tables[c][r] \in TableRow
    BY <1>3
  <2>3. \A r \in DOMAIN tables[c] :
          new[r] \in {tables[c][r], [tables[c][r] EXCEPT !.status = e.status]}
    OBVIOUS
  <2> HIDE DEF new
  <2> QED
    BY <2>1, <2>2, <2>3
<1>6. DOMAIN new = 1..Len(tables[c]) /\ new = [r \in 1..Len(tables[c]) |-> new[r]]
  BY <1>3
<1> HIDE DEF new, c
<1>7. new \in Seq(TableRow)
  BY <1>3, <1>5, <1>6
<1> QED
  BY <1>1, <1>2, <1>3, <1>5, <1>6, <1>7 DEF Tables

\* Deleting the last row.
LEMMA DeletedRow ==
  ASSUME NEW tables \in Tables, NEW t \in EventTables, NEW n, n = Len(tables[t]), n # 0,
         NEW left \in [(1..n) \ {n} -> TableRow],
         \A r \in (1..n) \ {n} : left[r] = tables[t][r],
         NEW new, new = [tables EXCEPT ![t] = left]
  PROVE  /\ n \in Nat \ {0}
         /\ new \in Tables
         /\ \A u \in EventTables \ {t} : new[u] = tables[u]
         /\ \A r \in 1..(n - 1) : new[t][r] = tables[t][r]
<1>1. tables[t] \in Seq(TableRow) /\ n \in Nat \ {0} /\ DOMAIN tables[t] = 1..n
  BY LenProperties DEF Tables
<1>2. DOMAIN left = 1..(n - 1) /\ \A r \in 1..(n - 1) : left[r] = tables[t][r]
  BY <1>1
<1>3. left = [r \in 1..(n - 1) |-> left[r]]
  BY <1>2
<1>4. \A r \in 1..(n - 1) : left[r] \in TableRow
  BY <1>1, <1>2
<1>5. left \in Seq(TableRow)
  BY <1>1, <1>3, <1>4
<1>6. /\ new \in Tables /\ new[t] = left
      /\ \A u \in EventTables \ {t} : new[u] = tables[u]
  BY <1>5 DEF Tables
<1> QED
  BY <1>1, <1>2, <1>6

----------------------------------------------------------------------------
\* The messages after one is appended, and after the last is dropped.
LEMMA AppendedMessages ==
  ASSUME api_db.messages \in Seq(Message), NEW m \in Message,
         api_db'.messages = Append(api_db.messages, m),
         NEW n, n = Len(api_db.messages)
  PROVE  /\ n \in Nat /\ DOMAIN api_db.messages = 1..n
         /\ api_db'.messages \in Seq(Message)
         /\ DOMAIN api_db'.messages = 1..(n + 1) /\ Len(api_db'.messages) = n + 1
         /\ \A i \in 1..n : api_db'.messages[i] = api_db.messages[i]
         /\ api_db'.messages[n + 1] = m
<1>1. n \in Nat /\ DOMAIN api_db.messages = 1..n
  BY LenProperties
<1>2. /\ Append(api_db.messages, m) \in Seq(Message)
      /\ Len(Append(api_db.messages, m)) = n + 1
      /\ \A i \in 1..n : Append(api_db.messages, m)[i] = api_db.messages[i]
      /\ Append(api_db.messages, m)[n + 1] = m
  BY AppendProperties
<1>3. DOMAIN api_db'.messages = 1..(n + 1)
  BY <1>2, LenProperties
<1> QED
  BY <1>1, <1>2, <1>3

\* The inserts of a table when a message is appended.
LEMMA AppendedInserts ==
  ASSUME NEW n \in Nat, NEW m, NEW t,
         DOMAIN api_db.messages = 1..n, DOMAIN api_db'.messages = 1..(n + 1),
         \A i \in 1..n : api_db'.messages[i] = api_db.messages[i],
         api_db'.messages[n + 1] = m
  PROVE  /\ n + 1 \notin Inserts(t)
         /\ Inserts(t)' = Inserts(t) \union
              (IF m.event.event \in InsertEvents /\ Category[m.event.event] = t
               THEN {n + 1} ELSE {})
<1>1. \A i \in 1..(n + 1) : i \in 1..n \/ i = n + 1
  OBVIOUS
<1>2. n + 1 \notin 1..n /\ 1..n \subseteq 1..(n + 1)
  OBVIOUS
<1> QED
  BY <1>1, <1>2 DEF Inserts

\* The creations of the asset.
LEMMA AppendedCreated ==
  ASSUME NEW n \in Nat, NEW m,
         DOMAIN api_db.messages = 1..n, DOMAIN api_db'.messages = 1..(n + 1),
         \A i \in 1..n : api_db'.messages[i] = api_db.messages[i],
         api_db'.messages[n + 1] = m
  PROVE  /\ Created \subseteq 1..n
         /\ Created' = Created \union
              (IF m.event.event = "ASSET_CREATION" THEN {n + 1} ELSE {})
<1>1. \A i \in 1..(n + 1) : i \in 1..n \/ i = n + 1
  OBVIOUS
<1>2. n + 1 \notin 1..n /\ 1..n \subseteq 1..(n + 1)
  OBVIOUS
<1> QED
  BY <1>1, <1>2 DEF Created

\* The messages after the last is dropped.
LEMMA DroppedMessage ==
  ASSUME api_db.messages \in Seq(Message), api_db.messages # <<>>,
         api_db'.messages = Front(api_db.messages),
         NEW n, n = Len(api_db.messages)
  PROVE  /\ n \in Nat \ {0} /\ n - 1 \in Nat /\ DOMAIN api_db.messages = 1..n
         /\ LastMessage = api_db.messages[n] /\ LastMessage \in Message
         /\ api_db'.messages \in Seq(Message)
         /\ DOMAIN api_db'.messages = 1..(n - 1) /\ Len(api_db'.messages) = n - 1
         /\ \A i \in 1..(n - 1) : api_db'.messages[i] = api_db.messages[i]
<1>1. n \in Nat \ {0} /\ n - 1 \in Nat /\ DOMAIN api_db.messages = 1..n
  BY LenProperties, EmptySeq
<1>2. LastMessage = api_db.messages[n]
  BY DEF LastMessage, Last
<1>3. LastMessage \in Message
  BY <1>1, <1>2, ElementOfSeq
<1>4. /\ api_db'.messages \in Seq(Message)
      /\ DOMAIN api_db'.messages = 1..(n - 1) /\ Len(api_db'.messages) = n - 1
      /\ \A i \in 1..(n - 1) : api_db'.messages[i] = api_db.messages[i]
  <2>1. Front(api_db.messages) = SubSeq(api_db.messages, 1, n - 1)
    BY DEF Front
  <2>2. \A i \in 1..(n - 1) : api_db.messages[i] \in Message
    BY <1>1, ElementOfSeq
  <2> DEFINE k == n - 1
  <2>3. k \in Int /\ 1 \in Int /\ k \in Nat
    BY <1>1
  <2>4. \A i \in 1..k : api_db.messages[i] \in Message
    BY <2>2
  <2> HIDE DEF k
  <2>5. /\ SubSeq(api_db.messages, 1, k) \in Seq(Message)
        /\ Len(SubSeq(api_db.messages, 1, k)) = IF 1 <= k THEN k - 1 + 1 ELSE 0
        /\ \A i \in 1..(k - 1 + 1) : SubSeq(api_db.messages, 1, k)[i] = api_db.messages[1 + i - 1]
    BY <2>3, <2>4, SubSeqProperties
  <2>6. (IF 1 <= k THEN k - 1 + 1 ELSE 0) = k /\ k - 1 + 1 = k /\ \A i \in 1..k : 1 + i - 1 = i
    BY <2>3
  <2>7. DOMAIN SubSeq(api_db.messages, 1, k) = 1..k
    BY <2>5, <2>6, LenProperties
  <2> QED
    BY <2>1, <2>5, <2>6, <2>7 DEF k
<1> QED
  BY <1>1, <1>2, <1>3, <1>4

\* The inserts of a table when the last message is dropped.
LEMMA DroppedInserts ==
  ASSUME NEW n \in Nat \ {0}, NEW t,
         DOMAIN api_db.messages = 1..n, DOMAIN api_db'.messages = 1..(n - 1),
         \A i \in 1..(n - 1) : api_db'.messages[i] = api_db.messages[i]
  PROVE  /\ n \in Inserts(t) <=>
              /\ api_db.messages[n].event.event \in InsertEvents
              /\ Category[api_db.messages[n].event.event] = t
         /\ Inserts(t)' = Inserts(t) \ {n}
<1>1. 1..(n - 1) = (1..n) \ {n} /\ n \in 1..n
  OBVIOUS
<1> QED
  BY <1>1 DEF Inserts

\* The creations of the asset.
LEMMA DroppedCreated ==
  ASSUME NEW n \in Nat \ {0},
         DOMAIN api_db.messages = 1..n, DOMAIN api_db'.messages = 1..(n - 1),
         \A i \in 1..(n - 1) : api_db'.messages[i] = api_db.messages[i]
  PROVE  /\ Created \subseteq 1..n
         /\ n \in Created <=> api_db.messages[n].event.event = "ASSET_CREATION"
         /\ Created' = Created \ {n}
<1>1. 1..(n - 1) = (1..n) \ {n} /\ n \in 1..n
  OBVIOUS
<1> QED
  BY <1>1 DEF Created

\* The inserts of a table can be counted.
LEMMA InsertsAreFinite ==
  ASSUME api_db.messages \in Seq(Message), NEW t
  PROVE  /\ IsFiniteSet(Inserts(t)) /\ Cardinality(Inserts(t)) \in Nat
         /\ Inserts(t) \subseteq 1..Len(api_db.messages)
<1>1. DOMAIN api_db.messages = 1..Len(api_db.messages) /\ Len(api_db.messages) \in Nat
  BY LenProperties
<1>2. IsFiniteSet(1..Len(api_db.messages))
  BY <1>1, FS_Interval
<1>3. Inserts(t) \subseteq 1..Len(api_db.messages)
  BY <1>1 DEF Inserts
<1> QED
  BY <1>2, <1>3, FS_Subset, FS_CardinalityType

----------------------------------------------------------------------------
\* A table that is replayed stays so when neither its inserts nor the objects of its
\* rows change,
LEMMA ReplayedAsBefore ==
  ASSUME NEW t, TableIsReplayed(t), Inserts(t)' = Inserts(t),
         \A i \in Inserts(t) : api_db'.messages[i] = api_db.messages[i],
         DOMAIN api_db'.tables[t] = DOMAIN api_db.tables[t],
         \A r \in DOMAIN api_db.tables[t] :
           api_db'.tables[t][r].object = api_db.tables[t][r].object
  PROVE  TableIsReplayed(t)'
<1>1. Cardinality(Inserts(t))' = Cardinality(Inserts(t))
  OBVIOUS
<1>2. DOMAIN api_db'.tables[t] = 1..Cardinality(Inserts(t)')
  BY <1>1 DEF TableIsReplayed
<1>3. DOMAIN api_db'.tables[t] = {api_db'.messages[i].insert_rowid : i \in Inserts(t)'}
  BY DEF TableIsReplayed
<1>4. ASSUME NEW i \in Inserts(t)'
      PROVE  api_db'.tables[t][api_db'.messages[i].insert_rowid].object
               = api_db'.messages[i].event.object
  <2>1. i \in Inserts(t) /\ api_db'.messages[i] = api_db.messages[i]
    OBVIOUS
  <2>2. api_db.messages[i].insert_rowid \in DOMAIN api_db.tables[t]
    BY <2>1 DEF TableIsReplayed
  <2> QED
    BY <2>1, <2>2 DEF TableIsReplayed
<1>5. \A i, j \in Inserts(t)' :
        i < j => api_db'.messages[i].insert_rowid < api_db'.messages[j].insert_rowid
  BY DEF TableIsReplayed
<1> QED
  BY <1>2, <1>3, <1>4, <1>5 DEF TableIsReplayed

\* when a message is appended with the row after its last,
LEMMA ReplayedWithInsert ==
  ASSUME NEW t, TableIsReplayed(t), NEW n, NEW k, n \in Nat, k \in Nat,
         IsFiniteSet(Inserts(t)), Inserts(t) \subseteq 1..n,
         DOMAIN api_db.tables[t] = 1..k,
         Inserts(t)' = Inserts(t) \union {n + 1},
         \A i \in 1..n : api_db'.messages[i] = api_db.messages[i],
         api_db'.messages[n + 1].insert_rowid = k + 1,
         DOMAIN api_db'.tables[t] = 1..(k + 1),
         \A r \in 1..k : api_db'.tables[t][r] = api_db.tables[t][r],
         api_db'.tables[t][k + 1].object = api_db'.messages[n + 1].event.object
  PROVE  TableIsReplayed(t)'
<1> DEFINE id(i) == api_db.messages[i].insert_rowid
           next(i) == api_db'.messages[i].insert_rowid
<1>1. /\ Cardinality(Inserts(t)) \in Nat /\ n + 1 \notin Inserts(t)
      /\ Cardinality(Inserts(t)') = Cardinality(Inserts(t)) + 1
  <2>1. n + 1 \notin Inserts(t)
    <3>1. n + 1 \notin 1..n
      OBVIOUS
    <3> QED
      BY <3>1
  <2>2. Cardinality(Inserts(t) \union {n + 1}) = Cardinality(Inserts(t)) + 1
    BY <2>1, FS_AddElement
  <2> QED
    BY <2>1, <2>2, FS_CardinalityType
<1>2. k = Cardinality(Inserts(t))
  <2>1. 1..k = 1..Cardinality(Inserts(t))
    BY DEF TableIsReplayed
  <2> QED
    BY <1>1, <2>1
<1>3. DOMAIN api_db'.tables[t] = 1..Cardinality(Inserts(t)')
  BY <1>1, <1>2
<1>4. 1..k = {id(i) : i \in Inserts(t)}
  BY DEF TableIsReplayed
<1>5. \A i \in Inserts(t) : i \in Int /\ i < n + 1 /\ next(i) = id(i) /\ id(i) \in 1..k
  BY <1>4
<1>6. next(n + 1) = k + 1
  OBVIOUS
<1>7. DOMAIN api_db'.tables[t] = {next(i) : i \in Inserts(t)'}
  <2>1. 1..(k + 1) = (1..k) \union {k + 1}
    OBVIOUS
  <2>2. {next(i) : i \in Inserts(t)'} = {next(i) : i \in Inserts(t)} \union {next(n + 1)}
    OBVIOUS
  <2>3. {next(i) : i \in Inserts(t)} = {id(i) : i \in Inserts(t)}
    BY <1>5
  <2> HIDE DEF id, next
  <2> QED
    BY <1>4, <1>6, <2>1, <2>2, <2>3
<1>8. ASSUME NEW i \in Inserts(t)'
      PROVE  api_db'.tables[t][next(i)].object = api_db'.messages[i].event.object
  <2>1. CASE i = n + 1
    BY <2>1
  <2>2. CASE i \in Inserts(t)
    <3>1. api_db'.messages[i] = api_db.messages[i]
      BY <2>2
    <3>2. api_db'.tables[t][next(i)] = api_db.tables[t][id(i)]
      BY <1>5, <2>2
    <3>3. api_db.tables[t][id(i)].object = api_db.messages[i].event.object
      BY <2>2 DEF TableIsReplayed
    <3> HIDE DEF id, next
    <3> QED
      BY <3>1, <3>2, <3>3
  <2> QED
    BY <2>1, <2>2
<1>9. ASSUME NEW i \in Inserts(t)', NEW j \in Inserts(t)', i < j
      PROVE  next(i) < next(j)
  <2>0. \A a, b \in Inserts(t) : a < b => id(a) < id(b)
    BY DEF TableIsReplayed
  <2> HIDE DEF id, next
  <2>1. i # n + 1
    BY <1>5, <1>9
  <2>2. i \in Inserts(t) /\ next(i) = id(i) /\ id(i) \in 1..k
    BY <1>5, <2>1
  <2>3. CASE j = n + 1
    BY <1>6, <2>2, <2>3
  <2>4. CASE j # n + 1
    BY <1>5, <1>9, <2>0, <2>2, <2>4
  <2> QED
    BY <2>3, <2>4
<1> QED
  BY <1>3, <1>7, <1>8, <1>9 DEF TableIsReplayed

\* and when its last insert is dropped with its last row.
LEMMA LastInsertHasLastRow ==
  ASSUME NEW t, TableIsReplayed(t), NEW n, NEW k, n \in Nat \ {0}, k \in Nat,
         Inserts(t) \subseteq 1..n, n \in Inserts(t), DOMAIN api_db.tables[t] = 1..k
  PROVE  k # 0 /\ api_db.messages[n].insert_rowid = k
<1> DEFINE id(i) == api_db.messages[i].insert_rowid
<1>1. 1..k = {id(i) : i \in Inserts(t)}
  BY DEF TableIsReplayed
<1>2. id(n) \in 1..k
  BY <1>1
<1>3. \A i, j \in Inserts(t) : i < j => id(i) < id(j)
  BY DEF TableIsReplayed
<1> HIDE DEF id
<1>4. k \in 1..k
  BY <1>2
<1>5. PICK i \in Inserts(t) : id(i) = k
  BY <1>1, <1>4
<1>6. i = n
  <2>1. i = n \/ i < n
    OBVIOUS
  <2>2. ~ (id(i) < id(n))
    BY <1>2, <1>5
  <2> QED
    BY <1>3, <2>1, <2>2
<1> QED
  BY <1>2, <1>5, <1>6 DEF id

\* Then the table stays replayed.
LEMMA ReplayedWithoutLast ==
  ASSUME NEW t, TableIsReplayed(t), NEW n, NEW k, n \in Nat \ {0}, k \in Nat,
         IsFiniteSet(Inserts(t)), Inserts(t) \subseteq 1..n, n \in Inserts(t),
         DOMAIN api_db.tables[t] = 1..k,
         Inserts(t)' = Inserts(t) \ {n},
         \A i \in 1..(n - 1) : api_db'.messages[i] = api_db.messages[i],
         DOMAIN api_db'.tables[t] = 1..(k - 1),
         \A r \in 1..(k - 1) : api_db'.tables[t][r] = api_db.tables[t][r]
  PROVE  TableIsReplayed(t)'
<1> DEFINE id(i) == api_db.messages[i].insert_rowid
           next(i) == api_db'.messages[i].insert_rowid
<1>1. k # 0 /\ id(n) = k
  BY LastInsertHasLastRow
<1>2. /\ Cardinality(Inserts(t)) \in Nat
      /\ Cardinality(Inserts(t)') = Cardinality(Inserts(t)) - 1
  BY FS_CardinalityType, FS_RemoveElement
<1>3. k = Cardinality(Inserts(t))
  <2>1. 1..k = 1..Cardinality(Inserts(t))
    BY DEF TableIsReplayed
  <2> QED
    BY <1>2, <2>1
<1>4. DOMAIN api_db'.tables[t] = 1..Cardinality(Inserts(t)')
  BY <1>2, <1>3
<1>5. 1..k = {id(i) : i \in Inserts(t)}
  BY DEF TableIsReplayed
<1>6. \A i, j \in Inserts(t) : i < j => id(i) < id(j)
  BY DEF TableIsReplayed
<1>7. \A i \in Inserts(t)' :
        /\ i \in Inserts(t) /\ i \in 1..(n - 1) /\ api_db'.messages[i] = api_db.messages[i]
        /\ next(i) = id(i)
  OBVIOUS
<1>8. \A i \in Inserts(t)' : id(i) \in 1..(k - 1)
  <2> HIDE DEF id, next
  <2> SUFFICES ASSUME NEW i \in Inserts(t)' PROVE id(i) \in 1..(k - 1)
    OBVIOUS
  <2>1. i \in Inserts(t) /\ i < n
    BY <1>7
  <2>2. id(i) < id(n) /\ id(i) \in 1..k
    BY <1>5, <1>6, <2>1
  <2> QED
    BY <1>1, <2>2
<1>9. DOMAIN api_db'.tables[t] = {next(i) : i \in Inserts(t)'}
  <2>1. \A r \in 1..(k - 1) : \E i \in Inserts(t)' : next(i) = r
    <3> SUFFICES ASSUME NEW r \in 1..(k - 1) PROVE \E i \in Inserts(t)' : next(i) = r
      OBVIOUS
    <3> HIDE DEF id, next
    <3>1. r \in 1..k /\ r # k
      OBVIOUS
    <3>2. PICK i \in Inserts(t) : id(i) = r
      BY <1>5, <3>1
    <3>3. i # n
      BY <1>1, <3>1, <3>2
    <3>4. i \in Inserts(t)' /\ next(i) = r
      BY <1>7, <3>2, <3>3
    <3> QED
      BY <3>4
  <2>2. \A i \in Inserts(t)' : next(i) \in 1..(k - 1)
    BY <1>7, <1>8
  <2> HIDE DEF id, next
  <2> QED
    BY <2>1, <2>2
<1>10. \A i \in Inserts(t)' :
         api_db'.tables[t][next(i)].object = api_db'.messages[i].event.object
  <2> SUFFICES ASSUME NEW i \in Inserts(t)'
               PROVE  api_db'.tables[t][next(i)].object = api_db'.messages[i].event.object
    OBVIOUS
  <2>1. api_db.tables[t][id(i)].object = api_db.messages[i].event.object
    BY <1>7 DEF TableIsReplayed
  <2>2. api_db'.tables[t][next(i)] = api_db.tables[t][id(i)]
    BY <1>7, <1>8
  <2> HIDE DEF id, next
  <2> QED
    BY <1>7, <2>1, <2>2
<1>11. \A i, j \in Inserts(t)' : i < j => next(i) < next(j)
  BY <1>6, <1>7
<1> QED
  BY <1>4, <1>9, <1>10, <1>11 DEF TableIsReplayed

----------------------------------------------------------------------------
\* The total over the messages after one is appended, or the last is dropped: g covers
\* one more than f, and agrees with it.
LEMMA TotalOfLonger ==
  ASSUME NEW f, NEW g, NEW n \in Nat, DOMAIN f = 1..n, DOMAIN g = 1..(n + 1),
         \A i \in 1..n : f[i] \in Int /\ g[i] = f[i], g[n + 1] \in Int
  PROVE  Total(f) \in Int /\ Total(g) = Total(f) + g[n + 1]
<1>1. IsFiniteSet(1..n)
  BY FS_Interval
<1>2. 1..(n + 1) = (1..n) \union {n + 1} /\ n + 1 \notin 1..n
  OBVIOUS
<1>3. SumFunctionOnSet(g, 1..n) = SumFunctionOnSet(f, 1..n)
  BY <1>1, SumEqual
<1>4. SumFunctionOnSet(g, (1..n) \union {n + 1}) = SumFunctionOnSet(g, 1..n) + g[n + 1]
  <2>1. \A i \in (1..n) \union {n + 1} : g[i] \in Int
    OBVIOUS
  <2> DEFINE y == n + 1
  <2>2. y \notin 1..n /\ \A i \in (1..n) \union {y} : g[i] \in Int
    BY <1>2, <2>1
  <2> HIDE DEF y
  <2>3. SumFunctionOnSet(g, (1..n) \union {y}) = SumFunctionOnSet(g, 1..n) + g[y]
    BY <1>1, <2>2, SumInsert
  <2> QED
    BY <2>3 DEF y
<1>5. SumFunctionOnSet(f, 1..n) \in Int
  BY <1>1, SumType
<1> QED
  BY <1>2, <1>3, <1>4, <1>5 DEF Total

\* A total over messages is an integer.
LEMMA TotalType ==
  ASSUME NEW f, NEW n \in Nat, DOMAIN f = 1..n, \A i \in 1..n : f[i] \in Int
  PROVE  Total(f) \in Int
BY FS_Interval, SumType DEF Total

\* What an event changes is an integer.
LEMMA ChangesAreIntegers ==
  ASSUME NEW e \in EventRecord
  PROVE  /\ {BalanceChange(e), RevertedBalance(e), SupplyChange(e), XcpSupplyChange(e)}
              \subseteq Int
         /\ e.event \in SKIP_EVENTS \union UpdateEvents =>
              BalanceChange(e) = 0 /\ SupplyChange(e) = 0 /\ XcpSupplyChange(e) = 0
<1>1. e.quantity \in Nat
  BY DEF EventRecord
<1>2. BalanceChange(e) \in Int
  BY <1>1 DEF BalanceChange
<1>3. SupplyChange(e) \in Int
  BY <1>1 DEF SupplyChange
<1>4. XcpSupplyChange(e) \in Int
  BY <1>1 DEF XcpSupplyChange
<1>5. e.event \in SKIP_EVENTS \union UpdateEvents =>
        BalanceChange(e) = 0 /\ SupplyChange(e) = 0 /\ XcpSupplyChange(e) = 0
  BY DEF BalanceChange, SupplyChange, XcpSupplyChange, SKIP_EVENTS, UpdateEvents
<1> QED
  BY <1>2, <1>3, <1>4, <1>5 DEF RevertedBalance

\* The supply a cache holds, or is filled with, is an integer.
LEMMA SumOfType ==
  ASSUME NEW t \in Seq(TableRow)
  PROVE  SumOf(t) \in Int
<1> DEFINE f == [r \in DOMAIN t |-> IF t[r].status = "valid" THEN t[r].quantity ELSE 0]
<1>1. DOMAIN t = 1..Len(t) /\ Len(t) \in Nat
  BY LenProperties
<1>2. \A r \in 1..Len(t) : t[r] \in TableRow
  BY <1>1, ElementOfSeq
<1>3. \A r \in 1..Len(t) : f[r] \in Int
  BY <1>1, <1>2 DEF TableRow
<1>4. DOMAIN f = 1..Len(t)
  BY <1>1
<1>5. SumOf(t) = Total(f)
  BY DEF SumOf
<1> HIDE DEF f
<1> QED
  BY <1>1, <1>3, <1>4, <1>5, TotalType

\* So is the supply that is read through the cache.
LEMMA CachedSupplyType ==
  ASSUME NEW tables \in Tables, AssetCache \in Seq(Int), Len(AssetCache) <= 1
  PROVE  /\ CachedSupply(tables) \in Int
         /\ <<CachedSupply(tables)>> \in Seq(Int) /\ Len(<<CachedSupply(tables)>>) <= 1
<1>1. "issuances" \in EventTables /\ "destructions" \in EventTables
  <2>1. /\ "ASSET_ISSUANCE" \in InsertEvents /\ "ASSET_DESTRUCTION" \in InsertEvents
        /\ Category["ASSET_ISSUANCE"] = "issuances"
        /\ Category["ASSET_DESTRUCTION"] = "destructions"
    BY DEF InsertEvents, UpdateEvents, SKIP_EVENTS, Category
  <2> QED
    BY <2>1, Categories
<1>2. SumOf(tables["issuances"]) \in Int /\ SumOf(tables["destructions"]) \in Int
  BY <1>1, SumOfType DEF Tables
<1>3. AssetCache # NoCache => AssetCache[1] \in Int
  BY DEF NoCache
<1>4. CachedSupply(tables) \in Int
  BY <1>2, <1>3 DEF CachedSupply
<1> QED
  BY <1>4

\* The least row an event is about.
LEMMA MinIsIn ==
  ASSUME NEW S, S \subseteq Nat, S # {}
  PROVE  Min(S) \in S
<1>1. PICK x \in S : \A y \in S : ~ (<<y, x>> \in OpToRel(<, Nat))
  BY NatLessThanWellFounded, WFMin
<1>2. \A y \in S : x <= y
  <2> SUFFICES ASSUME NEW y \in S PROVE x <= y
    OBVIOUS
  <2>1. x \in Nat /\ y \in Nat
    OBVIOUS
  <2>2. ~ (y < x)
    BY <1>1, <2>1 DEF OpToRel
  <2> QED
    BY <2>1, <2>2
<1> QED
  BY <1>2 DEF Min

\* The state that an event overwrites is that of a row, and only an update has one.
LEMMA PreviousStateType ==
  ASSUME NEW tables \in Tables, NEW e \in EventRecord
  PROVE  /\ PreviousState(tables, e) \in Status \union {Null}
         /\ PreviousState(tables, e) # Null => e.event \in UpdateEvents
<1> DEFINE t == tables[Category[e.event]]
           about == {r \in DOMAIN t : t[r].object = e.object}
<1>1. CASE e.event \in UpdateEvents /\ about # {}
  <2>1. t \in Seq(TableRow) /\ DOMAIN t = 1..Len(t) /\ Len(t) \in Nat
    BY <1>1, Categories, LenProperties DEF Tables
  <2>2. about \subseteq Nat
    BY <2>1
  <2>3. Min(about) \in about
    BY <1>1, <2>2, MinIsIn
  <2>4. PreviousState(tables, e) = t[Min(about)].status
    BY <1>1 DEF PreviousState
  <2>5. t[Min(about)] \in TableRow
    <3> DEFINE r == Min(about)
    <3>1. r \in 1..Len(t)
      BY <2>1, <2>3
    <3> HIDE DEF r, t
    <3>2. t[r] \in TableRow
      BY <2>1, <3>1, ElementOfSeq
    <3> QED
      BY <3>2 DEF r
  <2> HIDE DEF t, about
  <2>6. t[Min(about)].status \in Status
    BY <2>5 DEF TableRow
  <2> QED
    BY <1>1, <2>4, <2>6
<1>2. CASE ~ (e.event \in UpdateEvents /\ about # {})
  BY <1>2 DEF PreviousState
<1> QED
  BY <1>1, <1>2

----------------------------------------------------------------------------
\* An order expires once: the primary key of order_expirations.
ExpiredOnce ==
  \A i, j \in Inserts("order_expirations") :
    i # j => api_db.messages[i].event.object # api_db.messages[j].event.object
OnlyUpdatesHaveAState ==
  \A i \in DOMAIN api_db.messages :
    api_db.messages[i].previous_state # Null => api_db.messages[i].event.event \in UpdateEvents
\* Before the asset is created there is no row in assets_info to have a supply.
NoAssetNoSupply == Created = {} => api_db.supply = 0

\* The message that parse_event appends.
LEMMA ParsedMessage ==
  ASSUME api_db.tables \in Tables, NEW e \in EventRecord, NEW h \in Seq(EventRecord),
         api_db' = ParseEvent(api_db, e, h)
  PROVE  \E m \in Message :
           /\ api_db'.messages = Append(api_db.messages, m)
           /\ m.event = e /\ m.event_hash = h
           /\ m.insert_rowid > 0 <=> e.event \in InsertEvents
           /\ m.previous_state # Null => e.event \in UpdateEvents
           /\ e.event \in InsertEvents =>
                m.insert_rowid = NextRowid(api_db.tables[Category[e.event]])
<1>1. CASE e.event \in SKIP_EVENTS
  <2> DEFINE m == [event |-> e, event_hash |-> h, previous_state |-> Null, insert_rowid |-> 0]
  <2>1. m \in Message
    BY DEF Message
  <2>2. api_db'.messages = Append(api_db.messages, m)
    BY <1>1 DEF ParseEvent
  <2>3. e.event \notin InsertEvents
    BY <1>1, Categories
  <2> QED
    BY <2>1, <2>2, <2>3
<1>2. CASE e.event \notin SKIP_EVENTS
  <2> DEFINE executed == ExecuteEvent(api_db.tables, e)
             id == IF e.event \in InsertEvents
                   THEN NextRowid(api_db.tables[Category[e.event]]) ELSE 0
             m == [event |-> e, event_hash |-> h,
                   previous_state |-> PreviousState(executed, e), insert_rowid |-> id]
  <2>1. executed \in Tables
    <3>1. e.event \in UpdateEvents \/ e.event \in InsertEvents
      BY <1>2, Categories DEF EventRecord
    <3>2. CASE e.event \in UpdateEvents
      BY <3>2, ExecutedUpdate
    <3>3. CASE e.event \in InsertEvents
      <4>1. ASSUME NEW t, t = Category[e.event], NEW n, n = Len(api_db.tables[t])
            PROVE  executed \in Tables
        BY <3>3, <4>1, ExecutedInsert
      <4> QED
        BY <4>1
    <3> QED
      BY <3>1, <3>2, <3>3
  <2>2. PreviousState(executed, e) \in Status \union {Null}
        /\ (PreviousState(executed, e) # Null => e.event \in UpdateEvents)
    BY <2>1, PreviousStateType
  <2>3. id \in Nat /\ (id > 0 <=> e.event \in InsertEvents)
    <3>1. CASE e.event \in InsertEvents
      <4>1. ASSUME NEW t, t = Category[e.event], NEW n, n = Len(api_db.tables[t])
            PROVE  id \in Nat \ {0}
        <5>1. n \in Nat /\ NextRowid(api_db.tables[t]) = n + 1
          BY <3>1, <4>1, ExecutedInsert
        <5> QED
          BY <3>1, <4>1, <5>1
      <4>2. id \in Nat \ {0}
        BY <4>1
      <4> HIDE DEF id
      <4> QED
        BY <3>1, <4>2
    <3> QED
      BY <3>1
  <2>4. api_db'.messages = Append(api_db.messages, m)
    BY <1>2 DEF ParseEvent
  <2>5. m \in Message
    BY <2>2, <2>3 DEF Message
  <2>6. e.event \in InsertEvents => id = NextRowid(api_db.tables[Category[e.event]])
    OBVIOUS
  <2> HIDE DEF id
  <2> QED
    BY <2>2, <2>3, <2>4, <2>5, <2>6
<1> QED
  BY <1>1, <1>2

\* TypeOK, as far as it is about the API database.
DbTypeOK ==
  /\ api_db \in ApiDb
  /\ \A i \in DOMAIN api_db.messages :
       LET m == api_db.messages[i] IN
       /\ m.event_hash # <<>> /\ Last(m.event_hash) = m.event
       /\ m.insert_rowid > 0 <=> m.event.event \in InsertEvents

\* What holds of the API database, whatever is parsed and undone.
DbReplay ==
  /\ DbTypeOK
  /\ TablesAreReplayed
  /\ ExpiredOnce
  /\ OnlyUpdatesHaveAState
  /\ NoAssetNoSupply

\* The fields of the API database.
LEMMA DbFields ==
  ASSUME api_db \in ApiDb
  PROVE  /\ api_db.messages \in Seq(Message) /\ api_db.tables \in Tables
         /\ api_db.balances \in [Address -> Int]
         /\ api_db.all_expirations \in SUBSET (Nat \X Nat)
         /\ api_db.supply \in Int /\ api_db.xcp_supply \in Int
         /\ api_db.address_events \in SUBSET Nat
BY DEF ApiDb, Tables

\* What parse_event writes in the API database, field by field.
LEMMA ParsedFields ==
  ASSUME api_db \in ApiDb, NEW e \in EventRecord, NEW h \in Seq(EventRecord),
         api_db' = ParseEvent(api_db, e, h), NEW n, n = Len(api_db.messages)
  PROVE  /\ e.event \in SKIP_EVENTS => api_db'.tables = api_db.tables
         /\ e.event \notin SKIP_EVENTS => api_db'.tables = ExecuteEvent(api_db.tables, e)
         /\ \A a \in Address : api_db'.balances[a] =
              api_db.balances[a] + (IF a = e.object THEN BalanceChange(e) ELSE 0)
         /\ api_db'.all_expirations = api_db.all_expirations \union Expiration(e)
         /\ api_db'.supply = IF e.event \in SKIP_EVENTS THEN api_db.supply
                             ELSE IF HasAsset(api_db.tables)
                                  THEN api_db.supply + SupplyChange(e) ELSE 0
         /\ api_db'.xcp_supply = api_db.xcp_supply + XcpSupplyChange(e)
         /\ api_db'.address_events = api_db.address_events \union
              (IF e.event \in EVENTS_ADDRESS_FIELDS THEN {n + 1} ELSE {})
<1> USE DbFields
<1>1. CASE e.event \in SKIP_EVENTS
  <2>1. \E x : api_db' = [api_db EXCEPT !.messages = x]
    BY <1>1 DEF ParseEvent
  <2>2. /\ api_db'.tables = api_db.tables /\ api_db'.balances = api_db.balances
        /\ api_db'.all_expirations = api_db.all_expirations
        /\ api_db'.supply = api_db.supply /\ api_db'.xcp_supply = api_db.xcp_supply
        /\ api_db'.address_events = api_db.address_events
    BY <2>1 DEF ApiDb
  <2>3. /\ BalanceChange(e) = 0 /\ XcpSupplyChange(e) = 0 /\ Expiration(e) = {}
        /\ e.event \notin EVENTS_ADDRESS_FIELDS
    BY <1>1 DEF BalanceChange, XcpSupplyChange, Expiration, SKIP_EVENTS, EVENTS_ADDRESS_FIELDS
  <2>4. \A a \in Address : api_db.balances[a] =
              api_db.balances[a] + (IF a = e.object THEN BalanceChange(e) ELSE 0)
    BY <2>3
  <2>5. api_db.xcp_supply = api_db.xcp_supply + XcpSupplyChange(e)
    BY <2>3
  <2> QED
    BY <1>1, <2>2, <2>3, <2>4, <2>5
<1>2. CASE e.event \notin SKIP_EVENTS
  <2>1. /\ api_db'.tables = ExecuteEvent(api_db.tables, e)
        /\ api_db'.balances = UpdateBalances(api_db.balances, e, BalanceChange(e))
        /\ api_db'.all_expirations = api_db.all_expirations \union Expiration(e)
        /\ api_db'.supply = IF HasAsset(api_db.tables)
                            THEN api_db.supply + SupplyChange(e) ELSE 0
        /\ api_db'.xcp_supply = api_db.xcp_supply + XcpSupplyChange(e)
        /\ api_db'.address_events = api_db.address_events \union
              (IF e.event \in EVENTS_ADDRESS_FIELDS THEN {n + 1} ELSE {})
    BY <1>2 DEF ParseEvent
  <2> QED
    BY <1>2, <2>1 DEF UpdateBalances
<1> QED
  BY <1>1, <1>2

\* Parsing an event keeps the type of the API database.
LEMMA ParsedType ==
  ASSUME DbTypeOK, NEW e \in EventRecord, NEW h \in Seq(EventRecord),
         h # <<>>, Last(h) = e,
         api_db' = ParseEvent(api_db, e, h)
  PROVE  DbTypeOK'
<1> DEFINE n == Len(api_db.messages)
<1>0. api_db \in ApiDb
  BY DEF DbTypeOK
<1>1. /\ api_db.messages \in Seq(Message) /\ api_db.tables \in Tables
      /\ api_db.balances \in [Address -> Int]
      /\ api_db.all_expirations \in SUBSET (Nat \X Nat)
      /\ api_db.supply \in Int /\ api_db.xcp_supply \in Int
      /\ api_db.address_events \in SUBSET Nat
  BY <1>0, DbFields
<1>2. PICK m \in Message :
           /\ api_db'.messages = Append(api_db.messages, m)
           /\ m.event = e /\ m.event_hash = h
           /\ m.insert_rowid > 0 <=> e.event \in InsertEvents
  BY <1>1, ParsedMessage
<1>3. /\ n \in Nat /\ DOMAIN api_db.messages = 1..n
      /\ api_db'.messages \in Seq(Message)
      /\ DOMAIN api_db'.messages = 1..(n + 1)
      /\ \A i \in 1..n : api_db'.messages[i] = api_db.messages[i]
      /\ api_db'.messages[n + 1] = m
  BY <1>1, <1>2, AppendedMessages
<1>4. ExecuteEvent(api_db.tables, e) \in Tables \/ e.event \in SKIP_EVENTS
  <2>1. e.event \in UpdateEvents \/ e.event \in InsertEvents \/ e.event \in SKIP_EVENTS
    BY Categories DEF EventRecord
  <2>2. CASE e.event \in UpdateEvents
    BY <1>1, <2>2, ExecutedUpdate
  <2>3. CASE e.event \in InsertEvents
    <3>1. ASSUME NEW t, t = Category[e.event], NEW k, k = Len(api_db.tables[t])
          PROVE  ExecuteEvent(api_db.tables, e) \in Tables
      BY <1>1, <2>3, <3>1, ExecutedInsert
    <3> QED
      BY <3>1
  <2> QED
    BY <2>1, <2>2, <2>3
<1>5. /\ BalanceChange(e) \in Int /\ SupplyChange(e) \in Int /\ XcpSupplyChange(e) \in Int
  BY ChangesAreIntegers
<1>6. Expiration(e) \subseteq Nat \X Nat
  BY DEF Expiration, EventRecord
<1>7. api_db' \in ApiDb
  <2>1. CASE e.event \in SKIP_EVENTS
    <3>1. PICK x : api_db' = [api_db EXCEPT !.messages = x]
      BY <2>1 DEF ParseEvent
    <3>2. api_db'.messages = x
      BY <1>0, <3>1 DEF ApiDb
    <3> QED
      BY <1>0, <1>3, <3>1, <3>2 DEF ApiDb
  <2>2. CASE e.event \notin SKIP_EVENTS
    <3>1. UpdateBalances(api_db.balances, e, BalanceChange(e)) \in [Address -> Int]
      BY <1>1, <1>5 DEF UpdateBalances
    <3>2. (IF HasAsset(api_db.tables) THEN api_db.supply + SupplyChange(e) ELSE 0) \in Int
      BY <1>1, <1>5
    <3>3. api_db.xcp_supply + XcpSupplyChange(e) \in Int
      BY <1>1, <1>5
    <3>4. (api_db.address_events \union
              (IF e.event \in EVENTS_ADDRESS_FIELDS THEN {n + 1} ELSE {})) \in SUBSET Nat
      BY <1>1, <1>3
    <3>5. PICK x : api_db' =
            [messages |-> x,
             tables |-> ExecuteEvent(api_db.tables, e),
             balances |-> UpdateBalances(api_db.balances, e, BalanceChange(e)),
             all_expirations |-> api_db.all_expirations \union Expiration(e),
             supply |-> IF HasAsset(api_db.tables) THEN api_db.supply + SupplyChange(e) ELSE 0,
             xcp_supply |-> api_db.xcp_supply + XcpSupplyChange(e),
             address_events |-> api_db.address_events \union
                (IF e.event \in EVENTS_ADDRESS_FIELDS THEN {n + 1} ELSE {})]
      BY <2>2 DEF ParseEvent
    <3>6. x \in Seq(Message)
      BY <1>3, <3>5
    <3>7. (api_db.all_expirations \union Expiration(e)) \in SUBSET (Nat \X Nat)
      BY <1>1, <1>6
    <3>8. ExecuteEvent(api_db.tables, e) \in [EventTables -> Seq(TableRow)]
      BY <1>4, <2>2 DEF Tables
    <3> QED
      BY <3>1, <3>2, <3>3, <3>4, <3>5, <3>6, <3>7, <3>8 DEF ApiDb
  <2> QED
    BY <2>1, <2>2
<1>8. ASSUME NEW i \in 1..(n + 1)
      PROVE  LET x == api_db'.messages[i] IN
             /\ x.event_hash # <<>> /\ Last(x.event_hash) = x.event
             /\ x.insert_rowid > 0 <=> x.event.event \in InsertEvents
  <2>1. CASE i = n + 1
    BY <1>2, <1>3, <2>1
  <2>2. CASE i # n + 1
    <3>1. i \in 1..n
      BY <1>3, <2>2
    <3> QED
      BY <1>3, <3>1 DEF DbTypeOK
  <2> QED
    BY <2>1, <2>2
<1> QED
  BY <1>3, <1>7, <1>8 DEF DbTypeOK

\* Parsing an event keeps every table the rows of its inserts.
LEMMA ParsedTables ==
  ASSUME DbTypeOK, NEW t \in EventTables, TableIsReplayed(t),
         NEW e \in EventRecord, NEW h \in Seq(EventRecord),
         api_db' = ParseEvent(api_db, e, h)
  PROVE  TableIsReplayed(t)'
<1> DEFINE n == Len(api_db.messages)
           k == Len(api_db.tables[t])
<1>0. api_db \in ApiDb
  BY DEF DbTypeOK
<1>1. api_db.messages \in Seq(Message) /\ api_db.tables \in Tables
  BY <1>0, DbFields
<1>2. PICK m \in Message :
           /\ api_db'.messages = Append(api_db.messages, m)
           /\ m.event = e
           /\ e.event \in InsertEvents =>
                m.insert_rowid = NextRowid(api_db.tables[Category[e.event]])
  BY <1>1, ParsedMessage
<1>3. /\ n \in Nat /\ DOMAIN api_db.messages = 1..n
      /\ \A i \in 1..n : api_db'.messages[i] = api_db.messages[i]
      /\ api_db'.messages[n + 1] = m
      /\ Inserts(t)' = Inserts(t) \union
           (IF e.event \in InsertEvents /\ Category[e.event] = t THEN {n + 1} ELSE {})
  <2>1. /\ n \in Nat /\ DOMAIN api_db.messages = 1..n
        /\ DOMAIN api_db'.messages = 1..(n + 1)
        /\ \A i \in 1..n : api_db'.messages[i] = api_db.messages[i]
        /\ api_db'.messages[n + 1] = m
    BY <1>1, <1>2, AppendedMessages
  <2> HIDE DEF n
  <2>2. Inserts(t)' = Inserts(t) \union
           (IF m.event.event \in InsertEvents /\ Category[m.event.event] = t
            THEN {n + 1} ELSE {})
    BY <2>1, AppendedInserts
  <2> QED
    BY <1>2, <2>1, <2>2
<1>4. IsFiniteSet(Inserts(t)) /\ Inserts(t) \subseteq 1..n
  BY <1>1, InsertsAreFinite
<1>5. k \in Nat /\ DOMAIN api_db.tables[t] = 1..k
  BY <1>1, LenProperties DEF Tables
<1>6. /\ e.event \in SKIP_EVENTS => api_db'.tables = api_db.tables
      /\ e.event \notin SKIP_EVENTS => api_db'.tables = ExecuteEvent(api_db.tables, e)
  BY <1>0, ParsedFields
<1>7. CASE e.event \in InsertEvents /\ Category[e.event] = t
  <2>1. /\ NextRowid(api_db.tables[t]) = k + 1
        /\ DOMAIN ExecuteEvent(api_db.tables, e)[t] = 1..(k + 1)
        /\ \A r \in 1..k : ExecuteEvent(api_db.tables, e)[t][r] = api_db.tables[t][r]
        /\ ExecuteEvent(api_db.tables, e)[t][k + 1] = Row(e)
    <3>1. ASSUME NEW c, c = Category[e.event], NEW l, l = Len(api_db.tables[c])
          PROVE  /\ NextRowid(api_db.tables[c]) = l + 1
                 /\ DOMAIN ExecuteEvent(api_db.tables, e)[c] = 1..(l + 1)
                 /\ \A r \in 1..l : ExecuteEvent(api_db.tables, e)[c][r] = api_db.tables[c][r]
                 /\ ExecuteEvent(api_db.tables, e)[c][l + 1] = Row(e)
      <4> DEFINE tables == api_db.tables
      <4>1. tables \in Tables /\ l = Len(tables[c]) /\ e.event \in InsertEvents
        BY <1>1, <1>7, <3>1
      <4> HIDE DEF tables
      <4>2. /\ NextRowid(tables[c]) = l + 1
            /\ DOMAIN ExecuteEvent(tables, e)[c] = 1..(l + 1)
            /\ \A r \in 1..l : ExecuteEvent(tables, e)[c][r] = tables[c][r]
            /\ ExecuteEvent(tables, e)[c][l + 1] = Row(e)
        BY <3>1, <4>1, ExecutedInsert
      <4> QED
        BY <4>2 DEF tables
    <3> QED
      BY <1>7, <3>1
  <2>2. api_db'.tables = ExecuteEvent(api_db.tables, e)
    BY <1>6, <1>7, Categories
  <2>3. Row(e).object = e.object
    BY DEF Row
  <2>4. Inserts(t)' = Inserts(t) \union {n + 1}
    BY <1>3, <1>7
  <2>5. api_db'.messages[n + 1].insert_rowid = k + 1
    BY <1>2, <1>3, <1>7, <2>1
  <2>6. api_db'.tables[t][k + 1].object = api_db'.messages[n + 1].event.object
    BY <1>2, <1>3, <2>1, <2>2, <2>3
  <2>7. /\ DOMAIN api_db'.tables[t] = 1..(k + 1)
        /\ \A r \in 1..k : api_db'.tables[t][r] = api_db.tables[t][r]
    BY <2>1, <2>2
  <2> HIDE DEF n, k
  <2> QED
    BY <1>3, <1>4, <1>5, <2>4, <2>5, <2>6, <2>7, ReplayedWithInsert
<1>8. CASE ~ (e.event \in InsertEvents /\ Category[e.event] = t)
  <2>1. Inserts(t)' = Inserts(t)
    BY <1>3, <1>8
  <2>2. \A i \in Inserts(t) : api_db'.messages[i] = api_db.messages[i]
    BY <1>3, <1>4
  <2>3. /\ DOMAIN api_db'.tables[t] = DOMAIN api_db.tables[t]
        /\ \A r \in DOMAIN api_db.tables[t] :
             api_db'.tables[t][r].object = api_db.tables[t][r].object
    <3>1. e.event \in UpdateEvents \/ e.event \in InsertEvents \/ e.event \in SKIP_EVENTS
      BY Categories DEF EventRecord
    <3>2. CASE e.event \in SKIP_EVENTS
      BY <1>6, <3>2
    <3>3. CASE e.event \in UpdateEvents /\ e.event \notin SKIP_EVENTS
      BY <1>1, <1>6, <3>3, ExecutedUpdate
    <3>4. CASE e.event \in InsertEvents /\ e.event \notin SKIP_EVENTS
      <4>1. ASSUME NEW c, c = Category[e.event], NEW l, l = Len(api_db.tables[c])
            PROVE  ExecuteEvent(api_db.tables, e)[t] = api_db.tables[t]
        BY <1>1, <1>8, <3>4, <4>1, ExecutedInsert
      <4>2. ExecuteEvent(api_db.tables, e)[t] = api_db.tables[t]
        BY <4>1
      <4> QED
        BY <1>6, <3>4, <4>2
    <3> QED
      BY <3>1, <3>2, <3>3, <3>4
  <2> QED
    BY <2>1, <2>2, <2>3, ReplayedAsBefore
<1> QED
  BY <1>7, <1>8

\* and the expirations, the addresses' events and the balances those of the messages.
LEMMA ParsedComputed ==
  ASSUME DbTypeOK, RowsAreReplayed, BalancesAreReplayed,
         NEW e \in EventRecord, NEW h \in Seq(EventRecord),
         api_db' = ParseEvent(api_db, e, h)
  PROVE  /\ (api_db.all_expirations =
              UNION {Expiration(api_db.messages[i].event) : i \in DOMAIN api_db.messages})'
         /\ (api_db.address_events =
              {i \in DOMAIN api_db.messages :
                 api_db.messages[i].event.event \in EVENTS_ADDRESS_FIELDS})'
         /\ BalancesAreReplayed'
<1> DEFINE n == Len(api_db.messages)
<1>0. api_db \in ApiDb
  BY DEF DbTypeOK
<1>1. api_db.messages \in Seq(Message) /\ api_db.tables \in Tables
  BY <1>0, DbFields
<1>2. PICK m \in Message : api_db'.messages = Append(api_db.messages, m) /\ m.event = e
  BY <1>1, ParsedMessage
<1>3. /\ n \in Nat /\ DOMAIN api_db.messages = 1..n
      /\ DOMAIN api_db'.messages = 1..(n + 1)
      /\ \A i \in 1..n : api_db'.messages[i] = api_db.messages[i]
      /\ api_db'.messages[n + 1] = m
  BY <1>1, <1>2, AppendedMessages
<1>4. /\ \A a \in Address : api_db'.balances[a] =
              api_db.balances[a] + (IF a = e.object THEN BalanceChange(e) ELSE 0)
      /\ api_db'.all_expirations = api_db.all_expirations \union Expiration(e)
      /\ api_db'.address_events = api_db.address_events \union
              (IF e.event \in EVENTS_ADDRESS_FIELDS THEN {n + 1} ELSE {})
  BY <1>0, ParsedFields
<1>5. 1..(n + 1) = (1..n) \union {n + 1} /\ n + 1 \notin 1..n
  BY <1>3
<1>6. \A i \in 1..n : api_db.messages[i].event \in EventRecord
  <2>1. \A i \in 1..n : api_db.messages[i] \in Message
    BY <1>1, <1>3, ElementOfSeq
  <2> QED
    BY <2>1 DEF Message
<1>7. (api_db.all_expirations =
         UNION {Expiration(api_db.messages[i].event) : i \in DOMAIN api_db.messages})'
  <2> DEFINE ex(i) == Expiration(api_db.messages[i].event)
             next(i) == Expiration(api_db'.messages[i].event)
  <2>1. api_db.all_expirations = UNION {ex(i) : i \in 1..n}
    BY <1>3 DEF RowsAreReplayed
  <2>2. /\ \A i \in 1..n : next(i) = ex(i)
        /\ next(n + 1) = Expiration(e)
    BY <1>2, <1>3
  <2>3. UNION {next(i) : i \in 1..(n + 1)} = api_db.all_expirations \union Expiration(e)
    <3> HIDE DEF ex, next
    <3>1. {next(i) : i \in 1..(n + 1)} = {ex(i) : i \in 1..n} \union {next(n + 1)}
      BY <1>5, <2>2
    <3> QED
      BY <2>1, <2>2, <3>1
  <2> QED
    BY <1>3, <1>4, <2>3
<1>8. (api_db.address_events =
              {i \in DOMAIN api_db.messages :
                 api_db.messages[i].event.event \in EVENTS_ADDRESS_FIELDS})'
  <2>1. api_db.address_events = {i \in 1..n : api_db.messages[i].event.event \in EVENTS_ADDRESS_FIELDS}
    BY <1>3 DEF RowsAreReplayed
  <2> QED
    BY <1>2, <1>3, <1>4, <1>5, <2>1
<1>9. ASSUME NEW a \in Address
      PROVE  api_db'.balances[a] =
               Total([i \in DOMAIN api_db'.messages |->
                        LET x == api_db'.messages[i].event IN
                        IF x.object = a THEN BalanceChange(x) ELSE 0])
  <2> DEFINE f == [i \in DOMAIN api_db.messages |->
                     LET x == api_db.messages[i].event IN
                     IF x.object = a THEN BalanceChange(x) ELSE 0]
             g == [i \in DOMAIN api_db'.messages |->
                     LET x == api_db'.messages[i].event IN
                     IF x.object = a THEN BalanceChange(x) ELSE 0]
  <2>1. DOMAIN f = 1..n /\ DOMAIN g = 1..(n + 1)
    BY <1>3
  <2>2. \A i \in 1..n : f[i] \in Int
    <3>1. \A i \in 1..n : BalanceChange(api_db.messages[i].event) \in Int
      BY <1>6, ChangesAreIntegers
    <3> QED
      BY <2>1, <3>1
  <2>3. \A i \in 1..n : g[i] = f[i]
    BY <1>3, <1>5
  <2>4. g[n + 1] = IF a = e.object THEN BalanceChange(e) ELSE 0
    <3>1. n + 1 \in 1..(n + 1)
      BY <1>3
    <3> QED
      BY <1>2, <1>3, <3>1
  <2>5. g[n + 1] \in Int
    BY <2>4, ChangesAreIntegers
  <2>6. api_db.balances[a] = Total(f)
    BY DEF BalancesAreReplayed
  <2>7. n \in Nat
    BY <1>3
  <2> HIDE DEF f, g, n
  <2>8. Total(g) = Total(f) + g[n + 1]
    BY <2>1, <2>2, <2>3, <2>5, <2>7, TotalOfLonger
  <2>9. Total(g) = api_db'.balances[a]
    BY <1>4, <2>4, <2>6, <2>8
  <2> QED
    BY <2>9 DEF g
<1>10. BalancesAreReplayed'
  BY <1>9 DEF BalancesAreReplayed
<1> QED
  BY <1>7, <1>8, <1>10

\* The tables of which one event inserts the rows.
LEMMA InsertersOf ==
  ASSUME NEW x \in DOMAIN Category
  PROVE  /\ x \in InsertEvents /\ Category[x] = "assets" <=> x = "ASSET_CREATION"
         /\ x \in InsertEvents /\ Category[x] = "order_expirations" <=> x = "ORDER_EXPIRATION"
<1>1. DOMAIN Category =
        {"NEW_BLOCK", "BLOCK_PARSED", "OPEN_ORDER", "ORDER_UPDATE", "ORDER_EXPIRATION",
         "CREDIT", "DEBIT", "ASSET_CREATION", "ASSET_ISSUANCE", "ASSET_DESTRUCTION",
         "BURN", "ASSET_DIVIDEND", "NEW_TRANSACTION_OUTPUT"}
  BY DEF Category
<1>2. Category[x] = "assets" <=> x = "ASSET_CREATION"
  BY <1>1 DEF Category
<1>3. Category[x] = "order_expirations" <=> x = "ORDER_EXPIRATION"
  BY <1>1 DEF Category
<1>4. "ASSET_CREATION" \in InsertEvents /\ "ORDER_EXPIRATION" \in InsertEvents
  BY DEF InsertEvents, UpdateEvents, SKIP_EVENTS, Category
<1> QED
  BY <1>2, <1>3, <1>4

\* The two tables that the proofs single out.
LEMMA AssetsTable ==
  /\ "assets" \in EventTables /\ "order_expirations" \in EventTables
<1>1. /\ "ASSET_CREATION" \in InsertEvents /\ "ORDER_EXPIRATION" \in InsertEvents
      /\ Category["ASSET_CREATION"] = "assets"
      /\ Category["ORDER_EXPIRATION"] = "order_expirations"
  BY DEF InsertEvents, UpdateEvents, SKIP_EVENTS, Category
<1> QED
  BY <1>1, Categories

\* The events of the messages are well formed.
LEMMA MessageEvents ==
  ASSUME api_db.messages \in Seq(Message), NEW i \in DOMAIN api_db.messages
  PROVE  /\ api_db.messages[i] \in Message
         /\ api_db.messages[i].event \in EventRecord
         /\ api_db.messages[i].event.event \in DOMAIN Category
<1>1. api_db.messages[i] \in Message
  BY LenProperties, ElementOfSeq
<1>2. api_db.messages[i].event \in EventRecord
  BY <1>1 DEF Message
<1> QED
  BY <1>1, <1>2 DEF EventRecord

\* There is a row of assets when there is a message of its creation.
LEMMA CreatedHasRow ==
  ASSUME api_db.messages \in Seq(Message), TableIsReplayed("assets")
  PROVE  HasAsset(api_db.tables) <=> Created # {}
<1>1. Inserts("assets") = Created
  BY MessageEvents, InsertersOf DEF Inserts, Created
<1>2. DOMAIN api_db.tables["assets"]
        = {api_db.messages[i].insert_rowid : i \in Inserts("assets")}
  BY DEF TableIsReplayed
<1> QED
  BY <1>1, <1>2 DEF HasAsset

\* No order expires twice: the statement would raise.
LEMMA ParsedExpirations ==
  ASSUME DbTypeOK, RowsAreReplayed, ExpiredOnce, OnlyUpdatesHaveAState,
         NEW e \in EventRecord, NEW h \in Seq(EventRecord),
         ~ ConstraintError(api_db.tables, e),
         api_db' = ParseEvent(api_db, e, h)
  PROVE  ExpiredOnce' /\ OnlyUpdatesHaveAState'
<1> DEFINE t == "order_expirations"
<1>0. api_db \in ApiDb
  BY DEF DbTypeOK
<1>1. api_db.messages \in Seq(Message) /\ api_db.tables \in Tables
  BY <1>0, DbFields
<1>2. PICK m \in Message :
           /\ api_db'.messages = Append(api_db.messages, m)
           /\ m.event = e
           /\ m.previous_state # Null => e.event \in UpdateEvents
  BY <1>1, ParsedMessage
<1>3. PICK n : n = Len(api_db.messages)
  OBVIOUS
<1>4. /\ n \in Nat /\ DOMAIN api_db.messages = 1..n
      /\ DOMAIN api_db'.messages = 1..(n + 1)
      /\ \A i \in 1..n : api_db'.messages[i] = api_db.messages[i]
      /\ api_db'.messages[n + 1] = m
  BY <1>1, <1>2, <1>3, AppendedMessages
<1>5. Inserts(t)' = Inserts(t) \union
        (IF e.event \in InsertEvents /\ Category[e.event] = t THEN {n + 1} ELSE {})
  BY <1>2, <1>4, AppendedInserts
<1>6. Inserts(t) \subseteq 1..n
  BY <1>4 DEF Inserts
<1>7. ASSUME e.event \in InsertEvents, Category[e.event] = t, NEW i \in Inserts(t)
      PROVE  api_db.messages[i].event.object # e.object
  <2>1. TableIsReplayed(t)
    BY AssetsTable DEF RowsAreReplayed
  <2>2. /\ api_db.messages[i].insert_rowid \in DOMAIN api_db.tables[t]
        /\ api_db.tables[t][api_db.messages[i].insert_rowid].object
             = api_db.messages[i].event.object
    BY <2>1 DEF TableIsReplayed
  <2>3. t \in UniqueTables
    BY DEF UniqueTables
  <2> QED
    BY <1>7, <2>2, <2>3 DEF ConstraintError
<1>8. ASSUME NEW i \in Inserts(t)', NEW j \in Inserts(t)', i # j
      PROVE  api_db'.messages[i].event.object # api_db'.messages[j].event.object
  <2>1. CASE i \in Inserts(t) /\ j \in Inserts(t)
    BY <1>4, <1>6, <1>8, <2>1 DEF ExpiredOnce
  <2>2. CASE i \in Inserts(t) /\ j \notin Inserts(t)
    <3>1. j = n + 1 /\ e.event \in InsertEvents /\ Category[e.event] = t
      BY <1>5, <2>2
    <3> QED
      BY <1>2, <1>4, <1>6, <1>7, <2>2, <3>1
  <2>3. CASE i \notin Inserts(t) /\ j \in Inserts(t)
    <3>1. i = n + 1 /\ e.event \in InsertEvents /\ Category[e.event] = t
      BY <1>5, <2>3
    <3> QED
      BY <1>2, <1>4, <1>6, <1>7, <2>3, <3>1
  <2>4. CASE i \notin Inserts(t) /\ j \notin Inserts(t)
    BY <1>5, <1>8, <2>4
  <2> QED
    BY <2>1, <2>2, <2>3, <2>4
<1>9. ASSUME NEW i \in 1..(n + 1), api_db'.messages[i].previous_state # Null
      PROVE  api_db'.messages[i].event.event \in UpdateEvents
  <2>1. i \in 1..n \/ i = n + 1
    BY <1>4
  <2> QED
    BY <1>2, <1>4, <1>9, <2>1 DEF OnlyUpdatesHaveAState
<1> QED
  BY <1>4, <1>8, <1>9 DEF ExpiredOnce, OnlyUpdatesHaveAState

----------------------------------------------------------------------------
\* The sums over the messages that SuppliesAreTracked compares the supplies with.
XcpChanges == [i \in DOMAIN api_db.messages |-> XcpSupplyChange(api_db.messages[i].event)]
Changes == [i \in DOMAIN api_db.messages |->
              IF \E c \in Created : c < i THEN SupplyChange(api_db.messages[i].event) ELSE 0]

\* Both are sums of integers, one for each message.
LEMMA ChangesType ==
  ASSUME api_db.messages \in Seq(Message), NEW n, n = Len(api_db.messages)
  PROVE  /\ n \in Nat
         /\ DOMAIN XcpChanges = 1..n /\ \A i \in 1..n : XcpChanges[i] \in Int
         /\ DOMAIN Changes = 1..n /\ \A i \in 1..n : Changes[i] \in Int
         /\ Total(XcpChanges) \in Int /\ Total(Changes) \in Int
<1>1. n \in Nat /\ DOMAIN api_db.messages = 1..n
  BY LenProperties
<1>2. \A i \in 1..n : /\ XcpSupplyChange(api_db.messages[i].event) \in Int
                      /\ SupplyChange(api_db.messages[i].event) \in Int
  BY <1>1, MessageEvents, ChangesAreIntegers
<1>3. DOMAIN XcpChanges = 1..n /\ \A i \in 1..n : XcpChanges[i] \in Int
  BY <1>1, <1>2 DEF XcpChanges
<1>4. DOMAIN Changes = 1..n /\ \A i \in 1..n : Changes[i] \in Int
  BY <1>1, <1>2 DEF Changes
<1> QED
  BY <1>1, <1>3, <1>4, TotalType

\* Parsing an event changes a supply by what it changes the sum over the messages.
LEMMA ParsedSupplies ==
  ASSUME DbTypeOK, RowsAreReplayed, NoAssetNoSupply,
         NEW e \in EventRecord, NEW h \in Seq(EventRecord),
         api_db' = ParseEvent(api_db, e, h)
  PROVE  NoAssetNoSupply' /\ XcpSupplyDrift' = XcpSupplyDrift /\ SupplyDrift' = SupplyDrift
<1>0. api_db \in ApiDb
  BY DEF DbTypeOK
<1>1. api_db.messages \in Seq(Message) /\ api_db.supply \in Int /\ api_db.xcp_supply \in Int
      /\ api_db.tables \in Tables
  BY <1>0, DbFields
<1>2. PICK m \in Message : api_db'.messages = Append(api_db.messages, m) /\ m.event = e
  BY <1>1, ParsedMessage
<1>3. PICK n : n = Len(api_db.messages)
  OBVIOUS
<1>4. /\ n \in Nat /\ DOMAIN api_db.messages = 1..n
      /\ DOMAIN api_db'.messages = 1..(n + 1)
      /\ \A i \in 1..n : api_db'.messages[i] = api_db.messages[i]
      /\ api_db'.messages[n + 1] = m
  BY <1>1, <1>2, <1>3, AppendedMessages
<1>5. /\ Created \subseteq 1..n
      /\ Created' = Created \union (IF e.event = "ASSET_CREATION" THEN {n + 1} ELSE {})
  BY <1>2, <1>4, AppendedCreated
<1>6. /\ api_db'.supply = IF e.event \in SKIP_EVENTS THEN api_db.supply
                          ELSE IF HasAsset(api_db.tables)
                               THEN api_db.supply + SupplyChange(e) ELSE 0
      /\ api_db'.xcp_supply = api_db.xcp_supply + XcpSupplyChange(e)
  BY <1>0, ParsedFields
<1>7. /\ SupplyChange(e) \in Int /\ XcpSupplyChange(e) \in Int
      /\ e.event \in SKIP_EVENTS \union {"ASSET_CREATION"} => SupplyChange(e) = 0
  <2>1. SupplyChange(e) \in Int /\ XcpSupplyChange(e) \in Int
    BY ChangesAreIntegers
  <2>2. e.event \in SKIP_EVENTS \union {"ASSET_CREATION"} => SupplyChange(e) = 0
    BY DEF SupplyChange, SKIP_EVENTS
  <2> QED
    BY <2>1, <2>2
<1>8. HasAsset(api_db.tables) <=> Created # {}
  <2>1. TableIsReplayed("assets")
    BY AssetsTable DEF RowsAreReplayed
  <2> QED
    BY <1>1, <2>1, CreatedHasRow
\* After the event the supply is 0 as long as there is no asset,
<1>9. NoAssetNoSupply'
  BY <1>5, <1>6, <1>8 DEF NoAssetNoSupply
<1>10. /\ DOMAIN XcpChanges = 1..n /\ \A i \in 1..n : XcpChanges[i] \in Int
       /\ DOMAIN Changes = 1..n /\ \A i \in 1..n : Changes[i] \in Int
       /\ Total(XcpChanges) \in Int /\ Total(Changes) \in Int
  BY <1>1, <1>3, ChangesType
<1>11. n + 1 \in 1..(n + 1) /\ 1..n \subseteq 1..(n + 1)
  BY <1>4
<1>12. /\ DOMAIN XcpChanges' = 1..(n + 1)
       /\ \A i \in 1..n : XcpChanges'[i] = XcpChanges[i]
       /\ XcpChanges'[n + 1] = XcpSupplyChange(e)
  BY <1>2, <1>4, <1>11 DEF XcpChanges
<1>13. Total(XcpChanges') = Total(XcpChanges) + XcpSupplyChange(e)
  <2>1. PICK f, g : f = XcpChanges /\ g = XcpChanges'
    OBVIOUS
  <2>2. /\ DOMAIN f = 1..n /\ DOMAIN g = 1..(n + 1)
        /\ \A i \in 1..n : f[i] \in Int /\ g[i] = f[i]
        /\ g[n + 1] = XcpSupplyChange(e) /\ g[n + 1] \in Int
    BY <1>7, <1>10, <1>12, <2>1
  <2>3. Total(g) = Total(f) + g[n + 1]
    BY <1>4, <2>2, TotalOfLonger
  <2> QED
    BY <2>1, <2>2, <2>3
<1>14. XcpSupplyDrift' = XcpSupplyDrift
  <2>1. XcpSupplyDrift = api_db.xcp_supply - Total(XcpChanges)
    BY DEF XcpSupplyDrift, XcpChanges
  <2>2. XcpSupplyDrift' = api_db'.xcp_supply - Total(XcpChanges')
    BY DEF XcpSupplyDrift, XcpChanges
  <2> QED
    BY <1>1, <1>6, <1>7, <1>10, <1>13, <2>1, <2>2
\* and it and the sum change by the same.
<1>15. /\ DOMAIN Changes' = 1..(n + 1)
       /\ \A i \in 1..n : Changes'[i] = Changes[i]
       /\ Changes'[n + 1] = IF Created # {} THEN SupplyChange(e) ELSE 0
  <2>1. \A i \in 1..n : (\E c \in Created' : c < i) <=> (\E c \in Created : c < i)
    <3>1. \A i \in 1..n : ~ (n + 1 < i)
      BY <1>4
    <3> QED
      BY <1>5, <3>1
  <2>2. (\E c \in Created' : c < n + 1) <=> Created # {}
    <3>1. \A c \in Created : c < n + 1
      BY <1>4, <1>5
    <3>2. ~ (n + 1 < n + 1)
      BY <1>4
    <3> QED
      BY <1>5, <3>1, <3>2
  <2>3. Changes' = [i \in 1..(n + 1) |->
          IF \E c \in Created' : c < i THEN SupplyChange(api_db'.messages[i].event) ELSE 0]
    BY <1>4 DEF Changes
  <2>4. \A i \in 1..n : Changes[i] =
          IF \E c \in Created : c < i THEN SupplyChange(api_db.messages[i].event) ELSE 0
    BY <1>4 DEF Changes
  <2> QED
    BY <1>2, <1>4, <1>11, <2>1, <2>2, <2>3, <2>4
<1>16. Total(Changes') = Total(Changes) + (IF Created # {} THEN SupplyChange(e) ELSE 0)
  <2>1. PICK f, g : f = Changes /\ g = Changes'
    OBVIOUS
  <2>2. /\ DOMAIN f = 1..n /\ DOMAIN g = 1..(n + 1)
        /\ \A i \in 1..n : f[i] \in Int /\ g[i] = f[i]
        /\ g[n + 1] = (IF Created # {} THEN SupplyChange(e) ELSE 0) /\ g[n + 1] \in Int
    BY <1>7, <1>10, <1>15, <2>1
  <2>3. Total(g) = Total(f) + g[n + 1]
    BY <1>4, <2>2, TotalOfLonger
  <2> QED
    BY <2>1, <2>2, <2>3
<1>17. api_db'.supply = api_db.supply + (IF Created # {} THEN SupplyChange(e) ELSE 0)
  BY <1>1, <1>6, <1>7, <1>8 DEF NoAssetNoSupply
<1>18. SupplyDrift' = SupplyDrift
  <2>1. SupplyDrift = api_db.supply - Total(Changes)
    BY DEF SupplyDrift, Changes
  <2>2. SupplyDrift' = api_db'.supply - Total(Changes')
    BY DEF SupplyDrift, Changes
  <2> QED
    BY <1>1, <1>7, <1>10, <1>16, <1>17, <2>1, <2>2
<1> QED
  BY <1>9, <1>14, <1>18

\* Parsing an event, in all.
LEMMA ParsedReplay ==
  ASSUME DbReplay, NEW e \in EventRecord, NEW h \in Seq(EventRecord), h # <<>>, Last(h) = e,
         ~ ConstraintError(api_db.tables, e),
         api_db' = ParseEvent(api_db, e, h)
  PROVE  DbReplay' /\ XcpSupplyDrift' = XcpSupplyDrift /\ SupplyDrift' = SupplyDrift
<1>1. DbTypeOK /\ RowsAreReplayed /\ BalancesAreReplayed /\ ExpiredOnce
      /\ OnlyUpdatesHaveAState /\ NoAssetNoSupply
  BY DEF DbReplay, TablesAreReplayed
<1>2. DbTypeOK'
  BY <1>1, ParsedType
<1>3. \A t \in EventTables : TableIsReplayed(t)'
  BY <1>1, ParsedTables DEF RowsAreReplayed
<1>4. /\ (api_db.all_expirations =
             UNION {Expiration(api_db.messages[i].event) : i \in DOMAIN api_db.messages})'
      /\ (api_db.address_events =
             {i \in DOMAIN api_db.messages :
                api_db.messages[i].event.event \in EVENTS_ADDRESS_FIELDS})'
      /\ BalancesAreReplayed'
  BY <1>1, ParsedComputed
<1>5. RowsAreReplayed'
  BY <1>3, <1>4 DEF RowsAreReplayed
<1>6. ExpiredOnce' /\ OnlyUpdatesHaveAState'
  BY <1>1, ParsedExpirations
<1>7. NoAssetNoSupply' /\ XcpSupplyDrift' = XcpSupplyDrift /\ SupplyDrift' = SupplyDrift
  BY <1>1, ParsedSupplies
<1> QED
  BY <1>2, <1>4, <1>5, <1>6, <1>7 DEF DbReplay, TablesAreReplayed

----------------------------------------------------------------------------
\* What rollback_event can undo: it deletes the row of an insert, or restores the state
\* that an update overwrote.
LEMMA UndoableMessage ==
  ASSUME DbTypeOK, OnlyUpdatesHaveAState, \A t \in EventTables : TableIsReplayed(t),
         api_db.messages # <<>>, ~ CannotUndo(api_db, LastMessage),
         LastMessage.event.event \notin SKIP_EVENTS
  PROVE  \/ /\ LastMessage.event.event \in InsertEvents
            /\ LastMessage.previous_state = Null
         \/ /\ LastMessage.event.event \in UpdateEvents
            /\ LastMessage.previous_state \in Status
<1>0. api_db \in ApiDb
  BY DEF DbTypeOK
<1>1. api_db.messages \in Seq(Message) /\ api_db.tables \in Tables
  BY <1>0, DbFields
<1>2. PICK n : n = Len(api_db.messages)
  OBVIOUS
<1>3. n \in Nat \ {0} /\ DOMAIN api_db.messages = 1..n /\ LastMessage = api_db.messages[n]
  BY <1>1, <1>2, LenProperties, EmptySeq DEF LastMessage, Last
<1>4. LastMessage \in Message /\ LastMessage.event.event \in DOMAIN Category
  BY <1>1, <1>3, MessageEvents
<1>5. CASE LastMessage.previous_state # Null
  <2>1. LastMessage.event.event \in UpdateEvents
    BY <1>3, <1>5 DEF OnlyUpdatesHaveAState
  <2> QED
    BY <1>4, <1>5, <2>1 DEF Message
<1>6. CASE LastMessage.previous_state = Null
  <2>1. ASSUME LastMessage.event.event \in UpdateEvents PROVE FALSE
    <3>1. LastMessage.event.event \notin InsertEvents
      BY <2>1, Categories
    <3>2. LastMessage.insert_rowid = 0
      <4>1. LastMessage.insert_rowid \in Nat
        BY <1>4 DEF Message
      <4>2. ~ (LastMessage.insert_rowid > 0)
        BY <1>3, <3>1 DEF DbTypeOK
      <4> QED
        BY <4>1, <4>2
    <3> DEFINE c == Category[LastMessage.event.event]
    <3>3. c \in EventTables
      BY <2>1, Categories
    <3>4. 0 \notin DOMAIN api_db.tables[c]
      <4>1. /\ api_db.tables[c] \in Seq(TableRow)
        BY <1>1, <3>3 DEF Tables
      <4> QED
        BY <4>1, LenProperties
    <3> QED
      BY <1>6, <3>2, <3>4 DEF CannotUndo
  <2> QED
    BY <1>4, <1>6, <2>1, Categories
<1> QED
  BY <1>5, <1>6

\* What rollback_event writes in the API database, field by field.
LEMMA UndoneMessages ==
  ASSUME api_db \in ApiDb, NEW m \in Message, api_db' = UndoEvent(api_db, m)
  PROVE  /\ api_db'.messages = Front(api_db.messages)
         /\ m.event.event \in SKIP_EVENTS => api_db'.tables = api_db.tables
         /\ m.event.event \notin SKIP_EVENTS =>
              api_db'.tables = UndoStatement(api_db.tables, m)
         /\ api_db'.all_expirations = api_db.all_expirations \ Expiration(m.event)
         /\ api_db'.address_events =
              IF m.event.event \in SKIP_EVENTS THEN api_db.address_events
              ELSE api_db.address_events \ {Len(api_db.messages)}
<1>1. CASE m.event.event \in SKIP_EVENTS
  <2>1. api_db' = [api_db EXCEPT !.messages = Front(@)]
    BY <1>1 DEF UndoEvent
  <2>2. Expiration(m.event) = {}
    BY <1>1 DEF Expiration, SKIP_EVENTS
  <2> QED
    BY <1>1, <2>1, <2>2 DEF ApiDb
<1>2. CASE m.event.event \notin SKIP_EVENTS
  BY <1>2 DEF UndoEvent
<1> QED
  BY <1>1, <1>2

\* The balances, from which the change of the event is taken,
LEMMA UndoneBalances ==
  ASSUME api_db \in ApiDb, NEW m \in Message, api_db' = UndoEvent(api_db, m),
         NEW a \in Address
  PROVE  api_db'.balances[a] =
           api_db.balances[a] - (IF a = m.event.object THEN BalanceChange(m.event) ELSE 0)
<1>1. api_db.balances[a] \in Int
  BY DbFields
<1>2. BalanceChange(m.event) \in Int
  BY ChangesAreIntegers DEF Message
<1>3. CASE m.event.event \in SKIP_EVENTS
  <2>1. api_db' = [api_db EXCEPT !.messages = Front(@)]
    BY <1>3 DEF UndoEvent
  <2>2. BalanceChange(m.event) = 0
    BY <1>3 DEF BalanceChange, SKIP_EVENTS
  <2>3. api_db'.balances = api_db.balances
    BY <2>1 DEF ApiDb
  <2> QED
    BY <1>1, <2>2, <2>3
<1>4. CASE m.event.event \notin SKIP_EVENTS
  <2>1. api_db'.balances = UpdateBalances(api_db.balances, m.event, RevertedBalance(m.event))
    BY <1>4 DEF UndoEvent
  <2>2. api_db'.balances[a] =
          api_db.balances[a] + (IF a = m.event.object THEN 0 - BalanceChange(m.event) ELSE 0)
    BY <2>1 DEF UpdateBalances, RevertedBalance
  <2> QED
    BY <1>1, <1>2, <2>2
<1> QED
  BY <1>3, <1>4

\* and the supplies.
LEMMA UndoneSupplies ==
  ASSUME api_db \in ApiDb, NEW m \in Message, api_db' = UndoEvent(api_db, m)
  PROVE  /\ api_db'.supply = IF m.event.event \in SKIP_EVENTS THEN api_db.supply
                             ELSE SupplyUndone(api_db.supply, api_db'.tables, m.event)
         /\ api_db'.xcp_supply = api_db.xcp_supply - XcpSupplyChange(m.event)
<1>1. CASE m.event.event \in SKIP_EVENTS
  <2>1. api_db' = [api_db EXCEPT !.messages = Front(@)]
    BY <1>1 DEF UndoEvent
  <2>2. XcpSupplyChange(m.event) = 0
    BY <1>1 DEF XcpSupplyChange, SKIP_EVENTS
  <2>3. api_db'.supply = api_db.supply /\ api_db'.xcp_supply = api_db.xcp_supply
    BY <2>1 DEF ApiDb
  <2> QED
    BY <1>1, <2>2, <2>3, DbFields
<1>2. CASE m.event.event \notin SKIP_EVENTS
  BY <1>2 DEF UndoEvent
<1> QED
  BY <1>1, <1>2

\* An update written back to a row.
LEMMA RestoredEvent ==
  ASSUME NEW m \in Message, m.previous_state \in Status
  PROVE  /\ [m.event EXCEPT !.status = m.previous_state] \in EventRecord
         /\ [m.event EXCEPT !.status = m.previous_state].event = m.event.event
<1>1. m.event \in EventRecord
  BY DEF Message
<1> QED
  BY <1>1 DEF EventRecord

\* Undoing an event leaves every table the rows of the inserts that are left.
LEMMA UndoneTables ==
  ASSUME DbTypeOK, OnlyUpdatesHaveAState, \A u \in EventTables : TableIsReplayed(u),
         api_db.messages # <<>>, ~ CannotUndo(api_db, LastMessage),
         api_db' = UndoEvent(api_db, LastMessage)
  PROVE  api_db'.tables \in Tables /\ \A t \in EventTables : TableIsReplayed(t)'
<1> DEFINE m == LastMessage
           e == m.event
<1>0. api_db \in ApiDb
  BY DEF DbTypeOK
<1>1. api_db.messages \in Seq(Message) /\ api_db.tables \in Tables
  BY <1>0, DbFields
<1>2. PICK n : n = Len(api_db.messages)
  OBVIOUS
<1>3. m \in Message
  BY <1>1, LenProperties, EmptySeq, ElementOfSeq DEF LastMessage, Last
<1>4. /\ api_db'.messages = Front(api_db.messages)
      /\ e.event \in SKIP_EVENTS => api_db'.tables = api_db.tables
      /\ e.event \notin SKIP_EVENTS => api_db'.tables = UndoStatement(api_db.tables, m)
  BY <1>0, <1>3, UndoneMessages
<1>5. /\ n \in Nat \ {0} /\ n - 1 \in Nat /\ DOMAIN api_db.messages = 1..n
      /\ m = api_db.messages[n]
      /\ DOMAIN api_db'.messages = 1..(n - 1)
      /\ \A i \in 1..(n - 1) : api_db'.messages[i] = api_db.messages[i]
  BY <1>1, <1>2, <1>4, DroppedMessage
<1>6. ASSUME NEW t \in EventTables
      PROVE  /\ n \in Inserts(t) <=> e.event \in InsertEvents /\ Category[e.event] = t
             /\ Inserts(t)' = Inserts(t) \ {n}
             /\ IsFiniteSet(Inserts(t)) /\ Inserts(t) \subseteq 1..n
  <2>1. /\ n \in Inserts(t) <=> e.event \in InsertEvents /\ Category[e.event] = t
        /\ Inserts(t)' = Inserts(t) \ {n}
    BY <1>5, DroppedInserts
  <2>2. IsFiniteSet(Inserts(t)) /\ Inserts(t) \subseteq 1..n
    BY <1>1, <1>2, InsertsAreFinite
  <2> QED
    BY <2>1, <2>2
<1>7. e.event \in DOMAIN Category
  BY <1>3 DEF Message, EventRecord
<1> HIDE DEF m
\* A table of which no row was inserted by the event.
<1>8. ASSUME NEW t \in EventTables, ~ (e.event \in InsertEvents /\ Category[e.event] = t),
             DOMAIN api_db'.tables[t] = DOMAIN api_db.tables[t],
             \A r \in DOMAIN api_db.tables[t] :
               api_db'.tables[t][r].object = api_db.tables[t][r].object
      PROVE  TableIsReplayed(t)'
  <2>1. n \notin Inserts(t) /\ Inserts(t)' = Inserts(t)
    BY <1>6, <1>8
  <2>2. \A i \in Inserts(t) : i \in 1..(n - 1)
    BY <1>5, <1>6, <2>1
  <2>3. \A i \in Inserts(t) : api_db'.messages[i] = api_db.messages[i]
    BY <1>5, <2>2
  <2>4. TableIsReplayed(t)
    OBVIOUS
  <2> QED
    BY <1>8, <2>1, <2>3, <2>4, ReplayedAsBefore
<1>9. CASE e.event \in SKIP_EVENTS
  <2>1. e.event \notin InsertEvents
    BY <1>9, Categories
  <2>2. \A t \in EventTables : TableIsReplayed(t)'
    BY <1>4, <1>8, <1>9, <2>1
  <2> QED
    BY <1>1, <1>4, <1>9, <2>2
<1>10. CASE e.event \in UpdateEvents /\ e.event \notin SKIP_EVENTS /\ m.previous_state \in Status
  <2> DEFINE back == [e EXCEPT !.status = m.previous_state]
  <2>1. back \in EventRecord /\ back.event = e.event
    BY <1>3, <1>10, RestoredEvent
  <2>2. api_db'.tables = ExecuteEvent(api_db.tables, back)
    <3>1. m.previous_state # Null
      BY <1>10 DEF Status, Null
    <3> QED
      BY <1>4, <1>10, <3>1 DEF UndoStatement
  <2> HIDE DEF back
  <2>3. /\ ExecuteEvent(api_db.tables, back) \in Tables
        /\ \A t \in EventTables :
              /\ DOMAIN ExecuteEvent(api_db.tables, back)[t] = DOMAIN api_db.tables[t]
              /\ \A r \in DOMAIN api_db.tables[t] :
                   ExecuteEvent(api_db.tables, back)[t][r].object = api_db.tables[t][r].object
    BY <1>1, <1>10, <2>1, ExecutedUpdate
  <2>4. e.event \notin InsertEvents
    BY <1>10, Categories
  <2>5. \A t \in EventTables : TableIsReplayed(t)'
    BY <1>8, <2>2, <2>3, <2>4
  <2> QED
    BY <2>2, <2>3, <2>5
<1>11. CASE e.event \in InsertEvents /\ e.event \notin SKIP_EVENTS /\ m.previous_state = Null
  <2>1. PICK c : c = Category[e.event]
    OBVIOUS
  <2>2. c \in EventTables
    BY <1>11, <2>1, Categories
  <2>3. PICK k : k = Len(api_db.tables[c])
    OBVIOUS
  <2>4. k \in Nat /\ DOMAIN api_db.tables[c] = 1..k
    BY <1>1, <2>2, <2>3, LenProperties DEF Tables
  <2>5. n \in Inserts(c) /\ TableIsReplayed(c)
    BY <1>6, <1>11, <2>1, <2>2
  <2>6. k # 0 /\ m.insert_rowid = k
    BY <1>5, <1>6, <2>2, <2>4, <2>5, LastInsertHasLastRow
  <2>7. api_db'.tables = [api_db.tables EXCEPT ![c] = [r \in DOMAIN @ \ {k} |-> @[r]]]
    BY <1>4, <1>11, <2>1, <2>6 DEF UndoStatement
  <2>8. /\ api_db'.tables \in Tables
        /\ \A u \in EventTables \ {c} : api_db'.tables[u] = api_db.tables[u]
        /\ DOMAIN api_db'.tables[c] = 1..(k - 1)
        /\ \A r \in 1..(k - 1) : api_db'.tables[c][r] = api_db.tables[c][r]
    <3>1. PICK left : left = [r \in DOMAIN api_db.tables[c] \ {k} |-> api_db.tables[c][r]]
      OBVIOUS
    <3>2. \A r \in 1..k : api_db.tables[c][r] \in TableRow
      BY <1>1, <2>2, <2>3, <2>4, ElementOfSeq DEF Tables
    <3>3. /\ left \in [(1..k) \ {k} -> TableRow]
          /\ \A r \in (1..k) \ {k} : left[r] = api_db.tables[c][r]
      BY <2>4, <3>1, <3>2
    <3>4. PICK tables, new : tables = api_db.tables /\ new = api_db'.tables
      OBVIOUS
    <3>5. /\ tables \in Tables /\ k = Len(tables[c]) /\ new = [tables EXCEPT ![c] = left]
          /\ \A r \in (1..k) \ {k} : left[r] = tables[c][r]
      BY <1>1, <2>3, <2>7, <3>1, <3>3, <3>4
    <3>6. /\ new \in Tables
          /\ \A u \in EventTables \ {c} : new[u] = tables[u]
          /\ DOMAIN new[c] = 1..(k - 1)
          /\ \A r \in 1..(k - 1) : new[c][r] = tables[c][r]
      <4>1. k # 0
        BY <2>6
      <4>2. new \in Tables
        BY <2>2, <3>3, <3>5, <4>1, DeletedRow
      <4>5. \A u \in EventTables \ {c} : new[u] = tables[u]
        BY <2>2, <3>3, <3>5, <4>1, DeletedRow
      <4>6. \A r \in 1..(k - 1) : new[c][r] = tables[c][r]
        BY <2>2, <3>3, <3>5, <4>1, DeletedRow
      <4>3. new[c] = left
        BY <2>2, <3>5 DEF Tables
      <4>4. DOMAIN new[c] = 1..(k - 1)
        BY <2>4, <3>3, <4>3
      <4> QED
        BY <4>2, <4>4, <4>5, <4>6
    <3> QED
      BY <3>4, <3>6
  <2>9. TableIsReplayed(c)'
    <3>1. /\ IsFiniteSet(Inserts(c)) /\ Inserts(c) \subseteq 1..n
          /\ Inserts(c)' = Inserts(c) \ {n}
      BY <1>6, <2>2
    <3> QED
      BY <1>5, <2>4, <2>5, <2>8, <3>1, ReplayedWithoutLast
  <2>10. ASSUME NEW t \in EventTables, t # c
         PROVE  TableIsReplayed(t)'
    <3>1. api_db'.tables[t] = api_db.tables[t]
      BY <2>8, <2>10
    <3> QED
      BY <1>8, <2>1, <2>10, <3>1
  <2> QED
    BY <2>8, <2>9, <2>10
<1>12. e.event \in SKIP_EVENTS \/ (e.event \in InsertEvents /\ m.previous_state = Null)
         \/ (e.event \in UpdateEvents /\ m.previous_state \in Status)
  BY UndoableMessage DEF m
<1> QED
  BY <1>9, <1>10, <1>11, <1>12

\* Undoing an event leaves the computed tables those of the messages that are left.
LEMMA UndoneComputed ==
  ASSUME DbTypeOK, RowsAreReplayed, BalancesAreReplayed, ExpiredOnce, OnlyUpdatesHaveAState,
         api_db.messages # <<>>,
         api_db' = UndoEvent(api_db, LastMessage)
  PROVE  /\ (api_db.all_expirations =
              UNION {Expiration(api_db.messages[i].event) : i \in DOMAIN api_db.messages})'
         /\ (api_db.address_events =
              {i \in DOMAIN api_db.messages :
                 api_db.messages[i].event.event \in EVENTS_ADDRESS_FIELDS})'
         /\ BalancesAreReplayed'
         /\ ExpiredOnce' /\ OnlyUpdatesHaveAState'
<1> DEFINE m == LastMessage
           e == m.event
<1>0. api_db \in ApiDb
  BY DEF DbTypeOK
<1>1. api_db.messages \in Seq(Message) /\ api_db.tables \in Tables
      /\ api_db.balances \in [Address -> Int]
  BY <1>0, DbFields
<1>2. PICK n : n = Len(api_db.messages)
  OBVIOUS
<1>3. m \in Message
  BY <1>1, LenProperties, EmptySeq, ElementOfSeq DEF LastMessage, Last
<1>4. /\ api_db'.messages = Front(api_db.messages)
      /\ \A a \in Address : api_db'.balances[a] =
           api_db.balances[a] - (IF a = e.object THEN BalanceChange(e) ELSE 0)
      /\ api_db'.all_expirations = api_db.all_expirations \ Expiration(e)
      /\ api_db'.address_events =
           IF e.event \in SKIP_EVENTS THEN api_db.address_events
           ELSE api_db.address_events \ {n}
  BY <1>0, <1>2, <1>3, UndoneMessages, UndoneBalances
<1>5. /\ n \in Nat \ {0} /\ n - 1 \in Nat /\ DOMAIN api_db.messages = 1..n
      /\ m = api_db.messages[n]
      /\ DOMAIN api_db'.messages = 1..(n - 1)
      /\ \A i \in 1..(n - 1) : api_db'.messages[i] = api_db.messages[i]
  BY <1>1, <1>2, <1>4, DroppedMessage
<1>6. /\ 1..n = (1..(n - 1)) \union {n} /\ n \notin 1..(n - 1) /\ n \in 1..n
      /\ 1..(n - 1) = (1..n) \ {n}
  BY <1>5
<1>7. \A i \in 1..n : /\ api_db.messages[i].event \in EventRecord
                      /\ api_db.messages[i].event.event \in DOMAIN Category
  BY <1>1, <1>5, MessageEvents
<1> HIDE DEF m
\* No other message has the expiration of the event that is undone.
<1>9. \A i \in 1..(n - 1) : Expiration(api_db.messages[i].event) \cap Expiration(e) = {}
  <2> SUFFICES ASSUME NEW i \in 1..(n - 1),
                      Expiration(api_db.messages[i].event) \cap Expiration(e) # {}
               PROVE  FALSE
    OBVIOUS
  <2>1. /\ api_db.messages[i].event.event = "ORDER_EXPIRATION"
        /\ e.event = "ORDER_EXPIRATION"
        /\ api_db.messages[i].event.object = e.object
    BY DEF Expiration
  <2>2. i \in Inserts("order_expirations") /\ n \in Inserts("order_expirations")
    BY <1>5, <1>6, <1>7, <2>1, InsertersOf DEF Inserts
  <2> QED
    BY <1>5, <1>6, <2>1, <2>2 DEF ExpiredOnce
<1>10. (api_db.all_expirations =
         UNION {Expiration(api_db.messages[i].event) : i \in DOMAIN api_db.messages})'
  <2> DEFINE ex(i) == Expiration(api_db.messages[i].event)
             next(i) == Expiration(api_db'.messages[i].event)
  <2>1. api_db.all_expirations = UNION {ex(i) : i \in 1..n}
    BY <1>5 DEF RowsAreReplayed
  <2>2. \A i \in 1..(n - 1) : next(i) = ex(i) /\ ex(i) \cap Expiration(e) = {}
    BY <1>5, <1>9
  <2>3. ex(n) = Expiration(e)
    BY <1>5
  <2>4. UNION {next(i) : i \in 1..(n - 1)} = api_db.all_expirations \ Expiration(e)
    <3> HIDE DEF ex, next
    <3>1. \A y \in UNION {next(i) : i \in 1..(n - 1)} :
            y \in api_db.all_expirations \ Expiration(e)
      BY <1>6, <2>1, <2>2
    <3>2. \A y \in api_db.all_expirations \ Expiration(e) :
            y \in UNION {next(i) : i \in 1..(n - 1)}
      BY <1>6, <2>1, <2>2, <2>3
    <3> QED
      BY <3>1, <3>2
  <2> QED
    BY <1>4, <1>5, <2>4
<1>11. (api_db.address_events =
              {i \in DOMAIN api_db.messages :
                 api_db.messages[i].event.event \in EVENTS_ADDRESS_FIELDS})'
  <2>1. api_db.address_events = {i \in 1..n : api_db.messages[i].event.event \in EVENTS_ADDRESS_FIELDS}
    BY <1>5 DEF RowsAreReplayed
  <2>2. e.event \in SKIP_EVENTS => e.event \notin EVENTS_ADDRESS_FIELDS
    BY DEF SKIP_EVENTS, EVENTS_ADDRESS_FIELDS
  <2>3. api_db'.address_events = api_db.address_events \ {n}
    BY <1>4, <1>5, <2>1, <2>2
  <2> QED
    BY <1>5, <1>6, <2>1, <2>3
<1>12. ASSUME NEW a \in Address
      PROVE  api_db'.balances[a] =
               Total([i \in DOMAIN api_db'.messages |->
                        LET y == api_db'.messages[i].event IN
                        IF y.object = a THEN BalanceChange(y) ELSE 0])
  <2> DEFINE g == [i \in DOMAIN api_db.messages |->
                     LET y == api_db.messages[i].event IN
                     IF y.object = a THEN BalanceChange(y) ELSE 0]
             f == [i \in DOMAIN api_db'.messages |->
                     LET y == api_db'.messages[i].event IN
                     IF y.object = a THEN BalanceChange(y) ELSE 0]
  <2>1. DOMAIN g = 1..n /\ DOMAIN f = 1..(n - 1)
    BY <1>5
  <2>2. \A i \in 1..n : g[i] \in Int
    <3>1. \A i \in 1..n : BalanceChange(api_db.messages[i].event) \in Int
      BY <1>7, ChangesAreIntegers
    <3>2. \A i \in 1..n : g[i] \in {BalanceChange(api_db.messages[i].event), 0}
      BY <1>5
    <3> HIDE DEF g
    <3> QED
      BY <3>1, <3>2
  <2>3. \A i \in 1..(n - 1) : f[i] = g[i]
    BY <1>5, <1>6
  <2>4. g[n] = IF a = e.object THEN BalanceChange(e) ELSE 0
    BY <1>5, <1>6
  <2>5. api_db.balances[a] = Total(g)
    BY DEF BalancesAreReplayed
  <2> HIDE DEF f, g
  <2>6. PICK l \in Nat : l = n - 1
    BY <1>5
  <2>7. /\ DOMAIN f = 1..l /\ DOMAIN g = 1..(l + 1)
        /\ \A i \in 1..l : f[i] \in Int /\ g[i] = f[i]
        /\ g[l + 1] \in Int /\ l + 1 = n
    BY <1>5, <1>6, <2>1, <2>2, <2>3, <2>6
  <2>8. Total(f) \in Int /\ Total(g) = Total(f) + g[l + 1]
    BY <2>7, TotalOfLonger
  <2>9. Total(f) = api_db'.balances[a]
    BY <1>4, <2>4, <2>5, <2>7, <2>8
  <2> QED
    BY <2>9 DEF f
<1>13. BalancesAreReplayed'
  BY <1>12 DEF BalancesAreReplayed
<1>14. ExpiredOnce'
  <2>1. Inserts("order_expirations")' = Inserts("order_expirations") \ {n}
    BY <1>5, DroppedInserts
  <2>2. Inserts("order_expirations") \subseteq 1..n
    BY <1>5 DEF Inserts
  <2> QED
    BY <1>5, <1>6, <2>1, <2>2 DEF ExpiredOnce
<1>15. OnlyUpdatesHaveAState'
  BY <1>5, <1>6 DEF OnlyUpdatesHaveAState
<1> QED
  BY <1>10, <1>11, <1>13, <1>14, <1>15

\* The AssetCache holds at most one supply.
CacheTypeOK == AssetCache \in Seq(Int) /\ Len(AssetCache) <= 1

\* Undoing an event keeps the type of the API database.
LEMMA UndoneType ==
  ASSUME DbTypeOK, CacheTypeOK, OnlyUpdatesHaveAState,
         \A u \in EventTables : TableIsReplayed(u),
         api_db.messages # <<>>, ~ CannotUndo(api_db, LastMessage),
         api_db' = UndoEvent(api_db, LastMessage)
  PROVE  DbTypeOK'
<1>0. api_db \in ApiDb
  BY DEF DbTypeOK
<1>1. /\ api_db.messages \in Seq(Message) /\ api_db.tables \in Tables
      /\ api_db.balances \in [Address -> Int]
      /\ api_db.all_expirations \in SUBSET (Nat \X Nat)
      /\ api_db.supply \in Int /\ api_db.xcp_supply \in Int
      /\ api_db.address_events \in SUBSET Nat
  BY <1>0, DbFields
<1>2. PICK m, n : m = LastMessage /\ n = Len(api_db.messages)
  OBVIOUS
<1>3. m \in Message /\ m.event \in EventRecord
  <2>1. m \in Message
    BY <1>1, <1>2, LenProperties, EmptySeq, ElementOfSeq DEF LastMessage, Last
  <2> QED
    BY <2>1 DEF Message
<1>4. api_db' = UndoEvent(api_db, m)
  BY <1>2
<1>5. api_db'.messages = Front(api_db.messages)
  BY <1>0, <1>3, <1>4, UndoneMessages
<1>6. /\ n \in Nat \ {0} /\ DOMAIN api_db.messages = 1..n
      /\ api_db'.messages \in Seq(Message)
      /\ DOMAIN api_db'.messages = 1..(n - 1)
      /\ \A i \in 1..(n - 1) : api_db'.messages[i] = api_db.messages[i]
  BY <1>1, <1>2, <1>5, DroppedMessage
<1>7. api_db'.tables \in Tables
  BY UndoneTables
<1>8. CachedSupply(api_db'.tables) \in Int
  BY <1>7, CachedSupplyType DEF CacheTypeOK
<1>9. /\ BalanceChange(m.event) \in Int /\ SupplyChange(m.event) \in Int
      /\ XcpSupplyChange(m.event) \in Int
  BY <1>3, ChangesAreIntegers
<1>10. api_db' \in ApiDb
  <2>1. CASE m.event.event \in SKIP_EVENTS
    <3>1. PICK x : api_db' = [api_db EXCEPT !.messages = x]
      BY <1>4, <2>1 DEF UndoEvent
    <3>2. api_db'.messages = x
      BY <1>0, <3>1 DEF ApiDb
    <3> QED
      BY <1>0, <1>6, <3>1, <3>2 DEF ApiDb
  <2>2. CASE m.event.event \notin SKIP_EVENTS
    <3>1. PICK x, y, b, s, ev, tb :
            /\ api_db' = [messages |-> x, tables |-> tb, balances |-> b,
                          all_expirations |-> ev,
                          supply |-> s, xcp_supply |-> api_db.xcp_supply - XcpSupplyChange(m.event),
                          address_events |-> y]
            /\ ev = api_db.all_expirations \ Expiration(m.event)
            /\ s = SupplyUndone(api_db.supply, tb, m.event)
            /\ y = api_db.address_events \ {n}
            /\ b = UpdateBalances(api_db.balances, m.event, RevertedBalance(m.event))
      BY <1>2, <1>4, <2>2 DEF UndoEvent
    <3>2. x \in Seq(Message) /\ tb \in Tables /\ tb = api_db'.tables
      BY <1>6, <1>7, <3>1
    <3>3. s \in Int
      BY <1>1, <1>8, <1>9, <3>1, <3>2 DEF SupplyUndone
    <3>4. b \in [Address -> Int]
      BY <1>1, <1>9, <3>1 DEF UpdateBalances, RevertedBalance
    <3>5. api_db.xcp_supply - XcpSupplyChange(m.event) \in Int
      BY <1>1, <1>9
    <3>6. y \in SUBSET Nat /\ ev \in SUBSET (Nat \X Nat)
      BY <1>1, <3>1
    <3> QED
      BY <3>1, <3>2, <3>3, <3>4, <3>5, <3>6 DEF ApiDb, Tables
  <2> QED
    BY <2>1, <2>2
<1> QED
  BY <1>6, <1>10 DEF DbTypeOK

\* Undoing an event changes a supply by what it changes the sum over the messages, but for
\* an issuance, after which it is refreshed, and the creation of the asset.
LEMMA UndoneSupplyKept ==
  ASSUME DbTypeOK, NoAssetNoSupply, RowsAreReplayed,
         TableIsReplayed("assets")',
         api_db.messages # <<>>,
         api_db' = UndoEvent(api_db, LastMessage)
  PROVE  NoAssetNoSupply' /\ XcpSupplyDrift' = XcpSupplyDrift
         /\ (UndoesIssuance \/ SupplyDrift' = SupplyDrift)
<1>0. api_db \in ApiDb
  BY DEF DbTypeOK
<1>1. /\ api_db.messages \in Seq(Message) /\ api_db.supply \in Int /\ api_db.xcp_supply \in Int
  BY <1>0, DbFields
<1>2. PICK m, n : m = LastMessage /\ n = Len(api_db.messages)
  OBVIOUS
<1>3. m \in Message /\ m.event \in EventRecord
  <2>1. m \in Message
    BY <1>1, <1>2, LenProperties, EmptySeq, ElementOfSeq DEF LastMessage, Last
  <2> QED
    BY <2>1 DEF Message
<1>4. api_db' = UndoEvent(api_db, m)
  BY <1>2
<1>5. /\ api_db'.messages = Front(api_db.messages)
      /\ api_db'.supply = IF m.event.event \in SKIP_EVENTS THEN api_db.supply
                          ELSE SupplyUndone(api_db.supply, api_db'.tables, m.event)
      /\ api_db'.xcp_supply = api_db.xcp_supply - XcpSupplyChange(m.event)
  BY <1>0, <1>3, <1>4, UndoneMessages, UndoneSupplies
<1>6. /\ n \in Nat \ {0} /\ n - 1 \in Nat /\ DOMAIN api_db.messages = 1..n
      /\ api_db'.messages \in Seq(Message) /\ Len(api_db'.messages) = n - 1
      /\ DOMAIN api_db'.messages = 1..(n - 1)
      /\ \A i \in 1..(n - 1) : api_db'.messages[i] = api_db.messages[i]
      /\ m = api_db.messages[n]
  BY <1>1, <1>2, <1>5, DroppedMessage
<1>7. /\ Created \subseteq 1..n
      /\ n \in Created <=> m.event.event = "ASSET_CREATION"
      /\ Created' = Created \ {n}
  BY <1>6, DroppedCreated
<1>8. /\ SupplyChange(m.event) \in Int /\ XcpSupplyChange(m.event) \in Int
      /\ m.event.event \in SKIP_EVENTS => SupplyChange(m.event) = 0
  <2>1. SupplyChange(m.event) \in Int /\ XcpSupplyChange(m.event) \in Int
    BY <1>3, ChangesAreIntegers
  <2>2. m.event.event \in SKIP_EVENTS => SupplyChange(m.event) = 0
    BY DEF SupplyChange, SKIP_EVENTS
  <2> QED
    BY <2>1, <2>2
<1>9. HasAsset(api_db'.tables) <=> Created' # {}
  <2>1. Inserts("assets")' = Created'
    <3>1. \A i \in DOMAIN api_db'.messages : api_db'.messages[i].event.event \in DOMAIN Category
      BY <1>1, <1>6, MessageEvents
    <3> QED
      BY <3>1, InsertersOf DEF Inserts, Created
  <2>2. DOMAIN api_db'.tables["assets"]
          = {api_db'.messages[i].insert_rowid : i \in Inserts("assets")'}
    BY DEF TableIsReplayed
  <2> QED
    BY <2>1, <2>2 DEF HasAsset
<1>10. NoAssetNoSupply'
  <2>1. CASE Created' = {} /\ m.event.event \in SKIP_EVENTS
    <3>1. m.event.event # "ASSET_CREATION"
      BY <2>1 DEF SKIP_EVENTS
    <3>2. Created = {}
      BY <1>7, <2>1, <3>1
    <3> QED
      BY <1>5, <2>1, <3>2 DEF NoAssetNoSupply
  <2>2. CASE Created' = {} /\ m.event.event \notin SKIP_EVENTS
    <3>1. api_db'.supply = SupplyUndone(api_db.supply, api_db'.tables, m.event)
      BY <1>5, <2>2
    <3>2. ~ HasAsset(api_db'.tables)
      BY <1>9, <2>2
    <3>3. api_db'.supply = 0
      BY <3>1, <3>2 DEF SupplyUndone
    <3> QED
      BY <3>3 DEF NoAssetNoSupply
  <2> QED
    BY <2>1, <2>2 DEF NoAssetNoSupply
<1>11. /\ \A i \in 1..n : XcpChanges[i] \in Int /\ Changes[i] \in Int
       /\ DOMAIN XcpChanges = 1..n /\ DOMAIN Changes = 1..n
  BY <1>1, <1>2, ChangesType
<1>12. PICK l \in Nat : l = n - 1
  BY <1>6
<1>13. l + 1 = n /\ n \in 1..n /\ \A i \in 1..l : i \in 1..n /\ i # n
  BY <1>6, <1>12
<1>14. XcpSupplyDrift' = XcpSupplyDrift
  <2>1. PICK f, g : g = XcpChanges /\ f = XcpChanges'
    OBVIOUS
  <2>2. DOMAIN f = 1..l /\ \A i \in 1..l : f[i] = g[i]
    BY <1>6, <1>12, <1>13, <2>1 DEF XcpChanges
  <2>3. g[n] = XcpSupplyChange(m.event)
    BY <1>6, <1>13, <2>1 DEF XcpChanges
  <2>4. /\ DOMAIN g = 1..(l + 1) /\ g[l + 1] \in Int /\ \A i \in 1..l : f[i] \in Int /\ g[i] = f[i]
    BY <1>11, <1>13, <2>1, <2>2
  <2>5. Total(f) \in Int /\ Total(g) = Total(f) + g[l + 1]
    BY <2>2, <2>4, TotalOfLonger
  <2>6. XcpSupplyDrift = api_db.xcp_supply - Total(g)
    BY <2>1 DEF XcpSupplyDrift, XcpChanges
  <2>7. XcpSupplyDrift' = api_db'.xcp_supply - Total(f)
    BY <2>1 DEF XcpSupplyDrift, XcpChanges
  <2> QED
    BY <1>1, <1>5, <1>8, <1>13, <2>3, <2>5, <2>6, <2>7
<1>15. CASE m.event.event \in {"ASSET_CREATION", "ASSET_ISSUANCE"}
  <2>1. Len(api_db'.messages) < Len(api_db.messages)
    BY <1>2, <1>6
  <2> QED
    BY <1>2, <1>10, <1>14, <1>15, <2>1 DEF UndoesIssuance
<1>16. CASE m.event.event \notin {"ASSET_CREATION", "ASSET_ISSUANCE"}
  <2>1. Created' = Created /\ n \notin Created
    BY <1>7, <1>16
  <2>2. PICK f, g : g = Changes /\ f = Changes'
    OBVIOUS
  <2>3. DOMAIN f = 1..l /\ \A i \in 1..l : f[i] = g[i]
    BY <1>6, <1>12, <1>13, <2>1, <2>2 DEF Changes
  <2>4. g[n] = IF Created # {} THEN SupplyChange(m.event) ELSE 0
    <3>1. (\E c \in Created : c < n) <=> Created # {}
      <4>1. \A c \in Created : c < n
        BY <1>6, <1>7, <2>1
      <4> QED
        BY <4>1
    <3> QED
      BY <1>6, <1>13, <2>2, <3>1 DEF Changes
  <2>5. /\ DOMAIN g = 1..(l + 1) /\ g[l + 1] \in Int /\ \A i \in 1..l : f[i] \in Int /\ g[i] = f[i]
    BY <1>11, <1>13, <2>2, <2>3
  <2>6. Total(f) \in Int /\ Total(g) = Total(f) + g[l + 1]
    BY <2>3, <2>5, TotalOfLonger
  <2>7. SupplyDrift = api_db.supply - Total(g)
    BY <2>2 DEF SupplyDrift, Changes
  <2>8. SupplyDrift' = api_db'.supply - Total(f)
    BY <2>2 DEF SupplyDrift, Changes
  <2>9. api_db'.supply = api_db.supply - (IF Created # {} THEN SupplyChange(m.event) ELSE 0)
    <3>1. CASE m.event.event \in SKIP_EVENTS
      BY <1>1, <1>5, <1>8, <3>1
    <3>2. CASE m.event.event \notin SKIP_EVENTS /\ Created = {}
      <4>1. api_db'.supply = 0 /\ api_db.supply = 0
        BY <1>10, <2>1, <3>2 DEF NoAssetNoSupply
      <4> QED
        BY <3>2, <4>1
    <3>3. CASE m.event.event \notin SKIP_EVENTS /\ Created # {}
      <4>1. HasAsset(api_db'.tables)
        BY <1>9, <2>1, <3>3
      <4>2. api_db'.supply = api_db.supply - SupplyChange(m.event)
        BY <1>5, <1>16, <3>3, <4>1 DEF SupplyUndone
      <4> QED
        BY <3>3, <4>2
    <3> QED
      BY <3>1, <3>2, <3>3
  <2>10. SupplyDrift' = SupplyDrift
    BY <1>1, <1>8, <1>13, <2>4, <2>6, <2>7, <2>8, <2>9
  <2> QED
    BY <1>10, <1>14, <2>10
<1> QED
  BY <1>15, <1>16

\* TypeOK, as far as it is about the rest.
ControlTypeOK ==
  /\ journal \in Seq(EventRecord)
  /\ CacheTypeOK
  /\ pc \in {"missing", "compare", "count", "next", "refresh", "peek", "fetch", "dead"}
  /\ caller \in {"catch_up", "follow"}
  /\ reorgs \in 0..MaxReorgs /\ restarts \in 0..MaxRestarts

\* The inductive invariant.
ReplayInv == DbReplay /\ ControlTypeOK

\* TypeOK, in the two parts that the proofs treat apart.
LEMMA TypeParts == TypeOK <=> DbTypeOK /\ ControlTypeOK
BY DEF TypeOK, DbTypeOK, ControlTypeOK, CacheTypeOK

\* What SuppliesAreTracked says of a step.
Tracked ==
  \/ UNCHANGED api_db
  \/ /\ pc = "refresh" \/ XcpSupplyDrift' = XcpSupplyDrift
     /\ UndoesIssuance \/ SupplyDrift' = SupplyDrift

\* Steps that leave the API database alone.
LEMMA DbUnchanged == ASSUME DbReplay, UNCHANGED api_db PROVE DbReplay'
<1>1. DbTypeOK'
  BY DEF DbReplay, DbTypeOK
<1>2. \A t \in EventTables : TableIsReplayed(t)'
  BY DEF DbReplay, TablesAreReplayed, RowsAreReplayed, TableIsReplayed, Inserts
<1>3. RowsAreReplayed'
  BY <1>2 DEF DbReplay, TablesAreReplayed, RowsAreReplayed
<1>4. BalancesAreReplayed'
  BY DEF DbReplay, TablesAreReplayed, BalancesAreReplayed
<1>5. ExpiredOnce' /\ OnlyUpdatesHaveAState' /\ NoAssetNoSupply'
  BY DEF DbReplay, ExpiredOnce, OnlyUpdatesHaveAState, NoAssetNoSupply, Inserts, Created
<1> QED
  BY <1>1, <1>3, <1>4, <1>5 DEF DbReplay, TablesAreReplayed

\* refresh_xcp_supply writes one field.
LEMMA DbRefreshed ==
  ASSUME DbReplay, NEW x \in Int, api_db' = [api_db EXCEPT !.xcp_supply = x]
  PROVE  DbReplay' /\ SupplyDrift' = SupplyDrift
<1>0. api_db \in ApiDb
  BY DEF DbReplay, DbTypeOK
<1>1. /\ api_db'.messages = api_db.messages /\ api_db'.tables = api_db.tables
      /\ api_db'.balances = api_db.balances
      /\ api_db'.all_expirations = api_db.all_expirations
      /\ api_db'.supply = api_db.supply
      /\ api_db'.address_events = api_db.address_events
  BY <1>0 DEF ApiDb
<1>2. DbTypeOK'
  BY <1>0, <1>1 DEF DbReplay, DbTypeOK, ApiDb
<1>3. \A t \in EventTables : TableIsReplayed(t)'
  <2> SUFFICES ASSUME NEW t \in EventTables PROVE TableIsReplayed(t)'
    OBVIOUS
  <2>1. TableIsReplayed(t)
    BY DEF DbReplay, TablesAreReplayed, RowsAreReplayed
  <2>2. Inserts(t)' = Inserts(t)
    BY <1>1 DEF Inserts
  <2> QED
    BY <1>1, <2>1, <2>2, ReplayedAsBefore
<1>4. RowsAreReplayed'
  BY <1>1, <1>3 DEF DbReplay, TablesAreReplayed, RowsAreReplayed
<1>5. BalancesAreReplayed'
  BY <1>1 DEF DbReplay, TablesAreReplayed, BalancesAreReplayed
<1>6. ExpiredOnce' /\ OnlyUpdatesHaveAState' /\ NoAssetNoSupply'
  BY <1>1 DEF DbReplay, ExpiredOnce, OnlyUpdatesHaveAState, NoAssetNoSupply, Inserts, Created
<1>7. SupplyDrift' = SupplyDrift
  BY <1>1 DEF SupplyDrift, Created
<1> QED
  BY <1>2, <1>4, <1>5, <1>6, <1>7 DEF DbReplay, TablesAreReplayed

\* A step that parses the next event, or kills the thread.
LEMMA ParseReplays ==
  ASSUME ReplayInv, NextIndex \in DOMAIN journal, NEW then, Parse(journal[NextIndex], then)
  PROVE  /\ DbReplay' /\ Tracked
         /\ pc' \in {then, "dead"} /\ UNCHANGED <<AssetCache, caller>>
<1>1. CASE ConstraintError(api_db.tables, journal[NextIndex])
  BY <1>1, DbUnchanged DEF Parse, Die, ReplayInv, Tracked
<1>2. CASE ~ ConstraintError(api_db.tables, journal[NextIndex])
  <2>1. PICK e, h, i : e = journal[NextIndex] /\ h = EventHash(NextIndex) /\ i = NextIndex
    OBVIOUS
  <2>2. /\ journal \in Seq(EventRecord) /\ i \in 1..Len(journal) /\ Len(journal) \in Nat
    BY <2>1, LenProperties DEF ReplayInv, ControlTypeOK
  <2>3. e \in EventRecord
    BY <2>1, <2>2, ElementOfSeq
  <2>4. /\ h \in Seq(EventRecord) /\ h # <<>> /\ Last(h) = e
    <3>1. h = SubSeq(journal, 1, i)
      BY <2>1 DEF EventHash
    <3>2. \A j \in 1..i : journal[j] \in EventRecord
      BY <2>2, ElementOfSeq
    <3>3. i \in Int /\ 1 <= i /\ i - 1 + 1 = i /\ 1 + i - 1 = i
      BY <2>2
    <3>4. /\ SubSeq(journal, 1, i) \in Seq(EventRecord)
          /\ Len(SubSeq(journal, 1, i)) = (IF 1 <= i THEN i - 1 + 1 ELSE 0)
          /\ \A j \in 1..(i - 1 + 1) : SubSeq(journal, 1, i)[j] = journal[1 + j - 1]
      BY <3>2, <3>3, SubSeqProperties
    <3>5. Len(h) = i /\ h[i] = journal[i]
      BY <3>1, <3>3, <3>4
    <3>6. h # <<>>
      BY <3>3, <3>5, EmptySeq
    <3> QED
      BY <2>1, <3>1, <3>4, <3>5, <3>6 DEF Last
  <2>5. api_db' = ParseEvent(api_db, e, h) /\ pc' = then /\ UNCHANGED <<AssetCache, caller>>
    BY <1>2, <2>1 DEF Parse
  <2>6. ~ ConstraintError(api_db.tables, e)
    BY <1>2, <2>1
  <2>7. DbReplay' /\ XcpSupplyDrift' = XcpSupplyDrift /\ SupplyDrift' = SupplyDrift
    BY <2>3, <2>4, <2>5, <2>6, ParsedReplay DEF ReplayInv
  <2> QED
    BY <2>5, <2>7 DEF Tracked
<1> QED
  BY <1>1, <1>2

\* A step that undoes the last event, or kills the thread.
LEMMA UndoReplays ==
  ASSUME ReplayInv, api_db.messages # <<>>, NEW then, RollbackEvent(then)
  PROVE  /\ DbReplay' /\ Tracked /\ CacheTypeOK'
         /\ pc' \in {then, "dead"} /\ UNCHANGED caller
<1>0. DbReplay /\ CacheTypeOK
  BY DEF ReplayInv, ControlTypeOK
<1>1. CASE CannotUndo(api_db, LastMessage)
  BY <1>0, <1>1, DbUnchanged DEF RollbackEvent, Die, Tracked, CacheTypeOK
<1>2. CASE ~ CannotUndo(api_db, LastMessage)
  <2>1. /\ api_db' = UndoEvent(api_db, LastMessage)
        /\ AssetCache' \in {<<CachedSupply(api_db'.tables)>>, AssetCache}
        /\ pc' \in {then, "dead"} /\ UNCHANGED caller
    BY <1>2 DEF RollbackEvent
  <2>2. /\ DbTypeOK /\ RowsAreReplayed /\ BalancesAreReplayed /\ ExpiredOnce
        /\ OnlyUpdatesHaveAState /\ NoAssetNoSupply
        /\ \A u \in EventTables : TableIsReplayed(u)
    BY <1>0 DEF DbReplay, TablesAreReplayed, RowsAreReplayed
  <2>3. api_db'.tables \in Tables /\ \A t \in EventTables : TableIsReplayed(t)'
    BY <1>2, <2>1, <2>2, UndoneTables
  <2>4. DbTypeOK'
    BY <1>0, <1>2, <2>1, <2>2, UndoneType
  <2>5. /\ (api_db.all_expirations =
              UNION {Expiration(api_db.messages[i].event) : i \in DOMAIN api_db.messages})'
        /\ (api_db.address_events =
              {i \in DOMAIN api_db.messages :
                 api_db.messages[i].event.event \in EVENTS_ADDRESS_FIELDS})'
        /\ BalancesAreReplayed' /\ ExpiredOnce' /\ OnlyUpdatesHaveAState'
    BY <2>1, <2>2, UndoneComputed
  <2>6. RowsAreReplayed'
    BY <2>3, <2>5 DEF RowsAreReplayed
  <2>7. TableIsReplayed("assets")'
    BY <2>3, AssetsTable
  <2>8. NoAssetNoSupply' /\ XcpSupplyDrift' = XcpSupplyDrift
         /\ (UndoesIssuance \/ SupplyDrift' = SupplyDrift)
    BY <2>1, <2>2, <2>7, UndoneSupplyKept
  <2>9. CacheTypeOK'
    <3>1. /\ <<CachedSupply(api_db'.tables)>> \in Seq(Int)
          /\ Len(<<CachedSupply(api_db'.tables)>>) <= 1
      BY <1>0, <2>3, CachedSupplyType DEF CacheTypeOK
    <3> QED
      BY <1>0, <2>1, <3>1 DEF CacheTypeOK
  <2> QED
    BY <2>1, <2>4, <2>5, <2>6, <2>8, <2>9 DEF DbReplay, TablesAreReplayed, Tracked
<1> QED
  BY <1>1, <1>2

\* What the ledger writes are events.
LEMMA CommitIsTyped ==
  ASSUME journal \in Seq(EventRecord), reorgs \in Nat, CommitBlock
  PROVE  journal' \in Seq(EventRecord)
<1>1. PICK body \in Body, hash \in 0..reorgs :
        journal' = journal \o BlockEvents(LastBlock + 1, hash, body)
  BY DEF CommitBlock
<1>2. LastBlock \in Nat
  BY LastBlockIsNat
<1>3. BlockEvents(LastBlock + 1, hash, body) \in Seq(EventRecord)
  BY <1>2, EventsAreRecords
<1> QED
  BY <1>1, <1>3, ConcatProperties

\* What a rollback leaves in the ledger.
LEMMA RollbackIsTyped ==
  ASSUME journal \in Seq(EventRecord), RollbackLedger
  PROVE  journal' \in Seq(EventRecord)
<1>1. PICK b : journal' = SubSeq(journal, 1,
                 Cardinality({i \in DOMAIN journal : journal[i].block_index < b}))
  BY DEF RollbackLedger
<1> DEFINE S == {i \in DOMAIN journal : journal[i].block_index < b}
<1>2. DOMAIN journal = 1..Len(journal) /\ Len(journal) \in Nat
  BY LenProperties
<1>3. PICK k : k = Cardinality(S)
  OBVIOUS
<1>4. k \in Nat /\ k <= Len(journal)
  <2>1. IsFiniteSet(1..Len(journal)) /\ Cardinality(1..Len(journal)) = Len(journal)
    BY <1>2, FS_Interval
  <2>2. S \subseteq 1..Len(journal)
    BY <1>2
  <2> HIDE DEF S
  <2>3. IsFiniteSet(S) /\ Cardinality(S) <= Cardinality(1..Len(journal))
    BY <2>1, <2>2, FS_Subset
  <2> QED
    BY <1>3, <2>1, <2>3, FS_CardinalityType
<1>5. \A i \in 1..k : journal[i] \in EventRecord
  BY <1>2, <1>4, ElementOfSeq
<1>6. SubSeq(journal, 1, k) \in Seq(EventRecord)
  BY <1>4, <1>5, SubSeqProperties
<1> QED
  BY <1>1, <1>3, <1>6

\* The initial state: no message and no row.
LEMMA ReplayInvInit == Init => ReplayInv
<1> SUFFICES ASSUME Init PROVE ReplayInv
  OBVIOUS
<1>1. api_db = EmptyDb
  BY DEF Init
<1> DEFINE none == [t \in EventTables |-> <<>>]
<1>2. api_db.messages = <<>> /\ api_db.tables = none
  BY <1>1 DEF EmptyDb
<1>3. \A t : Inserts(t) = {}
  BY <1>2 DEF Inserts
<1>4. DbTypeOK
  <2>1. EmptyDb \in ApiDb
    BY DEF EmptyDb, ApiDb
  <2> QED
    BY <1>1, <1>2, <2>1 DEF DbTypeOK
<1>5. \A t \in EventTables : TableIsReplayed(t)
  <2>1. Cardinality({}) = 0
    BY FS_EmptySet
  <2>2. \A t \in EventTables : DOMAIN api_db.tables[t] = {}
    BY <1>2
  <2>3. 1..0 = {}
    OBVIOUS
  <2> QED
    BY <1>3, <2>1, <2>2, <2>3 DEF TableIsReplayed
<1>6. RowsAreReplayed
  <2>1. api_db.all_expirations = {} /\ api_db.address_events = {}
    BY <1>1 DEF EmptyDb
  <2>2. DOMAIN api_db.messages = {}
    BY <1>2
  <2> QED
    BY <1>5, <2>1, <2>2 DEF RowsAreReplayed
<1>7. BalancesAreReplayed
  <2> SUFFICES ASSUME NEW a \in Address
               PROVE  api_db.balances[a] =
                        Total([i \in DOMAIN api_db.messages |->
                                 LET e == api_db.messages[i].event IN
                                 IF e.object = a THEN BalanceChange(e) ELSE 0])
    BY DEF BalancesAreReplayed
  <2>1. api_db.balances[a] = 0
    BY <1>1 DEF EmptyDb
  <2> DEFINE f == [i \in DOMAIN api_db.messages |->
                     LET e == api_db.messages[i].event IN
                     IF e.object = a THEN BalanceChange(e) ELSE 0]
  <2>2. DOMAIN f = {}
    BY <1>2
  <2> HIDE DEF f
  <2>3. Total(f) = 0
    BY <2>2, SumEmpty DEF Total
  <2> QED
    BY <2>1, <2>3 DEF f
<1>8. ExpiredOnce /\ OnlyUpdatesHaveAState /\ NoAssetNoSupply
  <2>1. api_db.supply = 0
    BY <1>1 DEF EmptyDb
  <2> QED
    BY <1>2, <1>3, <2>1 DEF ExpiredOnce, OnlyUpdatesHaveAState, NoAssetNoSupply
<1>9. ControlTypeOK
  <2>1. {MaxReorgs, MaxRestarts} \subseteq Nat
    BY BoundsAssumption
  <2>2. /\ <<>> \in Seq(EventRecord) /\ <<>> \in Seq(Int) /\ Len(<<>>) = 0
    OBVIOUS
  <2> QED
    BY <2>1, <2>2 DEF Init, ControlTypeOK, CacheTypeOK, NoCache
<1> QED
  BY <1>4, <1>6, <1>7, <1>8, <1>9 DEF ReplayInv, DbReplay, TablesAreReplayed

\* Every step of the system.
LEMMA ReplayInvNext ==
  ASSUME ReplayInv, [Next]_vars
  PROVE  ReplayInv' /\ Tracked
<1>0. /\ DbReplay /\ ControlTypeOK /\ CacheTypeOK /\ journal \in Seq(EventRecord)
      /\ reorgs \in 0..MaxReorgs /\ restarts \in 0..MaxRestarts
      /\ MaxReorgs \in Nat /\ MaxRestarts \in Nat
      /\ pc \in {"missing", "compare", "count", "next", "refresh", "peek", "fetch", "dead"}
      /\ caller \in {"catch_up", "follow"}
  BY BoundsAssumption DEF ReplayInv, ControlTypeOK
\* The steps of the watcher that leave the API database alone.
<1>1. ASSUME UNCHANGED <<ledger, api_db, AssetCache, restarts>>,
             pc' \in {"missing", "compare", "count", "next", "refresh", "peek", "fetch", "dead"},
             caller' \in {"catch_up", "follow"}
      PROVE  ReplayInv' /\ Tracked
  BY <1>0, <1>1, DbUnchanged DEF ReplayInv, ControlTypeOK, CacheTypeOK, Tracked, ledger
\* Those that write it.
<1>2. ASSUME UNCHANGED <<ledger, restarts>>, DbReplay', Tracked, CacheTypeOK',
             pc' \in {"missing", "compare", "count", "next", "refresh", "peek", "fetch", "dead"},
             caller' \in {"catch_up", "follow"}
      PROVE  ReplayInv' /\ Tracked
  BY <1>0, <1>2 DEF ReplayInv, ControlTypeOK, ledger
<1>3. ASSUME NEW then, then \in {"missing", "compare", "next"}, NextIndex \in DOMAIN journal,
             Parse(journal[NextIndex], then), UNCHANGED <<ledger, restarts>>
      PROVE  ReplayInv' /\ Tracked
  <2>1. /\ DbReplay' /\ Tracked
        /\ pc' \in {then, "dead"} /\ UNCHANGED <<AssetCache, caller>>
    BY <1>3, ParseReplays
  <2> QED
    BY <1>0, <1>2, <1>3, <2>1 DEF CacheTypeOK
<1>4. ASSUME NEW then, then \in {"missing", "compare", "next"}, api_db.messages # <<>>,
             RollbackEvent(then), UNCHANGED <<ledger, restarts>>
      PROVE  ReplayInv' /\ Tracked
  <2>1. /\ DbReplay' /\ Tracked /\ CacheTypeOK'
        /\ pc' \in {then, "dead"} /\ UNCHANGED caller
    BY <1>4, UndoReplays
  <2> QED
    BY <1>0, <1>2, <1>4, <2>1
<1>5. CASE NothingToCheck
  BY <1>0, <1>1, <1>5 DEF NothingToCheck, AfterCheck
<1>6. CASE UndoMissing
  BY <1>4, <1>6 DEF UndoMissing
<1>7. CASE UndoDivergent
  BY <1>4, <1>7 DEF UndoDivergent
<1>8. CASE CheckDone
  BY <1>0, <1>1, <1>8 DEF CheckDone, AfterCheck
<1>9. CASE CountEvents
  BY <1>0, <1>1, <1>9 DEF CountEvents
<1>10. CASE CatchUpEvent
  <2>1. CASE NextIndex \in DOMAIN journal
    BY <1>3, <1>10, <2>1 DEF CatchUpEvent
  <2>2. CASE NextIndex \notin DOMAIN journal
    BY <1>0, <1>1, <1>10, <2>2 DEF CatchUpEvent
  <2> QED
    BY <2>1, <2>2
<1>11. CASE RefreshXcpSupply
  <2>1. PICK f : f = [i \in DOMAIN journal |-> XcpSupplyChange(journal[i])]
    OBVIOUS
  <2>2. DOMAIN journal = 1..Len(journal) /\ Len(journal) \in Nat
    BY <1>0, LenProperties
  <2>3. \A i \in 1..Len(journal) : f[i] \in Int
    BY <1>0, <2>1, <2>2, ElementOfSeq, ChangesAreIntegers
  <2>4. Total(f) \in Int
    BY <2>1, <2>2, <2>3, TotalType
  <2>5. api_db' = [api_db EXCEPT !.xcp_supply = Total(f)]
    BY <1>11, <2>1 DEF RefreshXcpSupply
  <2>6. DbReplay' /\ SupplyDrift' = SupplyDrift
    BY <1>0, <2>4, <2>5, DbRefreshed
  <2> QED
    BY <1>0, <1>2, <1>11, <2>6 DEF RefreshXcpSupply, CacheTypeOK, Tracked
<1>12. CASE PeekLedger
  BY <1>0, <1>1, <1>12 DEF PeekLedger
<1>13. CASE ParseNextEvent
  <2>1. CASE NextIndex \in DOMAIN journal
    BY <1>3, <1>13, <2>1 DEF ParseNextEvent
  <2>2. CASE NextIndex \notin DOMAIN journal
    BY <1>0, <1>1, <1>13, <2>2 DEF ParseNextEvent, Die
  <2> QED
    BY <2>1, <2>2
<1>14. CASE CommitBlock
  <2>1. journal' \in Seq(EventRecord)
    BY <1>0, <1>14, CommitIsTyped
  <2>2. UNCHANGED <<reorgs, api_db, AssetCache, pc, caller, restarts>>
    BY <1>14 DEF CommitBlock, watcher
  <2> QED
    BY <1>0, <2>1, <2>2, DbUnchanged DEF ReplayInv, ControlTypeOK, CacheTypeOK, Tracked
<1>15. CASE RollbackLedger
  <2>1. journal' \in Seq(EventRecord)
    BY <1>0, <1>15, RollbackIsTyped
  <2>2. UNCHANGED <<api_db, AssetCache, pc, caller, restarts>> /\ reorgs' \in 0..MaxReorgs
    BY <1>0, <1>15 DEF RollbackLedger, watcher
  <2> QED
    BY <1>0, <2>1, <2>2, DbUnchanged DEF ReplayInv, ControlTypeOK, CacheTypeOK, Tracked
<1>16. CASE Restart
  <2>1. UNCHANGED <<ledger, api_db>> /\ restarts' \in 0..MaxRestarts
        /\ pc' = "missing" /\ caller' = "catch_up" /\ AssetCache' = <<>>
    BY <1>0, <1>16 DEF Restart, NoCache
  <2>2. CacheTypeOK'
    <3>1. <<>> \in Seq(Int) /\ Len(<<>>) = 0
      OBVIOUS
    <3> QED
      BY <2>1, <3>1 DEF CacheTypeOK
  <2> QED
    BY <1>0, <2>1, <2>2, DbUnchanged DEF ReplayInv, ControlTypeOK, Tracked, ledger
<1>17. CASE UNCHANGED vars
  BY <1>0, <1>1, <1>17 DEF vars, ledger
<1> QED
  BY <1>5, <1>6, <1>7, <1>8, <1>9, <1>10, <1>11, <1>12, <1>13, <1>14, <1>15, <1>16, <1>17
     DEF Next, Watch

\* Every variable has its type, and every message its: it ends the chain of hashes it was
\* parsed with, and it has a rowid when its event inserted a row.
THEOREM TypeCorrect == Spec => []TypeOK
<1>1. ReplayInv /\ [Next]_vars => ReplayInv'
  BY ReplayInvNext
<1>2. ReplayInv => TypeOK
  BY TypeParts DEF ReplayInv, DbReplay
<1> QED
  BY ReplayInvInit, <1>1, <1>2, PTL DEF Spec

\* Whatever the ledger rolls back, and wherever the API process is killed and started
\* again, every table of the API database holds what the messages that are left say: one
\* row for each insert, in the order of the messages and at the rowid that the message
\* recorded, the expirations and the addresses of the events, and balances that are the
\* sum of the credits and debits.  rollback_event, which deletes by rowid, never takes
\* the row of another event.
THEOREM TablesReplayed == Spec => []TablesAreReplayed
<1>1. ReplayInv /\ [Next]_vars => ReplayInv'
  BY ReplayInvNext
<1>2. ReplayInv => TablesAreReplayed
  BY DEF ReplayInv, DbReplay
<1> QED
  BY ReplayInvInit, <1>1, <1>2, PTL DEF Spec

\* parse_event and rollback_event change the two supplies of assets_info by exactly what
\* they change the sums over the messages, so that what is parsed and undone again leaves
\* no trace in them.  The exceptions are the steps that write a supply read elsewhere:
\* refresh_xcp_supply, and undoing an issuance or the creation of the asset.
THEOREM SuppliesTracked == Spec => SuppliesAreTracked
<1>1. ReplayInv /\ [Next]_vars => ReplayInv'
  BY ReplayInvNext
<1>2. ReplayInv /\ [Next]_vars => [Tracked]_vars
  BY ReplayInvNext
<1>3. SuppliesAreTracked <=> [][Tracked]_vars
  BY PTL DEF SuppliesAreTracked, Tracked
<1> QED
  BY ReplayInvInit, <1>1, <1>2, <1>3, PTL DEF Spec
===============================================================================
