---------------------------- MODULE BlocksProofs ----------------------------
(***************************************************************************)
(* Theorems about the block parser of Blocks, for any labels, any bounds   *)
(* and any list of tables, over every interleaving of reorganizations,     *)
(* crashes, RPC errors and rollback commands: type correctness, no row     *)
(* without its block, CURRENT_BLOCK_INDEX in step with the database, no    *)
(* gap from the fetcher, hand-over at the tip, and blocks that stay linked *)
(* while bitcoind has switched branches at most once.                      *)
(***************************************************************************)
EXTENDS Blocks, SequenceTheorems, TLAPS

----------------------------------------------------------------------------
\* The inductive invariant.

\* A row of `blocks` is at the index of the height of its block.
Heights == \A i \in DOMAIN blocks : Height(blocks[i].hash) = i

\* Where the index and the scan are, at each place of the thread.
Position ==
  /\ pc \in {"loop", "refresh", "subscribe", "follow", "parse"} =>
       CURRENT_BLOCK_INDEX = Len(blocks)
  /\ pc \in {"scan", "reread", "rollback"} => scan <= Len(blocks)
  /\ pc = "commit" => CURRENT_BLOCK_INDEX = Len(blocks) + 1

\* What the block being parsed is, at each place of the thread.
ParsedBlock ==
  /\ pc = "parse" => /\ decoded_block \in Block
                     /\ Height(decoded_block) <= Len(blocks) + 1
  /\ pc = "rollback" /\ caller # "rollback" =>
       decoded_block \in Block /\ Height(decoded_block) = scan + 1
  /\ pc = "commit" => /\ decoded_block \in Block
                      /\ Height(decoded_block) = Len(blocks) + 1

\* A rollback under way has cleaned the tables before its position.
Cleaned ==
  /\ table # 0
  /\ pc = "rollback" =>
       \A i \in DOMAIN TABLES : i < table =>
         \A b \in rows[TABLES[i]] : Height(b) <= scan

IInv ==
  /\ TypeOK
  /\ Heights
  /\ Position
  /\ ParsedBlock
  /\ Cleaned
  /\ RowsHaveTheirBlock

----------------------------------------------------------------------------
\* Blocks are the non-empty sequences of at most MaxHeight labels.
LEMMA BlockIsASequence ==
  ASSUME NEW b \in Block
  PROVE  b \in Seq(Label) /\ Len(b) \in 1..MaxHeight /\ Len(b) \in Nat
<1>1. PICK h \in 1..MaxHeight : b \in [1..h -> Label]
  BY DEF Block
<1>2. b \in Seq(Label) /\ Len(b) = h
  BY <1>1, BoundsAssumption
<1> QED
  BY <1>2, BoundsAssumption

LEMMA SequenceIsABlock ==
  ASSUME NEW s \in Seq(Label), Len(s) \in 1..MaxHeight
  PROVE  s \in Block
BY BoundsAssumption, LenProperties DEF Block

\* The ancestor of a block at a height up to its own is a block of that height.
LEMMA AncestorIsABlock ==
  ASSUME NEW b \in Block, NEW h \in 1..Height(b)
  PROVE  AncestorAt(b, h) \in Block /\ Height(AncestorAt(b, h)) = h
<1>1. b \in Seq(Label) /\ Len(b) \in 1..MaxHeight /\ Len(b) \in Nat
  BY BlockIsASequence
<1>2. \A i \in 1..h : b[i] \in Label
  BY <1>1, ElementOfSeq DEF Height
<1>3. SubSeq(b, 1, h) \in Seq(Label) /\ Len(SubSeq(b, 1, h)) = h
  BY <1>1, <1>2, SubSeqProperties DEF Height
<1>4. h \in 1..MaxHeight
  BY <1>1, BoundsAssumption DEF Height
<1>5. SubSeq(b, 1, h) \in Block
  BY <1>3, <1>4, SequenceIsABlock
<1> QED
  BY <1>3, <1>5 DEF AncestorAt, Height

\* The parent of a block is one lower.
LEMMA ParentIsOneLower ==
  ASSUME NEW b \in Block
  PROVE  Len(ParentOf(b)) = Height(b) - 1 /\ Height(b) \in Nat \ {0}
<1>1. b \in Seq(Label) /\ Len(b) \in 1..MaxHeight /\ Len(b) \in Nat
  BY BlockIsASequence
<1>2. \A i \in 1..(Len(b) - 1) : b[i] \in Label
  BY <1>1, ElementOfSeq
<1> DEFINE n == Len(b) - 1
<1>3. n \in Nat /\ n \in Int /\ 1 \in Int
  BY <1>1, BoundsAssumption
<1>4. Len(SubSeq(b, 1, n)) = IF 1 <= n THEN n - 1 + 1 ELSE 0
  <2> HIDE DEF n
  <2> QED
    BY <1>2, <1>3, SubSeqProperties DEF n
<1>5. Len(SubSeq(b, 1, n)) = n
  <2> HIDE DEF n
  <2> QED
    BY <1>3, <1>4
<1> QED
  BY <1>1, <1>5, BoundsAssumption DEF ParentOf, Height

\* A consensus hash is a sequence of labels.
LEMMA ConsensusHashType ==
  ASSUME NEW previous \in Seq(Label), NEW b \in Block
  PROVE  ConsensusHash(previous, b) \in Seq(Label)
BY BlockIsASequence, ElementOfSeq DEF ConsensusHash, Content

\* The fetcher that was never started is typed.
LEMMA NoFetcherType ==
  NoFetcher \in Fetcher
BY DEF NoFetcher, Fetcher

\* So are a fetcher that is started, one that is stopped, one that sees a new
\* tip, which does not move it, and one after a delivery.
LEMMA FetcherStarted ==
  ASSUME NEW f \in Fetcher, NEW t \in Block, NEW h \in Nat
  PROVE  StartedAt(f, t, h) \in Fetcher /\ StartedAt(f, t, h).next = h
BY DEF Fetcher, StartedAt

LEMMA FetcherStopped ==
  ASSUME NEW f \in Fetcher
  PROVE  Stopped(f) \in Fetcher /\ Stopped(f).next = 0
BY DEF Fetcher, Stopped

LEMMA FetcherWithTip ==
  ASSUME NEW f \in Fetcher, NEW b \in Block
  PROVE  WithTip(f, b) \in Fetcher /\ WithTip(f, b).next = f.next
BY DEF Fetcher, WithTip

LEMMA FetcherDelivery ==
  ASSUME NEW f \in Fetcher, NEW t \in Block, NEW h \in Nat
  PROVE  /\ AfterDelivery(f, t, h) \in Fetcher
         /\ AfterDelivery(f, t, h).next = h + 1
<1> DEFINE n == h + 1
<1>1. n \in Nat
  OBVIOUS
<1> HIDE DEF n
<1>2. [f EXCEPT !.next = n, !.from = t] \in Fetcher
  BY <1>1 DEF Fetcher
<1>3. [f EXCEPT !.next = n, !.from = t].next = n
  BY DEF Fetcher
<1> QED
  BY <1>2, <1>3 DEF AfterDelivery, n

\* The values that the empty sequence takes in an initial state.
LEMMA EmptySequences ==
  /\ <<>> \in Seq(Label) /\ <<>> \in Seq(Block)
  /\ <<>> \in Seq(BlockRow)
BY EmptySeq

\* The initial states satisfy the invariant.
LEMMA InitInvariant == Init => IInv
<1> SUFFICES ASSUME Init PROVE IInv
  OBVIOUS
<1>1. tip \in Block
  <2>1. PICK l \in Label : tip = <<l>>
    BY DEF Init
  <2>2. <<l>> \in Seq(Label) /\ Len(<<l>>) = 1
    OBVIOUS
  <2>3. Len(<<l>>) \in 1..MaxHeight
    BY <2>2, BoundsAssumption
  <2>4. <<l>> \in Block
    <3> DEFINE s == <<l>>
    <3>1. s \in Seq(Label) /\ Len(s) \in 1..MaxHeight
      BY <2>2, <2>3
    <3> HIDE DEF s
    <3>2. s \in Block
      BY <3>1, SequenceIsABlock
    <3> QED
      BY <3>2 DEF s
  <2> QED
    BY <2>1, <2>4
<1>2. blocks = <<>> /\ DOMAIN blocks = {} /\ Len(blocks) = 0
  BY DEF Init
<1>3. rows \in [Table -> SUBSET Block] /\ \A t \in Table : rows[t] = {}
  BY DEF Init
<1>4. TypeOK
  <2>1. blocks \in Seq(BlockRow)
    BY EmptySequences DEF Init
  <2>2. zmq \in Seq(Block) /\ previous_block \in Seq(Label)
    BY EmptySequences DEF Init, Seed
  <2>3. {CURRENT_BLOCK_INDEX, block_count, block_height, scan, table} \subseteq Nat
    BY DEF Init
  <2>4. fetcher \in Fetcher
    BY NoFetcherType DEF Init
  <2> QED
    BY <1>1, <1>3, <2>1, <2>2, <2>3, <2>4 DEF Init, TypeOK
<1> QED
  BY <1>2, <1>3, <1>4
  DEF Init, IInv, Heights, Position, ParsedBlock, Cleaned, RowsHaveTheirBlock

\* What is left when the process is lost satisfies the invariant, if the
\* database does.
LEMMA LosingTheProcess ==
  ASSUME IInv, LoseProcess, UNCHANGED <<bitcoind, db>>,
         failures' \in Nat, commands' \in Nat
  PROVE  IInv'
<1> USE DEF IInv, bitcoind, db
<1>1. TypeOK'
  <2>1. zmq' \in Seq(Block) /\ previous_block' \in Seq(Label)
    BY EmptySequences DEF LoseProcess, Seed
  <2>2. {CURRENT_BLOCK_INDEX, block_count, block_height, scan, table}' \subseteq Nat
    BY DEF LoseProcess
  <2>3. fetcher' \in Fetcher
    BY NoFetcherType DEF LoseProcess
  <2> QED
    BY <2>1, <2>2, <2>3 DEF TypeOK, LoseProcess
<1>2. Heights' /\ RowsHaveTheirBlock'
  BY DEF Heights, RowsHaveTheirBlock, BlocksInDb
<1>3. Position' /\ ParsedBlock' /\ Cleaned'
  BY DEF Position, ParsedBlock, Cleaned, LoseProcess
<1> QED
  BY <1>1, <1>2, <1>3

LEMMA RaisingKeeps ==
  ASSUME IInv, Raise, UNCHANGED <<bitcoind, db>>,
         failures' \in Nat, commands' \in Nat
  PROVE  IInv'
<1>1. CASE LoseProcess
  BY <1>1, LosingTheProcess
<1>2. CASE /\ pc' = "stuck"
           /\ UNCHANGED <<caller, CURRENT_BLOCK_INDEX, catching, parsing,
                          orders_cache, watching, zmq>>
  BY <1>2 DEF IInv, TypeOK, Heights, Position, ParsedBlock, Cleaned,
              RowsHaveTheirBlock, BlocksInDb, bitcoind, db, catching, parsing
<1> QED
  BY <1>1, <1>2 DEF Raise

LEMMA NewTipKeeps == ASSUME IInv, NewTip PROVE IInv'
<1> USE DEF IInv, db, parsing, bounds
<1>1. PICK b \in Block :
        /\ tip' = b
        /\ zmq' = IF watching THEN Append(zmq, b) ELSE zmq
        /\ fetcher' = WithTip(fetcher, b)
        /\ reorgs' \in {reorgs, reorgs + 1}
  BY DEF NewTip
<1>2. zmq' \in Seq(Block) /\ reorgs' \in Nat
  BY <1>1 DEF TypeOK
<1>3. fetcher' \in Fetcher
  BY <1>1, FetcherWithTip DEF TypeOK
<1>4. TypeOK'
  BY <1>1, <1>2, <1>3 DEF TypeOK, NewTip
<1> QED
  BY <1>4 DEF NewTip, Heights, Position, ParsedBlock, Cleaned,
              RowsHaveTheirBlock, BlocksInDb

LEMMA CatchUpKeeps == ASSUME IInv, CatchUp PROVE IInv'
<1> USE DEF IInv, CatchUp, bitcoind, db, parsing, bounds
<1>1. Height(tip) \in Nat /\ LastDbIndex \in Nat
  BY BlockIsASequence DEF TypeOK, Height, LastDbIndex
<1>2. TypeOK'
  BY <1>1, FetcherStopped DEF TypeOK
<1> QED
  BY <1>2 DEF LastDbIndex, Heights, Position, ParsedBlock, Cleaned,
              RowsHaveTheirBlock, BlocksInDb

LEMMA FetchBlockKeeps == ASSUME IInv, FetchBlock PROVE IInv'
<1> USE DEF IInv, bitcoind, db, bounds
<1> DEFINE started == IF fetcher.next = 0
                        THEN StartedFetcher(CURRENT_BLOCK_INDEX + 1) ELSE fetcher
<1>1. started \in Fetcher
  BY FetcherStarted DEF TypeOK, StartedFetcher
<1>2. PICK t \in started.tips : \E h \in 1..Height(t) :
        /\ block_height' = h
        /\ decoded_block' = AncestorAt(t, h)
        /\ fetcher' = AfterDelivery(started, t, h)
        /\ pc' = IF h <= CURRENT_BLOCK_INDEX + 1 THEN "parse" ELSE "gap"
  BY DEF FetchBlock
<1>3. PICK h \in 1..Height(t) :
        /\ block_height' = h
        /\ decoded_block' = AncestorAt(t, h)
        /\ fetcher' = AfterDelivery(started, t, h)
        /\ pc' = IF h <= CURRENT_BLOCK_INDEX + 1 THEN "parse" ELSE "gap"
  BY <1>2
<1>4. t \in Block /\ Height(t) \in Nat /\ h \in Nat
  BY <1>1, <1>2, BlockIsASequence DEF Height, Fetcher
<1>5. AncestorAt(t, h) \in Block /\ Height(AncestorAt(t, h)) = h
  BY <1>4, AncestorIsABlock
<1>6. fetcher' \in Fetcher
  <2> HIDE DEF started
  <2> QED
    BY <1>1, <1>3, <1>4, FetcherDelivery
<1>7. TypeOK'
  BY <1>3, <1>4, <1>5, <1>6 DEF FetchBlock, TypeOK
<1>8. pc = "loop" /\ pc' \in {"parse", "gap"} /\ CURRENT_BLOCK_INDEX = Len(blocks)
  BY <1>3 DEF FetchBlock, Position
<1>9. Position' /\ Cleaned'
  BY <1>8 DEF FetchBlock, Position, Cleaned
<1>10. ParsedBlock'
  BY <1>3, <1>5, <1>8 DEF FetchBlock, ParsedBlock
<1> QED
  BY <1>7, <1>9, <1>10 DEF FetchBlock, Heights, RowsHaveTheirBlock, BlocksInDb

\* The steps that move only the thread and its counters.
LEMMA ThreadStepsKeep ==
  ASSUME IInv, CatchUpDone \/ RefreshBlockCount \/ Subscribe \/ SubscribeFails \/ Restart
  PROVE  IInv'
<1> USE DEF IInv, bitcoind, db, parsing, catching, bounds
<1>1. CASE CatchUpDone
  BY <1>1, FetcherStopped DEF CatchUpDone, TypeOK, Heights, Position, ParsedBlock,
     Cleaned, RowsHaveTheirBlock, BlocksInDb
<1>2. CASE RefreshBlockCount
  <2>1. block_count' \in Nat
    BY <1>2, BlockIsASequence DEF RefreshBlockCount, NextBlockCount, Height, TypeOK
  <2> QED
    BY <1>2, <2>1 DEF RefreshBlockCount, TypeOK, Heights, Position, ParsedBlock,
       Cleaned, RowsHaveTheirBlock, BlocksInDb
<1>3. CASE Subscribe
  BY <1>3, EmptySequences DEF Subscribe, TypeOK, Heights, Position, ParsedBlock,
     Cleaned, RowsHaveTheirBlock, BlocksInDb
<1>4. CASE SubscribeFails
  BY <1>4 DEF SubscribeFails, TypeOK, Heights, Position, ParsedBlock,
     Cleaned, RowsHaveTheirBlock, BlocksInDb
<1>5. CASE Restart
  BY <1>5 DEF Restart, TypeOK, Heights, Position, ParsedBlock,
     Cleaned, RowsHaveTheirBlock, BlocksInDb
<1> QED
  BY <1>1, <1>2, <1>3, <1>4, <1>5

\* A block whose parent is in the database is at most one above its top.
LEMMA ReceiveRawblockKeeps == ASSUME IInv, ReceiveRawblock PROVE IInv'
<1> USE DEF IInv, bitcoind, db, catching, bounds
<1> DEFINE b == Head(zmq)
<1>1. b \in Block /\ Tail(zmq) \in Seq(Block)
  BY DEF ReceiveRawblock, TypeOK
<1>2. /\ decoded_block' = b /\ zmq' = Tail(zmq) /\ caller' = "follow"
      /\ pc' = Handler(b) /\ pc = "follow"
  BY DEF ReceiveRawblock
<1>3. pc' \in {"follow", "parse", "catch_up"}
  BY <1>2 DEF Handler
<1>4. TypeOK'
  BY <1>1, <1>2, <1>3 DEF ReceiveRawblock, TypeOK
<1>5. ASSUME pc' = "parse" PROVE Height(b) <= Len(blocks) + 1
  <2>1. PICK i \in DOMAIN blocks : blocks[i].hash = ParentOf(b)
    BY <1>2, <1>5 DEF Handler, BlocksInDb
  <2>2. Len(ParentOf(b)) = i /\ i <= Len(blocks) /\ i \in Nat
    BY <2>1 DEF Heights, Height, TypeOK
  <2>3. Len(blocks) \in Nat
    BY DEF TypeOK
  <2> HIDE DEF b
  <2>4. Len(ParentOf(b)) = Height(b) - 1 /\ Height(b) \in Nat
    BY <1>1, ParentIsOneLower
  <2> QED
    BY <2>2, <2>3, <2>4
<1>6. Position' /\ ParsedBlock' /\ Cleaned'
  BY <1>1, <1>2, <1>3, <1>5 DEF ReceiveRawblock, Position, ParsedBlock, Cleaned
<1> QED
  BY <1>4, <1>6 DEF ReceiveRawblock, Heights, RowsHaveTheirBlock, BlocksInDb

\* The comparison with the block below gives the height of the parsed block.
LEMMA ParseNewBlockKeeps == ASSUME IInv, ParseNewBlock PROVE IInv'
<1> USE DEF IInv, bitcoind, db, catching, bounds
<1>1. /\ pc = "parse" /\ CURRENT_BLOCK_INDEX = Len(blocks)
      /\ CURRENT_BLOCK_INDEX' = Len(blocks) + 1
      /\ Len(blocks) \in Nat /\ DOMAIN blocks = 1..Len(blocks)
      /\ decoded_block \in Block /\ Height(decoded_block) <= Len(blocks) + 1
  BY DEF ParseNewBlock, Position, ParsedBlock, TypeOK
<1>2. Height(decoded_block) \in Nat \ {0}
  BY <1>1, ParentIsOneLower
<1>3. CASE Len(blocks) = 0
  <2>1. pc' = "commit" /\ previous_block' = Seed /\ scan' = scan
    BY <1>1, <1>3 DEF ParseNewBlock
  <2>2. TypeOK'
    BY <1>1, <2>1, EmptySequences DEF ParseNewBlock, TypeOK, Seed
  <2>3. Height(decoded_block) = Len(blocks) + 1
    BY <1>1, <1>2, <1>3
  <2> QED
    BY <1>1, <2>1, <2>2, <2>3 DEF ParseNewBlock, Heights, Position, ParsedBlock,
       Cleaned, RowsHaveTheirBlock, BlocksInDb
<1>4. CASE Len(blocks) # 0
  <2> DEFINE previous == blocks[Len(blocks)]
  <2>1. previous \in BlockRow /\ Height(previous.hash) = Len(blocks)
    <3>1. Len(blocks) \in DOMAIN blocks
      BY <1>1, <1>4
    <3>2. blocks \in Seq(BlockRow)
      BY DEF TypeOK
    <3>3. previous \in BlockRow
      BY <3>1, <3>2, ElementOfSeq
    <3> QED
      BY <3>1, <3>3 DEF Heights
  <2>2. /\ previous_block' = previous.ledger_hash
        /\ \/ Extends(decoded_block, previous) /\ pc' = "commit" /\ scan' = scan
           \/ pc' = "scan" /\ scan' = Len(blocks)
    BY <1>1, <1>4 DEF ParseNewBlock
  <2>3. TypeOK'
    BY <1>1, <2>1, <2>2 DEF ParseNewBlock, TypeOK, BlockRow
  <2>4. pc' = "commit" => Height(decoded_block) = Len(blocks) + 1
    BY <1>1, <1>2, <2>1, <2>2, ParentIsOneLower DEF Extends, Height, BlockRow
  <2> QED
    BY <1>1, <2>2, <2>3, <2>4 DEF ParseNewBlock, Heights, Position, ParsedBlock,
       Cleaned, RowsHaveTheirBlock, BlocksInDb
<1> QED
  BY <1>3, <1>4

LEMMA ScanBackKeeps == ASSUME IInv, ScanBack PROVE IInv'
<1> USE DEF IInv, bitcoind, db, catching, bounds
<1>1. /\ pc = "scan" /\ scan \in Nat \ {0} /\ scan <= Len(blocks) /\ Len(blocks) \in Nat
      /\ \/ scan' = scan - 1 /\ pc' = "scan"
         \/ scan' = scan /\ pc' = "reread"
  BY DEF ScanBack, Position, TypeOK
<1>2. TypeOK'
  BY <1>1 DEF ScanBack, TypeOK
<1> QED
  BY <1>1, <1>2 DEF ScanBack, Heights, Position, ParsedBlock, Cleaned,
     RowsHaveTheirBlock, BlocksInDb

LEMMA RereadBlockKeeps == ASSUME IInv, RereadBlock PROVE IInv'
<1> USE DEF IInv, bitcoind, db, catching, bounds
<1>1. /\ scan \in Nat /\ scan + 1 \in 1..Height(tip) /\ tip \in Block
      /\ pc' = "rollback" /\ pc = "reread" /\ table' = 1
      /\ decoded_block' = AncestorAt(tip, scan + 1)
  BY BlockIsASequence DEF RereadBlock, TypeOK, Height
<1>2. decoded_block' \in Block /\ Height(decoded_block') = scan + 1
  BY <1>1, AncestorIsABlock
<1>3. TypeOK'
  BY <1>1, <1>2 DEF RereadBlock, TypeOK
<1>4. Cleaned'
  BY <1>1, TablesAssumption DEF Cleaned
<1>5. Position' /\ ParsedBlock'
  BY <1>1, <1>2 DEF RereadBlock, Position, ParsedBlock
<1> QED
  BY <1>3, <1>4, <1>5 DEF RereadBlock, Heights, RowsHaveTheirBlock, BlocksInDb

LEMMA RollbackCommandKeeps == ASSUME IInv, RollbackCommand PROVE IInv'
<1> USE DEF IInv, bitcoind, db, catching
<1>1. PICK n \in DOMAIN blocks : scan' = n - 1
  BY DEF RollbackCommand
<1>2. scan' \in Nat /\ scan' <= Len(blocks)
  BY <1>1 DEF TypeOK
<1>3. TypeOK'
  BY <1>2 DEF RollbackCommand, TypeOK
<1>4. Cleaned'
  BY TablesAssumption DEF RollbackCommand, Cleaned
<1>5. Position' /\ ParsedBlock'
  BY <1>2 DEF RollbackCommand, Position, ParsedBlock
<1> QED
  BY <1>3, <1>4, <1>5 DEF RollbackCommand, Heights, RowsHaveTheirBlock, BlocksInDb

\* A DELETE leaves no row of its table above the scan, and adds none anywhere.
LEMMA CleanTableKeeps == ASSUME IInv, CleanTable PROVE IInv'
<1> USE DEF IInv, bitcoind, catching, bounds
<1> DEFINE t == TABLES[table]
<1>1. t \in Table /\ table \in Nat
  BY DEF CleanTable, Table, TypeOK
<1>2. /\ rows' = [rows EXCEPT ![t] = Kept(t)]
      /\ rows \in [Table -> SUBSET Block]
      /\ Kept(t) \subseteq rows[t] /\ \A b \in Kept(t) : Height(b) <= scan
  BY DEF CleanTable, TypeOK, Kept
<1> HIDE DEF t
<1>3. /\ rows' \in [Table -> SUBSET Block]
      /\ \A u \in Table : rows'[u] \subseteq rows[u]
      /\ rows'[t] = Kept(t)
  BY <1>1, <1>2
<1>4. TypeOK'
  BY <1>1, <1>3 DEF CleanTable, TypeOK
<1>5. Cleaned'
  <2> SUFFICES ASSUME NEW i \in DOMAIN TABLES, i < table', NEW b \in rows'[TABLES[i]]
               PROVE  Height(b) <= scan
    <3>1. table' # 0 /\ scan' = scan
      BY <1>1 DEF CleanTable, parsing
    <3> QED
      BY <3>1 DEF CleanTable, Cleaned
  <2>1. TABLES[i] \in Table /\ i \in Nat
    BY TablesAssumption DEF Table
  <2>2. CASE i = table
    BY <1>2, <1>3, <2>2 DEF t
  <2>3. CASE i < table
    BY <1>3, <2>1, <2>3 DEF CleanTable, Cleaned
  <2> QED
    BY <1>1, <2>1, <2>2, <2>3 DEF CleanTable
<1>6. Position' /\ ParsedBlock' /\ Heights'
  BY DEF CleanTable, Position, ParsedBlock, Heights
<1>7. RowsHaveTheirBlock'
  BY <1>3 DEF CleanTable, RowsHaveTheirBlock, BlocksInDb
<1> QED
  BY <1>4, <1>5, <1>6, <1>7

\* The rows of `blocks` up to the scan are those of the blocks up to its height.
LEMMA CleanBlocksKeeps == ASSUME IInv, CleanBlocks PROVE IInv'
<1> USE DEF IInv, bitcoind, bounds
<1>1. /\ scan \in Nat /\ scan <= Len(blocks) /\ Len(blocks) \in Nat
      /\ blocks \in Seq(BlockRow) /\ DOMAIN blocks = 1..Len(blocks)
      /\ blocks' = SubSeq(blocks, 1, scan) /\ pc = "rollback"
      /\ table \notin DOMAIN TABLES
  BY DEF CleanBlocks, Position, TypeOK
<1>2. /\ blocks' \in Seq(BlockRow) /\ Len(blocks') = scan
      /\ DOMAIN blocks' = 1..scan /\ \A i \in 1..scan : blocks'[i] = blocks[i]
  BY <1>1
<1>3. Heights'
  BY <1>1, <1>2 DEF Heights
<1>4. RowsHaveTheirBlock'
  <2> SUFFICES ASSUME NEW t \in Table, NEW b \in rows[t]
               PROVE  \E i \in 1..scan : blocks[i].hash = b
    BY <1>2 DEF CleanBlocks, RowsHaveTheirBlock, BlocksInDb
  <2>1. PICK i \in 1..Len(blocks) : blocks[i].hash = b
    BY <1>1 DEF RowsHaveTheirBlock, BlocksInDb
  <2>2. PICK j \in DOMAIN TABLES : TABLES[j] = t
    BY DEF Table
  <2>3. j < table
    <3>1. table \in Nat \ {0}
      BY DEF TypeOK, Cleaned
    <3>2. DOMAIN TABLES = 1..Len(TABLES) /\ Len(TABLES) \in Nat /\ j \in Nat
      BY <2>2, TablesAssumption
    <3> QED
      BY <1>1, <2>2, <3>1, <3>2
  <2>4. Height(b) <= scan
    BY <1>1, <2>2, <2>3 DEF Cleaned
  <2>5. i = Height(b)
    BY <1>1, <2>1 DEF Heights
  <2> QED
    BY <1>1, <2>1, <2>4, <2>5
<1>5. CASE caller = "rollback"
  <2>1. LoseProcess
    BY <1>5 DEF CleanBlocks
  <2>2. TypeOK'
    <3>1. zmq' \in Seq(Block) /\ previous_block' \in Seq(Label)
      BY <2>1, EmptySequences DEF LoseProcess, Seed
    <3>2. {CURRENT_BLOCK_INDEX, block_count, block_height, scan, table}' \subseteq Nat
      BY <2>1 DEF LoseProcess
    <3>3. fetcher' \in Fetcher
      BY <2>1, NoFetcherType DEF LoseProcess
    <3> QED
      BY <1>2, <2>1, <3>1, <3>2, <3>3 DEF CleanBlocks, TypeOK, LoseProcess
  <2>3. Position' /\ ParsedBlock' /\ Cleaned'
    BY <2>1 DEF Position, ParsedBlock, Cleaned, LoseProcess
  <2> QED
    BY <1>3, <1>4, <2>2, <2>3
<1>6. CASE caller # "rollback"
  <2> USE DEF catching, parsing
  <2>1. /\ CURRENT_BLOCK_INDEX' = scan + 1 /\ pc' = "commit"
        /\ UNCHANGED <<caller, catching, parsing, orders_cache, watching, zmq>>
        /\ UNCHANGED <<bitcoind, rows, bounds>>
    BY <1>6 DEF CleanBlocks, IndexAfterRollback
  <2>2. TypeOK'
    BY <1>1, <1>2, <2>1 DEF TypeOK
  <2>3. Position' /\ ParsedBlock' /\ Cleaned'
    BY <1>1, <1>2, <1>6, <2>1 DEF Position, ParsedBlock, Cleaned
  <2> QED
    BY <1>3, <1>4, <2>2, <2>3
<1> QED
  BY <1>5, <1>6

\* A block is committed with its rows, one above the top of the database.
LEMMA CommitBlockKeeps == ASSUME IInv, CommitBlock PROVE IInv'
<1> USE DEF IInv
<1>1. CASE ~ CanInsert(decoded_block)
  <2>1. Raise /\ UNCHANGED <<bitcoind, db>> /\ failures' \in Nat /\ commands' \in Nat
    BY <1>1 DEF CommitBlock, bitcoind, db, bounds, TypeOK
  <2> QED
    BY <2>1, RaisingKeeps
<1>2. CASE CanInsert(decoded_block)
  <2> DEFINE row == [hash |-> decoded_block,
                     ledger_hash |-> ConsensusHash(previous_block, decoded_block)]
  <2>1. /\ pc = "commit" /\ decoded_block \in Block
        /\ Height(decoded_block) = Len(blocks) + 1
        /\ CURRENT_BLOCK_INDEX = Len(blocks) + 1
        /\ blocks \in Seq(BlockRow) /\ Len(blocks) \in Nat
        /\ DOMAIN blocks = 1..Len(blocks)
    BY DEF CommitBlock, Position, ParsedBlock, TypeOK
  <2>2. row \in BlockRow /\ row.hash = decoded_block
    BY <2>1, ConsensusHashType DEF BlockRow, TypeOK
  <2>3. /\ blocks' = Append(blocks, row)
        /\ rows' = [t \in Table |-> rows[t] \cup {decoded_block}]
        /\ UNCHANGED <<bitcoind, bounds>>
    BY <1>2 DEF CommitBlock
  <2> HIDE DEF row
  <2>4. /\ blocks' \in Seq(BlockRow) /\ Len(blocks') = Len(blocks) + 1
        /\ DOMAIN blocks' = 1..(Len(blocks) + 1)
        /\ \A i \in 1..Len(blocks) : blocks'[i] = blocks[i]
        /\ blocks'[Len(blocks) + 1] = row
    BY <2>1, <2>2, <2>3
  <2>5. Heights'
    BY <2>1, <2>2, <2>4 DEF Heights
  <2>6. BlocksInDb' = BlocksInDb \cup {decoded_block}
    BY <2>1, <2>2, <2>4 DEF BlocksInDb
  <2>7. RowsHaveTheirBlock'
    BY <2>3, <2>6 DEF RowsHaveTheirBlock
  <2>8. rows' \in [Table -> SUBSET Block]
    BY <2>1, <2>3 DEF TypeOK
  <2>9. CacheAfter(decoded_block) \subseteq Block
    <3>1. rows["orders"] \subseteq Block
      BY TablesAssumption DEF TypeOK, Table
    <3> QED
      BY <2>1, <3>1 DEF CacheAfter, TypeOK
  <2>10. CASE \/ caller = "follow"
              \/ caller # "follow" /\ CURRENT_BLOCK_INDEX <= block_height
    <3>1. /\ pc' \in {"follow", "refresh"}
          /\ orders_cache' = CacheAfter(decoded_block)
          /\ UNCHANGED <<caller, CURRENT_BLOCK_INDEX, block_count, block_height,
                         parsing, watching, zmq>>
          /\ fetcher' \in {fetcher, FetcherAfterBlock}
      BY <1>2, <2>10 DEF CommitBlock, ReturnToFollow, ReturnToCatchUp, catching
    <3>2. FetcherAfterBlock \in Fetcher
      <4> DEFINE n == CURRENT_BLOCK_INDEX + 1
      <4>1. fetcher \in Fetcher /\ tip \in Block /\ n \in Nat
        BY DEF TypeOK
      <4>2. FetcherAfterBlock \in {fetcher, StartedAt(fetcher, tip, n)}
        BY DEF FetcherAfterBlock, StartedFetcher
      <4> HIDE DEF n
      <4> QED
        BY <4>1, <4>2, FetcherStarted
    <3>3. TypeOK'
      BY <2>3, <2>4, <2>8, <2>9, <3>1, <3>2 DEF TypeOK, parsing, bitcoind, bounds
    <3>4. Position' /\ ParsedBlock' /\ Cleaned'
      BY <2>1, <2>4, <3>1 DEF Position, ParsedBlock, Cleaned, parsing
    <3> QED
      BY <2>5, <2>7, <3>3, <3>4
  <2>11. CASE Raise
    <3>1. CASE LoseProcess
      <4>1. TypeOK'
        <5>1. zmq' \in Seq(Block) /\ previous_block' \in Seq(Label)
          BY <3>1, EmptySequences DEF LoseProcess, Seed
        <5>2. {CURRENT_BLOCK_INDEX, block_count, block_height, scan, table}'
                \subseteq Nat
          BY <3>1 DEF LoseProcess
        <5>3. fetcher' \in Fetcher
          BY <3>1, NoFetcherType DEF LoseProcess
        <5> QED
          BY <2>3, <2>4, <2>8, <3>1, <5>1, <5>2, <5>3
          DEF TypeOK, LoseProcess, bitcoind, bounds
      <4> QED
        BY <2>5, <2>7, <3>1, <4>1 DEF Position, ParsedBlock, Cleaned, LoseProcess
    <3>2. CASE /\ pc' = "stuck"
               /\ UNCHANGED <<caller, CURRENT_BLOCK_INDEX, catching, parsing,
                              orders_cache, watching, zmq>>
      <4>1. TypeOK'
        BY <2>3, <2>4, <2>8, <3>2 DEF TypeOK, parsing, catching, bitcoind, bounds
      <4> QED
        BY <2>5, <2>7, <3>2, <4>1 DEF Position, ParsedBlock, Cleaned, parsing
    <3> QED
      BY <2>11, <3>1, <3>2 DEF Raise
  <2> QED
    BY <1>2, <2>10, <2>11 DEF CommitBlock, ReturnToCatchUp
<1> QED
  BY <1>1, <1>2

----------------------------------------------------------------------------
\* Every step keeps the invariant: one lemma per action.
LEMMA NextKeepsInvariant == IInv /\ [Next]_vars => IInv'
<1> SUFFICES ASSUME IInv, [Next]_vars PROVE IInv'
  OBVIOUS
<1>1. CASE NewTip
  BY <1>1, NewTipKeeps
<1>2. CASE Parser
  BY <1>2, CatchUpKeeps, FetchBlockKeeps, ThreadStepsKeep, ReceiveRawblockKeeps,
     ParseNewBlockKeeps, ScanBackKeeps, RereadBlockKeeps, CleanTableKeeps,
     CleanBlocksKeeps, CommitBlockKeeps DEF Parser
<1>3. CASE SubscribeFails \/ Restart
  BY <1>3, ThreadStepsKeep
<1>4. CASE RpcError
  <2>1. Raise /\ UNCHANGED <<bitcoind, db>> /\ failures' \in Nat /\ commands' \in Nat
    BY <1>4 DEF RpcError, AwaitsAnswer, IInv, TypeOK
  <2> QED
    BY <2>1, RaisingKeeps
<1>5. CASE Crash
  <2>1. LoseProcess /\ UNCHANGED <<bitcoind, db>> /\ failures' \in Nat /\ commands' \in Nat
    BY <1>5 DEF Crash, IInv, TypeOK
  <2> QED
    BY <2>1, LosingTheProcess
<1>6. CASE RollbackCommand
  BY <1>6, RollbackCommandKeeps
<1>7. CASE UNCHANGED vars
  BY <1>7 DEF vars, bitcoind, db, parsing, catching, bounds, IInv, TypeOK, Heights,
     Position, ParsedBlock, Cleaned, RowsHaveTheirBlock, BlocksInDb
<1> QED
  BY <1>1, <1>2, <1>3, <1>4, <1>5, <1>6, <1>7 DEF Next

LEMMA InvariantHolds == Spec => []IInv
BY InitInvariant, NextKeepsInvariant, PTL DEF Spec

\* The tables and the variables of the thread keep their types (blocks.initialise,
\* parse_new_block, catch_up).
THEOREM TypeCorrect == Spec => []TypeOK
<1>1. IInv => TypeOK
  BY DEF IInv
<1> QED
  BY <1>1, InvariantHolds, PTL

\* rollback() cleans `blocks` last and parse_new_block() inserts a block in the
\* transaction of its rows: no table refers to a block that is not in `blocks`.
THEOREM NoRowWithoutItsBlock == Spec => []RowsHaveTheirBlock
<1>1. IInv => RowsHaveTheirBlock
  BY DEF IInv
<1> QED
  BY <1>1, InvariantHolds, PTL

\* The assertions of list_tx() and parse_block() on CURRENT_BLOCK_INDEX never
\* fail, whatever reorganizations, rollbacks and restarts came before.
THEOREM IndexInStep == Spec => []IndexTracksDb
<1>1. IInv => IndexTracksDb
  BY DEF IInv, IndexTracksDb, Position, ParsedBlock
<1> QED
  BY <1>1, InvariantHolds, PTL

----------------------------------------------------------------------------
\* The assertion of catch_up() on gaps: a second invariant, on top of IInv.

\* Between two blocks the fetcher is at most one above the database; while its
\* block is parsed it is one above that block.
FetcherBehind ==
  /\ pc # "gap"
  /\ caller = "rollback" => pc \in {"rollback"}
  /\ pc \in {"loop", "refresh"} => fetcher.next <= CURRENT_BLOCK_INDEX + 1
  /\ pc \in {"parse", "scan", "reread", "rollback", "commit"} /\ caller = "catch_up" =>
       fetcher.next = block_height + 1

LEMMA FetchBlockKeepsBehind ==
  ASSUME IInv, FetcherBehind, FetchBlock PROVE FetcherBehind'
<1> DEFINE started == IF fetcher.next = 0
                        THEN StartedFetcher(CURRENT_BLOCK_INDEX + 1) ELSE fetcher
<1>1. /\ started \in Fetcher /\ started.next <= CURRENT_BLOCK_INDEX + 1
      /\ CURRENT_BLOCK_INDEX \in Nat
  <2>1. /\ fetcher \in Fetcher /\ tip \in Block /\ CURRENT_BLOCK_INDEX \in Nat
        /\ pc = "loop" => fetcher.next <= CURRENT_BLOCK_INDEX + 1
    BY DEF IInv, TypeOK, FetcherBehind
  <2>2. CASE fetcher.next = 0
    <3> DEFINE n == CURRENT_BLOCK_INDEX + 1
    <3>1. n \in Nat
      BY <2>1
    <3>2. started = StartedAt(fetcher, tip, n)
      BY <2>2 DEF StartedFetcher
    <3> HIDE DEF n, started
    <3>3. started \in Fetcher /\ started.next = n
      BY <2>1, <3>1, <3>2, FetcherStarted
    <3> QED
      BY <2>1, <3>1, <3>3 DEF n
  <2>3. CASE fetcher.next # 0
    BY <2>1, <2>3 DEF FetchBlock
  <2> QED
    BY <2>2, <2>3
<1>2. PICK t \in started.tips : \E h \in 1..Height(t) :
        /\ CanDeliver(started, t, h)
        /\ block_height' = h
        /\ fetcher' = AfterDelivery(started, t, h)
        /\ pc' = IF h <= CURRENT_BLOCK_INDEX + 1 THEN "parse" ELSE "gap"
  BY DEF FetchBlock
<1>3. PICK h \in 1..Height(t) :
        /\ CanDeliver(started, t, h)
        /\ block_height' = h
        /\ fetcher' = AfterDelivery(started, t, h)
        /\ pc' = IF h <= CURRENT_BLOCK_INDEX + 1 THEN "parse" ELSE "gap"
  BY <1>2
<1>4. t \in Block /\ Height(t) \in Nat
  BY <1>1, <1>2, BlockIsASequence DEF Height, Fetcher
<1>5. h \in Nat /\ started.next \in Nat
  BY <1>1, <1>4 DEF Fetcher
<1>6. pc' = "parse"
  BY <1>1, <1>3, <1>5 DEF CanDeliver
<1>7. fetcher'.next = block_height' + 1
  <2> HIDE DEF started
  <2> QED
    BY <1>1, <1>3, <1>4, <1>5, FetcherDelivery
<1> QED
  BY <1>6, <1>7 DEF FetchBlock, FetcherBehind

LEMMA CommitBlockKeepsBehind ==
  ASSUME IInv, FetcherBehind, CommitBlock PROVE FetcherBehind'
<1>1. /\ pc = "commit" /\ caller \in {"catch_up", "follow"}
      /\ {CURRENT_BLOCK_INDEX, block_height} \subseteq Nat
      /\ caller = "catch_up" => fetcher.next = block_height + 1
  BY DEF IInv, TypeOK, CommitBlock, FetcherBehind
<1>2. CASE LoseProcess
  BY <1>2 DEF LoseProcess, FetcherBehind
<1>3. CASE pc' = "stuck" /\ caller' = caller
  BY <1>1, <1>3 DEF FetcherBehind
<1>4. CASE caller = "follow" /\ ReturnToFollow
  BY <1>4 DEF ReturnToFollow, FetcherBehind
<1>5. CASE caller = "catch_up" /\ CURRENT_BLOCK_INDEX <= block_height /\ ReturnToCatchUp
  <2>1. /\ pc' = "refresh" /\ fetcher' = FetcherAfterBlock
        /\ UNCHANGED <<caller, CURRENT_BLOCK_INDEX>>
    BY <1>5 DEF ReturnToCatchUp
  <2>2. FetcherAfterBlock.next <= CURRENT_BLOCK_INDEX + 1
    <3>1. fetcher \in Fetcher /\ tip \in Block
      BY DEF IInv, TypeOK
    <3>2. CASE CURRENT_BLOCK_INDEX < block_height
      <4> DEFINE n == CURRENT_BLOCK_INDEX + 1
      <4>1. n \in Nat
        BY <1>1
      <4>2. FetcherAfterBlock = StartedAt(fetcher, tip, n)
        BY <3>2 DEF FetcherAfterBlock, StartedFetcher
      <4> HIDE DEF n
      <4>3. FetcherAfterBlock.next = n
        BY <3>1, <4>1, <4>2, FetcherStarted
      <4> QED
        BY <4>1, <4>3 DEF n
    <3>3. CASE ~ (CURRENT_BLOCK_INDEX < block_height)
      BY <1>1, <1>5, <3>3 DEF FetcherAfterBlock
    <3> QED
      BY <3>2, <3>3
  <2> QED
    BY <1>5, <2>1, <2>2 DEF FetcherBehind
<1> QED
  BY <1>1, <1>2, <1>3, <1>4, <1>5 DEF CommitBlock, ReturnToCatchUp, Raise

LEMMA NextKeepsBehind == IInv /\ FetcherBehind /\ [Next]_vars => FetcherBehind'
<1> SUFFICES ASSUME IInv, FetcherBehind, [Next]_vars PROVE FetcherBehind'
  OBVIOUS
<1> USE DEF FetcherBehind, bitcoind, db, parsing, catching, bounds
<1>1. CASE NewTip
  <2>1. fetcher'.next = fetcher.next
    BY <1>1, FetcherWithTip DEF NewTip, IInv, TypeOK
  <2> QED
    BY <1>1, <2>1 DEF NewTip
<1>2. CASE CatchUp
  BY <1>2, FetcherStopped DEF CatchUp, LastDbIndex, IInv, TypeOK
<1>3. CASE FetchBlock
  BY <1>3, FetchBlockKeepsBehind
<1>4. CASE CatchUpDone
  BY <1>4 DEF CatchUpDone
<1>5. CASE RefreshBlockCount
  BY <1>5 DEF RefreshBlockCount
<1>6. CASE Subscribe \/ SubscribeFails \/ Restart
  BY <1>6 DEF Subscribe, SubscribeFails, Restart
<1>7. CASE ReceiveRawblock
  BY <1>7 DEF ReceiveRawblock, Handler
<1>8. CASE ParseNewBlock \/ ScanBack \/ RereadBlock \/ CleanTable
  BY <1>8 DEF ParseNewBlock, ScanBack, RereadBlock, CleanTable
<1>9. CASE CleanBlocks
  BY <1>9 DEF CleanBlocks, LoseProcess
<1>10. CASE CommitBlock
  BY <1>10, CommitBlockKeepsBehind
<1>11. CASE RpcError \/ Crash
  BY <1>11 DEF RpcError, AwaitsAnswer, Crash, Raise, LoseProcess
<1>12. CASE RollbackCommand
  BY <1>12 DEF RollbackCommand
<1>13. CASE UNCHANGED vars
  BY <1>13 DEF vars
<1> QED
  BY <1>1, <1>2, <1>3, <1>4, <1>5, <1>6, <1>7, <1>8, <1>9, <1>10, <1>11, <1>12,
     <1>13 DEF Next, Parser

\* The fetcher never hands catch_up() a block with a gap below it, although it
\* goes back on its own after a reorganization: `assert block_height <=
\* CURRENT_BLOCK_INDEX + 1` (blocks.py:1376) never fails.
THEOREM NoGapEver == Spec => []NoGap
<1>1. Init => FetcherBehind
  BY DEF Init, FetcherBehind
<1>2. FetcherBehind => NoGap
  BY DEF FetcherBehind, NoGap
<1> QED
  BY <1>1, <1>2, NextKeepsBehind, InvariantHolds, PTL DEF Spec

\* None of the assertions on heights and on CURRENT_BLOCK_INDEX ever fails.
THEOREM AssertionsNeverFail == Spec => []AssertionsHold
<1>1. NoGap /\ IndexTracksDb => AssertionsHold
  BY DEF AssertionsHold
<1> QED
  BY <1>1, NoGapEver, IndexInStep, PTL

----------------------------------------------------------------------------
\* The blocks the program knows, and the chain they were read from.

Known ==
  BlocksInDb \cup {decoded_block} \cup fetcher.tips \cup fetcher.seen
    \cup {zmq[i] : i \in DOMAIN zmq}

\* bitcoind only moves to a higher tip.
NotAbove(b) == Height(b) < Height(tip) \/ b = tip

\* The block is on bitcoind's active chain.
OnBranch(b) == Height(b) <= Height(tip) /\ AncestorAt(tip, Height(b)) = b

LEMMA HeightOfEmpty == Height(<<>>) = 0 /\ <<>> \in Seq(Label)
BY EmptySeq DEF Height

LEMMA AncestorIsASequence ==
  ASSUME NEW b \in Block, NEW h \in 0..Height(b)
  PROVE  /\ AncestorAt(b, h) \in Seq(Label) /\ Len(AncestorAt(b, h)) = h
         /\ \A i \in 1..h : AncestorAt(b, h)[i] = b[i]
<1>1. b \in Seq(Label) /\ Len(b) \in Nat /\ h \in Nat /\ h <= Len(b)
  BY BlockIsASequence DEF Height
<1>2. \A i \in 1..h : b[i] \in Label
  BY <1>1, ElementOfSeq
<1>3. /\ SubSeq(b, 1, h) \in Seq(Label)
      /\ Len(SubSeq(b, 1, h)) = IF 1 <= h THEN h - 1 + 1 ELSE 0
      /\ \A i \in 1..(h - 1 + 1) : SubSeq(b, 1, h)[i] = b[1 + i - 1]
  BY <1>1, <1>2, SubSeqProperties
<1>4. (IF 1 <= h THEN h - 1 + 1 ELSE 0) = h /\ h - 1 + 1 = h
  BY <1>1
<1>5. \A i \in 1..h : 1 + i - 1 = i
  BY <1>1
<1> QED
  BY <1>3, <1>4, <1>5 DEF AncestorAt

\* A block is its own ancestor at its height.
LEMMA AncestorOfItself ==
  ASSUME NEW b \in Block
  PROVE  AncestorAt(b, Height(b)) = b
<1>1. b \in Seq(Label) /\ Len(b) \in Nat
  BY BlockIsASequence
<1> DEFINE a == AncestorAt(b, Height(b))
<1>2. a \in Seq(Label) /\ Len(a) = Len(b) /\ \A i \in 1..Len(b) : a[i] = b[i]
  BY <1>1, AncestorIsASequence DEF Height
<1> HIDE DEF a
<1>3. a = b
  BY <1>1, <1>2, SeqEqual
<1> QED
  BY <1>3 DEF a

\* The ancestors of an ancestor are those of the block.
LEMMA AncestorOfAncestor ==
  ASSUME NEW b \in Block, NEW k \in 1..Height(b), NEW h \in 0..k
  PROVE  AncestorAt(AncestorAt(b, k), h) = AncestorAt(b, h)
<1>1. Height(b) \in Nat /\ k \in 0..Height(b) /\ h \in 0..Height(b) /\ k \in Nat /\ h \in Nat
  BY BlockIsASequence DEF Height
<1> DEFINE a == AncestorAt(b, k)
           s == AncestorAt(a, h)
           u == AncestorAt(b, h)
<1>2. a \in Block /\ Height(a) = k
  BY AncestorIsABlock
<1>3. \A i \in 1..k : a[i] = b[i]
  BY <1>1, AncestorIsASequence
<1>4. u \in Seq(Label) /\ Len(u) = h /\ \A i \in 1..h : u[i] = b[i]
  BY <1>1, AncestorIsASequence
<1> HIDE DEF a, u
<1>5. s \in Seq(Label) /\ Len(s) = h /\ \A i \in 1..h : s[i] = a[i]
  BY <1>2, AncestorIsASequence
<1> HIDE DEF s
<1>6. \A i \in 1..Len(s) : s[i] = u[i]
  BY <1>1, <1>3, <1>4, <1>5
<1>7. s = u
  BY <1>4, <1>5, <1>6, SeqEqual
<1> QED
  BY <1>7 DEF s, a, u

\* The parent of an ancestor is the ancestor one lower.
LEMMA ParentOfAncestor ==
  ASSUME NEW b \in Block, NEW h \in 1..Height(b)
  PROVE  ParentOf(AncestorAt(b, h)) = AncestorAt(b, h - 1)
<1>1. Height(b) \in Nat /\ h \in Nat /\ h - 1 \in 0..h
  BY BlockIsASequence DEF Height
<1>2. Len(AncestorAt(b, h)) = h
  BY AncestorIsABlock DEF Height
<1>3. ParentOf(AncestorAt(b, h)) = AncestorAt(AncestorAt(b, h), h - 1)
  BY <1>2 DEF ParentOf, AncestorAt
<1> QED
  BY <1>1, <1>3, AncestorOfAncestor

\* The active chain stays active when the tip is extended.
LEMMA BranchIsExtended ==
  ASSUME NEW t \in Block, NEW b \in Block, Height(t) < Height(b),
         AncestorAt(b, Height(t)) = t, NEW h \in 0..Height(t)
  PROVE  AncestorAt(b, h) = AncestorAt(t, h)
<1>1. Height(t) \in 1..Height(b)
  BY BlockIsASequence DEF Height
<1> QED
  BY <1>1, AncestorOfAncestor

\* What a step may read from bitcoind, or from what was announced before.
Readable(b) ==
  \/ b \in Known \cup {tip, <<>>}
  \/ \E t \in (Known \cup {tip}) \cap Block : \E h \in 1..Height(t) : b = AncestorAt(t, h)

\* The steps of the program and of its operator.
Step == Parser \/ SubscribeFails \/ RpcError \/ Crash \/ Restart \/ RollbackCommand

LEMMA StepsLeaveBitcoind == Step => UNCHANGED <<tip, reorgs>>
BY DEF Step, Parser, CatchUp, FetchBlock, CatchUpDone, RefreshBlockCount, Subscribe,
   ReceiveRawblock, ParseNewBlock, ScanBack, RereadBlock, CleanTable, CleanBlocks,
   CommitBlock, SubscribeFails, RpcError, Crash, Restart, RollbackCommand, bitcoind

\* The steps that leave table `blocks` as it is.
LEMMA StepsLeaveBlocks ==
  ASSUME Step, ~ CleanBlocks, ~ CommitBlock
  PROVE  blocks' = blocks
BY DEF Step, Parser, CatchUp, FetchBlock, CatchUpDone, RefreshBlockCount, Subscribe,
   ReceiveRawblock, ParseNewBlock, ScanBack, RereadBlock, CleanTable,
   SubscribeFails, RpcError, Crash, Restart, RollbackCommand, db

\* A commit that inserts the block, with what catch_up() or the watcher does after it.
LEMMA CommitCases ==
  ASSUME IInv, CommitBlock
  PROVE  /\ pc = "commit" /\ UNCHANGED <<tip, reorgs>>
         /\ \/ blocks' = blocks
            \/ blocks' = Append(blocks,
                 [hash        |-> decoded_block,
                  ledger_hash |-> ConsensusHash(previous_block, decoded_block)])
         /\ \/ LoseProcess
            \/ /\ pc' \in {"stuck", "follow"}
               /\ UNCHANGED <<caller, CURRENT_BLOCK_INDEX, catching, parsing,
                              watching, zmq>>
            \/ /\ pc' = "refresh" /\ fetcher' = FetcherAfterBlock
               /\ CURRENT_BLOCK_INDEX <= block_height /\ caller # "follow"
               /\ blocks' # blocks
               /\ UNCHANGED <<caller, CURRENT_BLOCK_INDEX, block_count, block_height,
                              parsing, watching, zmq>>
<1>1. pc = "commit" /\ UNCHANGED <<tip, reorgs>>
  BY DEF CommitBlock, bitcoind
<1>2. ASSUME Raise
      PROVE  \/ LoseProcess
             \/ /\ pc' = "stuck"
                /\ UNCHANGED <<caller, CURRENT_BLOCK_INDEX, catching, parsing,
                               watching, zmq>>
  BY <1>2 DEF Raise
<1>3. CASE CanInsert(decoded_block)
  <2> DEFINE row == [hash |-> decoded_block,
                     ledger_hash |-> ConsensusHash(previous_block, decoded_block)]
  <2>1. blocks' = Append(blocks, row)
    BY <1>3 DEF CommitBlock
  <2>2. blocks' # blocks
    <3>1. blocks \in Seq(BlockRow) /\ row \in BlockRow
      BY ConsensusHashType DEF IInv, TypeOK, ParsedBlock, CommitBlock, BlockRow
    <3>2. Len(Append(blocks, row)) = Len(blocks) + 1 /\ Len(blocks) \in Nat
      BY <3>1
    <3> QED
      BY <2>1, <3>2
  <2>3. CASE caller = "follow"
    BY <1>1, <1>3, <2>1, <2>3 DEF CommitBlock, ReturnToFollow
  <2>4. CASE caller # "follow"
    BY <1>1, <1>2, <1>3, <2>1, <2>2, <2>4 DEF CommitBlock, ReturnToCatchUp
  <2> QED
    BY <2>3, <2>4
<1>4. CASE ~ CanInsert(decoded_block)
  BY <1>1, <1>2, <1>4 DEF CommitBlock, db
<1> QED
  BY <1>3, <1>4

\* The blocks in the database after a step.
LEMMA DatabaseStep ==
  ASSUME IInv, Step
  PROVE  BlocksInDb' \subseteq Known
<1> USE DEF IInv, TypeOK
<1>1. CASE CleanBlocks
  <2>1. blocks' = SubSeq(blocks, 1, scan) /\ scan <= Len(blocks)
    BY <1>1 DEF CleanBlocks, Position
  <2>2. DOMAIN blocks' = 1..scan /\ \A i \in 1..scan : blocks'[i] = blocks[i]
    BY <2>1
  <2> QED
    BY <2>1, <2>2 DEF BlocksInDb, Known
<1>2. CASE CommitBlock
  <2> DEFINE row == [hash |-> decoded_block,
                     ledger_hash |-> ConsensusHash(previous_block, decoded_block)]
  <2>1. blocks \in Seq(BlockRow) /\ row \in BlockRow
    BY <1>2, ConsensusHashType DEF ParsedBlock, CommitBlock, BlockRow
  <2>2. blocks' = blocks \/ blocks' = Append(blocks, row)
    BY <1>2, CommitCases
  <2>3. row.hash = decoded_block
    OBVIOUS
  <2> HIDE DEF row
  <2>4. \A i \in DOMAIN blocks' :
          blocks'[i] = row \/ \E j \in DOMAIN blocks : blocks'[i] = blocks[j]
    <3>1. CASE blocks' = blocks
      BY <3>1
    <3>2. CASE blocks' = Append(blocks, row)
      <4>1. /\ DOMAIN blocks = 1..Len(blocks) /\ Len(blocks) \in Nat
            /\ DOMAIN blocks' = 1..(Len(blocks) + 1)
            /\ \A i \in 1..Len(blocks) : blocks'[i] = blocks[i]
            /\ blocks'[Len(blocks) + 1] = row
        BY <2>1, <3>2
      <4> QED
        BY <4>1
    <3> QED
      BY <2>2, <3>1, <3>2
  <2>5. \A i \in DOMAIN blocks' : blocks'[i].hash \in BlocksInDb \cup {decoded_block}
    BY <2>3, <2>4 DEF BlocksInDb
  <2> QED
    BY <2>5 DEF BlocksInDb, Known
<1>3. CASE ~ CleanBlocks /\ ~ CommitBlock
  BY <1>3, StepsLeaveBlocks DEF BlocksInDb, Known
<1> QED
  BY <1>1, <1>2, <1>3

\* The announcements left after a step.
LEMMA AnnouncementStep ==
  ASSUME IInv, Step
  PROVE  \A i \in DOMAIN zmq' : zmq'[i] \in Known
<1>1. \A i \in DOMAIN zmq : zmq[i] \in Known
  BY DEF Known
<1>2. zmq \in Seq(Block)
  BY DEF IInv, TypeOK
<1>3. CASE ReceiveRawblock
  <2>1. zmq' = Tail(zmq) /\ zmq # <<>>
    BY <1>3 DEF ReceiveRawblock
  <2>2. \A i \in DOMAIN zmq' : i + 1 \in DOMAIN zmq /\ zmq'[i] = zmq[i + 1]
    BY <1>2, <2>1
  <2> QED
    BY <1>1, <2>2
<1>4. CASE zmq' = <<>>
  BY <1>4
<1>5. CASE zmq' = zmq
  BY <1>1, <1>5
<1>6. CASE CommitBlock
  BY <1>4, <1>5, <1>6, CommitCases DEF LoseProcess
<1>7. CASE ~ ReceiveRawblock /\ ~ CommitBlock
  BY <1>4, <1>5, <1>7 DEF Step, Parser, CatchUp, FetchBlock, CatchUpDone, RefreshBlockCount,
     Subscribe, ParseNewBlock, ScanBack, RereadBlock, CleanTable, CleanBlocks,
     SubscribeFails, RpcError, Crash, Restart, RollbackCommand, Raise, LoseProcess
<1> QED
  BY <1>3, <1>6, <1>7

\* The tips a fetcher saw after a step.
LEMMA FetcherStep ==
  ASSUME IInv, Step
  PROVE  fetcher'.tips \cup fetcher'.seen \subseteq Known \cup {tip}
<1> DEFINE Inside(f) == f.tips \cup f.seen \subseteq Known \cup {tip}
<1>1. fetcher \in Fetcher /\ tip \in Block /\ CURRENT_BLOCK_INDEX + 1 \in Nat
  BY DEF IInv, TypeOK
<1>2. Inside(fetcher)
  BY DEF Known
<1>3. Inside(NoFetcher)
  BY DEF NoFetcher
<1>4. Inside(Stopped(fetcher))
  BY <1>1, <1>2 DEF Stopped, Fetcher
<1>5. \A h \in Nat : Inside(StartedAt(fetcher, tip, h)) /\ StartedAt(fetcher, tip, h) \in Fetcher
  BY <1>1, <1>2 DEF StartedAt, Fetcher
<1>6. CASE FetchBlock
  <2> DEFINE started == IF fetcher.next = 0
                          THEN StartedFetcher(CURRENT_BLOCK_INDEX + 1) ELSE fetcher
  <2>1. Inside(started) /\ started \in Fetcher
    BY <1>1, <1>2, <1>5 DEF StartedFetcher
  <2>2. \E t \in started.tips : \E h \in 1..Height(t) :
          fetcher' = AfterDelivery(started, t, h)
    BY <1>6 DEF FetchBlock
  <2> HIDE DEF started
  <2> QED
    BY <2>1, <2>2 DEF AfterDelivery, Fetcher
<1>7. CASE CommitBlock
  <2>1. fetcher' \in {NoFetcher, fetcher, FetcherAfterBlock}
    BY <1>7, CommitCases DEF LoseProcess, catching
  <2>2. FetcherAfterBlock = fetcher \/ FetcherAfterBlock = StartedAt(fetcher, tip, CURRENT_BLOCK_INDEX + 1)
    BY DEF FetcherAfterBlock, StartedFetcher
  <2> QED
    BY <1>1, <1>2, <1>3, <1>5, <2>1, <2>2
<1>8. CASE ~ FetchBlock /\ ~ CommitBlock
  <2>1. fetcher' \in {NoFetcher, fetcher, Stopped(fetcher)}
    BY <1>8 DEF Step, Parser, CatchUp, CatchUpDone, RefreshBlockCount, ReceiveRawblock,
       Subscribe, ParseNewBlock, ScanBack, RereadBlock, CleanTable, CleanBlocks,
       SubscribeFails, RpcError, Crash, Restart, RollbackCommand, Raise, LoseProcess,
       catching
  <2> QED
    BY <1>2, <1>3, <1>4, <2>1
<1> QED
  BY <1>6, <1>7, <1>8

\* The block being parsed after a step.
LEMMA DecodedStep ==
  ASSUME IInv, Step
  PROVE  Readable(decoded_block')
<1>1. tip \in Block /\ zmq \in Seq(Block) /\ fetcher \in Fetcher
      /\ CURRENT_BLOCK_INDEX \in Nat /\ scan \in Nat
  BY DEF IInv, TypeOK
<1>2. CASE decoded_block' \in {decoded_block, <<>>}
  BY <1>2 DEF Readable, Known
<1>3. CASE FetchBlock
  <2> DEFINE started == IF fetcher.next = 0
                          THEN StartedFetcher(CURRENT_BLOCK_INDEX + 1) ELSE fetcher
  <2>1. PICK t \in started.tips : \E h \in 1..Height(t) : decoded_block' = AncestorAt(t, h)
    BY <1>3 DEF FetchBlock
  <2>2. t \in (Known \cup {tip}) \cap Block
    BY <1>1 DEF StartedFetcher, StartedAt, Known, Fetcher
  <2> QED
    BY <2>1, <2>2 DEF Readable
<1>4. CASE ReceiveRawblock
  <2>1. decoded_block' = Head(zmq) /\ zmq # <<>>
    BY <1>4 DEF ReceiveRawblock
  <2>2. Head(zmq) = zmq[1] /\ 1 \in DOMAIN zmq
    BY <1>1, <2>1
  <2> QED
    BY <2>1, <2>2 DEF Readable, Known
<1>5. CASE RereadBlock
  <2>1. decoded_block' = AncestorAt(tip, scan + 1) /\ scan + 1 \in 1..Height(tip)
    BY <1>1, <1>5, BlockIsASequence DEF RereadBlock, Height
  <2> QED
    BY <1>1, <2>1 DEF Readable
<1>6. CASE CommitBlock
  BY <1>2, <1>6, CommitCases DEF LoseProcess, parsing
<1>7. CASE ~ FetchBlock /\ ~ ReceiveRawblock /\ ~ RereadBlock /\ ~ CommitBlock
  BY <1>2, <1>7 DEF Step, Parser, CatchUp, CatchUpDone, RefreshBlockCount,
     Subscribe, ParseNewBlock, ScanBack, CleanTable, CleanBlocks,
     SubscribeFails, RpcError, Crash, Restart, RollbackCommand, Raise, LoseProcess,
     parsing
<1> QED
  BY <1>3, <1>4, <1>5, <1>6, <1>7

\* So every block known after a step could be read before it.
LEMMA KnownStep ==
  ASSUME IInv, Step
  PROVE  \A b \in Known' : Readable(b)
<1> DEFINE zs == {zmq[i] : i \in DOMAIN zmq}
<1>1. Known' = BlocksInDb' \cup {decoded_block'} \cup fetcher'.tips \cup fetcher'.seen \cup zs'
  BY DEF Known
<1>2. zs' \subseteq Known
  BY AnnouncementStep
<1> HIDE DEF zs
<1>3. \A b \in Known \cup {tip} : Readable(b)
  BY DEF Readable
<1> QED
  BY <1>1, <1>2, <1>3, DatabaseStep, FetcherStep, DecodedStep

\* A new tip is all that bitcoind makes known.
LEMMA KnownWithNewTip ==
  ASSUME IInv, NewTip
  PROVE  /\ tip' \in Block /\ Height(tip') > Height(tip)
         /\ Known' \subseteq Known \cup {tip'}
         /\ \/ reorgs' = reorgs + 1
            \/ reorgs' = reorgs /\ AncestorAt(tip', Height(tip)) = tip
         /\ UNCHANGED <<db, pc, caller, CURRENT_BLOCK_INDEX, parsing>>
<1>1. PICK b \in Block :
        /\ Height(b) > Height(tip)
        /\ IF AncestorAt(b, Height(tip)) = tip
             THEN UNCHANGED reorgs ELSE reorgs' = reorgs + 1
        /\ tip' = b
        /\ zmq' = IF watching THEN Append(zmq, b) ELSE zmq
        /\ fetcher' = WithTip(fetcher, b)
  BY DEF NewTip
<1>2. fetcher \in Fetcher /\ zmq \in Seq(Block)
  BY DEF IInv, TypeOK
<1>3. \A i \in DOMAIN zmq' : zmq'[i] = b \/ \E j \in DOMAIN zmq : zmq'[i] = zmq[j]
  BY <1>1, <1>2
<1>4. fetcher'.tips \subseteq fetcher.tips \cup {b} /\ fetcher'.seen \subseteq fetcher.seen \cup {b}
  BY <1>1, <1>2 DEF WithTip, Fetcher
<1>5. UNCHANGED <<db, pc, caller, CURRENT_BLOCK_INDEX, parsing>>
  BY DEF NewTip
<1>6. BlocksInDb' = BlocksInDb /\ decoded_block' = decoded_block
  BY <1>5 DEF db, parsing, BlocksInDb
<1>7. Known' \subseteq Known \cup {b}
  BY <1>3, <1>4, <1>6 DEF Known
<1> QED
  BY <1>1, <1>5, <1>7

LEMMA KnownAreBlocks ==
  ASSUME IInv
  PROVE  \A b \in Known : b \in Block \cup {<<>>}
<1>1. blocks \in Seq(BlockRow) /\ zmq \in Seq(Block) /\ fetcher \in Fetcher
      /\ decoded_block \in Block \cup {<<>>}
  BY DEF IInv, TypeOK
<1>2. \A i \in DOMAIN blocks : blocks[i].hash \in Block
  <2>1. \A i \in DOMAIN blocks : blocks[i] \in BlockRow
    BY <1>1
  <2> QED
    BY <2>1 DEF BlockRow
<1>3. \A i \in DOMAIN zmq : zmq[i] \in Block
  BY <1>1
<1>4. fetcher.tips \subseteq Block /\ fetcher.seen \subseteq Block
  BY <1>1 DEF Fetcher
<1> QED
  BY <1>1, <1>2, <1>3, <1>4 DEF Known, BlocksInDb

----------------------------------------------------------------------------
\* catch_up() hands over at the tip: no known block is above it.

KnownBelowTip == \A b \in Known : NotAbove(b)

LEMMA StepKeepsBelow == IInv /\ KnownBelowTip /\ Step => KnownBelowTip'
<1> SUFFICES ASSUME IInv, KnownBelowTip, Step, NEW b \in Known' PROVE NotAbove(b)'
  BY DEF KnownBelowTip
<1>1. tip' = tip /\ Readable(b)
  BY StepsLeaveBitcoind, KnownStep
<1>2. tip \in Block /\ Height(tip) \in Nat \ {0}
  BY BlockIsASequence DEF IInv, TypeOK, Height
<1>3. CASE b \in Known \cup {tip, <<>>}
  BY <1>1, <1>2, <1>3, HeightOfEmpty DEF NotAbove, KnownBelowTip
<1>4. CASE \E t \in (Known \cup {tip}) \cap Block : \E h \in 1..Height(t) :
             b = AncestorAt(t, h)
  <2>1. PICK t \in (Known \cup {tip}) \cap Block : \E h \in 1..Height(t) :
               b = AncestorAt(t, h)
    BY <1>4
  <2>2. PICK h \in 1..Height(t) : b = AncestorAt(t, h)
    BY <2>1
  <2>3. NotAbove(t) /\ Height(t) \in Nat /\ h \in Nat /\ h <= Height(t)
    BY BlockIsASequence DEF KnownBelowTip, NotAbove, Height
  <2>4. Height(b) = h /\ (h = Height(t) => b = t)
    BY <2>2, AncestorIsABlock, AncestorOfItself
  <2>5. h = Height(t) \/ h < Height(t)
    BY <2>3
  <2> QED
    BY <1>1, <1>2, <2>3, <2>4, <2>5 DEF NotAbove
<1> QED
  BY <1>1, <1>3, <1>4 DEF Readable

LEMMA NewTipKeepsBelow == IInv /\ KnownBelowTip /\ NewTip => KnownBelowTip'
<1> SUFFICES ASSUME IInv, KnownBelowTip, NewTip, NEW b \in Known' PROVE NotAbove(b)'
  BY DEF KnownBelowTip
<1>1. b = tip' \/ (b \in Known /\ NotAbove(b))
  BY KnownWithNewTip DEF KnownBelowTip
<1>2. Height(tip') > Height(tip) /\ Height(tip) \in Nat /\ Height(tip') \in Nat
  BY KnownWithNewTip, BlockIsASequence DEF IInv, TypeOK, Height
<1>3. Height(b) \in Nat
  <2>1. b = tip' \/ b = tip \/ Height(b) < Height(tip)
    BY <1>1 DEF NotAbove
  <2>2. b \in Known => b \in Block \cup {<<>>}
    BY KnownAreBlocks
  <2> QED
    BY <1>1, <1>2, <2>2, BlockIsASequence, HeightOfEmpty DEF Height
<1> QED
  BY <1>1, <1>2, <1>3 DEF NotAbove

LEMMA NextKeepsBelow == IInv /\ KnownBelowTip /\ [Next]_vars => KnownBelowTip'
<1>1. UNCHANGED vars /\ KnownBelowTip => KnownBelowTip'
  BY DEF vars, db, parsing, catching, bitcoind, KnownBelowTip, Known, NotAbove, BlocksInDb
<1> QED
  BY <1>1, StepKeepsBelow, NewTipKeepsBelow DEF Next, Step

LEMMA InitKnown == Init => Known = {<<>>} /\ reorgs = 0 /\ pc = "catch_up" /\ blocks = <<>>
BY DEF Init, Known, BlocksInDb, NoFetcher

\* The block count is only left at the height of the database when that height is the
\* tip's, and then the top of the database is the tip.
LEMMA CountIsReadAtTheTip ==
  ASSUME IInv, KnownBelowTip, [Next]_vars,
         pc = "refresh", pc' = "loop", block_count' = CURRENT_BLOCK_INDEX
  PROVE  TopHash = tip
<1>1. RefreshBlockCount
  BY DEF Next, Parser, vars, NewTip, CatchUp, FetchBlock, CatchUpDone, Subscribe,
     ReceiveRawblock, ParseNewBlock, ScanBack, RereadBlock, CleanTable, CleanBlocks,
     CommitBlock, SubscribeFails, RpcError, Raise, Crash, Restart, RollbackCommand, LoseProcess
<1>2. tip \in Block /\ blocks \in Seq(BlockRow) /\ CURRENT_BLOCK_INDEX = Len(blocks)
  BY DEF IInv, TypeOK, Position
<1>3. Height(tip) \in Nat \ {0}
  BY <1>2, BlockIsASequence DEF Height
<1>4. Height(tip) = Len(blocks)
  BY <1>1, <1>2 DEF RefreshBlockCount, NextBlockCount
<1>5. Len(blocks) \in DOMAIN blocks
  BY <1>2, <1>3, <1>4
<1>6. Height(TopHash) = Height(tip) /\ TopHash \in Known
  BY <1>4, <1>5 DEF TopHash, IInv, Heights, Known, BlocksInDb
<1> QED
  BY <1>3, <1>6 DEF KnownBelowTip, NotAbove

\* When catch_up() hands over, the top of the database is bitcoind's tip as it was when
\* the block count was last read, whatever tips, reorganizations, crashes and rollbacks
\* came before and between (blocks.catch_up, "Refresh block count").
THEOREM HandOverAtTheTip == Spec => HandsOverAtTheTip
<1>1. Init => KnownBelowTip
  <2>1. Init => Height(tip) \in Nat \ {0}
    BY InitInvariant, BlockIsASequence DEF IInv, TypeOK, Height
  <2> QED
    BY <2>1, InitKnown, HeightOfEmpty DEF KnownBelowTip, NotAbove
<1>2. IInv /\ KnownBelowTip /\ [Next]_vars =>
        [pc = "refresh" /\ pc' = "loop" /\ block_count' = CURRENT_BLOCK_INDEX
           => TopHash = tip]_vars
  BY CountIsReadAtTheTip
<1> QED
  BY <1>1, <1>2, NextKeepsBelow, InvariantHolds, PTL DEF Spec, HandsOverAtTheTip

----------------------------------------------------------------------------
\* The blocks stay linked while bitcoind has switched branches at most once.

\* Between two blocks of catch_up() the fetcher is stopped or one above the database.
FetcherAbove ==
  pc \in {"loop", "refresh"} => fetcher.next \in {0, CURRENT_BLOCK_INDEX + 1}

\* Before the first switch there is one branch: every known block is on it, blocks come
\* in order, and parse_new_block() never has to search for a fork.
OneBranch ==
  /\ \A b \in Known : OnBranch(b)
  /\ pc \notin {"scan", "reread"}
  /\ pc = "rollback" => caller = "rollback"
  /\ pc = "parse" => Height(decoded_block) = Len(blocks) + 1

\* After it the active chain is only extended, so what the search found still holds
\* when the block is read again, and the block fits where it is inserted.
AtMostTwoBranches ==
  /\ Linked
  /\ pc = "reread" => /\ scan \in 1..Height(tip)
                      /\ AncestorAt(tip, scan) = blocks[scan].hash
  /\ pc = "rollback" /\ caller # "rollback" =>
       scan > 0 /\ ParentOf(decoded_block) = blocks[scan].hash
  /\ pc = "commit" /\ blocks # <<>> => ParentOf(decoded_block) = TopHash

Branches ==
  /\ FetcherAbove
  /\ reorgs = 0 => OneBranch
  /\ reorgs <= 1 => AtMostTwoBranches

LEMMA CommitKeepsAbove ==
  ASSUME IInv, FetcherBehind, CommitBlock PROVE FetcherAbove'
<1>1. CASE pc' = "refresh" /\ fetcher' = FetcherAfterBlock /\ caller # "follow"
           /\ CURRENT_BLOCK_INDEX <= block_height
           /\ UNCHANGED CURRENT_BLOCK_INDEX
  <2>1. /\ {CURRENT_BLOCK_INDEX, block_height} \subseteq Nat
        /\ fetcher \in Fetcher /\ tip \in Block
        /\ caller \in {"catch_up", "follow", "rollback"}
    BY DEF IInv, TypeOK
  <2>2. fetcher.next = block_height + 1
    BY <1>1, <2>1 DEF CommitBlock, FetcherBehind
  <2> DEFINE n == CURRENT_BLOCK_INDEX + 1
  <2>3. n \in Nat
    BY <2>1
  <2>4. FetcherAfterBlock =
          IF CURRENT_BLOCK_INDEX < block_height THEN StartedAt(fetcher, tip, n) ELSE fetcher
    BY DEF FetcherAfterBlock, StartedFetcher
  <2>5. StartedAt(fetcher, tip, n).next = n
    BY <2>1, <2>3, FetcherStarted
  <2>6. CURRENT_BLOCK_INDEX < block_height \/ CURRENT_BLOCK_INDEX = block_height
    BY <1>1, <2>1
  <2>7. FetcherAfterBlock.next = n
    BY <2>1, <2>2, <2>4, <2>5, <2>6
  <2> QED
    BY <1>1, <2>7 DEF FetcherAbove
<1>2. CASE pc' \in {"stuck", "follow", "down"}
  BY <1>2 DEF FetcherAbove
<1> QED
  BY <1>1, <1>2, CommitCases DEF LoseProcess

LEMMA NextKeepsAbove ==
  IInv /\ FetcherBehind /\ FetcherAbove /\ [Next]_vars => FetcherAbove'
<1> SUFFICES ASSUME IInv, FetcherBehind, FetcherAbove, [Next]_vars PROVE FetcherAbove'
  OBVIOUS
<1> USE DEF FetcherAbove, bitcoind, db, parsing, catching, bounds
<1>1. CASE NewTip
  <2>1. fetcher'.next = fetcher.next
    BY <1>1, FetcherWithTip DEF NewTip, IInv, TypeOK
  <2> QED
    BY <1>1, <2>1 DEF NewTip
<1>2. CASE CatchUp
  BY <1>2, FetcherStopped DEF CatchUp, IInv, TypeOK
<1>3. CASE FetchBlock
  BY <1>3 DEF FetchBlock
<1>4. CASE CatchUpDone
  BY <1>4 DEF CatchUpDone
<1>5. CASE RefreshBlockCount
  BY <1>5 DEF RefreshBlockCount
<1>6. CASE Subscribe \/ SubscribeFails \/ Restart
  BY <1>6 DEF Subscribe, SubscribeFails, Restart
<1>7. CASE ReceiveRawblock
  BY <1>7 DEF ReceiveRawblock, Handler
<1>8. CASE ParseNewBlock \/ ScanBack \/ RereadBlock \/ CleanTable
  BY <1>8 DEF ParseNewBlock, ScanBack, RereadBlock, CleanTable
<1>9. CASE CleanBlocks
  BY <1>9 DEF CleanBlocks, LoseProcess
<1>10. CASE CommitBlock
  BY <1>10, CommitKeepsAbove
<1>11. CASE RpcError \/ Crash
  BY <1>11 DEF RpcError, AwaitsAnswer, Crash, Raise, LoseProcess
<1>12. CASE RollbackCommand
  BY <1>12 DEF RollbackCommand
<1>13. CASE UNCHANGED vars
  BY <1>13 DEF vars
<1> QED
  BY <1>1, <1>2, <1>3, <1>4, <1>5, <1>6, <1>7, <1>8, <1>9, <1>10, <1>11, <1>12,
     <1>13 DEF Next, Parser

\* What can be read from a branch is on that branch.
LEMMA ReadFromBranch ==
  ASSUME IInv, \A b \in Known : OnBranch(b), NEW b, Readable(b)
  PROVE  OnBranch(b)
<1>1. tip \in Block /\ Height(tip) \in Nat \ {0}
  BY BlockIsASequence DEF IInv, TypeOK, Height
<1>2. OnBranch(tip)
  BY <1>1, AncestorOfItself DEF OnBranch
<1>3. OnBranch(<<>>)
  <2>1. AncestorAt(tip, 0) \in Seq(Label) /\ Len(AncestorAt(tip, 0)) = 0
    BY <1>1, AncestorIsASequence
  <2>2. AncestorAt(tip, 0) = <<>>
    BY <2>1
  <2> QED
    BY <1>1, <2>2, HeightOfEmpty DEF OnBranch
<1>4. CASE b \in Known \cup {tip, <<>>}
  BY <1>2, <1>3, <1>4
<1>5. CASE \E t \in (Known \cup {tip}) \cap Block : \E h \in 1..Height(t) :
             b = AncestorAt(t, h)
  <2>1. PICK t \in (Known \cup {tip}) \cap Block : \E h \in 1..Height(t) :
               b = AncestorAt(t, h)
    BY <1>5
  <2>2. PICK h \in 1..Height(t) : b = AncestorAt(t, h)
    BY <2>1
  <2>3. OnBranch(t) /\ Height(t) \in Nat \ {0} /\ h \in Nat \ {0} /\ h <= Height(t)
    BY <1>2, BlockIsASequence DEF Height
  <2>4. Height(t) \in 1..Height(tip) /\ h \in 0..Height(t) /\ h <= Height(tip)
    BY <1>1, <2>3 DEF OnBranch
  <2>5. b = AncestorAt(tip, h)
    BY <1>1, <2>2, <2>3, <2>4, AncestorOfAncestor DEF OnBranch
  <2>6. Height(b) = h
    BY <2>2, AncestorIsABlock
  <2> QED
    BY <2>4, <2>5, <2>6 DEF OnBranch
<1> QED
  BY <1>4, <1>5 DEF Readable

\* Two blocks of the branch agree wherever both have an ancestor.
LEMMA OneBranchAgrees ==
  ASSUME tip \in Block, NEW s \in Block, NEW u \in Block, OnBranch(s), OnBranch(u),
         NEW h \in Nat \ {0}
  PROVE  ~ Disagree(s, u, h)
<1>1. Height(s) \in 1..Height(tip) /\ Height(u) \in 1..Height(tip)
      /\ Height(s) \in Nat /\ Height(u) \in Nat
  BY BlockIsASequence DEF Height, OnBranch
<1>2. ASSUME h <= Height(s), h <= Height(u) PROVE AncestorAt(s, h) = AncestorAt(u, h)
  <2>1. h \in 0..Height(s) /\ h \in 0..Height(u)
    BY <1>1, <1>2
  <2> QED
    BY <1>1, <2>1, AncestorOfAncestor DEF OnBranch
<1> QED
  BY <1>2 DEF Disagree

\* On one branch the fetcher delivers the block above the database.
LEMMA FetchOnOneBranch ==
  ASSUME IInv, Branches, reorgs = 0, FetchBlock
  PROVE  pc' = "parse" => Height(decoded_block') = Len(blocks) + 1
<1> DEFINE started == IF fetcher.next = 0
                        THEN StartedFetcher(CURRENT_BLOCK_INDEX + 1) ELSE fetcher
<1>1. /\ pc = "loop" /\ CURRENT_BLOCK_INDEX = Len(blocks) /\ Len(blocks) \in Nat
      /\ fetcher \in Fetcher /\ tip \in Block
  BY DEF FetchBlock, IInv, TypeOK, Position
<1>2. /\ started \in Fetcher /\ started.next = Len(blocks) + 1
      /\ started.tips \cup started.seen \subseteq Known \cup {tip}
  <2> DEFINE n == CURRENT_BLOCK_INDEX + 1
  <2>1. n \in Nat /\ n # 0 /\ n = Len(blocks) + 1
    BY <1>1
  <2>2. StartedFetcher(CURRENT_BLOCK_INDEX + 1) = StartedAt(fetcher, tip, n)
    BY DEF StartedFetcher
  <2>3. fetcher.next \in {0, n}
    BY <1>1 DEF Branches, FetcherAbove
  <2> HIDE DEF n
  <2>4. /\ StartedAt(fetcher, tip, n) \in Fetcher /\ StartedAt(fetcher, tip, n).next = n
        /\ StartedAt(fetcher, tip, n).tips = {tip}
        /\ StartedAt(fetcher, tip, n).seen = fetcher.seen \cup {tip}
    BY <1>1, <2>1, FetcherStarted DEF StartedAt
  <2> QED
    BY <1>1, <2>1, <2>2, <2>3, <2>4 DEF Known
<1>3. PICK t \in started.tips : \E h \in 1..Height(t) :
        /\ CanDeliver(started, t, h) /\ decoded_block' = AncestorAt(t, h)
  BY DEF FetchBlock
<1>4. PICK h \in 1..Height(t) :
        /\ CanDeliver(started, t, h) /\ decoded_block' = AncestorAt(t, h)
  BY <1>3
<1>5. tip \in Block /\ Readable(tip)
  BY <1>1 DEF Readable
<1>6. \A b \in Known \cup {tip} : OnBranch(b)
  BY <1>5, ReadFromBranch DEF Branches, OneBranch
<1> HIDE DEF started
<1>7. t \in Block /\ h \in Nat \ {0}
  BY <1>2, <1>3, <1>4, BlockIsASequence DEF Fetcher, Height
<1>8. ~ Replaced(started, t, h)
  <2>1. \A u \in started.tips, s \in started.seen : ~ Disagree(s, u, h)
    BY <1>2, <1>5, <1>6, <1>7, OneBranchAgrees DEF Fetcher
  <2> QED
    BY <2>1 DEF Replaced
<1>9. h = Len(blocks) + 1
  BY <1>1, <1>2, <1>4, <1>7, <1>8 DEF CanDeliver
<1> QED
  BY <1>4, <1>7, <1>9, AncestorIsABlock

\* The rows of `blocks` are the branch up to their height.
LEMMA DatabaseOnBranch ==
  ASSUME IInv, \A b \in Known : OnBranch(b), NEW i \in DOMAIN blocks
  PROVE  blocks[i].hash = AncestorAt(tip, i) /\ i \in 1..Height(tip)
<1>1. blocks[i].hash \in Known /\ Height(blocks[i].hash) = i
  BY DEF Known, BlocksInDb, IInv, Heights
<1>2. i \in Nat \ {0} /\ tip \in Block
  BY DEF IInv, TypeOK
<1> QED
  BY <1>1, <1>2, BlockIsASequence DEF OnBranch, Height

\* On one branch a block whose parent is in the database, and which is not there itself,
\* is the one above its top.
LEMMA ReceiveOnOneBranch ==
  ASSUME IInv, \A b \in Known : OnBranch(b), ReceiveRawblock
  PROVE  pc' = "parse" => Height(decoded_block') = Len(blocks) + 1
<1> DEFINE b == Head(zmq)
<1>1. zmq \in Seq(Block) /\ zmq # <<>> /\ tip \in Block /\ blocks \in Seq(BlockRow)
  BY DEF IInv, TypeOK, ReceiveRawblock
<1>2. b \in Block /\ b = zmq[1] /\ 1 \in DOMAIN zmq
  BY <1>1
<1>3. decoded_block' = b /\ pc' = Handler(b)
  BY DEF ReceiveRawblock
<1>4. b \in Known
  BY <1>2 DEF Known
<1> HIDE DEF b
<1> SUFFICES ASSUME pc' = "parse" PROVE Height(b) = Len(blocks) + 1
  BY <1>3
<1>5. b \notin BlocksInDb /\ ParentOf(b) \in BlocksInDb
  BY <1>3 DEF Handler
<1>6. PICK i \in DOMAIN blocks : blocks[i].hash = ParentOf(b)
  BY <1>5 DEF BlocksInDb
<1>7. i \in Nat /\ i <= Len(blocks) /\ Len(blocks) \in Nat
  BY <1>1
<1>8. Len(ParentOf(b)) = i /\ Len(ParentOf(b)) = Height(b) - 1 /\ Height(b) \in Nat
  BY <1>2, <1>6, ParentIsOneLower DEF IInv, Heights, Height
<1>9. Height(b) = i + 1
  BY <1>7, <1>8
<1>10. CASE i < Len(blocks)
  <2>1. i + 1 \in DOMAIN blocks
    BY <1>1, <1>7, <1>10
  <2>2. blocks[i + 1].hash = AncestorAt(tip, i + 1)
    BY <2>1, DatabaseOnBranch
  <2>3. AncestorAt(tip, i + 1) = b
    BY <1>4, <1>9 DEF OnBranch
  <2> QED
    BY <1>5, <2>1, <2>2, <2>3 DEF BlocksInDb
<1> QED
  BY <1>7, <1>9, <1>10

\* On one branch that block is the child of the top.
LEMMA ParseOnOneBranch ==
  ASSUME IInv, OneBranch, ParseNewBlock
  PROVE  pc' = "commit"
<1>1. /\ pc = "parse" /\ CURRENT_BLOCK_INDEX = Len(blocks) /\ Len(blocks) \in Nat
      /\ blocks \in Seq(BlockRow) /\ tip \in Block
      /\ decoded_block \in Block /\ Height(decoded_block) = Len(blocks) + 1
  BY DEF ParseNewBlock, IInv, Position, ParsedBlock, TypeOK, OneBranch
<1>2. CASE Len(blocks) = 0
  BY <1>1, <1>2 DEF ParseNewBlock
<1>3. CASE Len(blocks) # 0
  <2>1. Len(blocks) \in DOMAIN blocks
    BY <1>1, <1>3
  <2>2. /\ blocks[Len(blocks)].hash = AncestorAt(tip, Len(blocks))
        /\ decoded_block = AncestorAt(tip, Len(blocks) + 1)
        /\ Len(blocks) + 1 <= Height(tip)
    BY <1>1, <2>1, DatabaseOnBranch DEF OneBranch, OnBranch, Known
  <2>3. Len(blocks) + 1 \in 1..Height(tip) /\ (Len(blocks) + 1) - 1 = Len(blocks)
    BY <1>1, <2>2, BlockIsASequence DEF Height
  <2>4. ParentOf(decoded_block) = blocks[Len(blocks)].hash
    BY <1>1, <2>2, <2>3, ParentOfAncestor
  <2> QED
    BY <1>1, <1>3, <2>4 DEF ParseNewBlock, Extends
<1> QED
  BY <1>2, <1>3

LEMMA StepKeepsOneBranch ==
  ASSUME IInv, Branches, reorgs = 0, Step
  PROVE  OneBranch'
<1>1. OneBranch /\ tip' = tip
  BY StepsLeaveBitcoind DEF Branches
<1>2. \A b \in Known' : OnBranch(b)'
  <2> SUFFICES ASSUME NEW b \in Known' PROVE OnBranch(b)'
    OBVIOUS
  <2>1. OnBranch(b)
    BY <1>1, KnownStep, ReadFromBranch DEF OneBranch
  <2> QED
    BY <1>1, <2>1 DEF OnBranch
<1>3. pc \notin {"scan", "reread"} /\ (pc = "rollback" => caller = "rollback")
  BY <1>1 DEF OneBranch
<1>4. CASE FetchBlock
  <2>1. pc' \in {"parse", "gap"} /\ blocks' = blocks
    BY <1>4 DEF FetchBlock, db
  <2> QED
    BY <1>2, <1>4, <2>1, FetchOnOneBranch DEF OneBranch
<1>5. CASE ReceiveRawblock
  <2>1. pc' \in {"parse", "follow", "catch_up"} /\ blocks' = blocks
    BY <1>5 DEF ReceiveRawblock, Handler, db
  <2> QED
    BY <1>1, <1>2, <1>5, <2>1, ReceiveOnOneBranch DEF OneBranch
<1>6. CASE ParseNewBlock
  BY <1>1, <1>2, <1>6, ParseOnOneBranch DEF OneBranch
<1>7. CASE pc' \in {"catch_up", "loop", "refresh", "subscribe", "follow", "down", "stuck"}
  BY <1>2, <1>7 DEF OneBranch
<1>8. CASE CleanTable \/ RollbackCommand
  <2>1. pc' = "rollback" /\ caller' = "rollback"
    BY <1>3, <1>8 DEF CleanTable, RollbackCommand
  <2> QED
    BY <1>2, <2>1 DEF OneBranch
<1>9. CASE ~ FetchBlock /\ ~ ReceiveRawblock /\ ~ ParseNewBlock /\ ~ CleanTable /\ ~ RollbackCommand
  BY <1>3, <1>7, <1>9, CommitCases DEF Step, Parser, CatchUp, CatchUpDone,
     RefreshBlockCount, Subscribe, ScanBack, RereadBlock, CleanBlocks,
     SubscribeFails, RpcError, Crash, Restart, Raise, LoseProcess
<1> QED
  BY <1>4, <1>5, <1>6, <1>8, <1>9

LEMMA NewTipKeepsOneBranch ==
  ASSUME IInv, Branches, NewTip, reorgs' = 0
  PROVE  OneBranch'
<1>1. /\ tip \in Block /\ tip' \in Block /\ Height(tip) < Height(tip')
      /\ AncestorAt(tip', Height(tip)) = tip
      /\ reorgs = 0 /\ Known' \subseteq Known \cup {tip'}
      /\ UNCHANGED <<db, pc, caller, CURRENT_BLOCK_INDEX, parsing>>
  BY KnownWithNewTip DEF IInv, TypeOK
<1>2. OneBranch
  BY <1>1 DEF Branches
<1>3. Height(tip) \in Nat /\ Height(tip') \in Nat
  BY <1>1, BlockIsASequence DEF Height
<1>4. \A b \in Known' : OnBranch(b)'
  <2> SUFFICES ASSUME NEW b \in Known'
               PROVE  Height(b) <= Height(tip') /\ AncestorAt(tip', Height(b)) = b
    BY DEF OnBranch
  <2>1. CASE b = tip'
    BY <1>1, <1>3, <2>1, AncestorOfItself
  <2>2. CASE b \in Known
    <3>1. Height(b) \in 0..Height(tip) /\ AncestorAt(tip, Height(b)) = b
      BY <1>2, <1>3, <2>2, KnownAreBlocks, BlockIsASequence, HeightOfEmpty
      DEF OneBranch, OnBranch, Height
    <3>2. AncestorAt(tip', Height(b)) = AncestorAt(tip, Height(b))
      BY <1>1, <3>1, BranchIsExtended
    <3> QED
      BY <1>1, <1>3, <3>1, <3>2
  <2> QED
    BY <1>1, <2>1, <2>2
<1> QED
  BY <1>1, <1>2, <1>4 DEF OneBranch, db, parsing

\* Rows cut off at the top stay linked, and so do rows under a child of the top.
LEMMA LinkedWhenCut ==
  ASSUME IInv, Linked, NEW n \in Nat, n <= Len(blocks), blocks' = SubSeq(blocks, 1, n)
  PROVE  Linked' /\ (n > 0 => TopHash' = blocks[n].hash) /\ (n = 0 => blocks' = <<>>)
<1>1. blocks \in Seq(BlockRow) /\ Len(blocks) \in Nat
  BY DEF IInv, TypeOK
<1>2. /\ blocks' \in Seq(BlockRow) /\ Len(blocks') = n /\ DOMAIN blocks' = 1..n
      /\ \A i \in 1..n : blocks'[i] = blocks[i] /\ i \in DOMAIN blocks
  BY <1>1
<1>3. Linked'
  <2> SUFFICES ASSUME NEW i \in 1..n, i > 1
               PROVE  ParentOf(blocks'[i].hash) = blocks'[i - 1].hash
    BY <1>2 DEF Linked
  <2>1. i - 1 \in 1..n
    OBVIOUS
  <2> QED
    BY <1>2, <2>1 DEF Linked
<1> QED
  BY <1>2, <1>3 DEF TopHash

LEMMA LinkedWhenAppended ==
  ASSUME IInv, Linked, NEW row \in BlockRow, blocks' = Append(blocks, row),
         blocks # <<>> => ParentOf(row.hash) = TopHash
  PROVE  Linked'
<1>1. blocks \in Seq(BlockRow) /\ Len(blocks) \in Nat /\ DOMAIN blocks = 1..Len(blocks)
  BY DEF IInv, TypeOK
<1>2. /\ DOMAIN blocks' = 1..(Len(blocks) + 1)
      /\ \A i \in 1..Len(blocks) : blocks'[i] = blocks[i]
      /\ blocks'[Len(blocks) + 1] = row
  BY <1>1
<1> SUFFICES ASSUME NEW i \in 1..(Len(blocks) + 1), i > 1
             PROVE  ParentOf(blocks'[i].hash) = blocks'[i - 1].hash
  BY <1>2 DEF Linked
<1>3. i - 1 \in 1..Len(blocks) /\ blocks'[i - 1] = blocks[i - 1]
  BY <1>1, <1>2
<1>4. CASE i = Len(blocks) + 1
  <2>1. i - 1 = Len(blocks) /\ blocks # <<>>
    BY <1>1, <1>3, <1>4
  <2> QED
    BY <1>2, <1>3, <1>4, <2>1 DEF TopHash
<1>5. CASE i # Len(blocks) + 1
  <2>1. i \in 1..Len(blocks)
    BY <1>1, <1>5
  <2> QED
    BY <1>1, <1>2, <1>3, <2>1 DEF Linked
<1> QED
  BY <1>4, <1>5

LEMMA StepKeepsTwoBranches ==
  ASSUME IInv, FetcherBehind, AtMostTwoBranches, Step
  PROVE  AtMostTwoBranches'
<1> USE DEF AtMostTwoBranches
<1>1. /\ tip' = tip /\ tip \in Block /\ Height(tip) \in Nat
      /\ blocks \in Seq(BlockRow) /\ Len(blocks) \in Nat /\ scan \in Nat
      /\ CURRENT_BLOCK_INDEX \in Nat
  BY StepsLeaveBitcoind, BlockIsASequence DEF IInv, TypeOK, Height
<1>2. blocks' = blocks => Linked'
  BY DEF Linked
<1>3. CASE ParseNewBlock
  <2>1. blocks' = blocks /\ CURRENT_BLOCK_INDEX = Len(blocks) /\ pc' \in {"commit", "scan"}
        /\ decoded_block' = decoded_block
    BY <1>3 DEF ParseNewBlock, db, IInv, Position
  <2>2. pc' = "commit" /\ blocks # <<>> => ParentOf(decoded_block) = TopHash
    BY <1>1, <1>3, <2>1 DEF ParseNewBlock, Extends, TopHash
  <2> QED
    BY <1>2, <2>1, <2>2 DEF TopHash
<1>4. CASE ScanBack
  <2>1. /\ blocks' = blocks /\ pc' \in {"scan", "reread"}
        /\ pc' = "reread" => /\ scan' = scan /\ scan \in 1..Height(tip)
                             /\ AncestorAt(tip, scan) = blocks[scan].hash
    BY <1>4 DEF ScanBack, db
  <2> QED
    BY <1>1, <1>2, <2>1
<1>5. CASE RereadBlock
  <2>1. /\ blocks' = blocks /\ pc = "reread" /\ pc' = "rollback" /\ scan' = scan
        /\ decoded_block' = AncestorAt(tip, scan + 1) /\ scan + 1 <= Height(tip)
    BY <1>5 DEF RereadBlock, db
  <2>2. scan + 1 \in 1..Height(tip) /\ (scan + 1) - 1 = scan /\ scan > 0
    BY <1>1, <2>1
  <2>3. ParentOf(decoded_block') = blocks[scan].hash
    BY <1>1, <2>1, <2>2, ParentOfAncestor
  <2> QED
    BY <1>2, <2>1, <2>2, <2>3
<1>6. CASE CleanTable
  <2>1. blocks' = blocks /\ pc = "rollback" /\ pc' = pc /\ caller' = caller /\ scan' = scan
        /\ decoded_block' = decoded_block
    BY <1>6 DEF CleanTable
  <2> QED
    BY <1>2, <2>1
<1>7. CASE CleanBlocks
  <2>1. pc = "rollback" /\ blocks' = SubSeq(blocks, 1, scan) /\ scan <= Len(blocks)
    BY <1>7 DEF CleanBlocks, IInv, Position
  <2>2. /\ Linked' /\ (scan > 0 => TopHash' = blocks[scan].hash)
        /\ scan = 0 => blocks' = <<>>
    BY <1>1, <2>1, LinkedWhenCut
  <2>3. CASE caller = "rollback"
    BY <1>7, <2>2, <2>3 DEF CleanBlocks, LoseProcess
  <2>4. CASE caller # "rollback"
    <3>1. pc' = "commit" /\ decoded_block' = decoded_block
      BY <1>7, <2>4 DEF CleanBlocks, parsing
    <3> QED
      BY <2>1, <2>2, <2>4, <3>1
  <2> QED
    BY <2>3, <2>4
<1>8. CASE CommitBlock
  <2> DEFINE row == [hash |-> decoded_block,
                     ledger_hash |-> ConsensusHash(previous_block, decoded_block)]
  <2>1. pc = "commit" /\ row \in BlockRow /\ row.hash = decoded_block
    BY <1>8, ConsensusHashType DEF CommitBlock, IInv, TypeOK, ParsedBlock, BlockRow
  <2>2. /\ blocks' = blocks \/ blocks' = Append(blocks, row)
        /\ pc' \in {"down", "stuck", "follow", "refresh"}
    BY <1>8, CommitCases DEF LoseProcess
  <2> HIDE DEF row
  <2>3. Linked'
    BY <1>2, <2>1, <2>2, LinkedWhenAppended
  <2> QED
    BY <2>2, <2>3
<1>9. CASE RollbackCommand
  BY <1>2, <1>9 DEF RollbackCommand, db
<1>10. CASE \/ CatchUp \/ FetchBlock \/ CatchUpDone \/ RefreshBlockCount \/ Subscribe
            \/ ReceiveRawblock \/ SubscribeFails \/ RpcError \/ Crash \/ Restart
  <2>1. /\ blocks' = blocks
        /\ pc' \notin {"reread", "rollback", "commit"}
    BY <1>10 DEF CatchUp, FetchBlock, CatchUpDone, RefreshBlockCount, Subscribe,
       ReceiveRawblock, Handler, SubscribeFails, RpcError, Crash, Restart, Raise,
       LoseProcess, db
  <2> QED
    BY <1>2, <2>1
<1> QED
  BY <1>3, <1>4, <1>5, <1>6, <1>7, <1>8, <1>9, <1>10 DEF Step, Parser

LEMMA NewTipKeepsTwoBranches ==
  ASSUME IInv, Branches, NewTip, reorgs' <= 1
  PROVE  AtMostTwoBranches'
<1>1. /\ tip \in Block /\ tip' \in Block /\ Height(tip) < Height(tip') /\ reorgs \in Nat
      /\ \/ reorgs' = reorgs + 1
         \/ reorgs' = reorgs /\ AncestorAt(tip', Height(tip)) = tip
      /\ UNCHANGED <<db, pc, caller, CURRENT_BLOCK_INDEX, parsing>>
  BY KnownWithNewTip DEF IInv, TypeOK
<1>2. AtMostTwoBranches /\ Height(tip) \in Nat /\ Height(tip') \in Nat
  BY <1>1, BlockIsASequence DEF Branches, Height
<1>3. UNCHANGED <<blocks, pc, caller, scan, decoded_block>>
  BY <1>1 DEF db, parsing
<1>4. Linked' /\ TopHash' = TopHash
  BY <1>2, <1>3 DEF AtMostTwoBranches, Linked, TopHash
<1>5. ASSUME pc = "reread"
      PROVE  scan \in 1..Height(tip') /\ AncestorAt(tip', scan) = blocks[scan].hash
  <2>1. reorgs # 0
    BY <1>5 DEF Branches, OneBranch
  <2>2. AncestorAt(tip', Height(tip)) = tip
    BY <1>1, <2>1
  <2>3. scan \in 1..Height(tip) /\ scan \in 0..Height(tip)
    BY <1>2, <1>5 DEF AtMostTwoBranches
  <2>4. AncestorAt(tip', scan) = AncestorAt(tip, scan)
    BY <1>1, <2>2, <2>3, BranchIsExtended
  <2> QED
    BY <1>1, <1>2, <1>5, <2>3, <2>4 DEF AtMostTwoBranches
<1> QED
  BY <1>2, <1>3, <1>4, <1>5 DEF AtMostTwoBranches

LEMMA NextKeepsBranches ==
  IInv /\ FetcherBehind /\ Branches /\ [Next]_vars => Branches'
<1> SUFFICES ASSUME IInv, FetcherBehind, Branches, [Next]_vars PROVE Branches'
  OBVIOUS
<1>1. FetcherAbove'
  BY NextKeepsAbove DEF Branches
<1>2. CASE Step
  BY <1>1, <1>2, StepsLeaveBitcoind, StepKeepsOneBranch, StepKeepsTwoBranches DEF Branches
<1>3. CASE NewTip
  BY <1>1, <1>3, NewTipKeepsOneBranch, NewTipKeepsTwoBranches DEF Branches
<1>4. CASE UNCHANGED vars
  <2>1. Known' = Known
    BY <1>4 DEF vars, db, parsing, catching, Known, BlocksInDb
  <2> QED
    BY <1>1, <1>4, <2>1 DEF vars, bitcoind, db, parsing, Branches, OneBranch, OnBranch,
       AtMostTwoBranches, Linked, TopHash
<1> QED
  BY <1>2, <1>3, <1>4 DEF Next, Step

\* As long as bitcoind has switched branches at most once, each block of the database is
\* the child of the one below it, whatever tips, crashes, RPC errors and rollback
\* commands come between the RPC calls of parse_new_block() that look for the fork.
THEOREM LinkedAfterOneReorg == Spec => []LinkedWithOneReorg
<1>1. Init => FetcherBehind /\ Branches
  <2>1. Init => tip \in Block
    BY InitInvariant DEF IInv, TypeOK
  <2>2. Init => OnBranch(<<>>)
    <3> SUFFICES ASSUME Init PROVE OnBranch(<<>>)
      OBVIOUS
    <3>1. tip \in Block /\ Height(tip) \in Nat
      BY <2>1, BlockIsASequence DEF Height
    <3>2. AncestorAt(tip, 0) \in Seq(Label) /\ Len(AncestorAt(tip, 0)) = 0
      BY <3>1, AncestorIsASequence
    <3> QED
      BY <3>1, <3>2, HeightOfEmpty DEF OnBranch
  <2>3. Init => FetcherBehind /\ FetcherAbove /\ caller = "catch_up"
    BY DEF Init, FetcherBehind, FetcherAbove
  <2> QED
    BY <2>2, <2>3, InitKnown DEF Branches, OneBranch, AtMostTwoBranches, Linked
<1>2. Branches => LinkedWithOneReorg
  BY DEF Branches, AtMostTwoBranches, LinkedWithOneReorg
<1> QED
  BY <1>1, <1>2, NextKeepsBehind, NextKeepsBranches, InvariantHolds, PTL DEF Spec
=============================================================================
