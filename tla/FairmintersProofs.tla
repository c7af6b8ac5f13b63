-------------------------- MODULE FairmintersProofs --------------------------
(***************************************************************************)
(* Theorems about Fairminters (and Assets, which it extends), for any      *)
(* addresses, assets, terms, messages, funds and number of blocks: type    *)
(* correctness, conservation, the escrow of mints before a soft cap, hard  *)
(* caps, the end of every minting, and the rights of holders.              *)
(*                                                                         *)
(* The inductive invariant is IInv.  RowsOK says what the three ways to    *)
(* read the last issuance of an asset (by rowid, by tx_index, from the     *)
(* cache) have in common; MintingOK how that row and the fair minters      *)
(* agree; UnlockedOK that no asset is locked while it is minted; MintersOK *)
(* the life of one fair minter; CoveredOK what UNSPENDABLE holds;          *)
(* ConservedOK that nothing is created or lost; CapOK the hard caps.       *)
(*                                                                         *)
(* Each step is proved to keep the ledger (LedgerKept: the tables of       *)
(* amounts, ...Keeps) and then the rest (...Inv).                          *)
(***************************************************************************)
EXTENDS Fairminters, SumTheorems, SequenceTheorems, TLAPS

\* The row that get_asset() returns, and the order of the rows
NewestOf(rows) ==
  rows[Min({i \in DOMAIN rows : \A j \in DOMAIN rows : rows[j].tx_index <= rows[i].tx_index})]
LastOf(rows) == rows[Len(rows)]
Sorted(rows) == \A i, j \in DOMAIN rows : i <= j => rows[i].tx_index <= rows[j].tx_index
RowsSum(rows, field) == SumFunctionOnSet([i \in DOMAIN rows |-> rows[i][field]], DOMAIN rows)

\* The rows of an asset come by transaction; and what may be read of the last one in the
\* newest one and in the cache
RowsAt(rows, n, cached) ==
  /\ Sorted(rows)
  /\ \A i \in DOMAIN rows : rows[i].tx_index <= n
  /\ rows # <<>> =>
       /\ NewestOf(rows).issuer = LastOf(rows).issuer
       /\ LastOf(rows).fair_minting => NewestOf(rows).fair_minting
       /\ cached.fair_minting = LastOf(rows).fair_minting
RowsOK == \A a \in Asset : RowsAt(issuances[a], txs, cache.last[a])

\* The fair minters of an asset: at most one is live, and none beside one that was late;
\* and the last row of the asset tells whether there is one.
OfIn(fs, a) == {i \in DOMAIN fs : fs[i].terms.asset = a}
LiveIn(fs, a) == {i \in OfIn(fs, a) : fs[i].status # "closed"}
LateIn(fs, a) == \E i \in OfIn(fs, a) : fs[i].late
MintingAt(fs, rows, a) ==
  /\ \A i, j \in LiveIn(fs, a) : i = j
  /\ LateIn(fs, a) => LiveIn(fs, a) = {}
  /\ OfIn(fs, a) # {} => rows # <<>>
  /\ rows # <<>> => (LastOf(rows).fair_minting <=> LiveIn(fs, a) # {} \/ LateIn(fs, a))
MintingOK == \A a \in Asset : MintingAt(fairminters, issuances[a], a)

\* No row of an asset with a live fair minter is locked.
UnlockedAt(fs, rows, a) ==
  LiveIn(fs, a) # {} => \A i \in DOMAIN rows : ~rows[i].locked
UnlockedOK == ~misled => \A a \in Asset : UnlockedAt(fairminters, issuances[a], a)

\* The life of a fair minter: what its status, its blocks and its soft cap say of each other
MinterAt(f, block, ph) ==
  LET t == f.terms IN
  /\ t.minted_asset_commission < CommissionUnit
  /\ t.soft_cap > 0 =>
       /\ t.soft_cap_deadline_block > t.start_block
       /\ t.end_block > 0 => t.soft_cap_deadline_block < t.end_block
       /\ ~f.settled => f.status # "closed" /\ t.soft_cap_deadline_block >= block
  /\ f.settled =>
       /\ t.soft_cap > 0
       /\ \/ f.status = "closed"
          \/ t.soft_cap_deadline_block < block
          \/ t.soft_cap_deadline_block = block /\ ph = "after"
  /\ f.pre_minted => t.soft_cap = 0 /\ f.status # "pending"
  /\ f.status = "pending" => t.start_block > block \/ (t.start_block = block /\ ph = "parsing")
  /\ t.end_block > 0 /\ block > t.end_block => f.status = "closed"
  /\ f.late => f.status = "closed"
MintersOK == \A i \in DOMAIN fairminters : MinterAt(fairminters[i], block_index, phase)

\* UNSPENDABLE holds what the fair minters will take from it.
HeldForAll(fs, s) == SumFunctionOnSet([i \in DOMAIN fs |-> HeldFor(fs[i], s)], DOMAIN fs)
CoveredOK == \A s \in Token : balances[Unspendable][s] >= HeldForAll(fairminters, s)

\* Nothing is created or lost.
Total(b, s) == SumFunctionOnSet([x \in Holder |-> b[x][s]], Holder)
EscrowTotal(e, a) == SumFunctionOnSet([x \in Address |-> e[x][a]], Address)
FeesOf(iss) == SumFunctionOnSet([a \in Asset |-> RowsSum(iss[a], "fee_paid")], Asset)
ConservedAt(b, e, iss, d, fe) ==
  /\ \A a \in Asset : Total(b, a) + EscrowTotal(e, a) = RowsSum(iss[a], "quantity") - d[a]
  /\ Total(b, XCP) = SumOver(Funds) - (d[XCP] + FeesOf(iss) + fe)
ConservedOK == ConservedAt(balances, escrow, issuances, destroyed, fees)

\* No live fair minter is at its hard cap.
CapAt(fs, iss, d) ==
  \A i \in DOMAIN fs :
    LET t == fs[i].terms IN
    t.hard_cap > 0 /\ fs[i].status # "closed" =>
      RowsSum(iss[t.asset], "quantity") - d[t.asset] < t.hard_cap
CapOK == ~misled => ~stopped /\ CapAt(fairminters, issuances, destroyed)

IInv ==
  /\ TypeOK /\ RowsOK /\ MintingOK /\ UnlockedOK /\ MintersOK
  /\ CoveredOK /\ ConservedOK /\ CapOK

----------------------------------------------------------------------------
\* Constants

\* What the assumptions say of the holders and tokens
LEMMA ConstantFacts ==
  /\ IsFiniteSet(Address) /\ IsFiniteSet(Asset) /\ IsFiniteSet(Holder) /\ IsFiniteSet(Token)
  /\ Unspendable \in Holder /\ Unspendable \notin Address /\ Address \subseteq Holder
  /\ NoAddress \notin Address /\ Unspendable # NoAddress
  /\ XCP \in Token /\ XCP \notin Asset /\ Asset \subseteq Token
  /\ \A x \in Holder : x \in Address \/ x = Unspendable
  /\ \A s \in Token : s \in Asset \/ s = XCP
  /\ IssuanceFee \in Nat /\ HolderFee \in Nat /\ MaxInt \in Nat /\ MaxTxs \in Nat
  /\ Unit \in Nat \ {0} /\ CommissionUnit \in Nat /\ FirstBlock \in Nat \ {0} /\ LastBlock \in Nat
<1>1. IsFiniteSet(Address) /\ IsFiniteSet(Asset)
  BY AssetsAssumption
<1>2. IsFiniteSet(Address \cup {Unspendable}) /\ IsFiniteSet(Asset \cup {XCP})
  BY <1>1, FS_AddElement
<1> QED BY <1>1, <1>2, AssetsAssumption, FairmintersAssumption DEF Holder, Token

\* The rows of a table of sequences
LEMMA RowFields ==
  ASSUME NEW r \in Row
  PROVE  /\ r.tx_index \in Nat /\ r.quantity \in Nat /\ r.issuer \in Address \cup {NoAddress}
         /\ r.divisible \in BOOLEAN /\ r.locked \in BOOLEAN
         /\ r.description_locked \in BOOLEAN /\ r.fair_minting \in BOOLEAN /\ r.fee_paid \in Nat
  BY DEF Row

\* The fields of a fair minter
LEMMA MinterFields ==
  ASSUME NEW f \in Fairminter
  PROVE  /\ f.terms \in TermRecords /\ f.source \in Address
         /\ f.status \in {"pending", "open", "closed"} /\ f.pre_minted \in BOOLEAN
         /\ f.earned \in [Address -> Nat] /\ f.paid \in [Address -> Nat] /\ f.commission \in Nat
         /\ f.settled \in BOOLEAN /\ f.late \in BOOLEAN
  BY DEF Fairminter

\* The terms of a fair minter
LEMMA TermFields ==
  ASSUME NEW t \in TermRecords
  PROVE  /\ t.asset \in Asset /\ t.price \in Nat /\ t.quantity_by_price \in Nat \ {0}
         /\ t.max_mint_per_tx \in Nat /\ t.hard_cap \in Nat /\ t.premint_quantity \in Nat
         /\ t.start_block \in Nat /\ t.end_block \in Nat /\ t.soft_cap \in Nat
         /\ t.soft_cap_deadline_block \in Nat /\ t.minted_asset_commission \in Nat
         /\ t.burn_payment \in BOOLEAN /\ t.lock_quantity \in BOOLEAN
         /\ t.lock_description \in BOOLEAN /\ t.divisible \in BOOLEAN
         /\ t.new_description \in BOOLEAN
  BY DEF TermRecords

----------------------------------------------------------------------------
\* Balances

IntBalances == [Holder -> [Token -> Int]]

\* A movement changes one balance, and the total of its token by as much.
LEMMA MoveFacts ==
  ASSUME NEW b \in IntBalances, NEW x \in Holder, NEW s \in Token, NEW q \in Int
  PROVE  /\ Move(b, x, s, q) \in IntBalances
         /\ \A y \in Holder, t \in Token :
              Move(b, x, s, q)[y][t] = IF y = x /\ t = s THEN b[y][t] + q ELSE b[y][t]
         /\ \A t \in Token :
              Total(Move(b, x, s, q), t) = Total(b, t) + (IF t = s THEN q ELSE 0)
<1> DEFINE c == Move(b, x, s, q)
<1>1. /\ c \in IntBalances
      /\ \A y \in Holder, t \in Token : c[y][t] = IF y = x /\ t = s THEN b[y][t] + q ELSE b[y][t]
  BY DEF Move, IntBalances
<1>2. ASSUME NEW t \in Token
      PROVE  Total(c, t) = Total(b, t) + (IF t = s THEN q ELSE 0)
  <2> DEFINE f == [y \in Holder |-> b[y][t]]
             g == [y \in Holder |-> c[y][t]]
  <2>1. \A y \in Holder : f[y] \in Int /\ g[y] \in Int
    BY <1>1 DEF IntBalances
  <2>2. \A y \in Holder : y # x => g[y] = f[y]
    BY <1>1
  <2>3. g[x] - f[x] = IF t = s THEN q ELSE 0
    BY <1>1 DEF IntBalances
  <2>4. IsFiniteSet(Holder)
    BY ConstantFacts
  <2> HIDE DEF f, g, c
  <2>5. SumFunctionOnSet(g, Holder) = SumFunctionOnSet(f, Holder) + (g[x] - f[x])
    BY <2>1, <2>2, <2>4, SumChange
  <2> QED BY <2>3, <2>5 DEF Total, f, g
<1> QED BY <1>1, <1>2

\* The total of a token is an integer.
LEMMA TotalType ==
  ASSUME NEW b \in IntBalances, NEW s \in Token
  PROVE  Total(b, s) \in Int
<1> DEFINE f == [x \in Holder |-> b[x][s]]
<1>1. \A x \in Holder : f[x] \in Int
  BY DEF IntBalances
<1>2. IsFiniteSet(Holder)
  BY ConstantFacts
<1> HIDE DEF f
<1>3. SumFunctionOnSet(f, Holder) \in Int
  BY <1>1, <1>2, SumType
<1> QED BY <1>3 DEF Total, f

----------------------------------------------------------------------------
\* Rows of issuances

\* The sum of a field of the rows is a natural number, and grows by that of a new row.
LEMMA RowsSumFacts ==
  ASSUME NEW rows \in Seq(Row), NEW field \in {"quantity", "fee_paid"}
  PROVE  /\ RowsSum(rows, field) \in Nat
         /\ \A r \in Row : RowsSum(Append(rows, r), field) = RowsSum(rows, field) + r[field]
<1>1. DOMAIN rows = 1..Len(rows) /\ Len(rows) \in Nat
  OBVIOUS
<1>2. IsFiniteSet(DOMAIN rows)
  BY <1>1, FS_Interval
<1>3. \A r \in Row : r[field] \in Nat
  BY DEF Row
<1> DEFINE f == [i \in DOMAIN rows |-> rows[i][field]]
<1>4. \A i \in DOMAIN rows : rows[i] \in Row
  BY <1>1
<1>5. \A i \in DOMAIN rows : f[i] \in Nat
  BY <1>3, <1>4
<1>6. RowsSum(rows, field) \in Nat
  <2> HIDE DEF f
  <2>1. SumFunctionOnSet(f, DOMAIN rows) \in Nat
    BY <1>2, <1>5, SumNat
  <2> QED BY <2>1 DEF RowsSum, f
<1>7. ASSUME NEW r \in Row
      PROVE  RowsSum(Append(rows, r), field) = RowsSum(rows, field) + r[field]
  <2> DEFINE n == Len(rows) + 1
             S == DOMAIN rows
             g == [i \in DOMAIN Append(rows, r) |-> Append(rows, r)[i][field]]
  <2>1. DOMAIN Append(rows, r) = S \cup {n} /\ n \notin S
    BY <1>1
  <2>2. \A i \in S : Append(rows, r)[i] = rows[i]
    BY <1>1
  <2>3. Append(rows, r)[n] = r
    BY <1>1
  <2>4. (\A i \in S : g[i] = f[i]) /\ g[n] = r[field]
    BY <2>1, <2>2, <2>3
  <2>5. r[field] \in Nat
    BY <1>3
  <2>6. \A i \in S \cup {n} : g[i] \in Int
    BY <1>5, <2>4, <2>5
  <2>7. SumFunctionOnSet(g, S \cup {n}) = SumFunctionOnSet(g, S) + g[n]
    <3> HIDE DEF g, n, S
    <3>1. IsFiniteSet(S)
      BY <1>2 DEF S
    <3> QED BY <2>1, <2>6, <3>1, SumInsert
  <2>8. SumFunctionOnSet(g, S) = SumFunctionOnSet(f, S)
    <3>1. \A i \in S : f[i] \in Int /\ g[i] = f[i]
      BY <1>5, <2>4
    <3>2. IsFiniteSet(S)
      BY <1>2
    <3> HIDE DEF f, g, S
    <3> QED BY <3>1, <3>2, SumEqual
  <2>9. RowsSum(Append(rows, r), field) = SumFunctionOnSet(g, S \cup {n})
    BY <2>1 DEF RowsSum
  <2> QED BY <2>4, <2>7, <2>8, <2>9 DEF RowsSum
<1> QED BY <1>6, <1>7

\* Issued() and RowSum() are such sums.
LEMMA IssuedIsRowsSum ==
  \A a \in Asset : Issued(a) = RowsSum(issuances[a], "quantity")
                   /\ RowSum(a, "fee_paid") = RowsSum(issuances[a], "fee_paid")
  BY DEF Issued, RowSum, RowsSum

\* A set of numbers that is not empty has a least member.
LEMMA LeastMember ==
  ASSUME NEW S \in SUBSET Nat, S # {}
  PROVE  Min(S) \in S /\ \A y \in S : Min(S) <= y
<1>1. \E x \in S : \A y \in S : <<y, x>> \notin OpToRel(<, Nat)
  BY NatLessThanWellFounded, WFMin
<1>2. PICK x \in S : \A y \in S : <<y, x>> \notin OpToRel(<, Nat)
  BY <1>1
<1>3. \A y \in S : x <= y
  <2> SUFFICES ASSUME NEW y \in S, y < x PROVE FALSE
    OBVIOUS
  <2>1. <<y, x>> \in OpToRel(<, Nat)
    BY DEF OpToRel
  <2> QED BY <1>2, <2>1
<1> QED BY <1>2, <1>3 DEF Min

\* The newest row is one of them, and no other is of a later transaction.
LEMMA NewestIsRow ==
  ASSUME NEW rows \in Seq(Row), rows # <<>>, Sorted(rows)
  PROVE  \E k \in DOMAIN rows :
           /\ NewestOf(rows) = rows[k]
           /\ rows[k].tx_index = rows[Len(rows)].tx_index
           /\ \A j \in DOMAIN rows : rows[j].tx_index <= rows[k].tx_index
           /\ \A j \in DOMAIN rows : rows[j].tx_index = rows[k].tx_index => k <= j
<1> DEFINE N == {i \in DOMAIN rows : \A j \in DOMAIN rows : rows[j].tx_index <= rows[i].tx_index}
           n == Len(rows)
<1>1. DOMAIN rows = 1..n /\ n \in Nat \ {0}
  BY EmptySeq
<1>2. \A i \in DOMAIN rows : rows[i].tx_index \in Nat
  BY RowFields
<1>3. n \in N /\ N \in SUBSET Nat
  BY <1>1 DEF Sorted
<1>4. Min(N) \in N /\ \A y \in N : Min(N) <= y
  <2> HIDE DEF N
  <2> QED BY <1>3, LeastMember
<1>5. PICK k \in N : k = Min(N) /\ \A y \in N : k <= y
  BY <1>4
<1>6. NewestOf(rows) = rows[k]
  BY <1>5 DEF NewestOf
<1>7. rows[k].tx_index = rows[n].tx_index
  BY <1>1, <1>2, <1>3, <1>5
<1>8. ASSUME NEW j \in DOMAIN rows, rows[j].tx_index = rows[k].tx_index
      PROVE  k <= j
  <2>1. j \in N
    BY <1>5, <1>8
  <2> QED BY <1>5, <2>1
<1> QED BY <1>5, <1>6, <1>7, <1>8
\* A row is the newest if none is of a later transaction and none of its own comes before it.
LEMMA NewestUnique ==
  ASSUME NEW rows \in Seq(Row), NEW k \in DOMAIN rows,
         \A j \in DOMAIN rows : rows[j].tx_index <= rows[k].tx_index,
         \A j \in DOMAIN rows : rows[j].tx_index = rows[k].tx_index => k <= j
  PROVE  NewestOf(rows) = rows[k]
<1> DEFINE N == {i \in DOMAIN rows : \A j \in DOMAIN rows : rows[j].tx_index <= rows[i].tx_index}
<1>1. DOMAIN rows = 1..Len(rows) /\ Len(rows) \in Nat
  OBVIOUS
<1>2. \A i \in DOMAIN rows : rows[i].tx_index \in Nat
  BY RowFields
<1>3. k \in N /\ N \in SUBSET Nat
  BY <1>1
<1>4. \A y \in N : k <= y
  <2> SUFFICES ASSUME NEW y \in N PROVE k <= y
    OBVIOUS
  <2>1. y \in DOMAIN rows /\ rows[k].tx_index <= rows[y].tx_index /\ rows[y].tx_index <= rows[k].tx_index
    OBVIOUS
  <2> QED BY <1>2, <2>1
<1>5. Min(N) \in N /\ \A y \in N : Min(N) <= y
  <2> HIDE DEF N
  <2> QED BY <1>3, LeastMember
<1>6. Min(N) = k
  <2>1. Min(N) <= k /\ k <= Min(N) /\ Min(N) \in Nat /\ k \in Nat
    BY <1>3, <1>4, <1>5
  <2> QED BY <2>1
<1> QED BY <1>6 DEF NewestOf

\* A row of a later transaction becomes the newest,
LEMMA AppendLater ==
  ASSUME NEW rows \in Seq(Row), Sorted(rows), NEW r \in Row,
         \A j \in DOMAIN rows : rows[j].tx_index < r.tx_index
  PROVE  /\ Append(rows, r) \in Seq(Row) /\ Sorted(Append(rows, r))
         /\ NewestOf(Append(rows, r)) = r
<1> DEFINE more == Append(rows, r)
           n == Len(rows) + 1
<1>1. /\ more \in Seq(Row) /\ DOMAIN more = 1..n /\ DOMAIN rows = 1..(n - 1) /\ n \in Nat \ {0}
      /\ more[n] = r /\ \A j \in 1..(n - 1) : more[j] = rows[j]
  OBVIOUS
<1>2. \A j \in DOMAIN more : more[j].tx_index \in Nat
  BY <1>1, RowFields
<1>3. \A j \in 1..(n - 1) : more[j].tx_index < more[n].tx_index
  BY <1>1
<1>4. Sorted(more)
  <2> SUFFICES ASSUME NEW i \in 1..n, NEW j \in 1..n, i <= j
               PROVE  more[i].tx_index <= more[j].tx_index
    BY <1>1 DEF Sorted
  <2>1. CASE j = n
    BY <1>1, <1>2, <1>3, <2>1
  <2>2. CASE j # n
    <3>1. i \in DOMAIN rows /\ j \in DOMAIN rows
      BY <1>1, <2>2
    <3>2. rows[i].tx_index <= rows[j].tx_index
      BY <3>1 DEF Sorted
    <3> QED BY <1>1, <3>1, <3>2
  <2> QED BY <2>1, <2>2
<1>5. \A j \in DOMAIN more : more[j].tx_index <= more[n].tx_index
  BY <1>1, <1>2, <1>3
<1>6. \A j \in DOMAIN more : more[j].tx_index = more[n].tx_index => n <= j
  BY <1>1, <1>2, <1>3
<1> HIDE DEF more, n
<1>7. n \in DOMAIN more
  BY <1>1
<1>8. NewestOf(more) = more[n]
  BY <1>1, <1>5, <1>6, <1>7, NewestUnique
<1> QED BY <1>1, <1>4, <1>8 DEF more

\* and a row of the newest one's transaction does not.
LEMMA AppendCopy ==
  ASSUME NEW rows \in Seq(Row), rows # <<>>, Sorted(rows), NEW r \in Row,
         r.tx_index = NewestOf(rows).tx_index
  PROVE  /\ Append(rows, r) \in Seq(Row) /\ Sorted(Append(rows, r))
         /\ NewestOf(Append(rows, r)) = NewestOf(rows)
<1>1. PICK k \in DOMAIN rows :
           /\ NewestOf(rows) = rows[k]
           /\ rows[k].tx_index = rows[Len(rows)].tx_index
           /\ \A j \in DOMAIN rows : rows[j].tx_index <= rows[k].tx_index
           /\ \A j \in DOMAIN rows : rows[j].tx_index = rows[k].tx_index => k <= j
  BY NewestIsRow
<1> DEFINE more == Append(rows, r)
           n == Len(rows) + 1
<1>2. /\ more \in Seq(Row) /\ DOMAIN more = 1..n /\ DOMAIN rows = 1..(n - 1) /\ n \in Nat \ {0}
      /\ more[n] = r /\ \A j \in 1..(n - 1) : more[j] = rows[j]
  OBVIOUS
<1>3. \A j \in DOMAIN more : more[j].tx_index \in Nat
  BY <1>2, RowFields
<1>4. k \in 1..(n - 1) /\ more[k] = rows[k] /\ more[n].tx_index = more[k].tx_index
  BY <1>1, <1>2
<1>5. \A j \in 1..(n - 1) : more[j].tx_index <= more[k].tx_index
  BY <1>1, <1>2, <1>4
<1>6. Sorted(more)
  <2> SUFFICES ASSUME NEW i \in 1..n, NEW j \in 1..n, i <= j
               PROVE  more[i].tx_index <= more[j].tx_index
    BY <1>2 DEF Sorted
  <2>1. CASE j = n
    BY <1>2, <1>3, <1>4, <1>5, <2>1
  <2>2. CASE j # n
    <3>1. i \in DOMAIN rows /\ j \in DOMAIN rows
      BY <1>2, <2>2
    <3>2. rows[i].tx_index <= rows[j].tx_index
      BY <3>1 DEF Sorted
    <3> QED BY <1>2, <3>1, <3>2
  <2> QED BY <2>1, <2>2
<1>7. \A j \in DOMAIN more : more[j].tx_index <= more[k].tx_index
  BY <1>2, <1>3, <1>4, <1>5
<1>8. \A j \in DOMAIN more : more[j].tx_index = more[k].tx_index => k <= j
  <2> SUFFICES ASSUME NEW j \in DOMAIN more, more[j].tx_index = more[k].tx_index PROVE k <= j
    OBVIOUS
  <2>1. CASE j = n
    BY <1>2, <1>4, <2>1
  <2>2. CASE j # n
    BY <1>1, <1>2, <1>4, <2>2
  <2> QED BY <2>1, <2>2
<1> HIDE DEF more, n
<1>9. k \in DOMAIN more
  BY <1>2, <1>4
<1>10. NewestOf(more) = more[k]
  BY <1>2, <1>7, <1>8, <1>9, NewestUnique
<1> QED BY <1>1, <1>2, <1>4, <1>6, <1>10 DEF more

NatBalances == [Holder -> [Token -> Nat]]

\* Balances in units are integers.
LEMMA NatAreInt == \A b \in NatBalances : b \in IntBalances
  BY DEF NatBalances, IntBalances

\* What is found in a state of the right types
LEMMA TypeFields ==
  ASSUME TypeOK
  PROVE  /\ balances \in NatBalances /\ balances \in IntBalances
         /\ escrow \in [Address -> [Asset -> Nat]]
         /\ issuances \in [Asset -> Seq(Row)] /\ destroyed \in [Token -> Nat] /\ fees \in Nat
         /\ txs \in Nat /\ txs <= MaxTxs
         /\ cache \in [last : [Asset -> Row], issued : [Asset -> Nat], destroyed : [Token -> Nat]]
         /\ first \in [Asset -> Address \cup {NoAddress}]
         /\ fairminters \in Seq(Fairminter) /\ block_index \in Nat /\ block_index > 0
         /\ block_index \in FirstBlock..LastBlock
         /\ phase \in {"parsing", "after"} /\ misled \in BOOLEAN /\ stopped \in BOOLEAN
  BY ConstantFacts DEF TypeOK, NatBalances, IntBalances

\* The total of a token is that of the addresses and UNSPENDABLE's.
LEMMA TotalSplit ==
  ASSUME NEW b \in IntBalances, NEW s \in Token
  PROVE  /\ SumFunctionOnSet([x \in Address |-> b[x][s]], Address) \in Int
         /\ Total(b, s) = b[Unspendable][s] + SumFunctionOnSet([x \in Address |-> b[x][s]], Address)
<1> DEFINE f == [x \in Holder |-> b[x][s]]
           g == [x \in Address |-> b[x][s]]
<1>1. /\ IsFiniteSet(Address) /\ Unspendable \notin Address /\ Holder = Address \cup {Unspendable}
      /\ Address \subseteq Holder /\ Unspendable \in Holder
  BY ConstantFacts DEF Holder
<1>2. (\A x \in Address \cup {Unspendable} : f[x] \in Int) /\ (\A x \in Address : f[x] \in Int /\ g[x] = f[x])
  BY <1>1 DEF IntBalances
<1>3. f[Unspendable] = b[Unspendable][s]
  BY <1>1
<1> HIDE DEF f, g
<1>4. SumFunctionOnSet(f, Address \cup {Unspendable}) = SumFunctionOnSet(f, Address) + f[Unspendable]
  BY <1>1, <1>2, SumInsert
<1>5. SumFunctionOnSet(g, Address) = SumFunctionOnSet(f, Address)
  BY <1>1, <1>2, SumEqual
<1>6. SumFunctionOnSet(f, Address) \in Int
  BY <1>1, <1>2, SumType
<1>7. f[Unspendable] \in Int
  BY <1>2
<1>8. Total(b, s) = SumFunctionOnSet(f, Address \cup {Unspendable})
  BY <1>1 DEF Total, f
<1>9. SumFunctionOnSet(g, Address) \in Int
  BY <1>5, <1>6
<1>10. Total(b, s) = b[Unspendable][s] + SumFunctionOnSet(g, Address)
  BY <1>3, <1>4, <1>5, <1>6, <1>7, <1>8
<1> QED BY <1>9, <1>10 DEF g

----------------------------------------------------------------------------
\* The sums of a fair minter

\* They are natural numbers.
LEMMA MintedType ==
  ASSUME NEW f \in Fairminter
  PROVE  /\ SumOver(f.earned) \in Nat /\ Minted(f) \in Nat /\ Paid(f) \in Nat
         /\ \A x \in Address : f.earned[x] \in Nat /\ f.paid[x] \in Nat
<1>1. f.earned \in [Address -> Nat] /\ f.paid \in [Address -> Nat] /\ f.commission \in Nat
  BY MinterFields
<1>2. \A x \in Address : f.earned[x] \in Nat /\ f.paid[x] \in Nat
  BY <1>1
<1>3. IsFiniteSet(Address)
  BY ConstantFacts
<1>4. SumFunctionOnSet(f.earned, Address) \in Nat /\ SumFunctionOnSet(f.paid, Address) \in Nat
  BY <1>2, <1>3, SumNat
<1> QED BY <1>1, <1>2, <1>4 DEF SumOver, Minted, Paid

\* What UNSPENDABLE gives when the soft cap is decided
HeldIn(f, s) ==
  IF s = XCP THEN Paid(f)
  ELSE IF s = f.terms.asset THEN Minted(f) + f.terms.premint_quantity ELSE 0

\* A sum with one member that is not zero
LEMMA SumOfOne ==
  ASSUME NEW x \in Address, NEW q \in Int, NEW f,
         f = [y \in Address |-> IF y = x THEN q ELSE 0]
  PROVE  SumFunctionOnSet(f, Address) = q
<1>1. f[x] = q /\ f[x] \in Int /\ \A y \in Address : y # x => f[y] = 0
  OBVIOUS
<1>2. IsFiniteSet(Address)
  BY ConstantFacts
<1>3. SumFunctionOnSet(f, Address) = f[x]
  BY <1>1, <1>2, SumSingle
<1> QED BY <1>1, <1>3

\* The shares add up to what was held and is not lost, and none is negative.
LEMMA ShareSum ==
  ASSUME NEW f \in Fairminter, NEW s \in {XCP, f.terms.asset}
  PROVE  /\ \A x \in Address : Share(f, x, s) \in Nat
         /\ SumFunctionOnSet([x \in Address |-> Share(f, x, s)], Address) = HeldIn(f, s) - Lost(f, s)
         /\ HeldIn(f, s) \in Nat /\ Lost(f, s) \in Nat
<1> DEFINE sh == [x \in Address |-> Share(f, x, s)]
           t == f.terms
<1>1. /\ f.source \in Address /\ t \in TermRecords /\ f.commission \in Nat
      /\ t.asset \in Asset /\ t.premint_quantity \in Nat /\ t.burn_payment \in BOOLEAN
      /\ f.earned \in [Address -> Nat] /\ f.paid \in [Address -> Nat]
  BY MinterFields, TermFields
<1>2. /\ SumOver(f.earned) \in Nat /\ Minted(f) \in Nat /\ Paid(f) \in Nat
      /\ \A x \in Address : f.earned[x] \in Nat /\ f.paid[x] \in Nat
  BY MintedType
<1>3. IsFiniteSet(Address) /\ XCP \notin Asset
  BY ConstantFacts
<1>4. \A x \in Address : Share(f, x, s) \in Nat
  BY <1>1, <1>2 DEF Share
<1>5. HeldIn(f, s) \in Nat /\ Lost(f, s) \in Nat
  BY <1>1, <1>2 DEF HeldIn, Lost
<1>6. SumFunctionOnSet(sh, Address) = HeldIn(f, s) - Lost(f, s)
  <2>1. CASE s = XCP /\ ~SoftCapReached(f)
    <3>1. \A x \in Address : f.paid[x] \in Int /\ sh[x] = f.paid[x]
      BY <1>2, <2>1 DEF Share
    <3> HIDE DEF sh
    <3>2. SumFunctionOnSet(sh, Address) = SumFunctionOnSet(f.paid, Address)
      BY <1>3, <3>1, SumEqual
    <3>3. HeldIn(f, s) = Paid(f) /\ Lost(f, s) = 0
      BY <2>1 DEF HeldIn, Lost
    <3> QED BY <1>2, <3>2, <3>3 DEF Paid, SumOver
  <2>2. CASE s = XCP /\ SoftCapReached(f) /\ t.burn_payment
    <3>1. \A x \in Address : sh[x] = 0
      BY <2>2 DEF Share
    <3> HIDE DEF sh
    <3>2. SumFunctionOnSet(sh, Address) = 0
      BY <1>3, <3>1, SumZero
    <3>3. HeldIn(f, s) = Paid(f) /\ Lost(f, s) = Paid(f)
      BY <2>2 DEF HeldIn, Lost
    <3> QED BY <1>2, <3>2, <3>3
  <2>3. CASE s = XCP /\ SoftCapReached(f) /\ ~t.burn_payment
    <3>1. sh = [x \in Address |-> IF x = f.source THEN Paid(f) ELSE 0]
      BY <2>3 DEF Share
    <3>2. SumFunctionOnSet(sh, Address) = Paid(f)
      <4>1. f.source \in Address /\ Paid(f) \in Int
        BY <1>1, <1>2
      <4> HIDE DEF sh
      <4> QED BY <3>1, <4>1, SumOfOne
    <3>3. HeldIn(f, s) = Paid(f) /\ Lost(f, s) = 0
      BY <2>3 DEF HeldIn, Lost
    <3> QED BY <1>2, <3>1, <3>2, <3>3
  <2>4. CASE s # XCP /\ ~SoftCapReached(f)
    <3>1. \A x \in Address : sh[x] = 0
      BY <2>4 DEF Share
    <3> HIDE DEF sh
    <3>2. SumFunctionOnSet(sh, Address) = 0
      BY <1>3, <3>1, SumZero
    <3>3. HeldIn(f, s) = Lost(f, s)
      BY <2>4 DEF HeldIn, Lost
    <3> QED BY <1>5, <3>2, <3>3
  <2>5. CASE s # XCP /\ SoftCapReached(f)
    <3> DEFINE q == f.commission + t.premint_quantity
               one == [x \in Address |-> IF x = f.source THEN q ELSE 0]
    <3>1. \A x \in Address : f.earned[x] \in Int /\ one[x] \in Int /\ sh[x] = f.earned[x] + one[x]
      BY <1>1, <1>2, <2>5 DEF Share
    <3>2. SumFunctionOnSet(one, Address) = q
      <4>1. f.source \in Address /\ q \in Int /\ one = [x \in Address |-> IF x = f.source THEN q ELSE 0]
        BY <1>1
      <4> HIDE DEF q, one
      <4> QED BY <4>1, SumOfOne
    <3>3. q = f.commission + t.premint_quantity
      OBVIOUS
    <3> HIDE DEF sh, one, q
    <3>4. SumFunctionOnSet(sh, Address) = SumFunctionOnSet(f.earned, Address) + SumFunctionOnSet(one, Address)
      BY <1>3, <3>1, SumPlus
    <3>5. HeldIn(f, s) = Minted(f) + t.premint_quantity /\ Lost(f, s) = 0
      BY <2>5 DEF HeldIn, Lost
    <3>6. Minted(f) = SumFunctionOnSet(f.earned, Address) + f.commission
      BY DEF Minted, SumOver
    <3>7. SumFunctionOnSet(f.earned, Address) \in Nat
      BY <1>2 DEF SumOver
    <3> QED BY <1>1, <3>2, <3>3, <3>4, <3>5, <3>6, <3>7
  <2> QED BY <1>1, <2>1, <2>2, <2>3, <2>4, <2>5
<1> QED BY <1>4, <1>5, <1>6

\* Deciding a soft cap takes from UNSPENDABLE what the fair minter held, from no address
\* anything, and from the total what is lost.
LEMMA SettledFacts ==
  ASSUME NEW b \in IntBalances, NEW f \in Fairminter
  PROVE  /\ Settled(b, f) \in IntBalances
         /\ \A s \in Token :
              /\ Settled(b, f)[Unspendable][s] = b[Unspendable][s] - HeldIn(f, s)
              /\ HeldIn(f, s) \in Nat /\ Lost(f, s) \in Nat
              /\ \A x \in Address : Settled(b, f)[x][s] >= b[x][s]
              /\ Total(Settled(b, f), s) = Total(b, s) - Lost(f, s)
<1> DEFINE c == Settled(b, f)
           t == f.terms
<1>1. /\ t \in TermRecords /\ t.asset \in Asset /\ t.premint_quantity \in Nat
      /\ Minted(f) \in Nat /\ Paid(f) \in Nat
  BY MinterFields, TermFields, MintedType
<1>2. /\ IsFiniteSet(Address) /\ Unspendable \in Holder /\ Unspendable \notin Address
      /\ Address \subseteq Holder /\ XCP \in Token /\ Asset \subseteq Token /\ XCP \notin Asset
      /\ \A x \in Holder : x \in Address \/ x = Unspendable
  BY ConstantFacts
<1>3. \A s \in Token : HeldIn(f, s) \in Nat /\ Lost(f, s) \in Nat
  BY <1>1 DEF HeldIn, Lost
<1>4. \A s \in {XCP, t.asset} : \A x \in Address : Share(f, x, s) \in Nat
  BY ShareSum
<1>5. ASSUME NEW s \in Token
      PROVE  /\ c[Unspendable][s] = b[Unspendable][s] - HeldIn(f, s)
             /\ \A x \in Address :
                  c[x][s] = b[x][s] + (IF s \in {XCP, t.asset} THEN Share(f, x, s) ELSE 0)
             /\ \A x \in Holder : b[x][s] \in Int
  <2>1. \A x \in Holder : b[x][s] \in Int
    BY DEF IntBalances
  <2>2. c[Unspendable][s] = b[Unspendable][s] - HeldIn(f, s)
    <3>1. CASE s \notin {XCP, t.asset}
      BY <1>2, <2>1, <3>1 DEF Settled, HeldIn
    <3>2. CASE s \in {XCP, t.asset}
      BY <1>1, <1>2, <2>1, <3>2 DEF Settled, HeldIn
    <3> QED BY <3>1, <3>2
  <2>3. \A x \in Address :
          c[x][s] = b[x][s] + (IF s \in {XCP, t.asset} THEN Share(f, x, s) ELSE 0)
    <3>1. CASE s \notin {XCP, t.asset}
      BY <1>2, <2>1, <3>1 DEF Settled
    <3>2. CASE s \in {XCP, t.asset}
      BY <1>2, <2>1, <3>2 DEF Settled
    <3> QED BY <3>1, <3>2
  <2> QED BY <2>1, <2>2, <2>3
<1>6. \A x \in Holder, s \in Token : c[x][s] \in Int
  BY <1>2, <1>3, <1>4, <1>5
<1>7. c \in IntBalances
  <2>1. c = [x \in Holder |-> [s \in Token |-> c[x][s]]]
    BY DEF Settled
  <2> HIDE DEF c
  <2> QED BY <1>6, <2>1 DEF IntBalances
<1>8. ASSUME NEW s \in Token
      PROVE  Total(c, s) = Total(b, s) - Lost(f, s)
  <2> DEFINE g == [x \in Address |-> b[x][s]]
             h == [x \in Address |-> c[x][s]]
             sh == [x \in Address |-> Share(f, x, s)]
  <2>1. /\ Total(b, s) = b[Unspendable][s] + SumFunctionOnSet(g, Address)
        /\ SumFunctionOnSet(g, Address) \in Int
    BY TotalSplit
  <2>2. Total(c, s) = c[Unspendable][s] + SumFunctionOnSet(h, Address)
    <3> HIDE DEF c
    <3> QED BY <1>7, TotalSplit
  <2>3. b[Unspendable][s] \in Int /\ c[Unspendable][s] = b[Unspendable][s] - HeldIn(f, s)
    BY <1>2, <1>5
  <2>4. CASE s \notin {XCP, t.asset}
    <3>1. \A x \in Address : g[x] \in Int /\ h[x] = g[x]
      BY <1>2, <1>5, <2>4
    <3>2. HeldIn(f, s) = 0 /\ Lost(f, s) = 0
      BY <2>4 DEF HeldIn, Lost
    <3> HIDE DEF g, h, c
    <3>3. SumFunctionOnSet(h, Address) = SumFunctionOnSet(g, Address)
      BY <1>2, <3>1, SumEqual
    <3> QED BY <2>1, <2>2, <2>3, <3>2, <3>3
  <2>5. CASE s \in {XCP, t.asset}
    <3>1. \A x \in Address : g[x] \in Int /\ sh[x] \in Int /\ h[x] = g[x] + sh[x]
      BY <1>2, <1>4, <1>5, <2>5
    <3>2. SumFunctionOnSet(sh, Address) = HeldIn(f, s) - Lost(f, s)
      BY <2>5, ShareSum
    <3>3. HeldIn(f, s) \in Nat /\ Lost(f, s) \in Nat
      BY <1>3
    <3> HIDE DEF g, h, sh, c
    <3>4. SumFunctionOnSet(h, Address) = SumFunctionOnSet(g, Address) + SumFunctionOnSet(sh, Address)
      BY <1>2, <3>1, SumPlus
    <3> QED BY <2>1, <2>2, <2>3, <3>2, <3>3, <3>4
  <2> QED BY <2>4, <2>5
<1>9. \A s \in Token, x \in Address : c[x][s] >= b[x][s]
  <2> SUFFICES ASSUME NEW s \in Token, NEW x \in Address PROVE c[x][s] >= b[x][s]
    OBVIOUS
  <2>1. c[x][s] = b[x][s] + (IF s \in {XCP, t.asset} THEN Share(f, x, s) ELSE 0) /\ b[x][s] \in Int
    BY <1>2, <1>5
  <2>2. s \in {XCP, t.asset} => Share(f, x, s) \in Nat
    BY <1>4
  <2> HIDE DEF c
  <2> QED BY <2>1, <2>2
<1> HIDE DEF c
<1> QED BY <1>3, <1>5, <1>7, <1>8, <1>9 DEF c

----------------------------------------------------------------------------
\* The amounts of a mint

\* A part of a quantity is no more than it.
LEMMA PartOf ==
  ASSUME NEW c \in Nat, NEW u \in Nat, c < u, NEW q \in Nat
  PROVE  (c * q) \div u \in Nat /\ (c * q) \div u <= q
<1> DEFINE p == c * q
           d == p \div u
<1>1. p \in Nat /\ u \in Nat \ {0}
  OBVIOUS
<1>2. p <= u * q
  OBVIOUS
<1>3. d \in Nat /\ u * d <= p
  <2> HIDE DEF p
  <2> QED BY <1>1
<1>4. u * d <= u * q
  <2>1. u * d \in Nat /\ u * q \in Nat
    BY <1>3
  <2> HIDE DEF p, d
  <2> QED BY <1>1, <1>2, <1>3, <2>1
<1>5. d <= q
  <2> HIDE DEF p, d
  <2> QED BY <1>1, <1>3, <1>4
<1> QED BY <1>3, <1>5

\* A price, rounded up, is no more than the quantity times the price.
LEMMA PriceOf ==
  ASSUME NEW n \in Nat, NEW u \in Nat \ {0}
  PROVE  (n + u - 1) \div u \in Nat /\ (n + u - 1) \div u <= n
<1> DEFINE p == n + u - 1
           d == p \div u
<1>1. p \in Nat
  OBVIOUS
<1>2. d \in Nat /\ u * d <= p
  <2> HIDE DEF p
  <2> QED BY <1>1
<1>3. SUFFICES ASSUME d >= n + 1 PROVE FALSE
  BY <1>2
<1>4. u * d >= u * (n + 1)
  <2> HIDE DEF p, d
  <2> QED BY <1>2, <1>3
<1>5. u * (n + 1) = u * n + u /\ u * n \in Nat
  OBVIOUS
<1>6. u * n >= n
  OBVIOUS
<1>7. u * d \in Nat
  BY <1>2
<1> HIDE DEF d
<1> QED BY <1>2, <1>4, <1>5, <1>6, <1>7

----------------------------------------------------------------------------
\* Tables of rows

\* A table with rows has a last one, and a newest one of the same transaction.
LEMMA LastNewest ==
  ASSUME NEW rows \in Seq(Row), rows # <<>>, NEW n, NEW c, RowsAt(rows, n, c)
  PROVE  /\ LastOf(rows) \in Row /\ NewestOf(rows) \in Row
         /\ NewestOf(rows).tx_index = LastOf(rows).tx_index
         /\ NewestOf(rows).tx_index <= n
         /\ NewestOf(rows).issuer = LastOf(rows).issuer
         /\ LastOf(rows).fair_minting => NewestOf(rows).fair_minting
<1>1. Sorted(rows)
  BY DEF RowsAt
<1>2. PICK k \in DOMAIN rows :
           /\ NewestOf(rows) = rows[k]
           /\ rows[k].tx_index = rows[Len(rows)].tx_index
  BY <1>1, NewestIsRow
<1>3. Len(rows) \in DOMAIN rows
  BY EmptySeq
<1> QED BY <1>2, <1>3 DEF RowsAt, LastOf

\* What is appended is the last row.
LEMMA AppendLast ==
  ASSUME NEW rows \in Seq(Row), NEW r \in Row
  PROVE  /\ Append(rows, r) \in Seq(Row) /\ Append(rows, r) # <<>>
         /\ LastOf(Append(rows, r)) = r
         /\ \A i \in DOMAIN Append(rows, r) : (i \in DOMAIN rows /\ Append(rows, r)[i] = rows[i])
                                               \/ Append(rows, r)[i] = r
         /\ \A i \in DOMAIN rows : i \in DOMAIN Append(rows, r) /\ Append(rows, r)[i] = rows[i]
<1>1. DOMAIN Append(rows, r) = 1..(Len(rows) + 1) /\ DOMAIN rows = 1..Len(rows) /\ Len(rows) \in Nat
  OBVIOUS
<1>2. Append(rows, r)[Len(rows) + 1] = r /\ \A i \in 1..Len(rows) : Append(rows, r)[i] = rows[i]
  OBVIOUS
<1>3. Len(Append(rows, r)) = Len(rows) + 1
  OBVIOUS
<1>4. Append(rows, r) # <<>>
  BY <1>3, EmptySeq
<1> QED BY <1>1, <1>2, <1>3, <1>4 DEF LastOf

\* RowsAt for a row of a new transaction,
LEMMA RowsLater ==
  ASSUME NEW rows \in Seq(Row), NEW n \in Nat, NEW c, RowsAt(rows, n, c),
         NEW r \in Row, r.tx_index = n + 1, NEW d, d.fair_minting = r.fair_minting
  PROVE  RowsAt(Append(rows, r), n + 1, d)
<1>1. Sorted(rows) /\ \A i \in DOMAIN rows : rows[i].tx_index <= n /\ rows[i] \in Row
  BY DEF RowsAt
<1>2. \A j \in DOMAIN rows : rows[j].tx_index < r.tx_index
  BY <1>1, RowFields
<1>3. /\ Append(rows, r) \in Seq(Row) /\ Sorted(Append(rows, r))
      /\ NewestOf(Append(rows, r)) = r
  BY <1>1, <1>2, AppendLater
<1>4. /\ LastOf(Append(rows, r)) = r
      /\ \A i \in DOMAIN Append(rows, r) : (i \in DOMAIN rows /\ Append(rows, r)[i] = rows[i])
                                               \/ Append(rows, r)[i] = r
  BY AppendLast
<1>5. \A i \in DOMAIN Append(rows, r) : Append(rows, r)[i].tx_index <= n + 1
  BY <1>1, <1>4, RowFields
<1> QED BY <1>3, <1>4, <1>5 DEF RowsAt

\* for a copy of the newest row that closes a fair minter,
LEMMA RowsCopy ==
  ASSUME NEW rows \in Seq(Row), rows # <<>>, NEW n \in Nat, NEW c, RowsAt(rows, n, c),
         NEW r \in Row, r.tx_index = NewestOf(rows).tx_index, r.issuer = NewestOf(rows).issuer,
         ~r.fair_minting, NEW d, d.fair_minting = r.fair_minting
  PROVE  RowsAt(Append(rows, r), n, d)
<1>1. Sorted(rows) /\ \A i \in DOMAIN rows : rows[i].tx_index <= n
  BY DEF RowsAt
<1>2. NewestOf(rows) \in Row /\ NewestOf(rows).tx_index <= n
  BY LastNewest
<1>3. /\ Append(rows, r) \in Seq(Row) /\ Sorted(Append(rows, r))
      /\ NewestOf(Append(rows, r)) = NewestOf(rows)
  BY <1>1, AppendCopy
<1>4. /\ LastOf(Append(rows, r)) = r
      /\ \A i \in DOMAIN Append(rows, r) : (i \in DOMAIN rows /\ Append(rows, r)[i] = rows[i])
                                               \/ Append(rows, r)[i] = r
  BY AppendLast
<1>5. \A i \in DOMAIN Append(rows, r) : Append(rows, r)[i].tx_index <= n
  BY <1>1, <1>2, <1>4
<1> QED BY <1>3, <1>4, <1>5 DEF RowsAt

\* and when no row is added.
LEMMA RowsKept ==
  ASSUME NEW rows \in Seq(Row), NEW n \in Nat, NEW m \in Nat, n <= m, NEW c, RowsAt(rows, n, c),
         NEW d, rows # <<>> => d.fair_minting = c.fair_minting
  PROVE  RowsAt(rows, m, d)
<1>1. \A i \in DOMAIN rows : rows[i].tx_index <= n /\ rows[i].tx_index \in Nat
  BY RowFields DEF RowsAt
<1>2. \A i \in DOMAIN rows : rows[i].tx_index <= m
  BY <1>1
<1> QED BY <1>2 DEF RowsAt

\* The rows that the messages add
LEMMA RowTypes ==
  ASSUME TypeOK, NEW source \in Address
  PROVE  /\ \A m \in Issuance : IssuanceRow(source, m) \in Row /\ RefusedRow(source, m) \in Row
                                /\ m.asset \in Asset /\ m.quantity \in Nat
         /\ \A t \in Terms : OpeningRow(source, t) \in Row
         /\ \A a \in Asset : Fee(a) \in Nat
<1>1. txs + 1 \in Nat /\ issuances \in [Asset -> Seq(Row)]
  BY TypeFields
<1>2. \A a \in Asset : Fee(a) \in Nat
  BY ConstantFacts DEF Fee
<1>3. ASSUME NEW m \in Issuance
      PROVE  IssuanceRow(source, m) \in Row /\ RefusedRow(source, m) \in Row
             /\ m.asset \in Asset /\ m.quantity \in Nat
  <2>1. /\ m.asset \in Asset /\ m.quantity \in Nat /\ m.divisible \in BOOLEAN
        /\ m.destination \in Address \cup {NoAddress} /\ m.reset \in BOOLEAN
    BY AssetsAssumption DEF Issuances
  <2>2. IssuanceRow(source, m) \in Row
    BY <1>1, <1>2, <2>1 DEF IssuanceRow, Row
  <2>3. Exists(m.asset) => Last(m.asset) \in Row
    BY <1>1, <2>1, EmptySeq DEF Exists, Last
  <2>4. (Exists(m.asset) /\ Last(m.asset).fair_minting) \in BOOLEAN
    BY <2>3 DEF Exists, Row
  <2>5. RefusedRow(source, m) \in Row
    BY <1>1, <1>2, <2>1, <2>4 DEF RefusedRow, IssuanceRow, Row
  <2> QED BY <2>1, <2>2, <2>5
<1>4. ASSUME NEW t \in Terms
      PROVE  OpeningRow(source, t) \in Row
  <2>1. t.asset \in Asset /\ t.premint_quantity \in Nat /\ t.divisible \in BOOLEAN
    BY FairmintersAssumption, TermFields
  <2> QED BY <1>1, <1>2, <2>1 DEF OpeningRow, NoRow, Row
<1> QED BY <1>2, <1>3, <1>4

\* The row that closes a fair minter
LEMMA CloseRowIs ==
  ASSUME TypeOK, RowsOK, NEW f \in Fairminter, Exists(f.terms.asset)
  PROVE  /\ CloseRow(f) \in Row
         /\ CloseRow(f).tx_index = NewestOf(issuances[f.terms.asset]).tx_index
         /\ CloseRow(f).issuer = NewestOf(issuances[f.terms.asset]).issuer
         /\ CloseRow(f).fair_minting = FALSE
         /\ CloseRow(f).quantity = 0 /\ CloseRow(f).fee_paid = 0
<1> DEFINE a == f.terms.asset
<1>1. /\ a \in Asset /\ f.terms.lock_quantity \in BOOLEAN /\ f.terms.lock_description \in BOOLEAN
      /\ issuances[a] \in Seq(Row) /\ issuances[a] # <<>>
  BY MinterFields, TermFields, TypeFields DEF Exists
<1>2. NewestOf(issuances[a]) \in Row
  BY <1>1, LastNewest DEF RowsOK
<1>3. Newest(a) = NewestOf(issuances[a])
  BY DEF Newest, NewestOf
<1>4. Locked(a) \in BOOLEAN
  BY DEF Locked
<1>5. PICK l : l = Locked(a)
  OBVIOUS
<1>6. PICK r \in Row : r = NewestOf(issuances[a])
  BY <1>2
<1>7. CloseRow(f) = [r EXCEPT !.quantity = 0, !.fair_minting = FALSE, !.fee_paid = 0,
                       !.locked = l \/ f.terms.lock_quantity,
                       !.description_locked = r.description_locked \/ f.terms.lock_description]
  BY <1>3, <1>5, <1>6 DEF CloseRow
<1>8. (l \/ f.terms.lock_quantity) \in BOOLEAN
      /\ (r.description_locked \/ f.terms.lock_description) \in BOOLEAN
  BY <1>1, <1>4, <1>5, <1>6, RowFields
<1>9. /\ CloseRow(f).tx_index = r.tx_index /\ CloseRow(f).issuer = r.issuer
      /\ CloseRow(f).fair_minting = FALSE
      /\ CloseRow(f).quantity = 0 /\ CloseRow(f).fee_paid = 0
  BY <1>6, <1>7 DEF Row
<1>10. CloseRow(f) \in Row
  <2>1. PICK l1 \in BOOLEAN, l2 \in BOOLEAN : l1 = (l \/ f.terms.lock_quantity)
                                   /\ l2 = (r.description_locked \/ f.terms.lock_description)
    BY <1>8
  <2>2. CloseRow(f) = [r EXCEPT !.quantity = 0, !.fair_minting = FALSE, !.fee_paid = 0,
                         !.locked = l1, !.description_locked = l2]
    BY <1>7, <2>1
  <2>3. r \in Row /\ l1 \in BOOLEAN /\ l2 \in BOOLEAN
    BY <1>6, <2>1
  <2>4. [r EXCEPT !.quantity = 0, !.fair_minting = FALSE, !.fee_paid = 0,
                         !.locked = l1, !.description_locked = l2] \in Row
    BY ONLY <2>3 DEF Row
  <2> QED BY <2>2, <2>4
<1> QED BY <1>6, <1>9, <1>10

----------------------------------------------------------------------------
\* Adding a row to a table

IsRowAdded(iss, jss, a, r) ==
  /\ jss \in [Asset -> Seq(Row)]
  /\ jss[a] = Append(iss[a], r)
  /\ \A b \in Asset : b # a => jss[b] = iss[b]
  /\ \A b \in Asset : /\ RowsSum(iss[b], "quantity") \in Nat
                      /\ RowsSum(jss[b], "quantity") =
                           RowsSum(iss[b], "quantity") + (IF b = a THEN r.quantity ELSE 0)
  /\ FeesOf(iss) \in Int /\ FeesOf(jss) = FeesOf(iss) + r.fee_paid

\* Only that table, its sums and the sum of the fees change.
LEMMA RowAdded ==
  ASSUME NEW iss, iss \in [Asset -> Seq(Row)], NEW a, a \in Asset, NEW r, r \in Row,
         NEW jss, jss = [iss EXCEPT ![a] = Append(@, r)]
  PROVE  IsRowAdded(iss, jss, a, r)
<1>1. /\ jss \in [Asset -> Seq(Row)] /\ jss[a] = Append(iss[a], r)
      /\ \A b \in Asset : b # a => jss[b] = iss[b]
  OBVIOUS
<1>2. \A b \in Asset, field \in {"quantity", "fee_paid"} :
        RowsSum(iss[b], field) \in Nat /\ RowsSum(jss[b], field) \in Nat
  BY <1>1, RowsSumFacts
<1>3. /\ RowsSum(jss[a], "quantity") = RowsSum(iss[a], "quantity") + r.quantity
      /\ RowsSum(jss[a], "fee_paid") = RowsSum(iss[a], "fee_paid") + r.fee_paid
  <2>1. iss[a] \in Seq(Row)
    OBVIOUS
  <2>2. \A field \in {"quantity", "fee_paid"} :
          RowsSum(Append(iss[a], r), field) = RowsSum(iss[a], field) + r[field]
    BY <2>1, RowsSumFacts
  <2> QED BY <1>1, <2>2
<1>4. FeesOf(iss) \in Int /\ FeesOf(jss) = FeesOf(iss) + r.fee_paid
  <2> DEFINE f == [b \in Asset |-> RowsSum(iss[b], "fee_paid")]
             g == [b \in Asset |-> RowsSum(jss[b], "fee_paid")]
  <2>1. \A b \in Asset : f[b] \in Int /\ g[b] \in Int
    BY <1>2
  <2>2. \A b \in Asset : b # a => g[b] = f[b]
    BY <1>1
  <2>3. g[a] - f[a] = r.fee_paid
    BY <1>2, <1>3, RowFields
  <2>4. IsFiniteSet(Asset) /\ a \in Asset
    BY ConstantFacts
  <2> HIDE DEF f, g
  <2>5. SumFunctionOnSet(g, Asset) = SumFunctionOnSet(f, Asset) + (g[a] - f[a])
    BY ONLY <2>1, <2>2, <2>4, SumChange
  <2>6. SumFunctionOnSet(f, Asset) \in Int
    BY <2>1, <2>4, SumType
  <2> QED BY <2>3, <2>5, <2>6 DEF FeesOf, f, g
<1>5. ASSUME NEW b \in Asset
      PROVE  /\ RowsSum(iss[b], "quantity") \in Nat
             /\ RowsSum(jss[b], "quantity") =
                  RowsSum(iss[b], "quantity") + (IF b = a THEN r.quantity ELSE 0)
  BY <1>1, <1>2, <1>3
<1> QED BY <1>1, <1>4, <1>5 DEF IsRowAdded

\* The sums of tables are numbers.
LEMMA TableSums ==
  ASSUME NEW iss \in [Asset -> Seq(Row)]
  PROVE  /\ \A a \in Asset : RowsSum(iss[a], "quantity") \in Nat
         /\ FeesOf(iss) \in Nat
<1>1. \A b \in Asset, field \in {"quantity", "fee_paid"} : RowsSum(iss[b], field) \in Nat
  BY RowsSumFacts
<1> DEFINE f == [b \in Asset |-> RowsSum(iss[b], "fee_paid")]
<1>2. \A b \in Asset : f[b] \in Nat
  BY <1>1
<1>3. IsFiniteSet(Asset)
  BY ConstantFacts
<1> HIDE DEF f
<1>4. SumFunctionOnSet(f, Asset) \in Nat
  BY <1>2, <1>3, SumNat
<1> QED BY <1>1, <1>4 DEF FeesOf, f

\* One escrow was set.
IsEscrowSet(e, e2, x, a, q) ==
  /\ e2 \in [Address -> [Asset -> Nat]]
  /\ \A b \in Asset : /\ EscrowTotal(e, b) \in Int
                      /\ EscrowTotal(e2, b) =
                           EscrowTotal(e, b) + (IF b = a THEN q - e[x][a] ELSE 0)

\* So is the total of an asset's escrows, and it changes with one of them.
LEMMA EscrowSums ==
  ASSUME NEW e, e \in [Address -> [Asset -> Nat]], NEW x, x \in Address, NEW a, a \in Asset,
         NEW q, q \in Nat, NEW e2, e2 = [e EXCEPT ![x][a] = q]
  PROVE  IsEscrowSet(e, e2, x, a, q)
<1>1. /\ e2 \in [Address -> [Asset -> Nat]]
      /\ \A y \in Address, b \in Asset : e2[y][b] = IF y = x /\ b = a THEN q ELSE e[y][b]
  OBVIOUS
<1>2. ASSUME NEW b \in Asset
      PROVE  /\ EscrowTotal(e, b) \in Int
             /\ EscrowTotal(e2, b) = EscrowTotal(e, b) + (IF b = a THEN q - e[x][a] ELSE 0)
  <2> DEFINE f == [y \in Address |-> e[y][b]]
             g == [y \in Address |-> e2[y][b]]
  <2>1. \A y \in Address : f[y] \in Int /\ g[y] \in Int
    BY <1>1
  <2>2. \A y \in Address : y # x => g[y] = f[y]
    BY <1>1
  <2>3. g[x] - f[x] = IF b = a THEN q - e[x][a] ELSE 0
    BY <1>1
  <2>4. IsFiniteSet(Address)
    BY ConstantFacts
  <2> HIDE DEF f, g
  <2>5. SumFunctionOnSet(g, Address) = SumFunctionOnSet(f, Address) + (g[x] - f[x])
    BY <2>1, <2>2, <2>4, SumChange
  <2>6. SumFunctionOnSet(f, Address) \in Int
    BY <2>1, <2>4, SumType
  <2> QED BY <2>3, <2>5, <2>6 DEF EscrowTotal, f, g
<1> QED BY <1>1, <1>2 DEF IsEscrowSet

\* and is a number in every state.
LEMMA EscrowType ==
  ASSUME NEW e \in [Address -> [Asset -> Nat]], NEW a \in Asset
  PROVE  EscrowTotal(e, a) \in Int
<1> DEFINE f == [y \in Address |-> e[y][a]]
<1>1. \A y \in Address : f[y] \in Int
  OBVIOUS
<1>2. IsFiniteSet(Address)
  BY ConstantFacts
<1> HIDE DEF f
<1>3. SumFunctionOnSet(f, Address) \in Int
  BY <1>1, <1>2, SumType
<1> QED BY <1>3 DEF EscrowTotal, f

\* The XCP there was at first
LEMMA FundsType == SumOver(Funds) \in Nat
<1>1. \A x \in Address : Funds[x] \in Nat
  BY AssetsAssumption
<1>2. IsFiniteSet(Address)
  BY ConstantFacts
<1> QED BY <1>1, <1>2, SumNat DEF SumOver

\* The tables of amounts
LedgerType(b, e, iss, d, fe) ==
  /\ b \in NatBalances /\ e \in [Address -> [Asset -> Nat]] /\ iss \in [Asset -> Seq(Row)]
  /\ d \in [Token -> Nat] /\ fe \in Nat
\* What is made and destroyed in a step cancels out with what is moved.
CancelsOut(b, b2, e, e2, iss, jss, d, d2, fe, fe2) ==
  /\ \A a \in Asset :
       Total(b2, a) - Total(b, a) + (EscrowTotal(e2, a) - EscrowTotal(e, a)) =
         RowsSum(jss[a], "quantity") - RowsSum(iss[a], "quantity") - (d2[a] - d[a])
  /\ Total(b2, XCP) - Total(b, XCP) =
       0 - (d2[XCP] - d[XCP]) - (FeesOf(jss) - FeesOf(iss)) - (fe2 - fe)

\* Conservation is kept by a step whose changes of the sums cancel out.
LEMMA ConservedStep ==
  ASSUME NEW b, NEW b2, NEW e, NEW e2, NEW iss, NEW jss, NEW d, NEW d2, NEW fe, NEW fe2,
         LedgerType(b, e, iss, d, fe), LedgerType(b2, e2, jss, d2, fe2),
         ConservedAt(b, e, iss, d, fe), CancelsOut(b, b2, e, e2, iss, jss, d, d2, fe, fe2)
  PROVE  ConservedAt(b2, e2, jss, d2, fe2)
<1>0. /\ b \in IntBalances /\ b2 \in IntBalances
      /\ e \in [Address -> [Asset -> Nat]] /\ e2 \in [Address -> [Asset -> Nat]]
      /\ iss \in [Asset -> Seq(Row)] /\ jss \in [Asset -> Seq(Row)]
      /\ d \in [Token -> Nat] /\ d2 \in [Token -> Nat] /\ fe \in Nat /\ fe2 \in Nat
  BY NatAreInt DEF LedgerType
<1>1. /\ XCP \in Token /\ Asset \subseteq Token
  BY ConstantFacts
<1>2. ASSUME NEW a \in Asset
      PROVE  Total(b2, a) + EscrowTotal(e2, a) = RowsSum(jss[a], "quantity") - d2[a]
  <2>1. /\ Total(b, a) \in Int /\ Total(b2, a) \in Int
        /\ EscrowTotal(e, a) \in Int /\ EscrowTotal(e2, a) \in Int
    BY <1>0, <1>1, TotalType, EscrowType
  <2>2. RowsSum(jss[a], "quantity") \in Nat /\ RowsSum(iss[a], "quantity") \in Nat
    BY <1>0, TableSums
  <2>3. d[a] \in Nat /\ d2[a] \in Nat
    BY <1>0, <1>1
  <2>4. Total(b, a) + EscrowTotal(e, a) = RowsSum(iss[a], "quantity") - d[a]
    BY DEF ConservedAt
  <2>5. Total(b2, a) - Total(b, a) + (EscrowTotal(e2, a) - EscrowTotal(e, a)) =
             RowsSum(jss[a], "quantity") - RowsSum(iss[a], "quantity") - (d2[a] - d[a])
    BY DEF CancelsOut
  <2> QED BY ONLY <2>1, <2>2, <2>3, <2>4, <2>5
<1>3. Total(b2, XCP) = SumOver(Funds) - (d2[XCP] + FeesOf(jss) + fe2)
  <2>1. Total(b, XCP) \in Int /\ Total(b2, XCP) \in Int /\ SumOver(Funds) \in Nat
    BY <1>0, <1>1, TotalType, FundsType
  <2>2. FeesOf(jss) \in Nat /\ FeesOf(iss) \in Nat
    BY <1>0, TableSums
  <2>3. d[XCP] \in Nat /\ d2[XCP] \in Nat
    BY <1>0, <1>1
  <2>4. Total(b, XCP) = SumOver(Funds) - (d[XCP] + FeesOf(iss) + fe)
    BY DEF ConservedAt
  <2>5. Total(b2, XCP) - Total(b, XCP) =
          0 - (d2[XCP] - d[XCP]) - (FeesOf(jss) - FeesOf(iss)) - (fe2 - fe)
    BY DEF CancelsOut
  <2>6. fe \in Nat /\ fe2 \in Nat
    BY <1>0
  <2>7. PICK t1, t2 : t1 = Total(b, XCP) /\ t2 = Total(b2, XCP)
    OBVIOUS
  <2>8. PICK s, r1, r2 : s = SumOver(Funds) /\ r1 = FeesOf(iss) /\ r2 = FeesOf(jss)
    OBVIOUS
  <2>9. PICK d1, g2 : d1 = d[XCP] /\ g2 = d2[XCP]
    OBVIOUS
  <2>10. /\ t1 \in Int /\ t2 \in Int /\ s \in Int /\ r1 \in Int /\ r2 \in Int
         /\ d1 \in Int /\ g2 \in Int /\ fe \in Int /\ fe2 \in Int
    BY <2>1, <2>2, <2>3, <2>6, <2>7, <2>8, <2>9
  <2>11. t1 = s - (d1 + r1 + fe)
    BY <2>4, <2>7, <2>8, <2>9
  <2>12. t2 - t1 = 0 - (g2 - d1) - (r2 - r1) - (fe2 - fe)
    BY <2>5, <2>7, <2>8, <2>9
  <2>13. t2 = s - (g2 + r2 + fe2)
    BY ONLY <2>10, <2>11, <2>12
  <2> QED BY ONLY <2>7, <2>8, <2>9, <2>13
<1> QED BY <1>2, <1>3 DEF ConservedAt

\* What a step must keep of the ledger
LedgerKept ==
  /\ LedgerType(balances', escrow', issuances', destroyed', fees')
  /\ ConservedOK' /\ CoveredOK'

\* A movement that leaves a balance natural
LEMMA OneMove ==
  ASSUME NEW b, b \in NatBalances, NEW x \in Holder, NEW s \in Token, NEW p, p \in Int,
         b[x][s] + p >= 0, NEW c, c = Move(b, x, s, p)
  PROVE  /\ c \in NatBalances
         /\ \A y \in Holder, t \in Token : c[y][t] = IF y = x /\ t = s THEN b[y][t] + p ELSE b[y][t]
         /\ \A t \in Token : /\ Total(b, t) \in Int
                             /\ Total(c, t) = Total(b, t) + (IF t = s THEN p ELSE 0)
<1>1. b \in IntBalances
  BY NatAreInt
<1>2. /\ c \in IntBalances
      /\ \A y \in Holder, t \in Token : c[y][t] = IF y = x /\ t = s THEN b[y][t] + p ELSE b[y][t]
      /\ \A t \in Token : Total(c, t) = Total(b, t) + (IF t = s THEN p ELSE 0)
  BY <1>1, MoveFacts
<1>3. \A y \in Holder, t \in Token : c[y][t] \in Nat
  BY <1>2 DEF NatBalances, IntBalances
<1>4. c \in NatBalances
  BY <1>2, <1>3 DEF NatBalances, IntBalances
<1> QED BY <1>1, <1>2, <1>4, TotalType

\* UNSPENDABLE covers the same fair minters when it loses nothing.
LEMMA CoveredKept ==
  ASSUME TypeOK, CoveredOK, balances' \in NatBalances, fairminters' = fairminters,
         \A s \in Token : balances'[Unspendable][s] >= balances[Unspendable][s]
  PROVE  CoveredOK'
<1>1. \A s \in Token : balances[Unspendable][s] \in Nat /\ balances'[Unspendable][s] \in Nat
  BY TypeFields, ConstantFacts DEF NatBalances
<1>2. \A s \in Token : HeldForAll(fairminters, s)' = HeldForAll(fairminters, s)
  BY DEF HeldForAll
<1> SUFFICES ASSUME NEW s \in Token
             PROVE  balances'[Unspendable][s] >= HeldForAll(fairminters, s)
  BY <1>2 DEF CoveredOK
<1>3. fairminters \in Seq(Fairminter)
  BY TypeFields
<1>4. HeldForAll(fairminters, s) \in Int
  <2> DEFINE g == [i \in DOMAIN fairminters |-> HeldFor(fairminters[i], s)]
  <2>1. \A i \in DOMAIN fairminters : fairminters[i] \in Fairminter
    BY <1>3
  <2>2. \A i \in DOMAIN fairminters : g[i] \in Int
    BY <2>1, MinterFields, TermFields, MintedType DEF HeldFor
  <2>3. IsFiniteSet(DOMAIN fairminters)
    <3>1. DOMAIN fairminters = 1..Len(fairminters) /\ Len(fairminters) \in Nat
      BY <1>3
    <3> QED BY <3>1, FS_Interval
  <2> HIDE DEF g
  <2>4. SumFunctionOnSet(g, DOMAIN fairminters) \in Int
    BY <2>2, <2>3, SumType
  <2> QED BY <2>4 DEF HeldForAll, g
<1>5. balances[Unspendable][s] >= HeldForAll(fairminters, s)
  BY DEF CoveredOK
<1> QED BY <1>1, <1>4, <1>5

\* A message of an asset that adds a row, an issuance
LEMMA IssueKeeps ==
  ASSUME IInv, NEW source \in Address, NEW m \in Issuance, Issue(source, m),
         fairminters' = fairminters
  PROVE  LedgerKept
<1> DEFINE a == m.asset
           r == IssuanceRow(source, m)
           fee == Fee(m.asset)
           b1 == Move(balances, source, XCP, -fee)
<1>1. TypeOK /\ CoveredOK /\ ConservedOK
  BY DEF IInv
<1>2. /\ balances \in NatBalances /\ escrow \in [Address -> [Asset -> Nat]]
      /\ issuances \in [Asset -> Seq(Row)] /\ destroyed \in [Token -> Nat] /\ fees \in Nat
  BY <1>1, TypeFields
<1>3. r \in Row /\ a \in Asset /\ m.quantity \in Nat /\ fee \in Nat
  BY <1>1, RowTypes
<1>4. r.quantity = m.quantity /\ r.fee_paid = fee
  BY DEF IssuanceRow
<1>5. /\ issuances' = [issuances EXCEPT ![a] = Append(@, r)]
      /\ balances' = Move(b1, source, a, m.quantity)
      /\ escrow' = escrow /\ destroyed' = destroyed /\ fees' = fees
  BY DEF Issue
<1>6. balances[source][XCP] >= fee
  <2>1. CASE Exists(a)
    BY <1>2, <2>1, ConstantFacts DEF Fee, NatBalances
  <2>2. CASE ~Exists(a)
    BY <2>2 DEF Issue, MayIssue, MayCreate
  <2> QED BY <2>1, <2>2
<1>7. /\ source \in Holder /\ XCP \in Token /\ a \in Token /\ a # XCP /\ Unspendable # source
      /\ Unspendable \in Holder /\ Asset \subseteq Token /\ XCP \notin Asset
  BY <1>3, ConstantFacts
<1>8. balances[source][XCP] \in Nat
  BY <1>2, <1>7 DEF NatBalances
<1>9. /\ b1 \in NatBalances
      /\ \A y \in Holder, t \in Token :
           b1[y][t] = IF y = source /\ t = XCP THEN balances[y][t] + (-fee) ELSE balances[y][t]
      /\ \A t \in Token : /\ Total(balances, t) \in Int
                          /\ Total(b1, t) = Total(balances, t) + (IF t = XCP THEN -fee ELSE 0)
  <2>1. -fee \in Int /\ balances[source][XCP] + (-fee) >= 0
    BY <1>3, <1>6, <1>8
  <2> HIDE DEF fee
  <2> QED BY ONLY <1>2, <1>7, <2>1, OneMove
<1>10. /\ balances' \in NatBalances
       /\ \A y \in Holder, t \in Token :
           balances'[y][t] = IF y = source /\ t = a THEN b1[y][t] + m.quantity ELSE b1[y][t]
       /\ \A t \in Token : /\ Total(b1, t) \in Int
                           /\ Total(balances', t) = Total(b1, t) + (IF t = a THEN m.quantity ELSE 0)
  <2> HIDE DEF b1, a
  <2>1. b1[source][a] + m.quantity >= 0 /\ m.quantity \in Int
    BY <1>3, <1>7, <1>9 DEF NatBalances
  <2> QED BY ONLY <1>5, <1>7, <1>9, <2>1, OneMove
<1>11. IsRowAdded(issuances, issuances', a, r)
  <2> HIDE DEF a, r
  <2> QED BY ONLY <1>2, <1>3, <1>5, RowAdded
<1> HIDE DEF a, r, b1, fee
<1>12. \A c \in Asset :
           Total(balances', c) - Total(balances, c) + (EscrowTotal(escrow', c) - EscrowTotal(escrow, c)) =
             RowsSum(issuances'[c], "quantity") - RowsSum(issuances[c], "quantity")
               - (destroyed'[c] - destroyed[c])
  <2> SUFFICES ASSUME NEW c \in Asset
               PROVE Total(balances', c) - Total(balances, c) + (EscrowTotal(escrow', c) - EscrowTotal(escrow, c)) =
             RowsSum(issuances'[c], "quantity") - RowsSum(issuances[c], "quantity")
               - (destroyed'[c] - destroyed[c])
    OBVIOUS
  <2>1. EscrowTotal(escrow, c) \in Int /\ destroyed[c] \in Nat
    BY <1>2, <1>7, EscrowType
  <2>2. EscrowTotal(escrow', c) = EscrowTotal(escrow, c) /\ destroyed'[c] = destroyed[c]
    BY <1>5
  <2>3. c # XCP /\ c \in Token
    BY <1>7
  <2> QED BY <1>3, <1>4, <1>9, <1>10, <1>11, <2>1, <2>2, <2>3 DEF IsRowAdded
<1>13. Total(balances', XCP) - Total(balances, XCP) =
           0 - (destroyed'[XCP] - destroyed[XCP]) - (FeesOf(issuances') - FeesOf(issuances)) - (fees' - fees)
  <2>1. destroyed[XCP] \in Nat
    BY <1>2, <1>7
  <2> QED BY <1>2, <1>3, <1>4, <1>5, <1>7, <1>9, <1>10, <1>11, <2>1 DEF IsRowAdded
<1>14. ConservedOK'
  <2>1. /\ LedgerType(balances, escrow, issuances, destroyed, fees)
        /\ LedgerType(balances', escrow', issuances', destroyed', fees')
    BY <1>2, <1>5, <1>10, <1>11 DEF IsRowAdded, LedgerType
  <2>2. CancelsOut(balances, balances', escrow, escrow', issuances, issuances',
                   destroyed, destroyed', fees, fees')
    BY <1>12, <1>13 DEF CancelsOut
  <2> QED BY <1>1, <2>1, <2>2, ConservedStep DEF ConservedOK
<1>15. CoveredOK'
  <2>1. \A s \in Token : balances'[Unspendable][s] >= balances[Unspendable][s]
    BY <1>2, <1>7, <1>9, <1>10 DEF NatBalances
  <2> QED BY <1>1, <1>10, <2>1, CoveredKept
<1> QED BY <1>2, <1>5, <1>10, <1>11, <1>14, <1>15 DEF LedgerKept, LedgerType, IsRowAdded


\* A step that leaves the ledger alone keeps it.
LEMMA LedgerSame ==
  ASSUME IInv, UNCHANGED <<balances, escrow, issuances, destroyed, fees, fairminters>>
  PROVE  LedgerKept
<1>1. TypeOK /\ CoveredOK /\ ConservedOK
  BY DEF IInv
<1>2. LedgerType(balances, escrow, issuances, destroyed, fees)
  BY <1>1, TypeFields DEF LedgerType
<1>3. \A s \in Token : HeldForAll(fairminters, s)' = HeldForAll(fairminters, s)
  BY DEF HeldForAll
<1>4. CoveredOK'
  BY <1>1, <1>3 DEF CoveredOK
<1>5. ConservedOK'
  BY <1>1 DEF ConservedOK
<1> QED BY <1>2, <1>4, <1>5 DEF LedgerKept

\* A reset destroys what its owner had.
LEMMA ResetKeeps ==
  ASSUME IInv, NEW source \in Address, NEW m \in Issuance, Reset(source, m),
         fairminters' = fairminters
  PROVE  LedgerKept
<1> DEFINE a == m.asset
           r == IssuanceRow(source, m)
           old == balances[source][m.asset]
<1>1. TypeOK /\ CoveredOK /\ ConservedOK
  BY DEF IInv
<1>2. /\ balances \in NatBalances /\ escrow \in [Address -> [Asset -> Nat]]
      /\ issuances \in [Asset -> Seq(Row)] /\ destroyed \in [Token -> Nat] /\ fees \in Nat
  BY <1>1, TypeFields
<1>3. r \in Row /\ a \in Asset /\ m.quantity \in Nat
  BY <1>1, RowTypes
<1>4. r.quantity = m.quantity /\ r.fee_paid = 0
  BY DEF IssuanceRow, Reset, MayIssue, MayCreate, Fee
<1>5. /\ issuances' = [issuances EXCEPT ![a] = Append(@, r)]
      /\ balances' = [balances EXCEPT ![source][a] = m.quantity]
      /\ destroyed' = [destroyed EXCEPT ![a] = @ + old]
      /\ escrow' = escrow /\ fees' = fees
  BY DEF Reset
<1>6. /\ source \in Holder /\ XCP \in Token /\ a \in Token /\ a # XCP /\ Unspendable # source
      /\ Unspendable \in Holder /\ Asset \subseteq Token /\ XCP \notin Asset
  BY <1>3, ConstantFacts
<1>7. old \in Nat
  BY <1>2, <1>6 DEF NatBalances
<1>8. balances' = Move(balances, source, a, m.quantity - old)
  <2>1. old + (m.quantity - old) = m.quantity
    BY <1>3, <1>7
  <2>2. Move(balances, source, a, m.quantity - old) =
          [balances EXCEPT ![source][a] = old + (m.quantity - old)]
    BY <1>2, <1>6 DEF Move, NatBalances
  <2> QED BY <1>5, <2>1, <2>2
<1>9. /\ balances' \in NatBalances
      /\ \A y \in Holder, t \in Token :
           balances'[y][t] = IF y = source /\ t = a THEN balances[y][t] + (m.quantity - old) ELSE balances[y][t]
      /\ \A t \in Token : /\ Total(balances, t) \in Int
                          /\ Total(balances', t) =
                               Total(balances, t) + (IF t = a THEN m.quantity - old ELSE 0)
  <2>1. m.quantity - old \in Int /\ balances[source][a] + (m.quantity - old) >= 0
    BY <1>3, <1>7
  <2> HIDE DEF a, old
  <2> QED BY ONLY <1>2, <1>6, <1>8, <2>1, OneMove
<1>10. IsRowAdded(issuances, issuances', a, r)
  <2> HIDE DEF a, r
  <2> QED BY ONLY <1>2, <1>3, <1>5, RowAdded
<1>11. /\ destroyed' \in [Token -> Nat] /\ \A t \in Token : destroyed[t] \in Nat
       /\ \A t \in Token : destroyed'[t] = destroyed[t] + (IF t = a THEN old ELSE 0)
  <2> HIDE DEF a, old
  <2> QED BY <1>2, <1>5, <1>6, <1>7
<1> HIDE DEF a, r, old
<1>12. CancelsOut(balances, balances', escrow, escrow', issuances, issuances',
                   destroyed, destroyed', fees, fees')
  <2>1. ASSUME NEW c \in Asset
        PROVE  Total(balances', c) - Total(balances, c) + (EscrowTotal(escrow', c) - EscrowTotal(escrow, c)) =
                 RowsSum(issuances'[c], "quantity") - RowsSum(issuances[c], "quantity")
                   - (destroyed'[c] - destroyed[c])
    <3>1. EscrowTotal(escrow, c) \in Int
      BY <1>2, <1>6, EscrowType
    <3>2. EscrowTotal(escrow', c) = EscrowTotal(escrow, c)
      BY <1>5
    <3>3. c \in Token
      BY <1>6
    <3>4. Total(balances, c) \in Int /\ Total(balances', c) - Total(balances, c) = IF c = a THEN m.quantity - old ELSE 0
      BY <1>3, <1>7, <1>9, <3>3
    <3>5. /\ RowsSum(issuances[c], "quantity") \in Nat
          /\ RowsSum(issuances'[c], "quantity") - RowsSum(issuances[c], "quantity")
               = IF c = a THEN m.quantity ELSE 0
      BY <1>3, <1>4, <1>10 DEF IsRowAdded
    <3>6. destroyed[c] \in Nat /\ destroyed'[c] - destroyed[c] = IF c = a THEN old ELSE 0
      BY <1>7, <1>11, <3>3
    <3> QED BY <1>3, <1>7, <3>1, <3>2, <3>4, <3>5, <3>6
  <2>2. Total(balances', XCP) - Total(balances, XCP) =
           0 - (destroyed'[XCP] - destroyed[XCP]) - (FeesOf(issuances') - FeesOf(issuances)) - (fees' - fees)
    <3>1. Total(balances, XCP) \in Int /\ Total(balances', XCP) = Total(balances, XCP)
      BY <1>6, <1>9
    <3>2. FeesOf(issuances) \in Int /\ FeesOf(issuances') = FeesOf(issuances)
      BY <1>4, <1>10 DEF IsRowAdded
    <3>3. destroyed[XCP] \in Int /\ destroyed'[XCP] = destroyed[XCP]
      BY <1>6, <1>11
    <3>4. fees \in Int /\ fees' = fees
      BY <1>2, <1>5
    <3> QED BY <3>1, <3>2, <3>3, <3>4
  <2> QED BY <2>1, <2>2 DEF CancelsOut
<1>13. /\ LedgerType(balances, escrow, issuances, destroyed, fees)
       /\ LedgerType(balances', escrow', issuances', destroyed', fees')
  BY <1>2, <1>5, <1>9, <1>10, <1>11 DEF IsRowAdded, LedgerType
<1>14. ConservedOK'
  BY <1>1, <1>12, <1>13, ConservedStep DEF ConservedOK
<1>15. CoveredOK'
  <2>1. \A s \in Token : balances'[Unspendable][s] >= balances[Unspendable][s]
    BY <1>2, <1>6, <1>9 DEF NatBalances
  <2> QED BY <1>1, <1>9, <2>1, CoveredKept
<1> QED BY <1>13, <1>14, <1>15 DEF LedgerKept

\* A destruction, valid or not
LEMMA DestroyKeeps ==
  ASSUME IInv, NEW source \in Address, NEW s \in Token, NEW q \in Destroy,
         ParseDestroy(source, s, q), fairminters' = fairminters
  PROVE  LedgerKept
<1>1. TypeOK /\ CoveredOK /\ ConservedOK
  BY DEF IInv
<1>2. /\ balances \in NatBalances /\ escrow \in [Address -> [Asset -> Nat]]
      /\ issuances \in [Asset -> Seq(Row)] /\ destroyed \in [Token -> Nat] /\ fees \in Nat
  BY <1>1, TypeFields
<1>3. q \in Nat
  BY AssetsAssumption
<1>4. CASE ~(balances[source][s] >= q)
  <2>1. UNCHANGED <<balances, escrow, issuances, destroyed, fees>>
    BY <1>4 DEF ParseDestroy
  <2> QED BY <2>1, LedgerSame
<1>5. CASE balances[source][s] >= q
  <2>1. /\ balances' = Move(balances, source, s, -q)
        /\ destroyed' = [destroyed EXCEPT ![s] = @ + q]
        /\ escrow' = escrow /\ issuances' = issuances /\ fees' = fees
    BY <1>5 DEF ParseDestroy
  <2>2. /\ source \in Holder /\ XCP \in Token /\ Unspendable # source
        /\ Unspendable \in Holder /\ Asset \subseteq Token /\ XCP \notin Asset
    BY ConstantFacts
  <2>3. -q \in Int /\ balances[source][s] + (-q) >= 0
    BY <1>2, <1>3, <1>5, <2>2 DEF NatBalances
  <2>4. /\ balances' \in NatBalances
        /\ \A y \in Holder, t \in Token :
             balances'[y][t] = IF y = source /\ t = s THEN balances[y][t] + (-q) ELSE balances[y][t]
        /\ \A t \in Token : /\ Total(balances, t) \in Int
                            /\ Total(balances', t) = Total(balances, t) + (IF t = s THEN -q ELSE 0)
    BY ONLY <1>2, <2>1, <2>2, <2>3, s \in Token, OneMove
  <2>5. /\ destroyed' \in [Token -> Nat] /\ \A t \in Token : destroyed[t] \in Nat
        /\ \A t \in Token : destroyed'[t] = destroyed[t] + (IF t = s THEN q ELSE 0)
    BY <1>2, <1>3, <2>1
  <2>6. CancelsOut(balances, balances', escrow, escrow', issuances, issuances',
                   destroyed, destroyed', fees, fees')
    <3>1. ASSUME NEW c \in Asset
          PROVE  Total(balances', c) - Total(balances, c) + (EscrowTotal(escrow', c) - EscrowTotal(escrow, c)) =
                   RowsSum(issuances'[c], "quantity") - RowsSum(issuances[c], "quantity")
                     - (destroyed'[c] - destroyed[c])
      <4>1. EscrowTotal(escrow, c) \in Int
        BY <1>2, <2>2, EscrowType
      <4>2. RowsSum(issuances[c], "quantity") \in Nat
        BY <1>2, TableSums
      <4>3. EscrowTotal(escrow', c) = EscrowTotal(escrow, c)
            /\ RowsSum(issuances'[c], "quantity") = RowsSum(issuances[c], "quantity")
        BY <2>1
      <4>4. c \in Token
        BY <2>2
      <4> QED BY <1>3, <2>4, <2>5, <4>1, <4>2, <4>3, <4>4
    <3>2. Total(balances', XCP) - Total(balances, XCP) =
           0 - (destroyed'[XCP] - destroyed[XCP]) - (FeesOf(issuances') - FeesOf(issuances)) - (fees' - fees)
      <4>1. FeesOf(issuances) \in Nat
        BY <1>2, TableSums
      <4>2. FeesOf(issuances') = FeesOf(issuances)
        BY <2>1
      <4> QED BY <1>2, <1>3, <2>1, <2>2, <2>4, <2>5, <4>1, <4>2
    <3> QED BY <3>1, <3>2 DEF CancelsOut
  <2>7. /\ LedgerType(balances, escrow, issuances, destroyed, fees)
        /\ LedgerType(balances', escrow', issuances', destroyed', fees')
    BY <1>2, <2>1, <2>4, <2>5 DEF LedgerType
  <2>8. ConservedOK'
    BY <1>1, <2>6, <2>7, ConservedStep DEF ConservedOK
  <2>9. CoveredOK'
    <3>1. \A t \in Token : balances'[Unspendable][t] >= balances[Unspendable][t]
      BY <1>2, <2>2, <2>4 DEF NatBalances
    <3> QED BY <1>1, <2>4, <3>1, CoveredKept
  <2> QED BY <2>7, <2>8, <2>9 DEF LedgerKept
<1> QED BY <1>4, <1>5

\* What moves between a balance and an escrow
LEMMA EscrowKeeps ==
  ASSUME IInv, NEW source \in Address, NEW a \in Asset, NEW q \in Int,
         balances[source][a] + q >= 0, escrow[source][a] - q >= 0,
         balances' = Move(balances, source, a, q),
         escrow' = [escrow EXCEPT ![source][a] = escrow[source][a] - q],
         UNCHANGED <<issuances, destroyed, fees, fairminters>>
  PROVE  LedgerKept
<1>1. TypeOK /\ CoveredOK /\ ConservedOK
  BY DEF IInv
<1>2. /\ balances \in NatBalances /\ escrow \in [Address -> [Asset -> Nat]]
      /\ issuances \in [Asset -> Seq(Row)] /\ destroyed \in [Token -> Nat] /\ fees \in Nat
  BY <1>1, TypeFields
<1>3. /\ source \in Holder /\ XCP \in Token /\ Unspendable # source /\ a \in Token
      /\ Unspendable \in Holder /\ Asset \subseteq Token /\ XCP \notin Asset
  BY ConstantFacts
<1>4. /\ balances' \in NatBalances
      /\ \A y \in Holder, t \in Token :
           balances'[y][t] = IF y = source /\ t = a THEN balances[y][t] + q ELSE balances[y][t]
      /\ \A t \in Token : /\ Total(balances, t) \in Int
                          /\ Total(balances', t) = Total(balances, t) + (IF t = a THEN q ELSE 0)
  <2>1. q \in Int /\ balances[source][a] + q >= 0 /\ balances' = Move(balances, source, a, q)
    OBVIOUS
  <2> QED BY ONLY <1>2, <1>3, <2>1, OneMove
<1>5. PICK n : n = escrow[source][a] - q
  OBVIOUS
<1>6. n \in Nat /\ escrow' = [escrow EXCEPT ![source][a] = n] /\ n - escrow[source][a] = 0 - q
  BY <1>2, <1>5
<1>7. IsEscrowSet(escrow, escrow', source, a, n)
  BY ONLY <1>2, <1>6, source \in Address, a \in Asset, EscrowSums
<1>8. CancelsOut(balances, balances', escrow, escrow', issuances, issuances',
                   destroyed, destroyed', fees, fees')
  <2>1. ASSUME NEW c \in Asset
        PROVE  Total(balances', c) - Total(balances, c) + (EscrowTotal(escrow', c) - EscrowTotal(escrow, c)) =
                   RowsSum(issuances'[c], "quantity") - RowsSum(issuances[c], "quantity")
                     - (destroyed'[c] - destroyed[c])
    <3>1. RowsSum(issuances[c], "quantity") \in Nat /\ destroyed[c] \in Nat
      BY <1>2, <1>3, TableSums
    <3>2. c \in Token
      BY <1>3
    <3>3. EscrowTotal(escrow, c) \in Int /\ EscrowTotal(escrow', c) - EscrowTotal(escrow, c) = IF c = a THEN 0 - q ELSE 0
      <4>1. EscrowTotal(escrow, c) \in Int
            /\ EscrowTotal(escrow', c) = EscrowTotal(escrow, c) + (IF c = a THEN n - escrow[source][a] ELSE 0)
        BY <1>7 DEF IsEscrowSet
      <4>2. EscrowTotal(escrow', c) = EscrowTotal(escrow, c) + (IF c = a THEN 0 - q ELSE 0)
        BY <1>6, <4>1
      <4> QED BY <4>1, <4>2
    <3>4. Total(balances, c) \in Int /\ Total(balances', c) - Total(balances, c) = IF c = a THEN q ELSE 0
      BY <1>4, <3>2
    <3>5. issuances' = issuances /\ destroyed' = destroyed
      OBVIOUS
    <3> QED BY <3>1, <3>3, <3>4, <3>5
  <2>2. Total(balances', XCP) - Total(balances, XCP) =
           0 - (destroyed'[XCP] - destroyed[XCP]) - (FeesOf(issuances') - FeesOf(issuances)) - (fees' - fees)
    <3>1. FeesOf(issuances) \in Nat /\ destroyed[XCP] \in Nat
      BY <1>2, <1>3, TableSums
    <3> QED BY <1>2, <1>3, <1>4, <3>1
  <2> QED BY <2>1, <2>2 DEF CancelsOut
<1>9. /\ LedgerType(balances, escrow, issuances, destroyed, fees)
      /\ LedgerType(balances', escrow', issuances', destroyed', fees')
  BY <1>2, <1>4, <1>7 DEF LedgerType, IsEscrowSet
<1>10. ConservedOK'
  BY <1>1, <1>8, <1>9, ConservedStep DEF ConservedOK
<1>11. CoveredOK'
  <2>1. \A t \in Token : balances'[Unspendable][t] >= balances[Unspendable][t]
    BY <1>2, <1>3, <1>4 DEF NatBalances
  <2> QED BY <1>1, <1>4, <2>1, CoveredKept
<1> QED BY <1>9, <1>10, <1>11 DEF LedgerKept

\* An order,
LEMMA OrderKeeps ==
  ASSUME IInv, NEW source \in Address, NEW a \in Asset, NEW q \in OrderQuantity,
         ParseOrder(source, a, q), fairminters' = fairminters
  PROVE  LedgerKept
<1>1. /\ balances \in NatBalances /\ escrow \in [Address -> [Asset -> Nat]]
      /\ source \in Holder /\ a \in Token /\ q \in Nat
  BY TypeFields, ConstantFacts, AssetsAssumption DEF IInv
<1>2. balances[source][a] \in Nat /\ escrow[source][a] \in Nat /\ balances[source][a] >= q
  BY <1>1 DEF NatBalances, ParseOrder
<1>3. /\ -q \in Int /\ balances[source][a] + (-q) >= 0 /\ escrow[source][a] - (-q) >= 0
      /\ escrow[source][a] + q = escrow[source][a] - (-q)
  BY <1>1, <1>2
<1>4. /\ balances' = Move(balances, source, a, -q)
      /\ escrow' = [escrow EXCEPT ![source][a] = escrow[source][a] + q]
      /\ UNCHANGED <<issuances, destroyed, fees, fairminters>>
  BY <1>1 DEF ParseOrder
<1> QED BY <1>3, <1>4, EscrowKeeps

\* and what is left of it, when it is cancelled
LEMMA CancelKeeps ==
  ASSUME IInv, NEW source \in Address, NEW a \in Asset,
         CancelOrder(source, a), fairminters' = fairminters
  PROVE  LedgerKept
<1>1. /\ balances \in NatBalances /\ escrow \in [Address -> [Asset -> Nat]]
      /\ source \in Holder /\ a \in Token
  BY TypeFields, ConstantFacts DEF IInv
<1>2. balances[source][a] \in Nat /\ escrow[source][a] \in Nat
  BY <1>1 DEF NatBalances
<1>3. /\ escrow[source][a] \in Int /\ balances[source][a] + escrow[source][a] >= 0
      /\ escrow[source][a] - escrow[source][a] = 0 /\ escrow[source][a] - escrow[source][a] >= 0
  BY <1>2
<1>4. /\ balances' = Move(balances, source, a, escrow[source][a])
      /\ escrow' = [escrow EXCEPT ![source][a] = escrow[source][a] - escrow[source][a]]
      /\ UNCHANGED <<issuances, destroyed, fees, fairminters>>
  BY <1>3 DEF CancelOrder
<1> QED BY <1>3, <1>4, EscrowKeeps

----------------------------------------------------------------------------
\* A dividend

\* A sum over a part of a set
LEMMA SumOnPart ==
  ASSUME NEW S, IsFiniteSet(S), NEW T, T \in SUBSET S, NEW f, NEW g,
         \A x \in T : f[x] \in Int /\ g[x] = f[x],
         \A x \in S \ T : g[x] = 0
  PROVE  SumFunctionOnSet(g, S) = SumFunctionOnSet(f, T)
<1>1. IsFiniteSet(T) /\ IsFiniteSet(S \ T) /\ T \cap (S \ T) = {} /\ T \cup (S \ T) = S
  BY FS_Subset
<1>2. \A x \in T \cup (S \ T) : g[x] \in Int
  OBVIOUS
<1>3. SumFunctionOnSet(g, T \cup (S \ T)) = SumFunctionOnSet(g, T) + SumFunctionOnSet(g, S \ T)
  BY <1>1, <1>2, SumUnion
<1>4. SumFunctionOnSet(g, S \ T) = 0
  BY <1>1, SumZero
<1>5. SumFunctionOnSet(g, T) = SumFunctionOnSet(f, T)
  BY <1>1, SumEqual
<1>6. SumFunctionOnSet(f, T) \in Int
  BY <1>1, SumType
<1> QED BY <1>1, <1>3, <1>4, <1>5, <1>6

\* What a dividend gives a holder is a natural number.
LEMMA OutputType ==
  ASSUME TypeOK, RowsOK, NEW a \in Asset, Exists(a), NEW n \in PerUnit, NEW x \in Holder
  PROVE  DividendOutput(x, a, n) \in Nat
<1>1. n \in Nat /\ Unit \in Nat \ {0}
  BY AssetsAssumption
<1>2. a \in Token
  BY ConstantFacts
<1>3. balances[x][a] \in Nat /\ EscrowOf(x, a) \in Nat
  BY <1>2, TypeFields DEF EscrowOf, NatBalances
<1>4. ASSUME NEW q \in Nat
      PROVE  DividendOf(a, n, q) \in Nat
  <2> DEFINE p == q * n
  <2>1. p \in Nat
    BY <1>1
  <2>2. p \div Unit \in Nat
    <3> HIDE DEF p
    <3> QED BY <1>1, <2>1
  <2> QED BY <2>1, <2>2 DEF DividendOf
<1>5. DividendOf(a, n, balances[x][a]) \in Nat /\ DividendOf(a, n, EscrowOf(x, a)) \in Nat
  BY <1>3, <1>4
<1> QED BY <1>5 DEF DividendOutput

\* One balance makes the difference of two sums.
OneDiffers(f, g, y) == SumFunctionOnSet(g, Holder) = SumFunctionOnSet(f, Holder) + (g[y] - f[y])
\* The total over the holders changes by what one of them gains.
LEMMA HolderChange ==
  ASSUME NEW f, NEW g, NEW y, y \in Holder,
         \A x \in Holder : f[x] \in Int /\ g[x] \in Int,
         \A x \in Holder : x # y => g[x] = f[x]
  PROVE  OneDiffers(f, g, y)
<1>1. IsFiniteSet(Holder)
  BY ConstantFacts
<1>2. SumFunctionOnSet(g, Holder) = SumFunctionOnSet(f, Holder) + (g[y] - f[y])
  BY <1>1, SumChange
<1> QED BY <1>2 DEF OneDiffers

\* A dividend moves units from its source to the holders, and XCP to the fees.
LEMMA DividendKeeps ==
  ASSUME IInv, NEW source \in Address, NEW a \in Asset, NEW s \in Token, NEW n \in PerUnit,
         ParseDividend(source, a, s, n), fairminters' = fairminters
  PROVE  LedgerKept
<1> DEFINE H == DividendHolders(source, a)
           out == [x \in Holder |-> DividendOutput(x, a, n)]
           T == DividendTotal(source, a, n)
           fee == DividendFee(source, a)
           cost(t) == DividendCost(source, a, s, n, t)
<1>1. TypeOK /\ RowsOK /\ CoveredOK /\ ConservedOK
  BY DEF IInv
<1>2. /\ balances \in NatBalances /\ escrow \in [Address -> [Asset -> Nat]]
      /\ issuances \in [Asset -> Seq(Row)] /\ destroyed \in [Token -> Nat] /\ fees \in Nat
  BY <1>1, TypeFields
<1>3. /\ source \in Holder /\ XCP \in Token /\ Unspendable # source /\ a \in Token
      /\ Unspendable \in Holder /\ Asset \subseteq Token /\ XCP \notin Asset
      /\ IsFiniteSet(Holder) /\ HolderFee \in Nat
  BY ConstantFacts
<1>4. Exists(a)
  BY DEF ParseDividend, MayPayDividend
<1>5. \A x \in Holder : out[x] \in Nat
  BY <1>1, <1>4, OutputType
<1>6. H \subseteq Holder /\ source \notin H /\ IsFiniteSet(H)
  <2>1. H \subseteq Holder /\ source \notin H
    BY DEF DividendHolders
  <2> HIDE DEF H
  <2> QED BY <1>3, <2>1, FS_Subset
<1>7. T = SumFunctionOnSet(out, H)
  BY DEF DividendTotal
<1>8. T \in Nat
  <2> HIDE DEF T, out, H
  <2>1. \A x \in H : out[x] \in Nat
    BY <1>5, <1>6
  <2>2. SumFunctionOnSet(out, H) \in Nat
    BY <1>6, <2>1, SumNat
  <2> QED BY <1>7, <2>2
<1>9. fee \in Nat
  <2>1. Cardinality(H) \in Nat
    <3> HIDE DEF H
    <3> QED BY <1>6, FS_CardinalityType
  <2>2. fee = HolderFee * Cardinality(H)
    BY DEF DividendFee
  <2>3. PICK c \in Nat : c = Cardinality(H)
    BY <2>1
  <2> QED BY <1>3, <2>2, <2>3
<1>10. \A t \in Token : cost(t) = (IF t = s THEN T ELSE 0) + (IF t = XCP THEN fee ELSE 0)
  BY DEF DividendCost
<1>11. \A t \in Token : balances[source][t] >= cost(t)
  BY DEF ParseDividend, MayPayDividend
<1>12. /\ balances' = [x \in Holder |-> [t \in Token |->
            balances[x][t] - (IF x = source THEN cost(t) ELSE 0)
              + (IF x \in H /\ t = s THEN out[x] ELSE 0)]]
       /\ fees' = fees + fee
       /\ escrow' = escrow /\ issuances' = issuances /\ destroyed' = destroyed
  <2>1. \A x \in Holder : DividendOutput(x, a, n) = out[x]
    OBVIOUS
  <2> QED BY <2>1 DEF ParseDividend
<1> HIDE DEF H, out, T, fee, cost
<1>13. \A x \in Holder, t \in Token : balances[x][t] \in Nat
  BY <1>2 DEF NatBalances
<1>14. \A t \in Token : cost(t) \in Nat
  BY <1>8, <1>9, <1>10
<1>15. \A x \in Holder, t \in Token :
         /\ balances'[x][t] \in Nat
         /\ balances'[x][t] = IF x = source THEN balances[x][t] - cost(t)
                              ELSE IF x \in H /\ t = s THEN balances[x][t] + out[x] ELSE balances[x][t]
  <2> SUFFICES ASSUME NEW x \in Holder, NEW t \in Token
               PROVE /\ balances'[x][t] \in Nat
                     /\ balances'[x][t] = IF x = source THEN balances[x][t] - cost(t)
                              ELSE IF x \in H /\ t = s THEN balances[x][t] + out[x] ELSE balances[x][t]
    OBVIOUS
  <2>1. balances'[x][t] = balances[x][t] - (IF x = source THEN cost(t) ELSE 0)
                            + (IF x \in H /\ t = s THEN out[x] ELSE 0)
    BY <1>12
  <2>2. balances[x][t] \in Nat /\ cost(t) \in Nat /\ out[x] \in Nat /\ balances[source][t] >= cost(t)
    BY <1>5, <1>11, <1>13, <1>14
  <2> QED BY ONLY <1>6, <2>1, <2>2
<1>16. balances' \in NatBalances
  <2>1. balances' = [x \in Holder |-> [t \in Token |-> balances'[x][t]]]
    BY <1>12
  <2> QED BY <1>15, <2>1 DEF NatBalances
<1>17. ASSUME NEW t \in Token
       PROVE  /\ Total(balances, t) \in Int
              /\ Total(balances', t) = Total(balances, t) - (IF t = XCP THEN fee ELSE 0)
  <2> DEFINE b == [x \in Holder |-> balances[x][t]]
             p == [x \in Holder |-> IF x \in H /\ t = s THEN out[x] ELSE 0]
             g == [x \in Holder |-> b[x] + p[x]]
             c == [x \in Holder |-> balances'[x][t]]
  <2>1. \A x \in Holder : b[x] \in Int /\ p[x] \in Int /\ g[x] = b[x] + p[x] /\ g[x] \in Int /\ c[x] \in Int
    BY <1>5, <1>13, <1>15
  <2>2. SumFunctionOnSet(g, Holder) = SumFunctionOnSet(b, Holder) + SumFunctionOnSet(p, Holder)
    <3> HIDE DEF b, p, g, c
    <3> QED BY <1>3, <2>1, SumPlus
  <2>3. SumFunctionOnSet(p, Holder) = IF t = s THEN T ELSE 0
    <3>1. CASE t = s
      <4>1. /\ \A x \in H : out[x] \in Int /\ p[x] = out[x]
            /\ \A x \in Holder \ H : p[x] = 0
        BY <1>5, <1>6, <3>1
      <4> HIDE DEF p
      <4>2. SumFunctionOnSet(p, Holder) = SumFunctionOnSet(out, H)
        BY <1>3, <1>6, <4>1, SumOnPart
      <4> QED BY <1>7, <3>1, <4>2
    <3>2. CASE t # s
      <4>1. \A x \in Holder : p[x] = 0
        BY <3>2
      <4> HIDE DEF p
      <4> QED BY <1>3, <3>2, <4>1, SumZero
    <3> QED BY <3>1, <3>2
  <2>4. /\ \A x \in Holder : x # source => c[x] = g[x]
        /\ g[source] = b[source] /\ c[source] = b[source] - cost(t)
    BY <1>3, <1>6, <1>13, <1>15
  <2>5. SumFunctionOnSet(c, Holder) = SumFunctionOnSet(g, Holder) + (c[source] - g[source])
    <3> HIDE DEF b, p, g, c
    <3>1. source \in Holder /\ \A x \in Holder : g[x] \in Int /\ c[x] \in Int
      BY <1>3, <2>1
    <3>2. \A x \in Holder : x # source => c[x] = g[x]
      BY <2>4
    <3>3. OneDiffers(g, c, source)
      BY ONLY <3>1, <3>2, HolderChange
    <3> QED BY <3>3 DEF OneDiffers
  <2>6. SumFunctionOnSet(b, Holder) \in Int
    <3> HIDE DEF b, p, g, c
    <3> QED BY <1>3, <2>1, SumType
  <2>7. Total(balances, t) = SumFunctionOnSet(b, Holder) /\ Total(balances', t) = SumFunctionOnSet(c, Holder)
    BY DEF Total
  <2>8. b[source] \in Int /\ cost(t) = (IF t = s THEN T ELSE 0) + (IF t = XCP THEN fee ELSE 0)
    BY <1>3, <1>10, <2>1
  <2> HIDE DEF b, p, g, c
  <2>9. c[source] - g[source] = 0 - cost(t) /\ cost(t) \in Int
    BY <1>14, <2>4, <2>8
  <2> QED BY <1>8, <1>9, <2>2, <2>3, <2>5, <2>6, <2>7, <2>8, <2>9
<1>18. CancelsOut(balances, balances', escrow, escrow', issuances, issuances',
                   destroyed, destroyed', fees, fees')
  <2>1. ASSUME NEW c \in Asset
        PROVE  Total(balances', c) - Total(balances, c) + (EscrowTotal(escrow', c) - EscrowTotal(escrow, c)) =
                   RowsSum(issuances'[c], "quantity") - RowsSum(issuances[c], "quantity")
                     - (destroyed'[c] - destroyed[c])
    <3>1. RowsSum(issuances[c], "quantity") \in Nat /\ destroyed[c] \in Nat /\ EscrowTotal(escrow, c) \in Int
      BY <1>2, <1>3, TableSums, EscrowType
    <3>2. Total(balances, c) \in Int /\ Total(balances', c) = Total(balances, c)
      <4>1. c \in Token /\ c # XCP
        BY <1>3
      <4>2. /\ Total(balances, c) \in Int
            /\ Total(balances', c) = Total(balances, c) - (IF c = XCP THEN fee ELSE 0)
        BY <1>17, <4>1
      <4> QED BY <4>1, <4>2
    <3>3. escrow' = escrow /\ issuances' = issuances /\ destroyed' = destroyed
      BY <1>12
    <3> QED BY <3>1, <3>2, <3>3
  <2>2. Total(balances', XCP) - Total(balances, XCP) =
           0 - (destroyed'[XCP] - destroyed[XCP]) - (FeesOf(issuances') - FeesOf(issuances)) - (fees' - fees)
    <3>1. FeesOf(issuances) \in Nat /\ destroyed[XCP] \in Nat
      BY <1>2, <1>3, TableSums
    <3>2. issuances' = issuances /\ destroyed' = destroyed /\ fees' = fees + fee
      BY <1>12
    <3>3. Total(balances, XCP) \in Int /\ Total(balances', XCP) = Total(balances, XCP) - fee
      BY <1>3, <1>17
    <3> QED BY <1>2, <1>9, <3>1, <3>2, <3>3
  <2> QED BY <2>1, <2>2 DEF CancelsOut
<1>19. /\ LedgerType(balances, escrow, issuances, destroyed, fees)
       /\ LedgerType(balances', escrow', issuances', destroyed', fees')
  BY <1>2, <1>9, <1>12, <1>16 DEF LedgerType
<1>20. ConservedOK'
  BY <1>1, <1>18, <1>19, ConservedStep DEF ConservedOK
<1>21. CoveredOK'
  <2>1. \A t \in Token : balances'[Unspendable][t] >= balances[Unspendable][t]
    BY <1>3, <1>5, <1>13, <1>15
  <2> QED BY <1>1, <1>16, <2>1, CoveredKept
<1> QED BY <1>19, <1>20, <1>21 DEF LedgerKept

----------------------------------------------------------------------------
\* What the fair minters hold at UNSPENDABLE

\* Of each it is a natural number.
LEMMA HeldType ==
  ASSUME NEW f, f \in Fairminter, NEW s
  PROVE  HeldFor(f, s) \in Nat
  BY MinterFields, TermFields, MintedType DEF HeldFor

\* A new one adds what it holds,
LEMMA HeldAppend ==
  ASSUME NEW fs, fs \in Seq(Fairminter), NEW f, f \in Fairminter, NEW s
  PROVE  /\ HeldForAll(fs, s) \in Nat
         /\ HeldForAll(Append(fs, f), s) = HeldForAll(fs, s) + HeldFor(f, s)
<1> DEFINE S == DOMAIN fs
           n == Len(fs) + 1
           more == Append(fs, f)
           g == [i \in DOMAIN fs |-> HeldFor(fs[i], s)]
           h == [i \in DOMAIN more |-> HeldFor(more[i], s)]
<1>1. /\ S = 1..Len(fs) /\ Len(fs) \in Nat /\ DOMAIN more = S \cup {n} /\ n \notin S
      /\ more[n] = f /\ \A i \in S : more[i] = fs[i] /\ fs[i] \in Fairminter
  OBVIOUS
<1>2. IsFiniteSet(S)
  BY <1>1, FS_Interval
<1>3. /\ \A i \in S : g[i] \in Nat /\ g[i] \in Int /\ h[i] = g[i]
      /\ h[n] = HeldFor(f, s) /\ h[n] \in Int /\ \A i \in S \cup {n} : h[i] \in Int
  <2>1. \A i \in S : HeldFor(fs[i], s) \in Nat
    BY <1>1, HeldType
  <2>2. HeldFor(f, s) \in Nat
    BY HeldType
  <2> QED BY <1>1, <2>1, <2>2
<1>4. HeldForAll(fs, s) = SumFunctionOnSet(g, S)
  BY DEF HeldForAll
<1>5. HeldForAll(more, s) = SumFunctionOnSet(h, S \cup {n})
  BY <1>1 DEF HeldForAll
<1> HIDE DEF S, n, more, g, h
<1>6. SumFunctionOnSet(g, S) \in Nat
  BY <1>2, <1>3, SumNat
<1>7. SumFunctionOnSet(h, S \cup {n}) = SumFunctionOnSet(h, S) + h[n]
  BY <1>1, <1>2, <1>3, SumInsert
<1>8. SumFunctionOnSet(h, S) = SumFunctionOnSet(g, S)
  BY <1>2, <1>3, SumEqual
<1> QED BY <1>3, <1>4, <1>5, <1>6, <1>7, <1>8 DEF more

\* What a change of one fair minter does to all that is held
IsHeldChange(fs, gs, i, f, s) ==
  /\ HeldForAll(fs, s) \in Nat /\ HeldFor(fs[i], s) \in Nat /\ HeldFor(f, s) \in Nat
  /\ HeldForAll(fs, s) >= HeldFor(fs[i], s)
  /\ HeldForAll(gs, s) = HeldForAll(fs, s) - HeldFor(fs[i], s) + HeldFor(f, s)

\* and a change of one changes what all hold.
LEMMA HeldChange ==
  ASSUME NEW fs, fs \in Seq(Fairminter), NEW i, i \in DOMAIN fs, NEW f, f \in Fairminter, NEW s,
         NEW gs, gs = [fs EXCEPT ![i] = f]
  PROVE  IsHeldChange(fs, gs, i, f, s)
<1> DEFINE S == DOMAIN fs
           g == [j \in DOMAIN fs |-> HeldFor(fs[j], s)]
           h == [j \in DOMAIN gs |-> HeldFor(gs[j], s)]
<1>1. /\ S = 1..Len(fs) /\ Len(fs) \in Nat /\ DOMAIN gs = S /\ i \in S
      /\ gs[i] = f /\ (\A j \in S : fs[j] \in Fairminter) /\ (\A j \in S : j # i => gs[j] = fs[j])
  OBVIOUS
<1>2. IsFiniteSet(S) /\ IsFiniteSet(S \ {i})
  BY <1>1, FS_Interval, FS_Subset
<1>3. /\ \A j \in S : g[j] \in Nat /\ g[j] \in Int /\ h[j] \in Int /\ (j # i => h[j] = g[j])
      /\ g[i] = HeldFor(fs[i], s) /\ h[i] = HeldFor(f, s) /\ h[i] \in Nat
  <2>1. \A j \in S : HeldFor(fs[j], s) \in Nat
    BY <1>1, HeldType
  <2>2. HeldFor(f, s) \in Nat
    BY HeldType
  <2> QED BY <1>1, <2>1, <2>2
<1>4. HeldForAll(fs, s) = SumFunctionOnSet(g, S) /\ HeldForAll(gs, s) = SumFunctionOnSet(h, S)
  BY <1>1 DEF HeldForAll
<1> HIDE DEF S, g, h
<1>5. SumFunctionOnSet(g, S) \in Nat /\ SumFunctionOnSet(g, S \ {i}) \in Nat
  BY <1>2, <1>3, SumNat
<1>6. SumFunctionOnSet(g, S) = g[i] + SumFunctionOnSet(g, S \ {i})
  BY <1>1, <1>2, <1>3, SumRemove
<1>7. SumFunctionOnSet(h, S) = SumFunctionOnSet(g, S) + (h[i] - g[i])
  <2>1. i \in S /\ IsFiniteSet(S)
    BY <1>1, <1>2
  <2>2. \A j \in S : g[j] \in Int /\ h[j] \in Int
    BY <1>3
  <2>3. \A j \in S : j # i => h[j] = g[j]
    BY <1>3
  <2> QED BY ONLY <2>1, <2>2, <2>3, SumChange
<1>8. g[i] \in Nat
  BY <1>1, <1>3
<1> QED BY <1>3, <1>4, <1>5, <1>6, <1>7, <1>8 DEF IsHeldChange

\* CoveredOK after a step
LEMMA CoveredNext ==
  ASSUME \A s \in Token : balances'[Unspendable][s] >= HeldForAll(fairminters', s)
  PROVE  CoveredOK'
  BY DEF CoveredOK

----------------------------------------------------------------------------
\* A new fair minter

NewMinter(source, t) ==
  [terms |-> t, source |-> source, status |-> StatusAt(t),
   pre_minted |-> PreMinted(t), earned |-> [x \in Address |-> 0], paid |-> [x \in Address |-> 0],
   commission |-> 0, settled |-> FALSE, late |-> StatusAt(t) = "closed"]

\* It holds its premint, unless its source got it.
LEMMA NewMinterHolds ==
  ASSUME NEW source \in Address, NEW t \in Terms
  PROVE  /\ NewMinter(source, t) \in Fairminter
         /\ \A s \in Token : HeldFor(NewMinter(source, t), s) =
              IF s = t.asset /\ ~PreMinted(t) THEN t.premint_quantity ELSE 0
<1> DEFINE f == NewMinter(source, t)
<1>1. t \in TermRecords /\ t.premint_quantity \in Nat /\ t.asset \in Asset /\ t.soft_cap \in Nat
  BY FairmintersAssumption, TermFields
<1>2. StatusAt(t) \in {"pending", "open", "closed"} /\ PreMinted(t) \in BOOLEAN
  BY DEF StatusAt, PreMinted
<1>3. f \in Fairminter
  <2>1. PICK st, pm, lt : st = StatusAt(t) /\ pm = PreMinted(t) /\ lt = (StatusAt(t) = "closed")
    OBVIOUS
  <2>2. st \in {"pending", "open", "closed"} /\ pm \in BOOLEAN /\ lt \in BOOLEAN
    BY <1>2, <2>1
  <2>3. f = [terms |-> t, source |-> source, status |-> st, pre_minted |-> pm,
             earned |-> [x \in Address |-> 0], paid |-> [x \in Address |-> 0],
             commission |-> 0, settled |-> FALSE, late |-> lt]
    BY <2>1 DEF NewMinter
  <2>4. [x \in Address |-> 0] \in [Address -> Nat]
    OBVIOUS
  <2> HIDE DEF f
  <2> QED BY <1>1, <2>2, <2>3, <2>4 DEF Fairminter
<1>4. f.terms = t /\ f.pre_minted = PreMinted(t) /\ f.settled = FALSE /\ f.commission = 0
      /\ f.earned = [x \in Address |-> 0] /\ f.paid = [x \in Address |-> 0]
  BY DEF NewMinter
<1> HIDE DEF f
<1>5. Minted(f) = 0 /\ Paid(f) = 0
  <2>1. (\A x \in Address : f.earned[x] = 0) /\ (\A x \in Address : f.paid[x] = 0)
    BY <1>4
  <2>2. IsFiniteSet(Address)
    BY ConstantFacts
  <2>3. SumFunctionOnSet(f.earned, Address) = 0 /\ SumFunctionOnSet(f.paid, Address) = 0
    BY <2>1, <2>2, SumZero
  <2> QED BY <1>4, <2>3 DEF Minted, Paid, SumOver
<1>6. ASSUME NEW s \in Token
      PROVE  HeldFor(f, s) = IF s = t.asset /\ ~PreMinted(t) THEN t.premint_quantity ELSE 0
  <2>1. t.asset # XCP
    BY <1>1, ConstantFacts
  <2>2. PICK pm \in BOOLEAN : pm = PreMinted(t)
    BY <1>2
  <2> QED BY <1>1, <1>4, <1>5, <2>1, <2>2 DEF HeldFor
<1> QED BY <1>3, <1>6 DEF f

\* What its message does to the ledger
LEMMA FairminterKeeps ==
  ASSUME IInv, NEW source \in Address, NEW t \in Terms, ParseFairminter(source, t)
  PROVE  LedgerKept
<1> DEFINE a == t.asset
           r == OpeningRow(source, t)
           fee == Fee(t.asset)
           q == t.premint_quantity
           to == IF PreMinted(t) THEN source ELSE Unspendable
           b1 == Move(balances, to, a, q)
           f == NewMinter(source, t)
<1>1. TypeOK /\ CoveredOK /\ ConservedOK
  BY DEF IInv
<1>2. /\ balances \in NatBalances /\ escrow \in [Address -> [Asset -> Nat]]
      /\ issuances \in [Asset -> Seq(Row)] /\ destroyed \in [Token -> Nat] /\ fees \in Nat
      /\ fairminters \in Seq(Fairminter)
  BY <1>1, TypeFields
<1>3. r \in Row /\ a \in Asset /\ q \in Nat /\ fee \in Nat
  BY <1>1, RowTypes, FairmintersAssumption, TermFields
<1>4. r.quantity = q /\ r.fee_paid = fee
  BY DEF OpeningRow, NoRow
<1>5. /\ issuances' = [issuances EXCEPT ![a] = Append(@, r)]
      /\ balances' = Move(b1, source, XCP, -fee)
      /\ fairminters' = Append(fairminters, f)
      /\ escrow' = escrow /\ destroyed' = destroyed /\ fees' = fees
  BY DEF ParseFairminter, Preminted, NewMinter
<1>6. balances[source][XCP] >= fee
  <2>1. CASE Exists(a)
    BY <1>2, <2>1, ConstantFacts DEF Fee, NatBalances
  <2>2. CASE ~Exists(a)
    BY <2>2 DEF ParseFairminter, MayMintNew
  <2> QED BY <2>1, <2>2
<1>7. /\ source \in Holder /\ XCP \in Token /\ a \in Token /\ a # XCP /\ Unspendable # source
      /\ Unspendable \in Holder /\ Asset \subseteq Token /\ XCP \notin Asset /\ to \in Holder
  BY <1>3, ConstantFacts
<1>8. \A x \in Holder, s \in Token : balances[x][s] \in Nat
  BY <1>2 DEF NatBalances
<1>9. /\ b1 \in NatBalances
      /\ \A y \in Holder, s \in Token :
           b1[y][s] = IF y = to /\ s = a THEN balances[y][s] + q ELSE balances[y][s]
      /\ \A s \in Token : /\ Total(balances, s) \in Int
                          /\ Total(b1, s) = Total(balances, s) + (IF s = a THEN q ELSE 0)
  <2>1. q \in Int /\ balances[to][a] + q >= 0
    BY <1>3, <1>7, <1>8
  <2> HIDE DEF q, a, to
  <2> QED BY ONLY <1>2, <1>7, <2>1, OneMove
<1>10. /\ balances' \in NatBalances
       /\ \A y \in Holder, s \in Token :
           balances'[y][s] = IF y = source /\ s = XCP THEN b1[y][s] + (-fee) ELSE b1[y][s]
       /\ \A s \in Token : /\ Total(b1, s) \in Int
                           /\ Total(balances', s) = Total(b1, s) + (IF s = XCP THEN -fee ELSE 0)
  <2>1. b1[source][XCP] = balances[source][XCP]
    <3> HIDE DEF b1, a, q, to
    <3> QED BY <1>7, <1>9
  <2> HIDE DEF b1, a, fee
  <2>2. b1[source][XCP] + (-fee) >= 0 /\ -fee \in Int
    BY <1>3, <1>6, <1>7, <1>8, <2>1
  <2> QED BY ONLY <1>5, <1>7, <1>9, <2>2, OneMove
<1>11. IsRowAdded(issuances, issuances', a, r)
  <2> HIDE DEF a, r
  <2> QED BY ONLY <1>2, <1>3, <1>5, RowAdded
<1>12. \A s \in Token : HeldFor(f, s) = IF s = a /\ ~PreMinted(t) THEN q ELSE 0
  BY NewMinterHolds
<1>13. f \in Fairminter
  BY NewMinterHolds
<1>14. to = IF PreMinted(t) THEN source ELSE Unspendable
  OBVIOUS
<1> HIDE DEF a, r, b1, fee, q, to, f
<1>15. CancelsOut(balances, balances', escrow, escrow', issuances, issuances',
                   destroyed, destroyed', fees, fees')
  <2>1. ASSUME NEW c \in Asset
        PROVE  Total(balances', c) - Total(balances, c) + (EscrowTotal(escrow', c) - EscrowTotal(escrow, c)) =
                   RowsSum(issuances'[c], "quantity") - RowsSum(issuances[c], "quantity")
                     - (destroyed'[c] - destroyed[c])
    <3>1. EscrowTotal(escrow, c) \in Int /\ destroyed[c] \in Nat
      BY <1>2, <1>7, EscrowType
    <3>2. EscrowTotal(escrow', c) = EscrowTotal(escrow, c) /\ destroyed'[c] = destroyed[c]
      BY <1>5
    <3>3. c # XCP /\ c \in Token
      BY <1>7
    <3>4. Total(balances, c) \in Int /\ Total(balances', c) = Total(balances, c) + (IF c = a THEN q ELSE 0)
      BY <1>3, <1>9, <1>10, <3>3
    <3>5. /\ RowsSum(issuances[c], "quantity") \in Nat
          /\ RowsSum(issuances'[c], "quantity") =
               RowsSum(issuances[c], "quantity") + (IF c = a THEN q ELSE 0)
      BY <1>4, <1>11 DEF IsRowAdded
    <3> QED BY <1>3, <3>1, <3>2, <3>4, <3>5
  <2>2. Total(balances', XCP) - Total(balances, XCP) =
           0 - (destroyed'[XCP] - destroyed[XCP]) - (FeesOf(issuances') - FeesOf(issuances)) - (fees' - fees)
    <3>1. destroyed[XCP] \in Nat
      BY <1>2, <1>7
    <3> QED BY <1>2, <1>3, <1>4, <1>5, <1>7, <1>9, <1>10, <1>11, <3>1 DEF IsRowAdded
  <2> QED BY <2>1, <2>2 DEF CancelsOut
<1>16. /\ LedgerType(balances, escrow, issuances, destroyed, fees)
       /\ LedgerType(balances', escrow', issuances', destroyed', fees')
  BY <1>2, <1>5, <1>10, <1>11 DEF IsRowAdded, LedgerType
<1>17. ConservedOK'
  BY <1>1, <1>15, <1>16, ConservedStep DEF ConservedOK
<1>18. CoveredOK'
  <2> SUFFICES ASSUME NEW s \in Token
               PROVE  balances'[Unspendable][s] >= HeldForAll(fairminters', s)
    BY CoveredNext
  <2>1. /\ HeldForAll(fairminters, s) \in Nat
        /\ HeldForAll(fairminters', s) = HeldForAll(fairminters, s) + HeldFor(f, s)
    BY <1>2, <1>5, <1>13, HeldAppend
  <2>2. balances[Unspendable][s] >= HeldForAll(fairminters, s)
    BY <1>1 DEF CoveredOK
  <2>3. balances'[Unspendable][s] = b1[Unspendable][s]
    BY <1>7, <1>10
  <2>4. b1[Unspendable][s] = IF Unspendable = to /\ s = a THEN balances[Unspendable][s] + q
                             ELSE balances[Unspendable][s]
    BY <1>7, <1>9
  <2>5. HeldFor(f, s) = IF s = a /\ ~PreMinted(t) THEN q ELSE 0
    BY <1>12
  <2>6. ~PreMinted(t) => to = Unspendable
    BY <1>14
  <2>7. balances[Unspendable][s] \in Nat
    BY <1>7, <1>8
  <2>8. b1[Unspendable][s] >= balances[Unspendable][s] + HeldFor(f, s)
    <3>1. CASE s = a /\ ~PreMinted(t)
      BY <1>3, <2>4, <2>5, <2>6, <2>7, <3>1
    <3>2. CASE ~(s = a /\ ~PreMinted(t))
      BY <1>3, <2>4, <2>5, <2>7, <3>2
    <3> QED BY <3>1, <3>2
  <2>9. HeldFor(f, s) \in Nat /\ b1[Unspendable][s] \in Nat
    BY <1>7, <1>9, <1>13, HeldType DEF NatBalances
  <2> QED BY <2>1, <2>2, <2>3, <2>7, <2>8, <2>9
<1> QED BY <1>16, <1>17, <1>18 DEF LedgerKept

\* What the invariant says of one fair minter
LEMMA MinterIn ==
  ASSUME IInv, NEW i \in DOMAIN fairminters
  PROVE  /\ fairminters[i] \in Fairminter /\ fairminters[i].terms.asset \in Asset
         /\ issuances[fairminters[i].terms.asset] \in Seq(Row)
         /\ Exists(fairminters[i].terms.asset)
         /\ MinterAt(fairminters[i], block_index, phase)
<1> DEFINE f == fairminters[i]
<1>1. TypeOK /\ MintingOK /\ MintersOK
  BY DEF IInv
<1>2. f \in Fairminter /\ f.terms.asset \in Asset
  BY <1>1, TypeFields, MinterFields, TermFields
<1>3. MintingAt(fairminters, issuances[f.terms.asset], f.terms.asset)
  BY <1>1, <1>2 DEF MintingOK
<1>4. i \in OfIn(fairminters, f.terms.asset)
  BY DEF OfIn
<1>5. Exists(f.terms.asset)
  BY <1>3, <1>4 DEF MintingAt, Exists
<1>6. MinterAt(f, block_index, phase)
  BY <1>1 DEF MintersOK
<1> QED BY <1>1, <1>2, <1>5, <1>6, TypeFields

\* The row of the issuance that closes one
LEMMA CloseRowOf ==
  ASSUME IInv, NEW i \in DOMAIN fairminters, NEW r, r = CloseRow(fairminters[i]),
         NEW a, a = fairminters[i].terms.asset
  PROVE  /\ r \in Row
         /\ r.tx_index = NewestOf(issuances[a]).tx_index
         /\ r.issuer = NewestOf(issuances[a]).issuer
         /\ r.fair_minting = FALSE
         /\ r.quantity = 0 /\ r.fee_paid = 0
<1>1. TypeOK /\ RowsOK
  BY DEF IInv
<1>2. fairminters[i] \in Fairminter /\ Exists(fairminters[i].terms.asset)
  BY MinterIn
<1> QED BY <1>1, <1>2, CloseRowIs

\* What opening one does to the ledger
LEMMA OpenKeeps ==
  ASSUME IInv, NEW i \in DOMAIN fairminters, OpenFairminter(i)
  PROVE  LedgerKept
<1> DEFINE f == fairminters[i]
           t == f.terms
           a == t.asset
           q == t.premint_quantity
           un == q > 0 /\ t.soft_cap = 0
           g == [f EXCEPT !.status = "open", !.pre_minted = @ \/ un]
           b1 == Move(balances, Unspendable, a, -q)
<1>1. TypeOK /\ CoveredOK /\ ConservedOK
  BY DEF IInv
<1>2. /\ balances \in NatBalances /\ escrow \in [Address -> [Asset -> Nat]]
      /\ issuances \in [Asset -> Seq(Row)] /\ destroyed \in [Token -> Nat] /\ fees \in Nat
      /\ fairminters \in Seq(Fairminter)
  BY <1>1, TypeFields
<1>3. f \in Fairminter /\ a \in Asset /\ MinterAt(f, block_index, phase)
  BY MinterIn
<1>4. /\ f.status = "pending" /\ f.pre_minted \in BOOLEAN /\ t \in TermRecords /\ q \in Nat
      /\ t.soft_cap \in Nat /\ f.source \in Address /\ f.settled \in BOOLEAN
  BY <1>3, MinterFields, TermFields DEF OpenFairminter, ToOpen
<1>5. /\ f.pre_minted = FALSE
      /\ f.settled => t.soft_cap > 0
  BY <1>3, <1>4 DEF MinterAt
<1>6. /\ fairminters' = [fairminters EXCEPT ![i] = g]
      /\ balances' = IF un THEN Move(b1, f.source, a, q) ELSE balances
      /\ escrow' = escrow /\ issuances' = issuances /\ destroyed' = destroyed /\ fees' = fees
  BY DEF OpenFairminter
<1>7. /\ g \in Fairminter /\ g.terms = t /\ g.settled = f.settled
      /\ g.earned = f.earned /\ g.paid = f.paid /\ g.commission = f.commission
      /\ g.pre_minted = un
  <2>1. PICK u \in BOOLEAN : u = un
    OBVIOUS
  <2>2. g = [f EXCEPT !.status = "open", !.pre_minted = u]
    BY <1>5, <2>1
  <2> HIDE DEF f, g
  <2> QED BY <1>3, <2>1, <2>2 DEF Fairminter
<1>8. /\ f.source \in Holder /\ XCP \in Token /\ a \in Token /\ a # XCP /\ Unspendable # f.source
      /\ Unspendable \in Holder /\ Asset \subseteq Token /\ XCP \notin Asset
  BY <1>3, <1>4, ConstantFacts
<1>9. \A x \in Holder, s \in Token : balances[x][s] \in Nat
  BY <1>2 DEF NatBalances
<1>10. \A s \in Token : /\ HeldForAll(fairminters, s) \in Nat /\ HeldFor(f, s) \in Nat
                        /\ HeldFor(g, s) \in Nat
                        /\ HeldForAll(fairminters, s) >= HeldFor(f, s)
                        /\ HeldForAll(fairminters', s) =
                             HeldForAll(fairminters, s) - HeldFor(f, s) + HeldFor(g, s)
  <2>1. \A s \in Token : IsHeldChange(fairminters, fairminters', i, g, s)
    <3> HIDE DEF g
    <3> QED BY <1>2, <1>6, <1>7, HeldChange
  <2> QED BY <2>1 DEF IsHeldChange
<1>11. Minted(g) = Minted(f) /\ Paid(g) = Paid(f)
  BY <1>7 DEF Minted, Paid
<1>12. \A s \in Token : balances[Unspendable][s] >= HeldForAll(fairminters, s)
  BY <1>1 DEF CoveredOK
<1>13. un \in BOOLEAN
  OBVIOUS
<1>14. un => q > 0 /\ t.soft_cap = 0
  OBVIOUS
<1>15. a = t.asset /\ q = t.premint_quantity
  OBVIOUS
<1> HIDE DEF f, t, a, q, un, g, b1
<1>16. CASE ~un
  <2>1. \A s \in Token : HeldFor(g, s) = HeldFor(f, s)
    BY <1>5, <1>7, <1>11, <1>16 DEF HeldFor, t
  <2>2. balances' = balances
    BY <1>6, <1>16
  <2>3. CoveredOK'
    <3>1. \A s \in Token : HeldForAll(fairminters', s) = HeldForAll(fairminters, s)
      BY <1>10, <2>1
    <3> QED BY <1>12, <2>2, <3>1, CoveredNext
  <2>4. /\ LedgerType(balances', escrow', issuances', destroyed', fees')
        /\ ConservedOK'
    BY <1>1, <1>2, <1>6, <2>2 DEF LedgerType, ConservedOK
  <2> QED BY <2>3, <2>4 DEF LedgerKept
<1>17. CASE un
  <2>1. /\ HeldFor(f, a) = q /\ HeldFor(g, a) = 0
        /\ \A s \in Token : s # a => HeldFor(g, s) = HeldFor(f, s)
    BY <1>4, <1>5, <1>7, <1>8, <1>11, <1>14, <1>15, <1>17 DEF HeldFor, t
  <2>2. balances[Unspendable][a] >= q /\ balances[Unspendable][a] \in Nat
    BY <1>4, <1>8, <1>9, <1>10, <1>12, <2>1
  <2>3. /\ b1 \in NatBalances
        /\ \A y \in Holder, s \in Token :
             b1[y][s] = IF y = Unspendable /\ s = a THEN balances[y][s] + (-q) ELSE balances[y][s]
        /\ \A s \in Token : /\ Total(balances, s) \in Int
                            /\ Total(b1, s) = Total(balances, s) + (IF s = a THEN -q ELSE 0)
    <3>1. -q \in Int /\ balances[Unspendable][a] + (-q) >= 0 /\ b1 = Move(balances, Unspendable, a, -q)
      BY <1>4, <2>2 DEF b1
    <3> QED BY ONLY <1>2, <1>8, <3>1, OneMove
  <2>4. /\ balances' \in NatBalances
        /\ \A y \in Holder, s \in Token :
             balances'[y][s] = IF y = f.source /\ s = a THEN b1[y][s] + q ELSE b1[y][s]
        /\ \A s \in Token : /\ Total(b1, s) \in Int
                            /\ Total(balances', s) = Total(b1, s) + (IF s = a THEN q ELSE 0)
    <3>1. q \in Int /\ b1[f.source][a] + q >= 0 /\ balances' = Move(b1, f.source, a, q)
      BY <1>4, <1>6, <1>8, <1>17, <2>3 DEF NatBalances
    <3> QED BY ONLY <1>8, <2>3, <3>1, OneMove
  <2>5. \A s \in Token : Total(balances', s) = Total(balances, s) /\ Total(balances, s) \in Int
    BY <1>4, <2>3, <2>4
  <2>6. CancelsOut(balances, balances', escrow, escrow', issuances, issuances',
                   destroyed, destroyed', fees, fees')
    <3>1. FeesOf(issuances) \in Nat /\ \A c \in Asset :
            RowsSum(issuances[c], "quantity") \in Nat /\ EscrowTotal(escrow, c) \in Int
      BY <1>2, TableSums, EscrowType
    <3>2. \A s \in Token : destroyed[s] \in Nat
      BY <1>2
    <3> QED BY <1>2, <1>6, <1>8, <2>5, <3>1, <3>2 DEF CancelsOut
  <2>7. /\ LedgerType(balances, escrow, issuances, destroyed, fees)
        /\ LedgerType(balances', escrow', issuances', destroyed', fees')
    BY <1>2, <1>6, <2>4 DEF LedgerType
  <2>8. ConservedOK'
    BY <1>1, <2>6, <2>7, ConservedStep DEF ConservedOK
  <2>9. CoveredOK'
    <3> SUFFICES ASSUME NEW s \in Token
                 PROVE  balances'[Unspendable][s] >= HeldForAll(fairminters', s)
      BY CoveredNext
    <3>1. balances'[Unspendable][s] = b1[Unspendable][s]
      BY <1>8, <2>4
    <3>2. balances[Unspendable][s] \in Nat
      BY <1>8, <1>9
    <3>3. CASE s = a
      BY <1>4, <1>8, <1>10, <1>12, <2>1, <2>3, <3>1, <3>2, <3>3
    <3>4. CASE s # a
      BY <1>8, <1>10, <1>12, <2>1, <2>3, <3>1, <3>2, <3>4
    <3> QED BY <3>3, <3>4
  <2> QED BY <2>7, <2>8, <2>9 DEF LedgerKept
<1> QED BY <1>13, <1>16, <1>17

\* What a step that only closes a fair minter does to the ledger
LEMMA CloseKeeps ==
  ASSUME IInv, NEW i \in DOMAIN fairminters, CloseFairminter(i)
  PROVE  LedgerKept
<1> DEFINE f == fairminters[i]
           a == f.terms.asset
           r == CloseRow(f)
           g == [f EXCEPT !.status = "closed"]
<1>1. TypeOK /\ CoveredOK /\ ConservedOK
  BY DEF IInv
<1>2. /\ balances \in NatBalances /\ escrow \in [Address -> [Asset -> Nat]]
      /\ issuances \in [Asset -> Seq(Row)] /\ destroyed \in [Token -> Nat] /\ fees \in Nat
      /\ fairminters \in Seq(Fairminter)
  BY <1>1, TypeFields
<1>3. f \in Fairminter /\ a \in Asset
  BY MinterIn
<1>4. r \in Row /\ r.quantity = 0 /\ r.fee_paid = 0
  BY CloseRowOf
<1>5. /\ fairminters' = [fairminters EXCEPT ![i] = g]
      /\ issuances' = [issuances EXCEPT ![a] = Append(@, r)]
      /\ balances' = balances /\ escrow' = escrow /\ destroyed' = destroyed /\ fees' = fees
  BY DEF CloseFairminter
<1>6. /\ g \in Fairminter /\ g.terms = f.terms /\ g.settled = f.settled
      /\ g.earned = f.earned /\ g.paid = f.paid /\ g.commission = f.commission
      /\ g.pre_minted = f.pre_minted
  <2> HIDE DEF f
  <2> QED BY <1>3 DEF Fairminter
<1>7. \A s \in Token : HeldFor(g, s) = HeldFor(f, s)
  <2> HIDE DEF f, g
  <2>1. Minted(g) = Minted(f) /\ Paid(g) = Paid(f)
    BY <1>6 DEF Minted, Paid
  <2> QED BY <1>6, <2>1 DEF HeldFor
<1>8. IsRowAdded(issuances, issuances', a, r)
  <2> HIDE DEF a, r
  <2> QED BY ONLY <1>2, <1>3, <1>4, <1>5, RowAdded
<1> HIDE DEF a, r
<1>9. CoveredOK'
  <2> SUFFICES ASSUME NEW s \in Token
               PROVE  balances'[Unspendable][s] >= HeldForAll(fairminters', s)
    BY CoveredNext
  <2>1. IsHeldChange(fairminters, fairminters', i, g, s)
    <3> HIDE DEF g
    <3> QED BY <1>2, <1>5, <1>6, HeldChange
  <2>2. HeldForAll(fairminters', s) = HeldForAll(fairminters, s)
    BY <1>7, <2>1 DEF IsHeldChange
  <2> QED BY <1>1, <1>5, <2>2 DEF CoveredOK
<1>10. CancelsOut(balances, balances', escrow, escrow', issuances, issuances',
                   destroyed, destroyed', fees, fees')
  <2>1. \A c \in Asset : RowsSum(issuances[c], "quantity") \in Nat
                         /\ RowsSum(issuances'[c], "quantity") = RowsSum(issuances[c], "quantity")
    BY <1>4, <1>8 DEF IsRowAdded
  <2>2. FeesOf(issuances) \in Int /\ FeesOf(issuances') = FeesOf(issuances)
    BY <1>4, <1>8 DEF IsRowAdded
  <2>3. XCP \in Token /\ Asset \subseteq Token /\ \A s \in Token : Total(balances, s) \in Int
    BY <1>2, NatAreInt, TotalType, ConstantFacts
  <2>4. \A c \in Asset : EscrowTotal(escrow, c) \in Int
    BY <1>2, EscrowType
  <2> QED BY <1>2, <1>5, <2>1, <2>2, <2>3, <2>4 DEF CancelsOut
<1>11. /\ LedgerType(balances, escrow, issuances, destroyed, fees)
       /\ LedgerType(balances', escrow', issuances', destroyed', fees')
  BY <1>2, <1>5, <1>8 DEF LedgerType, IsRowAdded
<1>12. ConservedOK'
  BY <1>1, <1>10, <1>11, ConservedStep DEF ConservedOK
<1> QED BY <1>9, <1>11, <1>12 DEF LedgerKept

\* A settled fair minter whose UNSPENDABLE covers what is paid out of it
LEMMA SettledNat ==
  ASSUME NEW b, b \in NatBalances, NEW f, f \in Fairminter,
         \A s \in Token : b[Unspendable][s] >= HeldIn(f, s)
  PROVE  Settled(b, f) \in NatBalances
<1> DEFINE c == Settled(b, f)
<1>1. b \in IntBalances
  BY NatAreInt
<1>2. /\ c \in IntBalances
      /\ \A s \in Token :
              /\ c[Unspendable][s] = b[Unspendable][s] - HeldIn(f, s)
              /\ HeldIn(f, s) \in Nat
              /\ \A x \in Address : c[x][s] >= b[x][s]
  <2> HIDE DEF c
  <2>1. c = Settled(b, f)
    BY DEF c
  <2> QED BY <1>1, <2>1, SettledFacts
<1>3. /\ Unspendable \in Holder /\ Address \subseteq Holder
      /\ \A x \in Holder : x \in Address \/ x = Unspendable
  BY ConstantFacts
<1> HIDE DEF c
<1>4. \A x \in Holder, s \in Token : b[x][s] \in Nat /\ c[x][s] \in Int
  BY <1>2 DEF NatBalances, IntBalances
<1>5. ASSUME NEW x \in Holder, NEW s \in Token
      PROVE  c[x][s] \in Nat
  <2>1. CASE x = Unspendable
    BY <1>2, <1>3, <1>4, <2>1
  <2>2. CASE x # Unspendable
    <3>1. x \in Address
      BY <1>3, <2>2
    <3>2. c[x][s] >= b[x][s] /\ b[x][s] \in Nat /\ c[x][s] \in Int
      BY <1>2, <1>4, <3>1
    <3> QED BY ONLY <3>2
  <2> QED BY <2>1, <2>2
<1>6. c \in NatBalances
  BY <1>2, <1>5 DEF NatBalances, IntBalances
<1> QED BY <1>6 DEF c

\* What deciding a soft cap does to the ledger
LEMMA SettleKeeps ==
  ASSUME IInv, NEW i \in DOMAIN fairminters, SettleSoftCap(i)
  PROVE  LedgerKept
<1> DEFINE f == fairminters[i]
           a == f.terms.asset
           r == CloseRow(f)
           failed == ~SoftCapReached(f)
           g == [f EXCEPT !.settled = TRUE, !.status = IF failed THEN "closed" ELSE @]
<1>1. TypeOK /\ CoveredOK /\ ConservedOK
  BY DEF IInv
<1>2. /\ balances \in NatBalances /\ escrow \in [Address -> [Asset -> Nat]]
      /\ issuances \in [Asset -> Seq(Row)] /\ destroyed \in [Token -> Nat] /\ fees \in Nat
      /\ fairminters \in Seq(Fairminter)
  BY <1>1, TypeFields
<1>3. f \in Fairminter /\ a \in Asset /\ MinterAt(f, block_index, phase)
  BY MinterIn
<1>4. r \in Row /\ r.quantity = 0 /\ r.fee_paid = 0
  BY CloseRowOf
<1>5. /\ fairminters' = [fairminters EXCEPT ![i] = g]
      /\ balances' = Settled(balances, f)
      /\ destroyed' = Losing(f, destroyed)
      /\ issuances' = IF failed THEN [issuances EXCEPT ![a] = Append(@, r)] ELSE issuances
      /\ escrow' = escrow /\ fees' = fees
  BY DEF SettleSoftCap
<1>6. /\ f.settled = FALSE /\ f.terms.soft_cap > 0 /\ f.pre_minted = FALSE
  <2>1. f.settled \in BOOLEAN /\ f.pre_minted \in BOOLEAN /\ f.terms.soft_cap \in Nat
    BY <1>3, MinterFields, TermFields
  <2>2. f.terms.soft_cap > 0 /\ ~f.settled
    BY DEF SettleSoftCap, ToSettle
  <2> QED BY <1>3, <2>1, <2>2 DEF MinterAt
<1>7. /\ g \in Fairminter /\ g.settled = TRUE
  <2>1. PICK st : st = (IF failed THEN "closed" ELSE f.status)
    OBVIOUS
  <2>2. st \in {"pending", "open", "closed"}
    BY <1>3, <2>1, MinterFields
  <2>3. g = [f EXCEPT !.settled = TRUE, !.status = st]
    BY <1>3, <2>1 DEF Fairminter
  <2> HIDE DEF f, g
  <2> QED BY <1>3, <2>2, <2>3 DEF Fairminter
<1>8. /\ XCP \in Token /\ Unspendable \in Holder /\ Asset \subseteq Token /\ XCP \notin Asset
      /\ f.terms.asset \in Asset
  BY <1>3, ConstantFacts
<1>9. \A s \in Token : HeldFor(f, s) = HeldIn(f, s) /\ HeldFor(g, s) = 0
  <2> HIDE DEF f, g
  <2> QED BY <1>6, <1>7, <1>8, MinterFields, TermFields, MintedType, <1>3 DEF HeldFor, HeldIn
<1>10. \A s \in Token : IsHeldChange(fairminters, fairminters', i, g, s)
  <2> HIDE DEF g
  <2> QED BY <1>2, <1>5, <1>7, HeldChange
<1>11. \A s \in Token : balances[Unspendable][s] >= HeldForAll(fairminters, s)
  BY <1>1 DEF CoveredOK
<1>12. failed \in BOOLEAN
  BY DEF SoftCapReached
<1>13. \A s \in Token : IsHeldChange(fairminters, fairminters', i, g, s) /\ fairminters[i] = f
  BY <1>10
<1> HIDE DEF f, a, r, g, failed
<1>14. \A s \in Token : balances[Unspendable][s] \in Nat
  BY <1>2, <1>8 DEF NatBalances
<1>15. \A s \in Token : balances[Unspendable][s] >= HeldIn(f, s)
  BY <1>9, <1>11, <1>13, <1>14 DEF IsHeldChange
<1>16. balances' \in NatBalances
  BY <1>2, <1>3, <1>5, <1>15, SettledNat
<1>17. \A s \in Token :
              /\ balances'[Unspendable][s] = balances[Unspendable][s] - HeldIn(f, s)
              /\ HeldIn(f, s) \in Nat /\ Lost(f, s) \in Nat
              /\ Total(balances', s) = Total(balances, s) - Lost(f, s)
              /\ Total(balances, s) \in Int
  BY <1>2, <1>3, <1>5, NatAreInt, SettledFacts, TotalType
<1>18. CoveredOK'
  <2> SUFFICES ASSUME NEW s \in Token
               PROVE  balances'[Unspendable][s] >= HeldForAll(fairminters', s)
    BY CoveredNext
  <2>1. /\ HeldForAll(fairminters, s) \in Nat /\ HeldFor(f, s) \in Nat
        /\ HeldForAll(fairminters', s) = HeldForAll(fairminters, s) - HeldFor(f, s) + HeldFor(g, s)
    BY <1>13 DEF IsHeldChange
  <2> QED BY <1>9, <1>11, <1>14, <1>17, <2>1
<1>19. /\ destroyed' \in [Token -> Nat]
       /\ \A s \in Token : destroyed'[s] = destroyed[s] + Lost(f, s) /\ destroyed[s] \in Nat
  BY <1>2, <1>5, <1>17 DEF Losing
<1>20. /\ issuances' \in [Asset -> Seq(Row)]
       /\ \A c \in Asset : RowsSum(issuances[c], "quantity") \in Nat
                           /\ RowsSum(issuances'[c], "quantity") = RowsSum(issuances[c], "quantity")
       /\ FeesOf(issuances) \in Int /\ FeesOf(issuances') = FeesOf(issuances)
  <2>1. CASE failed
    <3>1. issuances' = [issuances EXCEPT ![a] = Append(@, r)]
      BY <1>5, <2>1
    <3>2. IsRowAdded(issuances, issuances', a, r)
      BY ONLY <1>2, <1>3, <1>4, <3>1, RowAdded
    <3> QED BY <1>4, <3>2 DEF IsRowAdded
  <2>2. CASE ~failed
    <3>1. issuances' = issuances
      BY <1>5, <2>2
    <3> QED BY <1>2, <3>1, TableSums
  <2> QED BY <1>12, <2>1, <2>2
<1>21. CancelsOut(balances, balances', escrow, escrow', issuances, issuances',
                   destroyed, destroyed', fees, fees')
  <2>1. ASSUME NEW c \in Asset
        PROVE  Total(balances', c) - Total(balances, c) + (EscrowTotal(escrow', c) - EscrowTotal(escrow, c)) =
                 RowsSum(issuances'[c], "quantity") - RowsSum(issuances[c], "quantity")
                   - (destroyed'[c] - destroyed[c])
    <3>1. EscrowTotal(escrow, c) \in Int /\ EscrowTotal(escrow', c) = EscrowTotal(escrow, c)
      BY <1>2, <1>5, EscrowType
    <3>2. c \in Token
      BY <1>8
    <3>3. PICK l \in Nat : l = Lost(f, c)
      BY <1>17, <3>2
    <3>4. Total(balances, c) \in Int /\ Total(balances', c) = Total(balances, c) - l
      BY <1>17, <3>2, <3>3
    <3>5. destroyed[c] \in Nat /\ destroyed'[c] = destroyed[c] + l
      BY <1>19, <3>2, <3>3
    <3>6. /\ RowsSum(issuances[c], "quantity") \in Nat
          /\ RowsSum(issuances'[c], "quantity") = RowsSum(issuances[c], "quantity")
      BY <1>20
    <3> QED BY <3>1, <3>4, <3>5, <3>6
  <2>2. Total(balances', XCP) - Total(balances, XCP) =
           0 - (destroyed'[XCP] - destroyed[XCP]) - (FeesOf(issuances') - FeesOf(issuances)) - (fees' - fees)
    <3>1. PICK l \in Nat : l = Lost(f, XCP)
      BY <1>8, <1>17
    <3>2. Total(balances, XCP) \in Int /\ Total(balances', XCP) = Total(balances, XCP) - l
      BY <1>8, <1>17, <3>1
    <3>3. destroyed[XCP] \in Nat /\ destroyed'[XCP] = destroyed[XCP] + l
      BY <1>8, <1>19, <3>1
    <3>4. FeesOf(issuances) \in Int /\ FeesOf(issuances') = FeesOf(issuances) /\ fees \in Nat /\ fees' = fees
      BY <1>2, <1>5, <1>20
    <3> QED BY <3>2, <3>3, <3>4
  <2> QED BY <2>1, <2>2 DEF CancelsOut
<1>22. /\ LedgerType(balances, escrow, issuances, destroyed, fees)
       /\ LedgerType(balances', escrow', issuances', destroyed', fees')
  BY <1>2, <1>5, <1>16, <1>19, <1>20 DEF LedgerType
<1>23. ConservedOK'
  BY <1>1, <1>21, <1>22, ConservedStep DEF ConservedOK
<1> QED BY <1>18, <1>22, <1>23 DEF LedgerKept

----------------------------------------------------------------------------
\* The parts of a mint

MintCommission(t, q) == (t.minted_asset_commission * MintTotal(t, q)) \div CommissionUnit
MintHits(t, q) == t.hard_cap > 0 /\ Supply(t.asset) + MintTotal(t, q) = t.hard_cap
Minter(source, f, q) ==
  [f EXCEPT !.earned[source] = @ + MintTotal(f.terms, q) - MintCommission(f.terms, q),
            !.paid[source] = @ + MintPrice(f.terms, q),
            !.commission = @ + MintCommission(f.terms, q)]
MintSettles(t, q) == MintHits(t, q) /\ Escrows(t)
MintFailed(source, f, q) == MintSettles(f.terms, q) /\ ~SoftCapReached(Minter(source, f, q))
MintBurned(t, q) ==
  IF MintPrice(t, q) > 0 /\ ~Escrows(t) /\ t.burn_payment THEN MintPrice(t, q) ELSE 0
MintPayment(source, f, q) ==
  Move(Move(balances, source, XCP, -MintPrice(f.terms, q)),
       IF Escrows(f.terms) THEN Unspendable ELSE f.source, XCP,
       MintPrice(f.terms, q) - MintBurned(f.terms, q))
MintMoves(source, f, q) ==
  IF Escrows(f.terms)
    THEN Move(MintPayment(source, f, q), Unspendable, f.terms.asset, MintTotal(f.terms, q))
    ELSE Move(Move(MintPayment(source, f, q), source, f.terms.asset,
                   MintTotal(f.terms, q) - MintCommission(f.terms, q)),
              f.source, f.terms.asset, MintCommission(f.terms, q))
MintSpent(source, f, q, d) ==
  IF MintSettles(f.terms, q)
    THEN Losing(Minter(source, f, q), [d EXCEPT ![XCP] = @ + MintBurned(f.terms, q)])
    ELSE [d EXCEPT ![XCP] = @ + MintBurned(f.terms, q)]
AfterMint(source, f, q) ==
  [Minter(source, f, q) EXCEPT
     !.status = IF MintHits(f.terms, q) THEN "closed" ELSE @,
     !.settled = @ \/ MintSettles(f.terms, q)]
MintingRow(f, q) == MintRow(f, MintTotal(f.terms, q), MintHits(f.terms, q))

\* A mint is made of them.
LEMMA MintIs ==
  ASSUME NEW source, NEW i, NEW q, Mint(source, i, q)
  PROVE  /\ balances' = IF MintSettles(fairminters[i].terms, q)
                          THEN Settled(MintMoves(source, fairminters[i], q), Minter(source, fairminters[i], q))
                          ELSE MintMoves(source, fairminters[i], q)
         /\ destroyed' = MintSpent(source, fairminters[i], q, destroyed)
         /\ fairminters' = [fairminters EXCEPT ![i] = AfterMint(source, fairminters[i], q)]
         /\ issuances' = [issuances EXCEPT ![fairminters[i].terms.asset] =
              (IF MintFailed(source, fairminters[i], q) THEN Append(@, CloseRow(fairminters[i])) ELSE @) \o <<MintingRow(fairminters[i], q)>>]
         /\ cache' = AddIssuance(
              IF MintFailed(source, fairminters[i], q)
                THEN AddIssuance([cache EXCEPT !.destroyed = MintSpent(source, fairminters[i], q, @)],
                                 fairminters[i].terms.asset, CloseRow(fairminters[i]))
                ELSE [cache EXCEPT !.destroyed = MintSpent(source, fairminters[i], q, @)],
              fairminters[i].terms.asset, MintingRow(fairminters[i], q))
         /\ UNCHANGED <<escrow, fees, first, stopped>>
  BY DEF Mint, MintCommission, MintHits, Minter, MintSettles, MintFailed, MintBurned, MintPayment,
         MintMoves, MintSpent, AfterMint, MintingRow

\* A set of numbers that is not empty and has a bound has a greatest member.
LEMMA GreatestMember ==
  ASSUME NEW n \in Nat, NEW S \in SUBSET (1..n), S # {}
  PROVE  Max(S) \in S /\ \A y \in S : y <= Max(S)
<1> DEFINE U == {u \in Nat : \A y \in S : y <= u}
<1>1. n \in U /\ U \in SUBSET Nat
  OBVIOUS
<1>2. Min(U) \in U /\ \A y \in U : Min(U) <= y
  <2> HIDE DEF U
  <2> QED BY <1>1, LeastMember
<1>3. PICK m \in U : \A y \in U : m <= y
  BY <1>2
<1>4. m \in Nat /\ \A y \in S : y <= m /\ y \in Nat /\ y >= 1
  BY <1>3
<1>5. m \in S
  <2> SUFFICES ASSUME m \notin S PROVE FALSE
    OBVIOUS
  <2>1. \A y \in S : y <= m - 1
    BY <1>4
  <2>2. m - 1 \in Nat
    <3>1. PICK y \in S : TRUE
      OBVIOUS
    <3>2. y <= m /\ y \in Nat /\ y >= 1
      BY <1>4, <3>1
    <3> QED BY <1>4, <3>2
  <2>3. m - 1 \in U
    BY <2>1, <2>2
  <2> QED BY <1>3, <1>4, <2>3
<1> QED BY <1>4, <1>5 DEF Max

\* A fair mint is one of the last fair minter of its asset, which is open.
LEMMA MintsLast ==
  ASSUME IInv, NEW a \in Asset, OfAsset(a) # {}
  PROVE  /\ Max(OfAsset(a)) \in DOMAIN fairminters
         /\ fairminters[Max(OfAsset(a))].terms.asset = a
<1>1. fairminters \in Seq(Fairminter)
  BY TypeFields DEF IInv
<1>2. DOMAIN fairminters = 1..Len(fairminters) /\ Len(fairminters) \in Nat
  BY <1>1
<1>3. OfAsset(a) \in SUBSET (1..Len(fairminters))
  BY <1>2 DEF OfAsset
<1>4. Max(OfAsset(a)) \in OfAsset(a)
  BY <1>2, <1>3, GreatestMember
<1> QED BY <1>4 DEF OfAsset

\* Its amounts
LEMMA MintAmounts ==
  ASSUME IInv, NEW source \in Address, NEW q \in MintQuantity, NEW f, f \in Fairminter,
         MinterAt(f, block_index, phase), MayMint(source, f, q), ~(MintTotal(f.terms, q) < 0)
  PROVE  /\ MintTotal(f.terms, q) \in Nat
         /\ MintCommission(f.terms, q) \in Nat /\ MintCommission(f.terms, q) <= MintTotal(f.terms, q)
         /\ MintPrice(f.terms, q) \in Nat /\ balances[source][XCP] >= MintPrice(f.terms, q)
         /\ MintBurned(f.terms, q) \in Nat /\ MintBurned(f.terms, q) <= MintPrice(f.terms, q)
<1> DEFINE t == f.terms
<1>1. /\ t \in TermRecords /\ t.asset \in Asset /\ t.price \in Nat /\ t.quantity_by_price \in Nat \ {0}
      /\ t.max_mint_per_tx \in Nat /\ t.hard_cap \in Nat /\ t.minted_asset_commission \in Nat
  BY MinterFields, TermFields
<1>2. q \in Nat /\ CommissionUnit \in Nat
  BY FairmintersAssumption
<1>3. Supply(t.asset) \in Int
  <2>1. cache \in [last : [Asset -> Row], issued : [Asset -> Nat], destroyed : [Token -> Nat]]
    BY TypeFields DEF IInv
  <2>2. t.asset \in Token
    BY <1>1, ConstantFacts
  <2>3. cache.issued[t.asset] \in Nat /\ cache.destroyed[t.asset] \in Nat
    BY <1>1, <2>1, <2>2
  <2> QED BY <2>3 DEF Supply
<1>4. MintTotal(t, q) \in Nat
  <2>1. MintTotal(t, q) \in Int
    BY <1>1, <1>2, <1>3 DEF MintTotal
  <2> QED BY <2>1
<1>5. t.minted_asset_commission < CommissionUnit
  BY DEF MinterAt
<1>6. MintCommission(t, q) \in Nat /\ MintCommission(t, q) <= MintTotal(t, q)
  BY <1>1, <1>2, <1>4, <1>5, PartOf DEF MintCommission
<1>7. MintPrice(t, q) \in Nat /\ balances[source][XCP] >= MintPrice(t, q)
  <2>1. balances[source][XCP] \in Nat
    BY TypeFields, ConstantFacts DEF IInv, NatBalances
  <2>2. CASE t.price = 0
    BY <2>1, <2>2 DEF MintPrice
  <2>3. CASE t.price # 0
    <3>1. PICK n \in Nat : n = q * t.price
      BY <1>1, <1>2
    <3>2. MintPrice(t, q) = (n + t.quantity_by_price - 1) \div t.quantity_by_price
      BY <2>3, <3>1 DEF MintPrice
    <3>3. MintPrice(t, q) \in Nat /\ MintPrice(t, q) <= n
      BY <1>1, <3>2, PriceOf
    <3>4. balances[source][XCP] >= n
      BY <1>1, <2>3, <3>1 DEF MayMint
    <3> QED BY <2>1, <3>1, <3>3, <3>4
  <2> QED BY <2>2, <2>3
<1>8. MintBurned(t, q) \in Nat /\ MintBurned(t, q) <= MintPrice(t, q)
  BY <1>7 DEF MintBurned
<1> QED BY <1>4, <1>6, <1>7, <1>8

\* What the movements of a mint do to the balances
IsMintMoved(b, c, a, total, paid, burned, e) ==
  /\ c \in NatBalances
  /\ \A s \in Token :
       /\ Total(b, s) \in Int
       /\ Total(c, s) = Total(b, s) + (IF s = a THEN total ELSE 0) - (IF s = XCP THEN burned ELSE 0)
       /\ c[Unspendable][s] = b[Unspendable][s]
            + (IF e THEN (IF s = a THEN total ELSE 0) + (IF s = XCP THEN paid - burned ELSE 0) ELSE 0)
\* The movements of a mint make `total` of the asset, destroy what is burned, and give
\* UNSPENDABLE what is minted and paid before the soft cap.
LEMMA MintMoved ==
  ASSUME NEW b, b \in NatBalances, NEW source, source \in Address, NEW to, to \in Address,
         NEW a, a \in Asset, NEW total, total \in Nat, NEW com, com \in Nat, com <= total,
         NEW paid, paid \in Nat, NEW burned, burned \in Nat, burned <= paid,
         b[source][XCP] >= paid, NEW e, e \in BOOLEAN,
         NEW b1, b1 = Move(b, source, XCP, -paid),
         NEW b2, b2 = Move(b1, IF e THEN Unspendable ELSE to, XCP, paid - burned),
         NEW c, c = IF e THEN Move(b2, Unspendable, a, total)
                    ELSE Move(Move(b2, source, a, total - com), to, a, com)
  PROVE  IsMintMoved(b, c, a, total, paid, burned, e)
<1>1. /\ source \in Holder /\ to \in Holder /\ XCP \in Token /\ a \in Token /\ a # XCP
      /\ Unspendable # source /\ Unspendable # to /\ Unspendable \in Holder
  BY ConstantFacts
<1>2. \A x \in Holder, s \in Token : b[x][s] \in Nat
  BY DEF NatBalances
<1>3. /\ b1 \in NatBalances
      /\ \A y \in Holder, s \in Token :
           b1[y][s] = IF y = source /\ s = XCP THEN b[y][s] + (-paid) ELSE b[y][s]
      /\ \A s \in Token : /\ Total(b, s) \in Int
                          /\ Total(b1, s) = Total(b, s) + (IF s = XCP THEN -paid ELSE 0)
  <2>1. -paid \in Int /\ b[source][XCP] + (-paid) >= 0
    BY <1>1, <1>2
  <2>2. b \in NatBalances /\ b1 = Move(b, source, XCP, -paid)
    OBVIOUS
  <2> QED BY ONLY <1>1, <2>1, <2>2, OneMove
<1>4. PICK x \in Holder : x = IF e THEN Unspendable ELSE to
  BY <1>1
<1>5. \A y \in Holder, s \in Token : b1[y][s] \in Nat
  BY <1>3 DEF NatBalances
<1>6. /\ b2 \in NatBalances
      /\ \A y \in Holder, s \in Token :
           b2[y][s] = IF y = x /\ s = XCP THEN b1[y][s] + (paid - burned) ELSE b1[y][s]
      /\ \A s \in Token : /\ Total(b1, s) \in Int
                          /\ Total(b2, s) = Total(b1, s) + (IF s = XCP THEN paid - burned ELSE 0)
  <2>1. paid - burned \in Int /\ b1[x][XCP] + (paid - burned) >= 0
    BY <1>1, <1>5
  <2>2. b2 = Move(b1, x, XCP, paid - burned)
    BY <1>4
  <2> QED BY ONLY <1>1, <1>3, <1>4, <2>1, <2>2, OneMove
<1>7. \A y \in Holder, s \in Token : b2[y][s] \in Nat
  BY <1>6 DEF NatBalances
<1>8. ASSUME NEW s \in Token
      PROVE  /\ Total(b, s) \in Int
             /\ Total(b2, s) = Total(b, s) - (IF s = XCP THEN burned ELSE 0)
  BY <1>3, <1>6
<1>9. CASE e
  <2>1. c = Move(b2, Unspendable, a, total) /\ x = Unspendable
    BY <1>4, <1>9
  <2>2. /\ c \in NatBalances
        /\ \A y \in Holder, s \in Token :
             c[y][s] = IF y = Unspendable /\ s = a THEN b2[y][s] + total ELSE b2[y][s]
        /\ \A s \in Token : /\ Total(b2, s) \in Int
                            /\ Total(c, s) = Total(b2, s) + (IF s = a THEN total ELSE 0)
    <3>1. total \in Int /\ b2[Unspendable][a] + total >= 0
      BY <1>1, <1>7
    <3> QED BY ONLY <1>1, <1>6, <2>1, <3>1, OneMove
  <2>3. ASSUME NEW s \in Token
        PROVE /\ Total(b, s) \in Int
              /\ Total(c, s) = Total(b, s) + (IF s = a THEN total ELSE 0) - (IF s = XCP THEN burned ELSE 0)
              /\ c[Unspendable][s] = b[Unspendable][s]
                    + ((IF s = a THEN total ELSE 0) + (IF s = XCP THEN paid - burned ELSE 0))
    <3>1. c[Unspendable][s] = (IF s = a THEN b2[Unspendable][s] + total ELSE b2[Unspendable][s])
      BY <1>1, <2>2
    <3>2. b2[Unspendable][s] = (IF s = XCP THEN b1[Unspendable][s] + (paid - burned) ELSE b1[Unspendable][s])
      BY <1>1, <1>6, <2>1
    <3>3. b1[Unspendable][s] = b[Unspendable][s] /\ b[Unspendable][s] \in Nat
      BY <1>1, <1>2, <1>3
    <3>4. Total(b, s) \in Int /\ Total(b2, s) = Total(b, s) - (IF s = XCP THEN burned ELSE 0)
      BY <1>8
    <3>5. Total(c, s) = Total(b2, s) + (IF s = a THEN total ELSE 0)
      BY <2>2
    <3>6. total \in Nat /\ paid \in Nat /\ burned \in Nat
      OBVIOUS
    <3>7. a # XCP
      BY <1>1
    <3>8. Total(c, s) = Total(b, s) + (IF s = a THEN total ELSE 0) - (IF s = XCP THEN burned ELSE 0)
      BY ONLY <3>4, <3>5, <3>6, <3>7
    <3>9. CASE s = XCP
      BY ONLY <3>1, <3>2, <3>3, <3>4, <3>6, <3>7, <3>8, <3>9
    <3>10. CASE s # XCP
      BY ONLY <3>1, <3>2, <3>3, <3>4, <3>6, <3>8, <3>10
    <3> QED BY <3>9, <3>10
  <2>4. e = TRUE
    BY <1>9
  <2> QED BY <2>2, <2>3, <2>4 DEF IsMintMoved
<1>10. CASE ~e
  <2> DEFINE d == Move(b2, source, a, total - com)
  <2>1. c = Move(d, to, a, com) /\ x = to
    BY <1>4, <1>10
  <2>2. /\ d \in NatBalances
        /\ \A y \in Holder, s \in Token :
             d[y][s] = IF y = source /\ s = a THEN b2[y][s] + (total - com) ELSE b2[y][s]
        /\ \A s \in Token : /\ Total(b2, s) \in Int
                            /\ Total(d, s) = Total(b2, s) + (IF s = a THEN total - com ELSE 0)
    <3>1. total - com \in Int /\ b2[source][a] + (total - com) >= 0
      BY <1>1, <1>7
    <3>2. d = Move(b2, source, a, total - com)
      OBVIOUS
    <3> HIDE DEF d
    <3> QED BY ONLY <1>1, <1>6, <3>1, <3>2, OneMove
  <2> HIDE DEF d
  <2>3. /\ c \in NatBalances
        /\ \A y \in Holder, s \in Token :
             c[y][s] = IF y = to /\ s = a THEN d[y][s] + com ELSE d[y][s]
        /\ \A s \in Token : /\ Total(d, s) \in Int
                            /\ Total(c, s) = Total(d, s) + (IF s = a THEN com ELSE 0)
    <3>1. com \in Int /\ d[to][a] + com >= 0
      BY <1>1, <2>2 DEF NatBalances
    <3> QED BY ONLY <1>1, <2>1, <2>2, <3>1, OneMove
  <2>4. ASSUME NEW s \in Token
        PROVE /\ Total(b, s) \in Int
              /\ Total(c, s) = Total(b, s) + (IF s = a THEN total ELSE 0) - (IF s = XCP THEN burned ELSE 0)
              /\ c[Unspendable][s] = b[Unspendable][s] + 0
    <3>1. c[Unspendable][s] = b[Unspendable][s] /\ b[Unspendable][s] \in Nat
      BY <1>1, <1>2, <1>3, <1>6, <2>1, <2>2, <2>3
    <3>2. Total(b, s) \in Int /\ Total(b2, s) = Total(b, s) - (IF s = XCP THEN burned ELSE 0)
      BY <1>8
    <3>3. Total(c, s) = Total(d, s) + (IF s = a THEN com ELSE 0)
      BY <2>3
    <3>4. Total(d, s) = Total(b2, s) + (IF s = a THEN total - com ELSE 0)
      BY <2>2
    <3>5. total \in Nat /\ com \in Nat /\ burned \in Nat
      OBVIOUS
    <3> QED BY ONLY <1>1, <3>1, <3>2, <3>3, <3>4, <3>5
  <2> QED BY <1>10, <2>3, <2>4 DEF IsMintMoved
<1> QED BY <1>9, <1>10

\* A fair minter with one mint more
WithMint(f, source, total, com, paid) ==
  [f EXCEPT !.earned[source] = @ + total - com, !.paid[source] = @ + paid, !.commission = @ + com]

IsMintSummed(f, g, total, paid) ==
  /\ g \in Fairminter /\ g.terms = f.terms /\ g.settled = f.settled /\ g.status = f.status
  /\ g.pre_minted = f.pre_minted /\ g.late = f.late /\ g.source = f.source
  /\ Minted(g) = Minted(f) + total /\ Paid(g) = Paid(f) + paid

\* What a mint makes of the sums of its fair minter
LEMMA MintSums ==
  ASSUME NEW f, f \in Fairminter, NEW source, source \in Address, NEW total, total \in Nat,
         NEW com, com \in Nat, com <= total, NEW paid, paid \in Nat,
         NEW g, g = WithMint(f, source, total, com, paid)
  PROVE  IsMintSummed(f, g, total, paid)
<1>1. f.earned \in [Address -> Nat] /\ f.paid \in [Address -> Nat] /\ f.commission \in Nat
  BY MinterFields
<1>2. PICK e2 : e2 = [f.earned EXCEPT ![source] = @ + total - com]
  OBVIOUS
<1>3. PICK p2 : p2 = [f.paid EXCEPT ![source] = @ + paid]
  OBVIOUS
<1>4. e2 \in [Address -> Nat]
  <2>1. f.earned[source] + total - com \in Nat
    BY <1>1
  <2> QED BY <1>1, <1>2, <2>1
<1>5. p2 \in [Address -> Nat]
  BY <1>1, <1>3
<1>6. PICK m : m = f.commission + com
  OBVIOUS
<1>7. m \in Nat
  BY <1>1, <1>6
<1>8. g = [f EXCEPT !.earned = e2, !.paid = p2, !.commission = m]
  BY <1>2, <1>3, <1>6 DEF Fairminter, WithMint
<1>9. /\ g \in Fairminter /\ g.terms = f.terms /\ g.settled = f.settled /\ g.status = f.status
      /\ g.pre_minted = f.pre_minted /\ g.late = f.late /\ g.source = f.source
      /\ g.earned = e2 /\ g.paid = p2 /\ g.commission = m
  BY ONLY f \in Fairminter, <1>4, <1>5, <1>7, <1>8 DEF Fairminter
<1>10. SumOver(e2) = SumOver(f.earned) + (total - com) /\ SumOver(f.earned) \in Nat
  <2>1. PICK e1 : e1 = f.earned
    OBVIOUS
  <2>2. \A x \in Address : e1[x] \in Int /\ e2[x] \in Int
    BY <1>1, <1>4, <2>1
  <2>3. \A x \in Address : x # source => e2[x] = e1[x]
    BY <1>1, <1>2, <2>1
  <2>4. e2[source] - e1[source] = total - com
    BY <1>1, <1>2, <2>1
  <2>5. IsFiniteSet(Address) /\ source \in Address
    BY ConstantFacts
  <2>6. SumFunctionOnSet(e2, Address) = SumFunctionOnSet(e1, Address) + (e2[source] - e1[source])
    BY ONLY <2>2, <2>3, <2>5, SumChange
  <2>7. SumOver(f.earned) \in Nat
    BY MintedType
  <2> QED BY <2>1, <2>4, <2>6, <2>7 DEF SumOver
<1>11. SumOver(p2) = SumOver(f.paid) + paid /\ SumOver(f.paid) \in Nat
  <2>1. PICK e1 : e1 = f.paid
    OBVIOUS
  <2>2. \A x \in Address : e1[x] \in Int /\ p2[x] \in Int
    BY <1>1, <1>5, <2>1
  <2>3. \A x \in Address : x # source => p2[x] = e1[x]
    BY <1>1, <1>3, <2>1
  <2>4. p2[source] - e1[source] = paid
    BY <1>1, <1>3, <2>1
  <2>5. IsFiniteSet(Address) /\ source \in Address
    BY ConstantFacts
  <2>6. SumFunctionOnSet(p2, Address) = SumFunctionOnSet(e1, Address) + (p2[source] - e1[source])
    BY ONLY <2>2, <2>3, <2>5, SumChange
  <2>7. SumOver(f.paid) \in Nat
    BY MintedType DEF Paid
  <2> QED BY <2>1, <2>4, <2>6, <2>7 DEF SumOver
<1>12. Minted(g) = Minted(f) + total
  BY <1>1, <1>6, <1>9, <1>10 DEF Minted
<1>13. Paid(g) = Paid(f) + paid
  BY <1>9, <1>11 DEF Paid
<1> QED BY <1>9, <1>12, <1>13 DEF IsMintSummed

\* What a mint makes of what its fair minter holds
MintHolds(f, g, h, total, paid, sets, e) ==
  /\ h \in Fairminter
  /\ \A s \in Token :
       /\ e => /\ HeldFor(f, s) = HeldIn(f, s)
               /\ HeldIn(f, s) \in Nat
               /\ HeldIn(g, s) = HeldIn(f, s) + (IF s = f.terms.asset THEN total ELSE 0)
                                              + (IF s = XCP THEN paid ELSE 0)
               /\ HeldFor(h, s) = IF sets THEN 0 ELSE HeldIn(g, s)
       /\ ~e => HeldFor(h, s) = HeldFor(f, s)

\* Before the soft cap is decided all of it is held, afterwards nothing.
LEMMA MintHeld ==
  ASSUME TypeOK, phase = "parsing", NEW f, f \in Fairminter, MinterAt(f, block_index, phase),
         f.status = "open", NEW g, g \in Fairminter, g.terms = f.terms, g.settled = f.settled,
         g.pre_minted = f.pre_minted, NEW total, total \in Nat, NEW paid, paid \in Nat,
         Minted(g) = Minted(f) + total, Paid(g) = Paid(f) + paid,
         NEW st, st \in {"pending", "open", "closed"}, NEW sets, sets \in BOOLEAN,
         sets => Escrows(f.terms), NEW h, h = [g EXCEPT !.status = st, !.settled = @ \/ sets]
  PROVE  MintHolds(f, g, h, total, paid, sets, Escrows(f.terms))
<1>1. /\ f.terms \in TermRecords /\ f.settled \in BOOLEAN /\ f.pre_minted \in BOOLEAN
      /\ f.terms.asset \in Asset /\ f.terms.soft_cap \in Nat /\ f.terms.premint_quantity \in Nat
      /\ f.terms.soft_cap_deadline_block \in Nat /\ block_index \in Nat
  BY MinterFields, TermFields, TypeFields
<1>2. /\ Escrows(f.terms) => f.terms.soft_cap > 0 /\ f.settled = FALSE /\ f.pre_minted = FALSE
      /\ ~Escrows(f.terms) => f.settled = TRUE \/ f.terms.soft_cap = 0
  BY <1>1 DEF Escrows, MinterAt
<1>3. PICK u \in BOOLEAN : u = (g.settled \/ sets)
  BY <1>1
<1>4. h = [g EXCEPT !.status = st, !.settled = u]
  BY <1>3
<1>5. /\ h \in Fairminter /\ h.settled = u /\ h.terms = g.terms /\ h.pre_minted = g.pre_minted
      /\ h.earned = g.earned /\ h.paid = g.paid /\ h.commission = g.commission
  BY <1>3, <1>4 DEF Fairminter
<1>6. Minted(h) = Minted(g) /\ Paid(h) = Paid(g)
  BY <1>5 DEF Minted, Paid
<1>7. Minted(f) \in Nat /\ Paid(f) \in Nat
  BY MintedType
<1>8. XCP # f.terms.asset
  BY <1>1, ConstantFacts
<1>9. ASSUME NEW s \in Token, Escrows(f.terms)
      PROVE  /\ HeldFor(f, s) = HeldIn(f, s)
             /\ HeldIn(f, s) \in Nat
             /\ HeldIn(g, s) = HeldIn(f, s) + (IF s = f.terms.asset THEN total ELSE 0)
                                              + (IF s = XCP THEN paid ELSE 0)
             /\ HeldFor(h, s) = IF sets THEN 0 ELSE HeldIn(g, s)
  <2>1. HeldFor(f, s) = HeldIn(f, s) /\ HeldIn(f, s) \in Nat
    BY <1>1, <1>2, <1>7, <1>9 DEF HeldFor, HeldIn
  <2>2. HeldIn(g, s) = HeldIn(f, s) + (IF s = f.terms.asset THEN total ELSE 0)
                                              + (IF s = XCP THEN paid ELSE 0)
    BY <1>1, <1>7, <1>8 DEF HeldIn
  <2>3. u = sets
    BY <1>2, <1>3, <1>9
  <2>4. HeldFor(h, s) = IF sets THEN 0 ELSE HeldIn(g, s)
    <3>1. h.pre_minted = FALSE /\ h.terms = f.terms /\ g.terms = f.terms /\ f.terms.soft_cap > 0
      BY <1>2, <1>5, <1>9
    <3>2. Minted(g) \in Nat
      BY MintedType
    <3> QED BY <1>1, <1>5, <1>6, <2>3, <3>1, <3>2 DEF HeldFor, HeldIn
  <2> QED BY <2>1, <2>2, <2>4
<1>10. ASSUME NEW s \in Token, ~Escrows(f.terms)
       PROVE  HeldFor(h, s) = HeldFor(f, s)
  <2>1. u = f.settled
    BY <1>1, <1>3, <1>10
  <2>2. h.terms = f.terms /\ h.settled = f.settled /\ h.pre_minted = f.pre_minted
    BY <1>5, <2>1
  <2> QED BY <1>1, <1>2, <1>10, <2>2 DEF HeldFor
<1> QED BY <1>5, <1>9, <1>10 DEF MintHolds

\* The row of a mint
LEMMA MintingRowIs ==
  ASSUME TypeOK, NEW f, f \in Fairminter, NEW q, MintTotal(f.terms, q) \in Nat
  PROVE  /\ MintingRow(f, q) \in Row
         /\ MintingRow(f, q).quantity = MintTotal(f.terms, q) /\ MintingRow(f, q).fee_paid = 0
         /\ MintingRow(f, q).tx_index = txs + 1
         /\ MintingRow(f, q).issuer = cache.last[f.terms.asset].issuer
         /\ MintingRow(f, q).fair_minting
              = (cache.last[f.terms.asset].fair_minting /\ ~MintHits(f.terms, q))
         /\ MintingRow(f, q).locked
              = (cache.last[f.terms.asset].locked \/ (MintHits(f.terms, q) /\ f.terms.lock_quantity))
<1>1. /\ f.terms.asset \in Asset /\ f.terms.lock_quantity \in BOOLEAN
      /\ f.terms.lock_description \in BOOLEAN /\ txs \in Nat
      /\ cache.last \in [Asset -> Row]
  <2>1. cache \in [last : [Asset -> Row], issued : [Asset -> Nat], destroyed : [Token -> Nat]]
    BY TypeFields
  <2> QED BY <2>1, MinterFields, TermFields, TypeFields
<1>2. PICK r \in Row : r = cache.last[f.terms.asset]
  BY <1>1
<1>3. PICK n : n = txs + 1
  OBVIOUS
<1>4. PICK h \in BOOLEAN : h = MintHits(f.terms, q)
  BY DEF MintHits
<1>5. PICK x, y, z : /\ x = (r.fair_minting /\ ~h)
                     /\ y = (r.locked \/ (h /\ f.terms.lock_quantity))
                     /\ z = (r.description_locked \/ (h /\ f.terms.lock_description))
  OBVIOUS
<1>6. PICK m : m = MintTotal(f.terms, q)
  OBVIOUS
<1>7. MintingRow(f, q) = [r EXCEPT !.tx_index = n, !.quantity = m, !.fee_paid = 0,
                            !.fair_minting = x, !.locked = y, !.description_locked = z]
  BY <1>2, <1>3, <1>4, <1>5, <1>6 DEF MintingRow, MintRow, Row
<1>8. /\ n \in Nat /\ m \in Nat /\ x \in BOOLEAN /\ y \in BOOLEAN /\ z \in BOOLEAN
  BY <1>1, <1>2, <1>3, <1>4, <1>5, <1>6, RowFields
<1>9. PICK v : v = MintingRow(f, q)
  OBVIOUS
<1>11. v = [r EXCEPT !.tx_index = n, !.quantity = m, !.fee_paid = 0,
                !.fair_minting = x, !.locked = y, !.description_locked = z]
  BY <1>7, <1>9
<1>10. v \in Row /\ v.tx_index = n /\ v.quantity = m /\ v.fee_paid = 0 /\ v.issuer = r.issuer
       /\ v.fair_minting = x /\ v.locked = y
  BY ONLY <1>8, <1>11, r \in Row DEF Row
<1> QED BY <1>2, <1>3, <1>4, <1>5, <1>6, <1>9, <1>10

\* What the rows of a mint add
IsMintAdded(iss, jss, a, total) ==
  /\ jss \in [Asset -> Seq(Row)]
  /\ \A c \in Asset : /\ RowsSum(iss[c], "quantity") \in Nat
                      /\ RowsSum(jss[c], "quantity") =
                           RowsSum(iss[c], "quantity") + (IF c = a THEN total ELSE 0)
  /\ FeesOf(iss) \in Int /\ FeesOf(jss) = FeesOf(iss)
\* The rows of a mint add what it makes to the issuances of the asset, and no fee.
LEMMA MintAdded ==
  ASSUME NEW iss, iss \in [Asset -> Seq(Row)], NEW a, a \in Asset, NEW r, r \in Row,
         r.fee_paid = 0, NEW closing, NEW r0,
         closing => r0 \in Row /\ r0.quantity = 0 /\ r0.fee_paid = 0, NEW jss,
         jss = [iss EXCEPT ![a] = (IF closing THEN Append(@, r0) ELSE @) \o <<r>>]
  PROVE  IsMintAdded(iss, jss, a, r.quantity)
<1>1. PICK kss : kss = IF closing THEN [iss EXCEPT ![a] = Append(@, r0)] ELSE iss
  OBVIOUS
<1>2. /\ kss \in [Asset -> Seq(Row)]
      /\ \A c \in Asset : /\ RowsSum(iss[c], "quantity") \in Nat
                          /\ RowsSum(kss[c], "quantity") = RowsSum(iss[c], "quantity")
      /\ FeesOf(iss) \in Int /\ FeesOf(kss) = FeesOf(iss)
  <2>1. CASE closing
    <3>1. kss = [iss EXCEPT ![a] = Append(@, r0)] /\ r0 \in Row
      BY <1>1, <2>1
    <3>2. IsRowAdded(iss, kss, a, r0)
      BY ONLY <3>1, iss \in [Asset -> Seq(Row)], a \in Asset, RowAdded
    <3>3. r0.quantity = 0 /\ r0.fee_paid = 0
      BY <2>1
    <3>4. ASSUME NEW c \in Asset
          PROVE  /\ RowsSum(iss[c], "quantity") \in Nat
                 /\ RowsSum(kss[c], "quantity") = RowsSum(iss[c], "quantity")
      <4>1. /\ RowsSum(iss[c], "quantity") \in Nat
            /\ RowsSum(kss[c], "quantity") = RowsSum(iss[c], "quantity") + (IF c = a THEN 0 ELSE 0)
        BY <3>2, <3>3 DEF IsRowAdded
      <4> QED BY <4>1
    <3>5. kss \in [Asset -> Seq(Row)] /\ FeesOf(iss) \in Int /\ FeesOf(kss) = FeesOf(iss) + 0
      BY <3>2, <3>3 DEF IsRowAdded
    <3>6. FeesOf(kss) = FeesOf(iss)
      BY ONLY <3>5
    <3> QED BY ONLY <3>4, <3>5, <3>6
  <2>2. CASE ~closing
    <3>1. kss = iss
      BY <1>1, <2>2
    <3> QED BY <3>1, TableSums
  <2> QED BY <2>1, <2>2
<1>3. jss = [kss EXCEPT ![a] = Append(@, r)]
  <2>1. kss[a] \in Seq(Row) /\ kss[a] = IF closing THEN Append(iss[a], r0) ELSE iss[a]
    BY <1>1, <1>2
  <2>2. Append(kss[a], r) = kss[a] \o <<r>>
    BY <2>1
  <2>3. jss = [iss EXCEPT ![a] = kss[a] \o <<r>>]
    BY <2>1
  <2>4. [kss EXCEPT ![a] = Append(@, r)] = [iss EXCEPT ![a] = Append(kss[a], r)]
    BY <1>1, <2>1
  <2> QED BY <2>2, <2>3, <2>4
<1>4. IsRowAdded(kss, jss, a, r)
  BY ONLY <1>2, <1>3, a \in Asset, r \in Row, RowAdded
<1>5. r.quantity \in Nat
  BY RowFields
<1> QED BY <1>2, <1>4, <1>5 DEF IsRowAdded, IsMintAdded

\* What the movements of a mint have done
MovedAt(c, s, a, total, burned, paid, e) ==
  /\ Total(balances, s) \in Int
  /\ Total(c, s) = Total(balances, s) + (IF s = a THEN total ELSE 0) - (IF s = XCP THEN burned ELSE 0)
  /\ c[Unspendable][s] \in Nat
  /\ ~e => c[Unspendable][s] = balances[Unspendable][s]
  /\ e => c[Unspendable][s] = balances[Unspendable][s]
        + (IF s = a THEN total ELSE 0) + (IF s = XCP THEN paid ELSE 0)

\* What a mint does to the ledger
LEMMA MintKeeps ==
  ASSUME IInv, phase = "parsing", NEW source \in Address, NEW i \in DOMAIN fairminters,
         NEW q \in MintQuantity, MayMint(source, fairminters[i], q),
         ~(MintTotal(fairminters[i].terms, q) < 0), Mint(source, i, q)
  PROVE  LedgerKept
<1> DEFINE f == fairminters[i]
           t == f.terms
           a == t.asset
           total == MintTotal(t, q)
           com == MintCommission(t, q)
           paid == MintPrice(t, q)
           burned == MintBurned(t, q)
           e == Escrows(t)
           sets == MintSettles(t, q)
           g == Minter(source, f, q)
           h == AfterMint(source, f, q)
           moved == MintMoves(source, f, q)
           row == MintingRow(f, q)
           closing == MintFailed(source, f, q)
           r0 == CloseRow(f)
           d1 == [destroyed EXCEPT ![XCP] = @ + burned]
<1>1. TypeOK /\ CoveredOK /\ ConservedOK
  BY DEF IInv
<1>2. /\ balances \in NatBalances /\ escrow \in [Address -> [Asset -> Nat]]
      /\ issuances \in [Asset -> Seq(Row)] /\ destroyed \in [Token -> Nat] /\ fees \in Nat
      /\ fairminters \in Seq(Fairminter)
  BY <1>1, TypeFields
<1>3. f \in Fairminter /\ a \in Asset /\ MinterAt(f, block_index, phase)
  BY MinterIn
<1>4. /\ t \in TermRecords /\ f.source \in Address /\ f.status = "open" /\ t = f.terms /\ a = t.asset
  BY <1>3, MinterFields DEF MayMint
<1>5. /\ total \in Nat /\ com \in Nat /\ com <= total /\ paid \in Nat
      /\ balances[source][XCP] >= paid /\ burned \in Nat /\ burned <= paid
  BY <1>3, MintAmounts
<1>6. e \in BOOLEAN /\ sets \in BOOLEAN /\ (sets => e) /\ (e => burned = 0)
  BY DEF Escrows, MintSettles, MintHits, MintBurned
<1>7. /\ balances' = IF sets THEN Settled(moved, g) ELSE moved
      /\ destroyed' = IF sets THEN Losing(g, d1) ELSE d1
      /\ fairminters' = [fairminters EXCEPT ![i] = h]
      /\ issuances' = [issuances EXCEPT ![a] = (IF closing THEN Append(@, r0) ELSE @) \o <<row>>]
      /\ escrow' = escrow /\ fees' = fees
  <2>1. /\ balances' = IF sets THEN Settled(moved, g) ELSE moved
        /\ destroyed' = MintSpent(source, f, q, destroyed)
        /\ fairminters' = [fairminters EXCEPT ![i] = h]
        /\ issuances' = [issuances EXCEPT ![a] = (IF closing THEN Append(@, r0) ELSE @) \o <<row>>]
        /\ escrow' = escrow /\ fees' = fees
    BY ONLY Mint(source, i, q) DEF Mint, MintCommission, MintHits, Minter, MintSettles, MintFailed,
         MintBurned, MintPayment, MintMoves, MintSpent, AfterMint, MintingRow
  <2>2. MintSpent(source, f, q, destroyed) = IF sets THEN Losing(g, d1) ELSE d1
    BY ONLY DEF MintSpent
  <2> QED BY ONLY <2>1, <2>2
<1>8. /\ row \in Row /\ row.quantity = total /\ row.fee_paid = 0
  BY <1>1, <1>3, <1>5, MintingRowIs
<1>9. r0 \in Row /\ r0.quantity = 0 /\ r0.fee_paid = 0
  BY CloseRowOf
<1>10. IsMintMoved(balances, moved, a, total, paid, burned, e)
  <2> DEFINE b1 == Move(balances, source, XCP, -paid)
             b2 == Move(b1, IF e THEN Unspendable ELSE f.source, XCP, paid - burned)
  <2>1. moved = IF e THEN Move(b2, Unspendable, a, total)
                ELSE Move(Move(b2, source, a, total - com), f.source, a, com)
    BY DEF MintMoves, MintPayment
  <2>2. /\ b1 = Move(balances, source, XCP, -paid)
        /\ b2 = Move(b1, IF e THEN Unspendable ELSE f.source, XCP, paid - burned)
    OBVIOUS
  <2>3. source \in Address
    OBVIOUS
  <2> HIDE DEF f, t, a, total, com, paid, burned, e, moved, b1, b2
  <2> QED BY ONLY <1>2, <1>3, <1>4, <1>5, <1>6, <2>1, <2>2, <2>3, MintMoved
<1>11. /\ g \in Fairminter /\ g.terms = t /\ g.settled = f.settled /\ g.status = f.status
       /\ g.pre_minted = f.pre_minted /\ Minted(g) = Minted(f) + total /\ Paid(g) = Paid(f) + paid
  <2>1. g = WithMint(f, source, total, com, paid)
    BY DEF Minter, WithMint
  <2>2. source \in Address
    OBVIOUS
  <2> HIDE DEF f, t, a, total, com, paid, g
  <2>3. /\ g \in Fairminter /\ g.terms = f.terms /\ g.settled = f.settled /\ g.status = f.status
        /\ g.pre_minted = f.pre_minted /\ Minted(g) = Minted(f) + total /\ Paid(g) = Paid(f) + paid
    <3>1. IsMintSummed(f, g, total, paid)
      BY ONLY <1>3, <1>5, <2>1, <2>2, MintSums
    <3> QED BY <3>1 DEF IsMintSummed
  <2> QED BY <1>4, <2>3
<1>12. MintHolds(f, g, h, total, paid, sets, e)
  <2>1. PICK st : st = IF MintHits(t, q) THEN "closed" ELSE g.status
    OBVIOUS
  <2>2. st \in {"pending", "open", "closed"}
    BY <1>4, <1>11, <2>1
  <2>3. h = [g EXCEPT !.status = st, !.settled = @ \/ sets]
    <3>1. h = [g EXCEPT !.status = IF MintHits(t, q) THEN "closed" ELSE @, !.settled = @ \/ sets]
      BY DEF AfterMint
    <3> HIDE DEF h, g, sets
    <3> QED BY <1>11, <2>1, <3>1 DEF Fairminter
  <2>4. e = Escrows(f.terms) /\ phase = "parsing" /\ f.status = "open"
    BY <1>4
  <2> HIDE DEF f, t, total, paid, sets, e, g, h
  <2> QED BY <1>1, <1>3, <1>4, <1>5, <1>6, <1>11, <2>2, <2>3, <2>4, MintHeld
<1>13. IsMintAdded(issuances, issuances', a, total)
  <2> HIDE DEF row, closing, r0, a, total
  <2>1. closing => r0 \in Row /\ r0.quantity = 0 /\ r0.fee_paid = 0
    BY <1>9
  <2>2. IsMintAdded(issuances, issuances', a, row.quantity)
    BY ONLY <1>2, <1>3, <1>7, <1>8, <2>1, MintAdded
  <2> QED BY <1>8, <2>2
<1>14. fairminters[i] = f /\ i \in DOMAIN fairminters /\ d1 = [destroyed EXCEPT ![XCP] = @ + burned]
  OBVIOUS
<1> HIDE DEF f, t, a, total, com, paid, burned, e, sets, g, h, moved, row, closing, r0, d1
<1>15. /\ XCP \in Token /\ Unspendable \in Holder /\ Asset \subseteq Token /\ XCP \notin Asset
       /\ a \in Token /\ a # XCP
  BY <1>3, ConstantFacts
<1>16. \A s \in Token : IsHeldChange(fairminters, fairminters', i, h, s)
  <2>1. h \in Fairminter
    BY <1>12 DEF MintHolds
  <2> QED BY ONLY <1>2, <1>7, <1>14, <2>1, HeldChange
<1>17. \A s \in Token : balances[Unspendable][s] >= HeldForAll(fairminters, s)
                        /\ balances[Unspendable][s] \in Nat
  BY <1>1, <1>2, <1>15 DEF CoveredOK, NatBalances
<1>18. /\ moved \in NatBalances
       /\ \A s \in Token : MovedAt(moved, s, a, total, burned, paid, e)
  <2>1. moved \in NatBalances
    BY <1>10 DEF IsMintMoved
  <2>2. ASSUME NEW s \in Token
        PROVE  MovedAt(moved, s, a, total, burned, paid, e)
    <3>1. /\ Total(balances, s) \in Int
       /\ Total(moved, s) = Total(balances, s) + (IF s = a THEN total ELSE 0) - (IF s = XCP THEN burned ELSE 0)
       /\ moved[Unspendable][s] = balances[Unspendable][s]
            + (IF e THEN (IF s = a THEN total ELSE 0) + (IF s = XCP THEN paid - burned ELSE 0) ELSE 0)
      BY <1>10 DEF IsMintMoved
    <3>2. moved[Unspendable][s] \in Nat /\ balances[Unspendable][s] \in Nat
      BY <1>15, <1>17, <2>1 DEF NatBalances
    <3>3. CASE e
      BY <1>5, <1>6, <3>1, <3>2, <3>3 DEF MovedAt
    <3>4. CASE ~e
      BY <1>5, <1>6, <3>1, <3>2, <3>4 DEF MovedAt
    <3> QED BY <3>3, <3>4
  <2> QED BY ONLY <2>1, <2>2
<1>19. ASSUME NEW s \in Token, e
       PROVE  /\ HeldIn(f, s) \in Nat /\ HeldIn(g, s) \in Nat
              /\ moved[Unspendable][s] >= HeldIn(g, s)
              /\ moved[Unspendable][s] - HeldIn(g, s) = balances[Unspendable][s] - HeldIn(f, s)
  <2>1. /\ HeldFor(f, s) = HeldIn(f, s) /\ HeldIn(f, s) \in Nat
        /\ HeldIn(g, s) = HeldIn(f, s) + (IF s = a THEN total ELSE 0) + (IF s = XCP THEN paid ELSE 0)
    BY <1>4, <1>12, <1>19 DEF MintHolds
  <2>2. HeldForAll(fairminters, s) >= HeldFor(f, s) /\ HeldForAll(fairminters, s) \in Nat
    BY <1>14, <1>16 DEF IsHeldChange
  <2>3. moved[Unspendable][s] = balances[Unspendable][s]
                  + (IF s = a THEN total ELSE 0) + (IF s = XCP THEN paid ELSE 0)
    BY <1>18, <1>19 DEF MovedAt
  <2> QED BY <1>5, <1>17, <2>1, <2>2, <2>3
<1>20. /\ balances' \in NatBalances
       /\ \A s \in Token :
            /\ sets => /\ balances'[Unspendable][s] = moved[Unspendable][s] - HeldIn(g, s)
                       /\ Total(balances', s) = Total(moved, s) - Lost(g, s)
                       /\ Lost(g, s) \in Nat
            /\ ~sets => balances' = moved
  <2>1. CASE sets
    <3>1. \A s \in Token : moved[Unspendable][s] >= HeldIn(g, s)
      BY <1>6, <1>19, <2>1
    <3>2. balances' = Settled(moved, g)
      BY <1>7, <2>1
    <3>3. balances' \in NatBalances
      BY <1>11, <1>18, <3>1, <3>2, SettledNat
    <3>4. \A s \in Token :
              /\ balances'[Unspendable][s] = moved[Unspendable][s] - HeldIn(g, s)
              /\ Lost(g, s) \in Nat
              /\ Total(balances', s) = Total(moved, s) - Lost(g, s)
      BY <1>11, <1>18, <3>2, NatAreInt, SettledFacts
    <3> QED BY <2>1, <3>3, <3>4
  <2>2. CASE ~sets
    BY <1>7, <1>18, <2>2
  <2> QED BY <2>1, <2>2
<1>21. CoveredOK'
  <2> SUFFICES ASSUME NEW s \in Token
               PROVE  balances'[Unspendable][s] >= HeldForAll(fairminters', s)
    BY CoveredNext
  <2>1. /\ HeldForAll(fairminters, s) \in Nat /\ HeldFor(f, s) \in Nat /\ HeldFor(h, s) \in Nat
        /\ HeldForAll(fairminters', s) = HeldForAll(fairminters, s) - HeldFor(f, s) + HeldFor(h, s)
    BY <1>14, <1>16 DEF IsHeldChange
  <2>2. balances[Unspendable][s] >= HeldForAll(fairminters, s) /\ balances[Unspendable][s] \in Nat
    BY <1>17
  <2>3. CASE ~e
    <3>1. HeldFor(h, s) = HeldFor(f, s)
      BY <1>12, <2>3 DEF MintHolds
    <3>2. balances'[Unspendable][s] = balances[Unspendable][s]
      BY <1>6, <1>18, <1>20, <2>3 DEF MovedAt
    <3> QED BY <2>1, <2>2, <3>1, <3>2
  <2>4. CASE e
    <3>1. HeldFor(f, s) = HeldIn(f, s) /\ HeldFor(h, s) = IF sets THEN 0 ELSE HeldIn(g, s)
      BY <1>12, <2>4 DEF MintHolds
    <3>2. /\ HeldIn(f, s) \in Nat /\ HeldIn(g, s) \in Nat
          /\ moved[Unspendable][s] - HeldIn(g, s) = balances[Unspendable][s] - HeldIn(f, s)
          /\ moved[Unspendable][s] \in Nat
      BY <1>18, <1>19, <2>4 DEF MovedAt
    <3>3. /\ sets => balances'[Unspendable][s] = moved[Unspendable][s] - HeldIn(g, s)
          /\ ~sets => balances'[Unspendable][s] = moved[Unspendable][s]
      BY <1>20
    <3> QED BY <1>6, <2>1, <2>2, <3>1, <3>2, <3>3
  <2> QED BY <2>3, <2>4
<1>22. /\ destroyed' \in [Token -> Nat]
       /\ \A s \in Token : /\ destroyed[s] \in Nat
                           /\ destroyed'[s] = destroyed[s] + (IF s = XCP THEN burned ELSE 0)
                                                + (IF sets THEN Lost(g, s) ELSE 0)
  <2>1. d1 \in [Token -> Nat] /\ \A s \in Token : destroyed[s] \in Nat
                /\ d1[s] = destroyed[s] + (IF s = XCP THEN burned ELSE 0)
    BY <1>2, <1>5, <1>14, <1>15
  <2>2. CASE sets
    <3>1. destroyed' = Losing(g, d1)
      BY <1>7, <2>2
    <3>2. \A s \in Token : Lost(g, s) \in Nat
      BY <1>20, <2>2
    <3>3. destroyed' \in [Token -> Nat] /\ \A s \in Token : destroyed'[s] = d1[s] + Lost(g, s)
      BY <2>1, <3>1, <3>2 DEF Losing
    <3> QED BY <1>5, <2>1, <2>2, <3>2, <3>3
  <2>3. CASE ~sets
    BY <1>5, <1>7, <2>1, <2>3
  <2> QED BY <2>2, <2>3
<1>23. \A s \in Token : /\ Total(balances, s) \in Int
                        /\ Total(balances', s) = Total(balances, s) + (IF s = a THEN total ELSE 0)
                             - (IF s = XCP THEN burned ELSE 0) - (IF sets THEN Lost(g, s) ELSE 0)
  <2> SUFFICES ASSUME NEW s \in Token
               PROVE  /\ Total(balances, s) \in Int
                        /\ Total(balances', s) = Total(balances, s) + (IF s = a THEN total ELSE 0)
                             - (IF s = XCP THEN burned ELSE 0) - (IF sets THEN Lost(g, s) ELSE 0)
    OBVIOUS
  <2>1. /\ Total(balances, s) \in Int
        /\ Total(moved, s) = Total(balances, s) + (IF s = a THEN total ELSE 0) - (IF s = XCP THEN burned ELSE 0)
    BY <1>18 DEF MovedAt
  <2>2. CASE sets
    <3>1. Total(balances', s) = Total(moved, s) - Lost(g, s) /\ Lost(g, s) \in Nat
      BY <1>20, <2>2
    <3> QED BY <1>5, <2>1, <2>2, <3>1
  <2>3. CASE ~sets
    <3>1. Total(balances', s) = Total(moved, s)
      BY <1>20, <2>3
    <3> QED BY <1>5, <2>1, <2>3, <3>1
  <2> QED BY <2>2, <2>3
<1>24. \A s \in Token : (IF sets THEN Lost(g, s) ELSE 0) \in Nat
  BY <1>20
<1>25. CancelsOut(balances, balances', escrow, escrow', issuances, issuances',
                   destroyed, destroyed', fees, fees')
  <2>1. ASSUME NEW c \in Asset
        PROVE  Total(balances', c) - Total(balances, c) + (EscrowTotal(escrow', c) - EscrowTotal(escrow, c)) =
                 RowsSum(issuances'[c], "quantity") - RowsSum(issuances[c], "quantity")
                   - (destroyed'[c] - destroyed[c])
    <3>1. EscrowTotal(escrow, c) \in Int /\ EscrowTotal(escrow', c) = EscrowTotal(escrow, c)
      BY <1>2, <1>7, EscrowType
    <3>2. c \in Token /\ c # XCP
      BY <1>15
    <3>3. PICK l \in Nat : l = IF sets THEN Lost(g, c) ELSE 0
      BY <1>24, <3>2
    <3>4. Total(balances, c) \in Int /\ Total(balances', c) = Total(balances, c) + (IF c = a THEN total ELSE 0) - 0 - l
      BY <1>23, <3>2, <3>3
    <3>5. destroyed[c] \in Nat /\ destroyed'[c] = destroyed[c] + 0 + l
      BY <1>22, <3>2, <3>3
    <3>6. /\ RowsSum(issuances[c], "quantity") \in Nat
          /\ RowsSum(issuances'[c], "quantity") = RowsSum(issuances[c], "quantity") + (IF c = a THEN total ELSE 0)
      BY <1>13 DEF IsMintAdded
    <3> QED BY <1>5, <3>1, <3>4, <3>5, <3>6
  <2>2. Total(balances', XCP) - Total(balances, XCP) =
           0 - (destroyed'[XCP] - destroyed[XCP]) - (FeesOf(issuances') - FeesOf(issuances)) - (fees' - fees)
    <3>1. PICK l \in Nat : l = IF sets THEN Lost(g, XCP) ELSE 0
      BY <1>15, <1>24
    <3>2. Total(balances, XCP) \in Int /\ Total(balances', XCP) = Total(balances, XCP) + 0 - burned - l
      BY <1>15, <1>23, <3>1
    <3>3. destroyed[XCP] \in Nat /\ destroyed'[XCP] = destroyed[XCP] + burned + l
      BY <1>15, <1>22, <3>1
    <3>4. FeesOf(issuances) \in Int /\ FeesOf(issuances') = FeesOf(issuances) /\ fees \in Nat /\ fees' = fees
      BY <1>2, <1>7, <1>13 DEF IsMintAdded
    <3> QED BY <1>5, <3>2, <3>3, <3>4
  <2> QED BY <2>1, <2>2 DEF CancelsOut
<1>26. /\ LedgerType(balances, escrow, issuances, destroyed, fees)
       /\ LedgerType(balances', escrow', issuances', destroyed', fees')
  BY <1>2, <1>7, <1>13, <1>20, <1>22 DEF LedgerType, IsMintAdded
<1>27. ConservedOK'
  BY <1>1, <1>25, <1>26, ConservedStep DEF ConservedOK
<1> QED BY <1>21, <1>26, <1>27 DEF LedgerKept

----------------------------------------------------------------------------
\* The fair minters of an asset

SameIn(fs, gs, b) ==
  OfIn(gs, b) = OfIn(fs, b) /\ LiveIn(gs, b) = LiveIn(fs, b) /\ (LateIn(gs, b) <=> LateIn(fs, b))

\* A new one joins those of its asset,
LEMMA MintersAppend ==
  ASSUME NEW fs, fs \in Seq(Fairminter), NEW f, f \in Fairminter, NEW gs, gs = Append(fs, f)
  PROVE  /\ gs \in Seq(Fairminter)
         /\ \A b : b # f.terms.asset => SameIn(fs, gs, b)
         /\ LiveIn(gs, f.terms.asset) =
              LiveIn(fs, f.terms.asset) \cup (IF f.status = "closed" THEN {} ELSE {Len(fs) + 1})
         /\ LateIn(gs, f.terms.asset) <=> (LateIn(fs, f.terms.asset) \/ f.late)
<1> DEFINE n == Len(fs) + 1
           a == f.terms.asset
<1>1. /\ gs \in Seq(Fairminter) /\ DOMAIN gs = DOMAIN fs \cup {n} /\ n \notin DOMAIN fs
      /\ gs[n] = f /\ \A i \in DOMAIN fs : gs[i] = fs[i]
  OBVIOUS
<1> HIDE DEF n, a
<1>2. ASSUME NEW b
      PROVE  OfIn(gs, b) = OfIn(fs, b) \cup (IF b = a THEN {n} ELSE {})
  BY <1>1 DEF OfIn, a
<1>3. ASSUME NEW b
      PROVE  LiveIn(gs, b) = LiveIn(fs, b) \cup (IF b = a /\ f.status # "closed" THEN {n} ELSE {})
  <2>1. \A i \in OfIn(fs, b) : i \in DOMAIN fs /\ gs[i] = fs[i]
    BY <1>1 DEF OfIn
  <2> QED BY <1>1, <1>2, <2>1 DEF LiveIn
<1>4. ASSUME NEW b
      PROVE  LateIn(gs, b) <=> (LateIn(fs, b) \/ (b = a /\ f.late))
  <2>1. \A i \in OfIn(fs, b) : i \in DOMAIN fs /\ gs[i] = fs[i]
    BY <1>1 DEF OfIn
  <2> QED BY <1>1, <1>2, <2>1 DEF LateIn
<1>5. ASSUME NEW b, b # a
      PROVE  SameIn(fs, gs, b)
  BY <1>2, <1>3, <1>4, <1>5 DEF SameIn
<1> QED BY <1>1, <1>3, <1>4, <1>5 DEF a, n

\* One fair minter was replaced.
IsMinterSet(fs, gs, i, g, a) ==
  /\ gs \in Seq(Fairminter) /\ DOMAIN gs = DOMAIN fs
  /\ gs[i] = g /\ \A j \in DOMAIN fs : j # i => gs[j] = fs[j]
  /\ \A b : b # a => SameIn(fs, gs, b)
  /\ OfIn(gs, a) = OfIn(fs, a)
  /\ g.status = "closed" => LiveIn(gs, a) = LiveIn(fs, a) \ {i}
  /\ g.status # "closed" => LiveIn(gs, a) = LiveIn(fs, a) \cup {i}
  /\ LateIn(gs, a) <=> LateIn(fs, a)

\* and a change of one changes only whether it is live.
LEMMA MintersChange ==
  ASSUME NEW fs, fs \in Seq(Fairminter), NEW i, i \in DOMAIN fs, NEW g, g \in Fairminter,
         g.terms = fs[i].terms, g.late = fs[i].late, NEW gs, gs = [fs EXCEPT ![i] = g],
         NEW a, a = g.terms.asset
  PROVE  IsMinterSet(fs, gs, i, g, a)
<1>1. /\ gs \in Seq(Fairminter) /\ DOMAIN gs = DOMAIN fs
      /\ gs[i] = g /\ \A j \in DOMAIN fs : j # i => gs[j] = fs[j]
  OBVIOUS
<1>2. \A j \in DOMAIN fs : gs[j].terms = fs[j].terms /\ gs[j].late = fs[j].late
  BY <1>1
<1>3. ASSUME NEW b
      PROVE  OfIn(gs, b) = OfIn(fs, b)
  BY <1>1, <1>2 DEF OfIn
<1>4. ASSUME NEW b
      PROVE  LateIn(gs, b) <=> LateIn(fs, b)
  <2>1. \A j \in OfIn(fs, b) : gs[j].late = fs[j].late
    BY <1>2 DEF OfIn
  <2> QED BY <1>3, <2>1 DEF LateIn
<1>5. ASSUME NEW b, b # a
      PROVE  SameIn(fs, gs, b)
  <2>1. i \notin OfIn(fs, b) /\ \A j \in OfIn(fs, b) : j \in DOMAIN fs
    BY <1>5 DEF OfIn
  <2>2. \A j \in OfIn(fs, b) : gs[j] = fs[j]
    BY <1>1, <2>1
  <2>3. LiveIn(gs, b) = LiveIn(fs, b)
    BY <1>3, <2>2 DEF LiveIn
  <2> QED BY <1>3, <1>4, <2>3 DEF SameIn
<1>6. LiveIn(gs, a) = IF g.status = "closed" THEN LiveIn(fs, a) \ {i} ELSE LiveIn(fs, a) \cup {i}
  <2>1. i \in OfIn(fs, a) /\ \A j \in OfIn(fs, a) : j \in DOMAIN fs
    BY DEF OfIn
  <2>2. \A j \in OfIn(fs, a) : j # i => gs[j] = fs[j]
    BY <1>1, <2>1
  <2>3. CASE g.status = "closed"
    BY <1>1, <1>3, <2>1, <2>2, <2>3 DEF LiveIn
  <2>4. CASE g.status # "closed"
    BY <1>1, <1>3, <2>1, <2>2, <2>4 DEF LiveIn
  <2> QED BY <2>3, <2>4
<1> QED BY <1>1, <1>3, <1>4, <1>5, <1>6 DEF IsMinterSet

----------------------------------------------------------------------------
\* What a step must keep besides the ledger

RestKept ==
  TypeOK' /\ RowsOK' /\ MintingOK' /\ UnlockedOK' /\ MintersOK' /\ CapOK'

\* AssetCache
CacheType == [last : [Asset -> Row], issued : [Asset -> Nat], destroyed : [Token -> Nat]]

\* The types
LEMMA TypeNext ==
  ASSUME LedgerKept, cache' \in CacheType, first' \in [Asset -> Address \cup {NoAddress}],
         txs' \in 0..MaxTxs, fairminters' \in Seq(Fairminter),
         block_index' \in FirstBlock..LastBlock, phase' \in {"parsing", "after"},
         misled' \in BOOLEAN, stopped' \in BOOLEAN
  PROVE  TypeOK'
  BY DEF LedgerKept, LedgerType, TypeOK, CacheType, NatBalances

\* The rows, the fair minters and the locks of an asset
AssetKept(b) ==
  /\ RowsAt(issuances'[b], txs', cache'.last[b])
  /\ MintingAt(fairminters', issuances'[b], b)
  /\ ~misled' => UnlockedAt(fairminters', issuances'[b], b)

\* The rows, the fair minters and the locks of all assets, from those of each
LEMMA AssetsKept ==
  ASSUME \A b \in Asset : AssetKept(b)
  PROVE  RowsOK' /\ MintingOK' /\ UnlockedOK'
  BY DEF AssetKept, RowsOK, MintingOK, UnlockedOK

\* are kept where none of them changes.
LEMMA AssetSame ==
  ASSUME IInv, NEW b, b \in Asset, issuances'[b] = issuances[b], txs' \in Nat, txs <= txs',
         issuances[b] # <<>> => cache'.last[b].fair_minting = cache.last[b].fair_minting,
         SameIn(fairminters, fairminters', b), misled => misled'
  PROVE  AssetKept(b)
<1>1. /\ issuances[b] \in Seq(Row) /\ txs \in Nat /\ misled \in BOOLEAN
      /\ RowsAt(issuances[b], txs, cache.last[b])
      /\ MintingAt(fairminters, issuances[b], b)
      /\ ~misled => UnlockedAt(fairminters, issuances[b], b)
  BY TypeFields DEF IInv, RowsOK, MintingOK, UnlockedOK
<1>2. RowsAt(issuances'[b], txs', cache'.last[b])
  <2>1. PICK rows, c, d, m : rows = issuances[b] /\ c = cache.last[b] /\ d = cache'.last[b] /\ m = txs'
    OBVIOUS
  <2>2. RowsAt(rows, m, d)
    BY <1>1, <2>1, RowsKept
  <2> QED BY <2>1, <2>2
<1>3. MintingAt(fairminters', issuances'[b], b)
  BY <1>1 DEF MintingAt, SameIn
<1>4. ~misled' => UnlockedAt(fairminters', issuances'[b], b)
  BY <1>1 DEF UnlockedAt, SameIn
<1> QED BY <1>2, <1>3, <1>4 DEF AssetKept

\* No change of the fair minters
LEMMA MintersSame ==
  ASSUME fairminters' = fairminters
  PROVE  \A b : SameIn(fairminters, fairminters', b)
  BY DEF SameIn

\* The fair minters of the hard caps
LEMMA CapField ==
  ASSUME CapAt(fairminters, issuances, destroyed), NEW i \in DOMAIN fairminters,
         fairminters[i].terms.hard_cap > 0, fairminters[i].status # "closed"
  PROVE  RowsSum(issuances[fairminters[i].terms.asset], "quantity")
           - destroyed[fairminters[i].terms.asset] < fairminters[i].terms.hard_cap
  BY DEF CapAt

\* What makes no more of an asset keeps its cap.
LEMMA CapSame ==
  ASSUME IInv, NEW a, a \in Asset, NEW n, n \in Nat, issuances' \in [Asset -> Seq(Row)],
         destroyed' \in [Token -> Nat],
         RowsSum(issuances'[a], "quantity") <= RowsSum(issuances[a], "quantity"),
         destroyed'[a] >= destroyed[a],
         RowsSum(issuances[a], "quantity") - destroyed[a] < n
  PROVE  RowsSum(issuances'[a], "quantity") - destroyed'[a] < n
<1>1. /\ RowsSum(issuances'[a], "quantity") \in Nat /\ RowsSum(issuances[a], "quantity") \in Nat
  BY TableSums, TypeFields DEF IInv
<1>2. a \in Token /\ destroyed[a] \in Nat /\ destroyed'[a] \in Nat
  BY TypeFields, ConstantFacts DEF IInv
<1> QED BY <1>1, <1>2

\* The cache and the tables agree on the supply of an asset as long as nothing was misled.
LEMMA SupplyOf ==
  ASSUME cache = CacheOfTables, NEW a \in Asset
  PROVE  Supply(a) = RowsSum(issuances[a], "quantity") - destroyed[a]
<1>1. cache.issued[a] = Issued(a) /\ cache.destroyed = destroyed
  BY DEF CacheOfTables
<1> QED BY <1>1, IssuedIsRowsSum DEF Supply

\* The invariant is the ledger and the rest.
LEMMA NextInv ==
  ASSUME LedgerKept, RestKept
  PROVE  IInv'
  BY DEF LedgerKept, RestKept, IInv

\* The parts of the state that messages read and write in one place
LEMMA CacheFields ==
  ASSUME TypeOK
  PROVE  /\ cache \in CacheType /\ cache.last \in [Asset -> Row]
         /\ cache.issued \in [Asset -> Nat] /\ cache.destroyed \in [Token -> Nat]
  BY TypeFields DEF CacheType

\* A row enters the cache.
IsIssued(c, d, a, r) ==
  /\ d \in CacheType /\ d.last[a] = r
  /\ \A b \in Asset : b # a => d.last[b] = c.last[b]
\* AssetCache.last[a] is the row that was inserted last; the others stay.
LEMMA AddIssuanceIs ==
  ASSUME NEW c, c \in CacheType, NEW a, a \in Asset, NEW r, r \in Row,
         NEW d, d = AddIssuance(c, a, r)
  PROVE  IsIssued(c, d, a, r)
<1>1. c.last \in [Asset -> Row] /\ c.issued \in [Asset -> Nat] /\ c.destroyed \in [Token -> Nat]
  BY DEF CacheType
<1>2. PICK l : l = [c.last EXCEPT ![a] = r]
  OBVIOUS
<1>3. PICK n : n = [c.issued EXCEPT ![a] = @ + r.quantity]
  OBVIOUS
<1>4. l \in [Asset -> Row] /\ l[a] = r /\ \A b \in Asset : b # a => l[b] = c.last[b]
  BY <1>1, <1>2
<1>5. n \in [Asset -> Nat] /\ n[a] = c.issued[a] + r.quantity
  BY <1>1, <1>3, RowFields
<1>6. AddIssuance(c, a, r) = [c EXCEPT !.last = l, !.issued = n]
  BY <1>2, <1>3 DEF AddIssuance, CacheType
<1>8. d = [c EXCEPT !.last = l, !.issued = n]
  BY <1>6
<1>9. d \in CacheType /\ d.last = l
  BY ONLY <1>4, <1>5, <1>8, c \in CacheType DEF CacheType
<1> QED BY <1>4, <1>9 DEF IsIssued

\* The fair minters of a step that changes neither them nor the time
LEMMA MintersKept ==
  ASSUME IInv, UNCHANGED <<fairminters, block_index, phase>>
  PROVE  MintersOK'
  BY DEF IInv, MintersOK

----------------------------------------------------------------------------
\* Steps that add no row

\* A step that adds no row and changes no fair minter keeps the invariant.
LEMMA NoRowKeeps ==
  ASSUME IInv, LedgerKept, issuances' = issuances, fairminters' = fairminters,
         txs' \in 0..MaxTxs, txs <= txs', cache' \in CacheType,
         first' \in [Asset -> Address \cup {NoAddress}],
         \A a \in Asset : issuances[a] # <<>> => cache'.last[a].fair_minting = cache.last[a].fair_minting,
         \A a \in Asset : destroyed'[a] >= destroyed[a],
         misled' \in BOOLEAN, misled => misled', stopped' \in BOOLEAN, ~misled' => stopped' = FALSE,
         block_index' \in FirstBlock..LastBlock, phase' \in {"parsing", "after"}, MintersOK'
  PROVE  IInv'
<1>1. TypeOK /\ CapOK
  BY DEF IInv
<1>2. /\ txs \in Nat /\ txs' \in Nat /\ fairminters \in Seq(Fairminter) /\ misled \in BOOLEAN
      /\ issuances \in [Asset -> Seq(Row)]
  BY <1>1, TypeFields, ConstantFacts
<1>3. TypeOK'
  BY <1>2, TypeNext
<1>4. \A b \in Asset : AssetKept(b)
  <2>1. \A b : SameIn(fairminters, fairminters', b)
    BY MintersSame
  <2> SUFFICES ASSUME NEW b \in Asset PROVE AssetKept(b)
    OBVIOUS
  <2>2. issuances'[b] = issuances[b]
    OBVIOUS
  <2> QED BY <1>2, <2>1, <2>2, AssetSame
<1>5. CapOK'
  <2> SUFFICES ASSUME ~misled', NEW i \in DOMAIN fairminters,
                      fairminters[i].terms.hard_cap > 0, fairminters[i].status # "closed"
               PROVE  RowsSum(issuances'[fairminters[i].terms.asset], "quantity")
                        - destroyed'[fairminters[i].terms.asset] < fairminters[i].terms.hard_cap
    BY DEF CapOK, CapAt
  <2> DEFINE a == fairminters[i].terms.asset
             n == fairminters[i].terms.hard_cap
  <2>1. RowsSum(issuances[a], "quantity") - destroyed[a] < n
    BY <1>1, <1>2, CapField DEF CapOK
  <2>2. a \in Asset /\ n \in Nat
    BY <1>2, MinterFields, TermFields
  <2>3. RowsSum(issuances[a], "quantity") \in Nat
    BY <1>2, <2>2, TableSums
  <2>4. /\ issuances' \in [Asset -> Seq(Row)] /\ destroyed' \in [Token -> Nat]
        /\ RowsSum(issuances'[a], "quantity") <= RowsSum(issuances[a], "quantity")
        /\ destroyed'[a] >= destroyed[a]
    BY <1>2, <2>2, <2>3 DEF LedgerKept, LedgerType
  <2> HIDE DEF a, n
  <2>5. RowsSum(issuances'[a], "quantity") - destroyed'[a] < n
    BY <2>1, <2>2, <2>4, CapSame
  <2> QED BY <2>5 DEF a, n
<1> QED BY <1>3, <1>4, <1>5, AssetsKept, NextInv DEF RestKept

----------------------------------------------------------------------------
\* Issuances: the asset has no live fair minter.

\* No issuance of an asset that is being minted
LEMMA NoMinting ==
  ASSUME IInv, NEW a, a \in Asset, issuances[a] # <<>> => ~LastOf(issuances[a]).fair_minting
  PROVE  LiveIn(fairminters, a) = {} /\ ~LateIn(fairminters, a)
<1>1. MintingAt(fairminters, issuances[a], a)
  BY DEF IInv, MintingOK
<1>2. CASE issuances[a] # <<>>
  BY <1>1, <1>2 DEF MintingAt
<1>3. CASE issuances[a] = <<>>
  <2>1. OfIn(fairminters, a) = {}
    BY <1>1, <1>3 DEF MintingAt
  <2> QED BY <2>1 DEF LiveIn, LateIn
<1> QED BY <1>2, <1>3

\* A row of a new transaction keeps the invariant where no minting is under way.
LEMMA RowKeeps ==
  ASSUME IInv, LedgerKept, NEW a, a \in Asset, NEW r, r \in Row, r.tx_index = txs + 1,
         r.fair_minting = FALSE, issuances[a] # <<>> => ~LastOf(issuances[a]).fair_minting,
         issuances' = [issuances EXCEPT ![a] = Append(@, r)], fairminters' = fairminters,
         txs' = txs + 1, txs' \in 0..MaxTxs, cache' \in CacheType, cache'.last[a] = r,
         \A b \in Asset : b # a => cache'.last[b] = cache.last[b],
         first' \in [Asset -> Address \cup {NoAddress}],
         \A b \in Asset : destroyed'[b] >= destroyed[b],
         misled' \in BOOLEAN, misled => misled', UNCHANGED <<block_index, phase, stopped>>
  PROVE  IInv'
<1>1. TypeOK /\ CapOK /\ RowsOK
  BY DEF IInv
<1>2. /\ txs \in Nat /\ txs' \in Nat /\ fairminters \in Seq(Fairminter) /\ misled \in BOOLEAN
      /\ issuances \in [Asset -> Seq(Row)] /\ stopped \in BOOLEAN
      /\ block_index \in FirstBlock..LastBlock /\ phase \in {"parsing", "after"}
  BY <1>1, TypeFields, ConstantFacts
<1>3. TypeOK'
  BY <1>2, TypeNext
<1>4. LiveIn(fairminters, a) = {} /\ ~LateIn(fairminters, a)
  BY NoMinting
<1>5. IsRowAdded(issuances, issuances', a, r)
  BY ONLY <1>2, a \in Asset, r \in Row, issuances' = [issuances EXCEPT ![a] = Append(@, r)], RowAdded
<1>6. \A b \in Asset : AssetKept(b)
  <2>1. \A b : SameIn(fairminters, fairminters', b)
    BY MintersSame
  <2>2. ASSUME NEW b \in Asset, b # a
        PROVE  AssetKept(b)
    <3>1. issuances'[b] = issuances[b]
      BY <1>5, <2>2 DEF IsRowAdded
    <3>2. txs <= txs' /\ cache'.last[b].fair_minting = cache.last[b].fair_minting
      BY <1>2, <2>2
    <3> QED BY <1>2, <2>1, <3>1, <3>2, AssetSame
  <2>3. AssetKept(a)
    <3>1. issuances'[a] = Append(issuances[a], r)
      BY <1>5 DEF IsRowAdded
    <3>2. RowsAt(issuances'[a], txs', cache'.last[a])
      <4>1. PICK rows, c, n : rows = issuances[a] /\ c = cache.last[a] /\ n = txs
        OBVIOUS
      <4>2. rows \in Seq(Row) /\ n \in Nat /\ RowsAt(rows, n, c) /\ r.tx_index = n + 1
        BY <1>1, <1>2, <4>1 DEF RowsOK
      <4>3. RowsAt(Append(rows, r), n + 1, r)
        BY <4>2, RowsLater
      <4> QED BY <3>1, <4>1, <4>3
    <3>3. Append(issuances[a], r) # <<>> /\ LastOf(Append(issuances[a], r)) = r
      BY <1>2, AppendLast
    <3>4. MintingAt(fairminters', issuances'[a], a)
      BY <1>4, <3>1, <3>3 DEF MintingAt
    <3>5. UnlockedAt(fairminters', issuances'[a], a)
      BY <1>4 DEF UnlockedAt
    <3> QED BY <3>2, <3>4, <3>5 DEF AssetKept
  <2> QED BY <2>2, <2>3
<1>7. CapOK'
  <2>1. ~misled' => stopped' = FALSE
    BY <1>1, <1>2 DEF CapOK
  <2> SUFFICES ASSUME ~misled', NEW i \in DOMAIN fairminters,
                      fairminters[i].terms.hard_cap > 0, fairminters[i].status # "closed"
               PROVE  RowsSum(issuances'[fairminters[i].terms.asset], "quantity")
                        - destroyed'[fairminters[i].terms.asset] < fairminters[i].terms.hard_cap
    BY <2>1 DEF CapOK, CapAt
  <2> DEFINE b == fairminters[i].terms.asset
             n == fairminters[i].terms.hard_cap
  <2>2. RowsSum(issuances[b], "quantity") - destroyed[b] < n
    BY <1>1, <1>2, CapField DEF CapOK
  <2>3. b \in Asset /\ n \in Nat
    BY <1>2, MinterFields, TermFields
  <2>4. b # a
    BY <1>4 DEF LiveIn, OfIn
  <2>5. /\ RowsSum(issuances[b], "quantity") \in Nat /\ issuances'[b] = issuances[b]
        /\ issuances' \in [Asset -> Seq(Row)]
    BY <1>5, <2>3, <2>4 DEF IsRowAdded
  <2>6. /\ destroyed' \in [Token -> Nat]
        /\ RowsSum(issuances'[b], "quantity") <= RowsSum(issuances[b], "quantity")
        /\ destroyed'[b] >= destroyed[b]
    BY <1>2, <2>3, <2>5 DEF LedgerKept, LedgerType
  <2> HIDE DEF b, n
  <2>7. RowsSum(issuances'[b], "quantity") - destroyed'[b] < n
    BY <2>2, <2>3, <2>5, <2>6, CapSame
  <2> QED BY <2>7 DEF b, n
<1> QED BY <1>3, <1>6, <1>7, AssetsKept, MintersKept, NextInv DEF RestKept

\* The issuer of the first row
LEMMA RecordedIs ==
  ASSUME TypeOK, NEW a \in Asset, NEW r \in Row, Recorded(a, r)
  PROVE  first' \in [Asset -> Address \cup {NoAddress}]
<1>1. first \in [Asset -> Address \cup {NoAddress}] /\ r.issuer \in Address \cup {NoAddress}
  BY TypeFields, RowFields
<1> QED BY <1>1 DEF Recorded

----------------------------------------------------------------------------
\* A new fair minter

\* Its message leaves it in a state of its life.
LEMMA NewMinterAt ==
  ASSUME TypeOK, NEW source \in Address, NEW t \in Terms, WellFormed(t), phase = "parsing"
  PROVE  MinterAt(NewMinter(source, t), block_index, phase)
<1> DEFINE f == NewMinter(source, t)
<1>1. /\ t \in TermRecords /\ t.minted_asset_commission < CommissionUnit
      /\ t.start_block \in Nat /\ t.end_block \in Nat /\ t.soft_cap \in Nat
      /\ t.soft_cap_deadline_block \in Nat /\ block_index \in Nat
  BY FairmintersAssumption, TermFields, TypeFields
<1>2. /\ f.terms = t /\ f.settled = FALSE /\ f.status = StatusAt(t) /\ f.pre_minted = PreMinted(t)
      /\ f.late = (StatusAt(t) = "closed")
  BY DEF NewMinter
<1>3. PICK st : st = StatusAt(t)
  OBVIOUS
<1>4. /\ st = "closed" <=> t.end_block > 0 /\ block_index > t.end_block
      /\ st = "pending" => t.start_block > block_index
  BY <1>1, <1>3 DEF StatusAt
<1>5. PreMinted(t) => st = "open" /\ t.soft_cap = 0
  BY <1>3 DEF PreMinted
<1>6. t.soft_cap > 0 => /\ t.soft_cap_deadline_block > t.start_block
                        /\ t.soft_cap_deadline_block > block_index
                        /\ t.end_block > 0 => t.soft_cap_deadline_block < t.end_block
  BY DEF WellFormed
<1> HIDE DEF f
<1>7. /\ f.late => f.status = "closed"
      /\ f.status = st
      /\ f.pre_minted => st = "open" /\ t.soft_cap = 0
  BY <1>2, <1>3, <1>5
<1>8. MinterAt(f, block_index, phase)
  BY <1>1, <1>2, <1>4, <1>6, <1>7 DEF MinterAt
<1> QED BY <1>8 DEF f

\* A fair minter is accepted only for an asset with no live one and no lock, below its
\* hard cap.
LEMMA FairminterInv ==
  ASSUME IInv, phase = "parsing", NEW source \in Address, NEW t \in Terms,
         ParseFairminter(source, t), txs' = txs + 1, txs < MaxTxs
  PROVE  IInv'
<1> DEFINE a == t.asset
           r == OpeningRow(source, t)
           f == NewMinter(source, t)
           n == Len(fairminters) + 1
<1>1. TypeOK /\ CapOK /\ RowsOK /\ MintingOK /\ MintersOK /\ UnlockedOK
  BY DEF IInv
<1>2. /\ txs \in Nat /\ txs' \in Nat /\ fairminters \in Seq(Fairminter) /\ misled \in BOOLEAN
      /\ issuances \in [Asset -> Seq(Row)] /\ stopped \in BOOLEAN
      /\ block_index \in FirstBlock..LastBlock /\ phase \in {"parsing", "after"}
      /\ txs' \in 0..MaxTxs /\ destroyed \in [Token -> Nat]
  <2>1. txs \in Nat /\ MaxTxs \in Nat
    BY <1>1, TypeFields, ConstantFacts
  <2> QED BY <1>1, <2>1, TypeFields
<1>3. LedgerKept
  BY FairminterKeeps
<1>4. /\ t \in TermRecords /\ a \in Asset /\ r \in Row /\ t.hard_cap \in Nat /\ t.premint_quantity \in Nat
  BY <1>1, FairmintersAssumption, TermFields, RowTypes
<1>5. /\ r.tx_index = txs + 1 /\ r.fair_minting = TRUE /\ r.quantity = t.premint_quantity
      /\ r.locked = FALSE
  BY DEF OpeningRow, NoRow
<1>6. /\ fairminters' = Append(fairminters, f)
      /\ issuances' = [issuances EXCEPT ![a] = Append(@, r)]
      /\ cache' = AddIssuance(cache, a, r)
      /\ Recorded(a, r)
      /\ misled' = (misled \/ (Exists(a) /\ cache # CacheOfTables))
      /\ UNCHANGED <<escrow, destroyed, fees, block_index, phase, stopped>>
      /\ WellFormed(t)
      /\ IF Exists(a) THEN MayMintMore(source, t) ELSE MayMintNew(source, t)
  BY DEF ParseFairminter, NewMinter
<1>7. /\ f \in Fairminter /\ f.terms = t /\ f.late = (f.status = "closed")
      /\ MinterAt(f, block_index, phase)
  BY <1>1, <1>6, NewMinterHolds, NewMinterAt DEF NewMinter
<1>8. a = t.asset
  OBVIOUS
<1> HIDE DEF a, r, f
<1>9. /\ cache' \in CacheType /\ cache'.last[a] = r
      /\ \A b \in Asset : b # a => cache'.last[b] = cache.last[b]
  <2>1. IsIssued(cache, cache', a, r)
    BY <1>1, <1>4, <1>6, CacheFields, AddIssuanceIs
  <2> QED BY <2>1 DEF IsIssued
<1>10. first' \in [Asset -> Address \cup {NoAddress}]
  BY <1>1, <1>4, <1>6, RecordedIs
<1>11. /\ fairminters' \in Seq(Fairminter)
       /\ \A b : b # a => SameIn(fairminters, fairminters', b)
       /\ LiveIn(fairminters', a) =
              LiveIn(fairminters, a) \cup (IF f.status = "closed" THEN {} ELSE {n})
       /\ LateIn(fairminters', a) <=> (LateIn(fairminters, a) \/ f.late)
  BY <1>2, <1>6, <1>7, <1>8, MintersAppend
<1>12. misled' \in BOOLEAN /\ (misled => misled')
  BY <1>2, <1>6
<1>13. TypeOK'
  BY <1>2, <1>3, <1>6, <1>9, <1>10, <1>11, <1>12, TypeNext
<1>14. IsRowAdded(issuances, issuances', a, r)
  BY ONLY <1>2, <1>4, <1>6, RowAdded
<1>15. issuances[a] # <<>> => ~LastOf(issuances[a]).fair_minting
  <2>1. issuances[a] # <<>> /\ LastOf(issuances[a]).fair_minting => NewestOf(issuances[a]).fair_minting
    BY <1>1, <1>4 DEF RowsOK, RowsAt
  <2>2. Exists(a) => ~NewestOf(issuances[a]).fair_minting
    BY <1>6, <1>8 DEF MayMintMore, Newest, NewestOf
  <2> QED BY <2>1, <2>2 DEF Exists
<1>16. LiveIn(fairminters, a) = {} /\ ~LateIn(fairminters, a)
  BY <1>4, <1>15, NoMinting
<1>17. \A b \in Asset : AssetKept(b)
  <2>1. ASSUME NEW b \in Asset, b # a
        PROVE  AssetKept(b)
    <3>1. issuances'[b] = issuances[b]
      BY <1>14, <2>1 DEF IsRowAdded
    <3>2. txs <= txs' /\ cache'.last[b].fair_minting = cache.last[b].fair_minting
      BY <1>2, <1>9, <2>1
    <3>3. SameIn(fairminters, fairminters', b)
      BY <1>11, <2>1
    <3>4. misled => misled'
      BY <1>12
    <3> QED BY <1>2, <3>1, <3>2, <3>3, <3>4, AssetSame
  <2>2. AssetKept(a)
    <3>1. issuances'[a] = Append(issuances[a], r)
      BY <1>14 DEF IsRowAdded
    <3>2. RowsAt(issuances'[a], txs', cache'.last[a])
      <4>1. PICK rows, c, m : rows = issuances[a] /\ c = cache.last[a] /\ m = txs
        OBVIOUS
      <4>2. rows \in Seq(Row) /\ m \in Nat /\ RowsAt(rows, m, c) /\ r.tx_index = m + 1
        BY <1>1, <1>2, <1>4, <1>5, <4>1 DEF RowsOK
      <4>3. RowsAt(Append(rows, r), m + 1, r)
        BY <1>4, <4>2, RowsLater
      <4> QED BY <1>9, <3>1, <4>1, <4>3
    <3>3. /\ Append(issuances[a], r) # <<>> /\ LastOf(Append(issuances[a], r)) = r
          /\ \A i \in DOMAIN Append(issuances[a], r) :
               (i \in DOMAIN issuances[a] /\ Append(issuances[a], r)[i] = issuances[a][i])
               \/ Append(issuances[a], r)[i] = r
      BY <1>2, <1>4, AppendLast
    <3>4. MintingAt(fairminters', issuances'[a], a)
      BY <1>5, <1>7, <1>11, <1>16, <3>1, <3>3 DEF MintingAt
    <3>5. UnlockedAt(fairminters', issuances'[a], a)
      <4>1. \A i \in DOMAIN issuances[a] : ~issuances[a][i].locked
        <5>1. CASE Exists(a)
          BY <1>6, <1>8, <5>1 DEF MayMintMore, Locked
        <5>2. CASE ~Exists(a)
          BY <5>2, EmptySeq DEF Exists
        <5> QED BY <5>1, <5>2
      <4> QED BY <1>5, <3>1, <3>3, <4>1 DEF UnlockedAt
    <3> QED BY <3>2, <3>4, <3>5 DEF AssetKept
  <2> QED BY <2>1, <2>2
<1>18. MintersOK'
  <2> SUFFICES ASSUME NEW i \in DOMAIN fairminters'
               PROVE  MinterAt(fairminters'[i], block_index', phase')
    BY DEF MintersOK
  <2>1. block_index' = block_index /\ phase' = phase
    BY <1>6
  <2>2. (i \in DOMAIN fairminters /\ fairminters'[i] = fairminters[i]) \/ fairminters'[i] = f
    BY <1>2, <1>6, <1>7
  <2> QED BY <1>1, <1>7, <2>1, <2>2 DEF MintersOK
<1>19. CapOK'
  <2>1. ~misled' => stopped' = FALSE
    BY <1>1, <1>2, <1>6, <1>12 DEF CapOK
  <2> SUFFICES ASSUME ~misled', NEW i \in DOMAIN fairminters',
                      fairminters'[i].terms.hard_cap > 0, fairminters'[i].status # "closed"
               PROVE  RowsSum(issuances'[fairminters'[i].terms.asset], "quantity")
                        - destroyed'[fairminters'[i].terms.asset] < fairminters'[i].terms.hard_cap
    BY <2>1 DEF CapOK, CapAt
  <2>2. (i \in DOMAIN fairminters /\ fairminters'[i] = fairminters[i]) \/ fairminters'[i] = f
    BY <1>2, <1>6, <1>7
  <2>3. CASE i \in DOMAIN fairminters /\ fairminters'[i] = fairminters[i]
    <3> DEFINE b == fairminters[i].terms.asset
               m == fairminters[i].terms.hard_cap
    <3>5. CapAt(fairminters, issuances, destroyed)
      BY <1>1, <1>2, <1>12 DEF CapOK
    <3>6. i \in DOMAIN fairminters /\ m > 0 /\ fairminters[i].status # "closed"
      BY <2>3
    <3>1. RowsSum(issuances[b], "quantity") - destroyed[b] < m
      BY <3>5, <3>6, CapField
    <3>2. b # a
      BY <1>16, <2>3 DEF LiveIn, OfIn
    <3>3. b \in Asset
      BY <1>2, <2>3, MinterFields, TermFields
    <3>4. issuances'[b] = issuances[b] /\ destroyed' = destroyed
      BY <1>6, <1>14, <3>2, <3>3 DEF IsRowAdded
    <3> QED BY <2>3, <3>1, <3>4
  <2>4. CASE fairminters'[i] = f
    <3>1. t.hard_cap > 0 /\ fairminters'[i].terms.hard_cap = t.hard_cap
          /\ fairminters'[i].terms.asset = a
      BY <1>7, <1>8, <2>4
    <3>2. /\ RowsSum(issuances[a], "quantity") \in Nat
          /\ RowsSum(issuances'[a], "quantity") = RowsSum(issuances[a], "quantity") + t.premint_quantity
      BY <1>4, <1>5, <1>14 DEF IsRowAdded
    <3>3. destroyed[a] \in Nat /\ destroyed'[a] = destroyed[a]
      BY <1>2, <1>4, <1>6, ConstantFacts
    <3>4. RowsSum(issuances[a], "quantity") - destroyed[a] + t.premint_quantity < t.hard_cap
      <4>1. CASE Exists(a)
        <5>1. cache = CacheOfTables
          BY <1>6, <4>1
        <5>2. Supply(a) = RowsSum(issuances[a], "quantity") - destroyed[a]
          BY <1>4, <5>1, SupplyOf
        <5>3. Supply(a) + t.premint_quantity < t.hard_cap
          BY <1>6, <1>8, <3>1, <4>1 DEF MayMintMore
        <5> QED BY <5>2, <5>3
      <4>2. CASE ~Exists(a)
        <5>1. RowsSum(issuances[a], "quantity") = 0
          <6>1. DOMAIN issuances[a] = {}
            BY <4>2, EmptySeq DEF Exists
          <6>2. RowsSum(issuances[a], "quantity") =
                  SumFunctionOnSet([i_1 \in DOMAIN issuances[a] |-> issuances[a][i_1]["quantity"]], {})
            BY <6>1 DEF RowsSum
          <6> QED BY <6>2, SumEmpty
        <5>2. t.premint_quantity < t.hard_cap
          BY <1>4, <1>6, <3>1, <4>2 DEF MayMintNew
        <5> QED BY <1>4, <3>3, <5>1, <5>2
      <4> QED BY <4>1, <4>2
    <3> QED BY <1>4, <3>1, <3>2, <3>3, <3>4
  <2> QED BY <2>2, <2>3, <2>4
<1> QED BY <1>3, <1>13, <1>17, <1>18, <1>19, AssetsKept, NextInv DEF RestKept

\* One fair minter changes, in a state of its life.
LEMMA MintersNext ==
  ASSUME IInv, NEW i \in DOMAIN fairminters, NEW g, MinterAt(g, block_index, phase),
         fairminters' = [fairminters EXCEPT ![i] = g], UNCHANGED <<block_index, phase>>
  PROVE  MintersOK'
<1>1. MintersOK /\ fairminters \in Seq(Fairminter)
  BY TypeFields DEF IInv
<1>2. \A j \in DOMAIN fairminters' : (j \in DOMAIN fairminters /\ fairminters'[j] = fairminters[j])
                                     \/ fairminters'[j] = g
  BY <1>1
<1> QED BY <1>1, <1>2 DEF MintersOK

\* The caps, when one fair minter changes and no more is made of any asset
LEMMA CapNext ==
  ASSUME IInv, LedgerKept, NEW i \in DOMAIN fairminters, NEW g, g.terms = fairminters[i].terms,
         fairminters[i].status # "closed",
         fairminters' = [fairminters EXCEPT ![i] = g],
         \A a \in Asset : RowsSum(issuances'[a], "quantity") = RowsSum(issuances[a], "quantity"),
         \A a \in Asset : destroyed'[a] >= destroyed[a],
         UNCHANGED <<misled, stopped>>
  PROVE  CapOK'
<1>1. /\ TypeOK /\ CapOK /\ fairminters \in Seq(Fairminter) /\ misled \in BOOLEAN
      /\ issuances \in [Asset -> Seq(Row)]
  BY TypeFields DEF IInv
<1> SUFFICES ASSUME ~misled', NEW j \in DOMAIN fairminters',
                    fairminters'[j].terms.hard_cap > 0, fairminters'[j].status # "closed"
             PROVE  RowsSum(issuances'[fairminters'[j].terms.asset], "quantity")
                        - destroyed'[fairminters'[j].terms.asset] < fairminters'[j].terms.hard_cap
  BY <1>1 DEF CapOK, CapAt
<1>2. j \in DOMAIN fairminters /\ fairminters'[j].terms = fairminters[j].terms
      /\ fairminters[j].status # "closed"
  BY <1>1
<1> DEFINE b == fairminters[j].terms.asset
           n == fairminters[j].terms.hard_cap
<1>3. CapAt(fairminters, issuances, destroyed) /\ n > 0
  BY <1>1, <1>2 DEF CapOK
<1>4. RowsSum(issuances[b], "quantity") - destroyed[b] < n
  BY <1>2, <1>3, CapField
<1>5. b \in Asset /\ n \in Nat
  BY <1>1, <1>2, MinterFields, TermFields
<1>6. RowsSum(issuances[b], "quantity") \in Nat
  BY <1>1, <1>5, TableSums
<1>7. /\ issuances' \in [Asset -> Seq(Row)] /\ destroyed' \in [Token -> Nat]
      /\ RowsSum(issuances'[b], "quantity") <= RowsSum(issuances[b], "quantity")
      /\ destroyed'[b] >= destroyed[b]
  BY <1>5, <1>6 DEF LedgerKept, LedgerType
<1>8. b = fairminters'[j].terms.asset /\ n = fairminters'[j].terms.hard_cap
  BY <1>2
<1> HIDE DEF b, n
<1>9. RowsSum(issuances'[b], "quantity") - destroyed'[b] < n
  BY <1>4, <1>5, <1>7, CapSame
<1> QED BY <1>8, <1>9

\* A live fair minter that stays live
LEMMA StaysLive ==
  ASSUME IInv, LedgerKept, NEW i \in DOMAIN fairminters, NEW g, g \in Fairminter,
         g.terms = fairminters[i].terms, g.late = fairminters[i].late, g.status # "closed",
         fairminters[i].status # "closed", MinterAt(g, block_index, phase),
         fairminters' = [fairminters EXCEPT ![i] = g],
         issuances' = issuances, cache' \in CacheType, cache'.last = cache.last,
         \A a \in Asset : destroyed'[a] >= destroyed[a],
         UNCHANGED <<txs, first, misled, stopped, block_index, phase>>
  PROVE  IInv'
<1>1. /\ TypeOK /\ fairminters \in Seq(Fairminter) /\ misled \in BOOLEAN /\ stopped \in BOOLEAN
      /\ issuances \in [Asset -> Seq(Row)] /\ txs \in Nat /\ txs \in 0..MaxTxs
      /\ block_index \in FirstBlock..LastBlock /\ phase \in {"parsing", "after"}
      /\ first \in [Asset -> Address \cup {NoAddress}]
  BY TypeFields DEF IInv, TypeOK
<1>2. /\ fairminters' \in Seq(Fairminter)
      /\ \A b : b # g.terms.asset => SameIn(fairminters, fairminters', b)
      /\ OfIn(fairminters', g.terms.asset) = OfIn(fairminters, g.terms.asset)
      /\ LiveIn(fairminters', g.terms.asset) = LiveIn(fairminters, g.terms.asset) \cup {i}
      /\ LateIn(fairminters', g.terms.asset) <=> LateIn(fairminters, g.terms.asset)
  <2>1. IsMinterSet(fairminters, fairminters', i, g, g.terms.asset)
    BY <1>1, MintersChange
  <2> QED BY <2>1 DEF IsMinterSet
<1>3. i \in LiveIn(fairminters, g.terms.asset)
  BY DEF LiveIn, OfIn
<1>4. \A b : SameIn(fairminters, fairminters', b)
  BY <1>2, <1>3 DEF SameIn
<1>5. TypeOK'
  BY <1>1, <1>2, TypeNext
<1>6. \A b \in Asset : AssetKept(b)
  <2> SUFFICES ASSUME NEW b \in Asset PROVE AssetKept(b)
    OBVIOUS
  <2>1. issuances'[b] = issuances[b] /\ txs' \in Nat /\ txs <= txs'
        /\ cache'.last[b].fair_minting = cache.last[b].fair_minting
    BY <1>1
  <2>2. misled => misled'
    OBVIOUS
  <2> QED BY <1>4, <2>1, <2>2, AssetSame
<1>7. MintersOK'
  BY MintersNext
<1>8. CapOK'
  <2>1. \A a \in Asset : RowsSum(issuances'[a], "quantity") = RowsSum(issuances[a], "quantity")
    OBVIOUS
  <2> QED BY <2>1, CapNext
<1> QED BY <1>5, <1>6, <1>7, <1>8, AssetsKept, NextInv DEF RestKept

\* A live fair minter that closes, with the row that ends the minting
LEMMA Closes ==
  ASSUME IInv, LedgerKept, NEW i \in DOMAIN fairminters, NEW g, g \in Fairminter,
         g.terms = fairminters[i].terms, g.late = fairminters[i].late, g.status = "closed",
         fairminters[i].status # "closed", MinterAt(g, block_index, phase),
         fairminters' = [fairminters EXCEPT ![i] = g],
         NEW a, a = fairminters[i].terms.asset, NEW r, r = CloseRow(fairminters[i]),
         issuances' = [issuances EXCEPT ![a] = Append(@, r)],
         cache' \in CacheType, cache'.last[a] = r,
         \A b \in Asset : b # a => cache'.last[b] = cache.last[b],
         \A b \in Asset : destroyed'[b] >= destroyed[b],
         UNCHANGED <<txs, first, misled, stopped, block_index, phase>>
  PROVE  IInv'
<1>1. /\ TypeOK /\ fairminters \in Seq(Fairminter) /\ misled \in BOOLEAN /\ stopped \in BOOLEAN
      /\ issuances \in [Asset -> Seq(Row)] /\ txs \in Nat /\ txs \in 0..MaxTxs
      /\ block_index \in FirstBlock..LastBlock /\ phase \in {"parsing", "after"}
      /\ first \in [Asset -> Address \cup {NoAddress}] /\ RowsOK /\ MintingOK
  BY TypeFields DEF IInv, TypeOK
<1>2. /\ fairminters' \in Seq(Fairminter)
      /\ \A b : b # a => SameIn(fairminters, fairminters', b)
      /\ OfIn(fairminters', a) = OfIn(fairminters, a)
      /\ LiveIn(fairminters', a) = LiveIn(fairminters, a) \ {i}
      /\ LateIn(fairminters', a) <=> LateIn(fairminters, a)
  <2>1. IsMinterSet(fairminters, fairminters', i, g, a)
    BY <1>1, MintersChange
  <2> QED BY <2>1 DEF IsMinterSet
<1>3. i \in LiveIn(fairminters, a) /\ a \in Asset /\ issuances[a] # <<>>
  BY MinterIn DEF LiveIn, OfIn, Exists
<1>4. LiveIn(fairminters', a) = {} /\ ~LateIn(fairminters', a)
  <2>1. MintingAt(fairminters, issuances[a], a)
    BY <1>1, <1>3 DEF MintingOK
  <2> QED BY <1>2, <1>3, <2>1 DEF MintingAt
<1>5. TypeOK'
  BY <1>1, <1>2, TypeNext
<1>6. /\ r \in Row /\ r.tx_index = NewestOf(issuances[a]).tx_index
      /\ r.issuer = NewestOf(issuances[a]).issuer /\ r.fair_minting = FALSE /\ r.quantity = 0
  BY CloseRowOf
<1>7. IsRowAdded(issuances, issuances', a, r)
  BY ONLY <1>1, <1>3, <1>6, issuances' = [issuances EXCEPT ![a] = Append(@, r)], RowAdded
<1>8. \A b \in Asset : AssetKept(b)
  <2>1. ASSUME NEW b \in Asset, b # a
        PROVE  AssetKept(b)
    <3>1. issuances'[b] = issuances[b]
      BY <1>7, <2>1 DEF IsRowAdded
    <3>2. txs' \in Nat /\ txs <= txs' /\ cache'.last[b].fair_minting = cache.last[b].fair_minting
      BY <1>1, <2>1
    <3>3. SameIn(fairminters, fairminters', b)
      BY <1>2, <2>1
    <3>4. misled => misled'
      OBVIOUS
    <3> QED BY <3>1, <3>2, <3>3, <3>4, AssetSame
  <2>2. AssetKept(a)
    <3>1. issuances'[a] = Append(issuances[a], r)
      BY <1>7 DEF IsRowAdded
    <3>2. RowsAt(issuances'[a], txs', cache'.last[a])
      <4>1. PICK rows, c, m : rows = issuances[a] /\ c = cache.last[a] /\ m = txs
        OBVIOUS
      <4>2. /\ rows \in Seq(Row) /\ rows # <<>> /\ m \in Nat /\ RowsAt(rows, m, c)
            /\ r.tx_index = NewestOf(rows).tx_index /\ r.issuer = NewestOf(rows).issuer
            /\ ~r.fair_minting
        BY <1>1, <1>3, <1>6, <4>1 DEF RowsOK
      <4>3. RowsAt(Append(rows, r), m, r)
        BY <1>6, <4>2, RowsCopy
      <4> QED BY <3>1, <4>1, <4>3
    <3>3. Append(issuances[a], r) # <<>> /\ LastOf(Append(issuances[a], r)) = r
      BY <1>1, <1>3, <1>6, AppendLast
    <3>4. MintingAt(fairminters', issuances'[a], a)
      BY <1>4, <1>6, <3>1, <3>3 DEF MintingAt
    <3>5. UnlockedAt(fairminters', issuances'[a], a)
      BY <1>4 DEF UnlockedAt
    <3> QED BY <3>2, <3>4, <3>5 DEF AssetKept
  <2> QED BY <2>1, <2>2
<1>9. MintersOK'
  BY MintersNext
<1>10. CapOK'
  <2>1. ASSUME NEW b \in Asset
        PROVE  RowsSum(issuances'[b], "quantity") = RowsSum(issuances[b], "quantity")
    <3>1. /\ RowsSum(issuances[b], "quantity") \in Nat
          /\ RowsSum(issuances'[b], "quantity") = RowsSum(issuances[b], "quantity") + (IF b = a THEN 0 ELSE 0)
      BY <1>6, <1>7 DEF IsRowAdded
    <3> QED BY <3>1
  <2> QED BY <2>1, CapNext
<1> QED BY <1>5, <1>8, <1>9, <1>10, AssetsKept, NextInv DEF RestKept

----------------------------------------------------------------------------
\* Opening, deciding the soft cap and closing

\* open_fairminters() starts a fair minter and hands out its premint.
LEMMA OpenInv ==
  ASSUME IInv, NEW i \in DOMAIN fairminters, OpenFairminter(i)
  PROVE  IInv'
<1>1. PICK f : f = fairminters[i]
  OBVIOUS
<1>2. /\ f \in Fairminter /\ f.terms \in TermRecords /\ MinterAt(f, block_index, phase)
      /\ f.status = "pending" /\ f.settled \in BOOLEAN /\ f.pre_minted \in BOOLEAN
      /\ f.late \in BOOLEAN
  BY <1>1, MinterIn, MinterFields DEF OpenFairminter, ToOpen
<1>3. PICK u \in BOOLEAN : u = (f.pre_minted \/ (f.terms.premint_quantity > 0 /\ f.terms.soft_cap = 0))
  BY <1>2
<1>4. PICK g : g = [f EXCEPT !.status = "open", !.pre_minted = u]
  OBVIOUS
<1>5. fairminters' = [fairminters EXCEPT ![i] = g]
  BY <1>1, <1>2, <1>3, <1>4 DEF OpenFairminter, Fairminter
<1>6. /\ g \in Fairminter /\ g.terms = f.terms /\ g.late = f.late /\ g.status = "open"
      /\ g.pre_minted = u /\ g.settled = f.settled
  BY <1>2, <1>4 DEF Fairminter
<1>7. MinterAt(g, block_index, phase)
  BY <1>2, <1>3, <1>6, TermFields, TypeFields DEF MinterAt
<1>8. /\ issuances' = issuances /\ cache' = cache /\ destroyed' = destroyed
      /\ UNCHANGED <<txs, first, misled, stopped, block_index, phase>>
  BY DEF OpenFairminter
<1>9. cache \in CacheType /\ \A a \in Asset : destroyed[a] \in Nat
  BY TypeFields, ConstantFacts DEF CacheType, IInv
<1>10. LedgerKept
  BY OpenKeeps
<1>11. /\ cache' \in CacheType /\ cache'.last = cache.last
       /\ \A a \in Asset : destroyed'[a] >= destroyed[a]
  BY <1>8, <1>9
<1> QED BY <1>1, <1>2, <1>5, <1>6, <1>7, <1>8, <1>10, <1>11, StaysLive

\* close_fairminters() ends one: a soft cap before its end was decided by then.
LEMMA CloseInv ==
  ASSUME IInv, NEW i \in DOMAIN fairminters, CloseFairminter(i)
  PROVE  IInv'
<1>1. PICK f : f = fairminters[i]
  OBVIOUS
<1>2. /\ f \in Fairminter /\ f.terms \in TermRecords /\ MinterAt(f, block_index, phase)
      /\ f.status # "closed" /\ f.settled \in BOOLEAN /\ f.pre_minted \in BOOLEAN
      /\ f.late \in BOOLEAN /\ f.terms.end_block = block_index /\ f.terms.asset \in Asset
  BY <1>1, MinterIn, MinterFields, TermFields DEF CloseFairminter, ToClose
<1>3. PICK g : g = [f EXCEPT !.status = "closed"]
  OBVIOUS
<1>4. PICK a, r : a = f.terms.asset /\ r = CloseRow(f)
  OBVIOUS
<1>5. /\ fairminters' = [fairminters EXCEPT ![i] = g]
      /\ issuances' = [issuances EXCEPT ![a] = Append(@, r)]
      /\ cache' = AddIssuance(cache, a, r)
      /\ UNCHANGED <<txs, first, misled, stopped, block_index, phase, destroyed>>
  BY <1>1, <1>3, <1>4 DEF CloseFairminter
<1>6. /\ g \in Fairminter /\ g.terms = f.terms /\ g.late = f.late /\ g.status = "closed"
      /\ g.pre_minted = f.pre_minted /\ g.settled = f.settled
  BY <1>2, <1>3 DEF Fairminter
<1>7. MinterAt(g, block_index, phase)
  <2>1. /\ f.terms.soft_cap \in Nat /\ f.terms.soft_cap_deadline_block \in Nat
        /\ f.terms.end_block \in Nat /\ block_index \in Nat
    BY <1>2, TermFields, TypeFields DEF IInv
  <2>2. f.terms.soft_cap > 0 => f.settled
    BY <1>2, <2>1, TypeFields DEF IInv, MinterAt
  <2> QED BY <1>2, <1>6, <2>1, <2>2 DEF MinterAt
<1>8. \A b \in Asset : destroyed[b] \in Nat
  BY TypeFields, ConstantFacts DEF IInv
<1>9. r \in Row
  BY <1>1, <1>4, CloseRowOf
<1>10. LedgerKept
  BY CloseKeeps
<1>11. /\ cache' \in CacheType /\ cache'.last[a] = r
       /\ \A b \in Asset : b # a => cache'.last[b] = cache.last[b]
  <2>1. TypeOK /\ a \in Asset
    BY <1>2, <1>4 DEF IInv
  <2>2. IsIssued(cache, cache', a, r)
    BY <1>5, <1>9, <2>1, CacheFields, AddIssuanceIs
  <2> QED BY <2>2 DEF IsIssued
<1>12. \A b \in Asset : destroyed'[b] >= destroyed[b]
  BY <1>5, <1>8
<1>13. /\ a = fairminters[i].terms.asset /\ r = CloseRow(fairminters[i])
       /\ g.terms = fairminters[i].terms /\ g.late = fairminters[i].late
       /\ fairminters[i].status # "closed"
  BY <1>1, <1>2, <1>4, <1>6
<1>14. /\ UNCHANGED <<txs, first, misled, stopped, block_index, phase>>
       /\ fairminters' = [fairminters EXCEPT ![i] = g]
       /\ issuances' = [issuances EXCEPT ![a] = Append(@, r)]
  BY <1>5
<1>15. /\ IInv /\ i \in DOMAIN fairminters /\ g \in Fairminter /\ g.status = "closed"
  BY <1>6
<1> QED BY ONLY <1>7, <1>10, <1>11, <1>12, <1>13, <1>14, <1>15, Closes

\* A cache with other destructions
IsSpent(c, e) == e \in CacheType /\ e.last = c.last

\* Destructions enter the cache.
LEMMA SpentIs ==
  ASSUME NEW c, c \in CacheType, NEW d, d \in [Token -> Nat],
         NEW e, e = [c EXCEPT !.destroyed = d]
  PROVE  IsSpent(c, e)
  BY DEF IsSpent, CacheType

\* What deciding a soft cap destroys
LEMMA LosingIs ==
  ASSUME NEW f, f \in Fairminter, NEW d, d \in [Token -> Nat]
  PROVE  /\ Losing(f, d) \in [Token -> Nat]
         /\ \A s \in Token : Losing(f, d)[s] >= d[s]
<1>1. \A s \in Token : Lost(f, s) \in Nat
  <2>1. f.terms.premint_quantity \in Nat /\ Minted(f) \in Nat /\ Paid(f) \in Nat
    BY MinterFields, TermFields, MintedType
  <2> QED BY <2>1 DEF Lost
<1> QED BY <1>1 DEF Losing

\* perform_fairminter_soft_cap_operations() decides a soft cap, once.
LEMMA SettleInv ==
  ASSUME IInv, NEW i \in DOMAIN fairminters, SettleSoftCap(i)
  PROVE  IInv'
<1>1. PICK f : f = fairminters[i]
  OBVIOUS
<1>2. /\ f \in Fairminter /\ f.terms \in TermRecords /\ MinterAt(f, block_index, phase)
      /\ f.status = "open" /\ f.settled = FALSE /\ f.pre_minted \in BOOLEAN
      /\ f.late \in BOOLEAN /\ f.terms.asset \in Asset /\ f.terms.soft_cap > 0
      /\ f.terms.soft_cap_deadline_block = block_index /\ phase = "after"
  <2>1. f \in Fairminter
    BY <1>1, MinterIn
  <2>2. f.settled \in BOOLEAN /\ ~f.settled
    BY <1>1, <2>1, MinterFields DEF SettleSoftCap, ToSettle
  <2> QED BY <1>1, <2>1, <2>2, MinterIn, MinterFields, TermFields DEF SettleSoftCap, ToSettle
<1>3. PICK failed \in BOOLEAN : failed = ~SoftCapReached(f)
  BY DEF SoftCapReached
<1>4. PICK st : st = IF failed THEN "closed" ELSE "open"
  OBVIOUS
<1>5. PICK g : g = [f EXCEPT !.settled = TRUE, !.status = st]
  OBVIOUS
<1>6. PICK a, r, d : a = f.terms.asset /\ r = CloseRow(f) /\ d = Losing(f, cache.destroyed)
  OBVIOUS
<1>7. PICK c : c = [cache EXCEPT !.destroyed = d]
  OBVIOUS
<1>8. /\ TypeOK /\ destroyed \in [Token -> Nat] /\ cache \in CacheType
      /\ cache.destroyed \in [Token -> Nat]
  BY TypeFields, CacheFields DEF IInv
<1>9. /\ fairminters' = [fairminters EXCEPT ![i] = g]
      /\ failed => issuances' = [issuances EXCEPT ![a] = Append(@, r)]
      /\ ~failed => issuances' = issuances
      /\ destroyed' = Losing(f, destroyed)
      /\ failed => cache' = AddIssuance(c, a, r)
      /\ ~failed => cache' = c
      /\ UNCHANGED <<txs, first, misled, stopped, block_index, phase>>
  <2>1. fairminters' = [fairminters EXCEPT ![i] = g]
    <3>1. fairminters' = [fairminters EXCEPT ![i].settled = TRUE,
                            ![i].status = IF failed THEN "closed" ELSE @]
      BY <1>1, <1>3 DEF SettleSoftCap
    <3>2. fairminters \in Seq(Fairminter)
      BY <1>8, TypeFields
    <3> QED BY <1>1, <1>2, <1>4, <1>5, <3>1, <3>2 DEF Fairminter
  <2>2. c = [cache EXCEPT !.destroyed = Losing(f, @)]
    BY <1>6, <1>7, <1>8 DEF CacheType
  <2>3. /\ issuances' = IF failed THEN [issuances EXCEPT ![a] = Append(@, r)] ELSE issuances
        /\ destroyed' = Losing(f, destroyed)
        /\ UNCHANGED <<txs, first, misled, stopped, block_index, phase>>
    BY <1>1, <1>3, <1>6 DEF SettleSoftCap
  <2>4. cache' = IF failed THEN AddIssuance(c, a, r) ELSE c
    <3>1. cache' = IF ~SoftCapReached(f)
                     THEN AddIssuance([cache EXCEPT !.destroyed = Losing(f, @)], a, r)
                     ELSE [cache EXCEPT !.destroyed = Losing(f, @)]
      BY <1>1, <1>6 DEF SettleSoftCap
    <3> QED BY <1>3, <2>2, <3>1
  <2> QED BY <2>1, <2>3, <2>4
<1>10. /\ g \in Fairminter /\ g.terms = f.terms /\ g.late = f.late /\ g.status = st
       /\ g.pre_minted = f.pre_minted /\ g.settled = TRUE
  <2>1. st \in {"pending", "open", "closed"}
    BY <1>4
  <2> QED BY <1>2, <1>5, <2>1 DEF Fairminter
<1>11. MinterAt(g, block_index, phase)
  <2>1. /\ f.terms.soft_cap \in Nat /\ f.terms.soft_cap_deadline_block \in Nat
        /\ f.terms.end_block \in Nat /\ block_index \in Nat
    BY <1>2, <1>8, TermFields, TypeFields
  <2> QED BY <1>2, <1>4, <1>10, <2>1 DEF MinterAt
<1>12. LedgerKept
  BY SettleKeeps
<1>13. \A b \in Asset : destroyed'[b] >= destroyed[b]
  BY <1>2, <1>8, <1>9, LosingIs, ConstantFacts
<1>14. c \in CacheType /\ c.last = cache.last
  <2>1. d \in [Token -> Nat]
    BY <1>2, <1>6, <1>8, LosingIs
  <2> QED BY <1>7, <1>8, <2>1, SpentIs DEF IsSpent
<1>15. /\ g.terms = fairminters[i].terms /\ g.late = fairminters[i].late
       /\ fairminters[i].status # "closed" /\ IInv /\ i \in DOMAIN fairminters
  BY <1>1, <1>2, <1>10
<1>16. /\ UNCHANGED <<txs, first, misled, stopped, block_index, phase>>
       /\ fairminters' = [fairminters EXCEPT ![i] = g]
  BY <1>9
<1>17. CASE failed
  <2>1. /\ issuances' = [issuances EXCEPT ![a] = Append(@, r)]
        /\ g.status = "closed" /\ a = fairminters[i].terms.asset /\ r = CloseRow(fairminters[i])
    BY <1>1, <1>4, <1>6, <1>9, <1>10, <1>17
  <2>2. /\ cache' \in CacheType /\ cache'.last[a] = r
        /\ \A b \in Asset : b # a => cache'.last[b] = cache.last[b]
    <3>1. r \in Row /\ a \in Asset /\ cache' = AddIssuance(c, a, r)
      BY <1>1, <1>2, <1>6, <1>9, <1>17, CloseRowOf
    <3>2. IsIssued(c, cache', a, r)
      BY <1>14, <3>1, AddIssuanceIs
    <3> QED BY <1>14, <3>2 DEF IsIssued
  <2>3. g \in Fairminter /\ \A b \in Asset : b # a => cache'.last[b] = cache.last[b]
    BY <1>10, <2>2
  <2>4. cache' \in CacheType /\ cache'.last[a] = r
    BY <2>2
  <2> QED BY ONLY <1>11, <1>12, <1>13, <1>15, <1>16, <2>1, <2>3, <2>4, Closes
<1>18. CASE ~failed
  <2>1. /\ issuances' = issuances /\ cache' = c /\ g.status # "closed"
    BY <1>4, <1>9, <1>10, <1>18
  <2>2. cache' \in CacheType /\ cache'.last = cache.last
    BY <1>14, <2>1
  <2> QED BY ONLY <1>10, <1>11, <1>12, <1>13, <1>15, <1>16, <2>1, <2>2, StaysLive
<1> QED BY <1>17, <1>18

\* The rows of an asset after a mint
IsMintRows(rows, more, n, r0, closing, r) ==
  /\ RowsAt(more, n + 1, r) /\ more \in Seq(Row) /\ more # <<>> /\ LastOf(more) = r
  /\ \A k \in DOMAIN more : \/ k \in DOMAIN rows /\ more[k] = rows[k]
                            \/ more[k] = r
                            \/ closing /\ more[k] = r0

\* The rows that a mint adds to those of its asset
LEMMA MintRowsAre ==
  ASSUME NEW rows, rows \in Seq(Row), rows # <<>>, NEW n, n \in Nat, NEW c, RowsAt(rows, n, c),
         NEW r0, NEW closing, closing \in BOOLEAN,
         closing => /\ r0 \in Row /\ r0.tx_index = NewestOf(rows).tx_index
                    /\ r0.issuer = NewestOf(rows).issuer /\ r0.fair_minting = FALSE,
         NEW r, r \in Row, r.tx_index = n + 1,
         NEW more, more = (IF closing THEN Append(rows, r0) ELSE rows) \o <<r>>
  PROVE  IsMintRows(rows, more, n, r0, closing, r)
<1>1. PICK mid : mid = IF closing THEN Append(rows, r0) ELSE rows
  OBVIOUS
<1>2. \E d : RowsAt(mid, n, d)
  <2>1. CASE closing
    <3>1. r0 \in Row /\ r0.tx_index = NewestOf(rows).tx_index /\ r0.issuer = NewestOf(rows).issuer
          /\ ~r0.fair_minting
      BY <2>1
    <3>2. RowsAt(Append(rows, r0), n, r0)
      BY <3>1, RowsCopy
    <3> QED BY <1>1, <2>1, <3>2
  <2>2. CASE ~closing
    BY <1>1, <2>2
  <2> QED BY <2>1, <2>2
<1>3. /\ mid \in Seq(Row)
      /\ \A k \in DOMAIN mid : (k \in DOMAIN rows /\ mid[k] = rows[k]) \/ (closing /\ mid[k] = r0)
  <2>1. CASE closing
    <3>1. r0 \in Row /\ mid = Append(rows, r0)
      BY <1>1, <2>1
    <3> QED BY <2>1, <3>1, AppendLast
  <2>2. CASE ~closing
    BY <1>1, <2>2
  <2> QED BY <2>1, <2>2
<1>4. more = Append(mid, r)
  BY <1>1, <1>3
<1>5. PICK d : RowsAt(mid, n, d)
  BY <1>2
<1>6. RowsAt(Append(mid, r), n + 1, r)
  BY <1>3, <1>5, RowsLater
<1>7. /\ Append(mid, r) \in Seq(Row) /\ Append(mid, r) # <<>> /\ LastOf(Append(mid, r)) = r
      /\ \A k \in DOMAIN Append(mid, r) : (k \in DOMAIN mid /\ Append(mid, r)[k] = mid[k])
                                          \/ Append(mid, r)[k] = r
  BY <1>3, AppendLast
<1> QED BY <1>3, <1>4, <1>6, <1>7 DEF IsMintRows

\* What a mint writes
MintDone(i, f, q, a, h, r0, row, closing, hits, total) ==
  /\ f = fairminters[i] /\ a = f.terms.asset /\ closing \in BOOLEAN
  /\ hits = MintHits(f.terms, q) /\ total = MintTotal(f.terms, q) /\ total \in Nat
  /\ closing => hits
  /\ h \in Fairminter /\ h.terms = f.terms /\ h.late = f.late
  /\ h.status = (IF hits THEN "closed" ELSE "open")
  /\ h.settled = (f.settled \/ (hits /\ Escrows(f.terms))) /\ h.pre_minted = f.pre_minted
  /\ r0 \in Row /\ r0.tx_index = NewestOf(issuances[a]).tx_index
  /\ r0.issuer = NewestOf(issuances[a]).issuer /\ r0.fair_minting = FALSE
  /\ r0.quantity = 0 /\ r0.fee_paid = 0
  /\ row \in Row /\ row.quantity = total /\ row.fee_paid = 0 /\ row.tx_index = txs + 1
  /\ row.fair_minting = (cache.last[a].fair_minting /\ ~hits)
  /\ ~hits => row.locked = cache.last[a].locked
  /\ row.issuer = cache.last[a].issuer
  /\ fairminters' = [fairminters EXCEPT ![i] = h]
  /\ issuances' = [issuances EXCEPT ![a] = (IF closing THEN Append(@, r0) ELSE @) \o <<row>>]
  /\ cache' \in CacheType /\ cache'.last[a] = row
  /\ \A b \in Asset : b # a => cache'.last[b] = cache.last[b]
  /\ \A b \in Asset : destroyed'[b] >= destroyed[b]

\* Every mint writes these rows, whatever becomes of its soft cap.
LEMMA MintWrites ==
  ASSUME IInv, phase = "parsing", NEW source \in Address, NEW i \in DOMAIN fairminters,
         NEW q \in MintQuantity, MayMint(source, fairminters[i], q),
         ~(MintTotal(fairminters[i].terms, q) < 0), Mint(source, i, q)
  PROVE  \E f, a, h, r0, row, closing, hits, total :
           MintDone(i, f, q, a, h, r0, row, closing, hits, total)
<1>1. PICK f, a, r0, row : /\ f = fairminters[i] /\ a = f.terms.asset
                           /\ r0 = CloseRow(f) /\ row = MintingRow(f, q)
  OBVIOUS
<1>2. PICK hits, e, total, com, paid, burned :
        /\ hits = MintHits(f.terms, q) /\ e = Escrows(f.terms) /\ total = MintTotal(f.terms, q)
        /\ com = MintCommission(f.terms, q) /\ paid = MintPrice(f.terms, q)
        /\ burned = MintBurned(f.terms, q)
  OBVIOUS
<1>3. PICK g, h, closing, lost, cached :
        /\ g = Minter(source, f, q) /\ h = AfterMint(source, f, q)
        /\ closing = MintFailed(source, f, q)
        /\ lost = MintSpent(source, f, q, destroyed)
        /\ cached = MintSpent(source, f, q, cache.destroyed)
  OBVIOUS
<1>4. /\ TypeOK /\ f \in Fairminter /\ a \in Asset /\ MinterAt(f, block_index, phase)
      /\ f.status = "open" /\ f.settled \in BOOLEAN /\ f.pre_minted \in BOOLEAN
      /\ destroyed \in [Token -> Nat] /\ cache \in CacheType /\ cache.destroyed \in [Token -> Nat]
  BY <1>1, MinterIn, MinterFields, TypeFields, CacheFields DEF IInv, MayMint
<1>5. /\ total \in Nat /\ com \in Nat /\ com <= total /\ paid \in Nat /\ burned \in Nat
  BY <1>1, <1>2, <1>4, MintAmounts
<1>6. hits \in BOOLEAN /\ e \in BOOLEAN /\ closing \in BOOLEAN /\ (closing => hits)
  BY <1>1, <1>2, <1>3 DEF MintHits, Escrows, MintFailed, MintSettles
<1>7. IsMintSummed(f, g, total, paid)
  <2>1. g = WithMint(f, source, total, com, paid)
    BY <1>2, <1>3 DEF Minter, WithMint
  <2>2. source \in Address
    OBVIOUS
  <2> QED BY ONLY <1>4, <1>5, <2>1, <2>2, MintSums
<1>8. /\ g \in Fairminter /\ g.terms = f.terms /\ g.settled = f.settled /\ g.status = f.status
      /\ g.pre_minted = f.pre_minted /\ g.late = f.late
  BY <1>7 DEF IsMintSummed
<1>9. PICK st, u : st = (IF hits THEN "closed" ELSE "open") /\ u = (f.settled \/ (hits /\ e))
  OBVIOUS
<1>10. h = [g EXCEPT !.status = st, !.settled = u]
  BY <1>2, <1>3, <1>4, <1>8, <1>9 DEF AfterMint, MintSettles, Fairminter
<1>11. /\ h \in Fairminter /\ h.terms = f.terms /\ h.late = f.late /\ h.status = st
       /\ h.settled = u /\ h.pre_minted = f.pre_minted
  <2>1. st \in {"pending", "open", "closed"} /\ u \in BOOLEAN
    BY <1>4, <1>6, <1>9
  <2> QED BY <1>8, <1>10, <2>1 DEF Fairminter
<1>12. /\ r0 \in Row /\ r0.tx_index = NewestOf(issuances[a]).tx_index
       /\ r0.issuer = NewestOf(issuances[a]).issuer /\ r0.fair_minting = FALSE
       /\ r0.quantity = 0 /\ r0.fee_paid = 0
  BY <1>1, CloseRowOf
<1>13. /\ row \in Row /\ row.quantity = total /\ row.fee_paid = 0 /\ row.tx_index = txs + 1
       /\ row.fair_minting = (cache.last[a].fair_minting /\ ~hits)
       /\ row.locked = (cache.last[a].locked \/ (hits /\ f.terms.lock_quantity))
       /\ row.issuer = cache.last[a].issuer
  BY <1>1, <1>2, <1>4, <1>5, MintingRowIs
<1>14. /\ row.locked = cache.last[a].locked \/ hits
  <2>1. cache.last[a].locked \in BOOLEAN
    BY <1>4, CacheFields, RowFields
  <2> QED BY <1>6, <1>13, <2>1
<1>15. /\ lost \in [Token -> Nat] /\ (\A b \in Asset : lost[b] >= destroyed[b])
       /\ cached \in [Token -> Nat]
  <2>1. ASSUME NEW d \in [Token -> Nat]
        PROVE  /\ MintSpent(source, f, q, d) \in [Token -> Nat]
               /\ \A b \in Asset : MintSpent(source, f, q, d)[b] >= d[b]
    <3>1. PICK d1 : d1 = [d EXCEPT ![XCP] = @ + burned]
      OBVIOUS
    <3>2. d1 \in [Token -> Nat] /\ \A s \in Token : d1[s] >= d[s]
      BY <1>5, <2>1, <3>1, ConstantFacts
    <3>3. Losing(g, d1) \in [Token -> Nat] /\ \A s \in Token : Losing(g, d1)[s] >= d1[s]
      BY <1>8, <3>2, LosingIs
    <3>4. \A s \in Token : Losing(g, d1)[s] >= d[s]
      BY <3>2, <3>3
    <3>5. MintSpent(source, f, q, d) = IF MintSettles(f.terms, q) THEN Losing(g, d1) ELSE d1
      BY <1>2, <1>3, <3>1 DEF MintSpent
    <3> QED BY <3>2, <3>3, <3>4, <3>5, ConstantFacts
  <2> QED BY <1>3, <1>4, <2>1
<1>16. /\ fairminters' = [fairminters EXCEPT ![i] = h]
       /\ issuances' = [issuances EXCEPT ![a] = (IF closing THEN Append(@, r0) ELSE @) \o <<row>>]
       /\ destroyed' = lost
  <2>1. fairminters' = [fairminters EXCEPT ![i] = AfterMint(source, fairminters[i], q)]
    BY ONLY Mint(source, i, q) DEF Mint, MintCommission, MintHits, Minter, MintSettles,
         MintFailed, MintBurned, MintPayment, MintMoves, MintSpent, AfterMint, MintingRow
  <2>2. issuances' = [issuances EXCEPT ![fairminters[i].terms.asset] =
              (IF MintFailed(source, fairminters[i], q) THEN Append(@, CloseRow(fairminters[i])) ELSE @) \o <<MintingRow(fairminters[i], q)>>]
    BY ONLY Mint(source, i, q) DEF Mint, MintCommission, MintHits, Minter, MintSettles,
         MintFailed, MintBurned, MintPayment, MintMoves, MintSpent, AfterMint, MintingRow
  <2>3. destroyed' = MintSpent(source, fairminters[i], q, destroyed)
    BY ONLY Mint(source, i, q) DEF Mint, MintCommission, MintHits, Minter, MintSettles,
         MintFailed, MintBurned, MintPayment, MintMoves, MintSpent, AfterMint, MintingRow
  <2>4. fairminters' = [fairminters EXCEPT ![i] = h]
    BY ONLY <1>1, <1>3, <2>1
  <2>5. issuances' = [issuances EXCEPT ![a] = (IF closing THEN Append(@, r0) ELSE @) \o <<row>>]
    BY ONLY <1>1, <1>3, <2>2
  <2>6. destroyed' = lost
    BY ONLY <1>1, <1>3, <2>3
  <2> QED BY <2>4, <2>5, <2>6
<1>17. PICK c1, c2 : /\ c1 = [cache EXCEPT !.destroyed = cached]
                     /\ c2 = IF closing THEN AddIssuance(c1, a, r0) ELSE c1
  OBVIOUS
<1>18. cache' = AddIssuance(c2, a, row)
  <2>1. c1 = [cache EXCEPT !.destroyed = MintSpent(source, f, q, @)]
    BY <1>3, <1>4, <1>17 DEF CacheType
  <2>2. cache' = AddIssuance(
              IF closing
                THEN AddIssuance([cache EXCEPT !.destroyed = MintSpent(source, f, q, @)], a, r0)
                ELSE [cache EXCEPT !.destroyed = MintSpent(source, f, q, @)], a, row)
    <3>1. cache' = AddIssuance(
              IF MintFailed(source, fairminters[i], q)
                THEN AddIssuance([cache EXCEPT !.destroyed = MintSpent(source, fairminters[i], q, @)],
                                 fairminters[i].terms.asset, CloseRow(fairminters[i]))
                ELSE [cache EXCEPT !.destroyed = MintSpent(source, fairminters[i], q, @)],
              fairminters[i].terms.asset, MintingRow(fairminters[i], q))
      BY ONLY Mint(source, i, q), MintIs
    <3> QED BY ONLY <1>1, <1>3, <3>1
  <2> QED BY <1>17, <2>1, <2>2
<1>19. c1 \in CacheType /\ c1.last = cache.last
  BY <1>4, <1>15, <1>17, SpentIs DEF IsSpent
<1>20. c2 \in CacheType /\ \A b \in Asset : b # a => c2.last[b] = cache.last[b]
  <2>1. CASE closing
    <3>1. c2 = AddIssuance(c1, a, r0)
      BY <1>17, <2>1
    <3>2. IsIssued(c1, c2, a, r0)
      BY <1>4, <1>12, <1>19, <3>1, AddIssuanceIs
    <3> QED BY <1>19, <3>2 DEF IsIssued
  <2>2. CASE ~closing
    BY <1>17, <1>19, <2>2
  <2> QED BY <2>1, <2>2
<1>21. /\ cache' \in CacheType /\ cache'.last[a] = row
       /\ \A b \in Asset : b # a => cache'.last[b] = cache.last[b]
  <2>1. IsIssued(c2, cache', a, row)
    BY <1>4, <1>13, <1>18, <1>20, AddIssuanceIs
  <2> QED BY <1>20, <2>1 DEF IsIssued
<1>22. MintDone(i, f, q, a, h, r0, row, closing, hits, total)
  BY <1>1, <1>2, <1>5, <1>6, <1>9, <1>11, <1>12, <1>13, <1>14, <1>15, <1>16, <1>21 DEF MintDone
<1> QED BY <1>22

\* The fields of a mint, as facts of their own
LEMMA MintHere ==
  ASSUME IInv, NEW i \in DOMAIN fairminters, NEW f, NEW q, NEW a, NEW h, NEW r0, NEW row,
         NEW closing, NEW hits, NEW total, MintDone(i, f, q, a, h, r0, row, closing, hits, total),
         f.status = "open"
  PROVE  /\ f \in Fairminter /\ a \in Asset /\ MinterAt(f, block_index, phase)
         /\ issuances[a] \in Seq(Row) /\ issuances[a] # <<>>
         /\ RowsAt(issuances[a], txs, cache.last[a])
         /\ LiveIn(fairminters, a) = {i} /\ ~LateIn(fairminters, a)
         /\ LastOf(issuances[a]).fair_minting = TRUE /\ cache.last[a].fair_minting = TRUE
         /\ hits \in BOOLEAN
<1>1. /\ f = fairminters[i] /\ a = f.terms.asset /\ hits = MintHits(f.terms, q)
  BY DEF MintDone
<1>2. /\ f \in Fairminter /\ a \in Asset /\ MinterAt(f, block_index, phase)
      /\ issuances[a] \in Seq(Row) /\ issuances[a] # <<>>
  BY <1>1, MinterIn DEF Exists
<1>3. /\ RowsAt(issuances[a], txs, cache.last[a]) /\ MintingAt(fairminters, issuances[a], a)
  BY <1>2 DEF IInv, RowsOK, MintingOK
<1>4. i \in LiveIn(fairminters, a)
  BY <1>1 DEF LiveIn, OfIn
<1>5. LiveIn(fairminters, a) = {i} /\ ~LateIn(fairminters, a)
  BY <1>3, <1>4 DEF MintingAt
<1>6. LastOf(issuances[a]) \in Row
  BY <1>2, <1>3, LastNewest
<1>7. LastOf(issuances[a]).fair_minting = TRUE
  <2>1. LastOf(issuances[a]).fair_minting
    BY <1>2, <1>3, <1>5 DEF MintingAt
  <2> QED BY <1>6, <2>1, RowFields
<1>8. cache.last[a].fair_minting = TRUE
  BY <1>2, <1>3, <1>7 DEF RowsAt
<1> QED BY <1>1, <1>2, <1>3, <1>5, <1>7, <1>8 DEF MintHits

\* The life of a fair minter goes on, or it ends with its soft cap decided.
LEMMA MintedAt ==
  ASSUME TypeOK, phase = "parsing", NEW f, f \in Fairminter, MinterAt(f, block_index, phase),
         f.status = "open", NEW hits, hits \in BOOLEAN, NEW h, h \in Fairminter,
         h.terms = f.terms, h.late = f.late, h.status = (IF hits THEN "closed" ELSE "open"),
         h.settled = (f.settled \/ (hits /\ Escrows(f.terms))), h.pre_minted = f.pre_minted
  PROVE  MinterAt(h, block_index, phase)
<1>1. /\ f.terms.soft_cap \in Nat /\ f.terms.soft_cap_deadline_block \in Nat
      /\ f.terms.end_block \in Nat /\ f.terms.start_block \in Nat /\ block_index \in Nat
      /\ f.settled \in BOOLEAN /\ f.late \in BOOLEAN
  BY MinterFields, TermFields, TypeFields
<1>2. CASE hits
  <2>1. f.terms.soft_cap > 0 => h.settled
    BY <1>1, <1>2 DEF MinterAt, Escrows
  <2>2. h.settled => f.terms.soft_cap > 0
    BY <1>1 DEF MinterAt, Escrows
  <2>3. h.status = "closed"
    BY <1>2
  <2> QED BY <1>1, <2>1, <2>2, <2>3 DEF MinterAt
<1>3. CASE ~hits
  <2>1. h.settled = f.settled /\ h.status = f.status
    BY <1>1, <1>3
  <2> QED BY <1>1, <2>1 DEF MinterAt
<1> QED BY <1>2, <1>3

\* What the mint makes stays below the hard cap, unless it reaches it.
LEMMA MintBelow ==
  ASSUME TypeOK, NEW source \in Address, NEW q \in MintQuantity, NEW f, f \in Fairminter,
         MayMint(source, f, q), ~(MintTotal(f.terms, q) < 0), ~MintHits(f.terms, q),
         f.terms.hard_cap > 0
  PROVE  Supply(f.terms.asset) + MintTotal(f.terms, q) < f.terms.hard_cap
<1> DEFINE t == f.terms
<1>1. /\ t.asset \in Asset /\ t.price \in Nat /\ t.max_mint_per_tx \in Nat /\ t.hard_cap \in Nat
      /\ q \in Nat
  BY MinterFields, TermFields, FairmintersAssumption
<1>2. Supply(t.asset) \in Int
  BY <1>1, CacheFields, ConstantFacts DEF Supply
<1>3. Supply(t.asset) + MintTotal(t, q) # t.hard_cap
  BY DEF MintHits
<1>4. Supply(t.asset) + MintTotal(t, q) <= t.hard_cap /\ MintTotal(t, q) \in Int
  <2>1. CASE t.price > 0
    <3>1. Supply(t.asset) + q <= t.hard_cap
      BY <2>1 DEF MayMint
    <3> QED BY <1>1, <2>1, <3>1 DEF MintTotal
  <2>2. CASE ~(t.price > 0)
    BY <1>1, <1>2, <2>2 DEF MintTotal
  <2> QED BY <2>1, <2>2
<1> QED BY <1>1, <1>2, <1>3, <1>4

\* A mint keeps the invariant: below the hard cap it goes on, at the cap the minting ends.
LEMMA MintInv ==
  ASSUME IInv, phase = "parsing", NEW source \in Address, NEW i \in DOMAIN fairminters,
         NEW q \in MintQuantity, MayMint(source, fairminters[i], q),
         ~(MintTotal(fairminters[i].terms, q) < 0), Mint(source, i, q),
         ReadsTheCache, UNCHANGED <<block_index, phase>>, txs' = txs + 1, txs < MaxTxs
  PROVE  IInv'
<1>1. /\ TypeOK /\ fairminters \in Seq(Fairminter) /\ misled \in BOOLEAN /\ stopped \in BOOLEAN
      /\ issuances \in [Asset -> Seq(Row)] /\ txs \in Nat /\ txs' \in Nat /\ txs' \in 0..MaxTxs
      /\ block_index \in FirstBlock..LastBlock /\ phase \in {"parsing", "after"}
      /\ first \in [Asset -> Address \cup {NoAddress}] /\ RowsOK /\ MintingOK /\ UnlockedOK
      /\ CapOK /\ MintersOK /\ destroyed \in [Token -> Nat]
  <2>1. TypeOK
    BY DEF IInv
  <2>2. txs \in Nat /\ MaxTxs \in Nat
    BY <2>1, TypeFields, ConstantFacts
  <2> QED BY <2>1, <2>2, TypeFields DEF IInv, TypeOK
<1>2. PICK f, a, h, r0, row, closing, hits, total :
        MintDone(i, f, q, a, h, r0, row, closing, hits, total)
  BY MintWrites
<1>3. f = fairminters[i] /\ f.status = "open"
  BY <1>2 DEF MintDone, MayMint
<1>4. /\ f \in Fairminter /\ a \in Asset /\ MinterAt(f, block_index, phase)
      /\ issuances[a] \in Seq(Row) /\ issuances[a] # <<>>
      /\ RowsAt(issuances[a], txs, cache.last[a])
      /\ LiveIn(fairminters, a) = {i} /\ ~LateIn(fairminters, a)
      /\ LastOf(issuances[a]).fair_minting = TRUE /\ cache.last[a].fair_minting = TRUE
      /\ hits \in BOOLEAN
  BY <1>2, <1>3, MintHere
<1>5. /\ a = f.terms.asset /\ closing \in BOOLEAN /\ hits = MintHits(f.terms, q)
      /\ total = MintTotal(f.terms, q) /\ total \in Nat /\ (closing => hits)
      /\ h \in Fairminter /\ h.terms = f.terms /\ h.late = f.late
      /\ h.status = (IF hits THEN "closed" ELSE "open")
      /\ h.settled = (f.settled \/ (hits /\ Escrows(f.terms))) /\ h.pre_minted = f.pre_minted
  BY <1>2 DEF MintDone
<1>6. /\ r0 \in Row /\ r0.tx_index = NewestOf(issuances[a]).tx_index
      /\ r0.issuer = NewestOf(issuances[a]).issuer /\ r0.fair_minting = FALSE
      /\ r0.quantity = 0 /\ r0.fee_paid = 0
  BY <1>2 DEF MintDone
<1>7. /\ row \in Row /\ row.quantity = total /\ row.fee_paid = 0 /\ row.tx_index = txs + 1
      /\ row.fair_minting = (cache.last[a].fair_minting /\ ~hits)
      /\ ~hits => row.locked = cache.last[a].locked
  BY <1>2 DEF MintDone
<1>8. /\ fairminters' = [fairminters EXCEPT ![i] = h]
      /\ issuances' = [issuances EXCEPT ![a] = (IF closing THEN Append(@, r0) ELSE @) \o <<row>>]
  BY <1>2 DEF MintDone
<1>9. /\ cache' \in CacheType /\ cache'.last[a] = row
      /\ \A b \in Asset : b # a => cache'.last[b] = cache.last[b]
      /\ \A b \in Asset : destroyed'[b] >= destroyed[b]
  BY <1>2 DEF MintDone
<1>10. first' = first /\ stopped' = stopped /\ misled' = (misled \/ cache # CacheOfTables)
  BY DEF Mint, ReadsTheCache
<1>11. LedgerKept
  BY MintKeeps
<1>12. /\ fairminters' \in Seq(Fairminter) /\ DOMAIN fairminters' = DOMAIN fairminters
       /\ fairminters'[i] = h /\ (\A j \in DOMAIN fairminters : j # i => fairminters'[j] = fairminters[j])
       /\ \A b : b # a => SameIn(fairminters, fairminters', b)
       /\ OfIn(fairminters', a) = OfIn(fairminters, a)
       /\ LiveIn(fairminters', a) = (IF hits THEN {} ELSE {i})
       /\ ~LateIn(fairminters', a)
  <2>1. a = h.terms.asset /\ h.terms = fairminters[i].terms /\ h.late = fairminters[i].late
    BY <1>3, <1>5
  <2>2. i \in DOMAIN fairminters /\ fairminters \in Seq(Fairminter) /\ h \in Fairminter
    BY <1>1, <1>5
  <2>3. fairminters' = [fairminters EXCEPT ![i] = h]
    BY <1>8
  <2>4. IsMinterSet(fairminters, fairminters', i, h, a)
    BY ONLY <2>1, <2>2, <2>3, MintersChange
  <2> QED BY <1>4, <1>5, <2>4 DEF IsMinterSet
<1>13. misled' \in BOOLEAN /\ (misled => misled') /\ (~misled' => ~misled /\ cache = CacheOfTables)
  BY <1>1, <1>10
<1>14. TypeOK'
  BY <1>1, <1>9, <1>10, <1>11, <1>12, <1>13, TypeNext
<1>15. /\ issuances'[a] = (IF closing THEN Append(issuances[a], r0) ELSE issuances[a]) \o <<row>>
       /\ \A b \in Asset : b # a => issuances'[b] = issuances[b]
  BY <1>1, <1>4, <1>8
<1>16. IsMintRows(issuances[a], issuances'[a], txs, r0, closing, row)
  <2>1. PICK rows, more, n, c : rows = issuances[a] /\ more = issuances'[a] /\ n = txs /\ c = cache.last[a]
    OBVIOUS
  <2>2. /\ rows \in Seq(Row) /\ rows # <<>> /\ n \in Nat /\ RowsAt(rows, n, c)
        /\ closing \in BOOLEAN /\ row \in Row /\ row.tx_index = n + 1
        /\ more = (IF closing THEN Append(rows, r0) ELSE rows) \o <<row>>
    BY <1>1, <1>4, <1>5, <1>7, <1>15, <2>1
  <2>3. closing => /\ r0 \in Row /\ r0.tx_index = NewestOf(rows).tx_index
                   /\ r0.issuer = NewestOf(rows).issuer /\ r0.fair_minting = FALSE
    BY <1>6, <2>1
  <2>4. IsMintRows(rows, more, n, r0, closing, row)
    BY ONLY <2>2, <2>3, MintRowsAre
  <2> QED BY <2>1, <2>4
<1>17. \A b \in Asset : AssetKept(b)
  <2>1. ASSUME NEW b \in Asset, b # a
        PROVE  AssetKept(b)
    <3>1. issuances'[b] = issuances[b] /\ cache'.last[b].fair_minting = cache.last[b].fair_minting
      BY <1>9, <1>15, <2>1
    <3>2. txs <= txs' /\ SameIn(fairminters, fairminters', b) /\ (misled => misled')
      BY <1>1, <1>12, <1>13, <2>1
    <3> QED BY <1>1, <3>1, <3>2, AssetSame
  <2>2. AssetKept(a)
    <3>1. RowsAt(issuances'[a], txs', cache'.last[a])
      BY <1>9, <1>16 DEF IsMintRows
    <3>2. MintingAt(fairminters', issuances'[a], a)
      <4>1. issuances'[a] # <<>> /\ LastOf(issuances'[a]).fair_minting = ~hits
        BY <1>4, <1>7, <1>16 DEF IsMintRows
      <4> QED BY <1>4, <1>12, <4>1 DEF MintingAt
    <3>3. ~misled' => UnlockedAt(fairminters', issuances'[a], a)
      <4> SUFFICES ASSUME ~misled', LiveIn(fairminters', a) # {}, NEW k \in DOMAIN issuances'[a]
                   PROVE  ~issuances'[a][k].locked
        BY DEF UnlockedAt
      <4>1. ~hits /\ ~closing
        BY <1>5, <1>12
      <4>2. \A j \in DOMAIN issuances[a] : ~issuances[a][j].locked
        BY <1>1, <1>4, <1>13 DEF UnlockedOK, UnlockedAt
      <4>3. ~row.locked
        <5>1. cache.last[a] = LastOf(issuances[a])
          BY <1>4, <1>13 DEF CacheOfTables, Exists, Last, LastOf
        <5>2. Len(issuances[a]) \in DOMAIN issuances[a]
          BY <1>4
        <5> QED BY <1>7, <4>1, <4>2, <5>1, <5>2 DEF LastOf
      <4> QED BY <1>16, <4>1, <4>2, <4>3 DEF IsMintRows
    <3> QED BY <3>1, <3>2, <3>3 DEF AssetKept
  <2> QED BY <2>1, <2>2
<1>18. MintersOK'
  <2>1. MinterAt(h, block_index, phase)
    BY <1>1, <1>3, <1>4, <1>5, MintedAt
  <2> QED BY <1>8, <2>1, MintersNext
<1>19. IsMintAdded(issuances, issuances', a, total)
  <2>1. closing => r0 \in Row /\ r0.quantity = 0 /\ r0.fee_paid = 0
    BY <1>6
  <2>2. IsMintAdded(issuances, issuances', a, row.quantity)
    BY ONLY <1>1, <1>4, <1>7, <1>8, <2>1, MintAdded
  <2> QED BY <1>7, <2>2
<1>20. CapOK'
  <2>1. ~misled' => stopped' = FALSE
    BY <1>1, <1>10, <1>13 DEF CapOK
  <2> SUFFICES ASSUME ~misled', NEW j \in DOMAIN fairminters',
                      fairminters'[j].terms.hard_cap > 0, fairminters'[j].status # "closed"
               PROVE  RowsSum(issuances'[fairminters'[j].terms.asset], "quantity")
                        - destroyed'[fairminters'[j].terms.asset] < fairminters'[j].terms.hard_cap
    BY <2>1 DEF CapOK, CapAt
  <2>2. destroyed' \in [Token -> Nat] /\ issuances' \in [Asset -> Seq(Row)]
    BY <1>11 DEF LedgerKept, LedgerType
  <2>3. CASE j = i
    <3>1. /\ fairminters'[j].terms = f.terms /\ ~hits
      BY <1>5, <1>12, <2>3
    <3>2. Supply(a) + total < f.terms.hard_cap
      BY <1>1, <1>3, <1>4, <1>5, <3>1, MintBelow
    <3>3. Supply(a) = RowsSum(issuances[a], "quantity") - destroyed[a]
      BY <1>4, <1>13, SupplyOf
    <3>4. /\ RowsSum(issuances[a], "quantity") \in Nat
          /\ RowsSum(issuances'[a], "quantity") = RowsSum(issuances[a], "quantity") + total
      BY <1>4, <1>19 DEF IsMintAdded
    <3>5. destroyed[a] \in Nat /\ destroyed'[a] \in Nat /\ destroyed'[a] >= destroyed[a]
          /\ f.terms.hard_cap \in Nat
      BY <1>1, <1>4, <1>9, <2>2, ConstantFacts, MinterFields, TermFields
    <3> QED BY <1>5, <3>1, <3>2, <3>3, <3>4, <3>5
  <2>4. CASE j # i
    <3>1. j \in DOMAIN fairminters /\ fairminters'[j] = fairminters[j]
      BY <1>12, <2>4
    <3> DEFINE b == fairminters[j].terms.asset
               n == fairminters[j].terms.hard_cap
    <3>2. CapAt(fairminters, issuances, destroyed) /\ n > 0 /\ fairminters[j].status # "closed"
      BY <1>1, <1>13, <3>1 DEF CapOK
    <3>3. RowsSum(issuances[b], "quantity") - destroyed[b] < n
      BY <3>1, <3>2, CapField
    <3>4. b \in Asset /\ n \in Nat
      BY <1>1, <3>1, MinterFields, TermFields
    <3>5. b # a
      <4>1. b = a => j \in LiveIn(fairminters, a)
        BY <3>1, <3>2 DEF LiveIn, OfIn
      <4> QED BY <1>4, <2>4, <4>1
    <3>6. /\ RowsSum(issuances[b], "quantity") \in Nat /\ issuances'[b] = issuances[b]
          /\ destroyed'[b] >= destroyed[b]
      BY <1>1, <1>9, <1>15, <3>4, <3>5, TableSums
    <3>7. b = fairminters'[j].terms.asset /\ n = fairminters'[j].terms.hard_cap
      BY <3>1
    <3> HIDE DEF b, n
    <3>8. RowsSum(issuances'[b], "quantity") <= RowsSum(issuances[b], "quantity")
      BY <3>6
    <3>9. RowsSum(issuances'[b], "quantity") - destroyed'[b] < n
      BY <2>2, <3>3, <3>4, <3>6, <3>8, CapSame
    <3> QED BY <3>7, <3>9
  <2> QED BY <2>3, <2>4
<1> QED BY <1>11, <1>14, <1>17, <1>18, <1>20, AssetsKept, NextInv DEF RestKept

\* A mint of a negative amount comes from a cache that is not the tables.
LEMMA StopInv ==
  ASSUME IInv, NEW source \in Address, NEW a \in Asset, NEW q \in MintQuantity,
         OfAsset(a) # {}, MayMint(source, fairminters[Max(OfAsset(a))], q), MintFails(a, q),
         StopMint, ReadsTheCache, UNCHANGED <<block_index, phase>>, txs' = txs + 1, txs < MaxTxs
  PROVE  IInv'
<1>1. /\ TypeOK /\ misled \in BOOLEAN /\ stopped \in BOOLEAN /\ CapOK /\ txs \in Nat
      /\ txs' \in 0..MaxTxs /\ txs <= txs' /\ cache \in CacheType
      /\ first \in [Asset -> Address \cup {NoAddress}]
      /\ block_index \in FirstBlock..LastBlock /\ phase \in {"parsing", "after"}
      /\ destroyed \in [Token -> Nat] /\ fairminters \in Seq(Fairminter)
      /\ issuances \in [Asset -> Seq(Row)]
  <2>1. TypeOK
    BY DEF IInv
  <2>2. txs \in Nat /\ MaxTxs \in Nat
    BY <2>1, TypeFields, ConstantFacts
  <2> QED BY <2>1, <2>2, TypeFields, CacheFields DEF IInv
<1>2. PICK i, f : i = Max(OfAsset(a)) /\ f = fairminters[i]
  OBVIOUS
<1>3. /\ i \in DOMAIN fairminters /\ f \in Fairminter /\ f.terms.asset = a /\ f.status = "open"
      /\ MintTotal(f.terms, q) < 0
  BY <1>2, MintsLast, MinterIn DEF MayMint, MintFails
<1>4. /\ f.terms.price \in Nat /\ f.terms.max_mint_per_tx \in Nat /\ f.terms.hard_cap \in Nat
      /\ q \in Nat
  BY <1>3, MinterFields, TermFields, FairmintersAssumption
<1>5. cache # CacheOfTables \/ misled
  <2> SUFFICES ASSUME cache = CacheOfTables, ~misled PROVE FALSE
    OBVIOUS
  <2>1. Supply(a) = RowsSum(issuances[a], "quantity") - destroyed[a]
    BY SupplyOf
  <2>2. /\ RowsSum(issuances[a], "quantity") \in Nat /\ destroyed[a] \in Nat
    BY <1>1, TableSums, ConstantFacts
  <2>3. CapAt(fairminters, issuances, destroyed)
    BY <1>1 DEF CapOK
  <2>4. f.terms.hard_cap > 0 => RowsSum(issuances[a], "quantity") - destroyed[a] < f.terms.hard_cap
    BY <1>2, <1>3, <2>3, CapField
  <2> QED BY <1>3, <1>4, <2>1, <2>2, <2>4 DEF MintTotal
<1>6. /\ issuances' = issuances /\ fairminters' = fairminters /\ cache' = cache /\ first' = first
      /\ destroyed' = destroyed /\ misled' = TRUE /\ stopped' = TRUE
      /\ UNCHANGED <<balances, escrow, issuances, destroyed, fees, fairminters>>
  BY <1>1, <1>5 DEF StopMint, ReadsTheCache
<1>7. LedgerKept
  BY <1>6, LedgerSame
<1>8. \A b \in Asset : destroyed'[b] >= destroyed[b]
  BY <1>1, <1>6, ConstantFacts
<1>9. MintersOK'
  BY <1>6, MintersKept
<1>10. /\ cache' \in CacheType /\ first' \in [Asset -> Address \cup {NoAddress}]
       /\ (\A b \in Asset : issuances[b] # <<>> => cache'.last[b].fair_minting = cache.last[b].fair_minting)
       /\ misled' \in BOOLEAN /\ (misled => misled') /\ stopped' \in BOOLEAN
       /\ (~misled' => stopped' = FALSE)
       /\ block_index' \in FirstBlock..LastBlock /\ phase' \in {"parsing", "after"}
  BY <1>1, <1>6
<1>11. txs' \in 0..MaxTxs /\ txs <= txs' /\ IInv /\ issuances' = issuances /\ fairminters' = fairminters
  BY <1>1, <1>6
<1> QED BY ONLY <1>7, <1>8, <1>9, <1>10, <1>11, NoRowKeeps

----------------------------------------------------------------------------
\* A transaction of an asset

AssetStep ==
  txs < MaxTxs /\ txs' = txs + 1 /\ UNCHANGED <<block_index, phase, fairminters, stopped>>

\* What such a transaction finds and what it leaves alone
LEMMA StepTypes ==
  ASSUME IInv, AssetStep
  PROVE  /\ TypeOK /\ misled \in BOOLEAN /\ stopped' \in BOOLEAN /\ txs \in Nat
         /\ txs' \in 0..MaxTxs /\ txs <= txs' /\ cache \in CacheType
         /\ first \in [Asset -> Address \cup {NoAddress}]
         /\ block_index' \in FirstBlock..LastBlock /\ phase' \in {"parsing", "after"}
         /\ destroyed \in [Token -> Nat] /\ (\A a \in Asset : destroyed[a] \in Nat)
         /\ issuances \in [Asset -> Seq(Row)] /\ fairminters' = fairminters
         /\ (~misled => stopped' = FALSE) /\ MintersOK' /\ stopped' = stopped
<1>1. TypeOK /\ CapOK
  BY DEF IInv
<1>2. txs \in Nat /\ MaxTxs \in Nat
  BY <1>1, TypeFields, ConstantFacts
<1>3. MintersOK'
  BY MintersKept DEF AssetStep
<1>4. /\ block_index \in FirstBlock..LastBlock /\ phase \in {"parsing", "after"}
      /\ misled \in BOOLEAN /\ stopped \in BOOLEAN /\ first \in [Asset -> Address \cup {NoAddress}]
      /\ issuances \in [Asset -> Seq(Row)] /\ destroyed \in [Token -> Nat]
  BY <1>1 DEF TypeOK
<1> QED BY <1>1, <1>2, <1>3, <1>4, CacheFields, ConstantFacts DEF AssetStep, CapOK

\* One that adds no row and leaves the cached rows
LEMMA QuietStep ==
  ASSUME IInv, AssetStep, LedgerKept, issuances' = issuances, cache' \in CacheType,
         \A a \in Asset : issuances[a] # <<>> => cache'.last[a].fair_minting = cache.last[a].fair_minting,
         first' \in [Asset -> Address \cup {NoAddress}],
         \A a \in Asset : destroyed'[a] >= destroyed[a], misled' \in BOOLEAN, misled => misled'
  PROVE  IInv'
<1>1. /\ fairminters' = fairminters /\ txs' \in 0..MaxTxs /\ txs <= txs' /\ stopped' \in BOOLEAN
      /\ block_index' \in FirstBlock..LastBlock /\ phase' \in {"parsing", "after"} /\ MintersOK'
  BY StepTypes
<1>2. ~misled' => stopped' = FALSE
  BY StepTypes
<1> QED BY <1>1, <1>2, NoRowKeeps

\* A refused issuance enters the cache and no table; its `fair_minting` is that of the
\* last row.
LEMMA RefuseInv ==
  ASSUME IInv, AssetStep, NEW source \in Address, NEW m \in Issuance, RefuseIssuance(source, m)
  PROVE  IInv'
<1>1. PICK r, a : r = RefusedRow(source, m) /\ a = m.asset
  OBVIOUS
<1>2. /\ TypeOK /\ misled \in BOOLEAN /\ cache \in CacheType /\ \A b \in Asset : destroyed[b] \in Nat
  BY StepTypes
<1>3. r \in Row /\ a \in Asset
  BY <1>1, <1>2, RowTypes
<1>4. /\ cache' = AddIssuance(cache, a, r) /\ Recorded(a, r)
      /\ misled' = (misled \/ (m.reset /\ Exists(m.asset) /\ cache # CacheOfTables))
      /\ UNCHANGED <<balances, escrow, issuances, destroyed, fees, fairminters>>
  BY <1>1 DEF RefuseIssuance, AssetStep
<1>5. IsIssued(cache, cache', a, r)
  BY <1>2, <1>3, <1>4, AddIssuanceIs
<1>6. r.fair_minting = (Exists(a) /\ Last(a).fair_minting)
  BY <1>1 DEF RefusedRow, IssuanceRow
<1>7. ASSUME NEW b \in Asset, issuances[b] # <<>>
      PROVE  cache'.last[b].fair_minting = cache.last[b].fair_minting
  <2>1. CASE b = a
    <3>1. RowsAt(issuances[a], txs, cache.last[a])
      BY <1>3 DEF IInv, RowsOK
    <3>2. cache.last[a].fair_minting = LastOf(issuances[a]).fair_minting
      BY <1>7, <2>1, <3>1 DEF RowsAt
    <3>3. issuances[a] \in Seq(Row) /\ LastOf(issuances[a]) \in Row
      BY <1>2, <1>3, <1>7, <2>1, <3>1, TypeFields, LastNewest
    <3>4. r.fair_minting = LastOf(issuances[a]).fair_minting
      BY <1>6, <1>7, <2>1, <3>3, RowFields DEF Exists, Last, LastOf
    <3> QED BY <1>5, <2>1, <3>2, <3>4 DEF IsIssued
  <2>2. CASE b # a
    BY <1>5, <2>2 DEF IsIssued
  <2> QED BY <2>1, <2>2
<1>8. LedgerKept
  BY <1>4, LedgerSame
<1>9. first' \in [Asset -> Address \cup {NoAddress}]
  BY <1>2, <1>3, <1>4, RecordedIs
<1>10. /\ cache' \in CacheType /\ misled' \in BOOLEAN /\ (misled => misled') /\ issuances' = issuances
       /\ \A b \in Asset : destroyed'[b] >= destroyed[b]
  BY <1>2, <1>4, <1>5 DEF IsIssued
<1> QED BY <1>7, <1>8, <1>9, <1>10, QuietStep

\* A reset that leaves no trace keeps the invariant.
LEMMA LoseInv ==
  ASSUME IInv, AssetStep, NEW source \in Address, NEW m \in Issuance, LoseReset(source, m)
  PROVE  IInv'
<1>1. /\ TypeOK /\ misled \in BOOLEAN /\ cache \in CacheType /\ (\A b \in Asset : destroyed[b] \in Nat)
      /\ first \in [Asset -> Address \cup {NoAddress}]
  BY StepTypes
<1>2. /\ UNCHANGED <<balances, escrow, issuances, destroyed, fees, cache, first, fairminters>>
      /\ misled' = (misled \/ cache # CacheOfTables)
  BY DEF LoseReset, ReadsTheCache, AssetStep
<1>3. LedgerKept
  BY <1>2, LedgerSame
<1>4. /\ cache' \in CacheType /\ misled' \in BOOLEAN /\ (misled => misled') /\ issuances' = issuances
      /\ (\A b \in Asset : destroyed'[b] >= destroyed[b])
      /\ (\A b \in Asset : issuances[b] # <<>> => cache'.last[b].fair_minting = cache.last[b].fair_minting)
      /\ first' \in [Asset -> Address \cup {NoAddress}]
  BY <1>1, <1>2
<1> QED BY <1>3, <1>4, QuietStep

\* A destruction enters the cache, whether or not it was refused.
LEMMA AddDestroyedIs ==
  ASSUME NEW c, c \in CacheType, NEW s, s \in Token, NEW q, q \in Nat,
         NEW e, e = AddDestroyed(c, s, q)
  PROVE  IsSpent(c, e)
<1>1. PICK d : d = [c.destroyed EXCEPT ![s] = @ + q]
  OBVIOUS
<1>2. d \in [Token -> Nat]
  BY <1>1 DEF CacheType
<1>3. e = [c EXCEPT !.destroyed = d]
  BY <1>1 DEF AddDestroyed, CacheType
<1> QED BY <1>2, <1>3, SpentIs

\* Destructions, accepted or refused, keep the invariant.
LEMMA DestroyInv ==
  ASSUME IInv, AssetStep, NEW source \in Address, NEW s \in Token, NEW q \in Destroy,
         ParseDestroy(source, s, q)
  PROVE  IInv'
<1>1. /\ TypeOK /\ misled \in BOOLEAN /\ cache \in CacheType /\ destroyed \in [Token -> Nat]
      /\ first \in [Asset -> Address \cup {NoAddress}] /\ q \in Nat
  BY StepTypes, AssetsAssumption
<1>2. /\ UNCHANGED <<escrow, issuances, fees, misled, first>> /\ fairminters' = fairminters
      /\ cache' = AddDestroyed(cache, s, q)
      /\ destroyed' = [destroyed EXCEPT ![s] = @ + q] \/ destroyed' = destroyed
  BY DEF ParseDestroy, AssetStep
<1>3. LedgerKept
  BY <1>2, DestroyKeeps
<1>4. IsSpent(cache, cache')
  BY <1>1, <1>2, AddDestroyedIs
<1>5. /\ cache' \in CacheType /\ misled' \in BOOLEAN /\ (misled => misled') /\ issuances' = issuances
      /\ (\A b \in Asset : destroyed'[b] >= destroyed[b])
      /\ (\A b \in Asset : issuances[b] # <<>> => cache'.last[b].fair_minting = cache.last[b].fair_minting)
      /\ first' \in [Asset -> Address \cup {NoAddress}]
  BY <1>1, <1>2, <1>4, ConstantFacts DEF IsSpent
<1> QED BY <1>3, <1>5, QuietStep

\* Dividends, orders and cancels touch neither the rows nor the cache.
LEMMA OtherInv ==
  ASSUME IInv, AssetStep, LedgerKept, UNCHANGED <<issuances, destroyed, cache, misled, first>>
  PROVE  IInv'
<1>1. /\ TypeOK /\ misled \in BOOLEAN /\ cache \in CacheType /\ destroyed \in [Token -> Nat]
      /\ first \in [Asset -> Address \cup {NoAddress}]
  BY StepTypes
<1>2. /\ cache' \in CacheType /\ misled' \in BOOLEAN /\ (misled => misled') /\ issuances' = issuances
      /\ (\A b \in Asset : destroyed'[b] >= destroyed[b])
      /\ (\A b \in Asset : issuances[b] # <<>> => cache'.last[b].fair_minting = cache.last[b].fair_minting)
      /\ first' \in [Asset -> Address \cup {NoAddress}]
  BY <1>1, ConstantFacts
<1> QED BY <1>2, QuietStep

\* An issuance adds its row to an asset that nobody mints.
LEMMA IssueInv ==
  ASSUME IInv, AssetStep, NEW source \in Address, NEW m \in Issuance, Issue(source, m)
  PROVE  IInv'
<1>1. PICK r, a : r = IssuanceRow(source, m) /\ a = m.asset
  OBVIOUS
<1>2. /\ TypeOK /\ misled \in BOOLEAN /\ cache \in CacheType /\ (\A b \in Asset : destroyed[b] \in Nat)
      /\ txs' \in 0..MaxTxs
  BY StepTypes
<1>3. r \in Row /\ a \in Asset
  BY <1>1, <1>2, RowTypes
<1>4. /\ issuances' = [issuances EXCEPT ![a] = Append(@, r)] /\ cache' = AddIssuance(cache, a, r)
      /\ Recorded(a, r) /\ destroyed' = destroyed /\ misled' = misled /\ txs' = txs + 1
      /\ fairminters' = fairminters /\ UNCHANGED <<block_index, phase, stopped>>
  BY <1>1 DEF Issue, AssetStep
<1>5. r.tx_index = txs + 1 /\ r.fair_minting = FALSE
  BY <1>1 DEF IssuanceRow
<1>6. issuances[a] # <<>> => ~LastOf(issuances[a]).fair_minting
  BY <1>1 DEF Issue, MayIssue, MayReissue, Exists, Last, LastOf
<1>7. IsIssued(cache, cache', a, r)
  BY <1>2, <1>3, <1>4, AddIssuanceIs
<1>8. LedgerKept
  BY <1>4, IssueKeeps
<1>9. first' \in [Asset -> Address \cup {NoAddress}]
  BY <1>2, <1>3, <1>4, RecordedIs
<1>10. /\ cache' \in CacheType /\ cache'.last[a] = r
       /\ (\A b \in Asset : b # a => cache'.last[b] = cache.last[b])
       /\ misled' \in BOOLEAN /\ (misled => misled')
       /\ \A b \in Asset : destroyed'[b] >= destroyed[b]
  BY <1>2, <1>4, <1>7 DEF IsIssued
<1>11. /\ issuances' = [issuances EXCEPT ![a] = Append(@, r)] /\ fairminters' = fairminters
       /\ txs' = txs + 1 /\ UNCHANGED <<block_index, phase, stopped>> /\ IInv
  BY <1>4
<1> QED BY ONLY <1>2, <1>3, <1>5, <1>6, <1>8, <1>9, <1>10, <1>11, RowKeeps

\* A reset adds its row to an asset that nobody mints.
LEMMA ResetInv ==
  ASSUME IInv, AssetStep, NEW source \in Address, NEW m \in Issuance, Reset(source, m)
  PROVE  IInv'
<1>1. PICK r, a, old, c : /\ r = IssuanceRow(source, m) /\ a = m.asset
                          /\ old = balances[source][m.asset] /\ c = AddDestroyed(cache, a, old)
  OBVIOUS
<1>2. /\ TypeOK /\ misled \in BOOLEAN /\ cache \in CacheType /\ (\A b \in Asset : destroyed[b] \in Nat)
      /\ txs' \in 0..MaxTxs /\ first \in [Asset -> Address \cup {NoAddress}]
      /\ destroyed \in [Token -> Nat]
  BY StepTypes
<1>3. r \in Row /\ a \in Asset /\ a \in Token /\ old \in Nat
  <2>1. r \in Row /\ a \in Asset
    BY <1>1, <1>2, RowTypes
  <2> QED BY <1>1, <1>2, <2>1, TypeFields, ConstantFacts DEF NatBalances
<1>4. /\ issuances' = [issuances EXCEPT ![a] = Append(@, r)] /\ cache' = AddIssuance(c, a, r)
      /\ first' = first /\ destroyed' = [destroyed EXCEPT ![a] = @ + old]
      /\ misled' = (misled \/ cache # CacheOfTables) /\ txs' = txs + 1
      /\ fairminters' = fairminters /\ UNCHANGED <<block_index, phase, stopped>>
  BY <1>1 DEF Reset, AssetStep, ReadsTheCache
<1>5. r.tx_index = txs + 1 /\ r.fair_minting = FALSE
  BY <1>1 DEF IssuanceRow
<1>6. issuances[a] # <<>> => ~LastOf(issuances[a]).fair_minting
  BY <1>1 DEF Reset, MayIssue, MayReissue, Exists, Last, LastOf
<1>7. IsSpent(cache, c)
  BY <1>1, <1>2, <1>3, AddDestroyedIs
<1>8. IsIssued(c, cache', a, r)
  BY <1>3, <1>4, <1>7, AddIssuanceIs DEF IsSpent
<1>9. LedgerKept
  BY <1>4, ResetKeeps
<1>10. /\ cache' \in CacheType /\ cache'.last[a] = r
       /\ (\A b \in Asset : b # a => cache'.last[b] = cache.last[b])
       /\ misled' \in BOOLEAN /\ (misled => misled')
       /\ first' \in [Asset -> Address \cup {NoAddress}]
  BY <1>2, <1>4, <1>7, <1>8 DEF IsIssued, IsSpent
<1>11. \A b \in Asset : destroyed'[b] >= destroyed[b]
  BY <1>2, <1>3, <1>4, ConstantFacts
<1>12. /\ issuances' = [issuances EXCEPT ![a] = Append(@, r)] /\ fairminters' = fairminters
       /\ txs' = txs + 1 /\ UNCHANGED <<block_index, phase, stopped>> /\ IInv
  BY <1>4
<1> QED BY ONLY <1>2, <1>3, <1>5, <1>6, <1>9, <1>10, <1>11, <1>12, RowKeeps

\* The transactions of Assets keep the invariant.
LEMMA AssetsInv ==
  ASSUME IInv, AssetStep, ParseAssets
  PROVE  IInv'
<1>1. PICK source \in Address :
        \/ \E m \in Issuance : ParseIssuance(source, m)
        \/ \E s \in Token, q \in Destroy : ParseDestroy(source, s, q)
        \/ \E a \in Asset, s \in Token, n \in PerUnit : ParseDividend(source, a, s, n)
        \/ \E a \in Asset, q \in OrderQuantity : ParseOrder(source, a, q)
        \/ \E a \in Asset : CancelOrder(source, a)
  BY DEF ParseAssets
<1>2. fairminters' = fairminters
  BY DEF AssetStep
<1>3. CASE \E m \in Issuance : ParseIssuance(source, m)
  BY <1>3, IssueInv, ResetInv, LoseInv, RefuseInv DEF ParseIssuance
<1>4. CASE \E s \in Token, q \in Destroy : ParseDestroy(source, s, q)
  BY <1>4, DestroyInv
<1>5. ASSUME NEW a \in Asset, NEW s \in Token, NEW n \in PerUnit, ParseDividend(source, a, s, n)
      PROVE  IInv'
  <2>1. LedgerKept
    BY <1>2, <1>5, DividendKeeps
  <2>2. UNCHANGED <<issuances, destroyed, cache, misled, first>>
    BY <1>5 DEF ParseDividend
  <2> QED BY <2>1, <2>2, OtherInv
<1>6. ASSUME NEW a \in Asset, NEW q \in OrderQuantity, ParseOrder(source, a, q)
      PROVE  IInv'
  <2>1. LedgerKept
    BY <1>2, <1>6, OrderKeeps
  <2>2. UNCHANGED <<issuances, destroyed, cache, misled, first>>
    BY <1>6 DEF ParseOrder
  <2> QED BY <2>1, <2>2, OtherInv
<1>7. ASSUME NEW a \in Asset, CancelOrder(source, a)
      PROVE  IInv'
  <2>1. LedgerKept
    BY <1>2, <1>7, CancelKeeps
  <2>2. UNCHANGED <<issuances, destroyed, cache, misled, first>>
    BY <1>7 DEF CancelOrder
  <2> QED BY <2>1, <2>2, OtherInv
<1> QED BY <1>1, <1>3, <1>4, <1>5, <1>6, <1>7

\* Every transaction keeps the invariant.
LEMMA TransactionInv ==
  ASSUME IInv, Transaction
  PROVE  IInv'
<1>1. phase = "parsing" /\ txs < MaxTxs
  BY DEF Transaction
<1>2. CASE ParseAssets /\ UNCHANGED <<block_index, phase, fairminters, stopped>>
  <2>1. AssetStep
    BY <1>1, <1>2 DEF ParseAssets, AssetStep
  <2> QED BY <1>2, <2>1, AssetsInv
<1>3. ASSUME txs' = txs + 1, NEW source \in Address, NEW t \in Terms, ParseFairminter(source, t)
      PROVE  IInv'
  BY <1>1, <1>3, FairminterInv
<1>4. ASSUME txs' = txs + 1, NEW source \in Address, NEW a \in Asset, NEW q \in MintQuantity,
             ParseFairmint(source, a, q)
      PROVE  IInv'
  <2>1. /\ OfAsset(a) # {} /\ MayMint(source, fairminters[Max(OfAsset(a))], q)
        /\ ReadsTheCache /\ UNCHANGED <<block_index, phase>>
    BY <1>4 DEF ParseFairmint
  <2>2. CASE MintFails(a, q)
    <3>1. StopMint
      BY <1>4, <2>2 DEF ParseFairmint
    <3> QED BY <1>1, <1>4, <2>1, <2>2, <3>1, StopInv
  <2>3. CASE ~MintFails(a, q)
    <3>1. PICK i : i = Max(OfAsset(a))
      OBVIOUS
    <3>2. i \in DOMAIN fairminters
      BY <2>1, <3>1, MintsLast
    <3>3. /\ MayMint(source, fairminters[i], q) /\ ~(MintTotal(fairminters[i].terms, q) < 0)
          /\ Mint(source, i, q)
      BY <1>4, <2>1, <2>3, <3>1 DEF ParseFairmint, MintFails
    <3> QED BY <1>1, <1>4, <2>1, <3>2, <3>3, MintInv
  <2> QED BY <2>2, <2>3
<1> QED BY <1>2, <1>3, <1>4 DEF Transaction

----------------------------------------------------------------------------
\* The steps of a block

\* The end of the transactions: every fair minter of this block is open.
LEMMA MintersAfter ==
  ASSUME IInv, phase = "parsing", ToOpen = {}, phase' = "after",
         UNCHANGED <<block_index, fairminters>>
  PROVE  MintersOK'
<1> SUFFICES ASSUME NEW i \in DOMAIN fairminters
             PROVE  MinterAt(fairminters[i], block_index, "after")
  BY DEF MintersOK
<1>1. PICK f : f = fairminters[i]
  OBVIOUS
<1>2. /\ f \in Fairminter /\ MinterAt(f, block_index, "parsing")
      /\ ~(f.terms.start_block = block_index /\ f.status = "pending")
  BY <1>1, MinterIn DEF ToOpen
<1>3. MinterAt(f, block_index, "after")
  BY <1>2 DEF MinterAt
<1> QED BY <1>1, <1>3

\* The end of a block: every soft cap of this block is decided, and what ends in it closed.
LEMMA MintersLater ==
  ASSUME IInv, phase = "after", ToSettle = {}, ToClose = {}, phase' = "parsing",
         block_index' = block_index + 1, fairminters' = fairminters
  PROVE  MintersOK'
<1> SUFFICES ASSUME NEW i \in DOMAIN fairminters
             PROVE  MinterAt(fairminters[i], block_index + 1, "parsing")
  BY DEF MintersOK
<1>1. PICK f, b : f = fairminters[i] /\ b = block_index
  OBVIOUS
<1>2. f \in Fairminter /\ MinterAt(f, b, "after") /\ b \in Nat
  BY <1>1, MinterIn, TypeFields DEF IInv
<1>3. /\ ~(f.terms.soft_cap > 0 /\ ~f.settled /\ f.terms.soft_cap_deadline_block = b
           /\ f.status = "open")
      /\ ~(f.terms.end_block = b /\ f.status # "closed")
  BY <1>1 DEF ToSettle, ToClose
<1>4. /\ f.terms.soft_cap \in Nat /\ f.terms.soft_cap_deadline_block \in Nat
      /\ f.terms.end_block \in Nat /\ f.terms.start_block \in Nat
      /\ f.status \in {"pending", "open", "closed"} /\ f.settled \in BOOLEAN
  BY <1>2, MinterFields, TermFields
<1>5. f.status = "pending" => f.terms.start_block > b
  BY <1>2 DEF MinterAt
<1>6. f.terms.soft_cap > 0 /\ ~f.settled => f.status # "closed" /\ f.terms.soft_cap_deadline_block >= b + 1
  <2>1. f.terms.soft_cap > 0 /\ ~f.settled =>
          /\ f.status # "closed" /\ f.terms.soft_cap_deadline_block >= b
          /\ f.terms.soft_cap_deadline_block > f.terms.start_block
    BY <1>2 DEF MinterAt
  <2> QED BY <1>2, <1>3, <1>4, <1>5, <2>1
<1>7. f.terms.end_block > 0 /\ b + 1 > f.terms.end_block => f.status = "closed"
  <2>1. f.terms.end_block > 0 /\ b > f.terms.end_block => f.status = "closed"
    BY <1>2 DEF MinterAt
  <2> QED BY <1>2, <1>3, <1>4, <2>1
<1>8. f.settled => /\ f.terms.soft_cap > 0
                   /\ f.status = "closed" \/ f.terms.soft_cap_deadline_block < b + 1
  BY <1>2, <1>4 DEF MinterAt
<1>9. f.status = "pending" => f.terms.start_block > b + 1
                              \/ (f.terms.start_block = b + 1 /\ "parsing" = "parsing")
  BY <1>2, <1>4, <1>5
<1>10. MinterAt(f, b + 1, "parsing")
  BY <1>2, <1>6, <1>7, <1>8, <1>9 DEF MinterAt
<1> QED BY <1>1, <1>10

\* What a step that leaves the ledger, the fair minters and the rows finds
LEMMA BlockStep ==
  ASSUME IInv, ~stopped, UNCHANGED <<txs, balances, escrow, issuances, destroyed, fees, misled, first,
                            fairminters, stopped>>,
         cache' \in CacheType,
         \A a \in Asset : issuances[a] # <<>> => cache'.last[a].fair_minting = cache.last[a].fair_minting,
         block_index' \in FirstBlock..LastBlock, phase' \in {"parsing", "after"}, MintersOK'
  PROVE  IInv'
<1>1. /\ TypeOK /\ misled \in BOOLEAN /\ stopped \in BOOLEAN /\ txs \in 0..MaxTxs /\ txs \in Nat
      /\ first \in [Asset -> Address \cup {NoAddress}] /\ destroyed \in [Token -> Nat]
  BY TypeFields DEF IInv, TypeOK
<1>2. LedgerKept
  <2>1. UNCHANGED <<balances, escrow, issuances, destroyed, fees, fairminters>>
    OBVIOUS
  <2> QED BY <2>1, LedgerSame
<1>3. /\ issuances' = issuances /\ fairminters' = fairminters
      /\ txs' \in 0..MaxTxs /\ txs <= txs' /\ cache' \in CacheType
      /\ first' \in [Asset -> Address \cup {NoAddress}]
      /\ \A a \in Asset : destroyed'[a] >= destroyed[a]
  BY <1>1, ConstantFacts
<1>4. /\ misled' \in BOOLEAN /\ (misled => misled') /\ stopped' \in BOOLEAN
      /\ (~misled' => stopped' = FALSE)
  BY <1>1
<1> QED BY <1>2, <1>3, <1>4, NoRowKeeps

\* after_block begins when no fair minter of the block is left to open.
LEMMA EndInv ==
  ASSUME IInv, ~stopped, EndTransactions
  PROVE  IInv'
<1>1. /\ TypeOK /\ cache \in CacheType /\ block_index \in FirstBlock..LastBlock
  BY CacheFields DEF IInv, TypeOK
<1>2. /\ phase = "parsing" /\ ToOpen = {} /\ phase' = "after"
      /\ UNCHANGED <<block_index, fairminters>>
      /\ UNCHANGED <<txs, balances, escrow, issuances, destroyed, fees, misled, first,
                     fairminters, stopped>>
      /\ cache' = cache
  BY DEF EndTransactions, asset_vars
<1>3. MintersOK'
  BY <1>2, MintersAfter
<1>4. /\ cache' \in CacheType /\ block_index' \in FirstBlock..LastBlock /\ phase' \in {"parsing", "after"}
      /\ \A a \in Asset : issuances[a] # <<>> => cache'.last[a].fair_minting = cache.last[a].fair_minting
  BY <1>1, <1>2
<1> QED BY <1>2, <1>3, <1>4, BlockStep

\* What the cache is after a restart
LEMMA CacheOfTablesIs ==
  ASSUME IInv
  PROVE  /\ CacheOfTables \in CacheType
         /\ \A a \in Asset : issuances[a] # <<>> =>
              CacheOfTables.last[a].fair_minting = cache.last[a].fair_minting
<1>1. issuances \in [Asset -> Seq(Row)] /\ destroyed \in [Token -> Nat]
  BY TypeFields DEF IInv
<1>2. NoRow \in Row
  BY DEF NoRow, Row
<1>3. ASSUME NEW a \in Asset, issuances[a] # <<>>
      PROVE  /\ Last(a) \in Row /\ Last(a).fair_minting = cache.last[a].fair_minting
  <2>1. RowsAt(issuances[a], txs, cache.last[a]) /\ issuances[a] \in Seq(Row)
    BY <1>1 DEF IInv, RowsOK
  <2> QED BY <1>3, <2>1, LastNewest DEF RowsAt, Last, LastOf
<1>4. \A a \in Asset : Issued(a) \in Nat
  BY <1>1, TableSums, IssuedIsRowsSum
<1>5. [a \in Asset |-> IF Exists(a) THEN Last(a) ELSE NoRow] \in [Asset -> Row]
  BY <1>2, <1>3 DEF Exists
<1>6. [a \in Asset |-> Issued(a)] \in [Asset -> Nat]
  BY <1>4
<1> QED BY <1>1, <1>3, <1>5, <1>6 DEF CacheOfTables, CacheType, Exists

\* The next block begins, perhaps in a new process, when all that was due is done.
LEMMA NextBlockInv ==
  ASSUME IInv, ~stopped, NextBlock
  PROVE  IInv'
<1>1. /\ TypeOK /\ cache \in CacheType /\ block_index \in FirstBlock..LastBlock
      /\ FirstBlock \in Nat /\ LastBlock \in Nat
  BY CacheFields, ConstantFacts DEF IInv, TypeOK
<1>2. /\ phase = "after" /\ ToSettle = {} /\ ToClose = {} /\ block_index < LastBlock
      /\ block_index' = block_index + 1 /\ phase' = "parsing"
      /\ UNCHANGED <<txs, balances, escrow, issuances, destroyed, fees, misled, first,
                     fairminters, stopped>>
      /\ cache' = cache \/ cache' = CacheOfTables
  BY DEF NextBlock, asset_vars, Restart
<1>3. MintersOK'
  BY <1>2, MintersLater
<1>4. /\ cache' \in CacheType
      /\ \A a \in Asset : issuances[a] # <<>> => cache'.last[a].fair_minting = cache.last[a].fair_minting
  BY <1>1, <1>2, CacheOfTablesIs
<1>5. block_index' \in FirstBlock..LastBlock /\ phase' \in {"parsing", "after"}
  BY <1>1, <1>2
<1> QED BY <1>2, <1>3, <1>4, <1>5, BlockStep

\* A step that changes nothing keeps the invariant.
LEMMA StutterInv ==
  ASSUME IInv, UNCHANGED vars
  PROVE  IInv'
  BY DEF vars, asset_vars, IInv, TypeOK, RowsOK, MintingOK, UnlockedOK, MintersOK, CoveredOK,
         HeldForAll, ConservedOK, CapOK

\* Every step keeps the invariant.
LEMMA IInvNext ==
  ASSUME IInv, [Next]_vars
  PROVE  IInv'
<1>1. CASE UNCHANGED vars
  BY <1>1, StutterInv
<1>2. CASE Next
  <2>1. ~stopped
    BY <1>2 DEF Next
  <2>2. CASE Transaction
    BY <2>2, TransactionInv
  <2>3. CASE EndTransactions
    BY <2>1, <2>3, EndInv
  <2>4. CASE NextBlock
    BY <2>1, <2>4, NextBlockInv
  <2>5. ASSUME NEW i \in DOMAIN fairminters,
               OpenFairminter(i) \/ SettleSoftCap(i) \/ CloseFairminter(i)
        PROVE  IInv'
    BY <2>5, OpenInv, SettleInv, CloseInv
  <2> QED BY <1>2, <2>2, <2>3, <2>4, <2>5 DEF Next
<1> QED BY <1>1, <1>2

----------------------------------------------------------------------------
\* The initial state

\* The invariant holds at first.
LEMMA InitInv ==
  ASSUME Init
  PROVE  IInv
<1>1. /\ txs = 0 /\ fees = 0 /\ misled = FALSE /\ stopped = FALSE
      /\ balances = [x \in Holder |-> [s \in Token |-> IF s = XCP /\ x \in Address THEN Funds[x] ELSE 0]]
      /\ escrow = [x \in Address |-> [a \in Asset |-> 0]]
      /\ issuances = [a \in Asset |-> <<>>] /\ destroyed = [s \in Token |-> 0]
      /\ cache = [last |-> [a \in Asset |-> NoRow], issued |-> [a \in Asset |-> 0],
                  destroyed |-> [s \in Token |-> 0]]
      /\ first = [a \in Asset |-> NoAddress]
      /\ block_index = FirstBlock /\ phase = "parsing" /\ fairminters = <<>>
  BY DEF Init, AssetInit
<1>2. Funds \in [Address -> Nat] /\ MaxTxs \in Nat /\ FirstBlock \in Nat /\ LastBlock \in Nat
      /\ FirstBlock <= LastBlock
  BY AssetsAssumption, FairmintersAssumption
<1>3. TypeOK
  <2>1. balances \in [Holder -> [Token -> Nat]]
    BY <1>1, <1>2
  <2>2. NoRow \in Row
    BY DEF NoRow, Row
  <2>3. fairminters \in Seq(Fairminter) /\ issuances \in [Asset -> Seq(Row)]
    BY <1>1
  <2>4. cache \in [last : [Asset -> Row], issued : [Asset -> Nat], destroyed : [Token -> Nat]]
    BY <1>1, <2>2
  <2>5. /\ escrow \in [Address -> [Asset -> Nat]] /\ destroyed \in [Token -> Nat]
        /\ first \in [Asset -> Address \cup {NoAddress}] /\ fees \in Nat
    BY <1>1
  <2>6. /\ txs \in 0..MaxTxs /\ block_index \in FirstBlock..LastBlock
        /\ phase \in {"parsing", "after"} /\ {misled, stopped} \subseteq BOOLEAN
    <3>1. misled \in BOOLEAN /\ stopped \in BOOLEAN
      BY <1>1
    <3>2. txs \in 0..MaxTxs
      BY <1>1, <1>2
    <3>3. block_index \in FirstBlock..LastBlock
      BY <1>1, <1>2
    <3> QED BY <1>1, <3>1, <3>2, <3>3
  <2> QED BY <2>1, <2>3, <2>4, <2>5, <2>6 DEF TypeOK
<1>4. DOMAIN fairminters = {} /\ \A a \in Asset : issuances[a] = <<>> /\ DOMAIN issuances[a] = {}
  BY <1>1
<1>5. \A a \in Asset : OfIn(fairminters, a) = {} /\ LiveIn(fairminters, a) = {} /\ ~LateIn(fairminters, a)
  BY <1>4 DEF OfIn, LiveIn, LateIn
<1>6. RowsOK
  BY <1>4 DEF RowsOK, RowsAt, Sorted
<1>7. MintingOK
  BY <1>4, <1>5 DEF MintingOK, MintingAt
<1>8. UnlockedOK
  BY <1>5 DEF UnlockedOK, UnlockedAt
<1>9. MintersOK
  BY <1>4 DEF MintersOK
<1>10. CapOK
  BY <1>1, <1>4 DEF CapOK, CapAt
<1>11. CoveredOK
  <2>1. ASSUME NEW s \in Token
        PROVE  HeldForAll(fairminters, s) = 0
    <3>1. HeldForAll(fairminters, s)
            = SumFunctionOnSet([i \in DOMAIN fairminters |-> HeldFor(fairminters[i], s)], {})
      BY <1>4 DEF HeldForAll
    <3> QED BY <3>1, SumEmpty
  <2>2. \A s \in Token : balances[Unspendable][s] \in Nat
    BY <1>3, TypeFields, ConstantFacts DEF NatBalances
  <2> QED BY <2>1, <2>2 DEF CoveredOK
<1>12. \A a \in Asset : RowsSum(issuances[a], "quantity") = 0 /\ RowsSum(issuances[a], "fee_paid") = 0
  <2>1. ASSUME NEW a \in Asset, NEW field
        PROVE  RowsSum(issuances[a], field) = 0
    <3>1. RowsSum(issuances[a], field)
            = SumFunctionOnSet([i \in DOMAIN issuances[a] |-> issuances[a][i][field]], {})
      BY <1>4 DEF RowsSum
    <3> QED BY <3>1, SumEmpty
  <2> QED BY <2>1
<1>13. FeesOf(issuances) = 0
  <2>1. PICK f : f = [a \in Asset |-> RowsSum(issuances[a], "fee_paid")]
    OBVIOUS
  <2>2. \A a \in Asset : f[a] = 0
    BY <1>12, <2>1
  <2>3. SumFunctionOnSet(f, Asset) = 0
    BY <2>2, SumZero, ConstantFacts
  <2> QED BY <2>1, <2>3 DEF FeesOf
<1>14. \A a \in Asset : EscrowTotal(escrow, a) = 0
  <2> SUFFICES ASSUME NEW a \in Asset PROVE EscrowTotal(escrow, a) = 0
    OBVIOUS
  <2>1. PICK f : f = [x \in Address |-> escrow[x][a]]
    OBVIOUS
  <2>2. \A x \in Address : f[x] = 0
    BY <1>1, <2>1
  <2>3. SumFunctionOnSet(f, Address) = 0
    BY <2>2, SumZero, ConstantFacts
  <2> QED BY <2>1, <2>3 DEF EscrowTotal
<1>15. \A a \in Asset : Total(balances, a) = 0
  <2> SUFFICES ASSUME NEW a \in Asset PROVE Total(balances, a) = 0
    OBVIOUS
  <2>1. PICK f : f = [x \in Holder |-> balances[x][a]]
    OBVIOUS
  <2>2. \A x \in Holder : f[x] = 0
    BY <1>1, <2>1, ConstantFacts
  <2>3. SumFunctionOnSet(f, Holder) = 0
    BY <2>2, SumZero, ConstantFacts
  <2> QED BY <2>1, <2>3 DEF Total
<1>16. Total(balances, XCP) = SumOver(Funds)
  <2>1. balances \in IntBalances /\ XCP \in Token
    BY <1>3, TypeFields, ConstantFacts
  <2>2. Total(balances, XCP) = balances[Unspendable][XCP]
          + SumFunctionOnSet([x \in Address |-> balances[x][XCP]], Address)
    BY <2>1, TotalSplit
  <2>3. [x \in Address |-> balances[x][XCP]] = Funds
    <3>1. \A x \in Address : balances[x][XCP] = Funds[x]
      BY <1>1, <2>1, ConstantFacts
    <3> QED BY <1>2, <3>1
  <2>4. balances[Unspendable][XCP] = 0
    BY <1>1, <2>1, ConstantFacts
  <2> QED BY <2>2, <2>3, <2>4, FundsType DEF SumOver
<1>17. ConservedOK
  <2>1. \A a \in Asset : destroyed[a] = 0
    BY <1>1, ConstantFacts
  <2>2. destroyed[XCP] = 0
    BY <1>1, ConstantFacts
  <2> QED BY <1>1, <1>12, <1>13, <1>14, <1>15, <1>16, <2>1, <2>2, FundsType DEF ConservedOK, ConservedAt
<1> QED BY <1>3, <1>6, <1>7, <1>8, <1>9, <1>10, <1>11, <1>17 DEF IInv

----------------------------------------------------------------------------
\* Theorems

\* The inductive invariant holds in every state.
THEOREM InvariantHolds == Spec => []IInv
  BY InitInv, IInvNext, PTL DEF Spec

\* Every row keeps its type, and no balance, escrow or sum of mints ever goes below
\* zero: every debit was covered (ledger.debit raises otherwise).
THEOREM TypesAreKept == Spec => []TypeOK
<1>1. IInv => TypeOK
  BY DEF IInv
<1> QED BY <1>1, InvariantHolds, PTL

\* The invariant says what the conservation check and the escrow of mints ask for.
LEMMA CoveredOf ==
  ASSUME IInv
  PROVE  MintEscrowIsCovered
<1>1. /\ \A a \in Asset : Total(balances, a) + EscrowTotal(escrow, a)
                            = RowsSum(issuances[a], "quantity") - destroyed[a]
      /\ Total(balances, XCP) = SumOver(Funds) - (destroyed[XCP] + FeesOf(issuances) + fees)
  BY DEF IInv, ConservedOK, ConservedAt
<1>2. ASSUME NEW s \in Token
      PROVE  Held(s) = Creations(s) - Destructions(s)
  <2>1. CASE s = XCP
    <3>1. Held(s) = Total(balances, XCP) + 0
      BY <2>1 DEF Held, InOrders, Total
    <3>2. Total(balances, XCP) \in Int
      BY TypeFields, TotalType, ConstantFacts DEF IInv
    <3>3. XcpDestroyed = destroyed[XCP] + FeesOf(issuances) + fees
      BY DEF XcpDestroyed, FeesOf, RowSum, RowsSum
    <3> QED BY <1>1, <2>1, <3>1, <3>2, <3>3 DEF Creations, Destructions, XcpCreated
  <2>2. CASE s # XCP
    <3>1. s \in Asset
      BY <2>2, ConstantFacts
    <3>2. Held(s) = Total(balances, s) + EscrowTotal(escrow, s)
      BY <2>2 DEF Held, InOrders, Total, EscrowTotal
    <3> QED BY <1>1, <2>2, <3>1, <3>2, IssuedIsRowsSum DEF Creations, Destructions
  <2> QED BY <2>1, <2>2
<1>3. \A s \in Token : balances[Unspendable][s] >= HeldForAll(fairminters, s)
  BY DEF IInv, CoveredOK
<1> QED BY <1>2, <1>3 DEF MintEscrowIsCovered, AssetConservation, HeldForAll

\* What is held, escrows included, is what was created less what was destroyed, in every
\* state; and UNSPENDABLE holds whatever the fair minters will take from it
\* (check.asset_conservation, soft_cap_deadline_reached).
THEOREM MintEscrowAlwaysCovered == Spec => []MintEscrowIsCovered
<1>1. IInv => MintEscrowIsCovered
  BY CoveredOf
<1> QED BY <1>1, InvariantHolds, PTL

\* The invariant says that no live fair minter is at its cap.
LEMMA CapOf ==
  ASSUME IInv
  PROVE  HardCapUnlessMisled
<1>1. ~misled => ~stopped /\ CapAt(fairminters, issuances, destroyed)
  BY DEF IInv, CapOK
<1>2. \A i \in DOMAIN fairminters : fairminters[i].terms.asset \in Asset
  BY MinterIn
<1> QED BY <1>1, <1>2, IssuedIsRowsSum DEF HardCapUnlessMisled, HardCapHolds, CapAt, TableSupply

\* Unless a decision was taken on a cache that counts refused messages, no fair minter
\* mints above its hard cap, the mint that reaches it closes it, and no mint stops the
\* parser with an exception.
THEOREM CapAlwaysHolds == Spec => []HardCapUnlessMisled
<1>1. IInv => HardCapUnlessMisled
  BY CapOf
<1> QED BY <1>1, InvariantHolds, PTL

\* The invariant says when mintings end.
LEMMA EndsOf ==
  ASSUME IInv
  PROVE  MintingEnds
<1>1. ASSUME NEW a \in Asset
      PROVE  LET live == {i \in OfAsset(a) : fairminters[i].status # "closed"} IN
             /\ \A i, j \in live : i = j
             /\ Exists(a) => (Last(a).fair_minting <=>
                  live # {} \/ \E i \in OfAsset(a) : fairminters[i].late)
  <2>1. MintingAt(fairminters, issuances[a], a)
    BY DEF IInv, MintingOK
  <2>2. OfAsset(a) = OfIn(fairminters, a)
    BY DEF OfAsset, OfIn
  <2> QED BY <2>1, <2>2 DEF MintingAt, LiveIn, LateIn, Exists, Last, LastOf
<1>2. ASSUME NEW i \in DOMAIN fairminters
      PROVE  LET f == fairminters[i] IN
             /\ f.terms.soft_cap > 0 /\ block_index > f.terms.soft_cap_deadline_block => f.settled
             /\ f.terms.end_block > 0 /\ block_index > f.terms.end_block => f.status = "closed"
  <2>1. PICK f : f = fairminters[i]
    OBVIOUS
  <2>2. /\ f \in Fairminter /\ MinterAt(f, block_index, phase) /\ block_index \in Nat
    BY <2>1, MinterIn, TypeFields DEF IInv
  <2>3. f.terms.soft_cap_deadline_block \in Nat
    BY <2>2, MinterFields, TermFields
  <2> QED BY <2>1, <2>2, <2>3 DEF MinterAt
<1> QED BY <1>1, <1>2 DEF MintingEnds

\* An asset has one live fair minter at most, its `fair_minting` tells whether it has
\* one, and soft caps and ends are decided in their block.
THEOREM MintingAlwaysEnds == Spec => []MintingEnds
<1>1. IInv => MintingEnds
  BY EndsOf
<1> QED BY <1>1, InvariantHolds, PTL

\* The rights of the holders of all assets, in one step
RightsKept == \A a \in Asset : LockIsForGood(a) /\ OwnerDecides(a)
\* The last owner named the new one.
Decided(a, to) ==
  misled' \/ \E m \in Issuance : m.asset = a /\ m.destination = to /\ Issue(Last(a).issuer, m)

\* Nothing happens to the rights of an asset that gets no row.
LEMMA NoRowRights ==
  ASSUME NEW a \in Asset, issuances'[a] = issuances[a]
  PROVE  LockIsForGood(a) /\ OwnerDecides(a)
<1>1. /\ Locked(a)' = Locked(a) /\ Issued(a)' = Issued(a) /\ Last(a)' = Last(a)
  BY DEF Locked, Issued, RowSum, Last
<1> QED BY <1>1 DEF LockIsForGood, OwnerDecides

\* What the rows of one asset must keep
LEMMA RowsRights ==
  ASSUME NEW a \in Asset, issuances[a] \in Seq(Row),
         \A k \in DOMAIN issuances[a] : k \in DOMAIN issuances'[a] /\ issuances'[a][k] = issuances[a][k],
         Locked(a) => misled' \/ RowsSum(issuances'[a], "quantity") = RowsSum(issuances[a], "quantity"),
         Exists(a) /\ LastOf(issuances'[a]).issuer # Last(a).issuer =>
           Decided(a, LastOf(issuances'[a]).issuer)
  PROVE  LockIsForGood(a) /\ OwnerDecides(a)
<1>1. Locked(a) => Locked(a)'
  BY DEF Locked
<1>2. Issued(a)' = RowsSum(issuances'[a], "quantity") /\ Issued(a) = RowsSum(issuances[a], "quantity")
  BY DEF Issued, RowSum, RowsSum
<1>3. Last(a)' = LastOf(issuances'[a])
  BY DEF Last, LastOf
<1>4. LockIsForGood(a)
  BY <1>1, <1>2 DEF LockIsForGood
<1>5. OwnerDecides(a)
  BY <1>3 DEF OwnerDecides, Decided
<1> QED BY <1>4, <1>5

\* One row more
LEMMA RowRights ==
  ASSUME IInv, NEW c, c \in Asset, NEW r, r \in Row,
         issuances' = [issuances EXCEPT ![c] = Append(@, r)],
         Locked(c) => misled' \/ r.quantity = 0,
         Exists(c) /\ r.issuer # Last(c).issuer => Decided(c, r.issuer)
  PROVE  RightsKept
<1>1. issuances \in [Asset -> Seq(Row)]
  BY TypeFields DEF IInv
<1>2. IsRowAdded(issuances, issuances', c, r)
  BY ONLY <1>1, c \in Asset, r \in Row, issuances' = [issuances EXCEPT ![c] = Append(@, r)], RowAdded
<1>3. ASSUME NEW a \in Asset, a # c
      PROVE  LockIsForGood(a) /\ OwnerDecides(a)
  <2>1. issuances'[a] = issuances[a]
    BY <1>2, <1>3 DEF IsRowAdded
  <2> QED BY <2>1, NoRowRights
<1>4. LockIsForGood(c) /\ OwnerDecides(c)
  <2>1. issuances[c] \in Seq(Row) /\ issuances'[c] = Append(issuances[c], r)
    BY <1>1, <1>2 DEF IsRowAdded
  <2>2. \A k \in DOMAIN issuances[c] : k \in DOMAIN issuances'[c] /\ issuances'[c][k] = issuances[c][k]
    BY <2>1, AppendLast
  <2>3. LastOf(issuances'[c]) = r
    BY <2>1, AppendLast
  <2>4. /\ RowsSum(issuances[c], "quantity") \in Nat
        /\ RowsSum(issuances'[c], "quantity") = RowsSum(issuances[c], "quantity") + r.quantity
    BY <1>2 DEF IsRowAdded
  <2>5. Locked(c) => misled' \/ RowsSum(issuances'[c], "quantity") = RowsSum(issuances[c], "quantity")
    BY <2>4
  <2>6. Exists(c) /\ LastOf(issuances'[c]).issuer # Last(c).issuer =>
          Decided(c, LastOf(issuances'[c]).issuer)
    BY <2>3
  <2> QED BY <2>1, <2>2, <2>5, <2>6, RowsRights
<1> QED BY <1>3, <1>4 DEF RightsKept

\* get_asset() and the last row name the same owner.
LEMMA OwnerOf ==
  ASSUME IInv, NEW a \in Asset, Exists(a)
  PROVE  NewestOf(issuances[a]).issuer = Last(a).issuer
<1>1. issuances[a] \in Seq(Row) /\ RowsAt(issuances[a], txs, cache.last[a])
  BY TypeFields DEF IInv, RowsOK
<1> QED BY <1>1, LastNewest DEF Exists, Last, LastOf

\* Issuances
LEMMA IssueRights ==
  ASSUME IInv, NEW source \in Address, NEW m \in Issuance, Issue(source, m)
  PROVE  RightsKept
<1>1. PICK r, a : r = IssuanceRow(source, m) /\ a = m.asset
  OBVIOUS
<1>2. r \in Row /\ a \in Asset
  BY <1>1, RowTypes DEF IInv
<1>3. issuances' = [issuances EXCEPT ![a] = Append(@, r)]
  BY <1>1 DEF Issue
<1>4. r.quantity = m.quantity /\ ~m.reset
  BY <1>1 DEF IssuanceRow, Issue
<1>5. Locked(a) => r.quantity = 0
  <2>1. Locked(a) => Exists(a)
    BY <1>2, EmptySeq DEF Locked, Exists
  <2> QED BY <1>1, <1>4, <2>1 DEF Issue, MayIssue, MayReissue
<1>6. ASSUME Exists(a), r.issuer # Last(a).issuer
      PROVE  Decided(a, r.issuer)
  <2>1. Last(a).issuer = source
    BY <1>1, <1>6 DEF Issue, MayIssue, MayReissue
  <2>2. r.issuer = m.destination
    BY <1>1, <1>4, <1>6, <2>1 DEF IssuanceRow
  <2> QED BY <1>1, <2>1, <2>2 DEF Decided
<1> QED BY <1>2, <1>3, <1>5, <1>6, RowRights

\* A reset is its owner's, and of an asset that is not locked.
LEMMA ResetRights ==
  ASSUME IInv, NEW source \in Address, NEW m \in Issuance, Reset(source, m)
  PROVE  RightsKept
<1>1. PICK r, a : r = IssuanceRow(source, m) /\ a = m.asset
  OBVIOUS
<1>2. r \in Row /\ a \in Asset
  BY <1>1, RowTypes DEF IInv
<1>3. issuances' = [issuances EXCEPT ![a] = Append(@, r)] /\ m.reset
  BY <1>1 DEF Reset
<1>4. Exists(a) /\ Last(a).issuer = source /\ ~Locked(a)
  BY <1>1, <1>3 DEF Reset, MayIssue, MayReissue, MayCreate
<1>5. r.issuer = source
  BY <1>1, <1>3 DEF IssuanceRow
<1> QED BY <1>2, <1>3, <1>4, <1>5, RowRights

\* A fair minter
LEMMA FairminterRights ==
  ASSUME IInv, NEW source \in Address, NEW t \in Terms, ParseFairminter(source, t)
  PROVE  RightsKept
<1>1. PICK r, a : r = OpeningRow(source, t) /\ a = t.asset
  OBVIOUS
<1>2. r \in Row /\ a \in Asset
  BY <1>1, RowTypes, FairmintersAssumption, TermFields DEF IInv
<1>3. issuances' = [issuances EXCEPT ![a] = Append(@, r)] /\ (Exists(a) => MayMintMore(source, t))
  BY <1>1 DEF ParseFairminter
<1>4. r.issuer = source
  BY <1>1 DEF OpeningRow
<1>5. ~Locked(a)
  <2>1. Locked(a) => Exists(a)
    BY <1>2, EmptySeq DEF Locked, Exists
  <2> QED BY <1>1, <1>3, <2>1 DEF MayMintMore
<1>6. Exists(a) => r.issuer = Last(a).issuer
  <2>1. Exists(a) => NewestOf(issuances[a]).issuer = source
    BY <1>1, <1>3 DEF MayMintMore, Newest, NewestOf
  <2> QED BY <1>2, <1>4, <2>1, OwnerOf
<1> QED BY <1>2, <1>3, <1>5, <1>6, RowRights

\* The row that ends the minting
LEMMA CloseRights ==
  ASSUME IInv, NEW i \in DOMAIN fairminters,
         issuances' = [issuances EXCEPT ![fairminters[i].terms.asset] = Append(@, CloseRow(fairminters[i]))]
  PROVE  RightsKept
<1>1. PICK r, a : r = CloseRow(fairminters[i]) /\ a = fairminters[i].terms.asset
  OBVIOUS
<1>2. r \in Row /\ a \in Asset /\ r.quantity = 0 /\ r.issuer = NewestOf(issuances[a]).issuer
      /\ Exists(a)
  BY <1>1, CloseRowOf, MinterIn
<1>3. r.issuer = Last(a).issuer
  BY <1>2, OwnerOf
<1>4. issuances' = [issuances EXCEPT ![a] = Append(@, r)]
  BY <1>1
<1> QED BY <1>2, <1>3, <1>4, RowRights

\* A mint
LEMMA MintRights ==
  ASSUME IInv, phase = "parsing", NEW source \in Address, NEW i \in DOMAIN fairminters,
         NEW q \in MintQuantity, MayMint(source, fairminters[i], q),
         ~(MintTotal(fairminters[i].terms, q) < 0), Mint(source, i, q), ReadsTheCache
  PROVE  RightsKept
<1>1. PICK f, a, h, r0, row, closing, hits, total :
        MintDone(i, f, q, a, h, r0, row, closing, hits, total)
  BY MintWrites
<1>2. f = fairminters[i] /\ f.status = "open"
  BY <1>1 DEF MintDone, MayMint
<1>3. /\ a \in Asset /\ issuances[a] \in Seq(Row) /\ issuances[a] # <<>>
      /\ LiveIn(fairminters, a) = {i}
  BY <1>1, <1>2, MintHere
<1>4. /\ issuances' = [issuances EXCEPT ![a] = (IF closing THEN Append(@, r0) ELSE @) \o <<row>>]
      /\ r0 \in Row /\ row \in Row /\ row.issuer = cache.last[a].issuer
  BY <1>1 DEF MintDone
<1>5. issuances \in [Asset -> Seq(Row)] /\ misled \in BOOLEAN /\ UnlockedOK
  BY TypeFields DEF IInv
<1>6. ~misled' => ~misled /\ cache = CacheOfTables
  BY <1>5 DEF ReadsTheCache
<1>7. /\ issuances'[a] = (IF closing THEN Append(issuances[a], r0) ELSE issuances[a]) \o <<row>>
      /\ \A b \in Asset : b # a => issuances'[b] = issuances[b]
  BY <1>3, <1>4, <1>5
<1>8. ASSUME NEW b \in Asset, b # a
      PROVE  LockIsForGood(b) /\ OwnerDecides(b)
  BY <1>7, <1>8, NoRowRights
<1>9. LockIsForGood(a) /\ OwnerDecides(a)
  <2>1. PICK mid : mid = IF closing THEN Append(issuances[a], r0) ELSE issuances[a]
    OBVIOUS
  <2>2. /\ mid \in Seq(Row)
        /\ \A k \in DOMAIN issuances[a] : k \in DOMAIN mid /\ mid[k] = issuances[a][k]
    BY <1>3, <1>4, <2>1, AppendLast
  <2>3. issuances'[a] = Append(mid, row)
    BY <1>7, <2>1, <2>2
  <2>4. /\ \A k \in DOMAIN mid : k \in DOMAIN issuances'[a] /\ issuances'[a][k] = mid[k]
        /\ LastOf(issuances'[a]) = row
    <3>1. /\ LastOf(Append(mid, row)) = row
          /\ \A k \in DOMAIN mid : k \in DOMAIN Append(mid, row) /\ Append(mid, row)[k] = mid[k]
      BY <1>4, <2>2, AppendLast
    <3> QED BY <2>3, <3>1
  <2>5. Locked(a) => misled'
    BY <1>3, <1>5, <1>6 DEF UnlockedOK, UnlockedAt, Locked
  <2>6. row.issuer # Last(a).issuer => misled'
    <3>1. ~misled' => cache.last[a] = Last(a)
      BY <1>3, <1>6 DEF CacheOfTables, Exists
    <3> QED BY <1>4, <3>1
  <2>7. \A k \in DOMAIN issuances[a] : k \in DOMAIN issuances'[a] /\ issuances'[a][k] = issuances[a][k]
    BY <2>2, <2>4
  <2>8. Exists(a) /\ LastOf(issuances'[a]).issuer # Last(a).issuer =>
          Decided(a, LastOf(issuances'[a]).issuer)
    BY <2>4, <2>6 DEF Decided
  <2> QED BY <1>3, <2>5, <2>7, <2>8, RowsRights
<1> QED BY <1>8, <1>9 DEF RightsKept

\* Without a row nothing happens to any right.
LEMMA QuietRights ==
  ASSUME issuances' = issuances
  PROVE  RightsKept
<1>1. ASSUME NEW a \in Asset
      PROVE  LockIsForGood(a) /\ OwnerDecides(a)
  <2>1. issuances'[a] = issuances[a]
    OBVIOUS
  <2> QED BY <2>1, NoRowRights
<1> QED BY <1>1 DEF RightsKept

\* Every step keeps the rights of all holders.
LEMMA StepRights ==
  ASSUME IInv, Next
  PROVE  RightsKept
<1>1. CASE Transaction /\ ParseAssets
  <2>1. ASSUME NEW source \in Address, NEW m \in Issuance, ParseIssuance(source, m)
        PROVE  RightsKept
    <3>1. LoseReset(source, m) \/ RefuseIssuance(source, m) => issuances' = issuances
      BY DEF LoseReset, RefuseIssuance
    <3> QED BY <2>1, <3>1, IssueRights, ResetRights, QuietRights DEF ParseIssuance
  <2>2. \A source \in Address :
          /\ \A s \in Token, q \in Destroy : ParseDestroy(source, s, q) => issuances' = issuances
          /\ \A a \in Asset, s \in Token, n \in PerUnit :
               ParseDividend(source, a, s, n) => issuances' = issuances
          /\ \A a \in Asset, q \in OrderQuantity : ParseOrder(source, a, q) => issuances' = issuances
          /\ \A a \in Asset : CancelOrder(source, a) => issuances' = issuances
    BY DEF ParseDestroy, ParseDividend, ParseOrder, CancelOrder
  <2> QED BY <1>1, <2>1, <2>2, QuietRights DEF ParseAssets
<1>2. CASE Transaction /\ ~ParseAssets
  <2>1. phase = "parsing"
    BY <1>2 DEF Transaction
  <2>2. PICK source \in Address : \/ \E t \in Terms : ParseFairminter(source, t)
                                  \/ \E a \in Asset, q \in MintQuantity : ParseFairmint(source, a, q)
    BY <1>2 DEF Transaction
  <2>3. ASSUME NEW a \in Asset, NEW q \in MintQuantity, ParseFairmint(source, a, q)
        PROVE  RightsKept
    <3>1. /\ OfAsset(a) # {} /\ MayMint(source, fairminters[Max(OfAsset(a))], q) /\ ReadsTheCache
      BY <2>3 DEF ParseFairmint
    <3>2. CASE MintFails(a, q)
      <4>1. issuances' = issuances
        BY <2>3, <3>2 DEF ParseFairmint, StopMint
      <4> QED BY <4>1, QuietRights
    <3>3. CASE ~MintFails(a, q)
      <4>1. PICK i : i = Max(OfAsset(a))
        OBVIOUS
      <4>2. i \in DOMAIN fairminters
        BY <3>1, <4>1, MintsLast
      <4>3. /\ MayMint(source, fairminters[i], q) /\ ~(MintTotal(fairminters[i].terms, q) < 0)
            /\ Mint(source, i, q)
        BY <2>3, <3>1, <3>3, <4>1 DEF ParseFairmint, MintFails
      <4> QED BY <2>1, <3>1, <4>2, <4>3, MintRights
    <3> QED BY <3>2, <3>3
  <2> QED BY <2>2, <2>3, FairminterRights
<1>3. CASE EndTransactions \/ NextBlock
  <2>1. issuances' = issuances
    BY <1>3 DEF EndTransactions, NextBlock, asset_vars, Restart
  <2> QED BY <2>1, QuietRights
<1>4. ASSUME NEW i \in DOMAIN fairminters,
             OpenFairminter(i) \/ SettleSoftCap(i) \/ CloseFairminter(i)
      PROVE  RightsKept
  <2>1. \/ issuances' = issuances
        \/ issuances' = [issuances EXCEPT ![fairminters[i].terms.asset] = Append(@, CloseRow(fairminters[i]))]
    BY <1>4 DEF OpenFairminter, SettleSoftCap, CloseFairminter
  <2> QED BY <2>1, QuietRights, CloseRights
<1> QED BY <1>1, <1>2, <1>3, <1>4 DEF Next

\* A lock is for good, and an asset changes hands only by an issuance of its owner, unless
\* a fair mint copied a refused row from the cache.
THEOREM RightsAreAlwaysKept == Spec => RightsAreKept
<1>1. IInv /\ [Next]_vars => [\A a \in Asset : LockIsForGood(a) /\ OwnerDecides(a)]_vars
  BY StepRights DEF RightsKept
<1> QED BY <1>1, InvariantHolds, PTL DEF Spec, RightsAreKept
=============================================================================
