-------------------------------- MODULE Assets --------------------------------
(***************************************************************************)
(* The tables that say what an asset is and who owns it (`issuances`,      *)
(* `destructions`), the copy of them in memory (ledger.AssetCache), and    *)
(* the messages that write them: issuance, reset, destroy, dividend        *)
(* (messages/issuance.py, destroy.py, dividend.py).  Rules of mainnet      *)
(* after block 866000.  Fairminters.tla adds the fair minters.             *)
(*                                                                         *)
(* An asset is named by its name or by its long name; the name drawn for a *)
(* subasset and the text of a description are left out.                    *)
(***************************************************************************)
EXTENDS Integers, Sequences, FiniteSets, FiniteSetsExt

CONSTANTS
  Address,
  Unspendable,     \* config.UNSPENDABLE, the address nobody can spend from
  NoAddress,
  Asset, XCP,
  NoAsset,
  Parent,          \* the parent of a subasset, or NoAsset
  Named,           \* the assets whose first issuance costs IssuanceFee
  Funds,           \* the XCP of each address at first
  IssuanceFee,     \* 0.5 XCP
  HolderFee,       \* what a dividend costs for each holder
  Unit,            \* config.UNIT, the units of a divisible asset
  MaxInt,          \* config.MAX_INT
  Issuance,        \* bound: issuance messages
  Destroy,         \* bound: the quantities of destroy messages
  PerUnit,         \* bound: the quantity_per_unit of dividends
  OrderQuantity,   \* bound: what an order puts in escrow
  MaxTxs           \* bound: transactions

Holder == Address \cup {Unspendable}
Token == Asset \cup {XCP}

Issuances ==
  [asset : Asset, quantity : Nat, divisible : BOOLEAN,
   lock : {"no", "quantity", "description"}, reset : BOOLEAN,
   destination : Address \cup {NoAddress}]

\* A row of the table `issuances`.
Row == [tx_index : Nat, quantity : Nat, issuer : Address \cup {NoAddress},
        divisible : BOOLEAN, locked : BOOLEAN, description_locked : BOOLEAN,
        fair_minting : BOOLEAN, fee_paid : Nat]
NoRow == [tx_index |-> 0, quantity |-> 0, issuer |-> NoAddress, divisible |-> FALSE,
          locked |-> FALSE, description_locked |-> FALSE, fair_minting |-> FALSE,
          fee_paid |-> 0]

ASSUME AssetsAssumption ==
  /\ {Unspendable, NoAddress} \cap Address = {} /\ {XCP, NoAsset} \cap Asset = {}
  /\ Unspendable # NoAddress /\ IsFiniteSet(Address) /\ IsFiniteSet(Asset)
  /\ Parent \in [Asset -> Asset \cup {NoAsset}] /\ Named \subseteq Asset
  /\ Funds \in [Address -> Nat]
  /\ {IssuanceFee, HolderFee, MaxInt, MaxTxs} \subseteq Nat /\ Unit \in Nat \ {0}
  /\ Issuance \subseteq Issuances
  /\ Destroy \subseteq Nat /\ PerUnit \subseteq Nat \ {0}
  /\ OrderQuantity \subseteq Nat \ {0}

VARIABLES
  txs,             \* the index of the last transaction
  balances,
  escrow,          \* what is in the open orders of each address
  issuances,       \* the valid rows of each asset, by rowid
  destroyed,       \* the sum of the valid destructions of each token
  fees,            \* the sum of the fees of dividends
  cache,           \* AssetCache
  misled,          \* a step has read the cache while it differed from the tables
  first            \* the issuer in the first row of each asset, valid or not

asset_vars == <<txs, balances, escrow, issuances, destroyed, fees, cache, misled, first>>

AssetInit ==
  /\ txs = 0 /\ fees = 0 /\ misled = FALSE
  /\ balances = [x \in Holder |-> [s \in Token |->
                   IF s = XCP /\ x \in Address THEN Funds[x] ELSE 0]]
  /\ escrow = [x \in Address |-> [a \in Asset |-> 0]]
  /\ issuances = [a \in Asset |-> <<>>]
  /\ destroyed = [s \in Token |-> 0]
  /\ cache = [last |-> [a \in Asset |-> NoRow], issued |-> [a \in Asset |-> 0],
              destroyed |-> [s \in Token |-> 0]]
  /\ first = [a \in Asset |-> NoAddress]

----------------------------------------------------------------------------
\* Queries

Exists(a) == issuances[a] # <<>>

\* The last row by rowid: get_issuances()[-1], and AssetCache.
Last(a) == issuances[a][Len(issuances[a])]

\* get_asset() sorts by tx_index only: among the rows of one transaction it takes
\* the one that was inserted first.
Newest(a) ==
  LET newest == {i \in DOMAIN issuances[a] :
                   \A j \in DOMAIN issuances[a] :
                     issuances[a][j].tx_index <= issuances[a][i].tx_index}
  IN issuances[a][Min(newest)]

Locked(a) == \E i \in DOMAIN issuances[a] : issuances[a][i].locked

RowSum(a, field) ==
  SumFunctionOnSet([i \in DOMAIN issuances[a] |-> issuances[a][i][field]], DOMAIN issuances[a])
Issued(a) == RowSum(a, "quantity")

\* What AssetCache.init() reads: the rows whose status is valid.
CacheOfTables ==
  [last |-> [a \in Asset |-> IF Exists(a) THEN Last(a) ELSE NoRow],
   issued |-> [a \in Asset |-> Issued(a)], destroyed |-> destroyed]

\* asset_supply(), of the cache
Supply(a) == cache.issued[a] - cache.destroyed[a]
ReadsTheCache == misled' = (misled \/ cache # CacheOfTables)

\* insert_record() of a row, whatever its status
AddIssuance(c, a, r) == [c EXCEPT !.last[a] = r, !.issued[a] = @ + r.quantity]
Recorded(a, r) == first' = [first EXCEPT ![a] = IF @ = NoAddress THEN r.issuer ELSE @]
AddDestroyed(c, s, q) == [c EXCEPT !.destroyed[s] = @ + q]

Move(b, x, s, q) == [b EXCEPT ![x][s] = @ + q]

----------------------------------------------------------------------------
\* Issuances

Fee(a) == IF ~Exists(a) /\ a \in Named THEN IssuanceFee ELSE 0

\* The check of the lock before issuance_lock_fix: the last row only.
MayReissue(source, m) ==
  LET last == Last(m.asset) IN
  /\ last.issuer = source /\ ~last.fair_minting /\ ~last.description_locked
  /\ m.divisible = last.divisible \/ m.reset
  /\ Locked(m.asset) => m.quantity = 0 /\ ~m.reset

MayCreate(source, m) ==
  /\ ~m.reset
  /\ Parent[m.asset] # NoAsset =>
       Exists(Parent[m.asset]) /\ Last(Parent[m.asset]).issuer = source
  /\ balances[source][XCP] >= Fee(m.asset)

Holders(a) == {x \in Holder : balances[x][a] > 0}

\* The balances that a reset destroys are all its owner's.  What orders hold in
\* escrow is in no balance.
HeldByOwner(a) ==
  /\ Holders(a) \subseteq {Last(a).issuer}
  /\ Holders(a) = {} => Supply(a) <= 0

MayIssue(source, m) ==
  /\ IF Exists(m.asset) THEN MayReissue(source, m) ELSE MayCreate(source, m)
  /\ m.quantity <= MaxInt
  /\ ~m.reset => Issued(m.asset) + m.quantity <= MaxInt
  /\ m.reset => HeldByOwner(m.asset)

IssuanceRow(source, m) ==
  [tx_index |-> txs + 1, quantity |-> m.quantity,
   issuer |-> IF m.destination = NoAddress \/ m.reset THEN source ELSE m.destination,
   divisible |-> m.divisible, locked |-> m.lock = "quantity",
   description_locked |-> m.lock = "description" /\ ~m.reset,
   fair_minting |-> FALSE, fee_paid |-> Fee(m.asset)]

\* The quantity goes to the source, whoever the asset is given to.
Issue(source, m) ==
  /\ MayIssue(source, m) /\ ~m.reset
  /\ issuances' = [issuances EXCEPT ![m.asset] = Append(@, IssuanceRow(source, m))]
  /\ cache' = AddIssuance(cache, m.asset, IssuanceRow(source, m))
  /\ balances' = Move(Move(balances, source, XCP, -Fee(m.asset)),
                      source, m.asset, m.quantity)
  /\ Recorded(m.asset, IssuanceRow(source, m))
  /\ UNCHANGED <<escrow, destroyed, fees, misled>>

\* With no holder left, parse() takes for the owner the issuer of the first row of
\* the asset ("ORDER BY rowid, tx_index DESC"); if that is another address, the
\* reset leaves no trace.
ResetIsLost(a, source) == Holders(a) = {} /\ first[a] # source

Reset(source, m) ==
  LET old == balances[source][m.asset] IN
  /\ MayIssue(source, m) /\ m.reset /\ ~ResetIsLost(m.asset, source)
  /\ issuances' = [issuances EXCEPT ![m.asset] = Append(@, IssuanceRow(source, m))]
  /\ destroyed' = [destroyed EXCEPT ![m.asset] = @ + old]
  /\ cache' = AddIssuance(AddDestroyed(cache, m.asset, old),
                          m.asset, IssuanceRow(source, m))
  /\ balances' = [balances EXCEPT ![source][m.asset] = m.quantity]
  /\ ReadsTheCache
  /\ UNCHANGED <<escrow, fees, first>>

LoseReset(source, m) ==
  /\ MayIssue(source, m) /\ m.reset /\ ResetIsLost(m.asset, source)
  /\ ReadsTheCache
  /\ UNCHANGED <<balances, escrow, issuances, destroyed, fees, cache, first>>

\* A refused issuance is inserted with an invalid status: no query of the table
\* returns it, but it enters the cache as the asset's last issuance.
RefusedRow(source, m) ==
  [IssuanceRow(source, m) EXCEPT
     !.issuer = IF m.destination = NoAddress THEN source ELSE m.destination,
     !.description_locked = FALSE,
     !.fair_minting = Exists(m.asset) /\ Last(m.asset).fair_minting]

RefuseIssuance(source, m) ==
  /\ ~MayIssue(source, m)
  /\ cache' = AddIssuance(cache, m.asset, RefusedRow(source, m))
  /\ Recorded(m.asset, RefusedRow(source, m))
  /\ misled' = (misled \/ (m.reset /\ Exists(m.asset) /\ cache # CacheOfTables))
  /\ UNCHANGED <<balances, escrow, issuances, destroyed, fees>>

ParseIssuance(source, m) ==
  Issue(source, m) \/ Reset(source, m) \/ LoseReset(source, m) \/ RefuseIssuance(source, m)

----------------------------------------------------------------------------
\* Destructions: a refused one counts in the cache too.
ParseDestroy(source, s, q) ==
  LET valid == balances[source][s] >= q IN
  /\ s # XCP => Exists(s)
  /\ q <= MaxInt
  /\ cache' = AddDestroyed(cache, s, q)
  /\ balances' = IF valid THEN Move(balances, source, s, -q) ELSE balances
  /\ destroyed' = IF valid THEN [destroyed EXCEPT ![s] = @ + q] ELSE destroyed
  /\ UNCHANGED <<escrow, issuances, fees, misled, first>>

----------------------------------------------------------------------------
\* Dividends, for every holder but the source, by address and by escrow

DividendOf(a, per_unit, q) ==
  IF Newest(a).divisible THEN (q * per_unit) \div Unit ELSE q * per_unit

EscrowOf(x, a) == IF x \in Address THEN escrow[x][a] ELSE 0

\* validate(): what each holder gets, and what it costs the source
DividendHolders(source, a) ==
  {x \in Holder \ {source} : balances[x][a] > 0 \/ EscrowOf(x, a) > 0}
DividendOutput(x, a, per_unit) ==
  DividendOf(a, per_unit, balances[x][a]) + DividendOf(a, per_unit, EscrowOf(x, a))
DividendTotal(source, a, per_unit) ==
  SumFunctionOnSet([x \in Holder |-> DividendOutput(x, a, per_unit)],
                   DividendHolders(source, a))
DividendFee(source, a) == HolderFee * Cardinality(DividendHolders(source, a))
DividendCost(source, a, s, per_unit, t) ==
  (IF t = s THEN DividendTotal(source, a, per_unit) ELSE 0)
    + (IF t = XCP THEN DividendFee(source, a) ELSE 0)
MayPayDividend(source, a, s, per_unit) ==
  /\ Exists(a) /\ Newest(a).issuer = source
  /\ s # XCP => Exists(s)
  /\ DividendTotal(source, a, per_unit) \in 1..MaxInt
  /\ \A t \in Token : balances[source][t] >= DividendCost(source, a, s, per_unit, t)

ParseDividend(source, a, s, per_unit) ==
  /\ MayPayDividend(source, a, s, per_unit)
  /\ balances' = [x \in Holder |-> [t \in Token |->
       balances[x][t]
         - (IF x = source THEN DividendCost(source, a, s, per_unit, t) ELSE 0)
         + (IF x \in DividendHolders(source, a) /\ t = s
              THEN DividendOutput(x, a, per_unit) ELSE 0)]]
  /\ fees' = fees + DividendFee(source, a)
  /\ UNCHANGED <<escrow, issuances, destroyed, cache, misled, first>>

----------------------------------------------------------------------------
\* Orders, as far as assets go: what one gives leaves the balance for the escrow,
\* and comes back when it is cancelled or expires.

ParseOrder(source, a, q) ==
  /\ balances[source][a] >= q
  /\ balances' = Move(balances, source, a, -q)
  /\ escrow' = [escrow EXCEPT ![source][a] = @ + q]
  /\ UNCHANGED <<issuances, destroyed, fees, cache, misled, first>>

CancelOrder(source, a) ==
  /\ escrow[source][a] > 0
  /\ balances' = Move(balances, source, a, escrow[source][a])
  /\ escrow' = [escrow EXCEPT ![source][a] = 0]
  /\ UNCHANGED <<issuances, destroyed, fees, cache, misled, first>>

\* The process starts again: AssetCache.init() reads the tables.
Restart ==
  /\ cache' = CacheOfTables
  /\ UNCHANGED <<txs, balances, escrow, issuances, destroyed, fees, misled, first>>

ParseAssets ==
  /\ txs' = txs + 1
  /\ \E source \in Address :
       \/ \E m \in Issuance : ParseIssuance(source, m)
       \/ \E s \in Token, q \in Destroy : ParseDestroy(source, s, q)
       \/ \E a \in Asset, s \in Token, n \in PerUnit : ParseDividend(source, a, s, n)
       \/ \E a \in Asset, q \in OrderQuantity : ParseOrder(source, a, q)
       \/ \E a \in Asset : CancelOrder(source, a)

=============================================================================
