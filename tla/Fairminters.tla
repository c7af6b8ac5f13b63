------------------------------ MODULE Fairminters ------------------------------
(***************************************************************************)
(* Fair minters (messages/fairminter.py, messages/fairmint.py): an asset   *)
(* that anybody may mint, at a price or for free, from start_block to      *)
(* end_block and up to a hard cap.  While a soft cap has not been reached  *)
(* what is minted and what is paid for it is held at UNSPENDABLE; at the   *)
(* deadline it is delivered, or the payments go back and the units are     *)
(* destroyed.  Nobody can issue the asset meanwhile (`fair_minting`).      *)
(*                                                                         *)
(* A block is parsed as before_block (opening), its transactions,          *)
(* after_block (deadlines, then closing).                                  *)
(***************************************************************************)
EXTENDS Assets

CONSTANTS
  Terms,           \* bound: fair minter messages
  MintQuantity,    \* bound: the quantities of fair mints
  CommissionUnit,  \* 10^8: a commission of n is n / CommissionUnit
  FirstBlock, LastBlock    \* bound: blocks; the genesis block, 0, is never parsed

TermRecords ==
  [asset : Asset, price : Nat, quantity_by_price : Nat \ {0}, max_mint_per_tx : Nat,
   hard_cap : Nat, premint_quantity : Nat, start_block : Nat, end_block : Nat,
   soft_cap : Nat, soft_cap_deadline_block : Nat, minted_asset_commission : Nat,
   burn_payment : BOOLEAN, lock_quantity : BOOLEAN, lock_description : BOOLEAN,
   divisible : BOOLEAN, new_description : BOOLEAN]

ASSUME FairmintersAssumption ==
  /\ Terms \subseteq TermRecords
  /\ \A t \in Terms : t.minted_asset_commission < CommissionUnit
  /\ MintQuantity \subseteq Nat
  /\ {CommissionUnit, FirstBlock, LastBlock} \subseteq Nat
  /\ 0 < FirstBlock /\ FirstBlock <= LastBlock

VARIABLES
  block_index,
  phase,           \* "parsing" the transactions, or "after" them
  fairminters,     \* with the sums of their rows in `fairmints`
  stopped          \* an exception ended the parsing

vars == <<asset_vars, block_index, phase, fairminters, stopped>>

\* A fair minter: its terms and the sums over its fair mints: what each address
\* has earned and paid, and the commissions.  `settled` says that its soft cap
\* was decided, `late` that it was past its end when it was parsed.
Fairminter ==
  [terms : TermRecords, source : Address, status : {"pending", "open", "closed"},
   pre_minted : BOOLEAN, earned : [Address -> Nat], paid : [Address -> Nat],
   commission : Nat, settled : BOOLEAN, late : BOOLEAN]

Init ==
  /\ AssetInit
  /\ block_index = FirstBlock /\ phase = "parsing" /\ fairminters = <<>>
  /\ stopped = FALSE

----------------------------------------------------------------------------
\* fairminter.validate and parse

WellFormed(t) ==
  /\ t.price > 0 \/ t.max_mint_per_tx > 0
  /\ t.end_block > 0 => t.start_block <= t.end_block
  /\ t.hard_cap > 0 => t.soft_cap < t.hard_cap
  /\ t.soft_cap > 0 =>
       /\ t.soft_cap_deadline_block > t.start_block
       /\ t.soft_cap_deadline_block > block_index
       /\ t.end_block > 0 => t.soft_cap_deadline_block < t.end_block

MayMintMoreOfOthers(source, t) ==
  LET asset == Newest(t.asset) IN
  /\ ~asset.fair_minting /\ ~Locked(t.asset)
  /\ t.hard_cap > 0 => Supply(t.asset) + t.premint_quantity < t.hard_cap
  /\ asset.divisible = t.divisible
\* Questions to get_asset(): its answer is stale until the transaction after a close.
MayMintMore(source, t) ==
  LET asset == Newest(t.asset) IN
  /\ ~asset.fair_minting /\ ~Locked(t.asset) /\ asset.issuer = source
  /\ ~(t.new_description /\ asset.description_locked)
  /\ t.hard_cap > 0 => Supply(t.asset) + t.premint_quantity < t.hard_cap
  /\ asset.divisible = t.divisible

\* Unlike an issuance, it does not ask who owns the parent of a subasset.
MayMintNew(source, t) ==
  /\ t.premint_quantity > 0 /\ t.hard_cap > 0 => t.premint_quantity < t.hard_cap
  /\ Parent[t.asset] # NoAsset => Exists(Parent[t.asset])
  /\ balances[source][XCP] >= Fee(t.asset)

StatusAt(t) ==
  IF t.end_block > 0 /\ block_index > t.end_block THEN "closed"
  ELSE IF t.start_block = 0 \/ block_index >= t.start_block THEN "open" ELSE "pending"
PreMinted(t) == StatusAt(t) = "open" /\ t.premint_quantity > 0 /\ t.soft_cap = 0

\* The row of the issuance, and who holds the premint until the fair minter opens
OpeningRow(source, t) ==
  [NoRow EXCEPT !.tx_index = txs + 1, !.quantity = t.premint_quantity,
                !.issuer = source, !.divisible = t.divisible,
                !.fair_minting = TRUE, !.fee_paid = Fee(t.asset)]
Preminted(source, t) ==
  Move(Move(balances, IF PreMinted(t) THEN source ELSE Unspendable, t.asset,
            t.premint_quantity),
       source, XCP, -Fee(t.asset))

ParseFairminter(source, t) ==
  LET nothing == [x \in Address |-> 0] IN
  /\ WellFormed(t)
  /\ IF Exists(t.asset) THEN MayMintMore(source, t) ELSE MayMintNew(source, t)
  /\ fairminters' = Append(fairminters,
       [terms |-> t, source |-> source, status |-> StatusAt(t),
        pre_minted |-> PreMinted(t), earned |-> nothing, paid |-> nothing,
        commission |-> 0, settled |-> FALSE, late |-> StatusAt(t) = "closed"])
  /\ issuances' = [issuances EXCEPT ![t.asset] = Append(@, OpeningRow(source, t))]
  /\ cache' = AddIssuance(cache, t.asset, OpeningRow(source, t))
  /\ Recorded(t.asset, OpeningRow(source, t))
  /\ balances' = Preminted(source, t)
  /\ misled' = (misled \/ (Exists(t.asset) /\ cache # CacheOfTables))
  /\ UNCHANGED <<escrow, destroyed, fees, block_index, phase, stopped>>

----------------------------------------------------------------------------
\* Soft cap and closing

SumOver(f) == SumFunctionOnSet(f, Address)
Minted(f) == SumOver(f.earned) + f.commission
Paid(f) == SumOver(f.paid)
SoftCapReached(f) == Minted(f) >= f.terms.soft_cap

\* soft_cap_deadline_reached(): what UNSPENDABLE held goes to the minters and to the
\* source; or the payments go back.
Share(f, x, s) ==
  LET mine == x = f.source IN
  IF s = XCP THEN
    IF ~SoftCapReached(f) THEN f.paid[x]
    ELSE IF mine /\ ~f.terms.burn_payment THEN Paid(f) ELSE 0
  ELSE IF SoftCapReached(f) THEN
    f.earned[x] + (IF mine THEN f.commission + f.terms.premint_quantity ELSE 0)
  ELSE 0

Settled(b, f) ==
  LET held(s) == IF s = XCP THEN Paid(f) ELSE Minted(f) + f.terms.premint_quantity IN
  [x \in Holder |-> [s \in Token |->
     IF s \notin {XCP, f.terms.asset} THEN b[x][s]
     ELSE b[x][s] + IF x = Unspendable THEN -held(s) ELSE Share(f, x, s)]]

Lost(f, s) ==
  IF s = XCP THEN IF SoftCapReached(f) /\ f.terms.burn_payment THEN Paid(f) ELSE 0
  ELSE IF s = f.terms.asset /\ ~SoftCapReached(f)
         THEN Minted(f) + f.terms.premint_quantity ELSE 0
Losing(f, d) == [s \in Token |-> d[s] + Lost(f, s)]

\* close_fairminter() copies the row that get_asset() returns, tx_index included.
CloseRowStillMinting(f) ==
  [Newest(f.terms.asset) EXCEPT !.quantity = 0, !.fee_paid = 0]
CloseRow(f) ==
  LET a == f.terms.asset IN
  [Newest(a) EXCEPT !.quantity = 0, !.fair_minting = FALSE, !.fee_paid = 0,
     !.locked = Locked(a) \/ f.terms.lock_quantity,
     !.description_locked = @ \/ f.terms.lock_description]

ToOpen == {i \in DOMAIN fairminters :
             /\ fairminters[i].terms.start_block = block_index
             /\ fairminters[i].status = "pending"}
ToSettle == {i \in DOMAIN fairminters :
               /\ fairminters[i].terms.soft_cap > 0 /\ ~fairminters[i].settled
               /\ fairminters[i].terms.soft_cap_deadline_block = block_index
               /\ fairminters[i].status = "open"}
ToClose == {i \in DOMAIN fairminters :
              /\ fairminters[i].terms.end_block = block_index
              /\ fairminters[i].status # "closed"}

\* open_fairminters()
OpenFairminter(i) ==
  LET f == fairminters[i]
      a == f.terms.asset
      unescrowed == f.terms.premint_quantity > 0 /\ f.terms.soft_cap = 0
  IN
  /\ phase = "parsing" /\ i \in ToOpen
  /\ fairminters' = [fairminters EXCEPT ![i].status = "open",
                                        ![i].pre_minted = @ \/ unescrowed]
  /\ balances' = IF unescrowed
       THEN Move(Move(balances, Unspendable, a, -f.terms.premint_quantity),
                 f.source, a, f.terms.premint_quantity)
       ELSE balances
  /\ UNCHANGED <<txs, escrow, issuances, destroyed, fees, cache, misled, first,
                 block_index, phase, stopped>>

\* perform_fairminter_soft_cap_operations()
SettleSoftCap(i) ==
  LET f == fairminters[i]
      a == f.terms.asset
      failed == ~SoftCapReached(f)
      lost == Losing(f, destroyed)
  IN
  /\ phase = "after" /\ i \in ToSettle
  /\ fairminters' = [fairminters EXCEPT ![i].settled = TRUE,
                       ![i].status = IF failed THEN "closed" ELSE @]
  /\ balances' = Settled(balances, f)
  /\ destroyed' = lost
  /\ issuances' = IF failed THEN [issuances EXCEPT ![a] = Append(@, CloseRow(f))]
                  ELSE issuances
  /\ cache' = LET c == [cache EXCEPT !.destroyed = Losing(f, @)] IN
              IF failed THEN AddIssuance(c, a, CloseRow(f)) ELSE c
  /\ UNCHANGED <<txs, escrow, fees, misled, first, block_index, phase, stopped>>

\* close_fairminters()
CloseFairminter(i) ==
  LET f == fairminters[i] IN
  /\ phase = "after" /\ ToSettle = {} /\ i \in ToClose
  /\ fairminters' = [fairminters EXCEPT ![i].status = "closed"]
  /\ issuances' = [issuances EXCEPT ![f.terms.asset] = Append(@, CloseRow(f))]
  /\ cache' = AddIssuance(cache, f.terms.asset, CloseRow(f))
  /\ UNCHANGED <<txs, balances, escrow, destroyed, fees, misled, first, block_index,
                 phase, stopped>>

----------------------------------------------------------------------------
\* fairmint.validate and parse

OfAsset(a) == {i \in DOMAIN fairminters : fairminters[i].terms.asset = a}

MayMint(source, f, quantity) ==
  LET t == f.terms IN
  /\ f.status = "open"
  /\ t.price > 0 =>
       /\ quantity > 0 /\ quantity <= MaxInt
       /\ t.max_mint_per_tx > 0 => quantity <= t.max_mint_per_tx
       /\ t.hard_cap > 0 => Supply(t.asset) + quantity <= t.hard_cap
       /\ balances[source][XCP] >= quantity * t.price

\* What a mint makes: a free one gets max_mint_per_tx, or what the hard cap leaves.
MintTotalAlways(t, quantity) ==
  IF t.price > 0 THEN quantity ELSE t.max_mint_per_tx
MintTotal(t, quantity) ==
  IF t.price > 0 THEN quantity
  ELSE IF t.hard_cap > 0 /\ Supply(t.asset) + t.max_mint_per_tx > t.hard_cap
    THEN t.hard_cap - Supply(t.asset)
  ELSE t.max_mint_per_tx
MintPrice(t, quantity) ==
  IF t.price = 0 THEN 0
  ELSE (quantity * t.price + t.quantity_by_price - 1) \div t.quantity_by_price

EscrowsBefore(t) == t.soft_cap > 0 /\ t.soft_cap_deadline_block > block_index
Escrows(t) == t.soft_cap > 0 /\ t.soft_cap_deadline_block >= block_index

\* The cached supply may be above the cap: a negative amount is not credited.
MintFails(a, quantity) ==
  MintTotal(fairminters[Max(OfAsset(a))].terms, quantity) < 0
StopMint ==
  /\ stopped' = TRUE
  /\ UNCHANGED <<balances, escrow, issuances, destroyed, fees, cache, first,
                 fairminters>>

\* The row copies the last issuance of the asset; the one that reaches the hard cap
\* ends the minting.
MintRow(f, total, hits) ==
  [cache.last[f.terms.asset] EXCEPT
     !.tx_index = txs + 1, !.quantity = total, !.fee_paid = 0,
     !.fair_minting = @ /\ ~hits,
     !.locked = @ \/ (hits /\ f.terms.lock_quantity),
     !.description_locked = @ \/ (hits /\ f.terms.lock_description)]

Mint(source, i, quantity) ==
  LET f == fairminters[i]
      t == f.terms
      a == t.asset
      total == MintTotal(t, quantity)
      paid == MintPrice(t, quantity)
      commission == (t.minted_asset_commission * total) \div CommissionUnit
      hits == t.hard_cap > 0 /\ Supply(a) + total = t.hard_cap
      f1 == [f EXCEPT !.earned[source] = @ + total - commission,
                      !.paid[source] = @ + paid, !.commission = @ + commission]
      settles == hits /\ Escrows(t)
      failed == settles /\ ~SoftCapReached(f1)
      burned == IF paid > 0 /\ ~Escrows(t) /\ t.burn_payment THEN paid ELSE 0
      paid_to == IF Escrows(t) THEN Unspendable ELSE f.source
      b1 == Move(Move(balances, source, XCP, -paid), paid_to, XCP, paid - burned)
      b2 == IF Escrows(t) THEN Move(b1, Unspendable, a, total)
            ELSE Move(Move(b1, source, a, total - commission), f.source, a, commission)
      spent(d) == LET d1 == [d EXCEPT ![XCP] = @ + burned]
                  IN  IF settles THEN Losing(f1, d1) ELSE d1
      row == MintRow(f, total, hits)
      c1 == [cache EXCEPT !.destroyed = spent(@)]
  IN
  /\ balances' = IF settles THEN Settled(b2, f1) ELSE b2
  /\ destroyed' = spent(destroyed)
  /\ fairminters' = [fairminters EXCEPT ![i] =
       [f1 EXCEPT !.status = IF hits THEN "closed" ELSE @, !.settled = @ \/ settles]]
  /\ issuances' = [issuances EXCEPT ![a] =
       (IF failed THEN Append(@, CloseRow(f)) ELSE @) \o <<row>>]
  /\ cache' = AddIssuance(IF failed THEN AddIssuance(c1, a, CloseRow(f)) ELSE c1, a, row)
  /\ UNCHANGED <<escrow, fees, first, stopped>>

ParseFairmint(source, a, quantity) ==
  /\ OfAsset(a) # {}
  /\ MayMint(source, fairminters[Max(OfAsset(a))], quantity)
  /\ IF MintFails(a, quantity) THEN StopMint ELSE Mint(source, Max(OfAsset(a)), quantity)
  /\ ReadsTheCache
  /\ UNCHANGED <<block_index, phase>>

----------------------------------------------------------------------------

Transaction ==
  /\ phase = "parsing" /\ ToOpen = {} /\ txs < MaxTxs
  /\ \/ ParseAssets /\ UNCHANGED <<block_index, phase, fairminters, stopped>>
     \/ /\ txs' = txs + 1
        /\ \E source \in Address :
             \/ \E t \in Terms : ParseFairminter(source, t)
             \/ \E a \in Asset, q \in MintQuantity : ParseFairmint(source, a, q)

EndTransactions ==
  /\ phase = "parsing" /\ ToOpen = {} /\ phase' = "after"
  /\ UNCHANGED <<asset_vars, block_index, fairminters, stopped>>

NextBlock ==
  /\ phase = "after" /\ ToSettle = {} /\ ToClose = {} /\ block_index < LastBlock
  /\ block_index' = block_index + 1 /\ phase' = "parsing"
  /\ UNCHANGED <<fairminters, stopped>>
  /\ UNCHANGED asset_vars \/ Restart

Next ==
  /\ ~stopped
  /\ \/ Transaction \/ EndTransactions \/ NextBlock
     \/ \E i \in DOMAIN fairminters :
          OpenFairminter(i) \/ SettleSoftCap(i) \/ CloseFairminter(i)

Spec == Init /\ [][Next]_vars

----------------------------------------------------------------------------
\* What the conservation check adds up.  XCP is created by what there was at first, and
\* destroyed by destructions and by the fees of issuances and dividends.

TableSupply(a) == Issued(a) - destroyed[a]

XcpCreated == SumOver(Funds)
XcpDestroyed ==
  destroyed[XCP] + SumFunctionOnSet([a \in Asset |-> RowSum(a, "fee_paid")], Asset) + fees
Creations(s) == IF s = XCP THEN XcpCreated ELSE Issued(s)
Destructions(s) == IF s = XCP THEN XcpDestroyed ELSE destroyed[s]

InOrders(s) == IF s = XCP THEN 0 ELSE SumFunctionOnSet([x \in Address |-> escrow[x][s]], Address)
Held(s) == SumFunctionOnSet([x \in Holder |-> balances[x][s]], Holder) + InOrders(s)

----------------------------------------------------------------------------
\* Properties

\* Type invariant: no balance is negative, so that every debit was covered.
TypeOK ==
  /\ balances \in [Holder -> [Token -> Nat]] /\ escrow \in [Address -> [Asset -> Nat]]
  /\ issuances \in [Asset -> Seq(Row)]
  /\ destroyed \in [Token -> Nat] /\ fees \in Nat /\ txs \in 0..MaxTxs
  /\ cache \in [last : [Asset -> Row], issued : [Asset -> Nat], destroyed : [Token -> Nat]]
  /\ first \in [Asset -> Address \cup {NoAddress}]
  /\ fairminters \in Seq(Fairminter) /\ block_index \in FirstBlock..LastBlock
  /\ phase \in {"parsing", "after"} /\ {misled, stopped} \subseteq BOOLEAN

\* check.asset_conservation: what is held, escrows included, is what was created less
\* what was destroyed.
AssetConservation == \A s \in Token : Held(s) = Creations(s) - Destructions(s)

\* UNSPENDABLE holds all that the fair minters will take from it: what was minted
\* and paid before their soft caps, and the premints not yet handed out; and no step
\* creates or loses a unit.
HeldFor(f, s) ==
  LET premint == IF f.pre_minted THEN 0 ELSE f.terms.premint_quantity
      capped == f.terms.soft_cap > 0
  IN  IF f.settled THEN 0
      ELSE IF s = XCP THEN IF capped THEN Paid(f) ELSE 0
      ELSE IF s = f.terms.asset THEN premint + (IF capped THEN Minted(f) ELSE 0)
      ELSE 0
MintEscrowIsCovered ==
  /\ AssetConservation
  /\ \A s \in Token :
       balances[Unspendable][s] >=
         SumFunctionOnSet([i \in DOMAIN fairminters |-> HeldFor(fairminters[i], s)],
                          DOMAIN fairminters)

\* An asset with a hard cap is never minted above it, and the mint that reaches it
\* closes the fair minter.
HardCapHolds ==
  \A i \in DOMAIN fairminters :
    LET t == fairminters[i].terms IN
    t.hard_cap > 0 /\ fairminters[i].status # "closed" => TableSupply(t.asset) < t.hard_cap

\* The same as long as no decision was taken on a cache that counts refused
\* messages; and until then no mint raises an exception.
HardCapUnlessMisled == misled \/ (HardCapHolds /\ ~stopped)

\* An asset has one live fair minter at most; it is closed to issuances while it has
\* one, and open again afterwards, unless the fair minter was late; and a soft cap is
\* decided in the block of its deadline, not later.
MintingEnds ==
  /\ \A a \in Asset :
       LET live == {i \in OfAsset(a) : fairminters[i].status # "closed"} IN
       /\ \A i, j \in live : i = j
       /\ Exists(a) => (Last(a).fair_minting <=>
            live # {} \/ \E i \in OfAsset(a) : fairminters[i].late)
  /\ \A i \in DOMAIN fairminters :
       LET f == fairminters[i] IN
       /\ f.terms.soft_cap > 0 /\ block_index > f.terms.soft_cap_deadline_block
            => f.settled
       /\ f.terms.end_block > 0 /\ block_index > f.terms.end_block
            => f.status = "closed"

\* Once a row of an asset is locked, no step makes any more of it, unless the lock
\* itself came from a refused row that a fair mint copied from the cache.
LockIsForGood(a) == Locked(a) => Locked(a)' /\ (misled' \/ Issued(a)' = Issued(a))

\* An asset changes hands only by an issuance of its owner that names a destination,
\* unless a fair mint copied a refused row from the cache.
OwnerDecides(a) ==
  Exists(a) /\ Last(a)'.issuer # Last(a).issuer =>
    \/ misled'
    \/ \E m \in Issuance :
         m.asset = a /\ m.destination = Last(a)'.issuer /\ Issue(Last(a).issuer, m)

\* What holders of an asset rely on: its lock, and who may decide about it.
RightsAreKept == [][\A a \in Asset : LockIsForGood(a) /\ OwnerDecides(a)]_vars
=============================================================================
