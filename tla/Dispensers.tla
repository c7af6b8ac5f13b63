----------------------------- MODULE Dispensers -----------------------------
(***************************************************************************)
(* Dispensers of counterparty-core (messages/dispenser.py,                 *)
(* messages/dispense.py): an address puts an amount of an asset in escrow  *)
(* and gives give_quantity of it for every satoshirate BTC it is paid.  A  *)
(* dispenser is refilled, runs dry, reaches the limit of its dispenses, or *)
(* is closed by its owner CloseDelay blocks later; until then it dispenses.*)
(*                                                                         *)
(* The rules are those of mainnet since block 866000.  A dispenser at an   *)
(* address that is not its creator's (its origin) can only be older than   *)
(* that (Legacy).  Rejected messages are recorded and change nothing, so   *)
(* they are no steps.                                                      *)
(***************************************************************************)
EXTENDS Integers, Sequences, FiniteSets, Functions

CONSTANTS
  Address, Asset,
  Oracle,          \* addresses whose broadcasts are prices
  NoOracle,
  Funds,           \* what each address has at first
  Legacy,          \* the dispensers of earlier rules that are open at first
  Offer,           \* bound: the offers of OPEN messages (below)
  Payment,         \* bound: the BTC of an output
  Price,           \* bound: the values of broadcasts
  CloseDelay,      \* dispenser_close_delay
  MaxRefills,      \* max_refills
  MaxDispenses,    \* max_dispenses_limit
  DustSize,        \* DEFAULT_REGULAR_DUST_SIZE
  FeePart,         \* an oracle's fee is 1/FeePart of what may be earned
  Mantissa,        \* 2^53, the integers a float holds exactly
  FirstBlock, LastBlock,   \* bound: blocks
  MaxTxs           \* bound: transactions

Offers == [asset : Asset, give_quantity : Nat \ {0}, escrow_quantity : Nat \ {0},
           satoshirate : Nat \ {0}, oracle_address : Oracle \cup {NoOracle}]
Status == {"open", "closing", "closed"}
NoAddress == "none"

\* A row of the table `dispensers`.  The last four fields sum up the rows of
\* `dispenser_refills` and `dispenses` that refer to it.
Dispenser ==
  [source : Address, asset : Asset, give_quantity : Nat \ {0},
   satoshirate : Nat \ {0}, oracle_address : Oracle \cup {NoOracle},
   origin : Address, status : Status, give_remaining : Nat, dispense_count : Nat,
   last_status_tx_source : Address \cup {NoAddress}, close_block_index : Nat,
   refills : Nat, escrowed : Nat, dispensed : Nat, income : Nat]

NewDispenser(address, creator, o) ==
  [source |-> address, asset |-> o.asset, give_quantity |-> o.give_quantity,
   satoshirate |-> o.satoshirate, oracle_address |-> o.oracle_address,
   origin |-> creator, status |-> "open", give_remaining |-> o.escrow_quantity,
   dispense_count |-> 0, last_status_tx_source |-> NoAddress,
   close_block_index |-> 0, refills |-> 0, escrowed |-> o.escrow_quantity,
   dispensed |-> 0, income |-> 0]

\* The last valid broadcast of a feed.  One that locks it has neither a value nor
\* the text that get_oracle_last_price() splits.
Feed == [state : {"silent", "price", "locked"}, value : Int]
Silent == [state |-> "silent", value |-> 0]

ASSUME DispensersAssumption ==
  /\ IsFiniteSet(Address)
  /\ NoOracle \notin Oracle /\ NoAddress \notin Address
  /\ Funds \in [Address -> [Asset -> Nat]]
  /\ Legacy \in Seq(Dispenser)
  /\ Offer \subseteq Offers
  /\ Payment \subseteq Nat /\ Price \subseteq Int
  /\ {CloseDelay, MaxRefills, MaxDispenses, DustSize, FirstBlock, LastBlock, MaxTxs}
       \subseteq Nat
  /\ {FeePart, Mantissa} \subseteq Nat \ {0}

\* At most one of them per asset and address, each open, holding something to give.
ASSUME LegacyAssumption ==
  /\ \A i \in DOMAIN Legacy :
       LET d == Legacy[i] IN
       /\ d.status = "open" /\ d.give_remaining >= d.give_quantity
       /\ d.oracle_address = NoOracle
       /\ d.give_remaining + d.dispensed = d.escrowed
       /\ d.dispense_count = 0 /\ d.dispensed = 0 /\ d.income = 0
       /\ d.refills <= MaxRefills
  /\ \A i, j \in DOMAIN Legacy :
       Legacy[i].source = Legacy[j].source /\ Legacy[i].asset = Legacy[j].asset => i = j

VARIABLES
  block_index, txs,
  balances, dispensers,
  prices,          \* the last broadcasts of each feed before this block
  broadcasts,      \* the same with those of this block
  paying,          \* the dispense transaction being parsed: [source, outs]
  stopped          \* an exception ended the parsing of the block

feeds == <<prices, broadcasts>>
vars == <<block_index, txs, balances, dispensers, feeds, paying, stopped>>

NoTx == [source |-> NoAddress, outs |-> <<>>]

Init ==
  /\ block_index = FirstBlock /\ txs = 0
  /\ balances = Funds /\ dispensers = Legacy
  /\ prices = [o \in Oracle |-> Silent] /\ broadcasts = [o \in Oracle |-> Silent]
  /\ paying = NoTx /\ stopped = FALSE

----------------------------------------------------------------------------
\* Queries

\* get_dispensers(address, asset, status_in=[0, 11]): the row with the greatest
\* rowid of those of an address and asset, if that one is live.
IsLast(i) == \A j \in DOMAIN dispensers :
  dispensers[j].source = dispensers[i].source /\ dispensers[j].asset = dispensers[i].asset
    => j <= i
LiveIfOpen(address, asset) ==
  {i \in DOMAIN dispensers : /\ dispensers[i].source = address
                             /\ dispensers[i].asset = asset
                             /\ IsLast(i) /\ dispensers[i].status = "open"}
Live(address, asset) ==
  {i \in DOMAIN dispensers : /\ dispensers[i].source = address
                             /\ dispensers[i].asset = asset
                             /\ IsLast(i) /\ dispensers[i].status # "closed"}
Open(address, asset) == {i \in Live(address, asset) : dispensers[i].status = "open"}

\* int(floor(a / b)) of two integers: their quotient is rounded to a float, which
\* reaches the next integer when what is missing is half a unit in the last place.
Binade(n) == {p \in n..(2 * n - 1) : \E k \in 0..n : p = 2 ^ k}
RoundsUp(a, b) ==
  /\ (a % b) # 0
  /\ \E p \in Binade((a \div b) + 1) : 2 * Mantissa * (b - (a % b)) <= b * p
FloatFloor(a, b) == IF RoundsUp(a, b) THEN (a \div b) + 1 ELSE a \div b

----------------------------------------------------------------------------
\* Steps

\* get_pending_dispensers(): what close_pending() closes before the transactions of
\* the block.  The rows of one block and status are grouped by address and asset.
Pending ==
  {i \in DOMAIN dispensers : /\ dispensers[i].status = "closing"
                             /\ dispensers[i].close_block_index = block_index}

Parsing == ~stopped /\ paying = NoTx /\ Pending = {} /\ txs < MaxTxs

\* The exception ends the parsing: nothing of the block is committed.
Stop == stopped' = TRUE /\ UNCHANGED <<block_index, balances, dispensers, feeds, paying>>

Credited(b, a, s, q) == [b EXCEPT ![a][s] = @ + q]
Debited(b, a, s, q) == [b EXCEPT ![a][s] = @ - q]

\* calculate_oracle_fee(), 1/FeePart of what the escrow would bring at the price
OracleFee(o) ==
  (o.satoshirate * FloatFloor(o.escrow_quantity, o.give_quantity))
    \div (prices[o.oracle_address].value * FeePart)

\* Reading the price of a feed that is locked raises, and so does dividing by a
\* price of zero.
FeedState(oracle) == IF oracle = NoOracle THEN "none" ELSE prices[oracle].state
HasPrice(o) == FeedState(o.oracle_address) # "silent"
PriceIsZero(o) ==
  FeedState(o.oracle_address) = "price" /\ prices[o.oracle_address].value = 0

OracleIsPaid(o, fee) ==
  FeedState(o.oracle_address) = "price" =>
    \/ prices[o.oracle_address].value < 0
    \/ OracleFee(o) < DustSize
    \/ fee >= OracleFee(o)

CanEscrow(source, o) ==
  /\ o.escrow_quantity >= o.give_quantity
  /\ balances[source][o.asset] >= o.escrow_quantity

MayOpen(source, o) == CanEscrow(source, o) /\ Live(source, o.asset) = {}

OpenDispenser(source, o, fee) ==
  /\ OracleIsPaid(o, fee)
  /\ balances' = Debited(balances, source, o.asset, o.escrow_quantity)
  /\ dispensers' = Append(dispensers, NewDispenser(source, source, o))
  /\ UNCHANGED <<block_index, feeds, paying, stopped>>

\* The dispensers that an OPEN refills: one that is open, by its address or origin.
MayRefill(i, source) == source \in {dispensers[i].source, dispensers[i].origin}
Refillable(source, action_address, o) == {i \in Open(action_address, o.asset) :
  /\ CanEscrow(source, o) /\ MayRefill(i, source)
  /\ dispensers[i].satoshirate = o.satoshirate
  /\ dispensers[i].give_quantity = o.give_quantity
  /\ MaxRefills > 0 => dispensers[i].refills < MaxRefills}

Refilled(d, q) ==
  [d EXCEPT !.give_remaining = @ + q, !.dispense_count = 0,
            !.escrowed = @ + q, !.refills = @ + 1]

RefillDispenser(i, source, o, fee) ==
  /\ OracleIsPaid(o, fee)
  /\ balances' = Debited(balances, source, o.asset, o.escrow_quantity)
  /\ dispensers' = [dispensers EXCEPT ![i] = Refilled(@, o.escrow_quantity)]
  /\ UNCHANGED <<block_index, feeds, paying, stopped>>

ParseOpen ==
  /\ Parsing /\ txs' = txs + 1
  /\ \E source, action_address \in Address, o \in Offer, fee \in Payment :
       /\ HasPrice(o)
       /\ \/ FeedState(o.oracle_address) = "locked" /\ Stop
          \/ /\ FeedState(o.oracle_address) # "locked"
             /\ source = action_address /\ MayOpen(source, o)
             /\ IF PriceIsZero(o) THEN Stop ELSE OpenDispenser(source, o, fee)
          \/ /\ FeedState(o.oracle_address) # "locked"
             /\ \E i \in Refillable(source, action_address, o) :
                  IF PriceIsZero(o) THEN Stop ELSE RefillDispenser(i, source, o, fee)

\* CLOSE, by the address of the dispenser or by its origin
MayClose(i, source) == source \in {dispensers[i].source, dispensers[i].origin}

Closed(d) == [d EXCEPT !.give_remaining = 0, !.status = "closed"]
Closing(d, source) ==
  [d EXCEPT !.status = "closing", !.last_status_tx_source = source,
            !.close_block_index = block_index + CloseDelay]

CloseDispenser(i, source) ==
  /\ IF CloseDelay = 0
     THEN /\ balances' = Credited(balances, source, dispensers[i].asset,
                                  dispensers[i].give_remaining)
          /\ dispensers' = [dispensers EXCEPT ![i] = Closed(@)]
     ELSE /\ dispensers' = [dispensers EXCEPT ![i] = Closing(@, source)]
          /\ UNCHANGED balances
  /\ UNCHANGED <<block_index, feeds, paying, stopped>>

\* The price of the feed it names is looked up here too, and never used.
ParseClose ==
  /\ Parsing /\ txs' = txs + 1
  /\ \E source, action_address \in Address, asset \in Asset,
       oracle \in Oracle \cup {NoOracle} :
       \/ FeedState(oracle) = "locked" /\ Stop
       \/ /\ FeedState(oracle) \notin {"locked", "silent"}
          /\ \E i \in Open(action_address, asset) :
               MayClose(i, source) /\ CloseDispenser(i, source)

\* A valid broadcast.  A locked feed takes no other.
ParseBroadcast ==
  /\ Parsing /\ txs' = txs + 1
  /\ \E o \in Oracle :
       /\ broadcasts[o].state # "locked"
       /\ \E f \in [state : {"price"}, value : Price]
                     \cup {[state |-> "locked", value |-> 0]} :
            broadcasts' = [broadcasts EXCEPT ![o] = f]
  /\ UNCHANGED <<block_index, balances, dispensers, prices, paying, stopped>>

----------------------------------------------------------------------------
\* dispense.parse(): a step per output, none to the source itself

ParseDispense ==
  /\ Parsing /\ txs' = txs + 1
  /\ \E source \in Address, n \in 1..2 :
       \E outs \in [1..n -> [destination : Address \ {source}, btc_amount : Payment]] :
         paying' = [source |-> source, outs |-> outs]
  /\ UNCHANGED <<block_index, balances, dispensers, feeds, stopped>>

MustGive(d, btc) ==
  IF d.oracle_address = NoOracle
    THEN btc \div d.satoshirate
    ELSE (btc * prices[d.oracle_address].value) \div d.satoshirate

\* What a dispenser gives for an output, what it has left then, and whether this
\* closes it.
RemainingDispenses(d) == FloatFloor(d.give_remaining, d.give_quantity)
ActuallyGivenUnchecked(d, btc) == d.give_quantity * MustGive(d, btc)
ActuallyGiven(d, btc) ==
  d.give_quantity * (IF MustGive(d, btc) < RemainingDispenses(d)
                       THEN MustGive(d, btc) ELSE RemainingDispenses(d))
GiveRemainingByLots(d, btc) == d.give_remaining - MustGive(d, btc)
GiveRemaining(d, btc) == d.give_remaining - ActuallyGiven(d, btc)

LimitHit(d) == MaxDispenses > 0 /\ d.dispense_count + 1 >= MaxDispenses
Closes(d, btc) == GiveRemaining(d, btc) < d.give_quantity \/ LimitHit(d)

DispensedStatusReset(d, btc) == IF Closes(d, btc) THEN "closed" ELSE "open"
DispensedStatus(d, btc) == IF Closes(d, btc) THEN "closed" ELSE d.status
Dispensed(d, btc) ==
  [d EXCEPT !.give_remaining = IF Closes(d, btc) THEN 0 ELSE GiveRemaining(d, btc),
            !.status = DispensedStatus(d, btc),
            !.dispense_count = @ + 1,
            !.dispensed = @ + ActuallyGiven(d, btc), !.income = @ + btc]

\* The list of dispensers is read once per output; they differ in their assets.
Dispensing(out) ==
  {i \in DOMAIN dispensers :
     i \in Live(out.destination, dispensers[i].asset)
       /\ ActuallyGiven(dispensers[i], out.btc_amount) # 0}
Raises(out) ==
  \E i \in DOMAIN dispensers :
    /\ i \in Live(out.destination, dispensers[i].asset)
    /\ \/ FeedState(dispensers[i].oracle_address) = "locked"
       \/ GiveRemaining(dispensers[i], out.btc_amount) < 0     \* the assertion
       \/ ActuallyGiven(dispensers[i], out.btc_amount) < 0     \* CreditError

\* What an address is credited of an asset: the buyer what is given, the address
\* of a dispenser that closes what is left.
GivenTo(address, asset, out) ==
  IF \E i \in Dispensing(out) : dispensers[i].asset = asset
  THEN LET d == dispensers[CHOOSE i \in Dispensing(out) : dispensers[i].asset = asset] IN
       CASE address = paying.source -> ActuallyGiven(d, out.btc_amount)
         [] address = d.source /\ Closes(d, out.btc_amount) ->
              GiveRemaining(d, out.btc_amount)
         [] OTHER -> 0
  ELSE 0

Dispense ==
  /\ ~stopped /\ paying.outs # <<>>
  /\ LET out == Head(paying.outs) IN
     IF Raises(out) THEN Stop ELSE
       /\ balances' = [a \in Address |-> [s \in Asset |->
                         balances[a][s] + GivenTo(a, s, out)]]
       /\ dispensers' = [i \in DOMAIN dispensers |->
                           IF i \in Dispensing(out)
                             THEN Dispensed(dispensers[i], out.btc_amount)
                             ELSE dispensers[i]]
       /\ paying' = IF Len(paying.outs) = 1 THEN NoTx
                      ELSE [paying EXCEPT !.outs = Tail(@)]
       /\ UNCHANGED <<block_index, feeds, stopped>>
  /\ UNCHANGED txs

----------------------------------------------------------------------------
\* parse_block(): close_pending() before the transactions of the block

NextBlock ==
  /\ ~stopped /\ paying = NoTx /\ Pending = {} /\ block_index < LastBlock
  /\ block_index' = block_index + 1
  /\ prices' = broadcasts
  /\ UNCHANGED <<txs, balances, dispensers, broadcasts, paying, stopped>>

\* The dispensers that are due are read once and closed in the order of their rows.
ClosePending ==
  /\ ~stopped
  /\ \E i \in Pending :
       LET d == dispensers[i] IN
       /\ \A j \in Pending : i <= j
       /\ balances' = Credited(balances, d.last_status_tx_source, d.asset, d.give_remaining)
       /\ dispensers' = [dispensers EXCEPT ![i] = Closed(d)]
  /\ UNCHANGED <<block_index, txs, feeds, paying, stopped>>

Next ==
  \/ ParseOpen \/ ParseClose \/ ParseBroadcast
  \/ ParseDispense \/ Dispense
  \/ NextBlock \/ ClosePending

Spec == Init /\ [][Next]_vars
----------------------------------------------------------------------------
\* Type invariant; no balance is ever negative.
TypeOK ==
  /\ block_index \in Nat /\ txs \in Nat
  /\ balances \in [Address -> [Asset -> Nat]]
  /\ dispensers \in Seq(Dispenser)
  /\ prices \in [Oracle -> Feed] /\ broadcasts \in [Oracle -> Feed]
  /\ paying \in [source : Address \cup {NoAddress},
                outs : Seq([destination : Address, btc_amount : Payment])]
  /\ stopped \in BOOLEAN

\* An address never has two dispensers of an asset to give from, one open and one
\* about to close included, and the queries, which look at the last row of an
\* address and asset only, overlook none.
OneLiveDispenser ==
  \A i, j \in DOMAIN dispensers :
    /\ dispensers[i].source = dispensers[j].source
    /\ dispensers[i].asset = dispensers[j].asset
    /\ dispensers[i].status # "closed"
    => j <= i

\* A live dispenser has something to give; a closed one holds nothing.
LiveCanGive(d) ==
  IF d.status = "closed" THEN d.give_remaining = 0 ELSE d.give_remaining >= d.give_quantity

\* What is left in a live dispenser is what was put into it less what it gave.
NothingIsLost(d) ==
  d.status # "closed" => d.give_remaining + d.dispensed = d.escrowed

\* Over all its dispenses it gave no more than it was paid for.
IsPaidFor(d) ==
  d.oracle_address = NoOracle =>
    d.dispensed * d.satoshirate <= d.income * d.give_quantity

\* What addresses and live dispensers hold of an asset is what they held at first
\* (check.asset_conservation).
LiveIn(ds, s) == {i \in DOMAIN ds : ds[i].asset = s /\ ds[i].status # "closed"}
HeldOf(b, ds, s) ==
  SumFunctionOnSet([a \in Address |-> b[a][s]], Address)
    + SumFunctionOnSet([i \in LiveIn(ds, s) |-> ds[i].give_remaining], LiveIn(ds, s))
AssetIsConserved ==
  \A s \in Asset : HeldOf(balances, dispensers, s) = HeldOf(Funds, Legacy, s)

\* The books of each dispenser, over its opening, refills from two addresses,
\* payments and closing: what a payment leaves over goes back in the same step, and
\* rounding is never at the cost of the dispenser; and nothing is created or lost.
EscrowIsAccounted ==
  /\ \A i \in DOMAIN dispensers :
       /\ LiveCanGive(dispensers[i])
       /\ NothingIsLost(dispensers[i])
       /\ IsPaidFor(dispensers[i])
  /\ AssetIsConserved

\* "No action can be taken until it closes": a dispenser that is closing only loses
\* what is bought from it, no transaction is parsed before it closes in the block that
\* was announced, and one that is closed is never used again.
NoWayBack ==
  [][\A i \in DOMAIN dispensers :
       /\ dispensers[i].status = "closing" =>
            /\ dispensers[i].close_block_index \in block_index..(block_index + CloseDelay)
            /\ dispensers[i].close_block_index = block_index => paying' = NoTx
            /\ dispensers'[i].status # "open"
            /\ dispensers'[i].refills = dispensers[i].refills
            /\ dispensers'[i].last_status_tx_source = dispensers[i].last_status_tx_source
       /\ dispensers[i].status = "closed" => dispensers'[i] = dispensers[i]]_vars

\* Only a feed without a positive price, or an amount that a float does not hold,
\* makes the parsing of a dispenser or of a dispense raise an exception, which
\* would stop every node at this block.
StopsForAReason ==
  stopped =>
    \/ \E o \in Oracle : prices[o].state = "locked" \/ prices[o].value < 0
                          \/ prices[o] = [state |-> "price", value |-> 0]
    \/ \E i \in DOMAIN dispensers : dispensers[i].give_remaining >= Mantissa
=============================================================================
