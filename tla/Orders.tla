-------------------------------- MODULE Orders --------------------------------
(***************************************************************************)
(* The decentralized exchange (lib/messages/order.py, btcpay.py, cancel.py *)
(* and the order queries of lib/ledger.py): orders hold what they give in  *)
(* escrow, are matched against each other, and are closed by being filled, *)
(* cancelled or expired.  BTC cannot be held: a match that involves BTC    *)
(* stays pending until its BTC is paid or until it expires.                *)
(*                                                                         *)
(* The blocks are parsed one at a time; a block first expires what is due  *)
(* (order.expire), then its transactions are parsed.  The loops of         *)
(* expire_order_matches and of match are cut into one action per           *)
(* iteration.  The protocol is the one of mainnet since block 866000.      *)
(*                                                                         *)
(* An order is known by its place in `orders` (its tx_index), an order     *)
(* match by its place in `order_matches`; a row is the last one written    *)
(* under its tx_hash or its id.                                            *)
(***************************************************************************)
EXTENDS Integers, Sequences, FiniteSets, Functions

CONSTANTS
  Addresses,
  BTC, XCP,    \* the two assets that are treated apart
  Assets,      \* what a balance can be held of
  Funds,       \* the balances when the exchange opens
  Offers,      \* what an order transaction may say
  MinBTC,      \* the least quantity of BTC of an order or a match (1000)
  MatchLife,   \* a match expires that many blocks after it was made (20)
  CleanAge,    \* filled orders leave the cache after that many blocks (50)
  FirstBlock,
  MaxBlock,    \* bound: the last block
  MaxOrders    \* bound: how many orders are opened

Offer == [source : Addresses, give_asset : Assets \union {BTC}, give_quantity : Nat \ {0},
          get_asset : Assets \union {BTC}, get_quantity : Nat \ {0}, expiration : Nat,
          fee_required : Nat, fee_provided : Nat]

ASSUME OffersAssumption ==
  /\ BTC \notin Assets /\ XCP \in Assets
  /\ Offers \subseteq Offer
  /\ \A o \in Offers : BTC \in {o.give_asset, o.get_asset} => o.give_asset # o.get_asset
  /\ Funds \in [Addresses \X Assets -> Nat]
  /\ IsFiniteSet(Addresses) /\ IsFiniteSet(Assets)

ASSUME BlocksAssumption ==
  /\ {MinBTC, MatchLife, CleanAge, FirstBlock, MaxBlock, MaxOrders} \subseteq Nat
  /\ MatchLife < CleanAge /\ CleanAge < FirstBlock

VARIABLES
  block,          \* util.CURRENT_BLOCK_INDEX
  balances,       \* table `balances`
  orders,         \* table `orders`: the valid ones
  order_matches,  \* table `order_matches`
  cached,         \* OrdersCache: the orders it holds a row of
  last_cleaning,  \* OrdersCache.last_cleaning_block_index
  pc,             \* order.expire: "matches", "rematch", "orders"; or "transactions"
  expiring,       \* expire_order_matches: the matches still to be cancelled
  rematching,     \* expire_order_matches: the orders still to be matched again
  due,            \* expire_orders: the orders still to be cancelled
  matching,       \* match: the order tx1 being matched, or None
  candidates      \* match: the orders tx0 still to be considered

tables == <<balances, orders, order_matches>>
cache == <<cached, last_cleaning>>
loops == <<expiring, rematching, due, matching, candidates>>
vars == <<block, balances, orders, order_matches, cached, last_cleaning, pc,
          expiring, rematching, due, matching, candidates>>

None == 0
OrderIds == DOMAIN orders
MatchIds == DOMAIN order_matches

----------------------------------------------------------------------------
\* Amounts.

InvolvesBTC(o) == BTC \in {o.give_asset, o.get_asset}

Credit(b, address, asset, quantity) ==
  [b EXCEPT ![<<address, asset>>] = @ + quantity]

\* round() of the fraction n/d: to the nearest integer, a half to the even one.
Round(n, d) ==
  LET q == n \div d
      twice == 2 * (n % d)
  IN IF twice < d \/ (twice = d /\ q % 2 = 0) THEN q ELSE q + 1

\* The orders as they are when tx0, already in the book, meets tx1.
Forward(tx0, tx1) ==
  LET affordable == (tx1.give_remaining * tx0.give_quantity) \div tx0.get_quantity
  IN IF tx0.give_remaining < affordable THEN tx0.give_remaining ELSE affordable

Backward(tx0, tx1) == Round(Forward(tx0, tx1) * tx0.get_quantity, tx0.give_quantity)

\* tx0_price <= tx1_inverse_price
PricesAgree(tx0, tx1) ==
  tx0.get_quantity * tx1.get_quantity <= tx0.give_quantity * tx1.give_quantity

Fee(tx0, tx1) ==
  IF tx1.get_asset = BTC
  THEN (tx1.fee_required * Backward(tx0, tx1)) \div tx1.give_quantity
  ELSE IF tx1.give_asset = BTC
       THEN (tx0.fee_required * Backward(tx0, tx1)) \div tx0.give_quantity
       ELSE 0

\* Both have something left; the order that gives BTC provides the fee.
BTCRemains(tx0, tx1) ==
  /\ tx0.give_remaining > 0 /\ tx1.give_remaining > 0
  /\ tx0.fee_required_remaining >= 0 /\ tx0.fee_provided_remaining >= 0
  /\ tx1.fee_required_remaining >= 0 /\ tx1.fee_provided_remaining >= 0

BTCIsEnough(tx0, tx1) ==
  /\ tx1.get_asset = BTC => /\ Forward(tx0, tx1) >= MinBTC
                            /\ tx0.fee_provided_remaining >= Fee(tx0, tx1)
  /\ tx1.give_asset = BTC => /\ Backward(tx0, tx1) >= MinBTC
                             /\ tx1.fee_provided_remaining >= Fee(tx0, tx1)

\* What one iteration of match() asks before it makes the trade.
Suits(tx0, tx1) ==
  /\ InvolvesBTC(tx1) => BTCRemains(tx0, tx1)
  /\ PricesAgree(tx0, tx1)
  /\ Forward(tx0, tx1) > 0 /\ Backward(tx0, tx1) > 0
  /\ BTCIsEnough(tx0, tx1)

----------------------------------------------------------------------------
\* The queries.

ForwardAsset(m) == orders[m.tx1].get_asset
BackwardAsset(m) == orders[m.tx1].give_asset

MatchedBefore(i, j) ==
  \E k \in MatchIds : {order_matches[k].tx0, order_matches[k].tx1} = {i, j}

PendingMatches(is) ==
  {k \in MatchIds : /\ order_matches[k].status = "pending"
                    /\ {order_matches[k].tx0, order_matches[k].tx1} \intersect is # {}}

Opposite(o, p) == o.give_asset = p.get_asset /\ o.get_asset = p.give_asset

\* get_matching_orders_no_cache
Matching(os, i) ==
  {j \in DOMAIN os \ {i} : os[j].status = "open" /\ Opposite(os[j], os[i])}

BetterIfOlder(os, i, j) == i < j
\* match() considers i before j: by price, then by tx_index.
Better(os, i, j) ==
  LET x == os[i].get_quantity * os[j].give_quantity
      y == os[j].get_quantity * os[i].give_quantity
  IN x < y \/ (x = y /\ i < j)

\* insert_order, update_order of the cache for rows that do not expire: what is
\* cached is c afterwards, less the filled orders that are cleaned away.
CleaningIsDue == block - last_cleaning >= CleanAge
CleanAllFilledOrders(os, c) ==
  /\ cached' = {i \in c : CleaningIsDue => os[i].status # "filled"}
  /\ last_cleaning' = IF CleaningIsDue THEN block ELSE last_cleaning
CleanFilledOrders(os, c) ==
  /\ cached' = {i \in c : CleaningIsDue /\ os[i].status = "filled"
                            => os[i].block_index >= block - CleanAge}
  /\ last_cleaning' = IF CleaningIsDue THEN block ELSE last_cleaning

NoMatch == /\ matching' = None
           /\ candidates' = {}

\* The first lines of match(): get_matching_orders asks the cache while the
\* node is catching up, and the database otherwise.
StartMatch(os, c, i) ==
  IF os[i].status # "open" \/ Matching(os, i) = {}
  THEN NoMatch
  ELSE \E known \in {DOMAIN os, c} :
         /\ matching' = i
         /\ candidates' = Matching(os, i) \intersect known

----------------------------------------------------------------------------
\* Transactions.

CanParse == pc = "transactions" /\ matching = None

\* An order for more than the balance is an order for the balance.
Affordable(o) ==
  LET balance == balances[<<o.source, o.give_asset>>]
  IN IF o.give_asset = BTC \/ balance >= o.give_quantity
     THEN o
     ELSE [o EXCEPT !.give_quantity = balance,
                    !.get_quantity = (o.get_quantity * balance) \div o.give_quantity]

ValidAtZero(o) ==
  /\ o.give_asset = BTC => o.give_quantity >= MinBTC
  /\ o.get_asset = BTC => o.get_quantity >= MinBTC
Valid(o) ==
  /\ o.give_quantity > 0 /\ o.get_quantity > 0
  /\ o.give_asset = BTC => o.give_quantity >= MinBTC
  /\ o.get_asset = BTC => o.get_quantity >= MinBTC

\* `opened` is what get_order_first_block_index finds in the first row of an order.
OrderRow(o) ==
  [source |-> o.source, status |-> "open",
   give_asset |-> o.give_asset, give_quantity |-> o.give_quantity,
   give_remaining |-> o.give_quantity,
   get_asset |-> o.get_asset, get_quantity |-> o.get_quantity,
   get_remaining |-> o.get_quantity,
   expire_index |-> block + o.expiration, opened |-> block, block_index |-> block,
   fee_required |-> o.fee_required, fee_required_remaining |-> o.fee_required,
   fee_provided_remaining |-> o.fee_provided]

\* order.parse
Order(offer) ==
  LET o == Affordable(offer)
      os == Append(orders, OrderRow(o))
      i == Len(os)
  IN /\ CanParse /\ Len(orders) < MaxOrders
     /\ Valid(o)
     /\ orders' = os
     /\ balances' = IF o.give_asset = BTC THEN balances
                    ELSE Credit(balances, o.source, o.give_asset, -o.give_quantity)
     /\ CleanFilledOrders(os, cached \union {i})
     /\ StartMatch(os, cached', i)
     /\ UNCHANGED <<block, order_matches, pc, expiring, rematching, due>>

\* order.parse of an order that is found invalid: its row is never looked at again, yet
\* insert_order puts it into the cache too, where it may fall to it to clean.
InvalidOrder ==
  /\ CanParse
  /\ CleanFilledOrders(orders, cached)
  /\ UNCHANGED <<block, tables, pc, loops>>

\* cancel_order: what is left in escrow goes back.
Returned(i) ==
  IF orders[i].give_asset = BTC THEN balances
  ELSE Credit(balances, orders[i].source, orders[i].give_asset, orders[i].give_remaining)

\* cancel.parse, for an order
Cancel(i) ==
  LET os == [orders EXCEPT ![i] = [@ EXCEPT !.status = "cancelled", !.block_index = block]]
  IN /\ CanParse
     /\ orders[i].status = "open"
     /\ orders' = os
     /\ balances' = Returned(i)
     /\ CleanFilledOrders(os, cached)
     /\ UNCHANGED <<block, order_matches, pc, loops>>

\* mark_order_as_filled: `all` of the two orders, or those of destination.
MarkedAsFilled(m, all, destination) ==
  {i \in {m.tx0, m.tx1} : /\ orders[i].give_remaining = 0 \/ orders[i].get_remaining = 0
                          /\ all \/ orders[i].source = destination}

\* btcpay.parse: somebody pays the BTC of match k in full.
BTCPay(k, source, destination) ==
  LET m == order_matches[k]
      payer == IF ForwardAsset(m) = BTC THEN m.tx0 ELSE m.tx1
      seller == IF ForwardAsset(m) = BTC THEN m.tx1 ELSE m.tx0
      escrowed == IF payer = m.tx0 THEN m.backward_quantity ELSE m.forward_quantity
      others == PendingMatches({m.tx0, m.tx1}) \ {k}
      filled == MarkedAsFilled(m, others = {}, destination)
      os == [i \in OrderIds |->
               IF i \in filled
               THEN [orders[i] EXCEPT !.status = "filled", !.block_index = block]
               ELSE orders[i]]
  IN /\ CanParse
     /\ m.status = "pending"
     /\ balances' = Credit(balances, source, orders[seller].give_asset, escrowed)
     /\ order_matches' = [order_matches EXCEPT ![k].status = "completed"]
     /\ orders' = os
     /\ IF filled = {} THEN UNCHANGED cache ELSE CleanFilledOrders(os, cached)
     /\ UNCHANGED <<block, pc, loops>>

----------------------------------------------------------------------------
\* match(), one iteration that trades.

\* tx0 and tx1 after a trade of f against b with that fee.
Traded(o, given, got, providesFee, requiresFee, fee) ==
  [o EXCEPT !.give_remaining = @ - given, !.get_remaining = @ - got,
            !.fee_provided_remaining = IF providesFee THEN @ - fee ELSE @,
            !.fee_required_remaining = IF requiresFee THEN @ - fee ELSE @,
            !.block_index = block]

\* An order without BTC that has nothing left on either side is filled ...
IsFilled(o) == ~InvolvesBTC(o) /\ (o.give_remaining <= 0 \/ o.get_remaining <= 0)
WithStatus(o) == IF IsFilled(o) THEN [o EXCEPT !.status = "filled"] ELSE o
RecreditNothing(b, o) == b
\* ... and what it still holds goes back.
Recredit(b, o) ==
  IF IsFilled(o) THEN Credit(b, o.source, o.give_asset, o.give_remaining) ELSE b

NewMatch(i, j, f, b, fee, status) ==
  [tx0 |-> i, tx1 |-> j, forward_quantity |-> f, backward_quantity |-> b,
   fee_paid |-> fee, match_expire_index |-> block + MatchLife, status |-> status]

Trade(i) ==
  LET tx0 == orders[i]
      tx1 == orders[matching]
      f == Forward(tx0, tx1)
      b == Backward(tx0, tx1)
      fee == Fee(tx0, tx1)
      after0 == Traded(tx0, f, b, tx1.get_asset = BTC, tx1.give_asset = BTC, fee)
      after1 == Traded(tx1, b, f, tx1.give_asset = BTC, tx1.get_asset = BTC, fee)
      paid == IF InvolvesBTC(tx1) THEN balances
              ELSE Credit(Credit(balances, tx1.source, tx1.get_asset, f),
                          tx0.source, tx0.get_asset, b)
      os == [orders EXCEPT ![i] = WithStatus(after0), ![matching] = WithStatus(after1)]
  IN /\ orders' = os
     /\ balances' = Recredit(Recredit(paid, after0), after1)
     /\ order_matches' = Append(order_matches, NewMatch(i, matching, f, b, fee,
                           IF InvolvesBTC(tx1) THEN "pending" ELSE "completed"))
     /\ CleanFilledOrders(os, cached)

\* A candidate that was matched before or does not suit is skipped.
Trades(i) == /\ ~MatchedBefore(i, matching)
             /\ Suits(orders[i], orders[matching])

\* The first that trades; those after it follow, unless the order is filled.
MatchNext(i) ==
  /\ matching # None
  /\ Trades(i)
  /\ \A j \in candidates : Better(orders, j, i) => ~Trades(j)
  /\ Trade(i)
  /\ IF orders'[matching].status = "filled"
     THEN NoMatch
     ELSE /\ candidates' = {j \in candidates : Better(orders, i, j)}
          /\ UNCHANGED matching
  /\ UNCHANGED <<block, pc, expiring, rematching, due>>

MatchEnd ==
  /\ matching # None
  /\ \A i \in candidates : ~Trades(i)
  /\ NoMatch
  /\ UNCHANGED <<block, tables, cache, pc, expiring, rematching, due>>

----------------------------------------------------------------------------
\* order.expire

MatchesToExpireLate(b) ==
  {k \in MatchIds : /\ order_matches[k].status = "pending"
                    /\ order_matches[k].match_expire_index = b - 2}
MatchesToExpireOfAnyStatus(b) ==
  {k \in MatchIds : order_matches[k].match_expire_index = b - 1}
\* get_order_matches_to_expire(b)
MatchesToExpire(b) ==
  {k \in MatchIds : /\ order_matches[k].status = "pending"
                    /\ order_matches[k].match_expire_index = b - 1}

\* get_orders_to_expire(b)
OrdersToExpire(b) ==
  {i \in OrderIds : orders[i].status = "open" /\ orders[i].expire_index = b - 1}

\* parse_block begins: what is due is read at once.
NextBlock ==
  /\ CanParse /\ block < MaxBlock
  /\ block' = block + 1
  /\ pc' = "matches"
  /\ expiring' = MatchesToExpire(block + 1)
  /\ UNCHANGED <<tables, cache, rematching, due, matching, candidates>>

Gave(m, i) == IF i = m.tx0 THEN m.forward_quantity ELSE m.backward_quantity
Got(m, i) == IF i = m.tx0 THEN m.backward_quantity ELSE m.forward_quantity

\* cancel_order_match: an order that is still alive gets back what the match
\* took from it, and is open again if it had been filled.
IsDead(o) == o.status \in {"expired", "cancelled"}
Replenished(o, given, got, fee) ==
  [o EXCEPT !.give_remaining = @ + given, !.get_remaining = @ + got,
            !.fee_required_remaining = IF o.get_asset = BTC THEN @ + fee ELSE @,
            !.status = IF @ = "filled" THEN "open" ELSE @,
            !.block_index = block]
\* The address of one that is dead is credited.
Refunded(b, m, i) ==
  IF IsDead(orders[i]) /\ orders[i].give_asset # BTC
  THEN Credit(b, orders[i].source, orders[i].give_asset, Gave(m, i)) ELSE b

\* exact_penalty: whose expired order left its BTC unpaid.
IsTardy(address, m) ==
  \E i \in {m.tx0, m.tx1} : /\ orders[i].status = "expired" /\ orders[i].give_asset = BTC
                            /\ orders[i].source = address
Expired(o) == [o EXCEPT !.status = "expired", !.block_index = block]

ExpireOrderMatch(k) ==
  LET m == order_matches[k]
      alive == {i \in {m.tx0, m.tx1} : ~IsDead(orders[i])}
      os == [i \in OrderIds |->
               IF i \in alive
               THEN Replenished(orders[i], Gave(m, i), Got(m, i), m.fee_paid)
               ELSE orders[i]]
      penalised == {i \in OrderIds : /\ os[i].status = "open" /\ os[i].give_asset = BTC
                                     /\ IsTardy(os[i].source, m)}
      penalty == [i \in OrderIds |-> IF i \in penalised THEN Expired(os[i]) ELSE os[i]]
  IN /\ pc = "matches"
     /\ \A l \in expiring : k <= l
     /\ order_matches' = [order_matches EXCEPT ![k].status = "expired"]
     /\ orders' = penalty
     /\ balances' = Refunded(Refunded(balances, m, m.tx0), m, m.tx1)
     /\ IF alive = {}
        THEN cached' = cached \ penalised /\ UNCHANGED last_cleaning
        ELSE CleanFilledOrders(penalty, cached \ penalised)
     /\ expiring' = expiring \ {k}
     /\ rematching' = rematching \o <<m.tx0, m.tx1>>
     /\ UNCHANGED <<block, pc, due, matching, candidates>>

MatchesExpired ==
  /\ pc = "matches" /\ expiring = {}
  /\ pc' = "rematch"
  /\ UNCHANGED <<block, tables, cache, loops>>

RematchNothing ==
  /\ pc = "rematch" /\ matching = None /\ rematching # <<>>
  /\ rematching' = Tail(rematching)
  /\ UNCHANGED <<block, tables, cache, pc, expiring, due, matching, candidates>>
\* Re-match: match() of the orders of the matches that expired.
Rematch ==
  /\ pc = "rematch" /\ matching = None /\ rematching # <<>>
  /\ rematching' = Tail(rematching)
  /\ StartMatch(orders, cached, Head(rematching))
  /\ UNCHANGED <<block, tables, cache, pc, expiring, due>>

\* expire_orders: those due now, and those of the block before.
MatchedAgain ==
  /\ pc = "rematch" /\ matching = None /\ rematching = <<>>
  /\ pc' = "orders"
  /\ due' = OrdersToExpire(block) \union OrdersToExpire(block - 1)
  /\ UNCHANGED <<block, tables, cache, expiring, rematching, matching, candidates>>

ExpireOrder(i) ==
  /\ pc = "orders"
  /\ \A j \in due : \/ orders[i].expire_index > orders[j].expire_index
                    \/ orders[i].expire_index = orders[j].expire_index /\ i <= j
  /\ orders' = [orders EXCEPT ![i] = Expired(@)]
  /\ balances' = Returned(i)
  /\ cached' = cached \ {i}
  /\ due' = due \ {i}
  /\ UNCHANGED <<block, order_matches, last_cleaning, pc, expiring, rematching,
                 matching, candidates>>

OrdersExpired ==
  /\ pc = "orders" /\ due = {}
  /\ pc' = "transactions"
  /\ UNCHANGED <<block, tables, cache, loops>>

----------------------------------------------------------------------------
Init ==
  /\ block = FirstBlock
  /\ balances = Funds
  /\ orders = <<>> /\ order_matches = <<>>
  /\ cached = {} /\ last_cleaning = 0
  /\ pc = "transactions"
  /\ expiring = {} /\ rematching = <<>> /\ due = {}
  /\ matching = None /\ candidates = {}

Next ==
  \/ \E o \in Offers : Order(o)
  \/ InvalidOrder
  \/ \E i \in OrderIds : Cancel(i)
  \/ \E k \in MatchIds, source, destination \in Addresses : BTCPay(k, source, destination)
  \/ \E i \in candidates : MatchNext(i)
  \/ MatchEnd
  \/ NextBlock
  \/ \E k \in expiring : ExpireOrderMatch(k)
  \/ MatchesExpired
  \/ Rematch
  \/ MatchedAgain
  \/ \E i \in due : ExpireOrder(i)
  \/ OrdersExpired

Spec == Init /\ [][Next]_vars

----------------------------------------------------------------------------
Statuses == {"open", "filled", "cancelled", "expired"}
OrderType ==
  [source : Addresses, status : Statuses,
   give_asset : Assets \union {BTC}, give_quantity : Nat \ {0}, give_remaining : Int,
   get_asset : Assets \union {BTC}, get_quantity : Nat \ {0}, get_remaining : Int,
   expire_index : Nat, opened : Nat, block_index : Nat,
   fee_required : Nat, fee_required_remaining : Int, fee_provided_remaining : Int]
MatchType ==
  [tx0 : Nat \ {0}, tx1 : Nat \ {0}, forward_quantity : Nat \ {0},
   backward_quantity : Nat \ {0}, fee_paid : Int, match_expire_index : Nat,
   status : {"pending", "completed", "expired"}]

\* The type invariant: every id stands for an order or for a match.
TypeOK ==
  /\ block \in Nat
  /\ balances \in [Addresses \X Assets -> Int]
  /\ orders \in Seq(OrderType)
  /\ order_matches \in Seq(MatchType)
  /\ \A k \in MatchIds : /\ {order_matches[k].tx0, order_matches[k].tx1} \subseteq OrderIds
                         /\ order_matches[k].tx0 # order_matches[k].tx1
  /\ cached \subseteq OrderIds /\ last_cleaning \in Nat
  /\ pc \in {"matches", "rematch", "orders", "transactions"}
  /\ expiring \subseteq MatchIds /\ rematching \in Seq(OrderIds) /\ due \subseteq OrderIds
  /\ matching \in OrderIds \union {None} /\ candidates \subseteq OrderIds

\* What the exchange holds of an asset: balances, the escrow of the open orders
\* and of the pending matches, and what an order that was filled by a payment
\* of BTC never gave.
InBalances(x) == SumFunctionOnSet([a \in Addresses |-> balances[<<a, x>>]], Addresses)
InOrder(o, status, x) ==
  IF o.status = status /\ o.give_asset = x /\ (status = "filled" => o.get_asset = BTC)
  THEN o.give_remaining ELSE 0
InOrders(status, x) ==
  SumFunctionOnSet([i \in OrderIds |-> InOrder(orders[i], status, x)], OrderIds)
Escrow(m, x) ==
  (IF ForwardAsset(m) = x THEN m.forward_quantity ELSE 0)
    + (IF BackwardAsset(m) = x THEN m.backward_quantity ELSE 0)
InMatch(m, x) == IF m.status = "pending" THEN Escrow(m, x) ELSE 0
InPendingMatches(x) ==
  SumFunctionOnSet([k \in MatchIds |-> InMatch(order_matches[k], x)], MatchIds)
Held(x) ==
  InBalances(x) + InOrders("open", x) + InOrders("filled", x) + InPendingMatches(x)

\* A payment marks an order as filled that was cancelled or has expired.
Revives == \E i \in OrderIds : IsDead(orders[i]) /\ orders'[i].status = "filled"

\* ledger.held counts what is left in a filled order only when it sold XCP for BTC.
LedgerHeld(x) ==
  InBalances(x) + InOrders("open", x) + InPendingMatches(x)
    + (IF x = XCP THEN InOrders("filled", x) ELSE 0)

\* check.asset_conservation (check.py:938) raises SanityError unless what is
\* held is what was issued.
AssetConservation ==
  \A x \in Assets :
    LedgerHeld(x) = SumFunctionOnSet([a \in Addresses |-> Funds[<<a, x>>]], Addresses)

\* Nobody spends what is not there: no balance and no escrow falls below zero.
Solvent ==
  /\ \A k \in DOMAIN balances : balances[k] >= 0
  /\ \A i \in OrderIds : orders[i].give_remaining >= 0

\* The escrow of a match is paid out once: a match that was paid or has expired
\* never changes again.
SettledOnce ==
  [][\A k \in MatchIds :
       order_matches[k].status # "pending" => order_matches'[k] = order_matches[k]]_vars

\* What remains of an order and what it gave and got in matches that did not
\* expire add up to what it was opened for.  Only an order that was closed may
\* account for less: a match of it that expires is refunded to its address.
GaveIn(m, i) == IF i \in {m.tx0, m.tx1} /\ m.status # "expired" THEN Gave(m, i) ELSE 0
GotIn(m, i) == IF i \in {m.tx0, m.tx1} /\ m.status # "expired" THEN Got(m, i) ELSE 0
Giving(i) ==
  orders[i].give_remaining
    + SumFunctionOnSet([k \in MatchIds |-> GaveIn(order_matches[k], i)], MatchIds)
Getting(i) ==
  orders[i].get_remaining
    + SumFunctionOnSet([k \in MatchIds |-> GotIn(order_matches[k], i)], MatchIds)
RemainingIsAccounted ==
  \A i \in OrderIds :
    IF IsDead(orders[i])
    THEN Giving(i)' <= Giving(i) /\ Getting(i)' <= Getting(i)
    ELSE Giving(i)' = Giving(i) /\ Getting(i)' = Getting(i)

\* No step creates or loses a unit of an asset: what leaves a balance is in the
\* escrow of an order, what leaves an order is in a match or in a balance, the
\* parts of a transaction agree on how much, and the books of each order balance.
EveryStepConserves ==
  [][/\ \A x \in Assets : Held(x)' = Held(x) \/ Revives
     /\ RemainingIsAccounted]_vars

\* Nobody trades at a price worse than the one in the order: what tx1 pays is at
\* most what it offers for what it gets, what tx0 is paid is its price, and
\* only the rounding of one unit is lost.
LimitPrice ==
  \A k \in MatchIds :
    LET m == order_matches[k]
        tx0 == orders[m.tx0]
        tx1 == orders[m.tx1]
    IN /\ 2 * m.backward_quantity * tx0.give_quantity
            >= (2 * m.forward_quantity * tx0.get_quantity) - tx0.give_quantity
       /\ 2 * m.backward_quantity * tx1.get_quantity
            <= (2 * m.forward_quantity * tx1.give_quantity) + tx1.get_quantity

\* When an order is opened, it takes the best price first and of equal prices the
\* oldest: in the order of its matches of that block, which expire together.
BestPriceFirst ==
  \A k, l \in MatchIds :
    LET m == order_matches[k]
        n == order_matches[l]
        first == orders[m.tx0].get_quantity * orders[n.tx0].give_quantity
        second == orders[n.tx0].get_quantity * orders[m.tx0].give_quantity
    IN /\ k < l /\ m.tx1 = n.tx1
       /\ m.match_expire_index = orders[m.tx1].opened + MatchLife
       /\ n.match_expire_index = orders[m.tx1].opened + MatchLife
       => /\ first <= second
          /\ first = second => m.tx0 < n.tx0

\* Every trade keeps the limits of both and takes the best price there was.
TradesAreFair == LimitPrice /\ BestPriceFirst

\* What remains of the fee pays for a trade of the whole of tx1.
FeeCovers(tx0, tx1) ==
  /\ tx1.get_asset = BTC => tx0.fee_provided_remaining >= tx1.fee_required
  /\ tx1.give_asset = BTC =>
       tx1.fee_provided_remaining >= (tx0.fee_required * tx1.give_quantity) \div tx0.give_quantity

\* Between transactions the book is not crossed: of two open orders that suit
\* each other, whichever came first, one has been matched with the other.  Not so
\* when the fee was too low for the trade there was to make and suffices for what
\* is left of it, nor when one of them had left the cache: nobody tries again.
BookIsNotCrossed ==
  CanParse =>
    \A i, j \in cached :
      /\ i # j /\ orders[i].status = "open" /\ orders[j].status = "open"
      /\ Opposite(orders[i], orders[j]) /\ ~MatchedBefore(i, j)
      /\ FeeCovers(orders[i], orders[j]) /\ FeeCovers(orders[j], orders[i])
      => ~Suits(orders[i], orders[j]) \/ ~Suits(orders[j], orders[i])

\* A match is pending at most until the block after its match_expire_index.
PendingIsTimely ==
  CanParse => \A k \in MatchIds :
    order_matches[k].status = "pending" => block <= order_matches[k].match_expire_index

\* Two orders are matched at most once.
MatchedOnce ==
  \A k, l \in MatchIds :
    {order_matches[k].tx0, order_matches[k].tx1} = {order_matches[l].tx0, order_matches[l].tx1}
      => k = l

\* The cache gives up an order only when nothing can open it again: the order has
\* expired, or it is filled and no payment for it is outstanding.  So match()
\* finds the same orders in the cache as in the database, unless an order is
\* opened that had expired.
DroppedForGood ==
  [][\A i \in cached \ cached' :
       \/ orders'[i].status = "expired"
       \/ orders'[i].status = "filled" /\ PendingMatches({i})' = {}]_vars
=============================================================================
