----------------------------- MODULE OrdersProofs -----------------------------
(***************************************************************************)
(* Theorems about the exchange of Orders, for any offers, any funds and    *)
(* any number of blocks and orders: type correctness; the escrow of a      *)
(* match is settled once, and on time; two orders are matched at most      *)
(* once; the cache drops no order that can be opened again, whatever       *)
(* MatchLife and CleanAge are, as long as MatchLife < CleanAge; no         *)
(* balance and no escrow is overspent, however a trade is rounded; trades  *)
(* keep the limits of both orders and take the best price first; no step   *)
(* creates or loses a unit of an asset; and the book is not crossed.       *)
(***************************************************************************)
EXTENDS Orders, SequenceTheorems, SumTheorems, TLAPS

----------------------------------------------------------------------------
\* The inductive invariant.

Pending(k) == order_matches[k].status = "pending"

\* The matches that are being expired have not been paid.
ExpiringIsPending ==
  /\ pc # "matches" => expiring = {}
  /\ \A k \in expiring : Pending(k)

\* No pending match is late, except those that are being expired.
PendingIsCurrent ==
  \A k \in MatchIds : Pending(k) =>
    LET due_at == order_matches[k].match_expire_index
    IN /\ due_at <= block + MatchLife
       /\ due_at >= block \/ (due_at = block - 1 /\ k \in expiring)

\* An order was filled after the last match of it was made.
FilledIsRecent ==
  \A i \in OrderIds, k \in MatchIds :
    /\ orders[i].status = "filled"
    /\ Pending(k) /\ i \in {order_matches[k].tx0, order_matches[k].tx1}
    => order_matches[k].match_expire_index <= orders[i].block_index + MatchLife

IInv ==
  /\ TypeOK
  /\ ExpiringIsPending
  /\ PendingIsCurrent
  /\ FilledIsRecent
  /\ MatchedOnce
  /\ matching \notin candidates

----------------------------------------------------------------------------
\* Amounts are integers.
LEMMA RoundType ==
  ASSUME NEW n \in Int, NEW d \in Nat \ {0}
  PROVE  Round(n, d) \in Int
<1>1. n \div d \in Int /\ n % d \in Int
  OBVIOUS
<1> QED
  BY <1>1 DEF Round

\* The amounts and the fee of a trade are integers.
LEMMA TradeTypes ==
  ASSUME NEW tx0 \in OrderType, NEW tx1 \in OrderType
  PROVE  /\ Forward(tx0, tx1) \in Int
         /\ Backward(tx0, tx1) \in Int
         /\ Fee(tx0, tx1) \in Int
<1>1. /\ {tx0.give_remaining, tx1.give_remaining, tx0.fee_required, tx1.fee_required} \subseteq Int
      /\ {tx0.give_quantity, tx0.get_quantity, tx1.give_quantity} \subseteq Nat \ {0}
  BY DEF OrderType
<1> DEFINE product == tx1.give_remaining * tx0.give_quantity
<1>2. product \in Int
  BY <1>1
<1>3. product \div tx0.get_quantity \in Int
  <2> HIDE DEF product
  <2> QED BY <1>1, <1>2
<1>4. Forward(tx0, tx1) \in Int
  BY <1>1, <1>3 DEF Forward
<1>5. Forward(tx0, tx1) * tx0.get_quantity \in Int
  <2> HIDE DEF product
  <2> QED BY <1>1, <1>4
<1>6. Backward(tx0, tx1) \in Int
  BY <1>1, <1>5, RoundType DEF Backward
<1> DEFINE p1 == tx1.fee_required * Backward(tx0, tx1)
           p0 == tx0.fee_required * Backward(tx0, tx1)
<1>7. p1 \in Int /\ p0 \in Int
  <2> HIDE DEF product
  <2> QED BY <1>1, <1>6
<1>8. p1 \div tx1.give_quantity \in Int /\ p0 \div tx0.give_quantity \in Int
  <2> HIDE DEF p0, p1, product
  <2> QED BY <1>1, <1>7
<1>9. Fee(tx0, tx1) \in Int
  BY <1>8 DEF Fee
<1> QED
  BY <1>4, <1>6, <1>9

\* What the parser does to a row of orders leaves it a row.
LEMMA TradedType ==
  ASSUME NEW o \in OrderType, NEW g \in Int, NEW t \in Int, NEW fee \in Int,
         NEW p \in BOOLEAN, NEW r \in BOOLEAN, block \in Nat
  PROVE  /\ Traded(o, g, t, p, r, fee) \in OrderType
         /\ Traded(o, g, t, p, r, fee).block_index = block
<1> DEFINE give == o.give_remaining - g
           get == o.get_remaining - t
           provided == IF p THEN o.fee_provided_remaining - fee ELSE o.fee_provided_remaining
           required == IF r THEN o.fee_required_remaining - fee ELSE o.fee_required_remaining
           after == [o EXCEPT !.give_remaining = give, !.get_remaining = get,
                              !.fee_provided_remaining = provided,
                              !.fee_required_remaining = required, !.block_index = block]
<1>1. give \in Int /\ get \in Int /\ provided \in Int /\ required \in Int
  BY DEF OrderType
<1>2. Traded(o, g, t, p, r, fee) = after
  BY DEF Traded
<1> HIDE DEF give, get, provided, required
<1>3. after \in OrderType /\ after.block_index = block
  BY <1>1 DEF OrderType
<1> QED
  BY <1>2, <1>3

\* A row that gets back what a match took is a row, and is not filled.
LEMMA ReplenishedType ==
  ASSUME NEW o \in OrderType, NEW g \in Int, NEW t \in Int, NEW fee \in Int, block \in Nat
  PROVE  /\ Replenished(o, g, t, fee) \in OrderType
         /\ Replenished(o, g, t, fee).status # "filled"
<1> DEFINE give == o.give_remaining + g
           get == o.get_remaining + t
           required == IF o.get_asset = BTC THEN o.fee_required_remaining + fee
                       ELSE o.fee_required_remaining
           status == IF o.status = "filled" THEN "open" ELSE o.status
           after == [o EXCEPT !.give_remaining = give, !.get_remaining = get,
                              !.fee_required_remaining = required, !.status = status,
                              !.block_index = block]
<1>1. give \in Int /\ get \in Int /\ required \in Int /\ status \in Statuses \ {"filled"}
  BY DEF OrderType, Statuses
<1>2. Replenished(o, g, t, fee) = after
  BY DEF Replenished
<1> HIDE DEF give, get, required, status
<1>3. after \in OrderType /\ after.status = status
  BY <1>1 DEF OrderType
<1> QED
  BY <1>1, <1>2, <1>3

\* A row stays a row when its status is changed in this block.
LEMMA ClosedType ==
  ASSUME NEW o \in OrderType, NEW status \in Statuses, block \in Nat
  PROVE  /\ [o EXCEPT !.status = status, !.block_index = block] \in OrderType
         /\ [o EXCEPT !.status = status, !.block_index = block].status = status
         /\ [o EXCEPT !.status = status, !.block_index = block].block_index = block
BY DEF OrderType

\* A credit leaves the balances balances, whatever it is of.
LEMMA CreditType ==
  ASSUME NEW b \in [Addresses \X Assets -> Int], NEW a, NEW x, NEW q \in Int
  PROVE  Credit(b, a, x, q) \in [Addresses \X Assets -> Int]
<1>1. CASE <<a, x>> \in Addresses \X Assets
  BY <1>1 DEF Credit
<1>2. CASE <<a, x>> \notin Addresses \X Assets
  BY <1>2 DEF Credit
<1> QED
  BY <1>1, <1>2

----------------------------------------------------------------------------
\* Sequences.
LEMMA SameLength ==
  ASSUME NEW T, NEW s \in Seq(T), NEW f \in [DOMAIN s -> T]
  PROVE  f \in Seq(T) /\ DOMAIN f = DOMAIN s
<1>1. Len(s) \in Nat /\ DOMAIN s = 1..Len(s)
  BY LenProperties
<1> QED
  BY <1>1

\* A sequence over a set is one over every larger set.
LEMMA WiderSequence ==
  ASSUME NEW A, NEW B, A \subseteq B, NEW s \in Seq(A)
  PROVE  s \in Seq(B)
<1>1. Len(s) \in Nat /\ s \in [1..Len(s) -> A]
  BY LenProperties
<1>2. s \in [1..Len(s) -> B]
  BY <1>1
<1> QED
  BY <1>1, <1>2

\* The rows of a sequence to which one is appended.
LEMMA Appended ==
  ASSUME NEW T, NEW s \in Seq(T), NEW e \in T
  PROVE  /\ Append(s, e) \in Seq(T)
         /\ Len(s) \in Nat /\ DOMAIN s = 1..Len(s)
         /\ DOMAIN Append(s, e) = DOMAIN s \union {Len(s) + 1}
         /\ Len(s) + 1 \notin DOMAIN s
         /\ \A i \in DOMAIN s : Append(s, e)[i] = s[i]
         /\ Append(s, e)[Len(s) + 1] = e
<1>1. Len(s) \in Nat /\ DOMAIN s = 1..Len(s)
  BY LenProperties
<1>2. /\ Append(s, e) \in Seq(T) /\ Len(Append(s, e)) = Len(s) + 1
      /\ \A i \in 1..Len(s) : Append(s, e)[i] = s[i]
      /\ Append(s, e)[Len(s) + 1] = e
  BY AppendProperties
<1>3. DOMAIN Append(s, e) = 1..(Len(s) + 1)
  BY <1>2, LenProperties
<1> QED
  BY <1>1, <1>2, <1>3

----------------------------------------------------------------------------
\* The rows of a state.
LEMMA Rows ==
  ASSUME TypeOK
  PROVE  /\ \A i \in OrderIds : orders[i] \in OrderType /\ i \in Nat \ {0}
         /\ \A k \in MatchIds : order_matches[k] \in MatchType /\ k \in Nat \ {0}
<1>1. orders \in Seq(OrderType) /\ order_matches \in Seq(MatchType)
  BY DEF TypeOK
<1>2. /\ Len(orders) \in Nat /\ OrderIds = 1..Len(orders)
      /\ Len(order_matches) \in Nat /\ MatchIds = 1..Len(order_matches)
  BY <1>1, LenProperties DEF OrderIds, MatchIds
<1> QED
  BY <1>1, <1>2, ElementOfSeq

\* A payment or an expiration closes a match, and changes nothing else of it.
LEMMA MatchClosed ==
  ASSUME TypeOK, NEW k \in MatchIds, NEW status \in {"completed", "expired"},
         order_matches' = [order_matches EXCEPT ![k].status = status]
  PROVE  /\ order_matches' \in Seq(MatchType)
         /\ MatchIds' = MatchIds
         /\ \A l \in MatchIds : /\ order_matches'[l].tx0 = order_matches[l].tx0
                                /\ order_matches'[l].tx1 = order_matches[l].tx1
                                /\ order_matches'[l].match_expire_index
                                     = order_matches[l].match_expire_index
         /\ \A l \in MatchIds \ {k} : order_matches'[l] = order_matches[l]
         /\ order_matches'[k].status # "pending"
<1>1. \A l \in MatchIds : order_matches[l] \in MatchType
  BY Rows
<1> DEFINE m == [order_matches[k] EXCEPT !.status = status]
<1>2. /\ m \in MatchType /\ m.status = status /\ m.tx0 = order_matches[k].tx0
      /\ m.tx1 = order_matches[k].tx1
      /\ m.match_expire_index = order_matches[k].match_expire_index
  BY <1>1 DEF MatchType
<1>3. order_matches' = [order_matches EXCEPT ![k] = m]
  OBVIOUS
<1>4. order_matches \in Seq(MatchType) /\ MatchIds = DOMAIN order_matches
  BY DEF TypeOK, MatchIds
<1>5. /\ order_matches' \in [MatchIds -> MatchType]
      /\ order_matches'[k] = m
      /\ \A l \in MatchIds \ {k} : order_matches'[l] = order_matches[l]
  <2> HIDE DEF m
  <2>1. order_matches \in [MatchIds -> MatchType]
    BY <1>1, <1>4, LenProperties
  <2> QED
    BY <1>2, <1>3, <2>1
<1>6. order_matches' \in Seq(MatchType) /\ MatchIds' = MatchIds
  BY <1>4, <1>5, SameLength DEF MatchIds
<1> QED
  BY <1>2, <1>5, <1>6

----------------------------------------------------------------------------
\* What match() and the cache do at the end of an action.
LEMMA StartMatchType ==
  ASSUME NEW os, NEW c, NEW i \in DOMAIN os, StartMatch(os, c, i)
  PROVE  /\ matching' \in DOMAIN os \union {None}
         /\ candidates' \subseteq DOMAIN os
         /\ matching' \notin candidates' \/ candidates' = {}
BY DEF StartMatch, NoMatch, Matching

\* Cleaning the cache adds nothing to it.
LEMMA CleanType ==
  ASSUME NEW os, NEW c, CleanFilledOrders(os, c), block \in Nat, last_cleaning \in Nat
  PROVE  cached' \subseteq c /\ last_cleaning' \in Nat
BY DEF CleanFilledOrders

\* An order for the balance, if it is valid, is an order like any other.
LEMMA AffordableType ==
  ASSUME TypeOK, NEW offer \in Offers, Valid(Affordable(offer)), NEW o, o = Affordable(offer)
  PROVE  o \in Offer /\ OrderRow(o) \in OrderType /\ OrderRow(o).status = "open"
<1>1. offer \in Offer
  BY OffersAssumption
<1>2. o \in Offer
  <2>1. CASE o = offer
    BY <1>1, <2>1
  <2>2. CASE o # offer
    <3> DEFINE balance == balances[<<offer.source, offer.give_asset>>]
               get == (offer.get_quantity * balance) \div offer.give_quantity
               less == [offer EXCEPT !.give_quantity = balance, !.get_quantity = get]
    <3>1. o = less /\ offer.give_asset # BTC
      BY <2>2 DEF Affordable
    <3>2. <<offer.source, offer.give_asset>> \in Addresses \X Assets
      BY <1>1, <3>1 DEF Offer
    <3>3. balance \in Int /\ offer.get_quantity \in Int /\ offer.give_quantity \in Nat \ {0}
      BY <1>1, <3>2 DEF TypeOK, Offer
    <3>4. offer.get_quantity * balance \in Int
      <4> HIDE DEF balance
      <4> QED BY <3>3
    <3> DEFINE product == offer.get_quantity * balance
    <3>5. product \div offer.give_quantity \in Int
      <4> HIDE DEF product
      <4>1. product \in Int BY <3>4 DEF product
      <4> QED BY <3>3, <4>1
    <3>6. get \in Int
      BY <3>5
    <3> HIDE DEF get, balance
    <3>7. less.give_quantity = balance /\ less.get_quantity = get
      BY <1>1 DEF Offer
    <3>8. balance > 0 /\ get > 0
      BY <3>1, <3>7 DEF Valid
    <3>9. balance \in Nat \ {0} /\ get \in Nat \ {0}
      BY <3>3, <3>6, <3>8
    <3>10. less \in Offer
      BY <1>1, <3>9 DEF Offer
    <3> QED
      BY <3>1, <3>10
  <2> QED
    BY <2>1, <2>2
<1>3. block + o.expiration \in Nat /\ block \in Nat
  BY <1>2 DEF TypeOK, Offer
<1>4. OrderRow(o) \in OrderType /\ OrderRow(o).status = "open"
  BY <1>2, <1>3 DEF OrderRow, OrderType, Offer, Statuses
<1> QED
  BY <1>2, <1>4

\* order.parse keeps the invariant.
LEMMA OrderStep ==
  ASSUME IInv, NEW offer \in Offers, Order(offer)
  PROVE  IInv'
<1> DEFINE o == Affordable(offer)
           os == Append(orders, OrderRow(o))
           n == Len(orders) + 1
<1>1. /\ pc = "transactions" /\ matching = None /\ Valid(o)
      /\ orders' = os /\ CleanFilledOrders(os, cached \union {Len(os)})
      /\ StartMatch(os, cached', Len(os))
      /\ UNCHANGED <<block, order_matches, pc, expiring, rematching, due>>
  BY DEF Order, CanParse
<1>2. TypeOK
  BY DEF IInv
<1>3. /\ o \in Offer /\ OrderRow(o) \in OrderType /\ OrderRow(o).status = "open"
  BY <1>1, <1>2, AffordableType
<1>4. /\ orders' \in Seq(OrderType) /\ OrderIds = 1..Len(orders) /\ Len(orders) \in Nat
      /\ OrderIds' = OrderIds \union {n} /\ n \notin OrderIds
      /\ \A i \in OrderIds : orders'[i] = orders[i]
      /\ orders'[n].status = "open" /\ Len(os) = n /\ DOMAIN os = OrderIds'
  <2>1. orders \in Seq(OrderType)
    BY <1>2 DEF TypeOK
  <2>2. /\ os \in Seq(OrderType) /\ DOMAIN os = DOMAIN orders \union {n}
        /\ n \notin DOMAIN orders /\ \A i \in DOMAIN orders : os[i] = orders[i]
        /\ os[n] = OrderRow(o) /\ Len(orders) \in Nat /\ DOMAIN orders = 1..Len(orders)
    <3> HIDE DEF o
    <3> QED BY <1>3, <2>1, Appended
  <2>3. Len(os) = n
    <3> HIDE DEF o
    <3> QED BY <1>3, <2>1, AppendProperties
  <2> HIDE DEF os
  <2> QED
    BY <1>1, <1>3, <2>2, <2>3 DEF OrderIds
<1>5. balances' \in [Addresses \X Assets -> Int]
  <2>1. -o.give_quantity \in Int
    BY <1>3 DEF Offer
  <2>2. balances' = balances
          \/ balances' = Credit(balances, o.source, o.give_asset, -o.give_quantity)
    BY DEF Order
  <2>3. balances \in [Addresses \X Assets -> Int]
    BY <1>2 DEF TypeOK
  <2> HIDE DEF o
  <2>4. Credit(balances, o.source, o.give_asset, -o.give_quantity)
          \in [Addresses \X Assets -> Int]
    BY <2>1, <2>3, CreditType
  <2> QED
    BY <2>2, <2>3, <2>4
<1>6. /\ matching' \in OrderIds' \union {None} /\ candidates' \subseteq OrderIds'
      /\ matching' \notin candidates'
  <2> HIDE DEF os
  <2>1. Len(os) \in DOMAIN os
    BY <1>4
  <2> QED
    BY <1>1, <1>4, <2>1, StartMatchType
<1>7. cached' \subseteq OrderIds' /\ last_cleaning' \in Nat
  <2> HIDE DEF os
  <2>1. cached' \subseteq cached \union {n} /\ last_cleaning' \in Nat
    BY <1>1, <1>2, <1>4, CleanType DEF TypeOK
  <2> QED
    BY <1>2, <1>4, <2>1 DEF TypeOK
<1> HIDE DEF os, o, n
<1>8. rematching' \in Seq(OrderIds')
  BY <1>1, <1>2, <1>4, WiderSequence DEF TypeOK
<1>9. /\ TypeOK!1' /\ order_matches' \in Seq(MatchType)
      /\ expiring' \subseteq MatchIds' /\ due' \subseteq OrderIds'
      /\ pc' \in {"matches", "rematch", "orders", "transactions"}
      /\ \A k \in MatchIds' : /\ {order_matches'[k].tx0, order_matches'[k].tx1} \subseteq OrderIds'
                              /\ order_matches'[k].tx0 # order_matches'[k].tx1
  BY <1>1, <1>2, <1>4 DEF TypeOK, MatchIds
<1>10. TypeOK'
  BY <1>4, <1>5, <1>6, <1>7, <1>8, <1>9 DEF TypeOK
<1>11. ExpiringIsPending' /\ PendingIsCurrent' /\ MatchedOnce'
  BY <1>1 DEF IInv, ExpiringIsPending, PendingIsCurrent, MatchedOnce, Pending, MatchIds
<1>12. FilledIsRecent'
  BY <1>1, <1>4 DEF IInv, FilledIsRecent, Pending, MatchIds
<1> QED
  BY <1>6, <1>10, <1>11, <1>12 DEF IInv

\* An order is closed: cancelled, or expired.
LEMMA CloseStep ==
  ASSUME IInv, NEW i \in OrderIds, NEW status \in {"cancelled", "expired"},
         orders' = [orders EXCEPT ![i] = [@ EXCEPT !.status = status, !.block_index = block]],
         balances' = Returned(i), cached' \subseteq cached, last_cleaning' \in Nat,
         due' \subseteq due, UNCHANGED <<block, order_matches, pc, expiring, rematching>>,
         UNCHANGED <<matching, candidates>>
  PROVE  IInv'
<1>1. TypeOK
  BY DEF IInv
<1>2. orders[i] \in OrderType
  BY <1>1, Rows
<1> DEFINE row == [orders[i] EXCEPT !.status = status, !.block_index = block]
<1>3. row \in OrderType /\ row.status = status
  BY <1>1, <1>2, ClosedType DEF TypeOK, Statuses
<1>4. orders' = [orders EXCEPT ![i] = row]
  OBVIOUS
<1> HIDE DEF row
<1>5. /\ orders' \in Seq(OrderType) /\ OrderIds' = OrderIds
      /\ orders'[i] = row
      /\ \A j \in OrderIds \ {i} : orders'[j] = orders[j]
  <2>1. orders \in [OrderIds -> OrderType] /\ orders \in Seq(OrderType)
    BY <1>1, Rows, LenProperties DEF TypeOK, OrderIds
  <2>2. orders' \in [DOMAIN orders -> OrderType]
    BY <1>3, <1>4, <2>1 DEF OrderIds
  <2>3. orders' \in Seq(OrderType) /\ DOMAIN orders' = DOMAIN orders
    BY <2>1, <2>2, SameLength
  <2> QED
    BY <1>4, <2>1, <2>3 DEF OrderIds
<1>6. balances' \in [Addresses \X Assets -> Int]
  <2>1. balances \in [Addresses \X Assets -> Int] /\ orders[i].give_remaining \in Int
    BY <1>1, <1>2 DEF TypeOK, OrderType
  <2>2. Credit(balances, orders[i].source, orders[i].give_asset, orders[i].give_remaining)
          \in [Addresses \X Assets -> Int]
    BY <2>1, CreditType
  <2> QED
    BY <2>1, <2>2 DEF Returned
<1>7. TypeOK'
  BY <1>1, <1>5, <1>6 DEF TypeOK, MatchIds
<1>8. ExpiringIsPending' /\ PendingIsCurrent' /\ MatchedOnce'
  BY DEF IInv, ExpiringIsPending, PendingIsCurrent, MatchedOnce, Pending, MatchIds
<1>9. FilledIsRecent'
  BY <1>3, <1>5 DEF IInv, FilledIsRecent, Pending, MatchIds
<1> QED
  BY <1>7, <1>8, <1>9 DEF IInv

\* An invalid order only cleans the cache.
LEMMA InvalidOrderRows ==
  ASSUME TypeOK, InvalidOrder
  PROVE  /\ cached' \subseteq cached /\ last_cleaning' \in Nat
         /\ UNCHANGED <<block, balances, orders, order_matches, pc, expiring, rematching, due,
                        matching, candidates>>
<1>1. CleanFilledOrders(orders, cached) /\ block \in Nat /\ last_cleaning \in Nat
  BY DEF InvalidOrder, TypeOK
<1>2. cached' \subseteq cached /\ last_cleaning' \in Nat
  BY <1>1, CleanType
<1> QED
  BY <1>2 DEF InvalidOrder, tables, loops

\* An invalid order keeps the invariant.
LEMMA InvalidOrderStep ==
  ASSUME IInv, InvalidOrder
  PROVE  IInv'
<1>1. TypeOK
  BY DEF IInv
<1>2. /\ cached' \subseteq cached /\ last_cleaning' \in Nat
      /\ UNCHANGED <<block, balances, orders, order_matches, pc, expiring, rematching, due,
                     matching, candidates>>
  BY <1>1, InvalidOrderRows
<1>3. TypeOK'
  BY <1>1, <1>2 DEF TypeOK, OrderIds, MatchIds
<1> QED
  BY <1>2, <1>3 DEF IInv, ExpiringIsPending, PendingIsCurrent, FilledIsRecent, MatchedOnce,
                    Pending, OrderIds, MatchIds

\* cancel.parse keeps the invariant.
LEMMA CancelStep ==
  ASSUME IInv, NEW i \in OrderIds, Cancel(i)
  PROVE  IInv'
<1> DEFINE os == [orders EXCEPT ![i] = [@ EXCEPT !.status = "cancelled", !.block_index = block]]
<1>1. cached' \subseteq cached /\ last_cleaning' \in Nat
  <2>1. CleanFilledOrders(os, cached)
    BY DEF Cancel
  <2>2. block \in Nat /\ last_cleaning \in Nat
    BY DEF IInv, TypeOK
  <2> HIDE DEF os
  <2> QED
    BY <2>1, <2>2, CleanType
<1>2. /\ orders' = os /\ balances' = Returned(i)
      /\ due' \subseteq due /\ UNCHANGED <<block, order_matches, pc, expiring, rematching>>
      /\ UNCHANGED <<matching, candidates>>
  BY DEF Cancel, loops
<1> QED
  BY <1>1, <1>2, CloseStep

\* expire_orders keeps the invariant.
LEMMA ExpireOrderStep ==
  ASSUME IInv, NEW i \in due, ExpireOrder(i)
  PROVE  IInv'
<1>1. i \in OrderIds /\ last_cleaning \in Nat
  BY DEF IInv, TypeOK
<1>2. /\ orders' = [orders EXCEPT ![i] = [@ EXCEPT !.status = "expired", !.block_index = block]]
      /\ balances' = Returned(i) /\ cached' \subseteq cached /\ last_cleaning' \in Nat
      /\ due' \subseteq due /\ UNCHANGED <<block, order_matches, pc, expiring, rematching>>
      /\ UNCHANGED <<matching, candidates>>
  BY <1>1 DEF ExpireOrder, Expired
<1> QED
  BY <1>1, <1>2, CloseStep

\* The tables stay as they are; the block and the loops move on.
LEMMA LoopStep ==
  ASSUME IInv, UNCHANGED <<block, tables, cache>>, expiring' = expiring,
         pc' \in {"rematch", "orders", "transactions"}, pc # "matches" \/ expiring = {},
         rematching' \in Seq(OrderIds), due' \subseteq OrderIds,
         matching' \in OrderIds \union {None}, candidates' \subseteq OrderIds,
         matching' \notin candidates'
  PROVE  IInv'
<1>1. TypeOK'
  BY DEF IInv, TypeOK, tables, cache, OrderIds, MatchIds
<1>2. ExpiringIsPending' /\ PendingIsCurrent' /\ MatchedOnce' /\ FilledIsRecent'
  BY DEF IInv, ExpiringIsPending, PendingIsCurrent, MatchedOnce, FilledIsRecent,
         Pending, tables, MatchIds, OrderIds
<1> QED
  BY <1>1, <1>2 DEF IInv

\* What is due when a block begins is pending, and nothing else is late.
LEMMA NextBlockStep ==
  ASSUME IInv, NextBlock
  PROVE  IInv'
<1>1. /\ pc = "transactions" /\ pc' = "matches" /\ block' = block + 1
      /\ expiring' = MatchesToExpire(block + 1)
      /\ UNCHANGED <<tables, cache, rematching, due, matching, candidates>>
  BY DEF NextBlock, CanParse
<1>2. block \in Nat
  BY DEF IInv, TypeOK
<1>3. expiring' = {k \in MatchIds : Pending(k) /\ order_matches[k].match_expire_index = block}
  BY <1>1, <1>2 DEF MatchesToExpire, Pending
<1>4. TypeOK'
  BY <1>1, <1>2, <1>3 DEF IInv, TypeOK, tables, cache, OrderIds, MatchIds
<1>5. ExpiringIsPending' /\ MatchedOnce' /\ FilledIsRecent'
  BY <1>1, <1>3 DEF IInv, ExpiringIsPending, MatchedOnce, FilledIsRecent, Pending,
                    tables, MatchIds, OrderIds
<1>6. PendingIsCurrent'
  <2> SUFFICES ASSUME NEW k \in MatchIds, Pending(k)
               PROVE  LET due_at == order_matches[k].match_expire_index
                      IN /\ due_at <= block + 1 + MatchLife
                         /\ due_at >= block + 1 \/ (due_at = block /\ k \in expiring')
    BY <1>1, <1>2 DEF PendingIsCurrent, Pending, tables, MatchIds
  <2>1. expiring = {}
    BY <1>1 DEF IInv, ExpiringIsPending
  <2>2. /\ order_matches[k].match_expire_index <= block + MatchLife
        /\ order_matches[k].match_expire_index >= block
    BY <2>1 DEF IInv, PendingIsCurrent
  <2>3. order_matches[k].match_expire_index \in Nat
    BY Rows DEF IInv, MatchType
  <2> QED
    BY <1>2, <1>3, <2>2, <2>3, BlocksAssumption
<1> QED
  BY <1>1, <1>4, <1>5, <1>6 DEF IInv

\* The steps that only advance a loop keep the invariant.
LEMMA ControlStep ==
  ASSUME IInv, MatchEnd \/ MatchesExpired \/ Rematch \/ MatchedAgain \/ OrdersExpired
  PROVE  IInv'
<1>1. TypeOK
  BY DEF IInv
<1>2. CASE MatchEnd
  <2>1. matching' = None /\ candidates' = {} /\ pc' = pc
    BY <1>2 DEF MatchEnd, NoMatch
  <2>2. CASE pc = "matches"
    <3>1. UNCHANGED <<block, tables, cache, pc, expiring, rematching, due>>
      BY <1>2 DEF MatchEnd
    <3>2. TypeOK'
      BY <1>1, <2>1, <3>1 DEF TypeOK, tables, cache, OrderIds, MatchIds
    <3>3. ExpiringIsPending' /\ PendingIsCurrent' /\ MatchedOnce' /\ FilledIsRecent'
      BY <3>1 DEF IInv, ExpiringIsPending, PendingIsCurrent, MatchedOnce, FilledIsRecent,
                  Pending, tables, MatchIds, OrderIds
    <3> QED
      BY <2>1, <3>2, <3>3 DEF IInv
  <2>3. CASE pc # "matches"
    BY <1>1, <1>2, <2>1, <2>3, LoopStep DEF MatchEnd, TypeOK
  <2> QED
    BY <2>2, <2>3
<1>3. CASE MatchesExpired
  BY <1>1, <1>3, LoopStep DEF MatchesExpired, loops, TypeOK, IInv
<1>4. CASE Rematch
  <2>1. /\ pc = "rematch" /\ pc' = pc /\ rematching # <<>> /\ rematching' = Tail(rematching)
        /\ StartMatch(orders, cached, Head(rematching))
        /\ UNCHANGED <<block, tables, cache, expiring, due>>
    BY <1>4 DEF Rematch
  <2>2. rematching \in Seq(OrderIds)
    BY <1>1 DEF TypeOK
  <2>3. Head(rematching) \in OrderIds /\ Tail(rematching) \in Seq(OrderIds)
    BY <2>1, <2>2, HeadTailProperties
  <2>4. /\ matching' \in OrderIds \union {None} /\ candidates' \subseteq OrderIds
        /\ matching' \notin candidates'
    BY <2>1, <2>3, StartMatchType DEF OrderIds
  <2> QED
    BY <1>1, <2>1, <2>3, <2>4, LoopStep DEF TypeOK
<1>5. CASE MatchedAgain
  <2>1. due' \subseteq OrderIds /\ pc = "rematch" /\ pc' = "orders"
    BY <1>5 DEF MatchedAgain, OrdersToExpire
  <2> QED
    BY <1>1, <1>5, <2>1, LoopStep DEF MatchedAgain, TypeOK, IInv
<1>6. CASE OrdersExpired
  BY <1>1, <1>6, LoopStep DEF OrdersExpired, loops, TypeOK, IInv
<1> QED
  BY <1>2, <1>3, <1>4, <1>5, <1>6

\* A match is settled; the rows of orders that were filled by it, or before, say
\* so since this block, and no other row becomes filled.
LEMMA SettleStep ==
  ASSUME IInv, NEW k \in MatchIds, Pending(k), NEW status \in {"completed", "expired"},
         order_matches' = [order_matches EXCEPT ![k].status = status],
         orders' \in Seq(OrderType), OrderIds' = OrderIds, UNCHANGED block,
         \A i \in OrderIds : orders'[i].status = "filled" =>
           orders'[i] = orders[i] \/ orders'[i].block_index = block,
         expiring' = expiring \ {k}, pc' = pc
  PROVE  /\ ExpiringIsPending' /\ PendingIsCurrent' /\ FilledIsRecent' /\ MatchedOnce'
         /\ order_matches' \in Seq(MatchType) /\ MatchIds' = MatchIds
         /\ \A l \in MatchIds : /\ order_matches'[l].tx0 = order_matches[l].tx0
                                /\ order_matches'[l].tx1 = order_matches[l].tx1
<1>1. TypeOK
  BY DEF IInv
<1>2. /\ order_matches' \in Seq(MatchType)
      /\ MatchIds' = MatchIds
      /\ \A l \in MatchIds : /\ order_matches'[l].tx0 = order_matches[l].tx0
                             /\ order_matches'[l].tx1 = order_matches[l].tx1
                             /\ order_matches'[l].match_expire_index
                                  = order_matches[l].match_expire_index
      /\ \A l \in MatchIds \ {k} : order_matches'[l] = order_matches[l]
      /\ order_matches'[k].status # "pending"
  BY <1>1, MatchClosed
<1>3. \A l \in MatchIds : Pending(l)' => l # k /\ Pending(l)
  BY <1>2 DEF Pending
<1>4. ExpiringIsPending'
  BY <1>1, <1>2 DEF IInv, ExpiringIsPending, Pending, TypeOK
<1>5. PendingIsCurrent'
  BY <1>2, <1>3 DEF IInv, PendingIsCurrent
<1>6. MatchedOnce'
  <2> SUFFICES ASSUME NEW i \in MatchIds, NEW j \in MatchIds,
                      {order_matches'[i].tx0, order_matches'[i].tx1}
                        = {order_matches'[j].tx0, order_matches'[j].tx1}
               PROVE  i = j
    BY <1>2 DEF MatchedOnce
  <2>1. /\ order_matches'[i].tx0 = order_matches[i].tx0
        /\ order_matches'[i].tx1 = order_matches[i].tx1
        /\ order_matches'[j].tx0 = order_matches[j].tx0
        /\ order_matches'[j].tx1 = order_matches[j].tx1
    BY <1>2
  <2>2. {order_matches[i].tx0, order_matches[i].tx1} = {order_matches[j].tx0, order_matches[j].tx1}
    BY <2>1
  <2>3. MatchedOnce
    BY DEF IInv
  <2> QED
    BY <2>2, <2>3 DEF MatchedOnce
<1>7. FilledIsRecent'
  <2> SUFFICES ASSUME NEW i \in OrderIds, NEW l \in MatchIds, orders'[i].status = "filled",
                      Pending(l), i \in {order_matches[l].tx0, order_matches[l].tx1}
               PROVE  order_matches[l].match_expire_index <= orders'[i].block_index + MatchLife
    BY <1>2, <1>3 DEF FilledIsRecent
  <2>1. CASE orders'[i] = orders[i]
    BY <2>1 DEF IInv, FilledIsRecent
  <2>2. CASE orders'[i].block_index = block
    BY <2>2 DEF IInv, PendingIsCurrent
  <2> QED
    BY <2>1, <2>2
<1> QED
  BY <1>2, <1>4, <1>5, <1>6, <1>7

\* btcpay.parse keeps the invariant.
LEMMA BTCPayStep ==
  ASSUME IInv, NEW k \in MatchIds, NEW source \in Addresses, NEW destination \in Addresses,
         BTCPay(k, source, destination)
  PROVE  IInv'
<1>1. TypeOK
  BY DEF IInv
<1> DEFINE m == order_matches[k]
           others == PendingMatches({m.tx0, m.tx1}) \ {k}
           filled == MarkedAsFilled(m, others = {}, destination)
           row(i) == [orders[i] EXCEPT !.status = "filled", !.block_index = block]
           os == [i \in OrderIds |-> IF i \in filled THEN row(i) ELSE orders[i]]
           payer == IF ForwardAsset(m) = BTC THEN m.tx0 ELSE m.tx1
           seller == IF ForwardAsset(m) = BTC THEN m.tx1 ELSE m.tx0
           escrowed == IF payer = m.tx0 THEN m.backward_quantity ELSE m.forward_quantity
<1>2. /\ pc = "transactions" /\ matching = None /\ Pending(k)
      /\ balances' = Credit(balances, source, orders[seller].give_asset, escrowed)
      /\ order_matches' = [order_matches EXCEPT ![k].status = "completed"]
      /\ orders' = os
      /\ \/ cached' = cached /\ last_cleaning' = last_cleaning
         \/ CleanFilledOrders(os, cached)
      /\ UNCHANGED <<block, pc, expiring, rematching, due, matching, candidates>>
  BY DEF BTCPay, CanParse, Pending, cache, loops
<1>3. m \in MatchType
  BY <1>1, Rows
<1> HIDE DEF filled
<1>4. \A i \in OrderIds : row(i) \in OrderType /\ row(i).block_index = block
  BY <1>1, Rows, ClosedType DEF TypeOK, Statuses
<1> HIDE DEF row
<1>5. /\ orders' \in Seq(OrderType) /\ OrderIds' = OrderIds
      /\ \A i \in OrderIds : orders'[i] = orders[i] \/ orders'[i].block_index = block
  <2>1. os \in [DOMAIN orders -> OrderType] /\ orders \in Seq(OrderType)
    BY <1>1, <1>4, Rows DEF TypeOK, OrderIds
  <2>2. orders' \in Seq(OrderType) /\ DOMAIN orders' = DOMAIN orders
    BY <1>2, <2>1, SameLength
  <2> QED
    BY <1>2, <1>4, <2>2 DEF OrderIds
<1>6. expiring' = expiring \ {k}
  BY <1>2 DEF IInv, ExpiringIsPending
<1>7. /\ ExpiringIsPending' /\ PendingIsCurrent' /\ FilledIsRecent' /\ MatchedOnce'
      /\ order_matches' \in Seq(MatchType) /\ MatchIds' = MatchIds
      /\ \A l \in MatchIds : /\ order_matches'[l].tx0 = order_matches[l].tx0
                             /\ order_matches'[l].tx1 = order_matches[l].tx1
  BY <1>2, <1>5, <1>6, SettleStep
<1>8. balances' \in [Addresses \X Assets -> Int]
  <2>1. escrowed \in Int
    BY <1>3 DEF MatchType
  <2>2. balances \in [Addresses \X Assets -> Int]
    BY <1>1 DEF TypeOK
  <2> HIDE DEF escrowed, seller
  <2> QED
    BY <1>2, <2>1, <2>2, CreditType
<1>9. cached' \subseteq OrderIds /\ last_cleaning' \in Nat
  <2> HIDE DEF os
  <2> QED
    BY <1>1, <1>2, CleanType DEF TypeOK
<1>10. TypeOK'
  BY <1>1, <1>2, <1>5, <1>7, <1>8, <1>9 DEF TypeOK
<1> QED
  BY <1>2, <1>7, <1>10 DEF IInv

----------------------------------------------------------------------------
\* order.expire of a match.
LEMMA RefundedType ==
  ASSUME TypeOK, NEW b \in [Addresses \X Assets -> Int], NEW m \in MatchType, NEW i \in OrderIds
  PROVE  Refunded(b, m, i) \in [Addresses \X Assets -> Int]
<1>1. Gave(m, i) \in Int
  BY DEF Gave, MatchType
<1>2. Credit(b, orders[i].source, orders[i].give_asset, Gave(m, i)) \in [Addresses \X Assets -> Int]
  BY <1>1, CreditType
<1> QED
  BY <1>2 DEF Refunded

\* expire_order_matches keeps the invariant.
LEMMA ExpireOrderMatchStep ==
  ASSUME IInv, NEW k \in expiring, ExpireOrderMatch(k)
  PROVE  IInv'
<1>1. TypeOK /\ k \in MatchIds /\ Pending(k)
  BY DEF IInv, TypeOK, ExpiringIsPending
<1> DEFINE m == order_matches[k]
           alive == {i \in {m.tx0, m.tx1} : ~IsDead(orders[i])}
           given(i) == Replenished(orders[i], Gave(m, i), Got(m, i), m.fee_paid)
           os == [i \in OrderIds |-> IF i \in alive THEN given(i) ELSE orders[i]]
           penalised == {i \in OrderIds : /\ os[i].status = "open" /\ os[i].give_asset = BTC
                                          /\ IsTardy(os[i].source, m)}
           penalty == [i \in OrderIds |-> IF i \in penalised THEN Expired(os[i]) ELSE os[i]]
<1>2. /\ pc = "matches"
      /\ order_matches' = [order_matches EXCEPT ![k].status = "expired"]
      /\ orders' = penalty
      /\ balances' = Refunded(Refunded(balances, m, m.tx0), m, m.tx1)
      /\ \/ cached' = cached \ penalised /\ last_cleaning' = last_cleaning
         \/ CleanFilledOrders(penalty, cached \ penalised)
      /\ expiring' = expiring \ {k}
      /\ rematching' = rematching \o <<m.tx0, m.tx1>>
      /\ UNCHANGED <<block, pc, due, matching, candidates>>
  BY DEF ExpireOrderMatch
<1>3. m \in MatchType /\ m.tx0 \in OrderIds /\ m.tx1 \in OrderIds
  BY <1>1, Rows DEF TypeOK
<1>4. \A i \in OrderIds : given(i) \in OrderType /\ given(i).status # "filled"
  <2> TAKE i \in OrderIds
  <2>1. Gave(m, i) \in Int /\ Got(m, i) \in Int /\ m.fee_paid \in Int
    BY <1>3 DEF Gave, Got, MatchType
  <2>2. block \in Nat /\ orders[i] \in OrderType
    BY <1>1, Rows DEF TypeOK
  <2> QED
    BY <2>1, <2>2, ReplenishedType
<1> HIDE DEF alive, given
<1>5. \A i \in OrderIds : os[i] \in OrderType /\ (os[i].status = "filled" => os[i] = orders[i])
  BY <1>1, <1>4, Rows
<1>6. \A i \in OrderIds : Expired(os[i]) \in OrderType /\ Expired(os[i]).status = "expired"
  BY <1>1, <1>5, ClosedType DEF TypeOK, Expired, Statuses
<1> HIDE DEF os, penalised
<1>7. /\ orders' \in Seq(OrderType) /\ OrderIds' = OrderIds
      /\ \A i \in OrderIds : orders'[i].status = "filled" => orders'[i] = orders[i]
  <2>1. penalty \in [DOMAIN orders -> OrderType] /\ orders \in Seq(OrderType)
    BY <1>1, <1>5, <1>6 DEF TypeOK, OrderIds
  <2>2. orders' \in Seq(OrderType) /\ DOMAIN orders' = DOMAIN orders
    BY <1>2, <2>1, SameLength
  <2> QED
    BY <1>2, <1>5, <1>6, <2>2 DEF OrderIds
<1>8. /\ ExpiringIsPending' /\ PendingIsCurrent' /\ FilledIsRecent' /\ MatchedOnce'
      /\ order_matches' \in Seq(MatchType) /\ MatchIds' = MatchIds
      /\ \A l \in MatchIds : /\ order_matches'[l].tx0 = order_matches[l].tx0
                             /\ order_matches'[l].tx1 = order_matches[l].tx1
  BY <1>1, <1>2, <1>7, SettleStep
<1>9. balances' \in [Addresses \X Assets -> Int]
  <2>1. balances \in [Addresses \X Assets -> Int]
    BY <1>1 DEF TypeOK
  <2>2. Refunded(balances, m, m.tx0) \in [Addresses \X Assets -> Int]
    BY <1>1, <1>3, <2>1, RefundedType
  <2> QED
    BY <1>1, <1>2, <1>3, <2>2, RefundedType
<1>10. cached' \subseteq OrderIds /\ last_cleaning' \in Nat
  <2> HIDE DEF penalty
  <2> QED
    BY <1>1, <1>2, CleanType DEF TypeOK
<1>11. rematching' \in Seq(OrderIds)
  <2>1. rematching \in Seq(OrderIds) /\ <<m.tx0, m.tx1>> \in Seq(OrderIds)
    BY <1>1, <1>3 DEF TypeOK
  <2> QED
    BY <1>2, <2>1, ConcatProperties
<1>12. TypeOK'
  BY <1>1, <1>2, <1>7, <1>8, <1>9, <1>10, <1>11 DEF TypeOK
<1> QED
  BY <1>2, <1>8, <1>12 DEF IInv

----------------------------------------------------------------------------
\* match(): one iteration that trades.
LEMMA WithStatusType ==
  ASSUME NEW o \in OrderType
  PROVE  WithStatus(o) \in OrderType /\ WithStatus(o).block_index = o.block_index
BY DEF WithStatus, OrderType, Statuses

\* Crediting what a filled order has left leaves the balances balances.
LEMMA RecreditType ==
  ASSUME NEW b \in [Addresses \X Assets -> Int], NEW o \in OrderType
  PROVE  Recredit(b, o) \in [Addresses \X Assets -> Int]
<1>1. o.give_remaining \in Int
  BY DEF OrderType
<1>2. Credit(b, o.source, o.give_asset, o.give_remaining) \in [Addresses \X Assets -> Int]
  BY <1>1, CreditType
<1> QED
  BY <1>2 DEF Recredit

\* What a trade adds to the tables: the rows of the two orders, and a match of
\* them, which was not matched before.
LEMMA TradeRows ==
  ASSUME IInv, NEW i \in candidates, MatchNext(i)
  PROVE  /\ matching \in OrderIds /\ i \in OrderIds /\ i # matching /\ ~MatchedBefore(i, matching)
         /\ \E r0, r1 \in OrderType, m \in MatchType :
              /\ r0.block_index = block /\ r1.block_index = block
              /\ orders' = [orders EXCEPT ![i] = r0, ![matching] = r1]
              /\ m.tx0 = i /\ m.tx1 = matching
              /\ m.match_expire_index = block + MatchLife
              /\ order_matches' = Append(order_matches, m)
         /\ balances' \in [Addresses \X Assets -> Int]
         /\ cached' \subseteq cached /\ last_cleaning' \in Nat
<1>1. TypeOK /\ matching \notin candidates
  BY DEF IInv
<1>2. matching # None /\ Trades(i) /\ Trade(i)
  BY DEF MatchNext
<1>3. matching \in OrderIds /\ i \in OrderIds /\ i # matching
  BY <1>1, <1>2 DEF TypeOK
<1>4. ~MatchedBefore(i, matching) /\ Suits(orders[i], orders[matching])
  BY <1>2 DEF Trades
<1> DEFINE tx0 == orders[i]
           tx1 == orders[matching]
           f == Forward(tx0, tx1)
           b == Backward(tx0, tx1)
           fee == Fee(tx0, tx1)
           takesBTC == tx1.get_asset = BTC
           givesBTC == tx1.give_asset = BTC
           after0 == Traded(tx0, f, b, takesBTC, givesBTC, fee)
           after1 == Traded(tx1, b, f, givesBTC, takesBTC, fee)
           paid == IF InvolvesBTC(tx1) THEN balances
                   ELSE Credit(Credit(balances, tx1.source, tx1.get_asset, f),
                               tx0.source, tx0.get_asset, b)
           status == IF InvolvesBTC(tx1) THEN "pending" ELSE "completed"
           m == NewMatch(i, matching, f, b, fee, status)
<1>5. tx0 \in OrderType /\ tx1 \in OrderType /\ i \in Nat \ {0} /\ matching \in Nat \ {0}
  BY <1>1, <1>3, Rows
<1>6. f \in Int /\ b \in Int /\ fee \in Int /\ f > 0 /\ b > 0
  <2>1. f > 0 /\ b > 0
    BY <1>4 DEF Suits
  <2>2. f \in Int /\ b \in Int /\ fee \in Int
    BY <1>5, TradeTypes
  <2> QED
    BY <2>1, <2>2
<1>7. /\ orders' = [orders EXCEPT ![i] = WithStatus(after0), ![matching] = WithStatus(after1)]
      /\ balances' = Recredit(Recredit(paid, after0), after1)
      /\ order_matches' = Append(order_matches, m)
      /\ CleanFilledOrders([orders EXCEPT ![i] = WithStatus(after0),
                                          ![matching] = WithStatus(after1)], cached)
  BY <1>2 DEF Trade
<1> HIDE DEF f, b, fee
<1>8. block \in Nat /\ takesBTC \in BOOLEAN /\ givesBTC \in BOOLEAN
  BY <1>1 DEF TypeOK
<1> HIDE DEF takesBTC, givesBTC
<1>9. /\ after0 \in OrderType /\ after0.block_index = block
       /\ after1 \in OrderType /\ after1.block_index = block
  <2> HIDE DEF tx0, tx1
  <2>1. after0 \in OrderType /\ after0.block_index = block
    BY <1>5, <1>6, <1>8, TradedType
  <2>2. after1 \in OrderType /\ after1.block_index = block
    BY <1>5, <1>6, <1>8, TradedType
  <2> QED
    BY <2>1, <2>2
<1> HIDE DEF after0, after1
<1>10. /\ WithStatus(after0) \in OrderType /\ WithStatus(after0).block_index = block
       /\ WithStatus(after1) \in OrderType /\ WithStatus(after1).block_index = block
  BY <1>9, WithStatusType
<1>11. balances' \in [Addresses \X Assets -> Int]
  <2>1. balances \in [Addresses \X Assets -> Int]
    BY <1>1 DEF TypeOK
  <2>2. Credit(balances, tx1.source, tx1.get_asset, f) \in [Addresses \X Assets -> Int]
    BY <1>6, <2>1, CreditType
  <2>3. Credit(Credit(balances, tx1.source, tx1.get_asset, f), tx0.source, tx0.get_asset, b)
          \in [Addresses \X Assets -> Int]
    BY <1>6, <2>2, CreditType
  <2>4. paid \in [Addresses \X Assets -> Int]
    BY <2>1, <2>3
  <2> HIDE DEF paid
  <2>5. Recredit(paid, after0) \in [Addresses \X Assets -> Int]
    BY <1>9, <2>4, RecreditType
  <2> QED
    BY <1>7, <1>9, <2>5, RecreditType
<1>12. cached' \subseteq cached /\ last_cleaning' \in Nat
  BY <1>1, <1>7, <1>8, CleanType DEF TypeOK
<1>13. /\ m \in MatchType /\ m.tx0 = i /\ m.tx1 = matching
       /\ m.match_expire_index = block + MatchLife
  <2>1. block + MatchLife \in Nat
    BY <1>8, BlocksAssumption
  <2>2. status \in {"pending", "completed", "expired"}
    OBVIOUS
  <2> HIDE DEF status
  <2> QED
    BY <1>5, <1>6, <2>1, <2>2 DEF NewMatch, MatchType
<1> HIDE DEF m
<1> QED
  BY <1>3, <1>4, <1>7, <1>10, <1>11, <1>12, <1>13

\* A trade keeps the invariant.
LEMMA MatchNextStep ==
  ASSUME IInv, NEW i \in candidates, MatchNext(i)
  PROVE  IInv'
<1>1. /\ matching \in OrderIds /\ i \in OrderIds /\ i # matching /\ ~MatchedBefore(i, matching)
      /\ balances' \in [Addresses \X Assets -> Int]
      /\ cached' \subseteq cached /\ last_cleaning' \in Nat
  BY TradeRows
<1>2. PICK r0 \in OrderType, r1 \in OrderType, m \in MatchType :
        /\ r0.block_index = block /\ r1.block_index = block
        /\ orders' = [orders EXCEPT ![i] = r0, ![matching] = r1]
        /\ m.tx0 = i /\ m.tx1 = matching
        /\ m.match_expire_index = block + MatchLife
        /\ order_matches' = Append(order_matches, m)
  BY TradeRows
<1>3. TypeOK /\ matching \notin candidates
  BY DEF IInv
<1>4. UNCHANGED <<block, pc, expiring, rematching, due>>
  BY DEF MatchNext
<1>5. /\ matching' \in OrderIds \union {None} /\ candidates' \subseteq candidates
      /\ matching' \notin candidates'
  BY <1>1, <1>3 DEF MatchNext, NoMatch
<1>6. /\ orders' \in Seq(OrderType) /\ OrderIds' = OrderIds
      /\ orders'[i].block_index = block /\ orders'[matching].block_index = block
      /\ \A j \in OrderIds \ {i, matching} : orders'[j] = orders[j]
  <2>1. orders \in [OrderIds -> OrderType] /\ orders \in Seq(OrderType)
    BY <1>3, Rows, LenProperties DEF TypeOK, OrderIds
  <2>2. orders' \in [DOMAIN orders -> OrderType]
    BY <1>2, <2>1 DEF OrderIds
  <2>3. orders' \in Seq(OrderType) /\ DOMAIN orders' = DOMAIN orders
    BY <2>1, <2>2, SameLength
  <2>4. orders'[i] = r0 /\ orders'[matching] = r1
    BY <1>1, <1>2, <2>1
  <2> QED
    BY <1>2, <2>1, <2>3, <2>4 DEF OrderIds
<1> DEFINE n == Len(order_matches) + 1
<1>7. /\ order_matches' \in Seq(MatchType)
      /\ MatchIds' = MatchIds \union {n} /\ n \notin MatchIds
      /\ \A l \in MatchIds : order_matches'[l] = order_matches[l]
      /\ order_matches'[n] = m
  <2>1. order_matches \in Seq(MatchType)
    BY <1>3 DEF TypeOK
  <2> QED
    BY <1>2, <2>1, Appended DEF MatchIds
<1> HIDE DEF n
<1>8. \A l \in MatchIds' : /\ {order_matches'[l].tx0, order_matches'[l].tx1} \subseteq OrderIds'
                           /\ order_matches'[l].tx0 # order_matches'[l].tx1
  <2> TAKE l \in MatchIds'
  <2>1. CASE l = n
    BY <1>1, <1>2, <1>6, <1>7, <2>1
  <2>2. CASE l \in MatchIds
    <3>1. order_matches'[l] = order_matches[l]
      BY <1>7, <2>2
    <3> QED
      BY <1>3, <1>6, <2>2, <3>1 DEF TypeOK
  <2> QED
    BY <1>7, <2>1, <2>2
<1>9. TypeOK'
  BY <1>1, <1>3, <1>4, <1>5, <1>6, <1>7, <1>8 DEF TypeOK
<1>10. ExpiringIsPending'
  BY <1>3, <1>4, <1>7 DEF IInv, ExpiringIsPending, Pending, TypeOK
<1>11. PendingIsCurrent'
  <2>1. block \in Nat /\ MatchLife \in Nat
    BY <1>3, BlocksAssumption DEF TypeOK
  <2> SUFFICES ASSUME NEW l \in MatchIds', Pending(l)'
               PROVE  LET due_at == order_matches'[l].match_expire_index
                      IN /\ due_at <= block + MatchLife
                         /\ due_at >= block \/ (due_at = block - 1 /\ l \in expiring)
    BY <1>4 DEF PendingIsCurrent
  <2>2. CASE l = n
    <3>1. order_matches'[l].match_expire_index = block + MatchLife
      BY <1>2, <1>7, <2>2
    <3> QED
      BY <2>1, <3>1
  <2>3. CASE l \in MatchIds
    <3>1. order_matches'[l] = order_matches[l]
      BY <1>7, <2>3
    <3>2. Pending(l)
      BY <3>1 DEF Pending
    <3> QED
      BY <2>3, <3>1, <3>2 DEF IInv, PendingIsCurrent
  <2> QED
    BY <1>7, <2>2, <2>3
<1>12. MatchedOnce'
  <2>1. \A l \in MatchIds : {order_matches[l].tx0, order_matches[l].tx1} # {i, matching}
    BY <1>1 DEF MatchedBefore
  <2>2. {m.tx0, m.tx1} = {i, matching}
    BY <1>2
  <2> SUFFICES ASSUME NEW j \in MatchIds', NEW l \in MatchIds',
                      {order_matches'[j].tx0, order_matches'[j].tx1}
                        = {order_matches'[l].tx0, order_matches'[l].tx1}
               PROVE  j = l
    BY DEF MatchedOnce
  <2>3. MatchedOnce
    BY DEF IInv
  <2>4. CASE j \in MatchIds /\ l \in MatchIds
    <3>1. order_matches'[j] = order_matches[j] /\ order_matches'[l] = order_matches[l]
      BY <1>7, <2>4
    <3>2. {order_matches[j].tx0, order_matches[j].tx1} = {order_matches[l].tx0, order_matches[l].tx1}
      BY <3>1
    <3> QED
      BY <2>3, <2>4, <3>2 DEF MatchedOnce
  <2>5. CASE j = n /\ l \in MatchIds
    <3>1. order_matches'[j] = m /\ order_matches'[l] = order_matches[l]
      BY <1>7, <2>5
    <3>2. {m.tx0, m.tx1} = {order_matches[l].tx0, order_matches[l].tx1}
      BY <3>1
    <3> QED
      BY <2>1, <2>2, <2>5, <3>2
  <2>6. CASE j \in MatchIds /\ l = n
    <3>1. order_matches'[l] = m /\ order_matches'[j] = order_matches[j]
      BY <1>7, <2>6
    <3>2. {m.tx0, m.tx1} = {order_matches[j].tx0, order_matches[j].tx1}
      BY <3>1
    <3> QED
      BY <2>1, <2>2, <2>6, <3>2
  <2> QED
    BY <1>7, <2>4, <2>5, <2>6
<1>13. FilledIsRecent'
  <2>1. block \in Nat /\ MatchLife \in Nat
    BY <1>3, BlocksAssumption DEF TypeOK
  <2>2. \A l \in MatchIds' : Pending(l)' => order_matches'[l].match_expire_index <= block + MatchLife
    BY <1>4, <1>11 DEF PendingIsCurrent
  <2> SUFFICES ASSUME NEW j \in OrderIds, NEW l \in MatchIds', orders'[j].status = "filled",
                      Pending(l)', j \in {order_matches'[l].tx0, order_matches'[l].tx1}
               PROVE  order_matches'[l].match_expire_index <= orders'[j].block_index + MatchLife
    BY <1>6 DEF FilledIsRecent
  <2>3. CASE j \in {i, matching}
    BY <1>6, <2>2, <2>3
  <2>4. CASE j \notin {i, matching}
    <3>1. orders'[j] = orders[j]
      BY <1>6, <2>4
    <3>2. l \in MatchIds /\ order_matches'[l] = order_matches[l]
      BY <1>2, <1>7, <2>4
    <3> QED
      BY <3>1, <3>2 DEF IInv, FilledIsRecent, Pending
  <2> QED
    BY <2>3, <2>4
<1> QED
  BY <1>5, <1>9, <1>10, <1>11, <1>12, <1>13 DEF IInv

----------------------------------------------------------------------------
\* The invariant holds initially and is preserved.
LEMMA InitIInv == Init => IInv
<1> SUFFICES ASSUME Init PROVE IInv
  OBVIOUS
<1>1. OrderIds = {} /\ MatchIds = {}
  BY DEF Init, OrderIds, MatchIds
<1>2. balances \in [Addresses \X Assets -> Int]
  BY OffersAssumption DEF Init
<1>3. /\ orders \in Seq(OrderType) /\ order_matches \in Seq(MatchType)
      /\ rematching \in Seq(OrderIds)
  BY DEF Init
<1>4. block \in Nat /\ last_cleaning \in Nat
  BY BlocksAssumption DEF Init
<1>5. TypeOK
  BY <1>1, <1>2, <1>3, <1>4 DEF Init, TypeOK
<1> QED
  BY <1>1, <1>5 DEF Init, IInv, ExpiringIsPending, PendingIsCurrent, FilledIsRecent, MatchedOnce

\* Every step keeps the invariant.
LEMMA StepIInv == IInv /\ [Next]_vars => IInv'
<1> SUFFICES ASSUME IInv, [Next]_vars PROVE IInv'
  OBVIOUS
<1>1. CASE UNCHANGED vars
  BY <1>1 DEF vars, IInv, TypeOK, ExpiringIsPending, PendingIsCurrent, FilledIsRecent, MatchedOnce,
              Pending, OrderIds, MatchIds
<1>2. CASE \E o \in Offers : Order(o)
  BY <1>2, OrderStep
<1>3. CASE \E i \in OrderIds : Cancel(i)
  BY <1>3, CancelStep
<1>4. CASE \E k \in MatchIds, source, destination \in Addresses : BTCPay(k, source, destination)
  BY <1>4, BTCPayStep
<1>5. CASE \E i \in candidates : MatchNext(i)
  BY <1>5, MatchNextStep
<1>6. CASE NextBlock
  BY <1>6, NextBlockStep
<1>7. CASE \E k \in expiring : ExpireOrderMatch(k)
  BY <1>7, ExpireOrderMatchStep
<1>8. CASE \E i \in due : ExpireOrder(i)
  BY <1>8, ExpireOrderStep
<1>9. CASE MatchEnd \/ MatchesExpired \/ Rematch \/ MatchedAgain \/ OrdersExpired
  BY <1>9, ControlStep
<1>10. CASE InvalidOrder
  BY <1>10, InvalidOrderStep
<1> QED
  BY <1>1, <1>2, <1>3, <1>4, <1>5, <1>6, <1>7, <1>8, <1>9, <1>10 DEF Next

\* The invariant holds in every reachable state.
LEMMA Invariant == Spec => []IInv
<1>1. Init => IInv
  BY InitIInv
<1>2. IInv /\ [Next]_vars => IInv'
  BY StepIInv
<1> QED
  BY <1>1, <1>2, PTL DEF Spec

----------------------------------------------------------------------------
\* The theorems.

\* Every id that is used as a key names a row, whatever was matched, paid,
\* cancelled or expired, and all amounts stay integers.
THEOREM TypeCorrect == Spec => []TypeOK
<1>1. IInv => TypeOK
  BY DEF IInv
<1> QED
  BY <1>1, Invariant, PTL

\* match() never makes a second match of two orders, however often they are
\* matched again after a match expired.
THEOREM NoSecondMatch == Spec => []MatchedOnce
<1>1. IInv => MatchedOnce
  BY DEF IInv
<1> QED
  BY <1>1, Invariant, PTL

\* order.expire leaves no match pending for longer than a match lives.
THEOREM MatchesAreTimely == Spec => []PendingIsTimely
<1>1. IInv => PendingIsTimely
  <2> SUFFICES ASSUME IInv, CanParse, NEW k \in MatchIds, order_matches[k].status = "pending"
               PROVE  block <= order_matches[k].match_expire_index
    BY DEF PendingIsTimely
  <2>1. expiring = {}
    BY DEF IInv, ExpiringIsPending, CanParse
  <2>2. order_matches[k].match_expire_index >= block
    BY <2>1 DEF IInv, PendingIsCurrent, Pending
  <2>3. order_matches[k] \in MatchType /\ block \in Nat
    BY Rows DEF IInv, TypeOK
  <2> QED
    BY <2>2, <2>3 DEF MatchType
<1> QED
  BY <1>1, Invariant, PTL

\* A step that closes a match leaves the rows of the others as they are.
LEMMA OthersStay ==
  ASSUME IInv, [Next]_vars, NEW k \in MatchIds, ~Pending(k)
  PROVE  order_matches'[k] = order_matches[k]
<1>1. TypeOK
  BY DEF IInv
<1>2. CASE \E l \in MatchIds, source, destination \in Addresses : BTCPay(l, source, destination)
  <2> PICK l \in MatchIds, source \in Addresses, destination \in Addresses :
        BTCPay(l, source, destination)
    BY <1>2
  <2>1. /\ Pending(l)
        /\ order_matches' = [order_matches EXCEPT ![l].status = "completed"]
    BY DEF BTCPay, Pending
  <2>2. k # l
    BY <2>1
  <2> QED
    BY <1>1, <2>1, <2>2, MatchClosed
<1>3. CASE \E l \in expiring : ExpireOrderMatch(l)
  <2> PICK l \in expiring : ExpireOrderMatch(l)
    BY <1>3
  <2>1. l \in MatchIds /\ Pending(l)
    BY DEF IInv, TypeOK, ExpiringIsPending
  <2>2. order_matches' = [order_matches EXCEPT ![l].status = "expired"]
    BY DEF ExpireOrderMatch
  <2>3. k # l
    BY <2>1
  <2> QED
    BY <1>1, <2>1, <2>2, <2>3, MatchClosed
<1>4. CASE \E i \in candidates : MatchNext(i)
  <2> PICK i \in candidates : MatchNext(i)
    BY <1>4
  <2> PICK m \in MatchType : order_matches' = Append(order_matches, m)
    BY TradeRows
  <2>1. order_matches \in Seq(MatchType)
    BY <1>1 DEF TypeOK
  <2> QED
    BY <2>1, Appended DEF MatchIds
<1>5. CASE \E o \in Offers : Order(o)
  BY <1>5 DEF Order
<1>6. CASE \E i \in OrderIds : Cancel(i)
  BY <1>6 DEF Cancel
<1>7. CASE \E i \in due : ExpireOrder(i)
  BY <1>7 DEF ExpireOrder
<1>8. CASE NextBlock
  BY <1>8 DEF NextBlock, tables
<1>9. CASE MatchEnd \/ MatchesExpired \/ Rematch \/ MatchedAgain \/ OrdersExpired
  BY <1>9 DEF MatchEnd, MatchesExpired, Rematch, MatchedAgain, OrdersExpired, tables
<1>10. CASE UNCHANGED vars
  BY <1>10 DEF vars
<1>11. CASE InvalidOrder
  BY <1>11 DEF InvalidOrder, tables
<1> QED
  BY <1>2, <1>3, <1>4, <1>5, <1>6, <1>7, <1>8, <1>9, <1>10, <1>11 DEF Next

\* The escrow of a match goes to the buyer or back to the seller, once: a match
\* that was paid cannot expire, and one that has expired cannot be paid.
THEOREM MatchesAreSettledOnce == Spec => SettledOnce
<1>1. IInv /\ [Next]_vars =>
        [\A k \in MatchIds :
           order_matches[k].status # "pending" => order_matches'[k] = order_matches[k]]_vars
  BY OthersStay DEF Pending
<1> QED
  BY <1>1, Invariant, PTL DEF Spec, SettledOnce

\* The cleaning of the cache drops filled orders only, and so long after they were
\* filled that every match of them has been settled.
LEMMA CleanedForGood ==
  ASSUME IInv', UNCHANGED block, NEW c, CleanFilledOrders(orders', c), NEW i \in c \ cached'
  PROVE  orders'[i].status = "filled" /\ PendingMatches({i})' = {}
<1>1. orders'[i].status = "filled" /\ ~(orders'[i].block_index >= block - CleanAge)
  BY DEF CleanFilledOrders
<1>2. TypeOK' /\ PendingIsCurrent' /\ FilledIsRecent'
  BY DEF IInv
<1>3. block \in Nat /\ MatchLife \in Nat /\ CleanAge \in Nat /\ MatchLife < CleanAge
  BY <1>2, BlocksAssumption DEF TypeOK
<1>4. ASSUME NEW k \in MatchIds', Pending(k)', i \in {order_matches'[k].tx0, order_matches'[k].tx1}
      PROVE  FALSE
  <2> DEFINE due_at == order_matches'[k].match_expire_index
             filled_at == orders'[i].block_index
  <2>1. i \in OrderIds'
    BY <1>2, <1>4 DEF TypeOK
  <2>2. orders' \in Seq(OrderType) /\ order_matches' \in Seq(MatchType)
    BY <1>2 DEF TypeOK
  <2>3. orders'[i] \in OrderType /\ order_matches'[k] \in MatchType
    BY <2>1, <2>2, ElementOfSeq, LenProperties DEF OrderIds, MatchIds
  <2>4. due_at \in Nat /\ filled_at \in Nat
    BY <2>3 DEF OrderType, MatchType
  <2>5. due_at <= filled_at + MatchLife
    BY <1>1, <1>2, <1>4, <2>1 DEF FilledIsRecent
  <2>6. due_at >= block \/ due_at = block - 1
    BY <1>2, <1>4 DEF PendingIsCurrent
  <2>7. filled_at < block - CleanAge
    BY <1>1, <1>3, <2>4
  <2> HIDE DEF due_at, filled_at
  <2> QED
    BY <1>3, <2>4, <2>5, <2>6, <2>7
<1>5. PendingMatches({i})' = {}
  BY <1>4 DEF PendingMatches, Pending
<1> QED
  BY <1>1, <1>5

\* The cache of open orders forgets no order that an expired match can open again,
\* for any MatchLife below CleanAge.
THEOREM CacheDropsForGood == Spec => DroppedForGood
<1> DEFINE ForGood(i) == \/ orders'[i].status = "expired"
                         \/ orders'[i].status = "filled" /\ PendingMatches({i})' = {}
<1>1. ASSUME IInv, IInv', [Next]_vars, NEW i \in cached \ cached'
      PROVE  ForGood(i)
  <2>1. TypeOK /\ i \in OrderIds
    BY <1>1 DEF IInv, TypeOK
  <2>2. CASE \E o \in Offers : Order(o)
    <3> PICK o \in Offers : Order(o)
      BY <2>2
    <3>1. PICK n : CleanFilledOrders(orders', cached \union {n}) /\ UNCHANGED block
      <4> DEFINE os == Append(orders, OrderRow(Affordable(o)))
      <4>1. orders' = os /\ CleanFilledOrders(os, cached \union {Len(os)}) /\ UNCHANGED block
        BY DEF Order
      <4> HIDE DEF os
      <4> QED
        BY <4>1
    <3>2. i \in (cached \union {n}) \ cached'
      BY <1>1
    <3> QED
      BY <1>1, <3>1, <3>2, CleanedForGood
  <2>3. CASE \E j \in OrderIds : Cancel(j)
    <3>1. CleanFilledOrders(orders', cached) /\ UNCHANGED block
      BY <2>3 DEF Cancel
    <3> QED
      BY <1>1, <3>1, CleanedForGood
  <2>4. CASE \E k \in MatchIds, source, destination \in Addresses : BTCPay(k, source, destination)
    <3>1. CleanFilledOrders(orders', cached) /\ UNCHANGED block
      BY <1>1, <2>4 DEF BTCPay, cache
    <3> QED
      BY <1>1, <3>1, CleanedForGood
  <2>5. CASE \E j \in candidates : MatchNext(j)
    <3>1. CleanFilledOrders(orders', cached) /\ UNCHANGED block
      BY <2>5 DEF MatchNext, Trade
    <3> QED
      BY <1>1, <3>1, CleanedForGood
  <2>6. CASE \E k \in expiring : ExpireOrderMatch(k)
    <3> PICK k \in expiring : ExpireOrderMatch(k)
      BY <2>6
    <3>1. PICK penalised \in SUBSET OrderIds :
            /\ \A j \in penalised : orders'[j].status = "expired"
            /\ cached' = cached \ penalised \/ CleanFilledOrders(orders', cached \ penalised)
            /\ UNCHANGED block
      <4> DEFINE m == order_matches[k]
                 alive == {j \in {m.tx0, m.tx1} : ~IsDead(orders[j])}
                 os == [j \in OrderIds |->
                          IF j \in alive
                          THEN Replenished(orders[j], Gave(m, j), Got(m, j), m.fee_paid)
                          ELSE orders[j]]
                 penalised == {j \in OrderIds : /\ os[j].status = "open"
                                                /\ os[j].give_asset = BTC
                                                /\ IsTardy(os[j].source, m)}
                 penalty == [j \in OrderIds |-> IF j \in penalised THEN Expired(os[j]) ELSE os[j]]
      <4>1. /\ orders' = penalty /\ UNCHANGED block
            /\ cached' = cached \ penalised \/ CleanFilledOrders(penalty, cached \ penalised)
        BY DEF ExpireOrderMatch
      <4> HIDE DEF os
      <4>2. penalised \in SUBSET OrderIds
        OBVIOUS
      <4>3. \A j \in penalised : orders'[j] = Expired(os[j])
        BY <4>1
      <4>4. \A j \in penalised : os[j] \in OrderType
        <5>1. m \in MatchType /\ block \in Nat
          BY <1>1, <2>1, Rows DEF IInv, TypeOK
        <5> TAKE j \in penalised
        <5>2. orders[j] \in OrderType /\ j \in OrderIds
          BY <2>1, Rows
        <5>3. Gave(m, j) \in Int /\ Got(m, j) \in Int /\ m.fee_paid \in Int
          BY <5>1 DEF Gave, Got, MatchType
        <5>4. Replenished(orders[j], Gave(m, j), Got(m, j), m.fee_paid) \in OrderType
          BY <5>1, <5>2, <5>3, ReplenishedType
        <5>5. os[j] = IF j \in alive
                      THEN Replenished(orders[j], Gave(m, j), Got(m, j), m.fee_paid)
                      ELSE orders[j]
          <6> HIDE DEF m, alive, penalised
          <6> QED
            BY <5>2 DEF os
        <5> HIDE DEF m, alive, penalised
        <5> QED
          BY <5>2, <5>4, <5>5
      <4>5. \A j \in penalised : Expired(os[j]).status = "expired"
        BY <2>1, <4>4, ClosedType DEF Expired, Statuses, TypeOK
      <4> HIDE DEF penalised
      <4> QED
        BY <4>1, <4>2, <4>3, <4>5
    <3>2. CASE i \in penalised
      BY <3>1, <3>2
    <3>3. CASE i \notin penalised
      BY <1>1, <3>1, <3>3, CleanedForGood
    <3> QED
      BY <3>2, <3>3
  <2>7. CASE \E j \in due : ExpireOrder(j)
    <3> PICK j \in due : ExpireOrder(j)
      BY <2>7
    <3>1. orders' = [orders EXCEPT ![j] = Expired(@)] /\ cached' = cached \ {j}
      BY DEF ExpireOrder
    <3>2. i = j /\ orders'[i] = Expired(orders[i])
      BY <2>1, <3>1 DEF OrderIds
    <3>3. Expired(orders[i]).status = "expired"
      BY <2>1, Rows, ClosedType DEF Expired, Statuses, TypeOK
    <3> QED
      BY <3>2, <3>3
  <2>8. CASE NextBlock
    BY <1>1, <2>8 DEF NextBlock, cache
  <2>9. CASE MatchEnd \/ MatchesExpired \/ Rematch \/ MatchedAgain \/ OrdersExpired
    BY <1>1, <2>9 DEF MatchEnd, MatchesExpired, Rematch, MatchedAgain, OrdersExpired, cache
  <2>10. CASE UNCHANGED vars
    BY <1>1, <2>10 DEF vars
  <2>11. CASE InvalidOrder
    <3>1. CleanFilledOrders(orders', cached) /\ UNCHANGED block
      BY <2>11 DEF InvalidOrder, tables
    <3> QED
      BY <1>1, <3>1, CleanedForGood
  <2> QED
    BY <1>1, <2>2, <2>3, <2>4, <2>5, <2>6, <2>7, <2>8, <2>9, <2>10, <2>11 DEF Next
<1>2. IInv /\ IInv' /\ [Next]_vars => [\A i \in cached \ cached' : ForGood(i)]_vars
  BY <1>1
<1> QED
  BY <1>2, Invariant, PTL DEF Spec, DroppedForGood

----------------------------------------------------------------------------
\* Division and rounding.
LEMMA Division ==
  ASSUME NEW n \in Nat, NEW d \in Nat \ {0}
  PROVE  /\ n \div d \in Nat /\ n % d \in 0..(d - 1)
         /\ n = d * (n \div d) + (n % d)
OBVIOUS

\* A fraction that is at most an integer is rounded to at most that integer.
LEMMA RoundBound ==
  ASSUME NEW n \in Nat, NEW d \in Nat \ {0}, NEW r \in Nat, n <= r * d
  PROVE  Round(n, d) <= r
<1> DEFINE q == n \div d
           m == n % d
<1>1. q \in Nat /\ m \in 0..(d - 1) /\ n = d * q + m
  BY Division
<1>2. Round(n, d) = IF 2 * m < d \/ (2 * m = d /\ q % 2 = 0) THEN q ELSE q + 1
  BY DEF Round
<1> HIDE DEF q, m
<1>3. q <= r
  BY <1>1
<1>4. CASE q = r
  <2>1. m = 0
    BY <1>1, <1>4
  <2> QED
    BY <1>1, <1>2, <1>4, <2>1
<1>5. CASE q < r
  BY <1>1, <1>2, <1>5
<1> QED
  BY <1>1, <1>3, <1>4, <1>5

\* A trade takes no more from either order than it has left: not from tx0 because
\* it is what tx0 has left at most, and not from tx1 although its part is rounded up.
LEMMA TradeBound ==
  ASSUME NEW tx0 \in OrderType, NEW tx1 \in OrderType,
         tx1.give_remaining >= 0, Forward(tx0, tx1) > 0
  PROVE  /\ Forward(tx0, tx1) <= tx0.give_remaining
         /\ Backward(tx0, tx1) <= tx1.give_remaining
<1> DEFINE rem == tx1.give_remaining
           give == tx0.give_quantity
           get == tx0.get_quantity
           f == Forward(tx0, tx1)
           n == rem * give
           affordable == n \div get
<1>1. /\ rem \in Nat /\ give \in Nat \ {0} /\ get \in Nat \ {0}
      /\ tx0.give_remaining \in Int /\ f \in Int /\ f > 0
  BY TradeTypes DEF OrderType
<1>2. f = IF tx0.give_remaining < affordable THEN tx0.give_remaining ELSE affordable
  BY DEF Forward
<1>3. Backward(tx0, tx1) = Round(f * get, give)
  BY DEF Backward
<1> HIDE DEF f, rem, give, get
<1>4. n \in Nat
  BY <1>1
<1>5. affordable \in Nat /\ get * affordable <= n
  <2> HIDE DEF n
  <2> QED BY <1>1, <1>4, Division
<1> HIDE DEF affordable
<1>6. f <= tx0.give_remaining /\ f <= affordable /\ f \in Nat
  BY <1>1, <1>2, <1>5
<1>7. f * get \in Nat /\ f * get <= n
  <2>1. f * get <= get * affordable
    BY <1>1, <1>5, <1>6
  <2>2. f * get \in Nat /\ get * affordable \in Nat
    BY <1>1, <1>5, <1>6
  <2> QED
    BY <1>4, <1>5, <2>1, <2>2
<1>8. Round(f * get, give) <= rem
  BY <1>1, <1>7, RoundBound
<1> QED
  BY <1>3, <1>6, <1>8 DEF f, rem

----------------------------------------------------------------------------
\* Nothing falls below zero.
NonNegative(b) == \A k \in Addresses \X Assets : b[k] >= 0

\* A credit overdraws no balance.
LEMMA CreditSolvent ==
  ASSUME NEW b \in [Addresses \X Assets -> Int], NonNegative(b),
         NEW a, NEW x, NEW q \in Int, q >= 0 \/ b[<<a, x>>] + q >= 0
  PROVE  NonNegative(Credit(b, a, x, q))
<1>1. CASE <<a, x>> \in Addresses \X Assets
  <2>1. b[<<a, x>>] + q >= 0
    BY <1>1 DEF NonNegative
  <2> QED
    BY <1>1, <2>1 DEF NonNegative, Credit
<1>2. CASE <<a, x>> \notin Addresses \X Assets
  BY <1>2 DEF NonNegative, Credit
<1> QED
  BY <1>1, <1>2

\* Who is solvent has no negative balance and no negative escrow.
LEMMA SolventParts ==
  ASSUME TypeOK
  PROVE  Solvent <=> NonNegative(balances) /\ \A i \in OrderIds : orders[i].give_remaining >= 0
<1>1. DOMAIN balances = Addresses \X Assets
  BY DEF TypeOK
<1> QED
  BY <1>1 DEF Solvent, NonNegative

\* order.parse escrows at most what the source holds.
LEMMA OrderSolvent ==
  ASSUME TypeOK, TypeOK', Solvent, NEW offer \in Offers, Order(offer)
  PROVE  Solvent'
<1> DEFINE o == Affordable(offer)
           os == Append(orders, OrderRow(o))
           held == balances[<<o.source, o.give_asset>>]
<1>1. /\ Valid(o) /\ orders' = os
      /\ balances' = IF o.give_asset = BTC THEN balances
                     ELSE Credit(balances, o.source, o.give_asset, -o.give_quantity)
  BY DEF Order
<1>2. o \in Offer /\ OrderRow(o) \in OrderType /\ OrderRow(o).give_remaining = o.give_quantity
  BY <1>1, AffordableType DEF OrderRow
<1>3. o.give_asset = BTC \/ held >= o.give_quantity
  <2>1. offer \in Offer
    BY OffersAssumption
  <2> DEFINE balance == balances[<<offer.source, offer.give_asset>>]
  <2>2. CASE offer.give_asset = BTC \/ balance >= offer.give_quantity
    BY <2>2 DEF Affordable
  <2>3. CASE ~(offer.give_asset = BTC \/ balance >= offer.give_quantity)
    <3> DEFINE get == (offer.get_quantity * balance) \div offer.give_quantity
               less == [offer EXCEPT !.give_quantity = balance, !.get_quantity = get]
    <3>1. o = less
      BY <2>3 DEF Affordable
    <3> HIDE DEF get
    <3>2. less.give_quantity = balance /\ less.source = offer.source
          /\ less.give_asset = offer.give_asset
      BY <2>1 DEF Offer
    <3>3. o.give_quantity \in Int
      BY <1>2 DEF Offer
    <3>4. o.give_quantity = held
      BY <3>1, <3>2
    <3> HIDE DEF o, held
    <3> QED
      BY <3>3, <3>4
  <2> QED
    BY <2>2, <2>3
<1>4. NonNegative(balances')
  <2>1. balances \in [Addresses \X Assets -> Int] /\ NonNegative(balances)
    BY SolventParts DEF TypeOK
  <2>2. -o.give_quantity \in Int /\ o.give_quantity \in Int
    BY <1>2 DEF Offer
  <2>3. CASE o.give_asset = BTC
    BY <1>1, <2>1, <2>3
  <2>4. CASE o.give_asset # BTC
    <3>1. held >= o.give_quantity /\ held \in Int
      <4>1. <<o.source, o.give_asset>> \in Addresses \X Assets
        BY <1>2, <2>4 DEF Offer
      <4> QED
        BY <1>3, <2>1, <2>4, <4>1
    <3>2. held + (-o.give_quantity) >= 0
      BY <2>2, <3>1
    <3> HIDE DEF o
    <3> QED
      BY <1>1, <2>1, <2>2, <2>4, <3>2, CreditSolvent
  <2> QED
    BY <2>3, <2>4
<1>5. \A i \in OrderIds' : orders'[i].give_remaining >= 0
  <2>1. orders \in Seq(OrderType) /\ \A i \in OrderIds : orders[i].give_remaining >= 0
    BY SolventParts DEF TypeOK
  <2>2. OrderRow(o).give_remaining >= 0
    BY <1>2 DEF Offer
  <2> HIDE DEF o
  <2>3. /\ DOMAIN os = DOMAIN orders \union {Len(orders) + 1}
        /\ \A i \in DOMAIN orders : os[i] = orders[i]
        /\ os[Len(orders) + 1] = OrderRow(o)
    BY <1>2, <2>1, Appended
  <2> HIDE DEF os
  <2> QED
    BY <1>1, <2>1, <2>2, <2>3 DEF OrderIds
<1> QED
  BY <1>4, <1>5, SolventParts DEF Solvent, NonNegative, TypeOK

\* What is returned to an owner is what the order had left.
LEMMA CloseSolvent ==
  ASSUME TypeOK, TypeOK', Solvent, NEW i \in OrderIds, NEW status,
         orders' = [orders EXCEPT ![i] = [@ EXCEPT !.status = status, !.block_index = block]],
         balances' = Returned(i)
  PROVE  Solvent'
<1>1. /\ balances \in [Addresses \X Assets -> Int] /\ NonNegative(balances)
      /\ \A j \in OrderIds : orders[j] \in OrderType /\ orders[j].give_remaining >= 0
  BY SolventParts, Rows DEF TypeOK
<1>2. orders[i].give_remaining \in Int /\ orders[i].give_remaining >= 0
  BY <1>1 DEF OrderType
<1>3. NonNegative(balances')
  BY <1>1, <1>2, CreditSolvent DEF Returned
<1> DEFINE row == [orders[i] EXCEPT !.status = status, !.block_index = block]
<1>4. row.give_remaining = orders[i].give_remaining
  BY <1>1 DEF OrderType
<1>5. orders' = [orders EXCEPT ![i] = row]
  OBVIOUS
<1> HIDE DEF row
<1>6. \A j \in OrderIds' : orders'[j].give_remaining >= 0
  BY <1>1, <1>2, <1>4, <1>5 DEF OrderIds
<1> QED
  BY <1>3, <1>6, SolventParts DEF Solvent, NonNegative, TypeOK

\* btcpay.parse credits, and takes from nobody.
LEMMA BTCPaySolvent ==
  ASSUME TypeOK, TypeOK', Solvent, NEW k \in MatchIds, NEW source, NEW destination,
         BTCPay(k, source, destination)
  PROVE  Solvent'
<1> DEFINE m == order_matches[k]
           filled == MarkedAsFilled(m, PendingMatches({m.tx0, m.tx1}) \ {k} = {}, destination)
           row(i) == [orders[i] EXCEPT !.status = "filled", !.block_index = block]
           os == [i \in OrderIds |-> IF i \in filled THEN row(i) ELSE orders[i]]
           payer == IF ForwardAsset(m) = BTC THEN m.tx0 ELSE m.tx1
           seller == IF ForwardAsset(m) = BTC THEN m.tx1 ELSE m.tx0
           escrowed == IF payer = m.tx0 THEN m.backward_quantity ELSE m.forward_quantity
<1>1. /\ balances \in [Addresses \X Assets -> Int] /\ NonNegative(balances)
      /\ \A i \in OrderIds : orders[i] \in OrderType /\ orders[i].give_remaining >= 0
  BY SolventParts, Rows DEF TypeOK
<1>2. /\ balances' = Credit(balances, source, orders[seller].give_asset, escrowed)
      /\ orders' = os
  BY DEF BTCPay
<1>3. escrowed \in Int /\ escrowed >= 0
  BY Rows DEF MatchType
<1>4. NonNegative(balances')
  <2> HIDE DEF escrowed, seller
  <2> QED
    BY <1>1, <1>2, <1>3, CreditSolvent
<1>5. \A i \in OrderIds : row(i).give_remaining = orders[i].give_remaining
  BY <1>1 DEF OrderType
<1> HIDE DEF filled, row
<1>6. \A i \in OrderIds' : orders'[i].give_remaining >= 0
  BY <1>1, <1>2, <1>5 DEF OrderIds
<1> QED
  BY <1>4, <1>6, SolventParts DEF Solvent, NonNegative, TypeOK

\* A refund overdraws no balance.
LEMMA RefundedSolvent ==
  ASSUME TypeOK, NEW b \in [Addresses \X Assets -> Int], NonNegative(b),
         NEW m \in MatchType, NEW i \in OrderIds
  PROVE  /\ Refunded(b, m, i) \in [Addresses \X Assets -> Int]
         /\ NonNegative(Refunded(b, m, i))
<1>1. Gave(m, i) \in Int /\ Gave(m, i) >= 0
  BY DEF Gave, MatchType
<1>2. NonNegative(Credit(b, orders[i].source, orders[i].give_asset, Gave(m, i)))
  BY <1>1, CreditSolvent
<1>3. NonNegative(Refunded(b, m, i))
  BY <1>2 DEF Refunded
<1> QED
  BY <1>3, RefundedType

\* An expired match gives back, and takes from nobody.
LEMMA ExpireOrderMatchSolvent ==
  ASSUME TypeOK, TypeOK', Solvent, NEW k \in MatchIds, ExpireOrderMatch(k)
  PROVE  Solvent'
<1> DEFINE m == order_matches[k]
           alive == {i \in {m.tx0, m.tx1} : ~IsDead(orders[i])}
           given(i) == Replenished(orders[i], Gave(m, i), Got(m, i), m.fee_paid)
           os == [i \in OrderIds |-> IF i \in alive THEN given(i) ELSE orders[i]]
           penalised == {i \in OrderIds : /\ os[i].status = "open" /\ os[i].give_asset = BTC
                                          /\ IsTardy(os[i].source, m)}
           penalty == [i \in OrderIds |-> IF i \in penalised THEN Expired(os[i]) ELSE os[i]]
<1>1. /\ balances \in [Addresses \X Assets -> Int] /\ NonNegative(balances)
      /\ \A i \in OrderIds : orders[i] \in OrderType /\ orders[i].give_remaining >= 0
      /\ m \in MatchType /\ m.tx0 \in OrderIds /\ m.tx1 \in OrderIds /\ block \in Nat
  BY SolventParts, Rows DEF TypeOK
<1>2. /\ orders' = penalty
      /\ balances' = Refunded(Refunded(balances, m, m.tx0), m, m.tx1)
  BY DEF ExpireOrderMatch
<1>3. NonNegative(balances')
  <2>1. /\ Refunded(balances, m, m.tx0) \in [Addresses \X Assets -> Int]
        /\ NonNegative(Refunded(balances, m, m.tx0))
    BY <1>1, RefundedSolvent
  <2> HIDE DEF m
  <2> QED
    BY <1>1, <1>2, <2>1, RefundedSolvent
<1>4. \A i \in OrderIds : given(i) \in OrderType /\ given(i).give_remaining >= 0
  <2> TAKE i \in OrderIds
  <2>1. /\ Gave(m, i) \in Int /\ Got(m, i) \in Int /\ m.fee_paid \in Int /\ Gave(m, i) >= 0
    BY <1>1 DEF Gave, Got, MatchType
  <2>2. given(i) \in OrderType
    BY <1>1, <2>1, ReplenishedType
  <2>3. given(i).give_remaining = orders[i].give_remaining + Gave(m, i)
    BY <1>1 DEF Replenished, OrderType
  <2>4. orders[i].give_remaining \in Int /\ orders[i].give_remaining >= 0
    BY <1>1 DEF OrderType
  <2> HIDE DEF given, m
  <2> QED
    BY <2>1, <2>2, <2>3, <2>4
<1> HIDE DEF given, alive
<1>5. \A i \in OrderIds : os[i] \in OrderType /\ os[i].give_remaining >= 0
  BY <1>1, <1>4
<1> HIDE DEF os, penalised
<1>6. \A i \in OrderIds : Expired(os[i]).give_remaining >= 0
  BY <1>5 DEF Expired, OrderType
<1>7. \A i \in OrderIds' : orders'[i].give_remaining >= 0
  BY <1>2, <1>5, <1>6 DEF OrderIds
<1> QED
  BY <1>3, <1>7, SolventParts DEF Solvent, NonNegative, TypeOK

\* A trade: what an order has left covers its part, and what is left is returned.
LEMMA MatchNextSolvent ==
  ASSUME IInv, TypeOK', Solvent, NEW i \in candidates, MatchNext(i)
  PROVE  Solvent'
<1>1. TypeOK /\ matching \in OrderIds /\ i \in OrderIds /\ i # matching
  BY TradeRows DEF IInv
<1>2. Trades(i) /\ Trade(i)
  BY DEF MatchNext
<1> DEFINE tx0 == orders[i]
           tx1 == orders[matching]
           f == Forward(tx0, tx1)
           b == Backward(tx0, tx1)
           fee == Fee(tx0, tx1)
           takesBTC == tx1.get_asset = BTC
           givesBTC == tx1.give_asset = BTC
           after0 == Traded(tx0, f, b, takesBTC, givesBTC, fee)
           after1 == Traded(tx1, b, f, givesBTC, takesBTC, fee)
           paid == IF InvolvesBTC(tx1) THEN balances
                   ELSE Credit(Credit(balances, tx1.source, tx1.get_asset, f),
                               tx0.source, tx0.get_asset, b)
<1>3. /\ balances \in [Addresses \X Assets -> Int] /\ NonNegative(balances)
      /\ \A j \in OrderIds : orders[j] \in OrderType /\ orders[j].give_remaining >= 0
  BY <1>1, SolventParts, Rows DEF TypeOK
<1>4. tx0 \in OrderType /\ tx1 \in OrderType /\ tx0.give_remaining >= 0 /\ tx1.give_remaining >= 0
  BY <1>1, <1>3
<1>5. f \in Int /\ b \in Int /\ fee \in Int /\ f > 0 /\ b > 0
  <2>1. f > 0 /\ b > 0
    BY <1>2 DEF Trades, Suits
  <2>2. f \in Int /\ b \in Int /\ fee \in Int
    BY <1>4, TradeTypes
  <2> QED
    BY <2>1, <2>2
<1>6. f <= tx0.give_remaining /\ b <= tx1.give_remaining
  BY <1>4, <1>5, TradeBound
<1>7. /\ orders' = [orders EXCEPT ![i] = WithStatus(after0), ![matching] = WithStatus(after1)]
      /\ balances' = Recredit(Recredit(paid, after0), after1)
  BY <1>2 DEF Trade
<1> HIDE DEF f, b, fee
<1>8. block \in Nat /\ takesBTC \in BOOLEAN /\ givesBTC \in BOOLEAN
  BY <1>1 DEF TypeOK
<1>9. /\ after0.give_remaining = tx0.give_remaining - f
      /\ after1.give_remaining = tx1.give_remaining - b
  BY <1>4 DEF Traded, OrderType
<1> HIDE DEF takesBTC, givesBTC
<1>10. /\ after0 \in OrderType /\ after0.give_remaining >= 0
       /\ after1 \in OrderType /\ after1.give_remaining >= 0
  <2> HIDE DEF tx0, tx1
  <2>1. after0 \in OrderType
    BY <1>4, <1>5, <1>8, TradedType
  <2>2. after1 \in OrderType
    BY <1>4, <1>5, <1>8, TradedType
  <2>3. tx0.give_remaining \in Int /\ tx1.give_remaining \in Int
    BY <1>4 DEF OrderType
  <2> HIDE DEF after0, after1
  <2> QED
    BY <1>5, <1>6, <1>9, <2>1, <2>2, <2>3
<1> HIDE DEF after0, after1
<1>11. paid \in [Addresses \X Assets -> Int] /\ NonNegative(paid)
  <2> HIDE DEF tx0, tx1
  <2> DEFINE once == Credit(balances, tx1.source, tx1.get_asset, f)
  <2>1. \A a, x : \A c \in [Addresses \X Assets -> Int], q \in Int :
          NonNegative(c) /\ q >= 0
            => /\ Credit(c, a, x, q) \in [Addresses \X Assets -> Int]
               /\ NonNegative(Credit(c, a, x, q))
    BY CreditType, CreditSolvent
  <2>2. once \in [Addresses \X Assets -> Int] /\ NonNegative(once)
    <3>1. f \in Int /\ f >= 0
      BY <1>5
    <3>2. balances \in [Addresses \X Assets -> Int] /\ NonNegative(balances)
      BY <1>3
    <3> QED
      BY <2>1, <3>1, <3>2
  <2> HIDE DEF once
  <2>3. /\ Credit(once, tx0.source, tx0.get_asset, b) \in [Addresses \X Assets -> Int]
        /\ NonNegative(Credit(once, tx0.source, tx0.get_asset, b))
    BY <1>5, <2>1, <2>2
  <2> QED
    BY <1>3, <2>3 DEF once
<1> HIDE DEF paid
<1>12. ASSUME NEW c \in [Addresses \X Assets -> Int], NonNegative(c),
              NEW o \in OrderType, o.give_remaining >= 0
       PROVE  Recredit(c, o) \in [Addresses \X Assets -> Int] /\ NonNegative(Recredit(c, o))
  <2>1. o.give_remaining \in Int
    BY DEF OrderType
  <2>2. NonNegative(Credit(c, o.source, o.give_asset, o.give_remaining))
    BY <1>12, <2>1, CreditSolvent
  <2> QED
    BY <1>12, <2>2, RecreditType DEF Recredit
<1>13. NonNegative(balances')
  <2>1. Recredit(paid, after0) \in [Addresses \X Assets -> Int] /\ NonNegative(Recredit(paid, after0))
    BY <1>10, <1>11, <1>12
  <2> QED
    BY <1>7, <1>10, <1>12, <2>1
<1>14. WithStatus(after0).give_remaining >= 0 /\ WithStatus(after1).give_remaining >= 0
  BY <1>10 DEF WithStatus, OrderType
<1>15. \A j \in OrderIds' : orders'[j].give_remaining >= 0
  BY <1>1, <1>3, <1>7, <1>14 DEF OrderIds
<1> QED
  BY <1>13, <1>15, SolventParts DEF Solvent, NonNegative, TypeOK

\* Nobody can spend what is not there, however orders are cut down to a balance,
\* quantities are rounded, and escrows are given back.
THEOREM NobodyOverspends == Spec => []Solvent
<1>1. Init => Solvent
  <2> SUFFICES ASSUME Init PROVE Solvent
    OBVIOUS
  <2>1. TypeOK
    BY InitIInv DEF IInv
  <2>2. NonNegative(balances) /\ OrderIds = {}
    BY OffersAssumption DEF Init, NonNegative, OrderIds
  <2> QED
    BY <2>1, <2>2, SolventParts
<1>2. ASSUME IInv, IInv', Solvent, [Next]_vars PROVE Solvent'
  <2>1. TypeOK /\ TypeOK'
    BY <1>2 DEF IInv
  <2>2. CASE \E o \in Offers : Order(o)
    BY <1>2, <2>1, <2>2, OrderSolvent
  <2>3. CASE \E i \in OrderIds : Cancel(i)
    <3> PICK i \in OrderIds : Cancel(i)
      BY <2>3
    <3>1. /\ orders' = [orders EXCEPT ![i] = [@ EXCEPT !.status = "cancelled", !.block_index = block]]
          /\ balances' = Returned(i)
      BY DEF Cancel
    <3> QED
      BY <1>2, <2>1, <3>1, CloseSolvent
  <2>4. CASE \E k \in MatchIds, source, destination \in Addresses : BTCPay(k, source, destination)
    BY <1>2, <2>1, <2>4, BTCPaySolvent
  <2>5. CASE \E i \in candidates : MatchNext(i)
    BY <1>2, <2>1, <2>5, MatchNextSolvent
  <2>6. CASE \E k \in expiring : ExpireOrderMatch(k)
    BY <1>2, <2>1, <2>6, ExpireOrderMatchSolvent DEF TypeOK
  <2>7. CASE \E i \in due : ExpireOrder(i)
    <3> PICK i \in due : ExpireOrder(i)
      BY <2>7
    <3>1. /\ orders' = [orders EXCEPT ![i] = [@ EXCEPT !.status = "expired", !.block_index = block]]
          /\ balances' = Returned(i) /\ i \in OrderIds
      BY <2>1 DEF ExpireOrder, Expired, TypeOK
    <3> QED
      BY <1>2, <2>1, <3>1, CloseSolvent
  <2>8. CASE UNCHANGED <<balances, orders>>
    BY <1>2, <2>8 DEF Solvent, OrderIds
  <2>9. CASE NextBlock
    BY <2>8, <2>9 DEF NextBlock, tables
  <2>10. CASE MatchEnd \/ MatchesExpired \/ Rematch \/ MatchedAgain \/ OrdersExpired
    BY <2>8, <2>10 DEF MatchEnd, MatchesExpired, Rematch, MatchedAgain, OrdersExpired, tables
  <2>11. CASE UNCHANGED vars
    BY <2>8, <2>11 DEF vars
  <2>12. CASE InvalidOrder
    BY <2>8, <2>12 DEF InvalidOrder, tables
  <2> QED
    BY <1>2, <2>2, <2>3, <2>4, <2>5, <2>6, <2>7, <2>9, <2>10, <2>11, <2>12 DEF Next
<1>3. IInv /\ IInv' /\ Solvent /\ [Next]_vars => Solvent'
  BY <1>2
<1> QED
  BY <1>1, <1>3, Invariant, PTL DEF Spec

----------------------------------------------------------------------------
\* What the steps do to the rows.  The terms of an order never change, nor do the
\* parts of a match; what is left of a fee that was provided only falls.
SameTerms(o, p) ==
  /\ p.source = o.source /\ p.opened = o.opened /\ p.fee_required = o.fee_required
  /\ p.give_asset = o.give_asset /\ p.give_quantity = o.give_quantity
  /\ p.get_asset = o.get_asset /\ p.get_quantity = o.get_quantity
SameParts(m, n) ==
  /\ n.tx0 = m.tx0 /\ n.tx1 = m.tx1
  /\ n.forward_quantity = m.forward_quantity /\ n.backward_quantity = m.backward_quantity
  /\ n.match_expire_index = m.match_expire_index

\* An order gives `given` and gets `got`; its fees fall by `provided` and `required`.
Moved(o, p, given, got, provided, required) ==
  /\ SameTerms(o, p)
  /\ p.give_remaining = o.give_remaining - given
  /\ p.get_remaining = o.get_remaining - got
  /\ p.fee_provided_remaining = o.fee_provided_remaining - provided
  /\ p.fee_required_remaining = o.fee_required_remaining - required

\* Only the status changes.
Marked(o, p, status) == Moved(o, p, 0, 0, 0, 0) /\ p.status = status
Unmoved(o, p) == Moved(o, p, 0, 0, 0, 0) /\ p.status = o.status

\* A row that is not changed has moved nothing.
LEMMA UnmovedItself ==
  ASSUME NEW o \in OrderType
  PROVE  Unmoved(o, o)
BY DEF Unmoved, Moved, SameTerms, OrderType

\* Writing the status of a row changes nothing else that counts.
LEMMA MarkedRow ==
  ASSUME NEW o \in OrderType, NEW status \in Statuses
  PROVE  Marked(o, [o EXCEPT !.status = status, !.block_index = block], status)
BY DEF Marked, Moved, SameTerms, OrderType

TradesTo(o, w, g, t, p, r, fee) ==
  /\ Moved(o, w, g, t, IF p THEN fee ELSE 0, IF r THEN fee ELSE 0)
  /\ w.status = IF ~InvolvesBTC(o) /\ (o.give_remaining - g <= 0 \/ o.get_remaining - t <= 0)
                THEN "filled" ELSE o.status

\* The row of an order after a trade.
LEMMA TradedRow ==
  ASSUME NEW o \in OrderType, NEW g \in Int, NEW t \in Int, NEW fee \in Int,
         NEW p \in BOOLEAN, NEW r \in BOOLEAN
  PROVE  TradesTo(o, WithStatus(Traded(o, g, t, p, r, fee)), g, t, p, r, fee)
<1> DEFINE w == WithStatus(Traded(o, g, t, p, r, fee))
<1> DEFINE give == o.give_remaining - g
           get == o.get_remaining - t
           provided == IF p THEN o.fee_provided_remaining - fee ELSE o.fee_provided_remaining
           required == IF r THEN o.fee_required_remaining - fee ELSE o.fee_required_remaining
           after == [o EXCEPT !.give_remaining = give, !.get_remaining = get,
                              !.fee_provided_remaining = provided,
                              !.fee_required_remaining = required, !.block_index = block]
<1>1. /\ give \in Int /\ get \in Int /\ provided \in Int /\ required \in Int
      /\ provided = o.fee_provided_remaining - (IF p THEN fee ELSE 0)
      /\ required = o.fee_required_remaining - (IF r THEN fee ELSE 0)
  BY DEF OrderType
<1>2. Traded(o, g, t, p, r, fee) = after
  BY DEF Traded
<1> HIDE DEF give, get, provided, required
<1>3. /\ SameTerms(o, after) /\ after.give_remaining = give /\ after.get_remaining = get
      /\ after.fee_provided_remaining = provided /\ after.fee_required_remaining = required
      /\ after.status = o.status /\ DOMAIN after = DOMAIN o
      /\ InvolvesBTC(after) = InvolvesBTC(o) /\ "status" \in DOMAIN after
  BY DEF OrderType, SameTerms, InvolvesBTC
<1>4. w = IF IsFilled(after) THEN [after EXCEPT !.status = "filled"] ELSE after
  BY <1>2 DEF WithStatus
<1> HIDE DEF after
<1>5. IsFilled(after) <=> ~InvolvesBTC(o) /\ (give <= 0 \/ get <= 0)
  BY <1>3 DEF IsFilled
<1>6. /\ SameTerms(o, w) /\ w.give_remaining = give /\ w.get_remaining = get
      /\ w.fee_provided_remaining = provided /\ w.fee_required_remaining = required
      /\ w.status = IF IsFilled(after) THEN "filled" ELSE o.status
  BY <1>3, <1>4 DEF SameTerms
<1> HIDE DEF w
<1>7. /\ Moved(o, w, g, t, IF p THEN fee ELSE 0, IF r THEN fee ELSE 0)
      /\ w.status = IF ~InvolvesBTC(o) /\ (o.give_remaining - g <= 0 \/ o.get_remaining - t <= 0)
                    THEN "filled" ELSE o.status
  BY <1>1, <1>5, <1>6 DEF Moved, give, get
<1> QED
  BY <1>7 DEF TradesTo, w

\* The row of an order whose match has expired.
LEMMA ReplenishedRow ==
  ASSUME NEW o \in OrderType, NEW g \in Int, NEW t \in Int, NEW fee \in Int
  PROVE  /\ Moved(o, Replenished(o, g, t, fee), -g, -t, 0,
                  IF o.get_asset = BTC THEN -fee ELSE 0)
         /\ Replenished(o, g, t, fee).status = IF o.status = "filled" THEN "open" ELSE o.status
<1> DEFINE give == o.give_remaining + g
           get == o.get_remaining + t
           required == IF o.get_asset = BTC THEN o.fee_required_remaining + fee
                       ELSE o.fee_required_remaining
           status == IF o.status = "filled" THEN "open" ELSE o.status
           after == [o EXCEPT !.give_remaining = give, !.get_remaining = get,
                              !.fee_required_remaining = required, !.status = status,
                              !.block_index = block]
<1>1. /\ give = o.give_remaining - (-g) /\ get = o.get_remaining - (-t)
      /\ o.fee_provided_remaining = o.fee_provided_remaining - 0
      /\ required = o.fee_required_remaining - (IF o.get_asset = BTC THEN -fee ELSE 0)
  BY DEF OrderType
<1>2. Replenished(o, g, t, fee) = after
  BY DEF Replenished
<1> HIDE DEF give, get, required
<1>3. /\ SameTerms(o, after) /\ after.give_remaining = give /\ after.get_remaining = get
      /\ after.fee_provided_remaining = o.fee_provided_remaining
      /\ after.fee_required_remaining = required /\ after.status = status
  BY DEF OrderType, SameTerms
<1> QED
  BY <1>1, <1>2, <1>3 DEF Moved

\* Movements add up.
LEMMA MovedTwice ==
  ASSUME NEW o \in OrderType, NEW p, NEW q, NEW g \in Int, NEW t \in Int, NEW v \in Int, NEW r \in Int,
         Moved(o, p, g, t, v, r), Moved(p, q, 0, 0, 0, 0)
  PROVE  Moved(o, q, g, t, v, r)
BY DEF Moved, SameTerms, OrderType

----------------------------------------------------------------------------
\* What each action does to the rows.
Kept(S) == \A i \in S : orders'[i] = orders[i]

\* order.parse adds one row, of the order that could be afforded, and matches it.
LEMMA OrderRows ==
  ASSUME TypeOK, NEW offer \in Offers, Order(offer), NEW o, o = Affordable(offer),
         NEW n, n = Len(orders) + 1
  PROVE  /\ o \in Offer /\ Valid(o) /\ pc = "transactions" /\ matching = None
         /\ n \in Nat \ {0} /\ n \notin OrderIds /\ OrderIds' = OrderIds \union {n}
         /\ \A i \in OrderIds : i < n
         /\ Kept(OrderIds) /\ orders'[n] = OrderRow(o)
         /\ balances' = IF o.give_asset = BTC THEN balances
                        ELSE Credit(balances, o.source, o.give_asset, -o.give_quantity)
         /\ cached' \subseteq cached \union {n} /\ StartMatch(orders', cached', n)
         /\ UNCHANGED <<block, order_matches, pc, expiring, rematching, due>>
<1> DEFINE os == Append(orders, OrderRow(o))
<1>1. /\ pc = "transactions" /\ matching = None /\ Valid(o)
      /\ orders' = os /\ CleanFilledOrders(os, cached \union {Len(os)})
      /\ StartMatch(os, cached', Len(os))
      /\ balances' = IF o.give_asset = BTC THEN balances
                     ELSE Credit(balances, o.source, o.give_asset, -o.give_quantity)
      /\ UNCHANGED <<block, order_matches, pc, expiring, rematching, due>>
  BY DEF Order, CanParse
<1>2. o \in Offer /\ OrderRow(o) \in OrderType
  BY <1>1, AffordableType
<1>3. orders \in Seq(OrderType)
  BY DEF TypeOK
<1>4. /\ Len(orders) \in Nat /\ DOMAIN orders = 1..Len(orders)
      /\ DOMAIN os = DOMAIN orders \union {n} /\ n \notin DOMAIN orders
      /\ \A i \in DOMAIN orders : os[i] = orders[i]
      /\ os[n] = OrderRow(o)
  BY <1>2, <1>3, Appended
<1>5. Len(os) = n
  BY <1>2, <1>3, AppendProperties
<1> HIDE DEF os
<1>6. cached' \subseteq cached \union {n}
  BY <1>1, <1>5 DEF CleanFilledOrders
<1> QED
  BY <1>1, <1>2, <1>4, <1>5, <1>6 DEF OrderIds, Kept

\* The row of an order that is cancelled or expires.
LEMMA CloseRows ==
  ASSUME TypeOK, NEW i \in OrderIds, NEW status \in Statuses,
         orders' = [orders EXCEPT ![i] = [@ EXCEPT !.status = status, !.block_index = block]]
  PROVE  /\ OrderIds' = OrderIds /\ Kept(OrderIds \ {i})
         /\ Marked(orders[i], orders'[i], status)
<1> DEFINE row == [orders[i] EXCEPT !.status = status, !.block_index = block]
<1>1. Marked(orders[i], row, status)
  BY Rows, MarkedRow
<1>2. orders' = [orders EXCEPT ![i] = row]
  OBVIOUS
<1> HIDE DEF row
<1> QED
  BY <1>1, <1>2 DEF OrderIds, Kept

\* cancel.parse closes one open order and returns what is left of it.
LEMMA CancelRows ==
  ASSUME TypeOK, NEW i \in OrderIds, Cancel(i)
  PROVE  /\ OrderIds' = OrderIds /\ Kept(OrderIds \ {i})
         /\ Marked(orders[i], orders'[i], "cancelled")
         /\ orders[i].status = "open" /\ pc = "transactions" /\ matching = None
         /\ balances' = Returned(i) /\ cached' \subseteq cached
         /\ UNCHANGED <<block, order_matches, pc, loops>>
<1> DEFINE os == [orders EXCEPT ![i] = [@ EXCEPT !.status = "cancelled", !.block_index = block]]
<1>1. /\ orders' = os /\ orders[i].status = "open" /\ pc = "transactions" /\ matching = None
      /\ CleanFilledOrders(os, cached) /\ balances' = Returned(i)
      /\ UNCHANGED <<block, order_matches, pc, loops>>
  BY DEF Cancel, CanParse
<1>2. cached' \subseteq cached
  <2> HIDE DEF os
  <2> QED BY <1>1 DEF CleanFilledOrders
<1>3. /\ OrderIds' = OrderIds /\ Kept(OrderIds \ {i})
      /\ Marked(orders[i], orders'[i], "cancelled")
  BY <1>1, CloseRows DEF Statuses
<1> QED
  BY <1>1, <1>2, <1>3

\* expire_orders closes the orders that are due, one at a time.
LEMMA ExpireOrderRows ==
  ASSUME TypeOK, NEW i \in due, ExpireOrder(i)
  PROVE  /\ i \in OrderIds /\ OrderIds' = OrderIds /\ Kept(OrderIds \ {i})
         /\ Marked(orders[i], orders'[i], "expired")
         /\ pc = "orders" /\ due' = due \ {i}
         /\ balances' = Returned(i) /\ cached' \subseteq cached
         /\ UNCHANGED <<block, order_matches, pc, expiring, rematching, matching, candidates>>
<1>1. /\ i \in OrderIds
      /\ orders' = [orders EXCEPT ![i] = [@ EXCEPT !.status = "expired", !.block_index = block]]
      /\ pc = "orders" /\ due' = due \ {i} /\ balances' = Returned(i) /\ cached' \subseteq cached
      /\ UNCHANGED <<block, order_matches, pc, expiring, rematching, matching, candidates>>
  BY DEF ExpireOrder, Expired, TypeOK
<1>2. /\ OrderIds' = OrderIds /\ Kept(OrderIds \ {i})
      /\ Marked(orders[i], orders'[i], "expired")
  BY <1>1, CloseRows DEF Statuses
<1> QED
  BY <1>1, <1>2

\* One match is closed, and nothing else of the matches changes.
Closes(k, status) ==
  /\ MatchIds' = MatchIds
  /\ \A l \in MatchIds \ {k} : order_matches'[l] = order_matches[l]
  /\ SameParts(order_matches[k], order_matches'[k]) /\ order_matches'[k].status = status

\* The row of a match that was paid or has expired.
LEMMA ClosesMatch ==
  ASSUME TypeOK, NEW k \in MatchIds, NEW status \in {"completed", "expired"},
         order_matches' = [order_matches EXCEPT ![k].status = status]
  PROVE  Closes(k, status)
<1>1. order_matches[k] \in MatchType
  BY Rows
<1> DEFINE m == [order_matches[k] EXCEPT !.status = status]
<1>2. SameParts(order_matches[k], m) /\ m.status = status
  BY <1>1 DEF MatchType, SameParts
<1>3. order_matches' = [order_matches EXCEPT ![k] = m]
  OBVIOUS
<1> HIDE DEF m
<1> QED
  BY <1>2, <1>3 DEF MatchIds, Closes

\* btcpay.parse completes one match and marks orders of it as filled.
LEMMA BTCPayRows ==
  ASSUME TypeOK, NEW k \in MatchIds, NEW source, NEW destination, BTCPay(k, source, destination)
  PROVE  /\ OrderIds' = OrderIds
         /\ \A i \in OrderIds :
              \/ orders'[i] = orders[i]
              \/ /\ i \in {order_matches[k].tx0, order_matches[k].tx1}
                 /\ Marked(orders[i], orders'[i], "filled")
         /\ Pending(k) /\ Closes(k, "completed")
         /\ pc = "transactions" /\ matching = None
         /\ cached' \subseteq cached
         /\ UNCHANGED <<block, pc, loops>>
<1> DEFINE m == order_matches[k]
           others == PendingMatches({m.tx0, m.tx1}) \ {k}
           filled == MarkedAsFilled(m, others = {}, destination)
           row(i) == [orders[i] EXCEPT !.status = "filled", !.block_index = block]
           os == [i \in OrderIds |-> IF i \in filled THEN row(i) ELSE orders[i]]
<1>1. /\ pc = "transactions" /\ matching = None /\ Pending(k)
      /\ order_matches' = [order_matches EXCEPT ![k].status = "completed"]
      /\ orders' = os
      /\ \/ cached' = cached /\ last_cleaning' = last_cleaning
         \/ CleanFilledOrders(os, cached)
      /\ UNCHANGED <<block, pc, loops>>
  BY DEF BTCPay, CanParse, Pending, cache
<1>2. filled \subseteq {m.tx0, m.tx1}
  BY DEF MarkedAsFilled
<1>3. \A i \in OrderIds : Marked(orders[i], row(i), "filled")
  BY Rows, MarkedRow DEF Statuses
<1>4. cached' \subseteq cached
  <2> HIDE DEF os
  <2> QED BY <1>1 DEF CleanFilledOrders
<1>5. OrderIds' = OrderIds
  <2>1. DOMAIN os = OrderIds
    OBVIOUS
  <2> HIDE DEF os
  <2> QED BY <1>1, <2>1 DEF OrderIds
<1> HIDE DEF row, filled
<1>6. \A i \in OrderIds : orders'[i] = IF i \in filled THEN row(i) ELSE orders[i]
  BY <1>1
<1>7. Closes(k, "completed")
  BY <1>1, ClosesMatch
<1> QED
  BY <1>1, <1>2, <1>3, <1>4, <1>5, <1>6, <1>7

\* match() trades f of tx0 against b of tx1.
Filled(o, given, got) ==
  ~InvolvesBTC(o) /\ (o.give_remaining - given <= 0 \/ o.get_remaining - got <= 0)
StatusAfter(o, given, got) == IF Filled(o, given, got) THEN "filled" ELSE o.status

MadeMatch(m, i, f, b) ==
  /\ m.tx0 = i /\ m.tx1 = matching
  /\ m.forward_quantity = f /\ m.backward_quantity = b
  /\ m.match_expire_index = block + MatchLife
  /\ m.status = IF InvolvesBTC(orders[matching]) THEN "pending" ELSE "completed"

TradesRow(i, p, given, got, fee) ==
  /\ Moved(orders[i], p, given, got, IF orders[i].give_asset = BTC THEN fee ELSE 0,
                                     IF orders[i].get_asset = BTC THEN fee ELSE 0)
  /\ p.status = StatusAfter(orders[i], given, got)

\* The trade of the order that is matched with a candidate, whose asset is the other's
LEMMA TradeBooks ==
  ASSUME IInv, NEW i \in candidates, MatchNext(i), Opposite(orders[i], orders[matching]),
         NEW f, f = Forward(orders[i], orders[matching]),
         NEW b, b = Backward(orders[i], orders[matching]),
         NEW fee, fee = Fee(orders[i], orders[matching]),
         NEW n, n = Len(order_matches) + 1
  PROVE  /\ matching \in OrderIds /\ i \in OrderIds /\ i # matching
         /\ Suits(orders[i], orders[matching]) /\ ~MatchedBefore(i, matching)
         /\ f \in Nat \ {0} /\ b \in Nat \ {0} /\ fee \in Int
         /\ OrderIds' = OrderIds /\ Kept(OrderIds \ {i, matching})
         /\ TradesRow(i, orders'[i], f, b, fee)
         /\ TradesRow(matching, orders'[matching], b, f, fee)
         /\ n \notin MatchIds /\ MatchIds' = MatchIds \union {n} /\ \A l \in MatchIds : l < n
         /\ \A l \in MatchIds : order_matches'[l] = order_matches[l]
         /\ MadeMatch(order_matches'[n], i, f, b)
         /\ cached' \subseteq cached
         /\ UNCHANGED <<block, pc, expiring, rematching, due>>
<1>1. TypeOK /\ matching \notin candidates
  BY DEF IInv
<1>2. matching # None /\ Trades(i) /\ Trade(i) /\ UNCHANGED <<block, pc, expiring, rematching, due>>
  BY DEF MatchNext
<1>3. matching \in OrderIds /\ i \in OrderIds /\ i # matching
  BY <1>1, <1>2 DEF TypeOK
<1>4. ~MatchedBefore(i, matching) /\ Suits(orders[i], orders[matching])
  BY <1>2 DEF Trades
<1> DEFINE tx0 == orders[i]
           tx1 == orders[matching]
           takesBTC == tx1.get_asset = BTC
           givesBTC == tx1.give_asset = BTC
           w0 == WithStatus(Traded(tx0, f, b, takesBTC, givesBTC, fee))
           w1 == WithStatus(Traded(tx1, b, f, givesBTC, takesBTC, fee))
           m == NewMatch(i, matching, f, b, fee,
                         IF InvolvesBTC(tx1) THEN "pending" ELSE "completed")
<1>5. tx0 \in OrderType /\ tx1 \in OrderType
  BY <1>1, <1>3, Rows
<1>6. f \in Nat \ {0} /\ b \in Nat \ {0} /\ fee \in Int
  <2>1. f > 0 /\ b > 0
    BY <1>4 DEF Suits
  <2>2. f \in Int /\ b \in Int /\ fee \in Int
    BY <1>5, TradeTypes
  <2> QED
    BY <2>1, <2>2
<1>7. /\ orders' = [orders EXCEPT ![i] = w0, ![matching] = w1]
      /\ order_matches' = Append(order_matches, m)
      /\ CleanFilledOrders([orders EXCEPT ![i] = w0, ![matching] = w1], cached)
  BY <1>2 DEF Trade
<1>8. /\ Moved(tx0, w0, f, b, IF takesBTC THEN fee ELSE 0, IF givesBTC THEN fee ELSE 0)
      /\ w0.status = StatusAfter(tx0, f, b)
      /\ Moved(tx1, w1, b, f, IF givesBTC THEN fee ELSE 0, IF takesBTC THEN fee ELSE 0)
      /\ w1.status = StatusAfter(tx1, b, f)
  <2>1. takesBTC \in BOOLEAN /\ givesBTC \in BOOLEAN
    OBVIOUS
  <2>2. f \in Int /\ b \in Int
    BY <1>6
  <2> HIDE DEF takesBTC, givesBTC, tx0, tx1
  <2>3. /\ Moved(tx0, w0, f, b, IF takesBTC THEN fee ELSE 0, IF givesBTC THEN fee ELSE 0)
        /\ w0.status = StatusAfter(tx0, f, b)
    <3>1. TradesTo(tx0, WithStatus(Traded(tx0, f, b, takesBTC, givesBTC, fee)), f, b, takesBTC, givesBTC, fee)
      BY <1>5, <1>6, <2>1, <2>2, TradedRow
    <3>2. TradesTo(tx0, w0, f, b, takesBTC, givesBTC, fee)
      BY <3>1 DEF w0
    <3> QED
      BY <3>2, Zenon DEF TradesTo, StatusAfter, Filled
  <2>4. /\ Moved(tx1, w1, b, f, IF givesBTC THEN fee ELSE 0, IF takesBTC THEN fee ELSE 0)
        /\ w1.status = StatusAfter(tx1, b, f)
    <3>1. TradesTo(tx1, WithStatus(Traded(tx1, b, f, givesBTC, takesBTC, fee)), b, f, givesBTC, takesBTC, fee)
      BY <1>5, <1>6, <2>1, <2>2, TradedRow
    <3>2. TradesTo(tx1, w1, b, f, givesBTC, takesBTC, fee)
      BY <3>1 DEF w1
    <3> QED
      BY <3>2, Zenon DEF TradesTo, StatusAfter, Filled
  <2> QED
    BY <2>3, <2>4
<1> HIDE DEF w0, w1
<1>9. /\ OrderIds' = OrderIds /\ Kept(OrderIds \ {i, matching})
      /\ orders'[i] = w0 /\ orders'[matching] = w1
  BY <1>3, <1>7 DEF OrderIds, Kept
<1>10. TradesRow(i, orders'[i], f, b, fee) /\ TradesRow(matching, orders'[matching], b, f, fee)
  BY <1>8, <1>9 DEF TradesRow, Opposite
<1>11. cached' \subseteq cached
  BY <1>7 DEF CleanFilledOrders
<1>12. MadeMatch(m, i, f, b) /\ m \in MatchType
  <2>1. i \in Nat \ {0} /\ matching \in Nat \ {0} /\ block + MatchLife \in Nat
    BY <1>1, <1>3, Rows, BlocksAssumption DEF TypeOK
  <2>2. /\ MadeMatch(m, i, f, b) /\ m.status \in {"pending", "completed", "expired"}
    BY DEF MadeMatch, NewMatch
  <2> QED
    BY <1>6, <2>1, <2>2 DEF NewMatch, MatchType
<1>13. /\ n \notin MatchIds /\ MatchIds' = MatchIds \union {n} /\ \A l \in MatchIds : l < n
       /\ \A l \in MatchIds : order_matches'[l] = order_matches[l]
       /\ order_matches'[n] = m
  <2>1. order_matches \in Seq(MatchType)
    BY <1>1 DEF TypeOK
  <2> HIDE DEF m
  <2> QED
    BY <1>7, <1>12, <2>1, Appended DEF MatchIds
<1> HIDE DEF m
<1> QED
  BY <1>2, <1>3, <1>4, <1>6, <1>9, <1>10, <1>11, <1>12, <1>13

\* order.expire of a match: an order that is alive gets back what it gave, and is
\* open again or, if it gives BTC, perhaps expired.
Reopened(o) == IF o.status = "filled" THEN "open" ELSE o.status
GivenBack(m, i, p) ==
  /\ Moved(orders[i], p, -Gave(m, i), -Got(m, i), 0,
           IF orders[i].get_asset = BTC THEN -m.fee_paid ELSE 0)
  /\ \/ p.status = Reopened(orders[i])
     \/ p.status = "expired" /\ Reopened(orders[i]) = "open" /\ orders[i].give_asset = BTC
LeftAlone(i, p) ==
  /\ Moved(orders[i], p, 0, 0, 0, 0)
  /\ \/ p.status = orders[i].status
     \/ p.status = "expired" /\ orders[i].status = "open" /\ orders[i].give_asset = BTC

\* expire_order_matches gives back to both orders of one match.
LEMMA ExpireOrderMatchRows ==
  ASSUME IInv, NEW k \in expiring, ExpireOrderMatch(k), NEW m, m = order_matches[k]
  PROVE  /\ k \in MatchIds /\ m \in MatchType /\ m.status = "pending"
         /\ m.tx0 \in OrderIds /\ m.tx1 \in OrderIds
         /\ OrderIds' = OrderIds
         /\ \A i \in OrderIds : IF i \in {m.tx0, m.tx1} /\ ~IsDead(orders[i])
                                THEN GivenBack(m, i, orders'[i]) ELSE LeftAlone(i, orders'[i])
         /\ Closes(k, "expired")
         /\ balances' = Refunded(Refunded(balances, m, m.tx0), m, m.tx1)
         /\ pc = "matches" /\ cached' \subseteq cached
         /\ rematching' = rematching \o <<m.tx0, m.tx1>>
         /\ UNCHANGED <<block, pc, due, matching, candidates>>
<1>1. TypeOK /\ k \in MatchIds /\ Pending(k) /\ block \in Nat
  BY DEF IInv, TypeOK, ExpiringIsPending
<1> DEFINE alive == {i \in {m.tx0, m.tx1} : ~IsDead(orders[i])}
           given(i) == Replenished(orders[i], Gave(m, i), Got(m, i), m.fee_paid)
           os == [i \in OrderIds |-> IF i \in alive THEN given(i) ELSE orders[i]]
           penalised == {i \in OrderIds : /\ os[i].status = "open" /\ os[i].give_asset = BTC
                                          /\ IsTardy(os[i].source, m)}
           penalty == [i \in OrderIds |-> IF i \in penalised THEN Expired(os[i]) ELSE os[i]]
<1>2. /\ pc = "matches"
      /\ order_matches' = [order_matches EXCEPT ![k].status = "expired"]
      /\ orders' = penalty
      /\ balances' = Refunded(Refunded(balances, m, m.tx0), m, m.tx1)
      /\ \/ cached' = cached \ penalised /\ last_cleaning' = last_cleaning
         \/ CleanFilledOrders(penalty, cached \ penalised)
      /\ rematching' = rematching \o <<m.tx0, m.tx1>>
      /\ UNCHANGED <<block, pc, due, matching, candidates>>
  BY DEF ExpireOrderMatch
<1>3. m \in MatchType /\ m.tx0 \in OrderIds /\ m.tx1 \in OrderIds /\ m.status = "pending"
  BY <1>1, Rows DEF TypeOK, Pending
<1>4. cached' \subseteq cached
  <2> HIDE DEF penalty, penalised
  <2> QED
    BY <1>2 DEF CleanFilledOrders
<1>5. ASSUME NEW i \in OrderIds
      PROVE  IF i \in alive THEN GivenBack(m, i, orders'[i]) ELSE LeftAlone(i, orders'[i])
  <2>1. Gave(m, i) \in Int /\ Got(m, i) \in Int /\ m.fee_paid \in Int /\ orders[i] \in OrderType
    BY <1>1, <1>3, Rows DEF Gave, Got, MatchType
  <2>2. /\ Moved(orders[i], given(i), -Gave(m, i), -Got(m, i), 0,
                 IF orders[i].get_asset = BTC THEN -m.fee_paid ELSE 0)
        /\ given(i).status = Reopened(orders[i]) /\ given(i) \in OrderType
    BY <1>1, <2>1, ReplenishedRow, ReplenishedType DEF Reopened
  <2>3. Unmoved(orders[i], orders[i])
    BY <2>1, UnmovedItself
  <2> HIDE DEF given, alive
  <2>4. os[i] = IF i \in alive THEN given(i) ELSE orders[i]
    OBVIOUS
  <2>5. os[i] \in OrderType
    BY <2>1, <2>2, <2>4
  <2>6. Marked(os[i], Expired(os[i]), "expired")
    BY <2>5, MarkedRow DEF Expired, Statuses
  <2>7. /\ orders'[i] = os[i]
        \/ /\ orders'[i] = Expired(os[i]) /\ os[i].status = "open" /\ os[i].give_asset = BTC
    <3> HIDE DEF os
    <3> QED BY <1>2
  <2> HIDE DEF os
  <2>8. CASE i \in alive
    <3>1. os[i] = given(i)
      BY <2>4, <2>8
    <3>2. CASE orders'[i] = os[i]
      BY <2>2, <2>8, <3>1, <3>2 DEF GivenBack
    <3>3. CASE orders'[i] = Expired(os[i]) /\ os[i].status = "open" /\ os[i].give_asset = BTC
      <4> DEFINE r == IF orders[i].get_asset = BTC THEN -m.fee_paid ELSE 0
      <4>1. -Gave(m, i) \in Int /\ -Got(m, i) \in Int /\ 0 \in Int /\ r \in Int
        BY <2>1
      <4>2. Moved(orders[i], given(i), -Gave(m, i), -Got(m, i), 0, r)
        BY <2>2
      <4>3. Moved(given(i), orders'[i], 0, 0, 0, 0) /\ orders'[i].status = "expired"
        BY <2>6, <3>1, <3>3 DEF Marked
      <4> HIDE DEF r
      <4>4. Moved(orders[i], orders'[i], -Gave(m, i), -Got(m, i), 0, r)
        BY <2>1, <4>1, <4>2, <4>3, MovedTwice
      <4>5. orders[i].give_asset = BTC
        BY <2>2, <3>1, <3>3 DEF Moved, SameTerms
      <4> QED
        BY <2>2, <2>8, <3>1, <3>3, <4>3, <4>4, <4>5 DEF GivenBack, r
    <3> QED
      BY <2>7, <3>2, <3>3
  <2>9. CASE i \notin alive
    BY <2>3, <2>4, <2>6, <2>7, <2>9 DEF LeftAlone, Marked, Unmoved
  <2> QED
    BY <2>8, <2>9
<1>6. OrderIds' = OrderIds
  <2>1. DOMAIN penalty = OrderIds
    OBVIOUS
  <2> HIDE DEF penalty
  <2> QED BY <1>2, <2>1 DEF OrderIds
<1>7. Closes(k, "expired")
  BY <1>1, <1>2, ClosesMatch
<1> HIDE DEF penalised
<1> QED
  BY <1>1, <1>2, <1>3, <1>4, <1>5, <1>6, <1>7

----------------------------------------------------------------------------
\* The loops: nothing is matched while matches or orders expire, and what is matched
\* or due stays open.
LoopsInv ==
  /\ pc \in {"matches", "orders"} => matching = None
  /\ pc # "orders" => due = {}
  /\ \A i \in due : orders[i].status = "open"
  /\ matching = None => candidates = {}
  /\ matching # None =>
       /\ orders[matching].status = "open"
       /\ \A j \in candidates : orders[j].status = "open" /\ Opposite(orders[j], orders[matching])

\* match() starts with open orders.
LEMMA StartMatchOpen ==
  ASSUME NEW os, NEW c, NEW i, i # None, StartMatch(os, c, i)
  PROVE  /\ matching' = None => candidates' = {}
         /\ matching' # None =>
              /\ os[matching'].status = "open"
              /\ \A j \in candidates' : os[j].status = "open" /\ Opposite(os[j], os[matching'])
<1>1. CASE os[i].status # "open" \/ Matching(os, i) = {}
  BY <1>1 DEF StartMatch, NoMatch
<1>2. CASE ~(os[i].status # "open" \/ Matching(os, i) = {})
  <2>1. matching' = i /\ candidates' \subseteq Matching(os, i)
    BY <1>2 DEF StartMatch
  <2> QED
    BY <1>2, <2>1 DEF Matching
<1> QED
  BY <1>1, <1>2

\* Every step keeps what the loops rely on.
LEMMA StepLoops ==
  ASSUME IInv, LoopsInv, [Next]_vars
  PROVE  LoopsInv'
<1>1. TypeOK
  BY DEF IInv
<1>2. ASSUME NEW offer \in Offers, Order(offer)
      PROVE  LoopsInv'
  <2> DEFINE o == Affordable(offer)
             n == Len(orders) + 1
  <2>1. /\ pc = "transactions" /\ matching = None /\ StartMatch(orders', cached', n)
        /\ UNCHANGED <<pc, due>> /\ n # None
    <3> HIDE DEF o, n
    <3> QED BY <1>1, <1>2, OrderRows DEF o, n, None
  <2>2. due = {}
    BY <2>1 DEF LoopsInv
  <2> HIDE DEF n
  <2> QED
    BY <2>1, <2>2, StartMatchOpen DEF LoopsInv
<1>3. ASSUME NEW i \in OrderIds, Cancel(i)
      PROVE  LoopsInv'
  <2>1. pc = "transactions" /\ matching = None /\ UNCHANGED <<pc, due, matching, candidates>>
    BY <1>1, <1>3, CancelRows DEF loops
  <2> QED
    BY <2>1 DEF LoopsInv
<1>4. ASSUME NEW k \in MatchIds, NEW source, NEW destination, BTCPay(k, source, destination)
      PROVE  LoopsInv'
  <2>1. pc = "transactions" /\ matching = None /\ UNCHANGED <<pc, due, matching, candidates>>
    BY <1>1, <1>4, BTCPayRows DEF loops
  <2> QED
    BY <2>1 DEF LoopsInv
<1>5. ASSUME NEW i \in candidates, MatchNext(i)
      PROVE  LoopsInv'
  <2>1. matching # None
    BY <1>5 DEF MatchNext
  <2>2. Opposite(orders[i], orders[matching]) /\ orders[matching].status = "open"
        /\ pc \notin {"matches", "orders"} /\ due = {}
    BY <2>1 DEF LoopsInv
  <2> DEFINE f == Forward(orders[i], orders[matching])
             b == Backward(orders[i], orders[matching])
             fee == Fee(orders[i], orders[matching])
             n == Len(order_matches) + 1
  <2>3. /\ matching \in OrderIds /\ i \in OrderIds /\ i # matching
        /\ Kept(OrderIds \ {i, matching})
        /\ TradesRow(matching, orders'[matching], b, f, fee)
        /\ UNCHANGED <<pc, due>>
    <3> HIDE DEF f, b, fee, n
    <3> QED BY <1>5, <2>2, TradeBooks DEF f, b, fee, n
  <2>4. orders'[matching].status \in {"open", "filled"}
    BY <2>2, <2>3 DEF TradesRow, StatusAfter
  <2>5. CASE orders'[matching].status = "filled"
    BY <1>5, <2>2, <2>3, <2>5 DEF MatchNext, NoMatch, LoopsInv
  <2>6. CASE orders'[matching].status = "open"
    <3>1. candidates' = {j \in candidates : Better(orders, i, j)} /\ matching' = matching
      BY <1>5, <2>6 DEF MatchNext
    <3>2. ~Better(orders, i, i)
      <4>1. orders[i] \in OrderType /\ i \in Nat
        BY <1>1, <2>3, Rows
      <4>2. orders[i].get_quantity * orders[i].give_quantity \in Int
        BY <4>1 DEF OrderType
      <4> DEFINE x == orders[i].get_quantity * orders[i].give_quantity
      <4>3. Better(orders, i, i) <=> (x < x \/ (x = x /\ i < i))
        BY DEF Better
      <4> HIDE DEF x
      <4>4. x \in Int
        BY <4>2 DEF x
      <4> QED BY <4>1, <4>3, <4>4
    <3>3. candidates' \subseteq candidates \ {i}
      BY <3>1, <3>2
    <3>4. ASSUME NEW j \in candidates'
          PROVE  /\ orders'[j].status = "open" /\ Opposite(orders'[j], orders'[matching])
      <4>1. j \in OrderIds \ {i, matching} /\ j \in candidates
        BY <1>1, <3>3, <3>4 DEF IInv, TypeOK
      <4>2. orders'[j] = orders[j] /\ orders[j].status = "open"
            /\ Opposite(orders[j], orders[matching])
        BY <2>1, <2>3, <4>1 DEF Kept, LoopsInv
      <4> QED
        BY <2>3, <4>2 DEF TradesRow, Moved, SameTerms, Opposite
    <3> QED
      BY <2>1, <2>2, <2>3, <2>6, <3>1, <3>4 DEF LoopsInv
  <2> QED
    BY <2>4, <2>5, <2>6
<1>6. ASSUME NEW k \in expiring, ExpireOrderMatch(k)
      PROVE  LoopsInv'
  <2>1. pc = "matches" /\ UNCHANGED <<pc, due, matching, candidates>>
    BY <1>6, ExpireOrderMatchRows
  <2> QED
    BY <2>1 DEF LoopsInv
<1>7. ASSUME NEW i \in due, ExpireOrder(i)
      PROVE  LoopsInv'
  <2>1. /\ Kept(OrderIds \ {i}) /\ pc = "orders" /\ due' = due \ {i}
        /\ UNCHANGED <<pc, matching, candidates>>
    BY <1>1, <1>7, ExpireOrderRows
  <2>2. \A j \in due' : orders'[j].status = "open"
    BY <1>1, <2>1 DEF Kept, LoopsInv, TypeOK
  <2> QED
    BY <2>1, <2>2 DEF LoopsInv
<1>8. CASE Rematch
  <2>1. /\ pc = "rematch" /\ pc' = pc /\ due' = due /\ UNCHANGED orders
        /\ StartMatch(orders, cached, Head(rematching)) /\ rematching # <<>>
    BY <1>8 DEF Rematch, tables
  <2>2. Head(rematching) \in OrderIds
    BY <1>1, <2>1, HeadTailProperties DEF TypeOK
  <2>3. Head(rematching) # None
    BY <1>1, <2>2, Rows DEF None
  <2> QED
    BY <2>1, <2>3, StartMatchOpen DEF LoopsInv
<1>9. CASE MatchedAgain
  <2>1. \A i \in due' : orders[i].status = "open"
    BY <1>9 DEF MatchedAgain, OrdersToExpire
  <2> QED
    BY <1>9, <2>1 DEF MatchedAgain, LoopsInv, tables
<1>10. CASE MatchEnd
  BY <1>10 DEF MatchEnd, NoMatch, LoopsInv, tables
<1>11. CASE MatchesExpired
  BY <1>11 DEF MatchesExpired, LoopsInv, tables, loops
<1>12. CASE OrdersExpired
  BY <1>12 DEF OrdersExpired, LoopsInv, tables, loops
<1>13. CASE NextBlock
  BY <1>13 DEF NextBlock, CanParse, LoopsInv, tables
<1>14. CASE UNCHANGED vars
  BY <1>14 DEF vars, LoopsInv
<1>15. CASE InvalidOrder
  BY <1>1, <1>15, InvalidOrderRows DEF LoopsInv
<1> QED
  BY <1>2, <1>3, <1>4, <1>5, <1>6, <1>7, <1>8, <1>9, <1>10, <1>11, <1>12, <1>13, <1>14, <1>15 DEF Next

----------------------------------------------------------------------------
\* What no step changes.
Stays ==
  /\ OrderIds \subseteq OrderIds'
  /\ \A i \in OrderIds : SameTerms(orders[i], orders'[i])
  /\ MatchIds \subseteq MatchIds'
  /\ \A k \in MatchIds : /\ SameParts(order_matches[k], order_matches'[k])
                         /\ order_matches'[k].status = "pending" => Pending(k)

\* A row that is kept keeps its terms.
LEMMA KeptTerms ==
  ASSUME NEW i, orders'[i] = orders[i]
  PROVE  SameTerms(orders[i], orders'[i])
BY DEF SameTerms

\* No step changes the terms of an order or the parts of a match, or deletes one.
LEMMA StepStays ==
  ASSUME IInv, LoopsInv, [Next]_vars
  PROVE  Stays
<1>1. TypeOK
  BY DEF IInv
<1>2. UNCHANGED order_matches => /\ MatchIds \subseteq MatchIds'
                                 /\ \A k \in MatchIds :
                                      /\ SameParts(order_matches[k], order_matches'[k])
                                      /\ order_matches'[k].status = "pending" => Pending(k)
  BY DEF MatchIds, SameParts, Pending
<1>3. UNCHANGED orders => /\ OrderIds \subseteq OrderIds'
                          /\ \A i \in OrderIds : SameTerms(orders[i], orders'[i])
  BY DEF OrderIds, SameTerms
<1>4. ASSUME NEW offer \in Offers, Order(offer)
      PROVE  Stays
  <2> DEFINE o == Affordable(offer)
             n == Len(orders) + 1
  <2>1. OrderIds' = OrderIds \union {n} /\ Kept(OrderIds) /\ UNCHANGED order_matches
    <3> HIDE DEF o, n
    <3> QED BY <1>1, <1>4, OrderRows DEF o, n
  <2> HIDE DEF n
  <2> QED
    BY <1>2, <2>1, KeptTerms DEF Stays, Kept
<1>5. ASSUME NEW i \in OrderIds, Cancel(i)
      PROVE  Stays
  <2>1. /\ OrderIds' = OrderIds /\ Kept(OrderIds \ {i}) /\ Marked(orders[i], orders'[i], "cancelled")
        /\ UNCHANGED order_matches
    BY <1>1, <1>5, CancelRows
  <2> QED
    BY <1>2, <2>1, KeptTerms DEF Stays, Kept, Marked, Moved
<1>6. ASSUME NEW k \in MatchIds, NEW source, NEW destination, BTCPay(k, source, destination)
      PROVE  Stays
  <2>1. /\ OrderIds' = OrderIds /\ Pending(k) /\ Closes(k, "completed")
        /\ \A i \in OrderIds : \/ orders'[i] = orders[i]
                               \/ Marked(orders[i], orders'[i], "filled")
    BY <1>1, <1>6, BTCPayRows
  <2>2. \A i \in OrderIds : SameTerms(orders[i], orders'[i])
    BY <2>1, KeptTerms DEF Marked, Moved
  <2> QED
    BY <2>1, <2>2 DEF Stays, Closes, SameParts, Pending
<1>7. ASSUME NEW i \in candidates, MatchNext(i)
      PROVE  Stays
  <2>1. Opposite(orders[i], orders[matching])
    BY <1>7 DEF LoopsInv, MatchNext
  <2> DEFINE f == Forward(orders[i], orders[matching])
             b == Backward(orders[i], orders[matching])
             fee == Fee(orders[i], orders[matching])
             n == Len(order_matches) + 1
  <2>2. /\ OrderIds' = OrderIds /\ Kept(OrderIds \ {i, matching})
        /\ TradesRow(i, orders'[i], f, b, fee) /\ TradesRow(matching, orders'[matching], b, f, fee)
        /\ MatchIds' = MatchIds \union {n}
        /\ \A l \in MatchIds : order_matches'[l] = order_matches[l]
    <3> HIDE DEF f, b, fee, n
    <3> QED BY <1>7, <2>1, TradeBooks DEF f, b, fee, n
  <2> HIDE DEF f, b, fee, n
  <2>3. \A j \in OrderIds : SameTerms(orders[j], orders'[j])
    <3> TAKE j \in OrderIds
    <3>1. CASE j \in {i, matching}
      BY <2>2, <3>1 DEF TradesRow, Moved
    <3>2. CASE j \notin {i, matching}
      BY <2>2, <3>2, KeptTerms DEF Kept
    <3> QED
      BY <3>1, <3>2
  <2> QED
    BY <2>2, <2>3 DEF Stays, SameParts, Pending
<1>8. ASSUME NEW k \in expiring, ExpireOrderMatch(k)
      PROVE  Stays
  <2> DEFINE m == order_matches[k]
  <2>1. /\ OrderIds' = OrderIds /\ Closes(k, "expired") /\ k \in MatchIds /\ m.status = "pending"
        /\ \A i \in OrderIds : IF i \in {m.tx0, m.tx1} /\ ~IsDead(orders[i])
                               THEN GivenBack(m, i, orders'[i]) ELSE LeftAlone(i, orders'[i])
    BY <1>8, ExpireOrderMatchRows
  <2>2. \A i \in OrderIds : SameTerms(orders[i], orders'[i])
    BY <2>1 DEF GivenBack, LeftAlone, Moved
  <2> QED
    BY <2>1, <2>2 DEF Stays, Closes, SameParts, Pending
<1>9. ASSUME NEW i \in due, ExpireOrder(i)
      PROVE  Stays
  <2>1. /\ OrderIds' = OrderIds /\ Kept(OrderIds \ {i}) /\ Marked(orders[i], orders'[i], "expired")
        /\ UNCHANGED order_matches
    BY <1>1, <1>9, ExpireOrderRows
  <2> QED
    BY <1>2, <2>1, KeptTerms DEF Stays, Kept, Marked, Moved
<1>10. CASE UNCHANGED <<orders, order_matches>>
  BY <1>2, <1>3, <1>10 DEF Stays
<1>11. CASE NextBlock
  BY <1>10, <1>11 DEF NextBlock, tables
<1>12. CASE MatchEnd \/ MatchesExpired \/ Rematch \/ MatchedAgain \/ OrdersExpired
  BY <1>10, <1>12 DEF MatchEnd, MatchesExpired, Rematch, MatchedAgain, OrdersExpired, tables
<1>13. CASE UNCHANGED vars
  BY <1>10, <1>13 DEF vars
<1>14. CASE InvalidOrder
  BY <1>10, <1>14 DEF InvalidOrder, tables
<1> QED
  BY <1>4, <1>5, <1>6, <1>7, <1>8, <1>9, <1>11, <1>12, <1>13, <1>14 DEF Next

----------------------------------------------------------------------------
\* Products and rounding.
LEMMA TimesMonotone ==
  ASSUME NEW x \in Int, NEW y \in Int, NEW c \in Nat, x <= y
  PROVE  x * c <= y * c /\ c * x <= c * y
OBVIOUS

\* A positive factor can be cancelled.
LEMMA TimesCancels ==
  ASSUME NEW x \in Int, NEW y \in Int, NEW d \in Nat \ {0}, d * x <= d * y
  PROVE  x <= y
<1>1. SUFFICES ASSUME y + 1 <= x PROVE FALSE
  OBVIOUS
<1>2. d * (y + 1) <= d * x
  BY <1>1, TimesMonotone
<1>3. d * (y + 1) = d * y + d
  OBVIOUS
<1>4. d * x \in Int /\ d * y \in Int
  OBVIOUS
<1> QED
  BY <1>2, <1>3, <1>4

\* A rounded fraction is at most one half from the fraction.
LEMMA RoundNear ==
  ASSUME NEW n \in Nat, NEW d \in Nat \ {0}
  PROVE  /\ Round(n, d) \in Int
         /\ 2 * (Round(n, d) * d) >= 2 * n - d
         /\ 2 * (Round(n, d) * d) <= 2 * n + d
<1> DEFINE q == n \div d
           m == n % d
<1>1. q \in Nat /\ m \in 0..(d - 1) /\ n = d * q + m
  BY Division
<1>2. Round(n, d) = IF 2 * m < d \/ (2 * m = d /\ q % 2 = 0) THEN q ELSE q + 1
  BY DEF Round
<1> HIDE DEF q, m
<1>3. CASE Round(n, d) = q /\ 2 * m <= d
  <2>1. q * d = d * q /\ d * q \in Int
    BY <1>1
  <2> QED BY <1>1, <1>3, <2>1
<1>4. CASE Round(n, d) = q + 1 /\ 2 * m >= d
  <2>1. (q + 1) * d = d * q + d /\ d * q \in Int
    BY <1>1
  <2> QED BY <1>1, <1>4, <2>1
<1> QED
  BY <1>1, <1>2, <1>3, <1>4

\* The limits of both orders, in a trade of f against b
KeepsLimits(f, b, tx0, tx1) ==
  /\ 2 * b * tx0.give_quantity >= (2 * f * tx0.get_quantity) - tx0.give_quantity
  /\ 2 * b * tx1.get_quantity <= (2 * f * tx1.give_quantity) + tx1.get_quantity

\* The rounded amounts of match() keep the limits of both orders.
LEMMA TradeKeepsLimits ==
  ASSUME NEW tx0 \in OrderType, NEW tx1 \in OrderType, PricesAgree(tx0, tx1),
         NEW f \in Nat, NEW b, b = Round(f * tx0.get_quantity, tx0.give_quantity)
  PROVE  KeepsLimits(f, b, tx0, tx1)
<1>1. PICK g0 \in Nat \ {0}, t0 \in Nat \ {0}, g1 \in Nat \ {0}, t1 \in Nat \ {0} :
        /\ g0 = tx0.give_quantity /\ t0 = tx0.get_quantity
        /\ g1 = tx1.give_quantity /\ t1 = tx1.get_quantity
  BY DEF OrderType
<1> DEFINE n == f * t0
<1>2. n \in Nat
  OBVIOUS
<1>3. /\ b \in Int /\ 2 * (b * g0) >= 2 * n - g0 /\ 2 * (b * g0) <= 2 * n + g0
  <2> HIDE DEF n
  <2>1. b = Round(n, g0)
    BY <1>1 DEF n
  <2> QED BY <1>2, <2>1, RoundNear
<1>4. t0 * t1 <= g0 * g1
  BY <1>1 DEF PricesAgree
<1>5. 2 * b * g0 = 2 * (b * g0) /\ 2 * f * t0 = 2 * n
  BY <1>3
<1>6. 2 * b * g0 >= (2 * f * t0) - g0
  BY <1>3, <1>5
<1>7. 2 * b * t1 <= 2 * f * g1 + t1
  <2> DEFINE x == 2 * b * t1
             y == 2 * f * g1 + t1
             u == 2 * (b * g0)
             v == 2 * n + g0
             p == t0 * t1
             r == g0 * g1
  <2>1. x \in Int /\ y \in Int /\ u \in Int /\ v \in Int /\ p \in Int /\ r \in Int
    BY <1>2, <1>3
  <2>2. g0 * x = u * t1
    BY <1>3
  <2>3. u * t1 <= v * t1
    <3> HIDE DEF u, v
    <3>1. u <= v
      BY <1>3 DEF u, v
    <3> QED BY <2>1, <3>1, TimesMonotone
  <2>4. v * t1 = (2 * f) * p + g0 * t1
    OBVIOUS
  <2>5. (2 * f) * p <= (2 * f) * r
    <3> HIDE DEF p, r
    <3>1. p <= r /\ 2 * f \in Nat
      BY <1>4 DEF p, r
    <3> QED BY <2>1, <3>1, TimesMonotone
  <2>6. g0 * y = (2 * f) * r + g0 * t1
    OBVIOUS
  <2>7. (2 * f) * p \in Int /\ (2 * f) * r \in Int /\ g0 * t1 \in Int /\ v * t1 \in Int
    BY <2>1
  <2>8. g0 * x <= g0 * y
    <3> HIDE DEF x, y, u, v, p, r
    <3> QED BY <2>1, <2>2, <2>3, <2>4, <2>5, <2>6, <2>7
  <2> HIDE DEF x, y
  <2>9. x <= y
    BY <2>1, <2>8, TimesCancels
  <2> QED BY <2>9 DEF x, y
<1> QED
  BY <1>1, <1>6, <1>7 DEF KeepsLimits

----------------------------------------------------------------------------
\* Fair trades.

\* An order was opened in this block only if the block's transactions are parsed.
OpenedBefore ==
  \A i \in OrderIds : /\ orders[i].opened <= block
                      /\ pc # "transactions" => orders[i].opened < block
BTCIsOneSide ==
  \A i \in OrderIds : InvolvesBTC(orders[i]) => orders[i].give_asset # orders[i].get_asset
MatchesAreOpposite ==
  \A k \in MatchIds :
    /\ Opposite(orders[order_matches[k].tx0], orders[order_matches[k].tx1])
    /\ Pending(k) => InvolvesBTC(orders[order_matches[k].tx1])
\* Whatever the order that was just opened was matched with is better than what
\* it can still be matched with.
BestSoFar ==
  pc = "transactions" /\ matching # None =>
    \A k \in MatchIds, j \in candidates :
      order_matches[k].tx1 = matching => Better(orders, order_matches[k].tx0, j)

FairInv ==
  /\ OpenedBefore
  /\ BTCIsOneSide
  /\ MatchesAreOpposite
  /\ BestSoFar
  /\ TradesAreFair

\* The block goes on, and only then are the transactions over.
LEMMA Clock ==
  ASSUME [Next]_vars
  PROVE  \/ block' = block + 1
         \/ block' = block /\ (pc' = "transactions" \/ pc # "transactions")
<1>1. CASE \E o \in Offers : Order(o)
  BY <1>1 DEF Order
<1>2. CASE \E i \in OrderIds : Cancel(i)
  BY <1>2 DEF Cancel
<1>3. CASE \E k \in MatchIds, source, destination \in Addresses : BTCPay(k, source, destination)
  BY <1>3 DEF BTCPay
<1>4. CASE \E i \in candidates : MatchNext(i)
  BY <1>4 DEF MatchNext
<1>5. CASE NextBlock
  BY <1>5 DEF NextBlock
<1>6. CASE \E k \in expiring : ExpireOrderMatch(k)
  BY <1>6 DEF ExpireOrderMatch
<1>7. CASE \E i \in due : ExpireOrder(i)
  BY <1>7 DEF ExpireOrder
<1>8. CASE MatchEnd \/ MatchesExpired \/ Rematch \/ MatchedAgain \/ OrdersExpired
  BY <1>8 DEF MatchEnd, MatchesExpired, Rematch, MatchedAgain, OrdersExpired
<1>9. CASE UNCHANGED vars
  BY <1>9 DEF vars
<1>10. CASE InvalidOrder
  BY <1>10 DEF InvalidOrder
<1> QED
  BY <1>1, <1>2, <1>3, <1>4, <1>5, <1>6, <1>7, <1>8, <1>9, <1>10 DEF Next

\* Only a transaction adds an order, only a trade a match; what is matched in the
\* transactions was matched there before.
LEMMA Additions ==
  ASSUME IInv, LoopsInv, [Next]_vars
  PROVE  /\ OrderIds' = OrderIds \/ \E o \in Offers : Order(o)
         /\ MatchIds' = MatchIds \/ \E i \in candidates : MatchNext(i)
         /\ \/ \E o \in Offers : Order(o)
            \/ \E i \in candidates : MatchNext(i)
            \/ pc' = "transactions" /\ matching' # None
                 => pc = "transactions" /\ UNCHANGED <<matching, candidates>>
<1>1. TypeOK
  BY DEF IInv
<1>2. CASE \E o \in Offers : Order(o)
  BY <1>2 DEF Order, MatchIds
<1>3. CASE \E i \in OrderIds : Cancel(i)
  BY <1>1, <1>3, CancelRows DEF MatchIds, loops
<1>4. CASE \E k \in MatchIds, source, destination \in Addresses : BTCPay(k, source, destination)
  BY <1>1, <1>4, BTCPayRows DEF Closes, loops
<1>5. CASE \E i \in candidates : MatchNext(i)
  <2> PICK i \in candidates : MatchNext(i)
    BY <1>5
  <2>1. Opposite(orders[i], orders[matching])
    BY DEF LoopsInv, MatchNext
  <2> DEFINE f == Forward(orders[i], orders[matching])
             b == Backward(orders[i], orders[matching])
             fee == Fee(orders[i], orders[matching])
             n == Len(order_matches) + 1
  <2>2. OrderIds' = OrderIds
    <3> HIDE DEF f, b, fee, n
    <3> QED BY <2>1, TradeBooks DEF f, b, fee, n
  <2> QED
    BY <1>5, <2>2
<1>6. CASE \E k \in expiring : ExpireOrderMatch(k)
  <2> PICK k \in expiring : ExpireOrderMatch(k)
    BY <1>6
  <2> DEFINE m == order_matches[k]
  <2>1. OrderIds' = OrderIds /\ Closes(k, "expired") /\ UNCHANGED <<pc, matching, candidates>>
    BY ExpireOrderMatchRows
  <2> QED
    BY <2>1 DEF Closes
<1>7. CASE \E i \in due : ExpireOrder(i)
  BY <1>1, <1>7, ExpireOrderRows DEF MatchIds
<1>8. CASE NextBlock
  BY <1>8 DEF NextBlock, tables, OrderIds, MatchIds
<1>9. CASE MatchEnd \/ MatchesExpired \/ MatchedAgain
  BY <1>9 DEF MatchEnd, NoMatch, MatchesExpired, MatchedAgain, tables, OrderIds, MatchIds
<1>10. CASE Rematch
  BY <1>10 DEF Rematch, tables, OrderIds, MatchIds
<1>11. CASE OrdersExpired
  BY <1>11 DEF OrdersExpired, tables, loops, OrderIds, MatchIds, LoopsInv
<1>12. CASE UNCHANGED vars
  BY <1>12 DEF vars, OrderIds, MatchIds
<1>13. CASE InvalidOrder
  BY <1>1, <1>13, InvalidOrderRows DEF OrderIds, MatchIds
<1> QED
  BY <1>2, <1>3, <1>4, <1>5, <1>6, <1>7, <1>8, <1>9, <1>10, <1>11, <1>12, <1>13 DEF Next

\* The order that is opened
LEMMA OpensOrder ==
  ASSUME TypeOK, NEW offer \in Offers, Order(offer), NEW n, n = Len(orders) + 1
  PROVE  /\ pc = "transactions" /\ pc' = pc /\ block' = block
         /\ orders'[n].opened = block /\ OrderIds' = OrderIds \union {n} /\ n \notin OrderIds
         /\ InvolvesBTC(orders'[n]) => orders'[n].give_asset # orders'[n].get_asset
         /\ matching' \in {n, None} /\ UNCHANGED order_matches
<1> DEFINE o == Affordable(offer)
<1>1. /\ pc = "transactions" /\ OrderIds' = OrderIds \union {n} /\ n \notin OrderIds
      /\ orders'[n] = OrderRow(o) /\ StartMatch(orders', cached', n)
      /\ UNCHANGED <<block, pc, order_matches>>
  <2> HIDE DEF o
  <2> QED BY OrderRows DEF o
<1>2. /\ OrderRow(o).opened = block
      /\ OrderRow(o).give_asset = o.give_asset /\ OrderRow(o).get_asset = o.get_asset
  BY DEF OrderRow
<1>3. o.give_asset = offer.give_asset /\ o.get_asset = offer.get_asset
  BY OffersAssumption DEF Affordable, Offer
<1>4. InvolvesBTC(OrderRow(o)) => OrderRow(o).give_asset # OrderRow(o).get_asset
  BY <1>2, <1>3, OffersAssumption DEF InvolvesBTC
<1>5. matching' \in {n, None}
  BY <1>1 DEF StartMatch, NoMatch
<1> QED
  BY <1>1, <1>2, <1>4, <1>5

\* Terms decide which order is better, and whether a trade was fair.
LEMMA SameBetter ==
  ASSUME NEW os, NEW ps, NEW i, NEW j, SameTerms(os[i], ps[i]), SameTerms(os[j], ps[j])
  PROVE  Better(ps, i, j) <=> Better(os, i, j)
BY DEF SameTerms, Better

\* The trades of an order in the block it was opened in
FirstTrade(m) == m.match_expire_index = orders[m.tx1].opened + MatchLife

\* Fair trades stay fair, and the next one is.
LEMMA StepTradesAreFair ==
  ASSUME IInv, IInv', LoopsInv, FairInv, [Next]_vars, Stays
  PROVE  TradesAreFair'
<1>1. /\ TypeOK /\ TypeOK'
      /\ \A k \in MatchIds : order_matches[k].tx0 \in OrderIds /\ order_matches[k].tx1 \in OrderIds
  BY DEF IInv, TypeOK
<1>2. \A k \in MatchIds : KeepsLimits(order_matches[k].forward_quantity,
                                      order_matches[k].backward_quantity,
                                      orders[order_matches[k].tx0], orders[order_matches[k].tx1])
  BY DEF FairInv, TradesAreFair, LimitPrice, KeepsLimits
<1>3. \A k, l \in MatchIds :
        /\ k < l /\ order_matches[k].tx1 = order_matches[l].tx1
        /\ FirstTrade(order_matches[k]) /\ FirstTrade(order_matches[l])
        => Better(orders, order_matches[k].tx0, order_matches[l].tx0)
  <2> TAKE k, l \in MatchIds
  <2> HAVE /\ k < l /\ order_matches[k].tx1 = order_matches[l].tx1
           /\ FirstTrade(order_matches[k]) /\ FirstTrade(order_matches[l])
  <2> DEFINE i == order_matches[k].tx0
             j == order_matches[l].tx0
             x == orders[i].get_quantity * orders[j].give_quantity
             y == orders[j].get_quantity * orders[i].give_quantity
  <2>1. x <= y /\ (x = y => i < j)
    BY DEF FairInv, TradesAreFair, BestPriceFirst, FirstTrade
  <2>2. x \in Int /\ y \in Int
    <3>1. orders[i] \in OrderType /\ orders[j] \in OrderType
      BY <1>1, Rows
    <3> QED BY <3>1 DEF OrderType
  <2> HIDE DEF x, y
  <2>3. x < y \/ (x = y /\ i < j)
    BY <2>1, <2>2
  <2> QED
    BY <2>3 DEF Better, x, y
<1>4. \A k \in MatchIds' :
        KeepsLimits(order_matches'[k].forward_quantity, order_matches'[k].backward_quantity,
                    orders'[order_matches'[k].tx0], orders'[order_matches'[k].tx1])
  <2> TAKE k \in MatchIds'
  <2>1. CASE k \in MatchIds
    <3>1. SameParts(order_matches[k], order_matches'[k])
      BY <2>1 DEF Stays
    <3>2. /\ SameTerms(orders[order_matches[k].tx0], orders'[order_matches[k].tx0])
          /\ SameTerms(orders[order_matches[k].tx1], orders'[order_matches[k].tx1])
      BY <1>1, <2>1 DEF Stays
    <3> QED
      BY <1>2, <2>1, <3>1, <3>2 DEF SameParts, SameTerms, KeepsLimits
  <2>2. CASE k \notin MatchIds
    <3>1. PICK i \in candidates : MatchNext(i)
      BY <2>2, Additions
    <3>2. Opposite(orders[i], orders[matching])
      BY <3>1 DEF LoopsInv, MatchNext
    <3> DEFINE f == Forward(orders[i], orders[matching])
               b == Backward(orders[i], orders[matching])
               fee == Fee(orders[i], orders[matching])
               n == Len(order_matches) + 1
    <3>3. /\ i \in OrderIds /\ matching \in OrderIds /\ Suits(orders[i], orders[matching])
          /\ f \in Nat /\ MatchIds' = MatchIds \union {n} /\ MadeMatch(order_matches'[n], i, f, b)
      <4> HIDE DEF f, b, fee, n
      <4> QED BY <3>1, <3>2, TradeBooks DEF f, b, fee, n
    <3>4. orders[i] \in OrderType /\ orders[matching] \in OrderType
      BY <1>1, <3>3, Rows
    <3>5. KeepsLimits(f, b, orders[i], orders[matching])
      <4>1. PricesAgree(orders[i], orders[matching])
        BY <3>3 DEF Suits
      <4>2. b = Round(f * orders[i].get_quantity, orders[i].give_quantity)
        BY DEF Backward
      <4> HIDE DEF f, b
      <4> QED BY <3>3, <3>4, <4>1, <4>2, TradeKeepsLimits
    <3>6. SameTerms(orders[i], orders'[i]) /\ SameTerms(orders[matching], orders'[matching])
      BY <3>3 DEF Stays
    <3> HIDE DEF f, b, n
    <3>7. k = n
      BY <2>2, <3>3
    <3> QED
      BY <3>3, <3>5, <3>6, <3>7 DEF MadeMatch, SameTerms, KeepsLimits
  <2> QED
    BY <2>1, <2>2
<1>5. ASSUME NEW k \in MatchIds', NEW l \in MatchIds', k < l,
             order_matches'[k].tx1 = order_matches'[l].tx1,
             FirstTrade(order_matches[k])', FirstTrade(order_matches[l])'
      PROVE  Better(orders', order_matches'[k].tx0, order_matches'[l].tx0)
  <2>1. ASSUME NEW h \in MatchIds
        PROVE  /\ SameParts(order_matches[h], order_matches'[h])
               /\ FirstTrade(order_matches[h])' => FirstTrade(order_matches[h])
               /\ SameTerms(orders[order_matches[h].tx0], orders'[order_matches[h].tx0])
    BY <1>1, <2>1 DEF Stays, SameParts, SameTerms, FirstTrade
  <2>2. CASE k \in MatchIds /\ l \in MatchIds
    <3>1. Better(orders, order_matches[k].tx0, order_matches[l].tx0)
      BY <1>3, <1>5, <2>1, <2>2 DEF SameParts
    <3> QED
      BY <2>1, <2>2, <3>1, SameBetter DEF SameParts
  <2>3. CASE ~(k \in MatchIds /\ l \in MatchIds)
    <3>1. PICK i \in candidates : MatchNext(i)
      BY <2>3, Additions
    <3>2. Opposite(orders[i], orders[matching]) /\ matching # None
      BY <3>1 DEF LoopsInv, MatchNext
    <3> DEFINE f == Forward(orders[i], orders[matching])
               b == Backward(orders[i], orders[matching])
               fee == Fee(orders[i], orders[matching])
               n == Len(order_matches) + 1
    <3>3. /\ i \in OrderIds /\ matching \in OrderIds /\ UNCHANGED <<block, pc>>
          /\ MatchIds' = MatchIds \union {n} /\ (\A h \in MatchIds : h < n) /\ n \in Nat
          /\ MadeMatch(order_matches'[n], i, f, b)
      <4>1. n \in Nat
        BY <1>1, LenProperties DEF TypeOK
      <4> HIDE DEF f, b, fee, n
      <4> QED BY <3>1, <3>2, <4>1, TradeBooks DEF f, b, fee, n
    <3> HIDE DEF f, b, n
    <3>4. k \in MatchIds /\ l = n
      <4>1. \A h \in MatchIds : h \in Nat
        BY <1>1, Rows
      <4> QED BY <1>5, <2>3, <3>3, <4>1
    <3>5. pc = "transactions"
      <4>1. orders'[matching].opened = orders[matching].opened
        BY <3>3 DEF Stays, SameTerms
      <4>2. block + MatchLife = orders[matching].opened + MatchLife
        BY <1>5, <3>3, <3>4, <4>1 DEF FirstTrade, MadeMatch
      <4>3. block \in Nat /\ orders[matching].opened \in Nat /\ MatchLife \in Nat
        BY <1>1, <3>3, Rows, BlocksAssumption DEF TypeOK, OrderType
      <4>4. ~(orders[matching].opened < block)
        BY <4>2, <4>3
      <4> QED BY <3>3, <4>4 DEF FairInv, OpenedBefore
    <3>6. order_matches[k].tx1 = matching
      BY <1>5, <2>1, <3>3, <3>4 DEF MadeMatch, SameParts
    <3>7. Better(orders, order_matches[k].tx0, i)
      BY <3>2, <3>4, <3>5, <3>6 DEF FairInv, BestSoFar
    <3>8. SameTerms(orders[i], orders'[i])
      BY <3>3 DEF Stays
    <3> QED
      BY <2>1, <3>3, <3>4, <3>7, <3>8, SameBetter DEF MadeMatch, SameParts
  <2> QED
    BY <2>2, <2>3
<1>6. LimitPrice'
  BY <1>4 DEF LimitPrice, KeepsLimits
<1>7. BestPriceFirst'
  <2> SUFFICES ASSUME NEW k \in MatchIds', NEW l \in MatchIds', k < l,
                      order_matches'[k].tx1 = order_matches'[l].tx1,
                      FirstTrade(order_matches[k])', FirstTrade(order_matches[l])'
               PROVE  LET i == order_matches'[k].tx0
                          j == order_matches'[l].tx0
                          x == orders'[i].get_quantity * orders'[j].give_quantity
                          y == orders'[j].get_quantity * orders'[i].give_quantity
                      IN x <= y /\ (x = y => i < j)
    BY DEF BestPriceFirst, FirstTrade
  <2> DEFINE i == order_matches'[k].tx0
             j == order_matches'[l].tx0
             x == orders'[i].get_quantity * orders'[j].give_quantity
             y == orders'[j].get_quantity * orders'[i].give_quantity
  <2>1. Better(orders', i, j)
    BY <1>5
  <2>2. x < y \/ (x = y /\ i < j)
    BY <2>1 DEF Better
  <2>3. x \in Int /\ y \in Int
    <3>1. orders'[i] \in OrderType /\ orders'[j] \in OrderType
      <4>1. i \in OrderIds' /\ j \in OrderIds' /\ orders' \in Seq(OrderType)
        BY <1>1 DEF TypeOK
      <4> QED BY <4>1, ElementOfSeq, LenProperties DEF OrderIds
    <3> QED BY <3>1 DEF OrderType
  <2> HIDE DEF x, y
  <2>4. x <= y /\ (x = y => i < j)
    BY <2>2, <2>3
  <2> QED
    BY <2>4 DEF x, y
<1> QED
  BY <1>6, <1>7 DEF TradesAreFair

\* Every step keeps the trades fair, and what that rests on.
LEMMA StepFair ==
  ASSUME IInv, IInv', LoopsInv, FairInv, [Next]_vars
  PROVE  FairInv'
<1>1. /\ TypeOK /\ TypeOK' /\ block \in Nat /\ Stays
      /\ \A k \in MatchIds : order_matches[k].tx0 \in OrderIds /\ order_matches[k].tx1 \in OrderIds
  BY StepStays DEF IInv, TypeOK
<1>2. OpenedBefore'
  <2> SUFFICES ASSUME NEW i \in OrderIds'
               PROVE  /\ orders'[i].opened <= block'
                      /\ pc' # "transactions" => orders'[i].opened < block'
    BY DEF OpenedBefore
  <2>1. CASE i \in OrderIds
    <3>1. /\ orders'[i].opened = orders[i].opened /\ orders[i].opened <= block
          /\ pc # "transactions" => orders[i].opened < block
      BY <1>1, <2>1 DEF Stays, SameTerms, FairInv, OpenedBefore
    <3>2. orders[i].opened \in Nat
      BY <1>1, <2>1, Rows DEF OrderType
    <3> QED
      BY <1>1, <3>1, <3>2, Clock
  <2>2. CASE i \notin OrderIds
    <3>1. PICK o \in Offers : Order(o)
      BY <2>2, Additions
    <3>2. /\ pc' = "transactions" /\ block' = block /\ orders'[i].opened = block
      BY <1>1, <2>2, <3>1, OpensOrder
    <3> QED
      BY <1>1, <3>2
  <2> QED
    BY <2>1, <2>2
<1>3. BTCIsOneSide'
  <2> SUFFICES ASSUME NEW i \in OrderIds'
               PROVE  InvolvesBTC(orders'[i]) => orders'[i].give_asset # orders'[i].get_asset
    BY DEF BTCIsOneSide
  <2>1. CASE i \in OrderIds
    BY <1>1, <2>1 DEF Stays, SameTerms, FairInv, BTCIsOneSide, InvolvesBTC
  <2>2. CASE i \notin OrderIds
    <3>1. PICK o \in Offers : Order(o)
      BY <2>2, Additions
    <3> QED
      BY <1>1, <2>2, <3>1, OpensOrder
  <2> QED
    BY <2>1, <2>2
<1>4. MatchesAreOpposite'
  <2> SUFFICES ASSUME NEW k \in MatchIds'
               PROVE  /\ Opposite(orders'[order_matches'[k].tx0], orders'[order_matches'[k].tx1])
                      /\ order_matches'[k].status = "pending"
                           => InvolvesBTC(orders'[order_matches'[k].tx1])
    BY DEF MatchesAreOpposite, Pending
  <2>1. CASE k \in MatchIds
    <3>1. SameParts(order_matches[k], order_matches'[k])
          /\ (order_matches'[k].status = "pending" => Pending(k))
      BY <1>1, <2>1 DEF Stays
    <3>2. /\ SameTerms(orders[order_matches[k].tx0], orders'[order_matches[k].tx0])
          /\ SameTerms(orders[order_matches[k].tx1], orders'[order_matches[k].tx1])
      BY <1>1, <2>1 DEF Stays
    <3>3. /\ Opposite(orders[order_matches[k].tx0], orders[order_matches[k].tx1])
          /\ Pending(k) => InvolvesBTC(orders[order_matches[k].tx1])
      BY <2>1 DEF FairInv, MatchesAreOpposite
    <3> QED
      BY <3>1, <3>2, <3>3 DEF SameParts, SameTerms, Opposite, InvolvesBTC
  <2>2. CASE k \notin MatchIds
    <3>1. PICK i \in candidates : MatchNext(i)
      BY <2>2, Additions
    <3>2. Opposite(orders[i], orders[matching])
      BY <3>1 DEF LoopsInv, MatchNext
    <3> DEFINE f == Forward(orders[i], orders[matching])
               b == Backward(orders[i], orders[matching])
               fee == Fee(orders[i], orders[matching])
               n == Len(order_matches) + 1
    <3>3. /\ i \in OrderIds /\ matching \in OrderIds
          /\ MatchIds' = MatchIds \union {n} /\ MadeMatch(order_matches'[n], i, f, b)
      <4> HIDE DEF f, b, fee, n
      <4> QED BY <3>1, <3>2, TradeBooks DEF f, b, fee, n
    <3>4. SameTerms(orders[i], orders'[i]) /\ SameTerms(orders[matching], orders'[matching])
      BY <1>1, <3>3 DEF Stays
    <3> HIDE DEF f, b, n
    <3>5. k = n
      BY <2>2, <3>3
    <3> QED
      BY <3>2, <3>3, <3>4, <3>5 DEF MadeMatch, SameTerms, Opposite, InvolvesBTC
  <2> QED
    BY <2>1, <2>2
<1>5. BestSoFar'
  <2> SUFFICES ASSUME pc' = "transactions", matching' # None, NEW k \in MatchIds',
                      NEW j \in candidates', order_matches'[k].tx1 = matching'
               PROVE  Better(orders', order_matches'[k].tx0, j)
    BY DEF BestSoFar
  <2>1. CASE \E o \in Offers : Order(o)
    <3> PICK o \in Offers : Order(o)
      BY <2>1
    <3> DEFINE n == Len(orders) + 1
    <3>1. matching' \in {n, None} /\ n \notin OrderIds /\ UNCHANGED order_matches
      <4> HIDE DEF n
      <4> QED BY <1>1, OpensOrder DEF n
    <3> QED
      BY <1>1, <3>1 DEF MatchIds
  <2>2. CASE \E i \in candidates : MatchNext(i)
    <3>1. PICK i \in candidates : MatchNext(i)
      BY <2>2
    <3>2. Opposite(orders[i], orders[matching]) /\ matching # None
      BY <3>1 DEF LoopsInv, MatchNext
    <3> DEFINE f == Forward(orders[i], orders[matching])
               b == Backward(orders[i], orders[matching])
               fee == Fee(orders[i], orders[matching])
               n == Len(order_matches) + 1
    <3>3. /\ i \in OrderIds /\ UNCHANGED pc
          /\ MatchIds' = MatchIds \union {n} /\ MadeMatch(order_matches'[n], i, f, b)
      <4> HIDE DEF f, b, fee, n
      <4> QED BY <3>1, <3>2, TradeBooks DEF f, b, fee, n
    <3> HIDE DEF f, b, n
    <3>4. matching' = matching /\ j \in candidates /\ Better(orders, i, j)
      BY <3>1, <2>2 DEF MatchNext, NoMatch
    <3>5. j \in OrderIds
      BY <1>1, <3>4 DEF TypeOK
    <3>6. CASE k = n
      BY <1>1, <3>3, <3>4, <3>5, <3>6, SameBetter DEF MadeMatch, Stays
    <3>7. CASE k \in MatchIds
      <4>1. SameParts(order_matches[k], order_matches'[k])
            /\ SameTerms(orders[order_matches[k].tx0], orders'[order_matches[k].tx0])
            /\ SameTerms(orders[j], orders'[j])
        BY <1>1, <3>5, <3>7 DEF Stays
      <4>2. order_matches[k].tx1 = matching
        BY <3>4, <4>1 DEF SameParts
      <4>3. Better(orders, order_matches[k].tx0, j)
        BY <3>2, <3>3, <3>4, <3>7, <4>2 DEF FairInv, BestSoFar
      <4> QED
        BY <4>1, <4>3, SameBetter DEF SameParts
    <3> QED
      BY <3>3, <3>6, <3>7
  <2>3. CASE ~(\E o \in Offers : Order(o)) /\ ~(\E i \in candidates : MatchNext(i))
    <3>1. /\ pc = "transactions" /\ matching' = matching /\ candidates' = candidates
          /\ k \in MatchIds
      BY <2>3, Additions
    <3>2. j \in OrderIds
      BY <1>1, <3>1 DEF TypeOK
    <3>3. SameParts(order_matches[k], order_matches'[k])
          /\ SameTerms(orders[order_matches[k].tx0], orders'[order_matches[k].tx0])
          /\ SameTerms(orders[j], orders'[j])
      BY <1>1, <3>1, <3>2 DEF Stays
    <3>4. order_matches[k].tx1 = matching
      BY <3>1, <3>3 DEF SameParts
    <3>5. Better(orders, order_matches[k].tx0, j)
      BY <3>1, <3>4 DEF FairInv, BestSoFar
    <3> QED
      BY <3>3, <3>5, SameBetter DEF SameParts
  <2> QED
    BY <2>1, <2>2, <2>3
<1>6. TradesAreFair'
  BY <1>1, StepTradesAreFair
<1> QED
  BY <1>2, <1>3, <1>4, <1>5, <1>6 DEF FairInv

\* These invariants hold in every reachable state.
LEMMA FairInvariant == Spec => [](IInv /\ LoopsInv /\ FairInv)
<1>1. Init => LoopsInv /\ FairInv
  <2> SUFFICES ASSUME Init PROVE LoopsInv /\ FairInv
    OBVIOUS
  <2>1. OrderIds = {} /\ MatchIds = {}
    BY DEF Init, OrderIds, MatchIds
  <2> QED
    BY <2>1 DEF Init, LoopsInv, FairInv, OpenedBefore, BTCIsOneSide, MatchesAreOpposite, BestSoFar,
               TradesAreFair, LimitPrice, BestPriceFirst
<1>2. IInv /\ LoopsInv /\ FairInv /\ [Next]_vars => (IInv /\ LoopsInv /\ FairInv)'
  <2> SUFFICES ASSUME IInv, LoopsInv, FairInv, [Next]_vars PROVE IInv' /\ LoopsInv' /\ FairInv'
    OBVIOUS
  <2>1. IInv'
    BY StepIInv
  <2> QED
    BY <2>1, StepLoops, StepFair
<1>3. Init => IInv
  BY InitIInv
<1> QED
  BY <1>1, <1>2, <1>3, PTL DEF Spec

\* No trade is worse for either side than the price of its order, up to the rounding
\* of one unit, and an order that is opened takes the best prices first.
THEOREM TradesStayFair == Spec => []TradesAreFair
<1>1. IInv /\ LoopsInv /\ FairInv => TradesAreFair
  BY DEF FairInv
<1> QED
  BY <1>1, FairInvariant, PTL

----------------------------------------------------------------------------
\* What is held, as sums over the tables.
BalanceSum(b, x) == SumFunctionOnSet([a \in Addresses |-> b[<<a, x>>]], Addresses)

\* What an open order, or one that was filled by a payment, has left of x
Left(o, x) ==
  IF o.give_asset = x /\ (o.status = "open" \/ (o.status = "filled" /\ o.get_asset = BTC))
  THEN o.give_remaining ELSE 0
Lefts(os, x) == [i \in DOMAIN os |-> Left(os[i], x)]
LeftSum(os, x) == SumFunctionOnSet(Lefts(os, x), DOMAIN os)

EscrowIn(os, m, x) ==
  IF m.status = "pending"
  THEN (IF os[m.tx1].get_asset = x THEN m.forward_quantity ELSE 0)
         + (IF os[m.tx1].give_asset = x THEN m.backward_quantity ELSE 0)
  ELSE 0
Escrows(os, ms, x) == [k \in DOMAIN ms |-> EscrowIn(os, ms[k], x)]
EscrowSum(os, ms, x) == SumFunctionOnSet(Escrows(os, ms, x), DOMAIN ms)

\* The rows of a sequence
LEMMA RowsOf ==
  ASSUME NEW T, NEW s \in Seq(T)
  PROVE  IsFiniteSet(DOMAIN s) /\ \A i \in DOMAIN s : s[i] \in T
<1>1. Len(s) \in Nat /\ DOMAIN s = 1..Len(s)
  BY LenProperties
<1>2. IsFiniteSet(1..Len(s))
  BY <1>1, FS_Interval
<1> QED
  BY <1>1, <1>2, ElementOfSeq

\* What the orders have left are integers, of finitely many orders.
LEMMA LeftsType ==
  ASSUME NEW os \in Seq(OrderType), NEW x
  PROVE  IsFiniteSet(DOMAIN os) /\ \A i \in DOMAIN os : Lefts(os, x)[i] = Left(os[i], x)
                                                      /\ Left(os[i], x) \in Int
<1>1. IsFiniteSet(DOMAIN os) /\ \A i \in DOMAIN os : os[i] \in OrderType
  BY RowsOf
<1>2. \A i \in DOMAIN os : Left(os[i], x) \in Int
  BY <1>1 DEF Left, OrderType
<1> QED
  BY <1>1, <1>2 DEF Lefts

\* What the matches hold are integers, of finitely many matches.
LEMMA EscrowsType ==
  ASSUME NEW os, NEW ms \in Seq(MatchType), NEW x
  PROVE  IsFiniteSet(DOMAIN ms) /\ \A k \in DOMAIN ms : Escrows(os, ms, x)[k] = EscrowIn(os, ms[k], x)
                                                      /\ EscrowIn(os, ms[k], x) \in Int
<1>1. IsFiniteSet(DOMAIN ms) /\ \A k \in DOMAIN ms : ms[k] \in MatchType
  BY RowsOf
<1>2. \A k \in DOMAIN ms : EscrowIn(os, ms[k], x) \in Int
  <2> TAKE k \in DOMAIN ms
  <2>0. ms[k] \in MatchType
    BY <1>1
  <2>1. ms[k].forward_quantity \in Int /\ ms[k].backward_quantity \in Int
    BY <2>0 DEF MatchType
  <2> QED BY <2>1 DEF EscrowIn
<1> QED
  BY <1>1, <1>2 DEF Escrows

\* What is held is what the tables add up to.
LEMMA HeldIs ==
  ASSUME NEW os \in Seq(OrderType), NEW x
  PROVE  SumFunctionOnSet([i \in DOMAIN os |-> InOrder(os[i], "open", x)], DOMAIN os)
         + SumFunctionOnSet([i \in DOMAIN os |-> InOrder(os[i], "filled", x)], DOMAIN os)
         = LeftSum(os, x)
<1> DEFINE f == [i \in DOMAIN os |-> InOrder(os[i], "open", x)]
           g == [i \in DOMAIN os |-> InOrder(os[i], "filled", x)]
           h == Lefts(os, x)
<1>1. IsFiniteSet(DOMAIN os) /\ \A i \in DOMAIN os : os[i] \in OrderType
  BY RowsOf
<1>2. \A i \in DOMAIN os : f[i] \in Int /\ g[i] \in Int /\ h[i] = f[i] + g[i]
  <2> TAKE i \in DOMAIN os
  <2>1. os[i] \in OrderType /\ os[i].give_remaining \in Int
    BY <1>1 DEF OrderType
  <2>2. h[i] = Left(os[i], x) /\ f[i] = InOrder(os[i], "open", x)
        /\ g[i] = InOrder(os[i], "filled", x)
    BY LeftsType
  <2> HIDE DEF f, g, h
  <2>3. /\ InOrder(os[i], "open", x) \in Int /\ InOrder(os[i], "filled", x) \in Int
        /\ Left(os[i], x) = InOrder(os[i], "open", x) + InOrder(os[i], "filled", x)
    BY <2>1 DEF InOrder, Left
  <2> QED BY <2>2, <2>3
<1> HIDE DEF f, g, h
<1>3. SumFunctionOnSet(h, DOMAIN os)
        = SumFunctionOnSet(f, DOMAIN os) + SumFunctionOnSet(g, DOMAIN os)
  BY <1>1, <1>2, SumPlus
<1> QED
  BY <1>3 DEF f, g, h, LeftSum

HeldSum(b, os, ms, x) == BalanceSum(b, x) + LeftSum(os, x) + EscrowSum(os, ms, x)

\* The sums over the tables are integers.
LEMMA SumsType ==
  ASSUME NEW b \in [Addresses \X Assets -> Int], NEW os \in Seq(OrderType),
         NEW ms \in Seq(MatchType), NEW x \in Assets
  PROVE  BalanceSum(b, x) \in Int /\ LeftSum(os, x) \in Int /\ EscrowSum(os, ms, x) \in Int
<1>1. BalanceSum(b, x) \in Int
  <2> DEFINE f == [a \in Addresses |-> b[<<a, x>>]]
  <2>1. \A a \in Addresses : f[a] \in Int
    OBVIOUS
  <2> HIDE DEF f
  <2>2. SumFunctionOnSet(f, Addresses) \in Int
    BY <2>1, OffersAssumption, SumType
  <2> QED BY <2>2 DEF f, BalanceSum
<1>2. LeftSum(os, x) \in Int
  <2>1. IsFiniteSet(DOMAIN os) /\ \A i \in DOMAIN os : Lefts(os, x)[i] \in Int
    BY LeftsType
  <2> QED BY <2>1, SumType DEF LeftSum
<1>3. EscrowSum(os, ms, x) \in Int
  <2>1. IsFiniteSet(DOMAIN ms) /\ \A k \in DOMAIN ms : Escrows(os, ms, x)[k] \in Int
    BY EscrowsType
  <2> QED BY <2>1, SumType DEF EscrowSum
<1> QED
  BY <1>1, <1>2, <1>3

\* What is held is the sum of the three tables.
LEMMA HeldIsSum ==
  ASSUME TypeOK, NEW x \in Assets
  PROVE  Held(x) = HeldSum(balances, orders, order_matches, x)
<1>1. InBalances(x) = BalanceSum(balances, x)
  BY DEF InBalances, BalanceSum
<1>2. InOrders("open", x) + InOrders("filled", x) = LeftSum(orders, x)
  BY HeldIs DEF TypeOK, InOrders, OrderIds
<1>3. InPendingMatches(x) = EscrowSum(orders, order_matches, x)
  BY DEF InPendingMatches, InMatch, Escrow, ForwardAsset, BackwardAsset, EscrowSum, Escrows,
         EscrowIn, MatchIds
<1>4. /\ BalanceSum(balances, x) \in Int /\ LeftSum(orders, x) \in Int
      /\ EscrowSum(orders, order_matches, x) \in Int
  BY SumsType DEF TypeOK
<1>5. InOrders("open", x) \in Int /\ InOrders("filled", x) \in Int
  <2>1. IsFiniteSet(DOMAIN orders) /\ \A i \in DOMAIN orders : orders[i] \in OrderType
    BY RowsOf DEF TypeOK
  <2> DEFINE f == [i \in DOMAIN orders |-> InOrder(orders[i], "open", x)]
             g == [i \in DOMAIN orders |-> InOrder(orders[i], "filled", x)]
  <2>2. \A i \in DOMAIN orders : f[i] \in Int /\ g[i] \in Int
    BY <2>1 DEF InOrder, OrderType
  <2> HIDE DEF f, g
  <2>3. SumFunctionOnSet(f, DOMAIN orders) \in Int /\ SumFunctionOnSet(g, DOMAIN orders) \in Int
    BY <2>1, <2>2, SumType
  <2> QED BY <2>3 DEF f, g, InOrders, OrderIds
<1> QED
  BY <1>1, <1>2, <1>3, <1>4, <1>5 DEF Held, HeldSum

\* The same, for every asset
LEMMA HeldSums == TypeOK => \A x \in Assets : Held(x) = HeldSum(balances, orders, order_matches, x)
BY HeldIsSum

\* and of the next state.
LEMMA HeldSumsNext ==
  TypeOK' => \A x \in Assets : Held(x)' = HeldSum(balances', orders', order_matches', x)
<1>1. (TypeOK => \A x \in Assets : Held(x) = HeldSum(balances, orders, order_matches, x))'
  BY HeldSums, PTL
<1> QED BY <1>1 DEF HeldSum, BalanceSum, LeftSum, Lefts, EscrowSum, Escrows, EscrowIn

----------------------------------------------------------------------------
\* How the sums change.
CreditAdds(b, c, y, q, x) ==
  BalanceSum(c, x) = BalanceSum(b, x) + (IF y = x THEN q ELSE 0)

\* A credit adds to the balances of its asset and to no other.
LEMMA Credited ==
  ASSUME NEW b, NEW c, NEW a, NEW y, NEW q, NEW x,
         b \in [Addresses \X Assets -> Int], a \in Addresses, y \in Assets, q \in Int, x \in Assets,
         c = Credit(b, a, y, q)
  PROVE  CreditAdds(b, c, y, q, x)
<1> DEFINE f == [d \in Addresses |-> b[<<d, x>>]]
           g == [d \in Addresses |-> c[<<d, x>>]]
<1>1. \A d \in Addresses : f[d] = b[<<d, x>>] /\ f[d] \in Int
  OBVIOUS
<1>2. \A d \in Addresses : g[d] = IF d = a /\ y = x THEN b[<<d, x>>] + q ELSE b[<<d, x>>]
  BY DEF Credit
<1>3. \A d \in Addresses : f[d] \in Int /\ g[d] \in Int
  BY <1>1, <1>2
<1>4. \A d \in Addresses : d # a => g[d] = f[d]
  BY <1>1, <1>2
<1>5. g[a] - f[a] = IF y = x THEN q ELSE 0
  BY <1>1, <1>2
<1> HIDE DEF f, g
<1>6. SumFunctionOnSet(g, Addresses) = SumFunctionOnSet(f, Addresses) + (g[a] - f[a])
  BY <1>3, <1>4, OffersAssumption, SumChange
<1> QED
  BY <1>5, <1>6 DEF f, g, BalanceSum, CreditAdds

\* Nothing is left or taken: the sum stays.
LEMMA LeftSame ==
  ASSUME NEW os \in Seq(OrderType), NEW ps \in Seq(OrderType), NEW x, DOMAIN ps = DOMAIN os,
         \A i \in DOMAIN os : Left(ps[i], x) = Left(os[i], x)
  PROVE  LeftSum(ps, x) = LeftSum(os, x)
<1> DEFINE f == Lefts(os, x)
           g == Lefts(ps, x)
<1>1. IsFiniteSet(DOMAIN os) /\ \A i \in DOMAIN os : f[i] \in Int /\ g[i] = f[i]
  BY LeftsType
<1> HIDE DEF f, g
<1>2. SumFunctionOnSet(g, DOMAIN os) = SumFunctionOnSet(f, DOMAIN os)
  BY <1>1, SumEqual
<1> QED
  BY <1>2 DEF f, g, LeftSum

\* One order changes: the sum changes by as much.
LEMMA LeftOne ==
  ASSUME NEW os, NEW ps, NEW x, NEW i, os \in Seq(OrderType), ps \in Seq(OrderType),
         DOMAIN ps = DOMAIN os, i \in DOMAIN os,
         \A j \in DOMAIN os \ {i} : Left(ps[j], x) = Left(os[j], x)
  PROVE  LeftSum(ps, x) = LeftSum(os, x) + (Left(ps[i], x) - Left(os[i], x))
<1>1. PICK D, f, g : D = DOMAIN os /\ f = Lefts(os, x) /\ g = Lefts(ps, x)
  OBVIOUS
<1>2. /\ IsFiniteSet(D) /\ i \in D
      /\ \A j \in D : f[j] = Left(os[j], x) /\ Left(os[j], x) \in Int
      /\ \A j \in D : g[j] = Left(ps[j], x) /\ Left(ps[j], x) \in Int
  BY <1>1, LeftsType
<1>3. IsFiniteSet(D)
  BY <1>2
<1>4. i \in D
  BY <1>2
<1>5. \A j \in D : f[j] \in Int /\ g[j] \in Int
  BY <1>2
<1>6. \A j \in D : j # i => g[j] = f[j]
  BY <1>1, <1>2
<1>7. SumFunctionOnSet(g, D) = SumFunctionOnSet(f, D) + (g[i] - f[i])
  BY ONLY <1>3, <1>4, <1>5, <1>6, SumChange
<1> QED
  BY <1>1, <1>2, <1>7 DEF LeftSum

\* Two orders change: the sum changes by as much.
LEMMA LeftTwo ==
  ASSUME NEW os, NEW ps, NEW x, NEW i, NEW h, os \in Seq(OrderType), ps \in Seq(OrderType),
         DOMAIN ps = DOMAIN os, i \in DOMAIN os, h \in DOMAIN os, i # h,
         \A j \in DOMAIN os \ {i, h} : Left(ps[j], x) = Left(os[j], x)
  PROVE  LeftSum(ps, x) = LeftSum(os, x) + (Left(ps[i], x) - Left(os[i], x))
                                         + (Left(ps[h], x) - Left(os[h], x))
<1>1. PICK D, f, g : D = DOMAIN os /\ f = Lefts(os, x) /\ g = Lefts(ps, x)
  OBVIOUS
<1>2. /\ IsFiniteSet(D) /\ i \in D /\ h \in D
      /\ \A j \in D : f[j] = Left(os[j], x) /\ Left(os[j], x) \in Int
      /\ \A j \in D : g[j] = Left(ps[j], x) /\ Left(ps[j], x) \in Int
  BY <1>1, LeftsType
<1>3. IsFiniteSet(D)
  BY <1>2
<1>4. i \in D
  BY <1>2
<1>5. h \in D
  BY <1>2
<1>6. i # h
  OBVIOUS
<1>7. \A j \in D : f[j] \in Int /\ g[j] \in Int
  BY <1>2
<1>8. \A j \in D : j # i /\ j # h => g[j] = f[j]
  BY <1>1, <1>2
<1>9. PICK u : u = [j \in D |-> IF j = i THEN g[i] ELSE f[j]]
  OBVIOUS
<1>10. /\ \A j \in D : f[j] \in Int /\ u[j] \in Int
       /\ \A j \in D : u[j] \in Int /\ g[j] \in Int
       /\ u[i] = g[i] /\ u[h] = f[h]
  BY <1>4, <1>5, <1>6, <1>7, <1>9
<1>11. \A j \in D : f[j] \in Int /\ u[j] \in Int
  BY <1>10
<1>12. \A j \in D : u[j] \in Int /\ g[j] \in Int
  BY <1>10
<1>13. \A j \in D : j # i => u[j] = f[j]
  BY <1>9
<1>14. \A j \in D : j # h => g[j] = u[j]
  BY <1>8, <1>9
<1>15. SumFunctionOnSet(u, D) = SumFunctionOnSet(f, D) + (u[i] - f[i])
  BY ONLY <1>3, <1>4, <1>11, <1>13, SumChange
<1>16. SumFunctionOnSet(g, D) = SumFunctionOnSet(u, D) + (g[h] - u[h])
  BY ONLY <1>3, <1>5, <1>12, <1>14, SumChange
<1>17. SumFunctionOnSet(f, D) \in Int
  BY <1>3, <1>7, SumType
<1> QED
  BY <1>1, <1>2, <1>7, <1>10, <1>15, <1>16, <1>17 DEF LeftSum

\* One order is opened: the sum grows by what it escrows.
LEMMA LeftMore ==
  ASSUME NEW os \in Seq(OrderType), NEW ps \in Seq(OrderType), NEW x, NEW n, n \notin DOMAIN os,
         DOMAIN ps = DOMAIN os \union {n}, \A i \in DOMAIN os : Left(ps[i], x) = Left(os[i], x)
  PROVE  LeftSum(ps, x) = LeftSum(os, x) + Left(ps[n], x)
<1> DEFINE f == Lefts(os, x)
           g == Lefts(ps, x)
<1>1. /\ IsFiniteSet(DOMAIN os)
      /\ \A j \in DOMAIN os : f[j] = Left(os[j], x) /\ Left(os[j], x) \in Int
      /\ \A j \in DOMAIN ps : g[j] = Left(ps[j], x) /\ Left(ps[j], x) \in Int
  BY LeftsType
<1> HIDE DEF f, g
<1>2. \A j \in DOMAIN os \union {n} : g[j] \in Int
  BY <1>1
<1>3. SumFunctionOnSet(g, DOMAIN os \union {n}) = SumFunctionOnSet(g, DOMAIN os) + g[n]
  BY <1>1, <1>2, SumInsert
<1>4. \A j \in DOMAIN os : f[j] \in Int /\ g[j] = f[j]
  BY <1>1
<1>5. SumFunctionOnSet(g, DOMAIN os) = SumFunctionOnSet(f, DOMAIN os)
  BY <1>1, <1>4, SumEqual
<1> QED
  BY <1>1, <1>3, <1>5 DEF f, g, LeftSum

\* No match changes: the sum stays.
LEMMA EscrowSame ==
  ASSUME NEW os, NEW ps, NEW ms \in Seq(MatchType), NEW ns \in Seq(MatchType), NEW x,
         DOMAIN ns = DOMAIN ms, \A k \in DOMAIN ms : EscrowIn(ps, ns[k], x) = EscrowIn(os, ms[k], x)
  PROVE  EscrowSum(ps, ns, x) = EscrowSum(os, ms, x)
<1> DEFINE f == Escrows(os, ms, x)
           g == Escrows(ps, ns, x)
<1>1. /\ IsFiniteSet(DOMAIN ms)
      /\ \A j \in DOMAIN ms : f[j] = EscrowIn(os, ms[j], x) /\ EscrowIn(os, ms[j], x) \in Int
      /\ \A j \in DOMAIN ms : g[j] = EscrowIn(ps, ns[j], x)
  BY EscrowsType
<1> HIDE DEF f, g
<1>2. \A j \in DOMAIN ms : f[j] \in Int /\ g[j] = f[j]
  BY <1>1
<1>3. SumFunctionOnSet(g, DOMAIN ms) = SumFunctionOnSet(f, DOMAIN ms)
  BY <1>1, <1>2, SumEqual
<1> QED
  BY <1>3 DEF f, g, EscrowSum

\* One match changes: the sum changes by as much.
LEMMA EscrowOne ==
  ASSUME NEW os, NEW ps, NEW ms, NEW ns, NEW x, NEW k,
         ms \in Seq(MatchType), ns \in Seq(MatchType), DOMAIN ns = DOMAIN ms, k \in DOMAIN ms,
         \A l \in DOMAIN ms \ {k} : EscrowIn(ps, ns[l], x) = EscrowIn(os, ms[l], x)
  PROVE  EscrowSum(ps, ns, x)
           = EscrowSum(os, ms, x) + (EscrowIn(ps, ns[k], x) - EscrowIn(os, ms[k], x))
<1>1. PICK D, f, g : D = DOMAIN ms /\ f = Escrows(os, ms, x) /\ g = Escrows(ps, ns, x)
  OBVIOUS
<1>2. /\ IsFiniteSet(D) /\ k \in D
      /\ \A j \in D : f[j] = EscrowIn(os, ms[j], x) /\ EscrowIn(os, ms[j], x) \in Int
      /\ \A j \in D : g[j] = EscrowIn(ps, ns[j], x) /\ EscrowIn(ps, ns[j], x) \in Int
  BY <1>1, EscrowsType
<1>3. IsFiniteSet(D)
  BY <1>2
<1>4. k \in D
  BY <1>2
<1>5. \A j \in D : f[j] \in Int /\ g[j] \in Int
  BY <1>2
<1>6. \A j \in D : j # k => g[j] = f[j]
  BY <1>1, <1>2
<1>7. SumFunctionOnSet(g, D) = SumFunctionOnSet(f, D) + (g[k] - f[k])
  BY ONLY <1>3, <1>4, <1>5, <1>6, SumChange
<1> QED
  BY <1>1, <1>2, <1>7 DEF EscrowSum

\* One match is made: the sum grows by what it holds.
LEMMA EscrowMore ==
  ASSUME NEW os, NEW ps, NEW ms \in Seq(MatchType), NEW ns \in Seq(MatchType), NEW x,
         NEW n, n \notin DOMAIN ms, DOMAIN ns = DOMAIN ms \union {n},
         \A k \in DOMAIN ms : EscrowIn(ps, ns[k], x) = EscrowIn(os, ms[k], x)
  PROVE  EscrowSum(ps, ns, x) = EscrowSum(os, ms, x) + EscrowIn(ps, ns[n], x)
<1> DEFINE f == Escrows(os, ms, x)
           g == Escrows(ps, ns, x)
<1>1. /\ IsFiniteSet(DOMAIN ms)
      /\ \A j \in DOMAIN ms : f[j] = EscrowIn(os, ms[j], x) /\ EscrowIn(os, ms[j], x) \in Int
      /\ \A j \in DOMAIN ns : g[j] = EscrowIn(ps, ns[j], x) /\ EscrowIn(ps, ns[j], x) \in Int
  BY EscrowsType
<1> HIDE DEF f, g
<1>2. \A j \in DOMAIN ms \union {n} : g[j] \in Int
  BY <1>1
<1>3. SumFunctionOnSet(g, DOMAIN ms \union {n}) = SumFunctionOnSet(g, DOMAIN ms) + g[n]
  BY <1>1, <1>2, SumInsert
<1>4. \A j \in DOMAIN ms : f[j] \in Int /\ g[j] = f[j]
  BY <1>1
<1>5. SumFunctionOnSet(g, DOMAIN ms) = SumFunctionOnSet(f, DOMAIN ms)
  BY <1>1, <1>4, SumEqual
<1> QED
  BY <1>1, <1>3, <1>5 DEF f, g, EscrowSum

----------------------------------------------------------------------------
\* What each action does to what is held.
Conserves(x) ==
  HeldSum(balances', orders', order_matches', x) = HeldSum(balances, orders, order_matches, x)

\* The escrow of a match that is not touched
LEMMA EscrowUntouched ==
  ASSUME TypeOK, Stays, NEW k \in MatchIds, NEW x,
         order_matches'[k].status = order_matches[k].status
  PROVE  EscrowIn(orders', order_matches'[k], x) = EscrowIn(orders, order_matches[k], x)
<1>1. /\ SameParts(order_matches[k], order_matches'[k])
      /\ SameTerms(orders[order_matches[k].tx1], orders'[order_matches[k].tx1])
  BY DEF Stays, TypeOK
<1> QED
  BY <1>1 DEF EscrowIn, SameParts, SameTerms

\* A step that writes no match leaves their escrow alone.
LEMMA EscrowsUntouched ==
  ASSUME TypeOK, TypeOK', Stays, UNCHANGED order_matches, NEW x
  PROVE  EscrowSum(orders', order_matches', x) = EscrowSum(orders, order_matches, x)
<1>1. \A k \in MatchIds : EscrowIn(orders', order_matches'[k], x) = EscrowIn(orders, order_matches[k], x)
  BY EscrowUntouched
<1>2. order_matches \in Seq(MatchType) /\ order_matches' \in Seq(MatchType)
      /\ DOMAIN order_matches' = DOMAIN order_matches
  BY DEF TypeOK
<1> QED
  BY <1>1, <1>2, EscrowSame DEF MatchIds

\* order.parse
LEMMA OrderConserves ==
  ASSUME TypeOK, TypeOK', Stays, NEW offer \in Offers, Order(offer), NEW x \in Assets
  PROVE  Conserves(x)
<1>1. PICK o, n : o = Affordable(offer) /\ n = Len(orders) + 1
  OBVIOUS
<1>2. /\ o \in Offer /\ n \notin OrderIds /\ OrderIds' = OrderIds \union {n}
      /\ Kept(OrderIds) /\ orders'[n] = OrderRow(o)
      /\ balances' = IF o.give_asset = BTC THEN balances
                     ELSE Credit(balances, o.source, o.give_asset, -o.give_quantity)
  BY <1>1, OrderRows
<1>0. /\ o.source \in Addresses /\ o.give_asset \in Assets \union {BTC}
      /\ o.give_quantity \in Int /\ -o.give_quantity \in Int
  BY <1>2 DEF Offer
<1>00. /\ BalanceSum(balances, x) \in Int /\ LeftSum(orders, x) \in Int
      /\ EscrowSum(orders, order_matches, x) \in Int
      /\ balances \in [Addresses \X Assets -> Int]
  BY SumsType DEF TypeOK
<1>3. UNCHANGED order_matches
  BY DEF Order
<1>4. EscrowSum(orders', order_matches', x) = EscrowSum(orders, order_matches, x)
  BY <1>3, EscrowsUntouched
<1>5. LeftSum(orders', x) = LeftSum(orders, x) + Left(orders'[n], x)
  <2>1. orders \in Seq(OrderType) /\ orders' \in Seq(OrderType) /\ n \notin DOMAIN orders
        /\ DOMAIN orders' = DOMAIN orders \union {n}
        /\ \A i \in DOMAIN orders : Left(orders'[i], x) = Left(orders[i], x)
    BY <1>2 DEF TypeOK, OrderIds, Kept
  <2> QED BY <2>1, LeftMore
<1>6. Left(orders'[n], x) = IF o.give_asset = x THEN o.give_quantity ELSE 0
  BY <1>2 DEF OrderRow, Left
<1>7. BalanceSum(balances', x) = BalanceSum(balances, x) + (IF o.give_asset = x THEN -o.give_quantity ELSE 0)
  <2>0. /\ balances \in [Addresses \X Assets -> Int] /\ BalanceSum(balances, x) \in Int
        /\ o.source \in Addresses /\ o.give_asset \in Assets \union {BTC}
        /\ o.give_quantity \in Int /\ -o.give_quantity \in Int
    BY <1>0, <1>00
  <2>1. CASE o.give_asset = BTC
    BY <1>2, <2>0, <2>1, OffersAssumption
  <2>2. CASE o.give_asset # BTC
    <3>1. o.give_asset \in Assets /\ -o.give_quantity \in Int /\ o.source \in Addresses
          /\ balances \in [Addresses \X Assets -> Int]
      BY <2>0, <2>2
    <3>2. balances' = Credit(balances, o.source, o.give_asset, -o.give_quantity)
      BY <1>2, <2>2
    <3>3. CreditAdds(balances, balances', o.give_asset, -o.give_quantity, x)
      BY ONLY <3>1, <3>2, x \in Assets, Credited
    <3> QED BY <3>3 DEF CreditAdds
  <2> QED BY <2>1, <2>2
<1> QED
  BY <1>0, <1>00, <1>4, <1>5, <1>6, <1>7 DEF Conserves, HeldSum

\* An order that is open is closed, and what is left of it is returned.
LEMMA CloseConserves ==
  ASSUME TypeOK, TypeOK', Stays, NEW i \in OrderIds, orders[i].status = "open",
         NEW status \in {"cancelled", "expired"}, OrderIds' = OrderIds, Kept(OrderIds \ {i}),
         Marked(orders[i], orders'[i], status), balances' = Returned(i),
         UNCHANGED order_matches, NEW x \in Assets
  PROVE  Conserves(x)
<1>1. EscrowSum(orders', order_matches', x) = EscrowSum(orders, order_matches, x)
  BY EscrowsUntouched
<1>2. LeftSum(orders', x) = LeftSum(orders, x) + (Left(orders'[i], x) - Left(orders[i], x))
  <2>1. orders \in Seq(OrderType) /\ orders' \in Seq(OrderType) /\ i \in DOMAIN orders
        /\ DOMAIN orders' = DOMAIN orders
        /\ \A j \in DOMAIN orders \ {i} : Left(orders'[j], x) = Left(orders[j], x)
    BY DEF TypeOK, OrderIds, Kept
  <2> QED BY <2>1, LeftOne
<1>3. orders[i] \in OrderType
  BY Rows
<1>4. /\ Left(orders[i], x) = IF orders[i].give_asset = x THEN orders[i].give_remaining ELSE 0
      /\ Left(orders'[i], x) = 0
  BY DEF Left, Marked
<1>5. BalanceSum(balances', x)
        = BalanceSum(balances, x) + (IF orders[i].give_asset = x THEN orders[i].give_remaining ELSE 0)
  <2>0. /\ balances \in [Addresses \X Assets -> Int] /\ BalanceSum(balances, x) \in Int
        /\ orders[i].source \in Addresses /\ orders[i].give_asset \in Assets \union {BTC}
        /\ orders[i].give_remaining \in Int
    BY <1>3, SumsType DEF TypeOK, OrderType
  <2>1. CASE orders[i].give_asset = BTC
    BY <2>0, <2>1, OffersAssumption DEF Returned
  <2>2. CASE orders[i].give_asset # BTC
    <3>1. balances' = Credit(balances, orders[i].source, orders[i].give_asset, orders[i].give_remaining)
          /\ orders[i].give_asset \in Assets
      BY <2>0, <2>2 DEF Returned
    <3>2. CreditAdds(balances, balances', orders[i].give_asset, orders[i].give_remaining, x)
      BY <2>0, <3>1, Credited
    <3> QED BY <3>2 DEF CreditAdds
  <2> QED BY <2>1, <2>2
<1>6. /\ BalanceSum(balances, x) \in Int /\ LeftSum(orders, x) \in Int
      /\ EscrowSum(orders, order_matches, x) \in Int /\ orders[i].give_remaining \in Int
  BY <1>3, SumsType DEF TypeOK, OrderType
<1> QED
  BY <1>1, <1>2, <1>4, <1>5, <1>6 DEF Conserves, HeldSum

\* btcpay.parse: the escrow of the match goes to whoever paid.
LEMMA PayConserves ==
  ASSUME TypeOK, TypeOK', Stays, BTCIsOneSide, MatchesAreOpposite, NEW k \in MatchIds,
         NEW source \in Addresses, NEW destination \in Addresses,
         BTCPay(k, source, destination), ~Revives, NEW x \in Assets
  PROVE  Conserves(x)
<1>1. /\ OrderIds' = OrderIds
      /\ \A i \in OrderIds :
           \/ orders'[i] = orders[i]
           \/ /\ i \in {order_matches[k].tx0, order_matches[k].tx1}
              /\ Marked(orders[i], orders'[i], "filled")
      /\ Pending(k) /\ Closes(k, "completed")
  BY BTCPayRows
<1>2. PICK m, tx0, tx1 : m = order_matches[k] /\ tx0 = orders[m.tx0] /\ tx1 = orders[m.tx1]
  OBVIOUS
<1>3. /\ m.tx0 \in OrderIds /\ m.tx1 \in OrderIds /\ m.tx0 # m.tx1
      /\ m.forward_quantity \in Int /\ m.backward_quantity \in Int
      /\ tx0 \in OrderType /\ tx1 \in OrderType
      /\ tx0.give_asset = tx1.get_asset /\ tx0.get_asset = tx1.give_asset
      /\ BTC \in {tx1.give_asset, tx1.get_asset} /\ tx1.give_asset # tx1.get_asset
  <2>1. m \in MatchType /\ m.tx0 \in OrderIds /\ m.tx1 \in OrderIds /\ m.tx0 # m.tx1
        /\ tx0 \in OrderType /\ tx1 \in OrderType
    BY <1>2, Rows DEF TypeOK
  <2>2. /\ Opposite(tx0, tx1) /\ InvolvesBTC(tx1)
        /\ tx1.give_asset # tx1.get_asset
    BY <1>1, <1>2, <2>1 DEF MatchesAreOpposite, BTCIsOneSide
  <2>3. m.forward_quantity \in Int /\ m.backward_quantity \in Int
    BY <2>1 DEF MatchType
  <2> QED BY <2>1, <2>2, <2>3 DEF Opposite, InvolvesBTC
<1>4. LeftSum(orders', x) = LeftSum(orders, x)
  <2>1. ASSUME NEW i \in OrderIds
        PROVE  Left(orders'[i], x) = Left(orders[i], x)
    <3>1. CASE orders'[i] = orders[i]
      BY <3>1
    <3>2. CASE i \in {m.tx0, m.tx1} /\ Marked(orders[i], orders'[i], "filled")
      <4>1. BTC \in {orders[i].give_asset, orders[i].get_asset} /\ x # BTC
        BY <1>2, <1>3, <3>2, OffersAssumption
      <4>2. orders[i].status \in {"open", "filled"} /\ orders[i].give_remaining \in Int
        BY <3>2, Rows DEF Revives, IsDead, OrderType, Marked, Statuses
      <4>3. /\ orders'[i].give_asset = orders[i].give_asset /\ orders'[i].get_asset = orders[i].get_asset
            /\ orders'[i].give_remaining = orders[i].give_remaining /\ orders'[i].status = "filled"
        BY <3>2, <4>2 DEF Marked, Moved, SameTerms
      <4> QED BY <4>1, <4>2, <4>3 DEF Left
    <3> QED BY <1>1, <1>2, <3>1, <3>2
  <2>2. orders \in Seq(OrderType) /\ orders' \in Seq(OrderType) /\ DOMAIN orders' = DOMAIN orders
        /\ \A i \in DOMAIN orders : Left(orders'[i], x) = Left(orders[i], x)
    BY <1>1, <2>1 DEF TypeOK, OrderIds
  <2> QED BY <2>2, LeftSame
<1>5. EscrowSum(orders', order_matches', x) = EscrowSum(orders, order_matches, x)
        + (EscrowIn(orders', order_matches'[k], x) - EscrowIn(orders, m, x))
  <2>1. /\ order_matches \in Seq(MatchType) /\ order_matches' \in Seq(MatchType)
        /\ DOMAIN order_matches' = DOMAIN order_matches /\ k \in DOMAIN order_matches
        /\ \A l \in DOMAIN order_matches \ {k} :
             EscrowIn(orders', order_matches'[l], x) = EscrowIn(orders, order_matches[l], x)
    BY <1>1, EscrowUntouched DEF TypeOK, Closes, MatchIds
  <2> QED BY <1>2, <2>1, EscrowOne
<1>6. /\ EscrowIn(orders', order_matches'[k], x) = 0
      /\ EscrowIn(orders, m, x) = (IF tx1.get_asset = x THEN m.forward_quantity ELSE 0)
                                   + (IF tx1.give_asset = x THEN m.backward_quantity ELSE 0)
  BY <1>1, <1>2 DEF EscrowIn, Closes, Pending
<1>7. x # BTC
  BY OffersAssumption
<1>8. /\ BalanceSum(balances, x) \in Int /\ LeftSum(orders, x) \in Int
      /\ EscrowSum(orders, order_matches, x) \in Int
  BY SumsType DEF TypeOK
<1>9. balances \in [Addresses \X Assets -> Int]
  BY DEF TypeOK
<1>10. CASE tx1.get_asset = BTC
  <2>1. balances' = Credit(balances, source, tx1.give_asset, m.backward_quantity)
    BY <1>2, <1>10 DEF BTCPay, ForwardAsset
  <2>2. tx1.give_asset \in Assets
    BY <1>3, <1>10 DEF OrderType
  <2>3. BalanceSum(balances', x)
          = BalanceSum(balances, x) + (IF tx1.give_asset = x THEN m.backward_quantity ELSE 0)
    <3>1. CreditAdds(balances, balances', tx1.give_asset, m.backward_quantity, x)
      BY <1>3, <1>9, <2>1, <2>2, Credited
    <3> QED BY <3>1 DEF CreditAdds
  <2> QED
    BY <1>3, <1>4, <1>5, <1>6, <1>7, <1>8, <1>10, <2>3 DEF Conserves, HeldSum
<1>11. CASE tx1.get_asset # BTC
  <2>1. balances' = Credit(balances, source, tx0.give_asset, m.forward_quantity)
    BY <1>2, <1>3, <1>11 DEF BTCPay, ForwardAsset
  <2>2. tx0.give_asset \in Assets /\ tx0.give_asset = tx1.get_asset /\ tx1.give_asset = BTC
    BY <1>3, <1>11 DEF OrderType
  <2>3. BalanceSum(balances', x)
          = BalanceSum(balances, x) + (IF tx0.give_asset = x THEN m.forward_quantity ELSE 0)
    <3>1. tx0.give_asset \in Assets /\ m.forward_quantity \in Int
      BY <1>3, <2>2
    <3>2. CreditAdds(balances, balances', tx0.give_asset, m.forward_quantity, x)
      BY ONLY <1>9, <2>1, <3>1, x \in Assets, source \in Addresses, Credited
    <3> QED BY <3>2 DEF CreditAdds
  <2> QED
    BY <1>3, <1>4, <1>5, <1>6, <1>7, <1>8, <1>11, <2>2, <2>3 DEF Conserves, HeldSum
<1> QED
  BY <1>10, <1>11

\* match(): what a trade takes from an order, and what it returns of one it fills
Back(o, given, got, x) ==
  IF Filled(o, given, got) /\ o.give_asset = x THEN o.give_remaining - given ELSE 0
Given(o, given, x) == IF o.give_asset = x THEN given ELSE 0
Recredits(b, c, o, given, got, x) == BalanceSum(c, x) = BalanceSum(b, x) + Back(o, given, got, x)

\* What a filled order has left goes back to its source.
LEMMA Recredited ==
  ASSUME NEW b, NEW c, NEW o, NEW after, NEW g, NEW t, NEW p, NEW r, NEW fee, NEW x,
         b \in [Addresses \X Assets -> Int], o \in OrderType, g \in Int, t \in Int, fee \in Int,
         p \in BOOLEAN, r \in BOOLEAN, x \in Assets,
         after = Traded(o, g, t, p, r, fee), c = Recredit(b, after)
  PROVE  Recredits(b, c, o, g, t, x)
<1> DEFINE give == o.give_remaining - g
           get == o.get_remaining - t
           provided == IF p THEN o.fee_provided_remaining - fee ELSE o.fee_provided_remaining
           required == IF r THEN o.fee_required_remaining - fee ELSE o.fee_required_remaining
           row == [o EXCEPT !.give_remaining = give, !.get_remaining = get,
                            !.fee_provided_remaining = provided,
                            !.fee_required_remaining = required, !.block_index = block]
<1>1. give \in Int /\ get \in Int
  BY DEF OrderType
<1>2. after = row
  BY DEF Traded
<1> HIDE DEF provided, required, give, get
<1>3. /\ row.source = o.source /\ row.give_asset = o.give_asset
      /\ row.give_remaining = give /\ row.get_remaining = get
      /\ InvolvesBTC(row) = InvolvesBTC(o)
  BY DEF OrderType, InvolvesBTC
<1> HIDE DEF row
<1>4. IsFilled(after) <=> Filled(o, g, t)
  BY <1>2, <1>3 DEF IsFilled, Filled, give, get
<1>5. BalanceSum(b, x) \in Int
  <2> DEFINE f == [a \in Addresses |-> b[<<a, x>>]]
  <2>1. \A a \in Addresses : f[a] \in Int
    OBVIOUS
  <2> HIDE DEF f
  <2>2. SumFunctionOnSet(f, Addresses) \in Int
    BY <2>1, OffersAssumption, SumType
  <2> QED BY <2>2 DEF f, BalanceSum
<1>6. CASE Filled(o, g, t)
  <2>1. c = Credit(b, o.source, o.give_asset, give)
    BY <1>2, <1>3, <1>4, <1>6 DEF Recredit
  <2>2. o.source \in Addresses /\ o.give_asset \in Assets
    BY <1>6 DEF Filled, InvolvesBTC, OrderType
  <2>3. CreditAdds(b, c, o.give_asset, give, x)
    BY <1>1, <2>1, <2>2, Credited
  <2> QED BY <1>6, <2>3 DEF CreditAdds, Recredits, Back, give
<1>7. CASE ~Filled(o, g, t)
  BY <1>4, <1>5, <1>7 DEF Recredit, Recredits, Back
<1> QED BY <1>6, <1>7

GivesLeft(o, p, g, t, x) ==
  /\ Left(p, x) \in Int /\ Back(o, g, t, x) \in Int /\ Left(o, x) \in Int
  /\ Left(p, x) + Back(o, g, t, x) = Left(o, x) - Given(o, g, x)

\* A trade takes from an order what it gives, and what is returned if that fills it.
LEMMA TradedLeft ==
  ASSUME NEW o, NEW p, NEW g, NEW t, NEW v, NEW r, NEW x, o \in OrderType, g \in Int, t \in Int,
         o.status = "open", Moved(o, p, g, t, v, r), p.status = StatusAfter(o, g, t)
  PROVE  GivesLeft(o, p, g, t, x)
<1>1. /\ o.give_remaining \in Int /\ p.give_remaining = o.give_remaining - g
      /\ p.give_asset = o.give_asset /\ p.get_asset = o.get_asset
  BY DEF OrderType, Moved, SameTerms
<1>2. CASE Filled(o, g, t)
  <2>1. p.status = "filled" /\ o.get_asset # BTC
    BY <1>2 DEF StatusAfter, Filled, InvolvesBTC
  <2> QED BY <1>1, <1>2, <2>1 DEF GivesLeft, Left, Back, Given
<1>3. CASE ~Filled(o, g, t)
  <2>1. p.status = "open"
    BY <1>3 DEF StatusAfter
  <2> QED BY <1>1, <1>3, <2>1 DEF GivesLeft, Left, Back, Given
<1> QED BY <1>2, <1>3

\* What the balances of a trade add up to
TradePays(i, f, b, x) ==
  BalanceSum(balances', x) = BalanceSum(balances, x)
    + (IF InvolvesBTC(orders[matching]) THEN 0
       ELSE Given(orders[i], f, x) + Given(orders[matching], b, x))
    + Back(orders[i], f, b, x) + Back(orders[matching], b, f, x)

\* What a trade credits, and what it returns of the orders it fills.
LEMMA TradeBalances ==
  ASSUME TypeOK, NEW i \in OrderIds, matching \in OrderIds, MatchNext(i),
         Opposite(orders[i], orders[matching]),
         NEW f, f = Forward(orders[i], orders[matching]),
         NEW b, b = Backward(orders[i], orders[matching]),
         NEW x \in Assets
  PROVE  TradePays(i, f, b, x)
<1>1. PICK tx0, tx1, fee, p, r : /\ tx0 = orders[i] /\ tx1 = orders[matching] /\ fee = Fee(tx0, tx1)
                                 /\ p = (tx1.give_asset = BTC) /\ r = (tx1.get_asset = BTC)
  OBVIOUS
<1>2. /\ tx0 \in OrderType /\ tx1 \in OrderType /\ f \in Int /\ b \in Int /\ fee \in Int
      /\ p \in BOOLEAN /\ r \in BOOLEAN
  BY <1>1, Rows, TradeTypes
<1>3. PICK after0, after1, paid :
        /\ after0 = Traded(tx0, f, b, r, p, fee) /\ after1 = Traded(tx1, b, f, p, r, fee)
        /\ paid = IF InvolvesBTC(tx1) THEN balances
                  ELSE Credit(Credit(balances, tx1.source, tx1.get_asset, f),
                              tx0.source, tx0.get_asset, b)
  OBVIOUS
<1>4. balances' = Recredit(Recredit(paid, after0), after1)
  <2>1. Trade(i)
    BY DEF MatchNext
  <2> QED BY <1>1, <1>3, <2>1 DEF Trade
<1>5. balances \in [Addresses \X Assets -> Int] /\ BalanceSum(balances, x) \in Int
  BY SumsType DEF TypeOK
<1>6. /\ paid \in [Addresses \X Assets -> Int]
      /\ BalanceSum(paid, x) = BalanceSum(balances, x)
           + (IF InvolvesBTC(tx1) THEN 0 ELSE Given(tx0, f, x) + Given(tx1, b, x))
  <2>1. CASE InvolvesBTC(tx1)
    BY <1>3, <1>5, <2>1
  <2>2. CASE ~InvolvesBTC(tx1)
    <3>1. PICK c : c = Credit(balances, tx1.source, tx1.get_asset, f)
      OBVIOUS
    <3>2. paid = Credit(c, tx0.source, tx0.get_asset, b)
      BY <1>3, <2>2, <3>1
    <3>3. /\ tx1.source \in Addresses /\ tx1.get_asset \in Assets
          /\ tx0.source \in Addresses /\ tx0.get_asset \in Assets
          /\ tx1.get_asset = tx0.give_asset /\ tx0.get_asset = tx1.give_asset
      BY <1>1, <1>2, <2>2 DEF OrderType, Opposite, InvolvesBTC
    <3>4. c \in [Addresses \X Assets -> Int] /\ paid \in [Addresses \X Assets -> Int]
      BY <1>2, <1>5, <3>1, <3>2, CreditType
    <3>5. CreditAdds(balances, c, tx1.get_asset, f, x)
      BY <1>2, <1>5, <3>1, <3>3, Credited
    <3>6. CreditAdds(c, paid, tx0.get_asset, b, x)
      BY <1>2, <3>2, <3>3, <3>4, Credited
    <3> QED
      BY <1>2, <1>5, <2>2, <3>3, <3>4, <3>5, <3>6 DEF CreditAdds, Given
  <2> QED BY <2>1, <2>2
<1>7. PICK c : c = Recredit(paid, after0)
  OBVIOUS
<1>8. after0 \in OrderType /\ after1 \in OrderType
  BY <1>2, <1>3, TradedType DEF TypeOK
<1>9. c \in [Addresses \X Assets -> Int]
  BY <1>6, <1>7, <1>8, RecreditType
<1>10. Recredits(paid, c, tx0, f, b, x)
  BY <1>2, <1>3, <1>6, <1>7, Recredited
<1>11. Recredits(c, balances', tx1, b, f, x)
  BY <1>2, <1>3, <1>4, <1>7, <1>9, Recredited
<1>12. /\ Back(tx0, f, b, x) \in Int /\ Back(tx1, b, f, x) \in Int
       /\ Given(tx0, f, x) \in Int /\ Given(tx1, b, x) \in Int
  BY <1>2 DEF Back, Given, OrderType
<1> QED
  BY <1>1, <1>5, <1>6, <1>10, <1>11, <1>12 DEF Recredits, TradePays

\* What leaves the two orders of a trade is in the match, or in balances.
LEMMA TradeConserves ==
  ASSUME IInv, TypeOK', LoopsInv, Stays, NEW i \in candidates, MatchNext(i), NEW x \in Assets
  PROVE  Conserves(x)
<1>1. TypeOK /\ matching # None /\ Opposite(orders[i], orders[matching])
      /\ orders[i].status = "open" /\ orders[matching].status = "open"
  BY DEF IInv, MatchNext, LoopsInv
<1>2. PICK f, b, fee, n : /\ f = Forward(orders[i], orders[matching])
                          /\ b = Backward(orders[i], orders[matching])
                          /\ fee = Fee(orders[i], orders[matching])
                          /\ n = Len(order_matches) + 1
  OBVIOUS
<1>3. /\ matching \in OrderIds /\ i \in OrderIds /\ i # matching
      /\ f \in Nat \ {0} /\ b \in Nat \ {0} /\ fee \in Int
      /\ OrderIds' = OrderIds /\ Kept(OrderIds \ {i, matching})
      /\ TradesRow(i, orders'[i], f, b, fee)
      /\ TradesRow(matching, orders'[matching], b, f, fee)
      /\ n \notin MatchIds /\ MatchIds' = MatchIds \union {n}
      /\ \A l \in MatchIds : order_matches'[l] = order_matches[l]
      /\ MadeMatch(order_matches'[n], i, f, b)
  BY <1>1, <1>2, TradeBooks
<1>4. PICK tx0, tx1 : tx0 = orders[i] /\ tx1 = orders[matching]
  OBVIOUS
<1>5. tx0 \in OrderType /\ tx1 \in OrderType /\ f \in Int /\ b \in Int
  BY <1>1, <1>3, <1>4, Rows
<1>6. LeftSum(orders', x) = LeftSum(orders, x) + (Left(orders'[i], x) - Left(tx0, x))
                                               + (Left(orders'[matching], x) - Left(tx1, x))
  <2>1. /\ orders \in Seq(OrderType) /\ orders' \in Seq(OrderType) /\ DOMAIN orders' = DOMAIN orders
        /\ i \in DOMAIN orders /\ matching \in DOMAIN orders /\ i # matching
        /\ \A j \in DOMAIN orders \ {i, matching} : Left(orders'[j], x) = Left(orders[j], x)
    BY <1>1, <1>3 DEF TypeOK, OrderIds, Kept
  <2> QED BY <1>4, <2>1, LeftTwo
<1>7. /\ Left(orders'[i], x) \in Int /\ Back(tx0, f, b, x) \in Int /\ Left(tx0, x) \in Int
      /\ Left(orders'[i], x) + Back(tx0, f, b, x) = Left(tx0, x) - Given(tx0, f, x)
  <2>1. PICK v, r : Moved(tx0, orders'[i], f, b, v, r) /\ orders'[i].status = StatusAfter(tx0, f, b)
    BY <1>3, <1>4 DEF TradesRow
  <2>2. GivesLeft(tx0, orders'[i], f, b, x)
    BY <1>1, <1>4, <1>5, <2>1, TradedLeft
  <2> QED BY <2>2 DEF GivesLeft
<1>8. /\ Left(orders'[matching], x) \in Int /\ Back(tx1, b, f, x) \in Int /\ Left(tx1, x) \in Int
      /\ Left(orders'[matching], x) + Back(tx1, b, f, x) = Left(tx1, x) - Given(tx1, b, x)
  <2>1. PICK p, v, r : p = orders'[matching] /\ Moved(tx1, p, b, f, v, r) /\ p.status = StatusAfter(tx1, b, f)
    BY <1>3, <1>4 DEF TradesRow
  <2>2. tx1.status = "open"
    BY <1>1, <1>4
  <2>3. GivesLeft(tx1, p, b, f, x)
    BY ONLY <1>5, <2>1, <2>2, TradedLeft
  <2> QED BY <2>1, <2>3 DEF GivesLeft
<1>9. EscrowSum(orders', order_matches', x)
        = EscrowSum(orders, order_matches, x) + EscrowIn(orders', order_matches'[n], x)
  <2>1. /\ order_matches \in Seq(MatchType) /\ order_matches' \in Seq(MatchType)
        /\ n \notin DOMAIN order_matches /\ DOMAIN order_matches' = DOMAIN order_matches \union {n}
        /\ \A k \in DOMAIN order_matches :
             EscrowIn(orders', order_matches'[k], x) = EscrowIn(orders, order_matches[k], x)
    BY <1>1, <1>3, EscrowUntouched DEF TypeOK, MatchIds
  <2> QED BY <2>1, EscrowMore
<1>10. EscrowIn(orders', order_matches'[n], x)
         = IF InvolvesBTC(tx1) THEN Given(tx0, f, x) + Given(tx1, b, x) ELSE 0
  <2>1. orders'[matching].get_asset = tx0.give_asset /\ orders'[matching].give_asset = tx1.give_asset
    BY <1>1, <1>3, <1>4 DEF Stays, SameTerms, Opposite
  <2> QED BY <1>3, <1>4, <2>1 DEF EscrowIn, MadeMatch, Given
<1>11. TradePays(i, f, b, x)
  BY <1>1, <1>2, <1>3, TradeBalances
<1>12. /\ BalanceSum(balances, x) \in Int /\ LeftSum(orders, x) \in Int
       /\ EscrowSum(orders, order_matches, x) \in Int
       /\ Given(tx0, f, x) \in Int /\ Given(tx1, b, x) \in Int
  <2>1. /\ BalanceSum(balances, x) \in Int /\ LeftSum(orders, x) \in Int
        /\ EscrowSum(orders, order_matches, x) \in Int
    BY <1>1, SumsType DEF TypeOK
  <2> QED BY <1>5, <2>1 DEF Given
<1>13. BalanceSum(balances', x) = BalanceSum(balances, x)
         + (IF InvolvesBTC(tx1) THEN 0 ELSE Given(tx0, f, x) + Given(tx1, b, x))
         + Back(tx0, f, b, x) + Back(tx1, b, f, x)
  BY <1>4, <1>11 DEF TradePays
<1>14. PICK gave \in Int : gave = Given(tx0, f, x) + Given(tx1, b, x)
  BY <1>12
<1>15. PICK back \in Int : back = Back(tx0, f, b, x) + Back(tx1, b, f, x)
  BY <1>7, <1>8
<1>16. LeftSum(orders', x) = LeftSum(orders, x) - back - gave
  BY <1>6, <1>7, <1>8, <1>12, <1>14, <1>15
<1>17. \/ BalanceSum(balances', x) = BalanceSum(balances, x) + back
          /\ EscrowSum(orders', order_matches', x) = EscrowSum(orders, order_matches, x) + gave
       \/ BalanceSum(balances', x) = BalanceSum(balances, x) + gave + back
          /\ EscrowSum(orders', order_matches', x) = EscrowSum(orders, order_matches, x)
  <2>1. CASE InvolvesBTC(tx1)
    BY <1>7, <1>8, <1>9, <1>10, <1>12, <1>13, <1>14, <1>15, <2>1
  <2>2. CASE ~InvolvesBTC(tx1)
    BY <1>7, <1>8, <1>9, <1>10, <1>12, <1>13, <1>14, <1>15, <2>2
  <2> QED BY <2>1, <2>2
<1> QED
  BY <1>12, <1>16, <1>17 DEF Conserves, HeldSum

\* cancel_order_match: what a match of BTC held for an order goes back to the order,
\* or to its address if the order is dead.
Refund(m, i, x) ==
  IF IsDead(orders[i]) /\ orders[i].give_asset = x THEN Gave(m, i) ELSE 0
Refunds(b, c, m, i, x) == BalanceSum(c, x) = BalanceSum(b, x) + Refund(m, i, x)

\* A dead order's part of an expired match goes to its address.
LEMMA RefundedSum ==
  ASSUME TypeOK, NEW b, NEW c, NEW m, NEW i, NEW x,
         b \in [Addresses \X Assets -> Int], m \in MatchType, i \in OrderIds, x \in Assets,
         c = Refunded(b, m, i)
  PROVE  Refunds(b, c, m, i, x)
<1>1. /\ orders[i].source \in Addresses /\ orders[i].give_asset \in Assets \union {BTC}
      /\ Gave(m, i) \in Int
  BY Rows DEF OrderType, Gave, MatchType
<1>2. BalanceSum(b, x) \in Int
  <2> DEFINE f == [a \in Addresses |-> b[<<a, x>>]]
  <2>1. \A a \in Addresses : f[a] \in Int
    OBVIOUS
  <2> HIDE DEF f
  <2>2. SumFunctionOnSet(f, Addresses) \in Int
    BY <2>1, OffersAssumption, SumType
  <2> QED BY <2>2 DEF f, BalanceSum
<1>3. CASE IsDead(orders[i]) /\ orders[i].give_asset # BTC
  <2>1. c = Credit(b, orders[i].source, orders[i].give_asset, Gave(m, i))
    BY <1>3 DEF Refunded
  <2>2. CreditAdds(b, c, orders[i].give_asset, Gave(m, i), x)
    BY <1>1, <1>3, <2>1, Credited
  <2> QED BY <1>3, <2>2 DEF CreditAdds, Refunds, Refund
<1>4. CASE ~(IsDead(orders[i]) /\ orders[i].give_asset # BTC)
  <2>1. Refund(m, i, x) = 0 /\ c = b
    BY <1>4, OffersAssumption DEF Refund, Refunded
  <2> QED BY <1>2, <2>1 DEF Refunds
<1> QED BY <1>3, <1>4

\* An order of the match, and one that is not of it
GetsBack(m, i, p, x) ==
  /\ Left(p, x) \in Int /\ Left(orders[i], x) \in Int /\ Refund(m, i, x) \in Int
  /\ Left(p, x) + Refund(m, i, x) = Left(orders[i], x) + Given(orders[i], Gave(m, i), x)

\* An order of an expired match gets its part back, or its address does.
LEMMA GivenBackLeft ==
  ASSUME TypeOK, NEW m \in MatchType, NEW i \in OrderIds, InvolvesBTC(orders[i]), NEW p, NEW x \in Assets,
         IF ~IsDead(orders[i]) THEN GivenBack(m, i, p) ELSE LeftAlone(i, p)
  PROVE  GetsBack(m, i, p, x)
<1>1. PICK o, g : o = orders[i] /\ g = Gave(m, i)
  OBVIOUS
<1>2. /\ o.give_remaining \in Int /\ g \in Int /\ o.status \in Statuses /\ x # BTC
      /\ BTC \in {o.give_asset, o.get_asset}
  BY <1>1, Rows, OffersAssumption DEF OrderType, Gave, MatchType, InvolvesBTC
<1>3. CASE IsDead(o)
  <2>1. /\ p.give_asset = o.give_asset /\ p.status = o.status
    BY <1>1, <1>3 DEF LeftAlone, Moved, SameTerms, IsDead
  <2> QED
    BY <1>1, <1>2, <1>3, <2>1 DEF GetsBack, Left, Refund, Given, IsDead
<1>4. CASE ~IsDead(o)
  <2>1. /\ p.give_asset = o.give_asset /\ p.get_asset = o.get_asset
        /\ p.give_remaining = o.give_remaining + g
        /\ o.give_asset # BTC => p.status = "open"
        /\ o.status \in {"open", "filled"}
    BY <1>1, <1>2, <1>4 DEF GivenBack, Moved, SameTerms, IsDead, Statuses, Reopened
  <2> QED
    BY <1>1, <1>2, <1>4, <2>1 DEF GetsBack, Left, Refund, Given
<1> QED BY <1>3, <1>4

\* An order that is not of the match has as much left of what can be held as before.
LEMMA LeftAloneLeft ==
  ASSUME TypeOK, NEW i \in OrderIds, NEW p, LeftAlone(i, p), NEW x \in Assets
  PROVE  Left(p, x) = Left(orders[i], x)
<1>1. /\ orders[i].give_remaining \in Int /\ x # BTC
  BY Rows, OffersAssumption DEF OrderType
<1>2. /\ p.give_asset = orders[i].give_asset /\ p.get_asset = orders[i].get_asset
      /\ p.give_remaining = orders[i].give_remaining
      /\ orders[i].give_asset # BTC => p.status = orders[i].status
  BY <1>1 DEF LeftAlone, Moved, SameTerms
<1> QED BY <1>1, <1>2 DEF Left

\* What an expired match held is back in its orders, or in balances.
LEMMA ExpireMatchConserves ==
  ASSUME IInv, TypeOK', Stays, BTCIsOneSide, MatchesAreOpposite, NEW k \in expiring,
         ExpireOrderMatch(k), NEW x \in Assets
  PROVE  Conserves(x)
<1>1. PICK m : m = order_matches[k]
  OBVIOUS
<1>2. /\ k \in MatchIds /\ m \in MatchType /\ m.status = "pending"
      /\ m.tx0 \in OrderIds /\ m.tx1 \in OrderIds
      /\ OrderIds' = OrderIds
      /\ \A i \in OrderIds : IF i \in {m.tx0, m.tx1} /\ ~IsDead(orders[i])
                             THEN GivenBack(m, i, orders'[i]) ELSE LeftAlone(i, orders'[i])
      /\ Closes(k, "expired")
      /\ balances' = Refunded(Refunded(balances, m, m.tx0), m, m.tx1)
  BY <1>1, ExpireOrderMatchRows
<1>3. TypeOK /\ m.tx0 # m.tx1
  BY <1>1, <1>2 DEF IInv, TypeOK
<1>4. PICK i, j : i = m.tx0 /\ j = m.tx1
  OBVIOUS
<1>5. /\ i \in OrderIds /\ j \in OrderIds /\ i # j
      /\ Opposite(orders[i], orders[j]) /\ InvolvesBTC(orders[i]) /\ InvolvesBTC(orders[j])
  <2>1. Opposite(orders[i], orders[j]) /\ InvolvesBTC(orders[j])
    BY <1>1, <1>2, <1>4 DEF MatchesAreOpposite, Pending
  <2> QED BY <1>2, <1>3, <1>4, <2>1 DEF Opposite, InvolvesBTC
<1>6. /\ GetsBack(m, i, orders'[i], x) /\ GetsBack(m, j, orders'[j], x)
  <2>1. IF ~IsDead(orders[i]) THEN GivenBack(m, i, orders'[i]) ELSE LeftAlone(i, orders'[i])
    BY <1>2, <1>4
  <2>2. IF ~IsDead(orders[j]) THEN GivenBack(m, j, orders'[j]) ELSE LeftAlone(j, orders'[j])
    BY <1>2, <1>4
  <2> QED
    BY <1>2, <1>3, <1>5, <2>1, <2>2, GivenBackLeft
<1>7. LeftSum(orders', x) = LeftSum(orders, x) + (Left(orders'[i], x) - Left(orders[i], x))
                                               + (Left(orders'[j], x) - Left(orders[j], x))
  <2>1. \A l \in OrderIds \ {i, j} : Left(orders'[l], x) = Left(orders[l], x)
    BY <1>2, <1>3, <1>4, LeftAloneLeft
  <2>2. /\ orders \in Seq(OrderType) /\ orders' \in Seq(OrderType) /\ DOMAIN orders' = DOMAIN orders
        /\ i \in DOMAIN orders /\ j \in DOMAIN orders /\ i # j
        /\ \A l \in DOMAIN orders \ {i, j} : Left(orders'[l], x) = Left(orders[l], x)
    BY <1>2, <1>3, <1>5, <2>1 DEF TypeOK, OrderIds
  <2> QED BY <2>2, LeftTwo
<1>8. EscrowSum(orders', order_matches', x) = EscrowSum(orders, order_matches, x)
        + (EscrowIn(orders', order_matches'[k], x) - EscrowIn(orders, m, x))
  <2>1. /\ order_matches \in Seq(MatchType) /\ order_matches' \in Seq(MatchType)
        /\ DOMAIN order_matches' = DOMAIN order_matches /\ k \in DOMAIN order_matches
        /\ \A l \in DOMAIN order_matches \ {k} :
             EscrowIn(orders', order_matches'[l], x) = EscrowIn(orders, order_matches[l], x)
    BY <1>2, <1>3, EscrowUntouched DEF TypeOK, Closes, MatchIds
  <2> QED BY <1>1, <2>1, EscrowOne
<1>9. /\ EscrowIn(orders', order_matches'[k], x) = 0
      /\ EscrowIn(orders, m, x) = Given(orders[i], Gave(m, i), x) + Given(orders[j], Gave(m, j), x)
  <2>1. EscrowIn(orders', order_matches'[k], x) = 0
    BY <1>2 DEF EscrowIn, Closes
  <2>2. Gave(m, i) = m.forward_quantity /\ Gave(m, j) = m.backward_quantity
    BY <1>3, <1>4 DEF Gave
  <2>3. EscrowIn(orders, m, x) = (IF orders[j].get_asset = x THEN m.forward_quantity ELSE 0)
                                   + (IF orders[j].give_asset = x THEN m.backward_quantity ELSE 0)
    BY <1>2, <1>4 DEF EscrowIn
  <2>4. orders[j].get_asset = orders[i].give_asset
    BY <1>5 DEF Opposite
  <2> QED BY <2>1, <2>2, <2>3, <2>4 DEF Given
<1>10. BalanceSum(balances', x) = BalanceSum(balances, x) + Refund(m, i, x) + Refund(m, j, x)
  <2>1. PICK c : c = Refunded(balances, m, i)
    OBVIOUS
  <2>2. balances \in [Addresses \X Assets -> Int] /\ balances' = Refunded(c, m, j)
    BY <1>2, <1>3, <1>4, <2>1 DEF TypeOK
  <2>3. c \in [Addresses \X Assets -> Int]
    BY <1>2, <1>3, <1>5, <2>1, <2>2, RefundedType
  <2>4. Refunds(balances, c, m, i, x)
    BY <1>2, <1>3, <1>5, <2>1, <2>2, RefundedSum
  <2>5. Refunds(c, balances', m, j, x)
    BY <1>2, <1>3, <1>5, <2>2, <2>3, RefundedSum
  <2> QED BY <2>4, <2>5 DEF Refunds
<1>11. /\ BalanceSum(balances, x) \in Int /\ LeftSum(orders, x) \in Int
       /\ EscrowSum(orders, order_matches, x) \in Int
  BY <1>3, SumsType DEF TypeOK
<1>12. /\ Given(orders[i], Gave(m, i), x) \in Int /\ Given(orders[j], Gave(m, j), x) \in Int
  BY <1>2 DEF Given, Gave, MatchType
<1>13. LeftSum(orders', x) = LeftSum(orders, x) + Given(orders[i], Gave(m, i), x)
         + Given(orders[j], Gave(m, j), x) - Refund(m, i, x) - Refund(m, j, x)
  BY <1>6, <1>7, <1>11, <1>12 DEF GetsBack
<1>14. Refund(m, i, x) \in Int /\ Refund(m, j, x) \in Int
  BY <1>6 DEF GetsBack
<1>15. EscrowSum(orders', order_matches', x) = EscrowSum(orders, order_matches, x)
         - (Given(orders[i], Gave(m, i), x) + Given(orders[j], Gave(m, j), x))
  BY <1>8, <1>9, <1>11, <1>12
<1> QED
  BY <1>10, <1>11, <1>12, <1>13, <1>14, <1>15 DEF Conserves, HeldSum

\* No step creates or loses a unit.
LEMMA StepConserves ==
  ASSUME IInv, IInv', LoopsInv, FairInv, [Next]_vars, NEW x \in Assets
  PROVE  Held(x)' = Held(x) \/ Revives
<1>1. TypeOK /\ TypeOK' /\ Stays /\ BTCIsOneSide /\ MatchesAreOpposite
  BY StepStays DEF IInv, FairInv
<1>2. SUFFICES ASSUME ~Revives PROVE Conserves(x)
  BY <1>1, HeldSums, HeldSumsNext DEF Conserves
<1>3. CASE UNCHANGED tables
  BY <1>3 DEF tables, Conserves
<1>4. ASSUME NEW offer \in Offers, Order(offer) PROVE Conserves(x)
  BY <1>1, <1>4, OrderConserves
<1>5. ASSUME NEW i \in OrderIds, Cancel(i) PROVE Conserves(x)
  <2>1. /\ OrderIds' = OrderIds /\ Kept(OrderIds \ {i}) /\ Marked(orders[i], orders'[i], "cancelled")
        /\ orders[i].status = "open" /\ balances' = Returned(i) /\ UNCHANGED order_matches
    BY <1>1, <1>5, CancelRows
  <2> QED BY <1>1, <2>1, CloseConserves
<1>6. ASSUME NEW i \in due, ExpireOrder(i) PROVE Conserves(x)
  <2>1. /\ OrderIds' = OrderIds /\ Kept(OrderIds \ {i}) /\ Marked(orders[i], orders'[i], "expired")
        /\ i \in OrderIds /\ balances' = Returned(i) /\ UNCHANGED order_matches
    BY <1>1, <1>6, ExpireOrderRows
  <2>2. orders[i].status = "open"
    BY DEF LoopsInv
  <2> QED BY <1>1, <2>1, <2>2, CloseConserves
<1>7. ASSUME NEW k \in MatchIds, NEW source \in Addresses, NEW destination \in Addresses,
             BTCPay(k, source, destination)
      PROVE  Conserves(x)
  BY <1>1, <1>2, <1>7, PayConserves
<1>8. ASSUME NEW i \in candidates, MatchNext(i) PROVE Conserves(x)
  BY <1>1, <1>8, TradeConserves
<1>9. ASSUME NEW k \in expiring, ExpireOrderMatch(k) PROVE Conserves(x)
  BY <1>1, <1>9, ExpireMatchConserves
<1>10. CASE MatchEnd
  BY <1>3, <1>10 DEF MatchEnd
<1>11. CASE NextBlock
  BY <1>3, <1>11 DEF NextBlock
<1>12. CASE MatchesExpired
  BY <1>3, <1>12 DEF MatchesExpired
<1>13. CASE Rematch
  BY <1>3, <1>13 DEF Rematch
<1>14. CASE MatchedAgain
  BY <1>3, <1>14 DEF MatchedAgain
<1>15. CASE OrdersExpired
  BY <1>3, <1>15 DEF OrdersExpired
<1>16. CASE UNCHANGED vars
  BY <1>3, <1>16 DEF vars, tables
<1>17. CASE InvalidOrder
  BY <1>3, <1>17 DEF InvalidOrder
<1> QED
  BY <1>4, <1>5, <1>6, <1>7, <1>8, <1>9, <1>10, <1>11, <1>12, <1>13, <1>14, <1>15, <1>16, <1>17
     DEF Next

----------------------------------------------------------------------------
\* The books of an order: what it gave (g = TRUE) or got (g = FALSE).
Rest(g, o) == IF g THEN o.give_remaining ELSE o.get_remaining
Amount(g, m, i) == IF g THEN Gave(m, i) ELSE Got(m, i)
Part(g, m, i) == IF g THEN GaveIn(m, i) ELSE GotIn(m, i)
Parts(g, ms, i) == [k \in DOMAIN ms |-> Part(g, ms[k], i)]
PartSum(g, ms, i) == SumFunctionOnSet(Parts(g, ms, i), DOMAIN ms)

\* The part of a match in the books of an order.
LEMMA PartIs ==
  ASSUME NEW g \in BOOLEAN, NEW m, NEW i
  PROVE  Part(g, m, i) = IF i \in {m.tx0, m.tx1} /\ m.status # "expired" THEN Amount(g, m, i) ELSE 0
BY DEF Part, Amount, GaveIn, GotIn

\* The parts are integers, of finitely many matches.
LEMMA PartsType ==
  ASSUME NEW g \in BOOLEAN, NEW ms \in Seq(MatchType), NEW i
  PROVE  IsFiniteSet(DOMAIN ms) /\ \A k \in DOMAIN ms : Parts(g, ms, i)[k] = Part(g, ms[k], i)
                                                      /\ Part(g, ms[k], i) \in Int
<1>1. IsFiniteSet(DOMAIN ms) /\ \A k \in DOMAIN ms : ms[k] \in MatchType
  BY RowsOf
<1>2. \A k \in DOMAIN ms : Part(g, ms[k], i) \in Int
  <2> TAKE k \in DOMAIN ms
  <2>1. ms[k] \in MatchType
    BY <1>1
  <2>2. ms[k].forward_quantity \in Int /\ ms[k].backward_quantity \in Int
    BY <2>1 DEF MatchType
  <2> QED BY <2>2 DEF Part, GaveIn, GotIn, Gave, Got
<1> QED
  BY <1>1, <1>2 DEF Parts

\* Their sum is an integer.
LEMMA PartSumType ==
  ASSUME NEW g \in BOOLEAN, NEW ms \in Seq(MatchType), NEW i
  PROVE  PartSum(g, ms, i) \in Int
<1>1. IsFiniteSet(DOMAIN ms) /\ \A k \in DOMAIN ms : Parts(g, ms, i)[k] \in Int
  BY PartsType
<1> QED BY <1>1, SumType DEF PartSum

\* No part changes: the sum stays.
LEMMA PartSame ==
  ASSUME NEW g \in BOOLEAN, NEW ms \in Seq(MatchType), NEW ns, NEW i,
         DOMAIN ns = DOMAIN ms, \A k \in DOMAIN ms : Part(g, ns[k], i) = Part(g, ms[k], i)
  PROVE  PartSum(g, ns, i) = PartSum(g, ms, i)
<1> DEFINE f == Parts(g, ms, i)
           h == Parts(g, ns, i)
<1>1. IsFiniteSet(DOMAIN ms) /\ \A k \in DOMAIN ms : f[k] = Part(g, ms[k], i) /\ f[k] \in Int
  BY PartsType
<1>2. \A k \in DOMAIN ms : h[k] = Part(g, ns[k], i)
  BY DEF Parts
<1> HIDE DEF f, h
<1>3. \A k \in DOMAIN ms : f[k] \in Int /\ h[k] = f[k]
  BY <1>1, <1>2
<1>4. SumFunctionOnSet(h, DOMAIN ms) = SumFunctionOnSet(f, DOMAIN ms)
  BY <1>1, <1>3, SumEqual
<1> QED BY <1>4 DEF f, h, PartSum

\* One match changes: the sum changes by as much.
LEMMA PartOne ==
  ASSUME NEW g, NEW ms, NEW ns, NEW i, NEW k, g \in BOOLEAN, ms \in Seq(MatchType),
         ns \in Seq(MatchType), DOMAIN ns = DOMAIN ms, k \in DOMAIN ms,
         \A l \in DOMAIN ms \ {k} : Part(g, ns[l], i) = Part(g, ms[l], i)
  PROVE  PartSum(g, ns, i) = PartSum(g, ms, i) + (Part(g, ns[k], i) - Part(g, ms[k], i))
<1>1. PICK D, f, h : D = DOMAIN ms /\ f = Parts(g, ms, i) /\ h = Parts(g, ns, i)
  OBVIOUS
<1>2. /\ IsFiniteSet(D) /\ k \in D
      /\ \A j \in D : f[j] = Part(g, ms[j], i) /\ Part(g, ms[j], i) \in Int
      /\ \A j \in D : h[j] = Part(g, ns[j], i) /\ Part(g, ns[j], i) \in Int
  BY <1>1, PartsType
<1>3. IsFiniteSet(D)
  BY <1>2
<1>4. k \in D
  BY <1>2
<1>5. \A j \in D : f[j] \in Int /\ h[j] \in Int
  BY <1>2
<1>6. \A j \in D : j # k => h[j] = f[j]
  BY <1>1, <1>2
<1>7. SumFunctionOnSet(h, D) = SumFunctionOnSet(f, D) + (h[k] - f[k])
  BY ONLY <1>3, <1>4, <1>5, <1>6, SumChange
<1> QED
  BY <1>1, <1>2, <1>7 DEF PartSum

\* One match is made: the sum grows by its part.
LEMMA PartMore ==
  ASSUME NEW g \in BOOLEAN, NEW ms \in Seq(MatchType), NEW ns \in Seq(MatchType), NEW i,
         NEW n, n \notin DOMAIN ms, DOMAIN ns = DOMAIN ms \union {n},
         \A k \in DOMAIN ms : ns[k] = ms[k]
  PROVE  PartSum(g, ns, i) = PartSum(g, ms, i) + Part(g, ns[n], i)
<1> DEFINE f == Parts(g, ms, i)
           h == Parts(g, ns, i)
<1>1. /\ IsFiniteSet(DOMAIN ms)
      /\ \A j \in DOMAIN ms : f[j] = Part(g, ms[j], i) /\ Part(g, ms[j], i) \in Int
      /\ \A j \in DOMAIN ns : h[j] = Part(g, ns[j], i) /\ Part(g, ns[j], i) \in Int
  BY PartsType
<1> HIDE DEF f, h
<1>2. \A j \in DOMAIN ms \union {n} : h[j] \in Int
  BY <1>1
<1>3. SumFunctionOnSet(h, DOMAIN ms \union {n}) = SumFunctionOnSet(h, DOMAIN ms) + h[n]
  BY <1>1, <1>2, SumInsert
<1>4. \A j \in DOMAIN ms : f[j] \in Int /\ h[j] = f[j]
  BY <1>1
<1>5. SumFunctionOnSet(h, DOMAIN ms) = SumFunctionOnSet(f, DOMAIN ms)
  BY <1>1, <1>4, SumEqual
<1> QED
  BY <1>1, <1>3, <1>5 DEF f, h, PartSum

\* What the books of order i are, and what a step may do to them
Books(g, os, ms, i) == Rest(g, os[i]) + PartSum(g, ms, i)
Balanced(g, i) ==
  IF IsDead(orders[i])
  THEN Books(g, orders', order_matches', i) <= Books(g, orders, order_matches, i)
  ELSE Books(g, orders', order_matches', i) = Books(g, orders, order_matches, i)

\* The books are integers.
LEMMA BooksType ==
  ASSUME TypeOK, NEW g \in BOOLEAN, NEW i \in OrderIds
  PROVE  Rest(g, orders[i]) \in Int /\ PartSum(g, order_matches, i) \in Int
<1>1. PartSum(g, order_matches, i) \in Int
  BY PartSumType DEF TypeOK
<1>2. Rest(g, orders[i]) \in Int
  BY Rows DEF Rest, OrderType
<1> QED BY <1>1, <1>2

\* The matches stay, and the order gives and gets nothing.
LEMMA KeptBooks ==
  ASSUME TypeOK, NEW g \in BOOLEAN, NEW i \in OrderIds, NEW v, NEW r,
         Moved(orders[i], orders'[i], 0, 0, v, r) \/ orders'[i] = orders[i],
         PartSum(g, order_matches', i) = PartSum(g, order_matches, i)
  PROVE  Balanced(g, i)
<1>1. Rest(g, orders[i]) \in Int /\ PartSum(g, order_matches, i) \in Int
  BY BooksType
<1>2. orders[i].give_remaining \in Int /\ orders[i].get_remaining \in Int
  BY Rows DEF OrderType
<1>3. Rest(g, orders'[i]) = Rest(g, orders[i])
  BY <1>2 DEF Moved, Rest
<1> QED BY <1>1, <1>3 DEF Balanced, Books

\* A payment changes nothing in the books of an order.
LEMMA PayBooks ==
  ASSUME TypeOK, NEW k \in MatchIds, NEW source, NEW destination, BTCPay(k, source, destination),
         NEW g \in BOOLEAN, NEW i \in OrderIds
  PROVE  Balanced(g, i)
<1>1. /\ orders'[i] = orders[i] \/ Marked(orders[i], orders'[i], "filled")
      /\ Pending(k) /\ Closes(k, "completed")
  BY BTCPayRows
<1>2. \A l \in MatchIds : Part(g, order_matches'[l], i) = Part(g, order_matches[l], i)
  BY <1>1, PartIs DEF Closes, SameParts, Pending, Amount, Gave, Got
<1>3. PartSum(g, order_matches', i) = PartSum(g, order_matches, i)
  <2>1. order_matches \in Seq(MatchType) /\ DOMAIN order_matches' = DOMAIN order_matches
        /\ \A l \in DOMAIN order_matches : Part(g, order_matches'[l], i) = Part(g, order_matches[l], i)
    BY <1>1, <1>2 DEF TypeOK, Closes, MatchIds
  <2> QED BY <2>1, PartSame
<1> QED BY <1>1, <1>3, KeptBooks DEF Marked

\* A trade takes from what remains as much as the match records.
LEMMA TradeBooksBalance ==
  ASSUME IInv, TypeOK', LoopsInv, NEW j \in candidates, MatchNext(j),
         NEW g \in BOOLEAN, NEW i \in OrderIds
  PROVE  Balanced(g, i)
<1>1. TypeOK /\ matching # None /\ Opposite(orders[j], orders[matching])
  BY DEF IInv, MatchNext, LoopsInv
<1>2. PICK f, b, fee, n : /\ f = Forward(orders[j], orders[matching])
                          /\ b = Backward(orders[j], orders[matching])
                          /\ fee = Fee(orders[j], orders[matching])
                          /\ n = Len(order_matches) + 1
  OBVIOUS
<1>3. /\ matching \in OrderIds /\ j \in OrderIds /\ j # matching
      /\ f \in Nat \ {0} /\ b \in Nat \ {0} /\ fee \in Int
      /\ OrderIds' = OrderIds /\ Kept(OrderIds \ {j, matching})
      /\ TradesRow(j, orders'[j], f, b, fee)
      /\ TradesRow(matching, orders'[matching], b, f, fee)
      /\ n \notin MatchIds /\ MatchIds' = MatchIds \union {n}
      /\ \A l \in MatchIds : order_matches'[l] = order_matches[l]
      /\ MadeMatch(order_matches'[n], j, f, b)
  BY <1>1, <1>2, TradeBooks
<1>4. PartSum(g, order_matches', i) = PartSum(g, order_matches, i) + Part(g, order_matches'[n], i)
  <2>1. /\ order_matches \in Seq(MatchType) /\ order_matches' \in Seq(MatchType)
        /\ n \notin DOMAIN order_matches /\ DOMAIN order_matches' = DOMAIN order_matches \union {n}
        /\ \A k \in DOMAIN order_matches : order_matches'[k] = order_matches[k]
    BY <1>1, <1>3 DEF TypeOK, MatchIds
  <2> QED BY <2>1, PartMore
<1>5. PICK m : m = order_matches'[n]
  OBVIOUS
<1>6. /\ m.tx0 = j /\ m.tx1 = matching /\ m.forward_quantity = f /\ m.backward_quantity = b
      /\ m.status # "expired"
  BY <1>3, <1>5 DEF MadeMatch
<1>7. Part(g, m, i) = IF i \in {j, matching} THEN Amount(g, m, i) ELSE 0
  BY <1>6, PartIs
<1>8. Rest(g, orders[i]) \in Int /\ PartSum(g, order_matches, i) \in Int
  BY <1>1, BooksType
<1>9. orders[i].give_remaining \in Int /\ orders[i].get_remaining \in Int /\ f \in Int /\ b \in Int
  BY <1>1, <1>3, Rows DEF OrderType
<1>10. Rest(g, orders'[i]) = Rest(g, orders[i]) - Part(g, m, i)
  <2>1. CASE i = j
    <3>1. orders'[i].give_remaining = orders[i].give_remaining - f
          /\ orders'[i].get_remaining = orders[i].get_remaining - b
      BY <1>3, <2>1 DEF TradesRow, Moved
    <3>2. Gave(m, i) = f /\ Got(m, i) = b
      BY <1>6, <2>1 DEF Gave, Got
    <3> QED BY <1>7, <1>9, <2>1, <3>1, <3>2 DEF Amount, Rest
  <2>2. CASE i = matching
    <3>1. orders'[i].give_remaining = orders[i].give_remaining - b
          /\ orders'[i].get_remaining = orders[i].get_remaining - f
      BY <1>3, <2>2 DEF TradesRow, Moved
    <3>2. Gave(m, i) = b /\ Got(m, i) = f
      BY <1>3, <1>6, <2>2 DEF Gave, Got
    <3> QED BY <1>7, <1>9, <2>2, <3>1, <3>2 DEF Amount, Rest
  <2>3. CASE i \notin {j, matching}
    BY <1>3, <1>7, <1>8, <2>3 DEF Kept
  <2> QED BY <2>1, <2>2, <2>3
<1>11. Part(g, m, i) \in Int
  <2>1. Amount(g, m, i) \in Int
    BY <1>6, <1>9 DEF Amount, Gave, Got
  <2> QED BY <1>7, <2>1
<1> QED
  BY <1>4, <1>5, <1>8, <1>10, <1>11 DEF Balanced, Books

\* An expired match gives an order back what it recorded, unless the order is dead.
LEMMA ExpireMatchBooks ==
  ASSUME IInv, TypeOK', NEW k \in expiring, ExpireOrderMatch(k),
         NEW g \in BOOLEAN, NEW i \in OrderIds
  PROVE  Balanced(g, i)
<1>1. PICK m : m = order_matches[k]
  OBVIOUS
<1>2. /\ k \in MatchIds /\ m \in MatchType /\ m.status = "pending"
      /\ IF i \in {m.tx0, m.tx1} /\ ~IsDead(orders[i])
         THEN GivenBack(m, i, orders'[i]) ELSE LeftAlone(i, orders'[i])
      /\ Closes(k, "expired")
  BY <1>1, ExpireOrderMatchRows
<1>3. TypeOK
  BY DEF IInv
<1>4. PartSum(g, order_matches', i) = PartSum(g, order_matches, i)
        + (Part(g, order_matches'[k], i) - Part(g, m, i))
  <2>1. /\ order_matches \in Seq(MatchType) /\ order_matches' \in Seq(MatchType)
        /\ DOMAIN order_matches' = DOMAIN order_matches /\ k \in DOMAIN order_matches
        /\ \A l \in DOMAIN order_matches \ {k} :
             Part(g, order_matches'[l], i) = Part(g, order_matches[l], i)
    BY <1>2, <1>3 DEF TypeOK, Closes, MatchIds
  <2> QED BY <1>1, <2>1, PartOne
<1>5. /\ Part(g, order_matches'[k], i) = 0
      /\ Part(g, m, i) = IF i \in {m.tx0, m.tx1} THEN Amount(g, m, i) ELSE 0
  <2>1. order_matches'[k].status = "expired"
    BY <1>2 DEF Closes
  <2> QED BY <1>2, <2>1, PartIs
<1>6. Amount(g, m, i) \in Nat
  BY <1>2 DEF Amount, Gave, Got, MatchType
<1>7. Rest(g, orders[i]) \in Int /\ PartSum(g, order_matches, i) \in Int
  BY <1>3, BooksType
<1>8. /\ orders[i].give_remaining \in Int /\ orders[i].get_remaining \in Int
      /\ Gave(m, i) \in Int /\ Got(m, i) \in Int
  BY <1>2, <1>3, Rows DEF OrderType, Gave, Got, MatchType
<1>9. CASE i \in {m.tx0, m.tx1} /\ ~IsDead(orders[i])
  <2>1. /\ orders'[i].give_remaining = orders[i].give_remaining - (-Gave(m, i))
        /\ orders'[i].get_remaining = orders[i].get_remaining - (-Got(m, i))
    BY <1>2, <1>9 DEF GivenBack, Moved
  <2>2. Rest(g, orders'[i]) = Rest(g, orders[i]) + Amount(g, m, i)
    BY <1>8, <2>1 DEF Rest, Amount
  <2> QED BY <1>4, <1>5, <1>6, <1>7, <1>9, <2>2 DEF Balanced, Books
<1>10. CASE ~(i \in {m.tx0, m.tx1} /\ ~IsDead(orders[i]))
  <2>1. /\ orders'[i].give_remaining = orders[i].give_remaining - 0
        /\ orders'[i].get_remaining = orders[i].get_remaining - 0
    BY <1>2, <1>10 DEF LeftAlone, Moved
  <2>2. Rest(g, orders'[i]) = Rest(g, orders[i])
    BY <1>8, <2>1 DEF Rest
  <2>3. CASE i \in {m.tx0, m.tx1}
    BY <1>4, <1>5, <1>6, <1>7, <1>10, <2>2, <2>3 DEF Balanced, Books
  <2>4. CASE i \notin {m.tx0, m.tx1}
    BY <1>4, <1>5, <1>7, <2>2, <2>4 DEF Balanced, Books
  <2> QED BY <2>3, <2>4
<1> QED BY <1>9, <1>10

\* The books balance in every step.
LEMMA StepBooks ==
  ASSUME IInv, IInv', LoopsInv, [Next]_vars, NEW g \in BOOLEAN, NEW i \in OrderIds
  PROVE  Balanced(g, i)
<1>1. TypeOK /\ TypeOK'
  BY DEF IInv
<1>2. ASSUME UNCHANGED order_matches, orders'[i] = orders[i] PROVE Balanced(g, i)
  BY <1>1, <1>2, KeptBooks
<1>3. CASE UNCHANGED tables
  BY <1>2, <1>3 DEF tables
<1>4. ASSUME NEW offer \in Offers, Order(offer) PROVE Balanced(g, i)
  <2>1. PICK o, n : o = Affordable(offer) /\ n = Len(orders) + 1
    OBVIOUS
  <2>2. Kept(OrderIds)
    BY <1>1, <1>4, <2>1, OrderRows
  <2>3. UNCHANGED order_matches
    BY <1>4 DEF Order
  <2> QED BY <1>2, <2>2, <2>3 DEF Kept
<1>5. ASSUME NEW j \in OrderIds, Cancel(j) PROVE Balanced(g, i)
  <2>1. Kept(OrderIds \ {j}) /\ Marked(orders[j], orders'[j], "cancelled") /\ UNCHANGED order_matches
    BY <1>1, <1>5, CancelRows
  <2>2. Moved(orders[i], orders'[i], 0, 0, 0, 0) \/ orders'[i] = orders[i]
    BY <2>1 DEF Kept, Marked
  <2> QED BY <1>1, <2>1, <2>2, KeptBooks
<1>6. ASSUME NEW j \in due, ExpireOrder(j) PROVE Balanced(g, i)
  <2>1. Kept(OrderIds \ {j}) /\ Marked(orders[j], orders'[j], "expired") /\ UNCHANGED order_matches
    BY <1>1, <1>6, ExpireOrderRows
  <2>2. Moved(orders[i], orders'[i], 0, 0, 0, 0) \/ orders'[i] = orders[i]
    BY <2>1 DEF Kept, Marked
  <2> QED BY <1>1, <2>1, <2>2, KeptBooks
<1>7. ASSUME NEW k \in MatchIds, NEW source \in Addresses, NEW destination \in Addresses,
             BTCPay(k, source, destination)
      PROVE  Balanced(g, i)
  BY <1>1, <1>7, PayBooks
<1>8. ASSUME NEW j \in candidates, MatchNext(j) PROVE Balanced(g, i)
  BY <1>1, <1>8, TradeBooksBalance
<1>9. ASSUME NEW k \in expiring, ExpireOrderMatch(k) PROVE Balanced(g, i)
  BY <1>1, <1>9, ExpireMatchBooks
<1>10. CASE MatchEnd
  BY <1>3, <1>10 DEF MatchEnd
<1>11. CASE NextBlock
  BY <1>3, <1>11 DEF NextBlock
<1>12. CASE MatchesExpired
  BY <1>3, <1>12 DEF MatchesExpired
<1>13. CASE Rematch
  BY <1>3, <1>13 DEF Rematch
<1>14. CASE MatchedAgain
  BY <1>3, <1>14 DEF MatchedAgain
<1>15. CASE OrdersExpired
  BY <1>3, <1>15 DEF OrdersExpired
<1>16. CASE UNCHANGED vars
  BY <1>3, <1>16 DEF vars, tables
<1>17. CASE InvalidOrder
  BY <1>3, <1>17 DEF InvalidOrder
<1> QED
  BY <1>4, <1>5, <1>6, <1>7, <1>8, <1>9, <1>10, <1>11, <1>12, <1>13, <1>14, <1>15, <1>16, <1>17
     DEF Next

\* The sums of the books are those of RemainingIsAccounted.
LEMMA StepAccounts ==
  ASSUME IInv, IInv', LoopsInv, [Next]_vars
  PROVE  RemainingIsAccounted
<1> SUFFICES ASSUME NEW i \in OrderIds
             PROVE  IF IsDead(orders[i])
                    THEN Giving(i)' <= Giving(i) /\ Getting(i)' <= Getting(i)
                    ELSE Giving(i)' = Giving(i) /\ Getting(i)' = Getting(i)
  BY DEF RemainingIsAccounted
<1>1. Giving(i) = Books(TRUE, orders, order_matches, i)
      /\ Getting(i) = Books(FALSE, orders, order_matches, i)
  BY DEF Giving, Getting, Books, Rest, PartSum, Parts, Part, MatchIds
<1>2. Giving(i)' = Books(TRUE, orders', order_matches', i)
      /\ Getting(i)' = Books(FALSE, orders', order_matches', i)
  BY DEF Giving, Getting, Books, Rest, PartSum, Parts, Part, MatchIds, GaveIn, GotIn, Gave, Got
<1>3. Balanced(TRUE, i) /\ Balanced(FALSE, i)
  BY StepBooks
<1> QED BY <1>1, <1>2, <1>3 DEF Balanced

\* No step creates or loses a unit of an asset, and the books of every order balance,
\* in an exchange of any size.
THEOREM NothingIsCreatedOrLost == Spec => EveryStepConserves
<1>1. IInv /\ IInv' /\ LoopsInv /\ FairInv /\ [Next]_vars
      => [/\ \A x \in Assets : Held(x)' = Held(x) \/ Revives
          /\ RemainingIsAccounted]_vars
  BY StepConserves, StepAccounts
<1> QED
  BY <1>1, FairInvariant, PTL DEF Spec, EveryStepConserves

----------------------------------------------------------------------------
\* The book is not crossed.  A trade of less is a smaller trade:
LEMMA QuotientMonotone ==
  ASSUME NEW n \in Int, NEW m \in Int, NEW d \in Nat \ {0}, n <= m
  PROVE  n \div d <= m \div d
<1>1. PICK q, r : q = n \div d /\ r = m \div d
  OBVIOUS
<1>2. q \in Int /\ r \in Int /\ d * q <= n /\ m < d * r + d
  BY <1>1
<1>3. SUFFICES ASSUME r + 1 <= q PROVE FALSE
  BY <1>1, <1>2
<1>4. d * (r + 1) <= d * q
  BY <1>2, <1>3, TimesMonotone
<1>5. d * (r + 1) = d * r + d /\ d * q \in Int /\ d * r \in Int
  BY <1>2
<1> QED
  BY <1>2, <1>4, <1>5

\* A smaller fraction does not round to more.
LEMMA RoundMonotone ==
  ASSUME NEW n \in Nat, NEW m \in Nat, NEW d \in Nat \ {0}, n <= m
  PROVE  Round(n, d) <= Round(m, d)
<1>1. PICK q, r, u, v : q = n \div d /\ u = n % d /\ r = m \div d /\ v = m % d
  OBVIOUS
<1>2. /\ q \in Nat /\ u \in 0..(d - 1) /\ n = d * q + u
      /\ r \in Nat /\ v \in 0..(d - 1) /\ m = d * r + v
  BY <1>1, Division
<1>3. q <= r
  BY <1>1, QuotientMonotone
<1>4. /\ Round(n, d) = IF 2 * u < d \/ (2 * u = d /\ q % 2 = 0) THEN q ELSE q + 1
      /\ Round(m, d) = IF 2 * v < d \/ (2 * v = d /\ r % 2 = 0) THEN r ELSE r + 1
  BY <1>1 DEF Round
<1>5. CASE q + 1 <= r
  BY <1>2, <1>4, <1>5
<1>6. CASE q = r
  <2>1. u <= v
    <3>1. d * q \in Int
      BY <1>2
    <3> QED BY <1>2, <1>6, <3>1
  <2> QED BY <1>2, <1>4, <1>6, <2>1
<1> QED BY <1>2, <1>3, <1>5, <1>6

\* A fraction of at most r rounds to at most r.
LEMMA RoundAtMost ==
  ASSUME NEW n \in Nat, NEW d \in Nat \ {0}, NEW r \in Nat, n <= d * r
  PROVE  Round(n, d) <= r
<1>1. PICK q, u : q = n \div d /\ u = n % d
  OBVIOUS
<1>2. q \in Nat /\ u \in 0..(d - 1) /\ n = d * q + u
  BY <1>1, Division
<1>3. Round(n, d) = IF 2 * u < d \/ (2 * u = d /\ q % 2 = 0) THEN q ELSE q + 1
  BY <1>1 DEF Round
<1>4. d * q <= d * r
  <2>1. d * q \in Int /\ d * r \in Int
    BY <1>2
  <2> QED BY <1>2, <2>1
<1>5. q <= r
  BY <1>2, <1>4, TimesCancels
<1>6. CASE q + 1 <= r
  BY <1>2, <1>3, <1>6
<1>7. CASE q = r
  <2>1. u = 0
    <3>1. d * q \in Int
      BY <1>2
    <3> QED BY <1>2, <1>7, <3>1
  <2> QED BY <1>2, <1>3, <1>7, <2>1
<1> QED BY <1>2, <1>5, <1>6, <1>7

\* What remains of an order, and of its fees, is no more than it was.
Less(o, p) ==
  /\ SameTerms(o, p)
  /\ p.give_remaining <= o.give_remaining
  /\ p.fee_provided_remaining <= o.fee_provided_remaining
  /\ p.fee_required_remaining <= o.fee_required_remaining

\* An order has no more than itself.
LEMMA LessItself ==
  ASSUME NEW o \in OrderType
  PROVE  Less(o, o)
BY DEF Less, SameTerms, OrderType

\* With less left, tx0 gives no more
LEMMA ForwardMonotone ==
  ASSUME NEW o0, NEW o1, NEW p0, NEW p1, o0 \in OrderType, o1 \in OrderType,
         p0 \in OrderType, p1 \in OrderType, Less(o0, p0), Less(o1, p1)
  PROVE  Forward(p0, p1) <= Forward(o0, o1)
<1>1. PICK g \in Nat \ {0}, t \in Nat \ {0} :
        /\ o0.give_quantity = g /\ o0.get_quantity = t /\ p0.give_quantity = g /\ p0.get_quantity = t
  BY DEF OrderType, Less, SameTerms
<1>2. PICK x0 \in Int, x1 \in Int, y0 \in Int, y1 \in Int :
        /\ x0 = o0.give_remaining /\ x1 = o1.give_remaining
        /\ y0 = p0.give_remaining /\ y1 = p1.give_remaining
  BY DEF OrderType
<1>3. y0 <= x0 /\ y1 <= x1
  BY <1>2 DEF Less
<1>4. y1 * g <= x1 * g /\ y1 * g \in Int /\ x1 * g \in Int
  BY <1>1, <1>3, TimesMonotone
<1>5. (y1 * g) \div t <= (x1 * g) \div t
  BY <1>1, <1>4, QuotientMonotone
<1>6. PICK a \in Int, b \in Int : a = (y1 * g) \div t /\ b = (x1 * g) \div t
  BY <1>1, <1>4
<1>7. /\ Forward(p0, p1) = IF y0 < a THEN y0 ELSE a
      /\ Forward(o0, o1) = IF x0 < b THEN x0 ELSE b
  BY <1>1, <1>2, <1>6 DEF Forward
<1> QED
  BY <1>3, <1>5, <1>6, <1>7

\* and is paid no more.
LEMMA BackwardMonotone ==
  ASSUME NEW o0, NEW o1, NEW p0, NEW p1, o0 \in OrderType, o1 \in OrderType,
         p0 \in OrderType, p1 \in OrderType, Less(o0, p0), Less(o1, p1), Forward(p0, p1) > 0
  PROVE  Backward(p0, p1) <= Backward(o0, o1)
<1>1. PICK g \in Nat \ {0}, t \in Nat \ {0} :
        /\ o0.give_quantity = g /\ o0.get_quantity = t /\ p0.give_quantity = g /\ p0.get_quantity = t
  BY DEF OrderType, Less, SameTerms
<1>2. PICK f \in Nat, e \in Nat : f = Forward(o0, o1) /\ e = Forward(p0, p1) /\ e <= f
  BY ForwardMonotone, TradeTypes
<1>3. e * t <= f * t /\ e * t \in Nat /\ f * t \in Nat
  BY <1>1, <1>2, TimesMonotone
<1>4. Round(e * t, g) <= Round(f * t, g)
  BY <1>1, <1>3, RoundMonotone
<1> QED
  BY <1>1, <1>2, <1>4 DEF Backward

\* tx0 is paid no more than tx1 has left.
LEMMA BackwardWithin ==
  ASSUME NEW o0, NEW o1, o0 \in OrderType, o1 \in OrderType, Forward(o0, o1) > 0
  PROVE  Backward(o0, o1) <= o1.give_remaining
<1>1. PICK g \in Nat \ {0}, t \in Nat \ {0}, x0 \in Int, x1 \in Int :
        /\ o0.give_quantity = g /\ o0.get_quantity = t
        /\ x0 = o0.give_remaining /\ x1 = o1.give_remaining
  BY DEF OrderType
<1>2. PICK f \in Nat \ {0} : f = Forward(o0, o1)
  BY TradeTypes
<1>3. PICK a \in Int : a = (x1 * g) \div t /\ t * a <= x1 * g
  <2>1. x1 * g \in Int
    BY <1>1
  <2> QED BY <1>1, <2>1
<1>4. f <= a
  BY <1>1, <1>2, <1>3 DEF Forward
<1>5. f * t <= g * x1
  <2>1. t * f <= t * a
    BY <1>1, <1>2, <1>3, <1>4, TimesMonotone
  <2>2. t * f = f * t /\ g * x1 = x1 * g /\ t * a \in Int /\ t * f \in Int /\ x1 * g \in Int
    BY <1>1, <1>2, <1>3
  <2> QED BY <1>3, <2>1, <2>2
<1>6. x1 > 0
  <2>1. SUFFICES ASSUME x1 <= 0 PROVE FALSE
    BY <1>1
  <2>2. g * x1 <= g * 0
    BY <1>1, <2>1, TimesMonotone
  <2>3. t * 1 <= t * f
    BY <1>1, <1>2, TimesMonotone
  <2>4. f * t = t * f /\ t * 1 = t /\ g * 0 = 0 /\ f * t \in Int /\ g * x1 \in Int
    BY <1>1, <1>2
  <2> QED BY <1>1, <1>5, <2>2, <2>3, <2>4
<1>7. f * t \in Nat
  BY <1>1, <1>2
<1>8. Round(f * t, g) <= x1
  BY <1>1, <1>5, <1>6, <1>7, RoundAtMost
<1> QED
  BY <1>1, <1>2, <1>8 DEF Backward

\* The fee of a trade is at most the fee of a trade of the whole of tx1.
LEMMA FeeWithin ==
  ASSUME NEW o0, NEW o1, o0 \in OrderType, o1 \in OrderType, Forward(o0, o1) > 0, Backward(o0, o1) > 0,
         o1.give_remaining <= o1.give_quantity
  PROVE  /\ Fee(o0, o1) >= 0
         /\ o1.get_asset = BTC => Fee(o0, o1) <= o1.fee_required
         /\ o1.get_asset # BTC /\ o1.give_asset = BTC =>
              Fee(o0, o1) <= (o0.fee_required * o1.give_quantity) \div o0.give_quantity
<1>1. PICK g0 \in Nat \ {0}, g1 \in Nat \ {0}, r0 \in Nat, r1 \in Nat :
        /\ o0.give_quantity = g0 /\ o1.give_quantity = g1
        /\ o0.fee_required = r0 /\ o1.fee_required = r1
  BY DEF OrderType
<1>2. PICK b \in Nat : b = Backward(o0, o1) /\ b <= g1
  <2>1. Backward(o0, o1) \in Int /\ Backward(o0, o1) <= o1.give_remaining /\ o1.give_remaining \in Int
    BY BackwardWithin, TradeTypes DEF OrderType
  <2> QED BY <1>1, <2>1
<1>3. ASSUME NEW r \in Nat, NEW d \in Nat \ {0}
      PROVE  /\ r * b \in Nat /\ r * g1 \in Nat
             /\ (r * b) \div d >= 0 /\ (r * b) \div d \in Int
             /\ (r * b) \div d <= (r * g1) \div d
  <2>1. r * b <= r * g1 /\ r * b \in Nat /\ r * g1 \in Nat
    BY <1>1, <1>2, <1>3, TimesMonotone
  <2>2. PICK n \in Nat, m \in Nat : n = r * b /\ m = r * g1 /\ n <= m
    BY <2>1
  <2>3. n \div d <= m \div d
    BY <1>3, <2>2, QuotientMonotone
  <2>4. n \div d >= 0 /\ n \div d \in Int
    BY <1>3, <2>2, Division
  <2> QED BY <2>1, <2>2, <2>3, <2>4
<1>4. (r1 * g1) \div g1 = r1
  <2>1. PICK q : q = (r1 * g1) \div g1
    OBVIOUS
  <2>2. PICK n \in Nat : n = r1 * g1 /\ n = g1 * r1
    BY <1>1
  <2>3. q \in Nat /\ n % g1 \in 0..(g1 - 1) /\ n = g1 * q + (n % g1)
    BY <1>1, <2>1, <2>2, Division
  <2>4. g1 * q <= g1 * r1
    <3>1. g1 * q \in Int
      BY <1>1, <2>3
    <3> QED BY <1>1, <2>2, <2>3, <3>1
  <2>5. q <= r1
    BY <1>1, <2>3, <2>4, TimesCancels
  <2>6. g1 * r1 <= g1 * (q + 1)
    <3>1. g1 * q \in Int /\ g1 * (q + 1) = g1 * q + g1
      BY <1>1, <2>3
    <3> QED BY <1>1, <2>2, <2>3, <3>1
  <2>7. SUFFICES ASSUME q + 1 <= r1 PROVE FALSE
    BY <1>1, <2>1, <2>3, <2>5
  <2>8. g1 * (q + 1) <= g1 * r1
    BY <1>1, <2>3, <2>7, TimesMonotone
  <2>9. g1 * q \in Int /\ g1 * (q + 1) = g1 * q + g1
    BY <1>1, <2>3
  <2> QED BY <1>1, <2>2, <2>3, <2>8, <2>9
<1>5. CASE o1.get_asset = BTC
  <2>1. Fee(o0, o1) = (r1 * b) \div g1
    BY <1>1, <1>2, <1>5 DEF Fee
  <2> QED BY <1>1, <1>3, <1>4, <1>5, <2>1
<1>6. CASE o1.get_asset # BTC /\ o1.give_asset = BTC
  <2>1. Fee(o0, o1) = (r0 * b) \div g0
    BY <1>1, <1>2, <1>6 DEF Fee
  <2> QED BY <1>1, <1>3, <1>6, <2>1
<1>7. CASE o1.get_asset # BTC /\ o1.give_asset # BTC
  BY <1>7 DEF Fee
<1> QED BY <1>5, <1>6, <1>7

\* Orders that suit each other with less left, and whose fees cover the whole trade,
\* did so before.
LEMMA SuitsBefore ==
  ASSUME NEW o0, NEW o1, NEW p0, NEW p1, o0 \in OrderType, o1 \in OrderType,
         p0 \in OrderType, p1 \in OrderType, Less(o0, p0), Less(o1, p1),
         o1.give_remaining <= o1.give_quantity, InvolvesBTC(o1) => o1.give_asset # o1.get_asset,
         FeeCovers(p0, p1), Suits(p0, p1)
  PROVE  Suits(o0, o1)
<1>1. /\ Forward(p0, p1) > 0 /\ Backward(p0, p1) > 0
      /\ Forward(p0, p1) <= Forward(o0, o1) /\ Backward(p0, p1) <= Backward(o0, o1)
      /\ Forward(p0, p1) \in Int /\ Backward(p0, p1) \in Int
      /\ Forward(o0, o1) \in Int /\ Backward(o0, o1) \in Int /\ Fee(o0, o1) \in Int
  BY ForwardMonotone, BackwardMonotone, TradeTypes DEF Suits
<1>2. /\ Fee(o0, o1) >= 0
      /\ o1.get_asset = BTC => Fee(o0, o1) <= o1.fee_required
      /\ o1.get_asset # BTC /\ o1.give_asset = BTC =>
           Fee(o0, o1) <= (o0.fee_required * o1.give_quantity) \div o0.give_quantity
  BY <1>1, FeeWithin
<1>3. /\ p0.give_asset = o0.give_asset /\ p1.give_asset = o1.give_asset
      /\ p0.get_asset = o0.get_asset /\ p1.get_asset = o1.get_asset
      /\ p0.give_quantity = o0.give_quantity /\ p1.give_quantity = o1.give_quantity
      /\ p0.get_quantity = o0.get_quantity /\ p1.get_quantity = o1.get_quantity
      /\ p0.fee_required = o0.fee_required /\ p1.fee_required = o1.fee_required
  BY DEF Less, SameTerms
<1>4. PricesAgree(o0, o1)
  BY <1>3 DEF Suits, PricesAgree
<1>5. /\ \A o \in {o0, o1, p0, p1} :
           /\ o.give_remaining \in Int
           /\ o.fee_provided_remaining \in Int /\ o.fee_required_remaining \in Int
      /\ MinBTC \in Int
  BY BlocksAssumption DEF OrderType
<1>6. InvolvesBTC(o1) => BTCRemains(o0, o1)
  <2>1. InvolvesBTC(o1) => BTCRemains(p0, p1)
    BY <1>3 DEF Suits, InvolvesBTC
  <2> QED BY <1>5, <2>1 DEF BTCRemains, Less
<1>7. BTCIsEnough(o0, o1)
  <2>1. BTCIsEnough(p0, p1)
    BY DEF Suits
  <2>2. ASSUME o1.get_asset = BTC
        PROVE  Forward(o0, o1) >= MinBTC /\ o0.fee_provided_remaining >= Fee(o0, o1)
    <3>1. Forward(p0, p1) >= MinBTC /\ p0.fee_provided_remaining >= o1.fee_required
      BY <1>3, <2>1, <2>2 DEF BTCIsEnough, FeeCovers
    <3>2. p0.fee_provided_remaining <= o0.fee_provided_remaining /\ o1.fee_required \in Int
      BY DEF Less, OrderType
    <3> QED BY <1>1, <1>2, <1>5, <2>2, <3>1, <3>2
  <2>3. ASSUME o1.give_asset = BTC
        PROVE  Backward(o0, o1) >= MinBTC /\ o1.fee_provided_remaining >= Fee(o0, o1)
    <3>1. PICK w : w = (o0.fee_required * o1.give_quantity) \div o0.give_quantity
      OBVIOUS
    <3>2. w \in Int
      <4>1. PICK r \in Nat, g1 \in Nat \ {0}, g0 \in Nat \ {0} :
              r = o0.fee_required /\ g1 = o1.give_quantity /\ g0 = o0.give_quantity
        BY DEF OrderType
      <4>2. r * g1 \in Int
        BY <4>1
      <4> QED BY <3>1, <4>1, <4>2
    <3>3. Backward(p0, p1) >= MinBTC /\ p1.fee_provided_remaining >= w
      BY <1>3, <2>1, <2>3, <3>1 DEF BTCIsEnough, FeeCovers
    <3>4. p1.fee_provided_remaining <= o1.fee_provided_remaining /\ o1.get_asset # BTC
      BY <2>3 DEF Less, InvolvesBTC
    <3>5. Fee(o0, o1) <= w
      BY <1>2, <2>3, <3>1, <3>4
    <3> QED BY <1>1, <1>5, <3>2, <3>3, <3>4, <3>5
  <2> QED BY <2>2, <2>3 DEF BTCIsEnough
<1> QED
  BY <1>1, <1>4, <1>6, <1>7 DEF Suits

----------------------------------------------------------------------------
\* Two open orders that were not matched with each other, and suit each other.
Crossed(i, j) ==
  /\ i # j /\ orders[i].status = "open" /\ orders[j].status = "open"
  /\ Opposite(orders[i], orders[j]) /\ ~MatchedBefore(i, j)
  /\ FeeCovers(orders[i], orders[j]) /\ FeeCovers(orders[j], orders[i])
  /\ Suits(orders[i], orders[j]) /\ Suits(orders[j], orders[i])

\* They are being matched, or one of them is still to be matched again.
ToBeTried(i, j) ==
  \/ \E l \in DOMAIN rematching : rematching[l] \in {i, j}
  \/ matching = i /\ j \in candidates
  \/ matching = j /\ i \in candidates

WithinQuantity ==
  \A i \in OrderIds : Books(TRUE, orders, order_matches, i) <= orders[i].give_quantity
CrossedIsTried == \A i, j \in cached : Crossed(i, j) => ToBeTried(i, j)

BookInv ==
  /\ pc \in {"orders", "transactions"} => rematching = <<>>
  /\ WithinQuantity
  /\ CrossedIsTried

\* Opposite is symmetric.
LEMMA OppositeBoth ==
  ASSUME NEW o, NEW p, Opposite(o, p)
  PROVE  Opposite(p, o)
BY DEF Opposite

\* An order has no more left than it was opened for.
LEMMA RestWithin ==
  ASSUME TypeOK, WithinQuantity, NEW i \in OrderIds
  PROVE  orders[i].give_remaining <= orders[i].give_quantity
<1>0. PICK g \in BOOLEAN : g = TRUE
  OBVIOUS
<1>1. PICK r \in Int, s \in Int, q \in Int :
        /\ r = orders[i].give_remaining /\ s = PartSum(g, order_matches, i)
        /\ q = orders[i].give_quantity
  <2>1. Rest(g, orders[i]) \in Int /\ PartSum(g, order_matches, i) \in Int
    BY BooksType
  <2>2. orders[i].give_quantity \in Int
    BY Rows DEF OrderType
  <2> QED BY <1>0, <2>1, <2>2 DEF Rest
<1>2. s >= 0
  <2> DEFINE f == Parts(g, order_matches, i)
  <2>1. IsFiniteSet(MatchIds) /\ \A k \in MatchIds : f[k] = Part(g, order_matches[k], i)
    BY PartsType DEF TypeOK, MatchIds
  <2>2. ASSUME NEW k \in MatchIds PROVE Part(g, order_matches[k], i) \in Nat
    <3>1. order_matches[k].forward_quantity \in Nat /\ order_matches[k].backward_quantity \in Nat
      BY Rows DEF MatchType
    <3> QED BY <1>0, <3>1 DEF Part, GaveIn, Gave
  <2> HIDE DEF f
  <2>3. \A k \in MatchIds : f[k] \in Nat
    BY <2>1, <2>2
  <2>4. SumFunctionOnSet(f, MatchIds) \in Nat
    BY <2>1, <2>3, SumNat
  <2>5. PartSum(g, order_matches, i) = SumFunctionOnSet(f, MatchIds)
    BY DEF f, PartSum, MatchIds
  <2> QED BY <1>1, <2>4, <2>5
<1>3. r + s <= q
  BY <1>0, <1>1 DEF WithinQuantity, Books, Rest
<1> QED BY <1>1, <1>2, <1>3

\* No step leaves an order more than it was opened for.
LEMMA StepWithin ==
  ASSUME IInv, IInv', LoopsInv, WithinQuantity, [Next]_vars
  PROVE  WithinQuantity'
<1>0. PICK g \in BOOLEAN : g = TRUE
  OBVIOUS
<1>1. TypeOK /\ TypeOK' /\ Stays
  BY StepStays DEF IInv
<1> SUFFICES ASSUME NEW i \in OrderIds'
             PROVE  Books(g, orders', order_matches', i) <= orders'[i].give_quantity
  BY <1>0 DEF WithinQuantity, Books, Rest, PartSum, Parts, Part, GaveIn, Gave, GotIn, Got
<1>2. orders'[i] \in OrderType
  BY <1>1, RowsOf DEF TypeOK, OrderIds
<1>3. PartSum(g, order_matches', i) \in Int
  BY <1>1, PartSumType DEF TypeOK
<1>4. CASE i \in OrderIds
  <2>1. PICK b \in Int, c \in Int, q \in Int :
          /\ b = Books(g, orders, order_matches, i) /\ c = Books(g, orders', order_matches', i)
          /\ q = orders[i].give_quantity
    <3>1. Rest(g, orders[i]) \in Int /\ PartSum(g, order_matches, i) \in Int
      BY <1>1, <1>4, BooksType
    <3>2. Rest(g, orders'[i]) \in Int
      BY <1>2 DEF Rest, OrderType
    <3>3. orders[i].give_quantity \in Int
      BY <1>1, <1>4, Rows DEF OrderType
    <3> QED BY <1>3, <3>1, <3>2, <3>3 DEF Books
  <2>2. c <= b
    BY <1>4, <2>1, StepBooks DEF Balanced
  <2>3. b <= q /\ orders'[i].give_quantity = q
    BY <1>0, <1>1, <1>4, <2>1 DEF WithinQuantity, Stays, SameTerms
  <2> QED BY <2>1, <2>2, <2>3
<1>5. CASE i \notin OrderIds
  <2>1. PICK offer \in Offers : Order(offer)
    BY <1>5, Additions
  <2>2. PICK o, n : o = Affordable(offer) /\ n = Len(orders) + 1
    OBVIOUS
  <2>3. i = n /\ orders'[i] = OrderRow(o) /\ UNCHANGED order_matches
    BY <1>1, <1>5, <2>1, <2>2, OrderRows
  <2>4. orders'[i].give_remaining = orders'[i].give_quantity
    BY <2>3 DEF OrderRow
  <2>5. PartSum(g, order_matches', i) = 0
    <3> DEFINE f == Parts(g, order_matches, i)
    <3>1. IsFiniteSet(MatchIds) /\ \A k \in MatchIds : f[k] = Part(g, order_matches[k], i)
      BY <1>1, PartsType DEF TypeOK, MatchIds
    <3>2. ASSUME NEW k \in MatchIds PROVE Part(g, order_matches[k], i) = 0
      <4>1. i \notin {order_matches[k].tx0, order_matches[k].tx1}
        BY <1>1, <1>5 DEF TypeOK
      <4> QED BY <1>0, <4>1 DEF Part, GaveIn
    <3> HIDE DEF f
    <3>3. SumFunctionOnSet(f, MatchIds) = 0
      BY <3>1, <3>2, SumZero
    <3> QED BY <2>3, <3>3 DEF f, PartSum, MatchIds
  <2> QED BY <1>0, <1>2, <2>4, <2>5 DEF Books, Rest, OrderType
<1> QED BY <1>4, <1>5

\* Orders that are crossed after a step that took nothing back were crossed before.
LEMMA CrossedBefore ==
  ASSUME TypeOK, TypeOK', Stays, BTCIsOneSide, WithinQuantity,
         NEW i \in OrderIds, NEW j \in OrderIds, Crossed(i, j)',
         Less(orders[i], orders'[i]), Less(orders[j], orders'[j]),
         orders[i].status = "open", orders[j].status = "open"
  PROVE  Crossed(i, j)
<1>1. /\ i # j /\ Opposite(orders'[i], orders'[j])
      /\ FeeCovers(orders'[i], orders'[j]) /\ FeeCovers(orders'[j], orders'[i])
      /\ Suits(orders'[i], orders'[j]) /\ Suits(orders'[j], orders'[i])
      /\ ~MatchedBefore(i, j)'
  BY DEF Crossed
<1>2. /\ orders[i] \in OrderType /\ orders[j] \in OrderType
      /\ orders'[i] \in OrderType /\ orders'[j] \in OrderType
  <2>1. i \in OrderIds' /\ j \in OrderIds'
    BY DEF Stays
  <2> QED BY <2>1, Rows, RowsOf DEF TypeOK, OrderIds
<1>3. /\ InvolvesBTC(orders[i]) => orders[i].give_asset # orders[i].get_asset
      /\ InvolvesBTC(orders[j]) => orders[j].give_asset # orders[j].get_asset
      /\ orders[i].give_remaining <= orders[i].give_quantity
      /\ orders[j].give_remaining <= orders[j].give_quantity
  BY RestWithin DEF BTCIsOneSide
<1>4. Suits(orders[i], orders[j]) /\ Suits(orders[j], orders[i])
  BY <1>1, <1>2, <1>3, SuitsBefore
<1>5. /\ FeeCovers(orders[i], orders[j]) /\ FeeCovers(orders[j], orders[i])
      /\ Opposite(orders[i], orders[j])
  <2>1. /\ \A l \in {i, j} : /\ SameTerms(orders[l], orders'[l])
                             /\ orders'[l].fee_provided_remaining <= orders[l].fee_provided_remaining
                             /\ orders'[l].fee_provided_remaining \in Int
                             /\ orders[l].fee_provided_remaining \in Int
                             /\ orders[l].fee_required \in Int
    BY <1>2 DEF Less, OrderType
  <2>2. Opposite(orders[i], orders[j])
    BY <1>1, <2>1 DEF SameTerms, Opposite
  <2>3. ASSUME NEW x \in {i, j}, NEW y \in {i, j}, FeeCovers(orders'[x], orders'[y])
        PROVE  FeeCovers(orders[x], orders[y])
    <3>1. PICK w : w = (orders[x].fee_required * orders[y].give_quantity) \div orders[x].give_quantity
      OBVIOUS
    <3>2. w \in Int
      <4>1. PICK r \in Nat, g1 \in Nat \ {0}, g0 \in Nat \ {0} :
              r = orders[x].fee_required /\ g1 = orders[y].give_quantity /\ g0 = orders[x].give_quantity
        BY <1>2 DEF OrderType
      <4>2. r * g1 \in Int
        BY <4>1
      <4> QED BY <3>1, <4>1, <4>2
    <3>3. /\ orders[y].get_asset = BTC => orders'[x].fee_provided_remaining >= orders[y].fee_required
          /\ orders[y].give_asset = BTC => orders'[y].fee_provided_remaining >= w
      BY <2>1, <2>3, <3>1 DEF FeeCovers, SameTerms
    <3>4. /\ orders[y].get_asset = BTC => orders[x].fee_provided_remaining >= orders[y].fee_required
          /\ orders[y].give_asset = BTC => orders[y].fee_provided_remaining >= w
      BY <2>1, <3>2, <3>3
    <3> QED BY <3>1, <3>4 DEF FeeCovers
  <2> QED BY <1>1, <2>2, <2>3
<1>6. ~MatchedBefore(i, j)
  BY <1>1 DEF MatchedBefore, Stays, SameParts
<1> QED
  BY <1>1, <1>4, <1>5, <1>6 DEF Crossed

\* match() considers every order of the cache that is open and opposite.
LEMMA StartMatchTries ==
  ASSUME NEW os, NEW c, NEW i, NEW j, StartMatch(os, c, i), j \in c, j \in DOMAIN os, i # j,
         os[i].status = "open", os[j].status = "open", Opposite(os[j], os[i])
  PROVE  matching' = i /\ j \in candidates'
<1>1. j \in Matching(os, i)
  BY DEF Matching
<1>2. PICK known \in {DOMAIN os, c} :
        matching' = i /\ candidates' = Matching(os, i) \intersect known
  BY <1>1 DEF StartMatch
<1> QED BY <1>1, <1>2

\* Of two orders match() considers one first.
LEMMA BetterTotal ==
  ASSUME TypeOK, NEW i \in OrderIds, NEW j \in OrderIds, i # j
  PROVE  Better(orders, i, j) \/ Better(orders, j, i)
<1>1. PICK x \in Int, y \in Int : /\ x = orders[i].get_quantity * orders[j].give_quantity
                                  /\ y = orders[j].get_quantity * orders[i].give_quantity
  <2>1. \A l \in {i, j} : orders[l].get_quantity \in Int /\ orders[l].give_quantity \in Int
    BY Rows DEF OrderType
  <2> QED BY <2>1
<1>2. i \in Int /\ j \in Int
  BY Rows
<1> QED BY <1>1, <1>2 DEF Better

\* What was crossed is still to be tried, unless the step tried it.
LEMMA Inherited ==
  ASSUME TypeOK, TypeOK', Stays, BTCIsOneSide, WithinQuantity, CrossedIsTried,
         NEW i \in cached, NEW j \in cached, Crossed(i, j)',
         Less(orders[i], orders'[i]), Less(orders[j], orders'[j]),
         orders[i].status = "open", orders[j].status = "open"
  PROVE  Crossed(i, j) /\ ToBeTried(i, j)
<1>1. i \in OrderIds /\ j \in OrderIds
  BY DEF TypeOK
<1>2. Crossed(i, j)
  BY <1>1, CrossedBefore
<1> QED BY <1>2 DEF CrossedIsTried

\* An order that is kept has no more than before.
LEMMA KeptLess ==
  ASSUME TypeOK, NEW i \in OrderIds, orders'[i] = orders[i]
  PROVE  Less(orders[i], orders'[i])
BY Rows, LessItself

\* The steps that leave open orders as they are, and what is to be tried
LEMMA QuietStep ==
  ASSUME TypeOK, TypeOK', Stays, BTCIsOneSide, WithinQuantity, CrossedIsTried, cached' \subseteq cached,
         \A l \in OrderIds : orders'[l] = orders[l] \/ orders'[l].status # "open",
         UNCHANGED <<rematching, matching, candidates>>
  PROVE  CrossedIsTried'
<1> SUFFICES ASSUME NEW i \in cached', NEW j \in cached', Crossed(i, j)'
             PROVE  ToBeTried(i, j)'
  BY DEF CrossedIsTried
<1>1. i \in cached /\ j \in cached /\ i \in OrderIds /\ j \in OrderIds
  BY DEF TypeOK
<1>2. orders'[i].status = "open" /\ orders'[j].status = "open"
  BY DEF Crossed
<1>3. orders'[i] = orders[i] /\ orders'[j] = orders[j]
  BY <1>1, <1>2
<1>4. Less(orders[i], orders'[i]) /\ Less(orders[j], orders'[j])
  BY <1>1, <1>3, KeptLess
<1>5. ToBeTried(i, j)
  BY <1>1, <1>2, <1>3, <1>4, Inherited
<1> QED BY <1>5 DEF ToBeTried

\* order.parse matches the order it opens.
LEMMA OrderTries ==
  ASSUME TypeOK, TypeOK', Stays, BTCIsOneSide, WithinQuantity, CrossedIsTried,
         NEW offer \in Offers, Order(offer)
  PROVE  CrossedIsTried'
<1>1. PICK o, n : o = Affordable(offer) /\ n = Len(orders) + 1
  OBVIOUS
<1>2. /\ matching = None /\ n \notin OrderIds /\ OrderIds' = OrderIds \union {n} /\ Kept(OrderIds)
      /\ cached' \subseteq cached \union {n} /\ StartMatch(orders', cached', n)
      /\ UNCHANGED rematching
  BY <1>1, OrderRows
<1> SUFFICES ASSUME NEW i \in cached', NEW j \in cached', Crossed(i, j)'
             PROVE  ToBeTried(i, j)'
  BY DEF CrossedIsTried
<1>3. /\ i # j /\ orders'[i].status = "open" /\ orders'[j].status = "open"
      /\ Opposite(orders'[i], orders'[j]) /\ Opposite(orders'[j], orders'[i])
  BY OppositeBoth DEF Crossed
<1>4. /\ i \in DOMAIN orders' /\ j \in DOMAIN orders' /\ cached \subseteq OrderIds
  BY DEF TypeOK, OrderIds
<1>5. CASE i = n
  <2>1. matching' = i /\ j \in candidates'
    BY <1>2, <1>3, <1>4, <1>5, StartMatchTries
  <2> QED BY <2>1 DEF ToBeTried
<1>6. CASE j = n
  <2>1. matching' = j /\ i \in candidates'
    BY <1>2, <1>3, <1>4, <1>6, StartMatchTries
  <2> QED BY <2>1 DEF ToBeTried
<1>7. CASE i # n /\ j # n
  <2>1. i \in cached /\ j \in cached /\ i \in OrderIds /\ j \in OrderIds
    BY <1>2, <1>4, <1>7
  <2>2. orders'[i] = orders[i] /\ orders'[j] = orders[j]
    BY <1>2, <2>1 DEF Kept
  <2>3. Less(orders[i], orders'[i]) /\ Less(orders[j], orders'[j])
    BY <2>1, <2>2, KeptLess
  <2>4. ToBeTried(i, j)
    BY <1>3, <2>1, <2>2, <2>3, Inherited
  <2>5. i # None /\ j # None
    BY <2>1, Rows DEF None
  <2> QED BY <1>2, <2>4, <2>5 DEF ToBeTried
<1> QED BY <1>5, <1>6, <1>7

\* The trade: what was considered before it does not suit, and what comes after it
\* is still to be considered.
LEMMA TradeTries ==
  ASSUME IInv, TypeOK', LoopsInv, Stays, BTCIsOneSide, WithinQuantity, CrossedIsTried,
         NEW c \in candidates, MatchNext(c)
  PROVE  CrossedIsTried'
<1>1. /\ TypeOK /\ matching # None /\ Opposite(orders[c], orders[matching])
      /\ orders[c].status = "open" /\ orders[matching].status = "open"
      /\ candidates \subseteq OrderIds /\ matching \notin candidates
  BY DEF IInv, MatchNext, LoopsInv, TypeOK
<1>2. PICK f, b, fee, n : /\ f = Forward(orders[c], orders[matching])
                          /\ b = Backward(orders[c], orders[matching])
                          /\ fee = Fee(orders[c], orders[matching])
                          /\ n = Len(order_matches) + 1
  OBVIOUS
<1>3. /\ matching \in OrderIds /\ c \in OrderIds /\ c # matching
      /\ f \in Nat \ {0} /\ b \in Nat \ {0} /\ fee \in Int
      /\ OrderIds' = OrderIds /\ Kept(OrderIds \ {c, matching})
      /\ TradesRow(c, orders'[c], f, b, fee)
      /\ TradesRow(matching, orders'[matching], b, f, fee)
      /\ n \notin MatchIds /\ MatchIds' = MatchIds \union {n}
      /\ MadeMatch(order_matches'[n], c, f, b)
      /\ cached' \subseteq cached /\ UNCHANGED rematching
  BY <1>1, <1>2, TradeBooks
<1>4. /\ \A j \in candidates : Better(orders, j, c) => ~Trades(j)
      /\ \/ orders'[matching].status = "filled"
         \/ candidates' = {j \in candidates : Better(orders, c, j)} /\ matching' = matching
  BY DEF MatchNext
<1>5. fee >= 0
  <2>1. Forward(orders[c], orders[matching]) > 0 /\ Backward(orders[c], orders[matching]) > 0
    BY <1>2, <1>3
  <2>2. orders[matching].give_remaining <= orders[matching].give_quantity
    BY <1>1, <1>3, RestWithin
  <2>3. orders[c] \in OrderType /\ orders[matching] \in OrderType
    BY <1>1, <1>3, Rows
  <2> QED BY <1>2, <2>1, <2>2, <2>3, FeeWithin
<1>6. ASSUME NEW l \in OrderIds
      PROVE  Less(orders[l], orders'[l])
  <2>1. orders[l] \in OrderType
    BY <1>1, Rows
  <2>2. /\ orders[l].give_remaining \in Int /\ orders[l].fee_provided_remaining \in Int
        /\ orders[l].fee_required_remaining \in Int
    BY <2>1 DEF OrderType
  <2>3. CASE l = c
    BY <1>3, <1>5, <2>2, <2>3 DEF TradesRow, Moved, Less
  <2>4. CASE l = matching
    BY <1>3, <1>5, <2>2, <2>4 DEF TradesRow, Moved, Less
  <2>5. CASE l \notin {c, matching}
    BY <1>1, <1>3, <2>5, KeptLess DEF Kept
  <2> QED BY <2>3, <2>4, <2>5
<1>7. ASSUME NEW l \in OrderIds, orders'[l].status = "open"
      PROVE  orders[l].status = "open"
  BY <1>1, <1>3, <1>7 DEF Kept
\* The candidate j of the order that is matched
<1>t. PICK t : t = matching
  OBVIOUS
<1>8. ASSUME NEW j \in candidates, Crossed(t, j) \/ Crossed(j, t),
             ~MatchedBefore(t, j)', orders'[t].status = "open"
      PROVE  matching' = matching /\ j \in candidates'
  <2>1. j # c
    <3>1. CASE j = c
      <4>1. {order_matches'[n].tx0, order_matches'[n].tx1} = {t, j} /\ n \in MatchIds'
        BY <1>3, <1>t, <3>1 DEF MadeMatch
      <4> QED BY <1>8, <4>1 DEF MatchedBefore
    <3> QED BY <3>1
  <2>2. Trades(j)
    BY <1>8, <1>t DEF Crossed, Trades, MatchedBefore
  <2>3. Better(orders, c, j)
    BY <1>1, <1>3, <1>4, <2>1, <2>2, BetterTotal
  <2> QED BY <1>4, <1>8, <1>t, <2>3
<1> SUFFICES ASSUME NEW i \in cached', NEW j \in cached', Crossed(i, j)'
             PROVE  ToBeTried(i, j)'
  BY DEF CrossedIsTried
<1>9. /\ i \in cached /\ j \in cached /\ i \in OrderIds /\ j \in OrderIds
  BY <1>1, <1>3 DEF TypeOK
<1>10. /\ orders'[i].status = "open" /\ orders'[j].status = "open"
       /\ ~MatchedBefore(i, j)' /\ ~MatchedBefore(j, i)'
  BY DEF Crossed, MatchedBefore
<1>11. Crossed(i, j) /\ ToBeTried(i, j)
  BY <1>1, <1>6, <1>7, <1>9, <1>10, Inherited
<1>12. CASE \E l \in DOMAIN rematching : rematching[l] \in {i, j}
  BY <1>3, <1>12 DEF ToBeTried
<1>13. CASE matching = i /\ j \in candidates
  <2>1. matching' = matching /\ j \in candidates'
    BY <1>8, <1>10, <1>11, <1>13, <1>t
  <2> QED BY <1>13, <2>1 DEF ToBeTried
<1>14. CASE matching = j /\ i \in candidates
  <2>1. matching' = matching /\ i \in candidates'
    BY <1>8, <1>10, <1>11, <1>14, <1>t
  <2> QED BY <1>14, <2>1 DEF ToBeTried
<1> QED BY <1>11, <1>12, <1>13, <1>14 DEF ToBeTried

\* order.expire of a match: the orders that got something back are matched again.
LEMMA ExpireMatchTries ==
  ASSUME IInv, TypeOK', LoopsInv, Stays, BTCIsOneSide, WithinQuantity, CrossedIsTried,
         NEW k \in expiring, ExpireOrderMatch(k)
  PROVE  CrossedIsTried'
<1>1. PICK m : m = order_matches[k]
  OBVIOUS
<1>2. /\ m.tx0 \in OrderIds /\ m.tx1 \in OrderIds
      /\ \A i \in OrderIds : IF i \in {m.tx0, m.tx1} /\ ~IsDead(orders[i])
                             THEN GivenBack(m, i, orders'[i]) ELSE LeftAlone(i, orders'[i])
      /\ pc = "matches" /\ cached' \subseteq cached
      /\ rematching' = rematching \o <<m.tx0, m.tx1>>
  BY <1>1, ExpireOrderMatchRows
<1>3. TypeOK /\ matching = None
  BY <1>2 DEF IInv, LoopsInv
<1>4. /\ \A l \in DOMAIN rematching : l \in DOMAIN rematching' /\ rematching'[l] = rematching[l]
      /\ \E l \in DOMAIN rematching' : rematching'[l] = m.tx0
      /\ \E l \in DOMAIN rematching' : rematching'[l] = m.tx1
  <2>1. rematching \in Seq(OrderIds) /\ <<m.tx0, m.tx1>> \in Seq(OrderIds)
    BY <1>2, <1>3 DEF TypeOK
  <2>2. PICK len \in Nat : len = Len(rematching) /\ DOMAIN rematching = 1..len
    BY <2>1, LenProperties
  <2>3. /\ Len(rematching') = len + 2 /\ rematching' \in Seq(OrderIds)
        /\ \A l \in 1..(len + 2) : rematching'[l] = IF l <= len THEN rematching[l]
                                                     ELSE <<m.tx0, m.tx1>>[l - len]
    BY <1>2, <2>1, <2>2, ConcatProperties
  <2>4. DOMAIN rematching' = 1..(len + 2)
    BY <2>3, LenProperties
  <2>5. rematching'[len + 1] = m.tx0 /\ rematching'[len + 2] = m.tx1
    BY <2>2, <2>3
  <2> QED BY <2>2, <2>3, <2>4, <2>5
<1> SUFFICES ASSUME NEW i \in cached', NEW j \in cached', Crossed(i, j)'
             PROVE  ToBeTried(i, j)'
  BY DEF CrossedIsTried
<1>5. /\ i \in cached /\ j \in cached /\ i \in OrderIds /\ j \in OrderIds
      /\ orders'[i].status = "open" /\ orders'[j].status = "open"
  BY <1>2, <1>3 DEF TypeOK, Crossed
<1>6. CASE {i, j} \intersect {m.tx0, m.tx1} # {}
  BY <1>4, <1>6 DEF ToBeTried
<1>7. CASE {i, j} \intersect {m.tx0, m.tx1} = {}
  <2>1. ASSUME NEW l \in {i, j}
        PROVE  orders[l].status = "open" /\ Less(orders[l], orders'[l])
    <3>1. l \in OrderIds /\ LeftAlone(l, orders'[l]) /\ orders'[l].status = "open"
      BY <1>2, <1>5, <1>7
    <3>2. /\ orders[l].give_remaining \in Int /\ orders[l].fee_provided_remaining \in Int
          /\ orders[l].fee_required_remaining \in Int
      BY <1>3, <3>1, Rows DEF OrderType
    <3> QED BY <3>1, <3>2 DEF LeftAlone, Moved, Less
  <2>2. ToBeTried(i, j)
    BY <1>3, <1>5, <2>1, Inherited
  <2>3. i # None /\ j # None
    BY <1>3, <1>5, Rows DEF None
  <2> QED BY <1>3, <1>4, <2>2, <2>3 DEF ToBeTried
<1> QED BY <1>6, <1>7

\* The order that is taken from the list is matched again.
LEMMA RematchTries ==
  ASSUME TypeOK, TypeOK', Stays, BTCIsOneSide, WithinQuantity, CrossedIsTried, Rematch
  PROVE  CrossedIsTried'
<1>1. /\ matching = None /\ rematching # <<>> /\ rematching' = Tail(rematching)
      /\ StartMatch(orders, cached, Head(rematching)) /\ UNCHANGED <<orders, cached>>
  BY DEF Rematch, tables, cache
<1>2. /\ rematching \in Seq(OrderIds) /\ Head(rematching) = rematching[1]
      /\ \A l \in DOMAIN rematching :
           l # 1 => l - 1 \in DOMAIN rematching' /\ rematching'[l - 1] = rematching[l]
  <2>1. rematching \in Seq(OrderIds)
    BY DEF TypeOK
  <2>2. PICK len \in Nat : len = Len(rematching) /\ DOMAIN rematching = 1..len
    BY <2>1, LenProperties
  <2>3. /\ rematching' \in Seq(OrderIds) /\ Len(rematching') = len - 1
        /\ \A l \in 1..(len - 1) : rematching'[l] = rematching[l + 1]
    BY <1>1, <2>1, <2>2, HeadTailProperties
  <2>4. DOMAIN rematching' = 1..(len - 1)
    BY <2>3, LenProperties
  <2>5. ASSUME NEW l \in DOMAIN rematching, l # 1
        PROVE  l - 1 \in DOMAIN rematching' /\ rematching'[l - 1] = rematching[l]
    BY <2>2, <2>3, <2>4, <2>5
  <2> QED BY <2>1, <2>5
<1> SUFFICES ASSUME NEW i \in cached', NEW j \in cached', Crossed(i, j)'
             PROVE  ToBeTried(i, j)'
  BY DEF CrossedIsTried
<1>3. /\ i \in cached /\ j \in cached /\ i \in OrderIds /\ j \in OrderIds /\ i # j
      /\ orders[i].status = "open" /\ orders[j].status = "open"
      /\ Opposite(orders[i], orders[j]) /\ Opposite(orders[j], orders[i])
      /\ orders'[i] = orders[i] /\ orders'[j] = orders[j]
  BY <1>1, OppositeBoth DEF TypeOK, Crossed
<1>4. ToBeTried(i, j)
  BY <1>3, KeptLess, Inherited
<1>5. i # None /\ j # None
  BY <1>3, Rows DEF None
<1>6. PICK l \in DOMAIN rematching : rematching[l] \in {i, j}
  BY <1>1, <1>4, <1>5 DEF ToBeTried
<1>7. CASE l # 1
  BY <1>2, <1>6, <1>7 DEF ToBeTried
<1>8. CASE l = 1 /\ rematching[l] = i
  <2>1. matching' = i /\ j \in candidates'
    BY <1>1, <1>2, <1>3, <1>8, StartMatchTries DEF OrderIds
  <2> QED BY <2>1 DEF ToBeTried
<1>9. CASE l = 1 /\ rematching[l] = j
  <2>1. matching' = j /\ i \in candidates'
    BY <1>1, <1>2, <1>3, <1>9, StartMatchTries DEF OrderIds
  <2> QED BY <2>1 DEF ToBeTried
<1> QED BY <1>6, <1>7, <1>8, <1>9

\* The last candidate was considered.
LEMMA MatchEndTries ==
  ASSUME TypeOK, TypeOK', Stays, BTCIsOneSide, WithinQuantity, CrossedIsTried, MatchEnd
  PROVE  CrossedIsTried'
<1>1. /\ \A l \in candidates : ~Trades(l)
      /\ UNCHANGED <<orders, order_matches, cached, rematching>>
  BY DEF MatchEnd, tables, cache
<1> SUFFICES ASSUME NEW i \in cached', NEW j \in cached', Crossed(i, j)'
             PROVE  ToBeTried(i, j)'
  BY DEF CrossedIsTried
<1>2. /\ i \in cached /\ j \in cached /\ i \in OrderIds /\ j \in OrderIds
      /\ orders[i].status = "open" /\ orders[j].status = "open"
      /\ orders'[i] = orders[i] /\ orders'[j] = orders[j]
  BY <1>1 DEF TypeOK, Crossed
<1>3. Crossed(i, j) /\ ToBeTried(i, j)
  BY <1>2, KeptLess, Inherited
<1>4. ~(matching = i /\ j \in candidates) /\ ~(matching = j /\ i \in candidates)
  BY <1>1, <1>3 DEF Crossed, Trades, MatchedBefore
<1> QED BY <1>1, <1>3, <1>4 DEF ToBeTried

\* Every step leaves what is crossed to be tried.
LEMMA StepBook ==
  ASSUME IInv, IInv', LoopsInv, FairInv, BookInv, [Next]_vars
  PROVE  BookInv'
<1>1. /\ TypeOK /\ TypeOK' /\ Stays /\ BTCIsOneSide /\ WithinQuantity /\ CrossedIsTried
  BY StepStays DEF IInv, FairInv, BookInv
<1>2. WithinQuantity'
  BY <1>1, StepWithin
<1> DEFINE Over == pc' \in {"orders", "transactions"} => rematching' = <<>>
<1>3. UNCHANGED <<pc, rematching>> => Over
  BY DEF BookInv
<1>4. SUFFICES Over /\ CrossedIsTried'
  BY <1>2 DEF BookInv
<1>5. ASSUME UNCHANGED <<tables, cache, rematching, matching, candidates>>
      PROVE  CrossedIsTried'
  BY <1>1, <1>5, QuietStep DEF tables, cache
<1>6. ASSUME NEW offer \in Offers, Order(offer) PROVE Over /\ CrossedIsTried'
  <2>1. UNCHANGED <<pc, rematching>>
    BY <1>6 DEF Order
  <2> QED BY <1>1, <1>3, <1>6, <2>1, OrderTries
<1>7. ASSUME NEW i \in OrderIds, Cancel(i) PROVE Over /\ CrossedIsTried'
  <2>1. /\ Kept(OrderIds \ {i}) /\ Marked(orders[i], orders'[i], "cancelled")
        /\ cached' \subseteq cached /\ UNCHANGED <<pc, rematching, matching, candidates>>
    BY <1>1, <1>7, CancelRows DEF loops
  <2>2. \A l \in OrderIds : orders'[l] = orders[l] \/ orders'[l].status # "open"
    BY <2>1 DEF Kept, Marked
  <2>3. CrossedIsTried'
    BY <1>1, <2>1, <2>2, QuietStep
  <2> QED BY <1>3, <2>1, <2>3
<1>8. ASSUME NEW i \in due, ExpireOrder(i) PROVE Over /\ CrossedIsTried'
  <2>1. /\ Kept(OrderIds \ {i}) /\ Marked(orders[i], orders'[i], "expired")
        /\ cached' \subseteq cached /\ UNCHANGED <<pc, rematching, matching, candidates>>
    BY <1>1, <1>8, ExpireOrderRows
  <2>2. \A l \in OrderIds : orders'[l] = orders[l] \/ orders'[l].status # "open"
    BY <2>1 DEF Kept, Marked
  <2>3. CrossedIsTried'
    BY <1>1, <2>1, <2>2, QuietStep
  <2> QED BY <1>3, <2>1, <2>3
<1>9. ASSUME NEW k \in MatchIds, NEW source \in Addresses, NEW destination \in Addresses,
             BTCPay(k, source, destination)
      PROVE  Over /\ CrossedIsTried'
  <2>1. /\ \A i \in OrderIds : orders'[i] = orders[i] \/ Marked(orders[i], orders'[i], "filled")
        /\ cached' \subseteq cached /\ UNCHANGED <<pc, rematching, matching, candidates>>
    BY <1>1, <1>9, BTCPayRows DEF loops
  <2>2. \A l \in OrderIds : orders'[l] = orders[l] \/ orders'[l].status # "open"
    BY <2>1 DEF Marked
  <2>3. CrossedIsTried'
    BY <1>1, <2>1, <2>2, QuietStep
  <2> QED BY <1>3, <2>1, <2>3
<1>10. ASSUME NEW i \in candidates, MatchNext(i) PROVE Over /\ CrossedIsTried'
  <2>1. UNCHANGED <<pc, rematching>>
    BY <1>10 DEF MatchNext
  <2> QED BY <1>1, <1>3, <1>10, <2>1, TradeTries
<1>11. ASSUME NEW k \in expiring, ExpireOrderMatch(k) PROVE Over /\ CrossedIsTried'
  <2>1. pc' = "matches"
    BY <1>11 DEF ExpireOrderMatch
  <2> QED BY <1>1, <1>11, <2>1, ExpireMatchTries
<1>12. CASE MatchEnd
  <2>1. UNCHANGED <<pc, rematching>>
    BY <1>12 DEF MatchEnd
  <2> QED BY <1>1, <1>3, <1>12, <2>1, MatchEndTries
<1>13. CASE NextBlock
  BY <1>5, <1>13 DEF NextBlock
<1>14. CASE MatchesExpired
  BY <1>5, <1>14 DEF MatchesExpired, loops
<1>15. CASE Rematch
  <2>1. pc' = "rematch"
    BY <1>15 DEF Rematch
  <2> QED BY <1>1, <1>15, <2>1, RematchTries
<1>16. CASE MatchedAgain
  BY <1>5, <1>16 DEF MatchedAgain
<1>17. CASE OrdersExpired
  BY <1>5, <1>17 DEF OrdersExpired, loops, BookInv
<1>18. CASE UNCHANGED vars
  BY <1>3, <1>5, <1>18 DEF vars, tables, cache
<1>19. CASE InvalidOrder
  <2>1. /\ cached' \subseteq cached
        /\ UNCHANGED <<orders, pc, rematching, matching, candidates>>
    BY <1>1, <1>19, InvalidOrderRows
  <2>2. CrossedIsTried'
    BY <1>1, <2>1, QuietStep
  <2> QED BY <1>3, <2>1, <2>2
<1> QED
  BY <1>6, <1>7, <1>8, <1>9, <1>10, <1>11, <1>12, <1>13, <1>14, <1>15, <1>16, <1>17, <1>18, <1>19
     DEF Next

\* The book is never crossed between transactions, whatever was traded, cancelled,
\* paid or expired before.
THEOREM BookStaysUncrossed == Spec => []BookIsNotCrossed
<1>1. Init => BookInv
  <2> SUFFICES ASSUME Init PROVE BookInv
    OBVIOUS
  <2>1. OrderIds = {} /\ cached = {} /\ rematching = <<>>
    BY DEF Init, OrderIds
  <2> QED
    BY <2>1 DEF BookInv, WithinQuantity, CrossedIsTried
<1>2. IInv /\ IInv' /\ LoopsInv /\ FairInv /\ BookInv /\ [Next]_vars => BookInv'
  BY StepBook
<1>3. IInv /\ BookInv => BookIsNotCrossed
  <2> SUFFICES ASSUME IInv, BookInv, CanParse, NEW i \in cached, NEW j \in cached, Crossed(i, j)
               PROVE  FALSE
    BY DEF BookIsNotCrossed, Crossed
  <2>1. ToBeTried(i, j) /\ rematching = <<>> /\ matching = None
    BY DEF BookInv, CrossedIsTried, CanParse
  <2>2. i # None /\ j # None
    BY Rows DEF IInv, TypeOK, None
  <2> QED BY <2>1, <2>2 DEF ToBeTried
<1> QED
  BY <1>1, <1>2, <1>3, FairInvariant, PTL DEF Spec
=============================================================================
