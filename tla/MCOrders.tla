------------------------------- MODULE MCOrders -------------------------------
\* Instances of Orders for TLC: who holds what, and what the orders say.
EXTENDS Orders

MCFunds == [k \in Addresses \X Assets |-> IF k[2] = XCP THEN 4 ELSE 8]

Offering(a, give, give_quantity, get, get_quantity, expiration, required, provided) ==
  [source |-> a, give_asset |-> give, give_quantity |-> give_quantity,
   get_asset |-> get, get_quantity |-> get_quantity, expiration |-> expiration,
   fee_required |-> required, fee_provided |-> provided]

\* Orders for BTC: a seller, and buyers at two prices who provide the fee.
Sell == Offering("alice", "A", 6, BTC, 6, 2, 2, 0)
Buy == Offering("bob", BTC, 2, "A", 2, 1, 0, 2)
BuyDear == Offering("bob", BTC, 6, "A", 2, 0, 0, 3)

\* Orders without BTC at prices that round: a buyer who pays more than the one
\* seller asks and less than the other; the third order of the seller is for what
\* is left of the balance.
SellA == Offering("alice", "A", 3, XCP, 2, 1, 0, 0)
SellDear == Offering("alice", "A", 2, XCP, 4, 1, 0, 0)
BuyA == Offering("bob", XCP, 3, "A", 3, 1, 0, 0)

Market == {Sell, Buy, BuyDear, SellA, SellDear, BuyA}
=============================================================================
