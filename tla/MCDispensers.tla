----------------------------- MODULE MCDispensers -----------------------------
\* Instances of Dispensers for TLC.
EXTENDS Dispensers

Asks(asset, give, escrow, rate, oracle) ==
  [asset |-> asset, give_quantity |-> give, escrow_quantity |-> escrow,
   satoshirate |-> rate, oracle_address |-> oracle]

\* "a" has a dispenser that "b" opened there under the earlier rules.
Old == <<NewDispenser("a", "b", Asks("A", 2, 4, 2, NoOracle))>>
Offered == {Asks("A", 2, 4, 2, NoOracle), Asks("A", 3, 5, 1, NoOracle),
            Asks("B", 8, 15, 1, NoOracle), Asks("B", 1, 2, 2, "o")}
Purse == [x \in Address |-> [s \in Asset |-> IF s = "A" THEN 6 ELSE
                                             IF x = "a" THEN 15 ELSE 0]]
Prices == {0, 1, -1}
===============================================================================
