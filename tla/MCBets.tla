-------------------------------- MODULE MCBets --------------------------------
\* Instances of Bets for TLC.
EXTENDS Bets

On(type, deadline, wager, counterwager, expiration) ==
  [bet_type |-> type, deadline |-> deadline, wager |-> wager,
   counterwager |-> counterwager, target_value |-> 1, expiration |-> expiration]
Says(timestamp, value, fee, text) ==
  [timestamp |-> timestamp, value |-> value, fee_fraction |-> fee, text |-> text]

\* Bets of 5 against 3, 3 against 4, 5 against 4 and 4 against 5, with a deadline that
\* the first broadcast leaves ahead, and one that gives no odds.  Two of the first kind
\* and two of the second, sent by turns, are left crossed by the rounding of a stake.
Sent == {On(Equal, 2, 5, 3, 1), On(NotEqual, 2, 3, 4, 1), On(NotEqual, 2, 5, 4, 0),
         On(Equal, 2, 4, 5, 1), On(NotEqual, 3, 13, 0, 1)}
Said == {Says(1, 0, 1, "words"), Says(2, 1, 1, "words"), Says(3, 0, 0, "words"),
         Says(2, -2, 1, "words"), Says(3, -3, 1, "none"), Says(2, 0, 0, "lock")}
Purse == [x \in Address |-> IF x = "a" THEN 12 ELSE IF x = "b" THEN 7 ELSE 0]
===============================================================================
