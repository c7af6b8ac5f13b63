------------------------------ MODULE MCHoldings ------------------------------
\* Instances of Holdings for TLC.
EXTENDS Holdings

CONSTANTS alice, bob, carol, burned

\* Two outputs at first, of alice and of bob; 2 A are attached to the first.
Owners == <<alice, bob>>
Purse == [h \in Holder |->
  CASE h = alice -> [s \in Asset |-> IF s = "A" THEN 3 ELSE 12]
    [] h = bob -> [s \in {XCP} |-> 1]
    [] h = <<0, 0>> -> [s \in {"A"} |-> 2]
    [] OTHER -> [s \in {} |-> 0]]
IssuedAt == [s \in {"A"} |-> alice]
Gas == [n \in 0..MaxTxs |-> n]

Give(asset, to, q) == [asset |-> asset, destination |-> to, quantity |-> q]
Attach(asset, q, vout) ==
  [kind |-> "attach", asset |-> asset, quantity |-> q, vout |-> vout]
Plain == <<bob>>
Data == <<OpReturn>>
DataFirst == <<OpReturn, bob>>
ChangeTwice == <<OpReturn, bob, alice>>
DataSecond == <<bob, OpReturn, alice>>
DataLast == <<bob, alice, OpReturn>>
BurnWithData == <<burned, OpReturn, alice>>
BurnBeforeData == <<burned, bob, OpReturn>>
DataTwice == <<bob, OpReturn, OpReturn>>
As(m, outs) == [message |-> m, outs |-> outs]
None == [kind |-> "none"]

\* Outputs spent, with and without data, and attached to, by all kinds of transactions
UtxoForms ==
  {As(None, Plain), As(None, Data), As(None, DataFirst), As(None, DataLast),
   As([kind |-> "detach", destination |-> Nobody], DataSecond),
   As([kind |-> "detach", destination |-> bob], DataLast),
   As([kind |-> "detach", destination |-> bob], BurnWithData),
   As(Attach("A", 1, 0), BurnBeforeData),
   As(Attach("A", 1, -1), DataSecond), As(Attach("A", 0, -1), Data),
   As(Attach(XCP, 2, 0), DataFirst), As(Attach(XCP, 1, 2), ChangeTwice),
   As(Attach("A", 3, 2), DataTwice), As(Attach("A", 3, 1), DataSecond)}
\* and what addresses send of all that they hold
AddressForms ==
  {As([kind |-> "send", asset |-> "A", quantity |-> 4], DataSecond),
   As([kind |-> "enhanced_send", send |-> Give("A", bob, 4)], Data),
   As([kind |-> "mpma", sends |-> {Give("A", bob, 2), Give("A", carol, 2)}], Data),
   As([kind |-> "mpma", sends |-> {Give("A", bob, 2), Give(XCP, bob, 2)}], Data),
   As([kind |-> "sweep", destination |-> bob, flags |-> {"balances", "ownership"}], Data),
   As([kind |-> "sweep", destination |-> alice, flags |-> {"ownership"}], Data)}
All3 == UtxoForms \cup AddressForms
===============================================================================
