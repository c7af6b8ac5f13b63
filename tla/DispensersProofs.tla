--------------------------- MODULE DispensersProofs ---------------------------
(***************************************************************************)
(* Theorems about Dispensers, for all addresses, assets, offers, payments  *)
(* and delays: the types are kept, an address never has two dispensers of  *)
(* an asset to give from, its books balance, none of an asset is created   *)
(* or lost, parsing stops for a reason only, and there is no way back for  *)
(* a dispenser that is closing or closed.                                  *)
(*                                                                         *)
(* A step changes rows and appends at most one, and what it may do to each *)
(* is the same for all of them (RowsStep).  OpenDispenser is the one that  *)
(* appends, after Live() found no row; that this query, which looks at the *)
(* last row of an address and asset only, overlooks none is the invariant  *)
(* OneLiveDispenser itself.  That a row which is due closes before any     *)
(* transaction needs that no payment is half parsed when a block begins.   *)
(*                                                                         *)
(* Nothing is lost: what leaves a balance goes to a row (OneForOne), and   *)
(* of an asset at most one row gives for an output (OnePerAsset).  It      *)
(* needs that who closes a dispenser is an address to be credited, and     *)
(* that a payment goes to others: to the payer and to the address of the   *)
(* dispenser two different amounts are credited.                           *)
(***************************************************************************)
EXTENDS Dispensers, SumTheorems, SequenceTheorems, TLAPS

\* A dispenser that is closing has not missed its block, and lies within the delay.
ClosingInTime ==
  \A i \in DOMAIN dispensers : dispensers[i].status = "closing" =>
    dispensers[i].close_block_index \in block_index..(block_index + CloseDelay)

\* A dispenser that is due waits for no payment that is half parsed.
DueBeforePayments == Pending # {} => paying = NoTx

\* The books of a dispenser.
Books(d) == LiveCanGive(d) /\ NothingIsLost(d) /\ IsPaidFor(d)
BooksBalance == \A i \in DOMAIN dispensers : Books(dispensers[i])

\* Who closes a dispenser is an address, to be credited what is left.
ClosersAreKnown ==
  \A i \in DOMAIN dispensers : dispensers[i].status = "closing" =>
    dispensers[i].last_status_tx_source \in Address

\* Nobody pays himself: the outputs of a payment go to others.
PaysOthers ==
  \A k \in DOMAIN paying.outs :
    paying.source \in Address /\ paying.outs[k].destination # paying.source

IInv ==
  /\ TypeOK /\ OneLiveDispenser /\ ClosingInTime /\ DueBeforePayments /\ BooksBalance
  /\ ClosersAreKnown /\ PaysOthers /\ AssetIsConserved /\ StopsForAReason

\* What a step does to a row.
RowStep(d, e) ==
  /\ e.source = d.source /\ e.asset = d.asset
  /\ d.status = "closed" => e = d
  /\ d.status = "closing" =>
       /\ e.status # "open" /\ e.refills = d.refills
       /\ e.last_status_tx_source = d.last_status_tx_source
       /\ e.close_block_index = d.close_block_index
  /\ d.status # "closing" /\ e.status = "closing" =>
       /\ e.close_block_index = block_index + CloseDelay /\ CloseDelay # 0
       /\ e.last_status_tx_source \in Address
  /\ Books(d) => Books(e)

RowsStep ==
  /\ DOMAIN dispensers \subseteq DOMAIN dispensers'
  /\ \A i \in DOMAIN dispensers : RowStep(dispensers[i], dispensers'[i])
  /\ \A i \in DOMAIN dispensers' \ DOMAIN dispensers :
       /\ i = Len(dispensers) + 1 /\ dispensers'[i].status = "open"
       /\ Live(dispensers'[i].source, dispensers'[i].asset) = {}
       /\ Books(dispensers'[i])

----------------------------------------------------------------------------
\* Amounts

\* A quotient of integers, rounded down, is an integer.
LEMMA FloatFloorInt ==
  ASSUME NEW a \in Nat, NEW b \in Nat \ {0}
  PROVE  FloatFloor(a, b) \in Int
<1>1. a \div b \in Int
  OBVIOUS
<1> QED
  BY <1>1 DEF FloatFloor

\* What a dispenser gives for a payment is an integer, and so is what it has left.
LEMMA GivenInt ==
  ASSUME TypeOK, NEW d \in Dispenser, NEW btc \in Payment
  PROVE  ActuallyGiven(d, btc) \in Int /\ GiveRemaining(d, btc) \in Int
<1>1. /\ d.give_quantity \in Nat \ {0} /\ d.give_remaining \in Nat
      /\ d.satoshirate \in Nat \ {0} /\ btc \in Nat
      /\ d.oracle_address \in Oracle \cup {NoOracle}
  BY DispensersAssumption DEF Dispenser
<1>2. RemainingDispenses(d) \in Int
  BY <1>1, FloatFloorInt DEF RemainingDispenses
<1>3. MustGive(d, btc) \in Int
  <2>1. CASE d.oracle_address = NoOracle
    BY <1>1, <2>1 DEF MustGive
  <2>2. CASE d.oracle_address # NoOracle
    <3> DEFINE v == prices[d.oracle_address].value
    <3>1. v \in Int
      BY <1>1, <2>2 DEF TypeOK, Feed
    <3> HIDE DEF v
    <3>2. btc * v \in Int
      BY <1>1, <3>1
    <3>3. (btc * v) \div d.satoshirate \in Int
      BY <1>1, <3>2
    <3> QED
      BY <2>2, <3>3 DEF MustGive, v
  <2> QED
    BY <2>1, <2>2
<1>4. ActuallyGiven(d, btc) \in Int
  BY <1>1, <1>2, <1>3 DEF ActuallyGiven
<1> QED
  BY <1>1, <1>4 DEF GiveRemaining

\* When the parsing of an output raises nothing, the amounts are not negative.
LEMMA GivenNat ==
  ASSUME TypeOK, NEW out \in [destination : Address, btc_amount : Payment], ~Raises(out),
         NEW i \in Dispensing(out)
  PROVE  /\ i \in DOMAIN dispensers /\ dispensers[i] \in Dispenser
         /\ dispensers[i].status # "closed"
         /\ ActuallyGiven(dispensers[i], out.btc_amount) \in Nat
         /\ GiveRemaining(dispensers[i], out.btc_amount) \in Nat
<1>1. /\ i \in DOMAIN dispensers /\ i \in Live(out.destination, dispensers[i].asset)
  BY DEF Dispensing
<1>2. dispensers[i] \in Dispenser
  BY <1>1 DEF TypeOK
<1>3. dispensers[i].status # "closed"
  BY <1>1 DEF Live
<1>4. /\ ~ (GiveRemaining(dispensers[i], out.btc_amount) < 0)
      /\ ~ (ActuallyGiven(dispensers[i], out.btc_amount) < 0)
  BY <1>1 DEF Raises
<1>5. /\ ActuallyGiven(dispensers[i], out.btc_amount) \in Int
      /\ GiveRemaining(dispensers[i], out.btc_amount) \in Int
  BY <1>2, GivenInt
<1> QED
  BY <1>1, <1>2, <1>3, <1>4, <1>5

\* A credit keeps the type of the balances,
LEMMA CreditKeepsTypes ==
  ASSUME NEW b \in [Address -> [Asset -> Nat]], NEW a, NEW s \in Asset, NEW q \in Nat
  PROVE  Credited(b, a, s, q) \in [Address -> [Asset -> Nat]]
<1>1. CASE a \in Address
  BY <1>1 DEF Credited
<1>2. CASE a \notin Address
  BY <1>2 DEF Credited
<1> QED
  BY <1>1, <1>2

\* and so does a debit of what there is.
LEMMA DebitKeepsTypes ==
  ASSUME NEW b \in [Address -> [Asset -> Nat]], NEW a \in Address, NEW s \in Asset,
         NEW q \in Nat, b[a][s] >= q
  PROVE  Debited(b, a, s, q) \in [Address -> [Asset -> Nat]]
BY DEF Debited

----------------------------------------------------------------------------
\* Rows: what the updates make of one

\* A refill is a step of a row that is open.
LEMMA RefilledRow ==
  ASSUME NEW d \in Dispenser, NEW q \in Nat, d.status = "open"
  PROVE  Refilled(d, q) \in Dispenser /\ RowStep(d, Refilled(d, q))
<1> DEFINE e == Refilled(d, q)
<1>1. /\ d.give_remaining + q \in Nat /\ d.escrowed + q \in Nat /\ d.refills + 1 \in Nat
  BY DEF Dispenser
<1>2. e \in Dispenser
  BY <1>1 DEF Refilled, Dispenser
<1>3. e.source = d.source /\ e.asset = d.asset /\ e.status = d.status
  BY DEF Refilled, Dispenser
<1>4. Books(d) => Books(e)
  <2>1. /\ e.give_remaining = d.give_remaining + q /\ e.escrowed = d.escrowed + q
        /\ e.dispensed = d.dispensed /\ e.income = d.income
        /\ e.give_quantity = d.give_quantity /\ e.satoshirate = d.satoshirate
        /\ e.oracle_address = d.oracle_address
    BY DEF Refilled, Dispenser
  <2>2. /\ d.give_remaining \in Nat /\ d.dispensed \in Nat /\ d.escrowed \in Nat
        /\ d.give_quantity \in Nat
    BY DEF Dispenser
  <2> HIDE DEF e
  <2>3. LiveCanGive(d) => LiveCanGive(e)
    BY <1>3, <2>1, <2>2 DEF LiveCanGive
  <2>4. NothingIsLost(d) => NothingIsLost(e)
    BY <1>3, <2>1, <2>2 DEF NothingIsLost
  <2>5. IsPaidFor(d) => IsPaidFor(e)
    BY <2>1 DEF IsPaidFor
  <2> QED
    BY <2>3, <2>4, <2>5 DEF Books
<1> QED
  BY <1>2, <1>3, <1>4 DEF RowStep

\* Closing a row that is live empties it.
LEMMA ClosedRow ==
  ASSUME NEW d \in Dispenser, d.status # "closed"
  PROVE  Closed(d) \in Dispenser /\ RowStep(d, Closed(d))
<1> DEFINE e == Closed(d)
<1>1. e \in Dispenser
  BY DEF Closed, Dispenser, Status
<1>2. /\ e.source = d.source /\ e.asset = d.asset /\ e.status = "closed"
      /\ e.refills = d.refills /\ e.last_status_tx_source = d.last_status_tx_source
      /\ e.close_block_index = d.close_block_index
  BY DEF Closed, Dispenser
<1>3. Books(d) => Books(e)
  <2>1. /\ e.give_remaining = 0 /\ e.dispensed = d.dispensed /\ e.income = d.income
        /\ e.give_quantity = d.give_quantity /\ e.satoshirate = d.satoshirate
        /\ e.oracle_address = d.oracle_address
    BY DEF Closed, Dispenser
  <2> QED
    BY <1>2, <2>1 DEF Books, LiveCanGive, NothingIsLost, IsPaidFor
<1> QED
  BY <1>1, <1>2, <1>3 DEF RowStep

\* A row that starts closing keeps what it holds, for a block to come.
LEMMA ClosingRow ==
  ASSUME TypeOK, NEW d \in Dispenser, NEW source \in Address, d.status = "open", CloseDelay # 0
  PROVE  Closing(d, source) \in Dispenser /\ RowStep(d, Closing(d, source))
<1> DEFINE e == Closing(d, source)
           due == block_index + CloseDelay
<1>1. due \in Nat
  BY DispensersAssumption DEF TypeOK
<1>2. e = [d EXCEPT !.status = "closing", !.last_status_tx_source = source,
                    !.close_block_index = due]
  BY DEF Closing
<1> HIDE DEF e, due
<1>3. e \in Dispenser
  BY <1>1, <1>2 DEF Dispenser, Status
<1>4. /\ e.source = d.source /\ e.asset = d.asset /\ e.close_block_index = due
      /\ e.last_status_tx_source = source
  BY <1>2 DEF Dispenser
<1>5. Books(d) => Books(e)
  <2>1. /\ e.give_remaining = d.give_remaining /\ e.escrowed = d.escrowed
        /\ e.dispensed = d.dispensed /\ e.income = d.income
        /\ e.give_quantity = d.give_quantity /\ e.satoshirate = d.satoshirate
        /\ e.oracle_address = d.oracle_address /\ e.status = "closing"
    BY <1>2 DEF Dispenser
  <2> QED
    BY <2>1 DEF Books, LiveCanGive, NothingIsLost, IsPaidFor
<1> QED
  BY <1>3, <1>4, <1>5 DEF RowStep, e, due

\* What m lots cost, when m is at most what a payment is enough for
LEMMA LotsArePaid ==
  ASSUME NEW btc \in Nat, NEW rate \in Nat \ {0}, NEW lot \in Nat, NEW m \in Int,
         m <= btc \div rate
  PROVE  (lot * m) * rate <= btc * lot
<1> DEFINE n == btc \div rate
<1>1. n \in Int /\ n * rate <= btc
  OBVIOUS
<1> HIDE DEF n
<1>2. (n - m) * rate >= 0
  BY <1>1 DEF n
<1>3. m * rate <= btc
  BY <1>1, <1>2
<1>4. m * rate \in Int /\ lot * (btc - m * rate) >= 0
  BY <1>3
<1>5. lot * (m * rate) <= lot * btc
  BY <1>4
<1> QED
  BY <1>5

\* A payment to a dispenser leaves its books balanced.
LEMMA DispensedBooks ==
  ASSUME NEW d \in Dispenser, NEW btc \in Nat, d.status # "closed", Books(d),
         ActuallyGiven(d, btc) \in Nat, GiveRemaining(d, btc) \in Nat
  PROVE  Books(Dispensed(d, btc))
<1> DEFINE e == Dispensed(d, btc)
           given == ActuallyGiven(d, btc)
           left == GiveRemaining(d, btc)
<1>1. /\ e.status = DispensedStatus(d, btc)
      /\ e.give_remaining = IF Closes(d, btc) THEN 0 ELSE left
      /\ e.dispensed = d.dispensed + given /\ e.income = d.income + btc
      /\ e.give_quantity = d.give_quantity /\ e.satoshirate = d.satoshirate
      /\ e.oracle_address = d.oracle_address /\ e.escrowed = d.escrowed
  BY DEF Dispensed, Dispenser
<1>2. /\ d.give_remaining \in Nat /\ d.dispensed \in Nat /\ d.escrowed \in Nat
      /\ d.income \in Nat /\ d.give_quantity \in Nat /\ d.satoshirate \in Nat \ {0}
  BY DEF Dispenser
<1>3. left = d.give_remaining - given /\ given \in Nat /\ left \in Nat
  BY DEF GiveRemaining
<1>4. ~Closes(d, btc) => left >= d.give_quantity
  BY <1>2, <1>3 DEF Closes
<1> HIDE DEF e, given, left
<1>5. LiveCanGive(e) /\ NothingIsLost(e)
  <2>1. CASE Closes(d, btc)
    BY <1>1, <2>1 DEF LiveCanGive, NothingIsLost, DispensedStatus
  <2>2. CASE ~Closes(d, btc)
    <3>1. e.status = d.status /\ e.give_remaining = left
      BY <1>1, <2>2 DEF DispensedStatus
    <3>2. d.give_remaining + d.dispensed = d.escrowed
      BY DEF Books, NothingIsLost
    <3>3. e.give_remaining + e.dispensed = e.escrowed
      BY <1>1, <1>2, <1>3, <3>1, <3>2
    <3> QED
      BY <1>1, <1>4, <2>2, <3>1, <3>3 DEF LiveCanGive, NothingIsLost
  <2> QED
    BY <2>1, <2>2
<1>6. IsPaidFor(e)
  <2> SUFFICES ASSUME d.oracle_address = NoOracle
               PROVE  e.dispensed * e.satoshirate <= e.income * e.give_quantity
    BY <1>1 DEF IsPaidFor
  <2>1. d.dispensed * d.satoshirate <= d.income * d.give_quantity
    BY DEF Books, IsPaidFor
  <2>2. given * d.satoshirate <= btc * d.give_quantity
    <3> DEFINE m == IF MustGive(d, btc) < RemainingDispenses(d)
                      THEN MustGive(d, btc) ELSE RemainingDispenses(d)
    <3>1. MustGive(d, btc) = btc \div d.satoshirate
      BY DEF MustGive
    <3>2. RemainingDispenses(d) \in Int
      <4>1. d.give_quantity \in Nat \ {0}
        BY DEF Dispenser
      <4> QED
        BY <1>2, <4>1, FloatFloorInt DEF RemainingDispenses
    <3>3. m \in Int /\ m <= btc \div d.satoshirate
      BY <1>2, <3>1, <3>2
    <3>4. given = d.give_quantity * m
      BY DEF given, ActuallyGiven
    <3> HIDE DEF m
    <3> QED
      BY <1>2, <3>3, <3>4, LotsArePaid
  <2>3. (d.dispensed + given) * d.satoshirate
          = d.dispensed * d.satoshirate + given * d.satoshirate
    BY <1>2, <1>3
  <2>4. (d.income + btc) * d.give_quantity
          = d.income * d.give_quantity + btc * d.give_quantity
    BY <1>2
  <2>5. /\ d.dispensed * d.satoshirate \in Int /\ given * d.satoshirate \in Int
        /\ d.income * d.give_quantity \in Int /\ btc * d.give_quantity \in Int
    BY <1>2, <1>3
  <2> QED
    BY <1>1, <2>1, <2>2, <2>3, <2>4, <2>5
<1> QED
  BY <1>5, <1>6 DEF Books, e

\* A payment is a step of a row that is live.
LEMMA DispensedRow ==
  ASSUME NEW d \in Dispenser, NEW btc \in Nat, d.status # "closed",
         ActuallyGiven(d, btc) \in Nat, GiveRemaining(d, btc) \in Nat
  PROVE  Dispensed(d, btc) \in Dispenser /\ RowStep(d, Dispensed(d, btc))
<1> DEFINE e == Dispensed(d, btc)
           left == IF Closes(d, btc) THEN 0 ELSE GiveRemaining(d, btc)
           status == DispensedStatus(d, btc)
           count == d.dispense_count + 1
           given == d.dispensed + ActuallyGiven(d, btc)
           earned == d.income + btc
<1>1. e = [d EXCEPT !.give_remaining = left, !.status = status, !.dispense_count = count,
                    !.dispensed = given, !.income = earned]
  BY DEF Dispensed
<1>2. left \in Nat /\ count \in Nat /\ given \in Nat /\ earned \in Nat
  BY DEF Dispenser
<1>3. status \in {d.status, "closed"} /\ status \in Status
  BY DEF DispensedStatus, Dispenser, Status
<1> HIDE DEF e, left, status, count, given, earned
<1>4. e \in Dispenser
  BY <1>1, <1>2, <1>3 DEF Dispenser
<1>5. /\ e.source = d.source /\ e.asset = d.asset /\ e.status = status
      /\ e.refills = d.refills /\ e.last_status_tx_source = d.last_status_tx_source
      /\ e.close_block_index = d.close_block_index
  BY <1>1 DEF Dispenser
<1>6. RowStep(d, e)
  <2>1. Books(d) => Books(e)
    BY DispensedBooks DEF e
  <2> QED
    BY <1>3, <1>5, <2>1 DEF RowStep
<1> QED
  BY <1>4, <1>6 DEF e

----------------------------------------------------------------------------
\* What each action does to the rows

\* Nothing is said of a row that stays as it is.
LEMMA SameRows ==
  ASSUME UNCHANGED dispensers
  PROVE  RowsStep
BY DEF RowsStep, RowStep

\* One row is changed.
LEMMA OneRow ==
  ASSUME TypeOK, NEW i \in DOMAIN dispensers, NEW e \in Dispenser,
         RowStep(dispensers[i], e),
         dispensers' = [dispensers EXCEPT ![i] = e]
  PROVE  dispensers' \in Seq(Dispenser) /\ RowsStep
<1>1. dispensers \in Seq(Dispenser) /\ i \in 1..Len(dispensers)
  BY DEF TypeOK
<1>2. dispensers' \in Seq(Dispenser) /\ DOMAIN dispensers' = DOMAIN dispensers
  BY <1>1, ExceptSeq
<1>3. \A j \in DOMAIN dispensers : dispensers'[j] = IF j = i THEN e ELSE dispensers[j]
  OBVIOUS
<1> QED
  BY <1>2, <1>3 DEF RowsStep, RowStep

\* An OPEN appends one row, where there was no live one.
LEMMA OpenRows ==
  ASSUME TypeOK, NEW source \in Address, NEW o \in Offer, NEW fee,
         MayOpen(source, o), OpenDispenser(source, o, fee)
  PROVE  /\ dispensers' \in Seq(Dispenser) /\ balances' \in [Address -> [Asset -> Nat]]
         /\ RowsStep
<1>1. o \in Offers
  BY DispensersAssumption
<1> DEFINE e == NewDispenser(source, source, o)
<1>2. /\ e \in Dispenser /\ e.status = "open" /\ e.source = source /\ e.asset = o.asset
  BY <1>1 DEF NewDispenser, Dispenser, Offers, Status
<1>3. dispensers \in Seq(Dispenser) /\ dispensers' = Append(dispensers, e)
  BY DEF TypeOK, OpenDispenser
<1>3a. Books(e)
  <2>1. /\ e.give_remaining = o.escrow_quantity /\ e.escrowed = o.escrow_quantity
        /\ e.dispensed = 0 /\ e.income = 0 /\ e.give_quantity = o.give_quantity
        /\ e.satoshirate = o.satoshirate
    BY DEF NewDispenser
  <2>2. /\ o.escrow_quantity \in Nat /\ o.give_quantity \in Nat /\ o.satoshirate \in Nat
        /\ o.escrow_quantity >= o.give_quantity
    BY <1>1 DEF Offers, MayOpen, CanEscrow
  <2> HIDE DEF e
  <2> QED
    BY <1>2, <2>1, <2>2 DEF Books, LiveCanGive, NothingIsLost, IsPaidFor
<1> HIDE DEF e
<1>4. /\ dispensers' \in Seq(Dispenser)
      /\ DOMAIN dispensers = 1..Len(dispensers)
      /\ DOMAIN dispensers' = 1..(Len(dispensers) + 1)
      /\ \A i \in 1..Len(dispensers) : dispensers'[i] = dispensers[i]
      /\ dispensers'[Len(dispensers) + 1] = e
      /\ Len(dispensers) \in Nat
  BY <1>2, <1>3, AppendProperties, LenProperties
<1>5. balances' \in [Address -> [Asset -> Nat]]
  <2>1. o.asset \in Asset /\ o.escrow_quantity \in Nat
    BY <1>1 DEF Offers
  <2>2. balances[source][o.asset] >= o.escrow_quantity
    BY DEF MayOpen, CanEscrow
  <2> QED
    BY <2>1, <2>2, DebitKeepsTypes DEF OpenDispenser, TypeOK
<1>6. Live(source, o.asset) = {}
  BY DEF MayOpen
<1>7. \A i \in DOMAIN dispensers' \ DOMAIN dispensers : i = Len(dispensers) + 1
  BY <1>4
<1>8. /\ DOMAIN dispensers \subseteq DOMAIN dispensers'
      /\ \A i \in DOMAIN dispensers : RowStep(dispensers[i], dispensers'[i])
  BY <1>4 DEF RowStep
<1> QED
  BY <1>2, <1>3a, <1>4, <1>5, <1>6, <1>7, <1>8 DEF RowsStep

\* An OPEN of a dispenser that is open changes that row.
LEMMA RefillRows ==
  ASSUME TypeOK, NEW source \in Address, NEW address \in Address, NEW o \in Offer, NEW fee,
         NEW i \in Refillable(source, address, o), RefillDispenser(i, source, o, fee)
  PROVE  /\ dispensers' \in Seq(Dispenser) /\ balances' \in [Address -> [Asset -> Nat]]
         /\ RowsStep
<1>1. o.asset \in Asset /\ o.escrow_quantity \in Nat
  BY DispensersAssumption DEF Offers
<1>2. i \in DOMAIN dispensers /\ dispensers[i].status = "open" /\ CanEscrow(source, o)
  BY DEF Refillable, Open, Live
<1>3. dispensers[i] \in Dispenser
  BY <1>2 DEF TypeOK
<1> DEFINE e == Refilled(dispensers[i], o.escrow_quantity)
<1>4. e \in Dispenser /\ RowStep(dispensers[i], e)
  BY <1>1, <1>2, <1>3, RefilledRow
<1>5. dispensers' = [dispensers EXCEPT ![i] = e]
  BY DEF RefillDispenser
<1>6. balances' \in [Address -> [Asset -> Nat]]
  BY <1>1, <1>2, DebitKeepsTypes DEF RefillDispenser, CanEscrow, TypeOK
<1> HIDE DEF e
<1> QED
  BY <1>2, <1>4, <1>5, <1>6, OneRow

\* A CLOSE raises, or finds a row open.
LEMMA CloseCases ==
  ASSUME ParseClose
  PROVE  \/ Stop
         \/ \E source \in Address, i \in DOMAIN dispensers :
              dispensers[i].status = "open" /\ CloseDispenser(i, source)
BY DEF ParseClose, Open, Live

\* It changes that row.
LEMMA CloseRows ==
  ASSUME TypeOK, NEW source \in Address, NEW i \in DOMAIN dispensers,
         dispensers[i].status = "open", CloseDispenser(i, source)
  PROVE  /\ dispensers' \in Seq(Dispenser) /\ balances' \in [Address -> [Asset -> Nat]]
         /\ RowsStep
<1> DEFINE asset == dispensers[i].asset
<1>2. IF CloseDelay = 0
        THEN /\ balances' = Credited(balances, source, asset, dispensers[i].give_remaining)
             /\ dispensers' = [dispensers EXCEPT ![i] = Closed(dispensers[i])]
        ELSE /\ dispensers' = [dispensers EXCEPT ![i] = Closing(dispensers[i], source)]
             /\ UNCHANGED balances
  BY DEF CloseDispenser
<1>3. i \in DOMAIN dispensers /\ dispensers[i].status = "open"
  OBVIOUS
<1>4. dispensers[i] \in Dispenser
  BY <1>3 DEF TypeOK
<1>5. CASE CloseDelay = 0
  <2> DEFINE e == Closed(dispensers[i])
  <2>1. e \in Dispenser /\ RowStep(dispensers[i], e)
    BY <1>3, <1>4, ClosedRow
  <2>2. dispensers' = [dispensers EXCEPT ![i] = e]
    BY <1>2, <1>5
  <2>3. balances' \in [Address -> [Asset -> Nat]]
    <3>1. dispensers[i].give_remaining \in Nat
      BY <1>4 DEF Dispenser
    <3>2. balances \in [Address -> [Asset -> Nat]]
      BY DEF TypeOK
    <3>3. balances' = Credited(balances, source, asset, dispensers[i].give_remaining)
      BY <1>2, <1>5
    <3> QED
      BY <1>4, <3>1, <3>2, <3>3, CreditKeepsTypes DEF Dispenser
  <2> HIDE DEF e
  <2> QED
    BY <1>3, <2>1, <2>2, <2>3, OneRow
<1>6. CASE CloseDelay # 0
  <2> DEFINE e == Closing(dispensers[i], source)
  <2>1. e \in Dispenser /\ RowStep(dispensers[i], e)
    BY <1>3, <1>4, <1>6, ClosingRow
  <2>2. dispensers' = [dispensers EXCEPT ![i] = e]
    BY <1>2, <1>6
  <2>3. balances' \in [Address -> [Asset -> Nat]]
    BY <1>2, <1>6 DEF TypeOK
  <2> HIDE DEF e
  <2> QED
    BY <1>3, <2>1, <2>2, <2>3, OneRow
<1> QED
  BY <1>5, <1>6

\* close_pending() closes the row that is due.
LEMMA PendingRows ==
  ASSUME TypeOK, ClosePending
  PROVE  /\ dispensers' \in Seq(Dispenser) /\ balances' \in [Address -> [Asset -> Nat]]
         /\ RowsStep
<1>1. PICK i \in Pending :
        /\ balances' = Credited(balances, dispensers[i].last_status_tx_source,
                               dispensers[i].asset, dispensers[i].give_remaining)
        /\ dispensers' = [dispensers EXCEPT ![i] = Closed(dispensers[i])]
  BY DEF ClosePending
<1>2. i \in DOMAIN dispensers /\ dispensers[i].status = "closing"
  BY DEF Pending
<1>3. dispensers[i] \in Dispenser
  BY <1>2 DEF TypeOK
<1> DEFINE e == Closed(dispensers[i])
<1>4. e \in Dispenser /\ RowStep(dispensers[i], e)
  BY <1>2, <1>3, ClosedRow
<1>5. balances' \in [Address -> [Asset -> Nat]]
  <2>1. dispensers[i].give_remaining \in Nat /\ dispensers[i].asset \in Asset
    BY <1>3 DEF Dispenser
  <2>2. balances \in [Address -> [Asset -> Nat]]
    BY DEF TypeOK
  <2> QED
    BY <1>1, <2>1, <2>2, CreditKeepsTypes
<1> HIDE DEF e
<1>6. dispensers' = [dispensers EXCEPT ![i] = e]
  BY <1>1 DEF e
<1> QED
  BY <1>2, <1>4, <1>5, <1>6, OneRow

\* An output: what is credited is not negative, and only live rows change.
LEMMA DispenseRows ==
  ASSUME TypeOK, Dispense, UNCHANGED stopped
  PROVE  /\ dispensers' \in Seq(Dispenser) /\ balances' \in [Address -> [Asset -> Nat]]
         /\ RowsStep
<1> DEFINE out == Head(paying.outs)
<1>1. out \in [destination : Address, btc_amount : Payment]
  <2>1. paying.outs \in Seq([destination : Address, btc_amount : Payment])
    BY DEF TypeOK
  <2>2. paying.outs # <<>>
    BY DEF Dispense
  <2> QED
    BY <2>1, <2>2, HeadTailProperties
<1>2. stopped = FALSE
  BY DEF Dispense, TypeOK
<1>3. /\ ~Raises(out)
      /\ balances' = [a \in Address |-> [s \in Asset |->
                        balances[a][s] + GivenTo(a, s, out)]]
      /\ dispensers' = [i \in DOMAIN dispensers |->
                          IF i \in Dispensing(out)
                            THEN Dispensed(dispensers[i], out.btc_amount)
                            ELSE dispensers[i]]
  BY <1>2 DEF Dispense, Stop
<1> HIDE DEF out
<1>4. \A i \in DOMAIN dispensers :
        dispensers'[i] \in Dispenser /\ RowStep(dispensers[i], dispensers'[i])
  <2> SUFFICES ASSUME NEW i \in DOMAIN dispensers
               PROVE  dispensers'[i] \in Dispenser /\ RowStep(dispensers[i], dispensers'[i])
    OBVIOUS
  <2>1. dispensers[i] \in Dispenser
    BY DEF TypeOK
  <2>2. CASE i \in Dispensing(out)
    <3>1. /\ dispensers[i].status # "closed"
          /\ ActuallyGiven(dispensers[i], out.btc_amount) \in Nat
          /\ GiveRemaining(dispensers[i], out.btc_amount) \in Nat
      BY <1>1, <1>3, <2>2, GivenNat
    <3>2. dispensers'[i] = Dispensed(dispensers[i], out.btc_amount)
      BY <1>3, <2>2
    <3>3. out.btc_amount \in Nat
      BY <1>1, DispensersAssumption
    <3> QED
      BY <2>1, <3>1, <3>2, <3>3, DispensedRow
  <2>3. CASE i \notin Dispensing(out)
    <3>1. dispensers'[i] = dispensers[i]
      BY <1>3, <2>3
    <3> QED
      BY <2>1, <3>1 DEF RowStep
  <2> QED
    BY <2>2, <2>3
<1>5. DOMAIN dispensers' = DOMAIN dispensers
  BY <1>3
<1>6. dispensers' \in Seq(Dispenser)
  <2>1. Len(dispensers) \in Nat /\ DOMAIN dispensers = 1..Len(dispensers)
    BY LenProperties DEF TypeOK
  <2>2. dispensers' \in [1..Len(dispensers) -> Dispenser]
    BY <1>3, <1>4, <1>5, <2>1
  <2> QED
    BY <2>1, <2>2, SeqDef
<1>7. \A a \in Address, s \in Asset : GivenTo(a, s, out) \in Nat
  <2> SUFFICES ASSUME NEW a \in Address, NEW s \in Asset PROVE GivenTo(a, s, out) \in Nat
    OBVIOUS
  <2>1. CASE \E i \in Dispensing(out) : dispensers[i].asset = s
    <3> DEFINE i == CHOOSE j \in Dispensing(out) : dispensers[j].asset = s
    <3>1. i \in Dispensing(out)
      BY <2>1
    <3> HIDE DEF i
    <3>2. /\ ActuallyGiven(dispensers[i], out.btc_amount) \in Nat
          /\ GiveRemaining(dispensers[i], out.btc_amount) \in Nat
      BY <1>1, <1>3, <3>1, GivenNat
    <3>3. GivenTo(a, s, out) \in {ActuallyGiven(dispensers[i], out.btc_amount),
                                  GiveRemaining(dispensers[i], out.btc_amount), 0}
      BY <2>1 DEF GivenTo, i
    <3> QED
      BY <3>2, <3>3
  <2>2. CASE ~ \E i \in Dispensing(out) : dispensers[i].asset = s
    BY <2>2 DEF GivenTo
  <2> QED
    BY <2>1, <2>2
<1>8. balances' \in [Address -> [Asset -> Nat]]
  BY <1>3, <1>7 DEF TypeOK
<1> QED
  BY <1>4, <1>5, <1>6, <1>8 DEF RowsStep

----------------------------------------------------------------------------
\* The steps

\* An OPEN that is valid opens, refills or raises.
LEMMA OpenSteps ==
  ASSUME TypeOK, ParseOpen
  PROVE  /\ dispensers' \in Seq(Dispenser) /\ balances' \in [Address -> [Asset -> Nat]]
         /\ RowsStep
         /\ stopped' \in BOOLEAN /\ UNCHANGED <<block_index, feeds, paying>>
<1>1. PICK source \in Address, address \in Address, o \in Offer, fee \in Payment :
        \/ Stop
        \/ MayOpen(source, o) /\ OpenDispenser(source, o, fee)
        \/ \E i \in Refillable(source, address, o) : RefillDispenser(i, source, o, fee)
  BY DEF ParseOpen
<1>2. CASE Stop
  BY <1>2, SameRows DEF Stop, TypeOK
<1>3. CASE MayOpen(source, o) /\ OpenDispenser(source, o, fee)
  BY <1>3, OpenRows DEF OpenDispenser, TypeOK
<1>4. CASE \E i \in Refillable(source, address, o) : RefillDispenser(i, source, o, fee)
  BY <1>4, RefillRows DEF RefillDispenser, TypeOK
<1> QED
  BY <1>1, <1>2, <1>3, <1>4

\* Every step keeps the types, and does to the rows what RowsStep says.
LEMMA StepKeepsTypes ==
  ASSUME TypeOK, [Next]_vars
  PROVE  TypeOK' /\ RowsStep
<1> DEFINE Output == [destination : Address, btc_amount : Payment]
<1>1. CASE ParseOpen
  <2>1. txs' \in Nat
    BY <1>1 DEF ParseOpen, TypeOK
  <2> QED
    BY <1>1, <2>1, OpenSteps DEF TypeOK, feeds
<1>2. CASE ParseClose
  <2>1. txs' \in Nat
    BY <1>2 DEF ParseClose, TypeOK
  <2>2. CASE Stop
    BY <2>1, <2>2, SameRows DEF Stop, TypeOK, feeds
  <2>3. ASSUME NEW source \in Address, NEW i \in DOMAIN dispensers,
               dispensers[i].status = "open", CloseDispenser(i, source)
        PROVE  TypeOK' /\ RowsStep
    <3>1. UNCHANGED <<block_index, feeds, paying, stopped>>
      BY <2>3 DEF CloseDispenser
    <3> QED
      BY <2>1, <2>3, <3>1, CloseRows DEF TypeOK, feeds
  <2> QED
    BY <1>2, <2>2, <2>3, CloseCases
<1>3. CASE ParseBroadcast
  <2>0. broadcasts \in [Oracle -> Feed]
    BY DEF TypeOK
  <2>1. broadcasts' \in [Oracle -> Feed]
    <3>1. PICK o \in Oracle, f \in [state : {"price"}, value : Price]
                                   \cup {[state |-> "locked", value |-> 0]} :
            broadcasts' = [broadcasts EXCEPT ![o] = f]
      BY <1>3 DEF ParseBroadcast
    <3>2. Price \subseteq Int
      BY DispensersAssumption
    <3>3. CASE f \in [state : {"price"}, value : Price]
      BY <2>0, <3>1, <3>2, <3>3 DEF Feed
    <3>4. CASE f = [state |-> "locked", value |-> 0]
      BY <2>0, <3>1, <3>4 DEF Feed
    <3> QED
      BY <3>3, <3>4
  <2>2. /\ txs' \in Nat
        /\ UNCHANGED <<block_index, balances, dispensers, prices, paying, stopped>>
    BY <1>3 DEF ParseBroadcast, TypeOK
  <2> QED
    BY <2>1, <2>2, SameRows DEF TypeOK
<1>4. CASE ParseDispense
  <2>1. paying' \in [source : Address \cup {NoAddress}, outs : Seq(Output)]
    <3> PICK source \in Address, n \in 1..2 :
          \E outs \in [1..n -> [destination : Address \ {source}, btc_amount : Payment]] :
            paying' = [source |-> source, outs |-> outs]
      BY <1>4 DEF ParseDispense
    <3>1. PICK outs \in [1..n -> [destination : Address \ {source}, btc_amount : Payment]] :
            paying' = [source |-> source, outs |-> outs]
      OBVIOUS
    <3>2. n \in Nat /\ outs \in [1..n -> Output]
      OBVIOUS
    <3>3. source \in Address
      OBVIOUS
    <3> HIDE DEF Output
    <3>4. outs \in Seq(Output)
      BY <3>2, SeqDef
    <3> QED
      BY <3>1, <3>3, <3>4
  <2>2. /\ txs' \in Nat /\ UNCHANGED <<block_index, balances, dispensers, feeds, stopped>>
    BY <1>4 DEF ParseDispense, TypeOK
  <2> QED
    BY <2>1, <2>2, SameRows DEF TypeOK, feeds
<1>5. CASE Dispense
  <2>1. CASE Stop
    <3>1. UNCHANGED txs
      BY <1>5 DEF Dispense
    <3> QED
      BY <2>1, <3>1, SameRows DEF Stop, TypeOK, feeds
  <2>2. CASE ~Stop
    <3>1. /\ UNCHANGED <<block_index, feeds, stopped, txs>>
          /\ paying' = IF Len(paying.outs) = 1 THEN NoTx ELSE [paying EXCEPT !.outs = Tail(@)]
          /\ paying.outs # <<>>
      BY <1>5, <2>2 DEF Dispense
    <3>2. paying' \in [source : Address \cup {NoAddress}, outs : Seq(Output)]
      <4>1. paying \in [source : Address \cup {NoAddress}, outs : Seq(Output)]
        BY DEF TypeOK
      <4>2. Tail(paying.outs) \in Seq(Output)
        BY <3>1, <4>1, HeadTailProperties
      <4>3. paying' \in {NoTx, [paying EXCEPT !.outs = Tail(paying.outs)]}
        BY <3>1
      <4>4. NoTx \in [source : Address \cup {NoAddress}, outs : Seq(Output)]
        BY EmptySeq DEF NoTx
      <4> HIDE DEF Output
      <4> QED
        BY <4>1, <4>2, <4>3, <4>4
    <3> QED
      BY <1>5, <3>1, <3>2, DispenseRows DEF TypeOK, feeds
  <2> QED
    BY <2>1, <2>2
<1>6. CASE NextBlock
  <2>1. /\ block_index' \in Nat /\ prices' = broadcasts
        /\ UNCHANGED <<txs, balances, dispensers, broadcasts, paying, stopped>>
    BY <1>6 DEF NextBlock, TypeOK
  <2> QED
    BY <2>1, SameRows DEF TypeOK
<1>7. CASE ClosePending
  <2>1. UNCHANGED <<block_index, txs, feeds, paying, stopped>>
    BY <1>7 DEF ClosePending
  <2> QED
    BY <1>7, <2>1, PendingRows DEF TypeOK, feeds
<1>8. CASE UNCHANGED vars
  BY <1>8, SameRows DEF vars, feeds, TypeOK
<1> QED
  BY <1>1, <1>2, <1>3, <1>4, <1>5, <1>6, <1>7, <1>8 DEF Next

----------------------------------------------------------------------------
\* One live dispenser

\* get_dispensers() overlooks no live row.
LEMMA LiveSeesAll ==
  ASSUME OneLiveDispenser, NEW i \in DOMAIN dispensers, dispensers[i].status # "closed"
  PROVE  i \in Live(dispensers[i].source, dispensers[i].asset)
BY DEF Live, IsLast, OneLiveDispenser

\* Only where get_dispensers() found no live row is one appended.
LEMMA StepKeepsOneLive ==
  ASSUME TypeOK, OneLiveDispenser, RowsStep
  PROVE  OneLiveDispenser'
<1> SUFFICES ASSUME NEW i \in DOMAIN dispensers', NEW j \in DOMAIN dispensers',
                    dispensers'[i].source = dispensers'[j].source,
                    dispensers'[i].asset = dispensers'[j].asset,
                    dispensers'[i].status # "closed"
             PROVE  j <= i
  BY DEF OneLiveDispenser
<1>1. DOMAIN dispensers = 1..Len(dispensers) /\ Len(dispensers) \in Nat
  BY LenProperties DEF TypeOK
<1>2. CASE i \in DOMAIN dispensers
  <2>1. /\ dispensers[i].source = dispensers'[i].source
        /\ dispensers[i].asset = dispensers'[i].asset
        /\ dispensers[i].status # "closed"
    BY <1>2 DEF RowsStep, RowStep
  <2>2. i \in Live(dispensers'[j].source, dispensers'[j].asset)
    BY <1>2, <2>1, LiveSeesAll
  <2>3. j \in DOMAIN dispensers
    BY <2>2 DEF RowsStep
  <2>4. dispensers[j].source = dispensers'[j].source /\ dispensers[j].asset = dispensers'[j].asset
    BY <2>3 DEF RowsStep, RowStep
  <2> QED
    BY <1>2, <2>1, <2>3, <2>4 DEF OneLiveDispenser
<1>3. CASE i \notin DOMAIN dispensers
  <2>1. i = Len(dispensers) + 1
    BY <1>3 DEF RowsStep
  <2>2. j \in 1..Len(dispensers) \/ j = Len(dispensers) + 1
    BY <1>1 DEF RowsStep
  <2> QED
    BY <1>1, <2>1, <2>2
<1> QED
  BY <1>2, <1>3

----------------------------------------------------------------------------
\* The books

\* Every row that changes keeps its books, and a new one has them balanced.
LEMMA StepKeepsBooks ==
  ASSUME BooksBalance, RowsStep
  PROVE  BooksBalance'
<1> SUFFICES ASSUME NEW i \in DOMAIN dispensers' PROVE Books(dispensers'[i])
  BY DEF BooksBalance, Books, LiveCanGive, NothingIsLost, IsPaidFor
<1>1. CASE i \in DOMAIN dispensers
  BY <1>1 DEF RowsStep, RowStep, BooksBalance
<1>2. CASE i \notin DOMAIN dispensers
  BY <1>2 DEF RowsStep
<1> QED
  BY <1>1, <1>2

----------------------------------------------------------------------------
\* The closing of a dispenser

\* A row that is closing after a step was so before, for the same block, or is
\* announced by this step, for a block to come.
LEMMA ClosingRows ==
  ASSUME IInv, RowsStep, NEW i \in DOMAIN dispensers', dispensers'[i].status = "closing"
  PROVE  /\ i \in DOMAIN dispensers
         /\ \/ /\ dispensers[i].status = "closing"
               /\ dispensers'[i].close_block_index = dispensers[i].close_block_index
            \/ /\ dispensers[i].status # "closing"
               /\ dispensers'[i].close_block_index = block_index + CloseDelay
               /\ CloseDelay # 0
<1>1. i \in DOMAIN dispensers
  BY DEF RowsStep
<1>2. RowStep(dispensers[i], dispensers'[i])
  BY <1>1 DEF RowsStep
<1> QED
  BY <1>1, <1>2 DEF RowStep

\* Within a block nothing more becomes due.
LEMMA NothingMoreIsDue ==
  ASSUME IInv, RowsStep, UNCHANGED block_index
  PROVE  Pending' \subseteq Pending
<1> SUFFICES ASSUME NEW i \in Pending' PROVE i \in Pending
  OBVIOUS
<1>1. /\ i \in DOMAIN dispensers' /\ dispensers'[i].status = "closing"
      /\ dispensers'[i].close_block_index = block_index
  BY DEF Pending
<1>2. block_index \in Nat /\ CloseDelay \in Nat
  BY DispensersAssumption DEF IInv, TypeOK
<1> QED
  BY <1>1, <1>2, ClosingRows DEF Pending

\* A block begins only when nothing is due: no row misses its block.
LEMMA StepKeepsClosingInTime ==
  ASSUME IInv, RowsStep,
         UNCHANGED block_index \/ (block_index' = block_index + 1 /\ UNCHANGED dispensers
                                   /\ Pending = {})
  PROVE  ClosingInTime'
<1>1. block_index \in Nat /\ CloseDelay \in Nat
  BY DispensersAssumption DEF IInv, TypeOK
<1> SUFFICES ASSUME NEW i \in DOMAIN dispensers', dispensers'[i].status = "closing"
             PROVE  dispensers'[i].close_block_index
                      \in block_index'..(block_index' + CloseDelay)
  BY DEF ClosingInTime
<1>2. CASE UNCHANGED block_index
  BY <1>1, <1>2, ClosingRows DEF IInv, ClosingInTime
<1>3. CASE block_index' = block_index + 1 /\ UNCHANGED dispensers /\ Pending = {}
  <2>1. dispensers[i].close_block_index \in block_index..(block_index + CloseDelay)
    BY <1>3 DEF IInv, ClosingInTime
  <2>2. dispensers[i].close_block_index # block_index
    BY <1>3 DEF Pending
  <2> QED
    BY <1>1, <1>3, <2>1, <2>2
<1> QED
  BY <1>2, <1>3

\* Only in a step that starts a block, or that closes what is due, is a row due.
LEMMA NoPaymentWhileDue ==
  ASSUME IInv, Pending # {}, [Next]_vars
  PROVE  UNCHANGED paying /\ paying = NoTx
<1>1. paying = NoTx
  BY DEF IInv, DueBeforePayments
<1>2. paying.outs = <<>>
  BY <1>1 DEF NoTx
<1>3. ClosePending \/ UNCHANGED vars
  BY <1>2 DEF Next, ParseOpen, ParseClose, ParseBroadcast, ParseDispense, Parsing, Dispense,
              NextBlock
<1> QED
  BY <1>1, <1>3 DEF ClosePending, vars

\* Between two blocks nothing else happens.
LEMMA NextKeepsBlock ==
  ASSUME [Next]_vars
  PROVE  \/ UNCHANGED block_index
         \/ /\ block_index' = block_index + 1 /\ UNCHANGED <<dispensers, paying>>
            /\ Pending = {} /\ paying = NoTx
BY DEF Next, vars, ParseOpen, OpenDispenser, RefillDispenser, Stop, ParseClose, CloseDispenser,
       ParseBroadcast, ParseDispense, Dispense, NextBlock, ClosePending

----------------------------------------------------------------------------
\* What an address holds, and what the dispensers hold, of an asset

Holds(b, s) == [a \in Address |-> b[a][s]]
Held(ds, s) == [i \in DOMAIN ds |-> IF ds[i].asset = s THEN ds[i].give_remaining ELSE 0]
Total(b, ds, s) ==
  SumFunctionOnSet(Holds(b, s), Address) + SumFunctionOnSet(Held(ds, s), DOMAIN ds)

Balances == [Address -> [Asset -> Nat]]
Rows == Seq(Dispenser)

\* Balances are integers,
LEMMA HoldsType ==
  ASSUME NEW b \in Balances, NEW s \in Asset
  PROVE  \A a \in Address : Holds(b, s)[a] = b[a][s] /\ Holds(b, s)[a] \in Int
BY DEF Holds, Balances

\* and so is what a row holds; there are finitely many rows.
LEMMA HeldType ==
  ASSUME NEW ds \in Rows, NEW s
  PROVE  /\ IsFiniteSet(DOMAIN ds)
         /\ \A i \in DOMAIN ds : Held(ds, s)[i] \in Int
<1>1. DOMAIN ds = 1..Len(ds) /\ Len(ds) \in Nat
  BY LenProperties DEF Rows
<1>2. \A i \in DOMAIN ds : ds[i].give_remaining \in Nat
  <2>1. \A i \in DOMAIN ds : ds[i] \in Dispenser
    BY <1>1, ElementOfSeq DEF Rows
  <2> QED
    BY <2>1 DEF Dispenser
<1>3. IsFiniteSet(DOMAIN ds)
  <2>1. 1 \in Int /\ Len(ds) \in Int
    BY <1>1
  <2>2. IsFiniteSet(1..Len(ds))
    BY <2>1, FS_Interval
  <2> QED
    BY <1>1, <2>2
<1> QED
  BY <1>2, <1>3 DEF Held

\* A closed dispenser holds nothing: those that are live hold what all of them do.
LEMMA HeldByLive ==
  ASSUME NEW b, NEW ds \in Rows, NEW s, \A i \in DOMAIN ds : LiveCanGive(ds[i])
  PROVE  HeldOf(b, ds, s) = Total(b, ds, s)
<1> DEFINE L == LiveIn(ds, s)
           O == DOMAIN ds \ L
           f == Held(ds, s)
           g == [i \in L |-> ds[i].give_remaining]
<1>1. /\ IsFiniteSet(DOMAIN ds) /\ \A i \in DOMAIN ds : f[i] \in Int
  BY HeldType
<1>2. L \subseteq DOMAIN ds
  BY DEF LiveIn
<1>3. IsFiniteSet(L) /\ IsFiniteSet(O)
  BY <1>1, <1>2, FS_Subset
<1>4. \A i \in L : f[i] \in Int /\ g[i] = f[i]
  BY <1>1, <1>2 DEF LiveIn, Held
<1>5. \A i \in O : f[i] = 0
  BY DEF LiveIn, Held, LiveCanGive
<1>6. L \cap O = {} /\ L \cup O = DOMAIN ds
  BY <1>2
<1>7. \A i \in L \cup O : f[i] \in Int
  BY <1>1, <1>6
<1>8. HeldOf(b, ds, s) = SumFunctionOnSet(Holds(b, s), Address) + SumFunctionOnSet(g, L)
  BY DEF HeldOf, Holds
<1> HIDE DEF L, O, f, g
<1>9. SumFunctionOnSet(g, L) = SumFunctionOnSet(f, L)
  BY <1>3, <1>4, SumEqual
<1>10. SumFunctionOnSet(f, O) = 0
  BY <1>3, <1>5, SumZero
<1>11. SumFunctionOnSet(f, L \cup O) = SumFunctionOnSet(f, L) + SumFunctionOnSet(f, O)
  BY <1>3, <1>6, <1>7, SumUnion
<1>12. SumFunctionOnSet(f, L) \in Int
  BY <1>3, <1>4, SumType
<1>13. SumFunctionOnSet(f, DOMAIN ds) = SumFunctionOnSet(g, L)
  BY <1>6, <1>9, <1>10, <1>11, <1>12
<1> QED
  BY <1>8, <1>13 DEF Total, f

\* One balance changes.
LEMMA HoldsChange ==
  ASSUME NEW b \in Balances, NEW c \in Balances, NEW a \in Address, NEW s \in Asset,
         \A x \in Address : x # a => c[x][s] = b[x][s]
  PROVE  SumFunctionOnSet(Holds(c, s), Address)
           = SumFunctionOnSet(Holds(b, s), Address) + (c[a][s] - b[a][s])
<1> DEFINE f == Holds(b, s)
           g == Holds(c, s)
<1>1. IsFiniteSet(Address)
  BY DispensersAssumption
<1>2. \A x \in Address : f[x] \in Int /\ g[x] \in Int
  BY HoldsType
<1>3. /\ \A x \in Address : x # a => g[x] = f[x]
      /\ f[a] = b[a][s] /\ g[a] = c[a][s]
  BY HoldsType
<1> HIDE DEF f, g
<1>4. SumFunctionOnSet(g, Address) = SumFunctionOnSet(f, Address) + (g[a] - f[a])
  BY <1>1, <1>2, <1>3, SumChange
<1> QED
  BY <1>3, <1>4 DEF f, g

\* No balance of the asset changes.
LEMMA HoldsSame ==
  ASSUME NEW b \in Balances, NEW c \in Balances, NEW s \in Asset,
         \A x \in Address : c[x][s] = b[x][s]
  PROVE  Holds(c, s) = Holds(b, s)
BY DEF Holds

\* One row changes what it holds of the asset.
LEMMA HeldChange ==
  ASSUME NEW ds \in Rows, NEW es \in Rows, DOMAIN es = DOMAIN ds, NEW s, NEW i \in DOMAIN ds,
         \A j \in DOMAIN ds : j # i => Held(es, s)[j] = Held(ds, s)[j]
  PROVE  SumFunctionOnSet(Held(es, s), DOMAIN es)
           = SumFunctionOnSet(Held(ds, s), DOMAIN ds) + (Held(es, s)[i] - Held(ds, s)[i])
<1>1. IsFiniteSet(DOMAIN ds)
  BY HeldType
<1>2. \A j \in DOMAIN ds : Held(ds, s)[j] \in Int /\ Held(es, s)[j] \in Int
  BY HeldType
<1>3. SumFunctionOnSet(Held(es, s), DOMAIN ds)
        = SumFunctionOnSet(Held(ds, s), DOMAIN ds) + (Held(es, s)[i] - Held(ds, s)[i])
  BY <1>1, <1>2, SumChange
<1> QED
  BY <1>3

\* A row more
LEMMA HeldAppend ==
  ASSUME NEW ds \in Rows, NEW e \in Dispenser, NEW s
  PROVE  SumFunctionOnSet(Held(Append(ds, e), s), DOMAIN Append(ds, e))
           = SumFunctionOnSet(Held(ds, s), DOMAIN ds)
               + (IF e.asset = s THEN e.give_remaining ELSE 0)
<1> DEFINE es == Append(ds, e)
           n == Len(ds) + 1
           f == Held(ds, s)
           g == Held(es, s)
<1>1. /\ es \in Rows /\ DOMAIN ds = 1..Len(ds) /\ DOMAIN es = 1..(Len(ds) + 1)
      /\ \A i \in 1..Len(ds) : es[i] = ds[i]
      /\ es[Len(ds) + 1] = e /\ Len(ds) \in Nat
  BY AppendProperties, LenProperties DEF Rows
<1> HIDE DEF es
<1>2. DOMAIN es = DOMAIN ds \cup {n} /\ n \notin DOMAIN ds
  BY <1>1
<1>3. \A i \in DOMAIN ds : f[i] \in Int /\ g[i] = f[i]
  BY <1>1, <1>2, HeldType DEF Held
<1>4. IsFiniteSet(DOMAIN ds) /\ \A i \in DOMAIN ds \cup {n} : g[i] \in Int
  BY <1>1, <1>2, HeldType
<1>5. g[n] = IF e.asset = s THEN e.give_remaining ELSE 0
  BY <1>1, <1>2 DEF Held
<1> HIDE DEF f, g, n
<1>6. SumFunctionOnSet(g, DOMAIN ds \cup {n}) = SumFunctionOnSet(g, DOMAIN ds) + g[n]
  BY <1>2, <1>4, SumInsert
<1>7. SumFunctionOnSet(g, DOMAIN ds) = SumFunctionOnSet(f, DOMAIN ds)
  BY <1>3, <1>4, SumEqual
<1>8. SumFunctionOnSet(g, DOMAIN es) = SumFunctionOnSet(f, DOMAIN ds) + g[n]
  BY <1>2, <1>6, <1>7
<1> QED
  BY <1>5, <1>8 DEF f, g, es

\* The sums are integers.
LEMMA SumsAreIntegers ==
  ASSUME NEW b \in Balances, NEW ds \in Rows, NEW s \in Asset
  PROVE  /\ SumFunctionOnSet(Holds(b, s), Address) \in Int
         /\ SumFunctionOnSet(Held(ds, s), DOMAIN ds) \in Int
<1>1. SumFunctionOnSet(Holds(b, s), Address) \in Int
  <2>1. IsFiniteSet(Address) /\ \A a \in Address : Holds(b, s)[a] \in Int
    BY DispensersAssumption, HoldsType
  <2> QED
    BY <2>1, SumType
<1>2. SumFunctionOnSet(Held(ds, s), DOMAIN ds) \in Int
  <2>1. IsFiniteSet(DOMAIN ds) /\ \A i \in DOMAIN ds : Held(ds, s)[i] \in Int
    BY HeldType
  <2> QED
    BY <2>1, SumType
<1> QED
  BY <1>1, <1>2

\* What leaves a balance goes to a row, and what leaves a row to a balance.
LEMMA OneForOne ==
  ASSUME NEW b \in Balances, NEW c \in Balances, NEW ds \in Rows, NEW es \in Rows,
         NEW a \in Address, NEW t \in Asset, NEW x \in Int, NEW i \in DOMAIN ds,
         \A y \in Address, u \in Asset :
           c[y][u] = IF y = a /\ u = t THEN b[y][u] + x ELSE b[y][u],
         DOMAIN es = DOMAIN ds, \A j \in DOMAIN ds : j # i => es[j] = ds[j],
         es[i].asset = t, ds[i].asset = t,
         es[i].give_remaining = ds[i].give_remaining - x,
         NEW s \in Asset
  PROVE  Total(c, es, s) = Total(b, ds, s)
<1>0. /\ SumFunctionOnSet(Holds(b, s), Address) \in Int
      /\ SumFunctionOnSet(Held(ds, s), DOMAIN ds) \in Int
  BY SumsAreIntegers
<1>1. \A y \in Address : y # a => c[y][s] = b[y][s]
  OBVIOUS
<1>2. \A j \in DOMAIN ds : j # i => Held(es, s)[j] = Held(ds, s)[j]
  BY DEF Held
<1>3. SumFunctionOnSet(Holds(c, s), Address)
        = SumFunctionOnSet(Holds(b, s), Address) + (c[a][s] - b[a][s])
  BY <1>1, HoldsChange
<1>4. SumFunctionOnSet(Held(es, s), DOMAIN es)
        = SumFunctionOnSet(Held(ds, s), DOMAIN ds) + (Held(es, s)[i] - Held(ds, s)[i])
  BY <1>2, HeldChange
<1>5. b[a][s] \in Int /\ ds[i].give_remaining \in Int
  <2>1. ds[i] \in Dispenser
    BY LenProperties, ElementOfSeq DEF Rows
  <2> QED
    BY <2>1 DEF Balances, Dispenser
<1>6. c[a][s] - b[a][s] = IF s = t THEN x ELSE 0
  BY <1>5
<1>7. Held(es, s)[i] - Held(ds, s)[i] = IF s = t THEN 0 - x ELSE 0
  BY <1>5 DEF Held
<1> QED
  BY <1>0, <1>3, <1>4, <1>6, <1>7 DEF Total

----------------------------------------------------------------------------
\* Each step keeps what there is of an asset.

Kept == \A s \in Asset : Total(balances', dispensers', s) = Total(balances, dispensers, s)

\* Opening a dispenser moves the escrow from a balance to a new row.
LEMMA OpenKeeps ==
  ASSUME TypeOK, NEW source \in Address, NEW o \in Offer, NEW fee,
         MayOpen(source, o), OpenDispenser(source, o, fee)
  PROVE  Kept
<1> SUFFICES ASSUME NEW s \in Asset
             PROVE  Total(balances', dispensers', s) = Total(balances, dispensers, s)
  BY DEF Kept
<1>1. o \in Offers
  BY DispensersAssumption
<1> DEFINE e == NewDispenser(source, source, o)
           q == o.escrow_quantity
<1>2. /\ e \in Dispenser /\ e.asset = o.asset /\ e.give_remaining = q
      /\ q \in Nat /\ o.asset \in Asset
  BY <1>1 DEF NewDispenser, Dispenser, Offers, Status
<1>3. dispensers \in Rows /\ dispensers' = Append(dispensers, e)
  BY DEF TypeOK, OpenDispenser, Rows
<1>4. balances \in Balances /\ balances' \in Balances
  BY OpenRows DEF TypeOK, Balances
<1>5. \A y \in Address, u \in Asset :
        balances'[y][u] = IF y = source /\ u = o.asset THEN balances[y][u] - q
                                                       ELSE balances[y][u]
  BY <1>2, <1>4 DEF OpenDispenser, Debited, Balances
<1> HIDE DEF e, q
<1>6. SumFunctionOnSet(Holds(balances', s), Address)
        = SumFunctionOnSet(Holds(balances, s), Address)
            + (balances'[source][s] - balances[source][s])
  BY <1>4, <1>5, HoldsChange
<1>7. SumFunctionOnSet(Held(dispensers', s), DOMAIN dispensers')
        = SumFunctionOnSet(Held(dispensers, s), DOMAIN dispensers)
            + (IF e.asset = s THEN e.give_remaining ELSE 0)
  BY <1>2, <1>3, HeldAppend
<1>8. /\ SumFunctionOnSet(Holds(balances, s), Address) \in Int
      /\ SumFunctionOnSet(Held(dispensers, s), DOMAIN dispensers) \in Int
  BY <1>3, <1>4, SumsAreIntegers
<1>9. balances[source][s] \in Int
  BY <1>4 DEF Balances
<1>10. balances'[source][s] - balances[source][s] = IF s = o.asset THEN 0 - q ELSE 0
  BY <1>2, <1>5, <1>9
<1> QED
  BY <1>2, <1>6, <1>7, <1>8, <1>10 DEF Total

\* A refill moves it from a balance to a row.
LEMMA RefillKeeps ==
  ASSUME TypeOK, NEW source \in Address, NEW address \in Address, NEW o \in Offer, NEW fee,
         NEW i \in Refillable(source, address, o), RefillDispenser(i, source, o, fee)
  PROVE  Kept
<1>1. o.asset \in Asset /\ o.escrow_quantity \in Nat
  BY DispensersAssumption DEF Offers
<1>2. /\ i \in DOMAIN dispensers /\ dispensers[i].asset = o.asset
  BY DEF Refillable, Open, Live
<1>3. dispensers[i] \in Dispenser
  BY <1>2 DEF TypeOK
<1>4. /\ balances \in Balances /\ balances' \in Balances
      /\ dispensers \in Rows /\ dispensers' \in Rows
  BY RefillRows DEF TypeOK, Balances, Rows
<1> DEFINE q == o.escrow_quantity
           e == Refilled(dispensers[i], q)
           x == 0 - q
<1>5. e.asset = o.asset /\ e.give_remaining = dispensers[i].give_remaining - x
  BY <1>1, <1>2, <1>3 DEF Refilled, Dispenser
<1>6. /\ DOMAIN dispensers' = DOMAIN dispensers /\ dispensers'[i] = e
      /\ \A j \in DOMAIN dispensers : j # i => dispensers'[j] = dispensers[j]
  BY <1>2 DEF RefillDispenser
<1>7. \A y \in Address, u \in Asset :
        balances'[y][u] = IF y = source /\ u = o.asset THEN balances[y][u] + x
                                                       ELSE balances[y][u]
  BY <1>1, <1>4 DEF RefillDispenser, Debited, Balances
<1>8. x \in Int
  BY <1>1
<1> HIDE DEF e, q, x
<1> SUFFICES ASSUME NEW s \in Asset
             PROVE  Total(balances', dispensers', s) = Total(balances, dispensers, s)
  BY DEF Kept
<1>9. /\ dispensers'[i].asset = o.asset
      /\ dispensers'[i].give_remaining = dispensers[i].give_remaining - x
  BY <1>5, <1>6
<1> QED
  BY <1>1, <1>2, <1>4, <1>6, <1>7, <1>8, <1>9, OneForOne

\* A row is closed, and what is left credited.
ClosesRow(i, a) ==
  /\ balances' = Credited(balances, a, dispensers[i].asset, dispensers[i].give_remaining)
  /\ dispensers' = [dispensers EXCEPT ![i] = Closed(dispensers[i])]

\* Closing a row moves what is left to the balance of who closes it.
LEMMA ClosedKeeps ==
  ASSUME TypeOK, NEW i \in DOMAIN dispensers, NEW a \in Address,
         balances' \in Balances, dispensers' \in Rows, ClosesRow(i, a)
  PROVE  Kept
<1> DEFINE t == dispensers[i].asset
           x == dispensers[i].give_remaining
           e == Closed(dispensers[i])
<1>1. dispensers[i] \in Dispenser
  BY DEF TypeOK
<1>2. t \in Asset /\ x \in Nat /\ e.asset = t /\ e.give_remaining = x - x
  BY <1>1 DEF Closed, Dispenser
<1>3. balances \in Balances /\ dispensers \in Rows
  BY DEF TypeOK, Balances, Rows
<1>4. /\ DOMAIN dispensers' = DOMAIN dispensers /\ dispensers'[i] = e
      /\ \A j \in DOMAIN dispensers : j # i => dispensers'[j] = dispensers[j]
  BY DEF ClosesRow
<1>5. \A y \in Address, u \in Asset :
        balances'[y][u] = IF y = a /\ u = t THEN balances[y][u] + x ELSE balances[y][u]
  BY <1>2, <1>3 DEF ClosesRow, Credited, Balances
<1>6. dispensers'[i].asset = t /\ dispensers'[i].give_remaining = dispensers[i].give_remaining - x
  BY <1>2, <1>4
<1>7. x \in Int /\ dispensers[i].asset = t
  BY <1>2
<1> HIDE DEF e, t, x
<1> SUFFICES ASSUME NEW s \in Asset
             PROVE  Total(balances', dispensers', s) = Total(balances, dispensers, s)
  BY DEF Kept
<1>8. t \in Asset /\ DOMAIN dispensers' = DOMAIN dispensers
  BY <1>2, <1>4
<1>9. \A j \in DOMAIN dispensers : j # i => dispensers'[j] = dispensers[j]
  BY <1>4
<1> QED
  BY <1>3, <1>5, <1>6, <1>7, <1>8, <1>9, OneForOne

\* CLOSE moves it at once, or nothing yet.
LEMMA CloseKeeps ==
  ASSUME TypeOK, NEW source \in Address, NEW i \in DOMAIN dispensers,
         dispensers[i].status = "open", CloseDispenser(i, source)
  PROVE  Kept
<1> DEFINE asset == dispensers[i].asset
<1>2. IF CloseDelay = 0
        THEN /\ balances' = Credited(balances, source, asset, dispensers[i].give_remaining)
             /\ dispensers' = [dispensers EXCEPT ![i] = Closed(dispensers[i])]
        ELSE /\ dispensers' = [dispensers EXCEPT ![i] = Closing(dispensers[i], source)]
             /\ UNCHANGED balances
  BY DEF CloseDispenser
<1>3. i \in DOMAIN dispensers /\ dispensers[i].asset = asset
  OBVIOUS
<1>4. balances' \in Balances /\ dispensers' \in Rows
  BY CloseRows DEF Balances, Rows
<1>5. CASE CloseDelay = 0
  BY <1>2, <1>3, <1>4, <1>5, ClosedKeeps DEF ClosesRow
<1>6. CASE CloseDelay # 0
  <2>1. /\ balances' = balances
        /\ dispensers' = [dispensers EXCEPT ![i] = Closing(dispensers[i], source)]
    BY <1>2, <1>6
  <2>2. dispensers[i] \in Dispenser
    BY <1>3 DEF TypeOK
  <2>3. /\ Closing(dispensers[i], source).asset = dispensers[i].asset
        /\ Closing(dispensers[i], source).give_remaining = dispensers[i].give_remaining
    BY <2>2 DEF Closing, Dispenser
  <2>4. DOMAIN dispensers' = DOMAIN dispensers
    BY <2>1
  <2>5. \A s \in Asset : Held(dispensers', s) = Held(dispensers, s)
    BY <2>1, <2>3, <2>4 DEF Held
  <2> QED
    BY <2>1, <2>4, <2>5 DEF Kept, Total
<1> QED
  BY <1>5, <1>6

\* close_pending() moves it, since who closes is an address.
LEMMA PendingKeeps ==
  ASSUME TypeOK, ClosersAreKnown, ClosePending
  PROVE  Kept
<1>1. PICK i \in Pending :
        /\ balances' = Credited(balances, dispensers[i].last_status_tx_source,
                               dispensers[i].asset, dispensers[i].give_remaining)
        /\ dispensers' = [dispensers EXCEPT ![i] = Closed(dispensers[i])]
  BY DEF ClosePending
<1>2. i \in DOMAIN dispensers /\ dispensers[i].last_status_tx_source \in Address
  BY DEF Pending, ClosersAreKnown
<1>3. balances' \in Balances /\ dispensers' \in Rows
  BY PendingRows DEF Balances, Rows
<1> QED
  BY <1>1, <1>2, <1>3, ClosedKeeps DEF ClosesRow

\* The dispensers that give for an output have different assets.
LEMMA OnePerAsset ==
  ASSUME TypeOK, NEW out, NEW i \in Dispensing(out), NEW j \in Dispensing(out),
         dispensers[i].asset = dispensers[j].asset
  PROVE  i = j
<1>1. /\ i \in DOMAIN dispensers /\ j \in DOMAIN dispensers
      /\ i \in Live(out.destination, dispensers[i].asset)
      /\ j \in Live(out.destination, dispensers[j].asset)
  BY DEF Dispensing
<1>2. j <= i /\ i <= j
  BY <1>1 DEF Live, IsLast
<1>3. i \in Nat /\ j \in Nat
  BY <1>1, LenProperties DEF TypeOK
<1> QED
  BY <1>2, <1>3

\* The buyer and the address of a dispenser that closes are credited what leaves it.
LEMMA DispenseKeeps ==
  ASSUME TypeOK, PaysOthers, Dispense, UNCHANGED stopped
  PROVE  Kept
<1> DEFINE out == Head(paying.outs)
<1>1. /\ out \in [destination : Address, btc_amount : Payment]
      /\ out.destination # paying.source /\ paying.source \in Address
  <2>1. paying.outs \in Seq([destination : Address, btc_amount : Payment])
    BY DEF TypeOK
  <2>2. paying.outs # <<>>
    BY DEF Dispense
  <2>3. out \in [destination : Address, btc_amount : Payment]
    BY <2>1, <2>2, HeadTailProperties
  <2>4. 1 \in DOMAIN paying.outs /\ out = paying.outs[1]
    BY <2>1, <2>2, EmptySeq, LenProperties
  <2> QED
    BY <2>3, <2>4 DEF PaysOthers
<1>2. stopped = FALSE
  BY DEF Dispense, TypeOK
<1>3. /\ ~Raises(out)
      /\ balances' = [a \in Address |-> [s \in Asset |->
                        balances[a][s] + GivenTo(a, s, out)]]
      /\ dispensers' = [i \in DOMAIN dispensers |->
                          IF i \in Dispensing(out)
                            THEN Dispensed(dispensers[i], out.btc_amount)
                            ELSE dispensers[i]]
  BY <1>2 DEF Dispense, Stop
<1> HIDE DEF out
<1>4. /\ balances \in Balances /\ balances' \in Balances
      /\ dispensers \in Rows /\ dispensers' \in Rows
  BY DispenseRows DEF TypeOK, Balances, Rows
<1>5. DOMAIN dispensers' = DOMAIN dispensers
  BY <1>3
<1>6. \A i \in DOMAIN dispensers : dispensers'[i].asset = dispensers[i].asset
  BY DispenseRows DEF RowsStep, RowStep
<1> SUFFICES ASSUME NEW s \in Asset
             PROVE  Total(balances', dispensers', s) = Total(balances, dispensers, s)
  BY DEF Kept
<1>7. \A a \in Address : balances'[a][s] = balances[a][s] + GivenTo(a, s, out)
  BY <1>3
<1>8. CASE ~ \E i \in Dispensing(out) : dispensers[i].asset = s
  <2>1. \A a \in Address : balances[a][s] \in Int /\ GivenTo(a, s, out) = 0
    BY <1>4, <1>8 DEF GivenTo, Balances
  <2>2. Holds(balances', s) = Holds(balances, s)
    BY <1>4, <1>7, <2>1, HoldsSame
  <2>3. \A i \in DOMAIN dispensers : dispensers[i].asset = s => dispensers'[i] = dispensers[i]
    BY <1>3, <1>8
  <2>4. Held(dispensers', s) = Held(dispensers, s)
    BY <1>5, <1>6, <2>3 DEF Held
  <2> QED
    BY <1>5, <2>2, <2>4 DEF Total
<1>9. CASE \E i \in Dispensing(out) : dispensers[i].asset = s
  <2> DEFINE i == CHOOSE j \in Dispensing(out) : dispensers[j].asset = s
             d == dispensers[i]
             given == ActuallyGiven(d, out.btc_amount)
             left == IF Closes(d, out.btc_amount) THEN GiveRemaining(d, out.btc_amount) ELSE 0
  <2>1. i \in Dispensing(out) /\ dispensers[i].asset = s
    BY <1>9
  <2>2. \A a \in Address : GivenTo(a, s, out) =
          CASE a = paying.source -> given
            [] a = d.source /\ Closes(d, out.btc_amount) -> GiveRemaining(d, out.btc_amount)
            [] OTHER -> 0
    BY <1>9 DEF GivenTo
  <2> HIDE DEF i
  <2>3. /\ i \in DOMAIN dispensers /\ d \in Dispenser
        /\ given \in Nat /\ GiveRemaining(d, out.btc_amount) \in Nat /\ left \in Nat
    BY <1>1, <1>3, <2>1, GivenNat
  <2>4. d.source = out.destination
    BY <2>1 DEF Dispensing, Live
  <2>5. d.source # paying.source /\ d.source \in Address
    BY <1>1, <2>4
  <2>6. \A a \in Address : GivenTo(a, s, out) =
          IF a = paying.source THEN given ELSE IF a = d.source THEN left ELSE 0
    BY <2>2, <2>5
  <2>7. dispensers'[i].give_remaining = d.give_remaining - (given + left)
    <3>1. dispensers'[i] = Dispensed(d, out.btc_amount)
      BY <1>3, <2>1, <2>3
    <3>2. dispensers'[i].give_remaining
            = IF Closes(d, out.btc_amount) THEN 0 ELSE GiveRemaining(d, out.btc_amount)
      BY <2>3, <3>1 DEF Dispensed, Dispenser
    <3>3. GiveRemaining(d, out.btc_amount) = d.give_remaining - given
      BY DEF GiveRemaining
    <3>4. d.give_remaining \in Nat
      BY <2>3 DEF Dispenser
    <3> HIDE DEF d, given
    <3> QED
      BY <2>3, <3>2, <3>3, <3>4
  <2>8. ASSUME NEW j \in DOMAIN dispensers, j # i
        PROVE  Held(dispensers', s)[j] = Held(dispensers, s)[j]
    <3>1. dispensers[j].asset = s => dispensers'[j] = dispensers[j]
      BY <1>3, <2>1, <2>8, OnePerAsset
    <3> QED
      BY <1>5, <1>6, <3>1 DEF Held
  <2>9. SumFunctionOnSet(Held(dispensers', s), DOMAIN dispensers')
          = SumFunctionOnSet(Held(dispensers, s), DOMAIN dispensers)
              + (Held(dispensers', s)[i] - Held(dispensers, s)[i])
    BY <1>4, <1>5, <2>3, <2>8, HeldChange
  <2>10. Held(dispensers', s)[i] - Held(dispensers, s)[i] = 0 - (given + left)
    <3>1. /\ Held(dispensers', s)[i] = dispensers'[i].give_remaining
          /\ Held(dispensers, s)[i] = d.give_remaining
      BY <1>5, <1>6, <2>1, <2>3 DEF Held
    <3>2. d.give_remaining \in Nat
      BY <2>3 DEF Dispenser
    <3> HIDE DEF d, given, left
    <3> QED
      BY <2>3, <2>7, <3>1, <3>2
  <2> DEFINE c == [a \in Address |-> [u \in Asset |->
                     IF a = paying.source THEN balances'[a][u] ELSE balances[a][u]]]
  <2>11. c \in Balances
    BY <1>4 DEF Balances
  <2>12. \A a \in Address : c[a][s] = IF a = paying.source THEN balances'[a][s] ELSE balances[a][s]
    OBVIOUS
  <2> HIDE DEF c, d, given, left
  <2>13. \A a \in Address : balances[a][s] \in Int /\ balances'[a][s] \in Int
    BY <1>4 DEF Balances
  <2>14. SumFunctionOnSet(Holds(c, s), Address)
           = SumFunctionOnSet(Holds(balances, s), Address)
               + (c[paying.source][s] - balances[paying.source][s])
    BY <1>1, <1>4, <2>11, <2>12, HoldsChange
  <2>15. \A a \in Address : a # d.source => balances'[a][s] = c[a][s]
    BY <1>7, <2>6, <2>12, <2>13
  <2>16. SumFunctionOnSet(Holds(balances', s), Address)
           = SumFunctionOnSet(Holds(c, s), Address)
               + (balances'[d.source][s] - c[d.source][s])
    BY <1>4, <2>5, <2>11, <2>15, HoldsChange
  <2>17. c[paying.source][s] - balances[paying.source][s] = given
    BY <1>1, <1>7, <2>3, <2>6, <2>12, <2>13
  <2>18. balances'[d.source][s] - c[d.source][s] = left
    BY <1>7, <2>3, <2>5, <2>6, <2>12, <2>13
  <2>19. /\ SumFunctionOnSet(Holds(balances, s), Address) \in Int
         /\ SumFunctionOnSet(Held(dispensers, s), DOMAIN dispensers) \in Int
    BY <1>4, SumsAreIntegers
  <2> QED
    BY <2>3, <2>9, <2>10, <2>14, <2>16, <2>17, <2>18, <2>19 DEF Total
<1> QED
  BY <1>8, <1>9

\* No step creates or loses any of an asset.
LEMMA StepKeepsAssets ==
  ASSUME TypeOK, ClosersAreKnown, PaysOthers, [Next]_vars
  PROVE  Kept
<1>0. ASSUME UNCHANGED <<balances, dispensers>> PROVE Kept
  BY <1>0 DEF Kept
<1>1. CASE ParseOpen
  <2>1. PICK source \in Address, address \in Address, o \in Offer, fee \in Payment :
          \/ Stop
          \/ MayOpen(source, o) /\ OpenDispenser(source, o, fee)
          \/ \E i \in Refillable(source, address, o) : RefillDispenser(i, source, o, fee)
    BY <1>1 DEF ParseOpen
  <2>2. CASE Stop
    BY <1>0, <2>2 DEF Stop
  <2> QED
    BY <2>1, <2>2, OpenKeeps, RefillKeeps
<1>2. CASE ParseClose
  <2>1. CASE Stop
    BY <1>0, <2>1 DEF Stop
  <2> QED
    BY <1>2, <2>1, CloseCases, CloseKeeps
<1>3. CASE ParseBroadcast \/ ParseDispense \/ NextBlock \/ UNCHANGED vars
  BY <1>0, <1>3 DEF ParseBroadcast, ParseDispense, NextBlock, vars
<1>4. CASE Dispense
  <2>1. CASE Stop
    BY <1>0, <2>1 DEF Stop
  <2>2. CASE ~Stop
    BY <1>4, <2>2, DispenseKeeps DEF Dispense
  <2> QED
    BY <2>1, <2>2
<1>5. CASE ClosePending
  BY <1>5, PendingKeeps
<1> QED
  BY <1>1, <1>2, <1>3, <1>4, <1>5 DEF Next

\* Since closed rows hold nothing, the live ones and the balances hold all.
LEMMA StepKeepsConserved ==
  ASSUME TypeOK, TypeOK', BooksBalance, BooksBalance', AssetIsConserved, Kept
  PROVE  AssetIsConserved'
<1> SUFFICES ASSUME NEW s \in Asset
             PROVE  HeldOf(balances', dispensers', s) = HeldOf(Funds, Legacy, s)
  BY DEF AssetIsConserved
<1>1. HeldOf(balances, dispensers, s) = Total(balances, dispensers, s)
  BY HeldByLive DEF TypeOK, Rows, BooksBalance, Books
<1>2. HeldOf(balances', dispensers', s) = Total(balances', dispensers', s)
  <2>1. dispensers' \in Rows /\ \A i \in DOMAIN dispensers' : LiveCanGive(dispensers'[i])
    BY DEF TypeOK, Rows, BooksBalance, Books, LiveCanGive
  <2> QED
    BY <2>1, HeldByLive
<1> QED
  BY <1>1, <1>2 DEF AssetIsConserved, Kept

\* Who closes is known, and nobody pays himself.
LEMMA StepKeepsClosers ==
  ASSUME ClosersAreKnown, RowsStep
  PROVE  ClosersAreKnown'
<1> SUFFICES ASSUME NEW i \in DOMAIN dispensers', dispensers'[i].status = "closing"
             PROVE  dispensers'[i].last_status_tx_source \in Address
  BY DEF ClosersAreKnown
<1>1. i \in DOMAIN dispensers
  BY DEF RowsStep
<1> QED
  BY <1>1 DEF RowsStep, RowStep, ClosersAreKnown

\* The outputs of a payment stay those to others than the payer.
LEMMA StepKeepsPayers ==
  ASSUME TypeOK, PaysOthers, [Next]_vars
  PROVE  PaysOthers'
<1>1. CASE UNCHANGED paying
  BY <1>1 DEF PaysOthers
<1>2. CASE ParseDispense
  BY <1>2 DEF ParseDispense, PaysOthers
<1>3. CASE Dispense
  <2>1. /\ paying.outs # <<>>
        /\ \/ UNCHANGED paying
           \/ paying' = NoTx
           \/ paying' = [paying EXCEPT !.outs = Tail(@)]
    BY <1>3 DEF Dispense, Stop
  <2>2. CASE paying' = NoTx
    BY <2>2 DEF NoTx, PaysOthers
  <2>3. CASE paying' = [paying EXCEPT !.outs = Tail(@)]
    <3>1. paying'.outs = Tail(paying.outs) /\ paying'.source = paying.source
      BY <2>3 DEF TypeOK
    <3>2. paying.outs \in Seq([destination : Address, btc_amount : Payment])
      BY DEF TypeOK
    <3>3. \A k \in 1..Len(Tail(paying.outs)) :
            k + 1 \in 1..Len(paying.outs) /\ Tail(paying.outs)[k] = paying.outs[k + 1]
      BY <2>1, <3>2, HeadTailProperties, LenProperties
    <3>4. /\ DOMAIN Tail(paying.outs) = 1..Len(Tail(paying.outs))
          /\ DOMAIN paying.outs = 1..Len(paying.outs)
      BY <2>1, <3>2, HeadTailProperties, LenProperties
    <3> QED
      BY <3>1, <3>3, <3>4 DEF PaysOthers
  <2> QED
    BY <1>1, <2>1, <2>2, <2>3
<1> QED
  BY <1>1, <1>2, <1>3 DEF Next, vars, ParseOpen, OpenDispenser, RefillDispenser, Stop, ParseClose,
                          CloseDispenser, ParseBroadcast, NextBlock, ClosePending

----------------------------------------------------------------------------
\* What stops the parsing

\* A quotient that a float holds exactly is not rounded up.
LEMMA FloatIsExact ==
  ASSUME NEW a \in Nat, NEW b \in Nat \ {0}, a < Mantissa
  PROVE  FloatFloor(a, b) = a \div b
<1> SUFFICES ASSUME RoundsUp(a, b) PROVE FALSE
  BY DEF FloatFloor
<1> DEFINE q == a \div b
           r == a % b
           t == b - r
<1>1. /\ q \in Nat /\ r \in Nat /\ r < b /\ a = b * q + r
  OBVIOUS
<1>2. PICK p \in Binade(q + 1) : 2 * Mantissa * t <= b * p
  BY DEF RoundsUp
<1>3. p \in Int /\ p <= 2 * (q + 1) - 1
  BY <1>1 DEF Binade
<1>4. Mantissa \in Int
  BY DispensersAssumption
<1>5. t \in Int /\ t >= 1
  BY <1>1
<1> HIDE DEF q, r
<1>6. b * p <= b * (2 * (q + 1) - 1)
  <2>1. b * (2 * (q + 1) - 1 - p) >= 0
    BY <1>1, <1>3
  <2>2. b * (2 * (q + 1) - 1 - p) = b * (2 * (q + 1) - 1) - b * p
    BY <1>1, <1>3
  <2> QED
    BY <1>1, <1>3, <2>1, <2>2
<1>7. b * (2 * (q + 1) - 1) = 2 * (b * q) + b
  BY <1>1
<1>8. 2 * (b * q) + b < 2 * (a + t)
  BY <1>1
<1>9. (a + 1) * t <= Mantissa * t
  <2>1. (Mantissa - (a + 1)) * t >= 0
    BY <1>4, <1>5
  <2>2. (Mantissa - (a + 1)) * t = Mantissa * t - (a + 1) * t
    BY <1>4, <1>5
  <2> QED
    BY <1>4, <1>5, <2>1, <2>2
<1>10. a + t <= (a + 1) * t
  <2>1. a * (t - 1) >= 0
    BY <1>5
  <2>2. (a + 1) * t = a * (t - 1) + (a + t)
    BY <1>5
  <2> QED
    BY <1>5, <2>1, <2>2
<1>11. 2 * Mantissa * t = 2 * (Mantissa * t)
  BY <1>4, <1>5
<1>12. /\ b * p \in Int /\ Mantissa * t \in Int /\ (a + 1) * t \in Int /\ b * q \in Int
  BY <1>1, <1>3, <1>4, <1>5
<1> HIDE DEF t
<1> QED
  BY <1>2, <1>5, <1>6, <1>7, <1>8, <1>9, <1>10, <1>11, <1>12

\* At a price that is not negative, no payment makes the assertion or the credit fail
\* when the amount that is left is one that a float holds.
LEMMA GivesNoMoreThanItHas ==
  ASSUME TypeOK, NEW d \in Dispenser, NEW btc \in Payment, d.give_remaining < Mantissa,
         d.oracle_address # NoOracle => prices[d.oracle_address].value >= 0
  PROVE  ActuallyGiven(d, btc) >= 0 /\ GiveRemaining(d, btc) >= 0
<1>1. /\ d.give_quantity \in Nat \ {0} /\ d.give_remaining \in Nat
      /\ d.satoshirate \in Nat \ {0} /\ btc \in Nat
      /\ d.oracle_address \in Oracle \cup {NoOracle}
  BY DispensersAssumption DEF Dispenser
<1> DEFINE n == d.give_remaining \div d.give_quantity
           m == IF MustGive(d, btc) < RemainingDispenses(d)
                  THEN MustGive(d, btc) ELSE RemainingDispenses(d)
<1>2. RemainingDispenses(d) = n
  BY <1>1, FloatIsExact DEF RemainingDispenses
<1>3. n \in Nat /\ d.give_quantity * n <= d.give_remaining
  BY <1>1
<1>4. MustGive(d, btc) \in Nat
  <2>1. CASE d.oracle_address = NoOracle
    <3>1. btc \div d.satoshirate \in Nat
      BY <1>1
    <3> QED
      BY <2>1, <3>1 DEF MustGive
  <2>2. CASE d.oracle_address # NoOracle
    <3> DEFINE v == prices[d.oracle_address].value
    <3>1. v \in Int
      BY <1>1, <2>2 DEF TypeOK, Feed
    <3>2. v >= 0
      BY <2>2
    <3> HIDE DEF v
    <3>3. btc * v \in Nat
      BY <1>1, <3>1, <3>2
    <3>4. (btc * v) \div d.satoshirate \in Nat
      BY <1>1, <3>3
    <3> QED
      BY <2>2, <3>4 DEF MustGive, v
  <2> QED
    BY <2>1, <2>2
<1>5. m \in Nat /\ m <= n
  BY <1>2, <1>3, <1>4
<1>6. ActuallyGiven(d, btc) = d.give_quantity * m
  BY DEF ActuallyGiven
<1> HIDE DEF m, n
<1>7. d.give_quantity * m \in Nat
  BY <1>1, <1>5
<1>8. d.give_quantity * m <= d.give_quantity * n
  <2>1. d.give_quantity * (n - m) >= 0
    BY <1>1, <1>3, <1>5
  <2>2. d.give_quantity * (n - m) = d.give_quantity * n - d.give_quantity * m
    BY <1>1, <1>3, <1>5
  <2>3. d.give_quantity * n \in Int
    BY <1>1, <1>3
  <2> QED
    BY <1>7, <2>1, <2>2, <2>3
<1>9. d.give_quantity * n \in Int
  BY <1>1, <1>3
<1> QED
  BY <1>1, <1>3, <1>6, <1>7, <1>8, <1>9 DEF GiveRemaining

\* An exception while an output is parsed has a reason.
LEMMA RaisesForAReason ==
  ASSUME TypeOK, NEW out \in [destination : Address, btc_amount : Payment], Raises(out)
  PROVE  \/ \E o \in Oracle : prices[o].state = "locked" \/ prices[o].value < 0
         \/ \E i \in DOMAIN dispensers : dispensers[i].give_remaining >= Mantissa
<1>1. PICK i \in DOMAIN dispensers :
        \/ FeedState(dispensers[i].oracle_address) = "locked"
        \/ GiveRemaining(dispensers[i], out.btc_amount) < 0
        \/ ActuallyGiven(dispensers[i], out.btc_amount) < 0
  BY DEF Raises
<1> DEFINE d == dispensers[i]
<1>2. d \in Dispenser
  BY DEF TypeOK
<1>3. d.oracle_address \in Oracle \cup {NoOracle} /\ d.give_remaining \in Nat
  BY <1>2 DEF Dispenser
<1>4. CASE FeedState(d.oracle_address) = "locked"
  <2>1. d.oracle_address # NoOracle
    BY <1>4 DEF FeedState
  <2> QED
    BY <1>3, <1>4, <2>1 DEF FeedState
<1>5. CASE FeedState(d.oracle_address) # "locked"
  <2>1. ~ (ActuallyGiven(d, out.btc_amount) >= 0 /\ GiveRemaining(d, out.btc_amount) >= 0)
    BY <1>1, <1>2, <1>5, GivenInt
  <2>2. \/ ~ (d.give_remaining < Mantissa)
        \/ d.oracle_address # NoOracle /\ ~ (prices[d.oracle_address].value >= 0)
    BY <1>2, <2>1, GivesNoMoreThanItHas
  <2>3. Mantissa \in Int
    BY DispensersAssumption
  <2>4. CASE ~ (d.give_remaining < Mantissa)
    BY <1>3, <2>3, <2>4
  <2>5. CASE d.oracle_address # NoOracle /\ ~ (prices[d.oracle_address].value >= 0)
    <3>1. d.oracle_address \in Oracle
      BY <1>3, <2>5
    <3>2. prices[d.oracle_address].value \in Int
      BY <3>1 DEF TypeOK, Feed
    <3> QED
      BY <2>5, <3>1, <3>2
  <2> QED
    BY <2>2, <2>4, <2>5
<1> QED
  BY <1>4, <1>5

\* What stops the parsing has a reason, which stays: nothing changes any more.
LEMMA StepKeepsReasons ==
  ASSUME TypeOK, StopsForAReason, [Next]_vars
  PROVE  StopsForAReason'
<1>1. CASE ~stopped'
  BY <1>1 DEF StopsForAReason
<1>2. CASE UNCHANGED vars
  BY <1>2 DEF StopsForAReason, vars, feeds
<1>3. CASE ParseOpen /\ stopped'
  <2>1. PICK o \in Offer :
          /\ Stop
          /\ FeedState(o.oracle_address) = "locked" \/ PriceIsZero(o)
    BY <1>3 DEF ParseOpen, Parsing, OpenDispenser, RefillDispenser, TypeOK
  <2>2. o.oracle_address \in Oracle \cup {NoOracle}
    BY DispensersAssumption DEF Offers
  <2>3. o.oracle_address # NoOracle
    BY <2>1 DEF FeedState, PriceIsZero
  <2>4. o.oracle_address \in Oracle
    BY <2>2, <2>3
  <2>5. prices[o.oracle_address] \in Feed
    BY <2>4 DEF TypeOK
  <2>6. \/ prices[o.oracle_address].state = "locked"
        \/ prices[o.oracle_address] = [state |-> "price", value |-> 0]
    BY <2>1, <2>3, <2>5 DEF FeedState, PriceIsZero, Feed
  <2> QED
    BY <2>1, <2>4, <2>6 DEF StopsForAReason, Stop, feeds
<1>4. CASE Dispense /\ stopped'
  <2>1. paying.outs # <<>> /\ ~stopped
    BY <1>4 DEF Dispense
  <2>2. Raises(Head(paying.outs)) /\ Stop
    BY <1>4, <2>1 DEF Dispense, TypeOK
  <2>3. Head(paying.outs) \in [destination : Address, btc_amount : Payment]
    BY <2>1, HeadTailProperties DEF TypeOK
  <2> QED
    BY <2>2, <2>3, RaisesForAReason DEF StopsForAReason, Stop, feeds
<1>5. CASE ParseBroadcast \/ ParseDispense \/ NextBlock \/ ClosePending
  <2>1. ~stopped'
    BY <1>5 DEF ParseBroadcast, ParseDispense, NextBlock, ClosePending, Parsing
  <2> QED
    BY <1>1, <2>1
<1>6. CASE ParseClose /\ stopped'
  <2>1. PICK oracle \in Oracle \cup {NoOracle} : Stop /\ FeedState(oracle) = "locked"
    BY <1>6 DEF ParseClose, Parsing, CloseDispenser, TypeOK
  <2>2. oracle \in Oracle /\ prices[oracle].state = "locked"
    BY <2>1 DEF FeedState
  <2> QED
    BY <2>1, <2>2 DEF StopsForAReason, Stop, feeds
<1> QED
  BY <1>1, <1>2, <1>3, <1>4, <1>5, <1>6 DEF Next

----------------------------------------------------------------------------
\* The invariant

\* The invariant holds at first,
LEMMA InitInv == Init => IInv
<1> SUFFICES ASSUME Init PROVE IInv
  OBVIOUS
<1>1. TypeOK
  <2>1. /\ block_index \in Nat /\ txs \in Nat /\ stopped \in BOOLEAN
        /\ balances \in [Address -> [Asset -> Nat]] /\ dispensers \in Seq(Dispenser)
    BY DispensersAssumption DEF Init
  <2>2. prices \in [Oracle -> Feed] /\ broadcasts \in [Oracle -> Feed]
    BY DEF Init, Silent, Feed
  <2>3. paying \in [source : Address \cup {NoAddress},
                   outs : Seq([destination : Address, btc_amount : Payment])]
    BY EmptySeq DEF Init, NoTx
  <2> QED
    BY <2>1, <2>2, <2>3 DEF TypeOK
<1>2. dispensers = Legacy /\ paying = NoTx
  BY DEF Init
<1>3. \A i \in DOMAIN dispensers : dispensers[i].status = "open"
  BY <1>2, LegacyAssumption
<1>4. OneLiveDispenser
  <2>1. \A i, j \in DOMAIN dispensers :
          dispensers[i].source = dispensers[j].source /\ dispensers[i].asset = dispensers[j].asset
            => i = j
    BY <1>2, LegacyAssumption
  <2>2. \A i \in DOMAIN dispensers : i \in Nat
    BY <1>1, LenProperties DEF TypeOK
  <2> QED
    BY <2>1, <2>2 DEF OneLiveDispenser
<1>5. BooksBalance
  <2> SUFFICES ASSUME NEW i \in DOMAIN dispensers PROVE Books(dispensers[i])
    BY DEF BooksBalance
  <2>1. dispensers[i] \in Dispenser
    BY <1>1 DEF TypeOK
  <2>2. /\ dispensers[i].satoshirate \in Nat /\ dispensers[i].give_quantity \in Nat
    BY <2>1 DEF Dispenser
  <2>3. /\ dispensers[i].status = "open"
        /\ dispensers[i].give_remaining >= dispensers[i].give_quantity
        /\ dispensers[i].give_remaining + dispensers[i].dispensed = dispensers[i].escrowed
        /\ dispensers[i].dispensed = 0 /\ dispensers[i].income = 0
    BY <1>2, LegacyAssumption
  <2> QED
    BY <2>2, <2>3 DEF Books, LiveCanGive, NothingIsLost, IsPaidFor
<1>6. PaysOthers
  BY <1>2 DEF NoTx, PaysOthers
<1>7. AssetIsConserved
  BY <1>2 DEF Init, AssetIsConserved
<1>8. StopsForAReason
  BY DEF Init, StopsForAReason
<1> QED
  BY <1>1, <1>2, <1>3, <1>4, <1>5, <1>6, <1>7, <1>8 DEF IInv, ClosingInTime, DueBeforePayments,
                                                       ClosersAreKnown

\* every step keeps it,
LEMMA NextInv == IInv /\ [Next]_vars => IInv'
<1> SUFFICES ASSUME IInv, [Next]_vars PROVE IInv'
  OBVIOUS
<1>1. TypeOK' /\ RowsStep
  BY StepKeepsTypes DEF IInv
<1>2. OneLiveDispenser'
  BY <1>1, StepKeepsOneLive DEF IInv
<1>3. ClosingInTime'
  BY <1>1, NextKeepsBlock, StepKeepsClosingInTime
<1>4. DueBeforePayments'
  <2>1. CASE UNCHANGED block_index
    <3>1. Pending' \subseteq Pending
      BY <1>1, <2>1, NothingMoreIsDue
    <3>2. Pending # {} => paying' = NoTx
      BY NoPaymentWhileDue
    <3> QED
      BY <3>1, <3>2 DEF DueBeforePayments, NoTx
  <2>2. CASE UNCHANGED paying /\ paying = NoTx
    BY <2>2 DEF DueBeforePayments, NoTx
  <2> QED
    BY <2>1, <2>2, NextKeepsBlock
<1>5. BooksBalance'
  BY <1>1, StepKeepsBooks DEF IInv
<1>6. ClosersAreKnown'
  BY <1>1, StepKeepsClosers DEF IInv
<1>7. PaysOthers'
  BY StepKeepsPayers DEF IInv
<1>8. AssetIsConserved'
  BY <1>1, <1>5, StepKeepsAssets, StepKeepsConserved DEF IInv
<1>9. StopsForAReason'
  BY StepKeepsReasons DEF IInv
<1> QED
  BY <1>1, <1>2, <1>3, <1>4, <1>5, <1>6, <1>7, <1>8, <1>9 DEF IInv

\* and so it holds always.
LEMMA Invariance == Spec => []IInv
BY InitInv, NextInv, PTL DEF Spec

----------------------------------------------------------------------------
\* Types are kept, for all offers and payments; no balance is ever negative.
THEOREM TypeCorrect == Spec => []TypeOK
<1>1. IInv => TypeOK
  BY DEF IInv
<1> QED
  BY <1>1, Invariance, PTL

\* An address never has two dispensers of an asset to give from, and the queries, that
\* look at the last row only, overlook none.
THEOREM OneLive == Spec => []OneLiveDispenser
<1>1. IInv => OneLiveDispenser
  BY DEF IInv
<1> QED
  BY <1>1, Invariance, PTL

\* A live dispenser holds what was put into it less what it gave, enough for one more
\* dispense; a closed one holds nothing; and none gives more than it was paid for.
THEOREM BooksAlwaysBalance == Spec => []BooksBalance
<1>1. IInv => BooksBalance
  BY DEF IInv
<1> QED
  BY <1>1, Invariance, PTL

\* The books of every dispenser balance, and what addresses and live dispensers hold of an
\* asset is what they held at first: no opening, refill, payment or closing creates or
\* loses any of it.
THEOREM EscrowAlwaysAccounted == Spec => []EscrowIsAccounted
<1>1. IInv => EscrowIsAccounted
  BY DEF IInv, BooksBalance, Books, EscrowIsAccounted
<1> QED
  BY <1>1, Invariance, PTL

\* Parsing stops only at a feed that is locked or has no positive price, or at an amount
\* that a float does not hold: a float that does never rounds a quotient up to the next
\* integer, so that the assertion of dispense.parse() holds.
THEOREM AlwaysStopsForAReason == Spec => []StopsForAReason
<1>1. IInv => StopsForAReason
  BY DEF IInv
<1> QED
  BY <1>1, Invariance, PTL

\* A dispenser that is closing takes no refill and is not opened again, closes in the
\* block that was announced, before any transaction of it; a closed one is never used.
THEOREM NoWayBackEver == Spec => NoWayBack
<1> DEFINE Step == \A i \in DOMAIN dispensers :
       /\ dispensers[i].status = "closing" =>
            /\ dispensers[i].close_block_index \in block_index..(block_index + CloseDelay)
            /\ dispensers[i].close_block_index = block_index => paying' = NoTx
            /\ dispensers'[i].status # "open"
            /\ dispensers'[i].refills = dispensers[i].refills
            /\ dispensers'[i].last_status_tx_source = dispensers[i].last_status_tx_source
       /\ dispensers[i].status = "closed" => dispensers'[i] = dispensers[i]
<1>1. IInv /\ [Next]_vars => [Step]_vars
  <2> SUFFICES ASSUME IInv, [Next]_vars, NEW i \in DOMAIN dispensers
               PROVE  /\ dispensers[i].status = "closing" =>
                           /\ dispensers[i].close_block_index
                                \in block_index..(block_index + CloseDelay)
                           /\ dispensers[i].close_block_index = block_index => paying' = NoTx
                           /\ dispensers'[i].status # "open"
                           /\ dispensers'[i].refills = dispensers[i].refills
                           /\ dispensers'[i].last_status_tx_source
                                = dispensers[i].last_status_tx_source
                      /\ dispensers[i].status = "closed" => dispensers'[i] = dispensers[i]
    OBVIOUS
  <2>1. RowStep(dispensers[i], dispensers'[i])
    BY StepKeepsTypes DEF IInv, RowsStep
  <2>2. dispensers[i].status = "closing" =>
          dispensers[i].close_block_index \in block_index..(block_index + CloseDelay)
    BY DEF IInv, ClosingInTime
  <2>3. dispensers[i].status = "closing" /\ dispensers[i].close_block_index = block_index
          => paying' = NoTx
    <3> SUFFICES ASSUME dispensers[i].status = "closing",
                        dispensers[i].close_block_index = block_index
                 PROVE  paying' = NoTx
      OBVIOUS
    <3>1. Pending # {}
      BY DEF Pending
    <3> QED
      BY <3>1, NoPaymentWhileDue
  <2> QED
    BY <2>1, <2>2, <2>3 DEF RowStep
<1> QED
  BY <1>1, Invariance, PTL DEF Spec, NoWayBack
===============================================================================
