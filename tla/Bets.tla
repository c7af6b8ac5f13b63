-------------------------------- MODULE Bets --------------------------------
(***************************************************************************)
(* Bets of counterparty-core (messages/bet.py) and the broadcasts that     *)
(* decide them (messages/broadcast.py): two addresses stake XCP on the     *)
(* value that a feed will announce once a deadline has passed.  An open    *)
(* bet is matched with the bets against it, cancelled by its source,       *)
(* dropped by its feed, or expires; a match waits for the feed and is      *)
(* settled, dropped or expires two weeks after its deadline.               *)
(*                                                                         *)
(* The rules are those of mainnet since block 557236.  Contracts for       *)
(* difference can no longer be opened, so a bet is Equal or NotEqual.      *)
(* Rejected messages are recorded and change nothing, so they are no       *)
(* steps.                                                                  *)
(***************************************************************************)
EXTENDS Integers, Sequences, FiniteSets, FiniteSetsExt

CONSTANTS
  Address,
  Feed,            \* the addresses that broadcast
  Funds,           \* the XCP of each address at first
  Message,         \* bound: the bets that are sent (Messages below)
  News,            \* bound: the broadcasts that are sent (Broadcasts below)
  Unit,            \* 10^8, the denominator of a fee fraction
  TwoWeeks,        \* TWO_WEEKS
  Times,           \* bound: the times of blocks
  FirstBlock, LastBlock,   \* bound: blocks
  MaxTxs           \* bound: transactions

Equal == 2
NotEqual == 3
BetType == {Equal, NotEqual}

Messages ==
  [bet_type : BetType, deadline : Nat, wager : Nat, counterwager : Nat,
   target_value : Nat, expiration : Nat]

\* text is what the code asks of it: whether it is there, and whether it says "lock".
Broadcasts ==
  [timestamp : Nat, value : Int, fee_fraction : 0..(Unit - 1),
   text : {"words", "none", "lock"}]

ASSUME BetsAssumption ==
  /\ Feed \subseteq Address /\ IsFiniteSet(Address)
  /\ Funds \in [Address -> Nat]
  /\ Unit \in Nat \ {0} /\ TwoWeeks \in Nat \ {0}
  /\ Message \subseteq Messages /\ News \subseteq Broadcasts
  /\ Times \subseteq Nat /\ Times # {}
  /\ {FirstBlock, LastBlock, MaxTxs} \subseteq Nat /\ FirstBlock <= LastBlock

\* A row of `broadcasts`; of one that locks its feed, the text says so.
BroadcastRow == Broadcasts

\* A row of `bets`
Bet ==
  [source : Address, feed_address : Feed, bet_type : BetType, deadline : Nat,
   wager_quantity : Nat \ {0}, wager_remaining : Nat,
   counterwager_quantity : Nat \ {0}, counterwager_remaining : Int,
   target_value : Nat, fee_fraction : 0..(Unit - 1), expire_index : Nat,
   status : {"open", "filled", "cancelled", "dropped", "expired"}]

\* A row of `bet_matches`; tx0 and tx1 are the places of its bets.
Match ==
  [tx0 : Nat \ {0}, tx1 : Nat \ {0}, forward_quantity : Nat \ {0},
   backward_quantity : Nat \ {0}, deadline : Nat, fee_fraction : 0..(Unit - 1),
   status : {"pending", "equal", "notequal", "dropped", "expired"}]

VARIABLES
  block_index, block_time, txs,
  balances, bets, bet_matches,
  broadcasts,      \* the valid broadcasts of each feed
  matching,        \* the bet being matched and the bets it is still to be tried with
  stopped          \* an exception ended the parsing of the block

clock == <<block_index, block_time>>
vars == <<clock, txs, balances, bets, bet_matches, broadcasts, matching, stopped>>

Idle == [tx1 |-> 0, candidates |-> {}]

Init ==
  /\ block_index = FirstBlock /\ block_time \in Times /\ txs = 0
  /\ balances = Funds /\ bets = <<>> /\ bet_matches = <<>>
  /\ broadcasts = [f \in Feed |-> <<>>]
  /\ matching = Idle /\ stopped = FALSE

----------------------------------------------------------------------------
\* Queries

LastBroadcast(f) == broadcasts[f][Len(broadcasts[f])]

OpenBets == {i \in DOMAIN bets : bets[i].status = "open"}
OpenOfFeed(f) == {i \in OpenBets : bets[i].feed_address = f}
PendingOfFeed(f) ==
  {m \in DOMAIN bet_matches : /\ bet_matches[m].status = "pending"
                              /\ bets[bet_matches[m].tx0].feed_address = f}

\* get_bets_to_expire(), get_bet_matches_to_expire() of a block.  The second looks
\* back no further than another two weeks.
BetsToExpire(block) == {i \in OpenBets : bets[i].expire_index = block - 1}
MatchesToExpire(time) ==
  {m \in DOMAIN bet_matches :
     /\ bet_matches[m].deadline < time - TwoWeeks
     /\ bet_matches[m].deadline > time - 2 * TwoWeeks
     /\ bet_matches[m].status = "pending"}

\* round() of a fraction: to the even one of two integers that are as near
Round(a, b) ==
  LET q == a \div b
      r == a % b
  IN  IF 2 * r > b \/ (2 * r = b /\ q % 2 = 1) THEN q + 1 ELSE q
Least(a, b) == IF a < b THEN a ELSE b

----------------------------------------------------------------------------
\* Credits

\* cancel_bet(), cancel_bet_match(): who gets what back
Refund(i, a) == IF bets[i].source = a THEN bets[i].wager_remaining ELSE 0
MatchRefund(m, a) ==
  (IF bets[bet_matches[m].tx0].source = a THEN bet_matches[m].forward_quantity ELSE 0)
  + (IF bets[bet_matches[m].tx1].source = a THEN bet_matches[m].backward_quantity ELSE 0)

CancelBets(S, status) ==
  bets' = [i \in DOMAIN bets |->
             IF i \in S THEN [bets[i] EXCEPT !.status = status] ELSE bets[i]]
CancelMatches(S, status) ==
  bet_matches' = [m \in DOMAIN bet_matches |->
     IF m \in S THEN [bet_matches[m] EXCEPT !.status = status] ELSE bet_matches[m]]
Refunded(S, M) ==
  [a \in Address |->
     balances[a] + SumFunctionOnSet([i \in S |-> Refund(i, a)], S)
                 + SumFunctionOnSet([m \in M |-> MatchRefund(m, a)], M)]

----------------------------------------------------------------------------
\* bet.parse()

Parsing == ~stopped /\ matching = Idle /\ txs < MaxTxs

\* A bet of more than the balance becomes one of the whole balance.
Overbet(source, m) ==
  IF balances[source] < m.wager
    THEN [m EXCEPT !.wager = balances[source],
                   !.counterwager = (balances[source] * m.counterwager) \div m.wager]
    ELSE m

FeedIsOpen(f) == broadcasts[f] # <<>> /\ LastBroadcast(f).text = "words"
DeadlineIsNotPast(f, m) == LastBroadcast(f).timestamp <= m.deadline
DeadlineIsAhead(f, m) == LastBroadcast(f).timestamp < m.deadline

NewBet(source, f, m) ==
  [source |-> source, feed_address |-> f, bet_type |-> m.bet_type,
   deadline |-> m.deadline,
   wager_quantity |-> m.wager, wager_remaining |-> m.wager,
   counterwager_quantity |-> m.counterwager, counterwager_remaining |-> m.counterwager,
   target_value |-> m.target_value, fee_fraction |-> LastBroadcast(f).fee_fraction,
   expire_index |-> block_index + m.expiration, status |-> "open"]

\* get_matching_bets()
CounterBetsLimited(f, type) ==
  {i \in OpenOfFeed(f) : /\ bets[i].bet_type # type
                         /\ \A k \in OpenOfFeed(f) : bets[k].bet_type # type => i <= k}
CounterBets(f, type) == {i \in OpenOfFeed(f) : bets[i].bet_type # type}

\* validate()
Valid(f, m) ==
  /\ FeedIsOpen(f) /\ DeadlineIsAhead(f, m)
  /\ m.wager > 0 /\ m.counterwager > 0

OpenBet(source, f, m) ==
  /\ Valid(f, m)
  /\ balances' = [balances EXCEPT ![source] = @ - m.wager]
  /\ bets' = Append(bets, NewBet(source, f, m))
  /\ matching' = [tx1 |-> Len(bets) + 1, candidates |-> CounterBets(f, m.bet_type)]
  /\ UNCHANGED <<clock, bet_matches, broadcasts, stopped>>

\* Odds are not defined without a counterwager: the division that reduces an
\* overbet raises then, before the message is validated.
OddsAreZero(source, m) ==
  m.counterwager = 0 /\ 0 < balances[source] /\ balances[source] < m.wager

ParseBet ==
  /\ Parsing /\ txs' = txs + 1
  /\ \E source \in Address, f \in Feed, m \in Message :
       IF OddsAreZero(source, m)
         THEN /\ stopped' = TRUE
              /\ UNCHANGED <<clock, balances, bets, bet_matches, broadcasts, matching>>
         ELSE OpenBet(source, f, Overbet(source, m))

----------------------------------------------------------------------------
\* bet.match(): a step for each of the bets that are tried, in the order of the
\* transactions (the two calls of sorted() leave the list as it is)

Agree(b0, b1) ==
  /\ b0.target_value = b1.target_value
  /\ b0.fee_fraction = b1.fee_fraction
  /\ b0.deadline = b1.deadline
OddsAreAny(b0, b1) == TRUE
OddsAgree(b0, b1) ==
  b0.counterwager_quantity * b1.counterwager_quantity
    <= b0.wager_quantity * b1.wager_quantity

\* The odds are those of the earlier bet, and they trade as much as they can.
ForwardUnbounded(b0, b1) ==
  (b1.wager_remaining * b1.counterwager_quantity) \div b1.wager_quantity
Forward(b0, b1) ==
  Least(b0.wager_remaining,
        (b1.wager_remaining * b1.counterwager_quantity) \div b1.wager_quantity)
Backward(b0, b1) ==
  Round(Forward(b0, b1) * b0.counterwager_quantity, b0.wager_quantity)

CanTrade(b0, b1) ==
  /\ Agree(b0, b1) /\ OddsAgree(b0, b1)
  /\ Forward(b0, b1) # 0 /\ Backward(b0, b1) # 0

\* A bet that staked so much for so much
TradedAndCleared(b, stake, counter) ==
  IF b.wager_remaining - stake <= 0 \/ b.counterwager_remaining - counter <= 0
    THEN [b EXCEPT !.wager_remaining = 0, !.counterwager_remaining = @ - counter,
                   !.status = "filled"]
    ELSE [b EXCEPT !.wager_remaining = @ - stake,
                   !.counterwager_remaining = @ - counter]
Traded(b, stake, counter) ==
  [b EXCEPT !.wager_remaining = @ - stake,
            !.counterwager_remaining = @ - counter,
            !.status = IF \/ b.wager_remaining - stake <= 0
                          \/ b.counterwager_remaining - counter <= 0
                         THEN "filled" ELSE @]
\* What is left of a bet that is filled is given back.
Leftover(b, a) == IF b.status = "filled" /\ b.source = a THEN b.wager_remaining ELSE 0

TryBet ==
  /\ matching.candidates # {}
  /\ LET i  == Min(matching.candidates)
         j  == matching.tx1
         b0 == bets[i]
         b1 == bets[j]
         n0 == Traded(b0, Forward(b0, b1), Backward(b0, b1))
         n1 == Traded(b1, Backward(b0, b1), Forward(b0, b1))
         left == matching.candidates \ {i}
     IN  IF CanTrade(b0, b1)
         THEN /\ bets' = [bets EXCEPT ![i] = n0, ![j] = n1]
              /\ balances' = [a \in Address |->
                                balances[a] + Leftover(n0, a) + Leftover(n1, a)]
              /\ bet_matches' = Append(bet_matches,
                   [tx0 |-> i, tx1 |-> j, forward_quantity |-> Forward(b0, b1),
                    backward_quantity |-> Backward(b0, b1), deadline |-> b1.deadline,
                    fee_fraction |-> b1.fee_fraction, status |-> "pending"])
              /\ matching' = [matching EXCEPT !.candidates =
                                IF n1.status = "open" THEN left ELSE {}]
         ELSE /\ matching' = [matching EXCEPT !.candidates = left]
              /\ UNCHANGED <<balances, bets, bet_matches>>
  /\ UNCHANGED <<clock, txs, broadcasts, stopped>>

EndOfMatch ==
  /\ matching # Idle /\ matching.candidates = {}
  /\ matching' = Idle
  /\ UNCHANGED <<clock, txs, balances, bets, bet_matches, broadcasts, stopped>>

----------------------------------------------------------------------------
\* broadcast.parse()

MayBroadcast(f, n) ==
  broadcasts[f] # <<>> =>
    /\ LastBroadcast(f).text # "lock"
    /\ n.timestamp > LastBroadcast(f).timestamp

\* The row of a broadcast that locks its feed keeps nothing of the message.
Row(n) == IF n.text = "lock"
            THEN [timestamp |-> 0, value |-> 0, fee_fraction |-> 0, text |-> "lock"]
            ELSE n

\* The matches that a value decides, and the winner of one
Due(f, n) == {m \in PendingOfFeed(f) : n.timestamp >= bet_matches[m].deadline}
Outcome(m, value) ==
  IF value = bets[bet_matches[m].tx0].target_value THEN "equal" ELSE "notequal"
Winner(m, value) ==
  LET r == bet_matches[m]
      type == IF Outcome(m, value) = "equal" THEN Equal ELSE NotEqual
  IN  IF bets[r.tx0].bet_type = type THEN bets[r.tx0].source ELSE bets[r.tx1].source

TotalEscrow(m) == bet_matches[m].forward_quantity + bet_matches[m].backward_quantity
Fee(m) == (bet_matches[m].fee_fraction * TotalEscrow(m)) \div Unit
Settlement(m, f, value, a) ==
  (IF Winner(m, value) = a THEN TotalEscrow(m) - Fee(m) ELSE 0)
  + (IF f = a THEN Fee(m) ELSE 0)

Settle(f, n) ==
  /\ balances' = [a \in Address |-> balances[a]
       + SumFunctionOnSet([m \in Due(f, n) |-> Settlement(m, f, n.value, a)], Due(f, n))]
  /\ bet_matches' = [m \in DOMAIN bet_matches |->
       IF m \in Due(f, n) THEN [bet_matches[m] EXCEPT !.status = Outcome(m, n.value)]
                          ELSE bet_matches[m]]
  /\ UNCHANGED bets

\* A negative value decides nothing: -2 drops the open bets of the feed and -3 its
\* pending matches.
DropBets(f) ==
  /\ balances' = Refunded(OpenOfFeed(f), {})
  /\ CancelBets(OpenOfFeed(f), "dropped")
  /\ UNCHANGED bet_matches
DropMatches(f) ==
  /\ balances' = Refunded({}, PendingOfFeed(f))
  /\ CancelMatches(PendingOfFeed(f), "dropped")
  /\ UNCHANGED bets

Decides(n) == n.text # "lock" /\ n.value >= 0

ParseBroadcast ==
  /\ Parsing /\ txs' = txs + 1
  /\ \E f \in Feed, n \in News :
       /\ MayBroadcast(f, n)
       /\ broadcasts' = [broadcasts EXCEPT ![f] = Append(@, Row(n))]
       /\ \/ Decides(n) /\ Settle(f, n)
          \/ n.text # "lock" /\ n.value = -2 /\ DropBets(f)
          \/ n.text # "lock" /\ n.value = -3 /\ DropMatches(f)
          \/ /\ n.text = "lock" \/ (n.value < 0 /\ n.value \notin {-2, -3})
             /\ UNCHANGED <<balances, bets, bet_matches>>
  /\ UNCHANGED <<clock, matching, stopped>>

----------------------------------------------------------------------------
\* cancel.parse() of a bet, and the expirations of a block

ParseCancel ==
  /\ Parsing /\ txs' = txs + 1
  /\ \E i \in OpenBets :
       /\ balances' = Refunded({i}, {})
       /\ CancelBets({i}, "cancelled")
  /\ UNCHANGED <<clock, bet_matches, broadcasts, matching, stopped>>

NextBlock ==
  /\ ~stopped /\ matching = Idle /\ block_index < LastBlock
  /\ block_index' = block_index + 1
  /\ block_time' \in Times
  /\ balances' = Refunded(BetsToExpire(block_index'), MatchesToExpire(block_time'))
  /\ CancelBets(BetsToExpire(block_index'), "expired")
  /\ CancelMatches(MatchesToExpire(block_time'), "expired")
  /\ UNCHANGED <<txs, broadcasts, matching, stopped>>

Next == ParseBet \/ TryBet \/ EndOfMatch \/ ParseBroadcast \/ ParseCancel \/ NextBlock

Spec == Init /\ [][Next]_vars

----------------------------------------------------------------------------
\* Properties

\* Every row keeps its type; in particular no bet stakes more than it has left
\* (the counterwager, which nobody holds, may go below zero).
TypeOK ==
  /\ block_index \in FirstBlock..LastBlock /\ block_time \in Times /\ txs \in 0..MaxTxs
  /\ balances \in [Address -> Nat]
  /\ bets \in Seq(Bet) /\ bet_matches \in Seq(Match)
  /\ broadcasts \in [Feed -> Seq(BroadcastRow)]
  /\ matching \in [tx1 : 0..Len(bets), candidates : SUBSET DOMAIN bets]
  /\ stopped \in BOOLEAN

\* held(): the XCP of the balances, of the open bets and of the pending matches
PendingMatches == {m \in DOMAIN bet_matches : bet_matches[m].status = "pending"}
XcpHeld ==
  SumFunctionOnSet(balances, Address)
  + SumFunctionOnSet([i \in DOMAIN bets |-> bets[i].wager_remaining], OpenBets)
  + SumFunctionOnSet([m \in DOMAIN bet_matches |-> TotalEscrow(m)], PendingMatches)

\* It is always what there was at first: nothing of a wager is lost, or paid twice,
\* whichever way its bets and its matches end.
XcpConservation == XcpHeld = SumFunctionOnSet(Funds, Address)

\* What the matches of a bet stake for it, as the earlier of the two and as the later
StakedFirst(i) ==
  SumFunctionOnSet([m \in DOMAIN bet_matches |-> bet_matches[m].forward_quantity],
                   {m \in DOMAIN bet_matches : bet_matches[m].tx0 = i})
StakedSecond(i) ==
  SumFunctionOnSet([m \in DOMAIN bet_matches |-> bet_matches[m].backward_quantity],
                   {m \in DOMAIN bet_matches : bet_matches[m].tx1 = i})

\* What a bet wagered is what its matches stake for it and what it was left with, and
\* XCP is conserved.
WagerIsAccounted ==
  /\ XcpConservation
  /\ \A i \in DOMAIN bets :
       bets[i].wager_quantity = bets[i].wager_remaining + StakedFirst(i) + StakedSecond(i)

\* A match keeps the odds of both its bets, to half a unit of rounding: those of the
\* earlier bet, and odds at least as good as the later one asked for.
OddsAreKept ==
  \A m \in DOMAIN bet_matches :
    LET r  == bet_matches[m]
        b0 == bets[r.tx0]
        b1 == bets[r.tx1]
        exact == r.forward_quantity * b0.counterwager_quantity
    IN  /\ 2 * r.backward_quantity * b0.wager_quantity <= 2 * exact + b0.wager_quantity
        /\ 2 * r.backward_quantity * b0.wager_quantity >= 2 * exact - b0.wager_quantity
        /\ 2 * r.backward_quantity * b1.counterwager_quantity
             <= 2 * r.forward_quantity * b1.wager_quantity + b1.counterwager_quantity

\* Nobody bets on what is already known: the feed of a pending match has announced
\* no value since the deadline of the match.
PendingIsUndecided ==
  \A m \in DOMAIN bet_matches :
    bet_matches[m].status = "pending" =>
      LET f == bets[bet_matches[m].tx0].feed_address IN
      \A k \in DOMAIN broadcasts[f] :
        Decides(broadcasts[f][k]) =>
          broadcasts[f][k].timestamp < bet_matches[m].deadline

\* Between transactions, no two open bets would still trade with each other, except two
\* that did: the rounding of a stake may leave both open, and a bet is tried once.
BookIsNotCrossed ==
  matching = Idle =>
    \A i, j \in OpenBets :
      i < j /\ bets[i].feed_address = bets[j].feed_address
            /\ bets[i].bet_type # bets[j].bet_type
            /\ CanTrade(bets[i], bets[j])
        => \E m \in DOMAIN bet_matches : bet_matches[m].tx0 = i /\ bet_matches[m].tx1 = j
=============================================================================
