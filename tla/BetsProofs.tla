------------------------------ MODULE BetsProofs ------------------------------
(***************************************************************************)
(* Theorems about Bets, for any addresses, funds, bets, broadcasts and     *)
(* blocks: type correctness; the odds of every match, however stakes are   *)
(* rounded; no match of a deadline that its feed has passed; no open bets  *)
(* left to trade; and the conservation of XCP.                             *)
(*                                                                         *)
(* The inductive invariant is Sound: types, and what the rows and the bet  *)
(* being matched refer to.  Each of the other theorems has an invariant of *)
(* its own beside it.  StepKinds reduces the steps to five kinds.          *)
(***************************************************************************)
EXTENDS Bets, SumTheorems, TLAPS

----------------------------------------------------------------------------
\* Arithmetic

\* What div and % give
LEMMA DivMod ==
  ASSUME NEW a \in Nat, NEW b \in Nat \ {0}
  PROVE  /\ a \div b \in Nat /\ a % b \in 0..(b - 1)
         /\ a = b * (a \div b) + (a % b)
  BY Z3

\* A product grows with its factor.
LEMMA MulMono ==
  ASSUME NEW a \in Nat, NEW b \in Nat, NEW c \in Nat, a <= b
  PROVE  a * c <= b * c /\ a * c \in Nat /\ b * c \in Nat
  BY Z3

\* A positive factor is cancelled from an inequality.
LEMMA MulCancel ==
  ASSUME NEW a \in Int, NEW b \in Int, NEW c \in Nat \ {0}, a * c <= b * c
  PROVE  a <= b
  BY Z3

\* A rounded fraction is as near as half a unit.
LEMMA RoundIsNear ==
  ASSUME NEW a \in Nat, NEW b \in Nat \ {0}
  PROVE  /\ Round(a, b) \in Nat
         /\ 2 * (Round(a, b) * b) <= 2 * a + b
         /\ 2 * (Round(a, b) * b) >= 2 * a - b
<1> DEFINE q == a \div b
           r == a % b
<1>1. q \in Nat /\ r \in 0..(b - 1) /\ a = b * q + r
  BY DivMod
<1> HIDE DEF q, r
<1>2. Round(a, b) = IF 2 * r > b \/ (2 * r = b /\ q % 2 = 1) THEN q + 1 ELSE q
  BY DEF Round, q, r
<1>3. CASE Round(a, b) = q + 1 /\ 2 * r >= b
  <2>1. Round(a, b) * b = b * q + b
    BY <1>1, <1>3, Z3
  <2>2. b * q \in Nat
    BY <1>1, Z3
  <2> QED BY <1>1, <1>3, <2>1, <2>2
<1>4. CASE Round(a, b) = q /\ 2 * r <= b
  <2>1. Round(a, b) * b = b * q
    BY <1>1, <1>4, Z3
  <2>2. b * q \in Nat
    BY <1>1, Z3
  <2> QED BY <1>1, <1>4, <2>1, <2>2
<1> QED BY <1>1, <1>2, <1>3, <1>4

\* It is no more than an integer that the fraction does not exceed.
LEMMA RoundIsBounded ==
  ASSUME NEW a \in Nat, NEW b \in Nat \ {0}, NEW c \in Nat, a <= c * b
  PROVE  Round(a, b) <= c
<1> DEFINE q == a \div b
           r == a % b
<1>1. q \in Nat /\ r \in 0..(b - 1) /\ a = b * q + r
  BY DivMod
<1> HIDE DEF q, r
<1>2. Round(a, b) = IF 2 * r > b \/ (2 * r = b /\ q % 2 = 1) THEN q + 1 ELSE q
  BY DEF Round, q, r
<1>3. q <= c
  <2>1. q * b <= c * b
    <3>1. q * b = b * q /\ b * q \in Nat /\ c * b \in Nat
      BY <1>1, Z3
    <3> QED BY <1>1, <3>1
  <2> QED BY <2>1, <1>1, MulCancel
<1>4. q = c => r = 0
  <2> SUFFICES ASSUME q = c PROVE r = 0
    OBVIOUS
  <2>1. c * b = b * q /\ c * b \in Nat
    BY <1>1, Z3
  <2> QED BY <1>1, <2>1
<1> QED BY <1>1, <1>2, <1>3, <1>4

\* The larger of two fractions of a denominator is not rounded to less.
LEMMA RoundIsMonotone ==
  ASSUME NEW a \in Nat, NEW c \in Nat, NEW b \in Nat \ {0}, a <= c
  PROVE  Round(a, b) <= Round(c, b)
<1> DEFINE q == a \div b
           r == a % b
           s == c \div b
           t == c % b
<1>1. /\ q \in Nat /\ r \in 0..(b - 1) /\ a = b * q + r
      /\ s \in Nat /\ t \in 0..(b - 1) /\ c = b * s + t
  BY DivMod
<1> HIDE DEF q, r, s, t
<1>2. /\ Round(a, b) = IF 2 * r > b \/ (2 * r = b /\ q % 2 = 1) THEN q + 1 ELSE q
      /\ Round(c, b) = IF 2 * t > b \/ (2 * t = b /\ s % 2 = 1) THEN s + 1 ELSE s
  BY DEF Round, q, r, s, t
<1>3. q <= s
  <2>1. SUFFICES ASSUME s + 1 <= q PROVE FALSE
    BY <1>1
  <2>2. (s + 1) * b <= q * b
    BY <1>1, <2>1, MulMono
  <2>3. (s + 1) * b = b * s + b /\ q * b = b * q /\ b * s \in Nat /\ b * q \in Nat
    BY <1>1, Z3
  <2> QED BY <1>1, <2>2, <2>3
<1>4. q = s => r <= t
  <2> SUFFICES ASSUME q = s PROVE r <= t
    OBVIOUS
  <2>1. b * q \in Nat
    BY <1>1, Z3
  <2> QED BY <1>1, <2>1
<1> QED BY <1>1, <1>2, <1>3, <1>4

----------------------------------------------------------------------------
\* Stakes

\* What an earlier bet stakes is no more than it has left, nor than the later one
\* can answer at the odds that it asked for.
LEMMA ForwardFacts ==
  ASSUME NEW b0 \in Bet, NEW b1 \in Bet
  PROVE  /\ Forward(b0, b1) \in Nat /\ Forward(b0, b1) <= b0.wager_remaining
         /\ Forward(b0, b1) * b1.wager_quantity
              <= b1.wager_remaining * b1.counterwager_quantity
<1> DEFINE p == b1.wager_remaining * b1.counterwager_quantity
           w == b1.wager_quantity
           q == p \div w
           F == Forward(b0, b1)
<1>1. p \in Nat /\ w \in Nat \ {0} /\ b0.wager_remaining \in Nat
  <2>1. b1.wager_remaining \in Nat /\ b1.counterwager_quantity \in Nat
    BY DEF Bet
  <2>2. p \in Nat
    BY <2>1, Z3
  <2> QED BY <2>2 DEF Bet
<1>2. F = Least(b0.wager_remaining, q)
  BY DEF Forward
<1> HIDE DEF p, w, F
<1>3. q \in Nat /\ p = w * q + (p % w) /\ p % w \in 0..(w - 1)
  BY <1>1, DivMod
<1> HIDE DEF q
<1>4. F \in Nat /\ F <= b0.wager_remaining /\ F <= q
  BY <1>1, <1>2, <1>3 DEF Least
<1>5. F * w <= q * w /\ q * w = w * q /\ w * q \in Nat /\ F * w \in Nat
  <2>1. F * w <= q * w /\ F * w \in Nat /\ q * w \in Nat
    BY <1>1, <1>3, <1>4, MulMono
  <2>2. q * w = w * q
    BY <1>1, <1>3, Z3
  <2> QED BY <2>1, <2>2
<1>6. F * w <= p
  BY <1>1, <1>3, <1>5
<1> QED BY <1>4, <1>6 DEF F, p, w

\* Products, in any order
LEMMA MulAssoc ==
  ASSUME NEW a \in Int, NEW b \in Int, NEW c \in Int
  PROVE  (a * b) * c = (a * c) * b /\ (a * b) * c = a * (b * c) /\ a * b = b * a
         /\ a * b \in Int
  BY Z3

\* What a later bet stakes is no more than it has left, however the odds of the earlier
\* one round it; and the odds of both are kept to half a unit.
LEMMA BackwardFacts ==
  ASSUME NEW b0 \in Bet, NEW b1 \in Bet, OddsAgree(b0, b1)
  PROVE  /\ Backward(b0, b1) \in Nat /\ Backward(b0, b1) <= b1.wager_remaining
         /\ LET exact == Forward(b0, b1) * b0.counterwager_quantity
                back == Backward(b0, b1)
            IN  /\ 2 * (back * b0.wager_quantity) <= 2 * exact + b0.wager_quantity
                /\ 2 * (back * b0.wager_quantity) >= 2 * exact - b0.wager_quantity
                /\ 2 * (back * b1.counterwager_quantity)
                     <= 2 * (Forward(b0, b1) * b1.wager_quantity) + b1.counterwager_quantity
<1> DEFINE F == Forward(b0, b1)
           B == Backward(b0, b1)
           w0 == b0.wager_quantity
           c0 == b0.counterwager_quantity
           w1 == b1.wager_quantity
           c1 == b1.counterwager_quantity
           r1 == b1.wager_remaining
<1>1. /\ w0 \in Nat \ {0} /\ c0 \in Nat \ {0} /\ w1 \in Nat \ {0} /\ c1 \in Nat \ {0}
      /\ r1 \in Nat
  BY DEF Bet
<1>2. F \in Nat /\ F * w1 <= r1 * c1
  BY ForwardFacts
<1>3. c0 * c1 <= w0 * w1
  BY DEF OddsAgree
<1>4. B = Round(F * c0, w0)
  BY DEF Backward
<1> HIDE DEF F, B, w0, c0, w1, c1, r1
<1>5. F * c0 \in Nat /\ F * w1 \in Nat /\ r1 * c1 \in Nat /\ c0 * c1 \in Nat /\ w0 * w1 \in Nat
  BY <1>1, <1>2, Z3
<1>6. F * c0 <= r1 * w0
  <2>1. (F * w1) * c0 <= (r1 * c1) * c0
    BY <1>1, <1>2, <1>5, MulMono
  <2>2. (c0 * c1) * r1 <= (w0 * w1) * r1
    BY <1>1, <1>3, <1>5, MulMono
  <2>3. (F * w1) * c0 = (F * c0) * w1
    BY <1>1, <1>2, MulAssoc
  <2>4. (r1 * c1) * c0 = (c0 * c1) * r1
    BY <1>1, <1>2, Z3
  <2>5. (w0 * w1) * r1 = (r1 * w0) * w1
    BY <1>1, <1>2, Z3
  <2>6. r1 * w0 \in Nat /\ (F * c0) * w1 \in Nat /\ (r1 * w0) * w1 \in Nat /\ (c0 * c1) * r1 \in Nat
    BY <1>1, <1>5, Z3
  <2>7. (F * c0) * w1 <= (r1 * w0) * w1
    BY <2>1, <2>2, <2>3, <2>4, <2>5, <2>6
  <2> QED BY <2>6, <2>7, <1>1, <1>5, MulCancel
<1>7. B <= r1
  BY <1>1, <1>4, <1>5, <1>6, RoundIsBounded
<1>8. /\ B \in Nat
      /\ 2 * (B * w0) <= 2 * (F * c0) + w0
      /\ 2 * (B * w0) >= 2 * (F * c0) - w0
  BY <1>1, <1>4, <1>5, RoundIsNear
<1>9. 2 * (B * c1) <= 2 * (F * w1) + c1
  <2> DEFINE x == 2 * (B * w0)
             y == 2 * (F * c0) + w0
             z == 2 * (F * w1) + c1
             u == 2 * (B * c1)
  <2>1. x * c1 <= y * c1
    <3>1. B * w0 \in Nat
      BY <1>1, <1>8, Z3
    <3>2. x \in Nat /\ y \in Nat /\ x <= y
      BY <3>1, <1>1, <1>5, <1>8
    <3> HIDE DEF x, y
    <3> QED BY <3>2, <1>1, MulMono
  <2>2. (c0 * c1) * F <= (w0 * w1) * F
    BY <1>1, <1>2, <1>3, <1>5, MulMono
  <2>3. x * c1 = u * w0
    BY <1>1, <1>8, Z3
  <2>4. y * c1 = 2 * ((c0 * c1) * F) + w0 * c1
    BY <1>1, <1>2, Z3
  <2>5. z * w0 = 2 * ((w0 * w1) * F) + w0 * c1
    BY <1>1, <1>2, Z3
  <2>6. /\ (c0 * c1) * F \in Nat /\ (w0 * w1) * F \in Nat /\ w0 * c1 \in Nat
        /\ u * w0 \in Int /\ z * w0 \in Int /\ u \in Int /\ z \in Int
    BY <1>1, <1>2, <1>8, Z3
  <2> HIDE DEF x, y, z, u
  <2>7. u * w0 <= z * w0
    BY <2>1, <2>2, <2>3, <2>4, <2>5, <2>6
  <2>8. u <= z
    BY <2>6, <2>7, <1>1, MulCancel
  <2> QED BY <2>8 DEF u, z
<1> QED BY <1>7, <1>8, <1>9 DEF F, B, w0, c0, w1, c1, r1

SameTerms(b, c) ==
  /\ c.source = b.source /\ c.feed_address = b.feed_address /\ c.bet_type = b.bet_type
  /\ c.deadline = b.deadline /\ c.wager_quantity = b.wager_quantity
  /\ c.counterwager_quantity = b.counterwager_quantity
  /\ c.target_value = b.target_value /\ c.fee_fraction = b.fee_fraction

\* Bets that have less left trade no sooner.
LEMMA LessTradesNoSooner ==
  ASSUME NEW b0 \in Bet, NEW b1 \in Bet, NEW c0 \in Bet, NEW c1 \in Bet,
         SameTerms(b0, c0), SameTerms(b1, c1),
         c0.wager_remaining <= b0.wager_remaining, c1.wager_remaining <= b1.wager_remaining,
         CanTrade(c0, c1)
  PROVE  CanTrade(b0, b1)
<1> DEFINE w == b1.wager_quantity
           k == b1.counterwager_quantity
           p == b1.wager_remaining * k
           o == c1.wager_remaining * k
<1>1. /\ w \in Nat \ {0} /\ k \in Nat \ {0} /\ c1.wager_quantity = w
      /\ c1.counterwager_quantity = k
      /\ b0.wager_remaining \in Nat /\ c0.wager_remaining \in Nat
      /\ b1.wager_remaining \in Nat /\ c1.wager_remaining \in Nat
  BY DEF SameTerms, Bet
<1>2. o <= p /\ o \in Nat /\ p \in Nat
  BY <1>1, MulMono
<1>3. /\ Forward(b0, b1) = Least(b0.wager_remaining, p \div w)
      /\ Forward(c0, c1) = Least(c0.wager_remaining, o \div w)
  BY <1>1 DEF Forward
<1> HIDE DEF p, o
<1>4. o \div w <= p \div w
  <2>1. /\ o \div w \in Nat /\ o % w \in 0..(w - 1) /\ o = w * (o \div w) + (o % w)
        /\ p \div w \in Nat /\ p % w \in 0..(w - 1) /\ p = w * (p \div w) + (p % w)
    BY <1>1, <1>2, DivMod
  <2> DEFINE q == o \div w
             s == p \div w
  <2> HIDE DEF w, q, s
  <2>2. SUFFICES ASSUME s + 1 <= q PROVE FALSE
    BY <2>1 DEF q, s
  <2>3. (s + 1) * w <= q * w /\ (s + 1) * w \in Nat /\ q * w \in Nat
    BY <1>1, <2>1, <2>2, MulMono DEF q, s
  <2>4. (s + 1) * w = w * s + w /\ q * w = w * q /\ w * s \in Nat /\ w * q \in Nat
    BY <1>1, <2>1, Z3 DEF q, s
  <2> QED BY <1>1, <1>2, <2>1, <2>3, <2>4 DEF q, s
<1>5. Forward(c0, c1) <= Forward(b0, b1) /\ Forward(c0, c1) \in Nat /\ Forward(b0, b1) \in Nat
  <2>1. Forward(c0, c1) \in Nat /\ Forward(b0, b1) \in Nat
    BY ForwardFacts
  <2>2. o \div w \in Nat /\ p \div w \in Nat
    BY <1>1, <1>2, DivMod
  <2> QED BY <1>1, <1>3, <1>4, <2>1, <2>2 DEF Least
<1>6. Backward(c0, c1) <= Backward(b0, b1) /\ Backward(c0, c1) \in Nat /\ Backward(b0, b1) \in Nat
  <2> DEFINE a == Forward(c0, c1) * b0.counterwager_quantity
             e == Forward(b0, b1) * b0.counterwager_quantity
  <2>1. a <= e /\ a \in Nat /\ e \in Nat
    <3>1. b0.counterwager_quantity \in Nat
      BY DEF Bet
    <3> QED BY <1>5, <3>1, MulMono
  <2>2. Backward(c0, c1) = Round(a, b0.wager_quantity) /\ Backward(b0, b1) = Round(e, b0.wager_quantity)
    BY DEF Backward, SameTerms
  <2>3. b0.wager_quantity \in Nat \ {0}
    BY DEF Bet
  <2> HIDE DEF a, e
  <2> QED BY <2>1, <2>2, <2>3, RoundIsMonotone, RoundIsNear
<1>7. Agree(b0, b1) /\ OddsAgree(b0, b1)
  BY DEF CanTrade, Agree, OddsAgree, SameTerms
<1>8. Forward(b0, b1) # 0 /\ Backward(b0, b1) # 0
  BY <1>5, <1>6 DEF CanTrade
<1> QED BY <1>7, <1>8 DEF CanTrade

----------------------------------------------------------------------------
\* Rows

\* A trade takes a stake that is left from the row of a bet.
LEMMA TradedFacts ==
  ASSUME NEW b \in Bet, NEW stake \in Nat, NEW counter \in Nat, stake <= b.wager_remaining
  PROVE  LET c == Traded(b, stake, counter) IN
         /\ c \in Bet /\ SameTerms(b, c)
         /\ c.wager_remaining = b.wager_remaining - stake
         /\ c.status \in {"filled", b.status}
<1> DEFINE st == IF b.wager_remaining - stake <= 0 \/ b.counterwager_remaining - counter <= 0
                   THEN "filled" ELSE b.status
           left == b.wager_remaining - stake
           counterleft == b.counterwager_remaining - counter
           c == [b EXCEPT !.wager_remaining = left, !.counterwager_remaining = counterleft,
                          !.status = st]
<1>1. Traded(b, stake, counter) = c
  BY DEF Traded
<1>2. left \in Nat /\ counterleft \in Int /\ st \in {"filled", b.status}
  BY DEF Bet
<1>3. b.status \in {"open", "filled", "cancelled", "dropped", "expired"}
  BY DEF Bet
<1> HIDE DEF st, left, counterleft
<1>4. c \in Bet /\ SameTerms(b, c) /\ c.wager_remaining = left /\ c.status = st
  BY <1>2, <1>3 DEF Bet, SameTerms
<1> QED BY <1>1, <1>2, <1>4 DEF left

\* What the steps that end bets and matches do to their rows
BetsEnd(S) ==
  /\ bets' \in Seq(Bet) /\ Len(bets') = Len(bets) /\ DOMAIN bets' = DOMAIN bets
  /\ \A i \in DOMAIN bets :
       /\ SameTerms(bets[i], bets'[i]) /\ bets'[i].wager_remaining = bets[i].wager_remaining
       /\ i \notin S => bets'[i].status = bets[i].status
       /\ i \in S => bets'[i].status # "open"

SameMatch(r, t) ==
  /\ t.tx0 = r.tx0 /\ t.tx1 = r.tx1 /\ t.forward_quantity = r.forward_quantity
  /\ t.backward_quantity = r.backward_quantity /\ t.deadline = r.deadline
  /\ t.fee_fraction = r.fee_fraction

MatchesEnd(M) ==
  /\ bet_matches' \in Seq(Match) /\ DOMAIN bet_matches' = DOMAIN bet_matches
  /\ \A m \in DOMAIN bet_matches :
       /\ SameMatch(bet_matches[m], bet_matches'[m])
       /\ m \notin M => bet_matches'[m].status = bet_matches[m].status
       /\ m \in M => bet_matches'[m].status # "pending"

\* cancel_bet() for the bets S changes their status, and nothing else.
LEMMA CancelBetsEnds ==
  ASSUME bets \in Seq(Bet), NEW S \in SUBSET DOMAIN bets,
         NEW st \in {"cancelled", "dropped", "expired"}, CancelBets(S, st)
  PROVE  BetsEnd(S)
<1>1. \A i \in DOMAIN bets : bets[i] \in Bet
  OBVIOUS
<1>2. bets' = [i \in DOMAIN bets |->
                 IF i \in S THEN [bets[i] EXCEPT !.status = st] ELSE bets[i]]
  BY DEF CancelBets
<1>3. \A b \in Bet : /\ [b EXCEPT !.status = st] \in Bet
                     /\ SameTerms(b, [b EXCEPT !.status = st]) /\ SameTerms(b, b)
                     /\ [b EXCEPT !.status = st].wager_remaining = b.wager_remaining
                     /\ [b EXCEPT !.status = st].status = st
  BY DEF Bet, SameTerms
<1>4. DOMAIN bets = 1..Len(bets) /\ Len(bets) \in Nat
  OBVIOUS
<1>5. bets' \in [1..Len(bets) -> Bet]
  BY <1>1, <1>2, <1>3, <1>4
<1>6. bets' \in Seq(Bet) /\ Len(bets') = Len(bets) /\ DOMAIN bets' = DOMAIN bets
  BY <1>4, <1>5
<1> QED BY <1>1, <1>2, <1>3, <1>6 DEF BetsEnd

\* Bets that are left alone
LEMMA SameBetsEnd ==
  ASSUME bets \in Seq(Bet), bets' = bets
  PROVE  BetsEnd({})
  BY DEF BetsEnd, SameTerms

\* A step that gives the matches M a status changes nothing else of them.
LEMMA MatchesEndAs ==
  ASSUME bet_matches \in Seq(Match), NEW M \in SUBSET DOMAIN bet_matches,
         NEW st, \A m \in M : st[m] \in {"equal", "notequal", "dropped", "expired"},
         bet_matches' = [m \in DOMAIN bet_matches |->
            IF m \in M THEN [bet_matches[m] EXCEPT !.status = st[m]] ELSE bet_matches[m]]
  PROVE  MatchesEnd(M)
<1>1. \A m \in DOMAIN bet_matches : bet_matches[m] \in Match
  OBVIOUS
<1>2. \A r \in Match, t \in {"equal", "notequal", "dropped", "expired"} :
         /\ [r EXCEPT !.status = t] \in Match /\ SameMatch(r, [r EXCEPT !.status = t])
         /\ SameMatch(r, r) /\ [r EXCEPT !.status = t].status = t
  BY DEF Match, SameMatch
<1>3. DOMAIN bet_matches = 1..Len(bet_matches) /\ Len(bet_matches) \in Nat
  OBVIOUS
<1>4. bet_matches' \in [1..Len(bet_matches) -> Match]
  BY <1>1, <1>2, <1>3
<1>5. bet_matches' \in Seq(Match) /\ DOMAIN bet_matches' = DOMAIN bet_matches
  BY <1>3, <1>4
<1>6. ASSUME NEW m \in DOMAIN bet_matches
      PROVE  /\ SameMatch(bet_matches[m], bet_matches'[m])
             /\ m \notin M => bet_matches'[m].status = bet_matches[m].status
             /\ m \in M => bet_matches'[m].status = st[m]
  BY <1>1, <1>2
<1> QED BY <1>5, <1>6 DEF MatchesEnd

\* cancel_bet_match() for the matches M changes their status, and nothing else.
LEMMA CancelMatchesEnds ==
  ASSUME bet_matches \in Seq(Match), NEW M \in SUBSET DOMAIN bet_matches,
         NEW st \in {"dropped", "expired"}, CancelMatches(M, st)
  PROVE  MatchesEnd(M)
<1> DEFINE all == [m \in M |-> st]
<1>1. \A m \in M : all[m] \in {"equal", "notequal", "dropped", "expired"}
  OBVIOUS
<1>2. bet_matches' = [m \in DOMAIN bet_matches |->
            IF m \in M THEN [bet_matches[m] EXCEPT !.status = all[m]] ELSE bet_matches[m]]
  BY DEF CancelMatches
<1> HIDE DEF all
<1> QED BY <1>1, <1>2, MatchesEndAs

\* Matches that are left alone
LEMMA SameMatchesEnd ==
  ASSUME bet_matches \in Seq(Match), bet_matches' = bet_matches
  PROVE  MatchesEnd({})
  BY DEF MatchesEnd, SameMatch

----------------------------------------------------------------------------
\* The inductive invariant

MatchesOfBets ==
  \A m \in DOMAIN bet_matches :
    /\ bet_matches[m].tx0 \in DOMAIN bets /\ bet_matches[m].tx1 \in DOMAIN bets
    /\ bet_matches[m].tx0 # bet_matches[m].tx1

\* The bets that the matched one is still to be tried with are open and against it.
MatchingIsSound ==
  \A i \in matching.candidates :
    /\ matching.tx1 \in OpenBets /\ i \in OpenBets /\ i < matching.tx1
    /\ bets[i].feed_address = bets[matching.tx1].feed_address
    /\ bets[i].bet_type # bets[matching.tx1].bet_type

Sound == TypeOK /\ MatchesOfBets /\ MatchingIsSound

\* The first of the bets that are left to be tried is one of them.
LEMMA MinIsMember ==
  ASSUME NEW S \in SUBSET Nat, S # {}
  PROVE  Min(S) \in S
<1>1. \E x \in S : \A y \in S : <<y, x>> \notin OpToRel(<, Nat)
  BY NatLessThanWellFounded, WFMin
<1>2. PICK x \in S : \A y \in S : <<y, x>> \notin OpToRel(<, Nat)
  BY <1>1
<1>3. \A y \in S : x <= y
  <2> SUFFICES ASSUME NEW y \in S, y < x PROVE FALSE
    OBVIOUS
  <2>1. <<y, x>> \in OpToRel(<, Nat)
    BY DEF OpToRel
  <2> QED BY <1>2, <2>1
<1> QED BY <1>2, <1>3 DEF Min

\* An open bet has a row.
LEMMA OpenAreBets == ASSUME NEW i \in OpenBets PROVE i \in DOMAIN bets /\ bets[i].status = "open"
  BY DEF OpenBets

\* What parsing a bet does
LEMMA OverbetFacts ==
  ASSUME TypeOK, NEW source \in Address, NEW m \in Message
  PROVE  LET o == Overbet(source, m) IN
         /\ o \in Messages /\ o.wager <= balances[source]
<1> DEFINE c == (balances[source] * m.counterwager) \div m.wager
<1>1. m \in Messages /\ balances[source] \in Nat
  BY BetsAssumption DEF TypeOK
<1>2. m.wager \in Nat /\ m.counterwager \in Nat
  BY <1>1 DEF Messages
<1>3. CASE balances[source] < m.wager
  <2>1. balances[source] * m.counterwager \in Nat
    BY <1>1, <1>2, Z3
  <2>2. c \in Nat
    BY <1>1, <1>2, <1>3, <2>1, DivMod
  <2>3. Overbet(source, m) = [m EXCEPT !.wager = balances[source], !.counterwager = c]
    BY <1>3 DEF Overbet
  <2> HIDE DEF c
  <2> DEFINE o == [m EXCEPT !.wager = balances[source], !.counterwager = c]
  <2>4. o \in Messages /\ o.wager = balances[source]
    BY <1>1, <2>2 DEF Messages
  <2> QED BY <1>1, <2>3, <2>4
<1>4. CASE ~(balances[source] < m.wager)
  BY <1>1, <1>2, <1>4 DEF Overbet
<1> QED BY <1>3, <1>4

BetOpened(source, f, m) ==
  LET b == NewBet(source, f, m)
      n == Len(bets) + 1
  IN
      /\ b \in Bet /\ b.wager_remaining = m.wager /\ b.wager_quantity = m.wager
      /\ b.status = "open" /\ b.feed_address = f /\ b.bet_type = m.bet_type
      /\ b.deadline = m.deadline
      /\ LastBroadcast(f).timestamp < m.deadline /\ LastBroadcast(f).text = "words"
      /\ broadcasts[f] # <<>>
      /\ bets' \in Seq(Bet) /\ Len(bets') = n /\ DOMAIN bets' = DOMAIN bets \cup {n}
      /\ n \notin DOMAIN bets /\ bets'[n] = b
      /\ \A i \in DOMAIN bets : bets'[i] = bets[i]
      /\ balances' = [balances EXCEPT ![source] = @ - m.wager]
      /\ matching' = [tx1 |-> n, candidates |-> CounterBets(f, m.bet_type)]
      /\ bet_matches' = bet_matches /\ UNCHANGED <<clock, broadcasts, stopped>>

\* A valid bet of no more than the balance is a row of its own, and is tried with the
\* bets against it.
LEMMA OpenBetFacts ==
  ASSUME TypeOK, NEW source \in Address, NEW f \in Feed, NEW m \in Messages,
         m.wager <= balances[source], OpenBet(source, f, m)
  PROVE  BetOpened(source, f, m)
<1> DEFINE b == NewBet(source, f, m)
           n == Len(bets) + 1
<1>1. /\ broadcasts[f] \in Seq(BroadcastRow) /\ broadcasts[f] # <<>>
      /\ LastBroadcast(f).text = "words" /\ LastBroadcast(f).timestamp < m.deadline
      /\ m.wager > 0 /\ m.counterwager > 0
  BY DEF TypeOK, OpenBet, Valid, FeedIsOpen, DeadlineIsAhead
<1>2. LastBroadcast(f) \in BroadcastRow
  BY <1>1 DEF LastBroadcast
<1>3. block_index + m.expiration \in Nat
  <2>1. FirstBlock \in Nat /\ block_index \in FirstBlock..LastBlock /\ LastBlock \in Nat
    BY BetsAssumption DEF TypeOK
  <2>2. m.expiration \in Nat
    BY DEF Messages
  <2> QED BY <2>1, <2>2
<1>4. /\ b \in Bet /\ b.wager_remaining = m.wager /\ b.wager_quantity = m.wager
      /\ b.status = "open" /\ b.feed_address = f /\ b.bet_type = m.bet_type
      /\ b.deadline = m.deadline
  <2>1. LastBroadcast(f).fee_fraction \in 0..(Unit - 1)
    BY <1>2 DEF BroadcastRow, Broadcasts
  <2>2. /\ m.wager \in Nat \ {0} /\ m.counterwager \in Nat \ {0} /\ m.deadline \in Nat
        /\ m.target_value \in Nat /\ m.bet_type \in BetType
    BY <1>1 DEF Messages
  <2> DEFINE e == block_index + m.expiration
             q == LastBroadcast(f).fee_fraction
  <2>3. b = [source |-> source, feed_address |-> f, bet_type |-> m.bet_type,
             deadline |-> m.deadline, wager_quantity |-> m.wager, wager_remaining |-> m.wager,
             counterwager_quantity |-> m.counterwager,
             counterwager_remaining |-> m.counterwager,
             target_value |-> m.target_value, fee_fraction |-> q,
             expire_index |-> e, status |-> "open"]
    BY DEF NewBet
  <2>4. e \in Nat /\ q \in 0..(Unit - 1)
    BY <1>3, <2>1
  <2> HIDE DEF e, q, b
  <2> QED BY <2>2, <2>3, <2>4 DEF Bet
<1>5. bets \in Seq(Bet) /\ bets' = Append(bets, b)
  BY DEF TypeOK, OpenBet
<1> HIDE DEF b
<1>6. /\ bets' \in Seq(Bet) /\ Len(bets') = n /\ DOMAIN bets' = DOMAIN bets \cup {n}
      /\ n \notin DOMAIN bets /\ bets'[n] = b
      /\ \A i \in DOMAIN bets : bets'[i] = bets[i]
  BY <1>4, <1>5
<1>7. /\ balances' = [balances EXCEPT ![source] = @ - m.wager]
      /\ matching' = [tx1 |-> n, candidates |-> CounterBets(f, m.bet_type)]
      /\ bet_matches' = bet_matches /\ UNCHANGED <<clock, broadcasts, stopped>>
  BY DEF OpenBet
<1> QED BY <1>1, <1>4, <1>6, <1>7 DEF b, BetOpened

\* What a trade does
Trade(i, j, r) ==
  LET b0 == bets[i]
      b1 == bets[j]
  IN  /\ r = [tx0 |-> i, tx1 |-> j, forward_quantity |-> Forward(b0, b1),
              backward_quantity |-> Backward(b0, b1), deadline |-> b1.deadline,
              fee_fraction |-> b1.fee_fraction, status |-> "pending"]
      /\ CanTrade(b0, b1)
      /\ bets' = [bets EXCEPT ![i] = Traded(b0, Forward(b0, b1), Backward(b0, b1)),
                              ![j] = Traded(b1, Backward(b0, b1), Forward(b0, b1))]
      /\ bet_matches' = Append(bet_matches, r)
      /\ balances' = [a \in Address |-> balances[a] + Leftover(bets'[i], a) + Leftover(bets'[j], a)]
      /\ matching' = [matching EXCEPT !.candidates =
                        IF bets'[j].status = "open" THEN matching.candidates \ {i} ELSE {}]

TradeDone(i, j, r) ==
  /\ r \in Match /\ r.tx0 = i /\ r.tx1 = j /\ r.status = "pending"
  /\ r.deadline = bets[j].deadline
  /\ r.forward_quantity = Forward(bets[i], bets[j])
  /\ r.backward_quantity = Backward(bets[i], bets[j])
  /\ r.forward_quantity \in Nat /\ r.forward_quantity <= bets[i].wager_remaining
  /\ r.backward_quantity \in Nat /\ r.backward_quantity <= bets[j].wager_remaining
  /\ bets' \in Seq(Bet) /\ Len(bets') = Len(bets) /\ DOMAIN bets' = DOMAIN bets
  /\ \A k \in DOMAIN bets : SameTerms(bets[k], bets'[k])
  /\ \A k \in DOMAIN bets \ {i, j} : bets'[k] = bets[k]
  /\ bets'[i].wager_remaining = bets[i].wager_remaining - r.forward_quantity
  /\ bets'[j].wager_remaining = bets[j].wager_remaining - r.backward_quantity
  /\ bets'[i].status \in {"open", "filled"} /\ bets'[j].status \in {"open", "filled"}
  /\ bet_matches' \in Seq(Match) /\ Len(bet_matches') = Len(bet_matches) + 1
  /\ DOMAIN bet_matches' = DOMAIN bet_matches \cup {Len(bet_matches) + 1}
  /\ Len(bet_matches) + 1 \notin DOMAIN bet_matches
  /\ bet_matches'[Len(bet_matches) + 1] = r
  /\ \A m \in DOMAIN bet_matches : bet_matches'[m] = bet_matches[m]

\* A trade of two open bets keeps the types of the rows, the terms of the bets, and all
\* the other rows.
LEMMA TradeFacts ==
  ASSUME TypeOK, NEW i \in OpenBets, NEW j \in OpenBets, i # j, NEW r, Trade(i, j, r)
  PROVE  TradeDone(i, j, r)
<1> DEFINE b0 == bets[i]
           b1 == bets[j]
           F == Forward(b0, b1)
           B == Backward(b0, b1)
           n0 == Traded(b0, F, B)
           n1 == Traded(b1, B, F)
<1>1. /\ i \in DOMAIN bets /\ j \in DOMAIN bets /\ b0 \in Bet /\ b1 \in Bet
      /\ b0.status = "open" /\ b1.status = "open" /\ bets \in Seq(Bet)
  BY OpenAreBets DEF TypeOK
<1>2. CanTrade(b0, b1)
  BY DEF Trade
<1>3. /\ F \in Nat \ {0} /\ F <= b0.wager_remaining
      /\ B \in Nat \ {0} /\ B <= b1.wager_remaining
  BY <1>1, <1>2, ForwardFacts, BackwardFacts DEF CanTrade
<1>4. r = [tx0 |-> i, tx1 |-> j, forward_quantity |-> F, backward_quantity |-> B,
           deadline |-> b1.deadline, fee_fraction |-> b1.fee_fraction, status |-> "pending"]
  BY DEF Trade
<1>5. bets' = [bets EXCEPT ![i] = n0, ![j] = n1]
  BY DEF Trade
<1> HIDE DEF F, B
<1>6. /\ n0 \in Bet /\ SameTerms(b0, n0) /\ n0.status \in {"filled", "open"}
      /\ n0.wager_remaining = b0.wager_remaining - F
  BY <1>1, <1>3, TradedFacts
<1>7. /\ n1 \in Bet /\ SameTerms(b1, n1) /\ n1.status \in {"filled", "open"}
      /\ n1.wager_remaining = b1.wager_remaining - B
  BY <1>1, <1>3, TradedFacts
<1>8. /\ r \in Match /\ r.tx0 = i /\ r.tx1 = j /\ r.status = "pending"
      /\ r.deadline = b1.deadline /\ r.forward_quantity = F /\ r.backward_quantity = B
  <2>1. b1.deadline \in Nat /\ b1.fee_fraction \in 0..(Unit - 1)
    BY <1>1 DEF Bet
  <2>2. i \in Nat \ {0} /\ j \in Nat \ {0}
    BY <1>1
  <2> HIDE DEF b0, b1
  <2> QED BY <1>3, <1>4, <2>1, <2>2 DEF Match
<1> HIDE DEF n0, n1
<1>9. /\ bets' \in Seq(Bet) /\ Len(bets') = Len(bets) /\ DOMAIN bets' = DOMAIN bets
      /\ bets'[i] = n0 /\ bets'[j] = n1
      /\ \A k \in DOMAIN bets \ {i, j} : bets'[k] = bets[k]
  BY <1>1, <1>5, <1>6, <1>7
<1>10. \A k \in DOMAIN bets : SameTerms(bets[k], bets'[k])
  <2>1. \A k \in DOMAIN bets \ {i, j} : SameTerms(bets[k], bets'[k])
    BY <1>9 DEF SameTerms
  <2> QED BY <2>1, <1>6, <1>7, <1>9
<1>11. bet_matches \in Seq(Match) /\ bet_matches' = Append(bet_matches, r)
  BY DEF TypeOK, Trade
<1>12. /\ bet_matches' \in Seq(Match) /\ Len(bet_matches') = Len(bet_matches) + 1
       /\ DOMAIN bet_matches' = DOMAIN bet_matches \cup {Len(bet_matches) + 1}
       /\ Len(bet_matches) + 1 \notin DOMAIN bet_matches
       /\ bet_matches'[Len(bet_matches) + 1] = r
       /\ \A m \in DOMAIN bet_matches : bet_matches'[m] = bet_matches[m]
  BY <1>8, <1>11
<1> QED BY <1>3, <1>6, <1>7, <1>8, <1>9, <1>10, <1>12 DEF F, B, TradeDone

----------------------------------------------------------------------------
\* Payments

Wagers == [i \in DOMAIN bets |-> bets[i].wager_remaining]
Escrows == [m \in DOMAIN bet_matches |-> TotalEscrow(m)]

\* The sets that are summed over are finite.
LEMMA FiniteSets ==
  ASSUME TypeOK
  PROVE  /\ IsFiniteSet(Address) /\ IsFiniteSet(DOMAIN bets) /\ IsFiniteSet(DOMAIN bet_matches)
         /\ \A S \in SUBSET DOMAIN bets : IsFiniteSet(S)
         /\ \A M \in SUBSET DOMAIN bet_matches : IsFiniteSet(M)
<1>1. /\ DOMAIN bets = 1..Len(bets) /\ Len(bets) \in Nat
      /\ DOMAIN bet_matches = 1..Len(bet_matches) /\ Len(bet_matches) \in Nat
  BY DEF TypeOK
<1>2. IsFiniteSet(DOMAIN bets) /\ IsFiniteSet(DOMAIN bet_matches)
  BY <1>1, FS_Interval
<1> QED BY <1>2, FS_Subset, BetsAssumption

\* The bets of a match have rows, and its stakes are natural numbers.
LEMMA MatchFacts ==
  ASSUME TypeOK, MatchesOfBets, NEW m \in DOMAIN bet_matches
  PROVE  /\ bet_matches[m] \in Match
         /\ bet_matches[m].forward_quantity \in Nat /\ bet_matches[m].backward_quantity \in Nat
         /\ bets[bet_matches[m].tx0] \in Bet /\ bets[bet_matches[m].tx0].source \in Address
         /\ bets[bet_matches[m].tx1] \in Bet /\ bets[bet_matches[m].tx1].source \in Address
         /\ TotalEscrow(m) \in Nat
<1>1. bet_matches[m] \in Match /\ bet_matches[m].tx0 \in DOMAIN bets /\ bet_matches[m].tx1 \in DOMAIN bets
  BY DEF TypeOK, MatchesOfBets
<1>2. \A i \in DOMAIN bets : bets[i] \in Bet
  BY DEF TypeOK
<1> QED BY <1>1, <1>2 DEF Match, Bet, TotalEscrow

\* cancel_bet() and cancel_bet_match() credit what the bets S and the matches M hold.
LEMMA RefundPays ==
  ASSUME TypeOK, MatchesOfBets, NEW S \in SUBSET DOMAIN bets,
         NEW M \in SUBSET DOMAIN bet_matches, balances' = Refunded(S, M)
  PROVE  /\ balances' \in [Address -> Nat]
         /\ SumFunctionOnSet(balances', Address)
              = SumFunctionOnSet(balances, Address) + SumFunctionOnSet(Wagers, S)
                + SumFunctionOnSet(Escrows, M)
<1> DEFINE r == [i \in S |-> [a \in Address |-> Refund(i, a)]]
           q == [m \in M |-> [a \in Address |-> MatchRefund(m, a)]]
           rt == [a \in Address |-> [i \in S |-> Refund(i, a)]]
           qt == [a \in Address |-> [m \in M |-> MatchRefund(m, a)]]
           b == [a \in Address |-> balances[a] + SumFunctionOnSet(rt[a], S)]
           c == [a \in Address |-> b[a] + SumFunctionOnSet(qt[a], M)]
<1>1. /\ IsFiniteSet(Address) /\ IsFiniteSet(S) /\ IsFiniteSet(M)
      /\ \A a \in Address : balances[a] \in Nat
  BY FiniteSets DEF TypeOK
<1>2. balances' = c
  BY DEF Refunded
<1>3. ASSUME NEW i \in S
      PROVE  /\ \A a \in Address : r[i][a] \in Nat
             /\ SumFunctionOnSet(r[i], Address) = Wagers[i] /\ Wagers[i] \in Nat
  <2>1. bets[i] \in Bet /\ i \in DOMAIN bets
    BY DEF TypeOK
  <2>2. bets[i].source \in Address /\ bets[i].wager_remaining \in Nat
    BY <2>1, BetsAssumption DEF Bet
  <2>3. \A a \in Address : r[i][a] = IF bets[i].source = a THEN bets[i].wager_remaining ELSE 0
    BY DEF Refund
  <2> HIDE DEF r
  <2>4. SumFunctionOnSet(r[i], Address) = r[i][bets[i].source]
    BY <1>1, <2>2, <2>3, SumSingle
  <2> QED BY <2>1, <2>2, <2>3, <2>4 DEF Wagers
<1>4. ASSUME NEW m \in M
      PROVE  /\ \A a \in Address : q[m][a] \in Nat
             /\ SumFunctionOnSet(q[m], Address) = Escrows[m] /\ Escrows[m] \in Nat
  <2> DEFINE t == bet_matches[m]
             f == [a \in Address |-> IF bets[t.tx0].source = a THEN t.forward_quantity ELSE 0]
             g == [a \in Address |-> IF bets[t.tx1].source = a THEN t.backward_quantity ELSE 0]
  <2>1. /\ m \in DOMAIN bet_matches /\ t.forward_quantity \in Nat /\ t.backward_quantity \in Nat
        /\ bets[t.tx0].source \in Address /\ bets[t.tx1].source \in Address
    BY MatchFacts
  <2>2. \A a \in Address : q[m][a] = f[a] + g[a] /\ f[a] \in Nat /\ g[a] \in Nat
    BY <2>1 DEF MatchRefund
  <2>3. f[bets[t.tx0].source] = t.forward_quantity /\ g[bets[t.tx1].source] = t.backward_quantity
    BY <2>1
  <2>4. /\ \A a \in Address : a # bets[t.tx0].source => f[a] = 0
        /\ \A a \in Address : a # bets[t.tx1].source => g[a] = 0
    OBVIOUS
  <2>5. Escrows[m] = t.forward_quantity + t.backward_quantity
    BY <2>1 DEF Escrows, TotalEscrow
  <2> HIDE DEF q, f, g, t
  <2>6. SumFunctionOnSet(f, Address) = t.forward_quantity
    BY <1>1, <2>1, <2>2, <2>3, <2>4, SumSingle
  <2>7. SumFunctionOnSet(g, Address) = t.backward_quantity
    BY <1>1, <2>1, <2>2, <2>3, <2>4, SumSingle
  <2>8. SumFunctionOnSet(q[m], Address) = SumFunctionOnSet(f, Address) + SumFunctionOnSet(g, Address)
    BY <1>1, <2>2, SumPlus
  <2> QED BY <2>1, <2>2, <2>5, <2>6, <2>7, <2>8
<1>5. /\ \A i \in S, a \in Address : rt[a][i] \in Nat /\ r[i][a] = rt[a][i]
      /\ \A m \in M, a \in Address : qt[a][m] \in Nat /\ q[m][a] = qt[a][m]
  BY <1>3, <1>4
<1>6. /\ \A a \in Address : b[a] = balances[a] + SumFunctionOnSet(rt[a], S)
      /\ \A a \in Address : c[a] = b[a] + SumFunctionOnSet(qt[a], M)
      /\ DOMAIN c = Address /\ c = [a \in Address |-> c[a]]
  OBVIOUS
<1> HIDE DEF r, q, rt, qt, b, c
<1>7. ASSUME NEW a \in Address
      PROVE  b[a] \in Nat /\ c[a] \in Nat
  <2>1. SumFunctionOnSet(rt[a], S) \in Nat /\ SumFunctionOnSet(qt[a], M) \in Nat
    BY <1>1, <1>5, SumNat
  <2> QED BY <1>1, <1>6, <2>1
<1>8. SumFunctionOnSet(b, Address) = SumFunctionOnSet(balances, Address) + SumFunctionOnSet(Wagers, S)
  <2>1. \A i \in S : SumFunctionOnSet(r[i], Address) = Wagers[i]
    BY <1>3
  <2> QED BY <1>1, <1>5, <1>6, <2>1, SumPaid
<1>9. SumFunctionOnSet(c, Address) = SumFunctionOnSet(b, Address) + SumFunctionOnSet(Escrows, M)
  <2>1. \A m \in M : SumFunctionOnSet(q[m], Address) = Escrows[m]
    BY <1>4
  <2>2. \A a \in Address : b[a] \in Int
    BY <1>7
  <2>3. \A m \in M, a \in Address : qt[a][m] \in Int /\ q[m][a] = qt[a][m]
    BY <1>5
  <2>4. \A a \in Address : c[a] = b[a] + SumFunctionOnSet(qt[a], M)
    BY <1>6
  <2>5. IsFiniteSet(Address) /\ IsFiniteSet(M)
    BY <1>1
  <2> QED BY <2>1, <2>2, <2>3, <2>4, <2>5, SumPaid
<1>10. c \in [Address -> Nat]
  BY <1>6, <1>7
<1> QED BY <1>2, <1>8, <1>9, <1>10

\* The winner and the feed are credited with the escrow of the matches M, no less, and
\* no more: the fee is at most the escrow.
LEMMA SettlePays ==
  ASSUME TypeOK, MatchesOfBets, NEW M \in SUBSET DOMAIN bet_matches, NEW f \in Feed, NEW value,
         balances' = [a \in Address |-> balances[a]
           + SumFunctionOnSet([m \in M |-> Settlement(m, f, value, a)], M)]
  PROVE  /\ balances' \in [Address -> Nat]
         /\ SumFunctionOnSet(balances', Address)
              = SumFunctionOnSet(balances, Address) + SumFunctionOnSet(Escrows, M)
<1> DEFINE q == [m \in M |-> [a \in Address |-> Settlement(m, f, value, a)]]
           qt == [a \in Address |-> [m \in M |-> Settlement(m, f, value, a)]]
           c == [a \in Address |-> balances[a] + SumFunctionOnSet(qt[a], M)]
<1>1. /\ IsFiniteSet(Address) /\ IsFiniteSet(M)
      /\ \A a \in Address : balances[a] \in Nat
  BY FiniteSets DEF TypeOK
<1>2. balances' = c
  OBVIOUS
<1>3. ASSUME NEW m \in M
      PROVE  /\ \A a \in Address : q[m][a] \in Nat
             /\ SumFunctionOnSet(q[m], Address) = Escrows[m] /\ Escrows[m] \in Nat
  <2> DEFINE w == Winner(m, value)
             prize == TotalEscrow(m) - Fee(m)
             fee == Fee(m)
             g == [a \in Address |-> IF w = a THEN prize ELSE 0]
             h == [a \in Address |-> IF f = a THEN fee ELSE 0]
  <2>1. m \in DOMAIN bet_matches /\ TotalEscrow(m) \in Nat /\ w \in Address /\ f \in Address
    BY MatchFacts, BetsAssumption DEF Winner
  <2>2. fee \in Nat /\ prize \in Nat
    <3> DEFINE k == bet_matches[m].fee_fraction
               t == TotalEscrow(m)
    <3>1. k \in 0..(Unit - 1) /\ t \in Nat /\ Unit \in Nat \ {0}
      BY <2>1, MatchFacts, BetsAssumption DEF Match
    <3>2. fee = (k * t) \div Unit
      BY DEF Fee
    <3> HIDE DEF k, t
    <3>3. k * t \in Nat /\ k * t <= t * Unit /\ t * Unit = Unit * t /\ t * Unit \in Nat
      <4>1. k * t <= Unit * t /\ k * t \in Nat /\ Unit * t \in Nat
        BY <3>1, MulMono
      <4>2. Unit * t = t * Unit
        BY <3>1, Z3
      <4> QED BY <4>1, <4>2
    <3>4. /\ (k * t) \div Unit \in Nat /\ (k * t) % Unit \in 0..(Unit - 1)
          /\ k * t = Unit * ((k * t) \div Unit) + ((k * t) % Unit)
      BY <3>1, <3>3, DivMod
    <3>5. fee * Unit <= t * Unit
      <4>1. fee * Unit = Unit * ((k * t) \div Unit) /\ fee * Unit \in Nat
        <5> DEFINE x == (k * t) \div Unit
        <5>1. x \in Nat
          BY <3>4
        <5> HIDE DEF x
        <5>2. x * Unit = Unit * x /\ x * Unit \in Nat
          BY <3>1, <5>1, Z3
        <5> QED BY <5>2, <3>2 DEF x
      <4> QED BY <3>1, <3>3, <3>4, <4>1
    <3>6. fee \in Nat
      BY <3>2, <3>4
    <3>7. fee <= t
      <4> HIDE DEF fee
      <4> QED BY <3>1, <3>5, <3>6, MulCancel
    <3> QED BY <3>1, <3>6, <3>7 DEF t
  <2>3. \A a \in Address : q[m][a] = g[a] + h[a]
    BY DEF Settlement
  <2>4. Escrows[m] = prize + fee /\ Escrows[m] \in Nat
    BY <2>1, <2>2 DEF Escrows
  <2> HIDE DEF q, w, prize, fee
  <2>5. /\ \A a \in Address : g[a] \in Nat /\ h[a] \in Nat
        /\ g[w] = prize /\ h[f] = fee
        /\ \A a \in Address : a # w => g[a] = 0
        /\ \A a \in Address : a # f => h[a] = 0
    BY <2>1, <2>2
  <2> HIDE DEF g, h
  <2>6. SumFunctionOnSet(g, Address) = prize
    BY <1>1, <2>1, <2>2, <2>5, SumSingle
  <2>7. SumFunctionOnSet(h, Address) = fee
    BY <1>1, <2>1, <2>2, <2>5, SumSingle
  <2>8. SumFunctionOnSet(q[m], Address) = SumFunctionOnSet(g, Address) + SumFunctionOnSet(h, Address)
    BY <1>1, <2>3, <2>5, SumPlus
  <2> QED BY <2>3, <2>4, <2>5, <2>6, <2>7, <2>8
<1>4. /\ \A m \in M, a \in Address : qt[a][m] \in Nat /\ q[m][a] = qt[a][m]
      /\ \A a \in Address : c[a] = balances[a] + SumFunctionOnSet(qt[a], M)
      /\ c = [a \in Address |-> c[a]]
  BY <1>3
<1> HIDE DEF q, qt, c
<1>5. c \in [Address -> Nat]
  <2>1. \A a \in Address : SumFunctionOnSet(qt[a], M) \in Nat
    BY <1>1, <1>4, SumNat
  <2> QED BY <1>1, <1>4, <2>1
<1>6. SumFunctionOnSet(c, Address) = SumFunctionOnSet(balances, Address) + SumFunctionOnSet(Escrows, M)
  <2>1. \A m \in M : SumFunctionOnSet(q[m], Address) = Escrows[m]
    BY <1>3
  <2> QED BY <1>1, <1>4, <2>1, SumPaid
<1> QED BY <1>2, <1>5, <1>6

----------------------------------------------------------------------------
\* Steps

\* A step that ends the open bets S and the pending matches M, and pays for them
Ending(S, M) ==
  /\ BetsEnd(S) /\ MatchesEnd(M)
  /\ balances' \in [Address -> Nat]
  /\ SumFunctionOnSet(balances', Address)
       = SumFunctionOnSet(balances, Address) + SumFunctionOnSet(Wagers, S)
         + SumFunctionOnSet(Escrows, M)

\* What the queries select is open, or pending.
LEMMA SubsetsAreOpen ==
  ASSUME TypeOK
  PROVE  /\ OpenBets \in SUBSET DOMAIN bets /\ PendingMatches \in SUBSET DOMAIN bet_matches
         /\ \A f \in Feed : OpenOfFeed(f) \in SUBSET OpenBets
         /\ \A f \in Feed : PendingOfFeed(f) \in SUBSET PendingMatches
         /\ \A f \in Feed, n \in News : Due(f, n) \in SUBSET PendingMatches
         /\ \A b : BetsToExpire(b) \in SUBSET OpenBets
         /\ \A t : MatchesToExpire(t) \in SUBSET PendingMatches
         /\ {} \in SUBSET OpenBets /\ {} \in SUBSET PendingMatches
  BY DEF OpenBets, PendingMatches, OpenOfFeed, PendingOfFeed, Due, BetsToExpire, MatchesToExpire

\* The escrow of no bet and of no match
LEMMA SumOfNone ==
  SumFunctionOnSet(Wagers, {}) = 0 /\ SumFunctionOnSet(Escrows, {}) = 0
  BY SumEmpty

\* A refund of bets and matches that it ends
LEMMA RefundEnds ==
  ASSUME TypeOK, MatchesOfBets, NEW S \in SUBSET OpenBets, NEW M \in SUBSET PendingMatches,
         balances' = Refunded(S, M), BetsEnd(S), MatchesEnd(M)
  PROVE  Ending(S, M)
<1>1. S \in SUBSET DOMAIN bets /\ M \in SUBSET DOMAIN bet_matches
  BY SubsetsAreOpen
<1> QED BY <1>1, RefundPays DEF Ending

\* A cancel ends one open bet.
LEMMA CancelEnds ==
  ASSUME TypeOK, MatchesOfBets, ParseCancel
  PROVE  \E S \in SUBSET OpenBets, M \in SUBSET PendingMatches : Ending(S, M)
<1>1. PICK i \in OpenBets : balances' = Refunded({i}, {}) /\ CancelBets({i}, "cancelled")
  BY DEF ParseCancel
<1>2. {i} \in SUBSET OpenBets /\ {i} \in SUBSET DOMAIN bets /\ {} \in SUBSET PendingMatches
  BY SubsetsAreOpen
<1>3. BetsEnd({i})
  BY <1>1, <1>2, CancelBetsEnds DEF TypeOK
<1>4. MatchesEnd({})
  BY SameMatchesEnd DEF TypeOK, ParseCancel
<1> QED BY <1>1, <1>2, <1>3, <1>4, RefundEnds

\* The expirations of a block end open bets and pending matches.
LEMMA NextBlockEnds ==
  ASSUME TypeOK, MatchesOfBets, NextBlock
  PROVE  \E S \in SUBSET OpenBets, M \in SUBSET PendingMatches : Ending(S, M)
<1> DEFINE S == BetsToExpire(block_index')
           M == MatchesToExpire(block_time')
<1>1. /\ balances' = Refunded(S, M) /\ CancelBets(S, "expired") /\ CancelMatches(M, "expired")
  BY DEF NextBlock
<1>2. /\ S \in SUBSET OpenBets /\ S \in SUBSET DOMAIN bets
      /\ M \in SUBSET PendingMatches /\ M \in SUBSET DOMAIN bet_matches
  BY SubsetsAreOpen
<1> HIDE DEF S, M
<1>3. BetsEnd(S)
  BY <1>1, <1>2, CancelBetsEnds DEF TypeOK
<1>4. MatchesEnd(M)
  BY <1>1, <1>2, CancelMatchesEnds DEF TypeOK
<1> QED BY <1>1, <1>2, <1>3, <1>4, RefundEnds

\* A broadcast ends open bets or pending matches of its feed; one that decides ends the
\* matches that are due.
LEMMA BroadcastEnds ==
  ASSUME TypeOK, MatchesOfBets, ParseBroadcast
  PROVE  \E f \in Feed, n \in News :
           /\ MayBroadcast(f, n)
           /\ broadcasts' = [broadcasts EXCEPT ![f] = Append(@, Row(n))]
           /\ \E S \in SUBSET OpenBets, M \in SUBSET PendingMatches :
                /\ Ending(S, M)
                /\ Decides(n) => M = Due(f, n)
<1>1. PICK f \in Feed, n \in News :
       /\ MayBroadcast(f, n)
       /\ broadcasts' = [broadcasts EXCEPT ![f] = Append(@, Row(n))]
       /\ \/ Decides(n) /\ Settle(f, n)
          \/ n.text # "lock" /\ n.value = -2 /\ DropBets(f)
          \/ n.text # "lock" /\ n.value = -3 /\ DropMatches(f)
          \/ /\ n.text = "lock" \/ (n.value < 0 /\ n.value \notin {-2, -3})
             /\ UNCHANGED <<balances, bets, bet_matches>>
  BY DEF ParseBroadcast
<1>2. SUFFICES \E S \in SUBSET OpenBets, M \in SUBSET PendingMatches :
                 Ending(S, M) /\ (Decides(n) => M = Due(f, n))
  BY <1>1
<1>3. {} \in SUBSET OpenBets /\ {} \in SUBSET PendingMatches
  BY SubsetsAreOpen
<1>4. bets \in Seq(Bet) /\ bet_matches \in Seq(Match) /\ n.value \in Int
  BY BetsAssumption DEF TypeOK, Broadcasts
<1>5. CASE Decides(n) /\ Settle(f, n)
  <2> DEFINE M == Due(f, n)
             st == [m \in M |-> Outcome(m, n.value)]
  <2>1. M \in SUBSET PendingMatches /\ M \in SUBSET DOMAIN bet_matches
    BY SubsetsAreOpen
  <2>2. /\ balances' = [a \in Address |-> balances[a]
             + SumFunctionOnSet([m \in M |-> Settlement(m, f, n.value, a)], M)]
        /\ bet_matches' = [m \in DOMAIN bet_matches |->
             IF m \in M THEN [bet_matches[m] EXCEPT !.status = Outcome(m, n.value)]
                        ELSE bet_matches[m]]
        /\ bets' = bets
    BY <1>5 DEF Settle
  <2>3. \A m \in M : st[m] \in {"equal", "notequal", "dropped", "expired"}
    BY DEF Outcome
  <2>4. bet_matches' = [m \in DOMAIN bet_matches |->
             IF m \in M THEN [bet_matches[m] EXCEPT !.status = st[m]]
                        ELSE bet_matches[m]]
    BY <2>2
  <2> HIDE DEF M, st
  <2>5. MatchesEnd(M)
    BY <1>4, <2>1, <2>3, <2>4, MatchesEndAs
  <2>6. BetsEnd({})
    BY <1>4, <2>2, SameBetsEnd
  <2>7. /\ balances' \in [Address -> Nat]
        /\ SumFunctionOnSet(balances', Address)
             = SumFunctionOnSet(balances, Address) + SumFunctionOnSet(Escrows, M)
    BY <2>1, <2>2, SettlePays
  <2>8. SumFunctionOnSet(balances, Address) \in Int /\ SumFunctionOnSet(Wagers, {}) = 0
    <3>1. \A a \in Address : balances[a] \in Int
      BY DEF TypeOK
    <3> QED BY <3>1, SumType, SumOfNone, BetsAssumption
  <2>9. Ending({}, M)
    BY <2>5, <2>6, <2>7, <2>8 DEF Ending
  <2> QED BY <1>3, <2>1, <2>9 DEF M
<1>6. CASE n.text # "lock" /\ n.value = -2 /\ DropBets(f)
  <2> DEFINE S == OpenOfFeed(f)
  <2>1. /\ S \in SUBSET OpenBets /\ S \in SUBSET DOMAIN bets
        /\ balances' = Refunded(S, {}) /\ CancelBets(S, "dropped") /\ bet_matches' = bet_matches
    BY <1>6, SubsetsAreOpen DEF DropBets
  <2> HIDE DEF S
  <2>2. BetsEnd(S) /\ MatchesEnd({})
    BY <1>4, <2>1, CancelBetsEnds, SameMatchesEnd
  <2>3. Ending(S, {})
    BY <1>3, <2>1, <2>2, RefundEnds
  <2> QED BY <1>3, <1>6, <2>1, <2>3 DEF Decides
<1>7. CASE n.text # "lock" /\ n.value = -3 /\ DropMatches(f)
  <2> DEFINE M == PendingOfFeed(f)
  <2>1. /\ M \in SUBSET PendingMatches /\ M \in SUBSET DOMAIN bet_matches
        /\ balances' = Refunded({}, M) /\ CancelMatches(M, "dropped") /\ bets' = bets
    BY <1>7, SubsetsAreOpen DEF DropMatches
  <2> HIDE DEF M
  <2>2. BetsEnd({}) /\ MatchesEnd(M)
    BY <1>4, <2>1, CancelMatchesEnds, SameBetsEnd
  <2>3. Ending({}, M)
    BY <1>3, <2>1, <2>2, RefundEnds
  <2> QED BY <1>3, <1>7, <2>1, <2>3 DEF Decides
<1>8. CASE /\ n.text = "lock" \/ (n.value < 0 /\ n.value \notin {-2, -3})
           /\ UNCHANGED <<balances, bets, bet_matches>>
  <2>1. BetsEnd({}) /\ MatchesEnd({})
    BY <1>4, <1>8, SameBetsEnd, SameMatchesEnd
  <2>2. \A a \in Address : balances[a] \in Int
    BY DEF TypeOK
  <2>3. SumFunctionOnSet(balances, Address) \in Int
    BY <2>2, SumType, BetsAssumption
  <2>4. Ending({}, {})
    BY <1>8, <2>1, <2>3, SumOfNone DEF Ending, TypeOK
  <2> QED BY <1>3, <1>4, <1>8, <2>4 DEF Decides
<1> QED BY <1>1, <1>5, <1>6, <1>7, <1>8

\* The bet that is tried
LEMMA TryBetTrades ==
  ASSUME TypeOK, MatchingIsSound, TryBet
  PROVE  LET i == Min(matching.candidates)
             j == matching.tx1
         IN  /\ i \in matching.candidates /\ i \in OpenBets /\ j \in OpenBets /\ i < j
             /\ bets[i].feed_address = bets[j].feed_address
             /\ UNCHANGED <<clock, txs, broadcasts, stopped>>
             /\ \/ \E r : Trade(i, j, r)
                \/ /\ ~CanTrade(bets[i], bets[j])
                   /\ matching' = [matching EXCEPT !.candidates = @ \ {i}]
                   /\ UNCHANGED <<balances, bets, bet_matches>>
<1> DEFINE i == Min(matching.candidates)
           j == matching.tx1
           b0 == bets[i]
           b1 == bets[j]
           r == [tx0 |-> i, tx1 |-> j, forward_quantity |-> Forward(b0, b1),
                 backward_quantity |-> Backward(b0, b1), deadline |-> b1.deadline,
                 fee_fraction |-> b1.fee_fraction, status |-> "pending"]
<1>1. matching.candidates \in SUBSET Nat /\ matching.candidates # {}
  BY DEF TypeOK, TryBet
<1>2. i \in matching.candidates
  BY <1>1, MinIsMember
<1>3. /\ i \in OpenBets /\ j \in OpenBets /\ i < j /\ b0.feed_address = b1.feed_address
  BY <1>2 DEF MatchingIsSound
<1>4. /\ i \in DOMAIN bets /\ j \in DOMAIN bets /\ i # j /\ bets \in Seq(Bet)
  BY <1>3, OpenAreBets DEF TypeOK
<1>5. CASE CanTrade(b0, b1)
  <2> DEFINE n0 == Traded(b0, Forward(b0, b1), Backward(b0, b1))
             n1 == Traded(b1, Backward(b0, b1), Forward(b0, b1))
  <2>1. /\ bets' = [bets EXCEPT ![i] = n0, ![j] = n1]
        /\ balances' = [a \in Address |-> balances[a] + Leftover(n0, a) + Leftover(n1, a)]
        /\ bet_matches' = Append(bet_matches, r)
        /\ matching' = [matching EXCEPT !.candidates =
                          IF n1.status = "open" THEN matching.candidates \ {i} ELSE {}]
    BY <1>5 DEF TryBet
  <2> HIDE DEF n0, n1
  <2>2. bets'[i] = n0 /\ bets'[j] = n1
    BY <1>4, <2>1
  <2>3. Trade(i, j, r)
    BY <1>5, <2>1, <2>2 DEF Trade, n0, n1
  <2> QED BY <1>2, <1>3, <2>3 DEF TryBet
<1>6. CASE ~CanTrade(b0, b1)
  BY <1>2, <1>3, <1>6 DEF TryBet
<1> QED BY <1>5, <1>6

----------------------------------------------------------------------------
\* Types, and what rows refer to

\* The invariant holds at first.
LEMMA SoundInit == Init => Sound
<1> SUFFICES ASSUME Init PROVE Sound
  OBVIOUS
<1> USE BetsAssumption DEF Init
<1>1. block_index \in FirstBlock..LastBlock /\ txs \in 0..MaxTxs
  <2>1. FirstBlock \in Nat /\ LastBlock \in Nat /\ FirstBlock <= LastBlock /\ MaxTxs \in Nat
    OBVIOUS
  <2> QED BY <2>1
<1>2. bets \in Seq(Bet) /\ bet_matches \in Seq(Match) /\ Len(bets) = 0
  OBVIOUS
<1>3. broadcasts \in [Feed -> Seq(BroadcastRow)]
  OBVIOUS
<1>4. matching \in [tx1 : 0..Len(bets), candidates : SUBSET DOMAIN bets]
  BY <1>2 DEF Idle
<1>5. TypeOK
  BY <1>1, <1>2, <1>3, <1>4 DEF TypeOK
<1>6. MatchesOfBets /\ MatchingIsSound
  BY DEF MatchesOfBets, MatchingIsSound, Idle
<1> QED BY <1>5, <1>6 DEF Sound

\* The rows and the matching of every step
RowsOK ==
  /\ balances \in [Address -> Nat]
  /\ bets \in Seq(Bet) /\ bet_matches \in Seq(Match)
  /\ matching \in [tx1 : 0..Len(bets), candidates : SUBSET DOMAIN bets]
  /\ MatchesOfBets /\ MatchingIsSound

\* A step that ends bets and matches keeps the types of the rows.
LEMMA EndingRows ==
  ASSUME Sound, NEW S \in SUBSET OpenBets, NEW M \in SUBSET PendingMatches, Ending(S, M),
         matching = Idle, matching' = Idle
  PROVE  RowsOK'
<1>1. balances' \in [Address -> Nat] /\ bets' \in Seq(Bet) /\ bet_matches' \in Seq(Match)
  BY DEF Ending, BetsEnd, MatchesEnd
<1>2. matching' \in [tx1 : 0..Len(bets'), candidates : SUBSET DOMAIN bets']
  BY <1>1 DEF Idle
<1>3. MatchesOfBets'
  BY DEF Sound, MatchesOfBets, Ending, BetsEnd, MatchesEnd, SameMatch
<1>4. MatchingIsSound'
  BY DEF MatchingIsSound, Idle
<1> QED BY <1>1, <1>2, <1>3, <1>4 DEF RowsOK

\* A step that opens a bet does, and the bets it is to be tried with are against it.
LEMMA OpenBetRows ==
  ASSUME Sound, NEW source \in Address, NEW f \in Feed, NEW m \in Messages,
         m.wager <= balances[source], OpenBet(source, f, m)
  PROVE  RowsOK'
<1> DEFINE b == NewBet(source, f, m)
           n == Len(bets) + 1
<1>0. TypeOK
  BY DEF Sound
<1>1. /\ bets' \in Seq(Bet) /\ Len(bets') = n /\ DOMAIN bets' = DOMAIN bets \cup {n}
      /\ n \notin DOMAIN bets /\ bets'[n] = b
      /\ \A i \in DOMAIN bets : bets'[i] = bets[i]
      /\ balances' = [balances EXCEPT ![source] = @ - m.wager]
      /\ matching' = [tx1 |-> n, candidates |-> CounterBets(f, m.bet_type)]
      /\ bet_matches' = bet_matches
      /\ b.status = "open" /\ b.feed_address = f /\ b.bet_type = m.bet_type
  <2>1. BetOpened(source, f, m)
    BY <1>0, OpenBetFacts
  <2> QED BY <2>1 DEF BetOpened
<1> HIDE DEF b
<1>2. Len(bets) \in Nat /\ DOMAIN bets = 1..Len(bets) /\ bet_matches \in Seq(Match)
  BY <1>0 DEF TypeOK
<1>3. balances' \in [Address -> Nat]
  <2>1. m.wager \in Nat /\ balances \in [Address -> Nat]
    BY <1>0 DEF Messages, TypeOK
  <2> QED BY <1>1, <2>1
<1>4. CounterBets(f, m.bet_type) \in SUBSET DOMAIN bets
  BY DEF CounterBets, OpenOfFeed, OpenBets
<1>5. matching' \in [tx1 : 0..Len(bets'), candidates : SUBSET DOMAIN bets']
  BY <1>1, <1>2, <1>4
<1>6. MatchesOfBets'
  BY <1>1 DEF Sound, MatchesOfBets
<1>7. MatchingIsSound'
  <2>1. n \in OpenBets'
    BY <1>1 DEF OpenBets
  <2>2. ASSUME NEW i \in CounterBets(f, m.bet_type)
        PROVE  /\ i \in OpenBets' /\ i < n /\ bets'[i].feed_address = f
               /\ bets'[i].bet_type # m.bet_type
    <3>1. /\ i \in DOMAIN bets /\ bets[i].status = "open" /\ bets[i].feed_address = f
          /\ bets[i].bet_type # m.bet_type
      BY DEF CounterBets, OpenOfFeed, OpenBets
    <3> QED BY <3>1, <1>1, <1>2 DEF OpenBets
  <2> QED BY <1>1, <2>1, <2>2 DEF MatchingIsSound
<1> QED BY <1>1, <1>2, <1>3, <1>5, <1>6, <1>7 DEF RowsOK

\* What is given back of a bet that is filled
LEMMA LeftoverFacts ==
  ASSUME NEW b \in Bet, NEW a
  PROVE  /\ Leftover(b, a) \in Nat
         /\ Leftover(b, a) = IF b.status = "filled" /\ b.source = a THEN b.wager_remaining ELSE 0
  BY DEF Leftover, Bet

\* A trade does, and those that are left to be tried are still open.
LEMMA TradeRows ==
  ASSUME Sound, NEW i \in matching.candidates, NEW r, NEW j, j = matching.tx1, Trade(i, j, r)
  PROVE  RowsOK'
<1>0. /\ TypeOK /\ i \in OpenBets /\ j \in OpenBets /\ i # j
      /\ i \in DOMAIN bets /\ j \in DOMAIN bets /\ bets[i].status = "open"
      /\ bets[j].status = "open"
  <2>1. TypeOK /\ i \in OpenBets /\ j \in OpenBets /\ i < j
    BY DEF Sound, MatchingIsSound
  <2>2. i \in DOMAIN bets /\ j \in DOMAIN bets /\ bets[i].status = "open" /\ bets[j].status = "open"
    BY <2>1, OpenAreBets
  <2> QED BY <2>1, <2>2 DEF TypeOK
<1>1. /\ r \in Match /\ r.tx0 = i /\ r.tx1 = j
      /\ bets' \in Seq(Bet) /\ Len(bets') = Len(bets) /\ DOMAIN bets' = DOMAIN bets
      /\ \A k \in DOMAIN bets : SameTerms(bets[k], bets'[k])
      /\ \A k \in DOMAIN bets \ {i, j} : bets'[k] = bets[k]
      /\ bet_matches' \in Seq(Match)
      /\ DOMAIN bet_matches' = DOMAIN bet_matches \cup {Len(bet_matches) + 1}
      /\ bet_matches'[Len(bet_matches) + 1] = r
      /\ \A m \in DOMAIN bet_matches : bet_matches'[m] = bet_matches[m]
  <2>1. TradeDone(i, j, r)
    BY <1>0, TradeFacts
  <2> QED BY <2>1 DEF TradeDone
<1>2. balances' \in [Address -> Nat]
  <2>1. bets'[i] \in Bet /\ bets'[j] \in Bet /\ balances \in [Address -> Nat]
    BY <1>0, <1>1 DEF TypeOK
  <2>2. balances' = [a \in Address |-> balances[a] + Leftover(bets'[i], a) + Leftover(bets'[j], a)]
    BY DEF Trade
  <2>3. \A a \in Address : Leftover(bets'[i], a) \in Nat /\ Leftover(bets'[j], a) \in Nat
    BY <2>1, LeftoverFacts
  <2> QED BY <2>1, <2>2, <2>3
<1> DEFINE left == IF bets'[j].status = "open" THEN matching.candidates \ {i} ELSE {}
<1>3. /\ matching' = [matching EXCEPT !.candidates = left]
      /\ matching \in [tx1 : 0..Len(bets), candidates : SUBSET DOMAIN bets]
      /\ left \in SUBSET DOMAIN bets
  BY <1>0 DEF Trade, TypeOK
<1>4. /\ matching' \in [tx1 : 0..Len(bets'), candidates : SUBSET DOMAIN bets']
      /\ matching'.tx1 = j /\ matching'.candidates = left
  <2> HIDE DEF left
  <2> QED BY <1>1, <1>3
<1>5. MatchesOfBets'
  <2>1. ASSUME NEW m \in DOMAIN bet_matches'
        PROVE  /\ bet_matches'[m].tx0 \in DOMAIN bets /\ bet_matches'[m].tx1 \in DOMAIN bets
               /\ bet_matches'[m].tx0 # bet_matches'[m].tx1
    <3>1. CASE m \in DOMAIN bet_matches
      BY <3>1, <1>1 DEF Sound, MatchesOfBets
    <3>2. CASE m = Len(bet_matches) + 1
      BY <3>2, <1>0, <1>1
    <3> QED BY <3>1, <3>2, <1>1
  <2> QED BY <2>1, <1>1 DEF MatchesOfBets
<1>6. MatchingIsSound'
  <2> SUFFICES ASSUME NEW k \in left
               PROVE  /\ j \in OpenBets' /\ k \in OpenBets' /\ k < j
                      /\ bets'[k].feed_address = bets'[j].feed_address
                      /\ bets'[k].bet_type # bets'[j].bet_type
    BY <1>4 DEF MatchingIsSound
  <2>1. k \in matching.candidates /\ k # i /\ bets'[j].status = "open"
    OBVIOUS
  <2>2. /\ k \in OpenBets /\ k < j /\ bets[k].feed_address = bets[j].feed_address
        /\ bets[k].bet_type # bets[j].bet_type
    BY <2>1 DEF Sound, MatchingIsSound
  <2>3. k \in DOMAIN bets /\ bets[k].status = "open" /\ k # j
    BY <1>0, <2>2, OpenAreBets DEF TypeOK
  <2> QED BY <1>0, <1>1, <2>1, <2>2, <2>3 DEF OpenBets, SameTerms
<1> QED BY <1>1, <1>2, <1>4, <1>5, <1>6 DEF RowsOK

\* A bet that cannot be traded with is left out.
LEMMA SkipRows ==
  ASSUME Sound, NEW i \in matching.candidates,
         matching' = [matching EXCEPT !.candidates = @ \ {i}],
         UNCHANGED <<balances, bets, bet_matches>>
  PROVE  RowsOK'
<1>1. /\ matching \in [tx1 : 0..Len(bets), candidates : SUBSET DOMAIN bets]
  BY DEF Sound, TypeOK
<1>2. /\ matching' \in [tx1 : 0..Len(bets), candidates : SUBSET DOMAIN bets]
      /\ matching'.tx1 = matching.tx1 /\ matching'.candidates = matching.candidates \ {i}
  BY <1>1
<1>3. MatchingIsSound' /\ MatchesOfBets'
  BY <1>2 DEF Sound, MatchingIsSound, MatchesOfBets, OpenBets
<1> QED BY <1>2, <1>3 DEF RowsOK, Sound, TypeOK

\* Every step keeps the invariant.
LEMMA SoundStep == Sound /\ [Next]_vars => Sound'
<1> SUFFICES ASSUME Sound, [Next]_vars PROVE Sound'
  OBVIOUS
<1>0. /\ TypeOK /\ MatchesOfBets /\ MatchingIsSound
      /\ FirstBlock \in Nat /\ LastBlock \in Nat /\ MaxTxs \in Nat
  BY BetsAssumption DEF Sound
<1>1. ASSUME RowsOK', UNCHANGED <<clock, broadcasts>>, txs' \in 0..MaxTxs, stopped' \in BOOLEAN
      PROVE  Sound'
  BY <1>0, <1>1 DEF Sound, TypeOK, RowsOK, clock
<1>2. CASE UNCHANGED vars
  <2>1. RowsOK
    BY <1>0 DEF RowsOK, TypeOK
  <2>2. UNCHANGED <<clock, txs, balances, bets, bet_matches, broadcasts, matching, stopped>>
    BY <1>2 DEF vars
  <2> QED BY <2>2, <1>0 DEF Sound, TypeOK, MatchesOfBets, MatchingIsSound, OpenBets, clock
<1>3. CASE ParseBet
  <2>1. txs' \in 0..MaxTxs
    BY <1>0, <1>3 DEF ParseBet, Parsing, TypeOK
  <2>2. PICK source \in Address, f \in Feed, m \in Message :
          IF OddsAreZero(source, m)
            THEN /\ stopped' = TRUE
                 /\ UNCHANGED <<clock, balances, bets, bet_matches, broadcasts, matching>>
            ELSE OpenBet(source, f, Overbet(source, m))
    BY <1>3 DEF ParseBet
  <2>3. CASE OddsAreZero(source, m)
    BY <2>1, <2>2, <2>3, <1>0 DEF Sound, TypeOK, MatchesOfBets, MatchingIsSound, OpenBets, clock
  <2>4. CASE ~OddsAreZero(source, m)
    <3> DEFINE o == Overbet(source, m)
    <3>1. o \in Messages /\ o.wager <= balances[source]
      BY <1>0, OverbetFacts
    <3>2. OpenBet(source, f, o)
      BY <2>2, <2>4
    <3> HIDE DEF o
    <3>3. RowsOK'
      BY <3>1, <3>2, OpenBetRows
    <3>4. UNCHANGED <<clock, broadcasts>> /\ stopped' \in BOOLEAN
      BY <1>0, <3>2 DEF OpenBet, TypeOK
    <3> QED BY <2>1, <3>3, <3>4, <1>1
  <2> QED BY <2>3, <2>4
<1>4. CASE TryBet
  <2> DEFINE i == Min(matching.candidates)
  <2>1. /\ i \in matching.candidates
        /\ UNCHANGED <<clock, txs, broadcasts, stopped>>
        /\ \/ \E r : Trade(i, matching.tx1, r)
           \/ /\ matching' = [matching EXCEPT !.candidates = @ \ {i}]
              /\ UNCHANGED <<balances, bets, bet_matches>>
    BY <1>0, <1>4, TryBetTrades
  <2> HIDE DEF i
  <2>2. RowsOK'
    BY <2>1, TradeRows, SkipRows
  <2> QED BY <2>1, <2>2, <1>0, <1>1 DEF TypeOK
<1>5. CASE EndOfMatch
  <2>1. RowsOK'
    BY <1>0, <1>5 DEF EndOfMatch, RowsOK, TypeOK, MatchesOfBets, MatchingIsSound, Idle
  <2> QED BY <2>1, <1>0, <1>1, <1>5 DEF EndOfMatch, TypeOK
<1>6. CASE ParseBroadcast
  <2>1. PICK f \in Feed, n \in News :
           /\ MayBroadcast(f, n)
           /\ broadcasts' = [broadcasts EXCEPT ![f] = Append(@, Row(n))]
           /\ \E S \in SUBSET OpenBets, M \in SUBSET PendingMatches : Ending(S, M)
    BY <1>0, <1>6, BroadcastEnds
  <2>2. matching = Idle /\ matching' = Idle /\ txs' \in 0..MaxTxs /\ UNCHANGED <<clock, stopped>>
    BY <1>0, <1>6 DEF ParseBroadcast, Parsing, TypeOK
  <2>3. RowsOK'
    BY <2>1, <2>2, EndingRows
  <2>4. broadcasts' \in [Feed -> Seq(BroadcastRow)]
    <3>1. Row(n) \in BroadcastRow
      <4>1. n \in Broadcasts /\ 0 \in 0..(Unit - 1)
        BY BetsAssumption
      <4> QED BY <4>1 DEF Row, BroadcastRow, Broadcasts
    <3>2. broadcasts \in [Feed -> Seq(BroadcastRow)]
      BY <1>0 DEF TypeOK
    <3>3. Append(broadcasts[f], Row(n)) \in Seq(BroadcastRow)
      BY <3>1, <3>2
    <3> QED BY <2>1, <3>2, <3>3
  <2> QED BY <1>0, <2>2, <2>3, <2>4 DEF Sound, TypeOK, RowsOK, clock
<1>7. CASE ParseCancel
  <2>1. /\ matching = Idle /\ matching' = Idle /\ txs' \in 0..MaxTxs
        /\ UNCHANGED <<clock, stopped, broadcasts>>
    BY <1>0, <1>7 DEF ParseCancel, Parsing, TypeOK
  <2>2. RowsOK'
    BY <1>0, <1>7, <2>1, CancelEnds, EndingRows
  <2> QED BY <1>0, <2>1, <2>2, <1>1 DEF TypeOK
<1>8. CASE NextBlock
  <2>1. /\ matching = Idle /\ matching' = Idle /\ UNCHANGED <<txs, stopped, broadcasts>>
        /\ block_index' \in FirstBlock..LastBlock /\ block_time' \in Times
    BY <1>0, <1>8 DEF NextBlock, TypeOK
  <2>2. RowsOK'
    BY <1>0, <1>8, <2>1, NextBlockEnds, EndingRows
  <2> QED BY <1>0, <2>1, <2>2 DEF Sound, TypeOK, RowsOK
<1> QED BY <1>2, <1>3, <1>4, <1>5, <1>6, <1>7, <1>8 DEF Next

\* Every match is of two bets that have rows, and the bets that the matched one is still
\* to be tried with are open and against it.
THEOREM SpecIsSound == Spec => []Sound
<1>1. Init => Sound
  BY SoundInit
<1>2. Sound /\ [Next]_vars => Sound'
  BY SoundStep
<1> QED BY <1>1, <1>2, PTL DEF Spec

\* Every row keeps its type: no balance and no wager goes below zero.
THEOREM TypesAreKept == Spec => []TypeOK
<1>1. Sound => TypeOK
  BY DEF Sound
<1> QED BY <1>1, SpecIsSound, PTL

----------------------------------------------------------------------------
\* What a step does to the rows

Opens ==
  /\ matching = Idle /\ UNCHANGED broadcasts
  /\ \E source \in Address, f \in Feed, m \in Messages :
       m.wager <= balances[source] /\ BetOpened(source, f, m)

Tried(i, j) ==
  /\ i \in matching.candidates /\ j = matching.tx1
  /\ i \in OpenBets /\ j \in OpenBets /\ i < j
  /\ bets[i].feed_address = bets[j].feed_address
  /\ UNCHANGED broadcasts

Trades == \E i, j, r : Tried(i, j) /\ Trade(i, j, r) /\ TradeDone(i, j, r)

Skips ==
  \E i, j : /\ Tried(i, j) /\ ~CanTrade(bets[i], bets[j])
            /\ matching' = [matching EXCEPT !.candidates = @ \ {i}]
            /\ UNCHANGED <<balances, bets, bet_matches>>

Rests ==
  /\ UNCHANGED <<balances, bets, bet_matches, broadcasts>>
  /\ matching' = matching \/ (matching.candidates = {} /\ matching' = Idle)

Ends ==
  /\ matching = Idle /\ matching' = Idle
  /\ \E S \in SUBSET OpenBets, M \in SUBSET PendingMatches :
       /\ Ending(S, M)
       /\ \/ UNCHANGED broadcasts
          \/ \E f \in Feed, n \in News :
               /\ MayBroadcast(f, n)
               /\ broadcasts' = [broadcasts EXCEPT ![f] = Append(@, Row(n))]
               /\ Decides(n) => M = Due(f, n)

\* Every step opens a bet, trades, skips a bet, ends bets and matches, or rests.
LEMMA StepKinds ==
  ASSUME Sound, [Next]_vars
  PROVE  Opens \/ Trades \/ Skips \/ Rests \/ Ends
<1>0. TypeOK /\ MatchesOfBets /\ MatchingIsSound
  BY DEF Sound
<1>1. CASE UNCHANGED vars
  BY <1>1 DEF vars, Rests
<1>2. CASE ParseBet
  <2>1. PICK source \in Address, f \in Feed, m \in Message :
          IF OddsAreZero(source, m)
            THEN /\ stopped' = TRUE
                 /\ UNCHANGED <<clock, balances, bets, bet_matches, broadcasts, matching>>
            ELSE OpenBet(source, f, Overbet(source, m))
    BY <1>2 DEF ParseBet
  <2>2. CASE OddsAreZero(source, m)
    BY <2>1, <2>2 DEF Rests
  <2>3. CASE ~OddsAreZero(source, m)
    <3> DEFINE o == Overbet(source, m)
    <3>1. o \in Messages /\ o.wager <= balances[source]
      BY <1>0, OverbetFacts
    <3>2. OpenBet(source, f, o)
      BY <2>1, <2>3
    <3> HIDE DEF o
    <3>3. BetOpened(source, f, o)
      BY <1>0, <3>1, <3>2, OpenBetFacts
    <3>4. matching = Idle /\ UNCHANGED broadcasts
      BY <1>2, <3>2 DEF ParseBet, Parsing, OpenBet
    <3> QED BY <3>1, <3>3, <3>4 DEF Opens
  <2> QED BY <2>2, <2>3
<1>3. CASE TryBet
  <2> DEFINE i == Min(matching.candidates)
             j == matching.tx1
  <2>1. /\ i \in matching.candidates /\ i \in OpenBets /\ j \in OpenBets /\ i < j
        /\ bets[i].feed_address = bets[j].feed_address
        /\ UNCHANGED <<clock, txs, broadcasts, stopped>>
        /\ \/ \E r : Trade(i, j, r)
           \/ /\ ~CanTrade(bets[i], bets[j])
              /\ matching' = [matching EXCEPT !.candidates = @ \ {i}]
              /\ UNCHANGED <<balances, bets, bet_matches>>
    BY <1>0, <1>3, TryBetTrades
  <2> HIDE DEF i
  <2>2. Tried(i, j)
    BY <2>1 DEF Tried
  <2>3. i # j
    BY <1>0, <2>1 DEF TypeOK
  <2>4. CASE \E r : Trade(i, j, r)
    <3>1. PICK r : Trade(i, j, r)
      BY <2>4
    <3>2. TradeDone(i, j, r)
      BY <1>0, <2>1, <2>3, <3>1, TradeFacts
    <3> QED BY <2>2, <3>1, <3>2 DEF Trades
  <2>5. CASE /\ ~CanTrade(bets[i], bets[j])
             /\ matching' = [matching EXCEPT !.candidates = @ \ {i}]
             /\ UNCHANGED <<balances, bets, bet_matches>>
    BY <2>2, <2>5 DEF Skips
  <2> QED BY <2>1, <2>4, <2>5
<1>4. CASE EndOfMatch
  BY <1>4 DEF EndOfMatch, Rests
<1>5. CASE ParseBroadcast
  <2>1. matching = Idle /\ matching' = Idle
    BY <1>5 DEF ParseBroadcast, Parsing
  <2>2. PICK f \in Feed, n \in News :
           /\ MayBroadcast(f, n)
           /\ broadcasts' = [broadcasts EXCEPT ![f] = Append(@, Row(n))]
           /\ \E S \in SUBSET OpenBets, M \in SUBSET PendingMatches :
                Ending(S, M) /\ (Decides(n) => M = Due(f, n))
    BY <1>0, <1>5, BroadcastEnds
  <2> QED BY <2>1, <2>2 DEF Ends
<1>6. CASE ParseCancel
  <2>1. matching = Idle /\ matching' = Idle /\ UNCHANGED broadcasts
    BY <1>6 DEF ParseCancel, Parsing
  <2>2. \E S \in SUBSET OpenBets, M \in SUBSET PendingMatches : Ending(S, M)
    BY <1>0, <1>6, CancelEnds
  <2> QED BY <2>1, <2>2 DEF Ends
<1>7. CASE NextBlock
  <2>1. matching = Idle /\ matching' = Idle /\ UNCHANGED broadcasts
    BY <1>7 DEF NextBlock
  <2>2. \E S \in SUBSET OpenBets, M \in SUBSET PendingMatches : Ending(S, M)
    BY <1>0, <1>7, NextBlockEnds
  <2> QED BY <2>1, <2>2 DEF Ends
<1> QED BY <1>1, <1>2, <1>3, <1>4, <1>5, <1>6, <1>7 DEF Next

\* What every step keeps: the rows that were there, their terms and their quantities
RowsAreKept ==
  /\ DOMAIN bets \subseteq DOMAIN bets' /\ DOMAIN bet_matches \subseteq DOMAIN bet_matches'
  /\ \A i \in DOMAIN bets : SameTerms(bets[i], bets'[i])
  /\ \A i \in DOMAIN bets : bets'[i].wager_remaining <= bets[i].wager_remaining
  /\ \A m \in DOMAIN bet_matches :
       /\ SameMatch(bet_matches[m], bet_matches'[m])
       /\ bet_matches'[m].status = "pending" => bet_matches[m].status = "pending"
  /\ \A i \in DOMAIN bets : bets'[i].status = "open" => bets[i].status = "open"

\* No step takes a row away, changes its terms, adds to what a bet has left, or opens it
\* again.
LEMMA StepKeepsRows ==
  ASSUME Sound, Opens \/ Trades \/ Skips \/ Rests \/ Ends
  PROVE  RowsAreKept
<1>0. /\ \A b : SameTerms(b, b)
      /\ \A r : SameMatch(r, r)
      /\ \A i \in DOMAIN bets : bets[i] \in Bet /\ bets[i].wager_remaining \in Nat
      /\ TypeOK
  <2>1. TypeOK /\ (\A b : SameTerms(b, b)) /\ \A r : SameMatch(r, r)
    BY DEF SameTerms, SameMatch, Sound
  <2>2. \A i \in DOMAIN bets : bets[i] \in Bet
    BY <2>1 DEF TypeOK
  <2>3. \A b \in Bet : b.wager_remaining \in Nat
    BY DEF Bet
  <2> QED BY <2>1, <2>2, <2>3
<1>1. CASE Opens
  <2>1. /\ DOMAIN bets \subseteq DOMAIN bets' /\ bet_matches' = bet_matches
        /\ \A i \in DOMAIN bets : bets'[i] = bets[i]
    BY <1>1 DEF Opens, BetOpened
  <2> QED BY <1>0, <2>1 DEF RowsAreKept
<1>2. CASE Trades
  <2>1. PICK i, j, r : Tried(i, j) /\ TradeDone(i, j, r)
    BY <1>2 DEF Trades
  <2>2. /\ DOMAIN bets' = DOMAIN bets /\ DOMAIN bet_matches \subseteq DOMAIN bet_matches'
        /\ \A k \in DOMAIN bets : SameTerms(bets[k], bets'[k])
        /\ \A m \in DOMAIN bet_matches : bet_matches'[m] = bet_matches[m]
        /\ \A k \in DOMAIN bets \ {i, j} : bets'[k] = bets[k]
        /\ bets'[i].wager_remaining = bets[i].wager_remaining - r.forward_quantity
        /\ bets'[j].wager_remaining = bets[j].wager_remaining - r.backward_quantity
        /\ r.forward_quantity \in Nat /\ r.backward_quantity \in Nat
    BY <2>1 DEF TradeDone
  <2>3. /\ i \in DOMAIN bets /\ j \in DOMAIN bets
        /\ bets[i].status = "open" /\ bets[j].status = "open"
    BY <2>1, OpenAreBets DEF Tried
  <2>4. \A k \in DOMAIN bets : bets'[k].wager_remaining <= bets[k].wager_remaining
    <3>1. /\ bets'[i].wager_remaining <= bets[i].wager_remaining
          /\ bets'[j].wager_remaining <= bets[j].wager_remaining
      BY <1>0, <2>2, <2>3
    <3> QED BY <1>0, <2>2, <3>1
  <2>5. \A k \in DOMAIN bets : bets'[k].status = "open" => bets[k].status = "open"
    BY <2>2, <2>3
  <2> QED BY <1>0, <2>2, <2>4, <2>5 DEF RowsAreKept
<1>3. CASE Skips \/ Rests
  BY <1>0, <1>3 DEF Skips, Rests, RowsAreKept
<1>4. CASE Ends
  <2>1. PICK S \in SUBSET OpenBets, M \in SUBSET PendingMatches : BetsEnd(S) /\ MatchesEnd(M)
    BY <1>4 DEF Ends, Ending
  <2>2. /\ DOMAIN bets' = DOMAIN bets
        /\ \A i \in DOMAIN bets :
             /\ SameTerms(bets[i], bets'[i])
             /\ bets'[i].wager_remaining = bets[i].wager_remaining
             /\ i \notin S => bets'[i].status = bets[i].status
             /\ i \in S => bets'[i].status # "open"
    BY <2>1 DEF BetsEnd
  <2>3. /\ DOMAIN bet_matches' = DOMAIN bet_matches
        /\ \A m \in DOMAIN bet_matches :
             /\ SameMatch(bet_matches[m], bet_matches'[m])
             /\ m \notin M => bet_matches'[m].status = bet_matches[m].status
             /\ m \in M => bet_matches'[m].status # "pending"
    BY <2>1 DEF MatchesEnd
  <2>4. \A i \in DOMAIN bets : bets'[i].wager_remaining <= bets[i].wager_remaining
    BY <1>0, <2>2
  <2> QED BY <2>2, <2>3, <2>4 DEF RowsAreKept
<1> QED BY <1>1, <1>2, <1>3, <1>4

----------------------------------------------------------------------------
\* Odds

OddsOf(F, B, b0, b1) ==
  LET exact == F * b0.counterwager_quantity
  IN  /\ 2 * B * b0.wager_quantity <= 2 * exact + b0.wager_quantity
      /\ 2 * B * b0.wager_quantity >= 2 * exact - b0.wager_quantity
      /\ 2 * B * b1.counterwager_quantity
           <= 2 * F * b1.wager_quantity + b1.counterwager_quantity

\* A match keeps the odds of both its bets.
LEMMA TradeKeepsOdds ==
  ASSUME NEW b0 \in Bet, NEW b1 \in Bet, OddsAgree(b0, b1)
  PROVE  OddsOf(Forward(b0, b1), Backward(b0, b1), b0, b1)
<1> DEFINE F == Forward(b0, b1)
           B == Backward(b0, b1)
           w0 == b0.wager_quantity
           c0 == b0.counterwager_quantity
           w1 == b1.wager_quantity
           c1 == b1.counterwager_quantity
<1>1. F \in Nat /\ B \in Nat
  BY ForwardFacts, BackwardFacts
<1>2. w0 \in Nat /\ c0 \in Nat /\ w1 \in Nat /\ c1 \in Nat
  BY DEF Bet
<1>3. /\ 2 * (B * w0) <= 2 * (F * c0) + w0
      /\ 2 * (B * w0) >= 2 * (F * c0) - w0
      /\ 2 * (B * c1) <= 2 * (F * w1) + c1
  BY BackwardFacts
<1> HIDE DEF F, B, w0, c0, w1, c1
<1>4. /\ 2 * B * w0 = 2 * (B * w0) /\ 2 * B * c1 = 2 * (B * c1) /\ 2 * F * w1 = 2 * (F * w1)
  BY <1>1, <1>2, Z3
<1>5. /\ 2 * B * w0 <= 2 * (F * c0) + w0
      /\ 2 * B * w0 >= 2 * (F * c0) - w0
      /\ 2 * B * c1 <= 2 * F * w1 + c1
  BY <1>3, <1>4, Zenon
<1> QED BY <1>5 DEF OddsOf, F, B, w0, c0, w1, c1

OddsInv == \A m \in DOMAIN bet_matches :
  OddsOf(bet_matches[m].forward_quantity, bet_matches[m].backward_quantity,
         bets[bet_matches[m].tx0], bets[bet_matches[m].tx1])

\* Every step keeps the odds of the matches.
LEMMA OddsStep ==
  ASSUME Sound, OddsInv, [Next]_vars
  PROVE  OddsInv'
<1>1. Opens \/ Trades \/ Skips \/ Rests \/ Ends
  BY StepKinds
<1>2. RowsAreKept
  BY <1>1, StepKeepsRows
<1> SUFFICES ASSUME NEW m \in DOMAIN bet_matches'
             PROVE  OddsOf(bet_matches'[m].forward_quantity, bet_matches'[m].backward_quantity,
                           bets'[bet_matches'[m].tx0], bets'[bet_matches'[m].tx1])
  BY DEF OddsInv
<1>3. CASE m \in DOMAIN bet_matches
  <2> DEFINE x == bet_matches[m].tx0
             y == bet_matches[m].tx1
  <2>1. /\ bet_matches'[m].tx0 = x /\ bet_matches'[m].tx1 = y
        /\ bet_matches'[m].forward_quantity = bet_matches[m].forward_quantity
        /\ bet_matches'[m].backward_quantity = bet_matches[m].backward_quantity
    BY <1>2, <1>3 DEF RowsAreKept, SameMatch
  <2>2. x \in DOMAIN bets /\ y \in DOMAIN bets
    BY <1>3 DEF Sound, MatchesOfBets
  <2>3. SameTerms(bets[x], bets'[x]) /\ SameTerms(bets[y], bets'[y])
    BY <1>2, <2>2 DEF RowsAreKept
  <2>4. OddsOf(bet_matches[m].forward_quantity, bet_matches[m].backward_quantity,
               bets[x], bets[y])
    BY <1>3 DEF OddsInv
  <2> HIDE DEF x, y
  <2> QED BY <2>1, <2>3, <2>4 DEF OddsOf, SameTerms
<1>4. CASE m \notin DOMAIN bet_matches
  <2>1. Trades
    BY <1>1, <1>4 DEF Opens, BetOpened, Skips, Rests, Ends, Ending, MatchesEnd
  <2>2. PICK i, j, r : Tried(i, j) /\ Trade(i, j, r) /\ TradeDone(i, j, r)
    BY <2>1 DEF Trades
  <2>3. /\ bet_matches'[m] = r /\ r.tx0 = i /\ r.tx1 = j
        /\ r.forward_quantity = Forward(bets[i], bets[j])
        /\ r.backward_quantity = Backward(bets[i], bets[j])
        /\ SameTerms(bets[i], bets'[i]) /\ SameTerms(bets[j], bets'[j])
    BY <1>4, <2>2, OpenAreBets DEF TradeDone, Tried
  <2>4. bets[i] \in Bet /\ bets[j] \in Bet /\ OddsAgree(bets[i], bets[j])
    BY <2>2, OpenAreBets DEF Tried, Trade, CanTrade, Sound, TypeOK
  <2>5. OddsOf(r.forward_quantity, r.backward_quantity, bets[i], bets[j])
    BY <2>3, <2>4, TradeKeepsOdds
  <2> QED BY <2>3, <2>5 DEF OddsOf, SameTerms
<1> QED BY <1>3, <1>4

\* Whatever is staked, and however it is rounded, a match keeps the odds of both its
\* bets.
THEOREM MatchesKeepOdds == Spec => []OddsAreKept
<1>1. Init => OddsInv
  BY DEF Init, OddsInv
<1>2. Sound /\ OddsInv /\ [Next]_vars => OddsInv'
  BY OddsStep
<1>3. OddsInv => OddsAreKept
  BY DEF OddsInv, OddsAreKept, OddsOf
<1> QED BY <1>1, <1>2, <1>3, SpecIsSound, PTL DEF Spec

----------------------------------------------------------------------------
\* What the feeds have announced

\* Until a feed is locked, its last broadcast has the latest timestamp.
LastIsLatest ==
  \A f \in Feed : \A k \in DOMAIN broadcasts[f] :
    LastBroadcast(f).text # "lock" =>
      broadcasts[f][k].timestamp <= LastBroadcast(f).timestamp

UndecidedFor(f, deadline) ==
  \A k \in DOMAIN broadcasts[f] :
    Decides(broadcasts[f][k]) => broadcasts[f][k].timestamp < deadline

\* While a bet is being matched, its feed has announced nothing since its deadline.
MatchingIsUndecided ==
  matching.candidates # {} =>
    UndecidedFor(bets[matching.tx1].feed_address, bets[matching.tx1].deadline)

Undecided ==
  \A m \in DOMAIN bet_matches :
    bet_matches[m].status = "pending" =>
      UndecidedFor(bets[bet_matches[m].tx0].feed_address, bet_matches[m].deadline)

Announced == LastIsLatest /\ MatchingIsUndecided /\ Undecided

\* A match stays undecided as long as its feed is silent.
LEMMA UndecidedKept ==
  ASSUME Sound, RowsAreKept, Undecided, UNCHANGED broadcasts,
         NEW m \in DOMAIN bet_matches, bet_matches'[m].status = "pending"
  PROVE  UndecidedFor(bets[bet_matches[m].tx0].feed_address, bet_matches[m].deadline)'
<1> DEFINE x == bet_matches[m].tx0
<1>1. /\ bet_matches[m].status = "pending" /\ bet_matches'[m].tx0 = x
      /\ bet_matches'[m].deadline = bet_matches[m].deadline
  BY DEF RowsAreKept, SameMatch
<1>2. x \in DOMAIN bets
  BY DEF Sound, MatchesOfBets
<1>3. bets'[x].feed_address = bets[x].feed_address
  BY <1>2 DEF RowsAreKept, SameTerms
<1>4. UndecidedFor(bets[x].feed_address, bet_matches[m].deadline)
  BY <1>1 DEF Undecided
<1> HIDE DEF x
<1> QED BY <1>1, <1>3, <1>4 DEF UndecidedFor, x

\* The last broadcast of a feed is a row of it.
LEMMA LastIsARow ==
  ASSUME TypeOK, NEW f \in Feed, broadcasts[f] # <<>>
  PROVE  /\ broadcasts[f] \in Seq(BroadcastRow) /\ Len(broadcasts[f]) \in DOMAIN broadcasts[f]
         /\ LastBroadcast(f) \in BroadcastRow
         /\ \A k \in DOMAIN broadcasts[f] : broadcasts[f][k] \in BroadcastRow
         /\ \A r \in BroadcastRow : r.timestamp \in Nat
<1>1. broadcasts[f] \in Seq(BroadcastRow)
  BY DEF TypeOK
<1>2. /\ Len(broadcasts[f]) \in DOMAIN broadcasts[f]
      /\ \A k \in DOMAIN broadcasts[f] : broadcasts[f][k] \in BroadcastRow
  BY <1>1
<1>3. \A r \in BroadcastRow : r.timestamp \in Nat
  BY DEF BroadcastRow, Broadcasts
<1> QED BY <1>1, <1>2, <1>3 DEF LastBroadcast

\* The feed of a new bet has announced nothing since its deadline: the last broadcast is
\* before it, and no other is later.
LEMMA OpensUndecided ==
  ASSUME Sound, Announced, Opens, RowsAreKept
  PROVE  Announced'
<1>0. TypeOK
  BY DEF Sound
<1>1. PICK source \in Address, f \in Feed, m \in Messages :
        m.wager <= balances[source] /\ BetOpened(source, f, m)
  BY DEF Opens
<1> DEFINE n == Len(bets) + 1
           b == NewBet(source, f, m)
<1>2. /\ b.feed_address = f /\ b.deadline = m.deadline /\ bets'[n] = b
      /\ LastBroadcast(f).timestamp < m.deadline /\ LastBroadcast(f).text = "words"
      /\ broadcasts[f] # <<>> /\ matching' = [tx1 |-> n, candidates |-> CounterBets(f, m.bet_type)]
      /\ bet_matches' = bet_matches /\ broadcasts' = broadcasts
  BY <1>1 DEF BetOpened, Opens
<1> HIDE DEF b, n
<1>3. LastIsLatest'
  BY <1>2 DEF Announced, LastIsLatest, LastBroadcast
<1>4. UndecidedFor(f, m.deadline)
  <2> SUFFICES ASSUME NEW k \in DOMAIN broadcasts[f]
               PROVE  broadcasts[f][k].timestamp < m.deadline
    BY DEF UndecidedFor
  <2>1. broadcasts[f][k].timestamp <= LastBroadcast(f).timestamp
    BY <1>2 DEF Announced, LastIsLatest
  <2>2. /\ broadcasts[f][k].timestamp \in Nat /\ LastBroadcast(f).timestamp \in Nat
        /\ m.deadline \in Nat
    BY <1>0, <1>2, LastIsARow DEF Messages
  <2> QED BY <1>2, <2>1, <2>2
<1>5. MatchingIsUndecided'
  BY <1>2, <1>4 DEF MatchingIsUndecided, UndecidedFor
<1>6. Undecided'
  BY <1>2, UndecidedKept DEF Undecided, Announced
<1> QED BY <1>3, <1>5, <1>6 DEF Announced

\* A new match has the deadline of the matched bet.
LEMMA TradesUndecided ==
  ASSUME Sound, Announced, Trades, RowsAreKept
  PROVE  Announced'
<1>1. PICK i, j, r : Tried(i, j) /\ Trade(i, j, r) /\ TradeDone(i, j, r)
  BY DEF Trades
<1>2. /\ i \in DOMAIN bets /\ j \in DOMAIN bets /\ j = matching.tx1 /\ matching.candidates # {}
      /\ bets[i].feed_address = bets[j].feed_address /\ broadcasts' = broadcasts
      /\ matching \in [tx1 : 0..Len(bets), candidates : SUBSET DOMAIN bets]
  BY <1>1, OpenAreBets DEF Tried, Sound, TypeOK
<1>3. /\ DOMAIN bet_matches' = DOMAIN bet_matches \cup {Len(bet_matches) + 1}
      /\ Len(bet_matches) + 1 \notin DOMAIN bet_matches
      /\ bet_matches'[Len(bet_matches) + 1] = r /\ r.deadline = bets[j].deadline /\ r.tx0 = i
      /\ SameTerms(bets[i], bets'[i]) /\ SameTerms(bets[j], bets'[j])
  BY <1>1, <1>2 DEF TradeDone
<1>4. UndecidedFor(bets[j].feed_address, bets[j].deadline)
  BY <1>2 DEF Announced, MatchingIsUndecided
<1>5. LastIsLatest'
  BY <1>2 DEF Announced, LastIsLatest, LastBroadcast
<1>6. MatchingIsUndecided'
  <2>1. matching'.tx1 = j
    BY <1>1, <1>2 DEF Trade
  <2> QED BY <1>2, <1>3, <1>4, <2>1 DEF MatchingIsUndecided, UndecidedFor, SameTerms
<1>7. Undecided'
  <2> SUFFICES ASSUME NEW m \in DOMAIN bet_matches', bet_matches'[m].status = "pending"
               PROVE  UndecidedFor(bets[bet_matches[m].tx0].feed_address, bet_matches[m].deadline)'
    BY DEF Undecided
  <2>1. CASE m \in DOMAIN bet_matches
    BY <1>2, <2>1, UndecidedKept DEF Announced
  <2>2. CASE m = Len(bet_matches) + 1
    BY <1>2, <1>3, <1>4, <2>2 DEF UndecidedFor, SameTerms
  <2> QED BY <1>3, <2>1, <2>2
<1> QED BY <1>5, <1>6, <1>7 DEF Announced

\* Nothing is announced, and no match is made.
LEMMA RestsUndecided ==
  ASSUME Sound, Announced, Skips \/ Rests, RowsAreKept
  PROVE  Announced'
<1>1. /\ UNCHANGED <<bets, bet_matches, broadcasts>>
      /\ matching'.candidates # {} => matching.candidates # {} /\ matching'.tx1 = matching.tx1
  BY DEF Skips, Tried, Rests, Idle, Sound, TypeOK
<1> QED BY <1>1 DEF Announced, LastIsLatest, LastBroadcast, MatchingIsUndecided, Undecided, UndecidedFor

\* A broadcast that decides settles the matches of its feed that are due.
LEMMA EndsUndecided ==
  ASSUME Sound, Announced, Ends, RowsAreKept
  PROVE  Announced'
<1>0. TypeOK
  BY DEF Sound
<1>1. PICK S \in SUBSET OpenBets, M \in SUBSET PendingMatches :
        /\ Ending(S, M)
        /\ \/ UNCHANGED broadcasts
           \/ \E f \in Feed, n \in News :
                /\ MayBroadcast(f, n)
                /\ broadcasts' = [broadcasts EXCEPT ![f] = Append(@, Row(n))]
                /\ Decides(n) => M = Due(f, n)
  BY DEF Ends
<1>2. /\ DOMAIN bet_matches' = DOMAIN bet_matches
      /\ \A m \in M : bet_matches'[m].status # "pending"
      /\ M \subseteq DOMAIN bet_matches
  BY <1>1 DEF Ending, MatchesEnd, PendingMatches
<1>3. MatchingIsUndecided'
  BY DEF Ends, Idle, MatchingIsUndecided
<1>4. CASE UNCHANGED broadcasts
  <2>1. LastIsLatest'
    BY <1>4 DEF Announced, LastIsLatest, LastBroadcast
  <2>2. Undecided'
    BY <1>2, <1>4, UndecidedKept DEF Undecided, Announced
  <2> QED BY <1>3, <2>1, <2>2 DEF Announced
<1>5. ASSUME NEW f \in Feed, NEW n \in News, MayBroadcast(f, n),
             broadcasts' = [broadcasts EXCEPT ![f] = Append(@, Row(n))],
             Decides(n) => M = Due(f, n)
      PROVE  Announced'
  <2> DEFINE l == Len(broadcasts[f]) + 1
  <2>1. /\ broadcasts \in [Feed -> Seq(BroadcastRow)] /\ broadcasts[f] \in Seq(BroadcastRow)
        /\ n \in Broadcasts /\ n.timestamp \in Nat
    BY <1>0, BetsAssumption DEF TypeOK, Broadcasts
  <2>2. /\ broadcasts'[f] = Append(broadcasts[f], Row(n))
        /\ \A g \in Feed : g # f => broadcasts'[g] = broadcasts[g]
    BY <1>5, <2>1
  <2>3. /\ DOMAIN broadcasts'[f] = DOMAIN broadcasts[f] \cup {l} /\ Len(broadcasts'[f]) = l
        /\ broadcasts'[f][l] = Row(n)
        /\ \A k \in DOMAIN broadcasts[f] : broadcasts'[f][k] = broadcasts[f][k]
    BY <2>1, <2>2
  <2>4. n.text # "lock" => Row(n) = n
    BY DEF Row
  <2>5. n.text = "lock" => Row(n).text = "lock"
    BY DEF Row
  <2>6. LastIsLatest'
    <3> SUFFICES ASSUME NEW g \in Feed, NEW k \in DOMAIN broadcasts'[g],
                        LastBroadcast(g)'.text # "lock"
                 PROVE  broadcasts'[g][k].timestamp <= LastBroadcast(g)'.timestamp
      BY DEF LastIsLatest
    <3>1. CASE g # f
      BY <2>2, <3>1 DEF Announced, LastIsLatest, LastBroadcast
    <3>2. CASE g = f
      <4>1. LastBroadcast(g)' = Row(n)
        BY <2>3, <3>2 DEF LastBroadcast
      <4>2. Row(n) = n
        BY <2>4, <2>5, <4>1
      <4>3. CASE k = l
        BY <2>1, <2>3, <3>2, <4>1, <4>2, <4>3
      <4>4. CASE k \in DOMAIN broadcasts[f]
        <5>1. broadcasts[f] # <<>>
          BY <4>4
        <5>2. LastBroadcast(f).text # "lock" /\ n.timestamp > LastBroadcast(f).timestamp
          BY <1>5, <5>1 DEF MayBroadcast
        <5>3. broadcasts[f][k].timestamp <= LastBroadcast(f).timestamp
          BY <4>4, <5>2 DEF Announced, LastIsLatest
        <5>4. broadcasts[f][k].timestamp \in Nat /\ LastBroadcast(f).timestamp \in Nat
          BY <1>0, <4>4, <5>1, LastIsARow
        <5> QED BY <2>1, <2>3, <3>2, <4>1, <4>2, <4>4, <5>2, <5>3, <5>4
      <4> QED BY <2>3, <3>2, <4>3, <4>4
    <3> QED BY <3>1, <3>2
  <2>7. Undecided'
    <3> SUFFICES ASSUME NEW m \in DOMAIN bet_matches, bet_matches'[m].status = "pending"
                 PROVE  UndecidedFor(bets[bet_matches[m].tx0].feed_address,
                                     bet_matches[m].deadline)'
      BY <1>2 DEF Undecided
    <3> DEFINE x == bet_matches[m].tx0
               g == bets[x].feed_address
               d == bet_matches[m].deadline
    <3>1. /\ bet_matches[m].status = "pending" /\ bet_matches'[m].tx0 = x
          /\ bet_matches'[m].deadline = d /\ m \notin M
      BY <1>2 DEF RowsAreKept, SameMatch
    <3>2. x \in DOMAIN bets /\ bets[x] \in Bet /\ d \in Nat
      BY <1>0, MatchFacts DEF Sound, MatchesOfBets, Match
    <3>3. bets'[x].feed_address = g /\ g \in Feed
      BY <3>2 DEF RowsAreKept, SameTerms, Bet
    <3>4. UndecidedFor(g, d)
      BY <3>1 DEF Announced, Undecided
    <3>5. g = f => (Decides(Row(n)) => Row(n).timestamp < d)
      <4> SUFFICES ASSUME g = f, Decides(Row(n)) PROVE Row(n).timestamp < d
        OBVIOUS
      <4>1. Row(n) = n
        BY <2>4, <2>5 DEF Decides
      <4>2. m \notin Due(f, n)
        BY <1>5, <3>1, <4>1
      <4>3. ~(n.timestamp >= d)
        BY <3>1, <4>2 DEF Due, PendingOfFeed
      <4> QED BY <2>1, <3>2, <4>1, <4>3
    <3> HIDE DEF x, g, d
    <3>6. ASSUME NEW k \in DOMAIN broadcasts'[g], Decides(broadcasts'[g][k])
          PROVE  broadcasts'[g][k].timestamp < d
      <4>1. CASE g # f
        BY <2>2, <3>3, <3>4, <3>6, <4>1 DEF UndecidedFor
      <4>2. CASE g = f
        BY <2>3, <3>4, <3>5, <3>6, <4>2 DEF UndecidedFor
      <4> QED BY <4>1, <4>2
    <3> QED BY <3>1, <3>3, <3>6 DEF UndecidedFor, x, d
  <2> QED BY <1>3, <2>6, <2>7 DEF Announced
<1> QED BY <1>1, <1>4, <1>5

\* Nobody bets on what is already known, whatever the times of the blocks are.
THEOREM MatchesAreUndecided == Spec => []PendingIsUndecided
<1>1. Init => Announced
  <2> SUFFICES ASSUME Init PROVE Announced
    OBVIOUS
  <2>1. \A f \in Feed : DOMAIN broadcasts[f] = {}
    BY DEF Init
  <2> QED BY <2>1 DEF Init, Announced, LastIsLatest, MatchingIsUndecided, Undecided, Idle
<1>2. Sound /\ Announced /\ [Next]_vars => Announced'
  BY StepKinds, StepKeepsRows, OpensUndecided, TradesUndecided, RestsUndecided, EndsUndecided
<1>3. Announced => PendingIsUndecided
  BY DEF Announced, Undecided, UndecidedFor, PendingIsUndecided
<1> QED BY <1>1, <1>2, <1>3, SpecIsSound, PTL DEF Spec

----------------------------------------------------------------------------
\* The book

TradedWithEachOther(i, j) ==
  \E m \in DOMAIN bet_matches : bet_matches[m].tx0 = i /\ bet_matches[m].tx1 = j
MayCross(i, j) ==
  /\ i \in OpenBets /\ j \in OpenBets /\ i < j
  /\ bets[i].feed_address = bets[j].feed_address /\ bets[i].bet_type # bets[j].bet_type
  /\ CanTrade(bets[i], bets[j])

\* Two open bets that would trade have traded, or are about to.
NotCrossed ==
  \A i, j : MayCross(i, j) =>
    TradedWithEachOther(i, j) \/ (j = matching.tx1 /\ i \in matching.candidates)

\* Two bets that would trade after a step would have traded before it.
LEMMA CrossedBefore ==
  ASSUME Sound, Sound', RowsAreKept, NEW i \in DOMAIN bets, NEW j \in DOMAIN bets, MayCross(i, j)'
  PROVE  MayCross(i, j)
<1>1. /\ bets[i] \in Bet /\ bets[j] \in Bet
      /\ SameTerms(bets[i], bets'[i]) /\ SameTerms(bets[j], bets'[j])
      /\ bets'[i].wager_remaining <= bets[i].wager_remaining
      /\ bets'[j].wager_remaining <= bets[j].wager_remaining
      /\ i \in DOMAIN bets' /\ j \in DOMAIN bets'
  BY DEF Sound, TypeOK, RowsAreKept
<1>2. bets'[i] \in Bet /\ bets'[j] \in Bet
  BY <1>1 DEF Sound, TypeOK
<1>3. CanTrade(bets'[i], bets'[j])
  BY DEF MayCross
<1>4. CanTrade(bets[i], bets[j])
  BY <1>1, <1>2, <1>3, LessTradesNoSooner
<1> QED BY <1>1, <1>4 DEF MayCross, OpenBets, RowsAreKept, SameTerms

\* Bets that traded with each other have.
LEMMA TradedIsKept ==
  ASSUME RowsAreKept, NEW i, NEW j, TradedWithEachOther(i, j)
  PROVE  TradedWithEachOther(i, j)'
  BY DEF RowsAreKept, TradedWithEachOther, SameMatch

\* Every step leaves two open bets that would trade to bet.match().
LEMMA NotCrossedStep ==
  ASSUME Sound, Sound', NotCrossed, [Next]_vars
  PROVE  NotCrossed'
<1>1. Opens \/ Trades \/ Skips \/ Rests \/ Ends
  BY StepKinds
<1>2. RowsAreKept
  BY <1>1, StepKeepsRows
<1>3. SUFFICES ASSUME NEW i, NEW j, MayCross(i, j)', ~TradedWithEachOther(i, j)'
               PROVE  j = matching'.tx1 /\ i \in matching'.candidates
  BY DEF NotCrossed
<1>4. i \in DOMAIN bets' /\ j \in DOMAIN bets' /\ i < j
  BY <1>3 DEF MayCross, OpenBets
<1>5. CASE Opens
  <2>1. PICK source \in Address, f \in Feed, m \in Messages :
          matching = Idle /\ BetOpened(source, f, m)
    BY <1>5 DEF Opens
  <2> DEFINE n == Len(bets) + 1
             b == NewBet(source, f, m)
  <2>2. /\ b.feed_address = f /\ b.bet_type = m.bet_type /\ bets'[n] = b
        /\ DOMAIN bets' = DOMAIN bets \cup {n} /\ \A k \in DOMAIN bets : bets'[k] = bets[k]
        /\ matching' = [tx1 |-> n, candidates |-> CounterBets(f, m.bet_type)]
    BY <2>1 DEF BetOpened
  <2> HIDE DEF b
  <2>3. DOMAIN bets = 1..Len(bets) /\ Len(bets) \in Nat
    BY DEF Sound, TypeOK
  <2>4. CASE j = n
    <3>1. i \in DOMAIN bets
      BY <1>4, <2>2, <2>3, <2>4
    <3>2. i \in CounterBets(f, m.bet_type)
      BY <1>3, <2>2, <2>4, <3>1 DEF MayCross, CounterBets, OpenOfFeed, OpenBets
    <3> QED BY <2>2, <2>4, <3>2
  <2>5. CASE j \in DOMAIN bets
    <3>1. i \in DOMAIN bets
      BY <1>4, <2>2, <2>3, <2>5
    <3>2. MayCross(i, j)
      BY <1>2, <1>3, <2>5, <3>1, CrossedBefore
    <3>3. ~TradedWithEachOther(i, j)
      BY <1>2, <1>3, TradedIsKept
    <3> QED BY <2>1, <3>2, <3>3 DEF NotCrossed, Idle
  <2> QED BY <1>4, <2>2, <2>4, <2>5
<1>6. CASE ~Opens
  <2>1. DOMAIN bets' = DOMAIN bets
    BY <1>1, <1>6 DEF Trades, TradeDone, Skips, Rests, Ends, Ending, BetsEnd
  <2>2. MayCross(i, j)
    BY <1>2, <1>3, <1>4, <2>1, CrossedBefore
  <2>3. ~TradedWithEachOther(i, j)
    BY <1>2, <1>3, TradedIsKept
  <2>4. j = matching.tx1 /\ i \in matching.candidates
    BY <2>2, <2>3 DEF NotCrossed
  <2>5. matching \in [tx1 : 0..Len(bets), candidates : SUBSET DOMAIN bets]
    BY DEF Sound, TypeOK
  <2>6. CASE Trades
    <3>1. PICK k, r : Tried(k, j) /\ Trade(k, j, r) /\ TradeDone(k, j, r)
      BY <2>4, <2>6 DEF Trades, Tried
    <3>2. k # i
      <4> SUFFICES ASSUME k = i PROVE FALSE
        OBVIOUS
      <4>1. TradedWithEachOther(i, j)'
        BY <3>1 DEF TradedWithEachOther, TradeDone
      <4> QED BY <1>3, <4>1
    <3>3. bets'[j].status = "open"
      BY <1>3 DEF MayCross, OpenBets
    <3> QED BY <2>4, <2>5, <3>1, <3>2, <3>3 DEF Trade
  <2>7. CASE Skips
    <3>1. PICK k : /\ ~CanTrade(bets[k], bets[j])
                   /\ matching' = [matching EXCEPT !.candidates = @ \ {k}]
      BY <2>4, <2>7 DEF Skips, Tried
    <3>2. k # i
      BY <2>2, <3>1 DEF MayCross
    <3> QED BY <2>4, <2>5, <3>1, <3>2
  <2>8. CASE Rests
    BY <2>4, <2>8 DEF Rests
  <2>9. CASE Ends
    BY <2>4, <2>9 DEF Ends, Idle
  <2> QED BY <1>1, <1>6, <2>6, <2>7, <2>8, <2>9
<1> QED BY <1>5, <1>6

\* Between transactions no two open bets would still trade, except two that did.
THEOREM OpenBetsAreNotCrossed == Spec => []BookIsNotCrossed
<1>1. Init => NotCrossed
  BY DEF Init, NotCrossed, MayCross, OpenBets
<1>2. Sound /\ Sound' /\ NotCrossed /\ [Next]_vars => NotCrossed'
  BY NotCrossedStep
<1>3. NotCrossed => BookIsNotCrossed
  BY DEF NotCrossed, BookIsNotCrossed, MayCross, TradedWithEachOther, Idle
<1> QED BY <1>1, <1>2, <1>3, SpecIsSound, PTL DEF Spec

----------------------------------------------------------------------------
\* Conservation

Conserved == Sound /\ WagerIsAccounted

HeldOK ==
  /\ \A a \in Address : balances[a] \in Nat
  /\ \A i \in DOMAIN bets :
       bets[i] \in Bet /\ Wagers[i] = bets[i].wager_remaining /\ Wagers[i] \in Nat
  /\ \A m \in DOMAIN bet_matches : Escrows[m] = TotalEscrow(m) /\ Escrows[m] \in Nat
  /\ XcpHeld = SumFunctionOnSet(balances, Address) + SumFunctionOnSet(Wagers, OpenBets)
      + SumFunctionOnSet(Escrows, PendingMatches)
  /\ OpenBets \subseteq DOMAIN bets /\ PendingMatches \subseteq DOMAIN bet_matches
  /\ IsFiniteSet(Address) /\ IsFiniteSet(OpenBets) /\ IsFiniteSet(PendingMatches)
  /\ IsFiniteSet(DOMAIN bets) /\ IsFiniteSet(DOMAIN bet_matches)
  /\ SumFunctionOnSet(balances, Address) \in Int
  /\ SumFunctionOnSet(Wagers, OpenBets) \in Int
  /\ SumFunctionOnSet(Escrows, PendingMatches) \in Int

\* What is summed is finite, and natural numbers.
LEMMA HeldFacts == Sound => HeldOK
<1> SUFFICES ASSUME Sound PROVE HeldOK
  OBVIOUS
<1>0. TypeOK /\ MatchesOfBets
  BY DEF Sound
<1>1. \A a \in Address : balances[a] \in Nat
  BY <1>0 DEF TypeOK
<1>2. \A i \in DOMAIN bets : bets[i] \in Bet /\ Wagers[i] = bets[i].wager_remaining
                             /\ Wagers[i] \in Nat
  <2>1. \A i \in DOMAIN bets : bets[i] \in Bet
    BY <1>0 DEF TypeOK
  <2>2. \A b \in Bet : b.wager_remaining \in Nat
    BY DEF Bet
  <2> QED BY <2>1, <2>2 DEF Wagers
<1>3. \A m \in DOMAIN bet_matches : Escrows[m] = TotalEscrow(m) /\ Escrows[m] \in Nat
  BY <1>0, MatchFacts DEF Escrows
<1>4. OpenBets \subseteq DOMAIN bets /\ PendingMatches \subseteq DOMAIN bet_matches
  BY DEF OpenBets, PendingMatches
<1>5. /\ IsFiniteSet(Address) /\ IsFiniteSet(OpenBets) /\ IsFiniteSet(PendingMatches)
      /\ IsFiniteSet(DOMAIN bets) /\ IsFiniteSet(DOMAIN bet_matches)
  BY <1>0, <1>4, FiniteSets
<1>6. /\ SumFunctionOnSet(balances, Address) \in Int
      /\ SumFunctionOnSet(Wagers, OpenBets) \in Int
      /\ SumFunctionOnSet(Escrows, PendingMatches) \in Int
  <2>1. /\ \A a \in Address : balances[a] \in Int
        /\ \A i \in OpenBets : Wagers[i] \in Int
        /\ \A m \in PendingMatches : Escrows[m] \in Int
    BY <1>1, <1>2, <1>3, <1>4
  <2> QED BY <1>5, <2>1, SumType
<1>7. XcpHeld = SumFunctionOnSet(balances, Address) + SumFunctionOnSet(Wagers, OpenBets)
                + SumFunctionOnSet(Escrows, PendingMatches)
  BY DEF XcpHeld, Wagers, Escrows
<1> QED BY <1>1, <1>2, <1>3, <1>4, <1>5, <1>6, <1>7 DEF HeldOK

\* The same of the next state
LEMMA HeldFactsNext == Sound' => HeldOK'
  BY HeldFacts, PTL

\* XCP that leaves the escrow of S and M for the balances
LEMMA EndsConserves ==
  ASSUME Sound, Sound', NEW S \in SUBSET OpenBets, NEW M \in SUBSET PendingMatches, Ending(S, M)
  PROVE  XcpHeld' = XcpHeld
<1>1. /\ DOMAIN bets' = DOMAIN bets /\ DOMAIN bet_matches' = DOMAIN bet_matches
      /\ \A i \in DOMAIN bets :
           /\ bets'[i].wager_remaining = bets[i].wager_remaining
           /\ i \notin S => bets'[i].status = bets[i].status
           /\ i \in S => bets'[i].status # "open"
      /\ \A m \in DOMAIN bet_matches :
           /\ SameMatch(bet_matches[m], bet_matches'[m])
           /\ m \notin M => bet_matches'[m].status = bet_matches[m].status
           /\ m \in M => bet_matches'[m].status # "pending"
  BY DEF Ending, BetsEnd, MatchesEnd
<1>2. OpenBets' = OpenBets \ S /\ PendingMatches' = PendingMatches \ M
  BY <1>1 DEF OpenBets, PendingMatches
<1>3. /\ \A i \in DOMAIN bets : Wagers'[i] = Wagers[i] /\ Wagers[i] \in Int
      /\ \A m \in DOMAIN bet_matches : Escrows'[m] = Escrows[m] /\ Escrows[m] \in Int
  BY <1>1, HeldFacts DEF Wagers, Escrows, TotalEscrow, SameMatch, HeldOK
<1>4. /\ IsFiniteSet(S) /\ IsFiniteSet(OpenBets \ S)
      /\ IsFiniteSet(M) /\ IsFiniteSet(PendingMatches \ M)
  BY HeldFacts, FS_Subset, FS_Difference DEF HeldOK
<1>5. SumFunctionOnSet(Wagers, OpenBets)
        = SumFunctionOnSet(Wagers, S) + SumFunctionOnSet(Wagers', OpenBets')
  <2>1. \A i \in S \cup (OpenBets \ S) : Wagers[i] \in Int
    BY <1>3, HeldFacts DEF HeldOK
  <2>2. SumFunctionOnSet(Wagers, S \cup (OpenBets \ S))
          = SumFunctionOnSet(Wagers, S) + SumFunctionOnSet(Wagers, OpenBets \ S)
    BY <1>4, <2>1, SumUnion
  <2>3. S \cup (OpenBets \ S) = OpenBets
    OBVIOUS
  <2>4. \A i \in OpenBets \ S : Wagers[i] \in Int /\ Wagers'[i] = Wagers[i]
    BY <1>3, HeldFacts DEF HeldOK
  <2>5. SumFunctionOnSet(Wagers', OpenBets \ S) = SumFunctionOnSet(Wagers, OpenBets \ S)
    BY <1>4, <2>4, SumEqual
  <2> QED BY <1>2, <2>2, <2>3, <2>5
<1>6. SumFunctionOnSet(Escrows, PendingMatches)
        = SumFunctionOnSet(Escrows, M) + SumFunctionOnSet(Escrows', PendingMatches')
  <2>1. \A m \in M \cup (PendingMatches \ M) : Escrows[m] \in Int
    BY <1>3, HeldFacts DEF HeldOK
  <2>2. SumFunctionOnSet(Escrows, M \cup (PendingMatches \ M))
          = SumFunctionOnSet(Escrows, M) + SumFunctionOnSet(Escrows, PendingMatches \ M)
    BY <1>4, <2>1, SumUnion
  <2>3. M \cup (PendingMatches \ M) = PendingMatches
    OBVIOUS
  <2>4. \A m \in PendingMatches \ M : Escrows[m] \in Int /\ Escrows'[m] = Escrows[m]
    BY <1>3, HeldFacts DEF HeldOK
  <2>5. SumFunctionOnSet(Escrows', PendingMatches \ M) = SumFunctionOnSet(Escrows, PendingMatches \ M)
    BY <1>4, <2>4, SumEqual
  <2> QED BY <1>2, <2>2, <2>3, <2>5
<1>7. SumFunctionOnSet(balances', Address)
        = SumFunctionOnSet(balances, Address) + SumFunctionOnSet(Wagers, S)
          + SumFunctionOnSet(Escrows, M)
  BY DEF Ending
<1>8. /\ SumFunctionOnSet(Wagers, S) \in Int /\ SumFunctionOnSet(Escrows, M) \in Int
  <2>1. (\A i \in S : Wagers[i] \in Int) /\ \A m \in M : Escrows[m] \in Int
    BY <1>3, HeldFacts DEF HeldOK
  <2> QED BY <1>4, <2>1, SumType
<1>9. /\ XcpHeld = SumFunctionOnSet(balances, Address) + SumFunctionOnSet(Wagers, OpenBets)
                   + SumFunctionOnSet(Escrows, PendingMatches)
      /\ SumFunctionOnSet(balances, Address) \in Int
  BY HeldFacts DEF HeldOK
<1>10. /\ XcpHeld' = SumFunctionOnSet(balances', Address) + SumFunctionOnSet(Wagers', OpenBets')
                     + SumFunctionOnSet(Escrows', PendingMatches')
       /\ SumFunctionOnSet(Wagers', OpenBets') \in Int
       /\ SumFunctionOnSet(Escrows', PendingMatches') \in Int
  BY HeldFactsNext DEF HeldOK
<1> QED BY <1>5, <1>6, <1>7, <1>8, <1>9, <1>10

\* A wager leaves the balance of its source for the row of its bet.
LEMMA OpensConserves ==
  ASSUME Sound, Sound', NEW source \in Address, NEW f \in Feed, NEW m \in Messages,
         m.wager <= balances[source], BetOpened(source, f, m)
  PROVE  XcpHeld' = XcpHeld
<1> DEFINE n == Len(bets) + 1
           b == NewBet(source, f, m)
<1>1. /\ b.wager_remaining = m.wager /\ b.status = "open" /\ bets'[n] = b
      /\ DOMAIN bets' = DOMAIN bets \cup {n} /\ n \notin DOMAIN bets
      /\ \A i \in DOMAIN bets : bets'[i] = bets[i]
      /\ balances' = [balances EXCEPT ![source] = @ - m.wager]
      /\ bet_matches' = bet_matches
  BY DEF BetOpened
<1> HIDE DEF n, b
<1>2. HeldOK /\ HeldOK' /\ balances \in [Address -> Nat] /\ m.wager \in Nat
  BY HeldFacts, HeldFactsNext DEF Sound, TypeOK, Messages
<1>3. OpenBets' = OpenBets \cup {n} /\ PendingMatches' = PendingMatches /\ n \notin OpenBets
  BY <1>1 DEF OpenBets, PendingMatches
<1>4. SumFunctionOnSet(balances', Address) = SumFunctionOnSet(balances, Address) - m.wager
  <2>1. /\ \A a \in Address : balances[a] \in Int /\ balances'[a] \in Int
        /\ \A a \in Address : a # source => balances'[a] = balances[a]
        /\ balances'[source] - balances[source] = 0 - m.wager
    BY <1>1, <1>2
  <2>2. SumFunctionOnSet(balances', Address)
          = SumFunctionOnSet(balances, Address) + (balances'[source] - balances[source])
    <3>1. IsFiniteSet(Address)
      BY <1>2 DEF HeldOK
    <3> QED BY <2>1, <3>1, SumChange
  <2> QED BY <1>2, <2>1, <2>2 DEF HeldOK
<1>5. SumFunctionOnSet(Wagers', OpenBets') = SumFunctionOnSet(Wagers, OpenBets) + m.wager
  <2>1. \A i \in OpenBets : Wagers[i] \in Int /\ Wagers'[i] = Wagers[i]
    BY <1>1, <1>2 DEF HeldOK, Wagers
  <2>2. Wagers'[n] = m.wager
    BY <1>1 DEF Wagers
  <2>3. SumFunctionOnSet(Wagers', OpenBets) = SumFunctionOnSet(Wagers, OpenBets)
    BY <1>2, <2>1, SumEqual DEF HeldOK
  <2>4. \A i \in OpenBets \cup {n} : Wagers'[i] \in Int
    BY <1>2, <2>1, <2>2
  <2>5. SumFunctionOnSet(Wagers', OpenBets \cup {n}) = SumFunctionOnSet(Wagers', OpenBets) + Wagers'[n]
    BY <1>2, <1>3, <2>4, SumInsert DEF HeldOK
  <2> QED BY <1>3, <2>2, <2>3, <2>5
<1>6. Escrows' = Escrows
  BY <1>1 DEF Escrows, TotalEscrow
<1> QED BY <1>2, <1>3, <1>4, <1>5, <1>6 DEF HeldOK

\* A trade moves XCP from its bets to the match, and gives back what is left of a bet
\* that it fills.
LEMMA TradesConserves ==
  ASSUME Sound, Sound', NEW i, NEW j, NEW r, Tried(i, j), Trade(i, j, r), TradeDone(i, j, r)
  PROVE  XcpHeld' = XcpHeld
<1> DEFINE F == r.forward_quantity
           B == r.backward_quantity
           n == Len(bet_matches) + 1
           back == {k \in {i, j} : bets'[k].status = "filled"}
           x == IF i \in back THEN Wagers'[i] ELSE 0
           y == IF j \in back THEN Wagers'[j] ELSE 0
           f == [a \in Address |-> Leftover(bets'[i], a)]
           g == [a \in Address |-> Leftover(bets'[j], a)]
           h == [a \in Address |-> f[a] + g[a]]
<1>1. /\ F \in Nat /\ B \in Nat /\ DOMAIN bets' = DOMAIN bets
      /\ \A k \in DOMAIN bets \ {i, j} : bets'[k] = bets[k]
      /\ bets'[i].wager_remaining = bets[i].wager_remaining - F
      /\ bets'[j].wager_remaining = bets[j].wager_remaining - B
      /\ bets'[i].status \in {"open", "filled"} /\ bets'[j].status \in {"open", "filled"}
      /\ DOMAIN bet_matches' = DOMAIN bet_matches \cup {n} /\ n \notin DOMAIN bet_matches
      /\ bet_matches'[n] = r /\ r.status = "pending"
      /\ \A m \in DOMAIN bet_matches : bet_matches'[m] = bet_matches[m]
  BY DEF TradeDone
<1>2. HeldOK /\ HeldOK'
  BY HeldFacts, HeldFactsNext
<1>3. /\ i \in OpenBets /\ j \in OpenBets /\ i # j /\ i \in DOMAIN bets /\ j \in DOMAIN bets
      /\ bets'[i] \in Bet /\ bets'[j] \in Bet
  <2>1. i \in OpenBets /\ j \in OpenBets /\ i < j /\ i \in DOMAIN bets /\ j \in DOMAIN bets
    BY OpenAreBets DEF Tried
  <2>2. i \in Nat /\ j \in Nat
    BY <2>1 DEF Sound, TypeOK
  <2> QED BY <1>1, <1>2, <2>1, <2>2 DEF HeldOK
<1>4. balances' = [a \in Address |-> balances[a] + Leftover(bets'[i], a) + Leftover(bets'[j], a)]
  BY DEF Trade
<1>5. OpenBets' = OpenBets \ back /\ PendingMatches' = PendingMatches \cup {n}
      /\ n \notin PendingMatches
  BY <1>1, <1>3 DEF OpenBets, PendingMatches
<1>6. /\ \A k \in DOMAIN bets : Wagers[k] \in Nat /\ Wagers'[k] \in Nat
      /\ \A k \in DOMAIN bets : k # i /\ k # j => Wagers'[k] = Wagers[k]
      /\ Wagers'[i] = Wagers[i] - F /\ Wagers'[j] = Wagers[j] - B
  <2>1. \A k \in DOMAIN bets : Wagers[k] \in Nat /\ Wagers'[k] \in Nat
    BY <1>1, <1>2 DEF HeldOK
  <2>2. \A k \in DOMAIN bets : Wagers'[k] = bets'[k].wager_remaining /\ Wagers[k] = bets[k].wager_remaining
    BY <1>1 DEF Wagers
  <2> QED BY <1>1, <1>3, <2>1, <2>2
<1>7. x \in Nat /\ y \in Nat
  BY <1>3, <1>6
<1>8. SumFunctionOnSet(Wagers', OpenBets) = SumFunctionOnSet(Wagers, OpenBets) - F - B
  <2> DEFINE v == [k \in OpenBets |-> IF k = j THEN Wagers[j] ELSE Wagers'[k]]
  <2>1. /\ \A k \in OpenBets : Wagers[k] \in Int /\ v[k] \in Int /\ Wagers'[k] \in Int
        /\ \A k \in OpenBets : k # i => v[k] = Wagers[k]
        /\ \A k \in OpenBets : k # j => Wagers'[k] = v[k]
        /\ v[i] = Wagers[i] - F /\ v[j] = Wagers[j]
    BY <1>2, <1>3, <1>6 DEF HeldOK
  <2> HIDE DEF v
  <2>2. IsFiniteSet(OpenBets)
    BY <1>2 DEF HeldOK
  <2>3. SumFunctionOnSet(v, OpenBets) = SumFunctionOnSet(Wagers, OpenBets) + (v[i] - Wagers[i])
    BY <1>3, <2>1, <2>2, SumChange
  <2>4. SumFunctionOnSet(Wagers', OpenBets) = SumFunctionOnSet(v, OpenBets) + (Wagers'[j] - v[j])
    BY <1>3, <2>1, <2>2, SumChange
  <2>5. SumFunctionOnSet(Wagers, OpenBets) \in Int /\ Wagers[i] \in Int /\ Wagers[j] \in Int
    BY <1>2, <1>3, <1>6 DEF HeldOK
  <2> HIDE DEF F, B
  <2>6. F \in Int /\ B \in Int
    BY <1>1
  <2> QED BY <1>6, <2>1, <2>3, <2>4, <2>5, <2>6
<1>9. SumFunctionOnSet(Wagers', OpenBets) = SumFunctionOnSet(Wagers', OpenBets') + x + y
  <2>1. back \subseteq OpenBets /\ IsFiniteSet(OpenBets) /\ IsFiniteSet(back)
        /\ IsFiniteSet(OpenBets \ back)
    <3>1. back \subseteq OpenBets /\ IsFiniteSet(OpenBets)
      BY <1>2, <1>3 DEF HeldOK
    <3> HIDE DEF back
    <3> QED BY <3>1, FS_Subset, FS_Difference
  <2>2. \A k \in OpenBets : Wagers'[k] \in Int
    BY <1>2, <1>6 DEF HeldOK
  <2>3. SumFunctionOnSet(Wagers', OpenBets)
          = SumFunctionOnSet(Wagers', back) + SumFunctionOnSet(Wagers', OpenBets \ back)
    <3> HIDE DEF back
    <3>1. back \cup (OpenBets \ back) = OpenBets /\ back \cap (OpenBets \ back) = {}
      BY <2>1
    <3>2. \A k \in back \cup (OpenBets \ back) : Wagers'[k] \in Int
      BY <2>2, <3>1
    <3>3. SumFunctionOnSet(Wagers', back \cup (OpenBets \ back))
          = SumFunctionOnSet(Wagers', back) + SumFunctionOnSet(Wagers', OpenBets \ back)
      BY <2>1, <3>1, <3>2, SumUnion
    <3> QED BY <3>1, <3>3
  <2>4. SumFunctionOnSet(Wagers', back) = x + y
    <3> DEFINE one == back \ {j}
    <3>1. SumFunctionOnSet(Wagers', one) = x
      <4>1. CASE i \in back
        <5>1. one = {} \cup {i} /\ i \notin {}
          BY <1>3, <4>1
        <5>2. SumFunctionOnSet(Wagers', {} \cup {i}) = SumFunctionOnSet(Wagers', {}) + Wagers'[i]
          <6>1. IsFiniteSet({}) /\ \A k \in {} \cup {i} : Wagers'[k] \in Int
            BY <1>3, <2>2, FS_EmptySet
          <6> QED BY <6>1, SumInsert
        <5>3. SumFunctionOnSet(Wagers', {}) = 0
          BY SumEmpty
        <5> HIDE DEF one
        <5> QED BY <1>3, <1>6, <4>1, <5>1, <5>2, <5>3
      <4>2. CASE i \notin back
        <5>1. one = {} /\ x = 0
          BY <4>2
        <5> HIDE DEF one
        <5> QED BY <5>1, SumEmpty
      <4> QED BY <4>1, <4>2
    <3>2. IsFiniteSet(one) /\ \A k \in back : Wagers'[k] \in Int
      BY <2>1, <2>2, FS_Subset
    <3>3. CASE j \in back
      <4>1. back = one \cup {j} /\ j \notin one
        BY <3>3
      <4> HIDE DEF one
      <4>2. SumFunctionOnSet(Wagers', one \cup {j}) = SumFunctionOnSet(Wagers', one) + Wagers'[j]
        <5>1. \A k \in one \cup {j} : Wagers'[k] \in Int
          BY <3>2, <4>1
        <5> QED BY <3>2, <4>1, <5>1, SumInsert
      <4> QED BY <3>1, <3>3, <4>1, <4>2
    <3>4. CASE j \notin back
      <4>1. back = one /\ y = 0
        BY <3>4
      <4> HIDE DEF one, x, y, back
      <4>2. x \in Int
        BY <1>7
      <4> QED BY <3>1, <4>1, <4>2
    <3> QED BY <3>3, <3>4
  <2>5. SumFunctionOnSet(Wagers', OpenBets \ back) \in Int
    <3>1. \A k \in OpenBets \ back : Wagers'[k] \in Int
      BY <2>2
    <3> HIDE DEF back
    <3> QED BY <2>1, <3>1, SumType
  <2> QED BY <1>5, <1>7, <2>3, <2>4, <2>5
<1>10. SumFunctionOnSet(balances', Address) = SumFunctionOnSet(balances, Address) + x + y
  <2>1. /\ bets'[i].source \in Address /\ bets'[j].source \in Address
        /\ Wagers'[i] = bets'[i].wager_remaining /\ Wagers'[j] = bets'[j].wager_remaining
    BY <1>1, <1>3 DEF Bet, Wagers
  <2>2. \A a \in Address : f[a] \in Nat /\ g[a] \in Nat
    BY <1>3, LeftoverFacts
  <2>3. /\ f[bets'[i].source] = x /\ g[bets'[j].source] = y
        /\ \A a \in Address : a # bets'[i].source => f[a] = 0
        /\ \A a \in Address : a # bets'[j].source => g[a] = 0
    BY <1>1, <1>3, <2>1, LeftoverFacts
  <2>4. \A a \in Address : h[a] = f[a] + g[a] /\ h[a] \in Int
    BY <2>2
  <2>5. \A a \in Address : balances'[a] = balances[a] + h[a]
    BY <1>2, <1>4, <2>2, <2>4 DEF HeldOK
  <2> HIDE DEF f, g, h
  <2>6. SumFunctionOnSet(f, Address) = x
    BY <1>2, <1>7, <2>1, <2>3, SumSingle DEF HeldOK
  <2>7. SumFunctionOnSet(g, Address) = y
    BY <1>2, <1>7, <2>1, <2>3, SumSingle DEF HeldOK
  <2>8. SumFunctionOnSet(h, Address) = SumFunctionOnSet(f, Address) + SumFunctionOnSet(g, Address)
    BY <1>2, <2>2, <2>4, SumPlus DEF HeldOK
  <2>9. SumFunctionOnSet(balances', Address)
          = SumFunctionOnSet(balances, Address) + SumFunctionOnSet(h, Address)
    <3>1. \A a \in Address : balances[a] \in Int /\ h[a] \in Int /\ balances'[a] = balances[a] + h[a]
      BY <1>2, <2>4, <2>5 DEF HeldOK
    <3> QED BY <1>2, <3>1, SumPlus DEF HeldOK
  <2> HIDE DEF x, y
  <2> QED BY <1>2, <1>7, <2>6, <2>7, <2>8, <2>9 DEF HeldOK
<1>11. SumFunctionOnSet(Escrows', PendingMatches')
         = SumFunctionOnSet(Escrows, PendingMatches) + F + B
  <2>1. \A m \in PendingMatches : Escrows[m] \in Int /\ Escrows'[m] = Escrows[m]
    BY <1>1, <1>2 DEF HeldOK, Escrows, TotalEscrow
  <2>2. Escrows'[n] = F + B
    BY <1>1 DEF Escrows, TotalEscrow
  <2>3. IsFiniteSet(PendingMatches) /\ SumFunctionOnSet(Escrows, PendingMatches) \in Int
    BY <1>2 DEF HeldOK
  <2>4. SumFunctionOnSet(Escrows', PendingMatches) = SumFunctionOnSet(Escrows, PendingMatches)
    BY <2>1, <2>3, SumEqual
  <2>5. \A m \in PendingMatches \cup {n} : Escrows'[m] \in Int
    BY <1>1, <2>1, <2>2
  <2> HIDE DEF n, F, B
  <2>6. SumFunctionOnSet(Escrows', PendingMatches \cup {n})
          = SumFunctionOnSet(Escrows', PendingMatches) + Escrows'[n]
    BY <1>5, <2>3, <2>5, SumInsert
  <2> QED BY <1>1, <1>5, <2>2, <2>3, <2>4, <2>6
<1>12. /\ XcpHeld = SumFunctionOnSet(balances, Address) + SumFunctionOnSet(Wagers, OpenBets)
                    + SumFunctionOnSet(Escrows, PendingMatches)
       /\ SumFunctionOnSet(balances, Address) \in Int /\ SumFunctionOnSet(Wagers, OpenBets) \in Int
       /\ SumFunctionOnSet(Escrows, PendingMatches) \in Int
       /\ SumFunctionOnSet(Wagers', OpenBets') \in Int
  BY <1>2 DEF HeldOK
<1>13. XcpHeld' = SumFunctionOnSet(balances', Address) + SumFunctionOnSet(Wagers', OpenBets')
                    + SumFunctionOnSet(Escrows', PendingMatches')
  BY <1>2 DEF HeldOK
<1>14. F \in Int /\ B \in Int /\ x \in Int /\ y \in Int
  BY <1>1, <1>7
<1> HIDE DEF x, y, F, B
<1> QED BY <1>8, <1>9, <1>10, <1>11, <1>12, <1>13, <1>14

----------------------------------------------------------------------------
\* What the matches of a bet stake for it

FirstStakes == [m \in DOMAIN bet_matches |-> bet_matches[m].forward_quantity]
SecondStakes == [m \in DOMAIN bet_matches |-> bet_matches[m].backward_quantity]
MatchesAsFirst(i) == {m \in DOMAIN bet_matches : bet_matches[m].tx0 = i}
MatchesAsSecond(i) == {m \in DOMAIN bet_matches : bet_matches[m].tx1 = i}

StakesOK ==
  /\ \A m \in DOMAIN bet_matches : FirstStakes[m] \in Nat /\ SecondStakes[m] \in Nat
  /\ \A i : /\ StakedFirst(i) = SumFunctionOnSet(FirstStakes, MatchesAsFirst(i))
            /\ StakedSecond(i) = SumFunctionOnSet(SecondStakes, MatchesAsSecond(i))
            /\ MatchesAsFirst(i) \subseteq DOMAIN bet_matches
            /\ MatchesAsSecond(i) \subseteq DOMAIN bet_matches
            /\ IsFiniteSet(MatchesAsFirst(i)) /\ IsFiniteSet(MatchesAsSecond(i))
            /\ StakedFirst(i) \in Nat /\ StakedSecond(i) \in Nat

\* The stakes of a bet are sums of natural numbers over finite sets.
LEMMA StakesFacts == Sound => StakesOK
<1> SUFFICES ASSUME Sound PROVE StakesOK
  OBVIOUS
<1>1. \A m \in DOMAIN bet_matches : FirstStakes[m] \in Nat /\ SecondStakes[m] \in Nat
  BY MatchFacts DEF FirstStakes, SecondStakes, Sound
<1>2. ASSUME NEW i
      PROVE  /\ StakedFirst(i) = SumFunctionOnSet(FirstStakes, MatchesAsFirst(i))
             /\ StakedSecond(i) = SumFunctionOnSet(SecondStakes, MatchesAsSecond(i))
             /\ MatchesAsFirst(i) \subseteq DOMAIN bet_matches
             /\ MatchesAsSecond(i) \subseteq DOMAIN bet_matches
             /\ IsFiniteSet(MatchesAsFirst(i)) /\ IsFiniteSet(MatchesAsSecond(i))
             /\ StakedFirst(i) \in Nat /\ StakedSecond(i) \in Nat
  <2>1. /\ StakedFirst(i) = SumFunctionOnSet(FirstStakes, MatchesAsFirst(i))
        /\ StakedSecond(i) = SumFunctionOnSet(SecondStakes, MatchesAsSecond(i))
    BY DEF StakedFirst, StakedSecond, FirstStakes, SecondStakes, MatchesAsFirst, MatchesAsSecond
  <2>2. /\ MatchesAsFirst(i) \subseteq DOMAIN bet_matches
        /\ MatchesAsSecond(i) \subseteq DOMAIN bet_matches
    BY DEF MatchesAsFirst, MatchesAsSecond
  <2>3. IsFiniteSet(MatchesAsFirst(i)) /\ IsFiniteSet(MatchesAsSecond(i))
    BY <2>2, FiniteSets DEF Sound
  <2>4. SumFunctionOnSet(FirstStakes, MatchesAsFirst(i)) \in Nat
    BY <1>1, <2>2, <2>3, SumNat
  <2>5. SumFunctionOnSet(SecondStakes, MatchesAsSecond(i)) \in Nat
    BY <1>1, <2>2, <2>3, SumNat
  <2> QED BY <2>1, <2>2, <2>3, <2>4, <2>5
<1> QED BY <1>1, <1>2 DEF StakesOK

\* The same of the next state
LEMMA StakesFactsNext == Sound' => StakesOK'
  BY StakesFacts, PTL

\* Steps that make no match leave the stakes of every bet.
LEMMA StakesAreKept ==
  ASSUME Sound, Sound', RowsAreKept, DOMAIN bet_matches' = DOMAIN bet_matches, NEW i
  PROVE  StakedFirst(i)' = StakedFirst(i) /\ StakedSecond(i)' = StakedSecond(i)
<1>0. StakesOK /\ StakesOK'
  BY StakesFacts, StakesFactsNext
<1>1. \A m \in DOMAIN bet_matches : SameMatch(bet_matches[m], bet_matches'[m])
  BY DEF RowsAreKept
<1>2. MatchesAsFirst(i)' = MatchesAsFirst(i) /\ MatchesAsSecond(i)' = MatchesAsSecond(i)
  BY <1>1 DEF MatchesAsFirst, MatchesAsSecond, SameMatch
<1>3. \A m \in DOMAIN bet_matches :
        FirstStakes'[m] = FirstStakes[m] /\ SecondStakes'[m] = SecondStakes[m]
  BY <1>1 DEF FirstStakes, SecondStakes, SameMatch
<1>4. /\ MatchesAsFirst(i) \subseteq DOMAIN bet_matches /\ IsFiniteSet(MatchesAsFirst(i))
      /\ MatchesAsSecond(i) \subseteq DOMAIN bet_matches /\ IsFiniteSet(MatchesAsSecond(i))
      /\ \A m \in DOMAIN bet_matches : FirstStakes[m] \in Int /\ SecondStakes[m] \in Int
  BY <1>0 DEF StakesOK
<1>5. SumFunctionOnSet(FirstStakes', MatchesAsFirst(i)) = SumFunctionOnSet(FirstStakes, MatchesAsFirst(i))
  BY <1>3, <1>4, SumEqual
<1>6. SumFunctionOnSet(SecondStakes', MatchesAsSecond(i))
        = SumFunctionOnSet(SecondStakes, MatchesAsSecond(i))
  BY <1>3, <1>4, SumEqual
<1>7. /\ StakedFirst(i) = SumFunctionOnSet(FirstStakes, MatchesAsFirst(i))
      /\ StakedSecond(i) = SumFunctionOnSet(SecondStakes, MatchesAsSecond(i))
      /\ StakedFirst(i)' = SumFunctionOnSet(FirstStakes', MatchesAsFirst(i)')
      /\ StakedSecond(i)' = SumFunctionOnSet(SecondStakes', MatchesAsSecond(i)')
  BY <1>0 DEF StakesOK
<1> QED BY <1>2, <1>5, <1>6, <1>7

\* A new match adds its stakes to its bets, and to no other.
LEMMA StakesAreAdded ==
  ASSUME Sound, Sound', NEW i, NEW j, NEW r, TradeDone(i, j, r), NEW k
  PROVE  /\ StakedFirst(k)' = StakedFirst(k) + (IF k = i THEN r.forward_quantity ELSE 0)
         /\ StakedSecond(k)' = StakedSecond(k) + (IF k = j THEN r.backward_quantity ELSE 0)
<1> DEFINE n == Len(bet_matches) + 1
           F == r.forward_quantity
           B == r.backward_quantity
           X == MatchesAsFirst(k)
           Y == MatchesAsSecond(k)
<1>0. StakesOK /\ StakesOK'
  BY StakesFacts, StakesFactsNext
<1>1. /\ r.tx0 = i /\ r.tx1 = j /\ F \in Nat /\ B \in Nat
      /\ DOMAIN bet_matches' = DOMAIN bet_matches \cup {n} /\ n \notin DOMAIN bet_matches
      /\ bet_matches'[n] = r
      /\ \A m \in DOMAIN bet_matches : bet_matches'[m] = bet_matches[m]
  BY DEF TradeDone
<1>2. /\ StakedFirst(k) = SumFunctionOnSet(FirstStakes, X) /\ StakedFirst(k) \in Int
      /\ StakedSecond(k) = SumFunctionOnSet(SecondStakes, Y) /\ StakedSecond(k) \in Int
      /\ StakedFirst(k)' = SumFunctionOnSet(FirstStakes', X')
      /\ StakedSecond(k)' = SumFunctionOnSet(SecondStakes', Y')
      /\ X \subseteq DOMAIN bet_matches /\ Y \subseteq DOMAIN bet_matches
      /\ IsFiniteSet(X) /\ IsFiniteSet(Y)
      /\ \A m \in DOMAIN bet_matches : FirstStakes[m] \in Int /\ SecondStakes[m] \in Int
  BY <1>0 DEF StakesOK
<1>3. /\ X' = IF k = i THEN X \cup {n} ELSE X
      /\ Y' = IF k = j THEN Y \cup {n} ELSE Y
  BY <1>1 DEF MatchesAsFirst, MatchesAsSecond
<1>4. /\ \A m \in DOMAIN bet_matches :
           FirstStakes'[m] = FirstStakes[m] /\ SecondStakes'[m] = SecondStakes[m]
      /\ FirstStakes'[n] = F /\ SecondStakes'[n] = B
  BY <1>1 DEF FirstStakes, SecondStakes
<1> HIDE DEF n, F, B, X, Y
<1>5. SumFunctionOnSet(FirstStakes', X) = SumFunctionOnSet(FirstStakes, X)
  BY <1>2, <1>4, SumEqual
<1>6. SumFunctionOnSet(SecondStakes', Y) = SumFunctionOnSet(SecondStakes, Y)
  BY <1>2, <1>4, SumEqual
<1>7. SumFunctionOnSet(FirstStakes', X \cup {n}) = SumFunctionOnSet(FirstStakes', X) + F
  <2>1. n \notin X /\ \A m \in X \cup {n} : FirstStakes'[m] \in Int
    BY <1>1, <1>2, <1>4
  <2>2. SumFunctionOnSet(FirstStakes', X \cup {n}) = SumFunctionOnSet(FirstStakes', X) + FirstStakes'[n]
    BY <1>2, <2>1, SumInsert
  <2> QED BY <1>4, <2>2
<1>8. SumFunctionOnSet(SecondStakes', Y \cup {n}) = SumFunctionOnSet(SecondStakes', Y) + B
  <2>1. n \notin Y /\ \A m \in Y \cup {n} : SecondStakes'[m] \in Int
    BY <1>1, <1>2, <1>4
  <2>2. SumFunctionOnSet(SecondStakes', Y \cup {n})
          = SumFunctionOnSet(SecondStakes', Y) + SecondStakes'[n]
    BY <1>2, <2>1, SumInsert
  <2> QED BY <1>4, <2>2
<1>9. StakedFirst(k)' = StakedFirst(k) + (IF k = i THEN F ELSE 0)
  <2>1. CASE k = i
    BY <1>2, <1>3, <1>5, <1>7, <2>1
  <2>2. CASE k # i
    BY <1>2, <1>3, <1>5, <2>2
  <2> QED BY <2>1, <2>2
<1>10. StakedSecond(k)' = StakedSecond(k) + (IF k = j THEN B ELSE 0)
  <2>1. CASE k = j
    BY <1>2, <1>3, <1>6, <1>8, <2>1
  <2>2. CASE k # j
    BY <1>2, <1>3, <1>6, <2>2
  <2> QED BY <2>1, <2>2
<1> QED BY <1>9, <1>10 DEF F, B

Accounted ==
  \A i \in DOMAIN bets :
    bets[i].wager_quantity = bets[i].wager_remaining + StakedFirst(i) + StakedSecond(i)

\* Every step keeps the account of every wager.
LEMMA AccountedStep ==
  ASSUME Sound, Sound', Accounted, [Next]_vars
  PROVE  Accounted'
<1>1. Opens \/ Trades \/ Skips \/ Rests \/ Ends
  BY StepKinds
<1>2. RowsAreKept
  BY <1>1, StepKeepsRows
<1>3. StakesOK /\ StakesOK'
  BY StakesFacts, StakesFactsNext
<1> SUFFICES ASSUME NEW i \in DOMAIN bets'
             PROVE  bets'[i].wager_quantity
                      = bets'[i].wager_remaining + StakedFirst(i)' + StakedSecond(i)'
  BY DEF Accounted
<1>4. CASE Opens
  <2>1. PICK source \in Address, f \in Feed, m \in Messages : BetOpened(source, f, m)
    BY <1>4 DEF Opens
  <2>2. DOMAIN bet_matches' = DOMAIN bet_matches
    BY <2>1 DEF BetOpened
  <2>3. StakedFirst(i)' = StakedFirst(i) /\ StakedSecond(i)' = StakedSecond(i)
    BY <1>2, <2>2, StakesAreKept
  <2>4. CASE i \in DOMAIN bets
    BY <2>1, <2>3, <2>4 DEF BetOpened, Accounted
  <2>5. CASE i \notin DOMAIN bets
    <3>1. /\ bets'[i].wager_quantity = m.wager /\ bets'[i].wager_remaining = m.wager
          /\ m.wager \in Nat
      BY <2>1, <2>5 DEF BetOpened, Messages
    <3>2. MatchesAsFirst(i) = {} /\ MatchesAsSecond(i) = {}
      BY <2>5 DEF MatchesAsFirst, MatchesAsSecond, Sound, MatchesOfBets
    <3>3. StakedFirst(i) = 0 /\ StakedSecond(i) = 0
      BY <1>3, <3>2, SumEmpty DEF StakesOK
    <3> QED BY <2>3, <3>1, <3>3
  <2> QED BY <2>4, <2>5
<1>5. CASE Trades
  <2>1. PICK x, y, r : Tried(x, y) /\ TradeDone(x, y, r)
    BY <1>5 DEF Trades
  <2>2. /\ StakedFirst(i)' = StakedFirst(i) + (IF i = x THEN r.forward_quantity ELSE 0)
        /\ StakedSecond(i)' = StakedSecond(i) + (IF i = y THEN r.backward_quantity ELSE 0)
    BY <2>1, StakesAreAdded
  <2>3. /\ DOMAIN bets' = DOMAIN bets /\ SameTerms(bets[i], bets'[i])
        /\ i \notin {x, y} => bets'[i] = bets[i]
        /\ bets'[x].wager_remaining = bets[x].wager_remaining - r.forward_quantity
        /\ bets'[y].wager_remaining = bets[y].wager_remaining - r.backward_quantity
        /\ r.forward_quantity \in Nat /\ r.backward_quantity \in Nat
    BY <2>1 DEF TradeDone
  <2>4. x # y
    BY <2>1, OpenAreBets DEF Tried, Sound, TypeOK
  <2>5. bets[i].wager_quantity = bets[i].wager_remaining + StakedFirst(i) + StakedSecond(i)
    BY <2>3 DEF Accounted
  <2>6. /\ bets[i].wager_remaining \in Int /\ StakedFirst(i) \in Int /\ StakedSecond(i) \in Int
        /\ bets'[i].wager_quantity = bets[i].wager_quantity
    <3>1. bets[i] \in Bet
      BY <2>3 DEF Sound, TypeOK
    <3> QED BY <1>3, <2>3, <3>1 DEF StakesOK, SameTerms, Bet
  <2>7. CASE i = x
    BY <2>2, <2>3, <2>4, <2>5, <2>6, <2>7
  <2>8. CASE i = y
    BY <2>2, <2>3, <2>4, <2>5, <2>6, <2>8
  <2>9. CASE i \notin {x, y}
    BY <2>2, <2>3, <2>5, <2>6, <2>9
  <2> QED BY <2>7, <2>8, <2>9
<1>6. CASE Skips \/ Rests \/ Ends
  <2>1. /\ DOMAIN bets' = DOMAIN bets /\ DOMAIN bet_matches' = DOMAIN bet_matches
        /\ bets'[i].wager_remaining = bets[i].wager_remaining
    BY <1>6 DEF Skips, Rests, Ends, Ending, BetsEnd, MatchesEnd
  <2>2. StakedFirst(i)' = StakedFirst(i) /\ StakedSecond(i)' = StakedSecond(i)
    BY <1>2, <2>1, StakesAreKept
  <2> QED BY <1>2, <2>1, <2>2 DEF Accounted, RowsAreKept, SameTerms
<1> QED BY <1>1, <1>4, <1>5, <1>6

\* Every step conserves the XCP that is held.
LEMMA ConservedStep ==
  ASSUME Sound, Sound', [Next]_vars
  PROVE  XcpHeld' = XcpHeld
<1>1. Opens \/ Trades \/ Skips \/ Rests \/ Ends
  BY StepKinds
<1>2. CASE Opens
  BY <1>2, OpensConserves DEF Opens
<1>3. CASE Trades
  BY <1>3, TradesConserves DEF Trades
<1>4. CASE Skips \/ Rests
  <2>1. UNCHANGED <<balances, bets, bet_matches>>
    BY <1>4 DEF Skips, Rests
  <2> QED BY <2>1 DEF XcpHeld, OpenBets, PendingMatches, TotalEscrow
<1>5. CASE Ends
  BY <1>5, EndsConserves DEF Ends
<1> QED BY <1>1, <1>2, <1>3, <1>4, <1>5

\* Nothing of a wager is lost or paid twice, whichever way its bets and matches end: what
\* a bet wagered is what its matches staked and what is left, and XCP is conserved.
THEOREM WagersAreAccounted == Spec => []WagerIsAccounted
<1>1. Init => XcpConservation /\ Accounted
  <2> SUFFICES ASSUME Init PROVE XcpConservation /\ Accounted
    OBVIOUS
  <2>1. Accounted
    BY DEF Init, Accounted
  <2>2. OpenBets = {} /\ PendingMatches = {}
    BY DEF Init, OpenBets, PendingMatches
  <2>3. HeldOK
    BY SoundInit, HeldFacts
  <2>4. SumFunctionOnSet(Wagers, {}) = 0 /\ SumFunctionOnSet(Escrows, {}) = 0
    BY SumEmpty
  <2>5. SumFunctionOnSet(balances, Address) \in Int /\ balances = Funds
    BY <2>3 DEF HeldOK, Init
  <2>6. XcpHeld = SumFunctionOnSet(balances, Address)
    BY <2>2, <2>3, <2>4, <2>5 DEF HeldOK
  <2> QED BY <2>1, <2>5, <2>6 DEF XcpConservation
<1>2. Sound /\ Sound' /\ XcpConservation /\ Accounted /\ [Next]_vars
        => (XcpConservation /\ Accounted)'
  <2>1. Sound /\ Sound' /\ XcpConservation /\ [Next]_vars => XcpConservation'
    BY ConservedStep DEF XcpConservation
  <2> QED BY <2>1, AccountedStep
<1>3. XcpConservation /\ Accounted => WagerIsAccounted
  BY DEF Accounted, WagerIsAccounted
<1> QED BY <1>1, <1>2, <1>3, SpecIsSound, PTL DEF Spec
===============================================================================
