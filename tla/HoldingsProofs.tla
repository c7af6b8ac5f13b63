--------------------------- MODULE HoldingsProofs ---------------------------
(***************************************************************************)
(* Theorems about Holdings, for any addresses, assets, funds, messages,    *)
(* fees and chains of transactions: type correctness, with no balance      *)
(* overdrawn; who pays; the completeness of the cache of outputs with a    *)
(* balance; and that nothing is left behind on a spent output.             *)
(*                                                                         *)
(* The inductive invariant is Sound: types, and what the transactions that *)
(* are listed refer to.  CacheOK, and then SpentOK and OpReturnOK, are     *)
(* inductive beside it.  Every way to parse a transaction is reduced to    *)
(* Effect: from whom it takes, to whom it gives, and that its sources are  *)
(* emptied.                                                                *)
(***************************************************************************)
EXTENDS Holdings, SumTheorems, TLAPS

\* A transaction as GetTxInfo records it
Records ==
  [tx : Nat, message : Messages, outs : Seq(Address \cup {OpReturn}), inputs : SUBSET Utxo,
   sources : SUBSET Utxo, source : Address \cup {Nobody}, destination : Utxo \cup {Nobody}]

\* What is listed is of this block, and refers to outputs that there are: its inputs are
\* spent, and older; the destination is one of its own outputs.
OutsAreOwned(tx) ==
  \A n \in DOMAIN tx.outs : <<tx.tx, n - 1>> \in DOMAIN owner
                            /\ owner[<<tx.tx, n - 1>>] = tx.outs[n]
InputsAreOlder(tx) ==
  \A u \in tx.inputs : u \in DOMAIN owner \ unspent /\ u[1] < tx.tx /\ owner[u] \in Address
DestinationIsOwn(tx) ==
  tx.destination # Nobody =>
    \E n \in DOMAIN tx.outs : tx.destination = <<tx.tx, n - 1>> /\ tx.outs[n] # OpReturn
TxOK(tx) ==
  /\ tx.tx \in first..txs /\ Len(tx.outs) \in 1..3
  /\ tx.sources \subseteq tx.inputs
  /\ tx.message.kind # "none" => tx.source \in Address
  /\ tx.message.kind = "mpma" => IsFiniteSet(tx.message.sends)
  /\ OutsAreOwned(tx) /\ InputsAreOlder(tx) /\ DestinationIsOwn(tx)
ListedOK ==
  /\ listed \in Seq(Records)
  /\ \A k \in DOMAIN listed : TxOK(listed[k])
  /\ \A j, k \in DOMAIN listed : j < k => listed[j].tx < listed[k].tx

\* The outputs of the chain
ChainOK ==
  /\ txs \in 0..MaxTxs /\ first \in 1..(txs + 1)
  /\ DOMAIN owner \subseteq Utxo /\ \A u \in DOMAIN owner : u[1] <= txs
  /\ \A u \in DOMAIN owner : owner[u] \in Address \cup {OpReturn}
  /\ unspent \subseteq DOMAIN owner

\* Rows of balances, which outputs have only when there are such
RowsOK(b) ==
  /\ DOMAIN b = Holder
  /\ \A h \in Holder : DOMAIN b[h] \subseteq Asset /\ \A s \in DOMAIN b[h] : b[h][s] \in Nat
RowsOfOutputs(b) == RowsOfUtxos(b) \subseteq DOMAIN owner

\* Every attachment that is counted, or may be, is of a transaction.
CountsOK ==
  /\ transaction_count \in [FirstBlock..LastBlock -> Nat]
  /\ SumFunctionOnSet(transaction_count, FirstBlock..LastBlock) + Len(listed) <= txs

IssuersOK ==
  /\ DOMAIN issuers = Asset \ {XCP}
  /\ \A s \in DOMAIN issuers : issuers[s] \in Seq(Address) \ {<<>>}

Sound ==
  /\ block_index \in FirstBlock..LastBlock /\ parsing \in BOOLEAN
  /\ utxos_with_balance \subseteq Utxo /\ unseen \subseteq Utxo
  /\ ChainOK /\ ListedOK /\ RowsOK(balances) /\ RowsOfOutputs(balances) /\ CountsOK /\ IssuersOK

\* The cache knows the outputs that have a row, and those that moves of the block go to.
CacheOK ==
  /\ RowsOfUtxos(balances) \subseteq utxos_with_balance
  /\ \A k \in DOMAIN listed :
       listed[k].sources # {} /\ listed[k].destination # Nobody
         => listed[k].destination \in utxos_with_balance

HoldsNothing(u) == \A s \in DOMAIN balances[u] : balances[u][s] = 0
\* A spent output was not seen, or is still to be moved, or is empty for good,
SpentOK ==
  \A u \in DOMAIN owner \ unspent :
    \/ u \in unseen
    \/ \E k \in DOMAIN listed : u \in listed[k].sources
    \/ HoldsNothing(u) /\ \A k \in DOMAIN listed : listed[k].tx # u[1]
\* and nothing is attached to an OP_RETURN that is compared.
OpReturnOK ==
  \A u \in DOMAIN owner : owner[u] = OpReturn /\ IsCompared(u) => DOMAIN balances[u] = {}
----------------------------------------------------------------------------
\* Transfers

\* What a function makes of a finite set is finite.
LEMMA FiniteImage ==
  ASSUME NEW S, IsFiniteSet(S), NEW f, NEW T, \A y \in T : \E x \in S : y = f[x]
  PROVE  IsFiniteSet(T)
<1> DEFINE R == {x \in S : f[x] \in T}
           g == [x \in R |-> f[x]]
<1>1. IsFiniteSet(R)
  BY FS_Subset
<1>2. g \in Surjection(R, T)
  BY DEF Surjection
<1> QED BY <1>1, <1>2, FS_Surjection

IsTransfers(T) ==
  IsFiniteSet(T) /\ \A t \in T : t.to \in Holder /\ t.asset \in Asset /\ t.quantity \in Nat

\* Quantities of natural numbers add up to one,
LEMMA QuantitiesNat ==
  ASSUME NEW T, IsFiniteSet(T), \A t \in T : t.quantity \in Nat
  PROVE  Quantities(T) \in Nat
<1> DEFINE f == [t \in T |-> t.quantity]
<1>1. \A t \in T : f[t] \in Nat
  OBVIOUS
<1> HIDE DEF f
<1>2. SumFunctionOnSet(f, T) \in Nat
  BY <1>1, SumNat
<1> QED BY <1>2 DEF Quantities, f

\* to 0 of no transfer,
LEMMA QuantitiesNone == Quantities({}) = 0
BY SumEmpty DEF Quantities

\* and to its own of one transfer.
LEMMA QuantitiesOne ==
  ASSUME NEW t, t.quantity \in Nat
  PROVE  Quantities({t}) = t.quantity
<1> DEFINE f == [x \in {t} |-> x.quantity]
<1>1. f[t] = t.quantity
  OBVIOUS
<1>2. \A x \in {t} : x # t => f[x] = 0
  OBVIOUS
<1> HIDE DEF f
<1>5. IsFiniteSet({t})
  BY FS_Singleton
<1>3. IsFiniteSet({t}) /\ t \in {t} /\ f[t] \in Int
  BY <1>1, <1>5
<1>4. SumFunctionOnSet(f, {t}) = f[t]
  BY <1>2, <1>3, SumSingle
<1> QED BY <1>1, <1>4 DEF Quantities, f

To(T, h, s) == {t \in T : t.to = h /\ t.asset = s}
From(T, h, s) == {t \in T : t.from = h /\ t.asset = s}
Covers(b, T) == \A h \in Holder : \A s \in Asset : Quantities(From(T, h, s)) <= Held(b, h, s)

\* Transferred, by the transfers to and from each holder
LEMMA TransferredIs ==
  ASSUME NEW b, NEW T, NEW h \in Holder
  PROVE  /\ DOMAIN Transferred(b, T)[h] = DOMAIN b[h] \cup {t.asset : t \in {t \in T : t.to = h}}
         /\ \A s \in DOMAIN Transferred(b, T)[h] :
              Transferred(b, T)[h][s] =
                Held(b, h, s) + Quantities(To(T, h, s)) - Quantities(From(T, h, s))
BY Zenon DEF Transferred, To, From

\* What a set of transfers does
Facts(b, T) ==
  /\ RowsOK(Transferred(b, T))
  /\ \A h \in Holder : (\A t \in T : t.to # h) => DOMAIN Transferred(b, T)[h] = DOMAIN b[h]
  /\ \A h \in Holder : \A s \in Asset :
       Held(Transferred(b, T), h, s) =
         Held(b, h, s) + Quantities(To(T, h, s)) - Quantities(From(T, h, s))
  /\ \A h \in Holder : \A s \in Asset :
       (\A t \in T : t.to # h) =>
         Held(Transferred(b, T), h, s) = Held(b, h, s) - Quantities(From(T, h, s))
  /\ \A h \in Holder : \A s \in Asset :
       (\A t \in T : t.to # h) => Held(Transferred(b, T), h, s) <= Held(b, h, s)
  /\ \A h \in Holder : \A s \in Asset :
       (\A t \in T : t.from # h) => Held(Transferred(b, T), h, s) >= Held(b, h, s)

\* What is held is a natural number.
LEMMA HeldNat ==
  ASSUME NEW b, RowsOK(b), NEW h \in Holder, NEW s
  PROVE  Held(b, h, s) \in Nat
BY DEF Held, RowsOK

\* Transfers that what is held covers overdraw nobody, and change only what those that they
\* name have.
LEMMA TransferredFacts ==
  ASSUME NEW b, RowsOK(b), NEW T, IsTransfers(T), Covers(b, T)
  PROVE  Facts(b, T)
<1> DEFINE c == Transferred(b, T)
<1>1. \A h \in Holder, s \in Asset : /\ Quantities(To(T, h, s)) \in Nat
                                     /\ Quantities(From(T, h, s)) \in Nat
  <2> TAKE h \in Holder, s \in Asset
  <2>1. To(T, h, s) \in SUBSET T /\ From(T, h, s) \in SUBSET T
    BY DEF To, From
  <2>2. IsFiniteSet(To(T, h, s)) /\ IsFiniteSet(From(T, h, s))
    BY <2>1, FS_Subset DEF IsTransfers
  <2> QED BY <2>1, <2>2, QuantitiesNat DEF IsTransfers
<1>2. \A h \in Holder, s \in Asset : Held(b, h, s) \in Nat
  BY HeldNat
<1>3. \A h \in Holder, s \in Asset :
        (\A t \in T : t.to # h) => Quantities(To(T, h, s)) = 0
  BY QuantitiesNone DEF To
<1>4. \A h \in Holder, s \in Asset :
        (\A t \in T : t.from # h) => Quantities(From(T, h, s)) = 0
  BY QuantitiesNone DEF From
<1>5. \A h \in Holder : DOMAIN c[h] = DOMAIN b[h] \cup {t.asset : t \in {t \in T : t.to = h}}
  BY TransferredIs
<1>6. \A h \in Holder : DOMAIN c[h] \subseteq Asset
  BY <1>5 DEF RowsOK, IsTransfers
<1>7. \A h \in Holder : \A s \in DOMAIN c[h] :
        c[h][s] = Held(b, h, s) + Quantities(To(T, h, s)) - Quantities(From(T, h, s))
  BY TransferredIs
<1>8. DOMAIN c = Holder
  BY DEF Transferred
<1> HIDE DEF c
<1>9. \A h \in Holder : \A s \in DOMAIN c[h] : c[h][s] \in Nat
  <2> TAKE h \in Holder
  <2> TAKE s \in DOMAIN c[h]
  <2> s \in Asset
    BY <1>6
  <2> QED BY <1>1, <1>2, <1>7 DEF Covers
<1>10. \A h \in Holder : \A s \in Asset :
         Held(c, h, s) = Held(b, h, s) + Quantities(To(T, h, s)) - Quantities(From(T, h, s))
  <2> TAKE h \in Holder
  <2> TAKE s \in Asset
  <2>1. CASE s \in DOMAIN c[h]
    BY <2>1, <1>7 DEF Held
  <2>2. CASE s \notin DOMAIN c[h]
    <3>1. To(T, h, s) = {}
      BY <2>2, <1>5 DEF To
    <3>2. Held(b, h, s) = 0 /\ Held(c, h, s) = 0
      BY <2>2, <1>5 DEF Held
    <3>3. Quantities(From(T, h, s)) <= 0
      BY <3>2 DEF Covers
    <3> QED BY <3>1, <3>2, <3>3, <1>1, QuantitiesNone
  <2> QED BY <2>1, <2>2
<1>11. RowsOK(c)
  BY <1>6, <1>8, <1>9 DEF RowsOK
<1>12. \A h \in Holder : (\A t \in T : t.to # h) => DOMAIN c[h] = DOMAIN b[h]
  BY <1>5
<1>13. \A h \in Holder : \A s \in Asset :
         (\A t \in T : t.to # h) => Held(c, h, s) = Held(b, h, s) - Quantities(From(T, h, s))
  BY <1>1, <1>2, <1>3, <1>10
<1>14. \A h \in Holder : \A s \in Asset :
         (\A t \in T : t.from # h) => Held(c, h, s) >= Held(b, h, s)
  BY <1>1, <1>2, <1>4, <1>10
<1>15. \A h \in Holder : \A s \in Asset :
         (\A t \in T : t.to # h) => Held(c, h, s) <= Held(b, h, s)
  BY <1>1, <1>2, <1>13
<1> QED BY <1>10, <1>11, <1>12, <1>13, <1>14, <1>15 DEF Facts, c

\* One transfer, of no more than there is
LEMMA OneTransfer ==
  ASSUME NEW b, RowsOK(b), NEW f \in Holder, NEW h \in Holder, NEW s \in Asset, NEW q \in Nat,
         q <= Held(b, f, s)
  PROVE  /\ Facts(b, {Transfer(f, h, s, q)})
         /\ \A g \in Holder : \A a \in Asset :
              Quantities(From({Transfer(f, h, s, q)}, g, a)) = IF g = f /\ a = s THEN q ELSE 0
<1> DEFINE t == Transfer(f, h, s, q)
           T == {t}
<1>1. t.from = f /\ t.to = h /\ t.asset = s /\ t.quantity = q
  BY DEF Transfer
<1>2. IsTransfers(T)
  BY <1>1, FS_Singleton DEF IsTransfers
<1> HIDE DEF t
<1>3. \A g \in Holder : \A a \in Asset :
        Quantities(From(T, g, a)) = IF g = f /\ a = s THEN q ELSE 0
  <2> TAKE g \in Holder
  <2> TAKE a \in Asset
  <2>2. CASE g = f /\ a = s
    <3>1. From(T, g, a) = {t}
      BY <1>1, <2>2 DEF From
    <3> QED BY <3>1, <1>1, <2>2, QuantitiesOne
  <2>3. CASE ~(g = f /\ a = s)
    <3>1. From(T, g, a) = {}
      BY <1>1, <2>3 DEF From
    <3> QED BY <3>1, <2>3, QuantitiesNone
  <2> QED BY <2>2, <2>3
<1>4. Covers(b, T)
  BY <1>3, HeldNat DEF Covers
<1>5. Facts(b, T)
  BY <1>2, <1>4, TransferredFacts
<1> QED BY <1>3, <1>5 DEF t

\* All the rows that a holder has
LEMMA RowTransfers ==
  ASSUME NEW b, RowsOK(b), NEW f \in Holder, NEW h \in Holder, IsFiniteSet(Asset)
  PROVE  Facts(b, {Transfer(f, h, s, b[f][s]) : s \in DOMAIN b[f]})
<1> DEFINE T == {Transfer(f, h, s, b[f][s]) : s \in DOMAIN b[f]}
<1>1. \A t \in T : /\ t.from = f /\ t.to = h /\ t.asset \in DOMAIN b[f]
                   /\ t.quantity = b[f][t.asset] /\ t = Transfer(f, h, t.asset, b[f][t.asset])
  BY DEF Transfer
<1>2. DOMAIN b[f] \subseteq Asset /\ \A s \in DOMAIN b[f] : b[f][s] \in Nat
  BY DEF RowsOK
<1>3. IsFiniteSet(T)
  <2> DEFINE e == [s \in DOMAIN b[f] |-> Transfer(f, h, s, b[f][s])]
  <2>1. IsFiniteSet(DOMAIN b[f])
    BY <1>2, FS_Subset
  <2>2. \A t \in T : \E s \in DOMAIN b[f] : t = e[s]
    OBVIOUS
  <2> HIDE DEF e, T
  <2> QED BY <2>1, <2>2, FiniteImage
<1>4. \A s \in DOMAIN b[f] : Transfer(f, h, s, b[f][s]) \in T
  OBVIOUS
<1> HIDE DEF T
<1>5. IsTransfers(T)
  BY <1>1, <1>2, <1>3 DEF IsTransfers
<1>6. Covers(b, T)
  <2> SUFFICES ASSUME NEW g \in Holder, NEW s \in Asset
               PROVE  Quantities(From(T, g, s)) <= Held(b, g, s)
    BY DEF Covers
  <2>1. Held(b, g, s) \in Nat
    BY HeldNat
  <2>2. CASE g = f /\ s \in DOMAIN b[f]
    <3> DEFINE t == Transfer(f, h, s, b[f][s])
    <3>1. t \in T /\ t.from = f /\ t.asset = s /\ t.quantity = b[f][s]
      BY <1>4, <2>2 DEF Transfer
    <3>2. \A x \in T : x.from = f /\ x.asset = s => x = t
      BY <1>1
    <3> HIDE DEF t
    <3>3. From(T, g, s) = {t}
      BY <2>2, <3>1, <3>2 DEF From
    <3> QED BY <2>2, <1>2, <3>1, <3>3, QuantitiesOne DEF Held
  <2>3. CASE ~(g = f /\ s \in DOMAIN b[f])
    <3>1. From(T, g, s) = {}
      BY <1>1, <2>3 DEF From
    <3> QED BY <2>1, <3>1, QuantitiesNone
  <2> QED BY <2>2, <2>3
<1>7. Facts(b, T)
  BY <1>5, <1>6, TransferredFacts
<1> QED BY <1>7 DEF T

\* All of what some holders have
AllOf(b, S, d) == UNION {All(b, u, d[u]) : u \in S}

\* It is covered, and it is all that they have.
LEMMA AllTransfers ==
  ASSUME NEW b, RowsOK(b), NEW S \in SUBSET Holder, IsFiniteSet(S), NEW d,
         \A u \in S : d[u] \in Holder, IsFiniteSet(Asset)
  PROVE  /\ Facts(b, AllOf(b, S, d))
         /\ \A t \in AllOf(b, S, d) : t.from \in S /\ t.to = d[t.from]
         /\ \A u \in S : \A s \in Asset : Quantities(From(AllOf(b, S, d), u, s)) = Held(b, u, s)
<1> DEFINE T == AllOf(b, S, d)
<1>1. \A t \in T : \E u \in S : \E s \in DOMAIN b[u] :
        t = Transfer(u, d[u], s, b[u][s]) /\ b[u][s] > 0
  BY DEF AllOf, All
<1>2. \A u \in S : \A s \in DOMAIN b[u] : b[u][s] > 0 => Transfer(u, d[u], s, b[u][s]) \in T
  BY DEF AllOf, All
<1> HIDE DEF T
<1>3. \A u \in S : \A s \in DOMAIN b[u] : s \in Asset /\ b[u][s] \in Nat /\ u \in Holder
  BY DEF RowsOK
<1>4. IsFiniteSet(T)
  <2> DEFINE f == [x \in S \X Asset |-> Transfer(x[1], d[x[1]], x[2], b[x[1]][x[2]])]
  <2>1. IsFiniteSet(S \X Asset)
    BY FS_Product
  <2>2. \A t \in T : \E x \in S \X Asset : t = f[x]
    <3> TAKE t \in T
    <3>1. PICK u \in S : \E s \in DOMAIN b[u] : t = Transfer(u, d[u], s, b[u][s])
      BY <1>1
    <3>2. PICK s \in DOMAIN b[u] : t = Transfer(u, d[u], s, b[u][s])
      BY <3>1
    <3>3. <<u, s>> \in S \X Asset
      BY <1>3
    <3> QED BY <3>2, <3>3
  <2> HIDE DEF f
  <2> QED BY <2>1, <2>2, FiniteImage
<1>5. \A t \in T : t.from \in S /\ t.to = d[t.from] /\ t.asset \in DOMAIN b[t.from]
                   /\ t.quantity = b[t.from][t.asset]
                   /\ t = Transfer(t.from, d[t.from], t.asset, b[t.from][t.asset])
  BY <1>1 DEF Transfer
<1>6. IsTransfers(T)
  BY <1>3, <1>4, <1>5 DEF IsTransfers
<1>7. \A u \in S : \A s \in Asset : Quantities(From(T, u, s)) = Held(b, u, s)
  <2> TAKE u \in S
  <2> TAKE s \in Asset
  <2>1. CASE s \in DOMAIN b[u] /\ b[u][s] > 0
    <3> DEFINE t == Transfer(u, d[u], s, b[u][s])
    <3>1. t \in T
      BY <1>2, <2>1
    <3>2. t.from = u /\ t.asset = s /\ t.quantity = b[u][s]
      BY DEF Transfer
    <3>3. \A x \in T : x.from = u /\ x.asset = s => x = t
      BY <1>5
    <3> HIDE DEF t
    <3>4. From(T, u, s) = {t}
      BY <3>1, <3>2, <3>3 DEF From
    <3> QED BY <2>1, <1>3, <3>2, <3>4, QuantitiesOne DEF Held
  <2>2. CASE ~(s \in DOMAIN b[u] /\ b[u][s] > 0)
    <3>1. From(T, u, s) = {}
      <4> SUFFICES ASSUME NEW x \in T, x.from = u, x.asset = s PROVE FALSE
        BY DEF From
      <4>1. PICK v \in S : \E a \in DOMAIN b[v] : x = Transfer(v, d[v], a, b[v][a]) /\ b[v][a] > 0
        BY <1>1
      <4> QED BY <4>1, <2>2 DEF Transfer
    <3>2. Held(b, u, s) = 0
      BY <2>2, <1>3 DEF Held
    <3> QED BY <3>1, <3>2, QuantitiesNone
  <2> QED BY <2>1, <2>2
<1>8. Covers(b, T)
  <2> SUFFICES ASSUME NEW h \in Holder, NEW s \in Asset
               PROVE  Quantities(From(T, h, s)) <= Held(b, h, s)
    BY DEF Covers
  <2>1. Held(b, h, s) \in Nat
    BY HeldNat
  <2>2. CASE h \in S
    BY <2>1, <2>2, <1>7
  <2>3. CASE h \notin S
    <3>1. From(T, h, s) = {}
      BY <2>3, <1>5 DEF From
    <3> QED BY <2>1, <3>1, QuantitiesNone
  <2> QED BY <2>2, <2>3
<1>9. Facts(b, T)
  BY <1>6, <1>8, TransferredFacts
<1> QED BY <1>5, <1>7, <1>9 DEF T

----------------------------------------------------------------------------
\* What a part of a transaction does: it takes from F and gives to C.
Step(b, c, F, C) ==
  /\ RowsOK(c)
  /\ \A h \in Holder \ C : DOMAIN c[h] = DOMAIN b[h]
                           /\ \A s \in Asset : Held(c, h, s) <= Held(b, h, s)
  /\ \A h \in Holder \ F : \A s \in Asset : Held(c, h, s) >= Held(b, h, s)

\* Transfers are such a step, from those they are from to those they are to.
LEMMA FactsAreStep ==
  ASSUME NEW b, NEW T, Facts(b, T), NEW F, NEW C, \A t \in T : t.from \in F /\ t.to \in C
  PROVE  Step(b, Transferred(b, T), F, C)
<1> DEFINE c == Transferred(b, T)
<1>1. RowsOK(c)
  BY DEF Facts
<1>2. \A h \in Holder : (\A t \in T : t.to # h) => DOMAIN c[h] = DOMAIN b[h]
  BY DEF Facts
<1>3. \A h \in Holder : \A s \in Asset :
        (\A t \in T : t.to # h) => Held(c, h, s) <= Held(b, h, s)
  BY DEF Facts
<1>4. \A h \in Holder : \A s \in Asset :
        (\A t \in T : t.from # h) => Held(c, h, s) >= Held(b, h, s)
  BY DEF Facts
<1> HIDE DEF c
<1>5. Step(b, c, F, C)
  BY <1>1, <1>2, <1>3, <1>4 DEF Step
<1> QED BY <1>5 DEF c

\* So is doing nothing,
LEMMA StepSame == ASSUME NEW b, RowsOK(b), NEW F, NEW C PROVE Step(b, b, F, C)
<1>1. \A h \in Holder, s \in Asset : Held(b, h, s) \in Nat
  BY HeldNat
<1> QED BY <1>1 DEF Step

\* and one step after another.
LEMMA StepThen ==
  ASSUME NEW b, NEW c, NEW d, NEW F, NEW C, RowsOK(b), Step(b, c, F, C), Step(c, d, F, C)
  PROVE  Step(b, d, F, C)
<1>1. \A h \in Holder, s \in Asset : Held(b, h, s) \in Nat /\ Held(c, h, s) \in Nat
                                     /\ Held(d, h, s) \in Nat
  BY HeldNat DEF Step
<1> QED BY <1>1 DEF Step

----------------------------------------------------------------------------
\* The parts of a transaction

\* The fields of the messages
LEMMA MessageFacts ==
  ASSUME NEW m \in Messages
  PROVE  /\ m.kind = "send" => m.asset \in Asset /\ m.quantity \in Nat
         /\ m.kind = "enhanced_send" => m.send \in Sends
         /\ m.kind = "mpma" => m.sends \subseteq Sends
         /\ m.kind = "sweep" => m.destination \in Address
         /\ m.kind = "attach" => /\ m.asset \in Asset /\ m.quantity \in Nat
                                 /\ m.vout \in {-1, 0, 1, 2}
         /\ m.kind = "detach" => m.destination \in Address \cup {Nobody}
<1>1. CASE m \in [kind : {"none"}]
  BY <1>1
<1>2. CASE m \in SendMessages
  BY <1>2 DEF SendMessages
<1>3. CASE m \in EnhancedSendMessages
  BY <1>3 DEF EnhancedSendMessages
<1>4. CASE m \in MultiSendMessages
  BY <1>4 DEF MultiSendMessages
<1>5. CASE m \in SweepMessages
  BY <1>5 DEF SweepMessages
<1>6. CASE m \in AttachMessages
  BY <1>6 DEF AttachMessages
<1>7. CASE m \in DetachMessages
  BY <1>7 DEF DetachMessages
<1> QED BY <1>1, <1>2, <1>3, <1>4, <1>5, <1>6, <1>7 DEF Messages

\* The outputs that a transaction may give to: not the OP_RETURN that is compared
Creditable(tx) ==
  {u \in Utxo : \E n \in DOMAIN tx.outs : /\ u = <<tx.tx, n - 1>>
                                          /\ tx.outs[n] = OpReturn => ~IsOpReturn(tx.outs, n - 1)}
TakesFrom(tx) == {tx.source} \cup tx.sources
GivesTo(tx) == Address \cup {Nobody} \cup Creditable(tx)
PartOf(tx, b, c) == Step(b, c, TakesFrom(tx), GivesTo(tx))

\* What is known of the transaction that is parsed
Parsed(tx) ==
  tx \in Records /\ TxOK(tx) /\ ChainOK /\ RowsOK(balances) /\ IssuersOK /\ CountsOK

\* Holders are addresses, outputs and Nobody, and none is two of these.
LEMMA UtxoFacts ==
  /\ Utxo \subseteq Holder /\ Address \subseteq Holder /\ Nobody \in Holder
  /\ IsFiniteSet(Utxo) /\ Nobody \notin Address /\ Nobody \notin Utxo /\ Address \cap Utxo = {}
  /\ IsFiniteSet(Asset) /\ XCP \in Asset /\ MaxTxs \in Nat /\ OpReturn \notin Address
  /\ \A n \in 0..MaxTxs, i \in 0..2 : <<n, i>> \in Utxo
  /\ \A u \in Utxo : u = <<u[1], u[2]>> /\ u[1] \in 0..MaxTxs /\ u[2] \in 0..2
<1>1. MaxTxs \in Nat
  BY HoldingsAssumption
<1>2. IsFiniteSet(0..MaxTxs) /\ IsFiniteSet(0..2)
  <2>1. 0 \in Int /\ 2 \in Int /\ MaxTxs \in Int
    BY <1>1
  <2>2. IsFiniteSet(0..MaxTxs)
    BY <2>1, FS_Interval
  <2>3. IsFiniteSet(0..2)
    BY <2>1, FS_Interval
  <2> QED BY <2>2, <2>3
<1>3. IsFiniteSet(Utxo)
  BY <1>2, FS_Product DEF Utxo
<1>4. /\ Utxo \subseteq Holder /\ Address \subseteq Holder /\ Nobody \in Holder
      /\ Nobody \notin Address /\ Nobody \notin Utxo /\ Address \cap Utxo = {}
      /\ IsFiniteSet(Asset) /\ XCP \in Asset /\ OpReturn \notin Address
  BY HoldingsAssumption DEF Holder
<1>5. /\ \A n \in 0..MaxTxs, i \in 0..2 : <<n, i>> \in Utxo
      /\ \A u \in Utxo : u = <<u[1], u[2]>> /\ u[1] \in 0..MaxTxs /\ u[2] \in 0..2
  BY DEF Utxo
<1> QED BY <1>1, <1>3, <1>4, <1>5

\* The destination can be given to, and is none of the sources.
LEMMA DestinationFacts ==
  ASSUME NEW tx, Parsed(tx)
  PROVE  /\ tx.destination # Nobody => tx.destination \in Creditable(tx)
         /\ GivesTo(tx) \subseteq Holder
         /\ tx.sources \in SUBSET Holder /\ IsFiniteSet(tx.sources)
         /\ \A u \in tx.sources : owner[u] \in Address /\ u \notin GivesTo(tx) /\ u \in Utxo
<1>1. /\ tx.tx \in first..txs /\ Len(tx.outs) \in 1..3 /\ tx.outs \in Seq(Address \cup {OpReturn})
      /\ DOMAIN tx.outs = 1..Len(tx.outs) /\ tx.sources \subseteq tx.inputs
      /\ tx.inputs \subseteq Utxo /\ tx.destination \in Utxo \cup {Nobody}
  BY DEF Parsed, TxOK, Records
<1>2. \A u \in tx.inputs : u[1] < tx.tx /\ owner[u] \in Address
  BY DEF Parsed, TxOK, InputsAreOlder
<1>3. tx.destination # Nobody => tx.destination \in Creditable(tx)
  <2> HAVE tx.destination # Nobody
  <2>1. PICK n \in DOMAIN tx.outs : tx.destination = <<tx.tx, n - 1>> /\ tx.outs[n] # OpReturn
    BY DEF Parsed, TxOK, DestinationIsOwn
  <2> QED BY <2>1, <1>1 DEF Creditable
<1>4. GivesTo(tx) \subseteq Holder
  BY UtxoFacts DEF GivesTo, Creditable
<1>5. \A u \in Creditable(tx) : u[1] = tx.tx
  BY DEF Creditable
<1>6. \A u \in tx.sources : owner[u] \in Address /\ u \notin GivesTo(tx) /\ u \in Utxo
  <2> TAKE u \in tx.sources
  <2>1. u \in Utxo /\ u[1] < tx.tx /\ owner[u] \in Address
    BY <1>1, <1>2
  <2>2. u \notin Creditable(tx)
    BY <2>1, <1>5, <1>1, UtxoFacts DEF Parsed, ChainOK
  <2> QED BY <2>1, <2>2, UtxoFacts DEF GivesTo
<1>7. tx.sources \in SUBSET Utxo
  BY <1>1
<1>8. IsFiniteSet(tx.sources) /\ tx.sources \in SUBSET Holder
  BY <1>7, UtxoFacts, FS_Subset
<1> QED BY <1>3, <1>4, <1>6, <1>8

\* Sources are emptied, when each gives all to a holder d that can be given to.
Emptied(tx, c) == \A u \in tx.sources : \A s \in Asset : Held(c, u, s) = 0

\* Such transfers are a part of the transaction, and empty its sources:
LEMMA AllMove ==
  ASSUME NEW tx, Parsed(tx), NEW b, RowsOK(b), NEW d, \A u \in tx.sources : d[u] \in GivesTo(tx)
  PROVE  /\ PartOf(tx, b, Transferred(b, AllOf(b, tx.sources, d)))
         /\ Emptied(tx, Transferred(b, AllOf(b, tx.sources, d)))
<1> DEFINE T == AllOf(b, tx.sources, d)
<1>1. /\ GivesTo(tx) \subseteq Holder
      /\ tx.sources \in SUBSET Holder /\ IsFiniteSet(tx.sources)
      /\ \A u \in tx.sources : u \notin GivesTo(tx) /\ u \in Utxo
  BY DestinationFacts
<1>2. IsFiniteSet(Asset)
  BY UtxoFacts
<1>3. \A u \in tx.sources : d[u] \in Holder
  BY <1>1
<1>4. /\ Facts(b, T)
      /\ \A t \in T : t.from \in tx.sources /\ t.to = d[t.from]
      /\ \A u \in tx.sources : \A s \in Asset : Quantities(From(T, u, s)) = Held(b, u, s)
  BY <1>1, <1>2, <1>3, AllTransfers
<1> HIDE DEF T
<1>5. \A t \in T : t.from \in TakesFrom(tx) /\ t.to \in GivesTo(tx)
  BY <1>4 DEF TakesFrom
<1>6. PartOf(tx, b, Transferred(b, T))
  BY <1>4, <1>5, FactsAreStep DEF PartOf
<1>7. Emptied(tx, Transferred(b, T))
  <2> SUFFICES ASSUME NEW u \in tx.sources, NEW s \in Asset
               PROVE  Held(Transferred(b, T), u, s) = 0
    BY DEF Emptied
  <2>1. u \in Holder /\ \A t \in T : t.to # u
    BY <1>1, <1>5
  <2>2. Held(Transferred(b, T), u, s) = Held(b, u, s) - Quantities(From(T, u, s))
    BY <1>4, <2>1 DEF Facts
  <2>3. Held(b, u, s) \in Nat
    BY <2>1, HeldNat
  <2> QED BY <1>4, <2>2, <2>3
<1> QED BY <1>6, <1>7 DEF T

\* move_assets does,
LEMMA MovedPart ==
  ASSUME NEW tx, Parsed(tx), NEW b, RowsOK(b)
  PROVE  PartOf(tx, b, Moved(b, tx)) /\ Emptied(tx, Moved(b, tx))
<1> DEFINE d == [u \in tx.sources |-> IF tx.destination = Nobody THEN owner[u] ELSE tx.destination]
<1>1. AllOf(b, tx.sources, d) = Moves(b, tx)
  BY DEF AllOf, Moves
<1>2. \A u \in tx.sources : d[u] \in GivesTo(tx)
  BY DestinationFacts DEF GivesTo
<1> HIDE DEF d
<1> QED BY <1>1, <1>2, AllMove DEF Moved

\* and so does detach.
LEMMA DetachedPart ==
  ASSUME NEW tx, Parsed(tx), NEW b, RowsOK(b), tx.message.kind = "detach"
  PROVE  PartOf(tx, b, Detached(b, tx)) /\ Emptied(tx, Detached(b, tx))
<1> DEFINE d == [u \in tx.sources |->
                   IF tx.message.destination = Nobody THEN owner[u] ELSE tx.message.destination]
<1>1. Detached(b, tx) = Transferred(b, AllOf(b, tx.sources, d))
  BY DEF AllOf, Detached, DetachedFrom
<1>2. tx.message \in Messages
  BY DEF Parsed, Records
<1>3. tx.message.destination \in Address \cup {Nobody}
  BY <1>2, MessageFacts
<1>4. \A u \in tx.sources : d[u] \in GivesTo(tx)
  BY <1>3, DestinationFacts DEF GivesTo
<1> HIDE DEF d
<1> QED BY <1>1, <1>4, AllMove

\* A transfer from the source
LEMMA OnePart ==
  ASSUME NEW tx, Parsed(tx), tx.source \in Address, NEW b, RowsOK(b), NEW h \in GivesTo(tx),
         NEW s \in Asset, NEW q \in Nat, q <= Held(b, tx.source, s)
  PROVE  /\ PartOf(tx, b, Transferred(b, {Transfer(tx.source, h, s, q)}))
         /\ Facts(b, {Transfer(tx.source, h, s, q)})
<1>1. h \in Holder /\ tx.source \in Holder
  BY DestinationFacts, UtxoFacts
<1>2. Facts(b, {Transfer(tx.source, h, s, q)})
  BY <1>1, OneTransfer
<1>3. \A t \in {Transfer(tx.source, h, s, q)} : t.from \in TakesFrom(tx) /\ t.to \in GivesTo(tx)
  BY DEF Transfer, TakesFrom
<1>4. PartOf(tx, b, Transferred(b, {Transfer(tx.source, h, s, q)}))
  BY <1>2, <1>3, FactsAreStep DEF PartOf
<1> QED BY <1>2, <1>4

\* A send takes from its source what is there,
LEMMA SentUpToPart ==
  ASSUME NEW tx, Parsed(tx), NEW b, RowsOK(b), tx.message.kind = "send"
  PROVE  PartOf(tx, b, SentUpToBalance(b, tx))
<1> DEFINE m == tx.message
           held == Held(b, tx.source, m.asset)
           q == IF held < m.quantity THEN held ELSE m.quantity
<1>1. tx.message \in Messages /\ tx.source \in Address /\ tx.outs \in Seq(Address \cup {OpReturn})
  BY DEF Parsed, Records, TxOK
<1>2. m.asset \in Asset /\ m.quantity \in Nat
  BY <1>1, MessageFacts
<1>3. tx.source \in Holder
  BY <1>1, UtxoFacts
<1>4. held \in Nat
  BY <1>3, HeldNat
<1>5. CASE m.asset \in DOMAIN b[tx.source] /\ 1 \in OutputsBeforeData(tx.outs)
  <2>1. SentUpToBalance(b, tx) = Transferred(b, {Transfer(tx.source, tx.outs[1], m.asset, q)})
    BY <1>5 DEF SentUpToBalance
  <2>2. 1 \in DOMAIN tx.outs /\ tx.outs[1] # OpReturn
    BY <1>5 DEF OutputsBeforeData
  <2>3. tx.outs[1] \in GivesTo(tx)
    BY <1>1, <2>2 DEF GivesTo
  <2>4. q \in Nat /\ q <= held
    BY <1>2, <1>4
  <2> HIDE DEF q
  <2> QED BY <1>1, <1>2, <2>1, <2>3, <2>4, OnePart
<1>6. CASE ~(m.asset \in DOMAIN b[tx.source] /\ 1 \in OutputsBeforeData(tx.outs))
  BY <1>6, StepSame DEF SentUpToBalance, PartOf
<1> QED BY <1>5, <1>6

\* an enhanced send too,
LEMMA SentWholePart ==
  ASSUME NEW tx, Parsed(tx), NEW b, RowsOK(b), tx.message.kind = "enhanced_send"
  PROVE  PartOf(tx, b, SentWhole(b, tx))
<1> DEFINE send == tx.message.send
<1>1. tx.message \in Messages /\ tx.source \in Address
  BY DEF Parsed, Records, TxOK
<1>2. send \in Sends
  BY <1>1, MessageFacts
<1>3. send.asset \in Asset /\ send.destination \in GivesTo(tx) /\ send.quantity \in Nat
  BY <1>2 DEF Sends, GivesTo
<1>4. Held(b, tx.source, send.asset) \in Nat
  BY <1>1, UtxoFacts, HeldNat
<1>5. CASE Held(b, tx.source, send.asset) >= send.quantity
  <2>1. SentWhole(b, tx) =
          Transferred(b, {Transfer(tx.source, send.destination, send.asset, send.quantity)})
    BY <1>5 DEF SentWhole
  <2>2. send.quantity <= Held(b, tx.source, send.asset)
    BY <1>3, <1>4, <1>5
  <2> QED BY <1>1, <1>3, <2>1, <2>2, OnePart
<1>6. CASE ~(Held(b, tx.source, send.asset) >= send.quantity)
  BY <1>6, StepSame DEF SentWhole, PartOf
<1> QED BY <1>5, <1>6

\* and an mpma, whose sends of an asset are covered by one balance.
LEMMA MultiSentPart ==
  ASSUME NEW tx, Parsed(tx), NEW b, RowsOK(b), tx.message.kind = "mpma"
  PROVE  PartOf(tx, b, MultiSent(b, tx))
<1> DEFINE T == Transfers(tx)
<1>1. tx.message \in Messages /\ tx.source \in Address /\ IsFiniteSet(tx.message.sends)
  BY DEF Parsed, Records, TxOK
<1>2. tx.message.sends \subseteq Sends
  BY <1>1, MessageFacts
<1>3. \A t \in T : /\ t.from = tx.source /\ t.to \in Address /\ t.asset \in Asset
                   /\ t.quantity \in Nat
  BY <1>2 DEF Transfers, Transfer, Sends
<1>4. IsFiniteSet(T)
  <2> DEFINE f == [send \in tx.message.sends |->
                     Transfer(tx.source, send.destination, send.asset, send.quantity)]
  <2>1. \A t \in T : \E send \in tx.message.sends : t = f[send]
    BY DEF Transfers
  <2> HIDE DEF f, T
  <2> QED BY <1>1, <2>1, FiniteImage
<1> HIDE DEF T
<1>5. IsTransfers(T)
  BY <1>3, <1>4, UtxoFacts DEF IsTransfers
<1>6. CASE Cardinality(tx.message.sends) > 1 /\ Enough(b, tx)
  <2>1. Covers(b, T)
    <3> SUFFICES ASSUME NEW h \in Holder, NEW s \in Asset
                 PROVE  Quantities(From(T, h, s)) <= Held(b, h, s)
      BY DEF Covers
    <3>1. Held(b, h, s) \in Nat
      BY HeldNat
    <3>2. CASE From(T, h, s) = {}
      BY <3>1, <3>2, QuantitiesNone
    <3>3. CASE From(T, h, s) # {}
      <4>1. PICK t \in T : t.from = h /\ t.asset = s
        BY <3>3 DEF From
      <4>2. From(T, h, s) = {x \in T : x.asset = s} /\ h = tx.source
        BY <4>1, <1>3 DEF From
      <4>3. s \in {x.asset : x \in T}
        BY <4>1
      <4>4. Held(b, tx.source, s) >= Quantities({x \in T : x.asset = s})
        BY <1>6, <4>3 DEF Enough, T
      <4>5. Quantities(From(T, h, s)) \in Nat
        <5>1. From(T, h, s) \in SUBSET T
          BY DEF From
        <5>2. IsFiniteSet(From(T, h, s))
          BY <5>1, <1>4, FS_Subset
        <5> QED BY <5>1, <5>2, <1>3, QuantitiesNat
      <4> QED BY <4>2, <4>4, <4>5, <3>1
    <3> QED BY <3>2, <3>3
  <2>2. Facts(b, T)
    BY <1>5, <2>1, TransferredFacts
  <2>3. \A t \in T : t.from \in TakesFrom(tx) /\ t.to \in GivesTo(tx)
    BY <1>3 DEF TakesFrom, GivesTo
  <2>4. PartOf(tx, b, Transferred(b, T))
    BY <2>2, <2>3, FactsAreStep DEF PartOf
  <2> QED BY <1>6, <2>4 DEF MultiSent, T
<1>7. CASE ~(Cardinality(tx.message.sends) > 1 /\ Enough(b, tx))
  BY <1>7, StepSame DEF MultiSent, PartOf
<1> QED BY <1>6, <1>7

\* The fee of a sweep counts finitely many rows and issuances.
LEMMA TotalFeeNat ==
  ASSUME IssuersOK, NEW b, RowsOK(b), NEW a \in Address
  PROVE  TotalFee(b, a) \in Nat
<1>1. DOMAIN b[a] \in SUBSET Asset
  BY UtxoFacts DEF RowsOK
<1>2. IssuedBy(a) \in SUBSET Asset
  BY DEF IssuedBy, IssuersOK
<1>3. IsFiniteSet(DOMAIN b[a]) /\ IsFiniteSet(IssuedBy(a))
  BY <1>1, <1>2, UtxoFacts, FS_Subset
<1>4. Cardinality(DOMAIN b[a]) \in Nat /\ Cardinality(IssuedBy(a)) \in Nat
  BY <1>3, FS_CardinalityType
<1>5. 2 * Cardinality(DOMAIN b[a]) + 4 * Cardinality(IssuedBy(a)) \in Nat
  BY <1>4
<1>6. \A x \in Nat : SweepFee * x \in Nat
  BY HoldingsAssumption, Z3
<1> QED BY <1>5, <1>6 DEF TotalFee

\* A sweep pays its fee, and then gives what is left.
LEMMA SweptPart ==
  ASSUME NEW tx, Parsed(tx), NEW b, RowsOK(b), tx.message.kind = "sweep", MaySweep(b, tx)
  PROVE  PartOf(tx, b, Swept(b, tx))
<1> DEFINE fee == TotalFee(b, tx.source)
           paid == Transferred(b, {Transfer(tx.source, Nobody, XCP, fee)})
           T == {Transfer(tx.source, tx.message.destination, s, paid[tx.source][s])
                   : s \in DOMAIN paid[tx.source]}
<1>1. tx.message \in Messages /\ tx.source \in Address /\ IssuersOK
  BY DEF Parsed, Records, TxOK
<1>2. tx.message.destination \in Address
  BY <1>1, MessageFacts
<1>3. fee \in Nat /\ Held(b, tx.source, XCP) \in Nat /\ Held(b, tx.source, XCP) >= fee
  BY <1>1, TotalFeeNat, UtxoFacts, HeldNat DEF MaySweep
<1> HIDE DEF fee
<1>4. Nobody \in GivesTo(tx) /\ XCP \in Asset /\ fee <= Held(b, tx.source, XCP)
  BY <1>3, UtxoFacts DEF GivesTo
<1>5. PartOf(tx, b, paid)
  BY <1>1, <1>3, <1>4, OnePart
<1> HIDE DEF paid
<1>6. RowsOK(paid)
  BY <1>5 DEF PartOf, Step
<1>7. Facts(paid, T)
  BY <1>1, <1>2, <1>6, UtxoFacts, RowTransfers
<1>8. \A t \in T : t.from \in TakesFrom(tx) /\ t.to \in GivesTo(tx)
  BY <1>2 DEF Transfer, TakesFrom, GivesTo
<1> HIDE DEF T
<1>9. PartOf(tx, paid, Transferred(paid, T))
  BY <1>7, <1>8, FactsAreStep DEF PartOf
<1>10. PartOf(tx, b, Transferred(paid, T))
  BY <1>5, <1>9, StepThen DEF PartOf
<1>11. Swept(b, tx) = IF "balances" \in tx.message.flags THEN Transferred(paid, T) ELSE paid
  BY DEF Swept, paid, fee, T
<1> QED BY <1>5, <1>10, <1>11

\* The average of attachments is no more than the transactions there are.
LEMMA AttachFeeNat ==
  ASSUME Parsed(Head(listed)), block_index \in FirstBlock..LastBlock, listed \in Seq(Records)
  PROVE  AttachFee \in Nat
<1> DEFINE B == FirstBlock..LastBlock
           n == SumFunctionOnSet(transaction_count, LastPeriod)
           r == SumFunctionOnSet(transaction_count, B \ LastPeriod)
<1>1. /\ FirstBlock \in Nat /\ LastBlock \in Nat /\ Period \in Nat \ {0} /\ MaxTxs \in Nat
      /\ \A i \in 0..MaxTxs : GasFee[i] \in Nat
  BY HoldingsAssumption
<1>2. IsFiniteSet(B)
  <2>1. FirstBlock \in Int /\ LastBlock \in Int
    BY <1>1
  <2> QED BY <2>1, FS_Interval
<1>3. LastPeriod \in SUBSET B
  BY DEF LastPeriod
<1>4. transaction_count \in [B -> Nat]
      /\ SumFunctionOnSet(transaction_count, B) + Len(listed) <= txs /\ txs \in 0..MaxTxs
  BY DEF Parsed, CountsOK, ChainOK
<1> HIDE DEF B
<1>5. B \ LastPeriod \in SUBSET B /\ LastPeriod \cup (B \ LastPeriod) = B
      /\ LastPeriod \cap (B \ LastPeriod) = {}
  BY <1>3
<1>6. IsFiniteSet(LastPeriod) /\ IsFiniteSet(B \ LastPeriod)
  BY <1>2, <1>3, <1>5, FS_Subset
<1>7. /\ \A x \in LastPeriod : transaction_count[x] \in Nat
      /\ \A x \in B \ LastPeriod : transaction_count[x] \in Nat
      /\ \A x \in LastPeriod \cup (B \ LastPeriod) : transaction_count[x] \in Int
  BY <1>3, <1>4
<1>8. n \in Nat
  BY <1>6, <1>7, SumNat
<1>9. r \in Nat
  BY <1>6, <1>7, SumNat
<1>10. SumFunctionOnSet(transaction_count, B) = n + r
  <2>1. SumFunctionOnSet(transaction_count, LastPeriod \cup (B \ LastPeriod)) = n + r
    BY <1>5, <1>6, <1>7, SumUnion
  <2> QED BY <2>1, <1>5
<1> HIDE DEF n, r
<1>11. Len(listed) \in Nat
  OBVIOUS
<1>12. n <= MaxTxs
  BY <1>1, <1>4, <1>8, <1>9, <1>10, <1>11
<1>13. n \div Period \in 0..MaxTxs
  <2>1. n \div Period \in Nat /\ n \div Period <= n
    BY <1>1, <1>8, Z3
  <2> QED BY <2>1, <1>12, <1>8, <1>1
<1>14. 0 \in 0..MaxTxs
  BY <1>1
<1>15. AttachFee = GasFee[0] \/ AttachFee = GasFee[n \div Period]
  BY DEF AttachFee, n
<1> QED BY <1>1, <1>13, <1>14, <1>15

\* An attachment pays its fee, which leaves enough to attach also when that is XCP.
LEMMA AttachedPart ==
  ASSUME NEW tx, Parsed(tx), NEW b, RowsOK(b), tx.message.kind = "attach", MayAttach(b, tx),
         AttachFee \in Nat
  PROVE  PartOf(tx, b, Attached(b, tx))
<1> DEFINE m == tx.message
           paid == FeePaid(b, tx)
<1>1. /\ tx.message \in Messages /\ tx.source \in Address /\ tx.outs \in Seq(Address \cup {OpReturn})
      /\ tx.tx \in first..txs /\ Len(tx.outs) \in 1..3 /\ tx.destination \in Utxo \cup {Nobody}
      /\ DOMAIN tx.outs = 1..Len(tx.outs)
  BY DEF Parsed, Records, TxOK
<1>2. m.asset \in Asset /\ m.quantity \in Nat /\ m.vout \in {-1, 0, 1, 2}
  BY <1>1, MessageFacts
<1>3. AttachedTo(tx) \in GivesTo(tx)
  <2>1. CASE m.vout = -1
    BY <2>1, DestinationFacts DEF MayAttach, AttachedTo, GivesTo
  <2>2. CASE m.vout # -1
    <3>1. m.vout \in 0..2 /\ m.vout < Len(tx.outs) /\ ~IsOpReturn(tx.outs, m.vout)
      BY <2>2, <1>2 DEF MayAttach
    <3>2. m.vout + 1 \in DOMAIN tx.outs /\ m.vout = (m.vout + 1) - 1
      BY <1>1, <3>1
    <3>3. <<tx.tx, m.vout>> \in Utxo
      <4>1. tx.tx \in 0..MaxTxs
        BY <1>1, UtxoFacts DEF Parsed, ChainOK
      <4> QED BY <4>1, <3>1, UtxoFacts
    <3>4. <<tx.tx, m.vout>> \in Creditable(tx)
      BY <3>1, <3>2, <3>3 DEF Creditable
    <3> QED BY <2>2, <3>4 DEF AttachedTo, GivesTo
  <2> QED BY <2>1, <2>2
<1>4. \A s \in {m.asset, XCP} :
        Held(b, tx.source, s) >= (IF s = m.asset THEN m.quantity ELSE 0)
                                 + (IF s = XCP THEN AttachFee ELSE 0)
  BY DEF MayAttach
<1>5. \A s \in Asset : Held(b, tx.source, s) \in Nat
  BY <1>1, UtxoFacts, HeldNat
<1>6. XCP \in Asset /\ Nobody \in GivesTo(tx) /\ tx.source \in Holder /\ Nobody \in Holder
      /\ tx.source # Nobody
  BY <1>1, UtxoFacts DEF GivesTo
<1>7. PartOf(tx, b, paid) /\ Held(paid, tx.source, m.asset) >= m.quantity
  <2>1. CASE AttachFee > 0
    <3> DEFINE T == {Transfer(tx.source, Nobody, XCP, AttachFee)}
    <3>1. AttachFee <= Held(b, tx.source, XCP)
      BY <1>2, <1>4, <1>5, <1>6
    <3>2. PartOf(tx, b, Transferred(b, T)) /\ Facts(b, T)
      BY <1>1, <1>6, <3>1, OnePart
    <3>3. \A a \in Asset :
            Quantities(From(T, tx.source, a)) = IF a = XCP THEN AttachFee ELSE 0
      <4>1. \A g \in Holder : \A a \in Asset :
              Quantities(From({Transfer(tx.source, Nobody, XCP, AttachFee)}, g, a))
                = IF g = tx.source /\ a = XCP THEN AttachFee ELSE 0
        <5>1. PICK f \in Holder : f = tx.source
          BY <1>6
        <5>2. PICK q \in Nat : q = AttachFee
          OBVIOUS
        <5>3. q <= Held(b, f, XCP) /\ XCP \in Asset /\ Nobody \in Holder
          BY <1>6, <3>1, <5>1, <5>2
        <5>4. \A g \in Holder : \A a \in Asset :
                Quantities(From({Transfer(f, Nobody, XCP, q)}, g, a))
                  = IF g = f /\ a = XCP THEN q ELSE 0
          BY ONLY RowsOK(b), <5>3, OneTransfer
        <5> QED BY <5>1, <5>2, <5>4
      <4> QED BY <1>6, <4>1
    <3>4. \A t \in T : t.to # tx.source
      BY <1>6 DEF Transfer
    <3> HIDE DEF T
    <3>5. \A a \in Asset : Held(Transferred(b, T), tx.source, a)
                             = Held(b, tx.source, a) - Quantities(From(T, tx.source, a))
      BY <1>6, <3>2, <3>4 DEF Facts
    <3>6. Held(Transferred(b, T), tx.source, m.asset) >= m.quantity
      BY <1>2, <1>4, <1>5, <3>3, <3>5
    <3>7. paid = Transferred(b, T)
      BY <2>1 DEF FeePaid, T
    <3> QED BY <3>2, <3>6, <3>7
  <2>2. CASE ~(AttachFee > 0)
    <3>1. paid = b
      BY <2>2 DEF FeePaid
    <3>2. Held(b, tx.source, m.asset) >= m.quantity
      BY <1>2, <1>4, <1>5, <2>2
    <3> QED BY <3>1, <3>2, StepSame DEF PartOf
  <2> QED BY <2>1, <2>2
<1> HIDE DEF paid
<1>8. RowsOK(paid)
  BY <1>7 DEF PartOf, Step
<1>9. Held(paid, tx.source, m.asset) \in Nat
  BY <1>6, <1>8, HeldNat
<1>10. m.quantity \in Nat /\ m.quantity <= Held(paid, tx.source, m.asset)
  BY <1>2, <1>7, <1>9
<1>11. PartOf(tx, paid, Transferred(paid, {Transfer(tx.source, AttachedTo(tx), m.asset, m.quantity)}))
  BY <1>1, <1>2, <1>3, <1>8, <1>10, OnePart
<1> QED BY <1>7, <1>11, StepThen DEF PartOf, Attached, paid

----------------------------------------------------------------------------
\* What parsing a transaction does to the balances

\* What follows the moves gives nothing to the sources.
LEMMA EmptiedKept ==
  ASSUME NEW tx, Parsed(tx), NEW b, NEW c, RowsOK(b), Emptied(tx, b), PartOf(tx, b, c)
  PROVE  Emptied(tx, c)
<1> SUFFICES ASSUME NEW u \in tx.sources, NEW s \in Asset PROVE Held(c, u, s) = 0
  BY DEF Emptied
<1>1. u \in Holder \ GivesTo(tx)
  BY DestinationFacts
<1>2. Held(c, u, s) <= Held(b, u, s) /\ Held(b, u, s) = 0
  BY <1>1 DEF PartOf, Step, Emptied
<1>3. Held(c, u, s) \in Nat
  BY <1>1, HeldNat DEF PartOf, Step
<1> QED BY <1>2, <1>3

Ignored(tx) == tx.message.kind \in {"attach", "detach"} /\ ReturnsEarly(tx)

Effect(tx, c) == PartOf(tx, balances, c) /\ (Emptied(tx, c) \/ Ignored(tx))

\* Moves come before the message,
LEMMA OtherEffect ==
  ASSUME NEW tx, Parsed(tx), ParseOther(tx)
  PROVE  Effect(tx, balances')
<1> DEFINE b == Moved(balances, tx)
<1>1. RowsOK(balances)
  BY DEF Parsed
<1>2. PartOf(tx, balances, b) /\ Emptied(tx, b)
  BY <1>1, MovedPart
<1>3. RowsOK(b)
  BY <1>2 DEF PartOf, Step
<1> HIDE DEF b
<1>4. balances' = CASE IsRead(tx, {"send"}) -> SentUpToBalance(b, tx)
                   [] IsRead(tx, {"enhanced_send"}) -> SentWhole(b, tx)
                   [] IsRead(tx, {"mpma"}) -> MultiSent(b, tx)
                   [] IsRead(tx, {"sweep"}) /\ MaySweep(b, tx) -> Swept(b, tx)
                   [] OTHER -> b
  BY DEF ParseOther, b
<1>5. PartOf(tx, b, balances')
  <2>1. CASE IsRead(tx, {"send"})
    <3>1. balances' = SentUpToBalance(b, tx) /\ tx.message.kind = "send"
      BY <1>4, <2>1 DEF IsRead
    <3> QED BY <3>1, <1>3, SentUpToPart
  <2>2. CASE IsRead(tx, {"enhanced_send"})
    <3>1. balances' = SentWhole(b, tx) /\ tx.message.kind = "enhanced_send"
      BY <1>4, <2>2 DEF IsRead
    <3> QED BY <3>1, <1>3, SentWholePart
  <2>3. CASE IsRead(tx, {"mpma"})
    <3>1. balances' = MultiSent(b, tx) /\ tx.message.kind = "mpma"
      BY <1>4, <2>3 DEF IsRead
    <3> QED BY <3>1, <1>3, MultiSentPart
  <2>4. CASE IsRead(tx, {"sweep"}) /\ MaySweep(b, tx)
    <3>1. balances' = Swept(b, tx) /\ tx.message.kind = "sweep"
      BY <1>4, <2>4 DEF IsRead
    <3> QED BY <3>1, <2>4, <1>3, SweptPart
  <2>5. CASE ~(\/ IsRead(tx, {"send"}) \/ IsRead(tx, {"enhanced_send"}) \/ IsRead(tx, {"mpma"})
               \/ IsRead(tx, {"sweep"}) /\ MaySweep(b, tx))
    <3>1. balances' = b
      BY <1>4, <2>5
    <3> QED BY <3>1, <1>3, StepSame DEF PartOf
  <2> QED BY <2>1, <2>2, <2>3, <2>4, <2>5
<1>6. Emptied(tx, balances')
  BY <1>2, <1>3, <1>5, EmptiedKept
<1>7. PartOf(tx, balances, balances')
  BY <1>1, <1>2, <1>5, StepThen DEF PartOf
<1> QED BY <1>6, <1>7 DEF Effect

\* or after it, when it is an attachment;
LEMMA AttachEffect ==
  ASSUME NEW tx, Parsed(tx), ParseAttach(tx), AttachFee \in Nat
  PROVE  Effect(tx, balances')
<1>1. RowsOK(balances) /\ tx.message.kind = "attach"
  BY DEF Parsed, ParseAttach, IsRead
<1>2. PICK b : /\ balances' = Moved(b, tx) /\ PartOf(tx, balances, b)
  <2>1. CASE MayAttach(balances, tx)
    <3>1. balances' = Moved(Attached(balances, tx), tx)
      BY <2>1 DEF ParseAttach
    <3> QED BY <3>1, <2>1, <1>1, AttachedPart
  <2>2. CASE ~MayAttach(balances, tx)
    <3>1. balances' = Moved(balances, tx)
      BY <2>2 DEF ParseAttach
    <3> QED BY <3>1, <1>1, StepSame DEF PartOf
  <2> QED BY <2>1, <2>2
<1>3. RowsOK(b)
  BY <1>2 DEF PartOf, Step
<1>4. PartOf(tx, b, balances') /\ Emptied(tx, balances')
  BY <1>2, <1>3, MovedPart
<1> QED BY <1>1, <1>2, <1>4, StepThen DEF Effect, PartOf

\* all that is parsed is of this kind.
LEMMA ParseEffect ==
  ASSUME NEW tx, Parsed(tx), AttachFee \in Nat,
         ParseOther(tx) \/ ParseAttach(tx) \/ ParseDetach(tx) \/ ParseIgnored(tx)
  PROVE  Effect(tx, balances')
<1>1. RowsOK(balances)
  BY DEF Parsed
<1>2. CASE ParseOther(tx)
  BY <1>2, OtherEffect
<1>3. CASE ParseAttach(tx)
  BY <1>3, AttachEffect
<1>4. CASE ParseDetach(tx)
  <2>1. balances' = Detached(balances, tx) /\ tx.message.kind = "detach"
    BY <1>4 DEF ParseDetach, IsRead
  <2> QED BY <2>1, <1>1, DetachedPart DEF Effect
<1>5. CASE ParseIgnored(tx)
  <2>1. balances' = balances /\ Ignored(tx)
    BY <1>5 DEF ParseIgnored, Ignored
  <2> QED BY <2>1, <1>1, StepSame DEF Effect, PartOf
<1> QED BY <1>2, <1>3, <1>4, <1>5

----------------------------------------------------------------------------
\* The inductive invariant

\* The outputs that are there at first
LEMMA GenesisFacts ==
  /\ GenesisUtxo \subseteq Utxo
  /\ \A u \in GenesisUtxo : u[1] = 0 /\ Genesis[u[2] + 1] \in Address
<1> SUFFICES ASSUME NEW n \in DOMAIN Genesis
             PROVE  <<0, n - 1>> \in Utxo /\ Genesis[(n - 1) + 1] \in Address
  BY DEF GenesisUtxo
<1>1. Genesis \in Seq(Address) /\ Len(Genesis) <= 3 /\ MaxTxs \in Nat
  BY HoldingsAssumption
<1>2. DOMAIN Genesis = 1..Len(Genesis) /\ Len(Genesis) \in Nat
  BY <1>1
<1>3. n \in 1..3 /\ Genesis[n] \in Address /\ (n - 1) + 1 = n /\ n - 1 \in 0..2 /\ 0 \in 0..MaxTxs
  BY <1>1, <1>2
<1> QED BY <1>3, UtxoFacts

\* The invariant holds at first,
LEMMA SoundInit == Init => Sound
<1> SUFFICES ASSUME Init PROVE Sound
  OBVIOUS
<1> USE DEF Init
<1>1. /\ FirstBlock \in Nat /\ LastBlock \in Nat /\ MaxTxs \in Nat /\ FirstBlock <= LastBlock
      /\ Issuers \in [Asset \ {XCP} -> Address]
  BY HoldingsAssumption
<1>2. block_index \in FirstBlock..LastBlock /\ parsing \in BOOLEAN
  <2>1. block_index = FirstBlock /\ parsing = FALSE
    OBVIOUS
  <2>2. FirstBlock \in FirstBlock..LastBlock
    BY <1>1
  <2> QED BY <2>1, <2>2
<1>3. utxos_with_balance \subseteq Utxo /\ unseen \subseteq Utxo
  BY DEF RowsOfUtxos
<1>4. ChainOK
  <2>1. txs \in 0..MaxTxs /\ first \in 1..(txs + 1)
    BY <1>1
  <2>2. DOMAIN owner = GenesisUtxo /\ \A u \in DOMAIN owner : owner[u] = Genesis[u[2] + 1]
    OBVIOUS
  <2> QED BY <2>1, <2>2, GenesisFacts DEF ChainOK
<1>5. ListedOK
  BY DEF ListedOK
<1>6. RowsOK(balances)
  BY FundsAssumption DEF RowsOK
<1>7. RowsOfOutputs(balances)
  BY FundsAssumption DEF RowsOfOutputs, RowsOfUtxos
<1>8. CountsOK
  <2>1. transaction_count \in [FirstBlock..LastBlock -> Nat]
        /\ \A n \in FirstBlock..LastBlock : transaction_count[n] = 0
    OBVIOUS
  <2>2. IsFiniteSet(FirstBlock..LastBlock)
    <3>1. FirstBlock \in Int /\ LastBlock \in Int
      BY <1>1
    <3> QED BY <3>1, FS_Interval
  <2>3. SumFunctionOnSet(transaction_count, FirstBlock..LastBlock) = 0
    BY <2>1, <2>2, SumZero
  <2>4. Len(listed) = 0 /\ txs = 0
    OBVIOUS
  <2> QED BY <2>1, <2>3, <2>4 DEF CountsOK
<1>9. IssuersOK
  BY <1>1 DEF IssuersOK
<1> QED BY <1>2, <1>3, <1>4, <1>5, <1>6, <1>7, <1>8, <1>9 DEF Sound

\* The first transaction listed, and those after it
LEMMA HeadFacts ==
  ASSUME Sound, listed # <<>>
  PROVE  /\ Parsed(Head(listed)) /\ Head(listed) = listed[1] /\ 1 \in DOMAIN listed
         /\ Tail(listed) \in Seq(Records) /\ Len(Tail(listed)) = Len(listed) - 1
         /\ \A k \in DOMAIN Tail(listed) : k + 1 \in DOMAIN listed /\ Tail(listed)[k] = listed[k + 1]
         /\ Len(listed) \in Nat /\ AttachFee \in Nat
         /\ \A k \in DOMAIN listed : k = 1 \/ k - 1 \in DOMAIN Tail(listed)
<1>1. listed \in Seq(Records) /\ \A k \in DOMAIN listed : TxOK(listed[k])
  BY DEF Sound, ListedOK
<1>2. /\ Len(listed) \in Nat \ {0} /\ DOMAIN listed = 1..Len(listed)
      /\ Head(listed) = listed[1] /\ 1 \in DOMAIN listed
      /\ Tail(listed) \in Seq(Records) /\ Len(Tail(listed)) = Len(listed) - 1
      /\ DOMAIN Tail(listed) = 1..(Len(listed) - 1)
      /\ \A k \in 1..(Len(listed) - 1) : Tail(listed)[k] = listed[k + 1]
  BY <1>1
<1>3. listed[1] \in Records
  BY <1>1, <1>2
<1>4. Parsed(Head(listed))
  BY <1>1, <1>2, <1>3 DEF Parsed, Sound
<1>5. AttachFee \in Nat
  BY <1>1, <1>4, AttachFeeNat DEF Sound
<1>6. \A k \in DOMAIN Tail(listed) : k + 1 \in DOMAIN listed /\ Tail(listed)[k] = listed[k + 1]
  BY <1>2
<1>7. \A k \in DOMAIN listed : k = 1 \/ k - 1 \in DOMAIN Tail(listed)
  BY <1>2
<1> QED BY <1>2, <1>4, <1>5, <1>6, <1>7

\* ParseTx as an effect
LEMMA ParseTxEffect ==
  ASSUME Sound, ParseTx
  PROVE  /\ listed # <<>> /\ listed' = Tail(listed)
         /\ Effect(Head(listed), balances')
         /\ utxos_with_balance' = utxos_with_balance \cup RowsOfUtxos(balances')
         /\ unseen' = IF Ignored(Head(listed)) THEN unseen \cup Head(listed).sources ELSE unseen
<1>1. /\ listed # <<>> /\ listed' = Tail(listed)
      /\ \/ ParseOther(Head(listed)) \/ ParseAttach(Head(listed))
         \/ ParseDetach(Head(listed)) \/ ParseIgnored(Head(listed))
      /\ utxos_with_balance' = CacheCredits(balances')
      /\ unseen' = IF Ignored(Head(listed)) THEN unseen \cup Head(listed).sources ELSE unseen
  BY DEF ParseTx, Ignored
<1>2. Parsed(Head(listed)) /\ AttachFee \in Nat
  BY <1>1, HeadFacts
<1>3. Effect(Head(listed), balances')
  BY <1>1, <1>2, ParseEffect
<1> QED BY <1>1, <1>3 DEF CacheCredits

\* What a parsed transaction does to outputs
LEMMA EffectOnUtxos ==
  ASSUME NEW tx, Parsed(tx), NEW c, Effect(tx, c)
  PROVE  /\ RowsOK(c)
         /\ \A u \in Utxo \ Creditable(tx) :
              DOMAIN c[u] = DOMAIN balances[u]
              /\ \A s \in Asset : Held(c, u, s) <= Held(balances, u, s)
         /\ \A u \in Creditable(tx) : u \in DOMAIN owner /\ u[1] = tx.tx
<1>1. Utxo \subseteq Holder /\ \A u \in Utxo : u \notin Address /\ u # Nobody
  BY UtxoFacts
<1>2. \A u \in Utxo \ Creditable(tx) : u \in Holder \ GivesTo(tx)
  BY <1>1 DEF GivesTo
<1>3. \A u \in Creditable(tx) : u \in DOMAIN owner /\ u[1] = tx.tx
  BY DEF Creditable, Parsed, TxOK, OutsAreOwned
<1> QED BY <1>2, <1>3 DEF Effect, PartOf, Step

\* a transaction that is parsed keeps it: CountsOK, as an attachment that is counted is listed
\* no more,
LEMMA SoundParseTx == ASSUME Sound, ParseTx PROVE Sound'
<1> DEFINE tx == Head(listed)
<1>1. /\ listed # <<>> /\ listed' = Tail(listed) /\ Effect(tx, balances')
      /\ utxos_with_balance' = utxos_with_balance \cup RowsOfUtxos(balances')
      /\ unseen' = IF Ignored(tx) THEN unseen \cup tx.sources ELSE unseen
  BY ParseTxEffect
<1>2. /\ Parsed(tx) /\ tx = listed[1] /\ 1 \in DOMAIN listed
      /\ Tail(listed) \in Seq(Records) /\ Len(Tail(listed)) = Len(listed) - 1
      /\ \A k \in DOMAIN Tail(listed) : k + 1 \in DOMAIN listed /\ Tail(listed)[k] = listed[k + 1]
      /\ Len(listed) \in Nat
  BY <1>1, HeadFacts
<1>3. /\ ParseOther(tx) \/ ParseAttach(tx) \/ ParseDetach(tx) \/ ParseIgnored(tx)
      /\ block_index' = block_index /\ txs' = txs /\ first' = first /\ owner' = owner
      /\ unspent' = unspent /\ parsing' = parsing
  BY DEF ParseTx, chain
<1> HIDE DEF tx
<1>4. /\ RowsOK(balances')
      /\ \A u \in Utxo \ Creditable(tx) : DOMAIN balances'[u] = DOMAIN balances[u]
      /\ \A u \in Creditable(tx) : u \in DOMAIN owner
  BY <1>1, <1>2, EffectOnUtxos
<1>5. RowsOfOutputs(balances)'
  <2>1. RowsOfUtxos(balances) \subseteq DOMAIN owner
    BY DEF Sound, RowsOfOutputs
  <2>2. RowsOfUtxos(balances') \subseteq DOMAIN owner
    BY <1>4, <2>1 DEF RowsOfUtxos
  <2> QED BY <1>3, <2>2 DEF RowsOfOutputs, RowsOfUtxos
<1>6. RowsOK(balances)'
  BY <1>4 DEF RowsOK
<1>7. ChainOK'
  BY <1>3 DEF Sound, ChainOK
<1>8. ListedOK'
  <2>1. /\ \A k \in DOMAIN listed : TxOK(listed[k])
        /\ \A j, k \in DOMAIN listed : j < k => listed[j].tx < listed[k].tx
    BY DEF Sound, ListedOK
  <2>2. DOMAIN Tail(listed) = 1..(Len(listed) - 1) /\ DOMAIN listed' = DOMAIN Tail(listed)
    BY <1>1, <1>2
  <2>3. \A k \in DOMAIN listed' : TxOK(listed[k])'
    <3> TAKE k \in DOMAIN listed'
    <3>1. k + 1 \in DOMAIN listed /\ listed'[k] = listed[k + 1]
      BY <1>1, <1>2, <2>2
    <3>2. TxOK(listed[k + 1])
      BY <2>1, <3>1
    <3> QED BY <1>3, <3>1, <3>2 DEF TxOK, OutsAreOwned, InputsAreOlder, DestinationIsOwn
  <2>4. \A j, k \in DOMAIN listed' : j < k => listed'[j].tx < listed'[k].tx
    <3> SUFFICES ASSUME NEW j \in DOMAIN listed', NEW k \in DOMAIN listed', j < k
                 PROVE  listed'[j].tx < listed'[k].tx
      OBVIOUS
    <3>1. /\ j + 1 \in DOMAIN listed /\ listed'[j] = listed[j + 1]
          /\ k + 1 \in DOMAIN listed /\ listed'[k] = listed[k + 1] /\ j + 1 < k + 1
      BY <1>1, <1>2, <2>2
    <3> QED BY <2>1, <3>1
  <2> QED BY <1>1, <1>2, <2>3, <2>4 DEF ListedOK
<1>9. CountsOK'
  <2> DEFINE B == FirstBlock..LastBlock
  <2>1. transaction_count \in [B -> Nat] /\ block_index \in B /\ txs \in Nat
        /\ SumFunctionOnSet(transaction_count, B) + Len(listed) <= txs
    BY UtxoFacts DEF Sound, CountsOK, ChainOK
  <2>2. IsFiniteSet(B)
    <3>1. FirstBlock \in Int /\ LastBlock \in Int
      BY HoldingsAssumption
    <3> QED BY <3>1, FS_Interval
  <2>3. Len(listed') = Len(listed) - 1
    BY <1>1, <1>2
  <2> HIDE DEF B
  <2>4. \A x \in B : transaction_count[x] \in Nat
    BY <2>1
  <2>5. SumFunctionOnSet(transaction_count, B) \in Nat
    BY <2>2, <2>4, SumNat
  <2>6. CASE UNCHANGED transaction_count
    BY <1>3, <1>2, <2>1, <2>3, <2>5, <2>6 DEF CountsOK, B
  <2>7. CASE IncrementCounter
    <3> DEFINE g == [transaction_count EXCEPT ![block_index] = @ + 1]
    <3>1. g \in [B -> Nat] /\ g[block_index] = transaction_count[block_index] + 1
          /\ \A x \in B : x # block_index => g[x] = transaction_count[x]
      BY <2>1
    <3>2. transaction_count' = g
      BY <2>7 DEF IncrementCounter
    <3> HIDE DEF g
    <3>3. \A x \in B : transaction_count[x] \in Int /\ g[x] \in Int
      BY <2>4, <3>1
    <3>4. \A x \in B : x # block_index => g[x] = transaction_count[x]
      BY <3>1
    <3>5. SumFunctionOnSet(g, B)
            = SumFunctionOnSet(transaction_count, B) + (g[block_index] - transaction_count[block_index])
      <4>1. block_index \in B
        BY <2>1
      <4> QED BY <4>1, <2>2, <3>3, <3>4, SumChange
    <3>6. g[block_index] - transaction_count[block_index] = 1
      BY <2>1, <2>4, <3>1
    <3>7. SumFunctionOnSet(g, B) + (Len(listed) - 1) <= txs
      BY <2>1, <2>5, <3>5, <3>6, <1>2
    <3> QED BY <1>3, <2>3, <3>1, <3>2, <3>7 DEF CountsOK, B
  <2>8. UNCHANGED transaction_count \/ IncrementCounter
    BY <1>3 DEF ParseOther, ParseAttach, ParseDetach, ParseIgnored
  <2> QED BY <2>6, <2>7, <2>8
<1>10. IssuersOK'
  <2>1. IssuersOK
    BY DEF Sound
  <2>2. CASE UNCHANGED issuers
    BY <2>1, <2>2 DEF IssuersOK
  <2>3. CASE tx.message.kind = "sweep" /\ issuers' = IssuersAfterSweep(tx)
    <3>1. tx.message \in Messages
      BY <1>2 DEF Parsed, Records
    <3>2. tx.message.destination \in Address
      BY <2>3, <3>1, MessageFacts
    <3>3. DOMAIN issuers' = DOMAIN issuers
          /\ \A s \in DOMAIN issuers :
               issuers'[s] = IF s \in OwnedBy(tx.source)
                               THEN Append(issuers[s], tx.message.destination) ELSE issuers[s]
      BY <2>3 DEF IssuersAfterSweep
    <3>4. \A q \in Seq(Address) \ {<<>>} :
            Append(q, tx.message.destination) \in Seq(Address) \ {<<>>}
      BY <3>2
    <3>5. \A s \in DOMAIN issuers : issuers[s] \in Seq(Address) \ {<<>>}
      BY <2>1 DEF IssuersOK
    <3>6. \A s \in DOMAIN issuers : issuers'[s] \in Seq(Address) \ {<<>>}
      BY <3>3, <3>4, <3>5
    <3>7. DOMAIN issuers = Asset \ {XCP}
      BY <2>1 DEF IssuersOK
    <3> QED BY <3>3, <3>6, <3>7 DEF IssuersOK
  <2>4. \/ UNCHANGED issuers
        \/ tx.message.kind = "sweep" /\ issuers' = IssuersAfterSweep(tx)
    BY <1>3 DEF ParseOther, ParseAttach, ParseDetach, ParseIgnored, IsRead
  <2> QED BY <2>2, <2>3, <2>4
<1>11. utxos_with_balance' \subseteq Utxo /\ unseen' \subseteq Utxo
  <2>1. tx.sources \subseteq Utxo
    BY <1>2 DEF Parsed, Records
  <2> QED BY <1>1, <2>1 DEF Sound, RowsOfUtxos
<1>12. block_index' \in FirstBlock..LastBlock /\ parsing' \in BOOLEAN
  BY <1>3 DEF Sound
<1> QED BY <1>5, <1>6, <1>7, <1>8, <1>9, <1>10, <1>11, <1>12 DEF Sound

\* The outputs, and the record, of a new transaction
NewOutputs(t, outs) == {<<t, n - 1>> : n \in DOMAIN outs}

\* The outputs of a transaction, and the first that is not an OP_RETURN
LEMMA OutputFacts ==
  ASSUME NEW t \in 1..MaxTxs, NEW outs \in Seq(Address \cup {OpReturn}), Len(outs) \in 1..3
  PROVE  /\ NewOutputs(t, outs) \subseteq Utxo
         /\ \A n \in DOMAIN outs : <<t, n - 1>> \in NewOutputs(t, outs) /\ (n - 1) + 1 = n
         /\ \A u \in NewOutputs(t, outs) : u[1] = t /\ outs[u[2] + 1] \in Address \cup {OpReturn}
                                           /\ u[2] + 1 \in DOMAIN outs
         /\ HasOutput(outs) => \E n \in DOMAIN outs : FirstOutput(t, outs) = <<t, n - 1>>
                                                     /\ outs[n] # OpReturn
<1>1. DOMAIN outs = 1..Len(outs) /\ \A n \in DOMAIN outs : outs[n] \in Address \cup {OpReturn}
  OBVIOUS
<1>2. \A n \in DOMAIN outs : n \in Int /\ n - 1 \in 0..2 /\ (n - 1) + 1 = n
  BY <1>1
<1>3. MaxTxs \in Nat /\ t \in 0..MaxTxs
  BY UtxoFacts
<1>4. NewOutputs(t, outs) \subseteq Utxo
  BY <1>2, <1>3, UtxoFacts DEF NewOutputs
<1>5. \A u \in NewOutputs(t, outs) : u[1] = t /\ outs[u[2] + 1] \in Address \cup {OpReturn}
                                     /\ u[2] + 1 \in DOMAIN outs
  BY <1>1, <1>2 DEF NewOutputs
<1>6. HasOutput(outs) => \E n \in DOMAIN outs : FirstOutput(t, outs) = <<t, n - 1>>
                                               /\ outs[n] # OpReturn
  <2> HAVE HasOutput(outs)
  <2> DEFINE N == FirstOutputs(outs)
  <2>1. N \subseteq 1..3 /\ N # {} /\ \A n \in N : n \in DOMAIN outs /\ outs[n] # OpReturn
    BY <1>1 DEF HasOutput, FirstOutputs
  <2> HIDE DEF N
  <2>2. Min(N) \in N
    <3>1. \E x \in N : \A y \in N : x <= y
      <4>1. CASE 1 \in N
        BY <4>1, <2>1
      <4>2. CASE 1 \notin N /\ 2 \in N
        BY <4>2, <2>1
      <4>3. CASE 1 \notin N /\ 2 \notin N
        <5>1. \A n \in N : n = 3
          BY <4>3, <2>1
        <5>2. 3 \in N
          BY <5>1, <2>1
        <5> QED BY <5>1, <5>2
      <4> QED BY <4>1, <4>2, <4>3
    <3> QED BY <3>1 DEF Min
  <2>3. FirstOutput(t, outs) = <<t, Min(N) - 1>>
    BY DEF FirstOutput, N
  <2> QED BY <2>1, <2>2, <2>3
<1> QED BY <1>2, <1>4, <1>5, <1>6 DEF NewOutputs

\* ListTx, by its choices
Lists(inputs, form) ==
  LET t == txs + 1
      sources == GetInputsWithBalance(inputs)
  IN
  /\ inputs \subseteq {u \in unspent : owner[u] \notin {OpReturn, Unspendable}} /\ form \in Form
  /\ txs' = t
  /\ owner' = [u \in DOMAIN owner \cup NewOutputs(t, form.outs) |->
                 IF u \in DOMAIN owner THEN owner[u] ELSE form.outs[u[2] + 1]]
  /\ unspent' = (unspent \ inputs) \cup NewOutputs(t, form.outs)
  /\ utxos_with_balance' = CacheWithMove(t, Outputs(form), sources)
  /\ \/ listed' = listed /\ sources = {}
     \/ \E tx \in GetTxInfo(t, form, inputs, sources) : listed' = Append(listed, tx)
  /\ unseen' = unseen \cup {u \in inputs \ sources : u[1] >= first /\ u \notin Destinations}

\* ListTx is Lists.
LEMMA ListTxIs ==
  ASSUME ListTx
  PROVE  /\ \E inputs, form : Lists(inputs, form)
         /\ ~parsing /\ txs < MaxTxs /\ block_index' = block_index /\ first' = first
         /\ parsing' = parsing /\ balances' = balances /\ issuers' = issuers
         /\ transaction_count' = transaction_count
BY DEF ListTx, Lists, NewOutputs

\* The outputs that are delivered are the first of those there are.
LEMMA DeliveredFacts ==
  ASSUME NEW form \in Form
  PROVE  /\ Outputs(form) \in Seq(Address \cup {OpReturn}) /\ Len(Outputs(form)) \in 1..3
         /\ \A n \in DOMAIN Outputs(form) : n \in DOMAIN form.outs /\ Outputs(form)[n] = form.outs[n]
<1> DEFINE N == Stops(form)
           outs == form.outs
<1>1. outs \in Seq(Address \cup {OpReturn}) /\ Len(outs) \in 1..3 /\ DOMAIN outs = 1..Len(outs)
  BY FormAssumption
<1>2. N \subseteq 1..Len(outs)
  BY <1>1 DEF Stops
<1>3. Outputs(form) = outs \/ (N # {} /\ Outputs(form) = SubSeq(outs, 1, Min(N)))
  BY DEF Outputs
<1> HIDE DEF N, outs
<1>4. CASE Outputs(form) = outs
  BY <1>1, <1>4 DEF outs
<1>5. CASE N # {} /\ Outputs(form) = SubSeq(outs, 1, Min(N))
  <2>1. \E x \in N : \A y \in N : x <= y
    <3>1. CASE 1 \in N
      BY <1>1, <1>2, <3>1
    <3>2. CASE 1 \notin N /\ 2 \in N
      BY <1>1, <1>2, <3>2
    <3>3. CASE 1 \notin N /\ 2 \notin N
      <4>1. \A n \in N : n = 3
        BY <1>1, <1>2, <3>3
      <4> QED BY <1>5, <4>1
    <3> QED BY <3>1, <3>2, <3>3
  <2>2. Min(N) \in 1..Len(outs)
    BY <2>1, <1>2 DEF Min
  <2> DEFINE m == Min(N)
  <2> HIDE DEF m
  <2>3. m \in 1..Len(outs) /\ Outputs(form) = SubSeq(outs, 1, m)
    BY <1>5, <2>2 DEF m
  <2>4. /\ SubSeq(outs, 1, m) \in Seq(Address \cup {OpReturn}) /\ Len(SubSeq(outs, 1, m)) = m
        /\ DOMAIN SubSeq(outs, 1, m) = 1..m
        /\ \A n \in 1..m : SubSeq(outs, 1, m)[n] = outs[n]
    BY <1>1, <2>3
  <2>5. m \in 1..3 /\ \A n \in 1..m : n \in 1..Len(outs)
    BY <1>1, <2>3
  <2> QED BY <1>1, <2>3, <2>4, <2>5 DEF outs
<1> QED BY <1>3, <1>4, <1>5

\* What is recorded of it
LEMMA RecordFacts ==
  ASSUME Sound, NEW inputs, NEW form, Lists(inputs, form), txs < MaxTxs,
         NEW tx \in GetTxInfo(txs + 1, form, inputs, GetInputsWithBalance(inputs))
  PROVE  /\ tx \in Records /\ tx.tx = txs + 1 /\ tx.outs = Outputs(form) /\ tx.inputs = inputs
         /\ tx.sources = GetInputsWithBalance(inputs)
         /\ tx.message.kind = "mpma" => IsFiniteSet(tx.message.sends)
         /\ tx.message.kind # "none" => tx.source \in Address
         /\ tx.destination = IF HasOutput(Outputs(form)) THEN FirstOutput(txs + 1, Outputs(form))
                                                        ELSE Nobody
<1> DEFINE outs == Outputs(form)
<1>1. /\ tx.tx = txs + 1 /\ tx.outs = outs
      /\ tx.message = IF DataIsReached(form.outs) THEN form.message ELSE [kind |-> "none"]
      /\ tx.inputs = inputs /\ tx.sources = GetInputsWithBalance(inputs)
      /\ tx.source \in IF HasNoSource(form) THEN {Nobody} ELSE FirstInputSources(inputs)
      /\ tx.destination = IF HasOutput(outs) THEN FirstOutput(txs + 1, outs) ELSE Nobody
      /\ tx = [tx |-> tx.tx, message |-> tx.message, outs |-> tx.outs, inputs |-> tx.inputs,
               sources |-> tx.sources, source |-> tx.source, destination |-> tx.destination]
  BY DEF GetTxInfo
<1>2. form \in Form /\ form.message \in Messages
      /\ (form.message.kind = "mpma" => IsFiniteSet(form.message.sends))
  <2>1. form \in Form
    BY DEF Lists
  <2> QED BY <2>1, FormAssumption
<1>3. txs \in 0..MaxTxs /\ txs + 1 \in 1..MaxTxs /\ txs + 1 \in Nat
  BY UtxoFacts DEF Sound, ChainOK
<1>4. /\ inputs \subseteq Utxo /\ \A u \in inputs : owner[u] \in Address
      /\ GetInputsWithBalance(inputs) \subseteq Utxo
  BY DEF Lists, Sound, ChainOK, GetInputsWithBalance
<1>5. tx.source \in Address \cup {Nobody}
  BY <1>1, <1>4 DEF FirstInputSources
<1>6. /\ tx.message \in Messages
      /\ tx.message.kind = "mpma" => IsFiniteSet(tx.message.sends)
      /\ tx.message.kind # "none" => tx.source \in Address
  <2>1. CASE DataIsReached(form.outs)
    <3>1. tx.message = form.message
      BY <1>1, <2>1
    <3>2. tx.message.kind # "none" => ~HasNoSource(form)
      BY <3>1 DEF HasNoSource
    <3> QED BY <1>1, <1>2, <1>4, <3>1, <3>2 DEF FirstInputSources
  <2>2. CASE ~DataIsReached(form.outs)
    <3>1. tx.message = [kind |-> "none"]
      BY <1>1, <2>2
    <3>2. tx.message.kind = "none" /\ tx.message \in [kind : {"none"}]
      BY <3>1
    <3> QED BY <3>2 DEF Messages
  <2> QED BY <2>1, <2>2
<1>7. outs \in Seq(Address \cup {OpReturn}) /\ Len(outs) \in 1..3
  BY <1>2, DeliveredFacts
<1> HIDE DEF outs
<1>8. tx.destination \in Utxo \cup {Nobody}
  <2>1. CASE HasOutput(outs)
    <3>1. PICK n \in DOMAIN outs : FirstOutput(txs + 1, outs) = <<txs + 1, n - 1>>
      BY <2>1, <1>3, <1>7, OutputFacts
    <3>2. <<txs + 1, n - 1>> \in NewOutputs(txs + 1, outs)
      BY DEF NewOutputs
    <3>3. NewOutputs(txs + 1, outs) \subseteq Utxo
      BY <1>3, <1>7, OutputFacts
    <3> QED BY <2>1, <1>1, <3>1, <3>2, <3>3
  <2>2. CASE ~HasOutput(outs)
    BY <2>2, <1>1
  <2> QED BY <2>1, <2>2
<1>9. tx \in Records
  BY <1>1, <1>3, <1>4, <1>5, <1>6, <1>7, <1>8 DEF Records
<1> QED BY <1>1, <1>6, <1>9 DEF outs

\* A transaction that is listed keeps the invariant: its outputs are new, and its inputs were
\* unspent,
LEMMA SoundListTx == ASSUME Sound, ListTx PROVE Sound'
<1>1. PICK inputs, form : Lists(inputs, form)
  BY ListTxIs
<1>2. /\ ~parsing /\ txs < MaxTxs /\ block_index' = block_index /\ first' = first
      /\ parsing' = parsing /\ balances' = balances /\ issuers' = issuers
      /\ transaction_count' = transaction_count
  BY ListTxIs
<1> DEFINE t == txs + 1
           sources == GetInputsWithBalance(inputs)
           new == NewOutputs(t, form.outs)
           outs == Outputs(form)
<1>3. /\ inputs \subseteq unspent /\ \A u \in inputs : owner[u] # OpReturn
      /\ txs' = t
      /\ DOMAIN owner' = DOMAIN owner \cup new
      /\ \A u \in DOMAIN owner' : owner'[u] = IF u \in DOMAIN owner THEN owner[u]
                                                                    ELSE form.outs[u[2] + 1]
      /\ unspent' = (unspent \ inputs) \cup new
      /\ utxos_with_balance' = CacheWithMove(t, outs, sources)
      /\ \/ listed' = listed
         \/ \E tx \in GetTxInfo(t, form, inputs, sources) : listed' = Append(listed, tx)
      /\ unseen' = unseen \cup {u \in inputs \ sources : u[1] >= first /\ u \notin Destinations}
  BY <1>1 DEF Lists
<1>4. /\ form.outs \in Seq(Address \cup {OpReturn}) /\ Len(form.outs) \in 1..3
      /\ outs \in Seq(Address \cup {OpReturn}) /\ Len(outs) \in 1..3
      /\ \A n \in DOMAIN outs : n \in DOMAIN form.outs /\ outs[n] = form.outs[n]
  <2>1. form \in Form
    BY <1>1 DEF Lists
  <2>2. form.outs \in Seq(Address \cup {OpReturn}) /\ Len(form.outs) \in 1..3
    BY <2>1, FormAssumption
  <2> QED BY <2>1, <2>2, DeliveredFacts
<1>5. /\ txs \in 0..MaxTxs /\ t \in 1..MaxTxs /\ t \in Nat /\ first \in 1..(txs + 1)
      /\ DOMAIN owner \subseteq Utxo /\ \A u \in DOMAIN owner : u[1] <= txs
      /\ \A u \in DOMAIN owner : owner[u] \in Address \cup {OpReturn}
      /\ unspent \subseteq DOMAIN owner
  BY <1>2, UtxoFacts DEF Sound, ChainOK
<1>6. /\ new \subseteq Utxo
      /\ \A n \in DOMAIN form.outs : <<t, n - 1>> \in new /\ (n - 1) + 1 = n
      /\ \A u \in new : u[1] = t /\ form.outs[u[2] + 1] \in Address \cup {OpReturn}
  BY <1>4, <1>5, OutputFacts
<1>17. /\ HasOutput(outs) => \E n \in DOMAIN outs : FirstOutput(t, outs) = <<t, n - 1>>
                                                   /\ outs[n] # OpReturn
       /\ HasOutput(outs) => FirstOutput(t, outs) \in Utxo
  <2>1. /\ HasOutput(outs) => \E n \in DOMAIN outs : FirstOutput(t, outs) = <<t, n - 1>>
                                                    /\ outs[n] # OpReturn
        /\ \A n \in DOMAIN outs : <<t, n - 1>> \in NewOutputs(t, outs)
        /\ NewOutputs(t, outs) \subseteq Utxo
    BY <1>4, <1>5, OutputFacts
  <2> QED BY <2>1
<1>7. \A u \in new : u \notin DOMAIN owner
  BY <1>5, <1>6
<1>8. \A tx \in GetTxInfo(t, form, inputs, sources) :
        /\ tx \in Records /\ tx.tx = t /\ tx.outs = outs /\ tx.inputs = inputs
        /\ tx.sources = sources
        /\ tx.message.kind = "mpma" => IsFiniteSet(tx.message.sends)
        /\ tx.message.kind # "none" => tx.source \in Address
        /\ tx.destination = IF HasOutput(outs) THEN FirstOutput(t, outs) ELSE Nobody
  BY <1>1, <1>2, RecordFacts
<1>9. sources \subseteq inputs
  BY DEF GetInputsWithBalance
<1> HIDE DEF new, t, sources, outs
<1>10. ChainOK'
  <2>1. txs' \in 0..MaxTxs /\ first' \in 1..(txs' + 1)
    BY <1>2, <1>3, <1>5 DEF t
  <2>2. DOMAIN owner' \subseteq Utxo /\ unspent' \subseteq DOMAIN owner'
    BY <1>3, <1>5, <1>6
  <2>3. \A u \in DOMAIN owner' : u[1] <= txs'
    <3> TAKE u \in DOMAIN owner'
    <3>1. u \in DOMAIN owner \/ u \in new
      BY <1>3
    <3>2. u \in Utxo => u[1] \in Nat
      BY UtxoFacts
    <3> QED BY <1>3, <1>5, <1>6, <2>2, <3>1, <3>2 DEF t
  <2>4. \A u \in DOMAIN owner' : owner'[u] \in Address \cup {OpReturn}
    BY <1>3, <1>5, <1>6, <1>7
  <2> QED BY <2>1, <2>2, <2>3, <2>4 DEF ChainOK
<1>11. utxos_with_balance' \subseteq Utxo /\ unseen' \subseteq Utxo
  BY <1>3, <1>5, <1>17 DEF CacheWithMove, Sound
<1>12. RowsOK(balances)' /\ RowsOfOutputs(balances)'
  <2>1. RowsOK(balances) /\ RowsOfUtxos(balances) \subseteq DOMAIN owner
    BY DEF Sound, RowsOfOutputs
  <2> QED BY <1>2, <1>3, <2>1 DEF RowsOK, RowsOfOutputs, RowsOfUtxos
<1>13. IssuersOK' /\ block_index' \in FirstBlock..LastBlock /\ parsing' \in BOOLEAN
  BY <1>2 DEF Sound, IssuersOK
<1>14. /\ listed \in Seq(Records) /\ \A k \in DOMAIN listed : TxOK(listed[k])
       /\ \A j, k \in DOMAIN listed : j < k => listed[j].tx < listed[k].tx
       /\ DOMAIN listed = 1..Len(listed) /\ Len(listed) \in Nat
  BY DEF Sound, ListedOK
<1>15. \A x : TxOK(x) => /\ x.tx \in first'..txs' /\ Len(x.outs) \in 1..3
                         /\ x.sources \subseteq x.inputs
                         /\ x.message.kind # "none" => x.source \in Address
                         /\ x.message.kind = "mpma" => IsFiniteSet(x.message.sends)
                         /\ \A n \in DOMAIN x.outs : <<x.tx, n - 1>> \in DOMAIN owner'
                                                     /\ owner'[<<x.tx, n - 1>>] = x.outs[n]
                         /\ \A u \in x.inputs : u \in DOMAIN owner' \ unspent' /\ u[1] < x.tx
                                                /\ owner'[u] \in Address
                         /\ DestinationIsOwn(x)
  <2> SUFFICES ASSUME NEW x, TxOK(x)
               PROVE  /\ x.tx \in first'..txs'
                      /\ \A n \in DOMAIN x.outs : <<x.tx, n - 1>> \in DOMAIN owner'
                                                  /\ owner'[<<x.tx, n - 1>>] = x.outs[n]
                      /\ \A u \in x.inputs : u \in DOMAIN owner' \ unspent' /\ u[1] < x.tx
                                             /\ owner'[u] \in Address
    BY DEF TxOK
  <2>1. x.tx \in first'..txs'
    BY <1>2, <1>3, <1>5 DEF TxOK, t
  <2>2. \A n \in DOMAIN x.outs : <<x.tx, n - 1>> \in DOMAIN owner'
                                 /\ owner'[<<x.tx, n - 1>>] = x.outs[n]
    BY <1>3 DEF TxOK, OutsAreOwned
  <2>3. \A u \in x.inputs : u \in DOMAIN owner' \ unspent' /\ u[1] < x.tx /\ owner'[u] \in Address
    BY <1>3, <1>7 DEF TxOK, InputsAreOlder
  <2> QED BY <2>1, <2>2, <2>3
<1>16. ListedOK' /\ Len(listed') <= Len(listed) + 1 /\ Len(listed') \in Nat
  <2>1. CASE listed' = listed
    <3>1. \A k \in DOMAIN listed' : TxOK(listed[k])'
      <4> TAKE k \in DOMAIN listed'
      <4>1. listed'[k] = listed[k] /\ TxOK(listed[k])
        BY <2>1, <1>14
      <4> QED BY <4>1, <1>15 DEF TxOK, OutsAreOwned, InputsAreOlder, DestinationIsOwn
    <3> QED BY <2>1, <1>14, <3>1 DEF ListedOK
  <2>2. CASE \E tx \in GetTxInfo(t, form, inputs, sources) : listed' = Append(listed, tx)
    <3>1. PICK tx \in GetTxInfo(t, form, inputs, sources) : listed' = Append(listed, tx)
      BY <2>2
    <3>2. /\ tx \in Records /\ tx.tx = t /\ tx.outs = outs /\ tx.inputs = inputs
          /\ tx.sources = sources
          /\ tx.message.kind = "mpma" => IsFiniteSet(tx.message.sends)
          /\ tx.message.kind # "none" => tx.source \in Address
          /\ tx.destination = IF HasOutput(outs) THEN FirstOutput(t, outs) ELSE Nobody
      BY <1>8
    <3>3. /\ listed' \in Seq(Records) /\ Len(listed') = Len(listed) + 1
          /\ DOMAIN listed' = 1..(Len(listed) + 1)
          /\ \A k \in DOMAIN listed : listed'[k] = listed[k]
          /\ listed'[Len(listed) + 1] = tx
      BY <1>14, <3>1, <3>2
    <3>4. tx.tx \in first'..txs' /\ Len(tx.outs) \in 1..3 /\ tx.sources \subseteq tx.inputs
      BY <1>2, <1>3, <1>4, <1>5, <1>9, <3>2 DEF t
    <3>5. \A n \in DOMAIN tx.outs : <<tx.tx, n - 1>> \in DOMAIN owner'
                                    /\ owner'[<<tx.tx, n - 1>>] = tx.outs[n]
      <4> TAKE n \in DOMAIN tx.outs
      <4>1. <<t, n - 1>> \in new /\ (n - 1) + 1 = n /\ outs[n] = form.outs[n]
        BY <1>4, <1>6, <3>2
      <4>2. <<t, n - 1>> \in DOMAIN owner' /\ owner'[<<t, n - 1>>] = form.outs[(n - 1) + 1]
        BY <1>3, <1>7, <4>1
      <4> QED BY <3>2, <4>1, <4>2
    <3>6. \A u \in tx.inputs : u \in DOMAIN owner' \ unspent' /\ u[1] < tx.tx
                               /\ owner'[u] \in Address
      <4> TAKE u \in tx.inputs
      <4>1. u \in inputs /\ u \in unspent /\ u \in DOMAIN owner /\ owner[u] # OpReturn
        BY <1>3, <1>5, <3>2
      <4>2. u[1] <= txs /\ u[1] \in Nat
        BY <1>5, <4>1, UtxoFacts
      <4>3. u \notin new
        BY <1>7, <4>1
      <4> QED BY <1>3, <1>5, <3>2, <4>1, <4>2, <4>3 DEF t
    <3>7. DestinationIsOwn(tx)
      BY <1>17, <3>2 DEF DestinationIsOwn
    <3>9. \A k \in DOMAIN listed' : TxOK(listed[k])'
      <4> TAKE k \in DOMAIN listed'
      <4>1. CASE k \in DOMAIN listed
        <5>1. listed'[k] = listed[k] /\ TxOK(listed[k])
          BY <3>3, <4>1, <1>14
        <5> QED BY <5>1, <1>15 DEF TxOK, OutsAreOwned, InputsAreOlder, DestinationIsOwn
      <4>2. CASE k \notin DOMAIN listed
        <5>1. listed'[k] = tx
          BY <3>3, <4>2, <1>14
        <5> QED BY <5>1, <3>2, <3>4, <3>5, <3>6, <3>7
                DEF TxOK, OutsAreOwned, InputsAreOlder, DestinationIsOwn
      <4> QED BY <4>1, <4>2
    <3>10. \A j, k \in DOMAIN listed' : j < k => listed'[j].tx < listed'[k].tx
      <4> SUFFICES ASSUME NEW j \in DOMAIN listed', NEW k \in DOMAIN listed', j < k
                   PROVE  listed'[j].tx < listed'[k].tx
        OBVIOUS
      <4>1. j \in DOMAIN listed
        BY <3>3, <1>14
      <4>2. CASE k \in DOMAIN listed
        BY <4>1, <4>2, <3>3, <1>14
      <4>3. CASE k \notin DOMAIN listed
        <5>1. listed'[k] = tx
          BY <3>3, <4>3, <1>14
        <5>2. listed'[j] = listed[j] /\ listed[j].tx \in first..txs
          BY <3>3, <4>1, <1>14 DEF TxOK
        <5> QED BY <5>1, <5>2, <3>2, <1>5 DEF t
      <4> QED BY <4>2, <4>3
    <3> QED BY <3>3, <3>9, <3>10, <1>14 DEF ListedOK
  <2> QED BY <1>3, <2>1, <2>2
<1>18. CountsOK'
  <2> DEFINE B == FirstBlock..LastBlock
  <2>1. transaction_count \in [B -> Nat]
        /\ SumFunctionOnSet(transaction_count, B) + Len(listed) <= txs
    BY DEF Sound, CountsOK
  <2>2. SumFunctionOnSet(transaction_count, B) \in Nat
    <3>1. IsFiniteSet(B)
      <4>1. FirstBlock \in Int /\ LastBlock \in Int
        BY HoldingsAssumption
      <4> QED BY <4>1, FS_Interval
    <3>2. \A x \in B : transaction_count[x] \in Nat
      BY <2>1
    <3> HIDE DEF B
    <3> QED BY <3>1, <3>2, SumNat
  <2> HIDE DEF B
  <2>3. SumFunctionOnSet(transaction_count, B) + Len(listed') <= txs'
    BY <1>3, <1>5, <1>14, <1>16, <2>1, <2>2 DEF t
  <2> QED BY <1>2, <2>1, <2>3 DEF CountsOK, B
<1> QED BY <1>10, <1>11, <1>12, <1>13, <1>16, <1>18 DEF Sound

\* and so does every step.
LEMMA SoundStep == Sound /\ [Next]_vars => Sound'
<1> SUFFICES ASSUME Sound, [Next]_vars PROVE Sound'
  OBVIOUS
<1>1. CASE ListTx
  BY <1>1, SoundListTx
<1>2. CASE ParseTx
  BY <1>2, SoundParseTx
<1>3. CASE EndOfList
  BY <1>3 DEF EndOfList, chain, Sound, ChainOK, ListedOK, TxOK, OutsAreOwned, InputsAreOlder,
              DestinationIsOwn, RowsOK, RowsOfOutputs, RowsOfUtxos, CountsOK, IssuersOK
<1>4. CASE EndOfBlock
  <2>1. /\ listed = <<>> /\ listed' = listed /\ block_index < LastBlock
        /\ parsing' = FALSE /\ block_index' = block_index + 1 /\ first' = txs + 1
        /\ txs' = txs /\ owner' = owner /\ unspent' = unspent
        /\ utxos_with_balance' = utxos_with_balance /\ balances' = balances /\ issuers' = issuers
        /\ transaction_count' = transaction_count /\ unseen' = unseen
    BY <1>4 DEF EndOfBlock
  <2>2. block_index' \in FirstBlock..LastBlock
    BY <2>1, HoldingsAssumption DEF Sound
  <2>3. ListedOK'
    BY <2>1 DEF ListedOK
  <2>4. ChainOK'
    BY <2>1, UtxoFacts DEF Sound, ChainOK
  <2> QED BY <2>1, <2>2, <2>3, <2>4
          DEF Sound, RowsOK, RowsOfOutputs, RowsOfUtxos, CountsOK, IssuersOK
<1>5. CASE Restart
  <2>1. utxos_with_balance' \subseteq Utxo
    BY <1>5 DEF Restart, RowsOfUtxos
  <2> QED BY <1>5, <2>1 DEF Restart, chain, Sound, ChainOK, ListedOK, TxOK, OutsAreOwned,
              InputsAreOlder, DestinationIsOwn, RowsOK, RowsOfOutputs, RowsOfUtxos, CountsOK,
              IssuersOK
<1>6. CASE UNCHANGED vars
  BY <1>6 DEF vars, chain, Sound, ChainOK, ListedOK, TxOK, OutsAreOwned, InputsAreOlder,
              DestinationIsOwn, RowsOK, RowsOfOutputs, RowsOfUtxos, CountsOK, IssuersOK
<1> QED BY <1>1, <1>2, <1>3, <1>4, <1>5, <1>6 DEF Next

\* What is listed always refers to outputs that there are, and no attachment is counted twice.
THEOREM SpecIsSound == Spec => []Sound
<1> QED BY SoundInit, SoundStep, PTL DEF Spec

\* Types are kept by sends, mpmas, sweeps, attachments, moves and detachments: no balance is
\* ever overdrawn, also when a transaction does several of these.
THEOREM TypesAreKept == Spec => []TypeOK
<1>1. Sound => TypeOK
  <2> SUFFICES ASSUME Sound PROVE TypeOK
    OBVIOUS
  <2>1. first \in 1..(MaxTxs + 1) /\ txs \in 0..MaxTxs
    BY UtxoFacts DEF Sound, ChainOK
  <2> QED BY <2>1 DEF Sound, ChainOK, RowsOK, IssuersOK, TypeOK
<1> QED BY <1>1, SpecIsSound, PTL

----------------------------------------------------------------------------
\* Who pays

\* Balances change only when a transaction is parsed.
LEMMA OnlyParsingPays == ASSUME Sound, Next, ~ParseTx PROVE balances' = balances
BY ListTxIs DEF Next, EndOfList, EndOfBlock, Restart

\* Whatever is in a block, a transaction takes only from its source and from the outputs that
\* it spends.
THEOREM OnlyOwnIsTaken == Spec => OnlyTheirOwn
<1>1. Sound /\ [Next]_vars =>
        [\A h \in Holder : \A s \in DOMAIN balances[h] :
           Held(balances', h, s) < balances[h][s]
             => \/ h = Head(listed).source
                \/ h \in Head(listed).inputs]_vars
  <2> SUFFICES ASSUME Sound, Next, NEW h \in Holder, NEW s \in DOMAIN balances[h],
                      Held(balances', h, s) < balances[h][s]
               PROVE  h = Head(listed).source \/ h \in Head(listed).inputs
    OBVIOUS
  <2>1. RowsOK(balances) /\ Held(balances, h, s) = balances[h][s] /\ balances[h][s] \in Nat
        /\ s \in Asset
    BY DEF Sound, RowsOK, Held
  <2>2. CASE ParseTx
    <3>1. listed # <<>> /\ Effect(Head(listed), balances')
      BY <2>2, ParseTxEffect
    <3>2. Parsed(Head(listed))
      BY <3>1, HeadFacts
    <3>3. h \notin TakesFrom(Head(listed)) => Held(balances', h, s) >= Held(balances, h, s)
      BY <2>1, <3>1 DEF Effect, PartOf, Step
    <3>4. Held(balances', h, s) \in Nat
      BY <3>1, HeldNat DEF Effect, PartOf, Step
    <3>5. h \in TakesFrom(Head(listed))
      BY <2>1, <3>3, <3>4
    <3> QED BY <3>2, <3>5 DEF TakesFrom, Parsed, TxOK
  <2>3. CASE ~ParseTx
    <3>1. balances' = balances
      BY <2>3, OnlyParsingPays
    <3> QED BY <2>1, <3>1
  <2> QED BY <2>2, <2>3
<1> QED BY <1>1, SpecIsSound, PTL DEF Spec, OnlyTheirOwn

----------------------------------------------------------------------------
\* The cache

\* The cache is complete at first,
LEMMA CacheInit == Init => CacheOK
BY DEF Init, CacheOK

\* and stays so: list_tx and every credit add to it, and a process that is started again
\* between two blocks reads the rows, with nothing listed.
LEMMA CacheStep == Sound /\ Sound' /\ CacheOK /\ [Next]_vars => CacheOK'
<1> SUFFICES ASSUME Sound, Sound', CacheOK, [Next]_vars PROVE CacheOK'
  OBVIOUS
<1>1. /\ RowsOfUtxos(balances) \subseteq utxos_with_balance
      /\ \A k \in DOMAIN listed :
           listed[k].sources # {} /\ listed[k].destination # Nobody
             => listed[k].destination \in utxos_with_balance
  BY DEF CacheOK
<1>2. listed \in Seq(Records) /\ DOMAIN listed = 1..Len(listed) /\ Len(listed) \in Nat
  BY DEF Sound, ListedOK
<1>3. CASE ListTx
  <2>1. PICK inputs, form : Lists(inputs, form)
    BY <1>3, ListTxIs
  <2>2. txs < MaxTxs /\ balances' = balances
    BY <1>3, ListTxIs
  <2> DEFINE t == txs + 1
             sources == GetInputsWithBalance(inputs)
  <2>3. /\ utxos_with_balance' = CacheWithMove(t, Outputs(form), sources)
        /\ \/ listed' = listed
           \/ \E tx \in GetTxInfo(t, form, inputs, sources) : listed' = Append(listed, tx)
    BY <2>1 DEF Lists
  <2>4. \A tx \in GetTxInfo(t, form, inputs, sources) :
          /\ tx.sources = sources /\ tx \in Records
          /\ tx.destination = IF HasOutput(Outputs(form)) THEN FirstOutput(t, Outputs(form)) ELSE Nobody
    BY <2>1, <2>2, RecordFacts
  <2> HIDE DEF t, sources
  <2>5. utxos_with_balance \subseteq utxos_with_balance'
    BY <2>3 DEF CacheWithMove
  <2>6. RowsOfUtxos(balances)' \subseteq utxos_with_balance'
    BY <1>1, <2>2, <2>5 DEF RowsOfUtxos
  <2>7. \A k \in DOMAIN listed' :
          listed'[k].sources # {} /\ listed'[k].destination # Nobody
            => listed'[k].destination \in utxos_with_balance'
    <3>1. CASE listed' = listed
      BY <3>1, <1>1, <2>5
    <3>2. CASE \E tx \in GetTxInfo(t, form, inputs, sources) : listed' = Append(listed, tx)
      <4>1. PICK tx \in GetTxInfo(t, form, inputs, sources) : listed' = Append(listed, tx)
        BY <3>2
      <4>2. /\ DOMAIN listed' = 1..(Len(listed) + 1)
            /\ \A k \in DOMAIN listed : listed'[k] = listed[k]
            /\ listed'[Len(listed) + 1] = tx
        BY <1>2, <2>4, <4>1
      <4>3. tx.sources # {} /\ tx.destination # Nobody => tx.destination \in utxos_with_balance'
        BY <2>3, <2>4 DEF CacheWithMove
      <4>4. \A k \in DOMAIN listed' : k \in DOMAIN listed \/ k = Len(listed) + 1
        BY <1>2, <4>2
      <4> QED BY <1>1, <2>5, <4>2, <4>3, <4>4
    <3> QED BY <2>3, <3>1, <3>2
  <2> QED BY <2>6, <2>7 DEF CacheOK
<1>4. CASE ParseTx
  <2>1. /\ listed # <<>> /\ listed' = Tail(listed)
        /\ utxos_with_balance' = utxos_with_balance \cup RowsOfUtxos(balances')
    BY <1>4, ParseTxEffect
  <2>2. \A k \in DOMAIN listed' : k + 1 \in DOMAIN listed /\ listed'[k] = listed[k + 1]
    BY <2>1, HeadFacts
  <2> QED BY <1>1, <2>1, <2>2 DEF CacheOK, RowsOfUtxos
<1>5. CASE EndOfList
  BY <1>1, <1>5 DEF EndOfList, CacheOK, RowsOfUtxos
<1>6. CASE EndOfBlock
  BY <1>1, <1>6 DEF EndOfBlock, CacheOK, RowsOfUtxos
<1>7. CASE Restart
  <2>1. first = txs + 1 /\ utxos_with_balance' = RowsOfUtxos(balances) /\ balances' = balances
        /\ listed' = listed
    BY <1>7 DEF Restart
  <2>2. DOMAIN listed = {}
    <3> SUFFICES ASSUME NEW k \in DOMAIN listed PROVE FALSE
      OBVIOUS
    <3>1. listed[k].tx \in first..txs /\ txs \in Nat
      BY UtxoFacts DEF Sound, ListedOK, TxOK, ChainOK
    <3> QED BY <2>1, <3>1
  <2> QED BY <2>1, <2>2 DEF CacheOK, RowsOfUtxos
<1>8. CASE UNCHANGED vars
  BY <1>1, <1>8 DEF vars, CacheOK, RowsOfUtxos
<1> QED BY <1>3, <1>4, <1>5, <1>6, <1>7, <1>8 DEF Next

\* UTXOBalancesCache always knows every output that has a row, and where the moves of the block
\* go to.
THEOREM CacheIsComplete == Spec => []CacheOK
<1> QED BY CacheInit, CacheStep, SpecIsSound, PTL DEF Spec

\* Between two blocks the cache knows every output that holds something, after a restart too.
THEOREM AttachedAreCached == Spec => []CacheCoversAttached
<1>1. CacheOK => CacheCoversAttached
  BY DEF CacheOK, RowsOfUtxos, CacheCoversAttached
<1> QED BY <1>1, CacheIsComplete, PTL

----------------------------------------------------------------------------
\* Spent outputs, and those that nobody can spend

\* At first nothing is spent, and no output is an OP_RETURN.
LEMMA SpentInit == Init => SpentOK /\ OpReturnOK
<1> SUFFICES ASSUME Init PROVE SpentOK /\ OpReturnOK
  OBVIOUS
<1>1. /\ DOMAIN owner = GenesisUtxo /\ unspent = GenesisUtxo
      /\ \A u \in DOMAIN owner : owner[u] = Genesis[u[2] + 1]
  BY DEF Init
<1>2. \A u \in DOMAIN owner : owner[u] # OpReturn
  BY <1>1, GenesisFacts, UtxoFacts
<1> QED BY <1>1, <1>2 DEF SpentOK, OpReturnOK

\* To hold nothing, by asset
LEMMA HoldsNothingIs ==
  ASSUME RowsOK(balances), NEW u \in Holder
  PROVE  HoldsNothing(u) <=> \A s \in Asset : Held(balances, u, s) = 0
BY DEF HoldsNothing, Held, RowsOK

\* What a move or an attachment can go to is not an OP_RETURN that is compared.
LEMMA CreditableIsNotCompared ==
  ASSUME NEW tx, Parsed(tx), NEW u \in Creditable(tx), owner[u] = OpReturn
  PROVE  ~IsCompared(u)
<1>1. PICK n \in DOMAIN tx.outs : /\ u = <<tx.tx, n - 1>>
                                  /\ tx.outs[n] = OpReturn => ~IsOpReturn(tx.outs, n - 1)
  BY DEF Creditable
<1>2. /\ \A m \in DOMAIN tx.outs : <<tx.tx, m - 1>> \in DOMAIN owner
                                    /\ owner[<<tx.tx, m - 1>>] = tx.outs[m]
      /\ DOMAIN tx.outs = 1..Len(tx.outs) /\ Len(tx.outs) \in 1..3
  BY DEF Parsed, TxOK, OutsAreOwned, Records
<1>3. tx.outs[n] = OpReturn /\ ~IsOpReturn(tx.outs, n - 1)
  BY <1>1, <1>2
<1> DEFINE N == {m \in DOMAIN tx.outs : tx.outs[m] = OpReturn}
<1>4. N \subseteq 1..3 /\ n \in N /\ \A m \in N : m \in DOMAIN tx.outs /\ tx.outs[m] = OpReturn
  BY <1>2, <1>3
<1>5. IsOpReturn(tx.outs, n - 1) <=> Min(N) - 1 # 0 /\ n - 1 = Min(N) - 1
  BY DEF IsOpReturn, OpReturnVout
<1> HIDE DEF N
<1>6. Min(N) \in N /\ \A m \in N : Min(N) <= m
  <2>1. \E x \in N : \A y \in N : x <= y
    <3>1. CASE 1 \in N
      BY <3>1, <1>4
    <3>2. CASE 1 \notin N /\ 2 \in N
      BY <3>2, <1>4
    <3>3. CASE 1 \notin N /\ 2 \notin N
      <4>1. \A m \in N : m = 3
        BY <3>3, <1>4
      <4>2. 3 \in N
        BY <4>1, <1>4
      <4> QED BY <4>1, <4>2
    <3> QED BY <3>1, <3>2, <3>3
  <2> QED BY <2>1 DEF Min
<1>7. CASE n = Min(N)
  BY <1>1, <1>3, <1>4, <1>5, <1>7 DEF IsCompared
<1>8. CASE n # Min(N)
  <2> DEFINE m == Min(N)
             v == <<tx.tx, m - 1>>
  <2>1. m < n /\ m \in 1..3 /\ n \in 1..3 /\ m \in DOMAIN tx.outs /\ tx.outs[m] = OpReturn
    BY <1>4, <1>6, <1>8
  <2> HIDE DEF m
  <2>2. v \in DOMAIN owner /\ owner[v] = OpReturn
    BY <1>2, <2>1
  <2>3. v[1] = u[1] /\ v[2] < u[2]
    BY <1>1, <2>1
  <2> HIDE DEF v
  <2> QED BY <2>2, <2>3 DEF IsCompared
<1> QED BY <1>7, <1>8

\* Outputs of the transactions that there may be
LEMMA FormFacts ==
  \A f \in Form : f.outs \in Seq(Address \cup {OpReturn}) /\ Len(f.outs) \in 1..3
<1> TAKE f \in Form
<1>1. /\ f.outs \in Seq(Address \cup {OpReturn}) /\ Len(f.outs) \in 1..3
      /\ f.message \in Messages
  BY FormAssumption
<1> QED BY <1>1

\* A transaction that is listed finds its inputs in the cache, unless they hold nothing and no
\* listed transaction will give them anything, or they are unseen.
LEMMA SpentListTx ==
  ASSUME Sound, Sound', CacheOK, SpentOK, OpReturnOK, ListTx
  PROVE  SpentOK' /\ OpReturnOK'
<1>1. PICK inputs, form : Lists(inputs, form)
  BY ListTxIs
<1>2. txs < MaxTxs /\ balances' = balances /\ first' = first
  BY ListTxIs
<1> DEFINE t == txs + 1
           sources == GetInputsWithBalance(inputs)
           new == NewOutputs(t, form.outs)
<1>3. /\ inputs \subseteq unspent /\ \A u \in inputs : owner[u] # OpReturn
      /\ DOMAIN owner' = DOMAIN owner \cup new
      /\ \A u \in DOMAIN owner' : owner'[u] = IF u \in DOMAIN owner THEN owner[u]
                                                                    ELSE form.outs[u[2] + 1]
      /\ unspent' = (unspent \ inputs) \cup new
      /\ \/ listed' = listed /\ sources = {}
         \/ \E tx \in GetTxInfo(t, form, inputs, sources) : listed' = Append(listed, tx)
      /\ unseen' = unseen \cup {u \in inputs \ sources : u[1] >= first /\ u \notin Destinations}
  BY <1>1 DEF Lists
<1>4. \A tx \in GetTxInfo(t, form, inputs, sources) :
        tx \in Records /\ tx.tx = t /\ tx.sources = sources
  BY <1>1, <1>2, RecordFacts
<1>5. /\ listed \in Seq(Records) /\ \A k \in DOMAIN listed : TxOK(listed[k])
      /\ DOMAIN listed = 1..Len(listed) /\ Len(listed) \in Nat
      /\ DOMAIN owner \subseteq Utxo /\ unspent \subseteq DOMAIN owner
      /\ \A u \in DOMAIN owner : u[1] <= txs
      /\ txs \in 0..MaxTxs /\ t \in 1..MaxTxs /\ first \in 1..(txs + 1)
  BY <1>2, UtxoFacts DEF Sound, ListedOK, ChainOK
<1>6. sources = inputs \cap utxos_with_balance
  BY DEF GetInputsWithBalance
<1>7. form.outs \in Seq(Address \cup {OpReturn}) /\ Len(form.outs) \in 1..3
  <2>1. form \in Form
    BY <1>1 DEF Lists
  <2> QED BY <2>1, FormFacts
<1>8. \A u \in new : u[1] = t /\ u \in Utxo
  BY <1>5, <1>7, OutputFacts
<1> HIDE DEF new, sources
<1>9. \/ listed' = listed /\ sources = {}
      \/ /\ DOMAIN listed' = 1..(Len(listed) + 1)
         /\ \A k \in DOMAIN listed : k \in DOMAIN listed' /\ listed'[k] = listed[k]
         /\ listed'[Len(listed) + 1].tx = t /\ listed'[Len(listed) + 1].sources = sources
         /\ Len(listed) + 1 \in DOMAIN listed'
         /\ \A k \in DOMAIN listed' : k \in DOMAIN listed \/ k = Len(listed) + 1
  BY <1>3, <1>4, <1>5
<1>10. \A k \in DOMAIN listed : k \in DOMAIN listed' /\ listed'[k] = listed[k]
  BY <1>9
<1>11. \A k \in DOMAIN listed' : k \in DOMAIN listed \/ listed'[k].tx = t
  BY <1>9
<1>12. SpentOK'
  <2> SUFFICES ASSUME NEW u \in DOMAIN owner' \ unspent'
               PROVE  \/ u \in unseen'
                      \/ \E k \in DOMAIN listed' : u \in listed'[k].sources
                      \/ HoldsNothing(u)' /\ \A k \in DOMAIN listed' : listed'[k].tx # u[1]
    BY DEF SpentOK
  <2>1. u \in DOMAIN owner /\ (u \in inputs \/ u \notin unspent) /\ u \in Utxo /\ u[1] < t
        /\ u[1] \in Nat
    BY <1>3, <1>5, UtxoFacts DEF t
  <2>2. CASE u \in sources
    <3>1. Len(listed) + 1 \in DOMAIN listed' /\ u \in listed'[Len(listed) + 1].sources
      BY <2>2, <1>9
    <3> QED BY <3>1
  <2>3. CASE u \in inputs \ sources
    <3>1. u \notin utxos_with_balance
      BY <2>3, <1>6
    <3>2. DOMAIN balances[u] = {}
      BY <2>1, <3>1 DEF CacheOK, RowsOfUtxos
    <3>3. HoldsNothing(u)'
      BY <1>2, <3>2 DEF HoldsNothing
    <3>4. u \notin Destinations
      <4> SUFFICES ASSUME NEW k \in DOMAIN listed, listed[k].sources # {},
                          u = listed[k].destination
                   PROVE  FALSE
        BY DEF Destinations
      <4> QED BY <2>1, <3>1, UtxoFacts DEF CacheOK
    <3>5. CASE u[1] >= first
      BY <2>3, <3>4, <3>5, <1>3
    <3>6. CASE ~(u[1] >= first)
      <4>1. \A k \in DOMAIN listed : listed[k].tx # u[1]
        BY <3>6, <1>5, <2>1 DEF TxOK
      <4>2. \A k \in DOMAIN listed' : listed'[k].tx # u[1]
        BY <4>1, <1>10, <1>11, <2>1, <1>5
      <4> QED BY <3>3, <4>2
    <3> QED BY <3>5, <3>6
  <2>4. CASE u \notin unspent
    <3>1. \/ u \in unseen
          \/ \E k \in DOMAIN listed : u \in listed[k].sources
          \/ HoldsNothing(u) /\ \A k \in DOMAIN listed : listed[k].tx # u[1]
      BY <2>1, <2>4 DEF SpentOK
    <3>2. CASE u \in unseen
      BY <3>2, <1>3
    <3>3. CASE \E k \in DOMAIN listed : u \in listed[k].sources
      BY <3>3, <1>10
    <3>4. CASE HoldsNothing(u) /\ \A k \in DOMAIN listed : listed[k].tx # u[1]
      <4>1. \A k \in DOMAIN listed' : listed'[k].tx # u[1]
        BY <3>4, <1>10, <1>11, <2>1, <1>5
      <4>2. HoldsNothing(u)'
        BY <3>4, <1>2 DEF HoldsNothing
      <4> QED BY <4>1, <4>2
    <3> QED BY <3>1, <3>2, <3>3, <3>4
  <2> QED BY <2>1, <2>2, <2>3, <2>4
<1>13. OpReturnOK'
  <2> SUFFICES ASSUME NEW u \in DOMAIN owner', owner'[u] = OpReturn, IsCompared(u)'
               PROVE  DOMAIN balances'[u] = {}
    BY DEF OpReturnOK
  <2>1. CASE u \in DOMAIN owner
    <3>1. owner[u] = OpReturn
      BY <2>1, <1>3
    <3>2. IsCompared(u)
      BY <1>3 DEF IsCompared
    <3> QED BY <2>1, <3>1, <3>2, <1>2 DEF OpReturnOK
  <2>2. CASE u \notin DOMAIN owner
    <3>1. u \in Utxo
      BY <2>2, <1>3, <1>8
    <3> QED BY <2>2, <3>1, <1>2 DEF Sound, RowsOfOutputs, RowsOfUtxos
  <2> QED BY <2>1, <2>2
<1> QED BY <1>12, <1>13

\* One that is parsed empties its sources, and gives only to its own outputs, which none of the
\* outputs that are empty for good is.
LEMMA SpentParseTx ==
  ASSUME Sound, Sound', SpentOK, OpReturnOK, ParseTx
  PROVE  SpentOK' /\ OpReturnOK'
<1> DEFINE tx == Head(listed)
<1>1. /\ listed # <<>> /\ listed' = Tail(listed) /\ Effect(tx, balances')
      /\ unseen' = IF Ignored(tx) THEN unseen \cup tx.sources ELSE unseen
  BY ParseTxEffect
<1>2. /\ Parsed(tx) /\ tx = listed[1] /\ 1 \in DOMAIN listed
      /\ \A k \in DOMAIN Tail(listed) : k + 1 \in DOMAIN listed /\ Tail(listed)[k] = listed[k + 1]
      /\ \A k \in DOMAIN listed : k = 1 \/ k - 1 \in DOMAIN Tail(listed)
  BY <1>1, HeadFacts
<1>3. owner' = owner /\ unspent' = unspent
  BY DEF ParseTx, chain
<1>4. /\ DOMAIN owner \subseteq Utxo /\ RowsOK(balances) /\ DOMAIN listed \subseteq Int
      /\ \A j, k \in DOMAIN listed : j < k => listed[j].tx < listed[k].tx
      /\ \A k \in DOMAIN listed : listed[k].tx \in Nat
      /\ \A k \in DOMAIN listed : k >= 1
      /\ \A k \in DOMAIN listed : \A u \in listed[k].sources : u[1] < listed[k].tx
  <2>1. DOMAIN listed = 1..Len(listed) /\ Len(listed) \in Nat
        /\ \A k \in DOMAIN listed : listed[k].tx \in Nat
    <3>1. listed \in Seq(Records)
      BY DEF Sound, ListedOK
    <3>2. \A x \in Records : x.tx \in Nat
      BY DEF Records
    <3> QED BY <3>1, <3>2
  <2>2. \A k \in DOMAIN listed : \A u \in listed[k].sources : u[1] < listed[k].tx
    BY DEF Sound, ListedOK, TxOK, InputsAreOlder
  <2> QED BY <2>1, <2>2 DEF Sound, ChainOK, ListedOK
<1> HIDE DEF tx
<1>5. /\ RowsOK(balances')
      /\ \A u \in Utxo \ Creditable(tx) :
           DOMAIN balances'[u] = DOMAIN balances[u]
           /\ \A s \in Asset : Held(balances', u, s) <= Held(balances, u, s)
      /\ \A u \in Creditable(tx) : u \in DOMAIN owner /\ u[1] = tx.tx
  BY <1>1, <1>2, EffectOnUtxos
<1>6. OpReturnOK'
  <2> SUFFICES ASSUME NEW u \in DOMAIN owner', owner'[u] = OpReturn, IsCompared(u)'
               PROVE  DOMAIN balances'[u] = {}
    BY DEF OpReturnOK
  <2>1. u \in DOMAIN owner /\ owner[u] = OpReturn /\ IsCompared(u) /\ u \in Utxo
    BY <1>3, <1>4 DEF IsCompared
  <2>2. u \notin Creditable(tx)
    BY <1>2, <2>1, CreditableIsNotCompared
  <2> QED BY <2>1, <2>2, <1>5 DEF OpReturnOK
<1>7. SpentOK'
  <2> SUFFICES ASSUME NEW u \in DOMAIN owner' \ unspent'
               PROVE  \/ u \in unseen'
                      \/ \E k \in DOMAIN listed' : u \in listed'[k].sources
                      \/ HoldsNothing(u)' /\ \A k \in DOMAIN listed' : listed'[k].tx # u[1]
    BY DEF SpentOK
  <2>1. u \in DOMAIN owner \ unspent /\ u \in Utxo /\ u \in Holder /\ u[1] \in Nat
    BY <1>3, <1>4, UtxoFacts
  <2>2. \A k \in DOMAIN listed' : /\ k + 1 \in DOMAIN listed /\ listed'[k] = listed[k + 1]
                                  /\ 1 < k + 1 /\ tx.tx < listed'[k].tx
    <3> TAKE k \in DOMAIN listed'
    <3>1. k + 1 \in DOMAIN listed /\ listed'[k] = listed[k + 1] /\ k \in DOMAIN Tail(listed)
      BY <1>1, <1>2
    <3>2. DOMAIN Tail(listed) = 1..(Len(listed) - 1) /\ Len(listed) \in Nat
      BY <1>1 DEF Sound, ListedOK
    <3>3. 1 < k + 1
      BY <3>1, <3>2
    <3> QED BY <1>2, <1>4, <3>1, <3>3
  <2>3. u \in Utxo => (HoldsNothing(u)' <=> \A s \in Asset : Held(balances', u, s) = 0)
    BY <1>5, <2>1 DEF HoldsNothing, Held, RowsOK
  <2>4. CASE u \in tx.sources
    <3>1. CASE Ignored(tx)
      BY <2>4, <3>1, <1>1
    <3>2. CASE ~Ignored(tx)
      <4>1. HoldsNothing(u)'
        BY <1>1, <2>1, <2>3, <2>4, <3>2 DEF Effect, Emptied
      <4>2. u[1] < tx.tx /\ tx.tx \in Nat
        BY <1>2, <1>4, <2>4
      <4>3. \A k \in DOMAIN listed' : listed'[k].tx # u[1]
        <5> TAKE k \in DOMAIN listed'
        <5>1. tx.tx < listed'[k].tx /\ listed'[k].tx \in Nat
          BY <2>2, <1>4
        <5> QED BY <4>2, <5>1, <2>1
      <4> QED BY <4>1, <4>3
    <3> QED BY <3>1, <3>2
  <2>5. CASE u \in unseen
    BY <2>5, <1>1
  <2>6. CASE \E k \in DOMAIN listed : k # 1 /\ u \in listed[k].sources
    <3>1. PICK k \in DOMAIN listed : k # 1 /\ u \in listed[k].sources
      BY <2>6
    <3>2. k - 1 \in DOMAIN listed' /\ k \in Int
      BY <3>1, <1>1, <1>2, <1>4
    <3>3. listed'[k - 1] = listed[(k - 1) + 1] /\ (k - 1) + 1 = k
      BY <3>2, <2>2
    <3> QED BY <3>1, <3>2, <3>3
  <2>7. CASE HoldsNothing(u) /\ \A k \in DOMAIN listed : listed[k].tx # u[1]
    <3>1. tx.tx # u[1]
      BY <2>7, <1>2
    <3>2. u \notin Creditable(tx)
      BY <3>1, <1>5
    <3>3. \A s \in Asset : Held(balances, u, s) = 0
      BY <2>7, <2>1, <1>4, HoldsNothingIs
    <3>4. \A s \in Asset : Held(balances', u, s) = 0
      <4> TAKE s \in Asset
      <4>1. Held(balances', u, s) <= Held(balances, u, s)
        BY <2>1, <3>2, <1>5
      <4>2. Held(balances', u, s) \in Nat
        BY <2>1, <1>5, HeldNat
      <4> QED BY <3>3, <4>1, <4>2
    <3>5. \A k \in DOMAIN listed' : listed'[k].tx # u[1]
      BY <2>7, <2>2
    <3> QED BY <2>1, <2>3, <3>4, <3>5
  <2>8. \/ u \in unseen
        \/ \E k \in DOMAIN listed : u \in listed[k].sources
        \/ HoldsNothing(u) /\ \A k \in DOMAIN listed : listed[k].tx # u[1]
    BY <2>1 DEF SpentOK
  <2> QED BY <2>4, <2>5, <2>6, <2>7, <2>8, <1>2
<1> QED BY <1>6, <1>7

\* So do all steps keep what is said of spent outputs.
LEMMA SpentStep ==
  Sound /\ Sound' /\ CacheOK /\ SpentOK /\ OpReturnOK /\ [Next]_vars => SpentOK' /\ OpReturnOK'
<1> SUFFICES ASSUME Sound, Sound', CacheOK, SpentOK, OpReturnOK, [Next]_vars
             PROVE  SpentOK' /\ OpReturnOK'
  OBVIOUS
<1>1. CASE ListTx
  BY <1>1, SpentListTx
<1>2. CASE ParseTx
  BY <1>2, SpentParseTx
<1>3. CASE EndOfList \/ EndOfBlock \/ Restart \/ UNCHANGED vars
  <2>1. owner' = owner /\ unspent' = unspent /\ unseen' = unseen /\ balances' = balances
        /\ listed' = listed
    BY <1>3 DEF EndOfList, EndOfBlock, Restart, vars, chain
  <2>2. \A u : HoldsNothing(u) => HoldsNothing(u)'
    BY <2>1 DEF HoldsNothing
  <2>3. SpentOK'
    BY <2>1 DEF SpentOK, HoldsNothing
  <2>4. OpReturnOK'
    BY <2>1 DEF OpReturnOK, IsCompared
  <2> QED BY <2>3, <2>4
<1> QED BY <1>1, <1>2, <1>3 DEF Next

\* What is attached follows its output whatever transactions are in a block and however they
\* chain: a spent output is left with nothing, but for the three exemptions.
THEOREM AttachedFollowTheirOutput == Spec => []NothingIsLeftBehind
<1>1. Sound /\ SpentOK /\ OpReturnOK => NothingIsLeftBehind
  <2> SUFFICES ASSUME Sound, SpentOK, OpReturnOK, listed = <<>>,
                      NEW u \in DOMAIN owner, u \notin unspent \/ owner[u] = OpReturn,
                      \E s \in DOMAIN balances[u] : balances[u][s] > 0
               PROVE  u \in unseen \/ (owner[u] = OpReturn /\ ~IsCompared(u))
    BY DEF NothingIsLeftBehind
  <2>1. ~HoldsNothing(u)
    BY DEF HoldsNothing
  <2>2. CASE u \notin unspent
    BY <2>1, <2>2 DEF SpentOK
  <2>3. CASE owner[u] = OpReturn
    BY <2>3 DEF OpReturnOK
  <2> QED BY <2>2, <2>3
<1>2. Spec => [](Sound /\ CacheOK)
  BY SpecIsSound, CacheIsComplete, PTL
<1>3. Spec => [](SpentOK /\ OpReturnOK)
  BY SpentInit, SpentStep, <1>2, PTL DEF Spec
<1> QED BY <1>1, <1>2, <1>3, PTL

=============================================================================
