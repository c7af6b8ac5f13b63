------------------------------ MODULE Holdings ------------------------------
(***************************************************************************)
(* Who holds what in counterparty-core: sends (messages/versions), sweeps  *)
(* (messages/sweep.py), and assets that are attached to an output of a     *)
(* Bitcoin transaction and follow it when it is spent (messages/attach.py, *)
(* detach.py, move.py, gettxinfo.py, ledger.UTXOBalancesCache).            *)
(*                                                                         *)
(* The transactions of a block are first listed, all of them, and then     *)
(* parsed.  Which inputs hold assets is looked up in a cache when a        *)
(* transaction is listed, before the earlier ones of its block are parsed. *)
(*                                                                         *)
(* The rules are those of mainnet since block 871900.  Memos, and the      *)
(* addresses that ask for one, are left out.                               *)
(***************************************************************************)
EXTENDS Integers, Sequences, FiniteSets, FiniteSetsExt, Functions

CONSTANTS
  Address, Asset,
  XCP,             \* the asset in which fees are paid
  OpReturn,        \* the "owner" of an output that nobody can spend
  Unspendable,     \* the address of burns, whose key nobody has
  Nobody,
  Genesis,         \* the owners of the outputs that are there at first
  Funds,           \* what addresses and those outputs hold at first
  Issuers,         \* who issued each asset
  Form,            \* bound: messages, with the owners of the outputs in order
  Period,          \* PERIOD_DURATION
  GasFee,          \* calculate_fee(), by the average of attachments per block
  SweepFee,        \* sweep_antispam_fee
  FirstBlock, LastBlock,   \* bound: blocks
  FollowsFrom,     \* blocks before this one come from the fetcher, the others from a notification
  MaxTxs           \* bound: Bitcoin transactions

Sends == [asset : Asset, destination : Address, quantity : Nat \ {0}]

\* An old send goes to the destination of its transaction, and may be of nothing.
SendMessages == [kind : {"send"}, asset : Asset, quantity : Nat]
EnhancedSendMessages == [kind : {"enhanced_send"}, send : Sends]
\* The sends of an mpma name a destination once for an asset.
MultiSendMessages ==
  {m \in [kind : {"mpma"}, sends : SUBSET Sends] :
     \A s, t \in m.sends : s.asset = t.asset /\ s.destination = t.destination => s = t}
SweepMessages ==
  [kind : {"sweep"}, destination : Address, flags : SUBSET {"balances", "ownership"}]
\* A vout of -1 and the destination Nobody are the ones that are not given.
AttachMessages ==
  [kind : {"attach"}, asset : Asset, quantity : Nat, vout : {-1, 0, 1, 2}]
DetachMessages == [kind : {"detach"}, destination : Address \cup {Nobody}]
Messages == [kind : {"none"}] \cup SendMessages \cup EnhancedSendMessages
              \cup MultiSendMessages \cup SweepMessages \cup AttachMessages \cup DetachMessages

\* An output: the number of its transaction (0 for those that are there at first) and
\* its place in it.
Utxo == (0..MaxTxs) \X (0..2)
Holder == Address \cup Utxo \cup {Nobody}
GenesisUtxo == {<<0, n - 1>> : n \in DOMAIN Genesis}

ASSUME HoldingsAssumption ==
  /\ XCP \in Asset /\ IsFiniteSet(Asset)
  /\ Unspendable \in Address
  /\ Nobody \notin Address \cup Utxo /\ OpReturn \notin Address /\ Address \cap Utxo = {}
  /\ Genesis \in Seq(Address) /\ Len(Genesis) <= 3
  /\ Issuers \in [Asset \ {XCP} -> Address]
  /\ Period \in Nat \ {0} /\ SweepFee \in Nat
  /\ {FirstBlock, LastBlock, FollowsFrom, MaxTxs} \subseteq Nat /\ FirstBlock <= LastBlock
  /\ DOMAIN GasFee = 0..MaxTxs /\ \A n \in 0..MaxTxs : GasFee[n] \in Nat

ASSUME FormAssumption ==
  \A form \in Form : /\ form.outs \in Seq(Address \cup {OpReturn}) /\ Len(form.outs) \in 1..3
                      /\ form.message \in Messages
                      /\ (form.message.kind = "mpma" => IsFiniteSet(form.message.sends))

\* Only the outputs that are there at first hold something then.
ASSUME FundsAssumption ==
  /\ DOMAIN Funds = Holder
  /\ \A h \in Holder : /\ DOMAIN Funds[h] \subseteq Asset
                        /\ \A s \in DOMAIN Funds[h] : Funds[h][s] \in Nat
  /\ \A u \in Utxo \ GenesisUtxo : DOMAIN Funds[u] = {}

VARIABLES
  block_index,
  txs,             \* Bitcoin transactions so far
  first,           \* the first of the block
  owner,           \* of every output so far
  unspent,
  utxos_with_balance,      \* UTXOBalancesCache
  listed,          \* the `transactions` of the block that are not parsed yet
  parsing,         \* whether the block is being parsed
  balances,        \* by holder: a function of the assets it has a row for
  issuers,         \* of each asset: the issuers of its rows
  transaction_count,
  unseen           \* outputs spent before what was attached to them in the block

chain == <<txs, first, owner, unspent>>
vars == <<block_index, chain, utxos_with_balance, listed, parsing, balances, issuers,
          transaction_count, unseen>>

Held(b, h, s) == IF s \in DOMAIN b[h] THEN b[h][s] ELSE 0

\* init of the cache: the outputs that have a row, whatever the quantity
RowsOfUtxos(b) == {u \in Utxo : DOMAIN b[u] # {}}

Init ==
  /\ block_index = FirstBlock /\ txs = 0 /\ first = 1
  /\ owner = [u \in GenesisUtxo |-> Genesis[u[2] + 1]] /\ unspent = GenesisUtxo
  /\ balances = Funds /\ utxos_with_balance = RowsOfUtxos(Funds)
  /\ listed = <<>> /\ parsing = FALSE
  /\ issuers = [s \in DOMAIN Issuers |-> <<Issuers[s]>>]
  /\ transaction_count = [b \in FirstBlock..LastBlock |-> 0]
  /\ unseen = {}

----------------------------------------------------------------------------
\* list_tx() and get_tx_info()

GetInputsWithBalance(inputs) == inputs \cap utxos_with_balance

\* The first output that is not an OP_RETURN.
FirstOutputs(outs) == {n \in DOMAIN outs : outs[n] # OpReturn}
HasOutput(outs) == FirstOutputs(outs) # {}
FirstOutput(t, outs) == <<t, Min(FirstOutputs(outs)) - 1>>

HasData(outs) == \E n \in DOMAIN outs : outs[n] = OpReturn
OpReturnVout(outs) == Min({n \in DOMAIN outs : outs[n] = OpReturn}) - 1

\* A burn: its first destination is its only one, and only data that come next are read.
IsBurn(outs) == outs[1] = Unspendable
DataIsReached(outs) == IsBurn(outs) => Len(outs) > 1 /\ outs[2] = OpReturn

\* Outputs before the data are destinations, the others are change.
OutputsBeforeData(outs) ==
  {n \in DOMAIN outs : (IsBurn(outs) => n = 1) /\ \A k \in 1..n : outs[k] # OpReturn}
\* A transaction with several destinations is recorded, and its message is ignored.
SeveralDestinations(outs) == Cardinality(OutputsBeforeData(outs)) > 1

\* The source is the owner of the first input.
FirstInputSources(inputs) == {owner[u] : u \in inputs}

\* The fetcher delivers no output after the first that is change, or data of something
\* else; a notification has them all.
Stops(form) ==
  {n \in DOMAIN form.outs :
     IF form.outs[n] = OpReturn THEN form.message.kind = "none"
     ELSE n > 1 /\ (IsBurn(form.outs) \/ \E k \in 1..n : form.outs[k] = OpReturn)}
Outputs(form) ==
  IF block_index < FollowsFrom /\ Stops(form) # {}
    THEN SubSeq(form.outs, 1, Min(Stops(form))) ELSE form.outs

\* Without data, and if it is no burn, a transaction has no source.
HasNoSource(form) == form.message.kind = "none" /\ DataIsReached(form.outs)

\* What is recorded of transaction t
GetTxInfo(t, form, inputs, sources) ==
  [tx : {t}, outs : {Outputs(form)}, inputs : {inputs},
   sources : {sources},
   message : {IF DataIsReached(form.outs) THEN form.message ELSE [kind |-> "none"]},
   source : IF HasNoSource(form) THEN {Nobody} ELSE FirstInputSources(inputs),
   destination : {IF HasOutput(Outputs(form)) THEN FirstOutput(t, Outputs(form)) ELSE Nobody}]

\* "update utxo balances cache before parsing the transaction to catch chained utxo
\* moves"
CacheLater(t, outs, sources) == utxos_with_balance
CacheWithMove(t, outs, sources) ==
  IF sources # {} /\ HasOutput(outs)
    THEN utxos_with_balance \cup {FirstOutput(t, outs)}
    ELSE utxos_with_balance

\* Where the moves of the block go
Destinations ==
  {listed[k].destination : k \in {k \in DOMAIN listed : listed[k].sources # {}}}

ListTx ==
  /\ ~parsing /\ txs < MaxTxs
  /\ \E inputs \in SUBSET {u \in unspent : owner[u] \notin {OpReturn, Unspendable}},
        form \in Form :
       LET t == txs + 1
           m == form.message
           outs == form.outs
           sources == GetInputsWithBalance(inputs)
       IN
       /\ Cardinality(inputs) \in 1..2
       /\ m.kind # "none" => HasData(outs)
       /\ txs' = t
       /\ owner' = [u \in DOMAIN owner \cup {<<t, n - 1>> : n \in DOMAIN outs} |->
                      IF u \in DOMAIN owner THEN owner[u] ELSE outs[u[2] + 1]]
       /\ unspent' = (unspent \ inputs) \cup {<<t, n - 1>> : n \in DOMAIN outs}
       /\ utxos_with_balance' = CacheWithMove(t, Outputs(form), sources)
       /\ IF HasNoSource(form) /\ sources = {} THEN UNCHANGED listed
          ELSE \E tx \in GetTxInfo(t, form, inputs, sources) : listed' = Append(listed, tx)
       /\ unseen' = unseen \cup {u \in inputs \ sources : u[1] >= first /\ u \notin Destinations}
  /\ UNCHANGED <<block_index, first, parsing, balances, issuers, transaction_count>>

----------------------------------------------------------------------------
\* Debits and credits

Transfer(from, to, asset, quantity) ==
  [from |-> from, to |-> to, asset |-> asset, quantity |-> quantity]
Quantities(T) == SumFunctionOnSet([t \in T |-> t.quantity], T)

\* b after the transfers T.  A credit makes a row, a debit none.
Transferred(b, T) ==
  [h \in Holder |->
     [s \in DOMAIN b[h] \cup {t.asset : t \in {t \in T : t.to = h}} |->
        Held(b, h, s) + Quantities({t \in T : t.to = h /\ t.asset = s})
                      - Quantities({t \in T : t.from = h /\ t.asset = s})]]

\* All that a holder has, to another
All(b, from, to) ==
  {Transfer(from, to, s, b[from][s]) : s \in {s \in DOMAIN b[from] : b[from][s] > 0}}

----------------------------------------------------------------------------
\* move.move_assets(): every input that holds assets gives them to the destination,
\* or to its owner when the transaction has no other output than an OP_RETURN.

Moves(b, tx) ==
  UNION {All(b, u, IF tx.destination = Nobody THEN owner[u] ELSE tx.destination)
         : u \in tx.sources}
Moved(b, tx) == Transferred(b, Moves(b, tx))

\* detach.parse(): to the address that is named, or to the owner of each input
UtxosOfSource(tx) == tx.sources \cup {u \in DOMAIN owner : owner[u] = tx.source}
DetachedFrom(tx) == tx.sources
Detached(b, tx) ==
  Transferred(b, UNION {All(b, u, IF tx.message.destination = Nobody THEN owner[u]
                                    ELSE tx.message.destination)
                        : u \in DetachedFrom(tx)})

\* gas.increment_counter(); a block without a counter has a count of 0.
IncrementCounter ==
  transaction_count' = [transaction_count EXCEPT ![block_index] = @ + 1]

\* get_transaction_fee(): the blocks before this one, without it
LastPeriod == {b \in FirstBlock..LastBlock : block_index - Period <= b /\ b < block_index}
AttachFee ==
  IF block_index < Period THEN GasFee[0]
  ELSE GasFee[SumFunctionOnSet(transaction_count, LastPeriod) \div Period]

\* An OP_RETURN that is the first output is written as "" and so not compared.
IsOpReturn(outs, vout) == OpReturnVout(outs) # 0 /\ vout = OpReturnVout(outs)

ValidAssetAndQuantity(m) == m.asset \in Asset /\ m.quantity > 0
MayAttach(b, tx) ==
  LET m == tx.message
      need(s) == (IF s = m.asset THEN m.quantity ELSE 0) + (IF s = XCP THEN AttachFee ELSE 0)
  IN  /\ ValidAssetAndQuantity(m)
      /\ \A s \in {m.asset, XCP} : Held(b, tx.source, s) >= need(s)
      /\ IF m.vout = -1 THEN tx.destination # Nobody
         ELSE m.vout < Len(tx.outs) /\ ~IsOpReturn(tx.outs, m.vout)
AttachedTo(tx) == IF tx.message.vout = -1 THEN tx.destination
                                          ELSE <<tx.tx, tx.message.vout>>
FeePaid(b, tx) ==
  IF AttachFee > 0 THEN Transferred(b, {Transfer(tx.source, Nobody, XCP, AttachFee)}) ELSE b
Attached(b, tx) ==
  Transferred(FeePaid(b, tx),
              {Transfer(tx.source, AttachedTo(tx), tx.message.asset, tx.message.quantity)})

\* send1.parse() sends what there is if that is less, and only asks for a balance, were it
\* of 0.  Its destination is the output before the data.
SentUpToBalance(b, tx) ==
  LET m == tx.message
      held == Held(b, tx.source, m.asset)
  IN  IF m.asset \in DOMAIN b[tx.source] /\ 1 \in OutputsBeforeData(tx.outs)
        THEN Transferred(b, {Transfer(tx.source, tx.outs[1], m.asset,
                                      IF held < m.quantity THEN held ELSE m.quantity)})
        ELSE b

\* enhanced_send.parse() sends all or nothing.
SentWhole(b, tx) ==
  LET send == tx.message.send
  IN  IF Held(b, tx.source, send.asset) >= send.quantity
        THEN Transferred(b, {Transfer(tx.source, send.destination, send.asset, send.quantity)})
        ELSE b

\* mpma.parse(): all of the sends or none
Transfers(tx) ==
  {Transfer(tx.source, send.destination, send.asset, send.quantity) : send \in tx.message.sends}
EnoughForEach(b, tx) ==
  \A t \in Transfers(tx) :
    Held(b, tx.source, t.asset) > 0 /\ Held(b, tx.source, t.asset) >= t.quantity
Enough(b, tx) ==
  \A s \in {t.asset : t \in Transfers(tx)} :
    /\ Held(b, tx.source, s) > 0
    /\ Held(b, tx.source, s) >= Quantities({t \in Transfers(tx) : t.asset = s})
MultiSent(b, tx) ==
  IF Cardinality(tx.message.sends) > 1 /\ Enough(b, tx) THEN Transferred(b, Transfers(tx)) ELSE b

\* sweep.parse(): the fee counts the rows of the source and the assets it has issued.
IssuedBy(a) == {s \in DOMAIN issuers : \E k \in DOMAIN issuers[s] : issuers[s][k] = a}
OwnedBy(a) == {s \in DOMAIN issuers : issuers[s][Len(issuers[s])] = a}
TotalFee(b, a) == SweepFee * (2 * Cardinality(DOMAIN b[a]) + 4 * Cardinality(IssuedBy(a)))

MaySweep(b, tx) ==
  /\ tx.message.destination # tx.source /\ tx.message.flags # {}
  /\ Held(b, tx.source, XCP) >= TotalFee(b, tx.source)
Swept(b, tx) ==
  LET paid == Transferred(b, {Transfer(tx.source, Nobody, XCP, TotalFee(b, tx.source))})
  IN  IF "balances" \in tx.message.flags
        THEN Transferred(paid, {Transfer(tx.source, tx.message.destination, s, paid[tx.source][s])
                                  : s \in DOMAIN paid[tx.source]})
        ELSE paid
IssuersAfterSweep(tx) ==
  [s \in DOMAIN issuers |->
     IF s \in OwnedBy(tx.source) THEN Append(issuers[s], tx.message.destination)
                                 ELSE issuers[s]]

----------------------------------------------------------------------------
\* parse_tx()

\* It returns before it looks at the message; what burn.parse() credits is history.
ReturnsEarly(tx) == SeveralDestinations(tx.outs) \/ IsBurn(tx.outs)
IsRead(tx, kinds) == tx.message.kind \in kinds /\ ~ReturnsEarly(tx)

\* The cache learns every output that is credited.
CacheKept(b) == utxos_with_balance
CacheCredits(b) == utxos_with_balance \cup RowsOfUtxos(b)

\* All but attach and detach move the assets of the inputs before the message is read.
ParseOther(tx) ==
  LET b == Moved(balances, tx) IN
  /\ tx.message.kind \notin {"attach", "detach"}
  /\ balances' = CASE IsRead(tx, {"send"}) -> SentUpToBalance(b, tx)
                   [] IsRead(tx, {"enhanced_send"}) -> SentWhole(b, tx)
                   [] IsRead(tx, {"mpma"}) -> MultiSent(b, tx)
                   [] IsRead(tx, {"sweep"}) /\ MaySweep(b, tx) -> Swept(b, tx)
                   [] OTHER -> b
  /\ issuers' = IF /\ IsRead(tx, {"sweep"}) /\ MaySweep(b, tx)
                   /\ "ownership" \in tx.message.flags
                  THEN IssuersAfterSweep(tx) ELSE issuers
  /\ UNCHANGED transaction_count

ParseAttach(tx) ==
  /\ IsRead(tx, {"attach"})
  /\ IF MayAttach(balances, tx)
       THEN /\ balances' = Moved(Attached(balances, tx), tx)
            /\ IncrementCounter
       ELSE /\ balances' = Moved(balances, tx)
            /\ UNCHANGED transaction_count
  /\ UNCHANGED issuers

ParseDetach(tx) ==
  /\ IsRead(tx, {"detach"})
  /\ balances' = Detached(balances, tx)
  /\ UNCHANGED <<issuers, transaction_count>>

\* Of an attach or a detach that is not read, nothing is moved either.
ParseIgnored(tx) ==
  /\ tx.message.kind \in {"attach", "detach"} /\ ReturnsEarly(tx)
  /\ UNCHANGED <<balances, issuers, transaction_count>>

ParseTx ==
  /\ parsing /\ listed # <<>>
  /\ LET tx == Head(listed) IN
     /\ ParseOther(tx) \/ ParseAttach(tx) \/ ParseDetach(tx) \/ ParseIgnored(tx)
     /\ utxos_with_balance' = CacheCredits(balances')
     /\ unseen' = IF tx.message.kind \in {"attach", "detach"} /\ ReturnsEarly(tx)
                    THEN unseen \cup tx.sources ELSE unseen
  /\ listed' = Tail(listed)
  /\ UNCHANGED <<block_index, chain, parsing>>

EndOfList ==
  /\ ~parsing /\ first <= txs
  /\ parsing' = TRUE
  /\ UNCHANGED <<block_index, chain, utxos_with_balance, listed, balances, issuers,
                 transaction_count, unseen>>

EndOfBlock ==
  /\ parsing /\ listed = <<>> /\ block_index < LastBlock
  /\ parsing' = FALSE /\ block_index' = block_index + 1 /\ first' = txs + 1
  /\ UNCHANGED <<txs, owner, unspent, utxos_with_balance, listed, balances, issuers,
                 transaction_count, unseen>>

\* The process is started again between two blocks.
Restart ==
  /\ ~parsing /\ first = txs + 1
  /\ utxos_with_balance' = RowsOfUtxos(balances)
  /\ UNCHANGED <<block_index, chain, listed, parsing, balances, issuers,
                 transaction_count, unseen>>

Next == ListTx \/ EndOfList \/ ParseTx \/ EndOfBlock \/ Restart

Spec == Init /\ [][Next]_vars

----------------------------------------------------------------------------
\* Properties

\* Every variable keeps its type: no balance is overdrawn, whatever is sent at once.
TypeOK ==
  /\ block_index \in FirstBlock..LastBlock /\ txs \in 0..MaxTxs /\ first \in 1..(MaxTxs + 1)
  /\ unspent \subseteq DOMAIN owner /\ DOMAIN owner \subseteq Utxo
  /\ utxos_with_balance \subseteq Utxo /\ unseen \subseteq Utxo /\ parsing \in BOOLEAN
  /\ DOMAIN balances = Holder
  /\ \A h \in Holder : DOMAIN balances[h] \subseteq Asset
                       /\ \A s \in DOMAIN balances[h] : balances[h][s] \in Nat
  /\ \A s \in DOMAIN issuers : issuers[s] \in Seq(Address) \ {<<>>}

\* Between two blocks, the cache knows every output that holds something, so that the
\* transaction that spends it will be recorded; also after a restart.
CacheCoversAttached ==
  ~parsing /\ first = txs + 1 =>
    \A u \in Utxo : (\E s \in DOMAIN balances[u] : balances[u][s] > 0)
                      => u \in utxos_with_balance

\* The OP_RETURN that attach.parse() refuses to attach to
IsCompared(u) == u[2] # 0 /\ \A v \in DOMAIN owner : v[1] = u[1] /\ v[2] < u[2] => owner[v] # OpReturn

\* What is attached moves with its output: an output that is spent, or is an OP_RETURN,
\* holds nothing once its block is parsed, unless (a) it was spent in the very block in
\* which something was attached to it, (b) it was spent by an attach or a detach that is
\* not read, because it has several destinations or is also a burn, or (c) it is an
\* OP_RETURN that is the first output, or not the first OP_RETURN, of its transaction.
NothingIsLeftBehind ==
  parsing /\ listed = <<>> =>
    \A u \in DOMAIN owner :
      /\ u \notin unspent \/ owner[u] = OpReturn
      /\ \E s \in DOMAIN balances[u] : balances[u][s] > 0
      => u \in unseen \/ (owner[u] = OpReturn /\ ~IsCompared(u))

\* A transaction takes only from its source and from the outputs it spends.
OnlyTheirOwn ==
  [][\A h \in Holder : \A s \in DOMAIN balances[h] :
       Held(balances', h, s) < balances[h][s]
         => \/ h = Head(listed).source
            \/ h \in Head(listed).inputs]_vars
=============================================================================
