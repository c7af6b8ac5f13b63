------------------------------- MODULE Coins -------------------------------
(***************************************************************************)
(* Composition of transactions: how the threads of the API choose the      *)
(* coins that pay for a transaction, and how UTXOLocks keeps two of them   *)
(* from choosing the same one (lib/transaction.py, construct;              *)
(* lib/transaction_helper/transaction_inputs.py and                        *)
(* transaction_outputs.py).  One process: the workers of gunicorn are      *)
(* processes of their own and share no locks.                              *)
(*                                                                         *)
(* Bytes are left out: the data of a message is its length, an address is  *)
(* its kind and its public key, a transaction is the coins it spends, its  *)
(* change and its fee.  `p2sh' encoding is refused by determine_encoding,  *)
(* so what comes after it for that encoding is left out, with the second   *)
(* kind of locks that only it would take.                                  *)
(***************************************************************************)
EXTENDS Integers, SequencesExt, FiniteSetsExt

CONSTANTS
  Thread,         \* the threads that serve requests
  Coin,           \* outpoint -> what the backend and the ledger know of it
  Address,        \* address -> [kind, published: is its public key on the chain]
  Requests,       \* what the callers of construct() may ask for
  Estimate,       \* the fee rate bitcoind estimates, per 1000 bytes
  FallsShort,     \* <<size, fee rate>> whose double product is just below an integer
  MaxAge,         \* config.UTXO_LOCKS_MAX_AGE
  MaxAddresses,   \* config.UTXO_LOCKS_MAX_ADDRESSES
  MaxTime,        \* bound on the clock
  MaxCompositions \* bound on the compositions that are started

ASSUME CoinsAssumption ==
  /\ MaxAge \in Nat \ {0} /\ MaxAddresses \in Nat \ {0}
  /\ MaxTime \in Nat /\ MaxCompositions \in Nat /\ Estimate \in Nat
  /\ \A p \in FallsShort : p[1] \in Nat \ {0} /\ p[2] \in Nat \ {0} /\ (p[1] * p[2]) % 1000 = 0
  /\ \A c \in DOMAIN Coin : Coin[c].value \in Nat /\ Coin[c].owner \in DOMAIN Address

None == "none"
NoNumber == -1

RegularDust   == 546
MultisigDust  == 1000
DefaultFeeRate == 25000
OpReturnMaxSize == 80
PrefixSize == 8

VARIABLES
  now,         \* the clock, in seconds
  utxo_locks,  \* DictCache: the addresses that have a cache of locks, oldest first
  caches,      \* every ThreadSafeTTLCache made so far: outpoint -> when its lock ends
  pc,          \* where each thread is in construct()
  request,     \* what it composes
  view,        \* the cache it has got hold of, 0 for none
  todo,        \* the coins it has still to look at, to lock or to unlock
  inputs,      \* those it keeps, then those it spends
  bill,        \* the change and the fee they leave
  log,         \* the transactions returned, and the requests found too poor
  raised,      \* how many compositions have raised something else
  lost,        \* auxiliary: <<address, coin>> whose lock went away before its time
  aux          \* auxiliary, per thread: the coins others held when it looked for locks,
               \* those of them whose lock it found lost, and when it locked its own

locks == <<utxo_locks, caches, lost>>
locals == <<request, view, todo, inputs, bill, aux>>
vars == <<now, utxo_locks, caches, pc, request, view, todo, inputs, bill, log, raised, lost, aux>>

----------------------------------------------------------------------------
(* The outputs: transaction.determine_encoding and transaction_outputs. *)

Encoding(r) ==
  IF r.data = 0 THEN None
  ELSE IF r.encoding # "auto" THEN r.encoding
  ELSE IF r.data + PrefixSize <= OpReturnMaxSize THEN "opreturn" ELSE "multisig"

EncodingIsUnknown(r) == Encoding(r) \notin {None, "pubkeyhash", "multisig", "opreturn"}

\* the bytes of data that fit into one output
ChunkSize(r) ==
  CASE Encoding(r) = "multisig"   -> 2 * 33 - 1 - PrefixSize - 2 - 2
    [] Encoding(r) = "pubkeyhash" -> 20 - 1 - 8
    [] OTHER                      -> OpReturnMaxSize

Chunks(r) == IF r.data = 0 THEN 0 ELSE (r.data + ChunkSize(r) - 1) \div ChunkSize(r)

\* what each data output is worth
DataValue(r) ==
  CASE Encoding(r) = "multisig"   -> MultisigDust
    [] Encoding(r) = "pubkeyhash" -> RegularDust
    [] OTHER                      -> 0

DustOf(d) == IF Address[d.address].kind = "multisig" THEN MultisigDust ELSE RegularDust
ValueOf(d) == IF d.value = NoNumber THEN DustOf(d) ELSE d.value
DestinationIsDust(r) ==
  \E d \in ToSet(r.destinations) : d.value # NoNumber /\ d.value < DustOf(d)

\* pubkeyhash_to_pubkey: among the keys of the request, then on the chain
KeyIsKnown(r, a) == a \in r.pubkeys \/ Address[a].published

\* get_dust_return_pubkey needs the key of the source
NoDustReturn(r) ==
  /\ Encoding(r) = "multisig"
  /\ Address[r.source].kind = "p2sh" \/ ~ KeyIsKnown(r, r.source)

NoKeyOfDestination(r) ==
  \E d \in ToSet(r.destinations) : Address[d.address].kind = "multisig" /\ ~ KeyIsKnown(r, d.address)

OpReturnTooLong(r) == Encoding(r) = "opreturn" /\ r.data + PrefixSize > OpReturnMaxSize

OutputsAreRefused(r) ==
  \/ EncodingIsUnknown(r) \/ DestinationIsDust(r) \/ NoKeyOfDestination(r)
  \/ NoDustReturn(r) \/ OpReturnTooLong(r)

\* destination_btc_out + data_btc_out
BtcOut(r) ==
  MapThenSumSet(LAMBDA i : ValueOf(r.destinations[i]), DOMAIN r.destinations)
    + DataValue(r) * Chunks(r)

\* prepare_inputs: the bytes of the outputs, for the fee
DataOutputSize(r) ==
  CASE Encoding(r) = "multisig" -> 81
    [] Encoding(r) = "opreturn" -> PrefixSize + 10 + r.data
    [] OTHER                    -> 25 + 9
SizeForFee(r) == (25 + 9) * Len(r.destinations) + Chunks(r) * DataOutputSize(r)

----------------------------------------------------------------------------
(* The coins: construct_coin_selection. *)

\* addrindexrs.get_unspent_txouts
Unspent(r) ==
  {c \in DOMAIN Coin : /\ Coin[c].owner = r.source
                       /\ r.tx = None \/ Coin[c].tx = r.tx
                       /\ r.unconfirmed \/ Coin[c].confirmations > 0}

\* sort_unspent_txouts: no dust, the largest first
SortedUnspent(r) ==
  LET dust == IF Encoding(r) = "multisig" THEN MultisigDust ELSE RegularDust
  IN  SetToSortSeq({c \in Unspent(r) : Coin[c].value > dust},
                   LAMBDA c, d : Coin[c].value > Coin[d].value)

HoldsAssets(r, c) == Coin[c].assets /\ c # r.force

\* without use_utxos_with_balances a coin with assets is left out, or refused when named
BalancesAreRefused(r, cs) ==
  /\ ~ r.withBalances /\ ~ r.dropBalances /\ r.inputsSet # <<>>
  /\ \E c \in ToSet(cs) : HoldsAssets(r, c)

WithoutBalances(r, cs) ==
  IF r.withBalances THEN cs ELSE SelectSeq(cs, LAMBDA c : ~ HoldsAssets(r, c))

\* the source, when it is a UTXO, is spent first, locked or not
InsertForceUtxo(r, cs) ==
  IF r.force = None THEN cs
  ELSE <<r.force>> \o SelectSeq(cs, LAMBDA c : c # r.force)

Candidates(r, cs) == InsertForceUtxo(r, WithoutBalances(r, cs))

FeeRate(r) == IF r.feeRate # NoNumber THEN r.feeRate ELSE Max({Estimate, DefaultFeeRate})

\* int(size / 1000 * fee_per_kb): a product of doubles is off by so little that only
\* one that should be an integer can lose a satoshi
NecessaryFee(size, rate) ==
  IF <<size, rate>> \in FallsShort THEN (size * rate) \div 1000 - 1 ELSE (size * rate) \div 1000

\* the fee of a transaction with n inputs
Fee(r, n) ==
  IF r.exactFee # NoNumber THEN r.exactFee
  ELSE Max({r.feeProvided, NecessaryFee(181 * n + SizeForFee(r) + 10, FeeRate(r))})

BtcIn(cs) == MapThenSumSet(LAMBDA i : Coin[cs[i]].value, DOMAIN cs)
Change(r, cs) == BtcIn(cs) - (BtcOut(r) + Fee(r, Len(cs)))

\* util.enabled("bytespersigop"): two inputs for every multisig output
DesiredInputs(r) == IF Encoding(r) = "multisig" THEN 2 * Chunks(r) ELSE 1

FirstOnes(cs, n) == SubSeq(cs, 1, n)

\* the change of the first n coins can be paid out
IsGood(r, cs, n) ==
  LET change == Change(r, FirstOnes(cs, n)) IN change = 0 \/ change >= RegularDust

\* after the last coin a change that is dust goes to the miners
GoesToMiners(r, cs, n) ==
  LET change == Change(r, FirstOnes(cs, n))
  IN  n = Len(cs) /\ change > 0 /\ change < RegularDust

\* the loop over use_inputs: where it breaks, and whether funds were ever sufficient
StopsAt(r, cs) ==
  LET breaks == {n \in 1..Len(cs) : IsGood(r, cs, n) /\ n >= DesiredInputs(r)}
  IN  IF breaks = {} THEN Len(cs) ELSE Min(breaks)

\* The same, if the loop forgot that an earlier coin was enough
IsSufficientAtTheEnd(r, cs) ==
  cs # <<>> /\ LET n == StopsAt(r, cs) IN IsGood(r, cs, n) \/ GoesToMiners(r, cs, n)

IsSufficient(r, cs) ==
  \E n \in 1..StopsAt(r, cs) : IsGood(r, cs, n) \/ GoesToMiners(r, cs, n)

Chosen(r, cs) == FirstOnes(cs, StopsAt(r, cs))

\* The same, if the change that is dropped were not added to the fee
BillOfBase(r, cs) ==
  LET n == StopsAt(r, cs)
      change == Change(r, FirstOnes(cs, n))
  IN  [change |-> IF GoesToMiners(r, cs, n) THEN 0 ELSE change, fee |-> Fee(r, n)]

Bill(r, cs) ==
  LET n == StopsAt(r, cs)
      change == Change(r, FirstOnes(cs, n))
  IN  IF GoesToMiners(r, cs, n)
      THEN [change |-> 0, fee |-> Fee(r, n) + change]
      ELSE [change |-> change, fee |-> Fee(r, n)]

\* check_transaction_sanity: the source is read from the first input, and the
\* destinations, joined, are compared with the first one; without data it returns
DoesNotParse(r, cs) ==
  /\ r.validate /\ r.data > 0
  /\ Coin[cs[1]].owner # r.source \/ Len(r.destinations) > 1

----------------------------------------------------------------------------
(* The locks: UTXOLocks, DictCache and ThreadSafeTTLCache. *)

HasCache(s) == \E i \in DOMAIN utxo_locks : utxo_locks[i].source = s
CacheOf(s) == (CHOOSE e \in ToSet(utxo_locks) : e.source = s).cache
IsCurrent(s, id) == [source |-> s, cache |-> id] \in ToSet(utxo_locks)

IsLocked(id, c) == id # 0 /\ now < caches[id][c]
LocksOf(e) == {<<e.source, c>> : c \in {d \in DOMAIN Coin : IsLocked(e.cache, d)}}

\* DictCache.__setitem__: make room, the oldest first, then replace or append
MakeRoom(dict) ==
  IF Len(dict) < MaxAddresses THEN dict
  ELSE SubSeq(dict, Len(dict) - MaxAddresses + 2, Len(dict))

SetItem(dict, s, id) ==
  LET room == MakeRoom(dict)
  IN  IF \E i \in DOMAIN room : room[i].source = s
      THEN [i \in DOMAIN room |-> IF room[i].source = s THEN [source |-> s, cache |-> id] ELSE room[i]]
      ELSE Append(room, [source |-> s, cache |-> id])

----------------------------------------------------------------------------
(* One composition, one action per stretch that other threads cannot split. *)

NoRequest == CHOOSE r \in Requests : TRUE
NoBill == [change |-> 0, fee |-> 0]
NoAux == [held |-> {}, seen |-> {}, since |-> 0]

Init ==
  /\ now = 0
  /\ utxo_locks = <<>> /\ caches = <<>> /\ lost = {} /\ log = <<>> /\ raised = 0
  /\ pc = [t \in Thread |-> "idle"]
  /\ request = [t \in Thread |-> NoRequest]
  /\ view = [t \in Thread |-> 0]
  /\ todo = [t \in Thread |-> <<>>]
  /\ inputs = [t \in Thread |-> <<>>]
  /\ bill = [t \in Thread |-> NoBill]
  /\ aux = [t \in Thread |-> NoAux]

Busy == {t \in Thread : pc[t] # "idle"}

GoTo(t, l) == pc' = [pc EXCEPT ![t] = l]

\* the thread takes the next request
IsFree(t) ==
  /\ GoTo(t, "idle")
  /\ request' = [request EXCEPT ![t] = NoRequest]
  /\ view' = [view EXCEPT ![t] = 0]
  /\ todo' = [todo EXCEPT ![t] = <<>>]
  /\ inputs' = [inputs EXCEPT ![t] = <<>>]
  /\ bill' = [bill EXCEPT ![t] = NoBill]
  /\ aux' = [aux EXCEPT ![t] = NoAux]

\* construct() returns, or finds too little in these coins
Ends(t, how, coins) ==
  /\ log' = Append(log, [how |-> how, request |-> request[t], coins |-> coins,
                         bill |-> bill[t], aux |-> aux[t], at |-> now])
  /\ IsFree(t)
  /\ UNCHANGED <<now, raised>>

\* construct() raises something else
Raises(t) ==
  /\ raised' = raised + 1
  /\ IsFree(t)
  /\ UNCHANGED <<now, log>>

\* construct(), up to the first call of the backend
CanCompose(t) == pc[t] = "idle" /\ Len(log) + raised + Cardinality(Busy) < MaxCompositions

Compose(t, r) ==
  /\ CanCompose(t) /\ ~ OutputsAreRefused(r)
  /\ request' = [request EXCEPT ![t] = r]
  /\ GoTo(t, "unspent")
  /\ UNCHANGED <<now, locks, view, todo, inputs, bill, aux, log, raised>>

Refuse(t, r) ==
  /\ CanCompose(t) /\ OutputsAreRefused(r)
  /\ Raises(t)
  /\ UNCHANGED locks

\* the inputs of the request, or those of the backend
FetchUnspent(t) ==
  LET r == request[t]
      coins == IF r.inputsSet # <<>> THEN r.inputsSet ELSE SortedUnspent(r)
  IN  /\ pc[t] = "unspent"
      /\ r.inputsSet # <<>> \/ r.force # None \/ Unspent(r) # {}
      /\ IF r.locks
         THEN GoTo(t, "view") /\ todo' = [todo EXCEPT ![t] = coins] /\ UNCHANGED inputs
         ELSE GoTo(t, "select") /\ inputs' = [inputs EXCEPT ![t] = coins] /\ UNCHANGED todo
      /\ UNCHANGED <<now, locks, request, view, bill, aux, log, raised>>

NoUnspent(t) ==
  LET r == request[t]
  IN  /\ pc[t] = "unspent"
      /\ r.inputsSet = <<>> /\ r.force = None /\ Unspent(r) = {}
      /\ Raises(t)
      /\ UNCHANGED locks

\* what the compositions returned, or on their way, have locked for source s, and
\* until when at least (auxiliary)
Held(s) ==
  LET locking == {u \in Thread : pc[u] \in {"lock", "set", "serialise"} /\ request[u].locks
                                   /\ request[u].source = s}
      returned == {i \in DOMAIN log : log[i].how = "composed" /\ log[i].request.locks
                                        /\ log[i].request.source = s}
      locked(coins, since) == {[coin |-> c, until |-> since + MaxAge] : c \in coins}
  IN  {h \in UNION ({locked(ToSet(inputs[u]) \ ToSet(todo[u]), aux[u].since) : u \in locking}
                       \cup {locked(ToSet(log[i].coins), log[i].aux.since) : i \in returned}) :
         now < h.until}

LostCoins(s) == {c \in DOMAIN Coin : <<s, c>> \in lost}

\* it looks for the locks of its source now
Looks(t) ==
  LET s == request[t].source
  IN  aux' = [aux EXCEPT ![t].held = Held(s), ![t].seen = LostCoins(s)]

\* it looks at one of them, maybe in a cache that is no longer the one of its source
Sees(t) ==
  LET s == request[t].source
  IN  aux' = [aux EXCEPT ![t].seen =
                @ \cup LostCoins(s) \cup IF IsCurrent(s, view[t]) THEN {} ELSE {Head(todo[t])}]

\* filter_unspents, `source in self.utxo_locks': without a cache nothing is locked
NothingLocked(t) ==
  /\ pc[t] = "view" /\ ~ HasCache(request[t].source)
  /\ inputs' = [inputs EXCEPT ![t] = SelectSeq(todo[t], LAMBDA c : c \notin request[t].exclude)]
  /\ todo' = [todo EXCEPT ![t] = <<>>]
  /\ Looks(t) /\ GoTo(t, "select")
  /\ UNCHANGED <<now, locks, request, view, bill, log, raised>>

LooksForCache(t) ==
  /\ pc[t] = "view" /\ HasCache(request[t].source)
  /\ GoTo(t, "keys")
  /\ UNCHANGED <<now, locks, locals, log, raised>>

\* `self.utxo_locks[source].keys()': a live view of the cache
ViewLocks(t) ==
  /\ pc[t] = "keys" /\ HasCache(request[t].source)
  /\ view' = [view EXCEPT ![t] = CacheOf(request[t].source)]
  /\ Looks(t) /\ GoTo(t, IF todo[t] = <<>> THEN "select" ELSE "filter")
  /\ UNCHANGED <<now, locks, request, todo, inputs, bill, log, raised>>

\* `self.utxo_locks[source]' of an address evicted since it was looked for: KeyError
CacheIsGone(t) ==
  /\ \/ pc[t] \in {"keys", "lock"} \/ (pc[t] = "unlock" /\ todo[t] # <<>>)
  /\ ~ HasCache(request[t].source)
  /\ Raises(t)
  /\ UNCHANGED locks

\* The next coin, if its lock were not looked at
FilterNextBlind(t) ==
  LET c == Head(todo[t])
  IN  /\ pc[t] = "filter"
      /\ inputs' = [inputs EXCEPT ![t] = IF c \notin request[t].exclude THEN Append(@, c) ELSE @]
      /\ todo' = [todo EXCEPT ![t] = Tail(@)]
      /\ Sees(t) /\ GoTo(t, IF Len(todo[t]) = 1 THEN "select" ELSE "filter")
      /\ UNCHANGED <<now, locks, request, view, bill, log, raised>>

FilterNext(t) ==
  LET c == Head(todo[t])
      keeps == ~ IsLocked(view[t], c) /\ c \notin request[t].exclude
  IN  /\ pc[t] = "filter"
      /\ inputs' = [inputs EXCEPT ![t] = IF keeps THEN Append(@, c) ELSE @]
      /\ todo' = [todo EXCEPT ![t] = Tail(@)]
      /\ Sees(t) /\ GoTo(t, IF Len(todo[t]) = 1 THEN "select" ELSE "filter")
      /\ UNCHANGED <<now, locks, request, view, bill, log, raised>>

\* the rest of construct_coin_selection, up to the locks
Select(t) ==
  LET r == request[t]
      coins == Candidates(r, inputs[t])
  IN  /\ pc[t] = "select"
      /\ ~ BalancesAreRefused(r, inputs[t]) /\ IsSufficient(r, coins)
      /\ inputs' = [inputs EXCEPT ![t] = Chosen(r, coins)]
      /\ bill' = [bill EXCEPT ![t] = Bill(r, coins)]
      /\ GoTo(t, IF r.locks THEN "source" ELSE "serialise")
      /\ UNCHANGED <<now, locks, request, view, todo, aux, log, raised>>

BalancesRefused(t) ==
  /\ pc[t] = "select" /\ BalancesAreRefused(request[t], inputs[t])
  /\ Raises(t)
  /\ UNCHANGED locks

Insufficient(t) ==
  LET coins == Candidates(request[t], inputs[t])
  IN  /\ pc[t] = "select"
      /\ ~ BalancesAreRefused(request[t], inputs[t]) /\ ~ IsSufficient(request[t], coins)
      /\ Ends(t, "insufficient", coins)
      /\ UNCHANGED locks

\* lock_utxos, `source not in self.utxo_locks'
LockSource(t) ==
  /\ pc[t] = "source"
  /\ GoTo(t, IF HasCache(request[t].source) THEN "lock" ELSE "create")
  /\ todo' = [todo EXCEPT ![t] = inputs[t]]
  /\ aux' = [aux EXCEPT ![t].since = now]
  /\ view' = [view EXCEPT ![t] = 0]
  /\ UNCHANGED <<now, locks, request, inputs, bill, log, raised>>

\* what another thread has made since is replaced
CreateCache(t) ==
  LET id == Len(caches) + 1
      dict == SetItem(utxo_locks, request[t].source, id)
      dropped == {e \in ToSet(utxo_locks) : e \notin ToSet(dict)}
  IN  /\ pc[t] = "create"
      /\ caches' = Append(caches, [c \in DOMAIN Coin |-> 0])
      /\ utxo_locks' = dict
      /\ lost' = lost \cup UNION {LocksOf(e) : e \in dropped}
      /\ GoTo(t, "lock")
      /\ UNCHANGED <<now, locals, log, raised>>

\* `self.utxo_locks[source]', for the next coin
LockNext(t) ==
  /\ pc[t] = "lock" /\ HasCache(request[t].source)
  /\ view' = [view EXCEPT ![t] = CacheOf(request[t].source)]
  /\ GoTo(t, "set")
  /\ UNCHANGED <<now, locks, request, todo, inputs, bill, aux, log, raised>>

\* `.set': into that cache, which by now may be the one of its source no longer
SetLock(t) ==
  LET c == Head(todo[t])
      s == request[t].source
  IN  /\ pc[t] = "set"
      /\ caches' = [caches EXCEPT ![view[t]][c] = now + MaxAge]
      /\ lost' = IF IsCurrent(s, view[t]) THEN lost \ {<<s, c>>} ELSE lost \cup {<<s, c>>}
      /\ todo' = [todo EXCEPT ![t] = Tail(@)]
      /\ view' = [view EXCEPT ![t] = 0]
      /\ GoTo(t, IF Len(todo[t]) = 1 THEN "serialise" ELSE "lock")
      /\ UNCHANGED <<now, utxo_locks, request, inputs, bill, aux, log, raised>>

\* the scripts of the inputs, the bytes, the check
Answer(t) ==
  /\ pc[t] = "serialise" /\ bill[t].change >= 0 /\ ~ DoesNotParse(request[t], inputs[t])
  /\ Ends(t, "composed", inputs[t])
  /\ UNCHANGED locks

\* change_value.to_bytes raises: the coins stay locked
Overflow(t) ==
  /\ pc[t] = "serialise" /\ bill[t].change < 0
  /\ Raises(t)
  /\ UNCHANGED locks

ParsesDifferently(t) ==
  /\ pc[t] = "serialise" /\ bill[t].change >= 0 /\ DoesNotParse(request[t], inputs[t])
  /\ todo' = [todo EXCEPT ![t] = inputs[t]]
  /\ GoTo(t, "unlock")
  /\ UNCHANGED <<now, locks, request, view, inputs, bill, aux, log, raised>>

\* unlock_utxos: `self.utxo_locks[source]', for the next coin
UnlockNext(t) ==
  /\ pc[t] = "unlock" /\ todo[t] # <<>> /\ HasCache(request[t].source)
  /\ view' = [view EXCEPT ![t] = CacheOf(request[t].source)]
  /\ GoTo(t, "pop")
  /\ UNCHANGED <<now, locks, request, todo, inputs, bill, aux, log, raised>>

\* `.pop', whoever has locked it and whether this request locks or not
PopLock(t) ==
  LET c == Head(todo[t])
      s == request[t].source
  IN  /\ pc[t] = "pop"
      /\ lost' = IF IsLocked(view[t], c) /\ IsCurrent(s, view[t]) THEN lost \cup {<<s, c>>} ELSE lost
      /\ caches' = [caches EXCEPT ![view[t]][c] = 0]
      /\ todo' = [todo EXCEPT ![t] = Tail(@)]
      /\ view' = [view EXCEPT ![t] = 0]
      /\ GoTo(t, "unlock")
      /\ UNCHANGED <<now, utxo_locks, request, inputs, bill, aux, log, raised>>

Mismatch(t) ==
  /\ pc[t] = "unlock" /\ todo[t] = <<>>
  /\ Raises(t)
  /\ UNCHANGED locks

\* a call of the backend fails, before anything is locked or after: what is
\* locked stays locked
RpcFails(t) ==
  /\ pc[t] \in {"unspent", "serialise"}
  /\ Raises(t)
  /\ UNCHANGED locks

Tick ==
  /\ now < MaxTime
  /\ now' = now + 1
  /\ UNCHANGED <<locks, pc, locals, log, raised>>

Step(t) ==
  \/ FetchUnspent(t) \/ NoUnspent(t)
  \/ NothingLocked(t) \/ LooksForCache(t) \/ ViewLocks(t) \/ CacheIsGone(t)
  \/ FilterNext(t)
  \/ Select(t) \/ BalancesRefused(t) \/ Insufficient(t)
  \/ LockSource(t) \/ CreateCache(t) \/ LockNext(t) \/ SetLock(t)
  \/ Answer(t) \/ Overflow(t) \/ ParsesDifferently(t) \/ UnlockNext(t) \/ PopLock(t) \/ Mismatch(t)
  \/ RpcFails(t)

Next ==
  \/ \E t \in Thread : Step(t) \/ \E r \in Requests : Compose(t, r) \/ Refuse(t, r)
  \/ Tick

Spec == Init /\ [][Next]_vars

----------------------------------------------------------------------------
(* Properties of the composition that has just ended *)

Ended(how) == Len(log') > Len(log) /\ Last(log').how = how

\* A composition that looks for locks finds every coin that another one has locked for
\* the same source, whether that one has returned or is still on its way: it spends none
\* of them while the lock lasts, but the UTXO that is its source.  Excepted are locks
\* that were lost by then, with a cache that was evicted or replaced (also while a
\* coin was being locked in it, or looked for), or to a composition that failed
\* (UTXOLocks, construct_coin_selection).
LocksKeepCoinsApart ==
  [][Ended("composed") =>
       LET e == Last(log')
       IN  e.request.locks =>
             \A h \in e.aux.held :
               h.coin \in ToSet(e.coins) =>
                 e.at >= h.until \/ h.coin \in e.aux.seen \cup {e.request.force}]_vars

\* What a transaction spends is what it pays out, its change and its fee; the change
\* is nothing or more than dust, the fee is at least what its size costs and less
\* than dust above it, and without its last coin it could not be paid for, unless
\* that is there for the signature operations of a multisig output (the loop of
\* construct_coin_selection).
IsPaidFor(r, cs, b) ==
  LET fewer == Change(r, Front(cs))
  IN  /\ BtcIn(cs) = BtcOut(r) + b.change + b.fee
      /\ b.change = 0 \/ b.change >= RegularDust
      /\ b.fee >= Fee(r, Len(cs)) /\ b.fee < Fee(r, Len(cs)) + RegularDust
      /\ b.fee > Fee(r, Len(cs)) => b.change = 0
      /\ Encoding(r) = "multisig" \/ (fewer < RegularDust /\ fewer # 0)

CoinsPayForIt ==
  [][Ended("composed") => LET e == Last(log') IN IsPaidFor(e.request, e.coins, e.bill)]_vars

\* A composition that finds too little has looked at enough.  Of the coins of its
\* source it could spend, no choice at all leaves a change that can be paid out, although
\* it adds them one by one; of named inputs no first ones do, in the order they were
\* named in: one of them alone, or another order, might
\* (BalanceError at the end of construct_coin_selection).
ChoicesFor(r, cs) ==
  IF r.inputsSet # <<>> THEN {1..n : n \in DOMAIN cs}
  ELSE {S \in SUBSET DOMAIN cs : S # {} /\ (r.force # None => 1 \in S)}

IsTooPoor(r, cs) ==
  \A S \in ChoicesFor(r, cs) :
    MapThenSumSet(LAMBDA k : Coin[cs[k]].value, S)
      < BtcOut(r) + Fee(r, Cardinality(S)) + RegularDust

RefusedOnlyIfPoor ==
  [][Ended("insufficient") => IsTooPoor(Last(log').request, Last(log').coins)]_vars

=============================================================================
