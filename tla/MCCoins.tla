------------------------------ MODULE MCCoins ------------------------------
(***************************************************************************)
(* Two threads compose up to three transactions for the addresses of one   *)
(* user, with room for the locks of one address only.                      *)
(***************************************************************************)
EXTENDS Coins

CONSTANTS t1, t2

coin(owner, value, confirmations, assets) ==
  [owner |-> owner, value |-> value, confirmations |-> confirmations,
   tx |-> "tx1", assets |-> assets]

MCThread == {t1, t2}
ThreadsAreAlike == Permutations(MCThread)

\* alice has a coin for anything, one for a small fee, one of less than its own fee
\* and one with assets; bob has one, of which a change would be dust
MCCoin ==
  [a1 |-> coin("alice", 40000, 1, FALSE), a2 |-> coin("alice", 9000, 0, FALSE),
   a3 |-> coin("alice", 1500, 3, FALSE), a4 |-> coin("alice", 10000, 3, TRUE),
   b1 |-> coin("bob", 6025, 2, FALSE)]

MCAddress ==
  [alice |-> [kind |-> "p2pkh", published |-> TRUE],
   bob   |-> [kind |-> "p2sh", published |-> FALSE]]

Plain ==
  [source |-> "alice", destinations |-> <<>>, data |-> 20, encoding |-> "auto", pubkeys |-> {},
   unconfirmed |-> FALSE, tx |-> None, inputsSet |-> <<>>, locks |-> TRUE, exclude |-> {},
   withBalances |-> FALSE, dropBalances |-> FALSE, force |-> None, feeRate |-> NoNumber,
   exactFee |-> NoNumber, feeProvided |-> 0, validate |-> TRUE]

\* of the transactions with one input, one destination and 39 bytes of data
MCFallsShort == {<<282, 25000>>, <<282, 26000>>}

ToBob(v) == [address |-> "bob", value |-> v]

MCRequests ==
  { \* a1 pays for it with a change of 546, thanks to a satoshi that the doubles lose
    [Plain EXCEPT !.data = 39, !.destinations = <<ToBob(32405)>>],
    [Plain EXCEPT !.source = "bob"],
    \* data in a multisig output: two inputs are wanted, and bob's key is unknown
    [Plain EXCEPT !.encoding = "multisig", !.unconfirmed = TRUE],
    [Plain EXCEPT !.encoding = "multisig", !.source = "bob"],
    \* the UTXO with assets is the source, and a1 is not to be taken beside it
    [Plain EXCEPT !.force = "a4", !.destinations = <<ToBob(5000)>>, !.data = 39,
                  !.unconfirmed = TRUE, !.exclude = {"a1"}, !.feeProvided = 300],
    \* only the outputs of a transaction that alice has nothing from
    [Plain EXCEPT !.tx = "tx2"],
    \* named inputs: one with assets; bob's first, so that the source will not be alice:
    \* this one locks nothing, but it unlocks
    [Plain EXCEPT !.inputsSet = <<"a4">>],
    \* two that are named in an order in which neither the first nor both are enough
    [Plain EXCEPT !.inputsSet = <<"a3", "a2">>, !.feeRate = 26000, !.data = 39,
                  !.destinations = <<ToBob(1000)>>],
    [Plain EXCEPT !.locks = FALSE, !.inputsSet = <<"b1", "a1">>, !.exactFee = 20000] }
=============================================================================
