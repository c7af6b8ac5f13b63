-------------------------------- MODULE Chain --------------------------------
(***************************************************************************)
(* Chains of blocks, and what the Python code may expect of its block      *)
(* fetcher (lib/backend/rsfetcher.py and the indexer behind it).           *)
(*                                                                         *)
(* A block hash commits to all the blocks below it, so a block IS its path *)
(* from the first block: a sequence of labels, the label at height h being *)
(* what the miners put there.                                              *)
(***************************************************************************)
EXTENDS Naturals, Sequences

CONSTANTS
  Label,        \* what tells apart two blocks that have the same parent
  MaxHeight     \* bound: the height of the highest block that is mined

\* BLOCK_FIRST is height 1.
Block == UNION {[1..h -> Label] : h \in 1..MaxHeight}
Height(b) == Len(b)
ParentOf(b) == SubSeq(b, 1, Len(b) - 1)                     \* hash_prev
AncestorAt(b, h) == SubSeq(b, 1, h)          \* getblockhash(h) when b is the tip

----------------------------------------------------------------------------
\* A fetcher: the height it delivers next (0 when it is stopped), the chain that
\* was active when it read the block it delivered last, the tips that were active
\* since it was started, and those active since the first start of the process,
\* whose blocks its database may still hold.
Fetcher == [next : Nat, from : Block \cup {<<>>}, tips : SUBSET Block,
            seen : SUBSET Block]
NoFetcher == [next |-> 0, from |-> <<>>, tips |-> {}, seen |-> {}]

StartedAt(f, t, h) ==
  [next |-> h, from |-> <<>>, tips |-> {t}, seen |-> f.seen \cup {t}]
Stopped(f) == [f EXCEPT !.next = 0, !.from = <<>>, !.tips = {}]

\* bitcoind makes b the tip.
WithTip(f, b) ==
  IF f.seen = {} THEN f
  ELSE [f EXCEPT !.tips = IF f.next = 0 THEN @ ELSE @ \cup {b}, !.seen = @ \cup {b}]

Disagree(s, u, h) ==
  h <= Height(s) /\ h <= Height(u) /\ AncestorAt(s, h) # AncestorAt(u, h)

\* A chain that became active after the last block was read, and no later than t,
\* replaced this block and what an earlier chain had at height h.  (A chain that
\* becomes active is higher than the one before.)
Replaced(f, t, h) ==
  /\ f.from # <<>>
  /\ \E u \in f.tips : /\ Height(f.from) < Height(u) /\ Height(u) <= Height(t)
                       /\ Disagree(f.from, u, f.next - 1)
                       /\ \E s \in f.seen : Disagree(s, u, h)

\* A fetcher reads ahead, so the block at height h may belong to any chain t that
\* was active since it was started.  Heights come in order, until the fetcher
\* sees a reorganization itself and goes back to a height that was replaced.
CanDeliver(f, t, h) ==
  /\ t \in f.tips /\ h \in 1..Height(t)
  /\ h <= f.next
  /\ h < f.next => Replaced(f, t, h)

AfterDelivery(f, t, h) == [f EXCEPT !.next = h + 1, !.from = t]
=============================================================================
