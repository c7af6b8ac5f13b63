----------------------------- MODULE BlockStream -----------------------------
(***************************************************************************)
(* What a block fetcher promises to the block parser, whatever happens in  *)
(* its threads: it is started at a height, delivers blocks of the chains   *)
(* of bitcoind in the order of Chain!CanDeliver, and is stopped.  RSFetcher *)
(* implements it; Blocks relies on it.                                     *)
(***************************************************************************)
EXTENDS Chain

VARIABLES
  tip,      \* bitcoind
  fetcher,  \* a record of Fetcher
  block     \* the block get_block() returned last, <<>> before the first

svars == <<tip, fetcher, block>>

Init ==
  /\ tip \in Block
  /\ fetcher = NoFetcher /\ block = <<>>

NewTip ==
  /\ \E b \in Block : /\ Height(b) > Height(tip)
                      /\ tip' = b /\ fetcher' = WithTip(fetcher, b)
  /\ UNCHANGED block

\* start(), also of a process that was started again.
Start ==
  /\ \E h \in 1..Height(tip) :
       fetcher' \in {StartedAt(fetcher, tip, h), StartedAt(NoFetcher, tip, h)}
  /\ UNCHANGED <<tip, block>>

Deliver ==
  /\ \E t \in fetcher.tips : \E h \in 1..Height(t) :
       /\ CanDeliver(fetcher, t, h)
       /\ fetcher' = AfterDelivery(fetcher, t, h)
       /\ block' = AncestorAt(t, h)
  /\ UNCHANGED tip

\* stop(), or the process ends.
Stop ==
  /\ fetcher' \in {Stopped(fetcher), NoFetcher}
  /\ UNCHANGED <<tip, block>>

Next == NewTip \/ Start \/ Deliver \/ Stop

Spec == Init /\ [][Next]_svars
=============================================================================
