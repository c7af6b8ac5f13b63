------------------------------ MODULE MCBlocks ------------------------------
\* Instances of Blocks for TLC: two labels, so that every block may have two
\* children, and three tables that stand for the ones of blocks.TABLES.
EXTENDS Blocks

MCTables == <<"balances", "orders", "transactions">>

\* The first block is the same in every behaviour, so the labels are symmetric
\* only above it; no symmetry set is used.
=============================================================================
