----------------------------- MODULE MCFairminters -----------------------------
(***************************************************************************)
(* Fair minters on small instances: an asset A and its subasset S.         *)
(***************************************************************************)
EXTENDS Fairminters

ParentOf == [a \in Asset |-> IF a = "S" THEN "A" ELSE NoAsset]
XcpOf == [x \in Address |-> IF x = "issuer" THEN 3 ELSE 4]

Message(a, quantity, lock, reset, destination) ==
  [asset |-> a, quantity |-> quantity, divisible |-> FALSE, lock |-> lock,
   reset |-> reset, destination |-> destination]
Messages ==
  {Message("A", 2, "no", FALSE, NoAddress), Message("A", 0, "no", FALSE, "minter"),
   Message("A", 5, "quantity", TRUE, NoAddress),
   Message("A", 0, "description", FALSE, NoAddress),
   Message("S", 1, "no", FALSE, NoAddress)}

Free == [asset |-> "A", price |-> 0, quantity_by_price |-> 1, max_mint_per_tx |-> 3,
  hard_cap |-> 5, premint_quantity |-> 1, start_block |-> 0, end_block |-> 2,
  soft_cap |-> 0, soft_cap_deadline_block |-> 0, minted_asset_commission |-> 1,
  burn_payment |-> FALSE, lock_quantity |-> TRUE, lock_description |-> FALSE,
  divisible |-> FALSE, new_description |-> FALSE]
Paying == [Free EXCEPT !.price = 1, !.quantity_by_price = 2, !.max_mint_per_tx = 0,
  !.hard_cap = 4, !.end_block = 0, !.soft_cap = 2, !.soft_cap_deadline_block = 2]
Burning == [Free EXCEPT !.asset = "S", !.price = 1, !.hard_cap = 0, !.start_block = 2,
  !.end_block = 3, !.burn_payment = TRUE, !.minted_asset_commission = 0]
TermsOffered == {Free, Paying, Burning}

=============================================================================
