----------------------------- MODULE MCApiWatcher -----------------------------
\* Instances of ApiWatcher for TLC: what the blocks hold.
EXTENDS ApiWatcher

\* Ids of rows; the address is 1.
order == 10
asset == 20
tx == 30

Open == Event("OPEN_ORDER", 0, order, 1, "open")
Cancel == Event("ORDER_UPDATE", 0, order, 1, "cancelled")
Expire == <<Event("ORDER_UPDATE", 0, order, 1, "expired"),
            Event("ORDER_EXPIRATION", 0, order, 0, "valid")>>
Credit(a) == Event("CREDIT", 0, a, 2, "valid")
Debit(a) == Event("DEBIT", 0, a, 1, "valid")
Output == Event("NEW_TRANSACTION_OUTPUT", 0, tx, 0, "valid")
Create == Event("ASSET_CREATION", 0, asset, 0, "valid")
Issue(s) == Event("ASSET_ISSUANCE", 0, asset, 3, s)
Destroy == Event("ASSET_DESTRUCTION", 0, asset, 1, "valid")
Burn == Event("BURN", 0, tx, 2, "valid")
Dividend == Event("ASSET_DIVIDEND", 0, tx, 1, "valid")

\* One body for each way of handling an event.
Mixed == {<<Debit(1), Open>>, <<Burn, Dividend, Credit(1)>>, Expire,
          <<Create, Issue("valid")>>, <<Output, Issue("invalid"), Destroy>>}
Cancelled == {<<Open>>, <<Cancel>>}
=============================================================================
