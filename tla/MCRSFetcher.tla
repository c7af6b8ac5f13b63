----------------------------- MODULE MCRSFetcher -----------------------------
\* Instances of RSFetcher for TLC.
EXTENDS RSFetcher

\* A main branch, and branches that leave it at each height.
Prefixes(b) == {SubSeq(b, 1, h) : h \in 1..Len(b)}
Branches(S) == UNION {Prefixes(b) : b \in S}
Four == Branches({<<1, 1, 1, 1>>, <<1, 1, 2, 1>>, <<1, 2, 1, 1>>})
=============================================================================
