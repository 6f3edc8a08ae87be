--------------------------- MODULE MCSharedBucket ---------------------------
EXTENDS SharedBucket, TLC

CONSTANTS K1, K2, K3, T1, T2

Keys3 == {K1, K2, K3}
Hash3 == (K1 :> 0) @@ (K2 :> 0) @@ (K3 :> 0)
OneWriter3 == (K1 :> {T1}) @@ (K2 :> {T2}) @@ (K3 :> {T2})
\* T2 writes both keys and they have the same home.
Alike == Permutations({K2, K3})
AllBuilds == [pinned : BOOLEAN, CellCountLimit : {1, 4}]
=============================================================================
