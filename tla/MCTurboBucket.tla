---- MODULE MCTurboBucket ----
EXTENDS TurboBucket, TLC

CONSTANTS k1, k2, k3, v1, v2

Keys2 == {k1, k2}
Keys3 == {k1, k2, k3}
Values1 == {v1}
Values2 == {v1, v2}

\* Everybody's home is the first cell of any bucket, or nearly so.
HashTwin == (k1 :> 0) @@ (k2 :> 0)
HashColliding == (k1 :> 0) @@ (k2 :> 0) @@ (k3 :> 1)

\* The home of two keys is the last cell, so that probing wraps around.
HashWrapping == (k1 :> 3) @@ (k2 :> 3) @@ (k3 :> 0)
====
