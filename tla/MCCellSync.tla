---- MODULE MCCellSync ----
EXTENDS CellSync, TLC

CONSTANTS t1, t2, k1, k2, k3, v1, v2

Threads2 == {t1, t2}
Keys3 == {k1, k2, k3}
Values2 == {v1, v2}
OneHome == [k \in Keys |-> 0]

\* Two keys share their tag.
SharedTag == [k \in Keys |-> IF k = k3 THEN 2 ELSE 1]

ZeroedSlot == [key |-> None, val |-> None]

Alike == Permutations({t1, t2}) \cup Permutations({k1, k2}) \cup Permutations({v1, v2})
====
