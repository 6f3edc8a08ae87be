---- MODULE MCTurboEpoche ----
EXTENDS TurboEpoche, TLC

CONSTANTS t1, t2, t3, p1, a, b, c, d

Threads2 == {t1, t2}
Threads3 == {t1, t2, t3}
OnePlace == {p1}
Objects3 == {a, b, c}
Objects4 == {a, b, c, d}

Interchangeable == Permutations({t1, t2, t3}) \cup Permutations({a, b, c, d})
====
