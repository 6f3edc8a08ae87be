---- MODULE MCPmemBucket ----
EXTENDS PmemBucket, TLC

CONSTANTS k1, v1, b1, b2, r1, r2

Keys1 == {k1}
Data1 == {v1}
Buckets2 == {b1, b2}
Records2 == {r1, r2}
SlotValues2 == Data1 \cup Records2
OneHome == [k \in Keys |-> 0]
Alike == Permutations(Buckets) \cup Permutations(Data) \cup Permutations(Records)

\* What memset leaves in a slot.
ZeroedSlot == [key |-> Null, val |-> Null]

\* Slot 1 shares the line of the version word.
Slot1 == {1}

\* Flat records and records of one line and of two; a BucketMetaPmem in one
\* line, or its second pointer, or both, in the next; with and without the
\* flushes of Store.
Layouts4 ==
  {[lines |-> 0, second |-> {2}, flushes |-> TRUE],
   [lines |-> 0, second |-> {1, 2}, flushes |-> FALSE],
   [lines |-> 1, second |-> {1, 2}, flushes |-> TRUE],
   [lines |-> 2, second |-> {}, flushes |-> TRUE]}

\* The least layout that does not reboot from the last state.
Straddling == {[lines |-> 0, second |-> {2}, flushes |-> TRUE]}
====
