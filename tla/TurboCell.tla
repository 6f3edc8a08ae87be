------------------------------ MODULE TurboCell ------------------------------
(***************************************************************************)
(* The cells of a bucket and the probing over them: the operators that     *)
(* findSlot, findSlotForInsert, insertToSlotAndGC, deleteSlot and the      *)
(* rehash of turbo_hash.h are made of.                                     *)
(*                                                                         *)
(* A cell has SlotCount slots, a bitmap of the slots in use and a bitmap   *)
(* of the slots whose record was deleted.  One slot always stays free so   *)
(* that an update can write the new record beside the old one.  The tags   *)
(* H2 and H1 only filter candidates before the keys are compared, so a     *)
(* slot is matched by its key here.                                        *)
(***************************************************************************)
EXTENDS Integers, FiniteSets

CONSTANTS
  Keys,          \* the keys that hash to this bucket
  Values,
  H1ToHash,      \* the part of a key's hash that picks its home cell
  StartSlotPos,  \* index of the first slot of a cell
  SlotMaxRange,  \* index of the last slot of a cell
  MaxProbeLen,   \* cells an operation probes at most (kTurboMaxProbeLen)
  Zeroed         \* what is in a slot that memset cleared

Record == [key : Keys, val : Values]
Slots == StartSlotPos..SlotMaxRange
SlotCount == SlotMaxRange - StartSlotPos + 1

ASSUME HashAssumption == H1ToHash \in [Keys -> Nat]
ASSUME SlotAssumption ==
  /\ StartSlotPos \in Nat /\ SlotMaxRange \in Nat
  /\ StartSlotPos < SlotMaxRange
ASSUME ProbeAssumption == MaxProbeLen \in Nat \ {0}
ASSUME ZeroedAssumption == Zeroed \notin Record

Cell == [bitmap : SUBSET Slots, deleted : SUBSET Slots,
         slot : [Slots -> Record \cup {Zeroed}]]

EmptyCell ==
  [bitmap |-> {}, deleted |-> {}, slot |-> [i \in Slots |-> Zeroed]]

(* A table's bucket is a contiguous array of cells.                         *)
Bucket(n) == [0..(n - 1) -> Cell]
EmptyBucket(n) == [c \in 0..(n - 1) |-> EmptyCell]

-----------------------------------------------------------------------------
(* Bit sets: *bitset is the position of its lowest set bit.                 *)
Lowest(i, S) == i \in S /\ \A j \in S : i <= j
Last(i, S) == i \in S /\ \A j \in S : j <= i

ValidBitSet(cell) == cell.bitmap \ cell.deleted
EraseBitSet(cell) == cell.deleted
BackupBitSet(cell) == Slots \ cell.bitmap
MatchBitSet(cell, k) == {i \in ValidBitSet(cell) : cell.slot[i].key = k}
Full(cell) == Cardinality(cell.bitmap) = SlotCount - 1

(* A cell never uses its last free slot ("one is reserved for update and    *)
(* deletion"): otherwise Full() is wrong and an update finds no backup      *)
(* slot.  And only slots in use are marked erased.                          *)
CellSound(cell) ==
  /\ Cardinality(cell.bitmap) <= SlotCount - 1
  /\ cell.deleted \subseteq cell.bitmap

-----------------------------------------------------------------------------
(* Writing a cell.  The slot is stored first, the bitmaps after it.         *)

(* A record that is written into a free or an erased slot.                  *)
InsertToSlot(cell, i, rec) ==
  [bitmap |-> cell.bitmap \cup {i},
   deleted |-> cell.deleted \ {i},
   slot |-> [cell.slot EXCEPT ![i] = rec]]

(* (bitmap | (1 << slot)) ^ (1 << old_slot): the new slot is switched on    *)
(* and the old one toggled in one store.                                    *)
Toggle(S, i) == (S \ {i}) \cup ({i} \ S)

(* Faulty: the old slot stays on.                                           *)
UpdateKeepingOld(cell, i, old, rec) ==
  [bitmap |-> cell.bitmap \cup {i},
   deleted |-> cell.deleted \ {i},
   slot |-> [cell.slot EXCEPT ![i] = rec]]

UpdateToSlot(cell, i, old, rec) ==
  [bitmap |-> Toggle(cell.bitmap \cup {i}, old),
   deleted |-> cell.deleted \ {i},
   slot |-> [cell.slot EXCEPT ![i] = rec]]

(* Faulty: a deletion gives the slot back.                                  *)
EraseFreeing(cell, i) == [cell EXCEPT !.bitmap = cell.bitmap \ {i}]

(* A deletion keeps the slot in the bitmap and marks it erased.             *)
EraseSlot(cell, i) == [cell EXCEPT !.deleted = cell.deleted \cup {i}]

-----------------------------------------------------------------------------
(* ProbeWithinBucket: linear probing from the home cell, at most            *)
(* MaxProbeLen cells and at most once around the bucket; a probe goes past  *)
(* a cell only when that cell is full.                                      *)
ProbeCell(k, n, d) == (H1ToHash[k] + d) % n

ProbeDist(n) == {d \in 0..(MaxProbeLen - 1) : d < n}

Visited(cells, n, k) ==
  {d \in ProbeDist(n) : \A e \in 0..(d - 1) : Full(cells[ProbeCell(k, n, e)])}

(* Where findSlot and deleteSlot find the key: the first visited cell that  *)
(* holds it, and there the lowest slot.                                     *)
HitDists(cells, n, k) ==
  {d \in Visited(cells, n, k) : MatchBitSet(cells[ProbeCell(k, n, d)], k) # {}}

Finds(cells, n, k, d, i) ==
  /\ Lowest(d, HitDists(cells, n, k))
  /\ Lowest(i, MatchBitSet(cells[ProbeCell(k, n, d)], k))

FindsNothing(cells, n, k) == HitDists(cells, n, k) = {}

(* findSlotForInsert.  A key that is there is written to the lowest free    *)
(* slot of its cell.  A new key goes to the erased slot met last on the way *)
(* ("choose deleted position first"), or else to the first cell that is     *)
(* not full.                                                                *)
UpdateTarget(cells, n, k, d, old, i) ==
  /\ Finds(cells, n, k, d, old)
  /\ Lowest(i, BackupBitSet(cells[ProbeCell(k, n, d)]))

EraseDists(cells, n, k) ==
  {d \in Visited(cells, n, k) : EraseBitSet(cells[ProbeCell(k, n, d)]) # {}}

EndDists(cells, n, k) ==
  {d \in Visited(cells, n, k) : ~Full(cells[ProbeCell(k, n, d)])}

(* Faulty: takes an erased slot before knowing that the key is not there.   *)
InsertTargetEarly(cells, n, k, d, i) ==
  \/ /\ Last(d, EraseDists(cells, n, k))
     /\ Lowest(i, EraseBitSet(cells[ProbeCell(k, n, d)]))
  \/ /\ FindsNothing(cells, n, k)
     /\ EraseDists(cells, n, k) = {}
     /\ d \in EndDists(cells, n, k)
     /\ Lowest(i, BackupBitSet(cells[ProbeCell(k, n, d)]))

InsertTarget(cells, n, k, d, i) ==
  /\ FindsNothing(cells, n, k)
  /\ \/ /\ Last(d, EraseDists(cells, n, k))
        /\ Lowest(i, EraseBitSet(cells[ProbeCell(k, n, d)]))
     \/ /\ EraseDists(cells, n, k) = {}
        /\ d \in EndDists(cells, n, k)
        /\ Lowest(i, BackupBitSet(cells[ProbeCell(k, n, d)]))

NoTarget(cells, n, k) ==
  /\ FindsNothing(cells, n, k)
  /\ EraseDists(cells, n, k) = {}
  /\ EndDists(cells, n, k) = {}
=============================================================================
