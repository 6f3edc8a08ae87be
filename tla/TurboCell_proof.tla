--------------------------- MODULE TurboCell_proof ---------------------------
(***************************************************************************)
(* Facts about the operators on cells and probe paths that the proofs      *)
(* about a bucket rest on.                                                 *)
(***************************************************************************)
EXTENDS TurboCell, FiniteSetTheorems, TLAPS

-----------------------------------------------------------------------------
(* Probing stays in the bucket and comes back to a cell after n steps.      *)

LEMMA DivMod ==
  ASSUME NEW a \in Nat, NEW n \in Nat \ {0}
  PROVE  /\ a = n * (a \div n) + (a % n)
         /\ a % n \in 0..(n - 1)
         /\ a \div n \in Int
  BY Z3

LEMMA SmallMultiple ==
  ASSUME NEW n \in Nat \ {0}, NEW d \in Int, n * d < n, -n < n * d
  PROVE  d = 0
<1>1. CASE d >= 1
  <2>1. n * d >= n * 1
    BY <1>1, Z3
  <2> QED
    BY <2>1, Z3
<1>2. CASE d <= -1
  <2>1. n * d <= n * (-1)
    BY <1>2, Z3
  <2> QED
    BY <2>1, Z3
<1> QED
  BY <1>1, <1>2

LEMMA ModShift ==
  ASSUME NEW a \in Nat, NEW n \in Nat \ {0}
  PROVE  (a + n) % n = a % n
<1> DEFINE q == a \div n
           r == a % n
           q2 == (a + n) \div n
           r2 == (a + n) % n
<1>1. a = n * q + r /\ r \in 0..(n - 1) /\ q \in Int
  BY DivMod
<1>2. a + n = n * q2 + r2 /\ r2 \in 0..(n - 1) /\ q2 \in Int
  BY DivMod, a + n \in Nat
<1> HIDE DEF q, r, q2, r2
<1>3. n * (q2 - q - 1) = n * q2 - n * q - n
  BY <1>1, <1>2, Z3
<1>4. n * (q2 - q - 1) = r - r2
  BY <1>1, <1>2, <1>3, Z3
<1>5. q2 - q - 1 = 0
  <2>1. q2 - q - 1 \in Int
    BY <1>1, <1>2
  <2>2. n * (q2 - q - 1) < n /\ -n < n * (q2 - q - 1)
    BY <1>4, <1>1, <1>2
  <2> QED
    BY SmallMultiple, <2>1, <2>2
<1>6. r = r2
  BY <1>5, <1>4, <1>1, <1>2, Z3
<1> QED
  BY <1>6 DEF r, r2

LEMMA ProbeInBucket ==
  ASSUME NEW k \in Keys, NEW n \in Nat \ {0}, NEW d \in Nat
  PROVE  ProbeCell(k, n, d) \in 0..(n - 1)
<1>1. H1ToHash[k] + d \in Nat
  BY HashAssumption
<1> QED
  BY <1>1, DivMod DEF ProbeCell

LEMMA ProbePeriod ==
  ASSUME NEW k \in Keys, NEW n \in Nat \ {0}, NEW d \in Nat
  PROVE  ProbeCell(k, n, d + n) = ProbeCell(k, n, d)
<1>1. H1ToHash[k] \in Nat /\ H1ToHash[k] + d \in Nat
  BY HashAssumption
<1>2. H1ToHash[k] + (d + n) = (H1ToHash[k] + d) + n
  BY <1>1
<1> QED
  BY <1>1, <1>2, ModShift DEF ProbeCell

LEMMA DivModUnique ==
  ASSUME NEW n \in Nat \ {0}, NEW q \in Nat, NEW r \in 0..(n - 1)
  PROVE  (n * q + r) \div n = q /\ (n * q + r) % n = r
<1> DEFINE a == n * q + r
           q2 == a \div n
           r2 == a % n
<1>0. n * q \in Nat /\ a \in Nat
  BY Z3
<1>1. a = n * q2 + r2 /\ r2 \in 0..(n - 1) /\ q2 \in Int
  BY <1>0, DivMod
<1>2. a = n * q + r /\ q \in Int /\ r \in 0..(n - 1)
  OBVIOUS
<1> HIDE DEF a, q2, r2
<1>3. n * (q2 - q) = n * q2 - n * q
  BY <1>1, <1>2, Z3
<1>4. n * (q2 - q) < n /\ -n < n * (q2 - q)
  BY <1>1, <1>2, <1>3, <1>0
<1>5. q2 - q = 0
  BY <1>1, <1>2, <1>4, SmallMultiple
<1>6. q2 = q
  BY <1>1, <1>2, <1>5
<1>7. r2 = r
  BY <1>0, <1>1, <1>2, <1>6
<1> QED
  BY <1>6, <1>7 DEF a, q2, r2

(* The probing comes by every cell within n steps.                          *)
LEMMA ProbeReaches ==
  ASSUME NEW k \in Keys, NEW n \in Nat \ {0}, NEW c \in 0..(n - 1)
  PROVE  \E e \in 0..(n - 1) : ProbeCell(k, n, e) = c
<1> DEFINE h == H1ToHash[k]
           q == h \div n
           r == h % n
<1>1. h \in Nat
  BY HashAssumption
<1>2. h = n * q + r /\ r \in 0..(n - 1) /\ q \in Int
  BY <1>1, DivMod
<1>3. q \in Nat
  <2>1. CASE q <= -1
    <3>0. q \in Int
      BY <1>2
    <3>1. n * q <= n * (-1)
      BY <2>1, <3>0, Z3
    <3> QED
      BY <3>1, <1>1, <1>2
  <2> QED
    BY <2>1, <1>2
<1> HIDE DEF h, q, r
<1>4. CASE c >= r
  <2>1. c - r \in 0..(n - 1) /\ h + (c - r) = n * q + c
    BY <1>2, <1>3, <1>4
  <2>2. (n * q + c) % n = c
    BY <1>3, DivModUnique
  <2> QED
    BY <2>1, <2>2 DEF ProbeCell, h
<1>5. CASE c < r
  <2>1. n * (q + 1) = n * q + n
    BY <1>3, Z3
  <2>2. (c - r) + n \in 0..(n - 1) /\ h + ((c - r) + n) = n * (q + 1) + c
    BY <1>2, <1>3, <1>5, <2>1
  <2>3. (n * (q + 1) + c) % n = c
    BY <1>3, DivModUnique
  <2> QED
    BY <2>2, <2>3 DEF ProbeCell, h
<1> QED
  BY <1>2, <1>4, <1>5

-----------------------------------------------------------------------------
(* Counting slots.                                                          *)

LEMMA SlotsFinite ==
  /\ IsFiniteSet(Slots)
  /\ \A B \in SUBSET Slots : IsFiniteSet(B) /\ Cardinality(B) \in Nat
<1>1. IsFiniteSet(Slots)
  BY SlotAssumption, FS_Interval DEF Slots
<1> QED
  BY <1>1, FS_Subset, FS_CardinalityType

HoldsRecords(cell) == \A i \in cell.bitmap : cell.slot[i] \in Record

(* Writing a new record into a free slot of a cell that is not full, or     *)
(* over an erased one, leaves the cell sound, and full if it was.           *)
LEMMA InsertSound ==
  ASSUME NEW cell \in Cell, NEW i \in Slots, NEW rec \in Record,
         CellSound(cell), HoldsRecords(cell),
         \/ i \in EraseBitSet(cell)
         \/ i \in BackupBitSet(cell) /\ ~Full(cell)
  PROVE  LET new == InsertToSlot(cell, i, rec) IN
         /\ new \in Cell /\ CellSound(new) /\ HoldsRecords(new)
         /\ Full(cell) => Full(new)
         /\ ValidBitSet(new) = ValidBitSet(cell) \cup {i}
         /\ new.slot[i] = rec
         /\ \A j \in Slots \ {i} : new.slot[j] = cell.slot[j]
<1> DEFINE new == InsertToSlot(cell, i, rec)
<1>1. /\ cell.bitmap \in SUBSET Slots /\ cell.deleted \in SUBSET Slots
      /\ cell.slot \in [Slots -> Record \cup {Zeroed}]
  BY DEF Cell
<1>2. new \in Cell
  BY <1>1 DEF Cell, InsertToSlot
<1>3. /\ new.bitmap = cell.bitmap \cup {i}
      /\ new.deleted = cell.deleted \ {i}
      /\ new.slot = [cell.slot EXCEPT ![i] = rec]
  BY DEF InsertToSlot
<1>4. IsFiniteSet(cell.bitmap) /\ Cardinality(cell.bitmap) \in Nat
  BY <1>1, SlotsFinite
<1>5. Cardinality(new.bitmap) =
        IF i \in cell.bitmap THEN Cardinality(cell.bitmap)
        ELSE Cardinality(cell.bitmap) + 1
  BY <1>3, <1>4, FS_AddElement
<1>6. SlotCount \in Nat
  BY SlotAssumption DEF SlotCount
<1>7. CellSound(new) /\ (Full(cell) => Full(new))
  BY <1>1, <1>3, <1>4, <1>5, <1>6
     DEF CellSound, EraseBitSet, BackupBitSet, Full
<1>8. /\ new.slot[i] = rec
      /\ \A j \in Slots \ {i} : new.slot[j] = cell.slot[j]
  BY <1>1, <1>3
<1>9. HoldsRecords(new)
  BY <1>1, <1>3, <1>8 DEF HoldsRecords
<1>10. ValidBitSet(new) = ValidBitSet(cell) \cup {i}
  BY <1>3 DEF ValidBitSet
<1> QED
  BY <1>2, <1>7, <1>8, <1>9, <1>10

(* An update moves the record to the backup slot: as many slots are in use  *)
(* as before, and of the two only the new one is valid.                     *)
LEMMA UpdateSound ==
  ASSUME NEW cell \in Cell, NEW i \in Slots, NEW old \in Slots,
         NEW rec \in Record,
         CellSound(cell), HoldsRecords(cell),
         old \in ValidBitSet(cell), i \in BackupBitSet(cell)
  PROVE  LET new == UpdateToSlot(cell, i, old, rec) IN
         /\ new \in Cell /\ CellSound(new) /\ HoldsRecords(new)
         /\ Full(cell) => Full(new)
         /\ ValidBitSet(new) = (ValidBitSet(cell) \cup {i}) \ {old}
         /\ new.slot[i] = rec
         /\ \A j \in Slots \ {i} : new.slot[j] = cell.slot[j]
<1> DEFINE new == UpdateToSlot(cell, i, old, rec)
<1>1. /\ cell.bitmap \in SUBSET Slots /\ cell.deleted \in SUBSET Slots
      /\ cell.slot \in [Slots -> Record \cup {Zeroed}]
  BY DEF Cell
<1>2. /\ old \in cell.bitmap /\ old \notin cell.deleted
      /\ i \notin cell.bitmap /\ i \notin cell.deleted
  BY DEF ValidBitSet, BackupBitSet, CellSound
<1>3. /\ new.bitmap = (cell.bitmap \cup {i}) \ {old}
      /\ new.deleted = cell.deleted
      /\ new.slot = [cell.slot EXCEPT ![i] = rec]
  BY <1>2 DEF UpdateToSlot, Toggle
<1>4. new \in Cell
  BY <1>1, <1>3 DEF Cell, UpdateToSlot
<1>5. IsFiniteSet(cell.bitmap) /\ Cardinality(cell.bitmap) \in Nat
  BY <1>1, SlotsFinite
<1>6. /\ IsFiniteSet(cell.bitmap \cup {i})
      /\ Cardinality(cell.bitmap \cup {i}) = Cardinality(cell.bitmap) + 1
  BY <1>2, <1>5, FS_AddElement
<1>7. Cardinality(new.bitmap) = Cardinality(cell.bitmap)
  <2>1. old \in cell.bitmap \cup {i}
    BY <1>2
  <2>2. Cardinality((cell.bitmap \cup {i}) \ {old}) =
          Cardinality(cell.bitmap \cup {i}) - 1
    BY <1>6, <2>1, FS_RemoveElement
  <2> QED
    BY <1>3, <1>5, <1>6, <2>2
<1>8. CellSound(new) /\ (Full(cell) => Full(new))
  BY <1>2, <1>3, <1>7 DEF CellSound, Full
<1>9. /\ new.slot[i] = rec
      /\ \A j \in Slots \ {i} : new.slot[j] = cell.slot[j]
  BY <1>1, <1>3
<1>10. HoldsRecords(new)
  BY <1>1, <1>3, <1>9 DEF HoldsRecords
<1>11. ValidBitSet(new) = (ValidBitSet(cell) \cup {i}) \ {old}
  BY <1>2, <1>3 DEF ValidBitSet
<1> QED
  BY <1>4, <1>8, <1>9, <1>10, <1>11

LEMMA EraseSound ==
  ASSUME NEW cell \in Cell, NEW i \in Slots,
         CellSound(cell), HoldsRecords(cell), i \in ValidBitSet(cell)
  PROVE  LET new == EraseSlot(cell, i) IN
         /\ new \in Cell /\ CellSound(new) /\ HoldsRecords(new)
         /\ Full(cell) => Full(new)
         /\ ValidBitSet(new) = ValidBitSet(cell) \ {i}
         /\ new.slot = cell.slot
<1> DEFINE new == EraseSlot(cell, i)
<1>1. /\ cell.bitmap \in SUBSET Slots /\ cell.deleted \in SUBSET Slots
      /\ cell.slot \in [Slots -> Record \cup {Zeroed}]
  BY DEF Cell
<1>2. /\ new.bitmap = cell.bitmap /\ new.slot = cell.slot
      /\ new.deleted = cell.deleted \cup {i}
  BY DEF EraseSlot, Cell
<1>3. new \in Cell
  BY <1>1 DEF Cell, EraseSlot
<1> QED
  BY <1>2, <1>3 DEF CellSound, HoldsRecords, Full, ValidBitSet

-----------------------------------------------------------------------------
(* Probe paths.                                                             *)

OnPath(cells, n) ==
  \A c \in 0..(n - 1) : \A i \in ValidBitSet(cells[c]) :
    \E d \in Visited(cells, n, cells[c].slot[i].key) :
      ProbeCell(cells[c].slot[i].key, n, d) = c

UniqueKeys(cells, n) ==
  \A c, e \in 0..(n - 1) :
    \A i \in ValidBitSet(cells[c]), j \in ValidBitSet(cells[e]) :
      cells[c].slot[i].key = cells[e].slot[j].key => c = e /\ i = j

SoundBucket(cells, n) ==
  \A c \in 0..(n - 1) : CellSound(cells[c]) /\ HoldsRecords(cells[c])

(* Some valid slot holds the record.                                        *)
Holds(b, n, r) ==
  \E c \in 0..(n - 1) : \E i \in ValidBitSet(b[c]) : b[c].slot[i] = r

(* What was visited before a write that keeps full cells full is visited    *)
(* after it.                                                                *)
LEMMA VisitedGrows ==
  ASSUME NEW n \in Nat \ {0}, NEW cells, NEW new, NEW k \in Keys,
         \A c \in 0..(n - 1) : Full(cells[c]) => Full(new[c])
  PROVE  Visited(cells, n, k) \subseteq Visited(new, n, k)
<1> SUFFICES ASSUME NEW d \in Visited(cells, n, k)
             PROVE  d \in Visited(new, n, k)
  OBVIOUS
<1>1. /\ d \in ProbeDist(n) /\ d \in Nat
      /\ \A e \in 0..(d - 1) : Full(cells[ProbeCell(k, n, e)])
  BY ProbeAssumption DEF Visited, ProbeDist
<1>2. \A e \in 0..(d - 1) : Full(new[ProbeCell(k, n, e)])
  BY <1>1, ProbeInBucket
<1> QED
  BY <1>1, <1>2 DEF Visited

(* A write to cell c whose valid slots are old ones, or lie at c on the     *)
(* path of their key, leaves every record on its path.                      *)
LEMMA WriteKeepsPaths ==
  ASSUME NEW n \in Nat \ {0}, NEW cells \in Bucket(n), NEW c \in 0..(n - 1),
         NEW cell \in Cell, HoldsRecords(cell), SoundBucket(cells, n),
         OnPath(cells, n),
         Full(cells[c]) => Full(cell),
         \A i \in ValidBitSet(cell) :
           \/ i \in ValidBitSet(cells[c]) /\ cell.slot[i] = cells[c].slot[i]
           \/ \E d \in Visited(cells, n, cell.slot[i].key) :
                ProbeCell(cell.slot[i].key, n, d) = c
  PROVE  OnPath([cells EXCEPT ![c] = cell], n)
<1> DEFINE new == [cells EXCEPT ![c] = cell]
<1>1. /\ new[c] = cell
      /\ \A e \in (0..(n - 1)) \ {c} : new[e] = cells[e]
  BY DEF Bucket
<1>2. \A e \in 0..(n - 1) : Full(cells[e]) => Full(new[e])
  BY <1>1
<1>3. ASSUME NEW e \in 0..(n - 1), NEW i \in ValidBitSet(new[e])
      PROVE  new[e].slot[i].key \in Keys
  <2>1. HoldsRecords(new[e])
    BY <1>1 DEF SoundBucket
  <2>2. new[e].slot[i] \in Record
    BY <1>3, <2>1 DEF HoldsRecords, ValidBitSet
  <2> QED
    BY <2>2 DEF Record
<1> HIDE DEF new
<1>4. ASSUME NEW e \in 0..(n - 1), NEW i \in ValidBitSet(new[e])
      PROVE  \E d \in Visited(new, n, new[e].slot[i].key) :
               ProbeCell(new[e].slot[i].key, n, d) = e
  <2>1. \E d \in Visited(cells, n, new[e].slot[i].key) :
          ProbeCell(new[e].slot[i].key, n, d) = e
    <3>1. CASE e # c
      BY <3>1, <1>1, <1>4 DEF OnPath
    <3>2. CASE e = c
      <4>1. new[e] = cell /\ i \in ValidBitSet(cell)
        BY <3>2, <1>1, <1>4
      <4>2. CASE i \in ValidBitSet(cells[c]) /\ cell.slot[i] = cells[c].slot[i]
        BY <4>1, <4>2, <3>2 DEF OnPath
      <4> QED
        BY <4>1, <4>2, <3>2
    <3> QED
      BY <3>1, <3>2
  <2>2. Visited(cells, n, new[e].slot[i].key)
          \subseteq Visited(new, n, new[e].slot[i].key)
    BY <1>2, <1>3, VisitedGrows
  <2> QED
    BY <2>1, <2>2
<1> QED
  BY <1>4 DEF OnPath, new

(* A write to cell c leaves at most one valid slot per key when the valid   *)
(* slots it adds hold a key that is valid nowhere else afterwards.          *)
LEMMA WriteKeepsUnique ==
  ASSUME NEW n \in Nat \ {0}, NEW cells \in Bucket(n), NEW c \in 0..(n - 1),
         NEW cell \in Cell, UniqueKeys(cells, n), NEW i \in Slots,
         \A j \in ValidBitSet(cell) :
           j = i \/ (j \in ValidBitSet(cells[c]) /\ cell.slot[j] = cells[c].slot[j]),
         i \in ValidBitSet(cell) =>
           /\ \A j \in ValidBitSet(cell) :
                cell.slot[j].key = cell.slot[i].key => j = i
           /\ \A e \in (0..(n - 1)) \ {c} : \A j \in ValidBitSet(cells[e]) :
                cells[e].slot[j].key # cell.slot[i].key
  PROVE  UniqueKeys([cells EXCEPT ![c] = cell], n)
<1> DEFINE new == [cells EXCEPT ![c] = cell]
<1>1. /\ new[c] = cell
      /\ \A e \in (0..(n - 1)) \ {c} : new[e] = cells[e]
  BY DEF Bucket
<1> HIDE DEF new
<1>2. ASSUME NEW a \in 0..(n - 1), NEW b \in 0..(n - 1),
             NEW x \in ValidBitSet(new[a]), NEW y \in ValidBitSet(new[b]),
             new[a].slot[x].key = new[b].slot[y].key
      PROVE  a = b /\ x = y
  <2>1. CASE a # c /\ b # c
    BY <2>1, <1>1, <1>2 DEF UniqueKeys
  <2>2. CASE a = c /\ b = c
    BY <2>2, <1>1, <1>2 DEF UniqueKeys
  <2>3. CASE a = c /\ b # c
    <3>1. x = i \/ (x \in ValidBitSet(cells[c]) /\ cell.slot[x] = cells[c].slot[x])
      BY <2>3, <1>1, <1>2
    <3>2. b \in (0..(n - 1)) \ {c} /\ y \in ValidBitSet(cells[b]) /\ new[b] = cells[b]
      BY <2>3, <1>1, <1>2
    <3>3. CASE x = i
      BY <3>2, <3>3, <2>3, <1>1, <1>2
    <3>4. CASE x # i
      BY <3>1, <3>2, <3>4, <2>3, <1>1, <1>2 DEF UniqueKeys
    <3> QED
      BY <3>3, <3>4
  <2>4. CASE a # c /\ b = c
    <3>1. y = i \/ (y \in ValidBitSet(cells[c]) /\ cell.slot[y] = cells[c].slot[y])
      BY <2>4, <1>1, <1>2
    <3>2. a \in (0..(n - 1)) \ {c} /\ x \in ValidBitSet(cells[a]) /\ new[a] = cells[a]
      BY <2>4, <1>1, <1>2
    <3>3. CASE y = i
      BY <3>2, <3>3, <2>4, <1>1, <1>2
    <3>4. CASE y # i
      BY <3>1, <3>2, <3>4, <2>4, <1>1, <1>2 DEF UniqueKeys
    <3> QED
      BY <3>3, <3>4
  <2> QED
    BY <2>1, <2>2, <2>3, <2>4
<1> QED
  BY <1>2 DEF UniqueKeys, new

(* When every record is on its path, a search that finds nothing means that *)
(* the key is valid in no slot.                                             *)
LEMMA NothingFoundNothingThere ==
  ASSUME NEW n \in Nat \ {0}, NEW cells \in Bucket(n), NEW k \in Keys,
         OnPath(cells, n), FindsNothing(cells, n, k)
  PROVE  \A c \in 0..(n - 1) : \A i \in ValidBitSet(cells[c]) :
           cells[c].slot[i].key # k
<1> SUFFICES ASSUME NEW c \in 0..(n - 1), NEW i \in ValidBitSet(cells[c]),
                    cells[c].slot[i].key = k
             PROVE  FALSE
  OBVIOUS
<1>1. PICK d \in Visited(cells, n, k) : ProbeCell(k, n, d) = c
  BY DEF OnPath
<1>2. i \in MatchBitSet(cells[ProbeCell(k, n, d)], k)
  BY <1>1 DEF MatchBitSet
<1> QED
  BY <1>1, <1>2 DEF FindsNothing, HitDists
-----------------------------------------------------------------------------
(* A bucket of fresh cells.                                                *)

LEMMA EmptySound ==
  ASSUME NEW n \in Nat
  PROVE  /\ EmptyBucket(n) \in Bucket(n)
         /\ SoundBucket(EmptyBucket(n), n)
         /\ \A c \in 0..(n - 1) : /\ EmptyBucket(n)[c].bitmap = {}
                                  /\ EmptyBucket(n)[c].deleted = {}
<1>1. EmptyCell \in Cell
  BY DEF EmptyCell, Cell
<1>2. SlotCount - 1 \in Nat
  BY SlotAssumption DEF SlotCount
<1>3. CellSound(EmptyCell) /\ HoldsRecords(EmptyCell)
  BY <1>2, FS_EmptySet DEF CellSound, HoldsRecords, EmptyCell
<1> QED
  BY <1>1, <1>3 DEF EmptyBucket, Bucket, SoundBucket, EmptyCell

LEMMA EmptyMap ==
  ASSUME NEW n \in Nat
  PROVE  OnPath(EmptyBucket(n), n) /\ UniqueKeys(EmptyBucket(n), n)
<1>1. \A c \in 0..(n - 1) : ValidBitSet(EmptyBucket(n)[c]) = {}
  BY EmptySound DEF ValidBitSet
<1> QED
  BY <1>1 DEF OnPath, UniqueKeys
=============================================================================
