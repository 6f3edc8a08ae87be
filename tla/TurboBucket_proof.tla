-------------------------- MODULE TurboBucket_proof --------------------------
(***************************************************************************)
(* Proofs about one bucket of the DRAM table, for any number of keys,      *)
(* cells and slots.                                                        *)
(***************************************************************************)
EXTENDS TurboBucket, TurboCell_proof

(* What a rehash has built so far: the slots below slot_vec are in use and  *)
(* hold records, nothing is erased.                                         *)
NewCellsSound ==
  \A c \in 0..(newCount - 1) :
    /\ slotVec[c] \in StartSlotPos..SlotMaxRange
    /\ newCells[c].bitmap = StartSlotPos..(slotVec[c] - 1)
    /\ newCells[c].deleted = {}
    /\ HoldsRecords(newCells[c])

RehashSound ==
  /\ newCount >= 1
  /\ iter.cell < cellCount => iter.bits \subseteq ValidBitSet(cells[iter.cell])
  /\ iter.cell = cellCount => iter.bits = {}
  /\ back = "put" => rec \in Record

SoundInv ==
  /\ TypeOK
  /\ SoundBucket(cells, cellCount)
  /\ NewCellsSound
  /\ pc = "put" => rec \in Record
  /\ pc = "rehash" => RehashSound

(* A cell of the new bucket has as many slots in use as slot_vec says.      *)
LEMMA NewCellCounts ==
  ASSUME SoundInv, NEW c \in 0..(newCount - 1)
  PROVE  /\ CellSound(newCells[c])
         /\ Full(newCells[c]) <=> slotVec[c] = SlotMaxRange
         /\ ValidBitSet(newCells[c]) = newCells[c].bitmap
<1>1. /\ slotVec[c] \in StartSlotPos..SlotMaxRange
      /\ newCells[c].bitmap = StartSlotPos..(slotVec[c] - 1)
      /\ newCells[c].deleted = {}
  BY DEF SoundInv, NewCellsSound
<1>2. Cardinality(newCells[c].bitmap) = slotVec[c] - StartSlotPos
  <2>1. \A s \in StartSlotPos..SlotMaxRange :
          Cardinality(StartSlotPos..(s - 1)) = s - StartSlotPos
    <3> SUFFICES ASSUME NEW s \in StartSlotPos..SlotMaxRange
                 PROVE  Cardinality(StartSlotPos..(s - 1)) = s - StartSlotPos
      OBVIOUS
    <3>1. /\ StartSlotPos \in Int /\ s - 1 \in Int
          /\ s - 1 - StartSlotPos + 1 = s - StartSlotPos
          /\ StartSlotPos > s - 1 => s - StartSlotPos = 0
      BY SlotAssumption
    <3> QED
      BY <3>1, FS_Interval
  <2> QED
    BY <1>1, <2>1
<1> QED
  BY <1>1, <1>2, SlotAssumption DEF CellSound, Full, SlotCount, ValidBitSet

LEMMA SoundInit == Init => SoundInv
<1> SUFFICES ASSUME Init
             PROVE  SoundInv
  OBVIOUS
<1> USE DEF Init
<1>1. InitCellCount \in Nat \ {0} /\ InitCellCount \in 1..CellCountLimit
  BY CountAssumption
<1>2. /\ cells \in Bucket(cellCount) /\ SoundBucket(cells, cellCount)
      /\ newCells \in Bucket(newCount)
  BY <1>1, EmptySound
<1>3. TypeOK
  BY <1>1, <1>2, CountAssumption DEF TypeOK, NoRecord, Answer, Result
<1> QED
  BY <1>1, <1>2, <1>3 DEF SoundInv, NewCellsSound

(* A write of a sound cell that keeps the invariant.                        *)
LEMMA SoundWrite ==
  ASSUME NEW n \in Nat \ {0}, NEW old \in Bucket(n), SoundBucket(old, n),
         NEW c \in 0..(n - 1), NEW cell \in Cell,
         CellSound(cell), HoldsRecords(cell)
  PROVE  /\ [old EXCEPT ![c] = cell] \in Bucket(n)
         /\ SoundBucket([old EXCEPT ![c] = cell], n)
  BY DEF Bucket, SoundBucket

(* What each of the three writes to the bucket does to one cell.            *)
Untouched(new, cell, i) == \A j \in Slots \ {i} : new.slot[j] = cell.slot[j]

LEMMA PutInsertCell ==
  ASSUME SoundInv, rec \in Record,
         NEW d \in ProbeDist(cellCount), NEW i \in Slots,
         InsertTarget(cells, cellCount, rec.key, d, i)
  PROVE  LET cell == cells[At(rec.key, d)]
             new == InsertToSlot(cell, i, rec)
         IN  /\ cellCount \in Nat \ {0}
             /\ At(rec.key, d) \in 0..(cellCount - 1)
             /\ d \in Visited(cells, cellCount, rec.key)
             /\ i \notin ValidBitSet(cell)
             /\ new \in Cell /\ CellSound(new) /\ HoldsRecords(new)
             /\ Full(cell) => Full(new)
             /\ ValidBitSet(new) = ValidBitSet(cell) \cup {i}
             /\ new.slot[i] = rec
             /\ Untouched(new, cell, i)
<1> DEFINE cell == cells[At(rec.key, d)]
<1>1. /\ cellCount \in Nat \ {0} /\ cells \in Bucket(cellCount)
      /\ rec.key \in Keys
  BY DEF SoundInv, TypeOK, Record
<1>2. d \in Nat
  BY ProbeAssumption DEF ProbeDist
<1>3. At(rec.key, d) \in 0..(cellCount - 1)
  BY <1>1, <1>2, ProbeInBucket DEF At
<1>4. cell \in Cell /\ CellSound(cell) /\ HoldsRecords(cell)
  BY <1>1, <1>3 DEF SoundInv, SoundBucket, Bucket
<1>5. /\ d \in Visited(cells, cellCount, rec.key)
      /\ \/ i \in EraseBitSet(cell)
         \/ i \in BackupBitSet(cell) /\ ~Full(cell)
  BY DEF InsertTarget, EraseDists, EndDists, Last, Lowest, At
<1>7. i \notin ValidBitSet(cell)
  BY <1>5 DEF EraseBitSet, BackupBitSet, ValidBitSet
<1> HIDE DEF cell
<1>6. LET new == InsertToSlot(cell, i, rec) IN
         /\ new \in Cell /\ CellSound(new) /\ HoldsRecords(new)
         /\ Full(cell) => Full(new)
         /\ ValidBitSet(new) = ValidBitSet(cell) \cup {i}
         /\ new.slot[i] = rec
         /\ \A j \in Slots \ {i} : new.slot[j] = cell.slot[j]
  BY <1>4, <1>5, InsertSound
<1> QED
  BY <1>1, <1>3, <1>5, <1>6, <1>7 DEF Untouched, cell

LEMMA PutUpdateCell ==
  ASSUME SoundInv, rec \in Record,
         NEW d \in ProbeDist(cellCount), NEW old \in Slots, NEW i \in Slots,
         UpdateTarget(cells, cellCount, rec.key, d, old, i)
  PROVE  LET cell == cells[At(rec.key, d)]
             new == UpdateToSlot(cell, i, old, rec)
         IN  /\ cellCount \in Nat \ {0}
             /\ At(rec.key, d) \in 0..(cellCount - 1)
             /\ d \in Visited(cells, cellCount, rec.key)
             /\ old \in ValidBitSet(cell) /\ cell.slot[old].key = rec.key
             /\ i \notin cell.bitmap
             /\ new \in Cell /\ CellSound(new) /\ HoldsRecords(new)
             /\ Full(cell) => Full(new)
             /\ ValidBitSet(new) = (ValidBitSet(cell) \cup {i}) \ {old}
             /\ new.slot[i] = rec
             /\ Untouched(new, cell, i)
<1> DEFINE cell == cells[At(rec.key, d)]
<1>1. /\ cellCount \in Nat \ {0} /\ cells \in Bucket(cellCount)
      /\ rec.key \in Keys
  BY DEF SoundInv, TypeOK, Record
<1>2. d \in Nat
  BY ProbeAssumption DEF ProbeDist
<1>3. At(rec.key, d) \in 0..(cellCount - 1)
  BY <1>1, <1>2, ProbeInBucket DEF At
<1>4. cell \in Cell /\ CellSound(cell) /\ HoldsRecords(cell)
  BY <1>1, <1>3 DEF SoundInv, SoundBucket, Bucket
<1>5. /\ d \in Visited(cells, cellCount, rec.key)
      /\ old \in ValidBitSet(cell) /\ cell.slot[old].key = rec.key
      /\ i \in BackupBitSet(cell)
  BY DEF UpdateTarget, Finds, HitDists, MatchBitSet, Lowest, At
<1> HIDE DEF cell
<1>6. LET new == UpdateToSlot(cell, i, old, rec) IN
         /\ new \in Cell /\ CellSound(new) /\ HoldsRecords(new)
         /\ Full(cell) => Full(new)
         /\ ValidBitSet(new) = (ValidBitSet(cell) \cup {i}) \ {old}
         /\ new.slot[i] = rec
         /\ \A j \in Slots \ {i} : new.slot[j] = cell.slot[j]
  BY <1>4, <1>5, UpdateSound
<1> QED
  BY <1>1, <1>3, <1>5, <1>6 DEF Untouched, BackupBitSet, cell

LEMMA DeleteCell ==
  ASSUME SoundInv, NEW k \in Keys,
         NEW d \in ProbeDist(cellCount), NEW i \in Slots,
         Finds(cells, cellCount, k, d, i)
  PROVE  LET cell == cells[At(k, d)]
             new == EraseSlot(cell, i)
         IN  /\ cellCount \in Nat \ {0}
             /\ At(k, d) \in 0..(cellCount - 1)
             /\ i \in ValidBitSet(cell) /\ cell.slot[i].key = k
             /\ cell.slot[i] \in Record
             /\ new \in Cell /\ CellSound(new) /\ HoldsRecords(new)
             /\ Full(cell) => Full(new)
             /\ ValidBitSet(new) = ValidBitSet(cell) \ {i}
             /\ new.slot = cell.slot
<1> DEFINE cell == cells[At(k, d)]
<1>1. cellCount \in Nat \ {0} /\ cells \in Bucket(cellCount)
  BY DEF SoundInv, TypeOK
<1>2. d \in Nat
  BY ProbeAssumption DEF ProbeDist
<1>3. At(k, d) \in 0..(cellCount - 1)
  BY <1>1, <1>2, ProbeInBucket DEF At
<1>4. cell \in Cell /\ CellSound(cell) /\ HoldsRecords(cell)
  BY <1>1, <1>3 DEF SoundInv, SoundBucket, Bucket
<1>5. i \in ValidBitSet(cell) /\ cell.slot[i].key = k
  BY DEF Finds, MatchBitSet, Lowest, At
<1> HIDE DEF cell
<1>6. LET new == EraseSlot(cell, i) IN
         /\ new \in Cell /\ CellSound(new) /\ HoldsRecords(new)
         /\ Full(cell) => Full(new)
         /\ ValidBitSet(new) = ValidBitSet(cell) \ {i}
         /\ new.slot = cell.slot
  BY <1>4, <1>5, EraseSound
<1>7. cell.slot[i] \in Record
  BY <1>4, <1>5 DEF HoldsRecords, ValidBitSet
<1> QED
  BY <1>1, <1>3, <1>5, <1>6, <1>7 DEF cell

-----------------------------------------------------------------------------
(* Every step keeps SoundInv.                                               *)

LEMMA SoundPutInsert == SoundInv /\ PutInsert => SoundInv'
<1> SUFFICES ASSUME SoundInv, PutInsert
             PROVE  SoundInv'
  OBVIOUS
<1>1. PICK d \in ProbeDist(cellCount), i \in Slots :
        /\ InsertTarget(cells, cellCount, rec.key, d, i)
        /\ cells' = [cells EXCEPT ![At(rec.key, d)] = InsertToSlot(@, i, rec)]
  BY DEF PutInsert
<1>2. rec \in Record /\ PutReturns
  BY DEF PutInsert, SoundInv
<1> DEFINE new == InsertToSlot(cells[At(rec.key, d)], i, rec)
<1>3. /\ cellCount \in Nat \ {0} /\ At(rec.key, d) \in 0..(cellCount - 1)
      /\ new \in Cell /\ CellSound(new) /\ HoldsRecords(new)
  BY <1>1, <1>2, PutInsertCell
<1>4. cells' = [cells EXCEPT ![At(rec.key, d)] = new]
  BY <1>1
<1> HIDE DEF new
<1>5. /\ cells \in Bucket(cellCount) /\ SoundBucket(cells, cellCount)
  BY DEF SoundInv, TypeOK
<1>6. /\ cells' \in Bucket(cellCount) /\ SoundBucket(cells', cellCount)
  BY <1>3, <1>4, <1>5, SoundWrite
<1>7. TypeOK' /\ NewCellsSound'
  BY <1>2, <1>6 DEF SoundInv, TypeOK, NewCellsSound, PutReturns, rehashVars,
     Answer, Result, Record
<1> QED
  BY <1>2, <1>6, <1>7 DEF SoundInv, PutReturns

LEMMA SoundPutUpdate == SoundInv /\ PutUpdate => SoundInv'
<1> SUFFICES ASSUME SoundInv, PutUpdate
             PROVE  SoundInv'
  OBVIOUS
<1>1. PICK d \in ProbeDist(cellCount), old \in Slots, i \in Slots :
        /\ UpdateTarget(cells, cellCount, rec.key, d, old, i)
        /\ cells' = [cells EXCEPT ![At(rec.key, d)] = UpdateToSlot(@, i, old, rec)]
  BY DEF PutUpdate
<1>2. rec \in Record /\ PutReturns
  BY DEF PutUpdate, SoundInv
<1> DEFINE new == UpdateToSlot(cells[At(rec.key, d)], i, old, rec)
<1>3. /\ cellCount \in Nat \ {0} /\ At(rec.key, d) \in 0..(cellCount - 1)
      /\ new \in Cell /\ CellSound(new) /\ HoldsRecords(new)
  BY <1>1, <1>2, PutUpdateCell
<1>4. cells' = [cells EXCEPT ![At(rec.key, d)] = new]
  BY <1>1
<1> HIDE DEF new
<1>5. /\ cells \in Bucket(cellCount) /\ SoundBucket(cells, cellCount)
  BY DEF SoundInv, TypeOK
<1>6. /\ cells' \in Bucket(cellCount) /\ SoundBucket(cells', cellCount)
  BY <1>3, <1>4, <1>5, SoundWrite
<1>7. TypeOK' /\ NewCellsSound'
  BY <1>2, <1>6 DEF SoundInv, TypeOK, NewCellsSound, PutReturns, rehashVars,
     Answer, Result, Record
<1> QED
  BY <1>2, <1>6, <1>7 DEF SoundInv, PutReturns

LEMMA SoundDelete ==
  ASSUME NEW k \in Keys, SoundInv, Delete(k)
  PROVE  SoundInv'
<1>1. CASE res' = Answer("delete", k, FALSE, Absent) /\ UNCHANGED cells
  <2>1. res' \in Result
    BY <1>1 DEF Answer, Result
  <2> QED
    BY <1>1, <2>1 DEF Delete, SoundInv, TypeOK, NewCellsSound, rehashVars
<1>2. CASE \E d \in ProbeDist(cellCount), i \in Slots :
             /\ Finds(cells, cellCount, k, d, i)
             /\ cells' = [cells EXCEPT ![At(k, d)] = EraseSlot(@, i)]
             /\ res' = Answer("delete", k, TRUE, Absent)
  <2>1. PICK d \in ProbeDist(cellCount), i \in Slots :
             /\ Finds(cells, cellCount, k, d, i)
             /\ cells' = [cells EXCEPT ![At(k, d)] = EraseSlot(@, i)]
             /\ res' = Answer("delete", k, TRUE, Absent)
    BY <1>2
  <2> DEFINE new == EraseSlot(cells[At(k, d)], i)
  <2>2. /\ cellCount \in Nat \ {0} /\ At(k, d) \in 0..(cellCount - 1)
        /\ new \in Cell /\ CellSound(new) /\ HoldsRecords(new)
    BY <2>1, DeleteCell
  <2>3. cells' = [cells EXCEPT ![At(k, d)] = new]
    BY <2>1
  <2> HIDE DEF new
  <2>4. /\ cells \in Bucket(cellCount) /\ SoundBucket(cells, cellCount)
    BY DEF SoundInv, TypeOK
  <2>5. /\ cells' \in Bucket(cellCount) /\ SoundBucket(cells', cellCount)
    BY <2>2, <2>3, <2>4, SoundWrite
  <2>6. /\ pc = "idle"
        /\ UNCHANGED <<cellCount, pc, rec, rehashVars>>
    BY DEF Delete
  <2>7. TypeOK' /\ NewCellsSound'
    BY <2>1, <2>5, <2>6 DEF SoundInv, TypeOK, NewCellsSound, rehashVars,
       Answer, Result
  <2> QED
    BY <2>5, <2>6, <2>7 DEF SoundInv
<1> QED
  BY <1>1, <1>2 DEF Delete

LEMMA SoundFind ==
  ASSUME NEW k \in Keys, SoundInv, Find(k)
  PROVE  SoundInv'
<1>1. UNCHANGED <<cells, cellCount, pc, rec, rehashVars>> /\ pc = "idle"
  BY DEF Find
<1>2. res' \in Result
  <2>1. CASE res' = Answer("find", k, FALSE, Absent)
    BY <2>1 DEF Answer, Result
  <2>2. CASE \E d \in ProbeDist(cellCount), i \in Slots :
               /\ Finds(cells, cellCount, k, d, i)
               /\ res' = Answer("find", k, TRUE, cells[At(k, d)].slot[i].val)
    <3>1. PICK d \in ProbeDist(cellCount), i \in Slots :
               /\ Finds(cells, cellCount, k, d, i)
               /\ res' = Answer("find", k, TRUE, cells[At(k, d)].slot[i].val)
      BY <2>2
    <3>2. cells[At(k, d)].slot[i] \in Record
      BY <3>1, DeleteCell
    <3> QED
      BY <3>1, <3>2 DEF Record, Answer, Result
  <2> QED
    BY <2>1, <2>2 DEF Find
<1> QED
  BY <1>1, <1>2 DEF SoundInv, TypeOK, NewCellsSound, rehashVars

(* A rehash begins with empty cells and the valid slots of the first cell.  *)
LEMMA SoundBegin ==
  ASSUME SoundInv, NEW n \in Nat \ {0}, NEW return \in {"idle", "put"},
         RehashBegin(n, return), UNCHANGED <<cells, cellCount, rec, res>>,
         return = "put" => rec \in Record
  PROVE  SoundInv'
<1>1. CASE n > CellCountLimit
  BY <1>1 DEF RehashBegin, SoundInv, TypeOK, NewCellsSound, rehashVars
<1>2. CASE ~(n > CellCountLimit)
  <2>1. /\ pc' = "rehash" /\ newCount' = n /\ newCells' = EmptyBucket(n)
        /\ slotVec' = [c \in 0..(n - 1) |-> StartSlotPos]
        /\ iter' = [cell |-> 0, bits |-> ValidBitSet(cells[0])]
        /\ back' = return
    BY <1>2 DEF RehashBegin
  <2>2. /\ cellCount \in 1..CellCountLimit /\ cells \in Bucket(cellCount)
        /\ 0 \in 0..(cellCount - 1) /\ n \in 0..CellCountLimit
    BY <1>2, CountAssumption DEF SoundInv, TypeOK
  <2>3. ValidBitSet(cells[0]) \subseteq Slots
    BY <2>2 DEF Bucket, Cell, ValidBitSet
  <2>4. newCells' \in Bucket(newCount')
    BY <2>1, EmptySound
  <2>5. TypeOK'
    BY <2>1, <2>2, <2>3, <2>4, SlotAssumption DEF SoundInv, TypeOK
  <2>6. NewCellsSound'
    <3>1. \A c \in 0..(n - 1) :
             /\ EmptyBucket(n)[c].bitmap = {} /\ EmptyBucket(n)[c].deleted = {}
             /\ HoldsRecords(EmptyBucket(n)[c])
      BY EmptySound DEF SoundBucket
    <3>2. StartSlotPos..(StartSlotPos - 1) = {}
          /\ StartSlotPos \in StartSlotPos..SlotMaxRange
      BY SlotAssumption
    <3> QED
      BY <2>1, <3>1, <3>2 DEF NewCellsSound
  <2>7. RehashSound'
    BY <2>1, <2>2 DEF RehashSound
  <2> QED
    BY <2>1, <2>5, <2>6, <2>7 DEF SoundInv
<1> QED
  BY <1>1, <1>2

(* findNextSlotInRehash finds room: the cell's next free slot is below      *)
(* SlotMaxRange, and the cells probed before it are full.                   *)
LEMMA RehashMoveCell ==
  ASSUME SoundInv, pc = "rehash",
         NEW i \in iter.bits, NEW d \in 0..MaxProbeLen,
         RehashTarget(cells[iter.cell].slot[i].key, d)
  PROVE  LET old == cells[iter.cell].slot[i]
             c == ProbeCell(old.key, newCount, d)
             new == InsertToSlot(newCells[c], slotVec[c], old)
         IN  /\ iter.cell \in 0..(cellCount - 1)
             /\ i \in ValidBitSet(cells[iter.cell]) /\ i \in Slots
             /\ old \in Record /\ old.key \in Keys
             /\ newCount \in Nat \ {0} /\ c \in 0..(newCount - 1)
             /\ slotVec[c] \in Slots /\ slotVec[c] < SlotMaxRange
             /\ slotVec[c] \notin newCells[c].bitmap
             /\ new \in Cell /\ CellSound(new) /\ HoldsRecords(new)
             /\ Full(newCells[c]) => Full(new)
             /\ new.bitmap = newCells[c].bitmap \cup {slotVec[c]}
             /\ new.deleted = {}
             /\ new.slot[slotVec[c]] = old
             /\ Untouched(new, newCells[c], slotVec[c])
<1> DEFINE old == cells[iter.cell].slot[i]
           c == ProbeCell(old.key, newCount, d)
           s == slotVec[c]
<1>1. /\ cellCount \in Nat \ {0} /\ cells \in Bucket(cellCount)
      /\ newCount \in Nat \ {0} /\ newCells \in Bucket(newCount)
      /\ iter.cell \in 0..cellCount
  BY DEF SoundInv, TypeOK, RehashSound
<1>2. /\ iter.cell \in 0..(cellCount - 1)
      /\ i \in ValidBitSet(cells[iter.cell])
  BY <1>1 DEF SoundInv, RehashSound
<1>3. /\ cells[iter.cell] \in Cell /\ HoldsRecords(cells[iter.cell])
  BY <1>1, <1>2 DEF Bucket, SoundInv, SoundBucket
<1>4. old \in Record /\ old.key \in Keys /\ i \in Slots
  BY <1>2, <1>3 DEF HoldsRecords, ValidBitSet, Record, Cell
<1>5. c \in 0..(newCount - 1)
  BY <1>1, <1>4, ProbeInBucket, ProbeAssumption
<1>6. s < SlotMaxRange
  BY <1>4, <1>5 DEF RehashTarget, OpenDists, Lowest
<1>7. /\ s \in StartSlotPos..SlotMaxRange
      /\ newCells[c].bitmap = StartSlotPos..(s - 1)
      /\ newCells[c].deleted = {} /\ HoldsRecords(newCells[c])
      /\ newCells[c] \in Cell
  BY <1>1, <1>5 DEF SoundInv, NewCellsSound, Bucket
<1>8. CellSound(newCells[c]) /\ (Full(newCells[c]) <=> s = SlotMaxRange)
  BY <1>5, NewCellCounts
<1> HIDE DEF old, c, s
<1>9. s \in Slots /\ s \notin newCells[c].bitmap /\ ~Full(newCells[c])
  BY <1>6, <1>7, <1>8, SlotAssumption DEF Slots
<1>10. s \in BackupBitSet(newCells[c])
  BY <1>9 DEF BackupBitSet
<1>11. LET new == InsertToSlot(newCells[c], s, old) IN
         /\ new \in Cell /\ CellSound(new) /\ HoldsRecords(new)
         /\ Full(newCells[c]) => Full(new)
         /\ ValidBitSet(new) = ValidBitSet(newCells[c]) \cup {s}
         /\ new.slot[s] = old
         /\ \A j \in Slots \ {s} : new.slot[j] = newCells[c].slot[j]
  BY <1>4, <1>7, <1>8, <1>9, <1>10, InsertSound
<1>12. LET new == InsertToSlot(newCells[c], s, old) IN
         new.bitmap = newCells[c].bitmap \cup {s} /\ new.deleted = {}
  BY <1>7 DEF InsertToSlot
<1> QED
  BY <1>1, <1>2, <1>4, <1>5, <1>6, <1>9, <1>11, <1>12 DEF Untouched, old, c, s

LEMMA SoundRehashMove == SoundInv /\ RehashMove => SoundInv'
<1> SUFFICES ASSUME SoundInv, RehashMove
             PROVE  SoundInv'
  OBVIOUS
<1>1. /\ pc = "rehash"
      /\ UNCHANGED <<cells, cellCount, rec, res, newCount, back>>
  BY DEF RehashMove
<1>2. CASE pc' = "exit" /\ UNCHANGED <<newCells, slotVec, iter>>
  BY <1>1, <1>2 DEF SoundInv, TypeOK, NewCellsSound
<1>3. ASSUME NEW i \in iter.bits, NEW d \in 0..MaxProbeLen,
             RehashTarget(cells[iter.cell].slot[i].key, d),
             LET old == cells[iter.cell].slot[i]
                 c == ProbeCell(old.key, newCount, d)
             IN  /\ newCells' = [newCells EXCEPT
                                   ![c] = InsertToSlot(@, slotVec[c], old)]
                 /\ slotVec' = [slotVec EXCEPT ![c] = @ + 1],
             iter' = [iter EXCEPT !.bits = iter.bits \ {i}],
             UNCHANGED pc
      PROVE  SoundInv'
  <2> DEFINE old == cells[iter.cell].slot[i]
             c == ProbeCell(old.key, newCount, d)
             new == InsertToSlot(newCells[c], slotVec[c], old)
  <2>1. /\ newCount \in Nat \ {0} /\ c \in 0..(newCount - 1)
        /\ slotVec[c] \in Slots /\ slotVec[c] < SlotMaxRange
        /\ new \in Cell /\ HoldsRecords(new)
        /\ new.bitmap = newCells[c].bitmap \cup {slotVec[c]}
        /\ new.deleted = {}
    BY <1>1, <1>3, RehashMoveCell
  <2>2. /\ newCells' = [newCells EXCEPT ![c] = new]
        /\ slotVec' = [slotVec EXCEPT ![c] = slotVec[c] + 1]
    BY <1>3
  <2> HIDE DEF new, c
  <2>3. /\ newCells \in Bucket(newCount)
        /\ slotVec \in [0..(newCount - 1) -> Nat]
        /\ iter \in [cell : 0..cellCount, bits : SUBSET Slots]
    BY DEF SoundInv, TypeOK
  <2>4. newCells' \in Bucket(newCount) /\ slotVec' \in [0..(newCount - 1) -> Nat]
    BY <2>1, <2>2, <2>3, SlotAssumption DEF Bucket, Slots
  <2>5. TypeOK'
    BY <1>1, <1>3, <2>3, <2>4 DEF SoundInv, TypeOK
  <2>6. NewCellsSound'
    <3>1. /\ newCells'[c] = new /\ slotVec'[c] = slotVec[c] + 1
          /\ \A e \in (0..(newCount - 1)) \ {c} :
               newCells'[e] = newCells[e] /\ slotVec'[e] = slotVec[e]
      BY <2>1, <2>2, <2>3 DEF Bucket
    <3>2. /\ slotVec[c] \in StartSlotPos..SlotMaxRange
          /\ newCells[c].bitmap = StartSlotPos..(slotVec[c] - 1)
      BY <2>1 DEF SoundInv, NewCellsSound
    <3>3. new.bitmap = StartSlotPos..slotVec[c]
      BY <2>1, <3>2, SlotAssumption
    <3>4. slotVec[c] + 1 \in StartSlotPos..SlotMaxRange
      BY <2>1, <3>2, SlotAssumption
    <3>5. ASSUME NEW e \in 0..(newCount - 1)
          PROVE  /\ slotVec'[e] \in StartSlotPos..SlotMaxRange
                 /\ newCells'[e].bitmap = StartSlotPos..(slotVec'[e] - 1)
                 /\ newCells'[e].deleted = {}
                 /\ HoldsRecords(newCells'[e])
      <4>1. CASE e = c
        <5>1. slotVec'[e] = slotVec[c] + 1 /\ newCells'[e] = new
          BY <4>1, <3>1
        <5>2. slotVec'[e] - 1 = slotVec[c]
          BY <5>1, <3>2, SlotAssumption
        <5> QED
          BY <5>1, <5>2, <2>1, <3>3, <3>4
      <4>2. CASE e # c
        BY <4>2, <3>1 DEF SoundInv, NewCellsSound
      <4> QED
        BY <4>1, <4>2
    <3> QED
      BY <1>1, <3>5 DEF NewCellsSound
  <2>7. RehashSound'
    BY <1>1, <1>3, <2>3 DEF SoundInv, RehashSound
  <2> QED
    BY <1>1, <1>3, <2>5, <2>6, <2>7 DEF SoundInv
<1> QED
  BY <1>2, <1>3 DEF RehashMove

LEMMA SoundRehashNextCell == SoundInv /\ RehashNextCell => SoundInv'
<1> SUFFICES ASSUME SoundInv, RehashNextCell
             PROVE  SoundInv'
  OBVIOUS
<1> USE DEF RehashNextCell
<1>1. /\ cellCount \in Nat \ {0} /\ cells \in Bucket(cellCount)
      /\ iter.cell \in 0..(cellCount - 1)
  BY DEF SoundInv, TypeOK
<1>2. iter'.cell = iter.cell + 1 /\ iter'.cell \in 0..cellCount
  BY <1>1
<1>3. /\ iter'.cell < cellCount => iter'.bits = ValidBitSet(cells[iter'.cell])
      /\ iter'.cell = cellCount => iter'.bits = {}
  BY <1>1, <1>2
<1>4. iter'.bits \subseteq Slots
  BY <1>1, <1>2, <1>3 DEF Bucket, Cell, ValidBitSet
<1>5. iter' \in [cell : 0..cellCount, bits : SUBSET Slots]
  BY <1>2, <1>4
<1>6. TypeOK' /\ NewCellsSound'
  BY <1>5 DEF SoundInv, TypeOK, NewCellsSound
<1>7. RehashSound'
  BY <1>3 DEF SoundInv, RehashSound
<1> QED
  BY <1>6, <1>7 DEF SoundInv

LEMMA SoundRehashCommit == SoundInv /\ RehashCommit => SoundInv'
<1> SUFFICES ASSUME SoundInv, RehashCommit
             PROVE  SoundInv'
  OBVIOUS
<1> USE DEF RehashCommit
<1>1. /\ newCount \in 1..CellCountLimit /\ newCells \in Bucket(newCount)
  BY CountAssumption DEF SoundInv, TypeOK, RehashSound
<1>2. SoundBucket(newCells, newCount)
  BY NewCellCounts DEF SoundInv, NewCellsSound, SoundBucket
<1>3. TypeOK'
  BY <1>1, EmptySound, CountAssumption DEF SoundInv, TypeOK
<1> QED
  BY <1>2, <1>3 DEF SoundInv, NewCellsSound, RehashSound, TypeOK

LEMMA SoundStep == SoundInv /\ [Next]_vars => SoundInv'
<1> SUFFICES ASSUME SoundInv, [Next]_vars
             PROVE  SoundInv'
  OBVIOUS
<1>1. ASSUME NEW k \in Keys, NEW v \in Values, Put(k, v)
      PROVE  SoundInv'
  <2>1. rec' \in Record
    BY <1>1 DEF Put, Record
  <2> QED
    BY <1>1, <2>1 DEF Put, SoundInv, TypeOK, NewCellsSound, rehashVars
<1>2. CASE PutRehash
  <2>1. 2 * cellCount \in Nat \ {0} /\ rec \in Record
    BY <1>2 DEF PutRehash, SoundInv, TypeOK
  <2> QED
    BY <1>2, <2>1, SoundBegin DEF PutRehash
<1>3. CASE MinorReHashAll
  <2>1. 2 * cellCount \in Nat \ {0}
    BY DEF SoundInv, TypeOK
  <2> QED
    BY <1>3, <2>1, SoundBegin DEF MinorReHashAll
<1>4. CASE GCAll
  <2>1. cellCount \in Nat \ {0}
    BY DEF SoundInv, TypeOK
  <2> QED
    BY <1>4, <2>1, SoundBegin DEF GCAll
<1>5. CASE UNCHANGED vars
  BY <1>5 DEF vars, SoundInv, TypeOK, NewCellsSound, RehashSound
<1> QED
  BY <1>1, <1>2, <1>3, <1>4, <1>5, SoundPutInsert, SoundPutUpdate,
     SoundDelete, SoundFind, SoundRehashMove, SoundRehashNextCell,
     SoundRehashCommit
     DEF Next, PutStep, RehashStep

LEMMA Sound == Spec => []SoundInv
  BY SoundInit, SoundStep, PTL DEF Spec

(* The state of a bucket is always well formed, whatever the keys hash to.  *)
THEOREM TypeCorrect == Spec => []TypeOK
<1>1. SoundInv => TypeOK
  BY DEF SoundInv
<1> QED
  BY <1>1, Sound, PTL

(* Inserts, updates, deletions and rehashes of any length never use up the  *)
(* slot of a cell that is reserved for updates.                             *)
THEOREM SlotReserved == Spec => []BackupSlotLeft
<1>1. SoundInv => BackupSlotLeft
  BY NewCellCounts DEF SoundInv, SoundBucket, BackupSlotLeft
<1> QED
  BY <1>1, Sound, PTL

-----------------------------------------------------------------------------
(* The bucket implements the map of KVMap.  The one assumption is           *)
(* NoOverrun; a bucket that is never larger than MaxProbeLen cells          *)
(* satisfies it.                                                            *)

(* A slot of the old bucket that the rehash has not moved yet.              *)
Left(c, i) == (c = iter.cell /\ i \in iter.bits) \/ c > iter.cell

Moved ==
  \A c \in 0..(cellCount - 1) : \A i \in ValidBitSet(cells[c]) :
    ~Left(c, i) =>
      \E e \in 0..(newCount - 1) : \E j \in ValidBitSet(newCells[e]) :
        newCells[e].slot[j] = cells[c].slot[i]

FromOld ==
  \A e \in 0..(newCount - 1) : \A j \in ValidBitSet(newCells[e]) :
    \E c \in 0..(cellCount - 1) : \E i \in ValidBitSet(cells[c]) :
      ~Left(c, i) /\ cells[c].slot[i] = newCells[e].slot[j]

RehashMap ==
  /\ OnPath(newCells, newCount)
  /\ UniqueKeys(newCells, newCount)
  /\ Moved
  /\ FromOld

MapInv ==
  /\ OnPath(cells, cellCount)
  /\ UniqueKeys(cells, cellCount)
  /\ pc = "rehash" => RehashMap

LEMMA MapInit == Init => MapInv
<1>1. Init => cellCount \in Nat
  BY CountAssumption DEF Init
<1> QED
  BY <1>1, EmptyMap DEF Init, MapInv

LEMMA MapPutInsert == SoundInv /\ MapInv /\ PutInsert => MapInv'
<1> SUFFICES ASSUME SoundInv, MapInv, PutInsert
             PROVE  MapInv'
  OBVIOUS
<1>1. PICK d \in ProbeDist(cellCount), i \in Slots :
        /\ InsertTarget(cells, cellCount, rec.key, d, i)
        /\ cells' = [cells EXCEPT ![At(rec.key, d)] = InsertToSlot(@, i, rec)]
  BY DEF PutInsert
<1>2. rec \in Record /\ rec.key \in Keys /\ pc' = "idle" /\ cellCount' = cellCount
  BY DEF PutInsert, PutReturns, SoundInv, Record
<1> DEFINE c == At(rec.key, d)
           new == InsertToSlot(cells[c], i, rec)
<1>3. /\ cellCount \in Nat \ {0} /\ c \in 0..(cellCount - 1)
      /\ d \in Visited(cells, cellCount, rec.key)
      /\ new \in Cell /\ HoldsRecords(new)
      /\ Full(cells[c]) => Full(new)
      /\ ValidBitSet(new) = ValidBitSet(cells[c]) \cup {i}
      /\ new.slot[i] = rec
      /\ Untouched(new, cells[c], i)
  BY <1>1, <1>2, PutInsertCell
<1>4. cells' = [cells EXCEPT ![c] = new]
  BY <1>1
<1>5. ProbeCell(rec.key, cellCount, d) = c
  BY DEF At
<1> HIDE DEF new, c
<1>6. /\ cells \in Bucket(cellCount) /\ SoundBucket(cells, cellCount)
  BY DEF SoundInv, TypeOK
<1>7. \A j \in ValidBitSet(new) :
        j = i \/ (j \in ValidBitSet(cells[c]) /\ new.slot[j] = cells[c].slot[j])
  <2>1. ValidBitSet(new) \subseteq Slots
    BY <1>3 DEF Cell, ValidBitSet
  <2> QED
    BY <1>3, <2>1 DEF Untouched
<1>8. OnPath(cells', cellCount)
  <2>1. \A j \in ValidBitSet(new) :
           \/ j \in ValidBitSet(cells[c]) /\ new.slot[j] = cells[c].slot[j]
           \/ \E x \in Visited(cells, cellCount, new.slot[j].key) :
                ProbeCell(new.slot[j].key, cellCount, x) = c
    BY <1>3, <1>5, <1>7
  <2>2. OnPath(cells, cellCount)
    BY DEF MapInv
  <2> QED
    BY <1>3, <1>4, <1>6, <2>1, <2>2, WriteKeepsPaths
<1>9. UniqueKeys(cells', cellCount)
  <2>1. \A e \in 0..(cellCount - 1) : \A j \in ValidBitSet(cells[e]) :
           cells[e].slot[j].key # rec.key
    BY <1>1, <1>2, <1>3, <1>6, NothingFoundNothingThere DEF MapInv, InsertTarget
  <2>2. UniqueKeys(cells, cellCount)
    BY DEF MapInv
  <2>3. /\ \A j \in ValidBitSet(new) : new.slot[j].key = new.slot[i].key => j = i
        /\ \A e \in (0..(cellCount - 1)) \ {c} : \A j \in ValidBitSet(cells[e]) :
             cells[e].slot[j].key # new.slot[i].key
    BY <1>3, <1>7, <2>1
  <2>4. /\ cellCount \in Nat \ {0} /\ c \in 0..(cellCount - 1) /\ new \in Cell
        /\ cells \in Bucket(cellCount)
    BY <1>3, <1>6
  <2>5. UniqueKeys([cells EXCEPT ![c] = new], cellCount)
    BY <1>7, <2>2, <2>3, <2>4, WriteKeepsUnique
  <2> QED
    BY <1>4, <2>5
<1> QED
  BY <1>2, <1>8, <1>9 DEF MapInv

LEMMA MapPutUpdate == SoundInv /\ MapInv /\ PutUpdate => MapInv'
<1> SUFFICES ASSUME SoundInv, MapInv, PutUpdate
             PROVE  MapInv'
  OBVIOUS
<1>1. PICK d \in ProbeDist(cellCount), old \in Slots, i \in Slots :
        /\ UpdateTarget(cells, cellCount, rec.key, d, old, i)
        /\ cells' = [cells EXCEPT ![At(rec.key, d)] = UpdateToSlot(@, i, old, rec)]
  BY DEF PutUpdate
<1>2. rec \in Record /\ rec.key \in Keys /\ pc' = "idle" /\ cellCount' = cellCount
  BY DEF PutUpdate, PutReturns, SoundInv, Record
<1> DEFINE c == At(rec.key, d)
           new == UpdateToSlot(cells[c], i, old, rec)
<1>3. /\ cellCount \in Nat \ {0} /\ c \in 0..(cellCount - 1)
      /\ d \in Visited(cells, cellCount, rec.key)
      /\ old \in ValidBitSet(cells[c]) /\ cells[c].slot[old].key = rec.key
      /\ new \in Cell /\ HoldsRecords(new)
      /\ Full(cells[c]) => Full(new)
      /\ ValidBitSet(new) = (ValidBitSet(cells[c]) \cup {i}) \ {old}
      /\ new.slot[i] = rec
      /\ Untouched(new, cells[c], i)
  BY <1>1, <1>2, PutUpdateCell
<1>4. cells' = [cells EXCEPT ![c] = new]
  BY <1>1
<1>5. ProbeCell(rec.key, cellCount, d) = c
  BY DEF At
<1> HIDE DEF new, c
<1>6. /\ cells \in Bucket(cellCount) /\ SoundBucket(cells, cellCount)
      /\ OnPath(cells, cellCount) /\ UniqueKeys(cells, cellCount)
  BY DEF SoundInv, TypeOK, MapInv
<1>7. \A j \in ValidBitSet(new) :
        j = i \/ (/\ j \in ValidBitSet(cells[c]) /\ new.slot[j] = cells[c].slot[j]
                  /\ j # old)
  <2>1. ValidBitSet(new) \subseteq Slots
    BY <1>3 DEF Cell, ValidBitSet
  <2> QED
    BY <1>3, <2>1 DEF Untouched
<1>8. OnPath(cells', cellCount)
  <2>1. \A j \in ValidBitSet(new) :
           \/ j \in ValidBitSet(cells[c]) /\ new.slot[j] = cells[c].slot[j]
           \/ \E x \in Visited(cells, cellCount, new.slot[j].key) :
                ProbeCell(new.slot[j].key, cellCount, x) = c
    BY <1>3, <1>5, <1>7
  <2> QED
    BY <1>3, <1>4, <1>6, <2>1, WriteKeepsPaths
<1>9. UniqueKeys(cells', cellCount)
  <2>1. \A e \in 0..(cellCount - 1) : \A j \in ValidBitSet(cells[e]) :
           cells[e].slot[j].key = rec.key => e = c /\ j = old
    BY <1>3, <1>6 DEF UniqueKeys
  <2>2. /\ \A j \in ValidBitSet(new) : new.slot[j].key = new.slot[i].key => j = i
        /\ \A e \in (0..(cellCount - 1)) \ {c} : \A j \in ValidBitSet(cells[e]) :
             cells[e].slot[j].key # new.slot[i].key
    BY <1>3, <1>7, <2>1
  <2>3. \A j \in ValidBitSet(new) :
          j = i \/ (j \in ValidBitSet(cells[c]) /\ new.slot[j] = cells[c].slot[j])
    BY <1>7
  <2>4. /\ cellCount \in Nat \ {0} /\ c \in 0..(cellCount - 1) /\ new \in Cell
        /\ cells \in Bucket(cellCount) /\ UniqueKeys(cells, cellCount)
    BY <1>3, <1>6
  <2>5. UniqueKeys([cells EXCEPT ![c] = new], cellCount)
    BY <2>2, <2>3, <2>4, WriteKeepsUnique
  <2> QED
    BY <1>4, <2>5
<1> QED
  BY <1>2, <1>8, <1>9 DEF MapInv

LEMMA MapDelete ==
  ASSUME NEW k \in Keys, SoundInv, MapInv, Delete(k)
  PROVE  MapInv'
<1>1. CASE UNCHANGED cells
  BY <1>1 DEF Delete, MapInv
<1>2. ASSUME NEW d \in ProbeDist(cellCount), NEW i \in Slots,
             Finds(cells, cellCount, k, d, i),
             cells' = [cells EXCEPT ![At(k, d)] = EraseSlot(@, i)]
      PROVE  MapInv'
  <2> DEFINE c == At(k, d)
             new == EraseSlot(cells[c], i)
  <2>1. /\ cellCount \in Nat \ {0} /\ c \in 0..(cellCount - 1)
        /\ new \in Cell /\ HoldsRecords(new)
        /\ Full(cells[c]) => Full(new)
        /\ ValidBitSet(new) = ValidBitSet(cells[c]) \ {i}
        /\ new.slot = cells[c].slot
    BY <1>2, DeleteCell
  <2>2. cells' = [cells EXCEPT ![c] = new]
    BY <1>2
  <2> HIDE DEF new, c
  <2>3. /\ cells \in Bucket(cellCount) /\ SoundBucket(cells, cellCount)
        /\ OnPath(cells, cellCount) /\ UniqueKeys(cells, cellCount)
    BY DEF SoundInv, TypeOK, MapInv
  <2>4. OnPath(cells', cellCount)
    BY <2>1, <2>2, <2>3, WriteKeepsPaths
  <2>5. UniqueKeys(cells', cellCount)
    BY <2>1, <2>2, <2>3, WriteKeepsUnique
  <2>6. cellCount' = cellCount /\ pc' = "idle"
    BY DEF Delete, rehashVars
  <2> QED
    BY <2>4, <2>5, <2>6 DEF MapInv
<1> QED
  BY <1>1, <1>2 DEF Delete

-----------------------------------------------------------------------------
(* The rehash.                                                              *)

LEMMA MapBegin ==
  ASSUME SoundInv, MapInv, NEW n \in Nat \ {0}, NEW return \in {"idle", "put"},
         RehashBegin(n, return), UNCHANGED <<cells, cellCount>>
  PROVE  MapInv'
<1>1. CASE n > CellCountLimit
  BY <1>1 DEF RehashBegin, MapInv
<1>2. CASE ~(n > CellCountLimit)
  <2>1. /\ pc' = "rehash" /\ newCount' = n /\ newCells' = EmptyBucket(n)
        /\ iter' = [cell |-> 0, bits |-> ValidBitSet(cells[0])]
    BY <1>2 DEF RehashBegin
  <2>2. /\ OnPath(EmptyBucket(n), n) /\ UniqueKeys(EmptyBucket(n), n)
        /\ \A c \in 0..(n - 1) : ValidBitSet(EmptyBucket(n)[c]) = {}
    BY EmptyMap, EmptySound DEF ValidBitSet
  <2>3. cellCount \in Nat
    BY CountAssumption DEF SoundInv, TypeOK
  <2>4. Moved' /\ FromOld'
    BY <2>1, <2>2, <2>3 DEF Moved, FromOld, Left
  <2> QED
    BY <2>1, <2>2, <2>4 DEF MapInv, RehashMap
<1> QED
  BY <1>1, <1>2

(* The cell that findNextSlotInRehash picks is on the probe path of the     *)
(* key: the cells before it are full, and it is met before the probing has  *)
(* gone around the bucket.                                                  *)
LEMMA RehashTargetVisited ==
  ASSUME SoundInv, NEW k \in Keys, newCount \in Nat \ {0},
         NEW d \in 0..MaxProbeLen, RehashTarget(k, d), d # MaxProbeLen
  PROVE  d \in Visited(newCells, newCount, k)
<1>1. d \in Nat /\ d < MaxProbeLen
  BY ProbeAssumption
<1>2. \A e \in 0..(d - 1) : ~(slotVec[ProbeCell(k, newCount, e)] < SlotMaxRange)
  BY <1>1, ProbeAssumption DEF RehashTarget, OpenDists, Lowest
<1>3. ASSUME NEW e \in 0..(d - 1)
      PROVE  Full(newCells[ProbeCell(k, newCount, e)])
  <2> DEFINE c == ProbeCell(k, newCount, e)
  <2>1. e \in Nat
    BY <1>1
  <2>2. c \in 0..(newCount - 1)
    BY <2>1, ProbeInBucket
  <2>3. slotVec[c] \in StartSlotPos..SlotMaxRange
    BY <2>2 DEF SoundInv, NewCellsSound
  <2>4. slotVec[c] = SlotMaxRange
    BY <1>2, <2>3, SlotAssumption
  <2> QED
    BY <2>2, <2>4, NewCellCounts
<1>4. d < newCount
  <2> SUFFICES ASSUME d >= newCount
               PROVE  FALSE
    BY <1>1
  <2> DEFINE e == d - newCount
  <2>1. e \in 0..(d - 1) /\ e \in Nat /\ d = e + newCount
    BY <1>1
  <2>2. ProbeCell(k, newCount, d) = ProbeCell(k, newCount, e)
    BY <2>1, ProbePeriod
  <2> QED
    BY <1>2, <2>1, <2>2 DEF RehashTarget, OpenDists, Lowest
<1> QED
  BY <1>1, <1>3, <1>4, ProbeAssumption DEF Visited, ProbeDist

LEMMA MapRehashMove == SoundInv /\ MapInv /\ NoOverrun /\ RehashMove => MapInv'
<1> SUFFICES ASSUME SoundInv, MapInv, NoOverrun, RehashMove
             PROVE  MapInv'
  OBVIOUS
<1>1. pc = "rehash" /\ UNCHANGED <<cells, cellCount, newCount>>
  BY DEF RehashMove
<1>2. CASE pc' = "exit"
  BY <1>1, <1>2 DEF MapInv
<1>3. ASSUME NEW i \in iter.bits, NEW d \in 0..MaxProbeLen, Lowest(i, iter.bits),
             RehashTarget(cells[iter.cell].slot[i].key, d),
             LET old == cells[iter.cell].slot[i]
                 c == ProbeCell(old.key, newCount, d)
             IN  newCells' = [newCells EXCEPT
                                ![c] = InsertToSlot(@, slotVec[c], old)],
             iter' = [iter EXCEPT !.bits = iter.bits \ {i}]
      PROVE  MapInv'
  <2> DEFINE old == cells[iter.cell].slot[i]
             c == ProbeCell(old.key, newCount, d)
             s == slotVec[c]
             new == InsertToSlot(newCells[c], s, old)
  <2>1. /\ iter.cell \in 0..(cellCount - 1)
        /\ i \in ValidBitSet(cells[iter.cell]) /\ i \in Slots
        /\ old \in Record /\ old.key \in Keys
        /\ newCount \in Nat \ {0} /\ c \in 0..(newCount - 1)
        /\ s \in Slots
        /\ s \notin newCells[c].bitmap
        /\ new \in Cell /\ HoldsRecords(new)
        /\ Full(newCells[c]) => Full(new)
        /\ new.bitmap = newCells[c].bitmap \cup {s}
        /\ new.deleted = {}
        /\ new.slot[s] = old
        /\ Untouched(new, newCells[c], s)
    BY <1>1, <1>3, RehashMoveCell
  <2>2. newCells' = [newCells EXCEPT ![c] = new]
    BY <1>3
  <2>3. d \in Visited(newCells, newCount, old.key)
    <3>1. d # MaxProbeLen
      BY <1>1, <1>3 DEF NoOverrun
    <3>2. RehashTarget(old.key, d)
      BY <1>3
    <3> QED
      BY <2>1, <3>1, <3>2, RehashTargetVisited
  <2>4. /\ newCells \in Bucket(newCount) /\ SoundBucket(newCells, newCount)
        /\ OnPath(newCells, newCount) /\ UniqueKeys(newCells, newCount)
        /\ Moved /\ FromOld
        /\ iter \in [cell : 0..cellCount, bits : SUBSET Slots]
        /\ OnPath(cells, cellCount) /\ UniqueKeys(cells, cellCount)
    BY <1>1, NewCellCounts
       DEF SoundInv, TypeOK, MapInv, RehashMap, SoundBucket, NewCellsSound
  <2>5. ProbeCell(old.key, newCount, d) = c
    OBVIOUS
  <2> HIDE DEF old, c, s, new
  <2>6. /\ ValidBitSet(newCells[c]) = newCells[c].bitmap
        /\ ValidBitSet(new) = ValidBitSet(newCells[c]) \cup {s}
    BY <2>1, NewCellCounts DEF ValidBitSet
  <2>7. \A j \in ValidBitSet(new) :
          j = s \/ (/\ j \in ValidBitSet(newCells[c])
                    /\ new.slot[j] = newCells[c].slot[j])
    <3>1. ValidBitSet(new) \subseteq Slots
      BY <2>1 DEF Cell, ValidBitSet
    <3> QED
      BY <2>1, <2>6, <3>1 DEF Untouched
  <2>8. OnPath(newCells', newCount)
    <3>1. \A j \in ValidBitSet(new) :
           \/ j \in ValidBitSet(newCells[c]) /\ new.slot[j] = newCells[c].slot[j]
           \/ \E x \in Visited(newCells, newCount, new.slot[j].key) :
                ProbeCell(new.slot[j].key, newCount, x) = c
      BY <2>1, <2>3, <2>5, <2>7
    <3> QED
      BY <2>1, <2>2, <2>4, <3>1, WriteKeepsPaths
  <2>9. \A e \in 0..(newCount - 1) : \A j \in ValidBitSet(newCells[e]) :
          newCells[e].slot[j].key # old.key
    <3> SUFFICES ASSUME NEW e \in 0..(newCount - 1),
                        NEW j \in ValidBitSet(newCells[e]),
                        newCells[e].slot[j].key = old.key
                 PROVE  FALSE
      OBVIOUS
    <3>0. PICK a \in 0..(cellCount - 1) : \E b \in ValidBitSet(cells[a]) :
            ~Left(a, b) /\ cells[a].slot[b] = newCells[e].slot[j]
      BY <2>4 DEF FromOld
    <3>1. PICK b \in ValidBitSet(cells[a]) :
            ~Left(a, b) /\ cells[a].slot[b] = newCells[e].slot[j]
      BY <3>0
    <3>2. a = iter.cell /\ b = i
      BY <2>1, <2>4, <3>1 DEF UniqueKeys, old
    <3> QED
      BY <1>3, <3>1, <3>2 DEF Left
  <2>10. UniqueKeys(newCells', newCount)
    <3>1. /\ \A j \in ValidBitSet(new) : new.slot[j].key = new.slot[s].key => j = s
          /\ \A e \in (0..(newCount - 1)) \ {c} : \A j \in ValidBitSet(newCells[e]) :
               newCells[e].slot[j].key # new.slot[s].key
      BY <2>1, <2>7, <2>9
    <3>2. UniqueKeys([newCells EXCEPT ![c] = new], newCount)
      BY <2>1, <2>4, <2>7, <3>1, WriteKeepsUnique
    <3> QED
      BY <2>2, <3>2
  <2>11. /\ newCells'[c] = new
         /\ \A e \in (0..(newCount - 1)) \ {c} : newCells'[e] = newCells[e]
    BY <2>1, <2>2, <2>4 DEF Bucket
  <2>12. \A e \in 0..(newCount - 1) : \A j \in ValidBitSet(newCells[e]) :
           j \in ValidBitSet(newCells'[e]) /\ newCells'[e].slot[j] = newCells[e].slot[j]
    <3> SUFFICES ASSUME NEW e \in 0..(newCount - 1),
                        NEW j \in ValidBitSet(newCells[e])
                 PROVE  /\ j \in ValidBitSet(newCells'[e])
                        /\ newCells'[e].slot[j] = newCells[e].slot[j]
      OBVIOUS
    <3>1. CASE e # c
      BY <3>1, <2>11
    <3>2. CASE e = c
      BY <3>2, <2>1, <2>6, <2>7, <2>11
    <3> QED
      BY <3>1, <3>2
  <2>13. iter'.cell = iter.cell /\ iter'.bits = iter.bits \ {i}
    BY <1>3, <2>4
  <2>14. \A a, b : Left(a, b)' <=> Left(a, b) /\ ~(a = iter.cell /\ b = i)
    BY <1>3, <2>4, <2>13 DEF Left
  <2>15. s \in ValidBitSet(newCells'[c]) /\ newCells'[c].slot[s] = old
    BY <2>1, <2>6, <2>11
  <2>16. Moved'
    <3> SUFFICES ASSUME NEW a \in 0..(cellCount - 1),
                        NEW b \in ValidBitSet(cells[a]), ~Left(a, b)'
                 PROVE  \E e \in 0..(newCount - 1) :
                          \E j \in ValidBitSet(newCells'[e]) :
                            newCells'[e].slot[j] = cells[a].slot[b]
      BY <1>1 DEF Moved
    <3>1. CASE a = iter.cell /\ b = i
      BY <3>1, <2>1, <2>15 DEF old
    <3>2. CASE ~(a = iter.cell /\ b = i)
      <4>1. \E e \in 0..(newCount - 1) : \E j \in ValidBitSet(newCells[e]) :
              newCells[e].slot[j] = cells[a].slot[b]
        BY <3>2, <2>4, <2>14 DEF Moved
      <4> QED
        BY <4>1, <2>12
    <3> QED
      BY <3>1, <3>2
  <2>17. FromOld'
    <3> SUFFICES ASSUME NEW e \in 0..(newCount - 1),
                        NEW j \in ValidBitSet(newCells'[e])
                 PROVE  \E a \in 0..(cellCount - 1) : \E b \in ValidBitSet(cells[a]) :
                          ~Left(a, b)' /\ cells[a].slot[b] = newCells'[e].slot[j]
      BY <1>1 DEF FromOld
    <3>1. CASE e = c /\ j = s
      <4>1. \A a : a = iter.cell => ~Left(a, i)'
        BY <2>14
      <4>2. cells[iter.cell].slot[i] = newCells'[e].slot[j]
        BY <3>1, <2>15 DEF old
      <4> QED
        BY <4>1, <4>2, <2>1
    <3>2. CASE ~(e = c /\ j = s)
      <4>1. /\ j \in ValidBitSet(newCells[e])
            /\ newCells'[e].slot[j] = newCells[e].slot[j]
        BY <3>2, <2>7, <2>11
      <4>2. \E a \in 0..(cellCount - 1) : \E b \in ValidBitSet(cells[a]) :
              ~Left(a, b) /\ cells[a].slot[b] = newCells[e].slot[j]
        BY <4>1, <2>4 DEF FromOld
      <4> QED
        BY <4>1, <4>2, <2>14
    <3> QED
      BY <3>1, <3>2
  <2> QED
    BY <1>1, <2>4, <2>8, <2>10, <2>16, <2>17 DEF MapInv, RehashMap
<1> QED
  BY <1>1, <1>2, <1>3 DEF RehashMove

LEMMA MapRehashNextCell == SoundInv /\ MapInv /\ RehashNextCell => MapInv'
<1> SUFFICES ASSUME SoundInv, MapInv, RehashNextCell
             PROVE  MapInv'
  OBVIOUS
<1> USE DEF RehashNextCell
<1>1. cellCount \in Nat /\ iter.cell \in 0..(cellCount - 1)
  BY CountAssumption DEF SoundInv, TypeOK
<1>2. /\ iter'.cell = iter.cell + 1
      /\ iter'.cell < cellCount => iter'.bits = ValidBitSet(cells[iter'.cell])
  BY <1>1
<1>3. \A a \in 0..(cellCount - 1) : \A b \in ValidBitSet(cells[a]) :
        Left(a, b)' <=> Left(a, b)
  BY <1>1, <1>2 DEF Left
<1>4. Moved' /\ FromOld'
  BY <1>3 DEF MapInv, RehashMap, Moved, FromOld
<1> QED
  BY <1>4 DEF MapInv, RehashMap

LEMMA MapRehashCommit == SoundInv /\ MapInv /\ RehashCommit => MapInv'
  BY DEF RehashCommit, MapInv, RehashMap, SoundInv, TypeOK

LEMMA MapStep == SoundInv /\ MapInv /\ NoOverrun /\ [Next]_vars => MapInv'
<1> SUFFICES ASSUME SoundInv, MapInv, NoOverrun, [Next]_vars
             PROVE  MapInv'
  OBVIOUS
<1>1. ASSUME NEW k \in Keys, NEW v \in Values, Put(k, v)
      PROVE  MapInv'
  BY <1>1 DEF Put, MapInv
<1>2. ASSUME NEW k \in Keys, Find(k)
      PROVE  MapInv'
  BY <1>2 DEF Find, MapInv
<1>3. cellCount \in Nat \ {0} /\ 2 * cellCount \in Nat \ {0}
  BY CountAssumption DEF SoundInv, TypeOK
<1>4. CASE PutRehash \/ MinorReHashAll \/ GCAll
  BY <1>3, <1>4, MapBegin DEF PutRehash, MinorReHashAll, GCAll
<1>5. CASE UNCHANGED vars
  BY <1>5 DEF vars, MapInv, RehashMap, Moved, FromOld, Left
<1> QED
  BY <1>1, <1>2, <1>4, <1>5, MapPutInsert, MapPutUpdate, MapDelete,
     MapRehashMove, MapRehashNextCell, MapRehashCommit
     DEF Next, PutStep, RehashStep

LEMMA MapSound == Spec /\ []NoOverrun => []MapInv
<1>1. SoundInv /\ MapInv /\ NoOverrun /\ [Next]_vars => MapInv'
  BY MapStep
<1> QED
  BY <1>1, Sound, MapInit, PTL DEF Spec

-----------------------------------------------------------------------------
(* A full cell stays full until a rehash replaces it, whatever is put and   *)
(* deleted: the probe paths that lead past it stay open.                    *)
THEOREM FullCellsStayFull == Spec => FullStaysFull
<1> DEFINE StaysFull ==
             (pc # "rehash") =>
               \A c \in 0..(cellCount - 1) : Full(cells[c]) => Full(cells'[c])
<1>1. SoundInv /\ [Next]_vars => StaysFull
  <2> SUFFICES ASSUME SoundInv, [Next]_vars, pc # "rehash",
                      NEW c \in 0..(cellCount - 1), Full(cells[c])
               PROVE  Full(cells'[c])
    OBVIOUS
  <2>1. CASE UNCHANGED cells
    BY <2>1
  <2>2. cells \in Bucket(cellCount)
    BY DEF SoundInv, TypeOK
  <2>3. ASSUME NEW e \in 0..(cellCount - 1), NEW cell,
               Full(cells[e]) => Full(cell),
               cells' = [cells EXCEPT ![e] = cell]
        PROVE  Full(cells'[c])
    BY <2>2, <2>3 DEF Bucket
  <2>4. CASE PutInsert
    <3>1. PICK d \in ProbeDist(cellCount), i \in Slots :
            /\ InsertTarget(cells, cellCount, rec.key, d, i)
            /\ cells' = [cells EXCEPT ![At(rec.key, d)] = InsertToSlot(@, i, rec)]
      BY <2>4 DEF PutInsert
    <3>2. rec \in Record
      BY <2>4 DEF PutInsert, SoundInv
    <3> QED
      BY <3>1, <3>2, <2>3, PutInsertCell
  <2>5. CASE PutUpdate
    <3>1. PICK d \in ProbeDist(cellCount), old \in Slots, i \in Slots :
            /\ UpdateTarget(cells, cellCount, rec.key, d, old, i)
            /\ cells' = [cells EXCEPT ![At(rec.key, d)] = UpdateToSlot(@, i, old, rec)]
      BY <2>5 DEF PutUpdate
    <3>2. rec \in Record
      BY <2>5 DEF PutUpdate, SoundInv
    <3> QED
      BY <3>1, <3>2, <2>3, PutUpdateCell
  <2>6. ASSUME NEW k \in Keys, Delete(k)
        PROVE  Full(cells'[c])
    <3>1. CASE \E d \in ProbeDist(cellCount), i \in Slots :
                 /\ Finds(cells, cellCount, k, d, i)
                 /\ cells' = [cells EXCEPT ![At(k, d)] = EraseSlot(@, i)]
      BY <3>1, <2>3, DeleteCell
    <3> QED
      BY <2>1, <2>6, <3>1 DEF Delete
  <2>7. ASSUME NEW k \in Keys, \/ \E v \in Values : Put(k, v)
                             \/ Find(k)
        PROVE  UNCHANGED cells
    BY <2>7 DEF Put, Find
  <2>8. CASE PutRehash \/ MinorReHashAll \/ GCAll \/ UNCHANGED vars
    BY <2>8, <2>1 DEF PutRehash, MinorReHashAll, GCAll, vars
  <2>9. ~RehashStep
    BY DEF RehashStep, RehashMove, RehashNextCell, RehashCommit
  <2> QED
    BY <2>1, <2>4, <2>5, <2>6, <2>7, <2>8, <2>9 DEF Next, PutStep
<1>2. Spec => [][StaysFull]_vars
  BY <1>1, Sound, PTL DEF Spec
<1> QED
  BY <1>2 DEF FullStaysFull

(* As long as no rehash overruns, no key is ever valid in two slots.        *)
THEOREM KeysOnce == Spec /\ []NoOverrun => []OneSlotPerKey
<1>1. SoundInv /\ MapInv => OneSlotPerKey
  BY DEF SoundInv, SoundBucket, HoldsRecords, MapInv, UniqueKeys,
         OneSlotPerKey, Positions, Valid, Content, ValidBitSet
<1> QED
  BY <1>1, Sound, MapSound, PTL

(* As long as no rehash overruns, every record is found by a search for it. *)
THEOREM RecordsReachable == Spec /\ []NoOverrun => []Reachable
<1>1. SoundInv /\ MapInv => Reachable
  BY DEF SoundInv, MapInv, OnPath, Reachable, Positions, Valid, Content, At
<1> QED
  BY <1>1, Sound, MapSound, PTL

(* As long as no rehash overruns, a rehash loses no record and copies none: *)
(* what it still has to move is not yet in the new bucket, what it has      *)
(* moved is there once.                                                     *)
THEOREM RecordsKept == Spec /\ []NoOverrun => []RehashKeepsRecords
<1>1. SoundInv /\ MapInv => RehashKeepsRecords
  <2> SUFFICES ASSUME SoundInv, MapInv, pc = "rehash", NEW p \in Positions, Valid(p)
               PROVE  Cardinality({q \in NewPositions :
                                     newCells[q[1]].slot[q[2]] = Content(p)})
                        = IF p \in LeftToMove THEN 0 ELSE 1
    BY DEF RehashKeepsRecords
  <2> DEFINE there == {q \in NewPositions : newCells[q[1]].slot[q[2]] = Content(p)}
  <2>1. /\ p[1] \in 0..(cellCount - 1) /\ p[2] \in ValidBitSet(cells[p[1]])
        /\ Content(p) = cells[p[1]].slot[p[2]]
        /\ p \in LeftToMove <=> Left(p[1], p[2])
    BY DEF Positions, Valid, Content, LeftToMove, Left
  <2>2. /\ \A q \in NewPositions :
             /\ q[1] \in 0..(newCount - 1) /\ q[2] \in ValidBitSet(newCells[q[1]])
             /\ q = <<q[1], q[2]>>
        /\ \A e \in 0..(newCount - 1) : \A j \in ValidBitSet(newCells[e]) :
             <<e, j>> \in NewPositions
    <3>1. \A e \in 0..(newCount - 1) :
            newCells[e].bitmap \subseteq Slots /\ newCells[e].deleted = {}
      BY DEF SoundInv, NewCellsSound, TypeOK, Bucket, Cell
    <3>2. \A e \in 0..(newCount - 1) : ValidBitSet(newCells[e]) = newCells[e].bitmap
      BY <3>1 DEF ValidBitSet
    <3> QED
      BY <3>1, <3>2 DEF NewPositions
  <2>3. CASE p \in LeftToMove
    <3>1. ASSUME NEW q \in there
          PROVE  FALSE
      <4>1. PICK c \in 0..(cellCount - 1) : \E i \in ValidBitSet(cells[c]) :
              ~Left(c, i) /\ cells[c].slot[i] = newCells[q[1]].slot[q[2]]
        BY <2>2, <3>1 DEF MapInv, RehashMap, FromOld
      <4>2. PICK i \in ValidBitSet(cells[c]) :
              ~Left(c, i) /\ cells[c].slot[i] = Content(p)
        BY <3>1, <4>1
      <4>3. c = p[1] /\ i = p[2]
        BY <2>1, <4>2 DEF MapInv, UniqueKeys
      <4> QED
        BY <2>1, <2>3, <4>2, <4>3
    <3>2. there = {}
      BY <3>1
    <3> HIDE DEF there
    <3>3. Cardinality(there) = 0
      BY <3>2, FS_EmptySet
    <3> QED
      BY <2>3, <3>3 DEF there
  <2>4. CASE p \notin LeftToMove
    <3>1. PICK e \in 0..(newCount - 1) : \E j \in ValidBitSet(newCells[e]) :
            newCells[e].slot[j] = Content(p)
      BY <2>1, <2>4 DEF MapInv, RehashMap, Moved
    <3>2. PICK j \in ValidBitSet(newCells[e]) : newCells[e].slot[j] = Content(p)
      BY <3>1
    <3>3. <<e, j>> \in there
      BY <2>2, <3>2
    <3>4. \A q \in there : q = <<e, j>>
      BY <2>2, <3>2 DEF MapInv, RehashMap, UniqueKeys
    <3>5. there = {<<e, j>>}
      BY <3>3, <3>4
    <3> HIDE DEF there
    <3>6. Cardinality(there) = 1
      BY <3>5, FS_Singleton
    <3> QED
      BY <2>4, <3>6 DEF there
  <2> QED
    BY <2>3, <2>4
<1> QED
  BY <1>1, Sound, MapSound, PTL

-----------------------------------------------------------------------------
(* The map that a bucket stands for.                                        *)

LEMMA MapHit ==
  ASSUME NEW n, NEW b, NEW k \in Keys, UniqueKeys(b, n),
         NEW c \in 0..(n - 1), NEW i \in MatchBitSet(b[c], k)
  PROVE  MapIn(b, n)[k] = b[c].slot[i].val
<1> DEFINE c2 == CHOOSE x \in 0..(n - 1) : MatchBitSet(b[x], k) # {}
           i2 == CHOOSE x \in MatchBitSet(b[c2], k) : TRUE
<1>1. c2 \in 0..(n - 1) /\ MatchBitSet(b[c2], k) # {}
  OBVIOUS
<1>2. i2 \in MatchBitSet(b[c2], k)
  BY <1>1
<1>3. MapIn(b, n)[k] = b[c2].slot[i2].val
  BY DEF MapIn
<1> HIDE DEF c2, i2
<1>4. c2 = c /\ i2 = i
  BY <1>1, <1>2 DEF UniqueKeys, MatchBitSet
<1> QED
  BY <1>3, <1>4

LEMMA MapMiss ==
  ASSUME NEW n, NEW b, NEW k \in Keys,
         \A c \in 0..(n - 1) : MatchBitSet(b[c], k) = {}
  PROVE  MapIn(b, n)[k] = Absent
  BY DEF MapIn

(* Two buckets that hold the same record of a key map it to the same value. *)
LEMMA MapSame ==
  ASSUME NEW n, NEW b, NEW m, NEW b2, NEW k \in Keys,
         UniqueKeys(b, n), UniqueKeys(b2, m),
         \A r : r.key = k => (Holds(b, n, r) <=> Holds(b2, m, r))
  PROVE  MapIn(b, n)[k] = MapIn(b2, m)[k]
<1>1. CASE \A c \in 0..(n - 1) : MatchBitSet(b[c], k) = {}
  <2>1. \A c \in 0..(m - 1) : MatchBitSet(b2[c], k) = {}
    BY <1>1 DEF Holds, MatchBitSet
  <2> QED
    BY <1>1, <2>1, MapMiss
<1>2. ASSUME NEW c \in 0..(n - 1), NEW i \in MatchBitSet(b[c], k)
      PROVE  MapIn(b, n)[k] = MapIn(b2, m)[k]
  <2>1. Holds(b, n, b[c].slot[i]) /\ b[c].slot[i].key = k
    BY <1>2 DEF Holds, MatchBitSet
  <2>2. PICK e \in 0..(m - 1) : \E j \in ValidBitSet(b2[e]) : b2[e].slot[j] = b[c].slot[i]
    BY <2>1 DEF Holds
  <2>3. PICK j \in ValidBitSet(b2[e]) : b2[e].slot[j] = b[c].slot[i]
    BY <2>2
  <2>4. j \in MatchBitSet(b2[e], k)
    BY <2>1, <2>3 DEF MatchBitSet
  <2> QED
    BY <1>2, <2>3, <2>4, MapHit
<1> QED
  BY <1>1, <1>2

(* Writing a cell leaves every key alone whose valid slots it leaves alone. *)
LEMMA MapWrite ==
  ASSUME NEW n, NEW b, NEW b2, NEW q \in Keys,
         UniqueKeys(b, n), UniqueKeys(b2, n),
         \A e \in 0..(n - 1) : MatchBitSet(b2[e], q) = MatchBitSet(b[e], q),
         \A e \in 0..(n - 1) :
           \A i \in MatchBitSet(b[e], q) : b2[e].slot[i] = b[e].slot[i]
  PROVE  MapIn(b2, n)[q] = MapIn(b, n)[q]
<1>2. CASE \A e \in 0..(n - 1) : MatchBitSet(b[e], q) = {}
  <2>1. \A e \in 0..(n - 1) : MatchBitSet(b2[e], q) = {}
    BY <1>2
  <2>2. MapIn(b2, n)[q] = Absent
    BY <2>1, MapMiss
  <2>3. MapIn(b, n)[q] = Absent
    BY <1>2, MapMiss
  <2> QED
    BY <2>2, <2>3
<1>3. ASSUME NEW e \in 0..(n - 1), NEW i \in MatchBitSet(b[e], q)
      PROVE  MapIn(b2, n)[q] = MapIn(b, n)[q]
  <2>1. b2[e].slot[i] = b[e].slot[i]
    BY <1>3
  <2>2. MapIn(b, n)[q] = b[e].slot[i].val
    BY <1>3, MapHit
  <2>3. MapIn(b2, n)[q] = b2[e].slot[i].val
    BY <1>3, MapHit
  <2> QED
    BY <2>1, <2>2, <2>3
<1> QED
  BY <1>2, <1>3

LEMMA MapUpdate ==
  ASSUME NEW n, NEW b, NEW b2, NEW k \in Keys,
         \A q \in Keys \ {k} : MapIn(b2, n)[q] = MapIn(b, n)[q]
  PROVE  MapIn(b2, n) = [MapIn(b, n) EXCEPT ![k] = MapIn(b2, n)[k]]
<1> DEFINE f == MapIn(b, n)
           g == MapIn(b2, n)
<1>1. f = [q \in Keys |-> f[q]] /\ g = [q \in Keys |-> g[q]]
  BY DEF MapIn
<1>2. \A q \in Keys \ {k} : g[q] = f[q]
  OBVIOUS
<1> HIDE DEF f, g
<1>3. g = [f EXCEPT ![k] = g[k]]
  BY <1>1, <1>2
<1> QED
  BY <1>3 DEF f, g

-----------------------------------------------------------------------------
(* Every step of the bucket is a step of the map or leaves it alone.        *)

LEMMA RefPutInsert ==
  SoundInv /\ MapInv /\ MapInv' /\ PutInsert => KV!Next
<1> SUFFICES ASSUME SoundInv, MapInv, MapInv', PutInsert
             PROVE  KV!Next
  OBVIOUS
<1>1. PICK d \in ProbeDist(cellCount), i \in Slots :
        /\ InsertTarget(cells, cellCount, rec.key, d, i)
        /\ cells' = [cells EXCEPT ![At(rec.key, d)] = InsertToSlot(@, i, rec)]
  BY DEF PutInsert
<1>2. /\ rec \in Record /\ rec.key \in Keys /\ rec.val \in Values
      /\ cellCount' = cellCount
      /\ res' = Answer("put", rec.key, TRUE, Absent)
  BY DEF PutInsert, PutReturns, SoundInv, Record
<1> DEFINE c == At(rec.key, d)
           new == InsertToSlot(cells[c], i, rec)
<1>3. /\ cellCount \in Nat \ {0} /\ c \in 0..(cellCount - 1)
      /\ i \notin ValidBitSet(cells[c])
      /\ new \in Cell
      /\ ValidBitSet(new) = ValidBitSet(cells[c]) \cup {i}
      /\ new.slot[i] = rec
      /\ Untouched(new, cells[c], i)
  BY <1>1, <1>2, PutInsertCell
<1>4. cells' = [cells EXCEPT ![c] = new]
  BY <1>1
<1>5. /\ cells \in Bucket(cellCount) /\ UniqueKeys(cells, cellCount)
      /\ UniqueKeys(cells', cellCount)
  BY <1>2 DEF SoundInv, TypeOK, MapInv
<1> HIDE DEF new, c
<1>6. ValidBitSet(new) \subseteq Slots
  BY <1>3 DEF Cell, ValidBitSet
<1>7. cells'[c] = new /\ \A e \in (0..(cellCount - 1)) \ {c} : cells'[e] = cells[e]
  BY <1>3, <1>4, <1>5 DEF Bucket
<1>8. \A q \in Keys \ {rec.key} : MapIn(cells', cellCount)[q] = MapIn(cells, cellCount)[q]
  <2> SUFFICES ASSUME NEW q \in Keys \ {rec.key}
               PROVE  MapIn(cells', cellCount)[q] = MapIn(cells, cellCount)[q]
    OBVIOUS
  <2>1. /\ MatchBitSet(new, q) = MatchBitSet(cells[c], q)
        /\ \A j \in MatchBitSet(cells[c], q) : new.slot[j] = cells[c].slot[j]
    BY <1>3, <1>6 DEF MatchBitSet, Untouched
  <2>2. /\ \A e \in 0..(cellCount - 1) : MatchBitSet(cells'[e], q) = MatchBitSet(cells[e], q)
        /\ \A e \in 0..(cellCount - 1) : \A j \in MatchBitSet(cells[e], q) :
             cells'[e].slot[j] = cells[e].slot[j]
    <3> SUFFICES ASSUME NEW e \in 0..(cellCount - 1)
                 PROVE  /\ MatchBitSet(cells'[e], q) = MatchBitSet(cells[e], q)
                        /\ \A j \in MatchBitSet(cells[e], q) :
                             cells'[e].slot[j] = cells[e].slot[j]
      OBVIOUS
    <3>1. CASE e = c
      <4>1. MatchBitSet(cells'[e], q) = MatchBitSet(cells[e], q)
        BY <3>1, <1>7, <2>1
      <4> QED
        BY <3>1, <4>1, <1>7, <2>1
    <3>2. CASE e # c
      BY <3>2, <1>7
    <3> QED
      BY <3>1, <3>2
  <2>3. UniqueKeys(cells, cellCount) /\ UniqueKeys(cells', cellCount)
    BY <1>5
  <2> QED
    BY <2>2, <2>3, MapWrite
<1>9. MapIn(cells', cellCount)[rec.key] = rec.val
  <2>2. i \in MatchBitSet(cells'[c], rec.key) /\ cells'[c].slot[i].val = rec.val
    BY <1>3, <1>7 DEF MatchBitSet
  <2> QED
    BY <1>2, <1>3, <1>5, <2>2, MapHit
<1>10. MapOf' = [MapOf EXCEPT ![rec.key] = rec.val]
  <2>1. rec.key \in Keys
    BY <1>2
  <2> DEFINE f == MapIn(cells, cellCount)
             g == MapIn(cells', cellCount)
             k == rec.key
             v == rec.val
  <2>2. g = [f EXCEPT ![k] = v]
    <3>1. /\ f = [q \in Keys |-> f[q]] /\ g = [q \in Keys |-> g[q]]
      BY DEF MapIn
    <3>2. /\ k \in Keys /\ g[k] = v /\ \A q \in Keys \ {k} : g[q] = f[q]
      BY <2>1, <1>8, <1>9
    <3> HIDE DEF f, g, k, v
    <3> QED
      BY <3>1, <3>2
  <2>3. cellCount' = cellCount
    BY <1>2
  <2> QED
    BY <2>2, <2>3 DEF MapOf
<1>11. KV!Put(rec.key, rec.val)
  BY <1>2, <1>10 DEF KV!Put, KV!Answer, Answer
<1> QED
  BY <1>2, <1>11 DEF KV!Next

LEMMA RefPutUpdate ==
  SoundInv /\ MapInv /\ MapInv' /\ PutUpdate => KV!Next
<1> SUFFICES ASSUME SoundInv, MapInv, MapInv', PutUpdate
             PROVE  KV!Next
  OBVIOUS
<1>1. PICK d \in ProbeDist(cellCount), old \in Slots, i \in Slots :
        /\ UpdateTarget(cells, cellCount, rec.key, d, old, i)
        /\ cells' = [cells EXCEPT ![At(rec.key, d)] = UpdateToSlot(@, i, old, rec)]
  BY DEF PutUpdate
<1>2. /\ rec \in Record /\ rec.key \in Keys /\ rec.val \in Values
      /\ cellCount' = cellCount
      /\ res' = Answer("put", rec.key, TRUE, Absent)
  BY DEF PutUpdate, PutReturns, SoundInv, Record
<1> DEFINE c == At(rec.key, d)
           new == UpdateToSlot(cells[c], i, old, rec)
<1>3. /\ cellCount \in Nat \ {0} /\ c \in 0..(cellCount - 1)
      /\ old \in ValidBitSet(cells[c]) /\ cells[c].slot[old].key = rec.key
      /\ i \notin cells[c].bitmap
      /\ new \in Cell
      /\ ValidBitSet(new) = (ValidBitSet(cells[c]) \cup {i}) \ {old}
      /\ new.slot[i] = rec
      /\ Untouched(new, cells[c], i)
  BY <1>1, <1>2, PutUpdateCell
<1>4. cells' = [cells EXCEPT ![c] = new]
  BY <1>1
<1>5. /\ cells \in Bucket(cellCount) /\ UniqueKeys(cells, cellCount)
      /\ UniqueKeys(cells', cellCount)
  BY <1>2 DEF SoundInv, TypeOK, MapInv
<1> HIDE DEF new, c
<1>6. ValidBitSet(new) \subseteq Slots /\ i # old /\ i \notin ValidBitSet(cells[c])
  BY <1>3 DEF Cell, ValidBitSet
<1>7. cells'[c] = new /\ \A e \in (0..(cellCount - 1)) \ {c} : cells'[e] = cells[e]
  BY <1>3, <1>4, <1>5 DEF Bucket
<1>8. \A q \in Keys \ {rec.key} : MapIn(cells', cellCount)[q] = MapIn(cells, cellCount)[q]
  <2> SUFFICES ASSUME NEW q \in Keys \ {rec.key}
               PROVE  MapIn(cells', cellCount)[q] = MapIn(cells, cellCount)[q]
    OBVIOUS
  <2>1. ASSUME NEW j
        PROVE  /\ j \in MatchBitSet(new, q) <=> j \in MatchBitSet(cells[c], q)
               /\ j \in MatchBitSet(new, q) => new.slot[j] = cells[c].slot[j]
    <3>1. CASE j \in {i, old}
      BY <3>1, <1>3, <1>6 DEF MatchBitSet
    <3>2. CASE j \notin {i, old}
      <4>1. j \in ValidBitSet(new) <=> j \in ValidBitSet(cells[c])
        BY <3>2, <1>3
      <4>2. j \in ValidBitSet(new) => new.slot[j] = cells[c].slot[j]
        BY <3>2, <1>3, <1>6 DEF Untouched
      <4> QED
        BY <4>1, <4>2 DEF MatchBitSet
    <3> QED
      BY <3>1, <3>2
  <2>2. /\ \A e \in 0..(cellCount - 1) : MatchBitSet(cells'[e], q) = MatchBitSet(cells[e], q)
        /\ \A e \in 0..(cellCount - 1) : \A j \in MatchBitSet(cells[e], q) :
             cells'[e].slot[j] = cells[e].slot[j]
    <3> SUFFICES ASSUME NEW e \in 0..(cellCount - 1)
                 PROVE  /\ MatchBitSet(cells'[e], q) = MatchBitSet(cells[e], q)
                        /\ \A j \in MatchBitSet(cells[e], q) :
                             cells'[e].slot[j] = cells[e].slot[j]
      OBVIOUS
    <3>1. CASE e = c
      <4>1. MatchBitSet(cells'[e], q) = MatchBitSet(cells[e], q)
        BY <3>1, <1>7, <2>1
      <4> QED
        BY <3>1, <4>1, <1>7, <2>1
    <3>2. CASE e # c
      BY <3>2, <1>7
    <3> QED
      BY <3>1, <3>2
  <2>3. UniqueKeys(cells, cellCount) /\ UniqueKeys(cells', cellCount)
    BY <1>5
  <2> QED
    BY <2>2, <2>3, MapWrite
<1>9. MapIn(cells', cellCount)[rec.key] = rec.val
  <2>2. i \in MatchBitSet(cells'[c], rec.key) /\ cells'[c].slot[i].val = rec.val
    BY <1>3, <1>6, <1>7 DEF MatchBitSet
  <2> QED
    BY <1>2, <1>3, <1>5, <2>2, MapHit
<1>10. MapOf' = [MapOf EXCEPT ![rec.key] = rec.val]
  <2>1. rec.key \in Keys
    BY <1>2
  <2> DEFINE f == MapIn(cells, cellCount)
             g == MapIn(cells', cellCount)
             k == rec.key
             v == rec.val
  <2>2. g = [f EXCEPT ![k] = v]
    <3>1. /\ f = [q \in Keys |-> f[q]] /\ g = [q \in Keys |-> g[q]]
      BY DEF MapIn
    <3>2. /\ k \in Keys /\ g[k] = v /\ \A q \in Keys \ {k} : g[q] = f[q]
      BY <2>1, <1>8, <1>9
    <3> HIDE DEF f, g, k, v
    <3> QED
      BY <3>1, <3>2
  <2>3. cellCount' = cellCount
    BY <1>2
  <2> QED
    BY <2>2, <2>3 DEF MapOf
<1>11. KV!Put(rec.key, rec.val)
  BY <1>2, <1>10 DEF KV!Put, KV!Answer, Answer
<1> QED
  BY <1>2, <1>11 DEF KV!Next

LEMMA RefFind ==
  ASSUME NEW k \in Keys, SoundInv, MapInv, Find(k)
  PROVE  KV!Next
<1>1. MapOf' = MapOf
  BY DEF Find, MapOf
<1>2. CASE FindsNothing(cells, cellCount, k) /\ res' = Answer("find", k, FALSE, Absent)
  <2>1. \A c \in 0..(cellCount - 1) : MatchBitSet(cells[c], k) = {}
    BY <1>2, NothingFoundNothingThere DEF SoundInv, TypeOK, MapInv, MatchBitSet
  <2>2. MapOf[k] = Absent
    BY <2>1, MapMiss DEF MapOf
  <2>3. KV!Find(k)
    BY <1>1, <1>2, <2>2 DEF KV!Find, KV!Answer, Answer
  <2> QED
    BY <2>3 DEF KV!Next
<1>3. ASSUME NEW d \in ProbeDist(cellCount), NEW i \in Slots,
             Finds(cells, cellCount, k, d, i),
             res' = Answer("find", k, TRUE, cells[At(k, d)].slot[i].val)
      PROVE  KV!Next
  <2>1. /\ At(k, d) \in 0..(cellCount - 1)
        /\ i \in MatchBitSet(cells[At(k, d)], k)
        /\ cells[At(k, d)].slot[i].val \in Values
    BY <1>3, DeleteCell DEF MatchBitSet, Record
  <2>2. MapOf[k] = cells[At(k, d)].slot[i].val
    BY <2>1, MapHit DEF MapOf, MapInv
  <2>3. MapOf[k] # Absent
    BY <2>1, <2>2, AbsentAssumption
  <2>4. KV!Find(k)
    BY <1>1, <1>3, <2>2, <2>3 DEF KV!Find, KV!Answer, Answer
  <2> QED
    BY <2>4 DEF KV!Next
<1> QED
  BY <1>2, <1>3 DEF Find

LEMMA RefDelete ==
  ASSUME NEW k \in Keys, SoundInv, MapInv, MapInv', Delete(k)
  PROVE  KV!Next
<1>1. cellCount' = cellCount
  BY DEF Delete
<1>2. CASE /\ FindsNothing(cells, cellCount, k)
           /\ res' = Answer("delete", k, FALSE, Absent) /\ UNCHANGED cells
  <2>1. \A c \in 0..(cellCount - 1) : MatchBitSet(cells[c], k) = {}
    BY <1>2, NothingFoundNothingThere DEF SoundInv, TypeOK, MapInv, MatchBitSet
  <2>2. MapOf[k] = Absent /\ MapOf' = MapOf
    BY <1>1, <1>2, <2>1, MapMiss DEF MapOf
  <2>3. MapOf' = [MapOf EXCEPT ![k] = Absent]
    BY <2>2 DEF MapOf, MapIn
  <2>4. KV!Delete(k)
    BY <1>2, <2>2, <2>3 DEF KV!Delete, KV!Answer, Answer
  <2> QED
    BY <2>4 DEF KV!Next
<1>3. ASSUME NEW d \in ProbeDist(cellCount), NEW i \in Slots,
             Finds(cells, cellCount, k, d, i),
             cells' = [cells EXCEPT ![At(k, d)] = EraseSlot(@, i)],
             res' = Answer("delete", k, TRUE, Absent)
      PROVE  KV!Next
  <2> DEFINE c == At(k, d)
             new == EraseSlot(cells[c], i)
  <2>1. /\ cellCount \in Nat \ {0} /\ c \in 0..(cellCount - 1)
        /\ i \in ValidBitSet(cells[c]) /\ cells[c].slot[i].key = k
        /\ cells[c].slot[i] \in Record
        /\ ValidBitSet(new) = ValidBitSet(cells[c]) \ {i}
        /\ new.slot = cells[c].slot
    BY <1>3, DeleteCell
  <2>2. cells' = [cells EXCEPT ![c] = new]
    BY <1>3
  <2> HIDE DEF c, new
  <2>3. /\ cells \in Bucket(cellCount) /\ UniqueKeys(cells, cellCount)
        /\ UniqueKeys(cells', cellCount)
    BY <1>1 DEF SoundInv, TypeOK, MapInv
  <2>4. MapOf[k] # Absent
    <3>1. MapOf[k] = cells[c].slot[i].val
      BY <2>1, <2>3, MapHit DEF MapOf, MatchBitSet
    <3> QED
      BY <2>1, <3>1, AbsentAssumption DEF Record
  <2>5. \A q \in Keys \ {k} : MapIn(cells', cellCount)[q] = MapIn(cells, cellCount)[q]
    <3> SUFFICES ASSUME NEW q \in Keys \ {k}
                 PROVE  MapIn(cells', cellCount)[q] = MapIn(cells, cellCount)[q]
      OBVIOUS
    <3>1. /\ MatchBitSet(new, q) = MatchBitSet(cells[c], q)
          /\ \A j \in MatchBitSet(cells[c], q) : new.slot[j] = cells[c].slot[j]
      BY <2>1 DEF MatchBitSet
    <3>2. cells'[c] = new /\ \A e \in (0..(cellCount - 1)) \ {c} : cells'[e] = cells[e]
      BY <2>1, <2>2, <2>3 DEF Bucket
    <3>3. /\ \A e \in 0..(cellCount - 1) : MatchBitSet(cells'[e], q) = MatchBitSet(cells[e], q)
          /\ \A e \in 0..(cellCount - 1) : \A j \in MatchBitSet(cells[e], q) :
               cells'[e].slot[j] = cells[e].slot[j]
      <4> SUFFICES ASSUME NEW e \in 0..(cellCount - 1)
                   PROVE  /\ MatchBitSet(cells'[e], q) = MatchBitSet(cells[e], q)
                          /\ \A j \in MatchBitSet(cells[e], q) :
                               cells'[e].slot[j] = cells[e].slot[j]
        OBVIOUS
      <4>1. CASE e = c
        <5>1. MatchBitSet(cells'[e], q) = MatchBitSet(cells[e], q)
          BY <4>1, <3>1, <3>2
        <5> QED
          BY <4>1, <5>1, <3>1, <3>2
      <4>2. CASE e # c
        BY <4>2, <3>1, <3>2
      <4> QED
        BY <4>1, <4>2
    <3>4. UniqueKeys(cells, cellCount) /\ UniqueKeys(cells', cellCount)
      BY <2>3
    <3> QED
      BY <3>3, <3>4, MapWrite
  <2>6. MapIn(cells', cellCount)[k] = Absent
    <3>1. cells'[c] = new /\ \A e \in (0..(cellCount - 1)) \ {c} : cells'[e] = cells[e]
      BY <2>1, <2>2, <2>3 DEF Bucket
    <3>2. ASSUME NEW e \in 0..(cellCount - 1)
          PROVE  MatchBitSet(cells'[e], k) = {}
      <4>1. CASE e = c
        BY <4>1, <2>1, <2>3, <3>1 DEF MatchBitSet, UniqueKeys
      <4>2. CASE e # c
        BY <4>2, <2>1, <2>3, <3>1 DEF MatchBitSet, UniqueKeys
      <4> QED
        BY <4>1, <4>2
    <3> QED
      BY <3>2, MapMiss
  <2>7. MapOf' = [MapOf EXCEPT ![k] = Absent]
    BY <1>1, <2>5, <2>6, MapUpdate DEF MapOf
  <2>8. KV!Delete(k)
    BY <1>3, <2>4, <2>7 DEF KV!Delete, KV!Answer, Answer
  <2> QED
    BY <2>8 DEF KV!Next
<1> QED
  BY <1>2, <1>3 DEF Delete

(* The new bucket holds the records of the old one.                         *)
LEMMA RefRehashCommit ==
  SoundInv /\ MapInv /\ RehashCommit => UNCHANGED <<MapOf, res>>
<1> SUFFICES ASSUME SoundInv, MapInv, RehashCommit
             PROVE  UNCHANGED <<MapOf, res>>
  OBVIOUS
<1> USE DEF RehashCommit
<1>1. /\ UniqueKeys(cells, cellCount) /\ UniqueKeys(newCells, newCount)
      /\ Moved /\ FromOld
  BY DEF MapInv, RehashMap
<1>2. /\ cellCount \in Nat /\ iter.cell = cellCount
      /\ \A c \in 0..(cellCount - 1) : \A i : i \in ValidBitSet(cells[c]) => ~Left(c, i)
  BY CountAssumption DEF SoundInv, TypeOK, Left
<1>3. \A r : Holds(cells, cellCount, r) <=> Holds(newCells, newCount, r)
  BY <1>1, <1>2 DEF Holds, Moved, FromOld
<1>4. \A k \in Keys : MapIn(cells, cellCount)[k] = MapIn(newCells, newCount)[k]
  BY <1>1, <1>3, MapSame
<1>5. MapIn(cells, cellCount) = MapIn(newCells, newCount)
  BY <1>4 DEF MapIn
<1> QED
  BY <1>5 DEF MapOf

LEMMA RefStep ==
  SoundInv /\ MapInv /\ MapInv' /\ [Next]_vars => [KV!Next]_<<MapOf, res>>
<1> SUFFICES ASSUME SoundInv, MapInv, MapInv', [Next]_vars
             PROVE  [KV!Next]_<<MapOf, res>>
  OBVIOUS
<1>1. ASSUME NEW k \in Keys, NEW v \in Values, Put(k, v)
      PROVE  UNCHANGED <<MapOf, res>>
  BY <1>1 DEF Put, MapOf
<1>2. CASE PutRehash \/ MinorReHashAll \/ GCAll
  BY <1>2 DEF PutRehash, MinorReHashAll, GCAll, MapOf
<1>3. CASE RehashMove \/ RehashNextCell \/ UNCHANGED vars
  BY <1>3 DEF RehashMove, RehashNextCell, vars, MapOf
<1> QED
  BY <1>1, <1>2, <1>3, RefPutInsert, RefPutUpdate, RefFind, RefDelete,
     RefRehashCommit
     DEF Next, PutStep, RehashStep

LEMMA RefInit == Init => KV!Init
<1> SUFFICES ASSUME Init
             PROVE  KV!Init
  OBVIOUS
<1>1. \A c \in 0..(cellCount - 1) : ValidBitSet(cells[c]) = {}
  BY CountAssumption, EmptySound DEF Init, ValidBitSet
<1>2. \A k \in Keys : MapIn(cells, cellCount)[k] = Absent
  BY <1>1, MapMiss DEF MatchBitSet
<1>3. MapOf = [k \in Keys |-> Absent]
  BY <1>2 DEF MapOf, MapIn
<1> QED
  BY <1>3 DEF Init, KV!Init, KV!Answer, Answer

(* As long as no rehash overruns, the bucket implements the map: its calls  *)
(* do to the records what Put, Find and Delete do to the map, and a rehash  *)
(* does nothing to it.                                                      *)
THEOREM BucketIsMap == Spec /\ []NoOverrun => ImplementsMap
<1>1. SoundInv /\ MapInv /\ MapInv' /\ [Next]_vars => [KV!Next]_<<MapOf, res>>
  BY RefStep
<1> QED
  BY <1>1, Sound, MapSound, RefInit, PTL DEF Spec, ImplementsMap, KV!Spec
=============================================================================
