----------------------------- MODULE TurboBucket -----------------------------
(***************************************************************************)
(* One bucket of the DRAM table (turbo_hash.h) used by one caller at a     *)
(* time: Put, Find and Delete, and the rehash that a Put without a free    *)
(* slot, MinorReHashAll or GCAll runs.  The rehash loop is modelled step   *)
(* by step, with the iterator over the old cells and the next free slot of *)
(* every new cell.                                                         *)
(***************************************************************************)
EXTENDS TurboCell

CONSTANTS
  InitCellCount,   \* cells of the bucket the constructor allocates
  CellCountLimit,  \* kCellCountLimit
  Absent           \* what Find reports for a key that is not there

ASSUME CountAssumption ==
  /\ InitCellCount \in Nat \ {0} /\ CellCountLimit \in Nat
  /\ InitCellCount <= CellCountLimit
ASSUME AbsentAssumption == Absent \notin Values

VARIABLES
  cells,      \* the cells of the bucket
  cellCount,
  pc,         \* idle, put (between after_rehash and the insertion), rehash, exit
  rec,        \* the record a Put has to store
  res,        \* the last call to return and what it returned
  newCells,   \* the bucket a rehash fills
  newCount,
  slotVec,    \* slot_vec: the next free slot of each new cell
  iter,       \* the BucketIterator: a cell and the slots left to move in it
  back        \* where the rehash returns to

rehashVars == <<newCells, newCount, slotVec, iter, back>>
vars == <<cells, cellCount, pc, rec, res, newCells, newCount, slotVec, iter, back>>

NoRecord == Zeroed

Answer(op, k, hit, val) == [op |-> op, key |-> k, hit |-> hit, val |-> val]
Result == [op : {"none", "put", "find", "delete"}, key : Keys \cup {Absent},
           hit : BOOLEAN, val : Values \cup {Absent}]

Init ==
  /\ cells = EmptyBucket(InitCellCount)
  /\ cellCount = InitCellCount
  /\ pc = "idle"
  /\ rec = NoRecord
  /\ res = Answer("none", Absent, FALSE, Absent)
  /\ newCells = EmptyBucket(0)
  /\ newCount = 0
  /\ slotVec = [c \in {} |-> StartSlotPos]
  /\ iter = [cell |-> 0, bits |-> {}]
  /\ back = "idle"

At(k, d) == ProbeCell(k, cellCount, d)

-----------------------------------------------------------------------------
(* Put: insertSlot, findSlotForInsert and insertToSlotAndGC                 *)

Put(k, v) ==
  /\ pc = "idle"
  /\ pc' = "put"
  /\ rec' = [key |-> k, val |-> v]
  /\ UNCHANGED <<cells, cellCount, res, rehashVars>>

PutReturns ==
  /\ pc' = "idle"
  /\ rec' = NoRecord
  /\ res' = Answer("put", rec.key, TRUE, Absent)
  /\ UNCHANGED <<cellCount, rehashVars>>

PutInsert ==
  /\ pc = "put"
  /\ \E d \in ProbeDist(cellCount), i \in Slots :
       /\ InsertTarget(cells, cellCount, rec.key, d, i)
       /\ cells' = [cells EXCEPT ![At(rec.key, d)] = InsertToSlot(@, i, rec)]
  /\ PutReturns

PutUpdate ==
  /\ pc = "put"
  /\ \E d \in ProbeDist(cellCount), old, i \in Slots :
       /\ UpdateTarget(cells, cellCount, rec.key, d, old, i)
       /\ cells' = [cells EXCEPT ![At(rec.key, d)] = UpdateToSlot(@, i, old, rec)]
  /\ PutReturns

-----------------------------------------------------------------------------
(* Find and Delete                                                          *)

Find(k) ==
  /\ pc = "idle"
  /\ \/ \E d \in ProbeDist(cellCount), i \in Slots :
          /\ Finds(cells, cellCount, k, d, i)
          /\ res' = Answer("find", k, TRUE, cells[At(k, d)].slot[i].val)
     \/ /\ FindsNothing(cells, cellCount, k)
        /\ res' = Answer("find", k, FALSE, Absent)
  /\ UNCHANGED <<cells, cellCount, pc, rec, rehashVars>>

Delete(k) ==
  /\ pc = "idle"
  /\ \/ \E d \in ProbeDist(cellCount), i \in Slots :
          /\ Finds(cells, cellCount, k, d, i)
          /\ cells' = [cells EXCEPT ![At(k, d)] = EraseSlot(@, i)]
          /\ res' = Answer("delete", k, TRUE, Absent)
     \/ /\ FindsNothing(cells, cellCount, k)
        /\ res' = Answer("delete", k, FALSE, Absent)
        /\ UNCHANGED cells
  /\ UNCHANGED <<cellCount, pc, rec, rehashVars>>

-----------------------------------------------------------------------------
(* MinorRehash                                                              *)

(* A bucket that would exceed kCellCountLimit ends the process.             *)
RehashBegin(n, return) ==
  IF n > CellCountLimit
  THEN /\ pc' = "exit"
       /\ UNCHANGED rehashVars
  ELSE /\ pc' = "rehash"
       /\ newCount' = n
       /\ newCells' = EmptyBucket(n)
       /\ slotVec' = [c \in 0..(n - 1) |-> StartSlotPos]
       /\ iter' = [cell |-> 0, bits |-> ValidBitSet(cells[0])]
       /\ back' = return

(* Faulty: the bucket does not grow.                                        *)
PutRehashInPlace ==
  /\ pc = "put"
  /\ NoTarget(cells, cellCount, rec.key)
  /\ RehashBegin(cellCount, "put")
  /\ UNCHANGED <<cells, cellCount, rec, res>>

PutRehash ==
  /\ pc = "put"
  /\ NoTarget(cells, cellCount, rec.key)
  /\ RehashBegin(2 * cellCount, "put")
  /\ UNCHANGED <<cells, cellCount, rec, res>>

MinorReHashAll ==
  /\ pc = "idle"
  /\ RehashBegin(2 * cellCount, "idle")
  /\ UNCHANGED <<cells, cellCount, rec, res>>

GCAll ==
  /\ pc = "idle"
  /\ RehashBegin(cellCount, "idle")
  /\ UNCHANGED <<cells, cellCount, rec, res>>

(* Faulty: fills the reserved slot too.                                     *)
OpenDistsTooFull(k) ==
  {d \in 0..MaxProbeLen : slotVec[ProbeCell(k, newCount, d)] <= SlotMaxRange}

(* findNextSlotInRehash: the first cell from the home cell on with a slot   *)
(* left below SlotMaxRange; the search gives up after MaxProbeLen steps.    *)
OpenDists(k) ==
  {d \in 0..MaxProbeLen : slotVec[ProbeCell(k, newCount, d)] < SlotMaxRange}

(* Faulty: never uses the home cell.                                        *)
RehashTargetShifted(k, d) == Lowest(d, OpenDists(k) \ {0})

RehashTarget(k, d) == Lowest(d, OpenDists(k))

RehashMove ==
  /\ pc = "rehash"
  /\ \E i \in iter.bits :
       /\ Lowest(i, iter.bits)
       /\ LET old == cells[iter.cell].slot[i] IN
          \/ \E d \in 0..MaxProbeLen :
               /\ RehashTarget(old.key, d)
               /\ LET c == ProbeCell(old.key, newCount, d) IN
                  /\ newCells' = [newCells EXCEPT
                                    ![c] = InsertToSlot(@, slotVec[c], old)]
                  /\ slotVec' = [slotVec EXCEPT ![c] = @ + 1]
               /\ iter' = [iter EXCEPT !.bits = iter.bits \ {i}]
               /\ UNCHANGED pc
          \/ /\ OpenDists(old.key) = {}
             /\ pc' = "exit"
             /\ UNCHANGED <<newCells, slotVec, iter>>
  /\ UNCHANGED <<cells, cellCount, rec, res, newCount, back>>

(* Faulty: the iterator does not load the slots of the next cell.           *)
RehashNextCellUnloaded ==
  /\ pc = "rehash"
  /\ iter.bits = {}
  /\ iter.cell < cellCount
  /\ iter' = [iter EXCEPT !.cell = @ + 1]
  /\ UNCHANGED <<cells, cellCount, pc, rec, res, newCells, newCount, slotVec, back>>

(* Faulty: the iterator runs on past the last cell.                         *)
RehashNextCellBeyond ==
  /\ pc = "rehash"
  /\ iter.bits = {}
  /\ iter.cell <= cellCount
  /\ iter' = [cell |-> iter.cell + 1,
              bits |-> IF iter.cell + 1 < cellCount
                       THEN ValidBitSet(cells[iter.cell + 1]) ELSE {}]
  /\ UNCHANGED <<cells, cellCount, pc, rec, res, newCells, newCount, slotVec, back>>

RehashNextCell ==
  /\ pc = "rehash"
  /\ iter.bits = {}
  /\ iter.cell < cellCount
  /\ iter' = [cell |-> iter.cell + 1,
              bits |-> IF iter.cell + 1 < cellCount
                       THEN ValidBitSet(cells[iter.cell + 1]) ELSE {}]
  /\ UNCHANGED <<cells, cellCount, pc, rec, res, newCells, newCount, slotVec, back>>

(* Reset installs the new bucket; the slot vector is freed.                 *)
RehashCommit ==
  /\ pc = "rehash"
  /\ iter.cell = cellCount
  /\ cells' = newCells
  /\ cellCount' = newCount
  /\ pc' = back
  /\ newCells' = EmptyBucket(0)
  /\ newCount' = 0
  /\ slotVec' = [c \in {} |-> StartSlotPos]
  /\ iter' = [cell |-> 0, bits |-> {}]
  /\ back' = "idle"
  /\ UNCHANGED <<rec, res>>

PutStep == PutInsert \/ PutUpdate \/ PutRehash
RehashStep == RehashMove \/ RehashNextCell \/ RehashCommit

Next ==
  \/ \E k \in Keys :
       \/ \E v \in Values : Put(k, v)
       \/ Find(k)
       \/ Delete(k)
  \/ PutStep
  \/ RehashStep
  \/ MinorReHashAll
  \/ GCAll

Spec == Init /\ [][Next]_vars

(* A call that has begun runs on; no new call has to be made.               *)
FairSpec == Spec /\ WF_vars(PutStep \/ RehashStep)

-----------------------------------------------------------------------------
(* Properties                                                               *)

TypeOK ==
  /\ cellCount \in 1..CellCountLimit
  /\ cells \in Bucket(cellCount)
  /\ pc \in {"idle", "put", "rehash", "exit"}
  /\ rec \in Record \cup {NoRecord}
  /\ res \in Result
  /\ newCount \in 0..CellCountLimit
  /\ newCells \in Bucket(newCount)
  /\ slotVec \in [0..(newCount - 1) -> Nat]
  /\ iter \in [cell : 0..cellCount, bits : SUBSET Slots]
  /\ back \in {"idle", "put"}

Positions == (0..(cellCount - 1)) \X Slots
Valid(p) == p[2] \in ValidBitSet(cells[p[1]])
Content(p) == cells[p[1]].slot[p[2]]

(* The slot reserved for updates is never used up, in the cells of the      *)
(* bucket and in those that a rehash fills.                                 *)
BackupSlotLeft ==
  /\ \A c \in 0..(cellCount - 1) : CellSound(cells[c])
  /\ \A c \in 0..(newCount - 1) : CellSound(newCells[c])

(* Every valid slot holds a record, and no key is valid in two slots: an    *)
(* old version of a record never survives beside the new one.               *)
OneSlotPerKey ==
  /\ \A p \in Positions : Valid(p) => Content(p) \in Record
  /\ \A p, q \in Positions :
       Valid(p) /\ Valid(q) /\ Content(p).key = Content(q).key => p = q

(* Every record lies on the probe path of its key: the search for it gets   *)
(* as far as its cell, because all the cells before are full.               *)
Reachable ==
  \A p \in Positions :
    Valid(p) => \E d \in Visited(cells, cellCount, Content(p).key) :
                  At(Content(p).key, d) = p[1]

(* A rehash never has to put a record MaxProbeLen cells from its home:      *)
(* findNextSlotInRehash would accept that cell, but no search gets so far.  *)
NoOverrun ==
  pc = "rehash" =>
    \A i \in iter.bits :
      Lowest(i, iter.bits) =>
        ~RehashTarget(cells[iter.cell].slot[i].key, MaxProbeLen)

(* The records a rehash still has to move and those it has moved are        *)
(* together the records of the bucket, each in exactly one place, so the    *)
(* bucket that Reset installs has lost and duplicated nothing.              *)
LeftToMove ==
  {p \in Positions :
     /\ Valid(p)
     /\ \/ p[1] = iter.cell /\ p[2] \in iter.bits
        \/ p[1] > iter.cell}
NewPositions == {p \in (0..(newCount - 1)) \X Slots :
                   p[2] \in newCells[p[1]].bitmap}

RehashKeepsRecords ==
  pc = "rehash" =>
    \A p \in Positions :
      Valid(p) =>
        Cardinality({q \in NewPositions :
                       newCells[q[1]].slot[q[2]] = Content(p)})
          = IF p \in LeftToMove THEN 0 ELSE 1

(* The table is a map: Put, Find, Delete and the rehash do to the valid     *)
(* records what the operations of KVMap do to the map, and return the same. *)
MapIn(b, n) ==
  [k \in Keys |->
     IF \E c \in 0..(n - 1) : MatchBitSet(b[c], k) # {}
     THEN LET c == CHOOSE c \in 0..(n - 1) : MatchBitSet(b[c], k) # {}
              i == CHOOSE i \in MatchBitSet(b[c], k) : TRUE
          IN  b[c].slot[i].val
     ELSE Absent]
MapOf == MapIn(cells, cellCount)

KV == INSTANCE KVMap WITH map <- MapOf

ImplementsMap == KV!Spec

(* Between two rehashes a full cell stays full: a deletion or an update     *)
(* never opens a gap in the probe path of a record stored further on.       *)
FullStaysFull ==
  [][ (pc # "rehash") =>
        \A c \in 0..(cellCount - 1) : Full(cells[c]) => Full(cells'[c]) ]_vars

(* A Put comes to an end, though it may rehash again and again: it stores   *)
(* the record, or the process ends because the bucket cannot grow.          *)
PutEnds == (pc = "put") ~> (pc \in {"idle", "exit"})
=============================================================================
