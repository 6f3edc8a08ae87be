---------------------------- MODULE SharedBucket ----------------------------
(***************************************************************************)
(* One bucket used by many threads at once: searches without a lock,       *)
(* writers, and rehashes that replace the cells under a search, in both    *)
(* builds of the table.  The default build locks the bucket and then       *)
(* searches for a slot; with PIN_KEY_TO_THREAD a Put searches first, locks *)
(* then and has to look again.  The code is the same in the three tables.  *)
(*                                                                         *)
(* A step copies the version word of a cell, compares the slots of the     *)
(* copy, takes the lock, stores a slot, or publishes a version.  CellSync  *)
(* has the words of one cell, BucketMeta those of the lock, TurboBucket    *)
(* the steps of a rehash, which nobody but its owner sees before its end.  *)
(***************************************************************************)
EXTENDS TurboCell, Sequences

CONSTANTS
  Threads,
  Writers,         \* the threads that call Put and Delete for a key
  Builds,          \* PIN_KEY_TO_THREAD or not, and kCellCountLimit
  InitCellCount,
  MaxWrites,       \* calls of Put and Delete, bounded
  Absent,
  None

ASSUME SentinelAssumption ==
  /\ Absent \notin Values
  /\ None \notin Threads \cup Slots \cup {Absent}
ASSUME BoundAssumption == IsFiniteSet(Threads) /\ MaxWrites \in Nat
ASSUME WritersAssumption == Writers \in [Keys -> SUBSET Threads]
ASSUME BuildsAssumption ==
  /\ InitCellCount \in Nat \ {0}
  /\ Builds \subseteq [pinned : BOOLEAN, CellCountLimit : Nat]
  /\ \A b \in Builds : InitCellCount <= b.CellCountLimit

VARIABLES
  build,
  cells,      \* all the arrays of cells the bucket has had; the last one is current
  seq_no_,    \* the sequence numbers of their cells
  lock,       \* the holder of the bucket lock
  rehashLock, \* the rehash bit
  pc,
  op,
  at,         \* search_bucket_addr and probe_count
  copy,       \* the version word that a search has copied
  insert,     \* cell_to_insert and slot_to_insert
  target,     \* where a Put stores, or what a Delete erases
  got,        \* the value that a Find has read
  disturbed,  \* history: another thread wrote the key during the call
  writes,     \* history: calls of Put and Delete so far
  intact,     \* history: no cell has used its reserved slot up, or lost a used one
  within      \* history: no rehash has put a record where no search looks

bucketVars == <<cells, seq_no_, lock, rehashLock>>
searchVars == <<at, copy, insert, target, got>>
historyVars == <<disturbed, writes>>
vars == <<build, bucketVars, pc, op, searchVars, historyVars, intact, within>>

NoOp == [kind |-> "none", key |-> None, val |-> None]
Nowhere == [addr |-> 0, dist |-> 0]
NoCopy == [bitmap |-> {}, deleted |-> {}, seq_no_ |-> 0]

Init ==
  /\ build \in Builds
  /\ cells = <<EmptyBucket(InitCellCount)>>
  /\ seq_no_ = <<[c \in 0..(InitCellCount - 1) |-> 0]>>
  /\ lock = None
  /\ rehashLock = FALSE
  /\ pc = [t \in Threads |-> "idle"]
  /\ op = [t \in Threads |-> NoOp]
  /\ at = [t \in Threads |-> Nowhere]
  /\ copy = [t \in Threads |-> NoCopy]
  /\ insert = [t \in Threads |-> None]
  /\ target = [t \in Threads |-> None]
  /\ got = [t \in Threads |-> None]
  /\ disturbed = [t \in Threads |-> FALSE]
  /\ writes = 0
  /\ intact = TRUE
  /\ within = TRUE

Goto(t, to) == pc' = [pc EXCEPT ![t] = to]

(* BucketMeta::Address and CellCount                                        *)
Address == Len(cells)
CellCount(a) == Cardinality(DOMAIN cells[a])
cell(t) == ProbeCell(op[t].key, CellCount(at[t].addr), at[t].dist)
rec(t) == [key |-> op[t].key, val |-> op[t].val]

(* An unlock stores the low half of the word back and may undo a rehash     *)
(* lock just taken; BucketMeta has the two steps.                           *)
Unlock ==
  /\ lock' = None
  /\ rehashLock' \in {rehashLock, FALSE}

Locked == lock = None /\ Unlock

-----------------------------------------------------------------------------
(* The search: findSlot, deleteSlot and, when pinned, findSlotForInsert     *)

Writes(o, k) == o.kind \in {"put", "delete"} /\ o.key = k

Begin(t, o) ==
  /\ pc[t] = "idle"
  /\ o.kind # "find" => t \in Writers[o.key] /\ writes < MaxWrites
  /\ writes' = IF o.kind = "find" THEN writes ELSE writes + 1
  /\ op' = [op EXCEPT ![t] = o]
  /\ disturbed' = [u \in Threads |->
       IF u = t THEN \E w \in Threads \ {t} : Writes(op[w], o.key)
       ELSE disturbed[u] \/ (op[u].key = o.key /\ o.kind # "find")]
  /\ Goto(t, IF o.kind = "put" /\ ~build.pinned THEN "lock" ELSE "start")
  /\ UNCHANGED <<build, bucketVars, searchVars>>

(* after_rehash.  Only Put and Delete wait while the bucket is rehashed.    *)
Start(t) ==
  /\ pc[t] = "start"
  /\ build.pinned /\ op[t].kind # "find" => ~rehashLock
  /\ at' = [at EXCEPT ![t] = [addr |-> Address, dist |-> 0]]
  /\ insert' = [insert EXCEPT ![t] = None]
  /\ target' = [target EXCEPT ![t] = None]
  /\ Goto(t, "copy")
  /\ UNCHANGED <<build, bucketVars, op, copy, got, historyVars>>

CopyCell(t) ==
  /\ pc[t] = "copy"
  /\ LET c == cells[at[t].addr][cell(t)] IN
     copy' = [copy EXCEPT ![t] = [bitmap |-> c.bitmap, deleted |-> c.deleted,
                                  seq_no_ |-> seq_no_[at[t].addr][cell(t)]]]
  /\ Goto(t, "compare")
  /\ UNCHANGED <<build, bucketVars, op, at, insert, target, got, historyVars>>

(* The version is one write ahead at most, or else the search starts over.  *)
Outdated(t) == copy[t].seq_no_ + 1 < seq_no_[at[t].addr][cell(t)]

(* The slots of the copy that have the key by now.                          *)
Hits(t) ==
  {i \in ValidBitSet(copy[t]) : cells[at[t].addr][cell(t)].slot[i].key = op[t].key}

Place(c, i, o) == [cell |-> c, slot |-> i, old |-> o]

(* A Put exits, or worse, when there is no backup slot: *backup_bitset.     *)
Hit(t) ==
  /\ pc[t] = "compare"
  /\ \E i \in Slots :
       /\ Lowest(i, Hits(t))
       /\ \/ /\ op[t].kind = "find"
             /\ got' = [got EXCEPT ![t] = cells[at[t].addr][cell(t)].slot[i].val]
             /\ Goto(t, "check")
             /\ UNCHANGED target
          \/ /\ op[t].kind = "delete"
             /\ target' = [target EXCEPT ![t] = Place(cell(t), i, None)]
             /\ Goto(t, "lock")
             /\ UNCHANGED got
          \/ /\ op[t].kind = "put"
             /\ \/ \E j \in Slots :
                     /\ Lowest(j, BackupBitSet(copy[t]))
                     /\ target' = [target EXCEPT ![t] = Place(cell(t), j, i)]
                     /\ Goto(t, "check")
                \/ /\ BackupBitSet(copy[t]) = {}
                   /\ Goto(t, "exit")
                   /\ UNCHANGED target
             /\ UNCHANGED got
  /\ UNCHANGED <<build, bucketVars, op, at, copy, insert, historyVars>>

(* Faulty: takes a cell with erased slots for the end of the probe path.    *)
EndsHereErased(t) == Cardinality(ValidBitSet(copy[t])) # SlotCount - 1

EndsHere(t) == ~Full(copy[t])
LastCell(t) == at[t].dist + 1 \notin ProbeDist(CellCount(at[t].addr))

NextCell(t) ==
  /\ pc[t] = "compare" /\ Hits(t) = {}
  /\ ~EndsHere(t) /\ ~LastCell(t)
  /\ at' = [at EXCEPT ![t].dist = @ + 1]
  /\ \/ /\ op[t].kind = "put" /\ EraseBitSet(copy[t]) # {}
        /\ \E i \in Slots :
             /\ Lowest(i, EraseBitSet(copy[t]))
             /\ insert' = [insert EXCEPT ![t] = Place(cell(t), i, None)]
     \/ /\ op[t].kind = "put" => EraseBitSet(copy[t]) = {}
        /\ UNCHANGED insert
  /\ Goto(t, "copy")
  /\ UNCHANGED <<build, bucketVars, op, copy, target, got, historyVars>>

Miss(t) ==
  /\ pc[t] = "compare" /\ Hits(t) = {} /\ op[t].kind # "put"
  /\ EndsHere(t) \/ LastCell(t)
  /\ got' = [got EXCEPT ![t] = Absent]
  /\ Goto(t, "done")
  /\ UNCHANGED <<build, bucketVars, op, at, copy, insert, target, historyVars>>

(* "choose deleted position first", this cell's or one met before, or else  *)
(* a free slot of a cell that is not full.  cell_to_insert stays when the   *)
(* version makes the search look at the cell again.                         *)
Chosen(t, p) ==
  \/ \E i \in Slots :
       Lowest(i, EraseBitSet(copy[t])) /\ p = Place(cell(t), i, None)
  \/ EraseBitSet(copy[t]) = {} /\ insert[t] # None /\ p = insert[t]
  \/ /\ EraseBitSet(copy[t]) = {} /\ insert[t] = None /\ EndsHere(t)
     /\ \E i \in Slots :
          Lowest(i, BackupBitSet(copy[t])) /\ p = Place(cell(t), i, None)

ChooseSlot(t) ==
  /\ pc[t] = "compare" /\ Hits(t) = {} /\ op[t].kind = "put"
  /\ EndsHere(t) \/ LastCell(t)
  /\ \E p \in [cell : DOMAIN cells[at[t].addr], slot : Slots, old : {None}] :
       /\ Chosen(t, p)
       /\ insert' = [insert EXCEPT ![t] = p]
       /\ target' = [target EXCEPT ![t] = p]
  /\ Goto(t, IF EndsHere(t) THEN "check" ELSE "lock")
  /\ UNCHANGED <<build, bucketVars, op, at, copy, got, historyVars>>

NoSlot(t) ==
  /\ pc[t] = "compare" /\ Hits(t) = {} /\ op[t].kind = "put"
  /\ EndsHere(t) \/ LastCell(t)
  /\ EraseBitSet(copy[t]) = {} /\ insert[t] = None
  /\ Goto(t, IF EndsHere(t) THEN "exit" ELSE "rehash")
  /\ EndsHere(t) => BackupBitSet(copy[t]) = {}
  /\ UNCHANGED <<build, bucketVars, op, searchVars, historyVars>>

CheckVersion(t) ==
  /\ pc[t] = "check"
  /\ \/ Outdated(t) /\ Goto(t, "copy")
     \/ ~Outdated(t) /\ Goto(t, IF op[t].kind = "find" THEN "done" ELSE "lock")
  /\ UNCHANGED <<build, bucketVars, op, searchVars, historyVars>>

-----------------------------------------------------------------------------
(* Delete, in the lock                                                      *)

(* Faulty: does not ask whether the bucket was rehashed.                    *)
EraseAnywhere(t) ==
  /\ pc[t] = "lock" /\ op[t].kind = "delete" /\ Locked
  /\ ~Outdated(t)
  /\ cells' = [cells EXCEPT ![at[t].addr][target[t].cell] = EraseSlot(@, target[t].slot)]
  /\ seq_no_' = [seq_no_ EXCEPT ![at[t].addr][target[t].cell] = @ + 1]
  /\ Goto(t, "done")
  /\ UNCHANGED <<build, op, searchVars, historyVars>>

Erase(t) ==
  /\ pc[t] = "lock" /\ op[t].kind = "delete" /\ Locked
  /\ ~Outdated(t) /\ at[t].addr = Address
  /\ cells' = [cells EXCEPT ![Address][target[t].cell] = EraseSlot(@, target[t].slot)]
  /\ seq_no_' = [seq_no_ EXCEPT ![Address][target[t].cell] = @ + 1]
  /\ Goto(t, "done")
  /\ UNCHANGED <<build, op, searchVars, historyVars>>

DeleteRetry(t) ==
  /\ pc[t] = "lock" /\ op[t].kind = "delete" /\ Locked
  /\ \/ Outdated(t) /\ Goto(t, "copy")
     \/ ~Outdated(t) /\ at[t].addr # Address /\ Goto(t, "start")
  /\ UNCHANGED <<build, cells, seq_no_, op, searchVars, historyVars>>

-----------------------------------------------------------------------------
(* MinorRehash                                                              *)

Positions(b) == (DOMAIN b) \X Slots
Content(b, p) == b[p[1]].slot[p[2]]

(* The cells in order, and in a cell the slots.                             *)
Position(j) == <<j \div SlotCount, StartSlotPos + (j % SlotCount)>>

(* findNextSlotInRehash: slot_vec counts the slots that a cell has got.     *)
(* The loop looks at one cell more than a search does, and ends the program *)
(* when that is full too.                                                   *)
OpenDists(b, k) ==
  {e \in 0..MaxProbeLen :
     Cardinality(b[ProbeCell(k, Cardinality(DOMAIN b), e)].bitmap) < SlotCount - 1}

MoveSlot(b, r) ==
  LET open == OpenDists(b, r.key)
      d == CHOOSE e \in open : Lowest(e, open)
  IN  IF open = {} THEN b
      ELSE [b EXCEPT ![ProbeCell(r.key, Cardinality(DOMAIN b), d)] =
              InsertToSlot(@, StartSlotPos + Cardinality(@.bitmap), r)]

(* The new cells, after so many slots of the old ones.                      *)
Filling(b, from) ==
  LET new[j \in 0..(Cardinality(DOMAIN b) * SlotCount)] ==
        IF j = 0 THEN EmptyBucket(2 * Cardinality(DOMAIN b))
        ELSE LET p == Position(j - 1)
             IN  IF p \in from THEN MoveSlot(new[j - 1], Content(b, p)) ELSE new[j - 1]
  IN  new

Moved(b, from) == Filling(b, from)[Cardinality(DOMAIN b) * SlotCount]

(* What BucketIterator yields.                                              *)
Moving(b) == {p \in Positions(b) : p[2] \in ValidBitSet(b[p[1]])}

(* Faulty: moves the erased records too.                                    *)
RehashedWithErased(b) == Moved(b, {p \in Positions(b) : p[2] \in b[p[1]].bitmap})

Rehashed(b) == Moved(b, Moving(b))

(* The distances that a rehash has for its records, for each in its turn.   *)
Choices(b) ==
  {OpenDists(Filling(b, Moving(b))[j], Content(b, Position(j)).key) :
     j \in {i \in 0..(Cardinality(DOMAIN b) * SlotCount - 1) : Position(i) \in Moving(b)}}

Stuck(b) == {} \in Choices(b)
Overruns(b) == \E open \in Choices(b) : Lowest(MaxProbeLen, open)

(* exit() does not unlock.  Other threads may run on until it ends them.    *)
Exit(t) == lock' = t /\ Goto(t, "exit")

(* Faulty: asks for the limit before the cells are doubled.                 *)
GrowsBeyond == CellCount(Address) <= build.CellCountLimit /\ ~Stuck(cells[Address])

(* The program ends at the limit, and when a record finds no cell.          *)
Grows == 2 * CellCount(Address) <= build.CellCountLimit /\ ~Stuck(cells[Address])

Grow ==
  /\ Grows
  /\ cells' = Append(cells, Rehashed(cells[Address]))
  /\ seq_no_' = Append(seq_no_, [c \in 0..(2 * CellCount(Address) - 1) |-> 0])

-----------------------------------------------------------------------------
(* Put: the slot is stored first, then the version that shows it            *)

Store(t, c, i, old) ==
  /\ cells' = [cells EXCEPT ![Address][c].slot[i] = rec(t)]
  /\ target' = [target EXCEPT ![t] = Place(c, i, old)]
  /\ lock' = t
  /\ Goto(t, "publish")
  /\ UNCHANGED <<seq_no_, rehashLock, at, insert>>

(* insertSlot of the default build holds the lock from the search on.       *)
PutLocked(t) ==
  /\ pc[t] = "lock" /\ op[t].kind = "put" /\ ~build.pinned /\ lock = None
  /\ LET b == cells[Address]
         n == CellCount(Address)
         k == op[t].key
     IN  \E d \in ProbeDist(n), i \in Slots :
           \/ /\ InsertTarget(b, n, k, d, i)
              /\ Store(t, ProbeCell(k, n, d), i, None)
           \/ \E old \in Slots :
                /\ UpdateTarget(b, n, k, d, old, i)
                /\ Store(t, ProbeCell(k, n, d), i, old)
  /\ UNCHANGED <<build, op, copy, got, historyVars>>

PutRehash(t) ==
  /\ pc[t] = "lock" /\ op[t].kind = "put" /\ ~build.pinned /\ lock = None
  /\ NoTarget(cells[Address], CellCount(Address), op[t].key)
  /\ \/ Grow /\ Unlock /\ UNCHANGED pc
     \/ ~Grows /\ Exit(t) /\ UNCHANGED <<cells, seq_no_, rehashLock>>
  /\ UNCHANGED <<build, op, searchVars, historyVars>>

(* With pinned keys the bucket may have changed since the search.           *)
PinnedMoved(t) ==
  /\ pc[t] = "lock" /\ op[t].kind = "put" /\ build.pinned /\ Locked
  /\ at[t].addr # Address
  /\ Goto(t, "start")
  /\ UNCHANGED <<build, cells, seq_no_, op, searchVars, historyVars>>

Occupied(c, i) == i \in ValidBitSet(c)

(* Faulty: stores into the slot the search chose, whatever it holds now.    *)
SlotNowBlind(c, p, i) == i = p.slot

(* The slot that the search chose if nobody has taken it; or else, for an   *)
(* update, a backup slot, and for a new key an erased slot, or a backup     *)
(* slot that is not the last one.                                           *)
SlotNow(c, p, i) ==
  \/ ~Occupied(c, p.slot) /\ i = p.slot
  \/ /\ Occupied(c, p.slot)
     /\ \/ p.old # None /\ Lowest(i, BackupBitSet(c))
        \/ p.old = None /\ Lowest(i, EraseBitSet(c))
        \/ /\ p.old = None /\ EraseBitSet(c) = {}
           /\ Cardinality(BackupBitSet(c)) >= 2
           /\ Lowest(i, BackupBitSet(c))

PinnedLocked(t) ==
  /\ pc[t] = "lock" /\ op[t].kind = "put" /\ build.pinned /\ lock = None
  /\ at[t].addr = Address
  /\ LET p == target[t]
         c == cells[Address][p.cell]
     IN  \/ \E i \in Slots : SlotNow(c, p, i) /\ Store(t, p.cell, i, p.old)
         \/ /\ \A i \in Slots : ~SlotNow(c, p, i)
            /\ \/ p.old = None /\ Unlock /\ Goto(t, "start")
               \/ p.old # None /\ Exit(t) /\ UNCHANGED rehashLock
            /\ UNCHANGED <<cells, seq_no_, at, insert, target>>
  /\ UNCHANGED <<build, op, copy, got, historyVars>>

(* A failed attempt, also when another bit of the word changes meanwhile,   *)
(* goes back to after_rehash.  Nobody asks whether the bucket that had no   *)
(* slot is still the current one.                                           *)
TryRehashLock(t) ==
  /\ pc[t] = "rehash"
  /\ \/ ~rehashLock /\ rehashLock' = TRUE /\ Goto(t, "rehashing")
     \/ UNCHANGED rehashLock /\ Goto(t, "start")
  /\ UNCHANGED <<build, cells, seq_no_, lock, op, searchVars, historyVars>>

PinnedRehash(t) ==
  /\ pc[t] = "rehashing" /\ lock = None
  /\ \/ Grow /\ rehashLock' = FALSE /\ Goto(t, "start") /\ UNCHANGED lock
     \/ ~Grows /\ Exit(t) /\ UNCHANGED <<cells, seq_no_, rehashLock>>
  /\ UNCHANGED <<build, op, searchVars, historyVars>>

(* Faulty: an update does not switch the old slot off.                      *)
NewVersionKeepingOld(c, p) ==
  [c EXCEPT !.bitmap = @ \cup {p.slot}, !.deleted = @ \ {p.slot}]

(* The second half of insertToSlotAndGC.                                    *)
NewVersion(c, p) ==
  [c EXCEPT !.bitmap = IF p.old = None THEN @ \cup {p.slot}
                       ELSE Toggle(@ \cup {p.slot}, p.old),
            !.deleted = @ \ {p.slot}]

Publish(t) ==
  /\ pc[t] = "publish"
  /\ cells' = [cells EXCEPT ![Address][target[t].cell] = NewVersion(@, target[t])]
  /\ seq_no_' = [seq_no_ EXCEPT ![Address][target[t].cell] = @ + 1]
  /\ Unlock
  /\ Goto(t, "done")
  /\ UNCHANGED <<build, op, searchVars, historyVars>>

Return(t) ==
  /\ pc[t] = "done"
  /\ Goto(t, "idle")
  /\ op' = [op EXCEPT ![t] = NoOp]
  /\ at' = [at EXCEPT ![t] = Nowhere]
  /\ copy' = [copy EXCEPT ![t] = NoCopy]
  /\ insert' = [insert EXCEPT ![t] = None]
  /\ target' = [target EXCEPT ![t] = None]
  /\ got' = [got EXCEPT ![t] = None]
  /\ disturbed' = [disturbed EXCEPT ![t] = FALSE]
  /\ UNCHANGED <<build, bucketVars, writes>>

Calls == [kind : {"put"}, key : Keys, val : Values]
           \cup [kind : {"find", "delete"}, key : Keys, val : {None}]

SearchStep(t) ==
  \/ Start(t) \/ CopyCell(t) \/ Hit(t) \/ NextCell(t) \/ Miss(t)
  \/ ChooseSlot(t) \/ NoSlot(t) \/ CheckVersion(t)
WriteStep(t) ==
  \/ Erase(t) \/ DeleteRetry(t)
  \/ PutLocked(t) \/ PutRehash(t)
  \/ PinnedMoved(t) \/ PinnedLocked(t) \/ TryRehashLock(t) \/ PinnedRehash(t)
  \/ Publish(t)

Step(t) ==
  \/ \E o \in Calls : Begin(t, o)
  \/ SearchStep(t) \/ WriteStep(t)
  \/ Return(t)

(* In the cells that are current the slot reserved for updates stays free,  *)
(* only used slots are marked erased, and a full cell remains full.         *)
KeepsFull ==
  /\ (\A c \in DOMAIN cells[Address] : CellSound(cells[Address][c]))'
  /\ Address' = Address =>
       \A c \in DOMAIN cells[Address] : Full(cells[Address][c]) => Full(cells'[Address][c])

Next ==
  /\ \E t \in Threads : Step(t)
  /\ intact' = (intact /\ KeepsFull)
  /\ within' = (within /\ (Address' # Address => ~Overruns(cells[Address])))

Spec == Init /\ [][Next]_vars

-----------------------------------------------------------------------------
(* Properties                                                               *)

Calling == {"put", "find", "delete"}
TypeOK ==
  /\ build \in Builds
  /\ \A a \in DOMAIN cells : cells[a] \in Bucket(CellCount(a)) /\ CellCount(a) <= build.CellCountLimit
  /\ \A a \in DOMAIN cells : seq_no_[a] \in [DOMAIN cells[a] -> 0..MaxWrites]
  /\ lock \in Threads \cup {None}
  /\ rehashLock \in BOOLEAN
  /\ pc \in [Threads -> {"idle", "start", "copy", "compare", "check", "lock", "rehash",
                         "rehashing", "publish", "done", "exit"}]
  /\ op \in [Threads -> Calls \cup {NoOp}]
  /\ at \in [Threads -> [addr : 0..Address, dist : 0..(MaxProbeLen - 1)]]
  /\ copy \in [Threads -> [bitmap : SUBSET Slots, deleted : SUBSET Slots, seq_no_ : 0..MaxWrites]]
  /\ insert \in [Threads -> [cell : Nat, slot : Slots, old : {None}] \cup {None}]
  /\ target \in [Threads -> [cell : Nat, slot : Slots, old : Slots \cup {None}] \cup {None}]
  /\ got \in [Threads -> Values \cup {Absent, None}]
  /\ disturbed \in [Threads -> BOOLEAN]
  /\ writes \in 0..MaxWrites
  /\ intact \in BOOLEAN
  /\ within \in BOOLEAN

Valid(b, p) == p[2] \in ValidBitSet(b[p[1]])
Holding(b, k) == {p \in Positions(b) : Valid(b, p) /\ Content(b, p).key = k}
MapIn(b) ==
  [k \in Keys |-> IF Holding(b, k) = {} THEN Absent
                  ELSE Content(b, CHOOSE p \in Holding(b, k) : TRUE).val]
MapOf == MapIn(cells[Address])

(* In the default build, with one writer for each key, the reserved slot of *)
(* a cell is never used up: the search of a Delete ran without the lock,    *)
(* and what it chose is used in the lock.  With pinned keys it can be, and  *)
(* as a cell without a free slot is taken for the end of the probe path,    *)
(* the promises below end there.  They also end when a rehash has put a     *)
(* record where no search looks (turbo_hash.h:1722, see TurboBucket).       *)
BackupSlotLeft == ~build.pinned /\ within => intact

(* With one writer for each key no key is ever in two valid slots, as long  *)
(* as the cells are intact and the records within reach: no rehash, reused  *)
(* slot or late update brings a second one.                                 *)
OneSlotPerKey ==
  intact /\ within => \A k \in Keys : \A p, q \in Holding(cells[Address], k) : p = q

(* A record that can be found is never overwritten where it lies: a slot    *)
(* that was chosen before the lock was taken may be somebody's by then.     *)
NeverOverwrites ==
  [][ \A p \in Positions(cells[Address]) :
        Valid(cells[Address], p) =>
          Content(cells'[Address], p) = Content(cells[Address], p) ]_vars

(* A Put and a Delete that return have done what they say, at the step that *)
(* makes it visible, and in the bucket that is current: Put has left its    *)
(* value in the table, and Delete that returns true has removed a key that  *)
(* was there.  With one writer for each key, intact and within.             *)
CallsTakeEffect ==
  [][ intact' /\ within' =>
        \A t \in Threads : pc[t] # "done" /\ pc'[t] = "done" =>
          /\ op[t].kind = "put" => MapOf'[op[t].key] = op[t].val
          /\ op[t].kind = "delete" /\ got'[t] # Absent =>
               MapOf[op[t].key] # Absent /\ MapOf'[op[t].key] = Absent ]_vars

(* Nothing else changes the map: no rehash, and no Put or Delete of         *)
(* another key, brings a record back or loses one.  With one writer for     *)
(* each key, intact and within.                                             *)
OthersUntouched ==
  [][ intact' /\ within' =>
        \A k \in Keys : MapOf'[k] # MapOf[k] =>
          \E t \in Threads : op[t].key = k /\ pc[t] # "done" /\ pc'[t] = "done" ]_vars

(* A call that no other thread writes its key in finds what is in the map,  *)
(* whatever happens to the other keys and to the bucket meanwhile, intact   *)
(* and within.                                                              *)
UndisturbedIsRight ==
  intact /\ within =>
    \A t \in Threads :
      pc[t] = "done" /\ ~disturbed[t] =>
        /\ got[t] = Absent => MapOf[op[t].key] = Absent
        /\ op[t].kind = "find" /\ got[t] # Absent => got[t] = MapOf[op[t].key]
=============================================================================
