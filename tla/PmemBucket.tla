----------------------------- MODULE PmemBucket -----------------------------
(***************************************************************************)
(* One bucket of the persistent tables (turbo_hash_pmem.h and              *)
(* turbo_hash_pmem_pmdk.h) and crashes: the cells, the BucketMetaPmem that *)
(* says which cells are the bucket's after a restart, and the              *)
(* BucketMetaDram that says so until then.                                 *)
(*                                                                         *)
(* Persistent memory is seen through the caches.  vol and meta are what    *)
(* the program reads and writes; pmCells and pmMeta are what a crash       *)
(* leaves.  A cache line is written back when it is flushed, and may be at *)
(* any other moment.  The writer is the holder of the bucket lock, and a   *)
(* bucket is a single cell here: TurboBucket says in which cell and slot a *)
(* record goes.                                                            *)
(*                                                                         *)
(* A slot holds its value (flat records) or points to a record in          *)
(* persistent memory, which lies in one or more cache lines.               *)
(*                                                                         *)
(* Not every line that the program writes is flushed by it: not the second *)
(* one of a BucketMetaPmem or of a record, and with PMDK neither record    *)
(* nor slot.  Which lines there are depends on the layout of the table.    *)
(***************************************************************************)
EXTENDS TurboCell

CONSTANTS
  Data,          \* the values that callers put
  Records,       \* pieces of memory the record allocator hands out
  Layouts,       \* of a table: the lines of a record, 0 when it is flat; the
                 \* pointers of a BucketMetaPmem, 24 bytes long, that lie in the
                 \* line after that of its first byte; and whether
                 \* SlotRecord::Store flushes the record and the slot
  Buckets,       \* pieces of memory the cell allocator hands out
  MaxShift,      \* the logarithm of kCellCountLimit
  InitShift,     \* that of the cell count given to Initialize
  FirstLine,     \* the slots of a cell that share a line with its version word
  Absent,
  Null           \* no bucket, no update

ASSUME LineAssumption == FirstLine \subseteq Slots
ASSUME LayoutsAssumption ==
  Layouts \subseteq [lines : Nat, second : SUBSET {1, 2}, flushes : BOOLEAN]
ASSUME ShiftAssumption ==
  InitShift \in Nat /\ MaxShift \in Nat /\ InitShift <= MaxShift
ASSUME SlotValuesAssumption ==   \* what TurboCell takes for the values
  Values = Data \cup Records /\ Data \cap Records = {} /\ Zeroed \notin Values
ASSUME ZeroedKeyAssumption == Zeroed.key \notin Keys   \* a cleared slot matches no key
ASSUME BucketsAssumption == Buckets # {}
ASSUME NullAssumption == Null \notin Buckets \cup Slots \cup [key : Keys, val : Data \cup {Absent}]
ASSUME AbsentAssumption == Absent \notin Values

VARIABLES
  lines, second, flushes,   \* the layout of this table
  heap,      \* the lines of every record, as the program sees them
  pmHeap,    \* and as a crash leaves them
  freeRecs,
  retiredRecs,
  vol,       \* the cell of every piece of memory, as the program sees it
  pmCells,   \* and as a crash leaves it
  meta,      \* the BucketMetaPmem, likewise
  pmMeta,
  dram,      \* the BucketMetaDram
  cellShift, \* the logarithm of the cells in every piece of memory
  free,      \* what can be allocated
  retired,   \* unlinked buckets the epochs still protect
  pc,
  upd,       \* the update under way
  target,    \* the slot it writes
  old,       \* the slot or the bucket that is replaced
  lost       \* history: whether a crash has lost the pointer to the bucket or a
             \* value with a line that nobody flushes

layVars == <<lines, second, flushes>>
recVars == <<layVars, lost, heap, pmHeap, freeRecs, retiredRecs>>
memVars == <<vol, pmCells, meta, pmMeta>>
allocVars == <<cellShift, free, retired>>
opVars == <<upd, target, old>>
vars == <<recVars, memVars, dram, allocVars, pc, opVars>>

Goto(to) == pc' = to

(* BucketMetaPmem::Extract                                                  *)
Extract(m) == [addr |-> m.ptr[m.cur_ver_], shift |-> m.shift[m.cur_ver_]]

(* EncodeToRecord2, and the value of a slot that DecodeInRecord2 returns.   *)
(* What is not one record is Zeroed: any string that is not the value.      *)
Encoded(d) == [l \in 1..lines |-> d]
Decoded(v, mem) ==
  IF lines = 0 THEN v
  ELSE IF \E d \in Data : mem[v] = Encoded(d)
       THEN CHOOSE d \in Data : mem[v] = Encoded(d)
       ELSE Zeroed

(* The state that Initialize leaves: every line of it flushed.              *)
Init ==
  /\ \E y \in Layouts : lines = y.lines /\ second = y.second /\ flushes = y.flushes
  /\ heap = [r \in Records |-> Encoded(Zeroed)]
  /\ pmHeap = heap
  /\ freeRecs = Records
  /\ retiredRecs = {}
  /\ vol = [b \in Buckets |-> EmptyCell]
  /\ pmCells = vol
  /\ \E b \in Buckets :
       /\ meta = [cur_ver_ |-> 1, ptr |-> <<b, Null>>, shift |-> <<InitShift, 0>>]
       /\ free = Buckets \ {b}
  /\ pmMeta = meta
  /\ dram = Extract(meta)
  /\ cellShift = [b \in Buckets |-> InitShift]
  /\ retired = {}
  /\ pc = "idle"
  /\ upd = Null
  /\ target = Null
  /\ old = Null
  /\ lost = {}

cell == vol[dram.addr]

-----------------------------------------------------------------------------
(* Write-back of cache lines                                                *)

(* The line of the version word: the bitmaps and a few slots.               *)
HeadBack(p, v) ==
  [bitmap |-> v.bitmap, deleted |-> v.deleted,
   slot |-> [i \in Slots |-> IF i \in FirstLine THEN v.slot[i] ELSE p.slot[i]]]

RecordBack(r, l) == [pmHeap EXCEPT ![r][l] = heap[r][l]]

SlotBack(p, v, i) == [p EXCEPT !.slot[i] = v.slot[i]]

(* The line of a slot.                                                      *)
LineBack(p, v, i) == IF i \in FirstLine THEN HeadBack(p, v) ELSE SlotBack(p, v, i)

(* The line of the first byte of the BucketMetaPmem, and the next one.      *)
MetaBack(p, m) ==
  [cur_ver_ |-> m.cur_ver_, shift |-> m.shift,
   ptr |-> [i \in {1, 2} |-> IF i \in second THEN p.ptr[i] ELSE m.ptr[i]]]
SecondBack(p, m) ==
  [p EXCEPT !.ptr = [i \in {1, 2} |-> IF i \in second THEN m.ptr[i] ELSE p.ptr[i]]]

Evict ==
  /\ \/ /\ \E r \in Records \ freeRecs, l \in 1..lines : pmHeap' = RecordBack(r, l)
        /\ UNCHANGED <<pmCells, pmMeta>>
     \/ \E b \in Buckets \ free :
          /\ \/ pmCells' = [pmCells EXCEPT ![b] = HeadBack(@, vol[b])]
             \/ \E i \in Slots : pmCells' = [pmCells EXCEPT ![b] = LineBack(@, vol[b], i)]
          /\ UNCHANGED <<pmHeap, pmMeta>>
     \/ /\ pmMeta' \in {MetaBack(pmMeta, meta), SecondBack(pmMeta, meta)}
        /\ UNCHANGED <<pmHeap, pmCells>>
  /\ UNCHANGED <<layVars, lost, heap, freeRecs, retiredRecs, vol, meta, dram, allocVars, pc, opVars>>

-----------------------------------------------------------------------------
(* Put and Delete, from the search on                                       *)

(* An update goes to a free slot beside the old one, a new record to an     *)
(* erased slot or to one of two or more free ones.                          *)
PutSlot(k, i, o) ==
  \/ /\ Lowest(o, MatchBitSet(cell, k))
     /\ Lowest(i, BackupBitSet(cell))
  \/ /\ MatchBitSet(cell, k) = {} /\ o = Null
     /\ \/ Lowest(i, EraseBitSet(cell))
        \/ EraseBitSet(cell) = {} /\ ~Full(cell) /\ Lowest(i, BackupBitSet(cell))

(* SlotRecord::Store: the value itself, or a new record and its address.    *)
StoreSlot(k, d, v) ==
  /\ pc = "idle"
  /\ \/ lines = 0 /\ v = d /\ UNCHANGED <<heap, freeRecs>>
     \/ /\ lines > 0 /\ v \in freeRecs
        /\ heap' = [heap EXCEPT ![v] = Encoded(d)]
        /\ freeRecs' = freeRecs \ {v}
  /\ \E i \in Slots, o \in Slots \cup {Null} :
       /\ PutSlot(k, i, o)
       /\ target' = i
       /\ old' = o
       /\ vol' = [vol EXCEPT ![dram.addr].slot[i] = [key |-> k, val |-> v]]
  /\ upd' = [key |-> k, val |-> d]
  /\ Goto(IF ~flushes THEN "bits" ELSE IF lines > 0 THEN "record" ELSE "store")
  /\ UNCHANGED <<layVars, lost, pmHeap, retiredRecs, pmCells, meta, pmMeta, dram, allocVars>>

(* Faulty: flushes the slot only.                                           *)
NoFlushRecord ==
  /\ pc = "record"
  /\ Goto("store")
  /\ UNCHANGED <<recVars, memVars, dram, allocVars, opVars>>

(* FLUSH (addr): the first line, however many there are.                    *)
FlushRecord ==
  /\ pc = "record"
  /\ pmHeap' = RecordBack(cell.slot[target].val, 1)
  /\ Goto("store")
  /\ UNCHANGED <<layVars, lost, heap, freeRecs, retiredRecs, memVars, dram, allocVars, opVars>>

FlushSlot ==
  /\ pc = "store"
  /\ pmCells' = [pmCells EXCEPT ![dram.addr] = LineBack(@, vol[dram.addr], target)]
  /\ Goto("bits")
  /\ UNCHANGED <<recVars, vol, meta, pmMeta, dram, allocVars, opVars>>

(* The record that a slot points to goes to the epochs.                     *)
Retires(i) ==
  retiredRecs' = IF lines = 0 \/ i = Null THEN retiredRecs
                 ELSE retiredRecs \cup {cell.slot[i].val}

(* The bitmaps change in one store of the version word.                     *)
StoreVersion ==
  /\ pc = "bits"
  /\ Retires(old)
  /\ vol' = [vol EXCEPT
               ![dram.addr].bitmap =
                  IF old = Null THEN @ \cup {target} ELSE Toggle(@ \cup {target}, old),
               ![dram.addr].deleted = @ \ {target}]
  /\ Goto("head")
  /\ UNCHANGED <<layVars, lost, heap, pmHeap, freeRecs, pmCells, meta, pmMeta, dram, allocVars, opVars>>

Delete(k) ==
  /\ pc = "idle"
  /\ \E i \in Slots :
       /\ Lowest(i, MatchBitSet(cell, k))
       /\ Retires(i)
       /\ vol' = [vol EXCEPT ![dram.addr].deleted = @ \cup {i}]
  /\ upd' = [key |-> k, val |-> Absent]
  /\ Goto("head")
  /\ UNCHANGED <<layVars, lost, heap, pmHeap, freeRecs, pmCells, meta, pmMeta, dram, allocVars, target, old>>

(* FLUSH (cell_addr), and the operation returns.                            *)
FlushHead ==
  /\ pc = "head"
  /\ pmCells' = [pmCells EXCEPT ![dram.addr] = HeadBack(@, vol[dram.addr])]
  /\ upd' = Null /\ target' = Null /\ old' = Null
  /\ Goto("idle")
  /\ UNCHANGED <<recVars, vol, meta, pmMeta, dram, allocVars>>

ValueIn(c, mem, k) ==
  IF MatchBitSet(c, k) = {} THEN Absent
  ELSE Decoded(c.slot[CHOOSE i \in MatchBitSet(c, k) : TRUE].val, mem)

(* What Find returns.  It takes no lock and changes nothing; the value is   *)
(* read in one step here.                                                   *)
Find(k) == ValueIn(cell, heap, k)

-----------------------------------------------------------------------------
(* MinorRehash                                                              *)

(* The records of a bucket, each in some slot of the new one.               *)
Moved(c, f) ==
  [bitmap |-> {f[i] : i \in ValidBitSet(c)},
   deleted |-> {},
   slot |-> [j \in Slots |->
               IF \E i \in ValidBitSet(c) : f[i] = j
               THEN c.slot[CHOOSE i \in ValidBitSet(c) : f[i] = j]
               ELSE Zeroed]]

Places(c) ==
  {f \in [ValidBitSet(c) -> Slots] :
     \A i, j \in ValidBitSet(c) : f[i] = f[j] => i = j}

(* Allocate, fill in DRAM, memmove; twice the cells, or as many for GCAll.  *)
FillBucket(b, s, f) ==
  /\ pc = "idle"
  /\ b \in free /\ free' = free \ {b}
  /\ s \in {dram.shift, dram.shift + 1} /\ s <= MaxShift
  /\ cellShift' = [cellShift EXCEPT ![b] = s]
  /\ f \in Places(cell)
  /\ vol' = [vol EXCEPT ![b] = Moved(cell, f)]
  /\ old' = b
  /\ Goto("filled")
  /\ UNCHANGED <<recVars, pmCells, meta, pmMeta, dram, retired, upd, target>>

(* Faulty: flushes the first line only.                                     *)
FlushBucketHead ==
  /\ pc = "filled"
  /\ pmCells' = [pmCells EXCEPT ![old] = HeadBack(@, vol[old])]
  /\ Goto("reset")
  /\ UNCHANGED <<recVars, vol, meta, pmMeta, dram, allocVars, opVars>>

(* TURBO_PMEM_CLFLUSH over the whole bucket.                                *)
FlushBucket ==
  /\ pc = "filled"
  /\ pmCells' = [pmCells EXCEPT ![old] = vol[old]]
  /\ Goto("reset")
  /\ UNCHANGED <<recVars, vol, meta, pmMeta, dram, allocVars, opVars>>

(* BucketMetaDram::Reset: from here on readers go to the new bucket.        *)
ResetDram ==
  /\ pc = "reset"
  /\ dram' = [addr |-> old, shift |-> cellShift[old]]
  /\ old' = dram.addr
  /\ Goto("commit")
  /\ UNCHANGED <<recVars, memVars, allocVars, upd, target>>

(* Faulty: overwrites the current fields.                                   *)
StoreFieldsInPlace ==
  /\ pc = "commit"
  /\ meta' = [meta EXCEPT !.ptr[meta.cur_ver_] = dram.addr,
                          !.shift[meta.cur_ver_] = dram.shift]
  /\ Goto("fields")
  /\ UNCHANGED <<recVars, vol, pmCells, pmMeta, dram, allocVars, opVars>>

(* BucketMetaPmem::Store: the fields that are not current, and their flush. *)
StoreFields ==
  /\ pc = "commit"
  /\ meta' = [meta EXCEPT !.ptr[3 - meta.cur_ver_] = dram.addr,
                          !.shift[3 - meta.cur_ver_] = dram.shift]
  /\ Goto("fields")
  /\ UNCHANGED <<recVars, vol, pmCells, pmMeta, dram, allocVars, opVars>>

(* FLUSH (this) is one clwb, of the line of the first byte.                 *)
FlushFields ==
  /\ pc = "fields"
  /\ pmMeta' = MetaBack(pmMeta, meta)
  /\ Goto("switch")
  /\ UNCHANGED <<recVars, vol, pmCells, meta, dram, allocVars, opVars>>

(* Faulty: counts on instead of alternating.                                *)
SwitchByIncrement ==
  /\ pc = "switch"
  /\ meta' = [meta EXCEPT !.cur_ver_ = @ + 1]
  /\ Goto("switched")
  /\ UNCHANGED <<recVars, vol, pmCells, pmMeta, dram, allocVars, opVars>>

SwitchVersion ==
  /\ pc = "switch"
  /\ meta' = [meta EXCEPT !.cur_ver_ = 3 - @]
  /\ Goto("switched")
  /\ UNCHANGED <<recVars, vol, pmCells, pmMeta, dram, allocVars, opVars>>

FlushSwitch ==
  /\ pc = "switched"
  /\ pmMeta' = MetaBack(pmMeta, meta)
  /\ Goto("retire")
  /\ UNCHANGED <<recVars, vol, pmCells, meta, dram, allocVars, opVars>>

RetireBucket ==
  /\ pc = "retire"
  /\ retired' = retired \cup {old}
  /\ old' = Null
  /\ Goto("idle")
  /\ UNCHANGED <<recVars, memVars, dram, cellShift, free, upd, target>>

(* What is in free memory counts no more: FillBucket overwrites all of it.  *)
Forget(mem, S) == [b \in Buckets |-> IF b \in S THEN EmptyCell ELSE mem[b]]
ForgetRecords(mem, S) == [r \in Records |-> IF r \in S THEN Encoded(Zeroed) ELSE mem[r]]

(* The callbacks of the epochs, see TurboEpoche.  A call that retires a     *)
(* record is in its epoch until it returns.                                 *)
ReleaseRecord(r) ==
  /\ pc = "idle"
  /\ r \in retiredRecs
  /\ retiredRecs' = retiredRecs \ {r}
  /\ freeRecs' = freeRecs \cup {r}
  /\ heap' = ForgetRecords(heap, {r})
  /\ pmHeap' = ForgetRecords(pmHeap, {r})
  /\ UNCHANGED <<layVars, lost, memVars, dram, allocVars, pc, opVars>>

Release(b) ==
  /\ pc # "down"
  /\ b \in retired
  /\ retired' = retired \ {b}
  /\ free' = free \cup {b}
  /\ vol' = Forget(vol, {b})
  /\ pmCells' = Forget(pmCells, {b})
  /\ UNCHANGED <<recVars, meta, pmMeta, dram, cellShift, pc, opVars>>

-----------------------------------------------------------------------------
(* A crash, at any moment, and Recover                                      *)

(* What it leaves, and what it would leave if the lines that no flush       *)
(* covers were written back.                                                *)
Durable == Extract(pmMeta)

WholeMeta == SecondBack(pmMeta, meta)
WholeCell(b) == IF flushes THEN pmCells[b] ELSE [pmCells[b] EXCEPT !.slot = vol[b].slot]
WholeHeap ==
  [r \in Records |->
     [l \in 1..lines |-> IF flushes /\ l = 1 THEN pmHeap[r][l] ELSE heap[r][l]]]

(* Whether those lines that a restart needs are there by chance.            *)
Reached == Durable = Extract(WholeMeta)
ValuesThere ==
  LET b == Extract(WholeMeta).addr
      c == WholeCell(b) IN
  \A i \in ValidBitSet(c) :
    /\ pmCells[b].slot[i] = c.slot[i]
    /\ lines > 0 => pmHeap[c.slot[i].val] = WholeHeap[c.slot[i].val]

Crash ==
  /\ pc # "down"
  /\ vol' = pmCells
  /\ heap' = pmHeap
  /\ meta' = pmMeta
  /\ retired' = {}
  /\ retiredRecs' = {}
  /\ upd' = Null /\ target' = Null /\ old' = Null
  /\ lost' = lost \cup (IF Reached THEN {} ELSE {"bucket"})
                   \cup (IF lost # {} \/ ValuesThere THEN {} ELSE {"value"})
  /\ Goto("down")
  /\ UNCHANGED <<layVars, pmHeap, freeRecs, pmCells, pmMeta, dram, cellShift, free>>

(* The records that a cell's valid slots point to.                          *)
RecordsOf(c) == {c.slot[i].val : i \in ValidBitSet(c)}

(* RP_recover collects what the root does not reach; with PMDK it would     *)
(* stay allocated for good.  Without a bucket the program ends.             *)
Recover ==
  /\ pc = "down"
  /\ Extract(meta).addr # Null
  /\ dram' = Extract(meta)
  /\ free' = Buckets \ {Extract(meta).addr}
  /\ vol' = Forget(vol, free')
  /\ pmCells' = Forget(pmCells, free')
  /\ freeRecs' = Records \ RecordsOf(vol[Extract(meta).addr])
  /\ heap' = ForgetRecords(heap, freeRecs')
  /\ pmHeap' = ForgetRecords(pmHeap, freeRecs')
  /\ Goto("idle")
  /\ UNCHANGED <<layVars, lost, meta, pmMeta, cellShift, retired, retiredRecs, opVars>>

Rehash ==
  \/ \E b \in Buckets, s \in InitShift..MaxShift, f \in Places(cell) : FillBucket(b, s, f)
  \/ FlushBucket \/ ResetDram
  \/ StoreFields \/ FlushFields \/ SwitchVersion \/ FlushSwitch
  \/ RetireBucket

Next ==
  \/ \E k \in Keys :
       \/ \E d \in Data, v \in Values : StoreSlot(k, d, v)
       \/ Delete(k)
  \/ FlushRecord \/ FlushSlot \/ StoreVersion \/ FlushHead
  \/ Rehash
  \/ \E r \in Records : ReleaseRecord(r)
  \/ \E b \in Buckets : Release(b)
  \/ Evict
  \/ Crash
  \/ Recover

Spec == Init /\ [][Next]_vars

-----------------------------------------------------------------------------
(* Properties                                                               *)

Meta == [cur_ver_ : {1, 2}, ptr : [{1, 2} -> Buckets \cup {Null}],
         shift : [{1, 2} -> 0..MaxShift]]

TypeOK ==
  /\ [lines |-> lines, second |-> second, flushes |-> flushes] \in Layouts
  /\ heap \in [Records -> [1..lines -> Data \cup {Zeroed}]]
  /\ pmHeap \in [Records -> [1..lines -> Data \cup {Zeroed}]]
  /\ freeRecs \subseteq Records
  /\ retiredRecs \subseteq Records
  /\ vol \in [Buckets -> Cell]
  /\ pmCells \in [Buckets -> Cell]
  /\ meta \in Meta
  /\ pmMeta \in Meta
  /\ dram \in [addr : Buckets \cup {Null}, shift : 0..MaxShift]
  /\ cellShift \in [Buckets -> 0..MaxShift]
  /\ free \subseteq Buckets
  /\ retired \subseteq Buckets
  /\ pc \in {"idle", "record", "store", "bits", "head", "filled", "reset", "commit", "fields",
             "switch", "switched", "retire", "down"}
  /\ upd \in [key : Keys, val : Data \cup {Absent}] \cup {Null}
  /\ target \in Slots \cup {Null}
  /\ old \in Slots \cup Buckets \cup {Null}
  /\ lost \subseteq {"bucket", "value"}

(* A crash at any moment of a rehash leaves a BucketMetaPmem that names a   *)
(* bucket with its own cell count, and one that was not given back to the   *)
(* allocator: "As long as this is not finished, if crash happens, turbo     *)
(* hash will reboot from the last state".  Outside of a rehash it is the    *)
(* bucket in use.                                                           *)
RebootsFromLastState ==
  /\ Durable.addr \in Buckets \ (free \cup retired)
  /\ Durable.shift = cellShift[Durable.addr]
  /\ pc \in {"idle", "record", "store", "bits", "head", "retire"} => Durable = dram

(* It does so in every layout, as long as the pointer to the bucket, when   *)
(* it lies in the line that Store does not flush, happens to be there.      *)
RecoversBucket == "bucket" \notin lost /\ Reached => RebootsFromLastState

(* What Put and Delete have returned for is in persistent memory, as far as *)
(* somebody flushes it: which slots hold a record, and, when Store flushes, *)
(* the slots and the first lines of the records.                            *)
ReturnedIsDurable ==
  lost = {} /\ Reached /\ pc = "idle" =>
    LET found == pmCells[Durable.addr] IN
    /\ ValidBitSet(found) = ValidBitSet(cell)
    /\ flushes => \A i \in ValidBitSet(cell) :
         /\ found.slot[i] = cell.slot[i]
         /\ lines > 0 => pmHeap[found.slot[i].val][1] = heap[cell.slot[i].val][1]

(* The table implements the durable map until a crash meets a line that     *)
(* nobody flushed and that had not been written back.                       *)
Found == [k \in Keys |-> ValueIn(WholeCell(Extract(WholeMeta).addr), WholeHeap, k)]
Seen == IF pc = "down" THEN Found ELSE [k \in Keys |-> Find(k)]

DM == INSTANCE DurableMap WITH
        map <- Found,
        seen <- Seen,
        pend <- upd,
        Values <- Data,
        Nobody <- Null

ImplementsDurableMap ==
  /\ DM!Init
  /\ [][lost' = {} => DM!Next]_<<Found, Seen, upd>>
=============================================================================
