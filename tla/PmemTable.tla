----------------------------- MODULE PmemTable -----------------------------
(***************************************************************************)
(* The construction of a persistent table, and what a restart finds of it: *)
(* Initialize and Recover of turbo_hash_pmem.h, which uses Ralloc, and of  *)
(* turbo_hash_pmem_pmdk.h, which uses libpmemobj.  Either may be called    *)
(* whenever the pool is closed, and a crash can come at any moment.        *)
(*                                                                         *)
(* The root names an array of BucketMetaPmem, an entry for each bucket.    *)
(* Init of an entry writes back one cache line, and an entry may lie in    *)
(* two: the layout is that of the code, byte for byte, and an array may    *)
(* begin anywhere in a line, for no line of the code aligns it.  As in     *)
(* PmemBucket a line may also be written back at any other moment.         *)
(***************************************************************************)
EXTENDS Integers

CONSTANTS
  Libs,      \* of {"ralloc", "pmdk"}
  Counts,    \* bucket counts that programs ask for
  Bases,     \* the addresses, modulo LineSize, that arrays may have
  MaxTables  \* calls of Initialize, bounded

LineSize == 64   \* TURBO_PMEM_CACHE_LINE_SIZE
EntrySize == 24  \* sizeof (BucketMetaPmem)
PtrOffset == 8   \* of bucket1_ptr_; cur_ver_ and the cell count are before it

ASSUME LibsAssumption == Libs \subseteq {"ralloc", "pmdk"}
ASSUME CountsAssumption == Counts \subseteq Nat \ {0}
ASSUME BasesAssumption == Bases \subseteq 0..(LineSize - 1)
ASSUME MaxTablesAssumption == MaxTables \in Nat \ {0}

VARIABLES
  lib,
  count,     \* the bucket_count every call is given
  bases,     \* where in a line the array of each table begins
  rootObj,   \* the root object the pool names, 0 when there is no pool
  roots,     \* the TurboRoots, as the program sees them
  pmRoots,   \* and as a crash leaves them
  tables,    \* arrays of entries so far; the last one is buckets_pmem_
  stored,    \* the parts of entries and cells that are stored
  durable,   \* and those that a crash leaves
  pc,
  i,         \* the bucket the loop is at
  opened,    \* buckets_pmem_ of the running program
  returned,  \* history: the last table whose Initialize returned
  raw        \* history: the root objects that no Initialize has filled and flushed

given == <<lib, count, bases>>
rootVars == <<roots, pmRoots, raw>>
entryVars == <<stored, durable>>
vars == <<lib, count, bases, rootObj, roots, pmRoots, tables, stored, durable, pc, i, opened, returned, raw>>

Objects == 1..MaxTables
Zero == [bucket_count_ |-> 0, buckets_pmem_ |-> 0]
Root == [bucket_count_ : {0, count}, buckets_pmem_ : 0..tables]

Init ==
  /\ lib \in Libs
  /\ count \in Counts
  /\ bases \in [Objects -> Bases]
  /\ rootObj = 0
  /\ roots = [o \in Objects |-> Zero]
  /\ pmRoots = roots
  /\ tables = 0
  /\ stored = {}
  /\ durable = {}
  /\ pc = "closed"
  /\ i = 0
  /\ opened = 0
  /\ returned = 0
  /\ raw = {}

Goto(to) == pc' = to

(* The fields of an entry and the cells it points to.                       *)
Part(b, what) == [table |-> tables, bucket |-> b, what |-> what]

LineOf(t, b, offset) == (bases[t] + EntrySize * b + offset) \div LineSize
Line(p) == LineOf(p.table, p.bucket, IF p.what = "ptr" THEN PtrOffset ELSE 0)

WriteBack(t, l) ==
  durable' = durable \cup {p \in stored : p.table = t /\ p.what # "cells" /\ Line(p) = l}

Evict ==
  /\ \/ /\ \E p \in stored \ durable : WriteBack(p.table, Line(p))
        /\ UNCHANGED pmRoots
     \/ /\ \E o \in Objects : pmRoots' = [pmRoots EXCEPT ![o] = roots[o]]
        /\ UNCHANGED durable
  /\ UNCHANGED <<given, rootObj, roots, tables, stored, pc, i, opened, returned, raw>>

-----------------------------------------------------------------------------
(* Initialize                                                               *)

(* PMDK keeps one root object for the life of the pool, zeroed when it is   *)
(* made.  Ralloc's table takes a block from RP_malloc on every call and     *)
(* makes it the root as it is, with whatever the block held before.         *)
OpenPool ==
  /\ pc = "closed" /\ tables < MaxTables
  /\ \/ /\ lib = "pmdk"
        /\ rootObj' = 1
        /\ UNCHANGED rootVars
     \/ /\ lib = "ralloc"
        /\ rootObj' = tables + 1
        /\ \E image \in Root : roots' = [roots EXCEPT ![tables + 1] = image]
        /\ \E image \in Root : pmRoots' = [pmRoots EXCEPT ![tables + 1] = image]
        /\ raw' = raw \cup {tables + 1}
  /\ Goto("check")
  /\ UNCHANGED <<given, tables, entryVars, i, opened, returned>>

(* isPowerOfTwo                                                             *)
PowerOfTwo(n) == \E e \in 0..n : n = 2^e

(* The process ends when the setting is wrong, and the root stays set.      *)
CheckSetting ==
  /\ pc = "check"
  /\ \/ PowerOfTwo(count) /\ tables' = tables + 1 /\ i' = 0 /\ Goto("cells")
     \/ ~PowerOfTwo(count) /\ Goto("wrong") /\ UNCHANGED <<tables, i>>
  /\ UNCHANGED <<given, rootObj, rootVars, entryVars, opened, returned>>

(* The cells are allocated, zeroed and flushed.                             *)
ZeroCells ==
  /\ pc = "cells"
  /\ stored' = stored \cup {Part(i, "cells")}
  /\ durable' = durable \cup {Part(i, "cells")}
  /\ Goto("entry")
  /\ UNCHANGED <<given, rootObj, rootVars, tables, i, opened, returned>>

InitEntry ==
  /\ pc = "entry"
  /\ stored' = stored \cup {Part(i, "ver"), Part(i, "ptr")}
  /\ Goto("flush")
  /\ UNCHANGED <<given, rootObj, rootVars, tables, durable, i, opened, returned>>

(* Faulty: goes one bucket too far.                                         *)
NextBucketBeyond ==
  IF i + 1 <= count THEN i' = i + 1 /\ Goto("cells") ELSE i' = 0 /\ Goto("count")

NextBucket ==
  IF i + 1 < count THEN i' = i + 1 /\ Goto("cells") ELSE i' = 0 /\ Goto("count")

(* Faulty: flushes the line of the next entry.                              *)
FlushNextEntry ==
  /\ pc = "flush"
  /\ WriteBack(tables, LineOf(tables, i + 1, 0))
  /\ NextBucket
  /\ UNCHANGED <<given, rootObj, rootVars, tables, stored, opened, returned>>

(* FLUSH (this)                                                             *)
FlushEntry ==
  /\ pc = "flush"
  /\ WriteBack(tables, LineOf(tables, i, 0))
  /\ NextBucket
  /\ UNCHANGED <<given, rootObj, rootVars, tables, stored, opened, returned>>

(* Faulty: clears the pointer as well.                                      *)
StoreCountClearing ==
  /\ pc = "count"
  /\ roots' = [roots EXCEPT ![rootObj] = [bucket_count_ |-> count, buckets_pmem_ |-> 0]]
  /\ Goto("pointer")
  /\ UNCHANGED <<given, rootObj, pmRoots, raw, tables, entryVars, i, opened, returned>>

StoreCount ==
  /\ pc = "count"
  /\ roots' = [roots EXCEPT ![rootObj].bucket_count_ = count]
  /\ Goto("pointer")
  /\ UNCHANGED <<given, rootObj, pmRoots, raw, tables, entryVars, i, opened, returned>>

StorePointer ==
  /\ pc = "pointer"
  /\ roots' = [roots EXCEPT ![rootObj].buckets_pmem_ = tables]
  /\ Goto("root")
  /\ UNCHANGED <<given, rootObj, pmRoots, raw, tables, entryVars, i, opened, returned>>

Returns ==
  /\ opened' = tables
  /\ returned' = tables
  /\ raw' = raw \ {rootObj}
  /\ Goto("open")

(* Faulty: returns without flushing the root.                               *)
NoFlushRoot ==
  /\ pc = "root"
  /\ Returns
  /\ UNCHANGED <<given, rootObj, roots, pmRoots, tables, entryVars, i>>

FlushRoot ==
  /\ pc = "root"
  /\ pmRoots' = [pmRoots EXCEPT ![rootObj] = roots[rootObj]]
  /\ Returns
  /\ UNCHANGED <<given, rootObj, roots, tables, entryVars, i>>

-----------------------------------------------------------------------------
(* Recover, the end of the program, and a crash                             *)

(* Extract finds every entry when it follows the root r through a memory    *)
(* that holds mem.                                                          *)
Whole(r, mem) ==
  /\ r.bucket_count_ > 0
  /\ \A b \in 0..(r.bucket_count_ - 1), what \in {"ver", "ptr", "cells"} :
       [table |-> r.buckets_pmem_, bucket |-> b, what |-> what] \in mem

(* Without a count, or with an entry that is not whole, the program ends or *)
(* goes on with wild pointers.                                              *)
Recover ==
  /\ pc = "closed" /\ rootObj # 0
  /\ opened' = roots[rootObj].buckets_pmem_
  /\ Goto(IF Whole(roots[rootObj], stored) THEN "open" ELSE "wrong")
  /\ UNCHANGED <<given, rootObj, rootVars, tables, entryVars, i, returned>>

(* With no pool Ralloc's table ends the program, and PMDK's makes an empty  *)
(* pool and goes on with no buckets.                                        *)
RecoverNothing ==
  /\ pc = "closed" /\ rootObj = 0
  /\ rootObj' = IF lib = "pmdk" THEN 1 ELSE 0
  /\ opened' = 0
  /\ Goto("wrong")
  /\ UNCHANGED <<given, rootVars, tables, entryVars, i, returned>>

(* UnRegistPool, RP_close, or exit: what is in the caches stays.            *)
Close ==
  /\ pc \in {"open", "wrong"}
  /\ opened' = 0
  /\ Goto("closed")
  /\ UNCHANGED <<given, rootObj, rootVars, tables, entryVars, i, returned>>

Crash ==
  /\ roots' = pmRoots
  /\ stored' = durable
  /\ opened' = 0
  /\ i' = 0
  /\ Goto("closed")
  /\ UNCHANGED <<given, rootObj, pmRoots, raw, tables, durable, returned>>

Initialize ==
  \/ OpenPool \/ CheckSetting
  \/ ZeroCells \/ InitEntry \/ FlushEntry
  \/ StoreCount \/ StorePointer \/ FlushRoot

Next ==
  \/ Initialize
  \/ Recover \/ RecoverNothing \/ Close
  \/ Evict \/ Crash

Spec == Init /\ [][Next]_vars

-----------------------------------------------------------------------------
(* Properties                                                               *)

Parts == [table : 1..tables, bucket : 0..(count - 1), what : {"ver", "ptr", "cells"}]

TypeOK ==
  /\ lib \in Libs
  /\ count \in Counts
  /\ bases \in [Objects -> Bases]
  /\ rootObj \in {0} \cup Objects
  /\ roots \in [Objects -> Root]
  /\ pmRoots \in [Objects -> Root]
  /\ tables \in 0..MaxTables
  /\ stored \subseteq Parts
  /\ durable \subseteq stored
  /\ pc \in {"closed", "check", "cells", "entry", "flush", "count", "pointer", "root", "open", "wrong"}
  /\ i \in 0..(count - 1)
  /\ opened \in 0..tables
  /\ returned \in 0..tables
  /\ raw \subseteq Objects

(* The pointer in the last entry of table t, when it lies in a line of its  *)
(* own: no Init flushes that line, so it gets to persistent memory by an    *)
(* eviction or not at all.                                                  *)
LastPointer(t) ==
  {p \in {[table |-> t, bucket |-> count - 1, what |-> "ptr"]} :
     Line(p) # LineOf(t, count - 1, 0)}

(* A restart from the root r would find a table, or all of it but that.     *)
Survives(r) ==
  r.buckets_pmem_ # 0 /\ Whole(r, durable \cup LastPointer(r.buckets_pmem_))

(* When Initialize has returned, or Recover from a root that an Initialize  *)
(* filled, the root in persistent memory names the table in use and every   *)
(* entry and cell of it is there, but for that pointer: the flush of one    *)
(* line after each entry is enough for all the entries that lie across two  *)
(* lines except the last.                                                   *)
InitializedIsDurable ==
  pc = "open" /\ rootObj \notin raw =>
    /\ Survives(pmRoots[rootObj])
    /\ pmRoots[rootObj].buckets_pmem_ = opened

(* However the lines reach the memory, a root that an Initialize filled, or *)
(* is filling for the second time, names an array whose entries are there   *)
(* as far as they are ever flushed, with zeroed cells.                      *)
RootNamesWholeTable ==
  \A o \in Objects \ raw : pmRoots[o].buckets_pmem_ # 0 => Survives(pmRoots[o])

(* With PMDK a restart finds such a table from the first Initialize that    *)
(* returned on, also while another one is under way with the same count.    *)
(* (Ralloc's Initialize gives the old root away first.)                     *)
LastTableKept == lib = "pmdk" /\ returned # 0 => Survives(pmRoots[1])

(* A program past Initialize, or past Recover from a root that was filled,  *)
(* uses the table that was returned last or one that was finished after it. *)
OpensLatestTable == pc = "open" /\ rootObj \notin raw => opened >= returned
=============================================================================
