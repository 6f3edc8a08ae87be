-------------------------- MODULE PmemTable_proof --------------------------
(***************************************************************************)
(* Proofs about the construction of a persistent table and its restart,    *)
(* for any number of tables, any bucket counts and any places of the       *)
(* arrays of entries in their first cache lines.                           *)
(***************************************************************************)
EXTENDS PmemTable, TLAPS

Filling == {"cells", "entry", "flush"}
Linking == {"count", "pointer", "root"}

PartOf(t, b, what) == [table |-> t, bucket |-> b, what |-> what]
Whats == {"ver", "ptr", "cells"}

(* All of a table that is ever flushed is in persistent memory.             *)
Built(t) ==
  \A b \in 0..(count - 1), what \in Whats :
    PartOf(t, b, what) \in durable \cup LastPointer(t)

(* What the loop has left behind.  The pointer of an entry across two lines *)
(* waits for the flush of the next entry.                                   *)
EntryDone(b) ==
  /\ PartOf(tables, b, "cells") \in durable
  /\ PartOf(tables, b, "ver") \in durable
  /\ PartOf(tables, b, "ptr") \in stored
  /\ \/ PartOf(tables, b, "ptr") \in durable
     \/ b = i - 1 /\ LineOf(tables, b, PtrOffset) = LineOf(tables, i, 0)

Progress ==
  /\ pc = "check" => tables < MaxTables
  /\ pc \in Filling \cup Linking => tables # 0 /\ rootObj # 0
  /\ pc \in Filling => PowerOfTwo(count) /\ \A b \in 0..(i - 1) : EntryDone(b)
  /\ pc \in {"entry", "flush"} => PartOf(tables, i, "cells") \in durable
  /\ pc = "flush" => PartOf(tables, i, "ver") \in stored /\ PartOf(tables, i, "ptr") \in stored
  /\ pc \in Linking => Built(tables)

NamesWhole(r) == r.buckets_pmem_ # 0 => r.bucket_count_ = count /\ Built(r.buckets_pmem_)

Roots ==
  /\ \A o \in Objects \ raw : NamesWhole(roots[o]) /\ NamesWhole(pmRoots[o])
  /\ pc \notin {"pointer", "root"} => \A o \in Objects \ raw : roots[o] = pmRoots[o]
  /\ \A o \in Objects \ raw : o # rootObj => roots[o] = pmRoots[o]
  /\ pc = "pointer" => roots[rootObj].bucket_count_ = count
  /\ pc = "root" => roots[rootObj] = [bucket_count_ |-> count, buckets_pmem_ |-> tables]

(* Ralloc's table has a root object for each table, PMDK's one for all.     *)
Latest ==
  /\ pc = "check" => rootObj # 0
  /\ rootObj = 0 => returned = 0
  /\ lib = "pmdk" =>
       /\ rootObj \in {0, 1}
       /\ raw = {}
       /\ returned # 0 => roots[1].buckets_pmem_ >= returned /\ pmRoots[1].buckets_pmem_ >= returned
  /\ lib = "ralloc" =>
       /\ rootObj \in {0, tables, tables + 1}
       /\ pc = "check" => rootObj = tables + 1
       /\ pc \in Filling \cup Linking => rootObj = tables
       /\ \A o \in Objects \ raw :
            roots[o].buckets_pmem_ \in {0, o} /\ pmRoots[o].buckets_pmem_ \in {0, o}

Opened ==
  pc = "open" /\ rootObj \notin raw =>
    /\ rootObj # 0
    /\ opened # 0 /\ opened >= returned
    /\ pmRoots[rootObj].buckets_pmem_ = opened

TableInv ==
  /\ TypeOK
  /\ Progress
  /\ Roots
  /\ Latest
  /\ Opened


-----------------------------------------------------------------------------
(* The layout of the entries                                                *)

(* The pointer of an entry is in the line where the entry begins, or in     *)
(* that where the next one does.                                            *)
LEMMA PointerLine ==
  ASSUME TypeOK, NEW t \in Objects, NEW b \in Nat
  PROVE  LineOf(t, b, PtrOffset) \in {LineOf(t, b, 0), LineOf(t, b + 1, 0)}
<1> DEFINE a == bases[t] + 24 * b
<1>1. bases[t] \in Nat /\ a \in Nat
  <2>1. bases[t] \in Bases
    BY DEF TypeOK
  <2>2. bases[t] \in 0..(LineSize - 1)
    BY <2>1, BasesAssumption
  <2> QED
    BY <2>2 DEF LineSize
<1>2. \/ (a + 8) \div 64 = a \div 64
      \/ (a + 8) \div 64 = (a + 24) \div 64
  <2> HIDE DEF a
  <2> QED BY <1>1
<1>3. /\ LineOf(t, b, PtrOffset) = (a + 8) \div 64
      /\ LineOf(t, b, 0) = a \div 64
      /\ LineOf(t, b + 1, 0) = (a + 24) \div 64
  BY <1>1 DEF LineOf, LineSize, EntrySize, PtrOffset
<1> QED
  BY <1>2, <1>3

-----------------------------------------------------------------------------
(* The inductive invariant                                                  *)

LEMMA TableInit == Init => TableInv
<1> SUFFICES ASSUME Init
             PROVE  TableInv
  OBVIOUS
<1>1. count \in Nat /\ count > 0
  BY CountsAssumption DEF Init
<1>2. TypeOK
  BY <1>1, MaxTablesAssumption
  DEF Init, TypeOK, Root, Parts, Objects, Zero
<1>3. Roots
  BY DEF Init, Roots, NamesWhole, Zero
<1>4. Latest
  BY DEF Init, Latest, Zero, Filling, Linking
<1> QED
  BY <1>2, <1>3, <1>4
  DEF Init, TableInv, Progress, Opened, Filling, Linking

(* What is in persistent memory stays there.                                *)
LEMMA BuiltStays ==
  ASSUME durable \subseteq durable', UNCHANGED <<count, bases>>, NEW t, Built(t)
  PROVE  Built(t)'
<1>1. LastPointer(t)' = LastPointer(t)
  BY DEF LastPointer, Line, LineOf
<1> QED
  BY <1>1 DEF Built

LEMMA NamesStay ==
  ASSUME durable \subseteq durable', UNCHANGED <<count, bases>>, NEW r, NamesWhole(r)
  PROVE  NamesWhole(r)'
BY BuiltStays DEF NamesWhole

(* The types depend on the number of tables, which only grows.              *)
LEMMA TypesGrow ==
  ASSUME TypeOK, count' = count, tables' \in {tables, tables + 1}
  PROVE  /\ Root \subseteq Root'
         /\ Parts \subseteq Parts'
         /\ opened \in 0..tables'
         /\ returned \in 0..tables'
         /\ i \in 0..(count' - 1)
         /\ roots \in [Objects -> Root']
         /\ pmRoots \in [Objects -> Root']
<1>1. tables \in Nat /\ returned \in 0..tables'
  BY MaxTablesAssumption DEF TypeOK
<1>2. 0..tables \subseteq 0..tables' /\ 1..tables \subseteq 1..tables'
  BY <1>1
<1>3. Root \subseteq Root'
  BY <1>2 DEF Root
<1>4. Parts \subseteq Parts'
  BY <1>2 DEF Parts
<1>5. opened \in 0..tables'
  BY <1>2 DEF TypeOK
<1>6. i \in 0..(count' - 1)
  BY DEF TypeOK
<1>7. roots \in [Objects -> Root'] /\ pmRoots \in [Objects -> Root']
  BY <1>3 DEF TypeOK
<1> QED
  BY <1>1, <1>3, <1>4, <1>5, <1>6, <1>7

LEMMA OpenPoolStep == TableInv /\ OpenPool => TableInv'
<1> SUFFICES ASSUME TableInv, OpenPool
             PROVE  TableInv'
  OBVIOUS
<1>p. /\ pc = "closed" /\ tables < MaxTables /\ pc' = "check"
      /\ UNCHANGED <<lib, count, bases, tables, stored, durable, i, opened, returned>>
  BY DEF OpenPool, Goto, given, entryVars
<1>n. tables \in Nat /\ 1 \in Objects /\ tables + 1 \in Objects
  BY <1>p, MaxTablesAssumption DEF TableInv, TypeOK, Objects
<1>q. rootObj' \in Objects /\ rootObj' # 0
  BY <1>n DEF OpenPool
<1>r. /\ \A o \in Objects : o \notin raw' => roots'[o] = roots[o] /\ pmRoots'[o] = pmRoots[o]
      /\ roots' \in [Objects -> Root] /\ pmRoots' \in [Objects -> Root]
      /\ raw \subseteq raw' /\ raw' \subseteq Objects
  BY <1>n DEF OpenPool, TableInv, TypeOK, rootVars
<1>1. TypeOK'
  BY <1>p, <1>q, <1>r DEF TableInv, TypeOK, Root, Parts
<1>2. Progress' /\ Opened'
  BY <1>p DEF TableInv, Progress, Opened, Filling, Linking
<1>3. Roots'
  <2>1. \A o \in Objects \ raw' : roots[o] = pmRoots[o] /\ NamesWhole(roots[o])
    BY <1>p, <1>r DEF TableInv, Roots
  <2>2. \A o \in Objects \ raw' : NamesWhole(roots[o])' /\ NamesWhole(pmRoots[o])'
    BY <1>p, <1>r, <2>1, NamesStay
  <2> QED
    BY <1>p, <1>r, <2>1, <2>2 DEF Roots
<1>4. Latest'
  <2>1. CASE lib = "pmdk"
    <3>1. rootObj' = 1 /\ UNCHANGED <<roots, pmRoots, raw>>
      BY <2>1 DEF OpenPool, rootVars
    <3> QED
      BY <1>p, <2>1, <3>1 DEF TableInv, Latest, Filling, Linking
  <2>2. CASE lib = "ralloc"
    <3>1. rootObj' = tables + 1
      BY <2>2 DEF OpenPool
    <3> QED
      BY <1>p, <1>q, <1>r, <2>2, <3>1 DEF TableInv, Latest, Filling, Linking
  <2> QED
    BY <2>1, <2>2, LibsAssumption DEF TableInv, TypeOK
<1> QED
  BY <1>1, <1>2, <1>3, <1>4 DEF TableInv

LEMMA CheckSettingStep == TableInv /\ CheckSetting => TableInv'
<1> SUFFICES ASSUME TableInv, CheckSetting
             PROVE  TableInv'
  OBVIOUS
<1>1. TypeOK'
  <2>1. tables' \in {tables, tables + 1} /\ tables' \in 0..MaxTables
    BY MaxTablesAssumption DEF TableInv, TypeOK, CheckSetting, Progress
  <2>2. i' \in 0..(count - 1)
    BY CountsAssumption DEF TableInv, TypeOK, CheckSetting
  <2> QED
    BY <2>1, <2>2, TypesGrow DEF TableInv, TypeOK, CheckSetting, Goto, given, rootVars, entryVars
<1>2. Progress' /\ Opened'
  BY DEF TableInv, TypeOK, CheckSetting, Goto, given, rootVars, entryVars, Progress, Opened, Filling, Linking, Latest
<1>3. Roots'
  BY NamesStay DEF TableInv, TypeOK, CheckSetting, Goto, given, rootVars, entryVars, Roots
<1>4. Latest'
  BY DEF TableInv, TypeOK, CheckSetting, Goto, given, rootVars, entryVars, Latest, Filling, Linking, Objects
<1> QED
  BY <1>1, <1>2, <1>3, <1>4 DEF TableInv

(* The cells of a bucket, then the two parts of its entry.                  *)
LEMMA EntryStays ==
  ASSUME durable \subseteq durable', stored \subseteq stored',
         UNCHANGED <<bases, tables, i>>, NEW b, EntryDone(b)
  PROVE  EntryDone(b)'
BY DEF EntryDone, LineOf

LEMMA PartTyped ==
  ASSUME TableInv, pc \in Filling, NEW what \in Whats
  PROVE  Part(i, what) \in Parts /\ Part(i, what) = PartOf(tables, i, what)
<1>1. tables \in 1..tables
  BY MaxTablesAssumption DEF TableInv, TypeOK, Progress, Filling
<1> QED
  BY <1>1 DEF TableInv, TypeOK, Part, PartOf, Parts, Whats

LEMMA ZeroCellsStep == TableInv /\ ZeroCells => TableInv'
<1> SUFFICES ASSUME TableInv, ZeroCells
             PROVE  TableInv'
  OBVIOUS
<1>p. /\ pc = "cells" /\ pc' = "entry"
      /\ UNCHANGED <<lib, count, bases, rootObj, roots, pmRoots, tables, i, opened, returned, raw>>
  BY DEF ZeroCells, Goto, given, rootVars, entryVars
<1>q. Part(i, "cells") \in Parts /\ Part(i, "cells") = PartOf(tables, i, "cells")
  BY <1>p, PartTyped DEF Filling, Whats
<1>s. /\ stored' = stored \cup {PartOf(tables, i, "cells")}
      /\ durable' = durable \cup {PartOf(tables, i, "cells")}
  BY <1>q DEF ZeroCells
<1>1. TypeOK'
  BY <1>p, <1>q, <1>s, TypesGrow DEF TableInv, TypeOK
<1>2. Progress'
  <2>1. \A b \in 0..(i - 1) : EntryDone(b)'
    BY <1>p, <1>s, EntryStays DEF TableInv, Progress, Filling
  <2> QED
    BY <1>p, <1>s, <2>1 DEF TableInv, Progress, Filling, Linking
<1>4. Roots'
  BY <1>p, <1>s, NamesStay DEF TableInv, TypeOK, Roots
<1>5. Latest' /\ Opened'
  BY <1>p DEF TableInv, Latest, Opened, Filling, Linking
<1> QED
  BY <1>1, <1>2, <1>4, <1>5 DEF TableInv

LEMMA InitEntryStep == TableInv /\ InitEntry => TableInv'
<1> SUFFICES ASSUME TableInv, InitEntry
             PROVE  TableInv'
  OBVIOUS
<1>p. /\ pc = "entry" /\ pc' = "flush"
      /\ UNCHANGED <<lib, count, bases, rootObj, roots, pmRoots, tables, durable, i, opened, returned, raw>>
  BY DEF InitEntry, Goto, given, rootVars, entryVars
<1>q. /\ Part(i, "ver") \in Parts /\ Part(i, "ver") = PartOf(tables, i, "ver")
      /\ Part(i, "ptr") \in Parts /\ Part(i, "ptr") = PartOf(tables, i, "ptr")
  BY <1>p, PartTyped DEF Filling, Whats
<1>s. stored' = stored \cup {PartOf(tables, i, "ver"), PartOf(tables, i, "ptr")}
  BY <1>q DEF InitEntry
<1>1. TypeOK'
  BY <1>p, <1>q, <1>s, TypesGrow DEF TableInv, TypeOK
<1>2. Progress'
  <2>1. \A b \in 0..(i - 1) : EntryDone(b)'
    BY <1>p, <1>s, EntryStays DEF TableInv, Progress, Filling
  <2> QED
    BY <1>p, <1>s, <2>1 DEF TableInv, Progress, Filling, Linking
<1>4. Roots'
  BY <1>p, <1>s, NamesStay DEF TableInv, TypeOK, Roots
<1>5. Latest' /\ Opened'
  BY <1>p DEF TableInv, Latest, Opened, Filling, Linking
<1> QED
  BY <1>1, <1>2, <1>4, <1>5 DEF TableInv

(* The flush of an entry also completes the one before it.                  *)
LEMMA FlushCompletes ==
  ASSUME TableInv, FlushEntry, NEW b \in 0..i
  PROVE  /\ PartOf(tables, b, "cells") \in durable'
         /\ PartOf(tables, b, "ver") \in durable'
         /\ PartOf(tables, b, "ptr") \in stored
         /\ \/ PartOf(tables, b, "ptr") \in durable'
            \/ /\ b = i
               /\ LineOf(tables, i, PtrOffset) = LineOf(tables, i + 1, 0)
               /\ LineOf(tables, i, PtrOffset) # LineOf(tables, i, 0)
<1>p. pc = "flush" /\ i \in Nat /\ tables \in Objects
  BY MaxTablesAssumption DEF FlushEntry, TableInv, TypeOK, Progress, Objects, Filling
<1>1. durable' = durable \cup {p \in stored : p.table = tables /\ p.what # "cells" /\ Line(p) = LineOf(tables, i, 0)}
  BY DEF FlushEntry, WriteBack
<1>2. \A c : /\ PartOf(tables, c, "ver") \in stored /\ LineOf(tables, c, 0) = LineOf(tables, i, 0)
                  => PartOf(tables, c, "ver") \in durable'
             /\ PartOf(tables, c, "ptr") \in stored /\ LineOf(tables, c, PtrOffset) = LineOf(tables, i, 0)
                  => PartOf(tables, c, "ptr") \in durable'
  BY <1>1 DEF PartOf, Line
<1>3. CASE b = i
  <2>1. LineOf(tables, i, PtrOffset) \in {LineOf(tables, i, 0), LineOf(tables, i + 1, 0)}
    BY <1>p, PointerLine DEF TableInv
  <2>2. /\ PartOf(tables, i, "cells") \in durable
        /\ PartOf(tables, i, "ver") \in stored
        /\ PartOf(tables, i, "ptr") \in stored
    BY <1>p DEF TableInv, Progress
  <2> QED
    BY <1>1, <1>2, <1>3, <2>1, <2>2
<1>4. CASE b # i
  <2>1. b \in 0..(i - 1)
    BY <1>p, <1>4
  <2>2. EntryDone(b)
    BY <1>p, <2>1 DEF TableInv, Progress, Filling
  <2> QED
    BY <1>1, <1>2, <2>2 DEF EntryDone
<1> QED
  BY <1>3, <1>4

LEMMA FlushEntryStep == TableInv /\ FlushEntry => TableInv'
<1> SUFFICES ASSUME TableInv, FlushEntry
             PROVE  TableInv'
  OBVIOUS
<1>p. /\ pc = "flush" /\ tables # 0 /\ rootObj # 0 /\ PowerOfTwo(count)
      /\ UNCHANGED <<lib, count, bases, rootObj, roots, pmRoots, tables, stored, opened, returned, raw>>
      /\ NextBucket
  BY DEF FlushEntry, TableInv, Progress, Filling, given, rootVars
<1>d. durable \subseteq durable' /\ durable' \subseteq stored
  BY DEF FlushEntry, WriteBack, TableInv, TypeOK
<1>i. i \in 0..(count - 1) /\ count \in Nat /\ count > 0 /\ count \in Counts
  BY CountsAssumption DEF TableInv, TypeOK
<1>1. CASE i + 1 < count
  <2>1. i' = i + 1 /\ pc' = "cells"
    BY <1>p, <1>1 DEF NextBucket, Goto
  <2>2. i' \in 0..(count - 1)
    BY <2>1, <1>i, <1>1
  <2>3. TypeOK'
    BY <1>p, <1>d, <2>1, <2>2, TypesGrow DEF TableInv, TypeOK
  <2>4. \A b \in 0..(i' - 1) : EntryDone(b)'
    <3> TAKE b \in 0..(i' - 1)
    <3>1. b \in 0..i
      BY <2>1, <1>i
    <3>2. b = i => b = i' - 1 /\ i' = i + 1
      BY <2>1, <1>i
    <3>3. /\ LineOf(tables, b, PtrOffset)' = LineOf(tables, b, PtrOffset)
          /\ LineOf(tables, i, 0)' = LineOf(tables, i + 1, 0)
      BY <1>p, <2>1 DEF LineOf
    <3> QED
      BY <3>1, <3>2, <3>3, <1>p, FlushCompletes DEF EntryDone
  <2>5. Progress'
    BY <1>p, <2>1, <2>4 DEF Progress, Filling, Linking
  <2>7. Roots'
    BY <1>p, <1>d, <2>1, NamesStay DEF TableInv, TypeOK, Roots
  <2>8. Latest' /\ Opened'
    BY <1>p, <2>1 DEF TableInv, Latest, Opened, Filling, Linking
  <2> QED
    BY <2>3, <2>5, <2>7, <2>8 DEF TableInv
<1>2. CASE ~(i + 1 < count)
  <2>1. i' = 0 /\ pc' = "count" /\ i = count - 1
    BY <1>p, <1>2, <1>i DEF NextBucket, Goto
  <2>2. i' \in 0..(count - 1)
    BY <2>1, <1>i
  <2>3. TypeOK'
    BY <1>p, <1>d, <2>1, <2>2, TypesGrow DEF TableInv, TypeOK
  <2>4. LastPointer(tables)' = LastPointer(tables)
    BY <1>p DEF LastPointer, Line, LineOf
  <2>p. \/ PartOf(tables, i, "ptr") \in durable'
        \/ PartOf(tables, i, "ptr") \in LastPointer(tables)
    <3>1. Line(PartOf(tables, i, "ptr")) = LineOf(tables, i, PtrOffset)
      BY DEF Line, PartOf
    <3>2. i \in 0..i
      BY <1>i
    <3> QED
      BY <2>1, <3>1, <3>2, FlushCompletes DEF LastPointer, PartOf
  <2>5. Built(tables)'
    BY <1>p, <1>i, <2>1, <2>4, <2>p, FlushCompletes DEF Built, Whats
  <2>6. Progress'
    BY <1>p, <2>1, <2>5 DEF Progress, Filling, Linking
  <2>9. Roots'
    BY <1>p, <1>d, <2>1, NamesStay DEF TableInv, TypeOK, Roots
  <2>10. Latest' /\ Opened'
    BY <1>p, <2>1 DEF TableInv, Latest, Opened, Filling, Linking
  <2> QED
    BY <2>3, <2>6, <2>9, <2>10 DEF TableInv
<1> QED
  BY <1>1, <1>2

LEMMA StoreCountStep == TableInv /\ StoreCount => TableInv'
<1> SUFFICES ASSUME TableInv, StoreCount
             PROVE  TableInv'
  OBVIOUS
<1>p. /\ pc = "count" /\ pc' = "pointer"
      /\ roots' = [roots EXCEPT ![rootObj].bucket_count_ = count]
      /\ UNCHANGED <<lib, count, bases, rootObj, pmRoots, tables, stored, durable, i, opened, returned, raw>>
  BY DEF StoreCount, Goto, given, rootVars, entryVars
<1>o. rootObj \in Objects /\ tables # 0
  BY <1>p DEF TableInv, TypeOK, Progress, Linking
<1>r. /\ roots \in [Objects -> Root]
      /\ roots' = [roots EXCEPT ![rootObj] =
                     [bucket_count_ |-> count, buckets_pmem_ |-> roots[rootObj].buckets_pmem_]]
  <2>1. \A q \in Root : [q EXCEPT !.bucket_count_ = count] =
                         [bucket_count_ |-> count, buckets_pmem_ |-> q.buckets_pmem_]
    BY DEF Root
  <2>2. roots \in [Objects -> Root] /\ roots[rootObj] \in Root
    BY <1>o DEF TableInv, TypeOK
  <2> QED
    BY <1>p, <2>1, <2>2
<1>s. /\ \A o \in Objects : roots'[o].buckets_pmem_ = roots[o].buckets_pmem_
      /\ \A o \in Objects : o # rootObj => roots'[o] = roots[o]
      /\ roots'[rootObj].bucket_count_ = count
  BY <1>r, <1>o
<1>1. TypeOK'
  <2>1. roots' \in [Objects -> Root]
    BY <1>r, <1>o DEF Root
  <2> QED
    BY <1>p, <2>1 DEF TableInv, TypeOK, Root, Parts
<1>2. Progress' /\ Opened'
  BY <1>p, BuiltStays DEF TableInv, Progress, Opened, Filling, Linking
<1>3. Roots'
  <2>1. \A o \in Objects \ raw : NamesWhole(roots'[o]) /\ NamesWhole(pmRoots[o])
    BY <1>s DEF TableInv, Roots, NamesWhole
  <2>2. \A o \in Objects \ raw : NamesWhole(roots[o])' /\ NamesWhole(pmRoots[o])'
    BY <1>p, <2>1, NamesStay
  <2> QED
    BY <1>p, <1>s, <2>2 DEF TableInv, Roots
<1>4. Latest'
  BY <1>p, <1>s, <1>o, MaxTablesAssumption DEF TableInv, TypeOK, Latest, Filling, Linking, Objects
<1> QED
  BY <1>1, <1>2, <1>3, <1>4 DEF TableInv

LEMMA StorePointerStep == TableInv /\ StorePointer => TableInv'
<1> SUFFICES ASSUME TableInv, StorePointer
             PROVE  TableInv'
  OBVIOUS
<1>p. /\ pc = "pointer" /\ pc' = "root"
      /\ roots' = [roots EXCEPT ![rootObj].buckets_pmem_ = tables]
      /\ UNCHANGED <<lib, count, bases, rootObj, pmRoots, tables, stored, durable, i, opened, returned, raw>>
  BY DEF StorePointer, Goto, given, rootVars, entryVars
<1>o. rootObj \in Objects /\ tables # 0 /\ Built(tables)
  BY <1>p DEF TableInv, TypeOK, Progress, Linking
<1>r. /\ roots \in [Objects -> Root]
      /\ roots' = [roots EXCEPT ![rootObj] = [bucket_count_ |-> count, buckets_pmem_ |-> tables]]
  <2>1. \A q \in Root : [q EXCEPT !.buckets_pmem_ = tables] =
                         [bucket_count_ |-> q.bucket_count_, buckets_pmem_ |-> tables]
    BY DEF Root
  <2>2. roots \in [Objects -> Root] /\ roots[rootObj] \in Root
    BY <1>o DEF TableInv, TypeOK
  <2>3. roots[rootObj].bucket_count_ = count
    BY <1>p DEF TableInv, Roots
  <2> QED
    BY <1>p, <2>1, <2>2, <2>3
<1>s. /\ \A o \in Objects : o # rootObj => roots'[o] = roots[o]
      /\ roots'[rootObj] = [bucket_count_ |-> count, buckets_pmem_ |-> tables]
  BY <1>r, <1>o
<1>1. TypeOK'
  <2>1. [bucket_count_ |-> count, buckets_pmem_ |-> tables] \in Root
    BY MaxTablesAssumption DEF TableInv, TypeOK, Root
  <2>2. roots' \in [Objects -> Root]
    BY <1>r, <1>o, <2>1
  <2> QED
    BY <1>p, <2>2 DEF TableInv, TypeOK, Root, Parts
<1>2. Progress' /\ Opened'
  BY <1>p, BuiltStays DEF TableInv, Progress, Opened, Filling, Linking
<1>3. Roots'
  <2>1. \A o \in Objects \ raw : NamesWhole(roots'[o]) /\ NamesWhole(pmRoots[o])
    BY <1>s, <1>o DEF TableInv, Roots, NamesWhole
  <2>2. \A o \in Objects \ raw : NamesWhole(roots[o])' /\ NamesWhole(pmRoots[o])'
    BY <1>p, <2>1, NamesStay
  <2> QED
    BY <1>p, <1>s, <2>2 DEF TableInv, Roots
<1>4. Latest'
  <2>1. tables >= returned
    BY MaxTablesAssumption DEF TableInv, TypeOK
  <2> QED
    BY <1>p, <1>s, <1>o, <2>1, MaxTablesAssumption
    DEF TableInv, TypeOK, Latest, Filling, Linking, Objects
<1> QED
  BY <1>1, <1>2, <1>3, <1>4 DEF TableInv

LEMMA FlushRootStep == TableInv /\ FlushRoot => TableInv'
<1> SUFFICES ASSUME TableInv, FlushRoot
             PROVE  TableInv'
  OBVIOUS
<1>p. /\ pc = "root" /\ pc' = "open"
      /\ pmRoots' = [pmRoots EXCEPT ![rootObj] = roots[rootObj]]
      /\ opened' = tables
      /\ returned' = tables
      /\ raw' = raw \ {rootObj}
      /\ UNCHANGED <<lib, count, bases, rootObj, roots, tables, stored, durable, i>>
  BY DEF FlushRoot, Returns, Goto, given, rootVars, entryVars
<1>o. rootObj \in Objects /\ tables # 0 /\ tables \in Nat /\ lib \in Libs
  BY <1>p, MaxTablesAssumption DEF TableInv, TypeOK, Progress, Linking
<1>b. Built(tables)
  BY <1>p DEF TableInv, Progress, Linking
<1>r. roots \in [Objects -> Root] /\ pmRoots \in [Objects -> Root]
  BY DEF TableInv, TypeOK
<1>s. roots[rootObj] = [bucket_count_ |-> count, buckets_pmem_ |-> tables]
  BY <1>p DEF TableInv, Roots
<1>t. /\ \A o \in Objects \ raw' : pmRoots'[o] = roots[o]
      /\ pmRoots'[rootObj] = roots[rootObj]
      /\ pmRoots' \in [Objects -> Root]
  BY <1>p, <1>o, <1>r DEF TableInv, Roots
<1>u. /\ roots'[rootObj].buckets_pmem_ = tables /\ pmRoots'[rootObj].buckets_pmem_ = tables
      /\ rootObj # 0 /\ tables >= tables
  <2>1. roots[rootObj].buckets_pmem_ = tables
    BY <1>s
  <2>2. roots' = roots
    BY <1>p
  <2>3. roots'[rootObj].buckets_pmem_ = tables /\ pmRoots'[rootObj].buckets_pmem_ = tables
    BY <2>1, <2>2, <1>t
  <2>4. rootObj # 0 /\ tables >= tables
    BY <1>o, MaxTablesAssumption DEF Objects
  <2> QED
    BY <2>3, <2>4
<1>1. TypeOK'
  <2>1. opened' \in 0..tables /\ returned' \in 0..tables
    BY <1>p, <1>o
  <2> QED
    BY <1>p, <1>r, <1>t, <2>1 DEF TableInv, TypeOK, Root, Parts
<1>2. Progress'
  BY <1>p DEF TableInv, Progress, Filling, Linking
<1>3. Roots'
  <2>1. \A o \in Objects \ raw' : NamesWhole(roots[o])
    BY <1>p, <1>s, <1>b DEF TableInv, Roots, NamesWhole
  <2>2. \A o \in Objects \ raw' : NamesWhole(roots[o])' /\ NamesWhole(pmRoots[o])'
    BY <1>p, <1>t, <2>1, NamesStay
  <2> QED
    BY <1>p, <1>t, <2>2 DEF TableInv, Roots
<1>4. Latest'
  <2>1. lib = "pmdk" => rootObj = 1
    BY <1>p, <1>o DEF TableInv, Latest, Objects
  <2> QED
    BY <1>p, <1>s, <1>t, <1>o, <1>u, <2>1 DEF TableInv, Latest, Filling, Linking, Objects
<1>5. Opened'
  BY <1>p, <1>o, <1>u DEF Opened, Objects
<1> QED
  BY <1>1, <1>2, <1>3, <1>4, <1>5 DEF TableInv

LEMMA CloseStep == TableInv /\ Close => TableInv'
<1> SUFFICES ASSUME TableInv, Close
             PROVE  TableInv'
  OBVIOUS
<1>p. /\ pc \in {"open", "wrong"} /\ pc' = "closed" /\ opened' = 0
      /\ UNCHANGED <<lib, count, bases, rootObj, roots, pmRoots, stored, durable, tables, i, returned, raw>>
  BY DEF Close, Goto, given, rootVars, entryVars
<1>1. 0 \in 0..tables
  BY MaxTablesAssumption DEF TableInv, TypeOK
<1>2. TypeOK'
  BY <1>p, <1>1 DEF TableInv, TypeOK, Root, Parts
<1>3. Progress' /\ Opened'
  BY <1>p DEF TableInv, Progress, Opened, Filling, Linking
<1>4. Roots'
  BY <1>p, NamesStay DEF TableInv, Roots
<1>5. Latest'
  BY <1>p DEF TableInv, Latest, Filling, Linking
<1> QED
  BY <1>2, <1>3, <1>4, <1>5 DEF TableInv

LEMMA CrashStep == TableInv /\ Crash => TableInv'
<1> SUFFICES ASSUME TableInv, Crash
             PROVE  TableInv'
  OBVIOUS
<1>p. /\ pc' = "closed" /\ opened' = 0 /\ i' = 0
      /\ roots' = pmRoots /\ stored' = durable
      /\ UNCHANGED <<lib, count, bases, rootObj, pmRoots, tables, durable, returned, raw>>
  BY DEF Crash, Goto, given, rootVars, entryVars
<1>1. 0 \in 0..tables /\ 0 \in 0..(count - 1)
  BY MaxTablesAssumption, CountsAssumption DEF TableInv, TypeOK
<1>2. TypeOK'
  BY <1>p, <1>1 DEF TableInv, TypeOK, Root, Parts
<1>3. Progress' /\ Opened'
  BY <1>p DEF TableInv, Progress, Opened, Filling, Linking
<1>4. Roots'
  BY <1>p, NamesStay DEF TableInv, Roots
<1>5. Latest'
  BY <1>p DEF TableInv, Latest, Filling, Linking
<1> QED
  BY <1>2, <1>3, <1>4, <1>5 DEF TableInv

LEMMA RecoverStep == TableInv /\ Recover => TableInv'
<1> SUFFICES ASSUME TableInv, Recover
             PROVE  TableInv'
  OBVIOUS
<1> DEFINE r == roots[rootObj]
<1>p. /\ pc = "closed"
      /\ opened' = r.buckets_pmem_
      /\ pc' \in {"open", "wrong"}
      /\ pc' = "open" => Whole(r, stored)
      /\ UNCHANGED <<lib, count, bases, rootObj, roots, pmRoots, stored, durable, tables, i, returned, raw>>
  BY DEF Recover, Goto, given, rootVars, entryVars
<1>o. rootObj \in Objects /\ rootObj # 0 /\ r \in Root /\ tables \in Nat
  BY MaxTablesAssumption DEF Recover, TableInv, TypeOK
<1>c. count \in Nat /\ count > 0
  BY CountsAssumption DEF TableInv, TypeOK
<1>m. rootObj \notin raw => pmRoots[rootObj] = r
  BY <1>p, <1>o DEF TableInv, Roots
<1> HIDE DEF r
<1>1. TypeOK'
  <2>1. opened' \in 0..tables
    BY <1>p, <1>o DEF Root
  <2> QED
    BY <1>p, <2>1 DEF TableInv, TypeOK, Root, Parts
<1>2. Progress'
  BY <1>p DEF TableInv, Progress, Filling, Linking
<1>3. Roots'
  BY <1>p, NamesStay DEF TableInv, Roots
<1>4. Latest'
  BY <1>p DEF TableInv, Latest, Filling, Linking
<1>5. Opened'
  <2> SUFFICES ASSUME pc' = "open", rootObj \notin raw
               PROVE  Opened'
    BY <1>p DEF Opened
  <2>1. r.bucket_count_ \in {0, count} /\ Whole(r, stored)
    BY <1>p, <1>o DEF Root
  <2>2. PartOf(r.buckets_pmem_, 0, "ver") \in stored
    <3>1. r.bucket_count_ > 0 /\ 0 \in 0..(r.bucket_count_ - 1)
      BY <1>c, <2>1 DEF Whole
    <3> QED
      BY <2>1, <3>1 DEF Whole, PartOf
  <2>3. r.buckets_pmem_ # 0
    BY <2>2, <1>o DEF TableInv, TypeOK, Parts, PartOf
  <2>4. r.buckets_pmem_ >= returned
    <3>1. returned \in 0..tables /\ lib \in {"ralloc", "pmdk"} /\ r.buckets_pmem_ \in 0..tables
      BY <1>o, LibsAssumption DEF TableInv, TypeOK, Root
    <3>2. CASE lib = "pmdk"
      <4>1. rootObj = 1
        BY <1>o, <3>2 DEF TableInv, Latest
      <4> QED
        BY <1>o, <3>1, <3>2, <4>1 DEF TableInv, Latest, r
    <3>3. CASE lib = "ralloc"
      <4>1. rootObj \in {tables, tables + 1} /\ r.buckets_pmem_ = rootObj
        BY <1>o, <2>3, <3>3 DEF TableInv, Latest, r
      <4> QED
        BY <1>o, <3>1, <4>1
    <3> QED
      BY <3>1, <3>2, <3>3
  <2>5. pmRoots'[rootObj].buckets_pmem_ = r.buckets_pmem_
    BY <1>p, <1>m
  <2> QED
    BY <1>p, <1>o, <2>3, <2>4, <2>5 DEF Opened
<1> QED
  BY <1>1, <1>2, <1>3, <1>4, <1>5 DEF TableInv

LEMMA RecoverNothingStep == TableInv /\ RecoverNothing => TableInv'
<1> SUFFICES ASSUME TableInv, RecoverNothing
             PROVE  TableInv'
  OBVIOUS
<1>p. /\ pc = "closed" /\ rootObj = 0 /\ pc' = "wrong" /\ opened' = 0
      /\ rootObj' = IF lib = "pmdk" THEN 1 ELSE 0
      /\ UNCHANGED <<lib, count, bases, roots, pmRoots, stored, durable, tables, i, returned, raw>>
  BY DEF RecoverNothing, Goto, given, rootVars, entryVars
<1>1. 0 \in 0..tables
  BY MaxTablesAssumption DEF TableInv, TypeOK
<1>2. rootObj' \in {0} \cup Objects
  BY <1>p, MaxTablesAssumption DEF Objects
<1>3. TypeOK'
  BY <1>p, <1>1, <1>2 DEF TableInv, TypeOK, Root, Parts
<1>4. Progress' /\ Opened'
  BY <1>p DEF TableInv, Progress, Opened, Filling, Linking
<1>5. Roots'
  BY <1>p, NamesStay DEF TableInv, Roots
<1>6. Latest'
  BY <1>p DEF TableInv, Latest, Filling, Linking
<1> QED
  BY <1>3, <1>4, <1>5, <1>6 DEF TableInv

LEMMA EvictStep == TableInv /\ Evict => TableInv'
<1> SUFFICES ASSUME TableInv, Evict
             PROVE  TableInv'
  OBVIOUS
<1>p. UNCHANGED <<lib, count, bases, rootObj, roots, tables, stored, pc, i, opened, returned, raw>>
  BY DEF Evict, given
<1>1. CASE durable \subseteq durable' /\ durable' \subseteq stored /\ UNCHANGED pmRoots
  <2>1. TypeOK'
    BY <1>p, <1>1 DEF TableInv, TypeOK, Root, Parts
  <2>2. Progress'
    <3>1. pc \in Filling => \A b \in 0..(i - 1) : EntryDone(b)'
      BY <1>p, <1>1, EntryStays DEF TableInv, Progress
    <3>2. pc \in Linking => Built(tables)'
      BY <1>p, <1>1, BuiltStays DEF TableInv, Progress
    <3> QED
      BY <1>p, <1>1, <3>1, <3>2 DEF TableInv, Progress, Filling, Linking
  <2>4. Roots'
    BY <1>p, <1>1, NamesStay DEF TableInv, Roots
  <2>5. Latest' /\ Opened'
    BY <1>p, <1>1 DEF TableInv, Latest, Opened, Filling, Linking
  <2> QED
    BY <2>1, <2>2, <2>4, <2>5 DEF TableInv
<1>2. ASSUME NEW o \in Objects, pmRoots' = [pmRoots EXCEPT ![o] = roots[o]], UNCHANGED durable
      PROVE  TableInv'
  <2>r. roots \in [Objects -> Root] /\ pmRoots \in [Objects -> Root]
    BY DEF TableInv, TypeOK
  <2>s. /\ pmRoots' \in [Objects -> Root]
        /\ \A x \in Objects : pmRoots'[x] \in {pmRoots[x], roots[x]}
        /\ \A x \in Objects : roots[x] = pmRoots[x] => pmRoots'[x] = pmRoots[x]
    BY <1>2, <2>r
  <2>1. TypeOK'
    BY <1>p, <1>2, <2>s DEF TableInv, TypeOK, Root, Parts
  <2>2. Progress'
    BY <1>p, <1>2, BuiltStays DEF TableInv, Progress, Filling, Linking, EntryDone, LineOf
  <2>3. Roots'
    <3>1. \A x \in Objects \ raw : NamesWhole(roots[x]) /\ NamesWhole(pmRoots'[x])
      BY <2>s DEF TableInv, Roots
    <3>2. \A x \in Objects \ raw : NamesWhole(roots[x])' /\ NamesWhole(pmRoots[x])'
      BY <1>p, <1>2, <3>1, NamesStay
    <3> QED
      BY <1>p, <2>s, <3>2 DEF TableInv, Roots
  <2>4. Latest'
    <3>1. 1 \in Objects
      BY MaxTablesAssumption DEF Objects
    <3> QED
      BY <1>p, <2>s, <3>1 DEF TableInv, Latest, Filling, Linking
  <2>5. Opened'
    <3>1. pc = "open" /\ rootObj \in Objects \ raw => pmRoots'[rootObj] = pmRoots[rootObj]
      BY <2>s DEF TableInv, Roots
    <3> QED
      BY <1>p, <3>1 DEF TableInv, TypeOK, Opened
  <2> QED
    BY <2>1, <2>2, <2>3, <2>4, <2>5 DEF TableInv
<1> QED
  BY <1>1, <1>2 DEF Evict, WriteBack, TableInv, TypeOK

LEMMA TableInvStep == TableInv /\ [Next]_vars => TableInv'
<1> SUFFICES ASSUME TableInv, [Next]_vars
             PROVE  TableInv'
  OBVIOUS
<1>1. CASE Initialize
  BY <1>1, OpenPoolStep, CheckSettingStep, ZeroCellsStep, InitEntryStep, FlushEntryStep,
     StoreCountStep, StorePointerStep, FlushRootStep DEF Initialize
<1>2. CASE Recover \/ RecoverNothing
  BY <1>2, RecoverStep, RecoverNothingStep
<1>3. CASE Close \/ Evict \/ Crash
  BY <1>3, CloseStep, EvictStep, CrashStep
<1>4. CASE UNCHANGED vars
  <2>1. UNCHANGED <<lib, count, bases, rootObj, roots, pmRoots, tables, stored, durable, pc, i, opened, returned, raw>>
    BY <1>4 DEF vars
  <2>2. TypeOK'
    BY <2>1 DEF TableInv, TypeOK, Root, Parts
  <2>3. Progress'
    BY <2>1, BuiltStays DEF TableInv, Progress, EntryDone, LineOf
  <2>4. Opened'
    BY <2>1 DEF TableInv, Opened
  <2>5. Roots' /\ Latest'
    BY <2>1, NamesStay DEF TableInv, Roots, Latest
  <2> QED
    BY <2>2, <2>3, <2>4, <2>5 DEF TableInv
<1> QED
  BY <1>1, <1>2, <1>3, <1>4 DEF Next

-----------------------------------------------------------------------------
(* The theorems                                                             *)

(* The construction and the restart keep to the types, and to the           *)
(* invariant: the loop leaves whole entries behind, and the root gets its   *)
(* pointer when all of them are in persistent memory.                       *)
THEOREM TableCorrect == Spec => []TableInv
<1>1. TableInv /\ [Next]_vars => TableInv'
  BY TableInvStep
<1> QED
  BY TableInit, <1>1, PTL DEF Spec

(* Every state of a construction, of a restart and of a crash is of its     *)
(* type.                                                                    *)
THEOREM TableTyped == Spec => []TypeOK
<1>1. TableInv => TypeOK
  BY DEF TableInv
<1> QED
  BY TableCorrect, <1>1, PTL

(* A root with a pointer has the count that its table was made with.        *)
LEMMA NamedSurvives ==
  ASSUME count \in Nat, count > 0, NEW r, NamesWhole(r), r.buckets_pmem_ # 0
  PROVE  Survives(r)
BY DEF NamesWhole, Built, Survives, Whole, PartOf, Whats

(* FlushRoot comes after the loop: however the lines of the root and of the *)
(* entries reach persistent memory, a root that was filled names a table    *)
(* with everything in it that Initialize flushes.                           *)
THEOREM RootAfterTable == Spec => []RootNamesWholeTable
<1>1. TableInv => RootNamesWholeTable
  BY NamedSurvives, CountsAssumption DEF TableInv, TypeOK, Roots, RootNamesWholeTable
<1> QED
  BY TableCorrect, <1>1, PTL

(* Once Initialize has returned, or Recover from a root that was filled, a  *)
(* crash at any moment leaves the root and every entry of the table in use, *)
(* but for the last pointer when it has a line of its own.                  *)
THEOREM OpenIsDurable == Spec => []InitializedIsDurable
<1>1. TableInv => InitializedIsDurable
  <2> SUFFICES ASSUME TableInv, pc = "open", rootObj \notin raw
               PROVE  Survives(pmRoots[rootObj]) /\ pmRoots[rootObj].buckets_pmem_ = opened
    BY DEF InitializedIsDurable
  <2>1. count \in Nat /\ count > 0
    BY CountsAssumption DEF TableInv, TypeOK
  <2>2. rootObj \in Objects \ raw
    BY DEF TableInv, TypeOK, Opened
  <2>3. /\ pmRoots[rootObj].buckets_pmem_ = opened /\ opened # 0
        /\ NamesWhole(pmRoots[rootObj])
    BY <2>2 DEF TableInv, Opened, Roots
  <2> QED
    BY <2>1, <2>3, NamedSurvives
<1> QED
  BY TableCorrect, <1>1, PTL

(* With PMDK's one root object the last table that was returned, or one     *)
(* that was finished since, is there whenever a crash comes, also while     *)
(* Initialize is at work on another: there is no moment between the stores  *)
(* of the count and of the pointer at which the root names no table.        *)
THEOREM TableKept == Spec => []LastTableKept
<1>1. TableInv => LastTableKept
  <2> SUFFICES ASSUME TableInv, lib = "pmdk", returned # 0
               PROVE  Survives(pmRoots[1])
    BY DEF LastTableKept
  <2>1. count \in Nat /\ count > 0
    BY CountsAssumption DEF TableInv, TypeOK
  <2>2. 1 \in Objects \ raw
    BY MaxTablesAssumption DEF TableInv, Latest, Objects
  <2>3. pmRoots[1].buckets_pmem_ # 0
    <3>1. pmRoots[1].buckets_pmem_ >= returned /\ returned \in 0..tables /\ tables \in Nat
      BY MaxTablesAssumption DEF TableInv, Latest, TypeOK
    <3> QED
      BY <3>1
  <2> QED
    BY <2>1, <2>2, <2>3, NamedSurvives DEF TableInv, Roots
<1> QED
  BY TableCorrect, <1>1, PTL

(* No program past Initialize, or past Recover from a root that was filled, *)
(* uses a table older than the last one that was returned.                  *)
THEOREM OpenIsLatest == Spec => []OpensLatestTable
<1>1. TableInv => OpensLatestTable
  BY DEF TableInv, Opened, OpensLatestTable
<1> QED
  BY TableCorrect, <1>1, PTL
=============================================================================
