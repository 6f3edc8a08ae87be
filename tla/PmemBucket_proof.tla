-------------------------- MODULE PmemBucket_proof --------------------------
(***************************************************************************)
(* Proofs about the persistent bucket and crashes, for any number of keys, *)
(* values, buckets, records and slots.                                     *)
(*                                                                         *)
(* The first part is about the BucketMetaPmem alone: which bucket it names *)
(* at every step of a rehash, and which one a restart would find.  The     *)
(* second is about the cells and the records.  Both hold in every layout:  *)
(* the invariants are stated of what a crash would leave if the lines that *)
(* no flush covers had been written back, and what depends on those lines  *)
(* is kept until a crash has lost one of them.                             *)
(***************************************************************************)
EXTENDS PmemBucket, TLAPS

-----------------------------------------------------------------------------
(* The BucketMetaPmem                                                       *)

(* The entry that the next rehash overwrites.                               *)
Other(m) == [addr |-> m.ptr[3 - m.cur_ver_], shift |-> m.shift[3 - m.cur_ver_]]

(* A bucket with its own number of cells.                                   *)
Entry(b) == [addr |-> b, shift |-> cellShift[b]]

InUse == Buckets \ (free \cup retired)

Copying == {"filled", "reset", "commit", "fields", "switch", "switched", "retire"}
Updating == {"record", "store", "bits", "head"}

MetaTypeOK ==
  /\ lines \in Nat
  /\ second \subseteq {1, 2}
  /\ flushes \in BOOLEAN
  /\ lost \subseteq {"bucket", "value"}
  /\ meta \in Meta
  /\ pmMeta \in Meta
  /\ dram \in [addr : Buckets \cup {Null}, shift : 0..MaxShift]
  /\ cellShift \in [Buckets -> 0..MaxShift]
  /\ free \subseteq Buckets
  /\ retired \subseteq Buckets
  /\ pc \in {"idle", "down"} \cup Updating \cup Copying

(* The program's view of the bucket, and that of the BucketMetaPmem, which  *)
(* follows it until the new version is stored.                              *)
Follows ==
  /\ free \cap retired = {}
  /\ pc # "down" => dram.addr \in InUse
  /\ pc \in Copying => old \in InUse /\ old # dram.addr
  /\ pc = "down" => retired = {}
  /\ pc \notin {"down", "commit", "fields", "switch"} => Extract(meta) = dram
  /\ pc \in {"commit", "fields", "switch"} => Extract(meta).addr = old
  /\ pc \in {"fields", "switch"} => Other(meta) = dram
  /\ pc = "switched" => Other(meta).addr = old

(* Until the pointer to the bucket was lost, what it names is a bucket with *)
(* its own number of cells.                                                 *)
Counts ==
  "bucket" \notin lost =>
    /\ pc # "down" => dram = Entry(dram.addr)
    /\ pc = "down" => /\ Extract(meta).addr \in InUse
                      /\ Extract(meta) = Entry(Extract(meta).addr)
    /\ pc \in {"commit", "fields", "switch"} => Extract(meta) = Entry(old)
    /\ pc = "switched" => Other(meta) = Entry(old)

(* What is in persistent memory, but for the pointers that nobody flushes:  *)
(* two stores, each flushed before the next.                                *)
Lags ==
  /\ pc \notin {"fields", "switched"} => WholeMeta = meta
  /\ pc = "fields" => Extract(WholeMeta) = Extract(meta)
  /\ pc = "switched" => Extract(WholeMeta) \in {Extract(meta), Other(meta)}

MetaInv == MetaTypeOK /\ Follows /\ Counts /\ Lags

LEMMA WholeBack ==
  ASSUME NEW p \in Meta, NEW m \in Meta
  PROVE  /\ MetaBack(p, m) \in Meta
         /\ SecondBack(p, m) \in Meta
         /\ SecondBack(MetaBack(p, m), m) = m
         /\ SecondBack(SecondBack(p, m), m) = SecondBack(p, m)
         /\ SecondBack(m, m) = m
<1> DEFINE f == [i \in {1, 2} |-> IF i \in second THEN m.ptr[i] ELSE p.ptr[i]]
           g == [i \in {1, 2} |-> IF i \in second THEN p.ptr[i] ELSE m.ptr[i]]
<1>1. /\ f \in [{1, 2} -> Buckets \cup {Null}] /\ g \in [{1, 2} -> Buckets \cup {Null}]
  BY DEF Meta
<1>2. SecondBack(p, m) = [cur_ver_ |-> p.cur_ver_, ptr |-> f, shift |-> p.shift]
  BY DEF SecondBack, Meta
<1>3. MetaBack(p, m) = [cur_ver_ |-> m.cur_ver_, ptr |-> g, shift |-> m.shift]
  BY DEF MetaBack, Meta
<1>4. MetaBack(p, m) \in Meta /\ SecondBack(p, m) \in Meta
  BY <1>1, <1>2, <1>3 DEF Meta
<1>5. SecondBack(MetaBack(p, m), m) = m
  <2>1. [i \in {1, 2} |-> IF i \in second THEN m.ptr[i] ELSE g[i]] = m.ptr
    BY DEF Meta
  <2> HIDE DEF g
  <2>2. SecondBack(MetaBack(p, m), m)
          = [cur_ver_ |-> m.cur_ver_, ptr |-> m.ptr, shift |-> m.shift]
    BY <1>3, <2>1 DEF SecondBack
  <2> QED
    BY <2>2 DEF Meta
<1>6. SecondBack(SecondBack(p, m), m) = SecondBack(p, m)
  <2>1. [i \in {1, 2} |-> IF i \in second THEN m.ptr[i] ELSE f[i]] = f
    OBVIOUS
  <2> HIDE DEF f
  <2> QED
    BY <1>2, <2>1 DEF SecondBack
<1>7. SecondBack(m, m) = m
  <2>1. [i \in {1, 2} |-> IF i \in second THEN m.ptr[i] ELSE m.ptr[i]] = m.ptr
    BY DEF Meta
  <2> QED
    BY <2>1 DEF SecondBack, Meta
<1> QED
  BY <1>4, <1>5, <1>6, <1>7

LEMMA MetaInit == Init => MetaInv
<1> SUFFICES ASSUME Init
             PROVE  MetaInv
  OBVIOUS
<1>1. PICK b \in Buckets :
        /\ meta = [cur_ver_ |-> 1, ptr |-> <<b, Null>>, shift |-> <<InitShift, 0>>]
        /\ free = Buckets \ {b}
  BY DEF Init
<1>2. meta \in Meta
  BY <1>1, ShiftAssumption DEF Meta
<1>3. Extract(meta) = [addr |-> b, shift |-> InitShift]
  BY <1>1 DEF Extract
<1>4. lines \in Nat /\ second \subseteq {1, 2} /\ flushes \in BOOLEAN
  BY LayoutsAssumption DEF Init
<1>5. MetaTypeOK
  BY <1>1, <1>2, <1>3, <1>4, ShiftAssumption DEF Init, MetaTypeOK
<1>6. WholeMeta = meta
  BY <1>2, WholeBack DEF Init, WholeMeta
<1> QED
  BY <1>1, <1>3, <1>5, <1>6 DEF Init, MetaInv, Follows, Counts, Lags, InUse, Entry, Copying

(* Before and after every step.                                             *)
LEMMA WholeTyped ==
  ASSUME MetaTypeOK
  PROVE  /\ WholeMeta \in Meta
         /\ Durable.shift = Extract(WholeMeta).shift
         /\ Reached => Durable = Extract(WholeMeta)
BY WholeBack DEF MetaTypeOK, WholeMeta, Durable, Extract, SecondBack, Meta, Reached

(* A write-back of the BucketMetaPmem or of a part of it.                   *)
LEMMA WholeEvict ==
  ASSUME MetaTypeOK, UNCHANGED <<second, meta>>,
         pmMeta' \in {pmMeta, MetaBack(pmMeta, meta), SecondBack(pmMeta, meta)}
  PROVE  /\ pmMeta' \in Meta
         /\ WholeMeta' \in {WholeMeta, meta}
         /\ pmMeta' = MetaBack(pmMeta, meta) => WholeMeta' = meta
<1>1. WholeMeta' = SecondBack(pmMeta', meta)
  BY DEF WholeMeta, SecondBack
<1> QED
  BY <1>1, WholeBack DEF MetaTypeOK, WholeMeta

(* The steps that leave the entries of the bucket alone.                    *)
LEMMA MetaKept ==
  ASSUME MetaInv, MetaTypeOK', UNCHANGED <<layVars, lost, meta, pmMeta, dram, cellShift>>,
         free' \cup retired' \subseteq free \cup retired, free' \cap retired' = {},
         retired' \subseteq retired,
         \/ pc' = pc /\ old' = old
         \/ /\ pc \in {"idle"} \cup Updating
            /\ pc' \in {"idle"} \cup Updating
  PROVE  MetaInv'
<1>1. InUse \subseteq InUse'
  BY DEF InUse
<1>2. Extract(meta)' = Extract(meta) /\ Extract(WholeMeta)' = Extract(WholeMeta)
      /\ Other(meta)' = Other(meta) /\ WholeMeta' = WholeMeta
  BY DEF Extract, Other, WholeMeta, SecondBack, layVars
<1>3. \A b : Entry(b)' = Entry(b)
  BY DEF Entry
<1>4. Follows' /\ Counts'
  BY <1>1, <1>2, <1>3 DEF MetaInv, Follows, Counts, Updating, Copying
<1>5. Lags'
  BY <1>2 DEF MetaInv, Lags, Updating
<1> QED
  BY <1>4, <1>5 DEF MetaInv

LEMMA MetaStep ==
  ASSUME MetaInv, [Next]_vars
  PROVE  MetaInv'
<1> USE DEF MetaInv, MetaTypeOK, Updating, Copying
<1>1. ASSUME NEW k \in Keys, NEW d \in Data, NEW v \in Values, StoreSlot(k, d, v)
      PROVE  MetaInv'
  <2>1. /\ UNCHANGED <<layVars, lost, meta, pmMeta, dram, cellShift, free, retired>>
        /\ pc = "idle" /\ pc' \in {"record", "store", "bits"}
    BY <1>1 DEF StoreSlot, Goto, allocVars, layVars
  <2> QED
    BY <2>1, MetaKept DEF Follows, layVars
<1>2. ASSUME NEW k \in Keys, Delete(k)
      PROVE  MetaInv'
  <2>1. /\ UNCHANGED <<layVars, lost, meta, pmMeta, dram, cellShift, free, retired>>
        /\ pc = "idle" /\ pc' = "head"
    BY <1>2 DEF Delete, Goto, allocVars, layVars
  <2> QED
    BY <2>1, MetaKept DEF Follows, layVars
<1>3. CASE FlushRecord \/ FlushSlot \/ StoreVersion \/ FlushHead
  <2>1. /\ UNCHANGED <<layVars, lost, meta, pmMeta, dram, cellShift, free, retired>>
        /\ pc \in {"record", "store", "bits", "head"} /\ pc' \in {"store", "bits", "head", "idle"}
    BY <1>3 DEF FlushRecord, FlushSlot, StoreVersion, FlushHead, Goto, recVars, allocVars, memVars
  <2> QED
    BY <2>1, MetaKept DEF Follows, layVars
<1>5. ASSUME NEW r \in Records, ReleaseRecord(r)
      PROVE  MetaInv'
  <2>1. UNCHANGED <<layVars, lost, meta, pmMeta, dram, cellShift, free, retired, pc, old>>
    BY <1>5 DEF ReleaseRecord, memVars, allocVars, opVars
  <2> QED
    BY <2>1, MetaKept DEF Follows, layVars
<1>6. ASSUME NEW b \in Buckets, Release(b)
      PROVE  MetaInv'
  <2>1. /\ UNCHANGED <<layVars, lost, meta, pmMeta, dram, cellShift, pc, old>>
        /\ free' \cup retired' \subseteq free \cup retired
        /\ free' \subseteq Buckets /\ retired' \subseteq Buckets
        /\ free' \cap retired' = {} /\ retired' \subseteq retired
    BY <1>6 DEF Release, recVars, opVars, Follows
  <2> QED
    BY <2>1, MetaKept DEF Follows, layVars
<1>7. CASE Evict
  <2>1. /\ UNCHANGED <<layVars, lost, meta, dram, cellShift, free, retired, pc, old>>
        /\ pmMeta' \in {pmMeta, MetaBack(pmMeta, meta), SecondBack(pmMeta, meta)}
    BY <1>7 DEF Evict, allocVars, opVars
  <2>2. pmMeta' \in Meta /\ WholeMeta' \in {WholeMeta, meta}
    BY <2>1, WholeEvict DEF layVars
  <2> QED
    BY <2>1, <2>2 DEF Follows, Counts, Lags, InUse, Entry, Extract, Other, layVars
<1>8. ASSUME NEW b \in Buckets, NEW s \in InitShift..MaxShift, NEW f \in Places(cell),
             FillBucket(b, s, f)
      PROVE  MetaInv'
  <2>1. /\ UNCHANGED <<layVars, lost, meta, pmMeta, dram, retired>>
        /\ pc = "idle" /\ pc' = "filled" /\ old' = b
        /\ b \in free /\ free' = free \ {b}
        /\ cellShift' = [cellShift EXCEPT ![b] = s]
    BY <1>8 DEF FillBucket, Goto, recVars
  <2>2. s \in 0..MaxShift
    BY ShiftAssumption
  <2>3. cellShift' \in [Buckets -> 0..MaxShift] /\ free' \subseteq Buckets
    BY <2>1, <2>2
  <2>4. \A c \in InUse : c \in InUse' /\ c # b /\ Entry(c)' = Entry(c)
    BY <2>1 DEF InUse, Entry
  <2>5. /\ dram.addr \in InUse /\ Extract(meta) = dram /\ WholeMeta = meta
        /\ "bucket" \notin lost => dram = Entry(dram.addr)
        /\ WholeMeta' = WholeMeta
    BY <2>1 DEF Follows, Counts, Lags, WholeMeta, SecondBack, layVars
  <2>6. old' \in InUse' /\ old' # dram'.addr
    BY <2>1, <2>4, <2>5 DEF InUse, Follows
  <2>7. /\ Extract(meta)' = dram' /\ dram'.addr \in InUse'
        /\ "bucket" \notin lost' => dram' = Entry(dram.addr)'
    BY <2>1, <2>4, <2>5 DEF Extract, Entry
  <2> QED
    BY <2>1, <2>3, <2>5, <2>6, <2>7 DEF Follows, Counts, Lags, layVars
<1>9. CASE FlushBucket
  <2>1. /\ UNCHANGED <<layVars, lost, meta, pmMeta, dram, cellShift, free, retired, old>>
        /\ pc = "filled" /\ pc' = "reset"
    BY <1>9 DEF FlushBucket, Goto, recVars, allocVars, opVars
  <2> QED
    BY <2>1 DEF Follows, Counts, Lags, InUse, Entry, Extract, Other, WholeMeta, SecondBack, layVars
<1>10. CASE ResetDram
  <2>1. /\ UNCHANGED <<layVars, lost, meta, pmMeta, cellShift, free, retired>>
        /\ pc = "reset" /\ pc' = "commit"
        /\ dram' = Entry(old) /\ old' = dram.addr
    BY <1>10 DEF ResetDram, Goto, recVars, allocVars, memVars, Entry
  <2>2. /\ old \in InUse /\ old # dram.addr /\ dram.addr \in InUse /\ Extract(meta) = dram
        /\ "bucket" \notin lost => dram = Entry(dram.addr)
    BY <2>1 DEF Follows, Counts
  <2>3. dram' \in [addr : Buckets \cup {Null}, shift : 0..MaxShift] /\ WholeMeta' = WholeMeta
    BY <2>1, <2>2 DEF Entry, InUse, WholeMeta, SecondBack, layVars
  <2> QED
    BY <2>1, <2>2, <2>3 DEF Follows, Counts, Lags, InUse, Entry, Extract, Other, layVars
<1>11. CASE StoreFields
  <2>1. /\ UNCHANGED <<layVars, lost, pmMeta, dram, cellShift, free, retired, old>>
        /\ pc = "commit" /\ pc' = "fields"
        /\ meta' = [meta EXCEPT !.ptr[3 - meta.cur_ver_] = dram.addr,
                                !.shift[3 - meta.cur_ver_] = dram.shift]
    BY <1>11 DEF StoreFields, Goto, recVars, allocVars, opVars
  <2>2. /\ meta' \in Meta /\ meta'.cur_ver_ = meta.cur_ver_
        /\ Extract(meta)' = Extract(meta)
        /\ Other(meta)' = [addr |-> dram.addr, shift |-> dram.shift]
    <3>1. /\ meta.cur_ver_ \in {1, 2} /\ 3 - meta.cur_ver_ \in {1, 2}
          /\ 3 - meta.cur_ver_ # meta.cur_ver_
          /\ dram.addr \in Buckets \cup {Null} /\ dram.shift \in 0..MaxShift
      BY DEF Meta
    <3>2. /\ meta' = [cur_ver_ |-> meta.cur_ver_,
                      ptr |-> [meta.ptr EXCEPT ![3 - meta.cur_ver_] = dram.addr],
                      shift |-> [meta.shift EXCEPT ![3 - meta.cur_ver_] = dram.shift]]
      BY <2>1 DEF Meta
    <3> QED
      BY <3>1, <3>2 DEF Meta, Extract, Other
  <2>3. /\ Extract(WholeMeta)' = Extract(meta)'
    <3>1. WholeMeta = meta
      BY <2>1 DEF Lags
    <3>2. WholeMeta' = SecondBack(pmMeta, meta')
      BY <2>1 DEF WholeMeta, SecondBack, layVars
    <3>3. /\ WholeMeta'.cur_ver_ = meta.cur_ver_ /\ WholeMeta'.shift = meta.shift
          /\ pmMeta.cur_ver_ = meta.cur_ver_
      BY <3>1, <3>2 DEF WholeMeta, SecondBack, Meta
    <3>4. meta'.ptr[meta.cur_ver_] = meta.ptr[meta.cur_ver_] /\ meta.cur_ver_ \in {1, 2}
          /\ meta'.shift[meta.cur_ver_] = meta.shift[meta.cur_ver_]
      BY <2>2 DEF Extract, Meta
    <3>5. WholeMeta'.ptr[meta.cur_ver_] = meta.ptr[meta.cur_ver_]
      <4>1. /\ WholeMeta'.ptr[meta.cur_ver_] = IF meta.cur_ver_ \in second THEN meta'.ptr[meta.cur_ver_]
                                               ELSE pmMeta.ptr[meta.cur_ver_]
            /\ WholeMeta.ptr[meta.cur_ver_] = IF meta.cur_ver_ \in second THEN meta.ptr[meta.cur_ver_]
                                              ELSE pmMeta.ptr[meta.cur_ver_]
        BY <3>2, <3>4 DEF WholeMeta, SecondBack, Meta
      <4> QED
        BY <3>1, <3>4, <4>1
    <3> QED
      BY <2>2, <3>3, <3>4, <3>5 DEF Extract
  <2> QED
    BY <2>1, <2>2, <2>3 DEF Follows, Counts, Lags, InUse, Entry, Extract, layVars
<1>12. CASE FlushFields
  <2>1. /\ UNCHANGED <<layVars, lost, meta, dram, cellShift, free, retired, old>>
        /\ pc = "fields" /\ pc' = "switch"
        /\ pmMeta' = MetaBack(pmMeta, meta)
    BY <1>12 DEF FlushFields, Goto, recVars, allocVars, opVars
  <2>2. pmMeta' \in Meta /\ WholeMeta' = meta
    BY <2>1, WholeEvict DEF layVars
  <2> QED
    BY <2>1, <2>2 DEF Follows, Counts, Lags, InUse, Entry, Extract, Other, layVars
<1>13. CASE SwitchVersion
  <2>1. /\ UNCHANGED <<layVars, lost, pmMeta, dram, cellShift, free, retired, old>>
        /\ pc = "switch" /\ pc' = "switched"
        /\ meta' = [meta EXCEPT !.cur_ver_ = 3 - @]
    BY <1>13 DEF SwitchVersion, Goto, recVars, allocVars, opVars
  <2>2. /\ meta' \in Meta
        /\ Extract(meta)' = Other(meta) /\ Other(meta)' = Extract(meta)
    BY <2>1 DEF Meta, Extract, Other
  <2>3. /\ WholeMeta = meta /\ Other(meta) = dram /\ Extract(meta).addr = old
        /\ "bucket" \notin lost => Extract(meta) = Entry(old)
        /\ Entry(old)' = Entry(old)
    BY <2>1 DEF Follows, Counts, Lags, Extract, Entry
  <2>4. WholeMeta' = WholeMeta
    <3>1. meta'.ptr = meta.ptr
      BY <2>1 DEF Meta
    <3> QED
      BY <2>1, <3>1 DEF WholeMeta, SecondBack, layVars
  <2> QED
    BY <2>1, <2>2, <2>3, <2>4 DEF Follows, Counts, Lags, InUse, Entry, Extract, layVars
<1>14. CASE FlushSwitch
  <2>1. /\ UNCHANGED <<layVars, lost, meta, dram, cellShift, free, retired, old>>
        /\ pc = "switched" /\ pc' = "retire"
        /\ pmMeta' = MetaBack(pmMeta, meta)
    BY <1>14 DEF FlushSwitch, Goto, recVars, allocVars, opVars
  <2>2. pmMeta' \in Meta /\ WholeMeta' = meta
    BY <2>1, WholeEvict DEF layVars
  <2> QED
    BY <2>1, <2>2 DEF Follows, Counts, Lags, InUse, Entry, Extract, Other, layVars
<1>15. CASE RetireBucket
  <2>1. /\ UNCHANGED <<layVars, lost, meta, pmMeta, dram, cellShift, free>>
        /\ pc = "retire" /\ pc' = "idle"
        /\ retired' = retired \cup {old}
    BY <1>15 DEF RetireBucket, Goto, recVars, memVars
  <2> QED
    BY <2>1 DEF Follows, Counts, Lags, InUse, Entry, Extract, Other, WholeMeta, SecondBack, layVars
<1>16. CASE Crash
  <2>1. /\ UNCHANGED <<layVars, pmMeta, dram, cellShift, free>>
        /\ pc # "down" /\ pc' = "down"
        /\ meta' = pmMeta /\ retired' = {}
        /\ lost \subseteq lost' /\ lost' \subseteq {"bucket", "value"}
        /\ "bucket" \notin lost' => Reached
    BY <1>16 DEF Crash, Goto
  <2>2. WholeMeta' = meta'
    BY <2>1, WholeBack DEF WholeMeta, SecondBack, layVars
  <2>3. "bucket" \notin lost' => /\ Extract(pmMeta).addr \in InUse
                                /\ Extract(pmMeta) = Entry(Extract(pmMeta).addr)
    <3> SUFFICES ASSUME "bucket" \notin lost'
                 PROVE  /\ Extract(pmMeta).addr \in InUse
                        /\ Extract(pmMeta) = Entry(Extract(pmMeta).addr)
      OBVIOUS
    <3>1. Extract(pmMeta) = Extract(WholeMeta)
      BY <2>1 DEF Reached, Durable
    <3>2. Extract(WholeMeta) \in {dram, Entry(old)}
      BY <2>1 DEF Follows, Counts, Lags
    <3> QED
      BY <2>1, <3>1, <3>2 DEF Follows, Counts, Lags, Entry
  <2> QED
    BY <2>1, <2>2, <2>3 DEF Follows, Counts, Lags, InUse, Entry, Extract, layVars
<1>17. CASE Recover
  <2>1. /\ UNCHANGED <<layVars, lost, meta, pmMeta, cellShift, retired>>
        /\ pc = "down" /\ pc' = "idle" /\ Extract(meta).addr # Null
        /\ dram' = Extract(meta) /\ free' = Buckets \ {Extract(meta).addr}
    BY <1>17 DEF Recover, Goto
  <2>2. /\ retired = {}
        /\ "bucket" \notin lost => Extract(meta) = Entry(Extract(meta).addr)
    BY <2>1 DEF Follows, Counts
  <2>3. Extract(meta).addr \in Buckets /\ dram' \in [addr : Buckets \cup {Null}, shift : 0..MaxShift]
    BY <2>1 DEF Meta, Extract
  <2>4. WholeMeta' = WholeMeta
    BY <2>1 DEF WholeMeta, SecondBack, layVars
  <2> QED
    BY <2>1, <2>2, <2>3, <2>4 DEF Follows, Counts, Lags, InUse, Entry, Extract, layVars
<1>18. CASE UNCHANGED vars
  <2>1. UNCHANGED <<layVars, lost, meta, pmMeta, dram, cellShift, free, retired, pc, old>>
    BY <1>18 DEF vars, recVars, memVars, allocVars, opVars
  <2> QED
    BY <2>1, MetaKept DEF Follows, layVars
<1> QED
  BY <1>1, <1>2, <1>3, <1>5, <1>6, <1>7, <1>8, <1>9, <1>10, <1>11, <1>12,
     <1>13, <1>14, <1>15, <1>16, <1>17, <1>18 DEF Next, Rehash

LEMMA MetaCorrect == Spec => []MetaInv
<1>1. MetaInv /\ [Next]_vars => MetaInv'
  BY MetaStep
<1> QED
  BY <1>1, MetaInit, PTL DEF Spec

(* A crash at any step of a rehash leaves a BucketMetaPmem that names a     *)
(* bucket in use with its own number of cells, in every layout of the       *)
(* table, unless the pointer to it lay in the line that Store does not      *)
(* flush and had not been written back.                                     *)
THEOREM BucketRecovered == Spec => []RecoversBucket
<1>1. MetaInv => RecoversBucket
  <2> SUFFICES ASSUME MetaInv, "bucket" \notin lost, Reached
               PROVE  RebootsFromLastState
    BY DEF RecoversBucket
  <2>1. Durable = Extract(WholeMeta)
    BY DEF Reached
  <2> QED
    BY <2>1 DEF MetaInv, MetaTypeOK, Follows, Counts, Lags, RebootsFromLastState, InUse, Entry,
       Updating, Copying, Extract, Other
<1> QED
  BY <1>1, MetaCorrect, PTL

-----------------------------------------------------------------------------
(* Cells and records                                                        *)

(* Encoded, Decoded and ValueIn with the number of lines as an argument.    *)
EncodedIn(n, d) == [l \in 1..n |-> d]

DecodedIn(n, v, mem) ==
  IF n = 0 THEN v
  ELSE IF \E d \in Data : mem[v] = EncodedIn(n, d)
       THEN CHOOSE d \in Data : mem[v] = EncodedIn(n, d)
       ELSE Zeroed

ValIn(n, c, mem, k) ==
  IF MatchBitSet(c, k) = {} THEN Absent
  ELSE DecodedIn(n, c.slot[CHOOSE i \in MatchBitSet(c, k) : TRUE].val, mem)

(* A slot that holds a value: the value itself or a record with it.         *)
HoldsValue(n, mem, v) ==
  IF n = 0 THEN v \in Data
  ELSE v \in Records /\ \E d \in Data : mem[v] = EncodedIn(n, d)

(* One slot for a key, and no record behind two slots.                      *)
SoundIn(n, c, mem) ==
  /\ \A i \in ValidBitSet(c) :
       c.slot[i] \in Record /\ HoldsValue(n, mem, c.slot[i].val)
  /\ \A i, j \in ValidBitSet(c) :
       i # j => /\ c.slot[i].key # c.slot[j].key
                /\ n > 0 => c.slot[i].val # c.slot[j].val

(* None of the records a cell points to is in R.                            *)
Avoids(n, c, R) == n > 0 => \A i \in ValidBitSet(c) : c.slot[i].val \notin R

SameValues(n, c, e, mem) == \A k \in Keys : ValIn(n, c, mem, k) = ValIn(n, e, mem, k)

(* The cells and the records with the lines that nobody flushes, as a       *)
(* function of the bucket.                                                  *)
WC == [b \in Buckets |-> WholeCell(b)]

(* A cell whose slots point to records, if they point at all.               *)
PCell == {c \in Cell : lines > 0 => \A i \in Slots : c.slot[i] = Zeroed \/ c.slot[i].val \in Records}

HeapType == [Records -> [1..lines -> Data \cup {Zeroed}]]

ContentTypeOK ==
  /\ [lines |-> lines, second |-> second, flushes |-> flushes] \in Layouts
  /\ heap \in HeapType
  /\ pmHeap \in HeapType
  /\ freeRecs \subseteq Records
  /\ retiredRecs \subseteq Records
  /\ vol \in [Buckets -> PCell]
  /\ pmCells \in [Buckets -> PCell]
  /\ upd \in [key : Keys, val : Data \cup {Absent}] \cup {Null}
  /\ target \in Slots \cup {Null}
  /\ old \in Slots \cup Buckets \cup {Null}

(* The calls that are under way.                                            *)
Calls ==
  /\ pc \in Updating => upd \in [key : Keys, val : Data \cup {Absent}]
  /\ pc \notin Updating => upd = Null /\ target = Null
  /\ pc \notin Updating \cup Copying => old = Null
  /\ pc \in {"record", "store", "bits"} => target \in Slots /\ old \in Slots \cup {Null}
  /\ pc \in {"record", "store", "bits"} /\ old # Null => cell.slot[old].key \in Keys
  /\ pc = "record" => flushes /\ lines > 0
  /\ pc = "store" => flushes

TypeInv == ContentTypeOK /\ Calls

(* What a slot that is stored and not yet in the bitmap holds.              *)
Stored ==
  pc \in {"record", "store", "bits"} =>
    LET rec == cell.slot[target] IN
    /\ target \in Slots \ ValidBitSet(cell)
    /\ rec \in Record
    /\ rec.key = upd.key
    /\ upd.val \in Data
    /\ IF old = Null THEN MatchBitSet(cell, upd.key) = {}
       ELSE old \in MatchBitSet(cell, upd.key)
    /\ lines = 0 => rec.val = upd.val
    /\ lines > 0 => /\ rec.val \in Records \ (freeRecs \cup retiredRecs)
                    /\ heap[rec.val] = EncodedIn(lines, upd.val)
                    /\ Avoids(lines, cell, {rec.val})

(* What is flushed and not in persistent memory yet: the record, the slot   *)
(* or the version word of an update, and all of a bucket that a rehash      *)
(* filled.                                                                  *)
RecordsBack ==
  /\ pc # "record" => WholeHeap = heap
  /\ pc = "record" => \A r \in Records \ {cell.slot[target].val} : WholeHeap[r] = heap[r]

CellsBack ==
  \A b \in Buckets :
    \/ pc \in {"record", "store", "head"} /\ b = dram.addr
    \/ pc = "filled" /\ b = old
    \/ WC[b] = vol[b]

AgreeBut(t, p, v) ==
  /\ p.bitmap = v.bitmap
  /\ p.deleted = v.deleted
  /\ \A i \in Slots \ {t} : p.slot[i] = v.slot[i]

SlotsBack == pc \in {"record", "store"} => AgreeBut(target, WC[dram.addr], cell)

(* Until the version word is written back, the map is the one before the    *)
(* update or the one after it.                                              *)
HeadBacks ==
  pc = "head" =>
    /\ WC[dram.addr].slot = cell.slot
    /\ SoundIn(lines, WC[dram.addr], heap)
    /\ \A k \in Keys \ {upd.key} :
         ValIn(lines, WC[dram.addr], heap, k) = ValIn(lines, cell, heap, k)
    /\ ValIn(lines, cell, heap, upd.key) = upd.val

(* The bucket in use, its copy in a rehash, and what a crash left.          *)
Contents ==
  /\ freeRecs \cap retiredRecs = {}
  /\ pc # "down" =>
       /\ SoundIn(lines, cell, heap)
       /\ Avoids(lines, cell, freeRecs \cup retiredRecs)
  /\ pc \in Copying =>
       /\ SoundIn(lines, vol[old], heap)
       /\ Avoids(lines, vol[old], freeRecs \cup retiredRecs)
       /\ SameValues(lines, vol[old], cell, heap)
  /\ pc = "down" =>
       /\ retiredRecs = {}
       /\ SoundIn(lines, vol[Extract(meta).addr], heap)

ContentInv ==
  /\ Stored
  /\ RecordsBack
  /\ CellsBack
  /\ SlotsBack
  /\ HeadBacks
  /\ Contents

-----------------------------------------------------------------------------
(* What a cell holds                                                        *)

LEMMA EncodedOnce ==
  ASSUME NEW n \in Nat \ {0}, NEW d, NEW e, EncodedIn(n, d) = EncodedIn(n, e)
  PROVE  d = e
<1>1. 1 \in 1..n
  OBVIOUS
<1>2. EncodedIn(n, d)[1] = d /\ EncodedIn(n, e)[1] = e
  BY <1>1 DEF EncodedIn
<1> QED
  BY <1>2

LEMMA DecodedRecord ==
  ASSUME NEW n \in Nat \ {0}, NEW mem, NEW v, NEW d \in Data, mem[v] = EncodedIn(n, d)
  PROVE  DecodedIn(n, v, mem) = d
<1> DEFINE e == CHOOSE x \in Data : mem[v] = EncodedIn(n, x)
<1>1. e \in Data /\ mem[v] = EncodedIn(n, e)
  OBVIOUS
<1>2. e = d
  BY <1>1, EncodedOnce
<1> QED
  BY <1>2 DEF DecodedIn

LEMMA MatchOnce ==
  ASSUME NEW n, NEW c, NEW mem, SoundIn(n, c, mem), NEW k,
         NEW i \in MatchBitSet(c, k), NEW j \in MatchBitSet(c, k)
  PROVE  i = j
  BY DEF SoundIn, MatchBitSet

LEMMA ValHit ==
  ASSUME NEW n, NEW c, NEW mem, SoundIn(n, c, mem), NEW k, NEW i \in MatchBitSet(c, k)
  PROVE  ValIn(n, c, mem, k) = DecodedIn(n, c.slot[i].val, mem)
<1> DEFINE j == CHOOSE x \in MatchBitSet(c, k) : TRUE
<1>1. j \in MatchBitSet(c, k)
  OBVIOUS
<1>2. j = i
  BY <1>1, MatchOnce
<1> QED
  BY <1>2 DEF ValIn

LEMMA AvoidsLess ==
  ASSUME NEW n, NEW c, NEW R, NEW S, Avoids(n, c, R), S \subseteq R
  PROVE  Avoids(n, c, S)
  BY DEF Avoids

(* The cell e holds in the records mem2 what c holds in mem.                *)
Equivalent(n, c, mem, e, mem2) ==
  /\ SoundIn(n, e, mem2)
  /\ \A k : ValIn(n, e, mem2, k) = ValIn(n, c, mem, k)
  /\ \A R : Avoids(n, e, R) <=> Avoids(n, c, R)

(* What a key's value depends on: the valid slots and their records.        *)
LEMMA SameContent ==
  ASSUME NEW n \in Nat, NEW c, NEW e, NEW mem, NEW mem2,
         ValidBitSet(e) = ValidBitSet(c),
         \A i \in ValidBitSet(c) : e.slot[i] = c.slot[i],
         n > 0 => \A i \in ValidBitSet(c) : mem2[c.slot[i].val] = mem[c.slot[i].val],
         SoundIn(n, c, mem)
  PROVE  Equivalent(n, c, mem, e, mem2)
<1>1. SoundIn(n, e, mem2)
  BY DEF SoundIn, HoldsValue
<1>2. ASSUME NEW k
      PROVE  ValIn(n, e, mem2, k) = ValIn(n, c, mem, k)
  <2>1. MatchBitSet(e, k) = MatchBitSet(c, k)
    BY DEF MatchBitSet
  <2>2. CASE MatchBitSet(c, k) = {}
    BY <2>1, <2>2 DEF ValIn
  <2>3. ASSUME NEW i \in MatchBitSet(c, k)
        PROVE  ValIn(n, e, mem2, k) = ValIn(n, c, mem, k)
    <3>1. i \in ValidBitSet(c) /\ e.slot[i] = c.slot[i]
      BY DEF MatchBitSet
    <3>2. DecodedIn(n, c.slot[i].val, mem2) = DecodedIn(n, c.slot[i].val, mem)
      <4>1. CASE n = 0
        BY <4>1 DEF DecodedIn
      <4>2. CASE n # 0
        <5>1. PICK d \in Data : mem[c.slot[i].val] = EncodedIn(n, d)
          BY <4>2, <3>1 DEF SoundIn, HoldsValue
        <5>2. mem2[c.slot[i].val] = EncodedIn(n, d)
          BY <4>2, <3>1, <5>1
        <5>3. n \in Nat \ {0}
          BY <4>2
        <5>4. DecodedIn(n, c.slot[i].val, mem) = d
          BY <5>1, <5>3, DecodedRecord
        <5>5. DecodedIn(n, c.slot[i].val, mem2) = d
          BY <5>2, <5>3, DecodedRecord
        <5> QED
          BY <5>4, <5>5
      <4> QED
        BY <4>1, <4>2
    <3>3. ValIn(n, c, mem, k) = DecodedIn(n, c.slot[i].val, mem)
      BY ValHit
    <3>4. ValIn(n, e, mem2, k) = DecodedIn(n, e.slot[i].val, mem2)
      BY <1>1, <2>1, ValHit
    <3> QED
      BY <3>1, <3>2, <3>3, <3>4
  <2> QED
    BY <2>2, <2>3
<1>3. \A R : Avoids(n, e, R) <=> Avoids(n, c, R)
  BY DEF Avoids
<1> QED
  BY <1>1, <1>2, <1>3 DEF Equivalent

(* The cell e is as c, but for the value of k, which is x.                  *)
Updated(n, c, e, mem, k, x) ==
  /\ SoundIn(n, e, mem)
  /\ ValIn(n, e, mem, k) = x
  /\ \A k2 : k2 # k => ValIn(n, e, mem, k2) = ValIn(n, c, mem, k2)

(* A slot that comes into the bitmap, with or without the one it replaces.  *)
LEMMA StoredContent ==
  ASSUME NEW n \in Nat, NEW c, NEW e, NEW mem, NEW t, NEW O, NEW k, NEW d \in Data,
         SoundIn(n, c, mem),
         e.slot = c.slot,
         t \notin ValidBitSet(c),
         ValidBitSet(e) = (ValidBitSet(c) \cup {t}) \ O,
         O = MatchBitSet(c, k),
         c.slot[t] \in Record, c.slot[t].key = k,
         n = 0 => c.slot[t].val = d,
         n > 0 => /\ c.slot[t].val \in Records /\ mem[c.slot[t].val] = EncodedIn(n, d)
                  /\ Avoids(n, c, {c.slot[t].val})
  PROVE  Updated(n, c, e, mem, k, d)
<1>1. /\ t \in ValidBitSet(e)
      /\ \A i \in ValidBitSet(e) : i = t \/ (i \in ValidBitSet(c) /\ c.slot[i].key # k)
  BY DEF MatchBitSet
<1>2. HoldsValue(n, mem, c.slot[t].val)
  BY DEF HoldsValue
<1>3. SoundIn(n, e, mem)
  <2>1. \A i \in ValidBitSet(e) : e.slot[i] \in Record /\ HoldsValue(n, mem, e.slot[i].val)
    BY <1>1, <1>2 DEF SoundIn
  <2>2. ASSUME NEW i \in ValidBitSet(e), NEW j \in ValidBitSet(e), i # j
        PROVE  /\ e.slot[i].key # e.slot[j].key
               /\ n > 0 => e.slot[i].val # e.slot[j].val
    BY <1>1, <2>2 DEF SoundIn, Avoids
  <2> QED
    BY <2>1, <2>2 DEF SoundIn
<1>4. ValIn(n, e, mem, k) = d
  <2>1. t \in MatchBitSet(e, k)
    BY <1>1 DEF MatchBitSet
  <2>2. ValIn(n, e, mem, k) = DecodedIn(n, c.slot[t].val, mem)
    BY <1>3, <2>1, ValHit
  <2>3. DecodedIn(n, c.slot[t].val, mem) = d
    <3>1. CASE n = 0
      BY <3>1 DEF DecodedIn
    <3>2. CASE n # 0
      BY <3>2, DecodedRecord
    <3> QED
      BY <3>1, <3>2
  <2> QED
    BY <2>2, <2>3
<1>5. ASSUME NEW k2, k2 # k
      PROVE  ValIn(n, e, mem, k2) = ValIn(n, c, mem, k2)
  <2>1. MatchBitSet(e, k2) = MatchBitSet(c, k2)
    BY <1>1, <1>5 DEF MatchBitSet
  <2> QED
    BY <2>1 DEF ValIn
<1> QED
  BY <1>3, <1>4, <1>5 DEF Updated

(* A slot that is marked deleted.                                           *)
LEMMA ErasedContent ==
  ASSUME NEW n \in Nat, NEW c, NEW e, NEW mem, NEW k, NEW i \in MatchBitSet(c, k),
         SoundIn(n, c, mem), e.slot = c.slot, ValidBitSet(e) = ValidBitSet(c) \ {i}
  PROVE  Updated(n, c, e, mem, k, Absent)
<1>1. SoundIn(n, e, mem)
  BY DEF SoundIn
<1>2. MatchBitSet(e, k) = {}
  <2>1. \A j \in MatchBitSet(c, k) : j = i
    BY MatchOnce
  <2> QED
    BY <2>1 DEF MatchBitSet
<1>3. ASSUME NEW k2, k2 # k
      PROVE  ValIn(n, e, mem, k2) = ValIn(n, c, mem, k2)
  <2>1. MatchBitSet(e, k2) = MatchBitSet(c, k2)
    BY <1>3 DEF MatchBitSet
  <2> QED
    BY <2>1 DEF ValIn
<1> QED
  BY <1>1, <1>2, <1>3 DEF ValIn, Updated

(* A rehash moves every record to another slot and changes no value.        *)
LEMMA MovedContent ==
  ASSUME NEW n \in Nat, NEW c \in Cell, NEW mem, NEW f \in Places(c), SoundIn(n, c, mem)
  PROVE  /\ SoundIn(n, Moved(c, f), mem)
         /\ SameValues(n, Moved(c, f), c, mem)
         /\ \A R : Avoids(n, c, R) => Avoids(n, Moved(c, f), R)
<1> DEFINE e == Moved(c, f)
<1>1. /\ f \in [ValidBitSet(c) -> Slots]
      /\ \A i, j \in ValidBitSet(c) : f[i] = f[j] => i = j
  BY DEF Places
<1>2. ValidBitSet(e) = {f[i] : i \in ValidBitSet(c)}
  BY DEF Moved, ValidBitSet
<1>3. ASSUME NEW i \in ValidBitSet(c)
      PROVE  f[i] \in ValidBitSet(e) /\ e.slot[f[i]] = c.slot[i]
  <2> DEFINE j == CHOOSE x \in ValidBitSet(c) : f[x] = f[i]
  <2>1. j \in ValidBitSet(c) /\ f[j] = f[i]
    OBVIOUS
  <2>2. j = i
    BY <1>1, <2>1
  <2>3. f[i] \in Slots
    BY <1>1
  <2>4. e.slot[f[i]] = c.slot[j]
    BY <2>1, <2>3 DEF Moved
  <2> QED
    BY <1>2, <2>2, <2>4
<1>4. ASSUME NEW x \in ValidBitSet(e)
      PROVE  \E i \in ValidBitSet(c) : x = f[i] /\ e.slot[x] = c.slot[i]
  BY <1>2, <1>3
<1> HIDE DEF e
<1>6. SoundIn(n, e, mem)
  <2>1. \A x \in ValidBitSet(e) : e.slot[x] \in Record /\ HoldsValue(n, mem, e.slot[x].val)
    BY <1>4 DEF SoundIn
  <2>2. ASSUME NEW x \in ValidBitSet(e), NEW y \in ValidBitSet(e), x # y
        PROVE  /\ e.slot[x].key # e.slot[y].key
               /\ n > 0 => e.slot[x].val # e.slot[y].val
    <3>1. PICK i \in ValidBitSet(c) : x = f[i] /\ e.slot[x] = c.slot[i]
      BY <1>4
    <3>2. PICK j \in ValidBitSet(c) : y = f[j] /\ e.slot[y] = c.slot[j]
      BY <1>4
    <3>3. i # j
      BY <2>2, <3>1, <3>2
    <3> QED
      BY <3>1, <3>2, <3>3 DEF SoundIn
  <2> QED
    BY <2>1, <2>2 DEF SoundIn
<1>7. ASSUME NEW k \in Keys
      PROVE  ValIn(n, e, mem, k) = ValIn(n, c, mem, k)
  <2>1. CASE MatchBitSet(c, k) = {}
    <3>1. MatchBitSet(e, k) = {}
      BY <2>1, <1>4 DEF MatchBitSet
    <3> QED
      BY <2>1, <3>1 DEF ValIn
  <2>2. ASSUME NEW i \in MatchBitSet(c, k)
        PROVE  ValIn(n, e, mem, k) = ValIn(n, c, mem, k)
    <3>1. i \in ValidBitSet(c) /\ c.slot[i].key = k
      BY DEF MatchBitSet
    <3>2. f[i] \in MatchBitSet(e, k) /\ e.slot[f[i]] = c.slot[i]
      BY <3>1, <1>3 DEF MatchBitSet
    <3>3. ValIn(n, e, mem, k) = DecodedIn(n, e.slot[f[i]].val, mem)
      BY <1>6, <3>2, ValHit
    <3> QED
      BY <3>2, <3>3, ValHit
  <2> QED
    BY <2>1, <2>2
<1>8. \A R : Avoids(n, c, R) => Avoids(n, e, R)
  BY <1>4 DEF Avoids
<1> QED
  BY <1>6, <1>7, <1>8 DEF SameValues, e

-----------------------------------------------------------------------------
(* Write-back                                                               *)

LEMMA BackTyped ==
  ASSUME NEW p \in Cell, NEW v \in Cell, NEW i \in Slots
  PROVE  /\ HeadBack(p, v) \in Cell
         /\ LineBack(p, v, i) \in Cell
         /\ p = v => HeadBack(p, v) = p /\ LineBack(p, v, i) = p
         /\ p.slot = v.slot => HeadBack(p, v) = v /\ LineBack(p, v, i) \in {p, v}
<1>1. HeadBack(p, v) \in Cell
  BY DEF HeadBack, Cell
<1>2. SlotBack(p, v, i) = [bitmap |-> p.bitmap, deleted |-> p.deleted,
                           slot |-> [p.slot EXCEPT ![i] = v.slot[i]]]
  BY DEF SlotBack, Cell
<1>3. SlotBack(p, v, i) \in Cell
  BY <1>2 DEF Cell
<1>4. p.slot = v.slot => HeadBack(p, v) = v /\ SlotBack(p, v, i) = p
  <2>1. p = [bitmap |-> p.bitmap, deleted |-> p.deleted, slot |-> p.slot]
    BY DEF Cell
  <2>2. v = [bitmap |-> v.bitmap, deleted |-> v.deleted, slot |-> v.slot]
    BY DEF Cell
  <2>3. p.slot \in [Slots -> Record \cup {Zeroed}] /\ v.slot \in [Slots -> Record \cup {Zeroed}]
    BY DEF Cell
  <2>4. p.slot = v.slot => [p.slot EXCEPT ![i] = v.slot[i]] = p.slot
    BY <2>3
  <2>5. p.slot = v.slot =>
          [j \in Slots |-> IF j \in FirstLine THEN v.slot[j] ELSE p.slot[j]] = v.slot
    BY <2>3
  <2> QED
    BY <1>2, <2>1, <2>2, <2>4, <2>5 DEF HeadBack
<1> QED
  BY <1>1, <1>3, <1>4 DEF LineBack

(* A slot being written and a version word that is not disturb each other   *)
(* not.                                                                     *)
LEMMA BackPending ==
  ASSUME NEW p \in Cell, NEW v \in Cell, NEW t, NEW i \in Slots, AgreeBut(t, p, v),
         NEW x \in {HeadBack(p, v), LineBack(p, v, i)}
  PROVE  AgreeBut(t, x, v)
<1> USE DEF AgreeBut
<1>1. CASE x = HeadBack(p, v)
  BY <1>1 DEF HeadBack
<1>2. SlotBack(p, v, i) = [bitmap |-> p.bitmap, deleted |-> p.deleted,
                           slot |-> [p.slot EXCEPT ![i] = v.slot[i]]]
  BY DEF SlotBack, Cell
<1>3. CASE x = SlotBack(p, v, i)
  BY <1>2, <1>3 DEF Cell
<1> QED
  BY <1>1, <1>3 DEF LineBack

(* Once the slot is written back, the cell is.                              *)
LEMMA LineDone ==
  ASSUME NEW p \in Cell, NEW v \in Cell, NEW t \in Slots, AgreeBut(t, p, v)
  PROVE  LineBack(p, v, t) = v
<1> USE DEF AgreeBut
<1>1. v = [bitmap |-> v.bitmap, deleted |-> v.deleted, slot |-> v.slot]
      /\ p.slot \in [Slots -> Record \cup {Zeroed}] /\ v.slot \in [Slots -> Record \cup {Zeroed}]
  BY DEF Cell
<1>2. SlotBack(p, v, t) = [bitmap |-> p.bitmap, deleted |-> p.deleted,
                           slot |-> [p.slot EXCEPT ![t] = v.slot[t]]]
  BY DEF SlotBack, Cell
<1>3. [p.slot EXCEPT ![t] = v.slot[t]] = v.slot
  BY <1>1
<1>4. t \in FirstLine =>
        [j \in Slots |-> IF j \in FirstLine THEN v.slot[j] ELSE p.slot[j]] = v.slot
  BY <1>1
<1> QED
  BY <1>1, <1>2, <1>3, <1>4 DEF LineBack, HeadBack

-----------------------------------------------------------------------------
(* What the variables hold, in every layout and whatever was lost           *)

LEMMA PCells ==
  ASSUME NEW p \in PCell, NEW v \in PCell
  PROVE  /\ HeadBack(p, v) \in PCell
         /\ \A i \in Slots : LineBack(p, v, i) \in PCell
         /\ EmptyCell \in PCell
         /\ \A f \in Places(p) : Moved(p, f) \in PCell
<1> USE DEF PCell
<1>1. HeadBack(p, v) \in PCell
  <2>1. HeadBack(p, v) \in Cell
    BY DEF HeadBack, Cell
  <2> QED
    BY <2>1 DEF HeadBack
<1>2. ASSUME NEW i \in Slots
      PROVE  LineBack(p, v, i) \in PCell
  <2>1. SlotBack(p, v, i) = [bitmap |-> p.bitmap, deleted |-> p.deleted,
                             slot |-> [p.slot EXCEPT ![i] = v.slot[i]]]
    BY DEF SlotBack, Cell
  <2>2. SlotBack(p, v, i) \in Cell
    BY <2>1 DEF Cell
  <2>3. \A j \in Slots : SlotBack(p, v, i).slot[j] \in {p.slot[j], v.slot[j]}
    BY <2>1 DEF Cell
  <2>4. SlotBack(p, v, i) \in PCell
    BY <2>2, <2>3
  <2> QED
    BY <1>1, <2>4 DEF LineBack
<1>3. EmptyCell \in PCell
  BY DEF EmptyCell, Cell
<1>4. ASSUME NEW f \in Places(p)
      PROVE  Moved(p, f) \in PCell
  <2> DEFINE e == Moved(p, f)
  <2>1. ValidBitSet(p) \subseteq Slots /\ f \in [ValidBitSet(p) -> Slots]
    BY DEF ValidBitSet, Cell, Places
  <2>2. ASSUME NEW j \in Slots
        PROVE  e.slot[j] = Zeroed \/ \E i \in Slots : e.slot[j] = p.slot[i]
    BY <2>1 DEF Moved
  <2>3. e.slot \in [Slots -> Record \cup {Zeroed}]
    <3>1. \A j \in Slots : e.slot[j] \in Record \cup {Zeroed}
      BY <2>2 DEF Cell
    <3> QED
      BY <3>1 DEF Moved
  <2>4. e = [bitmap |-> {f[i] : i \in ValidBitSet(p)}, deleted |-> {}, slot |-> e.slot]
    BY DEF Moved
  <2>5. {f[i] : i \in ValidBitSet(p)} \subseteq Slots
    BY <2>1
  <2> HIDE DEF e
  <2>6. e \in Cell
    BY <2>3, <2>4, <2>5 DEF Cell
  <2> QED
    BY <2>2, <2>6 DEF e
<1> QED
  BY <1>1, <1>2, <1>3, <1>4

(* A cell with other bitmaps.                                               *)
LEMMA SameSlots ==
  ASSUME NEW c \in PCell, NEW x \in SUBSET Slots, NEW y \in SUBSET Slots
  PROVE  [bitmap |-> x, deleted |-> y, slot |-> c.slot] \in PCell
BY DEF PCell, Cell

LEMMA Typed ==
  ASSUME TypeInv
  PROVE  /\ lines \in Nat /\ flushes \in BOOLEAN
         /\ heap \in HeapType /\ WholeHeap \in HeapType
         /\ freeRecs \subseteq Records /\ retiredRecs \subseteq Records
         /\ vol \in [Buckets -> Cell] /\ pmCells \in [Buckets -> Cell]
         /\ WC \in [Buckets -> Cell]
<1>1. lines \in Nat /\ flushes \in BOOLEAN
  BY LayoutsAssumption DEF TypeInv, ContentTypeOK
<1>2. vol \in [Buckets -> Cell] /\ pmCells \in [Buckets -> Cell]
  BY DEF TypeInv, ContentTypeOK, PCell
<1>3. ASSUME NEW b \in Buckets
      PROVE  WholeCell(b) \in Cell
  <2>1. [pmCells[b] EXCEPT !.slot = vol[b].slot]
          = [bitmap |-> pmCells[b].bitmap, deleted |-> pmCells[b].deleted, slot |-> vol[b].slot]
    BY <1>2 DEF Cell
  <2> QED
    BY <1>2, <2>1 DEF WholeCell, Cell
<1>4. WholeHeap \in HeapType
  BY <1>1 DEF TypeInv, ContentTypeOK, WholeHeap, HeapType
<1> QED
  BY <1>1, <1>2, <1>3, <1>4 DEF TypeInv, ContentTypeOK, WC

LEMMA ForgetTyped ==
  ASSUME NEW R \in SUBSET Records, NEW mem \in HeapType
  PROVE  /\ ForgetRecords(mem, R) \in HeapType
         /\ \A r \in Records \ R : ForgetRecords(mem, R)[r] = mem[r]
  BY DEF ForgetRecords, Encoded, HeapType

LEMMA BitmapsStored ==
  ASSUME NEW c \in Cell, NEW b, NEW i
  PROVE  /\ [c EXCEPT !.deleted = @ \cup {i}]
              = [bitmap |-> c.bitmap, deleted |-> c.deleted \cup {i}, slot |-> c.slot]
         /\ [c EXCEPT !.bitmap = b, !.deleted = @ \ {i}]
              = [bitmap |-> b, deleted |-> c.deleted \ {i}, slot |-> c.slot]
<1>1. PICK x, y, z : c = [bitmap |-> x, deleted |-> y, slot |-> z]
  BY DEF Cell
<1>2. [c EXCEPT !.deleted = @ \cup {i}]
        = [bitmap |-> c.bitmap, deleted |-> c.deleted \cup {i}, slot |-> c.slot]
  BY <1>1
<1>3. [c EXCEPT !.bitmap = b] = [bitmap |-> b, deleted |-> c.deleted, slot |-> c.slot]
  BY <1>1
<1>4. [[bitmap |-> b, deleted |-> c.deleted, slot |-> c.slot] EXCEPT !.deleted = @ \ {i}]
        = [bitmap |-> b, deleted |-> c.deleted \ {i}, slot |-> c.slot]
  OBVIOUS
<1>5. [c EXCEPT !.bitmap = b, !.deleted = @ \ {i}]
        = [bitmap |-> b, deleted |-> c.deleted \ {i}, slot |-> c.slot]
  BY <1>3, <1>4
<1> QED
  BY <1>2, <1>5

LEMMA TypeInit == Init => TypeInv
<1> SUFFICES ASSUME Init
             PROVE  TypeInv
  OBVIOUS
<1>1. EmptyCell \in PCell
  BY DEF EmptyCell, PCell, Cell
<1>2. [lines |-> lines, second |-> second, flushes |-> flushes] \in Layouts /\ lines \in Nat
  BY LayoutsAssumption DEF Init
<1>3. heap \in HeapType
  BY <1>2 DEF Init, Encoded, HeapType
<1> QED
  BY <1>1, <1>2, <1>3 DEF Init, TypeInv, ContentTypeOK, Calls, Updating, Copying

(* One line of a record.                                                    *)
LEMMA LineStored ==
  ASSUME NEW p \in HeapType, NEW m \in HeapType, NEW r, NEW l
  PROVE  [p EXCEPT ![r][l] = m[r][l]] \in HeapType
<1>1. CASE r \in Records /\ l \in 1..lines
  BY <1>1 DEF HeapType
<1>2. CASE r \in Records /\ l \notin 1..lines
  BY <1>2 DEF HeapType
<1>3. CASE r \notin Records
  BY <1>3 DEF HeapType
<1> QED
  BY <1>1, <1>2, <1>3

(* A cell that stays typed when it gets a record.                           *)
LEMMA SlotStored ==
  ASSUME NEW c \in PCell, NEW i \in Slots, NEW r \in Record, lines > 0 => r.val \in Records
  PROVE  /\ [c EXCEPT !.slot[i] = r] \in PCell
         /\ [c EXCEPT !.slot[i] = r]
              = [bitmap |-> c.bitmap, deleted |-> c.deleted, slot |-> [c.slot EXCEPT ![i] = r]]
<1>1. [c EXCEPT !.slot[i] = r]
        = [bitmap |-> c.bitmap, deleted |-> c.deleted, slot |-> [c.slot EXCEPT ![i] = r]]
  BY DEF PCell, Cell
<1>2. /\ c.bitmap \subseteq Slots /\ c.deleted \subseteq Slots
      /\ c.slot \in [Slots -> Record \cup {Zeroed}]
  BY DEF PCell, Cell
<1>3. [c.slot EXCEPT ![i] = r] \in [Slots -> Record \cup {Zeroed}]
  BY <1>2
<1>4. lines > 0 => \A j \in Slots : [c.slot EXCEPT ![i] = r][j] = Zeroed
                                    \/ [c.slot EXCEPT ![i] = r][j].val \in Records
  BY <1>2 DEF PCell
<1> QED
  BY <1>1, <1>2, <1>3, <1>4 DEF PCell, Cell

(* The record that a slot with a key points to.                             *)
LEMMA RetiredTyped ==
  ASSUME TypeInv, pc # "down", MetaInv, NEW i, i = Null \/ (i \in Slots /\ cell.slot[i].key \in Keys),
         Retires(i)
  PROVE  retiredRecs' \subseteq Records
<1>1. cell \in PCell
  BY DEF TypeInv, ContentTypeOK, MetaInv, Follows, InUse, cell
<1>2. CASE lines = 0 \/ i = Null
  BY <1>2 DEF Retires, TypeInv, ContentTypeOK
<1>3. CASE lines # 0 /\ i # Null
  <2>1. lines > 0
    BY <1>3, Typed
  <2>2. cell.slot[i] # Zeroed
    BY <1>3, ZeroedKeyAssumption
  <2>3. cell.slot[i].val \in Records
    BY <1>1, <1>3, <2>1, <2>2 DEF PCell
  <2> QED
    BY <1>3, <2>3 DEF Retires, TypeInv, ContentTypeOK
<1> QED
  BY <1>2, <1>3

(* The steps that write no cell and no record.                              *)
LEMMA TypeKept ==
  ASSUME TypeInv, UNCHANGED <<layVars, heap, pmHeap, freeRecs, retiredRecs, vol, pmCells, upd, target>>,
         old' \in Slots \cup Buckets \cup {Null},
         \/ pc' = pc /\ old' = old /\ dram' = dram
         \/ /\ pc \notin Updating /\ pc' \in Copying \cup {"idle"}
            /\ pc' \notin Copying => old' = Null
  PROVE  TypeInv'
<1>1. ContentTypeOK'
  BY DEF TypeInv, ContentTypeOK, PCell, HeapType, layVars
<1>2. Calls'
  BY DEF TypeInv, Calls, Updating, Copying, cell, layVars
<1> QED
  BY <1>1, <1>2 DEF TypeInv

LEMMA TypeStep ==
  ASSUME MetaInv, TypeInv, [Next]_vars
  PROVE  TypeInv'
<1> USE DEF TypeInv, ContentTypeOK
<1>1. /\ pc # "down" => dram.addr \in Buckets
      /\ pc # "down" => cell \in PCell
      /\ pc \in Copying => old \in Buckets
      /\ lines \in Nat
      /\ EmptyCell \in PCell
  <2>1. EmptyCell \in PCell
    BY DEF EmptyCell, PCell, Cell
  <2>2. lines \in Nat
    BY Typed
  <2> QED
    BY <2>1, <2>2 DEF MetaInv, Follows, InUse, cell
<1>2. ASSUME UNCHANGED layVars
      PROVE  PCell' = PCell /\ HeapType' = HeapType
  BY <1>2 DEF PCell, HeapType, layVars
<1>3. ASSUME NEW k \in Keys, NEW d \in Data, NEW v \in Values, StoreSlot(k, d, v)
      PROVE  TypeInv'
  <2>1. PICK i \in Slots, o \in Slots \cup {Null} :
          /\ PutSlot(k, i, o)
          /\ target' = i
          /\ old' = o
          /\ vol' = [vol EXCEPT ![dram.addr].slot[i] = [key |-> k, val |-> v]]
    BY <1>3 DEF StoreSlot
  <2>2. /\ pc = "idle" /\ upd' = [key |-> k, val |-> d]
        /\ UNCHANGED <<layVars, pmHeap, retiredRecs, pmCells, dram>>
        /\ lines = 0 => UNCHANGED <<heap, freeRecs>>
        /\ lines > 0 => /\ v \in freeRecs
                        /\ heap' = [heap EXCEPT ![v] = Encoded(d)]
                        /\ freeRecs' = freeRecs \ {v}
        /\ pc' = IF ~flushes THEN "bits" ELSE IF lines > 0 THEN "record" ELSE "store"
    BY <1>3 DEF StoreSlot, Goto
  <2>3. PCell' = PCell /\ HeapType' = HeapType
    BY <1>2, <2>2
  <2> DEFINE r == [key |-> k, val |-> v]
             e == [cell EXCEPT !.slot[i] = r]
  <2>4. r \in Record /\ (lines > 0 => r.val \in Records)
    BY <2>2 DEF Record
  <2>5. /\ e \in PCell
        /\ e = [bitmap |-> cell.bitmap, deleted |-> cell.deleted, slot |-> [cell.slot EXCEPT ![i] = r]]
    BY <1>1, <2>2, <2>4, SlotStored
  <2>6. vol' = [vol EXCEPT ![dram.addr] = e]
    BY <2>1 DEF cell
  <2>7. vol' \in [Buckets -> PCell] /\ cell' = e
    BY <1>1, <2>2, <2>5, <2>6 DEF cell
  <2>8. heap' \in HeapType /\ freeRecs' \subseteq Records
    <3>1. CASE lines = 0
      BY <2>2, <3>1
    <3>2. CASE lines > 0
      <4>1. Encoded(d) \in [1..lines -> Data \cup {Zeroed}]
        BY DEF Encoded
      <4> QED
        BY <2>2, <3>2, <4>1 DEF HeapType
    <3> QED
      BY <1>1, <3>1, <3>2
  <2>9. o # Null => o \in Slots /\ o # i /\ cell.slot[o].key = k
    <3>1. MatchBitSet(cell, k) \subseteq Slots /\ Null \notin Slots
      BY <1>1, <2>2, NullAssumption DEF MatchBitSet, ValidBitSet, PCell, Cell
    <3> QED
      BY <2>1, <3>1 DEF PutSlot, Lowest, MatchBitSet, BackupBitSet, ValidBitSet
  <2>10. o # Null => e.slot[o].key \in Keys
    <3>1. cell.slot \in [Slots -> Record \cup {Zeroed}]
      BY <1>1, <2>2 DEF PCell, Cell
    <3> QED
      BY <2>5, <2>9, <3>1
  <2>11. Calls'
    BY <1>1, <2>1, <2>2, <2>7, <2>10 DEF Calls, Updating, Copying, layVars
  <2> QED
    BY <2>1, <2>2, <2>3, <2>7, <2>8, <2>11 DEF layVars
<1>4. ASSUME NEW k \in Keys, Delete(k)
      PROVE  TypeInv'
  <2>1. PICK i \in Slots :
          /\ Lowest(i, MatchBitSet(cell, k))
          /\ Retires(i)
          /\ vol' = [vol EXCEPT ![dram.addr].deleted = @ \cup {i}]
    BY <1>4 DEF Delete
  <2>2. /\ pc = "idle" /\ pc' = "head" /\ upd' = [key |-> k, val |-> Absent]
        /\ UNCHANGED <<layVars, heap, pmHeap, freeRecs, pmCells, dram, target, old>>
    BY <1>4 DEF Delete, Goto
  <2>3. PCell' = PCell /\ HeapType' = HeapType
    BY <1>2, <2>2
  <2>4. retiredRecs' \subseteq Records
    BY <2>1, <2>2, RetiredTyped DEF Lowest, MatchBitSet
  <2>5. [cell EXCEPT !.deleted = @ \cup {i}] \in PCell
    <3>1. cell \in Cell
      BY <1>1, <2>2 DEF PCell
    <3>2. cell.deleted \cup {i} \in SUBSET Slots /\ cell.bitmap \in SUBSET Slots
      BY <3>1 DEF Cell
    <3>3. [bitmap |-> cell.bitmap, deleted |-> cell.deleted \cup {i}, slot |-> cell.slot] \in PCell
      BY <1>1, <2>2, <3>2, SameSlots
    <3> QED
      BY <3>1, <3>3, BitmapsStored
  <2>6. vol' \in [Buckets -> PCell]
    BY <1>1, <2>1, <2>2, <2>5 DEF cell
  <2>7. Calls'
    BY <2>2 DEF Calls, Updating, Copying
  <2> QED
    BY <2>2, <2>3, <2>4, <2>6, <2>7 DEF layVars
<1>5. CASE FlushRecord
  <2>1. /\ pc = "record" /\ pc' = "store"
        /\ UNCHANGED <<layVars, heap, freeRecs, retiredRecs, vol, pmCells, dram, upd, target, old>>
        /\ pmHeap' = [pmHeap EXCEPT ![cell.slot[target].val][1] = heap[cell.slot[target].val][1]]
    BY <1>5 DEF FlushRecord, RecordBack, Goto, memVars, opVars
  <2>2. PCell' = PCell /\ HeapType' = HeapType
    BY <1>2, <2>1
  <2>3. pmHeap' \in HeapType
    BY <2>1, LineStored
  <2>4. Calls'
    BY <2>1 DEF Calls, Updating, Copying, cell, layVars
  <2> QED
    BY <2>1, <2>2, <2>3, <2>4 DEF layVars
<1>6. CASE FlushSlot
  <2>1. /\ pc = "store" /\ pc' = "bits"
        /\ UNCHANGED <<layVars, heap, pmHeap, freeRecs, retiredRecs, vol, dram, upd, target, old>>
        /\ pmCells' = [pmCells EXCEPT ![dram.addr] = LineBack(@, vol[dram.addr], target)]
    BY <1>6 DEF FlushSlot, Goto, recVars, opVars
  <2>2. PCell' = PCell /\ HeapType' = HeapType
    BY <1>2, <2>1
  <2>3. pmCells' \in [Buckets -> PCell]
    BY <1>1, <2>1, PCells DEF Calls
  <2>4. Calls'
    BY <2>1 DEF Calls, Updating, Copying, cell, layVars
  <2> QED
    BY <2>1, <2>2, <2>3, <2>4 DEF layVars
<1>7. CASE StoreVersion
  <2>1. /\ pc = "bits" /\ pc' = "head"
        /\ UNCHANGED <<layVars, heap, pmHeap, freeRecs, pmCells, dram, upd, target, old>>
        /\ Retires(old)
    BY <1>7 DEF StoreVersion, Goto, opVars
  <2>2. PCell' = PCell /\ HeapType' = HeapType
    BY <1>2, <2>1
  <2>3. retiredRecs' \subseteq Records
    BY <2>1, RetiredTyped DEF Calls
  <2> DEFINE bits == IF old = Null THEN cell.bitmap \cup {target}
                     ELSE Toggle(cell.bitmap \cup {target}, old)
  <2>4. cell \in Cell /\ target \in Slots /\ old \in Slots \cup {Null}
    BY <1>1, <2>1 DEF PCell, Calls
  <2>5. bits \in SUBSET Slots /\ cell.deleted \ {target} \in SUBSET Slots
    BY <2>4 DEF Toggle, Cell
  <2>6. vol' = [vol EXCEPT ![dram.addr] = [cell EXCEPT !.bitmap = bits, !.deleted = @ \ {target}]]
    BY <1>7 DEF StoreVersion, cell
  <2> HIDE DEF bits
  <2>7. [cell EXCEPT !.bitmap = bits, !.deleted = @ \ {target}] \in PCell
    <3>1. [bitmap |-> bits, deleted |-> cell.deleted \ {target}, slot |-> cell.slot] \in PCell
      BY <1>1, <2>1, <2>5, SameSlots
    <3> QED
      BY <2>4, <3>1, BitmapsStored
  <2>8. vol' \in [Buckets -> PCell]
    BY <1>1, <2>1, <2>6, <2>7
  <2>9. Calls'
    BY <2>1 DEF Calls, Updating, Copying
  <2> QED
    BY <2>1, <2>2, <2>3, <2>8, <2>9 DEF layVars
<1>8. CASE FlushHead
  <2>1. /\ pc = "head" /\ pc' = "idle"
        /\ UNCHANGED <<layVars, heap, pmHeap, freeRecs, retiredRecs, vol, dram>>
        /\ upd' = Null /\ target' = Null /\ old' = Null
        /\ pmCells' = [pmCells EXCEPT ![dram.addr] = HeadBack(@, vol[dram.addr])]
    BY <1>8 DEF FlushHead, Goto, recVars
  <2>2. PCell' = PCell /\ HeapType' = HeapType
    BY <1>2, <2>1
  <2>3. pmCells' \in [Buckets -> PCell]
    BY <1>1, <2>1, PCells
  <2>4. Calls'
    BY <2>1 DEF Calls, Updating, Copying
  <2> QED
    BY <2>1, <2>2, <2>3, <2>4 DEF layVars
<1>9. ASSUME NEW b \in Buckets, NEW s \in InitShift..MaxShift, NEW f \in Places(cell),
             FillBucket(b, s, f)
      PROVE  TypeInv'
  <2>1. /\ pc = "idle" /\ pc' = "filled" /\ old' = b
        /\ UNCHANGED <<layVars, heap, pmHeap, freeRecs, retiredRecs, pmCells, dram, upd, target>>
        /\ vol' = [vol EXCEPT ![b] = Moved(cell, f)]
    BY <1>9 DEF FillBucket, Goto, recVars
  <2>2. PCell' = PCell /\ HeapType' = HeapType
    BY <1>2, <2>1
  <2>3. vol' \in [Buckets -> PCell]
    BY <1>1, <2>1, PCells
  <2>4. Calls'
    BY <2>1 DEF Calls, Updating, Copying
  <2> QED
    BY <2>1, <2>2, <2>3, <2>4 DEF layVars
<1>10. CASE FlushBucket
  <2>1. /\ pc = "filled" /\ pc' = "reset"
        /\ UNCHANGED <<layVars, heap, pmHeap, freeRecs, retiredRecs, vol, dram, upd, target, old>>
        /\ pmCells' = [pmCells EXCEPT ![old] = vol[old]]
    BY <1>10 DEF FlushBucket, Goto, recVars, opVars
  <2>2. PCell' = PCell /\ HeapType' = HeapType
    BY <1>2, <2>1
  <2>3. pmCells' \in [Buckets -> PCell]
    BY <1>1, <2>1 DEF Copying
  <2>4. Calls'
    BY <2>1 DEF Calls, Updating, Copying
  <2> QED
    BY <2>1, <2>2, <2>3, <2>4 DEF layVars
<1>11. CASE ResetDram
  <2>1. /\ pc = "reset" /\ pc' = "commit" /\ old' = dram.addr
        /\ UNCHANGED <<layVars, heap, pmHeap, freeRecs, retiredRecs, vol, pmCells, upd, target>>
    BY <1>11 DEF ResetDram, Goto, recVars, memVars
  <2> QED
    BY <1>1, <2>1, TypeKept DEF Updating, Copying
<1>12. CASE StoreFields \/ FlushFields \/ SwitchVersion \/ FlushSwitch
  <2>1. /\ pc \in Copying /\ pc' \in Copying
        /\ UNCHANGED <<layVars, heap, pmHeap, freeRecs, retiredRecs, vol, pmCells, upd, target, old>>
    BY <1>12 DEF StoreFields, FlushFields, SwitchVersion, FlushSwitch, Goto, recVars, opVars, Copying
  <2> QED
    BY <2>1, TypeKept DEF Updating, Copying
<1>13. CASE RetireBucket
  <2>1. /\ pc = "retire" /\ pc' = "idle" /\ old' = Null
        /\ UNCHANGED <<layVars, heap, pmHeap, freeRecs, retiredRecs, vol, pmCells, upd, target>>
    BY <1>13 DEF RetireBucket, Goto, recVars, memVars
  <2> QED
    BY <2>1, TypeKept DEF Updating, Copying
<1>14. ASSUME NEW r \in Records, ReleaseRecord(r)
      PROVE  TypeInv'
  <2>1. /\ pc = "idle" /\ pc' = "idle"
        /\ UNCHANGED <<layVars, vol, pmCells, dram, upd, target, old>>
        /\ retiredRecs' = retiredRecs \ {r} /\ freeRecs' = freeRecs \cup {r}
        /\ heap' = ForgetRecords(heap, {r}) /\ pmHeap' = ForgetRecords(pmHeap, {r})
    BY <1>14 DEF ReleaseRecord, memVars, opVars
  <2>2. PCell' = PCell /\ HeapType' = HeapType
    BY <1>2, <2>1
  <2>3. heap' \in HeapType /\ pmHeap' \in HeapType
    <3>1. {r} \in SUBSET Records
      OBVIOUS
    <3> QED
      BY <2>1, <3>1, ForgetTyped
  <2>4. Calls'
    BY <2>1 DEF Calls, Updating, Copying
  <2> QED
    BY <2>1, <2>2, <2>3, <2>4 DEF layVars
<1>15. ASSUME NEW b \in Buckets, Release(b)
      PROVE  TypeInv'
  <2>1. /\ pc # "down" /\ pc' = pc /\ b \in retired
        /\ UNCHANGED <<layVars, heap, pmHeap, freeRecs, retiredRecs, dram, upd, target, old>>
        /\ vol' = Forget(vol, {b}) /\ pmCells' = Forget(pmCells, {b})
    BY <1>15 DEF Release, recVars, opVars
  <2>2. PCell' = PCell /\ HeapType' = HeapType
    BY <1>2, <2>1
  <2>3. vol' \in [Buckets -> PCell] /\ pmCells' \in [Buckets -> PCell]
    BY <1>1, <2>1 DEF Forget
  <2>4. dram.addr \in Buckets \ {b}
    BY <2>1 DEF MetaInv, Follows, InUse
  <2>5. cell' = cell
    BY <2>1, <2>4 DEF cell, Forget
  <2>6. Calls'
    BY <2>1, <2>5 DEF Calls, Updating, Copying, layVars
  <2> QED
    BY <2>1, <2>2, <2>3, <2>6 DEF layVars
<1>16. CASE Evict
  <2>1. UNCHANGED <<layVars, heap, freeRecs, retiredRecs, vol, dram, pc, upd, target, old>>
    BY <1>16 DEF Evict, opVars
  <2>2. PCell' = PCell /\ HeapType' = HeapType
    BY <1>2, <2>1
  <2>3. pmHeap' \in HeapType
    BY <1>16, LineStored DEF Evict, RecordBack
  <2>4. pmCells' \in [Buckets -> PCell]
    BY <1>16, PCells DEF Evict
  <2>5. Calls'
    BY <2>1 DEF Calls, Updating, Copying, cell, layVars
  <2> QED
    BY <2>1, <2>2, <2>3, <2>4, <2>5 DEF layVars
<1>17. CASE Crash
  <2>1. /\ pc' = "down" /\ vol' = pmCells /\ heap' = pmHeap
        /\ retiredRecs' = {} /\ upd' = Null /\ target' = Null /\ old' = Null
        /\ UNCHANGED <<layVars, pmHeap, freeRecs, pmCells>>
    BY <1>17 DEF Crash, Goto
  <2>2. PCell' = PCell /\ HeapType' = HeapType
    BY <1>2, <2>1
  <2>3. Calls'
    BY <2>1 DEF Calls, Updating, Copying
  <2> QED
    BY <2>1, <2>2, <2>3 DEF layVars
<1>18. CASE Recover
  <2>1. /\ pc = "down" /\ pc' = "idle"
        /\ vol' = Forget(vol, free') /\ pmCells' = Forget(pmCells, free')
        /\ freeRecs' = Records \ RecordsOf(vol[Extract(meta).addr])
        /\ heap' = ForgetRecords(heap, freeRecs') /\ pmHeap' = ForgetRecords(pmHeap, freeRecs')
        /\ UNCHANGED <<layVars, retiredRecs, upd, target, old>>
    BY <1>18 DEF Recover, Goto, opVars
  <2>2. PCell' = PCell /\ HeapType' = HeapType
    BY <1>2, <2>1
  <2>3. vol' \in [Buckets -> PCell] /\ pmCells' \in [Buckets -> PCell]
    BY <1>1, <2>1 DEF Forget
  <2>4. freeRecs' \in SUBSET Records
    BY <2>1
  <2>5. heap' \in HeapType /\ pmHeap' \in HeapType
    BY <2>1, <2>4, ForgetTyped
  <2>6. Calls'
    BY <2>1 DEF Calls, Updating, Copying
  <2> QED
    BY <2>1, <2>2, <2>3, <2>4, <2>5, <2>6 DEF layVars
<1>19. CASE UNCHANGED vars
  <2>1. UNCHANGED <<layVars, heap, pmHeap, freeRecs, retiredRecs, vol, pmCells, dram, pc, upd, target, old>>
    BY <1>19 DEF vars, recVars, memVars, opVars
  <2> QED
    BY <2>1, TypeKept
<1> QED
  BY <1>3, <1>4, <1>5, <1>6, <1>7, <1>8, <1>9, <1>10, <1>11, <1>12, <1>13, <1>14, <1>15, <1>16,
     <1>17, <1>18, <1>19 DEF Next, Rehash

LEMMA TypesCorrect == Spec => []MetaInv /\ []TypeInv
<1>1. MetaInv /\ TypeInv /\ [Next]_vars => TypeInv'
  BY TypeStep
<1> QED
  BY <1>1, TypeInit, MetaCorrect, PTL DEF Spec

(* The variables keep their types in every layout, after a loss too: the    *)
(* table never stores through a pointer that is none.                       *)
THEOREM TypeCorrect == Spec => []TypeOK
<1>1. MetaInv /\ TypeInv => TypeOK
  <2> SUFFICES ASSUME MetaInv, TypeInv
               PROVE  TypeOK
    OBVIOUS
  <2>1. vol \in [Buckets -> Cell] /\ pmCells \in [Buckets -> Cell]
    BY Typed
  <2> QED
    BY <2>1 DEF MetaInv, MetaTypeOK, TypeInv, ContentTypeOK, HeapType, TypeOK, Updating, Copying
<1> QED
  BY <1>1, TypesCorrect, PTL


-----------------------------------------------------------------------------
(* The lines that nobody flushes, from step to step                         *)

Whole(p, v) == [bitmap |-> p.bitmap, deleted |-> p.deleted, slot |-> v.slot]

LEMMA WholeIs ==
  ASSUME TypeInv, NEW b \in Buckets
  PROVE  /\ WC[b] = IF flushes THEN pmCells[b] ELSE Whole(pmCells[b], vol[b])
         /\ WC[b].bitmap = pmCells[b].bitmap /\ WC[b].deleted = pmCells[b].deleted
         /\ ~flushes => WC[b].slot = vol[b].slot
<1>1. pmCells[b] \in Cell /\ vol[b] \in Cell
  BY Typed
<1>2. [pmCells[b] EXCEPT !.slot = vol[b].slot] = Whole(pmCells[b], vol[b])
  BY <1>1 DEF Cell, Whole
<1> QED
  BY <1>2 DEF WC, WholeCell, Whole

LEMMA WholeIsNext ==
  ASSUME TypeInv', UNCHANGED flushes, NEW b \in Buckets
  PROVE  /\ WC'[b] = IF flushes THEN pmCells'[b] ELSE Whole(pmCells'[b], vol'[b])
         /\ pmCells'[b] \in Cell /\ vol'[b] \in Cell
<1>1. pmCells'[b] \in Cell /\ vol'[b] \in Cell
  BY DEF TypeInv, ContentTypeOK, PCell
<1>2. [pmCells'[b] EXCEPT !.slot = vol'[b].slot] = Whole(pmCells'[b], vol'[b])
  BY <1>1 DEF Cell, Whole
<1> QED
  BY <1>1, <1>2 DEF WC, WholeCell, Whole

(* A step that writes back a part of a cell, and one that writes none.      *)
LEMMA CellsWritten ==
  ASSUME TypeInv, TypeInv', UNCHANGED <<flushes, vol>>, NEW b \in Buckets, NEW x,
         pmCells' = [pmCells EXCEPT ![b] = x]
  PROVE  /\ \A a \in Buckets \ {b} : WC'[a] = WC[a]
         /\ x = HeadBack(pmCells[b], vol[b]) => WC'[b] = HeadBack(WC[b], vol[b])
         /\ \A i \in Slots :
              x = LineBack(pmCells[b], vol[b], i) => WC'[b] = LineBack(WC[b], vol[b], i)
         /\ x = vol[b] => WC'[b] = vol[b]
<1> DEFINE p == pmCells[b]
           v == vol[b]
<1>1. p \in Cell /\ v \in Cell /\ pmCells \in [Buckets -> Cell] /\ pmCells'[b] = x
  BY Typed
<1>2. ASSUME NEW a \in Buckets \ {b}
      PROVE  WC'[a] = WC[a]
  BY <1>1, WholeIs, WholeIsNext
<1>3. /\ WC'[b] = IF flushes THEN x ELSE Whole(x, v)
      /\ WC[b] = IF flushes THEN p ELSE Whole(p, v)
  BY <1>1, WholeIs, WholeIsNext
<1>4. v = [bitmap |-> v.bitmap, deleted |-> v.deleted, slot |-> v.slot]
      /\ v.slot \in [Slots -> Record \cup {Zeroed}]
  BY <1>1 DEF Cell
<1> HIDE DEF p, v
<1>5. Whole(v, v) = v
  BY <1>4 DEF Whole
<1>6. Whole(HeadBack(p, v), v) = v /\ HeadBack(Whole(p, v), v) = v
  BY <1>4 DEF Whole, HeadBack
<1>7. ASSUME NEW i \in Slots
      PROVE  Whole(LineBack(p, v, i), v) = LineBack(Whole(p, v), v, i)
  <2>1. SlotBack(p, v, i) = [bitmap |-> p.bitmap, deleted |-> p.deleted,
                             slot |-> [p.slot EXCEPT ![i] = v.slot[i]]]
    BY <1>1 DEF SlotBack, Cell, p
  <2>2. SlotBack(Whole(p, v), v, i) = [bitmap |-> p.bitmap, deleted |-> p.deleted,
                                       slot |-> [v.slot EXCEPT ![i] = v.slot[i]]]
    BY DEF SlotBack, Whole
  <2>3. [v.slot EXCEPT ![i] = v.slot[i]] = v.slot
    BY <1>4
  <2>4. Whole(SlotBack(p, v, i), v) = SlotBack(Whole(p, v), v, i)
    BY <2>1, <2>2, <2>3 DEF Whole
  <2> QED
    BY <1>6, <2>4 DEF LineBack
<1>8. x = HeadBack(p, v) => WC'[b] = HeadBack(WC[b], v)
  BY <1>3, <1>6
<1>9. \A i \in Slots : x = LineBack(p, v, i) => WC'[b] = LineBack(WC[b], v, i)
  BY <1>3, <1>7
<1>10. x = v => WC'[b] = v
  BY <1>3, <1>5
<1> QED
  BY <1>2, <1>8, <1>9, <1>10 DEF p, v

LEMMA CellsAlone ==
  ASSUME TypeInv, TypeInv', UNCHANGED <<flushes, pmCells>>, NEW a \in Buckets,
         vol'[a] = vol[a] \/ vol'[a].slot = vol[a].slot \/ flushes
  PROVE  WC'[a] = WC[a]
BY WholeIs, WholeIsNext DEF Whole

LEMMA CellsForgotten ==
  ASSUME TypeInv, TypeInv', UNCHANGED flushes, NEW S,
         vol' = Forget(vol, S), pmCells' = Forget(pmCells, S)
  PROVE  \A b \in Buckets : WC'[b] = IF b \in S THEN EmptyCell ELSE WC[b]
<1> SUFFICES ASSUME NEW b \in Buckets
             PROVE  WC'[b] = IF b \in S THEN EmptyCell ELSE WC[b]
  OBVIOUS
<1>1. /\ vol'[b] = IF b \in S THEN EmptyCell ELSE vol[b]
      /\ pmCells'[b] = IF b \in S THEN EmptyCell ELSE pmCells[b]
  BY DEF Forget
<1>2. Whole(EmptyCell, EmptyCell) = EmptyCell
  BY DEF Whole, EmptyCell
<1> QED
  BY <1>1, <1>2, WholeIs, WholeIsNext

(* The same for the records.                                                *)
LEMMA HeapIs ==
  ASSUME TypeInv, NEW r \in Records
  PROVE  /\ \A l \in 1..lines : WholeHeap[r][l] = IF flushes /\ l = 1 THEN pmHeap[r][l] ELSE heap[r][l]
         /\ WholeHeap[r] = heap[r] <=> \A l \in 1..lines : WholeHeap[r][l] = heap[r][l]
<1>1. /\ WholeHeap[r] = [l \in 1..lines |-> IF flushes /\ l = 1 THEN pmHeap[r][l] ELSE heap[r][l]]
  BY DEF WholeHeap
<1>2. heap[r] \in [1..lines -> Data \cup {Zeroed}]
  BY Typed DEF HeapType
<1> QED
  BY <1>1, <1>2

LEMMA HeapAlone ==
  ASSUME UNCHANGED <<lines, flushes>>, NEW r \in Records, heap'[r] = heap[r], pmHeap'[r] = pmHeap[r]
  PROVE  WholeHeap'[r] = WholeHeap[r]
BY DEF WholeHeap

LEMMA HeapKept ==
  ASSUME UNCHANGED <<lines, flushes, heap, pmHeap>>
  PROVE  WholeHeap' = WholeHeap
BY DEF WholeHeap

LEMMA HeapWritten ==
  ASSUME TypeInv, UNCHANGED <<lines, flushes, heap>>, NEW r \in Records, NEW l \in 1..lines,
         pmHeap' = [pmHeap EXCEPT ![r][l] = heap[r][l]]
  PROVE  /\ \A x \in Records : WholeHeap[x] = heap[x] => WholeHeap'[x] = heap[x]
         /\ l = 1 => WholeHeap'[r] = heap[r]
<1>1. heap \in HeapType /\ pmHeap \in HeapType
  BY Typed DEF TypeInv, ContentTypeOK
<1>2. ASSUME NEW x \in Records, WholeHeap[x] = heap[x] \/ (x = r /\ l = 1)
      PROVE  WholeHeap'[x] = heap[x]
  <2>1. WholeHeap'[x] = [m \in 1..lines |-> IF flushes /\ m = 1 THEN pmHeap'[x][m] ELSE heap[x][m]]
    BY DEF WholeHeap
  <2>2. ASSUME NEW m \in 1..lines
        PROVE  (IF flushes /\ m = 1 THEN pmHeap'[x][m] ELSE heap[x][m]) = heap[x][m]
    <3>1. pmHeap'[x][m] = IF x = r /\ m = l THEN heap[x][m] ELSE pmHeap[x][m]
      BY <1>1 DEF HeapType
    <3>2. WholeHeap[x] = heap[x] => (flushes /\ m = 1 => pmHeap[x][m] = heap[x][m])
      BY HeapIs
    <3> QED
      BY <1>2, <3>1, <3>2
  <2>3. WholeHeap'[x] = [m \in 1..lines |-> heap[x][m]]
    BY <2>1, <2>2
  <2> QED
    BY <1>1, <2>3 DEF HeapType
<1> QED
  BY <1>2

LEMMA HeapForgotten ==
  ASSUME TypeInv, UNCHANGED <<lines, flushes>>, NEW S,
         heap' = ForgetRecords(heap, S), pmHeap' = ForgetRecords(pmHeap, S)
  PROVE  \A r \in Records : WholeHeap'[r] = IF r \in S THEN Encoded(Zeroed) ELSE WholeHeap[r]
<1> SUFFICES ASSUME NEW r \in Records
             PROVE  WholeHeap'[r] = IF r \in S THEN Encoded(Zeroed) ELSE WholeHeap[r]
  OBVIOUS
<1>1. CASE r \in S
  <2>1. heap'[r] = Encoded(Zeroed) /\ pmHeap'[r] = Encoded(Zeroed)
    BY <1>1 DEF ForgetRecords
  <2> QED
    BY <1>1, <2>1 DEF WholeHeap, Encoded
<1>2. CASE r \notin S
  BY <1>2 DEF WholeHeap, ForgetRecords
<1> QED
  BY <1>1, <1>2

-----------------------------------------------------------------------------
(* The contents are preserved                                               *)

LEMMA ContentInit == Init => ContentInv
<1> SUFFICES ASSUME Init
             PROVE  ContentInv
  OBVIOUS
<1>1. EmptyCell \in Cell /\ ValidBitSet(EmptyCell) = {}
  BY DEF EmptyCell, Cell, ValidBitSet
<1>2. PICK b \in Buckets :
        /\ meta = [cur_ver_ |-> 1, ptr |-> <<b, Null>>, shift |-> <<InitShift, 0>>]
        /\ free = Buckets \ {b}
  BY DEF Init
<1>3. cell = EmptyCell
  BY <1>2 DEF Init, cell, Extract
<1>4. SoundIn(lines, cell, heap) /\ Avoids(lines, cell, freeRecs \cup retiredRecs)
  BY <1>1, <1>3 DEF SoundIn, Avoids
<1>5. WholeHeap = heap
  BY DEF Init, WholeHeap, Encoded
<1>6. \A a \in Buckets : WC[a] = vol[a]
  <2>1. Whole(EmptyCell, EmptyCell) = EmptyCell
    BY DEF Whole, EmptyCell
  <2> QED
    BY <2>1, TypeInit, WholeIs DEF Init
<1> QED
  BY <1>4, <1>5, <1>6 DEF Init, ContentInv, Stored, RecordsBack, CellsBack, SlotsBack,
     HeadBacks, Contents, Updating, Copying

(* The steps that write no cell and no record.                              *)
LEMMA Untouched ==
  ASSUME TypeInv, TypeInv', ContentInv,
         UNCHANGED <<layVars, heap, pmHeap, freeRecs, retiredRecs, vol, pmCells, dram, opVars>>,
         \/ pc' = pc /\ meta' = meta
         \/ pc \in Copying \ {"filled"} /\ pc' \in Copying \ {"filled"}
  PROVE  ContentInv'
<1>1. /\ cell' = cell /\ UNCHANGED <<lines, flushes, heap, pmHeap, freeRecs, retiredRecs, upd, target, old>>
      /\ WholeHeap' = WholeHeap /\ WC' = WC
  BY HeapKept DEF cell, layVars, opVars, WC, WholeCell
<1>2. Stored'
  BY <1>1 DEF ContentInv, Stored, Updating, Copying
<1>3. RecordsBack' /\ CellsBack' /\ SlotsBack'
  BY <1>1 DEF ContentInv, RecordsBack, CellsBack, SlotsBack, Copying
<1>4. HeadBacks' /\ Contents'
  BY <1>1 DEF ContentInv, HeadBacks, Contents, Extract, Copying
<1> QED
  BY <1>2, <1>3, <1>4 DEF ContentInv

LEMMA ContentEvict ==
  ASSUME MetaInv, TypeInv, TypeInv', ContentInv, Evict
  PROVE  /\ ContentInv'
         /\ pc \in {"head", "down"} => WholeHeap' = WholeHeap
         /\ pc = "head" => WC'[dram.addr] \in {WC[dram.addr], cell}
         /\ pc = "down" => \A b \in Buckets : WC'[b] = WC[b]
<1>1. /\ UNCHANGED <<lines, flushes, heap, freeRecs, retiredRecs, vol, meta, dram, pc, upd, target, old>>
      /\ cell' = cell
  BY DEF Evict, opVars, cell, layVars
<1>2. /\ dram.addr \in Buckets \cup {Null}
      /\ pc # "down" => dram.addr \in Buckets
      /\ pc \in Copying => old \in Buckets /\ old # dram.addr
      /\ pc \in {"head", "down"} => WholeHeap = heap
      /\ pc = "down" => \A b \in Buckets : WC[b] = vol[b]
  BY DEF MetaInv, MetaTypeOK, Follows, InUse, ContentInv, RecordsBack, CellsBack
<1>3. Stored' /\ Contents'
  BY <1>1 DEF ContentInv, Stored, Contents, Extract, Copying, Updating
<1>4. CASE /\ \E r \in Records \ freeRecs, l \in 1..lines : pmHeap' = RecordBack(r, l)
           /\ UNCHANGED <<pmCells, pmMeta>>
  <2>1. PICK r \in Records, l \in 1..lines : pmHeap' = [pmHeap EXCEPT ![r][l] = heap[r][l]]
    BY <1>4 DEF RecordBack
  <2>2. \A x \in Records : WholeHeap[x] = heap[x] => WholeHeap'[x] = heap[x]
    BY <1>1, <2>1, HeapWritten
  <2>3. heap \in HeapType /\ WholeHeap' \in [Records -> {WholeHeap'[x] : x \in Records}]
    BY Typed DEF WholeHeap
  <2>4. WholeHeap = heap => WholeHeap' = heap
    BY <2>2, <2>3 DEF HeapType
  <2>5. RecordsBack'
    BY <1>1, <2>2, <2>4 DEF ContentInv, RecordsBack
  <2>6. WC' = WC
    BY <1>1, <1>4 DEF WC, WholeCell
  <2>7. CellsBack' /\ SlotsBack' /\ HeadBacks'
    BY <1>1, <2>6 DEF ContentInv, CellsBack, SlotsBack, HeadBacks
  <2> QED
    BY <1>2, <1>3, <2>4, <2>5, <2>6, <2>7 DEF ContentInv
<1>5. CASE /\ \E b \in Buckets \ free :
                \/ pmCells' = [pmCells EXCEPT ![b] = HeadBack(@, vol[b])]
                \/ \E i \in Slots : pmCells' = [pmCells EXCEPT ![b] = LineBack(@, vol[b], i)]
           /\ UNCHANGED <<pmHeap, pmMeta>>
  <2>1. PICK b \in Buckets :
          \/ pmCells' = [pmCells EXCEPT ![b] = HeadBack(pmCells[b], vol[b])]
          \/ \E i \in Slots : pmCells' = [pmCells EXCEPT ![b] = LineBack(pmCells[b], vol[b], i)]
    BY <1>5
  <2>2. \E j \in Slots : TRUE
    BY SlotAssumption DEF Slots
  <2>3. PICK i \in Slots :
          \/ pmCells' = [pmCells EXCEPT ![b] = HeadBack(pmCells[b], vol[b])]
          \/ pmCells' = [pmCells EXCEPT ![b] = LineBack(pmCells[b], vol[b], i)]
    BY <2>1, <2>2
  <2> DEFINE x == WC'[b]
  <2>4. /\ x \in {HeadBack(WC[b], vol[b]), LineBack(WC[b], vol[b], i)}
        /\ \A a \in Buckets \ {b} : WC'[a] = WC[a]
    BY <1>1, <2>3, CellsWritten
  <2>5. WC[b] \in Cell /\ vol[b] \in Cell
    BY Typed
  <2>6. /\ WC[b] = vol[b] => x = vol[b]
        /\ WC[b].slot = vol[b].slot => x \in {WC[b], vol[b]}
    BY <2>4, <2>5, BackTyped
  <2> HIDE DEF x
  <2>7. \A a \in Buckets : WC[a] = vol[a] => WC'[a] = vol[a]
    BY <2>4, <2>6 DEF x
  <2>8. WholeHeap' = WholeHeap
    BY <1>1, <1>5, HeapKept
  <2>9. RecordsBack' /\ CellsBack'
    BY <1>1, <2>7, <2>8 DEF ContentInv, RecordsBack, CellsBack
  <2>10. SlotsBack'
    <3> SUFFICES ASSUME pc \in {"record", "store"}
                 PROVE  AgreeBut(target, WC'[dram.addr], cell)
      BY <1>1 DEF SlotsBack
    <3>1. AgreeBut(target, WC[dram.addr], cell)
      BY DEF ContentInv, SlotsBack
    <3>2. CASE b = dram.addr
      <4>1. cell = vol[b]
        BY <3>2 DEF cell
      <4>2. AgreeBut(target, WC[b], vol[b])
        BY <3>1, <3>2, <4>1
      <4>3. AgreeBut(target, x, vol[b])
        BY <2>4, <2>5, <4>2, BackPending DEF x
      <4> QED
        BY <3>2, <4>1, <4>3 DEF x
    <3> QED
      BY <1>2, <2>4, <3>1, <3>2
  <2>11. pc = "head" => HeadBacks' /\ WC'[dram.addr] \in {WC[dram.addr], cell}
    <3> SUFFICES ASSUME pc = "head"
                 PROVE  HeadBacks' /\ WC'[dram.addr] \in {WC[dram.addr], cell}
      OBVIOUS
    <3>1. WC[dram.addr].slot = cell.slot
      BY DEF ContentInv, HeadBacks
    <3>2. WC'[dram.addr] \in {WC[dram.addr], cell}
      BY <1>2, <2>4, <2>6, <3>1 DEF cell, x
    <3>3. SoundIn(lines, cell, heap)
      BY DEF ContentInv, Contents
    <3> QED
      BY <1>1, <3>2, <3>3 DEF ContentInv, HeadBacks
  <2>12. pc # "head" => HeadBacks'
    BY <1>1 DEF HeadBacks
  <2> QED
    BY <1>2, <1>3, <2>7, <2>8, <2>9, <2>10, <2>11, <2>12 DEF ContentInv
<1>6. CASE UNCHANGED <<pmHeap, pmCells>>
  <2>1. WC' = WC /\ WholeHeap' = WholeHeap
    BY <1>1, <1>6, HeapKept DEF WC, WholeCell
  <2>2. RecordsBack' /\ CellsBack' /\ SlotsBack' /\ HeadBacks'
    BY <1>1, <2>1 DEF ContentInv, RecordsBack, CellsBack, SlotsBack, HeadBacks
  <2> QED
    BY <1>3, <2>1, <2>2 DEF ContentInv
<1> QED
  BY <1>4, <1>5, <1>6 DEF Evict

LEMMA ContentStoreSlot ==
  ASSUME MetaInv, TypeInv, TypeInv', ContentInv,
         NEW k \in Keys, NEW d \in Data, NEW v \in Values, StoreSlot(k, d, v)
  PROVE  /\ ContentInv'
         /\ \A k2 : ValIn(lines, cell', heap', k2) = ValIn(lines, cell, heap, k2)
<1>1. PICK i \in Slots, o \in Slots \cup {Null} :
        /\ PutSlot(k, i, o)
        /\ target' = i
        /\ old' = o
        /\ vol' = [vol EXCEPT ![dram.addr].slot[i] = [key |-> k, val |-> v]]
  BY DEF StoreSlot
<1>2. /\ pc = "idle" /\ upd' = [key |-> k, val |-> d]
      /\ UNCHANGED <<lines, flushes, pmHeap, retiredRecs, pmCells, meta, dram>>
      /\ lines = 0 => v = d /\ UNCHANGED <<heap, freeRecs>>
      /\ lines > 0 => /\ v \in freeRecs
                      /\ heap' = [heap EXCEPT ![v] = Encoded(d)]
                      /\ freeRecs' = freeRecs \ {v}
      /\ pc' = IF ~flushes THEN "bits" ELSE IF lines > 0 THEN "record" ELSE "store"
  BY DEF StoreSlot, Goto, layVars
<1>3. /\ lines \in Nat /\ freeRecs \subseteq Records /\ vol \in [Buckets -> Cell]
      /\ heap \in HeapType /\ heap' \in HeapType
      /\ WholeHeap = heap /\ freeRecs \cap retiredRecs = {}
      /\ SoundIn(lines, cell, heap) /\ Avoids(lines, cell, freeRecs \cup retiredRecs)
  <2>1. heap' \in HeapType
    BY <1>2 DEF TypeInv, ContentTypeOK, HeapType
  <2> QED
    BY <1>2, <2>1, Typed DEF ContentInv, RecordsBack, Contents
<1>4. /\ dram.addr \in Buckets /\ cell = vol[dram.addr] /\ cell \in Cell
      /\ \A a \in Buckets : WC[a] = vol[a]
  BY <1>2, <1>3 DEF MetaInv, Follows, InUse, cell, ContentInv, CellsBack
<1> DEFINE r == [key |-> k, val |-> v]
<1>5. r \in Record
  BY DEF Record
<1>6. /\ cell' = [cell EXCEPT !.slot[i] = r]
      /\ vol' = [vol EXCEPT ![dram.addr] = [cell EXCEPT !.slot[i] = r]]
  BY <1>1, <1>2, <1>3, <1>4 DEF cell
<1>7. /\ cell' = [bitmap |-> cell.bitmap, deleted |-> cell.deleted, slot |-> [cell.slot EXCEPT ![i] = r]]
  BY <1>4, <1>6 DEF Cell
<1>8. cell' \in Cell
  BY <1>4, <1>5, <1>7 DEF Cell
<1>9. \A a \in Buckets : a # dram.addr => vol'[a] = vol[a]
  BY <1>3, <1>4, <1>6, <1>8
<1>10. i \notin ValidBitSet(cell) /\ ValidBitSet(cell') = ValidBitSet(cell)
  BY <1>1, <1>7 DEF PutSlot, Lowest, BackupBitSet, EraseBitSet, ValidBitSet
<1>11. /\ cell'.slot[i] = r
       /\ \A j \in Slots \ {i} : cell'.slot[j] = cell.slot[j]
       /\ ValidBitSet(cell) \subseteq Slots
  BY <1>4, <1>7 DEF Cell, ValidBitSet
<1>12. /\ MatchBitSet(cell', k) = MatchBitSet(cell, k)
       /\ IF o = Null THEN MatchBitSet(cell, k) = {} ELSE o \in MatchBitSet(cell, k)
  <2>1. MatchBitSet(cell', k) = MatchBitSet(cell, k)
    BY <1>10, <1>11 DEF MatchBitSet
  <2>2. Null \notin Slots /\ MatchBitSet(cell, k) \subseteq Slots
    BY <1>11, NullAssumption DEF MatchBitSet
  <2> QED
    BY <1>1, <2>1, <2>2 DEF PutSlot, Lowest
<1>13. lines > 0 => /\ v \in Records \ (freeRecs' \cup retiredRecs)
                    /\ heap'[v] = EncodedIn(lines, d)
                    /\ \A x \in Records \ {v} : heap'[x] = heap[x]
                    /\ Avoids(lines, cell, {v})
  BY <1>2, <1>3 DEF Encoded, EncodedIn, Avoids, HeapType
<1>14. /\ SoundIn(lines, cell', heap')
       /\ \A k2 : ValIn(lines, cell', heap', k2) = ValIn(lines, cell, heap, k2)
       /\ \A R : Avoids(lines, cell', R) <=> Avoids(lines, cell, R)
  <2>1. lines > 0 => \A j \in ValidBitSet(cell) : heap'[cell.slot[j].val] = heap[cell.slot[j].val]
    BY <1>3, <1>13 DEF SoundIn, HoldsValue, Avoids
  <2>2. \A j \in ValidBitSet(cell) : cell'.slot[j] = cell.slot[j]
    BY <1>10, <1>11
  <2>3. Equivalent(lines, cell, heap, cell', heap')
    BY <1>3, <1>10, <2>1, <2>2, SameContent
  <2> QED
    BY <2>3 DEF Equivalent
<1>15. Stored'
  <2>1. /\ target' \in Slots \ ValidBitSet(cell') /\ cell'.slot[target'] = r
        /\ r.key = upd'.key /\ upd'.val \in Data /\ upd'.key = k /\ upd'.val = d /\ r.val = v
    BY <1>1, <1>2, <1>10, <1>11
  <2> QED
    BY <1>1, <1>2, <1>3, <1>5, <1>12, <1>13, <1>14, <2>1 DEF Stored
<1>16. RecordsBack'
  <2>1. lines > 0 => cell'.slot[target'].val = v
    BY <1>1, <1>11
  <2>2. lines = 0 => WholeHeap' = heap'
    BY <1>2, <1>3, HeapKept
  <2>3. ~flushes => WholeHeap' = heap'
    <3> SUFFICES ASSUME ~flushes
                 PROVE  WholeHeap' = heap'
      OBVIOUS
    <3>1. WholeHeap' = [x \in Records |-> [l \in 1..lines |-> heap'[x][l]]]
      BY <1>2 DEF WholeHeap
    <3> QED
      BY <1>3, <3>1 DEF HeapType
  <2>4. lines > 0 => \A x \in Records \ {v} : WholeHeap'[x] = heap'[x]
    BY <1>2, <1>3, <1>13, HeapAlone
  <2> QED
    BY <1>2, <1>3, <2>1, <2>2, <2>3, <2>4 DEF RecordsBack
<1>17. CellsBack' /\ SlotsBack'
  <2>1. \A a \in Buckets : a # dram.addr => WC'[a] = vol'[a]
    BY <1>2, <1>4, <1>9, CellsAlone
  <2>2. WC'[dram.addr] = IF flushes THEN cell ELSE cell'
    <3>1. /\ WC'[dram.addr] = IF flushes THEN pmCells[dram.addr]
                              ELSE Whole(pmCells[dram.addr], vol'[dram.addr])
      BY <1>2, <1>4, WholeIsNext
    <3>2. /\ flushes => pmCells[dram.addr] = cell
          /\ pmCells[dram.addr].bitmap = cell.bitmap /\ pmCells[dram.addr].deleted = cell.deleted
      BY <1>4, WholeIs
    <3>3. Whole(pmCells[dram.addr], cell') = cell'
      BY <1>7, <3>2 DEF Whole
    <3>4. vol'[dram.addr] = cell'
      BY <1>2 DEF cell
    <3> QED
      BY <3>1, <3>2, <3>3, <3>4
  <2>3. vol'[dram.addr] = cell'
    BY <1>2 DEF cell
  <2> QED
    BY <1>1, <1>2, <1>3, <1>7, <1>11, <2>1, <2>2, <2>3 DEF CellsBack, SlotsBack, AgreeBut
<1>18. HeadBacks' /\ Contents'
  <2>1. pc' \in {"record", "store", "bits"} /\ lines' = lines /\ retiredRecs' = retiredRecs
    BY <1>2, <1>3
  <2>2. freeRecs' \subseteq freeRecs
    BY <1>2, <1>3
  <2>3. Avoids(lines, cell', freeRecs' \cup retiredRecs)
    BY <1>3, <1>14, <2>2, AvoidsLess
  <2>4. freeRecs' \cap retiredRecs = {}
    BY <1>3, <2>2
  <2> QED
    BY <1>14, <2>1, <2>3, <2>4 DEF HeadBacks, Contents, Copying
<1> QED
  BY <1>14, <1>15, <1>16, <1>17, <1>18 DEF ContentInv

LEMMA ContentFlushRecord ==
  ASSUME MetaInv, TypeInv, TypeInv', ContentInv, FlushRecord
  PROVE  ContentInv'
<1> DEFINE r == cell.slot[target].val
<1>1. /\ pc = "record" /\ pc' = "store" /\ cell' = cell
      /\ UNCHANGED <<lines, flushes, heap, freeRecs, retiredRecs, vol, pmCells, dram, upd, target, old>>
      /\ pmHeap' = [pmHeap EXCEPT ![r][1] = heap[r][1]]
  BY DEF FlushRecord, RecordBack, Goto, memVars, opVars, cell, layVars
<1>2. /\ lines > 0 /\ lines \in Nat /\ r \in Records /\ heap \in HeapType
      /\ \A x \in Records \ {r} : WholeHeap[x] = heap[x]
  BY <1>1, Typed DEF TypeInv, Calls, ContentInv, RecordsBack, Stored
<1>3. WholeHeap' = heap
  <2>1. 1 \in 1..lines
    BY <1>2
  <2> HIDE DEF r
  <2>2. \A x \in Records : WholeHeap'[x] = heap[x]
    BY <1>1, <1>2, <2>1, HeapWritten
  <2>3. WholeHeap' \in [Records -> {WholeHeap'[x] : x \in Records}]
    BY DEF WholeHeap
  <2> QED
    BY <1>2, <2>2, <2>3 DEF HeapType
<1>4. WC' = WC
  BY <1>1 DEF WC, WholeCell
<1>5. Stored'
  BY <1>1 DEF ContentInv, Stored
<1>6. RecordsBack' /\ CellsBack' /\ SlotsBack'
  BY <1>1, <1>3, <1>4 DEF ContentInv, RecordsBack, CellsBack, SlotsBack
<1>7. HeadBacks' /\ Contents'
  BY <1>1 DEF ContentInv, HeadBacks, Contents, Copying
<1> QED
  BY <1>5, <1>6, <1>7 DEF ContentInv

LEMMA ContentFlushSlot ==
  ASSUME MetaInv, TypeInv, TypeInv', ContentInv, FlushSlot
  PROVE  ContentInv'
<1>1. /\ pc = "store" /\ pc' = "bits" /\ cell' = cell
      /\ UNCHANGED <<lines, flushes, heap, pmHeap, freeRecs, retiredRecs, vol, dram, upd, target, old>>
      /\ pmCells' = [pmCells EXCEPT ![dram.addr] =
                       LineBack(pmCells[dram.addr], vol[dram.addr], target)]
  BY DEF FlushSlot, Goto, recVars, opVars, cell, layVars
<1>2. /\ target \in Slots /\ AgreeBut(target, WC[dram.addr], cell)
      /\ dram.addr \in Buckets /\ cell = vol[dram.addr]
      /\ WC \in [Buckets -> Cell] /\ vol \in [Buckets -> Cell]
      /\ \A b \in Buckets \ {dram.addr} : WC[b] = vol[b]
  BY <1>1, Typed DEF MetaInv, Follows, InUse, ContentInv, Stored, SlotsBack, CellsBack, cell
<1>3. /\ WC'[dram.addr] = LineBack(WC[dram.addr], vol[dram.addr], target)
      /\ \A b \in Buckets \ {dram.addr} : WC'[b] = WC[b]
  BY <1>1, <1>2, CellsWritten
<1>4. LineBack(WC[dram.addr], cell, target) = cell
  BY <1>2, LineDone
<1>5. \A b \in Buckets : WC'[b] = vol[b]
  BY <1>2, <1>3, <1>4
<1>6. WholeHeap' = WholeHeap
  BY <1>1, HeapKept
<1>7. Stored'
  BY <1>1 DEF ContentInv, Stored
<1>8. RecordsBack' /\ CellsBack' /\ SlotsBack'
  BY <1>1, <1>5, <1>6 DEF ContentInv, RecordsBack, CellsBack, SlotsBack
<1>9. HeadBacks' /\ Contents'
  BY <1>1 DEF ContentInv, HeadBacks, Contents, Copying
<1> QED
  BY <1>7, <1>8, <1>9 DEF ContentInv

(* An update reaches the version word: from here on the program sees it.    *)
LEMMA ContentHead ==
  ASSUME MetaInv, TypeInv, TypeInv', ContentInv, pc \in {"idle", "bits"}, pc' = "head",
         UNCHANGED <<lines, flushes, heap, pmHeap, freeRecs, pmCells, dram>>,
         vol' = [vol EXCEPT ![dram.addr] = cell'],
         cell'.slot = cell.slot,
         SoundIn(lines, cell', heap),
         ValIn(lines, cell', heap, upd'.key) = upd'.val,
         \A k : k # upd'.key => ValIn(lines, cell', heap, k) = ValIn(lines, cell, heap, k),
         freeRecs \cap retiredRecs' = {},
         Avoids(lines, cell', freeRecs \cup retiredRecs')
  PROVE  ContentInv'
<1>1. /\ dram.addr \in Buckets /\ cell = vol[dram.addr]
      /\ vol \in [Buckets -> Cell]
      /\ \A b \in Buckets : WC[b] = vol[b]
      /\ WholeHeap = heap
      /\ SoundIn(lines, cell, heap)
  BY Typed DEF MetaInv, Follows, InUse, ContentInv, CellsBack, RecordsBack, Contents, cell, Copying
<1>2. \A b \in Buckets \ {dram.addr} : vol'[b] = vol[b]
  BY <1>1
<1>3. vol'[dram.addr].slot = vol[dram.addr].slot
  BY <1>1
<1>4. (\A b \in Buckets : WC'[b] = WC[b]) /\ WholeHeap' = WholeHeap
  BY <1>2, <1>3, CellsAlone, HeapKept
<1>5. Stored'
  BY DEF Stored
<1>6. RecordsBack' /\ CellsBack' /\ SlotsBack'
  BY <1>1, <1>2, <1>4 DEF RecordsBack, CellsBack, SlotsBack
<1>7. HeadBacks'
  <2>1. WC'[dram'.addr] = cell
    BY <1>1, <1>4
  <2> QED
    BY <1>1, <2>1 DEF HeadBacks
<1>8. Contents'
  BY DEF Contents, Copying
<1> QED
  BY <1>5, <1>6, <1>7, <1>8 DEF ContentInv

LEMMA ContentStoreVersion ==
  ASSUME MetaInv, TypeInv, TypeInv', ContentInv, StoreVersion
  PROVE  ContentInv'
<1> DEFINE O == MatchBitSet(cell, upd.key)
           rec == cell.slot[target]
<1>1. /\ pc = "bits" /\ pc' = "head"
      /\ UNCHANGED <<lines, flushes, heap, pmHeap, freeRecs, pmCells, dram, upd, target, old>>
      /\ retiredRecs' = IF lines = 0 \/ old = Null THEN retiredRecs
                        ELSE retiredRecs \cup {cell.slot[old].val}
      /\ vol' = [vol EXCEPT
                   ![dram.addr].bitmap =
                      IF old = Null THEN @ \cup {target} ELSE Toggle(@ \cup {target}, old),
                   ![dram.addr].deleted = @ \ {target}]
  BY DEF StoreVersion, Retires, Goto, opVars, layVars
<1>2. /\ target \in Slots \ ValidBitSet(cell) /\ rec \in Record /\ rec.key = upd.key
      /\ upd.val \in Data /\ upd \in [key : Keys, val : Data \cup {Absent}]
      /\ IF old = Null THEN O = {} ELSE old \in O
      /\ lines = 0 => rec.val = upd.val
      /\ lines > 0 => /\ rec.val \in Records \ (freeRecs \cup retiredRecs)
                      /\ heap[rec.val] = EncodedIn(lines, upd.val)
                      /\ Avoids(lines, cell, {rec.val})
  BY <1>1 DEF ContentInv, Stored, TypeInv, Calls, Updating
<1>3. /\ SoundIn(lines, cell, heap) /\ Avoids(lines, cell, freeRecs \cup retiredRecs)
      /\ freeRecs \cap retiredRecs = {} /\ retiredRecs \subseteq Records
      /\ lines \in Nat
      /\ dram.addr \in Buckets /\ cell = vol[dram.addr] /\ cell \in Cell
      /\ vol \in [Buckets -> Cell]
  BY <1>1, Typed DEF MetaInv, Follows, InUse, ContentInv, Contents, cell
<1>4. O = IF old = Null THEN {} ELSE {old}
  <2>1. CASE old = Null
    BY <1>2, <2>1
  <2>2. CASE old # Null
    <3>1. old \in O
      BY <1>2, <2>2
    <3>2. \A i \in O : i = old
      BY <1>3, <3>1, MatchOnce
    <3> QED
      BY <2>2, <3>1, <3>2
  <2> QED
    BY <2>1, <2>2
<1>5. O \subseteq ValidBitSet(cell) /\ ValidBitSet(cell) \subseteq Slots
  BY <1>3 DEF MatchBitSet, ValidBitSet, Cell
<1> DEFINE bits == IF old = Null THEN cell.bitmap \cup {target}
                   ELSE Toggle(cell.bitmap \cup {target}, old)
<1>6. /\ cell' = [bitmap |-> bits, deleted |-> cell.deleted \ {target}, slot |-> cell.slot]
      /\ vol' = [vol EXCEPT ![dram.addr] = cell']
  <2> DEFINE e == [bitmap |-> bits, deleted |-> cell.deleted \ {target}, slot |-> cell.slot]
             d == [cell EXCEPT !.bitmap = bits, !.deleted = @ \ {target}]
  <2>1. vol' = [vol EXCEPT ![dram.addr] = e]
    <3>1. vol' = [vol EXCEPT ![dram.addr] = d]
      BY <1>1 DEF cell
    <3> HIDE DEF bits
    <3>2. d = e
      <4>1. cell \in Cell
        BY <1>3
      <4>2. [cell EXCEPT !.bitmap = bits, !.deleted = @ \ {target}]
              = [bitmap |-> bits, deleted |-> cell.deleted \ {target}, slot |-> cell.slot]
        BY <4>1, BitmapsStored
      <4> QED
        BY <4>2
    <3> QED
      BY <3>1, <3>2
  <2> HIDE DEF e
  <2>2. cell' = e
    BY <1>1, <1>3, <2>1 DEF cell
  <2> QED
    BY <2>1, <2>2 DEF e
<1>7. bits = (cell.bitmap \cup {target}) \ O
  BY <1>2, <1>4, <1>5 DEF Toggle, ValidBitSet
<1> HIDE DEF bits
<1>8. ValidBitSet(cell') = (ValidBitSet(cell) \cup {target}) \ O
  BY <1>6, <1>7 DEF ValidBitSet
<1>9. /\ SoundIn(lines, cell', heap)
       /\ ValIn(lines, cell', heap, upd.key) = upd.val
       /\ \A k : k # upd.key => ValIn(lines, cell', heap, k) = ValIn(lines, cell, heap, k)
  <2>1. cell'.slot = cell.slot
    BY <1>6
  <2> HIDE DEF rec
  <2>2. target \notin ValidBitSet(cell) /\ O = MatchBitSet(cell, upd.key)
    BY <1>2
  <2>3. cell.slot[target] \in Record /\ cell.slot[target].key = upd.key
    BY <1>2 DEF rec
  <2>4. lines = 0 => cell.slot[target].val = upd.val
    BY <1>2 DEF rec
  <2>5. lines > 0 => /\ cell.slot[target].val \in Records
                     /\ heap[cell.slot[target].val] = EncodedIn(lines, upd.val)
                     /\ Avoids(lines, cell, {cell.slot[target].val})
    BY <1>2 DEF rec
  <2> HIDE DEF O
  <2>6. Updated(lines, cell, cell', heap, upd.key, upd.val)
    BY <1>2, <1>3, <1>8, <2>1, <2>2, <2>3, <2>4, <2>5, StoredContent
  <2> QED
    BY <2>6 DEF Updated
<1>10. /\ retiredRecs' \subseteq Records /\ freeRecs \cap retiredRecs' = {}
       /\ Avoids(lines, cell', freeRecs \cup retiredRecs')
  <2>1. CASE lines = 0 \/ old = Null
    <3>1. retiredRecs' = retiredRecs
      BY <1>1, <2>1
    <3>2. lines > 0 => ValidBitSet(cell') = ValidBitSet(cell) \cup {target}
      BY <1>3, <1>4, <1>8, <2>1
    <3> QED
      BY <1>2, <1>3, <1>6, <3>1, <3>2 DEF Avoids
  <2>2. CASE lines > 0 /\ old # Null
    <3>1. retiredRecs' = retiredRecs \cup {cell.slot[old].val} /\ old \in ValidBitSet(cell)
      BY <1>1, <1>2, <1>5, <2>2
    <3>2. /\ cell.slot[old].val \in Records \ (freeRecs \cup retiredRecs)
          /\ cell.slot[old].val # rec.val
          /\ \A i \in ValidBitSet(cell) \ {old} : cell.slot[i].val # cell.slot[old].val
      <4>1. cell.slot[old].val \in Records
        BY <1>3, <2>2, <3>1 DEF SoundIn, HoldsValue
      <4>2. cell.slot[old].val \notin freeRecs \cup retiredRecs
        BY <1>3, <2>2, <3>1 DEF Avoids
      <4>3. cell.slot[old].val # rec.val
        BY <1>2, <2>2, <3>1 DEF Avoids
      <4>4. \A i \in ValidBitSet(cell) \ {old} : cell.slot[i].val # cell.slot[old].val
        BY <1>3, <2>2, <3>1 DEF SoundIn
      <4> QED
        BY <4>1, <4>2, <4>3, <4>4
    <3>3. ASSUME NEW i \in ValidBitSet(cell')
          PROVE  cell'.slot[i].val \notin freeRecs \cup retiredRecs'
      <4>1. cell'.slot[i] = cell.slot[i]
        BY <1>6
      <4>2. i = target \/ i \in ValidBitSet(cell) \ {old}
        BY <1>4, <1>8, <2>2
      <4> QED
        BY <1>2, <1>3, <2>2, <3>1, <3>2, <4>1, <4>2 DEF Avoids
    <3> QED
      BY <1>3, <3>1, <3>2, <3>3 DEF Avoids
  <2> QED
    BY <1>3, <2>1, <2>2
<1>11. cell'.slot = cell.slot
  BY <1>6
<1> HIDE DEF rec, O
<1> QED
  BY <1>1, <1>2, <1>6, <1>9, <1>10, <1>11, ContentHead

LEMMA ContentDelete ==
  ASSUME MetaInv, TypeInv, TypeInv', ContentInv, NEW k \in Keys, Delete(k)
  PROVE  ContentInv'
<1>1. PICK i \in Slots :
        /\ Lowest(i, MatchBitSet(cell, k))
        /\ Retires(i)
        /\ vol' = [vol EXCEPT ![dram.addr].deleted = @ \cup {i}]
  BY DEF Delete
<1>2. /\ pc = "idle" /\ pc' = "head" /\ upd' = [key |-> k, val |-> Absent]
      /\ UNCHANGED <<lines, flushes, heap, pmHeap, freeRecs, pmCells, dram, target, old>>
  BY DEF Delete, Goto, layVars
<1>3. /\ SoundIn(lines, cell, heap) /\ Avoids(lines, cell, freeRecs \cup retiredRecs)
      /\ freeRecs \cap retiredRecs = {} /\ retiredRecs \subseteq Records
      /\ lines \in Nat
      /\ dram.addr \in Buckets /\ cell = vol[dram.addr] /\ cell \in Cell
      /\ vol \in [Buckets -> Cell]
  BY <1>2, Typed DEF MetaInv, Follows, InUse, ContentInv, Contents, cell
<1>4. /\ cell' = [bitmap |-> cell.bitmap, deleted |-> cell.deleted \cup {i}, slot |-> cell.slot]
      /\ vol' = [vol EXCEPT ![dram.addr] = cell']
  <2> DEFINE e == [bitmap |-> cell.bitmap, deleted |-> cell.deleted \cup {i}, slot |-> cell.slot]
  <2>1. vol' = [vol EXCEPT ![dram.addr] = e]
    <3>1. [cell EXCEPT !.deleted = @ \cup {i}] = e
      BY <1>3, BitmapsStored
    <3>2. vol' = [vol EXCEPT ![dram.addr] = [cell EXCEPT !.deleted = @ \cup {i}]]
      BY <1>1 DEF cell
    <3> QED
      BY <3>1, <3>2
  <2> HIDE DEF e
  <2>2. cell' = e
    BY <1>2, <1>3, <2>1 DEF cell
  <2> QED
    BY <2>1, <2>2 DEF e
<1>5. cell' \in Cell /\ cell'.slot = cell.slot
  BY <1>3, <1>4 DEF Cell
<1>6. i \in MatchBitSet(cell, k) /\ i \in ValidBitSet(cell)
  BY <1>1 DEF Lowest, MatchBitSet
<1>7. ValidBitSet(cell') = ValidBitSet(cell) \ {i}
  BY <1>4 DEF ValidBitSet
<1>8. /\ SoundIn(lines, cell', heap)
      /\ ValIn(lines, cell', heap, k) = Absent
      /\ \A k2 : k2 # k => ValIn(lines, cell', heap, k2) = ValIn(lines, cell, heap, k2)
  <2>1. Updated(lines, cell, cell', heap, k, Absent)
    BY <1>3, <1>5, <1>6, <1>7, ErasedContent
  <2> QED
    BY <2>1 DEF Updated
<1>9. /\ retiredRecs' \subseteq Records /\ freeRecs \cap retiredRecs' = {}
      /\ Avoids(lines, cell', freeRecs \cup retiredRecs')
  <2>1. i # Null
    BY NullAssumption
  <2>2. CASE lines = 0
    <3>1. retiredRecs' = retiredRecs
      BY <1>1, <2>2 DEF Retires
    <3> QED
      BY <1>3, <2>2, <3>1 DEF Avoids
  <2>3. CASE lines > 0
    <3>1. retiredRecs' = retiredRecs \cup {cell.slot[i].val}
      BY <1>1, <2>1, <2>3 DEF Retires
    <3>2. /\ cell.slot[i].val \in Records \ (freeRecs \cup retiredRecs)
          /\ \A j \in ValidBitSet(cell) \ {i} : cell.slot[j].val # cell.slot[i].val
      BY <1>3, <1>6, <2>3 DEF SoundIn, HoldsValue, Avoids
    <3> QED
      BY <1>3, <1>5, <1>7, <2>3, <3>1, <3>2 DEF Avoids
  <2> QED
    BY <1>3, <2>2, <2>3
<1>10. /\ upd' \in [key : Keys, val : Data \cup {Absent}] /\ upd'.key = k /\ upd'.val = Absent
  BY <1>2
<1> QED
  BY <1>2, <1>4, <1>5, <1>8, <1>9, <1>10, ContentHead

LEMMA ContentFlushHead ==
  ASSUME MetaInv, TypeInv, TypeInv', ContentInv, FlushHead
  PROVE  ContentInv'
<1>1. /\ pc = "head" /\ pc' = "idle" /\ cell' = cell
      /\ UNCHANGED <<lines, flushes, heap, pmHeap, freeRecs, retiredRecs, vol, dram>>
      /\ upd' = Null /\ target' = Null /\ old' = Null
      /\ pmCells' = [pmCells EXCEPT ![dram.addr] = HeadBack(pmCells[dram.addr], vol[dram.addr])]
  BY DEF FlushHead, Goto, recVars, cell, layVars
<1>2. /\ WC[dram.addr].slot = cell.slot
      /\ dram.addr \in Buckets /\ cell = vol[dram.addr]
      /\ WC \in [Buckets -> Cell] /\ vol \in [Buckets -> Cell]
      /\ \A b \in Buckets \ {dram.addr} : WC[b] = vol[b]
  BY <1>1, Typed DEF MetaInv, Follows, InUse, ContentInv, HeadBacks, CellsBack, cell
<1>3. HeadBack(WC[dram.addr], cell) = cell
  <2>1. \E i \in Slots : TRUE
    BY SlotAssumption DEF Slots
  <2> QED
    BY <1>2, <2>1, BackTyped
<1>4. /\ WC'[dram.addr] = HeadBack(WC[dram.addr], vol[dram.addr])
      /\ \A b \in Buckets \ {dram.addr} : WC'[b] = WC[b]
  BY <1>1, <1>2, CellsWritten
<1>5. \A b \in Buckets : WC'[b] = vol[b]
  BY <1>2, <1>3, <1>4
<1>6. WholeHeap' = WholeHeap
  BY <1>1, HeapKept
<1>7. Stored' /\ RecordsBack' /\ CellsBack' /\ SlotsBack'
  BY <1>1, <1>5, <1>6 DEF ContentInv, Stored, RecordsBack, CellsBack, SlotsBack
<1>8. HeadBacks' /\ Contents'
  BY <1>1 DEF ContentInv, HeadBacks, Contents, Copying
<1> QED
  BY <1>7, <1>8 DEF ContentInv

LEMMA ContentFill ==
  ASSUME MetaInv, TypeInv, TypeInv', ContentInv,
         NEW b \in Buckets, NEW s, NEW f \in Places(cell), FillBucket(b, s, f)
  PROVE  ContentInv'
<1>1. /\ pc = "idle" /\ pc' = "filled" /\ b \in free /\ old' = b
      /\ UNCHANGED <<lines, flushes, heap, pmHeap, freeRecs, retiredRecs, pmCells, dram, upd, target>>
      /\ vol' = [vol EXCEPT ![b] = Moved(cell, f)]
  BY DEF FillBucket, Goto, recVars, layVars
<1>2. /\ dram.addr \in Buckets /\ b # dram.addr /\ cell = vol[dram.addr] /\ cell \in Cell
      /\ vol \in [Buckets -> Cell] /\ lines \in Nat
      /\ \A a \in Buckets : WC[a] = vol[a]
      /\ WholeHeap = heap
      /\ SoundIn(lines, cell, heap) /\ Avoids(lines, cell, freeRecs \cup retiredRecs)
      /\ freeRecs \cap retiredRecs = {}
  BY <1>1, Typed DEF MetaInv, Follows, InUse, ContentInv, RecordsBack, CellsBack, Contents, cell
<1>3. /\ SoundIn(lines, Moved(cell, f), heap)
      /\ SameValues(lines, Moved(cell, f), cell, heap)
      /\ Avoids(lines, Moved(cell, f), freeRecs \cup retiredRecs)
  BY <1>2, MovedContent
<1>4. vol'[b] = Moved(cell, f) /\ \A a \in Buckets \ {b} : vol'[a] = vol[a]
  BY <1>1, <1>2
<1>5. cell' = cell
  BY <1>1, <1>2, <1>4 DEF cell
<1>6. (\A a \in Buckets \ {b} : WC'[a] = WC[a]) /\ WholeHeap' = WholeHeap
  BY <1>1, <1>4, CellsAlone, HeapKept
<1>7. Stored' /\ RecordsBack' /\ CellsBack' /\ SlotsBack'
  BY <1>1, <1>2, <1>4, <1>6 DEF Stored, RecordsBack, CellsBack, SlotsBack
<1>8. HeadBacks' /\ Contents'
  BY <1>1, <1>2, <1>3, <1>4, <1>5 DEF HeadBacks, Contents, Copying
<1> QED
  BY <1>7, <1>8 DEF ContentInv

LEMMA ContentFlushBucket ==
  ASSUME MetaInv, TypeInv, TypeInv', ContentInv, FlushBucket
  PROVE  ContentInv'
<1>1. /\ pc = "filled" /\ pc' = "reset" /\ cell' = cell
      /\ UNCHANGED <<lines, flushes, heap, pmHeap, freeRecs, retiredRecs, vol, dram, upd, target, old>>
      /\ pmCells' = [pmCells EXCEPT ![old] = vol[old]]
  BY DEF FlushBucket, Goto, recVars, opVars, cell, layVars
<1>2. /\ old \in Buckets
      /\ \A b \in Buckets \ {old} : WC[b] = vol[b]
  BY <1>1 DEF MetaInv, Follows, InUse, Copying, ContentInv, CellsBack
<1>3. WC'[old] = vol[old] /\ \A b \in Buckets \ {old} : WC'[b] = WC[b]
  BY <1>1, <1>2, CellsWritten
<1>4. (\A b \in Buckets : WC'[b] = vol[b]) /\ WholeHeap' = WholeHeap
  BY <1>1, <1>2, <1>3, HeapKept
<1>5. Stored' /\ RecordsBack' /\ CellsBack' /\ SlotsBack'
  BY <1>1, <1>4 DEF ContentInv, Stored, RecordsBack, CellsBack, SlotsBack
<1>6. HeadBacks' /\ Contents'
  BY <1>1 DEF ContentInv, HeadBacks, Contents, Copying
<1> QED
  BY <1>5, <1>6 DEF ContentInv

LEMMA ContentReset ==
  ASSUME MetaInv, TypeInv, TypeInv', ContentInv, ResetDram
  PROVE  ContentInv'
<1>1. /\ pc = "reset" /\ pc' = "commit"
      /\ UNCHANGED <<lines, flushes, heap, pmHeap, freeRecs, retiredRecs, vol, pmCells, upd, target>>
      /\ dram'.addr = old /\ old' = dram.addr
  BY DEF ResetDram, Goto, recVars, memVars, layVars
<1>2. /\ dram.addr \in Buckets /\ cell = vol[dram.addr] /\ cell' = vol[old]
      /\ \A b \in Buckets : WC[b] = vol[b]
      /\ WholeHeap = heap
  BY <1>1 DEF MetaInv, Follows, InUse, ContentInv, CellsBack, RecordsBack, cell
<1>3. WC' = WC /\ WholeHeap' = WholeHeap
  BY <1>1, HeapKept DEF WC, WholeCell
<1>4. /\ SoundIn(lines, vol[old], heap) /\ Avoids(lines, vol[old], freeRecs \cup retiredRecs)
      /\ SoundIn(lines, cell, heap) /\ Avoids(lines, cell, freeRecs \cup retiredRecs)
      /\ SameValues(lines, cell, vol[old], heap)
      /\ freeRecs \cap retiredRecs = {}
  BY <1>1 DEF ContentInv, Contents, Copying, SameValues
<1>5. Stored' /\ RecordsBack' /\ CellsBack' /\ SlotsBack'
  BY <1>1, <1>2, <1>3 DEF Stored, RecordsBack, CellsBack, SlotsBack
<1>6. HeadBacks' /\ Contents'
  BY <1>1, <1>2, <1>4 DEF HeadBacks, Contents, Copying
<1> QED
  BY <1>5, <1>6 DEF ContentInv

LEMMA ContentRetire ==
  ASSUME MetaInv, TypeInv, TypeInv', ContentInv, RetireBucket
  PROVE  ContentInv'
<1>1. /\ pc = "retire" /\ pc' = "idle" /\ old' = Null /\ cell' = cell
      /\ UNCHANGED <<lines, flushes, heap, pmHeap, freeRecs, retiredRecs, vol, pmCells, dram, upd, target>>
  BY DEF RetireBucket, Goto, recVars, memVars, cell, layVars
<1>2. WC' = WC /\ WholeHeap' = WholeHeap
  BY <1>1, HeapKept DEF WC, WholeCell
<1>3. Stored' /\ RecordsBack' /\ CellsBack' /\ SlotsBack'
  BY <1>1, <1>2 DEF ContentInv, Stored, RecordsBack, CellsBack, SlotsBack
<1>4. HeadBacks' /\ Contents'
  BY <1>1 DEF ContentInv, HeadBacks, Contents, Copying
<1> QED
  BY <1>3, <1>4 DEF ContentInv

LEMMA ContentReleaseRecord ==
  ASSUME MetaInv, TypeInv, TypeInv', ContentInv, NEW r \in Records, ReleaseRecord(r)
  PROVE  ContentInv' /\ \A k : ValIn(lines, cell', heap', k) = ValIn(lines, cell, heap, k)
<1>1. /\ pc = "idle" /\ pc' = "idle" /\ cell' = cell /\ r \in retiredRecs
      /\ UNCHANGED <<lines, flushes, vol, pmCells, meta, dram, upd, target, old>>
      /\ retiredRecs' = retiredRecs \ {r} /\ freeRecs' = freeRecs \cup {r}
      /\ heap' = ForgetRecords(heap, {r}) /\ pmHeap' = ForgetRecords(pmHeap, {r})
  BY DEF ReleaseRecord, memVars, opVars, cell, layVars
<1>2. /\ SoundIn(lines, cell, heap) /\ Avoids(lines, cell, freeRecs \cup retiredRecs)
      /\ freeRecs \cap retiredRecs = {} /\ lines \in Nat /\ WholeHeap = heap
      /\ heap \in HeapType
  BY <1>1, Typed DEF ContentInv, Contents, RecordsBack
<1>3. \A x \in Records \ {r} : heap'[x] = heap[x]
  <2>1. {r} \in SUBSET Records
    OBVIOUS
  <2> QED
    BY <1>1, <1>2, <2>1, ForgetTyped
<1>4. WholeHeap' = heap' /\ WC' = WC
  <2>1. \A x \in Records : WholeHeap'[x] = IF x \in {r} THEN Encoded(Zeroed) ELSE heap[x]
    BY <1>1, <1>2, HeapForgotten
  <2>2. WholeHeap' \in [Records -> {WholeHeap'[x] : x \in Records}]
    BY DEF WholeHeap
  <2> QED
    BY <1>1, <2>1, <2>2 DEF ForgetRecords, WC, WholeCell
<1>5. /\ SoundIn(lines, cell, heap')
      /\ \A k : ValIn(lines, cell, heap', k) = ValIn(lines, cell, heap, k)
  <2>1. lines > 0 => \A j \in ValidBitSet(cell) : heap'[cell.slot[j].val] = heap[cell.slot[j].val]
    <3> SUFFICES ASSUME lines > 0, NEW j \in ValidBitSet(cell)
                 PROVE  heap'[cell.slot[j].val] = heap[cell.slot[j].val]
      OBVIOUS
    <3>1. HoldsValue(lines, heap, cell.slot[j].val)
      BY <1>2 DEF SoundIn
    <3>2. cell.slot[j].val \in Records
      BY <3>1 DEF HoldsValue
    <3>3. cell.slot[j].val # r
      BY <1>1, <1>2 DEF Avoids
    <3> QED
      BY <1>3, <3>2, <3>3
  <2>2. Equivalent(lines, cell, heap, cell, heap')
    BY <1>2, <2>1, SameContent
  <2> QED
    BY <2>2 DEF Equivalent
<1>6. freeRecs' \cup retiredRecs' = freeRecs \cup retiredRecs /\ freeRecs' \cap retiredRecs' = {}
  BY <1>1, <1>2
<1>7. Stored' /\ RecordsBack' /\ CellsBack' /\ SlotsBack'
  BY <1>1, <1>4 DEF ContentInv, Stored, RecordsBack, CellsBack, SlotsBack
<1>8. HeadBacks' /\ Contents'
  BY <1>1, <1>2, <1>5, <1>6 DEF HeadBacks, Contents, Copying
<1> QED
  BY <1>1, <1>5, <1>7, <1>8 DEF ContentInv

LEMMA ContentRelease ==
  ASSUME MetaInv, TypeInv, TypeInv', ContentInv, NEW b \in Buckets, Release(b)
  PROVE  ContentInv'
<1>1. /\ pc # "down" /\ pc' = pc /\ b \in retired
      /\ UNCHANGED <<lines, flushes, heap, pmHeap, freeRecs, retiredRecs, meta, dram, upd, target, old>>
      /\ vol' = Forget(vol, {b}) /\ pmCells' = Forget(pmCells, {b})
  BY DEF Release, recVars, opVars, layVars
<1>2. /\ dram.addr \in Buckets \ {b}
      /\ pc \in Copying => old \in Buckets \ {b}
  BY <1>1 DEF MetaInv, Follows, InUse
<1>3. /\ vol'[b] = EmptyCell /\ WC'[b] = EmptyCell
      /\ \A a \in Buckets \ {b} : vol'[a] = vol[a] /\ WC'[a] = WC[a]
      /\ WholeHeap' = WholeHeap
  BY <1>1, CellsForgotten, HeapKept DEF Forget
<1>4. cell' = cell /\ WC'[dram.addr] = WC[dram.addr]
  BY <1>1, <1>2, <1>3 DEF cell
<1>5. Stored'
  BY <1>1, <1>4 DEF ContentInv, Stored
<1>6. RecordsBack' /\ CellsBack' /\ SlotsBack'
  BY <1>1, <1>2, <1>3, <1>4 DEF ContentInv, RecordsBack, CellsBack, SlotsBack
<1>7. HeadBacks'
  BY <1>1, <1>4 DEF ContentInv, HeadBacks
<1>8. Contents'
  BY <1>1, <1>2, <1>3, <1>4 DEF ContentInv, Contents
<1> QED
  BY <1>5, <1>6, <1>7, <1>8 DEF ContentInv

(* The bucket that a restart finds when the pointer to it is there.         *)
Named == Extract(WholeMeta).addr

(* What a restart finds when the lines that nobody flushes are there.       *)
LEMMA DurableContent ==
  ASSUME MetaInv, TypeInv, ContentInv, lost = {}
  PROVE  /\ Named \in Buckets
         /\ SoundIn(lines, WC[Named], WholeHeap)
         /\ pc \notin {"head", "down"} =>
              \A k \in Keys : ValIn(lines, WC[Named], WholeHeap, k) = ValIn(lines, cell, heap, k)
         /\ pc = "head" => Named = dram.addr /\ WholeHeap = heap
         /\ pc = "down" => /\ Named = Extract(meta).addr /\ WholeHeap = heap
                           /\ WC[Named] = vol[Extract(meta).addr]
<1>1. /\ lines \in Nat
      /\ pc \in {"idle", "down"} \cup Updating \cup Copying
      /\ "bucket" \notin lost
  BY DEF MetaInv, MetaTypeOK
<1>2. CASE pc = "down"
  <2>1. /\ WholeMeta = meta /\ Extract(meta).addr \in Buckets
        /\ WholeHeap = heap /\ \A b \in Buckets : WC[b] = vol[b]
        /\ SoundIn(lines, vol[Extract(meta).addr], heap)
    BY <1>1, <1>2 DEF MetaInv, Counts, Lags, InUse, ContentInv, RecordsBack, CellsBack, Contents
  <2> QED
    BY <1>2, <2>1 DEF Named
<1>3. CASE pc \in {"idle", "bits", "filled", "reset", "retire"}
  <2>1. /\ WholeMeta = meta /\ Extract(meta) = dram /\ dram.addr \in Buckets
        /\ WholeHeap = heap /\ WC[dram.addr] = vol[dram.addr]
        /\ SoundIn(lines, cell, heap)
    BY <1>3 DEF MetaInv, Follows, Lags, InUse, Copying, ContentInv, RecordsBack, CellsBack, Contents
  <2> QED
    BY <1>3, <2>1 DEF cell, Named
<1>4. CASE pc = "head"
  <2>1. /\ WholeMeta = meta /\ Extract(meta) = dram /\ dram.addr \in Buckets
        /\ WholeHeap = heap /\ SoundIn(lines, WC[dram.addr], heap)
    BY <1>4 DEF MetaInv, Follows, Lags, InUse, ContentInv, RecordsBack, HeadBacks
  <2> QED
    BY <1>4, <2>1 DEF Named
<1>5. CASE pc \in {"record", "store"}
  <2> DEFINE p == WC[dram.addr]
  <2>1. /\ WholeMeta = meta /\ Extract(meta) = dram /\ dram.addr \in Buckets
        /\ AgreeBut(target, p, cell)
        /\ SoundIn(lines, cell, heap)
        /\ target \in Slots \ ValidBitSet(cell)
        /\ lines > 0 => Avoids(lines, cell, {cell.slot[target].val})
        /\ WholeHeap = heap \/ \A r \in Records \ {cell.slot[target].val} : WholeHeap[r] = heap[r]
    BY <1>1, <1>5 DEF MetaInv, Follows, Lags, InUse, ContentInv, RecordsBack, SlotsBack, Contents,
                 Stored
  <2>2. cell \in Cell
    BY <2>1, Typed DEF cell
  <2>3. /\ ValidBitSet(p) = ValidBitSet(cell)
        /\ \A i \in ValidBitSet(cell) : p.slot[i] = cell.slot[i]
    BY <2>1, <2>2 DEF AgreeBut, ValidBitSet, Cell
  <2>4. lines > 0 => \A i \in ValidBitSet(cell) : WholeHeap[cell.slot[i].val] = heap[cell.slot[i].val]
    BY <2>1 DEF SoundIn, HoldsValue, Avoids
  <2> HIDE DEF p
  <2>5. Equivalent(lines, cell, heap, p, WholeHeap)
    BY <1>1, <2>1, <2>3, <2>4, SameContent
  <2>6. WC[Named] = p /\ Named \in Buckets
    BY <2>1 DEF Named, p
  <2> QED
    BY <1>5, <2>5, <2>6 DEF Equivalent
<1>6. CASE pc \in {"commit", "fields", "switch", "switched"}
  <2>1. /\ old \in Buckets /\ dram.addr \in Buckets
        /\ WholeHeap = heap /\ \A b \in Buckets : WC[b] = vol[b]
        /\ SoundIn(lines, cell, heap) /\ SoundIn(lines, vol[old], heap)
        /\ SameValues(lines, vol[old], cell, heap)
    BY <1>6 DEF MetaInv, Follows, InUse, Copying, ContentInv, RecordsBack, CellsBack, Contents
  <2>2. Named \in {old, dram.addr}
    BY <1>6 DEF MetaInv, Follows, Lags, Named
  <2> QED
    BY <1>6, <2>1, <2>2 DEF cell, SameValues
<1> QED
  BY <1>1, <1>2, <1>3, <1>4, <1>5, <1>6 DEF Updating, Copying

(* A crash that loses nothing that nobody flushed.                          *)
LEMMA CrashContent ==
  ASSUME MetaInv, TypeInv, TypeInv', ContentInv, Crash, lost' = {}
  PROVE  /\ Durable.addr = Named /\ WholeMeta' = pmMeta
         /\ Equivalent(lines, WC[Named], WholeHeap, pmCells[Named], pmHeap)
         /\ WholeHeap' = pmHeap /\ \A b \in Buckets : WC'[b] = pmCells[b]
<1>1. /\ lost = {} /\ Reached /\ ValuesThere
      /\ UNCHANGED <<layVars, pmHeap, pmCells, pmMeta>>
      /\ vol' = pmCells /\ heap' = pmHeap /\ meta' = pmMeta
  BY DEF Crash
<1>2. Durable.addr = Named
  BY <1>1 DEF Reached, Named
<1>3. Named \in Buckets /\ SoundIn(lines, WC[Named], WholeHeap) /\ lines \in Nat
  BY <1>1, DurableContent, Typed
<1>4. WC[Named] = WholeCell(Named)
  BY <1>3 DEF WC
<1>5. \A i \in ValidBitSet(WC[Named]) :
        /\ pmCells[Named].slot[i] = WC[Named].slot[i]
        /\ lines > 0 => pmHeap[WC[Named].slot[i].val] = WholeHeap[WC[Named].slot[i].val]
  BY <1>1, <1>4 DEF ValuesThere, Named
<1>6. ValidBitSet(pmCells[Named]) = ValidBitSet(WC[Named])
  BY <1>3, WholeIs DEF ValidBitSet
<1>7. Equivalent(lines, WC[Named], WholeHeap, pmCells[Named], pmHeap)
  BY <1>3, <1>5, <1>6, SameContent
<1>8. WholeMeta' = pmMeta
  <2>1. WholeMeta' = SecondBack(pmMeta, pmMeta)
    BY <1>1 DEF WholeMeta, SecondBack, layVars
  <2> QED
    BY <2>1, WholeBack DEF MetaInv, MetaTypeOK
<1>9. WholeHeap' = pmHeap
  <2>1. WholeHeap' = [r \in Records |-> [l \in 1..lines |-> pmHeap[r][l]]]
    BY <1>1 DEF WholeHeap, layVars
  <2> QED
    BY <2>1 DEF TypeInv, ContentTypeOK, HeapType
<1>10. ASSUME NEW b \in Buckets
       PROVE  WC'[b] = pmCells[b]
  <2>1. pmCells[b] \in Cell
    BY Typed
  <2>2. Whole(pmCells[b], pmCells[b]) = pmCells[b]
    BY <2>1 DEF Whole, Cell
  <2> QED
    BY <1>1, <2>2, WholeIsNext DEF layVars
<1> QED
  BY <1>2, <1>7, <1>8, <1>9, <1>10

LEMMA ContentCrash ==
  ASSUME MetaInv, TypeInv, TypeInv', ContentInv, Crash, lost' = {}
  PROVE  ContentInv'
<1>1. /\ pc' = "down" /\ vol' = pmCells /\ heap' = pmHeap /\ meta' = pmMeta
      /\ retiredRecs' = {} /\ UNCHANGED <<lines, freeRecs>>
  BY DEF Crash, Goto, layVars
<1>2. SoundIn(lines, pmCells[Extract(pmMeta).addr], pmHeap)
  BY CrashContent DEF Durable, Equivalent
<1>3. SoundIn(lines, vol[Extract(meta).addr], heap)'
  <2>1. Extract(meta)' = Extract(pmMeta)
    BY <1>1 DEF Extract
  <2> QED
    BY <1>1, <1>2, <2>1
<1>4. WholeHeap' = heap' /\ \A b \in Buckets : WC'[b] = vol'[b]
  BY <1>1, CrashContent
<1>5. Stored' /\ RecordsBack' /\ CellsBack' /\ SlotsBack'
  BY <1>1, <1>4 DEF Stored, RecordsBack, CellsBack, SlotsBack
<1>6. HeadBacks' /\ Contents'
  BY <1>1, <1>3 DEF HeadBacks, Contents, Copying
<1> QED
  BY <1>5, <1>6 DEF ContentInv

LEMMA ContentRecover ==
  ASSUME MetaInv, TypeInv, TypeInv', ContentInv, Recover
  PROVE  /\ ContentInv'
         /\ \A k : ValIn(lines, cell', heap', k) = ValIn(lines, vol[Extract(meta).addr], heap, k)
<1> DEFINE a == Extract(meta).addr
<1>1. /\ pc = "down" /\ pc' = "idle" /\ dram' = Extract(meta) /\ free' = Buckets \ {a} /\ a # Null
      /\ vol' = Forget(vol, free') /\ pmCells' = Forget(pmCells, free')
      /\ freeRecs' = Records \ RecordsOf(vol[a])
      /\ heap' = ForgetRecords(heap, freeRecs') /\ pmHeap' = ForgetRecords(pmHeap, freeRecs')
      /\ UNCHANGED <<lines, flushes, retiredRecs, upd, target, old>>
  BY DEF Recover, Goto, opVars, layVars
<1>2. a \in Buckets
  BY <1>1 DEF MetaInv, MetaTypeOK, Meta, Extract
<1>3. /\ retiredRecs = {} /\ WholeHeap = heap /\ lines \in Nat
      /\ \A b \in Buckets : WC[b] = vol[b]
      /\ SoundIn(lines, vol[a], heap)
      /\ heap \in HeapType
  BY <1>1, Typed DEF ContentInv, RecordsBack, CellsBack, Contents
<1> HIDE DEF a
<1>4. /\ vol'[a] = vol[a]
      /\ \A b \in Buckets : WC'[b] = vol'[b]
  <2>1. \A b \in Buckets : WC'[b] = IF b \in free' THEN EmptyCell ELSE vol[b]
    BY <1>1, <1>3, CellsForgotten
  <2> QED
    BY <1>1, <1>2, <2>1 DEF Forget
<1>5. /\ \A r \in Records \ freeRecs' : heap'[r] = heap[r]
      /\ freeRecs' \subseteq Records
  <2>1. freeRecs' \in SUBSET Records
    BY <1>1
  <2> QED
    BY <1>1, <1>3, <2>1, ForgetTyped
<1>6. WholeHeap' = heap'
  <2>1. \A x \in Records : WholeHeap'[x] = IF x \in freeRecs' THEN Encoded(Zeroed) ELSE heap[x]
    BY <1>1, <1>3, HeapForgotten
  <2>2. WholeHeap' \in [Records -> {WholeHeap'[x] : x \in Records}]
    BY DEF WholeHeap
  <2> QED
    BY <1>1, <2>1, <2>2 DEF ForgetRecords
<1>7. cell' = vol[a]
  BY <1>1, <1>4 DEF cell, a
<1>8. /\ SoundIn(lines, vol[a], heap')
      /\ \A k : ValIn(lines, vol[a], heap', k) = ValIn(lines, vol[a], heap, k)
  <2>1. lines > 0 => \A i \in ValidBitSet(vol[a]) : heap'[vol[a].slot[i].val] = heap[vol[a].slot[i].val]
    <3> SUFFICES ASSUME lines > 0, NEW i \in ValidBitSet(vol[a])
                 PROVE  heap'[vol[a].slot[i].val] = heap[vol[a].slot[i].val]
      OBVIOUS
    <3>1. HoldsValue(lines, heap, vol[a].slot[i].val)
      BY <1>3 DEF SoundIn
    <3>2. vol[a].slot[i].val \in Records
      BY <3>1 DEF HoldsValue
    <3>3. vol[a].slot[i].val \notin freeRecs'
      BY <1>1 DEF RecordsOf
    <3> QED
      BY <1>5, <3>2, <3>3
  <2>2. Equivalent(lines, vol[a], heap, vol[a], heap')
    BY <1>3, <2>1, SameContent
  <2> QED
    BY <2>2 DEF Equivalent
<1>9. Avoids(lines, vol[a], freeRecs' \cup retiredRecs)
  BY <1>1, <1>3 DEF Avoids, RecordsOf
<1>10. Stored' /\ RecordsBack' /\ CellsBack' /\ SlotsBack'
  BY <1>1, <1>4, <1>6 DEF Stored, RecordsBack, CellsBack, SlotsBack
<1>11. HeadBacks' /\ Contents'
  BY <1>1, <1>3, <1>7, <1>8, <1>9 DEF HeadBacks, Contents, Copying
<1> QED
  BY <1>1, <1>7, <1>8, <1>10, <1>11 DEF ContentInv, a

LEMMA ContentStep ==
  ASSUME MetaInv, TypeInv, TypeInv', ContentInv, [Next]_vars, lost' = {}
  PROVE  ContentInv'
<1>1. ASSUME NEW k \in Keys, NEW d \in Data, NEW v \in Values, StoreSlot(k, d, v)
      PROVE  ContentInv'
  BY <1>1, ContentStoreSlot
<1>2. ASSUME NEW k \in Keys, Delete(k)
      PROVE  ContentInv'
  BY <1>2, ContentDelete
<1>3. CASE StoreFields \/ FlushFields \/ SwitchVersion \/ FlushSwitch
  <2>1. /\ UNCHANGED <<layVars, heap, pmHeap, freeRecs, retiredRecs, vol, pmCells, dram, opVars>>
        /\ pc \in Copying \ {"filled"} /\ pc' \in Copying \ {"filled"}
    BY <1>3 DEF StoreFields, FlushFields, SwitchVersion, FlushSwitch, Goto, Copying, recVars
  <2> QED
    BY <2>1, Untouched
<1>4. CASE UNCHANGED vars
  <2>1. UNCHANGED <<layVars, heap, pmHeap, freeRecs, retiredRecs, vol, pmCells, dram, opVars, meta, pc>>
    BY <1>4 DEF vars, memVars, recVars
  <2> QED
    BY <2>1, Untouched
<1>5. ASSUME NEW b \in Buckets, NEW s \in InitShift..MaxShift, NEW f \in Places(cell),
             FillBucket(b, s, f)
      PROVE  ContentInv'
  BY <1>5, ContentFill
<1>6. ASSUME NEW r \in Records, ReleaseRecord(r)
      PROVE  ContentInv'
  BY <1>6, ContentReleaseRecord
<1>7. ASSUME NEW b \in Buckets, Release(b)
      PROVE  ContentInv'
  BY <1>7, ContentRelease
<1> QED
  BY <1>1, <1>2, <1>3, <1>4, <1>5, <1>6, <1>7, ContentFlushRecord, ContentFlushSlot,
     ContentStoreVersion, ContentFlushHead, ContentFlushBucket, ContentReset, ContentRetire,
     ContentEvict, ContentCrash, ContentRecover
     DEF Next, Rehash

(* Only a crash loses something, and nothing brings it back.                *)
LEMMA LostStays ==
  ASSUME [Next]_vars, lost' = {}
  PROVE  lost = {}
<1>1. CASE Crash
  BY <1>1 DEF Crash
<1>2. CASE Rehash
  BY <1>2 DEF Rehash, FillBucket, FlushBucket, ResetDram, StoreFields, FlushFields, SwitchVersion,
     FlushSwitch, RetireBucket, recVars
<1> QED
  BY <1>1, <1>2 DEF Next, vars, recVars, StoreSlot, Delete, FlushRecord, FlushSlot, StoreVersion,
     FlushHead, ReleaseRecord, Release, Evict, Recover

(* The contents are what they should be until a crash meets a line that     *)
(* nobody flushed and that had not been written back.                       *)
KeptInv == lost = {} => ContentInv

LEMMA KeptCorrect == Spec => []MetaInv /\ []TypeInv /\ []KeptInv
<1>1. MetaInv /\ TypeInv /\ TypeInv' /\ KeptInv /\ [Next]_vars => KeptInv'
  BY ContentStep, LostStays DEF KeptInv
<1>2. Init => KeptInv
  BY ContentInit DEF KeptInv
<1> QED
  BY <1>1, <1>2, TypesCorrect, PTL DEF Spec

(* What Put and Delete have returned for is in persistent memory, as far as *)
(* somebody flushes it.                                                     *)
THEOREM ReturnedDurable == Spec => []ReturnedIsDurable
<1>1. MetaInv /\ TypeInv /\ KeptInv => ReturnedIsDurable
  <2> SUFFICES ASSUME MetaInv, TypeInv, KeptInv, lost = {}, Reached, pc = "idle"
               PROVE  LET found == pmCells[Durable.addr] IN
                      /\ ValidBitSet(found) = ValidBitSet(cell)
                      /\ flushes => \A i \in ValidBitSet(cell) :
                           /\ found.slot[i] = cell.slot[i]
                           /\ lines > 0 => pmHeap[found.slot[i].val][1] = heap[cell.slot[i].val][1]
    BY DEF ReturnedIsDurable
  <2>1. /\ Extract(meta) = dram /\ WholeMeta = meta /\ dram.addr \in Buckets
        /\ WC[dram.addr] = cell /\ WholeHeap = heap /\ SoundIn(lines, cell, heap)
        /\ lines \in Nat
    BY Typed DEF MetaInv, Follows, Lags, InUse, KeptInv, ContentInv, RecordsBack, CellsBack, Contents,
                 cell
  <2> DEFINE found == pmCells[Durable.addr]
  <2>2. found = pmCells[dram.addr]
    BY <2>1 DEF Reached
  <2>3. /\ ValidBitSet(found) = ValidBitSet(cell)
        /\ flushes => found = cell
    BY <2>1, <2>2, WholeIs DEF ValidBitSet
  <2> HIDE DEF found
  <2>4. ASSUME flushes, lines > 0, NEW i \in ValidBitSet(cell)
        PROVE  pmHeap[cell.slot[i].val][1] = heap[cell.slot[i].val][1]
    <3>1. cell.slot[i].val \in Records /\ 1 \in 1..lines
      BY <2>1, <2>4 DEF SoundIn, HoldsValue
    <3> QED
      BY <2>1, <2>4, <3>1, HeapIs
  <2> QED
    BY <2>3, <2>4 DEF found
<1> QED
  BY <1>1, KeptCorrect, PTL

-----------------------------------------------------------------------------
(* The durable map                                                          *)

LEMMA FoundIs ==
  ASSUME Named \in Buckets
  PROVE  Found = [k \in Keys |-> ValIn(lines, WC[Named], WholeHeap, k)]
<1>1. WC[Named] = WholeCell(Named)
  BY DEF WC
<1>2. Found = [k \in Keys |-> ValueIn(WC[Named], WholeHeap, k)]
  BY <1>1 DEF Found, Named
<1> QED
  BY <1>2 DEF ValueIn, ValIn, Decoded, DecodedIn, Encoded, EncodedIn

LEMMA SeenIs ==
  pc # "down" => Seen = [k \in Keys |-> ValIn(lines, cell, heap, k)]
BY DEF Seen, Find, ValueIn, ValIn, Decoded, DecodedIn, Encoded, EncodedIn

LEMMA SeenIsNext ==
  pc' # "down" => Seen' = [k \in Keys |-> ValIn(lines', cell', heap', k)]
<1>1. (pc # "down" => Seen = [k \in Keys |-> ValIn(lines, cell, heap, k)])'
  BY SeenIs, PTL
<1> QED
  BY <1>1

(* The invariant, when nothing was lost.                                    *)
Inv == MetaInv /\ TypeInv /\ ContentInv /\ lost = {}

LEMMA FoundHere ==
  Inv => Named \in Buckets /\ Found = [k \in Keys |-> ValIn(lines, WC[Named], WholeHeap, k)]
<1> SUFFICES ASSUME Inv
             PROVE  /\ Named \in Buckets
                    /\ Found = [k \in Keys |-> ValIn(lines, WC[Named], WholeHeap, k)]
  OBVIOUS
<1>1. Named \in Buckets
  BY DurableContent DEF Inv
<1> QED
  BY <1>1, FoundIs

LEMMA FoundHereNext ==
  Inv' => Found' = [k \in Keys |-> ValIn(lines', WC'[Named'], WholeHeap', k)]
<1>1. (Inv => Named \in Buckets /\ Found = [k \in Keys |-> ValIn(lines, WC[Named], WholeHeap, k)])'
  BY FoundHere, PTL
<1> QED
  BY <1>1

(* Outside of the last part of an update the two maps are one.              *)
LEMMA FoundIsSeen ==
  Inv /\ pc # "head" => Found = Seen
<1> SUFFICES ASSUME Inv, pc # "head"
             PROVE  Found = Seen
  OBVIOUS
<1>1. CASE pc = "down"
  BY <1>1 DEF Seen
<1>2. CASE pc # "down"
  <2>1. /\ Named \in Buckets
        /\ \A k \in Keys : ValIn(lines, WC[Named], WholeHeap, k) = ValIn(lines, cell, heap, k)
    BY <1>2, DurableContent DEF Inv
  <2> QED
    BY <1>2, <2>1, FoundIs, SeenIs
<1> QED
  BY <1>1, <1>2

(* While the version word of an update is not known to be in persistent     *)
(* memory, the two differ at most at its key, where the program sees the    *)
(* new value.                                                               *)
LEMMA FoundAtHead ==
  Inv /\ pc = "head" =>
    /\ upd \in DM!Update
    /\ Seen = DM!Applied(Found, upd)
    /\ Seen[upd.key] = upd.val
    /\ Named = dram.addr /\ WholeHeap = heap
<1> SUFFICES ASSUME Inv, pc = "head"
             PROVE  /\ upd \in DM!Update
                    /\ Seen = DM!Applied(Found, upd)
                    /\ Seen[upd.key] = upd.val
                    /\ Named = dram.addr /\ WholeHeap = heap
  OBVIOUS
<1>1. upd \in [key : Keys, val : Data \cup {Absent}]
  BY DEF Inv, TypeInv, Calls, Updating
<1>2. Named = dram.addr /\ WholeHeap = heap /\ Named \in Buckets
  BY DurableContent DEF Inv
<1>3. /\ \A k \in Keys \ {upd.key} :
           ValIn(lines, WC[Named], WholeHeap, k) = ValIn(lines, cell, heap, k)
      /\ ValIn(lines, cell, heap, upd.key) = upd.val
  BY <1>2 DEF Inv, ContentInv, HeadBacks
<1>4. /\ Found = [k \in Keys |-> ValIn(lines, WC[Named], WholeHeap, k)]
      /\ Seen = [k \in Keys |-> ValIn(lines, cell, heap, k)]
  BY <1>2, FoundIs, SeenIs
<1>5. \A k \in Keys \ {upd.key} : Found[k] = Seen[k]
  BY <1>3, <1>4
<1>6. Seen[upd.key] = upd.val
  BY <1>1, <1>3, <1>4
<1>7. Seen = [Found EXCEPT ![upd.key] = upd.val]
  <2>1. \A k \in Keys : Seen[k] = IF k = upd.key THEN upd.val ELSE Found[k]
    BY <1>5, <1>6
  <2> QED
    BY <1>4, <2>1
<1> QED
  BY <1>1, <1>2, <1>6, <1>7 DEF DM!Update, DM!Applied

LEMMA FoundIsSeenNext ==
  Inv' /\ pc' # "head" => Found' = Seen'
<1>1. (Inv /\ pc # "head" => Found = Seen)'
  BY FoundIsSeen, PTL
<1> QED
  BY <1>1

LEMMA FoundAtHeadNext ==
  Inv' /\ pc' = "head" => upd' \in DM!Update /\ Seen' = DM!Applied(Found', upd')
<1>1. (Inv /\ pc = "head" => upd \in DM!Update /\ Seen = DM!Applied(Found, upd))'
  <2>1. Inv /\ pc = "head" => upd \in DM!Update /\ Seen = DM!Applied(Found, upd)
    BY FoundAtHead
  <2> QED
    BY <2>1, PTL
<1> QED
  BY <1>1 DEF DM!Update, DM!Applied

LEMMA RefInit ==
  Init => DM!Init
<1> SUFFICES ASSUME Init
             PROVE  DM!Init
  OBVIOUS
<1>1. MetaInv /\ TypeInv /\ ContentInv
  BY MetaInit, TypeInit, ContentInit
<1>2. Inv /\ pc = "idle"
  BY <1>1 DEF Inv, Init
<1>3. PICK b \in Buckets :
        meta = [cur_ver_ |-> 1, ptr |-> <<b, Null>>, shift |-> <<InitShift, 0>>]
  BY DEF Init
<1>4. cell = EmptyCell
  BY <1>3 DEF Init, cell, Extract
<1>5. Seen = [k \in Keys |-> Absent]
  BY <1>2, <1>4, SeenIs DEF ValIn, MatchBitSet, ValidBitSet, EmptyCell
<1>6. Found = Seen
  BY <1>2, FoundIsSeen
<1> QED
  BY <1>5, <1>6 DEF Init, DM!Init

(* A step that leaves alone what the program sees, outside of the last part *)
(* of an update.                                                            *)
LEMMA Quiet ==
  ASSUME Inv, Inv', pc \notin {"head", "down"}, pc' \notin {"head", "down"},
         UNCHANGED <<lines, upd>>,
         \A k \in Keys : ValIn(lines, cell', heap', k) = ValIn(lines, cell, heap, k)
  PROVE  UNCHANGED <<Found, Seen, upd>>
<1>1. Seen' = Seen
  BY SeenIs, SeenIsNext
<1> QED
  BY <1>1, FoundIsSeen, FoundIsSeenNext

(* A step that leaves alone what a restart would find.                      *)
LEMMA FoundKept ==
  ASSUME Inv, Inv', UNCHANGED <<lines, Named, WholeHeap>>, WC'[Named] = WC[Named]
  PROVE  Found' = Found
<1>1. Found' = [k \in Keys |-> ValIn(lines', WC'[Named'], WholeHeap', k)]
  BY FoundHereNext
<1>2. Found' = [k \in Keys |-> ValIn(lines, WC[Named], WholeHeap, k)]
  BY <1>1
<1> QED
  BY <1>2, FoundHere

LEMMA RefStore ==
  ASSUME Inv, Inv', NEW k \in Keys, NEW d \in Data, NEW v \in Values, StoreSlot(k, d, v)
  PROVE  \E u \in DM!Update : DM!Begin(u)
<1>1. /\ pc = "idle" /\ pc' \notin {"head", "down"} /\ upd = Null
      /\ upd' = [key |-> k, val |-> d]
      /\ UNCHANGED lines
  BY DEF StoreSlot, Goto, Inv, TypeInv, Calls, Updating, layVars
<1>2. /\ Found = Seen /\ Found' = Seen'
      /\ Seen' = [j \in Keys |-> ValIn(lines', cell', heap', j)]
  BY <1>1, SeenIsNext, FoundIsSeen, FoundIsSeenNext
<1>3. Seen' = Seen
  <2>1. \A j \in Keys : ValIn(lines, cell', heap', j) = ValIn(lines, cell, heap, j)
    BY ContentStoreSlot DEF Inv
  <2> QED
    BY <1>1, <1>2, <2>1, SeenIs
<1>4. upd' \in DM!Update
  BY <1>1 DEF DM!Update
<1> QED
  BY <1>1, <1>2, <1>3, <1>4 DEF DM!Begin

(* The store of the version word: from here on the program sees the update, *)
(* and a restart not yet.                                                   *)
LEMMA HeadStored ==
  ASSUME Inv, Inv', pc \in {"idle", "bits"}, pc' = "head",
         UNCHANGED <<lines, flushes, second, heap, pmHeap, pmCells, meta, pmMeta, dram>>,
         vol' = [vol EXCEPT ![dram.addr] = cell'], cell'.slot = cell.slot
  PROVE  /\ Found' = Found /\ Found = Seen
         /\ upd' \in DM!Update /\ Seen' = DM!Applied(Seen, upd')
<1>1. Named' = Named /\ WholeHeap' = WholeHeap /\ Named \in Buckets
  BY DurableContent, HeapKept DEF Named, Extract, WholeMeta, SecondBack, Inv
<1>2. WC'[Named] = WC[Named]
  <2>1. vol \in [Buckets -> Cell] /\ dram.addr \in Buckets /\ cell = vol[dram.addr]
    BY Typed DEF Inv, MetaInv, Follows, InUse, cell
  <2>2. vol'[Named] = vol[Named] \/ vol'[Named].slot = vol[Named].slot
    BY <1>1, <2>1
  <2> QED
    BY <1>1, <2>2, CellsAlone DEF Inv
<1>3. Found' = Found
  BY <1>1, <1>2, FoundKept
<1>4. Found = Seen
  BY FoundIsSeen
<1> QED
  BY <1>3, <1>4, FoundAtHeadNext DEF DM!Applied

LEMMA RefDelete ==
  ASSUME Inv, Inv', NEW k \in Keys, Delete(k)
  PROVE  \E u \in DM!Update : DM!Begin(u)
<1>1. PICK i \in Slots : vol' = [vol EXCEPT ![dram.addr].deleted = @ \cup {i}]
  BY DEF Delete
<1>2. /\ pc = "idle" /\ pc' = "head" /\ upd = Null
      /\ UNCHANGED <<lines, flushes, second, heap, pmHeap, pmCells, meta, pmMeta, dram>>
  BY DEF Delete, Goto, Inv, TypeInv, Calls, Updating, layVars
<1>3. dram.addr \in Buckets /\ cell = vol[dram.addr] /\ cell \in Cell /\ vol \in [Buckets -> Cell]
  BY <1>2, Typed DEF Inv, MetaInv, Follows, InUse, cell
<1> DEFINE e == [bitmap |-> cell.bitmap, deleted |-> cell.deleted \cup {i}, slot |-> cell.slot]
<1>4. vol' = [vol EXCEPT ![dram.addr] = e]
  <2>1. [cell EXCEPT !.deleted = @ \cup {i}] = e
    BY <1>3, BitmapsStored
  <2>2. vol' = [vol EXCEPT ![dram.addr] = [cell EXCEPT !.deleted = @ \cup {i}]]
    BY <1>1 DEF cell
  <2> QED
    BY <2>1, <2>2
<1>5. e.slot = cell.slot
  OBVIOUS
<1> HIDE DEF e
<1>6. cell' = e
  BY <1>2, <1>3, <1>4 DEF cell
<1>7. /\ Found' = Found /\ Found = Seen
      /\ upd' \in DM!Update /\ Seen' = DM!Applied(Seen, upd')
  BY <1>2, <1>4, <1>5, <1>6, HeadStored
<1> QED
  BY <1>2, <1>7 DEF DM!Begin

LEMMA RefStoreVersion ==
  ASSUME Inv, Inv', StoreVersion
  PROVE  DM!Show
<1>1. /\ pc = "bits" /\ pc' = "head"
      /\ UNCHANGED <<lines, flushes, second, heap, pmHeap, pmCells, meta, pmMeta, dram, upd>>
  BY DEF StoreVersion, Goto, layVars, opVars
<1>2. dram.addr \in Buckets /\ cell = vol[dram.addr] /\ cell \in Cell /\ vol \in [Buckets -> Cell]
  BY <1>1, Typed DEF Inv, MetaInv, Follows, InUse, cell
<1> DEFINE bits == IF old = Null THEN cell.bitmap \cup {target}
                   ELSE Toggle(cell.bitmap \cup {target}, old)
           e == [bitmap |-> bits, deleted |-> cell.deleted \ {target}, slot |-> cell.slot]
<1>3. vol' = [vol EXCEPT ![dram.addr] = [cell EXCEPT !.bitmap = bits, !.deleted = @ \ {target}]]
  BY DEF StoreVersion, cell
<1> HIDE DEF bits
<1>4. vol' = [vol EXCEPT ![dram.addr] = e]
  <2>1. cell \in Cell
    BY <1>2
  <2>2. [cell EXCEPT !.bitmap = bits, !.deleted = @ \ {target}]
          = [bitmap |-> bits, deleted |-> cell.deleted \ {target}, slot |-> cell.slot]
    BY <2>1, BitmapsStored
  <2> QED
    BY <1>3, <2>2
<1>5. e.slot = cell.slot
  OBVIOUS
<1> HIDE DEF e
<1>6. cell' = e
  BY <1>1, <1>2, <1>4 DEF cell
<1>7. /\ Found' = Found /\ Found = Seen
      /\ upd' \in DM!Update /\ Seen' = DM!Applied(Seen, upd')
  BY <1>1, <1>4, <1>5, <1>6, HeadStored
<1>8. upd # Null
  BY <1>1, <1>7, NullAssumption DEF DM!Update
<1> QED
  BY <1>1, <1>7, <1>8 DEF DM!Show

LEMMA RefFlushHead ==
  ASSUME Inv, Inv', FlushHead
  PROVE  DM!Return
<1>1. /\ pc = "head" /\ pc' = "idle" /\ upd' = Null
      /\ UNCHANGED <<lines, heap, vol, dram>>
  BY DEF FlushHead, Goto, recVars, layVars
<1>2. Seen' = Seen
  <2>1. Seen' = [k \in Keys |-> ValIn(lines, cell, heap, k)]
    BY <1>1, SeenIsNext DEF cell
  <2> QED
    BY <1>1, <2>1, SeenIs
<1>3. upd \in DM!Update /\ Seen[upd.key] = upd.val
  BY <1>1, FoundAtHead
<1>4. Found' = Seen
  BY <1>1, <1>2, FoundIsSeenNext
<1>5. upd # Null
  BY <1>3, NullAssumption DEF DM!Update
<1> QED
  BY <1>1, <1>2, <1>3, <1>4, <1>5 DEF DM!Return

(* A rehash, and the parts of an update before its version word.            *)
LEMMA RefQuiet ==
  ASSUME Inv, Inv',
         FlushRecord \/ FlushSlot \/ FlushBucket \/ StoreFields \/ FlushFields \/ SwitchVersion
           \/ FlushSwitch \/ RetireBucket
  PROVE  UNCHANGED <<Found, Seen, upd>>
<1>1. /\ pc \notin {"head", "down"} /\ pc' \notin {"head", "down"}
      /\ UNCHANGED <<lines, heap, vol, dram, upd>>
  BY DEF FlushRecord, FlushSlot, FlushBucket, StoreFields, FlushFields, SwitchVersion,
         FlushSwitch, RetireBucket, Goto, recVars, memVars, opVars, layVars
<1>2. cell' = cell
  BY <1>1 DEF cell
<1> QED
  BY <1>1, <1>2, Quiet

LEMMA RefFill ==
  ASSUME Inv, Inv', NEW b \in Buckets, NEW s, NEW f \in Places(cell), FillBucket(b, s, f)
  PROVE  UNCHANGED <<Found, Seen, upd>>
<1>1. /\ pc = "idle" /\ pc' = "filled" /\ b \in free
      /\ UNCHANGED <<lines, heap, dram, upd>>
      /\ vol' = [vol EXCEPT ![b] = Moved(cell, f)]
  BY DEF FillBucket, Goto, recVars, layVars
<1>2. dram.addr # b
  BY <1>1 DEF Inv, MetaInv, Follows, InUse
<1>3. cell' = cell
  BY <1>1, <1>2 DEF cell
<1> QED
  BY <1>1, <1>3, Quiet

LEMMA RefReset ==
  ASSUME Inv, Inv', ResetDram
  PROVE  UNCHANGED <<Found, Seen, upd>>
<1>1. /\ pc = "reset" /\ pc' = "commit"
      /\ UNCHANGED <<lines, heap, vol, upd>>
      /\ dram'.addr = old
  BY DEF ResetDram, Goto, recVars, memVars, layVars
<1>2. SameValues(lines, vol[old], cell, heap)
  BY <1>1 DEF Inv, ContentInv, Contents, Copying
<1>3. cell' = vol[old]
  BY <1>1 DEF cell
<1> QED
  BY <1>1, <1>2, <1>3, Quiet DEF SameValues

LEMMA RefReleaseRecord ==
  ASSUME Inv, Inv', NEW r \in Records, ReleaseRecord(r)
  PROVE  UNCHANGED <<Found, Seen, upd>>
<1>1. pc = "idle" /\ pc' = "idle" /\ UNCHANGED <<lines, upd>>
  BY DEF ReleaseRecord, opVars, layVars
<1>2. \A k \in Keys : ValIn(lines, cell', heap', k) = ValIn(lines, cell, heap, k)
  BY ContentReleaseRecord DEF Inv
<1> QED
  BY <1>1, <1>2, Quiet

(* A bucket that a restart would find is not in the hands of the epochs.    *)
LEMMA RefRelease ==
  ASSUME Inv, Inv', NEW b \in Buckets, Release(b)
  PROVE  UNCHANGED <<Found, Seen, upd>>
<1>1. /\ b \in retired /\ vol' = Forget(vol, {b}) /\ pmCells' = Forget(pmCells, {b})
      /\ pc # "down" /\ pc' = pc
      /\ UNCHANGED <<lines, flushes, second, heap, pmHeap, meta, pmMeta, dram, upd>>
  BY DEF Release, recVars, opVars, layVars
<1>2. Named \in InUse
  BY <1>1 DEF Inv, MetaInv, MetaTypeOK, Follows, Lags, Named, Copying, Updating
<1>3. Named \in Buckets \ {b}
  BY <1>1, <1>2 DEF InUse
<1>4. WC'[Named] = WC[Named]
  BY <1>1, <1>3, CellsForgotten DEF Inv
<1>5. UNCHANGED <<Named, WholeHeap>>
  BY <1>1, HeapKept DEF Named, Extract, WholeMeta, SecondBack
<1>6. Found' = Found
  BY <1>1, <1>4, <1>5, FoundKept
<1>7. dram.addr \in Buckets \ {b}
  BY <1>1 DEF Inv, MetaInv, Follows, InUse
<1>8. cell' = cell
  BY <1>1, <1>7 DEF cell, Forget
<1>9. Seen' = Seen
  <2>1. Seen' = [k \in Keys |-> ValIn(lines, cell, heap, k)]
    BY <1>1, <1>8, SeenIsNext
  <2> QED
    BY <1>1, <2>1, SeenIs
<1> QED
  BY <1>1, <1>6, <1>9

(* The version word of an update may be written back before its flush.      *)
LEMMA RefEvict ==
  ASSUME Inv, Inv', Evict
  PROVE  DM!Commit \/ UNCHANGED <<Found, Seen, upd>>
<1>1. /\ UNCHANGED <<lines, flushes, second, heap, vol, meta, dram, pc, upd>>
      /\ cell' = cell
  BY DEF Evict, opVars, cell, layVars
<1>2. pc # "down" => Seen' = Seen
  BY <1>1, SeenIs, SeenIsNext
<1>3. /\ pc \in {"head", "down"} => WholeHeap' = WholeHeap
      /\ pc = "head" => WC'[dram.addr] \in {WC[dram.addr], cell}
      /\ pc = "down" => \A b \in Buckets : WC'[b] = WC[b]
  BY ContentEvict DEF Inv
<1>4. pc \in {"head", "down"} => WholeMeta = meta /\ WholeMeta' = meta
  BY <1>1 DEF Inv, MetaInv, Lags
<1>5. pc \in {"head", "down"} => Named' = Named /\ Named \in Buckets
  BY <1>4, DurableContent DEF Inv, Named, Extract
<1>6. CASE pc \notin {"head", "down"}
  BY <1>1, <1>6, Quiet
<1>7. CASE pc = "down"
  <2>1. Found' = Found
    BY <1>1, <1>3, <1>5, <1>7, FoundKept
  <2> QED
    BY <1>1, <1>7, <2>1, FoundIsSeen, FoundIsSeenNext
<1>8. CASE pc = "head"
  <2>1. /\ upd \in DM!Update
        /\ Named = dram.addr /\ WholeHeap = heap
    BY <1>8, FoundAtHead
  <2>2. CASE WC'[dram.addr] = WC[dram.addr]
    BY <1>1, <1>2, <1>3, <1>5, <1>8, <2>1, <2>2, FoundKept
  <2>3. CASE WC'[dram.addr] = cell
    <3>1. Found' = [k \in Keys |-> ValIn(lines', WC'[Named'], WholeHeap', k)]
      BY FoundHereNext
    <3>2. Found' = [k \in Keys |-> ValIn(lines, cell, heap, k)]
      BY <1>1, <1>3, <1>5, <1>8, <2>1, <2>3, <3>1
    <3>3. Found' = Seen
      BY <1>8, <3>2, SeenIs
    <3>4. upd # Null
      BY <2>1, NullAssumption DEF DM!Update
    <3> QED
      BY <1>1, <1>2, <1>8, <3>3, <3>4 DEF DM!Commit
  <2> QED
    BY <1>3, <1>8, <2>2, <2>3
<1> QED
  BY <1>6, <1>7, <1>8

LEMMA RefCrash ==
  ASSUME Inv, Inv', Crash
  PROVE  DM!Crash
<1>1. pc' = "down" /\ upd' = Null /\ lines' = lines
  BY DEF Crash, Goto, layVars
<1>2. /\ Durable.addr = Named /\ WholeMeta' = pmMeta
      /\ Equivalent(lines, WC[Named], WholeHeap, pmCells[Named], pmHeap)
      /\ WholeHeap' = pmHeap /\ \A b \in Buckets : WC'[b] = pmCells[b]
  BY CrashContent DEF Inv
<1>3. Named' = Named
  BY <1>2 DEF Named, Durable, Extract
<1>4. /\ Named \in Buckets
      /\ Found = [k \in Keys |-> ValIn(lines, WC[Named], WholeHeap, k)]
      /\ Found' = [k \in Keys |-> ValIn(lines', WC'[Named'], WholeHeap', k)]
  BY FoundHere, FoundHereNext
<1>5. Found' = [k \in Keys |-> ValIn(lines, pmCells[Named], pmHeap, k)]
  BY <1>1, <1>2, <1>3, <1>4
<1>6. Found' = Found
  BY <1>2, <1>4, <1>5 DEF Equivalent
<1>7. Seen' = Found'
  BY <1>1, FoundIsSeenNext
<1> QED
  BY <1>1, <1>6, <1>7 DEF DM!Crash

LEMMA RefRecover ==
  ASSUME Inv, Inv', Recover
  PROVE  UNCHANGED <<Found, Seen, upd>>
<1>1. /\ pc = "down" /\ pc' = "idle"
      /\ UNCHANGED <<lines, upd>>
  BY DEF Recover, Goto, opVars, layVars
<1>2. Found' = Seen' /\ Found = Seen
  BY <1>1, FoundIsSeen, FoundIsSeenNext
<1>3. \A k \in Keys :
        ValIn(lines, cell', heap', k) = ValIn(lines, vol[Extract(meta).addr], heap, k)
  BY ContentRecover DEF Inv
<1>4. /\ WholeHeap = heap /\ WC[Named] = vol[Extract(meta).addr]
  BY <1>1, DurableContent DEF Inv
<1>5. Seen' = [k \in Keys |-> ValIn(lines, WC[Named], WholeHeap, k)]
  BY <1>1, <1>3, <1>4, SeenIsNext
<1> QED
  BY <1>1, <1>2, <1>5, FoundHere

LEMMA RefStep ==
  ASSUME Inv, Inv', [Next]_vars
  PROVE  [DM!Next]_<<Found, Seen, upd>>
<1>1. ASSUME NEW k \in Keys, NEW d \in Data, NEW v \in Values, StoreSlot(k, d, v)
      PROVE  DM!Next
  BY <1>1, RefStore DEF DM!Next
<1>2. ASSUME NEW k \in Keys, Delete(k)
      PROVE  DM!Next
  BY <1>2, RefDelete DEF DM!Next
<1>3. ASSUME NEW b \in Buckets, NEW s \in InitShift..MaxShift, NEW f \in Places(cell),
             FillBucket(b, s, f)
      PROVE  UNCHANGED <<Found, Seen, upd>>
  BY <1>3, RefFill
<1>4. ASSUME NEW r \in Records, ReleaseRecord(r)
      PROVE  UNCHANGED <<Found, Seen, upd>>
  BY <1>4, RefReleaseRecord
<1>5. ASSUME NEW b \in Buckets, Release(b)
      PROVE  UNCHANGED <<Found, Seen, upd>>
  BY <1>5, RefRelease
<1>6. CASE StoreVersion \/ FlushHead \/ Crash
  BY <1>6, RefStoreVersion, RefFlushHead, RefCrash DEF DM!Next
<1>7. CASE Evict
  BY <1>7, RefEvict DEF DM!Next
<1>8. CASE UNCHANGED vars
  <2>1. UNCHANGED <<lines, flushes, second, heap, pmHeap, pmMeta, meta, vol, pmCells, dram, pc, upd>>
    BY <1>8 DEF vars, recVars, memVars, opVars, layVars
  <2>2. Found' = Found
    <3>1. UNCHANGED <<Named, WholeHeap, WC>>
      BY <2>1, HeapKept DEF Named, Extract, WholeMeta, SecondBack, WC, WholeCell
    <3> QED
      BY <2>1, <3>1, FoundKept
  <2>3. Seen' = Seen
    <3>1. CASE pc = "down"
      BY <2>1, <2>2, <3>1, FoundIsSeen, FoundIsSeenNext
    <3>2. CASE pc # "down"
      BY <2>1, <3>2, SeenIs, SeenIsNext DEF cell
    <3> QED
      BY <3>1, <3>2
  <2> QED
    BY <2>1, <2>2, <2>3
<1> QED
  BY <1>1, <1>2, <1>3, <1>4, <1>5, <1>6, <1>7, <1>8, RefQuiet, RefReset, RefRecover
     DEF Next, Rehash

(* The bucket implements the durable map, in every layout, until a crash    *)
(* meets a line that nobody flushed and that had not been written back:     *)
(* what has returned stays, and an update that a crash interrupts has       *)
(* happened or has not.                                                     *)
THEOREM BucketIsDurableMap == Spec => ImplementsDurableMap
<1>1. /\ MetaInv /\ MetaInv' /\ TypeInv /\ TypeInv' /\ KeptInv /\ KeptInv' /\ [Next]_vars
        => [lost' = {} => DM!Next]_<<Found, Seen, upd>>
  <2> SUFFICES ASSUME MetaInv, MetaInv', TypeInv, TypeInv', KeptInv, KeptInv', [Next]_vars,
                      lost' = {}
               PROVE  [DM!Next]_<<Found, Seen, upd>>
    OBVIOUS
  <2>1. Inv /\ Inv'
    BY LostStays DEF Inv, KeptInv
  <2> QED
    BY <2>1, RefStep
<1> QED
  BY <1>1, RefInit, KeptCorrect, PTL DEF Spec, ImplementsDurableMap
=============================================================================
