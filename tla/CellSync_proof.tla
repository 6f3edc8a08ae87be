---------------------------- MODULE CellSync_proof ----------------------------
(***************************************************************************)
(* What CellSync promises, for any number of threads, keys and slots.      *)
(*                                                                         *)
(* WriterInv is about the threads that hold the lock: they store only into *)
(* slots that the version word does not declare valid.  ReaderInv is about *)
(* a search that has copied the version word: while at most one write has  *)
(* been published since, a slot of its copy still has what it had, unless  *)
(* a second writer is storing into it.                                     *)
(***************************************************************************)
EXTENDS CellSync, TLAPS

Free(i) == \A u \in Threads : Storing(u) => at[u] # i

Found(t) ==
  \/ pc[t] \in {"read", "check"}
  \/ pc[t] \in {"lock", "locked", "erase"} /\ op[t].kind = "delete"

Copied(t) == pc[t] = "compare" \/ Found(t)

-----------------------------------------------------------------------------
(* The inductive invariant                                                  *)

(* Which operation is where, and who holds the lock.                        *)
OpOf(t) ==
  /\ pc[t] # "idle" => op[t] \in Call
  /\ pc[t] = "idle" => op[t] = NoOp
  /\ Storing(t) => op[t].kind = "put"
  /\ pc[t] = "erase" => op[t].kind = "delete"
  /\ pc[t] \in {"read", "check"} => op[t].kind = "find"
  /\ pc[t] \in {"tags", "version", "compare", "hit", "missed"} => op[t].kind # "put"
  /\ pc[t] \in {"locked", "erase"} \/ Storing(t) => lock = t

OpInv == \A t \in Threads : OpOf(t)

(* The valid slots are whole and have different keys.                       *)
CellInv ==
  /\ \A i \in ValidBitSet(ver) :
       h1[i] \in Keys /\ entry[i] \in Values /\ tag[i] = H2[h1[i]]
  /\ \A i, j \in ValidBitSet(ver) : h1[i] = h1[j] => i = j

(* What a writer has stored so far is in a slot that is not valid.          *)
StoreOf(t) ==
  Storing(t) =>
    /\ at[t] \in Slots \ ValidBitSet(ver)
    /\ h1[at[t]] = op[t].key
    /\ Holding(ver, op[t].key) = IF old[t] = None THEN {} ELSE {old[t]}
    /\ pc[t] \in {"tag", "publish"} => entry[at[t]] = op[t].val
    /\ pc[t] = "publish" => tag[at[t]] = H2[op[t].key]

StoreInv == \A t \in Threads : StoreOf(t)

WriterInv == TypeOK /\ OpInv /\ CellInv /\ StoreInv

(* The copy of the version, and what was found in it.                       *)
CopyOf(t) ==
  Copied(t) =>
    /\ snap[t].seq_no_ <= ver.seq_no_
    /\ snap[t].seq_no_ = ver.seq_no_ => ValidBitSet(snap[t]) = ValidBitSet(ver)
    /\ left[t] \subseteq ValidBitSet(snap[t])
    /\ Found(t) => at[t] \in ValidBitSet(snap[t])
    /\ pc[t] = "erase" => ~Outdated(t)

FoundOf(t) == Found(t) /\ ~Outdated(t) /\ Free(at[t]) => h1[at[t]] = op[t].key

(* The slots of the copy hold what the key had during the call.             *)
HadOf(t) ==
  /\ pc[t] # "idle" => Current(op[t].key) \in had[t]
  /\ Copied(t) /\ ~Outdated(t) =>
       \A i \in ValidBitSet(snap[t]) :
         Free(i) /\ h1[i] = op[t].key => entry[i] \in had[t]
  /\ pc[t] = "check" /\ ~Outdated(t) /\ Free(at[t]) => got[t] \in had[t]

CopyInv == \A t \in Threads : CopyOf(t)
FoundInv == \A t \in Threads : FoundOf(t)
HadInv == \A t \in Threads : HadOf(t)

ReaderInv == CopyInv /\ FoundInv /\ HadInv

(* A search whose key nobody else writes.                                   *)
Quiet(t) == ~disturbed[t] /\ pc[t] # "idle" /\ op[t].kind # "put"

QuietOf(t) ==
  Quiet(t) =>
    /\ \A w \in Threads \ {t} : ~Writes(op[w], op[t].key)
    /\ op[t].kind = "find" \/ pc[t] # "hit" => had[t] = {Current(op[t].key)}
    /\ pc[t] \in {"version", "compare"} =>
         \A i \in Holding(ver, op[t].key) : tags[t][i] = H2[op[t].key]
    /\ pc[t] = "compare" =>
         /\ Holding(ver, op[t].key) \subseteq left[t]
         /\ \A i \in ValidBitSet(snap[t]) :
              h1[i] = op[t].key => i \in ValidBitSet(ver)
    /\ pc[t] = "missed" => Holding(ver, op[t].key) = {}
    /\ Found(t) => at[t] \in Holding(ver, op[t].key)
    /\ pc[t] = "check" \/ (pc[t] = "hit" /\ op[t].kind = "find") =>
         got[t] = Current(op[t].key)

QuietInv == \A t \in Threads : QuietOf(t)

IInv == WriterInv /\ ReaderInv

-----------------------------------------------------------------------------
(* A step is a step of one thread.                                          *)

(* The steps that leave the cell alone                                      *)
Looks(t) ==
  \/ \E o \in Call : Begin(t, o)
  \/ CopyTags(t) \/ CopyVersion(t) \/ Compare(t) \/ Miss(t)
  \/ ReadRecord(t) \/ CheckVersion(t)
  \/ Lock(t) \/ DeleteRetry(t) \/ DeleteFinds(t) \/ NoSlot(t)
  \/ Return(t)

Step(t) ==
  \/ Looks(t)
  \/ StoreKey(t) \/ StoreEntry(t) \/ StoreTag(t)
  \/ StoreVersion(t) \/ Erase(t)

LEMMA NextStep == Next => \E t \in Threads : Step(t)
  BY DEF Next, Step, Looks

(* and leaves what the others have to themselves as it is.                  *)
Same(u) ==
  /\ pc'[u] = pc[u] /\ op'[u] = op[u]
  /\ tags'[u] = tags[u] /\ snap'[u] = snap[u] /\ left'[u] = left[u]
  /\ at'[u] = at[u] /\ old'[u] = old[u] /\ got'[u] = got[u]

LEMMA OthersSame ==
  ASSUME TypeOK, NEW t \in Threads, Step(t), NEW u \in Threads \ {t}
  PROVE  Same(u)
<1> USE DEF Same, TypeOK, Goto, copyVars, cellVars, historyVars
<1>1. CASE \E o \in Call : Begin(t, o)
  BY <1>1 DEF Begin
<1>2. CASE CopyTags(t) \/ CopyVersion(t)
  BY <1>2 DEF CopyTags, CopyVersion
<1>3. CASE Compare(t)
  BY <1>3 DEF Compare
<1>4. CASE Miss(t) \/ ReadRecord(t) \/ CheckVersion(t)
  BY <1>4 DEF Miss, ReadRecord, CheckVersion
<1>5. CASE Lock(t) \/ DeleteRetry(t) \/ DeleteFinds(t) \/ NoSlot(t)
  BY <1>5 DEF Lock, DeleteRetry, DeleteFinds, NoSlot
<1>6. CASE Return(t)
  BY <1>6 DEF Return
<1>7. CASE StoreKey(t)
  BY <1>7 DEF StoreKey
<1>8. CASE StoreEntry(t) \/ StoreTag(t)
  BY <1>8 DEF StoreEntry, StoreTag
<1>9. CASE StoreVersion(t) \/ Erase(t)
  BY <1>9 DEF StoreVersion, Erase
<1> QED
  BY <1>1, <1>2, <1>3, <1>4, <1>5, <1>6, <1>7, <1>8, <1>9 DEF Step, Looks

LEMMA LooksOnly ==
  ASSUME TypeOK, NEW t \in Threads, Looks(t)
  PROVE  /\ UNCHANGED <<ver, h1, entry, tag>>
         /\ ~Storing(t) /\ ~Storing(t)'
<1> USE DEF TypeOK, Goto, cellVars, copyVars, historyVars, Storing
<1>1. CASE \E o \in Call : Begin(t, o)
  BY <1>1 DEF Begin
<1>2. CASE CopyTags(t) \/ CopyVersion(t)
  BY <1>2 DEF CopyTags, CopyVersion
<1>3. CASE Compare(t)
  BY <1>3 DEF Compare
<1>4. CASE Miss(t) \/ ReadRecord(t) \/ CheckVersion(t)
  BY <1>4 DEF Miss, ReadRecord, CheckVersion
<1>5. CASE Lock(t) \/ DeleteRetry(t) \/ DeleteFinds(t) \/ NoSlot(t)
  BY <1>5 DEF Lock, DeleteRetry, DeleteFinds, NoSlot
<1>6. CASE Return(t)
  BY <1>6 DEF Return
<1> QED
  BY <1>1, <1>2, <1>3, <1>4, <1>5, <1>6 DEF Looks

(* Whoever changes the cell or the lock has the lock, or takes it free.     *)
LEMMA LockKept ==
  ASSUME TypeOK, OpInv, NEW t \in Threads, Step(t)
  PROVE  /\ \A u \in Threads \ {t} : lock = u => lock' = u
         /\ ~Looks(t) => lock = t
<1> USE DEF Goto, cellVars, copyVars, historyVars, Storing, Unlock, OpInv, OpOf
<1>1. CASE (\E o \in Call : Begin(t, o)) \/ CopyTags(t) \/ CopyVersion(t) \/ Compare(t)
           \/ Miss(t) \/ ReadRecord(t) \/ CheckVersion(t) \/ Return(t) \/ DeleteFinds(t)
  BY <1>1 DEF Looks, Begin, CopyTags, CopyVersion, Compare, Miss, ReadRecord,
              CheckVersion, Return, DeleteFinds
<1>2. CASE Lock(t) \/ DeleteRetry(t) \/ NoSlot(t)
  BY <1>2, NoneAssumption DEF Looks, Lock, DeleteRetry, NoSlot
<1>3. CASE StoreKey(t)
  BY <1>3 DEF StoreKey
<1>4. CASE StoreEntry(t) \/ StoreTag(t)
  BY <1>4 DEF StoreEntry, StoreTag
<1>5. CASE StoreVersion(t) \/ Erase(t)
  BY <1>5 DEF StoreVersion, Erase
<1> QED
  BY <1>1, <1>2, <1>3, <1>4, <1>5 DEF Step, Looks

(* What every write does to the cell.                                       *)
LEMMA KeyStored ==
  ASSUME WriterInv, NEW t \in Threads, StoreKey(t)
  PROVE  /\ at'[t] \in Slots \ ValidBitSet(ver)
         /\ h1' = [h1 EXCEPT ![at'[t]] = op[t].key]
         /\ UNCHANGED <<ver, entry, tag, op, lock, had, disturbed>>
         /\ old'[t] \in Slots \cup {None}
         /\ Holding(ver, op[t].key) = IF old'[t] = None THEN {} ELSE {old'[t]}
         /\ pc[t] = "locked" /\ pc'[t] = "entry" /\ op[t].kind = "put"
<1>1. PICK i \in Slots, o \in Slots \cup {None} :
        /\ \/ UpdateTarget1(op[t].key, i, o)
           \/ InsertTarget1(op[t].key, i) /\ o = None
        /\ at' = [at EXCEPT ![t] = i]
        /\ old' = [old EXCEPT ![t] = o]
        /\ h1' = [h1 EXCEPT ![i] = op[t].key]
  BY DEF StoreKey
<1>2. at'[t] = i /\ old'[t] = o
  BY <1>1 DEF WriterInv, TypeOK
<1>3. i \notin ValidBitSet(ver)
  BY <1>1 DEF UpdateTarget1, InsertTarget1, Lowest, BackupBitSet, EraseBitSet, ValidBitSet
<1>4. Holding(ver, op[t].key) = IF o = None THEN {} ELSE {o}
  <2>1. CASE UpdateTarget1(op[t].key, i, o)
    <3>1. o \in Holding(ver, op[t].key) /\ o # None
      BY <2>1, NoneAssumption DEF UpdateTarget1, Lowest, Holding, ValidBitSet, WriterInv,
                                  TypeOK, Version
    <3> QED
      BY <3>1 DEF Holding, WriterInv, CellInv
  <2>2. CASE InsertTarget1(op[t].key, i) /\ o = None
    BY <2>2 DEF InsertTarget1
  <2> QED
    BY <1>1, <2>1, <2>2
<1> QED
  BY <1>1, <1>2, <1>3, <1>4 DEF StoreKey, Goto, WriterInv, TypeOK, copyVars, historyVars

LEMMA VersionStored ==
  ASSUME WriterInv, NEW t \in Threads, StoreVersion(t)
  PROVE  /\ ValidBitSet(ver)' = (ValidBitSet(ver) \cup {at[t]}) \ {old[t]}
         /\ ver'.seq_no_ = ver.seq_no_ + 1
         /\ UNCHANGED <<h1, entry, tag, op, disturbed>>
         /\ Storing(t) /\ ~Storing(t)' /\ pc[t] = "publish" /\ pc'[t] = "done"
<1>1. Storing(t) /\ ~Storing(t)' /\ pc[t] = "publish" /\ pc'[t] = "done"
  BY DEF StoreVersion, Storing, Goto, WriterInv, TypeOK
<1>2. /\ at[t] \in Slots \ ValidBitSet(ver)
      /\ old[t] # None => old[t] \in ValidBitSet(ver)
      /\ None \notin Slots
  BY <1>1, NoneAssumption DEF WriterInv, StoreInv, StoreOf, Holding
<1>3. /\ ver'.bitmap = IF old[t] = None THEN ver.bitmap \cup {at[t]}
                       ELSE Toggle(ver.bitmap \cup {at[t]}, old[t])
      /\ ver'.deleted = ver.deleted \ {at[t]}
      /\ ver'.seq_no_ = ver.seq_no_ + 1
  BY DEF StoreVersion
<1>4. ver'.bitmap = (ver.bitmap \cup {at[t]}) \ {old[t]}
  <2>1. CASE old[t] = None
    BY <2>1, <1>2, <1>3 DEF WriterInv, TypeOK, Version
  <2>2. CASE old[t] # None
    BY <2>2, <1>2, <1>3 DEF Toggle, ValidBitSet
  <2> QED
    BY <2>1, <2>2
<1>5. ValidBitSet(ver)' = (ValidBitSet(ver) \cup {at[t]}) \ {old[t]}
  BY <1>2, <1>3, <1>4 DEF ValidBitSet
<1> QED
  BY <1>1, <1>3, <1>5 DEF StoreVersion

LEMMA Erased ==
  ASSUME WriterInv, NEW t \in Threads, Erase(t)
  PROVE  /\ ValidBitSet(ver)' = ValidBitSet(ver) \ {at[t]}
         /\ ver'.seq_no_ = ver.seq_no_ + 1
         /\ UNCHANGED <<h1, entry, tag, op, disturbed>>
         /\ ~Storing(t) /\ ~Storing(t)' /\ pc[t] = "erase" /\ pc'[t] = "hit"
  BY DEF Erase, ValidBitSet, Storing, Goto, WriterInv, TypeOK, Version

-----------------------------------------------------------------------------
(* The value of a key changes only when a version is stored.                *)

LEMMA CurrentIs ==
  ASSUME CellInv, NEW k, NEW i \in Holding(ver, k)
  PROVE  Holding(ver, k) = {i} /\ Current(k) = entry[i]
<1>1. Holding(ver, k) = {i}
  BY DEF Holding, CellInv
<1> QED
  BY <1>1 DEF Current

CurrentTyped == \A k : Current(k) \in Values \cup {Absent}

LEMMA CurrentType == CellInv => CurrentTyped
<1> SUFFICES ASSUME CellInv, NEW k
             PROVE  Current(k) \in Values \cup {Absent}
  BY DEF CurrentTyped
<1>1. CASE Holding(ver, k) = {}
  BY <1>1 DEF Current
<1>2. ASSUME NEW i \in Holding(ver, k)
      PROVE  Current(k) \in Values
  BY <1>2, CurrentIs DEF CellInv, Holding
<1> QED
  BY <1>1, <1>2

LEMMA CurrentTypeNext == CellInv' => CurrentTyped'
  BY CurrentType, PTL

LEMMA CurrentKept ==
  ASSUME NEW k, Holding(ver, k)' = Holding(ver, k),
         \A i \in Holding(ver, k) : entry'[i] = entry[i]
  PROVE  Current(k)' = Current(k)
<1>1. CASE Holding(ver, k) = {}
  BY <1>1 DEF Current
<1>2. CASE Holding(ver, k) # {}
  <2> DEFINE c == CHOOSE i \in Holding(ver, k) : TRUE
  <2>1. c \in Holding(ver, k)
    BY <1>2
  <2>2. Current(k) = entry[c]
    BY <1>2 DEF Current
  <2>3. Current(k)' = entry'[c]
    BY <1>2 DEF Current
  <2> QED
    BY <2>1, <2>2, <2>3
<1> QED
  BY <1>1, <1>2

LEMMA ValidSlots ==
  ASSUME TypeOK
  PROVE  /\ ValidBitSet(ver) \subseteq Slots
         /\ \A t \in Threads : ValidBitSet(snap[t]) \subseteq Slots
  BY DEF TypeOK, Version, ValidBitSet

(* Until then the valid slots stay as they are.                             *)
LEMMA NotPublished ==
  ASSUME WriterInv, NEW t \in Threads, Step(t), ~StoreVersion(t), ~Erase(t)
  PROVE  /\ ver' = ver
         /\ \A i \in ValidBitSet(ver) :
              h1'[i] = h1[i] /\ entry'[i] = entry[i] /\ tag'[i] = tag[i]
<1>1. CASE Looks(t)
  BY <1>1, LooksOnly DEF WriterInv
<1> USE ValidSlots DEF WriterInv
<1>2. CASE StoreKey(t)
  <2>1. /\ at'[t] \in Slots \ ValidBitSet(ver)
        /\ h1' = [h1 EXCEPT ![at'[t]] = op[t].key]
        /\ UNCHANGED <<ver, entry, tag>>
    BY <1>2, KeyStored
  <2>2. h1 \in [Slots -> Keys \cup {None}]
    BY DEF TypeOK
  <2> QED
    BY <2>1, <2>2
<1>3. CASE StoreEntry(t) \/ StoreTag(t)
  <2>1. at[t] \notin ValidBitSet(ver)
    BY <1>3 DEF StoreEntry, StoreTag, WriterInv, StoreInv, StoreOf, Storing
  <2> QED
    BY <1>3, <2>1 DEF StoreEntry, StoreTag, WriterInv, TypeOK
<1> QED
  BY <1>1, <1>2, <1>3 DEF Step

LEMMA HoldingKept ==
  ASSUME WriterInv, NEW t \in Threads, Step(t), ~StoreVersion(t), ~Erase(t), NEW k
  PROVE  /\ Holding(ver, k)' = Holding(ver, k)
         /\ Current(k)' = Current(k)
<1>1. /\ ver' = ver
      /\ \A i \in ValidBitSet(ver) :
           h1'[i] = h1[i] /\ entry'[i] = entry[i] /\ tag'[i] = tag[i]
  BY NotPublished
<1>2. Holding(ver, k)' = Holding(ver, k)
  BY <1>1 DEF Holding, ValidBitSet
<1>3. \A i \in Holding(ver, k) : entry'[i] = entry[i]
  BY <1>1 DEF Holding
<1> QED
  BY <1>2, <1>3, CurrentKept

(* A stored version changes only what the key of the writer has.            *)
LEMMA PublishedHolding ==
  ASSUME IInv, NEW t \in Threads, StoreVersion(t) \/ Erase(t), NEW k
  PROVE  /\ k # op[t].key =>
              Holding(ver, k)' = Holding(ver, k) /\ Current(k)' = Current(k)
         /\ StoreVersion(t) => Holding(ver, op[t].key)' = {at[t]}
         /\ entry' = entry
<1> USE DEF IInv
<1>1. CASE StoreVersion(t)
  <2>1. /\ ValidBitSet(ver)' = (ValidBitSet(ver) \cup {at[t]}) \ {old[t]}
        /\ UNCHANGED <<h1, entry>>
        /\ Storing(t)
    BY <1>1, VersionStored
  <2>2. /\ h1[at[t]] = op[t].key /\ at[t] \notin ValidBitSet(ver)
        /\ Holding(ver, op[t].key) = IF old[t] = None THEN {} ELSE {old[t]}
        /\ at[t] \in Slots
    BY <2>1 DEF WriterInv, StoreInv, StoreOf
  <2>3. old[t] \in ValidBitSet(ver) => h1[old[t]] = op[t].key
    BY <2>2, NoneAssumption DEF Holding, ValidBitSet, WriterInv, TypeOK, Version
  <2>4. old[t] # at[t]
    BY <2>2, NoneAssumption DEF Holding
  <2>5. k # op[t].key => Holding(ver, k)' = Holding(ver, k)
    BY <2>1, <2>2, <2>3 DEF Holding
  <2>6. \A i \in ValidBitSet(ver) : h1[i] = op[t].key => i = old[t]
    BY <2>2 DEF Holding
  <2>7. Holding(ver, op[t].key)' = {at[t]}
    <3>1. op' = op
      BY <1>1 DEF StoreVersion
    <3> QED
      BY <2>1, <2>2, <2>4, <2>6, <3>1 DEF Holding
  <2> QED
    BY <1>1, <2>1, <2>5, <2>7, CurrentKept
<1>2. CASE Erase(t)
  <2>1. /\ ValidBitSet(ver)' = ValidBitSet(ver) \ {at[t]}
        /\ UNCHANGED <<h1, entry>> /\ pc[t] = "erase"
    BY <1>2, Erased
  <2>2. h1[at[t]] = op[t].key
    <3>1. Found(t) /\ ~Outdated(t) /\ Free(at[t])
      BY <2>1 DEF Found, Free, WriterInv, OpInv, OpOf, ReaderInv, CopyInv, CopyOf, Copied, Storing
    <3> QED
      BY <3>1 DEF ReaderInv, FoundInv, FoundOf
  <2>3. k # op[t].key => Holding(ver, k)' = Holding(ver, k)
    BY <2>1, <2>2 DEF Holding
  <2>4. ~StoreVersion(t)
    BY <2>1 DEF StoreVersion
  <2> QED
    BY <2>1, <2>3, <2>4, CurrentKept
<1> QED
  BY <1>1, <1>2

-----------------------------------------------------------------------------
(* The writers                                                              *)

LEMMA OpStep ==
  ASSUME TypeOK, OpInv, NEW t \in Threads, Step(t)
  PROVE  OpInv'
<1>1. ASSUME NEW u \in Threads \ {t}
      PROVE  OpOf(u)'
  <2>1. Same(u)
    BY OthersSame
  <2>2. lock = u => lock' = u
    BY LockKept
  <2>3. OpOf(u)
    BY DEF OpInv
  <2> QED
    BY <2>1, <2>2, <2>3 DEF OpOf, Same, Storing
<1>2. OpOf(t)'
  <2> USE DEF OpOf, OpInv, TypeOK, Storing, Goto, copyVars, cellVars, historyVars
  <2>1. CASE \E o \in Call : Begin(t, o)
    BY <2>1 DEF Begin, Call
  <2>2. CASE CopyTags(t) \/ CopyVersion(t) \/ Miss(t)
    BY <2>2 DEF CopyTags, CopyVersion, Miss
  <2>3. CASE Compare(t)
    BY <2>3 DEF Compare, Call
  <2>4. CASE ReadRecord(t) \/ CheckVersion(t)
    BY <2>4 DEF ReadRecord, CheckVersion
  <2>5. CASE Lock(t) \/ DeleteRetry(t) \/ DeleteFinds(t) \/ NoSlot(t)
    BY <2>5 DEF Lock, DeleteRetry, DeleteFinds, NoSlot
  <2>6. CASE Return(t)
    BY <2>6 DEF Return
  <2>7. CASE StoreKey(t)
    BY <2>7 DEF StoreKey
  <2>8. CASE StoreEntry(t) \/ StoreTag(t)
    BY <2>8 DEF StoreEntry, StoreTag
  <2>9. CASE StoreVersion(t) \/ Erase(t)
    BY <2>9 DEF StoreVersion, Erase
  <2> QED
    BY <2>1, <2>2, <2>3, <2>4, <2>5, <2>6, <2>7, <2>8, <2>9 DEF Step, Looks
<1> QED
  BY <1>1, <1>2 DEF OpInv

LEMMA CellStep ==
  ASSUME IInv, NEW t \in Threads, Step(t)
  PROVE  CellInv'
<1> USE DEF IInv, WriterInv
<1>1. CASE ~StoreVersion(t) /\ ~Erase(t)
  <2>1. /\ ver' = ver
        /\ \A i \in ValidBitSet(ver) :
             h1'[i] = h1[i] /\ entry'[i] = entry[i] /\ tag'[i] = tag[i]
    BY <1>1, NotPublished
  <2> QED
    BY <2>1 DEF CellInv, ValidBitSet
<1>2. CASE StoreVersion(t)
  <2>1. /\ ValidBitSet(ver)' = (ValidBitSet(ver) \cup {at[t]}) \ {old[t]}
        /\ UNCHANGED <<h1, entry, tag>> /\ pc[t] = "publish" /\ Storing(t)
    BY <1>2, VersionStored
  <2>2. /\ h1[at[t]] = op[t].key /\ entry[at[t]] = op[t].val
        /\ tag[at[t]] = H2[op[t].key]
        /\ Holding(ver, op[t].key) = IF old[t] = None THEN {} ELSE {old[t]}
    BY <2>1 DEF StoreInv, StoreOf
  <2>3. op[t].key \in Keys /\ op[t].val \in Values
    BY <2>1 DEF OpInv, OpOf, Call, Storing
  <2>4. \A i \in ValidBitSet(ver)' : i = at[t] \/ (i \in ValidBitSet(ver) /\ h1[i] # op[t].key)
    BY <2>1, <2>2 DEF Holding
  <2> QED
    BY <2>1, <2>2, <2>3, <2>4 DEF CellInv
<1>3. CASE Erase(t)
  BY <1>3, Erased DEF CellInv
<1> QED
  BY <1>1, <1>2, <1>3

LEMMA StoreStep ==
  ASSUME IInv, NEW t \in Threads, Step(t)
  PROVE  StoreInv'
<1> USE DEF IInv, WriterInv
<1>1. ASSUME NEW u \in Threads \ {t}
      PROVE  StoreOf(u)'
  <2> SUFFICES ASSUME Storing(u)'
               PROVE  StoreOf(u)'
    BY DEF StoreOf
  <2>1. Same(u) /\ Storing(u) /\ StoreOf(u)
    BY OthersSame DEF Same, Storing, StoreInv
  <2>2. Looks(t)
    BY <2>1, LockKept DEF OpInv, OpOf
  <2>3. UNCHANGED <<ver, h1, entry, tag>>
    BY <2>2, LooksOnly
  <2> QED
    BY <2>1, <2>3 DEF StoreOf, Same, Holding, ValidBitSet
<1>2. StoreOf(t)'
  <2>1. CASE Looks(t)
    BY <2>1, LooksOnly DEF StoreOf
  <2>2. CASE StoreKey(t)
    <3>1. /\ at'[t] \in Slots \ ValidBitSet(ver)
          /\ h1' = [h1 EXCEPT ![at'[t]] = op[t].key]
          /\ UNCHANGED <<ver, op>>
          /\ Holding(ver, op[t].key) = IF old'[t] = None THEN {} ELSE {old'[t]}
          /\ pc'[t] = "entry"
      BY <2>2, KeyStored
    <3>2. Holding(ver, op[t].key)' = Holding(ver, op[t].key)
      <4>1. Holding(ver, op[t].key)' = {i \in ValidBitSet(ver) : h1'[i] = op[t].key}
        BY <3>1 DEF Holding, ValidBitSet
      <4>2. \A i \in ValidBitSet(ver) : h1'[i] = h1[i]
        BY <2>2, NotPublished DEF Step, StoreKey, StoreVersion, Erase
      <4> QED
        BY <4>1, <4>2 DEF Holding
    <3>3. h1'[at'[t]] = op[t].key
      BY <3>1 DEF TypeOK
    <3>4. ValidBitSet(ver)' = ValidBitSet(ver)
      BY <3>1 DEF ValidBitSet
    <3> QED
      BY <3>1, <3>2, <3>3, <3>4 DEF StoreOf
  <2>3. CASE StoreEntry(t) \/ StoreTag(t)
    <3>1. /\ UNCHANGED <<ver, h1, op, at, old>>
          /\ Storing(t) /\ StoreOf(t) /\ op[t].key \in Keys
      BY <2>3 DEF StoreEntry, StoreTag, Storing, StoreInv, copyVars, historyVars,
                  OpInv, OpOf, Call
    <3>2. /\ Holding(ver, op[t].key)' = Holding(ver, op[t].key)
          /\ ValidBitSet(ver)' = ValidBitSet(ver)
      BY <3>1 DEF Holding, ValidBitSet
    <3> QED
      BY <2>3, <3>1, <3>2 DEF StoreOf, StoreEntry, StoreTag, Goto, TypeOK
  <2>4. CASE StoreVersion(t) \/ Erase(t)
    BY <2>4, VersionStored, Erased DEF StoreOf
  <2> QED
    BY <2>1, <2>2, <2>3, <2>4 DEF Step
<1> QED
  BY <1>1, <1>2 DEF StoreInv

(* The values that a stored version adds to the history have the right type.*)
LEMMA HistoryType ==
  ASSUME IInv, NEW t \in Threads, StoreVersion(t) \/ Erase(t)
  PROVE  had' \in [Threads -> SUBSET (Values \cup {Absent})]
<1>1. CellInv'
  BY CellStep DEF Step
<1>2. \A u \in Threads : Current(op[u].key)' \in Values \cup {Absent}
  BY <1>1, CurrentTypeNext DEF CurrentTyped
<1>3. Seen
  BY DEF StoreVersion, Erase
<1>4. had \in [Threads -> SUBSET (Values \cup {Absent})]
  BY DEF IInv, WriterInv, TypeOK
<1> QED
  BY <1>2, <1>3, <1>4 DEF Seen

LEMMA TypeStep ==
  ASSUME IInv, NEW t \in Threads, Step(t)
  PROVE  TypeOK'
<1> USE DEF TypeOK, Phase, Goto, copyVars, cellVars, historyVars
<1>0. TypeOK /\ CellInv
  BY DEF IInv, WriterInv
<1>1. CASE \E o \in Call : Begin(t, o)
  <2>1. PICK o \in Call : Begin(t, o)
    BY <1>1
  <2>2. Current(o.key) \in Values \cup {Absent}
    BY <1>0, CurrentType DEF CurrentTyped
  <2> QED
    BY <1>0, <2>1, <2>2 DEF Begin
<1>2. CASE CopyTags(t) \/ Miss(t) \/ CheckVersion(t)
  <2>1. CASE CopyTags(t)
    BY <1>0, <2>1 DEF CopyTags
  <2>2. CASE Miss(t)
    BY <1>0, <2>2 DEF Miss
  <2>3. CASE CheckVersion(t)
    <3>1. pc' \in [Threads -> Phase]
      BY <1>0, <2>3 DEF CheckVersion
    <3> QED
      BY <1>0, <2>3, <3>1 DEF CheckVersion
  <2> QED
    BY <1>2, <2>1, <2>2, <2>3
<1>3. CASE CopyVersion(t)
  <2>1. ValidBitSet(ver) \subseteq Slots
    BY <1>0, ValidSlots
  <2> QED
    BY <1>0, <1>3, <2>1 DEF CopyVersion
<1>4. CASE Compare(t)
  <2>1. PICK i \in Slots :
          \/ /\ Goto(t, IF op[t].kind = "find" THEN "read" ELSE "lock")
             /\ at' = [at EXCEPT ![t] = i] /\ UNCHANGED left
          \/ /\ left' = [left EXCEPT ![t] = @ \ {i}]
             /\ UNCHANGED <<pc, at>>
    BY <1>4 DEF Compare
  <2>2. /\ pc' \in [Threads -> Phase]
        /\ at' \in [Threads -> Slots \cup {None}]
        /\ left' \in [Threads -> SUBSET Slots]
    <3>1. \/ pc' = pc
          \/ pc' = [pc EXCEPT ![t] = "read"]
          \/ pc' = [pc EXCEPT ![t] = "lock"]
      BY <2>1
    <3>2. pc' \in [Threads -> Phase]
      BY <1>0, <3>1
    <3>3. at' = at \/ at' = [at EXCEPT ![t] = i]
      BY <2>1
    <3>4. left' = left \/ left' = [left EXCEPT ![t] = left[t] \ {i}]
      BY <2>1
    <3>5. at' \in [Threads -> Slots \cup {None}]
      <4>1. at \in [Threads -> Slots \cup {None}]
        BY <1>0
      <4> QED
        BY <4>1, <3>3
    <3>6. left' \in [Threads -> SUBSET Slots]
      <4>1. left \in [Threads -> SUBSET Slots]
        BY <1>0
      <4> QED
        BY <4>1, <3>4
    <3> QED
      BY <3>2, <3>5, <3>6
  <2>3. UNCHANGED <<cellVars, lock, op, tags, snap, old, got, historyVars>>
    BY <1>4 DEF Compare
  <2> QED
    BY <1>0, <2>2, <2>3
<1>5. CASE ReadRecord(t)
  <2>1. at[t] \in Slots
    <3>1. at[t] \in ValidBitSet(snap[t])
      BY <1>5 DEF ReadRecord, IInv, ReaderInv, CopyInv, CopyOf, Copied, Found
    <3> QED
      BY <1>0, <3>1, ValidSlots
  <2> QED
    BY <1>0, <1>5, <2>1 DEF ReadRecord
<1>6. CASE Lock(t) \/ DeleteRetry(t) \/ DeleteFinds(t) \/ NoSlot(t)
  BY <1>0, <1>6 DEF Lock, DeleteRetry, DeleteFinds, NoSlot, Unlock
<1>7. CASE Return(t)
  BY <1>0, <1>7 DEF Return, NoTags, NoVersion, Version
<1>8. CASE StoreKey(t)
  <2>1. op[t].key \in Keys
    BY <1>8 DEF StoreKey, IInv, WriterInv, OpInv, OpOf, Call
  <2> QED
    BY <1>0, <1>8, <2>1 DEF StoreKey
<1>9. CASE StoreEntry(t) \/ StoreTag(t)
  <2>1. op[t].key \in Keys /\ op[t].val \in Values /\ H2[op[t].key] \in Nat
    BY <1>9, TagAssumption DEF StoreEntry, StoreTag, IInv, WriterInv, OpInv, OpOf, Call, Storing
  <2> QED
    BY <1>0, <1>9, <2>1 DEF StoreEntry, StoreTag
<1>10. CASE StoreVersion(t) \/ Erase(t)
  <2>1. had' \in [Threads -> SUBSET (Values \cup {Absent})]
    BY <1>10, HistoryType
  <2>2. at[t] \in Slots
    <3>1. CASE StoreVersion(t)
      BY <3>1, VersionStored DEF IInv, WriterInv, StoreInv, StoreOf
    <3>2. CASE Erase(t)
      <4>1. at[t] \in ValidBitSet(snap[t])
        BY <3>2 DEF Erase, IInv, WriterInv, ReaderInv, CopyInv, CopyOf, Copied, Found, OpInv, OpOf
      <4> QED
        BY <1>0, <4>1, ValidSlots
    <3> QED
      BY <1>10, <3>1, <3>2
  <2>3. ver' \in Version
    <3>1. /\ ver.bitmap \in SUBSET Slots /\ ver.deleted \in SUBSET Slots
          /\ ver.seq_no_ \in Nat
      BY <1>0 DEF Version
    <3>2. CASE StoreVersion(t)
      <4> DEFINE b == IF old[t] = None THEN ver.bitmap \cup {at[t]}
                      ELSE Toggle(ver.bitmap \cup {at[t]}, old[t])
                 d == ver.deleted \ {at[t]}
      <4>1. ver' = [bitmap |-> b, deleted |-> d, seq_no_ |-> ver.seq_no_ + 1]
        BY <3>2 DEF StoreVersion
      <4>2. b \in SUBSET Slots /\ d \in SUBSET Slots
        <5>1. old[t] \in Slots \cup {None}
          BY <1>0
        <5> QED
          BY <3>1, <2>2, <5>1 DEF Toggle
      <4> HIDE DEF b, d
      <4> QED
        BY <3>1, <4>1, <4>2 DEF Version
    <3>3. CASE Erase(t)
      <4> DEFINE d == ver.deleted \cup {at[t]}
      <4>1. ver' = [bitmap |-> ver.bitmap, deleted |-> d, seq_no_ |-> ver.seq_no_ + 1]
        <5>1. ver \in Version
          BY <1>0
        <5>2. ver' = [ver EXCEPT !.deleted = d, !.seq_no_ = ver.seq_no_ + 1]
          BY <3>3 DEF Erase
        <5> HIDE DEF d
        <5> QED
          BY <5>1, <5>2 DEF Version
      <4>2. d \in SUBSET Slots
        BY <3>1, <2>2
      <4> HIDE DEF d
      <4> QED
        BY <3>1, <4>1, <4>2 DEF Version
    <3> QED
      BY <1>10, <3>2, <3>3
  <2> QED
    BY <1>0, <1>10, <2>1, <2>3 DEF StoreVersion, Erase, Unlock
<1> QED
  BY <1>1, <1>2, <1>3, <1>4, <1>5, <1>6, <1>7, <1>8, <1>9, <1>10 DEF Step, Looks

-----------------------------------------------------------------------------
(* The readers                                                              *)

LEMMA SeqStep ==
  ASSUME WriterInv, NEW t \in Threads, Step(t)
  PROVE  /\ ver.seq_no_ \in Nat
         /\ StoreVersion(t) \/ Erase(t) => ver'.seq_no_ = ver.seq_no_ + 1
         /\ ~StoreVersion(t) /\ ~Erase(t) => ver' = ver
<1>1. ver.seq_no_ \in Nat
  BY DEF WriterInv, TypeOK, Version
<1> QED
  BY <1>1, VersionStored, Erased, NotPublished

(* Where nobody stores after the step, nobody stored before it, but for the *)
(* writer itself.                                                           *)
LEMMA FreeBefore ==
  ASSUME TypeOK, NEW t \in Threads, Step(t), NEW i, Free(i)',
         Storing(t) => at[t] # i
  PROVE  Free(i)
<1> SUFFICES ASSUME NEW w \in Threads, Storing(w)
             PROVE  at[w] # i
  BY DEF Free
<1>1. CASE w # t
  <2>1. Same(w)
    BY <1>1, OthersSame
  <2> QED
    BY <2>1 DEF Same, Free, Storing
<1> QED
  BY <1>1

(* As long as at most one version was stored since the copy, a slot of the  *)
(* copy into which nobody is storing is as it was.                          *)
LEMMA SlotKept ==
  ASSUME IInv, NEW t \in Threads, Step(t), NEW u \in Threads \ {t},
         Copied(u), ~Outdated(u)', NEW i \in ValidBitSet(snap[u]), Free(i)'
  PROVE  ~Outdated(u) /\ Free(i) /\ h1'[i] = h1[i] /\ entry'[i] = entry[i]
<1> USE DEF IInv
<1>1. /\ Same(u) /\ TypeOK /\ WriterInv
      /\ snap[u].seq_no_ \in Nat /\ ver.seq_no_ \in Nat
      /\ snap[u].seq_no_ <= ver.seq_no_
      /\ snap[u].seq_no_ = ver.seq_no_ => ValidBitSet(snap[u]) = ValidBitSet(ver)
  BY OthersSame DEF WriterInv, ReaderInv, CopyInv, CopyOf, TypeOK, Version
<1>2. ~(snap[u].seq_no_ + 1 < ver'.seq_no_)
  BY <1>1 DEF Outdated, Same
<1>3. ~Outdated(u)
  BY <1>1, <1>2, SeqStep DEF Outdated
<1>4. i \in Slots
  BY <1>1, ValidSlots
<1>5. CASE Looks(t)
  <2>1. UNCHANGED <<ver, h1, entry, tag>> /\ ~Storing(t)
    BY <1>1, <1>5, LooksOnly
  <2> QED
    BY <1>1, <1>3, <2>1, FreeBefore
<1>6. CASE StoreKey(t)
  <2>1. /\ h1' = [h1 EXCEPT ![at'[t]] = op[t].key] /\ entry' = entry
        /\ pc'[t] = "entry" /\ pc[t] = "locked"
    BY <1>1, <1>6, KeyStored
  <2>2. at'[t] # i
    BY <2>1 DEF Free, Storing
  <2>3. h1'[i] = h1[i]
    BY <1>1, <1>4, <2>1, <2>2 DEF TypeOK
  <2> QED
    BY <1>1, <1>3, <2>1, <2>3, FreeBefore DEF Storing
<1>7. CASE StoreEntry(t) \/ StoreTag(t)
  <2>1. at'[t] = at[t] /\ Storing(t)'
    BY <1>1, <1>7 DEF StoreEntry, StoreTag, Storing, Goto, TypeOK
  <2>2. at[t] # i
    BY <2>1 DEF Free
  <2>3. h1'[i] = h1[i] /\ entry'[i] = entry[i]
    BY <1>1, <1>4, <1>7, <2>2 DEF StoreEntry, StoreTag, TypeOK
  <2> QED
    BY <1>1, <1>3, <2>2, <2>3, FreeBefore
<1>8. CASE StoreVersion(t)
  <2>1. /\ UNCHANGED <<h1, entry>> /\ Storing(t)
        /\ ver'.seq_no_ = ver.seq_no_ + 1
    BY <1>1, <1>8, VersionStored
  <2>2. i \in ValidBitSet(ver)
    BY <1>1, <1>2, <2>1
  <2>3. at[t] # i
    BY <2>1, <2>2 DEF WriterInv, StoreInv, StoreOf
  <2> QED
    BY <1>1, <1>3, <2>1, <2>3, FreeBefore
<1>9. CASE Erase(t)
  <2>1. UNCHANGED <<h1, entry>> /\ ~Storing(t)
    BY <1>1, <1>9, Erased
  <2> QED
    BY <1>1, <1>3, <2>1, FreeBefore
<1> QED
  BY <1>5, <1>6, <1>7, <1>8, <1>9 DEF Step

LEMMA CopyStep ==
  ASSUME IInv, NEW t \in Threads, Step(t)
  PROVE  CopyInv'
<1> USE DEF IInv
<1>0. TypeOK /\ WriterInv /\ OpInv
  BY DEF WriterInv
<1>1. ASSUME NEW u \in Threads \ {t}
      PROVE  CopyOf(u)'
  <2> SUFFICES ASSUME Copied(u)'
               PROVE  CopyOf(u)'
    BY DEF CopyOf
  <2>1. Same(u)
    BY <1>0, OthersSame
  <2>2. Copied(u) /\ (Found(u)' <=> Found(u))
    BY <2>1 DEF Copied, Found, Same
  <2>3. CopyOf(u)
    BY DEF ReaderInv, CopyInv
  <2>4. ValidBitSet(snap[u])' = ValidBitSet(snap[u])
    BY <2>1 DEF Same, ValidBitSet
  <2>5. CASE ~StoreVersion(t) /\ ~Erase(t)
    <3>1. ver' = ver /\ ValidBitSet(ver)' = ValidBitSet(ver)
      BY <1>0, <2>5, SeqStep DEF ValidBitSet
    <3> QED
      BY <2>1, <2>2, <2>3, <2>4, <3>1 DEF CopyOf, Same, Outdated
  <2>6. CASE StoreVersion(t) \/ Erase(t)
    <3>1. lock = t
      BY <1>0, <2>6 DEF OpInv, OpOf, StoreVersion, Erase, Storing
    <3>2. pc[u] # "erase"
      BY <1>0, <3>1 DEF OpInv, OpOf
    <3>3. ver'.seq_no_ = ver.seq_no_ + 1 /\ ver.seq_no_ \in Nat /\ snap[u].seq_no_ \in Nat
      BY <1>0, <2>6, SeqStep DEF TypeOK, Version
    <3> QED
      BY <2>1, <2>2, <2>3, <2>4, <3>2, <3>3 DEF CopyOf, Same
  <2> QED
    BY <2>5, <2>6
<1>2. CopyOf(t)'
  <2> SUFFICES ASSUME Copied(t)'
               PROVE  CopyOf(t)'
    BY DEF CopyOf
  <2> USE <1>0 DEF TypeOK, Goto, Copied, Found, copyVars, cellVars, historyVars
  <2>1. CASE CopyVersion(t)
    <3>1. /\ snap'[t] = ver /\ ver' = ver /\ pc'[t] = "compare"
          /\ left'[t] \subseteq ValidBitSet(ver)
      BY <2>1 DEF CopyVersion
    <3>2. ver.seq_no_ \in Nat
      BY DEF Version
    <3> QED
      BY <3>1, <3>2 DEF CopyOf, ValidBitSet
  <2>2. CASE Compare(t) \/ ReadRecord(t) \/ Lock(t) \/ DeleteFinds(t)
    <3>1. /\ Copied(t) /\ CopyOf(t)
          /\ ver' = ver /\ snap' = snap /\ left'[t] \subseteq left[t]
          /\ Found(t)' => (at'[t] = at[t] /\ Found(t)) \/ at'[t] \in left[t]
          /\ pc'[t] = "erase" => ~Outdated(t)
      <4>1. CASE Compare(t)
        BY <4>1 DEF Compare, ReaderInv, CopyInv, Lowest
      <4>2. CASE ReadRecord(t)
        BY <4>2 DEF ReadRecord, ReaderInv, CopyInv
      <4>3. CASE Lock(t)
        BY <4>3 DEF Lock, ReaderInv, CopyInv
      <4>4. CASE DeleteFinds(t)
        BY <4>4 DEF DeleteFinds, ReaderInv, CopyInv
      <4> QED
        BY <2>2, <4>1, <4>2, <4>3, <4>4
    <3> QED
      BY <3>1 DEF CopyOf, Outdated, ValidBitSet
  <2>3. CASE ~(CopyVersion(t) \/ Compare(t) \/ ReadRecord(t) \/ Lock(t) \/ DeleteFinds(t))
    <3>1. ~Copied(t)'
      <4>1. CASE \E o \in Call : Begin(t, o)
        BY <4>1 DEF Begin
      <4>2. CASE CopyTags(t) \/ Miss(t) \/ DeleteRetry(t) \/ NoSlot(t)
        BY <4>2 DEF CopyTags, Miss, DeleteRetry, NoSlot
      <4>3. CASE CheckVersion(t)
        BY <4>3 DEF CheckVersion
      <4>4. CASE Return(t)
        BY <4>4 DEF Return
      <4>5. CASE StoreKey(t) \/ StoreEntry(t) \/ StoreTag(t)
        BY <4>5 DEF StoreKey, StoreEntry, StoreTag
      <4>6. CASE StoreVersion(t) \/ Erase(t)
        BY <4>6 DEF StoreVersion, Erase
      <4> QED
        BY <2>3, <4>1, <4>2, <4>3, <4>4, <4>5, <4>6 DEF Step, Looks
    <3> QED
      BY <3>1
  <2> QED
    BY <2>1, <2>2, <2>3
<1> QED
  BY <1>1, <1>2 DEF CopyInv

LEMMA FoundStep ==
  ASSUME IInv, NEW t \in Threads, Step(t)
  PROVE  FoundInv'
<1> USE DEF IInv
<1>0. TypeOK /\ WriterInv /\ OpInv
  BY DEF WriterInv
<1>1. ASSUME NEW u \in Threads \ {t}
      PROVE  FoundOf(u)'
  <2> SUFFICES ASSUME Found(u)', ~Outdated(u)', Free(at[u])'
               PROVE  (h1[at[u]] = op[u].key)'
    BY DEF FoundOf
  <2>1. Same(u)
    BY <1>0, OthersSame
  <2>2. Found(u) /\ Copied(u)
    BY <2>1 DEF Copied, Found, Same
  <2>3. at[u] \in ValidBitSet(snap[u])
    BY <2>2 DEF ReaderInv, CopyInv, CopyOf
  <2>4. PICK i \in ValidBitSet(snap[u]) : i = at[u]
    BY <2>3
  <2>5. ~Outdated(u) /\ Free(i) /\ h1'[i] = h1[i]
    <3>1. Free(i)'
      BY <2>1, <2>4 DEF Same, Free
    <3> QED
      BY <2>2, <3>1, SlotKept
  <2>6. h1[i] = op[u].key
    BY <2>2, <2>4, <2>5 DEF ReaderInv, FoundInv, FoundOf
  <2> QED
    BY <2>1, <2>4, <2>5, <2>6 DEF Same
<1>2. FoundOf(t)'
  <2> SUFFICES ASSUME Found(t)', ~Outdated(t)', Free(at[t])'
               PROVE  (h1[at[t]] = op[t].key)'
    BY DEF FoundOf
  <2> USE <1>0 DEF TypeOK, Goto, Found, copyVars, cellVars, historyVars
  <2>1. CASE Compare(t)
    BY <2>1 DEF Compare, OpInv, OpOf
  <2>2. CASE ReadRecord(t) \/ Lock(t) \/ DeleteFinds(t)
    <3>1. /\ Found(t) /\ at' = at /\ h1' = h1 /\ op' = op
          /\ ver' = ver /\ snap' = snap
      BY <2>2 DEF ReadRecord, Lock, DeleteFinds
    <3>2. ~Outdated(t)
      BY <3>1 DEF Outdated
    <3>3. Free(at[t])
      <4>1. ~Storing(t)
        BY <2>2 DEF ReadRecord, Lock, DeleteFinds, Storing
      <4>2. Free(at[t])'
        OBVIOUS
      <4>3. \A w \in Threads : at'[w] = at[w]
        BY <3>1
      <4>4. \A w \in Threads \ {t} : Same(w)
        BY OthersSame
      <4> QED
        BY <3>1, <4>1, <4>2, <4>4 DEF Free, Storing, Same
    <3> QED
      BY <3>1, <3>2, <3>3 DEF ReaderInv, FoundInv, FoundOf
  <2>3. CASE ~(Compare(t) \/ ReadRecord(t) \/ Lock(t) \/ DeleteFinds(t))
    <3>1. ~Found(t)'
      <4>1. CASE \E o \in Call : Begin(t, o)
        BY <4>1 DEF Begin
      <4>2. CASE CopyTags(t) \/ CopyVersion(t) \/ Miss(t) \/ DeleteRetry(t) \/ NoSlot(t)
        BY <4>2 DEF CopyTags, CopyVersion, Miss, DeleteRetry, NoSlot
      <4>3. CASE CheckVersion(t)
        BY <4>3 DEF CheckVersion
      <4>4. CASE Return(t)
        BY <4>4 DEF Return
      <4>5. CASE StoreKey(t) \/ StoreEntry(t) \/ StoreTag(t)
        BY <4>5 DEF StoreKey, StoreEntry, StoreTag
      <4>6. CASE StoreVersion(t) \/ Erase(t)
        BY <4>6 DEF StoreVersion, Erase
      <4> QED
        BY <2>3, <4>1, <4>2, <4>3, <4>4, <4>5, <4>6 DEF Step, Looks
    <3> QED
      BY <3>1
  <2> QED
    BY <2>1, <2>2, <2>3
<1> QED
  BY <1>1, <1>2 DEF FoundInv

(* The history of a call only grows, and has the current value.             *)
LEMMA HistoryStep ==
  ASSUME IInv, NEW t \in Threads, Step(t), NEW u \in Threads, pc'[u] # "idle"
  PROVE  /\ Current(op[u].key)' \in had'[u]
         /\ pc[u] # "idle" => had[u] \subseteq had'[u] /\ op'[u] = op[u]
<1> USE DEF IInv
<1>0. TypeOK /\ WriterInv /\ OpInv
  BY DEF WriterInv
<1> USE <1>0
<1>1. CASE StoreVersion(t) \/ Erase(t)
  <2>1. op' = op /\ pc[u] # "idle"
    BY <1>1, OthersSame DEF StoreVersion, Erase, Same
  <2>2. had'[u] = had[u] \cup {Current(op[u].key)'}
    BY <1>1, <2>1 DEF StoreVersion, Erase, Seen
  <2> QED
    BY <2>1, <2>2
<1>2. CASE ~StoreVersion(t) /\ ~Erase(t)
  <2>1. \A k : Current(k)' = Current(k)
    BY <1>2, HoldingKept
  <2>2. CASE \E o \in Call : Begin(t, o)
    <3>1. PICK o \in Call : Begin(t, o)
      BY <2>2
    <3>2. CASE u = t
      <4>1. had'[t] = {Current(o.key)} /\ op'[t] = o /\ pc[t] = "idle"
        BY <3>1 DEF Begin, TypeOK
      <4>2. Current(o.key)' = Current(o.key)
        BY <2>1
      <4>3. Current(op[t].key)' = Current(o.key)'
        BY <4>1 DEF Current, Holding
      <4> QED
        BY <3>2, <4>1, <4>2, <4>3
    <3>3. CASE u # t
      <4>1. had'[u] = had[u] /\ Same(u)
        BY <3>1, <3>3, OthersSame DEF Begin, TypeOK
      <4>2. Current(op[u].key) \in had[u]
        BY <4>1 DEF Same, ReaderInv, HadInv, HadOf
      <4>3. Current(op[u].key)' = Current(op[u].key)
        BY <2>1, <4>1 DEF Same, Current, Holding
      <4> QED
        BY <4>1, <4>2, <4>3 DEF Same
    <3> QED
      BY <3>2, <3>3
  <2>3. CASE ~ \E o \in Call : Begin(t, o)
    <3>1. had'[u] = had[u] /\ pc[u] # "idle" /\ op'[u] = op[u]
      <4>1. CASE Return(t)
        BY <4>1 DEF Return, TypeOK, Goto
      <4>2. CASE ~Return(t)
        <5>1. had' = had /\ op' = op /\ pc[t] # "idle"
          BY <1>2, <2>3, <4>2
             DEF Step, Looks, CopyTags, CopyVersion, Compare, Miss, ReadRecord,
                 CheckVersion, Lock, DeleteRetry, DeleteFinds, NoSlot, StoreKey,
                 StoreEntry, StoreTag, historyVars
        <5> QED
          BY <5>1, OthersSame DEF Same
      <4> QED
        BY <4>1, <4>2
    <3>2. Current(op[u].key) \in had[u]
      BY <3>1 DEF ReaderInv, HadInv, HadOf
    <3>3. Current(op[u].key)' = Current(op[u].key)
      BY <2>1, <3>1 DEF Current, Holding
    <3> QED
      BY <3>1, <3>2, <3>3
  <2> QED
    BY <2>2, <2>3
<1> QED
  BY <1>1, <1>2

LEMMA HadStep ==
  ASSUME IInv, NEW t \in Threads, Step(t)
  PROVE  HadInv'
<1> USE DEF IInv
<1>0. TypeOK /\ WriterInv /\ OpInv /\ CellInv
  BY DEF WriterInv
<1>1. ASSUME NEW u \in Threads, pc'[u] # "idle"
      PROVE  Current(op[u].key)' \in had'[u]
  BY <1>1, HistoryStep
<1>2. ASSUME NEW u \in Threads \ {t}, Copied(u)', ~Outdated(u)',
             NEW i \in ValidBitSet(snap[u]), Free(i)'
      PROVE  /\ Same(u) /\ Copied(u) /\ had[u] \subseteq had'[u]
             /\ ~Outdated(u) /\ Free(i) /\ h1'[i] = h1[i] /\ entry'[i] = entry[i]
  <2>1. Same(u)
    BY <1>0, OthersSame
  <2>2. Copied(u) /\ pc'[u] # "idle" /\ pc[u] # "idle"
    BY <1>2, <2>1 DEF Copied, Found, Same
  <2> QED
    BY <1>2, <2>1, <2>2, SlotKept, HistoryStep
<1>3. ASSUME NEW u \in Threads \ {t}, Copied(u)', ~Outdated(u)',
             NEW i \in ValidBitSet(snap[u])', Free(i)', h1'[i] = op'[u].key
      PROVE  entry'[i] \in had'[u]
  <2>1. Same(u)
    BY <1>0, OthersSame
  <2>2. i \in ValidBitSet(snap[u])
    BY <1>3, <2>1 DEF Same, ValidBitSet
  <2>3. /\ Copied(u) /\ had[u] \subseteq had'[u]
        /\ ~Outdated(u) /\ Free(i) /\ h1'[i] = h1[i] /\ entry'[i] = entry[i]
    BY <1>2, <1>3, <2>2
  <2>4. entry[i] \in had[u]
    BY <1>3, <2>1, <2>2, <2>3 DEF Same, ReaderInv, HadInv, HadOf
  <2> QED
    BY <2>3, <2>4
<1>4. ASSUME NEW u \in Threads \ {t}, pc'[u] = "check", ~Outdated(u)', Free(at[u])'
      PROVE  got'[u] \in had'[u]
  <2>1. Same(u)
    BY <1>0, OthersSame
  <2>2. Found(u) /\ Copied(u) /\ Copied(u)'
    BY <1>4, <2>1 DEF Copied, Found, Same
  <2>3. at[u] \in ValidBitSet(snap[u])
    BY <2>2 DEF ReaderInv, CopyInv, CopyOf
  <2>4. PICK i \in ValidBitSet(snap[u]) : i = at[u]
    BY <2>3
  <2>5. Free(i)'
    BY <1>4, <2>1, <2>4 DEF Same, Free
  <2>6. /\ had[u] \subseteq had'[u] /\ ~Outdated(u) /\ Free(i)
    BY <1>2, <1>4, <2>2, <2>5
  <2>7. got[u] \in had[u]
    BY <1>4, <2>1, <2>4, <2>6 DEF Same, ReaderInv, HadInv, HadOf
  <2> QED
    BY <2>1, <2>6, <2>7 DEF Same
<1>5. ASSUME Copied(t)'
      PROVE  /\ ver' = ver /\ h1' = h1 /\ entry' = entry /\ op' = op /\ had' = had
             /\ \A i : Free(i)' <=> Free(i)
             /\ \/ CopyVersion(t)
                \/ Copied(t) /\ snap' = snap
  <2> USE <1>0, <1>5 DEF TypeOK, Goto, copyVars, cellVars, historyVars
  <2>1. \/ CopyVersion(t) \/ Compare(t) \/ ReadRecord(t) \/ Lock(t) \/ DeleteFinds(t)
    <3> USE DEF Copied, Found
    <3>1. ~ \E o \in Call : Begin(t, o)
      BY DEF Begin
    <3>2. ~(CopyTags(t) \/ Miss(t) \/ DeleteRetry(t) \/ NoSlot(t))
      BY DEF CopyTags, Miss, DeleteRetry, NoSlot
    <3>3. ~CheckVersion(t)
      BY DEF CheckVersion
    <3>4. ~Return(t)
      BY DEF Return
    <3>5. ~(StoreKey(t) \/ StoreEntry(t) \/ StoreTag(t))
      BY DEF StoreKey, StoreEntry, StoreTag
    <3>6. ~(StoreVersion(t) \/ Erase(t))
      BY DEF StoreVersion, Erase
    <3> QED
      BY <3>1, <3>2, <3>3, <3>4, <3>5, <3>6 DEF Step, Looks
  <2>2. Looks(t)
    BY <2>1 DEF Looks
  <2>3. ~Storing(t) /\ ~Storing(t)' /\ ver' = ver /\ h1' = h1 /\ entry' = entry
    BY <2>2, LooksOnly
  <2>4. \A i : Free(i)' <=> Free(i)
    <3>1. \A w \in Threads \ {t} : Same(w)
      BY OthersSame
    <3> QED
      BY <2>3, <3>1 DEF Free, Same, Storing
  <2>5. op' = op /\ had' = had
    BY <2>1 DEF CopyVersion, Compare, ReadRecord, Lock, DeleteFinds
  <2>6. CopyVersion(t) \/ (Copied(t) /\ snap' = snap)
    BY <2>1 DEF Compare, ReadRecord, Lock, DeleteFinds, Copied, Found
  <2> QED
    BY <2>3, <2>4, <2>5, <2>6
<1>6. ASSUME Copied(t)', ~Outdated(t)',
             NEW i \in ValidBitSet(snap[t])', Free(i)', h1'[i] = op'[t].key
      PROVE  entry'[i] \in had'[t]
  <2>1. CASE CopyVersion(t)
    <3>1. i \in Holding(ver, op[t].key)
      <4>1. snap'[t] = ver /\ h1' = h1 /\ op' = op
        BY <1>0, <2>1 DEF CopyVersion, cellVars, TypeOK
      <4> QED
        BY <1>6, <4>1 DEF Holding, ValidBitSet
    <3>2. Current(op[t].key) = entry[i]
      BY <1>0, <3>1, CurrentIs
    <3>3. Current(op[t].key) \in had[t]
      BY <2>1 DEF CopyVersion, ReaderInv, HadInv, HadOf
    <3> QED
      BY <1>5, <1>6, <3>2, <3>3
  <2>2. CASE Copied(t) /\ snap' = snap
    <3>1. ~Outdated(t) /\ i \in ValidBitSet(snap[t]) /\ Free(i) /\ h1[i] = op[t].key
      BY <1>5, <1>6, <2>2 DEF Outdated, ValidBitSet
    <3>2. entry[i] \in had[t]
      BY <2>2, <3>1 DEF ReaderInv, HadInv, HadOf
    <3> QED
      BY <1>5, <1>6, <3>2
  <2> QED
    BY <1>5, <1>6, <2>1, <2>2
<1>7. ASSUME pc'[t] = "check", ~Outdated(t)', Free(at[t])'
      PROVE  got'[t] \in had'[t]
  <2>1. ReadRecord(t)
    <3> USE <1>0, <1>7 DEF TypeOK, Goto, copyVars, cellVars, historyVars
    <3>1. ~ \E o \in Call : Begin(t, o)
      BY DEF Begin
    <3>2. ~(CopyTags(t) \/ CopyVersion(t) \/ Miss(t))
      BY DEF CopyTags, CopyVersion, Miss
    <3>3. ~CheckVersion(t) /\ ~Compare(t)
      BY DEF CheckVersion, Compare
    <3>4. ~(Lock(t) \/ DeleteFinds(t) \/ DeleteRetry(t) \/ NoSlot(t) \/ Return(t))
      BY DEF Lock, DeleteFinds, DeleteRetry, NoSlot, Return
    <3>5. ~(StoreKey(t) \/ StoreEntry(t) \/ StoreTag(t))
      BY DEF StoreKey, StoreEntry, StoreTag
    <3>6. ~(StoreVersion(t) \/ Erase(t))
      BY DEF StoreVersion, Erase
    <3> QED
      BY <3>1, <3>2, <3>3, <3>4, <3>5, <3>6 DEF Step, Looks
  <2>2. /\ Found(t) /\ got'[t] = entry[at[t]] /\ at' = at /\ had' = had
        /\ snap' = snap /\ ver' = ver
    BY <1>0, <2>1 DEF ReadRecord, Found, copyVars, cellVars, historyVars, TypeOK
  <2>3. ~Outdated(t) /\ Free(at[t])
    <3>1. \A i : Free(i)' <=> Free(i)
      BY <1>5, <1>7 DEF Copied, Found
    <3>2. PICK i : i = at[t]
      OBVIOUS
    <3>3. Free(i)'
      BY <1>7, <2>2, <3>2 DEF Free
    <3> QED
      BY <1>7, <2>2, <3>1, <3>2, <3>3 DEF Outdated
  <2>4. h1[at[t]] = op[t].key
    BY <2>2, <2>3 DEF ReaderInv, FoundInv, FoundOf
  <2>5. at[t] \in ValidBitSet(snap[t])
    BY <2>2 DEF ReaderInv, CopyInv, CopyOf, Copied
  <2>6. entry[at[t]] \in had[t]
    BY <2>2, <2>3, <2>4, <2>5 DEF ReaderInv, HadInv, HadOf, Copied
  <2> QED
    BY <2>2, <2>6
<1>8. ASSUME NEW u \in Threads
      PROVE  HadOf(u)'
  BY <1>1, <1>3, <1>4, <1>6, <1>7 DEF HadOf
<1> QED
  BY <1>8 DEF HadInv

-----------------------------------------------------------------------------
LEMMA InitInv == Init => IInv
<1> SUFFICES ASSUME Init
             PROVE  IInv
  OBVIOUS
<1> USE DEF Init
<1>1. \A t \in Threads : pc[t] = "idle"
  OBVIOUS
<1>2. ValidBitSet(ver) = {}
  BY DEF NoVersion, ValidBitSet
<1>3. TypeOK
  BY DEF TypeOK, Phase, NoVersion, Version, NoTags
<1>4. OpInv /\ StoreInv /\ CellInv
  BY <1>1, <1>2 DEF OpInv, OpOf, StoreInv, StoreOf, CellInv, Storing
<1>5. ReaderInv
  BY <1>1 DEF ReaderInv, CopyInv, CopyOf, FoundInv, FoundOf, HadInv, HadOf, Copied, Found
<1> QED
  BY <1>3, <1>4, <1>5 DEF IInv, WriterInv

LEMMA NextInv == IInv /\ [Next]_vars => IInv'
<1> SUFFICES ASSUME IInv, [Next]_vars
             PROVE  IInv'
  OBVIOUS
<1>1. CASE Next
  <2>1. PICK t \in Threads : Step(t)
    BY <1>1, NextStep
  <2>2. OpInv'
    BY <2>1, OpStep DEF IInv, WriterInv
  <2> QED
    BY <2>1, <2>2, TypeStep, CellStep, StoreStep, CopyStep, FoundStep, HadStep
       DEF IInv, WriterInv, ReaderInv
<1>2. CASE UNCHANGED vars
  <2> USE <1>2 DEF vars, cellVars, copyVars, historyVars
  <2>1. TypeOK'
    BY DEF IInv, WriterInv, TypeOK
  <2>2. OpInv' /\ CellInv' /\ StoreInv'
    BY DEF IInv, WriterInv, OpInv, OpOf, CellInv, StoreInv, StoreOf, Storing, Holding,
           ValidBitSet
  <2>3. CopyInv' /\ FoundInv'
    BY DEF IInv, ReaderInv, CopyInv, CopyOf, FoundInv, FoundOf, Copied, Found, Free,
           Storing, Outdated, ValidBitSet
  <2>4. HadInv'
    BY DEF IInv, ReaderInv, HadInv, HadOf, Copied, Found, Free, Storing, Outdated,
           Current, Holding, ValidBitSet
  <2> QED
    BY <2>1, <2>2, <2>3, <2>4 DEF IInv, WriterInv, ReaderInv
<1> QED
  BY <1>1, <1>2

LEMMA Invariant == Spec => []IInv
  BY InitInv, NextInv, PTL DEF Spec

(* Every variable keeps its type, whatever the threads do.                  *)
THEOREM TypeCorrect == Spec => []TypeOK
<1>1. IInv => TypeOK
  BY DEF IInv, WriterInv
<1> QED
  BY <1>1, Invariant, PTL

(* What a search has read when it checks the version is a value its key had *)
(* during the call, unless the version shows two writes or somebody is      *)
(* storing.                                                                 *)
THEOREM CheckedReads == Spec => []CheckedReadIsRight
<1>1. IInv => CheckedReadIsRight
  <2> SUFFICES ASSUME IInv, NEW t \in Threads, pc[t] = "check", ~Outdated(t),
                      \A u \in Threads : ~Storing(u)
               PROVE  got[t] \in had[t]
    BY DEF CheckedReadIsRight
  <2>1. Free(at[t])
    BY DEF Free
  <2> QED
    BY <2>1 DEF IInv, ReaderInv, HadInv, HadOf
<1> QED
  BY <1>1, Invariant, PTL

(* A Delete that marks a slot marks one that has its key.                   *)
THEOREM ErasesItsKey == Spec => []EraseHitsKey
<1>1. IInv => EraseHitsKey
  <2> SUFFICES ASSUME IInv, NEW t \in Threads, pc[t] = "erase"
               PROVE  h1[at[t]] = op[t].key
    BY DEF EraseHitsKey
  <2>1. Found(t) /\ ~Outdated(t) /\ Free(at[t])
    BY DEF Found, Free, IInv, WriterInv, OpInv, OpOf, ReaderInv, CopyInv, CopyOf,
           Copied, Storing
  <2> QED
    BY <2>1 DEF IInv, ReaderInv, FoundInv, FoundOf
<1> QED
  BY <1>1, Invariant, PTL

-----------------------------------------------------------------------------
(* A search that nobody disturbs                                            *)

(* What another thread does leaves the slots of the key alone.              *)
LEMMA KeyKept ==
  ASSUME IInv, NEW t \in Threads, Step(t), NEW k, ~Writes(op[t], k)
  PROVE  /\ Holding(ver, k)' = Holding(ver, k)
         /\ Current(k)' = Current(k)
         /\ \A i \in Slots : h1'[i] = k => h1[i] = k
<1> USE DEF IInv, WriterInv
<1>1. CASE StoreVersion(t) \/ Erase(t)
  <2>1. op[t].kind \in {"put", "delete"}
    BY <1>1 DEF StoreVersion, Erase, OpInv, OpOf, Storing
  <2>2. k # op[t].key
    BY <2>1 DEF Writes
  <2>3. h1' = h1
    BY <1>1, VersionStored, Erased
  <2> QED
    BY <1>1, <2>2, <2>3, PublishedHolding
<1>2. CASE ~StoreVersion(t) /\ ~Erase(t)
  <2>1. Holding(ver, k)' = Holding(ver, k) /\ Current(k)' = Current(k)
    BY <1>2, HoldingKept
  <2>2. ASSUME NEW i \in Slots, h1'[i] = k
        PROVE  h1[i] = k
    <3>1. CASE StoreKey(t)
      <4>1. h1' = [h1 EXCEPT ![at'[t]] = op[t].key] /\ op[t].kind = "put"
        BY <3>1, KeyStored
      <4>2. k # op[t].key
        BY <4>1 DEF Writes
      <4> QED
        BY <2>2, <4>1, <4>2 DEF TypeOK
    <3>2. CASE ~StoreKey(t)
      <4>1. h1' = h1
        BY <1>2, <3>2, LooksOnly DEF Step, StoreEntry, StoreTag
      <4> QED
        BY <2>2, <4>1
    <3> QED
      BY <3>1, <3>2
  <2> QED
    BY <2>1, <2>2
<1> QED
  BY <1>1, <1>2

LEMMA QuietOthers ==
  ASSUME IInv, QuietInv, NEW t \in Threads, Step(t), NEW u \in Threads \ {t}
  PROVE  QuietOf(u)'
<1> SUFFICES ASSUME Quiet(u)'
             PROVE  QuietOf(u)'
  BY DEF QuietOf
<1> USE DEF IInv, WriterInv
<1>1. Same(u)
  BY OthersSame
<1>2. ~disturbed[u] /\ \A o \in Call : Begin(t, o) => ~Writes(o, op[u].key)
  <2>1. ~disturbed'[u]
    BY DEF Quiet
  <2>2. CASE \E o \in Call : Begin(t, o)
    BY <2>1, <2>2 DEF Begin, Writes, TypeOK
  <2>3. CASE ~ \E o \in Call : Begin(t, o)
    <3>1. CASE Return(t)
      BY <2>1, <2>3, <3>1 DEF Return, TypeOK
    <3>2. CASE ~Return(t)
      <4>1. disturbed' = disturbed
        BY <2>3, <3>2
           DEF Step, Looks, CopyTags, CopyVersion, Compare, Miss, ReadRecord,
               CheckVersion, Lock, DeleteRetry, DeleteFinds, NoSlot, StoreKey,
               StoreEntry, StoreTag, StoreVersion, Erase, historyVars
      <4> QED
        BY <2>1, <2>3, <4>1
    <3> QED
      BY <3>1, <3>2
  <2> QED
    BY <2>2, <2>3
<1>3. Quiet(u) /\ QuietOf(u)
  BY <1>1, <1>2 DEF Quiet, QuietInv, Same
<1>4. PICK k : k = op[u].key
  OBVIOUS
<1>5. k \in Keys
  BY <1>3, <1>4 DEF Quiet, OpInv, OpOf, Call
<1>6. \A w \in Threads \ {u} : ~Writes(op'[w], k)
  <2>1. ASSUME NEW w \in Threads \ {u}, w # t
        PROVE  ~Writes(op'[w], k)
    <3>1. Same(w)
      BY <2>1, OthersSame
    <3> QED
      BY <3>1, <1>3, <1>4 DEF Same, QuietOf
  <2>2. ~Writes(op'[t], k)
    <3>1. CASE \E o \in Call : Begin(t, o)
      <4>1. PICK o \in Call : Begin(t, o)
        BY <3>1
      <4>2. op'[t] = o
        BY <4>1 DEF Begin, TypeOK
      <4> QED
        BY <1>2, <1>4, <4>1, <4>2
    <3>2. CASE Return(t)
      <4>1. op'[t] = NoOp
        BY <3>2 DEF Return, TypeOK
      <4> QED
        BY <4>1, <1>5, NoneAssumption DEF NoOp, Writes
    <3>3. CASE ~Return(t) /\ ~ \E o \in Call : Begin(t, o)
      <4>1. op' = op
        BY <3>3
           DEF Step, Looks, CopyTags, CopyVersion, Compare, Miss, ReadRecord,
               CheckVersion, Lock, DeleteRetry, DeleteFinds, NoSlot, StoreKey,
               StoreEntry, StoreTag, StoreVersion, Erase
      <4> QED
        BY <4>1, <1>3, <1>4 DEF QuietOf
    <3> QED
      BY <3>1, <3>2, <3>3
  <2> QED
    BY <2>1, <2>2
<1>7. ~Writes(op[t], k)
  BY <1>3, <1>4 DEF QuietOf
<1>8. /\ Holding(ver, k)' = Holding(ver, k) /\ Current(k)' = Current(k)
      /\ \A i \in Slots : h1'[i] = k => h1[i] = k
  BY <1>7, KeyKept
<1>9. /\ Holding(ver, op[u].key)' = Holding(ver, k)
      /\ Current(op[u].key)' = Current(k)
  BY <1>1, <1>4, <1>8 DEF Same, Holding, Current
<1>10. had[u] = {Current(k)} => had'[u] = {Current(k)}
  <2>1. CASE StoreVersion(t) \/ Erase(t)
    <3>1. had'[u] = had[u] \cup {Current(op[u].key)'}
      BY <2>1, <1>3 DEF StoreVersion, Erase, Seen, Quiet
    <3> QED
      BY <3>1, <1>9
  <2>2. CASE ~StoreVersion(t) /\ ~Erase(t)
    <3>1. had'[u] = had[u]
      <4>1. CASE \E o \in Call : Begin(t, o)
        BY <4>1 DEF Begin, TypeOK
      <4>2. CASE Return(t)
        BY <4>2 DEF Return, TypeOK
      <4>3. CASE ~Return(t) /\ ~ \E o \in Call : Begin(t, o)
        BY <2>2, <4>3
           DEF Step, Looks, CopyTags, CopyVersion, Compare, Miss, ReadRecord,
               CheckVersion, Lock, DeleteRetry, DeleteFinds, NoSlot,
               StoreKey, StoreEntry, StoreTag, historyVars
      <4> QED
        BY <4>1, <4>2, <4>3
    <3> QED
      BY <3>1
  <2> QED
    BY <2>1, <2>2
<1>11. ASSUME pc[u] = "compare", NEW i \in ValidBitSet(snap[u]), h1'[i] = k
       PROVE  i \in ValidBitSet(ver)'
  <2>1. i \in Slots
    BY ValidSlots
  <2>2. h1[i] = k
    BY <1>8, <1>11, <2>1
  <2>3. i \in Holding(ver, k)
    BY <1>3, <1>4, <1>11, <2>2 DEF QuietOf, Holding
  <2>4. i \in Holding(ver, k)'
    BY <1>8, <2>3
  <2> QED
    BY <2>4 DEF Holding
<1>12. ValidBitSet(snap[u])' = ValidBitSet(snap[u]) /\ (Found(u)' <=> Found(u))
  BY <1>1 DEF Same, ValidBitSet, Found
<1> QED
  BY <1>1, <1>3, <1>4, <1>6, <1>9, <1>10, <1>11, <1>12 DEF QuietOf, Same

LEMMA QuietSelf ==
  ASSUME IInv, IInv', QuietInv, NEW t \in Threads, Step(t)
  PROVE  QuietOf(t)'
<1> SUFFICES ASSUME Quiet(t)'
             PROVE  QuietOf(t)'
  BY DEF QuietOf
<1>0. TypeOK /\ WriterInv /\ OpInv /\ CellInv
  BY DEF IInv, WriterInv
<1>1. CASE \E o \in Call : Begin(t, o)
  <2>1. PICK o \in Call : Begin(t, o)
    BY <1>1
  <2>2. /\ op'[t] = o /\ had'[t] = {Current(o.key)}
        /\ pc'[t] \in {"lock", "tags"} /\ (pc'[t] = "lock" => o.kind = "put")
        /\ disturbed'[t] = \E w \in Threads \ {t} : Writes(op[w], o.key)
        /\ UNCHANGED <<ver, h1, entry>>
    BY <1>0, <2>1 DEF Begin, TypeOK, Goto, cellVars
  <2>3. o.kind # "put" /\ \A w \in Threads \ {t} : ~Writes(op[w], o.key)
    BY <2>2 DEF Quiet
  <2>4. \A w \in Threads \ {t} : op'[w] = op[w]
    BY <1>0, <2>1 DEF Begin, TypeOK
  <2>5. Current(op[t].key)' = Current(o.key)
    BY <2>2 DEF Current, Holding, ValidBitSet
  <2> QED
    BY <2>2, <2>3, <2>4, <2>5 DEF QuietOf, Found
<1>2. ASSUME ~ \E o \in Call : Begin(t, o)
      PROVE  /\ ~Return(t) /\ op' = op /\ disturbed' = disturbed
             /\ Quiet(t) /\ QuietOf(t)
             /\ ~StoreKey(t) /\ ~StoreEntry(t) /\ ~StoreTag(t) /\ ~StoreVersion(t)
  <2>1. ~Return(t)
    BY <1>0 DEF Return, Quiet, Goto, TypeOK
  <2>2. op' = op /\ disturbed' = disturbed /\ pc[t] # "idle"
    BY <1>2, <2>1
       DEF Step, Looks, CopyTags, CopyVersion, Compare, Miss, ReadRecord,
           CheckVersion, Lock, DeleteRetry, DeleteFinds, NoSlot, StoreKey,
           StoreEntry, StoreTag, StoreVersion, Erase, historyVars
  <2>3. Quiet(t)
    BY <2>2 DEF Quiet
  <2>4. ~StoreKey(t) /\ ~StoreEntry(t) /\ ~StoreTag(t) /\ ~StoreVersion(t)
    BY <1>0, <2>3
       DEF Quiet, StoreKey, StoreEntry, StoreTag, StoreVersion, OpInv, OpOf, Storing
  <2> QED
    BY <2>1, <2>2, <2>3, <2>4 DEF QuietInv
<1>3. CASE Erase(t)
  <2>1. ~ \E o \in Call : Begin(t, o)
    BY <1>3 DEF Erase, Begin
  <2>2. pc'[t] = "hit" /\ op[t].kind = "delete" /\ op' = op /\ QuietOf(t) /\ Quiet(t)
    BY <1>0, <1>2, <1>3, <2>1, Erased DEF OpInv, OpOf
  <2> QED
    BY <2>2 DEF QuietOf, Found
<1>4. CASE Looks(t) /\ ~ \E o \in Call : Begin(t, o)
  <2> DEFINE k == op[t].key
  <2>1. /\ op' = op /\ Quiet(t) /\ QuietOf(t) /\ ~Return(t)
        /\ UNCHANGED <<ver, h1, entry, tag>>
    BY <1>0, <1>2, <1>4, LooksOnly
  <2>2. had' = had
    BY <1>4, <2>1
       DEF Looks, CopyTags, CopyVersion, Compare, Miss, ReadRecord, CheckVersion,
           Lock, DeleteRetry, DeleteFinds, NoSlot, historyVars
  <2>3. /\ Holding(ver, op[t].key)' = Holding(ver, k)
        /\ Current(op[t].key)' = Current(k)
        /\ ValidBitSet(ver)' = ValidBitSet(ver)
    BY <2>1 DEF Holding, Current, ValidBitSet
  <2>4. /\ \A w \in Threads \ {t} : ~Writes(op'[w], op'[t].key)
        /\ pc[t] # "hit" => had'[t] = {Current(k)}
    BY <2>1, <2>2 DEF QuietOf
  <2>5. Quiet(t) /\ QuietOf(t) /\ pc[t] # "hit"
    BY <1>4, <2>1
       DEF Looks, CopyTags, CopyVersion, Compare, Miss, ReadRecord, CheckVersion,
           Lock, DeleteRetry, DeleteFinds, NoSlot
  <2>6. CASE CopyTags(t)
    <3>1. pc'[t] = "version" /\ tags'[t] = tag
      BY <1>0, <2>6 DEF CopyTags, Goto, TypeOK
    <3>2. \A i \in Holding(ver, k) : tag[i] = H2[k]
      BY <1>0 DEF CellInv, Holding
    <3> QED
      BY <2>1, <2>3, <2>4, <2>5, <3>1, <3>2 DEF QuietOf, Found
  <2>7. CASE CopyVersion(t)
    <3>1. /\ pc'[t] = "compare" /\ tags' = tags /\ snap'[t] = ver /\ pc[t] = "version"
          /\ left'[t] = {i \in ValidBitSet(ver) : tags[t][i] = H2[k]}
      BY <1>0, <2>7 DEF CopyVersion, Goto, TypeOK
    <3>2. \A i \in Holding(ver, k) : tags[t][i] = H2[k]
      BY <2>5, <3>1 DEF QuietOf
    <3>3. Holding(ver, k) \subseteq left'[t] /\ ValidBitSet(snap[t])' = ValidBitSet(ver)
      BY <3>1, <3>2 DEF Holding, ValidBitSet
    <3> QED
      BY <2>1, <2>3, <2>4, <2>5, <3>1, <3>2, <3>3 DEF QuietOf, Found
  <2>8. CASE Compare(t)
    <3>1. /\ pc[t] = "compare" /\ tags' = tags /\ snap' = snap
          /\ left[t] \subseteq ValidBitSet(snap[t])
          /\ Holding(ver, k) \subseteq left[t]
          /\ \A i \in ValidBitSet(snap[t]) : h1[i] = k => i \in ValidBitSet(ver)
          /\ \A i \in Holding(ver, k) : tags[t][i] = H2[k]
      BY <2>5, <2>8 DEF Compare, QuietOf, IInv, ReaderInv, CopyInv, CopyOf, Copied
    <3>2. PICK i \in left[t] :
            \/ h1[i] = k /\ at'[t] = i /\ pc'[t] \in {"read", "lock"}
            \/ h1[i] # k /\ left'[t] = left[t] \ {i} /\ pc'[t] = "compare"
      BY <1>0, <2>8 DEF Compare, Lowest, Goto, TypeOK
    <3>3. CASE h1[i] = k /\ at'[t] = i /\ pc'[t] \in {"read", "lock"}
      <4>1. i \in Holding(ver, k)
        BY <3>1, <3>2, <3>3 DEF Holding
      <4> QED
        BY <2>1, <2>3, <2>4, <2>5, <3>3, <4>1 DEF QuietOf
    <3>4. CASE h1[i] # k /\ left'[t] = left[t] \ {i} /\ pc'[t] = "compare"
      <4>1. Holding(ver, k) \subseteq left'[t]
        BY <3>1, <3>4 DEF Holding
      <4>2. ValidBitSet(snap[t])' = ValidBitSet(snap[t])
        BY <3>1 DEF ValidBitSet
      <4> QED
        BY <2>1, <2>3, <2>4, <2>5, <3>1, <3>4, <4>1, <4>2 DEF QuietOf, Found
    <3> QED
      BY <3>2, <3>3, <3>4
  <2>9. CASE Miss(t)
    <3>1. Holding(ver, k) = {} /\ pc'[t] = "missed"
      BY <1>0, <2>5, <2>9 DEF Miss, Goto, TypeOK, QuietOf
    <3> QED
      BY <2>1, <2>3, <2>4, <2>5, <3>1 DEF QuietOf, Found
  <2>10. CASE ReadRecord(t)
    <3>1. /\ at[t] \in Holding(ver, k) /\ at' = at
          /\ pc'[t] = "check" /\ got'[t] = entry[at[t]]
      BY <1>0, <2>5, <2>10 DEF ReadRecord, Goto, TypeOK, QuietOf, Found
    <3>2. got'[t] = Current(k)
      BY <1>0, <3>1, CurrentIs
    <3> QED
      BY <2>1, <2>3, <2>4, <2>5, <3>1, <3>2 DEF QuietOf
  <2>11. CASE CheckVersion(t)
    <3>1. pc'[t] \in {"tags", "hit"} /\ got' = got /\ got[t] = Current(k)
      BY <1>0, <2>5, <2>11 DEF CheckVersion, Goto, TypeOK, QuietOf
    <3> QED
      BY <2>1, <2>3, <2>4, <2>5, <3>1 DEF QuietOf, Found
  <2>12. CASE Lock(t) \/ DeleteRetry(t) \/ DeleteFinds(t) \/ NoSlot(t)
    <3>1. op[t].kind \in {"find", "delete"}
      BY <1>0, <2>1 DEF Quiet, OpInv, OpOf, Call
    <3>2. /\ pc'[t] \in {"tags", "locked", "erase", "done"} /\ at' = at
          /\ pc[t] \in {"lock", "locked"}
      BY <1>0, <2>12 DEF Lock, DeleteRetry, DeleteFinds, NoSlot, Goto, TypeOK
    <3>3. Found(t)' => Found(t)
      BY <2>1, <3>1, <3>2 DEF Found
    <3> QED
      BY <2>1, <2>3, <2>4, <2>5, <3>2, <3>3 DEF QuietOf
  <2> QED
    BY <1>4, <2>1, <2>6, <2>7, <2>8, <2>9, <2>10, <2>11, <2>12 DEF Looks
<1> QED
  BY <1>1, <1>2, <1>3, <1>4 DEF Step

LEMMA QuietInit == Init => QuietInv
  BY DEF Init, QuietInv, QuietOf, Quiet

LEMMA QuietStep == IInv /\ IInv' /\ QuietInv /\ [Next]_vars => QuietInv'
<1> SUFFICES ASSUME IInv, IInv', QuietInv, [Next]_vars
             PROVE  QuietInv'
  OBVIOUS
<1>1. CASE Next
  <2>1. PICK t \in Threads : Step(t)
    BY <1>1, NextStep
  <2> QED
    BY <2>1, QuietSelf, QuietOthers DEF QuietInv
<1>2. CASE UNCHANGED vars
  <2> USE <1>2 DEF vars, cellVars, copyVars, historyVars
  <2> SUFFICES ASSUME NEW t \in Threads, Quiet(t)'
               PROVE  QuietOf(t)'
    BY DEF QuietInv, QuietOf
  <2>2. Quiet(t) /\ QuietOf(t) /\ (Found(t)' <=> Found(t))
    BY DEF QuietInv, Quiet, Found
  <2>3. /\ Holding(ver, op[t].key)' = Holding(ver, op[t].key)
        /\ Current(op[t].key)' = Current(op[t].key)
        /\ ValidBitSet(ver)' = ValidBitSet(ver)
        /\ ValidBitSet(snap[t])' = ValidBitSet(snap[t])
    BY DEF Holding, Current, ValidBitSet
  <2> QED
    BY <2>2, <2>3 DEF QuietOf
<1> QED
  BY <1>1, <1>2

(* A search whose key nobody else puts or deletes meanwhile gets what the   *)
(* key has, whatever others do to the other slots of the cell.              *)
THEOREM OthersHarmless == Spec => []OthersDoNotDisturb
<1>1. IInv /\ QuietInv => OthersDoNotDisturb
  <2> SUFFICES ASSUME IInv, QuietInv, NEW t \in Threads, ~disturbed[t]
               PROVE  /\ pc[t] = "missed" => had[t] = {Absent}
                      /\ pc[t] = "hit" /\ op[t].kind = "find" => had[t] = {got[t]}
                      /\ pc[t] = "erase" => at[t] \in Holding(ver, op[t].key)
    BY DEF OthersDoNotDisturb
  <2>1. pc[t] \in {"missed", "hit", "erase"} => Quiet(t)
    BY DEF Quiet, IInv, WriterInv, OpInv, OpOf
  <2>2. pc[t] = "missed" => had[t] = {Absent}
    BY <2>1 DEF QuietInv, QuietOf, Current
  <2>3. pc[t] = "hit" /\ op[t].kind = "find" => had[t] = {got[t]}
    BY <2>1 DEF QuietInv, QuietOf
  <2>4. pc[t] = "erase" => at[t] \in Holding(ver, op[t].key)
    BY <2>1 DEF QuietInv, QuietOf, Found, IInv, WriterInv, OpInv, OpOf
  <2> QED
    BY <2>2, <2>3, <2>4
<1> QED
  BY <1>1, Invariant, InitInv, QuietInit, QuietStep, PTL DEF Spec

=============================================================================
