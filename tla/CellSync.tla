------------------------------- MODULE CellSync -------------------------------
(***************************************************************************)
(* One cell of the DRAM table (turbo_hash.h) used by many threads at a     *)
(* time.  Put works under the bucket lock.  Find takes no lock: it copies  *)
(* the tags H2 and then the version word, compares the slots that match,   *)
(* reads the record and looks at the version again.  Delete searches in    *)
(* the same way and takes the lock when it has found the key.  Both        *)
(* tolerate one write since they copied the version.                       *)
(*                                                                         *)
(* Keys and values are flat: a slot is two words, and no record is         *)
(* allocated.  The bucket is a single cell that is not rehashed.           *)
(***************************************************************************)
EXTENDS TurboCell

CONSTANTS
  Threads,
  H2,       \* the tag of every key
  MaxSeq,   \* bound on the writes
  Absent,   \* the value of a key that is not there
  None      \* no key, no thread, no tag

ASSUME TagAssumption == H2 \in [Keys -> Nat]
ASSUME BoundAssumption == MaxSeq \in Nat
ASSUME AbsentAssumption == Absent \notin Values
ASSUME NoneAssumption == None \notin Threads \cup Keys \cup Values \cup Slots \cup {Absent}

VARIABLES
  ver,       \* the version word: both bitmaps and the sequence number
  h1, entry, \* the two words of every slot
  tag,       \* the tag beside them
  lock,      \* the holder of the bucket lock
  pc,
  op,        \* the operation a thread is in
  tags,      \* the tags it has copied
  snap,      \* the version word it has copied
  left,      \* the matching slots it has not compared yet
  at,        \* the slot it has found or writes
  old,       \* the slot an update frees
  got,       \* the value a Find has read
  had,       \* history: the values of the key since the operation began
  disturbed  \* history: another thread was putting or deleting the key meanwhile

cellVars == <<ver, h1, entry, tag>>
copyVars == <<tags, snap, left>>
historyVars == <<had, disturbed>>
vars == <<cellVars, lock, pc, op, copyVars, at, old, got, historyVars>>

Version == [bitmap : SUBSET Slots, deleted : SUBSET Slots, seq_no_ : Nat]
NoVersion == [bitmap |-> {}, deleted |-> {}, seq_no_ |-> 0]
NoTags == [i \in Slots |-> None]
NoOp == [kind |-> None, key |-> None, val |-> None]

Init ==
  /\ ver = NoVersion
  /\ h1 = [i \in Slots |-> None]
  /\ entry = [i \in Slots |-> None]
  /\ tag = NoTags
  /\ lock = None
  /\ pc = [t \in Threads |-> "idle"]
  /\ op = [t \in Threads |-> NoOp]
  /\ tags = [t \in Threads |-> NoTags]
  /\ snap = [t \in Threads |-> NoVersion]
  /\ left = [t \in Threads |-> {}]
  /\ at = [t \in Threads |-> None]
  /\ old = [t \in Threads |-> None]
  /\ got = [t \in Threads |-> None]
  /\ had = [t \in Threads |-> {}]
  /\ disturbed = [t \in Threads |-> FALSE]

Goto(t, to) == pc' = [pc EXCEPT ![t] = to]

(* The value of a key in the slots that a version word declares valid.      *)
Holding(v, k) == {i \in ValidBitSet(v) : h1[i] = k}
Current(k) ==
  IF Holding(ver, k) = {} THEN Absent ELSE entry[CHOOSE i \in Holding(ver, k) : TRUE]

-----------------------------------------------------------------------------
(* A call begins and ends                                                   *)

Writes(o, k) == o.key = k /\ o.kind \in {"put", "delete"}

Begin(t, o) ==
  /\ pc[t] = "idle"
  /\ op' = [op EXCEPT ![t] = o]
  /\ Goto(t, IF o.kind = "put" THEN "lock" ELSE "tags")
  /\ had' = [had EXCEPT ![t] = {Current(o.key)}]
  /\ disturbed' =
       [u \in Threads |->
          IF u = t THEN \E w \in Threads \ {t} : Writes(op[w], o.key)
          ELSE disturbed[u] \/ (op[u].key = o.key /\ Writes(o, o.key))]
  /\ UNCHANGED <<cellVars, lock, copyVars, at, old, got>>

(* What a thread has kept of a call is gone after it.                       *)
Return(t) ==
  /\ pc[t] \in {"hit", "missed", "done"}
  /\ Goto(t, "idle")
  /\ op' = [op EXCEPT ![t] = NoOp]
  /\ tags' = [tags EXCEPT ![t] = NoTags]
  /\ snap' = [snap EXCEPT ![t] = NoVersion]
  /\ left' = [left EXCEPT ![t] = {}]
  /\ at' = [at EXCEPT ![t] = None]
  /\ old' = [old EXCEPT ![t] = None]
  /\ got' = [got EXCEPT ![t] = None]
  /\ had' = [had EXCEPT ![t] = {}]
  /\ disturbed' = [disturbed EXCEPT ![t] = FALSE]
  /\ UNCHANGED <<cellVars, lock>>

-----------------------------------------------------------------------------
(* The search of findSlot and deleteSlot                                    *)

(* The members of CellMeta128 are initialized in this order: the tags       *)
CopyTags(t) ==
  /\ pc[t] = "tags"
  /\ tags' = [tags EXCEPT ![t] = tag]
  /\ Goto(t, "version")
  /\ UNCHANGED <<cellVars, lock, op, snap, left, at, old, got, historyVars>>

(* and then the version.                                                    *)
CopyVersion(t) ==
  /\ pc[t] = "version"
  /\ snap' = [snap EXCEPT ![t] = ver]
  /\ left' = [left EXCEPT ![t] = {i \in ValidBitSet(ver) : tags[t][i] = H2[op[t].key]}]
  /\ Goto(t, "compare")
  /\ UNCHANGED <<cellVars, lock, op, tags, at, old, got, historyVars>>

(* Faulty: equal tags are taken for equal keys.                             *)
CompareTagOnly(t) ==
  /\ pc[t] = "compare"
  /\ \E i \in Slots :
       /\ Lowest(i, left[t])
       /\ at' = [at EXCEPT ![t] = i]
       /\ Goto(t, IF op[t].kind = "find" THEN "read" ELSE "lock")
  /\ UNCHANGED <<cellVars, lock, op, copyVars, old, got, historyVars>>

Compare(t) ==
  /\ pc[t] = "compare"
  /\ \E i \in Slots :
       /\ Lowest(i, left[t])
       /\ \/ /\ h1[i] = op[t].key
             /\ at' = [at EXCEPT ![t] = i]
             /\ Goto(t, IF op[t].kind = "find" THEN "read" ELSE "lock")
             /\ UNCHANGED left
          \/ /\ h1[i] # op[t].key
             /\ left' = [left EXCEPT ![t] = @ \ {i}]
             /\ UNCHANGED <<pc, at>>
  /\ UNCHANGED <<cellVars, lock, op, tags, snap, old, got, historyVars>>

(* No slot is left.  The version is not looked at again.                    *)
Miss(t) ==
  /\ pc[t] = "compare" /\ left[t] = {}
  /\ Goto(t, "missed")
  /\ UNCHANGED <<cellVars, lock, op, copyVars, at, old, got, historyVars>>

(* Faulty: reads the first word of the slot.                                *)
ReadRecordKey(t) ==
  /\ pc[t] = "read"
  /\ got' = [got EXCEPT ![t] = h1[at[t]]]
  /\ Goto(t, "check")
  /\ UNCHANGED <<cellVars, lock, op, copyVars, at, old, historyVars>>

ReadRecord(t) ==
  /\ pc[t] = "read"
  /\ got' = [got EXCEPT ![t] = entry[at[t]]]
  /\ Goto(t, "check")
  /\ UNCHANGED <<cellVars, lock, op, copyVars, at, old, historyVars>>

(* Faulty: tolerates one write more.                                        *)
OutdatedByThree(t) == snap[t].seq_no_ + 2 < ver.seq_no_

(* At least two writes since the copy.                                      *)
Outdated(t) == snap[t].seq_no_ + 1 < ver.seq_no_

CheckVersion(t) ==
  /\ pc[t] = "check"
  /\ Goto(t, IF Outdated(t) THEN "tags" ELSE "hit")
  /\ UNCHANGED <<cellVars, lock, op, copyVars, at, old, got, historyVars>>

-----------------------------------------------------------------------------
(* Under the lock                                                           *)

Lock(t) ==
  /\ pc[t] = "lock" /\ lock = None
  /\ lock' = t
  /\ Goto(t, "locked")
  /\ UNCHANGED <<cellVars, op, copyVars, at, old, got, historyVars>>

Unlock == lock' = None

(* The new value of a key counts from the moment the version is stored.     *)
Seen == had' = [t \in Threads |->
                  IF pc[t] = "idle" THEN had[t] ELSE had[t] \cup {Current(op[t].key)'}]

DeleteRetry(t) ==
  /\ pc[t] = "locked" /\ op[t].kind = "delete"
  /\ Outdated(t)
  /\ Unlock
  /\ Goto(t, "tags")
  /\ UNCHANGED <<cellVars, op, copyVars, at, old, got, historyVars>>

(* Faulty: the version is not looked at again.                              *)
DeleteFindsUnchecked(t) ==
  /\ pc[t] = "locked" /\ op[t].kind = "delete"
  /\ Goto(t, "erase")
  /\ UNCHANGED <<cellVars, lock, op, copyVars, at, old, got, historyVars>>

(* A flat key is not compared again.                                        *)
DeleteFinds(t) ==
  /\ pc[t] = "locked" /\ op[t].kind = "delete"
  /\ ~Outdated(t)
  /\ Goto(t, "erase")
  /\ UNCHANGED <<cellVars, lock, op, copyVars, at, old, got, historyVars>>

Erase(t) ==
  /\ pc[t] = "erase" /\ ver.seq_no_ < MaxSeq
  /\ ver' = [ver EXCEPT !.deleted = @ \cup {at[t]}, !.seq_no_ = @ + 1]
  /\ Unlock
  /\ Goto(t, "hit")
  /\ UNCHANGED <<h1, entry, tag, op, copyVars, at, old, got, disturbed>>
  /\ Seen

(* findSlotForInsert, with the lock held.                                   *)
UpdateTarget1(k, i, o) == Lowest(o, Holding(ver, k)) /\ Lowest(i, BackupBitSet(ver))
InsertTarget1(k, i) ==
  /\ Holding(ver, k) = {}
  /\ \/ Lowest(i, EraseBitSet(ver))
     \/ EraseBitSet(ver) = {} /\ ~Full(ver) /\ Lowest(i, BackupBitSet(ver))

(* SlotRecord::Store, H1 first                                              *)
StoreKey(t) ==
  /\ pc[t] = "locked" /\ op[t].kind = "put" /\ ver.seq_no_ < MaxSeq
  /\ \E i \in Slots, o \in Slots \cup {None} :
       /\ \/ UpdateTarget1(op[t].key, i, o)
          \/ InsertTarget1(op[t].key, i) /\ o = None
       /\ at' = [at EXCEPT ![t] = i]
       /\ old' = [old EXCEPT ![t] = o]
       /\ h1' = [h1 EXCEPT ![i] = op[t].key]
  /\ Goto(t, "entry")
  /\ UNCHANGED <<ver, entry, tag, lock, op, copyVars, got, historyVars>>

StoreEntry(t) ==
  /\ pc[t] = "entry"
  /\ entry' = [entry EXCEPT ![at[t]] = op[t].val]
  /\ Goto(t, "tag")
  /\ UNCHANGED <<ver, h1, tag, lock, op, copyVars, at, old, got, historyVars>>

StoreTag(t) ==
  /\ pc[t] = "tag"
  /\ tag' = [tag EXCEPT ![at[t]] = H2[op[t].key]]
  /\ Goto(t, "publish")
  /\ UNCHANGED <<ver, h1, entry, lock, op, copyVars, at, old, got, historyVars>>

StoreVersion(t) ==
  /\ pc[t] = "publish"
  /\ ver' = [bitmap |-> IF old[t] = None THEN ver.bitmap \cup {at[t]}
                        ELSE Toggle(ver.bitmap \cup {at[t]}, old[t]),
             deleted |-> ver.deleted \ {at[t]},
             seq_no_ |-> ver.seq_no_ + 1]
  /\ Unlock
  /\ Goto(t, "done")
  /\ UNCHANGED <<h1, entry, tag, op, copyVars, at, old, got, disturbed>>
  /\ Seen

(* No slot: a rehash would follow, see TurboBucket.                         *)
NoSlot(t) ==
  /\ pc[t] = "locked" /\ op[t].kind = "put"
  /\ ~ \E i \in Slots : InsertTarget1(op[t].key, i)
  /\ Holding(ver, op[t].key) = {}
  /\ Unlock
  /\ Goto(t, "done")
  /\ UNCHANGED <<cellVars, op, copyVars, at, old, got, historyVars>>

Call == {[kind |-> "put", key |-> k, val |-> v] : k \in Keys, v \in Values}
          \cup {[kind |-> o, key |-> k, val |-> None] : o \in {"find", "delete"}, k \in Keys}

Next ==
  \E t \in Threads :
    \/ \E o \in Call : Begin(t, o)
    \/ CopyTags(t) \/ CopyVersion(t) \/ Compare(t) \/ Miss(t)
    \/ ReadRecord(t) \/ CheckVersion(t)
    \/ Lock(t) \/ DeleteRetry(t) \/ DeleteFinds(t) \/ Erase(t)
    \/ StoreKey(t) \/ StoreEntry(t) \/ StoreTag(t) \/ StoreVersion(t) \/ NoSlot(t)
    \/ Return(t)

Spec == Init /\ [][Next]_vars

-----------------------------------------------------------------------------
(* Properties                                                               *)

Phase == {"idle", "tags", "version", "compare", "read", "check", "hit", "missed",
          "lock", "locked", "erase", "entry", "tag", "publish", "done"}

TypeOK ==
  /\ ver \in Version
  /\ h1 \in [Slots -> Keys \cup {None}]
  /\ entry \in [Slots -> Values \cup {None}]
  /\ tag \in [Slots -> Nat \cup {None}]
  /\ lock \in Threads \cup {None}
  /\ pc \in [Threads -> Phase]
  /\ op \in [Threads -> Call \cup {NoOp}]
  /\ tags \in [Threads -> [Slots -> Nat \cup {None}]]
  /\ snap \in [Threads -> Version]
  /\ left \in [Threads -> SUBSET Slots]
  /\ at \in [Threads -> Slots \cup {None}]
  /\ old \in [Threads -> Slots \cup {None}]
  /\ got \in [Threads -> Values \cup {None}]
  /\ had \in [Threads -> SUBSET (Values \cup {Absent})]
  /\ disturbed \in [Threads -> BOOLEAN]

Storing(t) == pc[t] \in {"entry", "tag", "publish"}

(* What a Find has read is a value that its key had during the call, if the *)
(* version it checks is at most one write ahead and nobody is storing into  *)
(* the cell at that moment.  (A second write may be storing into the very   *)
(* slot, and that one the sequence number does not show yet.)               *)
CheckedReadIsRight ==
  \A t \in Threads :
    pc[t] = "check" /\ ~Outdated(t) /\ (\A u \in Threads : ~Storing(u))
      => got[t] \in had[t]

(* Only a Put or a Delete of the same key can make a Find or a Delete miss  *)
(* the key or report a value it does not have, whatever others do to the    *)
(* other slots of the cell, their tags and the version.                     *)
OthersDoNotDisturb ==
  \A t \in Threads :
    ~disturbed[t] =>
      /\ pc[t] = "missed" => had[t] = {Absent}
      /\ pc[t] = "hit" /\ op[t].kind = "find" => had[t] = {got[t]}
      /\ pc[t] = "erase" => at[t] \in Holding(ver, op[t].key)

(* A Delete never marks the slot of another key, although it compared the   *)
(* key before it had the lock and one write may have come in between.       *)
EraseHitsKey ==
  \A t \in Threads : pc[t] = "erase" => h1[at[t]] = op[t].key

(* "If this cell still has more than one empty slot, then it means the key  *)
(* does't exist": a search that reports a miss began before the key was put *)
(* or ended after it was deleted.                                           *)
MissMeansAbsent ==
  \A t \in Threads : pc[t] = "missed" => Absent \in had[t]
=============================================================================
