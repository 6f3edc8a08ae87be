----------------------------- MODULE TurboEpoche -----------------------------
(***************************************************************************)
(* Epoch-based reclamation (turbo_epoche.h) as Put, Delete, Find and the   *)
(* rehash use it.  A place is what a lock-free search reads a pointer      *)
(* from: the bucket word, whose object is the array of cells, or a slot,   *)
(* whose object is the record.  A writer holds the lock of the place,      *)
(* replaces the object and puts the old one on its deletion list.  At the  *)
(* end of its operation it may scan the epochs of all threads and free     *)
(* what nobody can be reading any more.                                    *)
(***************************************************************************)
EXTENDS Integers, FiniteSets, Sequences

CONSTANTS
  Threads,
  Places,
  Objects,      \* the objects allocated in a run, each of them once
  MaxEpoche,    \* std::numeric_limits<uint64_t>::max(), "in no epoch"
  EpocheStep,   \* 64: retirements until the global epoch advances
  GCThreshold,  \* startGCThreshhold
  LabelSize,    \* 32: objects on one LabelDelete
  RetireFirst,  \* records: the old one is retired before the bitmap that
                \* unlinks it is stored; buckets: Reset comes first
  None

ASSUME NumbersAssumption ==
  /\ MaxEpoche \in Nat \ {0} /\ EpocheStep \in Nat \ {0}
  /\ GCThreshold \in Nat /\ LabelSize \in Nat \ {0}
ASSUME FlagsAssumption == RetireFirst \in BOOLEAN
ASSUME ObjectsAssumption == IsFiniteSet(Objects)
ASSUME NoneAssumption == None \notin Objects \cup Places \cup Nat
ASSUME EnoughObjects == \E f \in [Places -> Objects] :
                          \A p, q \in Places : f[p] = f[q] => p = q

VARIABLES
  currentEpoche,
  localEpoche,       \* of each thread's DeletionList
  pending,           \* the value a thread stores there, until others see it
  deletionList,      \* its LabelDeletes, the head first
  deletionListCount,
  thresholdCounter,
  link,              \* the object at each place
  used,              \* the objects allocated so far
  freed,
  pc,
  place,             \* the place whose lock a thread holds
  old,               \* the object a writer is replacing
  hold,              \* the object a thread has read and may still look at
  unseen,            \* history: it read it while its list showed no epoch
  oldestEpoche,      \* of a scan
  left,              \* the threads a scan has not looked at yet
  cur                \* the label the cleanup has come to

epocheVars == <<currentEpoche, localEpoche, pending>>
listVars == <<deletionList, deletionListCount, thresholdCounter, freed>>
tableVars == <<link, used, place, old, hold, unseen>>
scanVars == <<oldestEpoche, left, cur>>
vars == <<epocheVars, listVars, tableVars, scanVars, pc>>

Init ==
  /\ currentEpoche = 0
  /\ localEpoche = [t \in Threads |-> 0]
  /\ pending = [t \in Threads |-> None]
  /\ deletionList = [t \in Threads |-> <<>>]
  /\ deletionListCount = [t \in Threads |-> 0]
  /\ thresholdCounter = [t \in Threads |-> 0]
  /\ link \in [Places -> Objects]
  /\ \A p, q \in Places : link[p] = link[q] => p = q
  /\ used = {link[p] : p \in Places}
  /\ freed = {}
  /\ pc = [t \in Threads |-> "idle"]
  /\ place = [t \in Threads |-> None]
  /\ old = [t \in Threads |-> None]
  /\ hold = [t \in Threads |-> None]
  /\ unseen = [t \in Threads |-> FALSE]
  /\ oldestEpoche = [t \in Threads |-> MaxEpoche]
  /\ left = [t \in Threads |-> {}]
  /\ cur = [t \in Threads |-> 1]

Goto(t, to) == pc' = [pc EXCEPT ![t] = to]

LetGo(t) ==
  /\ hold' = [hold EXCEPT ![t] = None]
  /\ unseen' = [unseen EXCEPT ![t] = FALSE]

-----------------------------------------------------------------------------
(* enterEpoche and the operations                                           *)

EnterLoad(t) ==
  /\ pc[t] = "idle" /\ pending[t] = None
  /\ pending' = [pending EXCEPT ![t] = currentEpoche]
  /\ Goto(t, "entered")
  /\ UNCHANGED <<currentEpoche, localEpoche, listVars, tableVars, scanVars>>

(* A release store: the loads of the same thread that come after it may be  *)
(* made before others see it.                                               *)
EnterStore(t) ==
  /\ pending[t] # None
  /\ localEpoche' = [localEpoche EXCEPT ![t] = pending[t]]
  /\ pending' = [pending EXCEPT ![t] = None]
  /\ UNCHANGED <<currentEpoche, listVars, tableVars, scanVars, pc>>

(* The search of findSlot or deleteSlot, without a lock, and maybe before   *)
(* the store of enterEpoche is seen.                                        *)
Search(t, p) ==
  /\ pc[t] \in {"entered", "again"}
  /\ hold' = [hold EXCEPT ![t] = link[p]]
  /\ unseen' = [unseen EXCEPT ![t] = (localEpoche[t] = MaxEpoche)]
  /\ UNCHANGED <<epocheVars, listVars, link, used, place, old, scanVars, pc>>

(* Find: the guard for readers does nothing at the end, so the thread stays *)
(* in its epoch.  The return is put off until the store is seen: till then  *)
(* nobody can tell, and the next call begins with another store.            *)
FindReturns(t) ==
  /\ pc[t] = "entered" /\ pending[t] = None
  /\ LetGo(t)
  /\ Goto(t, "idle")
  /\ UNCHANGED <<epocheVars, listVars, link, used, place, old, scanVars>>

(* Put and Delete; the lock is a locked instruction, which is a fence.      *)
LockPlace(t, p) ==
  /\ pc[t] \in {"entered", "again"} /\ pending[t] = None
  /\ \A u \in Threads : place[u] # p
  /\ place' = [place EXCEPT ![t] = p]
  /\ old' = [old EXCEPT ![t] = link[p]]
  /\ Goto(t, "locked")
  /\ UNCHANGED <<epocheVars, listVars, link, used, hold, unseen, scanVars>>

(* The object a Put stores, or the bucket a rehash has filled.              *)
Unlink(t, new) ==
  /\ pc[t] = IF RetireFirst THEN "retired" ELSE "locked"
  /\ new \in Objects \ used
  /\ used' = used \cup {new}
  /\ link' = [link EXCEPT ![place[t]] = new]
  /\ Goto(t, IF RetireFirst THEN "unlock" ELSE "unlinked")
  /\ UNCHANGED <<epocheVars, listVars, place, old, hold, unseen, scanVars>>

(* Faulty: a full label is started again instead of a new one.              *)
AddReusing(list, o, epoche) ==
  IF list # <<>>
  THEN [list EXCEPT ![1] =
          [nodes |-> IF Cardinality(@.nodes) < LabelSize THEN @.nodes \cup {o} ELSE {o},
           epoche |-> epoche]]
  ELSE <<[nodes |-> {o}, epoche |-> epoche]>>

(* Faulty: stamps the label with the epoch to come.                         *)
AddAhead(list, o, epoche) ==
  IF list # <<>> /\ Cardinality(Head(list).nodes) < LabelSize
  THEN [list EXCEPT ![1] = [nodes |-> @.nodes \cup {o}, epoche |-> epoche + 1]]
  ELSE <<[nodes |-> {o}, epoche |-> epoche + 1]>> \o list

(* DeletionList::add: to the first label, or a new one if that is full.     *)
Add(list, o, epoche) ==
  IF list # <<>> /\ Cardinality(Head(list).nodes) < LabelSize
  THEN [list EXCEPT ![1] = [nodes |-> @.nodes \cup {o}, epoche |-> epoche]]
  ELSE <<[nodes |-> {o}, epoche |-> epoche]>> \o list

(* markNodeForDeletion                                                      *)
Retire(t) ==
  /\ pc[t] = IF RetireFirst THEN "locked" ELSE "unlinked"
  /\ deletionList' =
       [deletionList EXCEPT ![t] = Add(@, old[t], currentEpoche)]
  /\ deletionListCount' = [deletionListCount EXCEPT ![t] = @ + 1]
  /\ thresholdCounter' = [thresholdCounter EXCEPT ![t] = @ + 1]
  /\ old' = [old EXCEPT ![t] = None]
  /\ Goto(t, IF RetireFirst THEN "retired" ELSE "unlock")
  /\ UNCHANGED <<epocheVars, freed, link, used, place, hold, unseen, scanVars>>

(* A Put that has rehashed goes on, from after_rehash.                      *)
Unlock(t) ==
  /\ pc[t] = "unlock"
  /\ place' = [place EXCEPT ![t] = None]
  /\ LetGo(t)
  /\ Goto(t, "again")
  /\ UNCHANGED <<epocheVars, listVars, link, used, old, scanVars>>

(* A Put of a new key, or a Delete that finds nothing, has retired nothing. *)
GuardEnds(t) ==
  /\ pc[t] \in {"entered", "again"} /\ pending[t] = None
  /\ LetGo(t)
  /\ Goto(t, "exit")
  /\ UNCHANGED <<epocheVars, listVars, link, used, place, old, scanVars>>

-----------------------------------------------------------------------------
(* exitEpocheAndCleanup                                                     *)

NextEpoche == currentEpoche + 1

ExitBump(t) ==
  /\ pc[t] = "exit"
  /\ IF thresholdCounter[t] % EpocheStep = 1
     THEN NextEpoche < MaxEpoche /\ currentEpoche' = NextEpoche
     ELSE UNCHANGED currentEpoche
  /\ Goto(t, "bumped")
  /\ UNCHANGED <<localEpoche, pending, listVars, tableVars, scanVars>>

(* Not often enough yet: the thread stays in its epoch.                     *)
ExitEarly(t) ==
  /\ pc[t] = "bumped"
  /\ thresholdCounter[t] <= GCThreshold
  /\ Goto(t, "idle")
  /\ UNCHANGED <<epocheVars, listVars, tableVars, scanVars>>

(* The branch for size() = 0 is never taken: see CountMatches.              *)
ScanBegin(t) ==
  /\ pc[t] = "bumped"
  /\ thresholdCounter[t] > GCThreshold
  /\ localEpoche' = [localEpoche EXCEPT ![t] = MaxEpoche]
  /\ oldestEpoche' = [oldestEpoche EXCEPT ![t] = MaxEpoche]
  /\ left' = [left EXCEPT ![t] = Threads]
  /\ cur' = [cur EXCEPT ![t] = 1]
  /\ Goto(t, "scan")
  /\ UNCHANGED <<currentEpoche, pending, listVars, tableVars>>

ScanOne(t, u) ==
  /\ pc[t] = "scan" /\ u \in left[t]
  /\ oldestEpoche' =
       [oldestEpoche EXCEPT ![t] = IF localEpoche[u] < @ THEN localEpoche[u] ELSE @]
  /\ left' = [left EXCEPT ![t] = @ \ {u}]
  /\ UNCHANGED <<epocheVars, listVars, tableVars, cur, pc>>

Cleaning(t) ==
  pc[t] = "scan" /\ left[t] = {} /\ cur[t] <= Len(deletionList[t])
Label(t) == deletionList[t][cur[t]]

(* Faulty: what was retired in the oldest epoch counts as old.              *)
IsOldOrEqual(t) == Label(t).epoche <= oldestEpoche[t]

IsOld(t) == Label(t).epoche < oldestEpoche[t]

(* Faulty: the label stays on the list.                                     *)
RemoveNothing(list, i) == list

(* DeletionList::remove                                                     *)
Remove(list, i) == SubSeq(list, 1, i - 1) \o SubSeq(list, i + 1, Len(list))

(* Faulty: a label counts as one.                                           *)
OneCallback(label) == 1

nodesCount(label) == Cardinality(label.nodes)

(* The callbacks of the label run.                                          *)
FreeLabel(t) ==
  /\ Cleaning(t) /\ IsOld(t)
  /\ freed' = freed \cup Label(t).nodes
  /\ deletionList' = [deletionList EXCEPT ![t] = Remove(@, cur[t])]
  /\ deletionListCount' = [deletionListCount EXCEPT ![t] = @ - nodesCount(Label(t))]
  /\ UNCHANGED <<epocheVars, thresholdCounter, tableVars, scanVars, pc>>

KeepLabel(t) ==
  /\ Cleaning(t) /\ ~IsOld(t)
  /\ cur' = [cur EXCEPT ![t] = @ + 1]
  /\ UNCHANGED <<epocheVars, listVars, tableVars, oldestEpoche, left, pc>>

(* The locals of the scan end with it.                                      *)
CleanupEnds(t) ==
  /\ pc[t] = "scan" /\ left[t] = {} /\ cur[t] > Len(deletionList[t])
  /\ thresholdCounter' = [thresholdCounter EXCEPT ![t] = 0]
  /\ oldestEpoche' = [oldestEpoche EXCEPT ![t] = MaxEpoche]
  /\ cur' = [cur EXCEPT ![t] = 1]
  /\ Goto(t, "idle")
  /\ UNCHANGED <<epocheVars, deletionList, deletionListCount, freed, tableVars, left>>

-----------------------------------------------------------------------------
(* ~ThreadInfo, and ~Epoche after the last thread has gone                  *)

ThreadGone(t) ==
  /\ pc[t] = "idle" /\ pending[t] = None
  /\ localEpoche' = [localEpoche EXCEPT ![t] = MaxEpoche]
  /\ Goto(t, "gone")
  /\ UNCHANGED <<currentEpoche, pending, listVars, tableVars, scanVars>>

OnLabels(t) == UNION {deletionList[t][i].nodes : i \in DOMAIN deletionList[t]}

(* Faulty: passes over the first label of a list.                           *)
AllButFirst ==
  UNION {OnLabels(t) \ deletionList[t][1].nodes : t \in
           {u \in Threads : deletionList[u] # <<>>}}

AllOnLabels == UNION {OnLabels(t) : t \in Threads}

EpocheDestroyed ==
  /\ \A t \in Threads : pc[t] = "gone"
  /\ freed' = freed \cup AllOnLabels
  /\ deletionList' = [t \in Threads |-> <<>>]
  /\ deletionListCount' =
       [t \in Threads |-> deletionListCount[t] - Cardinality(OnLabels(t))]
  /\ pc' = [t \in Threads |-> "destroyed"]
  /\ UNCHANGED <<epocheVars, thresholdCounter, tableVars, scanVars>>

Next ==
  \/ \E t \in Threads :
       \/ EnterLoad(t) \/ EnterStore(t) \/ FindReturns(t)
       \/ \E p \in Places : Search(t, p) \/ LockPlace(t, p)
       \/ \E new \in Objects : Unlink(t, new)
       \/ Retire(t) \/ Unlock(t) \/ GuardEnds(t)
       \/ ExitBump(t) \/ ExitEarly(t) \/ ScanBegin(t)
       \/ \E u \in Threads : ScanOne(t, u)
       \/ FreeLabel(t) \/ KeepLabel(t) \/ CleanupEnds(t)
       \/ ThreadGone(t)
  \/ EpocheDestroyed

Spec == Init /\ [][Next]_vars

-----------------------------------------------------------------------------
(* Properties                                                               *)

LabelDelete == [nodes : SUBSET Objects, epoche : 0..(MaxEpoche - 1)]

TypeOK ==
  /\ currentEpoche \in 0..(MaxEpoche - 1)
  /\ localEpoche \in [Threads -> 0..MaxEpoche]
  /\ pending \in [Threads -> 0..(MaxEpoche - 1) \cup {None}]
  /\ deletionList \in [Threads -> Seq(LabelDelete)]
  /\ deletionListCount \in [Threads -> Int]
  /\ thresholdCounter \in [Threads -> Nat]
  /\ link \in [Places -> Objects]
  /\ used \in SUBSET Objects
  /\ freed \in SUBSET Objects
  /\ pc \in [Threads -> {"idle", "entered", "locked", "unlinked", "retired",
                         "unlock", "again", "exit", "bumped", "scan", "gone",
                         "destroyed"}]
  /\ place \in [Threads -> Places \cup {None}]
  /\ old \in [Threads -> Objects \cup {None}]
  /\ hold \in [Threads -> Objects \cup {None}]
  /\ unseen \in [Threads -> BOOLEAN]
  /\ oldestEpoche \in [Threads -> 0..MaxEpoche]
  /\ left \in [Threads -> SUBSET Threads]
  /\ cur \in [Threads -> Nat \ {0}]

(* Nothing is freed that a thread has read and not let go of yet, although  *)
(* the thread took no lock and registered nothing but an epoch.             *)
HeldIsNotFreed ==
  \A t \in Threads : hold[t] # None => hold[t] \notin freed

(* The same, but for what a thread has read before any other could see that *)
(* it is in an epoch: its list still showed the maximum that a cleanup      *)
(* stores, and its own store was on the way.  An epoch of an earlier call   *)
(* that is still there protects it as well as its own.                      *)
SeenIsNotFreed ==
  \A t \in Threads : hold[t] # None /\ ~unseen[t] => hold[t] \notin freed

(* An object waits to be freed on one label of one thread at most, and only *)
(* while it is not freed: no callback runs twice.                           *)
WaitsOnce ==
  \A t, u \in Threads :
    \A i \in DOMAIN deletionList[t], j \in DOMAIN deletionList[u] :
      \A o \in deletionList[t][i].nodes :
        /\ o \notin freed
        /\ o \in deletionList[u][j].nodes => t = u /\ i = j

(* Every object that was allocated is linked, about to be retired, on a     *)
(* deletion list or freed: nothing drops off the lists.                     *)
NothingLost ==
  \A o \in used :
    \/ o \in freed
    \/ \E p \in Places : link[p] = o
    \/ \E t \in Threads : old[t] = o \/ o \in OnLabels(t)

(* size() is the number of callbacks on the list, which ~DeletionList       *)
(* asserts to be 0.  Whatever the threshold counter has counted since the   *)
(* last cleanup is still there, so a list that has to be scanned is never   *)
(* empty.                                                                   *)
CountMatches ==
  \A t \in Threads :
    /\ deletionListCount[t] = Cardinality(OnLabels(t))
    /\ pc[t] \notin {"scan", "destroyed"} =>
         thresholdCounter[t] <= Cardinality(OnLabels(t))

(* The assertion in ~Epoche: once all threads are gone no label is held     *)
(* back by an epoch, and after it only linked objects are left.             *)
AllFreedAtEnd ==
  (\A t \in Threads : pc[t] = "destroyed") =>
     /\ used \ freed = {link[p] : p \in Places}
     /\ \A t \in Threads : deletionListCount[t] = 0
=============================================================================
