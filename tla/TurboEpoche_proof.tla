-------------------------- MODULE TurboEpoche_proof --------------------------
(***************************************************************************)
(* Why a search may use what it has read although others retire it: if the *)
(* object is unlinked before it is retired, as a rehash does with the old  *)
(* bucket, then nothing is freed while it is held by a thread whose list   *)
(* showed an epoch, this one or an older one, when it read.  The argument: *)
(* a label that holds the object carries an epoch no older than what the   *)
(* holder's list shows or is about to show, and a scan that has passed the *)
(* holder has an oldest epoch no newer than the label, because the object  *)
(* was already unlinked when the scan began.  At the end, why the lists    *)
(* lose nothing and their counts are right.                                *)
(***************************************************************************)
EXTENDS TurboEpoche, FiniteSetTheorems, TLAPS

(* Object o waits on label i of the deletion list of t. *)
Waits(t, i, o) ==
  i \in 1..Len(deletionList[t]) /\ o \in deletionList[t][i].nodes

(* Adding to a list of labels changes the first label or puts a new one     *)
(* before the others.                                                       *)
LEMMA AddCases ==
  ASSUME NEW list \in Seq(LabelDelete), NEW o \in Objects,
         NEW e \in 0..(MaxEpoche - 1)
  PROVE  /\ Add(list, o, e) \in Seq(LabelDelete)
         /\ \/ /\ list # <<>>
               /\ Len(Add(list, o, e)) = Len(list)
               /\ Add(list, o, e)[1].nodes = list[1].nodes \cup {o}
               /\ Add(list, o, e)[1].epoche = e
               /\ \A i \in 2..Len(list) : Add(list, o, e)[i] = list[i]
            \/ /\ Len(Add(list, o, e)) = Len(list) + 1
               /\ Add(list, o, e)[1].nodes = {o}
               /\ Add(list, o, e)[1].epoche = e
               /\ \A i \in 1..Len(list) : Add(list, o, e)[i + 1] = list[i]
<1>1. CASE list # <<>> /\ Cardinality(Head(list).nodes) < LabelSize
  <2> DEFINE new == [nodes |-> list[1].nodes \cup {o}, epoche |-> e]
  <2>1. Add(list, o, e) = [list EXCEPT ![1] = new]
    BY <1>1 DEF Add
  <2>2. 1 \in 1..Len(list) /\ list[1] \in LabelDelete
    BY <1>1
  <2>3. new \in LabelDelete
    BY <2>2 DEF LabelDelete
  <2> HIDE DEF new
  <2>4. [list EXCEPT ![1] = new] \in Seq(LabelDelete)
    BY <2>2, <2>3
  <2>5. /\ Len([list EXCEPT ![1] = new]) = Len(list)
        /\ [list EXCEPT ![1] = new][1] = new
        /\ \A i \in 2..Len(list) : [list EXCEPT ![1] = new][i] = list[i]
    BY <2>2, <2>3
  <2>6. new.nodes = list[1].nodes \cup {o} /\ new.epoche = e
    BY DEF new
  <2> QED
    BY <1>1, <2>1, <2>4, <2>5, <2>6
<1>2. CASE ~(list # <<>> /\ Cardinality(Head(list).nodes) < LabelSize)
  <2> DEFINE new == [nodes |-> {o}, epoche |-> e]
  <2>1. Add(list, o, e) = <<new>> \o list
    BY <1>2 DEF Add
  <2>2. new \in LabelDelete /\ new.nodes = {o} /\ new.epoche = e
    BY DEF LabelDelete
  <2> HIDE DEF new
  <2>3. <<new>> \o list \in Seq(LabelDelete)
    BY <2>2
  <2>4. /\ Len(<<new>> \o list) = Len(list) + 1
        /\ (<<new>> \o list)[1] = new
        /\ \A i \in 1..Len(list) : (<<new>> \o list)[i + 1] = list[i]
    BY <2>2
  <2> QED
    BY <2>1, <2>2, <2>3, <2>4
<1> QED
  BY <1>1, <1>2

LEMMA RemoveCases ==
  ASSUME NEW list \in Seq(LabelDelete), NEW c \in 1..Len(list)
  PROVE  /\ Remove(list, c) \in Seq(LabelDelete)
         /\ Len(Remove(list, c)) = Len(list) - 1
         /\ \A i \in 1..(Len(list) - 1) :
              Remove(list, c)[i] = list[IF i < c THEN i ELSE i + 1]
<1>1. SubSeq(list, 1, c - 1) \in Seq(LabelDelete)
      /\ Len(SubSeq(list, 1, c - 1)) = c - 1
      /\ \A i \in 1..(c - 1) : SubSeq(list, 1, c - 1)[i] = list[i]
  OBVIOUS
<1>2. SubSeq(list, c + 1, Len(list)) \in Seq(LabelDelete)
      /\ Len(SubSeq(list, c + 1, Len(list))) = Len(list) - c
      /\ \A i \in 1..(Len(list) - c) :
           SubSeq(list, c + 1, Len(list))[i] = list[c + i]
  OBVIOUS
<1> DEFINE a == SubSeq(list, 1, c - 1)
           b == SubSeq(list, c + 1, Len(list))
<1>3. Remove(list, c) = a \o b
  BY DEF Remove
<1> HIDE DEF a, b
<1>4. a \in Seq(LabelDelete) /\ b \in Seq(LabelDelete)
      /\ Len(a) = c - 1 /\ Len(b) = Len(list) - c
  BY <1>1, <1>2 DEF a, b
<1>5. a \o b \in Seq(LabelDelete) /\ Len(a \o b) = Len(list) - 1
  BY <1>4
<1>6. ASSUME NEW i \in 1..(Len(list) - 1)
      PROVE  (a \o b)[i] = list[IF i < c THEN i ELSE i + 1]
  <2>1. CASE i < c
    <3>1. (a \o b)[i] = a[i]
      BY <1>4, <2>1
    <3>2. a[i] = list[i]
      BY <1>1, <2>1 DEF a
    <3> QED
      BY <2>1, <3>1, <3>2
  <2>2. CASE ~(i < c)
    <3>1. (a \o b)[i] = b[i - (c - 1)]
      BY <1>4, <2>2
    <3>2. i - (c - 1) \in 1..(Len(list) - c)
      BY <2>2
    <3>3. b[i - (c - 1)] = list[c + (i - (c - 1))]
      BY <1>2, <3>2 DEF b
    <3> QED
      BY <2>2, <3>1, <3>3
  <2> QED
    BY <2>1, <2>2
<1> QED
  BY <1>3, <1>5, <1>6

-----------------------------------------------------------------------------
(* The invariant                                                            *)

Reading == {"entered", "locked", "unlinked", "unlock", "again"}
Linked(o) == \E p \in Places : link[p] = o

Locking ==
  /\ \A p, q \in Places : link[p] = link[q] => p = q
  /\ \A p \in Places : link[p] \in used
  /\ \A t \in Threads : pc[t] # IF RetireFirst THEN "unlinked" ELSE "retired"
  /\ \A t \in Threads : pc[t] \in {"locked", "retired"} => place[t] \in Places
  /\ \A t \in Threads : pc[t] = "locked" => old[t] = link[place[t]]
  /\ \A t \in Threads : pc[t] \in {"locked", "unlinked"} <=> old[t] # None
  /\ \A t, u \in Threads : place[t] = place[u] /\ place[t] # None => t = u

(* An object is linked, unlinked but not retired, waiting, or freed.        *)
Located ==
  /\ \A o \in freed : o \in used /\ ~Linked(o)
  /\ \A t \in Threads, i \in Nat, o \in Objects :
       Waits(t, i, o) => o \in used /\ o \notin freed /\ ~Linked(o)
  /\ \A t \in Threads :
       pc[t] = "unlinked" =>
         /\ old[t] \in used /\ old[t] \notin freed /\ ~Linked(old[t])
         /\ \A u \in Threads, i \in Nat : ~Waits(u, i, old[t])
  /\ \A t, u \in Threads :
       pc[t] = "unlinked" /\ pc[u] = "unlinked" /\ old[t] = old[u] => t = u
  /\ \A t, u \in Threads, i, j \in Nat, o \in Objects :
       Waits(t, i, o) /\ Waits(u, j, o) => t = u /\ i = j

(* What the list of a thread shows, or is about to, covers what it holds.    *)
Covered ==
  /\ \A t \in Threads : localEpoche[t] <= currentEpoche \/ localEpoche[t] = MaxEpoche
  /\ \A t \in Threads : pending[t] # None => pending[t] <= currentEpoche
  /\ \A t \in Threads : hold[t] # None => pc[t] \in Reading /\ hold[t] \in used
  /\ \A t \in Threads :
       hold[t] # None /\ ~unseen[t] => localEpoche[t] <= currentEpoche
  /\ \A t, u \in Threads, i \in Nat :
       Waits(u, i, hold[t]) /\ ~unseen[t] =>
         /\ localEpoche[t] <= deletionList[u][i].epoche
         /\ pending[t] # None => pending[t] <= deletionList[u][i].epoche
  /\ \A t, u \in Threads, i \in Nat :
       pc[u] = "scan" /\ Waits(u, i, hold[t]) /\ ~unseen[t] /\ t \notin left[u] =>
         oldestEpoche[u] <= deletionList[u][i].epoche
  /\ SeenIsNotFreed

EpocheInv == TypeOK /\ Locking /\ Located /\ Covered

-----------------------------------------------------------------------------
(* How the lists change                                                     *)

LEMMA RetireWaits ==
  ASSUME NEW t \in Threads, TypeOK, Retire(t), old[t] \in Objects
  PROVE  /\ deletionList' \in [Threads -> Seq(LabelDelete)]
         /\ \E s \in {0, 1} :
              \A u \in Threads, i \in Nat, o \in Objects :
                Waits(u, i, o)' =>
                  \/ /\ u = t /\ i = 1 /\ o = old[t]
                     /\ deletionList'[u][i].epoche = currentEpoche
                  \/ /\ u # t /\ Waits(u, i, o)
                     /\ deletionList'[u][i] = deletionList[u][i]
                  \/ /\ u = t /\ i - s \in Nat /\ Waits(t, i - s, o)
                     /\ \/ deletionList'[u][i].epoche = deletionList[t][i - s].epoche
                        \/ deletionList'[u][i].epoche = currentEpoche
<1> DEFINE list == deletionList[t]
           new == Add(list, old[t], currentEpoche)
<1>1. list \in Seq(LabelDelete) /\ currentEpoche \in 0..(MaxEpoche - 1)
  BY DEF TypeOK
<1>2. deletionList' = [deletionList EXCEPT ![t] = new]
  BY DEF Retire
<1>3. new \in Seq(LabelDelete)
  BY <1>1, AddCases
<1>4. deletionList'[t] = new
      /\ \A u \in Threads : u # t => deletionList'[u] = deletionList[u]
  BY <1>2 DEF TypeOK
<1>5. deletionList' \in [Threads -> Seq(LabelDelete)]
  BY <1>2, <1>3 DEF TypeOK
<1>6. \/ /\ Len(new) = Len(list) /\ list # <<>>
         /\ new[1].nodes = list[1].nodes \cup {old[t]}
         /\ new[1].epoche = currentEpoche
         /\ \A i \in 2..Len(list) : new[i] = list[i]
      \/ /\ Len(new) = Len(list) + 1
         /\ new[1].nodes = {old[t]}
         /\ new[1].epoche = currentEpoche
         /\ \A i \in 1..Len(list) : new[i + 1] = list[i]
  <2> HIDE DEF list
  <2>1. \/ /\ list # <<>>
           /\ Len(Add(list, old[t], currentEpoche)) = Len(list)
           /\ Add(list, old[t], currentEpoche)[1].nodes = list[1].nodes \cup {old[t]}
           /\ Add(list, old[t], currentEpoche)[1].epoche = currentEpoche
           /\ \A i \in 2..Len(list) : Add(list, old[t], currentEpoche)[i] = list[i]
        \/ /\ Len(Add(list, old[t], currentEpoche)) = Len(list) + 1
           /\ Add(list, old[t], currentEpoche)[1].nodes = {old[t]}
           /\ Add(list, old[t], currentEpoche)[1].epoche = currentEpoche
           /\ \A i \in 1..Len(list) : Add(list, old[t], currentEpoche)[i + 1] = list[i]
    BY <1>1, AddCases, SMT
  <2> QED
    BY <2>1
<1> HIDE DEF new
<1>7. CASE /\ Len(new) = Len(list) /\ list # <<>>
           /\ new[1].nodes = list[1].nodes \cup {old[t]}
           /\ new[1].epoche = currentEpoche
           /\ \A i \in 2..Len(list) : new[i] = list[i]
  <2>1. ASSUME NEW u \in Threads, NEW i \in Nat, NEW o \in Objects, Waits(u, i, o)'
        PROVE  \/ /\ u = t /\ i = 1 /\ o = old[t]
                  /\ deletionList'[u][i].epoche = currentEpoche
               \/ /\ u # t /\ Waits(u, i, o)
                  /\ deletionList'[u][i] = deletionList[u][i]
               \/ /\ u = t /\ i - 0 \in Nat /\ Waits(t, i - 0, o)
                  /\ \/ deletionList'[u][i].epoche = deletionList[t][i - 0].epoche
                     \/ deletionList'[u][i].epoche = currentEpoche
    <3>1. i \in 1..Len(deletionList'[u]) /\ o \in deletionList'[u][i].nodes
      BY <2>1 DEF Waits
    <3>2. CASE u # t
      BY <3>1, <3>2, <1>4 DEF Waits
    <3>3. CASE u = t /\ i = 1
      BY <3>1, <3>3, <1>4, <1>7, <1>1 DEF Waits
    <3>4. CASE u = t /\ i # 1
      <4>1. i \in 2..Len(list)
        BY <3>1, <3>4, <1>4, <1>7, <1>1
      <4> QED
        BY <3>1, <3>4, <4>1, <1>4, <1>7, <1>1 DEF Waits
    <3> QED
      BY <3>2, <3>3, <3>4
  <2> QED
    BY <1>5, <2>1
<1>8. CASE /\ Len(new) = Len(list) + 1
           /\ new[1].nodes = {old[t]}
           /\ new[1].epoche = currentEpoche
           /\ \A i \in 1..Len(list) : new[i + 1] = list[i]
  <2>1. ASSUME NEW u \in Threads, NEW i \in Nat, NEW o \in Objects, Waits(u, i, o)'
        PROVE  \/ /\ u = t /\ i = 1 /\ o = old[t]
                  /\ deletionList'[u][i].epoche = currentEpoche
               \/ /\ u # t /\ Waits(u, i, o)
                  /\ deletionList'[u][i] = deletionList[u][i]
               \/ /\ u = t /\ i - 1 \in Nat /\ Waits(t, i - 1, o)
                  /\ \/ deletionList'[u][i].epoche = deletionList[t][i - 1].epoche
                     \/ deletionList'[u][i].epoche = currentEpoche
    <3>1. i \in 1..Len(deletionList'[u]) /\ o \in deletionList'[u][i].nodes
      BY <2>1 DEF Waits
    <3>2. CASE u # t
      BY <3>1, <3>2, <1>4 DEF Waits
    <3>3. CASE u = t /\ i = 1
      BY <3>1, <3>3, <1>4, <1>8, <1>1 DEF Waits
    <3>4. CASE u = t /\ i # 1
      <4>1. i - 1 \in 1..Len(list)
        BY <3>1, <3>4, <1>4, <1>8, <1>1
      <4>2. new[(i - 1) + 1] = list[i - 1]
        BY <4>1, <1>8
      <4>3. (i - 1) + 1 = i
        OBVIOUS
      <4> QED
        BY <3>1, <3>4, <4>1, <4>2, <4>3, <1>4, <1>1 DEF Waits
    <3> QED
      BY <3>2, <3>3, <3>4
  <2> QED
    BY <1>5, <2>1
<1> QED
  BY <1>6, <1>7, <1>8

LEMMA FreeWaits ==
  ASSUME NEW t \in Threads, TypeOK, FreeLabel(t)
  PROVE  /\ cur[t] \in 1..Len(deletionList[t])
         /\ deletionList' \in [Threads -> Seq(LabelDelete)]
         /\ \A u \in Threads, i \in Nat, o \in Objects :
              Waits(u, i, o)' =>
                \/ /\ u # t /\ Waits(u, i, o)
                   /\ deletionList'[u][i] = deletionList[u][i]
                \/ /\ u = t
                   /\ i < cur[t] /\ Waits(t, i, o)
                   /\ deletionList'[u][i] = deletionList[t][i]
                \/ /\ u = t
                   /\ i >= cur[t] /\ Waits(t, i + 1, o)
                   /\ deletionList'[u][i] = deletionList[t][i + 1]
<1> DEFINE list == deletionList[t]
           c == cur[t]
           new == Remove(list, c)
<1>1. list \in Seq(LabelDelete) /\ c \in 1..Len(list)
  BY DEF TypeOK, FreeLabel, Cleaning
<1>2. deletionList' = [deletionList EXCEPT ![t] = new]
  BY DEF FreeLabel
<1>3. /\ new \in Seq(LabelDelete) /\ Len(new) = Len(list) - 1
      /\ \A i \in 1..(Len(list) - 1) : new[i] = list[IF i < c THEN i ELSE i + 1]
  <2> HIDE DEF list, c
  <2> QED
    BY <1>1, RemoveCases
<1>4. deletionList'[t] = new
      /\ \A u \in Threads : u # t => deletionList'[u] = deletionList[u]
  BY <1>2 DEF TypeOK
<1>5. deletionList' \in [Threads -> Seq(LabelDelete)]
  BY <1>2, <1>3 DEF TypeOK
<1> HIDE DEF new
<1>6. ASSUME NEW u \in Threads, NEW i \in Nat, NEW o \in Objects, Waits(u, i, o)'
      PROVE  \/ /\ u # t /\ Waits(u, i, o)
                /\ deletionList'[u][i] = deletionList[u][i]
             \/ /\ u = t
                /\ i < cur[t] /\ Waits(t, i, o)
                /\ deletionList'[u][i] = deletionList[t][i]
             \/ /\ u = t
                /\ i >= cur[t] /\ Waits(t, i + 1, o)
                /\ deletionList'[u][i] = deletionList[t][i + 1]
  <2>1. i \in 1..Len(deletionList'[u]) /\ o \in deletionList'[u][i].nodes
    BY <1>6 DEF Waits
  <2>2. CASE u # t
    BY <2>1, <2>2, <1>4 DEF Waits
  <2>3. CASE u = t /\ i < c
    BY <2>1, <2>3, <1>1, <1>3, <1>4 DEF Waits
  <2>4. CASE u = t /\ ~(i < c)
    BY <2>1, <2>4, <1>1, <1>3, <1>4 DEF Waits
  <2> QED
    BY <2>2, <2>3, <2>4
<1> QED
  BY <1>1, <1>5, <1>6

-----------------------------------------------------------------------------
(* Types and locks                                                          *)

Pcs == {"idle", "entered", "locked", "unlinked", "retired", "unlock", "again",
        "exit", "bumped", "scan", "gone", "destroyed"}

LEMMA EpocheInit == Init => TypeOK /\ Locking
<1> SUFFICES ASSUME Init PROVE TypeOK /\ Locking
  OBVIOUS
<1>1. TypeOK
  BY NumbersAssumption, NoneAssumption DEF Init, TypeOK, LabelDelete
<1>2. Locking
  BY NoneAssumption DEF Init, Locking
<1> QED
  BY <1>1, <1>2

LEMMA TypeStep == TypeOK /\ Locking /\ [Next]_vars => TypeOK'
<1> SUFFICES ASSUME TypeOK, Locking, [Next]_vars PROVE TypeOK'
  OBVIOUS
<1> USE NumbersAssumption, NoneAssumption DEF TypeOK, Goto, LetGo
<1>1. ASSUME NEW t \in Threads, EnterLoad(t) PROVE TypeOK'
  BY <1>1 DEF EnterLoad, listVars, tableVars, scanVars
<1>2. ASSUME NEW t \in Threads, EnterStore(t) PROVE TypeOK'
  BY <1>2 DEF EnterStore, listVars, tableVars, scanVars
<1>3. ASSUME NEW t \in Threads, FindReturns(t) PROVE TypeOK'
  BY <1>3 DEF FindReturns, epocheVars, listVars, scanVars
<1>4. ASSUME NEW t \in Threads, NEW p \in Places, Search(t, p) PROVE TypeOK'
  BY <1>4 DEF Search, epocheVars, listVars, scanVars
<1>5. ASSUME NEW t \in Threads, NEW p \in Places, LockPlace(t, p) PROVE TypeOK'
  BY <1>5 DEF LockPlace, epocheVars, listVars, scanVars
<1>6. ASSUME NEW t \in Threads, NEW new \in Objects, Unlink(t, new) PROVE TypeOK'
  <2>1. place[t] \in Places \/ place[t] = None
    OBVIOUS
  <2>2. link' \in [Places -> Objects]
    BY <1>6, <2>1 DEF Unlink
  <2> QED
    BY <1>6, <2>2 DEF Unlink, epocheVars, listVars, scanVars
<1>7. ASSUME NEW t \in Threads, Retire(t) PROVE TypeOK'
  <2>1. old[t] \in Objects
    BY <1>7 DEF Retire, Locking
  <2>2. deletionList' \in [Threads -> Seq(LabelDelete)]
    BY <1>7, <2>1, RetireWaits
  <2> QED
    BY <1>7, <2>2 DEF Retire, epocheVars, scanVars
<1>8. ASSUME NEW t \in Threads, Unlock(t) PROVE TypeOK'
  BY <1>8 DEF Unlock, epocheVars, listVars, scanVars
<1>9. ASSUME NEW t \in Threads, GuardEnds(t) PROVE TypeOK'
  BY <1>9 DEF GuardEnds, epocheVars, listVars, scanVars
<1>10. ASSUME NEW t \in Threads, ExitBump(t) PROVE TypeOK'
  <2>1. currentEpoche' \in 0..(MaxEpoche - 1)
    BY <1>10 DEF ExitBump, NextEpoche
  <2> QED
    BY <1>10, <2>1 DEF ExitBump, listVars, tableVars, scanVars
<1>11. ASSUME NEW t \in Threads, ExitEarly(t) PROVE TypeOK'
  BY <1>11 DEF ExitEarly, epocheVars, listVars, tableVars, scanVars
<1>12. ASSUME NEW t \in Threads, ScanBegin(t) PROVE TypeOK'
  BY <1>12 DEF ScanBegin, listVars, tableVars
<1>13. ASSUME NEW t \in Threads, NEW u \in Threads, ScanOne(t, u) PROVE TypeOK'
  BY <1>13 DEF ScanOne, epocheVars, listVars, tableVars
<1>14. ASSUME NEW t \in Threads, FreeLabel(t) PROVE TypeOK'
  <2>1. deletionList' \in [Threads -> Seq(LabelDelete)]
        /\ cur[t] \in 1..Len(deletionList[t])
    BY <1>14, FreeWaits
  <2>2. Label(t) \in LabelDelete
    BY <2>1 DEF Label
  <2>3. freed' \in SUBSET Objects
    BY <1>14, <2>2 DEF FreeLabel, LabelDelete
  <2>4. nodesCount(Label(t)) \in Int
    BY <2>2, ObjectsAssumption, FS_Subset, FS_CardinalityType
    DEF nodesCount, LabelDelete
  <2>5. deletionListCount' \in [Threads -> Int]
    BY <1>14, <2>4 DEF FreeLabel
  <2> QED
    BY <1>14, <2>1, <2>3, <2>5 DEF FreeLabel, epocheVars, tableVars, scanVars
<1>15. ASSUME NEW t \in Threads, KeepLabel(t) PROVE TypeOK'
  BY <1>15 DEF KeepLabel, epocheVars, listVars, tableVars
<1>16. ASSUME NEW t \in Threads, CleanupEnds(t) PROVE TypeOK'
  BY <1>16 DEF CleanupEnds, epocheVars, tableVars
<1>17. ASSUME NEW t \in Threads, ThreadGone(t) PROVE TypeOK'
  BY <1>17 DEF ThreadGone, listVars, tableVars, scanVars
<1>18. ASSUME EpocheDestroyed PROVE TypeOK'
  <2>1. \A t \in Threads : OnLabels(t) \subseteq Objects
    <3> SUFFICES ASSUME NEW t \in Threads, NEW o \in OnLabels(t) PROVE o \in Objects
      OBVIOUS
    <3>1. PICK i \in DOMAIN deletionList[t] : o \in deletionList[t][i].nodes
      BY DEF OnLabels
    <3>2. deletionList[t][i] \in LabelDelete
      BY <3>1
    <3> QED
      BY <3>1, <3>2 DEF LabelDelete
  <2>2. \A t \in Threads : Cardinality(OnLabels(t)) \in Int
    BY <2>1, ObjectsAssumption, FS_Subset, FS_CardinalityType
  <2>3. freed' \in SUBSET Objects
    BY <1>18, <2>1 DEF EpocheDestroyed, AllOnLabels
  <2>4. deletionListCount' \in [Threads -> Int]
    BY <1>18, <2>2 DEF EpocheDestroyed
  <2>5. deletionList' \in [Threads -> Seq(LabelDelete)]
    BY <1>18 DEF EpocheDestroyed
  <2> QED
    BY <1>18, <2>3, <2>4, <2>5
    DEF EpocheDestroyed, epocheVars, tableVars, scanVars
<1>19. CASE UNCHANGED vars
  BY <1>19 DEF vars, epocheVars, listVars, tableVars, scanVars
<1> QED
  BY <1>1, <1>2, <1>3, <1>4, <1>5, <1>6, <1>7, <1>8, <1>9, <1>10, <1>11, <1>12,
     <1>13, <1>14, <1>15, <1>16, <1>17, <1>18, <1>19 DEF Next

LEMMA LockingStep == TypeOK /\ Locking /\ [Next]_vars => Locking'
<1> SUFFICES ASSUME TypeOK, Locking, [Next]_vars PROVE Locking'
  OBVIOUS
<1> USE NoneAssumption DEF TypeOK, Goto, Locking
<1>1. ASSUME NEW t \in Threads,
             EnterLoad(t) \/ FindReturns(t) \/ GuardEnds(t) \/ ExitBump(t)
               \/ ExitEarly(t) \/ ScanBegin(t) \/ CleanupEnds(t) \/ ThreadGone(t)
      PROVE  Locking'
  <2>1. /\ UNCHANGED <<link, used, place, old>>
        /\ \E x \in {"idle", "entered", "exit", "bumped", "scan", "gone"} :
             pc' = [pc EXCEPT ![t] = x]
        /\ pc[t] \notin {"locked", "unlinked", "retired"}
    BY <1>1 DEF EnterLoad, FindReturns, GuardEnds, ExitBump, ExitEarly, ScanBegin,
                CleanupEnds, ThreadGone, tableVars
  <2> QED
    BY <2>1
<1>2. ASSUME NEW t \in Threads,
             \/ EnterStore(t) \/ KeepLabel(t) \/ FreeLabel(t)
             \/ \E u \in Threads : ScanOne(t, u)
             \/ \E p \in Places : Search(t, p)
      PROVE  Locking'
  <2>1. UNCHANGED <<link, used, place, old, pc>>
    BY <1>2 DEF EnterStore, KeepLabel, FreeLabel, ScanOne, Search, tableVars
  <2> QED
    BY <2>1
<1>3. ASSUME NEW t \in Threads, NEW p \in Places, LockPlace(t, p) PROVE Locking'
  BY <1>3 DEF LockPlace
<1>4. ASSUME NEW t \in Threads, NEW new \in Objects, Unlink(t, new) PROVE Locking'
  <2>1. place[t] \in Places
    BY <1>4 DEF Unlink
  <2>2. /\ link' = [link EXCEPT ![place[t]] = new]
        /\ new \notin used /\ used' = used \cup {new}
        /\ place' = place /\ old' = old
    BY <1>4 DEF Unlink
  <2>3. \A p, q \in Places : link'[p] = link'[q] => p = q
    BY <2>1, <2>2
  <2>4. \A p \in Places : link'[p] \in used'
    BY <2>1, <2>2
  <2>5. \A u \in Threads : u # t => pc'[u] = pc[u]
    BY <1>4 DEF Unlink
  <2>6. ASSUME NEW u \in Threads, pc'[u] = "locked"
        PROVE  u # t /\ place[u] # place[t]
    <3>1. u # t
      BY <1>4, <2>6 DEF Unlink
    <3> QED
      BY <2>1, <3>1
  <2>7. \A u \in Threads : pc'[u] = "locked" => old'[u] = link'[place'[u]]
    BY <2>1, <2>2, <2>5, <2>6
  <2>8. \A u \in Threads : pc'[u] \in {"locked", "unlinked"} <=> old'[u] # None
    BY <1>4, <2>2, <2>5 DEF Unlink
  <2>9. \A u \in Threads :
          /\ pc'[u] # IF RetireFirst THEN "unlinked" ELSE "retired"
          /\ pc'[u] \in {"locked", "retired"} => place'[u] \in Places
    BY <1>4, <2>2, <2>5 DEF Unlink
  <2> QED
    BY <2>2, <2>3, <2>4, <2>7, <2>8, <2>9
<1>5. ASSUME NEW t \in Threads, Retire(t) PROVE Locking'
  <2>1. /\ UNCHANGED <<link, used, place>>
        /\ old' = [old EXCEPT ![t] = None]
        /\ pc' = [pc EXCEPT ![t] = IF RetireFirst THEN "retired" ELSE "unlock"]
        /\ pc[t] = IF RetireFirst THEN "locked" ELSE "unlinked"
    BY <1>5 DEF Retire
  <2> QED
    BY <2>1
<1>6. ASSUME NEW t \in Threads, Unlock(t) PROVE Locking'
  BY <1>6 DEF Unlock
<1>7. ASSUME EpocheDestroyed PROVE Locking'
  BY <1>7 DEF EpocheDestroyed, tableVars
<1>8. CASE UNCHANGED vars
  BY <1>8 DEF vars, tableVars
<1> QED
  BY <1>1, <1>2, <1>3, <1>4, <1>5, <1>6, <1>7, <1>8 DEF Next

(* The type invariant, for either order of retiring.                        *)
THEOREM TypeCorrect == Spec => []TypeOK
<1>1. TypeOK /\ Locking /\ [Next]_vars => (TypeOK /\ Locking)'
  BY TypeStep, LockingStep
<1> QED
  BY EpocheInit, <1>1, PTL DEF Spec

-----------------------------------------------------------------------------
(* Where every object is                                                    *)

(* What all actions do but Unlink, Retire and those that free. *)
Elsewhere ==
  /\ UNCHANGED <<deletionList, freed, link, used>>
  /\ \A u \in Threads :
       pc'[u] = "unlinked" => pc[u] = "unlinked" /\ old'[u] = old[u]

LEMMA LocatedElsewhere == Located /\ Elsewhere => Located'
  BY DEF Located, Elsewhere, Waits, Linked

LEMMA MostActionsElsewhere ==
  ASSUME TypeOK, Locking, [Next]_vars,
         \A t \in Threads : /\ \A new \in Objects : ~Unlink(t, new)
                            /\ ~Retire(t) /\ ~FreeLabel(t),
         ~EpocheDestroyed
  PROVE  Elsewhere
<1> USE DEF TypeOK, Goto, LetGo, Elsewhere, epocheVars, listVars, tableVars, scanVars
<1>1. ASSUME NEW t \in Threads,
             EnterLoad(t) \/ FindReturns(t) \/ GuardEnds(t) \/ ExitBump(t)
               \/ ExitEarly(t) \/ ScanBegin(t) \/ CleanupEnds(t) \/ ThreadGone(t)
      PROVE  Elsewhere
  <2>1. /\ UNCHANGED <<link, used, old, deletionList, freed>>
        /\ \E x \in {"idle", "entered", "exit", "bumped", "scan", "gone"} :
             pc' = [pc EXCEPT ![t] = x]
    BY <1>1 DEF EnterLoad, FindReturns, GuardEnds, ExitBump, ExitEarly, ScanBegin,
                CleanupEnds, ThreadGone
  <2> QED
    BY <2>1
<1>2. ASSUME NEW t \in Threads,
             \/ EnterStore(t) \/ KeepLabel(t) \/ Unlock(t)
             \/ \E u \in Threads : ScanOne(t, u)
             \/ \E p \in Places : Search(t, p)
      PROVE  Elsewhere
  BY <1>2 DEF EnterStore, KeepLabel, Unlock, ScanOne, Search
<1>3. ASSUME NEW t \in Threads, NEW p \in Places, LockPlace(t, p) PROVE Elsewhere
  BY <1>3 DEF LockPlace
<1>4. CASE UNCHANGED vars
  BY <1>4 DEF vars
<1> QED
  BY <1>1, <1>2, <1>3, <1>4 DEF Next

LEMMA UnlinkLocated ==
  ASSUME NEW t \in Threads, NEW new \in Objects, RetireFirst = FALSE,
         TypeOK, Locking, Located, Unlink(t, new)
  PROVE  Located'
<1>1. /\ pc[t] = "locked" /\ place[t] \in Places /\ old[t] = link[place[t]]
      /\ link' = [link EXCEPT ![place[t]] = new]
      /\ new \notin used /\ used' = used \cup {new}
      /\ pc' = [pc EXCEPT ![t] = "unlinked"]
      /\ old' = old /\ deletionList' = deletionList /\ freed' = freed
  BY DEF Unlink, Locking, Goto, listVars
<1>2. \A o \in Objects : Linked(o)' => o = new \/ Linked(o)
  BY <1>1 DEF Linked, TypeOK
<1>3. Linked(old[t]) /\ old[t] \in used
  BY <1>1 DEF Linked, Locking
<1>4. ~Linked(old[t])'
  BY <1>1, <1>3 DEF Linked, TypeOK, Locking
<1>5. \A u \in Threads, i \in Nat, o \in Objects : Waits(u, i, o)' <=> Waits(u, i, o)
  BY <1>1 DEF Waits
<1>6. \A o \in freed' : o \in used' /\ ~Linked(o)'
  BY <1>1, <1>2 DEF Located, TypeOK
<1>7. \A u \in Threads, i \in Nat, o \in Objects :
        Waits(u, i, o)' => o \in used' /\ o \notin freed' /\ ~Linked(o)'
  BY <1>1, <1>2, <1>5 DEF Located
<1>8. ASSUME NEW u \in Threads, pc'[u] = "unlinked"
      PROVE  /\ old[u] \in used' /\ old[u] \notin freed' /\ ~Linked(old[u])'
             /\ \A v \in Threads, i \in Nat : ~Waits(v, i, old[u])'
  <2>1. CASE u = t
    <3>1. old[t] \in used /\ old[t] \notin freed
      BY <1>3 DEF Located
    <3>2. \A v \in Threads, i \in Nat : ~Waits(v, i, old[t])
      BY <1>3 DEF Located, Locking, TypeOK
    <3>3. old[t] \in Objects
      BY <3>1 DEF TypeOK
    <3> QED
      BY <1>1, <1>4, <1>5, <2>1, <3>1, <3>2, <3>3
  <2>2. CASE u # t
    <3>1. pc[u] = "unlinked"
      BY <1>1, <1>8, <2>2 DEF TypeOK
    <3>2. old[u] \in used /\ old[u] \notin freed /\ ~Linked(old[u])
          /\ \A v \in Threads, i \in Nat : ~Waits(v, i, old[u])
      BY <3>1 DEF Located
    <3>3. old[u] \in Objects
      BY <3>2 DEF TypeOK
    <3> QED
      BY <1>1, <1>2, <1>5, <3>2, <3>3
  <2> QED
    BY <2>1, <2>2
<1>9. ASSUME NEW u \in Threads, NEW v \in Threads,
             pc'[u] = "unlinked", pc'[v] = "unlinked", old[u] = old[v]
      PROVE  u = v
  <2>1. \A w \in Threads : w # t /\ pc'[w] = "unlinked" =>
          pc[w] = "unlinked" /\ ~Linked(old[w])
    BY <1>1 DEF TypeOK, Located
  <2> QED
    BY <1>3, <1>9, <2>1 DEF Located
<1>10. \A u, v \in Threads, i, j \in Nat, o \in Objects :
         Waits(u, i, o)' /\ Waits(v, j, o)' => u = v /\ i = j
  BY <1>5 DEF Located
<1> QED
  BY <1>1, <1>6, <1>7, <1>8, <1>9, <1>10 DEF Located

LEMMA RetireLocated ==
  ASSUME NEW t \in Threads, RetireFirst = FALSE,
         TypeOK, Locking, Located, Retire(t)
  PROVE  Located'
<1>1. /\ pc[t] = "unlinked" /\ pc' = [pc EXCEPT ![t] = "unlock"]
      /\ old' = [old EXCEPT ![t] = None]
      /\ link' = link /\ used' = used /\ freed' = freed
  BY DEF Retire, Goto
<1>2. old[t] \in Objects
  BY <1>1 DEF Locking, TypeOK
<1>3. PICK s \in {0, 1} :
        \A u \in Threads, i \in Nat, o \in Objects :
          Waits(u, i, o)' =>
            \/ u = t /\ i = 1 /\ o = old[t]
            \/ u # t /\ Waits(u, i, o)
            \/ u = t /\ i - s \in Nat /\ Waits(t, i - s, o)
  <2>1. PICK s \in {0, 1} :
          \A u \in Threads, i \in Nat, o \in Objects :
            Waits(u, i, o)' =>
              \/ /\ u = t /\ i = 1 /\ o = old[t]
                 /\ deletionList'[u][i].epoche = currentEpoche
              \/ /\ u # t /\ Waits(u, i, o)
                 /\ deletionList'[u][i] = deletionList[u][i]
              \/ /\ u = t /\ i - s \in Nat /\ Waits(t, i - s, o)
                 /\ \/ deletionList'[u][i].epoche = deletionList[t][i - s].epoche
                    \/ deletionList'[u][i].epoche = currentEpoche
    BY <1>2, RetireWaits
  <2> QED
    BY <2>1
<1>4. \A o \in Objects : Linked(o)' <=> Linked(o)
  BY <1>1 DEF Linked
<1>5. /\ old[t] \in used /\ old[t] \notin freed /\ ~Linked(old[t])
      /\ \A u \in Threads, i \in Nat : ~Waits(u, i, old[t])
  BY <1>1 DEF Located
<1>6. \A o \in freed' : o \in used' /\ ~Linked(o)'
  BY <1>1, <1>4 DEF Located, TypeOK
<1>7. \A u \in Threads, i \in Nat, o \in Objects :
        Waits(u, i, o)' => o \in used' /\ o \notin freed' /\ ~Linked(o)'
  BY <1>1, <1>3, <1>4, <1>5 DEF Located
<1>8. ASSUME NEW u \in Threads, pc'[u] = "unlinked"
      PROVE  /\ u # t /\ pc[u] = "unlinked" /\ old'[u] = old[u] /\ old[u] \in Objects
             /\ old[u] \in used' /\ old[u] \notin freed'
             /\ \A p \in Places : link'[p] # old[u]
             /\ \A v \in Threads, i \in Nat, o \in Objects :
                  Waits(v, i, o)' => o # old[u]
  <2>1. u # t /\ pc[u] = "unlinked" /\ old'[u] = old[u]
    BY <1>1, <1>8 DEF TypeOK
  <2>2. /\ old[u] \in used /\ old[u] \notin freed /\ ~Linked(old[u])
        /\ \A v \in Threads, i \in Nat : ~Waits(v, i, old[u])
    BY <2>1 DEF Located
  <2>3. old[u] # old[t]
    BY <1>1, <2>1 DEF Located
  <2> QED
    BY <1>1, <1>3, <2>1, <2>2, <2>3 DEF TypeOK, Linked
<1>9. \A u, v \in Threads :
        pc'[u] = "unlinked" /\ pc'[v] = "unlinked" /\ old'[u] = old'[v] => u = v
  BY <1>8 DEF Located
<1>10. \A u, v \in Threads, i, j \in Nat, o \in Objects :
         Waits(u, i, o)' /\ Waits(v, j, o)' => u = v /\ i = j
  <2> SUFFICES ASSUME NEW u \in Threads, NEW v \in Threads, NEW i \in Nat,
                      NEW j \in Nat, NEW o \in Objects,
                      Waits(u, i, o)', Waits(v, j, o)'
               PROVE  u = v /\ i = j
    OBVIOUS
  <2>1. CASE o = old[t]
    BY <1>3, <1>5, <2>1
  <2>2. CASE o # old[t]
    <3>1. \/ u # t /\ Waits(u, i, o)
          \/ u = t /\ i - s \in Nat /\ Waits(u, i - s, o)
      BY <1>3, <2>2
    <3>2. \/ v # t /\ Waits(v, j, o)
          \/ v = t /\ j - s \in Nat /\ Waits(v, j - s, o)
      BY <1>3, <2>2
    <3>3. u = v
      BY <3>1, <3>2 DEF Located
    <3>4. CASE u # t
      BY <3>1, <3>2, <3>3, <3>4 DEF Located
    <3>5. CASE u = t
      <4>1. i - s = j - s
        BY <3>1, <3>2, <3>3, <3>5 DEF Located
      <4> QED
        BY <3>3, <4>1
    <3> QED
      BY <3>4, <3>5
  <2> QED
    BY <2>1, <2>2
<1>11. \A u \in Threads :
         pc'[u] = "unlinked" =>
           /\ old'[u] \in used' /\ old'[u] \notin freed'
           /\ \A p \in Places : link'[p] # old'[u]
           /\ \A v \in Threads, i \in Nat :
                ~(i \in 1..Len(deletionList'[v]) /\ old'[u] \in deletionList'[v][i].nodes)
  BY <1>8 DEF Waits
<1> QED
  BY <1>6, <1>7, <1>9, <1>10, <1>11 DEF Located, Waits, Linked

LEMMA FreeLocated ==
  ASSUME NEW t \in Threads, TypeOK, Located, FreeLabel(t)
  PROVE  Located'
<1>1. /\ pc' = pc /\ old' = old /\ link' = link /\ used' = used
      /\ freed' = freed \cup deletionList[t][cur[t]].nodes
  BY DEF FreeLabel, Label, tableVars
<1>2. /\ cur[t] \in 1..Len(deletionList[t])
      /\ \A u \in Threads, i \in Nat, o \in Objects :
           Waits(u, i, o)' =>
             \/ u # t /\ Waits(u, i, o)
             \/ u = t /\ i < cur[t] /\ Waits(t, i, o)
             \/ u = t /\ i >= cur[t] /\ Waits(t, i + 1, o)
  BY FreeWaits
<1>3. \A o \in deletionList[t][cur[t]].nodes : Waits(t, cur[t], o) /\ o \in Objects
  <2>1. deletionList[t][cur[t]] \in LabelDelete
    BY <1>2 DEF TypeOK
  <2> QED
    BY <1>2, <2>1 DEF Waits, LabelDelete
<1>4. \A o \in Objects : Linked(o)' <=> Linked(o)
  BY <1>1 DEF Linked
<1>5. \A o \in freed' : o \in used' /\ ~Linked(o)'
  BY <1>1, <1>2, <1>3, <1>4 DEF Located, TypeOK
<1>6. \A u \in Threads, i \in Nat, o \in Objects :
        Waits(u, i, o)' => o \in used' /\ o \notin freed' /\ ~Linked(o)'
  <2> SUFFICES ASSUME NEW u \in Threads, NEW i \in Nat, NEW o \in Objects,
                      Waits(u, i, o)'
               PROVE  o \in used' /\ o \notin freed' /\ ~Linked(o)'
    OBVIOUS
  <2>1. PICK j \in Nat : Waits(u, j, o) /\ (u = t => j # cur[t])
    BY <1>2
  <2>2. o \notin deletionList[t][cur[t]].nodes
    BY <1>2, <1>3, <2>1 DEF Located
  <2> QED
    BY <1>1, <1>4, <2>1, <2>2 DEF Located
<1>7. \A u \in Threads :
         pc'[u] = "unlinked" =>
           /\ old'[u] \in used' /\ old'[u] \notin freed'
           /\ \A p \in Places : link'[p] # old'[u]
           /\ \A v \in Threads, i \in Nat :
                ~(i \in 1..Len(deletionList'[v]) /\ old'[u] \in deletionList'[v][i].nodes)
  <2> SUFFICES ASSUME NEW u \in Threads, pc[u] = "unlinked"
               PROVE  /\ old[u] \in used /\ old[u] \notin freed'
                      /\ \A p \in Places : link[p] # old[u]
                      /\ \A v \in Threads, i \in Nat, o \in Objects :
                           Waits(v, i, o)' => o # old[u]
    <3>1. \A u \in Threads : pc[u] = "unlinked" => old[u] \in Objects
      BY DEF Located, TypeOK
    <3> QED
      BY <1>1, <3>1 DEF Waits
  <2>1. /\ old[u] \in used /\ old[u] \notin freed /\ ~Linked(old[u])
        /\ \A v \in Threads, i \in Nat : ~Waits(v, i, old[u])
    BY DEF Located
  <2>2. old[u] \notin deletionList[t][cur[t]].nodes
    BY <1>2, <1>3, <2>1
  <2>3. \A v \in Threads, i \in Nat, o \in Objects : Waits(v, i, o)' => o # old[u]
    BY <1>2, <2>1
  <2> QED
    BY <1>1, <2>1, <2>2, <2>3 DEF Linked
<1>8. \A u, v \in Threads, i, j \in Nat, o \in Objects :
        Waits(u, i, o)' /\ Waits(v, j, o)' => u = v /\ i = j
  <2> SUFFICES ASSUME NEW u \in Threads, NEW v \in Threads, NEW i \in Nat,
                      NEW j \in Nat, NEW o \in Objects,
                      Waits(u, i, o)', Waits(v, j, o)'
               PROVE  u = v /\ i = j
    OBVIOUS
  <2>1. \/ u # t /\ Waits(u, i, o)
        \/ u = t /\ i < cur[t] /\ Waits(u, i, o)
        \/ u = t /\ i >= cur[t] /\ Waits(u, i + 1, o)
    BY <1>2
  <2>2. \/ v # t /\ Waits(v, j, o)
        \/ v = t /\ j < cur[t] /\ Waits(v, j, o)
        \/ v = t /\ j >= cur[t] /\ Waits(v, j + 1, o)
    BY <1>2
  <2>3. u = v
    BY <2>1, <2>2 DEF Located
  <2>7. cur[t] \in Nat
    BY DEF TypeOK
  <2> DEFINE a == IF u = t /\ i >= cur[t] THEN i + 1 ELSE i
             b == IF v = t /\ j >= cur[t] THEN j + 1 ELSE j
  <2>4. Waits(u, a, o) /\ a \in Nat
    <3>1. CASE u = t /\ i >= cur[t]
      BY <2>1, <2>7, <3>1
    <3>2. CASE ~(u = t /\ i >= cur[t])
      BY <2>1, <2>7, <3>2
    <3> QED
      BY <3>1, <3>2
  <2>5. Waits(v, b, o) /\ b \in Nat
    <3>1. CASE v = t /\ j >= cur[t]
      BY <2>2, <2>7, <3>1
    <3>2. CASE ~(v = t /\ j >= cur[t])
      BY <2>2, <2>7, <3>2
    <3> QED
      BY <3>1, <3>2
  <2>6. a = b
    BY <2>4, <2>5 DEF Located
  <2> QED
    BY <2>3, <2>4, <2>5, <2>6, <2>7
<1> QED
  BY <1>1, <1>5, <1>6, <1>7, <1>8 DEF Located, Waits, Linked

LEMMA DestroyedLocated ==
  ASSUME TypeOK, Located, EpocheDestroyed
  PROVE  Located'
<1>1. \A u \in Threads, i \in Nat, o \in Objects : ~Waits(u, i, o)'
  BY DEF EpocheDestroyed, Waits
<1>2. \A o \in AllOnLabels : \E t \in Threads, i \in Nat : Waits(t, i, o)
  BY DEF AllOnLabels, OnLabels, Waits, TypeOK
<1>3. \A o \in freed' : o \in used' /\ ~Linked(o)'
  <2>1. /\ freed' = freed \cup AllOnLabels /\ AllOnLabels \subseteq Objects
        /\ used' = used /\ link' = link
    <3>1. ASSUME NEW t \in Threads, NEW i \in Nat, NEW o, Waits(t, i, o)
          PROVE  o \in Objects
      <4>1. deletionList[t][i] \in LabelDelete
        BY <3>1 DEF Waits, TypeOK
      <4> QED
        BY <3>1, <4>1 DEF Waits, LabelDelete
    <3> QED
      BY <1>2, <3>1 DEF EpocheDestroyed, tableVars
  <2>2. \A o \in AllOnLabels : o \in used /\ ~Linked(o)
    BY <1>2, <2>1 DEF Located
  <2>3. \A o \in freed : o \in used /\ ~Linked(o)
    BY DEF Located
  <2> QED
    BY <2>1, <2>2, <2>3 DEF Linked
<1>4. \A u \in Threads : pc'[u] # "unlinked"
  BY DEF EpocheDestroyed
<1> QED
  BY <1>1, <1>3, <1>4 DEF Located

LEMMA LocatedStep ==
  ASSUME RetireFirst = FALSE, TypeOK, Locking, Located, [Next]_vars
  PROVE  Located'
<1>1. CASE \E t \in Threads, new \in Objects : Unlink(t, new)
  BY <1>1, UnlinkLocated
<1>2. CASE \E t \in Threads : Retire(t)
  BY <1>2, RetireLocated
<1>3. CASE \E t \in Threads : FreeLabel(t)
  BY <1>3, FreeLocated
<1>4. CASE EpocheDestroyed
  BY <1>4, DestroyedLocated
<1>5. CASE /\ \A t \in Threads : /\ \A new \in Objects : ~Unlink(t, new)
                                 /\ ~Retire(t) /\ ~FreeLabel(t)
           /\ ~EpocheDestroyed
  BY <1>5, MostActionsElsewhere, LocatedElsewhere
<1> QED
  BY <1>1, <1>2, <1>3, <1>4, <1>5

-----------------------------------------------------------------------------
(* What is held is covered by an epoch                                      *)

LEMMA SearchCovered ==
  ASSUME NEW t \in Threads, NEW p \in Places,
         TypeOK, Locking, Located, Covered, Search(t, p)
  PROVE  Covered'
<1>1. /\ pc[t] \in {"entered", "again"}
      /\ hold' = [hold EXCEPT ![t] = link[p]]
      /\ unseen' = [unseen EXCEPT ![t] = (localEpoche[t] = MaxEpoche)]
      /\ UNCHANGED <<currentEpoche, localEpoche, pending, deletionList, freed, used,
                     pc, oldestEpoche, left>>
  BY DEF Search, epocheVars, listVars, scanVars
<1>2. link[p] \in used /\ link[p] \notin freed /\ link[p] \in Objects
      /\ \A u \in Threads, i \in Nat : ~Waits(u, i, link[p])
  BY DEF Locking, Located, Linked, TypeOK
<1>3. \A v, u \in Threads, i \in Nat :
        Waits(u, i, hold[v])' =>
          v # t /\ hold'[v] = hold[v] /\ unseen'[v] = unseen[v] /\ Waits(u, i, hold[v])
  BY <1>1, <1>2 DEF Waits, TypeOK
<1>4. /\ \A v \in Threads : pending'[v] # None => pending'[v] <= currentEpoche'
      /\ \A v \in Threads : hold'[v] # None => pc'[v] \in Reading /\ hold'[v] \in used'
      /\ \A v \in Threads :
           localEpoche'[v] <= currentEpoche' \/ localEpoche'[v] = MaxEpoche
  BY <1>1, <1>2 DEF Covered, TypeOK, Reading
<1>5. \A v \in Threads : hold'[v] # None /\ ~unseen'[v] => localEpoche'[v] <= currentEpoche'
  BY <1>1 DEF Covered, TypeOK
<1>6. /\ \A v, u \in Threads, i \in Nat :
           Waits(u, i, hold[v])' /\ ~unseen'[v] =>
             /\ localEpoche'[v] <= deletionList'[u][i].epoche
             /\ pending'[v] # None => pending'[v] <= deletionList'[u][i].epoche
      /\ \A v, u \in Threads, i \in Nat :
           pc'[u] = "scan" /\ Waits(u, i, hold[v])' /\ ~unseen'[v] /\ v \notin left'[u] =>
             oldestEpoche'[u] <= deletionList'[u][i].epoche
  BY <1>1, <1>3 DEF Covered
<1>7. SeenIsNotFreed'
  BY <1>1, <1>2 DEF Covered, SeenIsNotFreed, TypeOK
<1> QED
  BY <1>4, <1>5, <1>6, <1>7 DEF Covered

(* Steps that neither read nor free: a thread's hold may end; while it      *)
(* holds something its list keeps what it shows or comes to show what was   *)
(* pending.                                                                 *)
Calm ==
  /\ UNCHANGED <<deletionList, freed>>
  /\ used \subseteq used'
  /\ currentEpoche <= currentEpoche'
  /\ \A v \in Threads : \/ hold'[v] = hold[v] /\ unseen'[v] = unseen[v]
                        \/ hold'[v] = None
  /\ \A v \in Threads : hold'[v] # None =>
       /\ pc'[v] \in Reading
       /\ \/ localEpoche'[v] = localEpoche[v] /\ pending'[v] = pending[v]
          \/ pending[v] # None /\ localEpoche'[v] = pending[v] /\ pending'[v] = None
  /\ \A v \in Threads :
       localEpoche'[v] <= currentEpoche' \/ localEpoche'[v] = MaxEpoche
  /\ \A v \in Threads : pending'[v] # None => pending'[v] <= currentEpoche'
  /\ \A u, v \in Threads :
       pc'[u] = "scan" /\ v \notin left'[u] =>
         \/ pc[u] = "scan" /\ v \notin left[u] /\ oldestEpoche'[u] <= oldestEpoche[u]
         \/ pc[u] = "scan" /\ oldestEpoche'[u] <= localEpoche[v]

LEMMA CalmCovered ==
  ASSUME TypeOK, TypeOK', Covered, Calm
  PROVE  Covered'
<1>1. \A v, u \in Threads, i \in Nat :
        Waits(u, i, hold[v])' =>
          /\ hold'[v] = hold[v] /\ hold[v] # None /\ unseen'[v] = unseen[v]
          /\ Waits(u, i, hold[v])
          /\ deletionList[u][i].epoche \in Int
  <2> SUFFICES ASSUME NEW v \in Threads, NEW u \in Threads, NEW i \in Nat,
                      Waits(u, i, hold[v])'
               PROVE  /\ hold'[v] = hold[v] /\ hold[v] # None /\ unseen'[v] = unseen[v]
                      /\ Waits(u, i, hold[v])
                      /\ deletionList[u][i].epoche \in Int
    OBVIOUS
  <2>1. deletionList[u][i] \in LabelDelete /\ hold'[v] \in deletionList[u][i].nodes
        /\ i \in 1..Len(deletionList[u])
    <3>1. deletionList' = deletionList
      BY DEF Calm
    <3>2. i \in 1..Len(deletionList[u]) /\ hold'[v] \in deletionList[u][i].nodes
      BY <3>1 DEF Waits
    <3>3. deletionList[u] \in Seq(LabelDelete)
      BY DEF TypeOK
    <3>4. deletionList[u][i] \in LabelDelete
      BY <3>2, <3>3
    <3> QED
      BY <3>2, <3>4
  <2>2. hold'[v] \in Objects /\ deletionList[u][i].epoche \in Int
    BY <2>1 DEF LabelDelete
  <2> QED
    BY <2>1, <2>2, NoneAssumption DEF Calm, Waits
<1>2. ASSUME NEW v \in Threads, NEW u \in Threads, NEW i \in Nat,
             Waits(u, i, hold[v])', ~unseen'[v]
      PROVE  /\ localEpoche'[v] <= deletionList'[u][i].epoche
             /\ pending'[v] # None => pending'[v] <= deletionList'[u][i].epoche
  <2>1. /\ localEpoche[v] <= deletionList[u][i].epoche
        /\ pending[v] # None => pending[v] <= deletionList[u][i].epoche
    BY <1>1, <1>2 DEF Covered
  <2>2. \/ localEpoche'[v] = localEpoche[v] /\ pending'[v] = pending[v]
        \/ pending[v] # None /\ localEpoche'[v] = pending[v] /\ pending'[v] = None
    BY <1>1, <1>2 DEF Calm
  <2> QED
    BY <2>1, <2>2 DEF Calm
<1>3. ASSUME NEW v \in Threads, NEW u \in Threads, NEW i \in Nat,
             pc'[u] = "scan", Waits(u, i, hold[v])', ~unseen'[v], v \notin left'[u]
      PROVE  oldestEpoche'[u] <= deletionList'[u][i].epoche
  <2>1. /\ oldestEpoche'[u] \in Int /\ oldestEpoche[u] \in Int
        /\ localEpoche[v] \in Int /\ deletionList[u][i].epoche \in Int
        /\ deletionList' = deletionList
    BY <1>1, <1>3 DEF TypeOK, Calm
  <2>2. CASE pc[u] = "scan" /\ oldestEpoche'[u] <= localEpoche[v]
    <3>1. localEpoche[v] <= deletionList[u][i].epoche
      BY <1>1, <1>3 DEF Covered
    <3> QED
      BY <2>1, <2>2, <3>1
  <2>3. CASE pc[u] = "scan" /\ v \notin left[u] /\ oldestEpoche'[u] <= oldestEpoche[u]
    <3>1. oldestEpoche[u] <= deletionList[u][i].epoche
      BY <1>1, <1>3, <2>3 DEF Covered
    <3> QED
      BY <2>1, <2>3, <3>1
  <2> QED
    BY <1>3, <2>2, <2>3 DEF Calm
<1>4. SeenIsNotFreed'
  BY DEF Covered, SeenIsNotFreed, Calm
<1>5. \A v \in Threads : hold'[v] # None => pc'[v] \in Reading /\ hold'[v] \in used'
  BY DEF Covered, Calm
<1>6. \A v \in Threads : hold'[v] # None /\ ~unseen'[v] => localEpoche'[v] <= currentEpoche'
  <2> SUFFICES ASSUME NEW v \in Threads, hold'[v] # None, ~unseen'[v]
               PROVE  localEpoche'[v] <= currentEpoche'
    OBVIOUS
  <2>1. hold[v] # None /\ ~unseen[v]
    BY DEF Calm
  <2>2. localEpoche[v] <= currentEpoche
    BY <2>1 DEF Covered
  <2>3. pending[v] # None => pending[v] <= currentEpoche
    BY DEF Covered
  <2>4. localEpoche'[v] <= currentEpoche
    BY <2>2, <2>3 DEF Calm
  <2>5. localEpoche'[v] \in Int /\ currentEpoche \in Int /\ currentEpoche' \in Int
    BY DEF TypeOK
  <2> QED
    BY <2>4, <2>5 DEF Calm
<1> QED
  BY <1>2, <1>3, <1>4, <1>5, <1>6 DEF Covered, Calm

LEMMA RetireCovered ==
  ASSUME NEW t \in Threads, RetireFirst = FALSE,
         TypeOK, Locking, Located, Covered, Retire(t)
  PROVE  Covered'
<1>1. /\ pc[t] = "unlinked" /\ pc' = [pc EXCEPT ![t] = "unlock"]
      /\ UNCHANGED <<currentEpoche, localEpoche, pending, freed, used, hold,
                     unseen, oldestEpoche, left>>
  BY DEF Retire, Goto, epocheVars, scanVars
<1>2. old[t] \in Objects
  BY <1>1 DEF Locking, TypeOK
<1>3. PICK s \in {0, 1} :
        \A u \in Threads, i \in Nat, o \in Objects :
          Waits(u, i, o)' =>
            \/ /\ u = t /\ i = 1 /\ o = old[t]
               /\ deletionList'[u][i].epoche = currentEpoche
            \/ /\ u # t /\ Waits(u, i, o)
               /\ deletionList'[u][i] = deletionList[u][i]
            \/ /\ u = t /\ i - s \in Nat /\ Waits(t, i - s, o)
               /\ \/ deletionList'[u][i].epoche = deletionList[t][i - s].epoche
                  \/ deletionList'[u][i].epoche = currentEpoche
  BY <1>2, RetireWaits
<1>4. \A v \in Threads : hold[v] # None /\ ~unseen[v] =>
        /\ hold[v] \in Objects /\ localEpoche[v] <= currentEpoche
        /\ pending[v] # None => pending[v] <= currentEpoche
  BY DEF Covered, TypeOK
<1>5. ASSUME NEW v \in Threads, NEW u \in Threads, NEW i \in Nat,
             Waits(u, i, hold[v])', ~unseen[v]
      PROVE  /\ localEpoche[v] <= deletionList'[u][i].epoche
             /\ pending[v] # None => pending[v] <= deletionList'[u][i].epoche
             /\ u # t => /\ Waits(u, i, hold[v])
                         /\ deletionList'[u][i] = deletionList[u][i]
  <2>1. deletionList' \in [Threads -> Seq(LabelDelete)]
    BY <1>2, RetireWaits
  <2>2. i \in 1..Len(deletionList'[u]) /\ hold[v] \in deletionList'[u][i].nodes
    BY <1>1, <1>5 DEF Waits
  <2>3. deletionList'[u][i] \in LabelDelete
    BY <2>1, <2>2
  <2>4. hold[v] \in Objects /\ hold[v] # None
    BY <2>2, <2>3, NoneAssumption DEF LabelDelete
  <2>5. /\ localEpoche[v] <= currentEpoche
        /\ pending[v] # None => pending[v] <= currentEpoche
    BY <1>4, <1>5, <2>4
  <2>7. \A o \in Objects : o = hold[v] => Waits(u, i, o)'
    BY <2>2 DEF Waits
  <2>8. \/ deletionList'[u][i].epoche = currentEpoche /\ u = t
        \/ /\ u # t /\ Waits(u, i, hold[v])
           /\ deletionList'[u][i] = deletionList[u][i]
        \/ /\ u = t /\ i - s \in Nat /\ Waits(t, i - s, hold[v])
           /\ deletionList'[u][i].epoche = deletionList[t][i - s].epoche
    BY <1>3, <2>4, <2>7
  <2> QED
    BY <1>5, <2>5, <2>8 DEF Covered
<1>6. \A v, u \in Threads, i \in Nat :
        Waits(u, i, hold[v])' /\ ~unseen'[v] =>
          /\ localEpoche'[v] <= deletionList'[u][i].epoche
          /\ pending'[v] # None => pending'[v] <= deletionList'[u][i].epoche
  BY <1>1, <1>5
<1>7. \A v, u \in Threads, i \in Nat :
        pc'[u] = "scan" /\ Waits(u, i, hold[v])' /\ ~unseen'[v] /\ v \notin left'[u] =>
          oldestEpoche'[u] <= deletionList'[u][i].epoche
  <2>1. \A u \in Threads : pc'[u] = "scan" => u # t /\ pc[u] = "scan"
    BY <1>1 DEF TypeOK
  <2> QED
    BY <1>1, <1>5, <2>1 DEF Covered
<1>8. /\ \A v \in Threads :
           localEpoche'[v] <= currentEpoche' \/ localEpoche'[v] = MaxEpoche
      /\ \A v \in Threads : pending'[v] # None => pending'[v] <= currentEpoche'
      /\ \A v \in Threads : hold'[v] # None => pc'[v] \in Reading /\ hold'[v] \in used'
      /\ \A v \in Threads :
           hold'[v] # None /\ ~unseen'[v] => localEpoche'[v] <= currentEpoche'
  BY <1>1 DEF Covered, TypeOK, Reading
<1>9. SeenIsNotFreed'
  BY <1>1 DEF Covered, SeenIsNotFreed
<1> QED
  BY <1>6, <1>7, <1>8, <1>9 DEF Covered

LEMMA FreeCovered ==
  ASSUME NEW t \in Threads, TypeOK, Covered, FreeLabel(t)
  PROVE  Covered'
<1>1. /\ pc' = pc /\ pc[t] = "scan" /\ left[t] = {}
      /\ deletionList[t][cur[t]].epoche < oldestEpoche[t]
      /\ freed' = freed \cup deletionList[t][cur[t]].nodes
      /\ UNCHANGED <<currentEpoche, localEpoche, pending, used, hold,
                     unseen, oldestEpoche, left>>
  BY DEF FreeLabel, Cleaning, IsOld, Label, epocheVars, tableVars, scanVars
<1>2. /\ cur[t] \in 1..Len(deletionList[t])
      /\ deletionList' \in [Threads -> Seq(LabelDelete)]
      /\ \A u \in Threads, i \in Nat, o \in Objects :
           Waits(u, i, o)' =>
             \E j \in Nat : Waits(u, j, o) /\ deletionList'[u][i] = deletionList[u][j]
  <2>1. /\ cur[t] \in 1..Len(deletionList[t])
        /\ deletionList' \in [Threads -> Seq(LabelDelete)]
        /\ \A u \in Threads, i \in Nat, o \in Objects :
             Waits(u, i, o)' =>
               \/ /\ u # t /\ Waits(u, i, o)
                  /\ deletionList'[u][i] = deletionList[u][i]
               \/ /\ u = t
                  /\ i < cur[t] /\ Waits(t, i, o)
                  /\ deletionList'[u][i] = deletionList[t][i]
               \/ /\ u = t
                  /\ i >= cur[t] /\ Waits(t, i + 1, o)
                  /\ deletionList'[u][i] = deletionList[t][i + 1]
    BY FreeWaits
  <2>2. \A i \in Nat : i + 1 \in Nat
    OBVIOUS
  <2> QED
    BY <2>1, <2>2
<1>3. ASSUME NEW v \in Threads, NEW u \in Threads, NEW i \in Nat,
             Waits(u, i, hold[v])'
      PROVE  \E j \in Nat :
               Waits(u, j, hold[v]) /\ deletionList'[u][i] = deletionList[u][j]
  <2>1. i \in 1..Len(deletionList'[u]) /\ hold[v] \in deletionList'[u][i].nodes
    BY <1>1, <1>3 DEF Waits
  <2>2. deletionList'[u][i] \in LabelDelete
    BY <1>2, <2>1
  <2>3. hold[v] \in Objects
    BY <2>1, <2>2 DEF LabelDelete
  <2>4. \A o \in Objects : o = hold[v] => Waits(u, i, o)'
    BY <2>1 DEF Waits
  <2> QED
    BY <1>2, <2>3, <2>4
<1>4. \A v, u \in Threads, i \in Nat :
        Waits(u, i, hold[v])' /\ ~unseen'[v] =>
          /\ localEpoche'[v] <= deletionList'[u][i].epoche
          /\ pending'[v] # None => pending'[v] <= deletionList'[u][i].epoche
  BY <1>1, <1>3 DEF Covered
<1>5. \A v, u \in Threads, i \in Nat :
        pc'[u] = "scan" /\ Waits(u, i, hold[v])' /\ ~unseen'[v] /\ v \notin left'[u] =>
          oldestEpoche'[u] <= deletionList'[u][i].epoche
  BY <1>1, <1>3 DEF Covered
<1>6. ASSUME NEW v \in Threads, hold[v] # None, ~unseen[v]
      PROVE  hold[v] \notin freed'
  <2>1. CASE hold[v] \in deletionList[t][cur[t]].nodes
    <3>1. Waits(t, cur[t], hold[v]) /\ cur[t] \in Nat
      BY <1>2, <2>1 DEF Waits, TypeOK
    <3>2. oldestEpoche[t] <= deletionList[t][cur[t]].epoche
      BY <1>1, <1>6, <3>1 DEF Covered
    <3>3. deletionList[t][cur[t]] \in LabelDelete
      BY <1>2 DEF TypeOK
    <3> QED
      BY <1>1, <3>2, <3>3 DEF TypeOK, LabelDelete
  <2>2. CASE hold[v] \notin deletionList[t][cur[t]].nodes
    BY <1>1, <1>6, <2>2 DEF Covered, SeenIsNotFreed
  <2> QED
    BY <2>1, <2>2
<1>7. /\ \A v \in Threads :
           localEpoche'[v] <= currentEpoche' \/ localEpoche'[v] = MaxEpoche
      /\ \A v \in Threads : pending'[v] # None => pending'[v] <= currentEpoche'
      /\ \A v \in Threads : hold'[v] # None => pc'[v] \in Reading /\ hold'[v] \in used'
      /\ \A v \in Threads :
           hold'[v] # None /\ ~unseen'[v] => localEpoche'[v] <= currentEpoche'
  BY <1>1 DEF Covered
<1> QED
  BY <1>1, <1>4, <1>5, <1>6, <1>7 DEF Covered, SeenIsNotFreed

LEMMA DestroyedCovered ==
  ASSUME TypeOK, Covered, EpocheDestroyed
  PROVE  Covered'
<1>1. \A t \in Threads : hold[t] = None /\ hold'[t] = None /\ pc'[t] = "destroyed"
  BY DEF EpocheDestroyed, Covered, Reading, tableVars
<1>3. \A t \in Threads :
        /\ localEpoche'[t] <= currentEpoche' \/ localEpoche'[t] = MaxEpoche
        /\ pending'[t] # None => pending'[t] <= currentEpoche'
  BY DEF EpocheDestroyed, Covered, epocheVars
<1>4. \A t \in Threads, u \in Threads, i \in Nat : ~Waits(u, i, hold[t])'
  BY DEF EpocheDestroyed, Waits
<1> QED
  BY <1>1, <1>3, <1>4 DEF Covered, SeenIsNotFreed, Reading

LEMMA MostActionsCalm ==
  ASSUME RetireFirst = FALSE, TypeOK, TypeOK', Locking, Covered, [Next]_vars,
         \A t \in Threads : /\ \A p \in Places : ~Search(t, p)
                            /\ ~Retire(t) /\ ~FreeLabel(t),
         ~EpocheDestroyed
  PROVE  Calm
<1> USE DEF Goto, LetGo, epocheVars, listVars, tableVars, scanVars
<1>a. /\ currentEpoche \in Nat
      /\ localEpoche \in [Threads -> Nat]
      /\ pc \in [Threads -> Pcs]
      /\ hold \in [Threads -> Objects \cup {None}]
      /\ unseen \in [Threads -> BOOLEAN]
      /\ pending \in [Threads -> Nat \cup {None}]
      /\ oldestEpoche \in [Threads -> Nat]
      /\ left \in [Threads -> SUBSET Threads]
      /\ None \notin Nat
  BY NumbersAssumption, NoneAssumption DEF TypeOK, Pcs
<1>b. /\ \A t \in Threads : pending[t] # None => pending[t] <= currentEpoche
      /\ \A t \in Threads : hold[t] # None => pc[t] \in Reading
      /\ \A t \in Threads : localEpoche[t] <= currentEpoche \/ localEpoche[t] = MaxEpoche
  BY DEF Covered
<1> USE <1>a, <1>b DEF Calm, Reading, Pcs
<1>1. ASSUME NEW t \in Threads, EnterLoad(t) PROVE Calm
  BY <1>1 DEF EnterLoad
<1>2. ASSUME NEW t \in Threads, EnterStore(t) PROVE Calm
  BY <1>2 DEF EnterStore
<1>3. ASSUME NEW t \in Threads, FindReturns(t) PROVE Calm
  BY <1>3 DEF FindReturns
<1>4. ASSUME NEW t \in Threads, NEW p \in Places, LockPlace(t, p) PROVE Calm
  BY <1>4 DEF LockPlace
<1>5. ASSUME NEW t \in Threads, NEW new \in Objects, Unlink(t, new) PROVE Calm
  <2>1. /\ pc[t] = "locked" /\ pc' = [pc EXCEPT ![t] = "unlinked"]
        /\ used' = used \cup {new}
        /\ UNCHANGED <<currentEpoche, localEpoche, pending, deletionList, freed, hold,
                      unseen, oldestEpoche, left>>
    BY <1>5 DEF Unlink
  <2> QED
    BY <2>1
<1>6. ASSUME NEW t \in Threads, Unlock(t) PROVE Calm
  BY <1>6 DEF Unlock
<1>7. ASSUME NEW t \in Threads, GuardEnds(t) PROVE Calm
  BY <1>7 DEF GuardEnds
<1>8. ASSUME NEW t \in Threads, ExitBump(t) PROVE Calm
  BY <1>8 DEF ExitBump, NextEpoche
<1>9. ASSUME NEW t \in Threads, ExitEarly(t) \/ CleanupEnds(t) PROVE Calm
  <2>1. /\ pc[t] \in {"bumped", "scan"} /\ pc' = [pc EXCEPT ![t] = "idle"]
        /\ UNCHANGED <<currentEpoche, localEpoche, pending, deletionList, freed, used,
                      hold, unseen>>
        /\ \A u \in Threads \ {t} :
             oldestEpoche'[u] = oldestEpoche[u] /\ left'[u] = left[u]
    BY <1>9 DEF ExitEarly, CleanupEnds
  <2>2. \A v \in Threads : pc'[v] \in Reading \cup {"scan"} => pc'[v] = pc[v]
    BY <2>1
  <2>3. hold[t] = None
    BY <2>1
  <2> QED
    BY <2>1, <2>2, <2>3
<1>10. ASSUME NEW t \in Threads, ScanBegin(t) PROVE Calm
  BY <1>10 DEF ScanBegin
<1>11. ASSUME NEW t \in Threads, NEW u \in Threads, ScanOne(t, u) PROVE Calm
  BY <1>11 DEF ScanOne
<1>12. ASSUME NEW t \in Threads, KeepLabel(t) PROVE Calm
  BY <1>12 DEF KeepLabel
<1>13. ASSUME NEW t \in Threads, ThreadGone(t) PROVE Calm
  BY <1>13 DEF ThreadGone
<1>14. CASE UNCHANGED vars
  BY <1>14 DEF vars
<1> QED
  BY <1>1, <1>2, <1>3, <1>4, <1>5, <1>6, <1>7, <1>8, <1>9, <1>10, <1>11, <1>12,
     <1>13, <1>14 DEF Next

LEMMA CoveredStep ==
  ASSUME RetireFirst = FALSE, TypeOK, TypeOK', Locking, Located, Covered,
         [Next]_vars
  PROVE  Covered'
<1>1. CASE \E t \in Threads, p \in Places : Search(t, p)
  BY <1>1, SearchCovered
<1>2. CASE \E t \in Threads : Retire(t)
  BY <1>2, RetireCovered
<1>3. CASE \E t \in Threads : FreeLabel(t)
  BY <1>3, FreeCovered
<1>4. CASE EpocheDestroyed
  BY <1>4, DestroyedCovered
<1>5. CASE /\ \A t \in Threads : /\ \A p \in Places : ~Search(t, p)
                                 /\ ~Retire(t) /\ ~FreeLabel(t)
           /\ ~EpocheDestroyed
  BY <1>5, MostActionsCalm, CalmCovered
<1> QED
  BY <1>1, <1>2, <1>3, <1>4, <1>5

LEMMA InitLocated == Init => Located
<1> SUFFICES ASSUME Init PROVE Located
  OBVIOUS
<1>1. \A u \in Threads, i \in Nat, o \in Objects : ~Waits(u, i, o)
  BY DEF Init, Waits
<1> QED
  BY <1>1 DEF Init, Located

LEMMA InitCovered == Init => Covered
<1> SUFFICES ASSUME Init PROVE Covered
  OBVIOUS
<1>1. \A u, t \in Threads, i \in Nat : ~Waits(u, i, hold[t])
  BY DEF Init, Waits
<1> QED
  BY <1>1, NumbersAssumption DEF Init, Covered, Reading, SeenIsNotFreed

-----------------------------------------------------------------------------
(* An object waits on one label only, and is not freed while it waits, when *)
(* it is unlinked before it is retired.                                     *)
THEOREM NoCallbackTwice ==
  ASSUME RetireFirst = FALSE
  PROVE  Spec => []WaitsOnce
<1>1. Init => TypeOK /\ Locking /\ Located
  BY EpocheInit, InitLocated
<1>2. TypeOK /\ Locking /\ Located /\ [Next]_vars => (TypeOK /\ Locking /\ Located)'
  BY TypeStep, LockingStep, LocatedStep
<1>3. TypeOK /\ Located => WaitsOnce
  <2> SUFFICES ASSUME TypeOK, Located,
                      NEW t \in Threads, NEW u \in Threads,
                      NEW i \in DOMAIN deletionList[t],
                      NEW j \in DOMAIN deletionList[u],
                      NEW o \in deletionList[t][i].nodes
               PROVE  /\ o \notin freed
                      /\ o \in deletionList[u][j].nodes => t = u /\ i = j
    BY DEF WaitsOnce
  <2>1. deletionList[t] \in Seq(LabelDelete) /\ deletionList[u] \in Seq(LabelDelete)
    BY DEF TypeOK
  <2>a. /\ i \in 1..Len(deletionList[t]) /\ i \in Nat
        /\ j \in 1..Len(deletionList[u]) /\ j \in Nat
    BY <2>1
  <2>b. deletionList[t][i] \in LabelDelete
    BY <2>1, <2>a
  <2>2. i \in Nat /\ j \in Nat /\ o \in Objects /\ Waits(t, i, o)
    BY <2>a, <2>b DEF Waits, LabelDelete
  <2>3. o \in deletionList[u][j].nodes => Waits(u, j, o)
    BY <2>a DEF Waits
  <2> QED
    BY <2>2, <2>3 DEF Located
<1> QED
  BY <1>1, <1>2, <1>3, PTL DEF Spec

(* What a thread has read is not freed under it, for any number of threads, *)
(* places and objects and any thresholds: provided that objects are         *)
(* unlinked before they are retired, as MinorRehash does, and unless its    *)
(* list showed no epoch when it read, which the release store of            *)
(* enterEpoche permits after a cleanup.                                     *)
THEOREM SafeReclamation ==
  ASSUME RetireFirst = FALSE
  PROVE  Spec => []SeenIsNotFreed
<1>1. Init => EpocheInv
  BY EpocheInit, InitLocated, InitCovered DEF EpocheInv
<1>2. EpocheInv /\ [Next]_vars => EpocheInv'
  BY TypeStep, LockingStep, LocatedStep, CoveredStep DEF EpocheInv
<1>3. EpocheInv => SeenIsNotFreed
  BY DEF EpocheInv, Covered
<1> QED
  BY <1>1, <1>2, <1>3, PTL DEF Spec

-----------------------------------------------------------------------------
(* What is on the lists                                                     *)

NodesOf(list) == UNION {list[i].nodes : i \in DOMAIN list}

LEMMA AddNodes ==
  ASSUME NEW list \in Seq(LabelDelete), NEW o \in Objects,
         NEW e \in 0..(MaxEpoche - 1)
  PROVE  NodesOf(Add(list, o, e)) = NodesOf(list) \cup {o}
<1> DEFINE new == Add(list, o, e)
<1>1. new \in Seq(LabelDelete) /\ DOMAIN new = 1..Len(new) /\ DOMAIN list = 1..Len(list)
  BY AddCases
<1>2. \/ /\ list # <<>> /\ Len(new) = Len(list)
         /\ new[1].nodes = list[1].nodes \cup {o}
         /\ \A i \in 2..Len(list) : new[i] = list[i]
      \/ /\ Len(new) = Len(list) + 1
         /\ new[1].nodes = {o}
         /\ \A i \in 1..Len(list) : new[i + 1] = list[i]
  BY AddCases
<1> HIDE DEF new
<1>3. CASE /\ list # <<>> /\ Len(new) = Len(list)
           /\ new[1].nodes = list[1].nodes \cup {o}
           /\ \A i \in 2..Len(list) : new[i] = list[i]
  <2>1. 1 \in 1..Len(list) /\ \A i \in 1..Len(list) : i = 1 \/ i \in 2..Len(list)
    BY <1>3
  <2> QED
    BY <1>1, <1>3, <2>1 DEF NodesOf, new
<1>4. CASE /\ Len(new) = Len(list) + 1
           /\ new[1].nodes = {o}
           /\ \A i \in 1..Len(list) : new[i + 1] = list[i]
  <2>1. 1 \in 1..Len(new) /\ \A i \in 1..Len(list) : i + 1 \in 1..Len(new)
    BY <1>4
  <2>2. \A j \in 1..Len(new) : j = 1 \/ \E i \in 1..Len(list) : j = i + 1
    <3> SUFFICES ASSUME NEW j \in 1..Len(new), j # 1
                 PROVE  \E i \in 1..Len(list) : j = i + 1
      OBVIOUS
    <3>1. j - 1 \in 1..Len(list) /\ j = (j - 1) + 1
      BY <1>4
    <3> QED
      BY <3>1
  <2>3. \A x : x \in NodesOf(new) <=> \E j \in 1..Len(new) : x \in new[j].nodes
    BY <1>1 DEF NodesOf
  <2>4. \A x : x \in NodesOf(list) <=> \E i \in 1..Len(list) : x \in list[i].nodes
    BY <1>1 DEF NodesOf
  <2>5. ASSUME NEW x
        PROVE  x \in NodesOf(new) <=> x \in NodesOf(list) \/ x = o
    <3>1. CASE x = o
      BY <1>4, <2>1, <2>3, <3>1
    <3>2. ASSUME x \in NodesOf(list)
          PROVE  x \in NodesOf(new)
      <4>1. PICK i \in 1..Len(list) : x \in list[i].nodes
        BY <2>4, <3>2
      <4>2. i + 1 \in 1..Len(new) /\ x \in new[i + 1].nodes
        BY <1>4, <2>1, <4>1
      <4> QED
        BY <2>3, <4>2
    <3>3. ASSUME x \in NodesOf(new), x # o
          PROVE  x \in NodesOf(list)
      <4>1. PICK j \in 1..Len(new) : x \in new[j].nodes
        BY <2>3, <3>3
      <4>2. j # 1
        BY <1>4, <3>3, <4>1
      <4>3. PICK i \in 1..Len(list) : j = i + 1
        BY <2>2, <4>2
      <4>4. x \in list[i].nodes
        BY <1>4, <4>1, <4>3
      <4> QED
        BY <2>4, <4>4
    <3> QED
      BY <3>1, <3>2, <3>3
  <2> QED
    BY <2>5 DEF new
<1> QED
  BY <1>2, <1>3, <1>4

LEMMA RemoveNodes ==
  ASSUME NEW list \in Seq(LabelDelete), NEW c \in 1..Len(list),
         \A i \in 1..Len(list) : i # c => list[i].nodes \cap list[c].nodes = {}
  PROVE  NodesOf(Remove(list, c)) = NodesOf(list) \ list[c].nodes
<1> DEFINE new == Remove(list, c)
<1>1. /\ new \in Seq(LabelDelete) /\ Len(new) = Len(list) - 1
      /\ \A i \in 1..(Len(list) - 1) : new[i] = list[IF i < c THEN i ELSE i + 1]
  BY RemoveCases
<1> HIDE DEF new
<1>2. /\ DOMAIN new = 1..(Len(list) - 1) /\ DOMAIN list = 1..Len(list)
  BY <1>1
<1>3. \A x : x \in NodesOf(new) <=> \E j \in 1..(Len(list) - 1) : x \in new[j].nodes
  BY <1>2 DEF NodesOf
<1>4. \A x : x \in NodesOf(list) <=> \E i \in 1..Len(list) : x \in list[i].nodes
  BY <1>2 DEF NodesOf
<1>5. ASSUME NEW x, x \in NodesOf(new)
      PROVE  x \in NodesOf(list) \ list[c].nodes
  <2>1. PICK j \in 1..(Len(list) - 1) : x \in new[j].nodes
    BY <1>3, <1>5
  <2>2. CASE j < c
    <3>1. j \in 1..Len(list) /\ j # c /\ x \in list[j].nodes
      BY <1>1, <2>1, <2>2
    <3> QED
      BY <1>4, <3>1
  <2>3. CASE ~(j < c)
    <3>1. j + 1 \in 1..Len(list) /\ j + 1 # c /\ x \in list[j + 1].nodes
      BY <1>1, <2>1, <2>3
    <3> QED
      BY <1>4, <3>1
  <2> QED
    BY <2>2, <2>3
<1>6. ASSUME NEW x \in NodesOf(list) \ list[c].nodes
      PROVE  x \in NodesOf(new)
  <2>1. PICK i \in 1..Len(list) : x \in list[i].nodes
    BY <1>4, <1>6
  <2>2. i # c
    BY <2>1, <1>6
  <2>3. CASE i < c
    <3>1. i \in 1..(Len(list) - 1) /\ new[i] = list[i]
      BY <1>1, <2>3
    <3> QED
      BY <1>3, <2>1, <3>1
  <2>4. CASE i > c
    <3>1. i - 1 \in 1..(Len(list) - 1) /\ ~(i - 1 < c) /\ (i - 1) + 1 = i
      BY <2>4
    <3>2. new[i - 1] = list[i]
      BY <1>1, <3>1
    <3> QED
      BY <1>3, <2>1, <3>1, <3>2
  <2> QED
    BY <2>2, <2>3, <2>4
<1> QED
  BY <1>5, <1>6 DEF new

LEMMA OnLabelsFinite ==
  ASSUME TypeOK, NEW t \in Threads
  PROVE  /\ OnLabels(t) = NodesOf(deletionList[t])
         /\ OnLabels(t) \subseteq Objects
         /\ IsFiniteSet(OnLabels(t))
<1>1. deletionList[t] \in Seq(LabelDelete)
  BY DEF TypeOK
<1>2. \A i \in DOMAIN deletionList[t] : deletionList[t][i] \in LabelDelete
  BY <1>1
<1>3. OnLabels(t) \subseteq Objects
  BY <1>2 DEF OnLabels, LabelDelete
<1> QED
  BY <1>3, ObjectsAssumption, FS_Subset DEF OnLabels, NodesOf

LEMMA OnLabelsWait ==
  ASSUME TypeOK, NEW t \in Threads, NEW o
  PROVE  o \in OnLabels(t) <=> \E i \in Nat : Waits(t, i, o)
<1>1. deletionList[t] \in Seq(LabelDelete)
  BY DEF TypeOK
<1>2. DOMAIN deletionList[t] = 1..Len(deletionList[t]) /\ Len(deletionList[t]) \in Nat
  BY <1>1
<1>3. 1..Len(deletionList[t]) \subseteq Nat
  BY <1>2
<1> QED
  BY <1>2, <1>3 DEF OnLabels, Waits

-----------------------------------------------------------------------------
(* Nothing is lost and the counts match                                     *)

(* What is left when the lists are destroyed.                               *)
AtEnd ==
  \A t \in Threads :
    pc[t] = "destroyed" => OnLabels(t) = {} /\ \A u \in Threads : pc[u] = "destroyed"

CountInv == NothingLost /\ CountMatches /\ AtEnd

(* What all actions do but Unlink, Retire and those that free.              *)
ListsKept ==
  /\ UNCHANGED <<deletionList, deletionListCount, freed, link, used>>
  /\ \A u \in Threads : old[u] # None => old'[u] = old[u]
  /\ \A u \in Threads : pc'[u] = "destroyed" <=> pc[u] = "destroyed"
  /\ \A u \in Threads :
       \/ thresholdCounter'[u] = thresholdCounter[u] /\ (pc[u] = "scan" => pc'[u] = "scan")
       \/ thresholdCounter'[u] = 0

LEMMA MostActionsListsKept ==
  ASSUME TypeOK, Locking, [Next]_vars,
         \A t \in Threads : /\ \A new \in Objects : ~Unlink(t, new)
                            /\ ~Retire(t) /\ ~FreeLabel(t),
         ~EpocheDestroyed
  PROVE  ListsKept
<1> USE DEF TypeOK, Goto, ListsKept, epocheVars, listVars, tableVars, scanVars
<1>1. ASSUME NEW t \in Threads,
             EnterLoad(t) \/ FindReturns(t) \/ GuardEnds(t) \/ ExitBump(t)
               \/ ExitEarly(t) \/ ScanBegin(t) \/ ThreadGone(t)
      PROVE  ListsKept
  <2>1. /\ UNCHANGED <<link, used, old, deletionList, deletionListCount, freed, thresholdCounter>>
        /\ pc[t] \in {"idle", "entered", "again", "exit", "bumped"}
        /\ \E x \in {"idle", "entered", "exit", "bumped", "scan", "gone"} :
             pc' = [pc EXCEPT ![t] = x]
    BY <1>1 DEF EnterLoad, FindReturns, GuardEnds, ExitBump, ExitEarly, ScanBegin, ThreadGone
  <2> QED
    BY <2>1
<1>2. ASSUME NEW t \in Threads,
             \/ EnterStore(t) \/ KeepLabel(t) \/ Unlock(t)
             \/ \E u \in Threads : ScanOne(t, u)
             \/ \E p \in Places : Search(t, p)
      PROVE  ListsKept
  BY <1>2 DEF EnterStore, KeepLabel, Unlock, ScanOne, Search
<1>3. ASSUME NEW t \in Threads, NEW p \in Places, LockPlace(t, p)
      PROVE  ListsKept
  BY <1>3 DEF LockPlace, Locking
<1>4. ASSUME NEW t \in Threads, CleanupEnds(t)
      PROVE  ListsKept
  BY <1>4 DEF CleanupEnds
<1>5. CASE UNCHANGED vars
  BY <1>5 DEF vars
<1> QED
  BY <1>1, <1>2, <1>3, <1>4, <1>5 DEF Next

LEMMA ListsKeptCounts ==
  ASSUME TypeOK, CountInv, ListsKept
  PROVE  CountInv'
<1>1. /\ UNCHANGED <<deletionList, deletionListCount, freed, link, used>>
      /\ \A t \in Threads : OnLabels(t)' = OnLabels(t)
  BY DEF ListsKept, OnLabels
<1>2. NothingLost'
  <2> SUFFICES ASSUME NEW o \in used
               PROVE  \/ o \in freed
                      \/ \E p \in Places : link[p] = o
                      \/ \E t \in Threads : old'[t] = o \/ o \in OnLabels(t)'
    BY <1>1 DEF NothingLost
  <2>1. CASE o \in freed \/ \E p \in Places : link[p] = o
    BY <2>1
  <2>2. CASE \E t \in Threads : old[t] = o \/ o \in OnLabels(t)
    <3>1. o # None
      BY NoneAssumption DEF TypeOK
    <3> QED
      BY <1>1, <2>2, <3>1 DEF ListsKept
  <2> QED
    BY <2>1, <2>2 DEF CountInv, NothingLost
<1>3. CountMatches'
  <2>1. \A t \in Threads : Cardinality(OnLabels(t)) \in Nat
    BY OnLabelsFinite, FS_CardinalityType
  <2> SUFFICES ASSUME NEW t \in Threads
               PROVE  /\ deletionListCount[t] = Cardinality(OnLabels(t))
                      /\ pc'[t] \notin {"scan", "destroyed"} =>
                           thresholdCounter'[t] <= Cardinality(OnLabels(t))
    BY <1>1 DEF CountMatches
  <2>2. /\ deletionListCount[t] = Cardinality(OnLabels(t))
        /\ pc[t] \notin {"scan", "destroyed"} =>
             thresholdCounter[t] <= Cardinality(OnLabels(t))
    BY DEF CountInv, CountMatches
  <2> QED
    BY <2>1, <2>2 DEF ListsKept
<1>4. AtEnd'
  BY <1>1 DEF AtEnd, CountInv, ListsKept
<1> QED
  BY <1>2, <1>3, <1>4 DEF CountInv

(* The object that is unlinked is the one the thread has as old.            *)
LEMMA UnlinkCounts ==
  ASSUME NEW t \in Threads, NEW new \in Objects, RetireFirst = FALSE,
         TypeOK, Locking, CountInv, Unlink(t, new)
  PROVE  CountInv'
<1>1. /\ pc[t] = "locked" /\ place[t] \in Places /\ old[t] = link[place[t]]
      /\ link' = [link EXCEPT ![place[t]] = new]
      /\ used' = used \cup {new}
      /\ pc' = [pc EXCEPT ![t] = "unlinked"]
      /\ UNCHANGED <<old, deletionList, deletionListCount, thresholdCounter, freed>>
      /\ \A u \in Threads : OnLabels(u)' = OnLabels(u)
  BY DEF Unlink, Locking, Goto, listVars, OnLabels
<1>2. NothingLost'
  <2> SUFFICES ASSUME NEW o \in used \cup {new}
               PROVE  \/ o \in freed
                      \/ \E p \in Places : link'[p] = o
                      \/ \E u \in Threads : old[u] = o \/ o \in OnLabels(u)
    BY <1>1 DEF NothingLost
  <2>1. CASE o = new
    BY <1>1, <2>1 DEF TypeOK
  <2>2. CASE o # new
    <3>1. \/ o \in freed
          \/ \E p \in Places : link[p] = o
          \/ \E u \in Threads : old[u] = o \/ o \in OnLabels(u)
      BY <2>2 DEF CountInv, NothingLost
    <3>2. ASSUME NEW p \in Places, link[p] = o
          PROVE  old[t] = o \/ link'[p] = o
      BY <1>1, <3>2 DEF TypeOK
    <3> QED
      BY <3>1, <3>2
  <2> QED
    BY <2>1, <2>2
<1>3. CountMatches' /\ AtEnd'
  BY <1>1 DEF CountInv, CountMatches, AtEnd, TypeOK
<1> QED
  BY <1>2, <1>3 DEF CountInv

LEMMA RetireCounts ==
  ASSUME NEW t \in Threads, RetireFirst = FALSE,
         TypeOK, Locking, Located, CountInv, Retire(t)
  PROVE  CountInv'
<1>1. /\ pc[t] = "unlinked" /\ pc' = [pc EXCEPT ![t] = "unlock"]
      /\ old' = [old EXCEPT ![t] = None]
      /\ deletionList' = [deletionList EXCEPT ![t] = Add(@, old[t], currentEpoche)]
      /\ deletionListCount' = [deletionListCount EXCEPT ![t] = @ + 1]
      /\ thresholdCounter' = [thresholdCounter EXCEPT ![t] = @ + 1]
      /\ UNCHANGED <<link, used, freed>>
  BY DEF Retire, Goto
<1>2. old[t] \in Objects /\ old[t] \notin OnLabels(t)
  <2>1. old[t] \in Objects
    BY <1>1 DEF Locking, TypeOK
  <2>2. \A i \in Nat : ~Waits(t, i, old[t])
    BY <1>1 DEF Located
  <2> QED
    BY <2>1, <2>2, OnLabelsWait
<1>3. /\ OnLabels(t)' = OnLabels(t) \cup {old[t]}
      /\ \A u \in Threads \ {t} : OnLabels(u)' = OnLabels(u)
  <2>1. deletionList[t] \in Seq(LabelDelete) /\ currentEpoche \in 0..(MaxEpoche - 1)
    BY DEF TypeOK
  <2>2. NodesOf(Add(deletionList[t], old[t], currentEpoche)) = NodesOf(deletionList[t]) \cup {old[t]}
    BY <1>2, <2>1, AddNodes
  <2>3. /\ deletionList'[t] = Add(deletionList[t], old[t], currentEpoche)
        /\ \A u \in Threads \ {t} : deletionList'[u] = deletionList[u]
    BY <1>1 DEF TypeOK
  <2> QED
    BY <2>2, <2>3 DEF OnLabels, NodesOf
<1>4. /\ Cardinality(OnLabels(t)) \in Nat
      /\ Cardinality(OnLabels(t) \cup {old[t]}) = Cardinality(OnLabels(t)) + 1
  BY <1>2, OnLabelsFinite, FS_CardinalityType, FS_AddElement
<1>5. NothingLost'
  <2> SUFFICES ASSUME NEW o \in used
               PROVE  \/ o \in freed
                      \/ \E p \in Places : link[p] = o
                      \/ \E u \in Threads : old'[u] = o \/ o \in OnLabels(u)'
    BY <1>1 DEF NothingLost
  <2>1. \/ o \in freed
        \/ \E p \in Places : link[p] = o
        \/ \E u \in Threads : old[u] = o \/ o \in OnLabels(u)
    BY DEF CountInv, NothingLost
  <2>2. ASSUME NEW u \in Threads, old[u] = o
        PROVE  old'[u] = o \/ o \in OnLabels(t)'
    BY <1>1, <1>3, <2>2 DEF TypeOK
  <2>3. ASSUME NEW u \in Threads, o \in OnLabels(u)
        PROVE  o \in OnLabels(u)'
    BY <1>3, <2>3
  <2> QED
    BY <2>1, <2>2, <2>3
<1>6. CountMatches'
  <2> SUFFICES ASSUME NEW u \in Threads
               PROVE  /\ deletionListCount'[u] = Cardinality(OnLabels(u)')
                      /\ pc'[u] \notin {"scan", "destroyed"} =>
                           thresholdCounter'[u] <= Cardinality(OnLabels(u)')
    BY DEF CountMatches
  <2>1. /\ deletionListCount[u] = Cardinality(OnLabels(u))
        /\ pc[u] \notin {"scan", "destroyed"} =>
             thresholdCounter[u] <= Cardinality(OnLabels(u))
    BY DEF CountInv, CountMatches
  <2>2. CASE u = t
    <3>1. thresholdCounter[t] \in Nat /\ thresholdCounter[t] <= Cardinality(OnLabels(t))
      BY <1>1, <2>1, <2>2 DEF TypeOK
    <3>2. deletionListCount'[t] = deletionListCount[t] + 1
          /\ thresholdCounter'[t] = thresholdCounter[t] + 1
      BY <1>1 DEF TypeOK
    <3>3. Cardinality(OnLabels(t)') = Cardinality(OnLabels(t)) + 1
      BY <1>3, <1>4
    <3>4. deletionListCount[t] = Cardinality(OnLabels(t))
      BY <2>1, <2>2
    <3>5. thresholdCounter'[t] <= Cardinality(OnLabels(t)')
      BY <1>4, <3>1, <3>2, <3>3
    <3> QED
      BY <2>2, <3>2, <3>3, <3>4, <3>5
  <2>3. CASE u # t
    BY <1>1, <1>3, <2>1, <2>3 DEF TypeOK
  <2> QED
    BY <2>2, <2>3
<1>7. AtEnd'
  <2>1. \A u \in Threads : pc[u] # "destroyed"
    BY <1>1 DEF CountInv, AtEnd
  <2>2. \A u \in Threads : pc'[u] # "destroyed"
    BY <1>1, <2>1 DEF TypeOK
  <2> QED
    BY <2>2 DEF AtEnd
<1> QED
  BY <1>5, <1>6, <1>7 DEF CountInv

LEMMA FreeCounts ==
  ASSUME NEW t \in Threads, TypeOK, Located, CountInv, FreeLabel(t)
  PROVE  CountInv'
<1> DEFINE nodes == deletionList[t][cur[t]].nodes
<1>1. /\ pc[t] = "scan" /\ pc' = pc /\ cur[t] \in 1..Len(deletionList[t])
      /\ freed' = freed \cup nodes
      /\ deletionList' = [deletionList EXCEPT ![t] = Remove(@, cur[t])]
      /\ deletionListCount' = [deletionListCount EXCEPT ![t] = @ - Cardinality(nodes)]
      /\ UNCHANGED <<link, used, old, thresholdCounter>>
  BY DEF FreeLabel, Cleaning, Label, nodesCount, tableVars, TypeOK
<1>2. /\ deletionList[t] \in Seq(LabelDelete)
      /\ \A i \in 1..Len(deletionList[t]) :
           /\ i \in Nat /\ deletionList[t][i] \in LabelDelete
           /\ deletionList[t][i].nodes \subseteq Objects
  <2>1. deletionList[t] \in Seq(LabelDelete)
    BY DEF TypeOK
  <2>2. \A i \in 1..Len(deletionList[t]) : i \in Nat /\ deletionList[t][i] \in LabelDelete
    BY <2>1
  <2>3. \A d \in LabelDelete : d.nodes \subseteq Objects
    BY DEF LabelDelete
  <2> QED
    BY <2>1, <2>2, <2>3
<1>3. \A i \in 1..Len(deletionList[t]) :
        i # cur[t] => deletionList[t][i].nodes \cap nodes = {}
  <2> SUFFICES ASSUME NEW i \in 1..Len(deletionList[t]), i # cur[t],
                      NEW o \in deletionList[t][i].nodes \cap nodes
               PROVE  FALSE
    OBVIOUS
  <2>1. Waits(t, i, o) /\ Waits(t, cur[t], o) /\ i \in Nat /\ cur[t] \in Nat /\ o \in Objects
    BY <1>1, <1>2 DEF Waits
  <2> QED
    BY <2>1 DEF Located
<1>4. /\ OnLabels(t)' = OnLabels(t) \ nodes
      /\ \A u \in Threads \ {t} : OnLabels(u)' = OnLabels(u)
      /\ nodes \subseteq OnLabels(t)
  <2>1. NodesOf(Remove(deletionList[t], cur[t])) = NodesOf(deletionList[t]) \ nodes
    <3>1. ASSUME NEW list \in Seq(LabelDelete), NEW c \in 1..Len(list),
                 \A i \in 1..Len(list) : i # c => list[i].nodes \cap list[c].nodes = {}
          PROVE  NodesOf(Remove(list, c)) = NodesOf(list) \ list[c].nodes
      BY <3>1, RemoveNodes
    <3> QED
      BY <1>1, <1>2, <1>3, <3>1
  <2>2. /\ deletionList'[t] = Remove(deletionList[t], cur[t])
        /\ \A u \in Threads \ {t} : deletionList'[u] = deletionList[u]
    BY <1>1 DEF TypeOK
  <2>3. cur[t] \in DOMAIN deletionList[t]
    BY <1>1, <1>2
  <2> QED
    BY <2>1, <2>2, <2>3 DEF OnLabels, NodesOf
<1> HIDE DEF nodes
<1>5. /\ IsFiniteSet(OnLabels(t)) /\ Cardinality(OnLabels(t)) \in Nat
      /\ Cardinality(nodes) \in Nat
      /\ Cardinality(OnLabels(t) \ nodes) = Cardinality(OnLabels(t)) - Cardinality(nodes)
  <2>1. IsFiniteSet(OnLabels(t))
    BY OnLabelsFinite
  <2>2. IsFiniteSet(nodes)
    BY <1>4, <2>1, FS_Subset
  <2>3. Cardinality(OnLabels(t) \ nodes) =
          Cardinality(OnLabels(t)) - Cardinality(OnLabels(t) \cap nodes)
    BY <2>1, FS_Difference
  <2>4. OnLabels(t) \cap nodes = nodes
    BY <1>4
  <2> QED
    BY <2>1, <2>2, <2>3, <2>4, FS_CardinalityType
<1>6. NothingLost'
  <2> SUFFICES ASSUME NEW o \in used
               PROVE  \/ o \in freed'
                      \/ \E p \in Places : link[p] = o
                      \/ \E u \in Threads : old[u] = o \/ o \in OnLabels(u)'
    BY <1>1 DEF NothingLost
  <2>1. \/ o \in freed
        \/ \E p \in Places : link[p] = o
        \/ \E u \in Threads : old[u] = o \/ o \in OnLabels(u)
    BY DEF CountInv, NothingLost
  <2> QED
    BY <1>1, <1>4, <2>1
<1>7. CountMatches'
  <2> SUFFICES ASSUME NEW u \in Threads
               PROVE  /\ deletionListCount'[u] = Cardinality(OnLabels(u)')
                      /\ pc'[u] \notin {"scan", "destroyed"} =>
                           thresholdCounter'[u] <= Cardinality(OnLabels(u)')
    BY DEF CountMatches
  <2>1. /\ deletionListCount[u] = Cardinality(OnLabels(u))
        /\ pc[u] \notin {"scan", "destroyed"} =>
             thresholdCounter[u] <= Cardinality(OnLabels(u))
    BY DEF CountInv, CountMatches
  <2>2. CASE u = t
    <3>1. deletionListCount'[t] = deletionListCount[t] - Cardinality(nodes)
      BY <1>1 DEF TypeOK
    <3> QED
      BY <1>1, <1>4, <1>5, <2>1, <2>2, <3>1
  <2>3. CASE u # t
    BY <1>1, <1>4, <2>1, <2>3 DEF TypeOK
  <2> QED
    BY <2>2, <2>3
<1>8. AtEnd'
  <2>1. \A u \in Threads : pc[u] # "destroyed"
    BY <1>1 DEF CountInv, AtEnd
  <2> QED
    BY <1>1, <2>1 DEF AtEnd
<1> QED
  BY <1>6, <1>7, <1>8 DEF CountInv

LEMMA DestroyedCounts ==
  ASSUME TypeOK, CountInv, EpocheDestroyed
  PROVE  CountInv'
<1>1. /\ freed' = freed \cup AllOnLabels
      /\ deletionList' = [t \in Threads |-> <<>>]
      /\ deletionListCount' =
           [t \in Threads |-> deletionListCount[t] - Cardinality(OnLabels(t))]
      /\ pc' = [t \in Threads |-> "destroyed"]
      /\ UNCHANGED <<link, used, old>>
  BY DEF EpocheDestroyed, tableVars
<1>2. \A t \in Threads : OnLabels(t)' = {}
  BY <1>1 DEF OnLabels
<1>3. NothingLost'
  BY <1>1, <1>2 DEF CountInv, NothingLost, AllOnLabels
<1>4. CountMatches'
  <2>1. \A t \in Threads :
          /\ Cardinality(OnLabels(t)) \in Nat
          /\ deletionListCount[t] = Cardinality(OnLabels(t))
    BY OnLabelsFinite, FS_CardinalityType DEF CountInv, CountMatches
  <2>2. \A t \in Threads : deletionListCount'[t] = 0 /\ pc'[t] = "destroyed"
    BY <1>1, <2>1
  <2> QED
    BY <1>2, <2>2, FS_EmptySet DEF CountMatches
<1>5. AtEnd'
  BY <1>1, <1>2 DEF AtEnd
<1> QED
  BY <1>3, <1>4, <1>5 DEF CountInv

LEMMA CountInit ==
  Init => CountInv
<1> SUFFICES ASSUME Init
             PROVE  CountInv
  OBVIOUS
<1>1. \A t \in Threads : OnLabels(t) = {}
  BY DEF Init, OnLabels
<1>2. Cardinality({}) = 0
  BY FS_EmptySet
<1>3. NothingLost /\ AtEnd
  BY DEF Init, NothingLost, AtEnd
<1>4. \A t \in Threads : deletionListCount[t] = 0 /\ thresholdCounter[t] = 0
  BY DEF Init
<1>5. CountMatches
  BY <1>1, <1>2, <1>4 DEF CountMatches
<1> QED
  BY <1>3, <1>5 DEF CountInv

LEMMA CountStep ==
  ASSUME RetireFirst = FALSE, TypeOK, Locking, Located, CountInv, [Next]_vars
  PROVE  CountInv'
<1>1. ASSUME NEW t \in Threads, NEW new \in Objects, Unlink(t, new)
      PROVE  CountInv'
  BY <1>1, UnlinkCounts
<1>2. ASSUME NEW t \in Threads, Retire(t)
      PROVE  CountInv'
  BY <1>2, RetireCounts
<1>3. ASSUME NEW t \in Threads, FreeLabel(t)
      PROVE  CountInv'
  BY <1>3, FreeCounts
<1>4. CASE EpocheDestroyed
  BY <1>4, DestroyedCounts
<1>5. CASE /\ \A t \in Threads : /\ \A new \in Objects : ~Unlink(t, new)
                                 /\ ~Retire(t) /\ ~FreeLabel(t)
           /\ ~EpocheDestroyed
  BY <1>5, MostActionsListsKept, ListsKeptCounts
<1> QED
  BY <1>1, <1>2, <1>3, <1>4, <1>5

LEMMA CountCorrect ==
  ASSUME RetireFirst = FALSE
  PROVE  Spec => [](TypeOK /\ Locking /\ Located /\ CountInv)
<1>1. Init => TypeOK /\ Locking /\ Located /\ CountInv
  BY EpocheInit, InitLocated, CountInit
<1>2. TypeOK /\ Locking /\ Located /\ CountInv /\ [Next]_vars
        => (TypeOK /\ Locking /\ Located /\ CountInv)'
  BY TypeStep, LockingStep, LocatedStep, CountStep
<1> QED
  BY <1>1, <1>2, PTL DEF Spec

(* No object drops off the lists, whatever labels are started, kept and     *)
(* removed: each is linked, about to be retired, waiting, or freed.         *)
THEOREM NothingDropped ==
  ASSUME RetireFirst = FALSE
  PROVE  Spec => []NothingLost
<1>1. CountInv => NothingLost
  BY DEF CountInv
<1> QED
  BY <1>1, CountCorrect, PTL

(* size() is the number of objects on the list, and never less than what    *)
(* was retired since the last cleanup.                                      *)
THEOREM CountsMatch ==
  ASSUME RetireFirst = FALSE
  PROVE  Spec => []CountMatches
<1>1. CountInv => CountMatches
  BY DEF CountInv
<1> QED
  BY <1>1, CountCorrect, PTL

(* When the last thread has gone and the epochs are destroyed, exactly the  *)
(* linked objects are left and the assertions of the destructors hold.      *)
THEOREM FreedAtEnd ==
  ASSUME RetireFirst = FALSE
  PROVE  Spec => []AllFreedAtEnd
<1>1. TypeOK /\ Locking /\ Located /\ CountInv => AllFreedAtEnd
  <2> SUFFICES ASSUME TypeOK, Locking, Located, CountInv,
                      \A t \in Threads : pc[t] = "destroyed"
               PROVE  /\ used \ freed = {link[p] : p \in Places}
                      /\ \A t \in Threads : deletionListCount[t] = 0
    BY DEF AllFreedAtEnd
  <2>1. \A t \in Threads : OnLabels(t) = {} /\ old[t] = None
    BY DEF CountInv, AtEnd, Locking
  <2>2. \A o \in used : o # None
    BY NoneAssumption DEF TypeOK
  <2>3. used \ freed \subseteq {link[p] : p \in Places}
    BY <2>1, <2>2 DEF CountInv, NothingLost
  <2>4. \A p \in Places : link[p] \in used \ freed
    BY DEF Locking, Located, Linked
  <2>5. \A t \in Threads : deletionListCount[t] = 0
    BY <2>1, FS_EmptySet DEF CountInv, CountMatches
  <2> QED
    BY <2>3, <2>4, <2>5
<1> QED
  BY <1>1, CountCorrect, PTL
=============================================================================
