----------------------------- MODULE DurableMap -----------------------------
(***************************************************************************)
(* What a persistent table promises ("A high performance concurrent hash   *)
(* table for pesistent memory", Readme.md): a map that survives crashes.   *)
(* A Put or Delete that has returned is in the map for good.  One that is  *)
(* interrupted by a crash has happened or has not, and nothing else has.   *)
(***************************************************************************)
CONSTANTS
  Keys, Values,
  Absent,  \* the value of a key that is not there
  Nobody   \* no operation under way

VARIABLES
  map,   \* the map a restart would find
  seen,  \* the map that calls find
  pend   \* the update under way: a key and its new value

Update == [key : Keys, val : Values \cup {Absent}]

Init ==
  /\ map = [k \in Keys |-> Absent]
  /\ seen = map
  /\ pend = Nobody

Applied(m, u) == [m EXCEPT ![u.key] = u.val]

(* A call may be seen to take effect from its start on ...                  *)
Begin(u) ==
  /\ pend = Nobody
  /\ pend' = u
  /\ seen' \in {seen, Applied(seen, u)}
  /\ UNCHANGED map

Show ==
  /\ pend # Nobody
  /\ seen' = Applied(seen, pend)
  /\ UNCHANGED <<map, pend>>

(* ... and a restart finds it no sooner than others do.                     *)
Commit ==
  /\ pend # Nobody
  /\ map' = seen
  /\ UNCHANGED <<seen, pend>>

Return ==
  /\ pend # Nobody
  /\ seen[pend.key] = pend.val
  /\ map' = seen
  /\ pend' = Nobody
  /\ UNCHANGED seen

Crash ==
  /\ pend' = Nobody
  /\ seen' = map
  /\ UNCHANGED map

Next ==
  \/ \E u \in Update : Begin(u)
  \/ Show
  \/ Commit
  \/ Return
  \/ Crash

Spec == Init /\ [][Next]_<<map, seen, pend>>
=============================================================================
