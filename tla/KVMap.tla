-------------------------------- MODULE KVMap --------------------------------
(***************************************************************************)
(* What the hash table promises its caller: a map from keys to values with *)
(* Put, Find and Delete.  Put always succeeds ("insert or update a         *)
(* key-value record"), Find reports the value last put, and Delete reports *)
(* whether there was one.                                                  *)
(***************************************************************************)
CONSTANTS Keys, Values, Absent

VARIABLES
  map,  \* the value of every key, Absent when there is none
  res   \* the last call and what it returned

Answer(op, k, hit, val) == [op |-> op, key |-> k, hit |-> hit, val |-> val]

Init ==
  /\ map = [k \in Keys |-> Absent]
  /\ res = Answer("none", Absent, FALSE, Absent)

Put(k, v) ==
  /\ map' = [map EXCEPT ![k] = v]
  /\ res' = Answer("put", k, TRUE, Absent)

Find(k) ==
  /\ res' = Answer("find", k, map[k] # Absent, map[k])
  /\ UNCHANGED map

Delete(k) ==
  /\ map' = [map EXCEPT ![k] = Absent]
  /\ res' = Answer("delete", k, map[k] # Absent, Absent)

Next ==
  \E k \in Keys :
    \/ \E v \in Values : Put(k, v)
    \/ Find(k)
    \/ Delete(k)

Spec == Init /\ [][Next]_<<map, res>>
=============================================================================
