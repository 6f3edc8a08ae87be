----------------------------- MODULE BucketMeta -----------------------------
(***************************************************************************)
(* The 8-byte word data_ of one bucket.  It packs the bucket lock (bit 0), *)
(* the rehash lock (bit 1), the cell count and the address of the cells:   *)
(*                                                                         *)
(*   | 1 b bucket lock | 1 b rehash lock | 6 b | 8 b cells | 48 b address |*)
(*                                                                         *)
(* Threads lock and unlock it with 32-bit accesses to its low half, and a  *)
(* rehash rewrites all of it (Reset).  The unlock and Reset are plain      *)
(* loads followed by plain stores, so each is two steps here.  The address *)
(* and the cell count of the bucket installed by the n-th rehash are the   *)
(* number n; its low bits sit in the low half (lo), the rest in the high   *)
(* half (hi).                                                              *)
(***************************************************************************)
EXTENDS Integers

CONSTANTS
  Threads,      \* the callers of Put and Delete
  Builds,       \* the builds of the table looked at, see below
  MaxDoublings  \* rehashes until the cell count reaches kCellCountLimit

(* cas: the lock is the load and CAS of turbo_hash.h, or else the lock bts  *)
(* of the persistent tables.  pinned: PIN_KEY_TO_THREAD is defined, and the *)
(* rehash is guarded by bit 1.                                              *)
ASSUME BuildsAssumption == Builds \subseteq [cas : BOOLEAN, pinned : BOOLEAN]
ASSUME BoundAssumption == MaxDoublings \in Nat

VARIABLES
  build,  \* which build this is
  data,   \* the word
  pc,     \* where each thread is
  op,     \* the operation of each thread, its last one while it is idle
  reg,    \* the value of the low half a thread has loaded
  owns    \* threads whose TryRehashLock succeeded and that did not unlock yet

vars == <<build, data, pc, op, reg, owns>>

Bit == {0, 1}
LowHalf == [lock : Bit, rehash : Bit, lo : Nat]
Word == [lock : Bit, rehash : Bit, lo : Nat, hi : Nat]
Step == {"idle", "want", "cas", "crit", "reset", "moved", "runlock", "leave",
         "unlock", "rcas"}

Low(w) == [lock |-> w.lock, rehash |-> w.rehash, lo |-> w.lo]
WithLow(w, low) ==
  [lock |-> low.lock, rehash |-> low.rehash, lo |-> low.lo, hi |-> w.hi]

(* The bucket as the table's constructor leaves it. *)
Init ==
  /\ build \in Builds
  /\ data = [lock |-> 0, rehash |-> 0, lo |-> 0, hi |-> 0]
  /\ pc = [t \in Threads |-> "idle"]
  /\ op = [t \in Threads |-> "insert"]
  /\ reg = [t \in Threads |-> Low(data)]
  /\ owns = {}

Goto(t, to) == pc' = [pc EXCEPT ![t] = to]
Load(t) == reg' = [reg EXCEPT ![t] = Low(data)]

-----------------------------------------------------------------------------
(* turbo_bit_spin_lock and turbo_bit_spin_try_lock                          *)

(* insertSlot and deleteSlot, from after_rehash on.  With pinned keys they  *)
(* first wait for the rehash lock to be free.                               *)
Begin(t, o) ==
  /\ pc[t] = "idle"
  /\ build.pinned => data.rehash = 0
  /\ op' = [op EXCEPT ![t] = o]
  /\ Goto(t, "want")
  /\ UNCHANGED <<build, data, reg, owns>>

LockLoad(t) ==
  /\ build.cas
  /\ pc[t] = "want"
  /\ data.lock = 0
  /\ Load(t)
  /\ Goto(t, "cas")
  /\ UNCHANGED <<build, data, op, owns>>

(* Faulty: locks without comparing.                                         *)
LockCasBlind(t) ==
  /\ pc[t] = "cas"
  /\ data' = [data EXCEPT !.lock = 1]
  /\ Goto(t, "crit")
  /\ UNCHANGED <<build, op, reg, owns>>

LockCas(t) ==
  /\ pc[t] = "cas"
  /\ \/ /\ Low(data) = reg[t]
        /\ data' = [data EXCEPT !.lock = 1]
        /\ Goto(t, "crit")
     \/ /\ Low(data) # reg[t]
        /\ Goto(t, "want")
        /\ UNCHANGED data
  /\ UNCHANGED <<build, op, reg, owns>>

(* lock bts: a failed attempt sets a bit that is already set and spins. *)
LockBts(t) ==
  /\ ~build.cas
  /\ pc[t] = "want"
  /\ data.lock = 0
  /\ data' = [data EXCEPT !.lock = 1]
  /\ Goto(t, "crit")
  /\ UNCHANGED <<build, op, reg, owns>>

(* TryRehashLock of a Put that found no slot, while it holds no lock.       *)
WantsRehash(t) ==
  build.pinned /\ op[t] = "insert" /\ pc[t] = "want" /\ t \notin owns

(* A failed attempt goes back to after_rehash.                              *)
TryRehashBusy(t) ==
  /\ WantsRehash(t)
  /\ data.rehash = 1
  /\ Goto(t, "idle")
  /\ UNCHANGED <<build, data, op, reg, owns>>

TryRehashLoad(t) ==
  /\ WantsRehash(t) /\ build.cas
  /\ data.rehash = 0
  /\ Load(t)
  /\ Goto(t, "rcas")
  /\ UNCHANGED <<build, data, op, owns>>

TryRehashCas(t) ==
  /\ pc[t] = "rcas"
  /\ \/ /\ Low(data) = reg[t]
        /\ data' = [data EXCEPT !.rehash = 1]
        /\ owns' = owns \cup {t}
        /\ Goto(t, "want")
     \/ /\ Low(data) # reg[t]
        /\ Goto(t, "idle")
        /\ UNCHANGED <<data, owns>>
  /\ UNCHANGED <<build, op, reg>>

TryRehashBts(t) ==
  /\ WantsRehash(t) /\ ~build.cas
  /\ data.rehash = 0
  /\ data' = [data EXCEPT !.rehash = 1]
  /\ owns' = owns \cup {t}
  /\ UNCHANGED <<build, pc, op, reg>>

-----------------------------------------------------------------------------
(* BucketMeta::Reset, called by MinorRehash: data_ = (data_ & 0xFF) | ...   *)

ResetLoad(t) ==
  /\ pc[t] = "crit" /\ op[t] = "insert"
  /\ build.pinned => t \in owns
  /\ data.hi < MaxDoublings
  /\ Load(t)
  /\ Goto(t, "reset")
  /\ UNCHANGED <<build, data, op, owns>>

(* Faulty: the new word does not keep the low byte of the old one.          *)
ResetStoreUnlocked(t) ==
  /\ pc[t] = "reset"
  /\ data' = [lock |-> 0, rehash |-> 0, lo |-> data.hi + 1, hi |-> data.hi + 1]
  /\ Goto(t, IF build.pinned THEN "moved" ELSE "leave")
  /\ UNCHANGED <<build, op, reg, owns>>

ResetStore(t) ==
  /\ pc[t] = "reset"
  /\ data' = [lock |-> reg[t].lock, rehash |-> reg[t].rehash,
              lo |-> data.hi + 1, hi |-> data.hi + 1]
  /\ Goto(t, IF build.pinned THEN "moved" ELSE "leave")
  /\ UNCHANGED <<build, op, reg, owns>>

-----------------------------------------------------------------------------
(* turbo_bit_spin_unlock: *lock &= ~(1 << bit_pos), a load and a store       *)

(* Faulty: subtracts the bit instead of masking it.                         *)
RehashUnlockSubtract(t) ==
  /\ pc[t] = "moved"
  /\ reg' = [reg EXCEPT ![t] = [Low(data) EXCEPT !.rehash = @ - 1]]
  /\ Goto(t, "runlock")
  /\ UNCHANGED <<build, data, op, owns>>

(* Faulty: reuses the word that Reset loaded.                               *)
RehashUnlockStale(t) ==
  /\ pc[t] = "moved"
  /\ reg' = [reg EXCEPT ![t] = [reg[t] EXCEPT !.rehash = 0]]
  /\ Goto(t, "runlock")
  /\ UNCHANGED <<build, data, op, owns>>

RehashUnlockLoad(t) ==
  /\ pc[t] = "moved"
  /\ reg' = [reg EXCEPT ![t] = [Low(data) EXCEPT !.rehash = 0]]
  /\ Goto(t, "runlock")
  /\ UNCHANGED <<build, data, op, owns>>

RehashUnlockStore(t) ==
  /\ pc[t] = "runlock"
  /\ data' = WithLow(data, reg[t])
  /\ owns' = owns \ {t}
  /\ Goto(t, "leave")
  /\ UNCHANGED <<build, op, reg>>

(* Faulty: reuses the word that was loaded when the lock was taken.         *)
UnlockStale(t) ==
  /\ \/ pc[t] = "crit" /\ t \notin owns
     \/ pc[t] = "leave"
  /\ reg' = [reg EXCEPT ![t] = [reg[t] EXCEPT !.lock = 0]]
  /\ Goto(t, "unlock")
  /\ UNCHANGED <<build, data, op, owns>>

(* Faulty: clears the other lock bit.                                       *)
UnlockWrongBit(t) ==
  /\ \/ pc[t] = "crit" /\ t \notin owns
     \/ pc[t] = "leave"
  /\ reg' = [reg EXCEPT ![t] = [Low(data) EXCEPT !.rehash = 0]]
  /\ Goto(t, "unlock")
  /\ UNCHANGED <<build, data, op, owns>>

(* The end of a BucketLockScope: after the insertion or the deletion, or    *)
(* after the rehash.                                                        *)
UnlockLoad(t) ==
  /\ \/ pc[t] = "crit" /\ t \notin owns
     \/ pc[t] = "leave"
  /\ reg' = [reg EXCEPT ![t] = [Low(data) EXCEPT !.lock = 0]]
  /\ Goto(t, "unlock")
  /\ UNCHANGED <<build, data, op, owns>>

(* deleteSlot may want the lock again at once, for another candidate or     *)
(* after delete_retry.                                                      *)
UnlockStore(t) ==
  /\ pc[t] = "unlock"
  /\ data' = WithLow(data, reg[t])
  /\ Goto(t, "idle") \/ (op[t] = "delete" /\ Goto(t, "want"))
  /\ UNCHANGED <<build, op, reg, owns>>

WriterStep(t) ==
  \/ LockLoad(t) \/ LockCas(t) \/ LockBts(t)
  \/ TryRehashBusy(t) \/ TryRehashLoad(t) \/ TryRehashCas(t) \/ TryRehashBts(t)
  \/ ResetLoad(t) \/ ResetStore(t)
  \/ RehashUnlockLoad(t) \/ RehashUnlockStore(t)
  \/ UnlockLoad(t) \/ UnlockStore(t)

Next ==
  \E t \in Threads :
       \/ WriterStep(t)
       \/ \E o \in {"insert", "delete"} : Begin(t, o)

Spec == Init /\ [][Next]_vars

(* A running thread keeps running; nobody is obliged to start an operation. *)
FairSpec == Spec /\ \A t \in Threads : WF_vars(WriterStep(t))

-----------------------------------------------------------------------------
(* Properties                                                               *)

TypeOK ==
  /\ build \in Builds
  /\ data \in Word
  /\ pc \in [Threads -> Step]
  /\ op \in [Threads -> {"insert", "delete"}]
  /\ reg \in [Threads -> LowHalf]
  /\ owns \in SUBSET Threads

Holds(t) ==
  pc[t] \in {"crit", "reset", "moved", "runlock", "leave", "unlock"}

(* Two threads are never both between Lock() and the end of Unlock(), even  *)
(* though the unlock and Reset write back a word they loaded earlier.       *)
MutualExclusion ==
  \A t, u \in Threads : Holds(t) /\ Holds(u) => t = u

(* An unlock never writes the low half of an old address under the high    *)
(* half of a new one: outside of the word's own store the two halves name   *)
(* the same bucket.                                                         *)
AddressWhole == data.lo = data.hi

(* A rehash is never undone: no late write-back brings an old bucket back.  *)
BucketNeverReverts == [][data'.lo >= data.lo /\ data'.hi >= data.hi]_vars

(* The bucket lock, once taken, stays set in the word until its holder      *)
(* stores the unlock: Reset and RehashUnlock keep it.                       *)
LockBitTracksHolder ==
  (data.lock = 1) <=> \E t \in Threads : Holds(t)

(* Whoever wants the lock, somebody gets in (no fairness among waiters is   *)
(* promised by a test-and-set lock).  With pinned keys the process may end  *)
(* at kCellCountLimit while others wait.                                    *)
LockProgress ==
  (~build.pinned /\ \E t \in Threads : pc[t] \in {"want", "cas"})
    ~> (\E t \in Threads : pc[t] = "crit")
=============================================================================
