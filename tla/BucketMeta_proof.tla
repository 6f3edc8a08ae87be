-------------------------- MODULE BucketMeta_proof --------------------------
(***************************************************************************)
(* The bucket lock excludes, for any number of threads, with either lock   *)
(* implementation and with or without PIN_KEY_TO_THREAD: the unlock and    *)
(* Reset are not atomic, but while the lock bit is set everyone else only  *)
(* ever sets bits of the word, and only the holder writes back a copy.     *)
(***************************************************************************)
EXTENDS BucketMeta, TLAPS

(* The lock bit is the holder's, and what the holder is about to write     *)
(* back carries it and the present address.                                *)
CopyIsCurrent ==
  \A t \in Threads :
    /\ pc[t] = "reset" => reg[t].lock = 1
    /\ pc[t] = "runlock" => reg[t].lock = 1 /\ reg[t].lo = data.lo
    /\ pc[t] = "unlock" => reg[t].lock = 0 /\ reg[t].lo = data.lo
    /\ pc[t] = "cas" => reg[t].lock = 0

HolderHasBit == \A t \in Threads : Holds(t) => data.lock = 1

LockInv ==
  /\ TypeOK
  /\ HolderHasBit
  /\ MutualExclusion
  /\ CopyIsCurrent
  /\ AddressWhole

LEMMA LockInit == Init => LockInv
  BY DEF Init, LockInv, TypeOK, HolderHasBit, MutualExclusion, CopyIsCurrent,
         AddressWhole, Holds, Word, Bit, LowHalf, Step, Low

LEMMA LockStep == LockInv /\ [Next]_vars => LockInv'
<1> SUFFICES ASSUME LockInv, [Next]_vars PROVE LockInv'
  OBVIOUS
<1> USE DEF LockInv, TypeOK, HolderHasBit, MutualExclusion, CopyIsCurrent,
            AddressWhole, Holds, Word, Bit, LowHalf, Step, Low, Goto, Load
<1>1. ASSUME NEW t \in Threads, LockLoad(t) PROVE LockInv'
  BY <1>1 DEF LockLoad
<1>2. ASSUME NEW t \in Threads, LockCas(t) PROVE LockInv'
  <2>1. CASE Low(data) = reg[t]
    BY <1>2, <2>1 DEF LockCas
  <2>2. CASE Low(data) # reg[t]
    BY <1>2, <2>2 DEF LockCas
  <2> QED
    BY <2>1, <2>2
<1>3. ASSUME NEW t \in Threads, LockBts(t) PROVE LockInv'
  BY <1>3 DEF LockBts
<1>4. ASSUME NEW t \in Threads, TryRehashCas(t) PROVE LockInv'
  BY <1>4 DEF TryRehashCas
<1>5. ASSUME NEW t \in Threads, ResetLoad(t) PROVE LockInv'
  BY <1>5 DEF ResetLoad
<1>6. ASSUME NEW t \in Threads, ResetStore(t) PROVE LockInv'
  BY <1>6 DEF ResetStore
<1>7. ASSUME NEW t \in Threads, RehashUnlockLoad(t) PROVE LockInv'
  BY <1>7 DEF RehashUnlockLoad
<1>8. ASSUME NEW t \in Threads, RehashUnlockStore(t) PROVE LockInv'
  BY <1>8 DEF RehashUnlockStore, WithLow
<1>9. ASSUME NEW t \in Threads, UnlockLoad(t) PROVE LockInv'
  BY <1>9 DEF UnlockLoad
<1>10. ASSUME NEW t \in Threads, UnlockStore(t) PROVE LockInv'
  BY <1>10 DEF UnlockStore, WithLow
<1>11. ASSUME NEW t \in Threads, NEW o \in {"insert", "delete"}, Begin(t, o)
       PROVE  LockInv'
  BY <1>11 DEF Begin
<1>12. ASSUME NEW t \in Threads, TryRehashLoad(t) PROVE LockInv'
  BY <1>12 DEF TryRehashLoad, WantsRehash
<1>13. ASSUME NEW t \in Threads, TryRehashBts(t) PROVE LockInv'
  BY <1>13 DEF TryRehashBts, WantsRehash
<1>14. ASSUME NEW t \in Threads, TryRehashBusy(t) PROVE LockInv'
  BY <1>14 DEF TryRehashBusy, WantsRehash
<1>15. CASE UNCHANGED vars
  BY <1>15 DEF vars
<1> QED
  BY <1>1, <1>2, <1>3, <1>4, <1>5, <1>6, <1>7, <1>8, <1>9, <1>10, <1>11,
     <1>12, <1>13, <1>14, <1>15 DEF Next, WriterStep

(* Every reachable state satisfies the type invariant.                      *)
THEOREM TypeCorrect == Spec => []TypeOK
<1>1. LockInv => TypeOK
  BY DEF LockInv
<1> QED
  BY LockInit, LockStep, <1>1, PTL DEF Spec

(* At most one thread is between Lock() and the end of Unlock().            *)
THEOREM LockExcludes == Spec => []MutualExclusion
<1>1. LockInv => MutualExclusion
  BY DEF LockInv
<1> QED
  BY LockInit, LockStep, <1>1, PTL DEF Spec

(* A set lock bit has a holder: no write-back leaves the bit behind.        *)
BitHasHolder == data.lock = 1 => \E t \in Threads : Holds(t)

LEMMA BitStep == LockInv /\ BitHasHolder /\ [Next]_vars => BitHasHolder'
<1> SUFFICES ASSUME LockInv, BitHasHolder, [Next]_vars PROVE BitHasHolder'
  OBVIOUS
<1> USE DEF LockInv, TypeOK, Word, Bit, LowHalf, Step, Low, Goto, Load, Holds
<1>1. ASSUME NEW t \in Threads, LockCas(t), Low(data) = reg[t] PROVE BitHasHolder'
  BY <1>1 DEF LockCas, BitHasHolder
<1>2. ASSUME NEW t \in Threads, LockCas(t), Low(data) # reg[t] PROVE BitHasHolder'
  BY <1>2 DEF LockCas, BitHasHolder
<1>3. ASSUME NEW t \in Threads,
             LockLoad(t) \/ LockBts(t) \/ TryRehashBusy(t) \/ TryRehashLoad(t)
               \/ TryRehashBts(t)
      PROVE  BitHasHolder'
  BY <1>3 DEF LockLoad, LockBts, TryRehashBusy, TryRehashLoad, TryRehashBts,
              WantsRehash, BitHasHolder
<1>4. ASSUME NEW t \in Threads, TryRehashCas(t) PROVE BitHasHolder'
  BY <1>4 DEF TryRehashCas, BitHasHolder
<1>5. ASSUME NEW t \in Threads,
             ResetLoad(t) \/ RehashUnlockLoad(t) \/ UnlockLoad(t)
      PROVE  BitHasHolder'
  BY <1>5 DEF ResetLoad, RehashUnlockLoad, UnlockLoad, BitHasHolder
<1>6. ASSUME NEW t \in Threads, ResetStore(t) PROVE BitHasHolder'
  BY <1>6 DEF ResetStore, BitHasHolder
<1>7. ASSUME NEW t \in Threads, RehashUnlockStore(t) PROVE BitHasHolder'
  BY <1>7 DEF RehashUnlockStore, WithLow, BitHasHolder
<1>8. ASSUME NEW t \in Threads, UnlockStore(t) PROVE BitHasHolder'
  BY <1>8 DEF UnlockStore, WithLow, CopyIsCurrent, BitHasHolder
<1>9. ASSUME NEW t \in Threads, NEW o \in {"insert", "delete"}, Begin(t, o)
      PROVE  BitHasHolder'
  BY <1>9 DEF Begin, BitHasHolder
<1>10. CASE UNCHANGED vars
  BY <1>10 DEF vars, BitHasHolder
<1> QED
  BY <1>1, <1>2, <1>3, <1>4, <1>5, <1>6, <1>7, <1>8, <1>9, <1>10
     DEF Next, WriterStep

(* The lock bit is set exactly while some thread is in the critical         *)
(* section.                                                                 *)
THEOREM LockBitIsHolders == Spec => []LockBitTracksHolder
<1>1. Init => BitHasHolder
  BY DEF Init, BitHasHolder
<1>2. LockInv /\ BitHasHolder => LockBitTracksHolder
  BY DEF LockInv, HolderHasBit, BitHasHolder, LockBitTracksHolder
<1> QED
  BY LockInit, LockStep, BitStep, <1>1, <1>2, PTL DEF Spec

(* The address in the word is never half old and half new.                  *)
THEOREM AddressStaysWhole == Spec => []AddressWhole
<1>1. LockInv => AddressWhole
  BY DEF LockInv
<1> QED
  BY LockInit, LockStep, <1>1, PTL DEF Spec

(* No write-back brings back the bucket that a rehash replaced.             *)
THEOREM NeverReverts == Spec => BucketNeverReverts
<1>1. LockInv /\ [Next]_vars => [data'.lo >= data.lo /\ data'.hi >= data.hi]_vars
  BY DEF LockInv, TypeOK, CopyIsCurrent, AddressWhole, Next, WriterStep,
         vars, Word, Bit, LowHalf, LockLoad, LockCas, LockBts, TryRehashCas,
         ResetLoad, ResetStore, RehashUnlockLoad, RehashUnlockStore,
         UnlockLoad, UnlockStore, Begin, TryRehashBusy, TryRehashLoad,
         TryRehashBts, WithLow, Low
<1> QED
  BY LockInit, LockStep, <1>1, PTL DEF Spec, BucketNeverReverts
=============================================================================
