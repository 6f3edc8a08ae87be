-------------------------- MODULE SharedBucket_proof --------------------------
(***************************************************************************)
(* Proofs about one bucket that many threads use at once, for any number   *)
(* of threads, keys, cells and slots and any number of calls.              *)
(***************************************************************************)
EXTENDS SharedBucket, TurboCell_proof, WellFoundedInduction

-----------------------------------------------------------------------------
(* A rehash, position by position.                                          *)

LEMMA Least ==
  ASSUME NEW T \in SUBSET Nat, T # {}
  PROVE  \E m \in T : \A j \in T : m <= j
<1>1. PICK m \in T : \A j \in T : ~(<<j, m>> \in OpToRel(<, Nat))
  BY NatLessThanWellFounded, WFMin
<1>2. \A j \in T : ~(j < m)
  BY <1>1 DEF OpToRel
<1> QED
  BY <1>2

LEMMA Scaled ==
  ASSUME NEW a \in Nat, NEW x \in Int, NEW y \in Int, x <= y
  PROVE  a * x <= a * y
  BY Z3

LEMMA Positioned ==
  ASSUME NEW n \in Nat \ {0}
  PROVE  /\ SlotCount \in Nat \ {0} /\ n * SlotCount \in Nat \ {0}
         /\ \A j \in 0..(n * SlotCount - 1) : Position(j) \in (0..(n - 1)) \X Slots
         /\ \A i, j \in Nat : Position(i) = Position(j) => i = j
         /\ \A p \in (0..(n - 1)) \X Slots :
              \E j \in 0..(n * SlotCount - 1) : Position(j) = p
<1>1. SlotCount \in Nat \ {0}
  BY SlotAssumption DEF SlotCount
<1>2. n * SlotCount \in Nat \ {0}
  BY <1>1, Z3
<1>3. ASSUME NEW j \in Nat
      PROVE  /\ j = SlotCount * (j \div SlotCount) + (j % SlotCount)
             /\ j % SlotCount \in 0..(SlotCount - 1)
             /\ j \div SlotCount \in Int
  BY <1>1, DivMod
<1>4. ASSUME NEW j \in 0..(n * SlotCount - 1)
      PROVE  Position(j) \in (0..(n - 1)) \X Slots
  <2> DEFINE q == j \div SlotCount
             r == j % SlotCount
  <2>1. j \in Nat /\ j = SlotCount * q + r /\ r \in 0..(SlotCount - 1) /\ q \in Int
    BY <1>2, <1>3
  <2> HIDE DEF q, r
  <2>0. q \in Int /\ SlotCount \in Nat \ {0}
    BY <2>1, <1>1
  <2>2. ~(q >= n)
    <3> SUFFICES ASSUME q >= n PROVE FALSE
      OBVIOUS
    <3>1. n * SlotCount <= SlotCount * q /\ SlotCount * q \in Int
      BY <2>0, Z3
    <3> QED
      BY <3>1, <2>1, <1>2
  <2>3. ~(q <= -1)
    <3> SUFFICES ASSUME q <= -1 PROVE FALSE
      OBVIOUS
    <3>1. SlotCount * q <= SlotCount * (-1)
      BY <2>0, Scaled
    <3>2. SlotCount * (-1) = -SlotCount /\ SlotCount * q \in Int
      BY <2>0, Z3
    <3> QED
      BY <3>1, <3>2, <2>1, <1>1
  <2>4. q \in 0..(n - 1)
    BY <2>0, <2>2, <2>3
  <2>5. StartSlotPos + r \in Slots
    <3>1. r \in 0..(SlotCount - 1)
      BY <2>1
    <3> QED
      BY <3>1, SlotAssumption DEF Slots, SlotCount
  <2> QED
    BY <2>4, <2>5 DEF Position, q, r
<1>5. ASSUME NEW i \in Nat, NEW j \in Nat, Position(i) = Position(j)
      PROVE  i = j
  <2>1. i \div SlotCount = j \div SlotCount
    BY <1>5 DEF Position
  <2>2. StartSlotPos + (i % SlotCount) = StartSlotPos + (j % SlotCount)
    BY <1>5 DEF Position
  <2>3. i % SlotCount = j % SlotCount
    <3>1. i % SlotCount \in Int /\ j % SlotCount \in Int
      BY <1>3
    <3> HIDE DEF SlotCount
    <3> QED
      BY <2>2, <3>1, SlotAssumption
  <2> QED
    BY <2>1, <2>3, <1>3
<1>6. ASSUME NEW p \in (0..(n - 1)) \X Slots
      PROVE  \E j \in 0..(n * SlotCount - 1) : Position(j) = p
  <2> DEFINE q == p[1]
             r == p[2] - StartSlotPos
             j == SlotCount * q + r
  <2>1. q \in 0..(n - 1) /\ q \in Nat
    OBVIOUS
  <2>2. r \in 0..(SlotCount - 1)
    BY SlotAssumption DEF Slots, SlotCount
  <2>3. SlotCount * q \in Nat /\ SlotCount * q <= SlotCount * (n - 1)
    <3> HIDE DEF q, SlotCount
    <3> QED
      BY <1>1, <2>1, Z3
  <2>4. SlotCount * (n - 1) = n * SlotCount - SlotCount
    <3> HIDE DEF SlotCount
    <3> QED
      BY <1>1, Z3
  <2>5. j \in 0..(n * SlotCount - 1)
    <3> HIDE DEF q, r, SlotCount
    <3> QED
      BY <1>1, <1>2, <2>2, <2>3, <2>4
  <2>6. j \div SlotCount = q /\ j % SlotCount = r
    BY <1>1, <2>1, <2>2, DivModUnique
  <2>7. StartSlotPos + r = p[2]
    BY SlotAssumption DEF Slots
  <2>8. Position(j) = <<q, p[2]>>
    BY <2>6, <2>7 DEF Position
  <2> QED
    BY <2>5, <2>8
<1> QED
  BY <1>1, <1>2, <1>4, <1>5, <1>6

(* The recursive function that Moved defines exists.                        *)
MoveOne(b, from, x, j) ==
  IF Position(j) \in from THEN MoveSlot(x, Content(b, Position(j))) ELSE x

IsMove(b, from, m, g) ==
  g = [j \in 0..m |-> IF j = 0 THEN EmptyBucket(2 * Cardinality(DOMAIN b))
                      ELSE MoveOne(b, from, g[j - 1], j - 1)]

LEMMA MoveExtends ==
  ASSUME NEW b, NEW from, NEW m \in Nat, NEW g, IsMove(b, from, m, g)
  PROVE  \E h : IsMove(b, from, m + 1, h)
<1> DEFINE E == EmptyBucket(2 * Cardinality(DOMAIN b))
           F(x, j) == MoveOne(b, from, x, j)
           h == [j \in 0..(m + 1) |-> IF j \in 0..m THEN g[j] ELSE F(g[m], m)]
           h2 == [j \in 0..(m + 1) |-> IF j = 0 THEN E ELSE F(h[j - 1], j - 1)]
<1>1. g = [j \in 0..m |-> IF j = 0 THEN E ELSE F(g[j - 1], j - 1)]
  BY DEF IsMove
<1> HIDE DEF E, F
<1>2. \A j \in 0..m : g[j] = IF j = 0 THEN E ELSE F(g[j - 1], j - 1)
  BY <1>1
<1>3. ASSUME NEW j \in 0..(m + 1) PROVE h[j] = h2[j]
  <2>1. CASE j = 0
    BY <2>1, <1>2
  <2>2. CASE j # 0 /\ j \in 0..m
    <3>1. j - 1 \in 0..m /\ j - 1 \in 0..(m + 1)
      BY <2>2
    <3>2. h[j - 1] = g[j - 1] /\ h[j] = g[j]
      BY <3>1, <2>2
    <3>3. g[j] = F(g[j - 1], j - 1)
      BY <2>2, <1>2
    <3> QED
      BY <3>2, <3>3, <2>2
  <2>3. CASE j = m + 1
    <3>1. j - 1 = m /\ j \notin 0..m /\ j # 0 /\ m \in 0..m /\ m \in 0..(m + 1)
      BY <2>3
    <3>2. h[m] = g[m] /\ h[j] = F(g[m], m)
      BY <3>1
    <3>3. h2[j] = F(h[m], m)
      BY <3>1
    <3> QED
      BY <3>2, <3>3
  <2> QED
    BY <2>1, <2>2, <2>3
<1>4. h = h2
  BY <1>3
<1>5. IsMove(b, from, m + 1, h)
  BY <1>4 DEF IsMove, E, F
<1> QED
  BY <1>5

LEMMA MoveExists ==
  ASSUME NEW b, NEW from, NEW m \in Nat
  PROVE  \E g : IsMove(b, from, m, g)
<1> DEFINE T == {i \in Nat : ~\E g : IsMove(b, from, i, g)}
<1> SUFFICES ASSUME T # {} PROVE FALSE
  OBVIOUS
<1>1. PICK i \in T : \A j \in T : i <= j
  BY Least
<1>2. i # 0
  <2>1. IsMove(b, from, 0, [j \in 0..0 |-> EmptyBucket(2 * Cardinality(DOMAIN b))])
    BY DEF IsMove
  <2> QED
    BY <2>1
<1>3. i - 1 \in Nat /\ i - 1 \notin T
  BY <1>1, <1>2
<1>4. \E g : IsMove(b, from, i - 1, g)
  BY <1>3
<1>5. \E g : IsMove(b, from, (i - 1) + 1, g)
  BY <1>3, <1>4, MoveExtends
<1>6. (i - 1) + 1 = i
  BY <1>1
<1> QED
  BY <1>1, <1>5, <1>6

LEMMA MovedMoves ==
  ASSUME NEW b, NEW from, Cardinality(DOMAIN b) * SlotCount \in Nat
  PROVE  IsMove(b, from, Cardinality(DOMAIN b) * SlotCount, Filling(b, from))
<1> DEFINE m == Cardinality(DOMAIN b) * SlotCount
           g == CHOOSE g : IsMove(b, from, m, g)
<1>1. IsMove(b, from, m, g)
  BY MoveExists
<1>2. Filling(b, from) = g
  BY DEF Filling, IsMove, MoveOne
<1> QED
  BY <1>1, <1>2

-----------------------------------------------------------------------------
(* The cells that a rehash fills have their used slots in front, and as     *)
(* many as there are records in it.                                         *)

Packed(c, m) == c.bitmap = StartSlotPos..(StartSlotPos + m - 1) /\ c.deleted = {}

Compact(c) == \E m \in 0..(SlotCount - 1) : Packed(c, m)

LEMMA PackedCount ==
  ASSUME NEW c, NEW m \in 0..(SlotCount - 1), Packed(c, m)
  PROVE  Cardinality(c.bitmap) = m
<1>1. m \in Nat /\ StartSlotPos \in Int /\ StartSlotPos + m - 1 \in Int
  BY SlotAssumption
<1>2. Cardinality(c.bitmap) =
        IF StartSlotPos > StartSlotPos + m - 1 THEN 0
        ELSE (StartSlotPos + m - 1) - StartSlotPos + 1
  BY <1>1, FS_Interval DEF Packed
<1> QED
  BY <1>1, <1>2

LEMMA PackedInsert ==
  ASSUME NEW c \in Cell, NEW m \in 0..(SlotCount - 1), Packed(c, m),
         HoldsRecords(c), Cardinality(c.bitmap) < SlotCount - 1, NEW r \in Record
  PROVE  LET i == StartSlotPos + Cardinality(c.bitmap)
             new == InsertToSlot(c, i, r)
         IN  /\ i \in Slots /\ i \notin c.bitmap
             /\ new \in Cell /\ Compact(new) /\ HoldsRecords(new)
             /\ new.bitmap = c.bitmap \cup {i}
             /\ Full(c) => Full(new)
             /\ ValidBitSet(new) = ValidBitSet(c) \cup {i}
             /\ new.slot[i] = r
             /\ \A j \in Slots \ {i} : new.slot[j] = c.slot[j]
<1> DEFINE i == StartSlotPos + Cardinality(c.bitmap)
           new == InsertToSlot(c, i, r)
<1>1. Cardinality(c.bitmap) = m /\ i = StartSlotPos + m
  BY PackedCount
<1>2. SlotCount \in Nat /\ SlotCount = SlotMaxRange - StartSlotPos + 1
  BY SlotAssumption DEF SlotCount
<1>3. i \in Slots
  BY <1>1, <1>2, SlotAssumption DEF Slots
<1>4. i \notin c.bitmap
  BY <1>1, SlotAssumption DEF Packed
<1>5. CellSound(c)
  BY <1>1, <1>2 DEF CellSound, Packed
<1>6. i \in BackupBitSet(c) /\ ~Full(c)
  BY <1>1, <1>2, <1>3, <1>4 DEF BackupBitSet, Full
<1>7. /\ new \in Cell /\ HoldsRecords(new)
      /\ Full(c) => Full(new)
      /\ ValidBitSet(new) = ValidBitSet(c) \cup {i}
      /\ new.slot[i] = r
      /\ \A j \in Slots \ {i} : new.slot[j] = c.slot[j]
  <2> HIDE DEF i
  <2> QED
    BY <1>3, <1>5, <1>6, InsertSound
<1>8. new.bitmap = c.bitmap \cup {i} /\ new.deleted = c.deleted \ {i}
  BY DEF InsertToSlot
<1>9. m + 1 \in 0..(SlotCount - 1)
  BY <1>1, <1>2
<1>10. new.bitmap = StartSlotPos..(StartSlotPos + (m + 1) - 1)
  <2>1. c.bitmap = StartSlotPos..(StartSlotPos + m - 1)
    BY DEF Packed
  <2> HIDE DEF new
  <2> QED
    BY <2>1, <1>1, <1>8, <1>9, SlotAssumption
<1>11. Compact(new)
  BY <1>8, <1>9, <1>10 DEF Compact, Packed
<1> QED
  BY <1>3, <1>4, <1>7, <1>8, <1>11

LEMMA CountInterval ==
  ASSUME NEW n \in Nat
  PROVE  IsFiniteSet(0..(n - 1)) /\ Cardinality(0..(n - 1)) = n
<1>1. n - 1 \in Int /\ (0 > n - 1 <=> n = 0)
  OBVIOUS
<1>2. IsFiniteSet(0..(n - 1))
  BY <1>1, FS_Interval
<1>3. Cardinality(0..(n - 1)) = IF 0 > n - 1 THEN 0 ELSE (n - 1) - 0 + 1
  BY <1>1, FS_Interval
<1> QED
  BY <1>1, <1>2, <1>3

Typed(x, w) ==
  /\ x \in Bucket(w)
  /\ \A c \in 0..(w - 1) : Compact(x[c]) /\ HoldsRecords(x[c])

Distinct(b, from) ==
  \A p, q \in from : Content(b, p).key = Content(b, q).key => p = q

(* What a rehash has built after the first j positions.                     *)
MoveInv(b, n, from, x, j) ==
  /\ OnPath(x, 2 * n)
  /\ \A r : Holds(x, 2 * n, r) <=>
              \E i \in 0..(j - 1) : Position(i) \in from /\ Content(b, Position(i)) = r
  /\ Distinct(b, from) => UniqueKeys(x, 2 * n)

LEMMA CompactSound ==
  ASSUME NEW c, Compact(c)
  PROVE  /\ CellSound(c) /\ ValidBitSet(c) = c.bitmap
         /\ Cardinality(c.bitmap) \in Nat
         /\ ~(Cardinality(c.bitmap) < SlotCount - 1) => Full(c)
<1>1. PICK m \in 0..(SlotCount - 1) : Packed(c, m)
  BY DEF Compact
<1>2. Cardinality(c.bitmap) = m
  BY <1>1, PackedCount
<1>3. SlotCount \in Nat
  BY SlotAssumption DEF SlotCount
<1> QED
  BY <1>1, <1>2, <1>3 DEF CellSound, ValidBitSet, Packed, Full

LEMMA MoveInit ==
  ASSUME NEW n \in Nat \ {0}, NEW b, NEW from
  PROVE  /\ Typed(EmptyBucket(2 * n), 2 * n)
         /\ MoveInv(b, n, from, EmptyBucket(2 * n), 0)
<1> DEFINE x == EmptyBucket(2 * n)
<1>0. 2 * n \in Nat
  OBVIOUS
<1>1. /\ x \in Bucket(2 * n)
      /\ \A c \in 0..(2 * n - 1) : /\ HoldsRecords(x[c])
                                   /\ x[c].bitmap = {} /\ x[c].deleted = {}
  BY <1>0, EmptySound DEF SoundBucket
<1>2. OnPath(x, 2 * n) /\ UniqueKeys(x, 2 * n)
  BY <1>0, EmptyMap
<1> HIDE DEF x
<1>3. ASSUME NEW c \in 0..(2 * n - 1) PROVE Compact(x[c])
  <2>1. {} = StartSlotPos..(StartSlotPos + 0 - 1) /\ 0 \in 0..(SlotCount - 1)
    BY SlotAssumption DEF SlotCount
  <2> QED
    BY <1>1, <2>1 DEF Compact, Packed
<1>4. \A r : ~Holds(x, 2 * n, r)
  BY <1>1 DEF Holds, ValidBitSet
<1>5. 0..(0 - 1) = {}
  OBVIOUS
<1> QED
  BY <1>1, <1>2, <1>3, <1>4, <1>5 DEF Typed, MoveInv, x

LEMMA MoveSkips ==
  ASSUME NEW n \in Nat \ {0}, NEW b, NEW from, NEW x, NEW j \in Nat,
         MoveInv(b, n, from, x, j), Position(j) \notin from
  PROVE  MoveInv(b, n, from, x, j + 1)
<1>1. 0..((j + 1) - 1) = 0..(j - 1) \cup {j}
  OBVIOUS
<1>2. \A r : (\E i \in 0..(j - 1) : Position(i) \in from /\ Content(b, Position(i)) = r)
        <=> (\E i \in 0..((j + 1) - 1) : Position(i) \in from /\ Content(b, Position(i)) = r)
  BY <1>1
<1> QED
  BY <1>2 DEF MoveInv

(* A record goes to the next slot i of the cell c at the first distance d   *)
(* whose cell is open.                                                      *)
Takes(x, w, r, d, c, i, new) ==
  /\ Lowest(d, OpenDists(x, r.key)) /\ d \in Nat
  /\ \A e \in 0..MaxProbeLen :
       e < d => ~(Cardinality(x[ProbeCell(r.key, w, e)].bitmap) < SlotCount - 1)
  /\ c = ProbeCell(r.key, w, d)
  /\ MoveSlot(x, r) = [x EXCEPT ![c] = new]
  /\ i \notin x[c].bitmap
  /\ Compact(new) /\ HoldsRecords(new)
  /\ new.bitmap = x[c].bitmap \cup {i}
  /\ Full(x[c]) => Full(new)
  /\ ValidBitSet(new) = ValidBitSet(x[c]) \cup {i}
  /\ new.slot[i] = r
  /\ \A s \in Slots \ {i} : new.slot[s] = x[c].slot[s]

LEMMA MoveOpens ==
  ASSUME NEW w \in Nat \ {0}, NEW x, Typed(x, w), NEW r \in Record,
         OpenDists(x, r.key) # {}
  PROVE  \E d \in 0..MaxProbeLen, c \in 0..(w - 1), i \in Slots, new \in Cell :
           Takes(x, w, r, d, c, i, new)
<1> DEFINE k == r.key
           open == OpenDists(x, k)
           d == CHOOSE e \in open : Lowest(e, open)
           c == ProbeCell(k, w, d)
           i == StartSlotPos + Cardinality(x[c].bitmap)
           new == InsertToSlot(x[c], i, r)
<1>1. k \in Keys /\ MaxProbeLen \in Nat /\ Cardinality(DOMAIN x) = w
  BY ProbeAssumption, CountInterval DEF Record, Typed, Bucket
<1>2. open = {e \in 0..MaxProbeLen :
                Cardinality(x[ProbeCell(k, w, e)].bitmap) < SlotCount - 1}
  BY <1>1 DEF OpenDists
<1>3. MoveSlot(x, r) = [x EXCEPT ![c] = new]
  BY <1>1 DEF MoveSlot
<1>4. d \in open /\ Lowest(d, open)
  <2>1. open \in SUBSET Nat /\ open # {}
    BY <1>1, <1>2
  <2>2. \E e \in open : Lowest(e, open)
    <3> HIDE DEF open
    <3> QED
      BY <2>1, Least DEF Lowest
  <2> HIDE DEF open
  <2> QED
    BY <2>2
<1>5. d \in 0..MaxProbeLen /\ d \in Nat /\ Cardinality(x[c].bitmap) < SlotCount - 1
  BY <1>1, <1>2, <1>4
<1> HIDE DEF d
<1>6. c \in 0..(w - 1)
  BY <1>1, <1>5, ProbeInBucket
<1>7. \A e \in 0..MaxProbeLen :
        e < d => ~(Cardinality(x[ProbeCell(k, w, e)].bitmap) < SlotCount - 1)
  <2>1. \A f \in open : d <= f
    BY <1>4 DEF Lowest
  <2> SUFFICES ASSUME NEW e \in 0..MaxProbeLen, e < d PROVE e \notin open
    BY <1>2
  <2> HIDE DEF open
  <2> QED
    BY <1>1, <1>5, <2>1
<1>8. /\ i \in Slots /\ i \notin x[c].bitmap
      /\ new \in Cell /\ Compact(new) /\ HoldsRecords(new)
      /\ new.bitmap = x[c].bitmap \cup {i}
      /\ Full(x[c]) => Full(new)
      /\ ValidBitSet(new) = ValidBitSet(x[c]) \cup {i}
      /\ new.slot[i] = r
      /\ \A s \in Slots \ {i} : new.slot[s] = x[c].slot[s]
  <2>1. x[c] \in Cell /\ HoldsRecords(x[c]) /\ Compact(x[c])
    BY <1>6 DEF Bucket, Typed
  <2>2. PICK m \in 0..(SlotCount - 1) : Packed(x[c], m)
    BY <2>1 DEF Compact
  <2> HIDE DEF c
  <2> QED
    BY <1>5, <2>1, <2>2, PackedInsert
<1> HIDE DEF open, c, i, new
<1>9. c = ProbeCell(r.key, w, d) /\ Lowest(d, OpenDists(x, r.key))
  BY <1>4 DEF c, open, k
<1>10. Takes(x, w, r, d, c, i, new)
  BY <1>3, <1>5, <1>7, <1>8, <1>9 DEF Takes, k
<1> QED
  BY <1>5, <1>6, <1>8, <1>10

LEMMA MoveTyped ==
  ASSUME NEW w \in Nat \ {0}, NEW x, Typed(x, w), NEW r \in Record
  PROVE  Typed(MoveSlot(x, r), w)
<1>1. CASE OpenDists(x, r.key) = {}
  BY <1>1 DEF MoveSlot
<1>2. CASE OpenDists(x, r.key) # {}
  <2>1. PICK d \in 0..MaxProbeLen, c \in 0..(w - 1), i \in Slots, new \in Cell :
          Takes(x, w, r, d, c, i, new)
    BY <1>2, MoveOpens
  <2> QED
    BY <2>1 DEF Takes, Typed, Bucket
<1> QED
  BY <1>1, <1>2

LEMMA MoveMoves ==
  ASSUME NEW n \in Nat \ {0}, NEW b, NEW from, NEW x, Typed(x, 2 * n),
         NEW j \in 0..(n * SlotCount - 1), MoveInv(b, n, from, x, j),
         Position(j) \in from, NEW r \in Record, Content(b, Position(j)) = r,
         OpenDists(x, r.key) # {}, ~Lowest(MaxProbeLen, OpenDists(x, r.key))
  PROVE  MoveInv(b, n, from, MoveSlot(x, r), j + 1)
<1> DEFINE w == 2 * n
           k == r.key
<1>0. /\ w \in Nat \ {0} /\ k \in Keys /\ j \in Nat
      /\ j < n * SlotCount
  <2>1. n * SlotCount \in Nat
    BY Positioned
  <2> QED
    BY <2>1 DEF Record
<1>1. /\ x \in Bucket(w)
      /\ \A e \in 0..(w - 1) : Compact(x[e]) /\ HoldsRecords(x[e])
      /\ OnPath(x, w)
  BY DEF MoveInv, Typed
<1> HIDE DEF w
<1>2. PICK d \in 0..MaxProbeLen, c \in 0..(w - 1), i \in Slots, new \in Cell :
        Takes(x, w, r, d, c, i, new)
  <2>1. Typed(x, w)
    BY DEF w
  <2> QED
    BY <1>0, <2>1, MoveOpens
<1> DEFINE y == [x EXCEPT ![c] = new]
<1>3. /\ Lowest(d, OpenDists(x, k)) /\ d \in Nat
      /\ \A e \in 0..MaxProbeLen :
           e < d => ~(Cardinality(x[ProbeCell(k, w, e)].bitmap) < SlotCount - 1)
      /\ c = ProbeCell(k, w, d)
  BY <1>2 DEF Takes
<1>4. MoveSlot(x, r) = y /\ c \in 0..(w - 1)
  BY <1>2 DEF Takes
(* A distance as large as the number of cells is that of a cell seen before *)
(* and MaxProbeLen is excluded: the record is within reach of a search.     *)
<1>5. d \in ProbeDist(w)
  <2>1. MaxProbeLen \in Nat /\ d # MaxProbeLen
    BY <1>3, ProbeAssumption
  <2>2. ASSUME d >= w PROVE FALSE
    <3>1. d - w \in Nat /\ d - w \in 0..MaxProbeLen /\ d - w < d /\ (d - w) + w = d
      BY <1>0, <1>3, <2>1, <2>2
    <3>2. ProbeCell(k, w, d) = ProbeCell(k, w, d - w)
      <4>1. ProbeCell(k, w, (d - w) + w) = ProbeCell(k, w, d - w)
        BY <1>0, <3>1, ProbePeriod
      <4> QED
        BY <3>1, <4>1
    <3>3. d \in OpenDists(x, k) /\ Cardinality(DOMAIN x) = w
      BY <1>0, <1>1, <1>3, CountInterval DEF Lowest, Bucket
    <3>4. Cardinality(x[ProbeCell(k, w, d)].bitmap) < SlotCount - 1
      BY <3>3 DEF OpenDists
    <3> QED
      BY <1>3, <3>1, <3>2, <3>4
  <2>3. d \in 0..(MaxProbeLen - 1) /\ d < w
    BY <1>0, <1>3, <2>1, <2>2
  <2> QED
    BY <2>3 DEF ProbeDist
<1>6. d \in Visited(x, w, k)
  <2> SUFFICES ASSUME NEW e \in 0..(d - 1) PROVE Full(x[ProbeCell(k, w, e)])
    BY <1>5 DEF Visited
  <2>1. e \in Nat /\ e < d /\ e \in 0..MaxProbeLen
    BY <1>3, ProbeAssumption
  <2>2. ~(Cardinality(x[ProbeCell(k, w, e)].bitmap) < SlotCount - 1)
    BY <1>3, <2>1
  <2>3. ProbeCell(k, w, e) \in 0..(w - 1)
    BY <1>0, <2>1, ProbeInBucket
  <2> QED
    BY <1>1, <2>2, <2>3, CompactSound
<1>7. /\ i \in Slots /\ i \notin x[c].bitmap
      /\ new \in Cell /\ Compact(new) /\ HoldsRecords(new)
      /\ new.bitmap = x[c].bitmap \cup {i}
      /\ Full(x[c]) => Full(new)
      /\ ValidBitSet(new) = ValidBitSet(x[c]) \cup {i}
      /\ new.slot[i] = r
      /\ \A s \in Slots \ {i} : new.slot[s] = x[c].slot[s]
  BY <1>2 DEF Takes
<1> HIDE DEF k
<1>8. /\ y \in Bucket(w) /\ y[c] = new
      /\ \A e \in (0..(w - 1)) \ {c} : y[e] = x[e]
  BY <1>1, <1>4, <1>7 DEF Bucket
<1>9. \A s \in ValidBitSet(x[c]) : s # i /\ s \in Slots /\ new.slot[s] = x[c].slot[s]
  <2>1. x[c].bitmap \subseteq Slots
    BY <1>1, <1>4 DEF Bucket, Cell
  <2> QED
    BY <2>1, <1>7 DEF ValidBitSet
<1>10. OnPath(y, w)
  <2>1. SoundBucket(x, w)
    BY <1>1, CompactSound DEF SoundBucket
  <2>2. ASSUME NEW s \in ValidBitSet(new)
        PROVE  \/ s \in ValidBitSet(x[c]) /\ new.slot[s] = x[c].slot[s]
               \/ \E e \in Visited(x, w, new.slot[s].key) :
                    ProbeCell(new.slot[s].key, w, e) = c
    <3>1. CASE s = i
      BY <3>1, <1>3, <1>6, <1>7 DEF k
    <3>2. CASE s # i
      BY <3>2, <1>7, <1>9
    <3> QED
      BY <3>1, <3>2
  <2> QED
    BY <1>0, <1>1, <1>4, <1>7, <2>1, <2>2, WriteKeepsPaths
<1>12. \A q : Holds(y, w, q) <=> Holds(x, w, q) \/ q = r
  <2>1. ASSUME NEW q, Holds(y, w, q) PROVE Holds(x, w, q) \/ q = r
    <3>1. PICK e \in 0..(w - 1) : \E s \in ValidBitSet(y[e]) : y[e].slot[s] = q
      BY <2>1 DEF Holds
    <3>2. PICK s \in ValidBitSet(y[e]) : y[e].slot[s] = q
      BY <3>1
    <3>3. CASE e # c
      BY <3>2, <3>3, <1>8 DEF Holds
    <3>4. CASE e = c /\ s # i
      BY <3>2, <3>4, <1>4, <1>7, <1>8, <1>9 DEF Holds
    <3>5. CASE e = c /\ s = i
      BY <3>2, <3>5, <1>7, <1>8
    <3> QED
      BY <3>3, <3>4, <3>5
  <2>2. Holds(y, w, r)
    BY <1>4, <1>7, <1>8 DEF Holds
  <2>3. ASSUME NEW q, Holds(x, w, q) PROVE Holds(y, w, q)
    <3>1. PICK e \in 0..(w - 1) : \E s \in ValidBitSet(x[e]) : x[e].slot[s] = q
      BY <2>3 DEF Holds
    <3>2. PICK s \in ValidBitSet(x[e]) : x[e].slot[s] = q
      BY <3>1
    <3>3. CASE e # c
      BY <3>2, <3>3, <1>8 DEF Holds
    <3>4. CASE e = c
      <4>1. s \in ValidBitSet(y[c]) /\ y[c].slot[s] = q
        BY <3>2, <3>4, <1>7, <1>8, <1>9
      <4> QED
        BY <4>1, <1>4 DEF Holds
    <3> QED
      BY <3>3, <3>4
  <2> QED
    BY <2>1, <2>2, <2>3
<1>13. \A q : Holds(x, w, q) <=>
         \E e \in 0..(j - 1) : Position(e) \in from /\ Content(b, Position(e)) = q
  BY DEF MoveInv, w
<1>14. \A q : Holds(y, w, q) <=>
         \E e \in 0..((j + 1) - 1) : Position(e) \in from /\ Content(b, Position(e)) = q
  <2>1. 0..((j + 1) - 1) = 0..(j - 1) \cup {j}
    BY <1>0
  <2> QED
    BY <2>1, <1>12, <1>13
<1>15. ASSUME Distinct(b, from) PROVE UniqueKeys(y, w)
  <2>1. ASSUME NEW e \in 0..(w - 1), NEW s \in ValidBitSet(x[e]), x[e].slot[s].key = k
        PROVE  FALSE
    <3>1. Holds(x, w, x[e].slot[s])
      BY <2>1 DEF Holds
    <3>2. PICK f \in 0..(j - 1) : Position(f) \in from /\ Content(b, Position(f)) = x[e].slot[s]
      BY <3>1, <1>13
    <3>3. Position(f) = Position(j)
      BY <3>2, <2>1, <1>15 DEF Distinct, k
    <3>4. f = j
      BY <3>3, <1>0, Positioned
    <3> QED
      BY <3>4, <1>0
  <2>2. UniqueKeys(x, w)
    BY <1>15 DEF MoveInv, w
  <2>3. new.slot[i].key = k
    BY <1>7 DEF k
  <2>4. \A s \in ValidBitSet(new) :
          s = i \/ (s \in ValidBitSet(x[c]) /\ new.slot[s] = x[c].slot[s])
    BY <1>7, <1>9
  <2>5. \A s \in ValidBitSet(new) : new.slot[s].key = new.slot[i].key => s = i
    BY <2>1, <2>3, <2>4, <1>4
  <2>6. \A e \in (0..(w - 1)) \ {c} : \A s \in ValidBitSet(x[e]) :
          x[e].slot[s].key # new.slot[i].key
    BY <2>1, <2>3
  <2>7. /\ w \in Nat \ {0} /\ x \in Bucket(w) /\ c \in 0..(w - 1)
        /\ new \in Cell /\ i \in Slots
    BY <1>0, <1>1, <1>4, <1>7
  <2> QED
    BY <2>2, <2>4, <2>5, <2>6, <2>7, WriteKeepsUnique
<1> QED
  BY <1>4, <1>10, <1>14, <1>15 DEF MoveInv, w

(* The steps of a rehash: all leave cells that are in order, and those of a *)
(* rehash that finds room within reach leave every record where a search    *)
(* looks for it.                                                            *)
LEMMA FillingTyped ==
  ASSUME NEW n \in Nat \ {0}, NEW b \in Bucket(n),
         NEW from \in SUBSET ((0..(n - 1)) \X Slots),
         \A p \in from : Content(b, p) \in Record
  PROVE  /\ Cardinality(DOMAIN b) = n
         /\ Filling(b, from)[0] = EmptyBucket(2 * n)
         /\ \A j \in 0..(n * SlotCount - 1) :
              Filling(b, from)[j + 1] = MoveOne(b, from, Filling(b, from)[j], j)
         /\ \A j \in 0..(n * SlotCount) : Typed(Filling(b, from)[j], 2 * n)
<1> DEFINE m == n * SlotCount
           g == Filling(b, from)
<1>1. m \in Nat \ {0} /\ 2 * n \in Nat \ {0}
  BY Positioned
<1>2. Cardinality(DOMAIN b) = n
  BY CountInterval DEF Bucket
<1>3. IsMove(b, from, m, g)
  BY <1>1, <1>2, MovedMoves
<1> HIDE DEF g, m
<1>4. \A j \in 0..m : g[j] = IF j = 0 THEN EmptyBucket(2 * n)
                             ELSE MoveOne(b, from, g[j - 1], j - 1)
  BY <1>2, <1>3 DEF IsMove
<1>5. g[0] = EmptyBucket(2 * n)
  BY <1>1, <1>4
<1>6. ASSUME NEW j \in 0..(m - 1) PROVE g[j + 1] = MoveOne(b, from, g[j], j)
  <2>1. j + 1 \in 0..m /\ j + 1 # 0 /\ (j + 1) - 1 = j
    BY <1>1
  <2> QED
    BY <2>1, <1>4
<1> DEFINE T == {j \in 0..m : ~Typed(g[j], 2 * n)}
<1>7. T = {}
  <2> SUFFICES ASSUME T # {} PROVE FALSE
    OBVIOUS
  <2>1. T \in SUBSET Nat
    BY <1>1
  <2>2. PICK j \in T : \A i \in T : j <= i
    <3> HIDE DEF T
    <3> QED
      BY <2>1, Least
  <2>3. j # 0
    BY <1>5, MoveInit
  <2>4. /\ j \in 0..m /\ j - 1 \in 0..m /\ j - 1 \in 0..(m - 1)
        /\ ~(j <= j - 1) /\ (j - 1) + 1 = j
    BY <1>1, <2>3
  <2>5. Typed(g[j - 1], 2 * n)
    BY <2>2, <2>4
  <2>6. g[j] = MoveOne(b, from, g[j - 1], j - 1)
    BY <1>6, <2>4
  <2>7. Typed(g[j], 2 * n)
    BY <1>1, <2>5, <2>6, MoveTyped DEF MoveOne
  <2> QED
    BY <2>2, <2>7
<1>8. \A j \in 0..m : Typed(g[j], 2 * n)
  BY <1>7
<1> QED
  BY <1>2, <1>5, <1>6, <1>8 DEF g, m

LEMMA FillingRight ==
  ASSUME NEW n \in Nat \ {0}, NEW b \in Bucket(n),
         NEW from \in SUBSET ((0..(n - 1)) \X Slots),
         \A p \in from : Content(b, p) \in Record,
         \A j \in 0..(n * SlotCount - 1) : Position(j) \in from =>
           LET open == OpenDists(Filling(b, from)[j], Content(b, Position(j)).key)
           IN  open # {} /\ ~Lowest(MaxProbeLen, open)
  PROVE  MoveInv(b, n, from, Filling(b, from)[n * SlotCount], n * SlotCount)
<1> DEFINE m == n * SlotCount
           g == Filling(b, from)
<1>1. m \in Nat \ {0}
  BY Positioned
<1>2. /\ g[0] = EmptyBucket(2 * n)
      /\ \A j \in 0..(m - 1) : g[j + 1] = MoveOne(b, from, g[j], j)
      /\ \A j \in 0..m : Typed(g[j], 2 * n)
  BY FillingTyped
<1>3. \A j \in 0..(m - 1) : Position(j) \in from =>
        /\ OpenDists(g[j], Content(b, Position(j)).key) # {}
        /\ ~Lowest(MaxProbeLen, OpenDists(g[j], Content(b, Position(j)).key))
  OBVIOUS
<1> HIDE DEF g
<1> DEFINE T == {j \in 0..m : ~MoveInv(b, n, from, g[j], j)}
<1>5. T = {}
  <2> SUFFICES ASSUME T # {} PROVE FALSE
    OBVIOUS
  <2>1. T \in SUBSET Nat
    BY <1>1
  <2>2. PICK j \in T : \A i \in T : j <= i
    <3> HIDE DEF T
    <3> QED
      BY <2>1, Least
  <2>3. j # 0
    BY <1>2, MoveInit
  <2>4. /\ j \in 0..m /\ j - 1 \in 0..m /\ j - 1 \in Nat
        /\ ~(j <= j - 1) /\ (j - 1) + 1 = j
    BY <1>1, <2>3
  <2>8. j - 1 \in 0..(n * SlotCount - 1)
    BY <1>1, <2>4
  <2>5. MoveInv(b, n, from, g[j - 1], j - 1) /\ Typed(g[j - 1], 2 * n)
    <3>1. j - 1 \notin T
      BY <2>2, <2>4
    <3> QED
      BY <3>1, <2>4, <1>2
  <2>6. g[j] = MoveOne(b, from, g[j - 1], j - 1)
    BY <1>2, <2>4, <2>8
  <2>7. MoveInv(b, n, from, g[j], (j - 1) + 1)
    <3>1. CASE Position(j - 1) \in from
      <4> DEFINE r == Content(b, Position(j - 1))
      <4>1. r \in Record
        BY <3>1
      <4>2. g[j] = MoveSlot(g[j - 1], r)
        BY <2>6, <3>1 DEF MoveOne
      <4>3. OpenDists(g[j - 1], r.key) # {} /\ ~Lowest(MaxProbeLen, OpenDists(g[j - 1], r.key))
        BY <1>3, <2>8, <3>1
      <4> QED
        BY <2>4, <2>5, <2>8, <3>1, <4>1, <4>2, <4>3, MoveMoves
    <3>2. CASE Position(j - 1) \notin from
      <4>1. g[j] = g[j - 1]
        BY <2>6, <3>2 DEF MoveOne
      <4> QED
        BY <2>4, <2>5, <3>2, <4>1, MoveSkips
    <3> QED
      BY <3>1, <3>2
  <2> QED
    BY <2>2, <2>4, <2>7
<1>6. MoveInv(b, n, from, g[m], m)
  BY <1>1, <1>5
<1> QED
  BY <1>6 DEF g

LEMMA MovingRecords ==
  ASSUME NEW n \in Nat \ {0}, NEW b \in Bucket(n),
         \A c \in 0..(n - 1) : HoldsRecords(b[c])
  PROVE  /\ Moving(b) \in SUBSET ((0..(n - 1)) \X Slots)
         /\ \A p \in Moving(b) : Content(b, p) \in Record
         /\ Rehashed(b) = Filling(b, Moving(b))[n * SlotCount]
<1>1. DOMAIN b = 0..(n - 1) /\ Cardinality(DOMAIN b) = n
  BY CountInterval DEF Bucket
<1>2. Moving(b) \in SUBSET ((0..(n - 1)) \X Slots)
  BY <1>1 DEF Moving, Positions
<1>3. \A p \in Moving(b) : Content(b, p) \in Record
  BY <1>1 DEF Moving, Positions, Content, HoldsRecords, ValidBitSet
<1> QED
  BY <1>1, <1>2, <1>3 DEF Rehashed, Moved

LEMMA RehashedTyped ==
  ASSUME NEW n \in Nat \ {0}, NEW b \in Bucket(n),
         \A c \in 0..(n - 1) : HoldsRecords(b[c])
  PROVE  /\ Rehashed(b) \in Bucket(2 * n)
         /\ SoundBucket(Rehashed(b), 2 * n)
<1>1. n * SlotCount \in 0..(n * SlotCount)
  BY Positioned
<1>2. Typed(Rehashed(b), 2 * n)
  BY <1>1, MovingRecords, FillingTyped
<1> QED
  BY <1>2, CompactSound DEF Typed, SoundBucket

(* A rehash that finds room within reach for every record keeps all those   *)
(* that can be found, in one place if it was in one place before, and on    *)
(* the probe path of its key.                                               *)
LEMMA RehashedRight ==
  ASSUME NEW n \in Nat \ {0}, NEW b \in Bucket(n),
         \A c \in 0..(n - 1) : HoldsRecords(b[c]),
         ~Stuck(b), ~Overruns(b)
  PROVE  /\ OnPath(Rehashed(b), 2 * n)
         /\ \A r : Holds(Rehashed(b), 2 * n, r) <=> Holds(b, n, r)
         /\ UniqueKeys(b, n) => UniqueKeys(Rehashed(b), 2 * n)
<1> DEFINE from == Moving(b)
           x == Rehashed(b)
<1>1. DOMAIN b = 0..(n - 1) /\ Cardinality(DOMAIN b) = n
  BY CountInterval DEF Bucket
<1>2. /\ from \in SUBSET ((0..(n - 1)) \X Slots)
      /\ \A p \in from : Content(b, p) \in Record
      /\ x = Filling(b, from)[n * SlotCount]
  BY MovingRecords
<1>3. \A j \in 0..(n * SlotCount - 1) : Position(j) \in from =>
        LET open == OpenDists(Filling(b, from)[j], Content(b, Position(j)).key)
        IN  open # {} /\ ~Lowest(MaxProbeLen, open)
  <2> SUFFICES ASSUME NEW j \in 0..(n * SlotCount - 1), Position(j) \in from
               PROVE  OpenDists(Filling(b, from)[j], Content(b, Position(j)).key) \in Choices(b)
    BY DEF Stuck, Overruns
  <2> QED
    BY <1>1 DEF Choices
<1> HIDE DEF x
<1>5. MoveInv(b, n, from, x, n * SlotCount)
  <2> HIDE DEF from
  <2> QED
    BY <1>2, <1>3, FillingRight
<1> USE DEF Moving
<1>6. OnPath(x, 2 * n)
  BY <1>5 DEF MoveInv
<1>7. ASSUME NEW r, Holds(x, 2 * n, r) PROVE Holds(b, n, r)
  <2>1. PICK j \in 0..(n * SlotCount - 1) : Position(j) \in from /\ Content(b, Position(j)) = r
    BY <1>5, <1>7 DEF MoveInv
  <2>2. PICK p \in from : Content(b, p) = r
    BY <2>1
  <2> QED
    BY <2>2, <1>1 DEF Holds, Content, Positions
<1>8. ASSUME NEW r, Holds(b, n, r) PROVE Holds(x, 2 * n, r)
  <2>1. PICK c \in 0..(n - 1) : \E i \in ValidBitSet(b[c]) : b[c].slot[i] = r
    BY <1>8 DEF Holds
  <2>2. PICK i \in ValidBitSet(b[c]) : b[c].slot[i] = r
    BY <2>1
  <2>3. i \in Slots
    BY <2>2 DEF ValidBitSet, Bucket, Cell
  <2>4. <<c, i>> \in from /\ Content(b, <<c, i>>) = r /\ <<c, i>> \in (0..(n - 1)) \X Slots
    BY <1>1, <2>2, <2>3 DEF Positions, Content
  <2>5. PICK j \in 0..(n * SlotCount - 1) : Position(j) = <<c, i>>
    BY <2>4, Positioned
  <2> QED
    BY <1>5, <2>4, <2>5 DEF MoveInv
<1>9. ASSUME UniqueKeys(b, n) PROVE UniqueKeys(x, 2 * n)
  <2>1. Distinct(b, from)
    <3> SUFFICES ASSUME NEW p \in from, NEW q \in from,
                        Content(b, p).key = Content(b, q).key
                 PROVE  p = q
      BY DEF Distinct
    <3>1. /\ p[1] \in 0..(n - 1) /\ q[1] \in 0..(n - 1)
          /\ p[2] \in ValidBitSet(b[p[1]]) /\ q[2] \in ValidBitSet(b[q[1]])
      BY <1>1 DEF Positions
    <3>2. p[1] = q[1] /\ p[2] = q[2]
      BY <3>1, <1>9 DEF UniqueKeys, Content
    <3>3. p = <<p[1], p[2]>> /\ q = <<q[1], q[2]>>
      BY <1>2
    <3> QED
      BY <3>2, <3>3
  <2> QED
    BY <2>1, <1>5 DEF MoveInv
<1> QED
  BY <1>6, <1>7, <1>8, <1>9 DEF x

-----------------------------------------------------------------------------
(* The arrays of cells: which steps replace or change them.                 *)

Arrays == UNION {Bucket(n) : n \in Nat \ {0}}
Versions == UNION {[0..(n - 1) -> Nat] : n \in Nat \ {0}}

ArraysOK ==
  /\ cells \in Seq(Arrays) /\ seq_no_ \in Seq(Versions)
  /\ Address \in Nat \ {0} /\ Len(seq_no_) = Address
  /\ \A a \in 1..Address :
       /\ CellCount(a) \in 1..build.CellCountLimit
       /\ cells[a] \in Bucket(CellCount(a))
       /\ seq_no_[a] \in [0..(CellCount(a) - 1) -> Nat]
       /\ \A c \in 0..(CellCount(a) - 1) : HoldsRecords(cells[a][c])

(* What holds a record goes on holding one.                                 *)
Later(b, b2, n) ==
  \A c \in 0..(n - 1) : \A i \in Slots :
    b[c].slot[i] \in Record => b2[c].slot[i] \in Record

Evolves ==
  /\ Address <= Address'
  /\ \A a \in 1..Address :
       CellCount(a)' = CellCount(a) /\ Later(cells[a], cells'[a], CellCount(a))

LEMMA SeqWrite ==
  ASSUME NEW S, NEW s \in Seq(S), NEW x \in S, NEW i \in 1..Len(s)
  PROVE  /\ [s EXCEPT ![i] = x] \in Seq(S)
         /\ Len([s EXCEPT ![i] = x]) = Len(s)
         /\ [s EXCEPT ![i] = x][i] = x
         /\ \A j \in 1..Len(s) : j # i => [s EXCEPT ![i] = x][j] = s[j]
  OBVIOUS

LEMMA SeqGrow ==
  ASSUME NEW S, NEW s \in Seq(S), NEW x \in S
  PROVE  /\ Append(s, x) \in Seq(S)
         /\ Len(Append(s, x)) = Len(s) + 1
         /\ Append(s, x)[Len(s) + 1] = x
         /\ \A j \in 1..Len(s) : Append(s, x)[j] = s[j]
  OBVIOUS

LEMMA BucketCount ==
  ASSUME NEW n \in Nat, NEW b \in Bucket(n)
  PROVE  DOMAIN b = 0..(n - 1) /\ Cardinality(DOMAIN b) = n
  BY CountInterval DEF Bucket

LEMMA CellsKept ==
  ASSUME ArraysOK, UNCHANGED <<build, cells, seq_no_>>
  PROVE  ArraysOK' /\ Evolves /\ Address' = Address
<1>1. ArraysOK'
  BY DEF ArraysOK, Address, CellCount
<1>2. Evolves
  BY DEF Evolves, Later, ArraysOK, Address, CellCount
<1> QED
  BY <1>1, <1>2 DEF Address

LEMMA CellsWritten ==
  ASSUME ArraysOK, NEW c \in 0..(CellCount(Address) - 1), NEW x \in Cell,
         HoldsRecords(x), build' = build,
         cells' = [cells EXCEPT ![Address][c] = x],
         \/ seq_no_' = seq_no_
         \/ seq_no_' = [seq_no_ EXCEPT ![Address][c] = @ + 1],
         \A i \in Slots : cells[Address][c].slot[i] \in Record => x.slot[i] \in Record
  PROVE  /\ ArraysOK' /\ Evolves /\ Address' = Address
         /\ cells'[Address] = [cells[Address] EXCEPT ![c] = x]
         /\ \A a \in 1..Address : a # Address => cells'[a] = cells[a]
<1> DEFINE A == Address
           b == [cells[A] EXCEPT ![c] = x]
           v == [seq_no_[A] EXCEPT ![c] = @ + 1]
<1>1. /\ cells \in Seq(Arrays) /\ seq_no_ \in Seq(Versions)
      /\ A \in Nat \ {0} /\ Len(cells) = A /\ Len(seq_no_) = A /\ A \in 1..A
  BY DEF ArraysOK, Address
<1>2. /\ CellCount(A) \in Nat \ {0} /\ cells[A] \in Bucket(CellCount(A))
      /\ seq_no_[A] \in [0..(CellCount(A) - 1) -> Nat]
  BY <1>1 DEF ArraysOK
<1>3. b \in Bucket(CellCount(A)) /\ v \in [0..(CellCount(A) - 1) -> Nat]
  BY <1>2 DEF Bucket
<1>4. b \in Arrays /\ v \in Versions
  BY <1>2, <1>3 DEF Arrays, Versions
<1>5. b[c] = x /\ \A e \in 0..(CellCount(A) - 1) : e # c => b[e] = cells[A][e]
  BY <1>2 DEF Bucket
<1>6. cells' = [cells EXCEPT ![A] = b]
  OBVIOUS
<1>7. seq_no_' = seq_no_ \/ seq_no_' = [seq_no_ EXCEPT ![A] = v]
  OBVIOUS
<1> HIDE DEF b, v, A
<1>8. /\ cells' \in Seq(Arrays) /\ Len(cells') = A /\ cells'[A] = b
      /\ \A a \in 1..A : a # A => cells'[a] = cells[a]
  <2>1. A \in 1..Len(cells) /\ cells \in Seq(Arrays) /\ b \in Arrays
    BY <1>1, <1>4
  <2>2. /\ [cells EXCEPT ![A] = b] \in Seq(Arrays)
        /\ Len([cells EXCEPT ![A] = b]) = Len(cells)
        /\ [cells EXCEPT ![A] = b][A] = b
        /\ \A j \in 1..Len(cells) : j # A => [cells EXCEPT ![A] = b][j] = cells[j]
    BY <2>1, SeqWrite
  <2>3. Len(cells) = A
    BY <1>1
  <2> QED
    BY <2>2, <2>3, <1>6, Zenon
<1>9. seq_no_' \in Seq(Versions) /\ Len(seq_no_') = A
  <2>1. A \in 1..Len(seq_no_) /\ seq_no_ \in Seq(Versions) /\ v \in Versions
    BY <1>1, <1>4
  <2> QED
    BY <2>1, <1>1, <1>7, SeqWrite
<1>10. \A a \in 1..A : seq_no_'[a] \in [0..(CellCount(a) - 1) -> Nat]
  <2>1. \A a \in 1..A : seq_no_[a] \in [0..(CellCount(a) - 1) -> Nat]
    BY DEF ArraysOK, A
  <2>2. CASE seq_no_' = seq_no_
    BY <2>1, <2>2
  <2>3. CASE seq_no_' = [seq_no_ EXCEPT ![A] = v]
    <3>1. \A a \in 1..A : seq_no_'[a] = IF a = A THEN v ELSE seq_no_[a]
      BY <2>3, <1>1, <1>4, SeqWrite
    <3> QED
      BY <3>1, <2>1, <1>3
  <2> QED
    BY <2>2, <2>3, <1>7
<1>11. Address' = A
  BY <1>8 DEF Address
<1>12. ASSUME NEW a \in 1..A PROVE CellCount(a)' = CellCount(a)
  <2>1. CASE a = A
    BY <2>1, <1>2, <1>3, <1>8, BucketCount DEF CellCount
  <2>2. CASE a # A
    BY <2>2, <1>8 DEF CellCount
  <2> QED
    BY <2>1, <2>2
<1>13. ASSUME NEW a \in 1..A
       PROVE  /\ CellCount(a)' \in 1..build'.CellCountLimit
              /\ cells'[a] \in Bucket(CellCount(a)')
              /\ \A e \in 0..(CellCount(a)' - 1) : HoldsRecords(cells'[a][e])
              /\ Later(cells[a], cells'[a], CellCount(a))
  <2>1. /\ CellCount(a) \in 1..build.CellCountLimit
        /\ cells[a] \in Bucket(CellCount(a))
        /\ \A e \in 0..(CellCount(a) - 1) : HoldsRecords(cells[a][e])
    BY DEF ArraysOK, A
  <2>2. CASE a = A
    <3>1. \A e \in 0..(CellCount(A) - 1) : HoldsRecords(b[e])
      BY <2>1, <2>2, <1>5
    <3>2. Later(cells[A], b, CellCount(A))
      BY <1>5 DEF Later, A
    <3> QED
      BY <3>1, <3>2, <2>1, <2>2, <1>3, <1>8, <1>12
  <2>3. CASE a # A
    <3>1. cells'[a] = cells[a]
      BY <2>3, <1>8
    <3>2. Later(cells[a], cells'[a], CellCount(a))
      BY <3>1 DEF Later
    <3> QED
      BY <3>1, <3>2, <2>1, <1>12
  <2> QED
    BY <2>2, <2>3
<1>14. ArraysOK'
  BY <1>1, <1>8, <1>9, <1>10, <1>11, <1>12, <1>13 DEF ArraysOK
<1>15. Evolves
  <2>1. Address = A /\ A <= A
    BY <1>1 DEF A
  <2> QED
    BY <2>1, <1>11, <1>12, <1>13 DEF Evolves
<1> QED
  BY <1>8, <1>11, <1>14, <1>15 DEF A, b

LEMMA CellsGrown ==
  ASSUME ArraysOK, build \in Builds, build' = build, Grow
  PROVE  /\ ArraysOK' /\ Evolves /\ Address' = Address + 1
         /\ cells'[Address + 1] = Rehashed(cells[Address])
         /\ Cardinality(DOMAIN cells'[Address + 1]) = 2 * CellCount(Address)
         /\ ~Stuck(cells[Address])
         /\ \A a \in 1..Address : cells'[a] = cells[a]
         /\ \A a \in 1..Address : seq_no_'[a] = seq_no_[a]
         /\ \A c \in 0..(2 * CellCount(Address) - 1) : seq_no_'[Address + 1][c] = 0
<1> DEFINE A == Address
           n == CellCount(Address)
           b == Rehashed(cells[A])
           v == [c \in 0..(2 * n - 1) |-> 0]
<1>1. /\ cells \in Seq(Arrays) /\ seq_no_ \in Seq(Versions)
      /\ A \in Nat \ {0} /\ Len(cells) = A /\ Len(seq_no_) = A /\ A \in 1..A
  BY DEF ArraysOK, Address
<1>2. /\ n \in Nat \ {0} /\ cells[A] \in Bucket(n)
      /\ \A c \in 0..(n - 1) : HoldsRecords(cells[A][c])
  BY <1>1 DEF ArraysOK
<1>3. /\ 2 * n <= build.CellCountLimit
      /\ cells' = Append(cells, b)
      /\ seq_no_' = Append(seq_no_, v)
  BY DEF Grow, Grows
<1>4. build.CellCountLimit \in Nat /\ ~Stuck(cells[A])
  BY BuildsAssumption DEF Grow, Grows
<1>5. 2 * n \in Nat \ {0} /\ 2 * n \in 1..build.CellCountLimit
  BY <1>2, <1>3, <1>4
<1> HIDE DEF n, A
<1>6. b \in Bucket(2 * n) /\ SoundBucket(b, 2 * n)
  BY <1>2, RehashedTyped
<1>7. v \in [0..(2 * n - 1) -> Nat]
  OBVIOUS
<1>8. b \in Arrays /\ v \in Versions
  BY <1>5, <1>6, <1>7 DEF Arrays, Versions
<1>9. \A c \in 0..(2 * n - 1) : v[c] = 0
  OBVIOUS
<1> HIDE DEF b, v
<1>10. /\ cells' \in Seq(Arrays) /\ Len(cells') = A + 1 /\ cells'[A + 1] = b
       /\ \A a \in 1..A : cells'[a] = cells[a]
  BY <1>1, <1>3, <1>8, SeqGrow
<1>11. /\ seq_no_' \in Seq(Versions) /\ Len(seq_no_') = A + 1 /\ seq_no_'[A + 1] = v
       /\ \A a \in 1..A : seq_no_'[a] = seq_no_[a]
  BY <1>1, <1>3, <1>8, SeqGrow
<1>12. Address' = A + 1 /\ Address = A
  BY <1>10 DEF Address, A
<1>13. Cardinality(DOMAIN cells'[A + 1]) = 2 * n
  BY <1>5, <1>6, <1>10, BucketCount
<1>14. \A a \in 1..A : CellCount(a)' = CellCount(a)
  BY <1>10 DEF CellCount
<1>15. ASSUME NEW a \in 1..(A + 1)
       PROVE  /\ CellCount(a)' \in 1..build'.CellCountLimit
              /\ cells'[a] \in Bucket(CellCount(a)')
              /\ seq_no_'[a] \in [0..(CellCount(a)' - 1) -> Nat]
              /\ \A c \in 0..(CellCount(a)' - 1) : HoldsRecords(cells'[a][c])
  <2>1. CASE a = A + 1
    <3>1. \A c \in 0..(2 * n - 1) : HoldsRecords(b[c])
      BY <1>6 DEF SoundBucket
    <3>2. CellCount(a)' = 2 * n
      BY <2>1, <1>13 DEF CellCount
    <3> QED
      BY <3>1, <3>2, <2>1, <1>5, <1>6, <1>7, <1>10, <1>11
  <2>2. CASE a \in 1..A
    <3>1. /\ CellCount(a) \in 1..build.CellCountLimit
          /\ cells[a] \in Bucket(CellCount(a))
          /\ seq_no_[a] \in [0..(CellCount(a) - 1) -> Nat]
          /\ \A c \in 0..(CellCount(a) - 1) : HoldsRecords(cells[a][c])
      BY <2>2, <1>12 DEF ArraysOK
    <3> QED
      BY <3>1, <2>2, <1>10, <1>11, <1>14
  <2>3. a = A + 1 \/ a \in 1..A
    BY <1>1
  <2> QED
    BY <2>1, <2>2, <2>3
<1>16. A + 1 \in Nat \ {0}
  BY <1>1
<1>17. ArraysOK'
  BY <1>10, <1>11, <1>12, <1>15, <1>16 DEF ArraysOK
<1>18. Evolves
  <2>1. A <= A + 1
    BY <1>1
  <2> QED
    BY <2>1, <1>10, <1>12, <1>14 DEF Evolves, Later
<1> QED
  <2>1. /\ Address' = Address + 1
        /\ cells'[Address + 1] = Rehashed(cells[Address])
        /\ \A a \in 1..Address : cells'[a] = cells[a]
        /\ \A a \in 1..Address : seq_no_'[a] = seq_no_[a]
    BY <1>10, <1>11, <1>12 DEF b
  <2>2. \A c \in 0..(2 * CellCount(Address) - 1) : seq_no_'[Address + 1][c] = 0
    BY <1>9, <1>11, <1>12 DEF n
  <2>3. Cardinality(DOMAIN cells'[Address + 1]) = 2 * CellCount(Address)
    BY <1>12, <1>13 DEF n
  <2>4. ~Stuck(cells[Address])
    BY <1>4, <1>12
  <2> QED
    BY <2>1, <2>2, <2>3, <2>4, <1>17, <1>18

-----------------------------------------------------------------------------
(* The threads.                                                             *)

PCs == {"idle", "start", "copy", "compare", "check", "lock", "rehash",
        "rehashing", "publish", "done", "exit"}

LocalOK ==
  /\ build \in Builds
  /\ lock \in Threads \cup {None}
  /\ rehashLock \in BOOLEAN
  /\ pc \in [Threads -> PCs]
  /\ op \in [Threads -> Calls \cup {NoOp}]
  /\ at \in [Threads -> [addr : 0..Address, dist : 0..(MaxProbeLen - 1)]]
  /\ copy \in [Threads -> [bitmap : SUBSET Slots, deleted : SUBSET Slots,
                           seq_no_ : 0..MaxWrites]]
  /\ insert \in [Threads -> [cell : Nat, slot : Slots, old : {None}] \cup {None}]
  /\ target \in [Threads -> [cell : Nat, slot : Slots, old : Slots \cup {None}] \cup {None}]
  /\ got \in [Threads -> Values \cup {Absent, None}]
  /\ disturbed \in [Threads -> BOOLEAN]
  /\ writes \in 0..MaxWrites

(* The thread looks at the cells of the array that its search began in.     *)
InSearch(t) ==
  \/ pc[t] \in {"copy", "compare", "check"}
  \/ pc[t] = "lock" /\ (op[t].kind = "delete" \/ build.pinned)

HasTarget(t) ==
  \/ pc[t] = "check" /\ op[t].kind = "put"
  \/ pc[t] = "lock" /\ (op[t].kind = "delete" \/ build.pinned)

PlaceIn(p, n) == p # None => p.cell \in 0..(n - 1)

Recorded(S, c) == \A i \in S : c.slot[i] \in Record

TargetOK(b, n, p) ==
  /\ p \in [cell : 0..(n - 1), slot : Slots, old : Slots \cup {None}]
  /\ p.old # None => b[p.cell].slot[p.old] \in Record

(* A Put has stored its record, and the version does not show it yet.       *)
Stored(b, n, o, p) ==
  /\ o.kind = "put" /\ TargetOK(b, n, p)
  /\ p.slot \notin ValidBitSet(b[p.cell])
  /\ b[p.cell].slot[p.slot] = [key |-> o.key, val |-> o.val]

ThreadOK(t) ==
  /\ pc[t] # "idle" => op[t] \in Calls
  /\ op[t].kind \in {"put", "delete"} => t \in Writers[op[t].key]
  /\ InSearch(t) =>
       /\ at[t].addr \in 1..Address
       /\ at[t].dist \in ProbeDist(CellCount(at[t].addr))
       /\ PlaceIn(insert[t], CellCount(at[t].addr))
  /\ pc[t] = "check" => op[t].kind # "delete"
  /\ pc[t] = "compare" => Recorded(copy[t].bitmap, cells[at[t].addr][cell(t)])
  /\ HasTarget(t) => TargetOK(cells[at[t].addr], CellCount(at[t].addr), target[t])
  /\ pc[t] = "publish" =>
       lock = t /\ Stored(cells[Address], CellCount(Address), op[t], target[t])

LEMMA CallFacts ==
  ASSUME NEW o \in Calls
  PROVE  /\ o.kind \in {"put", "find", "delete"} /\ o.kind # "none"
         /\ o.key \in Keys
         /\ o.kind = "put" =>
              o.val \in Values /\ [key |-> o.key, val |-> o.val] \in Record
  BY DEF Calls, Record

LEMMA CellInArray ==
  ASSUME ArraysOK, LocalOK, NEW t \in Threads, ThreadOK(t), InSearch(t)
  PROVE  /\ at[t].addr \in 1..Address
         /\ CellCount(at[t].addr) \in Nat \ {0}
         /\ at[t].dist \in Nat /\ at[t].dist \in ProbeDist(CellCount(at[t].addr))
         /\ cell(t) \in 0..(CellCount(at[t].addr) - 1)
         /\ cells[at[t].addr] \in Bucket(CellCount(at[t].addr))
         /\ cells[at[t].addr][cell(t)] \in Cell
         /\ op[t] \in Calls
<1>1. /\ at[t].addr \in 1..Address /\ pc[t] # "idle" /\ op[t] \in Calls
      /\ at[t].dist \in ProbeDist(CellCount(at[t].addr))
  BY DEF ThreadOK, InSearch
<1>2. /\ CellCount(at[t].addr) \in Nat \ {0}
      /\ cells[at[t].addr] \in Bucket(CellCount(at[t].addr))
  BY <1>1 DEF ArraysOK
<1>3. op[t].key \in Keys /\ at[t].dist \in Nat
  <2>1. op[t].key \in Keys
    BY <1>1, CallFacts
  <2> QED
    BY <2>1, <1>1, ProbeAssumption DEF ProbeDist
<1>4. cell(t) \in 0..(CellCount(at[t].addr) - 1)
  BY <1>2, <1>3, ProbeInBucket DEF cell
<1> QED
  BY <1>1, <1>2, <1>3, <1>4 DEF Bucket

-----------------------------------------------------------------------------
(* What a step leaves alone.                                                *)

Frame(t) ==
  /\ build' = build
  /\ \A u \in Threads \ {t} :
       /\ pc'[u] = pc[u] /\ op'[u] = op[u] /\ at'[u] = at[u]
       /\ copy'[u] = copy[u] /\ insert'[u] = insert[u]
       /\ target'[u] = target[u] /\ got'[u] = got[u]

LEMMA Framed ==
  ASSUME LocalOK, NEW t \in Threads, Step(t)
  PROVE  Frame(t)
<1> USE DEF Goto
<1>1. /\ DOMAIN pc = Threads /\ DOMAIN op = Threads /\ DOMAIN at = Threads
      /\ DOMAIN copy = Threads /\ DOMAIN insert = Threads
      /\ DOMAIN target = Threads /\ DOMAIN got = Threads
  BY DEF LocalOK
<1>2. ASSUME NEW o \in Calls, Begin(t, o) PROVE Frame(t)
  BY <1>1, <1>2 DEF Begin, Frame, searchVars
<1>3. CASE Start(t)
  BY <1>1, <1>3 DEF Start, Frame
<1>4. CASE CopyCell(t)
  BY <1>1, <1>4 DEF CopyCell, Frame
<1>5. CASE Hit(t)
  BY <1>1, <1>5 DEF Hit, Frame
<1>6. CASE NextCell(t)
  BY <1>1, <1>6 DEF NextCell, Frame
<1>7. CASE Miss(t)
  BY <1>1, <1>7 DEF Miss, Frame
<1>8. CASE ChooseSlot(t)
  BY <1>1, <1>8 DEF ChooseSlot, Frame
<1>9. CASE NoSlot(t)
  BY <1>1, <1>9 DEF NoSlot, Frame, searchVars
<1>10. CASE CheckVersion(t)
  BY <1>1, <1>10 DEF CheckVersion, Frame, searchVars
<1>11. CASE Erase(t)
  BY <1>1, <1>11 DEF Erase, Frame, searchVars
<1>12. CASE DeleteRetry(t)
  BY <1>1, <1>12 DEF DeleteRetry, Frame, searchVars
<1>13. CASE PutLocked(t)
  BY <1>1, <1>13 DEF PutLocked, Store, Frame
<1>14. CASE PutRehash(t)
  BY <1>1, <1>14 DEF PutRehash, Exit, Frame, searchVars
<1>15. CASE PinnedMoved(t)
  BY <1>1, <1>15 DEF PinnedMoved, Frame, searchVars
<1>16. CASE PinnedLocked(t)
  BY <1>1, <1>16 DEF PinnedLocked, Store, Exit, Frame
<1>17. CASE TryRehashLock(t)
  BY <1>1, <1>17 DEF TryRehashLock, Frame, searchVars
<1>18. CASE PinnedRehash(t)
  BY <1>1, <1>18 DEF PinnedRehash, Exit, Frame, searchVars
<1>19. CASE Publish(t)
  BY <1>1, <1>19 DEF Publish, Frame, searchVars
<1>20. CASE Return(t)
  BY <1>1, <1>20 DEF Return, Frame
<1> QED
  BY <1>2, <1>3, <1>4, <1>5, <1>6, <1>7, <1>8, <1>9, <1>10, <1>11, <1>12, <1>13,
     <1>14, <1>15, <1>16, <1>17, <1>18, <1>19, <1>20 DEF Step, SearchStep, WriteStep

(* Only these steps of a thread change the cells, and only when nobody      *)
(* else has the lock.                                                       *)
Storing(t) ==
  \E c \in 0..(CellCount(Address) - 1), i \in Slots, old \in Slots \cup {None} :
    /\ lock = None /\ pc[t] = "lock" /\ op[t].kind = "put" /\ op' = op
    /\ i \notin ValidBitSet(cells[Address][c])
    /\ Store(t, c, i, old)
    /\ old # None => cells[Address][c].slot[old] \in Record

Growing(t) ==
  /\ lock = None /\ Grow /\ pc[t] \in {"lock", "rehashing"}
  /\ lock' = None /\ pc'[t] \in {"lock", "start"}

Quiet == UNCHANGED <<cells, seq_no_>>

LEMMA PutLockedStores ==
  ASSUME ArraysOK, LocalOK, NEW t \in Threads, ThreadOK(t), PutLocked(t)
  PROVE  Storing(t)
<1> DEFINE b == cells[Address]
           n == CellCount(Address)
           k == op[t].key
<1>1. /\ n \in Nat \ {0} /\ b \in Bucket(n)
      /\ \A c \in 0..(n - 1) : HoldsRecords(b[c])
  BY DEF ArraysOK
<1>2. k \in Keys
  BY CallFacts DEF ThreadOK, PutLocked
<1>3. PICK d \in ProbeDist(n) : \E i \in Slots :
        \/ /\ InsertTarget(b, n, k, d, i)
           /\ Store(t, ProbeCell(k, n, d), i, None)
        \/ \E old \in Slots :
             /\ UpdateTarget(b, n, k, d, old, i)
             /\ Store(t, ProbeCell(k, n, d), i, old)
  BY DEF PutLocked
<1>4. PICK i \in Slots :
        \/ /\ InsertTarget(b, n, k, d, i)
           /\ Store(t, ProbeCell(k, n, d), i, None)
        \/ \E old \in Slots :
             /\ UpdateTarget(b, n, k, d, old, i)
             /\ Store(t, ProbeCell(k, n, d), i, old)
  BY <1>3
<1> DEFINE c == ProbeCell(k, n, d)
<1>5. c \in 0..(n - 1)
  BY <1>1, <1>2, ProbeInBucket, ProbeAssumption DEF ProbeDist
<1>6. lock = None /\ pc[t] = "lock" /\ op[t].kind = "put" /\ op' = op
  BY DEF PutLocked
<1>7. CASE InsertTarget(b, n, k, d, i) /\ Store(t, c, i, None)
  <2>1. i \notin ValidBitSet(b[c])
    BY <1>7 DEF InsertTarget, Lowest, EraseBitSet, BackupBitSet, ValidBitSet
  <2> QED
    BY <2>1, <1>5, <1>6, <1>7 DEF Storing
<1>8. ASSUME NEW old \in Slots, UpdateTarget(b, n, k, d, old, i), Store(t, c, i, old)
      PROVE  Storing(t)
  <2>1. i \notin ValidBitSet(b[c]) /\ old \in ValidBitSet(b[c])
    BY <1>8 DEF UpdateTarget, Finds, Lowest, BackupBitSet, ValidBitSet, MatchBitSet
  <2>2. b[c].slot[old] \in Record
    BY <2>1, <1>1, <1>5 DEF HoldsRecords, ValidBitSet
  <2> QED
    BY <2>1, <2>2, <1>5, <1>6, <1>8 DEF Storing
<1> QED
  BY <1>4, <1>7, <1>8

LEMMA PinnedLockedStores ==
  ASSUME ArraysOK, LocalOK, NEW t \in Threads, ThreadOK(t), PinnedLocked(t)
  PROVE  Storing(t) \/ Quiet
<1> DEFINE p == target[t]
           c == cells[Address][p.cell]
<1>1. TargetOK(cells[Address], CellCount(Address), p)
  BY DEF PinnedLocked, ThreadOK, HasTarget
<1>2. lock = None /\ pc[t] = "lock" /\ op[t].kind = "put" /\ op' = op
  BY DEF PinnedLocked
<1>3. ASSUME NEW i \in Slots, SlotNow(c, p, i), Store(t, p.cell, i, p.old)
      PROVE  Storing(t)
  <2>1. i \notin ValidBitSet(c)
    BY <1>3 DEF SlotNow, Occupied, Lowest, EraseBitSet, BackupBitSet, ValidBitSet
  <2>2. p.cell \in 0..(CellCount(Address) - 1) /\ p.old \in Slots \cup {None}
    BY <1>1 DEF TargetOK
  <2>3. p.old # None => c.slot[p.old] \in Record
    BY <1>1 DEF TargetOK
  <2> QED
    BY <2>1, <2>2, <2>3, <1>2, <1>3 DEF Storing
<1> QED
  BY <1>3 DEF PinnedLocked, Quiet

LEMMA Changes ==
  ASSUME ArraysOK, LocalOK, NEW t \in Threads, ThreadOK(t), Step(t)
  PROVE  Quiet \/ Erase(t) \/ Publish(t) \/ Storing(t) \/ Growing(t)
<1> USE DEF Quiet
<1>2. ASSUME NEW o \in Calls, Begin(t, o) PROVE Quiet
  BY <1>2 DEF Begin, bucketVars
<1>3. CASE SearchStep(t)
  BY <1>3 DEF SearchStep, Start, CopyCell, Hit, NextCell, Miss, ChooseSlot, NoSlot,
              CheckVersion, bucketVars
<1>4. CASE DeleteRetry(t) \/ PinnedMoved(t) \/ TryRehashLock(t) \/ Return(t)
  BY <1>4 DEF DeleteRetry, PinnedMoved, TryRehashLock, Return, bucketVars
<1>5. CASE PutLocked(t)
  BY <1>5, PutLockedStores
<1>6. CASE PutRehash(t)
  BY <1>6 DEF PutRehash, Growing, Unlock
<1>7. CASE PinnedLocked(t)
  BY <1>7, PinnedLockedStores
<1>8. CASE PinnedRehash(t)
  BY <1>8 DEF PinnedRehash, Growing, Goto, LocalOK
<1> QED
  BY <1>2, <1>3, <1>4, <1>5, <1>6, <1>7, <1>8 DEF Step, WriteStep

(* The three writes to a cell, and a rehash, keep the arrays well formed.   *)
Wrote(c, x) ==
  /\ c \in 0..(CellCount(Address) - 1) /\ x \in Cell
  /\ Address' = Address
  /\ cells'[Address] = [cells[Address] EXCEPT ![c] = x]
  /\ \A a \in 1..Address : a # Address => cells'[a] = cells[a]

LEMMA EraseWrites ==
  ASSUME ArraysOK, LocalOK, NEW t \in Threads, ThreadOK(t), build' = build, Erase(t)
  PROVE  /\ ArraysOK' /\ Evolves
         /\ Wrote(target[t].cell, EraseSlot(cells[Address][target[t].cell], target[t].slot))
         /\ TargetOK(cells[Address], CellCount(Address), target[t])
<1> DEFINE c == target[t].cell
           x == EraseSlot(cells[Address][c], target[t].slot)
<1>1. TargetOK(cells[Address], CellCount(Address), target[t])
  BY DEF Erase, ThreadOK, HasTarget
<1>2. /\ CellCount(Address) \in Nat \ {0} /\ cells[Address] \in Bucket(CellCount(Address))
      /\ \A e \in 0..(CellCount(Address) - 1) : HoldsRecords(cells[Address][e])
  BY DEF ArraysOK
<1>3. c \in 0..(CellCount(Address) - 1) /\ target[t].slot \in Slots
  BY <1>1 DEF TargetOK
<1>4. cells[Address][c] \in Cell /\ HoldsRecords(cells[Address][c])
  BY <1>2, <1>3 DEF Bucket
<1>5. x \in Cell /\ HoldsRecords(x) /\ x.slot = cells[Address][c].slot
  BY <1>3, <1>4 DEF EraseSlot, Cell, HoldsRecords
<1>6. /\ cells' = [cells EXCEPT ![Address][c] = x]
      /\ seq_no_' = [seq_no_ EXCEPT ![Address][c] = @ + 1]
  BY DEF Erase
<1>7. \A i \in Slots : cells[Address][c].slot[i] \in Record => x.slot[i] \in Record
  BY <1>5
<1> HIDE DEF c, x
<1>8. /\ ArraysOK' /\ Evolves /\ Address' = Address
      /\ cells'[Address] = [cells[Address] EXCEPT ![c] = x]
      /\ \A a \in 1..Address : a # Address => cells'[a] = cells[a]
  BY <1>3, <1>5, <1>6, <1>7, CellsWritten
<1> QED
  BY <1>1, <1>3, <1>5, <1>8 DEF Wrote, c, x

LEMMA NewVersionCell ==
  ASSUME NEW c \in Cell, HoldsRecords(c), NEW i \in Slots, c.slot[i] \in Record,
         NEW old \in Slots \cup {None}, old # None => c.slot[old] \in Record
  PROVE  LET new == NewVersion(c, Place(0, i, old)) IN
         new \in Cell /\ HoldsRecords(new) /\ new.slot = c.slot
<1> DEFINE p == Place(0, i, old)
           new == NewVersion(c, p)
<1>1. p.slot = i /\ p.old = old
  BY DEF Place
<1>2. /\ new.slot = c.slot /\ new.deleted = c.deleted \ {i}
      /\ new.bitmap = IF old = None THEN c.bitmap \cup {i}
                      ELSE Toggle(c.bitmap \cup {i}, old)
  BY <1>1 DEF NewVersion, Cell
<1>3. \A s \in new.bitmap : s \in c.bitmap \/ s = i \/ (old # None /\ s = old)
  BY <1>2 DEF Toggle
<1>4. PICK B, D : new = [c EXCEPT !.bitmap = B, !.deleted = D]
  BY DEF NewVersion
<1>5. c.bitmap \subseteq Slots /\ c.deleted \subseteq Slots
      /\ c.slot \in [Slots -> Record \cup {Zeroed}]
  BY DEF Cell
<1> HIDE DEF new
<1>6. new.bitmap \subseteq Slots /\ new.deleted \subseteq Slots
  BY <1>2, <1>3, <1>5
<1>7. new \in Cell
  <2>1. B = new.bitmap /\ D = new.deleted
    BY <1>4 DEF Cell
  <2>2. B \in SUBSET Slots /\ D \in SUBSET Slots
    BY <2>1, <1>6
  <2> QED
    BY <2>2, <1>4 DEF Cell
<1>8. HoldsRecords(new)
  BY <1>2, <1>3 DEF HoldsRecords
<1> QED
  BY <1>2, <1>7, <1>8 DEF new

LEMMA PublishWrites ==
  ASSUME ArraysOK, LocalOK, NEW t \in Threads, ThreadOK(t), build' = build, Publish(t)
  PROVE  /\ ArraysOK' /\ Evolves
         /\ Wrote(target[t].cell, NewVersion(cells[Address][target[t].cell], target[t]))
         /\ Stored(cells[Address], CellCount(Address), op[t], target[t])
         /\ rec(t) \in Record
<1> DEFINE p == target[t]
           c == p.cell
           b == cells[Address][c]
           x == NewVersion(b, p)
<1>1. Stored(cells[Address], CellCount(Address), op[t], p) /\ op[t] \in Calls
  BY DEF Publish, ThreadOK
<1>2. /\ CellCount(Address) \in Nat \ {0} /\ cells[Address] \in Bucket(CellCount(Address))
      /\ \A e \in 0..(CellCount(Address) - 1) : HoldsRecords(cells[Address][e])
  BY DEF ArraysOK
<1>3. /\ c \in 0..(CellCount(Address) - 1) /\ p.slot \in Slots
      /\ p.old \in Slots \cup {None}
  BY <1>1 DEF TargetOK, Stored
<1>4. b \in Cell /\ HoldsRecords(b)
  BY <1>2, <1>3 DEF Bucket
<1>5. rec(t) \in Record
  BY <1>1, CallFacts DEF rec, Stored
<1>6. b.slot[p.slot] \in Record /\ (p.old # None => b.slot[p.old] \in Record)
  BY <1>1, <1>5 DEF Stored, TargetOK, rec
<1>7. x \in Cell /\ HoldsRecords(x) /\ x.slot = b.slot
  <2>1. x = NewVersion(b, Place(0, p.slot, p.old))
    BY DEF NewVersion, Place
  <2> HIDE DEF x, b, p
  <2> QED
    BY <2>1, <1>3, <1>4, <1>6, NewVersionCell
<1>8. /\ cells' = [cells EXCEPT ![Address][c] = x]
      /\ seq_no_' = [seq_no_ EXCEPT ![Address][c] = @ + 1]
  BY DEF Publish
<1>9. \A i \in Slots : cells[Address][c].slot[i] \in Record => x.slot[i] \in Record
  BY <1>7
<1> HIDE DEF c, x, p
<1>10. /\ ArraysOK' /\ Evolves /\ Address' = Address
       /\ cells'[Address] = [cells[Address] EXCEPT ![c] = x]
       /\ \A a \in 1..Address : a # Address => cells'[a] = cells[a]
  BY <1>3, <1>7, <1>8, <1>9, CellsWritten
<1> QED
  BY <1>1, <1>3, <1>5, <1>7, <1>10 DEF Wrote, c, x, p

SlotSet(c, i, r) == [c EXCEPT !.slot = [c.slot EXCEPT ![i] = r]]

LEMMA SlotSetCell ==
  ASSUME NEW c \in Cell, HoldsRecords(c), NEW i \in Slots, NEW r \in Record
  PROVE  /\ SlotSet(c, i, r) \in Cell /\ HoldsRecords(SlotSet(c, i, r))
         /\ SlotSet(c, i, r).bitmap = c.bitmap /\ SlotSet(c, i, r).deleted = c.deleted
         /\ SlotSet(c, i, r).slot[i] = r
         /\ \A j \in Slots \ {i} : SlotSet(c, i, r).slot[j] = c.slot[j]
<1>1. SlotSet(c, i, r) = [bitmap |-> c.bitmap, deleted |-> c.deleted,
                          slot |-> [c.slot EXCEPT ![i] = r]]
  BY DEF SlotSet, Cell
<1>2. c.bitmap \subseteq Slots /\ c.deleted \subseteq Slots
      /\ c.slot \in [Slots -> Record \cup {Zeroed}]
  BY DEF Cell
<1> QED
  BY <1>1, <1>2 DEF Cell, HoldsRecords

LEMMA StoreWrites ==
  ASSUME ArraysOK, LocalOK, NEW t \in Threads, ThreadOK(t), build' = build,
         NEW c \in 0..(CellCount(Address) - 1), NEW i \in Slots, NEW old,
         op[t].kind = "put", pc[t] = "lock", Store(t, c, i, old)
  PROVE  /\ ArraysOK' /\ Evolves
         /\ Wrote(c, SlotSet(cells[Address][c], i, rec(t)))
         /\ rec(t) \in Record
<1> DEFINE b == cells[Address][c]
           x == SlotSet(b, i, rec(t))
<1>1. /\ CellCount(Address) \in Nat \ {0} /\ cells[Address] \in Bucket(CellCount(Address))
      /\ \A e \in 0..(CellCount(Address) - 1) : HoldsRecords(cells[Address][e])
  BY DEF ArraysOK
<1>2. rec(t) \in Record
  BY CallFacts DEF rec, ThreadOK
<1>3. b \in Cell /\ HoldsRecords(b)
  BY <1>1 DEF Bucket
<1>4. /\ x \in Cell /\ HoldsRecords(x) /\ x.slot[i] = rec(t)
      /\ \A j \in Slots \ {i} : x.slot[j] = b.slot[j]
  <2> HIDE DEF b
  <2> QED
    BY <1>2, <1>3, SlotSetCell
<1>5. cells' = [cells EXCEPT ![Address][c] = x] /\ seq_no_' = seq_no_
  BY DEF Store, SlotSet
<1>6. \A j \in Slots : cells[Address][c].slot[j] \in Record => x.slot[j] \in Record
  BY <1>2, <1>4
<1> HIDE DEF x
<1>7. /\ ArraysOK' /\ Evolves /\ Address' = Address
      /\ cells'[Address] = [cells[Address] EXCEPT ![c] = x]
      /\ \A a \in 1..Address : a # Address => cells'[a] = cells[a]
  BY <1>4, <1>5, <1>6, CellsWritten
<1> QED
  BY <1>2, <1>4, <1>7 DEF Wrote, x

LEMMA ArraysStep ==
  ASSUME ArraysOK, LocalOK, NEW t \in Threads, ThreadOK(t), Step(t)
  PROVE  ArraysOK' /\ Evolves
<1>0. build' = build
  BY Framed DEF Frame
<1>1. CASE Quiet
  BY <1>0, <1>1, CellsKept DEF Quiet
<1>2. CASE Erase(t)
  BY <1>0, <1>2, EraseWrites
<1>3. CASE Publish(t)
  BY <1>0, <1>3, PublishWrites
<1>4. CASE Storing(t)
  BY <1>0, <1>4, StoreWrites DEF Storing
<1>5. CASE Growing(t)
  BY <1>0, <1>5, CellsGrown DEF Growing, LocalOK
<1> QED
  BY <1>1, <1>2, <1>3, <1>4, <1>5, Changes

LEMMA LockHeld ==
  ASSUME LocalOK, NEW t \in Threads, ThreadOK(t), Step(t),
         NEW u \in Threads \ {t}, lock = u
  PROVE  UNCHANGED <<cells, seq_no_, lock>>
<1>1. lock # None /\ lock # t
  BY SentinelAssumption
<1>2. ASSUME NEW o \in Calls, Begin(t, o) PROVE UNCHANGED <<cells, seq_no_, lock>>
  BY <1>2 DEF Begin, bucketVars
<1>3. CASE SearchStep(t)
  BY <1>3 DEF SearchStep, Start, CopyCell, Hit, NextCell, Miss, ChooseSlot, NoSlot,
              CheckVersion, bucketVars
<1>4. CASE TryRehashLock(t) \/ Return(t)
  BY <1>4 DEF TryRehashLock, Return, bucketVars
<1>5. CASE Erase(t) \/ DeleteRetry(t) \/ PutLocked(t) \/ PutRehash(t)
             \/ PinnedMoved(t) \/ PinnedLocked(t) \/ PinnedRehash(t)
  BY <1>1, <1>5 DEF Erase, DeleteRetry, PutLocked, PutRehash, PinnedMoved, PinnedLocked,
                    PinnedRehash, Locked
<1>6. CASE Publish(t)
  BY <1>1, <1>6 DEF Publish, ThreadOK
<1> QED
  BY <1>2, <1>3, <1>4, <1>5, <1>6 DEF Step, WriteStep

LEMMA TargetLater ==
  ASSUME NEW n, NEW b, NEW b2, NEW p, TargetOK(b, n, p), Later(b, b2, n)
  PROVE  TargetOK(b2, n, p)
  BY DEF TargetOK, Later

LEMMA OtherOK ==
  ASSUME ArraysOK, LocalOK, NEW t \in Threads, ThreadOK(t), Step(t),
         NEW u \in Threads \ {t}, ThreadOK(u)
  PROVE  ThreadOK(u)'
<1>1. /\ build' = build /\ pc'[u] = pc[u] /\ op'[u] = op[u] /\ at'[u] = at[u]
      /\ copy'[u] = copy[u] /\ insert'[u] = insert[u] /\ target'[u] = target[u]
  BY Framed DEF Frame
<1>2. ArraysOK' /\ Evolves
  BY ArraysStep
<1>3. Address \in Nat /\ Address' \in Nat
  BY <1>2 DEF ArraysOK
<1>4. ASSUME InSearch(u)
      PROVE  /\ at[u].addr \in 1..Address /\ at[u].addr \in 1..Address'
             /\ Cardinality(DOMAIN cells'[at[u].addr]) = CellCount(at[u].addr)
             /\ Later(cells[at[u].addr], cells'[at[u].addr], CellCount(at[u].addr))
             /\ cell(u) \in 0..(CellCount(at[u].addr) - 1)
             /\ ProbeCell(op'[u].key, Cardinality(DOMAIN cells'[at'[u].addr]), at'[u].dist) = cell(u)
  <2>1. at[u].addr \in 1..Address /\ cell(u) \in 0..(CellCount(at[u].addr) - 1)
    BY <1>4, CellInArray
  <2>2. /\ Cardinality(DOMAIN cells'[at[u].addr]) = CellCount(at[u].addr)
        /\ Later(cells[at[u].addr], cells'[at[u].addr], CellCount(at[u].addr))
        /\ Address <= Address'
    BY <2>1, <1>2 DEF Evolves, CellCount
  <2>3. at[u].addr \in 1..Address'
    BY <2>1, <2>2, <1>3
  <2> QED
    BY <2>1, <2>2, <2>3, <1>1 DEF cell
<1>5. InSearch(u)' = InSearch(u) /\ HasTarget(u)' = HasTarget(u)
  BY <1>1 DEF InSearch, HasTarget
<1>6. (InSearch(u) =>
       /\ at[u].addr \in 1..Address
       /\ at[u].dist \in ProbeDist(CellCount(at[u].addr))
       /\ PlaceIn(insert[u], CellCount(at[u].addr)))'
  BY <1>1, <1>4, <1>5 DEF ThreadOK, CellCount
<1>7. (pc[u] = "compare" => Recorded(copy[u].bitmap, cells[at[u].addr][cell(u)]))'
  <2> SUFFICES ASSUME pc[u] = "compare"
               PROVE  Recorded(copy[u].bitmap, cells'[at[u].addr][cell(u)])
    BY <1>1, <1>4 DEF cell, CellCount, InSearch
  <2>1. Recorded(copy[u].bitmap, cells[at[u].addr][cell(u)])
    BY DEF ThreadOK
  <2>2. copy[u].bitmap \subseteq Slots
    BY DEF LocalOK
  <2> QED
    BY <2>1, <2>2, <1>4 DEF InSearch, Recorded, Later
<1>8. (HasTarget(u) => TargetOK(cells[at[u].addr], CellCount(at[u].addr), target[u]))'
  <2> SUFFICES ASSUME HasTarget(u)
               PROVE  TargetOK(cells'[at[u].addr], CellCount(at[u].addr), target[u])
    BY <1>1, <1>4, <1>5 DEF CellCount, InSearch, HasTarget
  <2>1. TargetOK(cells[at[u].addr], CellCount(at[u].addr), target[u])
    BY DEF ThreadOK
  <2>2. InSearch(u)
    BY DEF InSearch, HasTarget
  <2> QED
    BY <2>1, <2>2, <1>4, TargetLater
<1>9. (pc[u] = "publish" =>
         lock = u /\ Stored(cells[Address], CellCount(Address), op[u], target[u]))'
  <2> SUFFICES ASSUME pc[u] = "publish"
               PROVE  lock' = u /\ Stored(cells'[Address'], Cardinality(DOMAIN cells'[Address']), op[u], target[u])
    BY <1>1 DEF CellCount
  <2>1. lock = u /\ Stored(cells[Address], CellCount(Address), op[u], target[u])
    BY DEF ThreadOK
  <2>2. UNCHANGED <<cells, seq_no_, lock>>
    BY <2>1, LockHeld
  <2> QED
    BY <2>1, <2>2 DEF Address, CellCount
<1>10. (pc[u] # "idle" => op[u] \in Calls)'
  BY <1>1 DEF ThreadOK, Calls
<1>11. (op[u].kind \in {"put", "delete"} => u \in Writers[op[u].key])'
  BY <1>1 DEF ThreadOK
<1>12. (pc[u] = "check" => op[u].kind # "delete")'
  BY <1>1 DEF ThreadOK
<1> QED
  BY <1>6, <1>7, <1>8, <1>9, <1>10, <1>11, <1>12 DEF ThreadOK

-----------------------------------------------------------------------------
(* What a step does to its own thread.                                      *)

LEMMA SelfOK ==
  ASSUME ArraysOK, LocalOK, NEW t \in Threads, ThreadOK(t), Step(t)
  PROVE  ThreadOK(t)'
<1> USE DEF Goto
<1>1. /\ DOMAIN pc = Threads /\ DOMAIN op = Threads /\ DOMAIN at = Threads
      /\ DOMAIN copy = Threads /\ DOMAIN insert = Threads
      /\ DOMAIN target = Threads /\ DOMAIN got = Threads
  BY DEF LocalOK
<1>2. build' = build /\ ArraysOK' /\ Evolves
  BY Framed, ArraysStep DEF Frame
<1>3. /\ pc[t] # "idle" => op[t] \in Calls
      /\ op[t].kind \in {"put", "delete"} => t \in Writers[op[t].key]
  BY DEF ThreadOK
(* Steps after which the thread neither searches nor has stored a record.   *)
<1>4. ASSUME pc'[t] \in {"idle", "start", "rehash", "rehashing", "done", "exit"},
             op'[t] = op[t], pc[t] # "idle"
      PROVE  ThreadOK(t)'
  BY <1>3, <1>4 DEF ThreadOK, InSearch, HasTarget
<1>5. ASSUME NEW o \in Calls, Begin(t, o) PROVE ThreadOK(t)'
  <2>1. op'[t] = o /\ pc'[t] = (IF o.kind = "put" /\ ~build.pinned THEN "lock" ELSE "start")
    BY <1>1, <1>5 DEF Begin
  <2>2. o.kind # "find" => t \in Writers[o.key]
    BY <1>5 DEF Begin
  <2> QED
    BY <1>2, <2>1, <2>2, CallFacts DEF ThreadOK, InSearch, HasTarget
<1>6. CASE Start(t)
  <2>1. /\ pc'[t] = "copy" /\ op'[t] = op[t] /\ insert'[t] = None
        /\ at'[t] = [addr |-> Address, dist |-> 0] /\ pc[t] # "idle"
    BY <1>1, <1>6 DEF Start
  <2>2. cells' = cells
    BY <1>6 DEF Start, bucketVars
  <2>3. Address \in 1..Address /\ CellCount(Address) \in Nat \ {0}
    BY DEF ArraysOK
  <2>4. 0 \in ProbeDist(CellCount(Address))
    BY <2>3, ProbeAssumption DEF ProbeDist
  <2> QED
    BY <1>3, <2>1, <2>2, <2>3, <2>4
       DEF ThreadOK, InSearch, HasTarget, PlaceIn, CellCount, Address
<1>7. CASE CopyCell(t)
  <2>1. /\ pc'[t] = "compare" /\ op'[t] = op[t] /\ at'[t] = at[t] /\ insert'[t] = insert[t]
        /\ copy'[t].bitmap = cells[at[t].addr][cell(t)].bitmap
        /\ cells' = cells /\ pc[t] = "copy"
    BY <1>1, <1>7 DEF CopyCell, bucketVars
  <2>2. InSearch(t)
    BY <2>1 DEF InSearch
  <2>3. HoldsRecords(cells[at[t].addr][cell(t)])
    BY <2>2, CellInArray DEF ArraysOK
  <2> QED
    BY <1>3, <2>1, <2>2, <2>3
       DEF ThreadOK, InSearch, HasTarget, CellCount, Address, cell, Recorded, HoldsRecords
<1>8. CASE Hit(t)
  <2>0. InSearch(t) /\ op'[t] = op[t] /\ at'[t] = at[t] /\ insert'[t] = insert[t]
        /\ cells' = cells /\ pc[t] = "compare" /\ build' = build
    BY <1>8 DEF InSearch, Hit, bucketVars
  <2>1. PICK i \in Slots :
          /\ Lowest(i, Hits(t))
          /\ \/ op[t].kind = "find" /\ pc'[t] = "check"
             \/ /\ op[t].kind = "delete" /\ pc'[t] = "lock"
                /\ target'[t] = Place(cell(t), i, None)
             \/ /\ op[t].kind = "put"
                /\ \/ \E j \in Slots :
                        target'[t] = Place(cell(t), j, i) /\ pc'[t] = "check"
                   \/ pc'[t] = "exit"
    BY <1>1, <1>8 DEF Hit
  <2>2. cells[at[t].addr][cell(t)].slot[i] \in Record
    BY <2>0, <2>1 DEF Lowest, Hits, ValidBitSet, ThreadOK, Recorded
  <2>3. cell(t) \in 0..(CellCount(at[t].addr) - 1)
    BY <2>0, CellInArray
  <2>4. ASSUME NEW j \in Slots, NEW old \in {i, None}
        PROVE  TargetOK(cells[at[t].addr], CellCount(at[t].addr), Place(cell(t), j, old))
    BY <2>2, <2>3, <2>4 DEF TargetOK, Place
  <2>5. /\ at[t].addr \in 1..Address
        /\ at[t].dist \in ProbeDist(CellCount(at[t].addr))
        /\ PlaceIn(insert[t], CellCount(at[t].addr))
    BY <2>0 DEF ThreadOK
  <2>6. CASE op[t].kind = "find" /\ pc'[t] = "check"
    BY <2>6, <2>0, <2>5, <1>3 DEF ThreadOK, InSearch, HasTarget, CellCount, Address
  <2>7. CASE /\ op[t].kind = "delete" /\ pc'[t] = "lock"
             /\ target'[t] = Place(cell(t), i, None)
    BY <2>7, <2>0, <2>4, <2>5, <1>3 DEF ThreadOK, InSearch, HasTarget, CellCount, Address
  <2>8. ASSUME NEW j \in Slots, op[t].kind = "put", pc'[t] = "check",
               target'[t] = Place(cell(t), j, i)
        PROVE  ThreadOK(t)'
    BY <2>8, <2>0, <2>4, <2>5, <1>3 DEF ThreadOK, InSearch, HasTarget, CellCount, Address
  <2>9. CASE pc'[t] = "exit"
    BY <2>9, <2>0, <1>4
  <2> QED
    BY <2>1, <2>6, <2>7, <2>8, <2>9
<1>9. CASE NextCell(t)
  <2>0. InSearch(t) /\ op'[t] = op[t] /\ cells' = cells /\ pc[t] = "compare"
        /\ pc'[t] = "copy" /\ ~LastCell(t)
    BY <1>1, <1>9 DEF InSearch, NextCell, bucketVars
  <2>1. at'[t].addr = at[t].addr /\ at'[t].dist = at[t].dist + 1
    BY <1>1, <1>9 DEF NextCell, LocalOK
  <2>2. at'[t].dist \in ProbeDist(CellCount(at[t].addr))
    BY <2>0, <2>1 DEF LastCell
  <2>3. insert'[t] = insert[t] \/ \E i \in Slots : insert'[t] = Place(cell(t), i, None)
    BY <1>1, <1>9 DEF NextCell
  <2>4. PlaceIn(insert'[t], CellCount(at[t].addr))
    <3>1. cell(t) \in 0..(CellCount(at[t].addr) - 1)
      BY <2>0, CellInArray
    <3>2. PlaceIn(insert[t], CellCount(at[t].addr))
      BY <2>0 DEF ThreadOK
    <3>3. \A i \in Slots : PlaceIn(Place(cell(t), i, None), CellCount(at[t].addr))
      BY <3>1 DEF PlaceIn, Place
    <3> QED
      BY <2>3, <3>2, <3>3
  <2>5. at[t].addr \in 1..Address
    BY <2>0 DEF ThreadOK
  <2> QED
    BY <2>0, <2>1, <2>2, <2>4, <2>5, <1>3 DEF ThreadOK, InSearch, HasTarget, CellCount, Address
<1>10. CASE Miss(t)
  BY <1>1, <1>4, <1>10 DEF Miss
<1>11. CASE ChooseSlot(t)
  <2>0. InSearch(t) /\ op'[t] = op[t] /\ cells' = cells /\ pc[t] = "compare"
        /\ pc'[t] \in {"check", "lock"} /\ at'[t] = at[t] /\ op[t].kind = "put"
        /\ build' = build
    BY <1>1, <1>11 DEF InSearch, ChooseSlot, bucketVars
  <2>1. PICK p \in [cell : DOMAIN cells[at[t].addr], slot : Slots, old : {None}] :
          insert'[t] = p /\ target'[t] = p
    BY <1>1, <1>11 DEF ChooseSlot
  <2>2. DOMAIN cells[at[t].addr] = 0..(CellCount(at[t].addr) - 1)
    BY <2>0, CellInArray DEF Bucket
  <2>3. TargetOK(cells[at[t].addr], CellCount(at[t].addr), p)
    BY <2>1, <2>2 DEF TargetOK
  <2>4. PlaceIn(p, CellCount(at[t].addr))
    BY <2>1, <2>2 DEF PlaceIn
  <2>5. /\ at[t].addr \in 1..Address
        /\ at[t].dist \in ProbeDist(CellCount(at[t].addr))
    BY <2>0 DEF ThreadOK
  <2> QED
    BY <2>0, <2>1, <2>3, <2>4, <2>5, <1>3 DEF ThreadOK, InSearch, HasTarget, CellCount, Address
<1>12. CASE NoSlot(t)
  BY <1>1, <1>4, <1>12 DEF NoSlot
<1>13. CASE CheckVersion(t)
  <2>0. /\ InSearch(t) /\ op'[t] = op[t] /\ cells' = cells /\ pc[t] = "check"
        /\ at'[t] = at[t] /\ build' = build /\ insert'[t] = insert[t]
        /\ target'[t] = target[t]
        /\ pc'[t] \in {"copy", "done", "lock"}
        /\ pc'[t] = "lock" => op[t].kind # "find"
    BY <1>1, <1>13 DEF InSearch, CheckVersion, bucketVars, searchVars
  <2>1. /\ at[t].addr \in 1..Address
        /\ at[t].dist \in ProbeDist(CellCount(at[t].addr))
        /\ PlaceIn(insert[t], CellCount(at[t].addr))
    BY <2>0 DEF ThreadOK
  <2>2. op[t].kind = "put" => TargetOK(cells[at[t].addr], CellCount(at[t].addr), target[t])
    BY <2>0 DEF ThreadOK, HasTarget
  <2>3. op[t].kind \in {"find", "put"}
    BY <2>0, <1>3, CallFacts DEF ThreadOK
  <2> QED
    BY <2>0, <2>1, <2>2, <2>3, <1>3 DEF ThreadOK, InSearch, HasTarget, CellCount, Address
<1>14. CASE Erase(t)
  BY <1>1, <1>4, <1>14 DEF Erase
<1>15. CASE DeleteRetry(t)
  <2>0. InSearch(t) /\ op'[t] = op[t] /\ cells' = cells /\ pc[t] = "lock"
        /\ at'[t] = at[t] /\ insert'[t] = insert[t] /\ pc'[t] \in {"copy", "start"}
    BY <1>1, <1>15 DEF InSearch, DeleteRetry, searchVars
  <2>1. /\ at[t].addr \in 1..Address
        /\ at[t].dist \in ProbeDist(CellCount(at[t].addr))
        /\ PlaceIn(insert[t], CellCount(at[t].addr))
    BY <2>0 DEF ThreadOK
  <2> QED
    BY <2>0, <2>1, <1>3 DEF ThreadOK, InSearch, HasTarget, CellCount, Address
<1>16. CASE Storing(t)
  <2>1. PICK c \in 0..(CellCount(Address) - 1), i \in Slots, old \in Slots \cup {None} :
          /\ pc[t] = "lock" /\ op[t].kind = "put"
          /\ i \notin ValidBitSet(cells[Address][c])
          /\ Store(t, c, i, old)
          /\ old # None => cells[Address][c].slot[old] \in Record
    BY <1>16 DEF Storing
  <2>2. /\ Wrote(c, SlotSet(cells[Address][c], i, rec(t))) /\ rec(t) \in Record
    BY <1>2, <2>1, StoreWrites
  <2>3. pc'[t] = "publish" /\ lock' = t /\ target'[t] = Place(c, i, old)
    BY <1>1, <2>1 DEF Store
  <2>4. op' = op
    BY <1>16 DEF Storing
  <2>5. /\ cells[Address] \in Bucket(CellCount(Address))
        /\ HoldsRecords(cells[Address][c]) /\ cells[Address][c] \in Cell
    <3>1. /\ cells[Address] \in Bucket(CellCount(Address))
          /\ \A e \in 0..(CellCount(Address) - 1) : HoldsRecords(cells[Address][e])
      BY DEF ArraysOK
    <3> QED
      BY <3>1 DEF Bucket
  <2>6. /\ cells'[Address][c].slot[i] = rec(t)
        /\ \A j \in Slots \ {i} : cells'[Address][c].slot[j] = cells[Address][c].slot[j]
        /\ ValidBitSet(cells'[Address][c]) = ValidBitSet(cells[Address][c])
    <3>1. DOMAIN cells[Address] = 0..(CellCount(Address) - 1)
      BY <2>5 DEF Bucket
    <3>2. cells'[Address][c] = SlotSet(cells[Address][c], i, rec(t))
      BY <3>1, <2>2 DEF Wrote
    <3> QED
      BY <3>2, <2>2, <2>5, SlotSetCell DEF ValidBitSet
  <2>7. Address' = Address /\ CellCount(Address)' = CellCount(Address)
    BY <1>2, <2>2 DEF Wrote, Evolves, CellCount, ArraysOK
  <2>8. TargetOK(cells'[Address], CellCount(Address), Place(c, i, old))
    BY <2>1, <2>2, <2>6 DEF TargetOK, Place
  <2>9. Stored(cells'[Address], CellCount(Address), op[t], target'[t])
    BY <2>1, <2>3, <2>6, <2>8 DEF Stored, Place, rec
  <2> QED
    BY <2>1, <2>3, <2>4, <2>7, <2>9, <1>3 DEF ThreadOK, InSearch, HasTarget
<1>17. CASE PutRehash(t)
  <2>1. op'[t] = op[t] /\ pc[t] = "lock" /\ pc'[t] \in {"lock", "exit"}
        /\ op[t].kind = "put" /\ ~build.pinned
    BY <1>1, <1>17 DEF PutRehash, Exit
  <2> QED
    BY <2>1, <1>2, <1>3 DEF ThreadOK, InSearch, HasTarget
<1>18. CASE PinnedMoved(t)
  BY <1>1, <1>4, <1>18 DEF PinnedMoved
<1>19. CASE PinnedLocked(t)
  <2>1. Storing(t) \/ (pc'[t] \in {"start", "exit"} /\ op'[t] = op[t] /\ pc[t] # "idle")
    <3>1. PinnedLocked(t) => Storing(t) \/ Quiet
      BY PinnedLockedStores
    <3>2. ASSUME NEW i \in Slots, SlotNow(cells[Address][target[t].cell], target[t], i),
                 Store(t, target[t].cell, i, target[t].old)
          PROVE  Storing(t)
      <4>1. TargetOK(cells[Address], CellCount(Address), target[t])
        BY <1>19 DEF PinnedLocked, ThreadOK, HasTarget
      <4>2. i \notin ValidBitSet(cells[Address][target[t].cell])
        BY <3>2 DEF SlotNow, Occupied, Lowest, EraseBitSet, BackupBitSet, ValidBitSet
      <4>3. /\ target[t].cell \in 0..(CellCount(Address) - 1)
            /\ target[t].old \in Slots \cup {None}
            /\ target[t].old # None =>
                 cells[Address][target[t].cell].slot[target[t].old] \in Record
        BY <4>1 DEF TargetOK
      <4> QED
        BY <4>2, <4>3, <3>2, <1>19 DEF Storing, PinnedLocked
    <3> QED
      BY <3>2, <1>1, <1>19 DEF PinnedLocked, Exit
  <2> QED
    BY <2>1, <1>4, <1>16
<1>20. CASE TryRehashLock(t)
  BY <1>1, <1>4, <1>20 DEF TryRehashLock
<1>21. CASE PinnedRehash(t)
  BY <1>1, <1>4, <1>21 DEF PinnedRehash, Exit
<1>22. CASE Publish(t)
  BY <1>1, <1>4, <1>22 DEF Publish
<1>23. CASE Return(t)
  <2>1. pc'[t] = "idle" /\ op'[t] = NoOp
    BY <1>1, <1>23 DEF Return
  <2> QED
    BY <2>1 DEF ThreadOK, InSearch, HasTarget, NoOp
<1>24. CASE PutLocked(t)
  BY <1>24, <1>16, PutLockedStores
<1> QED
  BY <1>5, <1>6, <1>7, <1>8, <1>9, <1>10, <1>11, <1>12, <1>13, <1>14, <1>15, <1>17,
     <1>18, <1>19, <1>20, <1>21, <1>22, <1>23, <1>24 DEF Step, SearchStep, WriteStep

-----------------------------------------------------------------------------
(* The types of what the threads keep.                                      *)

ControlOK ==
  /\ lock \in Threads \cup {None}
  /\ rehashLock \in BOOLEAN
  /\ pc \in [Threads -> PCs]
  /\ op \in [Threads -> Calls \cup {NoOp}]
  /\ disturbed \in [Threads -> BOOLEAN]
  /\ writes \in 0..MaxWrites

Places(olds) == [cell : Nat, slot : Slots, old : olds] \cup {None}

SearchOK(last) ==
  /\ at \in [Threads -> [addr : 0..last, dist : 0..(MaxProbeLen - 1)]]
  /\ copy \in [Threads -> [bitmap : SUBSET Slots, deleted : SUBSET Slots,
                           seq_no_ : 0..MaxWrites]]
  /\ insert \in [Threads -> Places({None})]
  /\ target \in [Threads -> Places(Slots \cup {None})]
  /\ got \in [Threads -> Values \cup {Absent, None}]

LEMMA ControlStep ==
  ASSUME LocalOK, NEW t \in Threads, Step(t)
  PROVE  ControlOK'
<1> USE DEF Goto, PCs
<1>1. ControlOK
  BY DEF LocalOK, ControlOK
<1>2. ASSUME NEW o \in Calls, Begin(t, o) PROVE ControlOK'
  <2>1. lock' = lock /\ rehashLock' = rehashLock
    BY <1>2 DEF Begin, bucketVars
  <2>2. pc' \in [Threads -> PCs] /\ op' \in [Threads -> Calls \cup {NoOp}]
    BY <1>1, <1>2 DEF Begin, ControlOK
  <2>3. writes' \in 0..MaxWrites
    BY <1>1, <1>2, BoundAssumption DEF Begin, ControlOK
  <2>4. disturbed' \in [Threads -> BOOLEAN]
    <3>1. \A u \in Threads : disturbed[u] \in BOOLEAN
      BY <1>1 DEF ControlOK
    <3>2. disturbed' = [u \in Threads |->
            IF u = t THEN \E w \in Threads \ {t} : Writes(op[w], o.key)
            ELSE disturbed[u] \/ (op[u].key = o.key /\ o.kind # "find")]
      BY <1>2 DEF Begin
    <3> QED
      BY <3>1, <3>2, Zenon
  <2> QED
    BY <1>1, <2>1, <2>2, <2>3, <2>4 DEF ControlOK
<1>3. CASE SearchStep(t)
  <2>1. UNCHANGED <<lock, rehashLock, op, disturbed, writes>>
    BY <1>3 DEF SearchStep, Start, CopyCell, Hit, NextCell, Miss, ChooseSlot, NoSlot,
                CheckVersion, bucketVars, historyVars
  <2>2. pc' \in [Threads -> PCs]
    BY <1>1, <1>3 DEF ControlOK, SearchStep, Start, CopyCell, Hit, NextCell, Miss,
                ChooseSlot, NoSlot, CheckVersion
  <2> QED
    BY <1>1, <2>1, <2>2 DEF ControlOK
<1>4. CASE WriteStep(t)
  <2>1. UNCHANGED <<op, disturbed, writes>>
    BY <1>4 DEF WriteStep, Erase, DeleteRetry, PutLocked, PutRehash, PinnedMoved,
                PinnedLocked, TryRehashLock, PinnedRehash, Publish, historyVars
  <2>2. pc' \in [Threads -> PCs]
    BY <1>1, <1>4 DEF ControlOK, WriteStep, Erase, DeleteRetry, PutLocked, PutRehash,
                PinnedMoved, PinnedLocked, TryRehashLock, PinnedRehash, Publish, Exit, Store
  <2>3. lock' \in Threads \cup {None}
    BY <1>1, <1>4 DEF ControlOK, WriteStep, Erase, DeleteRetry, PutLocked, PutRehash,
                PinnedMoved, PinnedLocked, TryRehashLock, PinnedRehash, Publish, Exit,
                Store, Locked, Unlock
  <2>4. rehashLock' \in BOOLEAN
    BY <1>1, <1>4 DEF ControlOK, WriteStep, Erase, DeleteRetry, PutLocked, PutRehash,
                PinnedMoved, PinnedLocked, TryRehashLock, PinnedRehash, Publish, Exit,
                Store, Locked, Unlock
  <2> QED
    BY <1>1, <2>1, <2>2, <2>3, <2>4 DEF ControlOK
<1>5. CASE Return(t)
  <2>1. UNCHANGED <<lock, rehashLock, writes>>
    BY <1>5 DEF Return, bucketVars
  <2> QED
    BY <1>1, <1>5, <2>1 DEF ControlOK, Return
<1> QED
  BY <1>2, <1>3, <1>4, <1>5 DEF Step

(* A step of a call of Put or Delete counts once, and a new version also.   *)
Pending == {t \in Threads : op[t].kind \in {"put", "delete"} /\ pc[t] # "done"}

SeqInv ==
  \A a \in 1..Address : \A c \in 0..(CellCount(a) - 1) :
    seq_no_[a][c] + Cardinality(Pending) <= writes

LEMMA PendingFinite ==
  /\ IsFiniteSet(Pending) /\ Cardinality(Pending) \in Nat
  /\ \A S \in SUBSET Pending : IsFiniteSet(S) /\ Cardinality(S) \in Nat
                                /\ Cardinality(S) <= Cardinality(Pending)
<1>1. IsFiniteSet(Pending)
  BY BoundAssumption, FS_Subset DEF Pending
<1> QED
  BY <1>1, FS_Subset, FS_CardinalityType

LEMMA SearchVarsStep ==
  ASSUME ArraysOK, LocalOK, SeqInv, NEW t \in Threads, ThreadOK(t), Step(t)
  PROVE  SearchOK(Address)'
<1> USE DEF Goto
<1>1. SearchOK(Address)
  BY DEF LocalOK, SearchOK, Places
<1>2. Evolves /\ ArraysOK'
  BY ArraysStep
<1> DEFINE AtOK == at' \in [Threads -> [addr : 0..Address, dist : 0..(MaxProbeLen - 1)]]
           CopyOK == copy' \in [Threads -> [bitmap : SUBSET Slots, deleted : SUBSET Slots,
                                         seq_no_ : 0..MaxWrites]]
           InsertOK == insert' \in [Threads -> Places({None})]
           AimOK == target' \in [Threads -> Places(Slots \cup {None})]
           GotOK == got' \in [Threads -> Values \cup {Absent, None}]
<1>3. SUFFICES AtOK /\ CopyOK /\ InsertOK /\ AimOK /\ GotOK
  <2>1. Address <= Address' /\ Address \in Nat /\ Address' \in Nat
    BY <1>2 DEF Evolves, ArraysOK
  <2>2. 0..Address \subseteq 0..Address'
    BY <2>1
  <2>3. at' \in [Threads -> [addr : 0..Address', dist : 0..(MaxProbeLen - 1)]]
    BY <1>3, <2>2
  <2> QED
    BY <1>3, <2>3 DEF SearchOK, Places
<1>4. /\ UNCHANGED at => AtOK
      /\ UNCHANGED copy => CopyOK
      /\ UNCHANGED insert => InsertOK
      /\ UNCHANGED target => AimOK
      /\ UNCHANGED got => GotOK
  BY <1>1 DEF SearchOK
<1>5. ASSUME InSearch(t)
      PROVE  cell(t) \in Nat /\ cells[at[t].addr][cell(t)] \in Cell
  BY <1>5, CellInArray
<1>6. \A c \in Nat, i \in Slots, old \in Slots \cup {None} :
        Place(c, i, old) \in [cell : Nat, slot : Slots, old : Slots \cup {None}]
  BY DEF Place
<1>20. \A c \in Nat, i \in Slots : Place(c, i, None) \in [cell : Nat, slot : Slots, old : {None}]
  BY DEF Place
<1> HIDE DEF AtOK, CopyOK, InsertOK, AimOK, GotOK
<1>7. ASSUME NEW o \in Calls, Begin(t, o) PROVE AtOK /\ CopyOK /\ InsertOK /\ AimOK /\ GotOK
  BY <1>4, <1>7 DEF Begin, searchVars
<1>8. CASE Start(t)
  <2>1. AtOK
    <3>1. at' = [at EXCEPT ![t] = [addr |-> Address, dist |-> 0]]
      BY <1>8 DEF Start
    <3>2. [addr |-> Address, dist |-> 0] \in [addr : 0..Address, dist : 0..(MaxProbeLen - 1)]
      BY ProbeAssumption DEF ArraysOK
    <3> QED
      BY <1>1, <3>1, <3>2 DEF SearchOK, AtOK
  <2>2. InsertOK /\ AimOK
    BY <1>1, <1>8 DEF Start, SearchOK, InsertOK, AimOK, Places
  <2> QED
    BY <1>4, <1>8, <2>1, <2>2 DEF Start
<1>9. CASE CopyCell(t)
  <2>1. CopyOK
    <3>1. copy' = [copy EXCEPT ![t] =
                     [bitmap |-> cells[at[t].addr][cell(t)].bitmap,
                      deleted |-> cells[at[t].addr][cell(t)].deleted,
                      seq_no_ |-> seq_no_[at[t].addr][cell(t)]]]
      BY <1>9 DEF CopyCell
    <3>2. InSearch(t)
      BY <1>9 DEF CopyCell, InSearch
    <3>3. /\ cells[at[t].addr][cell(t)].bitmap \subseteq Slots
          /\ cells[at[t].addr][cell(t)].deleted \subseteq Slots
      BY <3>2, <1>5 DEF Cell
    <3>4. at[t].addr \in 1..Address /\ cell(t) \in 0..(CellCount(at[t].addr) - 1)
      BY <3>2, CellInArray
    <3>5. seq_no_[at[t].addr][cell(t)] \in Nat
      BY <3>4 DEF ArraysOK
    <3>6. seq_no_[at[t].addr][cell(t)] + Cardinality(Pending) <= writes
      BY <3>4 DEF SeqInv
    <3>7. writes \in 0..MaxWrites /\ MaxWrites \in Nat
      BY BoundAssumption DEF LocalOK
    <3>8. Cardinality(Pending) \in Nat
      BY PendingFinite
    <3>9. seq_no_[at[t].addr][cell(t)] \in 0..MaxWrites
      BY <3>5, <3>6, <3>7, <3>8
    <3> QED
      BY <1>1, <3>1, <3>3, <3>9 DEF SearchOK, CopyOK
  <2> QED
    BY <1>4, <1>9, <2>1 DEF CopyCell
<1>10. CASE Hit(t)
  <2>1. InSearch(t) /\ pc[t] = "compare"
    BY <1>10 DEF Hit, InSearch
  <2>2. \A i \in Hits(t) : cells[at[t].addr][cell(t)].slot[i].val \in Values
    <3>1. \A i \in Hits(t) : cells[at[t].addr][cell(t)].slot[i] \in Record
      BY <2>1 DEF Hits, ValidBitSet, ThreadOK, Recorded
    <3> QED
      BY <3>1 DEF Record
  <2>3. GotOK
    <3>1. PICK i \in Slots :
            /\ Lowest(i, Hits(t))
            /\ \/ got' = [got EXCEPT ![t] = cells[at[t].addr][cell(t)].slot[i].val]
               \/ UNCHANGED got
      BY <1>10 DEF Hit
    <3> QED
      BY <1>1, <3>1, <2>2, <1>4 DEF SearchOK, GotOK, Lowest
  <2>4. AimOK
    <3>1. \/ UNCHANGED target
          \/ \E j \in Slots, old \in Slots \cup {None} :
               target' = [target EXCEPT ![t] = Place(cell(t), j, old)]
      BY <1>10 DEF Hit
    <3>2. ASSUME NEW j \in Slots, NEW old \in Slots \cup {None},
                 target' = [target EXCEPT ![t] = Place(cell(t), j, old)]
          PROVE  AimOK
      <4>1. Place(cell(t), j, old) \in Places(Slots \cup {None})
        BY <1>5, <1>6, <2>1 DEF Places
      <4> QED
        BY <1>1, <3>2, <4>1 DEF SearchOK, AimOK
    <3> QED
      BY <3>1, <3>2, <1>4
  <2> QED
    BY <1>4, <1>10, <2>3, <2>4 DEF Hit
<1>11. CASE NextCell(t)
  <2>1. InSearch(t)
    BY <1>11 DEF NextCell, InSearch
  <2>2. AtOK
    <3>1. at' = [at EXCEPT ![t].dist = @ + 1]
      BY <1>11 DEF NextCell
    <3>2. at[t].dist + 1 \in 0..(MaxProbeLen - 1)
      BY <1>11 DEF NextCell, LastCell, ProbeDist
    <3> QED
      BY <1>1, <3>1, <3>2 DEF SearchOK, AtOK
  <2>3. InsertOK
    <3>1. \/ UNCHANGED insert
          \/ \E i \in Slots : insert' = [insert EXCEPT ![t] = Place(cell(t), i, None)]
      BY <1>11 DEF NextCell
    <3> QED
      BY <1>1, <3>1, <1>4, <1>5, <1>20, <2>1 DEF SearchOK, InsertOK, Places
  <2> QED
    BY <1>4, <1>11, <2>2, <2>3 DEF NextCell
<1>12. CASE Miss(t)
  <2>1. GotOK
    BY <1>1, <1>12 DEF Miss, SearchOK, GotOK
  <2> QED
    BY <1>4, <1>12, <2>1 DEF Miss
<1>13. CASE ChooseSlot(t)
  <2>1. InSearch(t)
    BY <1>13 DEF ChooseSlot, InSearch
  <2>2. DOMAIN cells[at[t].addr] \subseteq Nat
    BY <2>1, CellInArray DEF Bucket
  <2>3. PICK p \in [cell : DOMAIN cells[at[t].addr], slot : Slots, old : {None}] :
          insert' = [insert EXCEPT ![t] = p] /\ target' = [target EXCEPT ![t] = p]
    BY <1>13 DEF ChooseSlot
  <2>4. p \in [cell : Nat, slot : Slots, old : {None}]
    BY <2>2
  <2>5. p \in Places({None}) /\ p \in Places(Slots \cup {None})
    BY <2>4 DEF Places
  <2>6. InsertOK /\ AimOK
    BY <1>1, <2>3, <2>5 DEF SearchOK, InsertOK, AimOK
  <2> QED
    BY <1>4, <1>13, <2>6 DEF ChooseSlot
<1>14. CASE NoSlot(t) \/ CheckVersion(t) \/ Erase(t) \/ DeleteRetry(t) \/ PutRehash(t)
            \/ PinnedMoved(t) \/ TryRehashLock(t) \/ PinnedRehash(t) \/ Publish(t)
  BY <1>4, <1>14 DEF NoSlot, CheckVersion, Erase, DeleteRetry, PutRehash, PinnedMoved,
                     TryRehashLock, PinnedRehash, Publish, searchVars
<1>15. CASE Storing(t) /\ UNCHANGED <<copy, got>>
  <2>1. PICK c \in 0..(CellCount(Address) - 1), i \in Slots, old \in Slots \cup {None} :
          target' = [target EXCEPT ![t] = Place(c, i, old)] /\ UNCHANGED <<at, insert>>
    BY <1>15 DEF Storing, Store
  <2>2. c \in Nat
    BY <2>1
  <2>3. AimOK
    BY <1>1, <1>6, <2>1, <2>2 DEF SearchOK, AimOK, Places
  <2> QED
    BY <1>4, <1>15, <2>1, <2>3
<1>16. CASE PutLocked(t)
  BY <1>15, <1>16, PutLockedStores DEF PutLocked
<1>17. CASE PinnedLocked(t)
  <2>1. UNCHANGED <<copy, got>>
    BY <1>17 DEF PinnedLocked
  <2>2. CASE UNCHANGED <<at, insert, target>>
    BY <2>1, <2>2, <1>4
  <2>3. CASE \E i \in Slots : Store(t, target[t].cell, i, target[t].old)
    <3>1. TargetOK(cells[Address], CellCount(Address), target[t])
      BY <1>17 DEF PinnedLocked, ThreadOK, HasTarget
    <3>2. target[t].cell \in Nat /\ target[t].old \in Slots \cup {None}
      BY <3>1 DEF TargetOK
    <3>3. PICK i \in Slots :
            /\ target' = [target EXCEPT ![t] = Place(target[t].cell, i, target[t].old)]
            /\ UNCHANGED <<at, insert>>
      BY <2>3 DEF Store
    <3>4. AimOK
      BY <1>1, <1>6, <3>2, <3>3 DEF SearchOK, AimOK, Places
    <3> QED
      BY <1>4, <2>1, <3>3, <3>4
  <2> QED
    BY <2>2, <2>3, <1>17 DEF PinnedLocked
<1>18. CASE Return(t)
  <2>1. AtOK
    <3>1. Nowhere \in [addr : 0..Address, dist : 0..(MaxProbeLen - 1)]
      BY ProbeAssumption DEF Nowhere, ArraysOK
    <3> QED
      BY <1>1, <3>1, <1>18 DEF SearchOK, AtOK, Return
  <2>2. CopyOK
    <3>1. NoCopy \in [bitmap : SUBSET Slots, deleted : SUBSET Slots, seq_no_ : 0..MaxWrites]
      BY BoundAssumption DEF NoCopy
    <3> QED
      BY <1>1, <3>1, <1>18 DEF SearchOK, CopyOK, Return
  <2>3. InsertOK /\ AimOK /\ GotOK
    BY <1>1, <1>18 DEF SearchOK, InsertOK, AimOK, GotOK, Places, Return
  <2> QED
    BY <2>1, <2>2, <2>3
<1>19. AtOK /\ CopyOK /\ InsertOK /\ AimOK /\ GotOK
  BY <1>7, <1>8, <1>9, <1>10, <1>11, <1>12, <1>13, <1>14, <1>16, <1>17, <1>18
     DEF Step, SearchStep, WriteStep
<1> QED
  BY <1>19

(* What another thread has written during a call.                           *)
HistOK(t) ==
  ~disturbed[t] /\ op[t].kind # "none" =>
    \A u \in Threads \ {t} : ~Writes(op[u], op[t].key)

LEMMA CallsMoveOn ==
  ASSUME LocalOK, NEW t \in Threads, Step(t)
  PROVE  \/ \E o \in Calls : Begin(t, o)
         \/ op' = op /\ pc[t] # "done" /\ UNCHANGED <<disturbed, writes>>
         \/ Return(t)
<1>1. CASE SearchStep(t)
  BY <1>1 DEF SearchStep, Start, CopyCell, Hit, NextCell, Miss, ChooseSlot, NoSlot,
              CheckVersion, historyVars
<1>2. CASE WriteStep(t)
  BY <1>2 DEF WriteStep, Erase, DeleteRetry, PutLocked, PutRehash, PinnedMoved,
              PinnedLocked, TryRehashLock, PinnedRehash, Publish, historyVars
<1> QED
  BY <1>1, <1>2 DEF Step

LEMMA HistStep ==
  ASSUME LocalOK, \A t \in Threads : HistOK(t), NEW u \in Threads, Step(u),
         NEW t \in Threads
  PROVE  HistOK(t)'
<1>0. DOMAIN op = Threads /\ DOMAIN disturbed = Threads
  BY DEF LocalOK
<1>1. CASE op' = op /\ UNCHANGED disturbed
  BY <1>1 DEF HistOK, Writes
<1>2. CASE Return(u)
  <2>1. op' = [op EXCEPT ![u] = NoOp] /\ disturbed' = [disturbed EXCEPT ![u] = FALSE]
    BY <1>2 DEF Return
  <2>2. op'[u].kind = "none"
    BY <2>1, <1>0 DEF NoOp
  <2> QED
    BY <2>1, <2>2, <1>0 DEF HistOK, Writes
<1>3. ASSUME NEW o \in Calls, Begin(u, o) PROVE HistOK(t)'
  <2>1. op' = [op EXCEPT ![u] = o]
    BY <1>3 DEF Begin
  <2>2. disturbed'[t] = (IF t = u THEN \E w \in Threads \ {u} : Writes(op[w], o.key)
                         ELSE disturbed[t] \/ (op[t].key = o.key /\ o.kind # "find"))
    BY <1>3 DEF Begin
  <2>3. CASE t = u
    BY <2>1, <2>2, <2>3, <1>0 DEF HistOK, Writes
  <2>4. CASE t # u
    <3>1. SUFFICES ASSUME ~disturbed'[t], op[t].kind # "none",
                          NEW w \in Threads \ {t}
                   PROVE  ~Writes(op'[w], op[t].key)
      BY <2>1, <2>4, <1>0 DEF HistOK, Writes
    <3>2. ~disturbed[t] /\ ~(op[t].key = o.key /\ o.kind # "find")
      BY <2>2, <2>4, <3>1
    <3>3. CASE w = u
      BY <3>2, <3>3, <2>1, <1>0 DEF Writes
    <3>4. CASE w # u
      BY <3>1, <3>2, <3>4, <2>1, <1>0 DEF HistOK, Writes
    <3> QED
      BY <3>3, <3>4
  <2> QED
    BY <2>3, <2>4
<1> QED
  BY <1>1, <1>2, <1>3, CallsMoveOn

LEMMA SeqStep ==
  ASSUME ArraysOK, LocalOK, SeqInv, NEW t \in Threads, ThreadOK(t), Step(t)
  PROVE  SeqInv'
<1>0. /\ DOMAIN op = Threads /\ DOMAIN pc = Threads
      /\ writes \in Nat /\ Address \in Nat \ {0}
  BY BoundAssumption DEF LocalOK, ArraysOK
<1>1. /\ \A a \in 1..Address : \A c \in 0..(CellCount(a) - 1) :
           /\ seq_no_[a][c] \in Nat
           /\ seq_no_[a][c] + Cardinality(Pending) <= writes
      /\ Cardinality(Pending) \in Nat
  BY PendingFinite DEF SeqInv, ArraysOK
<1>2. Cardinality(Pending) <= writes
  <2>1. 0 \in 0..(CellCount(Address) - 1) /\ Address \in 1..Address
    BY DEF ArraysOK
  <2>2. seq_no_[Address][0] \in Nat /\ seq_no_[Address][0] + Cardinality(Pending) <= writes
    BY <2>1, <1>1
  <2> QED
    BY <2>2, <1>0, <1>1
<1>3. \A u \in Threads \ {t} : op'[u] = op[u] /\ pc'[u] = pc[u]
  BY Framed DEF Frame
<1>4. ASSUME NEW o \in Calls, Begin(t, o) PROVE SeqInv'
  <2>1. UNCHANGED <<cells, seq_no_>>
    BY <1>4 DEF Begin, bucketVars
  <2>2. CASE o.kind = "find"
    <3>1. writes' = writes /\ op'[t] = o
      BY <1>0, <1>4, <2>2 DEF Begin
    <3>2. Pending' \in SUBSET Pending
      BY <1>3, <2>2, <3>1 DEF Pending
    <3>3. Cardinality(Pending') \in Nat /\ Cardinality(Pending') <= Cardinality(Pending)
      BY <3>2, PendingFinite
    <3>4. \A a \in 1..Address : \A c \in 0..(CellCount(a) - 1) :
            seq_no_[a][c] + Cardinality(Pending') <= writes
      BY <1>0, <1>1, <3>3
    <3> QED
      BY <2>1, <3>1, <3>4 DEF SeqInv, Address, CellCount
  <2>3. CASE o.kind # "find"
    <3>1. writes' = writes + 1
      BY <1>4, <2>3 DEF Begin
    <3>2. Pending' \subseteq Pending \cup {t}
      BY <1>3 DEF Pending
    <3>3. IsFiniteSet(Pending \cup {t})
          /\ Cardinality(Pending \cup {t}) <= Cardinality(Pending) + 1
      <4>1. IsFiniteSet(Pending)
        BY PendingFinite
      <4>2. Cardinality(Pending \cup {t}) \in {Cardinality(Pending), Cardinality(Pending) + 1}
        BY <4>1, FS_AddElement
      <4> QED
        BY <4>1, <4>2, <1>1, FS_AddElement
    <3>4. Cardinality(Pending') \in Nat /\ Cardinality(Pending \cup {t}) \in Nat
          /\ Cardinality(Pending') <= Cardinality(Pending \cup {t})
      BY <3>2, <3>3, FS_Subset, FS_CardinalityType
    <3>5. Cardinality(Pending') <= Cardinality(Pending) + 1
      BY <3>3, <3>4, <1>1
    <3>6. \A a \in 1..Address : \A c \in 0..(CellCount(a) - 1) :
            seq_no_[a][c] + Cardinality(Pending') <= writes + 1
      BY <1>0, <1>1, <3>4, <3>5
    <3> QED
      BY <2>1, <3>1, <3>6 DEF SeqInv, Address, CellCount
  <2> QED
    BY <2>2, <2>3
<1>5. ASSUME writes' = writes, (op'[t] = op[t] /\ pc[t] # "done") \/ op'[t] = NoOp
      PROVE  Cardinality(Pending') \in Nat /\ Cardinality(Pending') <= Cardinality(Pending)
  <2>1. Pending' \in SUBSET Pending
    <3>1. (op'[t] = op[t] /\ pc[t] # "done") \/ op'[t].kind = "none"
      BY <1>5 DEF NoOp
    <3> QED
      BY <3>1, <1>3 DEF Pending
  <2> QED
    BY <2>1, PendingFinite
<1>6. ASSUME UNCHANGED <<cells, seq_no_, writes>>,
             (op'[t] = op[t] /\ pc[t] # "done") \/ op'[t] = NoOp
      PROVE  SeqInv'
  <2>1. Cardinality(Pending') \in Nat /\ Cardinality(Pending') <= Cardinality(Pending)
    BY <1>5, <1>6
  <2>2. \A a \in 1..Address : \A c \in 0..(CellCount(a) - 1) :
          seq_no_[a][c] + Cardinality(Pending') <= writes
    BY <1>0, <1>1, <2>1
  <2> QED
    BY <2>2, <1>6 DEF SeqInv, Address, CellCount
<1>7. ASSUME NEW c \in 0..(CellCount(Address) - 1), writes' = writes, op'[t] = op[t],
             op[t].kind \in {"put", "delete"}, pc[t] # "done", pc'[t] = "done",
             seq_no_' = [seq_no_ EXCEPT ![Address][c] = @ + 1],
             Evolves, Address' = Address
      PROVE  SeqInv'
  <2>1. Pending' = Pending \ {t} /\ t \in Pending
    BY <1>3, <1>7 DEF Pending
  <2>2. Cardinality(Pending') \in Nat /\ Cardinality(Pending') + 1 = Cardinality(Pending)
    <3>1. IsFiniteSet(Pending)
      BY PendingFinite
    <3>2. Cardinality(Pending \ {t}) = Cardinality(Pending) - 1
      BY <2>1, <3>1, FS_RemoveElement
    <3>3. Cardinality(Pending \ {t}) \in Nat
      BY PendingFinite
    <3> QED
      BY <2>1, <3>2, <3>3, <1>1
  <2>3. ASSUME NEW a \in 1..Address, NEW e \in 0..(CellCount(a) - 1)
        PROVE  seq_no_'[a][e] + Cardinality(Pending') <= writes
    <3>1. seq_no_[a][e] \in Nat /\ seq_no_[a][e] + Cardinality(Pending) <= writes
      BY <1>1
    <3>2. /\ seq_no_ \in Seq(Versions) /\ Len(seq_no_) = Address
          /\ Address \in DOMAIN seq_no_ /\ a \in DOMAIN seq_no_
          /\ seq_no_[a] \in [0..(CellCount(a) - 1) -> Nat]
      BY DEF ArraysOK
    <3>3. seq_no_'[a] = IF a = Address THEN [seq_no_[a] EXCEPT ![c] = @ + 1] ELSE seq_no_[a]
      BY <1>7, <3>2
    <3>4. seq_no_'[a][e] \in {seq_no_[a][e], seq_no_[a][e] + 1}
      BY <3>2, <3>3
    <3> QED
      BY <3>1, <3>4, <2>2, <1>0
  <2>4. \A a \in 1..Address : CellCount(a)' = CellCount(a)
    BY <1>7 DEF Evolves
  <2> QED
    BY <2>3, <2>4, <1>7 DEF SeqInv
<1>8. CASE Return(t)
  <2>1. op'[t] = NoOp /\ UNCHANGED <<cells, seq_no_, writes>>
    BY <1>0, <1>8 DEF Return, bucketVars
  <2> QED
    BY <2>1, <1>6
<1>9. ASSUME op' = op, pc[t] # "done", UNCHANGED <<disturbed, writes>> PROVE SeqInv'
  <2>0. build' = build
    BY Framed DEF Frame
  <2>1. CASE Quiet
    BY <2>1, <1>6, <1>9 DEF Quiet
  <2>2. CASE Erase(t)
    <3>1. /\ Evolves
          /\ Wrote(target[t].cell, EraseSlot(cells[Address][target[t].cell], target[t].slot))
      BY <2>0, <2>2, EraseWrites
    <3>2. /\ seq_no_' = [seq_no_ EXCEPT ![Address][target[t].cell] = @ + 1]
          /\ op[t].kind = "delete" /\ pc'[t] = "done"
      BY <1>0, <2>2 DEF Erase, Goto
    <3>3. target[t].cell \in 0..(CellCount(Address) - 1) /\ Address' = Address
      BY <3>1 DEF Wrote
    <3> QED
      BY <3>1, <3>2, <3>3, <1>7, <1>9
  <2>3. CASE Publish(t)
    <3>1. /\ Evolves
          /\ Wrote(target[t].cell, NewVersion(cells[Address][target[t].cell], target[t]))
          /\ Stored(cells[Address], CellCount(Address), op[t], target[t])
      BY <2>0, <2>3, PublishWrites
    <3>2. /\ seq_no_' = [seq_no_ EXCEPT ![Address][target[t].cell] = @ + 1]
          /\ op[t].kind = "put" /\ pc'[t] = "done"
      BY <1>0, <2>3, <3>1 DEF Publish, Goto, Stored
    <3>3. target[t].cell \in 0..(CellCount(Address) - 1) /\ Address' = Address
      BY <3>1 DEF Wrote
    <3> QED
      BY <3>1, <3>2, <3>3, <1>7, <1>9
  <2>4. Cardinality(Pending') \in Nat /\ Cardinality(Pending') <= Cardinality(Pending)
    BY <1>5, <1>9
  <2>5. CASE Storing(t)
    <3>1. seq_no_' = seq_no_
      BY <2>5 DEF Storing, Store
    <3>2. PICK c \in 0..(CellCount(Address) - 1), i \in Slots, old \in Slots \cup {None} :
            op[t].kind = "put" /\ pc[t] = "lock" /\ Store(t, c, i, old)
      BY <2>5 DEF Storing
    <3>3. Evolves /\ Wrote(c, SlotSet(cells[Address][c], i, rec(t)))
      BY <2>0, <3>2, StoreWrites
    <3>4. /\ Address' = Address
          /\ \A a \in 1..Address : CellCount(a)' = CellCount(a)
      BY <3>3 DEF Evolves, Wrote
    <3>5. \A a \in 1..Address : \A e \in 0..(CellCount(a) - 1) :
            seq_no_[a][e] + Cardinality(Pending') <= writes
      BY <1>0, <1>1, <2>4
    <3> QED
      BY <3>1, <3>4, <3>5, <1>9 DEF SeqInv
  <2>6. CASE Growing(t)
    <3>1. /\ Evolves /\ Address' = Address + 1
          /\ Cardinality(DOMAIN cells'[Address + 1]) = 2 * CellCount(Address)
          /\ \A a \in 1..Address : seq_no_'[a] = seq_no_[a]
          /\ \A c \in 0..(2 * CellCount(Address) - 1) : seq_no_'[Address + 1][c] = 0
      BY <2>0, <2>6, CellsGrown DEF Growing, LocalOK
    <3>2. ASSUME NEW a \in 1..(Address + 1), NEW e \in 0..(Cardinality(DOMAIN cells'[a]) - 1)
          PROVE  seq_no_'[a][e] + Cardinality(Pending') <= writes
      <4>1. CASE a \in 1..Address
        <5>1. Cardinality(DOMAIN cells'[a]) = CellCount(a)
          BY <3>1, <4>1 DEF Evolves, CellCount
        <5>2. seq_no_'[a][e] \in Nat /\ seq_no_'[a][e] + Cardinality(Pending) <= writes
          BY <5>1, <4>1, <3>1, <1>1
        <5> QED
          BY <5>2, <2>4, <1>0, <1>1
      <4>2. CASE a = Address + 1
        <5>1. seq_no_'[a][e] = 0
          BY <4>2, <3>1
        <5> QED
          BY <5>1, <2>4, <1>0, <1>1, <1>2
      <4> QED
        BY <4>1, <4>2, <1>0
    <3> QED
      BY <3>1, <3>2, <1>9 DEF SeqInv, CellCount
  <2> QED
    BY <2>1, <2>2, <2>3, <2>5, <2>6, Changes
<1> QED
  BY <1>4, <1>8, <1>9, CallsMoveOn

(* The inductive invariant behind TypeOK and NeverOverwrites.               *)
TypeInv ==
  /\ ArraysOK /\ LocalOK /\ SeqInv
  /\ \A t \in Threads : ThreadOK(t) /\ HistOK(t)
  /\ intact \in BOOLEAN /\ within \in BOOLEAN

LEMMA TypeInit == Init => TypeInv
<1> SUFFICES ASSUME Init PROVE TypeInv
  OBVIOUS
<1> USE DEF Init
<1>1. InitCellCount \in Nat \ {0}
  BY BuildsAssumption
<1>2. /\ EmptyBucket(InitCellCount) \in Bucket(InitCellCount)
      /\ SoundBucket(EmptyBucket(InitCellCount), InitCellCount)
  BY <1>1, EmptySound
<1>3. /\ Address = 1 /\ cells[1] = EmptyBucket(InitCellCount)
      /\ CellCount(1) = InitCellCount
  BY <1>1, <1>2, BucketCount DEF Address, CellCount
<1>4. build.CellCountLimit \in Nat /\ InitCellCount <= build.CellCountLimit
  BY BuildsAssumption
<1>5. ArraysOK
  <2>1. EmptyBucket(InitCellCount) \in Arrays
    BY <1>1, <1>2 DEF Arrays
  <2>2. [c \in 0..(InitCellCount - 1) |-> 0] \in [0..(InitCellCount - 1) -> Nat]
    OBVIOUS
  <2>3. [c \in 0..(InitCellCount - 1) |-> 0] \in Versions
    BY <1>1, <2>2 DEF Versions
  <2>4. cells \in Seq(Arrays) /\ seq_no_ \in Seq(Versions) /\ Len(seq_no_) = 1
    BY <2>1, <2>3
  <2>5. CellCount(1) \in 1..build.CellCountLimit
    BY <1>1, <1>3, <1>4
  <2>6. \A c \in 0..(InitCellCount - 1) : HoldsRecords(cells[1][c])
    BY <1>2, <1>3 DEF SoundBucket
  <2> QED
    BY <1>2, <1>3, <2>2, <2>4, <2>5, <2>6 DEF ArraysOK
<1>6. LocalOK
  <2>1. NoOp.kind = "none" /\ Nowhere \in [addr : 0..Address, dist : 0..(MaxProbeLen - 1)]
    BY <1>3, ProbeAssumption DEF NoOp, Nowhere
  <2>2. NoCopy \in [bitmap : SUBSET Slots, deleted : SUBSET Slots, seq_no_ : 0..MaxWrites]
    BY BoundAssumption DEF NoCopy
  <2>3. /\ build \in Builds /\ lock \in Threads \cup {None} /\ rehashLock \in BOOLEAN
        /\ disturbed \in [Threads -> BOOLEAN] /\ writes \in 0..MaxWrites
    <3>1. 0 \in 0..MaxWrites
      BY BoundAssumption
    <3>2. disturbed \in [Threads -> BOOLEAN]
      BY Zenon
    <3> QED
      BY <3>1, <3>2
  <2>4. pc \in [Threads -> PCs] /\ op \in [Threads -> Calls \cup {NoOp}]
    BY DEF PCs
  <2>5. /\ at \in [Threads -> [addr : 0..Address, dist : 0..(MaxProbeLen - 1)]]
        /\ copy \in [Threads -> [bitmap : SUBSET Slots, deleted : SUBSET Slots,
                                 seq_no_ : 0..MaxWrites]]
    BY <2>1, <2>2
  <2>6. /\ insert \in [Threads -> [cell : Nat, slot : Slots, old : {None}] \cup {None}]
        /\ target \in [Threads -> [cell : Nat, slot : Slots, old : Slots \cup {None}] \cup {None}]
        /\ got \in [Threads -> Values \cup {Absent, None}]
    OBVIOUS
  <2> QED
    BY <2>3, <2>4, <2>5, <2>6 DEF LocalOK
<1>7. Pending = {}
  BY DEF Pending, NoOp
<1>8. SeqInv
  <2>1. Cardinality(Pending) = 0 /\ writes = 0
    BY <1>7, FS_EmptySet
  <2>2. \A c \in 0..(InitCellCount - 1) : seq_no_[1][c] = 0
    OBVIOUS
  <2> HIDE DEF Init
  <2> QED
    BY <1>3, <2>1, <2>2 DEF SeqInv
<1>9. \A t \in Threads : ThreadOK(t) /\ HistOK(t)
  BY DEF ThreadOK, HistOK, InSearch, HasTarget, NoOp
<1> QED
  BY <1>5, <1>6, <1>8, <1>9 DEF TypeInv

LEMMA TypeUnchanged ==
  ASSUME TypeInv, UNCHANGED vars
  PROVE  TypeInv'
<1> USE DEF vars, bucketVars, searchVars, historyVars
<1>1. Address' = Address /\ \A a : CellCount(a)' = CellCount(a)
  BY DEF Address, CellCount
<1>2. ArraysOK' /\ LocalOK'
  BY <1>1 DEF TypeInv, ArraysOK, LocalOK
<1>3. SeqInv'
  BY <1>1 DEF TypeInv, SeqInv, Pending
<1>4. \A t \in Threads : ThreadOK(t)' /\ HistOK(t)'
  BY <1>1 DEF TypeInv, ThreadOK, HistOK, InSearch, HasTarget, cell
<1> QED
  BY <1>2, <1>3, <1>4 DEF TypeInv

LEMMA TypeStep ==
  ASSUME TypeInv, [Next]_vars
  PROVE  TypeInv'
<1>1. CASE UNCHANGED vars
  BY <1>1, TypeUnchanged
<1>2. CASE Next
  <2>0. /\ ArraysOK /\ LocalOK /\ SeqInv
        /\ \A t \in Threads : ThreadOK(t) /\ HistOK(t)
        /\ intact \in BOOLEAN /\ within \in BOOLEAN
    BY DEF TypeInv
  <2>1. PICK t \in Threads : Step(t)
    BY <1>2 DEF Next
  <2>2. ThreadOK(t)
    BY <2>0
  <2>3. ArraysOK' /\ build' = build
    BY <2>0, <2>1, <2>2, ArraysStep, Framed DEF Frame
  <2>4. LocalOK'
    <3>1. ControlOK' /\ SearchOK(Address)'
      BY <2>0, <2>1, <2>2, ControlStep, SearchVarsStep
    <3> QED
      BY <3>1, <2>0, <2>3 DEF ControlOK, SearchOK, LocalOK, Places
  <2>5. SeqInv'
    BY <2>0, <2>1, <2>2, SeqStep
  <2>6. ASSUME NEW u \in Threads PROVE ThreadOK(u)'
    BY <2>0, <2>1, SelfOK, OtherOK
  <2>7. ASSUME NEW u \in Threads PROVE HistOK(u)'
    BY <2>0, <2>1, HistStep
  <2>8. intact' \in BOOLEAN /\ within' \in BOOLEAN
    BY <2>0, <1>2 DEF Next
  <2> QED
    BY <2>3, <2>4, <2>5, <2>6, <2>7, <2>8 DEF TypeInv
<1> QED
  BY <1>1, <1>2

(* The words, the arrays and the places of the searches are what they       *)
(* should be after any steps.                                               *)
THEOREM TypeCorrect == Spec => []TypeInv
<1>1. TypeInv /\ [Next]_vars => TypeInv'
  BY TypeStep
<1> QED
  BY <1>1, TypeInit, PTL DEF Spec

LEMMA TypeInvTypes == TypeInv => TypeOK
<1> SUFFICES ASSUME TypeInv PROVE TypeOK
  OBVIOUS
<1>0. ArraysOK /\ LocalOK /\ SeqInv /\ intact \in BOOLEAN /\ within \in BOOLEAN
  BY DEF TypeInv
<1>1. DOMAIN cells = 1..Address
  BY <1>0 DEF ArraysOK, Address
<1>2. ASSUME NEW a \in 1..Address
      PROVE  /\ cells[a] \in Bucket(CellCount(a)) /\ CellCount(a) <= build.CellCountLimit
             /\ seq_no_[a] \in [DOMAIN cells[a] -> 0..MaxWrites]
  <2>1. /\ cells[a] \in Bucket(CellCount(a)) /\ CellCount(a) \in 1..build.CellCountLimit
        /\ seq_no_[a] \in [0..(CellCount(a) - 1) -> Nat]
    BY <1>0 DEF ArraysOK
  <2>2. DOMAIN cells[a] = 0..(CellCount(a) - 1)
    BY <2>1 DEF Bucket
  <2>3. ASSUME NEW c \in 0..(CellCount(a) - 1) PROVE seq_no_[a][c] \in 0..MaxWrites
    <3>1. seq_no_[a][c] \in Nat /\ seq_no_[a][c] + Cardinality(Pending) <= writes
      BY <1>0, <2>1 DEF SeqInv
    <3>2. Cardinality(Pending) \in Nat /\ writes \in 0..MaxWrites /\ MaxWrites \in Nat
      BY <1>0, PendingFinite, BoundAssumption DEF LocalOK
    <3> QED
      BY <3>1, <3>2
  <2>4. CellCount(a) <= build.CellCountLimit
    <3>1. build.CellCountLimit \in Int
      BY <1>0, BuildsAssumption, ProbeAssumption DEF LocalOK
    <3> QED
      BY <2>1, <3>1
  <2> QED
    BY <2>1, <2>2, <2>3, <2>4
<1> QED
  BY <1>0, <1>1, <1>2 DEF TypeOK, LocalOK, PCs

(* In either build every word keeps its type: the arrays a bucket has had   *)
(* are within kCellCountLimit, the version numbers are bounded by the calls *)
(* that write, and what a search has chosen is a place of its array.        *)
THEOREM SharedTypes == Spec => []TypeOK
  BY TypeCorrect, TypeInvTypes, PTL

(* A record that can be found is never overwritten where it lies, in either *)
(* build and whoever writes what: insertSlot asks again in the lock.        *)
THEOREM SharedNeverOverwrites == Spec => NeverOverwrites
<1> DEFINE Keeps == \A p \in Positions(cells[Address]) :
                      Valid(cells[Address], p) =>
                        Content(cells'[Address], p) = Content(cells[Address], p)
<1>1. TypeInv /\ [Next]_vars => [Keeps]_vars
  <2> SUFFICES ASSUME TypeInv, Next PROVE Keeps
    OBVIOUS
  <2>0. ArraysOK /\ LocalOK /\ \A t \in Threads : ThreadOK(t)
    BY DEF TypeInv
  <2>1. PICK t \in Threads : Step(t)
    BY DEF Next
  <2>2. build' = build /\ ThreadOK(t)
    BY <2>0, <2>1, Framed DEF Frame
  <2>3. Quiet \/ Erase(t) \/ Publish(t) \/ Storing(t) \/ Growing(t)
    BY <2>0, <2>1, Changes
  <2>4. /\ Address \in 1..Address /\ cells[Address] \in Bucket(CellCount(Address))
        /\ \A e \in 0..(CellCount(Address) - 1) : HoldsRecords(cells[Address][e])
    BY <2>0 DEF ArraysOK
  <2>5. DOMAIN cells[Address] = 0..(CellCount(Address) - 1)
        /\ \A c \in 0..(CellCount(Address) - 1) : cells[Address][c] \in Cell
    BY <2>4 DEF Bucket
  (* A write of one cell that keeps its valid slots.                        *)
  <2>6. ASSUME NEW c, NEW x, Wrote(c, x),
               \A i \in ValidBitSet(cells[Address][c]) : x.slot[i] = cells[Address][c].slot[i]
        PROVE  Keeps
    <3>1. \A e \in 0..(CellCount(Address) - 1) :
            cells'[Address][e] = IF e = c THEN x ELSE cells[Address][e]
      BY <2>5, <2>6 DEF Wrote
    <3> QED
      BY <2>5, <2>6, <3>1 DEF Positions, Valid, Content
  <2>7. CASE Quiet
    BY <2>7 DEF Quiet
  <2>8. CASE Erase(t)
    <3>1. /\ Wrote(target[t].cell, EraseSlot(cells[Address][target[t].cell], target[t].slot))
          /\ TargetOK(cells[Address], CellCount(Address), target[t])
      BY <2>0, <2>2, <2>8, EraseWrites
    <3>2. cells[Address][target[t].cell] \in Cell
      BY <3>1, <2>5 DEF Wrote
    <3>3. EraseSlot(cells[Address][target[t].cell], target[t].slot).slot
            = cells[Address][target[t].cell].slot
      BY <3>2 DEF EraseSlot, Cell
    <3> QED
      BY <3>1, <3>3, <2>6
  <2>9. CASE Publish(t)
    <3>1. Wrote(target[t].cell, NewVersion(cells[Address][target[t].cell], target[t]))
      BY <2>0, <2>2, <2>9, PublishWrites
    <3>2. cells[Address][target[t].cell] \in Cell
      BY <3>1, <2>5 DEF Wrote
    <3>3. NewVersion(cells[Address][target[t].cell], target[t]).slot
            = cells[Address][target[t].cell].slot
      BY <3>2 DEF NewVersion, Cell
    <3> QED
      BY <3>1, <3>3, <2>6
  <2>10. CASE Storing(t)
    <3>1. PICK c \in 0..(CellCount(Address) - 1), i \in Slots, old \in Slots \cup {None} :
            /\ op[t].kind = "put" /\ pc[t] = "lock" /\ Store(t, c, i, old)
            /\ i \notin ValidBitSet(cells[Address][c])
      BY <2>10 DEF Storing
    <3>2. Wrote(c, SlotSet(cells[Address][c], i, rec(t))) /\ rec(t) \in Record
      BY <2>0, <2>1, <2>2, <3>1, StoreWrites
    <3>3. cells[Address][c] \in Cell /\ HoldsRecords(cells[Address][c])
      BY <2>4, <2>5
    <3>4. \A j \in Slots \ {i} :
            SlotSet(cells[Address][c], i, rec(t)).slot[j] = cells[Address][c].slot[j]
      BY <3>2, <3>3, SlotSetCell
    <3>5. ValidBitSet(cells[Address][c]) \subseteq Slots \ {i}
      BY <3>1, <3>3 DEF ValidBitSet, Cell
    <3> QED
      BY <3>2, <3>4, <3>5, <2>6
  <2>11. CASE Growing(t)
    <3>1. cells'[Address] = cells[Address]
      BY <2>0, <2>2, <2>4, <2>11, CellsGrown DEF Growing, LocalOK
    <3> QED
      BY <3>1 DEF Content
  <2> QED
    BY <2>3, <2>7, <2>8, <2>9, <2>10, <2>11
<1> QED
  BY <1>1, TypeCorrect, PTL DEF Spec, NeverOverwrites

-----------------------------------------------------------------------------
(* What a search knows of its key, as long as nobody else writes that key.  *)

NoneHere(b, n, k) == \A c \in 0..(n - 1) : MatchBitSet(b[c], k) = {}

(* The cells before distance d are full, and the key is in none of them.    *)
Passed(b, n, k, d) ==
  \A e \in 0..(d - 1) :
    Full(b[ProbeCell(k, n, e)]) /\ MatchBitSet(b[ProbeCell(k, n, e)], k) = {}

OnWay(b, n, k, c) == \E d \in Visited(b, n, k) : c = ProbeCell(k, n, d)

(* If the key is anywhere, it is not beyond distance d.                     *)
LiesBy(b, n, k, d) ==
  \A c \in 0..(n - 1) :
    MatchBitSet(b[c], k) # {} => \E e \in 0..d : c = ProbeCell(k, n, e)

Matches(v, c, k) == {i \in ValidBitSet(v) : c.slot[i].key = k}

(* The copy v of the version word tells the truth about the key.            *)
Seen(b, n, k, d, v) ==
  /\ Matches(v, b[ProbeCell(k, n, d)], k) = MatchBitSet(b[ProbeCell(k, n, d)], k)
  /\ Full(v) => Full(b[ProbeCell(k, n, d)])
  /\ ~Full(v) => LiesBy(b, n, k, d)

SameKey(b, n, b2, m, k) == \A r : r.key = k => (Holds(b, n, r) <=> Holds(b2, m, r))

TargetRight(b, n, k, p) ==
  /\ OnWay(b, n, k, p.cell)
  /\ p.old # None => p.old \in MatchBitSet(b[p.cell], k)
  /\ p.old = None => NoneHere(b, n, k)

GoodArray(b, n) ==
  /\ \A c \in 0..(n - 1) : CellSound(b[c])
  /\ UniqueKeys(b, n) /\ OnPath(b, n)

(* A change from b to b2 that is none of the business of key k.             *)
Spares(b, b2, n, k) ==
  \A c \in 0..(n - 1) :
    /\ MatchBitSet(b2[c], k) = MatchBitSet(b[c], k)
    /\ Full(b[c]) => Full(b2[c])
    /\ \A i \in Slots :
         \/ b2[c].slot[i] = b[c].slot[i]
         \/ i \notin ValidBitSet(b[c]) /\ b2[c].slot[i].key # k

LEMMA ValidInSlots ==
  ASSUME NEW n, NEW b \in Bucket(n), NEW c \in 0..(n - 1)
  PROVE  ValidBitSet(b[c]) \subseteq Slots
  BY DEF Bucket, Cell, ValidBitSet

LEMMA SparesNothing ==
  ASSUME NEW n, NEW b, NEW k
  PROVE  Spares(b, b, n, k) /\ SameKey(b, n, b, n, k)
  BY DEF Spares, SameKey

LEMMA SparesSame ==
  ASSUME NEW n \in Nat \ {0}, NEW b \in Bucket(n), NEW b2 \in Bucket(n), NEW k,
         Spares(b, b2, n, k)
  PROVE  SameKey(b, n, b2, n, k)
<1>1. ASSUME NEW c \in 0..(n - 1), NEW i \in MatchBitSet(b[c], k)
      PROVE  i \in MatchBitSet(b2[c], k) /\ b2[c].slot[i] = b[c].slot[i]
  <2>1. i \in ValidBitSet(b[c]) /\ i \in Slots
    BY <1>1, ValidInSlots DEF MatchBitSet
  <2> QED
    BY <2>1 DEF Spares
<1>2. ASSUME NEW r, r.key = k, Holds(b, n, r) PROVE Holds(b2, n, r)
  <2>1. PICK c \in 0..(n - 1) : \E i \in ValidBitSet(b[c]) : b[c].slot[i] = r
    BY <1>2 DEF Holds
  <2>2. PICK i \in ValidBitSet(b[c]) : b[c].slot[i] = r
    BY <2>1
  <2>3. i \in MatchBitSet(b[c], k)
    BY <1>2, <2>2 DEF MatchBitSet
  <2>4. i \in ValidBitSet(b2[c]) /\ b2[c].slot[i] = r
    BY <1>1, <2>2, <2>3 DEF MatchBitSet
  <2> QED
    BY <2>4 DEF Holds
<1>3. ASSUME NEW r, r.key = k, Holds(b2, n, r) PROVE Holds(b, n, r)
  <2>1. PICK c \in 0..(n - 1) : \E i \in ValidBitSet(b2[c]) : b2[c].slot[i] = r
    BY <1>3 DEF Holds
  <2>2. PICK i \in ValidBitSet(b2[c]) : b2[c].slot[i] = r
    BY <2>1
  <2>3. i \in MatchBitSet(b2[c], k)
    BY <1>3, <2>2 DEF MatchBitSet
  <2>4. i \in MatchBitSet(b[c], k)
    BY <2>3 DEF Spares
  <2>5. i \in ValidBitSet(b[c]) /\ b[c].slot[i] = r
    BY <1>1, <2>2, <2>4 DEF MatchBitSet
  <2> QED
    BY <2>5 DEF Holds
<1> QED
  BY <1>2, <1>3 DEF SameKey

LEMMA TargetKept ==
  ASSUME NEW n \in Nat \ {0}, NEW b, NEW b2, NEW k \in Keys,
         \A c \in 0..(n - 1) :
           /\ MatchBitSet(b2[c], k) = MatchBitSet(b[c], k)
           /\ Full(b[c]) => Full(b2[c])
  PROVE  /\ NoneHere(b, n, k) => NoneHere(b2, n, k)
         /\ \A c : OnWay(b, n, k, c) => OnWay(b2, n, k, c) /\ c \in 0..(n - 1)
         /\ \A p : TargetRight(b, n, k, p) => TargetRight(b2, n, k, p)
<1>1. \A d \in ProbeDist(n) : ProbeCell(k, n, d) \in 0..(n - 1)
  BY ProbeInBucket, ProbeAssumption DEF ProbeDist
<1>2. NoneHere(b, n, k) => NoneHere(b2, n, k)
  BY DEF NoneHere
<1>3. ASSUME NEW c, OnWay(b, n, k, c) PROVE OnWay(b2, n, k, c) /\ c \in 0..(n - 1)
  <2>1. Visited(b, n, k) \subseteq Visited(b2, n, k)
    BY VisitedGrows
  <2>2. Visited(b, n, k) \subseteq ProbeDist(n)
    BY DEF Visited
  <2> QED
    BY <2>1, <2>2, <1>1, <1>3 DEF OnWay
<1>4. ASSUME NEW p, TargetRight(b, n, k, p) PROVE TargetRight(b2, n, k, p)
  <2>1. OnWay(b2, n, k, p.cell) /\ p.cell \in 0..(n - 1)
    BY <1>3, <1>4 DEF TargetRight
  <2> QED
    BY <2>1, <1>2, <1>4 DEF TargetRight
<1> QED
  BY <1>2, <1>3, <1>4

LEMMA SparesSearch ==
  ASSUME NEW n \in Nat \ {0}, NEW b \in Bucket(n), NEW b2 \in Bucket(n), NEW k \in Keys,
         Spares(b, b2, n, k)
  PROVE  /\ NoneHere(b, n, k) => NoneHere(b2, n, k)
         /\ \A c : OnWay(b, n, k, c) => OnWay(b2, n, k, c)
         /\ \A p : TargetRight(b, n, k, p) => TargetRight(b2, n, k, p)
         /\ \A d \in ProbeDist(n) : Passed(b, n, k, d) => Passed(b2, n, k, d)
         /\ \A d \in ProbeDist(n) : \A v :
              ValidBitSet(v) \subseteq Slots /\ Seen(b, n, k, d, v) => Seen(b2, n, k, d, v)
<1>1. \A c \in 0..(n - 1) :
        /\ MatchBitSet(b2[c], k) = MatchBitSet(b[c], k)
        /\ Full(b[c]) => Full(b2[c])
  BY DEF Spares
<1>2. \A d \in Nat : ProbeCell(k, n, d) \in 0..(n - 1)
  BY ProbeInBucket
<1>3. ProbeDist(n) \subseteq Nat
  BY ProbeAssumption DEF ProbeDist
<1>4. /\ NoneHere(b, n, k) => NoneHere(b2, n, k)
      /\ \A c : OnWay(b, n, k, c) => OnWay(b2, n, k, c)
      /\ \A p : TargetRight(b, n, k, p) => TargetRight(b2, n, k, p)
  BY <1>1, TargetKept
<1>5. ASSUME NEW d \in ProbeDist(n), Passed(b, n, k, d) PROVE Passed(b2, n, k, d)
  <2>1. \A e \in 0..(d - 1) : ProbeCell(k, n, e) \in 0..(n - 1)
    BY <1>2
  <2> QED
    BY <2>1, <1>1, <1>5 DEF Passed
<1>8. ASSUME NEW d \in ProbeDist(n), NEW v, ValidBitSet(v) \subseteq Slots,
             Seen(b, n, k, d, v)
      PROVE  Seen(b2, n, k, d, v)
  <2> DEFINE c == ProbeCell(k, n, d)
  <2>1. c \in 0..(n - 1)
    BY <1>2, <1>3
  <2>2. Matches(v, b2[c], k) = MatchBitSet(b2[c], k)
    <3>1. ASSUME NEW i \in Matches(v, b[c], k) PROVE i \in Matches(v, b2[c], k)
      <4>1. i \in ValidBitSet(v) /\ i \in Slots /\ b[c].slot[i].key = k
        BY <1>8, <3>1 DEF Matches
      <4>2. i \in ValidBitSet(b[c])
        BY <1>8, <3>1 DEF Seen, MatchBitSet
      <4>3. b2[c].slot[i] = b[c].slot[i]
        BY <2>1, <4>1, <4>2 DEF Spares
      <4> QED
        BY <4>1, <4>3 DEF Matches
    <3>2. ASSUME NEW i \in Matches(v, b2[c], k) PROVE i \in Matches(v, b[c], k)
      <4>1. i \in ValidBitSet(v) /\ i \in Slots /\ b2[c].slot[i].key = k
        BY <1>8, <3>2 DEF Matches
      <4>2. b2[c].slot[i] = b[c].slot[i]
        BY <2>1, <4>1 DEF Spares
      <4> QED
        BY <4>1, <4>2 DEF Matches
    <3> QED
      BY <3>1, <3>2, <2>1, <1>1, <1>8 DEF Seen
  <2>3. LiesBy(b, n, k, d) => LiesBy(b2, n, k, d)
    BY <1>1 DEF LiesBy
  <2> QED
    BY <2>1, <2>2, <2>3, <1>1, <1>8 DEF Seen
<1> QED
  BY <1>4, <1>5, <1>8

(* The key is on its path: a search that copies the word of a cell, and one *)
(* that ends with nothing found, conclude rightly.                          *)
LEMMA CopySeen ==
  ASSUME NEW n \in Nat \ {0}, NEW b \in Bucket(n), NEW k \in Keys, OnPath(b, n),
         NEW d \in ProbeDist(n), NEW v,
         v.bitmap = b[ProbeCell(k, n, d)].bitmap, v.deleted = b[ProbeCell(k, n, d)].deleted
  PROVE  Seen(b, n, k, d, v)
<1> DEFINE c == ProbeCell(k, n, d)
<1>0. ProbeDist(n) \subseteq Nat
  BY ProbeAssumption DEF ProbeDist
<1>1. ValidBitSet(v) = ValidBitSet(b[c]) /\ (Full(v) <=> Full(b[c]))
  BY DEF ValidBitSet, Full
<1>2. ASSUME ~Full(b[c]), NEW e \in 0..(n - 1), NEW i \in MatchBitSet(b[e], k)
      PROVE  \E f \in 0..d : e = ProbeCell(k, n, f)
  <2>1. i \in ValidBitSet(b[e]) /\ b[e].slot[i].key = k
    BY <1>2 DEF MatchBitSet
  <2>2. PICK f \in Visited(b, n, k) : ProbeCell(k, n, f) = e
    BY <2>1 DEF OnPath
  <2>3. f \in Nat /\ d \in Nat /\ \A g \in 0..(f - 1) : Full(b[ProbeCell(k, n, g)])
    BY <2>2, <1>0 DEF Visited
  <2>4. ~(d \in 0..(f - 1))
    BY <2>3, <1>2
  <2> QED
    BY <2>2, <2>3, <2>4
<1>3. ~Full(v) => LiesBy(b, n, k, d)
  BY <1>1, <1>2 DEF LiesBy
<1> QED
  BY <1>1, <1>3 DEF Seen, Matches, MatchBitSet

LEMMA EndOfPath ==
  ASSUME NEW n \in Nat \ {0}, NEW b \in Bucket(n), NEW k \in Keys, OnPath(b, n),
         NEW d \in ProbeDist(n), NEW v, Passed(b, n, k, d), Seen(b, n, k, d, v),
         Matches(v, b[ProbeCell(k, n, d)], k) = {},
         ~Full(v) \/ d + 1 \notin ProbeDist(n)
  PROVE  NoneHere(b, n, k)
<1>0. ProbeDist(n) \subseteq Nat /\ d \in Nat
  BY ProbeAssumption DEF ProbeDist
<1>1. ASSUME NEW c \in 0..(n - 1), NEW i \in MatchBitSet(b[c], k)
      PROVE  \E e \in 0..d : c = ProbeCell(k, n, e)
  <2>1. CASE ~Full(v)
    BY <2>1, <1>1 DEF Seen, LiesBy
  <2>2. CASE d + 1 \notin ProbeDist(n)
    <3>1. i \in ValidBitSet(b[c]) /\ b[c].slot[i].key = k
      BY <1>1 DEF MatchBitSet
    <3>2. PICK f \in Visited(b, n, k) : ProbeCell(k, n, f) = c
      BY <3>1 DEF OnPath
    <3>3. f \in Nat /\ f <= MaxProbeLen - 1 /\ f < n
      BY <3>2, <1>0, ProbeAssumption DEF Visited, ProbeDist
    <3>4. ~(d + 1 <= MaxProbeLen - 1 /\ d + 1 < n)
      BY <2>2, <1>0, ProbeAssumption DEF ProbeDist
    <3>5. f \in 0..d
      BY <3>3, <3>4, <1>0, ProbeAssumption
    <3> QED
      BY <3>2, <3>5
  <2> QED
    BY <2>1, <2>2
<1>2. \A e \in 0..d : MatchBitSet(b[ProbeCell(k, n, e)], k) = {}
  <2>1. MatchBitSet(b[ProbeCell(k, n, d)], k) = {}
    BY DEF Seen
  <2>2. \A e \in 0..d : e = d \/ e \in 0..(d - 1)
    BY <1>0
  <2> QED
    BY <2>1, <2>2 DEF Passed
<1> QED
  BY <1>1, <1>2 DEF NoneHere

LEMMA PassedOnWay ==
  ASSUME NEW n, NEW b, NEW k, NEW d \in ProbeDist(n), Passed(b, n, k, d)
  PROVE  OnWay(b, n, k, ProbeCell(k, n, d))
  BY DEF OnWay, Visited, Passed

LEMMA PassOne ==
  ASSUME NEW n \in Nat \ {0}, NEW b, NEW k, NEW d \in ProbeDist(n), NEW v,
         Passed(b, n, k, d), Seen(b, n, k, d, v),
         Matches(v, b[ProbeCell(k, n, d)], k) = {}, Full(v)
  PROVE  Passed(b, n, k, d + 1)
<1>1. d \in Nat
  BY ProbeAssumption DEF ProbeDist
<1>2. \A e \in 0..((d + 1) - 1) : e = d \/ e \in 0..(d - 1)
  BY <1>1
<1> QED
  BY <1>2 DEF Passed, Seen

(* The same key in two arrays.                                              *)
LEMMA NoneSame ==
  ASSUME NEW n, NEW b \in Bucket(n), NEW m, NEW b2 \in Bucket(m), NEW k,
         SameKey(b, n, b2, m, k), NoneHere(b, n, k)
  PROVE  NoneHere(b2, m, k)
<1> SUFFICES ASSUME NEW c \in 0..(m - 1), NEW i \in MatchBitSet(b2[c], k)
             PROVE  FALSE
  BY DEF NoneHere
<1>1. i \in ValidBitSet(b2[c]) /\ b2[c].slot[i].key = k
  BY DEF MatchBitSet
<1>2. Holds(b2, m, b2[c].slot[i])
  BY <1>1 DEF Holds
<1>3. Holds(b, n, b2[c].slot[i])
  BY <1>1, <1>2 DEF SameKey
<1> QED
  BY <1>1, <1>3 DEF Holds, NoneHere, MatchBitSet

-----------------------------------------------------------------------------
(* The writes to a cell, and what they do to the keys.                      *)

LEMMA WriteSpares ==
  ASSUME NEW n \in Nat \ {0}, NEW b \in Bucket(n), NEW c \in 0..(n - 1), NEW x, NEW k,
         MatchBitSet(x, k) = MatchBitSet(b[c], k), Full(b[c]) => Full(x),
         \A i \in Slots : \/ x.slot[i] = b[c].slot[i]
                          \/ i \notin ValidBitSet(b[c]) /\ x.slot[i].key # k
  PROVE  Spares(b, [b EXCEPT ![c] = x], n, k)
<1> DEFINE b2 == [b EXCEPT ![c] = x]
<1>1. b2[c] = x /\ \A e \in 0..(n - 1) : e # c => b2[e] = b[e]
  BY DEF Bucket
<1> HIDE DEF b2
<1>2. Spares(b, b2, n, k)
  BY <1>1 DEF Spares
<1> QED
  BY <1>2 DEF b2

LEMMA SlotSetKeeps ==
  ASSUME NEW c \in Cell, HoldsRecords(c), NEW i \in Slots, i \notin ValidBitSet(c),
         NEW r \in Record
  PROVE  LET x == SlotSet(c, i, r) IN
         /\ ValidBitSet(x) = ValidBitSet(c) /\ (Full(x) <=> Full(c))
         /\ CellSound(c) => CellSound(x)
         /\ \A k : MatchBitSet(x, k) = MatchBitSet(c, k)
         /\ \A j \in ValidBitSet(c) : x.slot[j] = c.slot[j]
         /\ \A j \in Slots : x.slot[j] = c.slot[j]
                              \/ (j \notin ValidBitSet(c) /\ x.slot[j] = r)
<1> DEFINE x == SlotSet(c, i, r)
<1>1. /\ x.bitmap = c.bitmap /\ x.deleted = c.deleted /\ x.slot[i] = r
      /\ \A j \in Slots \ {i} : x.slot[j] = c.slot[j]
  BY SlotSetCell
<1> HIDE DEF x
<1>2. /\ ValidBitSet(x) = ValidBitSet(c) /\ (Full(x) <=> Full(c))
      /\ CellSound(c) => CellSound(x)
  BY <1>1 DEF ValidBitSet, Full, CellSound
<1>3. ValidBitSet(c) \subseteq Slots \ {i}
  BY DEF ValidBitSet, Cell
<1>4. \A j \in ValidBitSet(c) : x.slot[j] = c.slot[j]
  BY <1>1, <1>3
<1>5. \A k : MatchBitSet(x, k) = MatchBitSet(c, k)
  BY <1>2, <1>4 DEF MatchBitSet
<1>6. \A j \in Slots : x.slot[j] = c.slot[j]
                        \/ (j \notin ValidBitSet(c) /\ x.slot[j] = r)
  BY <1>1
<1> QED
  BY <1>2, <1>4, <1>5, <1>6 DEF x

LEMMA NewVersionKeeps ==
  ASSUME NEW c \in Cell, NEW p, p.slot \in Slots, p.slot \notin ValidBitSet(c),
         p.old # None => p.old \in ValidBitSet(c)
  PROVE  LET x == NewVersion(c, p) IN
         /\ x.slot = c.slot
         /\ p.old = None => ValidBitSet(x) = ValidBitSet(c) \cup {p.slot}
         /\ p.old # None => ValidBitSet(x) = (ValidBitSet(c) \cup {p.slot}) \ {p.old}
<1> DEFINE x == NewVersion(c, p)
<1>1. /\ x.slot = c.slot /\ x.deleted = c.deleted \ {p.slot}
      /\ x.bitmap = IF p.old = None THEN c.bitmap \cup {p.slot}
                    ELSE Toggle(c.bitmap \cup {p.slot}, p.old)
  BY DEF NewVersion, Cell
<1> HIDE DEF x
<1>2. p.old = None => ValidBitSet(x) = ValidBitSet(c) \cup {p.slot}
  BY <1>1 DEF ValidBitSet
<1>3. ASSUME p.old # None PROVE ValidBitSet(x) = (ValidBitSet(c) \cup {p.slot}) \ {p.old}
  <2>1. p.old \in c.bitmap /\ p.old \notin c.deleted /\ p.old # p.slot
    BY <1>3 DEF ValidBitSet
  <2>2. x.bitmap = (c.bitmap \cup {p.slot}) \ {p.old}
    BY <2>1, <1>1, <1>3 DEF Toggle
  <2> QED
    BY <2>1, <2>2, <1>1 DEF ValidBitSet
<1> QED
  BY <1>1, <1>2, <1>3 DEF x

LEMMA StoreGood ==
  ASSUME NEW n \in Nat \ {0}, NEW b \in Bucket(n), \A e \in 0..(n - 1) : HoldsRecords(b[e]),
         GoodArray(b, n), NEW c \in 0..(n - 1), NEW i \in Slots, i \notin ValidBitSet(b[c]),
         NEW r \in Record
  PROVE  LET b2 == [b EXCEPT ![c] = SlotSet(b[c], i, r)] IN
         /\ GoodArray(b2, n)
         /\ \A k : k # r.key => Spares(b, b2, n, k)
         /\ \A k : SameKey(b, n, b2, n, k)
         /\ \A k \in Keys : \A p : TargetRight(b, n, k, p) => TargetRight(b2, n, k, p)
<1> DEFINE x == SlotSet(b[c], i, r)
           b2 == [b EXCEPT ![c] = x]
<1>1. b[c] \in Cell /\ CellSound(b[c]) /\ HoldsRecords(b[c])
  BY DEF Bucket, GoodArray
<1>2. x \in Cell /\ HoldsRecords(x)
  BY <1>1, SlotSetCell
<1>3. /\ ValidBitSet(x) = ValidBitSet(b[c]) /\ (Full(x) <=> Full(b[c]))
      /\ CellSound(x)
      /\ \A k : MatchBitSet(x, k) = MatchBitSet(b[c], k)
      /\ \A j \in ValidBitSet(b[c]) : x.slot[j] = b[c].slot[j]
      /\ \A j \in Slots : x.slot[j] = b[c].slot[j]
                           \/ (j \notin ValidBitSet(b[c]) /\ x.slot[j] = r)
  BY <1>1, SlotSetKeeps
<1> HIDE DEF x
<1>4. b2[c] = x /\ \A e \in 0..(n - 1) : e # c => b2[e] = b[e]
  BY DEF Bucket
<1>5. b2 \in Bucket(n)
  BY <1>2 DEF Bucket
<1>6. OnPath(b2, n)
  <2>1. SoundBucket(b, n)
    BY DEF SoundBucket, GoodArray
  <2> QED
    BY <2>1, <1>2, <1>3, WriteKeepsPaths DEF GoodArray
<1>7. UniqueKeys(b2, n)
  BY <1>2, <1>3, WriteKeepsUnique DEF GoodArray
<1>8. \A e \in 0..(n - 1) : CellSound(b2[e])
  BY <1>3, <1>4 DEF GoodArray
<1>9. \A k : k # r.key => Spares(b, b2, n, k)
  BY <1>3, WriteSpares
<1> HIDE DEF b2
<1>10. \A e \in 0..(n - 1) : \A k :
         MatchBitSet(b2[e], k) = MatchBitSet(b[e], k) /\ (Full(b[e]) => Full(b2[e]))
  BY <1>3, <1>4
<1>11. \A k \in Keys : \A p : TargetRight(b, n, k, p) => TargetRight(b2, n, k, p)
  BY <1>10, TargetKept
<1>12. \A e \in 0..(n - 1) :
         /\ ValidBitSet(b2[e]) = ValidBitSet(b[e])
         /\ \A j \in ValidBitSet(b[e]) : b2[e].slot[j] = b[e].slot[j]
  BY <1>3, <1>4
<1>13. \A k : SameKey(b, n, b2, n, k)
  BY <1>12 DEF SameKey, Holds
<1> QED
  BY <1>6, <1>7, <1>8, <1>9, <1>11, <1>13 DEF GoodArray, b2, x

LEMMA EraseGood ==
  ASSUME NEW n \in Nat \ {0}, NEW b \in Bucket(n), \A e \in 0..(n - 1) : HoldsRecords(b[e]),
         GoodArray(b, n), NEW c \in 0..(n - 1), NEW k, NEW i \in MatchBitSet(b[c], k)
  PROVE  LET x == EraseSlot(b[c], i)
             b2 == [b EXCEPT ![c] = x]
         IN  /\ CellSound(x) /\ (Full(b[c]) => Full(x))
             /\ GoodArray(b2, n) /\ NoneHere(b2, n, k)
             /\ \A kk : kk # k => Spares(b, b2, n, kk)
<1> DEFINE x == EraseSlot(b[c], i)
           b2 == [b EXCEPT ![c] = x]
<1>1. b[c] \in Cell /\ CellSound(b[c]) /\ HoldsRecords(b[c])
  BY DEF Bucket, GoodArray
<1>2. i \in Slots /\ i \in ValidBitSet(b[c]) /\ b[c].slot[i].key = k
  BY ValidInSlots DEF MatchBitSet
<1>3. /\ x \in Cell /\ CellSound(x) /\ HoldsRecords(x)
      /\ Full(b[c]) => Full(x)
      /\ ValidBitSet(x) = ValidBitSet(b[c]) \ {i}
      /\ x.slot = b[c].slot
  BY <1>1, <1>2, EraseSound
<1> HIDE DEF x
<1>4. b2[c] = x /\ \A e \in 0..(n - 1) : e # c => b2[e] = b[e]
  BY DEF Bucket
<1>5. OnPath(b2, n)
  <2>1. SoundBucket(b, n)
    BY DEF SoundBucket, GoodArray
  <2> QED
    BY <2>1, <1>3, WriteKeepsPaths DEF GoodArray
<1>6. UniqueKeys(b2, n)
  BY <1>2, <1>3, WriteKeepsUnique DEF GoodArray
<1>7. \A e \in 0..(n - 1) : CellSound(b2[e])
  BY <1>3, <1>4 DEF GoodArray
<1>8. ASSUME NEW kk, kk # k PROVE Spares(b, b2, n, kk)
  <2>1. MatchBitSet(x, kk) = MatchBitSet(b[c], kk)
    BY <1>2, <1>3, <1>8 DEF MatchBitSet
  <2> QED
    BY <2>1, <1>3, WriteSpares
<1> HIDE DEF b2
<1>9. NoneHere(b2, n, k)
  <2> SUFFICES ASSUME NEW e \in 0..(n - 1), NEW j \in MatchBitSet(b2[e], k)
               PROVE  FALSE
    BY DEF NoneHere
  <2>1. j \in ValidBitSet(b[e]) /\ b[e].slot[j].key = k /\ ~(e = c /\ j = i)
    BY <1>3, <1>4 DEF MatchBitSet
  <2> QED
    BY <2>1, <1>2 DEF GoodArray, UniqueKeys
<1> QED
  BY <1>3, <1>5, <1>6, <1>7, <1>8, <1>9 DEF GoodArray, b2, x

LEMMA PublishGood ==
  ASSUME NEW n \in Nat \ {0}, NEW b \in Bucket(n), \A e \in 0..(n - 1) : HoldsRecords(b[e]),
         GoodArray(b, n), NEW k \in Keys, NEW p, TargetRight(b, n, k, p),
         p.cell \in 0..(n - 1), p.slot \in Slots, p.slot \notin ValidBitSet(b[p.cell]),
         b[p.cell].slot[p.slot].key = k,
         NewVersion(b[p.cell], p) \in Cell, HoldsRecords(NewVersion(b[p.cell], p)),
         CellSound(NewVersion(b[p.cell], p)),
         Full(b[p.cell]) => Full(NewVersion(b[p.cell], p))
  PROVE  LET b2 == [b EXCEPT ![p.cell] = NewVersion(b[p.cell], p)] IN
         /\ GoodArray(b2, n) /\ Holds(b2, n, b[p.cell].slot[p.slot])
         /\ \A kk : kk # k => Spares(b, b2, n, kk)
<1> DEFINE c == p.cell
           i == p.slot
           x == NewVersion(b[c], p)
           b2 == [b EXCEPT ![c] = x]
<1>1. b[c] \in Cell
  BY DEF Bucket
<1>2. p.old # None => p.old \in MatchBitSet(b[c], k)
  BY DEF TargetRight
<1>3. /\ x.slot = b[c].slot
      /\ p.old = None => ValidBitSet(x) = ValidBitSet(b[c]) \cup {i}
      /\ p.old # None => ValidBitSet(x) = (ValidBitSet(b[c]) \cup {i}) \ {p.old}
  <2>1. p.old # None => p.old \in ValidBitSet(b[c])
    BY <1>2 DEF MatchBitSet
  <2> QED
    BY <2>1, <1>1, NewVersionKeeps
<1>4. x \in Cell /\ HoldsRecords(x) /\ CellSound(x) /\ (Full(b[c]) => Full(x))
  OBVIOUS
<1>5. c \in 0..(n - 1) /\ i \in Slots /\ i \notin ValidBitSet(b[c]) /\ x.slot[i].key = k
  BY <1>3
<1> HIDE DEF x, c, i
<1>6. b2[c] = x /\ \A e \in 0..(n - 1) : e # c => b2[e] = b[e]
  BY <1>5 DEF Bucket
<1>7. i \in ValidBitSet(x)
  BY <1>2, <1>3, <1>5 DEF MatchBitSet
<1>8. \A j \in ValidBitSet(x) : j = i \/ (j \in ValidBitSet(b[c]) /\ x.slot[j] = b[c].slot[j])
  BY <1>3
<1>9. OnPath(b2, n)
  <2>1. SoundBucket(b, n) /\ OnPath(b, n)
    BY DEF SoundBucket, GoodArray
  <2>2. \E d \in Visited(b, n, k) : ProbeCell(k, n, d) = c
    BY DEF TargetRight, OnWay, c
  <2>3. \A j \in ValidBitSet(x) :
          \/ j \in ValidBitSet(b[c]) /\ x.slot[j] = b[c].slot[j]
          \/ \E d \in Visited(b, n, x.slot[j].key) : ProbeCell(x.slot[j].key, n, d) = c
    BY <2>2, <1>5, <1>8
  <2> QED
    BY <2>1, <2>3, <1>4, <1>5, WriteKeepsPaths
<1>10. /\ \A j \in ValidBitSet(x) : x.slot[j].key = k => j = i
       /\ \A e \in (0..(n - 1)) \ {c} : \A j \in ValidBitSet(b[e]) : b[e].slot[j].key # k
  <2>1. CASE p.old = None
    <3>1. NoneHere(b, n, k)
      BY <2>1 DEF TargetRight
    <3>2. \A e \in 0..(n - 1) : \A j \in ValidBitSet(b[e]) : b[e].slot[j].key # k
      BY <3>1 DEF NoneHere, MatchBitSet
    <3> QED
      BY <3>2, <1>5, <1>8
  <2>2. CASE p.old # None
    <3>1. p.old \in ValidBitSet(b[c]) /\ b[c].slot[p.old].key = k
      BY <2>2, <1>2 DEF MatchBitSet
    <3>2. \A e \in 0..(n - 1) : \A j \in ValidBitSet(b[e]) :
            b[e].slot[j].key = k => e = c /\ j = p.old
      BY <3>1, <1>5 DEF GoodArray, UniqueKeys
    <3>3. p.old \notin ValidBitSet(x)
      BY <2>2, <1>3
    <3> QED
      BY <3>2, <3>3, <1>5, <1>8
  <2> QED
    BY <2>1, <2>2
<1>11. UniqueKeys(b2, n)
  BY <1>4, <1>5, <1>8, <1>10, WriteKeepsUnique DEF GoodArray
<1>12. \A e \in 0..(n - 1) : CellSound(b2[e])
  BY <1>4, <1>6 DEF GoodArray
<1>13. ASSUME NEW kk, kk # k PROVE Spares(b, b2, n, kk)
  <2>1. MatchBitSet(x, kk) = MatchBitSet(b[c], kk)
    <3>1. \A j : j \in ValidBitSet(x) /\ x.slot[j].key = kk => j # i
      BY <1>5, <1>13
    <3>2. \A j : j \in ValidBitSet(b[c]) /\ b[c].slot[j].key = kk => j \in ValidBitSet(x)
      BY <1>2, <1>3, <1>13 DEF MatchBitSet
    <3> QED
      BY <3>1, <3>2, <1>3, <1>8 DEF MatchBitSet
  <2> QED
    BY <2>1, <1>3, <1>4, <1>5, WriteSpares
<1>14. Holds(b2, n, b[c].slot[i])
  BY <1>3, <1>5, <1>6, <1>7 DEF Holds
<1> QED
  BY <1>9, <1>11, <1>12, <1>13, <1>14 DEF GoodArray, x, c, i

-----------------------------------------------------------------------------
(* One thread writes a key.                                                 *)

OneWriter == \A k \in Keys : \A t, u \in Writers[k] : t = u

(* What thread t knows without a look at the cells.                         *)
View(t) ==
  [pc |-> pc[t], op |-> op[t], dist |-> at[t].dist, copy |-> copy[t],
   insert |-> insert[t], target |-> target[t], got |-> got[t]]

SearchRight(v, b, n, b2, m, k) ==
  /\ SameKey(b, n, b2, m, k)
  /\ Passed(b, n, k, v.dist)
  /\ v.insert # None => OnWay(b, n, k, v.insert.cell)
  /\ v.pc = "compare" => Seen(b, n, k, v.dist, v.copy)
  /\ v.pc = "check" /\ v.op.kind = "find" => Holds(b, n, [key |-> k, val |-> v.got])
  /\ v.pc = "lock" /\ v.op.kind = "delete" =>
       v.target.slot \in MatchBitSet(b[v.target.cell], k)
  /\ v.pc \in {"check", "lock"} /\ v.op.kind = "put" => TargetRight(b, n, k, v.target)

ResultRight(v, b, n) ==
  /\ v.got = Absent => NoneHere(b, n, v.op.key)
  /\ v.op.kind = "find" /\ v.got # Absent =>
       Holds(b, n, [key |-> v.op.key, val |-> v.got])

Right(t) ==
  /\ InSearch(t) =>
       SearchRight(View(t), cells[at[t].addr], CellCount(at[t].addr),
                   cells[Address], CellCount(Address), op[t].key)
  /\ pc[t] = "publish" =>
       TargetRight(cells[Address], CellCount(Address), op[t].key, target[t])
  /\ pc[t] = "done" => ResultRight(View(t), cells[Address], CellCount(Address))

Alone == \A t \in Threads : op[t].kind \in {"put", "delete"} => ~disturbed[t]
Missed == \A t \in Threads : got[t] = Absent => pc[t] = "done"

GoodInv ==
  /\ \A a \in 1..Address : GoodArray(cells[a], CellCount(a))
  /\ \A t \in Threads : ~disturbed[t] => Right(t)

LEMMA AloneStep ==
  ASSUME OneWriter, LocalOK, \A t \in Threads : ThreadOK(t), Alone,
         NEW t \in Threads, Step(t)
  PROVE  Alone'
<1>0. DOMAIN op = Threads /\ DOMAIN disturbed = Threads
  BY DEF LocalOK
<1>1. CASE op' = op /\ UNCHANGED disturbed
  BY <1>1 DEF Alone
<1>2. CASE Return(t)
  <2>1. op' = [op EXCEPT ![t] = NoOp] /\ disturbed' = [disturbed EXCEPT ![t] = FALSE]
    BY <1>2 DEF Return
  <2> QED
    BY <2>1, <1>0 DEF Alone
<1>3. ASSUME NEW o \in Calls, Begin(t, o) PROVE Alone'
  <2>1. op' = [op EXCEPT ![t] = o] /\ (o.kind # "find" => t \in Writers[o.key])
    BY <1>3 DEF Begin
  <2>2. \A u \in Threads :
          disturbed'[u] = IF u = t THEN \E w \in Threads \ {t} : Writes(op[w], o.key)
                          ELSE disturbed[u] \/ (op[u].key = o.key /\ o.kind # "find")
    BY <1>3 DEF Begin
  <2>3. o.key \in Keys
    BY CallFacts
  <2>4. \A w \in Threads : op[w].kind \in {"put", "delete"} => w \in Writers[op[w].key]
    BY DEF ThreadOK
  <2> SUFFICES ASSUME NEW u \in Threads, op'[u].kind \in {"put", "delete"}, disturbed'[u]
               PROVE  FALSE
    BY DEF Alone
  <2>5. CASE u = t
    <3>1. t \in Writers[o.key]
      BY <2>1, <2>5, <1>0
    <3>2. PICK w \in Threads \ {t} : Writes(op[w], o.key)
      BY <2>2, <2>5
    <3>3. w \in Writers[o.key]
      BY <2>4, <3>2 DEF Writes
    <3> QED
      BY <2>3, <3>1, <3>2, <3>3 DEF OneWriter
  <2>6. CASE u # t
    <3>1. op'[u] = op[u]
      BY <2>1, <2>6, <1>0
    <3>2. op[u].key = o.key /\ o.kind # "find"
      BY <2>2, <2>6, <3>1 DEF Alone
    <3>3. u \in Writers[o.key] /\ t \in Writers[o.key]
      BY <2>1, <2>4, <3>1, <3>2
    <3> QED
      BY <2>3, <2>6, <3>3 DEF OneWriter
  <2> QED
    BY <2>5, <2>6
<1> QED
  BY <1>1, <1>2, <1>3, CallsMoveOn

LEMMA MissedStep ==
  ASSUME LocalOK, ArraysOK, NEW t \in Threads, ThreadOK(t), Missed, Step(t)
  PROVE  Missed'
<1> USE DEF Goto
<1>0. DOMAIN got = Threads /\ DOMAIN pc = Threads /\ None # Absent
  BY SentinelAssumption DEF LocalOK
<1>1. SUFFICES got'[t] = Absent => pc'[t] = "done"
  BY Framed DEF Frame, Missed
<1>2. ASSUME NEW o \in Calls, Begin(t, o) PROVE got'[t] # Absent
  BY <1>2 DEF Begin, searchVars, Missed
<1>3. CASE got' = got /\ pc[t] # "done"
  BY <1>3 DEF Missed
<1>4. CASE Hit(t)
  <2>1. PICK i \in Slots :
          /\ Lowest(i, Hits(t))
          /\ got'[t] \in {cells[at[t].addr][cell(t)].slot[i].val, got[t]}
    BY <1>0, <1>4 DEF Hit
  <2>2. cells[at[t].addr][cell(t)].slot[i] \in Record
    BY <1>4, <2>1 DEF Hit, Lowest, Hits, ValidBitSet, ThreadOK, Recorded
  <2>3. got[t] # Absent
    BY <1>4 DEF Hit, Missed
  <2> QED
    BY <2>1, <2>2, <2>3, SentinelAssumption DEF Record
<1>5. CASE Miss(t)
  BY <1>0, <1>5 DEF Miss
<1>6. CASE Return(t)
  BY <1>0, <1>6 DEF Return
<1>7. CASE Start(t) \/ CopyCell(t) \/ NextCell(t) \/ ChooseSlot(t) \/ NoSlot(t) \/ CheckVersion(t)
  BY <1>3, <1>7 DEF Start, CopyCell, NextCell, ChooseSlot, NoSlot, CheckVersion, searchVars
<1>8. CASE WriteStep(t)
  BY <1>3, <1>8 DEF WriteStep, Erase, DeleteRetry, PutLocked, PutRehash, PinnedMoved,
                    PinnedLocked, TryRehashLock, PinnedRehash, Publish, searchVars
<1> QED
  BY <1>2, <1>4, <1>5, <1>6, <1>7, <1>8 DEF Step, SearchStep

(* A step of t leaves the arrays as they should be, and the keys alone that *)
(* t does not write.                                                        *)
StepGood(t) ==
  /\ \A a \in 1..Address' : GoodArray(cells'[a], Cardinality(DOMAIN cells'[a]))
  /\ \A k \in Keys : ~Writes(op[t], k) =>
       /\ \A a \in 1..Address : Spares(cells[a], cells'[a], CellCount(a), k)
       /\ SameKey(cells[Address], CellCount(Address),
                  cells'[Address'], Cardinality(DOMAIN cells'[Address']), k)

LEMMA OneCellGood ==
  ASSUME ArraysOK, NEW c, NEW x, Wrote(c, x), NEW t,
         \A a \in 1..Address : GoodArray(cells[a], CellCount(a)),
         GoodArray([cells[Address] EXCEPT ![c] = x], CellCount(Address)),
         \A k \in Keys : ~Writes(op[t], k) =>
           Spares(cells[Address], [cells[Address] EXCEPT ![c] = x], CellCount(Address), k)
  PROVE  StepGood(t)
<1> DEFINE n == CellCount(Address)
           b2 == [cells[Address] EXCEPT ![c] = x]
<1>1. /\ Address \in Nat \ {0} /\ Address \in 1..Address /\ n \in Nat \ {0}
      /\ cells[Address] \in Bucket(n)
      /\ \A a \in 1..Address : cells[a] \in Bucket(CellCount(a)) /\ CellCount(a) \in Nat
  BY DEF ArraysOK
<1>2. /\ Address' = Address /\ cells'[Address] = b2 /\ c \in 0..(n - 1) /\ x \in Cell
      /\ \A a \in 1..Address : a # Address => cells'[a] = cells[a]
  BY DEF Wrote
<1>3. b2 \in Bucket(n) /\ Cardinality(DOMAIN b2) = n
  <2>1. b2 \in Bucket(n)
    BY <1>1, <1>2 DEF Bucket
  <2> QED
    BY <2>1, <1>1, BucketCount
<1> HIDE DEF b2
<1>4. \A a \in 1..Address : Cardinality(DOMAIN cells'[a]) = CellCount(a)
  BY <1>2, <1>3 DEF CellCount
<1>5. \A a \in 1..Address : GoodArray(cells'[a], CellCount(a))
  BY <1>2 DEF b2
<1>6. ASSUME NEW k \in Keys, ~Writes(op[t], k)
      PROVE  /\ \A a \in 1..Address : Spares(cells[a], cells'[a], CellCount(a), k)
             /\ SameKey(cells[Address], n, b2, n, k)
  <2>1. Spares(cells[Address], b2, n, k)
    BY <1>2, <1>6, SparesNothing DEF b2
  <2>2. \A a \in 1..Address : Spares(cells[a], cells'[a], CellCount(a), k)
    BY <2>1, <1>2, SparesNothing
  <2> QED
    BY <2>1, <2>2, <1>1, <1>3, SparesSame
<1> HIDE DEF n
<1>7. \A a \in 1..Address' : GoodArray(cells'[a], Cardinality(DOMAIN cells'[a]))
  BY <1>2, <1>4, <1>5
<1>8. cells'[Address'] = b2 /\ Cardinality(DOMAIN cells'[Address']) = n
  BY <1>1, <1>2, <1>3
<1> QED
  BY <1>6, <1>7, <1>8 DEF StepGood, n

(* The two steps that show what a call has done.                            *)
Erased(b, c, i) == [b EXCEPT ![c] = EraseSlot(b[c], i)]

LEMMA EraseShows ==
  ASSUME ArraysOK, LocalOK, NEW t \in Threads, ThreadOK(t), Alone, GoodInv, Erase(t)
  PROVE  LET c == target[t].cell
             x == EraseSlot(cells[Address][c], target[t].slot)
             b2 == [cells[Address] EXCEPT ![c] = x]
         IN  /\ Wrote(c, x)
             /\ target[t].slot \in MatchBitSet(cells[Address][c], op[t].key)
             /\ GoodArray(b2, CellCount(Address))
             /\ NoneHere(b2, CellCount(Address), op[t].key)
             /\ \A k : k # op[t].key => Spares(cells[Address], b2, CellCount(Address), k)
<1> DEFINE b == cells[Address]
           n == CellCount(Address)
<1>1. /\ n \in Nat \ {0} /\ b \in Bucket(n) /\ GoodArray(b, n)
      /\ \A e \in 0..(n - 1) : HoldsRecords(b[e])
  BY DEF ArraysOK, GoodInv
<1> HIDE DEF b, n
<1>2. /\ pc[t] = "lock" /\ op[t].kind = "delete" /\ at[t].addr = Address /\ build' = build
  BY DEF Erase
<1>3. /\ Wrote(target[t].cell, EraseSlot(b[target[t].cell], target[t].slot))
      /\ target[t].cell \in 0..(n - 1)
  BY <1>2, EraseWrites DEF Wrote, b, n
<1>4. SearchRight(View(t), b, n, b, n, op[t].key)
  BY <1>2 DEF GoodInv, Alone, Right, InSearch, b, n
<1>5. target[t].slot \in MatchBitSet(b[target[t].cell], op[t].key)
  BY <1>2, <1>4 DEF SearchRight, View
<1>6. ASSUME NEW c \in 0..(n - 1), NEW k, NEW i \in MatchBitSet(b[c], k)
      PROVE  /\ GoodArray(Erased(b, c, i), n) /\ NoneHere(Erased(b, c, i), n, k)
             /\ \A kk : kk # k => Spares(b, Erased(b, c, i), n, kk)
  BY <1>1, EraseGood DEF Erased
<1>7. LET b2 == Erased(b, target[t].cell, target[t].slot)
      IN  /\ GoodArray(b2, n) /\ NoneHere(b2, n, op[t].key)
          /\ \A kk : kk # op[t].key => Spares(b, b2, n, kk)
  BY <1>3, <1>5, <1>6
<1> QED
  BY <1>3, <1>5, <1>7 DEF b, n, Erased

LEMMA PublishShows ==
  ASSUME ArraysOK, LocalOK, NEW t \in Threads, ThreadOK(t), Alone, GoodInv, Publish(t),
         KeepsFull
  PROVE  LET c == target[t].cell
             x == NewVersion(cells[Address][c], target[t])
             b2 == [cells[Address] EXCEPT ![c] = x]
         IN  /\ Wrote(c, x) /\ op[t].kind = "put"
             /\ GoodArray(b2, CellCount(Address))
             /\ Holds(b2, CellCount(Address), rec(t))
             /\ \A k : k # op[t].key => Spares(cells[Address], b2, CellCount(Address), k)
<1> DEFINE b == cells[Address]
           n == CellCount(Address)
           p == target[t]
           x == NewVersion(b[p.cell], p)
<1>1. /\ n \in Nat \ {0} /\ b \in Bucket(n) /\ GoodArray(b, n)
      /\ \A e \in 0..(n - 1) : HoldsRecords(b[e])
  BY DEF ArraysOK, GoodInv
<1> HIDE DEF b, n
<1>2. pc[t] = "publish" /\ build' = build /\ op[t].key \in Keys
  BY CallFacts DEF Publish, ThreadOK
<1>3. Wrote(p.cell, x) /\ Stored(b, n, op[t], p) /\ ArraysOK'
  BY <1>2, PublishWrites DEF b, n
<1>4. /\ op[t].kind = "put" /\ TargetOK(b, n, p)
      /\ p.slot \notin ValidBitSet(b[p.cell])
      /\ b[p.cell].slot[p.slot] = rec(t) /\ rec(t).key = op[t].key
  BY <1>3 DEF Stored, rec
<1>5. TargetRight(b, n, op[t].key, p)
  BY <1>2, <1>4 DEF GoodInv, Alone, Right, b, n
<1>6. /\ p.cell \in 0..(n - 1) /\ p.slot \in Slots /\ x \in Cell
      /\ Address' = Address /\ cells'[Address] = [b EXCEPT ![p.cell] = x]
  BY <1>3, <1>4 DEF TargetOK, Wrote, b, n
<1>7. cells'[Address][p.cell] = x /\ DOMAIN cells'[Address] = 0..(n - 1)
  BY <1>6, <1>1 DEF Bucket
<1> HIDE DEF x, p
<1>8. CellSound(x) /\ (Full(b[p.cell]) => Full(x))
  <2>1. \A c \in DOMAIN cells'[Address'] : CellSound(cells'[Address'][c])
    BY DEF KeepsFull
  <2>2. \A c \in DOMAIN b : Full(b[c]) => Full(cells'[Address][c])
    BY <1>6 DEF KeepsFull, b
  <2>3. p.cell \in DOMAIN b /\ p.cell \in DOMAIN cells'[Address'] /\ cells'[Address'][p.cell] = x
    BY <1>6, <1>7, <1>1 DEF Bucket
  <2>4. cells'[Address][p.cell] = x
    BY <1>7
  <2> QED
    BY <2>1, <2>2, <2>3, <2>4
<1>9. HoldsRecords(x)
  <2>1. /\ \A e \in 0..(CellCount(Address)' - 1) : HoldsRecords(cells'[Address'][e])
        /\ cells'[Address'] \in Bucket(CellCount(Address)')
    BY <1>3 DEF ArraysOK
  <2>2. DOMAIN cells'[Address'] = 0..(CellCount(Address)' - 1)
    BY <2>1 DEF Bucket
  <2>3. p.cell \in DOMAIN cells'[Address'] /\ cells'[Address'][p.cell] = x
    BY <1>6, <1>7
  <2> QED
    BY <2>1, <2>2, <2>3
<1>10. x = NewVersion(b[p.cell], p)
  BY DEF x
<1> DEFINE k == op[t].key
<1> HIDE DEF k
<1>11. /\ k \in Keys /\ TargetRight(b, n, k, p) /\ b[p.cell].slot[p.slot].key = k
       /\ b[p.cell].slot[p.slot] = rec(t)
  BY <1>2, <1>4, <1>5 DEF k
<1>12. LET b2 == [b EXCEPT ![p.cell] = NewVersion(b[p.cell], p)]
       IN  /\ GoodArray(b2, n) /\ Holds(b2, n, b[p.cell].slot[p.slot])
           /\ \A kk : kk # k => Spares(b, b2, n, kk)
  BY <1>1, <1>4, <1>6, <1>8, <1>9, <1>10, <1>11, PublishGood
<1> QED
  BY <1>3, <1>4, <1>10, <1>11, <1>12 DEF b, n, p, k

InReach == Address' # Address => ~Overruns(cells[Address])

LEMMA GoodStep ==
  ASSUME ArraysOK, LocalOK, NEW t \in Threads, ThreadOK(t), Alone, GoodInv,
         Step(t), KeepsFull, InReach
  PROVE  StepGood(t)
<1> DEFINE b == cells[Address]
           n == CellCount(Address)
<1>0. build' = build
  BY Framed DEF Frame
<1>1. /\ Address \in 1..Address /\ n \in Nat \ {0} /\ b \in Bucket(n)
      /\ \A e \in 0..(n - 1) : HoldsRecords(b[e])
  BY DEF ArraysOK
<1>2. /\ \A a \in 1..Address : GoodArray(cells[a], CellCount(a))
      /\ GoodArray(b, n)
      /\ op[t].kind \in {"put", "delete"} => Right(t)
  BY <1>1 DEF GoodInv, Alone
<1>3. pc[t] # "idle" => op[t].key \in Keys
  BY CallFacts DEF ThreadOK
<1> HIDE DEF b, n
<1>4. CASE Quiet
  <2>1. Address' = Address /\ cells' = cells
    BY <1>4 DEF Quiet, Address
  <2>2. \A a \in 1..Address : Cardinality(DOMAIN cells[a]) = CellCount(a)
    BY DEF CellCount
  <2> QED
    BY <2>1, <2>2, <1>2, SparesNothing DEF StepGood, CellCount
<1>5. CASE Erase(t)
  <2>1. \A k : ~Writes(op[t], k) => k # op[t].key
    BY <1>5 DEF Writes, Erase
  <2> QED
    BY <2>1, <1>2, <1>5, EraseShows, OneCellGood
<1>6. CASE Publish(t)
  <2>1. \A k : ~Writes(op[t], k) => k # op[t].key
    BY <1>6, PublishShows DEF Writes
  <2> QED
    BY <2>1, <1>2, <1>6, PublishShows, OneCellGood
<1>7. CASE Storing(t)
  <2>1. PICK c \in 0..(CellCount(Address) - 1), i \in Slots, old \in Slots \cup {None} :
          /\ op[t].kind = "put" /\ pc[t] = "lock" /\ Store(t, c, i, old)
          /\ i \notin ValidBitSet(b[c])
    BY <1>7 DEF Storing, b
  <2>2. Wrote(c, SlotSet(b[c], i, rec(t))) /\ rec(t) \in Record
    BY <1>0, <2>1, StoreWrites DEF b
  <2>3. c \in 0..(n - 1) /\ rec(t).key = op[t].key
    BY DEF n, rec
  <2>4. /\ GoodArray([b EXCEPT ![c] = SlotSet(b[c], i, rec(t))], n)
        /\ \A k : k # rec(t).key => Spares(b, [b EXCEPT ![c] = SlotSet(b[c], i, rec(t))], n, k)
    BY <1>1, <1>2, <2>1, <2>2, <2>3, StoreGood
  <2>5. \A k : ~Writes(op[t], k) => k # rec(t).key
    BY <2>1, <2>3 DEF Writes
  <2> QED
    BY <2>2, <2>4, <2>5, <1>2, OneCellGood DEF b, n
<1>8. CASE Growing(t)
  <2>1. /\ Address' = Address + 1
        /\ cells'[Address + 1] = Rehashed(b)
        /\ Cardinality(DOMAIN cells'[Address + 1]) = 2 * n
        /\ ~Stuck(b)
        /\ \A a \in 1..Address : cells'[a] = cells[a]
    BY <1>0, <1>8, CellsGrown DEF Growing, LocalOK, b, n
  <2>2. /\ SoundBucket(Rehashed(b), 2 * n) /\ OnPath(Rehashed(b), 2 * n)
        /\ UniqueKeys(Rehashed(b), 2 * n)
        /\ \A r : Holds(Rehashed(b), 2 * n, r) <=> Holds(b, n, r)
    <3>1. ~Overruns(b)
      BY <1>1, <2>1 DEF b, InReach
    <3> QED
      BY <3>1, <1>1, <1>2, <2>1, RehashedTyped, RehashedRight DEF GoodArray
  <2>3. GoodArray(Rehashed(b), 2 * n)
    BY <2>2 DEF GoodArray, SoundBucket
  <2>4. ASSUME NEW a \in 1..Address' PROVE GoodArray(cells'[a], Cardinality(DOMAIN cells'[a]))
    <3>1. a \in 1..Address \/ a = Address + 1
      BY <2>1, <1>1
    <3>2. CASE a \in 1..Address
      BY <3>2, <2>1, <1>2 DEF CellCount
    <3>3. CASE a = Address + 1
      BY <3>3, <2>1, <2>3
    <3> QED
      BY <3>1, <3>2, <3>3
  <2>5. \A k : SameKey(b, n, cells'[Address'], Cardinality(DOMAIN cells'[Address']), k)
    BY <2>1, <2>2 DEF SameKey
  <2>6. \A k : \A a \in 1..Address : Spares(cells[a], cells'[a], CellCount(a), k)
    BY <2>1, SparesNothing
  <2> QED
    BY <2>4, <2>5, <2>6 DEF StepGood, b, n
<1> QED
  BY <1>4, <1>5, <1>6, <1>7, <1>8, Changes

(* What an undisturbed search knows survives the steps of the others.       *)
LEMMA OtherRight ==
  ASSUME ArraysOK, LocalOK, NEW t \in Threads, ThreadOK(t), Step(t), StepGood(t),
         NEW u \in Threads \ {t}, ThreadOK(u), ~Writes(op[t], op[u].key), Right(u)
  PROVE  Right(u)'
<1> DEFINE k == op[u].key
           cur == cells[Address]
           m == CellCount(Address)
           cur2 == cells'[Address']
           m2 == Cardinality(DOMAIN cells'[Address'])
<1>1. /\ pc'[u] = pc[u] /\ op'[u] = op[u] /\ at'[u] = at[u] /\ copy'[u] = copy[u]
      /\ insert'[u] = insert[u] /\ target'[u] = target[u] /\ got'[u] = got[u]
      /\ build' = build
  BY Framed DEF Frame
<1>0. View(u)' = View(u)
  BY <1>1 DEF View
<1>2. ArraysOK' /\ Evolves
  BY ArraysStep
<1>3. CASE pc[u] = "idle"
  BY <1>1, <1>3 DEF Right, InSearch
<1>4. CASE pc[u] # "idle"
  <2>1. k \in Keys
    BY <1>4, CallFacts DEF ThreadOK
  <2>2. SameKey(cur, m, cur2, m2, k)
    BY <2>1 DEF StepGood
  <2>3. /\ cur \in Bucket(m) /\ m \in Nat \ {0}
        /\ cur2 \in Bucket(m2) /\ m2 \in Nat \ {0}
    <3>1. cur \in Bucket(m) /\ m \in Nat \ {0}
      BY DEF ArraysOK
    <3>2. cur2 \in Bucket(m2) /\ m2 \in Nat \ {0}
      BY <1>2 DEF ArraysOK, CellCount
    <3> QED
      BY <3>1, <3>2
  <2> DEFINE a == at[u].addr
             b == cells[a]
             n == CellCount(a)
             b2 == cells'[a]
  <2>4. ASSUME InSearch(u)
        PROVE  SearchRight(View(u)', b2, n, cur2, m2, k) /\ Cardinality(DOMAIN cells'[a]) = n
    <3>1. /\ a \in 1..Address /\ n \in Nat \ {0} /\ b \in Bucket(n)
          /\ at[u].dist \in ProbeDist(n)
      BY <2>4, CellInArray
    <3>2. /\ Cardinality(DOMAIN cells'[a]) = n
          /\ Address <= Address' /\ Address \in Nat /\ Address' \in Nat
      BY <3>1, <1>2 DEF Evolves, CellCount, ArraysOK
    <3>3. b2 \in Bucket(n)
      <4>1. a \in 1..Address'
        BY <3>1, <3>2
      <4> QED
        BY <4>1, <3>2, <1>2 DEF ArraysOK, CellCount
    <3>4. Spares(b, b2, n, k)
      BY <2>1, <3>1 DEF StepGood
    <3>5. SearchRight(View(u), b, n, cur, m, k)
      BY <2>4 DEF Right
    <3>6. HasTarget(u) => target[u].cell \in 0..(n - 1)
      BY DEF ThreadOK, TargetOK
    <3>7. ValidBitSet(copy[u]) \subseteq Slots
      BY DEF LocalOK, ValidBitSet
    <3> HIDE DEF k, cur, m, cur2, m2, a, b, n, b2
    <3>8. SameKey(b, n, b2, n, k)
      BY <3>1, <3>3, <3>4, SparesSame
    <3>9. SameKey(b2, n, cur2, m2, k)
      BY <3>5, <3>8, <2>2 DEF SearchRight, SameKey
    <3>10. /\ \A c : OnWay(b, n, k, c) => OnWay(b2, n, k, c)
           /\ \A p : TargetRight(b, n, k, p) => TargetRight(b2, n, k, p)
           /\ \A d \in ProbeDist(n) : Passed(b, n, k, d) => Passed(b2, n, k, d)
           /\ \A d \in ProbeDist(n) : \A v :
                ValidBitSet(v) \subseteq Slots /\ Seen(b, n, k, d, v) => Seen(b2, n, k, d, v)
      BY <2>1, <3>1, <3>3, <3>4, SparesSearch
    <3>11. \A v : Holds(b, n, [key |-> k, val |-> v]) => Holds(b2, n, [key |-> k, val |-> v])
      BY <3>8 DEF SameKey
    <3>12. pc[u] = "lock" /\ op[u].kind = "delete" =>
             target[u].slot \in MatchBitSet(b2[target[u].cell], k)
      BY <3>4, <3>5, <3>6 DEF SearchRight, HasTarget, Spares, View
    <3>13. SearchRight(View(u)', b2, n, cur2, m2, k)
      BY <1>0, <3>1, <3>5, <3>7, <3>9, <3>10, <3>11, <3>12 DEF SearchRight, View
    <3> QED
      BY <3>2, <3>13
  <2>5. (InSearch(u) => SearchRight(View(u), cells[at[u].addr], CellCount(at[u].addr),
                                    cells[Address], CellCount(Address), op[u].key))'
    BY <1>1, <2>4 DEF InSearch, CellCount, View
  <2>6. (pc[u] = "publish" => TargetRight(cells[Address], CellCount(Address), op[u].key, target[u]))'
    <3>1. SUFFICES ASSUME pc[u] = "publish"
                   PROVE  TargetRight(cur2, m2, k, target[u])
      BY <1>1 DEF CellCount
    <3>2. lock = u /\ TargetRight(cur, m, k, target[u])
      BY <3>1 DEF ThreadOK, Right
    <3>3. cells' = cells
      BY <3>2, LockHeld
    <3> QED
      BY <3>2, <3>3 DEF Address, CellCount
  <2>7. (pc[u] = "done" => ResultRight(View(u), cells[Address], CellCount(Address)))'
    <3>1. SUFFICES ASSUME pc[u] = "done"
                   PROVE  /\ got[u] = Absent => NoneHere(cur2, m2, k)
                          /\ op[u].kind = "find" /\ got[u] # Absent =>
                               Holds(cur2, m2, [key |-> k, val |-> got[u]])
      BY <1>1 DEF ResultRight, CellCount, View
    <3>2. /\ got[u] = Absent => NoneHere(cur, m, k)
          /\ op[u].kind = "find" /\ got[u] # Absent =>
               Holds(cur, m, [key |-> k, val |-> got[u]])
      BY <3>1 DEF Right, ResultRight, View
    <3> HIDE DEF k, cur, m, cur2, m2
    <3>3. \A v : Holds(cur, m, [key |-> k, val |-> v]) => Holds(cur2, m2, [key |-> k, val |-> v])
      BY <2>2 DEF SameKey
    <3>4. NoneHere(cur, m, k) => NoneHere(cur2, m2, k)
      BY <2>2, <2>3, NoneSame
    <3> QED
      BY <3>2, <3>3, <3>4
  <2> QED
    BY <2>5, <2>6, <2>7 DEF Right
<1> QED
  BY <1>3, <1>4

(* What a thread learns by its own step.                                    *)
LEMMA SelfRight ==
  ASSUME ArraysOK, LocalOK, NEW t \in Threads, ThreadOK(t), Missed, GoodInv, Step(t),
         ~disturbed'[t]
  PROVE  Right(t)'
<1> USE DEF Goto
<1> DEFINE k == op[t].key
           cur == cells[Address]
           m == CellCount(Address)
           b == cells[at[t].addr]
           n == CellCount(at[t].addr)
           d == at[t].dist
           c == cell(t)
<1>1. /\ DOMAIN pc = Threads /\ DOMAIN op = Threads /\ DOMAIN at = Threads
      /\ DOMAIN copy = Threads /\ DOMAIN insert = Threads
      /\ DOMAIN target = Threads /\ DOMAIN got = Threads
  BY DEF LocalOK
<1>2. build' = build
  BY Framed DEF Frame
(* Steps after which there is nothing to know.                              *)
<1>3. ASSUME pc'[t] \in {"idle", "start", "rehash", "rehashing", "exit"}
      PROVE  Right(t)'
  BY <1>3 DEF Right, InSearch
<1>4. ASSUME op'[t].kind = "put", pc'[t] = "lock", ~build.pinned
      PROVE  Right(t)'
  BY <1>2, <1>4 DEF Right, InSearch
<1>5. ASSUME NEW o \in Calls, Begin(t, o) PROVE Right(t)'
  <2>1. op'[t] = o /\ pc'[t] = (IF o.kind = "put" /\ ~build.pinned THEN "lock" ELSE "start")
    BY <1>1, <1>5 DEF Begin
  <2> QED
    BY <2>1, <1>3, <1>4
<1>6. CASE Return(t)
  BY <1>1, <1>3, <1>6 DEF Return
<1>7. CASE op' = op /\ pc[t] # "done" /\ UNCHANGED disturbed
  <2>0. op'[t] = op[t] /\ Right(t)
    BY <1>7 DEF GoodInv
  <2>1. /\ Address \in 1..Address /\ m \in Nat \ {0} /\ cur \in Bucket(m)
        /\ \A e \in 0..(m - 1) : HoldsRecords(cur[e])
        /\ GoodArray(cur, m) /\ got[t] # Absent
    BY <1>7 DEF ArraysOK, GoodInv, Missed
  <2>2. pc[t] # "idle" => k \in Keys
    BY CallFacts DEF ThreadOK
  <2>3. ASSUME InSearch(t)
        PROVE  /\ at[t].addr \in 1..Address /\ n \in Nat \ {0} /\ b \in Bucket(n)
               /\ d \in ProbeDist(n) /\ k \in Keys /\ c \in 0..(n - 1)
               /\ c = ProbeCell(k, n, d)
               /\ GoodArray(b, n) /\ OnPath(b, n) /\ SearchRight(View(t), b, n, cur, m, k)
    <3>1. /\ at[t].addr \in 1..Address /\ n \in Nat \ {0} /\ b \in Bucket(n)
          /\ d \in ProbeDist(n) /\ c \in 0..(n - 1) /\ op[t] \in Calls
      BY <2>3, CellInArray
    <3>2. GoodArray(b, n)
      BY <3>1 DEF GoodInv
    <3>3. SearchRight(View(t), b, n, cur, m, k)
      BY <2>0, <2>3 DEF Right
    <3> QED
      BY <3>1, <3>2, <3>3, CallFacts DEF cell, GoodArray
  (* A step within the same array of cells, none of which changes.          *)
  <2>4. ASSUME cells' = cells, at'[t].addr = at[t].addr, InSearch(t),
               pc'[t] \in {"copy", "compare", "check", "lock"},
               SearchRight(View(t)', b, n, cur, m, k)
        PROVE  Right(t)'
    BY <2>0, <2>4 DEF Right, Address, CellCount
  <2>5. ASSUME cells' = cells, pc'[t] = "done", ResultRight(View(t)', cur, m)
        PROVE  Right(t)'
    BY <2>0, <2>5 DEF Right, InSearch, Address, CellCount
  <2>6. ASSUME pc'[t] = "done", got'[t] = got[t], op[t].kind # "find"
        PROVE  Right(t)'
    BY <2>0, <2>1, <2>6 DEF Right, InSearch, ResultRight, View
  <2>7. CASE Start(t)
    <3>1. /\ pc'[t] = "copy" /\ insert'[t] = None
          /\ at'[t] = [addr |-> Address, dist |-> 0] /\ cells' = cells
      BY <1>1, <2>7 DEF Start, bucketVars
    <3>2. SameKey(cur, m, cur, m, k) /\ Passed(cur, m, k, 0)
      BY SparesNothing DEF Passed
    <3>3. /\ View(t)'.pc = "copy" /\ View(t)'.insert = None /\ View(t)'.dist = 0
          /\ at'[t].addr = Address
      BY <3>1 DEF View
    <3>4. SearchRight(View(t)', cur, m, cur, m, k)
      BY <3>2, <3>3 DEF SearchRight
    <3>5. (InSearch(t) => SearchRight(View(t), cells[at[t].addr], CellCount(at[t].addr),
                                      cells[Address], CellCount(Address), op[t].key))'
      BY <2>0, <3>1, <3>3, <3>4 DEF Address, CellCount
    <3> QED
      BY <3>1, <3>5 DEF Right
  <2> HIDE DEF b, n, c, d, k, cur, m
  <2>8. CASE CopyCell(t)
    <3>1. /\ pc'[t] = "compare" /\ at'[t] = at[t] /\ insert'[t] = insert[t]
          /\ copy'[t].bitmap = b[c].bitmap /\ copy'[t].deleted = b[c].deleted
          /\ cells' = cells /\ pc[t] = "copy"
      BY <1>1, <2>8 DEF CopyCell, bucketVars, b, c
    <3>2. InSearch(t)
      BY <3>1 DEF InSearch
    <3>3. Seen(b, n, k, d, copy'[t])
      BY <2>3, <3>1, <3>2, CopySeen
    <3>4. SearchRight(View(t), b, n, cur, m, k)
      BY <2>3, <3>2
    <3>5. /\ View(t)'.pc = "compare" /\ View(t)'.dist = d /\ View(t).dist = d
          /\ View(t)'.insert = View(t).insert /\ View(t)'.copy = copy'[t]
      BY <3>1 DEF View, d
    <3>6. SearchRight(View(t)', b, n, cur, m, k)
      BY <3>3, <3>4, <3>5 DEF SearchRight
    <3> QED
      BY <2>4, <3>1, <3>2, <3>6
  <2>9. CASE CheckVersion(t)
    <3>1. /\ pc[t] = "check" /\ cells' = cells /\ at'[t] = at[t] /\ copy'[t] = copy[t]
          /\ insert'[t] = insert[t] /\ target'[t] = target[t] /\ got'[t] = got[t]
          /\ \/ pc'[t] = "copy"
             \/ op[t].kind = "find" /\ pc'[t] = "done"
             \/ op[t].kind # "find" /\ pc'[t] = "lock"
      BY <1>1, <2>9 DEF CheckVersion, bucketVars, searchVars
    <3>2. InSearch(t) /\ op[t].kind # "delete"
      BY <3>1 DEF InSearch, ThreadOK
    <3>3. SearchRight(View(t), b, n, cur, m, k)
      BY <2>3, <3>2
    <3>4. /\ View(t)'.dist = View(t).dist /\ View(t)'.insert = View(t).insert
          /\ View(t)'.target = View(t).target /\ View(t)'.got = View(t).got
          /\ View(t)'.op = op[t] /\ View(t).op = op[t] /\ View(t).pc = "check"
          /\ View(t)'.pc = pc'[t] /\ View(t).got = got[t]
      BY <2>0, <3>1 DEF View
    <3>5. CASE pc'[t] = "copy" \/ (op[t].kind # "find" /\ pc'[t] = "lock")
      <4>1. SearchRight(View(t)', b, n, cur, m, k)
        BY <3>2, <3>3, <3>4, <3>5 DEF SearchRight
      <4> QED
        BY <2>4, <3>1, <3>2, <3>5, <4>1
    <3>6. CASE op[t].kind = "find" /\ pc'[t] = "done"
      <4>1. Holds(b, n, [key |-> k, val |-> got[t]]) /\ SameKey(b, n, cur, m, k)
        BY <3>3, <3>4, <3>6 DEF SearchRight
      <4>2. Holds(cur, m, [key |-> k, val |-> got[t]])
        BY <4>1 DEF SameKey
      <4>3. ResultRight(View(t)', cur, m)
        BY <2>1, <3>4, <4>2 DEF ResultRight, k
      <4> QED
        BY <2>5, <3>1, <3>6, <4>3
    <3> QED
      BY <3>1, <3>5, <3>6
  <2>10. CASE DeleteRetry(t)
    <3>1. /\ pc[t] = "lock" /\ op[t].kind = "delete" /\ cells' = cells /\ at'[t] = at[t]
          /\ insert'[t] = insert[t] /\ pc'[t] \in {"copy", "start"}
      BY <1>1, <2>10 DEF DeleteRetry, searchVars
    <3>2. InSearch(t)
      BY <3>1 DEF InSearch
    <3>3. SearchRight(View(t), b, n, cur, m, k)
      BY <2>3, <3>2
    <3>4. CASE pc'[t] = "copy"
      <4>1. /\ View(t)'.dist = View(t).dist /\ View(t)'.insert = View(t).insert
            /\ View(t)'.pc = "copy"
        BY <3>1, <3>4 DEF View
      <4>2. SearchRight(View(t)', b, n, cur, m, k)
        BY <3>3, <4>1 DEF SearchRight
      <4> QED
        BY <2>4, <3>1, <3>2, <3>4, <4>2
    <3> QED
      BY <1>3, <3>1, <3>4
  <2>11. CASE Hit(t)
    <3>1. PICK i \in Slots :
            /\ Lowest(i, Hits(t))
            /\ \/ /\ op[t].kind = "find" /\ pc'[t] = "check"
                  /\ got'[t] = b[c].slot[i].val
               \/ /\ op[t].kind = "delete" /\ pc'[t] = "lock"
                  /\ target'[t] = Place(c, i, None)
               \/ /\ op[t].kind = "put" /\ pc'[t] = "check"
                  /\ \E j \in Slots : target'[t] = Place(c, j, i)
               \/ op[t].kind = "put" /\ pc'[t] = "exit"
      BY <1>1, <2>11 DEF Hit, b, c
    <3>2. /\ pc[t] = "compare" /\ cells' = cells /\ at'[t] = at[t] /\ insert'[t] = insert[t]
      BY <2>11 DEF Hit, bucketVars
    <3>3. InSearch(t)
      BY <3>2 DEF InSearch
    <3>4. SearchRight(View(t), b, n, cur, m, k) /\ c = ProbeCell(k, n, d) /\ d \in ProbeDist(n)
      BY <2>3, <3>3
    <3>5. Hits(t) = Matches(copy[t], b[c], k)
      BY DEF Hits, Matches, b, c, k
    <3>6. Seen(b, n, k, d, copy[t]) /\ Passed(b, n, k, d)
      BY <3>2, <3>4 DEF SearchRight, View, d
    <3>7. i \in MatchBitSet(b[c], k)
      BY <3>1, <3>4, <3>5, <3>6 DEF Seen, Lowest
    <3>8. b[c].slot[i] \in Record /\ b[c].slot[i].key = k /\ i \in ValidBitSet(b[c])
      <4>1. i \in copy[t].bitmap
        BY <3>1, <3>5 DEF Lowest, Matches, ValidBitSet
      <4>2. Recorded(copy[t].bitmap, b[c])
        BY <3>2 DEF ThreadOK, b, c
      <4> QED
        BY <4>1, <4>2, <3>7 DEF Recorded, MatchBitSet
    <3>9. /\ View(t)'.dist = View(t).dist /\ View(t)'.insert = View(t).insert
          /\ View(t)'.pc = pc'[t] /\ View(t)'.op = op[t] /\ View(t)'.got = got'[t]
          /\ View(t)'.target = target'[t]
      BY <2>0, <3>2 DEF View
    <3>10. CASE op[t].kind = "find" /\ pc'[t] = "check" /\ got'[t] = b[c].slot[i].val
      <4>1. b[c].slot[i] = [key |-> k, val |-> got'[t]]
        BY <3>8, <3>10 DEF Record
      <4>2. Holds(b, n, [key |-> k, val |-> got'[t]])
        BY <4>1, <3>3, <3>8, <2>3 DEF Holds
      <4>3. SearchRight(View(t)', b, n, cur, m, k)
        BY <4>2, <3>4, <3>9, <3>10 DEF SearchRight
      <4> QED
        BY <2>4, <3>2, <3>3, <3>10, <4>3
    <3>11. CASE op[t].kind = "delete" /\ pc'[t] = "lock" /\ target'[t] = Place(c, i, None)
      <4>1. target'[t].cell = c /\ target'[t].slot = i
        BY <3>11 DEF Place
      <4>2. SearchRight(View(t)', b, n, cur, m, k)
        BY <4>1, <3>4, <3>7, <3>9, <3>11 DEF SearchRight
      <4> QED
        BY <2>4, <3>2, <3>3, <3>11, <4>2
    <3>12. ASSUME NEW j \in Slots, op[t].kind = "put", pc'[t] = "check",
                  target'[t] = Place(c, j, i)
           PROVE  Right(t)'
      <4>1. target'[t].cell = c /\ target'[t].old = i /\ i # None
        BY <3>12, SentinelAssumption DEF Place
      <4>2. OnWay(b, n, k, c)
        BY <3>4, <3>6, PassedOnWay
      <4>3. TargetRight(b, n, k, target'[t])
        BY <4>1, <4>2, <3>7 DEF TargetRight
      <4>4. SearchRight(View(t)', b, n, cur, m, k)
        BY <4>3, <3>4, <3>9, <3>12 DEF SearchRight
      <4> QED
        BY <2>4, <3>2, <3>3, <3>12, <4>4
    <3> QED
      BY <1>3, <3>1, <3>10, <3>11, <3>12
  <2>12. CASE NextCell(t)
    <3>1. /\ pc[t] = "compare" /\ pc'[t] = "copy" /\ cells' = cells
          /\ Hits(t) = {} /\ Full(copy[t]) /\ d + 1 \in ProbeDist(n)
          /\ insert'[t] = insert[t] \/ \E i \in Slots : insert'[t] = Place(c, i, None)
      BY <1>1, <2>12 DEF NextCell, bucketVars, EndsHere, LastCell, n, d, c
    <3>2. at'[t].dist = d + 1 /\ at'[t].addr = at[t].addr
      <4>1. at[t] \in [addr : 0..Address, dist : 0..(MaxProbeLen - 1)]
        BY DEF LocalOK
      <4>2. at' = [at EXCEPT ![t].dist = @ + 1]
        BY <2>12 DEF NextCell
      <4>3. at'[t] = [at[t] EXCEPT !.dist = @ + 1]
        BY <4>2, <1>1
      <4> QED
        BY <4>1, <4>3 DEF d
    <3>3. InSearch(t)
      BY <3>1 DEF InSearch
    <3>4. /\ SearchRight(View(t), b, n, cur, m, k) /\ c = ProbeCell(k, n, d)
          /\ d \in ProbeDist(n) /\ n \in Nat \ {0}
      BY <2>3, <3>3
    <3>5. Hits(t) = Matches(copy[t], b[c], k)
      BY DEF Hits, Matches, b, c, k
    <3>6. Seen(b, n, k, d, copy[t]) /\ Passed(b, n, k, d)
      BY <3>1, <3>4 DEF SearchRight, View, d
    <3>7. Passed(b, n, k, d + 1)
      BY <3>1, <3>4, <3>5, <3>6, PassOne
    <3>8. OnWay(b, n, k, c)
      BY <3>4, <3>6, PassedOnWay
    <3>9. /\ View(t)'.dist = d + 1 /\ View(t)'.insert = insert'[t]
          /\ View(t)'.pc = "copy" /\ View(t).insert = insert[t]
      BY <3>1, <3>2 DEF View
    <3>10. insert'[t] # None => OnWay(b, n, k, insert'[t].cell)
      <4>1. \A i : Place(c, i, None).cell = c
        BY DEF Place
      <4> QED
        BY <4>1, <3>1, <3>4, <3>8, <3>9 DEF SearchRight
    <3>11. SearchRight(View(t)', b, n, cur, m, k)
      BY <3>4, <3>7, <3>9, <3>10 DEF SearchRight
    <3> QED
      BY <2>4, <3>1, <3>2, <3>3, <3>11
  (* The search has come to the end of the path and found nothing.          *)
  <2>13. ASSUME pc[t] = "compare", Hits(t) = {}, EndsHere(t) \/ LastCell(t)
         PROVE  NoneHere(b, n, k) /\ OnWay(b, n, k, c)
    <3>1. InSearch(t)
      BY <2>13 DEF InSearch
    <3>2. /\ SearchRight(View(t), b, n, cur, m, k) /\ c = ProbeCell(k, n, d)
          /\ d \in ProbeDist(n) /\ n \in Nat \ {0} /\ b \in Bucket(n) /\ k \in Keys
          /\ OnPath(b, n)
      BY <2>3, <3>1
    <3>3. Hits(t) = Matches(copy[t], b[c], k)
      BY DEF Hits, Matches, b, c, k
    <3>4. Seen(b, n, k, d, copy[t]) /\ Passed(b, n, k, d)
      BY <2>13, <3>2 DEF SearchRight, View, d
    <3>5. ~Full(copy[t]) \/ d + 1 \notin ProbeDist(n)
      BY <2>13 DEF EndsHere, LastCell, d, n
    <3>6. OnWay(b, n, k, c)
      BY <3>2, <3>4, PassedOnWay
    <3> QED
      BY <2>13, <3>2, <3>3, <3>4, <3>5, <3>6, EndOfPath
  <2>14. CASE Miss(t)
    <3>1. /\ pc[t] = "compare" /\ pc'[t] = "done" /\ cells' = cells /\ got'[t] = Absent
          /\ Hits(t) = {} /\ (EndsHere(t) \/ LastCell(t))
      BY <1>1, <2>14 DEF Miss, bucketVars
    <3>2. InSearch(t)
      BY <3>1 DEF InSearch
    <3>3. NoneHere(b, n, k)
      BY <2>13, <3>1
    <3>4. SameKey(b, n, cur, m, k) /\ b \in Bucket(n) /\ cur \in Bucket(m)
      BY <2>1, <2>3, <3>2 DEF SearchRight
    <3>5. NoneHere(cur, m, k)
      BY <3>3, <3>4, NoneSame
    <3>6. View(t)'.got = Absent /\ View(t)'.op = op[t]
      BY <2>0, <3>1 DEF View
    <3>7. ResultRight(View(t)', cur, m)
      BY <3>5, <3>6 DEF ResultRight, k
    <3> QED
      BY <2>5, <3>1, <3>7
  <2>15. CASE ChooseSlot(t)
    <3>1. PICK p \in [cell : DOMAIN cells[at[t].addr], slot : Slots, old : {None}] :
            /\ Chosen(t, p)
            /\ insert' = [insert EXCEPT ![t] = p]
            /\ target' = [target EXCEPT ![t] = p]
      BY <2>15 DEF ChooseSlot
    <3>2. /\ pc[t] = "compare" /\ cells' = cells /\ at'[t] = at[t] /\ op[t].kind = "put"
          /\ Hits(t) = {} /\ (EndsHere(t) \/ LastCell(t))
          /\ pc'[t] \in {"check", "lock"}
      BY <1>1, <2>15 DEF ChooseSlot, bucketVars
    <3>3. InSearch(t)
      BY <3>2 DEF InSearch
    <3>4. SearchRight(View(t), b, n, cur, m, k) /\ NoneHere(b, n, k) /\ OnWay(b, n, k, c)
      BY <2>3, <2>13, <3>2, <3>3
    <3>5. p.old = None /\ insert'[t] = p /\ target'[t] = p
      BY <1>1, <3>1
    <3>6. p.cell = c \/ (insert[t] # None /\ p = insert[t])
      BY <3>1 DEF Chosen, Place, c
    <3>7. OnWay(b, n, k, p.cell)
      BY <3>4, <3>6 DEF SearchRight, View
    <3>8. TargetRight(b, n, k, p)
      BY <3>4, <3>5, <3>7 DEF TargetRight
    <3>9. /\ View(t)'.dist = View(t).dist /\ View(t)'.insert = p /\ View(t)'.target = p
          /\ View(t)'.op = op[t] /\ View(t)'.pc = pc'[t]
      BY <2>0, <3>2, <3>5 DEF View
    <3>10. SearchRight(View(t)', b, n, cur, m, k)
      BY <3>2, <3>4, <3>7, <3>8, <3>9 DEF SearchRight
    <3> QED
      BY <2>4, <3>2, <3>3, <3>10
  <2>16. CASE NoSlot(t) \/ PinnedMoved(t) \/ TryRehashLock(t) \/ PinnedRehash(t)
    <3>1. pc'[t] \in {"start", "rehash", "rehashing", "exit"}
      BY <1>1, <2>16 DEF NoSlot, PinnedMoved, TryRehashLock, PinnedRehash, Exit
    <3> QED
      BY <1>3, <3>1
  <2>17. CASE PutRehash(t)
    <3>1. /\ op[t].kind = "put" /\ ~build.pinned
          /\ pc'[t] \in {"lock", "exit"}
      BY <1>1, <2>17 DEF PutRehash, Exit
    <3> QED
      BY <1>3, <1>4, <2>0, <3>1
  <2>18. CASE Erase(t) \/ Publish(t)
    <3>1. pc'[t] = "done" /\ got'[t] = got[t] /\ op[t].kind # "find"
      BY <1>1, <2>18 DEF Erase, Publish, ThreadOK, Stored, searchVars
    <3> QED
      BY <2>6, <3>1
  (* A Put stores where its search has looked.                              *)
  <2>19. ASSUME NEW e \in 0..(m - 1), NEW i \in Slots, NEW old, Store(t, e, i, old),
                op[t].kind = "put", pc[t] = "lock", i \notin ValidBitSet(cur[e]),
                TargetRight(cur, m, k, Place(e, i, old))
         PROVE  Right(t)'
    <3>1. Wrote(e, SlotSet(cur[e], i, rec(t))) /\ rec(t) \in Record
      <4>1. e \in 0..(CellCount(Address) - 1)
        BY DEF m
      <4> QED
        BY <1>2, <2>19, <4>1, StoreWrites DEF cur
    <3> DEFINE b2 == [cur EXCEPT ![e] = SlotSet(cur[e], i, rec(t))]
    <3>2. k \in Keys
      BY <2>2, <2>19
    <3>3. TargetRight(b2, m, k, Place(e, i, old))
      BY <2>1, <2>19, <3>1, <3>2, StoreGood
    <3>4. Address' = Address /\ cells'[Address] = b2 /\ SlotSet(cur[e], i, rec(t)) \in Cell
      BY <3>1 DEF Wrote, cur
    <3>5. b2 \in Bucket(m)
      BY <2>1, <3>4 DEF Bucket
    <3> HIDE DEF b2
    <3>6. Cardinality(DOMAIN cells'[Address']) = m
      BY <2>1, <3>4, <3>5, BucketCount
    <3>7. pc'[t] = "publish" /\ target'[t] = Place(e, i, old)
      BY <1>1, <2>19 DEF Store
    <3>8. TargetRight(cells[Address], CellCount(Address), op[t].key, target[t])'
      BY <2>0, <3>3, <3>4, <3>6, <3>7 DEF CellCount, k
    <3> QED
      BY <3>7, <3>8 DEF Right, InSearch
  <2>20. CASE PutLocked(t)
    <3>1. PICK e \in ProbeDist(m) : \E i \in Slots :
            \/ /\ InsertTarget(cur, m, k, e, i)
               /\ Store(t, ProbeCell(k, m, e), i, None)
            \/ \E old \in Slots :
                 /\ UpdateTarget(cur, m, k, e, old, i)
                 /\ Store(t, ProbeCell(k, m, e), i, old)
      BY <2>20 DEF PutLocked, cur, m, k
    <3>2. PICK i \in Slots :
            \/ /\ InsertTarget(cur, m, k, e, i)
               /\ Store(t, ProbeCell(k, m, e), i, None)
            \/ \E old \in Slots :
                 /\ UpdateTarget(cur, m, k, e, old, i)
                 /\ Store(t, ProbeCell(k, m, e), i, old)
      BY <3>1
    <3>3. op[t].kind = "put" /\ pc[t] = "lock" /\ k \in Keys
      BY <2>2, <2>20 DEF PutLocked
    <3> DEFINE f == ProbeCell(k, m, e)
    <3>4. f \in 0..(m - 1)
      BY <2>1, <3>3, ProbeInBucket, ProbeAssumption DEF ProbeDist
    <3>5. CASE InsertTarget(cur, m, k, e, i) /\ Store(t, f, i, None)
      <4>1. i \notin ValidBitSet(cur[f]) /\ e \in Visited(cur, m, k) /\ FindsNothing(cur, m, k)
        BY <3>5 DEF InsertTarget, Lowest, Last, EraseDists, EndDists, EraseBitSet,
                    BackupBitSet, ValidBitSet
      <4>2. NoneHere(cur, m, k)
        BY <2>1, <3>3, <4>1, NothingFoundNothingThere DEF NoneHere, MatchBitSet, GoodArray
      <4>3. Place(f, i, None).cell = f /\ Place(f, i, None).old = None
        BY DEF Place
      <4>4. TargetRight(cur, m, k, Place(f, i, None))
        BY <4>1, <4>2, <4>3 DEF TargetRight, OnWay
      <4> QED
        BY <2>19, <3>3, <3>4, <3>5, <4>1, <4>4
    <3>6. ASSUME NEW old \in Slots, UpdateTarget(cur, m, k, e, old, i), Store(t, f, i, old)
          PROVE  Right(t)'
      <4>1. /\ i \notin ValidBitSet(cur[f]) /\ e \in Visited(cur, m, k)
            /\ old \in MatchBitSet(cur[f], k)
        BY <3>6 DEF UpdateTarget, Finds, HitDists, Lowest, BackupBitSet, ValidBitSet
      <4>2. Place(f, i, old).cell = f /\ Place(f, i, old).old = old /\ old # None
        BY SentinelAssumption DEF Place
      <4>3. TargetRight(cur, m, k, Place(f, i, old))
        BY <4>1, <4>2 DEF TargetRight, OnWay
      <4> QED
        BY <2>19, <3>3, <3>4, <3>6, <4>1, <4>3
    <3> QED
      BY <3>2, <3>5, <3>6
  <2>21. CASE PinnedLocked(t)
    <3>1. /\ op[t].kind = "put" /\ pc[t] = "lock" /\ build.pinned /\ at[t].addr = Address
      BY <2>21 DEF PinnedLocked
    <3>2. InSearch(t) /\ TargetOK(cur, m, target[t])
      BY <3>1 DEF InSearch, ThreadOK, HasTarget, cur, m
    <3>3. SearchRight(View(t), cur, m, cur, m, k)
      BY <2>3, <3>1, <3>2 DEF b, n, cur, m
    <3>4. TargetRight(cur, m, k, target[t])
      BY <3>1, <3>3 DEF SearchRight, View
    <3>5. ASSUME NEW i \in Slots, SlotNow(cur[target[t].cell], target[t], i),
                 Store(t, target[t].cell, i, target[t].old)
          PROVE  Right(t)'
      <4>1. i \notin ValidBitSet(cur[target[t].cell])
        BY <3>5 DEF SlotNow, Occupied, Lowest, EraseBitSet, BackupBitSet, ValidBitSet
      <4>2. target[t].cell \in 0..(m - 1)
        BY <3>2 DEF TargetOK
      <4>3. TargetRight(cur, m, k, Place(target[t].cell, i, target[t].old))
        BY <3>4 DEF TargetRight, Place
      <4> QED
        BY <2>19, <3>1, <3>5, <4>1, <4>2, <4>3
    <3>6. \/ pc'[t] \in {"start", "exit"}
          \/ \E i \in Slots : /\ SlotNow(cur[target[t].cell], target[t], i)
                              /\ Store(t, target[t].cell, i, target[t].old)
      BY <1>1, <2>21 DEF PinnedLocked, Exit, cur
    <3> QED
      BY <1>3, <3>5, <3>6
  <2>22. ASSUME NEW o \in Calls, Begin(t, o) PROVE Right(t)'
    BY <1>5, <2>22
  <2> QED
    BY <1>6, <2>7, <2>8, <2>9, <2>10, <2>11, <2>12, <2>14, <2>15, <2>16, <2>17, <2>18,
       <2>20, <2>21, <2>22 DEF Step, SearchStep, WriteStep
<1> QED
  BY <1>5, <1>6, <1>7, CallsMoveOn

-----------------------------------------------------------------------------
(* In the default build a Put has looked for its slot in the lock, and so   *)
(* what it publishes leaves the cell its reserved slot.                     *)

Reserves(t) ==
  pc[t] = "publish" =>
    LET c == cells[Address][target[t].cell] IN
      /\ target[t].old = None =>
           \/ target[t].slot \in EraseBitSet(c)
           \/ target[t].slot \in BackupBitSet(c) /\ ~Full(c)
      /\ target[t].old # None => target[t].slot \in BackupBitSet(c)

LEMMA WroteKeepsFull ==
  ASSUME ArraysOK, NEW c, NEW x, Wrote(c, x), CellSound(x),
         Full(cells[Address][c]) => Full(x),
         \A e \in 0..(CellCount(Address) - 1) : CellSound(cells[Address][e])
  PROVE  KeepsFull
<1> DEFINE b == cells[Address]
<1>1. DOMAIN b = 0..(CellCount(Address) - 1)
  BY DEF ArraysOK, Bucket
<1>2. /\ Address' = Address /\ cells'[Address] = [b EXCEPT ![c] = x]
      /\ c \in 0..(CellCount(Address) - 1)
  BY DEF Wrote
<1>3. /\ DOMAIN cells'[Address'] = DOMAIN b
      /\ \A e \in DOMAIN b : cells'[Address'][e] = IF e = c THEN x ELSE b[e]
  BY <1>1, <1>2
<1>4. \A e \in DOMAIN cells'[Address'] : CellSound(cells'[Address'][e])
  BY <1>1, <1>3
<1>5. \A e \in DOMAIN b : Full(b[e]) => Full(cells'[Address][e])
  BY <1>2, <1>3
<1> QED
  BY <1>4, <1>5 DEF KeepsFull

LEMMA DefaultKeepsFull ==
  ASSUME ArraysOK, LocalOK, NEW t \in Threads, ThreadOK(t), Alone, GoodInv,
         Reserves(t), Step(t)
  PROVE  KeepsFull
<1> DEFINE b == cells[Address]
           n == CellCount(Address)
<1>0. build' = build
  BY Framed DEF Frame
<1>1. /\ Address \in 1..Address /\ n \in Nat \ {0} /\ b \in Bucket(n)
      /\ \A e \in 0..(n - 1) : HoldsRecords(b[e])
  BY DEF ArraysOK
<1>2. /\ \A e \in 0..(n - 1) : CellSound(b[e]) /\ b[e] \in Cell
      /\ op[t].kind \in {"put", "delete"} => Right(t)
  BY <1>1 DEF GoodInv, GoodArray, Alone, Bucket
<1>3. DOMAIN b = 0..(n - 1)
  BY <1>1 DEF Bucket
<1> HIDE DEF b, n
<1>4. CASE Quiet
  <2>1. Address' = Address /\ cells' = cells
    BY <1>4 DEF Quiet, Address
  <2> QED
    BY <2>1, <1>2, <1>3 DEF KeepsFull, b
<1>5. CASE Erase(t)
  <2> DEFINE c == target[t].cell
             x == EraseSlot(b[c], target[t].slot)
  <2>1. pc[t] = "lock" /\ op[t].kind = "delete" /\ at[t].addr = Address
    BY <1>5 DEF Erase
  <2>2. Wrote(c, x)
    BY <1>0, <1>5, EraseWrites DEF b
  <2>3. SearchRight(View(t), b, n, b, n, op[t].key)
    BY <2>1, <1>2 DEF Right, InSearch, b, n
  <2>4. target[t].slot \in MatchBitSet(b[c], op[t].key) /\ c \in 0..(n - 1)
    BY <2>1, <2>2, <2>3 DEF SearchRight, View, Wrote, n
  <2>5. target[t].slot \in Slots /\ target[t].slot \in ValidBitSet(b[c])
    BY <2>4, <1>1, ValidInSlots DEF MatchBitSet
  <2>6. b[c] \in Cell /\ CellSound(b[c]) /\ HoldsRecords(b[c])
    BY <2>4, <1>1, <1>2
  <2>7. CellSound(x) /\ (Full(b[c]) => Full(x))
    BY <2>5, <2>6, EraseSound
  <2> HIDE DEF x, c
  <2> QED
    BY <2>2, <2>7, <1>2, WroteKeepsFull DEF b, n
<1>6. CASE Publish(t)
  <2> DEFINE p == target[t]
             c == b[p.cell]
             x == NewVersion(c, p)
  <2>1. /\ pc[t] = "publish"
        /\ Wrote(p.cell, x) /\ Stored(b, n, op[t], p) /\ rec(t) \in Record
    BY <1>0, <1>6, PublishWrites DEF b, n, Publish
  <2>2. /\ op[t].kind = "put" /\ p.cell \in 0..(n - 1) /\ p.slot \in Slots
        /\ p.old \in Slots \cup {None} /\ c.slot[p.slot] = rec(t)
    BY <2>1 DEF Stored, TargetOK, rec
  <2>3. c \in Cell /\ CellSound(c) /\ HoldsRecords(c)
    BY <2>2, <1>1, <1>2
  <2>4. TargetRight(b, n, op[t].key, p)
    BY <2>1, <2>2, <1>2 DEF Right, b, n
  <2>5. /\ p.old = None =>
             \/ p.slot \in EraseBitSet(c)
             \/ p.slot \in BackupBitSet(c) /\ ~Full(c)
        /\ p.old # None => p.slot \in BackupBitSet(c) /\ p.old \in ValidBitSet(c)
    BY <2>1, <2>4 DEF Reserves, TargetRight, MatchBitSet, b
  <2> HIDE DEF c, p
  <2>6. CASE p.old = None
    <3>1. CellSound(InsertToSlot(c, p.slot, rec(t)))
          /\ (Full(c) => Full(InsertToSlot(c, p.slot, rec(t))))
      BY <2>1, <2>2, <2>3, <2>5, <2>6, InsertSound
    <3>2. /\ x.bitmap = InsertToSlot(c, p.slot, rec(t)).bitmap
          /\ x.deleted = InsertToSlot(c, p.slot, rec(t)).deleted
      BY <2>3, <2>6 DEF NewVersion, InsertToSlot, Cell
    <3> QED
      BY <3>1, <3>2, <2>1, <1>2, WroteKeepsFull DEF CellSound, Full, b, n, c
  <2>7. CASE p.old # None
    <3>1. CellSound(UpdateToSlot(c, p.slot, p.old, rec(t)))
          /\ (Full(c) => Full(UpdateToSlot(c, p.slot, p.old, rec(t))))
      BY <2>1, <2>2, <2>3, <2>5, <2>7, UpdateSound
    <3>2. /\ x.bitmap = UpdateToSlot(c, p.slot, p.old, rec(t)).bitmap
          /\ x.deleted = UpdateToSlot(c, p.slot, p.old, rec(t)).deleted
      BY <2>3, <2>7 DEF NewVersion, UpdateToSlot, Cell
    <3> QED
      BY <3>1, <3>2, <2>1, <1>2, WroteKeepsFull DEF CellSound, Full, b, n, c
  <2> QED
    BY <2>6, <2>7
<1>7. CASE Storing(t)
  <2>1. PICK c \in 0..(CellCount(Address) - 1), i \in Slots, old \in Slots \cup {None} :
          /\ op[t].kind = "put" /\ pc[t] = "lock" /\ Store(t, c, i, old)
          /\ i \notin ValidBitSet(b[c])
    BY <1>7 DEF Storing, b
  <2>2. Wrote(c, SlotSet(b[c], i, rec(t))) /\ rec(t) \in Record
    BY <1>0, <2>1, StoreWrites DEF b
  <2>3. b[c] \in Cell /\ CellSound(b[c]) /\ HoldsRecords(b[c])
    BY <1>1, <1>2 DEF n
  <2>4. CellSound(SlotSet(b[c], i, rec(t))) /\ (Full(b[c]) => Full(SlotSet(b[c], i, rec(t))))
    BY <2>1, <2>2, <2>3, SlotSetKeeps
  <2> QED
    BY <2>2, <2>4, <1>2, WroteKeepsFull DEF b, n
<1>8. CASE Growing(t)
  <2>1. /\ Address' = Address + 1
        /\ cells'[Address + 1] = Rehashed(b)
    BY <1>0, <1>8, CellsGrown DEF Growing, LocalOK, b, n
  <2>2. /\ Rehashed(b) \in Bucket(2 * n) /\ SoundBucket(Rehashed(b), 2 * n)
    BY <1>1, RehashedTyped
  <2>3. \A c \in DOMAIN cells'[Address'] : CellSound(cells'[Address'][c])
    BY <2>1, <2>2 DEF Bucket, SoundBucket
  <2>4. Address' # Address
    BY <1>1, <2>1
  <2> QED
    BY <2>3, <2>4 DEF KeepsFull
<1> QED
  BY <1>4, <1>5, <1>6, <1>7, <1>8, Changes

LEMMA ReservesStep ==
  ASSUME ArraysOK, LocalOK, ~build.pinned, NEW t \in Threads, ThreadOK(t), Step(t),
         NEW u \in Threads, ThreadOK(u), Reserves(u)
  PROVE  Reserves(u)'
<1> USE DEF Goto
<1>0. /\ DOMAIN pc = Threads /\ DOMAIN target = Threads
      /\ build' = build
  BY Framed DEF Frame, LocalOK
<1>1. CASE u # t
  <2>1. pc'[u] = pc[u] /\ target'[u] = target[u]
    BY <1>1, Framed DEF Frame
  <2>2. SUFFICES ASSUME pc[u] = "publish" PROVE Reserves(u)'
    BY <2>1 DEF Reserves
  <2>3. cells' = cells
    BY <1>1, <2>2, LockHeld DEF ThreadOK
  <2> QED
    BY <2>1, <2>3 DEF Reserves, Address
<1>2. CASE u = t
  <2>1. SUFFICES ASSUME pc'[t] = "publish" PROVE Reserves(t)'
    BY <1>2 DEF Reserves
  <2>2. PutLocked(t)
    <3>1. ASSUME NEW o \in Calls PROVE ~Begin(t, o)
      BY <1>0, <2>1 DEF Begin
    <3>2. ~SearchStep(t)
      BY <1>0, <2>1 DEF SearchStep, Start, CopyCell, Hit, NextCell, Miss, ChooseSlot,
                        NoSlot, CheckVersion
    <3>3. ~(Erase(t) \/ DeleteRetry(t) \/ PinnedMoved(t) \/ PinnedLocked(t)
            \/ TryRehashLock(t) \/ Publish(t) \/ Return(t))
      BY <1>0, <2>1 DEF Erase, DeleteRetry, PinnedMoved, PinnedLocked, TryRehashLock,
                        Publish, Return
    <3>4. ~(PutRehash(t) \/ PinnedRehash(t))
      BY <1>0, <2>1 DEF PutRehash, PinnedRehash, Exit
    <3> QED
      BY <3>1, <3>2, <3>3, <3>4 DEF Step, WriteStep
  <2> DEFINE b == cells[Address]
             n == CellCount(Address)
             k == op[t].key
  <2>3. /\ n \in Nat \ {0} /\ b \in Bucket(n) /\ k \in Keys
        /\ op[t].kind = "put" /\ pc[t] = "lock"
        /\ \A e \in 0..(n - 1) : HoldsRecords(b[e])
    <3>1. op[t].kind = "put" /\ pc[t] = "lock"
      BY <2>2 DEF PutLocked
    <3>2. k \in Keys
      BY <1>2, <3>1, CallFacts DEF ThreadOK
    <3> QED
      BY <3>1, <3>2 DEF ArraysOK
  <2>4. PICK d \in ProbeDist(n) : \E i \in Slots :
          \/ /\ InsertTarget(b, n, k, d, i)
             /\ Store(t, ProbeCell(k, n, d), i, None)
          \/ \E old \in Slots :
               /\ UpdateTarget(b, n, k, d, old, i)
               /\ Store(t, ProbeCell(k, n, d), i, old)
    BY <2>2 DEF PutLocked
  <2> DEFINE c == ProbeCell(k, n, d)
  <2>5. PICK i \in Slots, old \in Slots \cup {None} :
          /\ Store(t, c, i, old)
          /\ old = None => i \in EraseBitSet(b[c]) \/ (i \in BackupBitSet(b[c]) /\ ~Full(b[c]))
          /\ old # None => i \in BackupBitSet(b[c])
    <3>1. PICK i \in Slots :
            \/ /\ InsertTarget(b, n, k, d, i)
               /\ Store(t, c, i, None)
            \/ \E old \in Slots :
                 /\ UpdateTarget(b, n, k, d, old, i)
                 /\ Store(t, c, i, old)
      BY <2>4
    <3>2. CASE InsertTarget(b, n, k, d, i) /\ Store(t, c, i, None)
      <4>1. i \in EraseBitSet(b[c]) \/ (i \in BackupBitSet(b[c]) /\ ~Full(b[c]))
        BY <3>2 DEF InsertTarget, EndDists, Lowest
      <4> QED
        BY <3>2, <4>1
    <3>3. ASSUME NEW old \in Slots, UpdateTarget(b, n, k, d, old, i), Store(t, c, i, old)
          PROVE  i \in BackupBitSet(b[c]) /\ old # None
      BY <3>3, SentinelAssumption DEF UpdateTarget, Lowest
    <3> QED
      BY <3>1, <3>2, <3>3
  <2>6. c \in 0..(n - 1)
    BY <2>3, ProbeInBucket, ProbeAssumption DEF ProbeDist
  <2> HIDE DEF c
  <2>7. Wrote(c, SlotSet(b[c], i, rec(t))) /\ rec(t) \in Record
    BY <1>0, <2>3, <2>5, <2>6, StoreWrites
  <2>8. b[c] \in Cell /\ HoldsRecords(b[c])
    BY <2>3, <2>6 DEF Bucket
  <2>9. /\ SlotSet(b[c], i, rec(t)).bitmap = b[c].bitmap
        /\ SlotSet(b[c], i, rec(t)).deleted = b[c].deleted
    BY <2>5, <2>7, <2>8, SlotSetCell
  <2>10. cells'[Address'][c] = SlotSet(b[c], i, rec(t))
    BY <2>3, <2>6, <2>7 DEF Wrote, Bucket
  <2>11. target'[t] = Place(c, i, old)
    BY <1>0, <2>5 DEF Store
  <2> HIDE DEF b
  <2>12. /\ target'[t].cell = c /\ target'[t].slot = i /\ target'[t].old = old
         /\ EraseBitSet(cells'[Address'][c]) = EraseBitSet(b[c])
         /\ BackupBitSet(cells'[Address'][c]) = BackupBitSet(b[c])
         /\ Full(cells'[Address'][c]) <=> Full(b[c])
    BY <2>9, <2>10, <2>11 DEF Place, EraseBitSet, BackupBitSet, Full
  <2> QED
    BY <2>5, <2>12 DEF Reserves
<1> QED
  BY <1>1, <1>2

-----------------------------------------------------------------------------
(* The inductive invariant behind the other properties.                     *)

SharedInv ==
  /\ Alone /\ Missed
  /\ intact /\ within => GoodInv
  /\ ~build.pinned /\ within => intact /\ \A t \in Threads : Reserves(t)

LEMMA SharedInit == Init => SharedInv
<1> SUFFICES ASSUME Init PROVE SharedInv
  OBVIOUS
<1>1. /\ Address = 1 /\ cells[1] = EmptyBucket(InitCellCount) /\ InitCellCount \in Nat \ {0}
      /\ \A t \in Threads : pc[t] = "idle" /\ ~disturbed[t] /\ got[t] = None
      /\ intact
  BY BuildsAssumption DEF Init, Address
<1>2. CellCount(1) = InitCellCount
  BY <1>1, EmptySound, BucketCount DEF CellCount
<1>3. GoodArray(EmptyBucket(InitCellCount), InitCellCount)
  BY <1>1, EmptySound, EmptyMap DEF GoodArray, SoundBucket
<1>4. GoodInv
  BY <1>1, <1>2, <1>3 DEF GoodInv, Right, InSearch
<1>5. Alone /\ Missed /\ \A t \in Threads : Reserves(t)
  BY <1>1, SentinelAssumption DEF Alone, Missed, Reserves
<1> QED
  BY <1>1, <1>4, <1>5 DEF SharedInv

LEMMA SharedUnchanged ==
  ASSUME SharedInv, UNCHANGED vars
  PROVE  SharedInv'
<1> USE DEF vars, bucketVars, searchVars, historyVars
<1>1. Address' = Address /\ \A a : CellCount(a)' = CellCount(a)
  BY DEF Address, CellCount
<1>2. ASSUME NEW t \in Threads PROVE (Right(t)' <=> Right(t)) /\ (Reserves(t)' <=> Reserves(t))
  <2>1. View(t)' = View(t)
    BY DEF View
  <2> QED
    BY <1>1, <2>1 DEF Right, InSearch, CellCount, Reserves
<1>3. GoodInv' <=> GoodInv
  BY <1>1, <1>2 DEF GoodInv
<1>4. (Alone' <=> Alone) /\ (Missed' <=> Missed)
  BY DEF Alone, Missed
<1> QED
  BY <1>2, <1>3, <1>4 DEF SharedInv

LEMMA SharedStep ==
  ASSUME OneWriter, TypeInv, SharedInv, [Next]_vars
  PROVE  SharedInv'
<1>1. CASE UNCHANGED vars
  BY <1>1, SharedUnchanged
<1>2. CASE Next
  <2>0. /\ ArraysOK /\ LocalOK
        /\ \A u \in Threads : ThreadOK(u) /\ HistOK(u)
        /\ Alone /\ Missed
    BY DEF TypeInv, SharedInv
  <2>1. PICK t \in Threads : Step(t)
    BY <1>2 DEF Next
  <2>2. /\ ThreadOK(t) /\ build' = build
        /\ intact' = (intact /\ KeepsFull) /\ within' = (within /\ InReach)
    BY <1>2, <2>0, <2>1, Framed DEF Frame, Next, InReach
  <2>3. Alone' /\ Missed'
    BY <2>0, <2>1, AloneStep, MissedStep
  <2>4. ASSUME intact', within' PROVE GoodInv'
    <3>1. GoodInv /\ KeepsFull /\ InReach
      BY <2>2, <2>4 DEF SharedInv
    <3>2. StepGood(t)
      BY <2>0, <2>1, <3>1, GoodStep
    <3>3. \A a \in 1..Address' : GoodArray(cells'[a], CellCount(a)')
      BY <3>2 DEF StepGood, CellCount
    <3>4. ASSUME NEW u \in Threads, ~disturbed'[u] PROVE Right(u)'
      <4>1. CASE u = t
        BY <2>0, <2>1, <3>1, <3>4, <4>1, SelfRight
      <4>2. CASE u # t /\ pc[u] = "idle"
        <5>1. pc'[u] = "idle"
          BY <2>0, <2>1, <4>2, Framed DEF Frame
        <5> QED
          BY <5>1 DEF Right, InSearch
      <4>3. CASE u # t /\ pc[u] # "idle"
        <5>1. ~disturbed[u]
          <6>1. ASSUME NEW o \in Calls, Begin(t, o) PROVE disturbed[u] => disturbed'[u]
            BY <4>3, <6>1 DEF Begin
          <6>2. CASE Return(t)
            <7>1. disturbed' = [disturbed EXCEPT ![t] = FALSE]
              BY <6>2 DEF Return
            <7>2. DOMAIN disturbed = Threads
              BY <2>0 DEF LocalOK
            <7>3. disturbed'[u] = disturbed[u]
              BY <4>3, <7>1, <7>2
            <7> QED
              BY <3>4, <7>3
          <6>3. CASE disturbed' = disturbed
            BY <3>4, <6>3
          <6> QED
            BY <2>0, <2>1, <3>4, <6>1, <6>2, <6>3, CallsMoveOn
        <5>2. op[u].kind # "none"
          BY <2>0, <4>3, CallFacts DEF ThreadOK
        <5>3. ~Writes(op[t], op[u].key)
          BY <2>0, <4>3, <5>1, <5>2 DEF HistOK
        <5>4. Right(u)
          BY <3>1, <5>1 DEF GoodInv
        <5> QED
          BY <2>0, <2>1, <3>2, <4>3, <5>3, <5>4, OtherRight
      <4> QED
        BY <4>1, <4>2, <4>3
    <3> QED
      BY <3>3, <3>4 DEF GoodInv
  <2>5. ASSUME ~build.pinned, within' PROVE intact' /\ \A u \in Threads : Reserves(u)'
    <3>1. intact /\ GoodInv /\ \A u \in Threads : Reserves(u)
      BY <2>2, <2>5 DEF SharedInv
    <3>2. KeepsFull
      BY <2>0, <2>1, <3>1, DefaultKeepsFull
    <3>3. \A u \in Threads : Reserves(u)'
      BY <2>0, <2>1, <2>5, <3>1, ReservesStep
    <3> QED
      BY <2>2, <3>1, <3>2, <3>3
  <2> QED
    BY <2>2, <2>3, <2>4, <2>5 DEF SharedInv
<1> QED
  BY <1>1, <1>2

(* While the cells are intact and the records within reach every array of   *)
(* cells is in order and every undisturbed search is right so far.          *)
THEOREM SharedCorrect == OneWriter => (Spec => []SharedInv)
<1> SUFFICES ASSUME OneWriter PROVE Spec => []SharedInv
  OBVIOUS
<1>1. TypeInv /\ SharedInv /\ [Next]_vars => SharedInv'
  BY SharedStep
<1> QED
  BY <1>1, SharedInit, TypeCorrect, PTL DEF Spec

(* The reserved slot of a cell stays free in the default build, and a full  *)
(* cell full, with one writer for each key: in the lock a Put looks for its *)
(* slot, and publishes it.                                                  *)
THEOREM SharedSlotReserved == OneWriter => (Spec => []BackupSlotLeft)
<1>1. SharedInv => BackupSlotLeft
  BY DEF SharedInv, BackupSlotLeft
<1> QED
  BY <1>1, SharedCorrect, PTL

-----------------------------------------------------------------------------
(* The map that a bucket stands for.                                        *)

LEMMA HoldingMatch ==
  ASSUME NEW n \in Nat, NEW b \in Bucket(n), NEW k
  PROVE  /\ \A p \in Holding(b, k) :
              /\ p = <<p[1], p[2]>> /\ p[1] \in 0..(n - 1) /\ p[2] \in MatchBitSet(b[p[1]], k)
              /\ Content(b, p) = b[p[1]].slot[p[2]]
         /\ \A c \in 0..(n - 1) : \A i \in MatchBitSet(b[c], k) : <<c, i>> \in Holding(b, k)
<1>1. DOMAIN b = 0..(n - 1)
  BY DEF Bucket
<1>2. ASSUME NEW p \in Holding(b, k)
      PROVE  /\ p = <<p[1], p[2]>> /\ p[1] \in 0..(n - 1) /\ p[2] \in MatchBitSet(b[p[1]], k)
             /\ Content(b, p) = b[p[1]].slot[p[2]]
  BY <1>1, <1>2 DEF Holding, Positions, Valid, Content, MatchBitSet
<1>3. ASSUME NEW c \in 0..(n - 1), NEW i \in MatchBitSet(b[c], k)
      PROVE  <<c, i>> \in Holding(b, k)
  <2>1. i \in ValidBitSet(b[c]) /\ i \in Slots /\ b[c].slot[i].key = k
    BY <1>3, ValidInSlots DEF MatchBitSet
  <2>2. <<c, i>>[1] = c /\ <<c, i>>[2] = i
    OBVIOUS
  <2>3. <<c, i>> \in Positions(b)
    BY <1>1, <2>1 DEF Positions
  <2> QED
    BY <2>1, <2>2, <2>3 DEF Holding, Valid, Content
<1> QED
  BY <1>2, <1>3

LEMMA HoldingOne ==
  ASSUME NEW n \in Nat, NEW b \in Bucket(n), UniqueKeys(b, n), NEW k,
         NEW p \in Holding(b, k), NEW q \in Holding(b, k)
  PROVE  p = q
<1>1. /\ p = <<p[1], p[2]>> /\ p[1] \in 0..(n - 1) /\ p[2] \in MatchBitSet(b[p[1]], k)
      /\ q = <<q[1], q[2]>> /\ q[1] \in 0..(n - 1) /\ q[2] \in MatchBitSet(b[q[1]], k)
  BY HoldingMatch
<1>2. p[1] = q[1] /\ p[2] = q[2]
  BY <1>1 DEF UniqueKeys, MatchBitSet
<1> QED
  BY <1>1, <1>2

LEMMA MapMiss ==
  ASSUME NEW n \in Nat, NEW b \in Bucket(n), NEW k \in Keys, NoneHere(b, n, k)
  PROVE  MapIn(b)[k] = Absent
<1>1. Holding(b, k) = {}
  BY HoldingMatch DEF NoneHere
<1> QED
  BY <1>1 DEF MapIn

LEMMA MapHit ==
  ASSUME NEW n \in Nat, NEW b \in Bucket(n), UniqueKeys(b, n), NEW k \in Keys,
         NEW r, r.key = k, Holds(b, n, r)
  PROVE  MapIn(b)[k] = r.val
<1>1. PICK c \in 0..(n - 1) : \E i \in ValidBitSet(b[c]) : b[c].slot[i] = r
  BY DEF Holds
<1>2. PICK i \in ValidBitSet(b[c]) : b[c].slot[i] = r
  BY <1>1
<1>3. i \in MatchBitSet(b[c], k)
  BY <1>2 DEF MatchBitSet
<1>4. <<c, i>> \in Holding(b, k) /\ Content(b, <<c, i>>) = r
  BY <1>2, <1>3, HoldingMatch DEF Content
<1> DEFINE p == CHOOSE q \in Holding(b, k) : TRUE
<1>5. p = <<c, i>>
  <2>1. p \in Holding(b, k)
    BY <1>4
  <2> QED
    BY <2>1, <1>4, HoldingOne
<1>6. MapIn(b)[k] = Content(b, p).val
  BY <1>4 DEF MapIn
<1> QED
  BY <1>4, <1>5, <1>6

LEMMA MapSame ==
  ASSUME NEW n \in Nat, NEW b \in Bucket(n), UniqueKeys(b, n),
         NEW m \in Nat, NEW b2 \in Bucket(m), UniqueKeys(b2, m),
         NEW k \in Keys, SameKey(b, n, b2, m, k)
  PROVE  MapIn(b2)[k] = MapIn(b)[k]
<1>1. CASE NoneHere(b, n, k)
  BY <1>1, NoneSame, MapMiss
<1>2. CASE ~NoneHere(b, n, k)
  <2>1. PICK c \in 0..(n - 1) : MatchBitSet(b[c], k) # {}
    BY <1>2 DEF NoneHere
  <2>2. PICK i \in MatchBitSet(b[c], k) : TRUE
    BY <2>1
  <2> DEFINE r == b[c].slot[i]
  <2>3. r.key = k /\ Holds(b, n, r)
    BY <2>2 DEF MatchBitSet, Holds
  <2>4. Holds(b2, m, r)
    BY <2>3 DEF SameKey
  <2> HIDE DEF r
  <2> QED
    BY <2>3, <2>4, MapHit
<1> QED
  BY <1>1, <1>2

(* What TypeInv and SharedInv say of the current cells.                     *)
LEMMA CurrentCells ==
  ASSUME TypeInv, SharedInv, intact, within
  PROVE  /\ CellCount(Address) \in Nat \ {0} /\ cells[Address] \in Bucket(CellCount(Address))
         /\ UniqueKeys(cells[Address], CellCount(Address))
         /\ \A c \in 0..(CellCount(Address) - 1) : HoldsRecords(cells[Address][c])
  BY DEF TypeInv, ArraysOK, SharedInv, GoodInv, GoodArray

(* With one writer for each key, and while the cells are intact and the     *)
(* records within reach, no key is ever in two valid slots.                 *)
THEOREM SharedOneSlotPerKey == OneWriter => (Spec => []OneSlotPerKey)
<1>1. TypeInv /\ SharedInv => OneSlotPerKey
  <2> SUFFICES ASSUME TypeInv, SharedInv, intact, within, NEW k \in Keys,
                      NEW p \in Holding(cells[Address], k), NEW q \in Holding(cells[Address], k)
               PROVE  p = q
    BY DEF OneSlotPerKey
  <2> QED
    BY CurrentCells, HoldingOne
<1> QED
  BY <1>1, TypeCorrect, SharedCorrect, PTL

(* A call whose key nobody else writes meanwhile finds what is in the map,  *)
(* through any steps of the others and any rehash that finds room within    *)
(* reach, while the cells are intact.                                       *)
THEOREM SharedUndisturbed == OneWriter => (Spec => []UndisturbedIsRight)
<1>1. TypeInv /\ SharedInv => UndisturbedIsRight
  <2> SUFFICES ASSUME TypeInv, SharedInv, intact, within, NEW t \in Threads,
                      pc[t] = "done", ~disturbed[t]
               PROVE  /\ got[t] = Absent => MapOf[op[t].key] = Absent
                      /\ op[t].kind = "find" /\ got[t] # Absent => got[t] = MapOf[op[t].key]
    BY DEF UndisturbedIsRight
  <2> DEFINE b == cells[Address]
             n == CellCount(Address)
             k == op[t].key
  <2>1. n \in Nat \ {0} /\ b \in Bucket(n) /\ UniqueKeys(b, n)
    BY CurrentCells
  <2>2. k \in Keys
    BY CallFacts DEF TypeInv, ThreadOK
  <2>3. ResultRight(View(t), b, n)
    BY DEF SharedInv, GoodInv, Right
  <2> HIDE DEF b, n
  <2>4. /\ got[t] = Absent => NoneHere(b, n, k)
        /\ op[t].kind = "find" /\ got[t] # Absent => Holds(b, n, [key |-> k, val |-> got[t]])
    BY <2>3 DEF ResultRight, View
  <2> HIDE DEF k
  <2>5. got[t] = Absent => MapIn(b)[k] = Absent
    BY <2>1, <2>2, <2>4, MapMiss
  <2>6. op[t].kind = "find" /\ got[t] # Absent => MapIn(b)[k] = got[t]
    BY <2>1, <2>2, <2>4, MapHit
  <2> QED
    BY <2>5, <2>6 DEF MapOf, b, k
<1> QED
  BY <1>1, TypeCorrect, SharedCorrect, PTL

LEMMA NextCells ==
  ASSUME TypeInv', SharedInv', intact', within'
  PROVE  LET b2 == cells'[Address']
             m2 == Cardinality(DOMAIN cells'[Address'])
         IN  m2 \in Nat \ {0} /\ b2 \in Bucket(m2) /\ UniqueKeys(b2, m2)
  BY DEF TypeInv, ArraysOK, SharedInv, GoodInv, GoodArray, CellCount

(* A Put that has only stored its slot, and a rehash, show nothing.         *)
LEMMA NothingShown ==
  ASSUME TypeInv, SharedInv, intact, within, InReach, NEW t \in Threads, Step(t),
         ~Erase(t), ~Publish(t), NEW k
  PROVE  SameKey(cells[Address], CellCount(Address),
                 cells'[Address'], Cardinality(DOMAIN cells'[Address']), k)
<1> DEFINE b == cells[Address]
           n == CellCount(Address)
<1>0. ArraysOK /\ LocalOK /\ ThreadOK(t)
  BY DEF TypeInv
<1>1. /\ Address \in 1..Address /\ n \in Nat \ {0} /\ b \in Bucket(n) /\ GoodArray(b, n)
      /\ \A c \in 0..(n - 1) : HoldsRecords(b[c])
  BY DEF TypeInv, ArraysOK, SharedInv, GoodInv
<1>2. build' = build
  BY <1>0, Framed DEF Frame
<1> HIDE DEF b, n
<1>3. CASE Quiet
  <2>1. cells' = cells /\ Address' = Address
    BY <1>3 DEF Quiet, Address
  <2> QED
    BY <2>1, SparesNothing DEF CellCount
<1>4. CASE Storing(t)
  <2>1. PICK c \in 0..(CellCount(Address) - 1), i \in Slots, old \in Slots \cup {None} :
          /\ op[t].kind = "put" /\ pc[t] = "lock" /\ Store(t, c, i, old)
          /\ i \notin ValidBitSet(b[c])
    BY <1>4 DEF Storing, b
  <2> DEFINE b2 == [b EXCEPT ![c] = SlotSet(b[c], i, rec(t))]
  <2>2. Wrote(c, SlotSet(b[c], i, rec(t))) /\ rec(t) \in Record /\ c \in 0..(n - 1)
    BY <1>0, <1>2, <2>1, StoreWrites DEF b, n
  <2>3. SameKey(b, n, b2, n, k)
    BY <1>1, <2>1, <2>2, StoreGood
  <2>4. cells'[Address'] = b2 /\ b2 \in Bucket(n)
    BY <1>1, <2>2 DEF Wrote, Bucket, b
  <2> HIDE DEF b2
  <2>5. Cardinality(DOMAIN b2) = n
    BY <1>1, <2>4, BucketCount
  <2> QED
    BY <2>3, <2>4, <2>5 DEF b, n
<1>5. CASE Growing(t)
  <2>1. /\ Address' = Address + 1 /\ cells'[Address + 1] = Rehashed(b)
        /\ Cardinality(DOMAIN cells'[Address + 1]) = 2 * n /\ ~Stuck(b)
    BY <1>0, <1>2, <1>5, CellsGrown DEF Growing, LocalOK, b, n
  <2>2. \A r : Holds(Rehashed(b), 2 * n, r) <=> Holds(b, n, r)
    <3>1. ~Overruns(b)
      BY <1>1, <2>1 DEF b, InReach
    <3> QED
      BY <3>1, <1>1, <2>1, RehashedRight
  <2> QED
    BY <2>1, <2>2 DEF SameKey, b, n
<1> QED
  BY <1>0, <1>3, <1>4, <1>5, Changes

(* Only the calls that write a key change what the map has for it, and only *)
(* at the step that shows it: no step of another key's Put or Delete and no *)
(* rehash loses a record or brings one back, intact and within.             *)
THEOREM SharedOthersUntouched == OneWriter => (Spec => OthersUntouched)
<1> DEFINE Kept == intact' /\ within' =>
             \A k \in Keys : MapOf'[k] # MapOf[k] =>
               \E t \in Threads : op[t].key = k /\ pc[t] # "done" /\ pc'[t] = "done"
<1>1. /\ TypeInv /\ SharedInv /\ TypeInv' /\ SharedInv' /\ [Next]_vars
      => [Kept]_vars
  <2> SUFFICES ASSUME TypeInv, SharedInv, TypeInv', SharedInv', Next, intact', within',
                      NEW k \in Keys, MapOf'[k] # MapOf[k]
               PROVE  \E t \in Threads : op[t].key = k /\ pc[t] # "done" /\ pc'[t] = "done"
    OBVIOUS
  <2> DEFINE b == cells[Address]
             n == CellCount(Address)
             b2 == cells'[Address']
             m == Cardinality(DOMAIN b2)
  <2>1. PICK t \in Threads : Step(t)
    BY DEF Next
  <2>2. /\ intact /\ KeepsFull /\ within /\ InReach
        /\ ArraysOK /\ LocalOK /\ ThreadOK(t) /\ Alone /\ GoodInv
    BY DEF Next, TypeInv, SharedInv, InReach
  <2>3. n \in Nat /\ b \in Bucket(n) /\ UniqueKeys(b, n)
    BY <2>2, CurrentCells
  <2>4. m \in Nat /\ b2 \in Bucket(m) /\ UniqueKeys(b2, m)
    BY NextCells
  <2>5. MapOf[k] = MapIn(b)[k] /\ MapOf'[k] = MapIn(b2)[k]
    BY DEF MapOf
  <2>6. CASE ~Erase(t) /\ ~Publish(t)
    <3>1. SameKey(b, n, b2, m, k)
      BY <2>1, <2>2, <2>6, NothingShown
    <3> HIDE DEF b, n, b2, m
    <3> QED
      BY <3>1, <2>3, <2>4, <2>5, MapSame
  <2>7. CASE Erase(t) \/ Publish(t)
    <3>1. pc[t] # "done" /\ pc'[t] = "done"
      BY <2>2, <2>7 DEF Erase, Publish, Goto, LocalOK
    <3>2. CASE ~Writes(op[t], k)
      <4>1. StepGood(t)
        BY <2>1, <2>2, GoodStep
      <4>2. SameKey(b, n, b2, m, k)
        BY <3>2, <4>1 DEF StepGood
      <4> HIDE DEF b, n, b2, m
      <4> QED
        BY <4>2, <2>3, <2>4, <2>5, MapSame
    <3> QED
      BY <3>1, <3>2 DEF Writes
  <2> QED
    BY <2>6, <2>7
<1> QED
  BY <1>1, TypeCorrect, SharedCorrect, PTL DEF Spec, OthersUntouched

(* Put and Delete have done what they say, in the cells that are current,   *)
(* when they return, intact and within.                                     *)
THEOREM SharedCallsTakeEffect == OneWriter => (Spec => CallsTakeEffect)
<1> DEFINE Done == intact' /\ within' =>
             \A t \in Threads : pc[t] # "done" /\ pc'[t] = "done" =>
               /\ op[t].kind = "put" => MapOf'[op[t].key] = op[t].val
               /\ op[t].kind = "delete" /\ got'[t] # Absent =>
                    MapOf[op[t].key] # Absent /\ MapOf'[op[t].key] = Absent
<1>1. /\ TypeInv /\ SharedInv /\ TypeInv' /\ SharedInv' /\ [Next]_vars
      => [Done]_vars
  <2> SUFFICES ASSUME TypeInv, SharedInv, TypeInv', SharedInv', Next, intact', within',
                      NEW u \in Threads, pc[u] # "done", pc'[u] = "done"
               PROVE  /\ op[u].kind = "put" => MapOf'[op[u].key] = op[u].val
                      /\ op[u].kind = "delete" /\ got'[u] # Absent =>
                           MapOf[op[u].key] # Absent /\ MapOf'[op[u].key] = Absent
    OBVIOUS
  <2> DEFINE b == cells[Address]
             n == CellCount(Address)
             b2 == cells'[Address']
             m == Cardinality(DOMAIN b2)
             k == op[u].key
  <2>1. PICK t \in Threads : Step(t)
    BY DEF Next
  <2>2. /\ intact /\ KeepsFull /\ within /\ InReach
        /\ ArraysOK /\ LocalOK /\ ThreadOK(t) /\ Alone /\ GoodInv
    BY DEF Next, TypeInv, SharedInv, InReach
  <2>3. /\ n \in Nat /\ b \in Bucket(n) /\ UniqueKeys(b, n)
        /\ \A c \in 0..(n - 1) : HoldsRecords(b[c])
    BY <2>2, CurrentCells
  <2>4. m \in Nat /\ b2 \in Bucket(m) /\ UniqueKeys(b2, m)
    BY NextCells
  <2>5. MapOf[k] = MapIn(b)[k] /\ MapOf'[k] = MapIn(b2)[k]
    BY DEF MapOf
  <2>6. u = t /\ DOMAIN pc = Threads /\ DOMAIN got = Threads
    BY <2>1, <2>2, Framed DEF Frame, LocalOK
  <2>7. k \in Keys
    <3>1. ThreadOK(u) /\ pc[u] # "idle"
      <4>1. ASSUME pc[t] = "idle" PROVE pc'[t] # "done"
        <5>1. PICK o \in Calls : Begin(t, o)
          BY <2>1, <4>1 DEF Step, SearchStep, WriteStep, Start, CopyCell, Hit, NextCell, Miss,
             ChooseSlot, NoSlot, CheckVersion, Erase, DeleteRetry, PutLocked, PutRehash,
             PinnedMoved, PinnedLocked, TryRehashLock, PinnedRehash, Publish, Return
        <5> QED
          BY <5>1, <2>6 DEF Begin, Goto
      <4> QED
        BY <2>2, <2>6, <4>1
    <3> QED
      BY <3>1, CallFacts DEF ThreadOK
  (* The steps that end a call.                                             *)
  <2>8. \/ Erase(t) \/ Publish(t)
        \/ op[t].kind = "find" \/ (op[t].kind = "delete" /\ got'[t] = Absent)
    <3>1. ASSUME NEW o \in Calls PROVE ~Begin(t, o)
      BY <2>6 DEF Begin, Goto
    <3>2. ~(Start(t) \/ CopyCell(t) \/ Hit(t) \/ NextCell(t) \/ ChooseSlot(t) \/ NoSlot(t))
      BY <2>6 DEF Start, CopyCell, Hit, NextCell, ChooseSlot, NoSlot, Goto
    <3>3. Miss(t) => got'[t] = Absent /\ op[t].kind # "put"
      BY <2>6 DEF Miss
    <3>4. CheckVersion(t) => op[t].kind = "find"
      BY <2>6 DEF CheckVersion, Goto
    <3>5. ~(DeleteRetry(t) \/ PutLocked(t) \/ PutRehash(t) \/ PinnedMoved(t) \/ PinnedLocked(t)
            \/ TryRehashLock(t) \/ PinnedRehash(t) \/ Return(t))
      <4>1. ~(DeleteRetry(t) \/ PinnedMoved(t) \/ TryRehashLock(t) \/ Return(t))
        BY <2>6 DEF DeleteRetry, PinnedMoved, TryRehashLock, Return, Goto
      <4>2. ~(PutLocked(t) \/ PinnedLocked(t))
        BY <2>6 DEF PutLocked, PinnedLocked, Store, Exit, Goto
      <4>3. ~(PutRehash(t) \/ PinnedRehash(t))
        BY <2>6 DEF PutRehash, PinnedRehash, Exit, Goto
      <4> QED
        BY <4>1, <4>2, <4>3
    <3>6. Miss(t) => op[t].kind \in {"find", "delete"}
      BY <2>6, <2>2, <3>3, CallFacts DEF ThreadOK, Miss
    <3> QED
      BY <2>1, <3>1, <3>2, <3>3, <3>4, <3>5, <3>6 DEF Step, SearchStep, WriteStep
  <2>9. CASE Erase(t)
    <3> DEFINE c == target[t].cell
               i == target[t].slot
               x == EraseSlot(b[c], i)
    <3>1. /\ Wrote(c, x) /\ i \in MatchBitSet(b[c], k)
          /\ NoneHere([b EXCEPT ![c] = x], n, k)
      BY <2>2, <2>6, <2>9, EraseShows
    <3>2. c \in 0..(n - 1) /\ b2 = [b EXCEPT ![c] = x] /\ x \in Cell
      BY <3>1 DEF Wrote
    <3>3. NoneHere(b2, n, k) /\ b2 \in Bucket(n)
      BY <2>3, <3>1, <3>2 DEF Bucket
    <3>4. op[u].kind = "delete"
      BY <2>6, <2>9 DEF Erase
    <3>5. b[c].slot[i] \in Record /\ b[c].slot[i].key = k /\ Holds(b, n, b[c].slot[i])
      BY <2>3, <3>1, <3>2 DEF MatchBitSet, ValidBitSet, HoldsRecords, Holds
    <3> HIDE DEF b, n, b2, m, c, i, k
    <3>6. MapIn(b)[k] = b[c].slot[i].val
      BY <2>3, <2>7, <3>5, MapHit
    <3>7. b[c].slot[i].val # Absent
      BY <3>5, SentinelAssumption DEF Record
    <3>8. MapIn(b2)[k] = Absent
      BY <2>3, <2>7, <3>3, MapMiss
    <3> QED
      BY <2>5, <3>4, <3>6, <3>7, <3>8 DEF k
  <2>10. CASE Publish(t)
    <3> DEFINE c == target[t].cell
               x == NewVersion(b[c], target[t])
    <3>1. /\ Wrote(c, x) /\ op[t].kind = "put"
          /\ Holds([b EXCEPT ![c] = x], n, rec(t))
          /\ GoodArray([b EXCEPT ![c] = x], n)
      BY <2>2, <2>10, PublishShows
    <3>2. c \in 0..(n - 1) /\ b2 = [b EXCEPT ![c] = x] /\ x \in Cell
      BY <3>1 DEF Wrote
    <3>3. Holds(b2, n, rec(t)) /\ b2 \in Bucket(n) /\ UniqueKeys(b2, n)
      BY <2>3, <3>1, <3>2 DEF Bucket, GoodArray
    <3>4. rec(t).key = k /\ rec(t).val = op[u].val
      BY <2>6 DEF rec
    <3> HIDE DEF b, n, b2, m, k
    <3>5. MapIn(b2)[k] = op[u].val
      BY <2>3, <2>7, <3>3, <3>4, MapHit
    <3> QED
      BY <2>5, <2>6, <3>1, <3>5 DEF k
  <2> QED
    BY <2>6, <2>8, <2>9, <2>10
<1> QED
  BY <1>1, TypeCorrect, SharedCorrect, PTL DEF Spec, CallsTakeEffect
=============================================================================
