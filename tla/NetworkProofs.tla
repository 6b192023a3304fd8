--------------------------- MODULE NetworkProofs ---------------------------
(***************************************************************************)
(* That the driver finds its frames, and that the two rings are queues,    *)
(* for a ring of any size.  What a ring holds is read as a row of slots    *)
(* that grows at one end and shrinks at the other; RingsInv says which     *)
(* slots that is while driver and adapter are in step, RtlInv the same of  *)
(* the RTL8139's buffer in its first lap.                                  *)
(***************************************************************************)
EXTENDS Network, SequenceTheorems, TLAPS

LEMMA AheadValue ==
  ASSUME NEW s \in Slots, NEW n \in 0 .. RingSize
  PROVE  /\ Ahead(s, n) = IF s + n < RingSize THEN s + n ELSE s + n - RingSize
         /\ Ahead(s, n) \in Slots
BY RingAssumption DEF Ahead, Slots

LEMMA AfterValue ==
  ASSUME NEW s \in Slots
  PROVE  /\ After(s) = IF s + 1 < RingSize THEN s + 1 ELSE 0
         /\ After(s) \in Slots
BY RingAssumption DEF After, Slots

LEMMA AheadInjective ==
  ASSUME NEW s \in Slots, NEW i \in 0 .. RingSize - 1, NEW j \in 0 .. RingSize - 1, i # j
  PROVE  Ahead(s, i) # Ahead(s, j)
<1>1. RingSize \in Nat /\ s \in Nat /\ s < RingSize
  BY RingAssumption DEF Slots
<1>2. /\ Ahead(s, i) = IF s + i < RingSize THEN s + i ELSE s + i - RingSize
      /\ Ahead(s, j) = IF s + j < RingSize THEN s + j ELSE s + j - RingSize
  <2>1. i \in 0 .. RingSize /\ j \in 0 .. RingSize
    BY <1>1
  <2> QED
    BY <2>1, AheadValue
<1> QED
  BY <1>1, <1>2

LEMMA AheadAfter ==
  ASSUME NEW s \in Slots, NEW n \in 0 .. RingSize - 1
  PROVE  After(Ahead(s, n)) = Ahead(s, n + 1)
<1> DEFINE m == n + 1
<1>1. RingSize \in Nat /\ s \in Nat /\ s < RingSize /\ n \in Nat /\ n < RingSize
  BY RingAssumption DEF Slots
<1>2. m \in 0 .. RingSize /\ n \in 0 .. RingSize /\ m = n + 1
  BY <1>1
<1>3. /\ Ahead(s, n) \in Slots
      /\ Ahead(s, n) = IF s + n < RingSize THEN s + n ELSE s + n - RingSize
  BY <1>2, AheadValue
<1> HIDE DEF m
<1>4. Ahead(s, m) = IF s + m < RingSize THEN s + m ELSE s + m - RingSize
  BY <1>2, AheadValue
<1>5. After(Ahead(s, n)) = IF Ahead(s, n) + 1 < RingSize THEN Ahead(s, n) + 1 ELSE 0
  BY <1>3, AfterValue
<1>6. After(Ahead(s, n)) = Ahead(s, m)
  BY <1>1, <1>2, <1>3, <1>4, <1>5
<1> QED
  BY <1>2, <1>6

LEMMA AheadShift ==
  ASSUME NEW s \in Slots, NEW i \in 1 .. RingSize
  PROVE  Ahead(After(s), i - 1) = Ahead(s, i)
<1> DEFINE j == i - 1
<1>1. RingSize \in Nat /\ s \in Nat /\ s < RingSize /\ i \in Nat /\ i >= 1 /\ i <= RingSize
  BY RingAssumption DEF Slots
<1>2. j \in 0 .. RingSize /\ j \in Nat /\ j = i - 1
  BY <1>1
<1>3. After(s) \in Slots /\ After(s) = IF s + 1 < RingSize THEN s + 1 ELSE 0
  BY AfterValue
<1> HIDE DEF j
<1>4. Ahead(After(s), j) = IF After(s) + j < RingSize THEN After(s) + j ELSE After(s) + j - RingSize
  BY <1>2, <1>3, AheadValue
<1>5. Ahead(s, i) = IF s + i < RingSize THEN s + i ELSE s + i - RingSize
  BY <1>1, AheadValue
<1>6. Ahead(After(s), j) = Ahead(s, i)
  <2>1. CASE s + 1 < RingSize
    BY <1>1, <1>2, <1>3, <1>4, <1>5, <2>1
  <2>2. CASE ~(s + 1 < RingSize)
    <3>1. After(s) + j = i - 1 /\ s + i - RingSize = i - 1 /\ i - 1 < RingSize /\ ~(s + i < RingSize)
      BY <1>1, <1>2, <1>3, <2>2
    <3> QED
      BY <1>4, <1>5, <3>1
  <2> QED
    BY <2>1, <2>2
<1> QED
  BY <1>2, <1>6
-----------------------------------------------------------------------------
(* A ring's slots from one on, read as a sequence.                         *)
RowOf(slot, first, n) == [i \in 1 .. n |-> slot[Ahead(first, i - 1)]]

LEMMA RowIsSeq ==
  ASSUME NEW K, NEW slot \in [Slots -> K], NEW first \in Slots, NEW n \in 0 .. RingSize
  PROVE  /\ RowOf(slot, first, n) \in Seq(K)
         /\ Len(RowOf(slot, first, n)) = n
         /\ \A i \in 1 .. n : RowOf(slot, first, n)[i] = slot[Ahead(first, i - 1)]
<1>1. n \in Nat
  BY RingAssumption
<1>2. \A i \in 1 .. n : Ahead(first, i - 1) \in Slots
  <2> TAKE i \in 1 .. n
  <2>1. i - 1 \in 0 .. RingSize
    BY RingAssumption
  <2> QED
    BY <2>1, AheadValue
<1>3. RowOf(slot, first, n) \in [1 .. n -> K]
  BY <1>2 DEF RowOf
<1>4. RowOf(slot, first, n) \in Seq(K)
  BY <1>1, <1>3, SeqDef
<1>5. Len(RowOf(slot, first, n)) = n
  <2>1. 1 .. Len(RowOf(slot, first, n)) = 1 .. n /\ Len(RowOf(slot, first, n)) \in Nat
    BY <1>3, <1>4, LenProperties
  <2> QED
    BY <1>1, <2>1
<1> QED
  BY <1>4, <1>5 DEF RowOf

(* A frame put behind the row.                                             *)
LEMMA RowGrows ==
  ASSUME NEW K, NEW slot \in [Slots -> K], NEW first \in Slots,
         NEW n \in 0 .. RingSize - 1, NEW f \in K
  PROVE  RowOf([slot EXCEPT ![Ahead(first, n)] = f], first, n + 1)
           = Append(RowOf(slot, first, n), f)
<1> DEFINE new == [slot EXCEPT ![Ahead(first, n)] = f]
           old == RowOf(slot, first, n)
           m == n + 1
           row == RowOf(new, first, m)
<1>0. RingSize \in Nat /\ RingSize >= 2 /\ n \in Nat /\ n <= RingSize - 1
  BY RingAssumption
<1>1. n + 1 \in 0 .. RingSize /\ n \in 0 .. RingSize
  BY <1>0
<1>2. Ahead(first, n) \in Slots /\ new \in [Slots -> K]
  BY <1>1, AheadValue
<1>3. /\ row \in Seq(K) /\ Len(row) = m
      /\ \A i \in 1 .. m : row[i] = new[Ahead(first, i - 1)]
  <2>1. m \in 0 .. RingSize
    BY <1>1
  <2> HIDE DEF new, m
  <2> QED
    BY ZenonT(60), <1>2, <2>1, RowIsSeq
<1>4. old \in Seq(K) /\ Len(old) = n /\ \A i \in 1 .. n : old[i] = slot[Ahead(first, i - 1)]
  BY ZenonT(60), <1>1, RowIsSeq
<1>5. /\ Append(old, f) \in Seq(K) /\ Len(Append(old, f)) = n + 1
      /\ \A i \in 1 .. n : Append(old, f)[i] = old[i]
      /\ Append(old, f)[n + 1] = f
  <2> HIDE DEF old
  <2> QED
    BY <1>4, AppendProperties
<1>6. ASSUME NEW i \in 1 .. n + 1 PROVE row[i] = Append(old, f)[i]
  <2>1. CASE i = n + 1
    <3>1. i - 1 = n
      BY <1>0, <2>1
    <3>2. new[Ahead(first, n)] = f
      BY <1>2
    <3> HIDE DEF new, old, row
    <3> QED
      BY <1>3, <1>5, <2>1, <3>1, <3>2
  <2>2. CASE i # n + 1
    <3>1. i \in 1 .. n /\ i - 1 \in 0 .. RingSize /\ i - 1 < n
      BY <1>0, <2>2
    <3>2. Ahead(first, i - 1) # Ahead(first, n) /\ Ahead(first, i - 1) \in Slots
      BY <1>0, <3>1, AheadValue, AheadInjective
    <3>3. new[Ahead(first, i - 1)] = slot[Ahead(first, i - 1)]
      BY <3>2
    <3> HIDE DEF new, old, row
    <3> QED
      BY <1>3, <1>4, <1>5, <3>1, <3>3
  <2> QED
    BY <2>1, <2>2
<1> HIDE DEF new, old, row
<1>7. row = Append(old, f)
  BY <1>3, <1>5, <1>6, SeqEqual
<1> QED
  BY <1>7 DEF new, old, row

(* The first frame of the row taken out.                                   *)
LEMMA RowShrinks ==
  ASSUME NEW K, NEW slot \in [Slots -> K], NEW first \in Slots,
         NEW n \in 1 .. RingSize, NEW e \in K
  PROVE  /\ RowOf(slot, first, n) # <<>>
         /\ RowOf([slot EXCEPT ![first] = e], After(first), n - 1)
              = Tail(RowOf(slot, first, n))
<1> DEFINE new == [slot EXCEPT ![first] = e]
           old == RowOf(slot, first, n)
           m == n - 1
           row == RowOf(new, After(first), m)
<1>0. RingSize \in Nat /\ RingSize >= 2 /\ n \in Nat /\ n >= 1 /\ n <= RingSize
  BY RingAssumption
<1>1. n - 1 \in 0 .. RingSize /\ n \in 0 .. RingSize
  BY <1>0
<1>2. After(first) \in Slots /\ new \in [Slots -> K]
  BY AfterValue
<1>3. /\ row \in Seq(K) /\ Len(row) = m
      /\ \A i \in 1 .. m : row[i] = new[Ahead(After(first), i - 1)]
  <2>1. m \in 0 .. RingSize
    BY <1>1
  <2> HIDE DEF new, m
  <2> QED
    BY ZenonT(60), <1>2, <2>1, RowIsSeq
<1>4. old \in Seq(K) /\ Len(old) = n /\ \A i \in 1 .. n : old[i] = slot[Ahead(first, i - 1)]
  BY ZenonT(60), <1>1, RowIsSeq
<1>5. /\ old # <<>> /\ Tail(old) \in Seq(K) /\ Len(Tail(old)) = n - 1
      /\ \A i \in 1 .. n - 1 : Tail(old)[i] = old[i + 1]
  <2> HIDE DEF old
  <2>1. old # <<>>
    BY <1>1, <1>4, EmptySeq
  <2> QED
    BY <1>4, <2>1, HeadTailProperties
<1>6. ASSUME NEW i \in 1 .. n - 1 PROVE row[i] = Tail(old)[i]
  <2>1. i + 1 \in 1 .. n /\ i - 1 \in 0 .. RingSize /\ i \in 0 .. RingSize /\ (i + 1) - 1 = i
        /\ i \in Nat /\ i < RingSize /\ i >= 1
    BY <1>0
  <2>0. first \in Nat /\ first < RingSize
    BY <1>0 DEF Slots
  <2>2. Ahead(After(first), i - 1) = Ahead(first, i)
    BY <2>1, AheadShift
  <2>3. Ahead(first, i) \in Slots /\ Ahead(first, i) # first
    BY <1>0, <2>0, <2>1, AheadValue
  <2>4. new[Ahead(first, i)] = slot[Ahead(first, i)]
    BY <2>3
  <2> HIDE DEF new, old, row
  <2> QED
    BY <1>3, <1>4, <1>5, <2>1, <2>2, <2>4
<1> HIDE DEF new, old, row
<1>7. row = Tail(old)
  BY <1>3, <1>5, <1>6, SeqEqual
<1> QED
  BY <1>5, <1>7 DEF new, old, row
-----------------------------------------------------------------------------
(* The rings keep their type.                                              *)
LEMMA RingsTyped ==
  ASSUME NEW K, NEW r \in Ring(K)
  PROVE  /\ \A s \in Slots : StartedRx(s) \in Ring(K) /\ GivenBack(r, s) \in Ring(K)
         /\ StartedTx \in Ring(K)
         /\ \A f \in K : Arrived(r, f) \in Ring(K) /\ HandedOver(r, f) \in Ring(K)
         /\ Handled(r) \in Ring(K) /\ Transmitted(r) \in Ring(K)
<1>1. 0 \in Slots /\ RingSize - 1 \in Slots
  BY RingAssumption DEF Slots
<1>2. After(r.head) \in Slots /\ After(r.cur) \in Slots
  BY AfterValue DEF Ring
<1>3. Empty \in [Slots -> K \cup {NoFrame}]
  BY DEF Empty
<1> QED
  BY <1>1, <1>2, <1>3
     DEF Ring, StartedRx, StartedTx, Arrived, Handled, GivenBack, HandedOver, Transmitted
-----------------------------------------------------------------------------
(* The receive ring in step with its driver.                               *)

(* n frames wait from the driver's place to the adapter's, no frame is     *)
(* anywhere else, and the adapter's last slot is where the last poll left  *)
(* it, behind the slots that this one has handled.                         *)
InStep(r, p, n) ==
  /\ n + p <= RingSize - 1
  /\ r.head = Ahead(r.cur, n)
  /\ r.tail = Ahead(r.cur, RingSize - 1 - p)
  /\ \A i \in 0 .. RingSize - 1 : r.slot[Ahead(r.cur, i)] # NoFrame <=> i < n

LEMMA WaitingRow ==
  ASSUME NEW r \in Ring(Received), NEW n \in 0 .. RingSize - 1, NEW p \in Nat, InStep(r, p, n)
  PROVE  ToHandle(r) = RowOf(r.slot, r.cur, n)
<1>1. RingSize \in Nat /\ n \in 0 .. RingSize /\ n < RingSize /\ n \in Nat
  BY RingAssumption
<1> DEFINE P(m) == /\ \A i \in 0 .. m - 1 : r.slot[Ahead(r.cur, i)] # NoFrame
                   /\ m < RingSize => r.slot[Ahead(r.cur, m)] = NoFrame
<1>2. P(n)
  <2>1. \A i \in 0 .. n - 1 : i \in 0 .. RingSize - 1 /\ i < n
    BY <1>1
  <2>2. n \in 0 .. RingSize - 1 /\ ~(n < n)
    BY <1>1
  <2> QED
    BY <2>1, <2>2 DEF InStep
<1>3. ASSUME NEW m \in 0 .. RingSize, P(m)
      PROVE  m = n
  <2>1. ~(m < n)
    <3> SUFFICES ASSUME m < n PROVE FALSE
      OBVIOUS
    <3>1. m \in 0 .. RingSize - 1 /\ m < RingSize
      BY <1>1
    <3> QED
      BY <1>3, <3>1 DEF InStep
  <2>2. ~(n < m)
    <3> SUFFICES ASSUME n < m PROVE FALSE
      OBVIOUS
    <3>1. n \in 0 .. m - 1
      BY <1>1
    <3> QED
      BY <1>1, <1>2, <1>3, <3>1
  <2> QED
    BY <1>1, <2>1, <2>2
<1>4. InRow(r) = n
  BY <1>1, <1>2, <1>3 DEF InRow
<1> QED
  BY <1>4 DEF ToHandle, RowOf

(* A frame arrives while the adapter has a slot.                           *)
LEMMA ArrivedInStep ==
  ASSUME NEW r \in Ring(Received), NEW n \in 0 .. RingSize - 1, NEW p \in Nat, InStep(r, p, n),
         ~Idle(r), NEW f \in Received
  PROVE  /\ n + 1 \in 0 .. RingSize - 1 /\ InStep(Arrived(r, f), p, n + 1)
         /\ Len(ToHandle(r)) < RingSize - 1
         /\ ToHandle(Arrived(r, f)) = Append(ToHandle(r), f)
<1> DEFINE a == Arrived(r, f)
           m == n + 1
<1>1. RingSize \in Nat /\ n \in 0 .. RingSize /\ n < RingSize /\ n \in Nat
  BY RingAssumption
<1>2. n # RingSize - 1 - p
  BY DEF InStep, Idle
<1>3. n + 1 + p <= RingSize - 1 /\ m \in 0 .. RingSize - 1 /\ m \in 1 .. RingSize /\ m - 1 = n
  BY <1>1, <1>2 DEF InStep
<1>4. /\ r.cur \in Slots /\ r.head \in Slots /\ r.slot \in [Slots -> Received \cup {NoFrame}]
      /\ r.head = Ahead(r.cur, n)
  BY DEF Ring, InStep
<1>5. /\ a.slot = [r.slot EXCEPT ![Ahead(r.cur, n)] = f]
      /\ a.head = After(Ahead(r.cur, n)) /\ a.tail = r.tail /\ a.cur = r.cur
  BY <1>4 DEF Arrived, Ring
<1>6. a.head = Ahead(r.cur, m)
  BY <1>1, <1>3, <1>4, <1>5, AheadAfter
<1>7. ASSUME NEW i \in 0 .. RingSize - 1
      PROVE  a.slot[Ahead(r.cur, i)] # NoFrame <=> i < m
  <2>1. CASE i = n
    <3>1. f # NoFrame /\ Ahead(r.cur, n) \in Slots
      BY <1>4, KindsAssumption
    <3> QED
      BY <1>1, <1>4, <1>5, <2>1, <3>1
  <2>2. CASE i # n
    <3>1. Ahead(r.cur, i) # Ahead(r.cur, n)
      BY <1>4, <2>2, AheadInjective
    <3>2. Ahead(r.cur, i) \in Slots
      <4>1. i \in 0 .. RingSize
        BY <1>1
      <4> QED
        BY <1>4, <4>1, AheadValue
    <3>3. a.slot[Ahead(r.cur, i)] = r.slot[Ahead(r.cur, i)]
      BY <1>4, <1>5, <3>1, <3>2
    <3>4. i < m <=> i < n
      BY <1>1, <2>2
    <3> QED
      BY <3>3, <3>4 DEF InStep
  <2> QED
    BY <2>1, <2>2
<1>8. InStep(a, p, m)
  <2> HIDE DEF a
  <2>1. m + p <= RingSize - 1
    BY <1>1, <1>3
  <2> QED
    BY <1>5, <1>6, <1>7, <2>1 DEF InStep
<1>9. a \in Ring(Received)
  BY RingsTyped, <1>4 DEF Ring
<1>10. ToHandle(a) = RowOf(a.slot, r.cur, m)
  <2> HIDE DEF a, m
  <2> QED
    BY <1>3, <1>5, <1>8, <1>9, WaitingRow
<1>11. ToHandle(r) = RowOf(r.slot, r.cur, n)
  BY WaitingRow
<1>12. Len(ToHandle(r)) = n
  <2> DEFINE K == Received \cup {NoFrame}
             slot == r.slot
             first == r.cur
  <2>1. slot \in [Slots -> K] /\ n \in 0 .. RingSize /\ first \in Slots
    BY <1>1, <1>4
  <2> HIDE DEF K, slot, first
  <2>2. Len(RowOf(slot, first, n)) = n
    BY <2>1, RowIsSeq
  <2> QED
    BY <1>11, <2>2 DEF slot, first
<1>13. ToHandle(a) = Append(ToHandle(r), f)
  <2> DEFINE K == Received \cup {NoFrame}
             slot == r.slot
             first == r.cur
  <2>1. slot \in [Slots -> K] /\ f \in K /\ first \in Slots
    BY <1>4
  <2> HIDE DEF K, slot, first
  <2>2. RowOf([slot EXCEPT ![Ahead(first, n)] = f], first, n + 1)
          = Append(RowOf(slot, first, n), f)
    BY ZenonT(60), <2>1, RowGrows
  <2> HIDE DEF a
  <2> QED
    BY <1>5, <1>10, <1>11, <2>2 DEF slot, first
<1> QED
  BY <1>1, <1>3, <1>8, <1>12, <1>13

(* The driver handles the frame at its place.                              *)
LEMMA HandledInStep ==
  ASSUME NEW r \in Ring(Received), NEW n \in 0 .. RingSize - 1, NEW p \in Nat, InStep(r, p, n),
         Waiting(r)
  PROVE  /\ n - 1 \in 0 .. RingSize - 1 /\ InStep(Handled(r), p + 1, n - 1)
         /\ ToHandle(r) # <<>>
         /\ ToHandle(Handled(r)) = Tail(ToHandle(r))
<1> DEFINE a == Handled(r)
           m == n - 1
           next == After(r.cur)
<1>1. RingSize \in Nat /\ RingSize >= 2 /\ n \in Nat /\ n < RingSize
  BY RingAssumption
<1>2. /\ r.cur \in Slots /\ r.slot \in [Slots -> Received \cup {NoFrame}]
      /\ next \in Slots /\ a \in Ring(Received)
  BY RingsTyped, AfterValue DEF Ring
<1>3. /\ a.slot = [r.slot EXCEPT ![r.cur] = NoFrame]
      /\ a.head = r.head /\ a.tail = r.tail /\ a.cur = next
  BY <1>2 DEF Handled, Ring
<1>4. n >= 1
  <2>1. Ahead(r.cur, 0) = r.cur
    <3>1. 0 \in 0 .. RingSize /\ r.cur \in Nat /\ r.cur < RingSize
      BY <1>1, <1>2 DEF Slots
    <3>2. Ahead(r.cur, 0) = IF r.cur + 0 < RingSize THEN r.cur + 0 ELSE r.cur + 0 - RingSize
      BY <1>2, <3>1, AheadValue
    <3> QED
      BY <3>1, <3>2
  <2>2. 0 \in 0 .. RingSize - 1
    BY <1>1
  <2>3. 0 < n
    BY <2>1, <2>2 DEF Waiting, InStep
  <2> QED
    BY <1>1, <2>3
<1>5. p + 1 \in Nat /\ m \in 0 .. RingSize - 1 /\ m + (p + 1) <= RingSize - 1 /\ p < RingSize
      /\ n \in 1 .. RingSize /\ n \in 0 .. RingSize /\ m \in Nat
  BY <1>1, <1>4 DEF InStep
<1>6. a.head = Ahead(next, m)
  BY <1>2, <1>3, <1>5, AheadShift DEF InStep
<1>7. a.tail = Ahead(next, RingSize - 1 - (p + 1))
  <2> DEFINE i == RingSize - 1 - p
  <2>1. i \in 1 .. RingSize /\ i - 1 = RingSize - 1 - (p + 1)
    BY <1>1, <1>4, <1>5 DEF InStep
  <2>2. Ahead(next, i - 1) = Ahead(r.cur, i)
    BY <1>2, <2>1, AheadShift
  <2> QED
    BY <1>3, <2>1, <2>2 DEF InStep
<1>8. ASSUME NEW i \in 0 .. RingSize - 1
      PROVE  a.slot[Ahead(next, i)] # NoFrame <=> i < m
  <2> DEFINE j == i + 1
  <2>1. j \in 1 .. RingSize /\ j - 1 = i /\ j \in 0 .. RingSize
    BY <1>1
  <2>2. Ahead(next, i) = Ahead(r.cur, j) /\ Ahead(r.cur, j) \in Slots
    BY <1>2, <2>1, AheadShift, AheadValue
  <2>3. CASE j = RingSize
    <3>1. Ahead(r.cur, j) = r.cur
      <4>1. r.cur \in Nat /\ r.cur < RingSize
        BY <1>1, <1>2 DEF Slots
      <4>2. Ahead(r.cur, j) = IF r.cur + j < RingSize THEN r.cur + j ELSE r.cur + j - RingSize
        BY <1>2, <2>1, AheadValue
      <4> QED
        BY <1>1, <2>3, <4>1, <4>2
    <3>2. ~(i < m)
      BY <1>1, <2>3
    <3> QED
      BY <1>2, <1>3, <2>2, <3>1, <3>2
  <2>4. CASE j # RingSize
    <3>1. j \in 0 .. RingSize - 1 /\ 0 \in 0 .. RingSize - 1 /\ j # 0
      BY <1>1, <2>1, <2>4
    <3>2. Ahead(r.cur, j) # r.cur
      <4>1. r.cur \in Nat /\ r.cur < RingSize
        BY <1>1, <1>2 DEF Slots
      <4>2. Ahead(r.cur, j) = IF r.cur + j < RingSize THEN r.cur + j ELSE r.cur + j - RingSize
        BY <1>2, <2>1, AheadValue
      <4> QED
        BY <1>1, <3>1, <4>1, <4>2
    <3>3. a.slot[Ahead(r.cur, j)] = r.slot[Ahead(r.cur, j)]
      BY <1>2, <1>3, <2>2, <3>2
    <3>4. r.slot[Ahead(r.cur, j)] # NoFrame <=> j < n
      BY <3>1 DEF InStep
    <3>5. j < n <=> i < m
      BY <1>1
    <3> QED
      BY <2>2, <3>3, <3>4, <3>5
  <2> QED
    BY <2>3, <2>4
<1>9. InStep(a, p + 1, m)
  <2> HIDE DEF a, m
  <2> QED
    BY <1>3, <1>5, <1>6, <1>7, <1>8 DEF InStep
<1>10. ToHandle(a) = RowOf(a.slot, next, m)
  <2> DEFINE q == p + 1
  <2>1. q \in Nat /\ InStep(a, q, m)
    BY <1>5, <1>9
  <2> HIDE DEF a, m, q
  <2> QED
    BY <1>2, <1>3, <1>5, <2>1, WaitingRow
<1>11. ToHandle(r) = RowOf(r.slot, r.cur, n)
  BY WaitingRow
<1>12. ToHandle(r) # <<>> /\ ToHandle(a) = Tail(ToHandle(r))
  <2> DEFINE K == Received \cup {NoFrame}
  <2>1. r.slot \in [Slots -> K] /\ NoFrame \in K
    BY <1>2
  <2> HIDE DEF K
  <2>2. /\ RowOf(r.slot, r.cur, n) # <<>>
        /\ RowOf([r.slot EXCEPT ![r.cur] = NoFrame], After(r.cur), n - 1)
              = Tail(RowOf(r.slot, r.cur, n))
    BY ZenonT(60), <1>2, <1>5, <2>1, RowShrinks
  <2> QED
    BY <1>3, <1>10, <1>11, <2>2
<1> QED
  BY <1>5, <1>9, <1>12

(* Once the slots are given back the adapter owns all but one again.       *)
LEMMA GivenBackInStep ==
  ASSUME NEW r \in Ring(Received), NEW n \in 0 .. RingSize - 1, NEW p \in Nat, InStep(r, p, n)
  PROVE  LET last == Ahead(r.cur, RingSize - 1)
         IN  /\ InStep(GivenBack(r, last), 0, n) /\ GivenBack(r, last) \in Ring(Received)
             /\ ToHandle(GivenBack(r, last)) = ToHandle(r)
<1> DEFINE last == Ahead(r.cur, RingSize - 1)
           a == GivenBack(r, last)
<1>1. RingSize \in Nat /\ n \in Nat /\ n <= RingSize - 1 /\ RingSize - 1 - 0 = RingSize - 1
      /\ RingSize - 1 \in 0 .. RingSize
  BY RingAssumption
<1>2. r.cur \in Slots /\ last \in Slots
  BY <1>1, AheadValue DEF Ring
<1>3. a \in Ring(Received)
  BY <1>2, RingsTyped
<1>4. a.slot = r.slot /\ a.head = r.head /\ a.tail = last /\ a.cur = r.cur
  BY DEF GivenBack, Ring
<1>5. InStep(a, 0, n)
  <2> HIDE DEF a
  <2>1. n + 0 <= RingSize - 1
    BY <1>1
  <2> QED
    BY <1>1, <1>4, <2>1 DEF InStep
<1>6. ToHandle(a) = ToHandle(r)
  <2> HIDE DEF a
  <2> QED
    BY <1>3, <1>4, <1>5, WaitingRow
<1> QED
  BY <1>3, <1>5, <1>6

(* A ring that was started at the driver's place is in step.               *)
LEMMA StartedInStep ==
  /\ 0 \in 0 .. RingSize - 1 /\ InStep(StartedRx(0), 0, 0)
  /\ ToHandle(StartedRx(0)) = <<>>
<1> DEFINE r == StartedRx(0)
<1>1. RingSize \in Nat /\ RingSize >= 2 /\ 0 \in Slots /\ RingSize - 1 - 0 = RingSize - 1
  BY RingAssumption DEF Slots
<1>2. Ahead(0, 0) = 0 /\ Ahead(0, RingSize - 1) = RingSize - 1
  <2>1. 0 \in 0 .. RingSize /\ RingSize - 1 \in 0 .. RingSize
    BY <1>1
  <2>2. Ahead(0, 0) = IF 0 + 0 < RingSize THEN 0 + 0 ELSE 0 + 0 - RingSize
    BY <1>1, <2>1, AheadValue
  <2>3. Ahead(0, RingSize - 1) = IF 0 + (RingSize - 1) < RingSize THEN 0 + (RingSize - 1)
                                 ELSE 0 + (RingSize - 1) - RingSize
    BY <1>1, <2>1, AheadValue
  <2> QED
    BY <1>1, <2>2, <2>3
<1>3. \A i \in 0 .. RingSize - 1 : Ahead(0, i) \in Slots /\ ~(i < 0)
  <2> TAKE i \in 0 .. RingSize - 1
  <2>1. i \in 0 .. RingSize
    BY <1>1
  <2> QED
    BY <1>1, <2>1, AheadValue
<1>4. InStep(r, 0, 0)
  BY <1>1, <1>2, <1>3 DEF InStep, StartedRx, Empty
<1>5. r \in Ring(Received)
  BY <1>1 DEF StartedRx, Ring, Empty, Slots
<1>6. ToHandle(r) = RowOf(r.slot, r.cur, 0)
  <2>1. 0 \in 0 .. RingSize - 1 /\ 0 \in Nat
    BY <1>1
  <2> HIDE DEF r
  <2> QED
    BY <1>4, <1>5, <2>1, WaitingRow
<1>7. RowOf(r.slot, r.cur, 0) = <<>>
  BY DEF RowOf
<1> QED
  BY <1>1, <1>4, <1>6, <1>7

-----------------------------------------------------------------------------
(* The RTL8139's offsets.                                                  *)
LEMMA OffsetsWrap ==
  ASSUME NEW w \in Offsets, NEW d \in Nat, d % 4 = 0, d <= RtlSize
  PROVE  /\ w + d < RtlSize => (w + d) % RtlSize = w + d
         /\ (w + d) % RtlSize \in Offsets
<1>1. w \in Nat /\ w % 4 = 0 /\ w <= RtlSize /\ RtlSize \in Nat \ {0} /\ RtlSize % 4 = 0
  BY RtlAssumption DEF Offsets
<1>2. (w + d) % 4 = 0 /\ w + d \in Nat
  BY <1>1
<1>3. CASE w + d < RtlSize
  <2>1. (w + d) % RtlSize = w + d
    BY <1>1, <1>2, <1>3
  <2> QED
    BY <1>1, <1>2, <1>3, <2>1 DEF Offsets
<1>4. CASE w + d >= RtlSize /\ w + d < 2 * RtlSize
  <2>1. (w + d) % RtlSize = w + d - RtlSize
    BY <1>1, <1>2, <1>4
  <2>2. (w + d - RtlSize) % 4 = 0 /\ w + d - RtlSize \in 0 .. RtlSize
    BY <1>1, <1>2, <1>4
  <2> QED
    BY <1>1, <1>4, <2>1, <2>2 DEF Offsets
<1>5. CASE w + d = 2 * RtlSize
  <2>1. (w + d) % RtlSize = 0
    BY <1>1, <1>2, <1>5
  <2> QED
    BY <1>1, <1>5, <2>1 DEF Offsets
<1> QED
  BY <1>1, <1>3, <1>4, <1>5

LEMMA RoomValue ==
  ASSUME NEW l \in Nat
  PROVE  Room(l) \in Nat /\ Room(l) % 4 = 0 /\ Room(l) >= l + 4
BY DEF Room

LEMMA PastValue ==
  ASSUME NEW o \in Offsets, NEW l \in Nat
  PROVE  /\ Past(o, l) = o + Room(l)
         /\ Past(o, l) \in Nat /\ Past(o, l) % 4 = 0 /\ Past(o, l) > o
         /\ NextIdx(o, l) \in Offsets
<1>1. o \in Nat /\ o % 4 = 0 /\ RtlSize \in Nat
  BY RtlAssumption DEF Offsets
<1>2. Past(o, l) = o + Room(l) /\ Past(o, l) \in Nat /\ Past(o, l) % 4 = 0 /\ Past(o, l) > o
  BY <1>1 DEF Past, Room
<1> QED
  BY <1>1, <1>2 DEF NextIdx, Offsets

LEMMA UsedValue == TypeOK => Used \in 0 .. RtlSize - 1
<1> SUFFICES ASSUME TypeOK PROVE Used \in 0 .. RtlSize - 1
  OBVIOUS
<1> DEFINE x == rtl.write + RtlSize - rtl.read
<1>1. rtl.write \in Nat /\ rtl.read \in Nat /\ rtl.read <= RtlSize /\ RtlSize \in Nat \ {0}
  BY RtlAssumption DEF TypeOK, RtlStates, Offsets
<1>2. x \in Nat
  BY <1>1
<1> HIDE DEF x
<1>3. x % RtlSize \in 0 .. RtlSize - 1
  BY <1>1, <1>2
<1> QED
  BY <1>3 DEF Used, x
-----------------------------------------------------------------------------
(* The invariant.                                                          *)

RingsInv ==
  /\ pc # "polling" => polled = 0
  /\ pc = "polling" => nic = "intel"
  /\ nic # "intel" => rx = StartedRx(0)
  /\ inStep => \E n \in 0 .. RingSize - 1 : InStep(rx, polled, n)
  /\ tx.cur = tx.tail

(* In its first lap the RTL8139 has written header after header, each      *)
(* behind the frame before it, and the driver's place is one of them or    *)
(* where the next will be.                                                 *)
RtlInv ==
  nic = "rtl" /\ inStep =>
    /\ rtl.idx = rtl.read /\ rtl.idx <= rtl.write /\ rtl.write < RtlSize
    /\ rtl.idx # rtl.write => rtl.at[rtl.idx].kind # NoFrame
    /\ \A o \in Offsets :
         o < rtl.write /\ rtl.at[o].kind # NoFrame =>
           /\ Past(o, rtl.at[o].len) <= rtl.write
           /\ Past(o, rtl.at[o].len) # rtl.write
                => rtl.at[Past(o, rtl.at[o].len)].kind # NoFrame

(* The actions that send.                                                  *)
Sends == Connect \/ ApplyStaticIp \/ SendDhcpDiscover \/ SendTcpSyn

LEMMA SendsOneFrame ==
  ASSUME Sends
  PROVE  /\ \/ nic = "intel" /\ pc' = "sending" /\ \E f \in Sent : tx' = HandedOver(tx, f)
            \/ UNCHANGED <<tx, pc>>
         /\ pc = "idle" /\ UNCHANGED <<nic, started, rx, polled, rtl, epoch, inStep>>
         /\ online' \in BOOLEAN
         /\ ip' = ip \/ ip' = "static"
         /\ online' => ip' = "static" \/ (online /\ ip' = ip)
<1>0. ASSUME NEW f \in Sent, NEW up \in BOOLEAN, NetRaw(f, up)
      PROVE  \/ nic = "intel" /\ pc' = "sending" /\ \E g \in Sent : tx' = HandedOver(tx, g)
             \/ UNCHANGED <<tx, pc>>
  BY <1>0 DEF NetRaw
<1>00. "arp" \in Sent /\ "ip" \in Sent
  BY SentAssumption
<1>1. CASE Connect
  <2>1. PICK seen \in BOOLEAN, up \in BOOLEAN :
          NetRaw("arp", up) /\ online' = (online /\ Silent(seen, up))
    BY <1>1 DEF Connect, SendArpPing
  <2> QED
    BY <1>0, <1>00, <1>1, <2>1 DEF Connect
<1>2. CASE ApplyStaticIp
  <2>1. PICK seen \in BOOLEAN, up \in BOOLEAN :
          NetRaw("arp", up) /\ online' = (TRUE /\ Silent(seen, up))
    BY <1>2 DEF ApplyStaticIp, SendArpPing
  <2> QED
    BY <1>0, <1>00, <1>2, <2>1 DEF ApplyStaticIp
<1>3. CASE SendDhcpDiscover
  <2>1. PICK seen \in BOOLEAN, up \in BOOLEAN :
          NetRaw("ip", seen /\ up) /\ online' = (online /\ started /\ Silent(seen, up))
    BY <1>3 DEF SendDhcpDiscover, SendUdpRaw, NetIp
  <2> QED
    BY <1>0, <1>00, <1>3, <2>1 DEF SendDhcpDiscover
<1>4. CASE SendTcpSyn
  <2>1. PICK up \in BOOLEAN : NetRaw("ip", up)
    BY <1>4 DEF SendTcpSyn, NetIp
  <2> QED
    BY <1>0, <1>00, <1>4, <2>1 DEF SendTcpSyn
<1> QED
  BY <1>1, <1>2, <1>3, <1>4 DEF Sends
-----------------------------------------------------------------------------
(* Types.                                                                  *)
Headers == [len : 0 .. RtlSize, kind : Received \cup {NoFrame}]

LEMMA FoundIsHeader ==
  ASSUME TypeOK
  PROVE  Found \subseteq Headers
<1>1. rtl.at[rtl.idx] \in Headers
  BY DEF TypeOK, RtlStates, Headers
<1>2. ASSUME NEW l \in RtlLengths \cup {RtlSize}, NEW f \in Arriving[nic]
      PROVE  Header(l, f) \in Headers
  <2>1. l \in 0 .. RtlSize
    BY RtlAssumption
  <2>2. f \in Received
    BY ArrivingAssumption DEF TypeOK
  <2> QED
    BY <2>1, <2>2 DEF Header, Headers
<1>3. Blank \in Headers
  BY RtlAssumption DEF Blank, Header, Headers
<1> QED
  BY <1>1, <1>2, <1>3 DEF Found

LEMMA RtlReceivesTyped ==
  ASSUME TypeOK, NEW f \in Received, NEW l \in RtlLengths, RtlReceives(f, l)
  PROVE  rtl' \in RtlStates
<1>1. l \in Nat /\ l <= RtlSize /\ RtlSize >= 1 /\ RtlSize \in Nat
  BY RtlAssumption
<1>2. /\ Room(l) \in Nat /\ Room(l) % 4 = 0 /\ Room(l) <= RtlSize
      /\ rtl.write \in Offsets
  BY <1>1, RoomValue, UsedValue DEF RtlReceives, TypeOK, RtlStates
<1>3. (rtl.write + Room(l)) % RtlSize \in Offsets
  BY <1>2, OffsetsWrap
<1>4. Header(l, f) \in Headers /\ Remnant \in Headers
  BY <1>1 DEF Header, Remnant, Headers
<1>5. rtl.at \in [Offsets -> Headers] /\ rtl.idx \in Offsets /\ rtl.read \in Offsets
      /\ DOMAIN rtl = {"idx", "read", "write", "at"}
  BY DEF TypeOK, RtlStates, Headers
<1> DEFINE new == [o \in Offsets |-> IF o = rtl.write THEN Header(l, f)
                     ELSE IF o \in rtl.write .. rtl.write + Room(l) - 1 THEN Remnant
                     ELSE rtl.at[o]]
<1>6. new \in [Offsets -> Headers]
  BY <1>4, <1>5
<1>7. rtl' = [rtl EXCEPT !.at = new, !.write = (rtl.write + Room(l)) % RtlSize]
  BY DEF RtlReceives
<1> HIDE DEF new
<1>8. rtl \in [idx : Offsets, read : Offsets, write : Offsets, at : [Offsets -> Headers]]
  BY DEF TypeOK, RtlStates, Headers
<1>9. rtl' \in [idx : Offsets, read : Offsets, write : Offsets, at : [Offsets -> Headers]]
  BY <1>3, <1>6, <1>7, <1>8
<1> QED
  BY <1>9 DEF RtlStates, Headers

LEMMA RtlPollTyped ==
  ASSUME TypeOK, RtlPoll
  PROVE  /\ rtl' \in RtlStates
         /\ online' \in BOOLEAN /\ ip' \in {"none", "peer", "lease", "static"}
<1>1. rtl \in [idx : Offsets, read : Offsets, write : Offsets, at : [Offsets -> Headers]]
  BY DEF TypeOK, RtlStates, Headers
<1>2. \A o \in Offsets : o % RtlSize \in Offsets
  <2> TAKE o \in Offsets
  <2>1. 0 \in Nat /\ 0 % 4 = 0 /\ 0 <= RtlSize /\ o + 0 = o
    BY RtlAssumption DEF Offsets
  <2>2. (o + 0) % RtlSize \in Offsets
    BY <2>1, OffsetsWrap
  <2> QED
    BY <2>1, <2>2
<1>3. PICK h \in Found :
        IF h = Blank
        THEN rtl' = [rtl EXCEPT !.read = rtl.idx % RtlSize] /\ UNCHANGED <<online, ip>>
        ELSE RtlHandle(h)
  BY DEF RtlPoll
<1>4. CASE h = Blank
  BY <1>1, <1>2, <1>3, <1>4 DEF TypeOK, RtlStates, Headers
<1>5. CASE h # Blank
  <2>1. h.len \in Nat /\ h.len \in 0 .. RtlSize
    BY <1>3, FoundIsHeader, RtlAssumption DEF Headers
  <2> DEFINE next == NextIdx(rtl.idx, h.len)
             slot == IF h.kind = "request" THEN Header(h.len, "reply") ELSE rtl.at[rtl.idx]
  <2>2. next \in Offsets /\ next % RtlSize \in Offsets
    BY <1>1, <1>2, <2>1, PastValue
  <2>3. slot \in Headers
    BY <1>1, <2>1, ArrivingAssumption DEF Header, Headers
  <2>4. rtl' = [rtl EXCEPT !.idx = next, !.read = next % RtlSize, !.at[rtl.idx] = slot]
    BY <1>1, <1>3, <1>5 DEF RtlHandle
  <2> HIDE DEF next, slot
  <2>5. rtl' \in [idx : Offsets, read : Offsets, write : Offsets, at : [Offsets -> Headers]]
    BY <1>1, <2>2, <2>3, <2>4
  <2> QED
    BY <1>3, <1>5, <2>5 DEF RtlHandle, RtlStates, Headers, TypeOK
<1> QED
  BY <1>4, <1>5

LEMMA TypeInit == Init => TypeOK
<1>1. 0 \in Slots /\ RingSize - 1 \in Slots /\ 0 \in 0 .. RingSize
  BY RingAssumption DEF Slots
<1>2. 0 \in Offsets /\ 0 \in 0 .. RtlSize
  BY RtlAssumption DEF Offsets
<1>3. Init => rx \in Ring(Received) /\ tx \in Ring(Sent)
  BY <1>1 DEF Init, Ring, StartedRx, StartedTx, Empty
<1>4. Init => rtl \in RtlStates
  BY <1>2 DEF Init, RtlStates, Blank, Header
<1> QED
  BY <1>1, <1>3, <1>4 DEF Init, TypeOK

LEMMA TypeStep == TypeOK /\ [Next]_vars => TypeOK'
<1> SUFFICES ASSUME TypeOK, [Next]_vars PROVE TypeOK'
  OBVIOUS
<1> USE DEF TypeOK
<1>1. CASE Start
  <2>1. rx.cur \in Slots
    BY DEF Ring
  <2>2. CASE StartIntel
    <3>1. rx' \in Ring(Received) /\ tx' \in Ring(Sent)
      BY <2>1, <2>2, RingsTyped DEF StartIntel
    <3>2. epoch' \in BOOLEAN /\ inStep' \in BOOLEAN
      BY <2>2 DEF StartIntel
    <3> QED
      BY <1>1, <2>2, <3>1, <3>2 DEF Start, StartIntel
  <2>3. CASE StartRtl
    <3>1. 0 \in Offsets
      BY RtlAssumption DEF Offsets
    <3>2. rtl' \in RtlStates
      BY <2>3, <3>1 DEF StartRtl, RtlStates
    <3>3. inStep' \in BOOLEAN
      BY <2>3 DEF StartRtl
    <3> QED
      BY <1>1, <2>3, <3>2, <3>3 DEF Start, StartRtl
  <2> QED
    BY <1>1, <2>2, <2>3 DEF Start
<1>2. ASSUME NEW f \in Arriving[nic], IntelReceives(f) \/ \E l \in RtlLengths : RtlReceives(f, l)
      PROVE  TypeOK'
  <2>0. f \in Received
    BY ArrivingAssumption
  <2>1. CASE IntelReceives(f)
    <3>1. rx' \in Ring(Received)
      BY <2>0, <2>1, RingsTyped DEF IntelReceives
    <3> QED
      BY <2>1, <3>1 DEF IntelReceives
  <2>2. ASSUME NEW l \in RtlLengths, RtlReceives(f, l)
        PROVE  TypeOK'
    <3>1. rtl' \in RtlStates
      BY <2>0, <2>2, RtlReceivesTyped
    <3>2. inStep' \in BOOLEAN
      BY <2>2 DEF RtlReceives
    <3> QED
      BY <2>2, <3>1, <3>2 DEF RtlReceives
  <2> QED
    BY <1>2, <2>1, <2>2
<1>3. CASE IntelTransmits
  <2>1. tx' \in Ring(Sent)
    BY <1>3, RingsTyped DEF IntelTransmits
  <2> QED
    BY <1>3, <2>1 DEF IntelTransmits
<1>4. CASE Connect \/ ApplyStaticIp \/ SendDhcpDiscover \/ SendTcpSyn
  <2>0. Sends
    BY <1>4 DEF Sends
  <2>1. tx' \in Ring(Sent) /\ pc' \in {"idle", "polling", "sending"}
    BY <2>0, SendsOneFrame, RingsTyped
  <2> QED
    BY <2>0, <2>1, SendsOneFrame
<1>5. CASE SendReturns \/ SendTimesOut
  BY <1>5 DEF SendReturns, SendTimesOut
<1>6. CASE Poll
  BY <1>6 DEF Poll
<1>7. CASE HandleFrame
  <2>1. rx' \in Ring(Received)
    BY <1>7, RingsTyped DEF HandleFrame
  <2>2. polled' \in 0 .. RingSize
    BY <1>7, RingAssumption DEF HandleFrame
  <2>3. online' \in BOOLEAN /\ ip' \in {"none", "peer", "lease", "static"}
    BY <1>7 DEF HandleFrame, OnlineAfter, AddressAfter
  <2> QED
    BY <1>7, <2>1, <2>2, <2>3 DEF HandleFrame
<1>8. CASE PollEnds
  <2>1. LastHandled \in Slots
    <3>1. RingSize - 1 \in 0 .. RingSize
      BY RingAssumption
    <3> QED
      BY <3>1, AheadValue DEF LastHandled, Ring
  <2>2. rx' \in Ring(Received)
    BY <1>8, <2>1, RingsTyped DEF PollEnds
  <2>3. 0 \in 0 .. RingSize
    BY RingAssumption
  <2> QED
    BY <1>8, <2>2, <2>3 DEF PollEnds
<1>9. CASE RtlPoll
  BY <1>9, RtlPollTyped DEF RtlPoll
<1>10. CASE UNCHANGED vars
  BY <1>10 DEF vars
<1> QED
  BY <1>1, <1>2, <1>3, <1>4, <1>5, <1>6, <1>7, <1>8, <1>9, <1>10 DEF Next

-----------------------------------------------------------------------------
LEMMA RingsInit == Init => RingsInv
<1>1. 0 \in 0 .. RingSize - 1 /\ InStep(StartedRx(0), 0, 0)
  BY StartedInStep
<1> QED
  BY <1>1 DEF Init, RingsInv, StartedTx

LEMMA RingsStep ==
  ASSUME TypeOK, RingsInv, [Next]_vars
  PROVE  RingsInv'
<1> USE DEF RingsInv
<1>0. 0 \in 0 .. RingSize - 1 /\ InStep(StartedRx(0), 0, 0) /\ polled \in Nat
  BY StartedInStep DEF TypeOK
<1>1. CASE Start
  <2>1. CASE StartIntel
    BY <1>0, <1>1, <2>1 DEF Start, StartIntel, StartedTx
  <2>2. CASE StartRtl
    BY <1>0, <1>1, <2>2 DEF Start, StartRtl
  <2> QED
    BY <1>1, <2>1, <2>2 DEF Start
<1>2. ASSUME NEW f \in Arriving[nic], IntelReceives(f) \/ \E l \in RtlLengths : RtlReceives(f, l)
      PROVE  RingsInv'
  <2>0. f \in Received
    BY ArrivingAssumption DEF TypeOK
  <2>1. CASE IntelReceives(f)
    <3>1. ASSUME inStep
          PROVE  \E n \in 0 .. RingSize - 1 : InStep(rx', polled, n)
      <4>1. PICK n \in 0 .. RingSize - 1 : InStep(rx, polled, n)
        BY <3>1
      <4>2. n + 1 \in 0 .. RingSize - 1 /\ InStep(Arrived(rx, f), polled, n + 1)
        BY <1>0, <2>0, <2>1, <4>1, ArrivedInStep DEF IntelReceives, TypeOK
      <4> QED
        BY <2>1, <4>2 DEF IntelReceives
    <3> QED
      BY <2>1, <3>1 DEF IntelReceives
  <2>2. ASSUME NEW l \in RtlLengths, RtlReceives(f, l)
        PROVE  RingsInv'
    BY <1>0, <2>2 DEF RtlReceives
  <2> QED
    BY <1>2, <2>1, <2>2
<1>3. CASE IntelTransmits
  <2>1. tx'.cur = tx.cur /\ tx'.tail = tx.tail
    BY <1>3 DEF IntelTransmits, Transmitted, TypeOK, Ring
  <2> QED
    BY <1>3, <2>1 DEF IntelTransmits
<1>4. CASE Connect \/ ApplyStaticIp \/ SendDhcpDiscover \/ SendTcpSyn
  <2>0. Sends
    BY <1>4 DEF Sends
  <2>1. tx'.cur = tx'.tail
    <3>1. \A f \in Sent : HandedOver(tx, f).cur = HandedOver(tx, f).tail
      BY DEF HandedOver, TypeOK, Ring
    <3> QED
      BY <2>0, <3>1, SendsOneFrame
  <2> QED
    BY <2>0, <2>1, SendsOneFrame
<1>5. CASE SendReturns \/ SendTimesOut
  BY <1>5 DEF SendReturns, SendTimesOut
<1>6. CASE Poll
  BY <1>6 DEF Poll
<1>7. CASE HandleFrame
  <2>1. ASSUME inStep
        PROVE  \E n \in 0 .. RingSize - 1 : InStep(rx', polled', n)
    <3>1. PICK n \in 0 .. RingSize - 1 : InStep(rx, polled, n)
      BY <2>1
    <3>2. n - 1 \in 0 .. RingSize - 1 /\ InStep(Handled(rx), polled + 1, n - 1)
      BY <1>0, <1>7, <3>1, HandledInStep DEF HandleFrame, TypeOK
    <3> QED
      BY <1>7, <3>2 DEF HandleFrame
  <2> QED
    BY <1>7, <2>1 DEF HandleFrame
<1>8. CASE PollEnds
  <2>1. ASSUME inStep
        PROVE  \E n \in 0 .. RingSize - 1 : InStep(rx', 0, n)
    <3>1. PICK n \in 0 .. RingSize - 1 : InStep(rx, polled, n)
      BY <2>1
    <3>2. CASE polled > 0
      <4>1. InStep(GivenBack(rx, LastHandled), 0, n)
        BY <1>0, <3>1, GivenBackInStep DEF TypeOK, LastHandled
      <4> QED
        BY <1>8, <3>2, <4>1 DEF PollEnds
    <3>3. CASE ~(polled > 0)
      <4>1. polled = 0
        BY <1>0, <3>3
      <4> QED
        BY <1>8, <3>1, <3>3, <4>1 DEF PollEnds
    <3> QED
      BY <3>2, <3>3
  <2> QED
    BY <1>8, <2>1 DEF PollEnds
<1>9. CASE RtlPoll
  BY <1>9 DEF RtlPoll
<1>10. CASE UNCHANGED vars
  BY <1>10 DEF vars
<1> QED
  BY <1>1, <1>2, <1>3, <1>4, <1>5, <1>6, <1>7, <1>8, <1>9, <1>10 DEF Next

-----------------------------------------------------------------------------
LEMMA RtlInit == Init => RtlInv
<1>1. 0 < RtlSize /\ \A o \in Offsets : ~(o < 0)
  BY RtlAssumption DEF Offsets
<1> QED
  BY <1>1 DEF Init, RtlInv

(* The chip puts a frame behind the others.                                *)
LEMMA RtlReceivesInLap ==
  ASSUME TypeOK, RtlInv, NEW f \in Received, NEW l \in RtlLengths, RtlReceives(f, l)
  PROVE  RtlInv'
<1> SUFFICES ASSUME nic = "rtl", inStep, rtl.write + Room(l) < RtlSize
             PROVE  RtlInv'
  BY DEF RtlReceives, RtlInv
<1> DEFINE w == rtl.write
           end == w + Room(l)
           was == rtl.at
           is == rtl'.at
<1>1. l \in Nat /\ RtlSize \in Nat /\ RtlSize % 4 = 0 /\ f # NoFrame
  BY RtlAssumption, KindsAssumption
<1>2. /\ w \in Offsets /\ w \in Nat /\ w % 4 = 0 /\ Room(l) \in Nat /\ Room(l) % 4 = 0
      /\ Room(l) >= 4 /\ rtl.idx \in Offsets /\ rtl.idx \in Nat
      /\ was \in [Offsets -> Headers]
  <2>1. Room(l) \in Nat /\ Room(l) % 4 = 0 /\ Room(l) >= 4
    BY <1>1, RoomValue
  <2>2. w \in Offsets /\ rtl.idx \in Offsets /\ was \in [Offsets -> Headers]
    BY DEF TypeOK, RtlStates, Headers
  <2>3. \A o \in Offsets : o \in Nat /\ o % 4 = 0
    BY <1>1 DEF Offsets
  <2> QED
    BY <2>1, <2>2, <2>3
<1>3. end \in Nat /\ end > w /\ end < RtlSize /\ end % RtlSize = end
  BY <1>1, <1>2
<1>4. /\ rtl'.idx = rtl.idx /\ rtl'.read = rtl.read /\ rtl'.write = end
      /\ is = [o \in Offsets |-> IF o = w THEN Header(l, f)
                  ELSE IF o \in w .. w + Room(l) - 1 THEN Remnant ELSE was[o]]
  BY <1>3 DEF RtlReceives, TypeOK, RtlStates
<1>5. /\ is[w].len = l /\ is[w].kind # NoFrame
      /\ \A o \in Offsets : o < w => is[o] = was[o]
      /\ \A o \in Offsets : w < o /\ o < end => is[o].kind = NoFrame
  <2>1. is[w] = Header(l, f)
    BY <1>2, <1>4
  <2>2. \A o \in Offsets : o < w => ~(o = w) /\ ~(o \in w .. w + Room(l) - 1)
    BY <1>2 DEF Offsets
  <2>3. \A o \in Offsets : w < o /\ o < end => ~(o = w) /\ o \in w .. w + Room(l) - 1
    BY <1>2 DEF Offsets
  <2>4. \A o \in Offsets : w < o /\ o < end => is[o] = Remnant
    BY <1>4, <2>3
  <2>5. \A o \in Offsets : o < w => is[o] = was[o]
    BY <1>4, <2>2
  <2> QED
    BY <1>1, <2>1, <2>4, <2>5 DEF Header, Remnant
<1>6. rtl.idx = rtl.read /\ rtl.idx <= w /\ (rtl.idx # w => was[rtl.idx].kind # NoFrame)
  BY DEF RtlInv
<1> HIDE DEF end, was, is, w
<1>7. rtl.idx <= end /\ (rtl.idx # end => is[rtl.idx].kind # NoFrame)
  <2>1. CASE rtl.idx = w
    BY <1>2, <1>3, <1>5, <2>1
  <2>2. CASE rtl.idx # w
    <3>1. rtl.idx < w
      BY <1>2, <1>6, <2>2
    <3> QED
      BY <1>2, <1>3, <1>5, <1>6, <2>2, <3>1
  <2> QED
    BY <2>1, <2>2
<1>8. ASSUME NEW o \in Offsets, o < end, is[o].kind # NoFrame
      PROVE  /\ Past(o, is[o].len) <= end
             /\ Past(o, is[o].len) # end => is[Past(o, is[o].len)].kind # NoFrame
  <2>0. o \in Nat
    BY DEF Offsets
  <2>1. CASE o = w
    <3>1. Past(o, is[o].len) = end
      BY <1>1, <1>2, <1>5, <2>1, PastValue DEF end, w
    <3> QED
      BY <1>3, <3>1
  <2>2. CASE o < w
    <3> DEFINE past == Past(o, was[o].len)
    <3>1. is[o] = was[o] /\ was[o].kind # NoFrame
      BY <1>5, <1>8, <2>2
    <3>2. past <= w /\ (past # w => was[past].kind # NoFrame)
      BY <2>2, <3>1 DEF RtlInv, w, was
    <3>3. past \in Nat /\ past % 4 = 0
      <4>1. was[o].len \in Nat
        BY <1>1, <1>2 DEF Headers
      <4> QED
        BY <4>1, PastValue
    <3>4. past \in Offsets
      <4>1. w <= RtlSize
        BY <1>1, <1>2, <1>3
      <4> HIDE DEF past
      <4> QED
        BY <1>1, <1>2, <3>2, <3>3, <4>1 DEF Offsets
    <3> HIDE DEF past
    <3>5. past <= end /\ (past # end => is[past].kind # NoFrame)
      <4>1. CASE past = w
        BY <1>2, <1>3, <1>5, <4>1
      <4>2. CASE past # w
        <5>1. past < w
          BY <1>2, <3>2, <3>3, <4>2
        <5>2. past <= end
          BY <1>2, <1>3, <3>3, <5>1
        <5> QED
          BY <1>5, <3>2, <3>4, <4>2, <5>1, <5>2
      <4> QED
        BY <4>1, <4>2
    <3> QED
      BY <3>1, <3>5 DEF past
  <2>3. CASE w < o
    BY <1>5, <1>8, <2>3
  <2> QED
    BY <1>2, <2>0, <2>1, <2>2, <2>3
<1> QED
  BY <1>3, <1>4, <1>6, <1>7, <1>8 DEF RtlInv, is

(* The driver goes on to the next.                                         *)
LEMMA RtlPollInLap ==
  ASSUME TypeOK, RtlInv, RtlPoll
  PROVE  RtlInv'
<1> SUFFICES ASSUME nic = "rtl", inStep
             PROVE  RtlInv'
  BY DEF RtlPoll, RtlInv
<1> DEFINE h == rtl.at[rtl.idx]
           next == Past(rtl.idx, h.len)
           is == rtl'.at
<1>1. /\ rtl.idx \in Offsets /\ rtl.idx \in Nat /\ rtl.write \in Offsets /\ rtl.write \in Nat
      /\ rtl.at \in [Offsets -> Headers] /\ RtlSize \in Nat /\ h.len \in Nat
      /\ "reply" # NoFrame
  BY RtlAssumption, ArrivingAssumption, KindsAssumption
     DEF TypeOK, RtlStates, Headers, Offsets
<1>2. /\ rtl.idx = rtl.read /\ rtl.idx < rtl.write /\ rtl.write < RtlSize
      /\ h.kind # NoFrame
  BY <1>1 DEF RtlInv, RtlPoll
<1>3. Found = {h} /\ h # Blank
  BY <1>2 DEF Found, Remnant, Blank, Header
<1>4. next <= rtl.write /\ (next # rtl.write => rtl.at[next].kind # NoFrame)
  BY <1>1, <1>2 DEF RtlInv
<1>5. next \in Nat /\ next % 4 = 0 /\ next > rtl.idx /\ next \in Offsets /\ next % RtlSize = next
      /\ NextIdx(rtl.idx, h.len) = next
  <2>1. next \in Nat /\ next % 4 = 0 /\ next > rtl.idx
    BY <1>1, PastValue
  <2>2. next < RtlSize
    <3> HIDE DEF next
    <3> QED
      BY <1>1, <1>2, <1>4, <2>1
  <2>3. NextIdx(rtl.idx, h.len) = next
    <3>1. ~(next > RtlSize)
      <4> HIDE DEF next
      <4> QED
        BY <1>1, <2>1, <2>2
    <3> QED
      BY <3>1 DEF NextIdx
  <2> HIDE DEF next
  <2>4. next \in Offsets /\ next % RtlSize = next
    BY <1>1, <2>1, <2>2 DEF Offsets
  <2> QED
    BY <2>1, <2>3, <2>4
<1>6. RtlHandle(h)
  BY <1>3 DEF RtlPoll
<1>7. /\ rtl'.idx = next /\ rtl'.read = next /\ rtl'.write = rtl.write
      /\ is = [rtl.at EXCEPT ![rtl.idx] =
                 IF h.kind = "request" THEN Header(h.len, "reply") ELSE h]
  <2> HIDE DEF next
  <2>1. rtl' = [rtl EXCEPT !.idx = next, !.read = next,
                 !.at[rtl.idx] = IF h.kind = "request" THEN Header(h.len, "reply") ELSE @]
    BY <1>5, <1>6 DEF RtlHandle
  <2> QED
    BY <1>1, <2>1 DEF TypeOK, RtlStates
<1>8. \A o \in Offsets :
        /\ is[o].len = rtl.at[o].len
        /\ is[o].kind # NoFrame <=> rtl.at[o].kind # NoFrame
  <2> TAKE o \in Offsets
  <2> HIDE DEF next, is
  <2>1. CASE o = rtl.idx
    <3>1. is[o] = IF h.kind = "request" THEN Header(h.len, "reply") ELSE h
      BY <1>1, <1>7, <2>1
    <3> QED
      BY <1>1, <1>2, <2>1, <3>1 DEF Header
  <2>2. CASE o # rtl.idx
    BY <1>1, <1>7, <2>2
  <2> QED
    BY <2>1, <2>2
<1>9. next # rtl.write => is[next].kind # NoFrame
  <2> HIDE DEF next, is
  <2> QED
    BY <1>4, <1>5, <1>8
<1>10. ASSUME NEW o \in Offsets, o < rtl.write, is[o].kind # NoFrame
       PROVE  /\ Past(o, is[o].len) <= rtl.write
              /\ Past(o, is[o].len) # rtl.write => is[Past(o, is[o].len)].kind # NoFrame
  <2> DEFINE past == Past(o, rtl.at[o].len)
  <2>1. rtl.at[o].kind # NoFrame /\ is[o].len = rtl.at[o].len
    BY <1>8, <1>10
  <2>2. past <= rtl.write /\ (past # rtl.write => rtl.at[past].kind # NoFrame)
    <3> HIDE DEF is, next, h
    <3> QED
      BY <1>10, <2>1 DEF RtlInv
  <2>3. past \in Nat /\ past % 4 = 0
    <3>1. rtl.at[o].len \in Nat
      BY <1>1 DEF Headers
    <3> QED
      BY <3>1, PastValue
  <2> HIDE DEF past, is, next
  <2>4. past \in Offsets
    BY <1>1, <1>2, <2>2, <2>3 DEF Offsets
  <2>5. past # rtl.write => is[past].kind # NoFrame
    BY <1>8, <2>2, <2>4
  <2> QED
    BY <2>1, <2>2, <2>5 DEF past
<1> HIDE DEF next
<1>11. \A o \in Offsets : o < rtl.write /\ is[o].kind # NoFrame =>
         /\ Past(o, is[o].len) <= rtl.write
         /\ Past(o, is[o].len) # rtl.write => is[Past(o, is[o].len)].kind # NoFrame
  <2> HIDE DEF is
  <2> QED
    BY <1>10
<1> QED
  BY <1>2, <1>4, <1>7, <1>9, <1>11 DEF RtlInv

LEMMA RtlStep ==
  ASSUME TypeOK, RtlInv, [Next]_vars
  PROVE  RtlInv'
<1>1. CASE Start
  <2>1. CASE StartIntel
    BY <1>1, <2>1 DEF Start, StartIntel, RtlInv
  <2>2. CASE StartRtl
    <3>1. 0 < RtlSize /\ \A o \in Offsets : ~(o < 0)
      BY RtlAssumption DEF Offsets
    <3>2. rtl'.read = 0 /\ rtl'.write = 0 /\ rtl'.idx = rtl.idx
      BY <2>2 DEF StartRtl, TypeOK, RtlStates
    <3>3. inStep' => rtl'.idx = 0
      BY <2>2, <3>2 DEF StartRtl
    <3> QED
      BY <3>1, <3>2, <3>3 DEF RtlInv
  <2> QED
    BY <1>1, <2>1, <2>2 DEF Start
<1>2. ASSUME NEW f \in Arriving[nic], IntelReceives(f) \/ \E l \in RtlLengths : RtlReceives(f, l)
      PROVE  RtlInv'
  <2>0. f \in Received
    BY ArrivingAssumption DEF TypeOK
  <2>1. CASE IntelReceives(f)
    BY <2>1 DEF IntelReceives, RtlInv
  <2>2. ASSUME NEW l \in RtlLengths, RtlReceives(f, l)
        PROVE  RtlInv'
    BY <2>0, <2>2, RtlReceivesInLap
  <2> QED
    BY <1>2, <2>1, <2>2
<1>3. CASE IntelTransmits \/ SendReturns \/ SendTimesOut \/ Poll \/ HandleFrame \/ PollEnds
  BY <1>3 DEF IntelTransmits, SendReturns, SendTimesOut, Poll, HandleFrame, PollEnds, RtlInv
<1>4. CASE Connect \/ ApplyStaticIp \/ SendDhcpDiscover \/ SendTcpSyn
  BY <1>4, SendsOneFrame DEF Sends, RtlInv
<1>5. CASE RtlPoll
  BY <1>5, RtlPollInLap
<1>6. CASE UNCHANGED vars
  BY <1>6 DEF vars, RtlInv
<1> QED
  BY <1>1, <1>2, <1>3, <1>4, <1>5, <1>6 DEF Next

-----------------------------------------------------------------------------
LEMMA OnlineStep ==
  ASSUME OnlineShowsItsAddress, [Next]_vars
  PROVE  OnlineShowsItsAddress'
<1> USE DEF OnlineShowsItsAddress
<1>1. CASE Start
  BY <1>1 DEF Start
<1>2. ASSUME NEW f \in Arriving[nic], IntelReceives(f) \/ \E l \in RtlLengths : RtlReceives(f, l)
      PROVE  OnlineShowsItsAddress'
  BY <1>2 DEF IntelReceives, RtlReceives
<1>3. CASE IntelTransmits \/ SendReturns \/ SendTimesOut \/ Poll \/ PollEnds
  BY <1>3 DEF IntelTransmits, SendReturns, SendTimesOut, Poll, PollEnds
<1>4. CASE Connect \/ ApplyStaticIp \/ SendDhcpDiscover \/ SendTcpSyn
  BY <1>4, SendsOneFrame DEF Sends
<1>5. CASE HandleFrame
  BY <1>5 DEF HandleFrame, OnlineAfter, AddressAfter
<1>6. CASE RtlPoll
  <2>1. PICK h \in Found :
          IF h = Blank
          THEN rtl' = [rtl EXCEPT !.read = rtl.idx % RtlSize] /\ UNCHANGED <<online, ip>>
          ELSE RtlHandle(h)
    BY <1>6 DEF RtlPoll
  <2> QED
    BY <2>1 DEF RtlHandle
<1>7. CASE UNCHANGED vars
  BY <1>7 DEF vars
<1> QED
  BY <1>1, <1>2, <1>3, <1>4, <1>5, <1>6, <1>7 DEF Next

(* Driver and chip agree where the next frame lies, and status and address *)
(* are of one host.                                                        *)
THEOREM DriverStaysSound == Spec => []DriverIsSound
<1>1. Init => TypeOK /\ RtlInv /\ OnlineShowsItsAddress
  BY TypeInit, RtlInit DEF Init, OnlineShowsItsAddress
<1>2. TypeOK /\ RtlInv /\ OnlineShowsItsAddress /\ [Next]_vars
        => (TypeOK /\ RtlInv /\ OnlineShowsItsAddress)'
  BY TypeStep, RtlStep, OnlineStep
<1>3. TypeOK /\ RtlInv /\ OnlineShowsItsAddress => DriverIsSound
  BY DEF RtlInv, RtlFindsFrames, DriverIsSound
<1> QED
  BY <1>1, <1>2, <1>3, PTL DEF Spec

-----------------------------------------------------------------------------
(* Receiving implements the queue.                                         *)

LEMMA ReceivingInit == Init => Receiving!Init
BY StartedInStep DEF Init, Receiving!Init

LEMMA ReceivingStep ==
  ASSUME TypeOK, RingsInv, [Next]_vars
  PROVE  \/ Receiving!Next
         \/ UNCHANGED Receiving!vars
<1> DEFINE Q == IF inStep THEN ToHandle(rx) ELSE <<>>
           Stays == (IF inStep THEN ToHandle(rx) ELSE <<>>)' = Q /\ epoch' = epoch
<1>0. /\ ToHandle(StartedRx(0)) = <<>> /\ polled \in Nat /\ rx \in Ring(Received)
      /\ rx.cur \in Slots
  BY StartedInStep DEF TypeOK, Ring
<1>1. Stays => UNCHANGED Receiving!vars
  BY DEF Receiving!vars
<1>2. CASE Start
  <2>1. CASE StartIntel
    <3>1. Receiving!Restart
      BY <1>0, <2>1 DEF StartIntel, Receiving!Restart
    <3> QED
      BY <3>1 DEF Receiving!Next
  <2>2. CASE StartRtl
    <3>1. Stays
      BY <1>0, <2>2 DEF StartRtl, RingsInv
    <3> QED
      BY <1>1, <3>1
  <2> QED
    BY <1>2, <2>1, <2>2 DEF Start
<1>3. ASSUME NEW f \in Arriving[nic], IntelReceives(f)
      PROVE  Receiving!Next \/ UNCHANGED Receiving!vars
  <2>0. f \in Received
    BY ArrivingAssumption DEF TypeOK
  <2>1. CASE inStep
    <3>1. PICK n \in 0 .. RingSize - 1 : InStep(rx, polled, n)
      BY <2>1 DEF RingsInv
    <3>2. ~Idle(rx) /\ rx' = Arrived(rx, f) /\ UNCHANGED <<inStep, epoch>>
      BY <1>3 DEF IntelReceives
    <3>3. Len(ToHandle(rx)) < RingSize - 1 /\ ToHandle(rx') = Append(ToHandle(rx), f)
      BY <1>0, <2>0, <3>1, <3>2, ArrivedInStep
    <3>4. Receiving!Put
      BY <2>0, <2>1, <3>2, <3>3 DEF Receiving!Put
    <3> QED
      BY <3>4 DEF Receiving!Next
  <2>2. CASE ~inStep
    <3>1. Stays
      BY <1>3, <2>2 DEF IntelReceives
    <3> QED
      BY <1>1, <3>1
  <2> QED
    BY <2>1, <2>2
<1>4. ASSUME NEW f \in Arriving[nic], NEW l \in RtlLengths, RtlReceives(f, l)
      PROVE  Receiving!Next \/ UNCHANGED Receiving!vars
  <2>1. Stays
    BY <1>0, <1>4 DEF RtlReceives, RingsInv
  <2> QED
    BY <1>1, <2>1
<1>5. CASE HandleFrame
  <2>1. CASE inStep
    <3>1. PICK n \in 0 .. RingSize - 1 : InStep(rx, polled, n)
      BY <2>1 DEF RingsInv
    <3>2. Waiting(rx) /\ rx' = Handled(rx) /\ UNCHANGED <<inStep, epoch>>
      BY <1>5 DEF HandleFrame
    <3>3. ToHandle(rx) # <<>> /\ ToHandle(rx') = Tail(ToHandle(rx))
      BY <1>0, <3>1, <3>2, HandledInStep
    <3>4. Receiving!Take
      BY <2>1, <3>2, <3>3 DEF Receiving!Take
    <3> QED
      BY <3>4 DEF Receiving!Next
  <2>2. CASE ~inStep
    <3>1. Stays
      BY <1>5, <2>2 DEF HandleFrame
    <3> QED
      BY <1>1, <3>1
  <2> QED
    BY <2>1, <2>2
<1>6. CASE PollEnds
  <2>1. UNCHANGED <<inStep, epoch>>
    BY <1>6 DEF PollEnds
  <2>2. inStep => ToHandle(rx') = ToHandle(rx)
    <3> SUFFICES ASSUME inStep PROVE ToHandle(rx') = ToHandle(rx)
      OBVIOUS
    <3>1. PICK n \in 0 .. RingSize - 1 : InStep(rx, polled, n)
      BY DEF RingsInv
    <3>2. ToHandle(GivenBack(rx, LastHandled)) = ToHandle(rx)
      BY <1>0, <3>1, GivenBackInStep DEF LastHandled
    <3> QED
      BY <1>6, <3>2 DEF PollEnds
  <2>3. Stays
    BY <2>1, <2>2
  <2> QED
    BY <1>1, <2>3
<1>7. CASE UNCHANGED <<rx, inStep, epoch>>
  <2>1. Stays
    BY <1>7
  <2> QED
    BY <1>1, <2>1
<1>8. CASE IntelTransmits \/ SendReturns \/ SendTimesOut \/ Poll \/ RtlPoll
  BY <1>7, <1>8 DEF IntelTransmits, SendReturns, SendTimesOut, Poll, RtlPoll
<1>9. CASE Connect \/ ApplyStaticIp \/ SendDhcpDiscover \/ SendTcpSyn
  BY <1>7, <1>9, SendsOneFrame DEF Sends
<1>10. CASE UNCHANGED vars
  BY <1>7, <1>10 DEF vars
<1> QED
  BY <1>2, <1>3, <1>4, <1>5, <1>6, <1>8, <1>9, <1>10 DEF Next

(* As long as driver and adapter began at one place, frames are handled in *)
(* the order of arrival, each of them once, and none is overwritten.       *)
THEOREM ReceivingIsAQueue == Spec => ReceivesInOrder
<1>1. Init => TypeOK /\ RingsInv /\ Receiving!Init
  BY TypeInit, RingsInit, ReceivingInit
<1>2. TypeOK /\ RingsInv /\ [Next]_vars => (TypeOK /\ RingsInv)'
  BY TypeStep, RingsStep
<1>3. TypeOK /\ RingsInv /\ [Next]_vars => [Receiving!Next]_(Receiving!vars)
  BY ReceivingStep
<1> QED
  BY <1>1, <1>2, <1>3, PTL DEF Spec, ReceivesInOrder, Receiving!Spec
-----------------------------------------------------------------------------
(* Sending implements the queue that overruns.                             *)
Distance(from, to) == (to + RingSize - from) % RingSize

LEMMA DistanceValue ==
  ASSUME NEW from \in Slots, NEW to \in Slots
  PROVE  /\ Distance(from, to) \in 0 .. RingSize - 1
         /\ Distance(from, to) = IF to >= from THEN to - from ELSE to + RingSize - from
         /\ Ahead(from, Distance(from, to)) = to
<1>1. /\ RingSize \in Nat /\ RingSize >= 2 /\ from \in Nat /\ from < RingSize
      /\ to \in Nat /\ to < RingSize
  BY RingAssumption DEF Slots
<1> DEFINE d == Distance(from, to)
<1>2. d = IF to >= from THEN to - from ELSE to + RingSize - from
  <2>1. CASE to >= from
    <3>1. (to + RingSize - from) % RingSize = to - from
      BY <1>1, <2>1
    <3> QED
      BY <2>1, <3>1 DEF Distance
  <2>2. CASE ~(to >= from)
    <3>1. (to + RingSize - from) % RingSize = to + RingSize - from
      BY <1>1, <2>2
    <3> QED
      BY <2>2, <3>1 DEF Distance
  <2> QED
    BY <2>1, <2>2
<1> HIDE DEF d
<1>3. d \in 0 .. RingSize - 1 /\ d \in 0 .. RingSize
  BY <1>1, <1>2
<1>4. Ahead(from, d) = IF from + d < RingSize THEN from + d ELSE from + d - RingSize
  BY <1>3, AheadValue
<1>5. Ahead(from, d) = to
  BY <1>1, <1>2, <1>4
<1> QED
  BY <1>2, <1>3, <1>5 DEF d

LEMMA ToSendRow ==
  ASSUME NEW t \in Ring(Sent)
  PROVE  /\ ToSend(t) = RowOf(t.slot, t.head, Distance(t.head, t.tail))
         /\ ToSend(t) \in Seq(Sent \cup {NoFrame})
         /\ Len(ToSend(t)) = Distance(t.head, t.tail)
<1> DEFINE K == Sent \cup {NoFrame}
           slot == t.slot
           head == t.head
           n == Distance(t.head, t.tail)
<1>1. slot \in [Slots -> K] /\ head \in Slots /\ t.tail \in Slots
  BY DEF Ring
<1>2. ToSend(t) = RowOf(slot, head, n)
  BY DEF ToSend, RowOf, Distance
<1>3. n \in 0 .. RingSize
  <2>1. n \in 0 .. RingSize - 1
    BY <1>1, DistanceValue
  <2> HIDE DEF n
  <2> QED
    BY <2>1, RingAssumption
<1> HIDE DEF K, slot, head, n
<1>4. RowOf(slot, head, n) \in Seq(K) /\ Len(RowOf(slot, head, n)) = n
  BY <1>1, <1>3, RowIsSeq
<1> QED
  BY <1>2, <1>4 DEF K, slot, head, n

(* One frame more is behind the others, or costs all of them.              *)
LEMMA HandedOverRow ==
  ASSUME NEW t \in Ring(Sent), t.cur = t.tail, NEW f \in Sent
  PROVE  \/ /\ Len(ToSend(t)) < RingSize - 1
            /\ ToSend(HandedOver(t, f)) = Append(ToSend(t), f)
         \/ /\ Len(ToSend(t)) = RingSize - 1
            /\ ToSend(HandedOver(t, f)) = <<>>
<1> DEFINE K == Sent \cup {NoFrame}
           slot == t.slot
           head == t.head
           n == Distance(t.head, t.tail)
           a == HandedOver(t, f)
           m == n + 1
<1>1. /\ slot \in [Slots -> K] /\ head \in Slots /\ t.tail \in Slots /\ f \in K
      /\ RingSize \in Nat /\ RingSize >= 2
  BY RingAssumption DEF Ring
<1>2. n \in 0 .. RingSize - 1 /\ Ahead(head, n) = t.tail
  BY <1>1, DistanceValue
<1>3. a \in Ring(Sent)
  BY RingsTyped
<1>4. a.slot = [slot EXCEPT ![t.tail] = f] /\ a.head = head /\ a.tail = After(t.tail)
  BY DEF HandedOver, Ring
<1>5. ToSend(t) = RowOf(slot, head, n) /\ Len(ToSend(t)) = n
  BY ToSendRow
<1>6. ToSend(a) = RowOf(a.slot, a.head, Distance(a.head, a.tail))
  BY <1>3, ToSendRow
<1>7. After(t.tail) = Ahead(head, m) /\ After(t.tail) \in Slots
  <2> HIDE DEF n
  <2> QED
    BY <1>1, <1>2, AheadAfter, AfterValue
<1>8. /\ Ahead(head, m) = IF head + m < RingSize THEN head + m ELSE head + m - RingSize
      /\ m \in Nat /\ m >= 1 /\ m <= RingSize
  <2>1. m \in 0 .. RingSize /\ m >= 1
    <3> HIDE DEF n
    <3> QED
      BY <1>1, <1>2
  <2> HIDE DEF m, head
  <2> QED
    BY <1>1, <2>1, AheadValue
<1>9. Distance(head, After(t.tail)) = IF m < RingSize THEN m ELSE 0
  <2> DEFINE to == After(t.tail)
  <2>1. to \in Slots /\ to = IF head + m < RingSize THEN head + m ELSE head + m - RingSize
    BY <1>7, <1>8
  <2> HIDE DEF to, head, m
  <2>2. Distance(head, to) = IF to >= head THEN to - head ELSE to + RingSize - head
    BY <1>1, <2>1, DistanceValue
  <2>3. head \in Nat /\ head < RingSize
    BY <1>1 DEF Slots
  <2>4. Distance(head, to) = IF m < RingSize THEN m ELSE 0
    BY <1>1, <1>8, <2>1, <2>2, <2>3
  <2> QED
    BY <2>4 DEF to
<1> HIDE DEF K, slot, head, n, a
<1>10. CASE n < RingSize - 1
  <2>1. m < RingSize
    BY <1>1, <1>2, <1>10
  <2>2. RowOf([slot EXCEPT ![Ahead(head, n)] = f], head, n + 1) = Append(RowOf(slot, head, n), f)
    BY ZenonT(60), <1>1, <1>2, RowGrows
  <2>3. ToSend(a) = Append(ToSend(t), f)
    BY <1>2, <1>4, <1>5, <1>6, <1>9, <2>1, <2>2
  <2> QED
    BY <1>5, <1>10, <2>3 DEF a
<1>11. CASE n = RingSize - 1
  <2>1. ~(m < RingSize)
    BY <1>1, <1>11
  <2>2. ToSend(a) = RowOf(a.slot, a.head, 0)
    BY <1>4, <1>6, <1>9, <2>1
  <2>3. ToSend(a) = <<>>
    BY <2>2 DEF RowOf
  <2> QED
    BY <1>5, <1>11, <2>3 DEF a
<1> QED
  BY <1>1, <1>2, <1>10, <1>11

(* The adapter sends the first.                                            *)
LEMMA TransmittedRow ==
  ASSUME NEW t \in Ring(Sent), ~Idle(t)
  PROVE  ToSend(t) # <<>> /\ ToSend(Transmitted(t)) = Tail(ToSend(t))
<1> DEFINE K == Sent \cup {NoFrame}
           slot == t.slot
           head == t.head
           tail == t.tail
           n == Distance(t.head, t.tail)
           a == Transmitted(t)
           next == After(t.head)
<1>1. /\ slot \in [Slots -> K] /\ head \in Slots /\ tail \in Slots /\ NoFrame \in K
      /\ RingSize \in Nat /\ RingSize >= 2 /\ head # tail
  BY RingAssumption DEF Ring, Idle
<1>2. n = IF tail >= head THEN tail - head ELSE tail + RingSize - head
  BY <1>1, DistanceValue
<1>3. a \in Ring(Sent)
  BY RingsTyped
<1>4. a.slot = [slot EXCEPT ![head] = NoFrame] /\ a.head = next /\ a.tail = tail
  BY DEF Transmitted, Ring
<1>5. ToSend(t) = RowOf(slot, head, n)
  BY ToSendRow
<1>6. ToSend(a) = RowOf(a.slot, a.head, Distance(a.head, a.tail))
  BY <1>3, ToSendRow
<1>7. next \in Slots /\ next = IF head + 1 < RingSize THEN head + 1 ELSE 0
  BY <1>1, AfterValue
<1> HIDE DEF K, slot, head, tail, n, a, next
<1>8. Distance(next, tail) = IF tail >= next THEN tail - next ELSE tail + RingSize - next
  BY <1>1, <1>7, DistanceValue
<1>9. n \in 1 .. RingSize /\ Distance(next, tail) = n - 1
  <2>1. head \in Nat /\ head < RingSize /\ tail \in Nat /\ tail < RingSize
    BY <1>1 DEF Slots
  <2> QED
    BY <1>1, <1>2, <1>7, <1>8, <2>1
<1>10. /\ RowOf(slot, head, n) # <<>>
       /\ RowOf([slot EXCEPT ![head] = NoFrame], After(head), n - 1) = Tail(RowOf(slot, head, n))
  BY <1>1, <1>9, RowShrinks
<1>11. next = After(head)
  BY DEF next, head
<1> QED
  BY <1>4, <1>5, <1>6, <1>9, <1>10, <1>11 DEF a

LEMMA StartedRow == ToSend(StartedTx) = <<>>
<1>1. 0 \in Slots /\ RingSize \in Nat
  BY RingAssumption DEF Slots
<1>2. Distance(0, 0) = 0
  BY <1>1, DistanceValue
<1> QED
  BY <1>2 DEF StartedTx, ToSend, Distance

LEMMA SendingStep ==
  ASSUME TypeOK, RingsInv, [Next]_vars
  PROVE  Sending!Next \/ UNCHANGED Sending!vars
<1>0. tx \in Ring(Sent) /\ tx.cur = tx.tail
  BY DEF TypeOK, RingsInv
<1>1. UNCHANGED <<tx, epoch>> => UNCHANGED Sending!vars
  <2> SUFFICES ASSUME tx' = tx, epoch' = epoch PROVE UNCHANGED Sending!vars
    OBVIOUS
  <2>1. ToSend(tx)' = ToSend(tx)
    BY DEF ToSend
  <2> QED
    BY <2>1 DEF Sending!vars
<1>2. ASSUME NEW f \in Sent, tx' = HandedOver(tx, f), epoch' = epoch
      PROVE  Sending!Next
  <2>1. ToSend(tx)' = ToSend(HandedOver(tx, f))
    BY <1>2 DEF ToSend
  <2>2. CASE Len(ToSend(tx)) < RingSize - 1 /\ ToSend(HandedOver(tx, f)) = Append(ToSend(tx), f)
    <3>1. Sending!Put
      BY <1>2, <2>1, <2>2 DEF Sending!Put
    <3> QED
      BY <3>1 DEF Sending!Next
  <2>3. CASE Len(ToSend(tx)) = RingSize - 1 /\ ToSend(HandedOver(tx, f)) = <<>>
    <3>1. Sending!Overrun
      BY <1>2, <2>1, <2>3 DEF Sending!Overrun
    <3> QED
      BY <3>1 DEF Sending!Next
  <2> QED
    BY <1>0, <2>2, <2>3, HandedOverRow
<1>3. CASE Start
  <2>1. CASE StartIntel
    <3>1. ToSend(tx)' = <<>> /\ epoch' = ~epoch
      BY <2>1, StartedRow DEF StartIntel, ToSend
    <3>2. Sending!Restart
      BY <3>1 DEF Sending!Restart
    <3> QED
      BY <3>2 DEF Sending!Next
  <2>2. CASE StartRtl
    BY <1>1, <2>2 DEF StartRtl
  <2> QED
    BY <1>3, <2>1, <2>2 DEF Start
<1>4. CASE IntelTransmits
  <2>1. ~Idle(tx) /\ tx' = Transmitted(tx) /\ epoch' = epoch
    BY <1>4 DEF IntelTransmits
  <2>2. ToSend(tx)' = ToSend(Transmitted(tx))
    BY <2>1 DEF ToSend
  <2>3. Sending!Take
    BY <1>0, <2>1, <2>2, TransmittedRow DEF Sending!Take
  <2> QED
    BY <2>3 DEF Sending!Next
<1>5. CASE Connect \/ ApplyStaticIp \/ SendDhcpDiscover \/ SendTcpSyn
  BY <1>1, <1>2, <1>5, SendsOneFrame DEF Sends
<1>6. ASSUME NEW f \in Arriving[nic], IntelReceives(f) \/ \E l \in RtlLengths : RtlReceives(f, l)
      PROVE  Sending!Next \/ UNCHANGED Sending!vars
  BY <1>1, <1>6 DEF IntelReceives, RtlReceives
<1>7. CASE SendReturns \/ SendTimesOut \/ Poll \/ HandleFrame \/ PollEnds \/ RtlPoll
  BY <1>1, <1>7 DEF SendReturns, SendTimesOut, Poll, HandleFrame, PollEnds, RtlPoll
<1>8. CASE UNCHANGED vars
  BY <1>1, <1>8 DEF vars
<1> QED
  BY <1>3, <1>4, <1>5, <1>6, <1>7, <1>8 DEF Next

(* Frames leave in the order in which they were handed over; the one that  *)
(* fills the ring costs all that wait, and nothing else loses any.         *)
THEOREM SendingIsAQueue == Spec => SendsInOrder
<1>1. Init => TypeOK /\ RingsInv /\ Sending!Init
  BY TypeInit, RingsInit, StartedRow DEF Init, Sending!Init
<1>2. TypeOK /\ RingsInv /\ [Next]_vars => (TypeOK /\ RingsInv)'
  BY TypeStep, RingsStep
<1>3. TypeOK /\ RingsInv /\ [Next]_vars => [Sending!Next]_(Sending!vars)
  BY SendingStep
<1> QED
  BY <1>1, <1>2, <1>3, PTL DEF Spec, SendsInOrder, Sending!Spec
=============================================================================
