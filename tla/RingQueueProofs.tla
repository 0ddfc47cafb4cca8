--------------------------- MODULE RingQueueProofs ---------------------------
(***************************************************************************)
(* Facts about the circular queue, for every QUEUE_SIZE above 1, and the   *)
(* proof that it is a bounded first-in first-out line.                     *)
(***************************************************************************)
EXTENDS RingQueue, SequenceTheorems, TLAPS

Rings == [Slot -> Items \cup {NoItem}]

(* The slot after i, without the modulus, and the way back to it.          *)
LEMMA SuccValue ==
  ASSUME NEW i \in Slot
  PROVE  /\ Succ(i) = IF i = QUEUE_SIZE - 1 THEN 0 ELSE i + 1
         /\ Succ(i) \in Slot
         /\ StepBack(Succ(i)) = i
<1>1. Succ(i) = IF i = QUEUE_SIZE - 1 THEN 0 ELSE i + 1
  BY QueueAssumption, SMTT(30) DEF Succ, Slot
<1> QED
  BY <1>1, QueueAssumption DEF Slot, StepBack

(* The k-th slot after f: one wrap at most.                                *)
LEMMA SlotOf ==
  ASSUME NEW f \in Slot, NEW k \in 0 .. QUEUE_SIZE
  PROVE  /\ NthSlot(f, k) =
              IF f + k < QUEUE_SIZE THEN f + k ELSE f + k - QUEUE_SIZE
         /\ NthSlot(f, k) \in Slot
<1>1. /\ f \in Nat /\ f < QUEUE_SIZE
      /\ k \in Nat /\ k <= QUEUE_SIZE
      /\ QUEUE_SIZE \in Nat /\ QUEUE_SIZE > 0
  BY QueueAssumption DEF Slot
<1>2. NthSlot(f, k) =
        IF f + k < QUEUE_SIZE THEN f + k ELSE f + k - QUEUE_SIZE
  <2>1. CASE f + k < QUEUE_SIZE
    BY <1>1, <2>1, SMTT(30) DEF NthSlot
  <2>2. CASE ~(f + k < QUEUE_SIZE)
    BY <1>1, <2>2, SMTT(30) DEF NthSlot
  <2> QED
    BY <2>1, <2>2
<1> QED
  BY <1>1, <1>2 DEF Slot

(* The queue holds between 0 and QUEUE_SIZE - 1 items, and the two tests   *)
(* of the code recognise the extremes.                                     *)
LEMMA LengthBounds ==
  ASSUME NEW f \in Slot, NEW r \in Slot
  PROVE  /\ LengthOf(f, r) \in 0 .. QUEUE_SIZE - 1
         /\ f = r <=> LengthOf(f, r) = 0
         /\ Succ(r) = f <=> LengthOf(f, r) = QUEUE_SIZE - 1
  BY SuccValue, QueueAssumption DEF Slot, LengthOf

(* What the queue holds is a sequence of items.                            *)
LEMMA ContentsType ==
  ASSUME NEW f \in Slot, NEW r \in Slot, NEW q \in Rings
  PROVE  /\ ContentsOf(f, r, q) \in Seq(Items \cup {NoItem})
         /\ Len(ContentsOf(f, r, q)) = LengthOf(f, r)
         /\ \A k \in 1 .. LengthOf(f, r) :
              ContentsOf(f, r, q)[k] = q[NthSlot(f, k)]
<1>1. LengthOf(f, r) \in Nat
  BY LengthBounds, QueueAssumption
<1>2. ASSUME NEW k \in 1 .. LengthOf(f, r)
      PROVE  q[NthSlot(f, k)] \in Items \cup {NoItem}
  <2>1. NthSlot(f, k) \in Slot
    BY SlotOf, LengthBounds, QueueAssumption
  <2> QED
    BY <2>1 DEF Rings
<1> QED
  BY <1>1, <1>2 DEF ContentsOf

(* Writing the slot after the last one makes the line longer by one.       *)
LEMMA InsertAppends ==
  ASSUME NEW f \in Slot, NEW r \in Slot, NEW q \in Rings,
         NEW x \in Items \cup {NoItem}, Succ(r) # f
  PROVE  /\ [q EXCEPT ![Succ(r)] = x] \in Rings
         /\ LengthOf(f, Succ(r)) = LengthOf(f, r) + 1
         /\ ContentsOf(f, Succ(r), [q EXCEPT ![Succ(r)] = x]) =
              Append(ContentsOf(f, r, q), x)
<1> DEFINE s == Succ(r)
           p == [q EXCEPT ![s] = x]
           c == ContentsOf(f, s, p)
           d == Append(ContentsOf(f, r, q), x)
           n == LengthOf(f, r)
<1>1. s \in Slot /\ s = (IF r = QUEUE_SIZE - 1 THEN 0 ELSE r + 1) /\ s # f
  BY SuccValue
<1>2. p \in Rings
  BY <1>1 DEF Rings
<1>3. LengthOf(f, s) = n + 1
  BY <1>1, QueueAssumption DEF Slot, LengthOf
<1>4. n \in Nat /\ n + 1 <= QUEUE_SIZE
  BY LengthBounds, QueueAssumption
<1>5. /\ c \in Seq(Items \cup {NoItem})
      /\ Len(c) = n + 1
      /\ \A k \in 1 .. n + 1 : c[k] = p[NthSlot(f, k)]
  <2> HIDE DEF s, p, n
  <2>1. /\ c \in Seq(Items \cup {NoItem})
        /\ Len(c) = LengthOf(f, s)
        /\ \A k \in 1 .. LengthOf(f, s) : c[k] = p[NthSlot(f, k)]
    BY <1>1, <1>2, ContentsType
  <2> HIDE DEF c
  <2> QED
    BY <2>1, <1>3
<1>6. /\ d \in Seq(Items \cup {NoItem})
      /\ Len(d) = n + 1
      /\ d[n + 1] = x
      /\ \A k \in 1 .. n : d[k] = q[NthSlot(f, k)]
  BY <1>4, ContentsType
<1>7. ASSUME NEW k \in 1 .. n + 1
      PROVE  c[k] = d[k]
  <2> DEFINE i == NthSlot(f, k)
  <2>1. /\ i \in Slot
        /\ i = IF f + k < QUEUE_SIZE THEN f + k ELSE f + k - QUEUE_SIZE
    BY <1>4, SlotOf, QueueAssumption
  <2>2. c[k] = p[i]
    BY <1>5
  <2>3. CASE k = n + 1
    <3>1. i = s
      BY <1>1, <2>1, <2>3, QueueAssumption DEF Slot, LengthOf
    <3> HIDE DEF c, d, s, i, n
    <3>2. p[i] = x
      BY <1>1, <3>1 DEF Rings
    <3> QED
      BY <1>6, <2>2, <2>3, <3>2
  <2>4. CASE k \in 1 .. n
    <3>1. i # s
      BY <1>1, <2>1, <2>4, QueueAssumption DEF Slot, LengthOf
    <3>2. d[k] = q[i]
      BY <1>6, <2>4
    <3> HIDE DEF c, d, s, i, n
    <3>3. p[i] = q[i]
      BY <1>1, <2>1, <3>1 DEF Rings
    <3> QED
      BY <2>2, <3>2, <3>3
  <2> HIDE DEF c, d, n
  <2> QED
    BY <1>4, <2>3, <2>4
<1>8. c = d
  <2> HIDE DEF c, d, n
  <2> QED
    BY <1>5, <1>6, <1>7, SeqEqual
<1> QED
  BY <1>2, <1>3, <1>8

(* Moving front over a queued item takes the oldest one off the line.      *)
LEMMA DeleteTails ==
  ASSUME NEW f \in Slot, NEW r \in Slot, NEW q \in Rings, f # r
  PROVE  /\ Succ(f) \in Slot
         /\ LengthOf(Succ(f), r) = LengthOf(f, r) - 1
         /\ ContentsOf(f, r, q) # <<>>
         /\ Head(ContentsOf(f, r, q)) = q[Succ(f)]
         /\ ContentsOf(Succ(f), r, q) = Tail(ContentsOf(f, r, q))
<1> DEFINE s == Succ(f)
           n == LengthOf(f, r)
           c == ContentsOf(s, r, q)
           d == ContentsOf(f, r, q)
<1>1. s \in Slot /\ s = (IF f = QUEUE_SIZE - 1 THEN 0 ELSE f + 1)
  BY SuccValue
<1>2. LengthOf(s, r) = n - 1
  BY <1>1, QueueAssumption DEF Slot, LengthOf
<1>3. n \in Nat /\ n >= 1 /\ n <= QUEUE_SIZE - 1 /\ n - 1 \in Nat
  BY LengthBounds, QueueAssumption
<1>4. /\ d \in Seq(Items \cup {NoItem})
      /\ Len(d) = n
      /\ \A k \in 1 .. n : d[k] = q[NthSlot(f, k)]
  BY ContentsType
<1>5. /\ c \in Seq(Items \cup {NoItem})
      /\ Len(c) = n - 1
      /\ \A k \in 1 .. n - 1 : c[k] = q[NthSlot(s, k)]
  <2> HIDE DEF s, n
  <2>1. /\ c \in Seq(Items \cup {NoItem})
        /\ Len(c) = LengthOf(s, r)
        /\ \A k \in 1 .. LengthOf(s, r) : c[k] = q[NthSlot(s, k)]
    BY <1>1, ContentsType
  <2> HIDE DEF c
  <2> QED
    BY <2>1, <1>2
<1>6. d # <<>> /\ Head(d) = q[s]
  <2>1. NthSlot(f, 1) = s
    BY DEF NthSlot, Succ
  <2>2. d[1] = q[NthSlot(f, 1)]
    <3> HIDE DEF d, n
    <3> QED
      BY <1>3, <1>4
  <2> HIDE DEF d, n, s
  <2>3. d # <<>>
    BY <1>3, <1>4
  <2> QED
    BY <1>4, <2>1, <2>2, <2>3
<1>7. ASSUME NEW k \in 1 .. n - 1
      PROVE  NthSlot(s, k) = NthSlot(f, k + 1)
  <2>1. k \in 0 .. QUEUE_SIZE /\ k + 1 \in 0 .. QUEUE_SIZE
    BY <1>3, QueueAssumption
  <2>2. NthSlot(s, k) = IF s + k < QUEUE_SIZE THEN s + k ELSE s + k - QUEUE_SIZE
    BY <1>1, <2>1, SlotOf
  <2>3. NthSlot(f, k + 1) =
          IF f + (k + 1) < QUEUE_SIZE THEN f + (k + 1) ELSE f + (k + 1) - QUEUE_SIZE
    BY <2>1, SlotOf
  <2>4. s + k < 2 * QUEUE_SIZE /\ f + (k + 1) < 2 * QUEUE_SIZE
    BY <1>1, <1>3, QueueAssumption DEF Slot
  <2> HIDE DEF s, n
  <2> QED
    BY <1>1, <1>3, <2>2, <2>3, <2>4, QueueAssumption DEF Slot
<1>8. /\ Tail(d) \in Seq(Items \cup {NoItem})
      /\ Len(Tail(d)) = n - 1
      /\ \A k \in 1 .. n - 1 : Tail(d)[k] = d[k + 1]
  <2> HIDE DEF d, n
  <2> QED
    BY <1>3, <1>4, <1>6
<1>9. c = Tail(d)
  <2>1. \A k \in 1 .. n - 1 : c[k] = Tail(d)[k]
    <3> HIDE DEF c, d, s, n
    <3> QED
      BY <1>3, <1>4, <1>5, <1>7, <1>8
  <2> HIDE DEF c, d, n
  <2> QED
    BY <1>5, <1>8, <2>1, SeqEqual
<1> QED
  BY <1>1, <1>2, <1>6, <1>9

-----------------------------------------------------------------------------
(* The two operations of queue.c, as steps of the ring.                    *)

LEMMA InsertStep ==
  ASSUME RingTypeOK, NEW x \in Items \cup {NoItem}, queue_insert(x)
  PROVE  /\ RingTypeOK'
         /\ IsFull => UNCHANGED <<Length, Contents>>
         /\ ~IsFull => /\ Length' = Length + 1
                       /\ Contents' = Append(Contents, x)
<1>1. front \in Slot /\ rear \in Slot /\ queue \in Rings
  BY DEF RingTypeOK, Rings
<1>2. CASE IsFull
  <2>1. UNCHANGED ringVars
    BY <1>1, <1>2, SuccValue DEF IsFull, queue_insert, ringVars
  <2> QED
    BY <1>1, <1>2, <2>1 DEF ringVars, RingTypeOK, Rings, Length, Contents
<1>3. CASE ~IsFull
  <2>1. /\ front' = front
        /\ rear' = Succ(rear)
        /\ queue' = [queue EXCEPT ![Succ(rear)] = x]
    BY <1>3 DEF IsFull, queue_insert
  <2>2. Succ(rear) \in Slot
    BY <1>1, SuccValue
  <2>3. /\ queue' \in Rings
        /\ LengthOf(front, Succ(rear)) = LengthOf(front, rear) + 1
        /\ ContentsOf(front, Succ(rear), queue') =
             Append(ContentsOf(front, rear, queue), x)
    BY <1>1, <1>3, <2>1, InsertAppends DEF IsFull
  <2> QED
    BY <1>1, <1>3, <2>1, <2>2, <2>3 DEF RingTypeOK, Rings, Length, Contents
<1> QED
  BY <1>2, <1>3

LEMMA DeleteStep ==
  ASSUME RingTypeOK, NEW x, queue_delete(x)
  PROVE  /\ RingTypeOK'
         /\ x \in Items \cup {NoItem}
         /\ IsEmpty => UNCHANGED <<Length, Contents>>
         /\ ~IsEmpty => /\ Length' = Length - 1
                        /\ Contents # <<>>
                        /\ x = Head(Contents)
                        /\ Contents' = Tail(Contents)
<1>1. front \in Slot /\ rear \in Slot /\ queue \in Rings
  BY DEF RingTypeOK, Rings
<1>2. Succ(front) \in Slot
  BY <1>1, SuccValue
<1>3. x \in Items \cup {NoItem}
  BY <1>1, <1>2 DEF queue_delete, Deletable, Rings
<1>4. CASE IsEmpty
  BY <1>1, <1>3, <1>4 DEF queue_delete, RingTypeOK, Rings, Length, Contents
<1>5. CASE ~IsEmpty
  <2>1. /\ front' = Succ(front)
        /\ rear' = rear /\ queue' = queue
        /\ x = queue[Succ(front)]
    BY <1>5 DEF queue_delete, Deletable
  <2>2. /\ LengthOf(Succ(front), rear) = LengthOf(front, rear) - 1
        /\ ContentsOf(front, rear, queue) # <<>>
        /\ Head(ContentsOf(front, rear, queue)) = queue[Succ(front)]
        /\ ContentsOf(Succ(front), rear, queue) = Tail(ContentsOf(front, rear, queue))
    BY <1>1, <1>5, DeleteTails DEF IsEmpty
  <2> QED
    BY <1>1, <1>2, <1>3, <1>5, <2>1, <2>2 DEF RingTypeOK, Rings, Length, Contents
<1> QED
  BY <1>4, <1>5

(* The queue starts empty.                                                 *)
LEMMA InitEmpty ==
  ASSUME RingInit
  PROVE  RingTypeOK /\ Length = 0 /\ Contents = <<>>
<1>1. RingTypeOK /\ Length = 0
  BY QueueAssumption DEF RingInit, RingTypeOK, Slot, Length, LengthOf
<1>2. /\ Contents \in Seq(Items \cup {NoItem})
      /\ Len(Contents) = 0
  BY <1>1, ContentsType DEF RingTypeOK, Rings, Length, Contents
<1> QED
  BY <1>1, <1>2

(* front and rear stay slots of the ring whatever calls are made.          *)
THEOREM RingTyped == RingSpec => []RingTypeOK
<1>1. RingInit => RingTypeOK
  BY InitEmpty
<1>2. RingTypeOK /\ [RingNext]_ringVars => RingTypeOK'
  <2> SUFFICES ASSUME RingTypeOK, [RingNext]_ringVars
               PROVE  RingTypeOK'
    OBVIOUS
  <2>1. ASSUME NEW x \in Items, queue_insert(x)
        PROVE  RingTypeOK'
    BY <2>1, InsertStep
  <2>2. ASSUME NEW x \in Items \cup {NoItem}, queue_delete(x)
        PROVE  RingTypeOK'
    BY <2>2, DeleteStep
  <2>3. CASE UNCHANGED ringVars
    BY <2>3 DEF ringVars, RingTypeOK
  <2> QED
    BY <2>1, <2>2, <2>3 DEF RingNext
<1> QED
  BY <1>1, <1>2, PTL DEF RingSpec

(* queue.c implements the bounded first-in first-out line: what goes in    *)
(* comes out in order, except that an insertion into a full ring is lost.  *)
THEOREM RingIsFifo == RingSpec => ImplementsFifo
<1>1. RingInit => Fifo!Init
  BY InitEmpty DEF Fifo!Init
<1>2. RingTypeOK /\ [RingNext]_ringVars => [Fifo!Next]_Contents
  <2> SUFFICES ASSUME RingTypeOK, [RingNext]_ringVars
               PROVE  Fifo!Next \/ UNCHANGED Contents
    OBVIOUS
  <2>1. /\ Len(Contents) = Length
        /\ Length \in 0 .. QUEUE_SIZE - 1
        /\ IsFull <=> Length = QUEUE_SIZE - 1
    BY ContentsType, LengthBounds DEF RingTypeOK, Rings, Length, Contents, IsFull
  <2>2. ASSUME NEW x \in Items, queue_insert(x)
        PROVE  Fifo!Next \/ UNCHANGED Contents
    <3>1. CASE IsFull
      BY <2>2, <3>1, InsertStep
    <3>2. CASE ~IsFull
      <4>1. Contents' = Append(Contents, x)
        BY <2>2, <3>2, InsertStep
      <4>2. Len(Contents) < QUEUE_SIZE - 1
        BY <2>1, <3>2, QueueAssumption
      <4> QED
        BY <4>1, <4>2 DEF Fifo!Next, Fifo!Insert
    <3> QED
      BY <3>1, <3>2
  <2>3. ASSUME NEW x \in Items \cup {NoItem}, queue_delete(x)
        PROVE  Fifo!Next \/ UNCHANGED Contents
    BY <2>3, DeleteStep DEF Fifo!Next, Fifo!Delete
  <2>4. CASE UNCHANGED ringVars
    BY <2>4 DEF ringVars, Contents
  <2> QED
    BY <2>2, <2>3, <2>4 DEF RingNext
<1> QED
  BY <1>1, <1>2, RingTyped, PTL DEF RingSpec, ImplementsFifo, Fifo!Spec
=============================================================================
