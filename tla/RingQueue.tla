------------------------------ MODULE RingQueue ------------------------------
(***************************************************************************)
(* The circular queue of version 4/queue.c (and Ver3/queue.c, which is the *)
(* same code over int descriptors).  front is the slot emptied last, rear  *)
(* the slot filled last; front = rear means empty, and one slot stays      *)
(* unused so that a full queue is distinguishable from an empty one.       *)
(*                                                                         *)
(* Nothing here is synchronised: the callers hold queue_lock.              *)
(***************************************************************************)
EXTENDS Integers, Sequences

CONSTANTS
  QUEUE_SIZE,  \* the number of slots (queue.h defines 100)
  Items,       \* what is queued: ticket numbers, or socket descriptors
  NoItem       \* the zero a slot holds before it is first written

ASSUME QueueAssumption == /\ QUEUE_SIZE \in Nat \ {0, 1}
                          /\ NoItem \notin Items

VARIABLES front, rear, queue

ringVars == <<front, rear, queue>>

Slot == 0 .. QUEUE_SIZE - 1

(* Mutant: the index does not wrap.                                        *)
Succ_NoWrap(i) == i + 1

(* The slot after i, and the branch of the overflow path that undoes it.   *)
Succ(i) == (i + 1) % QUEUE_SIZE
StepBack(i) == IF i = 0 THEN QUEUE_SIZE - 1 ELSE i - 1

IsEmpty == front = rear
IsFull  == Succ(rear) = front

RingInit ==
  /\ front = 0
  /\ rear = 0
  /\ queue = [i \in Slot |-> NoItem]

RingTypeOK ==
  /\ front \in Slot
  /\ rear \in Slot
  /\ queue \in [Slot -> Items \cup {NoItem}]

(* queue_insert: rear is advanced first; if it then meets front the item   *)
(* is dropped and rear is moved back, otherwise the slot is written.       *)
queue_insert(x) ==
  LET r == Succ(rear) IN
    /\ rear' = IF r = front THEN StepBack(r) ELSE r
    /\ queue' = IF r = front THEN queue ELSE [queue EXCEPT ![r] = x]
    /\ UNCHANGED front

(* queue_delete on an empty queue falls off its end without a return value *)
(* and leaves front alone: the caller then reads an arbitrary item.        *)
Deletable == IF IsEmpty THEN Items \cup {NoItem} ELSE {queue[Succ(front)]}

(* Mutant: the slot is read before front is advanced.                      *)
queue_delete_ReadFirst(x) ==
  /\ x = queue[front]
  /\ front' = IF IsEmpty THEN front ELSE Succ(front)
  /\ UNCHANGED <<rear, queue>>

queue_delete(x) ==
  /\ x \in Deletable
  /\ front' = IF IsEmpty THEN front ELSE Succ(front)
  /\ UNCHANGED <<rear, queue>>

(* The loop of know_position: i runs from front to rear, both included and *)
(* without wrapping, and stops at the first slot that holds x.             *)
Scanned(x) == {i \in front .. rear : queue[i] = x}
FoundAt(x) == CHOOSE i \in Scanned(x) : \A j \in Scanned(x) : i <= j
(* Mutant: pos starts at 0.                                                *)
PositionOf_FromZero(x) == FoundAt(x) - front

PositionOf(x) == FoundAt(x) - front + 1

(* What the ring (f, r, q) holds, oldest first.                            *)
LengthOf(f, r) == IF f <= r THEN r - f ELSE r - f + QUEUE_SIZE
NthSlot(f, k) == (f + k) % QUEUE_SIZE
ContentsOf(f, r, q) == [k \in 1 .. LengthOf(f, r) |-> q[NthSlot(f, k)]]

Length == LengthOf(front, rear)
Contents == ContentsOf(front, rear, queue)

RingNext == \E x \in Items \cup {NoItem} :
  \/ x \in Items /\ queue_insert(x)
  \/ queue_delete(x)

RingSpec == RingInit /\ [][RingNext]_ringVars

(* The ring is a bounded first-in first-out line: insertions append, or    *)
(* are dropped when it is full; deletions return the oldest item.          *)
Fifo == INSTANCE BoundedFifo WITH line     <- Contents,
                                  Capacity <- QUEUE_SIZE - 1

ImplementsFifo == Fifo!Spec
=============================================================================
