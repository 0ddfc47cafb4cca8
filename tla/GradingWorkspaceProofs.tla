----------------------- MODULE GradingWorkspaceProofs -----------------------
(***************************************************************************)
(* Proofs about version 4 for every number of workers, every size of the   *)
(* queue and any number of tickets and queries: first of the pool          *)
(* (TicketPool), then of the server with its files, which implements the   *)
(* pool, so that all that is proved of the pool holds of it.               *)
(***************************************************************************)
EXTENDS GradingWorkspace, RingQueueProofs, FiniteSetTheorems

USE DEF NotFound, Accepted, Processing, Graded, MainPc, WorkerPc, Threads

-----------------------------------------------------------------------------
(* Part 1: the pool.                                                       *)

(* What Put and Take do to the line and the counter, given that the tests  *)
(* of their callers and CountAgrees hold.                                  *)
LEMMA PutAppends ==
  ASSUME TypeOK, NEW x \in Items, ~IsFull, Put(x)
  PROVE  /\ RingTypeOK'
         /\ no_req' = no_req + 1
         /\ Length' = Length + 1
         /\ Contents' = Append(Contents, x)
  BY InsertStep DEF Put, TypeOK

LEMMA TakeTails ==
  ASSUME TypeOK, CountAgrees, no_req > 0, NEW x, Take(x)
  PROVE  /\ RingTypeOK'
         /\ no_req' = no_req - 1
         /\ Length' = Length - 1
         /\ Contents # <<>>
         /\ x = Head(Contents)
         /\ x \in Items \cup {NoItem}
         /\ Contents' = Tail(Contents)
<1>1. ~IsEmpty
  BY LengthBounds DEF TypeOK, RingTypeOK, CountAgrees, IsEmpty, Length
<1> QED
  BY <1>1, DeleteStep DEF Take, TypeOK

LEMMA SignalShrinks ==
  ASSUME Signal
  PROVE  waiting' \subseteq waiting
  BY DEF Signal

(* Contents is a sequence of Length items.                                 *)
LEMMA LineType ==
  ASSUME RingTypeOK
  PROVE  /\ Length \in 0 .. QUEUE_SIZE - 1
         /\ Contents \in Seq(Items \cup {NoItem})
         /\ Len(Contents) = Length
  BY LengthBounds, ContentsType DEF RingTypeOK, Rings, Length, Contents

-----------------------------------------------------------------------------
(* The types.                                                              *)

LEMMA TypeInit == Init => TypeOK
  BY InitEmpty, PoolAssumption DEF Init, ReadyInit, TypeOK

LEMMA TypeStep == TypeOK /\ CountAgrees /\ LocalsAgree /\ [Next]_vars => TypeOK'
<1> SUFFICES ASSUME TypeOK, CountAgrees, LocalsAgree, [Next]_vars
             PROVE  TypeOK'
  OBVIOUS
<1> USE PoolAssumption
<1>1. ASSUME NEW x \in Items, Submit(x)
      PROVE  TypeOK'
  BY <1>1 DEF Submit, TypeOK, Goto, readyVars, RingTypeOK
<1>2. ASSUME NEW x \in Items, AskPosition(x)
      PROVE  TypeOK'
  BY <1>2 DEF AskPosition, TypeOK, Goto, readyVars, RingTypeOK
<1>3. CASE MasterWait
  BY <1>3 DEF MasterWait, TypeOK, CondWait, RingTypeOK
<1>4. CASE MasterInsert
  <2>1. ticket[Main] \in Items
    BY <1>4 DEF MasterInsert, Locks, LocalsAgree
  <2>2. RingTypeOK' /\ no_req' = no_req + 1
    BY <1>4, <2>1, PutAppends DEF MasterInsert
  <2>3. waiting' \subseteq waiting
    BY <1>4, SignalShrinks DEF MasterInsert, Put
  <2> QED
    BY <1>4, <2>1, <2>2, <2>3 DEF MasterInsert, TypeOK, Goto
<1>5. CASE KnowPosition
  BY <1>5 DEF KnowPosition, TypeOK, Goto, readyVars, RingTypeOK
<1>6. ASSUME NEW w \in Workers, WorkerWait(w)
      PROVE  TypeOK'
  BY <1>6 DEF WorkerWait, TypeOK, Goto, CondWait, RingTypeOK
<1>7. ASSUME NEW w \in Workers, WorkerWake(w)
      PROVE  TypeOK'
  BY <1>7 DEF WorkerWake, TypeOK, Goto, readyVars, RingTypeOK
<1>8. ASSUME NEW w \in Workers, WorkerTake(w)
      PROVE  TypeOK'
  <2>1. PICK x \in Items \cup {NoItem} :
          /\ Take(x)
          /\ status' = [y \in Items |-> IF y = x /\ status[y] # NotFound
                                        THEN Processing ELSE status[y]]
          /\ Goto(w, "grade", x)
    BY <1>8 DEF WorkerTake
  <2>2. no_req > 0 /\ queue_lock' = queue_lock /\ queries' = queries
    BY <1>8 DEF WorkerTake
  <2>3. RingTypeOK' /\ no_req' = no_req - 1
    BY <2>1, <2>2, TakeTails
  <2>4. waiting' \subseteq waiting
    BY <2>1, SignalShrinks DEF Take
  <2> QED
    BY <2>1, <2>2, <2>3, <2>4 DEF TypeOK, Goto
<1>9. ASSUME NEW w \in Workers, WorkerFinish(w)
      PROVE  TypeOK'
  BY <1>9 DEF WorkerFinish, TypeOK, Goto, readyVars, RingTypeOK
<1>10. CASE SpuriousWake
  BY <1>10 DEF SpuriousWake, SpuriousWakeup, TypeOK, RingTypeOK
<1>11. CASE UNCHANGED vars
  BY <1>11 DEF vars, TypeOK, RingTypeOK
<1> QED
  BY <1>1, <1>2, <1>3, <1>4, <1>5, <1>6, <1>7, <1>8, <1>9, <1>10, <1>11
  DEF Next, MainStep, WorkerStep

-----------------------------------------------------------------------------
(* The counter.                                                            *)

LEMMA CountStep ==
  TypeOK /\ CountAgrees /\ LocalsAgree /\ [Next]_vars => CountAgrees'
<1> SUFFICES ASSUME TypeOK, CountAgrees, LocalsAgree, [Next]_vars
             PROVE  CountAgrees'
  OBVIOUS
<1>1. CASE UNCHANGED <<front, rear, queue, no_req>>
  BY <1>1 DEF CountAgrees, Length
<1>2. CASE MasterInsert
  <2>1. ticket[Main] \in Items
    BY <1>2 DEF MasterInsert, Locks, LocalsAgree
  <2> QED
    BY <1>2, <2>1, PutAppends DEF MasterInsert, CountAgrees
<1>3. ASSUME NEW w \in Workers, WorkerTake(w)
      PROVE  CountAgrees'
  BY <1>3, TakeTails DEF WorkerTake, CountAgrees
<1>4. \/ UNCHANGED <<front, rear, queue, no_req>>
      \/ MasterInsert
      \/ \E w \in Workers : WorkerTake(w)
  BY DEF Next, MainStep, WorkerStep, Submit, AskPosition, MasterWait, KnowPosition,
         WorkerWait, WorkerWake, WorkerFinish, SpuriousWake, SpuriousWakeup,
         CondWait, vars, readyVars
<1> QED
  BY <1>1, <1>2, <1>3, <1>4

-----------------------------------------------------------------------------
(* The local variables and where the threads sleep.                        *)

LEMMA LocalsStep ==
  TypeOK /\ CountAgrees /\ StatusAgrees /\ LocalsAgree /\ [Next]_vars => LocalsAgree'
<1> SUFFICES ASSUME TypeOK, CountAgrees, StatusAgrees, LocalsAgree, [Next]_vars
             PROVE  LocalsAgree'
  OBVIOUS
<1> USE PoolAssumption DEF LocalsAgree, Asleep, Busy
<1>1. ASSUME NEW x \in Items, Submit(x)
      PROVE  LocalsAgree'
  BY <1>1 DEF Submit, TypeOK, Goto, readyVars
<1>2. ASSUME NEW x \in Items, AskPosition(x)
      PROVE  LocalsAgree'
  BY <1>2 DEF AskPosition, TypeOK, Goto, readyVars
<1>3. CASE MasterWait
  BY <1>3 DEF MasterWait, TypeOK, CondWait, Locks
<1>4. CASE MasterInsert
  <2>1. waiting' \subseteq waiting /\ Main \notin waiting
    BY <1>4, SignalShrinks DEF MasterInsert, Put, Locks
  <2>2. /\ pc' = [pc EXCEPT ![Main] = "accept"]
        /\ ticket' = [ticket EXCEPT ![Main] = NoItem]
    BY <1>4 DEF MasterInsert, Goto
  <2> QED
    BY <2>1, <2>2 DEF TypeOK
<1>5. CASE KnowPosition
  BY <1>5 DEF KnowPosition, TypeOK, Goto, readyVars, Locks
<1>6. ASSUME NEW w \in Workers, WorkerWait(w)
      PROVE  LocalsAgree'
  BY <1>6 DEF WorkerWait, TypeOK, Goto, CondWait
<1>7. ASSUME NEW w \in Workers, WorkerWake(w)
      PROVE  LocalsAgree'
  BY <1>7 DEF WorkerWake, TypeOK, Goto, readyVars, Locks
<1>8. ASSUME NEW w \in Workers, WorkerTake(w)
      PROVE  LocalsAgree'
  <2>1. PICK x \in Items \cup {NoItem} :
          /\ Take(x)
          /\ status' = [y \in Items |-> IF y = x /\ status[y] # NotFound
                                        THEN Processing ELSE status[y]]
          /\ pc' = [pc EXCEPT ![w] = "grade"]
          /\ ticket' = [ticket EXCEPT ![w] = x]
    BY <1>8 DEF WorkerTake, Goto
  <2>2. waiting' \subseteq waiting /\ w \notin waiting
    BY <1>8, <2>1, SignalShrinks DEF Take, WorkerTake, Locks
  <2>3. pc'[Main] = pc[Main] /\ ticket'[Main] = ticket[Main]
    BY <2>1 DEF TypeOK
  <2>4. \A y \in Items : status[y] = NotFound => status'[y] = NotFound
    BY <2>1
  <2>5. \A v \in Workers : v # w => pc'[v] = pc[v] /\ ticket'[v] = ticket[v]
    BY <2>1 DEF TypeOK
  <2>6. pc'[w] = "grade"
    BY <2>1 DEF TypeOK
  <2> QED
    BY <2>2, <2>3, <2>4, <2>5, <2>6
<1>9. ASSUME NEW w \in Workers, WorkerFinish(w)
      PROVE  LocalsAgree'
  <2>1. /\ pc' = [pc EXCEPT ![w] = "idle"]
        /\ ticket' = [ticket EXCEPT ![w] = NoItem]
        /\ waiting' = waiting
        /\ pc[w] = "grade"
    BY <1>9 DEF WorkerFinish, Goto, readyVars
  <2>2. \A y \in Items : status[y] = NotFound => status'[y] = NotFound
    BY <1>9 DEF WorkerFinish
  <2>3. pc'[Main] = pc[Main] /\ ticket'[Main] = ticket[Main]
    BY <2>1 DEF TypeOK
  <2>4. \A v \in Workers : v # w => pc'[v] = pc[v] /\ ticket'[v] = ticket[v]
    BY <2>1 DEF TypeOK
  <2>5. pc'[w] = "idle" /\ ticket'[w] = NoItem
    BY <2>1 DEF TypeOK
  <2> QED
    BY <2>1, <2>2, <2>3, <2>4, <2>5
<1>10. CASE SpuriousWake
  BY <1>10 DEF SpuriousWake, SpuriousWakeup, TypeOK
<1>11. CASE UNCHANGED vars
  BY <1>11 DEF vars
<1> QED
  BY <1>1, <1>2, <1>3, <1>4, <1>5, <1>6, <1>7, <1>8, <1>9, <1>10, <1>11
  DEF Next, MainStep, WorkerStep

-----------------------------------------------------------------------------
(* The elements of a line without repetitions, when it grows and shrinks.  *)

Elements(s) == {s[k] : k \in 1 .. Len(s)}
NoRepeat(s) == \A j, k \in 1 .. Len(s) : s[j] = s[k] => j = k

LEMMA AppendElements ==
  ASSUME NEW S, NEW s \in Seq(S), NEW x \in S, NoRepeat(s), x \notin Elements(s)
  PROVE  /\ Elements(Append(s, x)) = Elements(s) \cup {x}
         /\ NoRepeat(Append(s, x))
<1>1. /\ Len(Append(s, x)) = Len(s) + 1
      /\ Append(s, x)[Len(s) + 1] = x
      /\ \A k \in 1 .. Len(s) : Append(s, x)[k] = s[k]
      /\ Len(s) \in Nat
  OBVIOUS
<1> DEFINE t == Append(s, x)
<1> HIDE DEF t
<1>2. 1 .. Len(t) = (1 .. Len(s)) \cup {Len(s) + 1}
  BY <1>1 DEF t
<1>3. \A k \in 1 .. Len(s) : t[k] = s[k] /\ k # Len(s) + 1
  BY <1>1 DEF t
<1>4. t[Len(s) + 1] = x
  BY <1>1 DEF t
<1>5. Elements(t) = Elements(s) \cup {x}
  BY <1>2, <1>3, <1>4 DEF Elements
<1>6. NoRepeat(t)
  BY <1>2, <1>3, <1>4 DEF NoRepeat, Elements
<1> QED
  BY <1>5, <1>6 DEF t

LEMMA TailElements ==
  ASSUME NEW S, NEW s \in Seq(S), s # <<>>, NoRepeat(s)
  PROVE  /\ Head(s) \in Elements(s)
         /\ Elements(Tail(s)) = Elements(s) \ {Head(s)}
         /\ NoRepeat(Tail(s))
<1> DEFINE t == Tail(s)
           n == Len(s)
<1>1. /\ n \in Nat /\ n >= 1
      /\ Len(t) = n - 1
      /\ \A k \in 1 .. n - 1 : t[k] = s[k + 1]
      /\ Head(s) = s[1]
  OBVIOUS
<1> HIDE DEF t, n
<1>2. Head(s) \in Elements(s)
  BY <1>1 DEF Elements, n
<1>3. Elements(t) \subseteq Elements(s) \ {Head(s)}
  <2> SUFFICES ASSUME NEW k \in 1 .. n - 1
               PROVE  t[k] \in Elements(s) /\ t[k] # Head(s)
    BY <1>1 DEF Elements
  <2>1. t[k] = s[k + 1] /\ k + 1 \in 1 .. n /\ 1 \in 1 .. n /\ k + 1 # 1
    BY <1>1
  <2> QED
    BY <1>1, <2>1 DEF Elements, NoRepeat, n
<1>4. ASSUME NEW y \in Elements(s), y # Head(s)
      PROVE  y \in Elements(t)
  <2>1. PICK k \in 1 .. n : y = s[k]
    BY DEF Elements, n
  <2>2. k - 1 \in 1 .. n - 1 /\ (k - 1) + 1 = k
    BY <1>1, <1>4, <2>1
  <2>3. t[k - 1] = s[(k - 1) + 1]
    BY <1>1, <2>2
  <2> QED
    BY <1>1, <2>1, <2>2, <2>3 DEF Elements
<1>5. NoRepeat(t)
  <2> SUFFICES ASSUME NEW j \in 1 .. n - 1, NEW k \in 1 .. n - 1, t[j] = t[k]
               PROVE  j = k
    BY <1>1 DEF NoRepeat
  <2>1. s[j + 1] = s[k + 1] /\ j + 1 \in 1 .. n /\ k + 1 \in 1 .. n
    BY <1>1
  <2>2. j + 1 = k + 1
    BY <2>1 DEF NoRepeat, n
  <2> QED
    BY <2>2
<1> QED
  BY <1>2, <1>3, <1>4, <1>5 DEF t

(* StatusAgrees in these terms.                                            *)
LEMMA StatusShape ==
  ASSUME RingTypeOK
  PROVE  StatusAgrees <=>
           /\ Elements(Contents) = {x \in Items : status[x] = Accepted}
           /\ Grading = {x \in Items : status[x] = Processing}
           /\ NoRepeat(Contents)
           /\ \A v, w \in Busy : ticket[v] = ticket[w] => v = w
  BY LineType DEF StatusAgrees, Queued, Elements, NoRepeat

-----------------------------------------------------------------------------
(* The map, the queue and the workers.                                     *)

LEMMA StatusStep ==
  TypeOK /\ CountAgrees /\ StatusAgrees /\ LocalsAgree /\ [Next]_vars => StatusAgrees'
<1> SUFFICES ASSUME TypeOK, CountAgrees, StatusAgrees, LocalsAgree, [Next]_vars
             PROVE  StatusAgrees'
  OBVIOUS
<1> USE PoolAssumption
<1>1. RingTypeOK /\ RingTypeOK'
  BY TypeStep DEF TypeOK
<1>2. /\ Elements(Contents) = {x \in Items : status[x] = Accepted}
      /\ Grading = {x \in Items : status[x] = Processing}
      /\ NoRepeat(Contents)
      /\ \A v, w \in Busy : ticket[v] = ticket[w] => v = w
  BY <1>1, StatusShape
<1>3. SUFFICES /\ Elements(Contents') = {x \in Items : status'[x] = Accepted}
               /\ Grading' = {x \in Items : status'[x] = Processing}
               /\ NoRepeat(Contents')
               /\ \A v, w \in Busy' : ticket'[v] = ticket'[w] => v = w
  <2>1. Contents' \in Seq(Items \cup {NoItem}) /\ Len(Contents') = Length'
    BY <1>1, ContentsType DEF RingTypeOK, Rings, Length, Contents
  <2> QED
    BY <1>3, <2>1 DEF StatusAgrees, Queued, Elements, NoRepeat
<1>4. Contents \in Seq(Items \cup {NoItem})
  BY <1>1, LineType
<1>5. ASSUME UNCHANGED <<front, rear, queue, status>>, Busy' = Busy,
             \A w \in Busy : ticket'[w] = ticket[w]
      PROVE  /\ Elements(Contents') = {x \in Items : status'[x] = Accepted}
             /\ Grading' = {x \in Items : status'[x] = Processing}
             /\ NoRepeat(Contents')
             /\ \A v, w \in Busy' : ticket'[v] = ticket'[w] => v = w
  <2>1. Contents' = Contents /\ status' = status
    BY <1>5 DEF Contents
  <2>2. Grading' = Grading
    BY <1>5 DEF Grading
  <2> QED
    BY <1>2, <1>5, <2>1, <2>2
<1>6. CASE MasterInsert
  <2> DEFINE x == ticket[Main]
  <2>1. x \in Items /\ status[x] = NotFound
    BY <1>6 DEF MasterInsert, Locks, LocalsAgree
  <2>2. Contents' = Append(Contents, x)
    BY <1>6, <2>1, PutAppends DEF MasterInsert
  <2>3. status' = [status EXCEPT ![x] = Accepted]
    BY <1>6 DEF MasterInsert
  <2>4. /\ Busy' = Busy
        /\ \A w \in Busy : ticket'[w] = ticket[w]
    BY <1>6 DEF MasterInsert, Goto, Busy, TypeOK
  <2>5. Grading' = Grading
    BY <2>4 DEF Grading
  <2>6. x \notin Elements(Contents) /\ x \notin Grading
    BY <1>2, <2>1
  <2> HIDE DEF x
  <2>7. /\ Elements(Contents') = Elements(Contents) \cup {x}
        /\ NoRepeat(Contents')
    BY <1>2, <1>4, <2>1, <2>2, <2>6, AppendElements
  <2>8. \A y \in Items : status'[y] = IF y = x THEN Accepted ELSE status[y]
    BY <2>1, <2>3 DEF TypeOK
  <2>9. Elements(Contents') = {y \in Items : status'[y] = Accepted}
    BY <1>2, <2>1, <2>7, <2>8
  <2>10. Grading' = {y \in Items : status'[y] = Processing}
    BY <1>2, <2>1, <2>5, <2>8
  <2> QED
    BY <1>2, <2>4, <2>7, <2>9, <2>10
<1>7. ASSUME NEW w \in Workers, WorkerTake(w)
      PROVE  /\ Elements(Contents') = {x \in Items : status'[x] = Accepted}
             /\ Grading' = {x \in Items : status'[x] = Processing}
             /\ NoRepeat(Contents')
             /\ \A v, u \in Busy' : ticket'[v] = ticket'[u] => v = u
  <2>1. PICK x \in Items \cup {NoItem} :
          /\ Take(x)
          /\ status' = [y \in Items |-> IF y = x /\ status[y] # NotFound
                                        THEN Processing ELSE status[y]]
          /\ pc' = [pc EXCEPT ![w] = "grade"]
          /\ ticket' = [ticket EXCEPT ![w] = x]
    BY <1>7 DEF WorkerTake, Goto
  <2>2. x = Head(Contents) /\ Contents # <<>> /\ Contents' = Tail(Contents)
    BY <1>7, <2>1, TakeTails DEF WorkerTake
  <2>3. /\ x \in Elements(Contents)
        /\ Elements(Contents') = Elements(Contents) \ {x}
        /\ NoRepeat(Contents')
    BY <1>2, <1>4, <2>2, TailElements
  <2>4. x \in Items /\ status[x] = Accepted
    BY <1>2, <2>3
  <2>5. \A y \in Items : status'[y] = IF y = x THEN Processing ELSE status[y]
    BY <2>1, <2>4
  <2>6. x \notin Grading
    BY <1>2, <2>4
  <2>7. pc[w] = "idle"
    BY <1>7 DEF WorkerTake, Locks
  <2>8. /\ Busy' = Busy \cup {w} /\ w \notin Busy
        /\ ticket'[w] = x
        /\ \A v \in Busy : ticket'[v] = ticket[v]
    BY <2>1, <2>7 DEF Busy, TypeOK
  <2>9. Grading' = Grading \cup {x}
    BY <2>8 DEF Grading
  <2>10. Elements(Contents') = {y \in Items : status'[y] = Accepted}
    BY <1>2, <2>3, <2>5
  <2>11. Grading' = {y \in Items : status'[y] = Processing}
    BY <1>2, <2>4, <2>5, <2>9
  <2>12. \A v, u \in Busy' : ticket'[v] = ticket'[u] => v = u
    BY <1>2, <2>6, <2>8 DEF Grading
  <2> QED
    BY <2>3, <2>10, <2>11, <2>12
<1>8. ASSUME NEW w \in Workers, WorkerFinish(w)
      PROVE  /\ Elements(Contents') = {x \in Items : status'[x] = Accepted}
             /\ Grading' = {x \in Items : status'[x] = Processing}
             /\ NoRepeat(Contents')
             /\ \A v, u \in Busy' : ticket'[v] = ticket'[u] => v = u
  <2> DEFINE x == ticket[w]
  <2>1. /\ pc[w] = "grade"
        /\ status' = [y \in Items |-> IF y = x /\ status[y] # NotFound
                                      THEN Graded ELSE status[y]]
        /\ pc' = [pc EXCEPT ![w] = "idle"]
        /\ ticket' = [ticket EXCEPT ![w] = NoItem]
        /\ Contents' = Contents
    BY <1>8 DEF WorkerFinish, Goto, readyVars, Contents
  <2>2. w \in Busy /\ x \in Grading
    BY <2>1 DEF Busy, Grading
  <2>3. x \in Items /\ status[x] = Processing
    BY <1>2, <2>2
  <2>4. /\ Busy' = Busy \ {w}
        /\ \A v \in Busy \ {w} : ticket'[v] = ticket[v]
    BY <2>1 DEF Busy, TypeOK
  <2>5. Grading' = Grading \ {x}
    BY <1>2, <2>2, <2>4 DEF Grading
  <2> HIDE DEF x
  <2>6. \A y \in Items : status'[y] = IF y = x THEN Graded ELSE status[y]
    BY <2>1, <2>3
  <2>7. Elements(Contents') = {y \in Items : status'[y] = Accepted}
    BY <1>2, <2>1, <2>3, <2>6
  <2>8. Grading' = {y \in Items : status'[y] = Processing}
    BY <1>2, <2>3, <2>5, <2>6
  <2> QED
    BY <1>2, <2>1, <2>4, <2>7, <2>8
<1>9. \/ /\ UNCHANGED <<front, rear, queue, status>>
         /\ Busy' = Busy
         /\ \A w \in Busy : ticket'[w] = ticket[w]
      \/ MasterInsert
      \/ \E w \in Workers : WorkerTake(w) \/ WorkerFinish(w)
  BY DEF Next, MainStep, WorkerStep, Submit, AskPosition, MasterWait, KnowPosition,
         WorkerWait, WorkerWake, SpuriousWake, SpuriousWakeup, Locks,
         CondWait, vars, readyVars, Goto, Busy, TypeOK
<1> QED
  BY <1>5, <1>6, <1>7, <1>8, <1>9

-----------------------------------------------------------------------------
(* Sleepers and work.  Ready only loses the worker that takes a request,   *)
(* and an insertion beside a sleeper adds the sleeper it wakes.            *)

LEMMA ReadyFinite == IsFiniteSet(Ready) /\ Cardinality(Ready) \in Nat
<1>1. Ready \subseteq Workers
  BY DEF Ready
<1> QED
  BY <1>1, PoolAssumption, FS_Subset, FS_CardinalityType

LEMMA MoreReady ==
  ASSUME NEW A \in SUBSET Workers, NEW B \in SUBSET Workers, A \subseteq B
  PROVE  /\ Cardinality(A) <= Cardinality(B)
         /\ Cardinality(A) \in Nat /\ Cardinality(B) \in Nat
<1>1. IsFiniteSet(A) /\ IsFiniteSet(B)
  BY PoolAssumption, FS_Subset
<1> QED
  BY <1>1, FS_Subset, FS_CardinalityType

LEMMA IdleStep == IInv /\ [Next]_vars => NoIdleSleeper'
<1> SUFFICES ASSUME IInv, [Next]_vars, Asleep' # {}
             PROVE  no_req' <= Cardinality(Ready')
  BY DEF NoIdleSleeper
<1> USE PoolAssumption DEF IInv
<1>1. Ready \in SUBSET Workers /\ Ready' \in SUBSET Workers
  BY DEF Ready
<1>2. Cardinality(Ready) \in Nat /\ Cardinality(Ready') \in Nat /\ no_req \in Int
  BY <1>1, MoreReady DEF TypeOK
<1>3. ASSUME no_req' = no_req, Ready \subseteq Ready', Asleep' \subseteq Asleep
      PROVE  no_req' <= Cardinality(Ready')
  <2>1. no_req <= Cardinality(Ready)
    BY <1>3 DEF NoIdleSleeper
  <2>2. Cardinality(Ready) <= Cardinality(Ready')
    BY <1>1, <1>3, MoreReady
  <2> QED
    BY <1>2, <1>3, <2>1, <2>2
<1>4. CASE MasterInsert
  <2>1. Signal /\ Main \notin waiting /\ no_req' = no_req + 1
    BY <1>4 DEF MasterInsert, Put, Locks
  <2>2. waiting # {}
    BY <2>1 DEF Signal, Asleep
  <2>3. PICK t \in waiting : waiting' = waiting \ {t}
    BY <2>1, <2>2 DEF Signal
  <2>4. t \in Asleep /\ pc[t] = "wait" /\ t # Main
    BY <2>1, <2>3 DEF Asleep, TypeOK, LocalsAgree
  <2>5. \A w \in Workers : pc'[w] = pc[w]
    BY <1>4 DEF MasterInsert, Goto, TypeOK
  <2>6. Ready' = Ready \cup {t} /\ t \notin Ready
    BY <2>3, <2>4, <2>5 DEF Ready, Asleep
  <2>7. Cardinality(Ready') = Cardinality(Ready) + 1
    BY <2>6, ReadyFinite, FS_AddElement
  <2>8. no_req <= Cardinality(Ready)
    BY <2>4 DEF NoIdleSleeper
  <2> QED
    BY <1>2, <2>1, <2>7, <2>8
<1>5. ASSUME NEW w \in Workers, WorkerTake(w)
      PROVE  no_req' <= Cardinality(Ready')
  <2>1. waiting' \subseteq waiting /\ no_req' = no_req - 1
    BY <1>5, SignalShrinks DEF WorkerTake, Take
  <2>2. pc[w] = "idle" /\ w \notin waiting /\ pc' = [pc EXCEPT ![w] = "grade"]
    BY <1>5 DEF WorkerTake, Locks, Goto
  <2>3. w \in Ready /\ Ready \ {w} \subseteq Ready'
    BY <2>1, <2>2 DEF Ready, TypeOK
  <2>4. Cardinality(Ready \ {w}) = Cardinality(Ready) - 1
    BY <2>3, ReadyFinite, FS_RemoveElement
  <2>5. Cardinality(Ready \ {w}) <= Cardinality(Ready')
    BY <1>1, <2>3, MoreReady
  <2>6. no_req <= Cardinality(Ready)
    BY <2>1 DEF NoIdleSleeper, Asleep
  <2> QED
    BY <1>2, <2>1, <2>4, <2>5, <2>6
<1>6. ASSUME NEW w \in Workers, WorkerWait(w)
      PROVE  no_req' <= Cardinality(Ready')
  BY <1>2, <1>6 DEF WorkerWait, CondWait
<1>7. ASSUME NEW w \in Workers, WorkerWake(w)
      PROVE  no_req' <= Cardinality(Ready')
  <2>1. /\ pc' = [pc EXCEPT ![w] = "idle"]
        /\ waiting' = waiting /\ no_req' = no_req
    BY <1>7 DEF WorkerWake, Goto, readyVars
  <2>2. Ready \subseteq Ready' /\ Asleep' \subseteq Asleep
    BY <2>1 DEF Ready, Asleep, TypeOK
  <2> QED
    BY <1>3, <2>1, <2>2
<1>8. ASSUME NEW w \in Workers, WorkerFinish(w)
      PROVE  no_req' <= Cardinality(Ready')
  <2>1. /\ pc' = [pc EXCEPT ![w] = "idle"]
        /\ waiting' = waiting /\ no_req' = no_req
    BY <1>8 DEF WorkerFinish, Goto, readyVars
  <2>2. Ready \subseteq Ready' /\ Asleep' \subseteq Asleep
    BY <2>1 DEF Ready, Asleep, TypeOK
  <2> QED
    BY <1>3, <2>1, <2>2
<1>9. CASE SpuriousWake
  <2>1. waiting' \subseteq waiting /\ no_req' = no_req /\ pc' = pc
    BY <1>9 DEF SpuriousWake, SpuriousWakeup
  <2>2. Ready \subseteq Ready' /\ Asleep' \subseteq Asleep
    BY <2>1 DEF Ready, Asleep
  <2> QED
    BY <1>3, <2>1, <2>2
<1>10. CASE MasterWait
  <2>1. waiting' = waiting \cup {Main} /\ no_req' = no_req /\ pc' = pc
    BY <1>10 DEF MasterWait, CondWait
  <2>2. Ready \subseteq Ready' /\ Asleep' \subseteq Asleep
    BY <2>1 DEF Ready, Asleep
  <2> QED
    BY <1>3, <2>1, <2>2
<1>11. ASSUME no_req' = no_req, waiting' = waiting,
              \A w \in Workers : pc'[w] = pc[w]
       PROVE  no_req' <= Cardinality(Ready')
  <2>1. Ready \subseteq Ready' /\ Asleep' \subseteq Asleep
    BY <1>11 DEF Ready, Asleep
  <2> QED
    BY <1>3, <1>11, <2>1
<1>12. \/ MasterInsert \/ MasterWait \/ SpuriousWake
       \/ \E w \in Workers : WorkerStep(w) \/ WorkerFinish(w)
       \/ /\ no_req' = no_req /\ waiting' = waiting
          /\ \A w \in Workers : pc'[w] = pc[w]
  BY DEF Next, MainStep, Submit, AskPosition, KnowPosition, vars, readyVars, Goto,
         TypeOK
<1> QED
  BY <1>4, <1>5, <1>6, <1>7, <1>8, <1>9, <1>10, <1>11, <1>12 DEF WorkerStep

-----------------------------------------------------------------------------
LEMMA IInvInit == Init => IInv
<1> SUFFICES ASSUME Init
             PROVE  IInv
  OBVIOUS
<1>1. TypeOK /\ Length = 0 /\ Contents = <<>>
  BY TypeInit, InitEmpty DEF Init, ReadyInit
<1>2. Busy = {} /\ Asleep = {} /\ waiting = {} /\ no_req = 0
  BY PoolAssumption DEF Init, ReadyInit, Busy, Asleep
<1>3. Elements(Contents) = {} /\ NoRepeat(Contents)
  BY <1>1 DEF Elements, NoRepeat
<1>4. StatusAgrees
  BY <1>1, <1>2, <1>3, StatusShape DEF TypeOK, Init, Grading
<1>5. LocalsAgree
  BY <1>2, PoolAssumption DEF Init, LocalsAgree
<1> QED
  BY <1>1, <1>2, <1>4, <1>5 DEF IInv, CountAgrees, NoIdleSleeper

LEMMA IInvStep == IInv /\ [Next]_vars => IInv'
  BY TypeStep, CountStep, LocalsStep, StatusStep, IdleStep DEF IInv

(* The invariant is inductive: it holds in every state of the pool.        *)
THEOREM Invariance == Spec => []IInv
  BY IInvInit, IInvStep, PTL DEF Spec

(* Type correctness: front and rear stay slots of the ring, and no thread  *)
(* is where its function does not lead it.                                 *)
THEOREM Typing == Spec => []TypeOK
<1>1. IInv => TypeOK
  BY DEF IInv
<1> QED
  BY <1>1, Invariance, PTL

(* no_req, which the workers test, is the number of queued tickets: a      *)
(* worker never calls queue_delete on an empty queue, where it would read  *)
(* an uninitialised ticket.                                                *)
THEOREM CounterIsLength == Spec => []CountAgrees
<1>1. IInv => CountAgrees
  BY DEF IInv
<1> QED
  BY <1>1, Invariance, PTL

(* The single condition variable loses no request: no ticket waits beside  *)
(* a sleeping worker without an awake one on its way.                      *)
THEOREM NoRequestBesideSleeper == Spec => []NoIdleSleeper
<1>1. IInv => NoIdleSleeper
  BY DEF IInv
<1> QED
  BY <1>1, Invariance, PTL

(* The status map is right about every ticket, and none is graded twice.   *)
THEOREM StatusIsRight == Spec => []StatusAgrees
<1>1. IInv => StatusAgrees
  BY DEF IInv
<1> QED
  BY <1>1, Invariance, PTL

-----------------------------------------------------------------------------
(* What the four steps that touch the map, the line or the hands do to     *)
(* them, under the invariant.                                              *)

LEMMA InsertEffect ==
  ASSUME IInv, MasterInsert
  PROVE  /\ ticket[Main] \in Items
         /\ status[ticket[Main]] = NotFound
         /\ status' = [status EXCEPT ![ticket[Main]] = Accepted]
         /\ Contents' = Append(Contents, ticket[Main])
         /\ Length < QUEUE_SIZE - 1
         /\ \A w \in Workers : ticket'[w] = ticket[w]
<1>1. ticket[Main] \in Items /\ status[ticket[Main]] = NotFound
  BY DEF MasterInsert, Locks, IInv, LocalsAgree
<1>2. Contents' = Append(Contents, ticket[Main])
  BY <1>1, PutAppends DEF MasterInsert, IInv
<1>3. Length < QUEUE_SIZE - 1
  BY LengthBounds, QueueAssumption
  DEF MasterInsert, IInv, TypeOK, RingTypeOK, IsFull, Length
<1> QED
  BY <1>1, <1>2, <1>3, PoolAssumption DEF MasterInsert, Goto, IInv, TypeOK

LEMMA TakeEffect ==
  ASSUME IInv, NEW w \in Workers, WorkerTake(w)
  PROVE  /\ Contents # <<>>
         /\ Contents' = Tail(Contents)
         /\ Head(Contents) \in Items
         /\ status[Head(Contents)] = Accepted
         /\ status' = [status EXCEPT ![Head(Contents)] = Processing]
         /\ ticket[w] = NoItem
         /\ ticket' = [ticket EXCEPT ![w] = Head(Contents)]
<1>1. PICK x \in Items \cup {NoItem} :
        /\ Take(x)
        /\ status' = [y \in Items |-> IF y = x /\ status[y] # NotFound
                                      THEN Processing ELSE status[y]]
        /\ ticket' = [ticket EXCEPT ![w] = x]
  BY DEF WorkerTake, Goto
<1>2. x = Head(Contents) /\ Contents # <<>> /\ Contents' = Tail(Contents)
  BY <1>1, TakeTails DEF WorkerTake, IInv
<1>3. x \in Items /\ status[x] = Accepted
  <2>1. /\ Elements(Contents) = {y \in Items : status[y] = Accepted}
        /\ NoRepeat(Contents)
        /\ Contents \in Seq(Items \cup {NoItem})
    BY StatusShape, LineType DEF IInv, TypeOK
  <2>2. x \in Elements(Contents)
    BY <1>2, <2>1, TailElements
  <2> QED
    BY <2>1, <2>2
<1>4. status' = [status EXCEPT ![x] = Processing]
  <2>1. status \in [Items -> {NotFound, Accepted, Processing, Graded}]
    BY DEF IInv, TypeOK
  <2>2. status' = [y \in Items |-> IF y = x THEN Processing ELSE status[y]]
    BY <1>1, <1>3
  <2> QED
    BY <2>1, <2>2
<1>5. ticket[w] = NoItem
  BY DEF WorkerTake, Locks, IInv, LocalsAgree, Busy
<1> QED
  BY <1>1, <1>2, <1>3, <1>4, <1>5

LEMMA FinishEffect ==
  ASSUME IInv, NEW w \in Workers, WorkerFinish(w)
  PROVE  /\ ticket[w] \in Items
         /\ status[ticket[w]] = Processing
         /\ status' = [status EXCEPT ![ticket[w]] = Graded]
         /\ Contents' = Contents
         /\ ticket' = [ticket EXCEPT ![w] = NoItem]
<1>1. ticket[w] \in Items /\ status[ticket[w]] = Processing
  BY DEF WorkerFinish, IInv, StatusAgrees, Grading, Busy
<1>2. status' = [status EXCEPT ![ticket[w]] = Graded]
  <2>1. status \in [Items -> {NotFound, Accepted, Processing, Graded}]
    BY DEF IInv, TypeOK
  <2>2. status' = [y \in Items |-> IF y = ticket[w] THEN Graded ELSE status[y]]
    BY <1>1 DEF WorkerFinish
  <2> QED
    BY <2>1, <2>2
<1> QED
  BY <1>1, <1>2 DEF WorkerFinish, Goto, readyVars, Contents

(* No other step changes any of the three.                                 *)
LEMMA OtherSteps ==
  ASSUME IInv, [Next]_vars
  PROVE  \/ MasterInsert
         \/ \E w \in Workers : WorkerTake(w) \/ WorkerFinish(w)
         \/ /\ status' = status
            /\ Contents' = Contents
            /\ \A w \in Workers : ticket'[w] = ticket[w]
  BY PoolAssumption
  DEF Next, MainStep, WorkerStep, Submit, AskPosition, MasterWait, KnowPosition,
      WorkerWait, WorkerWake, SpuriousWake, SpuriousWakeup, Locks, CondWait, vars,
      readyVars, Goto, IInv, TypeOK, LocalsAgree, Busy, Contents

(* A ticket goes through accepted, being processed and graded in this      *)
(* order, one at a time, and never back: what a client learned from a      *)
(* status query stays true until a worker moves the ticket on.             *)
THEOREM StatusMonotonic == Spec => StatusAdvances
<1>1. IInv /\ [Next]_vars =>
        \/ \A x \in Items : status'[x] # status[x] => status'[x] = status[x] + 1
        \/ UNCHANGED vars
  <2> SUFFICES ASSUME IInv, [Next]_vars, NEW x \in Items
               PROVE  status'[x] # status[x] => status'[x] = status[x] + 1
    OBVIOUS
  <2>1. status \in [Items -> {NotFound, Accepted, Processing, Graded}]
    BY DEF IInv, TypeOK
  <2>2. CASE MasterInsert
    BY <2>1, <2>2, InsertEffect
  <2>3. ASSUME NEW w \in Workers, WorkerTake(w)
        PROVE  status'[x] # status[x] => status'[x] = status[x] + 1
    BY <2>1, <2>3, TakeEffect
  <2>4. ASSUME NEW w \in Workers, WorkerFinish(w)
        PROVE  status'[x] # status[x] => status'[x] = status[x] + 1
    BY <2>1, <2>4, FinishEffect
  <2> QED
    BY <2>2, <2>3, <2>4, OtherSteps
<1> QED
  BY <1>1, Invariance, PTL DEF Spec, StatusAdvances

-----------------------------------------------------------------------------
(* What know_position tells.  Its scan begins at the slot emptied last, so *)
(* it must be known what that slot still holds: a ticket some worker took. *)

FrontTaken ==
  queue[front] \in Items => status[queue[front]] \in {Processing, Graded}

LEMMA FrontInit == Init => FrontTaken
  BY QueueAssumption DEF Init, ReadyInit, RingInit, FrontTaken, Slot

LEMMA FrontStep == IInv /\ FrontTaken /\ [Next]_vars => FrontTaken'
<1> SUFFICES ASSUME IInv, FrontTaken, [Next]_vars, queue'[front'] \in Items
             PROVE  status'[queue'[front']] \in {Processing, Graded}
  BY DEF FrontTaken
<1> front \in Slot /\ rear \in Slot /\ queue \in [Slot -> Items \cup {NoItem}]
  BY DEF IInv, TypeOK, RingTypeOK
<1> status \in [Items -> {NotFound, Accepted, Processing, Graded}]
  BY DEF IInv, TypeOK
<1>1. CASE MasterInsert
  <2>1. front' = front /\ queue' = [queue EXCEPT ![Succ(rear)] = ticket[Main]]
        /\ Succ(rear) # front
    BY <1>1 DEF MasterInsert, Put, queue_insert, IsFull
  <2>2. queue'[front'] = queue[front]
    BY <2>1
  <2> QED
    BY <1>1, <2>2, InsertEffect DEF FrontTaken
<1>2. ASSUME NEW w \in Workers, WorkerTake(w)
      PROVE  status'[queue'[front']] \in {Processing, Graded}
  <2>1. PICK x \in Items \cup {NoItem} : Take(x)
    BY <1>2 DEF WorkerTake
  <2>2. x = Head(Contents) /\ no_req > 0
    BY <1>2, <2>1, TakeTails DEF WorkerTake, IInv
  <2>3. Length # 0
    BY <2>2 DEF IInv, CountAgrees
  <2>4. ~IsEmpty
    BY <2>3, LengthBounds DEF IsEmpty, Length
  <2>5. queue'[front'] = x
    BY <2>1, <2>4 DEF Take, queue_delete, Deletable
  <2> QED
    BY <1>2, <2>2, <2>5, TakeEffect
<1>3. ASSUME NEW w \in Workers, WorkerFinish(w)
      PROVE  status'[queue'[front']] \in {Processing, Graded}
  <2>1. queue' = queue /\ front' = front
    BY <1>3 DEF WorkerFinish, readyVars
  <2> QED
    BY <1>3, <2>1, FinishEffect DEF FrontTaken
<1>4. CASE UNCHANGED <<front, queue, status>>
  BY <1>4 DEF FrontTaken
<1>5. \/ MasterInsert
      \/ \E w \in Workers : WorkerTake(w) \/ WorkerFinish(w)
      \/ UNCHANGED <<front, queue, status>>
  BY DEF Next, MainStep, WorkerStep, Submit, AskPosition, MasterWait, KnowPosition,
         WorkerWait, WorkerWake, SpuriousWake, SpuriousWakeup, CondWait, vars, readyVars
<1> QED
  BY <1>1, <1>2, <1>3, <1>4, <1>5

(* Where the ring does not wrap, the k-th ticket is k slots after front.   *)
LEMMA UnwrappedLine ==
  ASSUME RingTypeOK, front <= rear
  PROVE  /\ Length = rear - front
         /\ front \in Nat /\ rear \in Nat
         /\ \A k \in 1 .. Length : Contents[k] = queue[front + k]
<1>1. front \in Nat /\ rear \in Nat /\ QUEUE_SIZE \in Nat /\ rear < QUEUE_SIZE
  BY QueueAssumption DEF RingTypeOK, Slot
<1>2. Length = rear - front
  BY DEF Length, LengthOf
<1>3. ASSUME NEW k \in 1 .. Length
      PROVE  Contents[k] = queue[front + k]
  <2>1. k \in 0 .. QUEUE_SIZE /\ front + k < QUEUE_SIZE
    BY <1>1, <1>2
  <2>2. NthSlot(front, k) = front + k
    BY <2>1, SlotOf DEF RingTypeOK
  <2> QED
    BY <2>2 DEF Contents, ContentsOf, Length
<1> QED
  BY <1>1, <1>2, <1>3

LEMMA PositionIsTold == IInv /\ FrontTaken => PositionTold
<1> SUFFICES ASSUME IInv, FrontTaken, NEW x \in Items
             PROVE  /\ x \in Queued /\ front < rear => Scanned(x) # {}
                    /\ Scanned(x) # {} => PositionOf(x) = 1 + Cardinality(UpTo(x))
  BY DEF PositionTold
<1>1. RingTypeOK /\ front \in Int /\ rear \in Int
  BY QueueAssumption DEF IInv, TypeOK, RingTypeOK, Slot
<1>2. /\ \A m, n \in 1 .. Length : Contents[m] = Contents[n] => m = n
      /\ \A k \in 1 .. Length : status[Contents[k]] = Accepted
  BY DEF IInv, StatusAgrees, Queued
<1>3. ASSUME x \in Queued, front < rear
      PROVE  Scanned(x) # {}
  <2>1. PICK k \in 1 .. Length : Contents[k] = x
    BY <1>3 DEF Queued
  <2>2. Length = rear - front /\ Contents[k] = queue[front + k]
    BY <1>1, <1>3, UnwrappedLine
  <2>3. front + k \in front .. rear
    BY <1>1, <2>2
  <2> QED
    BY <2>1, <2>2, <2>3 DEF Scanned
<1>4. ASSUME Scanned(x) # {}
      PROVE  PositionOf(x) = 1 + Cardinality(UpTo(x))
  <2>1. PICK m \in front .. rear : queue[m] = x
    BY <1>4 DEF Scanned
  <2>2. front <= rear
    BY <1>1, <2>1
  <2>3. /\ Length = rear - front /\ front \in Nat /\ rear \in Nat
        /\ \A k \in 1 .. Length : Contents[k] = queue[front + k]
    BY <1>1, <2>2, UnwrappedLine
  <2>4. CASE queue[front] = x
    <3>1. front \in Scanned(x) /\ \A n \in Scanned(x) : n \in Int /\ front <= n
      BY <2>2, <2>3, <2>4 DEF Scanned
    <3>2. FoundAt(x) = front
      <4>1. FoundAt(x) \in Scanned(x) /\ \A n \in Scanned(x) : FoundAt(x) <= n
        BY <3>1 DEF FoundAt
      <4>2. FoundAt(x) \in Int /\ front <= FoundAt(x) /\ FoundAt(x) <= front
        BY <3>1, <4>1
      <4> QED
        BY <4>2, <2>3
    <3>3. UpTo(x) = {}
      <4>1. status[x] # Accepted
        BY <2>4 DEF FrontTaken
      <4>2. \A k \in 1 .. Length : Contents[k] # x
        BY <4>1, <1>2
      <4>3. \A k \in 1 .. Length : k .. Length \subseteq 1 .. Length
        BY <2>3
      <4> QED
        BY <4>2, <4>3 DEF UpTo
    <3> QED
      BY <3>2, <3>3, <2>3, FS_EmptySet DEF PositionOf
  <2>5. CASE queue[front] # x
    <3> DEFINE p == m - front
    <3>1. p \in 1 .. Length /\ Contents[p] = x
      <4>1. m # front /\ m \in Int /\ front <= m /\ m <= rear
        BY <2>1, <2>3, <2>5
      <4>2. p \in 1 .. Length /\ front + p = m
        BY <4>1, <2>3
      <4> QED
        BY <4>2, <2>1, <2>3
    <3>2. Scanned(x) = {m}
      <4> SUFFICES ASSUME NEW n \in front .. rear, queue[n] = x
                   PROVE  n = m
        BY <2>1 DEF Scanned
      <4>1. n # front /\ n \in Int /\ front <= n /\ n <= rear
        BY <2>3, <2>5
      <4>2. n - front \in 1 .. Length /\ front + (n - front) = n
        BY <4>1, <2>3
      <4>3. Contents[n - front] = x
        BY <4>2, <2>3
      <4>4. n - front = p
        BY <4>2, <4>3, <3>1, <1>2
      <4> QED
        BY <4>1, <4>4, <2>1, <2>3
    <3>3. FoundAt(x) = m
      <4>1. m <= m
        BY <2>1, <2>3
      <4> QED
        BY <3>2, <4>1 DEF FoundAt
    <3>4. UpTo(x) = 1 .. p
      <4>1. ASSUME NEW k \in 1 .. Length, NEW n \in k .. Length, Contents[n] = x
            PROVE  k \in 1 .. p
        <5>1. n \in 1 .. Length
          BY <2>3
        <5>2. n = p
          BY <4>1, <5>1, <3>1, <1>2
        <5> QED
          BY <5>2, <3>1, <2>3
      <4>2. ASSUME NEW k \in 1 .. p
            PROVE  k \in 1 .. Length /\ p \in k .. Length
        BY <3>1, <2>3
      <4> QED
        BY <4>1, <4>2, <3>1 DEF UpTo
    <3>5. Cardinality(UpTo(x)) = p
      <4>1. p \in Int /\ p >= 1
        BY <3>1, <2>3
      <4> HIDE DEF p
      <4> QED
        BY <4>1, <3>4, FS_Interval
    <3> QED
      BY <3>3, <3>5, <2>1, <2>3 DEF PositionOf
  <2> QED
    BY <2>4, <2>5
<1> QED
  BY <1>3, <1>4

(* A client that asks where its ticket is, is told one more than its place *)
(* whenever the scan finds it, and the scan finds every queued ticket while *)
(* the ring does not wrap.                                                 *)
THEOREM PositionIsRight == Spec => []PositionTold
<1>1. Spec => []FrontTaken
  BY FrontInit, FrontStep, Invariance, PTL DEF Spec
<1> QED
  BY <1>1, PositionIsTold, Invariance, PTL

-----------------------------------------------------------------------------
(* Main's sleep.  With fewer workers than slots a full queue leaves no     *)
(* worker asleep, because NoIdleSleeper would need QUEUE_SIZE - 1 ready    *)
(* workers beside the sleeping one.                                        *)

LEMMA FullLeavesNoSleeper ==
  ASSUME Cardinality(Workers) < QUEUE_SIZE, IInv, IsFull
  PROVE  Asleep = {}
<1> SUFFICES ASSUME NEW w \in Asleep
             PROVE  FALSE
  OBVIOUS
<1>1. no_req = QUEUE_SIZE - 1
  BY LengthBounds DEF IInv, CountAgrees, TypeOK, RingTypeOK, IsFull, Length
<1>2. no_req <= Cardinality(Ready)
  BY DEF IInv, NoIdleSleeper
<1>3. w \in Workers /\ Ready \subseteq Workers \ {w}
  BY DEF Asleep, Ready
<1>4. Cardinality(Workers \ {w}) = Cardinality(Workers) - 1
  BY <1>3, PoolAssumption, FS_RemoveElement
<1>5. Cardinality(Ready) <= Cardinality(Workers \ {w})
  BY <1>3, MoreReady
<1>6. Cardinality(Workers) \in Nat /\ Cardinality(Ready) \in Nat
  BY PoolAssumption, ReadyFinite, FS_CardinalityType
<1> QED
  BY <1>1, <1>2, <1>4, <1>5, <1>6, QueueAssumption

(* With fewer workers than slots main only sleeps while the queue is full  *)
(* and every worker is up, so that the signal of the worker that makes     *)
(* room can reach nobody but main.                                         *)
THEOREM MainSleep ==
  ASSUME Cardinality(Workers) < QUEUE_SIZE
  PROVE  Spec => []MainSleepsOnlyWhenFull
<1>1. Init => MainSleepsOnlyWhenFull
  BY DEF Init, ReadyInit, MainSleepsOnlyWhenFull
<1>2. IInv /\ MainSleepsOnlyWhenFull /\ [Next]_vars => MainSleepsOnlyWhenFull'
  <2> SUFFICES ASSUME IInv, MainSleepsOnlyWhenFull, [Next]_vars, Main \in waiting'
               PROVE  IsFull' /\ Asleep' = {}
    BY DEF MainSleepsOnlyWhenFull
  <2>1. CASE MasterWait
    <3>1. IsFull /\ waiting' = waiting \cup {Main} /\ UNCHANGED <<front, rear, queue>>
      BY <2>1 DEF MasterWait, CondWait
    <3>2. Asleep' = Asleep /\ IsFull'
      BY <3>1, PoolAssumption DEF Asleep, IsFull
    <3> QED
      BY <3>1, <3>2, FullLeavesNoSleeper
  <2>2. CASE MasterInsert
    BY <2>2 DEF MasterInsert, Locks, Put, Signal
  <2>3. ASSUME NEW w \in Workers, WorkerTake(w)
        PROVE  IsFull' /\ Asleep' = {}
    <3>1. Signal
      BY <2>3 DEF WorkerTake, Take
    <3>2. waiting = {Main}
      BY <3>1 DEF Signal, MainSleepsOnlyWhenFull, Asleep, IInv, TypeOK
    <3> QED
      BY <3>1, <3>2 DEF Signal
  <2>4. ASSUME NEW w \in Workers, WorkerWait(w)
        PROVE  IsFull' /\ Asleep' = {}
    <3>1. no_req = 0 /\ waiting' = waiting \cup {w}
      BY <2>4 DEF WorkerWait, CondWait
    <3>2. IsFull
      BY <3>1, PoolAssumption DEF MainSleepsOnlyWhenFull
    <3>3. no_req = QUEUE_SIZE - 1
      BY <3>2, LengthBounds DEF IInv, CountAgrees, TypeOK, RingTypeOK, IsFull, Length
    <3> QED
      BY <3>1, <3>3, QueueAssumption
  <2>5. ASSUME UNCHANGED <<front, rear, queue>>, waiting' \subseteq waiting
        PROVE  IsFull' /\ Asleep' = {}
    BY <2>5 DEF MainSleepsOnlyWhenFull, IsFull, Asleep
  <2>6. \/ MasterWait \/ MasterInsert
        \/ \E w \in Workers : WorkerTake(w) \/ WorkerWait(w)
        \/ UNCHANGED <<front, rear, queue>> /\ waiting' \subseteq waiting
    BY DEF Next, MainStep, WorkerStep, Submit, AskPosition, KnowPosition, WorkerWake,
           WorkerFinish, SpuriousWake, SpuriousWakeup, vars, readyVars
  <2> QED
    BY <2>1, <2>2, <2>3, <2>4, <2>5, <2>6
<1> QED
  BY <1>1, <1>2, Invariance, PTL DEF Spec

-----------------------------------------------------------------------------
(* The ring, the counter, the lock and the condition variable together     *)
(* implement the abstract grading service: tickets are graded first come   *)
(* first served, each by one worker, and none is lost or repeated.         *)
THEOREM PoolIsService == Spec => ImplementsService
<1>1. Init => Service!Init
  <2> SUFFICES ASSUME Init
               PROVE  Service!Init
    OBVIOUS
  <2>1. Contents = <<>>
    BY InitEmpty DEF Init, ReadyInit
  <2> QED
    BY <2>1 DEF Init, Service!Init
<1>2. IInv /\ [Next]_vars => [Service!Next]_Service!vars
  <2> SUFFICES ASSUME IInv, [Next]_vars
               PROVE  Service!Next \/ UNCHANGED Service!vars
    OBVIOUS
  <2>1. /\ Elements(Contents) = {x \in Items : status[x] = Accepted}
        /\ Contents \in Seq(Items \cup {NoItem})
        /\ Len(Contents) = Length
        /\ status \in [Items -> {NotFound, Accepted, Processing, Graded}]
    BY StatusShape, LineType DEF IInv, TypeOK
  <2>2. CASE MasterInsert
    <3> DEFINE x == ticket[Main]
    <3>1. x \notin Elements(Contents) /\ x \notin {y \in Items : status[y] = Graded}
      BY <2>1, <2>2, InsertEffect
    <3>2. \A w \in Workers : ticket[w] # x
      <4> SUFFICES ASSUME NEW w \in Workers, ticket[w] = x
                   PROVE  FALSE
        OBVIOUS
      <4>1. x \in Items /\ status[x] = NotFound
        BY <2>2, InsertEffect
      <4>2. w \in Busy
        BY <4>1, QueueAssumption DEF IInv, LocalsAgree
      <4>3. status[x] = Processing
        BY <4>1, <4>2 DEF IInv, StatusAgrees, Grading
      <4> QED
        BY <4>1, <4>3
    <3>3. UNCHANGED {y \in Items : status[y] = Graded}
      BY <2>1, <2>2, InsertEffect
    <3>4. UNCHANGED [w \in Workers |-> ticket[w]]
      BY <2>2, InsertEffect
    <3>5. Service!Accept(x)
      BY <2>1, <2>2, <3>1, <3>2, <3>3, <3>4, InsertEffect
      DEF Service!Accept, Service!Waiting, Service!InHand, Elements
    <3> QED
      BY <2>2, <3>5, InsertEffect DEF Service!Next
  <2>3. ASSUME NEW w \in Workers, WorkerTake(w)
        PROVE  Service!Next
    <3>1. UNCHANGED {y \in Items : status[y] = Graded}
      BY <2>1, <2>3, TakeEffect
    <3>2. [v \in Workers |-> ticket[v]]' =
            [[v \in Workers |-> ticket[v]] EXCEPT ![w] = Head(Contents)]
      BY <2>3, TakeEffect DEF IInv, TypeOK
    <3>3. Service!Start(w)
      BY <2>3, <3>1, <3>2, TakeEffect DEF Service!Start
    <3> QED
      BY <3>3 DEF Service!Next
  <2>4. ASSUME NEW w \in Workers, WorkerFinish(w)
        PROVE  Service!Next
    <3>1. {y \in Items : status[y] = Graded}' =
            {y \in Items : status[y] = Graded} \cup {ticket[w]}
      BY <2>1, <2>4, FinishEffect
    <3>2. [v \in Workers |-> ticket[v]]' =
            [[v \in Workers |-> ticket[v]] EXCEPT ![w] = NoItem]
      <4>1. ticket' = [ticket EXCEPT ![w] = NoItem]
        BY <2>4, FinishEffect
      <4>2. ticket \in [Workers \cup {Main} -> Items \cup {NoItem}]
        BY DEF IInv, TypeOK
      <4>3. \A v \in Workers : ticket'[v] = IF v = w THEN NoItem ELSE ticket[v]
        BY <4>1, <4>2
      <4> QED
        BY <4>3
    <3>3. Service!Finish(w)
      BY <2>4, <3>1, <3>2, FinishEffect, QueueAssumption DEF Service!Finish
    <3> QED
      BY <3>3 DEF Service!Next
  <2>5. CASE /\ status' = status
             /\ Contents' = Contents
             /\ \A w \in Workers : ticket'[w] = ticket[w]
    BY <2>5 DEF Service!vars
  <2> QED
    BY <2>2, <2>3, <2>4, <2>5, OtherSteps
<1> QED
  BY <1>1, <1>2, Invariance, PTL DEF Spec, ImplementsService, Service!Spec

-----------------------------------------------------------------------------
(* Part 2: the pool with its files.                                        *)

(* The directory of an upload before it is graded.                         *)
Fresh == [NoDir EXCEPT !.exists = TRUE]

(* main's ticket between the end of the upload and the queue.              *)
Arriving == IF pc[Main] = "insert" THEN {ticket[Main]} ELSE {}

(* Away from Home main has nothing to do but its upload, whose ticket      *)
(* nobody else knows.                                                      *)
UploadApart ==
  link # "idle" => /\ upload \in Items
                   /\ pc[Main] = "accept"
                   /\ status[upload] = NotFound
                   /\ dir[upload].exists

(* What is known of each ticket at each stage of its life: a directory     *)
(* from its upload to the retrieval of its result, a verdict from its      *)
(* upload on, and no answers before it is graded.                          *)
Known(x) == dir[x].exists \/ x \in Arriving \/ status[x] # NotFound

StagesAgree ==
  \A x \in Items :
    /\ Known(x) => verdict[x] \in Verdicts
    /\ x \in Arriving \/ status[x] \in {Accepted, Processing} => dir[x].exists
    /\ ~dir[x].exists => dir[x] = NoDir
    /\ dir[x].exists /\ status[x] \in {NotFound, Accepted} => dir[x] = Fresh
    /\ status[x] # Graded => answers[x] = {}

(* The text that counts as right is printed by right programs only, and    *)
(* grader runs only what it could compile.                                 *)
ExpectedIsCorrect ==
  /\ \A x \in Items : dir[x].output = "expected" => verdict[x] = "correct"
  /\ \A w \in Busy : step[w] \in {"run", "diff"} => verdict[ticket[w]] # "nocompile"
  /\ \A w \in Busy : step[w] = "diff" => verdict[ticket[w]] # "crash"

(* The files of a ticket at each step of a grading that nothing disturbed. *)
Opened == [exists |-> TRUE, test |-> "expected", output |-> "empty", diff |-> "empty"]

FilesAt(w) ==
  LET x == ticket[w] IN
    /\ step[w] = "open" => dir[x] = Fresh
    /\ step[w] \in {"compile", "run"} => dir[x] = Opened
    /\ step[w] = "diff" => dir[x] = [Opened EXCEPT !.output = Printed(verdict[x])]
    /\ step[w] = "publish" => AnswerFrom(dir[x]) = Verdict(x)

UndisturbedAgree ==
  /\ \A w \in Busy : ticket[w] \notin disturbed => FilesAt(w)
  /\ \A x \in Items \ disturbed :
       status[x] = Graded => AnswerFrom(dir[x]) \in {Verdict(x), "nothing"}

(* The inductive invariant: that of the pool, and what its files are.      *)
FilesInv == /\ WTypeOK
            /\ FilesInPlace
            /\ UploadApart
            /\ StagesAgree
            /\ ExpectedIsCorrect
            /\ NoFalsePass
            /\ UndisturbedAgree
            /\ UndisturbedIsRight

WInv == IInv /\ FilesInv

-----------------------------------------------------------------------------
(* The server with its files implements the pool.                          *)

LEMMA StepIsPool == UploadApart /\ [WNext]_wsVars => [Next]_vars
<1> SUFFICES ASSUME UploadApart, WNext
             PROVE  Next \/ UNCHANGED vars
  BY DEF wsVars
<1>1. ASSUME NEW x \in Items, UploadStart(x) \/ Retrieve(x)
      PROVE  UNCHANGED vars
  BY <1>1 DEF UploadStart, Retrieve
<1>2. CASE UploadEnd
  BY <1>2 DEF UploadEnd, UploadApart, Next
<1>3. CASE UploadStuck \/ UploadFails
  BY <1>3 DEF UploadStuck, UploadFails
<1>4. CASE PoolMain
  BY <1>4 DEF PoolMain, Next
<1>5. ASSUME NEW w \in Workers, PoolWorker(w)
      PROVE  Next
  BY <1>5 DEF PoolWorker, Next, WorkerStep
<1>6. ASSUME NEW w \in Workers,
             GraderOpen(w) \/ GraderCompile(w) \/ GraderRun(w) \/ GraderDiff(w)
      PROVE  UNCHANGED vars
  BY <1>6 DEF GraderOpen, GraderCompile, GraderRun, GraderDiff, GraderGoes
<1>7. CASE PoolSpurious
  BY <1>7 DEF PoolSpurious, Next
<1> QED
  BY <1>1, <1>2, <1>3, <1>4, <1>5, <1>6, <1>7 DEF WNext

-----------------------------------------------------------------------------
(* What the steps do to the pool's variables that the files depend on.     *)

(* The same workers have the same tickets in hand.                         *)
HandsSame == /\ \A w \in Workers : ticket'[w] = ticket[w]
             /\ Busy' = Busy

(* main's steps after an upload: only masterfunction's end matters.        *)
LEMMA MainEffect ==
  ASSUME IInv, MainStep \/ \E x \in Items : AskPosition(x)
  PROVE  /\ HandsSame
         /\ Arriving' \subseteq Arriving
         /\ \/ status' = status
            \/ \E x \in Arriving : /\ x \in Items
                                   /\ status[x] = NotFound
                                   /\ status' = [status EXCEPT ![x] = Accepted]
                                   /\ Arriving' = {}
<1> USE PoolAssumption
<1>1. /\ pc \in [Threads -> MainPc \cup WorkerPc]
      /\ ticket \in [Threads -> Items \cup {NoItem}]
  BY DEF IInv, TypeOK
<1>2. CASE MasterWait
  BY <1>1, <1>2 DEF MasterWait, HandsSame, Busy, Arriving
<1>3. CASE MasterInsert
  <2>1. /\ ticket[Main] \in Items /\ status[ticket[Main]] = NotFound
        /\ status' = [status EXCEPT ![ticket[Main]] = Accepted]
    BY <1>3, InsertEffect
  <2>2. /\ pc[Main] = "insert"
        /\ pc' = [pc EXCEPT ![Main] = "accept"]
        /\ ticket' = [ticket EXCEPT ![Main] = NoItem]
    BY <1>3 DEF MasterInsert, Locks, Goto
  <2>3. HandsSame
    BY <1>1, <2>2 DEF HandsSame, Busy
  <2>4. Arriving = {ticket[Main]} /\ Arriving' = {}
    BY <1>1, <2>2 DEF Arriving
  <2> QED
    BY <2>1, <2>3, <2>4
<1>4. CASE KnowPosition
  BY <1>1, <1>4 DEF KnowPosition, Locks, Goto, HandsSame, Busy, Arriving
<1>5. ASSUME NEW x \in Items, AskPosition(x)
      PROVE  /\ HandsSame
             /\ Arriving' \subseteq Arriving
             /\ status' = status
  BY <1>1, <1>5 DEF AskPosition, Goto, HandsSame, Busy, Arriving
<1> QED
  BY <1>2, <1>3, <1>4, <1>5 DEF MainStep

(* A worker takes ticket x up, or has graded it.                           *)
TakesUp(w, x) ==
  /\ x \in Items /\ status[x] = Accepted
  /\ w \notin Busy /\ Busy' = Busy \cup {w}
  /\ status' = [status EXCEPT ![x] = Processing]
  /\ ticket'[w] = x
  /\ step' = [step EXCEPT ![w] = "open"]

Publishes(w, x) ==
  /\ x \in Items /\ status[x] = Processing
  /\ w \in Busy /\ Busy' = Busy \ {w}
  /\ ticket[w] = x /\ step[w] = "publish"
  /\ status' = [status EXCEPT ![x] = Graded]
  /\ step' = [step EXCEPT ![w] = "none"]

LEMMA WorkerEffect ==
  ASSUME IInv, NEW w \in Workers, PoolWorker(w)
  PROVE  /\ Arriving' = Arriving
         /\ pc'[Main] = pc[Main]
         /\ \A v \in Workers \ {w} : ticket'[v] = ticket[v]
         /\ \/ HandsSame /\ UNCHANGED <<status, step>>
            \/ \E x \in Items : TakesUp(w, x) \/ Publishes(w, x)
<1> USE PoolAssumption
<1>1. /\ pc \in [Threads -> MainPc \cup WorkerPc]
      /\ ticket \in [Threads -> Items \cup {NoItem}]
  BY DEF IInv, TypeOK
<1>2. CASE (WorkerWait(w) \/ WorkerWake(w)) /\ UNCHANGED step
  <2>1. pc[w] \in {"idle", "wait"} /\ \E l \in {"idle", "wait"} : Goto(w, l, NoItem)
    BY <1>2 DEF WorkerWait, WorkerWake, Locks
  <2>2. ticket[w] = NoItem
    BY <2>1 DEF IInv, LocalsAgree, Busy
  <2>3. UNCHANGED <<status, step>>
    BY <1>2 DEF WorkerWait, WorkerWake
  <2> QED
    BY <1>1, <2>1, <2>2, <2>3 DEF Goto, HandsSame, Busy, Arriving
<1>3. CASE WorkerTake(w) /\ step' = [step EXCEPT ![w] = "open"]
  <2> DEFINE x == Head(Contents)
  <2>1. /\ x \in Items /\ status[x] = Accepted
        /\ status' = [status EXCEPT ![x] = Processing]
        /\ ticket' = [ticket EXCEPT ![w] = x]
    BY <1>3, TakeEffect
  <2>2. pc[w] = "idle" /\ pc' = [pc EXCEPT ![w] = "grade"]
    BY <1>3 DEF WorkerTake, Locks, Goto
  <2> HIDE DEF x
  <2>3. TakesUp(w, x)
    BY <1>1, <1>3, <2>1, <2>2 DEF TakesUp, Busy
  <2> QED
    BY <1>1, <2>1, <2>2, <2>3 DEF Arriving
<1>4. CASE /\ WorkerFinish(w)
           /\ step[w] = "publish" /\ step' = [step EXCEPT ![w] = "none"]
  <2> DEFINE x == ticket[w]
  <2>1. /\ x \in Items /\ status[x] = Processing
        /\ status' = [status EXCEPT ![x] = Graded]
        /\ ticket' = [ticket EXCEPT ![w] = NoItem]
    BY <1>4, FinishEffect
  <2>2. pc[w] = "grade" /\ pc' = [pc EXCEPT ![w] = "idle"]
    BY <1>4 DEF WorkerFinish, Goto
  <2>3. Publishes(w, x)
    BY <1>1, <1>4, <2>1, <2>2 DEF Publishes, Busy
  <2> QED
    BY <1>1, <2>1, <2>2, <2>3 DEF Arriving
<1> QED
  BY <1>2, <1>3, <1>4 DEF PoolWorker

(* Busy workers have tickets, each another one.                            *)
LEMMA Hands ==
  ASSUME IInv
  PROVE  /\ status \in [Items -> {NotFound, Accepted, Processing, Graded}]
         /\ Busy \subseteq Workers
         /\ \A w \in Busy : ticket[w] \in Items /\ status[ticket[w]] = Processing
         /\ \A v, w \in Busy : ticket[v] = ticket[w] => v = w
  BY DEF IInv, TypeOK, StatusAgrees, Grading, Busy

LEMMA ArrivingType ==
  ASSUME IInv
  PROVE  /\ Arriving \subseteq Items
         /\ \A x \in Arriving : status[x] = NotFound
         /\ pc[Main] = "accept" => Arriving = {}
  BY DEF IInv, LocalsAgree, Arriving

(* A program that is run compiles, so that it prints one of these.         *)
LEMMA GraderPrints ==
  ASSUME WInv, NEW w \in Busy, step[w] \in {"run", "diff"}
  PROVE  LET v == verdict[ticket[w]]
         IN  /\ v \in {"correct", "wrong", "crash"}
             /\ Printed(v) \in {"expected", "other", "errors"}
             /\ Printed(v) = "expected" <=> v = "correct"
<1>1. ticket[w] \in Items /\ status[ticket[w]] = Processing
  BY Hands DEF WInv
<1>2. verdict[ticket[w]] \in Verdicts \ {"nocompile"}
  BY <1>1 DEF WInv, FilesInv, StagesAgree, ExpectedIsCorrect, Known
<1> QED
  BY <1>2, WorkspaceAssumption DEF Printed

Dirs == [exists : BOOLEAN,
         test   : {"absent", "expected"},
         output : {"absent", "empty", "errors", "expected", "other"},
         diff   : {"absent", "empty", "difference"}]

(* A step of grader changes at most the directory of its ticket, and that  *)
(* only at Home.                                                           *)
LEMMA GraderEffect ==
  ASSUME WInv, NEW w \in Workers,
         GraderOpen(w) \/ GraderCompile(w) \/ GraderRun(w) \/ GraderDiff(w)
  PROVE  /\ w \in Busy /\ Running
         /\ \E to \in {"compile", "run", "diff", "publish"} : GraderGoes(w, to)
         /\ \E d \in Dirs : /\ d.exists = dir[ticket[w]].exists
                            /\ dir' = IF AtHome THEN [dir EXCEPT ![ticket[w]] = d] ELSE dir
<1> DEFINE x == ticket[w]
<1>1. w \in Busy /\ Running
  BY DEF GraderOpen, GraderCompile, GraderRun, GraderDiff, GraderAt, Busy
<1>2. x \in Items /\ dir \in [Items -> Dirs] /\ dir[x] \in Dirs
  BY <1>1, Hands DEF WInv, FilesInv, WTypeOK, Dirs
<1>3. CASE GraderOpen(w)
  <2> DEFINE d == [dir[x] EXCEPT !.test = "expected", !.output = "empty", !.diff = "empty"]
  <2>1. d \in Dirs /\ d.exists = dir[x].exists
    BY <1>2 DEF Dirs
  <2>2. dir' = IF AtHome THEN [dir EXCEPT ![x] = d] ELSE dir
    BY <1>3 DEF GraderOpen, DirOf
  <2>3. GraderGoes(w, "compile")
    BY <1>3 DEF GraderOpen
  <2> QED
    BY <1>1, <2>1, <2>2, <2>3
<1>4. CASE GraderCompile(w)
  <2>1. PICK o \in {"empty", "errors"} :
          dir' = IF AtHome THEN [dir EXCEPT ![x].output = o] ELSE dir
    BY <1>4 DEF GraderCompile, DirOf
  <2> DEFINE d == [dir[x] EXCEPT !.output = o]
  <2>2. d \in Dirs /\ d.exists = dir[x].exists
    BY <1>2 DEF Dirs
  <2>3. dir' = IF AtHome THEN [dir EXCEPT ![x] = d] ELSE dir
    BY <2>1
  <2>4. \E to \in {"run", "publish"} : GraderGoes(w, to)
    BY <1>4 DEF GraderCompile
  <2> QED
    BY <1>1, <2>2, <2>3, <2>4
<1>5. CASE GraderRun(w)
  <2> DEFINE o == Printed(verdict[x])
             d == [dir[x] EXCEPT !.output = o]
  <2>1. o \in {"expected", "other", "errors"}
    BY <1>1, <1>5, GraderPrints DEF GraderRun, GraderAt
  <2>2. d \in Dirs /\ d.exists = dir[x].exists
    <3> HIDE DEF o
    <3> QED
      BY <1>2, <2>1 DEF Dirs
  <2>3. dir' = IF AtHome THEN [dir EXCEPT ![x] = d] ELSE dir
    BY <1>5 DEF GraderRun, DirOf
  <2>4. \E to \in {"diff", "publish"} : GraderGoes(w, to)
    BY <1>5 DEF GraderRun
  <2> QED
    BY <1>1, <2>2, <2>3, <2>4
<1>6. CASE GraderDiff(w)
  <2> DEFINE o == Compared(dir[x])
             d == [dir[x] EXCEPT !.diff = o]
  <2>1. d \in Dirs /\ d.exists = dir[x].exists
    BY <1>2 DEF Dirs, Compared
  <2>2. dir' = IF AtHome THEN [dir EXCEPT ![x] = d] ELSE dir
    BY <1>6 DEF GraderDiff, DirOf
  <2>3. GraderGoes(w, "publish")
    BY <1>6 DEF GraderDiff
  <2> QED
    BY <1>1, <2>1, <2>2, <2>3
<1> QED
  BY <1>3, <1>4, <1>5, <1>6

-----------------------------------------------------------------------------
(* The conjuncts of the invariant.                                         *)

LEMMA WInvInit == WInit => WInv
<1> SUFFICES ASSUME WInit
             PROVE  WInv
  OBVIOUS
<1> USE PoolAssumption, WorkspaceAssumption DEF WInit
<1>1. IInv
  BY IInvInit
<1>2. /\ pc = [t \in Threads |-> IF t = Main THEN "accept" ELSE "idle"]
      /\ status = [x \in Items |-> NotFound]
  BY DEF Init
<1>3. Busy = {} /\ Arriving = {}
  BY <1>2 DEF Busy, Arriving
<1>4. WTypeOK
  BY <1>3 DEF WTypeOK, NoDir
<1>5. FilesInPlace /\ UploadApart
  BY <1>3 DEF FilesInPlace, DirOutlivesGrading, HomeUnlessReading, UploadApart
<1>6. StagesAgree
  BY <1>2, <1>3 DEF StagesAgree, Known, NoDir
<1>7. ExpectedIsCorrect /\ NoFalsePass
  BY <1>3 DEF ExpectedIsCorrect, NoFalsePass, NoDir
<1>8. UndisturbedAgree /\ UndisturbedIsRight
  BY <1>2, <1>3 DEF UndisturbedAgree, UndisturbedIsRight
<1> QED
  BY <1>1, <1>4, <1>5, <1>6, <1>7, <1>8 DEF WInv, FilesInv

(* These are all the variables the files' part of it depends on.           *)
LEMMA FilesUntouched ==
  ASSUME FilesInv, UNCHANGED <<pc, ticket, status, fileVars>>
  PROVE  FilesInv'
<1> USE DEF fileVars
<1>1. Busy' = Busy /\ Arriving' = Arriving
  BY DEF Busy, Arriving
<1>2. WTypeOK'
  BY <1>1 DEF FilesInv, WTypeOK
<1>3. FilesInPlace'
  BY <1>1 DEF FilesInv, FilesInPlace, DirOutlivesGrading, HomeUnlessReading
<1>4. UploadApart' /\ NoFalsePass'
  BY DEF FilesInv, UploadApart, NoFalsePass
<1>5. StagesAgree'
  BY <1>1 DEF FilesInv, StagesAgree, Known
<1>6. ExpectedIsCorrect'
  BY <1>1 DEF FilesInv, ExpectedIsCorrect
<1>7. UndisturbedAgree'
  BY <1>1 DEF FilesInv, UndisturbedAgree, FilesAt, AnswerFrom, Verdict
<1>8. UndisturbedIsRight'
  BY DEF FilesInv, UndisturbedIsRight, Verdict
<1> QED
  BY <1>2, <1>3, <1>4, <1>5, <1>6, <1>7, <1>8 DEF FilesInv

LEMMA UploadStarts ==
  ASSUME WInv, NEW x \in Items, UploadStart(x)
  PROVE  FilesInv'
<1> USE WorkspaceAssumption DEF UploadStart
<1>1. /\ UNCHANGED <<pc, ticket, status, step, answers, disturbed>>
      /\ Busy' = Busy /\ Arriving' = Arriving /\ Arriving = {}
  BY ArrivingType DEF WInv, vars, Busy, Arriving
<1>2. /\ dir \in [Items -> Dirs] /\ verdict \in [Items -> Verdicts \cup {"unknown"}]
      /\ dir[x] = NoDir /\ answers[x] = {}
  BY DEF WInv, FilesInv, WTypeOK, Dirs, StagesAgree
<1>3. /\ dir' = [dir EXCEPT ![x] = Fresh]
      /\ Fresh \in Dirs /\ Fresh.exists /\ Fresh.output = "absent"
  BY <1>2 DEF Dirs, Fresh, NoDir
<1>4. PICK v \in Verdicts : verdict' = [verdict EXCEPT ![x] = v]
  OBVIOUS
<1>5. \A w \in Busy : ticket[w] \in Items \ {x}
  BY Hands DEF WInv
<1>6. WTypeOK'
  <2>1. dir' \in [Items -> Dirs]
    BY <1>2, <1>3
  <2>2. verdict' \in [Items -> Verdicts \cup {"unknown"}]
    BY <1>2, <1>4
  <2> QED
    BY <1>1, <2>1, <2>2 DEF WInv, FilesInv, WTypeOK, Dirs
<1>7. FilesInPlace'
  BY <1>1, <1>2, <1>3, <1>5
     DEF WInv, FilesInv, FilesInPlace, DirOutlivesGrading, HomeUnlessReading
<1>8. UploadApart'
  BY <1>1, <1>2, <1>3 DEF UploadApart
<1>9. StagesAgree'
  BY <1>1, <1>2, <1>3, <1>4 DEF WInv, FilesInv, StagesAgree, Known
<1>10. ExpectedIsCorrect'
  <2>1. ASSUME NEW y \in Items, dir'[y].output = "expected"
        PROVE  verdict'[y] = "correct"
    BY <1>2, <1>3, <1>4, <2>1 DEF WInv, FilesInv, ExpectedIsCorrect
  <2>2. \A w \in Busy : verdict'[ticket[w]] = verdict[ticket[w]]
    BY <1>2, <1>4, <1>5
  <2> QED
    BY <1>1, <2>1, <2>2 DEF WInv, FilesInv, ExpectedIsCorrect
<1>11. NoFalsePass'
  BY <1>1, <1>2, <1>4 DEF WInv, FilesInv, NoFalsePass
<1>12. UndisturbedAgree'
  <2>1. ASSUME NEW y \in Items \ {x}
        PROVE  dir'[y] = dir[y] /\ verdict'[y] = verdict[y] /\ Verdict(y)' = Verdict(y)
    BY <1>2, <1>3, <1>4 DEF Verdict
  <2>2. \A w \in Busy : FilesAt(w)' = FilesAt(w)
    BY <1>1, <1>5, <2>1 DEF FilesAt
  <2> QED
    BY <1>1, <2>1, <2>2 DEF WInv, FilesInv, UndisturbedAgree
<1>13. UndisturbedIsRight'
  BY <1>1, <1>2, <1>4 DEF WInv, FilesInv, UndisturbedIsRight, Verdict
<1> QED
  BY <1>6, <1>7, <1>8, <1>9, <1>10, <1>11, <1>12, <1>13 DEF FilesInv

(* The ticket goes from the upload to masterfunction.                      *)
LEMMA UploadEnds ==
  ASSUME WInv, UploadEnd
  PROVE  FilesInv'
<1> USE PoolAssumption, WorkspaceAssumption DEF UploadEnd
<1>1. /\ upload \in Items /\ status[upload] = NotFound /\ dir[upload].exists
      /\ pc[Main] = "accept" /\ Arriving = {}
  BY ArrivingType DEF WInv, FilesInv, UploadApart
<1>2. /\ pc' = [pc EXCEPT ![Main] = "insert"]
      /\ ticket' = [ticket EXCEPT ![Main] = upload]
      /\ UNCHANGED <<status, verdict, dir, step, answers, disturbed>>
  BY DEF Submit, Goto
<1>3. /\ Busy' = Busy /\ Arriving' = {upload}
      /\ \A w \in Busy : ticket'[w] = ticket[w]
  BY <1>2 DEF WInv, IInv, TypeOK, Busy, Arriving
<1>4. WTypeOK'
  BY <1>2, <1>3 DEF WInv, FilesInv, WTypeOK
<1>5. FilesInPlace' /\ UploadApart'
  BY <1>2, <1>3 DEF WInv, FilesInv, FilesInPlace, DirOutlivesGrading, HomeUnlessReading,
                    UploadApart
<1>6. StagesAgree'
  BY <1>1, <1>2, <1>3 DEF WInv, FilesInv, StagesAgree, Known
<1>7. ExpectedIsCorrect' /\ NoFalsePass'
  BY <1>2, <1>3 DEF WInv, FilesInv, ExpectedIsCorrect, NoFalsePass
<1>8. UndisturbedAgree' /\ UndisturbedIsRight'
  BY <1>2, <1>3 DEF WInv, FilesInv, UndisturbedAgree, UndisturbedIsRight, FilesAt,
                    AnswerFrom, Verdict
<1> QED
  BY <1>4, <1>5, <1>6, <1>7, <1>8 DEF FilesInv

LEMMA UploadBreaks ==
  ASSUME WInv, UploadStuck \/ UploadFails
  PROVE  FilesInv'
<1> USE DEF UploadStuck, UploadFails
<1>1. /\ UNCHANGED <<pc, ticket, status, cwd, upload, verdict, dir, step, answers, disturbed>>
      /\ link = "reading" /\ link' \in {"stuck", "down"}
  BY DEF vars
<1>2. Busy' = Busy /\ Arriving' = Arriving
  BY <1>1 DEF Busy, Arriving
<1>3. WTypeOK'
  BY <1>1, <1>2 DEF WInv, FilesInv, WTypeOK
<1>4. FilesInPlace' /\ UploadApart'
  BY <1>1, <1>2 DEF WInv, FilesInv, FilesInPlace, DirOutlivesGrading, HomeUnlessReading,
                    UploadApart
<1>5. StagesAgree'
  BY <1>1, <1>2 DEF WInv, FilesInv, StagesAgree, Known
<1>6. ExpectedIsCorrect' /\ NoFalsePass'
  BY <1>1, <1>2 DEF WInv, FilesInv, ExpectedIsCorrect, NoFalsePass
<1>7. UndisturbedAgree' /\ UndisturbedIsRight'
  BY <1>1, <1>2 DEF WInv, FilesInv, UndisturbedAgree, UndisturbedIsRight, FilesAt,
                    AnswerFrom, Verdict
<1> QED
  BY <1>3, <1>4, <1>5, <1>6, <1>7 DEF FilesInv

(* A retrieved result was answered with its ticket's verdict.              *)
LEMMA Retrieval ==
  ASSUME WInv, NEW x \in Items, Retrieve(x)
  PROVE  FilesInv'
<1> USE DEF Retrieve
<1>1. /\ UNCHANGED <<pc, ticket, status, cwd, link, upload, verdict, step, disturbed>>
      /\ Busy' = Busy /\ Arriving' = Arriving /\ status[x] = Graded
  BY DEF vars, Busy, Arriving
<1>2. /\ dir \in [Items -> Dirs] /\ NoDir \in Dirs
      /\ answers \in [Items -> SUBSET {"nothing", "empty", "errors", "expected", "other",
                                       "difference"}]
  BY DEF WInv, FilesInv, WTypeOK, Dirs, NoDir
<1>3. /\ dir' = [dir EXCEPT ![x] = NoDir]
      /\ ~NoDir.exists /\ NoDir.output = "absent" /\ AnswerFrom(NoDir) = "nothing"
  <2>1. ~NoDir.exists /\ NoDir.output = "absent"
    BY DEF NoDir
  <2>2. AnswerFrom(NoDir) = "nothing"
    BY <2>1 DEF AnswerFrom
  <2> QED
    BY <2>1, <2>2
<1>4. PICK a : a = AnswerFrom(dir[x])
  OBVIOUS
<1>5. /\ answers' = [answers EXCEPT ![x] = @ \cup {a}]
      /\ a \in {"nothing", "empty", "errors", "expected", "other", "difference"}
      /\ a = "expected" => dir[x].output = "expected"
  BY <1>2, <1>4 DEF AnswerFrom, Dirs
<1>6. \A w \in Busy : ticket[w] \in Items \ {x}
  BY <1>1, Hands DEF WInv, NotFound, Accepted, Processing, Graded
<1>7. WTypeOK'
  <2>1. dir' \in [Items -> Dirs]
    BY <1>2, <1>3
  <2>2. answers' \in [Items -> SUBSET {"nothing", "empty", "errors", "expected", "other",
                                       "difference"}]
    BY <1>2, <1>5
  <2> QED
    BY <1>1, <2>1, <2>2 DEF WInv, FilesInv, WTypeOK, Dirs
<1>8. FilesInPlace' /\ UploadApart'
  BY <1>1, <1>2, <1>3, <1>6
     DEF WInv, FilesInv, FilesInPlace, DirOutlivesGrading, HomeUnlessReading, UploadApart
<1>9. StagesAgree'
  BY <1>1, <1>2, <1>3, <1>5, ArrivingType DEF WInv, FilesInv, StagesAgree, Known
<1>10. ExpectedIsCorrect'
  BY <1>1, <1>2, <1>3, <1>6 DEF WInv, FilesInv, ExpectedIsCorrect
<1>11. NoFalsePass'
  BY <1>1, <1>2, <1>5 DEF WInv, FilesInv, NoFalsePass, ExpectedIsCorrect
<1>12. UndisturbedAgree'
  <2>1. \A y \in Items \ {x} : dir'[y] = dir[y] /\ Verdict(y)' = Verdict(y)
    BY <1>1, <1>2, <1>3 DEF Verdict
  <2>2. \A w \in Busy : FilesAt(w)' = FilesAt(w)
    BY <1>1, <1>6, <2>1 DEF FilesAt
  <2>3. AnswerFrom(dir[x])' = "nothing"
    BY <1>2, <1>3 DEF AnswerFrom
  <2> QED
    BY <1>1, <2>1, <2>2, <2>3 DEF WInv, FilesInv, UndisturbedAgree
<1>13. UndisturbedIsRight'
  <2>1. \A y \in Items : Verdict(y)' = Verdict(y)
    BY <1>1 DEF Verdict
  <2>2. x \notin disturbed => a \in {Verdict(x), "nothing"}
    BY <1>1, <1>4 DEF WInv, FilesInv, UndisturbedAgree
  <2> QED
    BY <1>1, <1>2, <1>5, <2>1, <2>2 DEF WInv, FilesInv, UndisturbedIsRight
<1> QED
  BY <1>7, <1>8, <1>9, <1>10, <1>11, <1>12, <1>13 DEF FilesInv

(* main after the upload: its ticket becomes known, with its files fresh.  *)
LEMMA MainSteps ==
  ASSUME WInv, PoolMain
  PROVE  FilesInv'
<1>1. /\ HandsSame /\ Arriving' \subseteq Arriving
      /\ UNCHANGED fileVars /\ link = "idle"
  BY MainEffect DEF WInv, PoolMain
<1>2. \/ status' = status
      \/ \E x \in Arriving : /\ x \in Items
                             /\ status[x] = NotFound
                             /\ status' = [status EXCEPT ![x] = Accepted]
                             /\ Arriving' = {}
  BY MainEffect DEF WInv, PoolMain
<1>3. Busy' = Busy /\ Busy \subseteq Workers /\ \A w \in Busy : ticket'[w] = ticket[w]
  BY <1>1, Hands DEF WInv, HandsSame
<1>4. status \in [Items -> {NotFound, Accepted, Processing, Graded}]
  BY Hands DEF WInv
<1>5. \A y \in Items : status'[y] = Graded => status[y] = Graded
  BY <1>2, <1>4
<1> USE DEF fileVars
<1>6. WTypeOK'
  BY <1>1, <1>3 DEF WInv, FilesInv, WTypeOK
<1>7. FilesInPlace' /\ UploadApart'
  BY <1>1, <1>3 DEF WInv, FilesInv, FilesInPlace, DirOutlivesGrading, HomeUnlessReading,
                    UploadApart
<1>8. StagesAgree'
  BY <1>1, <1>2, <1>4 DEF WInv, FilesInv, StagesAgree, Known
<1>9. ExpectedIsCorrect' /\ NoFalsePass'
  BY <1>1, <1>3 DEF WInv, FilesInv, ExpectedIsCorrect, NoFalsePass
<1>10. UndisturbedAgree' /\ UndisturbedIsRight'
  BY <1>1, <1>3, <1>5 DEF WInv, FilesInv, UndisturbedAgree, UndisturbedIsRight, FilesAt,
                          AnswerFrom, Verdict
<1> QED
  BY <1>6, <1>7, <1>8, <1>9, <1>10 DEF FilesInv

(* The workers' own steps: a ticket is taken up with fresh files, and is   *)
(* published with the answer its grading led to.                           *)
LEMMA WorkerSteps ==
  ASSUME WInv, NEW w \in Workers, PoolWorker(w)
  PROVE  FilesInv'
<1>1. /\ Arriving' = Arriving /\ pc'[Main] = pc[Main]
      /\ \A v \in Workers \ {w} : ticket'[v] = ticket[v]
  BY WorkerEffect DEF WInv
<1>2. /\ UNCHANGED <<cwd, link, upload, verdict, dir, answers, disturbed>>
      /\ link # "down"
  BY DEF PoolWorker, Running
<1>3. /\ status \in [Items -> {NotFound, Accepted, Processing, Graded}]
      /\ Busy \subseteq Workers
      /\ \A v \in Busy : ticket[v] \in Items /\ status[ticket[v]] = Processing
      /\ step \in [Workers -> {"none", "open", "compile", "run", "diff", "publish"}]
      /\ \A v \in Workers : step[v] = "none" <=> v \notin Busy
  BY Hands DEF WInv, FilesInv, WTypeOK
<1>4. CASE HandsSame /\ UNCHANGED <<status, step>>
  <2> USE <1>4 DEF HandsSame
  <2>1. WTypeOK'
    BY <1>2 DEF WInv, FilesInv, WTypeOK
  <2>2. FilesInPlace' /\ UploadApart'
    BY <1>1, <1>2, <1>3 DEF WInv, FilesInv, FilesInPlace, DirOutlivesGrading,
                            HomeUnlessReading, UploadApart
  <2>3. StagesAgree'
    BY <1>1, <1>2 DEF WInv, FilesInv, StagesAgree, Known
  <2>4. ExpectedIsCorrect' /\ NoFalsePass'
    BY <1>2, <1>3 DEF WInv, FilesInv, ExpectedIsCorrect, NoFalsePass
  <2>5. UndisturbedAgree' /\ UndisturbedIsRight'
    BY <1>2, <1>3 DEF WInv, FilesInv, UndisturbedAgree, UndisturbedIsRight, FilesAt,
                      AnswerFrom, Verdict
  <2> QED
    BY <2>1, <2>2, <2>3, <2>4, <2>5 DEF FilesInv
<1>5. ASSUME NEW x \in Items, TakesUp(w, x)
      PROVE  FilesInv'
  <2> USE <1>5 DEF TakesUp
  <2>1. /\ dir[x] = Fresh
        /\ \A v \in Busy : step'[v] = step[v] /\ ticket'[v] = ticket[v]
    BY <1>1, <1>3 DEF WInv, FilesInv, StagesAgree
  <2>2. WTypeOK'
    BY <1>2, <1>3 DEF WInv, FilesInv, WTypeOK
  <2>3. FilesInPlace'
    <3>1. dir[x].exists
      BY DEF WInv, FilesInv, StagesAgree
    <3> QED
      BY <1>2, <1>3, <2>1, <3>1 DEF WInv, FilesInv, FilesInPlace, DirOutlivesGrading,
                                    HomeUnlessReading
  <2>4. StagesAgree'
    BY <1>1, <1>2, <1>3 DEF WInv, FilesInv, StagesAgree, Known
  <2>5. ExpectedIsCorrect' /\ NoFalsePass'
    BY <1>2, <1>3, <2>1 DEF WInv, FilesInv, ExpectedIsCorrect, NoFalsePass
  <2>6. UndisturbedAgree' /\ UndisturbedIsRight'
    <3>1. \A y \in Items : Verdict(y)' = Verdict(y)
      BY <1>2 DEF Verdict
    <3>2. FilesAt(w)'
      BY <1>2, <1>3, <2>1 DEF FilesAt
    <3>3. \A v \in Busy : FilesAt(v)' = FilesAt(v)
      BY <1>2, <1>3, <2>1, <3>1 DEF FilesAt
    <3> QED
      BY <1>2, <1>3, <2>1, <3>1, <3>2, <3>3
         DEF WInv, FilesInv, UndisturbedAgree, UndisturbedIsRight, AnswerFrom
  <2>7. UploadApart'
    BY <1>1, <1>2, <1>3 DEF WInv, FilesInv, UploadApart
  <2> QED
    BY <2>2, <2>3, <2>4, <2>5, <2>6, <2>7 DEF FilesInv
<1>6. ASSUME NEW x \in Items, Publishes(w, x)
      PROVE  FilesInv'
  <2> USE <1>6 DEF Publishes
  <2>1. \A v \in Busy' : /\ v \in Busy \ {w}
                         /\ step'[v] = step[v] /\ ticket'[v] = ticket[v]
    BY <1>1, <1>3
  <2>2. WTypeOK'
    BY <1>2, <1>3 DEF WInv, FilesInv, WTypeOK
  <2>3. FilesInPlace' /\ UploadApart'
    BY <1>1, <1>2, <1>3, <2>1 DEF WInv, FilesInv, FilesInPlace, DirOutlivesGrading,
                                  HomeUnlessReading, UploadApart
  <2>4. StagesAgree'
    BY <1>1, <1>2, <1>3 DEF WInv, FilesInv, StagesAgree, Known
  <2>5. ExpectedIsCorrect' /\ NoFalsePass'
    BY <1>2, <2>1 DEF WInv, FilesInv, ExpectedIsCorrect, NoFalsePass
  <2>6. UndisturbedAgree' /\ UndisturbedIsRight'
    <3>1. \A y \in Items : Verdict(y)' = Verdict(y) /\ AnswerFrom(dir[y])' = AnswerFrom(dir[y])
      BY <1>2 DEF Verdict, AnswerFrom
    <3>2. \A v \in Busy' : FilesAt(v)' = FilesAt(v)
      BY <1>2, <1>3, <2>1, <3>1 DEF FilesAt
    <3>3. x \notin disturbed => AnswerFrom(dir[x]) = Verdict(x)
      BY DEF WInv, FilesInv, UndisturbedAgree, FilesAt
    <3> QED
      BY <1>2, <1>3, <2>1, <3>1, <3>2, <3>3
         DEF WInv, FilesInv, UndisturbedAgree, UndisturbedIsRight
  <2> QED
    BY <2>2, <2>3, <2>4, <2>5, <2>6 DEF FilesInv
<1> QED
  BY <1>4, <1>5, <1>6, WorkerEffect DEF WInv

(* grader's effect on the tickets: on its own and at Home only.            *)
LEMMA GraderSteps ==
  ASSUME WInv, NEW w \in Workers,
         GraderOpen(w) \/ GraderCompile(w) \/ GraderRun(w) \/ GraderDiff(w)
  PROVE  FilesInv'
<1> DEFINE x == ticket[w]
<1>1. w \in Busy /\ x \in Items /\ status[x] = Processing /\ Running
  BY GraderEffect, Hands DEF WInv
<1>2. PICK to \in {"compile", "run", "diff", "publish"} : GraderGoes(w, to)
  BY GraderEffect
<1>3. PICK d \in Dirs : /\ d.exists = dir[x].exists
                       /\ dir' = IF AtHome THEN [dir EXCEPT ![x] = d] ELSE dir
  BY GraderEffect
<1>4. /\ UNCHANGED <<pc, ticket, status, cwd, link, upload, verdict, answers>>
      /\ step' = [step EXCEPT ![w] = to]
      /\ disturbed' = IF AtHome THEN disturbed ELSE disturbed \cup {x}
      /\ Busy' = Busy /\ Arriving' = Arriving
  BY <1>2 DEF GraderGoes, vars, Busy, Arriving
<1>5. /\ dir \in [Items -> Dirs] /\ dir' \in [Items -> Dirs]
      /\ \A y \in Items : dir'[y].exists = dir[y].exists
      /\ \A y \in Items \ {x} : dir'[y] = dir[y]
      /\ ~AtHome => dir' = dir
  <2>1. dir \in [Items -> Dirs]
    BY DEF WInv, FilesInv, WTypeOK, Dirs
  <2> QED
    BY <1>1, <1>3, <2>1
<1>6. /\ step \in [Workers -> {"none", "open", "compile", "run", "diff", "publish"}]
      /\ step[w] # "none" /\ step'[w] = to
      /\ \A v \in Workers \ {w} : step'[v] = step[v]
      /\ \A v \in Busy \ {w} : ticket[v] \in Items \ {x}
  BY <1>1, <1>4, Hands DEF WInv, FilesInv, WTypeOK
<1>7. dir[x].exists
  BY <1>1 DEF WInv, FilesInv, StagesAgree
<1> HIDE DEF x
<1>8. WTypeOK'
  BY <1>1, <1>4, <1>5, <1>6 DEF WInv, FilesInv, WTypeOK, Dirs
<1>9. FilesInPlace'
  BY <1>4, <1>5, Hands
     DEF WInv, FilesInv, FilesInPlace, DirOutlivesGrading, HomeUnlessReading
<1>10. UploadApart'
  BY <1>4, <1>5 DEF WInv, FilesInv, UploadApart
<1>11. StagesAgree'
  BY <1>1, <1>4, <1>5, <1>7 DEF WInv, FilesInv, StagesAgree, Known
<1>12. NoFalsePass' /\ UndisturbedIsRight'
  BY <1>4 DEF WInv, FilesInv, NoFalsePass, UndisturbedIsRight, Verdict
(* What the ticket's program printed, and how grader goes on.              *)
<1>13. /\ AtHome => \/ dir'[x].output = dir[x].output
                    \/ dir'[x].output \in {"empty", "errors"}
                    \/ step[w] = "run" /\ dir'[x].output = Printed(verdict[x])
       /\ to = "run" => verdict[x] # "nocompile"
       /\ to = "diff" => verdict[x] # "crash" /\ step[w] = "run"
  <2>1. CASE GraderOpen(w)
    <3>1. to = "compile"
      BY <1>4, <1>6, <2>1 DEF GraderOpen, GraderGoes
    <3> QED
      BY <1>1, <1>5, <2>1, <3>1 DEF GraderOpen, DirOf, Dirs, x
  <2>2. CASE GraderCompile(w)
    <3>1. to \in {"run", "publish"} /\ (to = "run" => verdict[x] # "nocompile")
      BY <1>1, <1>6, <2>2 DEF GraderCompile, GraderGoes, x
    <3> QED
      BY <1>1, <1>5, <2>2, <3>1 DEF GraderCompile, DirOf, Dirs, x
  <2>3. CASE GraderRun(w)
    <3>1. to \in {"diff", "publish"} /\ (to = "diff" => verdict[x] # "crash")
      BY <1>1, <1>6, <2>3 DEF GraderRun, GraderGoes, x
    <3>2. AtHome => dir'[x].output = Printed(verdict[x])
      BY <1>1, <1>5, <2>3 DEF GraderRun, DirOf, Dirs, x
    <3> QED
      BY <2>3, <3>1, <3>2 DEF GraderRun, GraderAt
  <2>4. CASE GraderDiff(w)
    <3>1. to = "publish"
      BY <1>4, <1>6, <2>4 DEF GraderDiff, GraderGoes
    <3> QED
      BY <1>1, <1>5, <2>4, <3>1 DEF GraderDiff, DirOf, Dirs, x
  <2> QED
    BY <2>1, <2>2, <2>3, <2>4
<1>14. ExpectedIsCorrect'
  <2>1. step[w] \in {"run", "diff"} => verdict[x] # "nocompile"
    BY <1>1, GraderPrints DEF x
  <2>2. step[w] = "run" /\ Printed(verdict[x]) = "expected" => verdict[x] = "correct"
    BY <1>1, GraderPrints DEF x
  <2>3. dir'[x].output = "expected" => verdict[x] = "correct"
    <3>1. dir[x].output = "expected" => verdict[x] = "correct"
      BY <1>1 DEF WInv, FilesInv, ExpectedIsCorrect
    <3>2. CASE AtHome
      BY <1>13, <2>2, <3>1, <3>2
    <3>3. CASE ~AtHome
      BY <1>5, <3>1, <3>3
    <3> QED
      BY <3>2, <3>3
  <2>4. \A y \in Items : dir'[y].output = "expected" => verdict'[y] = "correct"
    BY <1>4, <1>5, <2>3 DEF WInv, FilesInv, ExpectedIsCorrect
  <2>5. \A v \in Busy : step'[v] = "diff" => verdict[ticket[v]] # "crash"
    BY <1>4, <1>6, <1>13, Hands DEF WInv, FilesInv, ExpectedIsCorrect, x
  <2>6. \A v \in Busy : step'[v] \in {"run", "diff"} => verdict[ticket[v]] # "nocompile"
    BY <1>4, <1>6, <1>13, <2>1, Hands DEF WInv, FilesInv, ExpectedIsCorrect, x
  <2> QED
    BY <1>4, <2>4, <2>5, <2>6 DEF ExpectedIsCorrect
<1>15. UndisturbedAgree'
  <2>1. \A y \in Items : Verdict(y)' = Verdict(y)
    BY <1>4 DEF Verdict
  <2>2. \A v \in Busy \ {w} : FilesAt(v)' = FilesAt(v)
    BY <1>4, <1>5, <1>6, <2>1, Hands DEF WInv, FilesAt
  <2>3. \A y \in Items \ disturbed' :
          status'[y] = Graded => AnswerFrom(dir'[y]) \in {Verdict(y)', "nothing"}
    BY <1>1, <1>4, <1>5, <2>1 DEF WInv, FilesInv, UndisturbedAgree
  <2>4. x \notin disturbed' => FilesAt(w)'
    <3> SUFFICES ASSUME x \notin disturbed, AtHome
                 PROVE  FilesAt(w)'
      BY <1>4
    <3>1. FilesAt(w) /\ verdict[x] \in Verdicts
      BY <1>1 DEF WInv, FilesInv, UndisturbedAgree, StagesAgree, Known, x
    <3>2. CASE GraderOpen(w)
      BY <1>1, <1>4, <1>5, <1>6, <3>1, <3>2
         DEF GraderOpen, GraderGoes, GraderAt, DirOf, FilesAt, Fresh, NoDir, Opened, x
    <3>3. CASE GraderCompile(w)
      <4>1. dir[x] = Opened /\ ticket'[w] = x /\ verdict' = verdict
        BY <1>4, <3>1, <3>3 DEF GraderCompile, GraderAt, FilesAt, x
      <4>2. CASE verdict[x] = "nocompile"
        <5>1. step'[w] = "publish" /\ dir'[x] = [Opened EXCEPT !.output = "errors"]
          BY <1>1, <1>5, <1>6, <3>3, <4>1, <4>2 DEF GraderCompile, GraderGoes, DirOf, x
        <5> QED
          BY <4>1, <4>2, <5>1 DEF FilesAt, AnswerFrom, Verdict, Opened
      <4>3. CASE verdict[x] # "nocompile"
        <5>1. step'[w] = "run" /\ dir'[x] = [Opened EXCEPT !.output = "empty"]
          BY <1>1, <1>5, <1>6, <3>3, <4>1, <4>3 DEF GraderCompile, GraderGoes, DirOf, x
        <5> QED
          BY <4>1, <4>3, <5>1 DEF FilesAt, Opened
      <4> QED
        BY <4>2, <4>3
    <3>4. CASE GraderRun(w)
      <4>1. dir[x] = Opened /\ ticket'[w] = x /\ verdict' = verdict
        BY <1>4, <3>1, <3>4 DEF GraderRun, GraderAt, FilesAt, x
      <4>2. dir'[x] = [Opened EXCEPT !.output = Printed(verdict[x])]
        BY <1>1, <1>5, <3>4, <4>1 DEF GraderRun, DirOf, x
      <4>3. CASE verdict[x] = "crash"
        <5>1. step'[w] = "publish"
          BY <1>1, <1>6, <3>4, <4>3 DEF GraderRun, GraderGoes, x
        <5> QED
          BY <4>1, <4>2, <4>3, <5>1 DEF FilesAt, AnswerFrom, Verdict, Opened, Printed
      <4>4. CASE verdict[x] # "crash"
        <5>1. step'[w] = "diff"
          BY <1>1, <1>6, <3>4, <4>4 DEF GraderRun, GraderGoes, x
        <5> QED
          BY <4>1, <4>2, <5>1 DEF FilesAt
      <4> QED
        BY <4>3, <4>4
    <3>5. CASE GraderDiff(w)
      <4>1. /\ dir[x] = [Opened EXCEPT !.output = Printed(verdict[x])]
            /\ ticket'[w] = x /\ verdict' = verdict
        BY <1>4, <3>1, <3>5 DEF GraderDiff, GraderAt, FilesAt, x
      <4>2. dir'[x] = [dir[x] EXCEPT !.diff = Compared(dir[x])] /\ step'[w] = "publish"
        BY <1>1, <1>5, <1>6, <3>5 DEF GraderDiff, GraderGoes, DirOf, x
      <4>3. verdict[x] \in {"correct", "wrong"}
        BY <1>1, <3>5, GraderPrints
           DEF WInv, FilesInv, ExpectedIsCorrect, GraderDiff, GraderAt, x
      <4>4. AnswerFrom(dir'[x]) = Verdict(x)
        BY <4>1, <4>2, <4>3 DEF AnswerFrom, Verdict, Opened, Printed, Compared
      <4> QED
        BY <4>1, <4>2, <4>4, <2>1, <1>1 DEF FilesAt
    <3> QED
      BY <3>2, <3>3, <3>4, <3>5
  <2> QED
    BY <1>4, <2>1, <2>2, <2>3, <2>4 DEF WInv, FilesInv, UndisturbedAgree, x
<1> QED
  BY <1>8, <1>9, <1>10, <1>11, <1>12, <1>14, <1>15 DEF FilesInv

LEMMA WInvStep == WInv /\ [WNext]_wsVars => WInv'
<1> SUFFICES ASSUME WInv, [WNext]_wsVars
             PROVE  WInv'
  OBVIOUS
<1>1. IInv'
  BY StepIsPool, IInvStep DEF WInv, FilesInv
<1>2. FilesInv'
  <2>1. ASSUME NEW x \in Items, UploadStart(x) \/ Retrieve(x)
        PROVE  FilesInv'
    BY <2>1, UploadStarts, Retrieval
  <2>2. CASE UploadEnd \/ UploadStuck \/ UploadFails
    BY <2>2, UploadEnds, UploadBreaks
  <2>3. CASE PoolMain
    BY <2>3, MainSteps
  <2>4. ASSUME NEW w \in Workers,
               \/ PoolWorker(w)
               \/ GraderOpen(w) \/ GraderCompile(w) \/ GraderRun(w) \/ GraderDiff(w)
        PROVE  FilesInv'
    BY <2>4, WorkerSteps, GraderSteps
  <2>5. CASE PoolSpurious \/ UNCHANGED wsVars
    <3>1. UNCHANGED <<pc, ticket, status, fileVars>>
      BY <2>5 DEF PoolSpurious, SpuriousWake, wsVars, vars
    <3> QED
      BY <3>1, FilesUntouched DEF WInv
  <2> QED
    BY <2>1, <2>2, <2>3, <2>4, <2>5 DEF WNext
<1> QED
  BY <1>1, <1>2 DEF WInv

-----------------------------------------------------------------------------
(* The theorems.                                                           *)

(* The invariant holds of the server with its files.                       *)
THEOREM FilesInvariance == WSpec => []WInv
<1> QED
  BY WInvInit, WInvStep, PTL DEF WSpec

(* The files, main's upload and grader are always in a state the code      *)
(* knows, and a worker is in grader exactly while it has a ticket.         *)
THEOREM FilesTyping == WSpec => []WTypeOK
<1>1. WInv => WTypeOK
  BY DEF WInv, FilesInv
<1> QED
  BY <1>1, FilesInvariance, PTL

(* What the relative paths of grader, main and saver rely on: a ticket's   *)
(* directory outlives its grading, and the process is away from Home only  *)
(* while main is inside an upload.                                         *)
THEOREM FilesStayInPlace == WSpec => []FilesInPlace
<1>1. WInv => FilesInPlace
  BY DEF WInv, FilesInv
<1> QED
  BY <1>1, FilesInvariance, PTL

(* However uploads, gradings and status queries interleave, the answer     *)
(* that means success is given only of a correct program.                  *)
THEOREM PassIsDeserved == WSpec => []NoFalsePass
<1>1. WInv => NoFalsePass
  BY DEF WInv, FilesInv
<1> QED
  BY <1>1, FilesInvariance, PTL

(* A ticket during whose grading no upload moved the process is answered   *)
(* with its program's verdict, or with nothing once its result was taken.  *)
THEOREM UndisturbedVerdict == WSpec => []UndisturbedIsRight
<1>1. WInv => UndisturbedIsRight
  BY DEF WInv, FilesInv
<1> QED
  BY <1>1, FilesInvariance, PTL

(* chdir, files and retrievals never show in the queue, the map and the    *)
(* threads: whatever holds of TicketPool holds of the server with files.   *)
THEOREM WorkspaceIsPool == WSpec => ImplementsPool
<1>1. WInit => Init
  BY DEF WInit
<1>2. WInv /\ [WNext]_wsVars => [Next]_vars
  BY StepIsPool DEF WInv, FilesInv
<1> QED
  BY <1>1, <1>2, FilesInvariance, PTL DEF WSpec, ImplementsPool, Spec

=============================================================================
