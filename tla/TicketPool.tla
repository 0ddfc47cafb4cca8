----------------------------- MODULE TicketPool ------------------------------
(***************************************************************************)
(* The threads of the version 4 server around its queue: the main thread,  *)
(* which registers a ticket per upload (masterfunction) and answers status *)
(* queries (know_status, know_position), and the pool of workers           *)
(* (workerthread), each of which takes the oldest ticket and grades it.    *)
(*                                                                         *)
(* Every critical section of queue_lock is one action: the variables it    *)
(* touches are read outside the lock only by know_status, of a single int  *)
(* that the section writes once.  queue_lock is therefore free between     *)
(* actions, except where the code returns without releasing it.            *)
(***************************************************************************)
EXTENDS ReadyQueue

CONSTANTS
  Workers,    \* the pool: thread_pool_size threads running workerthread
  Main,       \* the thread running main
  NoThread,   \* the owner of a free mutex
  MaxQueries  \* bound on the status queries that find a ticket queued

Threads == Workers \cup {Main}

ASSUME PoolAssumption == /\ IsFiniteSet(Workers)
                         /\ Main \notin Workers
                         /\ NoThread \notin Threads
                         /\ MaxQueries \in Nat

VARIABLES
  queue_lock,  \* the owner of the mutex, NoThread if it is free
  pc,          \* where each thread is
  ticket,      \* the local variable of each thread, NoItem when unset
  status,      \* myMap: the status know_status returns for each ticket
  queries      \* status queries of queued tickets so far

vars == <<front, rear, queue, no_req, waiting, queue_lock, pc, ticket, status,
          queries>>

(* The values of status: 0, 1 and 2 are stored, -1 means no such key.      *)
NotFound == -1
Accepted == 0
Processing == 1
Graded == 2

MainPc == {"accept", "insert", "position"}
WorkerPc == {"idle", "wait", "grade"}

Init ==
  /\ ReadyInit
  /\ queue_lock = NoThread
  /\ pc = [t \in Threads |-> IF t = Main THEN "accept" ELSE "idle"]
  /\ ticket = [t \in Threads |-> NoItem]
  /\ status = [x \in Items |-> NotFound]
  /\ queries = 0

Goto(t, label, x) ==
  /\ pc' = [pc EXCEPT ![t] = label]
  /\ ticket' = [ticket EXCEPT ![t] = x]

(* Thread t is at label, not asleep, and gets the mutex.                   *)
Locks(t, label) ==
  /\ pc[t] = label
  /\ t \notin waiting
  /\ queue_lock = NoThread

-----------------------------------------------------------------------------
(* The main thread.                                                        *)

(* A "new" request was received in full; mkdir made sure the ticket, a     *)
(* time stamp, is a fresh one.  main calls masterfunction.                 *)
Submit(x) ==
  /\ pc[Main] = "accept"
  /\ status[x] = NotFound
  /\ Goto(Main, "insert", x)
  /\ UNCHANGED <<readyVars, queue_lock, status, queries>>

(* masterfunction: sleep while the queue is full ...                       *)
MasterWait ==
  /\ Locks(Main, "insert")
  /\ IsFull
  /\ CondWait(Main)
  /\ UNCHANGED <<queue_lock, pc, ticket, status, queries>>

(* ... then queue the ticket and enter it in the map with status 0.        *)
MasterInsert ==
  /\ Locks(Main, "insert")
  /\ ~IsFull
  /\ Put(ticket[Main])
  /\ status' = [status EXCEPT ![ticket[Main]] = Accepted]
  /\ Goto(Main, "accept", NoItem)
  /\ UNCHANGED <<queue_lock, queries>>

(* A status query whose know_status returned 0: main calls know_position.  *)
(* (The other answers read nothing else of this module's state.)           *)
AskPosition(x) ==
  /\ pc[Main] = "accept"
  /\ status[x] = Accepted
  /\ queries < MaxQueries
  /\ queries' = queries + 1
  /\ Goto(Main, "position", x)
  /\ UNCHANGED <<readyVars, queue_lock, status>>

(* know_position: the return inside the loop leaves the mutex locked.      *)
KnowPosition ==
  /\ Locks(Main, "position")
  /\ queue_lock' = IF Scanned(ticket[Main]) # {} THEN Main ELSE NoThread
  /\ Goto(Main, "accept", NoItem)
  /\ UNCHANGED <<readyVars, status, queries>>

-----------------------------------------------------------------------------
(* The workers.                                                            *)

(* workerthread with no_req = 0: sleep; after waking it only unlocks and   *)
(* goes around its loop, where it locks again.                             *)
WorkerWait(w) ==
  /\ Locks(w, "idle")
  /\ no_req = 0
  /\ CondWait(w)
  /\ Goto(w, "wait", NoItem)
  /\ UNCHANGED <<queue_lock, status, queries>>

WorkerWake(w) ==
  /\ Locks(w, "wait")
  /\ Goto(w, "idle", NoItem)
  /\ UNCHANGED <<readyVars, queue_lock, status, queries>>

(* Mutant: the worker forgets to update the map.                           *)
WorkerTake_NoStatus(w) ==
  /\ Locks(w, "idle")
  /\ no_req > 0
  /\ \E x \in Items \cup {NoItem} : Take(x) /\ Goto(w, "grade", x)
  /\ UNCHANGED <<queue_lock, status, queries>>

(* workerthread with no_req > 0; update_status ignores an unknown key.     *)
WorkerTake(w) ==
  /\ Locks(w, "idle")
  /\ no_req > 0
  /\ \E x \in Items \cup {NoItem} :
       /\ Take(x)
       /\ status' = [y \in Items |-> IF y = x /\ status[y] # NotFound
                                     THEN Processing ELSE status[y]]
       /\ Goto(w, "grade", x)
  /\ UNCHANGED <<queue_lock, queries>>

(* The end of grader: the result is published without the lock.            *)
WorkerFinish(w) ==
  /\ pc[w] = "grade"
  /\ status' = [y \in Items |-> IF y = ticket[w] /\ status[y] # NotFound
                                THEN Graded ELSE status[y]]
  /\ Goto(w, "idle", NoItem)
  /\ UNCHANGED <<readyVars, queue_lock, queries>>

-----------------------------------------------------------------------------
SpuriousWake ==
  /\ SpuriousWakeup
  /\ UNCHANGED <<queue_lock, pc, ticket, status, queries>>

MainStep == MasterWait \/ MasterInsert \/ KnowPosition
WorkerStep(w) == WorkerWait(w) \/ WorkerWake(w) \/ WorkerTake(w)

Next ==
  \/ \E x \in Items : Submit(x) \/ AskPosition(x)
  \/ MainStep
  \/ \E w \in Workers : WorkerStep(w) \/ WorkerFinish(w)
  \/ SpuriousWake

Spec == Init /\ [][Next]_vars

(***************************************************************************)
(* Fairness.  Clients owe the server nothing.  A thread that waits for a   *)
(* mutex nobody holds gets it (for the workers: some worker does), and a   *)
(* submitted program terminates, so that grader returns.  Only the last    *)
(* is an assumption about the input; PoolSpec does without it.             *)
(***************************************************************************)
PoolSpec == /\ Spec
            /\ WF_vars(MainStep)
            /\ WF_vars(\E w \in Workers : WorkerStep(w))

ProgramsEnd == \A w \in Workers : WF_vars(WorkerFinish(w))

FairSpec == PoolSpec /\ ProgramsEnd

-----------------------------------------------------------------------------
Asleep == Workers \cap waiting
Busy   == {w \in Workers : pc[w] = "grade"}
(* Awake workers on their way to look at the queue.                        *)
Ready  == {w \in Workers : pc[w] # "grade" /\ w \notin waiting}

(* Types, and which thread may be where.                                   *)
TypeOK ==
  /\ RingTypeOK
  /\ no_req \in Int
  /\ waiting \subseteq Threads
  /\ queue_lock \in {NoThread, Main}
  /\ pc \in [Threads -> MainPc \cup WorkerPc]
  /\ pc[Main] \in MainPc
  /\ \A w \in Workers : pc[w] \in WorkerPc
  /\ ticket \in [Threads -> Items \cup {NoItem}]
  /\ status \in [Items -> {NotFound, Accepted, Processing, Graded}]
  /\ queries \in Nat

(* The counter the workers trust is the length of the ring, so a worker    *)
(* never deletes from an empty queue and never sleeps on a non-empty one.  *)
CountAgrees == no_req = Length

(* While a worker sleeps there are at least as many awake, unoccupied      *)
(* workers as requests: no request is left lying beside a sleeping worker, *)
(* although every signal may wake a thread that finds nothing to do.       *)
NoIdleSleeper == Asleep # {} => no_req <= Cardinality(Ready)

(* main sleeps in masterfunction only while the queue is full and no       *)
(* worker sleeps: otherwise the signal that frees it may wake a worker     *)
(* instead, and is lost.                                                   *)
MainSleepsOnlyWhenFull ==
  Main \in waiting => IsFull /\ Asleep = {}

(* The map, the queue and the workers tell the same story: status 0 is in  *)
(* the queue, status 1 is in the hands of a worker, and nothing is queued  *)
(* or graded twice.                                                        *)
Queued  == {Contents[k] : k \in 1 .. Length}
Grading == {ticket[w] : w \in Busy}

StatusAgrees ==
  /\ Queued = {x \in Items : status[x] = Accepted}
  /\ Grading = {x \in Items : status[x] = Processing}
  /\ \A j, k \in 1 .. Length : Contents[j] = Contents[k] => j = k
  /\ \A v, w \in Busy : ticket[v] = ticket[w] => v = w

(* What the code relies on between its critical sections: main is about to *)
(* queue a ticket nobody knows yet, an idle worker holds none, and a       *)
(* sleeping thread is at its pthread_cond_wait.                            *)
LocalsAgree ==
  /\ pc[Main] = "insert" => /\ ticket[Main] \in Items
                           /\ status[ticket[Main]] = NotFound
  /\ \A w \in Workers \ Busy : ticket[w] = NoItem
  /\ \A w \in Asleep : pc[w] = "wait"
  /\ Main \in waiting => pc[Main] = "insert"

(* All of this together: counter, ring, map, hands and sleepers agree,     *)
(* whichever threads ran between a look at one of them and at the next.    *)
(* It is inductive, and the theorems rest on it.                           *)
IInv == /\ TypeOK
        /\ CountAgrees
        /\ StatusAgrees
        /\ LocalsAgree
        /\ NoIdleSleeper

(* A client that polls its ticket sees 0, 1, 2 in this order and nothing   *)
(* it saw is taken back; no step skips a stage.                            *)
StatusAdvances ==
  [][\A x \in Items : status'[x] # status[x] => status'[x] = status[x] + 1]_vars

(* The pool is a first-in first-out grading service.                       *)
Service == INSTANCE GradingService WITH
  line     <- Contents,
  hand     <- [w \in Workers |-> ticket[w]],
  done     <- {x \in Items : status[x] = Graded},
  Capacity <- QUEUE_SIZE - 1

ImplementsService == Service!Spec

(* Every ticket whose upload is complete is graded in the end.             *)
EveryTicketGraded ==
  \A x \in Items : (ticket[Main] = x /\ pc[Main] = "insert") ~> status[x] = Graded

(* It is, if there are fewer workers than slots, every program ends and    *)
(* nobody asks for a queued ticket.                                        *)
NeverAsked == [](queries = 0)

GradedUnlessAsked == NeverAsked /\ ProgramsEnd => EveryTicketGraded

(* Work conservation, whatever the submitted programs do: a queued ticket  *)
(* is taken up unless all workers are busy.                                *)
WorkConserving ==
  NeverAsked =>
    \A x \in Items : status[x] = Accepted ~> status[x] # Accepted \/ Busy = Workers

(* What a status query is told about its place: while the ring does not    *)
(* wrap round the end of the array, one more than it is, because the scan  *)
(* begins at the slot emptied last; and 1 for the ticket that was in that  *)
(* slot, if a worker took it after know_status had seen it queued.  While  *)
(* the ring wraps, nothing is found and know_position returns no value.    *)
UpTo(x) == {k \in 1 .. Length : \E j \in k .. Length : Contents[j] = x}

PositionTold ==
  \A x \in Items :
    /\ x \in Queued /\ front < rear => Scanned(x) # {}
    /\ Scanned(x) # {} => PositionOf(x) = 1 + Cardinality(UpTo(x))
=============================================================================
