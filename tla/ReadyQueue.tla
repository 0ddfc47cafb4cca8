----------------------------- MODULE ReadyQueue ------------------------------
(***************************************************************************)
(* What thread_handler.c builds around the ring: the request counter       *)
(* no_req (no_fd in Ver3) and the single condition variable "ready" on     *)
(* which both the workers (queue empty) and the main thread (queue full)   *)
(* sleep.  Version 3 and version 4 share it; the pools extend it.          *)
(***************************************************************************)
EXTENDS RingQueue, FiniteSets

VARIABLES
  no_req,   \* the number of requests the workers believe to be queued
  waiting   \* the threads blocked in pthread_cond_wait(&ready, &queue_lock)

readyVars == <<front, rear, queue, no_req, waiting>>

ReadyInit ==
  /\ RingInit
  /\ no_req = 0
  /\ waiting = {}

(* pthread_cond_signal: one sleeper, whichever, or nobody.                 *)
Signal ==
  \/ waiting = {} /\ UNCHANGED waiting
  \/ \E t \in waiting : waiting' = waiting \ {t}

(* pthread_cond_wait: t joins the sleepers; the mutex is released.         *)
CondWait(t) ==
  /\ waiting' = waiting \cup {t}
  /\ UNCHANGED <<front, rear, queue, no_req>>

(* POSIX lets a waiter return although nobody signalled.                   *)
SpuriousWakeup ==
  /\ \E t \in waiting : waiting' = waiting \ {t}
  /\ UNCHANGED <<front, rear, queue, no_req>>

(* Mutants: the signal is forgotten.                                       *)
Put_NoSignal(x) ==
  /\ queue_insert(x)
  /\ no_req' = no_req + 1
  /\ UNCHANGED waiting

Take_NoSignal(x) ==
  /\ queue_delete(x)
  /\ no_req' = no_req - 1
  /\ UNCHANGED waiting

(* The tail of masterfunction, once the queue has room.                    *)
Put(x) ==
  /\ queue_insert(x)
  /\ no_req' = no_req + 1
  /\ Signal

(* The branch of workerthread that takes a request.                        *)
Take(x) ==
  /\ queue_delete(x)
  /\ no_req' = no_req - 1
  /\ Signal
=============================================================================
