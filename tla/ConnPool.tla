------------------------------ MODULE ConnPool -------------------------------
(***************************************************************************)
(* The Ver3 server: main accepts connections and queues their descriptors  *)
(* (masterfunction), a fixed pool of workers takes them from the queue     *)
(* (workerthread) and serves them (start_function).  Threads are the       *)
(* workers; the critical sections of queue_lock are one action each.       *)
(***************************************************************************)
EXTENDS ReadyQueue, StartFunction

CONSTANT Main  \* the thread running main

ASSUME ConnPoolAssumption == /\ Main \notin Threads
                             /\ IsFiniteSet(Threads)
                             /\ Cardinality(Conns) <= MaxAccepts
                             /\ Items = Fds \cup {BadFd}
                             /\ Return = "idle"

VARIABLES
  main_pc,   \* accept or insert
  main_fd,   \* main's newsockfd
  accepted,  \* the connections accepted so far
  failures   \* how often accept has failed

mainVars == <<main_pc, main_fd, accepted, failures>>
vars == <<readyVars, sfVars, mainVars>>

Init ==
  /\ ReadyInit
  /\ SfInit("idle")
  /\ main_pc = "accept"
  /\ main_fd = BadFd
  /\ accepted = {}
  /\ failures = 0

-----------------------------------------------------------------------------
(* main                                                                    *)

Accept(c) ==
  /\ main_pc = "accept"
  /\ \A d \in Conns : d \in accepted <=> d < c
  /\ FreeFds # {}
  /\ table' = [table EXCEPT ![LowestFree] = c]
  /\ main_fd' = LowestFree
  /\ accepted' = accepted \cup {c}
  /\ main_pc' = "insert"
  /\ UNCHANGED <<readyVars, faults, counterVars, diffVars, unread, reply, pc,
                 threadVars, failures>>

(* The process is out of descriptors: an error is printed, and the -1 goes *)
(* to masterfunction like any descriptor.                                  *)
AcceptFails ==
  /\ main_pc = "accept"
  /\ accepted # Conns
  /\ FreeFds = {}
  /\ failures < MaxAccepts - Cardinality(Conns)
  /\ failures' = failures + 1
  /\ main_fd' = BadFd
  /\ main_pc' = "insert"
  /\ UNCHANGED <<readyVars, sfVars, accepted>>

MasterWait ==
  /\ main_pc = "insert"
  /\ Main \notin waiting
  /\ IsFull
  /\ CondWait(Main)
  /\ UNCHANGED <<sfVars, mainVars>>

(* Mutants: "if" around pthread_cond_wait; main closes what it has queued. *)
MasterInsert_NoRecheck ==
  /\ main_pc = "insert"
  /\ Main \notin waiting
  /\ Put(main_fd)
  /\ main_pc' = "accept"
  /\ UNCHANGED <<sfVars, main_fd, accepted, failures>>

MasterInsert_Closes ==
  /\ main_pc = "insert"
  /\ Main \notin waiting
  /\ ~IsFull
  /\ Put(main_fd)
  /\ main_pc' = "accept"
  /\ table' = [f \in Fds |-> IF f = main_fd THEN NoConn ELSE table[f]]
  /\ UNCHANGED <<faults, counterVars, diffVars, unread, reply, pc, threadVars,
                 main_fd, accepted, failures>>

MasterInsert ==
  /\ main_pc = "insert"
  /\ Main \notin waiting
  /\ ~IsFull
  /\ Put(main_fd)
  /\ main_pc' = "accept"
  /\ UNCHANGED <<sfVars, main_fd, accepted, failures>>

-----------------------------------------------------------------------------
(* workerthread                                                            *)

WorkerWait(w) ==
  /\ pc[w] = "idle"
  /\ no_req = 0
  /\ CondWait(w)
  /\ Goto(w, "wait")
  /\ UNCHANGED <<faults, counterVars, diffVars, clientVars, threadVars,
                 mainVars>>

(* Woken with nothing to do: found stays 0, and the loop starts again.     *)
WorkerWake(w) ==
  /\ pc[w] = "wait"
  /\ w \notin waiting
  /\ no_req = 0
  /\ Goto(w, "idle")
  /\ UNCHANGED <<readyVars, faults, counterVars, diffVars, clientVars,
                 threadVars, mainVars>>

(* There is a request, at the first look or after the sleep.               *)
WorkerTake(w) ==
  /\ pc[w] \in {"idle", "wait"}
  /\ w \notin waiting
  /\ no_req > 0
  /\ \E x \in Items \cup {NoItem} :
       Take(x) /\ newsockfd' = [newsockfd EXCEPT ![w] = x]
  /\ Goto(w, "count")
  /\ UNCHANGED <<faults, counterVars, diffVars, clientVars, j, got, output,
                 mainVars>>

SpuriousWake == SpuriousWakeup /\ UNCHANGED <<sfVars, mainVars>>

WorkerStep(w) ==
  \/ WorkerWait(w) \/ WorkerWake(w) \/ WorkerTake(w)
  \/ StartFunctionStep(w) /\ UNCHANGED <<readyVars, mainVars>>

MainStep ==
  \/ \E c \in Conns : Accept(c)
  \/ AcceptFails \/ MasterWait \/ MasterInsert

Next ==
  \/ MainStep
  \/ \E w \in Threads : WorkerStep(w)
  \/ SpuriousWake

Spec == Init /\ [][Next]_vars

(* Every thread that can run does, a mutex nobody holds is granted, and    *)
(* submitted programs terminate.                                           *)
FairSpec == Spec /\ WF_vars(MainStep) /\ \A w \in Threads : WF_vars(WorkerStep(w))

-----------------------------------------------------------------------------
Serving == {w \in Threads : pc[w] \in Labels}
Asleep  == Threads \cap waiting
Ready   == Threads \ (Serving \cup Asleep)

TypeOK ==
  /\ RingTypeOK
  /\ SfTypeOK
  /\ no_req \in Int
  /\ waiting \subseteq Threads \cup {Main}
  /\ pc \in [Threads -> Labels \cup {"idle", "wait"}]
  /\ main_pc \in {"accept", "insert"}
  /\ main_fd \in Fds \cup {BadFd}
  /\ accepted \subseteq Conns
  /\ failures \in Nat

(* The counter the workers trust is the length of the ring: none of them   *)
(* takes a descriptor from an empty queue.                                 *)
CountAgrees == no_req = Length

(* No connection lies in the queue beside a sleeping worker, unless an     *)
(* awake one will come for it.                                             *)
NoIdleSleeper == Asleep # {} => no_req <= Cardinality(Ready)

(* Types, counter, ring and sleepers agree, as in version 4's pool, also   *)
(* when main sleeps on the workers' condition variable.                    *)
PoolAgrees == TypeOK /\ CountAgrees /\ NoIdleSleeper

(* A descriptor on its way through main, the queue and a worker is open    *)
(* and is in one place only, however often its number is used again.       *)
Queued == {k \in 1 .. Length : Contents[k] # BadFd}
Held   == {w \in Serving : newsockfd[w] # BadFd}

OneOwner ==
  /\ \A k \in Queued : SocketOf(Contents[k]) # NoConn
  /\ \A w \in Held : SocketOf(newsockfd[w]) # NoConn
  /\ \A k, l \in Queued : Contents[k] = Contents[l] => k = l
  /\ \A v, w \in Held : newsockfd[v] = newsockfd[w] => v = w
  /\ \A k \in Queued, w \in Held : Contents[k] # newsockfd[w]
  /\ main_pc = "insert" /\ main_fd # BadFd =>
       /\ \A k \in Queued : Contents[k] # main_fd
       /\ \A w \in Held : newsockfd[w] # main_fd

(* The connections nobody will serve any more: answered and closed, or     *)
(* left open by a worker that met an error.                                *)
Left(c) ==
  /\ c \in accepted
  /\ \A w \in Held : SocketOf(newsockfd[w]) # c
  /\ \A k \in Queued : SocketOf(Contents[k]) # c
  /\ main_pc = "insert" => SocketOf(main_fd) # c

(* A sequence of connections without its NoConns, in the same order.       *)
Opens(s) == {k \in 1 .. Len(s) : s[k] # NoConn}
NthOpen(s, n) == CHOOSE k \in Opens(s) : Cardinality({l \in Opens(s) : l <= k}) = n
Compact(s) == [n \in 1 .. Cardinality(Opens(s)) |-> s[NthOpen(s, n)]]

(* Ver3 is the same first-come first-served service as version 4, with     *)
(* connections for requests; a failed accept takes no part in it.          *)
QueuedConns == [k \in 1 .. Length |-> SocketOf(Contents[k])]

Service == INSTANCE GradingService WITH
  Items    <- Conns,
  NoItem   <- NoConn,
  Workers  <- Threads,
  line     <- Compact(QueuedConns),
  hand     <- [w \in Threads |-> IF pc[w] \in Labels THEN SocketOf(newsockfd[w])
                                 ELSE NoConn],
  done     <- {c \in Conns : Left(c)},
  Capacity <- QUEUE_SIZE - 1

ImplementsService == Service!Spec

(* If no call but accept fails, every client that connects is answered,    *)
(* though the process runs out of descriptors and main out of slots.       *)
EveryClientAnswered == \A c \in Conns : ~faults ~> reply[c] # {}
=============================================================================
