------------------------- MODULE ThreadPerConnection -------------------------
(***************************************************************************)
(* The Ver2 server: main accepts connections and creates a thread for each *)
(* of them, passing start_function a pointer to its own variable           *)
(* newsockfd, which the next accept overwrites.                            *)
(***************************************************************************)
EXTENDS StartFunction

VARIABLES
  main_pc,        \* accept or create
  main_newsockfd, \* main's variable, which the threads point to
  accepted        \* the connections accepted so far

mainVars == <<main_pc, main_newsockfd, accepted>>
vars == <<sfVars, mainVars>>

ASSUME ThreadAssumption == /\ Threads = 1 .. MaxAccepts
                           /\ Return \notin {"none", "start"}

Init ==
  /\ SfInit("none")
  /\ main_pc = "accept"
  /\ main_newsockfd = BadFd
  /\ accepted = {}

-----------------------------------------------------------------------------
(* main                                                                    *)

Accept(c) ==
  /\ main_pc = "accept"
  /\ \A d \in Conns : d \in accepted <=> d < c
  /\ FreeFds # {}
  /\ table' = [table EXCEPT ![LowestFree] = c]
  /\ main_newsockfd' = LowestFree
  /\ accepted' = accepted \cup {c}
  /\ main_pc' = "create"
  /\ UNCHANGED <<faults, counterVars, diffVars, unread, reply, pc, threadVars>>

(* The process is out of descriptors: an error is printed, nothing more.   *)
AcceptFails ==
  /\ main_pc = "accept"
  /\ accepted # Conns
  /\ FreeFds = {}
  /\ main_newsockfd' = BadFd
  /\ main_pc' = "create"
  /\ UNCHANGED <<sfVars, accepted>>

(* Threads are numbered in the order of their creation.                    *)
CreateThread(t) ==
  /\ main_pc = "create"
  /\ \A s \in Threads : pc[s] = "none" <=> s >= t
  /\ Goto(t, "start")
  /\ main_pc' = "accept"
  /\ UNCHANGED <<faults, counterVars, diffVars, clientVars, threadVars,
                 main_newsockfd, accepted>>

(* The connection is dropped, its descriptor stays open.                   *)
CreateFails ==
  /\ faults
  /\ main_pc = "create"
  /\ main_pc' = "accept"
  /\ UNCHANGED <<sfVars, main_newsockfd, accepted>>

-----------------------------------------------------------------------------
(* Mutant: the thread does not take a number.                              *)
ReadArg_NoCount(t) ==
  /\ pc[t] = "start"
  /\ newsockfd' = [newsockfd EXCEPT ![t] = main_newsockfd]
  /\ Goto(t, "receive")
  /\ UNCHANGED <<faults, counterVars, diffVars, clientVars, j, got, output,
                 mainVars>>

(* newsockfd = *(int * )sockfd: whatever main holds by now.                *)
ReadArg(t) ==
  /\ pc[t] = "start"
  /\ newsockfd' = [newsockfd EXCEPT ![t] = main_newsockfd]
  /\ Goto(t, "count")
  /\ UNCHANGED <<faults, counterVars, diffVars, clientVars, j, got, output,
                 mainVars>>

ThreadStep(t) ==
  \/ ReadArg(t)
  \/ StartFunctionStep(t) /\ UNCHANGED mainVars

Next ==
  \/ \E c \in Conns : Accept(c)
  \/ AcceptFails \/ CreateFails
  \/ \E t \in Threads : CreateThread(t) \/ ThreadStep(t)

Spec == Init /\ [][Next]_vars

(* The kernel runs every thread; a client that has connected is accepted.  *)
Fairness ==
  /\ WF_vars(\E c \in Conns : Accept(c))
  /\ WF_vars(\E t \in Threads : CreateThread(t))
  /\ \A t \in Threads : WF_vars(ThreadStep(t))

FairSpec == Spec /\ Fairness

-----------------------------------------------------------------------------
TypeOK ==
  /\ SfTypeOK
  /\ pc \in [Threads -> Labels \cup {"none", "start", Return}]
  /\ main_pc \in {"accept", "create"}
  /\ main_newsockfd \in Fds \cup {BadFd}
  /\ accepted \subseteq Conns

(* A descriptor stays open until the client on it has its answer, even if  *)
(* several threads were given it.                                          *)
ClosedWhenAnswered ==
  \A c \in accepted : reply[c] # {} \/ \E f \in Fds : table[f] = c

(* "Improved concurrency by handling multiple client requests              *)
(* simultaneously": unless a call fails, every client that is accepted     *)
(* gets an answer.                                                         *)
EveryClientAnswered ==
  \A c \in Conns : ~faults /\ c \in accepted ~> reply[c] # {}
=============================================================================
