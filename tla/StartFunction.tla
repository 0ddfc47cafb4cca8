---------------------------- MODULE StartFunction ----------------------------
(***************************************************************************)
(* start_function, which serves one connection in Ver2 (in a thread of its *)
(* own) and in Ver3 (in a worker of the pool): the shared counter i that   *)
(* names its files, the shared file diff.txt, the two mutexes that protect *)
(* them, and the table of open descriptors.                                *)
(*                                                                         *)
(* A program is identified with the connection it came from, and a file    *)
(* with the program it says something about.  The transfer of the upload   *)
(* is one step (module Exchange takes it apart).                           *)
(***************************************************************************)
EXTENDS Integers, FiniteSets

CONSTANTS
  Threads,   \* the threads that run start_function
  Conns,     \* connections, numbered in the order they are accepted
  NoConn,    \* a closed descriptor's connection
  Nobody,    \* the owner of a free mutex
  Fds,       \* the descriptors accept may return
  MaxAccepts,\* how often accept returns (bound)
  Return     \* where a thread is after start_function

BadFd == -1  \* what accept returns when it fails

(* Where a thread is inside start_function.                                *)
Labels == {"count", "counted", "receive", "grade", "diff", "diffread", "reply", "close"}

ASSUME StartAssumption == /\ Fds \subseteq Nat /\ IsFiniteSet(Fds)
                          /\ Conns \subseteq Nat /\ IsFiniteSet(Conns)
                          /\ NoConn \notin Conns
                          /\ Nobody \notin Threads
                          /\ MaxAccepts \in Nat
                          /\ Return \notin Labels

VARIABLES
  faults,          \* whether pthread_create and reading diff.txt may fail
  i,               \* the number of files handed out
  lock,            \* the mutex of i
  diff_file_lock,  \* the mutex of diff.txt
  diff_txt,        \* the program diff.txt is about
  table,           \* the connection of each descriptor
  unread,          \* the connections whose upload nobody has read
  reply,           \* the programs each connection was told about
  pc,              \* where each thread is
  newsockfd,       \* its local variables: the descriptor it serves,
  j,               \* the number of its files,
  got,             \* the program in demo<j>.cpp when it had read it
  output           \* per number: the program output<j>.txt is about

counterVars == <<i, lock>>
diffVars    == <<diff_file_lock, diff_txt>>
clientVars  == <<table, unread, reply>>
threadVars  == <<newsockfd, j, got, output>>
sfVars == <<faults, counterVars, diffVars, clientVars, pc, threadVars>>

(* A number is handed out per connection accepted, or not.                 *)
Numbers == 0 .. MaxAccepts

SocketOf(f) == IF f \in Fds THEN table[f] ELSE NoConn

(* accept returns the lowest free descriptor.                              *)
FreeFds == {f \in Fds : table[f] = NoConn}
LowestFree == CHOOSE f \in FreeFds : \A g \in FreeFds : f <= g

SfInit(firstLabel) ==
  /\ faults \in BOOLEAN
  /\ i = 0
  /\ lock = Nobody
  /\ diff_file_lock = Nobody
  /\ diff_txt = NoConn
  /\ table = [f \in Fds |-> NoConn]
  /\ unread = Conns
  /\ reply = [c \in Conns |-> {}]
  /\ pc = [t \in Threads |-> firstLabel]
  /\ newsockfd = [t \in Threads |-> BadFd]
  /\ j = [t \in Threads |-> 0]
  /\ got = [t \in Threads |-> NoConn]
  /\ output = [n \in Numbers |-> NoConn]

Goto(t, label) == pc' = [pc EXCEPT ![t] = label]

-----------------------------------------------------------------------------
(* int j = i; i = i + 1; under lock.                                       *)

(* Mutant: the counter is read without the lock.                           *)
EnterCount_NoLock(t) ==
  /\ pc[t] = "count"
  /\ lock' = t
  /\ j' = [j EXCEPT ![t] = i]
  /\ Goto(t, "counted")
  /\ UNCHANGED <<faults, i, diffVars, clientVars, newsockfd, got, output>>

EnterCount(t) ==
  /\ pc[t] = "count"
  /\ lock = Nobody
  /\ lock' = t
  /\ j' = [j EXCEPT ![t] = i]
  /\ Goto(t, "counted")
  /\ UNCHANGED <<faults, i, diffVars, clientVars, newsockfd, got, output>>

LeaveCount(t) ==
  /\ pc[t] = "counted"
  /\ i' = i + 1
  /\ lock' = Nobody
  /\ Goto(t, "receive")
  /\ UNCHANGED <<faults, diffVars, clientVars, threadVars>>

(* The upload is written to demo<j>.cpp.  If the descriptor is not open,   *)
(* read fails and the function is left; if other threads have read the     *)
(* upload, read blocks.                                                    *)
Receive(t) ==
  LET c == SocketOf(newsockfd[t]) IN
    /\ pc[t] = "receive"
    /\ c \in unread \cup {NoConn}
    /\ got' = [got EXCEPT ![t] = c]
    /\ unread' = unread \ {c}
    /\ Goto(t, IF c = NoConn THEN Return ELSE "grade")
    /\ UNCHANGED <<faults, counterVars, diffVars, table, reply, newsockfd, j,
                 output>>

(* Two threads read from one descriptor: each gets a part of the upload and *)
(* waits for the rest.                                                      *)
ReceivePart(t) ==
  LET c == SocketOf(newsockfd[t]) IN
    /\ c \in unread
    /\ \E s \in Threads : \A r \in {s, t} :
         pc[r] = "receive" /\ newsockfd[r] = newsockfd[t] /\ s # t
    /\ unread' = unread \ {c}
    /\ UNCHANGED <<faults, counterVars, diffVars, table, reply, pc, threadVars>>

(* Compiling and running it, with the output in output<j>.txt; if it ran   *)
(* but printed something else than expected, diff is called.               *)
Grade(t) ==
  /\ pc[t] = "grade"
  /\ output' = [output EXCEPT ![j[t]] = got[t]]
  /\ \E differs \in BOOLEAN : Goto(t, IF differs THEN "diff" ELSE "reply")
  /\ UNCHANGED <<faults, counterVars, diffVars, clientVars, newsockfd, j, got>>

-----------------------------------------------------------------------------
(* diff actual_output.txt output<j>.txt > diff.txt, under diff_file_lock.  *)

(* Mutant: diff.txt is written without the lock.                           *)
DiffEnter_NoLock(t) ==
  /\ pc[t] = "diff"
  /\ diff_file_lock' = t
  /\ diff_txt' = output[j[t]]
  /\ Goto(t, "diffread")
  /\ UNCHANGED <<faults, counterVars, clientVars, threadVars>>

DiffEnter(t) ==
  /\ pc[t] = "diff"
  /\ diff_file_lock = Nobody
  /\ diff_file_lock' = t
  /\ diff_txt' = output[j[t]]
  /\ Goto(t, "diffread")
  /\ UNCHANGED <<faults, counterVars, clientVars, threadVars>>

(* Mutant: the mutex is not released.                                      *)
DiffRead_KeepsLock(t) ==
  /\ pc[t] = "diffread"
  /\ output' = [output EXCEPT ![j[t]] = diff_txt]
  /\ Goto(t, "reply")
  /\ UNCHANGED <<faults, counterVars, diffVars, clientVars, newsockfd, j, got>>

(* It is read back, the lock released, and the text put into output<j>.txt.*)
DiffRead(t) ==
  /\ pc[t] = "diffread"
  /\ output' = [output EXCEPT ![j[t]] = diff_txt]
  /\ diff_file_lock' = Nobody
  /\ Goto(t, "reply")
  /\ UNCHANGED <<faults, counterVars, diff_txt, clientVars, newsockfd, j, got>>

(* Mutant: the connection is closed.                                       *)
DiffReadFails_Closes(t) ==
  /\ faults
  /\ pc[t] = "diffread"
  /\ table' = [table EXCEPT ![newsockfd[t]] = NoConn]
  /\ Goto(t, Return)
  /\ UNCHANGED <<faults, counterVars, diffVars, unread, reply, threadVars>>

(* Reading it fails: the function is left with the mutex locked and the    *)
(* connection open.                                                        *)
DiffReadFails(t) ==
  /\ faults
  /\ pc[t] = "diffread"
  /\ Goto(t, Return)
  /\ UNCHANGED <<faults, counterVars, diffVars, clientVars, threadVars>>

-----------------------------------------------------------------------------
(* output<j>.txt is sent; a write to a closed descriptor ends the function.*)
Reply(t) ==
  LET c == SocketOf(newsockfd[t]) IN
    /\ pc[t] = "reply"
    /\ reply' = IF c = NoConn THEN reply
                ELSE [reply EXCEPT ![c] = @ \cup {output[j[t]]}]
    /\ Goto(t, IF c = NoConn THEN Return ELSE "close")
    /\ UNCHANGED <<faults, counterVars, diffVars, table, unread, threadVars>>

(* Mutant: the connection is left open.                                    *)
Close_Leaks(t) ==
  /\ pc[t] = "close"
  /\ output' = [output EXCEPT ![j[t]] = NoConn]
  /\ Goto(t, Return)
  /\ UNCHANGED <<faults, counterVars, diffVars, clientVars, newsockfd, j, got>>

(* The descriptor is closed and the files are removed.                     *)
Close(t) ==
  /\ pc[t] = "close"
  /\ table' = [table EXCEPT ![newsockfd[t]] = NoConn]
  /\ output' = [output EXCEPT ![j[t]] = NoConn]
  /\ Goto(t, Return)
  /\ UNCHANGED <<faults, counterVars, diffVars, unread, reply, newsockfd, j,
                 got>>

StartFunctionStep(t) ==
  \/ EnterCount(t) \/ LeaveCount(t) \/ Receive(t) \/ ReceivePart(t) \/ Grade(t)
  \/ DiffEnter(t) \/ DiffRead(t) \/ DiffReadFails(t)
  \/ Reply(t) \/ Close(t)

-----------------------------------------------------------------------------
SfTypeOK ==
  /\ faults \in BOOLEAN
  /\ i \in Numbers
  /\ lock \in Threads \cup {Nobody}
  /\ \A t \in Threads : lock = t <=> pc[t] = "counted"
  /\ diff_file_lock \in Threads \cup {Nobody}
  /\ diff_txt \in Conns \cup {NoConn}
  /\ table \in [Fds -> Conns \cup {NoConn}]
  /\ unread \subseteq Conns
  /\ reply \in [Conns -> SUBSET (Conns \cup {NoConn})]
  /\ newsockfd \in [Threads -> Fds \cup {BadFd}]
  /\ j \in [Threads -> Numbers]
  /\ got \in [Threads -> Conns \cup {NoConn}]
  /\ output \in [Numbers -> Conns \cup {NoConn}]

(* Two threads never use the same files.                                   *)
Named == {t \in Threads : pc[t] \in Labels \ {"count"}}
OwnFiles == \A s, t \in Named : j[s] = j[t] => s = t

(* A client is told about its own program, whatever the other threads do   *)
(* with diff.txt and whoever else has, or had, its descriptor.             *)
OwnReply == \A c \in Conns : reply[c] \subseteq {c}

(* Clients are kept apart: neither the shared counter nor the shared       *)
(* diff.txt nor a descriptor's number lets one thread's work into          *)
(* another's.                                                              *)
Isolated == OwnFiles /\ OwnReply

(* If no call fails a client whose program was received gets its answer,   *)
(* though the threads wait for each other's diff.txt.                      *)
ReceivedIsAnswered ==
  \A c \in Conns :
    ~faults /\ (\E t \in Threads : pc[t] = "grade" /\ got[t] = c) ~> reply[c] # {}
=============================================================================
