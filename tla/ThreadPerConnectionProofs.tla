---------------------- MODULE ThreadPerConnectionProofs ----------------------
(***************************************************************************)
(* Proofs about the Ver2 server, for any number of connections, threads    *)
(* and descriptors: what the threads keep apart although main overwrites   *)
(* the variable they read their descriptor from.                           *)
(***************************************************************************)
EXTENDS ThreadPerConnection, StartFunctionProofs, FiniteSetTheorems

USE DEF Labels

(* Every number that was handed out belongs to a thread.                   *)
Counted == {t \in Threads : pc[t] \in (Labels \ {"count", "counted"}) \cup {Return}}

(* The inductive invariant.                                                *)
TInv == /\ SfInv
        /\ TypeOK
        /\ i = Cardinality(Counted)
        /\ ClosedWhenAnswered

LEMMA ThreadsFinite == IsFiniteSet(Threads) /\ Cardinality(Threads) = MaxAccepts
  BY ThreadAssumption, StartAssumption, FS_Interval

LEMMA TInvInit == Init => TInv
<1> SUFFICES ASSUME Init PROVE TInv
  OBVIOUS
<1>1. SfInit("none")
  BY DEF Init
<1>2. SfInv
  BY <1>1, SfStart
<1>3. TypeOK
  BY <1>1, <1>2 DEF SfInv, TypeOK, Init, SfInit
<1>4. Counted = {} /\ i = 0
  BY <1>1, ThreadAssumption DEF SfInit, Counted
<1>5. ClosedWhenAnswered
  BY DEF Init, ClosedWhenAnswered
<1> QED
  BY <1>2, <1>3, <1>4, <1>5, FS_EmptySet DEF TInv

-----------------------------------------------------------------------------
(* main.                                                                   *)

LEMMA AcceptStep == ASSUME TInv, NEW c \in Conns, Accept(c) PROVE TInv'
<1> USE DEF Accept
<1> SfInv /\ TypeOK /\ ClosedWhenAnswered
  BY DEF TInv
<1>1. SfInv' /\ LowestFree \in Fds /\ table[LowestFree] = NoConn
  BY SfAccept
<1> DEFINE f == LowestFree
<1> HIDE DEF f
<1>2. f \in Fds /\ table[f] = NoConn /\ main_newsockfd' = f /\ table' = [table EXCEPT ![f] = c]
  BY <1>1 DEF f
<1>3. TypeOK'
  BY <1>1, <1>2 DEF TypeOK, SfInv
<1>4. i' = i /\ Counted' = Counted
  BY DEF counterVars, Counted
<1>5. ClosedWhenAnswered'
  <2> SUFFICES ASSUME NEW d \in accepted', reply[d] = {}
               PROVE  \E g \in Fds : table'[g] = d
    BY DEF ClosedWhenAnswered
  <2>1. \A g \in Fds : table'[g] = IF g = f THEN c ELSE table[g]
    BY <1>2 DEF TypeOK, SfTypeOK
  <2>2. CASE d = c
    BY <2>1, <2>2, <1>2
  <2>3. CASE d \in accepted
    <3>1. PICK g \in Fds : table[g] = d
      BY <2>3 DEF ClosedWhenAnswered
    <3>2. g # f
      BY <2>3, <3>1, <1>2, StartAssumption DEF TypeOK
    <3> QED
      BY <2>1, <3>1, <3>2
  <2> QED
    BY <2>2, <2>3
<1> QED
  BY <1>1, <1>3, <1>4, <1>5 DEF TInv

(* A step that leaves the connections and numbers alone.                   *)
LEMMA Undisturbed ==
  ASSUME TInv, SfInv', TypeOK', UNCHANGED <<i, table, reply, accepted>>, Counted' = Counted
  PROVE  TInv'
  BY DEF TInv, ClosedWhenAnswered

LEMMA MainFailsStep == ASSUME TInv, AcceptFails \/ CreateFails PROVE TInv'
<1> UNCHANGED <<sfVars, accepted>>
  BY DEF AcceptFails, CreateFails
<1> USE DEF sfVars, counterVars, diffVars, clientVars, threadVars
<1>1. SfInv'
  BY DEF TInv, SfInv, SfTypeOK, Names, Serves, Writes, OwnFiles, Named, Holders, OwnReply
<1>2. TypeOK'
  BY <1>1 DEF TInv, TypeOK, SfInv, AcceptFails, CreateFails
<1>3. Counted' = Counted
  BY DEF Counted
<1> QED
  BY <1>1, <1>2, <1>3, Undisturbed

LEMMA CreateThreadStep == ASSUME TInv, NEW t \in Threads, CreateThread(t) PROVE TInv'
<1> USE DEF CreateThread
<1> SfInv /\ TypeOK
  BY DEF TInv
<1>1. pc[t] = "none"
  BY ThreadAssumption, StartAssumption
<1>2. SfInv'
  BY <1>1, SfMove DEF threadVars, SfInv, SfTypeOK
<1>3. \A s \in Threads : pc'[s] = IF s = t THEN "start" ELSE pc[s]
  BY DEF Goto, TypeOK
<1>4. TypeOK'
  BY <1>2 DEF Goto, TypeOK, SfInv
<1>5. Counted' = Counted
  BY <1>1, <1>3, ThreadAssumption DEF Counted
<1> QED
  BY <1>2, <1>4, <1>5, Undisturbed DEF counterVars, clientVars

-----------------------------------------------------------------------------
(* The threads.                                                            *)

LEMMA ReadArgStep == ASSUME TInv, NEW t \in Threads, ReadArg(t) PROVE TInv'
<1> USE DEF ReadArg
<1> SfInv /\ TypeOK
  BY DEF TInv
<1>1. /\ newsockfd' \in [Threads -> Fds \cup {BadFd}]
      /\ \A s \in Threads : s # t => newsockfd'[s] = newsockfd[s]
  BY DEF TypeOK, SfTypeOK
<1>2. SfInv'
  BY <1>1, SfMove
<1>3. \A s \in Threads : pc'[s] = IF s = t THEN "count" ELSE pc[s]
  BY DEF Goto, TypeOK
<1>4. TypeOK'
  BY <1>2 DEF Goto, TypeOK, SfInv, mainVars
<1>5. Counted' = Counted
  BY <1>3, ThreadAssumption, StartAssumption DEF Counted
<1> QED
  BY <1>2, <1>4, <1>5, Undisturbed DEF counterVars, clientVars, mainVars

(* Each thread takes one number, so they do not run out.                   *)
LEMMA LeaveCountFits ==
  ASSUME TInv, NEW t \in Threads, LeaveCount(t)
  PROVE  i' \in Numbers /\ i' = Cardinality(Counted')
<1> USE DEF LeaveCount
<1>1. \A s \in Threads : pc'[s] = IF s = t THEN "receive" ELSE pc[s]
  BY DEF TInv, TypeOK, Goto
<1>2. t \notin Counted
  BY StartAssumption DEF Counted
<1>3. Counted' = Counted \cup {t}
  BY <1>1 DEF Counted
<1>4. IsFiniteSet(Counted) /\ IsFiniteSet(Counted') /\ Counted' \subseteq Threads
  BY ThreadsFinite, FS_Subset DEF Counted
<1>5. Cardinality(Counted') = Cardinality(Counted) + 1
  BY <1>2, <1>3, <1>4, FS_AddElement
<1>6. Cardinality(Counted') <= MaxAccepts /\ Cardinality(Counted') \in Nat
  BY <1>4, ThreadsFinite, FS_Subset, FS_CardinalityType
<1> QED
  BY <1>5, <1>6, StartAssumption DEF TInv, Numbers

(* No other step of start_function hands out a number.                     *)
LEMMA CountedStays ==
  ASSUME TInv, NEW t \in Threads, StartFunctionStep(t), ~LeaveCount(t)
  PROVE  i' = i /\ Counted' = Counted
<1> SfInv /\ TypeOK
  BY DEF TInv
<1> USE DEF counterVars
<1>1. CASE EnterCount(t)
  BY <1>1, StartAssumption DEF EnterCount, Goto, TypeOK, Counted
<1>2. CASE Receive(t)
  <2> PICK label \in {Return, "grade"} : Goto(t, label)
    BY <1>2 DEF Receive
  <2> QED
    BY <1>2 DEF Receive, Goto, TypeOK, Counted
<1>3. CASE ReceivePart(t)
  BY <1>3 DEF ReceivePart, Counted
<1>4. CASE Grade(t)
  <2> PICK label \in {"diff", "reply"} : Goto(t, label)
    BY <1>4 DEF Grade
  <2> QED
    BY <1>4 DEF Grade, Goto, TypeOK, Counted
<1>5. CASE DiffEnter(t)
  BY <1>5 DEF DiffEnter, Goto, TypeOK, Counted
<1>6. CASE DiffRead(t)
  BY <1>6 DEF DiffRead, Goto, TypeOK, Counted
<1>7. CASE DiffReadFails(t)
  BY <1>7 DEF DiffReadFails, Goto, TypeOK, Counted
<1>8. CASE Reply(t)
  <2> PICK label \in {Return, "close"} : Goto(t, label)
    BY <1>8 DEF Reply
  <2> QED
    BY <1>8 DEF Reply, Goto, TypeOK, Counted
<1>9. CASE Close(t)
  BY <1>9 DEF Close, Goto, TypeOK, Counted
<1> QED
  BY <1>1, <1>2, <1>3, <1>4, <1>5, <1>6, <1>7, <1>8, <1>9 DEF StartFunctionStep

(* A descriptor is closed by a thread whose client has its answer.         *)
LEMMA ClosedAfterReply ==
  ASSUME TInv, NEW t \in Threads, StartFunctionStep(t), accepted' = accepted
  PROVE  ClosedWhenAnswered'
<1> SfInv /\ TypeOK /\ ClosedWhenAnswered /\ reply \in [Conns -> SUBSET (Conns \cup {NoConn})]
  BY DEF TInv, SfInv, SfTypeOK
<1> SUFFICES ASSUME NEW c \in accepted, reply'[c] = {}
             PROVE  \E f \in Fds : table'[f] = c
  BY DEF ClosedWhenAnswered
<1> c \in Conns
  BY DEF TypeOK
<1>1. CASE Close(t)
  <2>1. reply[c] = {}
    BY <1>1 DEF Close
  <2>2. PICK f \in Fds : table[f] = c
    BY <2>1 DEF ClosedWhenAnswered
  <2>3. table[newsockfd[t]] = got[t] /\ reply[got[t]] # {}
    BY <1>1 DEF Close, SfInv, Serves, Holders, Writes
  <2>4. f # newsockfd[t]
    BY <2>1, <2>2, <2>3
  <2> QED
    BY <1>1, <2>2, <2>4 DEF Close, SfInv, SfTypeOK
<1>2. CASE Reply(t)
  <2>1. table' = table /\ (reply[c] # {} => reply'[c] # {})
    BY <1>2 DEF Reply
  <2> QED
    BY <2>1 DEF ClosedWhenAnswered
<1>3. CASE ~Close(t) /\ ~Reply(t)
  <2>1. table' = table /\ reply' = reply
    BY <1>3 DEF StartFunctionStep, EnterCount, LeaveCount, Receive, ReceivePart, Grade,
                DiffEnter, DiffRead, DiffReadFails, clientVars
  <2> QED
    BY <2>1 DEF ClosedWhenAnswered
<1> QED
  BY <1>1, <1>2, <1>3

LEMMA ServeStep ==
  ASSUME TInv, NEW t \in Threads, StartFunctionStep(t), UNCHANGED mainVars
  PROVE  TInv'
<1> SfInv /\ TypeOK
  BY DEF TInv
<1>1. SfInv'
  BY SfStep, LeaveCountFits
<1>2. TypeOK'
  <2> pc' \in [Threads -> Labels \cup {"none", "start", Return}]
    BY StaysInside DEF Goto, TypeOK
  <2> QED
    BY <1>1 DEF TypeOK, SfInv, mainVars
<1>3. i' = Cardinality(Counted')
  BY LeaveCountFits, CountedStays DEF TInv
<1>4. ClosedWhenAnswered'
  BY ClosedAfterReply DEF mainVars
<1> QED
  BY <1>1, <1>2, <1>3, <1>4 DEF TInv

-----------------------------------------------------------------------------
LEMMA TInvStep == TInv /\ [Next]_vars => TInv'
<1> SUFFICES ASSUME TInv, [Next]_vars PROVE TInv'
  OBVIOUS
<1>1. ASSUME NEW c \in Conns, Accept(c) PROVE TInv'
  BY <1>1, AcceptStep
<1>2. CASE AcceptFails \/ CreateFails
  BY <1>2, MainFailsStep
<1>3. ASSUME NEW t \in Threads, CreateThread(t) PROVE TInv'
  BY <1>3, CreateThreadStep
<1>4. ASSUME NEW t \in Threads, ReadArg(t) PROVE TInv'
  BY <1>4, ReadArgStep
<1>5. ASSUME NEW t \in Threads, StartFunctionStep(t), UNCHANGED mainVars PROVE TInv'
  BY <1>5, ServeStep
<1>6. CASE UNCHANGED vars
  <2> USE <1>6 DEF vars, sfVars, mainVars, counterVars, diffVars, clientVars, threadVars
  <2>1. SfInv'
    BY DEF TInv, SfInv, SfTypeOK, Names, Serves, Writes, OwnFiles, Named, Holders, OwnReply
  <2>2. TypeOK'
    BY <2>1 DEF TInv, TypeOK, SfInv
  <2>3. Counted' = Counted
    BY DEF Counted
  <2> QED
    BY <2>1, <2>2, <2>3, Undisturbed
<1> QED
  BY <1>1, <1>2, <1>3, <1>4, <1>5, <1>6 DEF Next, ThreadStep

(* The inductive invariant holds in every state the server reaches.        *)
THEOREM ThreadsInvariance == Spec => []TInv
BY TInvInit, TInvStep, PTL DEF Spec

(* Type correctness; the counter of files stays below its bound, and its   *)
(* mutex is held by the thread that is reading it.                         *)
THEOREM ThreadsTyping == Spec => []TypeOK
<1> TInv => TypeOK
  BY DEF TInv
<1> QED
  BY ThreadsInvariance, PTL

(* No two threads use the same files, and a client is only told about its  *)
(* own program, although several threads may read the same descriptor from *)
(* main's variable, and a descriptor's number is used again.               *)
THEOREM ThreadsIsolated == Spec => []Isolated
<1> TInv => Isolated
  BY DEF TInv, SfInv, Names, Writes, Isolated
<1> QED
  BY ThreadsInvariance, PTL

(* A thread never closes the connection of a client that has no answer.    *)
THEOREM ClosedOnceAnswered == Spec => []ClosedWhenAnswered
<1> TInv => ClosedWhenAnswered
  BY DEF TInv
<1> QED
  BY ThreadsInvariance, PTL

=============================================================================
