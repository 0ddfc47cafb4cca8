------------------------- MODULE StartFunctionProofs -------------------------
(***************************************************************************)
(* What start_function keeps, whoever runs it: the two mutexes and the     *)
(* table of descriptors keep the threads apart.  ThreadPerConnectionProofs *)
(* draws the conclusions for the threads of Ver2.                          *)
(***************************************************************************)
EXTENDS StartFunction, WellFoundedInduction, TLAPS

(* The numbers handed out are below i; who is about to raise i has it.     *)
Names ==
  /\ \A t \in Threads : pc[t] \in Labels \ {"count", "counted"} => j[t] < i
  /\ \A t \in Threads : pc[t] = "counted" => j[t] = i
  /\ OwnFiles

(* A thread that has read an upload has the connection it came from, which *)
(* stays on its descriptor, and no other thread has read it.               *)
Holders == {t \in Threads : pc[t] \in {"grade", "diff", "diffread", "reply", "close"}}

Serves ==
  /\ \A t \in Holders : /\ newsockfd[t] \in Fds
                        /\ table[newsockfd[t]] = got[t]
                        /\ got[t] \in Conns \ unread
  /\ \A s, t \in Holders : got[s] = got[t] => s = t

(* What it has written is about that upload, in diff.txt too.              *)
Writes ==
  /\ \A t \in Threads : pc[t] \in {"diff", "diffread", "reply"} => output[j[t]] = got[t]
  /\ \A t \in Threads : pc[t] = "diffread" => diff_file_lock = t /\ diff_txt = got[t]
  /\ \A t \in Threads : pc[t] = "close" => reply[got[t]] # {}
  /\ OwnReply

SfInv == SfTypeOK /\ DOMAIN pc = Threads /\ Names /\ Serves /\ Writes

USE DEF Labels

-----------------------------------------------------------------------------
(* accept's descriptor is one of the free ones.                            *)
LEMMA LowestIsFree ==
  ASSUME FreeFds # {}
  PROVE  LowestFree \in FreeFds
<1>1. FreeFds \subseteq Nat
  BY StartAssumption DEF FreeFds
<1> DEFINE R == OpToRel(<, Nat)
<1>2. IsWellFoundedOn(R, Nat)
  BY NatLessThanWellFounded
<1>3. \A x, y \in Nat : x < y => <<x, y>> \in R
  BY DEF OpToRel
<1>4. PICK f \in FreeFds : \A g \in FreeFds : ~ (<<g, f>> \in R)
  <2> HIDE DEF R
  <2> QED
    BY <1>1, <1>2, WFMin
<1>5. ASSUME NEW g \in FreeFds PROVE f <= g
  <2>1. g \in Nat /\ f \in Nat
    BY <1>1, <1>4
  <2>2. ~ (g < f)
    <3> HIDE DEF R
    <3> QED
      BY <2>1, <1>3, <1>4, Zenon
  <2> QED
    BY <2>1, <2>2
<1>6. f \in FreeFds
  BY <1>4
<1> QED
  BY <1>5, <1>6 DEF LowestFree

-----------------------------------------------------------------------------
(* The steps of start_function.                                            *)

LEMMA EnterCountStep == ASSUME SfInv, NEW t \in Threads, EnterCount(t) PROVE SfInv'
<1> USE DEF EnterCount, diffVars, clientVars
<1> SfTypeOK /\ Names /\ Serves /\ Writes /\ DOMAIN pc = Threads
  BY DEF SfInv
<1> DOMAIN pc' = Threads /\ \A s \in Threads : pc'[s] = IF s = t THEN "counted" ELSE pc[s]
  BY DEF Goto
<1>1. SfTypeOK'
  BY StartAssumption DEF SfTypeOK
<1>2. Names'
  <2>1. \A s \in Threads : pc[s] # "counted"
    BY StartAssumption DEF SfTypeOK
  <2>2. \A s \in Threads : j'[s] = IF s = t THEN i ELSE j[s]
    BY DEF SfTypeOK
  <2>3. i \in Int /\ \A s \in Threads : j[s] \in Int
    BY DEF SfTypeOK, Numbers
  <2> QED
    BY <2>1, <2>2, <2>3 DEF Names, OwnFiles, Named
<1>3. Serves'
  BY StartAssumption DEF Serves, Holders
<1>4. Writes'
  BY DEF Writes, OwnReply, SfTypeOK
<1> QED
  BY <1>1, <1>2, <1>3, <1>4 DEF SfInv

LEMMA LeaveCountStep == ASSUME SfInv, NEW t \in Threads, LeaveCount(t), i' \in Numbers PROVE SfInv'
<1> USE DEF LeaveCount, diffVars, clientVars, threadVars
<1> SfTypeOK /\ Names /\ Serves /\ Writes /\ DOMAIN pc = Threads
  BY DEF SfInv
<1> DOMAIN pc' = Threads /\ \A s \in Threads : pc'[s] = IF s = t THEN "receive" ELSE pc[s]
  BY DEF Goto
<1>1. SfTypeOK'
  BY StartAssumption DEF SfTypeOK
<1>2. Names'
  <2>1. \A s \in Threads : pc[s] = "counted" => s = t
    BY DEF SfTypeOK
  <2>2. i \in Int /\ \A s \in Threads : j[s] \in Int
    BY DEF SfTypeOK, Numbers
  <2>3. \A s \in Threads : j'[s] = j[s]
    BY DEF threadVars
  <2> QED
    BY <2>1, <2>2, <2>3 DEF Names, OwnFiles, Named
<1>3. Serves'
  BY StartAssumption DEF Serves, Holders
<1>4. Writes'
  BY StartAssumption DEF Writes, OwnReply
<1> QED
  BY <1>1, <1>2, <1>3, <1>4 DEF SfInv

LEMMA ReceiveStep == ASSUME SfInv, NEW t \in Threads, Receive(t) PROVE SfInv'
<1> USE DEF Receive, counterVars, diffVars
<1> SfTypeOK /\ Names /\ Serves /\ Writes /\ DOMAIN pc = Threads
  BY DEF SfInv
<1> DOMAIN pc' = Threads /\ \A s \in Threads :
      pc'[s] = IF s # t THEN pc[s]
               ELSE IF SocketOf(newsockfd[t]) = NoConn THEN Return ELSE "grade"
  BY DEF Goto
<1> DEFINE c == SocketOf(newsockfd[t])
<1>1. /\ c \in unread \cup {NoConn} /\ unread \subseteq Conns /\ NoConn \notin Conns
      /\ \A s \in Threads : got'[s] = IF s = t THEN c ELSE got[s]
      /\ unread' = unread \ {c}
  BY StartAssumption DEF SfTypeOK
<1>2. SfTypeOK'
  <2> got' \in [Threads -> Conns \cup {NoConn}]
    BY <1>1 DEF SfTypeOK
  <2> HIDE DEF c
  <2> QED
    BY StartAssumption DEF SfTypeOK
<1>3. Names'
  <2> \A s \in Threads : s # t => (s \in Named') = (s \in Named)
    BY DEF Named
  <2> HIDE DEF c
  <2> QED
    BY StartAssumption DEF Names, OwnFiles, Named
<1>4. Serves'
  <2>1. c # NoConn => newsockfd[t] \in Fds /\ table[newsockfd[t]] = c
    BY DEF SocketOf
  <2>2. pc'[t] = IF c = NoConn THEN Return ELSE "grade"
    OBVIOUS
  <2> HIDE DEF c
  <2>3. \A s \in Holders' : s \in Holders \/ (s = t /\ c # NoConn)
    <3> HIDE DEF Receive
    <3>1. \A s \in Threads : s # t => pc'[s] = pc[s]
      OBVIOUS
    <3>2. c = NoConn => t \notin Holders'
      BY <2>2, StartAssumption DEF Holders
    <3>3. \A s \in Holders' : s \in Threads
      BY DEF Holders
    <3>4. \A s \in Holders' : s # t => s \in Holders
      BY <3>1 DEF Holders
    <3> QED
      BY <3>2, <3>4
  <2>4. \A s \in Holders : got[s] \in Conns \ unread /\ s # t
    BY DEF Serves, Holders
  <2>5. c # NoConn => \A s \in Holders : got[s] # c
    BY <1>1, <2>4
  <2>6. \A s \in Holders' : s \in Threads
    BY DEF Holders
  <2> QED
    BY <1>1, <2>1, <2>3, <2>4, <2>5, <2>6 DEF Serves
<1>5. Writes'
  <2> HIDE DEF c
  <2> QED
    BY <1>1, StartAssumption DEF Writes, OwnReply
<1> QED
  BY <1>2, <1>3, <1>4, <1>5 DEF SfInv

LEMMA ReceivePartStep == ASSUME SfInv, NEW t \in Threads, ReceivePart(t) PROVE SfInv'
<1> USE DEF ReceivePart, counterVars, diffVars, threadVars
<1> SfTypeOK /\ Names /\ Serves /\ Writes /\ DOMAIN pc = Threads /\ pc' = pc
  BY DEF SfInv
<1>1. SfTypeOK'
  BY DEF SfTypeOK
<1>2. Names'
  BY DEF Names, OwnFiles, Named
<1>3. Serves'
  BY DEF Serves, Holders
<1>4. Writes'
  BY DEF Writes, OwnReply
<1> QED
  BY <1>1, <1>2, <1>3, <1>4 DEF SfInv

LEMMA GradeStep == ASSUME SfInv, NEW t \in Threads, Grade(t) PROVE SfInv'
<1> USE DEF Grade, counterVars, diffVars, clientVars
<1> SfTypeOK /\ Names /\ Serves /\ Writes /\ DOMAIN pc = Threads
  BY DEF SfInv
<1> PICK label \in {"diff", "reply"} :
      \A s \in Threads : pc'[s] = IF s = t THEN label ELSE pc[s]
  BY DEF Goto
<1> DOMAIN pc' = Threads
  BY DEF Goto
<1>1. SfTypeOK'
  BY DEF SfTypeOK
<1>2. Names'
  BY DEF Names, OwnFiles, Named
<1>3. Serves'
  BY DEF Serves, Holders
<1>4. Writes'
  <2>1. \A s \in Threads : pc[s] \in {"diff", "diffread", "reply"} => j[s] # j[t]
    BY DEF Names, OwnFiles, Named
  <2>2. \A n \in Numbers : output'[n] = IF n = j[t] THEN got[t] ELSE output[n]
    BY DEF SfTypeOK
  <2>3. \A s \in Threads : j[s] \in Numbers
    BY DEF SfTypeOK
  <2> QED
    BY <2>1, <2>2, <2>3 DEF Writes, OwnReply
<1> QED
  BY <1>1, <1>2, <1>3, <1>4 DEF SfInv

LEMMA DiffEnterStep == ASSUME SfInv, NEW t \in Threads, DiffEnter(t) PROVE SfInv'
<1> USE DEF DiffEnter, counterVars, clientVars, threadVars
<1> SfTypeOK /\ Names /\ Serves /\ Writes /\ DOMAIN pc = Threads
  BY DEF SfInv
<1> DOMAIN pc' = Threads /\ \A s \in Threads : pc'[s] = IF s = t THEN "diffread" ELSE pc[s]
  BY DEF Goto
<1>1. SfTypeOK'
  BY DEF SfTypeOK
<1>2. Names'
  BY DEF Names, OwnFiles, Named
<1>3. Serves'
  BY DEF Serves, Holders
<1>4. Writes'
  <2> \A s \in Threads : pc[s] # "diffread"
    BY StartAssumption DEF Writes
  <2> QED
    BY DEF Writes, OwnReply
<1> QED
  BY <1>1, <1>2, <1>3, <1>4 DEF SfInv

LEMMA DiffReadStep == ASSUME SfInv, NEW t \in Threads, DiffRead(t) PROVE SfInv'
<1> USE DEF DiffRead, counterVars, clientVars
<1> SfTypeOK /\ Names /\ Serves /\ Writes /\ DOMAIN pc = Threads
  BY DEF SfInv
<1> DOMAIN pc' = Threads /\ \A s \in Threads : pc'[s] = IF s = t THEN "reply" ELSE pc[s]
  BY DEF Goto
<1>1. SfTypeOK'
  BY DEF SfTypeOK
<1>2. Names'
  BY DEF Names, OwnFiles, Named
<1>3. Serves'
  BY DEF Serves, Holders
<1>4. Writes'
  <2>1. \A s \in Threads : s # t => pc[s] # "diffread"
    BY DEF Writes
  <2>2. \A s \in Threads : s # t /\ pc[s] \in {"diff", "diffread", "reply"} => j[s] # j[t]
    BY DEF Names, OwnFiles, Named
  <2>3. \A n \in Numbers : output'[n] = IF n = j[t] THEN got[t] ELSE output[n]
    BY DEF SfTypeOK, Writes
  <2>4. \A s \in Threads : j[s] \in Numbers
    BY DEF SfTypeOK
  <2> QED
    BY <2>1, <2>2, <2>3, <2>4 DEF Writes, OwnReply
<1> QED
  BY <1>1, <1>2, <1>3, <1>4 DEF SfInv

LEMMA DiffReadFailsStep == ASSUME SfInv, NEW t \in Threads, DiffReadFails(t) PROVE SfInv'
<1> USE DEF DiffReadFails, counterVars, diffVars, clientVars, threadVars
<1> SfTypeOK /\ Names /\ Serves /\ Writes /\ DOMAIN pc = Threads
  BY DEF SfInv
<1> DOMAIN pc' = Threads /\ \A s \in Threads : pc'[s] = IF s = t THEN Return ELSE pc[s]
  BY DEF Goto
<1>1. SfTypeOK'
  BY StartAssumption DEF SfTypeOK
<1>2. Names'
  BY StartAssumption DEF Names, OwnFiles, Named
<1>3. Serves'
  BY StartAssumption DEF Serves, Holders
<1>4. Writes'
  BY StartAssumption DEF Writes, OwnReply
<1> QED
  BY <1>1, <1>2, <1>3, <1>4 DEF SfInv

LEMMA ReplyStep == ASSUME SfInv, NEW t \in Threads, Reply(t) PROVE SfInv'
<1> USE DEF Reply, counterVars, diffVars, threadVars
<1> SfTypeOK /\ Names /\ Serves /\ Writes /\ DOMAIN pc = Threads
  BY DEF SfInv
<1> DEFINE c == got[t]
<1>1. SocketOf(newsockfd[t]) = c /\ c \in Conns /\ c # NoConn /\ output[j[t]] = c
  BY StartAssumption DEF Serves, Holders, Writes, SocketOf
<1> DOMAIN pc' = Threads /\ \A s \in Threads : pc'[s] = IF s = t THEN "close" ELSE pc[s]
  BY <1>1 DEF Goto
<1> reply' = [reply EXCEPT ![c] = @ \cup {c}]
  BY <1>1
<1> HIDE DEF Reply
<1> UNCHANGED <<faults, counterVars, diffVars, table, unread, threadVars>> /\ pc[t] = "reply"
  BY DEF Reply
<1>2. SfTypeOK'
  <2> reply' \in [Conns -> SUBSET (Conns \cup {NoConn})]
    BY <1>1 DEF SfTypeOK
  <2> QED
    BY DEF SfTypeOK
<1>3. Names'
  BY DEF Names, OwnFiles, Named
<1>4. Serves'
  BY DEF Serves, Holders
<1>5. Writes'
  <2>1. \A d \in Conns : reply'[d] = IF d = c THEN reply[d] \cup {c} ELSE reply[d]
    BY DEF SfTypeOK
  <2>2. \A s \in Threads : pc[s] = "close" => got[s] \in Conns
    BY DEF Serves, Holders
  <2> QED
    BY <1>1, <2>1, <2>2 DEF Writes, OwnReply
<1> QED
  BY <1>2, <1>3, <1>4, <1>5 DEF SfInv

LEMMA CloseStep == ASSUME SfInv, NEW t \in Threads, Close(t) PROVE SfInv'
<1> USE DEF Close, counterVars, diffVars
<1> SfTypeOK /\ Names /\ Serves /\ Writes /\ DOMAIN pc = Threads
  BY DEF SfInv
<1> DOMAIN pc' = Threads /\ \A s \in Threads : pc'[s] = IF s = t THEN Return ELSE pc[s]
  BY DEF Goto
<1>1. SfTypeOK'
  BY StartAssumption DEF SfTypeOK
<1>2. Names'
  BY StartAssumption DEF Names, OwnFiles, Named
<1>3. Serves'
  <2>1. \A s \in Holders' : s \in Holders /\ s # t
    BY StartAssumption DEF Holders
  <2>2. \A s \in Holders' : newsockfd[s] # newsockfd[t]
    BY <2>1 DEF Serves, Holders
  <2>3. \A s \in Holders' : newsockfd[s] \in Fds /\ table'[newsockfd[s]] = table[newsockfd[s]]
    BY <2>1, <2>2 DEF Serves, SfTypeOK
  <2> QED
    BY <2>1, <2>3 DEF Serves
<1>4. Writes'
  <2>1. \A s \in Threads : s # t /\ pc[s] \in {"diff", "diffread", "reply"} => j[s] # j[t]
    BY DEF Names, OwnFiles, Named
  <2>2. \A n \in Numbers : output'[n] = IF n = j[t] THEN NoConn ELSE output[n]
    BY DEF SfTypeOK
  <2>3. \A s \in Threads : j[s] \in Numbers
    BY DEF SfTypeOK
  <2> QED
    BY <2>1, <2>2, <2>3, StartAssumption DEF Writes, OwnReply
<1> QED
  BY <1>1, <1>2, <1>3, <1>4 DEF SfInv

LEMMA SfStep ==
  ASSUME SfInv, NEW t \in Threads, StartFunctionStep(t), LeaveCount(t) => i' \in Numbers
  PROVE  SfInv'
BY EnterCountStep, LeaveCountStep, ReceiveStep, ReceivePartStep, GradeStep, DiffEnterStep,
   DiffReadStep, DiffReadFailsStep, ReplyStep, CloseStep DEF StartFunctionStep

(* Where a step of start_function leads.                                   *)
LEMMA StaysInside ==
  ASSUME NEW t \in Threads, StartFunctionStep(t)
  PROVE  pc' = pc \/ \E label \in Labels \cup {Return} : Goto(t, label)
  BY DEF StartFunctionStep, EnterCount, LeaveCount, Receive, ReceivePart, Grade, DiffEnter,
         DiffRead, DiffReadFails, Reply, Close

(* It keeps its descriptor, and frees no other.                            *)
LEMMA SfEffect ==
  ASSUME SfInv, NEW t \in Threads, StartFunctionStep(t)
  PROVE  /\ pc[t] \in Labels
         /\ newsockfd' = newsockfd
         /\ \A f \in Fds : f # newsockfd[t] \/ ~Close(t) => table'[f] = table[f]
<1> table \in [Fds -> Conns \cup {NoConn}]
  BY DEF SfInv, SfTypeOK
<1>1. CASE Close(t)
  BY <1>1 DEF Close
<1>2. CASE ReceivePart(t)
  BY <1>2 DEF ReceivePart, threadVars
<1>3. CASE ~Close(t) /\ ~ReceivePart(t)
  BY <1>3 DEF StartFunctionStep, EnterCount, LeaveCount, Receive, Grade, DiffEnter, DiffRead,
              DiffReadFails, Reply, clientVars, threadVars
<1> QED
  BY <1>1, <1>2, <1>3

-----------------------------------------------------------------------------
(* The steps around it.                                                    *)

LEMMA SfStart ==
  ASSUME NEW label, label \notin Labels, SfInit(label)
  PROVE  SfInv
<1> USE StartAssumption DEF SfInit
<1>1. SfTypeOK
  BY DEF SfTypeOK, Numbers
<1>2. Names
  BY DEF Names, OwnFiles, Named
<1>3. Serves
  BY DEF Serves, Holders
<1>4. Writes
  BY DEF Writes, OwnReply
<1> QED
  BY <1>1, <1>2, <1>3, <1>4 DEF SfInv

(* A step elsewhere.                                                       *)
LEMMA SfSame == SfInv /\ UNCHANGED sfVars => SfInv'
  BY DEF SfInv, SfTypeOK, Names, Serves, Writes, OwnFiles, Named, Holders, OwnReply, sfVars,
         counterVars, diffVars, clientVars, threadVars

(* accept puts a connection on a free descriptor, on which nobody works.   *)
LEMMA SfAccept ==
  ASSUME SfInv, NEW c \in Conns, FreeFds # {},
         table' = [table EXCEPT ![LowestFree] = c],
         UNCHANGED <<faults, counterVars, diffVars, unread, reply, pc, threadVars>>
  PROVE  SfInv' /\ LowestFree \in Fds /\ table[LowestFree] = NoConn
<1> USE DEF counterVars, diffVars, threadVars
<1> SfTypeOK /\ Names /\ Serves /\ Writes /\ DOMAIN pc = Threads
  BY DEF SfInv
<1> DEFINE f == LowestFree
<1>1. f \in Fds /\ table[f] = NoConn
  BY LowestIsFree DEF FreeFds
<1> HIDE DEF f
<1> table' = [table EXCEPT ![f] = c]
  BY DEF f
<1>2. SfTypeOK'
  <2> table' \in [Fds -> Conns \cup {NoConn}]
    BY <1>1 DEF SfTypeOK
  <2> QED
    BY DEF SfTypeOK
<1>3. Names'
  BY DEF Names, OwnFiles, Named
<1>4. Serves'
  <2>1. \A s \in Holders : newsockfd[s] \in Fds /\ newsockfd[s] # f
    BY <1>1, StartAssumption DEF Serves
  <2>2. \A g \in Fds : g # f => table'[g] = table[g]
    BY DEF SfTypeOK
  <2> QED
    BY <2>1, <2>2 DEF Serves, Holders
<1>5. Writes'
  BY DEF Writes, OwnReply
<1> QED
  BY <1>1, <1>2, <1>3, <1>4, <1>5 DEF SfInv, f

(* A thread outside start_function comes nearer, or enters it.             *)
LEMMA SfMove ==
  ASSUME SfInv, NEW t \in Threads, pc[t] \notin Labels,
         NEW label, label \notin Labels \ {"count"}, Goto(t, label),
         newsockfd' \in [Threads -> Fds \cup {BadFd}],
         \A s \in Threads : s # t => newsockfd'[s] = newsockfd[s],
         UNCHANGED <<faults, counterVars, diffVars, clientVars, j, got, output>>
  PROVE  SfInv'
<1> USE DEF counterVars, diffVars, clientVars
<1> SfTypeOK /\ Names /\ Serves /\ Writes /\ DOMAIN pc = Threads
  BY DEF SfInv
<1> DOMAIN pc' = Threads /\ \A s \in Threads : pc'[s] = IF s = t THEN label ELSE pc[s]
  BY DEF Goto
<1>1. SfTypeOK'
  BY DEF SfTypeOK
<1>2. Names'
  BY DEF Names, OwnFiles, Named
<1>3. Serves'
  <2> \A s \in Holders' : s \in Holders /\ s # t /\ s \in Threads
    BY DEF Holders
  <2> QED
    BY DEF Serves
<1>4. Writes'
  BY DEF Writes, OwnReply
<1> QED
  BY <1>1, <1>2, <1>3, <1>4 DEF SfInv

=============================================================================
