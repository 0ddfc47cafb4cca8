--------------------------- MODULE ConnPoolProofs ---------------------------
(***************************************************************************)
(* Proofs about the Ver3 server, for any number of workers, connections    *)
(* and descriptors and every size of the queue: what the ring, the counter *)
(* and start_function keep, put together.                                  *)
(***************************************************************************)
EXTENDS ConnPool, RingQueueProofs, StartFunctionProofs, FiniteSetTheorems

(* Every connection accepted and every failure of accept is in main, in    *)
(* the queue, or with a worker that will take a number, or has taken one;  *)
(* so the numbers do not run out.                                          *)
Counting == {w \in Threads : pc[w] \in {"count", "counted"}}

NumbersLast ==
  /\ failures <= MaxAccepts - Cardinality(Conns)
  /\ i + Cardinality(Counting) + Length + (IF main_pc = "insert" THEN 1 ELSE 0)
       = Cardinality(accepted) + failures

(* Who sleeps is where pthread_cond_wait is called.                        *)
Sleepers ==
  /\ \A w \in Asleep : pc[w] = "wait"
  /\ Main \in waiting => main_pc = "insert"

(* What main is about to queue is open.                                    *)
MainOwns == main_pc = "insert" /\ main_fd # BadFd => SocketOf(main_fd) # NoConn

(* The inductive invariant.                                                *)
PInv == PoolAgrees /\ SfInv /\ NumbersLast /\ Sleepers /\ MainOwns /\ OneOwner

LEMMA Apart ==
  /\ Main \notin Threads /\ Items = Fds \cup {BadFd} /\ Return = "idle"
  /\ "idle" \notin Labels /\ "wait" \notin Labels
  /\ BadFd \notin Fds
  BY ConnPoolAssumption, StartAssumption DEF BadFd, Labels

LEMMA Finite ==
  /\ IsFiniteSet(Threads) /\ IsFiniteSet(Conns)
  /\ \A A \in SUBSET Threads : IsFiniteSet(A) /\ Cardinality(A) \in Nat
  /\ \A A \in SUBSET Conns : /\ IsFiniteSet(A) /\ Cardinality(A) \in Nat
                             /\ Cardinality(A) <= Cardinality(Conns)
<1>1. IsFiniteSet(Threads) /\ IsFiniteSet(Conns)
  BY ConnPoolAssumption, StartAssumption
<1> QED
  BY <1>1, FS_Subset, FS_CardinalityType

LEMMA Parts == PInv => /\ TypeOK /\ RingTypeOK /\ SfTypeOK /\ CountAgrees /\ NoIdleSleeper
                       /\ SfInv /\ NumbersLast /\ Sleepers /\ MainOwns /\ OneOwner
  BY DEF PInv, PoolAgrees, TypeOK

-----------------------------------------------------------------------------
(* The line.                                                               *)

LEMMA LineType ==
  ASSUME RingTypeOK
  PROVE  /\ Length \in 0 .. QUEUE_SIZE - 1
         /\ Contents \in Seq(Items \cup {NoItem})
         /\ Len(Contents) = Length
  BY LengthBounds, ContentsType DEF RingTypeOK, Rings, Length, Contents

LEMMA PutAppends ==
  ASSUME PInv, NEW x \in Items, ~IsFull, Put(x)
  PROVE  /\ RingTypeOK'
         /\ no_req' = no_req + 1
         /\ Length' = Length + 1
         /\ Contents' = Append(Contents, x)
         /\ Signal
  BY InsertStep, Parts DEF Put

LEMMA TakeTails ==
  ASSUME PInv, no_req > 0, NEW x, Take(x)
  PROVE  /\ RingTypeOK'
         /\ no_req' = no_req - 1
         /\ Length' = Length - 1
         /\ Contents # <<>>
         /\ x = Head(Contents)
         /\ Contents' = Tail(Contents)
         /\ Signal
<1>1. ~IsEmpty
  BY LengthBounds, Parts DEF RingTypeOK, CountAgrees, IsEmpty, Length
<1> QED
  BY <1>1, DeleteStep, Parts DEF Take

(* A step that leaves the ring alone leaves the line alone.                *)
LEMMA SameLine ==
  ASSUME UNCHANGED <<front, rear, queue>>
  PROVE  Length' = Length /\ Contents' = Contents /\ (RingTypeOK => RingTypeOK')
  BY DEF Length, Contents, RingTypeOK

(* The descriptors in a line, none of them twice.                          *)
Lined(s) == {s[k] : k \in 1 .. Len(s)} \ {BadFd}
Distinct(s) == \A k, l \in 1 .. Len(s) : s[k] # BadFd /\ s[k] = s[l] => k = l

LEMMA AppendLined ==
  ASSUME NEW S, NEW s \in Seq(S), NEW x \in S, Distinct(s), x \notin Lined(s)
  PROVE  /\ Lined(Append(s, x)) = Lined(s) \cup ({x} \ {BadFd})
         /\ Distinct(Append(s, x))
<1> DEFINE t == Append(s, x)
           n == Len(s)
<1>1. /\ n \in Nat /\ Len(t) = n + 1
      /\ t[n + 1] = x
      /\ \A k \in 1 .. n : t[k] = s[k]
  OBVIOUS
<1> HIDE DEF t, n
<1>2. /\ 1 .. Len(t) = (1 .. n) \cup {n + 1}
      /\ \A k \in 1 .. n : k # n + 1
  BY <1>1
<1>3. Lined(t) = Lined(s) \cup ({x} \ {BadFd})
  BY <1>1, <1>2 DEF Lined, n
<1>4. Distinct(t)
  BY <1>1, <1>2 DEF Distinct, Lined, n
<1> QED
  BY <1>3, <1>4 DEF t

LEMMA TailLined ==
  ASSUME NEW S, NEW s \in Seq(S), s # <<>>, Distinct(s)
  PROVE  /\ Head(s) \in Lined(s) \cup {BadFd}
         /\ Lined(Tail(s)) = Lined(s) \ {Head(s)}
         /\ Distinct(Tail(s))
<1> DEFINE t == Tail(s)
           n == Len(s)
<1>1. /\ n \in Nat /\ n >= 1 /\ Len(t) = n - 1
      /\ \A k \in 1 .. n - 1 : t[k] = s[k + 1]
      /\ Head(s) = s[1]
  OBVIOUS
<1> HIDE DEF t, n
<1>2. 1 \in 1 .. n /\ \A k \in 1 .. n - 1 : k + 1 \in 1 .. n /\ k + 1 # 1
  BY <1>1
<1>3. Head(s) \in Lined(s) \cup {BadFd}
  BY <1>1, <1>2 DEF Lined, n
<1>4. Lined(t) \subseteq Lined(s) \ {Head(s)}
  BY <1>1, <1>2 DEF Lined, Distinct, n
<1>5. ASSUME NEW y \in Lined(s), y # Head(s)
      PROVE  y \in Lined(t)
  <2>1. PICK k \in 1 .. n : y = s[k] /\ y # BadFd
    BY DEF Lined, n
  <2>2. k - 1 \in 1 .. n - 1 /\ (k - 1) + 1 = k
    BY <1>1, <1>5, <2>1
  <2>3. t[k - 1] = s[(k - 1) + 1]
    BY <1>1, <2>2
  <2> QED
    BY <1>1, <2>1, <2>2, <2>3 DEF Lined
<1>6. Distinct(t)
  <2> SUFFICES ASSUME NEW k \in 1 .. n - 1, NEW l \in 1 .. n - 1, t[k] # BadFd, t[k] = t[l]
               PROVE  k = l
    BY <1>1 DEF Distinct
  <2>1. s[k + 1] = s[l + 1] /\ s[k + 1] # BadFd
    BY <1>1
  <2>2. k + 1 = l + 1
    BY <1>2, <2>1 DEF Distinct, n
  <2> QED
    BY <2>2
<1> QED
  BY <1>3, <1>4, <1>5, <1>6 DEF t

(* OneOwner in these terms.                                                *)
Owned ==
  /\ Distinct(Contents)
  /\ \A f \in Lined(Contents) : SocketOf(f) # NoConn
  /\ \A w \in Held : SocketOf(newsockfd[w]) # NoConn /\ newsockfd[w] \notin Lined(Contents)
  /\ \A v, w \in Held : newsockfd[v] = newsockfd[w] => v = w
  /\ main_pc = "insert" /\ main_fd # BadFd =>
       /\ SocketOf(main_fd) # NoConn
       /\ main_fd \notin Lined(Contents)
       /\ \A w \in Held : newsockfd[w] # main_fd

LEMMA OwnerShape ==
  ASSUME RingTypeOK
  PROVE  OneOwner /\ MainOwns <=> Owned
<1>1. Len(Contents) = Length
  BY LineType
<1>2. Lined(Contents) = {Contents[k] : k \in Queued}
  BY <1>1 DEF Lined, Queued
<1>3. Distinct(Contents) <=> \A k, l \in Queued : Contents[k] = Contents[l] => k = l
  BY <1>1 DEF Distinct, Queued
<1> QED
  BY <1>2, <1>3 DEF OneOwner, Owned, MainOwns

LEMMA Gather ==
  ASSUME TypeOK', SfInv', CountAgrees', NoIdleSleeper', NumbersLast', Sleepers', Owned'
  PROVE  PInv'
<1>1. RingTypeOK'
  BY DEF TypeOK
<1>2. (RingTypeOK => (OneOwner /\ MainOwns <=> Owned))'
  BY OwnerShape, PTL
<1> QED
  BY <1>1, <1>2 DEF PInv, PoolAgrees

-----------------------------------------------------------------------------
(* What most steps leave alone.                                            *)

LEMMA ReadyType ==
  /\ Ready \in SUBSET Threads /\ IsFiniteSet(Ready) /\ Cardinality(Ready) \in Nat
<1>1. Ready \in SUBSET Threads
  BY DEF Ready
<1> QED
  BY <1>1, Finite

LEMMA MoreReady ==
  ASSUME NEW A \in SUBSET Threads, NEW B \in SUBSET Threads, A \subseteq B
  PROVE  /\ Cardinality(A) <= Cardinality(B)
         /\ Cardinality(A) \in Nat /\ Cardinality(B) \in Nat
<1>1. IsFiniteSet(A) /\ IsFiniteSet(B)
  BY Finite
<1> QED
  BY <1>1, FS_Subset, FS_CardinalityType

LEMMA IdleFrame ==
  ASSUME PInv, no_req' = no_req, Ready \subseteq Ready', Asleep' \subseteq Asleep
  PROVE  NoIdleSleeper'
<1>1. Ready \in SUBSET Threads /\ Ready' \in SUBSET Threads
  BY DEF Ready
<1>2. /\ Cardinality(Ready) <= Cardinality(Ready')
      /\ Cardinality(Ready) \in Nat /\ Cardinality(Ready') \in Nat
  BY <1>1, MoreReady
<1>3. no_req \in Int /\ NoIdleSleeper
  BY Parts DEF TypeOK
<1> QED
  BY <1>2, <1>3 DEF NoIdleSleeper

(* Fewer descriptors are held, and those that matter stay open.            *)
LEMMA OwnerFrame ==
  ASSUME PInv, UNCHANGED <<main_pc, main_fd>>, Contents' = Contents, Held' \subseteq Held,
         \A w \in Held' : newsockfd'[w] = newsockfd[w],
         \A f \in Fds : /\ \/ f \in Lined(Contents)
                           \/ \E w \in Held' : f = newsockfd[w]
                           \/ main_pc = "insert" /\ f = main_fd
                        /\ table[f] # NoConn
                        => table'[f] # NoConn
  PROVE  Owned'
<1>1. Owned
  BY Parts, OwnerShape
<1>2. Lined(Contents)' = Lined(Contents)
  BY DEF Lined
<1>3. Distinct(Contents)'
  BY <1>1 DEF Owned, Distinct
<1>4. \A f \in Lined(Contents) : SocketOf(f)' # NoConn
  BY <1>1 DEF Owned, SocketOf
<1>5. \A w \in Held' : /\ SocketOf(newsockfd[w])' # NoConn
                       /\ newsockfd'[w] \notin Lined(Contents)
  BY <1>1 DEF Owned, SocketOf
<1>6. \A v, w \in Held' : newsockfd'[v] = newsockfd'[w] => v = w
  BY <1>1 DEF Owned
<1>7. (main_pc = "insert" /\ main_fd # BadFd =>
         /\ SocketOf(main_fd) # NoConn
         /\ main_fd \notin Lined(Contents)
         /\ \A w \in Held : newsockfd[w] # main_fd)'
  BY <1>1, <1>2 DEF Owned, SocketOf
<1> QED
  BY <1>2, <1>3, <1>4, <1>5, <1>6, <1>7 DEF Owned

-----------------------------------------------------------------------------
(* main.                                                                   *)

LEMMA PInvInit == Init => PInv
<1> SUFFICES ASSUME Init PROVE PInv
  OBVIOUS
<1> USE DEF Init
<1>1. SfInit("idle")
  OBVIOUS
<1>2. SfInv
  BY <1>1, SfStart, Apart
<1>3. RingTypeOK /\ Length = 0 /\ Contents = <<>> /\ no_req = 0 /\ waiting = {}
  BY InitEmpty DEF ReadyInit
<1>4. TypeOK
  BY <1>1, <1>2, <1>3 DEF TypeOK, SfInv, SfInit
<1>5. Asleep = {} /\ Counting = {} /\ Held = {}
  BY <1>1, <1>3, Apart DEF Asleep, Counting, Held, Serving, SfInit
<1>6. CountAgrees /\ NoIdleSleeper /\ Sleepers
  BY <1>3, <1>5, Apart DEF CountAgrees, NoIdleSleeper, Sleepers
<1>7. NumbersLast
  <2>1. Cardinality({}) = 0
    BY FS_EmptySet
  <2>2. i = 0 /\ MaxAccepts \in Nat /\ Cardinality(Conns) \in Nat
    BY <1>1, Finite, StartAssumption DEF SfInit
  <2> QED
    BY <1>3, <1>5, <2>1, <2>2, ConnPoolAssumption DEF NumbersLast
<1>8. Len(Contents) = 0
  BY <1>3
<1>9. Distinct(Contents) /\ Lined(Contents) = {}
  BY <1>8 DEF Distinct, Lined
<1>10. Owned
  BY <1>5, <1>9 DEF Owned
<1>11. OneOwner /\ MainOwns
  BY <1>3, <1>10, OwnerShape
<1> QED
  BY <1>2, <1>4, <1>6, <1>7, <1>11 DEF PInv, PoolAgrees

LEMMA AcceptStep == ASSUME PInv, NEW c \in Conns, Accept(c) PROVE PInv'
<1> USE Parts DEF Accept
<1>1. SfInv' /\ LowestFree \in Fds /\ table[LowestFree] = NoConn
  BY SfAccept
<1>2. PICK f \in Fds : f = LowestFree /\ table[f] = NoConn
  BY <1>1
<1>3. /\ main_fd' = f /\ table' = [table EXCEPT ![f] = c]
      /\ UNCHANGED <<front, rear, queue, no_req, waiting, pc, newsockfd, i, failures>>
      /\ main_pc = "accept" /\ main_pc' = "insert"
      /\ accepted' = accepted \cup {c}
  BY <1>2 DEF readyVars, counterVars, threadVars
<1> HIDE DEF Accept
<1>4. Length' = Length /\ Contents' = Contents /\ RingTypeOK'
  BY <1>3, SameLine
<1>5. TypeOK'
  BY <1>1, <1>2, <1>3, <1>4 DEF TypeOK, SfInv
<1>6. CountAgrees'
  BY <1>3, <1>4 DEF CountAgrees
<1>7. NoIdleSleeper' /\ Sleepers'
  BY <1>3 DEF NoIdleSleeper, Asleep, Ready, Serving, Sleepers
<1>8. NumbersLast'
  <2>1. Counting' = Counting /\ Cardinality(Counting) \in Nat
    BY <1>3, Finite DEF Counting
  <2>2. c \notin accepted /\ accepted \subseteq Conns
    BY StartAssumption DEF Accept, TypeOK
  <2>3. Cardinality(accepted') = Cardinality(accepted) + 1 /\ Cardinality(accepted) \in Nat
    BY <1>3, <2>2, Finite, FS_AddElement, FS_Subset, FS_CardinalityType
  <2>4. i \in Nat /\ failures \in Nat /\ Length \in Nat
    BY LineType, QueueAssumption DEF SfTypeOK, TypeOK, Numbers
  <2> QED
    BY <1>3, <1>4, <2>1, <2>3, <2>4 DEF NumbersLast
<1>9. Owned'
  <2>1. Owned
    BY OwnerShape
  <2>2. Held' = Held /\ Lined(Contents)' = Lined(Contents)
    BY <1>3, <1>4 DEF Held, Serving, Lined
  <2>3. SocketOf(f) = NoConn
    BY <1>2 DEF SocketOf
  <2>4. f \notin Lined(Contents) /\ \A w \in Held : newsockfd[w] # f
    BY <2>1, <2>3 DEF Owned
  <2>5. \A g : g # f => SocketOf(g)' = SocketOf(g)
    BY <1>2, <1>3 DEF SocketOf, SfTypeOK
  <2>6. SocketOf(f)' # NoConn
    BY <1>2, <1>3, StartAssumption DEF SocketOf, SfTypeOK
  <2>7. Distinct(Contents)'
    BY <1>4, <2>1 DEF Owned, Distinct
  <2>8. SocketOf(main_fd)' # NoConn
    BY <1>3, <2>6 DEF SocketOf
  <2> QED
    BY <1>3, <2>1, <2>2, <2>4, <2>5, <2>7, <2>8 DEF Owned
<1> QED
  BY <1>1, <1>5, <1>6, <1>7, <1>8, <1>9, Gather

LEMMA AcceptFailsStep == ASSUME PInv, AcceptFails PROVE PInv'
<1> USE Parts
<1>1. /\ UNCHANGED <<front, rear, queue, no_req, waiting, pc, newsockfd, i, table, accepted>>
      /\ main_pc = "accept" /\ main_pc' = "insert"
      /\ main_fd' = BadFd
      /\ failures < MaxAccepts - Cardinality(Conns) /\ failures' = failures + 1
  BY DEF AcceptFails, readyVars, sfVars, counterVars, threadVars, clientVars
<1>2. SfInv'
  BY SfSame DEF AcceptFails
<1>3. Length' = Length /\ Contents' = Contents /\ RingTypeOK'
  BY <1>1, SameLine
<1>4. TypeOK'
  BY <1>1, <1>2, <1>3 DEF TypeOK, SfInv
<1>5. CountAgrees'
  BY <1>1, <1>3 DEF CountAgrees
<1>6. NoIdleSleeper' /\ Sleepers'
  BY <1>1 DEF NoIdleSleeper, Asleep, Ready, Serving, Sleepers
<1>7. NumbersLast'
  <2>1. Counting' = Counting /\ Cardinality(Counting) \in Nat
    BY <1>1, Finite DEF Counting
  <2>2. i \in Nat /\ failures \in Nat /\ Length \in Nat
    BY LineType, QueueAssumption DEF SfTypeOK, TypeOK, Numbers
  <2>3. Cardinality(accepted) \in Nat /\ Cardinality(Conns) \in Nat /\ MaxAccepts \in Nat
    BY Finite, StartAssumption DEF TypeOK
  <2> QED
    BY <1>1, <1>3, <2>1, <2>2, <2>3 DEF NumbersLast
<1>8. Owned'
  <2>1. Owned
    BY OwnerShape
  <2>2. /\ Held' = Held /\ Lined(Contents)' = Lined(Contents)
        /\ Distinct(Contents)' = Distinct(Contents)
    BY <1>1, <1>3 DEF Held, Serving, Lined, Distinct
  <2> QED
    BY <1>1, <2>1, <2>2 DEF Owned, SocketOf
<1> QED
  BY <1>2, <1>4, <1>5, <1>6, <1>7, <1>8, Gather

(* Sleeping and waking change who sleeps and nothing else.                 *)
LEMMA SleepStep ==
  ASSUME PInv, UNCHANGED <<front, rear, queue, no_req, sfVars, mainVars>>,
         waiting' \subseteq waiting \cup {Main}, Main \in waiting' => main_pc = "insert"
  PROVE  PInv'
<1> USE Parts DEF mainVars
<1>1. UNCHANGED <<pc, newsockfd, i, table>>
  BY DEF sfVars, counterVars, threadVars, clientVars
<1>2. SfInv'
  BY SfSame
<1>3. Length' = Length /\ Contents' = Contents /\ RingTypeOK'
  BY SameLine
<1>4. TypeOK'
  BY <1>1, <1>2, <1>3 DEF TypeOK, SfInv
<1>5. CountAgrees'
  BY <1>3 DEF CountAgrees
<1>6. Asleep' \subseteq Asleep
  BY Apart DEF Asleep
<1>7. NoIdleSleeper'
  <2>1. Ready \subseteq Ready'
    BY <1>1, <1>6 DEF Ready, Serving
  <2> QED
    BY <1>6, <2>1, IdleFrame
<1>8. Sleepers'
  BY <1>1, <1>6 DEF Sleepers
<1>9. NumbersLast'
  BY <1>1, <1>3 DEF NumbersLast, Counting
<1>10. Owned'
  BY <1>1, <1>3, OwnerFrame DEF Held, Serving
<1> QED
  BY <1>2, <1>4, <1>5, <1>7, <1>8, <1>9, <1>10, Gather

LEMMA MasterInsertStep == ASSUME PInv, MasterInsert PROVE PInv'
<1> USE Parts
<1>1. /\ main_pc = "insert" /\ main_pc' = "accept" /\ Main \notin waiting
      /\ UNCHANGED <<pc, newsockfd, i, table, accepted, failures, main_fd>>
  BY DEF MasterInsert, sfVars, counterVars, threadVars, clientVars
<1>2. SfInv'
  BY SfSame DEF MasterInsert
<1>3. main_fd \in Items /\ main_fd \in Fds \cup {BadFd}
  BY Apart DEF TypeOK
<1>4. /\ RingTypeOK'
      /\ no_req' = no_req + 1 /\ Length' = Length + 1
      /\ Contents' = Append(Contents, main_fd)
      /\ Signal
  BY <1>3, PutAppends DEF MasterInsert
<1>5. waiting' \subseteq waiting
  BY <1>4 DEF Signal
<1>6. TypeOK'
  BY <1>1, <1>2, <1>4, <1>5 DEF TypeOK, SfInv
<1>7. CountAgrees'
  BY <1>4 DEF CountAgrees
<1>8. NoIdleSleeper'
  <2> SUFFICES ASSUME Asleep' # {} PROVE no_req' <= Cardinality(Ready')
    BY DEF NoIdleSleeper
  <2>1. waiting # {}
    BY <1>5 DEF Asleep
  <2>2. PICK t \in waiting : waiting' = waiting \ {t}
    BY <1>4, <2>1 DEF Signal
  <2>3. t \in Asleep /\ pc[t] = "wait"
    BY <1>1, <2>2 DEF Asleep, TypeOK, Sleepers
  <2>4. Serving' = Serving /\ t \notin Serving
    BY <1>1, <2>3, Apart DEF Serving
  <2>5. Ready' = Ready \cup {t} /\ t \notin Ready
    BY <2>2, <2>3, <2>4 DEF Ready, Asleep
  <2>6. Cardinality(Ready') = Cardinality(Ready) + 1
    BY <2>5, ReadyType, FS_AddElement
  <2>7. no_req <= Cardinality(Ready)
    BY <2>3 DEF NoIdleSleeper
  <2>8. no_req \in Int
    BY DEF TypeOK
  <2> QED
    BY <1>4, <2>6, <2>7, <2>8, ReadyType
<1>9. Sleepers'
  BY <1>1, <1>5 DEF Sleepers, Asleep
<1>10. NumbersLast'
  <2>1. Counting' = Counting /\ Cardinality(Counting) \in Nat
    BY <1>1, Finite DEF Counting
  <2>2. i \in Nat /\ Length \in Nat
    BY LineType, QueueAssumption DEF SfTypeOK, Numbers
  <2> QED
    BY <1>1, <1>4, <2>1, <2>2 DEF NumbersLast
<1>11. Owned'
  <2>1. Owned
    BY OwnerShape
  <2>2. Held' = Held
    BY <1>1 DEF Held, Serving
  <2>3. Contents \in Seq(Items \cup {NoItem})
    BY LineType
  <2>4. main_fd \notin Lined(Contents)
    BY <1>1, <2>1 DEF Owned, Lined
  <2>5. /\ Lined(Contents') = Lined(Contents) \cup ({main_fd} \ {BadFd})
        /\ Distinct(Contents')
    BY <1>3, <1>4, <2>1, <2>3, <2>4, AppendLined DEF Owned
  <2>6. \A f : SocketOf(f)' = SocketOf(f)
    BY <1>1 DEF SocketOf
  <2>7. \A f \in Lined(Contents') : SocketOf(f) # NoConn
    BY <1>1, <2>1, <2>5 DEF Owned
  <2>8. \A w \in Held : SocketOf(newsockfd[w]) # NoConn /\ newsockfd[w] \notin Lined(Contents')
    BY <1>1, <2>1, <2>5 DEF Owned
  <2>9. \A v, w \in Held : newsockfd[v] = newsockfd[w] => v = w
    BY <2>1 DEF Owned
  <2>10. \A w \in Held' : SocketOf(newsockfd[w])' # NoConn /\ newsockfd'[w] \notin Lined(Contents')
    BY <1>1, <2>2, <2>8 DEF SocketOf
  <2> QED
    BY <1>1, <2>2, <2>5, <2>6, <2>7, <2>9, <2>10 DEF Owned
<1> QED
  BY <1>2, <1>6, <1>7, <1>8, <1>9, <1>10, <1>11, Gather

-----------------------------------------------------------------------------
(* The workers.                                                            *)

(* Going to sleep, or back to the head of the loop.                        *)
LEMMA WorkerRestStep ==
  ASSUME PInv, NEW w \in Threads, WorkerWait(w) \/ WorkerWake(w)
  PROVE  PInv'
<1> USE Parts DEF mainVars, readyVars
<1>1. PICK label \in {"idle", "wait"} : Goto(w, label) /\ (WorkerWait(w) => label = "wait")
  BY DEF WorkerWait, WorkerWake
<1>2. /\ pc[w] \in {"idle", "wait"} /\ no_req = 0
      /\ UNCHANGED <<front, rear, queue, no_req, mainVars>>
      /\ UNCHANGED <<faults, counterVars, diffVars, clientVars, threadVars>>
      /\ \/ WorkerWait(w) /\ waiting' = waiting \cup {w}
         \/ w \notin waiting /\ waiting' = waiting
  BY DEF WorkerWait, WorkerWake, CondWait
<1>3. UNCHANGED <<newsockfd, i, table, j, got, output>>
  BY <1>2 DEF counterVars, threadVars, clientVars
<1>4. \A v \in Threads : pc'[v] = IF v = w THEN label ELSE pc[v]
  BY <1>1 DEF Goto, TypeOK
<1>5. SfInv'
  <2>1. /\ pc[w] \notin Labels /\ label \notin Labels \ {"count"}
        /\ newsockfd' \in [Threads -> Fds \cup {BadFd}]
        /\ \A s \in Threads : s # w => newsockfd'[s] = newsockfd[s]
    BY <1>2, <1>3, Apart DEF SfTypeOK
  <2> QED
    BY <1>1, <1>2, <1>3, <2>1, SfMove
<1>6. Length' = Length /\ Contents' = Contents /\ RingTypeOK'
  BY <1>2, SameLine
<1>7. TypeOK'
  <2>1. pc' \in [Threads -> Labels \cup {"idle", "wait"}]
    BY <1>1 DEF Goto, TypeOK
  <2>2. waiting' \subseteq Threads \cup {Main}
    BY <1>2 DEF TypeOK
  <2> QED
    BY <1>2, <1>5, <1>6, <2>1, <2>2 DEF TypeOK, SfInv
<1>8. CountAgrees'
  BY <1>2, <1>6 DEF CountAgrees
<1>9. NoIdleSleeper'
  <2>1. Ready' \in SUBSET Threads
    BY DEF Ready
  <2>2. Cardinality(Ready') \in Nat
    BY <2>1, Finite
  <2> QED
    BY <1>2, <2>2 DEF NoIdleSleeper
<1>10. Sleepers'
  BY <1>1, <1>2, <1>4, Apart DEF Sleepers, Asleep
<1>11. Counting' = Counting /\ Held' = Held
  BY <1>2, <1>3, <1>4, Apart DEF Counting, Held, Serving
<1>12. NumbersLast'
  BY <1>2, <1>3, <1>6, <1>11 DEF NumbersLast
<1>13. Owned'
  BY <1>2, <1>3, <1>6, <1>11, OwnerFrame
<1> QED
  BY <1>5, <1>7, <1>8, <1>9, <1>10, <1>12, <1>13, Gather

LEMMA WorkerTakeStep == ASSUME PInv, NEW w \in Threads, WorkerTake(w) PROVE PInv'
<1> USE Parts
<1>1. PICK x \in Items \cup {NoItem} :
        Take(x) /\ newsockfd' = [newsockfd EXCEPT ![w] = x]
  BY DEF WorkerTake
<1>2. /\ pc[w] \in {"idle", "wait"} /\ w \notin waiting /\ no_req > 0
      /\ Goto(w, "count")
      /\ UNCHANGED <<faults, counterVars, diffVars, clientVars, j, got, output, mainVars>>
      /\ UNCHANGED <<i, table, main_pc, main_fd, accepted, failures>>
  BY DEF WorkerTake, counterVars, clientVars, mainVars
<1>3. /\ RingTypeOK'
      /\ no_req' = no_req - 1 /\ Length' = Length - 1
      /\ Contents # <<>> /\ x = Head(Contents) /\ Contents' = Tail(Contents)
      /\ Signal
  BY <1>1, <1>2, TakeTails
<1>4. waiting' \subseteq waiting
  BY <1>3 DEF Signal
<1>5. Owned /\ Contents \in Seq(Items \cup {NoItem})
  BY OwnerShape, LineType
<1>6. /\ x \in Lined(Contents) \cup {BadFd}
      /\ Lined(Contents') = Lined(Contents) \ {x}
      /\ Distinct(Contents')
  BY <1>3, <1>5, TailLined DEF Owned
<1>7. x # BadFd => x \in Lined(Contents) /\ SocketOf(x) # NoConn
  BY <1>5, <1>6 DEF Owned
<1>8. x \in Fds \cup {BadFd}
  BY <1>7 DEF SocketOf
<1>9. /\ newsockfd' \in [Threads -> Fds \cup {BadFd}]
      /\ newsockfd'[w] = x
      /\ \A v \in Threads : v # w => newsockfd'[v] = newsockfd[v]
  BY <1>1, <1>8 DEF SfTypeOK
<1>10. /\ pc' \in [Threads -> Labels \cup {"idle", "wait"}]
       /\ \A v \in Threads : pc'[v] = IF v = w THEN "count" ELSE pc[v]
  BY <1>2 DEF Goto, TypeOK, Labels
<1>11. SfInv'
  <2>1. pc[w] \notin Labels
    BY <1>2, Apart
  <2> QED
    BY <1>2, <1>9, <2>1, SfMove
<1>12. TypeOK'
  BY <1>2, <1>3, <1>4, <1>10, <1>11 DEF TypeOK, SfInv
<1>13. CountAgrees'
  BY <1>3 DEF CountAgrees
<1>14. Serving' = Serving \cup {w} /\ w \notin Serving
  BY <1>2, <1>10, Apart DEF Serving, Labels
<1>15. NoIdleSleeper'
  <2> SUFFICES ASSUME Asleep' # {} PROVE no_req' <= Cardinality(Ready')
    BY DEF NoIdleSleeper
  <2>1. Asleep' \subseteq Asleep
    BY <1>4 DEF Asleep
  <2>2. w \in Ready /\ Ready \ {w} \subseteq Ready'
    BY <1>2, <1>14, <2>1 DEF Ready, Asleep
  <2>3. Cardinality(Ready \ {w}) = Cardinality(Ready) - 1
    BY <2>2, ReadyType, FS_RemoveElement
  <2>4. Ready \ {w} \in SUBSET Threads /\ Ready' \in SUBSET Threads
    BY DEF Ready
  <2>5. Cardinality(Ready \ {w}) <= Cardinality(Ready') /\ Cardinality(Ready') \in Nat
    BY <2>2, <2>4, MoreReady
  <2>6. no_req <= Cardinality(Ready)
    BY <2>1 DEF NoIdleSleeper
  <2>7. no_req \in Int
    BY DEF TypeOK
  <2> QED
    BY <1>3, <2>3, <2>5, <2>6, <2>7, ReadyType
<1>16. Sleepers'
  BY <1>2, <1>4, <1>10 DEF Sleepers, Asleep
<1>17. NumbersLast'
  <2>1. Counting' = Counting \cup {w} /\ w \notin Counting
    BY <1>2, <1>10 DEF Counting
  <2>2. Counting \in SUBSET Threads
    BY DEF Counting
  <2>3. IsFiniteSet(Counting) /\ Cardinality(Counting) \in Nat
    BY <2>2, Finite
  <2>4. Cardinality(Counting') = Cardinality(Counting) + 1
    BY <2>1, <2>3, FS_AddElement
  <2>5. i \in Nat /\ Length \in Nat
    BY LineType, QueueAssumption DEF SfTypeOK, Numbers
  <2> QED
    BY <1>2, <1>3, <2>3, <2>4, <2>5 DEF NumbersLast
<1>18. Owned'
  <2>1. Held' = Held \cup ({w} \ {v \in Threads : x = BadFd}) /\ w \notin Held
    BY <1>9, <1>14 DEF Held, Serving
  <2>2. \A f : SocketOf(f)' = SocketOf(f)
    BY <1>2 DEF SocketOf
  <2>3. ASSUME NEW v \in Held'
        PROVE  SocketOf(newsockfd'[v]) # NoConn /\ newsockfd'[v] \notin Lined(Contents')
    <3>1. CASE v = w
      BY <1>6, <1>7, <1>9, <2>1, <3>1
    <3>2. CASE v # w
      <4>1. v \in Held /\ newsockfd'[v] = newsockfd[v]
        BY <1>9, <2>1, <3>2 DEF Held, Serving
      <4> QED
        BY <1>5, <1>6, <4>1 DEF Owned
    <3> QED
      BY <3>1, <3>2
  <2>4. ASSUME NEW u \in Held', NEW v \in Held', newsockfd'[u] = newsockfd'[v]
        PROVE  u = v
    <3>1. \A t \in Held : newsockfd'[t] = newsockfd[t] /\ newsockfd[t] \notin Lined(Contents)
      BY <1>5, <1>9, <2>1 DEF Owned, Held, Serving
    <3>2. w \in Held' => x \in Lined(Contents)
      BY <1>7, <2>1
    <3> QED
      BY <1>5, <1>9, <2>1, <2>4, <3>1, <3>2 DEF Owned
  <2>5. main_pc = "insert" /\ main_fd # BadFd =>
          /\ SocketOf(main_fd) # NoConn
          /\ main_fd \notin Lined(Contents')
          /\ \A v \in Held' : newsockfd'[v] # main_fd
    <3>1. \A v \in Held' : v # w => v \in Held /\ newsockfd'[v] = newsockfd[v]
      BY <1>9, <2>1 DEF Held, Serving
    <3> QED
      BY <1>5, <1>6, <1>7, <1>9, <2>1, <3>1 DEF Owned
  <2>6. \A v \in Held' : SocketOf(newsockfd[v])' # NoConn
    BY <1>2, <2>3 DEF SocketOf
  <2>7. SocketOf(main_fd)' = SocketOf(main_fd)
    BY <1>2 DEF SocketOf
  <2>8. \A f \in Lined(Contents') : SocketOf(f)' # NoConn
    BY <1>5, <1>6, <2>2 DEF Owned
  <2> QED
    BY <1>2, <1>6, <2>3, <2>4, <2>5, <2>6, <2>7, <2>8 DEF Owned
<1> QED
  BY <1>11, <1>12, <1>13, <1>15, <1>16, <1>17, <1>18, Gather

(* A step of start_function: nobody but the holder closes a descriptor.    *)
LEMMA ServeStep ==
  ASSUME PInv, NEW t \in Threads, StartFunctionStep(t), UNCHANGED <<readyVars, mainVars>>
  PROVE  PInv'
<1> USE Parts
<1>1. /\ UNCHANGED <<front, rear, queue, no_req, waiting>>
      /\ UNCHANGED <<main_pc, main_fd, accepted, failures>>
  BY DEF readyVars, mainVars
<1>2. /\ pc[t] \in Labels /\ newsockfd' = newsockfd
      /\ \A f \in Fds : f # newsockfd[t] \/ ~Close(t) => table'[f] = table[f]
  BY SfEffect
<1>3. pc' = pc \/ \E label \in Labels \cup {Return} : Goto(t, label)
  BY StaysInside
<1>4. /\ pc' \in [Threads -> Labels \cup {"idle", "wait"}]
      /\ \A v \in Threads : v # t => pc'[v] = pc[v]
      /\ Serving' \subseteq Serving
  <2>1. /\ pc' \in [Threads -> Labels \cup {"idle", "wait"}]
        /\ \A v \in Threads : v # t => pc'[v] = pc[v]
    BY <1>3, Apart DEF Goto, TypeOK
  <2> QED
    BY <1>2, <2>1 DEF Serving
<1>5. Length' = Length /\ Contents' = Contents /\ RingTypeOK'
  BY <1>1, SameLine
<1>6. NumbersLast' /\ (LeaveCount(t) => i' \in Numbers)
  <2>1. Counting \in SUBSET Threads
    BY DEF Counting
  <2>2. /\ IsFiniteSet(Counting) /\ Cardinality(Counting) \in Nat
        /\ i \in Nat /\ Length \in Nat /\ failures \in Nat
        /\ Cardinality(accepted) \in Nat /\ Cardinality(accepted) <= Cardinality(Conns)
        /\ Cardinality(Conns) \in Nat /\ MaxAccepts \in Nat
    BY <2>1, Finite, LineType, QueueAssumption, StartAssumption DEF SfTypeOK, TypeOK, Numbers
  <2>3. CASE LeaveCount(t)
    <3>1. i' = i + 1 /\ pc[t] = "counted" /\ Goto(t, "receive")
      BY <2>3 DEF LeaveCount
    <3>2. pc'[t] = "receive"
      BY <3>1 DEF Goto, TypeOK
    <3>3. t \in Counting /\ Counting' = Counting \ {t}
      BY <1>4, <3>1, <3>2 DEF Counting
    <3>4. Cardinality(Counting') = Cardinality(Counting) - 1 /\ Cardinality(Counting) >= 1
      <4>1. Cardinality(Counting') = Cardinality(Counting) - 1
        BY <2>2, <3>3, FS_RemoveElement
      <4>2. Counting' \in SUBSET Threads
        BY DEF Counting
      <4>3. Cardinality(Counting') \in Nat
        BY <4>2, Finite
      <4> QED
        BY <2>2, <4>1, <4>3
    <3>5. NumbersLast'
      BY <1>1, <1>5, <2>2, <3>1, <3>4 DEF NumbersLast
    <3>6. i + 1 <= MaxAccepts
      BY <2>2, <3>4 DEF NumbersLast
    <3> QED
      BY <2>2, <3>1, <3>5, <3>6 DEF Numbers
  <2>4. CASE ~LeaveCount(t)
    <3>1. i' = i
      BY <2>4 DEF StartFunctionStep, EnterCount, Receive, ReceivePart, Grade, DiffEnter,
                  DiffRead, DiffReadFails, Reply, Close, counterVars
    <3>2. t \in Counting' <=> t \in Counting
      <4>1. \/ pc' = pc
            \/ EnterCount(t)
            \/ /\ pc[t] \notin {"count", "counted"}
               /\ \E label \in (Labels \ {"count", "counted"}) \cup {Return} : Goto(t, label)
        BY <2>4 DEF StartFunctionStep, Receive, ReceivePart, Grade, DiffEnter, DiffRead,
                    DiffReadFails, Reply, Close, threadVars, Labels
      <4>2. EnterCount(t) => pc[t] = "count" /\ pc'[t] = "counted"
        BY DEF EnterCount, Goto, TypeOK
      <4> QED
        BY <4>1, <4>2, Apart DEF Counting, Goto, TypeOK, Labels
    <3>3. Counting' = Counting
      BY <1>4, <3>2 DEF Counting
    <3> QED
      BY <1>1, <1>5, <2>4, <3>1, <3>3 DEF NumbersLast
  <2> QED
    BY <2>3, <2>4
<1>7. SfInv'
  BY <1>6, SfStep
<1>8. TypeOK'
  BY <1>1, <1>4, <1>5, <1>7 DEF TypeOK, SfInv
<1>9. CountAgrees'
  BY <1>1, <1>5 DEF CountAgrees
<1>10. Asleep' = Asleep
  BY <1>1 DEF Asleep
<1>11. NoIdleSleeper'
  <2>1. Ready \subseteq Ready'
    BY <1>4, <1>10 DEF Ready
  <2> QED
    BY <1>1, <1>10, <2>1, IdleFrame
<1>12. Sleepers'
  BY <1>1, <1>2, <1>4, <1>10, Apart DEF Sleepers, Asleep
<1>13. Owned'
  <2>1. Held' \subseteq Held
    BY <1>2, <1>4 DEF Held
  <2>2. ASSUME NEW f \in Fds, table[f] # NoConn, table'[f] = NoConn
        PROVE  /\ f = newsockfd[t] /\ t \in Held /\ t \notin Held'
    <3>1. Close(t) /\ f = newsockfd[t]
      BY <1>2, <2>2
    <3>2. pc'[t] = Return
      BY <3>1 DEF Close, Goto, TypeOK
    <3> QED
      BY <1>2, <3>1, <3>2, Apart DEF Held, Serving
  <2>3. Owned
    BY OwnerShape
  <2>4. \A f \in Fds : /\ \/ f \in Lined(Contents)
                          \/ \E w \in Held' : f = newsockfd[w]
                          \/ main_pc = "insert" /\ f = main_fd
                       /\ table[f] # NoConn
                       => table'[f] # NoConn
    BY <2>1, <2>2, <2>3, Apart DEF Owned
  <2> QED
    BY <1>1, <1>2, <1>5, <2>1, <2>4, OwnerFrame
<1> QED
  BY <1>6, <1>7, <1>8, <1>9, <1>11, <1>12, <1>13, Gather

-----------------------------------------------------------------------------
LEMMA PInvStep == PInv /\ [Next]_vars => PInv'
<1> SUFFICES ASSUME PInv, [Next]_vars PROVE PInv'
  OBVIOUS
<1>1. CASE MainStep
  <2>1. CASE MasterWait
    <3>1. waiting' = waiting \cup {Main} /\ UNCHANGED <<front, rear, queue, no_req>>
          /\ main_pc = "insert" /\ UNCHANGED <<sfVars, mainVars>>
      BY <2>1 DEF MasterWait, CondWait, mainVars
    <3> QED
      BY <3>1, SleepStep
  <2> QED
    BY <1>1, <2>1, AcceptStep, AcceptFailsStep, MasterInsertStep DEF MainStep
<1>2. ASSUME NEW w \in Threads, WorkerStep(w) PROVE PInv'
  BY <1>2, WorkerRestStep, WorkerTakeStep, ServeStep DEF WorkerStep
<1>3. CASE SpuriousWake \/ UNCHANGED vars
  <2>1. /\ waiting' \subseteq waiting
        /\ UNCHANGED <<front, rear, queue, no_req, sfVars, mainVars>>
    BY <1>3 DEF SpuriousWake, SpuriousWakeup, vars, readyVars
  <2>2. Main \in waiting' => main_pc = "insert"
    BY <2>1, Parts DEF Sleepers
  <2> QED
    BY <2>1, <2>2, SleepStep
<1> QED
  BY <1>1, <1>2, <1>3 DEF Next

(* The inductive invariant of the Ver3 server.                             *)
THEOREM PoolInvariance == Spec => []PInv
  BY PInvInit, PInvStep, PTL DEF Spec

(* Types, counter, ring and sleepers agree: no worker calls queue_delete   *)
(* on an empty queue, and no connection waits beside a worker that only a  *)
(* signal already spent could wake.                                        *)
THEOREM ConnectionsArePooled == Spec => []PoolAgrees
<1>1. PInv => PoolAgrees
  BY DEF PInv
<1> QED
  BY <1>1, PoolInvariance, PTL

(* A descriptor on its way through main, the queue and a worker is open    *)
(* and in one place: no worker closes a connection another one serves,     *)
(* however often accept returns the same number.                           *)
THEOREM DescriptorHasOneOwner == Spec => []OneOwner
<1>1. PInv => OneOwner
  BY DEF PInv
<1> QED
  BY <1>1, PoolInvariance, PTL

(* No two workers use the same files, and no client of the pool is told    *)
(* about another's program.                                                *)
THEOREM PoolIsolated == Spec => []Isolated
<1>1. PInv => Isolated
  BY DEF PInv, SfInv, Names, Writes, Isolated
<1> QED
  BY <1>1, PoolInvariance, PTL

-----------------------------------------------------------------------------
(* Compact leaves NoConn out and keeps the order: facts about the ranks of *)
(* the members of a finite set of numbers, and then about sequences.       *)

UpTo(Q, k) == {l \in Q : l <= k}
Rank(Q, k) == Cardinality(UpTo(Q, k))

LEMMA RankType ==
  ASSUME NEW Q \in SUBSET Nat, IsFiniteSet(Q)
  PROVE  /\ Cardinality(Q) \in Nat
         /\ \A k \in Q : IsFiniteSet(UpTo(Q, k)) /\ Rank(Q, k) \in 1 .. Cardinality(Q)
<1>1. Cardinality(Q) \in Nat
  BY FS_CardinalityType
<1>2. ASSUME NEW k \in Q
      PROVE  IsFiniteSet(UpTo(Q, k)) /\ Rank(Q, k) \in 1 .. Cardinality(Q)
  <2>1. UpTo(Q, k) \in SUBSET Q /\ k \in UpTo(Q, k)
    BY DEF UpTo
  <2>2. IsFiniteSet(UpTo(Q, k)) /\ Cardinality(UpTo(Q, k)) <= Cardinality(Q)
    BY <2>1, FS_Subset
  <2>3. Cardinality(UpTo(Q, k)) \in Nat /\ Cardinality(UpTo(Q, k)) # 0
    BY <2>1, <2>2, FS_CardinalityType, FS_EmptySet
  <2> QED
    BY <1>1, <2>2, <2>3 DEF Rank
<1> QED
  BY <1>1, <1>2

LEMMA RankGrows ==
  ASSUME NEW Q \in SUBSET Nat, IsFiniteSet(Q), NEW k \in Q, NEW m \in Q, Rank(Q, k) = Rank(Q, m)
  PROVE  k = m
<1>1. ASSUME NEW a \in Q, NEW b \in Q, a < b
      PROVE  Rank(Q, a) # Rank(Q, b)
  <2> \A l \in Q : l <= a => l <= b
    BY <1>1
  <2> b <= b /\ ~(b <= a)
    BY <1>1
  <2>1. UpTo(Q, a) \in SUBSET UpTo(Q, b) /\ b \in UpTo(Q, b) /\ b \notin UpTo(Q, a)
    BY Zenon DEF UpTo
  <2>2. IsFiniteSet(UpTo(Q, b))
    BY RankType
  <2>3. Cardinality(UpTo(Q, a)) # Cardinality(UpTo(Q, b))
    BY <2>1, <2>2, FS_Subset
  <2> QED
    BY <2>3 DEF Rank
<1>2. k \in Nat /\ m \in Nat
  OBVIOUS
<1>3. k < m \/ m < k \/ k = m
  BY <1>2
<1> QED
  BY <1>1, <1>3

LEMMA RankOnto ==
  ASSUME NEW Q \in SUBSET Nat, IsFiniteSet(Q), NEW n \in 1 .. Cardinality(Q)
  PROVE  \E k \in Q : Rank(Q, k) = n
<1> DEFINE N == 1 .. Cardinality(Q)
           f == [k \in Q |-> Rank(Q, k)]
<1>1. Cardinality(Q) \in Nat /\ \A k \in Q : Rank(Q, k) \in N
  BY RankType
<1>2. f \in Injection(Q, N)
  <2>1. \A k \in Q : f[k] = Rank(Q, k)
    OBVIOUS
  <2>2. f \in [Q -> N]
    BY <1>1
  <2>3. \A k, l \in Q : f[k] = f[l] => k = l
    BY <2>1, RankGrows
  <2> HIDE DEF f, N
  <2> QED
    BY <2>2, <2>3 DEF Injection, IsInjective
<1>3. IsFiniteSet(N) /\ Cardinality(N) = Cardinality(Q)
  <2>1. 1 \in Int /\ Cardinality(Q) \in Int
    BY <1>1
  <2>2. Cardinality(N) = IF 1 > Cardinality(Q) THEN 0 ELSE Cardinality(Q) - 1 + 1
    BY <2>1, FS_Interval
  <2>3. IsFiniteSet(N)
    BY <2>1, FS_Interval
  <2> HIDE DEF N
  <2> QED
    BY <1>1, <2>2, <2>3
<1>4. f \in Surjection(Q, N)
  <2> HIDE DEF f, N
  <2> QED
    BY <1>2, <1>3, FS_Injection
<1>5. \E k \in Q : f[k] = n
  <2> HIDE DEF f
  <2> QED
    BY <1>4 DEF Surjection
<1> QED
  BY <1>5

(* Shifting a set of numbers by one.                                       *)
LEMMA Shifted ==
  ASSUME NEW P \in SUBSET Nat, IsFiniteSet(P)
  PROVE  Cardinality({p + 1 : p \in P}) = Cardinality(P)
<1> DEFINE R == {p + 1 : p \in P}
           f == [p \in P |-> p + 1]
<1>1. f \in [P -> R] /\ \A p \in P : f[p] = p + 1
  OBVIOUS
<1>2. \A p, q \in P : p + 1 = q + 1 => p = q
  OBVIOUS
<1>3. \A r \in R : \E p \in P : f[p] = r
  OBVIOUS
<1> HIDE DEF f, R
<1>4. f \in Injection(P, R)
  BY <1>1, <1>2 DEF Injection, IsInjective
<1>5. f \in Bijection(P, R)
  BY <1>1, <1>3, <1>4 DEF Bijection, Surjection
<1>6. Cardinality(R) = Cardinality(P)
  BY <1>5, FS_Bijection DEF ExistsBijection
<1> QED
  BY <1>6 DEF R

LEMMA OpensType ==
  ASSUME NEW S, NEW s \in Seq(S)
  PROVE  Opens(s) \in SUBSET Nat /\ IsFiniteSet(Opens(s)) /\ Cardinality(Opens(s)) <= Len(s)
<1>1. Len(s) \in Nat
  OBVIOUS
<1>2. IsFiniteSet(1 .. Len(s)) /\ Cardinality(1 .. Len(s)) = Len(s)
  BY <1>1, FS_Interval
<1>3. Opens(s) \in SUBSET (1 .. Len(s))
  BY DEF Opens
<1> QED
  BY <1>1, <1>2, <1>3, FS_Subset

LEMMA CompactAt ==
  ASSUME NEW S, NEW s \in Seq(S)
  PROVE  /\ Compact(s) \in Seq(S)
         /\ Len(Compact(s)) = Cardinality(Opens(s))
         /\ \A k \in Opens(s) : /\ Rank(Opens(s), k) \in 1 .. Cardinality(Opens(s))
                                /\ Compact(s)[Rank(Opens(s), k)] = s[k]
         /\ \A n \in 1 .. Cardinality(Opens(s)) : \E k \in Opens(s) : Rank(Opens(s), k) = n
<1> DEFINE Q == Opens(s)
<1>1. Q \in SUBSET Nat /\ IsFiniteSet(Q)
  BY OpensType
<1>2. \A k \in Q : s[k] \in S
  BY DEF Opens
<1> HIDE DEF Q
<1>3. /\ Cardinality(Q) \in Nat
      /\ \A k \in Q : Rank(Q, k) \in 1 .. Cardinality(Q)
      /\ \A n \in 1 .. Cardinality(Q) : \E k \in Q : Rank(Q, k) = n
      /\ \A k, l \in Q : Rank(Q, k) = Rank(Q, l) => k = l
  BY <1>1, RankType, RankGrows, RankOnto
<1>4. ASSUME NEW k \in Q
      PROVE  NthOpen(s, Rank(Q, k)) = k
  <2>1. NthOpen(s, Rank(Q, k)) = CHOOSE l \in Q : Rank(Q, l) = Rank(Q, k)
    BY Zenon DEF NthOpen, Rank, UpTo, Q
  <2> QED
    BY <1>3, <2>1
<1>5. \A n \in 1 .. Cardinality(Q) : s[NthOpen(s, n)] \in S
  BY <1>2, <1>3, <1>4
<1>6. Compact(s) = [n \in 1 .. Cardinality(Q) |-> s[NthOpen(s, n)]]
  BY DEF Compact, Q
<1>7. Compact(s) \in Seq(S) /\ Len(Compact(s)) = Cardinality(Q)
  BY <1>3, <1>5, <1>6
<1>8. \A k \in Q : Compact(s)[Rank(Q, k)] = s[k]
  BY <1>3, <1>4, <1>6
<1> QED
  BY <1>3, <1>7, <1>8 DEF Q

(* A sequence with the right members at their ranks is the compact one.    *)
LEMMA CompactIs ==
  ASSUME NEW S, NEW s \in Seq(S), NEW t \in Seq(S), Len(t) = Cardinality(Opens(s)),
         \A k \in Opens(s) : t[Rank(Opens(s), k)] = s[k]
  PROVE  t = Compact(s)
<1> DEFINE Q == Opens(s)
           c == Compact(s)
<1>1. /\ c \in Seq(S) /\ Len(c) = Cardinality(Q)
      /\ \A k \in Q : c[Rank(Q, k)] = s[k]
      /\ \A n \in 1 .. Cardinality(Q) : \E k \in Q : Rank(Q, k) = n
  BY CompactAt
<1>2. Len(t) = Cardinality(Q) /\ \A k \in Q : t[Rank(Q, k)] = s[k]
  OBVIOUS
<1> HIDE DEF Q, c
<1>3. \A n \in 1 .. Len(t) : t[n] = c[n]
  BY <1>1, <1>2
<1>4. t = c
  BY <1>1, <1>2, <1>3, SeqEqual
<1> QED
  BY <1>4 DEF c

LEMMA CompactAppend ==
  ASSUME NEW S, NEW s \in Seq(S), NEW x \in S
  PROVE  Compact(Append(s, x)) = IF x = NoConn THEN Compact(s) ELSE Append(Compact(s), x)
<1> DEFINE t == Append(s, x)
           n == Len(s)
           Q == Opens(s)
           c == Compact(s)
<1>1. /\ n \in Nat /\ t \in Seq(S) /\ Len(t) = n + 1
      /\ t[n + 1] = x
      /\ \A k \in 1 .. n : t[k] = s[k]
  OBVIOUS
<1>2. Q \in SUBSET (1 .. n) /\ Q \in SUBSET Nat /\ IsFiniteSet(Q)
  BY OpensType DEF Opens
<1>3. /\ c \in Seq(S) /\ Len(c) = Cardinality(Q)
      /\ \A k \in Q : Rank(Q, k) \in 1 .. Cardinality(Q) /\ c[Rank(Q, k)] = s[k]
  BY CompactAt
<1>4. Opens(t) = IF x = NoConn THEN Q ELSE Q \cup {n + 1}
  <2> HIDE DEF t, n
  <2>1. 1 .. Len(t) = (1 .. n) \cup {n + 1}
    BY <1>1
  <2>2. Opens(t) = {k \in (1 .. n) \cup {n + 1} : t[k] # NoConn}
    BY <2>1 DEF Opens
  <2>3. \A k \in 1 .. n : t[k] # NoConn <=> k \in Q
    BY <1>1 DEF Opens, n
  <2> HIDE DEF Q
  <2> QED
    BY <1>1, <1>2, <2>2, <2>3
<1> HIDE DEF t, n, Q, c
<1>5. Cardinality(Q) \in Nat
  BY <1>2, FS_CardinalityType
<1>6. CASE x = NoConn
  <2>1. \A k \in Opens(t) : c[Rank(Opens(t), k)] = t[k]
    BY <1>1, <1>2, <1>3, <1>4, <1>6
  <2>2. c = Compact(t)
    BY <1>1, <1>3, <1>4, <1>6, <2>1, CompactIs
  <2> QED
    BY <1>6, <2>2 DEF t, c
<1>7. CASE x # NoConn
  <2> DEFINE d == Append(c, x)
  <2>1. /\ d \in Seq(S) /\ Len(d) = Cardinality(Q) + 1
        /\ d[Cardinality(Q) + 1] = x
        /\ \A m \in 1 .. Cardinality(Q) : d[m] = c[m]
    BY <1>3, <1>5
  <2> HIDE DEF d
  <2>2. n + 1 \notin Q /\ \A k \in Q : k <= n + 1 /\ ~(n + 1 <= k)
    BY <1>1, <1>2
  <2>3. Cardinality(Opens(t)) = Cardinality(Q) + 1
    BY <1>2, <1>4, <1>7, <2>2, FS_AddElement
  <2>4. UpTo(Opens(t), n + 1) = Opens(t) /\ \A k \in Q : UpTo(Opens(t), k) = UpTo(Q, k)
    <3>1. n + 1 <= n + 1
      BY <1>1
    <3> QED
      BY <1>4, <1>7, <2>2, <3>1, Zenon DEF UpTo
  <2>5. ASSUME NEW k \in Opens(t)
        PROVE  d[Rank(Opens(t), k)] = t[k]
    <3>1. CASE k = n + 1
      BY <1>1, <2>1, <2>3, <2>4, <3>1 DEF Rank
    <3>2. CASE k \in Q
      <4>1. Rank(Opens(t), k) = Rank(Q, k)
        BY <2>4, <3>2 DEF Rank
      <4> QED
        BY <1>1, <1>2, <1>3, <2>1, <3>2, <4>1
    <3> QED
      BY <1>4, <1>7, <3>1, <3>2
  <2>6. d = Compact(t)
    BY <1>1, <2>1, <2>3, <2>5, CompactIs
  <2> QED
    BY <1>7, <2>6 DEF d, t, c
<1> QED
  BY <1>6, <1>7

LEMMA CompactTail ==
  ASSUME NEW S, NEW s \in Seq(S), s # <<>>
  PROVE  /\ Head(s) = NoConn => Compact(Tail(s)) = Compact(s)
         /\ Head(s) # NoConn => /\ Compact(s) # <<>>
                                /\ Head(Compact(s)) = Head(s)
                                /\ Compact(Tail(s)) = Tail(Compact(s))
<1> DEFINE t == Tail(s)
           n == Len(s)
           Q == Opens(s)
           P == Opens(t)
           c == Compact(s)
<1>1. /\ n \in Nat /\ n >= 1 /\ t \in Seq(S) /\ Len(t) = n - 1
      /\ \A k \in 1 .. n - 1 : t[k] = s[k + 1]
      /\ Head(s) = s[1]
  OBVIOUS
<1>2. Q \in SUBSET Nat /\ IsFiniteSet(Q) /\ P \in SUBSET Nat /\ IsFiniteSet(P)
  <2> HIDE DEF t
  <2> QED
    BY <1>1, OpensType
<1>3. /\ c \in Seq(S) /\ Len(c) = Cardinality(Q)
      /\ \A k \in Q : Rank(Q, k) \in 1 .. Cardinality(Q) /\ c[Rank(Q, k)] = s[k]
  BY CompactAt
<1>4. /\ 1 \in Q <=> Head(s) # NoConn
      /\ \A k \in Q : k >= 1 /\ k \in 1 .. n
      /\ \A k \in Nat : k \in P <=> k + 1 \in Q /\ k # 0
      /\ \A k \in P : t[k] = s[k + 1]
  <2> HIDE DEF t, n
  <2>1. \A k : k \in P <=> k \in 1 .. n - 1 /\ t[k] # NoConn
    BY <1>1 DEF Opens
  <2>2. \A k : k \in Q <=> k \in 1 .. n /\ s[k] # NoConn
    BY DEF Opens, n
  <2>3. \A k \in Nat : k \in 1 .. n - 1 <=> k + 1 \in 1 .. n /\ k # 0
    BY <1>1
  <2>4. 1 \in 1 .. n
    BY <1>1
  <2>5. \A k \in Q : k >= 1 /\ k \in 1 .. n
    BY <2>2
  <2>6. \A k \in P : t[k] = s[k + 1]
    BY <1>1, <2>1
  <2>7. \A k \in Nat : k \in P <=> k + 1 \in Q /\ k # 0
    <3> HIDE DEF P, Q
    <3> QED
      BY <1>1, <2>1, <2>2, <2>3
  <2> HIDE DEF P, Q
  <2> QED
    BY <1>1, <2>2, <2>4, <2>5, <2>6, <2>7
<1> HIDE DEF t, n, Q, P, c
<1>5. Cardinality(Q) \in Nat /\ Cardinality(P) \in Nat
  BY <1>2, FS_CardinalityType
<1>6. Q \ {1} = {p + 1 : p \in P}
  <2>1. ASSUME NEW q \in Q \ {1} PROVE q \in {p + 1 : p \in P}
    <3>1. q - 1 \in Nat /\ (q - 1) + 1 = q /\ q - 1 # 0
      BY <1>2, <1>4, <2>1
    <3> QED
      BY <1>4, <3>1
  <2>2. ASSUME NEW p \in P PROVE p + 1 \in Q \ {1}
    <3>1. p \in Nat /\ p # 0 /\ p + 1 \in Q
      BY <1>2, <1>4
    <3> QED
      BY <3>1
  <2> QED
    BY <2>1, <2>2
<1>7. ASSUME NEW k \in P
      PROVE  UpTo(Q, k + 1) \ {1} = {p + 1 : p \in UpTo(P, k)}
  <2>1. \A p \in P : p + 1 <= k + 1 <=> p <= k
    BY <1>2
  <2>2. UpTo(Q, k + 1) \ {1} = {q \in Q \ {1} : q <= k + 1}
    BY DEF UpTo
  <2>3. {q \in {p + 1 : p \in P} : q <= k + 1} = {p + 1 : p \in UpTo(P, k)}
    BY <2>1, Zenon DEF UpTo
  <2> QED
    BY <1>6, <2>2, <2>3
<1>8. /\ Cardinality(Q \ {1}) = Cardinality(P)
      /\ \A k \in P : Cardinality(UpTo(Q, k + 1) \ {1}) = Rank(P, k)
  <2>1. \A k \in P : UpTo(P, k) \in SUBSET Nat /\ IsFiniteSet(UpTo(P, k))
    BY <1>2, RankType DEF UpTo
  <2> QED
    BY <1>2, <1>6, <1>7, <2>1, Shifted DEF Rank
<1>9. \A k \in P : /\ k \in Nat /\ k + 1 \in Q /\ IsFiniteSet(UpTo(Q, k + 1))
                   /\ Rank(P, k) \in 1 .. Cardinality(P)
  BY <1>2, <1>4, RankType
<1>10. CASE Head(s) = NoConn
  <2>1. Q \ {1} = Q /\ \A k \in P : UpTo(Q, k + 1) \ {1} = UpTo(Q, k + 1)
    BY <1>4, <1>10 DEF UpTo
  <2>2. \A k \in P : c[Rank(P, k)] = t[k]
    BY <1>3, <1>4, <1>8, <1>9, <2>1 DEF Rank
  <2>3. Len(c) = Cardinality(P)
    BY <1>3, <1>8, <2>1
  <2>4. c = Compact(t)
    BY <1>1, <1>3, <2>2, <2>3, CompactIs DEF P
  <2> QED
    BY <1>10, <2>4 DEF t, c
<1>11. CASE Head(s) # NoConn
  <2>1. 1 \in Q /\ Cardinality(P) = Cardinality(Q) - 1
    BY <1>2, <1>4, <1>8, <1>11, FS_RemoveElement
  <2>2. \A k \in P : Rank(P, k) = Rank(Q, k + 1) - 1
    <3>1. \A k \in P : 1 \in UpTo(Q, k + 1)
      <4>1. \A k \in P : 1 <= k + 1
        BY <1>9
      <4> QED
        BY <2>1, <4>1 DEF UpTo
    <3> QED
      BY <1>8, <1>9, <3>1, FS_RemoveElement DEF Rank
  <2>3. Rank(Q, 1) = 1
    <3>1. UpTo(Q, 1) = {1}
      <4>1. \A l \in Q : l <= 1 <=> l = 1
        BY <1>2, <1>4
      <4> QED
        BY <2>1, <4>1 DEF UpTo
    <3> QED
      BY <3>1, FS_Singleton DEF Rank
  <2>4. c # <<>> /\ Head(c) = Head(s)
    BY <1>1, <1>3, <2>1, <2>3
  <2>5. /\ Tail(c) \in Seq(S) /\ Len(Tail(c)) = Cardinality(P)
        /\ \A m \in 1 .. Cardinality(P) : Tail(c)[m] = c[m + 1]
    BY <1>3, <1>5, <2>1, <2>4
  <2>6. ASSUME NEW k \in P PROVE Tail(c)[Rank(P, k)] = t[k]
    <3>1. Rank(Q, k + 1) \in Nat /\ Rank(P, k) + 1 = Rank(Q, k + 1)
      BY <1>3, <1>9, <2>2
    <3>2. Tail(c)[Rank(P, k)] = c[Rank(Q, k + 1)]
      BY <1>9, <2>5, <3>1
    <3> QED
      BY <1>3, <1>4, <1>9, <3>2
  <2>7. Tail(c) = Compact(t)
    BY <1>1, <2>5, <2>6, CompactIs DEF P
  <2> QED
    BY <1>11, <2>4, <2>7 DEF t, c
<1> QED
  BY <1>10, <1>11

-----------------------------------------------------------------------------
(* The abstract service.                                                   *)

(* A connection is open on one descriptor, and only once accepted.         *)
OnePlace ==
  /\ \A f \in Fds : table[f] # NoConn => table[f] \in accepted
  /\ \A f, g \in Fds : table[f] = table[g] /\ table[f] # NoConn => f = g

LEMMA OnePlaceStep == PInv /\ OnePlace /\ [Next]_vars => OnePlace'
<1> SUFFICES ASSUME PInv, OnePlace, [Next]_vars PROVE OnePlace'
  OBVIOUS
<1> USE Parts
<1>1. ASSUME accepted' = accepted, \A f \in Fds : table'[f] \in {table[f], NoConn}
      PROVE  OnePlace'
  BY <1>1 DEF OnePlace
<1>2. ASSUME NEW c \in Conns, Accept(c) PROVE OnePlace'
  <2>1. PICK f : f = LowestFree
    OBVIOUS
  <2>2. /\ table' = [table EXCEPT ![f] = c] /\ accepted' = accepted \cup {c}
        /\ c \notin accepted /\ c # NoConn
    BY <1>2, <2>1, StartAssumption DEF Accept, TypeOK
  <2>3. \A g \in Fds : table'[g] = IF g = f THEN c ELSE table[g]
    BY <2>2 DEF SfTypeOK
  <2> QED
    BY <2>2, <2>3 DEF OnePlace
<1>3. ASSUME NEW w \in Threads, StartFunctionStep(w), UNCHANGED <<readyVars, mainVars>>
      PROVE  OnePlace'
  <2>1. accepted' = accepted
    BY <1>3 DEF mainVars
  <2>2. \A f \in Fds : f # newsockfd[w] \/ ~Close(w) => table'[f] = table[f]
    BY <1>3, SfEffect
  <2>3. Close(w) => \A f \in Fds : f = newsockfd[w] => table'[f] = NoConn
    BY DEF Close, SfTypeOK
  <2> QED
    BY <1>1, <2>1, <2>2, <2>3
<1>4. CASE UNCHANGED <<table, accepted>>
  BY <1>1, <1>4
<1>5. \/ \E c \in Conns : Accept(c)
      \/ \E w \in Threads : StartFunctionStep(w) /\ UNCHANGED <<readyVars, mainVars>>
      \/ UNCHANGED <<table, accepted>>
  BY DEF Next, MainStep, WorkerStep, AcceptFails, MasterWait, MasterInsert, WorkerWait,
         WorkerWake, WorkerTake, SpuriousWake, vars, mainVars, sfVars, clientVars
<1> QED
  BY <1>2, <1>3, <1>4, <1>5

(* The state of the service, and the descriptors that are its requests.    *)
Line == Compact(QueuedConns)
Hand == [w \in Threads |-> IF pc[w] \in Labels THEN SocketOf(newsockfd[w]) ELSE NoConn]
Done == {c \in Conns : Left(c)}

InUse == Lined(Contents) \cup {newsockfd[w] : w \in Held}
           \cup (IF main_pc = "insert" THEN {main_fd} \ {BadFd} ELSE {})

LEMMA SocketType ==
  ASSUME PInv, NEW f
  PROVE  /\ SocketOf(f) \in Conns \cup {NoConn} /\ SocketOf(BadFd) = NoConn
         /\ SocketOf(f) # NoConn => f \in Fds /\ SocketOf(f) = table[f]
  BY Parts, Apart DEF SocketOf, SfTypeOK

LEMMA UseShape ==
  ASSUME PInv
  PROVE  /\ \A f \in InUse : f \in Fds /\ table[f] # NoConn
         /\ \A c : c \in Done <=> c \in accepted /\ \A f \in InUse : table[f] # c
<1> USE Parts
<1>1. Owned /\ Len(Contents) = Length
  BY OwnerShape, LineType
<1>2. \A f \in InUse : SocketOf(f) # NoConn
  BY <1>1 DEF InUse, Owned
<1>3. \A f \in InUse : f \in Fds /\ SocketOf(f) = table[f]
  BY <1>2, SocketType
<1>4. Lined(Contents) = {Contents[k] : k \in Queued}
  BY <1>1 DEF Lined, Queued
<1>5. ASSUME NEW c \in Conns
      PROVE  Left(c) <=> c \in accepted /\ \A f \in InUse : SocketOf(f) # c
  <2>1. SocketOf(BadFd) # c
    BY SocketType, StartAssumption
  <2> QED
    BY <1>4, <2>1 DEF Left, InUse
<1>6. accepted \subseteq Conns
  BY DEF TypeOK
<1> QED
  BY <1>2, <1>3, <1>5, <1>6 DEF Done

LEMMA QueuedType ==
  ASSUME PInv
  PROVE  /\ QueuedConns \in Seq(Conns \cup {NoConn}) /\ Len(QueuedConns) = Length
         /\ Length \in Nat
         /\ \A k \in 1 .. Length : /\ QueuedConns[k] = SocketOf(Contents[k])
                                   /\ Contents[k] \in Lined(Contents) \cup {BadFd}
<1>1. Length \in Nat /\ Len(Contents) = Length
  BY LineType, QueueAssumption, Parts
<1>2. \A k \in 1 .. Length : SocketOf(Contents[k]) \in Conns \cup {NoConn}
  BY SocketType
<1>3. \A k \in 1 .. Length : Contents[k] \in Lined(Contents) \cup {BadFd}
  BY <1>1 DEF Lined
<1> QED
  BY <1>1, <1>2, <1>3 DEF QueuedConns

(* The line is the connections of the queued descriptors.                  *)
LEMMA LineShape ==
  ASSUME PInv
  PROVE  /\ Line \in Seq(Conns \cup {NoConn}) /\ Len(Line) <= Length
         /\ \A n \in 1 .. Len(Line) : \E f \in Lined(Contents) : Line[n] = SocketOf(f)
<1> DEFINE s == QueuedConns
<1>1. /\ s \in Seq(Conns \cup {NoConn}) /\ Len(s) = Length
      /\ \A k \in 1 .. Length : /\ s[k] = SocketOf(Contents[k])
                                /\ Contents[k] \in Lined(Contents) \cup {BadFd}
  BY QueuedType
<1> HIDE DEF s
<1>2. /\ Compact(s) \in Seq(Conns \cup {NoConn})
      /\ Len(Compact(s)) = Cardinality(Opens(s))
      /\ \A k \in Opens(s) : Compact(s)[Rank(Opens(s), k)] = s[k]
      /\ \A n \in 1 .. Cardinality(Opens(s)) : \E k \in Opens(s) : Rank(Opens(s), k) = n
  BY <1>1, CompactAt
<1>3. Cardinality(Opens(s)) <= Length
  BY <1>1, OpensType
<1>4. \A k \in Opens(s) : s[k] = SocketOf(Contents[k]) /\ Contents[k] \in Lined(Contents)
  BY <1>1, SocketType DEF Opens
<1> QED
  BY <1>2, <1>3, <1>4 DEF Line, s

LEMMA HandShape ==
  ASSUME PInv
  PROVE  \A w \in Threads :
           IF w \in Held THEN Hand[w] = table[newsockfd[w]] /\ newsockfd[w] \in InUse
                         ELSE Hand[w] = NoConn
  BY UseShape, SocketType DEF Hand, Held, Serving, InUse, SocketOf

(* A step that leaves the queue and the connections in it alone leaves the *)
(* line alone.                                                             *)
LEMMA SameQueued ==
  ASSUME PInv, UNCHANGED <<front, rear, queue>>,
         \A f \in Lined(Contents) : SocketOf(f)' = SocketOf(f)
  PROVE  Line' = Line
<1>1. Length' = Length /\ Contents' = Contents
  BY SameLine
<1>2. \A k \in 1 .. Length : SocketOf(Contents[k])' = SocketOf(Contents[k])
  <2>1. \A k \in 1 .. Length : Contents[k] \in Lined(Contents) \cup {BadFd}
    BY QueuedType
  <2>2. SocketOf(BadFd)' = SocketOf(BadFd)
    BY Apart DEF SocketOf
  <2>3. ASSUME NEW k \in 1 .. Length PROVE SocketOf(Contents[k])' = SocketOf(Contents[k])
    <3>1. PICK f : f = Contents[k]
      OBVIOUS
    <3>2. SocketOf(f)' = SocketOf(f)
      BY <2>1, <2>2, <3>1
    <3> QED
      BY <1>1, <3>1, <3>2 DEF SocketOf
  <2> QED
    BY <2>3
<1>3. QueuedConns' = QueuedConns
  BY <1>1, <1>2 DEF QueuedConns
<1> QED
  BY <1>3 DEF Line, Compact, Opens, NthOpen

(* A step that changes no descriptor, nor who has it.                      *)
LEMMA QuietStep ==
  ASSUME PInv, UNCHANGED <<front, rear, queue, table, newsockfd, accepted>>, Serving' = Serving,
         UNCHANGED <<main_pc, main_fd>> \/ (main_pc # "insert" /\ main_fd' = BadFd)
  PROVE  UNCHANGED <<Line, Hand, Done>>
<1>1. Length' = Length /\ Contents' = Contents
  BY SameLine
<1>2. \A f : SocketOf(f)' = SocketOf(f)
  BY DEF SocketOf
<1>3. Line' = Line
  BY <1>2, SameQueued
<1>4. \A w \in Threads : pc'[w] \in Labels <=> pc[w] \in Labels
  BY DEF Serving
<1>5. Hand' = Hand
  BY <1>4 DEF Hand, SocketOf
<1>6. Held' = Held /\ Queued' = Queued
  BY <1>1 DEF Held, Queued
<1>7. \A c \in Conns : Left(c)' <=> Left(c)
  <2>1. main_fd' = BadFd => SocketOf(main_fd)' = NoConn
    BY Apart DEF SocketOf
  <2>2. \A w \in Held : SocketOf(newsockfd[w])' = SocketOf(newsockfd[w])
    BY DEF SocketOf
  <2>3. \A k \in Queued : SocketOf(Contents[k])' = SocketOf(Contents[k])
    BY <1>1 DEF SocketOf
  <2>4. \A c \in Conns : c # NoConn
    BY StartAssumption
  <2> QED
    BY <1>6, <2>1, <2>2, <2>3, <2>4 DEF Left, SocketOf
<1> QED
  BY <1>3, <1>5, <1>7 DEF Done

(* UseShape after a step.                                                  *)
LEMMA UseShapeNext ==
  ASSUME PInv'
  PROVE  /\ \A f \in InUse' : f \in Fds /\ table'[f] # NoConn
         /\ \A c : c \in Done' <=> c \in accepted' /\ \A f \in InUse' : table'[f] # c
<1>1. (PInv => /\ \A f \in InUse : f \in Fds /\ table[f] # NoConn
               /\ \A c : c \in Done <=> c \in accepted /\ \A f \in InUse : table[f] # c)'
  BY UseShape, PTL
<1> QED
  BY <1>1

LEMMA AcceptMaps ==
  ASSUME PInv, PInv', OnePlace, NEW c \in Conns, Accept(c)
  PROVE  UNCHANGED <<Line, Hand, Done>>
<1> USE Parts
<1>1. LowestFree \in Fds /\ table[LowestFree] = NoConn
  BY SfAccept DEF Accept
<1>2. PICK f \in Fds : f = LowestFree /\ table[f] = NoConn
  BY <1>1
<1>3. /\ main_fd' = f /\ table' = [table EXCEPT ![f] = c]
      /\ UNCHANGED <<front, rear, queue, pc, newsockfd>>
      /\ main_pc = "accept" /\ main_pc' = "insert"
      /\ accepted' = accepted \cup {c} /\ c \notin accepted
  BY <1>2, StartAssumption DEF Accept, TypeOK, readyVars, threadVars
<1>4. Contents' = Contents /\ Held' = Held
  BY <1>3, SameLine DEF Held, Serving
<1>5. \A g : g # f => SocketOf(g)' = SocketOf(g)
  BY <1>3 DEF SocketOf, SfTypeOK
<1>6. f \notin InUse /\ f # BadFd
  BY <1>2, UseShape, Apart
<1>7. Line' = Line
  BY <1>3, <1>5, <1>6, SameQueued DEF InUse
<1>8. Hand' = Hand
  <2>1. \A w \in Threads : pc[w] \in Labels => newsockfd[w] # f
    BY <1>6 DEF InUse, Held, Serving
  <2>2. ASSUME NEW w \in Threads, pc[w] \in Labels
        PROVE  SocketOf(newsockfd[w])' = SocketOf(newsockfd[w])
    <3>1. PICK g : g = newsockfd[w]
      OBVIOUS
    <3>2. SocketOf(g)' = SocketOf(g)
      BY <1>5, <2>1, <2>2, <3>1
    <3> QED
      BY <1>3, <3>1, <3>2 DEF SocketOf
  <2> QED
    BY <1>3, <2>2 DEF Hand
<1>9. Done' = Done
  <2>1. InUse' = InUse \cup {f}
    BY <1>3, <1>4, <1>6 DEF InUse, Lined
  <2>2. \A g \in InUse : table'[g] = table[g]
    BY <1>3, <1>6, UseShape DEF SfTypeOK
  <2>3. table'[f] = c
    BY <1>3 DEF SfTypeOK
  <2>4. \A d \in accepted : d # c
    BY <1>3
  <2>5. \A d : d \in Done' <=> d \in Done
    BY <1>3, <2>1, <2>2, <2>3, <2>4, UseShape, UseShapeNext
  <2> QED
    BY <2>5 DEF Done
<1> QED
  BY <1>7, <1>8, <1>9

LEMMA InsertMaps ==
  ASSUME PInv, PInv', OnePlace, MasterInsert
  PROVE  \/ UNCHANGED <<Line, Hand, Done>>
         \/ \E c \in Conns : Service!Accept(c)
<1> USE Parts
<1>1. /\ main_pc = "insert" /\ main_pc' = "accept" /\ ~IsFull
      /\ UNCHANGED <<pc, newsockfd, table, accepted, main_fd>>
  BY DEF MasterInsert, sfVars, threadVars, clientVars
<1>2. main_fd \in Items /\ Contents' = Append(Contents, main_fd) /\ Length' = Length + 1
  BY PutAppends, Apart DEF MasterInsert, TypeOK
<1>3. Held' = Held /\ \A f : SocketOf(f)' = SocketOf(f)
  BY <1>1 DEF Held, Serving, SocketOf
<1>4. Hand' = Hand
  BY <1>1 DEF Hand, SocketOf
<1>5. /\ Lined(Contents') = Lined(Contents) \cup ({main_fd} \ {BadFd})
      /\ main_fd \notin Lined(Contents)
  <2>1. Owned /\ Contents \in Seq(Items \cup {NoItem})
    BY OwnerShape, LineType
  <2>2. main_fd \notin Lined(Contents)
    BY <1>1, <2>1 DEF Owned, Lined
  <2> QED
    BY <1>2, <2>1, <2>2, AppendLined DEF Owned
<1>6. Done' = Done
  <2>1. InUse' = InUse
    BY <1>1, <1>3, <1>5 DEF InUse
  <2>2. \A d : d \in Done' <=> d \in Done
    BY <1>1, <2>1, UseShape, UseShapeNext
  <2> QED
    BY <2>2 DEF Done
<1>7. PICK c : c = SocketOf(main_fd)
  OBVIOUS
<1>8. c \in Conns \cup {NoConn}
  BY <1>7, SocketType
<1>9. QueuedConns' = Append(QueuedConns, c)
  <2>1. /\ Length \in Nat /\ Len(Contents) = Length
        /\ Contents \in Seq(Items \cup {NoItem})
    BY LineType, QueuedType
  <2>2. QueuedConns' = [k \in 1 .. Length + 1 |-> SocketOf(Contents'[k])]
    BY <1>1, <1>2 DEF QueuedConns, SocketOf
  <2>3. /\ \A k \in 1 .. Length : Contents'[k] = Contents[k]
        /\ Contents'[Length + 1] = main_fd
    BY <1>2, <2>1
  <2>4. \A k \in 1 .. Length + 1 :
          QueuedConns'[k] = IF k = Length + 1 THEN c ELSE SocketOf(Contents[k])
    BY <1>7, <2>1, <2>2, <2>3
  <2>5. /\ QueuedConns \in Seq(Conns \cup {NoConn}) /\ Len(QueuedConns) = Length
        /\ \A k \in 1 .. Length : QueuedConns[k] = SocketOf(Contents[k])
    BY QueuedType
  <2>6. /\ QueuedConns' \in Seq(Conns \cup {NoConn}) /\ Len(QueuedConns') = Length + 1
    <3>1. \A k \in 1 .. Length + 1 : SocketOf(Contents'[k]) \in Conns \cup {NoConn}
      BY SocketType
    <3> QED
      BY <2>1, <2>2, <3>1
  <2>7. /\ Append(QueuedConns, c) \in Seq(Conns \cup {NoConn})
        /\ Len(Append(QueuedConns, c)) = Length + 1
        /\ \A k \in 1 .. Length + 1 : Append(QueuedConns, c)[k] =
             IF k = Length + 1 THEN c ELSE SocketOf(Contents[k])
    BY <1>8, <2>1, <2>5
  <2> DEFINE a == Append(QueuedConns, c)
             b == QueuedConns'
  <2>8. /\ a \in Seq(Conns \cup {NoConn}) /\ b \in Seq(Conns \cup {NoConn})
        /\ Len(a) = Len(b) /\ \A k \in 1 .. Len(a) : a[k] = b[k]
    BY <2>4, <2>6, <2>7
  <2> HIDE DEF a, b
  <2>9. a = b
    BY <2>8, SeqEqual
  <2> QED
    BY <2>9 DEF a, b
<1>10. Line' = IF c = NoConn THEN Line ELSE Append(Line, c)
  <2>1. Line' = Compact(QueuedConns')
    BY DEF Line, Compact, Opens, NthOpen
  <2> QED
    BY <1>8, <1>9, <2>1, QueuedType, CompactAppend DEF Line
<1>11. CASE c = NoConn
  BY <1>4, <1>6, <1>10, <1>11
<1>12. CASE c # NoConn
  <2>1. main_fd \in InUse /\ main_fd \in Fds /\ table[main_fd] = c
    <3>1. main_fd \in Fds /\ table[main_fd] = c
      BY <1>7, <1>12, SocketType
    <3> QED
      BY <1>1, <3>1, Apart DEF InUse
  <2>2. c \notin Done
    BY <2>1, UseShape
  <2>3. \A f \in Lined(Contents) : SocketOf(f) # c
    <3>1. \A f \in Lined(Contents) : f # main_fd
      BY <1>5
    <3>2. \A f : SocketOf(f) = c => f \in Fds /\ table[f] = c
      BY <1>12, SocketType
    <3> QED
      BY <1>12, <2>1, <3>1, <3>2 DEF OnePlace
  <2>4. \A n \in 1 .. Len(Line) : Line[n] # c
    BY <2>3, LineShape
  <2>5. \A w \in Threads : Hand[w] # c
    <3>1. \A w \in Held : newsockfd[w] # main_fd
      BY <1>1, <2>1, OwnerShape, Apart DEF Owned
    <3>2. \A w \in Held : newsockfd[w] \in Fds
      BY UseShape DEF InUse
    <3>3. \A w \in Held : table[newsockfd[w]] # c
      BY <1>12, <2>1, <3>1, <3>2 DEF OnePlace
    <3> QED
      BY <1>12, <3>3, HandShape
  <2>6. Len(Line) < QUEUE_SIZE - 1
    <3>1. Length < QUEUE_SIZE - 1
      BY <1>1, LengthBounds, QueueAssumption DEF RingTypeOK, IsFull, Length
    <3>2. Len(Line) \in Nat /\ Len(Line) <= Length /\ Length \in Nat
      BY LineShape, QueuedType
    <3> QED
      BY <3>1, <3>2, QueueAssumption
  <2>7. Service!Accept(c)
    <3>1. c \notin Service!Waiting
      BY <2>4 DEF Service!Waiting, Line
    <3>2. c \notin Service!InHand
      BY <2>5 DEF Service!InHand, Hand
    <3> QED
      BY <1>4, <1>6, <1>10, <1>12, <2>2, <2>6, <3>1, <3>2 DEF Service!Accept, Line, Hand, Done
  <2> QED
    BY <1>8, <1>12, <2>7
<1> QED
  BY <1>11, <1>12

LEMMA TakeMaps ==
  ASSUME PInv, PInv', NEW w \in Threads, WorkerTake(w)
  PROVE  UNCHANGED <<Line, Hand, Done>> \/ Service!Start(w)
<1> USE Parts
<1>1. PICK x \in Items \cup {NoItem} :
        Take(x) /\ newsockfd' = [newsockfd EXCEPT ![w] = x]
  BY DEF WorkerTake
<1>2. /\ pc[w] \in {"idle", "wait"} /\ no_req > 0 /\ Goto(w, "count")
      /\ UNCHANGED <<table, main_pc, main_fd, accepted>>
  BY DEF WorkerTake, clientVars, mainVars
<1>3. /\ Length' = Length - 1
      /\ Contents # <<>> /\ x = Head(Contents) /\ Contents' = Tail(Contents)
  BY <1>1, <1>2, TakeTails
<1>4. Owned /\ Contents \in Seq(Items \cup {NoItem}) /\ Len(Contents) = Length /\ Length \in Nat
  BY OwnerShape, LineType, QueuedType
<1>5. x \in Lined(Contents) \cup {BadFd} /\ Lined(Contents') = Lined(Contents) \ {x}
  BY <1>3, <1>4, TailLined DEF Owned
<1>6. \A f : SocketOf(f)' = SocketOf(f)
  BY <1>2 DEF SocketOf
<1>7. /\ newsockfd'[w] = x
      /\ \A v \in Threads : v # w => newsockfd'[v] = newsockfd[v]
  BY <1>1 DEF SfTypeOK
<1>8. \A v \in Threads : pc'[v] = IF v = w THEN "count" ELSE pc[v]
  BY <1>2 DEF Goto, TypeOK
<1>9. w \notin Held /\ \A v : v \in Held' <=> v \in Held \/ (v = w /\ x # BadFd)
  BY <1>2, <1>7, <1>8, Apart DEF Held, Serving, Labels
<1>10. Done' = Done
  <2>1. \A f : f \in {newsockfd[v] : v \in Held}' <=>
                 f \in {newsockfd[v] : v \in Held} \/ (f = x /\ x # BadFd)
    BY <1>7, <1>9 DEF Held, Serving
  <2>2. \A f : f \in InUse' <=> f \in InUse
    <3> DEFINE h == {newsockfd[v] : v \in Held}
               m == IF main_pc = "insert" THEN {main_fd} \ {BadFd} ELSE {}
    <3>1. InUse = Lined(Contents) \cup h \cup m /\ InUse' = Lined(Contents') \cup h' \cup m'
      BY DEF InUse
    <3>2. m' = m
      BY <1>2
    <3>3. BadFd \notin Lined(Contents)
      BY DEF Lined
    <3> HIDE DEF h, m
    <3>4. \A f : f \in h' <=> f \in h \/ (f = x /\ x # BadFd)
      BY <2>1 DEF h
    <3> QED
      BY <1>5, <3>1, <3>2, <3>3, <3>4
  <2>3. \A d : d \in Done' <=> d \in Done
    BY <1>2, <2>2, UseShape, UseShapeNext
  <2> QED
    BY <2>3 DEF Done
<1>11. PICK c : c = SocketOf(x)
  OBVIOUS
<1>12. c \in Conns \cup {NoConn}
  BY <1>11, SocketType
<1>13. Hand' = [Hand EXCEPT ![w] = c] /\ Hand[w] = NoConn
  <2>1. Hand[w] = NoConn
    BY <1>9, HandShape
  <2>2. ASSUME NEW v \in Threads PROVE Hand'[v] = IF v = w THEN c ELSE Hand[v]
    <3>1. CASE v = w
      BY <1>2, <1>7, <1>8, <1>11, <3>1 DEF Hand, SocketOf, Labels
    <3>2. CASE v # w
      BY <1>2, <1>7, <1>8, <3>2 DEF Hand, SocketOf
    <3> QED
      BY <3>1, <3>2
  <2> QED
    BY <2>1, <2>2 DEF Hand
<1>14. QueuedConns # <<>> /\ Head(QueuedConns) = c /\ QueuedConns' = Tail(QueuedConns)
  <2>1. /\ QueuedConns \in Seq(Conns \cup {NoConn}) /\ Len(QueuedConns) = Length
        /\ \A k \in 1 .. Length : QueuedConns[k] = SocketOf(Contents[k])
    BY QueuedType
  <2>2. Length >= 1 /\ Contents[1] = x /\ \A k \in 1 .. Length - 1 : Contents'[k] = Contents[k + 1]
    BY <1>3, <1>4
  <2>3. QueuedConns # <<>> /\ Head(QueuedConns) = c
    BY <1>4, <1>11, <2>1, <2>2
  <2>4. QueuedConns' = [k \in 1 .. Length - 1 |-> SocketOf(Contents'[k])]
    BY <1>2, <1>3 DEF QueuedConns, SocketOf
  <2>5. /\ QueuedConns' \in Seq(Conns \cup {NoConn}) /\ Len(QueuedConns') = Length - 1
        /\ \A k \in 1 .. Length - 1 : QueuedConns'[k] = SocketOf(Contents[k + 1])
    <3>1. \A k \in 1 .. Length - 1 : SocketOf(Contents'[k]) \in Conns \cup {NoConn}
      BY SocketType
    <3>2. Length - 1 \in Nat
      BY <1>4, <2>2
    <3> QED
      BY <2>2, <2>4, <3>1, <3>2
  <2>6. /\ Tail(QueuedConns) \in Seq(Conns \cup {NoConn}) /\ Len(Tail(QueuedConns)) = Length - 1
        /\ \A k \in 1 .. Length - 1 : Tail(QueuedConns)[k] = SocketOf(Contents[k + 1])
    BY <1>4, <2>1, <2>2, <2>3
  <2> DEFINE a == Tail(QueuedConns)
             b == QueuedConns'
  <2>7. /\ a \in Seq(Conns \cup {NoConn}) /\ b \in Seq(Conns \cup {NoConn})
        /\ Len(a) = Len(b) /\ \A k \in 1 .. Len(a) : a[k] = b[k]
    BY <2>5, <2>6
  <2> HIDE DEF a, b
  <2>8. a = b
    BY <2>7, SeqEqual
  <2> QED
    BY <2>3, <2>8 DEF a, b
<1>15. /\ c = NoConn => Line' = Line
       /\ c # NoConn => Line # <<>> /\ Head(Line) = c /\ Line' = Tail(Line)
  <2>1. Line' = Compact(QueuedConns')
    BY DEF Line, Compact, Opens, NthOpen
  <2> QED
    BY <1>14, <2>1, QueuedType, CompactTail DEF Line
<1>16. CASE c = NoConn
  <2>1. Hand' = Hand
    BY <1>13, <1>16 DEF Hand
  <2> QED
    BY <1>10, <1>15, <1>16, <2>1
<1>17. CASE c # NoConn
  BY <1>10, <1>13, <1>15, <1>17 DEF Service!Start, Line, Hand, Done
<1> QED
  BY <1>16, <1>17

(* A worker that leaves start_function is done with its connection.        *)
LEMMA ServeMaps ==
  ASSUME PInv, PInv', OnePlace, NEW t \in Threads, StartFunctionStep(t),
         UNCHANGED <<readyVars, mainVars>>
  PROVE  UNCHANGED <<Line, Hand, Done>> \/ Service!Finish(t)
<1> USE Parts
<1>1. /\ UNCHANGED <<front, rear, queue, main_pc, main_fd, accepted>>
      /\ Contents' = Contents
  BY SameLine DEF readyVars, mainVars
<1>2. /\ pc[t] \in Labels /\ newsockfd' = newsockfd
      /\ \A f \in Fds : f # newsockfd[t] \/ ~Close(t) => table'[f] = table[f]
  BY SfEffect
<1>3. \A v \in Threads : v # t => pc'[v] = pc[v]
  BY StaysInside DEF Goto, TypeOK
<1>4. pc'[t] \in Labels \/ pc'[t] = Return
  BY <1>2, StaysInside DEF Goto, TypeOK
<1>5. Close(t) => pc'[t] = Return
  BY DEF Close, Goto, TypeOK
<1>6. CASE pc'[t] \in Labels
  <2>1. \A f \in Fds : table'[f] = table[f]
    BY <1>2, <1>5, <1>6, Apart, StartAssumption
  <2>2. table \in [Fds -> Conns \cup {NoConn}] /\ table' \in [Fds -> Conns \cup {NoConn}]
    BY DEF PInv, SfInv, SfTypeOK
  <2>3. table' = table
    BY <2>1, <2>2
  <2>4. Serving' = Serving
    BY <1>2, <1>3, <1>6 DEF Serving
  <2> QED
    BY <1>1, <1>2, <2>3, <2>4, QuietStep
<1>7. CASE pc'[t] = Return
  <2>1. pc'[t] \notin Labels
    BY <1>7, StartAssumption
  <2>2. Held' = Held \ {t}
    BY <1>2, <1>3, <2>1 DEF Held, Serving
  <2>3. InUse' = (InUse \ {newsockfd[t]}) \cup {f \in InUse : t \notin Held}
    <3>1. Owned
      BY OwnerShape
    <3>2. t \in Held => /\ newsockfd[t] \notin Lined(Contents)
                        /\ \A v \in Held : newsockfd[v] = newsockfd[t] => v = t
                        /\ main_pc = "insert" /\ main_fd # BadFd => newsockfd[t] # main_fd
      BY <3>1 DEF Owned
    <3>3. Lined(Contents') = Lined(Contents)
      BY <1>1
    <3>4. CASE t \notin Held
      BY <1>1, <1>2, <2>2, <3>3, <3>4 DEF InUse
    <3>5. CASE t \in Held
      <4>1. {newsockfd[v] : v \in Held}' = {newsockfd[v] : v \in Held} \ {newsockfd[t]}
        BY <1>2, <2>2, <3>2, <3>5
      <4> QED
        BY <1>1, <3>2, <3>3, <3>5, <4>1 DEF InUse
    <3> QED
      BY <3>4, <3>5
  <2>4. \A f \in InUse' : table'[f] = table[f]
    <3>1. ASSUME NEW f \in InUse', Close(t) PROVE f # newsockfd[t]
      <4>1. f \in Fds /\ table'[f] # NoConn
        BY UseShapeNext
      <4> QED
        BY <3>1, <4>1 DEF Close, SfTypeOK
    <3> QED
      BY <1>2, <3>1, UseShapeNext
  <2>5. Line' = Line
    <3>1. \A f \in Lined(Contents) : f \in InUse'
      BY <1>1 DEF InUse
    <3>2. ASSUME NEW f \in Lined(Contents) PROVE SocketOf(f)' = SocketOf(f)
      BY <2>4, <3>1 DEF SocketOf
    <3> QED
      BY <1>1, <3>2, SameQueued
  <2>6. Hand' = [Hand EXCEPT ![t] = NoConn]
    <3>1. (PInv => \A w \in Threads :
                     IF w \in Held THEN Hand[w] = table[newsockfd[w]] /\ newsockfd[w] \in InUse
                                   ELSE Hand[w] = NoConn)'
      BY HandShape, PTL
    <3>2. ASSUME NEW v \in Threads PROVE Hand'[v] = IF v = t THEN NoConn ELSE Hand[v]
      BY <1>2, <2>2, <2>4, <3>1, HandShape
    <3> QED
      BY <3>2 DEF Hand
  <2>7. CASE t \notin Held
    <3>1. Hand' = Hand
      BY <2>6, <2>7, HandShape DEF Hand
    <3>2. InUse' = InUse
      BY <2>3, <2>7
    <3>3. \A d : d \in Done' <=> d \in Done
      BY <1>1, <2>4, <3>2, UseShape, UseShapeNext
    <3> QED
      BY <2>5, <3>1, <3>3 DEF Done
  <2>8. CASE t \in Held
    <3> DEFINE c == Hand[t]
    <3>1. c = table[newsockfd[t]] /\ newsockfd[t] \in InUse /\ newsockfd[t] \in Fds /\ c # NoConn
      BY <2>8, HandShape, UseShape
    <3>2. c \in accepted
      BY <3>1 DEF OnePlace
    <3> HIDE DEF c
    <3>3. InUse' = InUse \ {newsockfd[t]}
      BY <2>3, <2>8
    <3>4. \A f \in InUse : f # newsockfd[t] => table[f] # c
      BY <3>1, UseShape DEF OnePlace
    <3>5. \A d : d \in Done' <=> d \in Done \/ d = c
      BY <1>1, <2>4, <3>1, <3>2, <3>3, <3>4, UseShape, UseShapeNext
    <3>6. Done' = Done \cup {c}
      BY <3>5
    <3> QED
      BY <2>5, <2>6, <3>1, <3>6 DEF Service!Finish, Line, Hand, Done, c
  <2> QED
    BY <2>7, <2>8
<1> QED
  BY <1>4, <1>6, <1>7

LEMMA InitMaps == Init => Service!Init
<1> SUFFICES ASSUME Init PROVE Service!Init
  OBVIOUS
<1>1. SfInit("idle") /\ accepted = {}
  BY DEF Init
<1>2. PInv
  BY PInvInit
<1>3. Length = 0
  BY InitEmpty DEF Init, ReadyInit
<1>4. Line = <<>>
  <2>1. Len(Line) \in Nat /\ Len(Line) <= 0 /\ Line \in Seq(Conns \cup {NoConn})
    BY <1>2, <1>3, LineShape
  <2> QED
    BY <2>1
<1>5. Hand = [w \in Threads |-> NoConn]
  BY <1>1, Apart DEF Hand, SfInit
<1>6. Done = {}
  BY <1>1 DEF Done, Left
<1> QED
  BY <1>4, <1>5, <1>6 DEF Service!Init, Line, Hand, Done

(* Ver3's pool implements the abstract service of version 4's, although    *)
(* the -1 of a failed accept goes through queue and workers as well.       *)
THEOREM ConnPoolIsService == Spec => ImplementsService
<1>1. Init => OnePlace
  BY DEF Init, SfInit, OnePlace
<1>2. PInv /\ PInv' /\ OnePlace /\ [Next]_vars => [Service!Next]_Service!vars
  <2> SUFFICES ASSUME PInv, PInv', OnePlace, [Next]_vars
               PROVE  Service!Next \/ UNCHANGED <<Line, Hand, Done>>
    BY DEF Service!vars, Line, Hand, Done
  <2>1. CASE MainStep
    <3>1. CASE AcceptFails \/ MasterWait
      <4>1. /\ UNCHANGED <<front, rear, queue, table, newsockfd, accepted, pc>>
            /\ UNCHANGED <<main_pc, main_fd>> \/ (main_pc # "insert" /\ main_fd' = BadFd)
        BY <3>1 DEF AcceptFails, MasterWait, CondWait, readyVars, sfVars, clientVars,
                    threadVars, mainVars
      <4> QED
        BY <4>1, QuietStep DEF Serving
    <3> QED
      BY <2>1, <3>1, AcceptMaps, InsertMaps DEF MainStep, Service!Next
  <2>2. ASSUME NEW w \in Threads, WorkerStep(w)
        PROVE  Service!Next \/ UNCHANGED <<Line, Hand, Done>>
    <3>1. CASE WorkerWait(w) \/ WorkerWake(w)
      <4>1. /\ UNCHANGED <<front, rear, queue, table, newsockfd, accepted, main_pc, main_fd>>
            /\ pc[w] \in {"idle", "wait"}
            /\ Goto(w, "idle") \/ Goto(w, "wait")
        BY <3>1 DEF WorkerWait, WorkerWake, CondWait, readyVars, clientVars, threadVars, mainVars
      <4>2. Serving' = Serving
        BY <4>1, Parts, Apart DEF Serving, Goto, TypeOK
      <4> QED
        BY <4>1, <4>2, QuietStep
    <3> QED
      BY <2>2, <3>1, TakeMaps, ServeMaps DEF WorkerStep, Service!Next
  <2>3. CASE SpuriousWake \/ UNCHANGED vars
    <3>1. UNCHANGED <<front, rear, queue, table, newsockfd, accepted, pc, main_pc, main_fd>>
      BY <2>3 DEF SpuriousWake, SpuriousWakeup, vars, readyVars, sfVars, clientVars,
                  threadVars, mainVars
    <3> QED
      BY <3>1, QuietStep DEF Serving
  <2> QED
    BY <2>1, <2>2, <2>3 DEF Next
<1> QED
  BY <1>1, <1>2, InitMaps, PInvInit, PInvStep, OnePlaceStep, PTL
  DEF Spec, ImplementsService, Service!Spec
=============================================================================
