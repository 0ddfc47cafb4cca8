----------------------------- MODULE ExchangeProofs ---------------------------
(***************************************************************************)
(* Proofs about the clients of versions 1 to 3 and their servers, for any  *)
(* number of requests, any sizes and any timeout: neither side takes a     *)
(* part for the whole, and what it takes to bring a server down.           *)
(***************************************************************************)
EXTENDS Exchange, TLAPS

(* The server's side of an upload: what it counted, what waits for it, and *)
(* what the client sent.                                                   *)
UploadAgrees ==
  \A y \in Requests :
    /\ conn[y].sent <= bytes
    /\ srv[y].received + conn[y].up = conn[y].sent
    /\ srv[y].pc \in {"none", "size"} => srv[y].received = 0 /\ srv[y].file_bytes = 0
    /\ version = 2 => srv[y].file_bytes = srv[y].received

(* How far the server is with a reply.                                     *)
ReplyAgrees ==
  \A y \in Requests :
    /\ srv[y].pc \in {"none", "size", "body", "grade", "osize"} =>
         conn[y].reply = 0 /\ conn[y].otold = FALSE
    /\ srv[y].pc = "osize" => srv[y].left = srv[y].out
    /\ srv[y].pc = "closed" => srv[y].left = 0

(* The client has one connection at a time that it works on; the earlier   *)
(* ones are behind it, and the later ones are not made.                    *)
Working == c_pc \in {"send", "wait", "size", "read"}

OneAtATime ==
  /\ \A y \in Requests : conn[y].end = "none" => srv[y].pc = "none"
  /\ \A y \in Requests :
       c_pc # "end" /\ (y > x \/ (y = x /\ c_pc = "connect")) => conn[y].end = "none"
  /\ Working => conn[x].end = "open"

(* While the server is there, what it has written of the current reply is  *)
(* on its way to the client or read.                                       *)
ReplyArrives ==
  ~down =>
    /\ c_pc \in {"send", "wait", "size"} /\ srv[x].pc \in {"out", "closed"} =>
         /\ conn[x].otold = TRUE
         /\ conn[x].reply + srv[x].left = srv[x].out
    /\ c_pc = "read" => /\ srv[x].pc \in {"out", "closed"}
                        /\ conn[x].otold = FALSE
                        /\ o_bytes = srv[x].out
                        /\ k + conn[x].reply + srv[x].left = srv[x].out

(* Every request the client is done with was answered or given up, and a   *)
(* connection is closed for a reason.                                      *)
Settled ==
  ~down =>
    /\ \A y \in Requests : y < x \/ c_pc = "end" => y \in answered \cup timedout
    /\ \A y \in Requests :
         conn[y].end = "closed" => \/ c_pc = "end"
                                   \/ y \in answered
                                   \/ version = 2 /\ y \in timedout

(* The timeout is spent once, on the requests up to the current one.       *)
TimeAgrees ==
  /\ timedout # {} => timeout = 0
  /\ waited[x] + timeout <= Timeout
  /\ \A y \in Requests : y > x => waited[y] = 0

(* The inductive invariant.                                                *)
XInv == /\ TypeOK
        /\ UploadAgrees
        /\ ReplyAgrees
        /\ OneAtATime
        /\ ReplyArrives
        /\ Settled
        /\ TimeAgrees
        /\ WholeOnly
        /\ DownOnlyAfterTimeout
        /\ PatienceIsSpent

-----------------------------------------------------------------------------
(* What the helpers do.                                                    *)

LEMMA PieceSizes ==
  ASSUME NEW n \in Nat
  PROVE  /\ Full(n) \in 0 .. n
         /\ n > 0 => Full(n) > 0
         /\ \A i \in Pieces(n) : i \in Nat /\ 0 < i /\ i <= n
BY ExchangeAssumption DEF Full, Pieces

Connections == [end : {"none", "open", "closed"}, told : BOOLEAN, sent : Nat,
                up : Nat, otold : BOOLEAN, reply : Nat]
ThreadStates == [pc : {"none", "size", "body", "grade", "osize", "out", "closed"},
                 file_bytes : Nat, received : Nat, out : OutSizes \cup {0}, left : Nat]

(* Going on to the next request closes connections and does nothing else   *)
(* to them.                                                                *)
LEMMA NextRequestEffect ==
  ASSUME TypeOK, NEW b \in BOOLEAN, NextRequest(b)
  PROVE  /\ conn' \in [Requests -> Connections]
         /\ \A y \in Requests :
              /\ conn'[y].sent = conn[y].sent /\ conn'[y].up = conn[y].up
              /\ conn'[y].otold = conn[y].otold /\ conn'[y].reply = conn[y].reply
              /\ conn'[y].end = IF x = Loops \/ (b /\ y = x) THEN "closed" ELSE conn[y].end
         /\ x' \in Requests
         /\ x = Loops => x' = x /\ c_pc' = "end"
         /\ x # Loops => x' = x + 1 /\ c_pc' = "connect"
<1> USE ExchangeAssumption
<1>1. conn \in [Requests -> Connections] /\ x \in Requests
  BY DEF TypeOK, Connections
<1>2. x' \in Requests
  BY <1>1 DEF NextRequest, Requests
<1>3. ASSUME NEW y \in Requests
      PROVE  /\ conn'[y] \in Connections
             /\ conn'[y].sent = conn[y].sent /\ conn'[y].up = conn[y].up
             /\ conn'[y].otold = conn[y].otold /\ conn'[y].reply = conn[y].reply
             /\ conn'[y].end = IF x = Loops \/ (b /\ y = x) THEN "closed" ELSE conn[y].end
  BY <1>1 DEF NextRequest, Connections
<1>4. conn' \in [Requests -> Connections]
  BY <1>3 DEF NextRequest
<1> QED
  BY <1>2, <1>3, <1>4 DEF NextRequest

(* The client is done with a request: it was answered, and then the whole  *)
(* reply is there or the server is not, or the time is up.                 *)
DoneWith ==
  \/ /\ answered' = answered \cup {x} /\ timedout' = timedout
     /\ NextRequest(TRUE)
     /\ down \/ (srv[x].pc \in {"out", "closed"} /\ srv[x].left = 0 /\ conn[x].otold = FALSE)
  \/ /\ timedout' = timedout \cup {x} /\ answered' = answered
     /\ timeout = 0
     /\ NextRequest(version = 2)

LEMMA DoneWithKeeps ==
  ASSUME XInv, DoneWith, c_pc \in {"wait", "read"}, k' \in Nat,
         UNCHANGED <<version, bytes, o_bytes, timeVars, srv, down>>
  PROVE  XInv'
<1> USE ExchangeAssumption DEF XInv, timeVars
<1>1. PICK b \in BOOLEAN : NextRequest(b) /\ (~b => version # 2 /\ answered' = answered)
  BY DEF DoneWith
<1>2. /\ conn' \in [Requests -> Connections]
      /\ \A y \in Requests :
           /\ conn'[y].sent = conn[y].sent /\ conn'[y].up = conn[y].up
           /\ conn'[y].otold = conn[y].otold /\ conn'[y].reply = conn[y].reply
           /\ conn'[y].end = IF x = Loops \/ (b /\ y = x) THEN "closed" ELSE conn[y].end
      /\ x' \in Requests
      /\ x = Loops => x' = x /\ c_pc' = "end"
      /\ x # Loops => x' = x + 1 /\ c_pc' = "connect"
  BY <1>1, NextRequestEffect
<1>3. /\ answered' \cup timedout' = answered \cup timedout \cup {x}
      /\ answered \subseteq answered' /\ timedout \subseteq timedout'
  BY DEF DoneWith
<1>4. /\ answered' \subseteq Requests /\ timedout' \subseteq Requests
       /\ x \in Nat /\ x <= Loops /\ \A y \in Requests : y \in Nat /\ y <= Loops
  <2>1. x \in Requests /\ answered \subseteq Requests /\ timedout \subseteq Requests
    BY DEF TypeOK
  <2>2. answered' \cup timedout' \subseteq Requests
    BY <1>3, <2>1
  <2> QED
    BY <2>1, <2>2 DEF Requests
<1>5. c_pc' # "read" /\ ~Working'
  BY <1>2, <1>4 DEF Working
<1>6. TypeOK'
  BY <1>2, <1>4 DEF TypeOK, Connections
<1>7. UploadAgrees' /\ ReplyAgrees'
  BY <1>2 DEF UploadAgrees, ReplyAgrees
<1>8. OneAtATime'
  <2>1. conn[x].end = "open"
    BY DEF OneAtATime, Working
  <2>2. \A y \in Requests : conn'[y].end = "none" => conn[y].end = "none"
    BY <1>2
  <2>3. x # Loops => \A y \in Requests : y >= x' => y > x
    BY <1>2, <1>4
  <2>4. x # Loops => \A y \in Requests : y > x => conn'[y].end = "none"
    BY <1>2, <1>4 DEF OneAtATime
  <2> QED
    BY <1>2, <1>4, <1>5, <2>2, <2>3, <2>4 DEF OneAtATime
<1>9. ReplyArrives'
  BY <1>2, <1>4, <1>5 DEF ReplyArrives
<1>10. Settled'
  <2> SUFFICES ASSUME ~down
               PROVE  Settled'
    BY DEF Settled
  <2>1. ASSUME NEW y \in Requests, y < x' \/ c_pc' = "end"
        PROVE  y \in answered' \cup timedout'
    <3>1. y < x \/ y = x
      BY <1>2, <1>4, <2>1
    <3> QED
      BY <1>3, <3>1 DEF Settled
  <2>2. ASSUME NEW y \in Requests, conn'[y].end = "closed", c_pc' # "end"
        PROVE  y \in answered' \/ (version = 2 /\ y \in timedout')
    <3>1. CASE y # x
      BY <1>2, <1>3, <2>2, <3>1 DEF Settled
    <3>2. CASE y = x
      <4>1. b
        BY <1>2, <2>2, <3>2 DEF OneAtATime, Working
      <4> QED
        BY <1>1, <1>2, <2>2, <3>2, <4>1 DEF DoneWith, Settled, OneAtATime, Working, NextRequest
    <3> QED
      BY <3>1, <3>2
  <2> QED
    BY <2>1, <2>2 DEF Settled
<1>11. TimeAgrees'
  <2>1. timedout' # {} => timeout' = 0
    BY DEF DoneWith, TimeAgrees
  <2>2. waited'[x'] + timeout' <= Timeout
    BY <1>2, <1>4 DEF TimeAgrees, TypeOK
  <2>3. \A y \in Requests : y > x' => waited'[y] = 0
    BY <1>2, <1>4 DEF TimeAgrees
  <2> QED
    BY <2>1, <2>2, <2>3 DEF TimeAgrees
<1>12. PatienceIsSpent'
  BY <1>2, <1>4 DEF PatienceIsSpent, TimeAgrees, DoneWith
<1>13. WholeOnly'
  <2>1. \A y \in answered' : y \in answered \/ (y = x /\ (down \/ (srv[x].pc \in {"out", "closed"}
                                   /\ srv[x].left = 0 /\ conn[x].otold = FALSE)))
    BY DEF DoneWith
  <2> QED
    BY <1>2, <1>4, <2>1 DEF WholeOnly, GradedWhole, CountedWhole
<1>14. DownOnlyAfterTimeout'
  BY <1>3 DEF DownOnlyAfterTimeout
<1> QED
  BY <1>6, <1>7, <1>8, <1>9, <1>10, <1>11, <1>13, <1>14, <1>12

-----------------------------------------------------------------------------
(* Each action of the client and of the server keeps the invariant; one    *)
(* lemma per action, and in it one step per part of the invariant.         *)

LEMMA ConnectKeeps ==
  ASSUME XInv, Connect
  PROVE  XInv'
<1> USE ExchangeAssumption DEF XInv, TypeOK, Connect, timeVars, clientVars
<1>1. TypeOK'
  <2>1. conn'[x] \in Connections /\ \A y \in Requests \ {x} : conn'[y] = conn[y]
    BY DEF Connections
  <2>2. conn' \in [Requests -> Connections]
    BY <2>1 DEF Connections
  <2> QED
    BY <2>2 DEF Connections
<1>2. UploadAgrees'
  BY DEF UploadAgrees
<1>3. ReplyAgrees'
  BY DEF ReplyAgrees
<1>4. OneAtATime'
  <2>1. /\ conn'[x].end = "open" /\ c_pc' = "send" /\ x' = x /\ srv' = srv
        /\ \A y \in Requests \ {x} : conn'[y].end = conn[y].end
    OBVIOUS
  <2>2. x \in Nat /\ \A y \in Requests : y \in Nat
    BY DEF Requests
  <2>3. \A y \in Requests : y > x => conn[y].end = "none"
    BY DEF OneAtATime
  <2>4. \A y \in Requests : conn[y].end = "none" => srv[y].pc = "none"
    BY DEF OneAtATime
  <2> QED
    BY <2>1, <2>2, <2>3, <2>4 DEF OneAtATime, Working
<1>5. ReplyArrives'
  BY DEF ReplyArrives, OneAtATime, ReplyAgrees, Working
<1>6. Settled'
  BY DEF Settled
<1>7. TimeAgrees'
  BY DEF TimeAgrees
<1>8. WholeOnly'
  BY DEF WholeOnly, GradedWhole, CountedWhole
<1>9. DownOnlyAfterTimeout' /\ PatienceIsSpent'
  BY DEF DownOnlyAfterTimeout, PatienceIsSpent
<1> QED
  BY <1>1, <1>2, <1>3, <1>4, <1>5, <1>6, <1>7, <1>8, <1>9

LEMMA SendKeeps ==
  ASSUME XInv, Send
  PROVE  XInv'
<1> USE ExchangeAssumption DEF XInv, TypeOK, Send, timeVars, clientVars
<1>1. TypeOK'
  <2> DEFINE n == Full(bytes - conn[x].sent)
  <2>1. conn \in [Requests -> Connections] /\ x \in Requests
    BY DEF Connections
  <2>2. n \in Nat
    BY PieceSizes
  <2>3. conn' \in [Requests -> Connections]
    <3>1. conn' = [conn EXCEPT ![x].sent = @ + n, ![x].up = @ + n]
      OBVIOUS
    <3> HIDE DEF n, XInv, TypeOK, Send
    <3>2. conn'[x] = [conn[x] EXCEPT !.sent = @ + n, !.up = @ + n]
      BY <2>1, <3>1
    <3>3. conn'[x] \in Connections
      <4> DEFINE c == conn[x]
      <4>1. c \in Connections
        BY <2>1
      <4>2. c.sent + n \in Nat /\ c.up + n \in Nat
        BY <2>2, <4>1 DEF Connections
      <4> HIDE DEF c
      <4>3. [c EXCEPT !.sent = @ + n, !.up = @ + n] \in Connections
        BY <4>1, <4>2 DEF Connections
      <4> QED
        BY <3>2, <4>3 DEF c
    <3> QED
      BY <2>1, <3>1, <3>3
  <2> QED
    BY <2>3 DEF Connections
<1>2. UploadAgrees'
  BY PieceSizes DEF UploadAgrees
<1>3. ReplyAgrees'
  BY PieceSizes DEF ReplyAgrees
<1>4. OneAtATime'
  BY PieceSizes DEF OneAtATime, Working
<1>5. ReplyArrives'
  BY PieceSizes DEF ReplyArrives, OneAtATime, ReplyAgrees, Working
<1>6. Settled'
  BY PieceSizes DEF Settled
<1>7. TimeAgrees'
  BY PieceSizes DEF TimeAgrees
<1>8. WholeOnly'
  BY PieceSizes DEF WholeOnly, GradedWhole, CountedWhole
<1>9. DownOnlyAfterTimeout' /\ PatienceIsSpent'
  BY PieceSizes DEF DownOnlyAfterTimeout, PatienceIsSpent
<1> QED
  BY <1>1, <1>2, <1>3, <1>4, <1>5, <1>6, <1>7, <1>8, <1>9

LEMMA SendEndsKeeps ==
  ASSUME XInv, SendEnds
  PROVE  XInv'
<1> USE ExchangeAssumption DEF XInv, TypeOK, SendEnds, timeVars, clientVars
<1>1. TypeOK'
  OBVIOUS
<1>2. UploadAgrees'
  BY DEF UploadAgrees
<1>3. ReplyAgrees'
  BY DEF ReplyAgrees
<1>4. OneAtATime'
  BY DEF OneAtATime, Working
<1>5. ReplyArrives'
  BY DEF ReplyArrives, OneAtATime, ReplyAgrees, Working
<1>6. Settled'
  BY DEF Settled
<1>7. TimeAgrees'
  BY DEF TimeAgrees
<1>8. WholeOnly'
  BY DEF WholeOnly, GradedWhole, CountedWhole
<1>9. DownOnlyAfterTimeout' /\ PatienceIsSpent'
  BY DEF DownOnlyAfterTimeout, PatienceIsSpent
<1> QED
  BY <1>1, <1>2, <1>3, <1>4, <1>5, <1>6, <1>7, <1>8, <1>9

LEMMA SelectKeeps ==
  ASSUME XInv, Select
  PROVE  XInv'
<1> USE ExchangeAssumption DEF XInv, TypeOK, Select, timeVars, clientVars
<1>1. TypeOK'
  OBVIOUS
<1>2. UploadAgrees'
  BY DEF UploadAgrees
<1>3. ReplyAgrees'
  BY DEF ReplyAgrees
<1>4. OneAtATime'
  BY DEF OneAtATime, Working
<1>5. ReplyArrives'
  BY DEF ReplyArrives, OneAtATime, ReplyAgrees, Working
<1>6. Settled'
  BY DEF Settled
<1>7. TimeAgrees'
  BY DEF TimeAgrees
<1>8. WholeOnly'
  BY DEF WholeOnly, GradedWhole, CountedWhole
<1>9. DownOnlyAfterTimeout' /\ PatienceIsSpent'
  BY DEF DownOnlyAfterTimeout, PatienceIsSpent
<1> QED
  BY <1>1, <1>2, <1>3, <1>4, <1>5, <1>6, <1>7, <1>8, <1>9

LEMMA WaitKeeps ==
  ASSUME XInv, Wait
  PROVE  XInv'
<1> USE ExchangeAssumption DEF XInv, Wait
<1>1. /\ timeout \in Nat /\ timeout' = timeout - 1 /\ timeout > 0 /\ timeout <= Timeout
      /\ timedout = {} /\ timedout' = {}
      /\ x \in Requests /\ x' = x
  BY DEF TypeOK, TimeAgrees
<1>2. /\ waited \in [Requests -> 0 .. Timeout]
      /\ waited[x] \in Nat /\ waited[x] + timeout <= Timeout
      /\ waited' = [waited EXCEPT ![x] = @ + 1]
  BY <1>1 DEF TypeOK, TimeAgrees
<1>3. waited[x] + 1 \in 0 .. Timeout /\ timeout' \in 0 .. Timeout
  BY <1>1, <1>2
<1>4. waited' \in [Requests -> 0 .. Timeout] /\ waited'[x] = waited[x] + 1
  BY <1>1, <1>2, <1>3
<1>5. TypeOK'
  BY <1>3, <1>4 DEF TypeOK
<1>6. UploadAgrees' /\ ReplyAgrees'
  BY DEF UploadAgrees, ReplyAgrees
<1>7. OneAtATime' /\ ReplyArrives' /\ Settled'
  BY DEF OneAtATime, ReplyArrives, Settled, Working
<1>8. TimeAgrees'
  BY <1>1, <1>2, <1>4 DEF TimeAgrees, Requests
<1>9. WholeOnly'
  BY DEF WholeOnly, GradedWhole, CountedWhole
<1>10. DownOnlyAfterTimeout' /\ PatienceIsSpent'
  BY <1>1 DEF DownOnlyAfterTimeout, PatienceIsSpent
<1> QED
  BY <1>5, <1>6, <1>7, <1>8, <1>9, <1>10

LEMMA TimeOutKeeps ==
  ASSUME XInv, TimeOut
  PROVE  XInv'
<1>1. DoneWith
  BY DEF TimeOut, DoneWith
<1>2. c_pc = "wait" /\ k' \in Nat /\ UNCHANGED <<version, bytes, o_bytes, timeVars, srv, down>>
  BY DEF TimeOut, XInv, TypeOK
<1> QED
  BY <1>1, <1>2, DoneWithKeeps

LEMMA ReadSizeKeeps ==
  ASSUME XInv, ReadSize
  PROVE  XInv'
<1> USE ExchangeAssumption DEF XInv, TypeOK, ReadSize, timeVars, clientVars
<1>1. TypeOK'
  <2>1. conn \in [Requests -> Connections] /\ x \in Requests
        /\ conn' = [conn EXCEPT ![x].otold = FALSE]
    BY DEF Connections
  <2>2. conn' \in [Requests -> Connections]
    <3> HIDE DEF XInv, TypeOK, ReadSize
    <3>1. conn'[x] = [conn[x] EXCEPT !.otold = FALSE]
      BY <2>1
    <3>2. conn'[x] \in Connections
      BY <2>1, <3>1 DEF Connections
    <3> QED
      BY <2>1, <3>2
  <2>3. o_bytes' \in OutSizes \cup {0}
    OBVIOUS
  <2> QED
    BY <2>2, <2>3 DEF Connections
<1>2. UploadAgrees'
  BY DEF UploadAgrees
<1>3. ReplyAgrees'
  BY DEF ReplyAgrees
<1>4. OneAtATime'
  BY DEF OneAtATime, Working
<1>5. ReplyArrives'
  BY DEF ReplyArrives, OneAtATime, ReplyAgrees, Working
<1>6. Settled'
  BY DEF Settled
<1>7. TimeAgrees'
  BY DEF TimeAgrees
<1>8. WholeOnly'
  BY DEF WholeOnly, GradedWhole, CountedWhole
<1>9. DownOnlyAfterTimeout' /\ PatienceIsSpent'
  BY DEF DownOnlyAfterTimeout, PatienceIsSpent
<1> QED
  BY <1>1, <1>2, <1>3, <1>4, <1>5, <1>6, <1>7, <1>8, <1>9

LEMMA ReadReplyKeeps ==
  ASSUME XInv, ReadReply
  PROVE  XInv'
<1> USE ExchangeAssumption DEF XInv
<1>1. /\ c_pc = "read" /\ x \in Requests /\ k \in Nat
      /\ conn \in [Requests -> Connections] /\ srv \in [Requests -> ThreadStates]
      /\ UNCHANGED <<version, bytes, o_bytes, timeVars, timedout, srv, down>>
  BY DEF ReadReply, TypeOK, Connections, ThreadStates
<1>2. PICK n \in Pieces(conn[x].reply) :
        /\ k' = k + n
        /\ IF k' = o_bytes
           THEN /\ answered' = answered \cup {x}
                /\ NextRequest(TRUE)
           ELSE /\ conn' = [conn EXCEPT ![x].reply = @ - n]
                /\ UNCHANGED <<x, c_pc, answered>>
  BY DEF ReadReply
<1>3. n \in Nat /\ n > 0 /\ n <= conn[x].reply /\ conn[x].reply \in Nat
  BY <1>1, <1>2, PieceSizes DEF Connections
<1>4. CASE k' = o_bytes
  <2>1. /\ ~down => /\ srv[x].pc \in {"out", "closed"}
                    /\ conn[x].otold = FALSE
                    /\ o_bytes = srv[x].out
                    /\ k + conn[x].reply + srv[x].left = srv[x].out
        /\ srv[x].left \in Nat
    BY <1>1 DEF ReplyArrives, ThreadStates
  <2>2. ~down => srv[x].left = 0
    BY <1>1, <1>2, <1>3, <1>4, <2>1
  <2>3. DoneWith
    BY <1>1, <1>2, <1>4, <2>1, <2>2 DEF DoneWith
  <2> QED
    BY <1>1, <1>2, <1>3, <2>3, DoneWithKeeps
<1>5. CASE k' # o_bytes
  <2>1. /\ conn' = [conn EXCEPT ![x].reply = @ - n]
        /\ UNCHANGED <<x, c_pc, answered>>
    BY <1>2, <1>5
  <2>2. /\ \A y \in Requests \ {x} : conn'[y] = conn[y]
        /\ conn'[x] = [conn[x] EXCEPT !.reply = @ - n]
        /\ conn[x].reply - n \in Nat
    BY <1>1, <1>3, <2>1
  <2>3. /\ conn' \in [Requests -> Connections]
        /\ \A y \in Requests :
             /\ conn'[y].sent = conn[y].sent /\ conn'[y].up = conn[y].up
             /\ conn'[y].otold = conn[y].otold /\ conn'[y].end = conn[y].end
        /\ conn'[x].reply = conn[x].reply - n
    BY <1>1, <2>1, <2>2 DEF Connections
  <2>4. /\ srv[x].pc \in {"none", "size", "body", "grade", "osize"} => conn[x].reply = 0
        /\ k' \in Nat
    BY <1>1, <1>2, <1>3 DEF ReplyAgrees
  <2> USE <1>1 DEF timeVars
  <2>5. TypeOK'
    BY <2>1, <2>3, <2>4 DEF TypeOK, Connections
  <2>6. UploadAgrees'
    BY <2>3 DEF UploadAgrees
  <2>7. ReplyAgrees'
    BY <1>3, <2>2, <2>3, <2>4 DEF ReplyAgrees
  <2>8. OneAtATime' /\ Settled'
    BY <2>1, <2>3 DEF OneAtATime, Settled, Working
  <2>9. ReplyArrives'
    BY <1>2, <1>3, <2>1, <2>3 DEF ReplyArrives, ThreadStates
  <2>10. TimeAgrees' /\ DownOnlyAfterTimeout' /\ PatienceIsSpent'
    BY <2>1 DEF TimeAgrees, DownOnlyAfterTimeout, PatienceIsSpent
  <2>11. WholeOnly'
    BY <2>1, <2>3 DEF WholeOnly, GradedWhole, CountedWhole, TypeOK
  <2> QED
    BY <2>5, <2>6, <2>7, <2>8, <2>9, <2>10, <2>11
<1> QED
  BY <1>4, <1>5

LEMMA ReadEndKeeps ==
  ASSUME XInv, ReadEnd
  PROVE  XInv'
<1>1. ~down => srv[x].pc = "closed" /\ srv[x].left = 0 /\ conn[x].otold = FALSE
  BY DEF ReadEnd, XInv, TypeOK, ReplyAgrees, ReplyArrives
<1>2. DoneWith
  BY <1>1 DEF ReadEnd, DoneWith
<1>3. c_pc = "read" /\ k' \in Nat /\ UNCHANGED <<version, bytes, o_bytes, timeVars, srv, down>>
  BY DEF ReadEnd, XInv, TypeOK
<1> QED
  BY <1>2, <1>3, DoneWithKeeps

LEMMA ClientFailsKeeps ==
  ASSUME XInv, ClientFails
  PROVE  XInv'
<1> USE ExchangeAssumption DEF XInv, TypeOK, ClientFails, timeVars, clientVars
<1>1. TypeOK'
  OBVIOUS
<1>2. UploadAgrees'
  BY DEF UploadAgrees
<1>3. ReplyAgrees'
  BY DEF ReplyAgrees
<1>4. OneAtATime'
  BY DEF OneAtATime, Working
<1>5. ReplyArrives'
  BY DEF ReplyArrives, OneAtATime, ReplyAgrees, Working
<1>6. Settled'
  BY DEF Settled
<1>7. TimeAgrees'
  BY DEF TimeAgrees
<1>8. WholeOnly'
  BY DEF WholeOnly, GradedWhole, CountedWhole
<1>9. DownOnlyAfterTimeout' /\ PatienceIsSpent'
  BY DEF DownOnlyAfterTimeout, PatienceIsSpent
<1> QED
  BY <1>1, <1>2, <1>3, <1>4, <1>5, <1>6, <1>7, <1>8, <1>9

LEMMA AcceptKeeps ==
  ASSUME XInv, NEW y \in Requests, Accept(y)
  PROVE  XInv'
<1> USE ExchangeAssumption DEF XInv, TypeOK, Accept, timeVars, clientVars, ServerAt
<1>1. TypeOK'
  OBVIOUS
<1>2. UploadAgrees'
  BY DEF UploadAgrees
<1>3. ReplyAgrees'
  BY DEF ReplyAgrees
<1>4. OneAtATime'
  BY DEF OneAtATime, Working
<1>5. ReplyArrives'
  BY DEF ReplyArrives, OneAtATime, ReplyAgrees, Working
<1>6. Settled'
  BY DEF Settled
<1>7. TimeAgrees'
  BY DEF TimeAgrees
<1>8. WholeOnly'
  BY DEF WholeOnly, GradedWhole, CountedWhole
<1>9. DownOnlyAfterTimeout' /\ PatienceIsSpent'
  BY DEF DownOnlyAfterTimeout, PatienceIsSpent
<1> QED
  BY <1>1, <1>2, <1>3, <1>4, <1>5, <1>6, <1>7, <1>8, <1>9

LEMMA ServerReadsSizeKeeps ==
  ASSUME XInv, NEW y \in Requests, ServerReadsSize(y)
  PROVE  XInv'
<1> USE ExchangeAssumption DEF XInv, TypeOK, ServerReadsSize, timeVars, clientVars, ServerAt
<1>1. TypeOK'
  <2>1. srv' \in [Requests -> ThreadStates]
    BY DEF ThreadStates
  <2> QED
    BY <2>1 DEF ThreadStates
<1>2. UploadAgrees'
  BY DEF UploadAgrees
<1>3. ReplyAgrees'
  BY DEF ReplyAgrees
<1>4. OneAtATime'
  BY DEF OneAtATime, Working
<1>5. ReplyArrives'
  BY DEF ReplyArrives, OneAtATime, ReplyAgrees, Working
<1>6. Settled'
  BY DEF Settled
<1>7. TimeAgrees'
  BY DEF TimeAgrees
<1>8. WholeOnly'
  BY DEF WholeOnly, GradedWhole, CountedWhole
<1>9. DownOnlyAfterTimeout' /\ PatienceIsSpent'
  BY DEF DownOnlyAfterTimeout, PatienceIsSpent
<1> QED
  BY <1>1, <1>2, <1>3, <1>4, <1>5, <1>6, <1>7, <1>8, <1>9

LEMMA ServerReadsKeeps ==
  ASSUME XInv, NEW y \in Requests, ServerReads(y)
  PROVE  XInv'
<1> USE ExchangeAssumption DEF XInv, TypeOK, ServerReads, timeVars, clientVars, ServerAt, ReadReturns, Counted
<1>1. TypeOK'
  <2>1. PICK n \in ReadReturns(y) :
          /\ conn' = [conn EXCEPT ![y].up = @ - n]
          /\ srv' = [srv EXCEPT ![y].pc = IF Counted(y, n) = bytes THEN "grade" ELSE "body",
                                ![y].file_bytes = Counted(y, n),
                                ![y].received = @ + n]
    OBVIOUS
  <2>2. n \in Nat /\ n <= conn[y].up
    BY PieceSizes
  <2>3. srv \in [Requests -> ThreadStates]
    BY DEF ThreadStates
  <2>4. conn' \in [Requests -> Connections]
    BY <2>1, <2>2 DEF Connections
  <2>5. Counted(y, n) \in Nat /\ srv[y].received + n \in Nat /\ srv[y] \in ThreadStates
    BY <2>2 DEF ThreadStates
  <2>6. srv'[y] \in ThreadStates /\ \A z \in Requests \ {y} : srv'[z] = srv[z]
    <3> HIDE DEF Counted, XInv, TypeOK, ServerReads
    <3>1. srv'[y] = [srv[y] EXCEPT !.pc = IF Counted(y, n) = bytes THEN "grade" ELSE "body",
                                   !.file_bytes = Counted(y, n),
                                   !.received = @ + n]
      BY <2>1, <2>3
    <3>2. srv'[y] \in ThreadStates
      BY <2>5, <3>1 DEF ThreadStates
    <3> QED
      BY <2>1, <2>3, <3>2
  <2>7. srv' \in [Requests -> ThreadStates]
    BY <2>1, <2>6 DEF ThreadStates
  <2> QED
    BY <2>4, <2>7 DEF Connections, ThreadStates
<1>2. UploadAgrees'
  BY PieceSizes DEF UploadAgrees
<1>3. ReplyAgrees'
  BY PieceSizes DEF ReplyAgrees
<1>4. OneAtATime'
  BY PieceSizes DEF OneAtATime, Working
<1>5. ReplyArrives'
  BY PieceSizes DEF ReplyArrives, OneAtATime, ReplyAgrees, Working
<1>6. Settled'
  BY PieceSizes DEF Settled
<1>7. TimeAgrees'
  BY PieceSizes DEF TimeAgrees
<1>8. WholeOnly'
  BY PieceSizes DEF WholeOnly, GradedWhole, CountedWhole, UploadAgrees
<1>9. DownOnlyAfterTimeout' /\ PatienceIsSpent'
  BY PieceSizes DEF DownOnlyAfterTimeout, PatienceIsSpent
<1> QED
  BY <1>1, <1>2, <1>3, <1>4, <1>5, <1>6, <1>7, <1>8, <1>9

LEMMA GradeKeeps ==
  ASSUME XInv, NEW y \in Requests, Grade(y)
  PROVE  XInv'
<1> USE ExchangeAssumption DEF XInv, TypeOK, Grade, timeVars, clientVars, ServerAt
<1>1. TypeOK'
  <2>1. PICK o \in OutSizes :
          srv' = [srv EXCEPT ![y].pc = "osize", ![y].out = o, ![y].left = o]
    OBVIOUS
  <2>2. srv \in [Requests -> ThreadStates] /\ o \in Nat
    BY DEF ThreadStates
  <2>3. srv' \in [Requests -> ThreadStates]
    <3> HIDE DEF XInv, TypeOK, Grade
    <3>1. srv'[y] = [srv[y] EXCEPT !.pc = "osize", !.out = o, !.left = o]
      BY <2>1, <2>2
    <3>2. srv'[y] \in ThreadStates
      BY <2>2, <3>1 DEF ThreadStates
    <3> QED
      BY <2>1, <2>2, <3>2
  <2> QED
    BY <2>3 DEF ThreadStates
<1>2. UploadAgrees'
  BY DEF UploadAgrees
<1>3. ReplyAgrees'
  BY DEF ReplyAgrees
<1>4. OneAtATime'
  BY DEF OneAtATime, Working
<1>5. ReplyArrives'
  BY DEF ReplyArrives, OneAtATime, ReplyAgrees, Working
<1>6. Settled'
  BY DEF Settled
<1>7. TimeAgrees'
  BY DEF TimeAgrees
<1>8. WholeOnly'
  BY DEF WholeOnly, GradedWhole, CountedWhole
<1>9. DownOnlyAfterTimeout' /\ PatienceIsSpent'
  BY DEF DownOnlyAfterTimeout, PatienceIsSpent
<1> QED
  BY <1>1, <1>2, <1>3, <1>4, <1>5, <1>6, <1>7, <1>8, <1>9

(* A write can only break the pipe of a client that gave up the request,   *)
(* and so not of one that is at work on it.                                *)
LEMMA BrokenPipe ==
  ASSUME XInv, NEW y \in Requests, ~down, conn[y].end = "closed",
         srv[y].pc = "osize" \/ (srv[y].pc = "out" /\ srv[y].left > 0)
  PROVE  /\ timedout # {} /\ (version = 3 => c_pc = "end")
         /\ ~(y = x /\ Working)
<1>1. y \notin answered
  BY DEF XInv, WholeOnly, CountedWhole
<1> QED
  BY <1>1 DEF XInv, Settled, OneAtATime

LEMMA ServerWritesSizeKeeps ==
  ASSUME XInv, NEW y \in Requests, ServerWritesSize(y)
  PROVE  XInv'
<1> USE DEF XInv, clientVars, timeVars
<1>1. /\ conn \in [Requests -> Connections] /\ srv \in [Requests -> ThreadStates]
      /\ ~down /\ srv[y].pc = "osize" /\ UNCHANGED <<version, bytes, clientVars>>
      /\ srv' = [srv EXCEPT ![y].pc = "out"]
  BY DEF ServerWritesSize, ServerAt, TypeOK, Connections, ThreadStates
<1>2. \/ /\ conn[y].end = "open" /\ down' = down
         /\ conn' = [conn EXCEPT ![y].otold = TRUE]
      \/ /\ conn[y].end = "closed" /\ conn' = conn /\ down' \in BOOLEAN
  BY DEF ServerWritesSize, Writes
<1>3. /\ srv' \in [Requests -> ThreadStates]
      /\ srv'[y].pc = "out" /\ srv'[y].left = srv[y].left /\ srv'[y].out = srv[y].out
      /\ srv'[y].received = srv[y].received /\ srv'[y].file_bytes = srv[y].file_bytes
      /\ \A z \in Requests \ {y} : srv'[z] = srv[z]
  BY <1>1 DEF ThreadStates
<1>4. /\ conn' \in [Requests -> Connections]
      /\ \A z \in Requests :
           /\ conn'[z].end = conn[z].end /\ conn'[z].sent = conn[z].sent
           /\ conn'[z].up = conn[z].up /\ conn'[z].reply = conn[z].reply
      /\ \A z \in Requests \ {y} : conn'[z].otold = conn[z].otold
      /\ conn[y].end = "open" => conn'[y].otold = TRUE
  <2>1. CASE conn' = [conn EXCEPT ![y].otold = TRUE]
    BY <1>1, <2>1 DEF Connections
  <2>2. CASE conn[y].end = "closed" /\ conn' = conn
    BY <1>1, <2>2
  <2> QED
    BY <1>2, <2>1, <2>2
<1>5. TypeOK'
  BY <1>1, <1>2, <1>3, <1>4 DEF TypeOK, Connections, ThreadStates
<1>6. UploadAgrees'
  BY <1>1, <1>3, <1>4 DEF UploadAgrees
<1>7. ReplyAgrees'
  BY <1>1, <1>3, <1>4 DEF ReplyAgrees
<1>8. OneAtATime' /\ Settled'
  <2>1. srv[y].pc # "none" /\ conn[y].end # "none" /\ x \in Requests
    BY <1>1, <1>2 DEF TypeOK
  <2>2. OneAtATime'
    <3>1. \A z \in Requests : conn'[z].end = "none" => srv'[z].pc = "none"
      BY <1>3, <1>4, <2>1 DEF OneAtATime
    <3>2. x' = x /\ c_pc' = c_pc
      BY <1>1
    <3> QED
      BY <1>3, <1>4, <2>1, <3>1, <3>2 DEF OneAtATime, Working
  <2>3. Settled'
    BY <1>1, <1>3, <1>4 DEF Settled
  <2> QED
    BY <2>2, <2>3
<1>9. ReplyArrives'
  <2>1. x = y /\ Working => conn[y].end = "open"
    BY DEF OneAtATime
  <2>2. srv[y].left = srv[y].out /\ conn[y].reply = 0 /\ srv[y].out \in Nat
    BY <1>1, ExchangeAssumption DEF ReplyAgrees, ThreadStates
  <2>3. x = y => c_pc # "read"
    BY <1>1 DEF ReplyArrives
  <2> QED
    BY <1>1, <1>3, <1>4, <2>1, <2>2, <2>3 DEF ReplyArrives, Working, TypeOK
<1>10. TimeAgrees' /\ PatienceIsSpent'
  BY <1>1 DEF TimeAgrees, PatienceIsSpent
<1>11. WholeOnly'
  BY <1>1, <1>3, <1>4 DEF WholeOnly, GradedWhole, CountedWhole, TypeOK
<1>12. DownOnlyAfterTimeout'
  BY <1>1, <1>2, BrokenPipe DEF DownOnlyAfterTimeout
<1> QED
  BY <1>5, <1>6, <1>7, <1>8, <1>9, <1>10, <1>11, <1>12

LEMMA ServerWritesKeeps ==
  ASSUME XInv, NEW y \in Requests, ServerWrites(y)
  PROVE  XInv'
<1> USE DEF XInv, clientVars, timeVars
<1> DEFINE n == Full(srv[y].left)
<1>1. /\ conn \in [Requests -> Connections] /\ srv \in [Requests -> ThreadStates]
      /\ ~down /\ srv[y].pc = "out" /\ UNCHANGED <<version, bytes, clientVars>>
      /\ srv' = [srv EXCEPT ![y].left = @ - n]
  BY DEF ServerWrites, ServerAt, TypeOK, Connections, ThreadStates
<1>2. \/ /\ conn[y].end = "open" /\ down' = down
         /\ conn' = [conn EXCEPT ![y].reply = @ + n]
      \/ /\ conn[y].end = "closed" /\ conn' = conn /\ down' \in BOOLEAN
  BY DEF ServerWrites, Writes
<1>3. /\ n \in Nat /\ n > 0 /\ n <= srv[y].left /\ srv[y].left \in Nat
      /\ conn[y].reply \in Nat
  <2>1. srv[y].left \in Nat /\ conn[y].reply \in Nat
    BY <1>1 DEF ThreadStates, Connections
  <2> QED
    BY <2>1, PieceSizes DEF ServerWrites
<1> HIDE DEF n
<1>4. /\ srv' \in [Requests -> ThreadStates]
      /\ srv'[y].pc = "out" /\ srv'[y].left = srv[y].left - n /\ srv'[y].out = srv[y].out
      /\ srv'[y].received = srv[y].received /\ srv'[y].file_bytes = srv[y].file_bytes
      /\ \A z \in Requests \ {y} : srv'[z] = srv[z]
  BY <1>1, <1>3 DEF ThreadStates
<1>5. /\ conn' \in [Requests -> Connections]
      /\ \A z \in Requests :
           /\ conn'[z].end = conn[z].end /\ conn'[z].sent = conn[z].sent
           /\ conn'[z].up = conn[z].up /\ conn'[z].otold = conn[z].otold
      /\ \A z \in Requests \ {y} : conn'[z].reply = conn[z].reply
      /\ conn[y].end = "open" => conn'[y].reply = conn[y].reply + n
  BY <1>1, <1>2, <1>3 DEF Connections
<1>6. TypeOK'
  BY <1>1, <1>2, <1>4, <1>5 DEF TypeOK, Connections, ThreadStates
<1>7. UploadAgrees'
  BY <1>1, <1>4, <1>5 DEF UploadAgrees
<1>8. ReplyAgrees'
  BY <1>1, <1>4, <1>5 DEF ReplyAgrees
<1>9. OneAtATime' /\ Settled'
  <2>1. srv[y].pc # "none" /\ conn[y].end # "none" /\ x \in Requests
    BY <1>1, <1>2 DEF TypeOK
  <2>2. OneAtATime'
    <3>1. \A z \in Requests : conn'[z].end = "none" => srv'[z].pc = "none"
      BY <1>4, <1>5, <2>1 DEF OneAtATime
    <3>2. x' = x /\ c_pc' = c_pc
      BY <1>1
    <3> QED
      BY <1>4, <1>5, <2>1, <3>1, <3>2 DEF OneAtATime, Working
  <2>3. Settled'
    BY <1>1, <1>4, <1>5 DEF Settled
  <2> QED
    BY <2>2, <2>3
<1>10. ReplyArrives'
  <2>1. x = y /\ Working => conn[y].end = "open"
    BY DEF OneAtATime
  <2>2. srv[y].out \in Nat /\ k \in Nat
    BY <1>1, ExchangeAssumption DEF ThreadStates, TypeOK
  <2> QED
    BY <1>1, <1>3, <1>4, <1>5, <2>1, <2>2 DEF ReplyArrives, Working, TypeOK
<1>11. TimeAgrees' /\ PatienceIsSpent'
  BY <1>1 DEF TimeAgrees, PatienceIsSpent
<1>12. WholeOnly'
  BY <1>1, <1>3, <1>4, <1>5 DEF WholeOnly, GradedWhole, CountedWhole, TypeOK
<1>13. DownOnlyAfterTimeout'
  <2>1. srv[y].left > 0
    BY <1>3
  <2>2. conn[y].end = "closed" => timedout # {} /\ (version = 3 => c_pc = "end")
    BY <1>1, <2>1, BrokenPipe
  <2> QED
    BY <1>1, <1>2, <2>2 DEF DownOnlyAfterTimeout
<1> QED
  BY <1>6, <1>7, <1>8, <1>9, <1>10, <1>11, <1>12, <1>13

LEMMA ServerClosesKeeps ==
  ASSUME XInv, NEW y \in Requests, ServerCloses(y)
  PROVE  XInv'
<1> USE ExchangeAssumption DEF XInv, TypeOK, ServerCloses, timeVars, clientVars, ServerAt
<1>1. TypeOK'
  OBVIOUS
<1>2. UploadAgrees'
  BY DEF UploadAgrees
<1>3. ReplyAgrees'
  BY DEF ReplyAgrees
<1>4. OneAtATime'
  BY DEF OneAtATime, Working
<1>5. ReplyArrives'
  BY DEF ReplyArrives, OneAtATime, ReplyAgrees, Working
<1>6. Settled'
  BY DEF Settled
<1>7. TimeAgrees'
  BY DEF TimeAgrees
<1>8. WholeOnly'
  BY DEF WholeOnly, GradedWhole, CountedWhole
<1>9. DownOnlyAfterTimeout' /\ PatienceIsSpent'
  BY DEF DownOnlyAfterTimeout, PatienceIsSpent
<1> QED
  BY <1>1, <1>2, <1>3, <1>4, <1>5, <1>6, <1>7, <1>8, <1>9

LEMMA XInvInit == Init => XInv
<1> SUFFICES ASSUME Init
             PROVE  XInv
  OBVIOUS
<1> USE ExchangeAssumption DEF Init
<1>1. Requests \subseteq Nat /\ 1 \in Requests
  BY DEF Requests
<1>2. TypeOK
  <2>1. NoConnection \in Connections /\ NoThread \in ThreadStates
    BY DEF NoConnection, NoThread, Connections, ThreadStates
  <2>2. waited \in [Requests -> 0 .. Timeout] /\ timeout \in 0 .. Timeout
    OBVIOUS
  <2>3. conn \in [Requests -> Connections] /\ srv \in [Requests -> ThreadStates]
    BY <2>1
  <2>4. x \in Requests /\ down \in BOOLEAN /\ k \in Nat /\ o_bytes \in OutSizes \cup {0}
    BY <1>1
  <2> QED
    BY <2>2, <2>3, <2>4 DEF TypeOK, Connections, ThreadStates
<1>3. UploadAgrees /\ ReplyAgrees
  BY DEF UploadAgrees, ReplyAgrees, NoConnection, NoThread
<1>4. OneAtATime /\ ReplyArrives
  BY DEF OneAtATime, ReplyArrives, Working, NoConnection, NoThread
<1>5. Settled /\ TimeAgrees
  BY <1>1 DEF Settled, TimeAgrees, NoConnection, Requests
<1>6. WholeOnly
  BY DEF WholeOnly, GradedWhole, CountedWhole, NoThread
<1>7. DownOnlyAfterTimeout /\ PatienceIsSpent
  BY DEF DownOnlyAfterTimeout, PatienceIsSpent
<1> QED
  BY <1>2, <1>3, <1>4, <1>5, <1>6, <1>7 DEF XInv

LEMMA XInvStutter ==
  ASSUME XInv, UNCHANGED vars
  PROVE  XInv'
<1> USE DEF vars, clientVars, timeVars
<1>1. TypeOK' /\ UploadAgrees' /\ ReplyAgrees'
  BY DEF XInv, TypeOK, UploadAgrees, ReplyAgrees
<1>2. OneAtATime' /\ ReplyArrives' /\ Settled' /\ TimeAgrees'
  BY DEF XInv, OneAtATime, ReplyArrives, Settled, TimeAgrees, Working
<1>3. WholeOnly' /\ DownOnlyAfterTimeout' /\ PatienceIsSpent'
  BY DEF XInv, WholeOnly, GradedWhole, CountedWhole, DownOnlyAfterTimeout, PatienceIsSpent
<1> QED
  BY <1>1, <1>2, <1>3 DEF XInv

LEMMA XInvStep == XInv /\ [Next]_vars => XInv'
<1> SUFFICES ASSUME XInv, [Next]_vars
             PROVE  XInv'
  OBVIOUS
<1>1. CASE ClientStep
  BY <1>1, ConnectKeeps, SendKeeps, SendEndsKeeps, SelectKeeps, ReadSizeKeeps,
     ReadReplyKeeps, ReadEndKeeps DEF ClientStep
<1>2. CASE Wait \/ TimeOut \/ ClientFails
  BY <1>2, WaitKeeps, TimeOutKeeps, ClientFailsKeeps
<1>3. ASSUME NEW y \in Requests, ServerStep(y)
      PROVE  XInv'
  BY <1>3, AcceptKeeps, ServerReadsSizeKeeps, ServerReadsKeeps, GradeKeeps,
     ServerWritesSizeKeeps, ServerWritesKeeps, ServerClosesKeeps DEF ServerStep
<1>4. CASE UNCHANGED vars
  BY <1>4, XInvStutter
<1> QED
  BY <1>1, <1>2, <1>3, <1>4 DEF Next

-----------------------------------------------------------------------------
(* The theorems.                                                           *)

(* The invariant holds in every version.                                   *)
THEOREM ExchangeInvariance == Spec => []XInv
<1> QED
  BY XInvInit, XInvStep, PTL DEF Spec

(* Sizes, counts and the seconds select has left stay in their ranges: no  *)
(* count of bytes goes below zero and no request waits past the timeout.   *)
THEOREM ExchangeTyping == Spec => []TypeOK
<1>1. XInv => TypeOK
  BY DEF XInv
<1> QED
  BY <1>1, ExchangeInvariance, PTL

(* The comparisons by equality in the reading loops of both sides never    *)
(* take a part of a file or of a reply for the whole, in whatever pieces   *)
(* it comes.                                                               *)
THEOREM NothingIsCut == Spec => []WholeOnly
<1>1. XInv => WholeOnly
  BY DEF XInv
<1> QED
  BY <1>1, ExchangeInvariance, PTL

(* SIGPIPE kills a server only after some client gave a request up, and    *)
(* in version 3 only after the client program has ended.                   *)
THEOREM SigpipeNeedsTimeout == Spec => []DownOnlyAfterTimeout
<1>1. XInv => DownOnlyAfterTimeout
  BY DEF XInv
<1> QED
  BY <1>1, ExchangeInvariance, PTL

(* select's timeout, never set again, is spent once for all requests.      *)
THEOREM TimeoutIsShared == Spec => []PatienceIsSpent
<1>1. XInv => PatienceIsSpent
  BY DEF XInv
<1> QED
  BY <1>1, ExchangeInvariance, PTL

=============================================================================
