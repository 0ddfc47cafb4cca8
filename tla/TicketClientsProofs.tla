-------------------------- MODULE TicketClientsProofs -------------------------
(***************************************************************************)
(* Proofs about main of version 4 and its clients, for any number of       *)
(* clients and descriptors, and however many are killed: what clients are  *)
(* told of tickets and results, and what ends the process.                 *)
(***************************************************************************)
EXTENDS TicketClients, TLAPS

USE DEF NotFound

(* main serves one client at a time, that it has not answered yet.         *)
CurrentAgrees ==
  /\ m_pc = "accept" <=> cur = NoClient
  /\ cur # NoClient => reply[cur] = "none" /\ c_pc[cur] # "start"
  /\ \A c \in Clients : c_pc[c] = "start" => reply[c] = "none"

(* What it has read is what the client sent, if the client is there.       *)
ReadAgrees ==
  cur \notin Left =>
    /\ m_pc \in {"ticket", "answer"} => kind[cur] = "status"
    /\ m_pc = "answer" => t = asks[cur]

(* The map knows the tickets that were told, and the one about to be, and  *)
(* nobody asks for another by its name.                                    *)
MapAgrees ==
  \A c \in Clients :
    /\ status[c] # NotFound <=> reply[c] = "ticket" \/ (c = cur /\ m_pc = "reply")
    /\ asks[c] \in Clients => status[asks[c]] # NotFound

(* What know_status returned may be out of date, but never wrong about     *)
(* whether there is such a ticket, nor ahead of it.                        *)
SeenAgrees ==
  m_pc = "answer" =>
    /\ seen # NotFound => t \in Clients /\ seen <= status[t]
    /\ seen = NotFound /\ t \in Clients => status[t] = NotFound

(* A ticket has its directory until its result is told.                    *)
DirsAgree ==
  /\ m_pc \in {"size", "file", "stuck", "master", "reply"} => cur \in dirs
  /\ \A x \in Clients : status[x] \in {0, 1} => x \in dirs
  /\ \A c \in Clients \ Left :
       reply[c] = "result" => asks[c] \in Clients /\ asks[c] \notin dirs

(* A client that stays is told "not found" of a mistyped ticket only.      *)
NotFoundAgrees ==
  \A c \in Clients \ Left : reply[c] = "not found" => asks[c] = NoClient

(* An upload has no file only when there are no descriptors left.          *)
OpenedAgrees == opened = FALSE => leaked = MaxFiles

(* What Answers says of results, client by client: a result was told to    *)
(* one that asked for it, or its directory is there, or somebody left.     *)
ResultKept ==
  \A x \in Clients :
    status[x] = 2 /\ x \notin dirs /\ Left = {} =>
      \E c \in Clients : kind[c] = "status" /\ asks[c] = x /\ reply[c] = "result"

(* The inductive invariant.                                                *)
CInv == /\ TypeOK
        /\ CurrentAgrees
        /\ ReadAgrees
        /\ MapAgrees
        /\ SeenAgrees
        /\ DirsAgree
        /\ NotFoundAgrees
        /\ OpenedAgrees
        /\ ResultToldOnce
        /\ ResultKept
        /\ DownOnlyIfLeft

-----------------------------------------------------------------------------
(* Who was told a result depends on these variables only.                  *)
LEMMA ResultsUntouched ==
  ASSUME ResultToldOnce, ResultKept, Left \subseteq Left',
         UNCHANGED <<asks, kind, reply, status, dirs>>
  PROVE  ResultToldOnce' /\ ResultKept'
<1>1. ResultToldOnce'
  BY DEF ResultToldOnce
<1>2. ResultKept'
  BY DEF ResultKept
<1> QED
  BY <1>1, <1>2

(* Each action keeps the invariant; one lemma per action, and in it one    *)
(* step per part of the invariant.                                         *)

Replies == {"none", "ticket", "queued", "processing", "result", "nothing", "not found"}

(* An answer is written and main goes on to the next client.               *)
LEMMA Answered ==
  ASSUME CInv, NEW what \in Replies, Reply(what), NextClient, UNCHANGED clientVars,
         m_pc # "accept"
  PROVE  /\ cur \in Clients /\ reply[cur] = "none" /\ reply'[cur] = what
         /\ \A c \in Clients \ {cur} : reply'[c] = reply[c]
         /\ reply' \in [Clients -> Replies]
         /\ m_pc' = "accept" /\ cur' = NoClient /\ t' = NoClient
         /\ opened' = TRUE /\ size' = "unset" /\ seen' \in NotFound .. 2
         /\ Left' = Left
<1>1. cur \in Clients /\ reply[cur] = "none" /\ reply \in [Clients -> Replies]
  BY DEF CInv, CurrentAgrees, TypeOK, Replies
<1>2. /\ reply' \in [Clients -> Replies] /\ reply'[cur] = what
      /\ \A c \in Clients \ {cur} : reply'[c] = reply[c]
  BY <1>1 DEF Reply
<1>3. /\ m_pc' = "accept" /\ cur' = NoClient /\ t' = NoClient
      /\ opened' = TRUE /\ size' = "unset"
  BY DEF NextClient, Goto
<1>4. seen' \in NotFound .. 2
  BY DEF NextClient
<1>5. Left' = Left
  BY DEF Left, clientVars
<1> QED
  BY <1>1, <1>2, <1>3, <1>4, <1>5

LEMMA ConnectKeeps ==
  ASSUME CInv, NEW c \in Clients, Connect(c)
  PROVE  CInv'
<1> USE ClientsAssumption DEF CInv, Connect, clientVars, mainVars, poolVars, Told
<1>1. Left' = Left
  BY DEF Left, TypeOK
<1>2. /\ kind \in [Clients -> {"new", "empty", "status"}]
      /\ asks \in [Clients -> Clients \cup {NoClient}]
  BY DEF TypeOK
<1>3. kind \in [Clients -> {"new", "empty", "status"}]
  BY <1>1, <1>2
<1>4. TypeOK'
  <2>1. kind' \in [Clients -> {"new", "empty", "status"}]
    BY <1>2
  <2>2. asks' \in [Clients -> Clients \cup {NoClient}]
    BY <1>2
  <2>3. c_pc' \in [Clients -> {"start", "send", "done", "left"}]
    BY DEF TypeOK
  <2> QED
    BY <2>1, <2>2, <2>3 DEF TypeOK
<1>5. CurrentAgrees'
  BY <1>1, <1>2, <1>3 DEF CurrentAgrees
<1>6. ReadAgrees'
  BY <1>1, <1>2, <1>3 DEF ReadAgrees, CurrentAgrees
<1>7. MapAgrees'
  BY <1>1, <1>2, <1>3 DEF MapAgrees, CurrentAgrees
<1>8. SeenAgrees'
  BY <1>1, <1>2, <1>3 DEF SeenAgrees, MapAgrees, CurrentAgrees
<1>9. DirsAgree'
  BY <1>1, <1>2, <1>3 DEF DirsAgree, CurrentAgrees, ReadAgrees, MapAgrees, SeenAgrees
<1>10. NotFoundAgrees' /\ OpenedAgrees'
  <2>1. reply[c] = "none" /\ \A d \in Clients \ {c} : asks'[d] = asks[d]
    BY <1>2 DEF CurrentAgrees
  <2>2. NotFoundAgrees'
    BY <1>1, <2>1 DEF NotFoundAgrees
  <2> QED
    BY <2>2 DEF OpenedAgrees
<1>11. ResultToldOnce'
  BY <1>1, <1>2, <1>3 DEF ResultToldOnce, DirsAgree, CurrentAgrees, ReadAgrees
<1>12. ResultKept'
  BY <1>1, <1>2, <1>3 DEF ResultKept, DirsAgree, CurrentAgrees, ReadAgrees, SeenAgrees
<1>13. DownOnlyIfLeft'
  BY <1>1, <1>2, <1>3 DEF DownOnlyIfLeft, OpenedAgrees
<1> QED
  BY <1>1, <1>2, <1>3, <1>4, <1>5, <1>6, <1>7, <1>8, <1>9, <1>10, <1>11, <1>12, <1>13

LEMMA ClientWriteKeeps ==
  ASSUME CInv, NEW c \in Clients, ClientWrite(c)
  PROVE  CInv'
<1> USE ClientsAssumption DEF CInv, ClientWrite, clientVars, mainVars, poolVars, Writes
<1>1. Left' = Left
  BY DEF Left
<1>2. TypeOK'
  <2>1. sent[c] \in 0 .. 3 /\ sent[c] < Writes(c) /\ Writes(c) \in {2, 3}
    BY DEF TypeOK
  <2>2. sent[c] + 1 \in 0 .. 3
    <3> HIDE DEF ClientWrite, Writes, CInv
    <3> QED
      BY <2>1
  <2>3. sent' \in [Clients -> 0 .. 3]
    BY <2>2 DEF TypeOK
  <2> QED
    BY <2>3 DEF TypeOK
<1>3. CurrentAgrees'
  BY <1>1 DEF CurrentAgrees, TypeOK
<1>4. ReadAgrees'
  BY <1>1 DEF ReadAgrees, CurrentAgrees, TypeOK
<1>5. MapAgrees'
  BY <1>1 DEF MapAgrees, CurrentAgrees, TypeOK
<1>6. SeenAgrees'
  BY <1>1 DEF SeenAgrees, MapAgrees, CurrentAgrees, TypeOK
<1>7. DirsAgree'
  BY <1>1 DEF DirsAgree, CurrentAgrees, ReadAgrees, MapAgrees, SeenAgrees, TypeOK
<1>8. NotFoundAgrees' /\ OpenedAgrees'
  BY <1>1 DEF NotFoundAgrees, OpenedAgrees, CurrentAgrees, ReadAgrees, SeenAgrees, MapAgrees, TypeOK
<1>9. ResultToldOnce' /\ ResultKept'
  BY <1>1, ResultsUntouched
<1>10. DownOnlyIfLeft'
  BY <1>1 DEF DownOnlyIfLeft, OpenedAgrees
<1> QED
  BY <1>1, <1>2, <1>3, <1>4, <1>5, <1>6, <1>7, <1>8, <1>9, <1>10

LEMMA ClientReadKeeps ==
  ASSUME CInv, NEW c \in Clients, ClientRead(c)
  PROVE  CInv'
<1> USE ClientsAssumption DEF CInv, ClientRead, clientVars, mainVars, poolVars
<1>1. Left' = Left
  BY DEF Left, TypeOK
<1>2. TypeOK'
  BY <1>1 DEF TypeOK
<1>3. CurrentAgrees'
  BY <1>1 DEF CurrentAgrees, TypeOK
<1>4. ReadAgrees'
  BY <1>1 DEF ReadAgrees, CurrentAgrees, TypeOK
<1>5. MapAgrees'
  BY <1>1 DEF MapAgrees, CurrentAgrees, TypeOK
<1>6. SeenAgrees'
  BY <1>1 DEF SeenAgrees, MapAgrees, CurrentAgrees, TypeOK
<1>7. DirsAgree'
  BY <1>1 DEF DirsAgree, CurrentAgrees, ReadAgrees, MapAgrees, SeenAgrees, TypeOK
<1>8. NotFoundAgrees' /\ OpenedAgrees'
  BY <1>1 DEF NotFoundAgrees, OpenedAgrees, CurrentAgrees, ReadAgrees, SeenAgrees, MapAgrees, TypeOK
<1>9. ResultToldOnce' /\ ResultKept'
  BY <1>1, ResultsUntouched
<1>10. DownOnlyIfLeft'
  BY <1>1 DEF DownOnlyIfLeft, OpenedAgrees
<1> QED
  BY <1>1, <1>2, <1>3, <1>4, <1>5, <1>6, <1>7, <1>8, <1>9, <1>10

LEMMA LeaveKeeps ==
  ASSUME CInv, NEW c \in Clients, Leave(c)
  PROVE  CInv'
<1> USE ClientsAssumption DEF CInv, Leave, clientVars, mainVars, poolVars
<1>1. Left' = Left \cup {c}
  BY DEF Left, TypeOK
<1>2. TypeOK'
  BY <1>1 DEF TypeOK
<1>3. CurrentAgrees'
  BY <1>1 DEF CurrentAgrees, TypeOK
<1>4. ReadAgrees'
  BY <1>1 DEF ReadAgrees, CurrentAgrees, TypeOK
<1>5. MapAgrees'
  BY <1>1 DEF MapAgrees, CurrentAgrees, TypeOK
<1>6. SeenAgrees'
  BY <1>1 DEF SeenAgrees, MapAgrees, CurrentAgrees, TypeOK
<1>7. DirsAgree'
  BY <1>1 DEF DirsAgree, CurrentAgrees, ReadAgrees, MapAgrees, SeenAgrees, TypeOK
<1>8. NotFoundAgrees' /\ OpenedAgrees'
  BY <1>1 DEF NotFoundAgrees, OpenedAgrees, CurrentAgrees, ReadAgrees, SeenAgrees, MapAgrees, TypeOK
<1>9. ResultToldOnce' /\ ResultKept'
  BY <1>1, ResultsUntouched
<1>10. DownOnlyIfLeft'
  BY <1>1 DEF DownOnlyIfLeft, OpenedAgrees
<1> QED
  BY <1>1, <1>2, <1>3, <1>4, <1>5, <1>6, <1>7, <1>8, <1>9, <1>10

LEMMA AcceptKeeps ==
  ASSUME CInv, NEW c \in Clients, Accept(c)
  PROVE  CInv'
<1> USE ClientsAssumption DEF CInv, Accept, clientVars, mainVars, poolVars, At, Goto
<1>1. Left' = Left
  BY DEF Left
<1>2. TypeOK'
  BY <1>1 DEF TypeOK
<1>3. CurrentAgrees'
  BY <1>1 DEF CurrentAgrees, TypeOK
<1>4. ReadAgrees'
  BY <1>1 DEF ReadAgrees, CurrentAgrees, TypeOK
<1>5. MapAgrees'
  BY <1>1 DEF MapAgrees, CurrentAgrees, TypeOK
<1>6. SeenAgrees'
  BY <1>1 DEF SeenAgrees, MapAgrees, CurrentAgrees, TypeOK
<1>7. DirsAgree'
  BY <1>1 DEF DirsAgree, CurrentAgrees, ReadAgrees, MapAgrees, SeenAgrees, TypeOK
<1>8. NotFoundAgrees' /\ OpenedAgrees'
  BY <1>1 DEF NotFoundAgrees, OpenedAgrees, CurrentAgrees, ReadAgrees, SeenAgrees, MapAgrees, TypeOK
<1>9. ResultToldOnce' /\ ResultKept'
  BY <1>1, ResultsUntouched
<1>10. DownOnlyIfLeft'
  BY <1>1 DEF DownOnlyIfLeft, OpenedAgrees
<1> QED
  BY <1>1, <1>2, <1>3, <1>4, <1>5, <1>6, <1>7, <1>8, <1>9, <1>10

LEMMA ReadTypeStatusKeeps ==
  ASSUME CInv, ReadTypeStatus
  PROVE  CInv'
<1> USE ClientsAssumption DEF CInv, ReadTypeStatus, clientVars, mainVars, poolVars, At, Goto, Reads, Types
<1>1. cur \in Clients /\ reply[cur] = "none"
  BY DEF CurrentAgrees, TypeOK
<1>2. Left' = Left
  BY DEF Left
<1>3. TypeOK'
  BY <1>1, <1>2 DEF TypeOK
<1>4. CurrentAgrees'
  BY <1>1, <1>2 DEF CurrentAgrees
<1>5. ReadAgrees'
  BY <1>1, <1>2 DEF ReadAgrees, CurrentAgrees
<1>6. MapAgrees'
  BY <1>1, <1>2 DEF MapAgrees, CurrentAgrees
<1>7. SeenAgrees'
  BY <1>1, <1>2 DEF SeenAgrees, MapAgrees, CurrentAgrees
<1>8. DirsAgree'
  BY <1>1, <1>2 DEF DirsAgree, CurrentAgrees, ReadAgrees, MapAgrees, SeenAgrees
<1>9. NotFoundAgrees' /\ OpenedAgrees'
  BY <1>1, <1>2 DEF NotFoundAgrees, OpenedAgrees, CurrentAgrees, ReadAgrees, SeenAgrees, MapAgrees
<1>10. ResultToldOnce' /\ ResultKept'
  BY <1>1, <1>2, ResultsUntouched
<1>11. DownOnlyIfLeft'
  BY <1>1, <1>2 DEF DownOnlyIfLeft, OpenedAgrees
<1> QED
  BY <1>1, <1>2, <1>3, <1>4, <1>5, <1>6, <1>7, <1>8, <1>9, <1>10, <1>11

LEMMA ReadTypeNewKeeps ==
  ASSUME CInv, ReadTypeNew
  PROVE  CInv'
<1> USE ClientsAssumption DEF CInv, ReadTypeNew, clientVars, mainVars, poolVars, At, Goto, Reads, Types
<1>1. cur \in Clients /\ reply[cur] = "none"
  BY DEF CurrentAgrees, TypeOK
<1>2. Left' = Left
  BY DEF Left
<1>3. TypeOK'
  <2>1. /\ leaked \in 0 .. MaxFiles
        /\ leaked' = IF leaked < MaxFiles THEN leaked + 1 ELSE leaked
    BY DEF TypeOK
  <2>2. leaked' \in 0 .. MaxFiles
    <3> HIDE DEF ReadTypeNew, CInv
    <3> QED
      BY <2>1
  <2>3. opened' \in BOOLEAN
    OBVIOUS
  <2>4. dirs' \subseteq Clients
    BY <1>1 DEF TypeOK
  <2> QED
    BY <2>2, <2>3, <2>4 DEF TypeOK
<1>4. CurrentAgrees'
  BY <1>1, <1>2 DEF CurrentAgrees, TypeOK
<1>5. ReadAgrees'
  BY <1>1, <1>2 DEF ReadAgrees, CurrentAgrees, TypeOK
<1>6. MapAgrees'
  BY <1>1, <1>2 DEF MapAgrees, CurrentAgrees, TypeOK
<1>7. SeenAgrees'
  BY <1>1, <1>2 DEF SeenAgrees, MapAgrees, CurrentAgrees, TypeOK
<1>8. DirsAgree'
  BY <1>1, <1>2 DEF DirsAgree, CurrentAgrees, ReadAgrees, MapAgrees, SeenAgrees, TypeOK
<1>9. NotFoundAgrees' /\ OpenedAgrees'
  <2>1. /\ leaked \in 0 .. MaxFiles /\ (opened' = FALSE => ~(leaked < MaxFiles))
        /\ leaked' = IF leaked < MaxFiles THEN leaked + 1 ELSE leaked
    BY DEF TypeOK
  <2>2. OpenedAgrees'
    <3> HIDE DEF ReadTypeNew, CInv
    <3> QED
      BY <2>1 DEF OpenedAgrees
  <2> QED
    BY <1>2, <2>2 DEF NotFoundAgrees
<1>10. ResultToldOnce'
  BY <1>1, <1>2 DEF ResultToldOnce, DirsAgree, CurrentAgrees, ReadAgrees
<1>11. ResultKept'
  BY <1>1, <1>2 DEF ResultKept, DirsAgree, CurrentAgrees, ReadAgrees, SeenAgrees
<1>12. DownOnlyIfLeft'
  BY <1>1, <1>2 DEF DownOnlyIfLeft, OpenedAgrees
<1> QED
  BY <1>1, <1>2, <1>3, <1>4, <1>5, <1>6, <1>7, <1>8, <1>9, <1>10, <1>11, <1>12

LEMMA ReadSizeKeeps ==
  ASSUME CInv, ReadSize
  PROVE  CInv'
<1> USE ClientsAssumption DEF CInv, ReadSize, clientVars, mainVars, poolVars, At, Goto, Reads, Types
<1>1. cur \in Clients /\ reply[cur] = "none"
  BY DEF CurrentAgrees, TypeOK
<1>2. Left' = Left
  BY DEF Left
<1>3. TypeOK'
  BY <1>1, <1>2 DEF TypeOK
<1>4. CurrentAgrees'
  BY <1>1, <1>2 DEF CurrentAgrees
<1>5. ReadAgrees'
  BY <1>1, <1>2 DEF ReadAgrees, CurrentAgrees
<1>6. MapAgrees'
  BY <1>1, <1>2 DEF MapAgrees, CurrentAgrees
<1>7. SeenAgrees'
  BY <1>1, <1>2 DEF SeenAgrees, MapAgrees, CurrentAgrees
<1>8. DirsAgree'
  BY <1>1, <1>2 DEF DirsAgree, CurrentAgrees, ReadAgrees, MapAgrees, SeenAgrees
<1>9. NotFoundAgrees' /\ OpenedAgrees'
  BY <1>1, <1>2 DEF NotFoundAgrees, OpenedAgrees, CurrentAgrees, ReadAgrees, SeenAgrees, MapAgrees
<1>10. ResultToldOnce' /\ ResultKept'
  BY <1>1, <1>2, ResultsUntouched
<1>11. DownOnlyIfLeft'
  BY <1>1, <1>2 DEF DownOnlyIfLeft, OpenedAgrees
<1> QED
  BY <1>1, <1>2, <1>3, <1>4, <1>5, <1>6, <1>7, <1>8, <1>9, <1>10, <1>11

LEMMA ReadWholeKeeps ==
  ASSUME CInv, ReadWhole
  PROVE  CInv'
<1> USE ClientsAssumption DEF CInv, ReadWhole, clientVars, mainVars, poolVars, At, Goto
<1>1. cur \in Clients /\ reply[cur] = "none"
  BY DEF CurrentAgrees, TypeOK
<1>2. Left' = Left
  BY DEF Left
<1>3. TypeOK'
  BY <1>1, <1>2 DEF TypeOK
<1>4. CurrentAgrees'
  BY <1>1, <1>2 DEF CurrentAgrees
<1>5. ReadAgrees'
  BY <1>1, <1>2 DEF ReadAgrees, CurrentAgrees
<1>6. MapAgrees'
  BY <1>1, <1>2 DEF MapAgrees, CurrentAgrees
<1>7. SeenAgrees'
  BY <1>1, <1>2 DEF SeenAgrees, MapAgrees, CurrentAgrees
<1>8. DirsAgree'
  BY <1>1, <1>2 DEF DirsAgree, CurrentAgrees, ReadAgrees, MapAgrees, SeenAgrees
<1>9. NotFoundAgrees' /\ OpenedAgrees'
  BY <1>1, <1>2 DEF NotFoundAgrees, OpenedAgrees, CurrentAgrees, ReadAgrees, SeenAgrees, MapAgrees
<1>10. ResultToldOnce' /\ ResultKept'
  BY <1>1, <1>2, ResultsUntouched
<1>11. DownOnlyIfLeft'
  BY <1>1, <1>2 DEF DownOnlyIfLeft, OpenedAgrees
<1> QED
  BY <1>1, <1>2, <1>3, <1>4, <1>5, <1>6, <1>7, <1>8, <1>9, <1>10, <1>11

LEMMA ReadPartKeeps ==
  ASSUME CInv, ReadPart
  PROVE  CInv'
<1> USE ClientsAssumption DEF CInv, ReadPart, clientVars, mainVars, poolVars, At, Goto
<1>1. cur \in Clients /\ reply[cur] = "none"
  BY DEF CurrentAgrees, TypeOK
<1>2. Left' = Left
  BY DEF Left
<1>3. TypeOK'
  BY <1>1, <1>2 DEF TypeOK
<1>4. CurrentAgrees'
  BY <1>1, <1>2 DEF CurrentAgrees
<1>5. ReadAgrees'
  BY <1>1, <1>2 DEF ReadAgrees, CurrentAgrees
<1>6. MapAgrees'
  BY <1>1, <1>2 DEF MapAgrees, CurrentAgrees
<1>7. SeenAgrees'
  BY <1>1, <1>2 DEF SeenAgrees, MapAgrees, CurrentAgrees
<1>8. DirsAgree'
  BY <1>1, <1>2 DEF DirsAgree, CurrentAgrees, ReadAgrees, MapAgrees, SeenAgrees
<1>9. NotFoundAgrees' /\ OpenedAgrees'
  BY <1>1, <1>2 DEF NotFoundAgrees, OpenedAgrees, CurrentAgrees, ReadAgrees, SeenAgrees, MapAgrees
<1>10. ResultToldOnce' /\ ResultKept'
  BY <1>1, <1>2, ResultsUntouched
<1>11. DownOnlyIfLeft'
  BY <1>1, <1>2 DEF DownOnlyIfLeft, OpenedAgrees
<1> QED
  BY <1>1, <1>2, <1>3, <1>4, <1>5, <1>6, <1>7, <1>8, <1>9, <1>10, <1>11

LEMMA ReadEndKeeps ==
  ASSUME CInv, ReadEnd
  PROVE  CInv'
<1> USE ClientsAssumption DEF CInv, ReadEnd, clientVars, mainVars, poolVars, At, Goto
<1>1. cur \in Clients /\ reply[cur] = "none"
  BY DEF CurrentAgrees, TypeOK
<1>2. Left' = Left
  BY DEF Left
<1>3. TypeOK'
  BY <1>1, <1>2 DEF TypeOK
<1>4. CurrentAgrees'
  BY <1>1, <1>2 DEF CurrentAgrees
<1>5. ReadAgrees'
  BY <1>1, <1>2 DEF ReadAgrees, CurrentAgrees
<1>6. MapAgrees'
  BY <1>1, <1>2 DEF MapAgrees, CurrentAgrees
<1>7. SeenAgrees'
  BY <1>1, <1>2 DEF SeenAgrees, MapAgrees, CurrentAgrees
<1>8. DirsAgree'
  BY <1>1, <1>2 DEF DirsAgree, CurrentAgrees, ReadAgrees, MapAgrees, SeenAgrees
<1>9. NotFoundAgrees' /\ OpenedAgrees'
  BY <1>1, <1>2 DEF NotFoundAgrees, OpenedAgrees, CurrentAgrees, ReadAgrees, SeenAgrees, MapAgrees
<1>10. ResultToldOnce' /\ ResultKept'
  BY <1>1, <1>2, ResultsUntouched
<1>11. DownOnlyIfLeft'
  BY <1>1, <1>2 DEF DownOnlyIfLeft, OpenedAgrees
<1> QED
  BY <1>1, <1>2, <1>3, <1>4, <1>5, <1>6, <1>7, <1>8, <1>9, <1>10, <1>11

LEMMA MainReturnsKeeps ==
  ASSUME CInv, MainReturns
  PROVE  CInv'
<1> USE ClientsAssumption DEF CInv, MainReturns, clientVars, mainVars, poolVars, At
<1>1. cur \in Clients /\ reply[cur] = "none"
  BY DEF CurrentAgrees, TypeOK
<1>2. Left' = Left
  BY DEF Left
<1>3. TypeOK'
  BY <1>1, <1>2 DEF TypeOK
<1>4. CurrentAgrees'
  BY <1>1, <1>2 DEF CurrentAgrees
<1>5. ReadAgrees'
  BY <1>1, <1>2 DEF ReadAgrees, CurrentAgrees
<1>6. MapAgrees'
  BY <1>1, <1>2 DEF MapAgrees, CurrentAgrees
<1>7. SeenAgrees'
  BY <1>1, <1>2 DEF SeenAgrees, MapAgrees, CurrentAgrees
<1>8. DirsAgree'
  BY <1>1, <1>2 DEF DirsAgree, CurrentAgrees, ReadAgrees, MapAgrees, SeenAgrees
<1>9. NotFoundAgrees' /\ OpenedAgrees'
  BY <1>1, <1>2 DEF NotFoundAgrees, OpenedAgrees, CurrentAgrees, ReadAgrees, SeenAgrees, MapAgrees
<1>10. ResultToldOnce' /\ ResultKept'
  BY <1>1, <1>2, ResultsUntouched
<1>11. DownOnlyIfLeft'
  BY <1>1, <1>2 DEF DownOnlyIfLeft, OpenedAgrees
<1> QED
  BY <1>1, <1>2, <1>3, <1>4, <1>5, <1>6, <1>7, <1>8, <1>9, <1>10, <1>11

LEMMA MasterKeeps ==
  ASSUME CInv, Master
  PROVE  CInv'
<1> USE ClientsAssumption DEF CInv, Master, clientVars, mainVars, poolVars, At, Goto
<1>1. cur \in Clients /\ reply[cur] = "none"
  BY DEF CurrentAgrees, TypeOK
<1>2. Left' = Left
  BY DEF Left
<1>3. status \in [Clients -> NotFound .. 2]
  BY DEF TypeOK
<1>4. status' \in [Clients -> NotFound .. 2]
  BY <1>1, <1>2, <1>3
<1>5. TypeOK'
  BY <1>1, <1>2, <1>3, <1>4 DEF TypeOK
<1>6. CurrentAgrees'
  BY <1>1, <1>2, <1>3, <1>4 DEF CurrentAgrees
<1>7. ReadAgrees'
  BY <1>1, <1>2, <1>3, <1>4 DEF ReadAgrees, CurrentAgrees
<1>8. MapAgrees'
  BY <1>1, <1>2, <1>3, <1>4 DEF MapAgrees, CurrentAgrees
<1>9. SeenAgrees'
  BY <1>1, <1>2, <1>3, <1>4 DEF SeenAgrees, MapAgrees, CurrentAgrees
<1>10. DirsAgree'
  BY <1>1, <1>2, <1>3, <1>4 DEF DirsAgree, CurrentAgrees, ReadAgrees, MapAgrees, SeenAgrees
<1>11. NotFoundAgrees' /\ OpenedAgrees'
  BY <1>1, <1>2, <1>3, <1>4 DEF NotFoundAgrees, OpenedAgrees, CurrentAgrees, ReadAgrees, SeenAgrees, MapAgrees
<1>12. ResultToldOnce'
  BY <1>1, <1>2, <1>3, <1>4 DEF ResultToldOnce, DirsAgree, CurrentAgrees, ReadAgrees
<1>13. ResultKept'
  BY <1>1, <1>2, <1>3, <1>4 DEF ResultKept, DirsAgree, CurrentAgrees, ReadAgrees, SeenAgrees
<1>14. DownOnlyIfLeft'
  BY <1>1, <1>2, <1>3, <1>4 DEF DownOnlyIfLeft, OpenedAgrees
<1> QED
  BY <1>1, <1>2, <1>3, <1>4, <1>5, <1>6, <1>7, <1>8, <1>9, <1>10, <1>11, <1>12, <1>13, <1>14

LEMMA ReplyTicketKeeps ==
  ASSUME CInv, ReplyTicket
  PROVE  CInv'
<1> DEFINE what == "ticket"
<1> USE ClientsAssumption DEF CInv
<1>1. /\ m_pc = "reply" /\ what \in Replies /\ Reply(what) /\ NextClient
      /\ UNCHANGED <<clientVars, leaked, down, poolVars>>
      /\ what = "ticket"
  BY DEF ReplyTicket, At, Replies
<1> HIDE DEF what
<1>2. /\ cur \in Clients /\ reply[cur] = "none" /\ reply'[cur] = what
      /\ \A c \in Clients \ {cur} : reply'[c] = reply[c]
      /\ reply' \in [Clients -> Replies]
      /\ m_pc' = "accept" /\ cur' = NoClient /\ t' = NoClient
      /\ opened' = TRUE /\ size' = "unset" /\ seen' \in NotFound .. 2
      /\ Left' = Left
  BY <1>1, Answered
<1> USE <1>1, <1>2 DEF clientVars, poolVars
<1>3. TypeOK'
  BY DEF TypeOK, Replies
<1>4. CurrentAgrees' /\ ReadAgrees' /\ SeenAgrees'
  BY DEF CurrentAgrees, ReadAgrees, SeenAgrees
<1>5. MapAgrees'
  BY DEF MapAgrees
<1>6. DirsAgree' /\ NotFoundAgrees'
  BY DEF DirsAgree, NotFoundAgrees
<1>7. ResultToldOnce'
  BY DEF ResultToldOnce
<1>8. ResultKept'
  BY DEF ResultKept
<1>9. OpenedAgrees' /\ DownOnlyIfLeft'
  BY DEF OpenedAgrees, DownOnlyIfLeft
<1> QED
  BY <1>3, <1>4, <1>5, <1>6, <1>7, <1>8, <1>9

LEMMA ReadTicketKeeps ==
  ASSUME CInv, ReadTicket
  PROVE  CInv'
<1> USE ClientsAssumption DEF CInv, ReadTicket, clientVars, mainVars, poolVars, At, Goto, Reads, Types, StatusOf
<1>1. cur \in Clients /\ reply[cur] = "none"
  BY DEF CurrentAgrees, TypeOK
<1>2. Left' = Left
  BY DEF Left
<1>3. TypeOK'
  <2>1. t' \in Clients \cup {NoClient}
    BY <1>1 DEF TypeOK
  <2>2. seen' = NotFound \/ \E x \in Clients : seen' = status[x]
    OBVIOUS
  <2>3. \A x \in Clients : status[x] \in NotFound .. 2
    BY DEF TypeOK
  <2>4. seen' \in NotFound .. 2
    <3> HIDE DEF ReadTicket, StatusOf, CInv
    <3> QED
      BY <2>2, <2>3
  <2> QED
    BY <2>1, <2>4 DEF TypeOK
<1>4. CurrentAgrees'
  BY <1>1, <1>2 DEF CurrentAgrees
<1>5. ReadAgrees'
  BY <1>1, <1>2 DEF ReadAgrees, CurrentAgrees
<1>6. MapAgrees'
  BY <1>1, <1>2 DEF MapAgrees, CurrentAgrees
<1>7. SeenAgrees'
  <2>1. t' \in Clients => seen' = status[t'] /\ status[t'] \in NotFound .. 2
    BY DEF TypeOK
  <2>2. t' \notin Clients => seen' = NotFound
    OBVIOUS
  <2>3. status' = status
    OBVIOUS
  <2> HIDE DEF ReadTicket
  <2> QED
    BY <2>1, <2>2, <2>3 DEF SeenAgrees
<1>8. DirsAgree'
  BY <1>1, <1>2 DEF DirsAgree, CurrentAgrees, ReadAgrees, MapAgrees, SeenAgrees
<1>9. NotFoundAgrees' /\ OpenedAgrees'
  BY <1>1, <1>2 DEF NotFoundAgrees, OpenedAgrees, CurrentAgrees, ReadAgrees, SeenAgrees, MapAgrees
<1>10. ResultToldOnce' /\ ResultKept'
  BY <1>1, <1>2, ResultsUntouched
<1>11. DownOnlyIfLeft'
  BY <1>1, <1>2 DEF DownOnlyIfLeft, OpenedAgrees
<1> QED
  BY <1>1, <1>2, <1>3, <1>4, <1>5, <1>6, <1>7, <1>8, <1>9, <1>10, <1>11

LEMMA BrokenPipeKeeps ==
  ASSUME CInv, BrokenPipe
  PROVE  CInv'
<1> USE ClientsAssumption DEF CInv, BrokenPipe, clientVars, mainVars, poolVars, At
<1>1. cur \in Clients /\ reply[cur] = "none"
  BY DEF CurrentAgrees, TypeOK
<1>2. Left' = Left
  BY DEF Left
<1>3. TypeOK'
  BY <1>1, <1>2 DEF TypeOK
<1>4. CurrentAgrees'
  BY <1>1, <1>2 DEF CurrentAgrees
<1>5. ReadAgrees'
  BY <1>1, <1>2 DEF ReadAgrees, CurrentAgrees
<1>6. MapAgrees'
  BY <1>1, <1>2 DEF MapAgrees, CurrentAgrees
<1>7. SeenAgrees'
  BY <1>1, <1>2 DEF SeenAgrees, MapAgrees, CurrentAgrees
<1>8. DirsAgree'
  BY <1>1, <1>2 DEF DirsAgree, CurrentAgrees, ReadAgrees, MapAgrees, SeenAgrees
<1>9. NotFoundAgrees' /\ OpenedAgrees'
  BY <1>1, <1>2 DEF NotFoundAgrees, OpenedAgrees, CurrentAgrees, ReadAgrees, SeenAgrees, MapAgrees
<1>10. ResultToldOnce' /\ ResultKept'
  BY <1>1, <1>2, ResultsUntouched
<1>11. DownOnlyIfLeft'
  BY <1>1, <1>2 DEF DownOnlyIfLeft, OpenedAgrees
<1> QED
  BY <1>1, <1>2, <1>3, <1>4, <1>5, <1>6, <1>7, <1>8, <1>9, <1>10, <1>11

LEMMA AnswerOtherKeeps ==
  ASSUME CInv, AnswerOther
  PROVE  CInv'
<1> DEFINE what == IF seen = 1 THEN "processing" ELSE "not found"
<1> USE ClientsAssumption DEF CInv
<1>1. /\ m_pc = "answer" /\ what \in Replies /\ Reply(what) /\ NextClient
      /\ UNCHANGED <<clientVars, leaked, down, poolVars>>
      /\ what \in {"processing", "not found"} /\ (what = "not found" => seen = NotFound)
  BY DEF AnswerOther, At, Replies
<1> HIDE DEF what
<1>2. /\ cur \in Clients /\ reply[cur] = "none" /\ reply'[cur] = what
      /\ \A c \in Clients \ {cur} : reply'[c] = reply[c]
      /\ reply' \in [Clients -> Replies]
      /\ m_pc' = "accept" /\ cur' = NoClient /\ t' = NoClient
      /\ opened' = TRUE /\ size' = "unset" /\ seen' \in NotFound .. 2
      /\ Left' = Left
  BY <1>1, Answered
<1> USE <1>1, <1>2 DEF clientVars, poolVars
<1>3. TypeOK'
  BY DEF TypeOK, Replies
<1>4. CurrentAgrees' /\ ReadAgrees' /\ SeenAgrees'
  BY DEF CurrentAgrees, ReadAgrees, SeenAgrees
<1>5. MapAgrees'
  BY DEF MapAgrees
<1>6. DirsAgree'
  BY DEF DirsAgree
<1>7. NotFoundAgrees'
  <2>1. cur \notin Left /\ seen = NotFound => asks[cur] = NoClient
    BY DEF ReadAgrees, SeenAgrees, MapAgrees, TypeOK
  <2> QED
    BY <2>1 DEF NotFoundAgrees
<1>8. ResultToldOnce'
  BY DEF ResultToldOnce
<1>9. ResultKept'
  <2>1. \A c \in Clients : reply[c] = "result" => reply'[c] = "result"
    OBVIOUS
  <2>2. ASSUME NEW x \in Clients, status[x] = 2, x \notin dirs, Left = {}
        PROVE  \E c \in Clients : kind[c] = "status" /\ asks[c] = x /\ reply'[c] = "result"
    <3>1. PICK c \in Clients : kind[c] = "status" /\ asks[c] = x /\ reply[c] = "result"
      BY <2>2 DEF ResultKept
    <3> QED
      BY <2>1, <3>1
  <2>3. kind' = kind /\ asks' = asks /\ status' = status /\ dirs' = dirs /\ Left' = Left
    OBVIOUS
  <2> HIDE <1>1, <1>2
  <2> HIDE DEF CInv, clientVars, poolVars
  <2> QED
    BY <2>2, <2>3 DEF ResultKept
<1>10. OpenedAgrees' /\ DownOnlyIfLeft'
  BY DEF OpenedAgrees, DownOnlyIfLeft
<1> QED
  BY <1>3, <1>4, <1>5, <1>6, <1>7, <1>8, <1>9, <1>10

LEMMA AnswerQueuedKeeps ==
  ASSUME CInv, AnswerQueued
  PROVE  CInv'
<1> DEFINE what == "queued"
<1> USE ClientsAssumption DEF CInv
<1>1. /\ m_pc = "answer" /\ what \in Replies /\ Reply(what) /\ NextClient
      /\ UNCHANGED <<clientVars, leaked, down, status, dirs>>
      /\ locked' \in BOOLEAN /\ what = "queued"
  BY DEF AnswerQueued, At, Replies
<1> HIDE DEF what
<1>2. /\ cur \in Clients /\ reply[cur] = "none" /\ reply'[cur] = what
      /\ \A c \in Clients \ {cur} : reply'[c] = reply[c]
      /\ reply' \in [Clients -> Replies]
      /\ m_pc' = "accept" /\ cur' = NoClient /\ t' = NoClient
      /\ opened' = TRUE /\ size' = "unset" /\ seen' \in NotFound .. 2
      /\ Left' = Left
  BY <1>1, Answered
<1> USE <1>1, <1>2 DEF clientVars, poolVars
<1>3. TypeOK'
  BY DEF TypeOK, Replies
<1>4. CurrentAgrees' /\ ReadAgrees' /\ SeenAgrees'
  BY DEF CurrentAgrees, ReadAgrees, SeenAgrees
<1>5. MapAgrees'
  BY DEF MapAgrees
<1>6. DirsAgree' /\ NotFoundAgrees'
  BY DEF DirsAgree, NotFoundAgrees
<1>7. ResultToldOnce'
  BY DEF ResultToldOnce
<1>8. ResultKept'
  BY DEF ResultKept
<1>9. OpenedAgrees' /\ DownOnlyIfLeft'
  BY DEF OpenedAgrees, DownOnlyIfLeft
<1> QED
  BY <1>3, <1>4, <1>5, <1>6, <1>7, <1>8, <1>9

LEMMA AnswerGradedKeeps ==
  ASSUME CInv, AnswerGraded
  PROVE  CInv'
<1> DEFINE what == IF t \in dirs THEN "result" ELSE "nothing"
<1> USE ClientsAssumption DEF CInv
<1>1. /\ m_pc = "answer" /\ what \in Replies /\ Reply(what) /\ NextClient
      /\ UNCHANGED <<clientVars, leaked, down, locked, status>>
      /\ /\ seen = 2 /\ dirs' = dirs \ {t}
         /\ what \in {"result", "nothing"} /\ (what = "result" <=> t \in dirs)
  BY DEF AnswerGraded, At, Replies
<1> HIDE DEF what
<1>2. /\ cur \in Clients /\ reply[cur] = "none" /\ reply'[cur] = what
      /\ \A c \in Clients \ {cur} : reply'[c] = reply[c]
      /\ reply' \in [Clients -> Replies]
      /\ m_pc' = "accept" /\ cur' = NoClient /\ t' = NoClient
      /\ opened' = TRUE /\ size' = "unset" /\ seen' \in NotFound .. 2
      /\ Left' = Left
  BY <1>1, Answered
<1> USE <1>1, <1>2 DEF clientVars, poolVars
<1>3. t \in Clients /\ status[t] = 2
  <2>1. t \in Clients /\ seen <= status[t]
    BY DEF SeenAgrees
  <2>2. status[t] \in NotFound .. 2
    BY <2>1 DEF TypeOK
  <2> QED
    BY <2>1, <2>2
<1>4. cur \notin Left => kind[cur] = "status" /\ t = asks[cur]
  BY DEF ReadAgrees
<1>5. TypeOK'
  BY DEF TypeOK, Replies
<1>6. CurrentAgrees' /\ ReadAgrees' /\ SeenAgrees'
  BY DEF CurrentAgrees, ReadAgrees, SeenAgrees
<1>7. MapAgrees'
  BY DEF MapAgrees
<1>8. DirsAgree'
  BY <1>3, <1>4 DEF DirsAgree
<1>9. NotFoundAgrees'
  BY DEF NotFoundAgrees
<1>10. ResultToldOnce'
  BY <1>4 DEF ResultToldOnce, DirsAgree
<1>11. ResultKept'
  BY <1>3, <1>4 DEF ResultKept
<1>12. OpenedAgrees' /\ DownOnlyIfLeft'
  BY DEF OpenedAgrees, DownOnlyIfLeft
<1> QED
  BY <1>3, <1>4, <1>5, <1>6, <1>7, <1>8, <1>9, <1>10, <1>11, <1>12

LEMMA WorkerTakeKeeps ==
  ASSUME CInv, NEW w \in Clients, WorkerTake(w)
  PROVE  CInv'
<1> USE ClientsAssumption DEF CInv, WorkerTake, clientVars, mainVars, poolVars
<1>1. Left' = Left
  BY DEF Left
<1>2. status \in [Clients -> NotFound .. 2]
  BY DEF TypeOK
<1>3. status' \in [Clients -> NotFound .. 2]
  BY <1>1, <1>2
<1>4. TypeOK'
  BY <1>1, <1>2, <1>3 DEF TypeOK
<1>5. CurrentAgrees'
  BY <1>1, <1>2, <1>3 DEF CurrentAgrees
<1>6. ReadAgrees'
  BY <1>1, <1>2, <1>3 DEF ReadAgrees, CurrentAgrees
<1>7. MapAgrees'
  BY <1>1, <1>2, <1>3 DEF MapAgrees, CurrentAgrees
<1>8. SeenAgrees'
  <2>1. /\ status[w] = 0 /\ status'[w] = 1
        /\ \A x \in Clients \ {w} : status'[x] = status[x]
        /\ UNCHANGED <<m_pc, seen, t>>
    BY <1>2
  <2>2. seen \in NotFound .. 2
    BY DEF TypeOK
  <2> HIDE DEF WorkerTake
  <2> QED
    BY <2>1, <2>2 DEF SeenAgrees
<1>9. DirsAgree'
  BY <1>1, <1>2, <1>3 DEF DirsAgree, CurrentAgrees, ReadAgrees, MapAgrees, SeenAgrees
<1>10. NotFoundAgrees' /\ OpenedAgrees'
  BY <1>1, <1>2, <1>3 DEF NotFoundAgrees, OpenedAgrees, CurrentAgrees, ReadAgrees, SeenAgrees, MapAgrees
<1>11. ResultToldOnce'
  BY <1>1, <1>2, <1>3 DEF ResultToldOnce, DirsAgree, CurrentAgrees, ReadAgrees
<1>12. ResultKept'
  BY <1>1, <1>2, <1>3 DEF ResultKept, DirsAgree, CurrentAgrees, ReadAgrees, SeenAgrees
<1>13. DownOnlyIfLeft'
  BY <1>1, <1>2, <1>3 DEF DownOnlyIfLeft, OpenedAgrees
<1> QED
  BY <1>1, <1>2, <1>3, <1>4, <1>5, <1>6, <1>7, <1>8, <1>9, <1>10, <1>11, <1>12, <1>13

LEMMA WorkerFinishKeeps ==
  ASSUME CInv, NEW w \in Clients, WorkerFinish(w)
  PROVE  CInv'
<1> USE ClientsAssumption DEF CInv, WorkerFinish, clientVars, mainVars, poolVars
<1>1. Left' = Left
  BY DEF Left
<1>2. status \in [Clients -> NotFound .. 2]
  BY DEF TypeOK
<1>3. status' \in [Clients -> NotFound .. 2]
  BY <1>1, <1>2
<1>4. TypeOK'
  BY <1>1, <1>2, <1>3 DEF TypeOK
<1>5. CurrentAgrees'
  BY <1>1, <1>2, <1>3 DEF CurrentAgrees
<1>6. ReadAgrees'
  BY <1>1, <1>2, <1>3 DEF ReadAgrees, CurrentAgrees
<1>7. MapAgrees'
  BY <1>1, <1>2, <1>3 DEF MapAgrees, CurrentAgrees
<1>8. SeenAgrees'
  <2>1. /\ status[w] = 1 /\ status'[w] = 2
        /\ \A x \in Clients \ {w} : status'[x] = status[x]
        /\ UNCHANGED <<m_pc, seen, t>>
    BY <1>2
  <2>2. seen \in NotFound .. 2
    BY DEF TypeOK
  <2> HIDE DEF WorkerFinish
  <2> QED
    BY <2>1, <2>2 DEF SeenAgrees
<1>9. DirsAgree'
  BY <1>1, <1>2, <1>3 DEF DirsAgree, CurrentAgrees, ReadAgrees, MapAgrees, SeenAgrees
<1>10. NotFoundAgrees' /\ OpenedAgrees'
  BY <1>1, <1>2, <1>3 DEF NotFoundAgrees, OpenedAgrees, CurrentAgrees, ReadAgrees, SeenAgrees, MapAgrees
<1>11. ResultToldOnce'
  BY <1>1, <1>2, <1>3 DEF ResultToldOnce, DirsAgree, CurrentAgrees, ReadAgrees
<1>12. ResultKept'
  BY <1>1, <1>2, <1>3 DEF ResultKept, DirsAgree, CurrentAgrees, ReadAgrees, SeenAgrees
<1>13. DownOnlyIfLeft'
  BY <1>1, <1>2, <1>3 DEF DownOnlyIfLeft, OpenedAgrees
<1> QED
  BY <1>1, <1>2, <1>3, <1>4, <1>5, <1>6, <1>7, <1>8, <1>9, <1>10, <1>11, <1>12, <1>13

LEMMA CInvInit == Init => CInv
<1> SUFFICES ASSUME Init
             PROVE  CInv
  OBVIOUS
<1> USE ClientsAssumption DEF Init
<1>1. seen \in NotFound .. 2 /\ status \in [Clients -> NotFound .. 2]
  OBVIOUS
<1>2. sent \in [Clients -> 0 .. 3] /\ leaked \in 0 .. MaxFiles
  OBVIOUS
<1>3. TypeOK
  BY <1>1, <1>2 DEF TypeOK
<1>4. CurrentAgrees /\ ReadAgrees /\ SeenAgrees
  BY DEF CurrentAgrees, ReadAgrees, SeenAgrees
<1>5. MapAgrees /\ DirsAgree /\ NotFoundAgrees /\ OpenedAgrees
  BY DEF MapAgrees, DirsAgree, NotFoundAgrees, OpenedAgrees
<1>6. ResultToldOnce /\ ResultKept /\ DownOnlyIfLeft
  BY DEF ResultToldOnce, ResultKept, DownOnlyIfLeft
<1> QED
  BY <1>3, <1>4, <1>5, <1>6 DEF CInv

LEMMA CInvStutter ==
  ASSUME CInv, UNCHANGED vars
  PROVE  CInv'
<1> USE DEF CInv, vars, clientVars, mainVars, poolVars
<1>1. Left' = Left
  BY DEF Left
<1>2. TypeOK'
  BY DEF TypeOK
<1>3. CurrentAgrees' /\ ReadAgrees' /\ MapAgrees' /\ SeenAgrees'
  BY <1>1 DEF CurrentAgrees, ReadAgrees, MapAgrees, SeenAgrees
<1>4. DirsAgree' /\ NotFoundAgrees' /\ OpenedAgrees' /\ DownOnlyIfLeft'
  BY <1>1 DEF DirsAgree, NotFoundAgrees, OpenedAgrees, DownOnlyIfLeft
<1>5. ResultToldOnce' /\ ResultKept'
  BY <1>1, ResultsUntouched
<1> QED
  BY <1>2, <1>3, <1>4, <1>5

LEMMA CInvStep == CInv /\ [Next]_vars => CInv'
<1> SUFFICES ASSUME CInv, [Next]_vars
             PROVE  CInv'
  OBVIOUS
<1>1. ASSUME NEW c \in Clients, Connect(c) \/ ClientWrite(c) \/ ClientRead(c) \/ Leave(c)
      PROVE  CInv'
  BY <1>1, ConnectKeeps, ClientWriteKeeps, ClientReadKeeps, LeaveKeeps
<1>2. ASSUME NEW x \in Clients, WorkerTake(x) \/ WorkerFinish(x)
      PROVE  CInv'
  BY <1>2, WorkerTakeKeeps, WorkerFinishKeeps
<1>3. CASE MainStep
  <2>1. ASSUME NEW c \in Clients, Accept(c)
        PROVE  CInv'
    BY <2>1, AcceptKeeps
  <2>2. CASE \/ ReadTypeStatus \/ ReadTypeNew \/ ReadSize \/ ReadWhole \/ ReadPart
             \/ ReadEnd \/ MainReturns \/ Master \/ ReplyTicket
    BY <2>2, ReadTypeStatusKeeps, ReadTypeNewKeeps, ReadSizeKeeps, ReadWholeKeeps,
       ReadPartKeeps, ReadEndKeeps, MainReturnsKeeps, MasterKeeps, ReplyTicketKeeps
  <2>3. CASE ReadTicket \/ BrokenPipe \/ AnswerOther \/ AnswerQueued \/ AnswerGraded
    BY <2>3, ReadTicketKeeps, BrokenPipeKeeps, AnswerOtherKeeps, AnswerQueuedKeeps,
       AnswerGradedKeeps
  <2> QED
    BY <1>3, <2>1, <2>2, <2>3 DEF MainStep
<1>4. CASE UNCHANGED vars
  BY <1>4, CInvStutter
<1> QED
  BY <1>1, <1>2, <1>3, <1>4 DEF Next

-----------------------------------------------------------------------------
(* The theorems.                                                           *)

(* The invariant holds of main, its clients and the pool.                  *)
THEOREM ClientsInvariance == Spec => []CInv
<1> QED
  BY CInvInit, CInvStep, PTL DEF Spec

(* The variables of main and of the clients keep to their ranges, and main *)
(* never has more files open than there are descriptors.                   *)
THEOREM ClientsTyping == Spec => []TypeOK
<1>1. CInv => TypeOK
  BY DEF CInv
<1> QED
  BY <1>1, ClientsInvariance, PTL

(* A ticket that somebody was told is in the map, and nobody who asks for  *)
(* it is told that it is not found.                                        *)
THEOREM ToldTicketIsFound == Spec => []ToldIsFound
<1>1. CInv => ToldIsFound
  <2> SUFFICES ASSUME CInv, NEW x \in Told
               PROVE  status[x] # NotFound /\ "not found" \notin Answers(x)
    BY DEF ToldIsFound
  <2>1. x \in Clients /\ status[x] # NotFound
    BY DEF Told, CInv, MapAgrees
  <2>2. \A c \in Clients \ Left : asks[c] = x => reply[c] # "not found"
    BY <2>1, ClientsAssumption DEF CInv, NotFoundAgrees
  <2>3. "not found" \notin Answers(x)
    BY <2>2 DEF Answers
  <2> QED
    BY <2>1, <2>3
<1> QED
  BY <1>1, ClientsInvariance, PTL

(* A result is told to one of the clients that ask for it, and waits for   *)
(* one of them unless a client was killed.                                 *)
THEOREM ResultIsToldToAsker == Spec => []ResultGoesToAsker
<1>1. CInv => ResultGoesToAsker
  <2> SUFFICES ASSUME CInv
               PROVE  ResultWaits
    BY DEF CInv, ResultGoesToAsker
  <2> SUFFICES ASSUME NEW x \in Clients, status[x] = 2, x \notin dirs, Left = {}
               PROVE  "result" \in Answers(x)
    BY DEF ResultWaits
  <2>1. PICK c \in Clients : kind[c] = "status" /\ asks[c] = x /\ reply[c] = "result"
    BY DEF CInv, ResultKept
  <2> QED
    BY <2>1 DEF Answers
<1> QED
  BY <1>1, ClientsInvariance, PTL

(* Unless a client was killed or the descriptors for uploads are used up,  *)
(* the process does not end.                                               *)
THEOREM DownNeedsLeaver == Spec => []DownOnlyIfLeft
<1>1. CInv => DownOnlyIfLeft
  BY DEF CInv
<1> QED
  BY <1>1, ClientsInvariance, PTL

=============================================================================
