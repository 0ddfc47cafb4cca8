---------------------------- MODULE TicketClients ----------------------------
(***************************************************************************)
(* The clients of version 4 and the conversation main has with them: a     *)
(* client submits a program and is told a ticket ("new"), or asks what     *)
(* became of a ticket ("status").  main serves one connection at a time,   *)
(* read by read; it does not look at what the reads of type, size and      *)
(* ticket return, so that a client that leaves makes it go on with         *)
(* uninitialized variables.                                                *)
(*                                                                         *)
(* The ticket of an upload is named by its connection.  The pool is two    *)
(* actions, that take and grade a ticket (TicketPool has its threads), and *)
(* a result is a directory that is there or not (GradingWorkspace has its  *)
(* files).  Fields of a few bytes and answers arrive whole; the file may   *)
(* come in pieces.                                                         *)
(***************************************************************************)
EXTENDS Integers, FiniteSets

CONSTANTS
  Clients,    \* the runs of the client program
  NoClient,   \* no connection, and a number that is no ticket
  MaxFiles,   \* descriptors left for uploads: main closes none of their files
  MaxLeaves   \* how many clients are killed (bound)

ASSUME ClientsAssumption == /\ IsFiniteSet(Clients)
                            /\ NoClient \notin Clients
                            /\ MaxFiles \in Nat
                            /\ MaxLeaves \in Nat

VARIABLES
  c_pc,     \* start, send, done, or left: where each client is
  asks,     \* the ticket in the arguments of a status client
  kind,     \* what it was started for: new, status, or empty: new with an empty file
  sent,     \* how many of them it has made
  reply,    \* what main has sent it: answers by name
  m_pc,     \* where main is
  cur,      \* newsockfd, as the client at its other end
  opened,   \* whether filedesc is a file
  size,     \* no_of_bytes: zero, some, or unset
  t,        \* its local ticket, as main's status query read it
  seen,     \* what know_status returned
  leaked,   \* descriptors of uploads that were never closed
  down,     \* whether the process has ended
  locked,   \* whether main left queue_lock locked
  status,   \* the status map
  dirs      \* the tickets whose directory exists

clientVars == <<c_pc, asks, kind, sent>>
mainVars   == <<m_pc, cur, opened, size, t, seen, leaked, down>>
poolVars   == <<locked, status, dirs>>
vars == <<clientVars, reply, mainVars, poolVars>>

NotFound == -1

Init ==
  /\ c_pc = [c \in Clients |-> "start"]
  /\ asks = [c \in Clients |-> NoClient]
  /\ kind = [c \in Clients |-> "new"]
  /\ sent = [c \in Clients |-> 0]
  /\ reply = [c \in Clients |-> "none"]
  /\ m_pc = "accept" /\ cur = NoClient
  /\ opened = TRUE /\ size = "unset" /\ t = NoClient /\ seen = NotFound
  /\ leaked = 0 /\ down = FALSE
  /\ locked = FALSE
  /\ status = [c \in Clients |-> NotFound]
  /\ dirs = {}

-----------------------------------------------------------------------------
(* The clients.                                                            *)

Told == {c \in Clients : c_pc[c] = "done" /\ reply[c] = "ticket"}

(* Its writes: type, size and file, of which an empty one is none; or type *)
(* and ticket.                                                             *)
Writes(c) == IF kind[c] = "new" THEN 3 ELSE 2

(* Started by somebody who submits; or who has been told the ticket he     *)
(* asks for, or mistypes it.                                               *)
Connect(c) ==
  /\ c_pc[c] = "start"
  /\ ~down
  /\ c_pc' = [c_pc EXCEPT ![c] = "send"]
  /\ \E k \in {"new", "empty", "status"} :
       /\ kind' = [kind EXCEPT ![c] = k]
       /\ \E x \in IF k = "status" THEN Told \cup {NoClient} ELSE {NoClient} :
            asks' = [asks EXCEPT ![c] = x]
  /\ UNCHANGED <<sent, reply, mainVars, poolVars>>

ClientWrite(c) ==
  /\ c_pc[c] = "send"
  /\ sent[c] < Writes(c)
  /\ sent' = [sent EXCEPT ![c] = @ + 1]
  /\ UNCHANGED <<c_pc, asks, kind, reply, mainVars, poolVars>>

(* The reads of the answer.  If the server is gone they return nothing,    *)
(* and the client prints what its variables happen to hold.                *)
ClientRead(c) ==
  /\ c_pc[c] = "send"
  /\ sent[c] = Writes(c)
  /\ reply[c] # "none" \/ down
  /\ c_pc' = [c_pc EXCEPT ![c] = "done"]
  /\ UNCHANGED <<asks, kind, sent, reply, mainVars, poolVars>>

Left == {c \in Clients : c_pc[c] = "left"}

(* It is killed.                                                           *)
Leave(c) ==
  /\ c_pc[c] = "send"
  /\ Cardinality(Left) < MaxLeaves
  /\ c_pc' = [c_pc EXCEPT ![c] = "left"]
  /\ UNCHANGED <<asks, kind, sent, reply, mainVars, poolVars>>

-----------------------------------------------------------------------------
(* main.                                                                   *)

At(label) == ~down /\ m_pc = label

Goto(label) == m_pc' = label

(* close(newsockfd), and the end of the loop's body.                       *)
NextClient ==
  /\ Goto("accept")
  /\ cur' = NoClient /\ opened' = TRUE /\ size' = "unset"
  /\ t' = NoClient /\ seen' = NotFound

(* What main has after its n-th read: the field, if the client has sent    *)
(* it; any of the values the variable may hold, if the client has left (a  *)
(* reset discards what it sent); otherwise main waits.                     *)
Reads(n, field, any) ==
  (IF sent[cur] >= n THEN {field} ELSE {}) \cup (IF cur \in Left THEN any ELSE {})

Accept(c) ==
  /\ At("accept")
  /\ c_pc[c] \in {"send", "left"}
  /\ reply[c] = "none"
  /\ Goto("type")
  /\ cur' = c
  /\ UNCHANGED <<clientVars, reply, opened, size, t, seen, leaked, down, poolVars>>

Types == Reads(1, IF kind[cur] = "status" THEN 1 ELSE 0, {0, 1})

ReadTypeStatus ==
  /\ At("type")
  /\ 1 \in Types
  /\ Goto("ticket")
  /\ UNCHANGED <<clientVars, reply, cur, opened, size, t, seen, leaked, down, poolVars>>

(* Mutant: descriptors without end.                                        *)
ReadTypeNew_NoLimit ==
  /\ At("type")
  /\ 0 \in Types
  /\ Goto("size")
  /\ leaked' = leaked + 1
  /\ dirs' = dirs \cup {cur}
  /\ UNCHANGED <<clientVars, reply, cur, opened, size, t, seen, down, locked, status>>

(* mkdir, chdir, open.                                                     *)
ReadTypeNew ==
  /\ At("type")
  /\ 0 \in Types
  /\ Goto("size")
  /\ opened' = (leaked < MaxFiles)
  /\ leaked' = IF leaked < MaxFiles THEN leaked + 1 ELSE leaked
  /\ dirs' = dirs \cup {cur}
  /\ UNCHANGED <<clientVars, reply, cur, size, t, seen, down, locked, status>>

ReadSize ==
  /\ At("size")
  /\ \E s \in Reads(2, IF kind[cur] = "empty" THEN "zero" ELSE "some", {"zero", "some"}) : size' = s
  /\ Goto("file")
  /\ UNCHANGED <<clientVars, reply, cur, opened, t, seen, leaked, down, poolVars>>

(* The whole file in one read.                                             *)
ReadWhole ==
  /\ At("file")
  /\ sent[cur] = 3 /\ opened /\ size = "some"
  /\ Goto("master")
  /\ UNCHANGED <<clientVars, reply, cur, opened, size, t, seen, leaked, down, poolVars>>

(* Mutant: a short read is an error.                                       *)
ReadPart_Returns ==
  /\ At("file")
  /\ sent[cur] = 3 /\ opened
  /\ down' = TRUE
  /\ UNCHANGED <<clientVars, reply, m_pc, cur, opened, size, t, seen, leaked, poolVars>>

(* A part of it: file_bytes will never be no_of_bytes, and main stays in   *)
(* its loop, whether there is more to read, nothing, or the client's end.  *)
ReadPart ==
  /\ At("file")
  /\ sent[cur] = 3 /\ opened
  /\ Goto("stuck")
  /\ UNCHANGED <<clientVars, reply, cur, opened, size, t, seen, leaked, down, poolVars>>

(* The end of a client that sent no file, or whose file is discarded: zero *)
(* bytes are enough if that is what no_of_bytes holds.                     *)
ReadEnd ==
  /\ At("file")
  /\ cur \in Left /\ opened
  /\ Goto(IF size = "zero" THEN "master" ELSE "stuck")
  /\ UNCHANGED <<clientVars, reply, cur, opened, size, t, seen, leaked, down, poolVars>>

(* return -1: read fails on a connection that was reset, or write on a     *)
(* file that was not opened.                                               *)
MainReturns ==
  /\ \/ (At("file") \/ At("stuck")) /\ cur \in Left
     \/ At("file") /\ ~opened /\ (sent[cur] = 3 \/ cur \in Left)
  /\ down' = TRUE
  /\ UNCHANGED <<clientVars, reply, m_pc, cur, opened, size, t, seen, leaked, poolVars>>

(* masterfunction, which waits for queue_lock.                             *)
Master ==
  /\ At("master")
  /\ ~locked
  /\ status' = [status EXCEPT ![cur] = 0]
  /\ Goto("reply")
  /\ UNCHANGED <<clientVars, reply, cur, opened, size, t, seen, leaked, down, locked, dirs>>

Reply(what) == reply' = [reply EXCEPT ![cur] = what]

(* One write, which a closed connection takes.                             *)
ReplyTicket ==
  /\ At("reply")
  /\ Reply("ticket")
  /\ NextClient
  /\ UNCHANGED <<clientVars, leaked, down, poolVars>>

StatusOf(x) == IF x \in Clients THEN status[x] ELSE NotFound

ReadTicket ==
  /\ At("ticket")
  /\ \E x \in Reads(2, asks[cur], Clients \cup {NoClient}) : t' = x /\ seen' = StatusOf(x)
  /\ Goto("answer")
  /\ UNCHANGED <<clientVars, reply, cur, opened, size, leaked, down, poolVars>>

(* The second write to a connection that the client has closed: SIGPIPE    *)
(* ends the process, unless the answer to the first is still on its way.   *)
BrokenPipe ==
  /\ At("answer")
  /\ cur \in Left
  /\ seen = 0 => ~locked
  /\ seen = 2 => t \in dirs
  /\ down' = TRUE
  /\ UNCHANGED <<clientVars, reply, m_pc, cur, opened, size, t, seen, leaked, poolVars>>

(* Mutant: nothing is written about an unknown ticket.                     *)
AnswerOther_Silent ==
  /\ At("answer")
  /\ seen \in {1, NotFound}
  /\ IF seen = 1 THEN Reply("processing") ELSE UNCHANGED reply
  /\ NextClient
  /\ UNCHANGED <<clientVars, leaked, down, poolVars>>

AnswerOther ==
  /\ At("answer")
  /\ seen \in {1, NotFound}
  /\ Reply(IF seen = 1 THEN "processing" ELSE "not found")
  /\ NextClient
  /\ UNCHANGED <<clientVars, leaked, down, poolVars>>

(* know_position keeps the lock if its scan finds the ticket, which a ring *)
(* that wraps may hide and a slot just emptied may still show.             *)
AnswerQueued ==
  /\ At("answer")
  /\ seen = 0
  /\ ~locked
  /\ locked' \in BOOLEAN
  /\ Reply("queued")
  /\ NextClient
  /\ UNCHANGED <<clientVars, leaked, down, status, dirs>>

(* Mutants: the directory stays; the ticket is taken out of the map.       *)
AnswerGraded_Keeps ==
  /\ At("answer")
  /\ seen = 2
  /\ Reply(IF t \in dirs THEN "result" ELSE "nothing")
  /\ NextClient
  /\ UNCHANGED <<clientVars, leaked, down, poolVars>>

AnswerGraded_Forgets ==
  /\ At("answer")
  /\ seen = 2
  /\ Reply(IF t \in dirs THEN "result" ELSE "nothing")
  /\ dirs' = dirs \ {t}
  /\ status' = [status EXCEPT ![t] = NotFound]
  /\ NextClient
  /\ UNCHANGED <<clientVars, leaked, down, locked>>

(* The result, or, when the directory is gone, a length of -1 and no       *)
(* message; the directory is removed.                                      *)
AnswerGraded ==
  /\ At("answer")
  /\ seen = 2
  /\ Reply(IF t \in dirs THEN "result" ELSE "nothing")
  /\ dirs' = dirs \ {t}
  /\ NextClient
  /\ UNCHANGED <<clientVars, leaked, down, locked, status>>

-----------------------------------------------------------------------------
(* The workers.                                                            *)

WorkerTake(x) ==
  /\ ~down /\ ~locked
  /\ status[x] = 0
  /\ status' = [status EXCEPT ![x] = 1]
  /\ UNCHANGED <<clientVars, reply, mainVars, locked, dirs>>

WorkerFinish(x) ==
  /\ ~down
  /\ status[x] = 1
  /\ status' = [status EXCEPT ![x] = 2]
  /\ UNCHANGED <<clientVars, reply, mainVars, locked, dirs>>

MainStep ==
  \/ \E c \in Clients : Accept(c)
  \/ ReadTypeStatus \/ ReadTypeNew \/ ReadSize \/ ReadWhole \/ ReadPart \/ ReadEnd
  \/ MainReturns \/ Master \/ ReplyTicket
  \/ ReadTicket \/ BrokenPipe \/ AnswerOther \/ AnswerQueued \/ AnswerGraded

Next ==
  \/ \E c \in Clients : Connect(c) \/ ClientWrite(c) \/ ClientRead(c) \/ Leave(c)
  \/ \E x \in Clients : WorkerTake(x) \/ WorkerFinish(x)
  \/ MainStep

Spec == Init /\ [][Next]_vars

(* main and the clients run.  The pool owes nobody anything here.          *)
FairSpec ==
  /\ Spec
  /\ WF_vars(MainStep)
  /\ \A c \in Clients : WF_vars(ClientWrite(c) \/ ClientRead(c))

-----------------------------------------------------------------------------
TypeOK ==
  /\ c_pc \in [Clients -> {"start", "send", "done", "left"}]
  /\ asks \in [Clients -> Clients \cup {NoClient}]
  /\ kind \in [Clients -> {"new", "empty", "status"}] /\ sent \in [Clients -> 0 .. 3]
  /\ reply \in [Clients -> {"none", "ticket", "queued", "processing", "result", "nothing",
                            "not found"}]
  /\ m_pc \in {"accept", "type", "size", "file", "stuck", "master", "reply", "ticket", "answer"}
  /\ cur \in Clients \cup {NoClient} /\ t \in Clients \cup {NoClient}
  /\ opened \in BOOLEAN /\ down \in BOOLEAN /\ locked \in BOOLEAN
  /\ size \in {"zero", "some", "unset"}
  /\ seen \in NotFound .. 2 /\ status \in [Clients -> NotFound .. 2]
  /\ leaked \in 0 .. MaxFiles
  /\ dirs \subseteq Clients

Answers(x) == {reply[c] : c \in {d \in Clients \ Left : kind[d] = "status" /\ asks[d] = x}} \ {"none"}

(* A client that asks for a ticket that somebody was told is never told    *)
(* that it is not found, however often and by whomever it was asked for    *)
(* before: the ticket is in the map before it is told, and stays there.    *)
ToldIsFound ==
  \A x \in Told : status[x] # NotFound /\ "not found" \notin Answers(x)

(* The result of a ticket is told to one client.                           *)
ResultToldOnce ==
  \A c, d \in Clients \ Left : reply[c] = "result" /\ reply[d] = "result" /\ asks[c] = asks[d] => c = d

(* A result waits until somebody asks for it, unless a client left in the  *)
(* middle of its request: main may then answer, to nobody, about any       *)
(* ticket, and remove its directory.                                       *)
ResultWaits ==
  \A x \in Clients :
    status[x] = 2 /\ x \notin dirs => Left # {} \/ "result" \in Answers(x)

(* A result goes to one client that asked for it, not to two, and is not   *)
(* removed before.                                                         *)
ResultGoesToAsker == ResultToldOnce /\ ResultWaits

(* The process ends only because a client left, or when main has no        *)
(* descriptors left for uploads.  In particular it survives its answers to *)
(* clients that stay, and files that come in pieces.                       *)
DownOnlyIfLeft == down => Left # {} \/ leaked = MaxFiles

(* main stops serving only if a file came in pieces or was empty, a client *)
(* left, it keeps queue_lock, or it has no descriptor for an upload: if    *)
(* none of these happens, every client gets an answer.                     *)
Quiet == /\ Left = {}
         /\ \A c \in Clients : kind[c] # "empty"
         /\ m_pc # "stuck"
         /\ ~locked
         /\ opened

EveryClientServed ==
  []Quiet =>
    \A c \in Clients : c_pc[c] = "send" ~> c_pc[c] = "done" /\ reply[c] # "none"
=============================================================================
