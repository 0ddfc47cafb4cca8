------------------------------- MODULE Exchange ------------------------------
(***************************************************************************)
(* The client programs of versions 1 to 3 against their servers, read by   *)
(* read and write by write: a client makes loopNumber requests, each on a  *)
(* connection of its own, sends the size of its file and the file, waits,  *)
(* in versions 2 and 3 not longer than a timeout, and reads the size and   *)
(* the bytes of the reply.  TCP delivers the bytes in order, in pieces of  *)
(* any size; an int is one piece.                                          *)
(*                                                                         *)
(* The versions differ in who is served when (version 1: one connection    *)
(* after the other), in what the receiving loop compares with the size,    *)
(* and in whether a client that gives up closes its connection.            *)
(***************************************************************************)
EXTENDS Integers, FiniteSets

CONSTANTS
  Loops,      \* the number of requests the client makes
  BufSize,    \* the size of the buffers on both sides
  FileSizes,  \* the sizes a submitted file may have
  OutSizes,   \* the sizes a reply may have
  Timeout     \* the seconds in the client's last argument

ASSUME ExchangeAssumption == /\ Loops \in Nat \ {0}
                             /\ BufSize \in Nat \ {0}
                             /\ FileSizes \subseteq Nat
                             /\ OutSizes \subseteq Nat /\ OutSizes # {}
                             /\ Timeout \in Nat

VARIABLES
  version,    \* 1, 2 or 3
  bytes,      \* the size of the file the client sends
  x,          \* the request the client is at
  c_pc,       \* where the client is
  k,          \* the bytes of the reply it has read
  o_bytes,    \* the size of the reply it was told
  timeout,    \* what select has left of the timeout
  waited,     \* history: the seconds select has slept for each request
  answered,   \* the requests it counts as answered
  timedout,   \* the requests it gave up
  conn,       \* the connections
  srv,        \* the server's side of each, with its thread's variables
  down        \* whether the server was killed by SIGPIPE

timeVars == <<timeout, waited>>
clientVars == <<x, c_pc, k, o_bytes, timeVars, answered, timedout>>
vars == <<version, bytes, clientVars, conn, srv, down>>

Requests == 1 .. Loops

(* How much of n bytes one call transfers: all a buffer holds, or, for     *)
(* read, any part of that.                                                 *)
Full(n) == IF n < BufSize THEN n ELSE BufSize
Pieces(n) == 1 .. Full(n)

NoConnection == [end |-> "none", told |-> FALSE, sent |-> 0, up |-> 0,
                 otold |-> FALSE, reply |-> 0]
NoThread == [pc |-> "none", file_bytes |-> 0, received |-> 0, out |-> 0, left |-> 0]

Init ==
  /\ version \in 1 .. 3
  /\ bytes \in FileSizes
  /\ x = 1
  /\ c_pc = "connect"
  /\ k = 0
  /\ o_bytes = 0
  /\ timeout = Timeout
  /\ waited = [y \in Requests |-> 0]
  /\ answered = {}
  /\ timedout = {}
  /\ conn = [y \in Requests |-> NoConnection]
  /\ srv = [y \in Requests |-> NoThread]
  /\ down = FALSE

-----------------------------------------------------------------------------
(* The client.                                                             *)

(* The end of a turn of its loop; after the last one it exits, which       *)
(* closes every connection it still has.                                   *)
NextRequest(closes) ==
  /\ conn' = [y \in Requests |->
                IF x = Loops \/ (closes /\ y = x) THEN [conn[y] EXCEPT !.end = "closed"]
                                                  ELSE conn[y]]
  /\ x' = IF x = Loops THEN x ELSE x + 1
  /\ c_pc' = IF x = Loops THEN "end" ELSE "connect"

(* connect, and the size of the file.                                      *)
Connect ==
  /\ c_pc = "connect"
  /\ ~down
  /\ conn' = [conn EXCEPT ![x].end = "open", ![x].told = TRUE]
  /\ c_pc' = "send"
  /\ UNCHANGED <<version, bytes, x, k, o_bytes, timeVars, answered, timedout, srv, down>>

Send ==
  LET rest == bytes - conn[x].sent IN
    /\ c_pc = "send"
    /\ rest > 0
    /\ conn' = [conn EXCEPT ![x].sent = @ + Full(rest), ![x].up = @ + Full(rest)]
    /\ UNCHANGED <<version, bytes, clientVars, srv, down>>

(* The whole file is sent; version 1 does not wait with select.            *)
SendEnds ==
  /\ c_pc = "send"
  /\ conn[x].sent = bytes
  /\ c_pc' = IF version = 1 THEN "size" ELSE "wait"
  /\ UNCHANGED <<version, bytes, x, k, o_bytes, timeVars, answered, timedout, conn, srv, down>>

Readable == conn[x].otold \/ srv[x].pc = "closed" \/ down

Select ==
  /\ c_pc = "wait"
  /\ Readable
  /\ c_pc' = "size"
  /\ UNCHANGED <<version, bytes, x, k, o_bytes, timeVars, answered, timedout, conn, srv, down>>

(* Mutant: each call of select has the whole timeout.                      *)
Wait_Afresh ==
  /\ c_pc = "wait"
  /\ ~Readable
  /\ waited[x] < Timeout
  /\ waited' = [waited EXCEPT ![x] = @ + 1]
  /\ timeout' = Timeout - waited'[x]
  /\ UNCHANGED <<version, bytes, x, c_pc, k, o_bytes, answered, timedout, conn, srv, down>>

(* select sleeps, and takes the time from its argument, which the loop     *)
(* does not set again.                                                     *)
Wait ==
  /\ c_pc = "wait"
  /\ ~Readable
  /\ timeout > 0
  /\ timeout' = timeout - 1
  /\ waited' = [waited EXCEPT ![x] = @ + 1]
  /\ UNCHANGED <<version, bytes, x, c_pc, k, o_bytes, answered, timedout, conn, srv, down>>

(* Mutants: version 3 closes the connection too; the request is not given  *)
(* up.                                                                     *)
TimeOut_Closes ==
  /\ c_pc = "wait"
  /\ ~Readable
  /\ timeout = 0
  /\ timedout' = timedout \cup {x}
  /\ NextRequest(TRUE)
  /\ UNCHANGED <<version, bytes, k, o_bytes, timeVars, answered, srv, down>>

TimeOut_Retries ==
  /\ c_pc = "wait"
  /\ ~Readable
  /\ timeout = 0
  /\ timedout' = timedout \cup {x}
  /\ UNCHANGED <<version, bytes, x, c_pc, k, o_bytes, timeVars, answered, conn, srv, down>>

(* select returns 0: only version 2 closes the connection.                 *)
TimeOut ==
  /\ c_pc = "wait"
  /\ ~Readable
  /\ timeout = 0
  /\ timedout' = timedout \cup {x}
  /\ NextRequest(version = 2)
  /\ UNCHANGED <<version, bytes, k, o_bytes, timeVars, answered, srv, down>>

(* If the server is gone, read returns 0 and o_bytes is not initialized.   *)
ReadSize ==
  /\ c_pc = "size"
  /\ \/ conn[x].otold /\ o_bytes' = srv[x].out
     \/ ~conn[x].otold /\ down /\ o_bytes' \in OutSizes \cup {0}
  /\ conn' = [conn EXCEPT ![x].otold = FALSE]
  /\ k' = 0
  /\ c_pc' = "read"
  /\ UNCHANGED <<version, bytes, x, timeVars, answered, timedout, srv, down>>

ReadReply ==
  /\ c_pc = "read"
  /\ \E n \in Pieces(conn[x].reply) :
       /\ k' = k + n
       /\ IF k' = o_bytes
          THEN /\ answered' = answered \cup {x}
               /\ NextRequest(TRUE)
          ELSE /\ conn' = [conn EXCEPT ![x].reply = @ - n]
               /\ UNCHANGED <<x, c_pc, answered>>
  /\ UNCHANGED <<version, bytes, o_bytes, timeVars, timedout, srv, down>>

(* read returns 0; if k is not o_bytes the loop goes on like this for ever.*)
ReadEnd ==
  /\ c_pc = "read"
  /\ conn[x].reply = 0
  /\ srv[x].pc = "closed" \/ down
  /\ k = o_bytes
  /\ answered' = answered \cup {x}
  /\ NextRequest(TRUE)
  /\ UNCHANGED <<version, bytes, k, o_bytes, timeVars, timedout, srv, down>>

(* connect, write or read fails for a server that is gone: version 2 exits.*)
ClientFails ==
  /\ down
  /\ version = 2
  /\ c_pc # "end"
  /\ c_pc' = "end"
  /\ conn' = [y \in Requests |-> [conn[y] EXCEPT !.end = "closed"]]
  /\ UNCHANGED <<version, bytes, x, k, o_bytes, timeVars, answered, timedout, srv, down>>

ClientStep == Connect \/ Send \/ SendEnds \/ Select \/ ReadSize \/ ReadReply \/ ReadEnd

-----------------------------------------------------------------------------
(* The server: main, the thread or the worker that serves connection y.    *)
(* There are as many workers as requests.                                  *)

ServerAt(y, label) == ~down /\ srv[y].pc = label

Accept(y) ==
  /\ ServerAt(y, "none")
  /\ conn[y].end # "none"
  /\ version = 1 => \A z \in 1 .. y - 1 : srv[z].pc = "closed"
  /\ srv' = [srv EXCEPT ![y].pc = "size"]
  /\ UNCHANGED <<version, bytes, clientVars, conn, down>>

(* no_of_bytes, which is there when the connection is.                     *)
ServerReadsSize(y) ==
  /\ ServerAt(y, "size")
  /\ conn[y].told
  /\ srv' = [srv EXCEPT ![y].pc = "body"]
  /\ UNCHANGED <<version, bytes, clientVars, conn, down>>

(* Mutants: the count starts again in version 2 as well; a read that does  *)
(* not fill the buffer is taken for the last.                              *)
Counted_Reset(y, n) == n

ServerReads_Short(y) ==
  /\ ServerAt(y, "body")
  /\ \E n \in Pieces(conn[y].up) :
       /\ conn' = [conn EXCEPT ![y].up = @ - n]
       /\ srv' = [srv EXCEPT ![y].pc = IF n < BufSize THEN "grade" ELSE "body",
                             ![y].received = @ + n]
  /\ UNCHANGED <<version, bytes, clientVars, down>>

(* file_bytes: version 2 sums up, the others start again for each read.    *)
Counted(y, n) == IF version = 2 THEN srv[y].file_bytes + n ELSE n

(* read returns a piece of what has arrived, or 0 if the client has left.  *)
ReadReturns(y) ==
  IF conn[y].up > 0 THEN Pieces(conn[y].up)
                    ELSE {n \in {0} : conn[y].end = "closed"}

ServerReads(y) ==
  /\ ServerAt(y, "body")
  /\ \E n \in ReadReturns(y) :
       /\ conn' = [conn EXCEPT ![y].up = @ - n]
       /\ srv' = [srv EXCEPT ![y].pc = IF Counted(y, n) = bytes THEN "grade" ELSE "body",
                             ![y].file_bytes = Counted(y, n),
                             ![y].received = @ + n]
  /\ UNCHANGED <<version, bytes, clientVars, down>>

Grade(y) ==
  /\ ServerAt(y, "grade")
  /\ \E o \in OutSizes :
       srv' = [srv EXCEPT ![y].pc = "osize", ![y].out = o, ![y].left = o]
  /\ UNCHANGED <<version, bytes, clientVars, conn, down>>

(* A write to a client that has closed is lost, or raises SIGPIPE, which   *)
(* nothing handles.                                                        *)
Writes(y, delivered) ==
  \/ conn[y].end = "open" /\ conn' = delivered /\ UNCHANGED down
  \/ conn[y].end = "closed" /\ UNCHANGED conn /\ down' \in BOOLEAN

ServerWritesSize(y) ==
  /\ ServerAt(y, "osize")
  /\ Writes(y, [conn EXCEPT ![y].otold = TRUE])
  /\ srv' = [srv EXCEPT ![y].pc = "out"]
  /\ UNCHANGED <<version, bytes, clientVars>>

(* Mutant: the whole buffer is written, not what was read into it.         *)
ServerWrites_Buffer(y) ==
  /\ ServerAt(y, "out")
  /\ srv[y].left > 0
  /\ Writes(y, [conn EXCEPT ![y].reply = @ + BufSize])
  /\ srv' = [srv EXCEPT ![y].left = @ - BufSize]
  /\ UNCHANGED <<version, bytes, clientVars>>

ServerWrites(y) ==
  LET n == Full(srv[y].left) IN
    /\ ServerAt(y, "out")
    /\ n > 0
    /\ Writes(y, [conn EXCEPT ![y].reply = @ + n])
    /\ srv' = [srv EXCEPT ![y].left = @ - n]
    /\ UNCHANGED <<version, bytes, clientVars>>

ServerCloses(y) ==
  /\ ServerAt(y, "out")
  /\ srv[y].left = 0
  /\ srv' = [srv EXCEPT ![y].pc = "closed"]
  /\ UNCHANGED <<version, bytes, clientVars, conn, down>>

ServerStep(y) ==
  \/ Accept(y) \/ ServerReadsSize(y) \/ ServerReads(y) \/ Grade(y)
  \/ ServerWritesSize(y) \/ ServerWrites(y) \/ ServerCloses(y)

Next ==
  \/ ClientStep
  \/ Wait \/ TimeOut
  \/ ClientFails
  \/ \E y \in Requests : ServerStep(y)

Spec == Init /\ [][Next]_vars

(* Client and server threads run; that time passes is an assumption of the *)
(* one property that makes it.                                             *)
FairSpec ==
  /\ Spec
  /\ WF_vars(ClientStep)
  /\ \A y \in Requests : WF_vars(ServerStep(y))

TimePasses == WF_vars(Wait \/ TimeOut)

-----------------------------------------------------------------------------
TypeOK ==
  /\ version \in 1 .. 3
  /\ bytes \in FileSizes
  /\ x \in Requests
  /\ c_pc \in {"connect", "send", "wait", "size", "read", "end"}
  /\ k \in Nat /\ o_bytes \in OutSizes \cup {0}
  /\ timeout \in 0 .. Timeout /\ waited \in [Requests -> 0 .. Timeout]
  /\ answered \subseteq Requests /\ timedout \subseteq Requests
  /\ conn \in [Requests -> [end : {"none", "open", "closed"}, told : BOOLEAN, sent : Nat,
                            up : Nat, otold : BOOLEAN, reply : Nat]]
  /\ srv \in [Requests -> [pc : {"none", "size", "body", "grade", "osize", "out", "closed"},
                           file_bytes : Nat, received : Nat, out : OutSizes \cup {0},
                           left : Nat]]
  /\ down \in BOOLEAN

(* "Complete file reading": in every version what is graded is the whole   *)
(* file, in whatever pieces it came.                                       *)
GradedWhole ==
  \A y \in Requests :
    srv[y].pc \in {"grade", "osize", "out", "closed"} => srv[y].received = bytes

(* A response that is counted was read to its last byte, unless the server *)
(* is gone.                                                                *)
CountedWhole ==
  \A y \in answered :
    down \/ (srv[y].pc \in {"out", "closed"} /\ srv[y].left = 0 /\ conn[y].otold = FALSE)

(* So neither side takes a part of a file or reply for all of it, although *)
(* each read returns any part, and lengths are compared by equality.       *)
WholeOnly == GradedWhole /\ CountedWhole

(* SIGPIPE needs a client that gave up: one that waits reads everything    *)
(* before it closes.  In version 3 it needs a client that has ended.       *)
DownOnlyAfterTimeout ==
  down => timedout # {} /\ (version = 3 => c_pc = "end")

(* Version 2 gets files of any size through in any pieces: the client's    *)
(* loop ends, unless the server is gone.                                   *)
EveryRequestEnds == version = 2 /\ bytes > 0 ~> c_pc = "end" \/ down

(* The timeout is one for all requests: once a request has timed out, no   *)
(* later one is waited for, and is answered only if its reply is there     *)
(* when select looks.                                                      *)
PatienceIsSpent ==
  \A y \in timedout, z \in Requests : z > y => waited[z] = 0

(* The timeout frees a client from a server that will never have received  *)
(* its file (version 3), or never compares sizes of an empty one.          *)
ClientEndsInTime ==
  TimePasses => (version \in {2, 3} ~> c_pc = "end" \/ down)

(* "//complete file reading": a file that was sent is received.            *)
EveryUploadReceived ==
  \A y \in Requests :
    srv[y].pc = "body" /\ bytes > 0 /\ conn[y].sent = bytes ~> srv[y].pc # "body" \/ down
=============================================================================
