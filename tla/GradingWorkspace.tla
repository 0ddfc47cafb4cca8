-------------------------- MODULE GradingWorkspace ---------------------------
(***************************************************************************)
(* The version 4 server with its files.  main receives an upload with the  *)
(* whole process moved into the ticket's directory (chdir is per process,  *)
(* not per thread); meanwhile the workers run grader, whose paths are all  *)
(* relative to the directory the server was started in.  A path used while *)
(* the process is elsewhere names nothing: opens fail, and a shell command *)
(* fails in its redirections before it does anything.                      *)
(*                                                                         *)
(* The module refines TicketPool: its upload ends with Submit, and grader  *)
(* is cut at its system calls.  A system() child inherits the directory    *)
(* when it is forked, so each command is one step.                         *)
(***************************************************************************)
EXTENDS TicketPool

CONSTANTS Home,      \* the directory the server was started in
          Verdicts   \* what the submitted programs may be, see below

(* A program compiles, ends normally and prints the expected text or not.  *)
ASSUME WorkspaceAssumption ==
  /\ Home \notin Items
  /\ Verdicts \subseteq {"correct", "wrong", "nocompile", "crash"}

VARIABLES
  cwd,        \* the working directory of the process
  link,       \* main's upload: idle, reading, stuck, or down (main returned)
  upload,     \* the ticket being uploaded
  verdict,    \* what each uploaded program is
  dir,        \* the directory of each ticket
  step,       \* where in grader each worker is
  answers,    \* what status queries answered for each graded ticket
  disturbed   \* history: tickets graded partly while cwd was not Home

fileVars == <<cwd, link, upload, verdict, dir, step, answers, disturbed>>
wsVars == <<vars, fileVars>>

(* The files of a directory; "absent" or what is in them.                  *)
NoDir == [exists |-> FALSE, test |-> "absent", output |-> "absent", diff |-> "absent"]

WInit ==
  /\ Init
  /\ cwd = Home
  /\ link = "idle"
  /\ upload = NoItem
  /\ verdict = [x \in Items |-> "unknown"]
  /\ dir = [x \in Items |-> NoDir]
  /\ step = [w \in Workers |-> "none"]
  /\ answers = [x \in Items |-> {}]
  /\ disturbed = {}

Running == link # "down"

-----------------------------------------------------------------------------
(* main receives a file.                                                   *)

(* mkdir, chdir, open; a time stamp names a directory that does not exist. *)
UploadStart(x) ==
  /\ link = "idle"
  /\ pc[Main] = "accept"
  /\ status[x] = NotFound
  /\ ~dir[x].exists
  /\ dir' = [dir EXCEPT ![x].exists = TRUE]
  /\ cwd' = x
  /\ link' = "reading"
  /\ upload' = x
  /\ \E v \in Verdicts : verdict' = [verdict EXCEPT ![x] = v]
  /\ UNCHANGED <<vars, step, answers, disturbed>>

(* The whole file came in one read: chdir("..") and call masterfunction.   *)
UploadEnd ==
  /\ link = "reading"
  /\ cwd' = Home
  /\ link' = "idle"
  /\ upload' = NoItem
  /\ Submit(upload)
  /\ UNCHANGED <<verdict, dir, step, answers, disturbed>>

(* It came in several reads, so that file_bytes, reset for each of them,   *)
(* never reaches no_of_bytes; or the client left and read returns 0.       *)
UploadStuck ==
  /\ link = "reading"
  /\ link' = "stuck"
  /\ UNCHANGED <<vars, cwd, upload, verdict, dir, step, answers, disturbed>>

(* The connection was reset: main returns, which ends the process.         *)
UploadFails ==
  /\ link = "reading"
  /\ link' = "down"
  /\ UNCHANGED <<vars, cwd, upload, verdict, dir, step, answers, disturbed>>

-----------------------------------------------------------------------------
(* grader.  AtHome: the relative paths of this call name what they should. *)
AtHome == cwd = Home

GraderAt(w, label) == Running /\ pc[w] = "grade" /\ step[w] = label

(* Mutant: one directory serves all tickets.                               *)
DirOf_Shared(w) == CHOOSE x \in Items : TRUE

DirOf(w) == ticket[w]

GraderGoes(w, label) ==
  /\ step' = [step EXCEPT ![w] = label]
  /\ disturbed' = IF AtHome THEN disturbed ELSE disturbed \cup {ticket[w]}
  /\ UNCHANGED <<vars, cwd, link, upload, verdict, answers>>

(* Opening the three files, the expected text written into the first.      *)
GraderOpen(w) ==
  /\ GraderAt(w, "open")
  /\ dir' = IF AtHome
            THEN [dir EXCEPT ![DirOf(w)] =
                    [@ EXCEPT !.test = "expected", !.output = "empty", !.diff = "empty"]]
            ELSE dir
  /\ GraderGoes(w, "compile")

(* g++ with its errors redirected into the output file.                    *)
GraderCompile(w) ==
  LET ok == AtHome /\ verdict[ticket[w]] # "nocompile" IN
    /\ GraderAt(w, "compile")
    /\ dir' = IF AtHome
              THEN [dir EXCEPT ![DirOf(w)].output = IF ok THEN "empty" ELSE "errors"]
              ELSE dir
    /\ GraderGoes(w, IF ok THEN "run" ELSE "publish")

(* The program, with its output and errors redirected there.               *)
Printed(v) == CASE v = "correct" -> "expected"
                [] v = "wrong"   -> "other"
                [] v = "crash"   -> "errors"

GraderRun(w) ==
  LET ok == AtHome /\ verdict[ticket[w]] # "crash" IN
    /\ GraderAt(w, "run")
    /\ dir' = IF AtHome
              THEN [dir EXCEPT ![DirOf(w)].output = Printed(verdict[ticket[w]])]
              ELSE dir
    /\ GraderGoes(w, IF ok THEN "diff" ELSE "publish")

(* diff; without the expected text it fails and prints nothing.            *)
Compared(d) == IF d.test = "expected" /\ d.output # d.test THEN "difference" ELSE "empty"

GraderDiff(w) ==
  /\ GraderAt(w, "diff")
  /\ dir' = IF AtHome
            THEN [dir EXCEPT ![DirOf(w)].diff = Compared(dir[DirOf(w)])]
            ELSE dir
  /\ GraderGoes(w, "publish")

-----------------------------------------------------------------------------
(* Mutant: the output is preferred to the diff.                            *)
AnswerFrom_OutputFirst(d) ==
  IF ~d.exists THEN "nothing" ELSE IF d.output = "absent" THEN "empty" ELSE d.output

(* A status query of a graded ticket: the diff if there is one, else the   *)
(* output, and the directory is removed.  The two opens create what is     *)
(* missing, unless the directory itself is: then the lengths are -1.       *)
AnswerFrom(d) ==
  IF ~d.exists THEN "nothing"
  ELSE IF d.diff = "difference" THEN "difference"
  ELSE IF d.output = "absent" THEN "empty" ELSE d.output

(* Mutant: results are handed out as soon as grading has begun.            *)
Retrieve_Early(x) ==
  /\ link = "idle"
  /\ pc[Main] = "accept"
  /\ status[x] \in {Processing, Graded}
  /\ answers' = [answers EXCEPT ![x] = @ \cup {AnswerFrom(dir[x])}]
  /\ dir' = [dir EXCEPT ![x] = NoDir]
  /\ UNCHANGED <<vars, cwd, link, upload, verdict, step, disturbed>>

(* Mutant: the retrieved ticket is taken out of the map.                   *)
Retrieve_Forgets(x) ==
  /\ link = "idle"
  /\ pc[Main] = "accept"
  /\ status[x] = Graded
  /\ answers' = [answers EXCEPT ![x] = @ \cup {AnswerFrom(dir[x])}]
  /\ dir' = [dir EXCEPT ![x] = NoDir]
  /\ status' = [status EXCEPT ![x] = NotFound]
  /\ UNCHANGED <<readyVars, queue_lock, pc, ticket, queries, cwd, link, upload,
                 verdict, step, disturbed>>

Retrieve(x) ==
  /\ link = "idle"
  /\ pc[Main] = "accept"
  /\ status[x] = Graded
  /\ answers' = [answers EXCEPT ![x] = @ \cup {AnswerFrom(dir[x])}]
  /\ dir' = [dir EXCEPT ![x] = NoDir]
  /\ UNCHANGED <<vars, cwd, link, upload, verdict, step, disturbed>>

-----------------------------------------------------------------------------
(* The steps of the pool, with grader entered and left.                    *)
PoolMain ==
  /\ link = "idle"
  /\ MainStep \/ \E x \in Items : AskPosition(x)
  /\ UNCHANGED fileVars

(* Mutant: the result is published before grader has ended.                *)
PoolWorker_EarlyFinish(w) ==
  /\ Running
  /\ \/ (WorkerWait(w) \/ WorkerWake(w)) /\ UNCHANGED step
     \/ WorkerTake(w) /\ step' = [step EXCEPT ![w] = "open"]
     \/ WorkerFinish(w) /\ UNCHANGED step
  /\ UNCHANGED <<cwd, link, upload, verdict, dir, answers, disturbed>>

PoolWorker(w) ==
  /\ Running
  /\ \/ (WorkerWait(w) \/ WorkerWake(w)) /\ UNCHANGED step
     \/ WorkerTake(w) /\ step' = [step EXCEPT ![w] = "open"]
     \/ WorkerFinish(w) /\ step[w] = "publish" /\ step' = [step EXCEPT ![w] = "none"]
  /\ UNCHANGED <<cwd, link, upload, verdict, dir, answers, disturbed>>

PoolSpurious ==
  /\ Running
  /\ SpuriousWake
  /\ UNCHANGED fileVars

WNext ==
  \/ \E x \in Items : UploadStart(x) \/ Retrieve(x)
  \/ UploadEnd \/ UploadStuck \/ UploadFails
  \/ PoolMain
  \/ \E w \in Workers :
       \/ PoolWorker(w)
       \/ GraderOpen(w) \/ GraderCompile(w) \/ GraderRun(w) \/ GraderDiff(w)
  \/ PoolSpurious

WSpec == WInit /\ [][WNext]_wsVars

-----------------------------------------------------------------------------
WTypeOK ==
  /\ cwd \in Items \cup {Home}
  /\ link \in {"idle", "reading", "stuck", "down"}
  /\ upload \in Items \cup {NoItem}
  /\ verdict \in [Items -> Verdicts \cup {"unknown"}]
  /\ dir \in [Items -> [exists : BOOLEAN,
                        test   : {"absent", "expected"},
                        output : {"absent", "empty", "errors", "expected", "other"},
                        diff   : {"absent", "empty", "difference"}]]
  /\ step \in [Workers -> {"none", "open", "compile", "run", "diff", "publish"}]
  /\ \A w \in Workers : step[w] = "none" <=> w \notin Busy
  /\ answers \in [Items -> SUBSET {"nothing", "empty", "errors", "expected", "other",
                                   "difference"}]
  /\ disturbed \subseteq Items

(* What the client should learn about its program.                         *)
Verdict(x) == CASE verdict[x] = "correct"   -> "expected"
                [] verdict[x] = "wrong"     -> "difference"
                [] verdict[x] = "nocompile" -> "errors"
                [] verdict[x] = "crash"     -> "errors"
                [] OTHER                    -> "unknown"

(* The refinement: whatever the files do, queue, map and threads behave as *)
(* in TicketPool.                                                          *)
ImplementsPool == Spec

(* A ticket's directory stays until its grading is over.                   *)
DirOutlivesGrading == \A w \in Busy : dir[ticket[w]].exists

(* No interleaving makes a program look right that is not.                 *)
NoFalsePass == \A x \in Items : "expected" \in answers[x] => verdict[x] = "correct"

(* The moving working directory is all that can spoil a result: a ticket   *)
(* whose grading saw no upload gets its verdict (or nothing, once its      *)
(* result was fetched and removed).                                        *)
UndisturbedIsRight ==
  \A x \in Items \ disturbed : answers[x] \subseteq {Verdict(x), "nothing"}

(* The process is away from Home only while main receives a file.          *)
HomeUnlessReading == (cwd = Home) <=> (link = "idle")

(* Both are what the relative paths of grader, main and saver rely on: no  *)
(* retrieval removes a directory under a grader, and every way through an  *)
(* upload that goes on serving leads back to Home.                         *)
FilesInPlace == DirOutlivesGrading /\ HomeUnlessReading

(* What grader's comments promise: the compiler's errors, or the output,   *)
(* or the differences reach the client.                                    *)
AnswerIsVerdict ==
  \A x \in Items : answers[x] \subseteq {Verdict(x), "nothing"}
=============================================================================
