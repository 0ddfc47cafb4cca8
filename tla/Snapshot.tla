------------------------------ MODULE Snapshot -------------------------------
(***************************************************************************)
(* Fault tolerance in version 4: a thread that writes the queue and the    *)
(* status map to two files once a second (periodicSave), without taking    *)
(* queue_lock, while main queues tickets and workers take them; what the   *)
(* two loaders would make of these files; and the end of the process,      *)
(* after which a new one starts and calls neither loader.                  *)
(*                                                                         *)
(* queue_insert, queue_delete and the updates of the map are cut at what   *)
(* the saver can see.  The walk over the map is one step per line: module  *)
(* HashMap shows that it misses no ticket and repeats none.  Lines are     *)
(* kept in a buffer by stdio; the queue's fit in one.                      *)
(***************************************************************************)
EXTENDS RingQueue, FiniteSets

CONSTANT MaxStops  \* how often the process ends (bound)

(* Tickets are time stamps.                                                *)
ASSUME SnapshotAssumption == /\ IsFiniteSet(Items)
                             /\ Items = 1 .. Cardinality(Items)
                             /\ NoItem = 0
                             /\ MaxStops \in Nat

VARIABLES
  stops,    \* how often it ended
  clock,    \* the last ticket number drawn
  m_pc,     \* main: accept, upload (in another directory), master, slot, map
  taken,    \* the ticket a worker has deleted and not yet marked, or NoItem
  status,   \* myMap, where 1 stands for 2 too: nothing here tells them apart
  s_pc,     \* where periodicSave is
  s_home,   \* whether the file it has open is the one in the server's directory
  head,     \* front and rear as it read them for the first line
  s_i,      \* its local variable i
  lines,    \* the other lines of the queue file, in the buffer
  written,  \* the lines of the map file in the buffer: statuses by ticket
  known,      \* the tickets in the map when the walk over it began
  qfile,    \* queue_data.txt
  mfile,    \* map_data.txt: statuses by ticket
  began,    \* history: the tickets queued when the save began
  room,     \* history: the free slots then, less the tickets queued since
  pair      \* history: whether the queue file, or both files are complete and of this
            \* process; or both of an old one

mainVars == <<clock, m_pc>>
memory   == <<ringVars, taken, status>>
saverVars == <<s_pc, s_home, head, s_i, lines, written, known>>
disk     == <<qfile, mfile>>
history  == <<began, room, pair>>
snapVars == <<stops, mainVars, memory, saverVars, disk, history>>

NotFound == -1
Unread == -1
NoHead == [front |-> Unread, rear |-> Unread]
NoFile == [head |-> NoHead, lines |-> <<>>]
NoStatus == [x \in Items |-> NotFound]

SnapInit ==
  /\ stops = 0
  /\ clock = 0
  /\ RingInit
  /\ m_pc = "accept"
  /\ taken = NoItem
  /\ status = NoStatus
  /\ s_pc = "sleep" /\ s_home = TRUE /\ head = NoHead /\ s_i = 0
  /\ lines = <<>> /\ written = NoStatus /\ known = {}
  /\ qfile = NoFile /\ mfile = NoStatus
  /\ began = {} /\ room = 0 /\ pair = "none"

-----------------------------------------------------------------------------
(* The loaders, from the memory of a process that has just started.        *)

Line(file, k) == IF k \in DOMAIN file.lines THEN file.lines[k] ELSE NoItem

(* The k-th line goes to the k-th slot from front; fscanf leaves the slot  *)
(* as it is when there is none.                                            *)
loadQueueFromFile(file) ==
  LET f == file.head.front
      n == LengthOf(f, file.head.rear)
  IN  IF file.head = NoHead THEN <<>>
      ELSE ContentsOf(f, file.head.rear,
             [s \in Slot |-> IF \E k \in 0 .. n - 1 : s = NthSlot(f, k)
                             THEN Line(file, 1 + LengthOf(f, s)) ELSE NoItem])

Restored(file) ==
  LET q == loadQueueFromFile(file) IN {q[k] : k \in DOMAIN q} \ {NoItem}

(* A line that a full buffer has cut in two does not have two numbers, and *)
(* ends the loops.                                                         *)
loadMapFromFile(file) == {x \in Items : file[x] # NotFound}

-----------------------------------------------------------------------------
(* main: an upload, during which the process is in the ticket's directory, *)
(* and masterfunction.                                                     *)

SavesQueue == s_pc \in {"header", "loop", "test", "line", "close"}

Locked == m_pc \in {"slot", "map"} \/ taken # NoItem

UploadStart ==
  /\ m_pc = "accept"
  /\ clock + 1 \in Items
  /\ clock' = clock + 1
  /\ m_pc' = "upload"
  /\ UNCHANGED <<stops, memory, saverVars, disk, history>>

UploadEnd ==
  /\ m_pc = "upload"
  /\ m_pc' = "master"
  /\ UNCHANGED <<stops, clock, memory, saverVars, disk, history>>

(* queue_insert: rear first, then the slot; insert.                        *)
AdvanceRear ==
  /\ m_pc = "master"
  /\ ~Locked
  /\ ~IsFull
  /\ rear' = Succ(rear)
  /\ room' = IF SavesQueue THEN room - 1 ELSE room
  /\ m_pc' = "slot"
  /\ UNCHANGED <<stops, clock, front, queue, taken, status, saverVars, disk, began, pair>>

WriteSlot ==
  /\ m_pc = "slot"
  /\ queue' = [queue EXCEPT ![rear] = clock]
  /\ m_pc' = "map"
  /\ UNCHANGED <<stops, clock, front, rear, taken, status, saverVars, disk, history>>

MapInsert ==
  /\ m_pc = "map"
  /\ status' = [status EXCEPT ![clock] = 0]
  /\ m_pc' = "accept"
  /\ UNCHANGED <<stops, clock, ringVars, taken, saverVars, disk, history>>

-----------------------------------------------------------------------------
(* The workers.                                                            *)

Take ==
  /\ ~Locked
  /\ ~IsEmpty
  /\ front' = Succ(front)
  /\ taken' = queue[Succ(front)]
  /\ UNCHANGED <<stops, mainVars, rear, queue, status, saverVars, disk, history>>

MarkTaken ==
  /\ taken # NoItem
  /\ status' = [status EXCEPT ![taken] = 1]
  /\ taken' = NoItem
  /\ UNCHANGED <<stops, mainVars, ringVars, saverVars, disk, history>>

-----------------------------------------------------------------------------
(* periodicSave: saveQueueToFile.                                          *)

SaverAt(label) == s_pc = label

Queued ==
  {queue[NthSlot(front, k)] :
     k \in {n \in 1 .. Length : m_pc = "slot" => NthSlot(front, n) # rear}}

AtHome == m_pc # "upload"

(* fopen fails while all descriptors are in use; the function returns.     *)
QueueFileFails ==
  /\ SaverAt("sleep")
  /\ s_pc' = "open"
  /\ UNCHANGED <<stops, mainVars, memory, s_home, head, s_i, lines, written, known, disk, history>>

(* Mutant: mode "r+", which wants the file to exist.                       *)
OpenQueueFile_MustExist ==
  /\ qfile = NoFile
  /\ QueueFileFails

(* fopen with "w" empties the file, in whatever directory the process is.  *)

OpenQueueFile ==
  /\ SaverAt("sleep")
  /\ s_pc' = "header"
  /\ s_home' = AtHome
  /\ qfile' = IF AtHome THEN NoFile ELSE qfile
  /\ pair' = IF AtHome THEN "none" ELSE pair
  /\ began' = Queued
  /\ room' = QUEUE_SIZE - 1 - Length
  /\ UNCHANGED <<stops, mainVars, memory, head, s_i, lines, written, known, mfile>>

(* The two arguments of fprintf, in either order.                          *)
ReadHead ==
  /\ SaverAt("header")
  /\ \/ head.front = Unread /\ head' = [head EXCEPT !.front = front]
     \/ head.rear = Unread /\ head' = [head EXCEPT !.rear = rear]
  /\ s_pc' = IF Unread \in {head'.front, head'.rear} THEN "header" ELSE "loop"
  /\ UNCHANGED <<stops, mainVars, memory, s_home, s_i, lines, written, known, disk, history>>

(* Mutant: the loop starts at the oldest ticket.                           *)
EnterLoop_AtOldest ==
  /\ SaverAt("loop")
  /\ s_i' = IF front = rear THEN front ELSE Succ(front)
  /\ s_pc' = "test"
  /\ UNCHANGED <<stops, mainVars, memory, s_home, head, lines, written, known, disk, history>>

EnterLoop ==
  /\ SaverAt("loop")
  /\ s_i' = front
  /\ s_pc' = "test"
  /\ UNCHANGED <<stops, mainVars, memory, s_home, head, lines, written, known, disk, history>>

TestLoop ==
  /\ SaverAt("test")
  /\ s_pc' = IF s_i = rear THEN "close" ELSE "line"
  /\ UNCHANGED <<stops, mainVars, memory, s_home, head, s_i, lines, written, known, disk, history>>

WriteLine ==
  /\ SaverAt("line")
  /\ lines' = Append(lines, queue[s_i])
  /\ s_i' = Succ(s_i)
  /\ s_pc' = "test"
  /\ UNCHANGED <<stops, mainVars, memory, s_home, head, written, known, disk, history>>

Buffered == [head |-> head, lines |-> lines]

CloseQueueFile ==
  /\ SaverAt("close")
  /\ qfile' = IF s_home THEN Buffered ELSE qfile
  /\ pair' = IF s_home /\ room >= 0 THEN "queue" ELSE pair
  /\ s_pc' = "open"
  /\ head' = NoHead
  /\ s_i' = 0
  /\ lines' = <<>>
  /\ began' = {}
  /\ room' = 0
  /\ UNCHANGED <<stops, mainVars, memory, s_home, written, known, mfile>>

-----------------------------------------------------------------------------
(* periodicSave: saveMapToFile.                                            *)

(* known is what the walk cannot miss.                                     *)
OpenMapFile ==
  /\ SaverAt("open")
  /\ s_pc' = "map"
  /\ s_home' = AtHome
  /\ known' = {x \in Items : status[x] # NotFound}
  /\ mfile' = IF AtHome THEN NoStatus ELSE mfile
  /\ pair' = IF ~AtHome THEN pair ELSE CASE pair = "both" -> "queue"
                                         [] pair = "old" -> "none"
                                         [] OTHER -> pair
  /\ UNCHANGED <<stops, mainVars, memory, head, s_i, lines, written, qfile, began, room>>

MapFileFails ==
  /\ SaverAt("open")
  /\ s_pc' = "sleep"
  /\ UNCHANGED <<stops, mainVars, memory, s_home, head, s_i, lines, written, known, disk, history>>

(* One line; when the buffer is full, it is written to the file.           *)
WriteMapLine(x) ==
  /\ SaverAt("map")
  /\ status[x] # NotFound
  /\ written[x] = NotFound
  /\ written' = [written EXCEPT ![x] = status[x]]
  /\ mfile' \in IF s_home THEN {mfile, written'} ELSE {mfile}
  /\ UNCHANGED <<stops, mainVars, memory, s_pc, s_home, head, s_i, lines, known, qfile,
                 history>>

(* Mutant: the walk ends at the first empty chain.                         *)
CloseMapFile_Early ==
  /\ SaverAt("map")
  /\ mfile' = IF s_home THEN written ELSE mfile
  /\ pair' = IF s_home /\ pair = "queue" THEN "both" ELSE pair
  /\ s_pc' = "sleep"
  /\ s_home' = TRUE
  /\ written' = NoStatus
  /\ known' = {}
  /\ UNCHANGED <<stops, mainVars, memory, head, s_i, lines, qfile, began, room>>

CloseMapFile ==
  /\ SaverAt("map")
  /\ \A x \in known : written[x] # NotFound
  /\ mfile' = IF s_home THEN written ELSE mfile
  /\ pair' = IF s_home /\ pair = "queue" THEN "both" ELSE pair
  /\ s_pc' = "sleep"
  /\ s_home' = TRUE
  /\ written' = NoStatus
  /\ known' = {}
  /\ UNCHANGED <<stops, mainVars, memory, head, s_i, lines, qfile, began, room>>

-----------------------------------------------------------------------------
(* The end of the process, and the start of the next one, which changes    *)
(* nothing in the files.                                                   *)

StartWith(r, q, st) ==
  /\ front' = 0 /\ rear' = r /\ queue' = q /\ status' = st
  /\ m_pc' = "accept" /\ taken' = NoItem
  /\ s_pc' = "sleep" /\ s_home' = TRUE /\ head' = NoHead /\ s_i' = 0
  /\ lines' = <<>> /\ written' = NoStatus /\ known' = {}
  /\ began' = {} /\ room' = 0
  /\ UNCHANGED clock

(* Mutant: the files are loaded.                                           *)
Start_Loads ==
  LET q == loadQueueFromFile(qfile')
  IN  StartWith(Len(q), [s \in Slot |-> IF s \in DOMAIN q THEN q[s] ELSE NoItem], mfile')

(* main calls neither loadQueueFromFile nor loadMapFromFile.               *)
Start == StartWith(0, [s \in Slot |-> NoItem], NoStatus)

Stop ==
  /\ stops < MaxStops
  /\ stops' = stops + 1
  /\ pair' = IF pair \in {"both", "old"} THEN "old" ELSE "none"

(* It is killed: what is in the buffers is lost.                           *)
Killed ==
  /\ Stop
  /\ UNCHANGED disk
  /\ Start

(* The upload's connection is reset: main returns, and exit flushes the    *)
(* buffer of the file that is open.                                        *)
MainReturns ==
  /\ m_pc = "upload"
  /\ Stop
  /\ qfile' = IF s_home /\ s_pc \in {"loop", "test", "line", "close"} THEN Buffered ELSE qfile
  /\ mfile' = IF s_home /\ s_pc = "map" THEN written ELSE mfile
  /\ Start

SaverStep ==
  \/ OpenQueueFile \/ ReadHead \/ EnterLoop \/ TestLoop \/ WriteLine \/ CloseQueueFile
  \/ QueueFileFails \/ OpenMapFile \/ (\E x \in Items : WriteMapLine(x)) \/ CloseMapFile
  \/ MapFileFails

SnapNext ==
  \/ UploadStart \/ UploadEnd \/ AdvanceRear \/ WriteSlot \/ MapInsert
  \/ Take \/ MarkTaken
  \/ SaverStep
  \/ Killed \/ MainReturns

SnapSpec == SnapInit /\ [][SnapNext]_snapVars

(* The saver's thread runs, and sleeps a second at a time; fopen does not  *)
(* fail for ever.                                                          *)
FairSpec == SnapSpec /\ WF_snapVars(SaverStep) /\ SF_snapVars(OpenQueueFile)

-----------------------------------------------------------------------------
SnapTypeOK ==
  /\ RingTypeOK
  /\ stops \in 0 .. MaxStops
  /\ clock \in 0 .. Cardinality(Items)
  /\ m_pc \in {"accept", "upload", "master", "slot", "map"}
  /\ taken \in Items \cup {NoItem}
  /\ status \in [Items -> NotFound .. 1]
  /\ s_pc \in {"sleep", "header", "loop", "test", "line", "close", "open", "map"}
  /\ s_home \in BOOLEAN
  /\ head \in [front : Slot \cup {Unread}, rear : Slot \cup {Unread}]
  /\ s_i \in Slot
  /\ lines \in Seq(Items \cup {NoItem})
  /\ written \in [Items -> NotFound .. 1] /\ mfile \in [Items -> NotFound .. 1]
  /\ known \subseteq Items /\ began \subseteq Items
  /\ qfile.head \in [front : Slot \cup {Unread}, rear : Slot \cup {Unread}]
  /\ qfile.lines \in Seq(Items \cup {NoItem})
  /\ room \in Int
  /\ pair \in {"none", "queue", "both", "old"}

(* Whatever is queued and taken while a save of the queue runs, unless     *)
(* more is queued than there were free slots: each ticket that waits all   *)
(* the time is in the file such that the loader would find it, except the  *)
(* newest of them.                                                         *)
AllButNewest(S) == {x \in S : \E y \in S : x < y}

SaveKeepsWaiting ==
  s_pc = "close" /\ room >= 0 => AllButNewest(began) \cap Queued \subseteq Restored(Buffered)

(* The newest is lost even if nothing happens meanwhile: saver and loader  *)
(* go from front to the slot before rear, the ring from the slot after     *)
(* front to rear.  The loader would queue a zero in its place.             *)
QuietSaveLosesNewest ==
  s_pc = "close" /\ m_pc # "slot" /\ began = Queued /\ Length > 0 /\ room = QUEUE_SIZE - 1 - Length
    => loadQueueFromFile(Buffered) = [k \in 1 .. Length |->
                                        IF k < Length THEN Contents[k] ELSE NoItem]

(* A saved queue therefore has the waiting tickets but the newest, and     *)
(* never that one.                                                         *)
SaveKeepsAllButNewest == SaveKeepsWaiting /\ QuietSaveLosesNewest

(* The two files of one process fit together: a ticket that the loaders    *)
(* would queue again has an entry in the map, though the map is written    *)
(* later, main enters a ticket in the map after the queue, and nobody      *)
(* locks.                                                                  *)
RestoredIsKnown ==
  pair \in {"both", "old"} => Restored(qfile) \subseteq loadMapFromFile(mfile)

(* A ticket that clients are told is queued will be taken: also after a    *)
(* restart none has status 0 that is not in the queue.                     *)
WaitingIsQueued ==
  \A x \in Items : status[x] = 0 => x \in Queued \cup {taken}

(* A ticket that waits with others behind it gets into the file, if in the *)
(* end the process neither stops nor stays in an upload.                   *)
EventuallySaved ==
  <>[]AtHome =>
    \A x \in Items : x \in AllButNewest(Queued) ~> x \notin Queued \/ x \in Restored(qfile)
=============================================================================
