------------------------------- MODULE HashMap -------------------------------
(***************************************************************************)
(* hashmap.c as the version 4 server uses it: one array of chains, walked  *)
(* by several threads pointer by pointer while main puts new pairs at the  *)
(* heads of chains.  Pairs are never unlinked, and a ticket is inserted    *)
(* once, so that a pair is identified with its key.                        *)
(*                                                                         *)
(* know_status needs no action: main is the only thread that inserts, so   *)
(* that its own walks see a map at rest (Lookup).                          *)
(*                                                                         *)
(* queue_lock separates insert and the update to 1 (both are called under  *)
(* it) but neither from the update to 2 at the end of grader nor from  *)
(* saveMapToFile, which walks every chain.                                 *)
(***************************************************************************)
EXTENDS Integers, FiniteSets, Sequences

CONSTANTS
  SIZE,      \* the number of chains
  Keys,      \* tickets
  Workers,
  Nobody     \* the owner of the free lock

ASSUME MapAssumption == /\ SIZE \in Nat \ {0}
                        /\ Keys \subseteq Nat /\ IsFiniteSet(Keys)
                        /\ Nobody \notin Workers \cup {"main"} /\ "main" \notin Workers

NULL == -1          \* the null pointer
Missing == -1       \* what know_status returns for an unknown key
Bucket == 0 .. SIZE - 1
Pointer == Keys \cup {NULL}

VARIABLES
  array,   \* the head of each chain
  next,    \* the next field of each pair
  value,   \* the status field of each pair
  lock,    \* the owner of queue_lock
  new,     \* the pair insert is about to link, NULL outside insert
  linked,  \* whether its next field has been set
  job,     \* what each worker is updating: key and status, NULL if nothing
  at,      \* the local variable current of each worker
  sbucket, \* the chain saveMapToFile is in, SIZE when it is not running
  sat,     \* its local variable current
  file,    \* the keys of the lines it wrote (the statuses are left out)
  inserted, \* history: the keys whose insert has returned
  due      \* history: those of them when saveMapToFile started

insertVars == <<new, linked>>
saveVars == <<sbucket, sat, file, due>>
vars == <<array, next, value, lock, insertVars, job, at, saveVars, inserted>>

hash(k) == k % SIZE

Idle == [key |-> NULL, status |-> NULL]

(* The pairs a walk from p passes when f is the next field: those in every *)
(* set of pointers that holds p and what the pairs in it point at.         *)
Reach(f, p) ==
  {q \in Keys : \A S \in SUBSET Pointer :
                  p \in S /\ (\A r \in S \ {NULL} : f[r] \in S) => q \in S}

From(p) == Reach(next, p)

InMap == {k \in Keys : k \in From(array[hash(k)])}

Init ==
  /\ array = [b \in Bucket |-> NULL]
  /\ next = [k \in Keys |-> NULL]
  /\ value = [k \in Keys |-> 0]
  /\ lock = Nobody
  /\ new = NULL /\ linked = FALSE
  /\ job = [w \in Workers |-> Idle]
  /\ at = [w \in Workers |-> NULL]
  /\ sbucket = SIZE /\ sat = NULL /\ file = <<>> /\ due = {} /\ inserted = {}

-----------------------------------------------------------------------------
(* insert, called by main inside masterfunction.                           *)

InsertCreate(k) ==
  /\ lock = Nobody
  /\ k \notin inserted
  /\ lock' = "main"
  /\ new' = k
  /\ linked' = FALSE
  /\ value' = [value EXCEPT ![k] = 0]
  /\ next' = [next EXCEPT ![k] = NULL]
  /\ UNCHANGED <<array, job, at, saveVars, inserted>>

(* The new pair points at the old head, if there is one ...                *)
InsertLink ==
  /\ new # NULL /\ ~linked
  /\ next' = [next EXCEPT ![new] = array[hash(new)]]
  /\ linked' = TRUE
  /\ UNCHANGED <<array, value, lock, new, job, at, saveVars, inserted>>

(* Mutant: the head is replaced before the new pair points at the old one. *)
InsertPublish_First ==
  /\ new # NULL
  /\ array' = [array EXCEPT ![hash(new)] = new]
  /\ IF linked THEN /\ new' = NULL /\ linked' = FALSE /\ lock' = Nobody
                 /\ inserted' = inserted \cup {new}
               ELSE UNCHANGED <<new, linked, lock, inserted>>
  /\ UNCHANGED <<next, value, job, at, saveVars>>

(* Mutant: masterfunction does not unlock.                                 *)
InsertPublish_KeepsLock ==
  /\ new # NULL /\ linked
  /\ array' = [array EXCEPT ![hash(new)] = new]
  /\ new' = NULL
  /\ linked' = FALSE
  /\ inserted' = inserted \cup {new}
  /\ UNCHANGED <<next, value, lock, job, at, saveVars>>

(* ... and becomes the head.                                               *)
InsertPublish ==
  /\ new # NULL /\ linked
  /\ array' = [array EXCEPT ![hash(new)] = new]
  /\ new' = NULL
  /\ linked' = FALSE
  /\ lock' = Nobody
  /\ inserted' = inserted \cup {new}
  /\ UNCHANGED <<next, value, job, at, saveVars>>

-----------------------------------------------------------------------------
(* update_status, called by worker w for the ticket it took: status 1 with *)
(* the lock held, status 2 without.                                        *)
UpdateStart(w, k) ==
  /\ job[w] = Idle
  /\ value[k] < 2
  /\ k \in inserted
  /\ \A v \in Workers : job[v].key # k
  /\ value[k] = 0 => lock = Nobody
  /\ lock' = IF value[k] = 0 THEN w ELSE lock
  /\ job' = [job EXCEPT ![w] = [key |-> k, status |-> value[k] + 1]]
  /\ at' = [at EXCEPT ![w] = array[hash(k)]]
  /\ UNCHANGED <<array, next, value, insertVars, saveVars, inserted>>

UpdateReturns(w) ==
  /\ job' = [job EXCEPT ![w] = Idle]
  /\ at' = [at EXCEPT ![w] = NULL]
  /\ lock' = IF lock = w THEN Nobody ELSE lock

(* Mutant: the loop looks at the successors only.                          *)
UpdateWalk_SkipsHead(w) ==
  /\ job[w] # Idle
  /\ at[w] # NULL
  /\ IF next[at[w]] \in {NULL, job[w].key}
     THEN /\ value' = IF next[at[w]] = NULL THEN value
                      ELSE [value EXCEPT ![next[at[w]]] = job[w].status]
          /\ UpdateReturns(w)
     ELSE /\ at' = [at EXCEPT ![w] = next[at[w]]]
          /\ UNCHANGED <<value, job, lock>>
  /\ UNCHANGED <<array, next, insertVars, saveVars, inserted>>

(* One turn of the loop: a hit writes the status, the end of the chain     *)
(* returns 1, which no caller looks at.                                    *)
UpdateWalk(w) ==
  /\ job[w] # Idle
  /\ IF at[w] \in {NULL, job[w].key}
     THEN /\ value' = IF at[w] = NULL THEN value
                      ELSE [value EXCEPT ![at[w]] = job[w].status]
          /\ UpdateReturns(w)
     ELSE /\ at' = [at EXCEPT ![w] = next[at[w]]]
          /\ UNCHANGED <<value, job, lock>>
  /\ UNCHANGED <<array, next, insertVars, saveVars, inserted>>

-----------------------------------------------------------------------------
(* saveMapToFile, called by periodicSave once a second.                    *)
SaveStart ==
  /\ sbucket = SIZE
  /\ sbucket' = 0
  /\ sat' = array[0]
  /\ file' = <<>>
  /\ due' = inserted
  /\ UNCHANGED <<array, next, value, lock, insertVars, job, at, inserted>>

SaveLine ==
  /\ sbucket < SIZE
  /\ sat # NULL
  /\ file' = Append(file, sat)
  /\ sat' = next[sat]
  /\ UNCHANGED <<array, next, value, lock, insertVars, job, at, sbucket, due, inserted>>

(* Mutant: the chain is read before i is incremented.                      *)
SaveBucket_OldChain ==
  /\ sbucket < SIZE
  /\ sat = NULL
  /\ sbucket' = sbucket + 1
  /\ sat' = IF sbucket + 1 < SIZE THEN array[sbucket] ELSE NULL
  /\ UNCHANGED <<array, next, value, lock, insertVars, job, at, file, due, inserted>>

SaveBucket ==
  /\ sbucket < SIZE
  /\ sat = NULL
  /\ sbucket' = sbucket + 1
  /\ sat' = IF sbucket + 1 < SIZE THEN array[sbucket + 1] ELSE NULL
  /\ UNCHANGED <<array, next, value, lock, insertVars, job, at, file, due, inserted>>

Next ==
  \/ \E k \in Keys : InsertCreate(k)
  \/ InsertLink \/ InsertPublish
  \/ \E w \in Workers :
       UpdateWalk(w) \/ \E k \in Keys : UpdateStart(w, k)
  \/ SaveStart \/ SaveLine \/ SaveBucket

Spec == Init /\ [][Next]_vars

-----------------------------------------------------------------------------
TypeOK ==
  /\ array \in [Bucket -> Pointer]
  /\ next \in [Keys -> Pointer]
  /\ value \in [Keys -> 0 .. 2]
  /\ lock \in Workers \cup {Nobody, "main"}
  /\ new \in Pointer /\ linked \in BOOLEAN
  /\ (lock = "main") <=> (new # NULL)
  /\ job \in [Workers -> [key : Pointer, status : {NULL, 1, 2}]]
  /\ at \in [Workers -> Pointer]
  /\ sbucket \in 0 .. SIZE /\ sat \in Pointer
  /\ file \in Seq(Keys)
  /\ due \subseteq inserted /\ inserted \subseteq Keys

(* What know_status answers: the map the chains stand for.                 *)
Lookup ==
  LET present == InMap
  IN  [k \in Keys |-> IF k \in present THEN value[k] ELSE Missing]

Abstract == INSTANCE StatusMap WITH map <- Lookup, Statuses <- 0 .. 2

(* Each ticket enters the map at once and changes at once, and no other    *)
(* entry is lost when a chain gets a new head.                             *)
ImplementsMap == Abstract!Spec

(* A worker that updates a ticket has it ahead of it in its chain, however *)
(* many pairs main links meanwhile: the update cannot miss.                *)
UpdateWillHit == \A w \in Workers : job[w] # Idle => job[w].key \in From(at[w])

(* The saver has written, or has before it, every ticket that was in the   *)
(* map when it started; so a finished file misses none of them.            *)
SaveMissesNone ==
  \A k \in due :
      \/ \E n \in 1 .. Len(file) : file[n] = k
      \/ hash(k) = sbucket /\ k \in From(sat)
      \/ hash(k) > sbucket

(* ... and writes each ticket once.                                        *)
SaveNoDuplicate ==
  \A m, n \in 1 .. Len(file) : file[m] = file[n] => m = n

(* So a saved map has every ticket that was in it exactly once, though no  *)
(* lock keeps main from linking pairs into the chain that is walked.       *)
SaveExact == SaveMissesNone /\ SaveNoDuplicate
=============================================================================
