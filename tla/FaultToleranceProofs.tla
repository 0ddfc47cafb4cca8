------------------------ MODULE FaultToleranceProofs ------------------------
(***************************************************************************)
(* Proofs about the fault tolerance of version 4.  Part 1: hashmap.c, for  *)
(* any number of chains, tickets and workers, and what a walk without a    *)
(* lock, the saver's among them, sees of chains that grow at their heads.  *)
(* Part 2: fault_tolerance.c, for every size of the ring, any number of    *)
(* tickets and of ends of the process, and what the two files have that    *)
(* the saver writes without a lock.                                        *)
(***************************************************************************)
EXTENDS HashMap, Snapshot, RingQueueProofs, FiniteSetTheorems

(***************************************************************************)
(* Part 1: the map.                                                        *)
(***************************************************************************)

(* A linked pair is in the chain its key hashes to, and so is the pair it  *)
(* points at.                                                              *)
Shape ==
  /\ \A b \in Bucket : array[b] # NULL => array[b] \in inserted /\ hash(array[b]) = b
  /\ \A k \in inserted : next[k] # NULL => next[k] \in inserted /\ hash(next[k]) = hash(k)

(* No chain comes back to a pair it has passed.                            *)
Linear == \A k \in inserted : k \notin From(next[k])

(* A walk from the head passes every pair of the chain.                    *)
AllFound == \A k \in inserted : k \in From(array[hash(k)])

(* Nothing points at the pair insert is working on.                        *)
NewApart ==
  new # NULL => /\ new \notin inserted
                /\ next[new] = IF linked THEN array[hash(new)] ELSE NULL

(* A worker that walks a chain is in it.                                   *)
Walks ==
  \A w \in Workers :
    job[w] # Idle => /\ job[w].key \in inserted
                     /\ job[w].status \in {1, 2}
                     /\ at[w] \in inserted

(* The saver is in its chain, and what it wrote is behind it.              *)
SaveBehind ==
  /\ sat # NULL => sat \in inserted /\ sbucket < SIZE /\ hash(sat) = sbucket
  /\ \A n \in 1 .. Len(file) : hash(file[n]) <= sbucket /\ file[n] \notin From(sat)

(* The inductive invariant.                                                *)
HInv == /\ TypeOK
        /\ Shape /\ Linear /\ AllFound
        /\ NewApart
        /\ Walks /\ UpdateWillHit
        /\ SaveBehind /\ SaveExact

-----------------------------------------------------------------------------
(* The operators.                                                          *)

LEMMA HashInBucket == \A k \in Keys : hash(k) \in Bucket
<1> SUFFICES ASSUME NEW k \in Keys PROVE hash(k) \in Bucket
  OBVIOUS
<1> k \in Nat /\ SIZE \in Nat /\ SIZE > 0
  BY MapAssumption
<1> QED
  BY DEF hash, Bucket

LEMMA KeyNotNull == NULL \notin Keys
BY MapAssumption DEF NULL

(* A walk from a pair passes it and then what a walk from its successor    *)
(* passes.                                                                 *)
LEMMA ReachStep ==
  ASSUME NEW f \in [Keys -> Pointer], NEW p \in Keys
  PROVE  Reach(f, p) = {p} \cup Reach(f, f[p])
<1> USE KeyNotNull
<1> p \in Pointer /\ f[p] \in Pointer
  BY DEF Pointer
<1>1. ASSUME NEW q \in {p} \cup Reach(f, f[p])
      PROVE  q \in Reach(f, p)
  <2> q \in Keys
    BY <1>1 DEF Reach
  <2> SUFFICES ASSUME NEW S \in SUBSET Pointer, p \in S,
                      \A r \in S \ {NULL} : f[r] \in S
               PROVE  q \in S
    BY DEF Reach
  <2> f[p] \in S
    OBVIOUS
  <2> QED
    BY <1>1 DEF Reach
<1>2. ASSUME NEW q \in Reach(f, p), q # p
      PROVE  q \in Reach(f, f[p])
  <2> q \in Keys
    BY <1>2 DEF Reach
  <2> SUFFICES ASSUME NEW S \in SUBSET Pointer, f[p] \in S,
                      \A r \in S \ {NULL} : f[r] \in S
               PROVE  q \in S
    BY DEF Reach
  <2> DEFINE T == S \cup {p}
  <2>1. T \in SUBSET Pointer /\ p \in T /\ \A r \in T \ {NULL} : f[r] \in T
    OBVIOUS
  <2>2. q \in T
    <3> HIDE DEF T
    <3> QED
      BY <1>2, <2>1 DEF Reach
  <2> QED
    BY <2>2, <1>2
<1> QED
  BY <1>1, <1>2

LEMMA ReachNull ==
  ASSUME NEW f \in [Keys -> Pointer]
  PROVE  Reach(f, NULL) = {}
<1> {NULL} \in SUBSET Pointer
  BY DEF Pointer
<1> \A r \in {NULL} \ {NULL} : f[r] \in {NULL}
  OBVIOUS
<1> \A q \in Reach(f, NULL) : q \in Keys /\ q \in {NULL}
  BY DEF Reach
<1> QED
  BY KeyNotNull

(* A walk stays in a set that is closed under f.                           *)
LEMMA ReachInside ==
  ASSUME NEW f \in [Keys -> Pointer], NEW C \in SUBSET Keys, NEW p \in C \cup {NULL},
         \A r \in C : f[r] \in C \cup {NULL}
  PROVE  Reach(f, p) \subseteq C
<1> DEFINE D == C \cup {NULL}
<1>1. D \in SUBSET Pointer /\ p \in D /\ \A r \in D \ {NULL} : f[r] \in D
  BY DEF Pointer
<1>2. ASSUME NEW q \in Reach(f, p) PROVE q \in Keys /\ q \in D
  <2> HIDE DEF D
  <2> QED
    BY <1>1, <1>2 DEF Reach
<1> QED
  BY <1>2, KeyNotNull

(* ... and is not disturbed by what happens outside of it.                 *)
LEMMA ReachSub ==
  ASSUME NEW f \in [Keys -> Pointer], NEW g \in [Keys -> Pointer],
         NEW C \in SUBSET Keys, NEW p \in C \cup {NULL},
         \A r \in C : f[r] \in C \cup {NULL},
         \A r \in C : g[r] = f[r]
  PROVE  Reach(f, p) \subseteq Reach(g, p)
<1> SUFFICES ASSUME NEW q \in Reach(f, p) PROVE q \in Reach(g, p)
  OBVIOUS
<1> q \in Keys
  BY DEF Reach
<1> SUFFICES ASSUME NEW S \in SUBSET Pointer, p \in S,
                    \A r \in S \ {NULL} : g[r] \in S
             PROVE  q \in S
  BY DEF Reach
<1> DEFINE T == S \cap (C \cup {NULL})
<1>1. T \in SUBSET Pointer /\ p \in T /\ \A r \in T \ {NULL} : f[r] \in T
  OBVIOUS
<1>2. q \in T
  <2> HIDE DEF T
  <2> QED
    BY <1>1 DEF Reach
<1> QED
  BY <1>2

LEMMA ReachFrame ==
  ASSUME NEW f \in [Keys -> Pointer], NEW g \in [Keys -> Pointer],
         NEW C \in SUBSET Keys, NEW p \in C \cup {NULL},
         \A r \in C : f[r] \in C \cup {NULL},
         \A r \in C : g[r] = f[r]
  PROVE  Reach(g, p) = Reach(f, p)
<1>1. Reach(f, p) \subseteq Reach(g, p)
  BY ReachSub
<1>2. Reach(g, p) \subseteq Reach(f, p)
  <2> \A r \in C : g[r] \in C \cup {NULL}
    OBVIOUS
  <2> \A r \in C : f[r] = g[r]
    OBVIOUS
  <2> QED
    BY ReachSub
<1> QED
  BY <1>1, <1>2

(* The pairs of one chain, and what a walk in it passes.                   *)
LEMMA WalkInChain ==
  ASSUME TypeOK, Shape, NEW p \in inserted
  PROVE  /\ From(p) \subseteq {k \in inserted : hash(k) = hash(p)}
         /\ From(p) = {p} \cup From(next[p])
         /\ p \in Keys /\ next[p] \in Pointer
<1> p \in Keys /\ next \in [Keys -> Pointer] /\ inserted \subseteq Keys
  BY DEF TypeOK
<1> DEFINE C == {k \in inserted : hash(k) = hash(p)}
<1>1. C \in SUBSET Keys /\ p \in C \cup {NULL} /\ \A r \in C : next[r] \in C \cup {NULL}
  BY DEF Shape
<1>2. From(p) \subseteq C
  <2> HIDE DEF C
  <2> QED
    BY <1>1, ReachInside DEF From
<1>3. From(p) = {p} \cup From(next[p])
  BY ReachStep DEF From
<1> QED
  BY <1>2, <1>3

(* A step that leaves the linked pairs alone leaves every walk as it was.  *)
LEMMA WalkUndisturbed ==
  ASSUME TypeOK, Shape, next' \in [Keys -> Pointer],
         \A k \in inserted : next'[k] = next[k],
         NEW p \in inserted \cup {NULL}
  PROVE  Reach(next', p) = From(p)
<1> next \in [Keys -> Pointer] /\ inserted \in SUBSET Keys
  BY DEF TypeOK
<1> \A r \in inserted : next[r] \in inserted \cup {NULL}
  BY DEF Shape
<1> QED
  BY ReachFrame DEF From

(* What know_status finds: the tickets whose insert has returned.          *)
LEMMA InMapIs ==
  ASSUME TypeOK, Shape, AllFound
  PROVE  InMap = inserted
<1> inserted \subseteq Keys /\ array \in [Bucket -> Pointer] /\ next \in [Keys -> Pointer]
  BY DEF TypeOK
<1>1. inserted \subseteq InMap
  BY DEF AllFound, InMap
<1>2. ASSUME NEW k \in InMap PROVE k \in inserted
  <2> DEFINE h == array[hash(k)]
  <2> k \in Keys /\ k \in From(h) /\ hash(k) \in Bucket
    BY HashInBucket DEF InMap
  <2> h # NULL
    BY ReachNull DEF From
  <2> h \in inserted
    BY DEF Shape
  <2> QED
    BY WalkInChain
<1> QED
  BY <1>1, <1>2

-----------------------------------------------------------------------------
(* Initially.                                                              *)

LEMMA HInvInit == Init => HInv
<1> SUFFICES ASSUME Init PROVE HInv
  OBVIOUS
<1> USE DEF Init
<1> SIZE \in Nat \ {0} /\ Nobody # "main"
  BY MapAssumption
<1>1. TypeOK
  <2> Idle \in [key : Pointer, status : {NULL, 1, 2}]
    BY DEF Idle, Pointer
  <2> job \in [Workers -> [key : Pointer, status : {NULL, 1, 2}]]
    <3> HIDE DEF Idle
    <3> QED
      OBVIOUS
  <2> array \in [Bucket -> Pointer] /\ next \in [Keys -> Pointer] /\ at \in [Workers -> Pointer]
    BY DEF Pointer
  <2> value \in [Keys -> 0 .. 2] /\ file \in Seq(Keys)
    OBVIOUS
  <2> lock \in Workers \cup {Nobody, "main"} /\ ((lock = "main") <=> (new # NULL))
    OBVIOUS
  <2> sbucket \in 0 .. SIZE /\ due \subseteq inserted /\ inserted \subseteq Keys
    OBVIOUS
  <2> new \in Pointer /\ linked \in BOOLEAN /\ sat \in Pointer
    BY DEF Pointer
  <2> QED
    BY DEF TypeOK
<1>2. Shape /\ Linear /\ AllFound
  BY DEF Shape, Linear, AllFound
<1>3. NewApart
  BY DEF NewApart
<1>4. Walks /\ UpdateWillHit
  BY DEF Walks, UpdateWillHit
<1>5. SaveBehind
  BY DEF SaveBehind
<1>6. SaveExact
  BY DEF SaveExact, SaveMissesNone, SaveNoDuplicate
<1> QED
  BY <1>1, <1>2, <1>3, <1>4, <1>5, <1>6 DEF HInv

-----------------------------------------------------------------------------
(* insert.                                                                 *)

(* What the walks under way rest on, while insert writes the next field of *)
(* the pair it has not linked yet.                                         *)
LEMMA UnlinkedStep ==
  ASSUME HInv, TypeOK', \A k \in inserted : next'[k] = next[k],
         UNCHANGED <<array, job, at, saveVars, inserted>>
  PROVE  (Shape /\ Linear /\ AllFound /\ Walks /\ UpdateWillHit /\ SaveBehind /\ SaveExact)'
<1> TypeOK /\ Shape /\ Linear /\ AllFound /\ Walks /\ UpdateWillHit /\ SaveBehind /\ SaveExact
  BY DEF HInv
<1> next' \in [Keys -> Pointer] /\ next \in [Keys -> Pointer] /\ inserted \subseteq Keys
  BY DEF TypeOK
<1>1. \A p \in inserted \cup {NULL} : Reach(next', p) = From(p)
  BY WalkUndisturbed
<1>2. Shape'
  BY DEF Shape
<1>3. Linear'
  <2> SUFFICES ASSUME NEW k \in inserted PROVE k \notin Reach(next', next'[k])
    BY DEF Linear, From
  <2> next'[k] = next[k] /\ next[k] \in inserted \cup {NULL}
    BY DEF Shape
  <2> QED
    BY <1>1 DEF Linear
<1>4. AllFound'
  <2> SUFFICES ASSUME NEW k \in inserted PROVE k \in Reach(next', array[hash(k)])
    BY DEF AllFound, From, hash
  <2> array[hash(k)] \in inserted \cup {NULL}
    BY HashInBucket DEF Shape
  <2> QED
    BY <1>1 DEF AllFound
<1>5. Walks'
  BY DEF Walks
<1>6. UpdateWillHit'
  <2> SUFFICES ASSUME NEW w \in Workers, job[w] # Idle
               PROVE  job[w].key \in Reach(next', at[w])
    BY DEF UpdateWillHit, From
  <2> QED
    BY <1>1 DEF UpdateWillHit, Walks
<1>7. SaveBehind'
  <2> sat \in inserted \cup {NULL}
    BY DEF SaveBehind
  <2> Reach(next', sat) = From(sat)
    BY <1>1
  <2> QED
    BY DEF SaveBehind, From, hash, saveVars
<1>8. SaveExact'
  <2> sat \in inserted \cup {NULL}
    BY DEF SaveBehind
  <2> Reach(next', sat) = From(sat)
    BY <1>1
  <2> QED
    BY DEF SaveExact, SaveMissesNone, SaveNoDuplicate, From, hash, saveVars
<1> QED
  BY <1>2, <1>3, <1>4, <1>5, <1>6, <1>7, <1>8

LEMMA InsertCreateStep == ASSUME HInv, NEW k \in Keys, InsertCreate(k) PROVE HInv'
<1> USE DEF InsertCreate
<1> TypeOK
  BY DEF HInv
<1> k # NULL /\ Nobody # "main"
  BY KeyNotNull, MapAssumption
<1>1. TypeOK'
  <2> next' \in [Keys -> Pointer]
    BY DEF TypeOK, Pointer
  <2> value' \in [Keys -> 0 .. 2]
    BY DEF TypeOK
  <2> QED
    BY DEF TypeOK, Pointer, saveVars
<1>2. \A j \in inserted : next'[j] = next[j]
  BY DEF TypeOK
<1>3. NewApart'
  BY DEF NewApart, TypeOK
<1> QED
  BY <1>1, <1>2, <1>3, UnlinkedStep DEF HInv

LEMMA InsertLinkStep == ASSUME HInv, InsertLink PROVE HInv'
<1> USE DEF InsertLink
<1> TypeOK /\ Shape /\ NewApart
  BY DEF HInv
<1> new \in Keys /\ new \notin inserted
  BY DEF TypeOK, Pointer, NewApart
<1> hash(new) \in Bucket
  BY HashInBucket
<1>1. TypeOK'
  <2> array[hash(new)] \in Pointer
    BY DEF TypeOK
  <2> next' \in [Keys -> Pointer]
    BY DEF TypeOK
  <2> QED
    BY DEF TypeOK, saveVars
<1>2. \A j \in inserted : next'[j] = next[j]
  BY DEF TypeOK
<1>3. NewApart'
  BY DEF NewApart, TypeOK, hash
<1> QED
  BY <1>1, <1>2, <1>3, UnlinkedStep DEF HInv

(* A new head leaves the walks under way alone: none of them reads a head. *)
LEMMA InsertPublishStep == ASSUME HInv, InsertPublish PROVE HInv'
<1> USE DEF InsertPublish
<1> TypeOK /\ Shape /\ Linear /\ AllFound /\ NewApart /\ Walks /\ UpdateWillHit
    /\ SaveBehind /\ SaveExact
  BY DEF HInv
<1> inserted \subseteq Keys /\ next \in [Keys -> Pointer] /\ array \in [Bucket -> Pointer]
  BY DEF TypeOK
<1> new \in Keys /\ new \notin inserted /\ next[new] = array[hash(new)]
  BY DEF TypeOK, Pointer, NewApart
<1> hash(new) \in Bucket /\ Nobody # "main" /\ new # NULL
  BY HashInBucket, MapAssumption
<1> DEFINE h == next[new]
<1>1. TypeOK'
  <2> array' \in [Bucket -> Pointer]
    BY DEF Pointer
  <2> QED
    BY DEF TypeOK, Pointer, saveVars
<1>2. Shape'
  <2>1. ASSUME NEW b \in Bucket, array'[b] # NULL
        PROVE  array'[b] \in inserted' /\ hash(array'[b]) = b
    BY <2>1 DEF Shape
  <2>2. ASSUME NEW k \in inserted', next[k] # NULL
        PROVE  next[k] \in inserted' /\ hash(next[k]) = hash(k)
    BY <2>2 DEF Shape
  <2> QED
    BY <2>1, <2>2 DEF Shape, hash
<1>3. h \in inserted \cup {NULL} /\ From(h) \subseteq inserted
  <2> h \in inserted \cup {NULL}
    BY DEF Shape
  <2> QED
    BY WalkInChain, ReachNull DEF From
<1>4. From(new) = {new} \cup From(h)
  BY ReachStep DEF From
<1>5. Linear'
  <2> SUFFICES ASSUME NEW k \in inserted' PROVE k \notin From(next[k])
    BY DEF Linear, From
  <2> QED
    BY <1>3 DEF Linear
<1>6. AllFound'
  <2> SUFFICES ASSUME NEW k \in inserted' PROVE k \in From(array'[hash(k)])
    BY DEF AllFound, From, hash
  <2> hash(k) \in Bucket
    BY HashInBucket
  <2>1. CASE hash(k) = hash(new)
    <3> array'[hash(k)] = new
      BY <2>1
    <3> k = new \/ k \in From(h)
      BY <2>1 DEF AllFound
    <3> QED
      BY <1>4
  <2>2. CASE hash(k) # hash(new)
    BY <2>2 DEF AllFound
  <2> QED
    BY <2>1, <2>2
<1>7. NewApart'
  BY DEF NewApart
<1>8. Walks' /\ UpdateWillHit'
  BY DEF Walks, UpdateWillHit, From
<1>9. SaveBehind'
  BY DEF SaveBehind, From, hash, saveVars
<1>10. SaveExact'
  BY DEF SaveExact, SaveMissesNone, SaveNoDuplicate, From, hash, saveVars
<1> QED
  BY <1>1, <1>2, <1>5, <1>6, <1>7, <1>8, <1>9, <1>10 DEF HInv

-----------------------------------------------------------------------------
(* update_status.                                                          *)

(* What does not depend on the workers' walks.                             *)
LEMMA UpdateStep ==
  ASSUME HInv, UNCHANGED <<array, next, insertVars, saveVars, inserted>>
  PROVE  (Shape /\ Linear /\ AllFound /\ NewApart /\ SaveBehind /\ SaveExact)'
<1> USE DEF HInv, insertVars, saveVars
<1>1. (Shape /\ Linear /\ AllFound)'
  BY DEF Shape, Linear, AllFound, From, hash
<1>2. NewApart'
  BY DEF NewApart, hash
<1>3. SaveBehind'
  BY DEF SaveBehind, From, hash
<1>4. SaveExact'
  BY DEF SaveExact, SaveMissesNone, SaveNoDuplicate, From, hash
<1> QED
  BY <1>1, <1>2, <1>3, <1>4

LEMMA UpdateStartStep ==
  ASSUME HInv, NEW w \in Workers, NEW k \in Keys, UpdateStart(w, k) PROVE HInv'
<1> USE DEF UpdateStart
<1> TypeOK /\ Shape /\ AllFound /\ Walks /\ UpdateWillHit
  BY DEF HInv
<1> w # "main" /\ Nobody # "main" /\ hash(k) \in Bucket
  BY MapAssumption, HashInBucket
<1> DEFINE h == array[hash(k)]
           j == [key |-> k, status |-> value[k] + 1]
<1>1. h \in inserted /\ k \in From(h)
  <2> k \in From(h)
    BY DEF AllFound
  <2> h # NULL
    BY ReachNull DEF From, TypeOK
  <2> QED
    BY DEF Shape
<1>2. value[k] + 1 \in {1, 2}
  <2> value[k] \in 0 .. 2
    BY DEF TypeOK
  <2> QED
    OBVIOUS
<1>3. job' = [job EXCEPT ![w] = j] /\ at' = [at EXCEPT ![w] = h]
  OBVIOUS
<1>4. TypeOK'
  <2> job' \in [Workers -> [key : Pointer, status : {NULL, 1, 2}]]
    <3> j \in [key : Pointer, status : {NULL, 1, 2}]
      BY <1>2 DEF Pointer
    <3> HIDE DEF j
    <3> QED
      BY <1>3 DEF TypeOK
  <2> at' \in [Workers -> Pointer]
    BY <1>1 DEF TypeOK, Pointer
  <2> lock' \in Workers \cup {Nobody, "main"} /\ ((lock' = "main") <=> (lock = "main"))
    BY DEF TypeOK
  <2> QED
    BY DEF TypeOK, saveVars, insertVars
<1>5. \A v \in Workers : /\ v = w => job'[v] = j /\ at'[v] = h
                         /\ v # w => job'[v] = job[v] /\ at'[v] = at[v]
  BY <1>3 DEF TypeOK
<1>6. Walks'
  <2> SUFFICES ASSUME NEW v \in Workers, job'[v] # Idle
               PROVE  /\ job'[v].key \in inserted
                      /\ job'[v].status \in {1, 2}
                      /\ at'[v] \in inserted
    BY DEF Walks
  <2> QED
    BY <1>1, <1>2, <1>5 DEF Walks
<1>7. UpdateWillHit'
  <2> SUFFICES ASSUME NEW v \in Workers, job'[v] # Idle
               PROVE  job'[v].key \in From(at'[v])
    BY DEF UpdateWillHit, From
  <2> QED
    BY <1>1, <1>5 DEF UpdateWillHit
<1> QED
  BY <1>4, <1>6, <1>7, UpdateStep DEF HInv

LEMMA UpdateWalkStep == ASSUME HInv, NEW w \in Workers, UpdateWalk(w) PROVE HInv'
<1> USE DEF UpdateWalk
<1> TypeOK /\ Shape /\ Walks /\ UpdateWillHit
  BY DEF HInv
<1> Nobody # "main" /\ w # "main" /\ next \in [Keys -> Pointer] /\ inserted \subseteq Keys
  BY MapAssumption DEF TypeOK
<1>1. at[w] \in inserted /\ job[w].key \in From(at[w]) /\ job[w].key \in inserted
      /\ job[w].status \in {1, 2} /\ at[w] # NULL
  BY KeyNotNull DEF Walks, UpdateWillHit
<1>2. CASE at[w] = job[w].key
  <2> /\ value' = [value EXCEPT ![at[w]] = job[w].status]
      /\ job' = [job EXCEPT ![w] = Idle]
      /\ at' = [at EXCEPT ![w] = NULL]
      /\ lock' = IF lock = w THEN Nobody ELSE lock
    BY <1>1, <1>2 DEF UpdateReturns
  <2>1. TypeOK'
    <3> value' \in [Keys -> 0 .. 2]
      BY <1>1 DEF TypeOK
    <3> job' \in [Workers -> [key : Pointer, status : {NULL, 1, 2}]]
      <4> Idle \in [key : Pointer, status : {NULL, 1, 2}]
        BY DEF Idle, Pointer
      <4> QED
        BY DEF TypeOK
    <3> at' \in [Workers -> Pointer]
      BY DEF TypeOK, Pointer
    <3> lock' \in Workers \cup {Nobody, "main"} /\ ((lock' = "main") <=> (lock = "main"))
      BY DEF TypeOK
    <3> QED
      BY DEF TypeOK, saveVars, insertVars
  <2>2. \A v \in Workers : /\ v = w => job'[v] = Idle
                           /\ v # w => job'[v] = job[v] /\ at'[v] = at[v]
    BY DEF TypeOK
  <2>3. Walks'
    BY <2>2 DEF Walks
  <2>4. UpdateWillHit'
    <3> \A v \in Workers : job'[v] # Idle => job'[v].key \in From(at'[v])
      BY <2>2 DEF UpdateWillHit
    <3> QED
      BY DEF UpdateWillHit, From
  <2> QED
    BY <2>1, <2>3, <2>4, UpdateStep DEF HInv
<1>3. CASE at[w] # job[w].key
  <2> DEFINE n == next[at[w]]
  <2> at' = [at EXCEPT ![w] = n] /\ UNCHANGED <<value, job, lock>>
    BY <1>1, <1>3
  <2>1. job[w].key \in From(n) /\ n \in inserted
    <3> job[w].key \in From(n)
      BY <1>1, <1>3, WalkInChain
    <3> n # NULL
      BY ReachNull DEF From
    <3> QED
      BY <1>1 DEF Shape
  <2>2. TypeOK'
    <3> at' \in [Workers -> Pointer]
      BY <2>1 DEF TypeOK, Pointer
    <3> QED
      BY DEF TypeOK, saveVars, insertVars
  <2>3. \A v \in Workers : /\ v = w => at'[v] = n
                           /\ v # w => at'[v] = at[v]
    BY DEF TypeOK
  <2>4. Walks'
    BY <2>1, <2>3 DEF Walks
  <2>5. UpdateWillHit'
    <3> \A v \in Workers : job[v] # Idle => job[v].key \in From(at'[v])
      BY <2>1, <2>3 DEF UpdateWillHit
    <3> QED
      BY DEF UpdateWillHit, From
  <2> QED
    BY <2>2, <2>4, <2>5, UpdateStep DEF HInv
<1> QED
  BY <1>2, <1>3

-----------------------------------------------------------------------------
(* saveMapToFile.                                                          *)

(* What does not depend on the saver's walk.                               *)
LEMMA SaveStep ==
  ASSUME HInv, UNCHANGED <<array, next, value, lock, insertVars, job, at, inserted>>
  PROVE  (Shape /\ Linear /\ AllFound /\ NewApart /\ Walks /\ UpdateWillHit)'
<1> USE DEF HInv, insertVars
<1>1. (Shape /\ Linear /\ AllFound)'
  BY DEF Shape, Linear, AllFound, From, hash
<1>2. NewApart'
  BY DEF NewApart, hash
<1>3. (Walks /\ UpdateWillHit)'
  BY DEF Walks, UpdateWillHit, From
<1> QED
  BY <1>1, <1>2, <1>3

LEMMA SaveStartStep == ASSUME HInv, SaveStart PROVE HInv'
<1> USE DEF SaveStart
<1> TypeOK /\ Shape /\ AllFound
  BY DEF HInv
<1> 0 \in Bucket /\ SIZE \in Nat \ {0} /\ Bucket \subseteq Int
  BY MapAssumption DEF Bucket
<1>1. TypeOK'
  <2> sbucket' \in 0 .. SIZE /\ sat' \in Pointer /\ file' \in Seq(Keys)
    BY DEF TypeOK
  <2> QED
    BY DEF TypeOK, insertVars
<1>2. SaveBehind'
  BY DEF SaveBehind, Shape, hash
<1>3. SaveMissesNone'
  <2> SUFFICES ASSUME NEW k \in inserted
               PROVE  (hash(k) = 0 /\ k \in From(array[0])) \/ hash(k) > 0
    BY DEF SaveMissesNone, From, hash
  <2> k \in From(array[hash(k)]) /\ hash(k) \in 0 .. SIZE - 1
    BY HashInBucket DEF AllFound, TypeOK, Bucket
  <2> QED
    OBVIOUS
<1>4. SaveNoDuplicate'
  BY DEF SaveNoDuplicate
<1> QED
  BY <1>1, <1>2, <1>3, <1>4, SaveStep DEF HInv, SaveExact

LEMMA SaveLineStep == ASSUME HInv, SaveLine PROVE HInv'
<1> USE DEF SaveLine
<1> TypeOK /\ Shape /\ Linear /\ SaveBehind /\ SaveMissesNone /\ SaveNoDuplicate
  BY DEF HInv, SaveExact
<1> DEFINE N == Len(file)
<1>1. sat \in inserted /\ sat \in Keys /\ hash(sat) = sbucket /\ sbucket < SIZE
      /\ sbucket \in Int /\ file \in Seq(Keys) /\ N \in Nat
  BY DEF SaveBehind, TypeOK
<1>2. From(sat) = {sat} \cup From(next[sat]) /\ sat \notin From(next[sat])
      /\ next[sat] \in Pointer
  BY <1>1, WalkInChain DEF Linear
<1>3. /\ file' \in Seq(Keys) /\ Len(file') = N + 1
      /\ \A n \in 1 .. N : file'[n] = file[n]
      /\ file'[N + 1] = sat
  BY <1>1
<1>4. TypeOK'
  BY <1>2, <1>3 DEF TypeOK, insertVars
<1>5. SaveBehind'
  <2>1. sat' # NULL => sat' \in inserted' /\ sbucket' < SIZE /\ hash(sat') = sbucket'
    BY <1>1 DEF Shape
  <2>2. ASSUME NEW n \in 1 .. N + 1
        PROVE  hash(file'[n]) <= sbucket /\ file'[n] \notin From(next[sat])
    <3>1. CASE n = N + 1
      BY <1>1, <1>2, <1>3, <3>1
    <3>2. CASE n \in 1 .. N
      BY <1>2, <1>3, <3>2 DEF SaveBehind
    <3> QED
      BY <3>1, <3>2, <1>1
  <2> QED
    BY <2>1, <2>2, <1>3 DEF SaveBehind, From, hash
<1>6. SaveMissesNone'
  <2> SUFFICES ASSUME NEW k \in due
               PROVE  \/ \E n \in 1 .. N + 1 : file'[n] = k
                      \/ hash(k) = sbucket /\ k \in From(next[sat])
                      \/ hash(k) > sbucket
    BY <1>3 DEF SaveMissesNone, From, hash
  <2>1. CASE \E n \in 1 .. N : file[n] = k
    <3> PICK n \in 1 .. N : file[n] = k
      BY <2>1
    <3> n \in 1 .. N + 1 /\ file'[n] = k
      BY <1>1, <1>3
    <3> QED
      OBVIOUS
  <2>2. CASE k = sat
    <3> N + 1 \in 1 .. N + 1
      BY <1>1
    <3> QED
      BY <1>3, <2>2
  <2> QED
    BY <1>2, <2>1, <2>2 DEF SaveMissesNone
<1>7. SaveNoDuplicate'
  <2> SUFFICES ASSUME NEW m \in 1 .. N + 1, NEW n \in 1 .. N + 1, file'[m] = file'[n]
               PROVE  m = n
    BY <1>3 DEF SaveNoDuplicate
  <2>1. \A i \in 1 .. N : file[i] # sat
    BY <1>2 DEF SaveBehind
  <2>2. /\ m \in 1 .. N \/ m = N + 1
        /\ n \in 1 .. N \/ n = N + 1
    BY <1>1
  <2> QED
    BY <2>1, <2>2, <1>3 DEF SaveNoDuplicate
<1> QED
  BY <1>4, <1>5, <1>6, <1>7, SaveStep DEF HInv, SaveExact

(* The saver is through with one chain, and has not read the next.         *)
LEMMA SaveBucketStep == ASSUME HInv, SaveBucket PROVE HInv'
<1> USE DEF SaveBucket
<1> TypeOK /\ Shape /\ AllFound /\ SaveBehind /\ SaveMissesNone /\ SaveNoDuplicate
  BY DEF HInv, SaveExact
<1> DEFINE b == sbucket + 1
<1>1. /\ SIZE \in Nat \ {0} /\ sbucket \in 0 .. SIZE /\ sbucket < SIZE /\ b \in 0 .. SIZE
      /\ b < SIZE => b \in Bucket
  BY MapAssumption DEF TypeOK, Bucket
<1>2. next \in [Keys -> Pointer] /\ From(NULL) = {} /\ inserted \subseteq Keys /\ due \subseteq inserted
  BY ReachNull DEF From, TypeOK
<1>3. \A k \in Keys : hash(k) \in Int /\ hash(k) <= SIZE - 1
  BY HashInBucket, <1>1 DEF Bucket
<1>4. sat' # NULL => b < SIZE /\ sat' = array[b] /\ sat' \in inserted /\ hash(sat') = b
  BY <1>1 DEF Shape
<1>5. TypeOK'
  <2> sat' \in Pointer
    BY <1>1 DEF TypeOK, Pointer
  <2> QED
    BY <1>1 DEF TypeOK, insertVars
<1>6. \A k \in From(sat') : k \in Keys /\ hash(k) = b
  <2>1. CASE sat' = NULL
    BY <2>1, <1>2
  <2>2. CASE sat' # NULL
    BY <2>2, <1>4, <1>2, WalkInChain
  <2> QED
    BY <2>1, <2>2
<1>7. SaveBehind'
  <2>1. ASSUME NEW n \in 1 .. Len(file)
        PROVE  hash(file[n]) <= b /\ file[n] \notin From(sat')
    <3>1. hash(file[n]) <= sbucket /\ file[n] \in Keys
      BY DEF SaveBehind, TypeOK
    <3>2. hash(file[n]) <= b /\ hash(file[n]) # b
      BY <3>1, <1>1, <1>3
    <3> QED
      BY <3>2, <1>6
  <2> QED
    BY <2>1, <1>4 DEF SaveBehind, From, hash
<1>8. SaveMissesNone'
  <2> SUFFICES ASSUME NEW k \in due
               PROVE  \/ \E n \in 1 .. Len(file) : file[n] = k
                      \/ hash(k) = b /\ k \in From(sat')
                      \/ hash(k) > b
    BY DEF SaveMissesNone, From, hash
  <2>1. CASE \E n \in 1 .. Len(file) : file[n] = k
    BY <2>1
  <2>2. CASE hash(k) > sbucket
    <3> k \in inserted /\ k \in Keys /\ hash(k) \in Int /\ hash(k) < SIZE
      BY <1>1, <1>2, <1>3
    <3>1. hash(k) = b \/ hash(k) > b
      BY <2>2, <1>1
    <3>2. CASE hash(k) = b
      <4> sat' = array[b]
        BY <3>2
      <4> QED
        BY <3>2 DEF AllFound
    <3> QED
      BY <3>1, <3>2
  <2> QED
    BY <1>2, <2>1, <2>2 DEF SaveMissesNone
<1>9. SaveNoDuplicate'
  BY DEF SaveNoDuplicate
<1> QED
  BY <1>5, <1>7, <1>8, <1>9, SaveStep DEF HInv, SaveExact

-----------------------------------------------------------------------------
(* The theorems.                                                           *)

LEMMA HInvStep == HInv /\ [Next]_vars => HInv'
<1> SUFFICES ASSUME HInv, [Next]_vars PROVE HInv'
  OBVIOUS
<1>1. CASE \E k \in Keys : InsertCreate(k)
  BY <1>1, InsertCreateStep
<1>2. CASE InsertLink
  BY <1>2, InsertLinkStep
<1>3. CASE InsertPublish
  BY <1>3, InsertPublishStep
<1>4. CASE \E w \in Workers : UpdateWalk(w)
  BY <1>4, UpdateWalkStep
<1>5. CASE \E w \in Workers, k \in Keys : UpdateStart(w, k)
  BY <1>5, UpdateStartStep
<1>6. CASE SaveStart
  BY <1>6, SaveStartStep
<1>7. CASE SaveLine
  BY <1>7, SaveLineStep
<1>8. CASE SaveBucket
  BY <1>8, SaveBucketStep
<1>9. CASE UNCHANGED vars
  <2> UNCHANGED <<array, next, value, lock, insertVars, saveVars, job, at, inserted>>
    BY <1>9 DEF vars
  <2> TypeOK' /\ Walks' /\ UpdateWillHit'
    BY DEF HInv, TypeOK, Walks, UpdateWillHit, From, insertVars, saveVars
  <2> QED
    BY UpdateStep DEF HInv
<1> QED
  BY <1>1, <1>2, <1>3, <1>4, <1>5, <1>6, <1>7, <1>8, <1>9 DEF Next

(* The inductive invariant holds in every state the program reaches.       *)
THEOREM MapInvariance == Spec => []HInv
BY HInvInit, HInvStep, PTL DEF Spec

(* Type correctness; queue_lock is main's while insert runs.               *)
THEOREM MapTyping == Spec => []TypeOK
<1> HInv => TypeOK
  BY DEF HInv
<1> QED
  BY MapInvariance, PTL

(* update_status, which walks a chain without the lock insert takes,       *)
(* always has its pair ahead of it: its return value 1 is never seen.      *)
THEOREM UpdateFinds == Spec => []UpdateWillHit
<1> HInv => UpdateWillHit
  BY DEF HInv
<1> QED
  BY MapInvariance, PTL

(* saveMapToFile, which takes no lock, writes every ticket that was in the *)
(* map when it started, and none twice.                                    *)
THEOREM SavedMapIsExact == Spec => []SaveExact
<1> HInv => SaveExact
  BY DEF HInv
<1> QED
  BY MapInvariance, PTL

(* The chains implement a map: each step of insert and update_status is    *)
(* one step of StatusMap or changes nothing a lookup could see.            *)
THEOREM MapRefinement == Spec => ImplementsMap
<1>1. HInv => Lookup = [k \in Keys |-> IF k \in inserted THEN value[k] ELSE Missing]
  BY InMapIs DEF HInv, Lookup
<1>2. (HInv => Lookup = [k \in Keys |-> IF k \in inserted THEN value[k] ELSE Missing])'
  BY <1>1, PTL
<1>3. Init => Abstract!Init
  <2> SUFFICES ASSUME Init PROVE Abstract!Init
    OBVIOUS
  <2> inserted = {}
    BY DEF Init
  <2> QED
    BY <1>1, HInvInit DEF Abstract!Init, Abstract!Missing, Missing
<1>4. HInv /\ HInv' /\ [Next]_vars => [Abstract!Next]_Lookup
  <2> SUFFICES ASSUME HInv, HInv', [Next]_vars, Lookup' # Lookup PROVE Abstract!Next
    OBVIOUS
  <2> TypeOK /\ NewApart /\ Walks /\ inserted \subseteq Keys /\ value \in [Keys -> 0 .. 2]
    BY DEF HInv, TypeOK
  <2>1. /\ Lookup = [k \in Keys |-> IF k \in inserted THEN value[k] ELSE Missing]
        /\ Lookup' = [k \in Keys |-> IF k \in inserted' THEN value'[k] ELSE Missing]
    BY <1>1, <1>2
  <2>2. ASSUME NEW k \in Keys, InsertCreate(k) PROVE FALSE
    <3> \A j \in inserted : value'[j] = value[j]
      BY <2>2 DEF InsertCreate
    <3> inserted' = inserted
      BY <2>2 DEF InsertCreate
    <3> QED
      BY <2>1
  <2>3. CASE InsertPublish
    <3> new \in Keys /\ new \notin inserted
      BY <2>3 DEF InsertPublish, NewApart, TypeOK, Pointer
    <3> inserted' = inserted \cup {new} /\ value' = value
      BY <2>3 DEF InsertPublish
    <3> DEFINE k == new
    <3> value[k] \in 0 .. 2 /\ Lookup[k] = Missing /\ Lookup' = [Lookup EXCEPT ![k] = value[k]]
      BY <2>1
    <3> QED
      BY DEF Abstract!Next, Abstract!Insert, Abstract!Missing, Missing
  <2>4. ASSUME NEW w \in Workers, UpdateWalk(w) PROVE Abstract!Next
    <3> DEFINE k == at[w]
               s == job[w].status
    <3> k \in inserted /\ s \in {1, 2} /\ k # NULL
      BY <2>4, KeyNotNull DEF Walks, UpdateWalk
    <3> inserted' = inserted
      BY <2>4 DEF UpdateWalk
    <3> value' = [value EXCEPT ![k] = s]
      BY <2>1, <2>4 DEF UpdateWalk
    <3> Lookup[k] # Missing /\ Lookup' = [Lookup EXCEPT ![k] = s]
      <4> value[k] # Missing
        BY DEF Missing
      <4> QED
        BY <2>1
    <3> s \in 0 .. 2 /\ k \in Keys
      OBVIOUS
    <3> QED
      BY DEF Abstract!Next, Abstract!Update, Abstract!Missing, Missing
  <2>5. ASSUME UNCHANGED <<value, inserted>> PROVE FALSE
    BY <2>1, <2>5
  <2>6. InsertLink \/ SaveStart \/ SaveLine \/ SaveBucket \/ UNCHANGED vars
        \/ (\E w \in Workers, k \in Keys : UpdateStart(w, k)) => UNCHANGED <<value, inserted>>
    BY DEF InsertLink, SaveStart, SaveLine, SaveBucket, vars, UpdateStart
  <2> QED
    BY <2>2, <2>3, <2>4, <2>5, <2>6 DEF Next
<1> QED
  BY <1>3, <1>4, MapInvariance, PTL DEF Spec, ImplementsMap, Abstract!Spec

(***************************************************************************)
(* Part 2: the saver.                                                      *)
(***************************************************************************)


(* The slots whose tickets wait, oldest first from front; while main is    *)
(* between rear and the slot, that one does not count.                     *)
Distance(s) == LengthOf(front, s)
Occupied == {s \in Slot : /\ Distance(s) \in 1 .. Length
                          /\ m_pc = "slot" => s # rear}

(* Main and the line: tickets are queued in the order of their numbers,    *)
(* and the one main is busy with is the newest.                            *)
Pending == m_pc \in {"upload", "master", "slot"}

LineAgrees ==
  /\ m_pc # "accept" => clock \in Items
  /\ m_pc \in {"slot", "map"} => front # rear /\ taken = NoItem
  /\ m_pc = "map" => queue[rear] = clock
  /\ \A s \in Occupied : /\ queue[s] \in Items
                         /\ queue[s] <= clock
                         /\ Pending => queue[s] < clock
  /\ \A s, t \in Occupied : Distance(s) < Distance(t) => queue[s] < queue[t]

(* The ticket in a slot, waiting or old, is in the map, except the one     *)
(* that main is about to insert there.                                     *)
Mapped(x) == x = NoItem \/ status[x] # NotFound

SlotsMapped == \A s \in Slot : Mapped(queue[s]) \/ (m_pc = "map" /\ s = rear)

(* What waited when the save began waits or was taken before what waits.   *)
BeganAgrees ==
  \A y \in began :
    /\ y <= clock
    /\ Pending => y < clock
    /\ \/ \E s \in Occupied : queue[s] = y
       \/ \A s \in Occupied : y < queue[s]

(* The variables of the saver where they have nothing to say.              *)
SaverIdle ==
  /\ s_pc \in {"sleep", "open", "map"} => head = NoHead /\ began = {}
  /\ s_pc \in {"sleep", "open", "map", "header", "loop"} => lines = <<>>
  /\ s_pc \in {"loop", "test", "line", "close"} =>
       head.front # Unread /\ head.rear # Unread

(* As long as no more is queued than there was room for, front and rear    *)
(* stay within one turn of the ring, which begins at Base: where front was *)
(* when the save began, or would be had the ring been less empty.          *)
Base == NthSlot(rear, room + 1)
Pos(s) == LengthOf(Base, s)

InOneTurn ==
  /\ room <= QUEUE_SIZE - 1
  /\ Pos(front) <= Pos(rear)

(* The old tickets that wait are before what the saver took for rear.      *)
Passed(p) == \A s \in Occupied : queue[s] \in began => Pos(s) <= p

HeadAgrees ==
  /\ head.front # Unread => Pos(head.front) <= Pos(front)
  /\ head.rear # Unread => Pos(head.rear) <= Pos(rear) /\ Passed(Pos(head.rear))

(* The lines are those from where the loop began, which was at front, to   *)
(* i, which has not passed rear.  front has moved on since, or not.        *)
First == Pos(s_i) - Len(lines)

LoopAgrees ==
  /\ Pos(s_i) <= Pos(rear)
  /\ s_pc = "line" => Pos(s_i) < Pos(rear)
  /\ s_pc = "close" => Passed(Pos(s_i))
  /\ Pos(head.front) <= First /\ First <= Pos(front)
  /\ \A s \in Occupied : Pos(s) < Pos(s_i) => lines[Pos(s) - First + 1] = queue[s]
  /\ \A n \in 1 .. Len(lines) : Mapped(lines[n])

InLoop == s_pc \in {"test", "line", "close"}

SaveAgrees ==
  room >= 0 /\ SavesQueue => InOneTurn /\ HeadAgrees /\ (InLoop => LoopAgrees)

(* The two files.                                                          *)
FilesAgree ==
  /\ pair \in {"queue", "both"} => Restored(qfile) \subseteq loadMapFromFile(status)
  /\ s_home /\ SavesQueue => pair = "none"
  /\ s_home /\ s_pc = "map" => /\ pair \in {"none", "queue"}
                               /\ pair = "queue" => Restored(qfile) \subseteq known

(* The inductive invariant.                                                *)
SInv == /\ SnapTypeOK
        /\ LineAgrees
        /\ SlotsMapped
        /\ WaitingIsQueued
        /\ BeganAgrees
        /\ SaverIdle
        /\ SaveAgrees
        /\ FilesAgree
        /\ RestoredIsKnown

-----------------------------------------------------------------------------
(* Distances on the ring, without the modulus.                             *)

LEMMA DistanceFacts ==
  ASSUME NEW b \in Slot, NEW s \in Slot, NEW t \in Slot
  PROVE  /\ LengthOf(b, s) \in Nat /\ LengthOf(b, s) <= QUEUE_SIZE - 1
         /\ LengthOf(b, s) = 0 <=> b = s
         /\ LengthOf(b, s) = LengthOf(b, t) => s = t
         /\ LengthOf(b, s) <= LengthOf(b, t) =>
              LengthOf(s, t) = LengthOf(b, t) - LengthOf(b, s)
         /\ LengthOf(b, s) + LengthOf(s, t) <= QUEUE_SIZE - 1 =>
              LengthOf(b, t) = LengthOf(b, s) + LengthOf(s, t)
  BY QueueAssumption DEF Slot, LengthOf

LEMMA SameDistance ==
  ASSUME NEW s \in Slot, NEW t \in Slot, NEW r \in Slot, LengthOf(s, r) = LengthOf(t, r)
  PROVE  s = t
  BY QueueAssumption DEF Slot, LengthOf

LEMMA NextSlot ==
  ASSUME NEW b \in Slot, NEW s \in Slot
  PROVE  /\ Succ(s) \in Slot
         /\ Succ(s) # s
         /\ LengthOf(b, s) < QUEUE_SIZE - 1 => LengthOf(b, Succ(s)) = LengthOf(b, s) + 1
         /\ LengthOf(s, Succ(s)) = 1
         /\ b # s => LengthOf(Succ(b), s) = LengthOf(b, s) - 1
  BY SuccValue, QueueAssumption DEF Slot, LengthOf

LEMMA NthDistance ==
  ASSUME NEW b \in Slot, NEW k \in 0 .. QUEUE_SIZE - 1
  PROVE  NthSlot(b, k) \in Slot /\ LengthOf(b, NthSlot(b, k)) = k
<1>1. k \in 0 .. QUEUE_SIZE
  BY QueueAssumption
<1>2. /\ NthSlot(b, k) = IF b + k < QUEUE_SIZE THEN b + k ELSE b + k - QUEUE_SIZE
      /\ NthSlot(b, k) \in Slot
  BY <1>1, SlotOf
<1> QED
  BY <1>1, <1>2, QueueAssumption DEF Slot, LengthOf

LEMMA DistanceNth ==
  ASSUME NEW b \in Slot, NEW s \in Slot
  PROVE  NthSlot(b, LengthOf(b, s)) = s
<1>1. LengthOf(b, s) \in 0 .. QUEUE_SIZE
  BY LengthBounds, QueueAssumption
<1>2. NthSlot(b, LengthOf(b, s)) =
        IF b + LengthOf(b, s) < QUEUE_SIZE THEN b + LengthOf(b, s)
        ELSE b + LengthOf(b, s) - QUEUE_SIZE
  BY <1>1, SlotOf
<1> QED
  BY <1>2, QueueAssumption DEF Slot, LengthOf

LEMMA BaseFacts ==
  ASSUME NEW r \in Slot, NEW k \in 0 .. QUEUE_SIZE - 1
  PROVE  /\ NthSlot(r, k + 1) \in Slot
         /\ LengthOf(NthSlot(r, k + 1), r) = QUEUE_SIZE - 1 - k
         /\ k > 0 => NthSlot(Succ(r), k) = NthSlot(r, k + 1)
<1>1. k + 1 \in 0 .. QUEUE_SIZE /\ k \in 0 .. QUEUE_SIZE /\ Succ(r) \in Slot
  BY SuccValue, QueueAssumption
<1>2. /\ NthSlot(r, k + 1) = IF r + (k + 1) < QUEUE_SIZE THEN r + (k + 1)
                             ELSE r + (k + 1) - QUEUE_SIZE
      /\ NthSlot(r, k + 1) \in Slot
  BY <1>1, SlotOf
<1>3. NthSlot(Succ(r), k) = IF Succ(r) + k < QUEUE_SIZE THEN Succ(r) + k
                            ELSE Succ(r) + k - QUEUE_SIZE
  BY <1>1, SlotOf
<1> QED
  BY <1>2, <1>3, SuccValue, QueueAssumption DEF Slot, LengthOf

-----------------------------------------------------------------------------
(* The line, and what the loaders find.                                    *)

LEMMA Parts ==
  ASSUME SnapTypeOK
  PROVE  /\ front \in Slot /\ rear \in Slot /\ queue \in [Slot -> Items \cup {NoItem}]
         /\ Length \in Nat /\ Length <= QUEUE_SIZE - 1
         /\ Distance(rear) = Length
  BY LengthBounds, QueueAssumption DEF SnapTypeOK, RingTypeOK, Length, Distance

LEMMA QueuedIs == SnapTypeOK => Queued = {queue[s] : s \in Occupied}
<1> SUFFICES ASSUME SnapTypeOK PROVE Queued = {queue[s] : s \in Occupied}
  OBVIOUS
<1>1. ASSUME NEW k \in 1 .. Length, m_pc = "slot" => NthSlot(front, k) # rear
      PROVE  NthSlot(front, k) \in Occupied
  <2>1. k \in 0 .. QUEUE_SIZE - 1
    BY Parts, QueueAssumption
  <2> QED
    BY <1>1, <2>1, Parts, NthDistance DEF Occupied, Distance
<1>2. ASSUME NEW s \in Occupied
      PROVE  /\ Distance(s) \in 1 .. Length
             /\ NthSlot(front, Distance(s)) = s
             /\ m_pc = "slot" => s # rear
  BY Parts, DistanceNth DEF Occupied, Distance
<1>3. Queued \subseteq {queue[s] : s \in Occupied}
  BY <1>1 DEF Queued
<1>4. ASSUME NEW s \in Occupied PROVE queue[s] \in Queued
  BY <1>2 DEF Queued
<1> QED
  BY <1>3, <1>4

LEMMA QueuedIsNext == SnapTypeOK' => Queued' = {queue'[s] : s \in Occupied'}
<1>1. (SnapTypeOK => Queued = {queue[s] : s \in Occupied})'
  BY QueuedIs, PTL
<1> QED
  BY <1>1

LEMMA LoadedQueue ==
  ASSUME NEW saved, saved.head.front \in Slot, saved.head.rear \in Slot,
         NEW n, n = LengthOf(saved.head.front, saved.head.rear)
  PROVE  loadQueueFromFile(saved) =
           [k \in 1 .. n |-> IF k < n THEN Line(saved, k + 1) ELSE NoItem]
<1> DEFINE f == saved.head.front
           r == saved.head.rear
           slots == [s \in Slot |-> IF \E k \in 0 .. n - 1 : s = NthSlot(f, k)
                                    THEN Line(saved, 1 + LengthOf(f, s)) ELSE NoItem]
<1>1. n \in Nat /\ n <= QUEUE_SIZE - 1
  BY LengthBounds, QueueAssumption
<1>2. saved.head # NoHead
  BY DEF NoHead, Unread, Slot
<1>3. loadQueueFromFile(saved) = [k \in 1 .. n |-> slots[NthSlot(f, k)]]
  BY <1>2 DEF loadQueueFromFile, ContentsOf
<1>4. ASSUME NEW k \in 1 .. n
      PROVE  slots[NthSlot(f, k)] = IF k < n THEN Line(saved, k + 1) ELSE NoItem
  <2>1. k \in 0 .. QUEUE_SIZE - 1 /\ 1 + k = k + 1
    BY <1>1, QueueAssumption
  <2>2. NthSlot(f, k) \in Slot /\ LengthOf(f, NthSlot(f, k)) = k
    BY <2>1, NthDistance
  <2>3. slots[NthSlot(f, k)] = IF \E j \in 0 .. n - 1 : NthSlot(f, k) = NthSlot(f, j)
                               THEN Line(saved, k + 1) ELSE NoItem
    BY <2>1, <2>2
  <2>4. ASSUME NEW j \in 0 .. n - 1, NthSlot(f, k) = NthSlot(f, j)
        PROVE  k < n
    <3>1. j \in 0 .. QUEUE_SIZE - 1 /\ j < n
      BY <1>1, QueueAssumption
    <3>2. LengthOf(f, NthSlot(f, j)) = j
      BY <3>1, NthDistance
    <3> QED
      BY <2>2, <2>4, <3>1, <3>2
  <2>5. k < n => k \in 0 .. n - 1
    BY <1>1
  <2> HIDE DEF slots
  <2> QED
    BY <2>3, <2>4, <2>5
<1> HIDE DEF slots, f, r
<1> QED
  BY <1>3, <1>4

(* What is restored are lines of the file, from the second on and less     *)
(* than the first line makes the length.                                   *)
LEMMA RestoredLines ==
  ASSUME NEW saved, saved.head.front \in Slot, saved.head.rear \in Slot,
         saved.lines \in Seq(Items \cup {NoItem})
  PROVE  /\ \A x \in Restored(saved) :
              x # NoItem /\ \E j \in 1 .. Len(saved.lines) : x = saved.lines[j]
         /\ \A k \in 1 .. LengthOf(saved.head.front, saved.head.rear) - 1 :
              k + 1 <= Len(saved.lines) /\ saved.lines[k + 1] # NoItem
                => saved.lines[k + 1] \in Restored(saved)
<1> DEFINE n == LengthOf(saved.head.front, saved.head.rear)
           q == loadQueueFromFile(saved)
<1>1. n \in Nat
  BY LengthBounds, QueueAssumption
<1>2. q = [k \in 1 .. n |-> IF k < n THEN Line(saved, k + 1) ELSE NoItem]
  BY LoadedQueue
<1>3. Restored(saved) = {q[k] : k \in DOMAIN q} \ {NoItem}
  BY DEF Restored
<1>4. DOMAIN saved.lines = 1 .. Len(saved.lines) /\ Len(saved.lines) \in Nat
  OBVIOUS
<1> HIDE DEF n, q
<1>5. ASSUME NEW x \in Restored(saved)
      PROVE  x # NoItem /\ \E j \in 1 .. Len(saved.lines) : x = saved.lines[j]
  <2>1. x # NoItem
    BY <1>3
  <2>2. PICK k \in 1 .. n : x = q[k]
    BY <1>2, <1>3
  <2>3. x = Line(saved, k + 1)
    BY <1>2, <2>1, <2>2
  <2> QED
    BY <1>4, <2>1, <2>3 DEF Line
<1>6. ASSUME NEW k \in 1 .. n - 1, k + 1 <= Len(saved.lines), saved.lines[k + 1] # NoItem
      PROVE  saved.lines[k + 1] \in Restored(saved)
  <2>1. k \in 1 .. n /\ k < n /\ k + 1 \in 1 .. Len(saved.lines)
    BY <1>1, <1>4, <1>6
  <2>2. q[k] = Line(saved, k + 1)
    BY <1>2, <2>1
  <2>3. q[k] = saved.lines[k + 1]
    BY <1>4, <2>1, <2>2 DEF Line
  <2> QED
    BY <1>2, <1>3, <1>6, <2>1, <2>3
<1> QED
  BY <1>5, <1>6 DEF n

-----------------------------------------------------------------------------
(* Types.                                                                  *)

LEMMA ItemsAre ==
  /\ Cardinality(Items) \in Nat /\ NoItem = 0
  /\ \A x \in Items : x \in Nat /\ x > 0
<1>1. Cardinality(Items) \in Nat /\ NoItem = 0
  BY SnapshotAssumption, FS_CardinalityType
<1>2. ASSUME NEW x \in Items PROVE x \in Nat /\ x > 0
  <2>1. x \in 1 .. Cardinality(Items)
    BY SnapshotAssumption
  <2> QED
    BY <1>1, <2>1
<1> QED
  BY <1>1, <1>2

LEMMA InitTyping == SnapInit => SnapTypeOK
<1> SUFFICES ASSUME SnapInit PROVE SnapTypeOK
  OBVIOUS
<1>1. RingTypeOK /\ 0 \in Slot
  BY InitEmpty, QueueAssumption DEF SnapInit, Slot
<1>2. /\ NoStatus \in [Items -> NotFound .. 1]
      /\ NoHead \in [front : Slot \cup {Unread}, rear : Slot \cup {Unread}]
      /\ NoFile.head = NoHead /\ NoFile.lines = <<>>
      /\ <<>> \in Seq(Items \cup {NoItem})
  BY DEF NoStatus, NotFound, NoHead, NoFile
<1>3. stops \in 0 .. MaxStops /\ clock \in 0 .. Cardinality(Items)
  BY ItemsAre, SnapshotAssumption DEF SnapInit
<1> QED
  BY <1>1, <1>2, <1>3 DEF SnapInit, SnapTypeOK

(* The process that starts has the types it needs, whatever was before.    *)
LEMMA StartTyping ==
  ASSUME SnapTypeOK, Start, Stop, qfile' \in {qfile, Buffered}, mfile' \in {mfile, written}
  PROVE  SnapTypeOK'
<1>1. /\ 0 \in Slot /\ RingTypeOK'
      /\ status' \in [Items -> NotFound .. 1] /\ written' \in [Items -> NotFound .. 1]
  BY QueueAssumption DEF Start, StartWith, RingTypeOK, Slot, NoStatus, NotFound
<1>2. head' \in [front : Slot \cup {Unread}, rear : Slot \cup {Unread}]
  BY DEF Start, StartWith, NoHead
<1>3. /\ qfile'.head \in [front : Slot \cup {Unread}, rear : Slot \cup {Unread}]
      /\ qfile'.lines \in Seq(Items \cup {NoItem})
      /\ mfile' \in [Items -> NotFound .. 1]
  BY DEF SnapTypeOK, Buffered
<1>4. stops' \in 0 .. MaxStops /\ pair' \in {"none", "queue", "both", "old"}
  BY SnapshotAssumption DEF SnapTypeOK, Stop
<1> QED
  BY <1>1, <1>2, <1>3, <1>4 DEF Start, StartWith, SnapTypeOK

LEMMA TypingStep == SnapTypeOK /\ LineAgrees /\ [SnapNext]_snapVars => SnapTypeOK'
<1> SUFFICES ASSUME SnapTypeOK, LineAgrees, SnapNext PROVE SnapTypeOK'
  BY DEF SnapTypeOK, RingTypeOK, snapVars, mainVars, memory, ringVars, saverVars, disk, history
<1> USE DEF mainVars, memory, ringVars, saverVars, disk, history
<1>1. CASE UploadStart \/ UploadEnd
  <2>1. \A x \in Items : x \in 0 .. Cardinality(Items)
    BY SnapshotAssumption, ItemsAre
  <2>2. clock' \in 0 .. Cardinality(Items)
    BY <1>1, <2>1 DEF UploadStart, UploadEnd, SnapTypeOK
  <2> QED
    BY <1>1, <2>2 DEF UploadStart, UploadEnd, SnapTypeOK, RingTypeOK
<1>2. CASE AdvanceRear
  BY <1>2, SuccValue DEF AdvanceRear, SnapTypeOK, RingTypeOK
<1>3. CASE WriteSlot
  <2>1. clock \in Items \cup {NoItem}
    BY <1>3 DEF WriteSlot, LineAgrees
  <2> QED
    BY <1>3, <2>1 DEF WriteSlot, SnapTypeOK, RingTypeOK
<1>4. CASE MapInsert
  <2>1. 0 \in NotFound .. 1 /\ status' = [status EXCEPT ![clock] = 0]
    BY <1>4 DEF MapInsert, NotFound
  <2>2. status' \in [Items -> NotFound .. 1]
    BY <2>1 DEF SnapTypeOK
  <2> QED
    BY <1>4, <2>2 DEF MapInsert, SnapTypeOK, RingTypeOK
<1>5. CASE Take
  BY <1>5, SuccValue DEF Take, SnapTypeOK, RingTypeOK
<1>6. CASE MarkTaken
  <2>1. status' \in [Items -> NotFound .. 1]
    BY <1>6 DEF MarkTaken, SnapTypeOK, NotFound
  <2> QED
    BY <1>6, <2>1 DEF MarkTaken, SnapTypeOK, RingTypeOK
<1>7. CASE SaverStep
  <2>1. CASE QueueFileFails \/ TestLoop \/ MapFileFails
    BY <1>7, <2>1 DEF QueueFileFails, TestLoop, MapFileFails, SnapTypeOK, RingTypeOK
  <2>2. CASE OpenQueueFile
    <3>1. Queued \subseteq Items
      BY QueuedIs DEF LineAgrees
    <3>2. Length \in Nat
      BY Parts
    <3>3. room' \in Int
      BY <2>2, <3>2, QueueAssumption DEF OpenQueueFile
    <3>4. /\ qfile' \in {qfile, NoFile} /\ NoFile.head = NoHead /\ NoFile.lines = <<>>
          /\ NoHead \in [front : Slot \cup {Unread}, rear : Slot \cup {Unread}]
          /\ <<>> \in Seq(Items \cup {NoItem})
      BY <2>2 DEF OpenQueueFile, NoFile, NoHead
    <3> QED
      BY <2>2, <3>1, <3>3, <3>4 DEF OpenQueueFile, AtHome, SnapTypeOK, RingTypeOK
  <2>3. CASE ReadHead
    BY <2>3 DEF ReadHead, SnapTypeOK, RingTypeOK
  <2>4. CASE EnterLoop
    BY <2>4 DEF EnterLoop, SnapTypeOK, RingTypeOK
  <2>5. CASE WriteLine
    BY <2>5, SuccValue DEF WriteLine, SnapTypeOK, RingTypeOK
  <2>6. CASE CloseQueueFile
    <3>1. 0 \in Slot /\ NoHead \in [front : Slot \cup {Unread}, rear : Slot \cup {Unread}]
      BY QueueAssumption DEF Slot, NoHead
    <3> QED
      BY <2>6, <3>1 DEF CloseQueueFile, Buffered, SnapTypeOK, RingTypeOK
  <2>7. CASE OpenMapFile
    <3>1. NoStatus \in [Items -> NotFound .. 1]
      BY DEF NoStatus, NotFound
    <3> QED
      BY <2>7, <3>1 DEF OpenMapFile, AtHome, SnapTypeOK, RingTypeOK
  <2>8. ASSUME NEW x \in Items, WriteMapLine(x) PROVE SnapTypeOK'
    <3>1. status[x] \in NotFound .. 1 /\ written' = [written EXCEPT ![x] = status[x]]
      BY <2>8 DEF WriteMapLine, SnapTypeOK
    <3>2. written' \in [Items -> NotFound .. 1]
      BY <3>1 DEF SnapTypeOK
    <3>3. mfile' \in [Items -> NotFound .. 1]
      <4>1. mfile' = mfile \/ mfile' = written'
        BY <2>8 DEF WriteMapLine
      <4> QED
        BY <3>2, <4>1 DEF SnapTypeOK
    <3> QED
      BY <2>8, <3>2, <3>3 DEF WriteMapLine, SnapTypeOK, RingTypeOK
  <2>9. CASE CloseMapFile
    <3>1. NoStatus \in [Items -> NotFound .. 1]
      BY DEF NoStatus, NotFound
    <3> QED
      BY <2>9, <3>1 DEF CloseMapFile, SnapTypeOK, RingTypeOK
  <2> QED
    BY <1>7, <2>1, <2>2, <2>3, <2>4, <2>5, <2>6, <2>7, <2>8, <2>9 DEF SaverStep
<1>8. CASE Killed \/ MainReturns
  <2>1. Start /\ Stop /\ qfile' \in {qfile, Buffered} /\ mfile' \in {mfile, written}
    BY <1>8 DEF Killed, MainReturns
  <2> QED
    BY <2>1, StartTyping
<1> QED
  BY <1>1, <1>2, <1>3, <1>4, <1>5, <1>6, <1>7, <1>8 DEF SnapNext

-----------------------------------------------------------------------------
(* Main and the workers: what the saver relies on stays true beside it.    *)

MapGrows == \A x \in Items : status[x] # NotFound => status'[x] # NotFound

LEMMA FilesBeside ==
  ASSUME SInv, MapGrows, UNCHANGED <<saverVars, disk, began, pair>>
  PROVE  SaverIdle' /\ FilesAgree' /\ RestoredIsKnown'
<1>1. SavesQueue' = SavesQueue
  BY DEF SavesQueue, saverVars
<1>2. SaverIdle'
  BY DEF SInv, SaverIdle, saverVars
<1>3. loadMapFromFile(status) \subseteq loadMapFromFile(status)'
  BY DEF MapGrows, loadMapFromFile
<1>4. Restored(qfile)' = Restored(qfile) /\ loadMapFromFile(mfile)' = loadMapFromFile(mfile)
  BY DEF disk, Restored, loadQueueFromFile, Line, loadMapFromFile
<1>5. UNCHANGED <<pair, s_home, s_pc, known>>
  BY DEF saverVars
<1>6. FilesAgree'
  BY <1>1, <1>3, <1>4, <1>5 DEF SInv, FilesAgree
<1>7. RestoredIsKnown'
  BY <1>4, <1>5 DEF SInv, RestoredIsKnown
<1> QED
  BY <1>2, <1>6, <1>7

(* front and rear move on within the turn, and the only slot that comes to *)
(* be occupied is that at rear, with a new ticket.                         *)
LEMMA SaveBeside ==
  ASSUME SInv, SnapTypeOK', MapGrows, UNCHANGED <<saverVars, began>>,
         room' <= room,
         room' >= 0 /\ SavesQueue =>
           /\ Base' = Base
           /\ room' <= QUEUE_SIZE - 1
           /\ Pos(front) <= LengthOf(Base, front')
           /\ Pos(rear) <= LengthOf(Base, rear')
           /\ LengthOf(Base, front') <= LengthOf(Base, rear'),
         \A s \in Occupied' : \/ s \in Occupied /\ queue'[s] = queue[s]
                              \/ s = rear /\ queue'[s] \notin began
  PROVE  SaveAgrees'
<1> SUFFICES ASSUME room' >= 0, SavesQueue
             PROVE  InOneTurn' /\ HeadAgrees' /\ (InLoop => LoopAgrees')
  BY DEF SaveAgrees, SavesQueue, InLoop, saverVars
<1>1. /\ SnapTypeOK /\ room >= 0 /\ Base' = Base /\ room \in Int
      /\ InOneTurn /\ HeadAgrees /\ (InLoop => LoopAgrees)
  <2>1. room \in Int /\ room' \in Int
    BY DEF SInv, SnapTypeOK
  <2> QED
    BY <2>1 DEF SInv, SaveAgrees
<1>2. InOneTurn'
  BY <1>1 DEF InOneTurn, Pos
<1>3. /\ Base \in Slot /\ front \in Slot /\ rear \in Slot /\ s_i \in Slot
      /\ Pos(front) \in Nat /\ Pos(rear) \in Nat /\ Pos(s_i) \in Nat
  <2>1. room \in 0 .. QUEUE_SIZE - 1
    BY <1>1, QueueAssumption DEF InOneTurn
  <2>2. front \in Slot /\ rear \in Slot /\ s_i \in Slot
    BY <1>1 DEF SnapTypeOK, RingTypeOK
  <2>3. Base \in Slot
    BY <2>1, <2>2, BaseFacts DEF Base
  <2> QED
    BY <2>2, <2>3, DistanceFacts DEF Pos
<1>4. /\ UNCHANGED <<head, s_i, lines, s_pc>>
      /\ Pos(s_i)' = Pos(s_i) /\ Pos(head.front)' = Pos(head.front)
      /\ Pos(head.rear)' = Pos(head.rear) /\ First' = First
      /\ Pos(front)' = LengthOf(Base, front') /\ Pos(rear)' = LengthOf(Base, rear')
      /\ \A s \in Slot : Pos(s)' = Pos(s)
  BY <1>1 DEF saverVars, Pos, First
<1>5. Pos(front) <= Pos(front)' /\ Pos(rear) <= Pos(rear)'
  BY <1>4
<1>6. /\ Passed(Pos(head.rear)) => Passed(Pos(head.rear))'
      /\ Passed(Pos(s_i)) => Passed(Pos(s_i))'
  <2>1. ASSUME NEW s \in Occupied', queue'[s] \in began'
        PROVE  s \in Occupied /\ queue[s] \in began /\ Pos(s)' = Pos(s)
    BY <1>4, <2>1 DEF Occupied
  <2> QED
    BY <1>4, <2>1 DEF Passed
<1>7. HeadAgrees'
  <2>1. ASSUME head.front # Unread PROVE head.front \in Slot /\ Pos(head.front) \in Nat
    BY <1>1, <1>3, <2>1, DistanceFacts DEF SnapTypeOK, Pos
  <2>2. ASSUME head.rear # Unread PROVE head.rear \in Slot /\ Pos(head.rear) \in Nat
    BY <1>1, <1>3, <2>2, DistanceFacts DEF SnapTypeOK, Pos
  <2>3. Pos(front)' \in Nat /\ Pos(rear)' \in Nat
    BY <1>1, <1>3, <1>4, DistanceFacts DEF SnapTypeOK, RingTypeOK
  <2> QED
    BY <1>1, <1>3, <1>4, <1>5, <1>6, <2>1, <2>2, <2>3 DEF HeadAgrees
<1>8. ASSUME InLoop PROVE LoopAgrees'
  <2>1. LoopAgrees
    BY <1>1, <1>8
  <2>2. /\ Pos(s_i) <= Pos(rear) /\ First \in Int /\ First <= Pos(front)
        /\ Pos(front)' \in Nat /\ Pos(rear)' \in Nat
    <3>1. Len(lines) \in Nat
      BY <1>1 DEF SnapTypeOK
    <3>2. Pos(front)' \in Nat /\ Pos(rear)' \in Nat
      BY <1>1, <1>3, <1>4, DistanceFacts DEF SnapTypeOK, RingTypeOK
    <3> QED
      BY <1>3, <2>1, <3>1, <3>2 DEF LoopAgrees, First
  <2>3. ASSUME NEW s \in Occupied', Pos(s)' < Pos(s_i)'
        PROVE  lines'[Pos(s)' - First' + 1] = queue'[s]
    <3>1. s \in Slot /\ Pos(s)' = Pos(s)
      BY <1>4 DEF Occupied
    <3>2. s # rear
      BY <1>3, <1>4, <2>2, <2>3, <3>1
    <3>3. s \in Occupied /\ queue'[s] = queue[s]
      BY <3>2
    <3> QED
      BY <1>4, <2>1, <2>3, <3>1, <3>3 DEF LoopAgrees
  <2>4. ASSUME NEW n \in 1 .. Len(lines) PROVE Mapped(lines[n])'
    <3>1. lines[n] \in Items \cup {NoItem}
      BY <1>1, <1>4 DEF SnapTypeOK
    <3>2. Mapped(lines[n])
      BY <2>1, <3>1 DEF LoopAgrees
    <3>3. \A x \in Items \cup {NoItem} : Mapped(x) => (x = NoItem \/ status'[x] # NotFound)
      BY DEF MapGrows, Mapped
    <3> QED
      BY <1>4, <3>1, <3>2, <3>3 DEF Mapped
  <2>5. /\ Pos(s_i)' <= Pos(rear)'
        /\ s_pc' = "line" => Pos(s_i)' < Pos(rear)'
        /\ s_pc' = "close" => Passed(Pos(s_i))'
        /\ Pos(head.front)' <= First' /\ First' <= Pos(front)'
    BY <1>3, <1>4, <1>5, <1>6, <2>1, <2>2 DEF LoopAgrees
  <2> QED
    BY <1>4, <2>3, <2>4, <2>5 DEF LoopAgrees
<1> QED
  BY <1>2, <1>7, <1>8

-----------------------------------------------------------------------------
(* The steps of main.                                                      *)

(* While the ring and what is occupied stay the same, so does the turn.    *)
LEMMA SameTurn ==
  ASSUME SInv, SnapTypeOK', MapGrows, Occupied' = Occupied,
         UNCHANGED <<ringVars, saverVars, disk, history>>
  PROVE  SaverIdle' /\ SaveAgrees' /\ FilesAgree' /\ RestoredIsKnown'
<1>1. UNCHANGED <<front, rear, queue, began, room, pair>>
  BY DEF ringVars, history
<1>2. Base' = Base
  BY <1>1 DEF Base
<1>3. room \in Int
  BY DEF SInv, SnapTypeOK
<1>4. /\ SaverIdle' /\ FilesAgree' /\ RestoredIsKnown'
  BY <1>1, FilesBeside
<1>5. CASE room >= 0 /\ SavesQueue
  <2>1. InOneTurn
    BY <1>5 DEF SInv, SaveAgrees
  <2>2. room \in 0 .. QUEUE_SIZE - 1 /\ front \in Slot /\ rear \in Slot
    BY <1>3, <1>5, <2>1, QueueAssumption DEF InOneTurn, SInv, SnapTypeOK, RingTypeOK
  <2>3. Base \in Slot
    BY <2>2, BaseFacts DEF Base
  <2>4. Pos(front) \in Nat /\ Pos(rear) \in Nat
    BY <2>2, <2>3, DistanceFacts DEF Pos
  <2>5. SaveAgrees'
    BY <1>1, <1>2, <1>3, <2>1, <2>4, SaveBeside DEF InOneTurn, Pos
  <2> QED
    BY <1>4, <2>5
<1>6. CASE ~(room >= 0 /\ SavesQueue)
  BY <1>1, <1>4, <1>6 DEF SaveAgrees, SavesQueue, saverVars
<1> QED
  BY <1>5, <1>6

LEMMA UploadStep ==
  ASSUME SInv, UploadStart \/ UploadEnd
  PROVE  SInv'
<1>1. /\ UNCHANGED <<memory, saverVars, disk, history>>
      /\ UNCHANGED <<front, rear, queue, status, taken, began>>
      /\ m_pc \in {"accept", "upload"} /\ m_pc' \in {"upload", "master"}
      /\ clock \in Nat /\ clock' \in Items
      /\ IF m_pc = "accept" THEN clock' = clock + 1 ELSE clock' = clock /\ Pending
  <2>1. UploadStart => clock' \in Items
    BY DEF UploadStart
  <2>2. UploadEnd => clock' \in Items
    BY DEF UploadEnd, SInv, LineAgrees
  <2> QED
    BY <2>1, <2>2, ItemsAre
    DEF UploadStart, UploadEnd, memory, ringVars, history, Pending, SInv, SnapTypeOK
<1>2. Occupied' = Occupied /\ Pending' /\ SnapTypeOK /\ SnapTypeOK'
  BY <1>1, TypingStep DEF Occupied, Distance, Length, Pending, SInv, SnapNext
<1>3. LineAgrees'
  <2>1. LineAgrees /\ \A s \in Occupied : queue[s] \in Nat
    BY ItemsAre DEF SInv, LineAgrees
  <2>2. \A s \in Occupied : Distance(s)' = Distance(s)
    BY <1>1 DEF Distance
  <2> QED
    BY <1>1, <1>2, <2>1, <2>2 DEF LineAgrees
<1>4. SlotsMapped'
  BY <1>1 DEF SInv, SlotsMapped, Mapped
<1>5. WaitingIsQueued'
  BY <1>1, <1>2, QueuedIs, QueuedIsNext DEF SInv, WaitingIsQueued
<1>6. BeganAgrees'
  <2>1. began \subseteq Nat /\ BeganAgrees
    BY <1>2, ItemsAre DEF SInv, SnapTypeOK
  <2> QED
    BY <1>1, <1>2, <2>1 DEF BeganAgrees
<1>7. SaverIdle' /\ SaveAgrees' /\ FilesAgree' /\ RestoredIsKnown'
  BY <1>1, <1>2, SameTurn DEF MapGrows, memory
<1> QED
  BY <1>2, <1>3, <1>4, <1>5, <1>6, <1>7 DEF SInv

(* What holds of the turn while the queue is saved.                        *)
LEMMA TurnFacts ==
  ASSUME SInv, room >= 0, SavesQueue
  PROVE  /\ room \in 0 .. QUEUE_SIZE - 1
         /\ Base \in Slot /\ front \in Slot /\ rear \in Slot /\ s_i \in Slot
         /\ Pos(rear) = QUEUE_SIZE - 1 - room
         /\ Pos(front) \in Nat /\ Pos(rear) \in Nat /\ Pos(s_i) \in Nat
         /\ Pos(front) <= Pos(rear)
         /\ Length = Pos(rear) - Pos(front)
         /\ \A s \in Occupied : /\ s \in Slot
                                /\ Pos(s) = Pos(front) + Distance(s)
                                /\ Pos(s) \in Nat /\ Pos(front) < Pos(s) /\ Pos(s) <= Pos(rear)
<1>1. /\ room \in 0 .. QUEUE_SIZE - 1
      /\ front \in Slot /\ rear \in Slot /\ s_i \in Slot
      /\ Pos(front) <= Pos(rear)
  BY QueueAssumption DEF SInv, SnapTypeOK, RingTypeOK, SaveAgrees, InOneTurn
<1>2. Base \in Slot /\ Pos(rear) = QUEUE_SIZE - 1 - room
  BY <1>1, BaseFacts DEF Base, Pos
<1>3. /\ Pos(front) \in Nat /\ Pos(rear) \in Nat /\ Pos(s_i) \in Nat
      /\ Pos(rear) <= QUEUE_SIZE - 1
  BY <1>1, <1>2, DistanceFacts DEF Pos
<1>4. Length = Pos(rear) - Pos(front)
  BY <1>1, <1>2, DistanceFacts DEF Pos, Length
<1>5. ASSUME NEW s \in Occupied
      PROVE  /\ s \in Slot
             /\ Pos(s) = Pos(front) + Distance(s)
             /\ Pos(s) \in Nat /\ Pos(front) < Pos(s) /\ Pos(s) <= Pos(rear)
  <2>1. s \in Slot /\ Distance(s) \in Nat /\ Distance(s) >= 1 /\ Distance(s) <= Length
    BY <1>3, <1>4 DEF Occupied
  <2>2. Pos(front) + Distance(s) <= QUEUE_SIZE - 1
    BY <1>3, <1>4, <2>1, QueueAssumption
  <2>3. Pos(s) = Pos(front) + Distance(s)
    BY <1>1, <1>2, <2>1, <2>2, DistanceFacts DEF Pos, Distance
  <2> QED
    BY <1>3, <1>4, <2>1, <2>3
<1> QED
  BY <1>1, <1>2, <1>3, <1>4, <1>5

LEMMA AdvanceRearStep == ASSUME SInv, AdvanceRear PROVE SInv'
<1>1. /\ SnapTypeOK /\ SnapTypeOK'
      /\ UNCHANGED <<clock, front, queue, taken, status, saverVars, disk, began, pair>>
      /\ m_pc = "master" /\ m_pc' = "slot" /\ taken = NoItem
      /\ rear' = Succ(rear) /\ Succ(rear) # front
      /\ room' = IF SavesQueue THEN room - 1 ELSE room
  <2>1. SnapTypeOK /\ SnapTypeOK'
    BY TypingStep DEF SInv, SnapNext
  <2> QED
    BY <2>1 DEF AdvanceRear, Locked, IsFull
<1>2. /\ front \in Slot /\ rear \in Slot /\ rear' \in Slot
      /\ Length \in Nat /\ Length < QUEUE_SIZE - 1
      /\ Length' = Length + 1 /\ LengthOf(front, Succ(rear)) = Length + 1
  <2>1. front \in Slot /\ rear \in Slot /\ rear' \in Slot
    BY <1>1 DEF SnapTypeOK, RingTypeOK
  <2>2. Length \in Nat /\ Length < QUEUE_SIZE - 1
    BY <1>1, <2>1, LengthBounds, QueueAssumption DEF Length
  <2> QED
    BY <1>1, <2>1, <2>2, NextSlot DEF Length
<1>3. /\ Occupied' = Occupied
      /\ \A s \in Slot : Distance(s)' = Distance(s)
  <2>1. \A s \in Slot : Distance(s)' = Distance(s) /\ Distance(s) \in Nat
    BY <1>1, <1>2, DistanceFacts DEF Distance
  <2>2. ASSUME NEW s \in Slot
        PROVE  /\ s = rear' <=> Distance(s) = Length + 1
               /\ s = rear <=> Distance(s) = Length
    BY <1>1, <1>2, DistanceFacts DEF Distance, Length
  <2>3. ASSUME NEW s \in Slot PROVE s \in Occupied' <=> s \in Occupied
    BY <1>1, <1>2, <2>1, <2>2 DEF Occupied
  <2> QED
    BY <2>1, <2>3 DEF Occupied
<1>4. LineAgrees'
  <2>1. \A s \in Occupied : s \in Slot
    BY DEF Occupied
  <2> QED
    BY <1>1, <1>3, <2>1 DEF SInv, LineAgrees, Pending
<1>5. SlotsMapped'
  BY <1>1 DEF SInv, SlotsMapped, Mapped
<1>6. WaitingIsQueued'
  BY <1>1, <1>3, QueuedIs, QueuedIsNext DEF SInv, WaitingIsQueued
<1>7. BeganAgrees'
  BY <1>1, <1>3 DEF SInv, BeganAgrees, Pending
<1>8. SaverIdle' /\ FilesAgree' /\ RestoredIsKnown'
  BY <1>1, FilesBeside DEF MapGrows
<1>9. SaveAgrees'
  <2>1. room' <= room /\ room \in Int
    BY <1>1 DEF SnapTypeOK
  <2>2. ASSUME room' >= 0, SavesQueue
        PROVE  /\ Base' = Base
               /\ room' <= QUEUE_SIZE - 1
               /\ Pos(front) <= LengthOf(Base, front')
               /\ Pos(rear) <= LengthOf(Base, rear')
               /\ LengthOf(Base, front') <= LengthOf(Base, rear')
    <3>1. room >= 1 /\ room >= 0 /\ room' = room - 1
      BY <1>1, <2>1, <2>2
    <3>2. /\ room \in 0 .. QUEUE_SIZE - 1 /\ Base \in Slot
          /\ Pos(rear) = QUEUE_SIZE - 1 - room
          /\ Pos(front) \in Nat /\ Pos(front) <= Pos(rear)
      BY <2>2, <3>1, TurnFacts
    <3>3. Base' = Base
      <4>1. NthSlot(Succ(rear), room) = NthSlot(rear, room + 1)
        BY <1>2, <3>1, <3>2, BaseFacts
      <4> QED
        BY <1>1, <3>1, <3>2, <4>1 DEF Base
    <3>4. LengthOf(Base, rear') = Pos(rear) + 1
      BY <1>1, <1>2, <3>1, <3>2, NextSlot, QueueAssumption DEF Pos
    <3> QED
      BY <1>1, <3>1, <3>2, <3>3, <3>4, QueueAssumption DEF Pos
  <2> QED
    BY <1>1, <1>3, <2>1, <2>2, SaveBeside DEF MapGrows
<1> QED
  BY <1>1, <1>4, <1>5, <1>6, <1>7, <1>8, <1>9 DEF SInv

(* In the slot at rear is the newest ticket, once it is there.             *)
LEMMA RearFacts ==
  ASSUME SnapTypeOK, front # rear
  PROVE  /\ rear \in Slot /\ Distance(rear) = Length
         /\ \A s \in Occupied : Distance(s) \in Nat /\ Distance(s) <= Length
         /\ m_pc # "slot" => rear \in Occupied
         /\ m_pc = "slot" => rear \notin Occupied
<1>1. /\ rear \in Slot /\ Distance(rear) = Length /\ Length \in Nat /\ Length # 0
  BY Parts, DistanceFacts DEF Length
<1> QED
  BY <1>1 DEF Occupied

LEMMA WriteSlotStep == ASSUME SInv, WriteSlot PROVE SInv'
<1>1. /\ SnapTypeOK /\ SnapTypeOK' /\ LineAgrees
      /\ UNCHANGED <<clock, front, rear, taken, status, saverVars, disk, began, room, pair>>
      /\ m_pc = "slot" /\ m_pc' = "map"
      /\ queue' = [queue EXCEPT ![rear] = clock]
      /\ front # rear /\ taken = NoItem /\ clock \in Items
  <2>1. SnapTypeOK /\ SnapTypeOK'
    BY TypingStep DEF SInv, SnapNext
  <2> QED
    BY <2>1 DEF WriteSlot, SInv, LineAgrees, history
<1>2. /\ rear \in Slot /\ Distance(rear) = Length
      /\ \A s \in Occupied : Distance(s) \in Nat /\ Distance(s) <= Length /\ s # rear
  BY <1>1, RearFacts
<1>3. /\ \A s \in Slot : Distance(s)' = Distance(s)
      /\ Occupied' = Occupied \cup {rear}
  <2>1. Length \in Nat /\ Length # 0
    BY <1>1, Parts, DistanceFacts DEF Length
  <2> QED
    BY <1>1, <1>2, <2>1 DEF Distance, Length, Occupied
<1>4. /\ queue'[rear] = clock
      /\ \A s \in Slot \ {rear} : queue'[s] = queue[s]
      /\ \A s \in Occupied : s \in Slot /\ queue'[s] = queue[s] /\ queue[s] \in Items
                           /\ queue[s] < clock /\ queue[s] \in Nat
      /\ clock \in Nat
  BY <1>1, <1>2, ItemsAre DEF SnapTypeOK, RingTypeOK, Occupied, LineAgrees, Pending
<1>5. LineAgrees'
  <2>1. ASSUME NEW s \in Occupied'
        PROVE  queue'[s] \in Items /\ queue'[s] <= clock'
    BY <1>1, <1>3, <1>4
  <2>2. ASSUME NEW s \in Occupied', NEW t \in Occupied', Distance(s)' < Distance(t)'
        PROVE  queue'[s] < queue'[t]
    <3>1. s \in Occupied
      <4>1. Distance(t) <= Length /\ Distance(t) \in Nat /\ Length \in Nat
        BY <1>1, <1>2, <1>3, Parts
      <4>2. Distance(s) < Distance(t)
        BY <1>2, <1>3, <1>4, <2>2
      <4> QED
        BY <1>2, <1>3, <4>1, <4>2
    <3>2. CASE t = rear
      BY <1>4, <3>1, <3>2
    <3>3. CASE t \in Occupied
      BY <1>1, <1>3, <1>4, <2>2, <3>1, <3>3 DEF LineAgrees
    <3> QED
      BY <1>3, <3>2, <3>3
  <2> QED
    BY <1>1, <1>4, <2>1, <2>2 DEF LineAgrees, Pending
<1>6. SlotsMapped'
  BY <1>1, <1>4 DEF SInv, SlotsMapped, Mapped
<1>7. WaitingIsQueued'
  <2>1. Queued \subseteq Queued'
    BY <1>1, <1>3, <1>4, QueuedIs, QueuedIsNext
  <2> QED
    BY <1>1, <2>1 DEF SInv, WaitingIsQueued
<1>8. BeganAgrees' /\ clock \notin began
  <2>1. BeganAgrees /\ \A y \in began : y \in Nat /\ y < clock
    BY <1>1, ItemsAre DEF SInv, SnapTypeOK, BeganAgrees, Pending
  <2>2. ASSUME NEW y \in began
        PROVE  \/ \E s \in Occupied' : queue'[s] = y
               \/ \A s \in Occupied' : y < queue'[s]
    BY <1>3, <1>4, <2>1 DEF BeganAgrees
  <2> QED
    BY <1>1, <1>4, <2>1, <2>2 DEF BeganAgrees, Pending
<1>9. SaverIdle' /\ FilesAgree' /\ RestoredIsKnown'
  BY <1>1, FilesBeside DEF MapGrows
<1>10. SaveAgrees'
  <2>1. room \in Int /\ Base' = Base
    BY <1>1 DEF SnapTypeOK, Base
  <2>2. \A s \in Occupied' : \/ s \in Occupied /\ queue'[s] = queue[s]
                             \/ s = rear /\ queue'[s] \notin began
    BY <1>3, <1>4, <1>8
  <2>3. ASSUME room >= 0, SavesQueue
        PROVE  /\ room <= QUEUE_SIZE - 1
               /\ Pos(front) \in Nat /\ Pos(rear) \in Nat /\ Pos(front) <= Pos(rear)
    BY <2>3, TurnFacts, QueueAssumption
  <2> QED
    BY <1>1, <2>1, <2>2, <2>3, SaveBeside DEF MapGrows, Pos
<1> QED
  BY <1>1, <1>5, <1>6, <1>7, <1>8, <1>9, <1>10 DEF SInv

LEMMA MapInsertStep == ASSUME SInv, MapInsert PROVE SInv'
<1>1. /\ SnapTypeOK /\ SnapTypeOK' /\ LineAgrees
      /\ UNCHANGED <<clock, ringVars, front, rear, queue, taken, saverVars, disk, history, began>>
      /\ m_pc = "map" /\ m_pc' = "accept"
      /\ status' = [status EXCEPT ![clock] = 0]
      /\ front # rear /\ clock \in Items /\ queue[rear] = clock
  <2>1. SnapTypeOK /\ SnapTypeOK'
    BY TypingStep DEF SInv, SnapNext
  <2> QED
    BY <2>1 DEF MapInsert, SInv, LineAgrees, ringVars, history
<1>2. /\ status'[clock] = 0 /\ status'[clock] # NotFound
      /\ \A x \in Items \ {clock} : status'[x] = status[x]
  BY <1>1 DEF SnapTypeOK, NotFound
<1>3. MapGrows
  BY <1>2 DEF MapGrows
<1>4. Occupied' = Occupied /\ \A s \in Slot : Distance(s)' = Distance(s)
  BY <1>1 DEF Occupied, Distance, Length
<1>5. LineAgrees'
  <2>1. \A s \in Occupied : s \in Slot
    BY DEF Occupied
  <2> QED
    BY <1>1, <1>4, <2>1 DEF LineAgrees, Pending
<1>6. SlotsMapped'
  <2> SUFFICES ASSUME NEW s \in Slot PROVE Mapped(queue[s])'
    BY DEF SlotsMapped
  <2>1. queue[s] \in Items \cup {NoItem}
    BY <1>1 DEF SnapTypeOK, RingTypeOK
  <2>2. CASE s = rear
    BY <1>1, <1>2, <2>2 DEF Mapped
  <2>3. CASE s # rear
    BY <1>1, <1>3, <2>1, <2>3 DEF SInv, SlotsMapped, Mapped, MapGrows
  <2> QED
    BY <2>2, <2>3
<1>7. WaitingIsQueued'
  <2>1. Queued' = Queued /\ clock \in Queued
    BY <1>1, <1>4, RearFacts, QueuedIs, QueuedIsNext
  <2> QED
    BY <1>1, <1>2, <2>1 DEF SInv, WaitingIsQueued
<1>8. BeganAgrees'
  BY <1>1, <1>4 DEF SInv, BeganAgrees, Pending
<1>9. SaverIdle' /\ SaveAgrees' /\ FilesAgree' /\ RestoredIsKnown'
  BY <1>1, <1>3, <1>4, SameTurn
<1> QED
  BY <1>1, <1>5, <1>6, <1>7, <1>8, <1>9 DEF SInv

-----------------------------------------------------------------------------
(* The steps of the workers.                                               *)

LEMMA TakeStep == ASSUME SInv, Take PROVE SInv'
<1> DEFINE first == Succ(front)
<1>1. /\ SnapTypeOK /\ SnapTypeOK' /\ LineAgrees
      /\ UNCHANGED <<clock, m_pc, rear, queue, status, saverVars, disk, began, room, pair>>
      /\ m_pc \notin {"slot", "map"} /\ taken = NoItem
      /\ front # rear /\ front' = first /\ taken' = queue[first]
  <2>1. SnapTypeOK /\ SnapTypeOK'
    BY TypingStep DEF SInv, SnapNext
  <2> QED
    BY <2>1 DEF Take, Locked, IsEmpty, SInv, mainVars, history
<1>2. /\ front \in Slot /\ rear \in Slot /\ first \in Slot
      /\ Length \in Nat /\ Length >= 1 /\ Length' = Length - 1
      /\ Distance(first) = 1
  <2>1. front \in Slot /\ rear \in Slot /\ Length \in Nat
    BY <1>1, Parts
  <2>2. Length # 0
    BY <1>1, <2>1, DistanceFacts DEF Length
  <2> QED
    BY <1>1, <2>1, <2>2, NextSlot DEF Length, Distance
<1>3. /\ \A s \in Slot : Distance(s) \in Nat
      /\ \A s \in Slot : s # front => Distance(s)' = Distance(s) - 1
      /\ \A s \in Slot : Distance(s) = 1 <=> s = first
      /\ \A s \in Slot : Distance(s) = 0 <=> s = front
  <2> SUFFICES ASSUME NEW s \in Slot
               PROVE  /\ Distance(s) \in Nat
                      /\ s # front => Distance(s)' = Distance(s) - 1
                      /\ Distance(s) = 1 <=> s = first
                      /\ Distance(s) = 0 <=> s = front
    OBVIOUS
  <2>1. LengthOf(front, s) = LengthOf(front, first) <=> s = first
    BY <1>2, DistanceFacts
  <2>2. LengthOf(front, s) \in Nat /\ (LengthOf(front, s) = 0 <=> s = front)
    BY <1>2, DistanceFacts
  <2>3. s # front => LengthOf(Succ(front), s) = LengthOf(front, s) - 1
    BY <1>2, NextSlot
  <2> QED
    BY <1>1, <1>2, <2>1, <2>2, <2>3 DEF Distance
<1>4. /\ first \in Occupied
      /\ Occupied' = Occupied \ {first}
      /\ \A s \in Occupied' : Distance(s)' = Distance(s) - 1 /\ Distance(s) > Distance(first)
  <2>1. first \in Occupied
    <3> HIDE DEF first
    <3> QED
      BY <1>1, <1>2 DEF Occupied
  <2>2. LengthOf(front', front) = QUEUE_SIZE - 1
    BY <1>1, <1>2, SuccValue, QueueAssumption DEF LengthOf, Slot
  <2>3. Length <= QUEUE_SIZE - 1
    BY <1>1, Parts
  <2>4. ASSUME NEW s \in Slot PROVE s \in Occupied' <=> s \in Occupied \ {first}
    <3>1. CASE s = front
      <4>1. Distance(s)' = QUEUE_SIZE - 1
        BY <2>2, <3>1 DEF Distance
      <4> QED
        BY <1>2, <1>3, <2>3, <3>1, <4>1, QueueAssumption DEF Occupied
    <3>2. CASE s # front
      BY <1>1, <1>2, <1>3, <3>2 DEF Occupied
    <3> QED
      BY <3>1, <3>2
  <2>5. Occupied' = Occupied \ {first}
    BY <2>4 DEF Occupied
  <2>6. \A s \in Occupied : s \in Slot /\ s # front /\ Distance(s) >= 1
    BY <1>2, <1>3 DEF Occupied
  <2> QED
    BY <1>2, <1>3, <2>1, <2>5, <2>6
<1> HIDE DEF first
<1>5. LineAgrees'
  <2>1. \A s \in Occupied : Distance(s) \in Nat
    BY <1>3 DEF Occupied
  <2> QED
    BY <1>1, <1>4, <2>1 DEF LineAgrees, Pending
<1>6. SlotsMapped'
  BY <1>1 DEF SInv, SlotsMapped, Mapped
<1>7. WaitingIsQueued'
  <2>1. Queued \subseteq Queued' \cup {taken'}
    BY <1>1, <1>4, QueuedIs, QueuedIsNext
  <2>2. \A x \in Items : x # taken
    BY <1>1, QueueAssumption
  <2> QED
    BY <1>1, <2>1, <2>2 DEF SInv, WaitingIsQueued
<1>8. BeganAgrees'
  <2>1. \A s \in Occupied' : s \in Occupied /\ queue[first] < queue[s]
    <3>1. \A s \in Occupied' : s \in Occupied /\ Distance(first) < Distance(s)
      BY <1>3, <1>4 DEF Occupied
    <3> QED
      BY <1>1, <1>4, <3>1 DEF LineAgrees
  <2> QED
    BY <1>1, <1>4, <2>1 DEF SInv, BeganAgrees, Pending
<1>9. SaverIdle' /\ FilesAgree' /\ RestoredIsKnown'
  BY <1>1, FilesBeside DEF MapGrows
<1>10. SaveAgrees'
  <2>1. room \in Int /\ Base' = Base
    BY <1>1 DEF SnapTypeOK, Base
  <2>2. ASSUME room >= 0, SavesQueue
        PROVE  /\ room <= QUEUE_SIZE - 1
               /\ Pos(front) <= LengthOf(Base, front')
               /\ Pos(rear) <= LengthOf(Base, rear')
               /\ LengthOf(Base, front') <= LengthOf(Base, rear')
    <3>1. /\ room \in 0 .. QUEUE_SIZE - 1 /\ Base \in Slot
          /\ Pos(rear) = QUEUE_SIZE - 1 - room
          /\ Pos(front) \in Nat /\ Pos(rear) \in Nat
          /\ Length = Pos(rear) - Pos(front)
      BY <2>2, TurnFacts
    <3>2. Pos(front) < QUEUE_SIZE - 1
      BY <1>2, <3>1, QueueAssumption
    <3>3. LengthOf(Base, front') = Pos(front) + 1
      BY <1>1, <1>2, <3>1, <3>2, NextSlot DEF Pos, first
    <3> QED
      BY <1>1, <1>2, <3>1, <3>3, QueueAssumption DEF Pos
  <2> QED
    BY <1>1, <1>4, <2>1, <2>2, SaveBeside DEF MapGrows
<1> QED
  BY <1>1, <1>5, <1>6, <1>7, <1>8, <1>9, <1>10 DEF SInv

LEMMA MarkTakenStep == ASSUME SInv, MarkTaken PROVE SInv'
<1>1. /\ SnapTypeOK /\ SnapTypeOK' /\ LineAgrees
      /\ UNCHANGED <<clock, m_pc, ringVars, front, rear, queue, saverVars, disk, history, began>>
      /\ taken \in Items /\ taken' = NoItem
      /\ status' = [status EXCEPT ![taken] = 1]
  <2>1. SnapTypeOK /\ SnapTypeOK'
    BY TypingStep DEF SInv, SnapNext
  <2> QED
    BY <2>1 DEF MarkTaken, SInv, SnapTypeOK, mainVars, ringVars, history
<1>2. /\ status'[taken] = 1 /\ status'[taken] # NotFound
      /\ \A x \in Items \ {taken} : status'[x] = status[x]
  BY <1>1 DEF SnapTypeOK, NotFound
<1>3. MapGrows
  BY <1>2 DEF MapGrows
<1>4. Occupied' = Occupied /\ \A s \in Slot : Distance(s)' = Distance(s)
  BY <1>1 DEF Occupied, Distance, Length
<1>5. LineAgrees'
  <2>1. \A s \in Occupied : s \in Slot
    BY DEF Occupied
  <2> QED
    BY <1>1, <1>4, <2>1 DEF LineAgrees, Pending
<1>6. SlotsMapped'
  <2> SUFFICES ASSUME NEW s \in Slot, ~(m_pc = "map" /\ s = rear) PROVE Mapped(queue[s])'
    BY <1>1 DEF SlotsMapped
  <2>1. queue[s] \in Items \cup {NoItem}
    BY <1>1 DEF SnapTypeOK, RingTypeOK
  <2> QED
    BY <1>1, <1>3, <2>1 DEF SInv, SlotsMapped, Mapped, MapGrows
<1>7. WaitingIsQueued'
  <2>1. Queued' = Queued
    BY <1>1, <1>4, QueuedIs, QueuedIsNext
  <2> QED
    BY <1>1, <1>2, <2>1 DEF SInv, WaitingIsQueued
<1>8. BeganAgrees'
  BY <1>1, <1>4 DEF SInv, BeganAgrees, Pending
<1>9. SaverIdle' /\ SaveAgrees' /\ FilesAgree' /\ RestoredIsKnown'
  BY <1>1, <1>3, <1>4, SameTurn
<1> QED
  BY <1>1, <1>5, <1>6, <1>7, <1>8, <1>9 DEF SInv

-----------------------------------------------------------------------------
(* The steps of the saver, which leave the ring and the map alone.         *)

LEMMA RingBeside ==
  ASSUME SInv, SnapTypeOK', UNCHANGED <<mainVars, memory>>
  PROVE  /\ UNCHANGED <<clock, m_pc, front, rear, queue, taken, status>>
         /\ Occupied' = Occupied /\ Queued' = Queued
         /\ LineAgrees' /\ SlotsMapped' /\ WaitingIsQueued'
         /\ began' \in {began, {}} => BeganAgrees'
<1>1. UNCHANGED <<clock, m_pc, front, rear, queue, taken, status>>
  BY DEF mainVars, memory, ringVars
<1>2. Occupied' = Occupied /\ \A s \in Occupied : Distance(s)' = Distance(s)
  BY <1>1 DEF Occupied, Distance, Length
<1>3. Queued' = Queued
  BY <1>1, <1>2, QueuedIs, QueuedIsNext DEF SInv
<1>4. LineAgrees'
  BY <1>1, <1>2 DEF SInv, LineAgrees, Pending
<1>5. SlotsMapped' /\ WaitingIsQueued'
  BY <1>1, <1>3 DEF SInv, SlotsMapped, Mapped, WaitingIsQueued
<1>6. ASSUME began' \in {began, {}} PROVE BeganAgrees'
  BY <1>1, <1>2, <1>6 DEF SInv, BeganAgrees, Pending
<1> QED
  BY <1>1, <1>2, <1>3, <1>4, <1>5, <1>6

LEMMA FilesSame ==
  ASSUME UNCHANGED disk
  PROVE  UNCHANGED <<qfile, mfile, Restored(qfile), loadMapFromFile(mfile)>>
  BY DEF disk, Restored, loadQueueFromFile, Line, loadMapFromFile

LEMMA OpenQueueFileStep == ASSUME SInv, OpenQueueFile PROVE SInv'
<1>1. /\ SnapTypeOK /\ SnapTypeOK' /\ LineAgrees
      /\ UNCHANGED <<mainVars, memory, head, s_i, lines, written, known, mfile>>
      /\ s_pc = "sleep" /\ s_pc' = "header" /\ s_home' = AtHome
      /\ IF AtHome THEN pair' = "none" ELSE UNCHANGED <<qfile, pair>>
      /\ began' = Queued /\ room' = QUEUE_SIZE - 1 - Length
  <2>1. SnapTypeOK /\ SnapTypeOK'
    BY TypingStep DEF SInv, SnapNext, SaverStep
  <2> QED
    BY <2>1 DEF OpenQueueFile, SaverAt, SInv
<1>2. /\ UNCHANGED <<clock, m_pc, front, rear, queue, taken, status>>
      /\ Occupied' = Occupied
      /\ LineAgrees' /\ SlotsMapped' /\ WaitingIsQueued'
  BY <1>1, RingBeside
<1>3. BeganAgrees'
  <2>1. began' = {queue[s] : s \in Occupied}
    BY <1>1, QueuedIs
  <2> QED
    BY <1>1, <1>2, <2>1 DEF LineAgrees, BeganAgrees, Pending
<1>4. SaverIdle'
  BY <1>1 DEF SInv, SaverIdle
<1>5. SaveAgrees'
  <2>1. front \in Slot /\ rear \in Slot /\ Length \in Nat /\ Length <= QUEUE_SIZE - 1
    BY <1>1, Parts
  <2>2. room' \in 0 .. QUEUE_SIZE - 1 /\ QUEUE_SIZE - 1 - room' = Length
    BY <1>1, <2>1, QueueAssumption
  <2>3. Base' \in Slot /\ LengthOf(Base', rear) = LengthOf(front, rear)
    BY <1>2, <2>1, <2>2, BaseFacts DEF Base, Length
  <2>4. Base' = front
    BY <2>1, <2>3, SameDistance
  <2>5. Pos(front)' = 0 /\ Pos(rear)' \in Nat
    BY <1>2, <2>1, <2>4, DistanceFacts DEF Pos
  <2>6. InOneTurn'
    BY <2>2, <2>5, QueueAssumption DEF InOneTurn
  <2>7. HeadAgrees'
    BY <1>1 DEF SInv, SaverIdle, NoHead, HeadAgrees
  <2> QED
    BY <1>1, <2>6, <2>7 DEF SaveAgrees, InLoop
<1>6. FilesAgree' /\ RestoredIsKnown'
  <2>1. CASE AtHome
    BY <1>1, <2>1 DEF FilesAgree, RestoredIsKnown
  <2>2. CASE ~AtHome
    <3>1. UNCHANGED <<Restored(qfile), loadMapFromFile(mfile), loadMapFromFile(status)>>
      BY <1>1, <1>2, <2>2 DEF Restored, loadQueueFromFile, Line, loadMapFromFile
    <3> QED
      BY <1>1, <2>2, <3>1 DEF SInv, FilesAgree, RestoredIsKnown
  <2> QED
    BY <2>1, <2>2
<1> QED
  BY <1>1, <1>2, <1>3, <1>4, <1>5, <1>6 DEF SInv

(* A step within saveQueueToFile.                                          *)
LEMMA WithinSave ==
  ASSUME SInv, SnapTypeOK', UNCHANGED <<mainVars, memory, s_home, written, known, disk, history>>,
         SavesQueue, SavesQueue', SaverIdle',
         room >= 0 => HeadAgrees' /\ (InLoop' => LoopAgrees')
  PROVE  SInv'
<1>1. /\ UNCHANGED <<front, rear, room, began, pair, status>>
      /\ LineAgrees' /\ SlotsMapped' /\ WaitingIsQueued' /\ BeganAgrees'
  BY RingBeside DEF history
<1>2. SaveAgrees'
  <2>1. Base' = Base
    BY <1>1 DEF Base
  <2> QED
    BY <1>1, <2>1 DEF SInv, SaveAgrees, InOneTurn, Pos
<1>3. FilesAgree'
  BY <1>1, FilesSame DEF SInv, FilesAgree, SavesQueue, loadMapFromFile
<1>4. RestoredIsKnown'
  BY <1>1, FilesSame DEF SInv, RestoredIsKnown
<1> QED
  BY <1>1, <1>2, <1>3, <1>4 DEF SInv

LEMMA ReadHeadStep == ASSUME SInv, ReadHead PROVE SInv'
<1>1. /\ SnapTypeOK /\ SnapTypeOK' /\ LineAgrees /\ SaverIdle
      /\ UNCHANGED <<mainVars, memory, s_home, s_i, lines, written, known, disk, history>>
      /\ s_pc = "header" /\ s_pc' \in {"header", "loop"}
      /\ s_pc' = "loop" => head'.front # Unread /\ head'.rear # Unread
      /\ \/ head' = [head EXCEPT !.front = front]
         \/ head' = [head EXCEPT !.rear = rear]
  <2>1. SnapTypeOK /\ SnapTypeOK'
    BY TypingStep DEF SInv, SnapNext, SaverStep
  <2> QED
    BY <2>1 DEF ReadHead, SaverAt, SInv
<1>2. /\ UNCHANGED <<front, rear, queue, room, began>> /\ Occupied' = Occupied
  BY <1>1, RingBeside DEF history
<1>3. SaverIdle'
  BY <1>1 DEF SaverIdle
<1>4. SavesQueue /\ SavesQueue' /\ ~InLoop'
  BY <1>1 DEF SavesQueue, InLoop
<1>5. ASSUME room >= 0 PROVE HeadAgrees'
  <2>1. /\ HeadAgrees /\ Pos(front) \in Nat /\ Pos(rear) \in Nat
        /\ \A s \in Occupied : Pos(s) <= Pos(rear)
    BY <1>4, <1>5, TurnFacts DEF SInv, SaveAgrees
  <2>2. Base' = Base /\ Pos(front)' = Pos(front) /\ Pos(rear)' = Pos(rear)
    BY <1>2 DEF Base, Pos
  <2>3. CASE head' = [head EXCEPT !.front = front]
    <3>1. head'.front = front /\ head'.rear = head.rear
      BY <1>1, <2>3 DEF SnapTypeOK
    <3> QED
      BY <1>2, <2>1, <2>2, <3>1 DEF HeadAgrees, Passed, Pos
  <2>4. CASE head' = [head EXCEPT !.rear = rear]
    <3>1. head'.front = head.front /\ head'.rear = rear
      BY <1>1, <2>4 DEF SnapTypeOK
    <3> QED
      BY <1>2, <2>1, <2>2, <3>1 DEF HeadAgrees, Passed, Pos
  <2> QED
    BY <1>1, <2>3, <2>4
<1> QED
  BY <1>1, <1>3, <1>4, <1>5, WithinSave

(* A step that leaves the first line alone.                                *)
LEMMA SameHead ==
  ASSUME SInv, SnapTypeOK', UNCHANGED <<mainVars, memory, head, history>>
  PROVE  /\ UNCHANGED <<front, rear, queue, room, began, status, Base, Occupied>>
         /\ UNCHANGED <<Pos(front), Pos(rear), Pos(head.front), Pos(head.rear)>>
         /\ \A s \in Slot : Pos(s)' = Pos(s)
         /\ HeadAgrees => HeadAgrees'
<1>1. UNCHANGED <<front, rear, queue, room, began, status, head>> /\ Occupied' = Occupied
  BY RingBeside DEF history
<1>2. Base' = Base
  BY <1>1 DEF Base
<1>3. /\ UNCHANGED <<Pos(front), Pos(rear), Pos(head.front), Pos(head.rear)>>
      /\ \A s \in Slot : Pos(s)' = Pos(s)
  BY <1>1, <1>2 DEF Pos
<1>4. HeadAgrees => HeadAgrees'
  BY <1>1, <1>2, <1>3 DEF HeadAgrees, Passed, Pos
<1> QED
  BY <1>1, <1>2, <1>3, <1>4

LEMMA EnterLoopStep == ASSUME SInv, EnterLoop PROVE SInv'
<1>1. /\ SnapTypeOK /\ SnapTypeOK' /\ LineAgrees /\ SaverIdle
      /\ UNCHANGED <<mainVars, memory, s_home, head, lines, written, known, disk, history>>
      /\ s_pc = "loop" /\ s_pc' = "test" /\ s_i' = front
  <2>1. SnapTypeOK /\ SnapTypeOK'
    BY TypingStep DEF SInv, SnapNext, SaverStep
  <2> QED
    BY <2>1 DEF EnterLoop, SaverAt, SInv
<1>2. SavesQueue /\ SavesQueue' /\ SaverIdle' /\ lines = <<>> /\ head.front # Unread
  BY <1>1 DEF SavesQueue, SaverIdle
<1>3. ASSUME room >= 0 PROVE HeadAgrees' /\ LoopAgrees'
  <2>1. /\ HeadAgrees /\ Pos(front) \in Nat /\ Pos(rear) \in Nat /\ Pos(front) <= Pos(rear)
        /\ \A s \in Occupied : s \in Slot /\ Pos(s) \in Nat /\ Pos(front) < Pos(s)
    BY <1>2, <1>3, TurnFacts DEF SInv, SaveAgrees
  <2>2. /\ UNCHANGED <<front, rear, queue, Base, Occupied, Pos(front), Pos(rear), Pos(head.front)>>
        /\ \A s \in Slot : Pos(s)' = Pos(s)
        /\ HeadAgrees'
    BY <1>1, <2>1, SameHead
  <2>3. Pos(s_i)' = Pos(front) /\ First' = Pos(front) /\ Len(lines') = 0
    BY <1>1, <1>2, <2>1, <2>2 DEF Pos, First
  <2>4. Pos(head.front)' <= Pos(front)
    BY <1>2, <2>1, <2>2 DEF HeadAgrees
  <2>5. \A s \in Occupied' : ~(Pos(s)' < Pos(s_i)')
    BY <2>1, <2>2, <2>3
  <2> QED
    BY <1>1, <2>1, <2>2, <2>3, <2>4, <2>5 DEF LoopAgrees
<1> QED
  BY <1>1, <1>2, <1>3, WithinSave

LEMMA TestLoopStep == ASSUME SInv, TestLoop PROVE SInv'
<1>1. /\ SnapTypeOK /\ SnapTypeOK' /\ LineAgrees /\ SaverIdle
      /\ UNCHANGED <<mainVars, memory, s_home, head, s_i, lines, written, known, disk, history>>
      /\ s_pc = "test" /\ s_pc' = IF s_i = rear THEN "close" ELSE "line"
  <2>1. SnapTypeOK /\ SnapTypeOK'
    BY TypingStep DEF SInv, SnapNext, SaverStep
  <2> QED
    BY <2>1 DEF TestLoop, SaverAt, SInv
<1>2. SavesQueue /\ SavesQueue' /\ SaverIdle' /\ InLoop
  BY <1>1 DEF SavesQueue, SaverIdle, InLoop
<1>3. ASSUME room >= 0 PROVE HeadAgrees' /\ LoopAgrees'
  <2>1. /\ HeadAgrees /\ LoopAgrees
        /\ Base \in Slot /\ rear \in Slot /\ s_i \in Slot
        /\ Pos(rear) \in Nat /\ Pos(s_i) \in Nat /\ Pos(s_i) <= Pos(rear)
        /\ \A s \in Occupied : s \in Slot /\ Pos(s) <= Pos(rear)
    BY <1>2, <1>3, TurnFacts DEF SInv, SaveAgrees, LoopAgrees
  <2>2. /\ UNCHANGED <<front, rear, queue, began, status, Base, Occupied>>
        /\ UNCHANGED <<Pos(front), Pos(rear), Pos(head.front)>>
        /\ \A s \in Slot : Pos(s)' = Pos(s)
        /\ HeadAgrees'
    BY <1>1, <2>1, SameHead
  <2>3. Pos(s_i)' = Pos(s_i) /\ First' = First
    BY <1>1, <2>2 DEF Pos, First
  <2>4. s_i # rear => Pos(s_i) < Pos(rear)
    BY <2>1, DistanceFacts DEF Pos
  <2>5. s_i = rear => Passed(Pos(s_i))'
    BY <1>1, <2>1, <2>2, <2>3 DEF Passed
  <2> QED
    BY <1>1, <2>1, <2>2, <2>3, <2>4, <2>5 DEF LoopAgrees, Mapped
<1> QED
  BY <1>1, <1>2, <1>3, WithinSave

LEMMA WriteLineStep == ASSUME SInv, WriteLine PROVE SInv'
<1>1. /\ SnapTypeOK /\ SnapTypeOK' /\ LineAgrees /\ SaverIdle
      /\ UNCHANGED <<mainVars, memory, s_home, head, written, known, disk, history>>
      /\ s_pc = "line" /\ s_pc' = "test"
      /\ lines' = Append(lines, queue[s_i]) /\ s_i' = Succ(s_i)
  <2>1. SnapTypeOK /\ SnapTypeOK'
    BY TypingStep DEF SInv, SnapNext, SaverStep
  <2> QED
    BY <2>1 DEF WriteLine, SaverAt, SInv
<1>2. SavesQueue /\ SavesQueue' /\ SaverIdle' /\ InLoop
  BY <1>1 DEF SavesQueue, SaverIdle, InLoop
<1>3. ASSUME room >= 0 PROVE HeadAgrees' /\ LoopAgrees'
  <2>1. /\ HeadAgrees /\ LoopAgrees
        /\ Base \in Slot /\ rear \in Slot /\ s_i \in Slot
        /\ Pos(rear) \in Nat /\ Pos(s_i) \in Nat /\ Pos(s_i) < Pos(rear)
        /\ Pos(rear) <= QUEUE_SIZE - 1
        /\ Pos(front) \in Nat
        /\ \A s \in Occupied : s \in Slot /\ Pos(s) \in Nat /\ Pos(front) < Pos(s)
    BY <1>1, <1>2, <1>3, TurnFacts, QueueAssumption DEF SInv, SaveAgrees, LoopAgrees
  <2>2. /\ UNCHANGED <<front, rear, queue, began, status, Base, Occupied>>
        /\ UNCHANGED <<Pos(front), Pos(rear), Pos(head.front)>>
        /\ \A s \in Slot : Pos(s)' = Pos(s)
        /\ HeadAgrees'
    BY <1>1, <2>1, SameHead
  <2>3. /\ Len(lines) \in Nat /\ Len(lines') = Len(lines) + 1
        /\ \A n \in 1 .. Len(lines) : lines'[n] = lines[n]
        /\ lines'[Len(lines) + 1] = queue[s_i]
    <3>1. queue[s_i] \in Items \cup {NoItem} /\ lines \in Seq(Items \cup {NoItem})
      BY <1>1 DEF SnapTypeOK, RingTypeOK
    <3> QED
      BY <1>1, <3>1
  <2>4. Pos(s_i)' = Pos(s_i) + 1
    <3>1. LengthOf(Base, Succ(s_i)) = Pos(s_i) + 1
      BY <2>1, NextSlot, QueueAssumption DEF Pos
    <3> QED
      BY <1>1, <2>2, <3>1 DEF Pos
  <2>5. First' = First /\ First \in Int /\ First <= Pos(front)
    BY <2>1, <2>3, <2>4 DEF First, LoopAgrees
  <2>6. ASSUME NEW s \in Occupied, Pos(s) < Pos(s_i) + 1
        PROVE  lines'[Pos(s) - First + 1] = queue[s]
    <3>1. CASE Pos(s) = Pos(s_i)
      <4>1. s = s_i
        BY <2>1, <3>1, DistanceFacts DEF Pos
      <4>2. Pos(s) - First + 1 = Len(lines) + 1
        BY <2>1, <2>3, <3>1 DEF First
      <4> QED
        BY <2>3, <4>1, <4>2
    <3>2. CASE Pos(s) < Pos(s_i)
      <4>1. lines[Pos(s) - First + 1] = queue[s]
        BY <2>1, <3>2 DEF LoopAgrees
      <4>2. Pos(s) - First + 1 \in 1 .. Len(lines)
        BY <2>1, <2>3, <2>5, <3>2 DEF First
      <4> QED
        BY <2>3, <4>1, <4>2
    <3> QED
      BY <2>1, <2>6, <3>1, <3>2
  <2>7. ASSUME NEW n \in 1 .. Len(lines') PROVE Mapped(lines'[n])
    <3>1. CASE n \in 1 .. Len(lines)
      BY <2>1, <2>3, <3>1 DEF LoopAgrees
    <3>2. CASE n = Len(lines) + 1
      <4>1. s_i # rear
        BY <2>1
      <4> QED
        BY <2>1, <2>3, <3>2, <4>1 DEF SInv, SlotsMapped
    <3> QED
      BY <2>3, <3>1, <3>2
  <2>8. \A s \in Occupied' : Pos(s)' < Pos(s_i)' => lines'[Pos(s)' - First' + 1] = queue'[s]
    BY <2>1, <2>2, <2>4, <2>5, <2>6
  <2>9. \A n \in 1 .. Len(lines') : lines'[n] = NoItem \/ status'[lines'[n]] # NotFound
    BY <2>2, <2>7 DEF Mapped
  <2>10. /\ Pos(s_i)' <= Pos(rear)'
         /\ Pos(head.front)' <= First' /\ First' <= Pos(front)'
    BY <2>1, <2>2, <2>4, <2>5 DEF LoopAgrees
  <2>11. (\A n \in 1 .. Len(lines) : Mapped(lines[n]))'
    BY <2>9 DEF Mapped
  <2> QED
    BY <1>1, <2>2, <2>8, <2>10, <2>11 DEF LoopAgrees
<1> QED
  BY <1>1, <1>2, <1>3, WithinSave

(* What is in the buffer at the end is of this process's map.              *)
LEMMA BufferedLines ==
  ASSUME SInv, s_pc = "close"
  PROVE  /\ Buffered.head.front \in Slot /\ Buffered.head.rear \in Slot
         /\ Buffered.head = head /\ Buffered.lines = lines
         /\ lines \in Seq(Items \cup {NoItem})
         /\ room >= 0 => Restored(Buffered) \subseteq loadMapFromFile(status)
<1>1. /\ Buffered.head.front \in Slot /\ Buffered.head.rear \in Slot
      /\ Buffered.head = head /\ Buffered.lines = lines
      /\ lines \in Seq(Items \cup {NoItem})
  BY DEF Buffered, SInv, SnapTypeOK, SaverIdle
<1>2. ASSUME room >= 0, NEW x \in Restored(Buffered)
      PROVE  x \in loadMapFromFile(status)
  <2>1. PICK n \in 1 .. Len(lines) : x = lines[n] /\ x # NoItem
    BY <1>1, <1>2, RestoredLines
  <2>2. Mapped(lines[n])
    BY <1>2 DEF SInv, SaveAgrees, SavesQueue, InLoop, LoopAgrees
  <2>3. lines[n] \in Items \cup {NoItem}
    BY <1>1
  <2> QED
    BY <2>1, <2>2, <2>3 DEF Mapped, loadMapFromFile
<1> QED
  BY <1>1, <1>2

LEMMA CloseQueueFileStep == ASSUME SInv, CloseQueueFile PROVE SInv'
<1>1. /\ SnapTypeOK /\ SnapTypeOK' /\ FilesAgree /\ RestoredIsKnown
      /\ UNCHANGED <<mainVars, memory, s_home, written, known, mfile>>
      /\ s_pc = "close" /\ s_pc' = "open"
      /\ qfile' = IF s_home THEN Buffered ELSE qfile
      /\ pair' = IF s_home /\ room >= 0 THEN "queue" ELSE pair
      /\ head' = NoHead /\ lines' = <<>> /\ began' = {}
  <2>1. SnapTypeOK /\ SnapTypeOK'
    BY TypingStep DEF SInv, SnapNext, SaverStep
  <2> QED
    BY <2>1 DEF CloseQueueFile, SaverAt, SInv
<1>2. /\ LineAgrees' /\ SlotsMapped' /\ WaitingIsQueued' /\ BeganAgrees' /\ status' = status
  BY <1>1, RingBeside
<1>3. SaverIdle' /\ SaveAgrees' /\ SavesQueue
  BY <1>1 DEF SaverIdle, SaveAgrees, SavesQueue
<1>4. FilesAgree' /\ RestoredIsKnown'
  <2>1. CASE s_home /\ room >= 0
    <3>1. pair' = "queue" /\ qfile' = Buffered
      BY <1>1, <2>1
    <3>2. Restored(Buffered) \subseteq loadMapFromFile(status)
      BY <1>1, <2>1, BufferedLines
    <3>3. Restored(qfile)' \subseteq loadMapFromFile(status)'
      BY <1>2, <3>1, <3>2 DEF Restored, loadQueueFromFile, Line, loadMapFromFile
    <3> QED
      BY <1>1, <3>1, <3>3 DEF FilesAgree, RestoredIsKnown, SavesQueue
  <2>2. CASE s_home /\ ~(room >= 0)
    <3>1. pair' = "none"
      BY <1>1, <1>3, <2>2 DEF FilesAgree
    <3> QED
      BY <1>1, <3>1 DEF FilesAgree, RestoredIsKnown, SavesQueue
  <2>3. CASE ~s_home
    <3>1. UNCHANGED <<pair, disk>>
      BY <1>1, <2>3 DEF disk
    <3> QED
      BY <1>1, <1>2, <2>3, <3>1, FilesSame DEF FilesAgree, RestoredIsKnown, loadMapFromFile
  <2> QED
    BY <2>1, <2>2, <2>3
<1> QED
  BY <1>1, <1>2, <1>3, <1>4 DEF SInv

(* A step outside saveQueueToFile.                                         *)
LEMMA OutsideSave ==
  ASSUME SInv, SnapTypeOK', UNCHANGED <<mainVars, memory, head, lines, qfile, began>>,
         s_pc \in {"sleep", "open", "map"}, s_pc' \in {"sleep", "open", "map"},
         FilesAgree', RestoredIsKnown'
  PROVE  SInv'
<1>1. LineAgrees' /\ SlotsMapped' /\ WaitingIsQueued' /\ BeganAgrees'
  BY RingBeside
<1>2. SaverIdle' /\ SaveAgrees'
  BY DEF SInv, SaverIdle, SaveAgrees, SavesQueue
<1> QED
  BY <1>1, <1>2 DEF SInv

LEMMA FileFailsStep == ASSUME SInv, QueueFileFails \/ MapFileFails PROVE SInv'
<1>1. /\ SnapTypeOK'
      /\ UNCHANGED <<mainVars, memory, s_home, head, lines, known, disk>>
      /\ UNCHANGED <<began, pair, status, qfile>>
      /\ s_pc \in {"sleep", "open", "map"} /\ s_pc' \in {"sleep", "open"}
  <2>1. SnapTypeOK'
    BY TypingStep DEF SInv, SnapNext, SaverStep
  <2> QED
    BY <2>1 DEF QueueFileFails, MapFileFails, SaverAt, memory, history, disk
<1>2. FilesAgree' /\ RestoredIsKnown'
  BY <1>1, FilesSame DEF SInv, FilesAgree, RestoredIsKnown, SavesQueue, loadMapFromFile
<1> QED
  BY <1>1, <1>2, OutsideSave

LEMMA OpenMapFileStep == ASSUME SInv, OpenMapFile PROVE SInv'
<1>1. /\ SnapTypeOK' /\ FilesAgree /\ RestoredIsKnown
      /\ UNCHANGED <<mainVars, memory, head, lines, began, qfile, status>>
      /\ s_pc = "open" /\ s_pc' = "map" /\ s_home' = AtHome
      /\ known' = loadMapFromFile(status)
  <2>1. SnapTypeOK'
    BY TypingStep DEF SInv, SnapNext, SaverStep
  <2> QED
    BY <2>1 DEF OpenMapFile, SaverAt, memory, SInv, loadMapFromFile
<1>2. Restored(qfile)' = Restored(qfile) /\ loadMapFromFile(status)' = loadMapFromFile(status)
  BY <1>1 DEF Restored, loadQueueFromFile, Line, loadMapFromFile
<1>3. FilesAgree' /\ RestoredIsKnown'
  <2>1. CASE AtHome
    <3>1. pair' \in {"none", "queue"} /\ (pair' = "queue" => pair \in {"queue", "both"})
      BY <2>1 DEF OpenMapFile, SInv, SnapTypeOK
    <3> QED
      BY <1>1, <1>2, <3>1 DEF FilesAgree, RestoredIsKnown, SavesQueue
  <2>2. CASE ~AtHome
    <3>1. UNCHANGED <<pair, mfile>>
      BY <2>2 DEF OpenMapFile
    <3>2. loadMapFromFile(mfile)' = loadMapFromFile(mfile)
      BY <3>1 DEF loadMapFromFile
    <3> QED
      BY <1>1, <1>2, <2>2, <3>1, <3>2 DEF FilesAgree, RestoredIsKnown, SavesQueue
  <2> QED
    BY <2>1, <2>2
<1> QED
  BY <1>1, <1>3, OutsideSave

LEMMA WriteMapLineStep == ASSUME SInv, NEW x \in Items, WriteMapLine(x) PROVE SInv'
<1>1. /\ SnapTypeOK' /\ FilesAgree /\ RestoredIsKnown
      /\ UNCHANGED <<mainVars, memory, s_home, head, lines, began, pair, known, qfile, status>>
      /\ s_pc = "map" /\ s_pc' = "map"
      /\ s_home \/ UNCHANGED mfile
  <2>1. SnapTypeOK'
    BY TypingStep DEF SInv, SnapNext, SaverStep
  <2> QED
    BY <2>1 DEF WriteMapLine, SaverAt, memory, history, SInv
<1>2. Restored(qfile)' = Restored(qfile) /\ loadMapFromFile(status)' = loadMapFromFile(status)
  BY <1>1 DEF Restored, loadQueueFromFile, Line, loadMapFromFile
<1>3. ~s_home => loadMapFromFile(mfile)' = loadMapFromFile(mfile)
  BY <1>1 DEF loadMapFromFile
<1>4. FilesAgree' /\ RestoredIsKnown'
  BY <1>1, <1>2, <1>3 DEF FilesAgree, RestoredIsKnown, SavesQueue
<1> QED
  BY <1>1, <1>4, OutsideSave

LEMMA CloseMapFileStep == ASSUME SInv, CloseMapFile PROVE SInv'
<1>1. /\ SnapTypeOK /\ SnapTypeOK' /\ FilesAgree /\ RestoredIsKnown
      /\ UNCHANGED <<mainVars, memory, head, lines, began, qfile, status>>
      /\ s_pc = "map" /\ s_pc' = "sleep"
      /\ \A x \in known : written[x] # NotFound
      /\ mfile' = IF s_home THEN written ELSE mfile
      /\ pair' = IF s_home /\ pair = "queue" THEN "both" ELSE pair
  <2>1. SnapTypeOK /\ SnapTypeOK'
    BY TypingStep DEF SInv, SnapNext, SaverStep
  <2> QED
    BY <2>1 DEF CloseMapFile, SaverAt, memory, SInv
<1>2. Restored(qfile)' = Restored(qfile) /\ loadMapFromFile(status)' = loadMapFromFile(status)
  BY <1>1 DEF Restored, loadQueueFromFile, Line, loadMapFromFile
<1>3. IF s_home THEN known \subseteq loadMapFromFile(mfile)'
               ELSE loadMapFromFile(mfile)' = loadMapFromFile(mfile)
  BY <1>1 DEF SnapTypeOK, loadMapFromFile
<1>4. FilesAgree' /\ RestoredIsKnown'
  BY <1>1, <1>2, <1>3 DEF FilesAgree, RestoredIsKnown, SavesQueue
<1> QED
  BY <1>1, <1>4, OutsideSave

-----------------------------------------------------------------------------
(* The start, and the invariant.                                           *)

LEMMA StartState ==
  ASSUME SnapTypeOK', front' = 0, rear' = 0, queue' = [s \in Slot |-> NoItem], status' = NoStatus,
         m_pc' = "accept", s_pc' = "sleep", head' = NoHead, lines' = <<>>, began' = {},
         pair' \in {"none", "old"}, RestoredIsKnown'
  PROVE  SInv'
<1>1. Occupied' = {}
  BY QueueAssumption DEF Occupied, Distance, Length, LengthOf
<1>2. \A x \in Items : status'[x] = NotFound
  BY DEF NoStatus
<1>3. LineAgrees' /\ BeganAgrees'
  BY <1>1 DEF LineAgrees, BeganAgrees
<1>4. SlotsMapped' /\ WaitingIsQueued'
  BY <1>2 DEF SlotsMapped, Mapped, WaitingIsQueued, NotFound
<1>5. SaverIdle' /\ SaveAgrees' /\ FilesAgree'
  BY DEF SaverIdle, SaveAgrees, SavesQueue, FilesAgree
<1> QED
  BY <1>3, <1>4, <1>5 DEF SInv

LEMMA SInvInit == SnapInit => SInv
<1> SUFFICES ASSUME SnapInit PROVE SInv
  OBVIOUS
<1>1. Occupied = {}
  BY QueueAssumption DEF SnapInit, RingInit, Occupied, Distance, Length, LengthOf
<1>2. \A x \in Items : status[x] = NotFound
  BY DEF SnapInit, NoStatus
<1>3. LineAgrees /\ BeganAgrees
  BY <1>1 DEF SnapInit, LineAgrees, BeganAgrees
<1>4. SlotsMapped /\ WaitingIsQueued
  BY <1>2 DEF SnapInit, RingInit, SlotsMapped, Mapped, WaitingIsQueued, NotFound
<1>5. SaverIdle /\ SaveAgrees /\ FilesAgree /\ RestoredIsKnown
  BY DEF SnapInit, SaverIdle, SaveAgrees, SavesQueue, FilesAgree, RestoredIsKnown
<1> QED
  BY <1>3, <1>4, <1>5, InitTyping DEF SInv

(* The end of a process leaves both files of a pair as they are.           *)
LEMMA EndStep == ASSUME SInv, Killed \/ MainReturns PROVE SInv'
<1>1. SnapTypeOK' /\ Start /\ Stop
  <2>1. SnapTypeOK'
    BY TypingStep DEF SInv, SnapNext
  <2> QED
    BY <2>1 DEF Killed, MainReturns
<1>2. pair' \in {"none", "old"} /\ (pair' = "old" => pair \in {"both", "old"})
  BY <1>1 DEF Stop
<1>3. ASSUME pair \in {"both", "old"} PROVE UNCHANGED disk
  <2>1. ~(s_home /\ SavesQueue) /\ ~(s_home /\ s_pc = "map")
    BY <1>3 DEF SInv, FilesAgree
  <2> QED
    BY <2>1 DEF Killed, MainReturns, SavesQueue, disk
<1>4. RestoredIsKnown'
  BY <1>2, <1>3, FilesSame DEF SInv, RestoredIsKnown
<1> QED
  BY <1>1, <1>2, <1>4, StartState DEF Start, StartWith

LEMMA SInvStep == SInv /\ [SnapNext]_snapVars => SInv'
<1> SUFFICES ASSUME SInv, [SnapNext]_snapVars PROVE SInv'
  OBVIOUS
<1>1. CASE UploadStart \/ UploadEnd
  BY <1>1, UploadStep
<1>2. CASE AdvanceRear \/ WriteSlot \/ MapInsert
  BY <1>2, AdvanceRearStep, WriteSlotStep, MapInsertStep
<1>3. CASE Take \/ MarkTaken
  BY <1>3, TakeStep, MarkTakenStep
<1>4. CASE SaverStep
  <2>1. CASE OpenQueueFile \/ ReadHead \/ EnterLoop
    BY <2>1, OpenQueueFileStep, ReadHeadStep, EnterLoopStep
  <2>2. CASE TestLoop \/ WriteLine \/ CloseQueueFile
    BY <2>2, TestLoopStep, WriteLineStep, CloseQueueFileStep
  <2>3. CASE QueueFileFails \/ MapFileFails \/ OpenMapFile \/ CloseMapFile
    BY <2>3, FileFailsStep, OpenMapFileStep, CloseMapFileStep
  <2>4. ASSUME NEW x \in Items, WriteMapLine(x) PROVE SInv'
    BY <2>4, WriteMapLineStep
  <2> QED
    BY <1>4, <2>1, <2>2, <2>3, <2>4 DEF SaverStep
<1>5. CASE Killed \/ MainReturns
  BY <1>5, EndStep
<1>6. CASE UNCHANGED snapVars
  <2>1. /\ UNCHANGED <<mainVars, memory, ringVars, saverVars, disk, history, s_home>>
        /\ SnapTypeOK'
    BY <1>6, TypingStep DEF SInv, snapVars, memory, saverVars
  <2>2. MapGrows /\ Occupied' = Occupied /\ began' = began
    BY <2>1, RingBeside DEF MapGrows, history, memory
  <2> QED
    BY <2>1, <2>2, RingBeside, SameTurn DEF SInv
<1> QED
  BY <1>1, <1>2, <1>3, <1>4, <1>5, <1>6 DEF SnapNext

-----------------------------------------------------------------------------
(* What a complete save has.                                               *)

(* A ticket with an older one of the save behind it was read by the loop,  *)
(* and the first line makes the length long enough for it.                 *)
LEMMA SaveKeeps == SInv => SaveKeepsWaiting
<1> SUFFICES ASSUME SInv, s_pc = "close", room >= 0,
                    NEW x \in began, NEW y \in began, x < y, x \in Queued
             PROVE  x \in Restored(Buffered)
  BY DEF SaveKeepsWaiting, AllButNewest
<1>1. SnapTypeOK /\ SavesQueue /\ LineAgrees /\ HeadAgrees /\ LoopAgrees
  BY DEF SInv, SaveAgrees, SavesQueue, InLoop
<1>2. PICK s \in Occupied : x = queue[s]
  BY <1>1, QueuedIs
<1>3. /\ x \in Nat /\ y \in Nat /\ x \in Items
      /\ \A t \in Occupied : queue[t] \in Nat
  BY <1>1, ItemsAre DEF SnapTypeOK, LineAgrees
<1>4. PICK t \in Occupied : y = queue[t]
  <2>1. ~(y < x)
    BY <1>3
  <2> QED
    BY <1>2, <2>1 DEF SInv, BeganAgrees
<1>5. /\ Base \in Slot /\ Pos(front) \in Nat /\ Pos(s_i) \in Nat
      /\ s \in Slot /\ t \in Slot /\ Pos(s) \in Nat /\ Pos(t) \in Nat
      /\ Pos(s) = Pos(front) + Distance(s) /\ Pos(t) = Pos(front) + Distance(t)
      /\ Pos(front) < Pos(s)
      /\ Distance(s) \in Nat /\ Distance(t) \in Nat
  BY <1>1, TurnFacts, Parts, DistanceFacts DEF Distance
<1>6. Pos(s) < Pos(t)
  <2>1. ~(Distance(t) < Distance(s))
    BY <1>1, <1>2, <1>3, <1>4 DEF LineAgrees
  <2>2. Distance(s) # Distance(t)
    BY <1>1, <1>2, <1>3, <1>4, <1>5, Parts, DistanceFacts DEF Distance
  <2> QED
    BY <1>5, <2>1, <2>2
<1> DEFINE f == head.front
           r == head.rear
           k == Pos(s) - First
<1>7. /\ f \in Slot /\ r \in Slot
      /\ Buffered.head.front = f /\ Buffered.head.rear = r /\ Buffered.lines = lines
      /\ lines \in Seq(Items \cup {NoItem}) /\ Len(lines) \in Nat
  BY BufferedLines
<1>8. /\ Pos(f) \in Nat /\ Pos(r) \in Nat
      /\ Pos(f) <= First /\ First <= Pos(front) /\ First \in Int
      /\ Pos(t) <= Pos(r) /\ Pos(t) <= Pos(s_i)
  <2>1. Pos(f) \in Nat /\ Pos(r) \in Nat
    BY <1>5, <1>7, DistanceFacts DEF Pos
  <2>2. f # Unread /\ r # Unread
    BY DEF SInv, SaverIdle
  <2>3. First \in Int
    BY <1>5, <1>7 DEF First
  <2> QED
    BY <1>1, <1>4, <2>1, <2>2, <2>3 DEF HeadAgrees, LoopAgrees, Passed
<1> HIDE DEF f, r
<1>9. LengthOf(f, r) = Pos(r) - Pos(f)
  <2>1. Pos(f) <= Pos(r)
    BY <1>5, <1>6, <1>8
  <2> QED
    BY <1>5, <1>7, <2>1, DistanceFacts DEF Pos
<1>10. /\ k \in 1 .. LengthOf(f, r) - 1
       /\ k + 1 <= Len(lines)
  <2>1. Len(lines) = Pos(s_i) - First
    BY <1>5, <1>7 DEF First
  <2>2. k \in Int /\ k >= 1
    BY <1>5, <1>8
  <2>3. LengthOf(f, r) \in Int /\ k <= LengthOf(f, r) - 1
    BY <1>5, <1>6, <1>8, <1>9
  <2>4. k + 1 <= Len(lines)
    BY <1>5, <1>6, <1>8, <2>1
  <2> HIDE DEF k
  <2> QED
    BY <2>2, <2>3, <2>4
<1>11. lines[k + 1] = x
  BY <1>1, <1>2, <1>5, <1>6, <1>8 DEF LoopAgrees
<1>12. x # NoItem
  BY <1>3, QueueAssumption
<1> HIDE DEF k
<1> QED
  BY <1>7, <1>10, <1>11, <1>12, RestoredLines

(* When nothing moved, the lines are the slots from front on, the last of  *)
(* which is the last but one that waits.                                   *)
LEMMA QuietSave == SInv => QuietSaveLosesNewest
<1> SUFFICES ASSUME SInv, s_pc = "close", m_pc # "slot", began = Queued, Length > 0,
                    room = QUEUE_SIZE - 1 - Length
             PROVE  loadQueueFromFile(Buffered) =
                      [k \in 1 .. Length |-> IF k < Length THEN Contents[k] ELSE NoItem]
  BY DEF QuietSaveLosesNewest
<1>1. /\ SnapTypeOK /\ front \in Slot /\ rear \in Slot
      /\ Length \in Nat /\ Length <= QUEUE_SIZE - 1 /\ room >= 0
      /\ SavesQueue
  BY Parts, QueueAssumption DEF SInv, SavesQueue
<1>2. HeadAgrees /\ LoopAgrees /\ head.front # Unread /\ head.rear # Unread
  BY <1>1 DEF SInv, SaveAgrees, InLoop, SaverIdle
<1>3. /\ Base \in Slot /\ Pos(rear) = Length /\ Pos(front) = 0 /\ s_i \in Slot
      /\ Pos(s_i) \in Nat
      /\ \A s \in Occupied : s \in Slot /\ Pos(s) = Distance(s) /\ Distance(s) \in Nat
  <2>1. /\ Base \in Slot /\ Pos(rear) = QUEUE_SIZE - 1 - room /\ s_i \in Slot
        /\ Pos(front) \in Nat /\ Pos(s_i) \in Nat
        /\ Length = Pos(rear) - Pos(front)
    BY <1>1, TurnFacts
  <2>2. Pos(rear) = Length /\ Pos(front) = 0
    BY <1>1, <2>1, QueueAssumption
  <2>3. ASSUME NEW s \in Occupied
        PROVE  s \in Slot /\ Pos(s) = Distance(s) /\ Distance(s) \in Nat
    <3>1. s \in Slot /\ Pos(s) = Pos(front) + Distance(s)
      BY <1>1, TurnFacts
    <3>2. Distance(s) \in Nat
      BY <1>1, <3>1, DistanceFacts DEF Distance
    <3> QED
      BY <2>2, <3>1, <3>2
  <2> QED
    BY <2>1, <2>2, <2>3
<1>4. /\ Buffered.head.front = head.front /\ Buffered.head.rear = head.rear
      /\ head.front \in Slot /\ head.rear \in Slot
      /\ Buffered.lines = lines /\ Len(lines) \in Nat /\ DOMAIN lines = 1 .. Len(lines)
  BY BufferedLines
<1>5. Pos(head.front) \in Nat /\ Pos(head.rear) \in Nat
  BY <1>3, <1>4, DistanceFacts DEF Pos
<1>6. head.front = front /\ First = 0
  <2>1. Pos(head.front) = 0 /\ First = 0
    BY <1>2, <1>3, <1>4, <1>5 DEF LoopAgrees, First
  <2>2. LengthOf(Base, head.front) = LengthOf(Base, front)
    BY <1>3, <2>1 DEF Pos
  <2>3. Base \in Slot /\ head.front \in Slot /\ front \in Slot
    BY <1>1, <1>3, <1>4
  <2>4. head.front = front
    BY <2>2, <2>3, DistanceFacts
  <2> QED
    BY <2>1, <2>4
<1>7. rear \in Occupied /\ queue[rear] \in began
  <2>1. front # rear
    BY <1>1, DistanceFacts DEF Length
  <2>2. rear \in Occupied
    BY <1>1, <2>1, RearFacts
  <2> QED
    BY <1>1, <2>2, QueuedIs
<1>8. head.rear = rear /\ Pos(s_i) = Length /\ Len(lines) = Length
  <2>1. Pos(head.rear) = Pos(rear) /\ Pos(s_i) = Pos(rear)
    BY <1>1, <1>2, <1>3, <1>5, <1>7 DEF HeadAgrees, LoopAgrees, Passed
  <2>2. head.rear = rear
    BY <1>1, <1>3, <1>4, <2>1, DistanceFacts DEF Pos
  <2> QED
    BY <1>3, <1>4, <1>6, <2>1, <2>2 DEF First
<1>9. loadQueueFromFile(Buffered) =
        [k \in 1 .. Length |-> IF k < Length THEN Line(Buffered, k + 1) ELSE NoItem]
  BY <1>1, <1>4, <1>6, <1>8, LoadedQueue DEF Length
<1>10. ASSUME NEW k \in 1 .. Length, k < Length
       PROVE  Line(Buffered, k + 1) = Contents[k]
  <2> DEFINE s == NthSlot(front, k)
  <2>1. k \in 0 .. QUEUE_SIZE - 1
    BY <1>1, QueueAssumption
  <2>2. s \in Slot /\ Distance(s) = k
    BY <1>1, <2>1, NthDistance DEF Distance
  <2>3. Contents[k] = queue[s]
    BY DEF Contents, ContentsOf, Length
  <2> HIDE DEF s
  <2>4. s \in Occupied
    BY <2>2 DEF Occupied
  <2>5. Pos(s) = k /\ Pos(s) < Pos(s_i)
    BY <1>3, <1>8, <1>10, <2>2, <2>4
  <2>6. lines[k - 0 + 1] = queue[s]
    BY <1>2, <1>6, <2>4, <2>5 DEF LoopAgrees
  <2>7. k - 0 + 1 = k + 1 /\ k + 1 \in 1 .. Len(lines)
    BY <1>1, <1>8, <1>10
  <2> QED
    BY <1>4, <2>3, <2>6, <2>7 DEF Line
<1> QED
  BY <1>9, <1>10

-----------------------------------------------------------------------------
(* The results.                                                            *)

(* What relates ring, map, saver and files holds in every reachable state. *)
THEOREM SnapshotInvariance == SnapSpec => []SInv
  BY SInvInit, SInvStep, PTL DEF SnapSpec

(* The variables of main, the saver and the files keep their types.        *)
THEOREM SnapshotTyping == SnapSpec => []SnapTypeOK
<1>1. SInv => SnapTypeOK
  BY DEF SInv
<1> QED
  BY <1>1, SnapshotInvariance, PTL

(* saveQueueToFile takes no lock, and yet a file that it closes has every  *)
(* ticket that waited all the time but the newest, unless more tickets     *)
(* were queued meanwhile than there were free slots; and it never has the  *)
(* newest when nothing moved.                                              *)
THEOREM SavedQueueIsKnown == SnapSpec => []SaveKeepsAllButNewest
<1>1. SInv => SaveKeepsAllButNewest
  BY SaveKeeps, QuietSave DEF SaveKeepsAllButNewest
<1> QED
  BY <1>1, SnapshotInvariance, PTL

(* What loadQueueFromFile would queue, loadMapFromFile would know.         *)
THEOREM RestoredTicketsAreKnown == SnapSpec => []RestoredIsKnown
<1>1. SInv => RestoredIsKnown
  BY DEF SInv
<1> QED
  BY <1>1, SnapshotInvariance, PTL

(* A ticket that clients are told is queued is in the queue, or a worker   *)
(* has just taken it.                                                      *)
THEOREM ToldTicketIsQueued == SnapSpec => []WaitingIsQueued
<1>1. SInv => WaitingIsQueued
  BY DEF SInv
<1> QED
  BY <1>1, SnapshotInvariance, PTL
=============================================================================
