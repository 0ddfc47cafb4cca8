--------------------------- MODULE GradingService ----------------------------
(***************************************************************************)
(* What the request pools promise, without ring, counter, lock or          *)
(* condition variable: requests are accepted into a line of at most        *)
(* Capacity, every worker takes the oldest one when it is free, and a      *)
(* request that was handled never comes back.                              *)
(***************************************************************************)
EXTENDS Naturals, Sequences

CONSTANTS Items, NoItem, Workers, Capacity

VARIABLES
  line,   \* the requests waiting, oldest first
  hand,   \* what each worker is busy with, NoItem if nothing
  done    \* the requests handled

vars == <<line, hand, done>>

Waiting == {line[k] : k \in 1 .. Len(line)}
InHand  == {hand[w] : w \in Workers} \ {NoItem}

Init ==
  /\ line = <<>>
  /\ hand = [w \in Workers |-> NoItem]
  /\ done = {}

Accept(x) ==
  /\ x \notin Waiting \cup InHand \cup done
  /\ Len(line) < Capacity
  /\ line' = Append(line, x)
  /\ UNCHANGED <<hand, done>>

Start(w) ==
  /\ hand[w] = NoItem
  /\ line # <<>>
  /\ hand' = [hand EXCEPT ![w] = Head(line)]
  /\ line' = Tail(line)
  /\ UNCHANGED done

Finish(w) ==
  /\ hand[w] # NoItem
  /\ done' = done \cup {hand[w]}
  /\ hand' = [hand EXCEPT ![w] = NoItem]
  /\ UNCHANGED line

Next ==
  \/ \E x \in Items : Accept(x)
  \/ \E w \in Workers : Start(w) \/ Finish(w)

Spec == Init /\ [][Next]_vars
=============================================================================
