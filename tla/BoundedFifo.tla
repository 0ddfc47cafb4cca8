----------------------------- MODULE BoundedFifo -----------------------------
(***************************************************************************)
(* What a caller of queue.c relies on: a first-in first-out line of at     *)
(* most Capacity items, where an insertion into a full line is dropped and *)
(* a deletion from an empty one changes nothing.                           *)
(***************************************************************************)
EXTENDS Naturals, Sequences

CONSTANTS Items, Capacity

VARIABLE line

Init == line = <<>>

Insert(x) == /\ Len(line) < Capacity
             /\ line' = Append(line, x)

Delete == /\ line # <<>>
          /\ line' = Tail(line)

Next == (\E x \in Items : Insert(x)) \/ Delete

Spec == Init /\ [][Next]_line
=============================================================================
