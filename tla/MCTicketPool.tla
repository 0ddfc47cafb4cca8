---------------------------- MODULE MCTicketPool -----------------------------
(* TLC instances of TicketPool: model values for threads and tickets.      *)
EXTENDS TicketPool, TLC

Symmetry == Permutations(Workers) \cup Permutations(Items)
=============================================================================
