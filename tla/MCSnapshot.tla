----------------------------- MODULE MCSnapshot ------------------------------
(* TLC instance of Snapshot.                                               *)
EXTENDS Snapshot, TLC

Tickets == 1 .. 3
=============================================================================
