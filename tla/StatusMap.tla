------------------------------ MODULE StatusMap ------------------------------
(***************************************************************************)
(* What the pool expects of hashmap.c: a map from tickets to statuses in   *)
(* which an entry appears, changes and is looked up in one step each.      *)
(***************************************************************************)
EXTENDS Integers

CONSTANTS Keys, Statuses

VARIABLE map

Missing == -1

Init == map = [k \in Keys |-> Missing]

Insert(k, s) ==
  /\ map[k] = Missing
  /\ map' = [map EXCEPT ![k] = s]

Update(k, s) ==
  /\ map[k] # Missing
  /\ map' = [map EXCEPT ![k] = s]

Next == \E k \in Keys, s \in Statuses : Insert(k, s) \/ Update(k, s)

Spec == Init /\ [][Next]_map
=============================================================================
