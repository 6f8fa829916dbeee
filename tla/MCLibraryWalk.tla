---------------------------- MODULE MCLibraryWalk ----------------------------
(* Instances of LibraryWalk for TLC: items 1 and 2 in library 1, 3 in 2.      *)
EXTENDS LibraryWalk

MCHome == [i \in Items |-> IF i = 3 THEN 2 ELSE 1]
==============================================================================
