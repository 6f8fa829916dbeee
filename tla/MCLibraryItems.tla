---------------------------- MODULE MCLibraryItems ---------------------------
(* Instances of LibraryItems for TLC.                                         *)
EXTENDS LibraryItems
==============================================================================
