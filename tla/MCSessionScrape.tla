--------------------------- MODULE MCSessionScrape ---------------------------
(* One session scraped while polls move it between its states.               *)
EXTENDS SessionScrape

CONSTANTS r1, k1, i1, l1

MCNorm == [r \in RawKeys |-> k1]
MCLibOf == [i \in Items |-> l1]
MCLibraryLists == {Libraries}
MCAnswers ==
    [RawKeys -> {[state |-> st, item |-> i1, ts |-> Nil] : st \in {"playing", "paused"}} \cup {Nil}]
==============================================================================
