--------------------------- MODULE MCSessionPoll ---------------------------
(* Instances of SessionPoll for TLC.                                         *)
EXTENDS SessionPoll

CONSTANTS r1, r2, r3, k1, k2, i1, i2, l1, l2, ts1

MCNorm == [r \in RawKeys |-> IF r = r1 THEN k1 ELSE k2]
MCLibOf == [i \in Items |-> IF i = i1 THEN l1 ELSE l2]

\* Answers in which each listed session has one of the given listings.
AnswersOf(L) == [RawKeys -> L \cup {Nil}]

L(st, it, ts) == [state |-> st, item |-> it, ts |-> ts]

\* The library list never changes, or is learned, lost and learned again.
KnownLibraries == {Libraries}
LearnedLibraries == {{}, Libraries}

\* One session: two items of two libraries, an end that Plex reports,
\* and an unusable rating key.
OneAnswers ==
    AnswersOf({L("playing", i1, Nil), L("stopped", i2, Nil),
               L("playing", i2, Nil), L("playing", BadItem, Nil)})

\* A map at its limit: three raw keys, two states.
FullAnswers == AnswersOf({L("playing", i1, Nil), L("stopped", i1, ts1)})

\* Two items of two libraries.
SwitchAnswers ==
    AnswersOf({L("playing", i1, Nil), L("playing", i2, Nil)})
=============================================================================
