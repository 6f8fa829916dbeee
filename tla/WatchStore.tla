----------------------------- MODULE WatchStore -----------------------------
(* history.Store as the library walk uses it: Bootstrap, the merges of        *)
(* Incremental and catchup, View, Visit and Prune, and the loop Run that      *)
(* drives it.  Each action is one critical section of the store's mutex.      *)
(* How a read pages through the history is left out: rows arrive one by one.  *)
EXTENDS PlexCatalog

CONSTANTS
    Overlap,            \* incrementalOverlap
    CatchupWindow,      \* catchupWindow
    MaxBoots            \* bound on the full reads; the last one completes

ASSUME StoreAssumption == Overlap \in Nat /\ CatchupWindow \in Nat /\ MaxBoots \in Nat \ {0}

VARIABLES
    gen,                \* Store.gen
    status,             \* Store.status, "" before the first full read ends
    fresh,              \* lastSuccess is less than staleAfter ago
    watched,            \* Store.watched; at = 0 where there is no entry
    unmatched,          \* some row is unmatched
    hpc,                \* where Run is
    readFrom,           \* [Items -> newest play when the full read began]
    seen,               \* [Items -> newest play the reads of this map have covered]
    signal,             \* walkSignal holds a token
    atBoot,             \* history: plays when the completed read began
    lost                \* history: items pruned while still in Plex

hvars == <<gen, status, fresh, watched, unmatched, hpc, readFrom, seen, signal>>

NoEntry == [at |-> 0, pass |-> 0]

StoreTypeOK ==
    /\ gen \in 0..MaxBoots
    /\ status \in {"", "complete", "over_limit", "failed"}
    /\ fresh \in BOOLEAN /\ unmatched \in BOOLEAN /\ signal \in BOOLEAN
    /\ watched \in [Items -> [at : Nat, pass : Nat]]
    /\ hpc \in {"boot", "reading", "rebuilt", "wait", "follow"}
    /\ readFrom \in [Items -> Nat] /\ atBoot \in [Items -> Nat]
    /\ seen \in [Items -> Nat] /\ lost \subseteq Items

StoreInit ==
    /\ gen = 0 /\ status = "" /\ fresh = FALSE
    /\ watched = [i \in Items |-> NoEntry]
    /\ unmatched = FALSE /\ seen = [i \in Items |-> 0] /\ signal = FALSE
    /\ hpc = "boot"
    /\ readFrom = [i \in Items |-> 0] /\ atBoot = [i \in Items |-> 0]
    /\ lost = {}
-----------------------------------------------------------------------------
\* View: Current, and the generation a walk may be stamped with.
Current == status = "complete" /\ fresh
StampableGen == IF Current THEN gen ELSE 0

\* merge on one entry: the newest play wins, the pass mark stays.
Merged(e, at) == [e EXCEPT !.at = IF at > @ THEN at ELSE @]

\* Bootstrap begins to read the whole history into maps of its own.
BootStarts ==
    /\ hpc = "boot"
    /\ hpc' = "reading"
    /\ readFrom' = plays
    /\ UNCHANGED <<gen, status, fresh, watched, unmatched, seen, signal, atBoot, lost>>

\* What the read may have found of an item: its newest play when the read
\* began or a later one, nothing if its rows are unusable, nothing or the old
\* play if it was deleted meanwhile.
Found(i) ==
    IF i \in unusable THEN {0}
    ELSE IF catalog[i] = "gone" THEN {0, readFrom[i]}
    ELSE {readFrom[i], plays[i]}

\* Bootstrap ends with the whole history read.
BootCompletes ==
    /\ hpc = "reading"
    /\ gen' = gen + 1 /\ status' = "complete" /\ fresh' = TRUE
    /\ \E f \in [Items -> 0..clock] :
        /\ \A i \in Items : f[i] \in Found(i)
        /\ watched' = [i \in Items |-> [at |-> f[i], pass |-> 0]]
        /\ seen' = f
    /\ unmatched' \in BOOLEAN
    /\ (\E i \in unusable : readFrom[i] # 0 /\ catalog[i] = "present") => unmatched'
    /\ unmatched' => \E i \in unusable : plays[i] # 0
    /\ atBoot' = readFrom
    /\ hpc' = "rebuilt"
    /\ UNCHANGED <<readFrom, signal, lost>>

\* Bootstrap fails or runs past its limits: everything is discarded.
BootFails(st) ==
    /\ hpc = "reading" /\ st \in {"failed", "over_limit"}
    /\ gen + 1 < MaxBoots
    /\ gen' = gen + 1 /\ status' = st
    /\ watched' = [i \in Items |-> NoEntry] /\ unmatched' = FALSE
    /\ hpc' = "wait"
    /\ UNCHANGED <<fresh, readFrom, seen, signal, atBoot, lost>>

\* The retry timer of Run fires.
RetryFires ==
    /\ hpc = "wait"
    /\ hpc' = "boot"
    /\ UNCHANGED <<gen, status, fresh, watched, unmatched, readFrom, seen, signal, atBoot, lost>>

\* onRebuilt = signalWalk: a token already waiting absorbs this one.
SignalWalk ==
    /\ hpc = "rebuilt"
    /\ signal' = TRUE
    /\ hpc' = "follow"
    /\ UNCHANGED <<gen, status, fresh, watched, unmatched, readFrom, seen, atBoot, lost>>

\* The newest play the reads have covered.
Cursor == CHOOSE t \in 0..clock :
             (\A i \in Items : seen[i] <= t) /\ (t = 0 \/ \E i \in Items : seen[i] = t)

\* One row of an Incremental read is folded in: a play since the cursor, less
\* the overlap, or an unmatched row.
MergeRow(i) ==
    /\ hpc = "follow" /\ i \notin unusable
    /\ seen[i] < plays[i] \/ (plays[i] # 0 /\ plays[i] >= Cursor - Overlap)
    /\ seen' = [seen EXCEPT ![i] = plays[i]]
    /\ watched' = IF catalog[i] = "gone" THEN watched
                  ELSE [watched EXCEPT ![i] = Merged(@, plays[i])]
    /\ UNCHANGED <<gen, status, fresh, unmatched, hpc, readFrom, signal, atBoot, lost>>

UnmatchedRow(i) ==
    /\ hpc = "follow" /\ i \in unusable /\ catalog[i] = "present" /\ plays[i] # 0
    /\ ~unmatched
    /\ unmatched' = TRUE
    /\ UNCHANGED <<gen, status, fresh, watched, hpc, readFrom, seen, signal, atBoot, lost>>

\* One row of the daily catch-up, which reads the last CatchupWindow again.
CatchupRow(i) ==
    /\ hpc = "follow" /\ catalog[i] = "present" /\ i \notin unusable
    /\ plays[i] # 0 /\ plays[i] >= clock - CatchupWindow
    /\ watched' = [watched EXCEPT ![i] = Merged(@, plays[i])]
    /\ UNCHANGED <<gen, status, fresh, unmatched, hpc, readFrom, seen, signal, atBoot, lost>>

\* An increment succeeds: lastSuccess is renewed.
IncrementalDone ==
    /\ hpc = "follow" /\ ~fresh
    /\ fresh' = TRUE
    /\ UNCHANGED <<gen, status, watched, unmatched, hpc, readFrom, seen, signal, atBoot, lost>>

\* An hour passes without a successful read.
Lapse ==
    /\ fresh
    /\ fresh' = FALSE
    /\ UNCHANGED <<gen, status, watched, unmatched, hpc, readFrom, seen, signal, atBoot, lost>>

\* Visit on an entry: a walk pass (not 0) marks what it saw, if it is there.
Visited(e, pass) == IF e.at # 0 /\ pass # 0 THEN [e EXCEPT !.pass = pass] ELSE e

\* Mutant: the generation the walk started in is not checked.
PrunableAnyGen(pass, cutoff, g) ==
    IF pass = 0 THEN {}
    ELSE {i \in Items : watched[i].at # 0 /\ watched[i].pass # pass /\ watched[i].at < cutoff}

\* Prune's choice, and nothing at all once the map was rebuilt or discarded.
Prunable(pass, cutoff, g) ==
    IF gen # g \/ pass = 0 THEN {}
    ELSE {i \in Items : watched[i].at # 0 /\ watched[i].pass # pass /\ watched[i].at < cutoff}
==============================================================================
