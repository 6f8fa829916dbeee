---------------------------- MODULE HistoryReads ----------------------------
(* How history.Store reads Plex's watch history: Bootstrap, Incremental and   *)
(* catchup page through it by offset, under a cap on pages, while rows arrive *)
(* at any place.  One goroutine, Run, makes all the reads, one after another. *)
(* What a walk makes of the map is in WatchStore.                             *)
EXTENDS Integers, Sequences, FiniteSets, SequencesExt

CONSTANTS
    Items,                  \* rating keys
    Unusable,               \* stands for the item of a deleted or unmatched row
    PageSize,               \* pageSize
    MaxPages,               \* maxPages
    MaxIncrementalPages,    \* maxIncrementalPages
    MaxCatchupPages,        \* maxCatchupPages
    Overlap,                \* incrementalOverlap
    MaxTime,                \* bound of the rows' times
    MaxRows                 \* bound of the history

ASSUME ReadsAssumption ==
    /\ IsFiniteSet(Items) /\ Unusable \notin Items
    /\ {PageSize, MaxPages, MaxIncrementalPages, MaxCatchupPages} \subseteq Nat \ {0}
    /\ {Overlap, MaxTime, MaxRows} \subseteq Nat

VARIABLES
    hist,       \* Plex's rows by play time, ties in order of arrival
    watched,    \* Store.watched: newest play of an item, 0 for no entry
    status,     \* Store.status, "" before the first full read ends
    cursor,     \* Store.cursor
    drain,      \* Store.drain
    rd          \* the read under way: the locals of Bootstrap, merge and read

vars == <<hist, watched, status, cursor, drain, rd>>
store == <<watched, status, cursor, drain>>

NoDrain == [since |-> 0, offset |-> 0]
NoPlays == [i \in Items |-> 0]
\* owed and failed are history: the rows in the window when the read began, and
\* whether the last read failed.
NoRead == [op |-> "idle", since |-> 0, start |-> 0, got |-> 0, newest |-> 0,
           short |-> FALSE, map |-> NoPlays, owed |-> {}, failed |-> FALSE]

ReadsInit ==
    /\ hist = <<>>
    /\ watched = NoPlays /\ status = "" /\ cursor = 0 /\ drain = NoDrain
    /\ rd = NoRead
-----------------------------------------------------------------------------
LaterOf(a, b) == IF a > b THEN a ELSE b
Newest(S) == CHOOSE t \in S : \A u \in S : u <= t

\* The rows a read from a time passes over.
RowsBefore(since) == Cardinality({k \in DOMAIN hist : hist[k].at < since})
\* The rows before the next one of the read under way.
Position == RowsBefore(rd.since) + rd.start + rd.got
Pages == CASE rd.op = "boot" -> MaxPages
           [] rd.op = "inc" -> MaxIncrementalPages
           [] OTHER -> MaxCatchupPages

\* Mutant: the first play known of an item stays.
FoldedFirst(map, rows) ==
    [i \in Items |-> IF map[i] # 0 THEN map[i]
                     ELSE Newest({0} \cup {r.at : r \in {s \in rows : s.item = i}})]

\* fold over a page: the newest play wins; an unusable row is no item's.
Folded(map, rows) ==
    [i \in Items |-> Newest({map[i]} \cup {r.at : r \in {s \in rows : s.item = i}})]

\* Where an increment begins: in the open drain, else the overlap before the cursor.
Resume == IF drain.offset > 0 THEN drain
          ELSE [since |-> LaterOf(cursor - Overlap, 0), offset |-> 0]

\* What the reads will look at next, as they stand (for the history variable
\* late); after a short page it is what the next read begins with.
Ahead == IF rd.op \in {"boot", "inc"} /\ rd.short
             THEN [since |-> LaterOf(LaterOf(cursor, rd.newest) - Overlap, 0), offset |-> 0]
         ELSE IF rd.op \in {"boot", "inc"} THEN [since |-> rd.since, offset |-> rd.start + rd.got]
         ELSE IF status # "complete" THEN NoDrain
         ELSE Resume
-----------------------------------------------------------------------------
\* A play is reported, with Plex's time for it, perhaps long after it.  late
\* says that the reads had passed its place.
Arrive(item, at) ==
    /\ Len(hist) < MaxRows
    /\ LET k == RowsBefore(at + 1) + 1
           late == at < Ahead.since \/ k <= RowsBefore(Ahead.since) + Ahead.offset
       IN  hist' = InsertAt(hist, k, [at |-> at, item |-> item, late |-> late])
    /\ UNCHANGED <<store, rd>>

Begin(op, since, start) ==
    /\ rd.op = "idle"
    /\ rd' = [NoRead EXCEPT !.op = op, !.since = since, !.start = start,
                            !.owed = {hist[k] : k \in RowsBefore(since) + start + 1 .. Len(hist)}]
    /\ UNCHANGED store

\* Bootstrap: again and again until one completes.
BeginBoot ==
    /\ status # "complete"
    /\ Begin("boot", 0, 0)
    /\ hist' = [k \in DOMAIN hist |-> [hist[k] EXCEPT !.late = FALSE]]

BeginIncremental ==
    /\ status = "complete"
    /\ Begin("inc", Resume.since, Resume.offset)
    /\ UNCHANGED hist

\* catchup: the last 30 days, whatever day it is.
BeginCatchup(since) ==
    /\ status = "complete"
    /\ Begin("catchup", since, 0)
    /\ UNCHANGED hist

Capped == rd.got = Pages * PageSize

\* Another row is to come, as far as the source can tell.
More == Position < Len(hist) /\ ~rd.short

\* The rows of the page at the read's position.
Page == {hist[k] : k \in {j \in DOMAIN hist : Position < j /\ j <= Position + PageSize}}

\* A page is read and its rows are folded, into a map of its own by Bootstrap.
ReadPage ==
    /\ rd.op # "idle" /\ More /\ ~Capped
    /\ LET n == IF Len(hist) - Position < PageSize THEN Len(hist) - Position ELSE PageSize
       IN  rd' = [rd EXCEPT !.got = @ + n, !.short = n < PageSize,
                            !.newest = Newest({@} \cup {r.at : r \in Page}),
                            !.map = IF rd.op = "boot" THEN Folded(@, Page) ELSE @]
    /\ watched' = IF rd.op = "boot" THEN watched ELSE Folded(watched, Page)
    /\ UNCHANGED <<hist, status, cursor, drain>>

\* Mutant: a drain goes on from this read's rows alone.
DrainFromReadRows == [since |-> rd.since, offset |-> rd.got]

\* Where the next increment goes on after one that reached its cap.
DrainOn == [since |-> rd.since, offset |-> rd.start + rd.got]

\* Mutant: the cap ends an increment as the last row does.
IncrementDoneAtCap ==
    /\ cursor' = LaterOf(cursor, rd.newest) /\ drain' = NoDrain
    /\ UNCHANGED <<watched, status>>

\* Incremental stopped at its cap.
IncrementCapped ==
    /\ cursor' = LaterOf(cursor, rd.newest) /\ drain' = DrainOn
    /\ UNCHANGED <<watched, status>>

\* Mutant: a discarded read leaves the cursor where it got to.
DiscardKeepsCursor(st) ==
    /\ status' = st /\ watched' = NoPlays /\ drain' = NoDrain /\ cursor' = rd.newest

\* Bootstrap did not read everything: nothing is kept.
Discard(st) == status' = st /\ watched' = NoPlays /\ drain' = NoDrain /\ cursor' = 0

\* A row past the cap arrives.
OverLimit ==
    /\ rd.op # "idle" /\ More /\ Capped
    /\ CASE rd.op = "boot" -> Discard("over_limit")
         [] rd.op = "inc" -> IncrementCapped
         [] OTHER -> UNCHANGED store
    /\ rd' = NoRead
    /\ UNCHANGED hist

\* The source has no more rows.
ReadEnds ==
    /\ rd.op # "idle" /\ ~More
    /\ CASE rd.op = "boot" -> status' = "complete" /\ watched' = rd.map
                                /\ drain' = NoDrain /\ cursor' = rd.newest
         [] rd.op = "inc" -> cursor' = LaterOf(cursor, rd.newest) /\ drain' = NoDrain
                                /\ UNCHANGED <<watched, status>>
         [] OTHER -> UNCHANGED store
    /\ rd' = NoRead
    /\ UNCHANGED hist

\* A page request fails, or the full read's deadline passes.
ReadFails(st) ==
    /\ rd.op # "idle" /\ ~rd.short /\ st \in {"failed", "over_limit"}
    /\ IF rd.op = "boot" THEN Discard(st) ELSE UNCHANGED store
    /\ rd' = [NoRead EXCEPT !.failed = TRUE]
    /\ UNCHANGED hist

Fails == \E st \in {"failed", "over_limit"} : ReadFails(st)
ReadStep == ReadPage \/ OverLimit \/ ReadEnds \/ Fails

Next ==
    \/ \E item \in Items \cup {Unusable}, at \in 1..MaxTime : Arrive(item, at)
    \/ BeginBoot \/ BeginIncremental
    \/ \E since \in 0..MaxTime : BeginCatchup(since)
    \/ ReadStep

Spec == ReadsInit /\ [][Next]_vars

\* Run: a full read is tried until one completes; then both tickers fire for
\* ever and select serves each, and a read under way ends or fails.
FairSpec == Spec /\ WF_vars(BeginBoot) /\ SF_vars(BeginIncremental) /\ WF_vars(ReadStep)
-----------------------------------------------------------------------------
\* The types, and that a store without a complete read holds nothing: no walk
\* ever builds on part of the history (Bootstrap, history.go:243-245).
ReadTypeOK ==
    /\ hist \in Seq([at : 1..MaxTime, item : Items \cup {Unusable}, late : BOOLEAN])
    /\ watched \in [Items -> 0..MaxTime]
    /\ status \in {"", "complete", "over_limit", "failed"}
    /\ cursor \in 0..MaxTime
    /\ drain \in [since : 0..MaxTime, offset : 0..MaxRows]
    /\ rd.op \in {"idle", "boot", "inc", "catchup"}
    /\ rd.got \in 0..Pages * PageSize
    /\ status # "complete" => watched = NoPlays /\ cursor = 0 /\ drain = NoDrain

Known == IF rd.op = "boot" THEN rd.map ELSE watched

\* A play that was not reported behind the reads is in the map or still ahead
\* of them, whatever reads reach their cap, fail half way or meet rows that
\* share a second (drain, history.go:93-96, and Incremental, 279-282).
NoPlayLost ==
    \A k \in DOMAIN hist :
        hist[k].item # Unusable /\ ~hist[k].late
        => \/ Known[hist[k].item] >= hist[k].at
           \/ k > RowsBefore(Ahead.since) + Ahead.offset

\* A read that comes to the end of the history has every play its window held
\* when it began: the full read and the catch-up promise that for plays
\* reported late too (history.go:243-245, 310-311).
ReadCovers ==
    [][ReadEnds => \A r \in rd.owed : r.item # Unusable => watched'[r.item] >= r.at]_vars

\* Once reads stop failing, the plays that were not reported behind them all
\* get into the map, however many capped increments that takes: no drain turns
\* in circles (history.go:93-96).
Settled ==
    status = "complete" =>
        \A r \in {hist[k] : k \in DOMAIN hist} : r.item # Unusable /\ ~r.late => watched[r.item] >= r.at
PlaysArrive == <>[](~rd.failed) => []<>Settled
==============================================================================
