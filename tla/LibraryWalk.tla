----------------------------- MODULE LibraryWalk -----------------------------
(* The library walk loop of internal/server/walk.go beside the history loop,  *)
(* the refresh of the library list and scrapes: full passes and stale-only    *)
(* passes, the generation stamp on each library's figures, the prune that     *)
(* ends a clean full pass, and the rule by which collect_catalog.go publishes *)
(* watch figures.  A page read and the Visit of its rows are one step per     *)
(* row; every other step is one critical section.                             *)
EXTENDS WatchStore

CONSTANTS
    VideoLibs,          \* libraries of a walkable type
    MaxWalked,          \* maxWalkedLibraries
    MaxPass,            \* bound on the full passes
    Never               \* a key the figures do not hold

ASSUME WalkAssumption ==
    /\ VideoLibs \subseteq Libs
    /\ MaxWalked \in Nat /\ MaxPass \in Nat \ {0} /\ Never \notin Nat

VARIABLES
    plexLibs,           \* libraries Plex has
    serverLibs,         \* Server.Libraries
    sectionsRead,       \* background.sectionsRead
    walks,              \* walkState.libs: [Libs -> libWalk]
    passDone,           \* walkState.passDone
    pass,               \* walkState.pass
    wpc,                \* where the walk loop is
    p,                  \* walkPass's locals: libs, skipped, start, gen, allOK,
                        \*   the libraries still to visit, and staleOnly
    w,                  \* walkLibrary's locals: lib, gen0, the stamp to store,
                        \*   the row offset, the last-played times collected;
                        \*   and due, history: the items of the library that
                        \*   its listing owes this walk
    owed,               \* history: the items the figures owe: those in Plex when
                        \*   the last walk of their library began, or since ever
                        \*   if none has ended, less those no longer there and
                        \*   those whose rows a deletion moved past the walk
    g                   \* history of the pass: the libraries listed at its start,
                        \*   those a deletion shifted under the walk, and the
                        \*   items visited in the pass's generation of the map
                        \*   before any play of theirs was in it

wvars == <<walks, passDone, pass, wpc, p, w>>
ovars == <<atBoot, lost, owed, plexLibs, serverLibs, sectionsRead>>
vars == <<cvars, hvars, ovars, wvars, g>>

NoFig == [i \in Items |-> Never]
NoWalk == [walked |-> FALSE, failed |-> FALSE, stamp |-> 0, fig |-> NoFig]

\* walkableLibraries: the video libraries of a list in id order, up to a limit.
Video(list) == list \cap VideoLibs
Walkable(list) ==
    {l \in Video(list) : Cardinality({m \in Video(list) : m < l}) < MaxWalked}
Skipped(list) == Video(list) # Walkable(list)

NoPass == [stale |-> FALSE, libs |-> {}, skipped |-> FALSE, todo |-> {},
           start |-> 0, gen |-> 0, allOK |-> TRUE]
NoGhost == [listed |-> {}, shifted |-> {}, unmarked |-> {}]
NoItemWalk == [lib |-> 0, gen0 |-> 0, stamp |-> 0, off |-> 0, fig |-> NoFig, due |-> {}]

\* The items a listing of the library would have now.
RowsOf(l) == {i \in Items : catalog[i] = "present" /\ Home[i] = l}

\* The pass number that Visit and Prune get: 0 in a stale-only pass.
PassMark == IF p.stale THEN 0 ELSE pass

\* Mutant: a library that was ever walked counts as current.
StampOfWalked(l) == IF walks[l].walked THEN gen ELSE 0

\* stampOf
StampOf(l) == IF walks[l].walked THEN walks[l].stamp ELSE 0

WalkInit ==
    /\ CatalogInit /\ StoreInit
    /\ plexLibs = {Home[i] : i \in {j \in Items : catalog[j] = "present"}}
    /\ serverLibs = plexLibs /\ sectionsRead = FALSE
    /\ owed = {i \in Items : catalog[i] = "present"}
    /\ walks = [l \in Libs |-> NoWalk]
    /\ passDone = FALSE /\ pass = 0
    /\ wpc = "start" /\ p = NoPass /\ w = NoItemWalk
    /\ g = NoGhost
-----------------------------------------------------------------------------
\* walkPass begins: the library list and the start time.
BeginPass(staleOnly) ==
    /\ p' = [stale |-> staleOnly, libs |-> Walkable(serverLibs), skipped |-> Skipped(serverLibs),
             todo |-> Walkable(serverLibs), start |-> clock, gen |-> 0, allOK |-> TRUE]
    /\ g' = [NoGhost EXCEPT !.listed = Video(serverLibs)]
    /\ wpc' = "gen"
    /\ UNCHANGED <<cvars, gen, status, fresh, watched, unmatched, hpc, readFrom, seen, ovars,
                   walks, passDone, pass, w>>

\* waitForSections: the loop starts when a Refresh has read the sections, by
\* when it has the library list too.
SectionsKnown ==
    /\ wpc = "start" /\ sectionsRead
    /\ wpc' = "due"
    /\ UNCHANGED <<cvars, hvars, ovars, walks, passDone, pass, p, w, g>>

\* The hour is over, or the loop starts: a full pass.
FullPass == wpc = "due" /\ BeginPass(FALSE) /\ UNCHANGED signal

TimerFires ==
    /\ wpc = "idle" /\ pass < MaxPass
    /\ wpc' = "due"
    /\ UNCHANGED <<cvars, hvars, ovars, walks, passDone, pass, p, w, g>>

\* waitNextPass takes the token: a stale-only pass, at once.
StalePass == wpc = "idle" /\ signal /\ signal' = FALSE /\ BeginPass(TRUE)

\* Mutant: a stale-only pass takes a number too.
PassGenAlways ==
    /\ wpc = "gen"
    /\ p' = [p EXCEPT !.gen = gen]
    /\ pass' = pass + 1
    /\ wpc' = "next"
    /\ UNCHANGED <<cvars, hvars, ovars, walks, passDone, w, g>>

\* The generation at the start, and a new pass number for a full pass.
PassGen ==
    /\ wpc = "gen"
    /\ p' = [p EXCEPT !.gen = gen]
    /\ pass' = IF p.stale THEN pass ELSE pass + 1
    /\ wpc' = "next"
    /\ UNCHANGED <<cvars, hvars, ovars, walks, passDone, w, g>>

\* The next library in order; a stale-only pass leaves current figures alone.
NextLibrary ==
    /\ wpc = "next" /\ p.todo # {}
    /\ LET l == CHOOSE x \in p.todo : \A y \in p.todo : x <= y IN
       /\ p' = [p EXCEPT !.todo = @ \ {l}]
       /\ IF p.stale /\ StampOf(l) = p.gen
          THEN UNCHANGED <<w, wpc>>
          ELSE /\ w' = [NoItemWalk EXCEPT !.lib = l, !.gen0 = StampableGen, !.due = RowsOf(l)]
               /\ wpc' = "read"
    /\ UNCHANGED <<cvars, hvars, ovars, walks, passDone, pass, g>>

\* The next row of the listing, and Visit on its key; a row seen twice counts
\* once.
ReadItem ==
    /\ wpc = "read"
    /\ \E i \in RowAt(w.lib, w.off) :
        IF w.fig[i] = Never
        THEN /\ watched' = [watched EXCEPT ![i] = Visited(@, PassMark)]
             /\ w' = [w EXCEPT !.off = @ + 1, !.fig[i] = watched[i].at]
             /\ g' = IF watched[i].at = 0 /\ status = "complete" /\ gen = p.gen
                     THEN [g EXCEPT !.unmarked = @ \cup {i}] ELSE g
        ELSE w' = [w EXCEPT !.off = @ + 1] /\ UNCHANGED <<watched, g>>
    /\ UNCHANGED <<cvars, gen, status, fresh, unmatched, hpc, readFrom, seen, signal, ovars,
                   walks, passDone, pass, wpc, p>>

\* Mutant: the generation is read only when the walk ends.
ReadEndsLate ==
    /\ wpc = "read" /\ RowAt(w.lib, w.off) = {}
    /\ w' = [w EXCEPT !.stamp = StampableGen]
    /\ wpc' = "store"
    /\ UNCHANGED <<cvars, hvars, ovars, walks, passDone, pass, p, g>>

\* The listing is read to its end: the generation bracket closes.
ReadEnds ==
    /\ wpc = "read" /\ RowAt(w.lib, w.off) = {}
    /\ w' = [w EXCEPT !.stamp = IF w.gen0 # 0 /\ w.gen0 = StampableGen THEN w.gen0 ELSE 0]
    /\ wpc' = "store"
    /\ UNCHANGED <<cvars, hvars, ovars, walks, passDone, pass, p, g>>

StoreWalk ==
    /\ wpc = "store"
    /\ walks' = [walks EXCEPT ![w.lib] =
                   [walked |-> TRUE, failed |-> FALSE, stamp |-> w.stamp, fig |-> w.fig]]
    /\ owed' = {i \in owed : Home[i] # w.lib} \cup w.due
    /\ w' = NoItemWalk
    /\ wpc' = "next"
    /\ UNCHANGED <<cvars, hvars, atBoot, lost, plexLibs, serverLibs, sectionsRead, passDone, pass, p, g>>

\* A page read fails or the deadline passes: the last figures stay.
WalkFails ==
    /\ wpc = "read"
    /\ walks' = [walks EXCEPT ![w.lib].failed = TRUE]
    /\ p' = [p EXCEPT !.allOK = FALSE]
    /\ w' = NoItemWalk
    /\ wpc' = "next"
    /\ UNCHANGED <<cvars, hvars, ovars, passDone, pass, g>>

\* The pass is over: a full one drops the libraries it did not list.
EndPass ==
    /\ wpc = "next" /\ p.todo = {}
    /\ IF p.stale
       THEN UNCHANGED <<walks, passDone>>
       ELSE /\ walks' = [l \in Libs |-> IF l \in p.libs THEN walks[l] ELSE NoWalk]
            /\ passDone' = TRUE
    /\ IF ~p.stale /\ p.allOK /\ ~p.skipped
       THEN wpc' = "prune" /\ UNCHANGED <<p, g>>
       ELSE wpc' = "idle" /\ p' = NoPass /\ g' = NoGhost
    /\ UNCHANGED <<cvars, hvars, ovars, pass, w>>

\* Store.Prune: what the pass did not see, unless played since it started.
Prune ==
    /\ wpc = "prune"
    /\ LET gone == Prunable(PassMark, p.start, p.gen) IN
       /\ watched' = [i \in Items |-> IF i \in gone THEN NoEntry ELSE watched[i]]
       /\ lost' = lost \cup {i \in gone : catalog[i] = "present"}
    /\ wpc' = "idle" /\ p' = NoPass /\ g' = NoGhost
    /\ UNCHANGED <<cvars, gen, status, fresh, unmatched, hpc, readFrom, seen, signal, atBoot,
                   owed, plexLibs, serverLibs, sectionsRead, walks, passDone, pass, w>>
-----------------------------------------------------------------------------
\* Plex: a library is created with its first item; a deletion shifts the rows
\* after it in a listing that is being read, so that the next one is passed over.
PlexStep ==
    /\ \/ Advance /\ UNCHANGED <<plexLibs, w, owed, g>>
       \/ \E i \in Items : PlayItem(i) /\ UNCHANGED <<plexLibs, w, owed, g>>
       \/ \E i \in Items :
            /\ AddItem(i)
            /\ plexLibs' = plexLibs \cup {Home[i]}
            /\ owed' = IF walks[Home[i]].walked THEN owed ELSE owed \cup {i}
            /\ UNCHANGED <<w, g>>
       \/ \E i \in Items :
            /\ DeleteItem(i)
            /\ LET shifts == wpc = "read" /\ Home[i] = w.lib /\ Rank(i) < w.off IN
               /\ g' = IF shifts THEN [g EXCEPT !.shifted = @ \cup {w.lib}] ELSE g
               /\ w' = [w EXCEPT !.due = @ \ ({i} \cup IF shifts THEN RowAt(w.lib, w.off) ELSE {})]
            /\ owed' = owed \ {i}
            /\ UNCHANGED plexLibs
    /\ UNCHANGED <<hvars, atBoot, lost, serverLibs, sectionsRead, walks, passDone, pass, wpc, p>>

\* Refresh replaces the library list, and later reads the sections.
RefreshLibraries ==
    /\ serverLibs # plexLibs
    /\ serverLibs' = plexLibs
    /\ UNCHANGED <<cvars, hvars, atBoot, lost, owed, plexLibs, sectionsRead, wvars, g>>

RefreshSections ==
    /\ ~sectionsRead
    /\ sectionsRead' = TRUE
    /\ UNCHANGED <<cvars, hvars, atBoot, lost, owed, plexLibs, serverLibs, wvars, g>>

HistoryStep ==
    /\ \/ BootStarts \/ BootCompletes \/ RetryFires \/ SignalWalk \/ IncrementalDone \/ Lapse
       \/ \E st \in {"failed", "over_limit"} : BootFails(st)
       \/ \E i \in Items : MergeRow(i) \/ UnmatchedRow(i) \/ CatchupRow(i)
    /\ UNCHANGED <<cvars, owed, plexLibs, serverLibs, sectionsRead, wvars, g>>

WalkStep ==
    \/ SectionsKnown \/ FullPass \/ TimerFires \/ StalePass \/ PassGen \/ NextLibrary
    \/ ReadItem \/ ReadEnds \/ StoreWalk \/ WalkFails \/ EndPass \/ Prune

Next == PlexStep \/ RefreshLibraries \/ RefreshSections \/ HistoryStep \/ WalkStep

Spec == WalkInit /\ [][Next]_vars

\* The loops keep running: a read ends by its deadline, a retry timer fires and
\* the walk loop takes the token.  Nothing is assumed of the hourly timer, of
\* the increments or of Plex, nor that the sections are ever read.
FairSpec ==
    /\ Spec
    /\ WF_vars(HistoryStep /\ hpc # "follow" /\ hpc' # hpc)
    /\ WF_vars(SectionsKnown \/ FullPass \/ StalePass \/ PassGen \/ NextLibrary \/ ReadItem \/ ReadEnds
               \/ StoreWalk \/ EndPass \/ Prune)
-----------------------------------------------------------------------------
\* emitLibraries: a library publishes its watch figures.
Publishes(l) ==
    /\ l \in Walkable(serverLibs) /\ walks[l].walked
    /\ Current /\ ~unmatched
    /\ walks[l].stamp # 0 /\ walks[l].stamp = gen

\* Mutant: libraries past the limit do not matter.
WatchAgeCompleteSkipped ==
    /\ passDone /\ Current /\ ~unmatched
    /\ \A l \in Walkable(serverLibs) : ~walks[l].failed /\ Publishes(l)

\* plex_library_watch_age_complete
WatchAgeComplete ==
    /\ passDone /\ ~Skipped(serverLibs) /\ Current /\ ~unmatched
    /\ \A l \in Walkable(serverLibs) : ~walks[l].failed /\ Publishes(l)

\* The store and walk variables hold what the code can store in them.
WalkTypeOK ==
    /\ CatalogTypeOK /\ StoreTypeOK
    /\ plexLibs \subseteq Libs /\ serverLibs \subseteq Libs /\ g.shifted \subseteq g.listed
    /\ walks \in [Libs -> [walked : BOOLEAN, failed : BOOLEAN, stamp : 0..MaxBoots,
                           fig : [Items -> 0..MaxClock \cup {Never}]]]
    /\ pass \in 0..MaxPass /\ passDone \in BOOLEAN
    /\ sectionsRead \in BOOLEAN /\ owed \subseteq Items /\ w.due \subseteq Items
    /\ wpc \in {"start", "due", "idle", "gen", "next", "read", "store", "prune"}
    /\ p.libs \subseteq VideoLibs /\ p.todo \subseteq p.libs

\* A published last-played time is never older than a play the history held
\* when the full read behind it began, so a watched item is not shown as never
\* watched (or watched long ago) because its walk straddled a rebuild, used a
\* discarded map, or could not read the item's rows.  An item that Prune lost
\* is excepted; PruneSafe says which ones it can lose.
WatchTruth ==
    \A l \in Libs : Publishes(l) =>
        \A i \in Items \ lost : walks[l].fig[i] # Never => walks[l].fig[i] >= atBoot[i]

\* Prune takes the play of an item still in Plex only if the play is older than
\* the pass, and the pass did not have its library in its list, a deletion
\* shifted that library's rows under the walk, or the walk passed it, in this
\* very map, before its first play was recorded: never because the map was
\* rebuilt after the visits, a walk failed or a library was past the limit.
PruneSafe ==
    [][\A i \in lost' \ lost :
          /\ watched[i].at < p.start
          /\ Home[i] \notin g.listed \/ Home[i] \in g.shifted \/ i \in g.unmarked]_vars

\* The complete flag vouches for every item of every library the exporter knows,
\* not only for what the walks happened to read: an item that was in Plex when
\* the last walk of its library began has a last-played time, no older than what
\* history held of it, whatever came, went and failed since.  Excepted are an
\* item whose row a deletion moved past the walk, and one that Prune lost
\* (walk.go:172-180, collect_catalog.go).
CompleteCovers ==
    WatchAgeComplete =>
        \A i \in owed \ lost : Home[i] \in serverLibs \cap VideoLibs =>
            /\ walks[Home[i]].fig[i] # Never
            /\ walks[Home[i]].fig[i] >= atBoot[i]

\* After a full read of the history each library the loop may walk gets published
\* figures without waiting for the hourly pass, even when the rebuild ended during
\* one that had not listed the library, once the sections are ever read: unless
\* its walk failed, history lapsed, rows are unusable, or a new library pushed it
\* past the limit (walk.go:71-94).
FiguresAppear ==
    <>sectionsRead =>
        \A l \in VideoLibs :
            (hpc = "rebuilt" /\ l \in Walkable(serverLibs)) ~>
                \/ Publishes(l)
                \/ l \notin Walkable(serverLibs)
                \/ ~fresh \/ unmatched \/ walks[l].failed
-----------------------------------------------------------------------------
\* history.go:136-137: Visit "records that walk pass saw key in the catalog",
\* so Prune spares an item the pass visited.
VisitedSpared == [][\A i \in lost' \ lost : i \notin g.unmarked]_vars
==============================================================================
