----------------------------- MODULE SessionPoll -----------------------------
(* RunSessionPollLoop and refreshSessions of internal/server, driving the     *)
(* tracker while its prune loop runs beside them and Refresh replaces the     *)
(* library list.  A poll is split where the code releases a mutex or waits    *)
(* for Plex; one goroutine runs the polls, one after another.                 *)
EXTENDS SessionTracker

CONSTANTS
    LibOf,              \* [Items -> Libraries], the section an item is in
    BadItem,            \* a rating key that is not a number
    PollTimeout,        \* the 30 seconds of refreshSessions' context
    LibraryLists,       \* the library lists Refresh may leave
    Answers             \* [RawKeys -> Listing or Nil], answers Plex may give

\* One session as /status/sessions lists it.
Listing == [state : States, item : Items \cup {BadItem}, ts : Kinds \cup {Nil}]

ASSUME PollAssumption ==
    /\ BadItem \notin Items
    /\ PollTimeout \in Nat
    /\ LibOf \in [Items -> Libraries]
    /\ LibraryLists \subseteq SUBSET Libraries
    /\ Answers \subseteq [RawKeys -> Listing \cup {Nil}]

VARIABLES
    pc,                 \* where the poll goroutine is
    deadline,           \* when that context ends, 0 between polls
    answer,             \* the listing the poll is working on
    todo,               \* work items of the current loop still to do
    cur,                \* the work item applySessionUpdate is on
    media,              \* [RawKeys -> result of fetchSessionMedia]
    libs,               \* snapshotLibraries taken by this poll
    libraries,          \* Server.Libraries
    reachable,          \* Server.SessionsReachable
    ghost               \* history, read by the properties only

pvars == <<pc, deadline, answer, todo, cur, media, libs, libraries, reachable>>
vars == <<now, nextPrune, tracked, sessions, pc, deadline, answer, todo, cur, media,
          libs, libraries, reachable, ghost>>

NoAnswer == [r \in RawKeys |-> Nil]
NoMedia == [r \in RawKeys |-> Nil]

\* Mutant: rating keys are not checked.
WorkUnchecked(a) == {r \in RawKeys : a[r] # Nil}

\* Keys Plex lists, and those buildSessionWork keeps: a numeric rating key.
Present(a) == {r \in RawKeys : a[r] # Nil}
Work(a) == {r \in Present(a) : a[r].item \in Items}

PollInit ==
    /\ TrackerInit
    /\ pc = "idle" /\ deadline = 0 /\ answer = NoAnswer /\ todo = {} /\ cur = Nil
    /\ media = NoMedia /\ libs = {} /\ reachable = TRUE
    /\ libraries \in LibraryLists
    /\ ghost = [missed |-> [k \in Keys |-> 0], ended |-> [k \in Keys |-> 0],
                kept |-> {}, skipped |-> {}]
-----------------------------------------------------------------------------
\* The poll ticker fires and Client.Sessions is called.
PollTick ==
    /\ pc = "idle"
    /\ pc' = "fetch"
    /\ deadline' = now + PollTimeout
    /\ UNCHANGED <<tvars, answer, todo, cur, media, libs, libraries, reachable>>

\* Client.Sessions fails: the tracker keeps everything it has.
PollFails ==
    /\ pc = "fetch"
    /\ pc' = "idle" /\ deadline' = 0
    /\ reachable' = FALSE
    /\ UNCHANGED <<tvars, answer, todo, cur, media, libs, libraries>>

\* Plex answers; SetSessionsReachable(true).
PollAnswered ==
    /\ pc = "fetch"
    /\ answer' \in Answers
    /\ reachable' = TRUE
    /\ pc' = "mark"
    /\ UNCHANGED <<tvars, deadline, todo, cur, media, libs, libraries>>

\* Tracker.MarkAbsentStopped, then buildSessionWork: no work ends the poll.
MarkAbsent ==
    /\ pc = "mark"
    /\ MarkAbsentStopped(Present(answer))
    /\ todo' = Work(answer)
    /\ IF Work(answer) = {}
       THEN pc' = "idle" /\ deadline' = 0 /\ answer' = NoAnswer
       ELSE pc' = "resolve" /\ UNCHANGED <<deadline, answer>>
    /\ UNCHANGED <<cur, media, libs, libraries, reachable>>

\* fetchSessionMedia for one work item: skipped when the session is resolved,
\* else one /library/metadata read, which may fail and leave the result nil.
ResolveMedia(r) ==
    /\ pc = "resolve" /\ r \in todo
    /\ todo' = todo \ {r}
    /\ media' \in
         IF MediaResolved(r, answer[r].item) THEN {media}
         ELSE {media, [media EXCEPT ![r] = answer[r].item]}
    /\ UNCHANGED <<tvars, pc, deadline, answer, cur, libs, libraries, reachable>>

\* Every fetch returned: snapshotLibraries, and the apply loop starts.
SnapshotLibraries ==
    /\ pc = "resolve" /\ todo = {}
    /\ libs' = libraries
    /\ todo' = Work(answer)
    /\ pc' = "update"
    /\ UNCHANGED <<tvars, deadline, answer, cur, media, libraries, reachable>>

\* applySessionUpdate, first step: Tracker.Update.
ApplyUpdate(r) ==
    /\ pc = "update" /\ r \in todo
    /\ Update(r, answer[r].state, answer[r].item, media[r])
    /\ cur' = r
    /\ todo' = todo \ {r}
    /\ pc' = IF media[r] = Nil THEN "classify" ELSE "fill"
    /\ UNCHANGED <<deadline, answer, media, libs, libraries, reachable>>

\* fillSessionLibrary: only a session without a library name is filled.
Filled(s, item) ==
    IF s.lib = Nil /\ LibOf[item] \in libs THEN [s EXCEPT !.lib = LibOf[item]] ELSE s

\* applySessionUpdate, second step, when metadata was fetched.
FillLibrary ==
    /\ pc = "fill"
    /\ UpdateLibraryLabels(cur, Filled(sessions[Norm[cur]], media[cur]))
    /\ pc' = "classify"
    /\ UNCHANGED <<deadline, answer, todo, cur, media, libs, libraries, reachable>>

\* Mutant: the callback writes a new session instead of the tracked one's fields.
ClassifiedFresh(s, ts) ==
    [ZeroSession EXCEPT !.state = s.state, !.lastUpdate = s.lastUpdate,
                        !.kind = ts, !.video = (ts # Nil)]

\* classifyTranscode: without a TranscodeSession only the video pipeline clears.
\* In this model every decision in Kinds transcodes video.
Classified(s, ts) ==
    IF ts = Nil THEN [s EXCEPT !.video = FALSE]
    ELSE [s EXCEPT !.kind = ts, !.video = TRUE]

\* applySessionUpdate, last step; after the last work item the poll ends.
Classify ==
    /\ pc = "classify"
    /\ UpdateLibraryLabels(cur, Classified(sessions[Norm[cur]], answer[cur].ts))
    /\ cur' = Nil
    /\ IF todo = {}
       THEN pc' = "idle" /\ deadline' = 0 /\ answer' = NoAnswer /\ media' = NoMedia /\ libs' = {}
       ELSE pc' = "update" /\ UNCHANGED <<deadline, answer, media, libs>>
    /\ UNCHANGED <<todo, libraries, reachable>>

\* Refresh learns the library list after a degraded start, or a section comes
\* or goes.
RefreshLibraries ==
    /\ libraries' \in LibraryLists \ {libraries}
    /\ UNCHANGED <<tvars, pc, deadline, answer, todo, cur, media, libs, reachable>>

PollStep ==
    \/ PollTick \/ PollFails \/ PollAnswered \/ MarkAbsent
    \/ \E r \in RawKeys : ResolveMedia(r) \/ ApplyUpdate(r)
    \/ SnapshotLibraries \/ FillLibrary \/ Classify

\* Time passes between polls and while a poll waits for Plex, up to the poll's
\* deadline.  Between the critical sections of the apply loop nothing blocks.
ClockStep ==
    /\ pc \in {"idle", "fetch", "resolve"}
    /\ pc # "idle" => now < deadline
    /\ Tick
    /\ UNCHANGED pvars

PruneStep == Prune /\ UNCHANGED pvars
-----------------------------------------------------------------------------
\* missed: when polls began to miss a key (0: the last answer listed it).
\* ended: when a tracked session last became stopped.
\* kept: keys tracked when the poll's answer was applied and not pruned since.
\* skipped: work items whose metadata read the poll skipped.
IsStopped(T, S, k) == k \in T /\ S[k].state = "stopped"

Marked == pc = "mark" /\ pc' # "mark"

Observe ==
    ghost' = [
        missed |-> IF Marked
                   THEN [k \in Keys |->
                            IF k \in {Norm[r] : r \in Present(answer)} THEN 0
                            ELSE IF ghost.missed[k] = 0 THEN now ELSE ghost.missed[k]]
                   ELSE ghost.missed,
        ended |-> [k \in Keys |->
                     IF ~IsStopped(tracked', sessions', k) THEN 0
                     ELSE IF IsStopped(tracked, sessions, k) THEN ghost.ended[k] ELSE now],
        kept |-> IF Marked THEN tracked
                 ELSE IF pc' = "idle" THEN {} ELSE ghost.kept \cap tracked',
        skipped |-> IF pc' # "resolve" /\ pc # "resolve" THEN IF pc' = "idle" THEN {} ELSE ghost.skipped
                    ELSE ghost.skipped \cup
                         {r \in todo \ todo' : MediaResolved(r, answer[r].item)}]

Next == (PollStep \/ ClockStep \/ PruneStep \/ RefreshLibraries) /\ Observe

Spec == PollInit /\ [][Next]_vars
-----------------------------------------------------------------------------
\* The poll and tracker variables hold what the code can store in them.
PollTypeOK ==
    /\ TypeOK
    /\ pc \in {"idle", "fetch", "mark", "resolve", "update", "fill", "classify"}
    /\ deadline \in Nat
    /\ answer \in Answers \cup {NoAnswer}
    /\ todo \subseteq Work(answer)
    /\ cur \in RawKeys \cup {Nil}
    /\ media \in [RawKeys -> Items \cup {Nil}]
    /\ libs \subseteq Libraries /\ libraries \subseteq Libraries
    /\ reachable \in BOOLEAN

\* Every step the poll, the prune loop and the refresh take on the tracker is
\* one its own specification allows, so what holds for the tracker under any
\* caller holds here (refreshSessions, server.go:502-540).
TrackerContract == TrackerSpec

\* A session Plex no longer lists goes at most SessionTimeout + PruneInterval
\* after the first poll that missed it ("its series stay for 1 to 2 minutes
\* and then go"), however the polls and sweeps interleave: later polls that
\* miss it again must not renew it, and no late answer may bring it back.
EndedGoes ==
    \A k \in tracked : ghost.missed[k] # 0 =>
        now - ghost.missed[k] <= SessionTimeout + PruneInterval

\* A session that gets no update goes too, even if Plex keeps listing it under
\* an unusable rating key or every poll fails.
StaleGoes ==
    \A k \in tracked :
        now - sessions[k].lastUpdate <=
            PruneInterval + IF sessions[k].state = "stopped" THEN SessionTimeout ELSE StaleTimeout

\* A session is reclaimed only after it was stopped for more than
\* SessionTimeout, counted from when the tracker noticed: its final play time
\* stays scrapeable even when it ended during a poll outage.
EndedStays ==
    [][\A k \in tracked \ tracked' :
          sessions[k].state = "stopped" => now - ghost.ended[k] > SessionTimeout]_vars

\* The two keys of a poll's answer do not collide after the cut.
Alone(a, r) == \A q \in Present(a) : Norm[q] = Norm[r] => q = r

\* When a poll ends, every listed session that the tracker holds shows exactly
\* the listed state, item and video pipeline, and none that it held when the
\* answer arrived was dropped by a full map or by the loop over the others.
PollApplies ==
    [][pc = "classify" /\ pc' = "idle" =>
        \A r \in Work(answer) : Alone(answer, r) =>
            LET k == Norm[r] IN
            /\ k \in ghost.kept => k \in tracked'
            /\ k \in tracked' =>
                 /\ sessions'[k].state = answer[r].state
                 /\ sessions'[k].meta = answer[r].item
                 /\ sessions'[k].video = (answer[r].ts # Nil)]_vars

\* A skipped metadata read is never a loss: when a poll ends, a session whose
\* read succeeded, or was skipped while the session stayed tracked, carries the
\* listed item's metadata, and a library if the item's library was known.
PollResolves ==
    [][pc = "classify" /\ pc' = "idle" =>
        \A r \in Work(answer) :
            LET k == Norm[r] IN
            /\ Alone(answer, r)
            /\ \/ k \in tracked' /\ media[r] # Nil
               \/ k \in ghost.kept /\ r \in ghost.skipped
            => /\ sessions'[k].mediaMeta = answer[r].item
               /\ sessions'[k].mediaKey = answer[r].item
               /\ LibOf[answer[r].item] \in libs => sessions'[k].lib # Nil]_vars
-----------------------------------------------------------------------------
\* server.go:571-572, of a session whose metadata read is skipped:
\* "applySessionUpdate keeps the cached MediaMeta".
SkippedMediaKept ==
    [][\A r \in ghost.skipped :
          ApplyUpdate(r) /\ Alone(answer, r) /\ Norm[r] \in tracked'
             => sessions'[Norm[r]].mediaMeta = answer[r].item]_vars
==============================================================================
