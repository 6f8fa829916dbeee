--------------------------- MODULE SessionTracker ---------------------------
(* The active-session map of internal/sessions: Update, MarkAbsentStopped,    *)
(* UpdateLibraryLabels, MediaResolved and the prune loop, each one critical   *)
(* section of the tracker's mutex.  Time is discrete and starts at 1, so 0    *)
(* can be Go's zero time.                                                     *)
EXTENDS Naturals, FiniteSets

CONSTANTS
    RawKeys,            \* session keys as Plex sends them
    Keys,               \* the keys after the cut to maxSessionKeyLen bytes
    Norm,               \* [RawKeys -> Keys], that cut: long keys may collide
    Items,              \* rating keys
    Libraries,          \* library sections
    Kinds,              \* transcode decisions (type and subtitle action together)
    Nil,                \* no item, no library, no decision
    MaxTracked,         \* maxTrackedSessions
    SessionTimeout,     \* sessionTimeout
    StaleTimeout,       \* staleSessionTimeout
    PruneInterval,      \* pruneInterval
    MaxTime             \* bound of the model's clock

ASSUME KeysAssumption == Norm \in [RawKeys -> Keys] /\ IsFiniteSet(Keys)
ASSUME NilAssumption == Nil \notin Items \cup Libraries \cup Kinds
ASSUME BoundsAssumption ==
    /\ MaxTracked \in Nat /\ SessionTimeout \in Nat /\ StaleTimeout \in Nat
    /\ PruneInterval \in Nat \ {0} /\ MaxTime \in Nat

VARIABLES
    now,                \* the clock
    nextPrune,          \* when RunPruneLoop's ticker fires next
    tracked,            \* the keys of the Sessions map
    sessions            \* [Keys -> Session], the zero value off tracked

tvars == <<now, nextPrune, tracked, sessions>>

States == {"playing", "paused", "stopped", "other"}   \* what ParseState returns

Session == [state : States \cup {"none"},    \* "none" is the zero State
            playStarted : Nat, lastUpdate : Nat, prev : Nat,
            meta : Items \cup {Nil}, mediaMeta : Items \cup {Nil}, mediaKey : Items \cup {Nil},
            lib : Libraries \cup {Nil}, kind : Kinds \cup {Nil}, video : BOOLEAN]

ZeroSession == [state |-> "none", playStarted |-> 0, lastUpdate |-> 0, prev |-> 0,
                meta |-> Nil, mediaMeta |-> Nil, mediaKey |-> Nil,
                lib |-> Nil, kind |-> Nil, video |-> FALSE]

\* The map and the clock hold what the code can store in them.
TypeOK ==
    /\ now \in Nat \ {0}
    /\ nextPrune \in Nat
    /\ tracked \subseteq Keys
    /\ sessions \in [Keys -> Session]

TrackerInit ==
    /\ now = 1
    /\ nextPrune = 1 + PruneInterval
    /\ tracked = {}
    /\ sessions = [k \in Keys |-> ZeroSession]
-----------------------------------------------------------------------------
\* Mutant: any cached metadata counts, also that of the previous item.
MediaResolvedAnyItem(id, item) ==
    LET k == Norm[id] IN k \in tracked /\ sessions[k].mediaKey # Nil /\ sessions[k].lib # Nil

\* MediaResolved: metadata for exactly this item and library labels are there.
MediaResolved(id, item) ==
    LET k == Norm[id] IN
    k \in tracked /\ sessions[k].mediaKey = item /\ sessions[k].lib # Nil

\* Mutant: the two times are subtracted the wrong way round.
BankedReversed(s) == s.prev + (s.playStarted - now)

\* bankPlayTime
Banked(s) == s.prev + (now - s.playStarted)

\* Update's metadata half: nil arguments leave what is there.
WithMeta(s, meta, mediaMeta) ==
    [s EXCEPT !.meta = IF meta # Nil THEN meta ELSE @,
              !.mediaMeta = IF mediaMeta # Nil THEN mediaMeta ELSE @,
              !.mediaKey = IF mediaMeta # Nil /\ meta # Nil THEN meta ELSE @]

\* Mutant: a change of state does not count as an update.
WithStateUntouched(s, newState) ==
    [s EXCEPT !.prev = IF s.state = "playing" /\ newState # "playing" THEN Banked(s) ELSE @,
              !.playStarted = IF s.state # "playing" /\ newState = "playing" THEN now ELSE @,
              !.state = newState]

\* Update's state half: bank on leaving "playing", start on entering it.
WithState(s, newState) ==
    [s EXCEPT !.prev = IF s.state = "playing" /\ newState # "playing" THEN Banked(s) ELSE @,
              !.playStarted = IF s.state # "playing" /\ newState = "playing" THEN now ELSE @,
              !.state = newState,
              !.lastUpdate = now]

\* The session Update leaves for an existing or zero session s.
Updated(s, newState, meta, mediaMeta) == WithState(WithMeta(s, meta, mediaMeta), newState)

\* Mutant: the limit is off by one.
MapFullOffByOne == Cardinality(tracked) > MaxTracked

MapFull == Cardinality(tracked) >= MaxTracked

\* Mutant: a full map rejects the update of a session it holds too.
UpdateRejectsAll(id, newState, meta, mediaMeta) ==
    LET k == Norm[id] IN
    /\ tracked' = IF MapFull THEN tracked ELSE tracked \cup {k}
    /\ sessions' = IF MapFull THEN sessions
                   ELSE [sessions EXCEPT ![k] = Updated(@, newState, meta, mediaMeta)]
    /\ UNCHANGED <<now, nextPrune>>

\* Update: a new session is rejected while the map is full.
Update(id, newState, meta, mediaMeta) ==
    LET k == Norm[id] IN
    /\ \/ /\ k \in tracked \/ ~MapFull
          /\ tracked' = tracked \cup {k}
          /\ sessions' = [sessions EXCEPT ![k] = Updated(@, newState, meta, mediaMeta)]
       \/ /\ k \notin tracked /\ MapFull
          /\ UNCHANGED <<tracked, sessions>>
    /\ UNCHANGED <<now, nextPrune>>

\* UpdateLibraryLabels: ss is what fn makes of the session, if it is there.
UpdateLibraryLabels(id, ss) ==
    LET k == Norm[id] IN
    /\ sessions' = IF k \in tracked THEN [sessions EXCEPT ![k] = ss] ELSE sessions
    /\ UNCHANGED <<now, nextPrune, tracked>>

\* Mutants: the running stretch is not banked; the end is not an update.
StoppedUnbanked(s) == [s EXCEPT !.state = "stopped", !.lastUpdate = now]
StoppedUntouched(s) ==
    [s EXCEPT !.prev = IF s.state = "playing" THEN Banked(s) ELSE @, !.state = "stopped"]

Stopped(s) ==
    [s EXCEPT !.prev = IF s.state = "playing" THEN Banked(s) ELSE @,
              !.state = "stopped",
              !.lastUpdate = now]

\* Mutant: each poll that misses a stopped session stops it again.
VanishedAgain(presentKeys) == tracked \ {Norm[id] : id \in presentKeys}

\* The tracked sessions MarkAbsentStopped moves: absent and not yet stopped.
Vanished(presentKeys) ==
    {k \in tracked \ {Norm[id] : id \in presentKeys} : sessions[k].state # "stopped"}

MarkAbsentStopped(presentKeys) ==
    /\ sessions' = [k \in Keys |->
                      IF k \in Vanished(presentKeys) THEN Stopped(sessions[k]) ELSE sessions[k]]
    /\ UNCHANGED <<now, nextPrune, tracked>>

\* Mutant: only stopped sessions expire.
ExpiredStopped ==
    {k \in tracked : sessions[k].state = "stopped" /\ now - sessions[k].lastUpdate > SessionTimeout}

\* The sessions prune reclaims now.
Expired ==
    {k \in tracked :
        now - sessions[k].lastUpdate >
            IF sessions[k].state = "stopped" THEN SessionTimeout ELSE StaleTimeout}

\* RunPruneLoop: one sweep each time its ticker fires.
Prune ==
    /\ now >= nextPrune
    /\ nextPrune' = nextPrune + PruneInterval
    /\ tracked' = tracked \ Expired
    /\ sessions' = [k \in Keys |-> IF k \in Expired THEN ZeroSession ELSE sessions[k]]
    /\ UNCHANGED now

\* Time passes, but not past a due sweep: the sweep only waits for the mutex,
\* which no caller holds across a blocking call.
Tick ==
    /\ now < MaxTime
    /\ now < nextPrune
    /\ now' = now + 1
    /\ UNCHANGED <<nextPrune, tracked, sessions>>
-----------------------------------------------------------------------------
\* What Collect publishes: nothing before the session was seen playing, then
\* the bank plus, while it plays, the time since PlayStarted.
Published == {k \in tracked : sessions[k].playStarted # 0}

Running == {k \in tracked : sessions[k].state = "playing"}

PlaySeconds(k) ==
    IF sessions[k].state = "playing" THEN Banked(sessions[k]) ELSE sessions[k].prev

Readings == [k \in Keys |-> PlaySeconds(k)]

\* The writes UpdateLibraryLabels callers make: labels only.
Labelled(s, l, t, v) == [s EXCEPT !.lib = l, !.kind = t, !.video = v]

\* The tracker under any caller: every method with any argument at any time.
TrackerNext ==
    \/ Tick
    \/ Prune
    \/ \E id \in RawKeys, st \in States, meta, mediaMeta \in Items \cup {Nil} :
            Update(id, st, meta, mediaMeta)
    \/ \E id \in RawKeys, l \in Libraries \cup {Nil}, t \in Kinds \cup {Nil}, v \in BOOLEAN :
            UpdateLibraryLabels(id, Labelled(sessions[Norm[id]], l, t, v))
    \/ \E present \in SUBSET RawKeys : MarkAbsentStopped(present)

TrackerSpec == TrackerInit /\ [][TrackerNext]_tvars
-----------------------------------------------------------------------------
\* The map never holds more than maxTrackedSessions sessions (tracker.go:168),
\* whatever the callers do and however prune and Update interleave.
CapRespected == Cardinality(tracked) <= MaxTracked

\* Every tracked session is one that Update stored, with its times in order:
\* the bank never exceeds the time before the current stretch of play, which
\* began no later than the last update.  An untracked key holds nothing, so a
\* reclaimed session starts again from zero (tracker.go:150-193, 202-225).
TimesOrdered(s) ==
    /\ s.state \in States
    /\ 1 <= s.lastUpdate /\ s.lastUpdate <= now
    /\ s.playStarted <= s.lastUpdate
    /\ s.prev <= s.lastUpdate
    /\ s.state = "playing" => 1 <= s.playStarted /\ s.prev <= s.playStarted

SessionsSane ==
    /\ \A k \in tracked : TimesOrdered(sessions[k])
    /\ \A k \in Keys \ tracked : sessions[k] = ZeroSession

\* The published play time is a meter that counts exactly the time a session
\* was tracked as playing: no pause, end, absence, full map, label write or
\* sweep adds a second, loses one or counts one twice.
Meter == INSTANCE PlayMeter WITH live <- Published, running <- Running, reading <- Readings
MeterSpec == Meter!MSpec
=============================================================================
