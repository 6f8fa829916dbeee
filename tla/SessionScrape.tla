---------------------------- MODULE SessionScrape ----------------------------
(* collectSessions of internal/server/collect.go against the poll and prune   *)
(* loops: it copies the tracker map under the mutex (SnapshotSessions), then   *)
(* emits one session after another from the copy, reading the clock again for *)
(* each playing one.  One scrape runs at a time.                               *)
EXTENDS SessionPoll

CONSTANT ScrapeTime     \* the longest a scrape takes after its snapshot

ASSUME ScrapeAssumption == ScrapeTime \in Nat

VARIABLES
    snap,               \* [Keys -> Session], the copy being emitted
    pending,            \* published keys of the copy not emitted yet
    snapAt,             \* when the copy was taken, 0 between scrapes
    same,               \* history: keys tracked ever since the copy
    shown               \* history: [Keys -> Nat], last value emitted, per tracking

svars == <<snap, pending, snapAt, same, shown>>
allvars == <<vars, svars>>

NoSnap == [k \in Keys |-> ZeroSession]

ScrapeInit ==
    /\ PollInit
    /\ snap = NoSnap /\ pending = {} /\ snapAt = 0 /\ same = {}
    /\ shown = [k \in Keys |-> 0]

\* SnapshotSessions, and the skip of sessions never seen playing.
TakeSnapshot ==
    /\ snapAt = 0 /\ Published # {}
    /\ snap' = sessions
    /\ pending' = Published
    /\ snapAt' = now
    /\ same' = Published
    /\ UNCHANGED <<vars, shown>>

\* Mutant: the time since the start is added in every state.
EmittedAlways(s) == s.prev + (now - s.playStarted)

\* The value plex_play_seconds_total gets, from a copy made earlier.
Emitted(s) == IF s.state = "playing" THEN s.prev + (now - s.playStarted) ELSE s.prev

EmitSession(k) ==
    /\ k \in pending
    /\ pending' = pending \ {k}
    /\ shown' = IF k \in same THEN [shown EXCEPT ![k] = Emitted(snap[k])] ELSE shown
    /\ IF pending' = {}
       THEN snap' = NoSnap /\ snapAt' = 0 /\ same' = {}
       ELSE UNCHANGED <<snap, snapAt, same>>
    /\ UNCHANGED vars

\* A step of the poll, the clock, prune or refresh beside a scrape.
Beside ==
    /\ Next
    /\ now' > now /\ snapAt # 0 => now - snapAt < ScrapeTime
    /\ same' = same \cap tracked'
    /\ shown' = [k \in Keys |-> IF k \in tracked' THEN shown[k] ELSE 0]
    /\ UNCHANGED <<snap, pending, snapAt>>

ScrapeNext == Beside \/ TakeSnapshot \/ \E k \in Keys : EmitSession(k)

ScrapeSpec == ScrapeInit /\ [][ScrapeNext]_allvars
-----------------------------------------------------------------------------
\* A scraped play time never runs ahead of the session's own by more than the
\* scrape itself took, so a decrease seen by the next scrape is that small.
OvershootBounded ==
    \A k \in tracked : shown[k] <= PlaySeconds(k) + ScrapeTime

\* tracker.go:147-149, "keeping plex_play_seconds_total monotonic": while a
\* session stays tracked no scrape reads less than the one before it.
ShownMonotone ==
    [][\A k \in tracked \cap tracked' : shown'[k] >= shown[k]]_allvars
==============================================================================
