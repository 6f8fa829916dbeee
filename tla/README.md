# A TLA+ model of plex-exporter

This directory holds a TLA+ specification of the parts of plex-exporter that
are hard to get right by testing: the session tracker and the poll that feeds
it, the scrape that reads it, the watch-history store and its reads, the library
walk that joins that history with the catalog, the figures a walk makes of its
rows, the refresh with its item counts, bandwidth samples and background reads,
the pacer that hands out request slots, and the life of the process. TLC checks
them on small instances; TLAPS proves every safety property that the passing runs
check for every value of the constants.

Source references are to this repository, `src/` being its root.

## 1. Inventory

| Component | Source | State | Operations |
|---|---|---|---|
| Session tracker | `internal/sessions/tracker.go` | map of at most 256 sessions under a mutex | `Update`, `MarkAbsentStopped`, `UpdateLibraryLabels`, `MediaResolved`, `SnapshotSessions`, prune loop |
| Session poll | `internal/server/server.go:474-650` | poll locals, `SessionsReachable` | one goroutine, a poll every 5 s, 30 s deadline, up to four metadata reads at once |
| Session scrape | `internal/server/collect.go` | a copy of the map | `collectSessions` |
| Watch history | `internal/history/history.go` | watched map, generation, status, cursor, drain | `Bootstrap`, `Incremental`, `catchup`, `View`, `Visit`, `Prune`, `Run` |
| Library walk | `internal/server/walk.go` | per-library figures with a stamp, pass number, a one-token signal | hourly full passes, stale-only passes |
| Publishing | `internal/server/collect_catalog.go` | none, a snapshot | rules for watch figures and the complete flag |
| Refresh | `internal/server/server.go:86-472`, `internal/library/library.go` | identity, library list, counts, bandwidth watermark | every 5 s, skipped while one runs |
| Background reads | `internal/server/background.go` | sections, activities, update, scan schedule and their read times | four cadences under one deadline each |
| Pacer | `internal/pacer/pacer.go` | next free slot | `Wait` |
| Library figures | `internal/libstats` | accumulator, key set, top lists | `Aggregate`, `MergeRecent` |
| Lifecycle | `main.go` | health marker, reachability flags, the loops | start, degraded start, serve, drain, exit, kill |
| Plex client, metric descriptors, label tables | `internal/plex`, `internal/metrics`, `internal/sessions/classify.go` | none of their own | wrappers and constants |

**How they interact.** The poll, the prune loop, the refresh loop, the history
loop and the walk loop are goroutines of one process; scrapes come from
outside. They share the tracker (its mutex), `Server` (its mutex: library list,
walk figures, background state) and the history store (its mutex). No caller
holds one of these mutexes across a request, and that is why the models split
each operation exactly where a mutex is released or a request is made. The
history loop tells the walk loop of a finished rebuild through a channel of
capacity one. The refresh, the history and the walk loops draw their requests
from one pacer; a wait for a slot ends with the slot or with its context. A
restart starts from nothing but one file: the health marker that Docker's health
check looks for, which a killed process leaves behind.

**What is hard, and what makes each part correct.**

* *Tracker and poll.* Play time is kept as two timestamps and a bank that is
  settled in two places; it must count each second of play once. An ended
  session must stay scrapeable for a while and then go, through outages, sweeps
  and unusable answers. A poll acts on what it read up to 30 seconds ago.
* *Scrape.* It mixes a copy with a later reading of the clock.
* *History and walk.* A walk takes minutes and asks the history for every item,
  while the history may be rebuilt, discarded or lapse, items may come and go,
  and the listing shifts under the paging. Its figures must not be published
  unless they come from one complete history; its prune must not lose the plays
  of items that exist.
* *Refresh and background reads.* One query of many fails and the others must
  keep their place; the list changes between two rounds. Four reads share what is
  left of one deadline: one that hangs must not take the turns of those after it,
  an answer must stay published from one good read to the next, and one with an
  age limit must not stay for ever.
* *Bandwidth.* Overlapping windows of samples, told apart by a second alone.
* *Pacer.* Cancelled waits keep their slots; two callers must never be closer
  than an interval, and no wait may grow long.
* *Figures.* Rows repeat with other contents and in any order; sums overflow;
  lists are cut; a key list turns into a bitmap. Every figure must be what the
  set of distinct items says.
* *Lifecycle.* A signal, a failure or a kill at any moment of the start; the
  marker must never vouch for a process that does not serve, and a degraded start
  must heal by itself.

The hazards are listed one by one, at their lines, in `PROJECT.json`.

## 2. The modules

| Module | Extends | Models |
|---|---|---|
| `PlayMeter` | | what the tracker promises: a meter per session |
| `SessionTracker` | | the tracker, any caller |
| `SessionTrackerProofs` | `SessionTracker` | theorems and proofs |
| `SessionPoll` | `SessionTracker` | the poll loop beside the prune loop and the refresh |
| `SessionScrape` | `SessionPoll` | a scrape beside all of these |
| `SessionPollProofs` | `SessionScrape`, `SessionTrackerProofs` | theorems and proofs on the poll and the scrape |
| `PlexCatalog` | | external: Plex's items, their listing by offset, their newest plays |
| `WatchStore` | `PlexCatalog` | the history store and the loop that fills it |
| `HistoryReads` | | how the store pages through the history |
| `HistoryReadsProofs` | `HistoryReads` | theorems and proofs |
| `LibraryItems` | | `Refresh`: the library list and the item counts |
| `LibraryItemsProofs` | `LibraryItems` | theorems and proofs |
| `LibraryWalk` | `WatchStore` | the walk loop beside history, Plex, refresh and publishing |
| `LibraryWalkProofs` | `LibraryWalk` | theorems and proofs |
| `LibStats` | | the figures of a walk and the merged list of newest items |
| `LibStatsProofs` | `LibStats` | theorems and proofs |
| `Bandwidth` | | the bandwidth samples of a refresh |
| `BackgroundReads` | | the reads that end a refresh, their cadences and freshness |
| `Pacer` | | the request slots, any callers |
| `RefreshProofs` | `Pacer`, `Bandwidth`, `BackgroundReads` | theorems and proofs on the slots and on the two parts of a refresh |
| `Exporter` | `Pacer` | the process: start, loops, slots, drain, kill, restart |
| `ExporterProofs` | `Exporter`, `RefreshProofs` | theorems and proofs |
| `MCSessionPoll`, `MCSessionScrape`, `MCLibraryWalk`, `MCLibraryItems` | | instances for TLC |
| `MCFigures` | `HistoryReads`, `LibStats` | an instance that runs one of the two at a time |
| `MCProcess` | `Exporter`, `BackgroundReads`, `Bandwidth` | an instance that runs one of the three at a time |

A definition whose comment begins "Mutant" is a plausible bug of the definition
that follows it. Nothing uses it; it is put in that definition's place to see
that a property notices.

### Session tracker (`SessionTracker`)

`sessions` is the Go map, `tracked` its key set; a key off the map holds the
zero session, as a Go map lookup returns. `Norm` is `normalizeKey`: keys may
collide after the cut. Time is a number that starts at 1, so 0 is Go's zero
time. Each method is one action, because it is one critical section: `Update`
is `WithMeta` (lines 173-182) and `WithState` (184-193) under the limit test
`MapFull` (167); `MarkAbsentStopped` applies `Stopped` to `Vanished`; `Prune`
removes `Expired` each time the loop's ticker is due. `Tick` does not pass a
due sweep: the sweep waits only for a mutex that nobody holds across a request.
`Published`, `Running` and `PlaySeconds` are what `collectSessions` makes of the
map at one instant.

Metadata is an item or nothing; `Kinds` stands for the transcode kind, subtitle
action and codecs, which are always written together.

`PlayMeter` says the same without timestamps: a meter per published session
that counts while it runs. `MeterSpec` is the refinement.

### Session poll (`SessionPoll`)

`pc` walks through `refreshSessions`: `fetch` (waiting for `/status/sessions`),
`mark` (`MarkAbsentStopped` and `buildSessionWork`), `resolve` (one
`ResolveMedia` per work item, in any order, each skipped, answered or failed),
`update`, `fill`, `classify` (the three critical sections of
`applySessionUpdate`). The clock runs while the poll waits for Plex, up to
`PollTimeout`, and between polls; the sweep may come between any two steps. A
session listed without a session key is dropped by the code before anything
else and is not an input here; one with an unusable rating key is (`BadItem`):
it counts as present but makes no work. A work item's metadata result does not
depend on the tracker after the `MediaResolved` test, so the test and the result
are one step. `ghost` records history for the properties and guards nothing.
Work items are applied in any order; the code uses Plex's.

### Session scrape (`SessionScrape`)

`TakeSnapshot` copies the map; each `EmitSession` reads the clock anew for a
session of the copy. `ScrapeTime` bounds how long this takes. `shown` is the
last value emitted for a key since it was last reclaimed. One scrape at a time.

### Watch history (`WatchStore`)

`watched` maps each item to its newest play (`at`, 0 for no entry) and the pass
that last marked it. `BootStarts`, `BootCompletes` and `BootFails` are
`Bootstrap`; it reads into maps of its own, so until its last critical section
the store is unchanged, and what it `Found` of an item is the newest play at
its start or a later one. `MergeRow`, `UnmatchedRow` and `CatchupRow` fold one
row of an increment or of the catch-up, one critical section each. `fresh`
stands for "the last success is less than an hour ago"; it lapses at any time
and comes back with a successful increment. `Visited` and `Prunable` are
`Visit` and `Prune` on the map. Left out: pages, caps and the drain (in
`HistoryReads`), the retry delays, the row counts (`unmatched` is a flag).

### History reads (`HistoryReads`)

`hist` is Plex's history in the order it lists it; `Arrive` puts a row at its
place, at the end or far before. `rd` holds the locals of the read under way:
its `since`, first row `start` and rows `got`, the newest time seen, and for a
full read the map it builds. `ReadPage` is one request and the fold of its rows,
`OverLimit` the row past the cap, `ReadEnds` and `ReadFails` the other two ways
out of `read`; each does what `Bootstrap`, `Incremental` or `catchup` then does.
A source may see the end of the history in a short page. An unusable row (of a
deleted item, or without a key or a play time) only moves the cursor. The rows
of a page are folded in one step although each has its own critical section:
nobody else writes what they change except `Visit` and `Prune`, which are in
`WatchStore`. The catch-up starts at any time, which covers every clock. `late`
marks a play that arrived where the reads had passed; it guards nothing.

### Refresh (`LibraryItems`)

`rpc` walks through `Refresh`: `providers` (when due), `identity`, `counts` (when
due), `rest`. `work` is the copy of the list that the workers fill, each entry
at its place in the chain of queries of `ItemCountTypes`. The two ages are times
since a stamp and are not told apart once due. Plex answers any list and any
count; any request may fail, which covers the 45-second deadline. `rest` stands
for the host, bandwidth and background reads, which touch none of this module's
state; the last two are modules of their own. `answered` is history.

### Library walk (`LibraryWalk`)

`wpc` is where the loop is, `p` and `w` are the locals of `walkPass` and
`walkLibrary`. The loop first waits for the library sections (`SectionsKnown`,
`waitForSections`), which `RefreshSections` reads at any time after the library
list, or never. `FullPass` and `StalePass` begin a pass (`p.start`, the library
list), `PassGen` reads the generation and takes a pass number, `NextLibrary`
chooses or skips a library, `ReadItem` reads one row and visits it, `ReadEnds`
closes the generation bracket, `StoreWalk` or `WalkFails` records the outcome,
`EndPass` drops the libraries that were not listed and `Prune` ends a clean full
pass. Rows are read by offset, so a deletion shifts those behind it. `Publishes`
and `WatchAgeComplete` are the conditions of `collect_catalog.go:94` and `:59`.
`g` and the variables marked history guard nothing. Among them are `w.due`, the
items that were in the library when its walk began and are still there, without
those whose rows a deletion moved past the walk, and `owed`, what the stored
walks have to cover: the `due` of each library's last one, and every present item
of a library that has none.

### Library figures (`LibStats`)

`CountRow` is `accumulator.add` of the first row of a key, `SkipRow` of a row
whose key does not parse or was read before. `WithRow` holds the counts and the
bytes, `WithMovie` and `WithEpisode` what a movie does to the lists and an
episode to its show; `FinishShow` is one turn of the loop in `finish`, over a map
and so in any order. `groups` is the key set of `keyset.go` as it is stored: a group is a sorted list
with a binary search (`SearchPlace`) or a bitmap of words of `WordSize` bits;
`WithKey` inserts at the place searched, or makes a bitmap of a full list
(`AsBitmap`) and sets the new key's bit; `InSet` looks a key up in what is there.
That this is the set of the counted keys is what `FiguresTrue` says. `Overflow` is the
failed walk of a sum past `MaxBytes`; the code finishes the row before it gives
the walk up, and nothing reads that row. A row is a record of a Plex item; history
answers any play of `PlayTimes`. Titles, years and episode names are left out.
`counted` is history: with which row and last play each key was counted. The
properties compare every figure with its definition over that set; `PlayedIn`
defines the age buckets by the times between which a last play lies. `WithList` is
the inner loop of `MergeRecent`, `MergeRecent` the outer one. A key is a number
(one that does not parse is 0), a part's size any number (Plex states 0, or
nothing, of a size it does not know). The lists of the other libraries are
given, and no key is in two lists: an item that moved to another library and is
in both lists until the library it left is walked again is not modelled.

### Bandwidth (`Bandwidth`)

`samples` is what Plex has listed, `Listed` what a read returns: the window.
`refreshBandwidth` adds `NewSinceRead` and moves the watermark. `Clock` and
`List` are Plex's, `Lag` bounding how late it lists a sample. `counted` stands for
`TransmitBytes`, by sample. A failed read changes nothing and has no action.

### Background reads (`BackgroundReads`)

`bpc` walks through a `Refresh`: `head` for everything before
`refreshBackground`, then `slot` (`paced`) and `read` for each read that was due
when the reads began and is still to be made (`todo`; `First` is the next in
the code's order, or the one under way). `left` and `rleft` are what remains of the
deadlines of the `Refresh` and of the read. `age` is the time since a read was
last tried and `good` the time since its last good answer, both only as far as
they are compared. `Published` is the freshness test of a snapshot. What comes
before the reads (`server.go:112-169`) has no deadline but that of the whole
`Refresh`, so `head` may take any part of it, or all of it (`RefreshFails`). A
slot wait takes no time here: `SlotSoon` shows that it takes at most 1.5 seconds
plus the lost slots, less than a unit. `health` is Plex: `well` answers within
a unit, `slow` answers or fails up to the deadline, `down` fails. A good update
answer always makes the update known here; `decideUpdate` may leave it unknown.

### Pacer (`Pacer`)

All times are relative to the present, so the state is finite while the clock
runs on: `ahead` is `next - now`, never below zero because `Wait` takes the later
of the two; `delay` is the time to a caller's slot. `Reserve` is the critical
section, `SlotReturns` and `GiveUp` the two ways out of the `select`. `gap` (time
since a slot came) and `lost` (the slots of cancelled waits) are history.

### Process (`Exporter`)

`phase` is where `main.run` is; each way out of it is `Exit`, whose deferred
calls remove the marker. The startup `Refresh` and the refresh loop share
`rstate`: `head` up to the identity answer, whose failure fails the `Refresh`,
`tail` for the rest, which cannot fail it but waits for slots. `StartDegraded`
starts the refresh loop after a failed startup `Refresh`, `StartConnected` after
one that worked. `TakeSlot`, `EndWait` and `SlotReturns` are the pacer's, by the
loops that may ask; `MaxLost` bounds the cancelled waits whose slots are still to
come. `Signal`, `Crash` and `PlexChanges` are the environment's and may come at
any moment; `Launch` is Docker's. `Fresh` is the empty memory of a new process.
When a loop sees that its context ended is not modelled: after the signal it
may go on or stand still, and nothing but the end of the process is visible.
`early` is history: the signal came before Plex had answered the startup
`Refresh`, and no answer came in after all.

## 3. Runs

| Run | Properties | Bounds |
|---|---|---|
| `SessionPoll` | `PollTypeOK` `EndedGoes` `StaleGoes` `EndedStays` `PollResolves` | 1 session, 2 items of 2 libraries, time to 5 |
| `SessionPollFull` | `CapRespected` `PollApplies` `TrackerContract` | 3 raw keys on 2, room for 1, time to 3 |
| `SessionScrape` | `TypeOK` `SessionsSane` `OvershootBounded` `MeterSpec` | 1 session, time to 5, a scrape takes up to 1 |
| `SessionPollSkipRace` | `SkippedMediaKept` (violated) | as `SessionPoll`, time to 8, longer timeouts |
| `SessionScrapeMonotone` | `ShownMonotone` (violated) | as `SessionScrape` |
| `LibraryWalkPrune` | `WalkTypeOK` `CompleteCovers` `PruneSafe` | a library of 2 items, one that comes with its item, limit 1, 1 full read, 1 full pass, time to 2 |
| `LibraryWalkFigures` | `WatchTruth` | 1 item, 3 full reads, 2 hourly passes, time to 3 |
| `LibraryWalkPublish` | `FiguresAppear` | a library of 1 item, one that comes before it, limit 1, 2 full reads, time to 2 |
| `LibraryWalkLate` | `VisitedSpared` (violated) | 1 item |
| `ReadsAndFigures` | `ReadTypeOK` `NoPlayLost` `ReadCovers` `PlaysArrive` | 5 rows of 1 item or unusable, times 1-2, pages of 2, 1 page a read |
| | `StatsTypeOK` `FiguresTrue` `BreakdownsAgree` `TopListsExact` `MergedRecentExact` | 10 rows of 5 items and 2 shows, lists of 2, sums to 7, groups of 5 keys in words of 3 bits, a bitmap at the fourth key |
| `LibraryItems` | `ItemsTypeOK` `CountTruth` `CountsAppear` | a music, a show and a foreign directory in any order, 2 workers, counts 0-1 |
| `Process` | `MarkerHonest` `EarlyStopStartsNothing` `SlotSoon` `SlotsApart` `DegradedRecovers` | 3 callers, an interval of 2 units, 1 lost slot |
| | `BgTypeOK` `EveryReadTried` `AnswersStay` `AnswersLapse` | 4 reads, units of about ten seconds |
| | `SamplesCountedOnce` | 2 devices, 4 seconds, a window of 2, a lag of 1 |

**Why the bounds are enough.** A time unit of the session runs is the sweep
interval (one minute); the timeouts keep their order (end before stale) at 1
and 2. `SessionPoll` at time 5 lets a session be seen, end or go stale, be swept
and come back. Two raw keys that collide, one that does not, and a map with one
place exercise every branch of the limit. In the walk runs a clock value is a
moment that a play, a pass start or a read can fall before or after; two are
enough to tell "before the pass" from "during it", and three for a play that
comes after the first read and before the pass. The prune run has a library of
two items, the first of which may be deleted while the walk reads, so that the
second one's row is passed over, and a second library that comes while the pass
runs and is past the limit. `WatchTruth` is about one library and about when its
row is read between full reads: its run has one item, three full reads, which
give two discarded maps and the one that stays, and two hourly passes, which
give a failed walk after a good one. The publishing run has the library that
comes before the other and pushes it past the limit, and no hourly pass that
could help. In `HistoryReads` a full read takes two rows and the history
has up to five, so full reads overrun, and an increment that starts from an
empty map needs up to three reads with two open drains between them; two times
suffice for rows before, at and after the cursor and for rows that share it.
The overlap is zero there, the hardest case. Bounds named `Max...` only guard the clock, the full reads, the
passes and the lost slots. The last full read always completes (`BootFails` needs a read left).

The tracker's own invariants are checked where it is driven: with a scrape
beside it (`SessionScrape`) and with a full map (`SessionPollFull`); its proofs
cover any caller.

`Process` checks three modules that share no variable, and `ReadsAndFigures` two.
`part`, chosen at the start, says which of them moves, and the others stay as
they begin; every
behaviour of each module is a behaviour of the run, and the states add up
instead of multiplying. The process part has an interval of two units, so that a
slot may fall between two ticks, and all three callers.
The background part scales the cadences (sections a minute, activities 30 s,
update and preferences 15 minutes) to 3, 2, 4 and 4 units against a `Refresh` of 4
and reads of 1: four reads of a unit each and a head that takes some time do not
fit, which is the case at issue, and the reads fall due together again and
again. The head may
take anything up to the whole `Refresh`. The activities and the scan schedule are
`Lasting`, for three cadences each. In `LibStats` a library with five items overflows, has
lists that are full, ties in size and date, two readings of a key that differ in
every field, an item of unknown size, one without a show and a bitmap.

**Fairness.** The session runs assume none. `LibraryWalk!FairSpec`: the full history read ends and is retried (deadline and
timer), the token is sent, and the walk loop goes on (each walk has a
deadline); nothing is assumed of the hourly timer, the increments or Plex, nor that the
sections are ever read: `FiguresAppear` speaks of the behaviours in which they are.

`HistoryReads!FairSpec`: a full read is retried while none completed, the
increment's ticker is served, and a read ends or fails (its requests have
deadlines). `PlaysArrive` then assumes that reads stop failing, and the bound on
rows that plays stop arriving. `LibraryItems!FairSpec`: the refresh ticker fires,
requests end (45-second deadline) and time passes; `CountsAppear` assumes that
requests stop failing and the list stays.

`Exporter!ExporterFairness`: the refresh and poll tickers fire, the head of a
`Refresh` ends (its 45 seconds), time passes and a slot that has come is taken. The
end of a `Refresh`'s tail is strongly fair, since it waits for several slots, one
after the other, and makes finitely many reads. Nothing is assumed of Plex, of
`main`, or of any failure. `MCProcess` gives `BackgroundReads!BgFairness` where
that part moves: a `Refresh` goes on, because each of its requests ends, and time
passes. `AnswersStay` and `AnswersLapse` assume a state of Plex that lasts, `EveryReadTried`
that enough time is left again and again.

**What they show.** The passing runs hold as stated. Three statements of the
code's comments do not:

1. `VisitedSpared` (`history.go:136-137`): `Visit` records nothing for an item
   that has no entry yet. If its first play is merged later in the pass, the
   pass's own prune deletes it, provided the play is older than the pass start.
2. `SkippedMediaKept` (`server.go:571-572`): a sweep between `MediaResolved` and
   `Update` leaves one poll's series without metadata.
3. `ShownMonotone` (`tracker.go:147-149`): a scrape that straddles a pause shows
   more than the next one.

`NoPlayLost` and `PlaysArrive` cover every play except one that Plex reports
behind the reads: later than the overlap, or behind the row that a read or an
open drain has reached. That second case is wider than the five minutes of the
overlap suggest, since a full read may last twenty; the daily catch-up is what
brings such plays in (`ReadCovers`).

`CountTruth` takes the answers as the code does: a failed track query is passed
over like a zero (a test expects it), so a music library's count may be that of
another kind while only the track query fails.

`SamplesCountedOnce` names the samples the counter misses: those listed after a
sample of their second or of a later one was read, those that left the window
unread, and those no newer than the start. No sample is added twice.

`AnswersStay` speaks of a Plex that answers promptly. `background.go:30-36` says
that the activities outlast a failed read or two; that is so when reads end
quickly, but a read every 30 seconds of which two in a row hang up to their
deadline, behind others that do, may come later than the 90 seconds. `AnswersLapse` is about
the activities and the scan schedule only: the update status and the sections
have no age limit and stay published as long as no `Refresh` gets as far as
their read (`background.go:232`).

`EveryReadTried` holds for a read when `Refresh`es again and again reach the reads
with more left than those before it can hang: each takes its own ten seconds at
most. It promises nothing when the head uses up most of the 45 seconds every
time. The code has nothing against that: with a head of 35 seconds each time,
the sections and the activities use up the rest in turn, and the update status
and the preferences are never read.

`CompleteCovers` is what the complete flag is worth: every item that was in Plex
when the last walk of its library began has a figure, unless a deletion moved
its row past the walk, which the flag cannot know, or `Prune` lost its play. The
hour between two walks is in it too: an item that comes after the walk of its
library began is not vouched for before the next one.

`MarkerHonest` allows one dishonest moment, which the code cannot avoid: between
a kill and the first statement of the next process.

The session flag is set by the startup `Refresh`, before any poll (`main.go:97`);
`monitoring.md:21` describes it as the result of a poll. `StartConnected` has it
so; the first poll follows within five seconds.

`PruneSafe` names every way a prune can lose a play of an item still in Plex:
the one above, a library not in the list when the pass began, and a row skipped
because a deletion shifted the listing (`libstats.go:84-85` mentions the skip).

## 4. Proofs

All theorems are about the specifications without fairness, which the fair ones
imply. The assumptions are those named in the modules: bounds, timeouts and
caps are numbers (positive where the code has a positive constant), key sets are
finite, `Nil` is no item, library or kind. Every inductive invariant was checked
by TLC on the runs' instances, and on larger ones, before it was proved.

**Tracker.** `SessionTrackerProofs`, for any keys, cut, bound and timeouts:

* `TypeCorrect`, `CapHolds`, `SaneTimes`: the invariant `TrackerInv` is `TypeOK`,
  `CapRespected` and `SessionsSane` together. The bound needs the type invariant
  (a finite key set); the times need it for arithmetic and need "an untracked
  key is zero", because `Update` of a new session starts from the zero session.
* `MeterImplemented`: the tracker implements `PlayMeter`. One lemma per action
  says which meter step it is. The invariant is needed where a difference of
  times is split: `prev + (now - playStarted)` grows by one per tick only if the
  session began no later than now.

**Poll and scrape.** `SessionPollProofs`, for any sessions, answers, libraries and
timeouts:

* `ContractKept`: every step of the poll, the sweeps and `Refresh` is a step of the
  tracker's specification, so the tracker's theorems hold of the program
  (`PollCapSane`, `MeterUnderPoll`).
* `StaleSessionsGo`, `EndedSessionsGo`, `EndedSessionsStay`. A bound on how long a
  session stays is not inductive: `SweptInTime` adds that no sweep is late and
  that the next one comes before any tracked session outlives its timeout by an
  interval; `MissedStopped` that a session polls miss stays stopped with the
  time of the first miss, because the poll at work updates only what it lists;
  `EndsStamped` that a stopped session ended no later than its last update.
* `PollsApply`, `PollsResolve`: what a poll leaves of its answer. The properties
  speak of the last step of a poll; `AppliedSoFar`, `ResolvedSoFar`,
  `SkippedResolved` and `MediaPaired` say the same of the work items behind the
  apply loop, with the item at hand as the exception, and `PollShape` ties the
  locals to the place in the code. The sweep may come between any two steps,
  so each speaks of sessions still tracked.
* `ScrapeBesidePoll`: the specification with scrapes implements the poll's, so
  all this holds beside scrapes. `OvershootIsBounded` adds the scrape's own
  invariant: the copy of a session that was not reclaimed since is worth no more
  than the session.

**Pacer and process.** `RefreshProofs`, for any finite set of callers, any interval
and any number of cancelled waits:

* `SlotsAreApart`: `SlotsApart` is about steps: that a slot comes an interval
  after the last one depends on slots given long before. `PacerInv` adds that
  the next slot lies an interval past every slot given and past the last that
  came, and the slots given lie an interval apart.
* `SlotsComeSoon`: the bound on waits needs `SlotLadder`: the slots given or lost
  lie an interval apart below the next one without a hole, and the lowest is
  within an interval, so a slot's height counts the slots under it.

`ExporterProofs`: `ProcessSlotsApart` and `ProcessSlotsSoon` carry both over to the
process with its kills, restarts and two kinds of start, where the pacer begins
anew; `MarkerTells` is inductive as it stands, since `MarkerHonest` says of each
phase what the marker is; `EarlyStops` adds that an early signal is remembered
(`signalled`) as long as the startup `Refresh` has no answer, and that no loop runs
before main goes on from it (`EarlyInv`); `ExporterTypes` has the types.

**Bandwidth.** `RefreshProofs` too, for any devices, window, lag and clock:
`CountedOnce`. The two halves of `SamplesCountedOnce` need each other and one
more fact (`BwInv`): the watermark is the newest second any read has shown, so a
sample above it was never counted, and one at or below it that was not
counted came late or left the window.

**Background reads.** `RefreshProofs`, for any reads, cadences, freshness limits and
deadlines: `BackgroundTypes`, that a `Refresh` is at a slot or at a read exactly
while a due read is left to make, that neither deadline is overrun, and that no
age passes what it is compared with. The deadlines need each other:
`PassTyped` adds that a read's deadline is never later than its `Refresh`'s and
that nothing runs outside a read.

**Library figures.** `LibStatsProofs`, for any rows in any order with any
repetitions, any plays, any lengths of lists and key lists, and any limit of the
sums: `StatsTypes`, `FiguresAreTrue`, `BreakdownsAlwaysAgree`, `TopListsAreExact`,
`MergedRecentIsExact`. What is assumed of the rows and the lists is said in section 2
(`RowsAssumption`, `OthersAssumption`).

* `StatsInv` has one part for each part of the state: the groups and the counted
  rows are of their kinds (`GroupsOK`, `CountedOK`); the figures have their
  types and stay within the limit (`StatsSet`, `Fits`); the key set holds the
  counted keys, and every figure is that of the counted rows (`Figures`,
  `BreakdownsAgree`); every show is that of its counted episodes, and the finished
  shows are taken out of the map one by one (`ShowsInv`); each list is the top of what it was offered so far (`Lists`). A
  figure is exact only because a key enters at most once, and the lists are exact
  only because no key is offered twice; both come from the part of `Figures`
  that says that the key set knows exactly the counted keys.
* That part is about lists and bitmaps, not about sets. `GroupsOK` keeps every
  group's list sorted: on a sorted list the binary search ends where the key is
  or belongs (`SearchFinds`), so an insertion keeps the order and finds the old
  keys and the new one (`ListGrows`). `BitmapOfList` says that the bitmap made of
  a list has the list's keys, because two keys of a group have no bit in common
  (`BitsApart`); `WithKeyStep` joins the three forms.
* The sums and maxima are folds of the community modules, which choose the
  elements in any order. `SumEquation` gives the sum of a set as its element's
  and the rest's, for every finite set, and the lemmas after it are what the
  figures need (`SumAdd`, `SumPlus`, `SumByClass`). They are proved by
  `SetInduction`: among the subsets of a finite set that break a claim one is
  smallest, a fact of the library's theorems on well-founded orders that takes
  no operator as a parameter.
* `InsertTopIsTop` says of `insertTop` that the first `TopN` of a set become the first
  `TopN` of the set with one more entry, place by place: before the entry's place
  nothing moves, after it everything moves one on and the last may fall off.
  `MergeTop` carries this over the two loops of `MergeRecent`, and `TopOfTop`
  says why the lists may be cut before they are merged: an entry cut from its own
  library's list has `TopN` entries before it in the merged one too.

**Library list.** `LibraryItemsProofs`, for any listings, cap and number of workers:
`CountsTrue`. `ItemsInv` adds that the list names no library twice, that the
workers' entries are the list's, place for place, in their phase only, that an
entry's count is the outcome of the answers it has (`CountedSoFar`), and that a
library that left the list takes its count with it (`AnswersListed`). The
workers may finish in any order; `KeptPlaces` and `BuildList` say what the
rebuilt list is.

**Library walk.** `LibraryWalkProofs`, for any libraries, items that come, go and
are played, any limit and any number of full reads and passes:

* `WatchAgesTrue`: figures stamped with a generation cover
  what that generation's full read was to cover (`Covering`). This holds of the
  walk under way too, of the map itself (`MapCovers`), and is kept when the map
  is rebuilt or discarded, because the generation then moves on, and when it is
  pruned, because `lost` remembers.
* `CompleteIsCovering`: the flag is about the walks, the property about Plex.
  `DueInv` ties them: an item a walk has to cover lies at a row still ahead of its
  offset or has its figure already (`RankShifts`: a deletion before the offset moves
  the next row past it, and exactly that row's item is no longer due), so that
  the walk has them all when the listing ends, and `owed` has only items with a
  figure of the libraries with a walk.
* `PruneSpares`: `PassInv` speaks of a pass that has gone well in one map so far:
  each item it has passed (of a library walked, at a row before the offset, no
  deletion having shifted the listing) is marked with the pass, had no play in
  the map at its visit, or was played since the pass began. At the prune all
  listed libraries are passed, and the three cases are those `PruneSafe` names.
  `RankOrder`, `RowsEnd` and their like say what a listing by offset is.

**History reads.** `HistoryReadsProofs`, for any page size, caps, overlap and rows
arriving at any place:

* `NoPlayIsLost`, `ReadsCover`, `ReadTypes`. `ReadsInv` adds that the history is in
  order, that reads and drains are at its rows, that an increment under way
  began where the store says, and that what a read owes is in its map or ahead
  of it. The heart is `ArrivalShifts`: a row that arrives before a time moves
  the rows of that time up by one and adds one to those passed over, so nothing
  that was ahead of an offset falls behind it. A failed increment goes back to
  where it began; a capped one goes on where it stopped; after a short page the
  next one begins at the overlap, which `Ahead` has already.

**Only model-checked.** Liveness (`FiguresAppear`, `PlaysArrive`,
`CountsAppear`, `DegradedRecovers`, `EveryReadTried`, `AnswersStay`,
`AnswersLapse`): it is under fairness, which is out of the prover's reach. Every
invariant and every action property of the passing runs is a theorem.

## 5. Not modelled

* The Plex client: a thin wrapper; its outcomes are choices of the modules that
  make the requests.
* Metric descriptors, dashboards, alerts and the label tables other than the
  resolution and codec buckets: constants and string tables without state.
* What the background answers are turned into: `mergeActivities`, `decideUpdate`
  and the parsing of the scan interval. Each is a function of one answer that
  table tests reach; the model has whether there is an answer, and when.
* The host figures of `Refresh`, two assignments from the newest sample.
* The HTTP handlers, logging, error counters and warnings.
* The retry delays of the history loop, since a retry at any time covers them.
* Show years, titles and episode names.

## 6. Plan

What would be worth adding next:

1. An abstract store that both `HistoryReads` and `WatchStore` implement, so that
   what the walk takes from the one is what is proved of the other.
2. The retry delays of the history loop, and the age limit that the update status
   and the sections do not have, once the code gives them one.
3. An item that moves between two libraries, in the merged list of newest items.
