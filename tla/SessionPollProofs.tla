------------------------- MODULE SessionPollProofs -------------------------
(* Proofs about the poll and the scrape, for every number of sessions, every  *)
(* answer of Plex and every timeout: each step the poll takes on the tracker  *)
(* is one the tracker's own specification allows, so its theorems carry over; *)
(* the times after which a session goes; what an applied answer leaves in the *)
(* tracker; and how far a scraped play time may run ahead.                    *)
EXTENDS SessionScrape, SessionTrackerProofs

\* The poll's control and data fit: what each place of the poll goroutine has
\* in hand, and that fetched metadata is that of the listed item.
PollShape ==
    /\ PollTypeOK
    /\ pc \in {"idle", "fetch"} => answer = NoAnswer
    /\ pc \in {"idle", "fetch", "mark"} => todo = {} /\ media = NoMedia
    /\ pc \in {"fill", "classify"} => cur \in Work(answer) \ todo
    /\ pc = "fill" => media[cur] # Nil
    /\ \A r \in RawKeys : media[r] # Nil => r \in Work(answer) /\ media[r] = answer[r].item

\* The history variable has its type.
GhostTypeOK ==
    /\ ghost.missed \in [Keys -> Nat]
    /\ ghost.ended \in [Keys -> Nat]
    /\ ghost.kept \subseteq tracked
    /\ ghost.skipped \subseteq RawKeys
-----------------------------------------------------------------------------
\* Sweeps are never late, so each one that has passed left every session
\* younger than its timeout.
Timeout(s) == IF s.state = "stopped" THEN SessionTimeout ELSE StaleTimeout

SweptInTime ==
    /\ nextPrune <= now + PruneInterval /\ now <= nextPrune
    /\ \A k \in tracked : nextPrune <= sessions[k].lastUpdate + Timeout(sessions[k]) + PruneInterval

\* A tracked session stopped no later than its last update.
EndsStamped ==
    \A k \in tracked : sessions[k].state = "stopped" => ghost.ended[k] <= sessions[k].lastUpdate

\* A session that polls miss was stopped when the first of them missed it, and
\* the poll at work updates only what its answer lists.
MissedStopped ==
    /\ pc \in {"resolve", "update", "fill", "classify"} =>
         \A r \in Present(answer) : ghost.missed[Norm[r]] = 0
    /\ \A k \in tracked : ghost.missed[k] # 0 =>
         sessions[k].state = "stopped" /\ sessions[k].lastUpdate <= ghost.missed[k]
-----------------------------------------------------------------------------
Applying == pc \in {"update", "fill", "classify"}

\* The work items behind the apply loop, the one it is on included.
Reached == Work(answer) \ todo

\* Behind the apply loop every session the tracker holds shows what was listed;
\* the item the loop is on still waits for its video pipeline.
AppliedSoFar ==
    Applying => \A r \in Reached :
        LET k == Norm[r] IN
        Alone(answer, r) /\ k \in tracked =>
            /\ sessions[k].state = answer[r].state
            /\ sessions[k].meta = answer[r].item
            /\ \/ r = cur /\ pc # "update"
               \/ sessions[k].video = (answer[r].ts # Nil)

\* The cached metadata and the item it was fetched for go together; items the
\* poll skipped are of the answer at work.
MediaPaired ==
    /\ \A k \in Keys : sessions[k].mediaMeta = sessions[k].mediaKey
    /\ pc \in {"idle", "fetch", "mark"} => ghost.skipped = {}
    /\ ghost.skipped \subseteq Work(answer)

\* A session whose read was skipped stays resolved while it stays tracked.
SkippedResolved ==
    \A r \in ghost.skipped :
        LET k == Norm[r] IN
        Alone(answer, r) /\ k \in ghost.kept =>
            sessions[k].mediaKey = answer[r].item /\ sessions[k].lib # Nil

\* Behind the apply loop a session whose read succeeded carries that item, and
\* a library if the poll's snapshot has it; the item at hand may wait for both.
ResolvedSoFar ==
    Applying => \A r \in Reached :
        LET k == Norm[r] IN
        Alone(answer, r) /\ k \in tracked /\ media[r] # Nil =>
            /\ sessions[k].mediaKey = answer[r].item
            /\ \/ r = cur /\ pc = "fill"
               \/ LibOf[answer[r].item] \in libs => sessions[k].lib # Nil

\* The inductive invariant of the poll beside the prune loop and Refresh.
PollInv ==
    /\ TrackerInv /\ PollShape /\ GhostTypeOK
    /\ SweptInTime /\ EndsStamped /\ MissedStopped
    /\ AppliedSoFar /\ MediaPaired /\ SkippedResolved /\ ResolvedSoFar
-----------------------------------------------------------------------------
\* Work items are keys of the answer, with a listing that has a usable item.
LEMMA WorkListed ==
    ASSUME answer \in Answers \cup {NoAnswer}
    PROVE  /\ Present(answer) \subseteq RawKeys
           /\ Work(answer) \subseteq Present(answer)
           /\ \A r \in Present(answer) : answer[r] \in Listing
           /\ \A r \in Work(answer) : answer[r].item \in Items
           /\ \A r \in RawKeys : Norm[r] \in Keys
<1>1. answer \in [RawKeys -> Listing \cup {Nil}]
  BY PollAssumption DEF NoAnswer
<1> QED BY <1>1, KeysAssumption DEF Present, Work

\* No listing, no work.
LEMMA NoAnswerEmpty == Present(NoAnswer) = {} /\ Work(NoAnswer) = {}
BY DEF Present, Work, NoAnswer

\* The two label writes of the poll are label writes of the tracker.
LEMMA LabelsOnly ==
    ASSUME NEW s \in Session, NEW item \in Items, NEW ts \in Kinds \cup {Nil}
    PROVE  /\ \E l \in Libraries \cup {Nil} : Filled(s, item) = Labelled(s, l, s.kind, s.video)
           /\ \E t \in Kinds \cup {Nil}, v \in BOOLEAN : Classified(s, ts) = Labelled(s, s.lib, t, v)
           /\ s.lib \in Libraries \cup {Nil} /\ s.kind \in Kinds \cup {Nil} /\ s.video \in BOOLEAN
<1>1. LibOf[item] \in Libraries
  BY PollAssumption
<1>2. s.lib \in Libraries \cup {Nil} /\ s.kind \in Kinds \cup {Nil} /\ s.video \in BOOLEAN
  BY DEF Session
<1>3. Filled(s, item) = Labelled(s, IF s.lib = Nil /\ LibOf[item] \in libs THEN LibOf[item] ELSE s.lib,
                                 s.kind, s.video)
  BY DEF Filled, Labelled, Session
<1>4. Classified(s, ts) = Labelled(s, s.lib, IF ts = Nil THEN s.kind ELSE ts, ts # Nil)
  BY DEF Classified, Labelled, Session
<1> QED BY <1>1, <1>2, <1>3, <1>4
-----------------------------------------------------------------------------
\* Every step of the poll, the clock, the prune loop and Refresh is a step the
\* tracker's specification allows, or leaves the tracker alone.
LEMMA ContractStep ==
    ASSUME TypeOK, PollShape, [Next]_vars
    PROVE  [TrackerNext]_tvars
<1> USE DEF PollShape, PollTypeOK
<1>1. CASE UNCHANGED vars
  BY <1>1 DEF vars, tvars
<1>2. CASE PollTick \/ PollFails \/ PollAnswered \/ SnapshotLibraries \/ RefreshLibraries
  BY <1>2 DEF PollTick, PollFails, PollAnswered, SnapshotLibraries, RefreshLibraries, tvars
<1>3. CASE MarkAbsent
  <2>1. MarkAbsentStopped(Present(answer)) /\ Present(answer) \in SUBSET RawKeys
    BY <1>3 DEF MarkAbsent, Present
  <2> QED BY <2>1 DEF TrackerNext
<1>4. ASSUME NEW r \in RawKeys, ResolveMedia(r) PROVE UNCHANGED tvars
  BY <1>4 DEF ResolveMedia, tvars
<1>5. ASSUME NEW r \in RawKeys, ApplyUpdate(r) PROVE TrackerNext
  <2>1. r \in Work(answer) /\ Update(r, answer[r].state, answer[r].item, media[r])
    BY <1>5 DEF ApplyUpdate
  <2>2. answer[r] \in Listing /\ answer[r].item \in Items
    BY <2>1, WorkListed
  <2>3. answer[r].state \in States /\ answer[r].item \in Items \cup {Nil} /\ media[r] \in Items \cup {Nil}
    BY <2>2 DEF Listing
  <2> QED BY <2>1, <2>3 DEF TrackerNext
<1>6. CASE FillLibrary
  <2>1. /\ cur \in RawKeys /\ media[cur] \in Items
        /\ UpdateLibraryLabels(cur, Filled(sessions[Norm[cur]], media[cur]))
    BY <1>6, NilAssumption DEF FillLibrary, Work, Present
  <2>2. sessions[Norm[cur]] \in Session
    BY <2>1, KeysAssumption DEF TypeOK
  <2>3. PICK l \in Libraries \cup {Nil} :
             Filled(sessions[Norm[cur]], media[cur]) =
                 Labelled(sessions[Norm[cur]], l, sessions[Norm[cur]].kind, sessions[Norm[cur]].video)
    BY <2>1, <2>2, LabelsOnly
  <2>4. sessions[Norm[cur]].kind \in Kinds \cup {Nil} /\ sessions[Norm[cur]].video \in BOOLEAN
    BY <2>2 DEF Session
  <2> QED BY <2>1, <2>3, <2>4 DEF TrackerNext
<1>7. CASE Classify
  <2>1. /\ cur \in Work(answer)
        /\ UpdateLibraryLabels(cur, Classified(sessions[Norm[cur]], answer[cur].ts))
    BY <1>7 DEF Classify
  <2>2. /\ cur \in RawKeys /\ sessions[Norm[cur]] \in Session
        /\ answer[cur].item \in Items /\ answer[cur].ts \in Kinds \cup {Nil}
    BY <2>1, WorkListed DEF TypeOK, Listing
  <2>3. PICK t \in Kinds \cup {Nil}, v \in BOOLEAN :
             Classified(sessions[Norm[cur]], answer[cur].ts) =
                 Labelled(sessions[Norm[cur]], sessions[Norm[cur]].lib, t, v)
    BY <2>2, LabelsOnly
  <2>4. sessions[Norm[cur]].lib \in Libraries \cup {Nil}
    BY <2>2 DEF Session
  <2> QED BY <2>1, <2>2, <2>3, <2>4 DEF TrackerNext
<1>8. CASE ClockStep \/ PruneStep
  BY <1>8 DEF ClockStep, PruneStep, TrackerNext
<1> QED BY <1>1, <1>2, <1>3, <1>4, <1>5, <1>6, <1>7, <1>8 DEF Next, PollStep

\* Each action hands the next one what it needs.
LEMMA ShapeStep ==
    ASSUME TypeOK', PollShape, [Next]_vars
    PROVE  PollShape'
<1> DEFINE Typed == /\ deadline \in Nat /\ answer \in Answers \cup {NoAnswer}
                    /\ cur \in RawKeys \cup {Nil} /\ media \in [RawKeys -> Items \cup {Nil}]
                    /\ libs \subseteq Libraries /\ libraries \subseteq Libraries /\ reachable \in BOOLEAN
                    /\ todo \subseteq Work(answer)
<1>0. Typed
  BY DEF PollShape, PollTypeOK
<1>1. CASE UNCHANGED vars
  BY <1>1 DEF vars, PollShape, PollTypeOK, Work, Present
<1>2. CASE PollTick \/ PollFails
  <2>1. now \in Nat
    BY <1>2 DEF PollTick, PollFails, tvars, TypeOK
  <2>2. /\ pc' \in {"idle", "fetch"} /\ answer' = NoAnswer /\ todo' = {} /\ media' = NoMedia
        /\ UNCHANGED <<cur, libs, libraries>>
    BY <1>2 DEF PollTick, PollFails, PollShape
  <2>3. deadline' \in Nat
    BY <1>2, <2>1, PollAssumption DEF PollTick, PollFails
  <2>4. reachable' \in BOOLEAN
    BY <1>0, <1>2 DEF PollTick, PollFails
  <2> QED BY <1>0, <2>2, <2>3, <2>4 DEF PollShape, PollTypeOK, Work, Present, NoMedia
<1>3. CASE PollAnswered
  BY <1>3, <1>0 DEF PollAnswered, PollShape, PollTypeOK, Work, Present, NoMedia
<1>4. CASE MarkAbsent
  <2>1. /\ pc = "mark" /\ todo' = Work(answer) /\ media' = NoMedia /\ UNCHANGED <<cur, libs, libraries, reachable>>
        /\ \/ pc' = "idle" /\ deadline' = 0 /\ answer' = NoAnswer /\ Work(answer) = {}
           \/ pc' = "resolve" /\ UNCHANGED <<deadline, answer>>
    BY <1>4 DEF MarkAbsent, PollShape
  <2> QED BY <1>0, <2>1, NoAnswerEmpty DEF PollShape, PollTypeOK, NoMedia
<1>5. ASSUME NEW r \in RawKeys, ResolveMedia(r) PROVE PollShape'
  <2>1. /\ pc = "resolve" /\ r \in Work(answer) /\ todo' = todo \ {r}
        /\ media' = media \/ media' = [media EXCEPT ![r] = answer[r].item]
        /\ UNCHANGED <<pc, deadline, answer, cur, libs, libraries, reachable>>
    BY <1>5, <1>0 DEF ResolveMedia
  <2>2. answer[r].item \in Items /\ answer[r].item # Nil
    BY <2>1, <1>0, WorkListed, NilAssumption
  <2> QED BY <1>0, <2>1, <2>2 DEF PollShape, PollTypeOK
<1>6. CASE SnapshotLibraries
  BY <1>6, <1>0 DEF SnapshotLibraries, PollShape, PollTypeOK
<1>7. ASSUME NEW r \in RawKeys, ApplyUpdate(r) PROVE PollShape'
  BY <1>7, <1>0 DEF ApplyUpdate, PollShape, PollTypeOK
<1>8. CASE FillLibrary
  BY <1>8, <1>0 DEF FillLibrary, PollShape, PollTypeOK
<1>9. CASE Classify
  BY <1>9, <1>0, NoAnswerEmpty DEF Classify, PollShape, PollTypeOK, NoMedia
<1>10. CASE RefreshLibraries
  BY <1>10, <1>0, PollAssumption DEF RefreshLibraries, PollShape, PollTypeOK
<1>11. CASE ClockStep \/ PruneStep
  BY <1>11, <1>0 DEF ClockStep, PruneStep, pvars, PollShape, PollTypeOK
<1> QED BY <1>1, <1>2, <1>3, <1>4, <1>5, <1>6, <1>7, <1>8, <1>9, <1>10, <1>11 DEF Next, PollStep
-----------------------------------------------------------------------------
\* What a step may do to a session that is tracked after it: leave its state and
\* its last update alone, or stamp it now.
LEMMA KeyFate ==
    ASSUME TrackerInv, [TrackerNext]_tvars, NEW k \in tracked'
    PROVE  \/ /\ k \in tracked
              /\ sessions'[k].state = sessions[k].state
              /\ sessions'[k].lastUpdate = sessions[k].lastUpdate
           \/ /\ now' = now /\ nextPrune' = nextPrune
              /\ sessions'[k].lastUpdate = now
<1>0. tracked \subseteq Keys /\ sessions \in [Keys -> Session] /\ Norm \in [RawKeys -> Keys]
  BY KeysAssumption DEF TrackerInv, TypeOK
<1>1. CASE UNCHANGED tvars
  BY <1>1 DEF tvars
<1>2. CASE Tick
  BY <1>2 DEF Tick
<1>3. CASE Prune
  BY <1>0, <1>3 DEF Prune
<1>4. ASSUME NEW id \in RawKeys, NEW st \in States,
             NEW meta \in Items \cup {Nil}, NEW mediaMeta \in Items \cup {Nil},
             Update(id, st, meta, mediaMeta)
      PROVE  \/ k \in tracked /\ sessions'[k] = sessions[k]
             \/ now' = now /\ nextPrune' = nextPrune /\ sessions'[k].lastUpdate = now
  <2> DEFINE u == Updated(sessions[Norm[id]], st, meta, mediaMeta)
  <2>1. WithMeta(sessions[Norm[id]], meta, mediaMeta) \in Session
    BY <1>0, WithMetaSession
  <2>2. u.lastUpdate = now
    BY <2>1 DEF Updated, WithState, Session
  <2> HIDE DEF u
  <2>3. now' = now /\ nextPrune' = nextPrune
    BY <1>4 DEF Update
  <2>4. \/ UNCHANGED <<tracked, sessions>>
        \/ tracked' = tracked \cup {Norm[id]} /\ sessions' = [sessions EXCEPT ![Norm[id]] = u]
    BY <1>4 DEF Update, u
  <2> QED BY <1>0, <2>2, <2>3, <2>4
<1>5. ASSUME NEW id \in RawKeys,
             NEW l \in Libraries \cup {Nil}, NEW t \in Kinds \cup {Nil}, NEW v \in BOOLEAN,
             UpdateLibraryLabels(id, Labelled(sessions[Norm[id]], l, t, v))
      PROVE  /\ k \in tracked /\ sessions'[k].state = sessions[k].state
             /\ sessions'[k].lastUpdate = sessions[k].lastUpdate
  <2> DEFINE ss == Labelled(sessions[Norm[id]], l, t, v)
  <2>1. ss.state = sessions[Norm[id]].state /\ ss.lastUpdate = sessions[Norm[id]].lastUpdate
    BY <1>0, LabelledSane, ZenonT(30)
  <2>2. /\ sessions' = IF Norm[id] \in tracked THEN [sessions EXCEPT ![Norm[id]] = ss] ELSE sessions
        /\ tracked' = tracked
    BY <1>5 DEF UpdateLibraryLabels
  <2> HIDE DEF ss
  <2> QED BY <1>0, <2>1, <2>2
<1>6. ASSUME NEW present \in SUBSET RawKeys, MarkAbsentStopped(present)
      PROVE  \/ k \in tracked /\ sessions'[k] = sessions[k]
             \/ now' = now /\ nextPrune' = nextPrune /\ sessions'[k].lastUpdate = now
  <2>1. /\ k \in Keys /\ now' = now /\ nextPrune' = nextPrune /\ tracked' = tracked
        /\ sessions'[k] = IF k \in Vanished(present) THEN Stopped(sessions[k]) ELSE sessions[k]
    BY <1>0, <1>6 DEF MarkAbsentStopped
  <2>2. Stopped(sessions[k]).lastUpdate = now
    BY <1>0, <2>1 DEF Stopped, Session
  <2> QED BY <2>1, <2>2
<1> QED BY <1>1, <1>2, <1>3, <1>4, <1>5, <1>6 DEF TrackerNext

\* The clock stands still, ticks towards the next sweep, or a due sweep runs.
LEMMA ClockFate ==
    ASSUME [TrackerNext]_tvars
    PROVE  \/ now' = now /\ nextPrune' = nextPrune
           \/ Tick
           \/ Prune
BY DEF TrackerNext, tvars, Update, UpdateLibraryLabels, MarkAbsentStopped

\* Only the prune loop takes a session out of the map.
LEMMA OnlyPruneRemoves ==
    ASSUME [TrackerNext]_tvars, NEW k \in tracked \ tracked'
    PROVE  Prune /\ k \in Expired
BY DEF TrackerNext, tvars, Tick, Prune, Update, UpdateLibraryLabels, MarkAbsentStopped

\* Sweeps stay in time whatever the callers of the tracker do.
LEMMA SweepStep ==
    ASSUME TrackerInv, SweptInTime, [TrackerNext]_tvars
    PROVE  SweptInTime'
<1>1. /\ now \in Nat /\ nextPrune \in Nat /\ PruneInterval \in Nat \ {0}
      /\ SessionTimeout \in Nat /\ StaleTimeout \in Nat
  BY BoundsAssumption DEF TrackerInv, TypeOK
<1>2. \A k \in tracked : sessions[k].lastUpdate \in Nat /\ sessions[k].lastUpdate <= now
  BY DEF TrackerInv, TypeOK, Session, SessionsSane, TimesOrdered
<1>3. CASE now' = now /\ nextPrune' = nextPrune
  <2> SUFFICES ASSUME NEW k \in tracked'
               PROVE  nextPrune <= sessions'[k].lastUpdate + Timeout(sessions'[k]) + PruneInterval
    BY <1>3 DEF SweptInTime, Timeout
  <2>1. Timeout(sessions'[k]) \in Nat
    BY <1>1 DEF Timeout
  <2>2. CASE k \in tracked /\ sessions'[k].state = sessions[k].state
                           /\ sessions'[k].lastUpdate = sessions[k].lastUpdate
    BY <2>2 DEF SweptInTime, Timeout
  <2>3. CASE sessions'[k].lastUpdate = now
    BY <1>1, <2>1, <2>3 DEF SweptInTime
  <2> QED BY <2>2, <2>3, KeyFate
<1>4. CASE Tick
  BY <1>1, <1>4 DEF Tick, SweptInTime, Timeout
<1>5. CASE Prune
  <2>1. now' = now /\ nextPrune' = nextPrune + PruneInterval /\ now = nextPrune
    BY <1>1, <1>5 DEF Prune, SweptInTime
  <2> SUFFICES ASSUME NEW k \in tracked'
               PROVE  nextPrune' <= sessions'[k].lastUpdate + Timeout(sessions'[k]) + PruneInterval
    BY <1>1, <2>1 DEF SweptInTime, Timeout
  <2>2. k \in tracked /\ k \notin Expired /\ sessions'[k] = sessions[k]
    BY <1>5 DEF Prune, TrackerInv, TypeOK
  <2>3. ~(now - sessions[k].lastUpdate > Timeout(sessions[k]))
    BY <2>2 DEF Expired, Timeout
  <2>4. Timeout(sessions[k]) \in Nat
    BY <1>1 DEF Timeout
  <2> QED BY <1>1, <1>2, <2>1, <2>2, <2>3, <2>4
<1> QED BY <1>3, <1>4, <1>5, ClockFate

\* What SweptInTime is for.
LEMMA SweptFresh == ASSUME TrackerInv, SweptInTime PROVE StaleGoes
<1> SUFFICES ASSUME NEW k \in tracked
             PROVE  now - sessions[k].lastUpdate <= PruneInterval + Timeout(sessions[k])
  BY DEF StaleGoes, Timeout
<1>1. now \in Nat /\ nextPrune \in Nat /\ PruneInterval \in Nat /\ sessions[k].lastUpdate \in Nat
  BY BoundsAssumption DEF TrackerInv, TypeOK, Session
<1>2. Timeout(sessions[k]) \in Nat
  BY BoundsAssumption DEF Timeout
<1> QED BY <1>1, <1>2 DEF SweptInTime
-----------------------------------------------------------------------------
\* The effects of the actions that write sessions, key by key.
LEMMA ApplyEffect ==
    ASSUME TypeOK, PollShape, NEW r \in RawKeys, ApplyUpdate(r)
    PROVE  LET k == Norm[r] IN
           /\ \A j \in Keys \ {k} : sessions'[j] = sessions[j] /\ (j \in tracked' <=> j \in tracked)
           /\ k \in tracked => k \in tracked'
           /\ k \notin tracked' => sessions'[k] = sessions[k]
           /\ k \in tracked' =>
                /\ sessions'[k].state = answer[r].state /\ sessions'[k].lastUpdate = now
                /\ sessions'[k].meta = answer[r].item
                /\ sessions'[k].mediaMeta = IF media[r] # Nil THEN answer[r].item ELSE sessions[k].mediaMeta
                /\ sessions'[k].mediaKey = IF media[r] # Nil THEN answer[r].item ELSE sessions[k].mediaKey
                /\ sessions'[k].lib = sessions[k].lib
<1> DEFINE k == Norm[r]
           u == Updated(sessions[k], answer[r].state, answer[r].item, media[r])
<1>1. /\ k \in Keys /\ sessions \in [Keys -> Session]
      /\ r \in Work(answer) /\ Update(r, answer[r].state, answer[r].item, media[r])
  BY KeysAssumption DEF TypeOK, ApplyUpdate, PollShape, PollTypeOK
<1>2. answer[r].item \in Items /\ answer[r].item # Nil
  BY <1>1, WorkListed, NilAssumption DEF PollShape, PollTypeOK
<1>3. media[r] # Nil => media[r] = answer[r].item
  BY DEF PollShape
<1>4. sessions[k] \in Session
  BY <1>1
<1>5. /\ u.state = answer[r].state /\ u.lastUpdate = now /\ u.meta = answer[r].item
      /\ u.mediaMeta = (IF media[r] # Nil THEN answer[r].item ELSE sessions[k].mediaMeta)
      /\ u.mediaKey = (IF media[r] # Nil THEN answer[r].item ELSE sessions[k].mediaKey)
      /\ u.lib = sessions[k].lib
  BY <1>2, <1>3, <1>4 DEF Updated, WithMeta, WithState, Session
<1>6. \/ UNCHANGED <<tracked, sessions>> /\ k \notin tracked
      \/ tracked' = tracked \cup {k} /\ sessions' = [sessions EXCEPT ![k] = u]
  BY <1>1 DEF Update
<1> HIDE DEF u, k
<1>7. /\ \A j \in Keys \ {k} : sessions'[j] = sessions[j] /\ (j \in tracked' <=> j \in tracked)
      /\ k \in tracked => k \in tracked'
      /\ k \notin tracked' => sessions'[k] = sessions[k]
      /\ k \in tracked' => sessions'[k] = u
  BY <1>1, <1>6
<1> QED BY <1>5, <1>7 DEF k

\* fillSession for the library touches one session and only its library.
LEMMA FillEffect ==
    ASSUME TypeOK, PollShape, FillLibrary
    PROVE  LET k == Norm[cur] IN
           /\ tracked' = tracked
           /\ \A j \in Keys \ {k} : sessions'[j] = sessions[j]
           /\ sessions'[k].state = sessions[k].state /\ sessions'[k].lastUpdate = sessions[k].lastUpdate
           /\ sessions'[k].meta = sessions[k].meta /\ sessions'[k].video = sessions[k].video
           /\ sessions'[k].mediaMeta = sessions[k].mediaMeta /\ sessions'[k].mediaKey = sessions[k].mediaKey
           /\ sessions[k].lib # Nil => sessions'[k].lib # Nil
           /\ k \in tracked /\ LibOf[answer[cur].item] \in libs => sessions'[k].lib # Nil
<1> DEFINE k == Norm[cur]
           f == Filled(sessions[k], media[cur])
<1>1. /\ k \in Keys /\ sessions \in [Keys -> Session] /\ cur \in Work(answer)
      /\ UpdateLibraryLabels(cur, f)
  BY KeysAssumption DEF TypeOK, FillLibrary, PollShape, PollTypeOK, Work, Present
<1>2. media[cur] = answer[cur].item /\ answer[cur].item \in Items
  BY <1>1, WorkListed DEF FillLibrary, PollShape, PollTypeOK, Work, Present
<1>3. LibOf[media[cur]] # Nil
  BY <1>2, PollAssumption, NilAssumption
<1>4. sessions[k] \in Session
  BY <1>1
<1>5. /\ f.state = sessions[k].state /\ f.lastUpdate = sessions[k].lastUpdate
      /\ f.meta = sessions[k].meta /\ f.video = sessions[k].video
      /\ f.mediaMeta = sessions[k].mediaMeta /\ f.mediaKey = sessions[k].mediaKey
      /\ sessions[k].lib # Nil => f.lib # Nil
      /\ LibOf[media[cur]] \in libs => f.lib # Nil
  BY <1>3, <1>4 DEF Filled, Session
<1>6. /\ tracked' = tracked
      /\ sessions' = IF k \in tracked THEN [sessions EXCEPT ![k] = f] ELSE sessions
  BY <1>1 DEF UpdateLibraryLabels
<1> HIDE DEF f, k
<1>7. /\ \A j \in Keys \ {k} : sessions'[j] = sessions[j]
      /\ sessions'[k] = f \/ (sessions'[k] = sessions[k] /\ k \notin tracked)
  BY <1>1, <1>6
<1> QED BY <1>2, <1>5, <1>6, <1>7 DEF k

\* The media class touches one session and only its class.
LEMMA ClassifyEffect ==
    ASSUME TypeOK, PollShape, Classify
    PROVE  LET k == Norm[cur] IN
           /\ tracked' = tracked
           /\ \A j \in Keys \ {k} : sessions'[j] = sessions[j]
           /\ sessions'[k].state = sessions[k].state /\ sessions'[k].lastUpdate = sessions[k].lastUpdate
           /\ sessions'[k].meta = sessions[k].meta /\ sessions'[k].lib = sessions[k].lib
           /\ sessions'[k].mediaMeta = sessions[k].mediaMeta /\ sessions'[k].mediaKey = sessions[k].mediaKey
           /\ k \in tracked => sessions'[k].video = (answer[cur].ts # Nil)
<1> DEFINE k == Norm[cur]
           c == Classified(sessions[k], answer[cur].ts)
<1>1. /\ k \in Keys /\ sessions \in [Keys -> Session]
      /\ UpdateLibraryLabels(cur, c)
  BY KeysAssumption DEF TypeOK, Classify, PollShape, PollTypeOK, Work, Present
<1>2. sessions[k] \in Session
  BY <1>1
<1>3. /\ c.state = sessions[k].state /\ c.lastUpdate = sessions[k].lastUpdate
      /\ c.meta = sessions[k].meta /\ c.lib = sessions[k].lib
      /\ c.mediaMeta = sessions[k].mediaMeta /\ c.mediaKey = sessions[k].mediaKey
      /\ c.video = (answer[cur].ts # Nil)
  BY <1>2 DEF Classified, Session
<1>4. /\ tracked' = tracked
      /\ sessions' = IF k \in tracked THEN [sessions EXCEPT ![k] = c] ELSE sessions
  BY <1>1 DEF UpdateLibraryLabels
<1> HIDE DEF c, k
<1>5. /\ \A j \in Keys \ {k} : sessions'[j] = sessions[j]
      /\ sessions'[k] = c \/ (sessions'[k] = sessions[k] /\ k \notin tracked)
  BY <1>1, <1>4
<1> QED BY <1>3, <1>4, <1>5 DEF k

\* Marking the absent ones stops what the answer does not list, and no more.
LEMMA MarkEffect ==
    ASSUME TypeOK, MarkAbsent, NEW k \in Keys
    PROVE  /\ tracked' = tracked /\ now' = now
           /\ \/ sessions'[k] = sessions[k]
              \/ sessions'[k].state = "stopped" /\ sessions'[k].lastUpdate = now
           /\ sessions'[k].mediaMeta = sessions[k].mediaMeta /\ sessions'[k].mediaKey = sessions[k].mediaKey
           /\ sessions[k].state = "stopped" => sessions'[k] = sessions[k]
           /\ k \in tracked /\ k \notin {Norm[r] : r \in Present(answer)}
                 => sessions'[k].state = "stopped"
<1>1. /\ tracked' = tracked /\ now' = now
      /\ sessions'[k] = IF k \in Vanished(Present(answer)) THEN Stopped(sessions[k]) ELSE sessions[k]
  BY DEF MarkAbsent, MarkAbsentStopped
<1>2. sessions[k] \in Session
  BY DEF TypeOK
<1>3. /\ Stopped(sessions[k]).state = "stopped" /\ Stopped(sessions[k]).lastUpdate = now
      /\ Stopped(sessions[k]).mediaMeta = sessions[k].mediaMeta
      /\ Stopped(sessions[k]).mediaKey = sessions[k].mediaKey
  BY <1>2 DEF Stopped, Session
<1> QED BY <1>1, <1>3 DEF Vanished

\* A prune only removes sessions.
LEMMA PruneEffect ==
    ASSUME TypeOK, Prune, NEW k \in Keys
    PROVE  /\ k \in tracked' => k \in tracked /\ sessions'[k] = sessions[k]
           /\ sessions'[k] = sessions[k] \/ sessions'[k] = ZeroSession
BY DEF Prune, TypeOK

\* The steps that leave the tracker's map alone.
Quiet ==
    \/ PollTick \/ PollFails \/ PollAnswered \/ SnapshotLibraries
    \/ \E r \in RawKeys : ResolveMedia(r)
    \/ RefreshLibraries \/ ClockStep

\* The steps that do not touch the tracker.
LEMMA QuietEffect == ASSUME Quiet PROVE UNCHANGED <<tracked, sessions>>
BY DEF Quiet, PollTick, PollFails, PollAnswered, SnapshotLibraries, ResolveMedia, RefreshLibraries,
       ClockStep, Tick, tvars

\* Every step of a poll, by what it does to the tracker.
LEMMA NextCases ==
    ASSUME Next
    PROVE  /\ Observe
           /\ \/ Quiet \/ MarkAbsent \/ FillLibrary \/ Classify \/ PruneStep
              \/ \E r \in RawKeys : ApplyUpdate(r)
BY DEF Next, PollStep, Quiet
-----------------------------------------------------------------------------
\* What the poll's control allows: only MarkAbsent leaves "mark", work is taken
\* up there, and an answer at work is not replaced.
LEMMA Control ==
    ASSUME PollShape, Next
    PROVE  /\ Marked => MarkAbsent
           /\ MarkAbsent => Marked /\ pc' \in {"idle", "resolve"}
           /\ pc' \in {"resolve", "update", "fill", "classify"} =>
                /\ answer' = answer
                /\ MarkAbsent \/ pc \in {"resolve", "update", "fill", "classify"}
           /\ pc' \in {"fetch", "mark"} => pc \in {"idle", "fetch", "mark"}
           /\ pc = "resolve" => pc' \in {"resolve", "update"}
           /\ pc' = "resolve" => MarkAbsent \/ pc = "resolve"
<1>1. CASE MarkAbsent
  BY <1>1 DEF MarkAbsent, Marked
<1>2. CASE Quiet /\ ~MarkAbsent
  BY <1>2 DEF Marked, Quiet, PollTick, PollFails, PollAnswered, SnapshotLibraries, ResolveMedia,
              RefreshLibraries, ClockStep, pvars
<1>3. CASE (FillLibrary \/ Classify \/ PruneStep) /\ ~MarkAbsent
  BY <1>3 DEF Marked, FillLibrary, Classify, PruneStep, pvars
<1>4. ASSUME NEW r \in RawKeys, ApplyUpdate(r), ~MarkAbsent
      PROVE  pc = "update" /\ pc' \in {"fill", "classify"} /\ answer' = answer
  BY <1>4 DEF ApplyUpdate
<1> QED BY <1>1, <1>2, <1>3, <1>4, NextCases DEF Marked

\* The history variables keep their kinds.
LEMMA GhostStep ==
    ASSUME TypeOK, PollShape, GhostTypeOK, Next
    PROVE  GhostTypeOK'
<1>1. now \in Nat
  BY DEF TypeOK
<1>2. ghost'.missed \in [Keys -> Nat] /\ ghost'.ended \in [Keys -> Nat]
  <2>1. ghost.missed \in [Keys -> Nat] /\ ghost.ended \in [Keys -> Nat]
    BY DEF GhostTypeOK
  <2> QED BY <1>1, <2>1, NextCases DEF Observe
<1>3. ghost'.kept \subseteq tracked'
  BY Control, NextCases DEF Observe, MarkAbsent, MarkAbsentStopped
<1>4. ghost'.skipped \subseteq RawKeys
  BY NextCases DEF Observe, GhostTypeOK, PollShape, PollTypeOK, Work, Present
<1> QED BY <1>2, <1>3, <1>4 DEF GhostTypeOK

\* A session stops no later than its last update.
LEMMA EndsStep ==
    ASSUME TrackerInv, GhostTypeOK, EndsStamped, Next, [TrackerNext]_tvars
    PROVE  EndsStamped'
<1> SUFFICES ASSUME NEW k \in tracked', k \in Keys, sessions'[k].state = "stopped"
             PROVE  ghost'.ended[k] <= sessions'[k].lastUpdate
  <2>1. tracked' \subseteq Keys
    BY SessionsStep DEF TrackerInv, TypeOK
  <2> QED BY <2>1 DEF EndsStamped
<1>1. ghost'.ended[k] = IF IsStopped(tracked, sessions, k) THEN ghost.ended[k] ELSE now
  BY NextCases DEF Observe, IsStopped
<1>2. now \in Nat /\ ghost.ended[k] \in Nat
  BY DEF TrackerInv, TypeOK, GhostTypeOK
<1>3. k \in tracked => sessions[k].lastUpdate \in Nat /\ sessions[k].lastUpdate <= now
  BY DEF TrackerInv, TypeOK, Session, SessionsSane, TimesOrdered
<1>4. CASE k \in tracked /\ sessions'[k].state = sessions[k].state
                        /\ sessions'[k].lastUpdate = sessions[k].lastUpdate
  BY <1>1, <1>4 DEF IsStopped, EndsStamped
<1>5. CASE sessions'[k].lastUpdate = now
  BY <1>1, <1>2, <1>3, <1>5 DEF IsStopped, EndsStamped
<1> QED BY <1>4, <1>5, KeyFate

\* What polls miss was stopped by the first that missed it.
LEMMA MissedStep ==
    ASSUME TrackerInv, TrackerInv', PollShape, GhostTypeOK, MissedStopped, Next
    PROVE  MissedStopped'
<1>0. /\ TypeOK /\ tracked \subseteq Keys /\ tracked' \subseteq Keys /\ now \in Nat /\ now # 0
      /\ answer \in Answers \cup {NoAnswer}
  BY DEF TrackerInv, TypeOK, PollShape, PollTypeOK
<1>1. CASE MarkAbsent
  <2>1. ghost'.missed = [k \in Keys |-> IF k \in {Norm[r] : r \in Present(answer)} THEN 0
                                        ELSE IF ghost.missed[k] = 0 THEN now ELSE ghost.missed[k]]
    BY <1>1, Control, NextCases DEF Observe
  <2>2. ASSUME pc' = "resolve", NEW r \in Present(answer') PROVE ghost'.missed[Norm[r]] = 0
    BY <1>0, <1>1, <2>1, <2>2, WorkListed, Control
  <2>3. ASSUME NEW k \in tracked', ghost'.missed[k] # 0
        PROVE  sessions'[k].state = "stopped" /\ sessions'[k].lastUpdate <= ghost'.missed[k]
    <3>1. k \in tracked /\ k \in Keys /\ k \notin {Norm[r] : r \in Present(answer)}
      BY <1>0, <1>1, <2>1, <2>3, MarkEffect
    <3>2. sessions'[k].state = "stopped"
      BY <1>0, <1>1, <3>1, MarkEffect
    <3>3. sessions'[k].lastUpdate <= now
      BY <1>0, <1>1, <3>1, MarkEffect DEF TrackerInv, SessionsSane, TimesOrdered
    <3>4. CASE ghost.missed[k] = 0
      BY <2>1, <3>1, <3>2, <3>3, <3>4
    <3>5. CASE ghost.missed[k] # 0
      <4>1. sessions[k].state = "stopped" /\ sessions[k].lastUpdate <= ghost.missed[k]
        BY <3>1, <3>5 DEF MissedStopped
      <4>2. sessions'[k] = sessions[k]
        BY <1>0, <1>1, <3>1, <4>1, MarkEffect
      <4> QED BY <2>1, <3>1, <3>5, <4>1, <4>2
    <3> QED BY <3>4, <3>5
  <2> QED BY <1>1, <2>2, <2>3, Control DEF MissedStopped
<1>2. ASSUME ~MarkAbsent PROVE MissedStopped'
  <2>1. ghost'.missed = ghost.missed
    BY <1>2, Control, NextCases DEF Observe
  <2>2. pc' \in {"resolve", "update", "fill", "classify"} =>
            \A r \in Present(answer') : ghost'.missed[Norm[r]] = 0
    BY <1>2, <2>1, Control DEF MissedStopped
  <2>3. ASSUME NEW k \in tracked', ghost.missed[k] # 0
        PROVE  k \in tracked /\ sessions'[k].state = sessions[k].state
                             /\ sessions'[k].lastUpdate = sessions[k].lastUpdate
    <3>0. k \in Keys
      BY <1>0
    <3>1. CASE Quiet
      BY <3>1, QuietEffect
    <3>2. CASE FillLibrary
      BY <1>0, <3>0, <3>2, FillEffect
    <3>3. CASE Classify
      BY <1>0, <3>0, <3>3, ClassifyEffect
    <3>4. CASE PruneStep
      BY <1>0, <3>0, <3>4, PruneEffect DEF PruneStep
    <3>5. ASSUME NEW r \in RawKeys, ApplyUpdate(r)
          PROVE  k \in tracked /\ sessions'[k] = sessions[k]
      <4>1. r \in Present(answer) /\ pc = "update"
        BY <1>0, <3>5, WorkListed DEF ApplyUpdate, PollShape, PollTypeOK
      <4>2. k # Norm[r]
        BY <2>3, <4>1 DEF MissedStopped
      <4> QED BY <1>0, <3>0, <3>5, <4>2, ApplyEffect
    <3> QED BY <1>2, <3>1, <3>2, <3>3, <3>4, <3>5, NextCases
  <2> QED BY <2>1, <2>2, <2>3 DEF MissedStopped
<1> QED BY <1>1, <1>2
-----------------------------------------------------------------------------
\* The facts on types the remaining steps start from.
LEMMA PollFacts ==
    ASSUME TypeOK, TypeOK', PollShape
    PROVE  /\ tracked \subseteq Keys /\ tracked' \subseteq Keys
           /\ Present(answer) \subseteq RawKeys /\ Work(answer) \subseteq Present(answer)
           /\ todo \subseteq Work(answer)
           /\ \A r \in RawKeys : Norm[r] \in Keys
           /\ \A r \in Work(answer) : answer[r].item \in Items
BY WorkListed DEF TypeOK, PollShape, PollTypeOK

\* Behind the apply loop a session shows what was listed.
LEMMA AppliedStep ==
    ASSUME TypeOK, TypeOK', PollShape, AppliedSoFar, Next
    PROVE  AppliedSoFar'
<1> DEFINE Shows(r, S, v) ==
        /\ S[Norm[r]].state = answer[r].state
        /\ S[Norm[r]].meta = answer[r].item
        /\ v \/ S[Norm[r]].video = (answer[r].ts # Nil)
<1>0. \A r \in Reached : Applying /\ Alone(answer, r) /\ Norm[r] \in tracked =>
           Shows(r, sessions, r = cur /\ pc # "update")
  BY DEF AppliedSoFar
<1> SUFFICES ASSUME Applying', answer' = answer,
                    NEW r \in Work(answer) \ todo', Alone(answer, r), Norm[r] \in tracked'
             PROVE  Shows(r, sessions', r = cur' /\ pc' # "update")
  BY Control DEF AppliedSoFar, Applying, Reached
<1> USE PollFacts
<1>1. CASE Quiet
  <2>1. UNCHANGED <<pc, todo, cur, tracked, sessions>>
    BY <1>1, QuietEffect DEF Applying, Quiet, PollTick, PollFails, PollAnswered, SnapshotLibraries,
          ResolveMedia, RefreshLibraries, ClockStep, pvars
  <2> QED BY <1>0, <2>1 DEF Applying, Reached
<1>2. CASE MarkAbsent
  BY <1>2, Control DEF Applying
<1>3. CASE FillLibrary
  <2>1. pc = "fill" /\ pc' = "classify" /\ UNCHANGED <<todo, cur>> /\ cur \in RawKeys
    BY <1>3 DEF FillLibrary, PollShape
  <2>2. tracked' = tracked /\ sessions'[Norm[r]].state = sessions[Norm[r]].state
        /\ sessions'[Norm[r]].meta = sessions[Norm[r]].meta
        /\ sessions'[Norm[r]].video = sessions[Norm[r]].video
    BY <1>3, FillEffect
  <2> QED BY <1>0, <2>1, <2>2 DEF Applying, Reached
<1>4. CASE Classify
  <2>1. pc = "classify" /\ todo' = todo /\ cur \in Work(answer)
    BY <1>4 DEF Classify, PollShape
  <2>2. tracked' = tracked /\ sessions'[Norm[r]].state = sessions[Norm[r]].state
        /\ sessions'[Norm[r]].meta = sessions[Norm[r]].meta
    BY <1>4, ClassifyEffect
  <2>3. CASE r = cur
    BY <1>0, <1>4, <2>1, <2>2, <2>3, ClassifyEffect DEF Applying, Reached
  <2>4. CASE r # cur
    <3>1. Norm[cur] # Norm[r]
      BY <2>1, <2>4 DEF Alone
    <3>2. sessions'[Norm[r]] = sessions[Norm[r]]
      BY <1>4, <3>1, ClassifyEffect
    <3> QED BY <1>0, <2>1, <2>2, <2>4, <3>2 DEF Applying, Reached
  <2> QED BY <2>3, <2>4
<1>5. CASE PruneStep
  <2>1. UNCHANGED <<pc, todo, cur>> /\ Prune
    BY <1>5 DEF PruneStep, pvars
  <2>2. Norm[r] \in tracked /\ sessions'[Norm[r]] = sessions[Norm[r]]
    BY <2>1, PruneEffect
  <2> QED BY <1>0, <2>1, <2>2 DEF Applying, Reached
<1>6. ASSUME NEW q \in RawKeys, ApplyUpdate(q)
      PROVE  Shows(r, sessions', r = cur' /\ pc' # "update")
  <2>1. /\ pc = "update" /\ pc' \in {"fill", "classify"} /\ cur' = q
        /\ q \in todo /\ todo' = todo \ {q}
    BY <1>6 DEF ApplyUpdate
  <2>2. CASE r = q
    BY <1>6, <2>1, <2>2, ApplyEffect
  <2>3. CASE r # q
    <3>1. Norm[q] # Norm[r]
      BY <2>1, <2>3 DEF Alone
    <3>2. sessions'[Norm[r]] = sessions[Norm[r]] /\ Norm[r] \in tracked
      BY <1>6, <3>1, ApplyEffect
    <3> QED BY <1>0, <2>1, <2>3, <3>2 DEF Applying, Reached
  <2> QED BY <2>2, <2>3
<1> QED BY <1>1, <1>2, <1>3, <1>4, <1>5, <1>6, NextCases

\* A session's metadata and the item it is for change together.
LEMMA PairedStep ==
    ASSUME TypeOK, TypeOK', PollShape, MediaPaired, Next
    PROVE  MediaPaired'
<1> USE PollFacts
<1>1. ASSUME NEW k \in Keys PROVE sessions'[k].mediaMeta = sessions'[k].mediaKey
  <2>0. sessions[k].mediaMeta = sessions[k].mediaKey
    BY DEF MediaPaired
  <2>1. CASE Quiet
    BY <2>0, <2>1, QuietEffect
  <2>2. CASE MarkAbsent
    BY <2>0, <2>2, MarkEffect
  <2>3. CASE FillLibrary
    <3>1. cur \in RawKeys
      BY <2>3 DEF FillLibrary, PollShape
    <3> QED BY <2>0, <2>3, <3>1, FillEffect
  <2>4. CASE Classify
    <3>1. cur \in RawKeys
      BY <2>4 DEF Classify, PollShape
    <3> QED BY <2>0, <2>4, <3>1, ClassifyEffect
  <2>5. CASE PruneStep
    BY <2>0, <2>5, PruneEffect DEF PruneStep, ZeroSession
  <2>6. ASSUME NEW r \in RawKeys, ApplyUpdate(r)
        PROVE  sessions'[k].mediaMeta = sessions'[k].mediaKey
    <3>1. CASE k = Norm[r]
      BY <2>0, <2>6, <3>1, ApplyEffect
    <3>2. CASE k # Norm[r]
      BY <2>0, <2>6, <3>2, ApplyEffect
    <3> QED BY <3>1, <3>2
  <2> QED BY <2>1, <2>2, <2>3, <2>4, <2>5, <2>6, NextCases
<1>2. /\ pc' \in {"idle", "fetch", "mark"} => ghost'.skipped = {}
      /\ ghost'.skipped \subseteq Work(answer')
  <2>0. ghost'.skipped =
          IF pc' # "resolve" /\ pc # "resolve" THEN IF pc' = "idle" THEN {} ELSE ghost.skipped
          ELSE ghost.skipped \cup {r \in todo \ todo' : MediaResolved(r, answer[r].item)}
    BY NextCases DEF Observe
  <2>1. CASE pc' \in {"idle", "fetch", "mark"}
    BY <2>0, <2>1, Control DEF MediaPaired
  <2>2. CASE pc' \in {"resolve", "update", "fill", "classify"}
    BY <2>0, <2>2, Control DEF MediaPaired
  <2>3. pc' \in {"idle", "fetch", "mark", "resolve", "update", "fill", "classify"}
    BY ShapeStep DEF PollShape, PollTypeOK
  <2> QED BY <2>1, <2>2, <2>3
<1> QED BY <1>1, <1>2 DEF MediaPaired

\* What a poll skipped stays resolved while its session is tracked.
LEMMA SkippedStep ==
    ASSUME TypeOK, TypeOK', PollShape, GhostTypeOK, MediaPaired, SkippedResolved, Next
    PROVE  SkippedResolved'
<1> DEFINE Res(r, S) == S[Norm[r]].mediaKey = answer[r].item /\ S[Norm[r]].lib # Nil
<1>0. \A r \in ghost.skipped : Alone(answer, r) /\ Norm[r] \in ghost.kept => Res(r, sessions)
  BY DEF SkippedResolved
<1> SUFFICES ASSUME NEW r \in ghost'.skipped, Alone(answer', r), Norm[r] \in ghost'.kept
             PROVE  sessions'[Norm[r]].mediaKey = answer'[r].item /\ sessions'[Norm[r]].lib # Nil
  BY DEF SkippedResolved
<1> USE PollFacts
<1>1. /\ pc' \in {"resolve", "update", "fill", "classify"} /\ answer' = answer
      /\ ~MarkAbsent /\ r \in RawKeys
  <2>1. MediaPaired' /\ pc' \in {"idle", "fetch", "mark", "resolve", "update", "fill", "classify"}
    BY PairedStep, ShapeStep DEF PollShape, PollTypeOK
  <2>2. pc' \in {"resolve", "update", "fill", "classify"} /\ answer' = answer
    BY <2>1, Control DEF MediaPaired
  <2>3. r \in RawKeys
    BY <2>1, <2>2 DEF MediaPaired
  <2>4. ASSUME MarkAbsent PROVE FALSE
    <3>1. pc = "mark" /\ todo = {} /\ ghost.skipped = {}
      BY <2>4 DEF MarkAbsent, PollShape, MediaPaired
    <3>2. ghost'.skipped = {}
      BY <2>2, <3>1, NextCases DEF Observe
    <3> QED BY <3>2
  <2> QED BY <2>2, <2>3, <2>4
<1>2. Norm[r] \in ghost.kept /\ Norm[r] \in tracked /\ Norm[r] \in tracked' /\ Norm[r] \in Keys
  BY <1>1, Control, NextCases DEF Observe, GhostTypeOK
<1>3. CASE r \notin ghost.skipped
  <2>1. r \in todo \ todo' /\ MediaResolved(r, answer[r].item) /\ (pc = "resolve" \/ pc' = "resolve")
    BY <1>1, <1>3, NextCases DEF Observe
  <2>2. pc = "resolve"
    BY <1>1, <2>1, Control
  <2>3. Quiet \/ PruneStep
    BY <1>1, <2>2, NextCases DEF FillLibrary, Classify, ApplyUpdate
  <2>4. ~PruneStep
    BY <2>1 DEF PruneStep, pvars
  <2>5. sessions' = sessions
    BY <2>3, <2>4, QuietEffect
  <2> QED BY <1>1, <2>1, <2>5 DEF MediaResolved
<1>4. CASE r \in ghost.skipped
  <2>0. Res(r, sessions) /\ r \in Work(answer)
    BY <1>0, <1>1, <1>2, <1>4 DEF MediaPaired
  <2>1. CASE Quiet
    BY <1>1, <2>0, <2>1, QuietEffect
  <2>2. CASE FillLibrary
    <3>1. cur \in RawKeys
      BY <2>2 DEF FillLibrary, PollShape
    <3>2. CASE Norm[r] = Norm[cur]
      BY <1>1, <2>0, <2>2, <3>1, <3>2, FillEffect
    <3>3. CASE Norm[r] # Norm[cur]
      BY <1>1, <1>2, <2>0, <2>2, <3>1, <3>3, FillEffect
    <3> QED BY <3>2, <3>3
  <2>3. CASE Classify
    <3>1. cur \in RawKeys
      BY <2>3 DEF Classify, PollShape
    <3>2. sessions'[Norm[r]].mediaKey = sessions[Norm[r]].mediaKey
          /\ sessions'[Norm[r]].lib = sessions[Norm[r]].lib
      BY <1>2, <2>3, <3>1, ClassifyEffect
    <3> QED BY <1>1, <2>0, <3>2
  <2>4. CASE PruneStep
    BY <1>1, <1>2, <2>0, <2>4, PruneEffect DEF PruneStep
  <2>5. ASSUME NEW q \in RawKeys, ApplyUpdate(q)
        PROVE  sessions'[Norm[r]].mediaKey = answer[r].item /\ sessions'[Norm[r]].lib # Nil
    <3>1. q \in Present(answer)
      BY <2>5 DEF ApplyUpdate
    <3>2. CASE q = r
      BY <1>2, <2>0, <2>5, <3>2, ApplyEffect
    <3>3. CASE q # r
      <4>1. Norm[q] # Norm[r]
        BY <1>1, <3>1, <3>3 DEF Alone
      <4> QED BY <1>2, <2>0, <2>5, <4>1, ApplyEffect
    <3> QED BY <3>2, <3>3
  <2> QED BY <1>1, <2>1, <2>2, <2>3, <2>4, <2>5, NextCases
<1> QED BY <1>3, <1>4

\* Behind the apply loop a session carries the item whose read succeeded.
LEMMA ResolvedStep ==
    ASSUME TypeOK, TypeOK', PollShape, ResolvedSoFar, Next
    PROVE  ResolvedSoFar'
<1> DEFINE Has(r, S, L, waits) ==
        /\ S[Norm[r]].mediaKey = answer[r].item
        /\ waits \/ (LibOf[answer[r].item] \in L => S[Norm[r]].lib # Nil)
<1>0. \A r \in Reached : Applying /\ Alone(answer, r) /\ Norm[r] \in tracked /\ media[r] # Nil =>
           Has(r, sessions, libs, r = cur /\ pc = "fill")
  BY DEF ResolvedSoFar
<1> SUFFICES ASSUME Applying', answer' = answer, NEW r \in Work(answer) \ todo',
                    Alone(answer, r), Norm[r] \in tracked', media'[r] # Nil
             PROVE  Has(r, sessions', libs', r = cur' /\ pc' = "fill")
  BY Control DEF ResolvedSoFar, Applying, Reached
<1> USE PollFacts
<1>1. CASE Quiet
  <2>1. UNCHANGED <<pc, todo, cur, media, libs, tracked, sessions>>
    BY <1>1, QuietEffect DEF Applying, Quiet, PollTick, PollFails, PollAnswered, SnapshotLibraries,
          ResolveMedia, RefreshLibraries, ClockStep, pvars
  <2> QED BY <1>0, <2>1 DEF Applying, Reached
<1>2. CASE MarkAbsent
  BY <1>2, Control DEF Applying
<1>3. CASE FillLibrary
  <2>1. pc = "fill" /\ pc' = "classify" /\ UNCHANGED <<todo, cur, media, libs>> /\ cur \in Work(answer)
    BY <1>3 DEF FillLibrary, PollShape
  <2>2. tracked' = tracked /\ sessions'[Norm[r]].mediaKey = sessions[Norm[r]].mediaKey
        /\ (sessions[Norm[r]].lib # Nil => sessions'[Norm[r]].lib # Nil)
    BY <1>3, <2>1, FillEffect
  <2>3. CASE r = cur
    <3>1. LibOf[answer[r].item] \in libs => sessions'[Norm[r]].lib # Nil
      BY <1>3, <2>2, <2>3, FillEffect
    <3> QED BY <1>0, <2>1, <2>2, <3>1 DEF Applying, Reached
  <2>4. CASE r # cur
    BY <1>0, <2>1, <2>2, <2>4 DEF Applying, Reached
  <2> QED BY <2>3, <2>4
<1>4. CASE Classify
  <2>1. pc = "classify" /\ todo' = todo /\ cur \in Work(answer) /\ pc' # "idle"
    BY <1>4 DEF Classify, PollShape, Applying
  <2>2. UNCHANGED <<media, libs>>
    BY <1>4, <2>1 DEF Classify
  <2>3. tracked' = tracked /\ sessions'[Norm[r]].mediaKey = sessions[Norm[r]].mediaKey
        /\ sessions'[Norm[r]].lib = sessions[Norm[r]].lib
    BY <1>4, <2>1, ClassifyEffect
  <2> QED BY <1>0, <2>1, <2>2, <2>3 DEF Applying, Reached
<1>5. CASE PruneStep
  <2>1. UNCHANGED <<pc, todo, cur, media, libs>> /\ Prune
    BY <1>5 DEF PruneStep, pvars
  <2>2. Norm[r] \in tracked /\ sessions'[Norm[r]] = sessions[Norm[r]]
    BY <2>1, PruneEffect
  <2> QED BY <1>0, <2>1, <2>2 DEF Applying, Reached
<1>6. ASSUME NEW q \in RawKeys, ApplyUpdate(q)
      PROVE  Has(r, sessions', libs', r = cur' /\ pc' = "fill")
  <2>1. /\ pc = "update" /\ cur' = q /\ q \in todo /\ todo' = todo \ {q}
        /\ UNCHANGED <<media, libs>> /\ pc' = IF media[q] = Nil THEN "classify" ELSE "fill"
    BY <1>6 DEF ApplyUpdate
  <2>2. CASE r = q
    BY <1>6, <2>1, <2>2, ApplyEffect
  <2>3. CASE r # q
    <3>1. Norm[q] # Norm[r]
      BY <2>1, <2>3 DEF Alone
    <3>2. sessions'[Norm[r]] = sessions[Norm[r]] /\ Norm[r] \in tracked
      BY <1>6, <3>1, ApplyEffect
    <3> QED BY <1>0, <2>1, <2>3, <3>2 DEF Applying, Reached
  <2> QED BY <2>2, <2>3
<1> QED BY <1>1, <1>2, <1>3, <1>4, <1>5, <1>6, NextCases
-----------------------------------------------------------------------------
\* Before the first poll nothing is tracked.
LEMMA PollInitInv == PollInit => PollInv
<1> SUFFICES ASSUME PollInit PROVE PollInv
  OBVIOUS
<1>1. TrackerInv /\ tracked = {} /\ now = 1 /\ nextPrune = 1 + PruneInterval
  BY InitInv DEF PollInit, TrackerInit
<1>2. PollShape
  <2>1. PollTypeOK
    BY <1>1, PollAssumption, NoAnswerEmpty DEF PollInit, PollTypeOK, NoMedia, TrackerInv
  <2> QED BY <2>1 DEF PollInit, PollShape, NoMedia
<1>3. GhostTypeOK
  BY DEF PollInit, GhostTypeOK
<1>4. SweptInTime
  BY <1>1, BoundsAssumption DEF SweptInTime
<1>5. EndsStamped /\ MissedStopped /\ AppliedSoFar /\ SkippedResolved /\ ResolvedSoFar
  BY <1>1 DEF PollInit, EndsStamped, MissedStopped, AppliedSoFar, SkippedResolved, ResolvedSoFar, Applying
<1>6. MediaPaired
  BY DEF PollInit, TrackerInit, MediaPaired, ZeroSession
<1> QED BY <1>1, <1>2, <1>3, <1>4, <1>5, <1>6 DEF PollInv

\* Every step keeps the parts.
LEMMA PollInvStep == PollInv /\ [Next]_vars => PollInv'
<1> SUFFICES ASSUME PollInv, [Next]_vars PROVE PollInv'
  OBVIOUS
<1> USE DEF PollInv
<1>1. [TrackerNext]_tvars
  BY ContractStep DEF TrackerInv
<1>2. TrackerInv' /\ TypeOK /\ TypeOK'
  BY <1>1, CapStep, SessionsStep DEF TrackerInv
<1>3. PollShape' /\ SweptInTime'
  BY <1>1, <1>2, ShapeStep, SweepStep
<1>4. CASE Next
  <2>1. GhostTypeOK' /\ EndsStamped'
    BY <1>1, <1>2, <1>4, GhostStep, EndsStep
  <2>2. MissedStopped' /\ AppliedSoFar'
    BY <1>2, <1>4, MissedStep, AppliedStep
  <2>3. MediaPaired' /\ SkippedResolved' /\ ResolvedSoFar'
    BY <1>2, <1>4, PairedStep, SkippedStep, ResolvedStep
  <2> QED BY <1>2, <1>3, <2>1, <2>2, <2>3
<1>5. CASE UNCHANGED vars
  <2> USE <1>5 DEF vars
  <2>1. GhostTypeOK' /\ EndsStamped' /\ MissedStopped'
    BY DEF GhostTypeOK, EndsStamped, MissedStopped, Present
  <2>2. AppliedSoFar' /\ ResolvedSoFar'
    BY DEF AppliedSoFar, ResolvedSoFar, Applying, Reached
  <2>3. MediaPaired' /\ SkippedResolved'
    BY DEF MediaPaired, SkippedResolved
  <2> QED BY <1>2, <1>3, <2>1, <2>2, <2>3
<1> QED BY <1>4, <1>5
-----------------------------------------------------------------------------
\* The strengthened invariant holds of the poll beside the prune loop.
THEOREM PollInvariant == Spec => []PollInv
BY PollInitInv, PollInvStep, PTL DEF Spec

\* The poll's variables keep their types.
THEOREM PollTypes == Spec => []PollTypeOK
<1>1. PollInv => PollTypeOK
  BY DEF PollInv, PollShape
<1> QED BY PollInvariant, <1>1, PTL

\* Whatever Plex answers and however polls, sweeps and Refresh interleave, the
\* tracker is only used as its own specification allows (server.go:502-540), so
\* every theorem about it under any caller holds in the running program.
THEOREM ContractKept == Spec => TrackerContract
<1>1. PollInit => TrackerInit
  BY DEF PollInit
<1>2. PollInv /\ [Next]_vars => [TrackerNext]_tvars
  BY ContractStep DEF PollInv, TrackerInv
<1> QED BY PollInvariant, <1>1, <1>2, PTL DEF Spec, TrackerContract, TrackerSpec

\* The poll never fills the map above its cap (tracker.go:168), and every
\* tracked session has its times in order.
THEOREM PollCapSane == Spec => [](CapRespected /\ SessionsSane)
<1>1. PollInv => CapRespected /\ SessionsSane
  BY DEF PollInv, TrackerInv
<1> QED BY PollInvariant, <1>1, PTL

\* A session without an update goes within its timeout and one sweep interval,
\* also while every poll fails (tracker.go:292-329).
THEOREM StaleSessionsGo == Spec => []StaleGoes
<1>1. PollInv => StaleGoes
  BY SweptFresh DEF PollInv
<1> QED BY PollInvariant, <1>1, PTL

\* A session that Plex no longer lists goes within SessionTimeout and one sweep
\* interval of the first poll that missed it: later polls do not renew it.
THEOREM EndedSessionsGo == Spec => []EndedGoes
<1>1. ASSUME PollInv PROVE EndedGoes
  <2> SUFFICES ASSUME NEW k \in tracked, ghost.missed[k] # 0
               PROVE  now - ghost.missed[k] <= SessionTimeout + PruneInterval
    BY DEF EndedGoes
  <2>1. /\ now \in Nat /\ nextPrune \in Nat /\ sessions[k].lastUpdate \in Nat
        /\ ghost.missed[k] \in Nat /\ PruneInterval \in Nat /\ SessionTimeout \in Nat
    BY <1>1, BoundsAssumption DEF PollInv, TrackerInv, TypeOK, Session, GhostTypeOK
  <2>2. sessions[k].state = "stopped" /\ sessions[k].lastUpdate <= ghost.missed[k]
    BY <1>1 DEF PollInv, MissedStopped
  <2>3. nextPrune <= sessions[k].lastUpdate + SessionTimeout + PruneInterval /\ now <= nextPrune
    BY <1>1, <2>2 DEF PollInv, SweptInTime, Timeout
  <2> QED BY <2>1, <2>2, <2>3
<1> QED BY PollInvariant, <1>1, PTL

\* A stopped session is reclaimed only after more than SessionTimeout since the
\* tracker saw it stop, so its last play time stays scrapeable that long.
THEOREM EndedSessionsStay == Spec => EndedStays
<1>1. ASSUME PollInv, Next, NEW k \in tracked \ tracked', sessions[k].state = "stopped"
      PROVE  now - ghost.ended[k] > SessionTimeout
  <2>1. [TrackerNext]_tvars
    BY <1>1, ContractStep DEF PollInv, TrackerInv
  <2>2. now - sessions[k].lastUpdate > SessionTimeout
    BY <1>1, <2>1, OnlyPruneRemoves DEF Expired
  <2>3. ghost.ended[k] <= sessions[k].lastUpdate
    BY <1>1 DEF PollInv, EndsStamped
  <2>4. /\ now \in Nat /\ sessions[k].lastUpdate \in Nat /\ ghost.ended[k] \in Nat
        /\ SessionTimeout \in Nat
    BY <1>1, BoundsAssumption DEF PollInv, TrackerInv, TypeOK, Session, GhostTypeOK
  <2> QED BY <2>2, <2>3, <2>4
<1>2. PollInv /\ [Next]_vars =>
        [\A k \in tracked \ tracked' :
            sessions[k].state = "stopped" => now - ghost.ended[k] > SessionTimeout]_vars
  BY <1>1
<1> QED BY PollInvariant, <1>2, PTL DEF Spec, EndedStays

\* What the step that ends a poll finds and leaves for each of its work items.
LEMMA PollEnding ==
    ASSUME PollInv, Next, pc = "classify", pc' = "idle",
           NEW r \in Work(answer), Alone(answer, r)
    PROVE  LET k == Norm[r] IN
           /\ tracked' = tracked /\ k \in Keys
           /\ k \in tracked =>
                /\ sessions'[k].state = answer[r].state
                /\ sessions'[k].meta = answer[r].item
                /\ sessions'[k].video = (answer[r].ts # Nil)
           /\ sessions'[k].mediaMeta = sessions'[k].mediaKey
           /\ sessions'[k].mediaKey = sessions[k].mediaKey /\ sessions'[k].lib = sessions[k].lib
           /\ k \in tracked /\ media[r] # Nil =>
                /\ sessions[k].mediaKey = answer[r].item
                /\ LibOf[answer[r].item] \in libs => sessions[k].lib # Nil
<1>0. TypeOK /\ TypeOK' /\ PollShape /\ AppliedSoFar /\ ResolvedSoFar /\ MediaPaired'
  BY PollInvStep DEF PollInv, TrackerInv
<1> USE PollFacts, <1>0
<1>1. Classify
  BY NextCases DEF Quiet, PollTick, PollFails, PollAnswered, SnapshotLibraries, ResolveMedia,
        RefreshLibraries, ClockStep, pvars, MarkAbsent, FillLibrary, PruneStep, ApplyUpdate
<1>2. todo = {} /\ cur \in Work(answer)
  BY <1>1 DEF Classify, PollShape
<1>3. /\ tracked' = tracked /\ Norm[r] \in Keys
      /\ sessions'[Norm[r]].state = sessions[Norm[r]].state
      /\ sessions'[Norm[r]].meta = sessions[Norm[r]].meta
      /\ sessions'[Norm[r]].mediaKey = sessions[Norm[r]].mediaKey
      /\ sessions'[Norm[r]].lib = sessions[Norm[r]].lib
  BY <1>1, <1>2, ClassifyEffect
<1>4. Norm[r] \in tracked =>
        /\ sessions[Norm[r]].state = answer[r].state /\ sessions[Norm[r]].meta = answer[r].item
        /\ r = cur \/ sessions[Norm[r]].video = (answer[r].ts # Nil)
  BY <1>2 DEF AppliedSoFar, Applying, Reached
<1>5. Norm[r] \in tracked => sessions'[Norm[r]].video = (answer[r].ts # Nil)
  <2>1. CASE r = cur
    BY <1>1, <2>1, ClassifyEffect
  <2>2. CASE r # cur
    <3>1. Norm[cur] # Norm[r]
      BY <1>2, <2>2 DEF Alone
    <3> QED BY <1>1, <1>2, <1>4, <2>2, <3>1, ClassifyEffect
  <2> QED BY <2>1, <2>2
<1>6. Norm[r] \in tracked /\ media[r] # Nil =>
        /\ sessions[Norm[r]].mediaKey = answer[r].item
        /\ LibOf[answer[r].item] \in libs => sessions[Norm[r]].lib # Nil
  BY <1>2 DEF ResolvedSoFar, Applying, Reached
<1>7. sessions'[Norm[r]].mediaMeta = sessions'[Norm[r]].mediaKey
  BY <1>3 DEF MediaPaired
<1> QED BY <1>3, <1>4, <1>5, <1>6, <1>7

\* When a poll ends, what the tracker holds of its answer is what the answer
\* says, and nothing it held went missing but by the prune loop.
THEOREM PollsApply == Spec => PollApplies
<1>1. PollInv /\ [Next]_vars =>
        [pc = "classify" /\ pc' = "idle" =>
            \A r \in Work(answer) : Alone(answer, r) =>
                LET k == Norm[r] IN
                /\ k \in ghost.kept => k \in tracked'
                /\ k \in tracked' =>
                     /\ sessions'[k].state = answer[r].state
                     /\ sessions'[k].meta = answer[r].item
                     /\ sessions'[k].video = (answer[r].ts # Nil)]_vars
  <2> SUFFICES ASSUME PollInv, Next, pc = "classify", pc' = "idle",
                      NEW r \in Work(answer), Alone(answer, r)
               PROVE  /\ Norm[r] \in ghost.kept => Norm[r] \in tracked'
                      /\ Norm[r] \in tracked' =>
                           /\ sessions'[Norm[r]].state = answer[r].state
                           /\ sessions'[Norm[r]].meta = answer[r].item
                           /\ sessions'[Norm[r]].video = (answer[r].ts # Nil)
    OBVIOUS
  <2> QED BY PollEnding DEF PollInv, GhostTypeOK
<1> QED BY PollInvariant, <1>1, PTL DEF Spec, PollApplies

\* A skipped metadata read is never a loss: at the end of the poll the session
\* carries the listed item's metadata and a library if that was known.
THEOREM PollsResolve == Spec => PollResolves
<1>1. PollInv /\ [Next]_vars =>
        [pc = "classify" /\ pc' = "idle" =>
            \A r \in Work(answer) :
                LET k == Norm[r] IN
                /\ Alone(answer, r)
                /\ \/ k \in tracked' /\ media[r] # Nil
                   \/ k \in ghost.kept /\ r \in ghost.skipped
                => /\ sessions'[k].mediaMeta = answer[r].item
                   /\ sessions'[k].mediaKey = answer[r].item
                   /\ LibOf[answer[r].item] \in libs => sessions'[k].lib # Nil]_vars
  <2> SUFFICES ASSUME PollInv, Next, pc = "classify", pc' = "idle",
                      NEW r \in Work(answer), Alone(answer, r),
                      \/ Norm[r] \in tracked' /\ media[r] # Nil
                      \/ Norm[r] \in ghost.kept /\ r \in ghost.skipped
               PROVE  /\ sessions'[Norm[r]].mediaMeta = answer[r].item
                      /\ sessions'[Norm[r]].mediaKey = answer[r].item
                      /\ LibOf[answer[r].item] \in libs => sessions'[Norm[r]].lib # Nil
    OBVIOUS
  <2>1. CASE Norm[r] \in tracked' /\ media[r] # Nil
    BY <2>1, PollEnding
  <2>2. CASE Norm[r] \in ghost.kept /\ r \in ghost.skipped
    <3>1. sessions[Norm[r]].mediaKey = answer[r].item /\ sessions[Norm[r]].lib # Nil
      BY <2>2 DEF PollInv, SkippedResolved
    <3> QED BY <3>1, PollEnding
  <2> QED BY <2>1, <2>2
<1> QED BY PollInvariant, <1>1, PTL DEF Spec, PollResolves
-----------------------------------------------------------------------------
\* The published play time of a session that stays tracked never goes back.
LEMMA PlayGrows ==
    ASSUME TrackerInv, [TrackerNext]_tvars, NEW k \in tracked \cap tracked'
    PROVE  PlaySeconds(k) \in Nat /\ PlaySeconds(k)' \in Nat /\ PlaySeconds(k) <= PlaySeconds(k)'
<1>0. /\ k \in Keys /\ now \in Nat /\ sessions[k].prev \in Nat /\ sessions[k].playStarted \in Nat
      /\ sessions[k].playStarted <= now
  BY DEF TrackerInv, TypeOK, Session, SessionsSane, TimesOrdered
<1>1. PlaySeconds(k) \in Nat /\ Readings[k] = PlaySeconds(k) /\ Readings'[k] = PlaySeconds(k)'
  BY <1>0 DEF PlaySeconds, Banked, Readings
<1> SUFFICES Readings'[k] = Readings[k] \/ Readings'[k] = Readings[k] + 1
  BY <1>1
<1>2. CASE UNCHANGED tvars
  BY <1>2, MeterStutter DEF tvars, Meter!mvars
<1>3. CASE Tick
  BY <1>0, <1>3, MeterTick DEF Meter!MTick
<1>4. CASE Prune
  <2>1. k \notin Expired
    BY <1>4 DEF Prune
  <2> QED BY <1>0, <1>4, <2>1, MeterPrune DEF Meter!MForget
<1>5. ASSUME NEW id \in RawKeys, NEW st \in States,
             NEW meta \in Items \cup {Nil}, NEW mediaMeta \in Items \cup {Nil},
             Update(id, st, meta, mediaMeta)
      PROVE  Readings' = Readings
  <2>1. Meter!MPlay(Norm[id]) \/ Meter!MHold({Norm[id]}) \/ UNCHANGED Meter!mvars
    BY <1>5, MeterUpdate
  <2> QED BY <2>1 DEF Meter!MPlay, Meter!MHold, Meter!mvars
<1>6. ASSUME NEW id \in RawKeys,
             NEW l \in Libraries \cup {Nil}, NEW t \in Kinds \cup {Nil}, NEW v \in BOOLEAN,
             UpdateLibraryLabels(id, Labelled(sessions[Norm[id]], l, t, v))
      PROVE  Readings' = Readings
  BY <1>6, MeterLabels DEF Meter!mvars
<1>7. ASSUME NEW present \in SUBSET RawKeys, MarkAbsentStopped(present)
      PROVE  Readings' = Readings
  BY <1>7, MeterMark DEF Meter!MHold
<1> QED BY <1>2, <1>3, <1>4, <1>5, <1>6, <1>7 DEF TrackerNext

\* What a snapshot is worth at the moment it was taken.
SnapSeconds(k) ==
    IF snap[k].state = "playing" THEN snap[k].prev + (snapAt - snap[k].playStarted) ELSE snap[k].prev

\* A scrape in progress is at most ScrapeTime old, its copy was right when it
\* was taken, and sessions it still holds only gained play time since.
ScrapeInv ==
    /\ snapAt \in Nat /\ snap \in [Keys -> Session] /\ shown \in [Keys -> Nat]
    /\ pending \subseteq Keys /\ same \subseteq tracked
    /\ pending # {} => snapAt # 0
    /\ snapAt # 0 => snapAt <= now /\ now <= snapAt + ScrapeTime
    /\ \A k \in pending : snap[k].state = "playing" => snap[k].playStarted <= snapAt
    /\ \A k \in pending \cap same : SnapSeconds(k) <= PlaySeconds(k)
    /\ \A k \in Keys \ tracked : shown[k] = 0
    /\ OvershootBounded

\* A scrape reads: beside it the tracker makes the steps of a poll.
LEMMA ScrapeStepIsPollStep == [ScrapeNext]_allvars => [Next]_vars
BY DEF ScrapeNext, Beside, TakeSnapshot, EmitSession, allvars, vars

\* Every scrape runs beside the poll of SessionPoll and changes none of it.
THEOREM ScrapeBesidePoll == ScrapeSpec => Spec
<1>1. ScrapeInit => PollInit
  BY DEF ScrapeInit
<1> QED BY <1>1, ScrapeStepIsPollStep, PTL DEF ScrapeSpec, Spec

\* Before the first scrape nothing was emitted.
LEMMA ScrapeInitInv == ScrapeInit => ScrapeInv
<1> SUFFICES ASSUME ScrapeInit PROVE ScrapeInv
  OBVIOUS
<1>1. tracked = {}
  BY DEF ScrapeInit, PollInit, TrackerInit
<1> QED BY <1>1, ZeroIsSession DEF ScrapeInit, ScrapeInv, NoSnap, OvershootBounded

\* The play time of a tracked session is a number of seconds.
LEMMA PlaySecondsNat ==
    ASSUME TrackerInv, NEW k \in tracked
    PROVE  PlaySeconds(k) \in Nat
BY DEF TrackerInv, TypeOK, Session, SessionsSane, TimesOrdered, PlaySeconds, Banked

\* A snapshot takes what is tracked at that moment.
LEMMA SnapshotStep ==
    ASSUME TrackerInv, ScrapeInv, TakeSnapshot
    PROVE  ScrapeInv'
<1>1. /\ snap' = sessions /\ pending' = Published /\ snapAt' = now /\ same' = Published
      /\ UNCHANGED <<now, tracked, sessions, shown>>
  BY DEF TakeSnapshot, vars
<1>2. Published \subseteq tracked /\ tracked \subseteq Keys /\ sessions \in [Keys -> Session] /\ now \in Nat \ {0}
  BY DEF Published, TrackerInv, TypeOK
<1>3. \A k \in tracked : sessions[k].playStarted \in Nat /\ sessions[k].prev \in Nat
                          /\ sessions[k].playStarted <= now
  BY DEF TrackerInv, TypeOK, Session, SessionsSane, TimesOrdered
<1>4. \A k \in tracked : PlaySeconds(k)' = PlaySeconds(k) /\ PlaySeconds(k) \in Nat
                          /\ SnapSeconds(k)' = PlaySeconds(k)
  BY <1>1, PlaySecondsNat DEF PlaySeconds, Banked, SnapSeconds
<1>5. /\ snapAt' \in Nat /\ snap' \in [Keys -> Session] /\ shown' \in [Keys -> Nat]
      /\ pending' \subseteq Keys /\ same' \subseteq tracked' /\ snapAt' # 0
      /\ snapAt' <= now' /\ now' <= snapAt' + ScrapeTime
  BY <1>1, <1>2, ScrapeAssumption DEF ScrapeInv
<1>6. \A k \in pending' : snap'[k].playStarted <= snapAt' /\ SnapSeconds(k)' <= PlaySeconds(k)'
  BY <1>1, <1>2, <1>3, <1>4
<1>7. \A k \in Keys \ tracked' : shown'[k] = 0
  BY <1>1 DEF ScrapeInv
<1>8. OvershootBounded'
  BY <1>1, <1>4 DEF ScrapeInv, OvershootBounded
<1> QED BY <1>5, <1>6, <1>7, <1>8 DEF ScrapeInv

\* One session more is emitted, as the snapshot has it.
LEMMA EmitStep ==
    ASSUME TrackerInv, ScrapeInv, NEW k \in Keys, EmitSession(k)
    PROVE  ScrapeInv'
<1>1. /\ k \in pending /\ pending' = pending \ {k}
      /\ shown' = IF k \in same THEN [shown EXCEPT ![k] = Emitted(snap[k])] ELSE shown
      /\ \/ pending' = {} /\ snap' = NoSnap /\ snapAt' = 0 /\ same' = {}
         \/ UNCHANGED <<snap, snapAt, same>>
      /\ UNCHANGED <<now, tracked, sessions>>
  BY DEF EmitSession, vars
<1>2. /\ snapAt \in Nat /\ snap \in [Keys -> Session] /\ shown \in [Keys -> Nat] /\ now \in Nat
      /\ same \subseteq tracked /\ tracked \subseteq Keys /\ ScrapeTime \in Nat
      /\ snapAt <= now /\ now <= snapAt + ScrapeTime
  BY <1>1, ScrapeAssumption DEF ScrapeInv, TrackerInv, TypeOK
<1>3. ASSUME k \in same
      PROVE  Emitted(snap[k]) \in Nat /\ Emitted(snap[k]) <= PlaySeconds(k) + ScrapeTime
  <2>1. PlaySeconds(k) \in Nat /\ SnapSeconds(k) <= PlaySeconds(k)
    BY <1>1, <1>2, <1>3, PlaySecondsNat DEF ScrapeInv
  <2>2. /\ snap[k].prev \in Nat /\ snap[k].playStarted \in Nat
        /\ snap[k].state = "playing" => snap[k].playStarted <= snapAt
    BY <1>1, <1>2 DEF ScrapeInv, Session
  <2> QED BY <1>2, <2>1, <2>2 DEF Emitted, SnapSeconds
<1>4. \A j \in Keys : PlaySeconds(j)' = PlaySeconds(j)
  BY <1>1 DEF PlaySeconds, Banked
<1> HIDE DEF Emitted
<1>5. shown' \in [Keys -> Nat] /\ \A j \in Keys \ tracked' : shown'[j] = 0
  BY <1>1, <1>2, <1>3 DEF ScrapeInv
<1>6. OvershootBounded'
  BY <1>1, <1>2, <1>3, <1>4 DEF ScrapeInv, OvershootBounded
<1>7. CASE pending' = {} /\ snap' = NoSnap /\ snapAt' = 0 /\ same' = {}
  BY <1>5, <1>6, <1>7, ZeroIsSession DEF ScrapeInv, NoSnap
<1>8. CASE UNCHANGED <<snap, snapAt, same>>
  <2>1. \A j \in Keys : SnapSeconds(j)' = SnapSeconds(j)
    BY <1>8 DEF SnapSeconds
  <2> QED BY <1>1, <1>2, <1>4, <1>5, <1>6, <1>8, <2>1 DEF ScrapeInv
<1> QED BY <1>1, <1>7, <1>8

\* The polls and prunes beside a scrape do not touch its snapshot.
LEMMA BesideStep ==
    ASSUME TrackerInv, TrackerInv', [TrackerNext]_tvars, ScrapeInv, Beside
    PROVE  ScrapeInv'
<1>1. /\ same' = same \cap tracked'
      /\ shown' = [k \in Keys |-> IF k \in tracked' THEN shown[k] ELSE 0]
      /\ UNCHANGED <<snap, pending, snapAt>>
      /\ now' > now /\ snapAt # 0 => now - snapAt < ScrapeTime
  BY DEF Beside
<1>2. /\ now \in Nat /\ now' \in Nat /\ (now' = now \/ now' = now + 1)
      /\ tracked \subseteq Keys /\ tracked' \subseteq Keys
      /\ snapAt \in Nat /\ shown \in [Keys -> Nat] /\ ScrapeTime \in Nat
  BY ClockFate, ScrapeAssumption DEF Tick, Prune, TrackerInv, TypeOK, ScrapeInv
<1>3. snapAt' # 0 => snapAt' <= now' /\ now' <= snapAt' + ScrapeTime
  BY <1>1, <1>2 DEF ScrapeInv
<1>4. \A k \in Keys : SnapSeconds(k)' = SnapSeconds(k)
  BY <1>1 DEF SnapSeconds
<1>5. ASSUME NEW k \in pending' \cap same' PROVE SnapSeconds(k)' <= PlaySeconds(k)'
  <2>1. k \in tracked \cap tracked' /\ k \in pending \cap same
    BY <1>1, <1>5 DEF ScrapeInv
  <2>2. PlaySeconds(k) \in Nat /\ PlaySeconds(k)' \in Nat /\ PlaySeconds(k) <= PlaySeconds(k)'
    BY <2>1, PlayGrows
  <2>3. SnapSeconds(k)' = SnapSeconds(k) /\ SnapSeconds(k) <= PlaySeconds(k)
    BY <1>2, <1>4, <2>1 DEF ScrapeInv
  <2>4. SnapSeconds(k) \in Int
    BY <1>2, <2>1 DEF SnapSeconds, ScrapeInv, Session
  <2> QED BY <2>2, <2>3, <2>4
<1>6. ASSUME NEW k \in tracked' PROVE shown'[k] <= PlaySeconds(k)' + ScrapeTime
  <2>1. k \in Keys /\ shown'[k] = shown[k] /\ shown[k] \in Nat
    BY <1>1, <1>2
  <2>2. CASE k \in tracked
    <3>1. PlaySeconds(k) \in Nat /\ PlaySeconds(k)' \in Nat /\ PlaySeconds(k) <= PlaySeconds(k)'
      BY <2>2, PlayGrows
    <3>2. shown[k] <= PlaySeconds(k) + ScrapeTime
      BY <2>2 DEF ScrapeInv, OvershootBounded
    <3> QED BY <1>2, <2>1, <3>1, <3>2
  <2>3. CASE k \notin tracked
    <3>1. shown[k] = 0
      BY <2>1, <2>3 DEF ScrapeInv
    <3>2. PlaySeconds(k)' \in Nat
      BY PlaySecondsNat DEF TrackerInv, TypeOK, Session, SessionsSane, TimesOrdered, PlaySeconds, Banked
    <3> QED BY <1>2, <2>1, <3>1, <3>2
  <2> QED BY <2>2, <2>3
<1> QED BY <1>1, <1>2, <1>3, <1>5, <1>6 DEF ScrapeInv, OvershootBounded

\* Whenever it runs, a scrape shows at most ScrapeTime more than the session's
\* own play time (collect.go:97-100): the copy is made first and the clock read
\* last, and no other goroutine makes the difference larger.
THEOREM OvershootIsBounded == ScrapeSpec => []OvershootBounded
<1>1. ScrapeSpec => []PollInv
  BY ScrapeBesidePoll, PollInvariant, PTL
<1>2. PollInv /\ PollInv' /\ ScrapeInv /\ [ScrapeNext]_allvars => ScrapeInv'
  <2> SUFFICES ASSUME PollInv, PollInv', ScrapeInv, [ScrapeNext]_allvars PROVE ScrapeInv'
    OBVIOUS
  <2>0. TrackerInv /\ TrackerInv' /\ [TrackerNext]_tvars
    BY ScrapeStepIsPollStep, ContractStep DEF PollInv, TrackerInv
  <2>1. CASE UNCHANGED allvars
    <3>1. UNCHANGED <<now, tracked, sessions, snap, pending, snapAt, same, shown>>
      BY <2>1 DEF allvars, vars, svars
    <3>2. \A k \in Keys : PlaySeconds(k)' = PlaySeconds(k) /\ SnapSeconds(k)' = SnapSeconds(k)
      BY <3>1 DEF PlaySeconds, Banked, SnapSeconds
    <3>3. tracked \subseteq Keys
      BY <2>0 DEF TrackerInv, TypeOK
    <3> QED BY <3>1, <3>2, <3>3 DEF ScrapeInv, OvershootBounded
  <2>2. CASE Beside
    BY <2>0, <2>2, BesideStep
  <2>3. CASE TakeSnapshot
    BY <2>0, <2>3, SnapshotStep
  <2>4. ASSUME NEW k \in Keys, EmitSession(k) PROVE ScrapeInv'
    BY <2>0, <2>4, EmitStep
  <2> QED BY <2>1, <2>2, <2>3, <2>4 DEF ScrapeNext
<1>3. ScrapeInv => OvershootBounded
  BY DEF ScrapeInv
<1> QED BY <1>1, <1>2, <1>3, ScrapeInitInv, PTL DEF ScrapeSpec

\* Beside polls, sweeps and scrapes the published play time is still the meter
\* that counts exactly the time a session was tracked as playing.
THEOREM MeterUnderPoll == Spec => MeterSpec
BY ContractKept, MeterImplemented, PTL DEF TrackerContract
=============================================================================
