------------------------ MODULE SessionTrackerProofs ------------------------
(* Proofs about the tracker under any caller, for every number of keys, every *)
(* cap and every timeout: the types, the cap, the order of the timestamps and *)
(* that the published play time is the meter of PlayMeter.                    *)
EXTENDS SessionTracker, TLAPS, FiniteSetTheorems

\* The inductive invariant: a bank can only be shown to be sound together with
\* the order of the timestamps it is computed from.
TrackerInv ==
    /\ TypeOK
    /\ CapRespected
    /\ SessionsSane

\* The zero value of a missing map entry is a Session.
LEMMA ZeroIsSession == ZeroSession \in Session
BY DEF ZeroSession, Session

\* The metadata half of Update keeps a session a session and touches no time.
LEMMA WithMetaSession ==
    ASSUME NEW s \in Session,
           NEW meta \in Items \cup {Nil}, NEW mediaMeta \in Items \cup {Nil}
    PROVE  LET m == WithMeta(s, meta, mediaMeta) IN
           /\ m \in Session
           /\ m.state = s.state /\ m.prev = s.prev
           /\ m.playStarted = s.playStarted /\ m.lastUpdate = s.lastUpdate
BY ZenonT(30) DEF WithMeta, Session

\* The state half of Update leaves a session stamped now, with its times in
\* order, whether it found a session or the zero value (tracker.go:183-193).
LEMMA WithStateSane ==
    ASSUME now \in Nat \ {0},
           NEW s \in Session,
           \/ s.state = "none" /\ s.prev = 0 /\ s.playStarted = 0
           \/ TimesOrdered(s),
           NEW st \in States
    PROVE  WithState(s, st) \in Session /\ TimesOrdered(WithState(s, st))
<1> DEFINE u == WithState(s, st)
<1>1. s.prev \in Nat /\ s.playStarted \in Nat /\ s.lastUpdate \in Nat
  BY DEF Session
<1>2. /\ u.state = st /\ u.lastUpdate = now
      /\ u.prev = (IF s.state = "playing" /\ st # "playing"
                   THEN s.prev + (now - s.playStarted) ELSE s.prev)
      /\ u.playStarted = (IF s.state # "playing" /\ st = "playing" THEN now ELSE s.playStarted)
  BY DEF WithState, Session, Banked
<1>3. /\ u.prev \in Nat /\ u.prev <= now
      /\ u.playStarted \in Nat /\ u.playStarted <= now
      /\ st = "playing" => 1 <= u.playStarted /\ u.prev <= u.playStarted
  BY <1>1, <1>2 DEF TimesOrdered
<1>4. u \in Session
  BY <1>2, <1>3, ZenonT(30) DEF WithState, Session
<1> QED BY <1>2, <1>3, <1>4 DEF TimesOrdered

\* What Update stores for a session or for the zero value.
LEMMA UpdatedSane ==
    ASSUME now \in Nat \ {0},
           NEW s \in Session, s = ZeroSession \/ TimesOrdered(s),
           NEW st \in States,
           NEW meta \in Items \cup {Nil}, NEW mediaMeta \in Items \cup {Nil}
    PROVE  /\ Updated(s, st, meta, mediaMeta) \in Session
           /\ TimesOrdered(Updated(s, st, meta, mediaMeta))
<1> DEFINE m == WithMeta(s, meta, mediaMeta)
<1>1. /\ m \in Session /\ m.state = s.state /\ m.prev = s.prev
      /\ m.playStarted = s.playStarted /\ m.lastUpdate = s.lastUpdate
  BY WithMetaSession
<1>2. \/ m.state = "none" /\ m.prev = 0 /\ m.playStarted = 0
      \/ TimesOrdered(m)
  BY <1>1 DEF ZeroSession, TimesOrdered
<1> HIDE DEF m
<1>3. WithState(m, st) \in Session /\ TimesOrdered(WithState(m, st))
  BY <1>1, <1>2, WithStateSane
<1> QED BY <1>3 DEF Updated, m

\* The same of the session MarkAbsentStopped leaves (tracker.go:212-224).
LEMMA StoppedSane ==
    ASSUME now \in Nat \ {0},
           NEW s \in Session, TimesOrdered(s)
    PROVE  Stopped(s) \in Session /\ TimesOrdered(Stopped(s))
<1> DEFINE u == Stopped(s)
<1>1. s.prev \in Nat /\ s.playStarted \in Nat /\ s.lastUpdate \in Nat
  BY DEF Session
<1>2. /\ s.lastUpdate <= now /\ s.playStarted <= s.lastUpdate /\ s.prev <= s.lastUpdate
      /\ s.state = "playing" => s.prev <= s.playStarted
  BY DEF TimesOrdered
<1>3. /\ u.state = "stopped" /\ u.lastUpdate = now /\ u.playStarted = s.playStarted
      /\ u.prev = (IF s.state = "playing" THEN s.prev + (now - s.playStarted) ELSE s.prev)
  BY DEF Stopped, Session, Banked
<1>4. u.prev \in Nat /\ u.prev <= now
  BY <1>1, <1>2, <1>3
<1>5. u \in Session
  BY <1>3, <1>4, ZenonT(30) DEF Stopped, Session, States
<1> QED BY <1>1, <1>2, <1>3, <1>4, <1>5 DEF TimesOrdered, States
-----------------------------------------------------------------------------
\* A label write changes no state and no time.
LEMMA LabelledSane ==
    ASSUME NEW s \in Session,
           NEW l \in Libraries \cup {Nil}, NEW t \in Kinds \cup {Nil}, NEW v \in BOOLEAN
    PROVE  LET ss == Labelled(s, l, t, v) IN
           /\ ss \in Session
           /\ ss.state = s.state /\ ss.prev = s.prev
           /\ ss.playStarted = s.playStarted /\ ss.lastUpdate = s.lastUpdate
BY ZenonT(30) DEF Labelled, Session

\* A new tracker holds nothing.
LEMMA InitInv == TrackerInit => TrackerInv
<1> SUFFICES ASSUME TrackerInit PROVE TrackerInv
  OBVIOUS
<1>1. TypeOK
  BY ZeroIsSession, BoundsAssumption DEF TrackerInit, TypeOK
<1>2. CapRespected
  <2>1. Cardinality(tracked) = 0
    BY FS_EmptySet DEF TrackerInit
  <2> QED BY <2>1, BoundsAssumption DEF CapRespected
<1>3. SessionsSane
  BY DEF TrackerInit, SessionsSane
<1> QED BY <1>1, <1>2, <1>3 DEF TrackerInv

\* The map stays within its cap: only Update adds a key, and only below it.
LEMMA CapStep == ASSUME TrackerInv, [TrackerNext]_tvars PROVE CapRespected'
<1> USE DEF TrackerInv
<1>1. IsFiniteSet(tracked)
  BY FS_Subset, KeysAssumption DEF TypeOK
<1>2. ASSUME tracked' = tracked PROVE CapRespected'
  BY <1>2 DEF CapRespected
<1>3. ASSUME Prune PROVE CapRespected'
  <2>1. tracked' \subseteq tracked
    BY <1>3 DEF Prune
  <2>2. Cardinality(tracked') <= Cardinality(tracked)
    BY <1>1, <2>1, FS_Subset
  <2>3. Cardinality(tracked') \in Nat /\ Cardinality(tracked) \in Nat
    BY <1>1, <2>1, FS_Subset, FS_CardinalityType
  <2> QED BY <2>2, <2>3, BoundsAssumption DEF CapRespected
<1>4. ASSUME NEW id \in RawKeys, NEW st \in States,
             NEW meta \in Items \cup {Nil}, NEW mediaMeta \in Items \cup {Nil},
             Update(id, st, meta, mediaMeta)
      PROVE  CapRespected'
  <2>1. CASE tracked' = tracked
    BY <2>1, <1>2
  <2>2. CASE tracked' # tracked
    <3>1. Norm[id] \notin tracked /\ ~MapFull /\ tracked' = tracked \cup {Norm[id]}
      BY <1>4, <2>2 DEF Update
    <3>2. Cardinality(tracked') = Cardinality(tracked) + 1
      BY <1>1, <3>1, FS_AddElement
    <3>3. Cardinality(tracked) \in Nat
      BY <1>1, FS_CardinalityType
    <3> QED BY <3>1, <3>2, <3>3, BoundsAssumption DEF MapFull, CapRespected
  <2> QED BY <2>1, <2>2
<1>5. CASE UNCHANGED tvars
  BY <1>5, <1>2 DEF tvars
<1>6. CASE Tick
  BY <1>6, <1>2 DEF Tick
<1>7. ASSUME NEW id \in RawKeys, NEW ss, UpdateLibraryLabels(id, ss) PROVE CapRespected'
  BY <1>7, <1>2 DEF UpdateLibraryLabels
<1>8. ASSUME NEW present \in SUBSET RawKeys, MarkAbsentStopped(present) PROVE CapRespected'
  BY <1>8, <1>2 DEF MarkAbsentStopped
<1> QED BY <1>3, <1>4, <1>5, <1>6, <1>7, <1>8 DEF TrackerNext

\* Every method stores sessions with sane times and clears what it removes.
LEMMA SessionsStep ==
    ASSUME TrackerInv, [TrackerNext]_tvars
    PROVE  TypeOK' /\ SessionsSane'
<1> USE DEF TrackerInv
<1>0. now \in Nat \ {0}
  BY DEF TypeOK
<1>1. CASE UNCHANGED tvars
  BY <1>1 DEF tvars, TypeOK, SessionsSane, TimesOrdered
<1>2. CASE Tick
  <2>1. TypeOK'
    BY <1>2, <1>0 DEF Tick, TypeOK
  <2>2. \A k \in tracked' : TimesOrdered(sessions[k])'
    <3> SUFFICES ASSUME NEW k \in tracked PROVE TimesOrdered(sessions[k])'
      BY <1>2 DEF Tick
    <3>1. sessions[k].lastUpdate \in Nat
      BY DEF TypeOK, Session
    <3> QED BY <1>2, <1>0, <3>1 DEF Tick, SessionsSane, TimesOrdered
  <2> QED BY <1>2, <2>1, <2>2 DEF Tick, SessionsSane
<1>3. CASE Prune
  <2>1. TypeOK'
    BY <1>3, ZeroIsSession, BoundsAssumption DEF Prune, TypeOK
  <2>2. \A k \in tracked' : TimesOrdered(sessions[k])'
    <3> SUFFICES ASSUME NEW k \in tracked' PROVE TimesOrdered(sessions[k])'
      OBVIOUS
    <3>1. k \in tracked /\ k \in Keys /\ sessions'[k] = sessions[k]
      BY <1>3 DEF Prune, TypeOK
    <3> QED BY <1>3, <3>1 DEF Prune, SessionsSane, TimesOrdered
  <2>3. \A k \in Keys \ tracked' : sessions'[k] = ZeroSession
    BY <1>3 DEF Prune, SessionsSane
  <2> QED BY <2>1, <2>2, <2>3 DEF SessionsSane
<1>4. ASSUME NEW id \in RawKeys, NEW st \in States,
             NEW meta \in Items \cup {Nil}, NEW mediaMeta \in Items \cup {Nil},
             Update(id, st, meta, mediaMeta)
      PROVE  TypeOK' /\ SessionsSane'
  <2> DEFINE k == Norm[id]
             u == Updated(sessions[k], st, meta, mediaMeta)
  <2>1. k \in Keys
    BY KeysAssumption
  <2>2. CASE UNCHANGED <<tracked, sessions>>
    BY <1>4, <2>2 DEF Update, TypeOK, SessionsSane, TimesOrdered
  <2>3. CASE tracked' = tracked \cup {k} /\ sessions' = [sessions EXCEPT ![k] = u]
    <3>1. u \in Session /\ TimesOrdered(u)
      <4>1. sessions[k] \in Session
        BY <2>1 DEF TypeOK
      <4>2. sessions[k] = ZeroSession \/ TimesOrdered(sessions[k])
        BY <2>1 DEF SessionsSane
      <4> QED BY <1>0, <4>1, <4>2, UpdatedSane
    <3>2. UNCHANGED <<now, nextPrune>>
      BY <1>4 DEF Update
    <3> HIDE DEF u, k
    <3>3. TypeOK'
      BY <2>1, <2>3, <3>1, <3>2 DEF TypeOK
    <3>4. ASSUME NEW j \in tracked' PROVE TimesOrdered(sessions[j])'
      <4>1. TimesOrdered(sessions'[j])
        BY <2>1, <2>3, <3>1 DEF TypeOK, SessionsSane
      <4> QED BY <4>1, <3>2 DEF TimesOrdered
    <3>5. ASSUME NEW j \in Keys \ tracked' PROVE sessions'[j] = ZeroSession
      BY <2>1, <2>3 DEF TypeOK, SessionsSane
    <3> QED BY <3>3, <3>4, <3>5 DEF SessionsSane
  <2> QED BY <1>4, <2>2, <2>3 DEF Update
<1>5. ASSUME NEW id \in RawKeys,
             NEW l \in Libraries \cup {Nil}, NEW t \in Kinds \cup {Nil}, NEW v \in BOOLEAN,
             UpdateLibraryLabels(id, Labelled(sessions[Norm[id]], l, t, v))
      PROVE  TypeOK' /\ SessionsSane'
  <2> DEFINE k == Norm[id]
             ss == Labelled(sessions[k], l, t, v)
  <2>1. k \in Keys /\ sessions[k] \in Session
    BY KeysAssumption DEF TypeOK
  <2>2. /\ ss \in Session
        /\ ss.state = sessions[k].state /\ ss.prev = sessions[k].prev
        /\ ss.playStarted = sessions[k].playStarted
        /\ ss.lastUpdate = sessions[k].lastUpdate
    BY <2>1, LabelledSane
  <2>3. /\ sessions' = IF k \in tracked THEN [sessions EXCEPT ![k] = ss] ELSE sessions
        /\ UNCHANGED <<now, nextPrune, tracked>>
    BY <1>5 DEF UpdateLibraryLabels
  <2> HIDE DEF ss, k
  <2>4. TypeOK'
    BY <2>1, <2>2, <2>3 DEF TypeOK
  <2>5. ASSUME NEW j \in tracked' PROVE TimesOrdered(sessions[j])'
    <3>1. /\ sessions'[j].state = sessions[j].state
          /\ sessions'[j].prev = sessions[j].prev
          /\ sessions'[j].playStarted = sessions[j].playStarted
          /\ sessions'[j].lastUpdate = sessions[j].lastUpdate
      BY <2>1, <2>2, <2>3 DEF TypeOK
    <3> QED BY <2>3, <3>1 DEF SessionsSane, TimesOrdered
  <2>6. ASSUME NEW j \in Keys \ tracked' PROVE sessions'[j] = ZeroSession
    BY <2>1, <2>3 DEF TypeOK, SessionsSane
  <2> QED BY <2>4, <2>5, <2>6 DEF SessionsSane
<1>6. ASSUME NEW present \in SUBSET RawKeys, MarkAbsentStopped(present)
      PROVE  TypeOK' /\ SessionsSane'
  <2> DEFINE V == Vanished(present)
  <2>1. /\ sessions' = [k \in Keys |-> IF k \in V THEN Stopped(sessions[k]) ELSE sessions[k]]
        /\ UNCHANGED <<now, nextPrune, tracked>>
    BY <1>6 DEF MarkAbsentStopped
  <2>2. V \subseteq tracked
    BY DEF Vanished
  <2>3. ASSUME NEW j \in V PROVE Stopped(sessions[j]) \in Session /\ TimesOrdered(Stopped(sessions[j]))
    <3>1. sessions[j] \in Session /\ TimesOrdered(sessions[j])
      BY <2>2 DEF TypeOK, SessionsSane
    <3> QED BY <1>0, <3>1, StoppedSane
  <2> HIDE DEF V
  <2>4. TypeOK'
    BY <2>1, <2>2, <2>3 DEF TypeOK
  <2>5. ASSUME NEW j \in tracked' PROVE TimesOrdered(sessions[j])'
    <3>1. TimesOrdered(sessions'[j])
      BY <2>1, <2>3 DEF TypeOK, SessionsSane
    <3> QED BY <2>1, <3>1 DEF TimesOrdered
  <2>6. ASSUME NEW j \in Keys \ tracked' PROVE sessions'[j] = ZeroSession
    BY <2>1, <2>2 DEF SessionsSane
  <2> QED BY <2>4, <2>5, <2>6 DEF SessionsSane
<1> QED BY <1>1, <1>2, <1>3, <1>4, <1>5, <1>6 DEF TrackerNext
-----------------------------------------------------------------------------
\* The strengthened invariant holds of the tracker under any caller.
THEOREM TrackerInvariant == TrackerSpec => []TrackerInv
<1>1. TrackerInv /\ [TrackerNext]_tvars => TrackerInv'
  BY CapStep, SessionsStep DEF TrackerInv
<1> QED BY <1>1, InitInv, PTL DEF TrackerSpec

\* The map and the clock keep their types whatever the callers do.
THEOREM TypeCorrect == TrackerSpec => []TypeOK
BY TrackerInvariant, PTL DEF TrackerInv

\* The map never exceeds maxTrackedSessions (tracker.go:168).
THEOREM CapHolds == TrackerSpec => []CapRespected
BY TrackerInvariant, PTL DEF TrackerInv

\* The timestamps a bank is computed from are always in order, and a key that
\* is not in the map carries nothing over (tracker.go:150-193, 202-225).
THEOREM SaneTimes == TrackerSpec => []SessionsSane
BY TrackerInvariant, PTL DEF TrackerInv
-----------------------------------------------------------------------------
\* A step that changes no session, no key and no time changes no meter.
LEMMA MeterStutter ==
    ASSUME UNCHANGED <<now, tracked, sessions>>
    PROVE  UNCHANGED Meter!mvars
BY DEF Meter!mvars, Published, Running, Readings, PlaySeconds, Banked

\* One tick adds one to the reading of exactly the playing sessions.
LEMMA MeterTick == ASSUME TrackerInv, Tick PROVE Meter!MTick
<1>1. now \in Nat /\ now' = now + 1 /\ UNCHANGED <<tracked, sessions>>
  BY DEF TrackerInv, TypeOK, Tick
<1>2. ASSUME NEW k \in Keys
      PROVE  PlaySeconds(k)' = IF k \in Running THEN PlaySeconds(k) + 1 ELSE PlaySeconds(k)
  <2>1. sessions[k].prev \in Nat /\ sessions[k].playStarted \in Nat
    BY DEF TrackerInv, TypeOK, Session
  <2>2. k \notin tracked => sessions[k].state # "playing"
    BY DEF TrackerInv, SessionsSane, ZeroSession
  <2> QED BY <1>1, <2>1, <2>2 DEF PlaySeconds, Banked, Running
<1>3. UNCHANGED <<Published, Running>>
  BY <1>1 DEF Published, Running
<1>4. Readings' = [k \in Keys |-> IF k \in Running THEN Readings[k] + 1 ELSE Readings[k]]
  BY <1>2 DEF Readings
<1> QED BY <1>3, <1>4 DEF Meter!MTick

\* A sweep forgets the meters of the sessions it reclaims and no other.
LEMMA MeterPrune == ASSUME TrackerInv, Prune PROVE Meter!MForget(Expired)
<1>1. /\ now' = now /\ tracked' = tracked \ Expired
      /\ sessions' = [k \in Keys |-> IF k \in Expired THEN ZeroSession ELSE sessions[k]]
  BY DEF Prune
<1>2. tracked \subseteq Keys
  BY DEF TrackerInv, TypeOK
<1>3. Published' = Published \ Expired /\ Running' = Running \ Expired
  BY <1>1, <1>2 DEF Published, Running
<1>4. ASSUME NEW k \in Keys
      PROVE  PlaySeconds(k)' = IF k \in Expired THEN 0 ELSE PlaySeconds(k)
  BY <1>1 DEF PlaySeconds, Banked, ZeroSession
<1>5. Readings' = [k \in Keys |-> IF k \in Expired THEN 0 ELSE Readings[k]]
  BY <1>4 DEF Readings
<1> QED BY <1>3, <1>5 DEF Meter!MForget

\* Absent sessions keep their readings and stop running.
LEMMA MeterMark ==
    ASSUME TrackerInv, NEW present \in SUBSET RawKeys, MarkAbsentStopped(present)
    PROVE  Meter!MHold(Vanished(present))
<1> DEFINE V == Vanished(present)
<1>1. /\ sessions' = [k \in Keys |-> IF k \in V THEN Stopped(sessions[k]) ELSE sessions[k]]
      /\ now' = now /\ tracked' = tracked
  BY DEF MarkAbsentStopped
<1>2. tracked \subseteq Keys /\ sessions \in [Keys -> Session]
  BY DEF TrackerInv, TypeOK
<1> HIDE DEF V
<1>3. ASSUME NEW k \in Keys
      PROVE  /\ Stopped(sessions[k]).state = "stopped"
             /\ Stopped(sessions[k]).playStarted = sessions[k].playStarted
             /\ Stopped(sessions[k]).prev = PlaySeconds(k)
  BY <1>2 DEF Stopped, Session, PlaySeconds
<1>4. ASSUME NEW k \in Keys PROVE PlaySeconds(k)' = PlaySeconds(k)
  BY <1>1, <1>3 DEF PlaySeconds, Banked
<1>5. Published' = Published
  BY <1>1, <1>2, <1>3 DEF Published
<1>6. Running' = Running \ V
  BY <1>1, <1>2, <1>3 DEF Running
<1>7. Readings' = Readings
  BY <1>4 DEF Readings
<1> QED BY <1>5, <1>6, <1>7 DEF Meter!MHold, V

\* A label write moves no meter.
LEMMA MeterLabels ==
    ASSUME TrackerInv, NEW id \in RawKeys,
           NEW l \in Libraries \cup {Nil}, NEW t \in Kinds \cup {Nil}, NEW v \in BOOLEAN,
           UpdateLibraryLabels(id, Labelled(sessions[Norm[id]], l, t, v))
    PROVE  UNCHANGED Meter!mvars
<1> DEFINE k == Norm[id]
           ss == Labelled(sessions[k], l, t, v)
<1>1. k \in Keys /\ sessions \in [Keys -> Session] /\ tracked \subseteq Keys
  BY KeysAssumption DEF TrackerInv, TypeOK
<1>2. /\ ss.state = sessions[k].state /\ ss.prev = sessions[k].prev
      /\ ss.playStarted = sessions[k].playStarted
  BY <1>1, LabelledSane
<1>3. /\ sessions' = IF k \in tracked THEN [sessions EXCEPT ![k] = ss] ELSE sessions
      /\ now' = now /\ tracked' = tracked
  BY DEF UpdateLibraryLabels
<1> HIDE DEF ss, k
<1>4. ASSUME NEW j \in Keys
      PROVE  /\ sessions'[j].state = sessions[j].state
             /\ sessions'[j].prev = sessions[j].prev
             /\ sessions'[j].playStarted = sessions[j].playStarted
  BY <1>1, <1>2, <1>3
<1>5. Published' = Published /\ Running' = Running
  BY <1>1, <1>3, <1>4 DEF Published, Running
<1>6. Readings' = Readings
  BY <1>3, <1>4 DEF Readings, PlaySeconds, Banked
<1> QED BY <1>5, <1>6 DEF Meter!mvars

\* An update to playing starts or resumes the meter, any other one holds it,
\* and neither moves its reading; a rejected session leaves every meter alone.
LEMMA MeterUpdate ==
    ASSUME TrackerInv, NEW id \in RawKeys, NEW st \in States,
           NEW meta \in Items \cup {Nil}, NEW mediaMeta \in Items \cup {Nil},
           Update(id, st, meta, mediaMeta)
    PROVE  Meter!MPlay(Norm[id]) \/ Meter!MHold({Norm[id]}) \/ UNCHANGED Meter!mvars
<1> DEFINE k == Norm[id]
           s == sessions[k]
           m == WithMeta(s, meta, mediaMeta)
           u == Updated(s, st, meta, mediaMeta)
<1>1. k \in Keys /\ s \in Session /\ sessions \in [Keys -> Session] /\ now \in Nat
  BY KeysAssumption DEF TrackerInv, TypeOK
<1>2. CASE UNCHANGED <<tracked, sessions>>
  BY <1>2, MeterStutter DEF Update
<1>3. CASE tracked' = tracked \cup {k} /\ sessions' = [sessions EXCEPT ![k] = u]
  <2>1. now' = now
    BY DEF Update
  <2>2. /\ m \in Session /\ m.state = s.state /\ m.prev = s.prev /\ m.playStarted = s.playStarted
    BY <1>1, WithMetaSession
  <2>3. /\ u.state = st
        /\ u.prev = (IF s.state = "playing" /\ st # "playing"
                     THEN s.prev + (now - s.playStarted) ELSE s.prev)
        /\ u.playStarted = (IF s.state # "playing" /\ st = "playing" THEN now ELSE s.playStarted)
    <3> HIDE DEF m
    <3> QED BY <2>2 DEF Updated, m, WithState, Session, Banked
  <2>4. /\ s.prev \in Nat /\ s.playStarted \in Nat
        /\ s.state = "playing" => s.playStarted # 0
        /\ k \notin tracked => s.state = "none" /\ s.playStarted = 0
    BY <1>1 DEF TrackerInv, SessionsSane, TimesOrdered, ZeroSession, Session
  <2>5. tracked \subseteq Keys
    BY DEF TrackerInv, TypeOK
  <2> HIDE DEF u, m, s, k
  <2>6. /\ sessions'[k] = u
        /\ \A j \in Keys \ {k} : sessions'[j] = sessions[j]
    BY <1>1, <1>3
  <2>7. PlaySeconds(k)' = PlaySeconds(k)
    BY <1>1, <2>1, <2>3, <2>4, <2>6 DEF PlaySeconds, Banked, s
  <2>8. \A j \in Keys \ {k} : PlaySeconds(j)' = PlaySeconds(j)
    BY <2>1, <2>6 DEF PlaySeconds, Banked
  <2>9. Readings' = Readings
    BY <2>7, <2>8 DEF Readings
  <2>10. CASE st = "playing"
    <3>1. u.state = "playing" /\ u.playStarted # 0
      BY <2>3, <2>4, <2>10, <1>1 DEF TrackerInv, TypeOK
    <3>2. Published' = Published \cup {k} /\ Running' = Running \cup {k}
      BY <1>1, <1>3, <2>5, <2>6, <3>1 DEF Published, Running
    <3> QED BY <2>9, <3>2 DEF Meter!MPlay, k
  <2>11. CASE st # "playing"
    <3>1. u.state # "playing" /\ u.playStarted = s.playStarted
      BY <2>3, <2>11
    <3>2. Running' = Running \ {k}
      BY <1>1, <1>3, <2>5, <2>6, <3>1 DEF Running
    <3>3. Published' = Published
      BY <1>1, <1>3, <2>4, <2>5, <2>6, <3>1 DEF Published, s
    <3> QED BY <2>9, <3>2, <3>3 DEF Meter!MHold, k
  <2> QED BY <2>10, <2>11
<1> QED BY <1>2, <1>3 DEF Update

\* And no time has been metered.
LEMMA MeterInit == TrackerInit => Meter!MInit
<1> SUFFICES ASSUME TrackerInit PROVE Meter!MInit
  OBVIOUS
<1>1. Published = {} /\ Running = {}
  BY DEF TrackerInit, Published, Running
<1>2. \A k \in Keys : PlaySeconds(k) = 0
  BY DEF TrackerInit, PlaySeconds, ZeroSession
<1> QED BY <1>1, <1>2 DEF Meter!MInit, Readings

\* Every step of the tracker is one of the meter, or leaves the meter as it is.
LEMMA MeterStep ==
    ASSUME TrackerInv, [TrackerNext]_tvars
    PROVE  [Meter!MNext]_(Meter!mvars)
<1>1. Expired \in SUBSET Keys /\ \A present \in SUBSET RawKeys : Vanished(present) \in SUBSET Keys
  BY DEF Expired, Vanished, TrackerInv, TypeOK
<1>2. CASE UNCHANGED tvars
  BY <1>2, MeterStutter DEF tvars
<1>3. CASE Tick
  BY <1>3, MeterTick DEF Meter!MNext
<1>4. CASE Prune
  BY <1>1, <1>4, MeterPrune DEF Meter!MNext
<1>5. ASSUME NEW id \in RawKeys, NEW st \in States,
             NEW meta \in Items \cup {Nil}, NEW mediaMeta \in Items \cup {Nil},
             Update(id, st, meta, mediaMeta)
      PROVE  [Meter!MNext]_(Meter!mvars)
  <2>1. Norm[id] \in Keys
    BY KeysAssumption
  <2>2. Meter!MPlay(Norm[id]) \/ Meter!MHold({Norm[id]}) \/ UNCHANGED Meter!mvars
    BY <1>5, MeterUpdate
  <2> QED BY <2>1, <2>2 DEF Meter!MNext
<1>6. ASSUME NEW id \in RawKeys,
             NEW l \in Libraries \cup {Nil}, NEW t \in Kinds \cup {Nil}, NEW v \in BOOLEAN,
             UpdateLibraryLabels(id, Labelled(sessions[Norm[id]], l, t, v))
      PROVE  UNCHANGED Meter!mvars
  BY <1>6, MeterLabels
<1>7. ASSUME NEW present \in SUBSET RawKeys, MarkAbsentStopped(present)
      PROVE  Meter!MNext
  BY <1>1, <1>7, MeterMark DEF Meter!MNext
<1> QED BY <1>2, <1>3, <1>4, <1>5, <1>6, <1>7 DEF TrackerNext

\* The tracker implements the meter: for every cap, timeout and number of
\* sessions, the published play time counts exactly the time a session was
\* tracked as playing (tracker.go:150-225, collect.go:97-100).
THEOREM MeterImplemented == TrackerSpec => MeterSpec
<1>1. TrackerSpec => []TrackerInv
  BY TrackerInvariant
<1>2. TrackerInv /\ [TrackerNext]_tvars => [Meter!MNext]_(Meter!mvars)
  BY MeterStep
<1> QED BY <1>1, <1>2, MeterInit, PTL DEF TrackerSpec, MeterSpec, Meter!MSpec
=============================================================================
