--------------------------- MODULE ExporterProofs ---------------------------
(* The health marker tells the truth, for any bound on lost slots and any     *)
(* interval of the pacer; and what RefreshProofs shows of the pacer holds in  *)
(* a process that starts, is killed and starts again.                         *)
EXTENDS Exporter, RefreshProofs

\* Before the first launch there is no marker.
LEMMA MarkerInit == ExporterInit => MarkerHonest
BY DEF ExporterInit, MarkerHonest

\* main sets the marker only when it binds, and every way on from there to
\* where nothing is served removes it (main.go:44-48, 138, 150-159).
LEMMA MainKeepsMarker ==
    ASSUME MarkerHonest, MainNext
    PROVE  MarkerHonest'
<1>1. CASE Launch
  BY <1>1 DEF Launch, MarkerHonest
<1>2. CASE ClearMarker
  BY <1>2 DEF ClearMarker, MarkerHonest
<1>3. CASE ConfigFails \/ StartupRefused \/ BindFails \/ ServeFails \/ Drained
  BY <1>3 DEF ConfigFails, StartupRefused, BindFails, ServeFails, Drained, Exit, MarkerHonest
<1>4. CASE Configured
  BY <1>4 DEF Configured, MarkerHonest
<1>5. CASE StartDegraded
  BY <1>5 DEF StartDegraded, MarkerHonest
<1>6. CASE StartConnected
  BY <1>6 DEF StartConnected, MarkerHonest
<1>7. CASE Bind
  BY <1>7 DEF Bind, MarkerHonest
<1>8. CASE Serve
  BY <1>8 DEF Serve, MarkerHonest
<1>9. CASE PreDrain
  BY <1>9 DEF PreDrain, MarkerHonest
<1> QED BY <1>1, <1>2, <1>3, <1>4, <1>5, <1>6, <1>7, <1>8, <1>9 DEF MainNext

\* A killed process leaves its marker, and is known to have been killed.
LEMMA CrashKeepsMarker ==
    ASSUME MarkerHonest, Crash
    PROVE  MarkerHonest'
BY DEF Crash, MarkerHonest

\* Nothing else touches the marker or moves main.
LEMMA OthersKeepMarker ==
    ASSUME MarkerHonest, UNCHANGED <<phase, marker, crashed>>
    PROVE  MarkerHonest'
BY DEF MarkerHonest

\* They touch neither the phase nor the marker.
LEMMA OthersLeaveMain ==
    ASSUME \/ RefreshBegins \/ HeadAnswers \/ HeadFails \/ TailEnds \/ Poll
           \/ SlotSteps \/ TimePasses \/ Signal \/ PlexChanges
           \/ UNCHANGED vars
    PROVE  UNCHANGED <<phase, marker, crashed>>
BY DEF RefreshBegins, HeadAnswers, HeadFails, TailEnds, Poll, SlotSteps, TimePasses,
       Signal, PlexChanges, vars, mainVars

\* The marker is there exactly while the exporter is bound and not draining, or
\* was left by a killed process and is about to be removed (main.go:44).
THEOREM MarkerTells == ExporterSpec => []MarkerHonest
<1>1. MarkerHonest /\ [ExporterNext]_vars => MarkerHonest'
  BY MainKeepsMarker, CrashKeepsMarker, OthersKeepMarker, OthersLeaveMain DEF ExporterNext
<1> QED BY MarkerInit, <1>1, PTL DEF ExporterSpec
-----------------------------------------------------------------------------
\* The end of a process and the start of the next reset the pacer; every other
\* step of the process is one the pacer's own specification allows.
LEMMA PacerContract ==
    ASSUME [ExporterNext]_vars
    PROVE  [PacerNext]_pacerVars \/ PacerInit'
<1>1. CASE Launch \/ ConfigFails \/ StartupRefused \/ BindFails \/ ServeFails \/ Drained \/ Crash
  <2>1. Fresh
    BY <1>1 DEF Launch, ConfigFails, StartupRefused, BindFails, ServeFails, Drained, Exit, Crash
  <2> QED BY <2>1 DEF Fresh, PacerInit
<1>2. CASE ClearMarker \/ Configured \/ StartDegraded \/ StartConnected \/ Bind \/ Serve \/ PreDrain
  BY <1>2 DEF ClearMarker, Configured, StartDegraded, StartConnected, Bind, Serve, PreDrain
<1>3. CASE RefreshBegins \/ HeadAnswers \/ HeadFails \/ TailEnds \/ Poll \/ Signal \/ PlexChanges
           \/ UNCHANGED vars
  BY <1>3 DEF RefreshBegins, HeadAnswers, HeadFails, TailEnds, Poll, Signal, PlexChanges, vars
<1>4. CASE SlotSteps \/ TimePasses
  BY <1>4 DEF SlotSteps, TakeSlot, EndWait, TimePasses, PacerNext
<1> QED BY <1>1, <1>2, <1>3, <1>4 DEF ExporterNext, MainNext

\* The pacer's invariants survive the process.
LEMMA PacerHolds == ExporterSpec => [](PacerInv /\ SlotLadder)
<1>1. ExporterInit => PacerInv /\ SlotLadder
  BY InitInv, LadderInit DEF ExporterInit
<1>2. PacerInit' => PacerInv' /\ SlotLadder'
  <2> SUFFICES ASSUME PacerInit' PROVE PacerInv' /\ SlotLadder'
    OBVIOUS
  <2>1. PacerInv'
    BY PacerAssumption DEF PacerInit, PacerInv, PacerTypeOK, Pending
  <2>2. Ladder(0)'
    BY DEF PacerInit, Ladder, Slots, Pending
  <2> QED BY <2>1, <2>2 DEF SlotLadder
<1>3. PacerInv /\ SlotLadder /\ [ExporterNext]_vars => PacerInv' /\ SlotLadder'
  BY <1>2, PacerContract, NextInv, LadderNext
<1> QED BY <1>1, <1>3, PTL DEF ExporterSpec

\* No wait for a slot is longer than an interval for each loop and each slot
\* lost, in any process of a container's life (background.go:96).
THEOREM ProcessSlotsSoon == ExporterSpec => []SlotSoon
<1>1. PacerInv /\ SlotLadder => SlotSoon
  BY LadderSoon
<1> QED BY PacerHolds, <1>1, PTL

\* Slots come an interval apart and in call order in every process; a new one
\* knows no call of the old (pacer.go:29-36).
THEOREM ProcessSlotsApart == ExporterSpec => SlotsApart
<1>1. PacerInv /\ [ExporterNext]_vars => [SlotsApartStep]_pacerVars
  <2> SUFFICES ASSUME PacerInv, [ExporterNext]_vars PROVE [SlotsApartStep]_pacerVars
    OBVIOUS
  <2>1. CASE [PacerNext]_pacerVars
    BY <2>1, StepApart
  <2>2. CASE PacerInit'
    <3>1. waiting' = {}
      BY <2>2 DEF PacerInit
    <3> QED BY <3>1 DEF SlotsApartStep, ComesInTime, ComesAtOnce
  <2> QED BY <2>1, <2>2, PacerContract
<1>2. ExporterSpec => [][SlotsApartStep]_pacerVars
  BY <1>1, PacerHolds, PTL DEF ExporterSpec
<1> QED BY <1>2 DEF SlotsApart, SlotsApartStep
-----------------------------------------------------------------------------
\* What an early signal finds: a startup Refresh still to come or still without
\* its answer, and no loop.  Without the signal in the invariant, the degraded
\* start could not be excluded.
EarlyInv ==
    /\ early => signalled /\ (phase \in {"launched", "config"} \/ (phase = "refreshing" /\ rstate = "head"))
    /\ phase \in {"down", "launched", "config", "refreshing"} => loops = {}

\* main goes on from a startup Refresh without an answer only unsignalled, and
\* starts its first loop after it (main.go:76-90).
LEMMA MainKeepsEarly ==
    ASSUME EarlyInv, MainNext
    PROVE  EarlyInv'
<1>1. CASE Launch \/ ConfigFails \/ StartupRefused \/ BindFails \/ ServeFails \/ Drained
  <2>1. ~early' /\ loops' = {}
    BY <1>1 DEF Launch, ConfigFails, StartupRefused, BindFails, ServeFails, Drained, Exit, Fresh
  <2> QED BY <2>1 DEF EarlyInv
<1>2. CASE ClearMarker \/ Configured
  BY <1>2 DEF ClearMarker, Configured, EarlyInv
<1>3. CASE StartDegraded \/ StartConnected
  <2>1. ~early
    BY <1>3 DEF StartDegraded, StartConnected, EarlyInv
  <2> QED BY <1>3, <2>1 DEF StartDegraded, StartConnected, EarlyInv
<1>4. CASE Bind \/ Serve \/ PreDrain
  BY <1>4 DEF Bind, Serve, PreDrain, EarlyInv
<1> QED BY <1>1, <1>2, <1>3, <1>4 DEF MainNext

\* The signal itself, a killed process, and what runs beside main.
LEMMA OthersKeepEarly ==
    ASSUME EarlyInv, [ExporterNext]_vars, ~MainNext
    PROVE  EarlyInv'
<1>1. CASE Signal
  BY <1>1 DEF Signal, EarlyInv
<1>2. CASE Crash
  <2>1. ~early' /\ loops' = {}
    BY <1>2 DEF Crash, Fresh
  <2> QED BY <2>1 DEF EarlyInv
<1>3. CASE HeadAnswers
  BY <1>3 DEF HeadAnswers, EarlyInv
<1>4. CASE RefreshBegins \/ HeadFails \/ TailEnds
  <2>1. "refresh" \in loops /\ UNCHANGED mainVars
    BY <1>4 DEF RefreshBegins, HeadFails, TailEnds
  <2>2. ~early
    BY <2>1 DEF EarlyInv
  <2> QED BY <2>1, <2>2 DEF mainVars, EarlyInv
<1>5. CASE Poll \/ SlotSteps \/ TimePasses \/ PlexChanges \/ UNCHANGED vars
  <2>1. UNCHANGED <<phase, signalled, loops, early, rstate>>
    BY <1>5 DEF Poll, SlotSteps, TimePasses, PlexChanges, vars, mainVars
  <2> QED BY <2>1 DEF EarlyInv
<1> QED BY <1>1, <1>2, <1>3, <1>4, <1>5 DEF ExporterNext

\* A process told to stop before Plex answered its startup Refresh never binds,
\* sets no marker and starts no loop, whatever Plex and the pacer do (main.go:76-84).
THEOREM EarlyStops == ExporterSpec => []EarlyStopStartsNothing
<1>1. ExporterInit => EarlyInv
  BY DEF ExporterInit, EarlyInv
<1>2. EarlyInv /\ [ExporterNext]_vars => EarlyInv'
  BY MainKeepsEarly, OthersKeepEarly
<1>3. EarlyInv /\ MarkerHonest => EarlyStopStartsNothing
  BY DEF EarlyInv, MarkerHonest, EarlyStopStartsNothing
<1> QED BY <1>1, <1>2, <1>3, MarkerTells, PTL DEF ExporterSpec
-----------------------------------------------------------------------------
\* The two halves of the process's type: the flags, and everything else.
FlagsTyped ==
    /\ signalled \in BOOLEAN /\ early \in BOOLEAN
    /\ httpReachable \in BOOLEAN /\ sessionsReachable \in BOOLEAN
    /\ marker \in BOOLEAN /\ crashed \in BOOLEAN

StatesTyped ==
    /\ phase \in {"down", "launched", "config", "refreshing", "binding", "bound", "serving", "draining"}
    /\ loops \subseteq Loops /\ rstate \in {"idle", "head", "tail"}
    /\ info \in {"absent", "partial", "full"} /\ plex \in {"up", "away", "refuses"}

\* Every step keeps the kinds of the flags.
LEMMA FlagsStep == ASSUME FlagsTyped, [ExporterNext]_vars PROVE FlagsTyped'
<1>1. CASE Launch \/ ConfigFails \/ StartupRefused \/ BindFails \/ ServeFails \/ Drained \/ Crash
  BY <1>1 DEF Launch, ConfigFails, StartupRefused, BindFails, ServeFails, Drained, Exit, Crash, Fresh,
              FlagsTyped
<1>2. CASE ClearMarker \/ Configured \/ Bind \/ Serve \/ PreDrain
  BY <1>2 DEF ClearMarker, Configured, Bind, Serve, PreDrain, flagVars, FlagsTyped
<1>3. CASE StartDegraded \/ StartConnected
  BY <1>3 DEF StartDegraded, StartConnected, FlagsTyped
<1>4. CASE RefreshBegins \/ HeadAnswers \/ HeadFails \/ TailEnds
  BY <1>4 DEF RefreshBegins, HeadAnswers, HeadFails, TailEnds, mainVars, flagVars, FlagsTyped
<1>5. CASE Poll
  BY <1>5 DEF Poll, mainVars, FlagsTyped
<1>6. CASE SlotSteps \/ TimePasses \/ UNCHANGED vars
  BY <1>6 DEF SlotSteps, TimePasses, vars, mainVars, flagVars, FlagsTyped
<1>7. CASE Signal \/ PlexChanges
  BY <1>7 DEF Signal, PlexChanges, mainVars, flagVars, FlagsTyped
<1> QED BY <1>1, <1>2, <1>3, <1>4, <1>5, <1>6, <1>7 DEF ExporterNext, MainNext

\* And of the states of main, Refresh and Plex.
LEMMA StatesStep == ASSUME StatesTyped, [ExporterNext]_vars PROVE StatesTyped'
<1>1. CASE Launch \/ ConfigFails \/ StartupRefused \/ BindFails \/ ServeFails \/ Drained \/ Crash
  BY <1>1 DEF Launch, ConfigFails, StartupRefused, BindFails, ServeFails, Drained, Exit, Crash, Fresh,
              StatesTyped
<1>2. CASE ClearMarker \/ Configured \/ Bind \/ PreDrain
  BY <1>2 DEF ClearMarker, Configured, Bind, PreDrain, flagVars, StatesTyped
<1>3. CASE StartDegraded \/ StartConnected \/ Serve
  <2>1. phase' \in {"binding", "serving"} /\ loops' \subseteq Loops
    BY <1>3 DEF StartDegraded, StartConnected, Serve, StatesTyped, Loops
  <2> QED BY <1>3, <2>1 DEF StartDegraded, StartConnected, Serve, flagVars, StatesTyped
<1>4. CASE RefreshBegins \/ HeadAnswers \/ HeadFails \/ TailEnds
  BY <1>4 DEF RefreshBegins, HeadAnswers, HeadFails, TailEnds, mainVars, flagVars, StatesTyped
<1>5. CASE Poll
  BY <1>5 DEF Poll, mainVars, StatesTyped
<1>6. CASE SlotSteps \/ TimePasses \/ UNCHANGED vars
  BY <1>6 DEF SlotSteps, TimePasses, vars, mainVars, flagVars, StatesTyped
<1>7. CASE Signal \/ PlexChanges
  BY <1>7 DEF Signal, PlexChanges, mainVars, flagVars, StatesTyped
<1> QED BY <1>1, <1>2, <1>3, <1>4, <1>5, <1>6, <1>7 DEF ExporterNext, MainNext

\* The process, its flags and its pacer keep their types through every start,
\* failure, drain and crash.
THEOREM ExporterTypes == ExporterSpec => []ExporterTypeOK
<1>1. ExporterInit => FlagsTyped /\ StatesTyped
  BY DEF ExporterInit, FlagsTyped, StatesTyped
<1>2. FlagsTyped /\ StatesTyped /\ [ExporterNext]_vars => FlagsTyped' /\ StatesTyped'
  BY FlagsStep, StatesStep
<1>3. FlagsTyped /\ StatesTyped /\ PacerInv => ExporterTypeOK
  BY DEF FlagsTyped, StatesTyped, PacerInv, ExporterTypeOK
<1> QED BY <1>1, <1>2, <1>3, PacerHolds, PTL DEF ExporterSpec
=============================================================================
