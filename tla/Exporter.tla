------------------------------ MODULE Exporter ------------------------------
(* The life of the process (main.go): start, degraded start, serving, drain,  *)
(* exit or crash and the next start, with the loops it starts and the request *)
(* slots that three of them share.  The health marker is a file and outlives  *)
(* the process.                                                               *)
EXTENDS Pacer

CONSTANTS
    MaxLost             \* bound: cancelled waits whose slot is still to come

ASSUME ExporterAssumption == Callers = {"refresh", "history", "walk"} /\ MaxLost \in Nat

VARIABLES
    phase,              \* where main.run is, "down" without a process
    signalled,          \* its context was cancelled by a signal
    loops,              \* the goroutines main.run has started
    early,              \* history: the signal came before Plex had answered the
                        \*   startup Refresh
    rstate,             \* Refresh: "idle", "head" up to the identity answer, "tail" after it
    httpReachable, sessionsReachable, \* the flags of Server
    info,               \* Server's identity: "absent", "partial" without the platform, "full"
    marker,             \* the health marker file is there
    plex,               \* Plex: "up", "away", or it "refuses" the exporter
    crashed             \* history: the last process was killed

mainVars == <<phase, signalled, loops, early>>
flagVars == <<httpReachable, sessionsReachable, info>>
vars == <<mainVars, rstate, flagVars, marker, plex, crashed, pacerVars>>

Loops == {"refresh", "prune", "poll", "history", "walk"}

\* The errors the operator must resolve: a bad token or URL, a 404, a bad
\* certificate.  All others may pass.
isFatalStartupError == plex = "refuses"

Up == phase # "down"

\* A new process has none of the old one's memory.
Fresh ==
    /\ signalled' = FALSE /\ loops' = {} /\ early' = FALSE /\ rstate' = "idle"
    /\ httpReachable' = FALSE /\ sessionsReachable' = FALSE /\ info' = "absent"
    /\ ahead' = 0 /\ waiting' = {} /\ delay' = [c \in Callers |-> 0]
    /\ gap' = Interval /\ lost' = {}

ExporterInit ==
    /\ phase = "down" /\ signalled = FALSE /\ loops = {} /\ early = FALSE /\ rstate = "idle"
    /\ httpReachable = FALSE /\ sessionsReachable = FALSE /\ info = "absent"
    /\ marker = FALSE /\ plex \in {"up", "away", "refuses"}
    /\ crashed = FALSE
    /\ PacerInit
-----------------------------------------------------------------------------
\* Docker starts the container, at first or again.
Launch ==
    /\ phase = "down"
    /\ phase' = "launched"
    /\ Fresh
    /\ UNCHANGED <<marker, plex, crashed>>

\* Mutant: the marker a killed process left is not cleared.
ClearMarkerNot ==
    /\ phase = "launched"
    /\ phase' = "config"
    /\ crashed' = FALSE
    /\ UNCHANGED <<signalled, early, loops, rstate, flagVars, marker, plex, pacerVars>>

\* marker.Set(false) before anything can fail.
ClearMarker ==
    /\ phase = "launched"
    /\ phase' = "config" /\ marker' = FALSE
    /\ crashed' = FALSE
    /\ UNCHANGED <<signalled, early, loops, rstate, flagVars, plex, pacerVars>>

\* run returns: the deferred calls remove the marker, and the goroutines end
\* with the process.
Exit ==
    /\ phase' = "down" /\ marker' = FALSE
    /\ Fresh
    /\ UNCHANGED <<plex, crashed>>

ConfigFails == phase = "config" /\ Exit

\* server.New and the startup Refresh.
Configured ==
    /\ phase = "config"
    /\ phase' = "refreshing" /\ rstate' = "head"
    /\ UNCHANGED <<signalled, early, loops, flagVars, marker, plex, crashed, pacerVars>>

\* The startup Refresh fails and with it the start: asked to stop, or fatal.
StartupRefused ==
    /\ phase = "refreshing" /\ rstate = "head"
    /\ signalled \/ isFatalStartupError
    /\ Exit

\* Mutant: the refresh loop starts only after a Refresh that worked.
StartDegradedAlone ==
    /\ phase = "refreshing" /\ rstate = "head"
    /\ plex # "up" /\ ~signalled /\ ~isFatalStartupError
    /\ phase' = "binding" /\ rstate' = "idle"
    /\ UNCHANGED <<signalled, early, loops, flagVars, marker, plex, crashed, pacerVars>>

\* Mutant: a Refresh that the signal cancelled counts as a transient failure.
StartDegradedAnyway ==
    /\ phase = "refreshing" /\ rstate = "head"
    /\ plex # "up" /\ ~isFatalStartupError
    /\ phase' = "binding" /\ loops' = {"refresh"} /\ rstate' = "idle"
    /\ httpReachable' = FALSE
    /\ \E providers \in BOOLEAN : info' = IF providers THEN "partial" ELSE info
    /\ UNCHANGED <<signalled, early, sessionsReachable, marker, plex, crashed, pacerVars>>

\* A transient error: the exporter starts degraded.  Plex may have answered
\* /media/providers before it (providers).
StartDegraded ==
    /\ phase = "refreshing" /\ rstate = "head"
    /\ plex # "up" /\ ~signalled /\ ~isFatalStartupError
    /\ phase' = "binding" /\ loops' = {"refresh"} /\ rstate' = "idle"
    /\ httpReachable' = FALSE
    /\ \E providers \in BOOLEAN : info' = IF providers THEN "partial" ELSE info
    /\ UNCHANGED <<signalled, early, sessionsReachable, marker, plex, crashed, pacerVars>>

\* The startup Refresh worked.
StartConnected ==
    /\ phase = "refreshing" /\ rstate = "tail" /\ "refresh" \notin waiting
    /\ phase' = "binding" /\ loops' = {"refresh"} /\ rstate' = "idle"
    /\ httpReachable' = TRUE /\ sessionsReachable' = TRUE
    /\ UNCHANGED <<signalled, early, info, marker, plex, crashed, pacerVars>>

BindFails == phase = "binding" /\ Exit

\* The listener is bound, then the marker is set.
Bind ==
    /\ phase = "binding"
    /\ phase' = "bound" /\ marker' = TRUE
    /\ UNCHANGED <<signalled, early, loops, rstate, flagVars, plex, crashed, pacerVars>>

\* The other loops start, then the metrics server serves.
Serve ==
    /\ phase = "bound"
    /\ phase' = "serving"
    /\ loops' = loops \cup {"prune", "poll", "history", "walk"}
    /\ UNCHANGED <<signalled, early, rstate, flagVars, marker, plex, crashed, pacerVars>>

ServeFails == phase = "serving" /\ Exit

\* httpserver.Run sees the signal and calls preDrain before it drains.
PreDrain ==
    /\ phase = "serving" /\ signalled
    /\ phase' = "draining" /\ marker' = FALSE
    /\ UNCHANGED <<signalled, early, loops, rstate, flagVars, plex, crashed, pacerVars>>

Drained == phase = "draining" /\ Exit

MainNext ==
    \/ Launch \/ ClearMarker \/ ConfigFails \/ Configured
    \/ StartupRefused \/ StartDegraded \/ StartConnected
    \/ BindFails \/ Bind \/ Serve \/ ServeFails \/ PreDrain \/ Drained
-----------------------------------------------------------------------------
\* The loop's ticker fires with no Refresh running.
RefreshBegins ==
    /\ "refresh" \in loops /\ rstate = "idle"
    /\ rstate' = "head"
    /\ UNCHANGED <<mainVars, flagVars, marker, plex, crashed, pacerVars>>

\* Providers and identity answered, of the loop's Refresh or of the startup one;
\* an answer may just come in before the signal cancels its request.
HeadAnswers ==
    /\ rstate = "head" /\ plex = "up"
    /\ rstate' = "tail" /\ info' = "full" /\ early' = FALSE
    /\ UNCHANGED <<phase, signalled, loops, httpReachable, sessionsReachable, marker, plex, crashed, pacerVars>>

\* Providers or identity failed in the loop's Refresh.
HeadFails ==
    /\ rstate = "head" /\ "refresh" \in loops
    /\ plex # "up" \/ signalled
    /\ rstate' = "idle" /\ httpReachable' = FALSE
    /\ \E providers \in BOOLEAN :
           info' = IF providers /\ info = "absent" THEN "partial" ELSE info
    /\ UNCHANGED <<mainVars, sessionsReachable, marker, plex, crashed, pacerVars>>

\* The reads of the tail take slots one by one; none of them fails the Refresh.
TailEnds ==
    /\ rstate = "tail" /\ "refresh" \in loops /\ "refresh" \notin waiting
    /\ rstate' = "idle" /\ httpReachable' = TRUE
    /\ UNCHANGED <<mainVars, sessionsReachable, info, marker, plex, crashed, pacerVars>>

\* A session poll reads its answer or its error.
Poll ==
    /\ "poll" \in loops
    /\ \/ plex = "up" /\ sessionsReachable' = TRUE
       \/ (plex # "up" \/ signalled) /\ sessionsReachable' = FALSE
    /\ UNCHANGED <<mainVars, rstate, httpReachable, info, marker, plex, crashed, pacerVars>>

\* Who may ask for a slot: the two loops at any time, a Refresh in its tail.
Asks(c) == IF c = "refresh" THEN rstate = "tail" ELSE c \in loops

TakeSlot(c) == Asks(c) /\ Reserve(c)

\* The wait's context ends: the process's, or the deadline of one read.
EndWait(c) == Cardinality(lost) < MaxLost /\ GiveUp(c)

SlotSteps ==
    /\ \E c \in Callers : TakeSlot(c) \/ EndWait(c) \/ SlotReturns(c)
    /\ UNCHANGED <<mainVars, rstate, flagVars, marker, plex, crashed>>

SlotComes(c) == SlotReturns(c) /\ UNCHANGED <<mainVars, rstate, flagVars, marker, plex, crashed>>

TimePasses == Up /\ PacerTick /\ UNCHANGED <<mainVars, rstate, flagVars, marker, plex, crashed>>
-----------------------------------------------------------------------------
\* SIGTERM or SIGINT.
Signal ==
    /\ Up /\ ~signalled
    /\ signalled' = TRUE
    /\ early' = (phase \in {"launched", "config"} \/ (phase = "refreshing" /\ rstate = "head"))
    /\ UNCHANGED <<phase, loops, rstate, flagVars, marker, plex, crashed, pacerVars>>

\* SIGKILL or the machine: nothing deferred runs, the marker stays as it was.
Crash ==
    /\ Up
    /\ phase' = "down" /\ crashed' = TRUE
    /\ Fresh
    /\ UNCHANGED <<marker, plex>>

PlexChanges ==
    /\ plex' \in {"up", "away", "refuses"} \ {plex}
    /\ UNCHANGED <<mainVars, rstate, flagVars, marker, crashed, pacerVars>>

ExporterNext ==
    \/ MainNext
    \/ RefreshBegins \/ HeadAnswers \/ HeadFails \/ TailEnds
    \/ Poll
    \/ SlotSteps \/ TimePasses
    \/ Signal \/ Crash \/ PlexChanges

ExporterSpec == ExporterInit /\ [][ExporterNext]_vars

\* The tickers fire and time passes, and a Refresh ends by its deadline of 45
\* seconds.  It makes finitely many reads, so its tail ends although it waits
\* again and again.  Nothing is assumed of main, of failures or of Plex.
ExporterFairness ==
    /\ WF_vars(RefreshBegins) /\ WF_vars(HeadAnswers \/ HeadFails) /\ SF_vars(TailEnds)
    /\ WF_vars(Poll)
    /\ WF_vars(TimePasses) /\ \A c \in Callers : WF_vars(SlotComes(c))

ExporterFairSpec == ExporterSpec /\ ExporterFairness
-----------------------------------------------------------------------------
ExporterTypeOK ==
    /\ phase \in {"down", "launched", "config", "refreshing", "binding", "bound", "serving", "draining"}
    /\ signalled \in BOOLEAN /\ loops \subseteq Loops /\ early \in BOOLEAN
    /\ rstate \in {"idle", "head", "tail"}
    /\ httpReachable \in BOOLEAN /\ sessionsReachable \in BOOLEAN
    /\ info \in {"absent", "partial", "full"}
    /\ marker \in BOOLEAN /\ crashed \in BOOLEAN
    /\ plex \in {"up", "away", "refuses"}
    /\ PacerTypeOK

\* The health marker is there only while the listener is bound and no drain has
\* begun; a marker without that is one a killed process left, and the next
\* process removes it before it reads its configuration (main.go:44, 126, 147).
MarkerHonest ==
    /\ phase \in {"bound", "serving"} => marker
    /\ phase \in {"config", "refreshing", "binding", "draining"} => ~marker
    /\ phase \in {"down", "launched"} /\ marker => crashed

\* A process that is told to stop before Plex has answered its startup Refresh
\* starts nothing any more: it takes the Refresh that the signal cancelled for the
\* request it is, not for a Plex it could do without, so it never binds, shows no
\* health marker but one a killed process left, and starts no loop (main.go:76-84).
EarlyStopStartsNothing ==
    early =>
        /\ phase \in {"launched", "config", "refreshing"}
        /\ loops = {}
        /\ marker => phase = "launched" /\ crashed

\* After a degraded start, or any outage, a process that goes on and a Plex that
\* stays up get both flags and the whole identity back, whoever else draws on
\* the request slots (main.go:90, server.go:174).
DegradedRecovers ==
    <>[](phase = "serving" /\ ~signalled /\ plex = "up")
        => <>[](httpReachable /\ sessionsReachable /\ info = "full")
=============================================================================
