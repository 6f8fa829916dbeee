------------------------------ MODULE PlayMeter ------------------------------
(* What the session tracker promises about plex_play_seconds_total, without   *)
(* timestamps: each published session has a meter that runs while the session *)
(* plays, holds its reading while it does not, and goes when the session is   *)
(* reclaimed.  SessionTracker computes the reading from two timestamps and a  *)
(* bank; it is shown to implement this counter.                               *)
EXTENDS Naturals

CONSTANTS Keys          \* session keys the tracker can hold

VARIABLES
    live,               \* keys with a published meter
    running,            \* live keys whose meter is running
    reading             \* [Keys -> Nat], time counted so far

mvars == <<live, running, reading>>

MInit ==
    /\ live = {}
    /\ running = {}
    /\ reading = [k \in Keys |-> 0]

\* One unit of time: exactly the running meters count it, and count it once.
MTick ==
    /\ reading' = [k \in Keys |-> IF k \in running THEN reading[k] + 1 ELSE reading[k]]
    /\ UNCHANGED <<live, running>>

\* A session is seen playing: its meter appears, or resumes from its reading.
MPlay(k) ==
    /\ live' = live \cup {k}
    /\ running' = running \cup {k}
    /\ UNCHANGED reading

\* Sessions are seen not playing: their meters stop and keep their readings.
MHold(K) ==
    /\ running' = running \ K
    /\ UNCHANGED <<live, reading>>

\* Sessions are reclaimed: their meters go, and would start again from 0.
MForget(K) ==
    /\ live' = live \ K
    /\ running' = running \ K
    /\ reading' = [k \in Keys |-> IF k \in K THEN 0 ELSE reading[k]]

MNext ==
    \/ MTick
    \/ \E k \in Keys : MPlay(k)
    \/ \E K \in SUBSET Keys : MHold(K) \/ MForget(K)

MSpec == MInit /\ [][MNext]_mvars
==============================================================================
