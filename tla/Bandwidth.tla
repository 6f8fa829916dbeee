------------------------------ MODULE Bandwidth ------------------------------
(* refreshBandwidth: Plex lists, for each second and device, the bytes it     *)
(* sent, for a window of seconds; the exporter adds each sample to a counter  *)
(* once, told from the counted ones by a watermark on its second.             *)
EXTENDS Integers

CONSTANTS
    Devices,            \* Plex: the devices it serves
    Window,             \* Plex: how many seconds a sample stays listed
    Lag,                \* Plex: bound on how late a sample is listed
    LastSecond          \* bound on the clock

ASSUME BandwidthAssumption == {Window, Lag, LastSecond} \subseteq Nat

VARIABLES
    second,             \* the clock, 0 when Server.New ran
    samples,            \* Plex: the samples listed so far
    LastBandwidthAt,    \* the watermark
    counted,            \* [sample -> how often its bytes are in TransmitBytes]
    readTo,             \* history: the newest second any good read has shown
    late                \* history: samples listed when their second was already read

bwVars == <<second, samples, LastBandwidthAt, counted, readTo, late>>

Sample == [at : 0..LastSecond, dev : Devices]

Listed == {u \in samples : u.at > second - Window}

IsHighest(t, seconds) == t \in seconds /\ \A u \in seconds : u <= t

Seconds(S) == {u.at : u \in S}

\* Mutant: the watermark's own second is added again.
NewSinceReadAgain == {u \in Listed : u.at >= LastBandwidthAt}

\* The samples that refreshBandwidth adds.
NewSinceRead == {u \in Listed : u.at > LastBandwidthAt}

BwInit ==
    /\ second = 0 /\ samples = {} /\ late = {}
    /\ LastBandwidthAt = 0 /\ readTo = 0
    /\ counted = [u \in Sample |-> 0]

Clock ==
    /\ second < LastSecond
    /\ second' = second + 1
    /\ UNCHANGED <<samples, LastBandwidthAt, counted, readTo, late>>

\* Plex lists a sample of this second or of a recent one.
List(u) ==
    /\ u \notin samples /\ u.at \in second - Lag .. second
    /\ samples' = samples \cup {u}
    /\ late' = IF u.at <= readTo THEN late \cup {u} ELSE late
    /\ UNCHANGED <<second, LastBandwidthAt, counted, readTo>>

\* A good read: the new samples are added and the watermark goes to the highest
\* second among them.  A read that fails changes nothing.
refreshBandwidth ==
    /\ counted' = [u \in Sample |-> counted[u] + IF u \in NewSinceRead THEN 1 ELSE 0]
    /\ LastBandwidthAt' \in 0..LastSecond
    /\ IsHighest(LastBandwidthAt', Seconds(NewSinceRead) \cup {LastBandwidthAt})
    /\ readTo' \in 0..LastSecond
    /\ IsHighest(readTo', Seconds(Listed) \cup {readTo})
    /\ UNCHANGED <<second, samples, late>>

BwNext == Clock \/ (\E u \in Sample : List(u)) \/ refreshBandwidth

BwSpec == BwInit /\ [][BwNext]_bwVars
-----------------------------------------------------------------------------
\* The counter of bytes sent contains every sample at most once, however often
\* it is listed and whatever else its second holds, and misses one only if Plex
\* listed it after a sample of its second or a later one was read, or dropped it
\* from the window before any good read, or it is no newer than the start
\* (server.go:457-470).
SamplesCountedOnce ==
    /\ \A u \in Sample : counted[u] <= 1
    /\ \A u \in samples \ late :
          u.at \in 1..readTo /\ counted[u] = 0 => u.at <= second - Window
=============================================================================
