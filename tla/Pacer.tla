-------------------------------- MODULE Pacer --------------------------------
(* pacer.Pacer: one clock of request slots that every background loop draws   *)
(* from.  Times are relative to the present, so the state stays finite while  *)
(* the clock runs on.                                                         *)
EXTENDS Integers, FiniteSets

CONSTANTS
    Callers,            \* the loops that wait for slots, one wait at a time each
    Interval            \* DefaultInterval, in clock units

ASSUME PacerAssumption == Interval \in Nat \ {0} /\ IsFiniteSet(Callers)

VARIABLES
    ahead,              \* how far Pacer.next lies ahead of now, 0 once it has passed
    waiting,            \* callers inside Wait
    delay,              \* [Callers -> time to the caller's slot, 0 once it has come]
    gap,                \* history: time since the last slot came, up to Interval
    lost                \* history: times to the slots of cancelled waits

pacerVars == <<ahead, waiting, delay, gap, lost>>

\* Callers whose slot is still to come.
Pending == {c \in waiting : delay[c] > 0}

PacerInit ==
    /\ ahead = 0
    /\ waiting = {} /\ delay = [c \in Callers |-> 0]
    /\ gap = Interval
    /\ lost = {}
-----------------------------------------------------------------------------
\* Mutant: the slot is taken, the next one is set from the present.
NextSlotFromNow == Interval

\* Mutant: the next slot is two intervals on.
NextSlotDoubled == ahead + 2 * Interval

\* p.next after a slot is taken: an interval past that slot.
NextSlot == ahead + Interval

\* Wait up to the unlock: the slot is p.next or now, whichever is later.
Reserve(c) ==
    /\ c \notin waiting
    /\ waiting' = waiting \cup {c}
    /\ delay' = [delay EXCEPT ![c] = ahead]
    /\ ahead' = NextSlot
    /\ gap' = IF ahead = 0 THEN 0 ELSE gap
    /\ UNCHANGED lost

\* Wait returns after the slot has come, with nil or with the error of a
\* context that ended as well.
SlotReturns(c) ==
    /\ c \in waiting \ Pending
    /\ waiting' = waiting \ {c}
    /\ UNCHANGED <<ahead, delay, gap, lost>>

\* Wait returns early because its context ended: the slot is gone.
GiveUp(c) ==
    /\ c \in Pending
    /\ waiting' = waiting \ {c}
    /\ lost' = lost \cup {delay[c]}
    /\ UNCHANGED <<ahead, delay, gap>>

\* A time that has come stays at the present: Wait takes now for a p.next that
\* has passed.
Less(n) == IF n > 0 THEN n - 1 ELSE 0

\* A unit of time.
PacerTick ==
    /\ ahead' = Less(ahead)
    /\ delay' = [c \in Callers |-> Less(delay[c])]
    /\ lost' = {n - 1 : n \in lost} \ {0}
    /\ gap' = IF \E c \in Pending : delay[c] = 1 THEN 0
              ELSE IF gap < Interval THEN gap + 1 ELSE Interval
    /\ UNCHANGED waiting

PacerNext ==
    \/ \E c \in Callers : Reserve(c) \/ SlotReturns(c) \/ GiveUp(c)
    \/ PacerTick

PacerSpec == PacerInit /\ [][PacerNext]_pacerVars
-----------------------------------------------------------------------------
PacerTypeOK ==
    /\ ahead \in Nat
    /\ waiting \subseteq Callers
    /\ delay \in [Callers -> Nat]
    /\ gap \in 0..Interval
    /\ lost \subseteq Nat \ {0}

\* The slot of c comes in this step: with the clock, or at once.
ComesInTime(c) == c \in Pending /\ c \in waiting' /\ delay'[c] = 0
ComesAtOnce(c) == c \notin waiting /\ c \in waiting' /\ delay'[c] = 0

\* Whoever calls when, and whatever is cancelled, two slots never come less
\* than an interval apart, and a later call never gets an earlier slot than a
\* call still waiting (pacer.go:29-36, "at least Interval apart, in call order").
SlotsApart ==
    [][/\ \A c, d \in Callers : ComesInTime(c) /\ ComesInTime(d) => c = d
       /\ \A c \in Callers : ComesInTime(c) => gap + 1 >= Interval
       /\ \A c \in Callers : ComesAtOnce(c) => gap >= Interval
       /\ \A c \in waiting' \ waiting, d \in Pending : delay'[c] >= delay[d] + Interval]_pacerVars

\* A wait is short: at most an interval for each caller and for each slot lost
\* to a cancelled wait.  With three loops that is 1.5 seconds, well inside the
\* 10 seconds of a background read (background.go:96, how-it-works.md:27).
SlotSoon ==
    \A c \in Pending : delay[c] <= Interval * (Cardinality(Callers) + Cardinality(lost))
=============================================================================
