--------------------------- MODULE BackgroundReads ---------------------------
(* The reads a Refresh ends with (background.go): whichever of the library    *)
(* sections, activities, update status and preferences are due, one after the *)
(* other, each under its own deadline and all under what the Refresh has left.*)
(* Time is counted in units; a unit is longer than any wait for a slot, which *)
(* is what SlotSoon in Pacer says.                                            *)
EXTENDS Integers, Sequences, SequencesExt

CONSTANTS
    Reads,              \* the reads in the order in which a Refresh makes them
    Lasting,            \* those whose answer is published until it is too old
    Every,              \* [Reads -> the read's cadence]
    StaleAfter,         \* [Lasting -> how long its last good answer is published]
    Deadline,           \* backgroundDeadline
    Budget              \* the deadline of a whole Refresh

ASSUME BackgroundAssumption ==
    /\ Lasting \subseteq ToSet(Reads)
    /\ Every \in [ToSet(Reads) -> Nat \ {0}] /\ StaleAfter \in [Lasting -> Nat]
    /\ Deadline \in Nat \ {0} /\ Budget \in Nat \ {0}

VARIABLES
    bpc,                \* Refresh: "idle", "head", "slot", "read"
    todo,               \* the due reads still to make or under way
    left,               \* what is left of the Refresh's deadline
    rleft,              \* what is left of the read's deadline
    due,                \* the refresh ticker has fired since the last Refresh began
    age,                \* [read -> time since it was last tried, up to its cadence]
    good,               \* [Lasting -> time since its last good answer, up to past StaleAfter]
    updateKnown,        \* update.known
    health              \* Plex: "well", "slow" with failing reads, "down"

passVars == <<bpc, todo, left, rleft, due>>
bgVars == <<bpc, todo, left, rleft, due, age, good, updateKnown, health>>

Least(m, n) == IF m < n THEN m ELSE n

\* Server.New: nothing was ever tried.
BgInit ==
    /\ bpc = "idle" /\ todo = {} /\ left = 0 /\ rleft = 0 /\ due = FALSE
    /\ age = Every
    /\ good = [r \in Lasting |-> StaleAfter[r] + 1]
    /\ updateKnown = FALSE
    /\ health \in {"well", "slow", "down"}
-----------------------------------------------------------------------------
Due(r) == age[r] >= Every[r]

\* The time of the last try, set whether the answer is good or not.
Tried(r, ok) == [age EXCEPT ![r] = 0]

\* A good answer of a lasting read is published from now on.
Answered(r, ok) == IF ok /\ r \in Lasting THEN [good EXCEPT ![r] = 0] ELSE good

\* A failed update check makes the update unknown; a good one may as well
\* (decideUpdate).
UpdateAfter(r, ok) == IF r = "updater" THEN ok ELSE updateKnown

\* Mutant: an answer is published whatever its age.
PublishedAnyAge(r) == good[r] >= 0

\* Mutant: an answer is published only until the next read is due.
PublishedBriefly(r) == good[r] < Every[r]

\* What a snapshot takes over.
Published(r) == good[r] <= StaleAfter[r]

RefreshStarts ==
    /\ bpc = "idle" /\ due
    /\ bpc' = "head" /\ left' = Budget /\ due' = FALSE
    /\ UNCHANGED <<todo, rleft, age, good, updateKnown, health>>

\* Providers or identity failed, or what comes before the reads used up the
\* deadline that all of a Refresh shares, so that no read is made.
RefreshFails ==
    /\ bpc = "head" /\ (health = "down" \/ left = 0)
    /\ bpc' = "idle" /\ left' = 0
    /\ UNCHANGED <<todo, rleft, due, age, good, updateKnown, health>>

\* The rest of the Refresh is done: refreshBackground looks which reads are due.
LookWhatIsDue ==
    /\ bpc = "head" /\ health # "down" /\ left > 0
    /\ todo' = {r \in ToSet(Reads) : Due(r)}
    /\ IF todo' = {} THEN bpc' = "idle" /\ left' = 0
                       ELSE bpc' = "slot" /\ left' = left
    /\ UNCHANGED <<rleft, due, age, good, updateKnown, health>>

\* The next one, or the one under way.
First == Reads[Min({i \in DOMAIN Reads : Reads[i] \in todo})]

\* On to the next due read, if there is one.
Advance ==
    /\ todo' = todo \ {First}
    /\ IF todo' = {} THEN bpc' = "idle" /\ left' = 0
                        ELSE bpc' = "slot" /\ left' = left

\* Mutant: a read has no deadline but that of the Refresh.
SlotComesShared ==
    /\ bpc = "slot" /\ left > 0
    /\ bpc' = "read" /\ rleft' = left
    /\ UNCHANGED <<todo, left, due, age, good, updateKnown, health>>

\* paced: the slot comes.
SlotComesInTime ==
    /\ bpc = "slot" /\ left > 0
    /\ bpc' = "read" /\ rleft' = Least(Deadline, left)
    /\ UNCHANGED <<todo, left, due, age, good, updateKnown, health>>

\* paced: the deadline of the Refresh comes first; the read is not made and
\* stays due.
SlotTooLate ==
    /\ bpc = "slot" /\ left = 0
    /\ Advance
    /\ UNCHANGED <<rleft, due, age, good, updateKnown, health>>

ReadMade(ok) ==
    /\ bpc = "read"
    /\ IF ok THEN health # "down" /\ rleft > 0 ELSE health # "well" \/ rleft = 0
    /\ age' = Tried(First, ok)
    /\ good' = Answered(First, ok)
    /\ updateKnown' = UpdateAfter(First, ok)
    /\ Advance /\ rleft' = 0
    /\ UNCHANGED <<due, health>>

\* Mutant: a read has no deadline of its own and none of the Refresh's.
WaitsUnlimited ==
    CASE bpc = "idle" -> ~due
      [] bpc = "head" -> health # "well" /\ left > 0
      [] bpc = "slot" -> FALSE
      [] bpc = "read" -> health # "well"

\* Whether time may pass: a Refresh that is due begins, and while Plex is well
\* no request takes a unit; otherwise the rest of a Refresh ends by its deadline
\* only, a read by its own, a wait for a slot within the unit.
Waits ==
    CASE bpc = "idle" -> ~due
      [] bpc = "head" -> health # "well" /\ left > 0
      [] bpc = "slot" -> FALSE
      [] bpc = "read" -> health # "well" /\ rleft > 0

Older(n, cap) == IF n < cap THEN n + 1 ELSE cap

BgTick ==
    /\ Waits
    /\ due' = TRUE
    /\ left' = IF bpc = "idle" THEN left ELSE left - 1
    /\ rleft' = IF bpc = "read" THEN rleft - 1 ELSE rleft
    /\ age' = [r \in DOMAIN age |-> Older(age[r], Every[r])]
    /\ good' = [r \in Lasting |-> Older(good[r], StaleAfter[r] + 1)]
    /\ UNCHANGED <<bpc, todo, updateKnown, health>>

HealthChanges ==
    /\ health' \in {"well", "slow", "down"} \ {health}
    /\ UNCHANGED <<passVars, age, good, updateKnown>>

PassStep ==
    \/ RefreshStarts \/ RefreshFails \/ LookWhatIsDue
    \/ SlotComesInTime \/ SlotTooLate \/ \E ok \in BOOLEAN : ReadMade(ok)

BgNext == PassStep \/ BgTick \/ HealthChanges

\* The ticker fires, and every request ends: with its answer or at a deadline.
BgFairness == WF_bgVars(PassStep) /\ WF_bgVars(BgTick)

BgSpec == BgInit /\ [][BgNext]_bgVars
BgFairSpec == BgSpec /\ BgFairness
-----------------------------------------------------------------------------
BgTypeOK ==
    /\ bpc \in {"idle", "head", "slot", "read"}
    /\ todo \subseteq ToSet(Reads) /\ (bpc \in {"slot", "read"} <=> todo # {})
    /\ left \in 0..Budget /\ rleft \in 0..Deadline /\ due \in BOOLEAN
    /\ \A r \in ToSet(Reads) : age[r] \in 0..Every[r]
    /\ \A r \in Lasting : good[r] \in 0..(StaleAfter[r] + 1)
    /\ updateKnown \in BOOLEAN
    /\ health \in {"well", "slow", "down"}

\* A read is made in turn however often those before it hang up to their own
\* deadlines, as long as Refreshes again and again reach the reads with more time
\* left than those before it can use up: a hanging read takes its ten seconds and
\* not the rest, and one that hung is not due again before its cadence.  Nothing
\* is promised when the rest of a Refresh leaves less (background.go:27, 67-103).
EveryReadTried ==
    \A k \in DOMAIN Reads :
        []<><<LookWhatIsDue /\ left > (k - 1) * Deadline>>_bgVars => []<>(age[Reads[k]] = 0)

\* Once Plex is well, every answer is published without a gap, whatever was
\* missed before (background.go:31, 35).
AnswersStay ==
    <>[](health = "well") => <>[](updateKnown /\ \A r \in Lasting : Published(r))

\* Once Plex is down for good, the two answers that have an age limit, activities
\* and scan schedule, are no longer published as current; the sections and the
\* update status have none and stay (background.go:29-36, 232).
AnswersLapse ==
    <>[](health = "down") => <>[](\A r \in Lasting : ~Published(r))
=============================================================================
