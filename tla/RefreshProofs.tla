--------------------------- MODULE RefreshProofs ---------------------------
(* The pacer, for any set of callers and any interval: slots come an interval *)
(* apart and in the order of the calls, and no wait is longer than an         *)
(* interval for each caller and each slot lost.  And two parts of a Refresh,  *)
(* for any reads, cadences, deadlines, devices and windows: the background    *)
(* reads, which wait for the pacer's slots, and the bandwidth counter, which  *)
(* adds every sample once.                                                    *)
EXTENDS Pacer, Bandwidth, BackgroundReads, TLAPS, FiniteSetTheorems

\* Two waits of the same or of different length lie an interval apart.
Apart(m, n) == m >= n + Interval \/ n >= m + Interval

\* The inductive invariant: the next slot lies an interval past every slot
\* given and past the last one that came, and so do slots from one another.
\* Nothing less is kept by a call, which takes the next slot as its own.
PacerInv ==
    /\ PacerTypeOK
    /\ \A c \in Pending : delay[c] + Interval <= ahead
    /\ \A c, d \in Pending : c # d => Apart(delay[c], delay[d])
    /\ \A c \in Pending : delay[c] + gap >= Interval
    /\ ahead + gap >= Interval

\* A new pacer has given no slot.
LEMMA InitInv == PacerInit => PacerInv
BY PacerAssumption DEF PacerInit, PacerInv, PacerTypeOK, Pending

\* A call takes the next slot and moves it on (pacer.go:30-36).
LEMMA ReserveInv ==
    ASSUME PacerInv, NEW c \in Callers, Reserve(c)
    PROVE  PacerInv'
<1>1. PacerTypeOK'
  BY PacerAssumption DEF PacerInv, PacerTypeOK, Reserve, NextSlot
<1>2. /\ ahead' = ahead + Interval
      /\ gap' = IF ahead = 0 THEN 0 ELSE gap
      /\ ahead \in Nat /\ gap \in Nat /\ Interval \in Nat \ {0}
  BY PacerAssumption DEF PacerInv, PacerTypeOK, Reserve, NextSlot
<1>3. ASSUME NEW d \in Pending'
      PROVE  \/ d = c /\ delay'[d] = ahead /\ ahead > 0
             \/ d # c /\ d \in Pending /\ delay'[d] = delay[d]
  BY DEF Reserve, Pending, PacerInv, PacerTypeOK
<1>4. \A d \in Pending : delay[d] \in Nat /\ delay[d] > 0
  BY DEF Pending, PacerInv, PacerTypeOK
<1>5. \A d \in Pending' : delay'[d] + Interval <= ahead'
  BY <1>2, <1>3, <1>4 DEF PacerInv
<1>6. ASSUME NEW d \in Pending', NEW e \in Pending', d # e
      PROVE  Apart(delay'[d], delay'[e])
  BY <1>2, <1>3, <1>4, <1>6 DEF PacerInv, Apart
<1>7. \A d \in Pending' : delay'[d] + gap' >= Interval
  <2>1. CASE ahead = 0
    \* Then no slot is still to come, neither before nor after the call.
    BY <2>1, <1>2, <1>3, <1>4 DEF PacerInv
  <2>2. CASE ahead # 0
    BY <2>2, <1>2, <1>3, <1>4 DEF PacerInv
  <2> QED BY <2>1, <2>2
<1>8. ahead' + gap' >= Interval
  BY <1>2
<1> QED BY <1>1, <1>5, <1>6, <1>7, <1>8 DEF PacerInv, Apart

\* A unit of time brings every slot a unit nearer.
LEMMA TickInv ==
    ASSUME PacerInv, PacerTick
    PROVE  PacerInv'
<1>1. PacerTypeOK'
  BY PacerAssumption DEF PacerInv, PacerTypeOK, PacerTick, Less
<1>2. /\ ahead \in Nat /\ gap \in 0..Interval /\ Interval \in Nat \ {0}
      /\ \A c \in Pending : c \in Callers /\ delay[c] \in Nat /\ delay[c] > 0
  BY PacerAssumption DEF PacerInv, PacerTypeOK, Pending
<1>3. /\ ahead' = (IF ahead > 0 THEN ahead - 1 ELSE 0)
      /\ gap' = IF \E c \in Pending : delay[c] = 1 THEN 0
                ELSE IF gap < Interval THEN gap + 1 ELSE Interval
  BY DEF PacerTick, Less
<1>4. ASSUME NEW c \in Pending'
      PROVE  c \in Pending /\ delay[c] > 1 /\ delay'[c] = delay[c] - 1
  BY DEF PacerTick, Pending, Less, PacerInv, PacerTypeOK
<1>5. \A c \in Pending' : delay'[c] + Interval <= ahead'
  BY <1>2, <1>3, <1>4 DEF PacerInv
<1>6. ASSUME NEW c \in Pending', NEW d \in Pending', c # d
      PROVE  Apart(delay'[c], delay'[d])
  BY <1>2, <1>4, <1>6 DEF PacerInv, Apart
<1>7. CASE \E d \in Pending : delay[d] = 1
  <2>1. PICK d \in Pending : delay[d] = 1
    BY <1>7
  <2>2. gap' = 0
    BY <1>3, <1>7
  <2>3. ASSUME NEW c \in Pending'
        PROVE  delay'[c] + gap' >= Interval
    <3>1. c # d /\ Apart(delay[c], delay[d])
      BY <1>4, <2>1 DEF PacerInv
    <3> QED BY <1>2, <1>4, <2>1, <2>2, <3>1 DEF Apart
  <2>4. ahead' + gap' >= Interval
    BY <1>2, <1>3, <2>1, <2>2 DEF PacerInv
  <2> QED BY <1>1, <1>5, <1>6, <2>3, <2>4 DEF PacerInv, Apart
<1>8. CASE ~ \E d \in Pending : delay[d] = 1
  <2>1. gap' = IF gap < Interval THEN gap + 1 ELSE Interval
    BY <1>3, <1>8
  <2>2. ASSUME NEW c \in Pending'
        PROVE  delay'[c] + gap' >= Interval
    BY <1>2, <1>4, <2>1 DEF PacerInv
  <2>3. ahead' + gap' >= Interval
    BY <1>2, <1>3, <2>1 DEF PacerInv
  <2> QED BY <1>1, <1>5, <1>6, <2>2, <2>3 DEF PacerInv, Apart
<1> QED BY <1>7, <1>8

\* A return or a cancelled wait only takes slots away.
LEMMA LeaveInv ==
    ASSUME PacerInv, NEW c \in Callers, SlotReturns(c) \/ GiveUp(c)
    PROVE  PacerInv'
<1>1. /\ UNCHANGED <<ahead, delay, gap>>
      /\ Pending' \subseteq Pending
  BY DEF SlotReturns, GiveUp, Pending
<1>2. lost' \subseteq Nat \ {0}
  <2>1. CASE SlotReturns(c)
    BY <2>1 DEF SlotReturns, PacerInv, PacerTypeOK
  <2>2. CASE GiveUp(c)
    <3>1. delay[c] \in Nat \ {0}
      BY <2>2 DEF GiveUp, Pending, PacerInv, PacerTypeOK
    <3> QED BY <2>2, <3>1 DEF GiveUp, PacerInv, PacerTypeOK
  <2> QED BY <2>1, <2>2
<1>3. waiting' \subseteq Callers
  BY DEF SlotReturns, GiveUp, PacerInv, PacerTypeOK
<1>4. PacerTypeOK'
  BY <1>1, <1>2, <1>3 DEF PacerInv, PacerTypeOK
<1> QED BY <1>1, <1>4 DEF PacerInv, Apart

\* Every step keeps the invariant.
LEMMA NextInv == PacerInv /\ [PacerNext]_pacerVars => PacerInv'
<1> SUFFICES ASSUME PacerInv, [PacerNext]_pacerVars
             PROVE  PacerInv'
  OBVIOUS
<1>1. CASE UNCHANGED pacerVars
  BY <1>1 DEF pacerVars, PacerInv, PacerTypeOK, Pending, Apart
<1>2. CASE PacerTick
  BY <1>2, TickInv
<1>3. ASSUME NEW c \in Callers, Reserve(c) \/ SlotReturns(c) \/ GiveUp(c)
      PROVE  PacerInv'
  BY <1>3, ReserveInv, LeaveInv
<1> QED BY <1>1, <1>2, <1>3 DEF PacerNext

\* The state of the pacer keeps its types, whoever calls.
THEOREM PacerTypes == PacerSpec => []PacerTypeOK
<1>1. PacerInv => PacerTypeOK
  BY DEF PacerInv
<1> QED BY <1>1, InitInv, NextInv, PTL DEF PacerSpec

\* What SlotsApart says of a single step.
SlotsApartStep ==
    /\ \A c, d \in Callers : ComesInTime(c) /\ ComesInTime(d) => c = d
    /\ \A c \in Callers : ComesInTime(c) => gap + 1 >= Interval
    /\ \A c \in Callers : ComesAtOnce(c) => gap >= Interval
    /\ \A c \in waiting' \ waiting, d \in Pending : delay'[c] >= delay[d] + Interval

\* So no slot comes less than an interval after the one before.
LEMMA StepApart == PacerInv /\ [PacerNext]_pacerVars => [SlotsApartStep]_pacerVars
<1> SUFFICES ASSUME PacerInv, PacerNext
             PROVE  SlotsApartStep
  BY DEF pacerVars
<1>1. /\ ahead \in Nat /\ gap \in Nat /\ Interval \in Nat \ {0}
      /\ \A c \in Pending : c \in Callers /\ delay[c] \in Nat /\ delay[c] > 0
  BY PacerAssumption DEF PacerInv, PacerTypeOK, Pending
<1>2. CASE PacerTick
  <2>1. \A c \in Callers : ComesInTime(c) => c \in Pending /\ delay[c] = 1
    BY <1>1, <1>2 DEF ComesInTime, PacerTick, Less
  <2>2. \A c, d \in Callers : ComesInTime(c) /\ ComesInTime(d) => c = d
    BY <1>1, <2>1 DEF PacerInv, Apart
  <2>3. \A c \in Callers : ComesInTime(c) => gap + 1 >= Interval
    BY <1>1, <2>1 DEF PacerInv
  <2>4. waiting' = waiting
    BY <1>2 DEF PacerTick
  <2> QED BY <2>2, <2>3, <2>4 DEF SlotsApartStep, ComesAtOnce
<1>3. ASSUME NEW c \in Callers, Reserve(c)
      PROVE  SlotsApartStep
  <2>1. /\ c \notin waiting /\ waiting' = waiting \cup {c}
        /\ delay' = [delay EXCEPT ![c] = ahead]
    BY <1>3 DEF Reserve
  <2>2. delay'[c] = ahead
    BY <2>1 DEF PacerInv, PacerTypeOK
  <2>3. \A d \in Callers : ~ComesInTime(d)
    BY <1>1, <2>1 DEF ComesInTime, Pending
  <2>4. ASSUME NEW d \in Callers, ComesAtOnce(d)
        PROVE  gap >= Interval
    <3>1. d = c /\ ahead = 0
      BY <2>1, <2>2, <2>4 DEF ComesAtOnce
    <3> QED BY <1>1, <3>1 DEF PacerInv
  <2>5. \A e \in waiting' \ waiting, d \in Pending : delay'[e] >= delay[d] + Interval
    BY <1>1, <2>1, <2>2 DEF PacerInv
  <2> QED BY <2>3, <2>4, <2>5 DEF SlotsApartStep
<1>4. ASSUME NEW c \in Callers, SlotReturns(c) \/ GiveUp(c)
      PROVE  SlotsApartStep
  <2>1. delay' = delay /\ waiting' \subseteq waiting
    BY <1>4 DEF SlotReturns, GiveUp
  <2>2. \A d \in Callers : ~ComesInTime(d) /\ ~ComesAtOnce(d)
    BY <1>1, <2>1 DEF ComesInTime, ComesAtOnce
  <2> QED BY <2>1, <2>2 DEF SlotsApartStep
<1> QED BY <1>2, <1>3, <1>4 DEF PacerNext

\* At least an interval apart, in call order (pacer.go:14), for any number of
\* loops that share the pacer, any interval and any cancelled waits.
THEOREM SlotsAreApart == PacerSpec => SlotsApart
<1>1. PacerSpec => []PacerInv
  BY InitInv, NextInv, PTL DEF PacerSpec
<1>2. PacerInv /\ [PacerNext]_pacerVars => [SlotsApartStep]_pacerVars
  BY StepApart
<1>3. PacerSpec => [][SlotsApartStep]_pacerVars
  BY <1>1, <1>2, PTL DEF PacerSpec
<1> QED BY <1>3 DEF SlotsApart, SlotsApartStep
-----------------------------------------------------------------------------
\* The times to the slots given away and still to come.
Slots == {delay[c] : c \in Pending} \cup lost

\* They lie an interval apart without a hole, the last of them an interval
\* before the next slot and the first within the next interval.
Ladder(n) ==
    /\ Slots = {ahead - j * Interval : j \in 1..n}
    /\ ahead = 0 => n = 0
    /\ ahead # 0 => 1 <= ahead - n * Interval /\ ahead - n * Interval <= Interval

SlotLadder == \E n \in Nat : Ladder(n)

\* The steps of a ladder, for provers that do not multiply.
LEMMA Rungs ==
    ASSUME NEW i \in Nat, NEW j \in Nat, NEW I \in Nat \ {0}
    PROVE  /\ i * I \in Nat /\ 0 * I = 0 /\ 1 * I = I
           /\ (i + 1) * I = i * I + I
           /\ i <= j => i * I <= j * I
           /\ i < j => i * I + I <= j * I
<1>1. i * I \in Nat /\ 0 * I = 0 /\ 1 * I = I /\ (i + 1) * I = i * I + I
  OBVIOUS
<1>2. ASSUME i <= j PROVE i * I <= j * I
  <2>1. (j - i) \in Nat /\ (j - i) * I >= 0
    BY <1>2
  <2>2. (j - i) * I = j * I - i * I
    OBVIOUS
  <2> QED BY <2>1, <2>2
<1>3. ASSUME i < j PROVE i * I + I <= j * I
  <2>1. (j - i - 1) \in Nat /\ (j - i - 1) * I >= 0
    BY <1>3
  <2>2. (j - i - 1) * I = j * I - i * I - I
    OBVIOUS
  <2> QED BY <2>1, <2>2
<1> QED BY <1>1, <1>2, <1>3

\* Before the first call no slot is taken.
LEMMA LadderInit == PacerInit => SlotLadder
<1> SUFFICES ASSUME PacerInit PROVE Ladder(0)
  BY DEF SlotLadder
<1> QED BY DEF PacerInit, Ladder, Slots, Pending

\* A call adds a rung at the top.
LEMMA LadderReserve ==
    ASSUME PacerInv, SlotLadder, NEW c \in Callers, Reserve(c)
    PROVE  SlotLadder'
<1>0. PICK n \in Nat : Ladder(n)
  BY DEF SlotLadder
<1>1. /\ ahead \in Nat /\ Interval \in Nat \ {0} /\ delay \in [Callers -> Nat]
      /\ c \notin waiting /\ waiting' = waiting \cup {c} /\ waiting \subseteq Callers
      /\ delay' = [delay EXCEPT ![c] = ahead] /\ ahead' = ahead + Interval /\ lost' = lost
  BY PacerAssumption DEF PacerInv, PacerTypeOK, Reserve, NextSlot
<1>2. Slots' = Slots \cup (IF ahead = 0 THEN {} ELSE {ahead})
  BY <1>1 DEF Slots, Pending
<1>3. CASE ahead = 0
  <2>1. n = 0 /\ Slots = {} /\ Slots' = {}
    BY <1>0, <1>2, <1>3 DEF Ladder
  <2>2. Ladder(0)'
    BY <1>1, <1>3, <2>1 DEF Ladder
  <2> QED BY <2>2 DEF SlotLadder
<1>4. CASE ahead # 0
  <2>1. \A j \in Nat : (j + 1) * Interval = j * Interval + Interval /\ j * Interval \in Nat
    BY <1>1, Rungs
  <2>2. ASSUME NEW m \in Slots' PROVE \E j \in 1..(n + 1) : m = ahead' - j * Interval
    <3>1. CASE m = ahead
      <4>1. ahead = ahead' - 1 * Interval
        BY <1>1
      <4> QED BY <3>1, <4>1
    <3>2. CASE m \in Slots
      <4>1. PICK j \in 1..n : m = ahead - j * Interval
        BY <1>0, <3>2 DEF Ladder
      <4>2. j + 1 \in 1..(n + 1) /\ m = ahead' - (j + 1) * Interval
        BY <1>1, <2>1, <4>1
      <4> QED BY <4>2
    <3> QED BY <1>2, <1>4, <3>1, <3>2
  <2>3. ASSUME NEW j \in 1..(n + 1) PROVE ahead' - j * Interval \in Slots'
    <3>1. CASE j = 1
      <4>1. ahead' - j * Interval = ahead
        BY <1>1, <3>1
      <4> QED BY <1>2, <1>4, <4>1
    <3>2. CASE j # 1
      <4>1. j - 1 \in 1..n /\ j - 1 \in Nat
        BY <3>2
      <4>2. ahead' - j * Interval = ahead - (j - 1) * Interval
        BY <1>1, <2>1, <4>1
      <4>3. ahead - (j - 1) * Interval \in Slots
        BY <1>0, <4>1 DEF Ladder
      <4> QED BY <1>2, <4>2, <4>3
    <3> QED BY <3>1, <3>2
  <2>4. ahead' - (n + 1) * Interval = ahead - n * Interval
    BY <1>1, <2>1
  <2>5. Slots' = {ahead' - j * Interval : j \in 1..(n + 1)}
    BY <2>2, <2>3
  <2>6. Ladder(n + 1)'
    BY <1>0, <1>1, <1>4, <2>4, <2>5 DEF Ladder
  <2> QED BY <2>6 DEF SlotLadder
<1> QED BY <1>3, <1>4

\* A unit of time lowers the ladder, and takes its lowest rung when that comes.
LEMMA LadderTick ==
    ASSUME PacerInv, SlotLadder, PacerTick
    PROVE  SlotLadder'
<1>0. PICK n \in Nat : Ladder(n)
  BY DEF SlotLadder
<1>1. /\ ahead \in Nat /\ Interval \in Nat \ {0} /\ delay \in [Callers -> Nat]
      /\ waiting \subseteq Callers /\ lost \subseteq Nat \ {0}
      /\ waiting' = waiting /\ lost' = {m - 1 : m \in lost} \ {0}
      /\ \A c \in Callers : delay'[c] = IF delay[c] > 0 THEN delay[c] - 1 ELSE 0
      /\ ahead' = IF ahead > 0 THEN ahead - 1 ELSE 0
  BY PacerAssumption DEF PacerInv, PacerTypeOK, PacerTick, Less
<1>2. Slots \subseteq Nat \ {0} /\ Slots' = {m - 1 : m \in Slots} \ {0}
  <2>1. \A c \in Pending : c \in Callers /\ delay[c] \in Nat \ {0}
    BY <1>1 DEF Pending
  <2>2. Slots \subseteq Nat \ {0}
    BY <1>1, <2>1 DEF Slots
  <2>3. \A c \in Callers : c \in Pending' <=> c \in Pending /\ delay'[c] # 0
    BY <1>1 DEF Pending
  <2>4. Pending' \subseteq Callers /\ \A c \in Pending : delay'[c] = delay[c] - 1
    BY <1>1, <2>1 DEF Pending
  <2>5. {delay'[c] : c \in Pending'} = {delay[c] - 1 : c \in Pending} \ {0}
    BY <2>1, <2>3, <2>4
  <2>6. {m - 1 : m \in Slots} = {delay[c] - 1 : c \in Pending} \cup {m - 1 : m \in lost}
    BY DEF Slots
  <2>7. Slots' = {delay'[c] : c \in Pending'} \cup lost'
    BY DEF Slots
  <2> QED BY <1>1, <2>2, <2>5, <2>6, <2>7
<1>3. \A j \in Nat : j * Interval \in Nat
  BY <1>1, Rungs
<1>4. CASE ahead = 0
  <2>1. Slots = {} /\ Slots' = {} /\ ahead' = 0
    BY <1>0, <1>1, <1>2, <1>4 DEF Ladder
  <2>2. Ladder(0)'
    BY <2>1 DEF Ladder
  <2> QED BY <2>2 DEF SlotLadder
<1>5. CASE ahead # 0 /\ ahead - n * Interval # 1
  <2>1. ahead' = ahead - 1 /\ n * Interval \in Nat /\ ahead' # 0
    BY <1>0, <1>1, <1>3, <1>5 DEF Ladder
  <2>2. \A j \in 1..n : j * Interval \in Nat /\ j * Interval <= n * Interval
    BY <1>1, <1>3, Rungs
  <2>3. \A j \in 1..n : ahead - j * Interval # 1
    BY <1>0, <1>1, <1>5, <2>1, <2>2 DEF Ladder
  <2>4. Slots' = {ahead' - j * Interval : j \in 1..n}
    <3>1. ASSUME NEW m \in Slots' PROVE \E j \in 1..n : m = ahead' - j * Interval
      <4>1. PICK p \in Slots : m = p - 1
        BY <1>2
      <4>2. PICK j \in 1..n : p = ahead - j * Interval
        BY <1>0 DEF Ladder
      <4> QED BY <1>1, <2>1, <2>2, <4>1, <4>2
    <3>2. ASSUME NEW j \in 1..n PROVE ahead' - j * Interval \in Slots'
      <4>1. ahead - j * Interval \in Slots
        BY <1>0 DEF Ladder
      <4>2. ahead' - j * Interval = (ahead - j * Interval) - 1 /\ ahead' - j * Interval # 0
        BY <1>1, <2>1, <2>2, <2>3
      <4> QED BY <1>2, <4>1, <4>2
    <3> QED BY <3>1, <3>2
  <2>5. Ladder(n)'
    BY <1>0, <1>1, <1>5, <2>1, <2>4 DEF Ladder
  <2> QED BY <2>5 DEF SlotLadder
<1>6. CASE ahead # 0 /\ ahead - n * Interval = 1 /\ n = 0
  <2>1. ahead = 1 /\ ahead' = 0 /\ Slots = {}
    BY <1>0, <1>1, <1>6 DEF Ladder
  <2>2. Slots' = {}
    BY <1>2, <2>1
  <2>3. Ladder(0)'
    BY <2>1, <2>2 DEF Ladder
  <2> QED BY <2>3 DEF SlotLadder
<1>7. CASE ahead # 0 /\ ahead - n * Interval = 1 /\ n # 0
  <2> DEFINE m0 == n - 1
  <2>1. m0 \in Nat /\ n = m0 + 1 /\ n * Interval = m0 * Interval + Interval /\ m0 * Interval \in Nat
    <3>1. m0 \in Nat /\ n = m0 + 1
      BY <1>7
    <3> HIDE DEF m0
    <3> QED BY <1>1, <3>1, Rungs
  <2> HIDE DEF m0
  <2>2. ahead' = ahead - 1 /\ ahead' - m0 * Interval = Interval /\ ahead' # 0
    BY <1>1, <1>7, <2>1
  <2>3. \A j \in 1..m0 : j * Interval \in Nat /\ j * Interval <= m0 * Interval
    BY <1>1, <1>3, <2>1, Rungs
  <2>4. Slots' = {ahead' - j * Interval : j \in 1..m0}
    <3>1. ASSUME NEW m \in Slots' PROVE \E j \in 1..m0 : m = ahead' - j * Interval
      <4>1. PICK p \in Slots : m = p - 1 /\ m # 0
        BY <1>2
      <4>2. PICK j \in 1..n : p = ahead - j * Interval
        BY <1>0 DEF Ladder
      <4>3. j # n
        BY <1>1, <1>3, <1>7, <4>1, <4>2
      <4>4. j \in 1..m0
        BY <2>1, <4>3
      <4> QED BY <1>1, <2>2, <2>3, <4>1, <4>2, <4>4
    <3>2. ASSUME NEW j \in 1..m0 PROVE ahead' - j * Interval \in Slots'
      <4>0. j \in 1..n
        BY <2>1
      <4>1. ahead - j * Interval \in Slots
        BY <1>0, <4>0 DEF Ladder
      <4>2. ahead' - j * Interval = (ahead - j * Interval) - 1 /\ ahead' - j * Interval # 0
        BY <1>1, <2>1, <2>2, <2>3
      <4> QED BY <1>2, <4>1, <4>2
    <3> QED BY <3>1, <3>2
  <2>5. Ladder(m0)'
    BY <1>1, <2>2, <2>4 DEF Ladder
  <2> QED BY <2>1, <2>5 DEF SlotLadder
<1> QED BY <1>4, <1>5, <1>6, <1>7

\* A return and a cancelled wait leave every rung where it is.
LEMMA LadderLeave ==
    ASSUME SlotLadder, NEW c \in Callers, SlotReturns(c) \/ GiveUp(c)
    PROVE  SlotLadder'
<1>1. ahead' = ahead /\ Slots' = Slots
  BY DEF SlotReturns, GiveUp, Slots, Pending
<1>2. \A n \in Nat : Ladder(n) => Ladder(n)'
  BY <1>1 DEF Ladder
<1> QED BY <1>2 DEF SlotLadder

\* Every step keeps the ladder.
LEMMA LadderNext == PacerInv /\ SlotLadder /\ [PacerNext]_pacerVars => SlotLadder'
<1> SUFFICES ASSUME PacerInv, SlotLadder, [PacerNext]_pacerVars PROVE SlotLadder'
  OBVIOUS
<1>1. CASE UNCHANGED pacerVars
  <2>1. ahead' = ahead /\ Slots' = Slots
    BY <1>1 DEF pacerVars, Slots, Pending
  <2>2. \A n \in Nat : Ladder(n) => Ladder(n)'
    BY <2>1 DEF Ladder
  <2> QED BY <2>2 DEF SlotLadder
<1>2. CASE PacerNext
  BY <1>2, LadderReserve, LadderTick, LadderLeave DEF PacerNext
<1> QED BY <1>1, <1>2

\* A ladder has as many rungs as there are slots to come, so at most one for
\* each caller and one for each slot lost.
LEMMA LadderShort ==
    ASSUME PacerInv, NEW n \in Nat, Ladder(n)
    PROVE  n <= Cardinality(Callers) + Cardinality(lost)
<1>0. /\ ahead \in Nat /\ Interval \in Nat \ {0} /\ IsFiniteSet(Callers)
      /\ waiting \subseteq Callers /\ delay \in [Callers -> Nat]
  BY PacerAssumption DEF PacerInv, PacerTypeOK
<1>1. IsFiniteSet(1..n) /\ Cardinality(1..n) = n
  BY FS_Interval
<1> DEFINE rung == [j \in 1..n |-> ahead - j * Interval]
<1>2. rung \in Surjection(1..n, Slots)
  BY DEF Ladder, Surjection
<1>3. rung \in Injection(1..n, Slots)
  <2>1. ASSUME NEW i \in 1..n, NEW j \in 1..n, i < j PROVE rung[i] # rung[j]
    <3>1. i * Interval \in Nat /\ j * Interval \in Nat /\ i * Interval + Interval <= j * Interval
      BY <1>0, <2>1, Rungs
    <3> QED BY <1>0, <3>1
  <2>2. IsInjective(rung)
    BY <2>1 DEF IsInjective
  <2>3. rung \in [1..n -> Slots]
    BY <1>2 DEF Surjection
  <2> QED BY <2>2, <2>3 DEF Injection
<1> HIDE DEF rung
<1>4. IsFiniteSet(Slots) /\ n <= Cardinality(Slots)
  BY <1>1, <1>2, <1>3, FS_Surjection, FS_Injection
<1> DEFINE D == {delay[c] : c \in Pending}
           wait == [c \in Pending |-> delay[c]]
<1>5. Pending \in SUBSET Callers
  BY <1>0 DEF Pending
<1>6. IsFiniteSet(Pending) /\ Cardinality(Pending) <= Cardinality(Callers)
  BY <1>0, <1>5, FS_Subset
<1>7. wait \in Surjection(Pending, D)
  BY DEF Surjection
<1>8. Slots = D \cup lost /\ lost \in SUBSET Slots
  BY DEF Slots
<1> HIDE DEF D, wait
<1>9. IsFiniteSet(D) /\ Cardinality(D) <= Cardinality(Pending)
  BY <1>6, <1>7, FS_Surjection
<1>10. IsFiniteSet(lost)
  BY <1>4, <1>8, FS_Subset
<1>11. IsFiniteSet(D \cap lost) /\ Cardinality(Slots) = Cardinality(D) + Cardinality(lost) - Cardinality(D \cap lost)
  <2>1. D \cap lost \in SUBSET D
    OBVIOUS
  <2> QED BY <1>8, <1>9, <1>10, <2>1, FS_Union, FS_Subset
<1>12. /\ Cardinality(Callers) \in Nat /\ Cardinality(Pending) \in Nat /\ Cardinality(D) \in Nat
       /\ Cardinality(lost) \in Nat /\ Cardinality(D \cap lost) \in Nat
  BY <1>0, <1>6, <1>9, <1>10, <1>11, FS_CardinalityType
<1> QED BY <1>4, <1>6, <1>9, <1>11, <1>12

\* No wait is longer than an interval for each caller and each lost slot.
LEMMA LadderSoon == ASSUME PacerInv, SlotLadder PROVE SlotSoon
<1> SUFFICES ASSUME NEW c \in Pending
             PROVE  delay[c] <= Interval * (Cardinality(Callers) + Cardinality(lost))
  BY DEF SlotSoon
<1>1. PICK n \in Nat : Ladder(n)
  BY DEF SlotLadder
<1>2. PICK j \in 1..n : delay[c] = ahead - j * Interval
  BY <1>1 DEF Ladder, Slots
<1>3. /\ ahead \in Nat /\ Interval \in Nat \ {0} /\ IsFiniteSet(Callers) /\ IsFiniteSet(lost)
  <2>1. IsFiniteSet(1..n)
    BY FS_Interval
  <2>2. [i \in 1..n |-> ahead - i * Interval] \in Surjection(1..n, Slots)
    BY <1>1 DEF Ladder, Surjection
  <2>3. IsFiniteSet(Slots) /\ lost \in SUBSET Slots
    BY <2>1, <2>2, FS_Surjection DEF Slots
  <2> QED BY <2>3, FS_Subset, PacerAssumption DEF PacerInv, PacerTypeOK
<1> DEFINE N == Cardinality(Callers) + Cardinality(lost)
<1>4. N \in Nat /\ n <= N
  BY <1>1, <1>3, LadderShort, FS_CardinalityType
<1> HIDE DEF N
<1>5. /\ n * Interval \in Nat /\ j * Interval \in Nat /\ N * Interval \in Nat
      /\ 1 * Interval <= j * Interval /\ 1 * Interval = Interval
      /\ n * Interval <= N * Interval /\ N * Interval = Interval * N
  <2>1. 1 * Interval <= j * Interval /\ 1 * Interval = Interval
    BY <1>3, Rungs
  <2> QED BY <1>3, <1>4, <2>1, Rungs
<1>6. ahead <= n * Interval + Interval
  BY <1>1, <1>3, <1>5 DEF Ladder
<1> QED BY <1>2, <1>3, <1>5, <1>6 DEF N

\* Waits are short whoever calls and whatever is cancelled (background.go:96,
\* how-it-works.md:27): slots never leave a hole behind one another, so the
\* longest wait is an interval for each caller and each slot lost.
THEOREM SlotsComeSoon == PacerSpec => []SlotSoon
<1>1. PacerInv /\ SlotLadder /\ [PacerNext]_pacerVars => PacerInv' /\ SlotLadder'
  BY NextInv, LadderNext
<1>2. PacerInv /\ SlotLadder => SlotSoon
  BY LadderSoon
<1> QED BY InitInv, LadderInit, <1>1, <1>2, PTL DEF PacerSpec
-----------------------------------------------------------------------------
\* The watermark is the newest second any read has shown: that is why a sample
\* above it was not counted, and one at or below it is old, counted or late.
BwInv ==
    /\ second \in 0..LastSecond /\ LastBandwidthAt \in 0..LastSecond /\ readTo \in 0..LastSecond
    /\ samples \subseteq Sample /\ counted \in [Sample -> Nat]
    /\ LastBandwidthAt = readTo
    /\ \A u \in Sample : counted[u] > 0 => u.at <= LastBandwidthAt
    /\ SamplesCountedOnce

\* Before the first read nothing is counted.
LEMMA BwInitInv == BwInit => BwInv
BY BandwidthAssumption DEF BwInit, BwInv, SamplesCountedOnce, Sample

\* The clock only takes samples out of the window.
LEMMA ClockInv ==
    ASSUME BwInv, Clock
    PROVE  BwInv'
BY BandwidthAssumption DEF BwInv, Clock, SamplesCountedOnce, Sample

\* A sample of a second not read yet lies above the watermark; any other is late.
LEMMA ListInv ==
    ASSUME BwInv, NEW u \in Sample, List(u)
    PROVE  BwInv'
BY BandwidthAssumption DEF BwInv, List, SamplesCountedOnce, Sample

\* A read counts the samples above the watermark and raises it.
LEMMA ReadInv ==
    ASSUME BwInv, refreshBandwidth
    PROVE  BwInv'
<1>1. /\ LastBandwidthAt \in Int /\ readTo \in Int /\ second \in Int /\ Window \in Int
      /\ LastBandwidthAt = readTo
      /\ \A u \in Sample : u.at \in Int /\ counted[u] \in Nat
      /\ samples \subseteq Sample /\ Listed \subseteq samples
  <2>1. LastSecond \in Int /\ Window \in Int /\ 0..LastSecond \subseteq Int
    BY BandwidthAssumption
  <2>2. \A u \in Sample : u.at \in Int /\ counted[u] \in Nat
    BY <2>1 DEF BwInv, Sample
  <2>3. LastBandwidthAt \in Int /\ readTo \in Int /\ second \in Int
    BY <2>1 DEF BwInv
  <2> QED BY <2>1, <2>2, <2>3 DEF BwInv, Listed
<1>2. \A u \in Sample : counted'[u] = counted[u] + IF u \in NewSinceRead THEN 1 ELSE 0
  BY DEF refreshBandwidth
<1>3. /\ \A u \in NewSinceRead : u.at <= LastBandwidthAt'
      /\ LastBandwidthAt <= LastBandwidthAt'
      /\ LastBandwidthAt' = LastBandwidthAt \/ \E u \in NewSinceRead : LastBandwidthAt' = u.at
  BY DEF refreshBandwidth, IsHighest, Seconds
<1>4. /\ \A u \in Listed : u.at <= readTo'
      /\ readTo <= readTo'
      /\ readTo' = readTo \/ \E u \in Listed : readTo' = u.at
  BY DEF refreshBandwidth, IsHighest, Seconds
<1>5. LastBandwidthAt' \in 0..LastSecond /\ readTo' \in 0..LastSecond
  BY DEF refreshBandwidth
<1>6. LastBandwidthAt' = readTo'
  BY <1>1, <1>3, <1>4, <1>5 DEF NewSinceRead
<1>7. \A u \in Sample : counted'[u] > 0 => u.at <= LastBandwidthAt'
  BY <1>1, <1>2, <1>3, <1>5 DEF BwInv
<1>8. \A u \in Sample : counted'[u] <= 1
  BY <1>1, <1>2 DEF BwInv, SamplesCountedOnce, NewSinceRead
<1>9. ASSUME NEW u \in samples' \ late', u.at \in 1..readTo', counted'[u] = 0
      PROVE  u.at <= second' - Window
  <2>1. u \in samples \ late /\ u \in Sample /\ second' = second
    BY <1>1 DEF refreshBandwidth
  <2>2. counted[u] = 0 /\ u \notin NewSinceRead
    BY <1>1, <1>2, <1>9, <2>1
  <2>3. CASE u \in Listed
    <3>1. u.at \in 1..readTo
      BY <1>1, <1>9, <2>1, <2>2, <2>3 DEF NewSinceRead
    <3> QED BY <2>1, <2>2, <3>1 DEF BwInv, SamplesCountedOnce
  <2>4. CASE u \notin Listed
    BY <1>1, <2>1, <2>4 DEF Listed
  <2> QED BY <2>3, <2>4
<1>10. /\ second' \in 0..LastSecond /\ samples' \subseteq Sample
       /\ counted' \in [Sample -> Nat]
  BY <1>1 DEF BwInv, refreshBandwidth
<1> QED BY <1>5, <1>6, <1>7, <1>8, <1>9, <1>10 DEF BwInv, SamplesCountedOnce

\* Nothing else touches the samples or the counter.
LEMMA BwStutterInv ==
    ASSUME BwInv, UNCHANGED bwVars
    PROVE  BwInv'
BY DEF BwInv, bwVars, SamplesCountedOnce

\* Every sample is counted at most once, and missed only when it was listed late,
\* left the window unread or is no newer than the start (server.go:457-470).
THEOREM CountedOnce == BwSpec => []SamplesCountedOnce
<1>1. BwInv /\ [BwNext]_bwVars => BwInv'
  BY ClockInv, ListInv, ReadInv, BwStutterInv DEF BwNext
<1>2. BwInv => SamplesCountedOnce
  BY DEF BwInv
<1> QED BY BwInitInv, <1>1, <1>2, PTL DEF BwSpec
-----------------------------------------------------------------------------
\* A read's deadline is cut to what the Refresh has left and runs with it: so
\* neither is past its end when time passes.
PassTyped ==
    /\ bpc \in {"idle", "head", "slot", "read"}
    /\ todo \subseteq ToSet(Reads) /\ (bpc \in {"slot", "read"} <=> todo # {})
    /\ left \in 0..Budget /\ rleft \in 0..Deadline /\ rleft <= left
    /\ bpc # "read" => rleft = 0
    /\ due \in BOOLEAN

\* No age is counted past the one that matters.
AgesTyped ==
    /\ updateKnown \in BOOLEAN /\ health \in {"well", "slow", "down"}
    /\ age \in [ToSet(Reads) -> Nat] /\ \A r \in ToSet(Reads) : age[r] <= Every[r]
    /\ good \in [Lasting -> Nat] /\ \A r \in Lasting : good[r] <= StaleAfter[r] + 1

\* The assumptions, as the proofs use them.
LEMMA BgNumbers ==
    /\ Deadline \in Nat /\ Budget \in Nat
    /\ Every \in [ToSet(Reads) -> Nat] /\ StaleAfter \in [Lasting -> Nat]
<1>1. Deadline \in Nat /\ Budget \in Nat
  BY BackgroundAssumption
<1>2. Every \in [ToSet(Reads) -> Nat \ {0}] /\ StaleAfter \in [Lasting -> Nat]
  BY BackgroundAssumption
<1> QED BY <1>1, <1>2

\* Server.New has tried nothing and has no answer (background.go:56-65).
LEMMA BgStart == BgInit => PassTyped /\ AgesTyped
<1> SUFFICES ASSUME BgInit PROVE PassTyped /\ AgesTyped
  OBVIOUS
<1>1. PassTyped
  <2>1. 0 \in 0..Budget /\ 0 \in 0..Deadline /\ 0 <= 0
    BY BgNumbers
  <2> QED BY <2>1 DEF BgInit, PassTyped
<1>2. age \in [ToSet(Reads) -> Nat] /\ \A r \in ToSet(Reads) : age[r] <= Every[r]
  BY BgNumbers DEF BgInit
<1>3. good \in [Lasting -> Nat] /\ \A r \in Lasting : good[r] <= StaleAfter[r] + 1
  <2>1. good = [r \in Lasting |-> StaleAfter[r] + 1]
    BY DEF BgInit
  <2>2. \A r \in Lasting : StaleAfter[r] + 1 \in Nat
    BY BgNumbers
  <2> QED BY <2>1, <2>2
<1> QED BY <1>1, <1>2, <1>3 DEF BgInit, AgesTyped

\* Every step of a Refresh keeps its deadlines and its list of reads.
LEMMA PassKept == ASSUME PassTyped, [BgNext]_bgVars PROVE PassTyped'
<1>1. CASE UNCHANGED bgVars
  BY <1>1 DEF PassTyped, bgVars
<1>2. CASE RefreshStarts
  <2>1. Budget \in 0..Budget
    BY BgNumbers
  <2>2. todo' = todo /\ rleft' = 0 /\ left' = Budget /\ todo = {} /\ bpc' = "head" /\ due' = FALSE
    BY <1>2 DEF RefreshStarts, PassTyped
  <2>3. rleft' \in 0..Deadline /\ rleft' <= left'
    BY <2>2, BgNumbers
  <2> QED BY <2>1, <2>2, <2>3 DEF PassTyped
<1>3. CASE RefreshFails
  BY <1>3, BgNumbers DEF RefreshFails, PassTyped
<1>4. CASE LookWhatIsDue
  BY <1>4, BgNumbers DEF LookWhatIsDue, PassTyped
<1>5. CASE SlotComesInTime
  BY <1>5, BgNumbers DEF SlotComesInTime, PassTyped, Least
<1>6. CASE SlotTooLate
  BY <1>6, BgNumbers DEF SlotTooLate, Advance, PassTyped
<1>7. ASSUME NEW ok \in BOOLEAN, ReadMade(ok) PROVE PassTyped'
  BY <1>7, BgNumbers DEF ReadMade, Advance, PassTyped
<1>8. CASE BgTick
  <2>1. CASE bpc = "idle"
    BY <1>8, <2>1, BgNumbers DEF BgTick, PassTyped
  <2>2. CASE bpc = "head"
    <3>1. left > 0
      BY <1>8, <2>2 DEF BgTick, Waits
    <3> QED BY <1>8, <2>2, <3>1, BgNumbers DEF BgTick, PassTyped
  <2>3. CASE bpc = "slot"
    BY <1>8, <2>3 DEF BgTick, Waits
  <2>4. CASE bpc = "read"
    <3>1. rleft > 0
      BY <1>8, <2>4 DEF BgTick, Waits
    <3> QED BY <1>8, <2>4, <3>1, BgNumbers DEF BgTick, PassTyped
  <2> QED BY <2>1, <2>2, <2>3, <2>4 DEF PassTyped
<1>9. CASE HealthChanges
  BY <1>9 DEF HealthChanges, passVars, PassTyped
<1> QED BY <1>1, <1>2, <1>3, <1>4, <1>5, <1>6, <1>7, <1>8, <1>9 DEF BgNext, PassStep

\* A try and an answer begin an age anew, and time counts each up to its end.
LEMMA AgesKept == ASSUME AgesTyped, [BgNext]_bgVars PROVE AgesTyped'
<1>1. CASE UNCHANGED <<age, good, updateKnown, health>>
  BY <1>1 DEF AgesTyped
<1>2. ASSUME NEW ok \in BOOLEAN, ReadMade(ok) PROVE AgesTyped'
  <2>1. age' = [age EXCEPT ![First] = 0] /\ health' = health
    BY <1>2 DEF ReadMade, Tried
  <2>2. good' = good \/ good' = [good EXCEPT ![First] = 0]
    BY <1>2 DEF ReadMade, Answered
  <2>3. updateKnown' = ok \/ updateKnown' = updateKnown
    BY <1>2 DEF ReadMade, UpdateAfter
  <2>4. updateKnown' \in BOOLEAN
    BY <2>3, Zenon DEF AgesTyped
  <2>5. age' \in [ToSet(Reads) -> Nat] /\ \A r \in ToSet(Reads) : age'[r] <= Every[r]
    <3>1. \A r \in ToSet(Reads) : Every[r] \in Nat /\ 0 <= Every[r]
      BY BgNumbers
    <3> QED BY <2>1, <3>1 DEF AgesTyped
  <2>6. good' \in [Lasting -> Nat] /\ \A r \in Lasting : good'[r] <= StaleAfter[r] + 1
    <3>1. \A r \in Lasting : StaleAfter[r] \in Nat /\ 0 <= StaleAfter[r] + 1
      BY BgNumbers
    <3>2. CASE good' = good
      BY <3>2 DEF AgesTyped
    <3>3. CASE good' = [good EXCEPT ![First] = 0]
      BY <3>1, <3>3 DEF AgesTyped
    <3> QED BY <2>2, <3>2, <3>3
  <2> QED BY <2>1, <2>4, <2>5, <2>6 DEF AgesTyped
<1>3. CASE BgTick
  <2>1. age' = [r \in ToSet(Reads) |-> Older(age[r], Every[r])]
    BY <1>3 DEF BgTick, AgesTyped
  <2>2. good' = [r \in Lasting |-> Older(good[r], StaleAfter[r] + 1)]
    BY <1>3 DEF BgTick
  <2>3. \A n, cap \in Nat : Older(n, cap) \in 0..cap
    BY DEF Older
  <2>4. age' \in [ToSet(Reads) -> Nat] /\ \A r \in ToSet(Reads) : age'[r] <= Every[r]
    BY <2>1, <2>3, BgNumbers DEF AgesTyped
  <2>5. good' \in [Lasting -> Nat] /\ \A r \in Lasting : good'[r] <= StaleAfter[r] + 1
    BY <2>2, <2>3, BgNumbers DEF AgesTyped
  <2> QED BY <1>3, <2>4, <2>5 DEF BgTick, AgesTyped
<1>4. CASE HealthChanges
  BY <1>4 DEF HealthChanges, AgesTyped
<1>5. CASE RefreshStarts \/ RefreshFails \/ LookWhatIsDue \/ SlotComesInTime \/ SlotTooLate
  BY <1>1, <1>5 DEF RefreshStarts, RefreshFails, LookWhatIsDue, SlotComesInTime, SlotTooLate
<1> QED BY <1>1, <1>2, <1>3, <1>4, <1>5 DEF BgNext, PassStep, bgVars

\* No deadline of a read or of a Refresh is ever overrun, and nothing that is
\* not a read is due, for any cadences and deadlines (background.go:67-118).
THEOREM BackgroundTypes == BgSpec => []BgTypeOK
<1>1. PassTyped /\ AgesTyped => BgTypeOK
  BY BgNumbers DEF PassTyped, AgesTyped, BgTypeOK
<1>2. PassTyped /\ AgesTyped /\ [BgNext]_bgVars => PassTyped' /\ AgesTyped'
  BY PassKept, AgesKept
<1> QED BY BgStart, <1>1, <1>2, PTL DEF BgSpec
=============================================================================
