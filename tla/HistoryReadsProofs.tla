-------------------------- MODULE HistoryReadsProofs --------------------------
(* Proofs about the reads of the watch history, for any rows arriving at any  *)
(* place, any page size and any caps: no play is lost between a capped or     *)
(* failed read and the next, and a read that ends has all that it was to get. *)
EXTENDS HistoryReads, TLAPS, FiniteSetTheorems, WellFoundedInduction

Times == 0..MaxTime
Rows == [at : 1..MaxTime, item : Items \cup {Unusable}, late : BOOLEAN]
Places == [since : Times, offset : 0..MaxRows]
Reads == [op : {"idle", "boot", "inc", "catchup"}, since : Times, start : 0..MaxRows, got : Nat,
          newest : Times, short : BOOLEAN, map : [Items -> Times], owed : SUBSET Rows, failed : BOOLEAN]

\* How many rows of a history are before a time.
Under(h, s) == Cardinality({k \in DOMAIN h : h[k].at < s})
\* A row ahead of a place: offset rows past the rows before since.
IsAhead(h, k, since, offset) == k > Under(h, since) + offset
\* A history is in order of its plays' times.
Ordered(h) == \A i, j \in DOMAIN h : i <= j => h[i].at <= h[j].at

HistInv == hist \in Seq(Rows) /\ Len(hist) <= MaxRows /\ Ordered(hist)

\* A store without a complete read is empty, and a drain goes on at a row of the
\* history or at its end.
StoreInv ==
    /\ watched \in [Items -> Times]
    /\ status \in {"", "complete", "over_limit", "failed"}
    /\ cursor \in Times
    /\ drain \in Places /\ Under(hist, drain.since) + drain.offset <= Len(hist)
    /\ status # "complete" => watched = NoPlays /\ cursor = 0 /\ drain = NoDrain

\* A read is at a row or at the end, has whole pages unless it saw a short one,
\* and an increment began where the store still says that one is to begin.
ReadInv ==
    /\ rd \in Reads /\ Under(hist, rd.since) + (rd.start + rd.got) <= Len(hist)
    /\ rd.got \in 0..Pages * PageSize
    /\ ~rd.short => \E m \in 0..Pages : rd.got = m * PageSize
    /\ rd.op = "idle" => rd.start = 0 /\ rd.got = 0 /\ ~rd.short
    /\ rd.op = "boot" => status # "complete"
    /\ rd.op \in {"inc", "catchup"} => status = "complete"
    /\ rd.op = "inc" => rd.since = Resume.since /\ rd.start = Resume.offset

\* What a read owes is in the map or at a row ahead of it; after a short page,
\* nothing is ahead any more.
OwedAhead ==
    rd.op # "idle" => \A r \in rd.owed : r.item # Unusable =>
        \/ Known[r.item] >= r.at
        \/ ~rd.short /\ \E k \in DOMAIN hist :
              IsAhead(hist, k, rd.since, rd.start + rd.got) /\ hist[k].at = r.at /\ hist[k].item = r.item

\* NoPlayLost, in these terms.
Awaited ==
    \A k \in DOMAIN hist :
        hist[k].item # Unusable /\ ~hist[k].late /\ ~(Known[hist[k].item] >= hist[k].at)
        => IsAhead(hist, k, Ahead.since, Ahead.offset)

ReadsInv == HistInv /\ StoreInv /\ ReadInv /\ OwedAhead /\ Awaited
-----------------------------------------------------------------------------
\* The assumptions on the bounds, as the proofs use them.
LEMMA Numbers ==
    /\ MaxTime \in Nat /\ MaxRows \in Nat /\ Overlap \in Nat /\ Times \subseteq Nat
    /\ PageSize \in Nat \ {0} /\ MaxPages \in Nat \ {0}
    /\ MaxIncrementalPages \in Nat \ {0} /\ MaxCatchupPages \in Nat \ {0}
BY ReadsAssumption DEF Times

\* Counts and times are natural numbers.
LEMMA InNat == (\A x \in 0..MaxRows : x \in Nat) /\ (\A t \in Times : t \in Nat)
<1>1. MaxRows \in Nat /\ MaxTime \in Nat
  BY Numbers
<1> QED BY <1>1 DEF Times

\* What a row of the history has.
LEMMA RowIs == \A r \in Rows : r.at \in Nat /\ r.at \in Times /\ r.at >= 1 /\ r.late \in BOOLEAN
<1>1. MaxTime \in Nat
  BY Numbers
<1> QED BY <1>1 DEF Rows, Times

\* The rows of a history, place by place.
LEMMA HistoryIs ==
    ASSUME NEW h \in Seq(Rows)
    PROVE  /\ Len(h) \in Nat /\ DOMAIN h = 1..Len(h)
           /\ \A k \in 1..Len(h) : h[k] \in Rows /\ h[k].at \in Nat
BY RowIs

\* A set of times that is not empty has a newest one.
LEMMA NewestIs ==
    ASSUME NEW S \in SUBSET Times, S # {}
    PROVE  Newest(S) \in S /\ \A u \in S : u <= Newest(S)
<1> DEFINE D == {MaxTime - t : t \in S}
<1>0. MaxTime \in Nat /\ S \subseteq Nat /\ \A t \in S : t \in Nat /\ MaxTime - t \in Nat
  <2>1. MaxTime \in Nat
    BY ReadsAssumption
  <2> QED BY <2>1 DEF Times
<1>1. D \in SUBSET Nat /\ D # {}
  BY <1>0
<1>2. PICK R : R = OpToRel(<, Nat)
  OBVIOUS
<1>3. \A x, y \in Nat : <<x, y>> \in R <=> x < y
  BY <1>2 DEF OpToRel
<1>4. IsWellFoundedOn(R, Nat)
  BY <1>2, NatLessThanWellFounded, Zenon
<1>5. PICK d \in D : \A y \in D : ~(<<y, d>> \in R)
  BY <1>1, <1>4, WFMin, Zenon
<1>6. PICK t \in S : d = MaxTime - t
  OBVIOUS
<1>7. ASSUME NEW u \in S PROVE u <= t
  <2>1. MaxTime - u \in D /\ MaxTime - u \in Nat /\ d \in Nat
    BY <1>1
  <2>2. ~(MaxTime - u < d)
    BY <1>3, <1>5, <2>1
  <2> QED BY <1>0, <1>6, <2>2
<1> QED BY <1>7 DEF Newest

\* Folding rows into a map keeps what it has, and every row's play is in.
LEMMA FoldedIs ==
    ASSUME NEW map \in [Items -> Times], NEW rows \in SUBSET Rows
    PROVE  /\ Folded(map, rows) \in [Items -> Times]
           /\ \A i \in Items : map[i] <= Folded(map, rows)[i]
           /\ \A r \in rows : r.item # Unusable => r.item \in Items /\ r.at <= Folded(map, rows)[r.item]
<1> DEFINE S(i) == {map[i]} \cup {r.at : r \in {s \in rows : s.item = i}}
<1>1. ASSUME NEW i \in Items
      PROVE  Folded(map, rows)[i] \in Times /\ \A u \in S(i) : u <= Folded(map, rows)[i]
  <2>1. S(i) \in SUBSET Times /\ S(i) # {}
    BY ReadsAssumption DEF Rows, Times
  <2>2. Folded(map, rows)[i] = Newest(S(i))
    BY DEF Folded
  <2> HIDE DEF S
  <2> QED BY <2>1, <2>2, NewestIs
<1>2. Folded(map, rows) \in [Items -> Times]
  BY <1>1 DEF Folded
<1>3. \A r \in rows : r.item # Unusable => r.item \in Items /\ r.at \in S(r.item)
  BY DEF Rows
<1>4. \A i \in Items : map[i] \in S(i)
  OBVIOUS
<1> HIDE DEF S
<1> QED BY <1>1, <1>2, <1>3, <1>4
-----------------------------------------------------------------------------
\* The rows before a time are the first ones of a history in order.
LEMMA UnderSplits ==
    ASSUME NEW h \in Seq(Rows), Ordered(h), NEW s \in Nat
    PROVE  Under(h, s) \in 0..Len(h) /\ \A k \in 1..Len(h) : h[k].at < s <=> k <= Under(h, s)
<1> DEFINE n == Len(h)
           P(k) == k \in 1..n /\ h[k].at < s
           D == {k \in 1..(n + 1) : ~P(k)}
<1>0. n \in Nat /\ DOMAIN h = 1..n /\ \A k \in 1..n : h[k].at \in Nat
  BY HistoryIs
<1>1. D \in SUBSET Nat /\ n + 1 \in D
  BY <1>0
<1>2. PICK R : R = OpToRel(<, Nat)
  OBVIOUS
<1>3. \A x, y \in Nat : <<x, y>> \in R <=> x < y
  BY <1>2 DEF OpToRel
<1>4. IsWellFoundedOn(R, Nat)
  BY <1>2, NatLessThanWellFounded, Zenon
<1>5. D # {}
  BY <1>1
<1> HIDE DEF D
<1>6. PICK d \in D : \A y \in D : ~(<<y, d>> \in R)
  BY <1>1, <1>4, <1>5, WFMin, Zenon
<1>7. d \in 1..(n + 1) /\ ~P(d)
  BY DEF D
<1>8. ASSUME NEW k \in 1..n PROVE P(k) <=> k <= d - 1
  <2>1. ASSUME k <= d - 1 PROVE P(k)
    <3>1. k \in Nat /\ d \in Nat /\ k < d /\ k \in 1..(n + 1)
      BY <1>0, <1>7, <2>1
    <3>2. k \notin D
      BY <1>3, <1>6, <3>1
    <3> QED BY <3>1, <3>2 DEF D
  <2>2. ASSUME P(k), ~(k <= d - 1) PROVE FALSE
    <3>1. d \in 1..n /\ d <= k
      BY <1>0, <1>7, <2>2
    <3>2. h[d].at <= h[k].at
      BY <1>0, <3>1 DEF Ordered
    <3> QED BY <1>0, <1>7, <2>2, <3>1, <3>2
  <2> QED BY <2>1, <2>2
<1>9. {k \in DOMAIN h : h[k].at < s} = 1..(d - 1)
  BY <1>0, <1>7, <1>8
<1>10. Cardinality(1..(d - 1)) = d - 1
  <2>1. 1 \in Int /\ d - 1 \in Int /\ d - 1 >= 0
    BY <1>0, <1>7
  <2> QED BY <2>1, FS_Interval
<1>11. Under(h, s) = d - 1
  BY <1>9, <1>10 DEF Under
<1> QED BY <1>0, <1>7, <1>8, <1>11

\* No row of a history is before its start.
LEMMA NoneUnderZero ==
    ASSUME NEW h \in Seq(Rows)
    PROVE  Under(h, 0) = 0
<1>1. \A k \in DOMAIN h : h[k].at \in Nat
  BY HistoryIs
<1>2. {k \in DOMAIN h : h[k].at < 0} = {}
  BY <1>1
<1> QED BY <1>2, FS_EmptySet DEF Under

\* How many rows of this history are from before a time.
LEMMA BeforeIs == \A s : RowsBefore(s) = Under(hist, s)
BY DEF RowsBefore, Under
-----------------------------------------------------------------------------
\* InsertAt puts a row at its place and moves up the later ones.
LEMMA InsertedIs ==
    ASSUME NEW h \in Seq(Rows), NEW e \in Rows, NEW i \in 1..(Len(h) + 1)
    PROVE  /\ InsertAt(h, i, e) \in Seq(Rows)
           /\ Len(InsertAt(h, i, e)) = Len(h) + 1
           /\ \A j \in 1..(Len(h) + 1) :
                 InsertAt(h, i, e)[j] = IF j < i THEN h[j] ELSE IF j = i THEN e ELSE h[j - 1]
<1> DEFINE a == SubSeq(h, 1, i - 1)
           b == SubSeq(h, i, Len(h))
<1>1. Len(h) \in Nat /\ i \in Nat
  OBVIOUS
<1>2. a \in Seq(Rows) /\ Len(a) = i - 1 /\ \A j \in 1..(i - 1) : a[j] = h[j]
  OBVIOUS
<1>3. b \in Seq(Rows) /\ Len(b) = Len(h) - i + 1 /\ \A j \in 1..(Len(h) - i + 1) : b[j] = h[i + j - 1]
  OBVIOUS
<1>4. <<e>> \in Seq(Rows) /\ Len(<<e>>) = 1 /\ <<e>>[1] = e
  OBVIOUS
<1> HIDE DEF a, b
<1>5. /\ a \o <<e>> \in Seq(Rows) /\ Len(a \o <<e>>) = i
      /\ \A j \in 1..i : (a \o <<e>>)[j] = IF j < i THEN h[j] ELSE e
  BY <1>1, <1>2, <1>4
<1> DEFINE c == a \o <<e>>
<1> HIDE DEF c
<1>6. /\ c \o b \in Seq(Rows) /\ Len(c \o b) = Len(h) + 1
      /\ \A j \in 1..(Len(h) + 1) : (c \o b)[j] = IF j <= i THEN c[j] ELSE b[j - i]
  BY <1>1, <1>3, <1>5 DEF c
<1>7. InsertAt(h, i, e) = c \o b
  BY DEF InsertAt, a, b, c
<1> QED BY <1>1, <1>3, <1>5, <1>6, <1>7, SMTT(30) DEF c

\* A row that arrives leaves the history in order, is among the rows before a
\* time if it is before that time, and takes no row back behind a place that
\* it was ahead of.
LEMMA ArrivalShifts ==
    ASSUME NEW h \in Seq(Rows), Ordered(h), NEW e \in Rows
    PROVE  LET k == Under(h, e.at + 1) + 1
               g == InsertAt(h, k, e)
           IN  /\ k \in 1..(Len(h) + 1)
               /\ g \in Seq(Rows) /\ Len(g) = Len(h) + 1 /\ Ordered(g) /\ g[k] = e
               /\ \A j \in 1..(Len(h) + 1) : g[j] = IF j < k THEN h[j] ELSE IF j = k THEN e ELSE h[j - 1]
               /\ \A s \in Nat : Under(g, s) = IF e.at < s THEN Under(h, s) + 1 ELSE Under(h, s)
               /\ \A s \in Nat : Under(h, s) \in 0..Len(h) /\ (e.at < s => k <= Under(h, s) + 1)
<1> DEFINE k == Under(h, e.at + 1) + 1
           g == InsertAt(h, k, e)
           n == Len(h)
<1>0. n \in Nat /\ DOMAIN h = 1..n /\ (\A j \in 1..n : h[j].at \in Nat) /\ e.at \in Nat
  BY HistoryIs, RowIs
<1>1. k \in 1..(n + 1) /\ \A j \in 1..n : h[j].at < e.at + 1 <=> j < k
  <2> DEFINE u == Under(h, e.at + 1)
  <2>1. e.at + 1 \in Nat
    BY <1>0
  <2>2. u \in 0..n /\ \A j \in 1..n : h[j].at < e.at + 1 <=> j <= u
    BY <2>1, UnderSplits
  <2> HIDE DEF u
  <2>3. k = u + 1
    BY DEF u
  <2> HIDE DEF k
  <2> QED BY <1>0, <2>2, <2>3
<1> HIDE DEF k
<1>2. /\ g \in Seq(Rows) /\ Len(g) = n + 1
      /\ \A j \in 1..(n + 1) : g[j] = IF j < k THEN h[j] ELSE IF j = k THEN e ELSE h[j - 1]
  BY <1>1, InsertedIs
<1>3. \A s \in Nat : Under(h, s) \in 0..n /\ \A j \in 1..n : h[j].at < s <=> j <= Under(h, s)
  BY UnderSplits
<1> HIDE DEF g
<1>4. DOMAIN g = 1..(n + 1)
  BY <1>2
<1>5. g[k] = e
  BY <1>1, <1>2
<1>6. Ordered(g)
  <2> SUFFICES ASSUME NEW i \in 1..(n + 1), NEW j \in 1..(n + 1), i <= j
               PROVE  g[i].at <= g[j].at
    BY <1>4 DEF Ordered
  <2>1. \A a, b \in 1..n : a <= b => h[a].at <= h[b].at
    BY <1>0 DEF Ordered
  <2>2. CASE i < k /\ j < k
    BY <1>0, <1>1, <1>2, <2>1, <2>2
  <2>3. CASE i < k /\ j = k
    BY <1>0, <1>1, <1>2, <2>3
  <2>4. CASE i < k /\ j > k
    <3>1. i \in 1..n /\ j - 1 \in 1..n /\ i <= j - 1
      BY <1>0, <1>1, <2>4
    <3>2. g[i] = h[i] /\ g[j] = h[j - 1]
      BY <1>1, <1>2, <2>4
    <3> QED BY <2>1, <3>1, <3>2
  <2>5. CASE i = k /\ j = k
    BY <1>0, <1>5, <2>5
  <2>6. CASE i = k /\ j > k
    <3>1. j - 1 \in 1..n /\ ~(j - 1 < k)
      BY <1>0, <1>1, <2>6
    <3>2. ~(h[j - 1].at < e.at + 1) /\ h[j - 1].at \in Nat
      BY <1>0, <1>1, <3>1
    <3>3. g[i] = e /\ g[j] = h[j - 1]
      BY <1>1, <1>2, <2>6
    <3> QED BY <1>0, <3>2, <3>3
  <2>7. CASE i > k
    <3>1. i - 1 \in 1..n /\ j - 1 \in 1..n /\ i - 1 <= j - 1 /\ j > k
      BY <1>0, <1>1, <2>7
    <3>2. g[i] = h[i - 1] /\ g[j] = h[j - 1]
      BY <1>1, <1>2, <2>7, <3>1
    <3> QED BY <2>1, <3>1, <3>2
  <2> QED BY <1>1, <2>2, <2>3, <2>4, <2>5, <2>6, <2>7
<1>7. ASSUME NEW s \in Nat
      PROVE  Under(g, s) = IF e.at < s THEN Under(h, s) + 1 ELSE Under(h, s)
  <2> DEFINE b == Under(h, s)
             d == Under(g, s)
  <2>1. b \in 0..n /\ \A j \in 1..n : h[j].at < s <=> j <= b
    BY <1>3
  <2>2. d \in 0..(n + 1) /\ \A j \in 1..(n + 1) : g[j].at < s <=> j <= d
    BY <1>2, <1>6, UnderSplits
  <2> HIDE DEF b, d
  <2>3. CASE e.at < s
    <3>1. k <= b + 1
      <4> SUFFICES ASSUME k - 1 \in 1..n PROVE k - 1 <= b
        BY <1>0, <1>1, <2>1
      <4>1. h[k - 1].at < e.at + 1 /\ h[k - 1].at \in Nat
        BY <1>0, <1>1
      <4> QED BY <1>0, <2>1, <2>3, <4>1
    <3>2. b + 1 <= d
      <4>1. b + 1 \in 1..(n + 1)
        BY <1>0, <2>1
      <4>2. g[b + 1].at < s
        <5>1. CASE k = b + 1
          BY <1>5, <2>3, <5>1
        <5>2. CASE k # b + 1
          <6>1. b \in 1..n /\ ~(b + 1 < k) /\ b + 1 # k
            BY <1>0, <1>1, <2>1, <3>1, <5>2
          <6>2. g[b + 1] = h[b] /\ h[b].at < s
            BY <1>2, <2>1, <4>1, <6>1
          <6> QED BY <6>2
        <5> QED BY <5>1, <5>2
      <4> QED BY <2>2, <4>1, <4>2
    <3>3. d <= b + 1
      <4> SUFFICES ASSUME b + 2 \in 1..(n + 1) PROVE ~(b + 2 <= d)
        BY <1>0, <2>1, <2>2
      <4>1. b + 1 \in 1..n /\ ~(b + 2 < k) /\ b + 2 # k
        BY <1>0, <1>1, <2>1, <3>1
      <4>2. g[b + 2] = h[b + 1] /\ ~(h[b + 1].at < s)
        BY <1>2, <2>1, <4>1
      <4> QED BY <2>2, <4>2
    <3> QED BY <2>1, <2>2, <2>3, <3>2, <3>3 DEF b, d
  <2>4. CASE ~(e.at < s)
    <3>1. b < k
      <4> SUFFICES ASSUME b \in 1..n PROVE b < k
        BY <1>0, <1>1, <2>1
      <4>1. h[b].at < s /\ h[b].at \in Nat
        BY <1>0, <2>1
      <4> QED BY <1>0, <1>1, <2>4, <4>1
    <3>2. b <= d
      <4> SUFFICES ASSUME b \in 1..n PROVE b <= d
        BY <1>0, <2>1, <2>2
      <4>1. g[b] = h[b] /\ h[b].at < s /\ b \in 1..(n + 1)
        BY <1>0, <1>2, <2>1, <3>1, SMTT(30)
      <4> QED BY <2>2, <4>1
    <3>3. d <= b
      <4>1. b + 1 \in 1..(n + 1)
        BY <1>0, <2>1
      <4>2. ~(g[b + 1].at < s)
        <5>1. CASE b + 1 = k
          BY <1>5, <2>4, <5>1
        <5>2. CASE b + 1 # k
          <6>1. b + 1 \in 1..n /\ b + 1 < k
            BY <1>0, <1>1, <2>1, <3>1, <5>2
          <6> QED BY <1>2, <2>1, <4>1, <6>1
        <5> QED BY <5>1, <5>2
      <4> QED BY <2>1, <2>2, <4>1, <4>2
    <3> QED BY <2>1, <2>2, <2>4, <3>2, <3>3 DEF b, d
  <2> QED BY <2>3, <2>4
<1>8. ASSUME NEW s \in Nat, e.at < s PROVE k <= Under(h, s) + 1
  <2> SUFFICES ASSUME k - 1 \in 1..n PROVE k - 1 <= Under(h, s)
    BY <1>0, <1>1, <1>3, SMTT(30)
  <2>1. h[k - 1].at < e.at + 1 /\ h[k - 1].at \in Nat
    BY <1>0, <1>1
  <2>2. h[k - 1].at < s
    BY <1>0, <1>8, <2>1
  <2> QED BY <1>3, <2>2
<1> QED BY <1>1, <1>2, <1>3, <1>5, <1>6, <1>7, <1>8 DEF k, g

\* A row that is ahead of a place stays ahead.
LEMMA StaysAhead ==
    ASSUME NEW h \in Seq(Rows), Ordered(h), NEW e \in Rows,
           NEW j \in 1..Len(h), NEW s \in Nat, NEW o \in Nat, IsAhead(h, j, s, o)
    PROVE  LET k == Under(h, e.at + 1) + 1
               g == InsertAt(h, k, e)
               m == IF j < k THEN j ELSE j + 1
           IN  m \in 1..Len(g) /\ g[m] = h[j] /\ IsAhead(g, m, s, o)
<1> DEFINE k == Under(h, e.at + 1) + 1
           g == InsertAt(h, k, e)
<1>1. k \in 1..(Len(h) + 1) /\ Len(g) = Len(h) + 1
  BY ArrivalShifts
<1>2. \A i \in 1..(Len(h) + 1) : g[i] = IF i < k THEN h[i] ELSE IF i = k THEN e ELSE h[i - 1]
  BY ArrivalShifts
<1>3. Under(g, s) = IF e.at < s THEN Under(h, s) + 1 ELSE Under(h, s)
  BY ArrivalShifts
<1>4. Under(h, s) \in 0..Len(h) /\ (e.at < s => k <= Under(h, s) + 1)
  BY ArrivalShifts
<1> DEFINE b == Under(h, s)
           d == Under(g, s)
<1>5. j > b + o
  BY DEF IsAhead
<1>6. Len(h) \in Nat
  OBVIOUS
<1> HIDE DEF k, g, b, d
<1>7. CASE j < k
  <2>1. j \in 1..Len(g) /\ g[j] = h[j]
    BY <1>1, <1>2, <1>6, <1>7
  <2>2. d = b
    BY <1>1, <1>3, <1>4, <1>5, <1>6, <1>7 DEF b, d
  <2> QED BY <1>5, <1>7, <2>1, <2>2 DEF IsAhead, k, g, b, d
<1>8. CASE ~(j < k)
  <2>1. j + 1 \in 1..Len(g)
    BY <1>1, <1>6
  <2>2. ~(j + 1 < k) /\ j + 1 # k /\ j + 1 - 1 = j
    BY <1>1, <1>6, <1>8
  <2>3. g[j + 1] = h[j]
    BY <1>1, <1>2, <2>1, <2>2
  <2>4. d <= b + 1 /\ d \in Nat /\ b \in Nat
    BY <1>3, <1>4, <1>6 DEF b, d
  <2>5. j + 1 > d + o
    BY <1>5, <2>4
  <2> QED BY <1>8, <2>1, <2>3, <2>5 DEF IsAhead, k, g, d
<1> QED BY <1>7, <1>8
-----------------------------------------------------------------------------
\* Where the next increment begins is a place of the history; so is what the
\* reads will look at next.
LEMMA PlacesAre ==
    ASSUME StoreInv, ReadInv
    PROVE  /\ Resume \in Places /\ Resume.since \in Nat /\ Resume.offset \in Nat
           /\ Ahead.since \in Nat /\ Ahead.offset \in Nat
<1>1. drain \in Places /\ rd \in Reads /\ cursor \in Times
  BY DEF StoreInv, ReadInv
<1>2. /\ rd.newest \in Times /\ rd.since \in Times /\ rd.start \in 0..MaxRows /\ rd.got \in Nat
      /\ drain.since \in Times /\ drain.offset \in 0..MaxRows
  BY <1>1 DEF Reads, Places
<1>3. rd.since \in Nat /\ rd.start \in Nat /\ rd.got \in Nat /\ drain.offset \in Nat
  BY <1>2, InNat
<1>4. \A t \in Times : LaterOf(t - Overlap, 0) \in Times
  BY Numbers DEF LaterOf, Times
<1>5. LaterOf(cursor, rd.newest) \in Times
  BY <1>1, <1>2 DEF LaterOf
<1>6. 0 \in 0..MaxRows
  BY Numbers
<1>7. Resume \in Places
  BY <1>1, <1>4, <1>6 DEF Resume, Places
<1>8. Resume.since \in Times /\ Resume.offset \in 0..MaxRows
  BY <1>7 DEF Places
<1>9. Resume.since \in Nat /\ Resume.offset \in Nat
  BY <1>8, InNat
<1>10. LaterOf(LaterOf(cursor, rd.newest) - Overlap, 0) \in Nat
  BY <1>4, <1>5, Numbers
<1>11. rd.start + rd.got \in Nat
  BY <1>3
<1> QED BY <1>3, <1>7, <1>9, <1>10, <1>11 DEF Ahead, NoDrain

\* Where it begins is no further than the end of the history.
LEMMA ResumeFits ==
    ASSUME HistInv, StoreInv, ReadInv
    PROVE  /\ Under(hist, Resume.since) + Resume.offset <= Len(hist)
           /\ \A s \in Nat : Under(hist, s) \in 0..Len(hist)
<1>1. \A s \in Nat : Under(hist, s) \in 0..Len(hist)
  BY UnderSplits DEF HistInv
<1>2. CASE drain.offset > 0
  BY <1>1, <1>2 DEF Resume, StoreInv
<1>3. CASE ~(drain.offset > 0)
  <2>1. Resume.offset = 0
    BY <1>3 DEF Resume
  <2>2. Resume.since \in Nat /\ Len(hist) \in Nat
    BY PlacesAre, HistoryIs DEF HistInv
  <2>3. Under(hist, Resume.since) \in 0..Len(hist)
    BY <1>1, <2>2
  <2> QED BY <1>1, <2>1, <2>2, <2>3
<1> QED BY <1>2, <1>3

\* Whole pages below a cap leave room for one more.
LEMMA PageFits ==
    ASSUME NEW m \in Nat, NEW N \in Nat, NEW P \in Nat \ {0}, m <= N
    PROVE  /\ m * P \in Nat /\ N * P \in Nat /\ 0 * P = 0 /\ (m + 1) * P = m * P + P
           /\ m * P # N * P => m + 1 <= N /\ m * P + P <= N * P
<1>1. /\ m * P \in Nat /\ N * P \in Nat /\ 0 * P = 0 /\ (m + 1) * P = m * P + P
  OBVIOUS
<1>2. ASSUME m * P # N * P PROVE m + 1 <= N /\ m * P + P <= N * P
  <2>1. m # N
    BY <1>2
  <2>2. m + 1 <= N /\ (N - m - 1) \in Nat
    BY <2>1
  <2>3. (N - m - 1) * P >= 0 /\ (N - m - 1) * P = N * P - m * P - P
    BY <2>2
  <2> QED BY <1>1, <2>2, <2>3
<1> QED BY <1>1, <1>2

\* Before the first read the store is empty.
LEMMA ReadsInitInv == ReadsInit => ReadsInv
<1> SUFFICES ASSUME ReadsInit PROVE ReadsInv
  OBVIOUS
<1>0. hist = <<>>
  BY DEF ReadsInit
<1>1. Len(hist) = 0 /\ DOMAIN hist = 1..0 /\ hist \in Seq(Rows)
  BY <1>0
<1>2. HistInv
  <2>1. 1..0 = {}
    OBVIOUS
  <2> QED BY <1>1, <2>1, Numbers DEF HistInv, Ordered
<1>3. Under(hist, 0) = 0
  BY <1>1, NoneUnderZero
<1>4. NoPlays \in [Items -> Times] /\ 0 \in Times /\ 0 \in 0..MaxRows
  BY Numbers DEF NoPlays, Times
<1>5. NoDrain \in Places /\ NoDrain.since = 0 /\ NoDrain.offset = 0
  BY <1>4 DEF NoDrain, Places
<1>6. StoreInv
  <2>1. Under(hist, NoDrain.since) + NoDrain.offset <= Len(hist)
    BY <1>1, <1>3, <1>5
  <2> QED BY <1>4, <1>5, <2>1 DEF ReadsInit, StoreInv
<1>7. rd \in Reads
  BY <1>4 DEF ReadsInit, NoRead, Reads
<1>8. ReadInv
  <2>1. Pages \in Nat /\ Pages * PageSize \in Nat /\ 0 * PageSize = 0
    BY Numbers, PageFits DEF Pages
  <2>2. rd.op = "idle" /\ rd.since = 0 /\ rd.start = 0 /\ rd.got = 0 /\ rd.short = FALSE
    BY DEF ReadsInit, NoRead
  <2>3. 0 \in 0..Pages /\ rd.got = 0 * PageSize /\ rd.got \in 0..Pages * PageSize
    BY <2>1, <2>2
  <2> QED BY <1>1, <1>3, <1>7, <2>2, <2>3 DEF ReadInv
<1>9. OwedAhead
  BY DEF ReadsInit, NoRead, OwedAhead
<1>10. Awaited
  BY <1>0 DEF Awaited
<1> QED BY <1>2, <1>6, <1>8, <1>9, <1>10 DEF ReadsInv
-----------------------------------------------------------------------------
\* The history after a play arrived: ArrivalShifts of the variable.
LEMMA ArrivedIs ==
    ASSUME HistInv, NEW e \in Rows, NEW k, k = RowsBefore(e.at + 1) + 1, hist' = InsertAt(hist, k, e)
    PROVE  /\ k \in 1..(Len(hist) + 1)
           /\ hist' \in Seq(Rows) /\ Len(hist') = Len(hist) + 1 /\ Ordered(hist') /\ hist'[k] = e
           /\ \A j \in 1..(Len(hist) + 1) :
                 hist'[j] = IF j < k THEN hist[j] ELSE IF j = k THEN e ELSE hist[j - 1]
           /\ \A s \in Nat : Under(hist', s) = IF e.at < s THEN Under(hist, s) + 1 ELSE Under(hist, s)
           /\ \A j \in 1..Len(hist), s \in Nat, o \in Nat : IsAhead(hist, j, s, o) =>
                 LET m == IF j < k THEN j ELSE j + 1
                 IN  m \in 1..Len(hist') /\ hist'[m] = hist[j] /\ IsAhead(hist', m, s, o)
<1> DEFINE q == Under(hist, e.at + 1) + 1
           g == InsertAt(hist, q, e)
<1>0. hist \in Seq(Rows) /\ Ordered(hist)
  BY DEF HistInv
<1>1. q \in 1..(Len(hist) + 1) /\ g \in Seq(Rows) /\ Len(g) = Len(hist) + 1 /\ Ordered(g) /\ g[q] = e
  BY <1>0, ArrivalShifts
<1>2. \A j \in 1..(Len(hist) + 1) : g[j] = IF j < q THEN hist[j] ELSE IF j = q THEN e ELSE hist[j - 1]
  BY <1>0, ArrivalShifts
<1>3. \A s \in Nat : Under(g, s) = IF e.at < s THEN Under(hist, s) + 1 ELSE Under(hist, s)
  BY <1>0, ArrivalShifts
<1>4. ASSUME NEW j \in 1..Len(hist), NEW s \in Nat, NEW o \in Nat, IsAhead(hist, j, s, o)
      PROVE  LET m == IF j < q THEN j ELSE j + 1
             IN  m \in 1..Len(g) /\ g[m] = hist[j] /\ IsAhead(g, m, s, o)
  BY <1>0, <1>4, StaysAhead
<1>5. q = k /\ g = hist'
  BY BeforeIs
<1> HIDE DEF q, g
<1> QED BY <1>1, <1>2, <1>3, <1>4, <1>5

\* A play that arrives disturbs nothing: what was ahead of the reads stays so.
LEMMA ArriveStep ==
    ASSUME ReadsInv, NEW item \in Items \cup {Unusable}, NEW at \in 1..MaxTime, Arrive(item, at)
    PROVE  ReadsInv'
<1> DEFINE k == RowsBefore(at + 1) + 1
           late == at < Ahead.since \/ k <= RowsBefore(Ahead.since) + Ahead.offset
           e == [at |-> at, item |-> item, late |-> late]
<1>1. HistInv /\ StoreInv /\ ReadInv /\ OwedAhead /\ Awaited
  BY DEF ReadsInv
<1>2. UNCHANGED <<watched, status, cursor, drain, rd>> /\ Len(hist) < MaxRows /\ hist' = InsertAt(hist, k, e)
  BY DEF Arrive, store
<1>3. e \in Rows /\ e.at = at /\ e.item = item /\ e.late = late
  BY DEF Rows
<1>4. hist \in Seq(Rows) /\ Len(hist) \in Nat /\ DOMAIN hist = 1..Len(hist) /\ MaxRows \in Nat
  BY <1>1, HistoryIs, Numbers DEF HistInv
<1>5. k = RowsBefore(e.at + 1) + 1
  BY <1>3
<1> HIDE DEF late, e, k
<1>6. /\ k \in 1..(Len(hist) + 1)
      /\ hist' \in Seq(Rows) /\ Len(hist') = Len(hist) + 1 /\ Ordered(hist') /\ hist'[k] = e
      /\ \A j \in 1..(Len(hist) + 1) :
            hist'[j] = IF j < k THEN hist[j] ELSE IF j = k THEN e ELSE hist[j - 1]
  BY <1>1, <1>2, <1>3, <1>5, ArrivedIs
<1>7. \A s \in Nat : Under(hist', s) = IF e.at < s THEN Under(hist, s) + 1 ELSE Under(hist, s)
  BY <1>1, <1>2, <1>3, <1>5, ArrivedIs
<1>8. \A j \in 1..Len(hist), s \in Nat, o \in Nat : IsAhead(hist, j, s, o) =>
        LET m == IF j < k THEN j ELSE j + 1
        IN  m \in 1..Len(hist') /\ hist'[m] = hist[j] /\ IsAhead(hist', m, s, o)
  BY <1>1, <1>2, <1>3, <1>5, ArrivedIs, SMTT(30)
<1>9. DOMAIN hist' = 1..(Len(hist) + 1)
  BY <1>6, HistoryIs
<1>10. ASSUME NEW s \in Nat, NEW o \in Nat, Under(hist, s) + o <= Len(hist)
       PROVE  Under(hist', s) + o <= Len(hist')
  <2>1. Under(hist, s) \in 0..Len(hist)
    BY <1>1, ResumeFits
  <2>2. Under(hist', s) <= Under(hist, s) + 1 /\ Under(hist', s) \in Nat
    BY <1>4, <1>7, <2>1
  <2> QED BY <1>4, <1>6, <1>10, <2>1, <2>2
<1>11. HistInv'
  BY <1>2, <1>4, <1>6 DEF HistInv
<1>12. drain.since \in Nat /\ drain.offset \in Nat /\ rd.since \in Nat /\ rd.start + rd.got \in Nat
  <2>1. drain \in Places /\ rd \in Reads
    BY <1>1 DEF StoreInv, ReadInv
  <2>2. drain.since \in Times /\ drain.offset \in 0..MaxRows /\ rd.since \in Times
        /\ rd.start \in 0..MaxRows /\ rd.got \in Nat
    BY <2>1 DEF Places, Reads
  <2>3. drain.since \in Nat /\ drain.offset \in Nat /\ rd.since \in Nat /\ rd.start \in Nat /\ rd.got \in Nat
    BY <2>2, InNat
  <2> QED BY <2>3
<1>13. StoreInv'
  <2>1. Under(hist', drain.since) + drain.offset <= Len(hist')
    BY <1>1, <1>10, <1>12 DEF StoreInv
  <2> QED BY <1>1, <1>2, <2>1 DEF StoreInv
<1>14. ReadInv'
  <2>1. Under(hist', rd.since) + (rd.start + rd.got) <= Len(hist')
    BY <1>1, <1>10, <1>12 DEF ReadInv
  <2>2. Pages' = Pages /\ Resume' = Resume
    BY <1>2 DEF Pages, Resume
  <2> QED BY <1>1, <1>2, <2>1, <2>2 DEF ReadInv
<1>15. Known' = Known /\ Ahead' = Ahead
  BY <1>2 DEF Known, Ahead, Resume
<1>16. OwedAhead'
  <2> SUFFICES ASSUME rd.op # "idle", NEW r \in rd.owed, r.item # Unusable, ~(Known[r.item] >= r.at)
               PROVE  ~rd.short /\ \E m \in DOMAIN hist' :
                        IsAhead(hist', m, rd.since, rd.start + rd.got) /\ hist'[m].at = r.at /\ hist'[m].item = r.item
    BY <1>2, <1>15 DEF OwedAhead
  <2>1. ~rd.short /\ \E j \in DOMAIN hist :
           IsAhead(hist, j, rd.since, rd.start + rd.got) /\ hist[j].at = r.at /\ hist[j].item = r.item
    BY <1>1 DEF OwedAhead
  <2>2. PICK j \in 1..Len(hist) :
           IsAhead(hist, j, rd.since, rd.start + rd.got) /\ hist[j].at = r.at /\ hist[j].item = r.item
    BY <1>4, <2>1
  <2>3. PICK m \in 1..Len(hist') : hist'[m] = hist[j] /\ IsAhead(hist', m, rd.since, rd.start + rd.got)
    BY <1>8, <1>12, <2>2
  <2> QED BY <1>6, <1>9, <2>1, <2>2, <2>3
<1>17. Awaited'
  <2> DEFINE s == Ahead.since
             o == Ahead.offset
  <2>1. s \in Nat /\ o \in Nat
    BY <1>1, PlacesAre
  <2>2. late = (at < s \/ k <= Under(hist, s) + o)
    BY BeforeIs DEF late
  <2>3. \A j \in 1..Len(hist) : hist[j].item # Unusable /\ ~hist[j].late /\ ~(Known[hist[j].item] >= hist[j].at)
                                 => IsAhead(hist, j, s, o)
    BY <1>1, <1>4 DEF Awaited
  <2>4. ASSUME \A m \in 1..(Len(hist) + 1) :
                  hist'[m].item # Unusable /\ ~hist'[m].late /\ ~(Known[hist'[m].item] >= hist'[m].at)
                  => IsAhead(hist', m, s, o)
        PROVE  Awaited'
    BY <1>9, <1>15, <2>4 DEF Awaited
  <2> HIDE DEF s, o
  <2> SUFFICES ASSUME NEW m \in 1..(Len(hist) + 1), hist'[m].item # Unusable, ~hist'[m].late,
                      ~(Known[hist'[m].item] >= hist'[m].at)
               PROVE  IsAhead(hist', m, s, o)
    BY <2>4
  <2>5. ASSUME NEW j \in 1..Len(hist), hist'[m] = hist[j], m = IF j < k THEN j ELSE j + 1
        PROVE  IsAhead(hist', m, s, o)
    <3>1. IsAhead(hist, j, s, o)
      BY <2>3, <2>5
    <3> QED BY <1>8, <2>1, <2>5, <3>1
  <2>6. CASE m < k
    <3>1. m \in 1..Len(hist) /\ hist'[m] = hist[m]
      BY <1>4, <1>6, <2>6
    <3> QED BY <2>5, <2>6, <3>1
  <2>7. CASE m = k
    <3>1. ~(at < s \/ k <= Under(hist, s) + o)
      BY <1>3, <1>6, <2>2, <2>7
    <3>2. Under(hist', s) = Under(hist, s) /\ Under(hist, s) \in 0..Len(hist)
      BY <1>1, <1>3, <1>7, <2>1, <3>1, ResumeFits
    <3> QED BY <1>4, <1>6, <2>1, <2>7, <3>1, <3>2 DEF IsAhead
  <2>8. CASE m > k
    <3>1. m - 1 \in 1..Len(hist) /\ ~(m - 1 < k) /\ m = m - 1 + 1 /\ ~(m < k) /\ m # k
      BY <1>4, <1>6, <2>8
    <3>2. hist'[m] = hist[m - 1]
      BY <1>6, <3>1
    <3> QED BY <2>5, <3>1, <3>2
  <2> QED BY <1>4, <1>6, <2>6, <2>7, <2>8
<1> QED BY <1>11, <1>13, <1>14, <1>16, <1>17 DEF ReadsInv
-----------------------------------------------------------------------------
\* A read begins with all it owes ahead of it, in a history whose rows may have
\* lost their marks.
LEMMA BegunIs ==
    ASSUME HistInv, HistInv', DOMAIN hist' = DOMAIN hist,
           \A k \in DOMAIN hist : hist'[k].at = hist[k].at /\ hist'[k].item = hist[k].item,
           NEW op \in {"boot", "inc", "catchup"}, NEW since \in Times, NEW start \in 0..MaxRows,
           Under(hist, since) + start <= Len(hist), Begin(op, since, start)
    PROVE  /\ rd' \in Reads
           /\ rd'.op = op /\ rd'.since = since /\ rd'.start = start /\ rd'.got = 0 /\ rd'.short = FALSE
           /\ rd'.map = NoPlays
           /\ \A s : Under(hist', s) = Under(hist, s)
           /\ Under(hist', rd'.since) + (rd'.start + rd'.got) <= Len(hist')
           /\ rd'.got \in 0..(Pages * PageSize)' /\ \E m \in 0..Pages' : rd'.got = m * PageSize
           /\ OwedAhead'
<1> DEFINE owed == {hist[k] : k \in RowsBefore(since) + start + 1 .. Len(hist)}
<1>0. hist \in Seq(Rows) /\ Len(hist) \in Nat /\ DOMAIN hist = 1..Len(hist) /\ hist' \in Seq(Rows)
  BY HistoryIs DEF HistInv
<1>1. Len(hist') = Len(hist)
  <2>1. Len(hist') \in Nat /\ DOMAIN hist' = 1..Len(hist')
    BY <1>0, HistoryIs
  <2> QED BY <1>0, <2>1
<1>2. \A s : Under(hist', s) = Under(hist, s)
  <2> SUFFICES ASSUME NEW s PROVE {k \in DOMAIN hist' : hist'[k].at < s} = {k \in DOMAIN hist : hist[k].at < s}
    BY DEF Under
  <2> QED OBVIOUS
<1>3. start \in Nat /\ since \in Nat
  BY InNat
<1>4. Under(hist, since) \in 0..Len(hist) /\ RowsBefore(since) = Under(hist, since)
  BY <1>3, UnderSplits, BeforeIs DEF HistInv
<1>5. owed \in SUBSET Rows
  BY <1>0, <1>3, <1>4
<1>6. rd' = [NoRead EXCEPT !.op = op, !.since = since, !.start = start, !.owed = owed]
  BY DEF Begin
<1> HIDE DEF owed
<1>7. NoRead \in Reads
  BY Numbers DEF NoRead, NoPlays, Reads, Times
<1>8. /\ rd' \in Reads
      /\ rd'.op = op /\ rd'.since = since /\ rd'.start = start /\ rd'.owed = owed
  BY <1>5, <1>6, <1>7 DEF Reads
<1>9. rd'.got = 0 /\ rd'.short = FALSE /\ rd'.map = NoPlays
  BY <1>6 DEF NoRead
<1>10. Under(hist', rd'.since) + (rd'.start + rd'.got) <= Len(hist')
  BY <1>1, <1>2, <1>3, <1>4, <1>8, <1>9
<1>11. rd'.got \in 0..(Pages * PageSize)' /\ \E m \in 0..Pages' : rd'.got = m * PageSize
  <2>1. Pages' \in Nat
    BY Numbers DEF Pages
  <2>2. Pages' * PageSize \in Nat /\ 0 * PageSize = 0 /\ 0 \in 0..Pages'
    BY <2>1, Numbers, PageFits
  <2> QED BY <1>9, <2>2
<1>12. OwedAhead'
  <2> SUFFICES ASSUME NEW r \in owed
               PROVE  \E k \in DOMAIN hist' :
                        IsAhead(hist', k, since, start + 0) /\ hist'[k].at = r.at /\ hist'[k].item = r.item
    BY <1>8, <1>9 DEF OwedAhead
  <2>1. PICK k \in RowsBefore(since) + start + 1 .. Len(hist) : r = hist[k]
    BY DEF owed
  <2>2. k \in 1..Len(hist) /\ k > Under(hist', since) + (start + 0)
    BY <1>0, <1>2, <1>3, <1>4, <2>1
  <2> QED BY <1>0, <2>1, <2>2 DEF IsAhead
<1> QED BY <1>2, <1>8, <1>9, <1>10, <1>11, <1>12

\* A full read begins; the marks of late plays go, since it reads everything.
LEMMA BeginBootStep ==
    ASSUME ReadsInv, BeginBoot
    PROVE  ReadsInv'
<1>1. HistInv /\ StoreInv /\ ReadInv
  BY DEF ReadsInv
<1>2. /\ status # "complete" /\ Begin("boot", 0, 0) /\ UNCHANGED <<watched, status, cursor, drain>>
      /\ hist' = [k \in DOMAIN hist |-> [hist[k] EXCEPT !.late = FALSE]]
  BY DEF BeginBoot, Begin, store
<1>3. hist \in Seq(Rows) /\ Len(hist) \in Nat /\ DOMAIN hist = 1..Len(hist) /\ \A k \in 1..Len(hist) : hist[k] \in Rows
  BY <1>1, HistoryIs DEF HistInv
<1>4. DOMAIN hist' = DOMAIN hist
  BY <1>2
<1>5. \A k \in DOMAIN hist : hist'[k] \in Rows /\ hist'[k].at = hist[k].at /\ hist'[k].item = hist[k].item
  BY <1>2, <1>3 DEF Rows
<1>6. hist' \in Seq(Rows) /\ Len(hist') = Len(hist)
  BY <1>2, <1>3, <1>5
<1>7. HistInv'
  BY <1>1, <1>4, <1>5, <1>6 DEF HistInv, Ordered
<1>8. Under(hist, 0) + 0 <= Len(hist) /\ 0 \in Times /\ 0 \in 0..MaxRows
  BY <1>3, NoneUnderZero, Numbers DEF Times
<1>9. /\ rd' \in Reads
      /\ rd'.op = "boot" /\ rd'.since = 0 /\ rd'.start = 0 /\ rd'.got = 0 /\ rd'.short = FALSE
      /\ \A s : Under(hist', s) = Under(hist, s)
      /\ Under(hist', rd'.since) + (rd'.start + rd'.got) <= Len(hist')
      /\ rd'.got \in 0..(Pages * PageSize)' /\ \E m \in 0..Pages' : rd'.got = m * PageSize
      /\ OwedAhead'
  BY <1>1, <1>2, <1>4, <1>5, <1>7, <1>8, BegunIs
<1>10. StoreInv'
  BY <1>1, <1>2, <1>6, <1>9 DEF StoreInv
<1>11. ReadInv'
  BY <1>2, <1>9 DEF ReadInv
<1>12. Awaited'
  <2>1. Ahead'.since = 0 /\ Ahead'.offset = 0
    BY <1>9 DEF Ahead
  <2>2. Under(hist', 0) = 0
    BY <1>6, NoneUnderZero
  <2>3. \A k \in DOMAIN hist' : IsAhead(hist', k, 0, 0)
    BY <1>3, <1>4, <2>2 DEF IsAhead
  <2> QED BY <2>1, <2>3 DEF Awaited
<1> QED BY <1>7, <1>9, <1>10, <1>11, <1>12 DEF ReadsInv

\* Between two reads, and in a catch-up, the reads go on where the next
\* increment begins.
LEMMA AheadOfIncrement ==
    /\ rd.op \in {"idle", "catchup"} /\ status = "complete" => Ahead = Resume
    /\ rd.op \in {"boot", "inc"} /\ ~rd.short =>
         Ahead.since = rd.since /\ Ahead.offset = rd.start + rd.got
BY DEF Ahead

\* An increment begins where the reads are to go on, a catch-up anywhere.
LEMMA BeginOtherStep ==
    ASSUME ReadsInv,
           NEW op \in {"inc", "catchup"}, NEW since \in Times, NEW start \in 0..MaxRows,
           status = "complete", Begin(op, since, start), hist' = hist,
           op = "inc" => since = Resume.since /\ start = Resume.offset,
           op = "catchup" => start = 0
    PROVE  ReadsInv'
<1>1. HistInv /\ StoreInv /\ ReadInv /\ Awaited
  BY DEF ReadsInv
<1>2. rd.op = "idle" /\ UNCHANGED <<watched, status, cursor, drain, hist>>
  BY DEF Begin, store
<1>3. HistInv'
  BY <1>1, <1>2 DEF HistInv
<1>4. Under(hist, since) + start <= Len(hist)
  <2>1. CASE op = "inc"
    BY <1>1, <2>1, ResumeFits
  <2>2. CASE op = "catchup"
    <3>1. Under(hist, since) \in 0..Len(hist) /\ Len(hist) \in Nat
      BY <1>1, InNat, ResumeFits, HistoryIs DEF HistInv
    <3> QED BY <2>2, <3>1
  <2> QED BY <2>1, <2>2
<1>5. /\ rd' \in Reads
      /\ rd'.op = op /\ rd'.since = since /\ rd'.start = start /\ rd'.got = 0 /\ rd'.short = FALSE
      /\ Under(hist', rd'.since) + (rd'.start + rd'.got) <= Len(hist')
      /\ rd'.got \in 0..(Pages * PageSize)' /\ \E m \in 0..Pages' : rd'.got = m * PageSize
      /\ OwedAhead'
  BY <1>1, <1>2, <1>3, <1>4, BegunIs
<1>6. StoreInv'
  BY <1>1, <1>2 DEF StoreInv
<1>7. Resume' = Resume
  BY <1>2 DEF Resume
<1>8. ReadInv'
  BY <1>2, <1>5, <1>7 DEF ReadInv
<1>9. Known' = Known
  BY <1>2, <1>5 DEF Known
<1>10. Ahead = Resume
  BY <1>2 DEF Ahead
<1>11. Ahead'.since = Ahead.since /\ Ahead'.offset = Ahead.offset
  <2>1. CASE op = "inc"
    <3>1. Ahead'.since = rd'.since /\ Ahead'.offset = rd'.start + rd'.got
      BY <1>5, <2>1 DEF Ahead
    <3>2. Resume.offset \in Nat
      BY <1>1, PlacesAre
    <3> QED BY <1>5, <1>10, <2>1, <3>1, <3>2
  <2>2. CASE op = "catchup"
    BY <1>2, <1>5, <1>7, <1>10, <2>2 DEF Ahead
  <2> QED BY <2>1, <2>2
<1>12. Awaited'
  BY <1>1, <1>2, <1>9, <1>11 DEF Awaited
<1> QED BY <1>3, <1>5, <1>6, <1>8, <1>12 DEF ReadsInv
-----------------------------------------------------------------------------
\* The read under way, with its place in terms of the history.
LEMMA ReadingIs ==
    ASSUME HistInv, StoreInv, ReadInv
    PROVE  /\ Position = Under(hist, rd.since) + (rd.start + rd.got)
           /\ Position \in 0..Len(hist) /\ Len(hist) \in Nat /\ DOMAIN hist = 1..Len(hist)
           /\ rd.since \in Nat /\ rd.start \in Nat /\ rd.got \in Nat /\ Position \in Nat
           /\ \A k : IsAhead(hist, k, rd.since, rd.start + rd.got) <=> k > Position
<1>1. rd \in Reads /\ Under(hist, rd.since) + (rd.start + rd.got) <= Len(hist)
  BY DEF ReadInv
<1>2. rd.since \in Times /\ rd.start \in 0..MaxRows /\ rd.got \in Nat
  BY <1>1 DEF Reads
<1>3. rd.since \in Nat /\ rd.start \in Nat /\ rd.got \in Nat
  BY <1>2, InNat
<1>4. Len(hist) \in Nat /\ DOMAIN hist = 1..Len(hist)
  BY HistoryIs DEF HistInv
<1>5. Under(hist, rd.since) \in 0..Len(hist)
  BY <1>3, ResumeFits
<1>6. Position = Under(hist, rd.since) + (rd.start + rd.got)
  BY <1>3, <1>4, <1>5, BeforeIs DEF Position
<1> QED BY <1>1, <1>3, <1>4, <1>5, <1>6 DEF IsAhead

\* What is left of a history of L rows after P of them, up to a page of Z.
LEMMA PageRoom ==
    ASSUME NEW L \in Nat, NEW P \in 0..L, NEW Z \in Nat
    PROVE  LET n == IF L - P < Z THEN L - P ELSE Z
           IN  /\ n \in Nat /\ n <= Z /\ P + n <= L
               /\ n < Z => P + n = L
               /\ \A k \in 1..L : ~(k <= P) /\ ~(k > P + n) => P < k /\ k <= P + Z
OBVIOUS

\* A page: how far the read gets, and that each row it passes is in the page.
LEMMA PageIs ==
    ASSUME HistInv, StoreInv, ReadInv, ReadPage
    PROVE  \E n \in Nat :
           /\ n <= PageSize /\ Position + n <= Len(hist)
           /\ n < PageSize => Position + n = Len(hist)
           /\ rd' = [rd EXCEPT !.got = @ + n, !.short = n < PageSize,
                               !.newest = Newest({@} \cup {r.at : r \in Page}),
                               !.map = IF rd.op = "boot" THEN Folded(@, Page) ELSE @]
           /\ Page \in SUBSET Rows
           /\ \A k \in 1..Len(hist) : k <= Position \/ k > Position + n \/ hist[k] \in Page
<1> DEFINE n == IF Len(hist) - Position < PageSize THEN Len(hist) - Position ELSE PageSize
<1>1. Position \in 0..Len(hist) /\ Len(hist) \in Nat /\ DOMAIN hist = 1..Len(hist)
  BY ReadingIs
<1>2. PageSize \in Nat
  BY Numbers
<1>3. /\ n \in Nat /\ n <= PageSize /\ Position + n <= Len(hist)
      /\ n < PageSize => Position + n = Len(hist)
      /\ \A k \in 1..Len(hist) : ~(k <= Position) /\ ~(k > Position + n) => Position < k /\ k <= Position + PageSize
  BY <1>1, <1>2, PageRoom
<1>4. rd' = [rd EXCEPT !.got = @ + n, !.short = n < PageSize,
                       !.newest = Newest({@} \cup {r.at : r \in Page}),
                       !.map = IF rd.op = "boot" THEN Folded(@, Page) ELSE @]
  BY DEF ReadPage
<1>5. Page \in SUBSET Rows
  BY <1>1, HistoryIs DEF Page, HistInv
<1>6. ASSUME NEW k \in 1..Len(hist), ~(k <= Position), ~(k > Position + n)
      PROVE  hist[k] \in Page
  <2>1. k \in DOMAIN hist /\ Position < k /\ k <= Position + PageSize
    BY <1>1, <1>3, <1>6
  <2> QED BY <2>1 DEF Page
<1> HIDE DEF n
<1> QED BY <1>3, <1>4, <1>5, <1>6

\* The map a read folds into only grows, and takes the page's plays.
LEMMA PageFolds ==
    ASSUME StoreInv, ReadInv, ReadPage, Page \in SUBSET Rows, rd'.op = rd.op,
           rd'.map = IF rd.op = "boot" THEN Folded(rd.map, Page) ELSE rd.map
    PROVE  /\ rd'.map \in [Items -> Times] /\ watched' \in [Items -> Times]
           /\ \A i \in Items : Known[i] <= Known'[i] /\ Known[i] \in Nat /\ Known'[i] \in Nat
           /\ \A r \in Page : r.item # Unusable => r.item \in Items /\ r.at \in Nat /\ r.at <= Known'[r.item]
<1>1. rd.map \in [Items -> Times] /\ watched \in [Items -> Times]
  BY DEF ReadInv, StoreInv, Reads
<1>2. watched' = IF rd.op = "boot" THEN watched ELSE Folded(watched, Page)
  BY DEF ReadPage
<1>3. rd'.map \in [Items -> Times] /\ watched' \in [Items -> Times]
  BY <1>1, <1>2, FoldedIs
<1>4. Known \in [Items -> Times] /\ Known' = Folded(Known, Page)
  BY <1>1, <1>2 DEF Known
<1>5. Folded(Known, Page) \in [Items -> Times]
  BY <1>4, FoldedIs
<1>6. \A i \in Items : Known[i] <= Known'[i]
  BY <1>4, FoldedIs
<1>7. \A r \in Page : r.item # Unusable => r.item \in Items /\ r.at <= Known'[r.item]
  BY <1>4, FoldedIs
<1>8. \A i \in Items : Known[i] \in Nat /\ Known'[i] \in Nat
  BY <1>4, <1>5, InNat
<1>9. \A r \in Page : r.at \in Nat
  BY RowIs
<1> QED BY <1>3, <1>6, <1>7, <1>8, <1>9

\* A page read folds its rows and moves the position on.
LEMMA ReadPageStep ==
    ASSUME ReadsInv, ReadPage
    PROVE  ReadsInv'
<1>1. HistInv /\ StoreInv /\ ReadInv /\ OwedAhead /\ Awaited
  BY DEF ReadsInv
<1>2. /\ UNCHANGED <<hist, status, cursor, drain>> /\ rd.op # "idle" /\ ~rd.short
      /\ rd.got # Pages * PageSize
  BY DEF ReadPage, More, Capped
<1>3. PICK n \in Nat :
        /\ n <= PageSize /\ Position + n <= Len(hist)
        /\ n < PageSize => Position + n = Len(hist)
        /\ rd' = [rd EXCEPT !.got = @ + n, !.short = n < PageSize,
                            !.newest = Newest({@} \cup {r.at : r \in Page}),
                            !.map = IF rd.op = "boot" THEN Folded(@, Page) ELSE @]
        /\ Page \in SUBSET Rows
        /\ \A k \in 1..Len(hist) : k <= Position \/ k > Position + n \/ hist[k] \in Page
  BY <1>1, PageIs
<1>4. rd \in Reads
  BY <1>1 DEF ReadInv
<1>5. /\ rd'.op = rd.op /\ rd'.since = rd.since /\ rd'.start = rd.start /\ rd'.owed = rd.owed
      /\ rd'.got = rd.got + n /\ rd'.short = (n < PageSize)
      /\ rd'.map = IF rd.op = "boot" THEN Folded(rd.map, Page) ELSE rd.map
      /\ rd'.newest = Newest({rd.newest} \cup {r.at : r \in Page})
  BY <1>3, <1>4 DEF Reads
<1>6. /\ rd'.map \in [Items -> Times] /\ watched' \in [Items -> Times]
      /\ \A i \in Items : Known[i] <= Known'[i] /\ Known[i] \in Nat /\ Known'[i] \in Nat
      /\ \A r \in Page : r.item # Unusable => r.item \in Items /\ r.at \in Nat /\ r.at <= Known'[r.item]
  BY <1>1, <1>3, <1>5, PageFolds
<1>7. rd'.newest \in Times
  <2>1. {rd.newest} \cup {r.at : r \in Page} \in SUBSET Times
    BY <1>3, <1>4, RowIs DEF Reads
  <2> QED BY <1>5, <2>1, NewestIs
<1>8. /\ Position = Under(hist, rd.since) + (rd.start + rd.got)
      /\ Position \in 0..Len(hist) /\ Len(hist) \in Nat /\ DOMAIN hist = 1..Len(hist)
      /\ rd.since \in Nat /\ rd.start \in Nat /\ rd.got \in Nat /\ Position \in Nat
      /\ \A k : IsAhead(hist, k, rd.since, rd.start + rd.got) <=> k > Position
  BY <1>1, ReadingIs
<1>9. rd.got + n \in Nat
  BY <1>8
<1>10. rd' \in Reads
  <2>1. (n < PageSize) \in BOOLEAN
    OBVIOUS
  <2>2. rd' = [op |-> rd'.op, since |-> rd'.since, start |-> rd'.start, got |-> rd'.got, newest |-> rd'.newest,
               short |-> rd'.short, map |-> rd'.map, owed |-> rd'.owed, failed |-> rd'.failed] /\ rd'.failed = rd.failed
    BY <1>3, <1>4 DEF Reads
  <2> QED BY <1>4, <1>5, <1>6, <1>7, <1>9, <2>1, <2>2 DEF Reads
<1>11. Under(hist, rd.since) \in 0..Len(hist)
  BY <1>1, <1>8, ResumeFits
<1>12. Under(hist, rd.since) + (rd.start + (rd.got + n)) = Position + n
  BY <1>8, <1>11
<1>13. \A k \in 1..Len(hist) : IsAhead(hist, k, rd.since, rd.start + (rd.got + n)) <=> k > Position + n
  BY <1>12 DEF IsAhead
<1>14. HistInv'
  BY <1>1, <1>2 DEF HistInv
<1>15. rd.op = "boot" => watched' = watched
  BY DEF ReadPage
<1>16. StoreInv'
  <2>1. status # "complete" => rd.op = "boot"
    BY <1>1, <1>2, <1>4 DEF ReadInv, Reads
  <2> QED BY <1>1, <1>2, <1>6, <1>15, <2>1 DEF StoreInv
<1>17. ReadInv'
  <2>1. Pages' = Pages /\ Resume' = Resume
    BY <1>2, <1>5 DEF Pages, Resume
  <2>2. PICK m \in 0..Pages : rd.got = m * PageSize
    BY <1>1, <1>2 DEF ReadInv
  <2>3. Pages \in Nat /\ PageSize \in Nat \ {0}
    BY Numbers DEF Pages
  <2>4. m \in Nat /\ m <= Pages
    BY <2>3
  <2>5. /\ m * PageSize \in Nat /\ Pages * PageSize \in Nat /\ (m + 1) * PageSize = m * PageSize + PageSize
        /\ m + 1 <= Pages /\ m * PageSize + PageSize <= Pages * PageSize
    BY <1>2, <2>2, <2>3, <2>4, PageFits
  <2>6. rd'.got \in 0..Pages * PageSize
    BY <1>3, <1>5, <2>2, <2>3, <2>5, SMTT(30)
  <2>7. ASSUME ~rd'.short PROVE m + 1 \in 0..Pages /\ rd'.got = (m + 1) * PageSize
    <3>0. ~(n < PageSize)
      BY <1>5, <2>7, Zenon
    <3>1. n = PageSize
      BY <1>3, <2>3, <3>0
    <3> QED BY <1>5, <2>2, <2>3, <2>4, <2>5, <3>1
  <2>8. Under(hist', rd'.since) + (rd'.start + rd'.got) <= Len(hist')
    BY <1>2, <1>3, <1>5, <1>12
  <2> QED BY <1>1, <1>2, <1>5, <1>10, <2>1, <2>6, <2>7, <2>8 DEF ReadInv
<1>18. ASSUME NEW k \in 1..Len(hist), hist[k].item # Unusable, ~(Known'[hist[k].item] >= hist[k].at)
       PROVE  hist[k].item \in Items /\ (k <= Position \/ (~rd'.short /\ k > Position + n))
  <2>1. hist[k] \in Rows
    BY <1>1, HistoryIs DEF HistInv
  <2>2. hist[k].item \in Items
    BY <1>18, <2>1 DEF Rows
  <2>3. hist[k] \notin Page
    BY <1>6, <1>18
  <2>4. k <= Position \/ k > Position + n
    BY <1>3, <2>3
  <2>5. k > Position + n => ~(n < PageSize)
    BY <1>3, <1>8
  <2> QED BY <1>5, <2>2, <2>4, <2>5
<1>19. OwedAhead'
  <2> SUFFICES ASSUME NEW r \in rd.owed, r.item # Unusable, ~(Known'[r.item] >= r.at)
               PROVE  ~rd'.short /\ \E k \in DOMAIN hist :
                         /\ IsAhead(hist, k, rd.since, rd.start + (rd.got + n))
                         /\ hist[k].at = r.at /\ hist[k].item = r.item
    BY <1>2, <1>5 DEF OwedAhead
  <2>1. r \in Rows
    BY <1>4 DEF Reads
  <2>2. r.item \in Items /\ r.at \in Nat
    BY <2>1, RowIs DEF Rows
  <2>3. ~(Known[r.item] >= r.at)
    <3>1. Known[r.item] <= Known'[r.item] /\ Known[r.item] \in Nat /\ Known'[r.item] \in Nat
      BY <1>6, <2>2
    <3> QED BY <2>2, <3>1
  <2>4. PICK k \in DOMAIN hist :
           IsAhead(hist, k, rd.since, rd.start + rd.got) /\ hist[k].at = r.at /\ hist[k].item = r.item
    BY <1>1, <1>2, <2>3 DEF OwedAhead
  <2>5. k > Position /\ k \in 1..Len(hist)
    BY <1>8, <2>4
  <2>6. ~rd'.short /\ k > Position + n
    BY <1>8, <1>18, <2>4, <2>5
  <2> QED BY <1>13, <2>4, <2>5, <2>6
<1>20. Awaited'
  <2> SUFFICES ASSUME NEW k \in DOMAIN hist, hist[k].item # Unusable, ~hist[k].late,
                      ~(Known'[hist[k].item] >= hist[k].at)
               PROVE  IsAhead(hist, k, Ahead'.since, Ahead'.offset)
    BY <1>2 DEF Awaited
  <2>1. k \in 1..Len(hist) /\ hist[k].item \in Items /\ hist[k].at \in Nat
    BY <1>1, <1>8, <1>18, HistoryIs DEF HistInv
  <2>2. ~(Known[hist[k].item] >= hist[k].at)
    <3>1. Known[hist[k].item] <= Known'[hist[k].item] /\ Known[hist[k].item] \in Nat /\ Known'[hist[k].item] \in Nat
      BY <1>6, <2>1
    <3> QED BY <2>1, <3>1
  <2>3. IsAhead(hist, k, Ahead.since, Ahead.offset)
    BY <1>1, <2>2 DEF Awaited
  <2>4. CASE rd.op \in {"boot", "inc"}
    <3>1. k > Position
      BY <1>2, <1>8, <2>3, <2>4, AheadOfIncrement
    <3>2. ~rd'.short /\ k > Position + n
      BY <1>8, <1>18, <2>1, <3>1
    <3>3. Ahead'.since = rd.since /\ Ahead'.offset = rd.start + (rd.got + n)
      BY <1>5, <2>4, <3>2 DEF Ahead
    <3> QED BY <1>13, <2>1, <3>2, <3>3
  <2>5. CASE rd.op = "catchup"
    <3>1. Ahead' = Ahead
      BY <1>2, <1>5, <2>5 DEF Ahead, Resume
    <3> QED BY <2>3, <3>1
  <2> QED BY <1>2, <1>4, <2>4, <2>5 DEF Reads
<1> QED BY <1>14, <1>16, <1>17, <1>19, <1>20 DEF ReadsInv
-----------------------------------------------------------------------------
\* After a read nothing is under way and nothing is owed.
LEMMA StoppedIs ==
    ASSUME HistInv, hist' = hist, rd' \in {NoRead, [NoRead EXCEPT !.failed = TRUE]}
    PROVE  HistInv' /\ ReadInv' /\ OwedAhead' /\ rd'.op = "idle" /\ Known' = watched'
<1>1. NoRead \in Reads
  BY Numbers DEF NoRead, NoPlays, Reads, Times
<1>2. rd' \in Reads
  BY <1>1 DEF Reads
<1>3. /\ rd'.op = "idle" /\ rd'.since = 0 /\ rd'.start = 0 /\ rd'.got = 0 /\ rd'.short = FALSE
      /\ rd'.owed = {}
  BY DEF NoRead
<1>4. hist' \in Seq(Rows) /\ Len(hist') \in Nat
  BY HistoryIs DEF HistInv
<1>5. Under(hist', 0) = 0
  BY <1>4, NoneUnderZero
<1>6. Pages' \in Nat
  BY Numbers DEF Pages
<1>7. Pages' * PageSize \in Nat /\ 0 * PageSize = 0 /\ 0 \in 0..Pages'
  BY <1>6, Numbers, PageFits
<1>8. rd'.got \in 0..Pages' * PageSize /\ \E m \in 0..Pages' : rd'.got = m * PageSize
  BY <1>3, <1>7
<1>9. Under(hist', rd'.since) + (rd'.start + rd'.got) <= Len(hist')
  BY <1>3, <1>4, <1>5
<1>10. ReadInv'
  BY <1>2, <1>3, <1>8, <1>9 DEF ReadInv
<1>11. HistInv'
  BY DEF HistInv
<1> QED BY <1>3, <1>10, <1>11 DEF OwedAhead, Known

\* A full read that did not get everything leaves an empty store, and the next
\* one begins at the first row.
LEMMA DiscardStep ==
    ASSUME HistInv, hist' = hist, rd' \in {NoRead, [NoRead EXCEPT !.failed = TRUE]},
           NEW st \in {"over_limit", "failed"}, Discard(st)
    PROVE  ReadsInv'
<1>1. HistInv' /\ ReadInv' /\ OwedAhead' /\ rd'.op = "idle"
  BY StoppedIs
<1>2. hist' \in Seq(Rows) /\ Len(hist') \in Nat /\ DOMAIN hist' = 1..Len(hist')
  BY <1>1, HistoryIs DEF HistInv
<1>3. Under(hist', 0) = 0
  BY <1>2, NoneUnderZero
<1>4. NoPlays \in [Items -> Times] /\ 0 \in Times /\ 0 \in 0..MaxRows
  BY Numbers DEF NoPlays, Times
<1>5. NoDrain \in Places /\ NoDrain.since = 0 /\ NoDrain.offset = 0
  BY <1>4 DEF NoDrain, Places
<1>6. status' = st /\ watched' = NoPlays /\ drain' = NoDrain /\ cursor' = 0
  BY DEF Discard
<1>7. Under(hist', drain'.since) + drain'.offset <= Len(hist')
  BY <1>2, <1>3, <1>5, <1>6
<1>8. StoreInv'
  BY <1>4, <1>5, <1>6, <1>7 DEF StoreInv
<1>9. Ahead'.since = 0 /\ Ahead'.offset = 0
  BY <1>1, <1>5, <1>6 DEF Ahead
<1>10. \A k \in DOMAIN hist' : IsAhead(hist', k, 0, 0)
  BY <1>2, <1>3 DEF IsAhead
<1> QED BY <1>1, <1>8, <1>9, <1>10 DEF ReadsInv, Awaited

\* A read that stops and leaves the map of its rows: enough that the next
\* increment begins no further than where the reads were.
LEMMA StopStep ==
    ASSUME ReadsInv, hist' = hist, rd' \in {NoRead, [NoRead EXCEPT !.failed = TRUE]},
           StoreInv', status' = "complete", watched' = Known,
           \A k \in DOMAIN hist :
              hist[k].item # Unusable /\ ~hist[k].late /\ ~(Known[hist[k].item] >= hist[k].at)
              => IsAhead(hist, k, Resume'.since, Resume'.offset)
    PROVE  ReadsInv'
<1>1. HistInv' /\ ReadInv' /\ OwedAhead' /\ rd'.op = "idle" /\ Known' = watched'
  BY StoppedIs DEF ReadsInv
<1>2. Ahead' = Resume'
  BY <1>1 DEF Ahead
<1>3. Awaited'
  BY <1>1, <1>2 DEF Awaited
<1> QED BY <1>1, <1>3 DEF ReadsInv

\* A cap: a full read is discarded, an increment leaves a drain at its place.
LEMMA OverLimitStep ==
    ASSUME ReadsInv, OverLimit
    PROVE  ReadsInv'
<1>1. HistInv /\ StoreInv /\ ReadInv /\ Awaited
  BY DEF ReadsInv
<1>2. /\ hist' = hist /\ rd' = NoRead /\ rd.op # "idle" /\ ~rd.short /\ rd.got = Pages * PageSize
      /\ Position < Len(hist)
  BY DEF OverLimit, More, Capped
<1>3. rd \in Reads
  BY <1>1 DEF ReadInv
<1>4. CASE rd.op = "boot"
  BY <1>1, <1>2, <1>3, <1>4, DiscardStep DEF OverLimit
<1>5. CASE rd.op = "inc"
  <2>1. /\ status = "complete" /\ status' = status /\ watched' = watched
        /\ cursor' = LaterOf(cursor, rd.newest) /\ drain' = DrainOn
    BY <1>1, <1>5 DEF OverLimit, IncrementCapped, ReadInv
  <2>2. /\ Position = Under(hist, rd.since) + (rd.start + rd.got)
        /\ rd.since \in Nat /\ rd.start \in Nat /\ rd.got \in Nat /\ Len(hist) \in Nat
    BY <1>1, ReadingIs
  <2>3. Under(hist, rd.since) \in 0..Len(hist) /\ Len(hist) <= MaxRows /\ MaxRows \in Nat
    BY <1>1, <2>2, ResumeFits, Numbers DEF HistInv
  <2>4. rd.start + rd.got \in 0..MaxRows
    BY <1>2, <2>2, <2>3
  <2>5. rd.got > 0
    <3>1. Pages = MaxIncrementalPages /\ MaxIncrementalPages \in Nat \ {0} /\ PageSize \in Nat \ {0}
      BY <1>5, Numbers DEF Pages
    <3>2. MaxIncrementalPages * PageSize > 0
      <4>1. /\ (MaxIncrementalPages - 1) \in Nat /\ (MaxIncrementalPages - 1) * PageSize >= 0
        BY <3>1
      <4>2. (MaxIncrementalPages - 1) * PageSize = MaxIncrementalPages * PageSize - PageSize
        BY <3>1
      <4>3. MaxIncrementalPages * PageSize \in Nat
        BY <3>1
      <4> QED BY <3>1, <4>1, <4>2, <4>3
    <3> QED BY <1>2, <3>1, <3>2
  <2>6. drain' \in Places /\ drain'.since = rd.since /\ drain'.offset = rd.start + rd.got
    BY <1>3, <2>1, <2>4 DEF DrainOn, Places, Reads
  <2>7. cursor' \in Times
    BY <1>1, <1>3, <2>1 DEF LaterOf, StoreInv, Reads
  <2>8. Under(hist', drain'.since) + drain'.offset <= Len(hist')
    BY <1>2, <2>2, <2>6
  <2>9. StoreInv'
    BY <1>1, <2>1, <2>6, <2>7, <2>8 DEF StoreInv
  <2>10. drain'.offset > 0
    BY <2>2, <2>5, <2>6
  <2>11. Resume'.since = rd.since /\ Resume'.offset = rd.start + rd.got
    BY <2>6, <2>10 DEF Resume
  <2>12. Ahead.since = rd.since /\ Ahead.offset = rd.start + rd.got
    BY <1>2, <1>5, AheadOfIncrement
  <2>13. watched' = Known /\ status' = "complete"
    BY <1>5, <2>1 DEF Known
  <2> QED BY <1>1, <1>2, <1>3, <2>9, <2>11, <2>12, <2>13, StopStep DEF Awaited
<1>6. CASE rd.op = "catchup"
  <2>1. UNCHANGED <<watched, status, cursor, drain, hist>> /\ status = "complete"
    BY <1>1, <1>2, <1>6 DEF OverLimit, store, ReadInv
  <2>2. StoreInv'
    BY <1>1, <2>1 DEF StoreInv
  <2>3. Resume' = Ahead
    BY <1>6, <2>1 DEF Resume, Ahead
  <2>4. watched' = Known
    BY <1>6, <2>1 DEF Known
  <2> QED BY <1>1, <1>2, <1>3, <2>1, <2>2, <2>3, <2>4, StopStep DEF Awaited
<1> QED BY <1>2, <1>3, <1>4, <1>5, <1>6 DEF Reads

\* The end of the history: nothing that was not late is missing, or a row came
\* after the short page and the cursor is behind it.
LEMMA ReadEndsStep ==
    ASSUME ReadsInv, ReadEnds
    PROVE  ReadsInv'
<1>1. HistInv /\ StoreInv /\ ReadInv /\ Awaited
  BY DEF ReadsInv
<1>2. hist' = hist /\ rd' = NoRead /\ rd.op # "idle" /\ ~More
  BY DEF ReadEnds
<1>3. rd \in Reads
  BY <1>1 DEF ReadInv
<1>4. /\ Position \in 0..Len(hist) /\ Len(hist) \in Nat /\ DOMAIN hist = 1..Len(hist)
      /\ \A k : IsAhead(hist, k, rd.since, rd.start + rd.got) <=> k > Position
      /\ \A s \in Nat : Under(hist, s) \in 0..Len(hist)
  BY <1>1, ReadingIs, ResumeFits
<1>5. 0 \in Times /\ 0 \in 0..MaxRows /\ NoDrain.since = 0 /\ NoDrain.offset = 0
  BY Numbers DEF Times, NoDrain
<1>6. NoDrain \in Places /\ Under(hist, NoDrain.since) + NoDrain.offset <= Len(hist)
  <2>1. Under(hist, 0) \in 0..Len(hist)
    BY <1>4
  <2>2. NoDrain \in Places
    BY <1>5 DEF NoDrain, Places
  <2> QED BY <1>4, <1>5, <2>1, <2>2
<1>7. CASE rd.op \in {"boot", "inc"}
  <2>1. /\ status' = "complete" /\ watched' = Known /\ drain' = NoDrain
        /\ cursor' = LaterOf(cursor, rd.newest)
    <3>1. CASE rd.op = "boot"
      <4>1. cursor = 0 /\ rd.newest \in Nat
        BY <1>1, <1>3, <3>1, InNat DEF StoreInv, ReadInv, Reads
      <4>2. LaterOf(cursor, rd.newest) = rd.newest
        BY <4>1 DEF LaterOf
      <4> QED BY <3>1, <4>2 DEF ReadEnds, Known
    <3>2. CASE rd.op = "inc"
      BY <1>1, <3>2 DEF ReadEnds, Known, ReadInv
    <3> QED BY <1>7, <3>1, <3>2
  <2>2. Known \in [Items -> Times]
    BY <1>1, <1>3 DEF Known, StoreInv, Reads
  <2>3. cursor' \in Times
    BY <1>1, <1>3, <2>1 DEF LaterOf, StoreInv, Reads
  <2>4. StoreInv'
    BY <1>2, <1>6, <2>1, <2>2, <2>3 DEF StoreInv
  <2>5. Resume' = [since |-> LaterOf(LaterOf(cursor, rd.newest) - Overlap, 0), offset |-> 0]
    BY <1>5, <2>1 DEF Resume
  <2>6. CASE rd.short
    <3>1. Resume' = Ahead
      BY <1>7, <2>5, <2>6 DEF Ahead
    <3> QED BY <1>1, <1>2, <1>3, <2>1, <2>4, <3>1, StopStep DEF Awaited
  <2>7. CASE ~rd.short
    <3>1. ~(Position < Len(hist))
      BY <1>2, <2>7 DEF More
    <3>2. \A k \in DOMAIN hist : ~(k > Position)
      BY <1>4, <3>1
    <3>3. Ahead.since = rd.since /\ Ahead.offset = rd.start + rd.got
      BY <1>7, <2>7, AheadOfIncrement
    <3>4. \A k \in DOMAIN hist : ~IsAhead(hist, k, Ahead.since, Ahead.offset)
      BY <1>4, <3>2, <3>3
    <3> QED BY <1>1, <1>2, <1>3, <2>1, <2>4, <3>4, StopStep DEF Awaited
  <2> QED BY <2>6, <2>7
<1>8. CASE rd.op = "catchup"
  <2>1. UNCHANGED <<watched, status, cursor, drain, hist>> /\ status = "complete"
    BY <1>1, <1>2, <1>8 DEF ReadEnds, store, ReadInv
  <2>2. StoreInv'
    BY <1>1, <2>1 DEF StoreInv
  <2>3. Resume' = Ahead
    BY <1>8, <2>1 DEF Resume, Ahead
  <2>4. watched' = Known
    BY <1>8, <2>1 DEF Known
  <2> QED BY <1>1, <1>2, <1>3, <2>1, <2>2, <2>3, <2>4, StopStep DEF Awaited
<1> QED BY <1>2, <1>3, <1>7, <1>8 DEF Reads

\* A failed increment begins again where it began, with what it has folded.
LEMMA ReadFailsStep ==
    ASSUME ReadsInv, NEW st \in {"failed", "over_limit"}, ReadFails(st)
    PROVE  ReadsInv'
<1>1. HistInv /\ StoreInv /\ ReadInv /\ Awaited
  BY DEF ReadsInv
<1>2. hist' = hist /\ rd' = [NoRead EXCEPT !.failed = TRUE] /\ rd.op # "idle" /\ ~rd.short
  BY DEF ReadFails
<1>3. rd \in Reads
  BY <1>1 DEF ReadInv
<1>4. CASE rd.op = "boot"
  BY <1>1, <1>2, <1>4, DiscardStep DEF ReadFails
<1>5. CASE rd.op \in {"inc", "catchup"}
  <2>1. UNCHANGED <<watched, status, cursor, drain, hist>> /\ status = "complete"
    BY <1>1, <1>2, <1>5 DEF ReadFails, store, ReadInv
  <2>2. StoreInv'
    BY <1>1, <2>1 DEF StoreInv
  <2>3. watched' = Known /\ Resume' = Resume
    BY <1>5, <2>1 DEF Known, Resume
  <2>4. ASSUME NEW k \in DOMAIN hist, IsAhead(hist, k, Ahead.since, Ahead.offset)
        PROVE  IsAhead(hist, k, Resume.since, Resume.offset)
    <3>1. CASE rd.op = "catchup"
      BY <2>1, <2>4, <3>1, AheadOfIncrement
    <3>2. CASE rd.op = "inc"
      <4>1. Ahead.since = Resume.since /\ Ahead.offset = Resume.offset + rd.got
        BY <1>1, <1>2, <3>2, AheadOfIncrement DEF ReadInv
      <4>2. Resume.since \in Nat /\ Resume.offset \in Nat /\ rd.got \in Nat /\ k \in Nat
        BY <1>1, PlacesAre, ReadingIs
      <4>3. Under(hist, Resume.since) \in 0..Len(hist) /\ Len(hist) \in Nat
        BY <1>1, <4>2, ResumeFits, ReadingIs
      <4> QED BY <2>4, <4>1, <4>2, <4>3 DEF IsAhead
    <3> QED BY <1>5, <3>1, <3>2
  <2> QED BY <1>1, <1>2, <2>1, <2>2, <2>3, <2>4, StopStep DEF Awaited
<1> QED BY <1>2, <1>3, <1>4, <1>5 DEF Reads
-----------------------------------------------------------------------------
\* Every step keeps the parts.
LEMMA ReadsInvStep == ReadsInv /\ [Next]_vars => ReadsInv'
<1> SUFFICES ASSUME ReadsInv, [Next]_vars PROVE ReadsInv'
  OBVIOUS
<1>1. ASSUME NEW item \in Items \cup {Unusable}, NEW at \in 1..MaxTime, Arrive(item, at)
      PROVE  ReadsInv'
  BY <1>1, ArriveStep
<1>2. CASE BeginBoot
  BY <1>2, BeginBootStep
<1>3. CASE BeginIncremental
  <2>1. Resume.since \in Times /\ Resume.offset \in 0..MaxRows
    BY PlacesAre DEF ReadsInv, Places
  <2>2. status = "complete" /\ Begin("inc", Resume.since, Resume.offset) /\ hist' = hist
    BY <1>3 DEF BeginIncremental
  <2> QED BY <2>1, <2>2, BeginOtherStep
<1>4. ASSUME NEW since \in 0..MaxTime, BeginCatchup(since)
      PROVE  ReadsInv'
  <2>1. since \in Times /\ 0 \in 0..MaxRows
    BY Numbers DEF Times
  <2>2. status = "complete" /\ Begin("catchup", since, 0) /\ hist' = hist
    BY <1>4 DEF BeginCatchup
  <2> QED BY <2>1, <2>2, BeginOtherStep
<1>5. CASE ReadPage
  BY <1>5, ReadPageStep
<1>6. CASE OverLimit
  BY <1>6, OverLimitStep
<1>7. CASE ReadEnds
  BY <1>7, ReadEndsStep
<1>8. CASE Fails
  BY <1>8, ReadFailsStep DEF Fails
<1>9. CASE UNCHANGED vars
  <2>1. UNCHANGED <<hist, watched, status, cursor, drain, rd>>
    BY <1>9 DEF vars
  <2>2. Pages' = Pages /\ Resume' = Resume /\ Known' = Known /\ Ahead' = Ahead
    BY <2>1 DEF Pages, Resume, Known, Ahead
  <2> QED BY <2>1, <2>2 DEF ReadsInv, HistInv, StoreInv, ReadInv, OwedAhead, Awaited
<1> QED BY <1>1, <1>2, <1>3, <1>4, <1>5, <1>6, <1>7, <1>8, <1>9 DEF Next, ReadStep

\* The inductive invariant of the reads.
THEOREM ReadsInvariant == Spec => []ReadsInv
BY ReadsInitInv, ReadsInvStep, PTL DEF Spec

\* The types, and that a store without a complete read holds nothing, for any
\* page size, caps and history (Bootstrap, history.go:243-245).
THEOREM ReadTypes == Spec => []ReadTypeOK
<1>1. ReadsInv => ReadTypeOK
  <2> SUFFICES ASSUME ReadsInv PROVE ReadTypeOK
    OBVIOUS
  <2>1. HistInv /\ StoreInv /\ rd \in Reads /\ rd.got \in 0..Pages * PageSize
    BY DEF ReadsInv, ReadInv
  <2> QED BY <2>1 DEF HistInv, StoreInv, ReadTypeOK, Reads, Places, Rows, Times
<1> QED BY ReadsInvariant, <1>1, PTL

\* A play that was not reported behind the reads is in the map or ahead of them,
\* however many capped, failed and repeated reads there are and whichever rows
\* share a second (drain, history.go:93-96, and Incremental, 279-282).
THEOREM NoPlayIsLost == Spec => []NoPlayLost
<1>1. ReadsInv => NoPlayLost
  <2> SUFFICES ASSUME ReadsInv, NEW k \in DOMAIN hist, hist[k].item # Unusable, ~hist[k].late,
                      ~(Known[hist[k].item] >= hist[k].at)
               PROVE  k > RowsBefore(Ahead.since) + Ahead.offset
    BY DEF NoPlayLost
  <2>1. IsAhead(hist, k, Ahead.since, Ahead.offset)
    BY DEF ReadsInv, Awaited
  <2> QED BY <2>1, BeforeIs DEF IsAhead
<1> QED BY ReadsInvariant, <1>1, PTL

\* A read that comes to the end of the history leaves in the map every play its
\* window held when it began, late ones too (history.go:243-245, 310-311).
THEOREM ReadsCover == Spec => ReadCovers
<1>1. ReadsInv /\ [Next]_vars =>
        [ReadEnds => \A r \in rd.owed : r.item # Unusable => watched'[r.item] >= r.at]_vars
  <2> SUFFICES ASSUME ReadsInv, ReadEnds, NEW r \in rd.owed, r.item # Unusable
               PROVE  watched'[r.item] >= r.at
    OBVIOUS
  <2>1. HistInv /\ StoreInv /\ ReadInv /\ OwedAhead
    BY DEF ReadsInv
  <2>2. rd.op # "idle" /\ ~More /\ rd \in Reads
    BY <2>1 DEF ReadEnds, ReadInv
  <2>3. Known[r.item] >= r.at
    <3> SUFFICES ASSUME ~rd.short, NEW k \in DOMAIN hist, IsAhead(hist, k, rd.since, rd.start + rd.got)
                 PROVE  FALSE
      BY <2>1, <2>2 DEF OwedAhead
    <3>1. k > Position /\ k \in 1..Len(hist) /\ Position \in Nat /\ Len(hist) \in Nat
      BY <2>1, ReadingIs
    <3>2. ~(Position < Len(hist))
      BY <2>2 DEF More
    <3> QED BY <3>1, <3>2
  <2>4. watched' = Known
    BY <2>2 DEF ReadEnds, Known, store, Reads
  <2> QED BY <2>3, <2>4
<1> QED BY ReadsInvariant, <1>1, PTL DEF Spec, ReadCovers
====
