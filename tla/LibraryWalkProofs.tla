--------------------------- MODULE LibraryWalkProofs ---------------------------
(* Proofs about the library walk beside the history loop, for any libraries,  *)
(* any items that come, go and are played at any time, any limit on walks and *)
(* any number of full reads: published watch figures cover what the history   *)
(* held, the complete flag leaves out no item that a walk was owed, and Prune *)
(* drops no item of a clean pass it should have seen.                         *)
EXTENDS LibraryWalk, TLAPS, FiniteSetTheorems, WellFoundedInduction

Figs == [Items -> 0..MaxClock \cup {Never}]
LibWalks == [walked : BOOLEAN, failed : BOOLEAN, stamp : Nat, fig : Figs]
Passes == [stale : BOOLEAN, libs : SUBSET VideoLibs, skipped : BOOLEAN, todo : SUBSET VideoLibs,
           start : Nat, gen : Nat, allOK : BOOLEAN]
ItemWalks == [lib : Nat, gen0 : Nat, stamp : Nat, off : Nat, fig : Figs, due : SUBSET Items]
Ghosts == [listed : SUBSET Libs, shifted : SUBSET Libs, unmarked : SUBSET Items]
Present(i) == catalog[i] = "present"

\* The catalog: no play is later than now, and an item to come has none.
PlexInv ==
    /\ clock \in 0..MaxClock /\ plexLibs \subseteq Libs /\ serverLibs \subseteq Libs
    /\ catalog \in [Items -> {"future", "present", "gone"}]
    /\ plays \in [Items -> Nat] /\ unusable \subseteq Items
    /\ \A i \in Items : plays[i] <= clock /\ (catalog[i] = "future" => plays[i] = 0)

\* The history loop: a map is only held after a complete read, holds no play
\* Plex does not have, and a later full read needs the last one to have failed.
StoreInv ==
    /\ gen \in 0..MaxBoots /\ (hpc \in {"boot", "reading", "wait"} => gen < MaxBoots)
    /\ hpc \in {"boot", "reading", "rebuilt", "wait", "follow"}
    /\ status \in {"", "complete", "over_limit", "failed"}
    /\ (status = "complete" <=> hpc \in {"rebuilt", "follow"})
    /\ fresh \in BOOLEAN /\ unmatched \in BOOLEAN /\ signal \in BOOLEAN
    /\ watched \in [Items -> [at : Nat, pass : Nat]]
    /\ readFrom \in [Items -> Nat] /\ atBoot \in [Items -> Nat] /\ seen \in [Items -> Nat]
    /\ lost \subseteq Items
    /\ \A i \in Items : watched[i].at <= plays[i] /\ readFrom[i] <= plays[i] /\ atBoot[i] <= plays[i]
    /\ status # "complete" => \A i \in Items : watched[i].at = 0

\* The map covers what the full read was to cover, unless rows are unusable.
MapCovers ==
    status = "complete" /\ ~unmatched =>
        \A i \in Items \ lost : Present(i) => watched[i].at >= atBoot[i]

\* So do figures stamped with the generation of the map that is there.
Covering(stamp, fig) ==
    stamp # 0 /\ stamp = gen =>
        /\ status = "complete"
        /\ ~unmatched => \A i \in Items \ lost : fig[i] # Never => fig[i] >= atBoot[i]

WalkerInv ==
    /\ wpc \in {"start", "due", "idle", "gen", "next", "read", "store", "prune"}
    /\ walks \in [Libs -> LibWalks] /\ passDone \in BOOLEAN
    /\ pass \in 0..MaxPass
    /\ wpc \in {"start", "due"} \/ (wpc = "gen" /\ ~p.stale) => pass < MaxPass
    /\ p \in Passes /\ p.todo \subseteq p.libs /\ p.libs \subseteq g.listed
    /\ ~p.skipped => p.libs = g.listed
    /\ wpc = "gen" => p.todo = p.libs
    /\ wpc \in {"next", "read", "store", "prune"} /\ ~p.stale => pass > 0
    /\ wpc = "prune" => ~p.stale /\ p.allOK /\ ~p.skipped /\ p.todo = {}
    /\ p.start <= clock
    /\ w \in ItemWalks /\ (wpc \in {"read", "store"} => w.lib \in p.libs \ p.todo)
    /\ g \in Ghosts /\ g.shifted \subseteq g.listed

\* Stamps are generations the map has had.
StampInv ==
    /\ p.gen <= gen /\ w.gen0 <= gen /\ w.stamp \in {0, w.gen0}
    /\ \A l \in Libs : walks[l].stamp <= gen
    /\ Covering(w.gen0, w.fig)
    /\ \A l \in Libs : Covering(walks[l].stamp, walks[l].fig)

\* A full pass that has gone well in one map: an item it has passed is marked,
\* had no play in the map yet, or was not there before the pass.
Passed(i) ==
    /\ Present(i) /\ Home[i] \in p.libs \ p.todo /\ Home[i] \notin g.shifted
    /\ wpc = "read" /\ Home[i] = w.lib => Rank(i) < w.off \/ w.fig[i] # Never
Since(t) == t = 0 \/ t >= p.start
Spared(i) ==
    \/ watched[i].pass = pass
    \/ i \in g.unmarked
    \/ Since(watched[i].at) /\ Since(plays[i])
CleanPass == wpc \in {"next", "read", "store", "prune"} /\ ~p.stale /\ p.allOK /\ gen = p.gen /\ status = "complete"
PassInv == CleanPass => \A i \in Items : Passed(i) => Spared(i)

\* What a listing owes the walk: an item it has passed has been visited, and
\* the figures of a library have every item they owe.
DueInv ==
    /\ sectionsRead \in BOOLEAN /\ owed \subseteq Items
    /\ wpc \in {"read", "store"} => \A i \in w.due : Present(i) /\ Home[i] = w.lib
    /\ wpc = "read" => \A i \in w.due : Rank(i) < w.off => w.fig[i] # Never
    /\ wpc = "store" => \A i \in w.due : w.fig[i] # Never
    /\ \A i \in owed : walks[Home[i]].walked => walks[Home[i]].fig[i] # Never

WalkInv == PlexInv /\ StoreInv /\ MapCovers /\ WalkerInv /\ StampInv /\ PassInv /\ DueInv
-----------------------------------------------------------------------------
\* The items before i in the listing of its library: Rank counts them.
Before(i) == {j \in Items : catalog[j] = "present" /\ Home[j] = Home[i] /\ j < i}

\* An item's place in a library's answer is how many items come before it.
LEMMA RankCounts ==
    ASSUME NEW i \in Items
    PROVE  /\ Rank(i) = Cardinality(Before(i)) /\ Rank(i) \in Nat
           /\ Before(i) \in SUBSET Items /\ IsFiniteSet(Before(i))
<1>1. Rank(i) = Cardinality(Before(i))
  BY DEF Rank, Before
<1>2. Before(i) \in SUBSET Items
  BY DEF Before
<1>3. IsFiniteSet(Before(i))
  BY <1>2, FS_Subset, CatalogAssumption
<1> QED BY <1>1, <1>2, <1>3, FS_CardinalityType

\* The rows of a library are at different places.
LEMMA RankOrder ==
    ASSUME NEW i \in Items, NEW j \in Items, Present(i), Home[i] = Home[j], i < j
    PROVE  Rank(i) < Rank(j)
<1>1. Before(i) \in SUBSET Before(j)
  <2> SUFFICES ASSUME NEW k \in Items, k < i, Home[k] = Home[i], catalog[k] = "present"
               PROVE  k < j
    BY DEF Before
  <2>1. k \in Nat /\ i \in Nat /\ j \in Nat
    BY CatalogAssumption
  <2> QED BY <2>1
<1>2. i \in Before(j) /\ i \notin Before(i)
  BY CatalogAssumption DEF Before, Present
<1>3. Cardinality(Before(i)) <= Cardinality(Before(j)) /\ Cardinality(Before(i)) # Cardinality(Before(j))
  BY <1>1, <1>2, RankCounts, FS_Subset
<1> QED BY <1>3, RankCounts

\* The item of a row is there, in that library and at that place, and alone.
LEMMA RowIs ==
    ASSUME NEW l, NEW off, NEW i \in RowAt(l, off)
    PROVE  i \in Items /\ Present(i) /\ Home[i] = l /\ Rank(i) = off
<1>1. i \in Items /\ Present(i) /\ Home[i] = l
  BY DEF RowAt, Present
<1>2. {j \in {k \in Items : catalog[k] = "present" /\ Home[k] = l} : j < i} = Before(i)
  BY <1>1 DEF Before
<1> QED BY <1>1, <1>2, RankCounts DEF RowAt

\* So the row at that place is the item.
LEMMA RowHas ==
    ASSUME NEW i \in Items, Present(i)
    PROVE  i \in RowAt(Home[i], Rank(i))
<1>1. {j \in {k \in Items : catalog[k] = "present" /\ Home[k] = Home[i]} : j < i} = Before(i)
  BY DEF Before
<1> QED BY <1>1, RankCounts DEF RowAt, Present

\* A listing has no gaps: past an offset without a row there is none.
LEMMA RowsEnd ==
    ASSUME NEW l \in Libs, NEW off \in Nat, RowAt(l, off) = {}
    PROVE  \A i \in Items : Present(i) /\ Home[i] = l => Rank(i) < off
<1> DEFINE rows == {i \in Items : Present(i) /\ Home[i] = l}
           N == Cardinality(rows)
           rank == [i \in rows |-> Rank(i)]
<1>1. rows \in SUBSET Items /\ IsFiniteSet(rows)
  <2>1. rows \in SUBSET Items
    OBVIOUS
  <2> QED BY <2>1, FS_Subset, CatalogAssumption
<1>2. N \in Nat
  BY <1>1, FS_CardinalityType
<1>3. ASSUME NEW i \in rows
      PROVE  Rank(i) \in 0..(N - 1)
  <2>1. Before(i) \in SUBSET rows /\ i \in rows /\ i \notin Before(i)
    BY <1>3, CatalogAssumption DEF Before, Present
  <2>2. Cardinality(Before(i)) <= N /\ (Cardinality(Before(i)) = N => rows = Before(i))
    BY <1>1, <2>1, FS_Subset
  <2>3. Cardinality(Before(i)) # N
    BY <2>1, <2>2
  <2>4. Rank(i) \in Nat /\ Rank(i) = Cardinality(Before(i))
    BY <1>3, RankCounts
  <2> HIDE DEF N
  <2> QED BY <1>2, <2>2, <2>3, <2>4
<1>4. ASSUME NEW i \in rows, NEW j \in rows, Rank(i) = Rank(j)
      PROVE  i = j
  <2>1. Rank(i) \in Nat /\ Rank(j) \in Nat /\ i \in Nat /\ j \in Nat
    BY RankCounts, CatalogAssumption
  <2>2. ~(i < j) /\ ~(j < i)
    BY <1>4, <2>1, RankOrder
  <2> QED BY <2>1, <2>2
<1>5. rank \in Injection(rows, 0..(N - 1))
  <2>1. rank \in [rows -> 0..(N - 1)]
    BY <1>3
  <2>2. IsInjective(rank)
    BY <1>4 DEF IsInjective
  <2> HIDE DEF rank, rows, N
  <2> QED BY <2>1, <2>2 DEF Injection
<1>6. IsFiniteSet(0..(N - 1)) /\ Cardinality(0..(N - 1)) = N
  <2> HIDE DEF N
  <2> QED BY <1>2, FS_Interval
<1>7. rank \in Surjection(rows, 0..(N - 1))
  <2> HIDE DEF rank
  <2> QED BY <1>5, <1>6, FS_Injection
<1>8. ASSUME off < N PROVE FALSE
  <2>1. off \in 0..(N - 1)
    <3> HIDE DEF N
    <3> QED BY <1>2, <1>8
  <2>2. \E i \in rows : rank[i] = off
    <3> HIDE DEF rank
    <3> QED BY <1>7, <2>1 DEF Surjection
  <2>3. PICK i \in rows : Rank(i) = off
    BY <2>2
  <2>4. i \in RowAt(Home[i], Rank(i)) /\ Home[i] = l
    BY RowHas
  <2> QED BY <2>3, <2>4
<1>9. N <= off
  <2> HIDE DEF N
  <2> QED BY <1>2, <1>8
<1> SUFFICES ASSUME NEW i \in Items, Present(i), Home[i] = l PROVE Rank(i) < off
  OBVIOUS
<1>10. Rank(i) \in 0..(N - 1)
  BY <1>3
<1> HIDE DEF N
<1> QED BY <1>2, <1>9, <1>10

\* An item that comes only moves rows back.
LEMMA RankAdd ==
    ASSUME NEW k \in Items, catalog' = [catalog EXCEPT ![k] = "present"], PlexInv, NEW i \in Items
    PROVE  Rank(i)' \in Nat /\ Rank(i) <= Rank(i)'
<1>1. Before(i) \in SUBSET Before(i)' /\ Before(i)' \in SUBSET Items
  BY DEF Before, PlexInv
<1>2. IsFiniteSet(Before(i)') /\ Rank(i)' = Cardinality(Before(i)')
  BY <1>1, FS_Subset, CatalogAssumption DEF Rank, Before
<1>3. Cardinality(Before(i)) <= Cardinality(Before(i)') /\ Cardinality(Before(i)') \in Nat
  BY <1>1, <1>2, FS_Subset, FS_CardinalityType
<1> QED BY <1>2, <1>3, RankCounts

\* One that goes at an offset or after it moves none across the offset.
LEMMA RankDelete ==
    ASSUME NEW k \in Items, catalog' = [catalog EXCEPT ![k] = "gone"], PlexInv, NEW i \in Items,
           NEW off \in Nat, Home[k] = Home[i] => Rank(k) >= off, Rank(i)' < off
    PROVE  Rank(i) < off
<1>1. Before(i)' \in SUBSET Items /\ IsFiniteSet(Before(i)') /\ Rank(i)' = Cardinality(Before(i)')
  <2>1. Before(i)' \in SUBSET Items
    BY DEF Before
  <2> QED BY <2>1, FS_Subset, CatalogAssumption DEF Rank, Before
<1>2. CASE k \in Before(i)
  <2>1. Before(k) \in SUBSET Before(i)' /\ Home[k] = Home[i]
    <3>1. Home[k] = Home[i] /\ k < i
      BY <1>2 DEF Before
    <3> SUFFICES ASSUME NEW j \in Items, j < k, Home[j] = Home[k], catalog[j] = "present"
                 PROVE  catalog'[j] = "present" /\ Home[j] = Home[i] /\ j < i
      BY <3>1 DEF Before
    <3>2. j \in Nat /\ i \in Nat /\ k \in Nat
      BY CatalogAssumption
    <3>3. j # k
      BY <3>2
    <3> QED BY <3>1, <3>2, <3>3 DEF PlexInv
  <2>2. Cardinality(Before(k)) <= Cardinality(Before(i)')
    BY <1>1, <2>1, FS_Subset
  <2>3. Cardinality(Before(i)') \in Nat /\ Rank(k) \in Nat
    BY <1>1, FS_CardinalityType, RankCounts
  <2> QED BY <1>1, <2>1, <2>2, <2>3, RankCounts
<1>3. CASE k \notin Before(i)
  <2>1. Before(i)' = Before(i)
    BY <1>3 DEF Before, PlexInv
  <2> QED BY <1>1, <2>1, RankCounts
<1> QED BY <1>2, <1>3

\* One that goes moves a row by one place at most.
LEMMA RankShifts ==
    ASSUME NEW k \in Items, catalog' = [catalog EXCEPT ![k] = "gone"], PlexInv, NEW i \in Items
    PROVE  Rank(i)' \in Nat /\ Rank(i) <= Rank(i)' + 1
<1>1. Before(i)' = Before(i) \ {k}
  BY DEF Before, PlexInv
<1>2. Before(i) \in SUBSET Items /\ IsFiniteSet(Before(i)) /\ Rank(i) = Cardinality(Before(i))
  BY RankCounts
<1>3. /\ Cardinality(Before(i) \ {k}) = IF k \in Before(i) THEN Cardinality(Before(i)) - 1
                                                            ELSE Cardinality(Before(i))
      /\ IsFiniteSet(Before(i) \ {k})
  BY <1>2, FS_RemoveElement
<1>4. Cardinality(Before(i) \ {k}) \in Nat /\ Cardinality(Before(i)) \in Nat
  BY <1>2, <1>3, FS_CardinalityType
<1>5. Rank(i)' = Cardinality(Before(i)')
  BY DEF Rank, Before
<1> QED BY <1>1, <1>2, <1>3, <1>4, <1>5
-----------------------------------------------------------------------------
\* The assumptions on the bounds, as the proofs use them.
LEMMA Bounds ==
    /\ MaxClock \in Nat /\ MaxClock >= 2 /\ MaxBoots \in Nat /\ MaxBoots >= 1
    /\ MaxPass \in Nat /\ MaxPass >= 1 /\ Never \notin Nat
<1>1. MaxClock \in Nat /\ MaxClock # 0 /\ MaxClock # 1
  BY CatalogAssumption
<1>2. MaxBoots \in Nat /\ MaxBoots # 0
  BY StoreAssumption
<1>3. MaxPass \in Nat /\ MaxPass # 0 /\ Never \notin Nat
  BY WalkAssumption
<1> QED BY <1>1, <1>2, <1>3

\* A new process has no walk, no figures and an empty map.
LEMMA WalkInitInv == WalkInit => WalkInv
<1> SUFFICES ASSUME WalkInit PROVE WalkInv
  OBVIOUS
<1>a. /\ clock = 2 /\ plays \in [Items -> {0, 1}] /\ \A i \in Future : plays[i] = 0
      /\ catalog = [i \in Items |-> IF i \in Future THEN "future" ELSE "present"]
      /\ unusable \in {{}} \cup {{i} : i \in Unreadable}
  BY DEF WalkInit, CatalogInit
<1>b. /\ gen = 0 /\ status = "" /\ fresh = FALSE /\ watched = [i \in Items |-> NoEntry]
      /\ unmatched = FALSE /\ seen = [i \in Items |-> 0] /\ signal = FALSE /\ hpc = "boot"
      /\ readFrom = [i \in Items |-> 0] /\ atBoot = [i \in Items |-> 0] /\ lost = {}
  BY DEF WalkInit, StoreInit
<1>c. /\ plexLibs = {Home[i] : i \in {j \in Items : catalog[j] = "present"}} /\ serverLibs = plexLibs
      /\ walks = [l \in Libs |-> NoWalk] /\ passDone = FALSE /\ pass = 0
      /\ wpc = "start" /\ p = NoPass /\ w = NoItemWalk /\ g = NoGhost
      /\ sectionsRead = FALSE /\ owed = {i \in Items : catalog[i] = "present"}
  BY DEF WalkInit
<1>1. PlexInv
  <2>1. clock \in 0..MaxClock
    BY <1>a, Bounds
  <2>2. plexLibs \subseteq Libs /\ serverLibs \subseteq Libs
    BY <1>c, CatalogAssumption
  <2>3. plays \in [Items -> Nat] /\ \A i \in Items : plays[i] <= clock
    BY <1>a
  <2>4. catalog \in [Items -> {"future", "present", "gone"}]
    BY <1>a
  <2>5. \A i \in Items : catalog[i] = "future" => plays[i] = 0
    BY <1>a
  <2>6. unusable \subseteq Items
    BY <1>a, CatalogAssumption
  <2> QED BY <2>1, <2>2, <2>3, <2>4, <2>5, <2>6 DEF PlexInv
<1>2. StoreInv
  <2>1. \A i \in Items : plays[i] \in Nat
    BY <1>1 DEF PlexInv
  <2>2. gen \in 0..MaxBoots /\ gen < MaxBoots
    <3>1. gen = 0
      BY <1>b
    <3> QED BY <3>1, Bounds
  <2>3. fresh \in BOOLEAN /\ unmatched \in BOOLEAN /\ signal \in BOOLEAN
    BY <1>b
  <2>4. status # "complete" /\ hpc = "boot"
    BY <1>b
  <2>5. watched \in [Items -> [at : Nat, pass : Nat]]
    BY <1>b DEF NoEntry
  <2>6. \A i \in Items : watched[i].at = 0 /\ readFrom[i] = 0 /\ atBoot[i] = 0
    BY <1>b DEF NoEntry
  <2>7. hpc \in {"boot", "reading", "rebuilt", "wait", "follow"} /\ status \in {"", "complete", "over_limit", "failed"}
    BY <1>b
  <2>8. lost \subseteq Items /\ (status = "complete" <=> hpc \in {"rebuilt", "follow"})
    BY <1>b
  <2>9. readFrom \in [Items -> Nat] /\ atBoot \in [Items -> Nat] /\ seen \in [Items -> Nat]
    BY <1>b
  <2>10. \A i \in Items : watched[i].at <= plays[i] /\ readFrom[i] <= plays[i] /\ atBoot[i] <= plays[i]
    BY <2>1, <2>6
  <2> QED BY <2>2, <2>3, <2>5, <2>6, <2>7, <2>8, <2>9, <2>10 DEF StoreInv
<1>3. NoFig \in Figs
  BY CatalogAssumption DEF NoFig, Figs
<1>4. WalkerInv
  <2>1. walks \in [Libs -> LibWalks]
    BY <1>3, <1>c DEF NoWalk, LibWalks
  <2>2. p \in Passes /\ ~p.stale /\ p.todo = {} /\ p.libs = {} /\ ~p.skipped /\ p.start = 0
    BY <1>c DEF NoPass, Passes
  <2>3. w \in ItemWalks
    BY <1>3, <1>c DEF NoItemWalk, ItemWalks
  <2>4. g \in Ghosts /\ g.shifted = {} /\ g.listed = {}
    BY <1>c DEF NoGhost, Ghosts
  <2>5. pass \in 0..MaxPass /\ pass < MaxPass /\ 0 <= clock
    BY <1>a, <1>c, Bounds
  <2>6. passDone \in BOOLEAN /\ wpc = "start"
    BY <1>c
  <2> QED BY <2>1, <2>2, <2>3, <2>4, <2>5, <2>6 DEF WalkerInv
<1>5. StampInv
  <2>1. p.gen = 0 /\ w.gen0 = 0 /\ w.stamp = 0 /\ gen = 0 /\ \A l \in Libs : walks[l].stamp = 0
    BY <1>b, <1>c DEF NoWalk, NoPass, NoItemWalk
  <2> QED BY <2>1 DEF StampInv, Covering
<1>6. MapCovers /\ PassInv
  BY <1>b, <1>c DEF MapCovers, PassInv, CleanPass
<1>7. DueInv
  <2>1. \A l \in Libs : ~walks[l].walked
    BY <1>c DEF NoWalk
  <2> QED BY <1>c, <2>1, CatalogAssumption DEF DueInv
<1> QED BY <1>1, <1>2, <1>4, <1>5, <1>6, <1>7 DEF WalkInv
-----------------------------------------------------------------------------
\* What Plex does: time and plays only go on, and items come and go.
PlexOnward ==
    /\ PlexInv' /\ clock <= clock'
    /\ \A i \in Items :
        /\ plays[i] <= plays'[i] /\ (plays'[i] = plays[i] \/ plays'[i] = clock)
        /\ catalog[i] # "future" => catalog'[i] # "future"

\* Plex's own steps go on in time and leave the exporter's state alone.
LEMMA PlexSteps ==
    ASSUME PlexInv, PlexStep
    PROVE  PlexOnward /\ UNCHANGED <<hvars, atBoot, lost, serverLibs, sectionsRead,
                                      walks, passDone, pass, wpc, p>>
<1>1. UNCHANGED <<hvars, atBoot, lost, serverLibs, sectionsRead, walks, passDone, pass, wpc, p>>
  BY DEF PlexStep
<1>2. MaxClock \in Nat /\ Home \in [Items -> Libs]
  BY CatalogAssumption
<1>3. CASE Advance /\ UNCHANGED <<plexLibs, w, owed, g>>
  <2>1. clock' = clock + 1 /\ clock < MaxClock /\ UNCHANGED <<catalog, plays, unusable, plexLibs>>
    BY <1>3 DEF Advance
  <2> QED BY <1>1, <1>2, <2>1 DEF PlexInv, PlexOnward
<1>4. ASSUME NEW i \in Items, PlayItem(i), UNCHANGED <<plexLibs, w, owed, g>>
      PROVE  PlexOnward
  <2>1. /\ catalog[i] = "present" /\ plays[i] < clock /\ plays' = [plays EXCEPT ![i] = clock]
        /\ UNCHANGED <<clock, catalog, unusable, plexLibs>>
    BY <1>4 DEF PlayItem
  <2> QED BY <1>1, <1>2, <2>1 DEF PlexInv, PlexOnward
<1>5. ASSUME NEW i \in Items, AddItem(i), plexLibs' = plexLibs \cup {Home[i]}
      PROVE  PlexOnward
  <2>1. catalog' = [catalog EXCEPT ![i] = "present"] /\ UNCHANGED <<clock, plays, unusable>>
    BY <1>5 DEF AddItem
  <2> QED BY <1>1, <1>2, <1>5, <2>1 DEF PlexInv, PlexOnward
<1>6. ASSUME NEW i \in Items, DeleteItem(i), UNCHANGED plexLibs
      PROVE  PlexOnward
  <2>1. /\ catalog' = [catalog EXCEPT ![i] = "gone"] /\ UNCHANGED <<clock, plays, unusable, plexLibs>>
        /\ catalog[i] = "present"
    BY <1>6 DEF DeleteItem
  <2> QED BY <1>1, <1>2, <2>1 DEF PlexInv, PlexOnward
<1> QED BY <1>1, <1>3, <1>4, <1>5, <1>6 DEF PlexStep

\* Of the walk they take nothing but what the listing owes it.
LEMMA PlexWalk ==
    ASSUME WalkerInv, PlexStep
    PROVE  /\ w' \in ItemWalks /\ w'.due \subseteq w.due
           /\ w'.lib = w.lib /\ w'.gen0 = w.gen0 /\ w'.stamp = w.stamp
           /\ w'.off = w.off /\ w'.fig = w.fig
<1>1. w \in ItemWalks
  BY DEF WalkerInv
<1>2. w' = w \/ \E d : w' = [w EXCEPT !.due = @ \ d]
  BY DEF PlexStep
<1> QED BY <1>1, <1>2 DEF ItemWalks

\* They leave the history as it is, and it stays within what Plex has.
LEMMA PlexStepStore ==
    ASSUME PlexInv, StoreInv, MapCovers, PlexStep
    PROVE  StoreInv' /\ MapCovers'
<1>1. UNCHANGED hvars /\ UNCHANGED <<atBoot, lost>>
  BY PlexSteps
<1>2. UNCHANGED <<gen, status, fresh, watched, unmatched, hpc, readFrom, seen, signal>>
  BY <1>1 DEF hvars
<1>3. \A i \in Items : plays[i] <= plays'[i] /\ plays'[i] \in Nat /\ plays[i] \in Nat
  BY PlexSteps DEF PlexInv, PlexOnward
<1>4. StoreInv'
  <2>1. \A i \in Items : watched[i].at \in Nat /\ readFrom[i] \in Nat /\ atBoot[i] \in Nat
    BY DEF StoreInv
  <2>2. \A i \in Items : watched[i].at <= plays'[i] /\ readFrom[i] <= plays'[i] /\ atBoot[i] <= plays'[i]
    <3> SUFFICES ASSUME NEW i \in Items
                 PROVE  watched[i].at <= plays'[i] /\ readFrom[i] <= plays'[i] /\ atBoot[i] <= plays'[i]
      OBVIOUS
    <3>1. watched[i].at <= plays[i] /\ readFrom[i] <= plays[i] /\ atBoot[i] <= plays[i]
      BY DEF StoreInv
    <3>2. watched[i].at \in Nat /\ readFrom[i] \in Nat /\ atBoot[i] \in Nat
      BY <2>1
    <3>3. plays[i] <= plays'[i] /\ plays'[i] \in Nat /\ plays[i] \in Nat
      BY <1>3
    <3> QED BY <3>1, <3>2, <3>3
  <2> QED BY <1>1, <1>2, <2>2 DEF StoreInv
<1>5. MapCovers'
  <2> SUFFICES ASSUME status = "complete", ~unmatched, NEW i \in Items \ lost, catalog'[i] = "present"
               PROVE  watched[i].at >= atBoot[i]
    BY <1>1, <1>2 DEF MapCovers, Present
  <2>1. catalog[i] # "gone"
    BY DEF PlexStep, AddItem, DeleteItem, PlayItem, Advance, PlexInv
  <2>2. CASE catalog[i] = "present"
    BY <2>2 DEF MapCovers, Present
  <2>3. CASE catalog[i] = "future"
    <3>1. plays[i] = 0 /\ atBoot[i] <= plays[i] /\ atBoot[i] \in Nat /\ watched[i].at \in Nat
      BY <2>3 DEF PlexInv, StoreInv
    <3> QED BY <3>1
  <2> QED BY <2>1, <2>2, <2>3 DEF PlexInv
<1> QED BY <1>4, <1>5
-----------------------------------------------------------------------------
\* What the history loop does to the map: it replaces it and counts a new
\* generation, or folds single plays into it.
FoldsIn ==
    /\ UNCHANGED <<gen, status, atBoot, lost>> /\ (unmatched => unmatched')
    /\ \A i \in Items :
        /\ watched'[i].pass = watched[i].pass /\ watched[i].at <= watched'[i].at
        /\ watched'[i].at = watched[i].at \/ watched'[i].at = plays[i]
Replaces == gen' = gen + 1

\* A full read that ends replaces the map and begins a generation.
LEMMA ReadEndsStore ==
    ASSUME PlexInv, StoreInv, UNCHANGED cvars, BootCompletes
    PROVE  StoreInv' /\ MapCovers' /\ Replaces
<1>1. /\ hpc = "reading" /\ hpc' = "rebuilt" /\ gen' = gen + 1 /\ status' = "complete" /\ fresh' = TRUE
      /\ unmatched' \in BOOLEAN
      /\ ((\E i \in unusable : readFrom[i] # 0 /\ catalog[i] = "present") => unmatched')
      /\ atBoot' = readFrom /\ UNCHANGED <<readFrom, signal, lost>>
  BY DEF BootCompletes
<1>2. PICK f \in [Items -> 0..clock] :
        /\ \A i \in Items : f[i] \in Found(i)
        /\ watched' = [i \in Items |-> [at |-> f[i], pass |-> 0]]
        /\ seen' = f
  BY DEF BootCompletes
<1>3. UNCHANGED <<clock, catalog, plays, unusable>>
  BY DEF cvars
<1>4. \A i \in Items : f[i] \in Nat /\ watched'[i].at = f[i]
  BY <1>2 DEF PlexInv
<1>5. \A i \in Items : readFrom[i] \in Nat /\ plays[i] \in Nat /\ readFrom[i] <= plays[i]
  BY DEF PlexInv, StoreInv
<1>6. \A i \in Items : f[i] <= plays[i]
  BY <1>2, <1>5 DEF Found
<1>7. StoreInv'
  <2>1. gen' \in 0..MaxBoots
    <3>1. gen \in 0..MaxBoots /\ gen' = gen + 1 /\ gen < MaxBoots
      BY <1>1 DEF StoreInv
    <3> QED BY <3>1, Bounds
  <2>2. watched' \in [Items -> [at : Nat, pass : Nat]] /\ seen' \in [Items -> Nat]
    <3>1. \A i \in Items : [at |-> f[i], pass |-> 0] \in [at : Nat, pass : Nat]
      BY <1>4
    <3>2. seen' \in [Items -> Nat]
      BY <1>2, <1>4
    <3> QED BY <1>2, <3>1, <3>2
  <2>3. \A i \in Items : watched'[i].at <= plays'[i] /\ readFrom'[i] <= plays'[i] /\ atBoot'[i] <= plays'[i]
    BY <1>1, <1>3, <1>4, <1>5, <1>6
  <2>4. readFrom' \in [Items -> Nat] /\ atBoot' \in [Items -> Nat] /\ lost' \subseteq Items
    BY <1>1 DEF StoreInv
  <2>5. signal' \in BOOLEAN
    BY <1>1 DEF StoreInv
  <2>6. fresh' \in BOOLEAN /\ unmatched' \in BOOLEAN
    BY <1>1
  <2> QED BY <1>1, <2>1, <2>2, <2>3, <2>4, <2>5, <2>6 DEF StoreInv
<1>8. MapCovers'
  <2> SUFFICES ASSUME ~unmatched', NEW i \in Items, catalog[i] = "present" PROVE f[i] >= readFrom[i]
    BY <1>1, <1>3, <1>4 DEF MapCovers, Present
  <2>1. CASE i \in unusable
    <3>1. readFrom[i] = 0
      BY <1>1, <2>1
    <3> QED BY <1>4, <3>1
  <2>2. CASE i \notin unusable
    <3>1. f[i] \in {readFrom[i], plays[i]}
      BY <1>2, <2>2 DEF Found
    <3> QED BY <1>5, <3>1
  <2> QED BY <2>1, <2>2
<1> QED BY <1>1, <1>7, <1>8 DEF Replaces

\* One that fails empties the map and begins a generation as well.
LEMMA ReadFailsStore ==
    ASSUME PlexInv, StoreInv, UNCHANGED cvars, NEW st \in {"failed", "over_limit"}, BootFails(st)
    PROVE  StoreInv' /\ MapCovers' /\ Replaces
<1>1. /\ hpc = "reading" /\ hpc' = "wait" /\ gen + 1 < MaxBoots /\ gen' = gen + 1 /\ status' = st
      /\ watched' = [i \in Items |-> NoEntry] /\ unmatched' = FALSE
      /\ UNCHANGED <<fresh, readFrom, seen, signal, atBoot, lost>>
  BY DEF BootFails
<1>2. UNCHANGED <<clock, catalog, plays, unusable>>
  BY DEF cvars
<1>3. gen' \in 0..MaxBoots /\ gen' < MaxBoots
  <2>1. gen \in 0..MaxBoots /\ gen' = gen + 1 /\ gen + 1 < MaxBoots
    BY <1>1 DEF StoreInv
  <2> QED BY <2>1, Bounds
<1>4. watched' \in [Items -> [at : Nat, pass : Nat]] /\ \A i \in Items : watched'[i].at = 0
  BY <1>1 DEF NoEntry
<1>5. status' # "complete" /\ status' \in {"", "complete", "over_limit", "failed"}
  BY <1>1
<1>6. \A i \in Items : watched'[i].at <= plays'[i] /\ readFrom'[i] <= plays'[i] /\ atBoot'[i] <= plays'[i]
  BY <1>1, <1>2, <1>4 DEF StoreInv, PlexInv
<1>7. fresh' \in BOOLEAN /\ signal' \in BOOLEAN /\ unmatched' \in BOOLEAN
  BY <1>1 DEF StoreInv
<1>8. readFrom' \in [Items -> Nat] /\ atBoot' \in [Items -> Nat] /\ seen' \in [Items -> Nat] /\ lost' \subseteq Items
  BY <1>1 DEF StoreInv
<1>9. StoreInv'
  BY <1>1, <1>3, <1>4, <1>5, <1>6, <1>7, <1>8 DEF StoreInv
<1> QED BY <1>1, <1>5, <1>9 DEF MapCovers, Replaces

\* A row of a merge or of a catch-up only raises last-played times.
LEMMA RowStore ==
    ASSUME PlexInv, StoreInv, MapCovers, UNCHANGED cvars, NEW i \in Items, MergeRow(i) \/ CatchupRow(i)
    PROVE  StoreInv' /\ MapCovers' /\ FoldsIn
<1>1. /\ UNCHANGED <<gen, status, fresh, unmatched, hpc, readFrom, signal, atBoot, lost>> /\ hpc = "follow"
      /\ seen' = seen \/ seen' = [seen EXCEPT ![i] = plays[i]]
      /\ watched' = watched \/ watched' = [watched EXCEPT ![i] = Merged(@, plays[i])]
  BY DEF MergeRow, CatchupRow
<1>2. UNCHANGED <<clock, catalog, plays, unusable>>
  BY DEF cvars
<1>3. plays[i] \in Nat /\ watched[i] \in [at : Nat, pass : Nat] /\ watched[i].at <= plays[i]
  BY DEF PlexInv, StoreInv
<1>4. Merged(watched[i], plays[i]) = [watched[i] EXCEPT !.at = plays[i]]
      \/ Merged(watched[i], plays[i]) = watched[i]
  BY <1>3 DEF Merged
<1>5. /\ watched' \in [Items -> [at : Nat, pass : Nat]]
      /\ \A j \in Items : /\ watched'[j].pass = watched[j].pass
                          /\ watched[j].at <= watched'[j].at
                          /\ watched'[j].at = watched[j].at \/ watched'[j].at = plays[j]
  <2>1. watched \in [Items -> [at : Nat, pass : Nat]]
    BY DEF StoreInv
  <2>2. CASE watched' = watched
    BY <2>1, <2>2
  <2>3. CASE watched' = [watched EXCEPT ![i] = [watched[i] EXCEPT !.at = plays[i]]]
    <3>1. [watched[i] EXCEPT !.at = plays[i]] \in [at : Nat, pass : Nat]
      BY <1>3
    <3> QED BY <1>3, <2>1, <2>3, <3>1
  <2> QED BY <1>1, <1>4, <2>1, <2>2, <2>3
<1>6. FoldsIn
  BY <1>1, <1>5 DEF FoldsIn
<1>7. \A j \in Items : watched'[j].at <= plays[j]
  <2> SUFFICES ASSUME NEW j \in Items PROVE watched'[j].at <= plays[j]
    OBVIOUS
  <2>1. watched[j].at <= plays[j] /\ plays[j] \in Nat
    BY DEF StoreInv, PlexInv
  <2>2. watched'[j].at = watched[j].at \/ watched'[j].at = plays[j]
    BY <1>5
  <2> QED BY <2>1, <2>2
<1>8. StoreInv'
  <2>1. seen' \in [Items -> Nat]
    BY <1>1, <1>3 DEF StoreInv
  <2>2. status = "complete"
    BY <1>1 DEF StoreInv
  <2> QED BY <1>1, <1>2, <1>5, <1>7, <2>1, <2>2 DEF StoreInv
<1>9. MapCovers'
  <2> SUFFICES ASSUME status = "complete", ~unmatched, NEW j \in Items \ lost, catalog[j] = "present"
               PROVE  watched'[j].at >= atBoot[j]
    BY <1>1, <1>2 DEF MapCovers, Present
  <2>1. watched[j].at >= atBoot[j]
    BY DEF MapCovers, Present
  <2>2. watched[j].at \in Nat /\ watched'[j].at \in Nat /\ atBoot[j] \in Nat /\ watched[j].at <= watched'[j].at
    BY <1>5 DEF StoreInv
  <2> QED BY <2>1, <2>2
<1> QED BY <1>6, <1>8, <1>9

\* The other steps of the loop leave the map alone.
LEMMA LoopStore ==
    ASSUME PlexInv, StoreInv, MapCovers, UNCHANGED cvars,
           \/ BootStarts \/ RetryFires \/ SignalWalk \/ IncrementalDone \/ Lapse
           \/ \E i \in Items : UnmatchedRow(i)
    PROVE  StoreInv' /\ MapCovers' /\ FoldsIn
<1>1. /\ UNCHANGED <<gen, status, watched, seen, atBoot, lost>>
      /\ (unmatched' = unmatched \/ unmatched' = TRUE)
  BY DEF BootStarts, RetryFires, SignalWalk, IncrementalDone, Lapse, UnmatchedRow
<1>2. UNCHANGED <<clock, catalog, plays, unusable>>
  BY DEF cvars
<1>3. readFrom' = readFrom \/ readFrom' = plays
  BY DEF BootStarts, RetryFires, SignalWalk, IncrementalDone, Lapse, UnmatchedRow
<1>4. /\ hpc' = hpc \/ (hpc = "boot" /\ hpc' = "reading") \/ (hpc = "wait" /\ hpc' = "boot")
           \/ (hpc = "rebuilt" /\ hpc' = "follow")
  BY DEF BootStarts, RetryFires, SignalWalk, IncrementalDone, Lapse, UnmatchedRow
<1>5. fresh' \in BOOLEAN
  BY DEF BootStarts, RetryFires, SignalWalk, IncrementalDone, Lapse, UnmatchedRow, StoreInv
<1>6. signal' \in BOOLEAN
  BY DEF BootStarts, RetryFires, SignalWalk, IncrementalDone, Lapse, UnmatchedRow, StoreInv
<1>7. unmatched' \in BOOLEAN /\ (unmatched => unmatched')
  BY <1>1 DEF StoreInv
<1>8. \A i \in Items : watched[i].at \in Nat
  BY DEF StoreInv
<1>9. FoldsIn
  BY <1>1, <1>7, <1>8 DEF FoldsIn
<1>10. \A i \in Items : readFrom'[i] <= plays[i]
  <2> SUFFICES ASSUME NEW i \in Items PROVE readFrom'[i] <= plays[i]
    OBVIOUS
  <2>1. readFrom[i] <= plays[i] /\ plays[i] \in Nat
    BY DEF StoreInv, PlexInv
  <2> QED BY <1>3, <2>1
<1>11. readFrom' \in [Items -> Nat]
  BY <1>3 DEF StoreInv, PlexInv
<1>12. /\ hpc' \in {"boot", "reading", "rebuilt", "wait", "follow"}
       /\ (status = "complete" <=> hpc' \in {"rebuilt", "follow"})
       /\ (hpc' \in {"boot", "reading", "wait"} => gen < MaxBoots)
  BY <1>4 DEF StoreInv
<1>13. StoreInv'
  BY <1>1, <1>2, <1>5, <1>6, <1>7, <1>10, <1>11, <1>12 DEF StoreInv
<1>14. MapCovers'
  BY <1>1, <1>2, <1>7 DEF MapCovers, Present
<1> QED BY <1>9, <1>13, <1>14

\* So every step of the history reads folds rows in or replaces the map.
LEMMA HistoryStore ==
    ASSUME PlexInv, StoreInv, MapCovers, HistoryStep
    PROVE  /\ StoreInv' /\ MapCovers' /\ (FoldsIn \/ Replaces)
           /\ UNCHANGED <<cvars, owed, plexLibs, serverLibs, sectionsRead, wvars, g>>
<1>1. UNCHANGED cvars /\ UNCHANGED <<owed, plexLibs, serverLibs, sectionsRead, wvars, g>>
  BY DEF HistoryStep
<1> QED BY <1>1, ReadEndsStore, ReadFailsStore, RowStore, LoopStore DEF HistoryStep
-----------------------------------------------------------------------------
\* What the walk does to the map: it marks entries and prunes them.
LEMMA ReadItemStore ==
    ASSUME PlexInv, StoreInv, MapCovers, WalkerInv, ReadItem
    PROVE  StoreInv' /\ MapCovers'
<1>1. UNCHANGED cvars /\ UNCHANGED <<gen, status, fresh, unmatched, hpc, readFrom, seen, signal, ovars>>
  BY DEF ReadItem
<1>2. UNCHANGED <<clock, catalog, plays, unusable>> /\ UNCHANGED <<atBoot, lost>>
  BY <1>1 DEF cvars, ovars
<1>3. PICK i \in RowAt(w.lib, w.off) :
        watched' = watched \/ watched' = [watched EXCEPT ![i] = Visited(@, PassMark)]
  BY DEF ReadItem
<1>4. watched \in [Items -> [at : Nat, pass : Nat]] /\ i \in Items
  BY <1>3, RowIs DEF StoreInv
<1>5. PassMark \in Nat
  BY DEF WalkerInv, PassMark
<1>6. /\ Visited(watched[i], PassMark) \in [at : Nat, pass : Nat]
      /\ Visited(watched[i], PassMark).at = watched[i].at
  BY <1>4, <1>5 DEF Visited
<1>7. /\ watched' \in [Items -> [at : Nat, pass : Nat]]
      /\ \A j \in Items : watched'[j].at = watched[j].at
  BY <1>3, <1>4, <1>6
<1>8. StoreInv'
  BY <1>1, <1>2, <1>7 DEF StoreInv
<1>9. MapCovers'
  BY <1>1, <1>2, <1>7 DEF MapCovers, Present
<1> QED BY <1>8, <1>9

\* A prune takes keys out of the map and notes them as lost.
LEMMA PruneStore ==
    ASSUME PlexInv, StoreInv, MapCovers, Prune
    PROVE  StoreInv' /\ MapCovers' /\ lost \subseteq lost'
<1>1. UNCHANGED cvars /\ UNCHANGED <<gen, status, fresh, unmatched, hpc, readFrom, seen, signal, atBoot>>
  BY DEF Prune
<1>2. UNCHANGED <<clock, catalog, plays, unusable>>
  BY <1>1 DEF cvars
<1>3. PICK gone : /\ gone = Prunable(PassMark, p.start, p.gen)
                  /\ watched' = [i \in Items |-> IF i \in gone THEN NoEntry ELSE watched[i]]
                  /\ lost' = lost \cup {i \in gone : catalog[i] = "present"}
  BY DEF Prune
<1>4. gone \subseteq Items
  BY <1>3 DEF Prunable
<1>5. \A i \in Items : watched[i] \in [at : Nat, pass : Nat] /\ plays[i] \in Nat
  BY DEF StoreInv, PlexInv
<1>6. /\ watched' \in [Items -> [at : Nat, pass : Nat]]
      /\ \A i \in Items : watched'[i] = watched[i] \/ (i \in gone /\ watched'[i].at = 0)
  BY <1>3, <1>5 DEF NoEntry
<1>7. \A i \in Items : watched'[i].at <= plays[i]
  <2> SUFFICES ASSUME NEW i \in Items PROVE watched'[i].at <= plays[i]
    OBVIOUS
  <2>1. watched[i].at <= plays[i] /\ plays[i] \in Nat
    BY <1>5 DEF StoreInv
  <2> QED BY <1>6, <2>1
<1>8. status # "complete" => \A i \in Items : watched'[i].at = 0
  BY <1>6 DEF StoreInv
<1>9. lost' \subseteq Items /\ lost \subseteq lost'
  BY <1>3, <1>4 DEF StoreInv
<1>10. StoreInv'
  BY <1>1, <1>2, <1>6, <1>7, <1>8, <1>9 DEF StoreInv
<1>11. MapCovers'
  <2> SUFFICES ASSUME status = "complete", ~unmatched, NEW i \in Items \ lost', catalog[i] = "present"
               PROVE  watched'[i].at >= atBoot[i]
    BY <1>1, <1>2 DEF MapCovers, Present
  <2>1. i \notin gone /\ i \notin lost
    BY <1>3
  <2> QED BY <1>6, <2>1 DEF MapCovers, Present
<1> QED BY <1>9, <1>10, <1>11

\* The other steps of the walk do not touch the history's map.
LEMMA WalkStore ==
    ASSUME PlexInv, StoreInv, MapCovers, WalkerInv, WalkStep
    PROVE  /\ PlexInv' /\ StoreInv' /\ MapCovers'
           /\ UNCHANGED cvars /\ UNCHANGED <<gen, status, unmatched, atBoot, plexLibs, serverLibs>>
           /\ lost \subseteq lost'
<1>1. UNCHANGED cvars /\ UNCHANGED <<gen, status, unmatched, atBoot, plexLibs, serverLibs>>
  BY DEF WalkStep, FullPass, BeginPass, SectionsKnown, TimerFires, StalePass, PassGen, NextLibrary, ReadItem,
         ReadEnds, StoreWalk, WalkFails, EndPass, Prune, hvars, ovars
<1>2. PlexInv'
  BY <1>1 DEF PlexInv, cvars
<1>3. CASE ReadItem
  BY <1>1, <1>2, <1>3, ReadItemStore DEF ReadItem, ovars
<1>4. CASE Prune
  BY <1>1, <1>2, <1>4, PruneStore
<1>5. CASE ~ReadItem /\ ~Prune
  <2>1. /\ UNCHANGED <<gen, status, fresh, watched, unmatched, hpc, readFrom, seen, atBoot, lost>>
        /\ (signal' = signal \/ signal' = FALSE)
    BY <1>5 DEF WalkStep, FullPass, BeginPass, SectionsKnown, TimerFires, StalePass, PassGen, NextLibrary,
         ReadEnds, StoreWalk, WalkFails, EndPass, hvars, ovars
  <2>2. UNCHANGED <<clock, catalog, plays, unusable>>
    BY <1>1 DEF cvars
  <2>3. StoreInv'
    BY <2>1, <2>2 DEF StoreInv
  <2>4. MapCovers'
    BY <2>1, <2>2 DEF MapCovers, Present
  <2> QED BY <1>1, <1>2, <2>1, <2>3, <2>4
<1> QED BY <1>3, <1>4, <1>5

\* The library list, the passes and the ghost in the steps of the others.
LEMMA WalkerAside ==
    ASSUME PlexInv, WalkerInv,
           PlexStep \/ RefreshLibraries \/ RefreshSections \/ HistoryStep \/ UNCHANGED vars
    PROVE  WalkerInv'
<1>1. /\ UNCHANGED <<walks, passDone, pass, wpc, p>>
      /\ w' \in ItemWalks /\ w'.lib = w.lib
  <2>1. CASE PlexStep
    BY <2>1, PlexSteps, PlexWalk
  <2>2. CASE ~PlexStep
    BY <2>2 DEF RefreshLibraries, RefreshSections, HistoryStep, vars, wvars, WalkerInv
  <2> QED BY <2>1, <2>2
<1>2. clock <= clock' /\ clock \in Nat /\ clock' \in Nat
  BY PlexSteps DEF RefreshLibraries, RefreshSections, HistoryStep, vars, cvars, PlexOnward, PlexInv
<1>3. p.start \in Nat /\ p.start <= clock'
  BY <1>2 DEF WalkerInv, Passes
<1>4. CASE UNCHANGED g
  BY <1>1, <1>3, <1>4 DEF WalkerInv
<1>5. CASE g' # g
  <2>1. wpc = "read" /\ g' = [g EXCEPT !.shifted = @ \cup {w.lib}]
    BY <1>5 DEF PlexStep, RefreshLibraries, RefreshSections, HistoryStep, vars
  <2>2. w.lib \in g.listed /\ g \in Ghosts /\ g.shifted \subseteq g.listed
    BY <2>1 DEF WalkerInv
  <2>3. g' \in Ghosts /\ g'.shifted \subseteq g'.listed /\ g'.listed = g.listed
    BY <2>1, <2>2 DEF Ghosts
  <2> QED BY <1>1, <1>3, <2>3 DEF WalkerInv
<1> QED BY <1>4, <1>5
-----------------------------------------------------------------------------
\* A pass walks video libraries, and skips some only when it says so.
LEMMA WalkableVideo ==
    ASSUME NEW list \in SUBSET Libs
    PROVE  /\ Walkable(list) \in SUBSET VideoLibs /\ Walkable(list) \subseteq Video(list)
           /\ Video(list) \in SUBSET Libs
           /\ Skipped(list) \in BOOLEAN /\ (~Skipped(list) => Walkable(list) = Video(list))
<1>1. Skipped(list) \in BOOLEAN
  BY Zenon DEF Skipped
<1> QED BY <1>1 DEF Walkable, Video, Skipped

\* A set of libraries has a first one in id order.
LEMMA LeastLibrary ==
    ASSUME NEW ls \in SUBSET Libs, ls # {}
    PROVE  (CHOOSE x \in ls : \A y \in ls : x <= y) \in ls
<1> SUFFICES \E x \in ls : \A y \in ls : x <= y
  OBVIOUS
<1>0. ls \subseteq Nat
  BY CatalogAssumption
<1>1. PICK R : R = OpToRel(<, Nat)
  OBVIOUS
<1>2. \A x, y \in Nat : <<x, y>> \in R <=> x < y
  BY <1>1 DEF OpToRel
<1>3. IsWellFoundedOn(R, Nat)
  BY <1>1, NatLessThanWellFounded, Zenon
<1>4. PICK x \in ls : \A y \in ls : ~(<<y, x>> \in R)
  BY <1>0, <1>3, WFMin, Zenon
<1>5. ASSUME NEW y \in ls PROVE x <= y
  <2>1. x \in Nat /\ y \in Nat /\ ~(y < x)
    BY <1>0, <1>2, <1>4
  <2> QED BY <2>1
<1> QED BY <1>5, Zenon

\* Generations are counted.
LEMMA GenNat == StoreInv => gen \in Nat
<1> SUFFICES ASSUME StoreInv PROVE gen \in Nat
  OBVIOUS
<1>1. gen \in 0..MaxBoots
  BY DEF StoreInv
<1> QED BY <1>1, Bounds

\* A pass begins with nothing done.
LEMMA WalkerBegins ==
    ASSUME PlexInv, WalkerInv, FullPass \/ StalePass
    PROVE  WalkerInv'
<1>1. PICK stale \in BOOLEAN :
        /\ p' = [stale |-> stale, libs |-> Walkable(serverLibs), skipped |-> Skipped(serverLibs),
                 todo |-> Walkable(serverLibs), start |-> clock, gen |-> 0, allOK |-> TRUE]
        /\ g' = [NoGhost EXCEPT !.listed = Video(serverLibs)]
        /\ wpc' = "gen" /\ UNCHANGED cvars /\ UNCHANGED <<walks, passDone, pass, w>>
        /\ ~stale => wpc = "due"
  BY DEF FullPass, StalePass, BeginPass
<1>2. serverLibs \in SUBSET Libs /\ clock \in Nat /\ clock' = clock
  BY <1>1 DEF PlexInv, cvars
<1>3. p' \in Passes /\ p'.todo = p'.libs /\ p'.stale = stale /\ p'.start = clock /\ p'.libs = Walkable(serverLibs)
      /\ p'.skipped = Skipped(serverLibs)
  BY <1>1, <1>2, WalkableVideo DEF Passes
<1>4. g' \in Ghosts /\ g'.listed = Video(serverLibs) /\ g'.shifted = {}
  BY <1>1, <1>2, WalkableVideo DEF Ghosts, NoGhost
<1>5. ~p'.skipped => p'.libs = g'.listed
  BY <1>2, <1>3, <1>4, WalkableVideo
<1>6. p'.libs \subseteq g'.listed
  BY <1>2, <1>3, <1>4, WalkableVideo
<1>7. wpc = "due" => pass < MaxPass
  BY DEF WalkerInv
<1>8. walks' \in [Libs -> LibWalks] /\ passDone' \in BOOLEAN /\ pass' \in 0..MaxPass /\ w' \in ItemWalks
  BY <1>1 DEF WalkerInv
<1> QED BY <1>1, <1>2, <1>3, <1>4, <1>5, <1>6, <1>7, <1>8 DEF WalkerInv

\* Its bookkeeping holds from library to library.
LEMMA WalkerMoves ==
    ASSUME WalkerInv, StoreInv, PlexInv, SectionsKnown \/ TimerFires \/ PassGen \/ NextLibrary
    PROVE  WalkerInv'
<1>1. clock' = clock
  BY DEF SectionsKnown, TimerFires, PassGen, NextLibrary, cvars
<1>2. CASE SectionsKnown \/ TimerFires
  BY <1>1, <1>2 DEF WalkerInv, SectionsKnown, TimerFires
<1>3. CASE PassGen
  <2>1. /\ wpc = "gen" /\ wpc' = "next" /\ p' = [p EXCEPT !.gen = gen]
        /\ pass' = IF p.stale THEN pass ELSE pass + 1
        /\ UNCHANGED <<walks, passDone, w, g>>
    BY <1>3 DEF PassGen, wvars
  <2>2. p \in Passes /\ gen \in Nat
    BY GenNat DEF WalkerInv
  <2>3. /\ p' \in Passes /\ p'.stale = p.stale /\ p'.libs = p.libs /\ p'.todo = p.todo
        /\ p'.skipped = p.skipped /\ p'.start = p.start
    BY <2>1, <2>2 DEF Passes
  <2>4. pass' \in 0..MaxPass /\ (~p.stale => pass' > 0)
    <3>1. pass \in 0..MaxPass /\ (~p.stale => pass < MaxPass)
      BY <2>1 DEF WalkerInv
    <3> QED BY <2>1, <3>1, Bounds
  <2> QED BY <1>1, <2>1, <2>3, <2>4 DEF WalkerInv
<1>4. CASE NextLibrary
  <2>1. PICK l \in p.todo :
          /\ wpc = "next" /\ p' = [p EXCEPT !.todo = @ \ {l}]
          /\ \/ UNCHANGED <<w, wpc>>
             \/ /\ w' = [NoItemWalk EXCEPT !.lib = l, !.gen0 = StampableGen, !.due = RowsOf(l)]
                /\ wpc' = "read"
          /\ UNCHANGED <<walks, passDone, pass, g>>
    <3> DEFINE l == CHOOSE x \in p.todo : \A y \in p.todo : x <= y
    <3>1. l \in p.todo
      <4>1. p.todo \in SUBSET Libs /\ p.todo # {}
        BY <1>4, WalkAssumption DEF NextLibrary, WalkerInv, Passes
      <4> QED BY <4>1, LeastLibrary
    <3> HIDE DEF l
    <3> QED BY <1>4, <3>1 DEF NextLibrary, l
  <2>2. p \in Passes /\ p.todo \subseteq p.libs
    BY DEF WalkerInv
  <2>3. /\ p' \in Passes /\ p'.stale = p.stale /\ p'.libs = p.libs /\ p'.todo = p.todo \ {l}
        /\ p'.skipped = p.skipped /\ p'.start = p.start
    BY <2>1, <2>2 DEF Passes
  <2>4. l \in Nat /\ StampableGen \in Nat /\ NoFig \in Figs /\ RowsOf(l) \in SUBSET Items
    <3>1. l \in Libs
      BY <2>1, <2>2, WalkAssumption DEF Passes
    <3>2. gen \in Nat
      BY GenNat
    <3> QED BY <3>1, <3>2, CatalogAssumption DEF StampableGen, NoFig, Figs, RowsOf
  <2>5. /\ w' \in ItemWalks
        /\ wpc' = "next" \/ (wpc' = "read" /\ w'.lib = l)
    <3>1. NoItemWalk \in ItemWalks /\ w \in ItemWalks
      BY <2>4 DEF NoItemWalk, ItemWalks, WalkerInv
    <3>2. /\ [NoItemWalk EXCEPT !.lib = l, !.gen0 = StampableGen, !.due = RowsOf(l)] \in ItemWalks
          /\ [NoItemWalk EXCEPT !.lib = l, !.gen0 = StampableGen, !.due = RowsOf(l)].lib = l
      BY <2>4, <3>1 DEF ItemWalks
    <3> QED BY <2>1, <3>1, <3>2
  <2>6. (wpc' # "store" /\ wpc' # "read") \/ w'.lib \in p'.libs \ p'.todo
    BY <2>1, <2>2, <2>3, <2>5
  <2> QED BY <1>1, <2>1, <2>2, <2>3, <2>5, <2>6 DEF WalkerInv
<1> QED BY <1>2, <1>3, <1>4

\* And from row to row, and when a walk is stored or fails.
LEMMA WalkerReads ==
    ASSUME WalkerInv, StoreInv, PlexInv, ReadItem \/ ReadEnds \/ StoreWalk \/ WalkFails
    PROVE  WalkerInv'
<1>1. clock' = clock
  BY DEF ReadItem, ReadEnds, StoreWalk, WalkFails, cvars
<1>2. /\ w \in ItemWalks /\ (wpc \in {"read", "store"} => w.lib \in p.libs \ p.todo)
      /\ p \in Passes /\ g \in Ghosts /\ walks \in [Libs -> LibWalks]
  BY DEF WalkerInv
<1>3. CASE ReadItem
  <2>1. PICK i \in RowAt(w.lib, w.off) :
          /\ \/ w' = [w EXCEPT !.off = @ + 1, !.fig[i] = watched[i].at]
             \/ w' = [w EXCEPT !.off = @ + 1]
          /\ g' = g \/ g' = [g EXCEPT !.unmarked = @ \cup {i}]
    BY <1>3 DEF ReadItem
  <2>2. UNCHANGED <<walks, passDone, pass, wpc, p>>
    BY <1>3 DEF ReadItem
  <2>3. i \in Items /\ watched[i].at \in 0..MaxClock
    <3>1. i \in Items
      BY <2>1, RowIs
    <3>2. watched[i].at \in Nat /\ watched[i].at <= plays[i] /\ plays[i] <= clock /\ plays[i] \in Nat /\ clock \in 0..MaxClock
      BY <3>1 DEF StoreInv, PlexInv
    <3> QED BY <3>1, <3>2, Bounds
  <2>4. w' \in ItemWalks /\ w'.lib = w.lib
    <3>1. CASE w' = [w EXCEPT !.off = @ + 1]
      BY <1>2, <3>1 DEF ItemWalks
    <3>2. CASE w' = [w EXCEPT !.off = @ + 1, !.fig[i] = watched[i].at]
      <4> DEFINE f == [w.fig EXCEPT ![i] = watched[i].at]
      <4>1. w' = [w EXCEPT !.off = w.off + 1, !.fig = f]
        BY <3>2
      <4>2. f \in Figs
        BY <1>2, <2>3 DEF ItemWalks, Figs
      <4>3. w \in ItemWalks /\ w.off + 1 \in Nat
        BY <1>2 DEF ItemWalks
      <4> HIDE DEF f
      <4>4. PICK off \in Nat : off = w.off + 1
        BY <4>3
      <4>5. w' = [w EXCEPT !.off = off, !.fig = f]
        BY <4>1, <4>4
      <4>6. w' \in ItemWalks
        BY <4>2, <4>3, <4>5 DEF ItemWalks
      <4>7. w'.lib = w.lib
        BY <4>3, <4>5 DEF ItemWalks
      <4> QED BY <4>6, <4>7
    <3> QED BY <2>1, <3>1, <3>2
  <2>5. g' \in Ghosts /\ g'.listed = g.listed /\ g'.shifted = g.shifted
    BY <1>2, <2>1, <2>3 DEF Ghosts
  <2> QED BY <1>1, <2>2, <2>4, <2>5 DEF WalkerInv
<1>4. CASE ReadEnds
  <2>1. /\ wpc = "read" /\ wpc' = "store" /\ UNCHANGED <<walks, passDone, pass, p, g>>
        /\ w' = [w EXCEPT !.stamp = IF w.gen0 # 0 /\ w.gen0 = StampableGen THEN w.gen0 ELSE 0]
    BY <1>4 DEF ReadEnds
  <2>2. w' \in ItemWalks /\ w'.lib = w.lib
    BY <1>2, <2>1 DEF ItemWalks
  <2> QED BY <1>1, <2>1, <2>2 DEF WalkerInv
<1>5. NoItemWalk \in ItemWalks
  BY CatalogAssumption DEF NoItemWalk, NoFig, ItemWalks, Figs
<1>6. CASE StoreWalk
  <2>1. /\ wpc = "store" /\ wpc' = "next" /\ w' = NoItemWalk /\ UNCHANGED <<passDone, pass, p, g>>
        /\ walks' = [walks EXCEPT ![w.lib] =
                       [walked |-> TRUE, failed |-> FALSE, stamp |-> w.stamp, fig |-> w.fig]]
    BY <1>6 DEF StoreWalk
  <2>2. walks' \in [Libs -> LibWalks]
    BY <1>2, <2>1 DEF ItemWalks, LibWalks
  <2> QED BY <1>1, <1>5, <2>1, <2>2 DEF WalkerInv
<1>7. CASE WalkFails
  <2>1. /\ wpc = "read" /\ wpc' = "next" /\ w' = NoItemWalk /\ UNCHANGED <<passDone, pass, g>>
        /\ walks' = [walks EXCEPT ![w.lib].failed = TRUE]
        /\ p' = [p EXCEPT !.allOK = FALSE]
    BY <1>7 DEF WalkFails
  <2>2. walks' \in [Libs -> LibWalks]
    BY <1>2, <2>1 DEF LibWalks
  <2>3. /\ p' \in Passes /\ p'.stale = p.stale /\ p'.libs = p.libs /\ p'.todo = p.todo
        /\ p'.skipped = p.skipped /\ p'.start = p.start
    BY <1>2, <2>1 DEF Passes
  <2> QED BY <1>1, <1>5, <2>1, <2>2, <2>3 DEF WalkerInv
<1> QED BY <1>3, <1>4, <1>6, <1>7

\* And when a pass ends, with or without a prune.
LEMMA WalkerEnds ==
    ASSUME WalkerInv, StoreInv, PlexInv, EndPass \/ Prune
    PROVE  WalkerInv'
<1>1. clock' = clock /\ pass' = pass /\ w' = w
  BY DEF EndPass, Prune, cvars
<1>2. /\ NoPass \in Passes /\ NoPass.todo = {} /\ NoPass.libs = {} /\ ~NoPass.skipped /\ NoPass.start = 0
  BY DEF NoPass, Passes
<1>3. NoGhost \in Ghosts /\ NoGhost.listed = {} /\ NoGhost.shifted = {}
  BY DEF NoGhost, Ghosts
<1>4. walks' \in [Libs -> LibWalks] /\ passDone' \in BOOLEAN
  <2>1. NoWalk \in LibWalks
    BY CatalogAssumption DEF NoWalk, NoFig, LibWalks, Figs
  <2>2. walks \in [Libs -> LibWalks] /\ passDone \in BOOLEAN
    BY DEF WalkerInv
  <2>3. passDone' = passDone \/ passDone' = TRUE
    BY DEF EndPass, Prune
  <2>4. walks' = walks \/ walks' = [l \in Libs |-> IF l \in p.libs THEN walks[l] ELSE NoWalk]
    BY DEF EndPass, Prune
  <2>5. walks' \in [Libs -> LibWalks]
    BY <2>1, <2>2, <2>4
  <2> QED BY <2>2, <2>3, <2>5
<1>5. \/ wpc' = "idle" /\ p' = NoPass /\ g' = NoGhost
      \/ wpc' = "prune" /\ UNCHANGED <<p, g>> /\ ~p.stale /\ p.allOK /\ ~p.skipped /\ p.todo = {} /\ wpc = "next"
  BY DEF EndPass, Prune
<1>6. clock \in Nat
  BY DEF PlexInv
<1>7. CASE wpc' = "idle" /\ p' = NoPass /\ g' = NoGhost
  BY <1>1, <1>2, <1>3, <1>4, <1>6, <1>7, SMTT(30) DEF WalkerInv
<1>8. CASE wpc' = "prune" /\ UNCHANGED <<p, g>> /\ ~p.stale /\ p.allOK /\ ~p.skipped /\ p.todo = {} /\ wpc = "next"
  BY <1>1, <1>4, <1>8 DEF WalkerInv
<1> QED BY <1>5, <1>7, <1>8

\* No other step touches it.
LEMMA WalkerStep ==
    ASSUME PlexInv, StoreInv, WalkerInv, [Next]_vars
    PROVE  WalkerInv'
BY WalkerAside, WalkerBegins, WalkerMoves, WalkerReads, WalkerEnds DEF Next, WalkStep
-----------------------------------------------------------------------------
\* A new generation uncovers every stamp; in the same one nothing that a stamp
\* vouches for grows.
SameMap == UNCHANGED <<gen, status, atBoot>> /\ (unmatched => unmatched') /\ lost \subseteq lost'

\* Figures stay covered while the map only grows or keys are lost to a prune.
LEMMA StampsCarry ==
    ASSUME SameMap, p'.gen <= gen, w'.gen0 <= gen, w'.stamp \in {0, w'.gen0}, Covering(w'.gen0, w'.fig),
           \A l \in Libs : walks'[l].stamp <= gen /\ Covering(walks'[l].stamp, walks'[l].fig)
    PROVE  StampInv'
<1>1. gen' = gen /\ status' = status /\ atBoot' = atBoot /\ (unmatched => unmatched') /\ lost \subseteq lost'
  BY DEF SameMap
<1>2. p'.gen <= gen' /\ w'.gen0 <= gen' /\ \A l \in Libs : walks'[l].stamp <= gen'
  BY <1>1
<1>3. (w'.gen0 # 0 /\ w'.gen0 = gen') =>
        /\ status' = "complete"
        /\ ~unmatched' => \A i \in Items \ lost' : w'.fig[i] # Never => w'.fig[i] >= atBoot'[i]
  BY <1>1 DEF Covering
<1>4. \A l \in Libs : (walks'[l].stamp # 0 /\ walks'[l].stamp = gen') =>
        /\ status' = "complete"
        /\ ~unmatched' => \A i \in Items \ lost' : walks'[l].fig[i] # Never => walks'[l].fig[i] >= atBoot'[i]
  BY <1>1 DEF Covering
<1> QED BY <1>2, <1>3, <1>4 DEF StampInv, Covering

\* A new generation leaves every stamp behind it.
LEMMA StampsReplaced ==
    ASSUME StoreInv, WalkerInv, StampInv, gen' = gen + 1, UNCHANGED <<walks, p>>,
           w'.gen0 = w.gen0, w'.stamp = w.stamp
    PROVE  StampInv'
<1>1. gen \in Nat /\ p.gen \in Nat /\ w.gen0 \in Nat /\ \A l \in Libs : walks[l].stamp \in Nat
  BY GenNat DEF WalkerInv, Passes, ItemWalks, LibWalks
<1>2. p.gen < gen' /\ w.gen0 < gen' /\ \A l \in Libs : walks[l].stamp < gen'
  BY <1>1 DEF StampInv
<1>3. w.stamp \in {0, w.gen0}
  BY DEF StampInv
<1> QED BY <1>1, <1>2, <1>3 DEF StampInv, Covering

\* Steps of others keep the stamps.
LEMMA StampsAside ==
    ASSUME PlexInv, StoreInv, WalkerInv, MapCovers, StampInv,
           PlexStep \/ RefreshLibraries \/ RefreshSections \/ HistoryStep \/ UNCHANGED vars
    PROVE  StampInv'
<1>1. UNCHANGED <<walks, p>> /\ w'.gen0 = w.gen0 /\ w'.stamp = w.stamp /\ w'.fig = w.fig
  BY PlexSteps, PlexWalk DEF RefreshLibraries, RefreshSections, HistoryStep, vars, wvars
<1>2. CASE Replaces
  BY <1>1, <1>2, StampsReplaced DEF Replaces
<1>3. CASE SameMap
  BY <1>1, <1>3, StampsCarry DEF StampInv
<1>4. CASE HistoryStep
  <2>1. FoldsIn \/ Replaces
    BY <1>4, HistoryStore
  <2> QED BY <1>2, <1>3, <2>1 DEF FoldsIn, SameMap
<1>5. CASE PlexStep \/ RefreshLibraries \/ RefreshSections \/ UNCHANGED vars
  <2>1. UNCHANGED <<gen, status, unmatched, atBoot, lost>>
    BY <1>5, PlexSteps DEF RefreshLibraries, RefreshSections, vars, hvars, ovars
  <2> QED BY <1>3, <2>1 DEF SameMap
<1> QED BY <1>4, <1>5

\* Steps of the walk keep them: a walk is stamped with the generation that it
\* read, or with none.
LEMMA StampsWalk ==
    ASSUME PlexInv, StoreInv, WalkerInv, MapCovers, StampInv, WalkStep
    PROVE  StampInv'
<1>1. SameMap
  BY WalkStore DEF SameMap
<1>2. /\ gen \in Nat /\ p \in Passes /\ w \in ItemWalks /\ walks \in [Libs -> LibWalks]
      /\ (wpc \in {"read", "store"} => w.lib \in p.libs \ p.todo)
  BY GenNat DEF WalkerInv
<1>3. /\ p.gen <= gen /\ w.gen0 <= gen /\ w.stamp \in {0, w.gen0} /\ Covering(w.gen0, w.fig)
      /\ \A l \in Libs : walks[l].stamp <= gen /\ Covering(walks[l].stamp, walks[l].fig)
  BY DEF StampInv
<1>4. NoItemWalk.gen0 = 0 /\ NoItemWalk.stamp = 0 /\ 0 <= gen /\ Covering(NoItemWalk.gen0, NoItemWalk.fig)
  BY <1>2 DEF NoItemWalk, Covering
<1>5. NoPass.gen = 0 /\ NoWalk.stamp = 0 /\ NoWalk.stamp <= gen /\ Covering(NoWalk.stamp, NoWalk.fig)
  BY <1>2 DEF NoPass, NoWalk, Covering
<1>6. CASE FullPass \/ StalePass \/ SectionsKnown \/ TimerFires \/ PassGen
  <2>1. UNCHANGED <<walks, w>> /\ (p' = p \/ p'.gen = 0 \/ p' = [p EXCEPT !.gen = gen])
    BY <1>6 DEF FullPass, StalePass, BeginPass, SectionsKnown, TimerFires, PassGen, wvars
  <2>2. p'.gen <= gen
    BY <1>2, <1>3, <2>1 DEF Passes
  <2> QED BY <1>1, <1>3, <2>1, <2>2, StampsCarry
<1>7. CASE NextLibrary
  <2>1. PICK l : /\ p' = [p EXCEPT !.todo = @ \ {l}] /\ UNCHANGED walks
                 /\ w' = w \/ w' = [NoItemWalk EXCEPT !.lib = l, !.gen0 = StampableGen,
                                                      !.due = RowsOf(l)]
    BY <1>7 DEF NextLibrary
  <2>2. p'.gen = p.gen
    BY <1>2, <2>1 DEF Passes
  <2>3. CASE w' = w
    BY <1>1, <1>3, <2>1, <2>2, <2>3, StampsCarry
  <2>4. CASE w' = [NoItemWalk EXCEPT !.lib = l, !.gen0 = StampableGen, !.due = RowsOf(l)]
    <3>1. w'.gen0 = StampableGen /\ w'.stamp = 0 /\ w'.fig = NoFig
      BY <2>4 DEF NoItemWalk
    <3>2. StampableGen \in {0, gen} /\ (StampableGen # 0 => status = "complete")
      BY DEF StampableGen, Current
    <3>3. Covering(w'.gen0, w'.fig)
      BY <3>1, <3>2 DEF Covering, NoFig
    <3>4. w'.gen0 <= gen
      BY <1>2, <3>1, <3>2
    <3> QED BY <1>1, <1>3, <2>1, <2>2, <3>1, <3>3, <3>4, StampsCarry
  <2> QED BY <2>1, <2>3, <2>4
<1>8. CASE ReadItem
  <2>1. PICK i \in RowAt(w.lib, w.off) :
          \/ w' = [w EXCEPT !.off = @ + 1, !.fig[i] = watched[i].at]
          \/ w' = [w EXCEPT !.off = @ + 1]
    BY <1>8 DEF ReadItem
  <2>2. UNCHANGED <<walks, p>>
    BY <1>8 DEF ReadItem
  <2>3. i \in Items /\ Present(i)
    BY RowIs
  <2>4. /\ w'.gen0 = w.gen0 /\ w'.stamp = w.stamp
        /\ \A j \in Items : w'.fig[j] = w.fig[j] \/ (j = i /\ w'.fig[j] = watched[i].at)
    BY <1>2, <2>1, <2>3, ZenonT(30) DEF ItemWalks, Figs
  <2>5. Covering(w'.gen0, w'.fig)
    <3> SUFFICES ASSUME w.gen0 # 0, w.gen0 = gen
                 PROVE  /\ status = "complete"
                        /\ ~unmatched => \A j \in Items \ lost : w'.fig[j] # Never => w'.fig[j] >= atBoot[j]
      BY <2>4 DEF Covering
    <3>1. /\ status = "complete"
          /\ ~unmatched => \A j \in Items \ lost : w.fig[j] # Never => w.fig[j] >= atBoot[j]
      BY <1>3 DEF Covering
    <3>2. ~unmatched /\ i \notin lost => watched[i].at >= atBoot[i]
      BY <2>3, <3>1 DEF MapCovers
    <3> QED BY <2>4, <3>1, <3>2
  <2> QED BY <1>1, <1>3, <2>2, <2>4, <2>5, StampsCarry
<1>9. CASE ReadEnds
  <2>1. /\ w' = [w EXCEPT !.stamp = IF w.gen0 # 0 /\ w.gen0 = StampableGen THEN w.gen0 ELSE 0]
        /\ UNCHANGED <<walks, p>>
    BY <1>9 DEF ReadEnds
  <2>2. w'.gen0 = w.gen0 /\ w'.stamp \in {0, w.gen0} /\ w'.fig = w.fig
    BY <1>2, <2>1 DEF ItemWalks
  <2> QED BY <1>1, <1>3, <2>1, <2>2, StampsCarry
<1>10. CASE StoreWalk
  <2>1. /\ w' = NoItemWalk /\ UNCHANGED p /\ w.lib \in Libs
        /\ walks' = [walks EXCEPT ![w.lib] =
                       [walked |-> TRUE, failed |-> FALSE, stamp |-> w.stamp, fig |-> w.fig]]
    BY <1>2, <1>10, WalkAssumption DEF StoreWalk, Passes
  <2>2. w.stamp <= gen /\ Covering(w.stamp, w.fig)
    BY <1>2, <1>3 DEF Covering
  <2>3. \A l \in Libs : walks'[l].stamp <= gen /\ Covering(walks'[l].stamp, walks'[l].fig)
    <3> SUFFICES ASSUME NEW l \in Libs
                 PROVE  walks'[l].stamp <= gen /\ Covering(walks'[l].stamp, walks'[l].fig)
      OBVIOUS
    <3>1. CASE l = w.lib
      <4>1. walks'[l].stamp = w.stamp /\ walks'[l].fig = w.fig
        BY <1>2, <2>1, <3>1
      <4> QED BY <2>2, <4>1
    <3>2. CASE l # w.lib
      <4>1. walks'[l] = walks[l]
        BY <1>2, <2>1, <3>2
      <4> QED BY <1>3, <4>1
    <3> QED BY <3>1, <3>2
  <2> QED BY <1>1, <1>3, <1>4, <2>1, <2>3, StampsCarry
<1>11. CASE WalkFails
  <2>1. /\ w' = NoItemWalk /\ p' = [p EXCEPT !.allOK = FALSE]
        /\ walks' = [walks EXCEPT ![w.lib].failed = TRUE]
    BY <1>11 DEF WalkFails
  <2>2. p'.gen = p.gen
    BY <1>2, <2>1 DEF Passes
  <2>3. \A l \in Libs : walks'[l].stamp = walks[l].stamp /\ walks'[l].fig = walks[l].fig
    BY <1>2, <2>1 DEF LibWalks
  <2> QED BY <1>1, <1>3, <1>4, <2>1, <2>2, <2>3, StampsCarry
<1>12. CASE EndPass \/ Prune
  <2>1. /\ w' = w /\ (p' = p \/ p' = NoPass)
        /\ walks' = walks \/ walks' = [l \in Libs |-> IF l \in p.libs THEN walks[l] ELSE NoWalk]
    BY <1>12 DEF EndPass, Prune
  <2>2. \A l \in Libs : walks'[l] = walks[l] \/ walks'[l] = NoWalk
    BY <2>1
  <2>3. p'.gen <= gen
    BY <1>3, <1>4, <1>5, <2>1
  <2>4. \A l \in Libs : walks'[l].stamp <= gen /\ Covering(walks'[l].stamp, walks'[l].fig)
    BY <1>3, <1>5, <2>2
  <2> QED BY <1>1, <1>3, <2>1, <2>3, <2>4, StampsCarry
<1> QED BY <1>6, <1>7, <1>8, <1>9, <1>10, <1>11, <1>12 DEF WalkStep
-----------------------------------------------------------------------------
\* What has been spared stays so while the pass goes on in the same map.
LEMMA PassFolds ==
    ASSUME PassInv, StampInv, UNCHANGED <<cvars, wvars, g>>, FoldsIn
    PROVE  PassInv'
<1>1. UNCHANGED <<clock, catalog, plays, walks, pass, wpc, p, w, g, gen, status>>
  BY DEF cvars, wvars, FoldsIn
<1>2. \A i \in Items : Passed(i)' <=> Passed(i)
  BY <1>1 DEF Passed, Present, Rank
<1>3. CleanPass' <=> CleanPass
  BY <1>1 DEF CleanPass
<1>4. ASSUME NEW i \in Items, Spared(i) PROVE Spared(i)'
  <2>1. watched'[i].pass = watched[i].pass /\ (watched'[i].at = watched[i].at \/ watched'[i].at = plays[i])
    BY DEF FoldsIn
  <2> QED BY <1>1, <1>4, <2>1 DEF Spared, Since
<1> QED BY <1>2, <1>3, <1>4 DEF PassInv

\* What a pass has seen stays true under the steps of the history and of a Refresh.
LEMMA PassAside ==
    ASSUME PlexInv, StoreInv, MapCovers, WalkerInv, StampInv, PassInv,
           RefreshLibraries \/ RefreshSections \/ HistoryStep \/ UNCHANGED vars
    PROVE  PassInv'
<1>1. CASE RefreshLibraries \/ RefreshSections \/ UNCHANGED vars
  <2>1. UNCHANGED <<cvars, wvars, g, hvars>>
    BY <1>1 DEF RefreshLibraries, RefreshSections, vars
  <2> QED BY <2>1 DEF PassInv, CleanPass, Passed, Present, Rank, Spared, Since, cvars, wvars, hvars
<1>2. CASE HistoryStep
  <2>1. (FoldsIn \/ Replaces) /\ UNCHANGED <<cvars, wvars, g>>
    BY <1>2, HistoryStore
  <2>2. CASE FoldsIn
    BY <2>1, <2>2, PassFolds
  <2>3. CASE Replaces
    <3>1. p.gen <= gen /\ p.gen \in Nat /\ gen \in Nat /\ gen' = gen + 1 /\ p' = p
      BY <2>1, <2>3, GenNat DEF StampInv, WalkerInv, Passes, Replaces, wvars
    <3>2. gen' # p'.gen
      BY <3>1
    <3> QED BY <3>2 DEF PassInv, CleanPass
  <2> QED BY <2>1, <2>2, <2>3
<1> QED BY <1>1, <1>2

\* It stays true under those of Plex: a listing that shifts under a walk is noted.
LEMMA PassPlex ==
    ASSUME PlexInv, StoreInv, WalkerInv, PassInv, PlexStep
    PROVE  PassInv'
<1>1. /\ UNCHANGED <<gen, status, watched>> /\ UNCHANGED <<pass, wpc, p>>
      /\ w'.lib = w.lib /\ w'.off = w.off /\ w'.fig = w.fig
      /\ PlexOnward
  BY PlexSteps, PlexWalk DEF hvars
<1>2. /\ g \in Ghosts /\ p \in Passes /\ w.off \in Nat /\ p.start <= clock
  BY DEF WalkerInv, ItemWalks
<1> SUFFICES ASSUME CleanPass, NEW i \in Items, Passed(i)' PROVE Spared(i)'
  BY <1>1 DEF PassInv, CleanPass
<1>3. catalog'[i] = "present" /\ Home[i] \in p.libs \ p.todo /\ Home[i] \notin g'.shifted
      /\ (wpc = "read" /\ Home[i] = w.lib => Rank(i)' < w.off \/ w.fig[i] # Never)
  BY <1>1 DEF Passed, Present
<1>4. g' = g \/ (wpc = "read" /\ g' = [g EXCEPT !.shifted = @ \cup {w.lib}])
  BY DEF PlexStep
<1>5. g.shifted \subseteq g'.shifted /\ g'.unmarked = g.unmarked
  BY <1>2, <1>4 DEF Ghosts
<1>6. Spared(i) => Spared(i)'
  <2>1. plays'[i] = plays[i] \/ plays'[i] >= p.start
    <3>1. plays'[i] = plays[i] \/ plays'[i] = clock
      BY <1>1 DEF PlexOnward
    <3> QED BY <1>2, <3>1
  <2> QED BY <1>1, <1>5, <2>1 DEF Spared, Since
<1>7. Passed(i) => Spared(i)
  BY DEF PassInv
<1>8. CASE \/ Advance /\ UNCHANGED <<plexLibs, w, owed, g>>
           \/ \E k \in Items : PlayItem(k) /\ UNCHANGED <<plexLibs, w, owed, g>>
  <2>1. catalog' = catalog
    BY <1>8 DEF Advance, PlayItem
  <2>2. Passed(i)
    BY <1>3, <1>5, <2>1 DEF Passed, Present, Rank
  <2> QED BY <1>6, <1>7, <2>2
<1>9. ASSUME NEW k \in Items, AddItem(k) PROVE Spared(i)'
  <2>1. catalog[k] = "future" /\ catalog' = [catalog EXCEPT ![k] = "present"] /\ plays' = plays
    BY <1>9 DEF AddItem
  <2>2. CASE i = k
    <3>1. plays[i] = 0 /\ watched[i].at \in Nat /\ watched[i].at <= plays[i]
      BY <2>1, <2>2 DEF PlexInv, StoreInv
    <3>2. Since(watched[i].at)' /\ Since(plays[i])'
      BY <1>1, <2>1, <3>1 DEF Since
    <3> QED BY <3>2 DEF Spared, Since
  <2>3. CASE i # k
    <3>1. catalog[i] = "present"
      BY <1>3, <2>1, <2>3 DEF PlexInv
    <3>2. Rank(i)' < w.off => Rank(i) < w.off
      <4>1. Rank(i)' \in Nat /\ Rank(i) <= Rank(i)' /\ Rank(i) \in Nat
        BY <2>1, RankAdd, RankCounts
      <4> QED BY <1>2, <4>1
    <3>3. Passed(i)
      BY <1>3, <1>5, <3>1, <3>2 DEF Passed, Present
    <3> QED BY <1>6, <1>7, <3>3
  <2> QED BY <2>2, <2>3
<1>10. ASSUME NEW k \in Items, DeleteItem(k),
              g' = IF wpc = "read" /\ Home[k] = w.lib /\ Rank(k) < w.off
                   THEN [g EXCEPT !.shifted = @ \cup {w.lib}] ELSE g
       PROVE  Spared(i)'
  <2>1. catalog' = [catalog EXCEPT ![k] = "gone"]
    BY <1>10 DEF DeleteItem
  <2>2. catalog[i] = "present"
    BY <1>3, <2>1 DEF PlexInv
  <2>3. wpc = "read" /\ Home[i] = w.lib /\ Rank(i)' < w.off => Rank(i) < w.off
    <3> SUFFICES ASSUME wpc = "read", Home[i] = w.lib, Rank(i)' < w.off PROVE Rank(i) < w.off
      OBVIOUS
    <3>1. Home[k] = Home[i] => ~(Rank(k) < w.off)
      BY <1>2, <1>3, <1>10 DEF Ghosts
    <3>2. Rank(k) \in Nat
      BY RankCounts
    <3>3. Home[k] = Home[i] => Rank(k) >= w.off
      BY <1>2, <3>1, <3>2
    <3>4. PICK off \in Nat : off = w.off
      BY <1>2
    <3> QED BY <2>1, <3>3, <3>4, RankDelete
  <2>4. Passed(i)
    BY <1>3, <1>5, <2>2, <2>3 DEF Passed, Present
  <2> QED BY <1>6, <1>7, <2>4
<1> QED BY <1>8, <1>9, <1>10 DEF PlexStep

\* And under the walk's own.
LEMMA PassWalk ==
    ASSUME PlexInv, StoreInv, MapCovers, WalkerInv, StampInv, PassInv, WalkStep
    PROVE  PassInv'
<1>1. UNCHANGED <<clock, catalog, plays>> /\ UNCHANGED <<gen, status>>
  BY WalkStore DEF cvars
<1>2. \A i \in Items : Rank(i)' = Rank(i) /\ (Present(i)' <=> Present(i))
  BY <1>1 DEF Rank, Present
<1>3. /\ p \in Passes /\ w \in ItemWalks /\ g \in Ghosts /\ pass \in Nat
      /\ watched \in [Items -> [at : Nat, pass : Nat]]
      /\ (wpc \in {"read", "store"} => w.lib \in p.libs \ p.todo)
  <2>1. pass \in 0..MaxPass
    BY DEF WalkerInv
  <2>2. pass \in Nat
    BY <2>1, Bounds
  <2> QED BY <2>2 DEF WalkerInv, StoreInv
<1>4. CASE FullPass \/ StalePass \/ SectionsKnown \/ TimerFires \/ WalkFails \/ Prune
  <2>1. wpc' \in {"gen", "due", "idle"} \/ ~p'.allOK
    BY <1>3, <1>4 DEF FullPass, StalePass, BeginPass, SectionsKnown, TimerFires, WalkFails, Prune, Passes
  <2> QED BY <2>1 DEF PassInv, CleanPass
<1>5. CASE PassGen
  <2>1. p'.libs \ p'.todo = {}
    BY <1>3, <1>5 DEF PassGen, Passes, WalkerInv
  <2> QED BY <2>1 DEF PassInv, Passed
<1>6. CASE NextLibrary
  <2>1. PICK l : /\ p' = [p EXCEPT !.todo = @ \ {l}] /\ UNCHANGED <<pass, watched, g>> /\ wpc = "next"
                 /\ \/ p.stale
                    \/ /\ w' = [NoItemWalk EXCEPT !.lib = l, !.gen0 = StampableGen, !.due = RowsOf(l)]
                       /\ wpc' = "read"
    BY <1>6 DEF NextLibrary, hvars
  <2>2. p'.stale = p.stale /\ p'.libs = p.libs /\ p'.todo = p.todo \ {l} /\ p'.allOK = p.allOK
        /\ p'.gen = p.gen /\ p'.start = p.start
    BY <1>3, <2>1 DEF Passes
  <2> SUFFICES ASSUME CleanPass', NEW i \in Items, Passed(i)' PROVE Spared(i)'
    BY DEF PassInv
  <2>3. w'.lib = l /\ w'.off = 0 /\ w'.fig = NoFig /\ wpc' = "read"
    BY <2>1, <2>2 DEF CleanPass, NoItemWalk
  <2>4. Home[i] # l
    <3>1. Rank(i) \in Nat
      BY RankCounts
    <3> QED BY <1>2, <2>3, <3>1 DEF Passed, NoFig
  <2>5. Passed(i) /\ CleanPass
    BY <1>1, <1>2, <2>1, <2>2, <2>4 DEF Passed, CleanPass
  <2> QED BY <1>1, <2>1, <2>2, <2>5 DEF PassInv, Spared, Since
<1>7. CASE ReadItem
  <2>1. UNCHANGED <<pass, wpc, p>> /\ wpc = "read"
    BY <1>7 DEF ReadItem
  <2> SUFFICES ASSUME CleanPass', NEW j \in Items, Passed(j)' PROVE Spared(j)'
    BY DEF PassInv
  <2>2. CleanPass /\ ~p.stale /\ gen = p.gen /\ status = "complete" /\ pass > 0
    BY <1>1, <2>1 DEF CleanPass, WalkerInv
  <2>3. PICK i \in RowAt(w.lib, w.off) :
          \/ /\ w.fig[i] = Never /\ watched' = [watched EXCEPT ![i] = Visited(@, pass)]
             /\ w' = [w EXCEPT !.off = @ + 1, !.fig[i] = watched[i].at]
             /\ g' = IF watched[i].at = 0 THEN [g EXCEPT !.unmarked = @ \cup {i}] ELSE g
          \/ w.fig[i] # Never /\ w' = [w EXCEPT !.off = @ + 1] /\ UNCHANGED <<watched, g>>
    BY <1>7, <2>2 DEF ReadItem, PassMark
  <2>4. i \in Items /\ Present(i) /\ Home[i] = w.lib /\ Rank(i) = w.off
    BY <2>3, RowIs
  <2>5. /\ w'.lib = w.lib /\ w'.off = w.off + 1
        /\ \A k \in Items : w'.fig[k] = w.fig[k] \/ (k = i /\ w.fig[i] = Never)
    <3>1. CASE w.fig[i] = Never /\ w' = [w EXCEPT !.off = @ + 1, !.fig[i] = watched[i].at]
      BY <1>3, <2>4, <3>1 DEF ItemWalks, Figs
    <3>2. CASE w' = [w EXCEPT !.off = @ + 1]
      BY <1>3, <3>2 DEF ItemWalks
    <3> QED BY <2>3, <3>1, <3>2
  <2>6. g'.shifted = g.shifted /\ g.unmarked \subseteq g'.unmarked
    BY <1>3, <2>3 DEF Ghosts
  <2>7. ASSUME NEW k \in Items, Spared(k) PROVE Spared(k)'
    <3>1. watched'[k].at = watched[k].at /\ (watched'[k].pass = watched[k].pass \/ watched'[k].pass = pass)
      BY <1>3, <2>3, <2>4 DEF Visited
    <3> QED BY <1>1, <2>1, <2>6, <2>7, <3>1 DEF Spared, Since
  <2>8. CASE j = i
    <3>1. CASE w.fig[i] # Never
      <4>1. Passed(i)
        BY <1>2, <2>1, <2>4, <2>6, <2>8, <3>1 DEF Passed
      <4> QED BY <2>2, <2>4, <2>7, <2>8, <4>1 DEF PassInv
    <3>2. CASE w.fig[i] = Never
      <4>1. CASE watched[i].at = 0
        <5>1. i \in g'.unmarked
          BY <1>3, <2>3, <3>2, <4>1 DEF Ghosts
        <5> QED BY <2>8, <5>1 DEF Spared
      <4>2. CASE watched[i].at # 0
        <5>1. watched'[i].pass = pass
          BY <1>3, <2>2, <2>3, <2>4, <3>2, <4>2 DEF Visited
        <5> QED BY <2>1, <2>8, <5>1 DEF Spared
      <4> QED BY <4>1, <4>2
    <3> QED BY <3>1, <3>2
  <2>9. CASE j # i
    <3>1. Home[j] = w.lib /\ Present(j) => Rank(j) # w.off
      <4>1. j \in Nat /\ i \in Nat
        BY <2>4, CatalogAssumption
      <4>2. j < i \/ i < j
        BY <2>9, <4>1
      <4>3. Rank(i) \in Nat /\ Rank(j) \in Nat
        BY <2>4, RankCounts
      <4> QED BY <2>4, <4>2, <4>3, RankOrder
    <3>2. Passed(j)
      <4>1. Rank(j) \in Nat /\ w.off \in Nat
        BY <1>3, RankCounts DEF ItemWalks
      <4>2. Present(j) /\ Home[j] \in p.libs \ p.todo /\ Home[j] \notin g.shifted
            /\ (Home[j] = w.lib => Rank(j) < w.off + 1 \/ w'.fig[j] # Never)
        BY <1>2, <2>1, <2>5, <2>6 DEF Passed
      <4>3. w'.fig[j] = w.fig[j]
        BY <2>5, <2>9
      <4> QED BY <3>1, <4>1, <4>2, <4>3 DEF Passed
    <3> QED BY <2>2, <2>7, <3>2 DEF PassInv
  <2> QED BY <2>8, <2>9
<1>8. CASE ReadEnds
  <2>1. UNCHANGED <<pass, p, g, watched>> /\ wpc = "read" /\ RowAt(w.lib, w.off) = {} /\ wpc' = "store"
    BY <1>8 DEF ReadEnds, hvars
  <2> SUFFICES ASSUME CleanPass', NEW i \in Items, Passed(i)' PROVE Spared(i)'
    BY DEF PassInv
  <2>2. CleanPass
    BY <1>1, <2>1 DEF CleanPass
  <2>3. Present(i) /\ Home[i] = w.lib => Rank(i) < w.off
    <3>1. w.lib \in Libs /\ w.off \in Nat
      BY <1>3, <2>1, WalkAssumption DEF ItemWalks, Passes
    <3>2. PICK l \in Libs, off \in Nat : l = w.lib /\ off = w.off
      BY <3>1
    <3> QED BY <2>1, <3>2, RowsEnd
  <2>4. Passed(i)
    BY <1>2, <2>1, <2>3 DEF Passed
  <2> QED BY <1>1, <2>1, <2>2, <2>4 DEF PassInv, Spared, Since
<1>9. CASE StoreWalk
  <2>1. UNCHANGED <<pass, p, g, watched>> /\ wpc = "store" /\ wpc' = "next"
    BY <1>9 DEF StoreWalk, hvars
  <2>2. CleanPass' => CleanPass
    BY <1>1, <2>1 DEF CleanPass
  <2>3. \A i \in Items : Passed(i)' => Passed(i)
    BY <1>2, <2>1 DEF Passed
  <2> QED BY <1>1, <2>1, <2>2, <2>3 DEF PassInv, Spared, Since
<1>10. CASE EndPass
  <2>1. wpc' = "idle" \/ (UNCHANGED <<p, g>> /\ wpc = "next" /\ wpc' = "prune")
    BY <1>10 DEF EndPass
  <2>2. UNCHANGED <<pass, watched>>
    BY <1>10 DEF EndPass, hvars
  <2>3. CASE wpc' = "idle"
    BY <2>3 DEF PassInv, CleanPass
  <2>4. CASE UNCHANGED <<p, g>> /\ wpc = "next" /\ wpc' = "prune"
    <3>1. CleanPass' => CleanPass
      BY <1>1, <2>4 DEF CleanPass
    <3>2. \A i \in Items : Passed(i)' => Passed(i)
      BY <1>2, <2>4 DEF Passed
    <3> QED BY <1>1, <2>2, <2>4, <3>1, <3>2 DEF PassInv, Spared, Since
  <2> QED BY <2>1, <2>3, <2>4
<1> QED BY <1>4, <1>5, <1>6, <1>7, <1>8, <1>9, <1>10 DEF WalkStep
-----------------------------------------------------------------------------
\* The steps of the history and of a Refresh owe the walk nothing new.
LEMMA DueAside ==
    ASSUME DueInv, RefreshLibraries \/ RefreshSections \/ HistoryStep \/ UNCHANGED vars
    PROVE  DueInv'
<1>1. UNCHANGED <<cvars, owed, wvars>> /\ (sectionsRead' = sectionsRead \/ sectionsRead' = TRUE)
  BY DEF RefreshLibraries, RefreshSections, HistoryStep, vars, ovars
<1> QED BY <1>1 DEF DueInv, Present, Rank, cvars, wvars

\* A new item is owed by a library that has no figures yet; a deletion takes the
\* row it moves past the walk from what is due.
LEMMA DuePlex ==
    ASSUME PlexInv, WalkerInv, DueInv, PlexStep
    PROVE  DueInv'
<1>1. /\ UNCHANGED <<walks, wpc>> /\ sectionsRead' = sectionsRead
      /\ w'.lib = w.lib /\ w'.off = w.off /\ w'.fig = w.fig /\ w'.due \subseteq w.due
  BY PlexSteps, PlexWalk
<1>2. w.off \in Nat /\ w.due \subseteq Items
  BY DEF WalkerInv, ItemWalks
<1>3. CASE UNCHANGED <<catalog, w, owed>>
  BY <1>1, <1>3 DEF DueInv, Present, Rank
<1>4. ASSUME NEW k \in Items, AddItem(k), UNCHANGED w,
             owed' = IF walks[Home[k]].walked THEN owed ELSE owed \cup {k}
      PROVE  DueInv'
  <2>1. catalog' = [catalog EXCEPT ![k] = "present"]
    BY <1>4 DEF AddItem
  <2>2. \A i \in Items : Present(i) => catalog'[i] = "present"
    BY <2>1 DEF PlexInv, Present
  <2>3. \A i \in Items : Rank(i)' < w.off => Rank(i) < w.off
    <3> SUFFICES ASSUME NEW i \in Items, Rank(i)' < w.off PROVE Rank(i) < w.off
      OBVIOUS
    <3>1. Rank(i)' \in Nat /\ Rank(i) <= Rank(i)' /\ Rank(i) \in Nat
      BY <2>1, RankAdd, RankCounts
    <3> QED BY <1>2, <3>1
  <2>4. owed' \subseteq Items /\ \A i \in owed' : walks[Home[i]].walked => walks[Home[i]].fig[i] # Never
    BY <1>4 DEF DueInv
  <2> QED BY <1>1, <1>2, <1>4, <2>2, <2>3, <2>4 DEF DueInv, Present
<1>5. ASSUME NEW k \in Items, DeleteItem(k), owed' = owed \ {k},
             w' = [w EXCEPT !.due = @ \ ({k} \cup IF wpc = "read" /\ Home[k] = w.lib /\ Rank(k) < w.off
                                                   THEN RowAt(w.lib, w.off) ELSE {})]
      PROVE  DueInv'
  <2>1. catalog' = [catalog EXCEPT ![k] = "gone"]
    BY <1>5 DEF DeleteItem
  <2>2. /\ k \notin w'.due
        /\ wpc = "read" /\ Home[k] = w.lib /\ Rank(k) < w.off => w'.due \cap RowAt(w.lib, w.off) = {}
    BY <1>5 DEF WalkerInv, ItemWalks
  <2>3. \A i \in w'.due : Present(i) => catalog'[i] = "present"
    BY <1>1, <1>2, <2>1, <2>2 DEF PlexInv, Present
  <2>4. ASSUME wpc = "read", NEW i \in w'.due, Rank(i)' < w.off PROVE Rank(i) < w.off
    <3>1. i \in Items /\ Present(i) /\ Home[i] = w.lib
      BY <1>1, <1>2, <2>4 DEF DueInv
    <3>2. Rank(i) \in Nat /\ Rank(k) \in Nat /\ Rank(i)' \in Nat
      BY <2>1, <3>1, RankCounts, RankShifts
    <3>3. CASE Home[k] = w.lib /\ Rank(k) < w.off
      <4>1. Rank(i) # w.off
        BY <2>2, <2>4, <3>1, <3>3, RowHas
      <4>2. Rank(i) <= Rank(i)' + 1
        BY <2>1, <3>1, RankShifts
      <4> QED BY <1>2, <2>4, <3>2, <4>1, <4>2
    <3>4. CASE ~(Home[k] = w.lib /\ Rank(k) < w.off)
      <4>1. PICK off \in Nat : off = w.off
        BY <1>2
      <4>2. Home[k] = Home[i] => Rank(k) >= off
        BY <3>1, <3>2, <3>4, <4>1
      <4> QED BY <2>1, <2>4, <3>1, <4>1, <4>2, RankDelete
    <3> QED BY <3>3, <3>4
  <2>5. owed' \subseteq Items /\ \A i \in owed' : walks[Home[i]].walked => walks[Home[i]].fig[i] # Never
    BY <1>5 DEF DueInv
  <2>6. wpc \in {"read", "store"} => \A i \in w'.due : catalog'[i] = "present" /\ Home[i] = w'.lib
    BY <1>1, <2>3 DEF DueInv
  <2>7. wpc = "read" => \A i \in w'.due : Rank(i)' < w'.off => w'.fig[i] # Never
    BY <1>1, <2>4 DEF DueInv
  <2>8. wpc = "store" => \A i \in w'.due : w'.fig[i] # Never
    BY <1>1 DEF DueInv
  <2> QED BY <1>1, <2>5, <2>6, <2>7, <2>8 DEF DueInv, Present
<1> QED BY <1>3, <1>4, <1>5 DEF PlexStep, Advance, PlayItem

\* A listing that is read to its end has visited what it owed, and the figures
\* stored with it owe just that.
LEMMA DueWalk ==
    ASSUME PlexInv, StoreInv, MapCovers, WalkerInv, DueInv, WalkStep
    PROVE  DueInv'
<1>1. UNCHANGED <<clock, catalog, plays>>
  BY WalkStore DEF cvars
<1>2. \A i \in Items : Rank(i)' = Rank(i) /\ (Present(i)' <=> Present(i))
  BY <1>1 DEF Rank, Present
<1>3. /\ p \in Passes /\ w \in ItemWalks /\ walks \in [Libs -> LibWalks] /\ Home \in [Items -> Libs]
      /\ (wpc \in {"read", "store"} => w.lib \in Libs)
  BY CatalogAssumption, WalkAssumption DEF WalkerInv, Passes
<1>4. NoItemWalk.due = {}
  BY DEF NoItemWalk
<1>5. CASE FullPass \/ StalePass \/ SectionsKnown \/ TimerFires \/ PassGen
  <2>1. UNCHANGED <<owed, sectionsRead, walks, w>> /\ wpc' \notin {"read", "store"}
    BY <1>5 DEF FullPass, StalePass, BeginPass, SectionsKnown, TimerFires, PassGen, ovars
  <2> QED BY <2>1 DEF DueInv
<1>6. CASE NextLibrary
  <2>1. PICK l : /\ UNCHANGED <<owed, sectionsRead, walks>>
                 /\ \/ wpc' = "next"
                    \/ /\ w' = [NoItemWalk EXCEPT !.lib = l, !.gen0 = StampableGen, !.due = RowsOf(l)]
                       /\ wpc' = "read"
    BY <1>6 DEF NextLibrary, ovars
  <2>2. CASE wpc' = "next"
    BY <2>1, <2>2 DEF DueInv
  <2>3. CASE w' = [NoItemWalk EXCEPT !.lib = l, !.gen0 = StampableGen, !.due = RowsOf(l)] /\ wpc' = "read"
    <3>1. w'.lib = l /\ w'.off = 0 /\ w'.due = RowsOf(l)
      BY <2>3 DEF NoItemWalk
    <3>2. \A i \in w'.due : i \in Items /\ Present(i) /\ Home[i] = l
      BY <3>1 DEF RowsOf, Present
    <3>3. \A i \in w'.due : ~(Rank(i) < 0)
      BY <3>2, RankCounts
    <3> QED BY <1>2, <2>1, <2>3, <3>1, <3>2, <3>3 DEF DueInv
  <2> QED BY <2>1, <2>2, <2>3
<1>7. CASE ReadItem
  <2>1. UNCHANGED <<owed, sectionsRead, walks, wpc>> /\ wpc = "read"
    BY <1>7 DEF ReadItem, ovars
  <2>2. PICK i \in RowAt(w.lib, w.off) :
          \/ w' = [w EXCEPT !.off = @ + 1, !.fig[i] = watched[i].at]
          \/ w.fig[i] # Never /\ w' = [w EXCEPT !.off = @ + 1]
    BY <1>7 DEF ReadItem
  <2>3. i \in Items /\ Present(i) /\ Home[i] = w.lib /\ Rank(i) = w.off
    BY <2>2, RowIs
  <2>4. watched[i].at # Never
    <3>1. watched[i] \in [at : Nat, pass : Nat]
      BY <2>3 DEF StoreInv
    <3> QED BY <3>1, WalkAssumption
  <2>5. /\ w'.lib = w.lib /\ w'.off = w.off + 1 /\ w'.due = w.due
        /\ w'.fig[i] # Never /\ \A k \in Items : k # i => w'.fig[k] = w.fig[k]
    <3>1. CASE w' = [w EXCEPT !.off = @ + 1, !.fig[i] = watched[i].at]
      BY <1>3, <2>3, <2>4, <3>1 DEF ItemWalks, Figs
    <3>2. CASE w.fig[i] # Never /\ w' = [w EXCEPT !.off = @ + 1]
      BY <1>3, <3>2 DEF ItemWalks
    <3> QED BY <2>2, <3>1, <3>2
  <2>6. ASSUME NEW j \in w.due, Rank(j) < w.off + 1 PROVE w'.fig[j] # Never
    <3>1. j \in Items /\ Present(j) /\ Home[j] = w.lib /\ w.off \in Nat
      BY <1>3, <2>1 DEF DueInv, ItemWalks
    <3>2. CASE j = i
      BY <2>5, <3>2
    <3>3. CASE j # i
      <4>1. j \in Nat /\ i \in Nat /\ Rank(i) \in Nat /\ Rank(j) \in Nat
        BY <2>3, <3>1, CatalogAssumption, RankCounts
      <4>2. Rank(j) # w.off
        BY <2>3, <3>1, <3>3, <4>1, RankOrder
      <4>3. Rank(j) < w.off
        BY <2>6, <3>1, <4>1, <4>2
      <4> QED BY <2>1, <2>5, <3>1, <3>3, <4>3 DEF DueInv
    <3> QED BY <3>2, <3>3
  <2>7. w.due \subseteq Items
    BY <1>3 DEF ItemWalks
  <2> QED BY <1>2, <2>1, <2>5, <2>6, <2>7 DEF DueInv
<1>8. CASE ReadEnds
  <2>1. /\ UNCHANGED <<owed, sectionsRead, walks>> /\ wpc = "read" /\ wpc' = "store"
        /\ RowAt(w.lib, w.off) = {}
    BY <1>8 DEF ReadEnds, ovars
  <2>2. w'.lib = w.lib /\ w'.due = w.due /\ w'.fig = w.fig /\ w.off \in Nat /\ w.due \subseteq Items
    BY <1>3, <1>8 DEF ReadEnds, ItemWalks
  <2>3. \A i \in Items : Present(i) /\ Home[i] = w.lib => Rank(i) < w.off
    <3>1. PICK l \in Libs, off \in Nat : l = w.lib /\ off = w.off
      BY <1>3, <2>1, <2>2
    <3> QED BY <2>1, <3>1, RowsEnd
  <2>4. \A i \in w.due : w.fig[i] # Never /\ Present(i) /\ Home[i] = w.lib
    BY <2>1, <2>2, <2>3 DEF DueInv
  <2> QED BY <1>2, <2>1, <2>2, <2>4 DEF DueInv
<1>9. CASE StoreWalk
  <2>1. /\ wpc = "store" /\ wpc' = "next" /\ w' = NoItemWalk /\ sectionsRead' = sectionsRead
        /\ owed' = {i \in owed : Home[i] # w.lib} \cup w.due
        /\ walks' = [walks EXCEPT ![w.lib] =
                       [walked |-> TRUE, failed |-> FALSE, stamp |-> w.stamp, fig |-> w.fig]]
    BY <1>9 DEF StoreWalk
  <2>2. w.due \subseteq Items /\ \A i \in w.due : Home[i] = w.lib /\ w.fig[i] # Never
    BY <1>3, <2>1 DEF DueInv, ItemWalks
  <2>3. walks'[w.lib].fig = w.fig /\ \A l \in Libs : l # w.lib => walks'[l] = walks[l]
    BY <1>3, <2>1
  <2>4. ASSUME NEW i \in owed', walks'[Home[i]].walked PROVE walks'[Home[i]].fig[i] # Never
    <3>1. CASE i \in w.due
      BY <2>2, <2>3, <3>1
    <3>2. CASE i \notin w.due
      <4>1. i \in owed /\ Home[i] # w.lib /\ i \in Items
        BY <2>1, <3>2 DEF DueInv
      <4>2. walks'[Home[i]] = walks[Home[i]]
        BY <1>3, <2>3, <4>1
      <4> QED BY <2>4, <4>1, <4>2 DEF DueInv
    <3> QED BY <3>1, <3>2
  <2>5. owed' \subseteq Items /\ sectionsRead' \in BOOLEAN
    BY <2>1, <2>2 DEF DueInv
  <2> QED BY <2>1, <2>4, <2>5 DEF DueInv
<1>10. CASE WalkFails
  <2>1. /\ UNCHANGED <<owed, sectionsRead>> /\ wpc' = "next"
        /\ walks' = [walks EXCEPT ![w.lib].failed = TRUE]
    BY <1>10 DEF WalkFails, ovars
  <2>2. \A l \in Libs : walks'[l].walked = walks[l].walked /\ walks'[l].fig = walks[l].fig
    BY <1>3, <2>1 DEF LibWalks
  <2>3. owed \subseteq Items
    BY DEF DueInv
  <2> QED BY <1>3, <2>1, <2>2, <2>3 DEF DueInv
<1>11. CASE EndPass \/ Prune
  <2>1. /\ UNCHANGED <<owed, sectionsRead>> /\ wpc' \notin {"read", "store"}
        /\ walks' = walks \/ walks' = [l \in Libs |-> IF l \in p.libs THEN walks[l] ELSE NoWalk]
    BY <1>11 DEF EndPass, Prune, ovars
  <2>2. \A l \in Libs : walks'[l].walked => walks'[l] = walks[l]
    BY <2>1 DEF NoWalk
  <2>3. owed \subseteq Items
    BY DEF DueInv
  <2> QED BY <1>3, <2>1, <2>2, <2>3 DEF DueInv
<1> QED BY <1>5, <1>6, <1>7, <1>8, <1>9, <1>10, <1>11 DEF WalkStep
-----------------------------------------------------------------------------
\* Every step keeps all seven parts.
LEMMA WalkInvStep == WalkInv /\ [Next]_vars => WalkInv'
<1> SUFFICES ASSUME WalkInv, [Next]_vars PROVE WalkInv'
  OBVIOUS
<1>1. PlexInv /\ StoreInv /\ MapCovers /\ WalkerInv /\ StampInv /\ PassInv /\ DueInv
  BY DEF WalkInv
<1>2. WalkerInv'
  BY <1>1, WalkerStep
<1>3. CASE PlexStep
  BY <1>1, <1>2, <1>3, PlexSteps, PlexStepStore, StampsAside, PassPlex, DuePlex DEF PlexOnward, WalkInv
<1>4. CASE HistoryStep
  <2>1. PlexInv'
    BY <1>1, <1>4, HistoryStore DEF PlexInv, cvars
  <2> QED BY <1>1, <1>2, <1>4, <2>1, HistoryStore, StampsAside, PassAside, DueAside DEF WalkInv
<1>5. CASE RefreshLibraries \/ RefreshSections \/ UNCHANGED vars
  <2>1. UNCHANGED <<cvars, hvars, atBoot, lost, plexLibs>> /\ (serverLibs' = serverLibs \/ serverLibs' = plexLibs)
    BY <1>5 DEF RefreshLibraries, RefreshSections, vars, ovars
  <2>2. PlexInv' /\ StoreInv' /\ MapCovers'
    BY <1>1, <2>1 DEF PlexInv, StoreInv, MapCovers, Present, cvars, hvars
  <2> QED BY <1>1, <1>2, <1>5, <2>2, StampsAside, PassAside, DueAside DEF WalkInv
<1>6. CASE WalkStep
  BY <1>1, <1>2, <1>6, WalkStore, StampsWalk, PassWalk, DueWalk DEF WalkInv
<1> QED BY <1>3, <1>4, <1>5, <1>6 DEF Next

\* The parts hold at every step: of Plex, the history map, its cover of the plays,
\* the bookkeeping of the walk, the stamps of its figures, what a pass has seen and
\* what a listing owes its walk (walk.go:96-226).
THEOREM WalkInvariant == Spec => []WalkInv
BY WalkInitInv, WalkInvStep, PTL DEF Spec

\* A published last-played time is never older than a play the history held when
\* the full read behind it began, however the reads, the walks, the prunes and
\* the deletions interleave (walk.go:176-226, collect_catalog.go:79-98).
THEOREM WatchAgesTrue == Spec => []WatchTruth
<1>1. WalkInv => WatchTruth
  <2> SUFFICES ASSUME WalkInv, NEW l \in Libs, Publishes(l), NEW i \in Items \ lost, walks[l].fig[i] # Never
               PROVE  walks[l].fig[i] >= atBoot[i]
    BY DEF WatchTruth
  <2>1. Covering(walks[l].stamp, walks[l].fig)
    BY DEF WalkInv, StampInv
  <2> QED BY <2>1 DEF Covering, Publishes
<1> QED BY <1>1, WalkInvariant, PTL

\* The complete flag vouches for every item of every library the exporter knows:
\* whatever was in Plex when the last walk of its library began has a last-played
\* time as new as the history held, for any limit on the libraries walked and any
\* number of items that come and go while a listing is read (walk.go:172-226).
THEOREM CompleteIsCovering == Spec => []CompleteCovers
<1>1. WalkInv => CompleteCovers
  <2> SUFFICES ASSUME WalkInv, WatchAgeComplete, NEW i \in owed \ lost, Home[i] \in serverLibs \cap VideoLibs
               PROVE  /\ walks[Home[i]].fig[i] # Never
                      /\ walks[Home[i]].fig[i] >= atBoot[i]
    BY DEF CompleteCovers
  <2>1. serverLibs \in SUBSET Libs /\ Home[i] \in Libs /\ i \in Items
    BY DEF WalkInv, PlexInv, DueInv
  <2>2. Home[i] \in Walkable(serverLibs)
    BY <2>1, WalkableVideo DEF WatchAgeComplete, Video
  <2>3. Publishes(Home[i])
    BY <2>2 DEF WatchAgeComplete
  <2>4. walks[Home[i]].fig[i] # Never
    BY <2>3 DEF WalkInv, DueInv, Publishes
  <2>5. Covering(walks[Home[i]].stamp, walks[Home[i]].fig)
    BY <2>1 DEF WalkInv, StampInv
  <2> QED BY <2>1, <2>3, <2>4, <2>5 DEF Covering, Publishes
<1> QED BY <1>1, WalkInvariant, PTL

\* Prune takes no item of Plex that a clean full pass in the same map could have
\* spared: only plays older than the pass, of a library it did not list or whose
\* rows a deletion shifted, or that came in after the visit (history.go:144-161,
\* walk.go:173).
THEOREM PruneSpares == Spec => PruneSafe
<1>1. WalkInv /\ [Next]_vars =>
        [\A i \in lost' \ lost :
          /\ watched[i].at < p.start
          /\ Home[i] \notin g.listed \/ Home[i] \in g.shifted \/ i \in g.unmarked]_vars
  <2> SUFFICES ASSUME WalkInv, Next, NEW i \in lost' \ lost
               PROVE  /\ watched[i].at < p.start
                      /\ Home[i] \notin g.listed \/ Home[i] \in g.shifted \/ i \in g.unmarked
    BY DEF vars, ovars
  <2>1. PlexInv /\ StoreInv /\ MapCovers /\ WalkerInv /\ StampInv /\ PassInv
    BY DEF WalkInv
  <2>2. Prune
    <3>1. ~PlexStep /\ ~RefreshLibraries /\ ~RefreshSections
      BY <2>1, PlexSteps DEF RefreshLibraries, RefreshSections
    <3>2. ~HistoryStep
      BY DEF HistoryStep, BootStarts, BootCompletes, RetryFires, SignalWalk, IncrementalDone, Lapse,
             BootFails, MergeRow, UnmatchedRow, CatchupRow
    <3>3. WalkStep => Prune
      BY DEF WalkStep, FullPass, BeginPass, SectionsKnown, TimerFires, StalePass, PassGen, NextLibrary, ReadItem,
             ReadEnds, StoreWalk, WalkFails, EndPass, hvars, ovars
    <3> QED BY <3>1, <3>2, <3>3 DEF Next
  <2>3. i \in Prunable(PassMark, p.start, p.gen) /\ catalog[i] = "present" /\ wpc = "prune"
    BY <2>2 DEF Prune
  <2>4. /\ i \in Items /\ gen = p.gen /\ watched[i].at # 0 /\ watched[i].pass # PassMark /\ watched[i].at < p.start
    BY <2>3 DEF Prunable
  <2>5. /\ ~p.stale /\ p.allOK /\ ~p.skipped /\ p.todo = {} /\ p.libs = g.listed
    BY <2>1, <2>3 DEF WalkerInv
  <2>6. status = "complete"
    BY <2>1, <2>4 DEF StoreInv
  <2>7. CleanPass
    BY <2>3, <2>4, <2>5, <2>6 DEF CleanPass
  <2>8. ASSUME Home[i] \in g.listed, Home[i] \notin g.shifted PROVE i \in g.unmarked
    <3>1. Passed(i)
      BY <2>3, <2>5, <2>8 DEF Passed, Present
    <3>2. Spared(i)
      BY <2>1, <2>4, <2>7, <3>1 DEF PassInv
    <3>3. watched[i].pass # pass
      BY <2>4, <2>5 DEF PassMark
    <3>4. ~Since(watched[i].at)
      <4>1. watched[i].at \in Nat /\ p.start \in Nat
        BY <2>1, <2>4 DEF StoreInv, WalkerInv, Passes
      <4> QED BY <2>4, <4>1 DEF Since
    <3> QED BY <3>2, <3>3, <3>4 DEF Spared
  <2> QED BY <2>4, <2>8
<1> QED BY <1>1, WalkInvariant, PTL DEF Spec, PruneSafe

\* The types of the store, the passes and the walks, for any number of full
\* reads and passes.
THEOREM WalkTypes == Spec => []WalkTypeOK
<1>1. WalkInv => WalkTypeOK
  <2> SUFFICES ASSUME WalkInv PROVE WalkTypeOK
    OBVIOUS
  <2>1. PlexInv /\ StoreInv /\ WalkerInv /\ StampInv
    BY DEF WalkInv
  <2>2. CatalogTypeOK
    <3>1. clock \in Nat
      BY <2>1, Bounds DEF PlexInv
    <3> QED BY <2>1, <3>1 DEF PlexInv, CatalogTypeOK
  <2>3. StoreTypeOK
    BY <2>1 DEF StoreInv, StoreTypeOK
  <2>4. walks \in [Libs -> [walked : BOOLEAN, failed : BOOLEAN, stamp : 0..MaxBoots,
                           fig : [Items -> 0..MaxClock \cup {Never}]]]
    <3>1. \A l \in Libs : walks[l] \in LibWalks /\ walks[l].stamp <= gen
      BY <2>1 DEF WalkerInv, StampInv
    <3>2. gen \in 0..MaxBoots
      BY <2>1 DEF StoreInv
    <3>3. \A l \in Libs : walks[l].stamp \in 0..MaxBoots
      <4> SUFFICES ASSUME NEW l \in Libs PROVE walks[l].stamp \in 0..MaxBoots
        OBVIOUS
      <4>1. walks[l].stamp \in Nat /\ walks[l].stamp <= gen
        BY <3>1 DEF LibWalks
      <4> QED BY <3>2, <4>1, Bounds
    <3>4. \A l \in Libs : walks[l] \in [walked : BOOLEAN, failed : BOOLEAN, stamp : 0..MaxBoots, fig : Figs]
      BY <3>1, <3>3 DEF LibWalks
    <3> QED BY <2>1, <3>4 DEF WalkerInv, Figs
  <2>5. p.libs \subseteq VideoLibs /\ p.todo \subseteq p.libs /\ g.shifted \subseteq g.listed
    BY <2>1 DEF WalkerInv, Passes
  <2>6. /\ pass \in 0..MaxPass /\ passDone \in BOOLEAN
        /\ wpc \in {"start", "due", "idle", "gen", "next", "read", "store", "prune"}
        /\ sectionsRead \in BOOLEAN /\ owed \subseteq Items /\ w.due \subseteq Items
    BY <2>1 DEF WalkInv, DueInv, WalkerInv, ItemWalks
  <2> QED BY <2>1, <2>2, <2>3, <2>4, <2>5, <2>6 DEF WalkTypeOK, PlexInv
<1> QED BY <1>1, WalkInvariant, PTL
==============================================================================
