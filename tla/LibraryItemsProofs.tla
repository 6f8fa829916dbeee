------------------------- MODULE LibraryItemsProofs -------------------------
(* Proofs about the library list and its counts, for every listing of Plex,   *)
(* every cap, every number of workers and every pattern of failed queries: a  *)
(* published count is what the last count that got an answer came to.         *)
EXTENDS LibraryItems, TLAPS, FiniteSetTheorems

Counts == 0..MaxCount
LibEntry == [id : Countable, count : Counts, known : BOOLEAN]
WorkEntry == [lib : LibEntry, next : Nat, count : Counts, answers : Seq(Counts)]

\* A library list: its length is within the cap and no library is in it twice.
IsLibs(ls) ==
    /\ \E n \in 0..MaxLibraries : ls \in [1..n -> LibEntry]
    /\ \A i, j \in DOMAIN ls : ls[i].id = ls[j].id => i = j

\* What a worker has of a library: nothing above zero while it still asks, and
\* the outcome of its answers once it has any.
CountedSoFar(w) ==
    /\ w.next \in 0..Chain(w.lib.id) + 1
    /\ w.next <= Chain(w.lib.id) => w.count = 0 /\ \A k \in DOMAIN w.answers : w.answers[k] = 0
    /\ w.answers # <<>> => w.count = Outcome(w.answers)

\* The workers hold the published list, entry for entry, and only in their phase.
WorkInStep ==
    /\ rpc # "counts" => work = <<>>
    /\ rpc = "counts" =>
         /\ DOMAIN work = DOMAIN libs
         /\ \A i \in DOMAIN work : work[i] \in WorkEntry /\ work[i].lib = libs[i] /\ CountedSoFar(work[i])

\* An answer is remembered only while its library is listed: a count that goes
\* with its library does not come back with it.
AnswersListed == \A s \in Secs : answered[s] # <<>> => \E i \in DOMAIN libs : libs[i].id = s

ItemsInv ==
    /\ listing \in Listings /\ IsLibs(libs)
    /\ providersAge \in 0..ProvidersInterval + 1 /\ itemsAge \in 0..ItemsInterval + 1
    /\ rpc \in {"idle", "providers", "identity", "counts", "rest"}
    /\ needItems \in BOOLEAN /\ reachable \in BOOLEAN
    /\ answered \in [Secs -> Seq(Counts)]
    /\ WorkInStep /\ AnswersListed /\ CountTruth
-----------------------------------------------------------------------------
\* The places of the countable directories, counted from the front, are 1 up to
\* their number, each taken once: what makes NthKept the p-th of them.
LEMMA KeptPlaces ==
    ASSUME NEW dirs \in Listings
    PROVE  /\ IsFiniteSet(Kept(dirs)) /\ Cardinality(Kept(dirs)) \in Nat
           /\ \A p \in 1..Cardinality(Kept(dirs)) :
                 NthKept(dirs, p) \in Kept(dirs) /\ Cardinality(KeptUpTo(dirs, NthKept(dirs, p))) = p
<1>1. PICK n \in 0..Cardinality(Secs) : dirs \in [1..n -> Secs]
  BY DEF Listings
<1>2. Kept(dirs) \in SUBSET (1..n) /\ n \in Nat
  <2>1. Cardinality(Secs) \in Nat
    BY FS_CardinalityType, ItemsAssumption
  <2>2. n \in Nat /\ DOMAIN dirs = 1..n
    BY <1>1, <2>1
  <2> QED BY <2>2 DEF Kept
<1>3. IsFiniteSet(Kept(dirs)) /\ Cardinality(Kept(dirs)) \in Nat
  <2>1. IsFiniteSet(1..n)
    BY <1>2, FS_Interval
  <2>2. IsFiniteSet(Kept(dirs))
    BY <1>2, <2>1, FS_Subset
  <2> QED BY <2>2, FS_CardinalityType
<1> DEFINE K == Kept(dirs)
           place == [i \in K |-> Cardinality(KeptUpTo(dirs, i))]
           N == Cardinality(K)
<1>4. ASSUME NEW i \in K
      PROVE  KeptUpTo(dirs, i) \in SUBSET K /\ IsFiniteSet(KeptUpTo(dirs, i)) /\ place[i] \in 1..N
  <2>1. KeptUpTo(dirs, i) \in SUBSET K
    BY DEF KeptUpTo
  <2>2. i \in KeptUpTo(dirs, i)
    BY <1>2 DEF KeptUpTo
  <2>3. IsFiniteSet(KeptUpTo(dirs, i)) /\ Cardinality(KeptUpTo(dirs, i)) <= N
    BY <1>3, <2>1, FS_Subset
  <2>4. Cardinality(KeptUpTo(dirs, i)) \in Nat /\ Cardinality(KeptUpTo(dirs, i)) # 0
    BY <2>2, <2>3, FS_CardinalityType, FS_EmptySet
  <2> QED BY <1>3, <2>1, <2>3, <2>4
<1>5. ASSUME NEW i \in K, NEW j \in K, i < j
      PROVE  place[i] # place[j]
  <2>1. KeptUpTo(dirs, i) \in SUBSET KeptUpTo(dirs, j) /\ j \in KeptUpTo(dirs, j) /\ j \notin KeptUpTo(dirs, i)
    BY <1>2, <1>5 DEF KeptUpTo
  <2>2. Cardinality(KeptUpTo(dirs, i)) # Cardinality(KeptUpTo(dirs, j))
    BY <1>4, <2>1, FS_Subset
  <2> QED BY <2>2
<1>6. place \in Injection(K, 1..N)
  <2>1. IsInjective(place)
    BY <1>2, <1>5 DEF IsInjective
  <2>2. place \in [K -> 1..N]
    BY <1>4
  <2> HIDE DEF place, N, K
  <2> QED BY <2>1, <2>2 DEF Injection
<1>7. IsFiniteSet(1..N) /\ Cardinality(1..N) = N
  BY <1>3, FS_Interval
<1>8. place \in Surjection(K, 1..N)
  <2> HIDE DEF place
  <2> QED BY <1>3, <1>6, <1>7, FS_Injection
<1>9. ASSUME NEW p \in 1..N
      PROVE  NthKept(dirs, p) \in K /\ Cardinality(KeptUpTo(dirs, NthKept(dirs, p))) = p
  <2>1. \E i \in K : place[i] = p
    <3> HIDE DEF place
    <3> QED BY <1>8 DEF Surjection
  <2>2. \E i \in Kept(dirs) : Cardinality(KeptUpTo(dirs, i)) = p
    BY <2>1
  <2> QED BY <2>2 DEF NthKept
<1> QED BY <1>3, <1>9

\* What library.Build makes of a listing: a list within the cap, of countable
\* directories and none twice, where a library is known exactly if it was known
\* before, and then with a count it had (library.go:37-72).
LEMMA BuildList ==
    ASSUME NEW dirs \in Listings, IsLibs(libs)
    PROVE  /\ IsLibs(Build(dirs))
           /\ \A i \in DOMAIN Build(dirs) :
                 LET l == Build(dirs)[i] IN
                 /\ l.known <=> \E j \in DOMAIN libs : libs[j].id = l.id /\ libs[j].known
                 /\ l.known => \E j \in DOMAIN libs : libs[j].id = l.id /\ libs[j].known /\ libs[j].count = l.count
<1> DEFINE size == Cardinality(Kept(dirs))
           top == IF size < MaxLibraries THEN size ELSE MaxLibraries
           prev(s) == {l.count : l \in {m \in PrevItems : m.id = s}}
           entry(s) == IF prev(s) = {} THEN [id |-> s, count |-> 0, known |-> FALSE]
                       ELSE [id |-> s, count |-> CHOOSE c \in prev(s) : TRUE, known |-> TRUE]
<1>0. Build(dirs) = [p \in 1..top |-> entry(dirs[NthKept(dirs, p)])]
  BY DEF Build
<1>1. size \in Nat /\ MaxLibraries \in Nat /\ MaxCount \in Nat /\ top \in 0..MaxLibraries
      /\ top <= size
  BY KeptPlaces, ItemsAssumption
<1>2. \A j \in DOMAIN libs : libs[j] \in LibEntry
  BY DEF IsLibs
<1>3. ASSUME NEW s \in Countable
      PROVE  /\ entry(s) \in LibEntry /\ entry(s).id = s
             /\ entry(s).known <=> \E j \in DOMAIN libs : libs[j].id = s /\ libs[j].known
             /\ entry(s).known => \E j \in DOMAIN libs : libs[j].id = s /\ libs[j].known /\ libs[j].count = entry(s).count
  <2>1. \A c : c \in prev(s) <=> \E j \in DOMAIN libs : libs[j].id = s /\ libs[j].known /\ libs[j].count = c
    BY DEF PrevItems
  <2>2. prev(s) \subseteq Counts
    BY <1>2, <2>1 DEF LibEntry
  <2>3. CASE prev(s) = {}
    <3>1. entry(s) = [id |-> s, count |-> 0, known |-> FALSE]
      BY <2>3
    <3>2. ~ \E j \in DOMAIN libs : libs[j].id = s /\ libs[j].known
      BY <2>1, <2>3
    <3> QED BY <1>1, <3>1, <3>2 DEF LibEntry, Counts
  <2>4. CASE prev(s) # {}
    <3> DEFINE c0 == CHOOSE c \in prev(s) : TRUE
    <3>1. entry(s) = [id |-> s, count |-> c0, known |-> TRUE] /\ c0 \in prev(s)
      BY <2>4
    <3> HIDE DEF c0, prev, entry
    <3>2. \E j \in DOMAIN libs : libs[j].id = s /\ libs[j].known /\ libs[j].count = c0
      BY <2>1, <3>1
    <3> QED BY <2>2, <3>1, <3>2 DEF LibEntry
  <2> QED BY <2>3, <2>4
<1>4. ASSUME NEW p \in 1..top
      PROVE  NthKept(dirs, p) \in DOMAIN dirs /\ dirs[NthKept(dirs, p)] \in Countable
             /\ Cardinality(KeptUpTo(dirs, NthKept(dirs, p))) = p
  <2>1. p \in 1..size
    BY <1>1
  <2> HIDE DEF top, size
  <2>2. p \in 1..Cardinality(Kept(dirs))
    BY <2>1 DEF size
  <2>3. NthKept(dirs, p) \in Kept(dirs) /\ Cardinality(KeptUpTo(dirs, NthKept(dirs, p))) = p
    BY <2>2, KeptPlaces
  <2> QED BY <2>3 DEF Kept
<1>5. \A p \in 1..top : Build(dirs)[p] = entry(dirs[NthKept(dirs, p)])
  BY <1>0
<1>6. DOMAIN Build(dirs) = 1..top
  BY <1>0
<1>7. \A i, j \in DOMAIN dirs : dirs[i] = dirs[j] => i = j
  BY DEF Listings
<1> HIDE DEF entry, top, size, prev
<1>8. Build(dirs) \in [1..top -> LibEntry]
  BY <1>0, <1>3, <1>4
<1>9. ASSUME NEW p \in 1..top, NEW q \in 1..top, Build(dirs)[p].id = Build(dirs)[q].id
      PROVE  p = q
  <2>1. dirs[NthKept(dirs, p)] = dirs[NthKept(dirs, q)]
    BY <1>3, <1>4, <1>5, <1>9
  <2>2. NthKept(dirs, p) = NthKept(dirs, q)
    BY <1>4, <1>7, <2>1
  <2> QED BY <1>4, <2>2
<1>10. IsLibs(Build(dirs))
  BY <1>1, <1>6, <1>8, <1>9 DEF IsLibs
<1>11. ASSUME NEW i \in 1..top
       PROVE  LET l == Build(dirs)[i] IN
              /\ l.known <=> \E j \in DOMAIN libs : libs[j].id = l.id /\ libs[j].known
              /\ l.known => \E j \in DOMAIN libs : libs[j].id = l.id /\ libs[j].known /\ libs[j].count = l.count
  <2> DEFINE s == dirs[NthKept(dirs, i)]
  <2>1. s \in Countable /\ Build(dirs)[i] = entry(s)
    BY <1>4, <1>5
  <2> HIDE DEF s
  <2>2. entry(s).id = s
    BY <1>3, <2>1
  <2> QED BY <1>3, <2>1, <2>2
<1> QED BY <1>6, <1>10, <1>11
-----------------------------------------------------------------------------
\* Before the first Refresh the list is empty.
LEMMA ItemsInitInv == ItemsInit => ItemsInv
<1> SUFFICES ASSUME ItemsInit PROVE ItemsInv
  OBVIOUS
<1>1. MaxLibraries \in Nat /\ ProvidersInterval \in Nat /\ ItemsInterval \in Nat
  BY ItemsAssumption
<1>2. IsLibs(libs)
  <2>1. libs \in [1..0 -> LibEntry] /\ DOMAIN libs = {}
    BY DEF ItemsInit
  <2> QED BY <1>1, <2>1 DEF IsLibs
<1>3. answered \in [Secs -> Seq(Counts)]
  BY DEF ItemsInit
<1>4. WorkInStep /\ AnswersListed /\ CountTruth
  BY DEF ItemsInit, WorkInStep, AnswersListed, CountTruth
<1>5. needItems \in BOOLEAN /\ reachable \in BOOLEAN
  BY DEF ItemsInit
<1>6. providersAge \in 0..ProvidersInterval + 1 /\ itemsAge \in 0..ItemsInterval + 1
  BY <1>1 DEF ItemsInit
<1>7. listing \in Listings /\ rpc \in {"idle", "providers", "identity", "counts", "rest"}
  BY DEF ItemsInit
<1> QED BY <1>2, <1>3, <1>4, <1>5, <1>6, <1>7 DEF ItemsInv

\* The steps that leave the list, its counts and the workers alone.
LEMMA ItemsFrame ==
    ASSUME ItemsInv, UNCHANGED <<libs, answered>>,
           listing' \in Listings,
           providersAge' \in 0..ProvidersInterval + 1, itemsAge' \in 0..ItemsInterval + 1,
           rpc' \in {"idle", "providers", "identity", "counts", "rest"},
           needItems' \in BOOLEAN, reachable' \in BOOLEAN,
           WorkInStep'
    PROVE  ItemsInv'
BY DEF ItemsInv, IsLibs, AnswersListed, CountTruth

\* Steps that do not touch the lists.
LEMMA QuietSteps ==
    ASSUME ItemsInv,
           Relist \/ TimePasses \/ BeginRefresh \/ RefreshFails \/ EndRefresh \/ UNCHANGED vars
    PROVE  ItemsInv'
<1>1. work' = work /\ UNCHANGED <<libs, answered>>
  BY DEF Relist, TimePasses, BeginRefresh, RefreshFails, EndRefresh, vars
<1>2. rpc' = rpc \/ (rpc # "counts" /\ rpc' \in {"idle", "providers", "identity"})
  BY DEF Relist, TimePasses, BeginRefresh, RefreshFails, EndRefresh, vars
<1>3. WorkInStep'
  BY <1>1, <1>2 DEF WorkInStep, ItemsInv
<1>4. listing' \in Listings /\ rpc' \in {"idle", "providers", "identity", "counts", "rest"}
  BY <1>2 DEF Relist, TimePasses, BeginRefresh, RefreshFails, EndRefresh, vars, ItemsInv
<1>5. needItems' \in BOOLEAN
  <2>1. needItems' = needItems \/ needItems' = (itemsAge > ItemsInterval)
    BY DEF Relist, TimePasses, BeginRefresh, RefreshFails, EndRefresh, vars
  <2>2. needItems \in BOOLEAN
    BY DEF ItemsInv
  <2>3. CASE itemsAge > ItemsInterval
    BY <2>1, <2>2, <2>3, Zenon
  <2>4. CASE ~(itemsAge > ItemsInterval)
    <3>1. (itemsAge > ItemsInterval) = FALSE
      BY <2>4
    <3> QED BY <2>1, <2>2, <3>1, Zenon
  <2> QED BY <2>3, <2>4
<1>6. reachable' \in BOOLEAN
  BY DEF Relist, TimePasses, BeginRefresh, RefreshFails, EndRefresh, vars, ItemsInv
<1>7. providersAge' \in 0..ProvidersInterval + 1 /\ itemsAge' \in 0..ItemsInterval + 1
  <2>1. /\ providersAge \in 0..ProvidersInterval + 1 /\ itemsAge \in 0..ItemsInterval + 1
        /\ ProvidersInterval \in Nat /\ ItemsInterval \in Nat
    BY ItemsAssumption DEF ItemsInv
  <2>2. CASE TimePasses
    BY <2>1, <2>2 DEF TimePasses, Older
  <2>3. CASE ~TimePasses
    BY <2>1, <2>3 DEF Relist, BeginRefresh, RefreshFails, EndRefresh, vars
  <2> QED BY <2>2, <2>3
<1> QED BY <1>1, <1>3, <1>4, <1>5, <1>6, <1>7, ItemsFrame

\* Rebuilding the list keeps the counts of the libraries it keeps, forgets those
\* it drops and starts the new ones without one.
LEMMA ProvidersStep ==
    ASSUME ItemsInv, ReadProviders
    PROVE  ItemsInv'
<1>1. /\ libs' = Build(listing) /\ listing \in Listings /\ IsLibs(libs)
      /\ answered' = [s \in Secs |-> IF \E i \in DOMAIN libs' : libs'[i].id = s THEN answered[s] ELSE <<>>]
      /\ UNCHANGED <<listing, itemsAge, work, reachable>>
      /\ providersAge' = 0 /\ rpc' = "identity" /\ needItems' \in BOOLEAN /\ rpc = "providers"
  BY DEF ReadProviders, ItemsInv
<1>2. /\ IsLibs(libs')
      /\ \A i \in DOMAIN libs' :
            LET l == libs'[i] IN
            /\ l.known <=> \E j \in DOMAIN libs : libs[j].id = l.id /\ libs[j].known
            /\ l.known => \E j \in DOMAIN libs : libs[j].id = l.id /\ libs[j].known /\ libs[j].count = l.count
  BY <1>1, BuildList
<1>3. \A i \in DOMAIN libs' : libs'[i] \in LibEntry
  BY <1>2 DEF IsLibs
<1>4. ASSUME NEW i \in DOMAIN libs'
      PROVE  /\ libs'[i].known <=> answered'[libs'[i].id] # <<>>
             /\ libs'[i].known => libs'[i].count = Outcome(answered'[libs'[i].id])
  <2>1. libs'[i].id \in Secs
    BY <1>3, ItemsAssumption DEF LibEntry
  <2>2. answered'[libs'[i].id] = answered[libs'[i].id]
    BY <1>1, <2>1
  <2>3. \A j \in DOMAIN libs :
           /\ libs[j].known <=> answered[libs[j].id] # <<>>
           /\ libs[j].known => libs[j].count = Outcome(answered[libs[j].id])
    BY DEF ItemsInv, CountTruth
  <2>4. answered[libs'[i].id] # <<>> => \E j \in DOMAIN libs : libs[j].id = libs'[i].id
    BY <2>1 DEF ItemsInv, AnswersListed
  <2>5. PICK l : l = libs'[i]
    OBVIOUS
  <2>6. /\ l.known <=> \E j \in DOMAIN libs : libs[j].id = l.id /\ libs[j].known
        /\ l.known => \E j \in DOMAIN libs : libs[j].id = l.id /\ libs[j].known /\ libs[j].count = l.count
    BY <1>2, <2>5
  <2>7. CASE l.known
    <3>1. PICK j \in DOMAIN libs : libs[j].id = l.id /\ libs[j].known /\ libs[j].count = l.count
      BY <2>6, <2>7
    <3>2. answered[l.id] # <<>> /\ l.count = Outcome(answered[l.id])
      <4>1. libs[j].known <=> answered[libs[j].id] # <<>>
        BY <2>3, Zenon
      <4>2. libs[j].known => libs[j].count = Outcome(answered[libs[j].id])
        BY <2>3, Zenon
      <4> QED BY <3>1, <4>1, <4>2, Zenon
    <3> QED BY <2>2, <2>5, <2>7, <3>2
  <2>8. CASE ~l.known
    <3>1. ASSUME answered[l.id] # <<>> PROVE FALSE
      <4>1. PICK j \in DOMAIN libs : libs[j].id = l.id
        BY <2>4, <2>5, <3>1
      <4>2. libs[j].known <=> answered[libs[j].id] # <<>>
        BY <2>3, Zenon
      <4>3. libs[j].known
        BY <3>1, <4>1, <4>2, Zenon
      <4> QED BY <2>6, <2>8, <4>1, <4>3
    <3> QED BY <2>2, <2>5, <2>8, <3>1
  <2> QED BY <2>7, <2>8
<1>5. CountTruth' /\ AnswersListed'
  BY <1>1, <1>4 DEF CountTruth, AnswersListed
<1>6. WorkInStep'
  BY <1>1 DEF WorkInStep, ItemsInv
<1>7. answered' \in [Secs -> Seq(Counts)]
  <2>1. answered \in [Secs -> Seq(Counts)] /\ <<>> \in Seq(Counts)
    BY DEF ItemsInv
  <2> QED BY <1>1, <2>1
<1>8. 0 \in 0..ProvidersInterval + 1
  BY ItemsAssumption
<1> QED BY <1>1, <1>2, <1>5, <1>6, <1>7, <1>8 DEF ItemsInv

\* The workers begin with the published list and nothing counted.
LEMMA IdentityStep ==
    ASSUME ItemsInv, ReadIdentity
    PROVE  ItemsInv'
<1>1. /\ rpc = "identity" /\ rpc' \in {"counts", "rest"}
      /\ work' = IF rpc' = "counts"
                 THEN [i \in DOMAIN libs |-> [lib |-> libs[i], next |-> 0, count |-> 0, answers |-> <<>>]]
                 ELSE work
      /\ UNCHANGED <<listing, libs, providersAge, itemsAge, needItems, reachable, answered>>
  BY DEF ReadIdentity, NextPhase
<1>2. WorkInStep'
  <2>1. CASE rpc' # "counts"
    BY <1>1, <2>1 DEF WorkInStep, ItemsInv
  <2>2. CASE rpc' = "counts"
    <3>1. \A i \in DOMAIN libs : libs[i] \in LibEntry
      BY DEF ItemsInv, IsLibs
    <3>2. 0 \in Counts /\ <<>> \in Seq(Counts)
      BY ItemsAssumption DEF Counts
    <3>3. ASSUME NEW i \in DOMAIN libs
          PROVE  work'[i] \in WorkEntry /\ work'[i].lib = libs[i] /\ CountedSoFar(work'[i])
      <4> DEFINE w == [lib |-> libs[i], next |-> 0, count |-> 0, answers |-> <<>>]
      <4>1. work'[i] = w
        BY <1>1, <2>2
      <4>2. w \in WorkEntry /\ w.lib = libs[i]
        BY <3>1, <3>2 DEF WorkEntry
      <4>3. CountedSoFar(w)
        BY DEF CountedSoFar, Chain
      <4> QED BY <4>1, <4>2, <4>3
    <3>4. DOMAIN work' = DOMAIN libs' /\ libs' = libs
      BY <1>1, <2>2
    <3> QED BY <2>2, <3>3, <3>4 DEF WorkInStep
  <2> QED BY <2>1, <2>2
<1>3. /\ listing' \in Listings /\ needItems' \in BOOLEAN /\ reachable' \in BOOLEAN
      /\ providersAge' \in 0..ProvidersInterval + 1 /\ itemsAge' \in 0..ItemsInterval + 1
  BY <1>1 DEF ItemsInv
<1> QED BY <1>1, <1>2, <1>3, ItemsFrame

\* One worker moves on: the others and the list stay.
LEMMA WorkerStep ==
    ASSUME ItemsInv, rpc = "counts", NEW i \in DOMAIN work, NEW w,
           work' = [work EXCEPT ![i] = w],
           w \in WorkEntry, w.lib = work[i].lib, CountedSoFar(w),
           UNCHANGED <<listing, libs, providersAge, itemsAge, rpc, needItems, reachable, answered>>
    PROVE  ItemsInv'
<1>1. WorkInStep'
  BY DEF ItemsInv, WorkInStep
<1>2. /\ listing' \in Listings /\ needItems' \in BOOLEAN /\ reachable' \in BOOLEAN
      /\ providersAge' \in 0..ProvidersInterval + 1 /\ itemsAge' \in 0..ItemsInterval + 1
      /\ rpc' \in {"idle", "providers", "identity", "counts", "rest"}
  BY DEF ItemsInv
<1> QED BY <1>1, <1>2, ItemsFrame

\* One more answer after nothing but zeros is the outcome.
LEMMA LastOutcome ==
    ASSUME NEW n \in Nat, NEW c \in Nat, NEW f \in [1..(n + 1) -> Nat], f[n + 1] = c,
           \A k \in 1..n : f[k] = 0
    PROVE  Outcome(f) = c /\ (c = 0 => \A k \in DOMAIN f : f[k] = 0)
<1>0. DOMAIN f = 1..(n + 1)
  OBVIOUS
<1>1. \A k \in 1..(n + 1) : k \in 1..n \/ k = n + 1
  OBVIOUS
<1>2. c = 0 => \A k \in DOMAIN f : f[k] = 0
  BY <1>0, <1>1
<1>3. ASSUME NEW m \in DOMAIN f, f[m] > 0
      PROVE  m = n + 1
  <2>1. m \in 1..n \/ m = n + 1
    BY <1>0, <1>1
  <2>2. m \notin 1..n
    <3> SUFFICES ASSUME m \in 1..n PROVE FALSE
      OBVIOUS
    <3>1. f[m] = 0
      OBVIOUS
    <3> QED BY <1>3, <3>1
  <2> QED BY <2>1, <2>2
<1>4. CASE \E k \in DOMAIN f : f[k] > 0
  <2> DEFINE m == CHOOSE k \in DOMAIN f : f[k] > 0
  <2>1. m \in DOMAIN f /\ f[m] > 0
    BY <1>4
  <2>2. Outcome(f) = f[m]
    BY <1>4 DEF Outcome
  <2> HIDE DEF m
  <2>3. m = n + 1
    BY <1>3, <2>1
  <2> QED BY <1>2, <2>2, <2>3
<1>5. CASE ~ \E k \in DOMAIN f : f[k] > 0
  <2>1. Outcome(f) = 0
    BY <1>5 DEF Outcome
  <2>2. ~(f[n + 1] > 0)
    <3>1. n + 1 \in DOMAIN f
      BY <1>0
    <3> QED BY <1>5, <3>1, Zenon
  <2>3. c = 0
    BY <2>2
  <2> QED BY <1>2, <2>1, <2>3
<1> QED BY <1>4, <1>5

\* An answer above zero after nothing but zeros is the outcome, a zero leaves it
\* zero (server.go:349-375).
LEMMA AnswerCounts ==
    ASSUME NEW w \in WorkEntry, CountedSoFar(w), w.next \in 1..Chain(w.lib.id), NEW c \in Counts
    PROVE  After(w, c) \in WorkEntry /\ After(w, c).lib = w.lib /\ CountedSoFar(After(w, c))
<1> DEFINE u == After(w, c)
<1>1. /\ w.answers \in Seq(Counts) /\ w.lib \in LibEntry /\ w.next \in Nat
      /\ c \in Nat /\ Chain(w.lib.id) \in {1, 3}
  BY ItemsAssumption DEF WorkEntry, Counts, Chain
<1>2. PICK ans : ans = Append(w.answers, c)
  OBVIOUS
<1>3. PICK n : n = Len(w.answers)
  OBVIOUS
<1>4. ans \in Seq(Counts) /\ n \in Nat /\ DOMAIN w.answers = 1..n
  BY <1>1, <1>2, <1>3
<1>5. DOMAIN ans = 1..(n + 1) /\ ans[n + 1] = c /\ \A k \in 1..n : ans[k] = w.answers[k]
  BY <1>1, <1>2, <1>3
<1>6. \A k \in 1..n : ans[k] = 0
  <2>1. w.next <= Chain(w.lib.id)
    BY <1>1
  <2>2. \A k \in DOMAIN w.answers : w.answers[k] = 0
    BY <2>1 DEF CountedSoFar
  <2> QED BY <1>4, <1>5, <2>2
<1>7. Outcome(ans) = c /\ (c = 0 => \A k \in DOMAIN ans : ans[k] = 0)
  <2>1. ans \in [1..(n + 1) -> Nat]
    <3>1. \A k \in 1..(n + 1) : ans[k] \in Nat
      BY <1>1, <1>4, <1>5, <1>6
    <3>2. ans \in [DOMAIN ans -> Counts]
      BY <1>4
    <3> QED BY <1>5, <3>1, <3>2
  <2> QED BY <1>1, <1>4, <1>5, <1>6, <2>1, LastOutcome
<1>8. /\ u.count = c /\ u.answers = ans /\ u.lib = w.lib
      /\ u.next = (IF c > 0 THEN Chain(w.lib.id) + 1 ELSE w.next + 1)
  BY <1>2 DEF After, WorkEntry
<1>9. u \in [lib : LibEntry, next : {u.next}, count : Counts, answers : {u.answers}]
  BY <1>1 DEF After, WorkEntry
<1> HIDE DEF u
<1>10. u.next \in 1..Chain(w.lib.id) + 1
  BY <1>1, <1>8
<1>11. u \in WorkEntry
  <2>1. u.next \in Nat
    BY <1>1, <1>10
  <2> QED BY <1>4, <1>8, <1>9, <2>1 DEF WorkEntry
<1>12. u.next <= Chain(u.lib.id) => c = 0
  BY <1>1, <1>8
<1>13. CountedSoFar(u)
  <2>1. u.next \in 0..Chain(u.lib.id) + 1
    BY <1>1, <1>8, <1>10
  <2>2. u.count = Outcome(u.answers)
    BY <1>7, <1>8
  <2>3. u.next <= Chain(u.lib.id) => u.count = 0 /\ \A k \in DOMAIN u.answers : u.answers[k] = 0
    BY <1>7, <1>8, <1>12
  <2> QED BY <2>1, <2>2, <2>3 DEF CountedSoFar
<1> QED BY <1>8, <1>11, <1>13 DEF u

\* A worker takes a library, or one of its queries ends.
LEMMA WorkersStep ==
    ASSUME ItemsInv, NEW i \in 1..MaxLibraries,
           TakeLibrary(i) \/ QueryFails(i) \/ \E c \in 0..MaxCount : QueryAnswered(i, c)
    PROVE  ItemsInv'
<1>1. rpc = "counts" /\ i \in DOMAIN work
      /\ UNCHANGED <<listing, libs, providersAge, itemsAge, rpc, needItems, reachable, answered>>
  BY DEF TakeLibrary, QueryFails, QueryAnswered
<1>2. work[i] \in WorkEntry /\ CountedSoFar(work[i]) /\ Chain(work[i].lib.id) \in {1, 3}
  BY <1>1 DEF ItemsInv, WorkInStep, Chain
<1>3. CASE TakeLibrary(i)
  <2> DEFINE w == [work[i] EXCEPT !.next = 1]
  <2>1. work' = [work EXCEPT ![i] = w] /\ work[i].next = 0
    BY <1>3 DEF TakeLibrary
  <2>2. /\ w \in WorkEntry /\ w.lib = work[i].lib /\ w.next = 1
        /\ w.count = work[i].count /\ w.answers = work[i].answers
    BY <1>2 DEF WorkEntry
  <2>3. CountedSoFar(w)
    BY <1>2, <2>1, <2>2 DEF CountedSoFar
  <2> HIDE DEF w
  <2> QED BY <1>1, <2>1, <2>2, <2>3, WorkerStep
<1>4. CASE QueryFails(i)
  <2> DEFINE w == [work[i] EXCEPT !.next = @ + 1]
  <2>1. work' = [work EXCEPT ![i] = w] /\ work[i].next \in 1..Chain(work[i].lib.id)
    BY <1>4 DEF QueryFails
  <2>2. /\ w \in WorkEntry /\ w.lib = work[i].lib /\ w.next = work[i].next + 1
        /\ w.count = work[i].count /\ w.answers = work[i].answers
    BY <1>2 DEF WorkEntry
  <2>3. CountedSoFar(w)
    BY <1>2, <2>1, <2>2 DEF CountedSoFar
  <2> HIDE DEF w
  <2> QED BY <1>1, <2>1, <2>2, <2>3, WorkerStep
<1>5. ASSUME NEW c \in 0..MaxCount, QueryAnswered(i, c) PROVE ItemsInv'
  <2> DEFINE w == After(work[i], c)
  <2>1. work' = [work EXCEPT ![i] = w] /\ work[i].next \in 1..Chain(work[i].lib.id)
    BY <1>5 DEF QueryAnswered
  <2>2. w \in WorkEntry /\ w.lib = work[i].lib /\ CountedSoFar(w)
    BY <1>2, <2>1, AnswerCounts DEF Counts
  <2> HIDE DEF w
  <2> QED BY <1>1, <2>1, <2>2, WorkerStep
<1> QED BY <1>3, <1>4, <1>5

\* The counts are written back by index and id, and each is what its answers
\* came to; a library without an answer keeps what it had.
LEMMA WriteBackStep ==
    ASSUME ItemsInv, WriteBack
    PROVE  ItemsInv'
<1>1. /\ rpc = "counts" /\ rpc' = "rest" /\ work' = <<>> /\ itemsAge' = 0
      /\ UNCHANGED <<listing, providersAge, needItems, reachable>>
      /\ libs' = [i \in DOMAIN libs |->
                    IF i \in DOMAIN work /\ work[i].lib.id = libs[i].id THEN Filled(work[i]) ELSE libs[i]]
  BY DEF WriteBack
<1>2. /\ DOMAIN work = DOMAIN libs
      /\ \A i \in DOMAIN work : work[i] \in WorkEntry /\ work[i].lib = libs[i] /\ CountedSoFar(work[i])
      /\ \A i, j \in DOMAIN libs : libs[i].id = libs[j].id => i = j
      /\ answered \in [Secs -> Seq(Counts)]
  BY <1>1 DEF ItemsInv, WorkInStep, IsLibs
<1> DEFINE W(s) == {i \in DOMAIN work : work[i].lib.id = s /\ work[i].answers # <<>>}
<1>3. answered' = [s \in Secs |-> IF W(s) = {} THEN answered[s] ELSE work[CHOOSE i \in W(s) : TRUE].answers]
  BY DEF WriteBack
<1>4. DOMAIN libs' = DOMAIN libs /\ \A i \in DOMAIN libs : libs'[i] = Filled(work[i])
  BY <1>1, <1>2
<1>5. ASSUME NEW i \in DOMAIN libs
      PROVE  /\ libs'[i] \in LibEntry /\ libs'[i].id = libs[i].id /\ libs[i].id \in Secs
             /\ work[i].answers = <<>> => libs'[i] = libs[i]
             /\ work[i].answers # <<>> => libs'[i].known /\ libs'[i].count = Outcome(work[i].answers)
  <2>1. libs[i] \in LibEntry /\ libs[i].id \in Secs
    BY <1>2, ItemsAssumption DEF WorkEntry, LibEntry
  <2>2. work[i].count \in Counts /\ work[i].lib = libs[i]
    BY <1>2 DEF WorkEntry
  <2>3. CASE work[i].answers = <<>>
    BY <1>4, <2>1, <2>2, <2>3 DEF Filled
  <2>4. CASE work[i].answers # <<>>
    <3>1. libs'[i] = [libs[i] EXCEPT !.count = work[i].count, !.known = TRUE]
      BY <1>4, <2>2, <2>4 DEF Filled
    <3>2. work[i].count = Outcome(work[i].answers)
      BY <1>2, <2>4 DEF CountedSoFar
    <3> QED BY <2>1, <2>2, <2>4, <3>1, <3>2 DEF LibEntry
  <2> QED BY <2>3, <2>4
<1>6. ASSUME NEW i \in DOMAIN libs
      PROVE  answered'[libs[i].id] = IF work[i].answers = <<>> THEN answered[libs[i].id] ELSE work[i].answers
  <2>1. W(libs[i].id) \subseteq {i} /\ (i \in W(libs[i].id) <=> work[i].answers # <<>>)
    BY <1>2
  <2>2. libs[i].id \in Secs
    BY <1>5
  <2>3. answered'[libs[i].id] = IF W(libs[i].id) = {} THEN answered[libs[i].id]
                                ELSE work[CHOOSE j \in W(libs[i].id) : TRUE].answers
    BY <1>3, <2>2
  <2> HIDE DEF W
  <2>4. CASE i \in W(libs[i].id)
    <3>1. W(libs[i].id) = {i} /\ (CHOOSE j \in W(libs[i].id) : TRUE) = i
      BY <2>1, <2>4
    <3> QED BY <2>1, <2>3, <2>4, <3>1
  <2>5. CASE i \notin W(libs[i].id)
    BY <2>1, <2>3, <2>5
  <2> QED BY <2>4, <2>5
<1>7. \A s \in Secs : W(s) # {} => \E i \in DOMAIN libs : libs[i].id = s
  BY <1>2
<1>8. answered' \in [Secs -> Seq(Counts)]
  <2> SUFFICES ASSUME NEW s \in Secs PROVE answered'[s] \in Seq(Counts)
    BY <1>3
  <2>1. CASE W(s) = {}
    BY <1>2, <1>3, <2>1
  <2>2. CASE W(s) # {}
    <3>1. PICK i \in W(s) : i = CHOOSE j \in W(s) : TRUE
      BY <2>2
    <3>2. work[i] \in WorkEntry
      BY <1>2, <3>1
    <3>3. answered'[s] = work[i].answers
      <4> HIDE DEF W
      <4> QED BY <1>3, <2>2, <3>1
    <3> QED BY <3>2, <3>3 DEF WorkEntry
  <2> QED BY <2>1, <2>2
<1> HIDE DEF W
<1>9. AnswersListed'
  <2> SUFFICES ASSUME NEW s \in Secs, answered'[s] # <<>> PROVE \E i \in DOMAIN libs' : libs'[i].id = s
    BY DEF AnswersListed
  <2>1. \E i \in DOMAIN libs : libs[i].id = s
    BY <1>3, <1>7 DEF ItemsInv, AnswersListed
  <2> QED BY <1>4, <1>5, <2>1
<1>10. CountTruth'
  <2> SUFFICES ASSUME NEW i \in DOMAIN libs
               PROVE  /\ libs'[i].known <=> answered'[libs'[i].id] # <<>>
                      /\ libs'[i].known => libs'[i].count = Outcome(answered'[libs'[i].id])
    BY <1>4 DEF CountTruth
  <2>1. CASE work[i].answers = <<>>
    BY <1>5, <1>6, <2>1 DEF ItemsInv, CountTruth
  <2>2. CASE work[i].answers # <<>>
    BY <1>5, <1>6, <2>2
  <2> QED BY <2>1, <2>2
<1>11. IsLibs(libs')
  <2>1. PICK n \in 0..MaxLibraries : libs \in [1..n -> LibEntry]
    BY DEF ItemsInv, IsLibs
  <2>2. libs' \in [1..n -> LibEntry]
    BY <1>1, <1>4, <1>5, <2>1
  <2> QED BY <1>2, <1>4, <1>5, <2>2 DEF IsLibs
<1>12. WorkInStep'
  BY <1>1 DEF WorkInStep
<1>13. 0 \in 0..ItemsInterval + 1
  BY ItemsAssumption
<1> QED BY <1>1, <1>8, <1>9, <1>10, <1>11, <1>12, <1>13 DEF ItemsInv

\* Every step keeps the parts.
LEMMA ItemsInvStep == ItemsInv /\ [Next]_vars => ItemsInv'
<1> SUFFICES ASSUME ItemsInv, [Next]_vars PROVE ItemsInv'
  OBVIOUS
<1> QED BY QuietSteps, ProvidersStep, IdentityStep, WorkersStep, WriteBackStep
        DEF Next, RefreshStep, Fails
-----------------------------------------------------------------------------
\* The published list and the workers' copy of it stay in step, and each count is
\* that of the answers it came from (server.go:319-419).
THEOREM ItemsInvariant == Spec => []ItemsInv
BY ItemsInitInv, ItemsInvStep, PTL DEF Spec

\* A published count is what the last count of the library that got an answer
\* came to, and a library without an answer publishes none, through any sequence
\* of failed queries, rebuilt lists and failed refreshes (server.go:349-397).
THEOREM CountsTrue == Spec => []CountTruth
<1>1. ItemsInv => CountTruth
  BY DEF ItemsInv
<1> QED BY ItemsInvariant, <1>1, PTL

\* The list, the workers' copy and the ages keep their types, the list stays
\* within the cap and the workers hold nothing outside their phase.
THEOREM ItemsTypes == Spec => []ItemsTypeOK
<1>1. ASSUME ItemsInv PROVE ItemsTypeOK
  <2>1. PICK n \in 0..MaxLibraries : libs \in [1..n -> LibEntry]
    BY <1>1 DEF ItemsInv, IsLibs
  <2>2. n \in Nat /\ DOMAIN libs = 1..Len(libs) /\ Len(libs) <= MaxLibraries
    <3>1. n \in Nat /\ n <= MaxLibraries
      BY ItemsAssumption
    <3>2. libs \in Seq(LibEntry) /\ Len(libs) = n
      BY <2>1, <3>1
    <3> QED BY <2>1, <3>1, <3>2
  <2>3. \A i \in DOMAIN libs : libs[i] \in [id : Countable, count : 0..MaxCount, known : BOOLEAN]
    BY <2>1 DEF LibEntry, Counts
  <2>4. \A i \in DOMAIN work : work[i].next \in 0..Chain(work[i].lib.id) + 1
    BY <1>1 DEF ItemsInv, WorkInStep, CountedSoFar
  <2>5. answered \in [Secs -> Seq(0..MaxCount)]
    BY <1>1 DEF ItemsInv, Counts
  <2> QED BY <1>1, <2>2, <2>3, <2>4, <2>5 DEF ItemsInv, ItemsTypeOK, WorkInStep
<1> QED BY ItemsInvariant, <1>1, PTL
=============================================================================
