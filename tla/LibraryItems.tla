---------------------------- MODULE LibraryItems ----------------------------
(* Server.Refresh: the library list of /media/providers and the item count of *)
(* each library, read by up to four workers and written back.  What Plex      *)
(* answers is any list and any count.  The host, bandwidth and background     *)
(* reads that follow the counts never fail a refresh and are one step here.   *)
EXTENDS Integers, Sequences, FiniteSets

CONSTANTS
    Secs,               \* directories Plex may list
    Countable,          \* those of a library type with a numeric id
    Music,              \* artist libraries, counted by a chain of three queries
    MaxLibraries,       \* library.MaxLibraries
    Workers,            \* 4
    ProvidersInterval,  \* providersRefreshInterval
    ItemsInterval,      \* the 15 minutes of LastItemsRefresh
    MaxCount            \* bound of a count

ASSUME ItemsAssumption ==
    /\ IsFiniteSet(Secs) /\ Countable \subseteq Secs /\ Music \subseteq Countable
    /\ {MaxLibraries, Workers} \subseteq Nat \ {0}
    /\ {ProvidersInterval, ItemsInterval, MaxCount} \subseteq Nat

VARIABLES
    listing,            \* Plex: the directories, in Plex's order
    libs,               \* Server.Libraries
    providersAge,       \* time since LastProvidersRefresh, not told apart once due
    itemsAge,           \* time since LastItemsRefresh
    rpc,                \* where Refresh is, "idle" between two of them
    needItems,          \* its local needItemsRefresh
    work,               \* the copy of Libraries that refreshLibraryItems fills
    reachable,          \* Server.HTTPReachable
    answered            \* history: [Secs -> the answers to the last count that got any]

vars == <<listing, libs, providersAge, itemsAge, rpc, needItems, work, reachable, answered>>

Listings == {s \in UNION {[1..n -> Secs] : n \in 0..Cardinality(Secs)} :
                \A i, j \in DOMAIN s : s[i] = s[j] => i = j}

ItemsInit ==
    /\ listing \in Listings
    /\ libs = <<>> /\ work = <<>>
    /\ providersAge = ProvidersInterval + 1 /\ itemsAge = ItemsInterval + 1
    /\ rpc = "idle" /\ needItems = FALSE
    /\ reachable = FALSE
    /\ answered = [s \in Secs |-> <<>>]
-----------------------------------------------------------------------------
\* The counts that carry over to a rebuilt list: only those actually read.
PrevItems == {l \in {libs[i] : i \in DOMAIN libs} : l.known}

\* Mutant: directories of other types get a place in the list too.
BuildUnfiltered(dirs) ==
    [i \in 1..(IF Len(dirs) < MaxLibraries THEN Len(dirs) ELSE MaxLibraries) |->
        [id |-> dirs[i], count |-> 0, known |-> FALSE]]

\* The places of the countable directories, and which of them is the p-th.
Kept(dirs) == {i \in DOMAIN dirs : dirs[i] \in Countable}
KeptUpTo(dirs, i) == {j \in Kept(dirs) : j <= i}
NthKept(dirs, p) == CHOOSE i \in Kept(dirs) : Cardinality(KeptUpTo(dirs, i)) = p

\* library.Build: the countable directories up to the cap, with their counts.
Build(dirs) ==
    LET size == Cardinality(Kept(dirs))
        prev(s) == {l.count : l \in {m \in PrevItems : m.id = s}}
        entry(s) == IF prev(s) = {} THEN [id |-> s, count |-> 0, known |-> FALSE]
                    ELSE [id |-> s, count |-> CHOOSE c \in prev(s) : TRUE, known |-> TRUE]
    IN  [p \in 1..(IF size < MaxLibraries THEN size ELSE MaxLibraries) |-> entry(dirs[NthKept(dirs, p)])]

\* How many queries ItemCountTypes allows a library.
Chain(s) == IF s \in Music THEN 3 ELSE 1
-----------------------------------------------------------------------------
\* Plex adds, removes or reorders directories.
Relist ==
    /\ listing' \in Listings
    /\ listing' # listing
    /\ UNCHANGED <<libs, providersAge, itemsAge, rpc, needItems, work, reachable, answered>>

Older(age, due) == IF age > due THEN age ELSE age + 1
TimePasses ==
    /\ providersAge' = Older(providersAge, ProvidersInterval)
    /\ itemsAge' = Older(itemsAge, ItemsInterval)
    /\ <<providersAge, itemsAge>>' # <<providersAge, itemsAge>>
    /\ UNCHANGED <<listing, libs, rpc, needItems, work, reachable, answered>>

\* The ticker fires, and no refresh runs.
BeginRefresh ==
    /\ rpc = "idle"
    /\ IF providersAge > ProvidersInterval
       THEN rpc' = "providers" /\ UNCHANGED needItems
       ELSE rpc' = "identity" /\ needItems' = (itemsAge > ItemsInterval)
    /\ UNCHANGED <<listing, libs, providersAge, itemsAge, work, reachable, answered>>

ReadProviders ==
    /\ rpc = "providers"
    /\ libs' = Build(listing)
    /\ providersAge' = 0
    /\ rpc' = "identity" /\ needItems' = (itemsAge > ItemsInterval)
    /\ answered' = [s \in Secs |-> IF \E i \in DOMAIN libs' : libs'[i].id = s THEN answered[s] ELSE <<>>]
    /\ UNCHANGED <<listing, itemsAge, work, reachable>>

NextPhase == IF needItems THEN "counts" ELSE "rest"

\* The identity is read, and the libraries are copied for the count workers.
ReadIdentity ==
    /\ rpc = "identity"
    /\ rpc' = NextPhase
    /\ work' = IF rpc' = "counts"
               THEN [i \in DOMAIN libs |-> [lib |-> libs[i], next |-> 0, count |-> 0, answers |-> <<>>]]
               ELSE work
    /\ UNCHANGED <<listing, libs, providersAge, itemsAge, needItems, reachable, answered>>

\* Providers or identity cannot be read: the refresh fails.
RefreshFails ==
    /\ rpc \in {"providers", "identity"}
    /\ rpc' = "idle" /\ reachable' = FALSE
    /\ UNCHANGED <<listing, libs, providersAge, itemsAge, needItems, work, answered>>

\* A worker takes the next library off the channel.
TakeLibrary(i) ==
    /\ rpc = "counts" /\ i \in DOMAIN work /\ work[i].next = 0
    /\ \A j \in 1..i - 1 : work[j].next > 0
    /\ Cardinality({j \in DOMAIN work : work[j].next \in 1..Chain(work[j].lib.id)}) < Workers
    /\ work' = [work EXCEPT ![i].next = 1]
    /\ UNCHANGED <<listing, libs, providersAge, itemsAge, rpc, needItems, reachable, answered>>

\* fillItemCount: a query answered; a positive count wins at once.
After(w, c) ==
    [w EXCEPT !.count = c, !.answers = Append(@, c),
              !.next = IF c > 0 THEN Chain(w.lib.id) + 1 ELSE @ + 1]

QueryAnswered(i, c) ==
    /\ rpc = "counts" /\ i \in DOMAIN work /\ work[i].next \in 1..Chain(work[i].lib.id)
    /\ work' = [work EXCEPT ![i] = After(@, c)]
    /\ UNCHANGED <<listing, libs, providersAge, itemsAge, rpc, needItems, reachable, answered>>

\* tryItemCount got an error or a negative total.
QueryFails(i) ==
    /\ rpc = "counts" /\ i \in DOMAIN work /\ work[i].next \in 1..Chain(work[i].lib.id)
    /\ work' = [work EXCEPT ![i].next = @ + 1]
    /\ UNCHANGED <<listing, libs, providersAge, itemsAge, rpc, needItems, reachable, answered>>

\* Mutant: a library none of whose queries answered is filled too.
FilledAlways(w) == [w.lib EXCEPT !.count = w.count, !.known = TRUE]

\* Mutant: a library is only filled with a count above zero.
FilledPositive(w) ==
    IF w.count = 0 THEN w.lib ELSE [w.lib EXCEPT !.count = w.count, !.known = TRUE]

\* A library whose queries all failed keeps what it had.
Filled(w) ==
    IF w.answers = <<>> THEN w.lib ELSE [w.lib EXCEPT !.count = w.count, !.known = TRUE]

\* writeBackItemCounts, by index and id, once every worker is done.
WriteBack ==
    /\ rpc = "counts"
    /\ \A i \in DOMAIN work : work[i].next > Chain(work[i].lib.id)
    /\ libs' = [i \in DOMAIN libs |->
                    IF i \in DOMAIN work /\ work[i].lib.id = libs[i].id THEN Filled(work[i]) ELSE libs[i]]
    /\ answered' = [s \in Secs |->
                        LET w == {i \in DOMAIN work : work[i].lib.id = s /\ work[i].answers # <<>>}
                        IN  IF w = {} THEN answered[s] ELSE work[CHOOSE i \in w : TRUE].answers]
    /\ itemsAge' = 0
    /\ work' = <<>> /\ rpc' = "rest"
    /\ UNCHANGED <<listing, providersAge, needItems, reachable>>

EndRefresh ==
    /\ rpc = "rest"
    /\ rpc' = "idle" /\ reachable' = TRUE
    /\ UNCHANGED <<listing, libs, providersAge, itemsAge, needItems, work, answered>>

Fails == RefreshFails \/ \E i \in 1..MaxLibraries : QueryFails(i)
RefreshStep ==
    \/ BeginRefresh \/ ReadProviders \/ ReadIdentity \/ WriteBack \/ EndRefresh
    \/ \E i \in 1..MaxLibraries : TakeLibrary(i) \/ \E c \in 0..MaxCount : QueryAnswered(i, c)
    \/ Fails

Next == Relist \/ TimePasses \/ RefreshStep
Spec == ItemsInit /\ [][Next]_vars

\* RunRefreshLoop and the refresh's deadline; time passes.
FairSpec == Spec /\ WF_vars(RefreshStep) /\ WF_vars(TimePasses)
-----------------------------------------------------------------------------
\* What a count's answers come to: a positive one if there is any, else zero.
Outcome(as) == IF \E k \in DOMAIN as : as[k] > 0 THEN as[CHOOSE k \in DOMAIN as : as[k] > 0] ELSE 0

\* The types, and that the workers hold nothing outside their phase.
ItemsTypeOK ==
    /\ listing \in Listings
    /\ DOMAIN libs = 1..Len(libs) /\ Len(libs) <= MaxLibraries
    /\ \A i \in DOMAIN libs : libs[i] \in [id : Countable, count : 0..MaxCount, known : BOOLEAN]
    /\ providersAge \in 0..ProvidersInterval + 1 /\ itemsAge \in 0..ItemsInterval + 1
    /\ rpc \in {"idle", "providers", "identity", "counts", "rest"}
    /\ needItems \in BOOLEAN /\ reachable \in BOOLEAN
    /\ answered \in [Secs -> Seq(0..MaxCount)]
    /\ rpc # "counts" => work = <<>>
    /\ \A i \in DOMAIN work : work[i].next \in 0..Chain(work[i].lib.id) + 1

\* A library's published count is what the last count of it that got an answer
\* came to, through failed queries, the artist chain, and rebuilt, reordered
\* and shortened lists; a library never answered for publishes nothing, and an
\* answered one never loses its count while it is listed: an outage never reads
\* as a collapse (server.go:349-354, library.go:43-46).
CountTruth ==
    \A i \in DOMAIN libs :
        /\ libs[i].known <=> answered[libs[i].id] # <<>>
        /\ libs[i].known => libs[i].count = Outcome(answered[libs[i].id])

\* Once Plex answers and its list stays, every library gets a count, though a
\* failed round of counts is stamped as a round (server.go:160-165).
CountsAppear ==
    <>[][~Fails /\ ~Relist]_vars =>
        <>[](/\ Len(libs) = Len(Build(listing))
             /\ \A i \in DOMAIN libs : libs[i].known /\ libs[i].id = Build(listing)[i].id)
==============================================================================
