------------------------------ MODULE LibStats ------------------------------
(* libstats.Aggregate: the rows of one library walk, in any order and some of *)
(* them twice, become the figures the exporter publishes; and MergeRecent of  *)
(* several libraries' lists.                                                  *)
EXTENDS Integers, SequencesExt

CONSTANTS
    Rows,               \* Plex: the rows a walk can yield
    PlayTimes,          \* what history knows of a key: a time, 0 for nothing
    TopN,               \* how long the lists of largest and newest are
    MaxBytes,           \* math.MaxInt64
    GroupSize,          \* keys in a group of the key set
    WordSize,           \* bits in a word of a group's bitmap
    GroupListMax,       \* groupListMax
    Now, Day, Week, Days90, Year, \* the walk's start; ages
    Others              \* the Recent lists of the other libraries

ASSUME LibStatsAssumption ==
    /\ {TopN, GroupSize, WordSize, GroupListMax} \subseteq Nat \ {0} /\ MaxBytes \in Nat
    /\ {Now, Day, Week, Days90, Year} \subseteq Int /\ PlayTimes \subseteq Int
    /\ Day < Week /\ Week < Days90 /\ Days90 < Year

\* A size that Plex does not state is 0, and so is a key that does not parse.
ASSUME RowsAssumption ==
    Rows \subseteq
        [key : Nat, show : Nat, added : Int, viewed : Int,
         media : Seq([res : STRING, codec : STRING, parts : Seq(Int)])]

\* Plex's keys name an item of one library: no two of the lists share one. An
\* item that moved to another library and is in the lists of both, until the
\* library it left is walked again, is left out.
ASSUME OthersAssumption ==
    /\ Others \in Seq(Seq([key : Nat, bytes : Nat, added : Int, last : Int]))
    /\ \A i, j \in DOMAIN Others : \A m \in DOMAIN Others[i], n \in DOMAIN Others[j] :
          Others[i][m].key = Others[j][n].key => i = j /\ m = n
    /\ \A i \in DOMAIN Others : \A m \in DOMAIN Others[i] :
          \A r \in Rows : Others[i][m].key # r.key

VARIABLES
    showLibrary,
    apc,                \* "rows", "shows" once the walk has ended, "done", "failed"
    groups,             \* keySet: [group -> whether it is a bitmap, the bitmap's
                        \*   words as sets of bits, and the sorted list]
    stats,
    shows,              \* [show key -> show]
    counted             \* history: [key -> the row and last play it was counted with]

statsVars == <<showLibrary, apc, groups, stats, shows, counted>>

NoKey == 0              \* a rating key that does not parse

Keys == {r.key : r \in Rows} \ {NoKey}
ShowKeys == {r.show : r \in Rows} \ {NoKey}
Groups == {k \div GroupSize : k \in Keys}
Lows == 0 .. GroupSize - 1
Words == {v \div WordSize : v \in Lows}
Bits == 0 .. WordSize - 1
Buckets == {"never", "under_90d", "90d_1y", "over_1y"}
Resolutions == {"2160", "1080", "sd", "other", "unknown"}
Codecs == {"h264", "hevc", "other", "unknown"}

Larger(m, n) == IF m > n THEN m ELSE n
Least(m, n) == IF m < n THEN m ELSE n

\* Lower case and without spaces already; 1080 and sd stand for the five
\* resolutions kept as they are, h264 and hevc for the seven codecs.
ResolutionBucket(v) ==
    CASE v = "" -> "unknown" [] v \in {"4k", "2160"} -> "2160"
      [] v \in {"1080", "sd"} -> v [] OTHER -> "other"
NormalizeCodec(v) ==
    CASE v = "" -> "unknown" [] v \in {"h264", "hevc"} -> v [] OTHER -> "other"
-----------------------------------------------------------------------------
Sizes(r) == [i \in DOMAIN r.media |-> SumFunction(r.media[i].parts)]

\* itemBytes: whether the size of every part of every version is known, and
\* the sum fits.
KnownSize(r) ==
    /\ r.media # <<>> /\ SumFunction(Sizes(r)) <= MaxBytes
    /\ \A m \in ToSet(r.media) : m.parts # <<>> /\ \A p \in ToSet(m.parts) : p > 0
Bytes(r) == IF KnownSize(r) THEN SumFunction(Sizes(r)) ELSE 0

\* lastPlayed: history's play or the owner's own, which has a time of 0 without
\* a positive view count.
LastPlayed(r, play) == Larger(Larger(play, r.viewed), 0)

\* Mutant: the bounds belong to the newer bucket.
BucketLate(last) ==
    CASE last <= 0 -> "never"
      [] last > 0 /\ Now - last <= Days90 -> "under_90d"
      [] last > 0 /\ Now - last \in Days90 + 1 .. Year -> "90d_1y"
      [] OTHER -> "over_1y"

Bucket(last) ==
    CASE last <= 0 -> "never"
      [] last > 0 /\ Now - last < Days90 -> "under_90d"
      [] last > 0 /\ Now - last \in Days90 .. Year - 1 -> "90d_1y"
      [] OTHER -> "over_1y"

\* bySize and byAdded: f is "bytes" or "added".
Before(f, a, b) == a[f] > b[f] \/ (a[f] = b[f] /\ a.key < b.key)

\* The place is found from the end; an item past the last place is not taken.
InsertTop(list, it, f) ==
    LET i == CHOOSE j \in 0..Len(list) :
                /\ \A k \in j + 1 .. Len(list) : Before(f, it, list[k])
                /\ j > 0 => ~Before(f, it, list[j])
    IN  IF i = TopN THEN list
        ELSE LET longer == InsertAt(list, i + 1, it)
             IN  SubSeq(longer, 1, Least(TopN, Len(longer)))

\* Mutant: the lists are joined and cut without being merged.
MergeRecentJoined(lists) ==
    LET all == FlattenSeq(lists) IN SubSeq(all, 1, Least(TopN, Len(all)))

\* Its inner loop, over the entries of one list.
WithList(out, list) ==
    LET with[n \in 0 .. Len(list)] ==
            IF n = 0 THEN out ELSE InsertTop(with[n - 1], list[n], "added")
    IN  with[Len(list)]

MergeRecent(lists) ==
    LET merged[n \in 0 .. Len(lists)] ==
            IF n = 0 THEN <<>> ELSE WithList(merged[n - 1], lists[n])
    IN  merged[Len(lists)]
-----------------------------------------------------------------------------
\* slices.BinarySearch: on any list it ends at a place with a smaller key before
\* it, or none, and no smaller key at it; on a sorted one there is one such place.
SearchPlace(list, v) ==
    CHOOSE i \in 0..Len(list) : /\ i > 0 => list[i] < v
                                /\ i < Len(list) => list[i + 1] >= v

Found(list, v) == LET i == SearchPlace(list, v) IN i < Len(list) /\ list[i + 1] = v

HasBit(bits, v) == v % WordSize \in bits[v \div WordSize]

\* Whether keyGroup.insert finds the key there.
Holds(g, v) == IF g.bitmap THEN HasBit(g.bits, v) ELSE Found(g.low, v)
InSet(key) == Holds(groups[key \div GroupSize], key % GroupSize)

NoBits == [n \in Words |-> {}]
NoKeys == [bitmap |-> FALSE, bits |-> NoBits, low |-> <<>>]

WithBit(g, v) == [g EXCEPT !.bits[v \div WordSize] = @ \cup {v % WordSize}]

\* A bit for every key of a full list.
AsBitmap(g) ==
    [bitmap |-> TRUE, low |-> <<>>,
     bits |-> [n \in Words |->
                 {g.low[i] % WordSize : i \in {j \in DOMAIN g.low : g.low[j] \div WordSize = n}}]]

\* Mutant: the key that turns the list into a bitmap gets no bit itself.
WithKeyLost(g, v) ==
    IF g.bitmap THEN WithBit(g, v)
    ELSE IF Len(g.low) < GroupListMax THEN [g EXCEPT !.low = InsertAt(@, SearchPlace(@, v) + 1, v)]
    ELSE AsBitmap(g)

\* keyGroup.insert of an absent key: a full list becomes a bitmap first.
WithKey(g, v) ==
    IF g.bitmap THEN WithBit(g, v)
    ELSE IF Len(g.low) < GroupListMax THEN [g EXCEPT !.low = InsertAt(@, SearchPlace(@, v) + 1, v)]
    ELSE WithBit(AsBitmap(g), v)

\* keySet.insert.
KeyAdded(key) == [groups EXCEPT ![key \div GroupSize] = WithKey(@, key % GroupSize)]

\* The bytes of the versions of r in a class of one of the two breakdowns.
BytesIn(r, class, classes) ==
    SumFunction([i \in DOMAIN r.media |-> IF classes[i] = class THEN Sizes(r)[i] ELSE 0])
Res(r) == [i \in DOMAIN r.media |-> ResolutionBucket(r.media[i].res)]
Codec(r) == [i \in DOMAIN r.media |-> NormalizeCodec(r.media[i].codec)]

\* Every version but the largest.
Extra(r) == Bytes(r) - Max(ToSet(Sizes(r)))

\* add up to the lists: counts for every item, bytes for those of known size.
WithRow(r, last) ==
    LET sized == KnownSize(r)
        age == Now - r.added
        when == Bucket(last)
    IN [stats EXCEPT
          !.items[when] = @ + 1,
          !.added24h = IF r.added > 0 /\ age <= Day THEN @ + 1 ELSE @,
          !.added7d = IF r.added > 0 /\ age <= Week THEN @ + 1 ELSE @,
          !.newest = Larger(@, r.added),
          !.unsized = IF sized THEN @ ELSE @ + 1,
          !.bytes[when] = @ + Bytes(r),
          !.res = [c \in Resolutions |-> @[c] + IF sized THEN BytesIn(r, c, Res(r)) ELSE 0],
          !.codec = [c \in Codecs |-> @[c] + IF sized THEN BytesIn(r, c, Codec(r)) ELSE 0],
          !.multi = IF sized /\ Len(r.media) > 1 THEN @ + 1 ELSE @,
          !.extra = IF sized /\ Len(r.media) > 1 THEN @ + Extra(r) ELSE @]

Entry(key, bytes, added, last) == [key |-> key, bytes |-> bytes, added |-> added, last |-> last]

\* A movie's place in the two lists.
WithMovie(st, r, last) ==
    LET entry == Entry(r.key, Bytes(r), r.added, last)
    IN  [st EXCEPT
           !.largest = IF KnownSize(r) THEN InsertTop(@, entry, "bytes") ELSE @,
           !.recent = IF r.added > 0 THEN InsertTop(@, entry, "added") ELSE @]

NoEntry == Entry(0, 0, 0, 0)

\* Mutant: an episode of unknown size leaves its show ranked.
WithEpisodeRanked(s, r, last) ==
    [s EXCEPT !.bytes = @ + Bytes(r), !.last = Larger(@, last)]

\* addEpisode on the show s.
WithEpisode(s, r, last) ==
    LET fits == KnownSize(r) /\ Bytes(r) <= MaxBytes - s.bytes
        entry == Entry(r.key, 0, r.added, 0)
    IN  [s EXCEPT
           !.partial = @ \/ ~fits,
           !.bytes = IF fits THEN @ + Bytes(r) ELSE @,
           !.last = Larger(@, last),
           !.newest = IF r.added > 0 /\ Before("added", entry, @) THEN entry ELSE @]

\* Mutant: the sums wrap unseen.
FitsAlways(st) == TRUE

\* checkedAdd: no byte sum is past int64.
Fits(st) ==
    /\ \A f \in {st.bytes, st.res, st.codec} : \A c \in DOMAIN f : f[c] <= MaxBytes
    /\ st.extra <= MaxBytes
-----------------------------------------------------------------------------
StatsInit ==
    /\ showLibrary \in BOOLEAN /\ apc = "rows"
    /\ groups = [g \in Groups |-> NoKeys]
    /\ stats = [items |-> [b \in Buckets |-> 0], bytes |-> [b \in Buckets |-> 0],
                res |-> [c \in Resolutions |-> 0], codec |-> [c \in Codecs |-> 0],
                added24h |-> 0, added7d |-> 0, newest |-> 0, unsized |-> 0,
                multi |-> 0, extra |-> 0, largest |-> <<>>, recent |-> <<>>]
    /\ shows = <<>> /\ counted = <<>>

\* A row whose key does not parse, or that was read before.
SkipRow(r) ==
    /\ apc = "rows" /\ (r.key = NoKey \/ InSet(r.key))
    /\ UNCHANGED statsVars

\* A sum does not fit: the walk fails at once.
Overflow(r, play) ==
    /\ apc = "rows" /\ r.key # NoKey /\ ~InSet(r.key)
    /\ ~Fits(WithRow(r, LastPlayed(r, play)))
    /\ apc' = "failed"
    /\ UNCHANGED <<showLibrary, groups, stats, shows, counted>>

\* The first reading of a key; history is asked for the item, and for its show
\* the first time that comes up.
CountRow(r, play, showPlay) ==
    LET last == LastPlayed(r, play)
        st == WithRow(r, last)
        s == IF r.show \in DOMAIN shows THEN shows[r.show]
             ELSE [bytes |-> 0, last |-> showPlay, partial |-> FALSE, newest |-> NoEntry]
    IN /\ apc = "rows" /\ r.key # NoKey /\ ~InSet(r.key) /\ Fits(st)
       /\ groups' = KeyAdded(r.key)
       /\ stats' = IF showLibrary THEN st ELSE WithMovie(st, r, last)
       /\ shows' = IF showLibrary /\ r.show # NoKey
                   THEN [k \in DOMAIN shows \cup {r.show} |->
                            IF k = r.show THEN WithEpisode(s, r, last) ELSE shows[k]]
                   ELSE shows
       /\ counted' = [k \in DOMAIN counted \cup {r.key} |->
                         IF k = r.key THEN [row |-> r, last |-> last] ELSE counted[k]]
       /\ UNCHANGED <<showLibrary, apc>>

\* The walk fails: no figures.
WalkFails ==
    /\ apc = "rows"
    /\ apc' = "failed"
    /\ UNCHANGED <<showLibrary, groups, stats, shows, counted>>

WalkEnds ==
    /\ apc = "rows"
    /\ apc' = "shows"
    /\ UNCHANGED <<showLibrary, groups, stats, shows, counted>>

\* finish, for one show: the map has no order.
FinishShow(k) ==
    /\ apc = "shows" /\ k \in DOMAIN shows
    /\ stats' =
         [stats EXCEPT
            !.largest = IF shows[k].partial THEN @
                        ELSE InsertTop(@, Entry(k, shows[k].bytes, 0, shows[k].last), "bytes"),
            !.recent = IF shows[k].newest.added > 0
                       THEN InsertTop(@, shows[k].newest, "added") ELSE @]
    /\ shows' = [j \in DOMAIN shows \ {k} |-> shows[j]]
    /\ UNCHANGED <<showLibrary, apc, groups, counted>>

Finished ==
    /\ apc = "shows" /\ shows = <<>>
    /\ apc' = "done"
    /\ UNCHANGED <<showLibrary, groups, stats, shows, counted>>

StatsNext ==
    \/ \E r \in Rows :
          \/ SkipRow(r)
          \/ \E play \in PlayTimes :
                Overflow(r, play) \/ \E showPlay \in PlayTimes : CountRow(r, play, showPlay)
    \/ WalkFails \/ WalkEnds
    \/ (\E k \in ShowKeys : FinishShow(k)) \/ Finished

StatsSpec == StatsInit /\ [][StatsNext]_statsVars
-----------------------------------------------------------------------------
StatsTypeOK ==
    /\ apc \in {"rows", "shows", "done", "failed"} /\ showLibrary \in BOOLEAN
    /\ groups \in [Groups -> [bitmap : BOOLEAN, bits : [Words -> SUBSET Bits], low : Seq(Lows)]]
    /\ \A g \in Groups : Len(groups[g].low) <= GroupListMax
    /\ stats.items \in [Buckets -> Nat] /\ stats.bytes \in [Buckets -> 0..MaxBytes]
    /\ stats.res \in [Resolutions -> 0..MaxBytes] /\ stats.codec \in [Codecs -> 0..MaxBytes]
    /\ {stats.added24h, stats.added7d, stats.newest, stats.unsized, stats.multi} \subseteq Nat
    /\ stats.extra \in 0..MaxBytes
    /\ Len(stats.largest) <= TopN /\ Len(stats.recent) <= TopN
    /\ DOMAIN shows \subseteq ShowKeys /\ DOMAIN counted \subseteq Keys

RowOf(k) == counted[k].row
BytesOf == [k \in DOMAIN counted |-> Bytes(RowOf(k))]
ExtraOf == [k \in DOMAIN counted |-> Extra(RowOf(k))]
BytesFor(K) == SumFunctionOnSet(BytesOf, K)

\* The plays of each age bucket, by the times between which they lie.
PlayedIn(b) ==
    {k \in DOMAIN counted :
        LET last == counted[k].last IN
        \/ b = "never" /\ last = 0
        \/ b = "under_90d" /\ last > 0 /\ last > Now - Days90
        \/ b = "90d_1y" /\ last > 0 /\ Now - Year < last /\ last <= Now - Days90
        \/ b = "over_1y" /\ last > 0 /\ last <= Now - Year}

\* Every figure is the one the first readings of the keys give, whatever order
\* they came in and however often the paging repeated a row; for the key set
\* finds again exactly the keys that were put in, in the sorted list of a group,
\* in its bitmap, and across the step from the one to the other
\* (libstats.go:82-86, keyset.go:36-59).
FiguresTrue ==
    LET K == DOMAIN counted
        Sized == {k \in K : KnownSize(RowOf(k))}
        Within(age) == {k \in K : RowOf(k).added > 0 /\ RowOf(k).added >= Now - age}
        Several == {k \in Sized : Len(RowOf(k).media) > 1}
    IN /\ \A k \in Keys : InSet(k) <=> k \in K
       /\ \A b \in Buckets : stats.items[b] = Cardinality(PlayedIn(b))
       /\ stats.unsized = Cardinality(K \ Sized)
       /\ stats.multi = Cardinality(Several) /\ stats.extra = SumFunctionOnSet(ExtraOf, Several)
       /\ stats.added24h = Cardinality(Within(Day)) /\ stats.added7d = Cardinality(Within(Week))
       /\ \A k \in K : RowOf(k).added <= stats.newest
       /\ stats.newest = 0 \/ \E k \in K : RowOf(k).added = stats.newest

\* The three breakdowns of a library's bytes have one total, that of the items of
\* known size, and the bytes of an age bucket are those of the items last played
\* that long ago, at its two bounds as well (libstats.go:58-73, 203-216).
BreakdownsAgree ==
    /\ \A breakdown \in {stats.bytes, stats.res, stats.codec} :
          SumFunction(breakdown) = BytesFor(DOMAIN counted)
    /\ \A b \in Buckets : stats.bytes[b] = BytesFor(PlayedIn(b))

\* Only a list that has everything is shorter than TopN.
IsTop(list, all, f) ==
    /\ Len(list) <= TopN /\ ToSet(list) \subseteq all
    /\ Len(list) < TopN => all \subseteq ToSet(list)
    /\ \A i, j \in DOMAIN list : i < j => Before(f, list[i], list[j])
    /\ \A a \in all \ ToSet(list) : \A e \in ToSet(list) : Before(f, e, a)

Episodes(show) == {k \in DOMAIN counted : RowOf(k).show = show}

\* What the lists rank: the movies, or the shows no episode of which has an
\* unknown size and whose total fits; and the newest of each.
RankedBySize ==
    IF showLibrary
    THEN {[key |-> s, bytes |-> BytesFor(Episodes(s))] :
             s \in {t \in ShowKeys : /\ Episodes(t) # {}
                                     /\ \A k \in Episodes(t) : KnownSize(RowOf(k))
                                     /\ BytesFor(Episodes(t)) <= MaxBytes}}
    ELSE {[key |-> k, bytes |-> BytesOf[k]] : k \in {j \in DOMAIN counted : KnownSize(RowOf(j))}}

RankedByAge ==
    LET Dated == {k \in DOMAIN counted : RowOf(k).added > 0}
        AsEntry(k) == [key |-> k, added |-> RowOf(k).added]
        NewestOfShow(k) == \A j \in Dated \ {k} :
                              RowOf(j).show = RowOf(k).show => Before("added", AsEntry(k), AsEntry(j))
    IN {AsEntry(k) : k \in IF showLibrary
                            THEN {j \in Dated : RowOf(j).show # NoKey /\ NewestOfShow(j)}
                            ELSE Dated}

ByKeyAndSize(list) == [i \in DOMAIN list |-> [key |-> list[i].key, bytes |-> list[i].bytes]]
ByKeyAndAge(list) == [i \in DOMAIN list |-> [key |-> list[i].key, added |-> list[i].added]]

\* The published lists are the largest and the newest there are, in order,
\* whatever order the rows and the shows came in; a show of which any episode
\* has an unknown size is in no list of sizes, and an entry's last play is no
\* older than that of any item it stands for (libstats.go:107-109, 306-320).
TopListsExact ==
    apc = "done" =>
       /\ IsTop(ByKeyAndSize(stats.largest), RankedBySize, "bytes")
       /\ IsTop(ByKeyAndAge(stats.recent), RankedByAge, "added")
       /\ \A e \in ToSet(stats.largest) :
             \A k \in IF showLibrary THEN Episodes(e.key) ELSE {e.key} : e.last >= counted[k].last

\* The server's newest items are the newest of all libraries, although each
\* library hands over only its own few (libstats.go:322-331).
MergedRecentExact ==
    apc = "done" =>
        IsTop(ByKeyAndAge(MergeRecent(<<stats.recent>> \o Others)),
              RankedByAge \cup UNION {ToSet(ByKeyAndAge(l)) : l \in ToSet(Others)}, "added")
=============================================================================
