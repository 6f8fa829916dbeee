\* Full reads, increments and catch-ups of up to five rows, in pages of two rows
\* and one page a read: a full history of three rows is over the limit, and an
\* increment from an empty map may need three reads.  Figures with two entries a
\* list, sums that overflow past 7 bytes, and a key group that turns into a bitmap
\* at its fourth key.
SPECIFICATION MCSpec
CONSTANTS
    Items = {i1}
    Unusable = Unusable
    PageSize = 2
    MaxPages = 1
    MaxIncrementalPages = 1
    MaxCatchupPages = 1
    Overlap = 0
    MaxTime = 2
    MaxRows = 5
    Rows <- MCRows
    PlayTimes = {0, 2, 6}
    TopN = 2
    MaxBytes = 7
    GroupSize = 5
    WordSize = 3
    GroupListMax = 3
    Now = 10
    Day = 1
    Week = 2
    Days90 = 4
    Year = 8
    Others <- MCOthers
INVARIANTS ReadTypeOK NoPlayLost StatsTypeOK FiguresTrue BreakdownsAgree TopListsExact MergedRecentExact
PROPERTIES ReadCovers PlaysArrive
CHECK_DEADLOCK FALSE
