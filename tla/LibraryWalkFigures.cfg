\* One item that may be deleted, three full reads two of which may fail, two hourly
\* passes, unusable rows, and time for plays before, during and after each.
CONSTANTS
    Items = {1}
    Libs = {1}
    Home <- MCHome
    Future = {}
    Deletable = {1}
    Unreadable = {1}
    MaxClock = 3
    Overlap = 0
    CatchupWindow = 1
    MaxBoots = 3
    VideoLibs = {1}
    MaxWalked = 1
    MaxPass = 2
    Never = Never
SPECIFICATION Spec
INVARIANTS WatchTruth
