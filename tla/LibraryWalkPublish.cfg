\* A library that comes later and pushes the other past the limit of one, two full
\* reads, unusable rows and failed walks; no hourly pass comes to help.
CONSTANTS
    Items = {1, 3}
    Libs = {1, 2}
    Home <- MCHome
    Future = {1}
    Deletable = {}
    Unreadable = {1}
    MaxClock = 2
    Overlap = 0
    CatchupWindow = 1
    MaxBoots = 2
    VideoLibs = {1, 2}
    MaxWalked = 1
    MaxPass = 1
    Never = Never
SPECIFICATION FairSpec
PROPERTIES FiguresAppear
