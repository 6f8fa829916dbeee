\* A first play read after the walk passed its item.
CONSTANTS
    Items = {1}
    Libs = {1, 2}
    Home <- MCHome
    Future = {}
    Deletable = {}
    Unreadable = {}
    MaxClock = 3
    Overlap = 1
    CatchupWindow = 1
    MaxBoots = 1
    VideoLibs = {1, 2}
    MaxWalked = 2
    MaxPass = 1
    Never = Never
SPECIFICATION Spec
PROPERTIES VisitedSpared
