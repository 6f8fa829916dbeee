\* Two items in one library, the first of which may be deleted during a walk, and
\* room to walk one library; the second library comes with its item; a play may
\* come at any time.
CONSTANTS
    Items = {1, 2, 3}
    Libs = {1, 2}
    Home <- MCHome
    Future = {3}
    Deletable = {1}
    Unreadable = {}
    MaxClock = 2
    Overlap = 0
    CatchupWindow = 0
    MaxBoots = 1
    VideoLibs = {1, 2}
    MaxWalked = 1
    MaxPass = 1
    Never = Never
SPECIFICATION Spec
INVARIANTS WalkTypeOK CompleteCovers
PROPERTIES PruneSafe
