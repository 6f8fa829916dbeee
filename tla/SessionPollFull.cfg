\* Three raw keys, two of them equal after the cut, and room for one session of two.
CONSTANTS
    r1 = r1 r2 = r2 r3 = r3 k1 = k1 k2 = k2 i1 = i1 i2 = i2 l1 = l1 l2 = l2 ts1 = ts1
    RawKeys = {r1, r2, r3}
    Keys = {k1, k2}
    Norm <- MCNorm
    Items = {i1}
    Libraries = {l1}
    Kinds = {ts1}
    Nil = Nil
    LibOf <- MCLibOf
    BadItem = BadItem
    LibraryLists <- KnownLibraries
    Answers <- FullAnswers
    MaxTracked = 1
    SessionTimeout = 1
    StaleTimeout = 1
    PruneInterval = 1
    PollTimeout = 1
    MaxTime = 3
SPECIFICATION Spec
INVARIANTS CapRespected
PROPERTIES PollApplies TrackerContract
