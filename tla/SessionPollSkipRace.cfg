\* One resolved session, pruned as stale between MediaResolved and Update.
CONSTANTS
    r1 = r1 r2 = r2 r3 = r3 k1 = k1 k2 = k2 i1 = i1 i2 = i2 l1 = l1 l2 = l2 ts1 = ts1
    RawKeys = {r1}
    Keys = {k1}
    Norm <- MCNorm
    Items = {i1, i2}
    Libraries = {l1, l2}
    Kinds = {ts1}
    Nil = Nil
    LibOf <- MCLibOf
    BadItem = BadItem
    LibraryLists <- LearnedLibraries
    Answers <- SwitchAnswers
    MaxTracked = 2
    SessionTimeout = 2
    StaleTimeout = 4
    PruneInterval = 2
    PollTimeout = 1
    MaxTime = 8
SPECIFICATION Spec
PROPERTIES SkippedMediaKept
