\* One session on one clock: polls, outages, ends, sweeps, an item after another,
\* the library list lost and learned.
CONSTANTS
    r1 = r1 r2 = r2 r3 = r3 k1 = k1 k2 = k2 i1 = i1 i2 = i2 l1 = l1 l2 = l2 ts1 = ts1
    RawKeys = {r1}
    Keys = {k1}
    Norm <- MCNorm
    Items = {i1, i2}
    Libraries = {l1, l2}
    Kinds = {}
    Nil = Nil
    LibOf <- MCLibOf
    BadItem = BadItem
    LibraryLists <- LearnedLibraries
    Answers <- OneAnswers
    MaxTracked = 1
    SessionTimeout = 1
    StaleTimeout = 2
    PruneInterval = 1
    PollTimeout = 1
    MaxTime = 5
SPECIFICATION Spec
INVARIANTS PollTypeOK EndedGoes StaleGoes
PROPERTIES EndedStays PollResolves
