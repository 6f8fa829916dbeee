\* A scrape that may take one unit of time after its snapshot.
CONSTANTS
    r1 = r1 k1 = k1 i1 = i1 l1 = l1
    RawKeys = {r1}
    Keys = {k1}
    Norm <- MCNorm
    Items = {i1}
    Libraries = {l1}
    Kinds = {}
    Nil = Nil
    LibOf <- MCLibOf
    BadItem = BadItem
    LibraryLists <- MCLibraryLists
    Answers <- MCAnswers
    MaxTracked = 1
    SessionTimeout = 1
    StaleTimeout = 2
    PruneInterval = 1
    PollTimeout = 1
    MaxTime = 5
    ScrapeTime = 1
SPECIFICATION ScrapeSpec
PROPERTIES ShownMonotone
