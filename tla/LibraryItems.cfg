\* A music library, one of another kind and a directory that is no library, in any order.
CONSTANTS
    Secs = {music, shows, other}
    Countable = {music, shows}
    Music = {music}
    MaxLibraries = 2
    Workers = 2
    ProvidersInterval = 1
    ItemsInterval = 2
    MaxCount = 1
SPECIFICATION FairSpec
INVARIANTS ItemsTypeOK CountTruth
PROPERTIES CountsAppear
