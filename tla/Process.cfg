\* A wait for a slot lost at a time; units of ten seconds for the background reads.
SPECIFICATION MCSpec
CONSTANTS
    Callers = {"refresh", "history", "walk"}
    Interval = 2
    MaxLost = 1
    Reads <- MCReads
    Lasting = {"activities", "prefs"}
    Every <- MCEvery
    StaleAfter <- MCStaleAfter
    Deadline = 1
    Budget = 4
    Devices = {"a", "b"}
    Window = 2
    Lag = 1
    LastSecond = 4
INVARIANTS BgTypeOK MarkerHonest EarlyStopStartsNothing SlotSoon SamplesCountedOnce
PROPERTIES SlotsApart DegradedRecovers EveryReadTried AnswersStay AnswersLapse
CHECK_DEADLOCK FALSE
