SPECIFICATION BackgroundSpec
CONSTANTS
    Picks <- ThePicks
    Scores <- TheScores
    MaxEntries = 2
    MaxLosses = 1
    Reporters = {j1, j2}
    Sustained = 2
    LoudGap = 1
    QuietGap = 2
    Boots = {b1, b2}
    Dismissals = {d1, d2}
    LastDay = 2
    LastTick = 9
    Offset = 4
    Senders = {s1, s2}
    Tabs = {t1, t2}
    LastRow = 2
    Threshold = 2
    MaxSends = 3
    Hours = 3
    Categories = {"results", "payments"}
    Callers = {c1, c2}
    Fixtures = {f1, f2, f3}
    Competitions = {k1, k2}
    FinalScores <- TheFinals
    MaxRetries = 2
    BatchSize = 2
    MaxBooks = 2
    MaxLapses = 2
    Leagues = {"A", "B"}
    Dates = {0, 2, 3, 10}
    Weekdays = {2, 3}
    Legacy = {2, 3}
    MaxChanges = 2
INVARIANTS
    ResultsAreEarned
    LastWordIsTold
    TroubleIsHeard
    MembersAreToldOnce
    SettledMeansOver
    QuotaIsSpared
    NamesDiffer
PROPERTIES
    DisabledIsEarned
    OnePolicy
    SettledNamesAreKept
CHECK_DEADLOCK FALSE
