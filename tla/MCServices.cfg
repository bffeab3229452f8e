SPECIFICATION ServicesSpec
CONSTANTS
    People = {p1, p2, p3}
    SiteAdmins = {p3}
    Invites = {i1}
    Caps = {1, 2}
    None = None
    Clients = {k1, k2}
    Sessions = {1, 2, 3}
    MaxAttempts = 2
    MaxPins = 2
    MaxResets = 1
    LastEvent = 3
    Callers = {c1, c2}
    ChunkSize = 2
    IsolationLimit = 2
    HourLimit = 3
    Reserve = 1
    LastCompetition = 4
    Carried = {1, 2, 4}
    PerRun = 2
    LivePerRun = 1
    Divisions = {"one", "two"}
    Clubs = {"ath", "atr", "bor", "cov", "der"}
    DivisionOf <- TheDivisionOf
    Tabled = {"two"}
    Games = {1, 2, 3}
    SideOf <- TheSideOf
    Spellings = {"ath", "atr", "bor", "cov", "der", "at"}
    NameOf <- TheNameOf
    Likeness <- TheLikeness
    Legs = {"l1", "l2"}
    LegOf <- TheLegOf
    GameOf <- TheGameOf
    Days = {1, 3}
    MaxGoals = 1
    Selections = {"a", "b"}
    MaxPosts = 2
    MaxChecks = 2
    MaxTaps = 2
    MaxPrice = 2
    MaxDrops = 1
INVARIANTS
    InviteAdmitsOne
    ServedSinglyKeepsTheRules
    SessionsFollowThePin
    LockIsEarned
    MarkedOnEvidence
    RequestsAreRationed
    NonePassedTwice
    ScoresShownAreTrue
    NewestIntentWins
PROPERTIES
    NamesKeepTheirMeaning
CHECK_DEADLOCK FALSE
