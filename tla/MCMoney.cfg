SPECIFICATION MoneySpec
SYMMETRY EitherMember
CONSTANTS
    Members = {m1, m2}
    Weeks = 2
    Fees = {1}
    Season = {2}
    MaxCredit = 2
    MaxFlights = 2
    MaxEdits = 1
    Payments = {p1}
    TopUps = {t1}
    Payees = {x1}
    Owners = {o1, o2}
    MaxTime = 3
    MaxPairs = 2
    Overlap = 1
    History = 2
    Nobody = Nobody
    Receipts = {e1}
    Runners = {r1, r2}
    MaxReads = 1
    MaxRuns = 3
INVARIANTS
    DuesAreOwed
    PotIsCovered
    NothingMissed
    StoredPairIsLive
    NoticeGoesOutOnce
PROPERTIES
    OwnerIsKept
CHECK_DEADLOCK FALSE
