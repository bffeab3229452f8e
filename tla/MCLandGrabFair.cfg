SPECIFICATION FairSpec
CONSTANTS
    Members = {m1, m2}
    Requests = {q1}
    Sweepers = {s1}
    Operators = {o1}
    Fixtures = {f1, f2}
    Bets = {b1}
    Periods <- MCOnePeriod
    ResultsFrom = 2
    LastTick = 2
    Disturbances = {"scope", "early"}
    NoPick = NoPick
    NoRequest = NoRequest
PROPERTY
    RoundSettles
