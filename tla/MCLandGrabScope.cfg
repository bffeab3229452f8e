SPECIFICATION Spec
CONSTANTS
    Members = {m1, m2}
    Requests = {q1, q2}
    Sweepers = {s1}
    Operators = {o1}
    Fixtures = {f1, f2}
    Bets = {b1, b2}
    Periods <- MCPeriods
    ResultsFrom = 3
    LastTick = 3
    Disturbances = {"scope"}
    NoPick = NoPick
    NoRequest = NoRequest
INVARIANT
    FixtureRule
