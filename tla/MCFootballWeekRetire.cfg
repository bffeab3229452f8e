SPECIFICATION Spec
CONSTANTS
    Days <- MCDays
    Canonical = 2
    Members = {m1}
    MaxEdits = 2
    Overlaps = {"retirement"}
    NoDay = NoDay
    Idle = Idle
PROPERTY
    PicksAreKept
