SPECIFICATION FairSpec
CONSTANTS
    Days <- MCDays
    Canonical = 2
    Members = {m1}
    MaxEdits = 2
    Overlaps = {}
    NoDay = NoDay
    Idle = Idle
PROPERTIES
    OneScoringRound
    ScorableStaysScorable
    EveryRoundEnds
