SPECIFICATION FairSpec
CONSTANTS
    Members = {m1, m2}
    Tasks = {t1, t2, t3}
    NoTask = NoTask
    Slots = 2
    MaxFaults = 1
INVARIANTS
    ToldOnce
    FullCouponIsAnnounced
    NoStandstill
PROPERTIES
    RetriedByTheNextPick
