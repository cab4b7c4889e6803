SPECIFICATION FairSpec
CHECK_DEADLOCK FALSE
CONSTANTS
    Thread = {p1, p2}
    MaxTime = 3
    NoTick = 9
INVARIANTS
    NoLostWakeup
    StaysReachable
    HastenHonoured
PROPERTIES
    DueTicks
    EndsAfterDrop
    ImplementsAlarm
