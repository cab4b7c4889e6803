SPECIFICATION ConcurrentSpec
CHECK_DEADLOCK FALSE
CONSTANTS
    Id = {i1, i2, i3}
    Hub = {h1}
    Topic = {t1}
    Worker = {w1}
    Null = Null
    NoRow = NoRow
    Margin = 1
    Lease = {3}
    I64Max = 9
    Start = 1
    MaxTime = 3
    Faults = {}
    MaxFaults = 0
    Callback <- IdentityCallback
SYMMETRY Symmetry
INVARIANTS
    CoversWhenQuiet
