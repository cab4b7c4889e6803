SPECIFICATION Spec
CHECK_DEADLOCK FALSE
CONSTANTS
    Id = {i1, i2, i3, i4}
    Hub = {h1, h2}
    Topic = {t1}
    Null = Null
    NoRow = NoRow
    Margin = 1
    Lease = {1, 3, 9}
    I64Max = 9
    Start = 1
    MaxTime = 3
    Faults = {}
    MaxFaults = 0
    Callback <- IdentityCallback
SYMMETRY IdSymmetry
INVARIANTS
    TypeOK
    AtMostOneActive
    RenewedInTime
    NoSilentOrphan
    RenewalUnderWay
PROPERTIES
    KeyKept
    TickMakesProgress
