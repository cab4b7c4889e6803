SPECIFICATION Spec
CHECK_DEADLOCK FALSE
CONSTANTS
    Id = {i1, i2, i3}
    Hub = {h1}
    Topic = {t1}
    Null = Null
    NoRow = NoRow
    Margin = 1
    Lease = {1, 4}
    I64Max = 9
    Start = 1
    MaxTime = 3
    Faults = {"lose_request", "lose_reply", "rollback", "tick_error", "restart"}
    MaxFaults = 2
    Callback <- IdentityCallback
SYMMETRY IdSymmetry
INVARIANTS
    SchedulerCovers
    HubAgrees
PROPERTIES
    StaysServed
    ImplementsLease
