SPECIFICATION TaskSpec
CONSTANTS
    Clients = {c1, c2}
    Items = {p1}
    Gates = {g1}
    Moves = {"verify"}
    LegacyStatuses = {"planning"}
    NoKernel = NoKernel
    NoProjection = NoProjection
    Absent = Absent
    Torn = Torn
    Free = Free
    None = None
    MaxCommands = 2
    MaxCrashes = 1
    MaxFailures = 1
    Asked <- MCAsked
    MaxExtrasCommands = 4
SYMMETRY ClientSymmetry
CHECK_DEADLOCK FALSE
INVARIANTS SyncedUnlessDamaged AckedApplied AppliedOnce RecordsHold
PROPERTY ImplementsLifecycle
