SPECIFICATION LaidSpec
CONSTANTS
    Adapters = {a1, a2}
    Resources = {"agents", "skill"}
    WholeFiles = {"skill"}
    Versions = {"v1", "v2"}
    Assets = {x1}
    Order <- OrderDef
    Targets <- BindingsDef
    InitialFiles <- InitialDef
    ControlRequests <- ControlRequestsDef
    RawControls <- RawControlsDef
    FileEdits <- FileEditsDef
    Mappings <- MappingsDef
    Checks <- ChecksDef
    HandLedgers <- HandLedgersDef
    HandChecks <- HandChecksDef
    CheckRecords <- CheckRecordsDef
    QualityEdits = 3
    QualityCommands = 4
    Absent = Absent
    None = None
    Edited = Edited
    NoLedger = NoLedger
    Free = Free
    MaxPlans = 3
    MaxEdits = 0
    MaxCrashes = 0
CONSTRAINT Followed
SYMMETRY AdapterSymmetry
CHECK_DEADLOCK FALSE
INVARIANTS SiblingsKeepClaims
