SPECIFICATION ProjectSpec
CONSTANTS
    Canon = {"dir", "moved"}
    Live = {"old", "new", "kept"}
    Versions = {1, 2}
    Templates <- TemplatesDef
    Migrations <- MigrationsDef
    Breaking = {2}
    Custom = {"mine"}
    None = None
    MaxUpdates = 2
    MaxEdits = 2
    MaxStops = 1
    Legacies = {"l1", "l2"}
    Template = "template"
    Mine = "mine"
    InstallRuns = 3
    InstallStops = 2
    InstallEdits = 1
    Layout <- LayoutDef
    Blank <- BlankDef
    Options <- CommandLines
    FetchRuns = 2
    FetchEdits = 1
CHECK_DEADLOCK FALSE
INVARIANTS RespectsDeletion InstalledWhole
PROPERTIES KeepsCustom UserWorkKept
