SPECIFICATION FilesSpec
CONSTANTS
    t1 = t1  t2 = t2  t3 = t3
    p1 = p1  p2 = p2
    Tasks = {t1, t2, t3}
    Pids = {p1, p2}
    PidOf <- MCPidOf
    NoPid = NoPid
    NoFile = NoFile
    Writers = {w1, w2}
    Readers = {r1}
    Drafts <- MCDrafts
    MaxLog = 3
    MaxEdits = 3
    TaskNames = {"P", "c", "x"}
    Bodies = {"b1", "b2"}
    Listed <- MCFiles
    Pool = {"p1"}
    Archived = {"a1"}
    Contents <- MCContents
    MaxWrites = 2
    Jobs = {j1, j2}
    Starts <- MCStarts
    ReleaseTypes = {"patch", "beta"}
    MaxCommits = 2
    MaxBuilds = 2
    None = None
    Corrupt = Corrupt
INVARIANTS ExclusiveUnlessRaced StampedHolderSpared CommittedStays LoadedIsReal MigratedWhole ReleasedWhole
CONSTRAINT Followed
SYMMETRY SameJobs
