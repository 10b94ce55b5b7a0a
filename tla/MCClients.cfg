SPECIFICATION Spec
CONSTANTS
    None = none
    Keys = {a, b, c}
    Entries = {e}
    Clients = {p}
    MaxEvents = 4
    MaxLog = 5
    MaxSpawns = 2
CONSTRAINT FewCalls
SYMMETRY Symmetry
INVARIANTS ThreadsAgree InboxOneGeneration
CHECK_DEADLOCK FALSE
