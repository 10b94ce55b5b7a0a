CONSTANTS
  codex = codex
  cursor = cursor
  Adapters = {codex, cursor}
  Order <- MCOrder
  Contents = {c1}
  Torn = torn
  None = None
  Procs = {p1, p2}
  MaxCommands = 3
  MaxCrashes = 1
  MaxFailures = 1
  Malformed = Malformed
SPECIFICATION BothSpec
SYMMETRY Symmetry
INVARIANTS ActiveEarned RefusedOnlyOpen RequestsHold
CHECK_DEADLOCK FALSE
CONSTRAINT Bound
