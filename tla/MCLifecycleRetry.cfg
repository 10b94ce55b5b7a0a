CONSTANTS
  codex = codex
  cursor = cursor
  Adapters = {codex, cursor}
  Order <- MCOrder
  Contents = {c1, c2}
  Torn = torn
  None = None
  Malformed = Malformed
  Procs = {p1}
  MaxCommands = 3
  MaxCrashes = 1
  MaxFailures = 0
SPECIFICATION BothSpec
SYMMETRY Symmetry
CHECK_DEADLOCK FALSE
INVARIANT RetryAccepted
