SPECIFICATION Spec
CONSTANTS
    None = None
    MaxInputs = 2
    MaxLines = 2
INVARIANTS KilledBeforeExit OneTurn TimerOnlyWhenIdle OutcomeLostOnlyInFlight
PROPERTIES ShutdownCompletes
CHECK_DEADLOCK FALSE
