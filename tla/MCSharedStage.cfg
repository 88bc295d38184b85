CONSTANTS
    MaxRuns = 2
    MaxPolls = 2
    Tests = 2
    Modes = {"http"}
    Signals = {}
    FixedStage = TRUE
SPECIFICATION Spec
INVARIANT ReadinessGate
