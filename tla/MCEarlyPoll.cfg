CONSTANTS
    MaxRuns = 2
    MaxPolls = 2
    Tests = 2
    Modes = {"http"}
    Signals = {}
    FixedStage = FALSE
SPECIFICATION Spec
INVARIANT GivesUpForCause
