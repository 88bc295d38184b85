CONSTANTS
    MaxRuns = 2
    MaxPolls = 2
    Tests = 2
    Modes = {"subprocess", "http", "unix", "http_url", "subprocess_url"}
    Signals = {"INT", "KILL"}
    FixedStage = FALSE
SPECIFICATION Spec
INVARIANTS
    SkipIsNotPass
    ReadinessGate
    NoOrphans
PROPERTIES
    PassedByOwnServer
    RunsEnd
