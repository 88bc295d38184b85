CONSTANTS
    Manifests <- MCManifests
    Faults <- MCFaults
    Versions = {"1"}
    Histories <- MCHistories
    Pushed <- MCPushed
    MaxCommits = 2
    MaxRuns = 4
    MaxByHand = 3
SPECIFICATION Spec
INVARIANTS
    OnlyVerified
    VersionsAgree
    OneRunStands
PROPERTIES
    EdgeNeverGoesBack
    RunsConclude
CHECK_DEADLOCK FALSE
