\* One dataset, two jobs with a retry each, a clean request, recovery.
SPECIFICATION Spec
CONSTANTS
    Datasets = {d1}
    Jobs = {j1, j2}
    Cleaners = {c1}
    NoDataset = NoDataset
    MaxJobs = 2
    MaxTries = 2
    JobTimeout = 1
    StaleAfter = 1
SYMMETRY Symmetry
INVARIANTS
    AnalysingHasRunningRun
    RecoverySparesLiveRuns
    ReadyWasIngested
PROPERTIES
    FinishedRunIsFinal
    ImplementsLifecycle
