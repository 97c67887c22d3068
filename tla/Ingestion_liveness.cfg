\* One dataset, three jobs, a worker with two slots: nothing is stranded.
SPECIFICATION WorkerSpec
CONSTANTS
    Datasets = {d1}
    Jobs = {j1, j2, j3}
    Cleaners = {}
    MaxJobs = 2
    MaxTries = 1
    NoDataset = NoDataset
    JobTimeout = 1
    StaleAfter = 1
PROPERTIES
    AnalysingSettles
    RunsClose
    QueuedJobsRun
