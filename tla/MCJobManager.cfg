\* Two jobs on one thread, one request id that may be repeated, two crashes and a
\* disk fault, under fair scheduling.
CONSTANTS
    Jobs = {j1, j2}
    Requests = {r1}
    NoRequest = NoRequest
    MaxWorkers = 1
    MaxProgress = 2
    MaxCrashes = 2
    MaxSaveFaults = 1
SPECIFICATION FairSpec
INVARIANTS TypeOK ActiveHasWorker RestartSettles RequestBoundOnce LogTellsStatus CancelBoundary SalvageReported
PROPERTIES FinishedIsFinal JobSettles ImplementsLifecycle
CHECK_DEADLOCK FALSE
