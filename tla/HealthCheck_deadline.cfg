\* A tcp check cut off by its deadline.
CONSTANTS
    CheckType = "tcp"
    MaxFailedTimes = 4

SPECIFICATION Spec

INVARIANT WorkerStopsOnlyOnStop

\* checkWorker returns for good once ctx is done: the monitor may stop.
CHECK_DEADLOCK FALSE
