\* A tcp monitor with maxFailedTimes 4 over a backend that goes up and down.
CONSTANTS
    CheckType = "tcp"
    MaxFailedTimes = 4

SPECIFICATION FairSpec

INVARIANT CallbacksBalanced
PROPERTY StopEndsWorker

\* checkWorker returns for good once ctx is done: the monitor may stop.
CHECK_DEADLOCK FALSE
