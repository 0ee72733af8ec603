\* An http check whose answer never comes.
CONSTANTS
    CheckType = "http"
    MaxFailedTimes = 4

SPECIFICATION FairSpec

PROPERTY StopEndsWorker

\* checkWorker returns for good once ctx is done: the monitor may stop.
CHECK_DEADLOCK FALSE
