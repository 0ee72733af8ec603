\* Join(c1, c2) and JoinMore(c1, c2, ...): the caller's choice is in Init.
CONSTANTS
    C1 = C1
    C2 = C2

SPECIFICATION FairSpec

INVARIANT TypeOK
INVARIANT CloseOnce
PROPERTY JoinTerminates

\* After Join returns the caller is done: the behaviour ends there.
CHECK_DEADLOCK FALSE
