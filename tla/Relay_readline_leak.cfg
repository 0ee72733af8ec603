CONSTANTS
    C1 = C1
    C2 = C2

SPECIFICATION Spec

INVARIANT SocketsReleased

\* After Join returns the caller is done: the behaviour ends there.
CHECK_DEADLOCK FALSE
