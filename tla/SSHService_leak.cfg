CONSTANTS
    c1 = c1
    c2 = c2
    f1 = f1
    f2 = f2
    NoFwd = NoFwd
    NoChan = NoChan
    Chan <- MCChan1
    Fwd <- MCFwd

SPECIFICATION FairSpec

PROPERTY SessionEndsAfterDisconnect

\* The service stops for good when it panics or when all its goroutines wait
\* on a client that has gone quiet.
CHECK_DEADLOCK FALSE
