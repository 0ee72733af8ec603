\* JoinMore's data path with reads that cut the stream anywhere.
CONSTANTS
    Input <- MCInput
    CipherBytes <- MCCipherBytes
    BufSize = 10240
    Garbage = Garbage

SPECIFICATION Spec

INVARIANT RoundTrip

\* Both pipes return at the end of the stream.
CHECK_DEADLOCK FALSE
