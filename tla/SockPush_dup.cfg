\* Two client threads, each with its own reader (SP_MAX_READERS raised to
\* 2): a reader never copies the same line twice (sockpush.c:623 @todo).
CONSTANTS
    Threads = {t1, t2}
    MaxReaders = 2
    MaxBackoff = 60
    NoLine = NoLine
    MaxLines = 2
    MaxSends = 0
    MaxHangups = 0
SYMMETRY ThreadSymmetry
SPECIFICATION LibSpec
INVARIANT LoadsInOrder
CHECK_DEADLOCK FALSE
