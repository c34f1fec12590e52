\* A 3-byte readbuf stands for the 1024 bytes: lines of up to 7 bytes wrap
\* twice, and end exactly at the end, one before and one after it.
CONSTANTS
    N = 3
    Bytes = {a, b}
    NUL = NUL
    Stale = Stale
    MaxLen = 7
SPECIFICATION Spec
INVARIANTS
    TypeOK
    PublishedPerPolicy
\* The loop stops where the daemon stops writing (MaxLen).
CHECK_DEADLOCK FALSE
