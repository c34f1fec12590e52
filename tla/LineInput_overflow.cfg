\* A type string of 1005 bytes or more: the header length snprintf returns moves the cursor past protocol_buf.
CONSTANTS
    BufSize = 1024
    HdrFixed = 19
    ErrFixed = 53
    TypeLens = {0, 1004, 1005, 1006}
    FrameLens = {0, 1, 973, 974, 975}
    ErrRcs <- MCErrRcs
    Garbage = {0}
    Huge = 1000000
    MaxCmds = 2
SPECIFICATION Spec
INVARIANT
    WritesInBounds
CHECK_DEADLOCK FALSE
