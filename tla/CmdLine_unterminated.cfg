\* main hands ottercat_main a command string without a NUL of its own:
\* with arguments (every argument is followed by ' ' and the buffer is
\* full) and with a stdin line ending in '\n'.
CONSTANTS
    BufSize = 64
    HdrFixed = 19
    ErrFixed = 53
    TypeLens = {0, 10, 44}
    FrameLens = {0, 1, 33, 34, 35}
    ErrRcs <- MCErrRcs
    Garbage <- MCGarbage
    Huge = 1000000
    MaxCmds = 3
    ArgVecs <- MCArgVecs
    StdinData <- MCStdinData
    ReadMax = 5
    HeapTails <- MCNoTail
SPECIFICATION CmdSpec
INVARIANT
    CmdStrTerminated
CHECK_DEADLOCK FALSE
