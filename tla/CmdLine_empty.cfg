\* Even when the byte after main's buffer is 0, a blank line (echo |
\* ottercat, or an argument ending in a newline) reaches sp_sendcmd as an
\* empty command.
CONSTANTS
    BufSize = 64
    HdrFixed = 19
    ErrFixed = 53
    TypeLens = {0, 10, 44}
    FrameLens = {0, 1, 33, 34, 35}
    ErrRcs <- MCErrRcs
    Garbage <- MCGarbage
    Huge = 1000000
    MaxCmds = 3
    ArgVecs <- MCArgVecs
    StdinData <- MCStdinData
    ReadMax = 5
    HeapTails <- MCNoTail
SPECIFICATION CmdSpec
INVARIANT
    NoEmptyCommand
CHECK_DEADLOCK FALSE
