\* main, ottercat_main and dterm_cmdstream over the inputs of MCCmdLine,
\* each line through the protocol_buf arithmetic, scaled to a 64-byte
\* buffer: a 10-byte type leaves dstmax = 35, so frames of 33, 34 and 35
\* bytes fit, fit exactly and are cut; a 44-byte type leaves dstmax = 1.
\* LineInput_overflow keeps the real 1024.  The byte after main's
\* buffer is taken to be 0 (HeapTails); CmdLine_unterminated shows why
\* that is luck.
CONSTANTS
    BufSize = 64
    HdrFixed = 19
    ErrFixed = 53
    TypeLens = {0, 10, 44}
    FrameLens = {0, 1, 33, 34, 35}
    ErrRcs <- MCErrRcs
    Garbage <- MCGarbage
    Huge = 1000000
    MaxCmds = 3
    ArgVecs <- MCArgVecs
    StdinData <- MCStdinData
    ReadMax = 5
    HeapTails <- MCNoTail
SPECIFICATION CmdSpec
INVARIANTS
    CmdTypeOK
    FrameReplyPerSpec
    LinesRun
PROPERTY
    MainReturns
\* The program ends: main returns.
CHECK_DEADLOCK FALSE
