\* One command, the only options main can set: 500 ms (2 ticks of 250 ms), one try, global
\* deadline (500*1 + 250)/250 = 3 ticks, the 750 ms of spec 4.5.
\* The daemon may answer with an ack error, an ack without session, an ack
\* with a session and good or bad status, messages, and may hang up once.
\* The program stops at sp_close (cpc = "done"), so deadlock is not
\* checked; the hang of run correlator_hang is a liveness violation.
CONSTANTS
    Threads = {main}
    Main = main
    MaxReaders = 1
    MaxBackoff = 60
    NoLine = NoLine
    NoSid = NoSid
    NoResult = NoResult
    MaxLines = 3
    MaxSends = 3
    MaxHangups = 1
    Cmds = 1
    TickMs = 250
    AckErrs = {0, 7}
SPECIFICATION Spec
INVARIANTS
    CorrTypeOK
    RetryBound
    RetractIsElapsed
PROPERTY
    CancelOutsideLock
CHECK_DEADLOCK FALSE
