\* One command; the daemon may hang up once.  A re-send (or the first send)
\* after the hangup, before sp_iothread has read end of stream, writes to a
\* socket whose peer is closed.
CONSTANTS
    Threads = {main}
    Main = main
    MaxReaders = 1
    MaxBackoff = 60
    NoLine = NoLine
    NoSid = NoSid
    NoResult = NoResult
    MaxLines = 2
    MaxSends = 3
    MaxHangups = 1
    Cmds = 1
    TickMs = 250
    AckErrs = {0}
SPECIFICATION Spec
INVARIANT SendFailureReported
CHECK_DEADLOCK FALSE
