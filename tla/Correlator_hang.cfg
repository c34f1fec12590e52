CONSTANTS
    Threads = {main}
    Main = main
    MaxReaders = 1
    MaxBackoff = 60
    NoLine = NoLine
    NoSid = NoSid
    NoResult = NoResult
    MaxLines = 3
    MaxSends = 3
    MaxHangups = 0
    Cmds = 1
    TickMs = 250
    AckErrs = {0, 7}
SPECIFICATION Spec
PROPERTY CommandsComplete
CHECK_DEADLOCK FALSE
