\* One hangup of the daemon: sp_iothread must connect again.
CONSTANTS
    Threads = {t1}
    MaxReaders = 1
    MaxBackoff = 60
    NoLine = NoLine
    MaxLines = 1
    MaxSends = 0
    MaxHangups = 1
SPECIFICATION LibSpec
PROPERTY Reconnects
CHECK_DEADLOCK FALSE
