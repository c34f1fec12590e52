\* Two client threads with a reader each: every sp_read returns.
CONSTANTS
    Threads = {t1, t2}
    MaxReaders = 2
    MaxBackoff = 60
    NoLine = NoLine
    MaxLines = 1
    MaxSends = 0
    MaxHangups = 0
SPECIFICATION LibSpec
PROPERTIES
    SpReadReturns
    CloseReturns
CHECK_DEADLOCK FALSE
