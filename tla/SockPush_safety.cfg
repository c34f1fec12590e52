\* One client thread, as in ottercat: the handshake, the fast path race,
\* one hangup of the daemon.  The program stops when sp_iothread waits on
\* a readdone signal nobody will send (run correlator_hang), and once sp_close has
\* freed the handle, so deadlock
\* is not checked here.
CONSTANTS
    Threads = {t1}
    MaxReaders = 1
    MaxBackoff = 60
    NoLine = NoLine
    MaxLines = 3
    MaxSends = 1
    MaxHangups = 1
SPECIFICATION LibSpec
INVARIANTS
    TypeOK
    LoadsInOrder
PROPERTY
    MailboxRefinement
CHECK_DEADLOCK FALSE
