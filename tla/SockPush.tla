------------------------------- MODULE SockPush -------------------------------
(***************************************************************************)
(* The socket transport of ottercat (src/main/sockpush.c): the background  *)
(* I/O thread sp_iothread, which connects, reads lines and publishes each  *)
(* one through the two condition-variable handshake (readline / readdone), *)
(* and the calls client threads make on it: sp_reader_create,              *)
(* sp_reader_destroy, sp_reader_purge, sp_read and sp_sendcmd.             *)
(*                                                                         *)
(* Mutexes.  readline_mutex and readdone_mutex are only ever held inside   *)
(* one step of this model (a critical section, or the atomic release of a  *)
(* pthread_cond_wait), so they are not variables.  user_mutex is held by   *)
(* sp_iothread across several steps (from the publication of a line to the *)
(* end of its readdone wait): UserLocked says when.  A client call that    *)
(* takes user_mutex with pthread_mutex_lock is one step guarded by         *)
(* ~UserLocked; sp_read takes it with pthread_mutex_trylock and does not   *)
(* wait.                                                                   *)
(*                                                                         *)
(* Data.  A line is a model value or a record the caller chooses; the      *)
(* bytes, their length and the 1024-byte wraparound are abstracted: a      *)
(* complete line has read_size > 0.  hist is a ghost: hist[k-1] is the     *)
(* line published with read_id = k.                                        *)
(***************************************************************************)
EXTENDS Naturals, Sequences, SequencesExt

CONSTANTS
    Threads,      \* client threads calling the sp_* API
    MaxReaders,   \* SP_MAX_READERS
    MaxBackoff,   \* max_backoff in sp_iothread (60 s)
    NoLine,       \* "nothing copied": sp_read returned 0
    MaxLines,     \* bound: lines the daemon writes
    MaxSends,     \* bound: commands the callers write
    MaxHangups    \* bound: times the daemon closes the connection

VARIABLES
    \* sp_iothread and the connection
    io_pc,        \* where sp_iothread is
    fd,           \* fd_sock: "unconnected" socket, "connected", or "closed"
    backoff,      \* the reconnect sleep of sp_iothread
    rx,           \* the line sp_iothread has assembled in its local readbuf
    inbox,        \* bytes the daemon has written and sp_iothread not read
    hup,          \* the daemon has closed its end of the connection
    cancel_req,   \* sp_close has called pthread_cancel on sp_iothread
    \* sp_item_t
    read_id, read_size, read_buf,
    readline_inactive, readdone_inactive, waiting_readers, readers,
    \* per client thread
    pc,           \* where the thread is in an sp_* call
    has_reader,   \* the thread holds an sprdr_t of this connection
    last_read,    \* sprdr_t.last_read
    wait_test,    \* result of pthread_cond_timedwait in sp_read
    got,          \* [id, line] copied by the last sp_read, or NoLine
    send_rc,      \* "ok", "zero", "err" or "sigpipe": the last write call's rc
    wsize,        \* writesize of the thread's write call: 0 or 1 (not empty)
    cmds_sent,    \* write calls made (bounds the model)
    \* ghosts
    hangups,      \* times the daemon has closed the connection
    hist,         \* every line published, by read_id - 1
    base,         \* read_id when the reader was created or purged
    seen          \* read_ids copied by the reader since base

io_vars   == <<io_pc, fd, backoff, rx, inbox, hup, cancel_req>>
\* The shared fields of sp_item_t (sockpush.c 66-110) the threads use.
item_vars == <<read_id, read_size, read_buf, readline_inactive,
               readdone_inactive, waiting_readers, readers>>
thr_vars  == <<pc, has_reader, last_read, wait_test, got, send_rc, wsize, cmds_sent>>
ghost     == <<hangups, hist, base, seen>>
sp_vars   == <<io_vars, item_vars, thr_vars, ghost>>

\* sp_iothread holds user_mutex from line 606 to line 644.  Cancelled in
\* its readdone wait it ends holding it ("exited_held") until sp_close
\* unlocks it (line 313).
UserHeldStates == {"copy", "fanout", "rd_lock", "rd_wait", "rd_wake"}
UserLocked == io_pc \in UserHeldStates \cup {"exited_held"}
Exited == {"exited", "exited_held"}

\* Entry labels of the API calls; a call returns to "ret_" \o its name.
Entries == {"create", "destroy", "purge", "read", "send", "write", "close"}
Returns == {"ret_create", "ret_destroy", "ret_purge", "ret_read", "ret_send",
            "ret_write", "ret_close"}

\* The cancellation points sp_iothread reaches with cancelling deferred
\* (line 566): connect() and sleep(), read(), pthread_cond_wait().
CancelPoints == {"connect", "read", "rd_wait"}

-----------------------------------------------------------------------------
(* sp_open: the state when sp_open has returned and sp_iothread has been   *)
(* created but has not run.  calloc zeroes read_id and the flags.          *)
SpInit ==
    /\ io_pc = "init"
    /\ fd = "unconnected"
    /\ backoff = 1
    /\ rx = NoLine
    /\ inbox = <<>>
    /\ hup = FALSE
    /\ cancel_req = FALSE
    /\ read_id = 0
    /\ read_size = 0
    /\ read_buf = NoLine
    /\ readline_inactive = FALSE
    /\ readdone_inactive = FALSE
    /\ waiting_readers = 0
    /\ readers = 0
    /\ pc = [t \in Threads |-> "idle"]
    /\ has_reader = [t \in Threads |-> FALSE]
    /\ last_read = [t \in Threads |-> 0]
    /\ wait_test = [t \in Threads |-> "ok"]
    /\ got = [t \in Threads |-> NoLine]
    /\ send_rc = [t \in Threads |-> "ok"]
    /\ wsize = [t \in Threads |-> 1]
    /\ cmds_sent = 0
    /\ hangups = 0
    /\ hist = <<>>
    /\ base = [t \in Threads |-> 0]
    /\ seen = [t \in Threads |-> <<>>]

-----------------------------------------------------------------------------
(***************************** sp_iothread *********************************)

\* Lines 568-572: set up the references sp_read uses.
IoInit ==
    /\ io_pc = "init"
    /\ io_pc' = "connect"
    /\ readline_inactive' = TRUE
    /\ read_size' = 0
    /\ read_id' = 1
    /\ UNCHANGED <<fd, backoff, rx, cancel_req, inbox, hup, read_buf, readdone_inactive,
                   waiting_readers, readers, thr_vars, ghost>>

\* Lines 576, 584: connect() succeeds only on the socket sp_open created.
IoConnectOk ==
    /\ io_pc = "connect"
    /\ ~cancel_req
    /\ fd = "unconnected"
    /\ fd' = "connected"
    /\ backoff' = 1
    /\ io_pc' = "read"
    /\ UNCHANGED <<rx, cancel_req, inbox, hup, item_vars, thr_vars, ghost>>

\* Bug variant: the backoff doubles without the max_backoff test.
IoConnectFailUncapped ==
    /\ io_pc = "connect"
    /\ ~cancel_req
    /\ backoff' = backoff * 2
    /\ UNCHANGED <<io_pc, fd, rx, cancel_req, inbox, hup, item_vars, thr_vars, ghost>>

\* Lines 576-581: connect() fails (daemon not listening, or fd closed):
\* sleep(backoff), then double it while it is below max_backoff.
IoConnectFail ==
    /\ io_pc = "connect"
    /\ ~cancel_req
    /\ backoff' = IF backoff < MaxBackoff THEN backoff * 2 ELSE backoff
    /\ UNCHANGED <<io_pc, fd, rx, cancel_req, inbox, hup, item_vars, thr_vars, ghost>>

\* Lines 590-609 up to the memcpy: read bytes up to a terminator, lock
\* user_mutex, bump read_id and set read_size.
IoReadLine ==
    /\ io_pc = "read"
    /\ ~cancel_req
    /\ inbox # <<>>
    /\ rx' = Head(inbox)
    /\ inbox' = Tail(inbox)
    /\ read_id' = read_id + 1
    /\ read_size' = 1
    /\ hist' = Append(hist, Head(inbox))
    /\ io_pc' = "copy"
    /\ UNCHANGED <<fd, backoff, hup, cancel_req, read_buf, readline_inactive,
                   readdone_inactive, waiting_readers, readers, thr_vars,
                   hangups, base, seen>>

\* Lines 593-594, 647-648: read() fails at end of stream: close fd_sock
\* and go back to connect() on the same, now closed, descriptor.
IoReadFail ==
    /\ io_pc = "read"
    /\ ~cancel_req
    /\ inbox = <<>>
    /\ hup
    /\ fd' = "closed"
    /\ hup' = FALSE
    /\ io_pc' = "connect"
    /\ UNCHANGED <<backoff, rx, cancel_req, inbox, item_vars, thr_vars, ghost>>

\* Line 609: memcpy of the line into the shared read_buf.
IoCopy ==
    /\ io_pc = "copy"
    /\ read_buf' = rx
    /\ io_pc' = "fanout"
    /\ UNCHANGED <<fd, backoff, rx, cancel_req, inbox, hup, read_id, read_size,
                   readline_inactive, readdone_inactive, waiting_readers,
                   readers, thr_vars, ghost>>

\* Lines 614-632 (sp->subs is always 0: sp_subscribe is a stub).  With no
\* reader, or no waiting reader, unlock user_mutex; otherwise clear
\* readline_inactive and broadcast readline_cond under readline_mutex.
IoFanout ==
    /\ io_pc = "fanout"
    /\ IF readers > 0 /\ waiting_readers > 0
         THEN /\ readline_inactive' = FALSE
              /\ pc' = [t \in Threads |->
                          IF pc[t] = "rl_wait" THEN "rl_wake" ELSE pc[t]]
              /\ wait_test' = [t \in Threads |->
                          IF pc[t] = "rl_wait" THEN "ok" ELSE wait_test[t]]
              /\ io_pc' = "rd_lock"
         ELSE /\ io_pc' = "read"
              /\ UNCHANGED <<readline_inactive, pc, wait_test>>
    /\ UNCHANGED <<fd, backoff, rx, cancel_req, inbox, hup, read_id, read_size, read_buf,
                   readdone_inactive, waiting_readers, readers, has_reader,
                   last_read, got, send_rc, wsize, cmds_sent, ghost>>

\* Lines 634-637: lock readdone_mutex, set readdone_inactive and wait.
IoReadDoneWait ==
    /\ io_pc = "rd_lock"
    /\ readdone_inactive' = TRUE
    /\ io_pc' = "rd_wait"
    /\ UNCHANGED <<fd, backoff, rx, cancel_req, inbox, hup, read_id, read_size, read_buf,
                   readline_inactive, waiting_readers, readers, thr_vars,
                   ghost>>

\* Lines 636-644: woken by readdone_cond, re-take readdone_mutex and test
\* the flag again; leave the loop, unlock both mutexes.
IoReadDoneWake ==
    /\ io_pc = "rd_wake"
    /\ io_pc' = IF readdone_inactive THEN "rd_wait" ELSE "read"
    /\ UNCHANGED <<fd, backoff, rx, cancel_req, inbox, hup, item_vars, thr_vars, ghost>>

\* A pending pthread_cancel acts when sp_iothread is at a cancellation
\* point; no cleanup handler is installed, so whatever it holds stays held.
IoCancelled ==
    /\ cancel_req
    /\ io_pc \in CancelPoints
    /\ io_pc' = IF io_pc \in UserHeldStates THEN "exited_held" ELSE "exited"
    /\ UNCHANGED <<fd, backoff, rx, cancel_req, inbox, hup, item_vars,
                   thr_vars, ghost>>

-----------------------------------------------------------------------------
(******************************* client calls ******************************)

\* sp_reader_create lines 339-340: the capacity test, outside user_mutex.
SpReaderCreate(t) ==
    /\ pc[t] = "create"
    /\ pc' = [pc EXCEPT ![t] = IF readers < MaxReaders
                                 THEN "create_lock" ELSE "ret_create"]
    /\ UNCHANGED <<io_vars, item_vars, has_reader, last_read, wait_test, got,
                   send_rc, wsize, cmds_sent, ghost>>

\* sp_reader_create lines 341-352: under user_mutex, start at read_id.
SpReaderCreateLocked(t) ==
    /\ pc[t] = "create_lock"
    /\ ~UserLocked
    /\ has_reader' = [has_reader EXCEPT ![t] = TRUE]
    /\ last_read' = [last_read EXCEPT ![t] = read_id]
    /\ readers' = readers + 1
    /\ base' = [base EXCEPT ![t] = read_id]
    /\ seen' = [seen EXCEPT ![t] = <<>>]
    /\ pc' = [pc EXCEPT ![t] = "ret_create"]
    /\ UNCHANGED <<io_vars, read_id, read_size, read_buf, readline_inactive,
                   readdone_inactive, waiting_readers, wait_test, got,
                   send_rc, wsize, cmds_sent, hangups, hist>>

\* Bug variant: the reader count is decremented without user_mutex.
SpReaderDestroyNoLock(t) ==
    /\ pc[t] = "destroy"
    /\ readers' = readers - 1
    /\ has_reader' = [has_reader EXCEPT ![t] = FALSE]
    /\ pc' = [pc EXCEPT ![t] = "ret_destroy"]
    /\ UNCHANGED <<io_vars, read_id, read_size, read_buf, readline_inactive,
                   readdone_inactive, waiting_readers, last_read, wait_test,
                   got, send_rc, wsize, cmds_sent, ghost>>

\* sp_reader_destroy lines 363-369.
SpReaderDestroy(t) ==
    /\ pc[t] = "destroy"
    /\ ~UserLocked
    /\ readers' = readers - 1
    /\ has_reader' = [has_reader EXCEPT ![t] = FALSE]
    /\ pc' = [pc EXCEPT ![t] = "ret_destroy"]
    /\ UNCHANGED <<io_vars, read_id, read_size, read_buf, readline_inactive,
                   readdone_inactive, waiting_readers, last_read, wait_test,
                   got, send_rc, wsize, cmds_sent, ghost>>

\* sp_reader_purge lines 376-381.
SpReaderPurge(t) ==
    /\ pc[t] = "purge"
    /\ ~UserLocked
    /\ last_read' = [last_read EXCEPT ![t] = read_id]
    /\ base' = [base EXCEPT ![t] = read_id]
    /\ seen' = [seen EXCEPT ![t] = <<>>]
    /\ pc' = [pc EXCEPT ![t] = "ret_purge"]
    /\ UNCHANGED <<io_vars, item_vars, has_reader, wait_test, got, send_rc, wsize,
                   cmds_sent, hangups, hist>>

\* The daemon has closed its end of the connected socket: a write() raises
\* SIGPIPE, which nothing in the program ignores, and the process dies.
PeerClosed == fd = "connected" /\ hup

\* sub_write lines 487-515: under user_mutex, write the buffer and, when
\* asked, a newline; write() fails (-2) unless the socket is connected,
\* and kills the process if the daemon has hung up.  The newline only
\* changes the rc on success, which callers test for < 0.
SubWrite(t, ret) ==
    /\ ~UserLocked
    /\ send_rc' = [send_rc EXCEPT ![t] = CASE PeerClosed         -> "sigpipe"
                                            [] fd = "connected" -> "ok"
                                            [] OTHER            -> "err"]
    /\ pc' = [pc EXCEPT ![t] = IF PeerClosed THEN "killed" ELSE ret]

\* sp_write and sp_sendcmd lines 518-537: an empty buffer returns 0 and
\* writes nothing; sp_sendcmd terminates a command without a newline.
WriteCall(t, e) ==
    /\ pc[t] = e
    /\ \/ /\ wsize[t] = 0
          /\ send_rc' = [send_rc EXCEPT ![t] = "zero"]
          /\ pc' = [pc EXCEPT ![t] = "ret_" \o e]
       \/ wsize[t] = 1 /\ SubWrite(t, "ret_" \o e)
    /\ UNCHANGED <<io_vars, item_vars, has_reader, last_read, wait_test, got,
                   wsize, cmds_sent, ghost>>

SpSendCmd(t) == WriteCall(t, "send")

SpWrite(t) == WriteCall(t, "write")

\* Bug variant: sub_loadread copies without recording last_read.
LoadReadNoMark(t) ==
    /\ last_read' = last_read
    /\ got' = [got EXCEPT ![t] = IF read_size > 0
                                   THEN [id |-> read_id, line |-> read_buf]
                                   ELSE NoLine]
    /\ seen' = [seen EXCEPT ![t] = IF read_size > 0
                                     THEN Append(@, read_id) ELSE @]

\* sub_loadread lines 388-397, as the updates to last_read, got and seen.
LoadRead(t) ==
    /\ last_read' = [last_read EXCEPT ![t] = read_id]
    /\ got' = [got EXCEPT ![t] = IF read_size > 0
                                   THEN [id |-> read_id, line |-> read_buf]
                                   ELSE NoLine]
    /\ seen' = [seen EXCEPT ![t] = IF read_size > 0
                                     THEN Append(@, read_id) ELSE @]

\* Bug variant: the fast path copies without comparing last_read.
SpReadTryNoIdCheck(t) ==
    /\ pc[t] = "read"
    /\ IF ~UserLocked
         THEN /\ LoadRead(t)
              /\ pc' = [pc EXCEPT ![t] = IF read_size > 0
                                           THEN "ret_read" ELSE "rl_enter"]
         ELSE /\ got' = [got EXCEPT ![t] = NoLine]
              /\ pc' = [pc EXCEPT ![t] = "rl_enter"]
              /\ UNCHANGED <<last_read, seen>>
    /\ UNCHANGED <<io_vars, item_vars, has_reader, wait_test, send_rc, wsize,
                   cmds_sent, hangups, hist, base>>

\* sp_read lines 407-440: the fast path.  pthread_mutex_trylock succeeds
\* only if sp_iothread is not holding user_mutex; a new read_id is copied.
SpReadTry(t) ==
    /\ pc[t] = "read"
    /\ IF ~UserLocked /\ last_read[t] # read_id
         THEN /\ LoadRead(t)
              /\ pc' = [pc EXCEPT ![t] = IF read_size > 0
                                           THEN "ret_read" ELSE "rl_enter"]
         ELSE /\ got' = [got EXCEPT ![t] = NoLine]
              /\ pc' = [pc EXCEPT ![t] = "rl_enter"]
              /\ UNCHANGED <<last_read, seen>>
    /\ UNCHANGED <<io_vars, item_vars, has_reader, wait_test, send_rc, wsize,
                   cmds_sent, hangups, hist, base>>

\* sp_read lines 454-459: under readline_mutex count this reader as
\* waiting, set readline_inactive and enter pthread_cond_timedwait.
SpReadWait(t) ==
    /\ pc[t] = "rl_enter"
    /\ waiting_readers' = waiting_readers + 1
    /\ readline_inactive' = TRUE
    /\ wait_test' = [wait_test EXCEPT ![t] = "ok"]
    /\ pc' = [pc EXCEPT ![t] = "rl_wait"]
    /\ UNCHANGED <<io_vars, read_id, read_size, read_buf, readdone_inactive,
                   readers, has_reader, last_read, got, send_rc, wsize, cmds_sent,
                   ghost>>

\* pthread_cond_timedwait at line 459 returns ETIMEDOUT.
SpReadTimeout(t) ==
    /\ pc[t] = "rl_wait"
    /\ wait_test' = [wait_test EXCEPT ![t] = "timedout"]
    /\ pc' = [pc EXCEPT ![t] = "rl_wake"]
    /\ UNCHANGED <<io_vars, item_vars, has_reader, last_read, got, send_rc, wsize,
                   cmds_sent, ghost>>

\* Bug variant: the wait loop tests only readline_inactive, not the
\* result of pthread_cond_timedwait.
SpReadWakeIgnoreTimeout(t) ==
    /\ pc[t] = "rl_wake"
    /\ IF readline_inactive
         THEN /\ pc' = [pc EXCEPT ![t] = "rl_wait"]
              /\ UNCHANGED <<waiting_readers, last_read, got, seen>>
         ELSE /\ IF wait_test[t] = "ok"
                   THEN LoadRead(t)
                   ELSE UNCHANGED <<last_read, got, seen>>
              /\ waiting_readers' = waiting_readers - (IF waiting_readers # 0 THEN 1 ELSE 0)
              /\ pc' = [pc EXCEPT ![t] = IF waiting_readers' = 0
                                           THEN "rd_signal" ELSE "ret_read"]
    /\ UNCHANGED <<io_vars, read_id, read_size, read_buf, readline_inactive,
                   readdone_inactive, readers, has_reader, wait_test, send_rc, wsize,
                   cmds_sent, hangups, hist, base>>

\* sp_read lines 458-466: with readline_mutex re-taken, test the loop
\* condition; leaving it, copy the line unless the wait timed out and
\* decrement waiting_readers (saturating at 0).
SpReadWake(t) ==
    /\ pc[t] = "rl_wake"
    /\ IF readline_inactive /\ wait_test[t] = "ok"
         THEN /\ pc' = [pc EXCEPT ![t] = "rl_wait"]
              /\ UNCHANGED <<waiting_readers, last_read, got, seen>>
         ELSE /\ IF wait_test[t] = "ok"
                   THEN LoadRead(t)
                   ELSE UNCHANGED <<last_read, got, seen>>
              /\ waiting_readers' = waiting_readers - (IF waiting_readers # 0 THEN 1 ELSE 0)
              /\ pc' = [pc EXCEPT ![t] = IF waiting_readers' = 0
                                           THEN "rd_signal" ELSE "ret_read"]
    /\ UNCHANGED <<io_vars, read_id, read_size, read_buf, readline_inactive,
                   readdone_inactive, readers, has_reader, wait_test, send_rc, wsize,
                   cmds_sent, hangups, hist, base>>

\* sp_read lines 468-473: the last waiting reader clears readdone_inactive
\* and signals readdone_cond, which wakes sp_iothread if it is waiting.
SpReadSignal(t) ==
    /\ pc[t] = "rd_signal"
    /\ readdone_inactive' = FALSE
    /\ io_pc' = IF io_pc = "rd_wait" THEN "rd_wake" ELSE io_pc
    /\ pc' = [pc EXCEPT ![t] = "ret_read"]
    /\ UNCHANGED <<fd, backoff, rx, cancel_req, inbox, hup, read_id, read_size, read_buf,
                   readline_inactive, waiting_readers, readers, has_reader,
                   last_read, wait_test, got, send_rc, wsize, cmds_sent, ghost>>

\* Bug variant: sp_close joins without cancelling sp_iothread.
SpCloseNoCancel(t) ==
    /\ pc[t] = "close"
    /\ pc' = [pc EXCEPT ![t] = "close_join"]
    /\ UNCHANGED <<io_vars, item_vars, has_reader, last_read, wait_test, got,
                   send_rc, wsize, cmds_sent, ghost>>

\* sp_close lines 289-295: pthread_cancel(sp->iothread).
SpClose(t) ==
    /\ pc[t] = "close"
    /\ cancel_req' = TRUE
    /\ pc' = [pc EXCEPT ![t] = "close_join"]
    /\ UNCHANGED <<io_pc, fd, backoff, rx, inbox, hup, item_vars, has_reader,
                   last_read, wait_test, got, send_rc, wsize, cmds_sent, ghost>>

\* sp_close lines 297-318: pthread_join returns once sp_iothread has been
\* cancelled; the mutexes are unlocked and destroyed, fd_sock is closed
\* and the item freed.
SpCloseJoin(t) ==
    /\ pc[t] = "close_join"
    /\ io_pc \in Exited
    /\ io_pc' = "exited"
    /\ fd' = "released"
    /\ pc' = [pc EXCEPT ![t] = "ret_close"]
    /\ UNCHANGED <<backoff, rx, cancel_req, inbox, hup, item_vars,
                   has_reader, last_read, wait_test, got, send_rc, wsize, cmds_sent,
                   ghost>>

-----------------------------------------------------------------------------
(* Every step of sp_iothread and of an sp_* call in progress.              *)
IoNext ==
    \/ IoInit \/ IoConnectOk \/ IoConnectFail \/ IoReadLine \/ IoReadFail
    \/ IoCopy \/ IoFanout \/ IoReadDoneWait \/ IoReadDoneWake \/ IoCancelled

CallNext(t) ==
    \/ SpReaderCreate(t) \/ SpReaderCreateLocked(t) \/ SpReaderDestroy(t)
    \/ SpReaderPurge(t) \/ SpSendCmd(t) \/ SpWrite(t) \/ SpReadTry(t) \/ SpReadWait(t)
    \/ SpReadTimeout(t) \/ SpReadWake(t) \/ SpReadSignal(t)
    \/ SpClose(t) \/ SpCloseJoin(t)

\* The daemon writes a line into the socket, or closes its end.
DaemonEmit(l) ==
    /\ fd = "connected"
    /\ ~hup
    /\ inbox' = Append(inbox, l)
    /\ UNCHANGED <<io_pc, fd, backoff, rx, cancel_req, hup, item_vars, thr_vars, ghost>>

DaemonHangup ==
    /\ fd = "connected"
    /\ ~hup
    /\ hangups < MaxHangups
    /\ hup' = TRUE
    /\ hangups' = hangups + 1
    /\ UNCHANGED <<io_pc, fd, backoff, rx, cancel_req, inbox, item_vars, thr_vars, hist,
                   base, seen>>

\* Fairness the code justifies: sp_iothread and the client threads are
\* scheduled; a timed wait eventually expires.  The daemon is not fair.
SpFairness ==
    /\ WF_sp_vars(IoNext)
    /\ WF_sp_vars(IoConnectOk)
    /\ \A t \in Threads : WF_sp_vars(CallNext(t))

-----------------------------------------------------------------------------
(***************************************************************************)
(* The library on its own: every client thread makes any sequence of the   *)
(* calls the API allows it (a thread holds at most one reader, reads only  *)
(* with one, closes the handle at most once and nothing after it is freed),*)
(* and the daemon writes up to MaxLines distinct lines.         *)
(***************************************************************************)
Call(t) ==
    /\ pc[t] = "idle"
    /\ fd # "released"
    /\ \E e \in Entries :
         /\ e = "create"  => ~has_reader[t]
         /\ e \in {"destroy", "purge", "read"} => has_reader[t]
         /\ e \in {"send", "write"} => cmds_sent < MaxSends
         /\ e = "close"   => ~cancel_req
         /\ pc' = [pc EXCEPT ![t] = e]
         /\ IF e \in {"send", "write"}
              THEN /\ wsize' \in {[wsize EXCEPT ![t] = sz] : sz \in {0, 1}}
                   /\ cmds_sent' = cmds_sent + 1
              ELSE UNCHANGED <<wsize, cmds_sent>>
    /\ UNCHANGED <<io_vars, item_vars, has_reader, last_read, wait_test, got,
                   send_rc, ghost>>

Return(t) ==
    /\ pc[t] \in Returns
    /\ pc' = [pc EXCEPT ![t] = "idle"]
    /\ UNCHANGED <<io_vars, item_vars, has_reader, last_read, wait_test, got,
                   send_rc, wsize, cmds_sent, ghost>>

\* The n-th line the daemon writes is the value n.
LibDaemonNext ==
    \/ /\ Len(hist) + Len(inbox) < MaxLines
       /\ DaemonEmit(Len(hist) + Len(inbox) + 1)
    \/ DaemonHangup

\* SIGPIPE has terminated the process: no thread takes another step.
Killed == \E t \in Threads : pc[t] = "killed"

LibNext ==
    /\ ~Killed
    /\ \/ IoNext
       \/ \E t \in Threads : CallNext(t) \/ Call(t) \/ Return(t)
       \/ LibDaemonNext

LibSpec == SpInit /\ [][LibNext]_sp_vars /\ SpFairness

-----------------------------------------------------------------------------
TypeOK ==
    /\ io_pc \in {"init", "connect", "read"} \cup Exited \cup UserHeldStates
    /\ fd \in {"unconnected", "connected", "closed", "released"}
    /\ cancel_req \in BOOLEAN
    /\ backoff \in 1..(2 * MaxBackoff)
    /\ hup \in BOOLEAN
    /\ read_id \in Nat /\ read_size \in {0, 1}
    /\ readline_inactive \in BOOLEAN /\ readdone_inactive \in BOOLEAN
    /\ waiting_readers \in Nat /\ readers \in Nat
    /\ pc \in [Threads -> {"idle", "create_lock", "rl_enter", "rl_wait",
                           "rl_wake", "rd_signal", "close_join", "killed"} \cup Entries \cup Returns]
    /\ has_reader \in [Threads -> BOOLEAN]
    /\ last_read \in [Threads -> Nat]
    /\ wait_test \in [Threads -> {"ok", "timedout"}]
    /\ send_rc \in [Threads -> {"ok", "zero", "err", "sigpipe"}]
    /\ wsize \in [Threads -> {0, 1}]
    /\ seen \in [Threads -> Seq(Nat)]

\* Each reader observes lines at most once and in increasing read_id order,
\* and never a line published before it was created or purged (spec 5).
LoadsInOrder ==
    \A t \in Threads :
        /\ IsSorted(seen[t], <)
        /\ \A i \in 1..Len(seen[t]) : seen[t][i] > base[t]

\* Automatic reconnect (spec 4.2, 8): whenever sp_iothread is back in its
\* connect phase and sp_close has not cancelled it, it is eventually reading
\* again or cancelled by sp_close; a hangup must not leave it retrying
\* connect forever.
Reconnects == (io_pc = "connect" /\ ~cancel_req) ~> (io_pc = "read" \/ cancel_req)

\* Every sp_read call returns: a reader in the readline wait is released by
\* a broadcast or by its own timeout, whatever other readers do.
SpReadReturns ==
    \A t \in Threads : (pc[t] = "read") ~> (pc[t] = "ret_read")

\* Spec 5: sp_close stops sp_iothread at a safe checkpoint, never while it
\* holds user_mutex (the lock sp_close then unlocks from another thread).
CancelOutsideLock == [][io_pc' # "exited_held"]_sp_vars

\* sp_close returns: pthread_join completes because the cancelled thread
\* reaches a cancellation point, whatever it was doing.
CloseReturns == \A t \in Threads : (pc[t] = "close") ~> (pc[t] = "ret_close")

\* Spec 4.4: a send that fails is reported as an error code (sub_write
\* returns -2, sub_devmgr_socket -6) and the program goes on; a daemon that
\* closes the connection never takes the client process down with it.
SendFailureReported == \A t \in Threads : pc[t] # "killed"
=============================================================================
