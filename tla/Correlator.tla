------------------------------ MODULE Correlator ------------------------------
(***************************************************************************)
(* The command correlator of ottercat (src/main/cmd_devmgr.c,              *)
(* sub_devmgr_socket) run by dterm_cmdstream (src/main/dterm.c) on the     *)
(* main thread, over the socket transport of SockPush, against a daemon    *)
(* that acknowledges the commands it receives and later reports their     *)
(* status.                                                                 *)
(*                                                                         *)
(* A daemon line is a record: type "ack" (err, sid), "rxstat" (sid, qual,  *)
(* frame) or "msg"; seq makes every line distinct and cmd (a ghost) is the *)
(* dterm command the daemon is answering.  cJSON parsing is abstracted to  *)
(* reading these fields.  Time is counted in ticks of TickMs: an sp_read   *)
(* that times out takes ReadTimeout, one that returns a line takes any     *)
(* time up to it.                                                          *)
(***************************************************************************)
EXTENDS SockPush, CliOpt, Integers

CONSTANTS
    Main,          \* the thread running dterm_cmdstream
    Cmds,          \* command lines in the command string
    TickMs,        \* milliseconds in one unit of model time
    AckErrs,       \* "err" values the daemon may put in an ack
    NoSid,         \* cmd_sid = -1 before an ack is taken
    NoResult       \* a command that has not returned

VARIABLES
    cpc,           \* where dterm_cmdstream / sub_devmgr_socket is
    cur,           \* the command being run (1..Cmds)
    cstate,        \* state: 0 wait for ack, 1 wait for rxstat, 2 matched
    cmd_sid,       \* sid of the ack taken
    crc,           \* rc of sub_devmgr_socket
    elapsed,       \* time since ref (clock_gettime at step 2)
    global_timeout,
    outcome,       \* outcome[i]: rc returned for command i, or NoResult
    \* the daemon
    answered,      \* commands the daemon has acknowledged
    open_sids,     \* sids acknowledged and not yet reported by an rxstat
    \* ghosts
    sub_cmd        \* sub_cmd[k]: the command the k-th write to the socket was

corr_vars   == <<cpc, cur, cstate, cmd_sid, crc, elapsed, global_timeout,
                 outcome, sub_cmd>>
daemon_vars == <<answered, open_sids>>
vars        == <<sp_vars, corr_vars, daemon_vars>>

\* The option store as main leaves it (no -v, no -d).  -t and -r cannot be
\* given: argtable[] (main.c 273) omits timeout and retries, so arg_parse
\* never fills them, their count stays 0 and main keeps 500 ms, one try.
cliopts == MainOptions(FALSE, FALSE, {}, {})

\* cmd_devmgr.c 209-210: int read_timeout = cliopt_gettimeout() and
\* global_timeout = read_timeout * cliopt_gettries() + (read_timeout/2),
\* in ticks.
ReadTimeout == cliopts.timeout_ms \div TickMs

GlobalDeadline ==
    (cliopts.timeout_ms * cliopts.tries + cliopts.timeout_ms \div 2) \div TickMs

\* C's / on ints truncates toward zero.
CDiv(a, b) == IF a >= 0 THEN a \div b ELSE -((-a) \div b)

\* Bug variant: the nanoseconds do not borrow from the seconds.
DiffTimespecNoBorrow(start, end) ==
    [sec |-> end.sec - start.sec, nsec |-> end.nsec - start.nsec]

\* cmd_devmgr.c 111-124: end - start of two struct timespec.
DiffTimespec(start, end) ==
    IF end.nsec < start.nsec
      THEN [sec |-> end.sec - 1 - start.sec,
            nsec |-> 1000000000 + end.nsec - start.nsec]
      ELSE [sec |-> end.sec - start.sec, nsec |-> end.nsec - start.nsec]

\* cmd_devmgr.c 333-334: the milliseconds retracted from global_timeout
\* between the reference and a later reading (AfterMiss counts them in
\* ticks as elapsed).
RetractMs(ref, test) ==
    LET d == DiffTimespec(ref, test) IN d.sec * 1000 + CDiv(d.nsec, 1000000)

Line(type, err, sid, qual, frame, cmd) ==
    [seq |-> Len(hist) + Len(inbox) + 1, type |-> type, err |-> err,
     sid |-> sid, qual |-> qual, frame |-> frame, cmd |-> cmd]

\* rc values of sub_devmgr_socket
RcCapacity == -3
RcSend     == -6
RcRetry    == -4
RcIgnored  == -1
\* Bug variant: the sign of the daemon's code is lost.
ProtoRcSigned(err) == -256 + (IF err < 0 THEN -err ELSE err)
ProtoRc(err) == -256 - (IF err < 0 THEN -err ELSE err)

-----------------------------------------------------------------------------
Init ==
    /\ SpInit
    /\ cpc = "next"
    /\ cur = 0
    /\ cstate = 0
    /\ cmd_sid = NoSid
    /\ crc = 0
    /\ elapsed = 0
    /\ global_timeout = GlobalDeadline
    /\ outcome = [i \in 1..Cmds |-> NoResult]
    /\ answered = 0
    /\ open_sids = {}
    /\ sub_cmd = <<>>

\* The caller's half of an sp_* call: enter it.
Invoke(e) == pc' = [pc EXCEPT ![Main] = e]

\* dterm_cmdstream lines 288-319: run the next command line, unless the
\* previous one returned an error or there is none left.
DtermNext ==
    /\ cpc = "next"
    /\ IF cur < Cmds /\ (cur = 0 \/ outcome[cur] >= 0)
         THEN /\ cur' = cur + 1
              /\ Invoke("create")
              /\ cpc' = "create"
         ELSE /\ cpc' = "done"
              /\ UNCHANGED <<cur, pc>>
    /\ UNCHANGED <<io_vars, item_vars, has_reader, last_read, wait_test, got,
                   send_rc, wsize, cmds_sent, ghost, cstate, cmd_sid, crc, elapsed,
                   global_timeout, outcome, sub_cmd, daemon_vars>>

\* sub_devmgr_socket lines 213-235: with a reader, take the clock
\* reference and send; without one return -3 (no destroy).
CreateDone ==
    /\ cpc = "create"
    /\ pc[Main] = "ret_create"
    /\ IF has_reader[Main]
         THEN /\ Invoke("send")
              /\ cpc' = "send"
              /\ elapsed' = 0
              /\ global_timeout' = GlobalDeadline
              /\ UNCHANGED outcome
         ELSE /\ pc' = [pc EXCEPT ![Main] = "idle"]
              /\ cpc' = "next"
              /\ outcome' = [outcome EXCEPT ![cur] = RcCapacity]
              /\ UNCHANGED <<elapsed, global_timeout>>
    /\ UNCHANGED <<io_vars, item_vars, has_reader, last_read, wait_test, got,
                   send_rc, wsize, cmds_sent, ghost, cur, cstate, cmd_sid, crc,
                   sub_cmd, daemon_vars>>

\* Lines 231-240: a failed sp_sendcmd ends the exchange with -6;
\* otherwise wait for the ack.
SendDone ==
    /\ cpc = "send"
    /\ pc[Main] = "ret_send"
    /\ IF send_rc[Main] \in {"ok", "zero"}
         THEN /\ Invoke("read")
              /\ cpc' = "read"
              /\ cstate' = 0
              /\ cmd_sid' = NoSid
              /\ sub_cmd' = IF send_rc[Main] = "ok" THEN Append(sub_cmd, cur)
                                                   ELSE sub_cmd
              /\ UNCHANGED crc
         ELSE /\ Invoke("destroy")
              /\ cpc' = "term"
              /\ crc' = RcSend
              /\ UNCHANGED <<cstate, cmd_sid, sub_cmd>>
    /\ UNCHANGED <<io_vars, item_vars, has_reader, last_read, wait_test, got,
                   send_rc, wsize, cmds_sent, ghost, cur, elapsed, global_timeout,
                   outcome, daemon_vars>>

\* Bug variant: global_timeout is never retracted.
AfterMissNoRetract(rc, d) ==
    /\ elapsed' = elapsed + d
    /\ global_timeout' = global_timeout
    /\ crc' = rc
    /\ IF global_timeout' <= 0
         THEN Invoke("destroy") /\ cpc' = "term"
         ELSE IF rc = RcRetry
                THEN Invoke("send") /\ cpc' = "send"
                ELSE Invoke("read") /\ cpc' = "read"

\* Lines 323-345, after a miss (rc < 0): retract the time since ref from
\* global_timeout; at or below zero give up with rc; on -4 send again,
\* otherwise read again.
AfterMiss(rc, d) ==
    /\ elapsed' = elapsed + d
    /\ global_timeout' = global_timeout - elapsed'
    /\ crc' = rc
    /\ IF global_timeout' <= 0
         THEN Invoke("destroy") /\ cpc' = "term"
         ELSE IF rc = RcRetry
                THEN Invoke("send") /\ cpc' = "send"
                ELSE Invoke("read") /\ cpc' = "read"

\* Lines 324-326, 348-350: rc >= 0 or an ack error ends the exchange.
Finish(rc, d) ==
    /\ elapsed' = elapsed + d
    /\ crc' = rc
    /\ Invoke("destroy")
    /\ cpc' = "term"
    /\ UNCHANGED global_timeout

\* Lines 242-321: what sp_read returned, through the state machine.
ReadDone ==
    /\ cpc = "read"
    /\ pc[Main] = "ret_read"
    /\ LET l == IF got[Main] = NoLine THEN NoLine ELSE got[Main].line IN
       \E d \in 0..ReadTimeout :
         \/ \* lines 243-246: nothing read, "-4 == retry"
            /\ l = NoLine
            /\ d = ReadTimeout
            /\ AfterMiss(RcRetry, d)
            /\ UNCHANGED <<cstate, cmd_sid>>
         \/ \* lines 259-275: an ack in state 0
            /\ l # NoLine /\ cstate = 0 /\ l.type = "ack"
            /\ IF l.err # 0
                 THEN Finish(ProtoRc(l.err), d) /\ UNCHANGED <<cstate, cmd_sid>>
               ELSE IF l.sid = 0
                 THEN Finish(0, d) /\ cmd_sid' = 0 /\ UNCHANGED cstate
               ELSE /\ cstate' = 1
                    /\ cmd_sid' = l.sid
                    /\ AfterMiss(RcIgnored, d)
         \/ \* lines 283-303: an rxstat with the saved sid in state 1
            /\ l # NoLine /\ cstate = 1 /\ l.type = "rxstat"
            /\ l.sid = cmd_sid
            /\ cstate' = 2
            /\ IF l.qual = 0 /\ l.frame = "str"
                 THEN Finish(1, d)
                 ELSE AfterMiss(RcRetry, d)
            /\ UNCHANGED cmd_sid
         \/ \* any other line is ignored: rc stays -1
            /\ l # NoLine
            /\ ~(cstate = 0 /\ l.type = "ack")
            /\ ~(cstate = 1 /\ l.type = "rxstat" /\ l.sid = cmd_sid)
            /\ AfterMiss(RcIgnored, d)
            /\ UNCHANGED <<cstate, cmd_sid>>
    /\ UNCHANGED <<io_vars, item_vars, has_reader, last_read, wait_test, got,
                   send_rc, wsize, cmds_sent, ghost, cur, outcome, sub_cmd,
                   daemon_vars>>

\* Lines 348-356 and dterm line 316: the reader is destroyed and the rc
\* is the command's result.
TermDone ==
    /\ cpc = "term"
    /\ pc[Main] = "ret_destroy"
    /\ pc' = [pc EXCEPT ![Main] = "idle"]
    /\ outcome' = [outcome EXCEPT ![cur] = crc]
    /\ cpc' = "next"
    /\ UNCHANGED <<io_vars, item_vars, has_reader, last_read, wait_test, got,
                   send_rc, wsize, cmds_sent, ghost, cur, cstate, cmd_sid, crc,
                   elapsed, global_timeout, sub_cmd, daemon_vars>>

\* ottercat_main lines 233-241: after the command stream, dterm_deinit
\* (no shared state) and sp_close.
MainClose ==
    /\ cpc = "done"
    /\ Invoke("close")
    /\ cpc' = "close"
    /\ UNCHANGED <<io_vars, item_vars, has_reader, last_read, wait_test, got,
                   send_rc, wsize, cmds_sent, ghost, cur, cstate, cmd_sid, crc,
                   elapsed, global_timeout, outcome, sub_cmd,
                   daemon_vars>>

\* ottercat_main lines 242-248: sp_close has returned; the program exits.
MainExit ==
    /\ cpc = "close"
    /\ pc[Main] = "ret_close"
    /\ pc' = [pc EXCEPT ![Main] = "idle"]
    /\ cpc' = "exit"
    /\ UNCHANGED <<io_vars, item_vars, has_reader, last_read, wait_test, got,
                   send_rc, wsize, cmds_sent, ghost, cur, cstate, cmd_sid, crc,
                   elapsed, global_timeout, outcome, sub_cmd,
                   daemon_vars>>

CorrNext ==
    \/ DtermNext \/ CreateDone \/ SendDone \/ ReadDone \/ TermDone
    \/ MainClose \/ MainExit

-----------------------------------------------------------------------------
(* The daemon: it acknowledges each command it received, in order, with an *)
(* error code and a session id (0: nothing follows); reports the status of *)
(* an acknowledged session; and writes unrelated messages.                 *)
DaemonAck ==
    /\ answered < Len(sub_cmd)
    /\ \E err \in AckErrs, sid \in {0, answered + 1} :
         /\ DaemonEmit(Line("ack", err, sid, 0, "none", sub_cmd[answered + 1]))
         /\ open_sids' = IF err = 0 /\ sid # 0 THEN open_sids \cup {sid}
                                              ELSE open_sids
    /\ answered' = answered + 1

DaemonStatus ==
    /\ \E s \in open_sids, qual \in {0, 1}, frame \in {"str", "none"} :
         /\ DaemonEmit(Line("rxstat", 0, s, qual, frame, sub_cmd[s]))
         /\ open_sids' = open_sids \ {s}
    /\ UNCHANGED answered

DaemonMsg ==
    /\ DaemonEmit(Line("msg", 0, 0, 0, "none", 0))
    /\ UNCHANGED daemon_vars

DaemonNext ==
    /\ Len(hist) + Len(inbox) < MaxLines
    /\ DaemonAck \/ DaemonStatus \/ DaemonMsg
    /\ UNCHANGED corr_vars

Next ==
    /\ ~Killed
    /\ \/ (IoNext \/ CallNext(Main) \/ DaemonHangup)
            /\ UNCHANGED <<corr_vars, daemon_vars>>
       \/ CorrNext /\ UNCHANGED daemon_vars
       \/ DaemonNext

\* The main thread is scheduled: the correlator steps are weakly fair.
Spec == Init /\ [][Next]_vars /\ SpFairness /\ WF_vars(CorrNext)

-----------------------------------------------------------------------------
CorrTypeOK ==
    /\ cliopts \in CliOptT
    /\ cpc \in {"next", "create", "send", "read", "term", "done", "close",
                "exit"}
    /\ cur \in 0..Cmds
    /\ cstate \in {0, 1, 2}
    /\ cmd_sid \in Nat \cup {NoSid}
    /\ elapsed \in Nat
    /\ global_timeout \in Int
    /\ answered \in Nat
    /\ open_sids \subseteq Nat
    /\ outcome \in [1..Cmds -> {NoResult, 0, 1, RcCapacity, RcSend, RcRetry,
                                RcIgnored} \cup {c \in Int : c < -256}]

\* Retry bound (spec 8): however the daemon answers, an exchange ends no
\* later than one read timeout after the global deadline.
RetryBound == elapsed <= GlobalDeadline + ReadTimeout

\* Reference readings: tv_nsec at 0, just above 0, just below and at a
\* millisecond, mid-second and just below a second.
Refs == [sec : {5}, nsec : {0, 1, 999999, 1000000, 500000000, 999999999}]

\* The reading ms milliseconds and ns more nanoseconds after t.
Later(t, ms, ns) ==
    LET n == t.nsec + (ms % 1000) * 1000000 + ns
    IN  [sec |-> t.sec + ms \div 1000 + n \div 1000000000, nsec |-> n % 1000000000]

\* The time AfterMiss retracts, elapsed ticks, is what cmd_devmgr.c
\* 333-334 computes through diff_timespec from the two CLOCK_MONOTONIC
\* readings: the whole milliseconds between them, whatever the reference's
\* tv_nsec and however little more than whole milliseconds has passed.
RetractExact ==
    [e \in 0..(GlobalDeadline + ReadTimeout) |->
        \A ref \in Refs, ns \in {0, 1, 999999} :
            RetractMs(ref, Later(ref, e * TickMs, ns)) = e * TickMs]

RetractIsElapsed == elapsed \in DOMAIN RetractExact => RetractExact[elapsed]

\* Every command line run through dterm_cmdstream ends with a result and
\* the program reaches sp_close.
CommandsComplete == <>(cpc = "done")
=============================================================================
