# TLA+ models of ottercat

ottercat is a command-line client that sends commands to a device-manager daemon over a Unix socket and waits for their answers. This directory holds TLA+ models of its concurrent core and the TLC runs that check them.

## The system

| Part | Source | What it does |
|---|---|---|
| Connection | `sockpush.c` `sp_open`, `sp_iothread` 574-584, 647-648 | Creates the socket and starts the background I/O thread. The thread connects with an exponential backoff (1, 2, 4, ... s while below 60), and after end of stream closes the descriptor and connects again. |
| Line Reader Loop | `sp_iothread` 586-609 | Reads bytes up to `\n` or NUL into a local buffer. Under `user_mutex` it bumps `read_id`, sets `read_size` and copies the line into the shared `read_buf`. |
| Fan-out | `sp_iothread` 611-644, `sp_read` 445-479 | If a reader waits, the I/O thread clears `readline_inactive` and broadcasts `readline_cond`. It then sets `readdone_inactive` and waits on `readdone_cond` until the last woken reader clears the flag and signals. It holds `user_mutex` throughout. |
| Reader Handle | `sp_reader_create/destroy/purge`, `sp_read` | A reader remembers `last_read`. `sp_read` tries a `trylock` fast path that copies a line it has not seen. Otherwise it counts itself in `waiting_readers` and does a timed wait on `readline_cond`. |
| Command send | `sub_write`, `sp_sendcmd`, `sp_write` | An empty buffer returns 0 and nothing is written. Otherwise the buffer is written under `user_mutex`, and `sp_sendcmd` adds a newline if it does not end in one. Nothing ignores SIGPIPE. |
| Subscribers | `sp_subscribe` | A stub returning -1, so the dispatch loop is dead code. |
| sp_close | `sp_close` | Cancels and joins the I/O thread, then unlocks and destroys the mutexes. |
| Command Correlator | `cmd_devmgr.c` `sub_devmgr_socket` | Creates a reader and sends the command, then loops on `sp_read`. State 0 waits for an ack (error: rc -256-\|err\|; sid 0: rc 0). State 1 waits for the `rxstat` of that sid (good frame: rc = length; otherwise retry -4). A timeout is retry -4, and a retry re-sends. The elapsed time is retracted from `global_timeout = timeout*tries + timeout/2`. |
| dterm front-end | `dterm.c` `dterm_cmdstream`, `sub_proc_lineinput` | Takes `strlen` of the string, turns `\r` into `\n`, then splits it into lines: it burns leading whitespace and `sub_str_mark` finds the line end. Runs each command line through `cmd_devmgr` and stops at the first negative result. For a JSON request it writes a `{"type":..., "data":` header into the 1024-byte `protocol_buf`, lets `cmd_devmgr` copy the frame after it and closes the reply with `}\n`. |
| Options | `cliopt.c`, `cliopt.h` | A record behind getters and setters. `main` fills it once before `sp_open`. `cmd_devmgr` reads the read timeout and tries from it. `main` declares `-t` and `-r`, but `argtable[]` (main.c:273) leaves them out. `arg_parse` therefore never fills them, and the store always holds the defaults: 500 ms and one try. |
| Entry | `main.c` `main`, `sub_readline`, `ottercat_main` | Parses the arguments. Builds the command string from the cmd arguments (each followed by a space) or from one line of stdin. Then opens the socket, runs `dterm_cmdstream` on the string, closes, and returns `cli.exitcode`. |

The parts interact as follows:
- **Threads:** only two kinds run. The main thread runs dterm, the correlator and the `sp_*` calls. `sp_iothread` runs in the background.
- **Shared state:** they share `sp_item_t` through three mutexes and two condition variables.
- **The daemon:** it is the environment. It writes lines whenever it likes, and it may close the connection.

## Modules

**`SockPush.tla`** models sockpush.c: the I/O thread, the reader API and the send.
- **I/O thread:** its program counter is `io_pc`. One action per step:
  - `IoInit`
  - `IoConnectOk` and `IoConnectFail`
  - `IoReadLine` and `IoReadFail`
  - `IoCopy`
  - `IoFanout`
  - `IoReadDoneWait` and `IoReadDoneWake`
- **Client threads:** each has a `pc`. The calls are:
  - `SpReaderCreate` (the unlocked capacity test) and `SpReaderCreateLocked`
  - `SpReaderDestroy`, `SpReaderPurge`
  - `SpSendCmd` and `SpWrite`: both are `WriteCall` (the empty-buffer return) and `SubWrite` (the locked write). `wsize` is the caller's writesize, 0 or not empty.
  - `SpReadTry` (the trylock fast path)
  - `SpReadWait`, `SpReadTimeout`, `SpReadWake`, `SpReadSignal` (the slow path)
- **Mutexes:**
  - `readline_mutex` and `readdone_mutex` are only held inside one step each, so they are not variables.
  - `user_mutex` is held by the I/O thread from line 606 to 644. `UserLocked` says when. A cancel in the readdone wait leaves the thread `"exited_held"`, still holding the lock until `sp_close` unlocks it (line 313). Every blocking `pthread_mutex_lock` of a client is a guard `~UserLocked`.
- **Ghost variables:** `hist` (the line published under each `read_id`), `base` and `seen` (the ids a reader copied) support the properties.
- **Close:** `SpClose` is `pthread_cancel`. It sets `cancel_req`, and `IoCancelled` ends the I/O thread at its next cancellation point: `connect`/`sleep`, `read` or the readdone `pthread_cond_wait`. No cleanup handler is installed, so a lock held there stays held (`"exited_held"`). `SpCloseJoin` is the join and the teardown, after which `fd` is `"released"` and no call follows.
- **SIGPIPE:** a send while the daemon has hung up (`PeerClosed`) kills the process. Once `Killed` holds, no thread takes another step.
- **`LibSpec`:** client threads make any legal call sequence, and the daemon writes `MaxLines` distinct lines and hangs up at most `MaxHangups` times.

**`Correlator.tla`** EXTENDS SockPush and runs the real transport under the correlator of the main thread `Main`.
- **Control:** `cpc` is the position in `dterm_cmdstream` / `sub_devmgr_socket`.
- **The dterm loop and the correlator:**
  - `DtermNext` is dterm's loop.
  - `CreateDone`, `SendDone` and `ReadDone` handle the return of each `sp_*` call. `ReadDone` has one disjunct per branch of the state machine.
  - `AfterMiss` is the timeout retraction and the retry. It retracts `elapsed` ticks. `DiffTimespec` and `RetractMs` are the code's computation of that time from two `struct timespec` readings, with C's truncating division (`CDiv`).
  - `Finish` and `TermDone` end the exchange.
- **Exit:** `MainClose` and `MainExit` are the `sp_close` and return of `ottercat_main`.
- **Calls:** a call is made by setting `pc[Main]` to the entry label, and its `ret_*` label is its return.
- **Daemon:**
  - It acks the commands it received in order. An ack has an error code from `AckErrs` and a sid, 0 or fresh.
  - It reports the `rxstat` of an open sid with any qualifier and frame, and writes unrelated messages.
  - The ghost `cmd` field of a line records which command it answers.
- **Data abstractions:**
  - cJSON is abstracted to record fields.
  - Time is counted in ticks of `TickMs`. A timed-out `sp_read` takes `ReadTimeout`, and one that returns a line takes 0..`ReadTimeout`.
- **Options:** `cliopts` is the option store as `main` leaves it. Since `-t` and `-r` never reach `arg_parse`, that is the defaults. `ReadTimeout` and `GlobalDeadline` are computed from it as `cmd_devmgr.c` 209-210 does.

**`CliOpt.tla`** models the option store (`cliopt.c`, `cliopt.h`) and how `main` fills it. `CliOptT` is `cliopt_t`, `CliInit` is `cliopt_init` and `CliSet` is any setter. `TimeoutVal` and `TriesVal` derive the values from the parsed options (main.c 340-345). Those branches are dead, because `argtable[]` omits both options, so `Correlator` passes them `{}`. `MainOptions` is the sequence of `cliopt_init` and the setters (main.c 386-391). An `arg_int0` option is the set of values given, `{}` when it is absent. The store is written before any other thread exists and never after, so it is a constant record rather than a variable.

**`Mailbox.tla`** is the abstract specification of what the transport promises a pull reader (spec 3, 4.3, 4.4, 5). There is one slot holding the newest line, with ids growing by one. A reader remembers the last id it saw, and a receive copies the newest line if it is newer, or nothing. `MCSockPush` maps `hist` to `published`, `last_read` to `pos` and `got` to `got`, and checks `Abs!Spec` as the property `MailboxRefinement`.

**`LineAssembly.tla`** models the byte loop of `sp_iothread` (586-609), which SockPush abstracts to one step per line.
- **State:** `readbuf` keeps the stale bytes of earlier lines, alongside `cursor`, `read_size` and the copied `linebuf`.
- **Actions:** `ReadByte` is the read and wrap, `ReadTerminator` the `*cursor++ = 0` and the copy, and `NextLine` the reset of the cursor.
- **Ghost:** `line` holds the bytes the daemon sent.

**`LineInput.tla`** models one command line of `dterm_cmdstream` and `sub_proc_lineinput`, with the frame copy of `sub_devmgr_socket` (`cmd_devmgr.c` 289-298).
- **Bytes:** `protocol_buf` is abstracted to the sequence of writes into it, each an interval of offsets and a kind: header, NUL, frame, closing `}\n`, error text. `ByteAt` gives the content of an offset, and `reply` is what `write()` sends.
- **Lengths:** lengths are real (BufSize 1024, header 19 + type length). `Header` keeps the `snprintf` return value, `FrameCopy` the clamp and the `rc+1` memcpy count, and `StpncpyEnd` the end pointer of `stpncpy`.
- **The correlator:** its exchange is abstracted to its outcome (`DevOutcomes`): a frame, an ack with sid 0, or an error.
- **`cmdrc`:** it is a fresh uninitialized int for each line (`Garbage`).

**`CmdLine.tla`** EXTENDS LineInput and models one run of ottercat, from the arguments to the exit status.
- **`main`:**
  - `MainBail` is the early exit for help, version or a parse error.
  - `MainArgs` joins the arguments (`JoinArgs`: each followed by `' '`, and no NUL).
  - `MainStdin` reads one line (`ReadLoop` / `SubReadline` are the loop of `sub_readline`).
- **`ottercat_main`:**
  - `OttercatMain` is the `sp_open` failure, or the start of `dterm_cmdstream`: `CString` is `strlen` and `Sanitize` is `sub_str_sanitize`.
  - `OttercatExit` is the return of `cli.exitcode`.
- **The loop of `dterm_cmdstream`:**
  - `CmdLineInput` is the whitespace burn (`Burn`), `sub_str_mark` (`SubStrMark`, which writes its NUL) and `ProcLineInput` of LineInput for the marked line.
  - `CmdStop`, `CmdNextLine` and `CmdStreamEnd` are LineInput's `StopOnError`, `NextLine` and `StreamEnd`. `Advance` is the `stream_sz` / cursor accounting.
- **Bytes:** `"c"` (any other command byte), `" "`, `"\n"`, `"\r"` and `"NUL"`.
- **Uninitialized heap:** what `strlen` meets past main's bytes is a choice from `HeapTails`.
- **Ghosts:** `given` (the text the user gave) and `sent` (the lines run).
- **`Commands`:** a RECURSIVE reference that splits a text at line breaks, trims each line and drops the blank ones.

`MCSockPush.tla` and `MCCorrelator.tla` add `TLC` (for thread symmetry) for the runs. `MCLineInput.tla` and `MCCmdLine.tla` give the negative constants and the sequence-valued inputs a `.cfg` cannot write.

## Properties and runs

| Run | Expect | Property | What it says |
|---|---|---|---|
| sockpush_safety | pass | `TypeOK`, `LoadsInOrder`, `MailboxRefinement` | One client thread, any API call sequence, 3 lines and one hangup. A reader sees ids strictly increasing and newer than its creation or purge. The library implements `Mailbox`, whose receive copies the line published under the id it records. |
| sockpush_live | pass | `SpReadReturns`, `CloseReturns` | Two readers. Every `sp_read` returns, and every `sp_close` returns. |
| correlator_safety | pass | `CorrTypeOK`, `RetryBound`, `RetractIsElapsed`, `CancelOutsideLock` | One command with the default options, any daemon answers, one hangup. The exchange ends no later than one read timeout after the global deadline. The milliseconds the code retracts, computed from two clock readings through `diff_timespec`, are the elapsed time the model retracts, for references on both sides of a second boundary and readings a fraction of a millisecond later. In ottercat's sequence `sp_close` never cancels the I/O thread while it holds `user_mutex`. |
| lineassembly | pass | `TypeOK`, `PublishedPerPolicy` | Lines of up to 7 bytes into a 3-byte `readbuf`. The published line is exactly the bytes after the last wrap and a NUL, with no stale byte, and `read_size` never exceeds the buffer. |
| cmdline_safety | pass | `CmdTypeOK`, `FrameReplyPerSpec`, `LinesRun`, `MainReturns` | Eight argument vectors and six stdin inputs, through up to three lines each, with types whose header fits and frames at the (scaled) capacity. A frame reply carries `min(len, dstmax-1)` bytes (spec 4.4). The user's non-blank lines run in order, each once, if the heap byte after main's buffer is 0. Whatever the input, `main` returns (`MainReturns`). |
| correlator_sigpipe | violation | `SendFailureReported` | The daemon hangs up. The next send raises SIGPIPE and kills ottercat instead of returning -6 (sockpush.c:493). |
| lineinput_overflow | violation | `WritesInBounds` | A 1005-byte type string: `*cursor = 0` writes one byte past `protocol_buf` (dterm.c:230). |
| sockpush_dup | violation | `LoadsInOrder` | Two readers. One copies the same line twice. This is the `@todo` at sockpush.c:453/623. |
| sockpush_reconnect | violation | `Reconnects` | After a hangup, `connect()` is retried on the closed descriptor forever (sockpush.c:648). `Reconnects` leaves out behaviours where `sp_close` has cancelled the thread (`cancel_req`), so the trace is the hangup alone. |
| correlator_hang | violation | `CommandsComplete` | A readdone signal sent before the I/O thread waits is lost. The I/O thread keeps `user_mutex` and the main thread blocks in `sp_reader_destroy`. |
| cmdline_unterminated | violation | `CmdStrTerminated` | `main` writes the arguments, each followed by `' '`, into a buffer with no room for a NUL (main.c:371). A stdin line keeps its `\n` and gets no NUL. `strlen` in `dterm_cmdstream` then reads uninitialized or out-of-bounds heap. |
| cmdline_empty | violation | `NoEmptyCommand` | An argument `"\n"` (or `echo \| ottercat`) runs an empty command (dterm.c:296). `sp_sendcmd` writes nothing for it (sockpush.c:533-534), so in the code `cmd_devmgr` returns -4 after the 750 ms global deadline. The model leaves the daemon's answer to a line open, so the trace's outcome may differ; the violation is the empty command itself. |

The two-reader violation (sockpush_dup) has one cause. A reader whose timed wait expired decides "I am the last waiter" under `readline_mutex`, but signals readdone only later, after another reader has been woken. That stale signal lets the I/O thread go on before the woken reader has copied.

Each property of a passing run has a bug variant (a mutant) in the module that TLC must catch:
- `IoConnectFailUncapped` drops the backoff cap.
- `SpReadTryNoIdCheck` drops the `last_read` comparison of the fast path.
- `SpReadWakeIgnoreTimeout` makes the wait loop ignore the timeout.
- `ProtoRcSigned` loses the sign of the daemon error.
- `AfterMissNoRetract` never retracts `global_timeout`.
- `DiffTimespecNoBorrow` subtracts the nanoseconds without borrowing a second (RetractIsElapsed).
- `LoadReadNoMark` does not record `last_read` (MailboxRefinement).
- `SpCloseNoCancel` joins without cancelling (CloseReturns).
- `SpReaderDestroyNoLock` decrements the reader count without `user_mutex`, so a destroy can complete while the I/O thread holds the lock (CancelOutsideLock).
- `ReadByteWrapLate` wraps with `>` instead of `>=` (TypeOK of LineAssembly).
- `NextLineNoReset` keeps the cursor for the next line (PublishedPerPolicy).
- `StpncpyEndFixed` takes the reply end as `cursor + 2` (CmdTypeOK).
- `SubStrMarkNoNewline` lets `sub_str_mark` run over `\n` (LinesRun).
- `AdvanceNoEat` does not step over the terminator. The cursor then stays on the NUL `sub_str_mark` wrote, and empty lines repeat without end (MainReturns).
- `FrameCopyNoRoom` clamps at `dstmax` instead of `dstmax - 1` (FrameReplyPerSpec).

Disagreements seen while modelling that are not kept as runs:
- **Lost close safety:** after a lost readdone signal, a thread that closes without destroying its reader cancels the I/O thread inside `pthread_cond_wait` with `user_mutex` held (spec 5 says never mid-lock). The cancel happens at sockpush.c:295, and the wait is at line 637.
- **Skipped lines:** a reader that is not waiting when a line is published skips it (sockpush.c:626, against spec 8's exactly-once).
- **Early deadline:** the cumulative retraction gives up before the global deadline (cmd_devmgr.c:334). `RetryBound` checks the upper side.
- **Resend on timeout:** a plain timeout re-sends the command (cmd_devmgr.c:245), where spec 4.5 keeps the state.
- **Missing newline:** a frame of `dstmax-1` bytes leaves `stpncpy` room for `}` only, so the JSON reply has no newline (dterm.c:253).
- **Uninitialized `cmdrc`:** a JSON object without string `type`/`data` leaves `cmdrc` unset, and dterm stops or goes on at random (dterm.c:316). The cmdline_safety run reaches both outcomes.
- **Reader capacity:** `sp_reader_create` tests the capacity outside `user_mutex` (sockpush.c:340), so two creating threads both pass. ottercat creates readers from one thread.
- **Stale ack:** in state 0 any ack is taken, so the ack of a re-sent earlier command is taken by the next command (cmd_devmgr.c:261). This needs two commands in one stream, i.e. a newline inside the input line.
- **Garbage after the command:** with a non-zero heap byte after main's buffer (`HeapTails = MCTails`), `LinesRun` fails: the bytes are appended to the command.
- **Exit status:** `dterm_cmdstream` returns 0 whatever its commands returned, so ottercat exits 0 after a failed or timed-out command (main.c:212). The `-4` case of the switch is dead.
- **Options:** `-t` and `-r` are declared and documented in their `arg_int0` help strings, but `argtable[]` (main.c:273) leaves them out. `arg_parse` rejects them as unknown, and the read timeout and tries are always 500 ms and 1.
- **Send before connect:** `sp_open` returns before the I/O thread's first `connect()` (sockpush.c:264). ottercat's first `sp_sendcmd` can then write on the unconnected socket and end the command with -6 while the daemon is listening. A scratch invariant "no -6 without a hangup" fails in correlator_safety's model within the first steps. Spec 4.1 and 4.4 allow it (connect belongs to the reader loop; a failed write is a SendError), so it is not kept as a run.
- **Count returned by a terminated write:** spec 4.1 says `write` returns the bytes written. `sub_write` returns the result of the newline's `write()`, 1, when it appends one (sockpush.c:499). Callers only test for a negative rc.

## Bounds

- **Threads:** one client thread suffices for the single-reader properties. Two are needed for every reader race found. `SP_MAX_READERS` is 1 in the code, so two readers exist together only through the `sp_reader_create` race at sockpush.c:340. The dup and live runs set `MaxReaders = 2` to study the fan-out as it would behave with a larger registry. ottercat itself reads from one thread; for it, the reachable consequence of the handshake is the hang.
- **Daemon:** `MaxLines` = 2-3 lines is enough for a line to be overwritten while a reader still works on the previous one. `MaxHangups` = 1 exercises the reconnect path. `MaxSends` bounds the write calls of `LibSpec`'s clients (one in sockpush_safety, each empty or not, by `sp_sendcmd` or `sp_write`). The correlator's re-sends are bounded by its deadline, not by `MaxSends`.
- **Timing:** the correlator runs use the only options `main` can set: 500 ms and one try. With `TickMs = 250` that is a read timeout of 2 ticks and a global deadline of (500 + 250) / 250 = 3 ticks, the 750 ms of spec 4.5. That leaves room for one miss, then a retraction, then a retry. A tick of 250 ms divides every timeout used, so the division loses nothing.
- **Correlator:** `AckErrs = {0, 7}` covers success and a protocol error. `Cmds = 2` is used where a second command is needed.
- **Bytes:** a 3-byte `readbuf` with lines of up to 7 bytes reaches every position of the terminator relative to the wrap: before, at and after the end, after one and two wraps. The code's logic does not depend on the size 1024.
- **Lengths:** `LineInput` keeps the real sizes, so its inputs are chosen at the boundaries. A 30-byte type leaves `dstmax` 975, and frames of 973, 974 and 975 bytes fit, fit exactly and are cut. A 1004-byte type leaves `dstmax` 1. Types of 1005 and 1006 bytes make it 0 and -1. Real frames are below about 980 bytes, the line limit less the rxstat envelope.
- **Command line:** one or two arguments of up to four bytes. They have blanks, `\n` and `\r` inside or at either end, which give up to three lines. The stdin inputs are: empty input, a read error, a leading 0 byte, a blank line, a six-byte line that `sub_readline` cuts at `ReadMax` = 5, and a line with `\r` and blanks before its `\n`. `sub_readline`'s logic does not depend on its max of 1024.
- **Buffer in cmdline_safety:** this run scales `protocol_buf` to 64 bytes. A 10-byte type leaves `dstmax` 35 (frames of 33, 34 and 35 bytes), and a 44-byte type leaves 1. Longer types, whose header does not fit, are left to lineinput_overflow, which keeps the real 1024 and checks `WritesInBounds`. The error reply (at most 57 bytes) still fits.
- **Symmetry:** thread symmetry is used only in the safety runs. It is not used with liveness.

## Fairness

Fairness is weak fairness and applies to the following:
- **The whole I/O thread, and `IoConnectOk` separately:** if the daemon listens, connect succeeds.
- **Each client call in progress:** threads are scheduled, and a timed wait eventually expires.
- **The correlator steps:** the main thread runs.
- **Close:** the I/O thread reaches a cancellation point because it is scheduled (`WF` on `IoNext`). `CloseReturns` is checked with no hangup, so the thread is never stuck connecting.

`CmdLine` has weak fairness on its whole next-state relation, since `main` is one thread. This assumes every exchange returns, as its outcome abstraction does. correlator_hang shows the case where it does not.

The daemon is not fair. It may stay silent, as a real daemon may.

Deadlock checking is off (`CHECK_DEADLOCK FALSE`) because the program really does stop in these states:
- the I/O thread blocks in `read()` once the daemon stops writing;
- dterm finishes its commands;
- in the hang run, the deadlock is the subject of the run.

## Not modelled

- **Subscribers:** `sp_subscribe` is a stub.
- **The clock:** `clock_gettime` failures (-5) are not modelled.
- **Bytes in SockPush and Correlator:** they see a line as one value. `LineAssembly` and `LineInput` model the bytes separately. JSON text and cJSON parsing are abstracted to record fields.
- **NULL arguments:** the NULL-handle (-1) and NULL-buffer (0) returns of `sp_write` and `sp_sendcmd` are not modelled; ottercat always passes the handle `sp_open` filled. `sp_write` has no caller in ottercat and is checked only under `LibSpec`.
- **Teardown after close:** `sp_close` unlocks and destroys mutexes that another thread may hold. The model treats them as released, and no call follows a close.
- **Options in CmdLine:** `CmdLine` does not read the option store. The verbose echo and the pool size do not change how a line is handled, and its exchanges are abstracted to outcomes. The option store is modelled in `CliOpt` and read by `Correlator`.
- **Argument parsing:** argtable is a library outside src/. `MainBail` takes its outcome as a choice. `-t` and `-r` are not in `argtable[]`, so no parsed value reaches the store.
- **Headers:** `sockpush.h` and `dterm.h` only declare the API and the handle types. `cliopt.h`'s types are `CliOptT` and `Formats`.
- **Allocation failures:** these are not modelled: `malloc` of `cmdstr_val`, `FILL_STRINGARG`, `dterm_init`'s talloc, and the memory pools of `dterm_cmdstream`.
- **`dterm_init` / `dterm_deinit`:** they only allocate and free the talloc context of the handle; ottercat runs no interactive mode.
- **Uncalled helpers:** nothing calls `sub_hexwrite`, `sub_hexswrite` or `sub_hexstream` (dterm.c 81-105), `sub_copy_stringarg`, `sub_intf_cmp` or `sub_fmt_cmp` (main.c 78-134, the format option is commented out) or `sub_mutex_timedlock` (sockpush.c 123-161). The cJSON and argtable allocator hooks of dterm.c 108-128 only route allocations to talloc.
- **Spurious wakeups:** not modelled; the code loops on its flags, so they would add only re-waits.

## Plan for later work

1. Acks with a missing `err` field (`-1`, hence rc -257).
2. Two concurrent `sp_close` calls, and readers still inside `sp_read` when the handle is freed.
3. A refinement of `Mailbox` for two readers, once the readdone handshake is fixed.
