------------------------------- MODULE CmdLine -------------------------------
(***************************************************************************)
(* One run of ottercat, from the arguments to the exit status.  main()     *)
(* (src/main/main.c 253-407) builds the command string from the cmd        *)
(* arguments or from one line of stdin (sub_readline, 139-169);            *)
(* ottercat_main (171-248) opens the socket and hands the string to        *)
(* dterm_cmdstream (src/main/dterm.c 273-329), which sanitizes it, splits  *)
(* it into lines (sub_str_sanitize, sub_str_mark, 59-77) and runs each     *)
(* line through sub_proc_lineinput as LineInput models it.  Bytes are      *)
(* abstracted to "c" (any other byte of a command), " ", "\n", "\r" and    *)
(* "NUL".                                                                  *)
(***************************************************************************)
EXTENDS LineInput, SequencesExt

CONSTANTS
    ArgVecs,     \* the cmd arguments argtable may hand main (non-empty)
    StdinData,   \* what read(STDIN_FILENO) delivers: [bytes, end], end is
                 \* what read returns after them (0 at EOF, -1 on error)
    ReadMax,     \* the max main passes to sub_readline, 1024
    HeapTails    \* non-NUL bytes strlen may meet past what main wrote

VARIABLES
    stage,         \* "parse", "ottercat", "stream" or "exit"
    exitcode,      \* what main returns
    cmdbuf,        \* the bytes main wrote into cmdstr_val
    given,         \* the command text the user gave (ghost)
    stream,        \* the string dterm_cmdstream works on
    streamcursor,  \* index of streamcursor in stream
    stream_sz,
    linelen,
    sent           \* the lines handed to sub_proc_lineinput (ghost)

main_vars == <<stage, exitcode, cmdbuf, given>>
dterm_vars == <<stream, streamcursor, stream_sz, linelen, sent>>

Space == {" ", "\n", "\r"}       \* isspace() of the byte alphabet

\* main.c 139-169: read one byte at a time until '\n' or 0 (both kept),
\* max bytes, or a read that does not return 1.
RECURSIVE ReadLoop(_, _, _, _, _)
ReadLoop(in, end, max, got, rc) ==
    IF max = 0 THEN [got |-> got, rc |-> rc]
    ELSE IF in = <<>> THEN [got |-> got, rc |-> end]
    ELSE IF Head(in) \in {"\n", "NUL"} THEN [got |-> Append(got, Head(in)), rc |-> 1]
    ELSE ReadLoop(Tail(in), end, max - 1, Append(got, Head(in)), 1)

SubReadline(d) ==
    LET r == ReadLoop(d.bytes, d.end, ReadMax, <<>>, 0)
    IN  [got |-> r.got, rc |-> IF r.rc >= 0 THEN Len(r.got) ELSE r.rc]

\* main.c 354-371: cmdstr_size is the sum of strlen + 1, and every
\* argument is stpcpy'd and followed by ' ': the buffer is full, no NUL.
JoinArgs(a) == FlattenSeq([i \in DOMAIN a |-> a[i] \o <<" ">>])

\* dterm.c 283: strlen stops at the first NUL; past the bytes main
\* wrote it reads uninitialized heap bytes, here tail, up to a zero.
CString(b, tail) ==
    LET s == b \o tail \o <<"NUL">>
    IN  SubSeq(s, 1, SelectInSeq(s, LAMBDA x : x = "NUL") - 1)

\* dterm.c 60-68: sub_str_sanitize turns every '\r' into '\n'.
Sanitize(s) == ReplaceAll(s, "\r", "\n")

\* dterm.c 295: while (isspace(*streamcursor)) streamcursor++ ...
RECURSIVE Burn(_, _)
Burn(s, c) == IF c <= Len(s) /\ s[c] \in Space THEN 1 + Burn(s, c + 1) ELSE 0

\* Bug variant: the line runs on over '\n' to the end of the stream.
RECURSIVE SubStrMarkNoNewline(_, _, _)
SubStrMarkNoNewline(s, c, max) ==
    IF c > Len(s) \/ s[c] = "NUL" \/ max = 0 THEN 0
    ELSE 1 + SubStrMarkNoNewline(s, c + 1, max - 1)

\* dterm.c 70-79: the length up to NUL, '\n' or max bytes.
RECURSIVE SubStrMark(_, _, _)
SubStrMark(s, c, max) ==
    IF c > Len(s) \/ s[c] \in {"NUL", "\n"} \/ max = 0 THEN 0
    ELSE 1 + SubStrMark(s, c + 1, max - 1)

CmdInit ==
    /\ Init
    /\ stage = "parse"
    /\ exitcode = 0
    /\ cmdbuf = <<>>
    /\ given = <<>>
    /\ stream = <<>>
    /\ streamcursor = 1
    /\ stream_sz = 0
    /\ linelen = 0
    /\ sent = <<>>

\* main.c 293-327: no memory for argtable, a parse error (1), --help or
\* --version (0) end main before ottercat_main.
MainBail ==
    /\ stage = "parse"
    /\ \E code \in {0, 1} : exitcode' = code
    /\ stage' = "exit"
    /\ UNCHANGED <<vars, cmdbuf, given, dterm_vars>>

\* main.c 353-371 and 382-402: the command string from the arguments.
\* cmdstr_size is at least 1, so the test of line 382 passes.
MainArgs ==
    /\ stage = "parse"
    /\ \E a \in ArgVecs :
         /\ cmdbuf' = JoinArgs(a)
         /\ given' = FlattenSeq([i \in DOMAIN a |->
                                   IF i = 1 THEN a[i] ELSE <<" ">> \o a[i]])
    /\ stage' = "ottercat"
    /\ UNCHANGED <<vars, exitcode, dterm_vars>>

\* main.c 373-402: the command string from one line of stdin into
\* malloc(1024); end of input or a read error ends main with 0.
MainStdin ==
    /\ stage = "parse"
    /\ \E d \in StdinData :
         LET r    == SubReadline(d)
             stop == SelectInSeq(d.bytes, LAMBDA x : x \in {"\n", "NUL"})
             line == IF stop = 0 THEN d.bytes ELSE SubSeq(d.bytes, 1, stop - 1)
         IN  /\ cmdbuf' = r.got
             /\ given' = SubSeq(line, 1, Min({Len(line), ReadMax}))
             /\ stage' = IF r.rc <= 0 THEN "exit" ELSE "ottercat"
    /\ UNCHANGED <<vars, exitcode, dterm_vars>>

\* main.c 186-212 and dterm.c 278-288: sp_open fails (-2), or
\* dterm_cmdstream takes strlen of the string, turns '\r' into '\n' and
\* enters its loop if the string is not empty.
OttercatMain ==
    /\ stage = "ottercat"
    /\ \/ /\ exitcode' = -2
          /\ stage' = "exit"
          /\ UNCHANGED <<vars, cmdbuf, given, dterm_vars>>
       \/ \E tail \in HeapTails :
            LET s == Sanitize(CString(cmdbuf, tail))
            IN  /\ stream' = s
                /\ stream_sz' = Len(s)
                /\ streamcursor' = 1
                /\ status' = IF Len(s) > 0 THEN "running" ELSE "ended"
          /\ stage' = "stream"
          /\ UNCHANGED <<n, cmdrc, dev, writes, reply, exitcode, cmdbuf,
                         given, linelen, sent>>

\* dterm.c 294-309: burn whitespace, mark the line (its '\n' becomes 0)
\* and run it; an empty line is no JSON object.
CmdLineInput ==
    /\ stage = "stream"
    /\ LET b   == Burn(stream, streamcursor)
           c   == streamcursor + b
           len == SubStrMark(stream, c, stream_sz - b)
       IN  /\ streamcursor' = c
           /\ stream_sz' = stream_sz - b
           /\ linelen' = len
           /\ stream' = IF c + len <= Len(stream) /\ stream[c + len] = "\n"
                        THEN [stream EXCEPT ![c + len] = "NUL"] ELSE stream
           /\ sent' = Append(sent, SubSeq(stream, c, c + len - 1))
           /\ ProcLineInput(IF len = 0 THEN {"plain"} ELSE LineKinds)
    /\ UNCHANGED main_vars

\* Bug variant: the terminator is not eaten.
AdvanceNoEat ==
    /\ stream_sz' = stream_sz - linelen
    /\ streamcursor' = streamcursor + linelen
    /\ UNCHANGED <<main_vars, stream, linelen, sent>>

\* dterm.c 321-323: "+1 eats the terminator".
Advance ==
    /\ stream_sz' = stream_sz - (linelen + 1)
    /\ streamcursor' = streamcursor + linelen + 1
    /\ UNCHANGED <<main_vars, stream, linelen, sent>>

CmdStop == StopOnError /\ UNCHANGED <<main_vars, dterm_vars>>

CmdNextLine == NextLine /\ Advance /\ stream_sz' > 0

CmdStreamEnd == StreamEnd /\ Advance /\ stream_sz' <= 0

\* main.c 212-248: whatever its lines returned, dterm_cmdstream returns 0;
\* ottercat_main closes the socket and returns cli.exitcode, still 0.
OttercatExit ==
    /\ stage = "stream"
    /\ status \in {"stopped", "ended"}
    /\ stage' = "exit"
    /\ UNCHANGED <<vars, exitcode, cmdbuf, given, dterm_vars>>

CmdNext ==
    \/ MainBail \/ MainArgs \/ MainStdin \/ OttercatMain
    \/ CmdLineInput \/ CmdStop \/ CmdNextLine \/ CmdStreamEnd \/ OttercatExit

cmd_vars == <<vars, main_vars, dterm_vars>>

\* main is one thread; every exchange returns in this model (Correlator
\* checks that, and correlator_hang shows when it does not).
CmdSpec == CmdInit /\ [][CmdNext]_cmd_vars /\ WF_cmd_vars(CmdNext)
-----------------------------------------------------------------------------
CmdTypeOK ==
    /\ TypeOK
    /\ stage \in {"parse", "ottercat", "stream", "exit"}
    /\ exitcode \in {0, 1, -2}
    /\ sent \in Seq(Seq({"c", " ", "\n", "NUL"}))

\* The line with leading and trailing whitespace removed.
Trim(l) ==
    LET i == SelectInSeq(l, LAMBDA x : x \notin Space)
        j == SelectLastInSeq(l, LAMBDA x : x \notin Space)
    IN  IF i = 0 THEN <<>> ELSE SubSeq(l, i, j)

\* Reference: the non-blank lines of a text, split at '\n' and '\r'.
RECURSIVE Commands(_)
Commands(t) ==
    IF t = <<>> THEN <<>>
    ELSE LET i    == SelectInSeq(t, LAMBDA x : x \in {"\n", "\r"})
             line == Trim(IF i = 0 THEN t ELSE SubSeq(t, 1, i - 1))
             rest == IF i = 0 THEN <<>> ELSE SubSeq(t, i + 1, Len(t))
         IN  (IF line = <<>> THEN <<>> ELSE <<line>>) \o Commands(rest)

SentCommands ==
    SelectSeq([i \in DOMAIN sent |-> Trim(sent[i])], LAMBDA l : l # <<>>)

\* The burn, sub_str_mark and the stream_sz accounting of dterm_cmdstream
\* run the user's non-blank command lines in order, each once, nothing
\* else; when the stream ends they have all run.
LinesRun ==
    /\ IsPrefix(SentCommands, Commands(given))
    /\ (stage # "parse" /\ status = "ended") => SentCommands = Commands(given)

\* dterm_cmdstream calls strlen on what main hands it, so main's buffer
\* holds a NUL main wrote (a C string, dterm.h).
CmdStrTerminated == stage = "ottercat" => "NUL" \in Range(cmdbuf)

\* Whatever the input, the stream loop of dterm_cmdstream ends and main
\* returns an exit status.
MainReturns == <>(stage = "exit")

\* No empty command reaches sp_sendcmd: a blank line is skipped.
NoEmptyCommand == \A i \in DOMAIN sent : sent[i] # <<>>
=============================================================================
