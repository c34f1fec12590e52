------------------------------ MODULE LineInput ------------------------------
(***************************************************************************)
(* The arithmetic of one command line of dterm_cmdstream                   *)
(* (src/main/dterm.c 273-329): sub_proc_lineinput builds the reply in the  *)
(* 1024-byte stack array protocol_buf, with a JSON header when the input   *)
(* is a JSON object, hands the rest of the array to cmd_devmgr as dst /    *)
(* dstmax, and sub_devmgr_socket copies the rxstat frame into it with a    *)
(* clamp (src/main/cmd_devmgr.c 290-297).  The correlator's exchange is    *)
(* abstracted to its outcome (Correlator.tla models it); the bytes of      *)
(* protocol_buf are abstracted to the kind of write that last covered      *)
(* them, and every write is kept as an interval of offsets.                *)
(***************************************************************************)
EXTENDS Integers, Sequences, FiniteSets, FiniteSetsExt

CONSTANTS
    BufSize,      \* sizeof(protocol_buf), 1024
    HdrFixed,     \* length of {"type":"", "data": (19)
    ErrFixed,     \* length of the error reply without the digits of rc
    TypeLens,     \* lengths of the "type" string of a JSON request
    FrameLens,    \* lengths of the rxstat frame string
    ErrRcs,       \* negative results of cmd_devmgr (-4, -256-|err|, ...)
    Garbage,      \* values an uninitialized int may hold
    Huge,         \* a negative memcpy count converted to size_t
    MaxCmds       \* bound: command lines in the stream

VARIABLES
    status,       \* "running", "check" (cmdrc), "stopped" or "ended"
    n,            \* command lines processed
    cmdrc,        \* the int cmdrc of dterm_cmdstream
    dev,          \* what cmd_devmgr did for the last line, or NoDev
    writes,       \* the writes into protocol_buf of the last line, in order
    reply         \* the bytes write() sent to fd.out for the last line

vars == <<status, n, cmdrc, dev, writes, reply>>

NoDev == [out |-> "none"]

Init ==
    /\ status = "running"
    /\ n = 0
    /\ cmdrc \in Garbage
    /\ dev = NoDev
    /\ writes = <<>>
    /\ reply = <<>>

\* The content of offset o of protocol_buf after the writes ws: that of the
\* last write covering it.  A frame write copies the frame bytes and then
\* its NUL; stpncpy writes "}", "\n" and pads with NUL up to n bytes.
ByteAt(ws, o) ==
    LET cover == {i \in DOMAIN ws : ws[i].lo <= o /\ o <= ws[i].hi}
    IN  IF cover = {} THEN "stale"
        ELSE LET w == ws[Max(cover)]
                 k == o - w.lo
             IN  CASE w.kind = "frame" -> IF k < w.len THEN "F" ELSE "NUL"
                   [] w.kind = "close" -> IF k = 0 THEN "}"
                                          ELSE IF k = 1 THEN "\n" ELSE "NUL"
                   [] w.kind = "err"   -> IF o = w.hi THEN "\n" ELSE "E"
                   [] w.kind = "hdr"   -> "H"
                   [] w.kind = "nul"   -> "NUL"

\* Lines 220-222: snprintf(cursor, bufmax-1, ...) writes at most 1022
\* characters and a NUL, but returns the full length of the header.
Header(tl) ==
    [len |-> HdrFixed + tl,
     w   |-> [lo |-> 0, hi |-> Min({HdrFixed + tl, BufSize - 2}), kind |-> "hdr"]]

\* Bug variant: the clamp keeps dstmax bytes instead of dstmax - 1.
FrameCopyNoRoom(dst, dstmax, fl) ==
    LET rc == IF fl > dstmax THEN dstmax ELSE fl
    IN  [rc |-> rc,
         w  |-> [lo |-> dst, hi |-> dst + rc, kind |-> "frame", len |-> fl]]

\* cmd_devmgr.c 291-297: rc = strlen(frame); clamp to (int)dstmax - 1;
\* memcpy(dst, frame, rc+1).  dstmax is sub_proc_lineinput's int bufmax
\* passed as size_t, so (int)dstmax is bufmax again; a count rc+1 < 0
\* becomes a huge size_t.
FrameCopy(dst, dstmax, fl) ==
    LET rc    == IF fl > dstmax - 1 THEN dstmax - 1 ELSE fl
        count == IF rc + 1 >= 0 THEN rc + 1 ELSE Huge
    IN  [rc |-> rc,
         w  |-> [lo |-> dst, hi |-> dst + count - 1, kind |-> "frame", len |-> fl]]

\* Bug variant: the end of the reply taken as cursor + strlen("}\n").
StpncpyEndFixed(c, b) == c + 2

\* Line 253: stpncpy(cursor, "}\n", bufmax) returns the address of the NUL
\* it wrote, or cursor + bufmax when it wrote none.
StpncpyEnd(c, b) == c + Min({2, b})

\* How sub_devmgr_socket ends (Correlator.tla models the exchange): an
\* rxstat frame of fl bytes (rc: what it returns should the clamp make rc
\* negative), an ack with sid 0, or an error.
DevOutcomes ==
    {[out |-> "frame", fl |-> f, rc |-> r] : f \in FrameLens, r \in {-1, -4}}
    \cup {[out |-> "sid0", fl |-> 0, rc |-> 0]}
    \cup {[out |-> "err", fl |-> 0, rc |-> e] : e \in ErrRcs}

\* What sub_proc_lineinput makes of a line: a JSON object with string
\* "type" and "data", a JSON object without them, or anything else.
LineKinds == {"plain", "json", "badjson"}

\* Lines 288-309 and 186-258: the next command line, of one of kinds,
\* through sub_proc_lineinput.  A JSON object with "type" and "data" gets
\* the header; a JSON object without them returns at line 225 before cmdrc
\* is set; anything else is sent as is.  cmdrc is a fresh uninitialized int.
ProcLineInput(kinds) ==
    /\ status = "running"
    /\ n' = n + 1
    /\ \E stale_rc \in Garbage, kind \in kinds :
       IF kind = "badjson"
       THEN /\ cmdrc' = stale_rc
            /\ dev' = NoDev
            /\ writes' = <<>>
            /\ reply' = <<>>
       ELSE \E tl \in (IF kind = "json" THEN TypeLens ELSE {0}),
               d \in DevOutcomes :
            LET hdr    == IF kind = "json" THEN Header(tl).len ELSE 0
                hdr_w  == IF kind = "json" THEN <<Header(tl).w>> ELSE <<>>
                cursor == hdr
                bufmax == BufSize - hdr
                ws1    == hdr_w \o <<[lo |-> cursor, hi |-> cursor, kind |-> "nul"]>>
                fc     == FrameCopy(cursor, bufmax, d.fl)
                \* the correlator returns the frame length; a negative rc
                \* is not >= 0, so it reads on until the deadline (-1, -4)
                result == CASE d.out = "frame" -> IF fc.rc >= 0 THEN fc.rc ELSE d.rc
                            [] d.out = "sid0"  -> 0
                            [] d.out = "err"   -> d.rc
                ws2    == IF d.out = "frame" THEN Append(ws1, fc.w) ELSE ws1
                digits == IF result > -10 THEN 2 ELSE IF result > -100 THEN 3 ELSE 4
                c1     == cursor + result
                b1     == bufmax - result
                ws3    == CASE result < 0 ->
                                 <<[lo |-> 0, hi |-> ErrFixed + digits - 1, kind |-> "err"]>>
                            [] result > 0 /\ kind = "json" /\ b1 > 0 ->
                                 Append(ws2, [lo |-> c1, hi |-> c1 + b1 - 1, kind |-> "close"])
                            [] OTHER -> ws2
                out_n  == CASE result < 0 -> ErrFixed + digits
                            [] result > 0 /\ kind = "json" -> StpncpyEnd(c1, b1)
                            [] OTHER -> result
            IN  /\ cmdrc' = result
                /\ dev' = [out |-> d.out, json |-> kind = "json", flen |-> d.fl,
                           dstmax |-> bufmax, result |-> result]
                /\ writes' = ws3
                /\ reply' = [o \in 0..(out_n - 1) |-> ByteAt(ws3, o)]
    /\ status' = "check"

\* Lines 315-319: stop at the first negative cmdrc.
StopOnError ==
    /\ status = "check"
    /\ cmdrc < 0
    /\ status' = "stopped"
    /\ UNCHANGED <<n, cmdrc, dev, writes, reply>>

\* Lines 321-324 and 288: go on with the next line while the stream
\* has one.
NextLine ==
    /\ status = "check"
    /\ cmdrc >= 0
    /\ n < MaxCmds
    /\ status' = "running"
    /\ UNCHANGED <<n, cmdrc, dev, writes, reply>>

\* Line 288: the stream is used up.
StreamEnd ==
    /\ status = "check"
    /\ cmdrc >= 0
    /\ status' = "ended"
    /\ UNCHANGED <<n, cmdrc, dev, writes, reply>>

Next == ProcLineInput(LineKinds) \/ StopOnError \/ NextLine \/ StreamEnd

Spec == Init /\ [][Next]_vars
-----------------------------------------------------------------------------
TypeOK ==
    /\ status \in {"running", "check", "stopped", "ended"}
    /\ n \in 0..MaxCmds
    /\ \A i \in DOMAIN writes : writes[i].lo <= writes[i].hi
    /\ reply \in [0..(Cardinality(DOMAIN reply) - 1) ->
                    {"H", "NUL", "F", "}", "\n", "E", "stale"}]
    /\ Cardinality(DOMAIN reply) <= BufSize

\* Every byte sub_proc_lineinput and sub_devmgr_socket write for a line
\* (header, the NUL of line 230, the frame memcpy, stpncpy, the error
\* reply) lies inside protocol_buf, for every type and frame the daemon
\* and the user may send.
WritesInBounds ==
    \A i \in DOMAIN writes : 0 <= writes[i].lo /\ writes[i].hi < BufSize

\* Spec 4.4: a frame the command succeeds with is the payload cut to
\* copyLen = min(len, capacity - 1), and the reply written to the
\* terminal carries exactly those bytes of it.
FrameReplyPerSpec ==
    (status = "check" /\ dev.out = "frame" /\ dev.dstmax >= 1) =>
        LET copyLen == Min({dev.flen, dev.dstmax - 1})
        IN  /\ dev.result = copyLen
            /\ Cardinality({o \in DOMAIN reply : reply[o] = "F"}) = copyLen
=============================================================================
