---------------------------- MODULE LineAssembly ----------------------------
(***************************************************************************)
(* The byte loop of sp_iothread (src/main/sockpush.c lines 586-609), which *)
(* SockPush abstracts to one step per line: read() one byte at a time into *)
(* the 1024-byte readbuf, wrapping the cursor to the start when it reaches *)
(* the end, until a newline or NUL; then replace the terminator by NUL,    *)
(* set read_size to the cursor offset and copy that many bytes into the    *)
(* shared line buffer.  readbuf is a local array that keeps the bytes of   *)
(* earlier lines, so the stale bytes are part of the state.                *)
(***************************************************************************)
EXTENDS Naturals, Sequences, SequencesExt

CONSTANTS
    N,            \* sizeof(readbuf) (1024 in the code)
    Bytes,        \* ordinary bytes the daemon may send
    NUL,          \* the 0 byte written over the terminator
    Stale,        \* a byte of readbuf not written since the thread started
    MaxLen        \* bound: bytes in a line before its terminator

VARIABLES
    readbuf,      \* readbuf[0..N-1]
    cursor,       \* offset of cursor in readbuf
    read_size,    \* sp->read_size
    linebuf,      \* the bytes copied to sp->read_buf, as a sequence
    phase,        \* "reading" a line or "published" it
    line          \* ghost: the bytes of the current line, terminator excluded

vars == <<readbuf, cursor, read_size, linebuf, phase, line>>

Init ==
    /\ readbuf = [i \in 0..N-1 |-> Stale]
    /\ cursor = 0
    /\ read_size = 0
    /\ linebuf = <<>>
    /\ phase = "reading"
    /\ line = <<>>

\* Bug variant: the cursor wraps one byte late (> instead of >=); the byte
\* written at readbuf[N] lands outside readbuf.
ReadByteWrapLate ==
    /\ phase = "reading"
    /\ Len(line) < MaxLen
    /\ \E b \in Bytes :
         /\ readbuf' = IF cursor < N THEN [readbuf EXCEPT ![cursor] = b]
                                     ELSE readbuf
         /\ line' = Append(line, b)
    /\ cursor' = IF cursor + 1 > N THEN 0 ELSE cursor + 1
    /\ UNCHANGED <<read_size, linebuf, phase>>

\* Lines 593-602: read() an ordinary byte at the cursor, advance, wrap.
ReadByte ==
    /\ phase = "reading"
    /\ Len(line) < MaxLen
    /\ \E b \in Bytes :
         /\ readbuf' = [readbuf EXCEPT ![cursor] = b]
         /\ line' = Append(line, b)
    /\ cursor' = IF cursor + 1 >= N THEN 0 ELSE cursor + 1
    /\ UNCHANGED <<read_size, linebuf, phase>>

\* Lines 596-598, 606-609: a terminator ('\n' or 0) ends the line:
\* *cursor++ = 0 overwrites it,
\* read_size = cursor - readbuf, memcpy into the shared buffer.
ReadTerminator ==
    /\ phase = "reading"
    /\ readbuf' = [readbuf EXCEPT ![cursor] = NUL]
    /\ cursor' = cursor + 1
    /\ read_size' = cursor + 1
    /\ linebuf' = [i \in 1..(cursor + 1) |-> readbuf'[i - 1]]
    /\ phase' = "published"
    /\ UNCHANGED line

\* Bug variant: the cursor is not reset for the next line.
NextLineNoReset ==
    /\ phase = "published"
    /\ line' = <<>>
    /\ phase' = "reading"
    /\ UNCHANGED <<readbuf, cursor, read_size, linebuf>>

\* Lines 586-591: after the fan-out, start the next line at the start of
\* readbuf; the bytes of the previous line stay in it.
NextLine ==
    /\ phase = "published"
    /\ cursor' = 0
    /\ line' = <<>>
    /\ phase' = "reading"
    /\ UNCHANGED <<readbuf, read_size, linebuf>>

Next == ReadByte \/ ReadTerminator \/ NextLine

Spec == Init /\ [][Next]_vars

-----------------------------------------------------------------------------
\* The wraparound policy of spec 4.2: of a line of L bytes only the bytes
\* written since the last wrap survive, i.e. its last L % N bytes.
Survivors(l) == SubSeq(l, Len(l) - (Len(l) % N) + 1, Len(l))

TypeOK ==
    /\ readbuf \in [0..N-1 -> Bytes \cup {NUL, Stale}]
    /\ cursor \in 0..N
    /\ phase = "reading" => cursor < N
    /\ read_size \in 0..N
    /\ phase \in {"reading", "published"}

\* The copy into sp->read_buf (a 1024-byte linebuf) never runs past it,
\* and what is published is exactly the surviving bytes and a NUL: no
\* stale byte of an earlier line leaks into a published line, and a line
\* shorter than the buffer arrives whole (spec 8: "AB12" stays "AB12").
PublishedPerPolicy ==
    phase = "published" =>
        /\ read_size <= N
        /\ linebuf = Survivors(line) \o <<NUL>>
=============================================================================
