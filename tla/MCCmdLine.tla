------------------------------ MODULE MCCmdLine ------------------------------
(* Inputs of CmdLine, and its negative constants, which a .cfg cannot write. *)
EXTENDS CmdLine

MCErrRcs == {-4, -257}
MCGarbage == {0, -1}

\* Single arguments with blanks, a '\n' or '\r' inside or at either end,
\* and two arguments.
MCArgVecs ==
    {<<w>> : w \in {<<"c">>, <<" ", "c">>, <<"\n">>, <<"c", "\n">>,
                    <<"c", "\r", "c">>, <<"c", "\r", "\n", "c">>}}
    \cup {<<<<"c">>, <<"c">>>>}

\* Empty input, a read error, a leading 0 byte, a blank line, a six-byte
\* line that sub_readline cuts at ReadMax = 5, and lines with '\r' and
\* blanks before their '\n'.
MCStdinData ==
    {[bytes |-> <<>>, end |-> 0], [bytes |-> <<"c">>, end |-> -1],
     [bytes |-> <<"NUL", "c">>, end |-> 0], [bytes |-> <<"\n">>, end |-> 0],
     [bytes |-> <<"c", "c", "c", "c", "c", "c">>, end |-> 0],
     [bytes |-> <<" ", "c", "\r", "c", "\n", "c">>, end |-> 0]}
\* The byte after main's buffer is 0; or it is some other byte.
MCNoTail == {<<>>}
MCTails == {<<>>, <<"c">>}
=============================================================================
