----------------------------- MODULE MCLineInput -----------------------------
(* Negative constants of LineInput, which a .cfg cannot write. *)
EXTENDS LineInput

\* -4: retry/timeout; -257: a daemon error 1 (rc = -256 - |err|).
MCErrRcs == {-4, -257}

\* An uninitialized cmdrc holding a value of the previous command (0) or a
\* negative leftover.
MCGarbage == {0, -1}
=============================================================================
