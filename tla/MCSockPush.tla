------------------------------ MODULE MCSockPush ------------------------------
(* Model-checking instance of SockPush: the library used by any sequence of *)
(* calls from the client threads of the configuration.                      *)
EXTENDS SockPush, TLC

\* Thread symmetry for the safety runs (the properties name no thread).
ThreadSymmetry == Permutations(Threads)

\* The refinement mapping onto Mailbox.  The slot's lines are the ghost
\* history; a reader's remembered id is last_read, except that a handle
\* created before sp_iothread set read_id = 1 (line 572) holds 0, which
\* the first receive moves to 1 without copying anything.
Abs == INSTANCE Mailbox
         WITH Lines <- 1..MaxLines,
              published <- hist,
              pos <- [t \in Threads |-> IF last_read[t] = 0 THEN 1
                                                           ELSE last_read[t]],
              got <- got

\* The library implements the one-slot mailbox: every sp_read either copies
\* nothing or copies, whole, the newest line with an id newer than the one
\* the handle last observed, and create and purge resynchronise the handle
\* to the current id (spec 4.3, 4.4, 5).
MailboxRefinement == Abs!Spec
=============================================================================
