------------------------------- MODULE Mailbox -------------------------------
(***************************************************************************)
(* What the socket transport promises a pull reader (spec 3, 4.3, 4.4, 5): *)
(* a single shared slot holding the newest line, each line numbered by a   *)
(* line-id that starts at 1 and grows by one per line.  A reader handle    *)
(* remembers the last id it observed; create and purge set it to the       *)
(* current id, and a receive either copies the whole newest line, if its   *)
(* id is newer than the remembered one, or copies nothing.  Lines a reader *)
(* was too slow for are skipped, never replayed.                           *)
(***************************************************************************)
EXTENDS Naturals, Sequences

CONSTANTS
    Threads,     \* reader handles, one per thread
    Lines,       \* the lines the daemon may send
    NoLine       \* a receive that copied nothing

VARIABLES
    published,   \* every line published so far, in order
    pos,         \* pos[t]: the last id reader t observed
    got          \* got[t]: [id, line] copied by t's last receive, or NoLine

vars == <<published, pos, got>>

\* The id of the line in the slot.
Current == Len(published) + 1

Init ==
    /\ published = <<>>
    /\ pos = [t \in Threads |-> Current]
    /\ got = [t \in Threads |-> NoLine]

Publish ==
    /\ \E l \in Lines : published' = Append(published, l)
    /\ UNCHANGED <<pos, got>>

\* create or purge: start from the current id.
Sync(t) ==
    /\ pos' = [pos EXCEPT ![t] = Current]
    /\ UNCHANGED <<published, got>>

\* A receive that copies the newest line, which the reader has not seen.
Receive(t) ==
    /\ pos[t] < Current
    /\ got' = [got EXCEPT ![t] = [id |-> Current,
                                  line |-> published[Current - 1]]]
    /\ pos' = [pos EXCEPT ![t] = Current]
    /\ UNCHANGED published

\* A receive that times out or finds nothing new.
Miss(t) ==
    /\ got' = [got EXCEPT ![t] = NoLine]
    /\ UNCHANGED <<published, pos>>

Next ==
    \/ Publish
    \/ \E t \in Threads : Sync(t) \/ Receive(t) \/ Miss(t)

Spec == Init /\ [][Next]_vars
=============================================================================
