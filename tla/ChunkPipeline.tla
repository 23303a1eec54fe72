---------------------------- MODULE ChunkPipeline ----------------------------
(***************************************************************************)
(* What the imports promise of the chunks of a file, although their slots  *)
(* wait nested in each other: a chunk that was taken from the file waits,  *)
(* is worked on by jobs, and is settled with the insert of its buffers; it *)
(* may have to wait before that too.  Chunks leave the jobs in the order   *)
(* in which they came to them, and the buffers of one chunk are inserted   *)
(* at a time.                                                              *)
(***************************************************************************)
EXTENDS Naturals, Sequences

CONSTANTS
    Dbos,      \* database objects
    OneAtWork  \* is one chunk worked on at a time?

VARIABLES
    taken,    \* number of chunks taken from the file
    waiting,  \* chunks that wait for the jobs
    working,  \* chunks worked on, in the order in which they came
    mapped,   \* chunks that wait for inserts to end
    settled,  \* chunks dealt with
    busy,     \* objects with an insert
    failed    \* an assertion failed

pipeVars == <<taken, waiting, working, mapped, settled, busy, failed>>

Init ==
    /\ taken = 0
    /\ waiting = {} /\ working = <<>> /\ mapped = {} /\ settled = {}
    /\ busy = {}
    /\ failed = FALSE

Take ==
    /\ taken' = taken + 1
    /\ waiting' = waiting \cup {taken + 1}
    /\ UNCHANGED <<working, mapped, settled, busy, failed>>

Start(c) ==
    /\ c \in waiting
    /\ OneAtWork => working = <<>>
    /\ waiting' = waiting \ {c}
    /\ working' = Append(working, c)
    /\ UNCHANGED <<taken, mapped, settled, busy, failed>>

\* With the insert of its buffers, if there is something to insert.
Settled(c) ==
    /\ settled' = settled \cup {c}
    /\ \/ busy' = busy
       \/ busy = {} /\ busy' \in SUBSET Dbos

Leave ==
    /\ working # <<>>
    /\ working' = Tail(working)
    /\ \/ mapped' = mapped \cup {Head(working)} /\ UNCHANGED <<settled, busy>>
       \/ Settled(Head(working)) /\ UNCHANGED mapped
    /\ UNCHANGED <<taken, waiting, failed>>

GoOn(c) ==
    /\ c \in mapped
    /\ mapped' = mapped \ {c}
    /\ Settled(c)
    /\ UNCHANGED <<taken, waiting, working, failed>>

InsertEnds(d) ==
    /\ d \in busy
    /\ busy' = busy \ {d}
    /\ UNCHANGED <<taken, waiting, working, mapped, settled, failed>>

\* What the slot that failed had in its hand is lost.
Fail ==
    /\ failed' = TRUE
    /\ \/ UNCHANGED <<working, mapped>>
       \/ working # <<>> /\ working' = Tail(working) /\ UNCHANGED mapped
       \/ \E c \in mapped : mapped' = mapped \ {c} /\ UNCHANGED working
    /\ UNCHANGED <<taken, waiting, settled, busy>>

Next ==
    /\ ~failed
    /\ \/ Take \/ Leave \/ Fail
       \/ \E c \in waiting : Start(c)
       \/ \E c \in mapped : GoOn(c)
       \/ \E d \in busy : InsertEnds(d)

Spec == Init /\ [][Next]_pipeVars
=============================================================================
