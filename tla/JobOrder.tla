------------------------------ MODULE JobOrder ------------------------------
(***************************************************************************)
(* What the job manager promises to the code that adds jobs, without its   *)
(* threads (src/src/job/jobmanager.h, job.h): three lines of jobs.  A job  *)
(* of the blocking and of the database line does its work only when all    *)
(* jobs before it in the line are gone.  A job is reported and leaves its  *)
(* line at the front, finished or cancelled.                               *)
(***************************************************************************)
EXTENDS Naturals, Sequences

CONSTANTS Jobs, KindOf, None

Kinds == {"blocking", "nonBlocking", "db"}

VARIABLES
    line,       \* the jobs of each kind that have not been let go of
    due,        \* the job whose report was decided on and not made yet
    added,      \* all jobs ever added
    finished,   \* jobs whose work is done
    cancelled,  \* jobs set obsolete
    stopping,   \* shutdown() was called
    reports     \* how often each job's doneSignal was emitted

vars == <<line, due, added, finished, cancelled, stopping, reports>>

Init ==
    /\ line = [k \in Kinds |-> <<>>]
    /\ due = None
    /\ added = {}
    /\ finished = {}
    /\ cancelled = {}
    /\ stopping = FALSE
    /\ reports = [j \in Jobs |-> 0]

Add(j) ==
    /\ ~stopping
    /\ j \notin added
    /\ added' = added \cup {j}
    /\ line' = [line EXCEPT ![KindOf[j]] = Append(@, j)]
    /\ UNCHANGED <<due, finished, cancelled, stopping, reports>>

\* A cancelled job may still be at work after it left its line.
Finish(j) ==
    /\ j \in added
    /\ \/ KindOf[j] = "nonBlocking"
       \/ j \in cancelled
       \/ line[KindOf[j]] # <<>> /\ j = Head(line[KindOf[j]])
    /\ finished' = finished \cup {j}
    /\ UNCHANGED <<line, due, added, cancelled, stopping, reports>>

Cancel(set) ==
    /\ set \subseteq added
    /\ cancelled' = cancelled \cup set
    /\ UNCHANGED <<line, due, added, finished, stopping, reports>>

\* One report at a time is decided on, none once the manager is being stopped,
\* and the second one of a job only if it was cancelled.
Decide(k) ==
    LET j == Head(line[k]) IN
    /\ ~stopping
    /\ due = None
    /\ line[k] # <<>>
    /\ j \in finished \cup cancelled
    /\ reports[j] = 0 \/ (reports[j] = 1 /\ j \in cancelled)
    /\ due' = j
    /\ UNCHANGED <<line, added, finished, cancelled, stopping, reports>>

Report ==
    /\ due # None
    /\ reports' = [reports EXCEPT ![due] = @ + 1]
    /\ due' = None
    /\ UNCHANGED <<line, added, finished, cancelled, stopping>>

\* Unless the manager is being stopped, a job that left before it had finished
\* was reported twice, and any other at least once.
Leave(k) ==
    LET j == Head(line[k]) IN
    /\ line[k] # <<>>
    /\ j # due
    /\ j \in finished \cup cancelled
    /\ stopping \/ reports[j] = 2 \/ (reports[j] = 1 /\ j \in finished)
    /\ line' = [line EXCEPT ![k] = Tail(@)]
    /\ UNCHANGED <<due, added, finished, cancelled, stopping, reports>>

Stop ==
    /\ ~stopping
    /\ stopping' = TRUE
    /\ UNCHANGED <<line, due, added, finished, cancelled, reports>>

Next ==
    \/ \E j \in Jobs : Add(j) \/ Finish(j)
    \/ \E set \in SUBSET added : Cancel(set)
    \/ \E k \in Kinds : Decide(k) \/ Leave(k)
    \/ Report
    \/ Stop

Spec == Init /\ [][Next]_vars
=============================================================================
