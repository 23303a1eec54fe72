----------------------------- MODULE JobManager -----------------------------
(***************************************************************************)
(* The job manager of COMPASS (src/src/job): three queues (of blocking,    *)
(* non-blocking and database jobs), the manager thread that starts and     *)
(* flushes them, the Qt thread pool that runs them, and the main thread,   *)
(* which adds and cancels jobs and shuts the manager down.                 *)
(*                                                                         *)
(* The three threads share the queues and the jobs' flags without a lock,  *)
(* so every test and every use of a shared field is a step of its own.     *)
(***************************************************************************)
EXTENDS Naturals, Sequences, FiniteSets, Functions

CONSTANTS
    Jobs,          \* the jobs the program may create
    KindOf,        \* the queue each job is added to
    WaitsForMain,  \* jobs whose run() blocks until a slot of the main thread took their data
    Threads,       \* size of QThreadPool::globalInstance()
    None           \* the null shared_ptr

Kinds == {"blocking", "nonBlocking", "db"}

ASSUME JobsAssumption    == None \notin Jobs /\ WaitsForMain \subseteq Jobs
ASSUME KindAssumption    == KindOf \in [Jobs -> Kinds]
ASSUME ThreadsAssumption == Threads \in Nat \ {0}

VARIABLES
    queue,           \* blocking_jobs_, non_blocking_jobs_, queued_db_jobs_
    active,          \* active_blocking_job_, active_non_blocking_job_, active_db_job_
    taken,           \* the job try_pop has removed but not yet stored in active
    phase,           \* where the manager thread is in run()
    cur,             \* the queue run() is working on
    changed,         \* changed_
    stop_requested,  \* stop_requested_
    stopped,         \* stopped_
    database,        \* the last of databaseBusy / databaseIdle that was emitted
    poolQueue,       \* runnables waiting for a thread of the pool
    running,         \* jobs whose run() is executing
    started,         \* jobs with started_
    done,            \* jobs with done_
    obsolete,        \* jobs with obsolete_
    main,            \* where the main thread is
    reports,         \* history: how often each job's doneSignal was emitted
    calls            \* history: the jobs of each kind in the order of the add calls

managerVars == <<taken, phase, cur, changed, stopped>>
poolVars    == <<poolQueue, running, started, done>>
vars == <<queue, active, managerVars, stop_requested, database, poolVars,
          obsolete, main, reports, calls>>

Added == UNION {Range(calls[k]) : k \in Kinds}

\* Jobs the pool knows: their run() is executing or will be.
InPool == running \cup Range(poolQueue)

\* Jobs whose work is still to be done, or being done, and wanted.
AtWork == InPool \ (obsolete \cup done)

\* Jobs the manager keeps alive with a shared_ptr.
Held == {taken} \cup UNION {Range(queue[k]) \cup {active[k]} : k \in Kinds}

HasJobs(k) == active[k] # None \/ queue[k] # <<>>
HasAnyJobs == \E k \in Kinds : HasJobs(k)

Init ==
    /\ queue = [k \in Kinds |-> <<>>]
    /\ active = [k \in Kinds |-> None]
    /\ taken = None
    /\ phase = "top"
    /\ cur = "blocking"
    /\ changed = FALSE
    /\ stop_requested = FALSE
    /\ stopped = FALSE
    /\ database = "idle"
    /\ poolQueue = <<>>
    /\ running = {}
    /\ started = {}
    /\ done = {}
    /\ obsolete = {}
    /\ main = "events"
    /\ reports = [j \in Jobs |-> 0]
    /\ calls = [k \in Kinds |-> <<>>]

-----------------------------------------------------------------------------
(* The main thread: slots of the event loop, then shutdown().              *)

\* Seeded fault: the job is pushed at the wrong end of the queue.
AddInFront(j) ==
    LET k == KindOf[j] IN
    /\ main = "events"
    /\ j \notin Added
    /\ queue' = [queue EXCEPT ![k] = <<j>> \o @]
    /\ calls' = [calls EXCEPT ![k] = Append(@, j)]
    /\ poolQueue' = IF k = "nonBlocking" THEN Append(poolQueue, j) ELSE poolQueue
    /\ database' = IF k = "db" THEN "busy" ELSE database
    /\ UNCHANGED <<active, managerVars, stop_requested, running, started, done,
                   obsolete, main, reports>>

\* addBlockingJob, addNonBlockingJob, addDBJob: a job is handed over once.
Add(j) ==
    LET k == KindOf[j] IN
    /\ main = "events"
    /\ j \notin Added
    /\ queue' = [queue EXCEPT ![k] = Append(@, j)]
    /\ calls' = [calls EXCEPT ![k] = Append(@, j)]
    /\ poolQueue' = IF k = "nonBlocking" THEN Append(poolQueue, j) ELSE poolQueue
    /\ database' = IF k = "db" THEN "busy" ELSE database
    /\ UNCHANGED <<active, managerVars, stop_requested, running, started, done,
                   obsolete, main, reports>>

\* cancelJob, from DBObject::load and DBObject::quitLoading.
Cancel(j) ==
    /\ main = "events"
    /\ j \in Added \ WaitsForMain
    /\ KindOf[j] # "nonBlocking"
    /\ obsolete' = obsolete \cup {j}
    /\ UNCHANGED <<queue, active, managerVars, stop_requested, database, poolVars,
                   main, reports, calls>>

ShutdownRequest ==
    /\ main = "events"
    /\ stop_requested' = TRUE
    /\ main' = "testActiveDB"
    /\ UNCHANGED <<queue, active, managerVars, database, poolVars, obsolete,
                   reports, calls>>

\* The pointer is tested and then used: the manager thread may reset it between.
ShutdownTestActiveDB ==
    /\ main = "testActiveDB"
    /\ main' = IF active["db"] # None THEN "markActiveDB" ELSE "markdb"
    /\ UNCHANGED <<queue, active, managerVars, stop_requested, database, poolVars,
                   obsolete, reports, calls>>

ShutdownMarkActiveDB ==
    /\ main = "markActiveDB"
    /\ \/ /\ active["db"] # None
          /\ obsolete' = obsolete \cup {active["db"]}
          /\ main' = "markdb"
       \/ /\ active["db"] = None       \* a null pointer is dereferenced
          /\ main' = "crashed"
          /\ UNCHANGED obsolete
    /\ UNCHANGED <<queue, active, managerVars, stop_requested, database, poolVars,
                   reports, calls>>

\* The three loops over what is queued; neither of the other active jobs is marked.
ShutdownMarkQueue(k, from, to) ==
    /\ main = from
    /\ obsolete' = obsolete \cup Range(queue[k])
    /\ main' = to
    /\ UNCHANGED <<queue, active, managerVars, stop_requested, database, poolVars,
                   reports, calls>>

ShutdownMarkQueues ==
    \/ ShutdownMarkQueue("db", "markdb", "markblocking")
    \/ ShutdownMarkQueue("blocking", "markblocking", "marknonBlocking")
    \/ ShutdownMarkQueue("nonBlocking", "marknonBlocking", "waitJobs")

ShutdownWaitJobs ==
    /\ main = "waitJobs"
    /\ ~HasAnyJobs
    /\ main' = "waitStopped"
    /\ UNCHANGED <<queue, active, managerVars, stop_requested, database, poolVars,
                   obsolete, reports, calls>>

ShutdownWaitStopped ==
    /\ main = "waitStopped"
    /\ stopped
    /\ main' = "down"
    /\ UNCHANGED <<queue, active, managerVars, stop_requested, database, poolVars,
                   obsolete, reports, calls>>

Shutdown ==
    \/ ShutdownTestActiveDB \/ ShutdownMarkActiveDB \/ ShutdownMarkQueues
    \/ ShutdownWaitJobs \/ ShutdownWaitStopped

-----------------------------------------------------------------------------
(* The manager thread: one round of the loop of run() flushes and fills    *)
(* each queue in turn.                                                     *)

\* Seeded fault: the round runs past its last queue.
NextKindPastEnd == [blocking |-> "nonBlocking", nonBlocking |-> "db", db |-> "end"]

NextKind == [blocking |-> "nonBlocking", nonBlocking |-> "db", db |-> "db"]

\* The queue cur is dealt with: on to the next one, or to the end of the round.
LeaveQueue ==
    /\ phase' = IF cur = "db" THEN "idle" ELSE "flush"
    /\ cur' = NextKind[cur]

StartRound ==
    /\ phase = "top"
    /\ ~(stop_requested /\ ~HasAnyJobs)
    /\ phase' = "flush"
    /\ cur' = "blocking"
    /\ changed' = FALSE
    /\ UNCHANGED <<queue, active, taken, stop_requested, stopped, database, poolVars,
                   obsolete, main, reports, calls>>

\* Seeded fault: stopped_ is not set.
LeaveRunSilently ==
    /\ phase = "top"
    /\ stop_requested /\ ~HasAnyJobs
    /\ phase' = "ended"
    /\ UNCHANGED <<queue, active, taken, cur, changed, stopped, stop_requested, database,
                   poolVars, obsolete, main, reports, calls>>

LeaveRun ==
    /\ phase = "top"
    /\ stop_requested /\ ~HasAnyJobs
    /\ phase' = "ended"
    /\ stopped' = TRUE
    /\ UNCHANGED <<queue, active, taken, cur, changed, stop_requested, database,
                   poolVars, obsolete, main, reports, calls>>

\* Flushing the active job leaves all this alone.
flushUnchanged == <<queue, taken, cur, changed, stopped, stop_requested, database, poolVars,
                    obsolete, main, calls>>

\* Seeded fault: the job is let go of without a look at its flags.
FlushUnfinished ==
    /\ phase = "flush"
    /\ active[cur] # None
    /\ phase' = "testObsolete"
    /\ UNCHANGED <<flushUnchanged, active, reports>>

\* The active job is finished or cancelled: it is reported and let go of.
FlushTest ==
    /\ phase = "flush"
    /\ active[cur] # None
    /\ active[cur] \in obsolete \cup done
    /\ phase' = "testObsolete"
    /\ UNCHANGED <<flushUnchanged, active, reports>>

\* Seeded fault: a job that was not cancelled is reported through both calls as well.
FlushAllTwice ==
    /\ phase = "testObsolete"
    /\ phase' = IF ~stop_requested THEN "emitObsolete" ELSE "testDone"
    /\ UNCHANGED <<flushUnchanged, active, reports>>

\* shutdown() may set stop_requested_ between any two of these steps, and a
\* job may be cancelled that was found done.
FlushTestObsolete ==
    /\ phase = "testObsolete"
    /\ phase' = IF active[cur] \in obsolete /\ ~stop_requested THEN "emitObsolete"
                                                             ELSE "testDone"
    /\ UNCHANGED <<flushUnchanged, active, reports>>

FlushTestStop ==
    /\ phase = "testDone"
    /\ phase' = IF ~stop_requested THEN "emitDone" ELSE "letGo"
    /\ UNCHANGED <<flushUnchanged, active, reports>>

\* emitObsolete and emitDone both emit doneSignal.
FlushEmit(from, to) ==
    /\ phase = from
    /\ reports' = [reports EXCEPT ![active[cur]] = @ + 1]
    /\ phase' = to
    /\ UNCHANGED <<flushUnchanged, active>>

FlushLetGo ==
    /\ phase = "letGo"
    /\ active' = [active EXCEPT ![cur] = None]
    /\ phase' = "take"
    /\ UNCHANGED <<flushUnchanged, reports>>

Flush ==
    \/ FlushTest \/ FlushTestObsolete \/ FlushTestStop \/ FlushLetGo
    \/ FlushEmit("emitObsolete", "testDone") \/ FlushEmit("emitDone", "letGo")

\* The active job is still at work: nothing else of this queue is started.
KeepActive ==
    /\ phase = "flush"
    /\ active[cur] # None
    /\ active[cur] \notin obsolete \cup done
    /\ LeaveQueue
    /\ UNCHANGED <<queue, active, taken, changed, stopped, stop_requested, database,
                   poolVars, obsolete, main, reports, calls>>

\* Seeded fault: the next job is popped without a test that no other is active.
TakeAnyway ==
    /\ phase \in {"take", "flush"}
    /\ queue[cur] # <<>>
    /\ taken' = Head(queue[cur])
    /\ queue' = [queue EXCEPT ![cur] = Tail(@)]
    /\ phase' = "store"
    /\ UNCHANGED <<active, cur, changed, stopped, stop_requested, database, poolVars,
                   obsolete, main, reports, calls>>

\* try_pop removes the head of the queue ...
Take ==
    /\ phase = "take" \/ (phase = "flush" /\ active[cur] = None)
    /\ queue[cur] # <<>>
    /\ taken' = Head(queue[cur])
    /\ queue' = [queue EXCEPT ![cur] = Tail(@)]
    /\ phase' = "store"
    /\ UNCHANGED <<active, cur, changed, stopped, stop_requested, database, poolVars,
                   obsolete, main, reports, calls>>

NothingToTake ==
    /\ phase = "take" \/ (phase = "flush" /\ active[cur] = None)
    /\ queue[cur] = <<>>
    /\ LeaveQueue
    /\ UNCHANGED <<queue, active, taken, changed, stopped, stop_requested, database,
                   poolVars, obsolete, main, reports, calls>>

\* Seeded fault: the job becomes the active one but is not given to the pool.
StoreOnly ==
    /\ phase = "store"
    /\ active' = [active EXCEPT ![cur] = taken]
    /\ taken' = None
    /\ changed' = TRUE
    /\ \/ cur = "nonBlocking" /\ phase' = "flush" /\ UNCHANGED cur
       \/ cur # "nonBlocking" /\ LeaveQueue
    /\ UNCHANGED <<queue, stopped, stop_requested, database, poolVars, obsolete, main,
                   reports, calls>>

\* ... and assigns it; a non-blocking job is in the pool already and looked at again.
Store ==
    /\ phase = "store"
    /\ active' = [active EXCEPT ![cur] = taken]
    /\ taken' = None
    /\ changed' = TRUE
    /\ \/ cur = "nonBlocking" /\ phase' = "flush" /\ UNCHANGED <<cur, poolQueue>>
       \/ cur # "nonBlocking" /\ LeaveQueue /\ poolQueue' = Append(poolQueue, taken)
    /\ UNCHANGED <<queue, stopped, stop_requested, database, running, started, done,
                   obsolete, main, reports, calls>>

\* Seeded fault: the queue is looked at, but not the active job.
EndRoundQueueEmpty ==
    /\ phase = "idle"
    /\ phase' = IF ~stop_requested /\ changed /\ queue["db"] = <<>> THEN "emitIdle" ELSE "top"
    /\ UNCHANGED <<queue, active, taken, cur, changed, stopped, stop_requested, database,
                   poolVars, obsolete, main, reports, calls>>

EndRound ==
    /\ phase = "idle"
    /\ phase' = IF ~stop_requested /\ changed /\ ~HasJobs("db") THEN "emitIdle" ELSE "top"
    /\ UNCHANGED <<queue, active, taken, cur, changed, stopped, stop_requested, database,
                   poolVars, obsolete, main, reports, calls>>

\* A database job may have been added, and databaseBusy emitted, since the test.
EmitIdle ==
    /\ phase = "emitIdle"
    /\ phase' = "top"
    /\ database' = "idle"
    /\ UNCHANGED <<queue, active, taken, cur, changed, stopped, stop_requested, poolVars,
                   obsolete, main, reports, calls>>

Manager ==
    \/ StartRound \/ LeaveRun \/ Flush \/ KeepActive
    \/ Take \/ NothingToTake \/ Store \/ EndRound \/ EmitIdle

-----------------------------------------------------------------------------
(* The thread pool.                                                        *)

\* A free thread takes the next runnable; run() sets started_ first.
PoolStart ==
    /\ poolQueue # <<>>
    /\ Cardinality(running) < Threads
    /\ running' = running \cup {Head(poolQueue)}
    /\ started' = started \cup {Head(poolQueue)}
    /\ poolQueue' = Tail(poolQueue)
    /\ UNCHANGED <<queue, active, managerVars, stop_requested, database, done,
                   obsolete, main, reports, calls>>

\* run() sets done_; a decoding or reading job needs the main thread to get there.
RunDone(j) ==
    /\ j \in running \ done
    /\ j \in WaitsForMain => main = "events"
    /\ done' = done \cup {j}
    /\ UNCHANGED <<queue, active, managerVars, stop_requested, database, poolQueue, running,
                   started, obsolete, main, reports, calls>>

\* What run() still does after that it does beside the manager, which may let go of the job.
RunReturn(j) ==
    /\ j \in running \cap done
    /\ running' = running \ {j}
    /\ UNCHANGED <<queue, active, managerVars, stop_requested, database, poolQueue, started,
                   done, obsolete, main, reports, calls>>

Run(j) == RunDone(j) \/ RunReturn(j)

-----------------------------------------------------------------------------
\* A dereferenced null pointer ends the process.
Alive == main # "crashed"

Next ==
    /\ Alive
    /\ \/ \E j \in Jobs : Add(j) \/ Cancel(j) \/ Run(j)
       \/ ShutdownRequest
       \/ Shutdown
       \/ Manager
       \/ PoolStart

(* The manager thread loops with a sleep of 1 ms, a pool thread runs its   *)
(* job to the end, and shutdown() is a straight line of the main thread.   *)
Fairness ==
    /\ WF_vars(Alive /\ Manager)
    /\ WF_vars(Alive /\ PoolStart)
    /\ WF_vars(Alive /\ Shutdown)
    /\ \A j \in Jobs : WF_vars(Alive /\ Run(j))

Spec == Init /\ [][Next]_vars
FairSpec == Spec /\ Fairness

-----------------------------------------------------------------------------
TypeOK ==
    /\ queue \in [Kinds -> Seq(Jobs)]
    /\ active \in [Kinds -> Jobs \cup {None}]
    /\ taken \in IF phase = "store" THEN Jobs ELSE {None}
    /\ phase \in {"top", "flush", "testObsolete", "emitObsolete", "testDone", "emitDone", "letGo",
                  "take", "store", "idle", "emitIdle", "ended"}
    /\ cur \in Kinds
    /\ changed \in BOOLEAN
    /\ stop_requested \in BOOLEAN
    /\ stopped \in BOOLEAN
    /\ database \in {"busy", "idle"}
    /\ poolQueue \in Seq(Jobs)
    /\ running \subseteq Jobs
    /\ started \subseteq Jobs
    /\ done \subseteq Jobs
    /\ obsolete \subseteq Jobs
    /\ main \in {"events", "testActiveDB", "markActiveDB", "markdb", "markblocking",
                 "marknonBlocking", "waitJobs", "waitStopped", "down", "crashed"}
    /\ reports \in [Jobs -> Nat]
    /\ calls \in [Kinds -> Seq(Jobs)]

(* jobmanager.h: "all job's done signal order is maintained in the call    *)
(* order": once a job of a queue is reported, all jobs added to this queue *)
(* before it are reported, also when jobs finish out of order in the pool, *)
(* are cancelled or the manager is being stopped.                          *)
DoneOrder ==
    \A k \in Kinds : \A i, m \in DOMAIN calls[k] :
        i < m /\ reports[calls[k][m]] > 0 => reports[calls[k][i]] > 0

(* jobmanager.h: a blocking job "blocks started of later ones" and "only   *)
(* one db job can be active", as far as it is true: of the jobs in the pool*)
(* that were not cancelled and have not set done_, at most one is a        *)
(* blocking job and one a database job.                                    *)
OneLiveJobPerQueue ==
    \A k \in {"blocking", "db"} : \A i, j \in AtWork :
        KindOf[i] = k /\ KindOf[j] = k => i = j

(* Jobs have setAutoDelete(false): the pool holds a raw pointer.  Until a  *)
(* job was cancelled or has set done_, the manager owns it while the pool  *)
(* has it, so it cannot be destroyed under its run().  What run() does     *)
(* after done_ is not covered: JSONMappingJob still writes its members.    *)
PoolJobsAreHeld == AtWork \subseteq Held

(* A job that nobody cancels is reported only after run() is over, and     *)
(* exactly once; nothing is reported that was neither done nor cancelled.  *)
ReportedOnce ==
    \A j \in Jobs : reports[j] > 0 => \/ j \in done /\ reports[j] = 1
                                      \/ j \in obsolete /\ reports[j] <= 2

(* When shutdown() is over, its assertions hold (nothing queued, nothing   *)
(* active), and every job that was ever added has finished or is cancelled:*)
(* no live job is left to use the database COMPASS::shutdown closes next.  *)
ShutdownSettlesAll ==
    main = "down" => /\ ~HasAnyJobs
                     /\ Added \subseteq done \cup obsolete

(* databaseIdle, on which "Add View" is enabled again, is emitted only     *)
(* while no database job is at work; what the test before it can miss is a *)
(* job that waits in the queue, added since, or one that was cancelled.    *)
IdleWhenNoneAtWork ==
    phase = "emitIdle" => \A j \in AtWork : KindOf[j] # "db"

(* The three threads together keep the promise of JobOrder: every step of  *)
(* theirs is one of its steps, or changes nothing that its users see.      *)
Line(k) == (IF active[k] # None THEN <<active[k]>> ELSE <<>>)
           \o (IF taken # None /\ cur = k THEN <<taken>> ELSE <<>>)
           \o queue[k]

Due == IF phase \in {"emitObsolete", "emitDone"} THEN active[cur] ELSE None

Order == INSTANCE JobOrder WITH
            line      <- [k \in Kinds |-> Line(k)],
            due       <- Due,
            added     <- Added,
            finished  <- done,
            cancelled <- obsolete,
            stopping  <- stop_requested

KeepsJobOrder == Order!Spec

(* Every job is reported, unless the manager is stopped first: no job is   *)
(* lost between the queue and the pool and none waits forever.             *)
EveryJobReported ==
    \A j \in Jobs : j \in Added ~> (reports[j] > 0 \/ stop_requested)

(* shutdown() ends, or dereferences a null pointer in its race with the    *)
(* manager thread, unless it is called while a decoding or reading job is  *)
(* under way: that job waits for the main thread, which waits for it.      *)
ShutdownEnds ==
    (main = "testActiveDB" /\ Added \cap WaitsForMain \subseteq done)
        ~> main \in {"down", "crashed"}

-----------------------------------------------------------------------------
(* What the theorems rest on: each job is in one place of the manager.     *)

(* A queue holds no job twice, and a job that was popped is gone from it:  *)
(* it is in flight or the active one, never both.                          *)
HeldOnce ==
    /\ \A k \in Kinds :
         /\ IsInjective(queue[k])
         /\ \A j \in Range(queue[k]) : KindOf[j] = k /\ j \in Added
         /\ active[k] # None => /\ KindOf[active[k]] = k /\ active[k] \in Added
                                /\ active[k] \notin Range(queue[k])
    /\ taken # None => /\ KindOf[taken] = cur /\ taken \in Added
                       /\ taken \notin Range(queue[cur])
    /\ phase \in {"take", "store"} => active[cur] = None

(* A job enters the pool once: it waits for a thread, runs or has returned.*)
(* A blocking or database job is there only after it was popped, and while *)
(* it is at work it is the active one.                                     *)
PoolOnce ==
    /\ IsInjective(poolQueue)
    /\ Range(poolQueue) \cap (running \cup done) = {}
    /\ InPool \cup done \subseteq Added
    /\ \A k \in {"blocking", "db"} : Range(queue[k]) \cap (InPool \cup done) = {}
    /\ taken # None /\ cur # "nonBlocking" => taken \notin InPool \cup done
    /\ \A j \in AtWork :
         IF KindOf[j] = "nonBlocking"
         THEN j \in Range(queue["nonBlocking"]) \cup {active["nonBlocking"], taken}
         ELSE j = active[KindOf[j]]

Flushing == {"testObsolete", "emitObsolete", "testDone", "emitDone", "letGo"}

(* No job the manager holds is reported, but the one it is flushing, and   *)
(* none that was never added.                                              *)
HeldUnreported ==
    /\ \A k \in Kinds : \A j \in Range(queue[k]) \cup {taken} : j # None => reports[j] = 0
    /\ \A k \in Kinds : active[k] # None /\ ~(k = cur /\ phase \in Flushing)
                         => reports[active[k]] = 0
    /\ \A j \in Jobs \ Added : reports[j] = 0

(* What the manager thread knows of the job it is flushing, whatever the   *)
(* main thread has changed since its tests: a report made or still to come *)
(* was decided on before shutdown(), so all before it in the queue were    *)
(* reported.                                                               *)
FlushKnows ==
    LET j == active[cur] IN
    phase \in Flushing =>
        /\ j # None /\ j \in obsolete \cup done
        /\ phase \in {"testObsolete", "emitObsolete"} => reports[j] = 0
        /\ phase = "emitObsolete" => j \in obsolete
        /\ phase \in {"testDone", "emitDone"} =>
              \/ reports[j] = 0 /\ (stop_requested \/ j \in done)
              \/ reports[j] = 1 /\ j \in obsolete
        /\ phase = "letGo" => \/ stop_requested /\ reports[j] <= 1
                              \/ reports[j] = 1 /\ j \in done
                              \/ reports[j] = 2 /\ j \in obsolete
        /\ phase \in {"emitObsolete", "emitDone"} =>
              \A i \in 1 .. Len(calls[cur]) - Len(queue[cur]) - 1 : reports[calls[cur][i]] > 0

(* The manager lets go of finished and cancelled jobs only, and its thread *)
(* ends only after it let go of all of them.                               *)
LetGoWhenFinished ==
    /\ Added \subseteq Held \cup done \cup obsolete
    /\ main = "events" <=> ~stop_requested
    /\ stopped => phase = "ended"
    /\ phase = "ended" => stop_requested /\ ~HasAnyJobs
    /\ main = "down" => stopped

(* The jobs of a queue are, in the order they were added: those let go of  *)
(* (reported, unless the manager is being stopped), the one popped, and    *)
(* those still in the queue.                                               *)
Popped(k) == IF active[k] # None THEN {active[k]}
             ELSE IF cur = k THEN {taken} \ {None} ELSE {}

Position(k) == Len(calls[k]) - Len(queue[k])

SuffixOf(k) ==
    /\ IsInjective(calls[k]) /\ \A j \in Range(calls[k]) : KindOf[j] = k
    /\ Position(k) \in Nat
    /\ \A i \in DOMAIN queue[k] : queue[k][i] = calls[k][Position(k) + i]
    /\ \A j \in Popped(k) : Position(k) > 0 /\ j = calls[k][Position(k)]
    /\ \A i \in 1 .. Position(k) : \/ calls[k][i] \in Popped(k)
                                   \/ reports[calls[k][i]] > 0
                                   \/ stop_requested

QueueIsSuffix == \A k \in Kinds : SuffixOf(k)
=============================================================================
