---------------------------- MODULE DBObjectLoad ----------------------------
(***************************************************************************)
(* Loading of database objects (src/src/object/dbobject.cpp,               *)
(* dbobjectmanager.cpp, dbobjectmanagerloadwidget.cpp): per object a read  *)
(* job of the database line reads chunk after chunk, each chunk is worked  *)
(* on by a finalize job of the blocking line, and the slots of the main    *)
(* thread put the chunks together.  The job manager is JobOrder, which     *)
(* JobManager is shown to implement.                                       *)
(*                                                                         *)
(* Signals of jobs reach the main thread through its event queue, so every *)
(* slot runs some time after what it is told of.                           *)
(***************************************************************************)
EXTENDS Naturals, Sequences, FiniteSets, Functions

CONSTANTS
    NumObjects, \* how many database objects there are
    Chunks,     \* how many chunks the table of each object has
    MaxLoads,   \* bound: calls of loadSlot
    MaxStops,   \* bound: uses of the Stop button
    Results,    \* when evaluation results start loads: "never", "idle" or "always"
    None        \* the null shared_ptr

\* The database objects, in the order of objects_.
Objects == 1 .. NumObjects

ASSUME ObjectsAssumption == NumObjects \in Nat
ASSUME ChunksAssumption  == Chunks \in [Objects -> Nat \ {0}]
ASSUME BoundsAssumption  == MaxLoads \in Nat /\ MaxStops \in Nat
                            /\ Results \in {"never", "idle", "always"}

\* A read job has chunk 0; the others finalize one chunk of it.
ReadJobs     == [obj : Objects, load : 1 .. MaxLoads, chunk : {0}]
FinalizeJobs == {j \in [obj : Objects, load : 1 .. MaxLoads,
                        chunk : UNION {1 .. Chunks[o] : o \in Objects}] :
                    j.chunk <= Chunks[j.obj]}
Jobs         == ReadJobs \cup FinalizeJobs
KindOf       == [j \in Jobs |-> IF j.chunk = 0 THEN "db" ELSE "blocking"]

ASSUME NoneAssumption == None \notin Jobs

VARIABLES
    line, due, added, finished, cancelled, stopping, reports,  \* the job manager, see JobOrder
    emitted,           \* jobs of which a done signal was emitted
    step,              \* where run() of each read job is
    row_count,         \* row_count_ of each read job, in chunks
    mutex,             \* the job that holds connection_mutex_
    prepared_command,  \* the job whose command is prepared on the connection
    events,            \* events posted to the main thread
    read_job,          \* read_job_ of each object
    finalize_jobs,     \* finalize_jobs_ of each object
    data,              \* data_ of each object: the finalized chunks
    announced,         \* size of data_ at the last newDataSignal
    waiting,           \* calls of loadSlot (nested) that wait for database jobs
    loads,             \* history: loads started
    stops,             \* history: uses of the Stop button
    load_in_progress,  \* load_in_progress_
    button,            \* the load button: "Load", "Stop" or "disabled"
    cursor,            \* depth of the override cursors
    finishes,          \* history: calls of finishLoading
    aborted            \* the assertion or error that ended the process, or "no"

managerVars == <<line, due, added, finished, cancelled, stopping, reports>>
readerVars  == <<step, row_count, mutex, prepared_command>>
objectVars  == <<read_job, finalize_jobs, data, announced>>
frontVars   == <<load_in_progress, button, cursor, finishes>>
userVars    == <<waiting, loads, stops>>
vars == <<managerVars, emitted, readerVars, events, objectVars, frontVars, userVars, aborted>>

Manager == INSTANCE JobOrder

Init ==
    /\ Manager!Init
    /\ emitted = {}
    /\ step = [j \in ReadJobs |-> "new"]
    /\ row_count = [j \in ReadJobs |-> 0]
    /\ mutex = None
    /\ prepared_command = None
    /\ events = <<>>
    /\ read_job = [o \in Objects |-> None]
    /\ finalize_jobs = [o \in Objects |-> {}]
    /\ data = [o \in Objects |-> <<>>]
    /\ announced = [o \in Objects |-> 0]
    /\ waiting = 0
    /\ loads = 0
    /\ stops = 0
    /\ load_in_progress = FALSE
    /\ button = "Load"
    /\ cursor = 0
    /\ finishes = 0
    /\ aborted = "no"

InLine(j) == j \in Range(line[KindOf[j]])

\* The last shared_ptr is gone: neither the manager nor the object has one.
Destroyed(j) ==
    /\ j \in added
    /\ ~InLine(j)
    /\ j # read_job[j.obj]
    /\ j \notin finalize_jobs[j.obj]

\* DBObject::isLoading
Loading(o) == read_job[o] # None \/ finalize_jobs[o] # {}

\* Seeded fault: the finalize jobs are not looked at.
StillReading(o) == read_job'[o] # None

\* The same at the end of a step.
StillLoading(o) == read_job'[o] # None \/ finalize_jobs'[o] # {}

-----------------------------------------------------------------------------
(* The manager thread: it emits the signals of the job at the front of a   *)
(* line, one at a time, then lets go of the job.                           *)

Event(name, job, chunk) == [what |-> name, job |-> job, chunk |-> chunk]

Done(j) == Event("done", j, 0)

\* Seeded fault: a cancelled job is not reported.
PostUnlessCancelled(j) == events' = IF j \in cancelled THEN events ELSE Append(events, Done(j))

\* emitObsolete and emitDone both emit doneSignal.
Post(j) == events' = Append(events, Done(j))

\* A finished job was found not to be cancelled, which it may be before its signal.
Decide(k) ==
    /\ Manager!Decide(k)
    /\ Head(line[k]) \notin cancelled \cup emitted
    /\ UNCHANGED <<emitted, readerVars, events, objectVars, frontVars, userVars, aborted>>

\* The first of two signals of the job at the front.
EmitFirst(k) ==
    LET j == Head(line[k]) IN
    /\ due = None
    /\ line[k] # <<>>
    /\ j \notin emitted
    /\ reports' = [reports EXCEPT ![j] = @ + 1]
    /\ due' = j
    /\ emitted' = emitted \cup {j}
    /\ Post(j)
    /\ UNCHANGED <<line, added, finished, cancelled, stopping, readerVars, objectVars,
                   frontVars, userVars, aborted>>

\* Seeded fault: a job that was not cancelled is reported through both calls as well.
EmitObsoleteAlways(k) == EmitFirst(k) /\ Head(line[k]) \in finished \cup cancelled

\* A cancelled job has a signal from emitObsolete and one more from emitDone.
EmitObsolete(k) == EmitFirst(k) /\ Head(line[k]) \in cancelled

EmitDone(k) ==
    /\ line[k] # <<>>
    /\ due = Head(line[k])
    /\ Manager!Report
    /\ emitted' = emitted \cup {due}
    /\ Post(due)
    /\ UNCHANGED <<readerVars, objectVars, frontVars, userVars, aborted>>

Emit(k) == EmitObsolete(k) \/ EmitDone(k)

LetGo(k) ==
    /\ due = None
    /\ line[k] # <<>> /\ Head(line[k]) \in emitted
    /\ Manager!Leave(k)
    /\ UNCHANGED <<emitted, readerVars, events, objectVars, frontVars, userVars, aborted>>

Manage(k) == Decide(k) \/ Emit(k) \/ LetGo(k)

-----------------------------------------------------------------------------
(* The pool: run() of a read job and of a finalize job.                    *)

\* The pool has a job once the manager took it from its queue.
Started(j) == j \in added /\ (InLine(j) => j = Head(line[KindOf[j]]))

To(j, next) == step[j] = next[1] /\ step' = [step EXCEPT ![j] = next[2]]

ReadObsolete(j) ==
    /\ Started(j)
    /\ j \in cancelled
    /\ To(j, <<"new", "over">>)
    /\ Manager!Finish(j)
    /\ UNCHANGED <<emitted, row_count, mutex, prepared_command, events, objectVars,
                   frontVars, userVars, aborted>>

ReadStart(j) ==
    /\ Started(j)
    /\ j \notin cancelled
    /\ To(j, <<"new", "prepare">>)
    /\ UNCHANGED <<managerVars, emitted, row_count, mutex, prepared_command, events,
                   objectVars, frontVars, userVars, aborted>>

\* prepareRead locks and leaves the mutex locked.
ReadPrepare(j) ==
    /\ mutex = None
    /\ mutex' = j
    /\ IF prepared_command = None
       THEN prepared_command' = j /\ UNCHANGED aborted
       ELSE aborted' = "prepared_command_ == 0" /\ UNCHANGED prepared_command
    /\ To(j, <<"prepare", "read">>)
    /\ UNCHANGED <<managerVars, emitted, row_count, events, objectVars, frontVars, userVars>>

\* obsolete_ is looked at after each chunk.
ReadChunk(j) ==
    /\ To(j, <<"read", IF j \in cancelled THEN "unlock" ELSE "emit">>)
    /\ UNCHANGED <<managerVars, emitted, row_count, mutex, prepared_command, events,
                   objectVars, frontVars, userVars, aborted>>

\* The signal of a destroyed job is connected to nothing any more.
ReadEmit(j) ==
    LET n == row_count[j] + 1 IN
    /\ To(j, <<"emit", IF n = Chunks[j.obj] THEN "unlock" ELSE "read">>)
    /\ row_count' = [row_count EXCEPT ![j] = n]
    /\ events' = IF Destroyed(j) THEN events ELSE Append(events, Event("buffer", j, n))
    /\ UNCHANGED <<managerVars, emitted, mutex, prepared_command, objectVars, frontVars,
                   userVars, aborted>>

\* finalizeReadStatement unlocks the mutex before it finalizes the command.
ReadUnlock(j) ==
    /\ To(j, <<"unlock", "finalize">>)
    /\ mutex' = None
    /\ UNCHANGED <<managerVars, emitted, row_count, prepared_command, events, objectVars,
                   frontVars, userVars, aborted>>

ReadEnd(j) ==
    /\ To(j, <<"finalize", "over">>)
    /\ prepared_command' = None
    /\ Manager!Finish(j)
    /\ UNCHANGED <<emitted, row_count, mutex, events, objectVars, frontVars, userVars, aborted>>

\* run() uses members of a job that was destroyed: it may go on, or end the process.
RunDestroyed(j) ==
    /\ Destroyed(j) /\ j \notin finished
    /\ aborted' = "destroyed"
    /\ UNCHANGED <<managerVars, emitted, readerVars, events, objectVars, frontVars, userVars>>

Read(j) ==
    \/ ReadObsolete(j) \/ ReadStart(j) \/ ReadPrepare(j) \/ ReadChunk(j)
    \/ ReadEmit(j) \/ ReadUnlock(j) \/ ReadEnd(j)

Finalize(j) ==
    /\ Started(j)
    /\ j \notin finished
    /\ Manager!Finish(j)
    /\ UNCHANGED <<emitted, readerVars, events, objectVars, frontVars, userVars, aborted>>

-----------------------------------------------------------------------------
(* The main thread: DBObjectManager.                                       *)

\* The cursor stack of Qt ignores a restore too many.
FinishLoading ==
    /\ load_in_progress' = FALSE
    /\ button' = "Load"
    /\ cursor' = IF cursor = 0 THEN 0 ELSE cursor - 1
    /\ finishes' = finishes + 1

\* Seeded fault: only the object that calls is looked at.
LoadingDoneForOne == FinishLoading

\* Seeded fault: the objects are looked at before the job is erased.
LoadingDoneTooEarly ==
    IF \E o \in Objects : Loading(o) THEN UNCHANGED frontVars ELSE FinishLoading

\* loadingDoneSlot, called with the new state of the objects.
LoadingDone ==
    IF \E o \in Objects : StillLoading(o) THEN UNCHANGED frontVars ELSE FinishLoading

\* isOtherDBObjectPostProcessing
OtherPostProcessing(o) == \E p \in Objects \ {o} : finalize_jobs[p] # {}

\* DBObject::load of all objects in wanted: what was under way is cancelled.
StartLoads(wanted) ==
    LET new  == [o \in wanted |-> [obj |-> o, load |-> loads + 1, chunk |-> 0]]
        old  == UNION {({read_job[o]} \cup finalize_jobs[o]) \ {None} : o \in wanted}
        jobs == [i \in 1 .. Cardinality(wanted) |->
                    new[CHOOSE o \in wanted : Cardinality({p \in wanted : p <= o}) = i]]
    IN  /\ cancelled' = cancelled \cup old
        /\ read_job' = [o \in Objects |-> IF o \in wanted THEN new[o] ELSE read_job[o]]
        /\ finalize_jobs' = [o \in Objects |-> IF o \in wanted THEN {} ELSE finalize_jobs[o]]
        /\ added' = added \cup Range(jobs)
        /\ line' = [line EXCEPT !["db"] = @ \o jobs]
        /\ loads' = loads + 1
        /\ UNCHANGED <<due, finished, stopping, reports>>

\* The manager thread may have taken the only job from the queue and not stored it yet.
SeesNoDBJobs ==
    \/ line["db"] = <<>>
    \/ /\ Len(line["db"]) = 1
       /\ step[Head(line["db"])] = "new" /\ Head(line["db"]) \notin emitted
       /\ due = None

\* loadSlot up to its wait for database jobs; without any it does not wait.
LoadSlot(label) ==
    /\ loads + waiting < MaxLoads
    /\ data' = [o \in Objects |-> <<>>]
    /\ announced' = [o \in Objects |-> 0]
    /\ \/ /\ line["db"] # <<>>
          /\ waiting' = waiting + 1
          /\ load_in_progress' = TRUE
          /\ cursor' = cursor + 1
          /\ button' = label
          /\ UNCHANGED <<managerVars, read_job, finalize_jobs, loads, finishes>>
       \/ /\ SeesNoDBJobs
          /\ \E wanted \in SUBSET Objects :
                /\ StartLoads(wanted)
                /\ IF wanted = {}
                   THEN button' = "Load" /\ finishes' = finishes + 1
                        /\ load_in_progress' = FALSE /\ UNCHANGED cursor
                   ELSE button' = label /\ UNCHANGED finishes
                        /\ load_in_progress' = TRUE /\ cursor' = cursor + 1
          /\ UNCHANGED waiting
    /\ UNCHANGED <<emitted, readerVars, events, stops, aborted>>

\* The wait of the innermost loadSlot is over.
ContinueLoad ==
    /\ waiting > 0
    /\ SeesNoDBJobs
    /\ waiting' = waiting - 1
    /\ \E wanted \in SUBSET Objects :
          /\ StartLoads(wanted)
          /\ IF wanted = {} THEN FinishLoading ELSE UNCHANGED frontVars
          /\ data' = [o \in Objects |-> IF o \in wanted THEN <<>> ELSE data[o]]
          /\ announced' = [o \in Objects |-> IF o \in wanted THEN 0 ELSE announced[o]]
    /\ UNCHANGED <<emitted, readerVars, events, stops, aborted>>

\* The button reads "Load" also during a load that a result has started; that it is used
\* then, or another result, is a choice of the instance.
Free == Results = "always" \/ ~load_in_progress

LoadButton == button = "Load" /\ Free /\ LoadSlot("Stop")

\* A row of an evaluation result shows its view point, which loads.
ShowResult == Results # "never" /\ Free /\ LoadSlot(button)

\* quitLoading marks the read jobs only, and leaves load_in_progress_ set.
StopButton ==
    /\ button = "Stop"
    /\ stops < MaxStops
    /\ stops' = stops + 1
    /\ button' = "disabled"
    /\ cancelled' = cancelled \cup {read_job[o] : o \in {p \in Objects : read_job[p] # None}}
    /\ load_in_progress' = TRUE
    /\ UNCHANGED <<line, due, added, finished, stopping, reports, emitted, readerVars, events,
                   objectVars, cursor, finishes, waiting, loads, aborted>>

User == LoadButton \/ ShowResult \/ StopButton

-----------------------------------------------------------------------------
(* The main thread: the slots of DBObject.                                 *)

NextEvent(name) == events # <<>> /\ Head(events).what = name /\ events' = Tail(events)

Abort(assertion) ==
    /\ aborted' = assertion
    /\ UNCHANGED <<managerVars, objectVars, frontVars>>

\* readJobIntermediateSlot
BufferSlot ==
    LET e == Head(events)
        o == e.job.obj
        j == [e.job EXCEPT !.chunk = e.chunk]
    IN  /\ NextEvent("buffer")
        /\ \/ /\ Destroyed(e.job)          \* null sender, event on the loose
              /\ UNCHANGED <<managerVars, objectVars, frontVars, aborted>>
           \/ /\ ~Destroyed(e.job) /\ e.job # read_job[o]
              /\ Abort("sender == read_job_.get()")
           \/ /\ e.job = read_job[o]
              /\ finalize_jobs' = [finalize_jobs EXCEPT ![o] = @ \cup {j}]
              /\ Manager!Add(j)
              /\ UNCHANGED <<read_job, data, announced, frontVars, aborted>>
        /\ UNCHANGED <<emitted, readerVars, userVars>>

\* readJobDoneSlot does not ask which job is done.
ReadDoneSlot ==
    LET o == Head(events).job.obj IN
    /\ NextEvent("done")
    /\ Head(events).job \in ReadJobs
    /\ read_job' = [read_job EXCEPT ![o] = None]
    /\ UNCHANGED <<finalize_jobs, data, announced>>
    /\ IF finalize_jobs[o] = {} THEN LoadingDone ELSE UNCHANGED frontVars
    /\ UNCHANGED <<managerVars, emitted, readerVars, userVars, aborted>>

\* Seeded fault: the new data has to be more than was read.
DelayLastData(o) ==
    \/ OtherPostProcessing(o)
    \/ read_job[o] # None /\ Len(data[o]) + 1 <= row_count[read_job[o]]

\* finalizeReadJobDoneSlot: may the views wait for more data?
DelayNewData(o) ==
    \/ OtherPostProcessing(o)
    \/ read_job[o] # None /\ Len(data[o]) + 1 < row_count[read_job[o]]

\* Seeded fault: the new buffer seizes the old ones.
SeizedByBuffer(buffers, j) == <<j>> \o buffers

\* data_->seizeBuffer
SeizeBuffer(buffers, j) == Append(buffers, j)

FinalizeDoneSlot ==
    LET j == Head(events).job
        o == j.obj
    IN  /\ NextEvent("done")
        /\ j \in FinalizeJobs
        /\ \/ /\ Destroyed(j)              \* null sender, event on the loose
              /\ UNCHANGED <<managerVars, objectVars, frontVars, aborted>>
           \/ /\ InLine(j) /\ j \notin finalize_jobs[o]
              /\ Abort("found")
           \/ /\ j \in finalize_jobs[o]
              /\ finalize_jobs' = [finalize_jobs EXCEPT ![o] = @ \ {j}]
              /\ data' = [data EXCEPT ![o] = SeizeBuffer(@, j)]
              /\ UNCHANGED <<managerVars, read_job, aborted>>
              /\ IF StillLoading(o)
                 THEN /\ announced' = IF DelayNewData(o) THEN announced
                                      ELSE [announced EXCEPT ![o] = Len(data'[o])]
                      /\ UNCHANGED frontVars
                 ELSE /\ announced' = [announced EXCEPT ![o] = Len(data'[o])]
                      /\ LoadingDone
        /\ UNCHANGED <<emitted, readerVars, userVars>>

Slots == BufferSlot \/ ReadDoneSlot \/ FinalizeDoneSlot

-----------------------------------------------------------------------------
\* A failed assertion (they are compiled in, -UNDEBUG) ends the process.
Alive == aborted = "no"

Next ==
    /\ Alive
    /\ \/ \E k \in {"db", "blocking"} : Manage(k)
       \/ \E j \in ReadJobs : Read(j)
       \/ \E j \in FinalizeJobs : Finalize(j)
       \/ \E j \in Jobs : RunDestroyed(j)
       \/ Slots \/ ContinueLoad \/ User

(* While a thread can go on, one does: the manager, the pool or the event   *)
(* loop of the main thread, also the one in loadSlot.  The user need not   *)
(* do anything.  No more is assumed: no thread is served before another.   *)
Fairness ==
    WF_vars(/\ Alive
            /\ \/ \E k \in {"db", "blocking"} : Manage(k)
               \/ \E j \in ReadJobs : Read(j)
               \/ \E j \in FinalizeJobs : Finalize(j)
               \/ Slots \/ ContinueLoad)

Spec == Init /\ [][Next]_vars
FairSpec == Spec /\ Fairness

-----------------------------------------------------------------------------
(* However loading is stopped and started again, data_ of an object holds   *)
(* consecutive chunks of one load, in their order and without a gap, and   *)
(* that is the last load of the object: no chunk of an earlier one finds   *)
(* its way into it.  (It need not begin with the first chunk: a load that  *)
(* a done signal of the stopped one has finished too early lets loadSlot   *)
(* clear data_ while chunks are still to come.)                            *)
DataIsOfLastLoad ==
    \A o \in Objects : \A i \in DOMAIN data[o] :
        /\ data[o][i] = [data[o][1] EXCEPT !.chunk = @ + i - 1]
        /\ data[o][i].obj = o
        /\ \A j \in added : j.obj = o => j.load <= data[o][i].load

(* A load that was not stopped is over only when each object that was read *)
(* has all its chunks, from the first to the last, and no others.          *)
LoadedInFull ==
    ~load_in_progress => \A j \in ReadJobs :
        j \in added \ cancelled /\ j.load = loads =>
            data[j.obj] = [i \in 1 .. Chunks[j.obj] |-> [j EXCEPT !.chunk = i]]

\* The objects that the last load reads.
Wanted == {o \in Objects : [obj |-> o, load |-> loads, chunk |-> 0] \in added}

Promise == INSTANCE LoadedData WITH
    loading <- load_in_progress, requested <- waiting > 0, wanted <- Wanted

(* Loads implement LoadedData: through all waits, chunks and signals data_  *)
(* is emptied by loadSlot only, grows chunk by chunk in their order while   *)
(* the load is in progress and is left alone when it is not, the views are  *)
(* told of what is there, and the load is over when all of it is.           *)
KeepsPromise == Promise!Spec

(* finalizeReadJobDoneSlot delays newDataSignal in the hope of more data.  *)
(* It never hopes in vain: when loading is over, the views have been told  *)
(* of all data there is.                                                   *)
AllDataAnnounced ==
    ~load_in_progress => \A o \in Objects : announced[o] = Len(data[o])

(* allLoadingDoneSignal comes once per load, after the last object, and    *)
(* the override cursor and the button follow it.                           *)
FinishedOnce ==
    /\ finishes = loads - (IF load_in_progress /\ waiting = 0 THEN 1 ELSE 0)
    /\ cursor = (IF load_in_progress THEN 1 ELSE 0)
    /\ button # "Load" => load_in_progress

(* No assertion of these functions fails and no job is destroyed at work.  *)
NothingAborts == aborted = "no"

(* When nothing is under way any more, the objects, the connection and the *)
(* load widget are back where a new load starts from, whichever loads and  *)
(* stops crossed each other; and every wait cursor is taken back, although *)
(* a stopped load may be finished twice.                                   *)
AtRest ==
    /\ Alive
    /\ events = <<>> /\ waiting = 0
    /\ \A k \in {"db", "blocking"} : line[k] = <<>>
    /\ added \subseteq finished

RestIsClean ==
    AtRest => /\ \A o \in Objects : ~Loading(o)
              /\ ~load_in_progress /\ button = "Load"
              /\ mutex = None /\ prepared_command = None
              /\ cursor = 0

(* Every load comes to an end, also one that is stopped.                   *)
LoadEnds == load_in_progress ~> ~load_in_progress \/ ~Alive

(* sqliteconnection.cpp:467 assert(prepared_command_ == 0): whoever gets    *)
(* connection_mutex_ finds no command of another job on the connection.    *)
CommandIsFree == aborted # "prepared_command_ == 0"
=============================================================================
