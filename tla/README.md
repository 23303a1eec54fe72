# Verification of the jobs, imports, tasks and buffers of COMPASS

These modules describe, in TLA+, the concurrent and stateful core of COMPASS (the
program in `src/src`): the job manager and its threads, the loading of database
objects, the imports of ASTERIX and JSON files, the mapping of JSON records into
buffers, the buffers themselves, and the tasks that prepare a database. TLC checks
them on small instances; TLAPS proves the safety properties of the job manager, of
loading, of the task manager, of both imports, of the JSON mapping and of the
buffers, and that job manager, loading, both imports and buffers implement abstract
specifications of what they promise, for every value of the constants.

## 1. The system

COMPASS is a Qt program for analysing air traffic surveillance data. It has one
main thread (event loop, slots, widgets), one manager thread (`JobManager`, a
`QThread`) and the threads of `QThreadPool::globalInstance()`. Work is cut into
jobs. A slot of the main thread makes a job and adds it to a queue of the
manager; the manager gives it to the pool; when the job is done the manager emits
its `doneSignal`, which reaches a slot of the main thread through the event queue
(`Qt::QueuedConnection`). Some slots wait for a condition by calling
`QCoreApplication::processEvents` in a loop, so that other slots run nested
inside them. Assertions are compiled in (`-UNDEBUG` in `CMakeLists.txt`), so a
failed assertion ends the process.

| Component | State | Operations | Talks to | Hard behaviour | What makes it correct |
|---|---|---|---|---|---|
| Job manager (`job/jobmanager`, `job/job.h`) | three queues and their active jobs, `stop_requested_`, `stopped_`, flags of the jobs | add, cancel, the loop of `run()`, `shutdown()` | everyone who adds jobs; the pool | three threads on shared fields without a lock; cancelling what runs; shutdown | order of the done signals, no job lost, ownership while the pool runs it, shutdown ends with nothing left |
| Loading (`object/dbobject`, `dbobjectmanager`, load widget, `dboreaddbjob`, `finalizedboreadjob`) | `read_job_`, `finalize_jobs_`, `data_`, `load_in_progress_`, the load button, override cursors | load, stop, the slots for a chunk, for the end of reading and of finalizing | job manager, database interface, views | late signals of replaced jobs, nested event loops, Stop and immediate reload | data are the chunks of the present load, in order and in full; views are told of all of them; a load ends once and leaves a clean state |
| ASTERIX import (`asteriximporttask`, `asterixdecodejob`) | decode job, mapping job, `insert_active_`, `waiting_for_insert_`, `all_done_`, status dialog, `pause_` | the slots for decoded chunks, mapped chunks, inserts; detection of the end | job manager, database objects, task manager | nested slots that hold a chunk on the stack, back pressure by pausing the decoder, errors | every chunk handled once, inserts counted, the import ends |
| JSON import (`jsonimporttask`, read and parse job) | the same with a parse stage, a list of mapping jobs, the variable sets of the objects, `test_` | as above, and cutting the file into parts | as above | as above, with an own detection of the end; state that survives a run | every chunk at one place, inserts counted over the end of a run, the file cut at its objects |
| Task manager (`taskmanager`, its widget, `done_` and the properties of all tasks) | the task under way, the properties in memory and in the file, `done_`, the Start button | run a task, automatic sequence, open, close | all tasks, the database | a task that never signals, one that is not waited for, a crash between insert and property | what is called done has seen all rows; the automatic tasks end |
| Database interface, connections | `connection_mutex_`, prepared command, bound values | prepare, step, finalize, transactions | read, insert, update jobs | lock held across calls | one prepared command at a time |
| Buffer, nullable vectors (`buffer/`) | values and null flags of each column, which grow separately; size of the buffer | set, append, set null, seize, cut, indexes | jobs, objects, views, evaluation | vectors of different length whose missing entries mean set and null | a buffer is a table of rows; whoever reads it sees the same |
| JSON mapping (`jsonmappingjob`, `json/jsonobjectparser`, `jsondatamapping`) | the buffers of a chunk, counters | parse a report, take back an unfit row, convert the last row | JSON and ASTERIX import, buffers | rows written in part, exceptions in the middle, several parsers for one buffer | each row is one report; converted once |
| Association tasks (ARTAS, by target id) | stage of the task, jobs, dialogs | load, associate, save | objects, jobs | several stages across events | every stage once |
| Post-processing, radar position calculation | stage, jobs | load, compute, update | objects, jobs | as above | as above |
| MySQL, GPS trail, view point import | parsed data, job | parse, insert | objects, jobs | small | counts |
| Opening a database, schemas | connection, schema | open, lock, read tables | interface | sequential | |
| Evaluation | stages of the evaluation, results | load, evaluate, show a result | loading, view points | loads without a look at `load_in_progress_` | only evaluates complete data |
| Views, view points, filters | current view point, filter values | show, reload | loading | | |
| Configuration tree | configurables, their parameters | register, write back | all | | what is written is what is set |
| Sectors, projections, requirements, LaTeX, client, widgets | | | | numeric, text, presentation | |

The lists of components and of hazards, each at its line, are in `PROJECT.json`.

## 2. Modules

| Module | Models | Extends / instantiates |
|---|---|---|
| `JobManager` | manager thread, pool and main thread around the three queues | instantiates `JobOrder` (refinement) |
| `JobOrder` | what the job manager promises to its users: three lines of jobs | - |
| `DBObjectLoad` | loading, stopping and reloading of database objects | instantiates `JobOrder` as its job manager and `LoadedData` (refinement) |
| `LoadedData` | what loading promises to the views: `data_` of each object, chunk by chunk | - |
| `ASTERIXImport` | the import of one ASTERIX file (job manager reduced to one job of each kind) | instantiates `ChunkPipeline` (refinement) |
| `ChunkPipeline` | what both imports promise of the chunks of a file | - |
| `JSONFile` | how `readFilePart` cuts a file into parts, and the reference it is compared with | - |
| `JSONImport` | the imports and tests of JSON files, one after the other | extends `JSONFile`, instantiates `ChunkPipeline` (refinement) |
| `TaskManager` | tasks, their `done` flags and properties, automatic tasks, start, close and crash | - |
| `NullableVector` | a column: values and null flags (operators) | - |
| `Buffer` | buffers: columns that share a size | extends `NullableVector`, instantiates `RowTable` (refinement) |
| `RowTable` | what a buffer promises: rows with an entry for each column | - |
| `JSONMapping` | a mapping job: records, parsers, the rows they write | instantiates `NullableVector` |
| `JobManagerProofs`, `DBObjectLoadProofs`, `TaskManagerProofs`, `ASTERIXImportProofs`, `JSONImportProofs`, `JSONMappingProofs`, `BufferProofs`, `RowTableProofs` | theorems | extend the module they are about, and TLAPS |
| `MC...` | constants for TLC | the module they are named after |

Composition goes through abstract specifications. `JobManager` implements `JobOrder`
(run `job_manager`, theorem `ImplementsJobOrder`), and `DBObjectLoad` runs over
`JobOrder`, so that the readers, the finalize jobs and the slots need not be
interleaved with each instruction of the manager thread. `DBObjectLoad` in turn
implements `LoadedData` (run `load`, theorem `LoadsImplementPromise`), and both imports
implement `ChunkPipeline` (runs `asterix_import` and `json_import`, theorems
`ImportFollowsPipeline`), so that what differs between them is only whether one chunk is
worked on at a time. `JSONImport` takes the
chunks of a file from `JSONFile`. `JSONMapping` writes its rows with the operators
of `NullableVector`, the same that `Buffer` shows to make up a `RowTable`
(run `buffer`, theorem `BufferImplementsTable`).
`TaskManager` has the imports as what they do at their end, the two ends of the
ASTERIX import (with and without `doneSignal`) included.

### JobManager

The threads share the queues, the active jobs and the flags of a job without a
lock, so each test and each use of a shared field is a step of its own.
`phase` and `cur` say where the manager thread is: `StartRound` and `LeaveRun`
are the head of the loop of `run()`. For each queue an active job that is done or
cancelled is flushed in the steps of the code: `FlushTest` finds it so,
`FlushTestObsolete` and `FlushTestStop` are the tests before the two signals, each
with a look of its own at `stop_requested_`, `FlushEmit` is a signal, and `FlushLetGo`
resets the pointer. `KeepActive` leaves the job alone, `Take` is `try_pop` and `Store`
the assignment of what it took, with the call of `QThreadPool::start`. `taken` is the
job between the two, which neither `hasAnyJobs` nor `shutdown()` sees. `EndRound` tests
whether `databaseIdle` is due and `EmitIdle` emits it. The pool is a queue of runnables
and a set of running jobs: `PoolStart`, `RunDone`, where `run()` sets `done_`, and
`RunReturn`, where it returns. Between the two the manager may let go of the job, while
`JSONMappingJob::run` still writes its members. `main` says where the main thread is in `shutdown()`: it tests
`active_db_job_` (`ShutdownTestActiveDB`) and uses it in another step
(`ShutdownMarkActiveDB`), where a null pointer ends the process. Jobs in
`WaitsForMain` are the decoding and reading jobs of imports: their `run()` blocks
until a slot of the main thread took their data. `reports` and `calls` are
history variables. `emitObsolete` emits `doneSignal` just as `emitDone` does
(`job.h:58`), so a cancelled job is reported twice, or once if `shutdown()` falls
between the two tests.

### JobOrder

A job of the blocking and of the database line works only when all jobs before it
are gone. Of the job in front, if it is finished or cancelled, a report is decided on
(`Decide`, never once the manager is being stopped; the second one of a job only if it
was cancelled), made (`Report`; `due` is the job in between), and the job leaves its
line (`Leave`). The refinement mapping takes as line of a kind the active job, the one
in flight and the queue, and as `due` the job whose signal is next.

### DBObjectLoad

A job is a record of object, number of the load and chunk (0 for the read job).
Each read job has a program counter `step` through `DBOReadDBJob::run`: it may
find itself obsolete, prepares its command under `connection_mutex_`, reads chunk
after chunk with a look at `obsolete_` and a posted signal for each, unlocks and
then finalizes the command - two steps, as in `finalizeReadStatement`. The manager is
`JobOrder`: `Decide`, then `EmitObsolete` or `EmitDone`, which post the done event and
read the flags of the job anew, and `LetGo`. The main thread
takes events in order: `BufferSlot`, `ReadDoneSlot`, `FinalizeDoneSlot`.
`LoadSlot` is `loadSlot` up to the wait for database jobs, `ContinueLoad` the
rest, so that other slots, also another `loadSlot`, run in between. `LoadButton`
and `StopButton` are the load widget; `ShowResult` is the load an evaluation
result starts through its view point (`viewmanager.cpp:231`). The constant
`Results` says whether such loads happen: `"never"`, `"idle"` (only when no load
is under way) or `"always"`, as the code allows. `Destroyed` says when the last
shared pointer to a job is gone: a signal of a destroyed sender is ignored
("event on the loose") and a `run()` that is still executing is in a destroyed
object (`RunDestroyed`). A failed assertion sets `aborted` and stops the model.

Abstracted: associations are off, all chunks of an object have the same size, the
pool always has a free thread, `shutdown()` does not happen, which objects are
loaded is chosen freely at each load.

### LoadedData

A load is requested, which empties `data_` of all objects, begins when what came before
is over, and reads the objects `wanted` of it; then `data_` of these grows by the next
chunk (`AddChunk`), the views are told of all an object has, and the load ends when
nothing is missing (`AllThere`) - of the chunks and of what the views know. There are no
jobs, signals or event loops in it. The mapping is `load_in_progress_`, whether a
`loadSlot` waits, and the objects for which a read job was added (`Wanted`); `data` and
`announced` are those of `DBObjectLoad`.

### ASTERIXImport

The decode job has one chunk in its hand at a time: decode, wait while `pause_`,
emit, wait until the chunk was moved out. `frames` is the stack of slots that
wait in a nested event loop, innermost first; only its head can go on
(`ContinueAddDecoded`, `ContinueInsertData`, `MessageClosed`), and any slot can
run on top of it. Three modes as in `run()`: import, test, mapping stubs.
`Insert` is `insertData` behind its wait; `CheckAllDone` is evaluated with the
state a step has reached, as the code does at the end of its slots. A user can
close the status dialog when all is done, but not inside the waiting loops, which
exclude user input. `settled` and `signals` are history variables.

Abstracted: what a record is mapped to (the objects a chunk has records of are
chosen at the start), data source additions, a second run of the task.

### ChunkPipeline

A chunk is taken from the file, waits, is worked on by jobs, may wait again and is
settled with the insert of its buffers. Waiting chunks start in any order, as the
innermost slot goes on first, but they leave the jobs as they came to them (`Leave`),
and an insert begins when there is none. An assertion that fails (`Fail`) loses what its
slot had in its hand. The mapping takes the chunk to be moved out and those held by
`addDecodedASTERIXSlot` or `addReadJSONSlot` as waiting, the mapping jobs and behind them
the parse job as worked on, and those held by `insertData` as mapped (`HeldBy`). With
`OneAtWork` (ASTERIX import) there is one mapping job at most.

### JSONFile and JSONImport

`ReadChar` and `NextChar` are the loop of `readFilePart`, `Scans` its state after
each character: it counts braces, keeps what is inside of them, and takes a character
before it looks at the limit of a part. `Groups` and `Objects` are the reference:
the balanced groups at the top level, in the order in which they begin.

`JSONImport` has the read job (`Read`: pause, part, emit, wait until the objects
were moved out), the parse job and the mapping jobs in the line of the pool, the
inserts in the line of the database, and the slots of the main thread. A slot
that is early waits with its chunk as a frame, as in the ASTERIX import; while
`addReadJSONSlot` waits it pauses the reader in each turn (`WaitOn`). `Run` starts
a test or an import of a file and keeps what the code keeps: `variable_sets`,
`insert_active`, the connections to the objects. `content` numbers the chunks of
all runs through, so that what is left of a run that was found done too early can
be told from the next one. `OtherInsertDone` is an insert of another import into
an object this task is still connected to; `insert_active` counts modulo
`Modulus`, as a `size_t` does.

Abstracted: archives, parse errors, what the dialogs show.

### TaskManager

`property` is what `DBInterface` has in memory, `saved` what the file has;
`Shutdown` writes the one to the other, `Crash` does not. `UpdateTaskStates` is
what every `doneSignal` and every change of the content leads to. `RunTask` is
`runTask` with its assertion, called by the user (`UserRun`) or by
`performAutomaticTasks`, which is `AutomaticRun`, `AutomaticSkip` and the end of
its waiting loop, `AutomaticGoesOn`. `Insert` adds rows, `EndImport` does what
each import does at its end (own property, those it takes back, positions),
`EndASTERIXSilently` is the end of an ASTERIX import that is found by another slot
than `insertDoneSlot`, `EndComputed` and `GiveUp` are the ends of the tasks that
compute. `covered`, `left_out` and `given_up` are history variables: what the last
run of a task has seen, what came in without the property being taken back, and
which tasks ended without being done.

Abstracted: everything inside a task; the user does nothing while automatic tasks
run (most of it in modal windows).

### NullableVector, Buffer and RowTable

An operator of `NullableVector` is a method of the class: the state of a column in,
the state after it out. Flags are bits, 1 for null; a missing flag stands for an
entry that is set if there is a value, a missing value for null. `Buffer` has
several buffers with the same columns; `Set`, `AppendTo`, `SetEntryNull`,
`SeizeBuffer` and `Cutting` are the operations. A buffer that was seized from is
replaced by an empty one.
`Appendable` is the condition under which `append` is used (`JSONDataMapping`).
`RowTable` has the same as rows of entries and nothing of vectors or flags.

Abstracted: the types of the columns, renaming and removing of columns, partial
copies, the statistics, conversion between types.

### JSONMapping

A step is one target report given to one parser. `Written` is the loop over the
mappings of `parseTargetReport`: values are set as they come until a mandatory one
is missing or an exception is thrown; `Skip` takes the row back (`Cleanup`),
`Raise` is an exception that is not of the JSON library and passes the cleanup,
`Accept` keeps the row. `TransformBuffer` overrides the data source and converts
the units of the last row, once per record and parser. An entry is the number of
the report it came from and how often it was converted, so that a value of another
report or a second conversion shows. A parser without mandatory mappings takes a report
that has a value of none of its variables: `Accept` then adds no row, `parsed_any` is
set all the same, and `TransformBuffer` converts a row that is none of this record.
`blank` keeps the objects this happened to; what is said of the rows is said of the
others (`Sound`).

Abstracted: formats, arrays inside of a report, mapping stubs.

## 3. Runs

| Run | Instance | Shows |
|---|---|---|
| `job_manager` | 2 database and 2 non-blocking jobs, 2 threads, symmetry | type invariant, order of the done signals, exclusion of live jobs, ownership, number of reports, state after shutdown, no database job at work when `databaseIdle` is emitted, refinement of `JobOrder` |
| `job_manager_live` | 1 database job, 1 blocking job that waits for the main thread, 1 non-blocking job, 1 thread | every job is reported; `shutdown()` ends, with the two exceptions the code has (a null pointer in its race, a job that waits for the main thread) |
| `load` | 3 objects (2, 2, 1 chunks), 2 loads, `Results = "idle"` | refinement of `LoadedData`: each object gets its chunks from the first to the last and the load is over when all are there; all data are announced, a load is finished once, no assertion fails |
| `load_stop` | 2 objects, 2 loads, 1 Stop | data are consecutive chunks of the last load, everything comes to rest clean, every load ends |
| `load_command` (violation) | 2 objects, 2 loads, 1 Stop | `sqliteconnection.cpp:467` assertion fails: the mutex is unlocked before the command is finalized |
| `asterix_import` | 4 chunks, 2 objects, 17 files, 3 modes | refinement of `ChunkPipeline`, inserts counted, at rest all is done, ends or stays paused |
| `asterix_pause` (violation) | 3 full chunks | a paused decoder is not always unpaused, the import hangs |
| `json_import` | 4 files of 0 to 4 parts, 2 runs, 2 objects, 1 insert of another import, all texts of up to 8 characters | refinement of `ChunkPipeline`, inserts counted, what the end leaves, what the database holds at rest, every chunk is dealt with, files are cut at their objects |
| `json_test` (violation) | the same files, 1 run | a test may insert its last chunk |
| `task_manager` | 4 orders of automatic tasks, associations alone among them, 2 inserts, 3 starts, 2 tasks run by the user, crashes | what is done has seen all rows, prerequisites hold but for associations asked for without post-processing, the Start button is current, automatic tasks end |
| `buffer` | 2 buffers of 2 columns, 3 rows in all | readers agree, a write is about one entry, refinement of `RowTable` |
| `json_mapping` | 2 records of 16 reports x 2 keys and 6 containers, 4 parsers, one without a mandatory mapping | records counted; until a parser took a report without a value, rows are reports and conversion is at most once |

Bounds. Two jobs of a kind suffice for order, exclusion and the hand-over from
one to the next; a third kind adds nothing as the queues share no state besides
`shutdown()` and `databaseIdle`, and the live run has all three. That run has a pool
of one thread, the tightest for progress: a runnable waits for one that runs; with two
threads the graph is too large to search for liveness in a few minutes. Three objects
are the smallest number with two others that finish in both orders; two chunks
the smallest number with a chunk under way while another is finalized; two loads
the smallest with a job of an earlier one. Four chunks let one be in the hand of
the decoder, one on the stack, one in the mapping job and one inserted; the
largest JSON file has four parts for the same reason. Two runs of the JSON import
have one left over from the other in all combinations of test and import; one
insert of another import is enough to disturb the count (`MaxOthers`), and
`Modulus` 8 is larger than all counts can be. Eight characters hold two separated
objects with nested ones, with every size of a part up to three. The task manager
needs two inserts for one before and one after a task, and three starts to write,
crash and read again. Three rows in all (`MaxRows`) have a gap, an entry before and
one behind it, and a buffer of two rows seized by one of one row; the columns only
meet in the size of the buffer, so two are enough. Two records show what one leaves
to the next; of the four parsers two share a buffer, one of them looks into a container, one takes
the same report for the other object, and one has no mandatory mapping. `MaxLoads`, `MaxStops`, `MaxRuns`, `MaxOthers`,
`MaxOpens`, `MaxRows` and `MaxRecords` are in the guards of the actions they bound.

Deadlock is not checked in the models in which the program may really stop (the
manager was shut down, the user does not load again, the import is over, a failed
assertion ended the process, the records are mapped); it is checked for `Buffer`.

Mutants. Each property has a seeded fault, an operator with the comment "Seeded
fault" before the definition it changes; with it TLC finds the property violated.

### Fairness

In `DBObjectLoad` only one weak fairness is assumed of manager, pool and event loop
together: while one of them can go on, one does; no load needs more to end. Elsewhere
weak fairness of each that runs by itself: the manager thread (a loop with a sleep of
1 ms), the start of a runnable when a thread is free, the end of each `run()`
(except of jobs that wait for the main thread, whose guard says so), the straight
line of `shutdown()`, the dispatch of posted events by the innermost event loop
and its test of the condition it waits for, the turns of `performAutomaticTasks`,
the end of a task that is under way. The user is never forced to load, stop, start,
close or shut down; that an error message is closed is assumed. An import may end
without a signal and a calculation may be given up, but neither has to.

## 4. Proofs

No theorem rests on anything but the named assumptions on the constants, which TLC
evaluates in the runs.

### Job manager

`JobManagerProofs` proves for all sets of jobs, kinds of jobs,
jobs that wait for the main thread and sizes of the pool, from `JobsAssumption`,
`KindAssumption` and `ThreadsAssumption`:

| Theorem | States | Rests on |
|---|---|---|
| `TypeCorrect` | `[]TypeOK` | each action |
| `HeldOnceInvariant` | each job is at one place of the manager | `TypeCorrect` |
| `PoolOnceInvariant` | each job enters the pool once; who is at work there is held | `HeldOnceInvariant` |
| `OneLiveJob` | `[]OneLiveJobPerQueue`, of jobs at work: in the pool, not cancelled, `done_` not set | `PoolOnceInvariant` |
| `PoolJobsHeld` | `[]PoolJobsAreHeld`, of the same jobs | `PoolOnceInvariant` |
| `HeldUnreportedInvariant` | no job still held was reported, but the one being flushed | `HeldOnceInvariant` |
| `ReportsAreRight` | `[]ReportedOnce` | `HeldUnreportedInvariant` |
| `LetGoInvariant` | the manager lets go of finished and cancelled jobs only | `TypeCorrect` |
| `ShutdownSettles` | `[]ShutdownSettlesAll` | `LetGoInvariant` |
| `FlushingIsOrdered` | a queue is a suffix of the history of its calls, and what precedes it is in flight or reported (`QueueIsSuffix`); between its tests and its signals the manager knows what it flushes (`FlushKnows`) | `HeldOnceInvariant`, `HeldUnreportedInvariant` |
| `DoneInCallOrder` | `[]DoneOrder` | `FlushingIsOrdered`, `HeldUnreportedInvariant` |
| `NoneAtWorkWhenIdle` | `[]IdleWhenNoneAtWork` | `PoolOnceInvariant`: a database job at work is the active one, and there is none since the test |
| `ImplementsJobOrder` | `KeepsJobOrder` (refinement of `JobOrder`) | `HeldOnceInvariant`, `LetGoInvariant`, `FlushingIsOrdered`; one lemma per action |

None of the properties is inductive. `OneLiveJobPerQueue` needs to know that a
job at work in the pool is the active one, which needs that a popped job is not in
its queue any more (`HeldOnce`), which needs that a job is added once.
`ReportedOnce` needs that what the manager still holds has not been reported.
`DoneOrder` needs the history: the flush reports the job in front of the queue's
suffix, hence all before it were reported - unless the manager is being stopped.
As `shutdown()` may come between the test and the signal, that a signal is still to
come has to be tied to a test made before (`FlushKnows`): whatever was decided then was
decided when all jobs in front had been reported.

### Loading of database objects

`DBObjectLoadProofs` proves for any number of objects, of chunks of each and of loads:

| Theorem | States | Assumes | Rests on |
|---|---|---|---|
| `LoadingIsSound` | `[]Sound`: types; lines and events hold only jobs that were added (`Queued`); where a reader is and what of the connection it holds (`Reading`); the jobs an object holds will be reported (`Current`); button and cursor (`Front`) | - | one lemma per conjunct |
| `LoadingComesToRest` | `[]RestIsClean` | `Results # "always"` | `Sound` |
| `LoadingIsInOrder` | `[]Consistent`: `Sound`, and `InOrder`, `Chain`, `InSequence` | - | `OrderIsKept`, `BeforeStays` |
| `NoChunkOfEarlierLoads` | `[]DataIsOfLastLoad` | - | `InOrder` |
| `LoadsAreRegular` | `[]Regular`: no signal under way is of a job its object let go of (`UpToDate`), one reader at a time (`OneAtATime`), the load was finished as often as it should (`Undisturbed`) | `MaxStops = 0`, `Results # "always"` | `Consistent` |
| `NoAssertionFails` | `[](cancelled = {} => NothingAborts)`: no assertion fails and no job is destroyed at work before a job was cancelled | - | `Consistent`; `OneAtATime` and `UpToDate` for as long as none is |
| `LoadsFinishOnce` | `[]FinishedOnce` | the same | `Regular`, `Front` |
| `LoadsAreComplete` | `[]Complete`: no chunk is missing between `data_`, the chunks being finalized and those to arrive | the same | `Regular` |
| `LoadsBringAllChunks` | `[]LoadedInFull` | the same | `Complete` |
| `SignalsAreCertain` | `[](BuffersInTurn /\ ChunksInTurn /\ Announced)`: objects are read in turn, their chunks are finalized in turn, and what was not announced will be | the same | `Complete` |
| `ViewsHearOfAllData` | `[]AllDataAnnounced` | the same | `SignalsAreCertain` |
| `LoadsImplementPromise` | `KeepsPromise` (refinement of `LoadedData`) | the same | `Complete`, `SignalsAreCertain`, `ReadFirst`; one lemma per action |

The first four, and `NoAssertionFails`, hold for any use of the Stop button and
whatever loads a result starts, but for what the column "Assumes" says. A job is
cancelled by Stop or by a load that begins while an object still reads; an assertion
that fails has one of the two behind it. The core of the first four is `Sequel(o, a, b, l)`:
of load `l` of object `o`, `data_` ends with chunk `a`, the chunks after `a` up to `b`
are being finalized and those after `b` are among the events or not yet read. It is not
inductive alone: that the next chunk is the one a slot gets needs the order of the
events of a reader (`InSequence`) and of the done signals of the finalize jobs
(`Chain`, by `Before`: what is reported before what, whether it is in the line or in
the events). A late signal of an earlier load does no harm because its job is not held
by any object (`Current`); that `readJobDoneSlot` does not ask which job is done shows
in `Sequel`, which leaves open whether the object still reads.

The others are about loads without Stop of which none starts during another, the
instance of run `load`: with Stop a chunk may go unannounced and a load be finished
twice, and with `"always"` an assertion fails (section 5). That views hear of all data
is the deepest of them: `newDataSignal` is put off while another object is post-processing
(`isOtherDBObjectPostProcessing`), so that a following signal has to be certain. It is,
because the objects are read in turn (`BuffersInTurn`) and their chunks are finalized in
turn (`ChunksInTurn`): when the chunk of an object that is still read is done, none of
another object is under way, so the signal is put off only if more was read
(`Announced`).

The refinement of `LoadedData` says all of this in one formula, and what the invariants do
not: that `data_` changes in no other way. A finalize job that is done adds the chunk its
object is to have next (`NextChunk`, from `Complete`), that chunk is of an object the
load reads (`ChunksAreAdded`), and when `loadingDoneSlot` finds no object loading then
all chunks are there and announced (`OverIsAllThere`), whether the signal came from a
finalize job or from a reader that ended behind them (`ReadsMayEnd`). What a load reads
(`Wanted`) is told by the read jobs that were added, so these have to come before any of
their chunks (`ReadFirst`, kept by `ReadFirstIsKept`). With Stop the promise
is broken on purpose: a stopped load ends with less, hence `MaxStops = 0`.

### Task manager

`TaskManagerProofs` proves for all orders of automatic tasks and all bounds:

| Theorem | States | Rests on |
|---|---|---|
| `TypeCorrect` | `[]TypeOK` | each action |
| `StartFollowsProperty` | `[]StartIsCurrent` | `DoneByProperty`: of a task that has a property `done_` says what it says, and the button what `done_` of post-processing says |
| `DoneSeesRows` | `[]DoneHasSeenRows` | `SeenOrTakenBack`: whether an import runs or not, the rows a done task has not seen are left out or will be taken back by an import that is under way |
| `AutomaticTasksCanRun` | `[]PrerequisitesHold`: the assertion of `runTask` fails for no task but associations that were asked for without post-processing | `PlanHolds`: what is still to be run comes in the order of `performAutomaticTasks`, and where post-processing was asked for it comes before the associations or is waited for |

`StartIsCurrent` alone is not inductive: the button is set from `done_`, so the
agreement of `done_` with the property is needed. `DoneHasSeenRows` is stated
without imports under way; the strengthening says what is owed while they run, and
the same of the file, of which a crash leaves nothing else.

### ASTERIX import

`ASTERIXImportProofs` proves for any number of chunks, any finite set of objects and
any files:

| Theorem | States | Rests on |
|---|---|---|
| `StagesInvariant` | `[]Stages`: types, and the variables of each stage (decoder, mapping, inserts, frames) agree | one lemma per action |
| `TypeCorrect` | `[]TypeOK`, with `insert_active_` at most the number of objects | `StagesInvariant` |
| `InsertsAreCounted` | `[]InsertsCounted` | `StagesInvariant` |
| `PlacesInvariant` | `[]Places`: each decoded chunk is at exactly one place | `StagesInvariant` |
| `ChunksOnce` | `[]EachChunkOnce` | `PlacesInvariant` |
| `ImportFollowsPipeline` | `FollowsPipeline` (refinement of `ChunkPipeline`, one chunk worked on at a time) | `StagesInvariant`, `PlacesInvariant` |
| `OwedInvariant` | `[]Owed`: whatever is not at its end yet has an event, a job or a frame that will take it on | `StagesInvariant`, `PlacesInvariant` |
| `RestIsTheEnd` | `[]RestIsDone` | `OwedInvariant` |

The stack of frames makes this hard: the number of slots that wait nested in each
other is unbounded in the theorem, so what `Places` says is about every frame, and
pushing and popping are lemmas of their own (`HeldPushed`, `HeldPopped`). The refinement
needs them by the name of the slot (`HoldersPushed`, `HoldersPopped`): a frame that is
pushed on top moves its chunk to those that wait, and the one popped takes its own chunk,
which no other frame holds, on to the job or to the insert.

### JSON import

`JSONImportProofs` proves for any files, any number of runs and tests, any finite set of
objects and any number of inserts of other imports a `size_t` can count
(`FilesAssumption`, `TextsAssumption`, `DbosAssumption`, `ModulusAssumption`,
`NoneAssumption`):

| Theorem | States | Rests on |
|---|---|---|
| `ImportIsConsistent` | `[]Stages`: types; nothing is twice in a line (`Lines`); where the reader is, what it holds and what it posted (`ReaderStage`); whose ends are on their way (`SignalStage`) and in which order (`OrderStage`); each chunk at one place (`PlaceStage`); inserts under way and their count (`InsertStage`); what is inserted of which objects (`KnownStage`) | one lemma per action, `FramePushed` and `FramePopped` |
| `ChunksMoveOnce` | `[]EachChunkOnce` | `PlaceStage`, `Lines` |
| `ImportFollowsPipeline` | `FollowsPipeline` (refinement of `ChunkPipeline`, over all runs) | `Stages`, `FirstIsMapped`, `IdleMeansNone`; one lemma per action |
| `InsertsAreKnown` | `[]InsertsCounted` | `InsertStage` |
| `RestHasAllKnown` | `[]RestStoresKnown` | `Stages` |
| `EndMissesFramesOnly` | `EndLeavesFramesOnly`, an action property | `Stages` before and after the step |
| `FilesAreCut` | `[]PartsAreObjects`: a file whose objects are separated is cut into just these objects, in full parts but the last, and nothing is left open | `ScanFits`: what was found after each of its characters |

`mapJSONDoneSlot` lets go of the first of `json_map_jobs_`, whichever job its signal
came from. That no chunk is lost or taken before it is mapped therefore rests on
`OrderStage`: the ends of the mapping jobs come in the order of these jobs, among the
events and in the pool, although slots that wait go on innermost first and parse
jobs end in between (`FirstIsMapped`). In the refinement this is the step `Leave`, which
takes the first of those worked on; a parse job that ends is no step of the pipeline, as
its chunk stays the last of them (`WorkLines`), and neither is a new run (`RunGoesOn`),
also one that begins beside the rest of the last one. An insert begins when there is none
because a count of 0 means none (`IdleMeansNone`), also modulo the width of `size_t`. For inserts the order does not matter, but
the count does: once another import was counted, `insert_active_` is above all that
can be counted and never 0 again, so no further insert starts; `InsertStage` says so,
and `KnownStage` that variable sets are made once and what was put aside until then is
still there. The content of a file has to be a sequence for all this; `ScansType`
shows it of the recursive function of `JSONFile` by a least counterexample
(`LeastNumber`, `AllNumbers`).

`FilesAreCut` is an induction over the characters of a file in the same form. Its
hypothesis (`ScanFits`) says after each character: the depth of braces is that of the
reference, `objects_parsed_` together with the objects of the part at hand are the groups
that have ended (`Found`), the text kept is that of the group that is open (`OpenObject`),
and every part but the one at hand is full. A step from one character to the next
(`FitsNext`) is one of five (`ReadCharCases`): outside, a brace that opens, inside, a brace
that closes, and the character that is lost where a part is full. The last is where
`Separated` is needed: the lost character stands outside of any object. That the
reference adds the group that ends as its last one is `ObjectAdded`, on lemmas about the
groups of a text (`NoGroupEnds`, `OneGroupEnds`); that flattening takes a part put behind
the others is `FlattenAppend`.

### JSON mapping

`JSONMappingProofs` proves for any sequence of parsers, any set of records and any
number of records a chunk has (`ParsersAssumption`, `RecordsAssumption`,
`NullAssumption`), with mandatory mappings or without:

| Theorem | States | Rests on |
|---|---|---|
| `MappingIsConsistent` | `[]MappingInvariant`: types; columns agree and fit (`BufferStage`); a parser writes behind the last row (`WorkStage`); rows are reports (`RowsAreReports`); which rows the parser at work gave (`RowStage`); what was converted (`ConversionStage`); what was counted (`CountStage`) | one lemma per action |
| `RowsMatchReports` | `[]RowsAreReports`, of the objects in `Sound` | it is a part of the invariant |
| `ConvertedOnce` | `[]ConvertedAtMostOnce`, of the same objects | `ConversionStage` |
| `CountsMatch` | `[]RecordsCounted` | `CountStage`, `AcceptedIsFinite` |

`RowsAreReports` is not inductive alone. A row that is skipped was written in part,
some of its columns longer than the buffer, and is cut off; that nothing of it is left
for the next row rests on `BufferStage` (`WrittenBehind`, `CutKeeps`), and that a
row which is not cut off, because an exception passed the cleanup, is nevertheless one
report on the order of its fields (`UnfitIsLast`). `transformBuffer` takes the last row
of the buffer without knowing whose it is: that it is one of the parser at work, and was
not converted before, is `RowStage`. It is true of an object only until one of its
parsers takes a report without a value and so has no row of its own to convert; hence
`Sound`, and `OthersKept`: what a parser does to its object leaves the others as they
are. `ConvertedAtMostOnce` over all objects is violated in the instance. The counts
are compared with the rows of the records that are through (`RowsThrough`), as a record
at hand may have rows already and still fail.

### Buffer

`BufferProofs` and `RowTableProofs` prove for any values (with `ZeroAssumption` and
`AddAssumption`: adding to `T()` gives what is added), columns, buffers and bound:

| Theorem | States | Rests on |
|---|---|---|
| `SoundInvariant` | `[]Sound`: types; flags agree with values (`Agrees`); no vector is longer than its buffer (`Fits`) | one lemma per operation |
| `TypeCorrect` | `[]TypeOK` | `SoundInvariant` |
| `ReadersAgree` | `[]ReadsAgree` | `Sound`, `NotNullIsThere` |
| `WritesOneEntry` | `[]OneEntryWritten` | `Sound`, `ResizeKeepsNulls`: filling in flags changes no entry |
| `BufferImplementsTable` | `Spec => ImplementsTable`, the refinement of `RowTable` | `Sound`, what each operation does to the entries (`SetValueWrites`, `AddDataEntries`, `CutEntries`) and to the size |

`Agrees` says that a flag which is not null stands for a value; all reading rests on
it. It is not inductive by itself: `addData` puts flags behind flags and values behind
values, which only fit together because neither was longer than the buffer, and the
size of the buffer that `seizeBuffer` hands to its columns is what they are filled up
to. Neither is `Fits` an ornament: the refinement needs that nothing lies behind the
last row.

### Only model-checked

Liveness (`EveryJobReported`, `ShutdownEnds`, `LoadEnds`, `EndsUnlessPaused`,
`ReadIsSettled`, `AutomaticTasksEnd`), which the prover does not reach: it needs fairness
and `ENABLED`.

## 5. What the checks say of the code

Stated by a run:

- With Stop and Load the connection is unlocked before its command is finalized, and
  the next reader may fail its assertion (`load_command`).
- The ASTERIX decoder may stay paused for ever (`asterix_pause`).
- A test of a JSON file may insert its last chunk: `checkAllDone` finds the test done
  while a waiting slot holds that chunk, and resets `test_`
  (`jsonimporttask.cpp:869`; `json_test`).

Seen while modelling, each reproducible by an instance of the models or shown as an
exception in a property:

- A cancelled database job leaves the manager while it runs; the next starts beside
  it, although `jobmanager.h:65` says "only one db job can be active"
  (`OneLiveJobPerQueue` speaks of jobs that were not cancelled). A cancelled job is
  reported twice, or once when `shutdown()` comes between the two looks at
  `stop_requested_`; receivers have to live with it (`ReportedOnce` allows it,
  `load_stop` includes it).
- `JSONMappingJob::run` sets `done_` and then writes and reads its members
  (`jsonmappingjob.cpp:142-146`). The manager and `mapJSONDoneSlot`
  (`jsonimporttask.cpp:576`) may let go of the job meanwhile, which destroys it under
  its `run()`. `PoolJobsAreHeld` therefore speaks of jobs until they set `done_`.
- `shutdown()` tests `active_db_job_` and uses it without a lock. `databaseIdle` never
  comes when there are database jobs alone: a round changes something when it takes the
  job, and then the job is active. The button of `viewmanagerwidget.cpp:77` stays
  disabled until a job of another queue is taken. No property asks for the signal;
  `IdleWhenNoneAtWork` says that it does not come too early.
- `readJobDoneSlot` does not ask which job is done, so with `Results = "always"` in
  `MCDBObjectLoad.cfg` the assertion of `dbobject.cpp:980` fails: a late done signal
  clears the `read_job_` of the next load. As long as a load starts only when none is
  under way this does no harm (`load`, `load_stop`). A load that a result starts also
  leaves the button reading "Load".
- After Stop, `LoadedInFull` and `AllDataAnnounced` need not hold (a stopped load
  shows what it has, and its last chunk may go unannounced). As a stopped reader is
  reported twice, its second done signal may finish the next load too early;
  `load_in_progress_` is off then while objects load, so a third load can start, and
  its `loadSlot` clears `data_` of objects that are still loading: only the chunks that
  come after that are kept (with three loads in `MCDBObjectLoadStop.cfg`).
  `DataIsOfLastLoad` therefore does not say that `data_` begins with the first chunk.
- The end of an ASTERIX import may be found while a slot still holds a chunk, and the
  status dialog be closed; the assertion of `asteriximporttask.cpp:1093` fails then.
  An end that is found elsewhere than in `insertDoneSlot` sends no `doneSignal`:
  automatic tasks wait for ever, and no property is taken back (the `left_out` and
  `given_up` of `TaskManager`).
- A JSON import stays connected to the objects it inserted into. The inserts of
  another import then count `insert_active_` below zero (`jsonimporttask.cpp:701`),
  and the next JSON import waits for ever to insert (the exception of
  `ReadIsSettled`).
- The JSON import leaves the property of post-processing as it is
  (`jsonimporttask.cpp:842-862`), so `--auto_process`, which
  `doc/user_manual/command_line.tex:161` says starts the tasks "After a data was
  imported", leaves post-processing out in a database that was processed before (the
  exception `Missed` of `DoneHasSeenRows`; the GPS trail import does the same with the
  ARTAS associations).
- In a database into which ASTERIX data were imported before, the change of the content
  after such a silent end sets `done_` from the property, and the automatic tasks go on.
  `performAutomaticTasks` does not wait at all for a GPS trail import that was done
  before (`PrerequisitesHold` covers that nevertheless).
- `--associate_data` without `--auto_process` in a database that was not post-processed
  fails the assertion of `runTask` (`taskmanager.cpp:439`): `canRun`
  (`createassociationstask.cpp:172`), which is asked before, does not look at the
  post-processing the prerequisites ask for. `doc/user_manual/command_line.tex:171` wants
  "a post-processed database" there. The instance has it, and `PrerequisitesHold` names
  it as the one way in which the assertion fails.
- Of the target reports in a container only the last is transformed
  (`jsonmappingjob.cpp:91-92`): units of the others are not converted and their data
  source is not overridden, although `doc/user_manual/task/task_import_json.tex:74`
  promises the conversion. `ConvertedAtMostOnce` asks for it only outside containers.
- A report without any mapped key is accepted by a parser without mandatory mappings:
  into an empty buffer the assertion of `jsonobjectparser.cpp:642` fails, else the row
  before is converted twice. The instance has such a parser; from then on its object
  is not in `Sound`.
- An exception of `std::stoi` (`jsonobjectparser.cpp:474`) leaves the values set so
  far as a row, also without a mandatory one (`task_import_json.tex:73`: "skipped"),
  and rows a container gave before it stay although the record counts as not mapped.
- `setNull` leaves the value in place and `append` adds to it; nobody appends to an
  entry made null today (`Appendable`).

## 6. Not modelled

The components with status `not_modelled` in `PROJECT.json`, each with its reason:
numeric computation, presentation, sequential set-up, vendored code. The implementation
counted in the repository includes vendored single-header libraries (`lib/json.hpp`,
`lib/catch.hpp`) and some hundred files of widgets, views and requirements in which no
two actors meet; a model of these would restate them, so the mapped share is small.

Inside the modelled components: the job widget; associations, label loading, updates
of data and data sources of objects; a second run of the ASTERIX task; a shutdown
during a load or an import; a pool with a single thread; archives and parse errors of
the JSON import; the chunk a premature end of a JSON import leaves is not carried into
`TaskManager`, nor are the signals of objects another import still listens to (they
run the end of the ASTERIX import again at inserts of a JSON import); the GPS trail
import is not run a second time while it runs; ARTAS associations are never run
automatically; another import does not insert beside the rest of a JSON run that was
found done too early; formats and arrays in the JSON mapping; renamed and removed
columns and partial copies of buffers.

## 7. Plan

Done: the modules of section 2 and their runs. What would come next:

1. `Connection`: `connection_mutex_` and the prepared command for all its users
   (inserts, updates, minima and maxima), of which `DBObjectLoad` has the readers.
2. `JSONImport` over `JobOrder`, and `TaskManager` with the imports as components.
3. A second and concurrent run of the GPS trail import.
