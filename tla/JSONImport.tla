----------------------------- MODULE JSONImport -----------------------------
(***************************************************************************)
(* The import of JSON files (src/src/task/import/json/jsonimporttask.cpp,  *)
(* src/src/job/readjsonfilejob.cpp): a job reads one part (a chunk) of the *)
(* file after the other; a parse job and then a mapping job turn a chunk   *)
(* into one buffer per database object, and the objects insert their       *)
(* buffers with database jobs.  Slots that are early wait in nested event  *)
(* loops: their frames, with the chunk they hold, pile up on the stack.    *)
(* The task is run again and again, to test a file or to import it.        *)
(***************************************************************************)
EXTENDS JSONFile

CONSTANTS
    Dbos,        \* database objects
    Files,       \* files: sequences of braces, other characters and, inside of JSON objects,
                 \* the database objects these are mapped to
    NumObjects,  \* num_objects_chunk: JSON objects in a part
    MaxRuns,     \* times the task is run
    MaxOthers,   \* bound: inserts of other imports
    Modulus,     \* size_t counts modulo this number
    Texts,       \* files the cutting into parts is checked on
    None         \* the null pointer

ASSUME DbosAssumption == IsFiniteSet(Dbos)
ASSUME FilesAssumption ==
    \A f \in Files : f \in Seq({"{", "}", ","} \cup Dbos) /\ Balanced(f) /\ Separated(f)
ASSUME TextsAssumption == \A t \in Texts : t \in Seq(ToSet(t))
ASSUME NumObjectsAssumption == NumObjects \in Nat \ {0}
ASSUME ModulusAssumption ==
    MaxOthers \in Nat /\ Modulus \in Nat /\ Modulus > Cardinality(Dbos) + MaxOthers
ASSUME NoneAssumption == None \notin Nat

VARIABLES
    test,           \* test_
    runs,           \* history: the calls of run(), TRUE for a test
    content,        \* for each chunk of all the files so far, the objects it is mapped to
    tested,         \* history: chunks of the files that were only tested
    reader,         \* where run() of the read job is
    read,           \* chunks read so far
    objects,        \* objects_ of the read job: the chunk to be moved out, or None
    pause,          \* pause_
    events,         \* events posted to the main thread
    frames,         \* slots that wait in a nested event loop, innermost first
    read_job,       \* is read_json_job_ set?
    parse_job,      \* the chunk of json_parse_job_, or None
    map_jobs,       \* the chunks of json_map_jobs_
    pool,           \* parse and mapping jobs the job manager has, to be reported in order
    db_line,        \* inserts the job manager has: <<chunk, object>>
    mapped,         \* objects_mapped_ > 0
    variable_sets,  \* objects with a set in dbo_variable_sets_
    insert_job,     \* objects with an insert_job_
    insert_active,  \* insert_active_
    all_done,       \* all_done_
    others,         \* inserts of other imports this task was told of
    settled,        \* history: chunks the task has dealt with
    stored,         \* the database: <<chunk, object>>
    aborted         \* the assertion that failed, or "no"

readerVars == <<reader, read>>
jobVars    == <<read_job, parse_job, map_jobs, pool>>
insertVars == <<db_line, variable_sets, insert_job, insert_active>>
runVars    == <<runs, content, tested, others>>
doneVars   == <<all_done, test>>
vars == <<doneVars, runVars, readerVars, objects, pause, events, frames, jobVars, mapped,
          insertVars, settled, stored, aborted>>

Init ==
    /\ test = FALSE
    /\ runs = <<>>
    /\ content = <<>>
    /\ tested = {}
    /\ others = 0
    /\ reader = "over"
    /\ read = 0
    /\ objects = None
    /\ pause = FALSE
    /\ events = <<>>
    /\ frames = <<>>
    /\ read_job = FALSE
    /\ parse_job = None
    /\ map_jobs = <<>>
    /\ pool = <<>>
    /\ db_line = <<>>
    /\ mapped = FALSE
    /\ variable_sets = {}
    /\ insert_job = {}
    /\ insert_active = 0
    /\ all_done = TRUE
    /\ settled = {}
    /\ stored = {}
    /\ aborted = "no"

Post(event) == events' = Append(events, event)

-----------------------------------------------------------------------------
(* The pool: ReadJSONFileJob::run, parse and mapping jobs, insert jobs.    *)

\* Blocked while paused.
ReadPart ==
    /\ reader = "read" /\ ~pause
    /\ reader' = "part"
    /\ UNCHANGED <<doneVars, runVars, read, objects, pause, events, frames, jobVars, mapped,
                   insertVars, settled, stored, aborted>>

ReadEmit ==
    /\ reader = "part" /\ read < Len(content)
    /\ reader' = "emitted"
    /\ read' = read + 1
    /\ objects' = read + 1
    /\ Post(<<"read">>)
    /\ UNCHANGED <<doneVars, runVars, pause, frames, jobVars, mapped, insertVars, settled,
                   stored, aborted>>

\* Blocked until the objects have been moved out.
ReadGoOn ==
    /\ reader = "emitted" /\ objects = None
    /\ reader' = "read"
    /\ UNCHANGED <<doneVars, runVars, read, objects, pause, events, frames, jobVars, mapped,
                   insertVars, settled, stored, aborted>>

\* The end shows when a part is short: the last chunk, or a part without any object.
ReadEnd ==
    /\ read = Len(content)
    /\ \/ reader = "part"
       \/ reader = "emitted" /\ objects = None
    /\ reader' = "over"
    /\ Post(<<"readDone">>)
    /\ UNCHANGED <<doneVars, runVars, read, objects, pause, frames, jobVars, mapped,
                   insertVars, settled, stored, aborted>>

Read == ReadPart \/ ReadEmit \/ ReadGoOn \/ ReadEnd

\* Parse and mapping jobs are non-blocking ones: run concurrently, reported in order.
PoolEnd ==
    /\ pool # <<>>
    /\ Post(Head(pool))
    /\ pool' = Tail(pool)
    /\ UNCHANGED <<doneVars, runVars, readerVars, objects, pause, frames, read_job, parse_job,
                   map_jobs, mapped, insertVars, settled, stored, aborted>>

InsertEnd ==
    /\ db_line # <<>>
    /\ stored' = stored \cup {Head(db_line)}
    /\ Post(<<"insertDone", Head(db_line)[1], Head(db_line)[2]>>)
    /\ db_line' = Tail(db_line)
    /\ UNCHANGED <<doneVars, runVars, readerVars, objects, pause, frames, jobVars, mapped,
                   variable_sets, insert_job, insert_active, settled, aborted>>

-----------------------------------------------------------------------------
(* The main thread.                                                        *)

Frame(slot, chunk) == [slot |-> slot, chunk |-> chunk]

NextEvent(event) == events # <<>> /\ Head(events) = event /\ events' = Tail(events)

\* The objects each part of a file is mapped to.
Mapping(file) ==
    [i \in DOMAIN Parts(file, NumObjects) |->
        {d \in Dbos : \E o \in ToSet(Parts(file, NumObjects)[i]) : d \in ToSet(o)}]

\* run(), called by the Test Import button or by the task manager.  The message box and the
\* loops of waiting slots keep user input out until all is done.
Run ==
    /\ Len(runs) < MaxRuns
    /\ all_done /\ frames = <<>>
    /\ \E f \in Files, t \in BOOLEAN :
           /\ test' = t
           /\ runs' = Append(runs, t)
           /\ content' = content \o Mapping(f)
           /\ tested' = IF t THEN tested \cup (Len(content) + 1 .. Len(content'))
                             ELSE tested
    /\ reader' = "read"
    /\ read' = Len(content)
    /\ objects' = None
    /\ pause' = FALSE
    /\ read_job' = TRUE
    /\ mapped' = FALSE
    /\ all_done' = FALSE
    /\ UNCHANGED <<others, events, frames, parse_job, map_jobs, pool, insertVars, settled, stored,
                   aborted>>

\* Seeded fault: mapping jobs are not looked at.
CheckAllDoneEarly ==
    IF ~all_done /\ ~read_job' /\ parse_job' = None /\ insert_active' = 0
    THEN all_done' = TRUE /\ test' = FALSE
    ELSE UNCHANGED doneVars

\* checkAllDone, called with the state the step has reached.
CheckAllDone ==
    IF ~all_done /\ ~read_job' /\ parse_job' = None /\ map_jobs' = <<>> /\ insert_active' = 0
    THEN all_done' = TRUE /\ test' = FALSE
    ELSE UNCHANGED doneVars

StartParse(chunk) ==
    /\ parse_job' = chunk
    /\ pool' = Append(pool, <<"parsed", chunk>>)

\* Seeded fault: a slot does not wait for the parse job there is.
AddReadJSONAtOnce ==
    /\ NextEvent(<<"read">>)
    /\ objects' = None
    /\ StartParse(objects)
    /\ UNCHANGED <<doneVars, runVars, readerVars, frames, pause, read_job, map_jobs, mapped,
                   insertVars, settled, stored, aborted>>

\* addReadJSONSlot: only one parse job can exist at a time.
AddReadJSON ==
    /\ NextEvent(<<"read">>)
    /\ objects' = None
    /\ \/ /\ parse_job = None
          /\ StartParse(objects)
          /\ UNCHANGED <<frames, pause>>
       \/ /\ parse_job # None
          /\ frames' = <<Frame("addRead", objects)>> \o frames
          /\ pause' = (read_job \/ pause)
          /\ UNCHANGED <<parse_job, pool>>
    /\ UNCHANGED <<doneVars, runVars, readerVars, read_job, map_jobs, mapped, insertVars,
                   settled, stored, aborted>>

\* The loop pauses the reader again in every turn.
WaitOn ==
    /\ frames # <<>> /\ Head(frames).slot = "addRead" /\ parse_job # None
    /\ read_job /\ ~pause
    /\ pause' = TRUE
    /\ UNCHANGED <<doneVars, runVars, readerVars, objects, events, frames, jobVars, mapped,
                   insertVars, settled, stored, aborted>>

ContinueAddReadJSON ==
    /\ frames # <<>> /\ Head(frames).slot = "addRead"
    /\ parse_job = None
    /\ StartParse(Head(frames).chunk)
    /\ frames' = Tail(frames)
    /\ UNCHANGED <<doneVars, runVars, readerVars, objects, pause, events, read_job, map_jobs,
                   mapped, insertVars, settled, stored, aborted>>

\* readJSONFileDoneSlot does not look whether all is done.
ReadJSONFileDone ==
    /\ NextEvent(<<"readDone">>)
    /\ read_job' = FALSE
    /\ UNCHANGED <<doneVars, runVars, readerVars, objects, pause, frames, parse_job, map_jobs,
                   pool, mapped, insertVars, settled, stored, aborted>>

\* The reader is held back while mapping jobs pile up; maxLoadReached of the new state.
HoldReader ==
    pause' = IF read_job THEN parse_job' # None \/ Len(map_jobs') > 2 ELSE pause

ParseJSONDone ==
    \E c \in DOMAIN content :
        /\ NextEvent(<<"parsed", c>>)
        /\ parse_job' = None
        /\ map_jobs' = Append(map_jobs, c)
        /\ pool' = Append(pool, <<"mapped", c>>)
        /\ HoldReader
        /\ UNCHANGED <<doneVars, runVars, readerVars, objects, frames, read_job, mapped,
                       insertVars, settled, stored, aborted>>

AddInsertActive(number) == (insert_active + number) % Modulus

\* insertData behind its wait: every object with rows and a variable set gets an insert job.
Insert(chunk) ==
    LET dbos == content[chunk] \cap variable_sets' IN
    /\ settled' = settled \cup {chunk}
    /\ IF dbos \cap insert_job # {}
       THEN aborted' = "!insert_job_" /\ UNCHANGED <<db_line, insert_job, insert_active>>
       ELSE /\ insert_active' = AddInsertActive(Cardinality(dbos))
            /\ insert_job' = insert_job \cup dbos
            /\ db_line' = db_line \o SetToSeq({<<chunk, d>> : d \in dbos})
            /\ UNCHANGED aborted

\* Seeded fault: the buffers are thrown away while inserts are active.
InsertIfIdle(chunk) ==
    /\ variable_sets' = IF variable_sets = {} THEN content[chunk] ELSE variable_sets
    /\ UNCHANGED frames
    /\ \/ /\ insert_active > 0
          /\ settled' = settled \cup {chunk}
          /\ UNCHANGED <<db_line, insert_job, insert_active, aborted>>
       \/ insert_active = 0 /\ Insert(chunk)

\* Seeded fault: insertData does not wait.
InsertAtOnce(chunk) ==
    /\ variable_sets' = IF variable_sets = {} THEN content[chunk] ELSE variable_sets
    /\ UNCHANGED frames
    /\ Insert(chunk)

\* insertData: the variable sets are made once, of the first buffers.
InsertData(chunk) ==
    /\ variable_sets' = IF variable_sets = {} THEN content[chunk] ELSE variable_sets
    /\ \/ /\ insert_active > 0
          /\ frames' = <<Frame("insertData", chunk)>> \o frames
          /\ UNCHANGED <<db_line, insert_job, insert_active, settled, aborted>>
       \/ /\ insert_active = 0
          /\ UNCHANGED frames
          /\ Insert(chunk)

\* mapJSONDoneSlot: it lets go of the first mapping job.
MapJSONDone ==
    \E c \in DOMAIN content :
        /\ NextEvent(<<"mapped", c>>)
        /\ map_jobs' = Tail(map_jobs)
        /\ mapped' = (mapped \/ content[c] # {})
        /\ UNCHANGED <<runVars, readerVars, objects, read_job, parse_job, pool, stored>>
        /\ \/ /\ test \/ ~mapped'
              /\ settled' = settled \cup {c}
              /\ UNCHANGED <<pause, frames, insertVars, aborted>>
              /\ CheckAllDone
           \/ /\ ~test /\ mapped'
              /\ HoldReader
              /\ InsertData(c)
              /\ UNCHANGED doneVars

ContinueInsertData ==
    /\ frames # <<>> /\ Head(frames).slot = "insertData"
    /\ insert_active = 0
    /\ frames' = Tail(frames)
    /\ UNCHANGED variable_sets
    /\ Insert(Head(frames).chunk)
    /\ UNCHANGED <<doneVars, runVars, readerVars, objects, pause, events, jobVars, mapped,
                   stored>>

\* Seeded fault: an insert that ends when all is done is not counted.
CountInsertDone(number) == IF all_done THEN number ELSE (number - 1) % Modulus

LessInsertActive(number) == (number - 1) % Modulus

\* DBObject::insertDoneSlot and, by its insertDoneSignal, insertDoneSlot.
InsertDone ==
    \E c \in DOMAIN content, d \in Dbos :
        /\ NextEvent(<<"insertDone", c, d>>)
        /\ insert_job' = insert_job \ {d}
        /\ insert_active' = LessInsertActive(insert_active)
        /\ UNCHANGED <<runVars, readerVars, objects, pause, frames, jobVars, mapped, db_line,
                       variable_sets, settled, stored, aborted>>
        /\ CheckAllDone

\* Nothing of a run is under way.
Rest ==
    /\ aborted = "no" /\ reader = "over" /\ events = <<>> /\ frames = <<>>
    /\ pool = <<>> /\ db_line = <<>>

\* The task stays connected to the objects it has inserted into: while it is not run, an
\* insert of another import into one of them calls its insertDoneSlot too.  (Not beside the
\* rest of a run that was found done too early: an object has one insert at a time.)
OtherInsertDone ==
    /\ others < MaxOthers /\ stored # {}
    /\ all_done /\ Rest
    /\ others' = others + 1
    /\ insert_active' = LessInsertActive(insert_active)
    /\ UNCHANGED <<doneVars, runs, content, tested, readerVars, objects, pause, events, frames,
                   jobVars, mapped, db_line, variable_sets, insert_job, settled, stored,
                   aborted>>

Slots == AddReadJSON \/ ReadJSONFileDone \/ ParseJSONDone \/ MapJSONDone \/ InsertDone

Frames == ContinueAddReadJSON \/ ContinueInsertData \/ WaitOn

\* A failed assertion ends the process.
Alive == aborted = "no"

Next == Alive /\ (Read \/ PoolEnd \/ InsertEnd \/ Slots \/ Frames \/ Run \/ OtherInsertDone)

(* Pool threads run their jobs, the manager thread reports them, and the   *)
(* innermost event loop dispatches what is posted and looks at the         *)
(* condition it waits for.                                                 *)
Fairness ==
    /\ WF_vars(Alive /\ Read)
    /\ WF_vars(Alive /\ PoolEnd)
    /\ WF_vars(Alive /\ InsertEnd)
    /\ WF_vars(Alive /\ Slots)
    /\ WF_vars(Alive /\ ContinueAddReadJSON)
    /\ WF_vars(Alive /\ ContinueInsertData)

Spec == Init /\ [][Next]_vars
FairSpec == Spec /\ Fairness

-----------------------------------------------------------------------------
Chunks == DOMAIN content

\* Places a chunk that was read can be at.
InFrame(c) == {i \in DOMAIN frames : frames[i].chunk = c}
InMapJobs(c) == {i \in DOMAIN map_jobs : map_jobs[i] = c}

(* The read job cuts a file at its JSON objects and loses none, whatever   *)
(* the file and the size of a part (looked at before the first run).       *)
PartsAreObjects == runs = <<>> => CutsAtObjects(Texts, 1 .. 3)

(* The chunks move through the stages one by one, whatever frames pile up  *)
(* and in whatever order these go on: each chunk read so far is at exactly *)
(* one place - to be moved out, held by a waiting slot, with the parse job *)
(* or a mapping job, or settled.                                           *)
EachChunkOnce ==
    \A c \in 1 .. read :
        Cardinality(InFrame(c)) + Cardinality(InMapJobs(c)) + Cardinality({c} \cap settled)
        + Cardinality({x \in {"objects"} : objects = c})
        + Cardinality({x \in {"parse"} : parse_job = c}) = 1

\* The chunks that waiting slots of this name hold.
HeldBy(slot) == {frames[i].chunk : i \in {k \in DOMAIN frames : frames[k].slot = slot}}

Pipeline == INSTANCE ChunkPipeline WITH
    OneAtWork <- FALSE,
    taken     <- read,
    waiting   <- HeldBy("addRead") \cup ({objects} \ {None}),
    working   <- map_jobs \o (IF parse_job = None THEN <<>> ELSE <<parse_job>>),
    mapped    <- HeldBy("insertData"),
    busy      <- insert_job,
    failed    <- aborted # "no"

(* The import implements ChunkPipeline over all its runs: each chunk goes  *)
(* from the reader to the parse and the mapping jobs, which it leaves in   *)
(* the order in which it came, and on to the insert of its buffers, none   *)
(* of them twice, although slots that wait go on innermost first.          *)
FollowsPipeline == Pipeline!Spec

(* dbobject.cpp:849 assert(!insert_job_): an object is given a buffer only *)
(* when its last insert is over.  insert_active_ counts the inserts, in a  *)
(* run and over the end of it, less those of other imports it was told of. *)
InsertsCounted ==
    /\ aborted # "!insert_job_"
    /\ insert_active = (Cardinality(insert_job) - others) % Modulus
    /\ \A d \in Dbos : d \in insert_job <=>
           \E c \in Chunks : <<c, d>> \in ToSet(db_line) \/ <<"insertDone", c, d>> \in ToSet(events)

(* When checkAllDone finds all done, the file is read, and the only chunks *)
(* not dealt with are those waiting slots hold: none is on its way.        *)
EndLeavesFramesOnly ==
    [][~all_done /\ all_done' =>
           /\ reader = "over" /\ read = Len(content)
           /\ \A c \in Chunks : c \in settled' \/ InFrame(c)' # {}]_vars

(* When nothing moves any more every chunk was dealt with, and the         *)
(* database holds rows only of objects that have a variable set (those the *)
(* first buffers had rows of).  It holds all of these, however early a run *)
(* was found done and the next one started, if no run was a test.          *)
RestStoresKnown ==
    Rest => LET known == {x \in Chunks \X variable_sets : x[2] \in content[x[1]]} IN
            /\ settled = Chunks
            /\ stored \subseteq known
            /\ TRUE \notin ToSet(runs) => stored = known

(* Whether the reader stays paused or comes to the end, and however early  *)
(* all was found done: in the end every chunk read was dealt with - unless *)
(* the count was disturbed, and then a slot waits for ever to insert.      *)
ReadIsSettled ==
    <>[](\/ 1 .. read \subseteq settled
         \/ others # 0 /\ \E i \in DOMAIN frames : frames[i].slot = "insertData")

(* doc/user_manual/task/task_import_json.tex:28 "Using the 'Test Import'   *)
(* button, the import function can be tested without inserting the data    *)
(* into the database".                                                     *)
TestInsertsNothing == \A x \in stored : x[1] \notin tested

=============================================================================
