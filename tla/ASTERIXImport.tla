---------------------------- MODULE ASTERIXImport ----------------------------
(***************************************************************************)
(* The import of an ASTERIX file (src/src/task/import/asterix/             *)
(* asteriximporttask.cpp, src/src/job/asterixdecodejob.cpp): a decode job  *)
(* hands one chunk after the other to the main thread, a mapping job turns *)
(* a chunk into one buffer per database object, and the objects insert     *)
(* their buffers with database jobs.  One chunk is mapped and one set of   *)
(* buffers inserted at a time: a slot that is early waits in a nested event*)
(* loop, so the frames of such slots pile up on the stack.                 *)
(***************************************************************************)
EXTENDS Naturals, Sequences, FiniteSets, SequencesExt

CONSTANTS
    NumChunks,  \* chunks of the file
    Dbos,       \* database objects
    Contents,   \* for each chunk, the objects it has records of: the files looked at
    None        \* the null pointer

Chunks == 1 .. NumChunks

ASSUME DbosAssumption     == IsFiniteSet(Dbos)
ASSUME ChunksAssumption   == NumChunks \in Nat \ {0} /\ None \notin Chunks
ASSUME ContentsAssumption == Contents \subseteq [Chunks -> SUBSET Dbos]

VARIABLES
    mode,                \* what run() was called for: "import", "test" or "stubs"
    summary,             \* show_done_summary_
    content,             \* the file
    decoder,             \* where run() of the decode job is
    decoded,             \* chunks decoded so far
    extracted,           \* extracted_data_: the chunk to be moved out, or None
    pause,               \* pause_
    events,              \* events posted to the main thread
    frames,              \* slots that wait in a nested event loop, innermost first
    decode_job,          \* is decode_job_ set?
    map_job,             \* the chunk of json_map_job_ (json_map_stub_job_), or None
    map_running,         \* is that job still to be reported?
    db_line,             \* inserts the job manager has: <<chunk, object>>
    insert_job,          \* objects with an insert_job_
    insert_active,       \* insert_active_
    waiting_for_insert,  \* waiting_for_insert_
    all_done,            \* all_done_
    status_widget,       \* is status_widget_ set?
    settled,             \* history: chunks mapped and, in an import, handed to the objects
    signals,             \* history: doneSignal emitted
    aborted              \* the assertion that failed, or "no"

fileVars    == <<mode, summary, content>>
decoderVars == <<decoder, decoded>>
insertVars  == <<db_line, insert_job, insert_active, waiting_for_insert>>
doneVars    == <<all_done, status_widget>>
vars == <<fileVars, decoderVars, extracted, pause, events, frames, decode_job, map_job,
          map_running, insertVars, doneVars, settled, signals, aborted>>

\* run() created the decode job and the status dialog.
Init ==
    /\ mode \in {"import", "test", "stubs"}
    /\ summary \in BOOLEAN
    /\ content \in Contents
    /\ decoder = "decode"
    /\ decoded = 0
    /\ extracted = None
    /\ pause = FALSE
    /\ events = <<>>
    /\ frames = <<>>
    /\ decode_job = TRUE
    /\ map_job = None
    /\ map_running = FALSE
    /\ db_line = <<>>
    /\ insert_job = {}
    /\ insert_active = 0
    /\ waiting_for_insert = FALSE
    /\ all_done = FALSE
    /\ status_widget = TRUE
    /\ settled = {}
    /\ signals = 0
    /\ aborted = "no"

Post(event) == events' = Append(events, event)

-----------------------------------------------------------------------------
(* The pool: ASTERIXDecodeJob::run, the mapping job, the insert jobs.      *)

DecodeChunk ==
    /\ decoder = "decode" /\ decoded < NumChunks
    /\ decoder' = "decoded"
    /\ decoded' = decoded + 1
    /\ extracted' = decoded + 1
    /\ UNCHANGED <<fileVars, pause, events, frames, decode_job, map_job, map_running,
                   insertVars, doneVars, settled, signals, aborted>>

\* Seeded fault: the decoder does not wait for the chunk to be moved out.
DecodeHandOver ==
    /\ decoder = "decoded" /\ ~pause
    /\ decoder' = "decode"
    /\ Post(<<"decoded">>)
    /\ UNCHANGED <<fileVars, decoded, extracted, pause, frames, decode_job, map_job,
                   map_running, insertVars, doneVars, settled, signals, aborted>>

\* Blocked while paused.
DecodeEmit ==
    /\ decoder = "decoded" /\ ~pause
    /\ decoder' = "emitted"
    /\ Post(<<"decoded">>)
    /\ UNCHANGED <<fileVars, decoded, extracted, pause, frames, decode_job, map_job,
                   map_running, insertVars, doneVars, settled, signals, aborted>>

\* Blocked until the data have been moved out.
DecodeGoOn ==
    /\ decoder = "emitted" /\ extracted = None
    /\ decoder' = "decode"
    /\ UNCHANGED <<fileVars, decoded, extracted, pause, events, frames, decode_job, map_job,
                   map_running, insertVars, doneVars, settled, signals, aborted>>

\* The file is at its end or the decoder throws; the manager thread reports the job.
DecodeEnd ==
    /\ decoder = "decode"
    /\ \/ decoded = NumChunks /\ Post(<<"decodeDone">>)
       \/ Post(<<"decodeError">>)
    /\ decoder' = "over"
    /\ UNCHANGED <<fileVars, decoded, extracted, pause, frames, decode_job, map_job,
                   map_running, insertVars, doneVars, settled, signals, aborted>>

Decode == DecodeChunk \/ DecodeEmit \/ DecodeGoOn \/ DecodeEnd

MapEnd ==
    /\ map_running
    /\ map_running' = FALSE
    /\ Post(<<"mapDone">>)
    /\ UNCHANGED <<fileVars, decoderVars, extracted, pause, frames, decode_job, map_job,
                   insertVars, doneVars, settled, signals, aborted>>

\* Database jobs are run and reported one after the other.
InsertEnd ==
    /\ db_line # <<>>
    /\ Post(<<"insertDone", Head(db_line)[1], Head(db_line)[2]>>)
    /\ db_line' = Tail(db_line)
    /\ UNCHANGED <<fileVars, decoderVars, extracted, pause, frames, decode_job, map_job,
                   map_running, insert_job, insert_active, waiting_for_insert, doneVars,
                   settled, signals, aborted>>

-----------------------------------------------------------------------------
(* The main thread.                                                        *)

Frame(slot, chunk) == [slot |-> slot, chunk |-> chunk]

NextEvent(event) == events # <<>> /\ Head(events) = event /\ events' = Tail(events)

\* assert(status_widget_), assert(!insert_job_) in insertData
Abort(assertion) == aborted' = assertion /\ UNCHANGED <<insertVars, doneVars, settled>>

MaxLoadReached == insert_active >= 2

\* checkAllDone, called with the state the step has reached.
CheckAllDone ==
    IF ~all_done /\ ~decode_job' /\ map_job' = None
       /\ ~waiting_for_insert' /\ insert_active' = 0
    THEN all_done' = TRUE /\ status_widget' = summary
    ELSE UNCHANGED doneVars

\* A mapping job is made of the chunk; the decoder is held back while inserts pile up.
StartMap(chunk) ==
    /\ map_job' = chunk
    /\ map_running' = TRUE
    /\ pause' = IF decode_job THEN mode # "stubs" /\ MaxLoadReached ELSE pause

\* addDecodedASTERIXSlot: only one mapping job can exist at a time.
AddDecodedASTERIX ==
    /\ NextEvent(<<"decoded">>)
    /\ IF ~decode_job \/ ~status_widget
       THEN Abort("decode_job_")
            /\ UNCHANGED <<extracted, pause, frames, decode_job, map_job, map_running>>
       ELSE /\ extracted' = None
            /\ \/ /\ map_job = None
                  /\ StartMap(extracted)
                  /\ UNCHANGED frames
               \/ /\ map_job # None
                  /\ frames' = <<Frame("addDecoded", extracted)>> \o frames
                  /\ pause' = TRUE
                  /\ UNCHANGED <<map_job, map_running>>
            /\ UNCHANGED <<decode_job, insertVars, doneVars, settled, aborted>>
    /\ UNCHANGED <<fileVars, decoderVars, signals>>

ContinueAddDecoded ==
    /\ frames # <<>> /\ Head(frames).slot = "addDecoded"
    /\ map_job = None
    /\ StartMap(Head(frames).chunk)
    /\ frames' = Tail(frames)
    /\ UNCHANGED <<fileVars, decoderVars, extracted, events, decode_job, insertVars, doneVars,
                   settled, signals, aborted>>

\* decodeASTERIXDoneSlot; an error is shown in a message box with its own event loop.
DecodeASTERIXDone ==
    \/ /\ NextEvent(<<"decodeDone">>)
       /\ decode_job' = FALSE
       /\ UNCHANGED <<fileVars, decoderVars, extracted, pause, frames, map_job, map_running,
                      insertVars, settled, signals, aborted>>
       /\ CheckAllDone
    \/ /\ NextEvent(<<"decodeError">>)
       /\ frames' = <<Frame("message", None)>> \o frames
       /\ UNCHANGED <<fileVars, decoderVars, extracted, pause, decode_job, map_job,
                      map_running, insertVars, doneVars, settled, signals, aborted>>

\* Seeded fault: with an error, checkAllDone is left out.
MessageClosedOnly ==
    /\ frames # <<>> /\ Head(frames).slot = "message"
    /\ frames' = Tail(frames)
    /\ decode_job' = FALSE
    /\ UNCHANGED <<fileVars, decoderVars, extracted, pause, events, map_job, map_running,
                   insertVars, doneVars, settled, signals, aborted>>

MessageClosed ==
    /\ frames # <<>> /\ Head(frames).slot = "message"
    /\ frames' = Tail(frames)
    /\ decode_job' = FALSE
    /\ UNCHANGED <<fileVars, decoderVars, extracted, pause, events, map_job, map_running,
                   insertVars, settled, signals, aborted>>
    /\ CheckAllDone

\* Seeded fault: the buffers of a chunk are counted as one insert.
CountOneInsert(number) == insert_active + 1

AddInsertActive(number) == insert_active + number

\* insertData behind its wait: every object with records gets an insert job.
Insert(chunk) ==
    LET dbos == content[chunk] IN
    IF dbos # {} /\ ~status_widget
    THEN Abort("status_widget_")
    ELSE IF dbos \cap insert_job # {}
    THEN Abort("!insert_job_")
    ELSE /\ waiting_for_insert' = FALSE
         /\ insert_active' = AddInsertActive(Cardinality(dbos))
         /\ insert_job' = insert_job \cup dbos
         /\ db_line' = db_line \o SetToSeq({<<chunk, d>> : d \in dbos})
         /\ settled' = settled \cup {chunk}
         /\ UNCHANGED aborted
         /\ CheckAllDone

\* mapJSONDoneSlot, insertData up to its wait.
MapJSONDone ==
    /\ mode # "stubs"
    /\ NextEvent(<<"mapDone">>)
    /\ UNCHANGED <<fileVars, decoderVars, extracted, signals>>
    /\ IF ~status_widget
       THEN Abort("status_widget_")
            /\ UNCHANGED <<pause, frames, decode_job, map_job, map_running>>
       ELSE /\ map_job' = None
            /\ pause' = IF decode_job THEN MaxLoadReached ELSE pause
            /\ UNCHANGED <<decode_job, map_running>>
            /\ \/ /\ mode = "test"
                  /\ settled' = settled \cup {map_job}
                  /\ UNCHANGED <<frames, insertVars, aborted>>
                  /\ CheckAllDone
               \/ /\ mode = "import" /\ insert_active > 0
                  /\ frames' = <<Frame("insertData", map_job)>> \o frames
                  /\ waiting_for_insert' = TRUE
                  /\ UNCHANGED <<db_line, insert_job, insert_active, doneVars, settled, aborted>>
               \/ /\ mode = "import" /\ insert_active = 0
                  /\ UNCHANGED frames
                  /\ Insert(map_job)

ContinueInsertData ==
    /\ frames # <<>> /\ Head(frames).slot = "insertData"
    /\ insert_active = 0
    /\ frames' = Tail(frames)
    /\ UNCHANGED <<fileVars, decoderVars, extracted, pause, events, decode_job, map_job,
                   map_running, signals>>
    /\ Insert(Head(frames).chunk)

\* Seeded fault: checkAllDone is left out.
MapStubsDoneOnly ==
    /\ mode = "stubs"
    /\ NextEvent(<<"mapDone">>)
    /\ map_job' = None
    /\ settled' = settled \cup {map_job}
    /\ UNCHANGED <<fileVars, decoderVars, extracted, pause, frames, decode_job, map_running,
                   insertVars, doneVars, signals, aborted>>

\* mapStubsDoneSlot
MapStubsDone ==
    /\ mode = "stubs"
    /\ NextEvent(<<"mapDone">>)
    /\ map_job' = None
    /\ settled' = settled \cup {map_job}
    /\ UNCHANGED <<fileVars, decoderVars, extracted, pause, frames, decode_job, map_running,
                   insertVars, signals, aborted>>
    /\ CheckAllDone

\* Seeded fault: insert_job_ is not reset.
KeepInsertJob(dbo) == insert_job

ForgetInsertJob(dbo) == insert_job \ {dbo}

\* DBObject::insertDoneSlot and, by its insertDoneSignal, insertDoneSlot.
InsertDone ==
    \E c \in Chunks, d \in Dbos :
        /\ NextEvent(<<"insertDone", c, d>>)
        /\ insert_job' = ForgetInsertJob(d)
        /\ insert_active' = insert_active - 1
        /\ UNCHANGED <<fileVars, decoderVars, extracted, pause, frames, decode_job, map_job,
                       map_running, db_line, waiting_for_insert, settled, aborted>>
        /\ CheckAllDone
        /\ signals' = IF all_done' /\ mode = "import" THEN signals + 1 ELSE signals

\* The loops of the innermost frame set these flags again in every turn.
WaitOn ==
    /\ frames # <<>>
    /\ \/ /\ Head(frames).slot = "addDecoded" /\ map_job # None
          /\ decode_job /\ ~pause
          /\ pause' = TRUE
          /\ UNCHANGED waiting_for_insert
       \/ /\ Head(frames).slot = "insertData" /\ insert_active > 0
          /\ ~waiting_for_insert
          /\ waiting_for_insert' = TRUE
          /\ UNCHANGED pause
    /\ UNCHANGED <<fileVars, decoderVars, extracted, events, frames, decode_job, map_job,
                   map_running, db_line, insert_job, insert_active, doneVars, settled,
                   signals, aborted>>

\* The user closes the status dialog: its button is shown when all is done.  The loops of
\* waiting slots exclude user input.
CloseStatusDialog ==
    /\ all_done /\ status_widget
    /\ \A i \in DOMAIN frames : i = 1 => frames[i].slot = "message"
    /\ status_widget' = FALSE
    /\ UNCHANGED <<fileVars, decoderVars, extracted, pause, events, frames, decode_job,
                   map_job, map_running, insertVars, all_done, settled, signals, aborted>>

Slots == AddDecodedASTERIX \/ DecodeASTERIXDone \/ MapJSONDone \/ MapStubsDone \/ InsertDone

Frames == ContinueAddDecoded \/ ContinueInsertData \/ MessageClosed \/ WaitOn

\* A failed assertion ends the process.
Alive == aborted = "no"

Next == Alive /\ (Decode \/ MapEnd \/ InsertEnd \/ Slots \/ Frames \/ CloseStatusDialog)

(* Pool threads run their jobs, the manager thread reports them, and the   *)
(* innermost event loop dispatches what is posted and looks at the         *)
(* condition it waits for; the user closes an error message.               *)
Fairness ==
    /\ WF_vars(Alive /\ Decode)
    /\ WF_vars(Alive /\ MapEnd)
    /\ WF_vars(Alive /\ InsertEnd)
    /\ WF_vars(Alive /\ Slots)
    /\ WF_vars(Alive /\ ContinueAddDecoded)
    /\ WF_vars(Alive /\ ContinueInsertData)
    /\ WF_vars(Alive /\ MessageClosed)

Spec == Init /\ [][Next]_vars
FairSpec == Spec /\ Fairness

-----------------------------------------------------------------------------
InFrame(c) == {i \in DOMAIN frames : frames[i].chunk = c}

\* Types of the variables ...
Typed ==
    /\ mode \in {"import", "test", "stubs"} /\ summary \in BOOLEAN /\ content \in Contents
    /\ decoder \in {"decode", "decoded", "emitted", "over"}
    /\ decoded \in 0 .. NumChunks
    /\ extracted \in Chunks \cup {None}
    /\ pause \in BOOLEAN
    /\ events \in Seq({<<e>> : e \in {"decoded", "decodeDone", "decodeError", "mapDone"}}
                     \cup ({"insertDone"} \X Chunks \X Dbos))
    /\ frames \in Seq([slot : {"addDecoded", "insertData", "message"}, chunk : Chunks \cup {None}])
    /\ decode_job \in BOOLEAN
    /\ map_job \in Chunks \cup {None} /\ map_running \in BOOLEAN
    /\ db_line \in Seq(Chunks \X Dbos)
    /\ insert_job \subseteq Dbos /\ insert_active \in Nat /\ waiting_for_insert \in BOOLEAN
    /\ all_done \in BOOLEAN /\ status_widget \in BOOLEAN
    /\ settled \subseteq Chunks /\ signals \in Nat

\* ... and insert_active_, which each slot of an insert takes one off, stays between zero and
\* the number of objects, whichever slots wait in each other.
TypeOK == Typed /\ insert_active \in 0 .. Cardinality(Dbos)

(* The chunks move through the stages one by one, whatever frames pile up: *)
(* each chunk decoded so far is at exactly one place - waiting to be moved *)
(* out, held by a waiting slot, with the mapping job, or settled - as long *)
(* as no assertion fails.                                                  *)
EachChunkOnce ==
    Alive => \A c \in 1 .. decoded :
        Cardinality(InFrame(c)) + Cardinality({x \in {"extracted"} : extracted = c})
        + Cardinality({x \in {"map"} : map_job = c}) + Cardinality({c} \cap settled) = 1

\* The chunks that waiting slots of this name hold.
HeldBy(slot) == {frames[i].chunk : i \in {k \in DOMAIN frames : frames[k].slot = slot}}

Pipeline == INSTANCE ChunkPipeline WITH
    OneAtWork <- TRUE,
    taken     <- decoded,
    waiting   <- HeldBy("addDecoded") \cup ({extracted} \ {None}),
    working   <- IF map_job = None THEN <<>> ELSE <<map_job>>,
    mapped    <- HeldBy("insertData"),
    busy      <- insert_job,
    failed    <- aborted # "no"

(* The import implements ChunkPipeline: whatever slots wait in each other,  *)
(* each chunk goes from the decoder to the mapping job and on to the insert *)
(* of its buffers, one at a time, none of them twice, and is lost only to   *)
(* an assertion that fails.                                                 *)
FollowsPipeline == Pipeline!Spec

(* dbobject.cpp:849 assert(!insert_job_): an object is given a buffer only *)
(* when its last insert is over, and insert_active_ counts the inserts.    *)
InsertsCounted ==
    /\ aborted # "!insert_job_"
    /\ insert_active = Cardinality(insert_job)
    /\ \A d \in Dbos : d \in insert_job <=>
           \E c \in Chunks : <<c, d>> \in ToSet(db_line) \/ <<"insertDone", c, d>> \in ToSet(events)

(* When nothing moves any more the import is over: all_done_ is set, every *)
(* chunk that was decoded has been dealt with, and no slot still waits.    *)
RestIsDone ==
    Alive /\ decoder = "over" /\ events = <<>> /\ frames = <<>> /\ db_line = <<>>
    /\ ~map_running
        => all_done /\ settled = 1 .. decoded

(* An import ends, or fails an assertion, or its decoder stays paused.     *)
EndsUnlessPaused == <>(all_done \/ ~Alive) \/ <>[](pause /\ decoder = "decoded")

(* asterixdecodejob.cpp:176 "block decoder until unpaused": a decoder that *)
(* was paused is unpaused some time.                                       *)
PausedIsUnpaused == (pause /\ decoder = "decoded") ~> (~pause \/ ~Alive)
=============================================================================
