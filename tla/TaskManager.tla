----------------------------- MODULE TaskManager -----------------------------
(***************************************************************************)
(* The tasks that prepare a database (src/src/task/): imports add rows,    *)
(* and position calculation, post-processing and associations compute      *)
(* something from the rows there are.  Each task has a member done_ and a  *)
(* property "done" of the database.  The properties are kept in memory and *)
(* written to the file when the database is closed; an import that ends    *)
(* takes back the properties of tasks that have to be run again.  Tasks    *)
(* are run by the user or, with command line options, in a fixed order by  *)
(* TaskManager::performAutomaticTasks, which waits for each in a nested    *)
(* event loop.                                                             *)
(***************************************************************************)
EXTENDS Naturals, Sequences, FiniteSets, SequencesExt

CONSTANTS
    Plans,     \* orders of automatic tasks the command line can ask for
    MaxRows,   \* bound: inserts of all imports
    MaxOpens,  \* bound: times the application is started
    MaxRuns,   \* bound: tasks the user runs
    None       \* no task

Imports  == {"asterix", "json", "gps"}
Computed == {"radar", "post", "artas", "assoc"}
Tasks    == Imports \cup Computed

\* The place of a task in performAutomaticTasks; ARTAS associations are never recommended.
Place == [asterix |-> 1, json |-> 2, gps |-> 3, radar |-> 4, post |-> 5, assoc |-> 6]

\* A part of performAutomaticTasks.
ASSUME PlansAssumption ==
    \A p \in Plans :
        /\ p \in Seq(DOMAIN Place)
        /\ \A i, j \in DOMAIN p : i < j => Place[p[i]] < Place[p[j]]
ASSUME BoundsAssumption == MaxRows \in Nat /\ MaxOpens \in Nat /\ MaxRuns \in Nat
ASSUME NoneAssumption == None \notin Tasks

VARIABLES
    ready,            \* is a database open?
    property,         \* the "done" properties in memory: "1", "0" or "none"
    saved,            \* the same in the file
    done,             \* done_ of the tasks
    contents,         \* the objects with data, as the object manager has counted them
    content_changed,  \* databaseContentChangedSignal is queued
    start_enabled,    \* the Start button
    running,          \* tasks under way
    num_radar_inserted,  \* the running imports that have inserted radar data
    plan,             \* automatic tasks still to be run
    waiting,          \* the task performAutomaticTasks waits for, or None
    asked,            \* history: the plan as the command line asked for it
    rows,             \* the inserts in the database, each "radar" or "other"
    covered,          \* history: for a task, the inserts its last run has seen
    left_out,         \* history: inserts after which nobody takes back the property
    given_up,         \* history: tasks that ended and are not done
    opens, runs,      \* what the bounds count
    aborted           \* the assertion that failed, or "no"

autoVars  == <<plan, waiting, asked>>
rowVars   == <<rows, covered, left_out>>
boundVars == <<opens, runs>>
vars == <<ready, property, saved, done, contents, content_changed, start_enabled, running,
          num_radar_inserted, autoVars, rowVars, given_up, boundVars, aborted>>

\* The tasks whose property an import sets to "0".
TakenBack == {"post", "artas"}

NoProperties == [t \in Tasks |-> "none"]
NotDone      == [t \in Tasks |-> FALSE]

Init ==
    /\ ready = FALSE
    /\ property = NoProperties
    /\ saved = NoProperties
    /\ done = NotDone
    /\ contents = {}
    /\ content_changed = FALSE
    /\ start_enabled = FALSE
    /\ running = {}
    /\ num_radar_inserted = {}
    /\ plan = <<>>
    /\ waiting = None
    /\ asked = <<>>
    /\ rows = <<>>
    /\ covered = [t \in TakenBack |-> {}]
    /\ left_out = [t \in TakenBack |-> {}]
    /\ given_up = {}
    /\ opens = 0
    /\ runs = 0
    /\ aborted = "no"

-----------------------------------------------------------------------------
(* checkPrerequisites, and what is shown of the tasks.                     *)

\* checkPrerequisites sets done_ to what the property says, if there is one.
DoneOf(properties, t, flag) ==
    IF properties[t] = "none" THEN flag ELSE properties[t] = "1"

\* The other conditions of checkPrerequisites.
Prerequisites(t) ==
    CASE t \in Imports            -> TRUE
      [] t = "radar"              -> "radar" \in contents
      [] t = "post"               -> contents # {}
      [] t \in {"artas", "assoc"} -> contents # {} /\ property["post"] = "1"

\* isRecommended: it can be run and is still to be done.
Recommended(t) == Prerequisites(t) /\ ~DoneOf(property, t, done[t])

\* Seeded fault: only one task is asked for its state.
UpdateOneState(t, flags) ==
    /\ done' = [flags EXCEPT ![t] = DoneOf(property', t, @)]
    /\ UNCHANGED start_enabled

\* TaskManagerWidget::updateTaskStates, at the doneSignal of task t or a change of the content:
\* of the tasks that are required only post-processing can still be to do.
UpdateTaskStates(t, flags) ==
    /\ done' = [u \in Tasks |-> DoneOf(property', u, flags[u])]
    /\ start_enabled' = done'["post"]

-----------------------------------------------------------------------------
(* The application: start, close, crash.                                   *)

\* DBObject::updateToDatabaseContent of every object.
Count == contents' = ToSet(rows)

\* A new process opens the database and loads its properties.  Automatic tasks begin when
\* the events of the opening have been dispatched.
Open ==
    /\ ~ready /\ opens < MaxOpens
    /\ opens' = opens + 1
    /\ ready' = TRUE
    /\ property' = saved
    /\ \/ /\ plan' = <<>>
          /\ content_changed' = TRUE
          /\ UNCHANGED <<contents, done, start_enabled>>
       \/ /\ plan' \in Plans
          /\ content_changed' = FALSE
          /\ Count
          /\ UpdateTaskStates("post", done)
    /\ asked' = plan'
    /\ UNCHANGED <<saved, running, num_radar_inserted, waiting, rowVars, given_up, runs, aborted>>

\* The process is gone; an import it was running leaves rows nobody knows of.
Closed(unknown) ==
    /\ ready' = FALSE
    /\ running' = {} /\ num_radar_inserted' = {}
    /\ plan' = <<>> /\ waiting' = None /\ asked' = <<>>
    /\ content_changed' = FALSE
    /\ property' = NoProperties
    /\ done' = NotDone
    /\ contents' = {}
    /\ start_enabled' = FALSE
    /\ given_up' = {}
    /\ left_out' = [t \in TakenBack |-> left_out[t] \cup unknown]
    /\ UNCHANGED <<rows, covered, boundVars, aborted>>

\* Tasks with a window of their own, modal to the application.
Modal == Tasks \ {"gps"}

\* COMPASS::shutdown with closeConnection, at the end of the automatic tasks or by the user.
Shutdown ==
    /\ ready /\ plan = <<>> /\ waiting = None /\ running \cap Modal = {}
    /\ Closed(IF running = {} THEN {} ELSE DOMAIN rows)
    /\ saved' = property

\* Only what was there at the last shutdown is in the file.
Crash ==
    /\ ready
    /\ Closed(DOMAIN rows)
    /\ UNCHANGED saved

\* DBObjectManager::databaseContentChangedSlot and TaskManager::dbObjectsChangedSlot
ContentChanged ==
    /\ content_changed
    /\ content_changed' = FALSE
    /\ Count
    /\ UNCHANGED property
    /\ UpdateTaskStates("post", done)
    /\ UNCHANGED <<ready, saved, running, num_radar_inserted, autoVars, rowVars, given_up,
                   boundVars, aborted>>

-----------------------------------------------------------------------------
(* Running a task.                                                         *)

\* The imports that begin with done_ = false.
Restarted == {"asterix", "json"}

\* TaskManager::runTask: the assertion on checkPrerequisites, then run().
RunTask(t) ==
    /\ IF Prerequisites(t)
       THEN /\ running' = running \cup {t}
            /\ num_radar_inserted' = num_radar_inserted \ {t}
            /\ done' = [done EXCEPT ![t] = t \notin Restarted /\ DoneOf(property, t, @)]
            /\ given_up' = given_up \ {t}
            /\ UNCHANGED aborted
       ELSE /\ aborted' = "checkPrerequisites"
            /\ UNCHANGED <<running, num_radar_inserted, done, given_up>>
    /\ UNCHANGED <<ready, property, saved, contents, content_changed, start_enabled, rowVars,
                   opens>>

\* The run button is there for the task shown, unless a modal window is.
UserRun ==
    /\ ready /\ running \cap Modal = {} /\ plan = <<>> /\ waiting = None
    /\ runs < MaxRuns
    /\ runs' = runs + 1
    /\ \E t \in Tasks \ running : Prerequisites(t) /\ RunTask(t)
    /\ UNCHANGED autoVars

\* performAutomaticTasks up to the loop that waits for the next task.  Before the first
\* computed task all that is queued has been dispatched.
AutomaticRun ==
    /\ ready /\ waiting = None /\ plan # <<>>
    /\ Head(plan) \in Imports \cup {"assoc"} \/ Recommended(Head(plan))
    /\ RunTask(Head(plan))
    /\ waiting' = Head(plan)
    /\ plan' = Tail(plan)
    /\ UNCHANGED <<runs, asked>>

\* Seeded fault: post-processing that is not recommended is left out like the other tasks.
AutomaticSkipOne ==
    /\ ready /\ waiting = None /\ plan # <<>>
    /\ Head(plan) \in {"radar", "post"} /\ ~Recommended(Head(plan))
    /\ plan' = Tail(plan)
    /\ done' = [done EXCEPT ![Head(plan)] = DoneOf(property, Head(plan), @)]
    /\ UNCHANGED <<ready, property, saved, contents, content_changed, start_enabled, running,
                   num_radar_inserted, waiting, asked, rowVars, given_up, boundVars, aborted>>

\* The position calculation is left out when it is not recommended; with post-processing that
\* is an error, and everything after it is left out too.
AutomaticSkip ==
    /\ ready /\ waiting = None /\ plan # <<>>
    /\ Head(plan) \in {"radar", "post"} /\ ~Recommended(Head(plan))
    /\ plan' = IF Head(plan) = "radar" THEN Tail(plan) ELSE <<>>
    /\ done' = [done EXCEPT ![Head(plan)] = DoneOf(property, Head(plan), @)]
    /\ UNCHANGED <<ready, property, saved, contents, content_changed, start_enabled, running,
                   num_radar_inserted, waiting, asked, rowVars, given_up, boundVars, aborted>>

\* The loop ends: the task is done, and processEvents has dispatched what its slots queued.
AutomaticGoesOn ==
    /\ ready /\ waiting # None /\ done[waiting] /\ ~content_changed
    /\ waiting' = None
    /\ UNCHANGED <<ready, property, saved, done, contents, content_changed, start_enabled,
                   running, num_radar_inserted, plan, asked, rowVars, given_up, boundVars,
                   aborted>>

-----------------------------------------------------------------------------
(* Imports.                                                                *)

\* Seeded fault: the GPS trail import does not know of post-processing.
TakesBackLess(t) ==
    CASE t = "asterix" -> {"post", "artas"}
      [] t = "json"    -> {"artas"}
      [] t = "gps"     -> {}

\* The properties an import sets to "0" at its end.
TakesBack(t) ==
    CASE t = "asterix" -> {"post", "artas"}
      [] t = "json"    -> {"artas"}
      [] t = "gps"     -> {"post"}

\* The task of which an import leaves the property as it is.
Missed(t) == CASE t = "asterix" -> {} [] t = "json" -> {"post"} [] t = "gps" -> {"artas"}

\* One insert job of an import.
Insert ==
    \E t \in running \cap Imports, kind \in {"radar", "other"} :
        /\ t = "gps" => kind = "other"
        /\ Len(rows) < MaxRows
        /\ rows' = Append(rows, kind)
        /\ num_radar_inserted' = IF kind = "radar" THEN num_radar_inserted \cup {t}
                                                    ELSE num_radar_inserted
        /\ left_out' = [u \in TakenBack |-> IF u \in Missed(t) THEN left_out[u] \cup {Len(rows')}
                                                                ELSE left_out[u]]
        /\ UNCHANGED <<ready, property, saved, done, contents, content_changed, start_enabled,
                       running, autoVars, covered, given_up, boundVars, aborted>>

\* What an import makes of the properties of tasks that have to be run again.
OthersAfter(t, u, positions) ==
    IF u \in TakesBack(t) THEN "0"
    ELSE IF u = "radar" /\ t \in num_radar_inserted THEN positions
    ELSE property[u]

\* Seeded fault: the flag is written as a word.
AfterImportInWords(t, positions) ==
    [u \in Tasks |-> IF u = t THEN "done" ELSE OthersAfter(t, u, positions)]

\* Seeded fault: the import does not set its own property.
AfterImportOfOthers(t, positions) == [u \in Tasks |-> OthersAfter(t, u, positions)]

\* The properties after an import: with radar data that of the position calculation tells
\* whether all rows have positions.
AfterImport(t, positions) ==
    [u \in Tasks |-> IF u = t THEN "1" ELSE OthersAfter(t, u, positions)]

\* updateToDatabaseContent of the trail's object, after an import of a GPS trail.
CountTrail(t) ==
    contents' = IF t = "gps" THEN contents \cup (ToSet(rows) \cap {"other"}) ELSE contents

\* insertDoneSlot (ASTERIX, GPS trail) and checkAllDone (JSON)
EndImport ==
    \E t \in running \cap Imports, positions \in {"0", "1"} :
        /\ property' = AfterImport(t, positions)
        /\ running' = running \ {t}
        /\ content_changed' = TRUE
        /\ UpdateTaskStates(t, [done EXCEPT ![t] = t # "asterix" \/ @])
        /\ CountTrail(t)
        /\ UNCHANGED <<ready, saved, num_radar_inserted, autoVars, rowVars, given_up, boundVars,
                       aborted>>

\* checkAllDone of the ASTERIX import finds the end in another slot than insertDoneSlot.
EndASTERIXSilently ==
    /\ "asterix" \in running
    /\ running' = running \ {"asterix"}
    /\ content_changed' = TRUE
    /\ given_up' = given_up \cup {"asterix"}
    /\ left_out' = [u \in TakenBack |-> DOMAIN rows]
    /\ UNCHANGED <<ready, property, saved, done, contents, start_enabled, num_radar_inserted,
                   autoVars, rows, covered, boundVars, aborted>>

-----------------------------------------------------------------------------
(* Computed tasks.  Their database jobs wait for those of a GPS trail      *)
(* import that is still under way.                                         *)

Computing == running \cap Computed

\* postProcessingJobDoneSlot, updateDoneSlot, createDoneSlot
EndComputed ==
    \E t \in Computing :
        /\ "gps" \notin running
        /\ running' = running \ {t}
        /\ property' = [property EXCEPT ![t] = "1"]
        /\ covered' = [u \in TakenBack |-> IF u = t THEN DOMAIN rows ELSE covered[u]]
        /\ UpdateTaskStates(t, [done EXCEPT ![t] = TRUE])
        /\ UNCHANGED <<ready, saved, contents, content_changed, num_radar_inserted, autoVars,
                       rows, left_out, given_up, boundVars, aborted>>

\* The position calculation ends without positions, or the user does not want them; the ARTAS
\* associations are not to be saved.
GiveUp ==
    \E t \in running \cap {"radar", "artas"} :
        /\ "gps" \notin running
        /\ running' = running \ {t}
        /\ given_up' = given_up \cup {t}
        /\ UNCHANGED property
        /\ IF t = "radar"
           THEN UNCHANGED <<done, start_enabled>>
           ELSE UpdateTaskStates(t, done)
        /\ UNCHANGED <<ready, saved, contents, content_changed, num_radar_inserted, autoVars,
                       rowVars, boundVars, aborted>>

Alive == aborted = "no"

Next ==
    /\ Alive
    /\ \/ Open \/ Shutdown \/ Crash \/ ContentChanged
       \/ UserRun \/ AutomaticRun \/ AutomaticSkip \/ AutomaticGoesOn
       \/ Insert \/ EndImport \/ EndASTERIXSilently \/ EndComputed \/ GiveUp

Spec == Init /\ [][Next]_vars

\* The event loop dispatches what is queued, the jobs of a task end, and performAutomaticTasks
\* runs on the main thread.  Nobody has to start, close or kill the application.
Fairness ==
    /\ WF_vars(Alive /\ ContentChanged)
    /\ WF_vars(Alive /\ EndImport)
    /\ WF_vars(Alive /\ EndComputed)
    /\ WF_vars(Alive /\ (AutomaticRun \/ AutomaticSkip \/ AutomaticGoesOn))

FairSpec == Spec /\ Fairness

-----------------------------------------------------------------------------
(* Properties.                                                             *)

\* Types of the variables.
TypeOK ==
    /\ ready \in BOOLEAN /\ content_changed \in BOOLEAN /\ start_enabled \in BOOLEAN
    /\ property \in [Tasks -> {"none", "0", "1"}]
    /\ saved \in [Tasks -> {"none", "0", "1"}]
    /\ done \in [Tasks -> BOOLEAN]
    /\ contents \subseteq {"radar", "other"}
    /\ running \subseteq Tasks
    /\ num_radar_inserted \subseteq Imports
    /\ plan \in Seq(Tasks) /\ asked \in Seq(Tasks)
    /\ waiting \in Tasks \cup {None}
    /\ rows \in Seq({"radar", "other"})
    /\ covered \in [TakenBack -> SUBSET Nat]
    /\ left_out \in [TakenBack -> SUBSET Nat]
    /\ given_up \subseteq Tasks
    /\ opens \in Nat /\ runs \in Nat
    /\ aborted \in {"no", "checkPrerequisites"}

\* What the application holds of a task, or will read when it opens the database again.
Property(t) == IF ready THEN property[t] ELSE saved[t]

\* While no import runs, post-processing and the ARTAS associations are only called done when
\* they have seen all rows, but for the rows of an import that takes nothing back, that was
\* cut off by the end of the process, or that ended without doneSignal.
DoneHasSeenRows ==
    \A t \in TakenBack :
        (running \cap Imports = {} /\ Property(t) = "1")
            => DOMAIN rows \subseteq covered[t] \cup left_out[t]

\* The assertion of TaskManager::runTask holds for the automatic tasks, although a GPS trail
\* import that was done before is not waited for and takes back the property of the
\* post-processing the associations need.  It can only fail for associations that were asked
\* for without post-processing: performAutomaticTasks asks canRun(), which looks at variables,
\* and runTask whether the database was post-processed.
PrerequisitesHold ==
    aborted = "checkPrerequisites" => waiting = "assoc" /\ "post" \notin ToSet(asked)

\* When nothing is queued the Start button is there exactly if the database is post-processed,
\* whichever task changed the property.
StartIsCurrent ==
    (ready /\ ~content_changed) => (start_enabled <=> property["post"] = "1")

\* The automatic tasks come to an end, unless one that is waited for ends and is not done, or
\* its assertion fails.
AutomaticTasksEnd ==
    plan # <<>> ~> \/ plan = <<>> /\ waiting = None
                  \/ waiting \in given_up
                  \/ aborted # "no"

=============================================================================
