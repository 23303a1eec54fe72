------------------------- MODULE TaskManagerProofs -------------------------
(***************************************************************************)
(* Theorems about TaskManager, for any orders of automatic tasks and any   *)
(* number of inserts, starts of the application and runs.                  *)
(***************************************************************************)
EXTENDS TaskManager, TLAPS

(* An import adds the index of its insert to those there are. *)
LEMMA AppendDomain ==
    ASSUME NEW S, NEW s \in Seq(S), NEW x \in S
    PROVE  /\ Append(s, x) \in Seq(S)
           /\ Len(Append(s, x)) \in Nat
           /\ DOMAIN Append(s, x) = DOMAIN s \cup {Len(Append(s, x))}
    OBVIOUS

(* The object manager counts objects that have rows. *)
LEMMA CountType ==
    ASSUME NEW S, NEW s \in Seq(S)
    PROVE  ToSet(s) \subseteq S
    BY DEF ToSet

(* The states shown are Booleans whatever the properties are. *)
LEMMA DoneType ==
    ASSUME NEW properties, NEW t, NEW flag \in BOOLEAN
    PROVE  DoneOf(properties, t, flag) \in BOOLEAN
    BY DEF DoneOf

(* The tasks that can be automatic. *)
LEMMA PlaceType ==
    /\ DOMAIN Place = {"asterix", "json", "gps", "radar", "post", "assoc"}
    /\ \A t \in DOMAIN Place : Place[t] \in 1 .. 6
    /\ Place["asterix"] = 1 /\ Place["json"] = 2 /\ Place["gps"] = 3 /\ Place["radar"] = 4
    /\ Place["post"] = 5 /\ Place["assoc"] = 6
    /\ DOMAIN Place \subseteq Tasks /\ None \notin DOMAIN Place
<1>1. DOMAIN Place = {"asterix", "json", "gps", "radar", "post", "assoc"}
    BY DEF Place
<1>2. /\ Place["asterix"] = 1 /\ Place["json"] = 2 /\ Place["gps"] = 3 /\ Place["radar"] = 4
      /\ Place["post"] = 5 /\ Place["assoc"] = 6
    BY DEF Place
<1>3. \A t \in DOMAIN Place : Place[t] \in 1 .. 6
    BY <1>1, <1>2
<1>4. DOMAIN Place \subseteq Tasks
    BY <1>1 DEF Tasks, Imports, Computed
<1> QED
    BY <1>1, <1>2, <1>3, <1>4, NoneAssumption

-----------------------------------------------------------------------------
(* Every variable keeps its type. *)
THEOREM TypeCorrect == Spec => []TypeOK
<1>1. Init => TypeOK
  <2> SUFFICES ASSUME Init PROVE TypeOK
      OBVIOUS
  <2>1. property \in [Tasks -> {"none", "0", "1"}] /\ saved \in [Tasks -> {"none", "0", "1"}]
      BY DEF Init, NoProperties
  <2>2. done \in [Tasks -> BOOLEAN]
      BY DEF Init, NotDone
  <2>3. rows \in Seq({"radar", "other"}) /\ plan \in Seq(Tasks) /\ asked \in Seq(Tasks)
      BY DEF Init
  <2>4. covered \in [TakenBack -> SUBSET Nat] /\ left_out \in [TakenBack -> SUBSET Nat]
      BY DEF Init
  <2> QED
      BY <2>1, <2>2, <2>3, <2>4 DEF Init, TypeOK
<1>2. TypeOK /\ [Next]_vars => TypeOK'
  <2> SUFFICES ASSUME TypeOK, [Next]_vars PROVE TypeOK'
      OBVIOUS
  <2> USE DEF TypeOK
  <2>0. ASSUME NEW t \in Tasks, NEW flags \in [Tasks -> BOOLEAN], UpdateTaskStates(t, flags)
        PROVE  done' \in [Tasks -> BOOLEAN] /\ start_enabled' \in BOOLEAN
    <3>1. done' = [u \in Tasks |-> DoneOf(property', u, flags[u])]
        BY <2>0 DEF UpdateTaskStates
    <3>2. done' \in [Tasks -> BOOLEAN]
        BY <3>1, DoneType
    <3>3. start_enabled' = done'["post"]
        BY <2>0 DEF UpdateTaskStates
    <3> QED
        BY <3>2, <3>3 DEF Tasks, Computed
  <2>1. CASE Open
    <3>1. CASE /\ plan' = <<>>
               /\ content_changed' = TRUE
               /\ UNCHANGED <<contents, done, start_enabled>>
        BY <2>1, <3>1 DEF Open, rowVars
    <3>2. CASE /\ plan' \in Plans
               /\ content_changed' = FALSE
               /\ Count
               /\ UpdateTaskStates("post", done)
      <4>1. "post" \in Tasks
          BY DEF Tasks, Computed
      <4>2. done' \in [Tasks -> BOOLEAN] /\ start_enabled' \in BOOLEAN
          BY <3>2, <4>1, <2>0
      <4>3. plan' \in Seq(Tasks) /\ content_changed' = FALSE
        <5>1. plan' \in Seq(DOMAIN Place) /\ content_changed' = FALSE
            BY <3>2, PlansAssumption
        <5>2. DOMAIN Place \subseteq Tasks
            BY PlaceType
        <5> HIDE DEF Place, Tasks
        <5> QED
            BY <5>1, <5>2
      <4>4. contents' \subseteq {"radar", "other"}
          BY <3>2, CountType DEF Count
      <4>5. ready' = TRUE /\ property' = saved /\ saved' = saved /\ opens' \in Nat
          BY <2>1 DEF Open
      <4>7. asked' \in Seq(Tasks)
          BY <2>1, <4>3 DEF Open
      <4>6. UNCHANGED <<running, num_radar_inserted, waiting, rows, covered, left_out, given_up,
                        runs, aborted>>
          BY <2>1 DEF Open, rowVars
      <4> QED
          BY <4>2, <4>3, <4>4, <4>5, <4>6, <4>7
    <3> QED
        BY <2>1, <3>1, <3>2 DEF Open
  <2>2. ASSUME NEW unknown \in SUBSET Nat, Closed(unknown), saved' \in {saved, property}
        PROVE  TypeOK'
    <3>1. left_out' = [t \in TakenBack |-> left_out[t] \cup unknown]
        BY <2>2 DEF Closed
    <3>2. left_out' \in [TakenBack -> SUBSET Nat]
        BY <3>1
    <3>3. property' \in [Tasks -> {"none", "0", "1"}] /\ done' \in [Tasks -> BOOLEAN]
        BY <2>2 DEF Closed, NoProperties, NotDone
    <3>4. plan' \in Seq(Tasks) /\ asked' \in Seq(Tasks) /\ waiting' = None
        BY <2>2 DEF Closed
    <3>5. /\ ready' = FALSE /\ content_changed' = FALSE /\ start_enabled' = FALSE
          /\ contents' = {} /\ running' = {} /\ num_radar_inserted' = {} /\ given_up' = {}
          /\ UNCHANGED <<rows, covered, opens, runs, aborted>>
        BY <2>2 DEF Closed, boundVars
    <3> QED
        BY <2>2, <3>2, <3>3, <3>4, <3>5
  <2>3. CASE Shutdown
    <3>1. (IF running = {} THEN {} ELSE DOMAIN rows) \in SUBSET Nat
        OBVIOUS
    <3> QED
        BY <2>3, <2>2, <3>1 DEF Shutdown
  <2>4. CASE Crash
      BY <2>4, <2>2 DEF Crash
  <2>5. CASE ContentChanged
    <3>1. done' \in [Tasks -> BOOLEAN] /\ start_enabled' \in BOOLEAN
        BY <2>5, <2>0 DEF ContentChanged, Tasks, Computed
    <3>2. contents' \subseteq {"radar", "other"}
        BY <2>5, CountType DEF ContentChanged, Count
    <3> QED
        BY <2>5, <3>1, <3>2 DEF ContentChanged, autoVars, rowVars, boundVars
  <2>6. ASSUME NEW t \in Tasks, RunTask(t), waiting' \in Tasks \cup {None}, plan' \in Seq(Tasks),
               runs' \in Nat, asked' = asked
        PROVE  TypeOK'
    <3>1. CASE Prerequisites(t)
      <4>1. DoneOf(property, t, done[t]) \in BOOLEAN
          BY DoneType
      <4>2. done' \in [Tasks -> BOOLEAN]
          BY <2>6, <3>1, <4>1 DEF RunTask
      <4> QED
          BY <2>6, <3>1, <4>2 DEF RunTask, rowVars
    <3>2. CASE ~Prerequisites(t)
        BY <2>6, <3>2 DEF RunTask, rowVars
    <3> QED
        BY <3>1, <3>2
  <2>7. CASE UserRun
      BY <2>7, <2>6 DEF UserRun, autoVars
  <2>8. CASE AutomaticRun
    <3>1. Head(plan) \in Tasks /\ Tail(plan) \in Seq(Tasks)
        BY <2>8 DEF AutomaticRun
    <3> QED
        BY <2>8, <2>6, <3>1 DEF AutomaticRun
  <2>9. CASE AutomaticSkip
    <3>1. Head(plan) \in Tasks /\ plan' \in Seq(Tasks)
        BY <2>9 DEF AutomaticSkip
    <3>2. DoneOf(property, Head(plan), done[Head(plan)]) \in BOOLEAN
        BY <3>1, DoneType
    <3>3. done' \in [Tasks -> BOOLEAN]
        BY <2>9, <3>1, <3>2 DEF AutomaticSkip
    <3> QED
        BY <2>9, <3>1, <3>3 DEF AutomaticSkip, rowVars, boundVars
  <2>10. CASE AutomaticGoesOn
      BY <2>10 DEF AutomaticGoesOn, rowVars, boundVars
  <2>11. CASE Insert
    <3>1. PICK t \in running \cap Imports, kind \in {"radar", "other"} :
             /\ rows' = Append(rows, kind)
             /\ num_radar_inserted' \in {num_radar_inserted, num_radar_inserted \cup {t}}
             /\ left_out' = [u \in TakenBack |-> IF u \in Missed(t)
                                                  THEN left_out[u] \cup {Len(rows')}
                                                  ELSE left_out[u]]
             /\ UNCHANGED <<ready, property, saved, done, contents, content_changed,
                            start_enabled, running, autoVars, covered, given_up, boundVars,
                            aborted>>
        BY <2>11 DEF Insert
    <3>2. rows' \in Seq({"radar", "other"}) /\ Len(rows') \in Nat
        BY <3>1, AppendDomain
    <3>3. left_out' \in [TakenBack -> SUBSET Nat]
        BY <3>1, <3>2
    <3> QED
        BY <3>1, <3>2, <3>3 DEF autoVars, boundVars
  <2>12. CASE EndImport
    <3>1. PICK t \in running \cap Imports, positions \in {"0", "1"} :
             /\ property' = AfterImport(t, positions)
             /\ running' = running \ {t}
             /\ content_changed' = TRUE
             /\ UpdateTaskStates(t, [done EXCEPT ![t] = t # "asterix" \/ @])
             /\ CountTrail(t)
             /\ UNCHANGED <<ready, saved, num_radar_inserted, autoVars, rowVars, given_up,
                            boundVars, aborted>>
        BY <2>12 DEF EndImport
    <3>2. property' \in [Tasks -> {"none", "0", "1"}]
        BY <3>1 DEF AfterImport, OthersAfter
    <3>3. [done EXCEPT ![t] = t # "asterix" \/ @] \in [Tasks -> BOOLEAN]
        OBVIOUS
    <3>4. done' \in [Tasks -> BOOLEAN] /\ start_enabled' \in BOOLEAN
        BY <3>1, <3>3, <2>0
    <3>5. contents' \subseteq {"radar", "other"}
        BY <3>1 DEF CountTrail
    <3> QED
        BY <3>1, <3>2, <3>4, <3>5 DEF autoVars, rowVars, boundVars
  <2>13. CASE EndASTERIXSilently
    <3>1. left_out' \in [TakenBack -> SUBSET Nat]
        BY <2>13 DEF EndASTERIXSilently
    <3> QED
        BY <2>13, <3>1 DEF EndASTERIXSilently, autoVars, boundVars
  <2>14. CASE EndComputed
    <3>1. PICK t \in Computing :
             /\ running' = running \ {t}
             /\ property' = [property EXCEPT ![t] = "1"]
             /\ covered' = [u \in TakenBack |-> IF u = t THEN DOMAIN rows ELSE covered[u]]
             /\ UpdateTaskStates(t, [done EXCEPT ![t] = TRUE])
             /\ UNCHANGED <<ready, saved, contents, content_changed, num_radar_inserted,
                            autoVars, rows, left_out, given_up, boundVars, aborted>>
        BY <2>14 DEF EndComputed
    <3>2. property' \in [Tasks -> {"none", "0", "1"}]
        BY <3>1
    <3>3. t \in Tasks /\ [done EXCEPT ![t] = TRUE] \in [Tasks -> BOOLEAN]
        BY DEF Computing
    <3>4. done' \in [Tasks -> BOOLEAN] /\ start_enabled' \in BOOLEAN
        BY <3>1, <3>3, <2>0
    <3>5. covered' \in [TakenBack -> SUBSET Nat]
        BY <3>1
    <3> QED
        BY <3>1, <3>2, <3>4, <3>5 DEF autoVars, boundVars
  <2>15. CASE GiveUp
    <3>1. PICK t \in running \cap {"radar", "artas"} :
             /\ running' = running \ {t}
             /\ given_up' = given_up \cup {t}
             /\ UNCHANGED property
             /\ IF t = "radar" THEN UNCHANGED <<done, start_enabled>>
                               ELSE UpdateTaskStates(t, done)
             /\ UNCHANGED <<ready, saved, contents, content_changed, num_radar_inserted,
                            autoVars, rowVars, boundVars, aborted>>
        BY <2>15 DEF GiveUp
    <3>2. done' \in [Tasks -> BOOLEAN] /\ start_enabled' \in BOOLEAN
        BY <3>1, <2>0
    <3> QED
        BY <3>1, <3>2 DEF autoVars, rowVars, boundVars
  <2>16. CASE UNCHANGED vars
      BY <2>16 DEF vars, autoVars, rowVars, boundVars
  <2> QED
      BY <2>1, <2>3, <2>4, <2>5, <2>7, <2>8, <2>9, <2>10, <2>11, <2>12, <2>13, <2>14, <2>15,
         <2>16 DEF Next
<1> QED
    BY <1>1, <1>2, PTL DEF Spec

-----------------------------------------------------------------------------
(* The Start button.                                                       *)

(* Post-processing is only done when its property says so: when the states are brought up to *)
(* date after the property went, the button goes too.  Without a database nothing is done.   *)
DoneByProperty ==
    /\ done["post"] => property["post"] = "1"
    /\ ~ready => ~start_enabled /\ ~done["post"] /\ ~content_changed /\ running = {}
    /\ StartIsCurrent

(* Whatever changed the property of post-processing, updateTaskStates makes the button right. *)
LEMMA StatesAreRight ==
    ASSUME TypeOK, NEW t \in Tasks, NEW flags \in [Tasks -> BOOLEAN],
           UpdateTaskStates(t, flags), ready', flags["post"] => property'["post"] # "none"
    PROVE  DoneByProperty'
<1>1. "post" \in Tasks
    BY DEF Tasks, Computed
<1>2. done'["post"] = DoneOf(property', "post", flags["post"])
    BY <1>1 DEF UpdateTaskStates
<1>3. done'["post"] <=> property'["post"] = "1"
  <2>1. CASE property'["post"] = "none"
    <3>1. flags["post"] = FALSE
        BY <2>1, <1>1
    <3> QED
        BY <2>1, <3>1, <1>2 DEF DoneOf
  <2>2. CASE property'["post"] # "none"
      BY <2>2, <1>2 DEF DoneOf
  <2> QED
      BY <2>1, <2>2
<1>4. start_enabled' = done'["post"]
    BY DEF UpdateTaskStates
<1> QED
    BY <1>3, <1>4 DEF DoneByProperty, StartIsCurrent

(* A step that leaves post-processing and the button alone keeps them right. *)
LEMMA StatesAreKept ==
    ASSUME TypeOK, DoneByProperty, ready, ready', content_changed' \in {content_changed, TRUE},
           property' = property, start_enabled' = start_enabled,
           done'["post"] => property["post"] = "1"
    PROVE  DoneByProperty'
    BY DEF DoneByProperty, StartIsCurrent, TypeOK

(* Whatever is run, ends or is closed, done and the button follow the property. *)
LEMMA PropertyRules == Spec => []DoneByProperty
<1>1. Init => DoneByProperty
    BY DEF Init, DoneByProperty, StartIsCurrent, NotDone, Tasks, Computed
<1>2. TypeOK /\ DoneByProperty /\ [Next]_vars => DoneByProperty'
  <2> SUFFICES ASSUME TypeOK, DoneByProperty, [Next]_vars PROVE DoneByProperty'
      OBVIOUS
  <2>0. /\ "post" \in Tasks /\ done \in [Tasks -> BOOLEAN] /\ content_changed \in BOOLEAN
        /\ property \in [Tasks -> {"none", "0", "1"}] /\ running \subseteq Tasks
        /\ plan \in Seq(Tasks) /\ ready \in BOOLEAN /\ start_enabled \in BOOLEAN
      BY DEF TypeOK, Tasks, Computed
  <2>1. CASE Open
    <3>1. ready' = TRUE /\ ~ready /\ done["post"] = FALSE
        BY <2>1, <2>0 DEF Open, DoneByProperty
    <3>2. CASE content_changed' = TRUE /\ UNCHANGED <<contents, done, start_enabled>>
        BY <3>1, <3>2 DEF DoneByProperty, StartIsCurrent
    <3>3. CASE UpdateTaskStates("post", done)
        BY <3>1, <3>3, <2>0, StatesAreRight
    <3> QED
        BY <2>1, <3>2, <3>3 DEF Open
  <2>2. ASSUME NEW unknown, Closed(unknown) PROVE DoneByProperty'
    <3>1. done'["post"] = FALSE /\ ready' = FALSE /\ start_enabled' = FALSE
        BY <2>2, <2>0 DEF Closed, NotDone
    <3>2. content_changed' = FALSE /\ running' = {}
        BY <2>2 DEF Closed
    <3> QED
        BY <3>1, <3>2 DEF DoneByProperty, StartIsCurrent
  <2>3. CASE Shutdown
      BY <2>3, <2>2 DEF Shutdown
  <2>4. CASE Crash
      BY <2>4, <2>2 DEF Crash
  <2>5. CASE ContentChanged
    <3>1. ready /\ ready' /\ property' = property /\ UpdateTaskStates("post", done)
        BY <2>5 DEF ContentChanged, DoneByProperty
    <3>2. done["post"] => property'["post"] # "none"
        BY <3>1 DEF DoneByProperty
    <3> QED
        BY <3>1, <3>2, <2>0, StatesAreRight
  <2>6. DoneOf(property, "post", done["post"]) => property["post"] = "1"
      BY DEF DoneOf, DoneByProperty
  <2>7. ASSUME NEW t \in Tasks, RunTask(t), ready PROVE DoneByProperty'
    <3>1. /\ property' = property /\ start_enabled' = start_enabled /\ ready'
          /\ content_changed' = content_changed
        BY <2>7 DEF RunTask
    <3>2. done' \in {done, [done EXCEPT ![t] = t \notin Restarted /\ DoneOf(property, t, @)]}
        BY <2>7 DEF RunTask
    <3>3. done'["post"] => property["post"] = "1"
      <4>1. CASE done' = done
          BY <4>1 DEF DoneByProperty
      <4>2. CASE done' = [done EXCEPT ![t] = t \notin Restarted /\ DoneOf(property, t, @)]
        <5>1. CASE t = "post"
            BY <4>2, <5>1, <2>0, <2>6
        <5>2. CASE t # "post"
            BY <4>2, <5>2, <2>0 DEF DoneByProperty
        <5> QED
            BY <5>1, <5>2
      <4> QED
          BY <3>2, <4>1, <4>2
    <3> QED
        BY <2>7, <3>1, <3>3, StatesAreKept
  <2>8. CASE UserRun
      BY <2>8, <2>7 DEF UserRun
  <2>9. CASE AutomaticRun
    <3>1. Head(plan) \in Tasks
        BY <2>9, <2>0 DEF AutomaticRun
    <3> QED
        BY <2>9, <2>7, <3>1 DEF AutomaticRun
  <2>10. CASE AutomaticSkip
    <3>1. Head(plan) \in {"radar", "post"} /\ ready /\ ready'
        BY <2>10 DEF AutomaticSkip
    <3>2. done' = [done EXCEPT ![Head(plan)] = DoneOf(property, Head(plan), @)]
        BY <2>10 DEF AutomaticSkip
    <3>3. done'["post"] => property["post"] = "1"
      <4>1. CASE Head(plan) = "post"
          BY <4>1, <3>2, <2>0, <2>6
      <4>2. CASE Head(plan) = "radar"
          BY <4>2, <3>2, <2>0 DEF DoneByProperty
      <4> QED
          BY <3>1, <4>1, <4>2
    <3>4. UNCHANGED <<property, content_changed, start_enabled>>
        BY <2>10 DEF AutomaticSkip
    <3> QED
        BY <3>1, <3>3, <3>4, StatesAreKept
  <2>11. CASE AutomaticGoesOn
    <3>1. ready /\ UNCHANGED <<ready, property, done, content_changed, start_enabled>>
        BY <2>11 DEF AutomaticGoesOn
    <3> QED
        BY <3>1, StatesAreKept DEF DoneByProperty
  <2>12. CASE Insert
    <3>1. ready /\ UNCHANGED <<ready, property, done, content_changed, start_enabled>>
        BY <2>12 DEF Insert, DoneByProperty
    <3> QED
        BY <3>1, StatesAreKept DEF DoneByProperty
  <2>13. CASE EndImport
    <3>1. PICK t \in running \cap Imports, positions \in {"0", "1"} :
             /\ property' = AfterImport(t, positions)
             /\ UpdateTaskStates(t, [done EXCEPT ![t] = t # "asterix" \/ @])
             /\ UNCHANGED ready
        BY <2>13 DEF EndImport
    <3>2. ready /\ ready' /\ t # "post" /\ t \in Tasks
        BY <3>1, <2>0 DEF DoneByProperty, Imports
    <3>3. [done EXCEPT ![t] = t # "asterix" \/ @]["post"] = done["post"]
        BY <3>2, <2>0
    <3>4. property'["post"] \in {"0", property["post"]}
        BY <3>1, <3>2, <2>0 DEF AfterImport, OthersAfter
    <3>5. done["post"] => property'["post"] # "none"
        BY <3>4 DEF DoneByProperty
    <3>6. [done EXCEPT ![t] = t # "asterix" \/ @] \in [Tasks -> BOOLEAN]
        BY <2>0
    <3> QED
        BY <3>1, <3>2, <3>3, <3>5, <3>6, StatesAreRight
  <2>14. CASE EndASTERIXSilently
    <3>1. ready /\ UNCHANGED <<ready, property, done, start_enabled>> /\ content_changed' = TRUE
        BY <2>14 DEF EndASTERIXSilently, DoneByProperty
    <3> QED
        BY <3>1, StatesAreKept DEF DoneByProperty
  <2>15. CASE EndComputed
    <3>1. PICK t \in Computing :
             /\ property' = [property EXCEPT ![t] = "1"]
             /\ UpdateTaskStates(t, [done EXCEPT ![t] = TRUE])
             /\ UNCHANGED ready
        BY <2>15 DEF EndComputed
    <3>2. ready /\ ready' /\ t \in Tasks
        BY <3>1, <2>0 DEF DoneByProperty, Computing
    <3>3. [done EXCEPT ![t] = TRUE]["post"] => property'["post"] # "none"
      <4>1. CASE t = "post"
          BY <4>1, <3>1, <2>0
      <4>2. CASE t # "post"
          BY <4>2, <3>1, <2>0 DEF DoneByProperty
      <4> QED
          BY <4>1, <4>2
    <3>4. [done EXCEPT ![t] = TRUE] \in [Tasks -> BOOLEAN]
        BY <2>0
    <3> QED
        BY <3>1, <3>2, <3>3, <3>4, StatesAreRight
  <2>16. CASE GiveUp
    <3>1. PICK t \in running \cap {"radar", "artas"} :
             /\ IF t = "radar" THEN UNCHANGED <<done, start_enabled>>
                               ELSE UpdateTaskStates(t, done)
             /\ UNCHANGED <<ready, property, content_changed>>
        BY <2>16 DEF GiveUp
    <3>2. ready /\ ready' /\ t \in Tasks
        BY <3>1, <2>0 DEF DoneByProperty
    <3>3. CASE t = "radar"
        BY <3>1, <3>2, <3>3, StatesAreKept DEF DoneByProperty
    <3>4. CASE t # "radar"
      <4>1. done["post"] => property'["post"] # "none"
          BY <3>1 DEF DoneByProperty
      <4> QED
          BY <3>1, <3>2, <3>4, <4>1, <2>0, StatesAreRight
    <3> QED
        BY <3>3, <3>4
  <2>17. CASE UNCHANGED vars
      BY <2>17 DEF vars, DoneByProperty, StartIsCurrent
  <2> QED
      BY <2>1, <2>3, <2>4, <2>5, <2>8, <2>9, <2>10, <2>11, <2>12, <2>13, <2>14, <2>15, <2>16,
         <2>17 DEF Next
<1> QED
    BY <1>1, <1>2, TypeCorrect, PTL DEF Spec

(* The Start button follows the property of post-processing. *)
THEOREM StartFollowsProperty == Spec => []StartIsCurrent
<1>1. DoneByProperty => StartIsCurrent
    BY DEF DoneByProperty
<1> QED
    BY <1>1, PropertyRules, PTL

-----------------------------------------------------------------------------
(* What is called done.                                                    *)

(* A task has seen the rows, as far as anybody tells it of them. *)
Seen(t) == DOMAIN rows \subseteq covered[t] \cup left_out[t]

(* Whoever inserts behind the back of a task that is done is still there to take it back; *)
(* what is in the file is only read again when all imports are over.                      *)
SeenOrTakenBack ==
    /\ ~ready => running = {}
    /\ \A u \in TakenBack :
          /\ ready /\ property[u] = "1" =>
                 Seen(u) \/ \E i \in running \cap Imports : u \in TakesBack(i)
          /\ ~ready /\ saved[u] = "1" => Seen(u)

(* Each import takes a task back or is known to leave it as it is. *)
LEMMA TakenOrMissed ==
    ASSUME NEW i \in Imports, NEW u \in TakenBack
    PROVE  u \in TakesBack(i) \/ u \in Missed(i)
<1>1. CASE i = "asterix"
    BY <1>1 DEF TakesBack, TakenBack
<1>2. CASE i = "json"
    BY <1>2 DEF TakesBack, Missed, TakenBack
<1>3. CASE i = "gps"
    BY <1>3 DEF TakesBack, Missed, TakenBack
<1> QED
    BY <1>1, <1>2, <1>3 DEF Imports

(* A step that changes no row and no property keeps the invariant, if imports only come. *)
LEMMA RowsAreKept ==
    ASSUME SeenOrTakenBack, ready, ready', running \cap Imports \subseteq running',
           UNCHANGED <<property, rows, covered, left_out>>
    PROVE  SeenOrTakenBack'
    BY DEF SeenOrTakenBack, Seen

(* Post-processing and ARTAS associations that are called done have seen the rows. *)
THEOREM DoneSeesRows == Spec => []DoneHasSeenRows
<1>1. Init => SeenOrTakenBack
    BY DEF Init, SeenOrTakenBack, NoProperties, TakenBack, Tasks, Computed
<1>2. TypeOK /\ SeenOrTakenBack /\ [Next]_vars => SeenOrTakenBack'
  <2> SUFFICES ASSUME TypeOK, SeenOrTakenBack, [Next]_vars PROVE SeenOrTakenBack'
      OBVIOUS
  <2>0. /\ TakenBack \subseteq Tasks /\ TakenBack \cap Imports = {} /\ "radar" \notin TakenBack
        /\ running \subseteq Tasks /\ rows \in Seq({"radar", "other"}) /\ ready \in BOOLEAN
        /\ property \in [Tasks -> {"none", "0", "1"}] /\ plan \in Seq(Tasks)
        /\ covered \in [TakenBack -> SUBSET Nat] /\ left_out \in [TakenBack -> SUBSET Nat]
        /\ Computed \cap Imports = {}
      BY DEF TypeOK, Tasks, Computed, Imports, TakenBack
  <2>1. CASE Open
    <3>1. ~ready /\ ready' /\ property' = saved /\ UNCHANGED <<running, rows, covered, left_out>>
        BY <2>1 DEF Open, rowVars
    <3> QED
        BY <3>1 DEF SeenOrTakenBack, Seen
  <2>2. CASE Shutdown
    <3>1. PICK unknown : Closed(unknown) /\ unknown = IF running = {} THEN {} ELSE DOMAIN rows
        BY <2>2 DEF Shutdown
    <3>2. /\ left_out' = [u \in TakenBack |-> left_out[u] \cup unknown]
          /\ ~ready' /\ running' = {} /\ UNCHANGED <<rows, covered>>
        BY <3>1 DEF Closed
    <3>3. ready /\ saved' = property
        BY <2>2 DEF Shutdown
    <3>4. ASSUME NEW u \in TakenBack, saved'[u] = "1" PROVE Seen(u)'
      <4>1. CASE running = {}
        <5>1. Seen(u)
            BY <3>3, <3>4, <4>1 DEF SeenOrTakenBack
        <5> QED
            BY <5>1, <3>2 DEF Seen
      <4>2. CASE running # {}
          BY <4>2, <3>1, <3>2 DEF Seen
      <4> QED
          BY <4>1, <4>2
    <3> QED
        BY <3>2, <3>4 DEF SeenOrTakenBack
  <2>3. CASE Crash
    <3>1. /\ left_out' = [u \in TakenBack |-> left_out[u] \cup DOMAIN rows]
          /\ ~ready' /\ running' = {} /\ UNCHANGED <<rows, covered>>
        BY <2>3 DEF Crash, Closed
    <3> QED
        BY <3>1 DEF SeenOrTakenBack, Seen
  <2>4. CASE ContentChanged
    <3>1. UNCHANGED <<ready, running, property, saved, rows, covered, left_out>>
        BY <2>4 DEF ContentChanged, rowVars
    <3> QED
        BY <3>1 DEF SeenOrTakenBack, Seen
  <2>5. ASSUME NEW t \in Tasks, RunTask(t), ready PROVE SeenOrTakenBack'
    <3>1. /\ ready' /\ running' \in {running, running \cup {t}}
          /\ UNCHANGED <<property, rows, covered, left_out>>
        BY <2>5 DEF RunTask, rowVars
    <3> QED
        BY <3>1, <2>5, RowsAreKept
  <2>6. CASE UserRun
      BY <2>6, <2>5 DEF UserRun
  <2>7. CASE AutomaticRun
    <3>1. Head(plan) \in Tasks
        BY <2>7, <2>0 DEF AutomaticRun
    <3> QED
        BY <2>7, <2>5, <3>1 DEF AutomaticRun
  <2>8. CASE AutomaticSkip
    <3>1. ready /\ UNCHANGED <<ready, running, property, rows, covered, left_out>>
        BY <2>8 DEF AutomaticSkip, rowVars
    <3> QED
        BY <3>1, RowsAreKept
  <2>9. CASE AutomaticGoesOn
    <3>1. ready /\ UNCHANGED <<ready, running, property, rows, covered, left_out>>
        BY <2>9 DEF AutomaticGoesOn, rowVars
    <3> QED
        BY <3>1, RowsAreKept
  <2>10. CASE Insert
    <3>1. PICK t \in running \cap Imports, kind \in {"radar", "other"} :
             /\ rows' = Append(rows, kind)
             /\ left_out' = [u \in TakenBack |-> IF u \in Missed(t)
                                                  THEN left_out[u] \cup {Len(rows')}
                                                  ELSE left_out[u]]
             /\ UNCHANGED <<ready, property, running, covered>>
        BY <2>10 DEF Insert
    <3>2. DOMAIN rows' = DOMAIN rows \cup {Len(rows')}
        BY <3>1, <2>0, AppendDomain
    <3>3. ready /\ ready'
        BY <3>1 DEF SeenOrTakenBack
    <3>4. ASSUME NEW u \in TakenBack, property[u] = "1"
          PROVE  Seen(u)' \/ \E i \in running \cap Imports : u \in TakesBack(i)
      <4>1. CASE u \in TakesBack(t)
          BY <4>1
      <4>2. CASE u \in Missed(t)
        <5>1. left_out'[u] = left_out[u] \cup {Len(rows')} /\ covered'[u] = covered[u]
            BY <3>1, <4>2
        <5>2. Seen(u) => Seen(u)'
            BY <5>1, <3>2 DEF Seen
        <5> QED
            BY <5>2, <3>3, <3>4 DEF SeenOrTakenBack
      <4> QED
          BY <4>1, <4>2, TakenOrMissed
    <3>5. running' = running /\ property' = property
        BY <3>1
    <3> QED
        BY <3>3, <3>4, <3>5 DEF SeenOrTakenBack
  <2>11. CASE EndImport
    <3>1. PICK t \in running \cap Imports, positions \in {"0", "1"} :
             /\ property' = AfterImport(t, positions)
             /\ running' = running \ {t}
             /\ UNCHANGED <<ready, rows, covered, left_out>>
        BY <2>11 DEF EndImport, rowVars
    <3>2. ready /\ ready'
        BY <3>1 DEF SeenOrTakenBack
    <3>3. ASSUME NEW u \in TakenBack, property'[u] = "1"
          PROVE  u \notin TakesBack(t) /\ property[u] = "1"
        BY <3>1, <3>3, <2>0 DEF AfterImport, OthersAfter
    <3>4. ASSUME NEW u \in TakenBack, property'[u] = "1"
          PROVE  Seen(u)' \/ \E i \in running' \cap Imports : u \in TakesBack(i)
      <4>1. CASE Seen(u)
          BY <4>1, <3>1 DEF Seen
      <4>2. CASE \E i \in running \cap Imports : u \in TakesBack(i)
          BY <4>2, <3>1, <3>3, <3>4
      <4> QED
          BY <4>1, <4>2, <3>2, <3>3, <3>4 DEF SeenOrTakenBack
    <3> QED
        BY <3>2, <3>4 DEF SeenOrTakenBack
  <2>12. CASE EndASTERIXSilently
    <3>1. /\ left_out' = [u \in TakenBack |-> DOMAIN rows]
          /\ UNCHANGED <<ready, rows>> /\ ready
        BY <2>12 DEF EndASTERIXSilently, SeenOrTakenBack
    <3>2. \A u \in TakenBack : Seen(u)'
        BY <3>1 DEF Seen
    <3> QED
        BY <3>1, <3>2 DEF SeenOrTakenBack
  <2>13. CASE EndComputed
    <3>1. PICK t \in Computing :
             /\ running' = running \ {t}
             /\ property' = [property EXCEPT ![t] = "1"]
             /\ covered' = [u \in TakenBack |-> IF u = t THEN DOMAIN rows ELSE covered[u]]
             /\ UNCHANGED <<ready, rows, left_out>>
        BY <2>13 DEF EndComputed
    <3>2. ready /\ ready' /\ running \cap Imports \subseteq running'
        BY <3>1, <2>0 DEF SeenOrTakenBack, Computing
    <3>3. ASSUME NEW u \in TakenBack, property'[u] = "1"
          PROVE  Seen(u)' \/ \E i \in running' \cap Imports : u \in TakesBack(i)
      <4>1. CASE u = t
          BY <4>1, <3>1 DEF Seen
      <4>2. CASE u # t
        <5>1. property[u] = "1" /\ (Seen(u) => Seen(u)')
            BY <4>2, <3>1, <3>3, <2>0 DEF Seen
        <5> QED
            BY <5>1, <3>2 DEF SeenOrTakenBack
      <4> QED
          BY <4>1, <4>2
    <3> QED
        BY <3>2, <3>3 DEF SeenOrTakenBack
  <2>14. CASE GiveUp
    <3>1. PICK t \in running \cap {"radar", "artas"} :
             /\ running' = running \ {t}
             /\ UNCHANGED <<ready, property, rows, covered, left_out>>
        BY <2>14 DEF GiveUp, rowVars
    <3>2. ready /\ ready' /\ running \cap Imports \subseteq running'
        BY <3>1 DEF SeenOrTakenBack, Imports
    <3> QED
        BY <3>1, <3>2, RowsAreKept
  <2>15. CASE UNCHANGED vars
    <3>1. UNCHANGED <<ready, running, property, saved, rows, covered, left_out>>
        BY <2>15 DEF vars, rowVars
    <3> QED
        BY <3>1 DEF SeenOrTakenBack, Seen
  <2> QED
      BY <2>1, <2>2, <2>3, <2>4, <2>6, <2>7, <2>8, <2>9, <2>10, <2>11, <2>12, <2>13, <2>14,
         <2>15 DEF Next
<1>3. SeenOrTakenBack => DoneHasSeenRows
    BY DEF SeenOrTakenBack, DoneHasSeenRows, Property, Seen
<1> QED
    BY <1>1, <1>2, <1>3, TypeCorrect, PTL DEF Spec

-----------------------------------------------------------------------------
(* The automatic tasks.                                                    *)

(* Is this automatic task still to be run? *)
Has(t) == \E i \in DOMAIN plan : plan[i] = t

(* The tasks of a plan come in the order of performAutomaticTasks. *)
InOrder(p) ==
    p \in Seq(DOMAIN Place) /\ \A i, j \in DOMAIN p : i < j => Place[p[i]] < Place[p[j]]

(* What is still to be run comes after what is waited for; only objects with rows count. *)
PlanSound ==
    /\ ~ready => plan = <<>> /\ waiting = None /\ running = {}
    /\ InOrder(plan)
    /\ waiting \in DOMAIN Place \cup {None}
    /\ waiting # None => \A i \in DOMAIN plan : Place[waiting] < Place[plan[i]]
    /\ contents \subseteq ToSet(rows)

(* The imports that begin with done_ = false run alone, with nothing queued that could set it: *)
(* only a GPS trail import is ever under way beside the computed tasks.                        *)
EarlyAlone ==
    /\ waiting \in Restarted =>
           /\ running \subseteq {waiting}
           /\ waiting \in running => ~content_changed /\ ~done[waiting]
    /\ waiting = None /\ plan # <<>> /\ Head(plan) \in Restarted =>
           running = {} /\ ~content_changed
    /\ plan # <<>> \/ waiting # None => running \cap Restarted \subseteq {waiting}

(* When both are asked for, associations are still behind post-processing; or this is under way *)
(* and not done, so that it is waited for; or it has ended, which it does when no import is left *)
(* to take it back.                                                                              *)
PostBefore ==
    "post" \in ToSet(asked) /\ Has("assoc") =>
        \/ Has("post")
        \/ /\ Head(plan) = "assoc" /\ contents # {}
           /\ \/ waiting = "post" /\ "post" \in running /\ property["post"] # "1"
              \/ property["post"] = "1" /\ running \cap Imports = {}

(* The inductive invariant of the automatic tasks. *)
PlanHolds == PlanSound /\ EarlyAlone /\ PostBefore

(* What is left of a plan when its first task is taken. *)
LEMMA RestOfPlan ==
    ASSUME NEW p, InOrder(p), p # <<>>
    PROVE  /\ Head(p) \in DOMAIN Place /\ InOrder(Tail(p))
           /\ \A i \in DOMAIN Tail(p) : Place[Head(p)] < Place[Tail(p)[i]]
           /\ \A t : (\E i \in DOMAIN p : p[i] = t) <=>
                        (t = Head(p) \/ \E i \in DOMAIN Tail(p) : Tail(p)[i] = t)
<1> DEFINE S    == DOMAIN Place
           rest == Tail(p)
<1>1. p \in Seq(S) /\ \A i, j \in DOMAIN p : i < j => Place[p[i]] < Place[p[j]]
    BY DEF InOrder
<1> HIDE DEF S
<1>2. /\ Head(p) \in S /\ Head(p) = p[1] /\ 1 \in DOMAIN p
      /\ rest \in Seq(S) /\ Len(rest) = Len(p) - 1 /\ Len(p) \in Nat /\ Len(p) > 0
      /\ DOMAIN p = 1 .. Len(p) /\ DOMAIN rest = 1 .. Len(rest)
      /\ \A i \in 1 .. Len(rest) : rest[i] = p[i + 1]
    BY <1>1
<1> HIDE DEF rest
<1>3. \A i \in DOMAIN rest : i + 1 \in DOMAIN p /\ 1 < i + 1 /\ rest[i] = p[i + 1]
    BY <1>2
<1>4. \A i \in DOMAIN rest : Place[Head(p)] < Place[rest[i]]
    BY <1>1, <1>2, <1>3
<1>5. ASSUME NEW i \in DOMAIN rest, NEW j \in DOMAIN rest, i < j
      PROVE  Place[rest[i]] < Place[rest[j]]
  <2>1. i + 1 < j + 1
      BY <1>2, <1>5
  <2> QED
      BY <1>1, <1>3, <2>1
<1>6. \A i \in DOMAIN p : i = 1 \/ (i - 1 \in DOMAIN rest /\ rest[i - 1] = p[i])
    BY <1>2
<1>7. ASSUME NEW t
      PROVE  (\E i \in DOMAIN p : p[i] = t) <=>
                 (t = Head(p) \/ \E i \in DOMAIN rest : rest[i] = t)
    BY <1>2, <1>3, <1>6
<1>8. InOrder(rest)
    BY <1>2, <1>5 DEF InOrder, S
<1> QED
    BY <1>2, <1>4, <1>7, <1>8 DEF rest, S

(* A step that leaves the plan alone, and counts only what is there. *)
LEMMA PlanIsKept ==
    ASSUME PlanSound, UNCHANGED <<plan, waiting>>, ready, ready', contents' \subseteq ToSet(rows')
    PROVE  PlanSound'
    BY DEF PlanSound, InOrder

(* A task that ends was the only one, while an import with done_ = false is waited for. *)
LEMMA EndKeepsEarly ==
    ASSUME EarlyAlone, NEW t \in running, running' = running \ {t}, UNCHANGED <<plan, waiting>>
    PROVE  EarlyAlone'
<1>1. waiting \in Restarted => running' = {}
    BY DEF EarlyAlone
<1>2. ~(waiting = None /\ plan # <<>> /\ Head(plan) \in Restarted)
    BY DEF EarlyAlone
<1> QED
    BY <1>1, <1>2 DEF EarlyAlone

(* Post-processing stays ahead of the associations. *)
LEMMA PostStaysBefore ==
    ASSUME PostBefore, UNCHANGED <<plan, waiting, asked>>, contents # {} => contents' # {},
           running' \cap Imports \subseteq running, "post" \in running => "post" \in running',
           \/ property'["post"] = property["post"]
           \/ running \cap Imports # {} /\ property'["post"] # "1"
    PROVE  PostBefore'
    BY DEF PostBefore, Has

(* A plan that begins with the associations has no post-processing left. *)
LEMMA AssociationsLast ==
    ASSUME InOrder(plan), plan # <<>>, Head(plan) = "assoc"
    PROVE  ~Has("post") /\ Has("assoc")
<1>1. \A i \in DOMAIN Tail(plan) : Place["assoc"] < Place[Tail(plan)[i]]
    BY RestOfPlan
<1>2. ~\E i \in DOMAIN Tail(plan) : Tail(plan)[i] = "post"
    BY <1>1, PlaceType
<1>3. \A t : Has(t) <=> (t = Head(plan) \/ \E i \in DOMAIN Tail(plan) : Tail(plan)[i] = t)
    BY RestOfPlan DEF Has
<1>4. Has("assoc")
    BY <1>3
<1>5. ~Has("post")
    BY <1>2, <1>3
<1> QED
    BY <1>4, <1>5

(* The first automatic task can be run when it is run, or it is the last and post-processing *)
(* was not asked for.                                                                        *)
LEMMA FirstCanRun ==
    ASSUME PlanHolds, AutomaticRun
    PROVE  \/ Prerequisites(Head(plan))
           \/ Head(plan) = "assoc" /\ "post" \notin ToSet(asked)
<1>1. plan # <<>> /\ waiting = None /\ InOrder(plan)
    BY DEF AutomaticRun, PlanHolds, PlanSound
<1>2. CASE Head(plan) \in Imports
    BY <1>2 DEF Prerequisites, Imports
<1>3. CASE Recommended(Head(plan))
    BY <1>3 DEF Recommended
<1>4. CASE Head(plan) = "assoc" /\ "post" \in ToSet(asked)
  <2>1. ~Has("post") /\ Has("assoc")
      BY <1>1, <1>4, AssociationsLast
  <2>2. contents # {} /\ property["post"] = "1"
      BY <1>1, <1>4, <2>1, NoneAssumption DEF PlanHolds, PostBefore, Tasks, Computed
  <2> QED
      BY <1>4, <2>2 DEF Prerequisites, Imports
<1> QED
    BY <1>2, <1>3, <1>4 DEF AutomaticRun

(* The next automatic task begins. *)
LEMMA RunKeepsPlan ==
    ASSUME TypeOK, PlanHolds, AutomaticRun
    PROVE  PlanHolds'
<1> DEFINE t == Head(plan)
<1>1. /\ ready /\ waiting = None /\ plan # <<>> /\ InOrder(plan)
      /\ contents \subseteq ToSet(rows)
    BY DEF AutomaticRun, PlanHolds, PlanSound
<1>2. waiting' = t /\ plan' = Tail(plan) /\ asked' = asked
    BY DEF AutomaticRun
<1>3. /\ Prerequisites(t) =>
             /\ running' = running \cup {t}
             /\ done' = [done EXCEPT ![t] = t \notin Restarted /\ DoneOf(property, t, @)]
      /\ ~Prerequisites(t) => UNCHANGED <<running, done>>
      /\ ~Prerequisites(t) => t = "assoc" /\ "post" \notin ToSet(asked)
      /\ UNCHANGED <<ready, property, contents, content_changed, rows>>
    BY FirstCanRun DEF AutomaticRun, RunTask, rowVars
<1>4. /\ t \in DOMAIN Place /\ InOrder(Tail(plan))
      /\ \A i \in DOMAIN Tail(plan) : Place[t] < Place[Tail(plan)[i]]
      /\ \A u : Has(u) <=> (u = t \/ \E i \in DOMAIN Tail(plan) : Tail(plan)[i] = u)
    BY <1>1, RestOfPlan DEF Has
<1>5. t \in Tasks /\ t # None /\ done \in [Tasks -> BOOLEAN]
    BY <1>4, PlaceType DEF TypeOK
<1>6. t \in Imports \cup {"assoc"} \/ Recommended(t)
    BY DEF AutomaticRun
<1> HIDE DEF t
<1>7. PlanSound'
    BY <1>1, <1>2, <1>3, <1>4 DEF PlanSound
<1>8. EarlyAlone'
  <2>1. t \in Restarted => running = {} /\ ~content_changed
      BY <1>1 DEF PlanHolds, EarlyAlone, t
  <2>2. running \cap Restarted = {}
      BY <1>1, NoneAssumption DEF PlanHolds, EarlyAlone, Restarted, Tasks, Imports
  <2>3. t \in Restarted => done'[t] = FALSE
      BY <1>3, <1>5 DEF Prerequisites, Restarted, Imports
  <2> QED
      BY <1>2, <1>3, <1>5, <2>1, <2>2, <2>3 DEF EarlyAlone
<1>9. PostBefore'
  <2> SUFFICES ASSUME "post" \in ToSet(asked), Has("assoc")', ~Has("post")'
               PROVE  /\ Head(plan') = "assoc" /\ contents' # {}
                      /\ waiting' = "post" /\ "post" \in running' /\ property'["post"] # "1"
      BY <1>2 DEF PostBefore
  <2>1. \A u : Has(u)' <=> \E i \in DOMAIN Tail(plan) : Tail(plan)[i] = u
      BY <1>2 DEF Has
  <2>2. Has("assoc") /\ Place[t] < Place["assoc"]
      BY <1>4, <2>1
  <2>3. t # "assoc"
      BY <2>2, PlaceType
  <2>4. Has("post")
      BY <2>2, <2>3 DEF PlanHolds, PostBefore, t
  <2>5. t = "post"
      BY <1>4, <2>1, <2>4
  <2>6. Recommended("post")
      BY <1>6, <2>5 DEF Imports
  <2>7. contents # {} /\ property["post"] # "1"
      BY <2>6 DEF Recommended, Prerequisites, DoneOf, Imports
  <2>8. Tail(plan) # <<>>
      BY <2>1
  <2>9. Head(plan') \in DOMAIN Place /\ Place["post"] < Place[Head(plan')]
    <3>1. InOrder(Tail(plan)) /\ 1 \in DOMAIN Tail(plan) /\ Head(Tail(plan)) = Tail(plan)[1]
        BY <1>4, <2>8 DEF InOrder
    <3> QED
        BY <1>2, <1>4, <2>5, <2>8, <3>1, RestOfPlan
  <2>10. Head(plan') = "assoc"
      BY <2>9, PlaceType
  <2> QED
      BY <1>2, <1>3, <2>5, <2>7, <2>10
<1> QED
    BY <1>7, <1>8, <1>9 DEF PlanHolds

(* A task is left out, or all that are left. *)
LEMMA SkipKeepsPlan ==
    ASSUME TypeOK, PlanHolds, AutomaticSkip
    PROVE  PlanHolds'
<1>1. /\ ready /\ waiting = None /\ plan # <<>> /\ InOrder(plan) /\ contents \subseteq ToSet(rows)
      /\ Head(plan) \in {"radar", "post"}
      /\ plan' = IF Head(plan) = "radar" THEN Tail(plan) ELSE <<>>
      /\ UNCHANGED <<ready, waiting, asked, running, property, contents, content_changed, rows>>
    BY DEF AutomaticSkip, rowVars, PlanHolds, PlanSound
<1>2. /\ InOrder(Tail(plan))
      /\ \A i \in DOMAIN Tail(plan) : Place[Head(plan)] < Place[Tail(plan)[i]]
      /\ \A u : Has(u) <=> (u = Head(plan) \/ \E i \in DOMAIN Tail(plan) : Tail(plan)[i] = u)
    BY <1>1, RestOfPlan DEF Has
<1>3. None \notin Restarted /\ running \cap Restarted = {}
    BY <1>1, NoneAssumption DEF PlanHolds, EarlyAlone, Restarted, Tasks, Imports
<1>5. CASE Head(plan) = "radar"
  <2>1. plan' = Tail(plan)
      BY <1>1, <1>5
  <2>2. plan' # <<>> => Head(plan') \notin Restarted
    <3> SUFFICES ASSUME plan' # <<>> PROVE Head(plan') \notin Restarted
        OBVIOUS
    <3>1. 1 \in DOMAIN Tail(plan) /\ Head(Tail(plan)) = Tail(plan)[1]
        BY <1>2, <2>1 DEF InOrder
    <3>2. Place["radar"] < Place[Head(plan')]
        BY <1>2, <1>5, <2>1, <3>1
    <3> QED
        BY <3>2, PlaceType DEF Restarted
  <2>3. PlanSound'
      BY <1>1, <1>2, <2>1 DEF PlanSound
  <2>4. EarlyAlone'
      BY <1>1, <1>3, <2>2 DEF EarlyAlone
  <2>5. PostBefore'
    <3>1. \A u : Has(u)' <=> \E i \in DOMAIN Tail(plan) : Tail(plan)[i] = u
        BY <2>1 DEF Has
    <3>2. "post" \in ToSet(asked) /\ Has("assoc")' => Has("post")
        BY <1>2, <1>5, <3>1 DEF PlanHolds, PostBefore
    <3>3. Has("post") => Has("post")'
        BY <1>2, <1>5, <3>1
    <3> QED
        BY <1>1, <3>2, <3>3 DEF PostBefore
  <2> QED
      BY <2>3, <2>4, <2>5 DEF PlanHolds
<1>6. CASE Head(plan) # "radar"
  <2>1. plan' = <<>>
      BY <1>1, <1>6
  <2>2. InOrder(plan')
      BY <2>1 DEF InOrder
  <2>3. PlanSound'
      BY <1>1, <2>1, <2>2 DEF PlanSound
  <2>4. waiting' = None /\ ~(plan' # <<>> \/ waiting' # None) /\ ~(waiting' \in Restarted)
      BY <1>1, <1>3, <2>1
  <2>5. EarlyAlone' /\ PostBefore'
      BY <2>1, <2>4 DEF EarlyAlone, PostBefore, Has
  <2> QED
      BY <2>3, <2>5 DEF PlanHolds
<1> QED
    BY <1>5, <1>6

(* The task that was waited for is done; if its import is over, nothing early is left. *)
LEMMA GoingOnKeepsPlan ==
    ASSUME TypeOK, DoneByProperty, PlanHolds, AutomaticGoesOn
    PROVE  PlanHolds'
<1>1. /\ ready /\ waiting # None /\ done[waiting] /\ ~content_changed /\ waiting' = None
      /\ UNCHANGED <<ready, running, property, done, contents, content_changed, plan, asked,
                     rows>>
    BY DEF AutomaticGoesOn, rowVars
<1>2. PlanSound /\ EarlyAlone /\ PostBefore
    BY DEF PlanHolds
<1>3. PlanSound'
    BY <1>1, <1>2 DEF PlanSound
<1>4. running \cap Restarted = {} /\ None \notin Restarted
    BY <1>1, <1>2, NoneAssumption DEF EarlyAlone, Restarted, Tasks, Imports
<1>5. ASSUME plan # <<>>, Head(plan) \in Restarted
      PROVE  running = {}
  <2>1. /\ InOrder(plan) /\ waiting \in DOMAIN Place
        /\ \A i \in DOMAIN plan : Place[waiting] < Place[plan[i]]
      BY <1>1, <1>2 DEF PlanSound
  <2>2. 1 \in DOMAIN plan /\ Head(plan) = plan[1]
      BY <1>5, <2>1 DEF InOrder
  <2>3. Place[waiting] < Place[Head(plan)]
      BY <2>1, <2>2
  <2>4. waiting \in Restarted
      BY <1>5, <2>1, <2>3, PlaceType DEF Restarted
  <2> QED
      BY <1>1, <1>2, <2>4 DEF EarlyAlone
<1>6. EarlyAlone'
    BY <1>1, <1>4, <1>5 DEF EarlyAlone
<1>7. ~(waiting = "post" /\ property["post"] # "1")
    BY <1>1 DEF DoneByProperty
<1>8. PostBefore'
    BY <1>1, <1>2, <1>7 DEF PostBefore, Has
<1> QED
    BY <1>3, <1>6, <1>8 DEF PlanHolds

(* The end of a task while the plan stays as it is. *)
LEMMA EndKeepsPlan ==
    ASSUME TypeOK, PlanHolds, EndImport \/ EndASTERIXSilently \/ EndComputed \/ GiveUp
    PROVE  PlanHolds'
<1>0. /\ PlanSound /\ EarlyAlone /\ PostBefore
      /\ property \in [Tasks -> {"none", "0", "1"}] /\ "post" \in Tasks
      /\ contents \subseteq ToSet(rows)
    BY DEF PlanHolds, PlanSound, TypeOK, Tasks, Computed
<1>1. ASSUME NEW t \in running, running' = running \ {t}, contents' \subseteq ToSet(rows'),
             UNCHANGED <<ready, plan, waiting>>, PostBefore'
      PROVE  PlanHolds'
  <2>1. ready
      BY <1>0, <1>1 DEF PlanSound
  <2>2. PlanSound' /\ EarlyAlone'
      BY <1>0, <1>1, <2>1, PlanIsKept, EndKeepsEarly
  <2> QED
      BY <1>1, <2>2 DEF PlanHolds
<1>2. CASE EndImport
  <2>1. PICK t \in running \cap Imports, positions \in {"0", "1"} :
           /\ property' = AfterImport(t, positions)
           /\ running' = running \ {t}
           /\ CountTrail(t)
           /\ UNCHANGED <<ready, plan, waiting, asked, rows>>
      BY <1>2 DEF EndImport, autoVars, rowVars
  <2>2. t # "post" /\ property'["post"] \in {"0", property["post"]}
      BY <1>0, <2>1 DEF AfterImport, OthersAfter, Imports
  <2>3. contents \subseteq contents' /\ contents' \subseteq ToSet(rows')
      BY <1>0, <2>1 DEF CountTrail
  <2>4. PostBefore'
      BY <1>0, <2>1, <2>2, <2>3, PostStaysBefore
  <2> QED
      BY <1>1, <2>1, <2>3, <2>4
<1>3. CASE EndASTERIXSilently
  <2>1. /\ "asterix" \in running /\ running' = running \ {"asterix"}
        /\ UNCHANGED <<ready, plan, waiting, asked, rows, contents, property>>
      BY <1>3 DEF EndASTERIXSilently, autoVars
  <2>2. PostBefore'
      BY <1>0, <2>1, PostStaysBefore
  <2> QED
      BY <1>0, <1>1, <2>1, <2>2
<1>4. CASE EndComputed
  <2>1. PICK t \in Computing :
           /\ "gps" \notin running
           /\ running' = running \ {t}
           /\ property' = [property EXCEPT ![t] = "1"]
           /\ UNCHANGED <<ready, plan, waiting, asked, rows, contents>>
      BY <1>4 DEF EndComputed, autoVars
  <2>2. t \in running
      BY DEF Computing
  <2>3. CASE t = "post"
    <3>1. property'["post"] = "1"
        BY <1>0, <2>1, <2>3
    <3>2. waiting = "post" => running' \cap Imports = {}
      <4>1. waiting = "post" => running \cap Restarted = {}
          BY <1>0, NoneAssumption DEF EarlyAlone, Restarted, Tasks, Computed
      <4>2. Imports = Restarted \cup {"gps"}
          BY DEF Imports, Restarted
      <4> QED
          BY <2>1, <4>1, <4>2
    <3>3. running \cap Imports = {} => running' \cap Imports = {}
        BY <2>1
    <3>4. PostBefore'
        BY <1>0, <2>1, <3>1, <3>2, <3>3 DEF PostBefore, Has
    <3> QED
        BY <1>0, <1>1, <2>1, <2>2, <3>4
  <2>4. CASE t # "post"
    <3>1. property'["post"] = property["post"]
        BY <1>0, <2>1, <2>4
    <3>2. PostBefore'
        BY <1>0, <2>1, <2>4, <3>1, PostStaysBefore
    <3> QED
        BY <1>0, <1>1, <2>1, <2>2, <3>2
  <2> QED
      BY <2>3, <2>4
<1>5. CASE GiveUp
  <2>1. PICK t \in running \cap {"radar", "artas"} :
           /\ running' = running \ {t}
           /\ UNCHANGED <<ready, plan, waiting, asked, rows, contents, property>>
      BY <1>5 DEF GiveUp, autoVars, rowVars
  <2>2. PostBefore'
      BY <1>0, <2>1, PostStaysBefore
  <2> QED
      BY <1>0, <1>1, <2>1, <2>2
<1> QED
    BY <1>2, <1>3, <1>4, <1>5

(* For any plans the assertion of runTask holds for the tasks the user runs and for all       *)
(* automatic tasks, but for associations that are asked for without post-processing.         *)
THEOREM AutomaticTasksCanRun == Spec => []PrerequisitesHold
<1>1. Init => PlanHolds
  <2> SUFFICES ASSUME Init PROVE PlanHolds
      OBVIOUS
  <2>1. /\ plan = <<>> /\ waiting = None /\ running = {} /\ contents = {}
      BY DEF Init
  <2>2. None \notin Restarted
      BY NoneAssumption DEF Restarted, Tasks, Imports
  <2> QED
      BY <2>1, <2>2 DEF PlanHolds, PlanSound, InOrder, EarlyAlone, PostBefore, Has
<1>2. TypeOK /\ DoneByProperty /\ PlanHolds /\ [Next]_vars => PlanHolds'
  <2> SUFFICES ASSUME TypeOK, DoneByProperty, PlanHolds, [Next]_vars PROVE PlanHolds'
      OBVIOUS
  <2>0. /\ PlanSound /\ EarlyAlone /\ PostBefore
        /\ rows \in Seq({"radar", "other"}) /\ contents \subseteq ToSet(rows)
        /\ None \notin Restarted
      BY NoneAssumption DEF PlanHolds, PlanSound, TypeOK, Restarted, Tasks, Imports
  <2>1. CASE Open
    <3>1. /\ ready' /\ running = {} /\ waiting' = None
          /\ asked' = plan' /\ UNCHANGED <<running, rows>>
        BY <2>0, <2>1 DEF Open, rowVars, PlanSound
    <3>2. CASE plan' = <<>> /\ UNCHANGED contents
        BY <2>0, <3>1, <3>2
        DEF PlanHolds, PlanSound, InOrder, EarlyAlone, PostBefore, Has
    <3>3. CASE plan' \in Plans /\ content_changed' = FALSE /\ Count
      <4>1. InOrder(plan') /\ ("post" \in ToSet(asked') => Has("post")')
          BY <3>1, <3>3, PlansAssumption DEF InOrder, Has, ToSet
      <4>2. contents' \subseteq ToSet(rows')
          BY <3>1, <3>3 DEF Count
      <4> QED
          BY <2>0, <3>1, <3>3, <4>1, <4>2
          DEF PlanHolds, PlanSound, EarlyAlone, PostBefore
    <3> QED
        BY <2>1, <3>2, <3>3 DEF Open
  <2>2. ASSUME NEW unknown, Closed(unknown) PROVE PlanHolds'
    <3>1. /\ plan' = <<>> /\ waiting' = None /\ running' = {} /\ contents' = {}
        BY <2>2 DEF Closed
    <3> QED
        BY <2>0, <3>1
        DEF PlanHolds, PlanSound, InOrder, EarlyAlone, PostBefore, Has
  <2>3. CASE Shutdown
      BY <2>3, <2>2 DEF Shutdown
  <2>4. CASE Crash
      BY <2>4, <2>2 DEF Crash
  <2>5. CASE ContentChanged
    <3>1. /\ ready /\ content_changed /\ contents' = ToSet(rows)
          /\ UNCHANGED <<ready, running, property, plan, waiting, asked, rows>>
        BY <2>5 DEF ContentChanged, Count, autoVars, rowVars, DoneByProperty
    <3>2. PlanSound' /\ PostBefore'
        BY <2>0, <3>1, PlanIsKept, PostStaysBefore
    <3>3. EarlyAlone'
        BY <2>0, <2>5, <3>1 DEF EarlyAlone, ContentChanged
    <3> QED
        BY <2>0, <3>1, <3>2, <3>3 DEF PlanHolds
  <2>6. CASE UserRun
    <3>1. PICK t \in Tasks : Prerequisites(t) /\ RunTask(t)
        BY <2>6 DEF UserRun
    <3>2. /\ ready /\ plan = <<>> /\ waiting = None
          /\ UNCHANGED <<ready, plan, waiting, asked, contents, rows>>
        BY <2>6, <3>1 DEF UserRun, RunTask, autoVars, rowVars
    <3>3. PlanSound'
        BY <2>0, <3>2, PlanIsKept
    <3> QED
        BY <2>0, <3>2, <3>3 DEF PlanHolds, EarlyAlone, PostBefore, Has
  <2>7. CASE AutomaticRun
      BY <2>7, RunKeepsPlan
  <2>8. CASE AutomaticSkip
      BY <2>8, SkipKeepsPlan
  <2>9. CASE AutomaticGoesOn
      BY <2>9, GoingOnKeepsPlan
  <2>10. CASE Insert
    <3>1. PICK t \in running \cap Imports, kind \in {"radar", "other"} :
             /\ rows' = Append(rows, kind)
             /\ UNCHANGED <<ready, property, done, contents, content_changed, running, plan,
                            waiting, asked>>
        BY <2>10 DEF Insert, autoVars
    <3>2. ready
        BY <2>0, <3>1 DEF PlanSound
    <3>3. ToSet(rows) \subseteq ToSet(rows')
        BY <2>0, <3>1 DEF ToSet
    <3>4. PlanSound' /\ PostBefore'
        BY <2>0, <3>1, <3>2, <3>3, PlanIsKept, PostStaysBefore
    <3>5. EarlyAlone'
        BY <2>0, <3>1 DEF EarlyAlone
    <3> QED
        BY <2>0, <3>1, <3>4, <3>5 DEF PlanHolds
  <2>11. CASE EndImport \/ EndASTERIXSilently \/ EndComputed \/ GiveUp
      BY <2>11, EndKeepsPlan
  <2>12. CASE UNCHANGED vars
    <3>1. UNCHANGED <<ready, property, done, contents, content_changed, running, plan, waiting,
                      asked, rows>>
        BY <2>12 DEF vars, autoVars, rowVars
    <3> QED
        BY <2>0, <3>1
        DEF PlanHolds, PlanSound, EarlyAlone, PostBefore, Has
  <2> QED
      BY <2>1, <2>3, <2>4, <2>5, <2>6, <2>7, <2>8, <2>9, <2>10, <2>11, <2>12 DEF Next
<1>3. PlanHolds /\ PrerequisitesHold /\ [Next]_vars => PrerequisitesHold'
  <2> SUFFICES ASSUME PlanHolds, PrerequisitesHold, [Next]_vars PROVE PrerequisitesHold'
      OBVIOUS
  <2>1. CASE UNCHANGED vars
      BY <2>1 DEF vars, autoVars, PrerequisitesHold
  <2>2. CASE Alive /\ AutomaticRun
    <3>1. CASE Prerequisites(Head(plan))
        BY <2>2, <3>1 DEF AutomaticRun, RunTask, PrerequisitesHold, Alive
    <3>2. CASE ~Prerequisites(Head(plan))
      <4>1. Head(plan) = "assoc" /\ "post" \notin ToSet(asked)
          BY <2>2, <3>2, FirstCanRun
      <4> QED
          BY <2>2, <4>1 DEF AutomaticRun, PrerequisitesHold
    <3> QED
        BY <3>1, <3>2
  <2>3. CASE Alive /\ UNCHANGED aborted
      BY <2>3 DEF PrerequisitesHold, Alive
  <2>4. Next => \/ Alive /\ AutomaticRun
                \/ Alive /\ UNCHANGED aborted
    <3>1. UserRun => UNCHANGED aborted
        BY DEF UserRun, RunTask
    <3>2. Open \/ Shutdown \/ Crash => UNCHANGED aborted
        BY DEF Open, Shutdown, Crash, Closed
    <3>3. ContentChanged \/ AutomaticSkip \/ AutomaticGoesOn => UNCHANGED aborted
        BY DEF ContentChanged, AutomaticSkip, AutomaticGoesOn
    <3>4. Insert \/ EndImport \/ EndASTERIXSilently => UNCHANGED aborted
        BY DEF Insert, EndImport, EndASTERIXSilently
    <3>5. EndComputed \/ GiveUp => UNCHANGED aborted
        BY DEF EndComputed, GiveUp
    <3> QED
        BY <3>1, <3>2, <3>3, <3>4, <3>5 DEF Next
  <2> QED
      BY <2>1, <2>2, <2>3, <2>4
<1>4. Init => PrerequisitesHold
    BY DEF Init, PrerequisitesHold
<1> QED
    BY <1>1, <1>2, <1>3, <1>4, TypeCorrect, PropertyRules, PTL DEF Spec
=============================================================================
