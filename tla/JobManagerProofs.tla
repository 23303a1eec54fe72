-------------------------- MODULE JobManagerProofs --------------------------
(***************************************************************************)
(* Theorems about JobManager for any set of jobs, any assignment of jobs to*)
(* the three queues and any size of the thread pool.                       *)
(***************************************************************************)
EXTENDS JobManager, TLAPS

USE JobsAssumption, KindAssumption, ThreadsAssumption

-----------------------------------------------------------------------------
(* What the queue operations do to the elements of a sequence.             *)

(* push adds one element to those of the queue. *)
LEMMA AppendRange ==
    ASSUME NEW S, NEW s \in Seq(S), NEW x \in S
    PROVE  Range(Append(s, x)) = Range(s) \cup {x}
<1>1. DOMAIN Append(s, x) = DOMAIN s \cup {Len(s) + 1}
    OBVIOUS
<1>2. \A i \in DOMAIN s : Append(s, x)[i] = s[i]
    OBVIOUS
<1>3. Append(s, x)[Len(s) + 1] = x
    OBVIOUS
<1> QED
    BY <1>1, <1>2, <1>3 DEF Range

(* try_pop splits the elements into the one it takes and the rest. *)
LEMMA PopRange ==
    ASSUME NEW S, NEW s \in Seq(S), s # <<>>
    PROVE  /\ Head(s) \in S /\ Tail(s) \in Seq(S)
           /\ Range(s) = {Head(s)} \cup Range(Tail(s))
           /\ IsInjective(s) => IsInjective(Tail(s)) /\ Head(s) \notin Range(Tail(s))
<1>1. Len(s) \in Nat \ {0} /\ DOMAIN s = 1 .. Len(s)
    OBVIOUS
<1>2. Tail(s) \in Seq(S) /\ DOMAIN Tail(s) = 1 .. Len(s) - 1
    BY <1>1
<1>3. \A i \in 1 .. Len(s) - 1 : Tail(s)[i] = s[i + 1]
    BY <1>1
<1>4. Head(s) = s[1]
    OBVIOUS
<1>5. Range(s) = {Head(s)} \cup Range(Tail(s))
  <2>1. ASSUME NEW x \in Range(s) PROVE x \in {Head(s)} \cup Range(Tail(s))
    <3>1. PICK i \in 1 .. Len(s) : x = s[i]
        BY <1>1 DEF Range
    <3>2. CASE i = 1
        BY <3>1, <3>2, <1>4
    <3>3. CASE i # 1
      <4>1. i - 1 \in 1 .. Len(s) - 1 /\ Tail(s)[i - 1] = x
          BY <3>1, <3>3, <1>1, <1>3
      <4> QED
          BY <4>1, <1>2 DEF Range
    <3> QED
        BY <3>2, <3>3
  <2>2. Head(s) \in Range(s)
      BY <1>1, <1>4 DEF Range
  <2>3. Range(Tail(s)) \subseteq Range(s)
      BY <1>1, <1>2, <1>3 DEF Range
  <2> QED
      BY <2>1, <2>2, <2>3
<1>6. ASSUME IsInjective(s)
      PROVE  IsInjective(Tail(s)) /\ Head(s) \notin Range(Tail(s))
    BY <1>6, <1>1, <1>2, <1>3, <1>4 DEF IsInjective, Range
<1> QED
    BY <1>1, <1>2, <1>4, <1>5, <1>6

(* A job that is not in the queue yet can be pushed without a duplicate. *)
LEMMA AppendInjective ==
    ASSUME NEW S, NEW s \in Seq(S), NEW x \in S, IsInjective(s), x \notin Range(s)
    PROVE  IsInjective(Append(s, x))
<1>1. DOMAIN Append(s, x) = 1 .. Len(s) + 1 /\ DOMAIN s = 1 .. Len(s) /\ Len(s) \in Nat
    OBVIOUS
<1>2. \A i \in 1 .. Len(s) : Append(s, x)[i] = s[i]
    OBVIOUS
<1>3. Append(s, x)[Len(s) + 1] = x
    OBVIOUS
<1> QED
    BY <1>1, <1>2, <1>3 DEF IsInjective, Range

(* doneSignal is emitted once more, or, for no job at all, nothing changes. *)
LEMMA CountUp ==
    ASSUME NEW S, NEW f \in [S -> Nat], NEW x, NEW g, g = [f EXCEPT ![x] = @ + 1]
    PROVE  g \in [S -> Nat] /\ \A i \in S : f[i] > 0 => g[i] > 0
<1>1. CASE x \in S
    BY <1>1
<1>2. CASE x \notin S
  <2>1. g = f
      BY <1>2
  <2> QED
      BY <2>1
<1> QED
    BY <1>1, <1>2

(* A round visits the queues in the order blocking, non-blocking, database. *)
LEMMA NextKindType == NextKind \in [Kinds -> Kinds]
    BY DEF NextKind, Kinds

-----------------------------------------------------------------------------
(* What flushing the active job leaves alone; only its last step takes the *)
(* job out of the manager.                                                 *)
LEMMA FlushSteps ==
    ASSUME TypeOK, Flush
    PROVE  /\ UNCHANGED <<queue, taken, cur, changed, stopped, stop_requested, database,
                          poolQueue, running, started, done, obsolete, main, calls>>
           /\ phase \in Flushing \cup {"flush"} /\ phase' \in Flushing \cup {"take"}
           /\ taken = None /\ taken' = None /\ cur \in Kinds
           /\ phase' = "take" => FlushLetGo
           /\ FlushLetGo \/ UNCHANGED active
    BY DEF Flush, FlushTest, FlushTestObsolete, FlushTestStop, FlushEmit, FlushLetGo,
           flushUnchanged, poolVars, Flushing, TypeOK

(* The last step takes it out of the active place of its queue only. *)
LEMMA LetGoStep ==
    ASSUME TypeOK, FlushLetGo
    PROVE  /\ phase = "letGo" /\ phase' = "take" /\ UNCHANGED reports
           /\ active'[cur] = None /\ \A k \in Kinds \ {cur} : active'[k] = active[k]
    BY DEF FlushLetGo, TypeOK

(* Every field keeps its type. *)
THEOREM TypeCorrect == Spec => []TypeOK
<1>1. Init => TypeOK
  <2> SUFFICES ASSUME Init PROVE TypeOK
      OBVIOUS
  <2>1. queue \in [Kinds -> Seq(Jobs)] /\ calls \in [Kinds -> Seq(Jobs)]
      BY DEF Init
  <2>2. active \in [Kinds -> Jobs \cup {None}] /\ reports \in [Jobs -> Nat]
      BY DEF Init
  <2>3. poolQueue \in Seq(Jobs)
      BY DEF Init
  <2> QED
      BY <2>1, <2>2, <2>3 DEF Init, TypeOK, Kinds
<1>2. TypeOK /\ [Next]_vars => TypeOK'
  <2> SUFFICES ASSUME TypeOK, [Next]_vars PROVE TypeOK'
      OBVIOUS
  <2> USE DEF TypeOK
  <2>1. ASSUME NEW j \in Jobs, Add(j) PROVE TypeOK'
    <3>1. queue' \in [Kinds -> Seq(Jobs)] /\ calls' \in [Kinds -> Seq(Jobs)]
        BY <2>1 DEF Add
    <3>2. poolQueue' \in Seq(Jobs)
        BY <2>1 DEF Add
    <3> QED
        BY <2>1, <3>1, <3>2 DEF Add, managerVars
  <2>2. ASSUME NEW j \in Jobs, Cancel(j) PROVE TypeOK'
      BY <2>2 DEF Cancel, managerVars, poolVars
  <2>3. ASSUME NEW j \in Jobs, Run(j) PROVE TypeOK'
      BY <2>3 DEF Run, RunDone, RunReturn, managerVars
  <2>4. CASE ShutdownRequest
      BY <2>4 DEF ShutdownRequest, managerVars, poolVars
  <2>5. CASE ShutdownTestActiveDB
      BY <2>5 DEF ShutdownTestActiveDB, managerVars, poolVars
  <2>6. CASE ShutdownMarkActiveDB
      BY <2>6 DEF ShutdownMarkActiveDB, managerVars, poolVars, Kinds
  <2>7. CASE ShutdownMarkQueues
    <3>1. \A k \in Kinds : Range(queue[k]) \subseteq Jobs
        BY DEF Range
    <3> QED
        BY <2>7, <3>1 DEF ShutdownMarkQueues, ShutdownMarkQueue, managerVars, poolVars, Kinds
  <2>8. CASE ShutdownWaitJobs
      BY <2>8 DEF ShutdownWaitJobs, managerVars, poolVars
  <2>9. CASE ShutdownWaitStopped
      BY <2>9 DEF ShutdownWaitStopped, managerVars, poolVars
  <2>10. CASE StartRound
      BY <2>10 DEF StartRound, poolVars, Kinds
  <2>11. CASE LeaveRun
      BY <2>11 DEF LeaveRun, poolVars
  <2>12. CASE Flush
    <3>0. UNCHANGED reports \/ reports' = [reports EXCEPT ![active[cur]] = @ + 1]
        BY <2>12 DEF Flush, FlushTest, FlushTestObsolete, FlushTestStop, FlushEmit, FlushLetGo
    <3>3. reports \in [Jobs -> Nat]
        OBVIOUS
    <3>4. reports' \in [Jobs -> Nat]
        BY <3>0, <3>3, CountUp
    <3>1. active' \in [Kinds -> Jobs \cup {None}]
        BY <2>12 DEF Flush, FlushTest, FlushTestObsolete, FlushTestStop, FlushEmit, FlushLetGo
    <3>2. taken' = None /\ phase' \in Flushing \cup {"take"}
        BY <2>12, FlushSteps
    <3> QED
      <4>1. UNCHANGED <<queue, cur, changed, stopped, stop_requested, database, poolQueue, running,
                        started, done, obsolete, main, calls>>
          BY <2>12, FlushSteps
      <4> QED
          BY <3>1, <3>2, <3>4, <4>1 DEF Flushing
  <2>13. CASE KeepActive
      BY <2>13, NextKindType DEF KeepActive, LeaveQueue, poolVars
  <2>14. CASE Take
      BY <2>14, PopRange DEF Take, poolVars
  <2>15. CASE NothingToTake
      BY <2>15, NextKindType DEF NothingToTake, LeaveQueue, poolVars
  <2>16. CASE Store
    <3>1. taken \in Jobs
        BY <2>16 DEF Store
    <3>2. CASE cur = "nonBlocking"
        BY <2>16, <3>1, <3>2 DEF Store
    <3>3. CASE cur # "nonBlocking"
      <4>1. poolQueue' = Append(poolQueue, taken) /\ LeaveQueue
          BY <2>16, <3>3 DEF Store
      <4>2. poolQueue' \in Seq(Jobs)
          BY <4>1, <3>1
      <4>3. phase' \in {"flush", "idle"} /\ cur' \in Kinds
          BY <4>1, NextKindType DEF LeaveQueue
      <4> QED
          BY <2>16, <3>1, <4>2, <4>3 DEF Store
    <3> QED
        BY <3>2, <3>3
  <2>17. CASE EndRound
      BY <2>17 DEF EndRound, poolVars
  <2>20. CASE EmitIdle
      BY <2>20 DEF EmitIdle, poolVars
  <2>18. CASE PoolStart
    <3>1. Head(poolQueue) \in Jobs /\ Tail(poolQueue) \in Seq(Jobs)
        BY <2>18, PopRange DEF PoolStart
    <3> QED
        BY <2>18, <3>1 DEF PoolStart, managerVars
  <2>19. CASE UNCHANGED vars
      BY <2>19 DEF vars, managerVars, poolVars
  <2> QED
      BY <2>1, <2>2, <2>3, <2>4, <2>5, <2>6, <2>7, <2>8, <2>9, <2>10, <2>11, <2>12,
         <2>13, <2>14, <2>15, <2>16, <2>17, <2>18, <2>19, <2>20
      DEF Next, Shutdown, Manager
<1> QED
    BY <1>1, <1>2, PTL DEF Spec

-----------------------------------------------------------------------------
(* How the set of added jobs grows.                                        *)

LEMMA AddedByAdd ==
    ASSUME TypeOK, NEW j \in Jobs, Add(j)
    PROVE  /\ Added' = Added \cup {j}
           /\ \A k \in Kinds : Range(queue'[k]) =
                  IF k = KindOf[j] THEN Range(queue[k]) \cup {j} ELSE Range(queue[k])
           /\ queue'[KindOf[j]] = Append(queue[KindOf[j]], j)
           /\ \A k \in Kinds \ {KindOf[j]} : queue'[k] = queue[k]
<1>1. KindOf[j] \in Kinds
    OBVIOUS
<1>2. /\ queue'[KindOf[j]] = Append(queue[KindOf[j]], j)
      /\ \A k \in Kinds \ {KindOf[j]} : queue'[k] = queue[k]
    BY <1>1 DEF Add, TypeOK
<1>3. /\ calls'[KindOf[j]] = Append(calls[KindOf[j]], j)
      /\ \A k \in Kinds \ {KindOf[j]} : calls'[k] = calls[k]
    BY <1>1 DEF Add, TypeOK
<1>4. /\ Range(queue'[KindOf[j]]) = Range(queue[KindOf[j]]) \cup {j}
      /\ Range(calls'[KindOf[j]]) = Range(calls[KindOf[j]]) \cup {j}
    BY <1>1, <1>2, <1>3, AppendRange DEF TypeOK
<1>5. Added' = Added \cup {j}
  <2>1. \A x : x \in Added <=> \E k \in Kinds : x \in Range(calls[k])
      BY Zenon DEF Added
  <2>2. \A x : x \in Added' <=> \E k \in Kinds : x \in Range(calls'[k])
      BY Zenon DEF Added
  <2>3. \A k \in Kinds : Range(calls'[k]) =
            IF k = KindOf[j] THEN Range(calls[k]) \cup {j} ELSE Range(calls[k])
      BY <1>3, <1>4
  <2> QED
      BY <1>1, <2>1, <2>2, <2>3
<1> QED
    BY <1>2, <1>4, <1>5

LEMMA AddedUnchanged ==
    ASSUME UNCHANGED calls
    PROVE  Added' = Added
BY DEF Added

-----------------------------------------------------------------------------
(* A job is in one place of the manager at a time. *)
THEOREM HeldOnceInvariant == Spec => []HeldOnce
<1>1. Init => HeldOnce
  <2> SUFFICES ASSUME Init PROVE HeldOnce
      OBVIOUS
  <2>1. \A k \in Kinds : queue[k] = <<>> /\ active[k] = None
      BY DEF Init
  <2>2. IsInjective(<<>>) /\ Range(<<>>) = {}
      BY DEF IsInjective, Range
  <2> QED
      BY <2>1, <2>2 DEF Init, HeldOnce
<1>2. TypeOK /\ HeldOnce /\ [Next]_vars => HeldOnce'
  <2> SUFFICES ASSUME TypeOK, HeldOnce, [Next]_vars PROVE HeldOnce'
      OBVIOUS
  <2>1. ASSUME NEW j \in Jobs, Add(j) PROVE HeldOnce'
    <3> DEFINE k == KindOf[j]
    <3>1. j \notin Added /\ k \in Kinds
        BY <2>1 DEF Add
    <3>2. UNCHANGED <<active, taken, cur, phase>>
        BY <2>1 DEF Add, managerVars
    <3>3. /\ queue'[k] = Append(queue[k], j) /\ Range(queue'[k]) = Range(queue[k]) \cup {j}
          /\ \A h \in Kinds \ {k} : queue'[h] = queue[h]
          /\ Added' = Added \cup {j}
        BY <2>1, <3>1, AddedByAdd
    <3>4. IsInjective(queue'[k])
      <4>1. queue[k] \in Seq(Jobs) /\ j \notin Range(queue[k]) /\ IsInjective(queue[k])
          BY <3>1 DEF HeldOnce, TypeOK
      <4> QED
          BY <3>3, <4>1, AppendInjective
    <3>5. ASSUME NEW h \in Kinds
          PROVE  /\ IsInjective(queue'[h])
                 /\ \A i \in Range(queue'[h]) : KindOf[i] = h /\ i \in Added'
                 /\ active'[h] # None => /\ KindOf[active'[h]] = h /\ active'[h] \in Added'
                                         /\ active'[h] \notin Range(queue'[h])
      <4>1. CASE h = k
          BY <3>1, <3>2, <3>3, <3>4, <4>1 DEF HeldOnce
      <4>2. CASE h # k
          BY <3>1, <3>2, <3>3, <4>2 DEF HeldOnce
      <4> QED
          BY <4>1, <4>2
    <3>6. taken # None => taken \notin Range(queue'[cur])
      <4>1. cur \in Kinds
          BY DEF TypeOK
      <4>2. taken # None => taken # j /\ taken \notin Range(queue[cur])
          BY <3>1 DEF HeldOnce
      <4>3. CASE cur = k
          BY <3>3, <4>2, <4>3
      <4>4. CASE cur # k
          BY <3>3, <4>1, <4>2, <4>4
      <4> QED
          BY <4>3, <4>4
    <3> QED
        BY <3>2, <3>3, <3>5, <3>6 DEF HeldOnce
  <2>2. CASE UNCHANGED <<queue, active, taken, cur, phase, calls>>
      BY <2>2, AddedUnchanged DEF HeldOnce
  <2>3. CASE \/ StartRound \/ LeaveRun \/ EndRound \/ EmitIdle \/ KeepActive \/ NothingToTake
    <3>1. UNCHANGED <<queue, active, calls, taken>> /\ taken = None
        BY <2>3 DEF StartRound, LeaveRun, EndRound, EmitIdle, KeepActive, NothingToTake, TypeOK
    <3>2. phase' \notin {"take", "store"}
        BY <2>3
        DEF StartRound, LeaveRun, EndRound, EmitIdle, KeepActive, NothingToTake, LeaveQueue
    <3> QED
        BY <3>1, <3>2, AddedUnchanged DEF HeldOnce
  <2>4. CASE Flush
    <3>1. CASE FlushLetGo
        BY <2>4, <3>1, FlushSteps, LetGoStep, AddedUnchanged DEF HeldOnce
    <3>2. CASE UNCHANGED active /\ phase' # "take"
        BY <2>4, <3>2, FlushSteps, AddedUnchanged DEF HeldOnce, Flushing
    <3> QED
        BY <2>4, <3>1, <3>2, FlushSteps
  <2>5. CASE Take
    <3>1. /\ UNCHANGED <<active, calls, cur>> /\ phase' = "store" /\ active[cur] = None
          /\ cur \in Kinds /\ taken' = Head(queue[cur]) /\ queue[cur] # <<>>
        BY <2>5 DEF Take, TypeOK, HeldOnce
    <3>2. queue'[cur] = Tail(queue[cur]) /\ \A k \in Kinds \ {cur} : queue'[k] = queue[k]
        BY <2>5 DEF Take, TypeOK
    <3>3. /\ Range(queue[cur]) = {taken'} \cup Range(queue'[cur])
          /\ IsInjective(queue'[cur]) /\ taken' \notin Range(queue'[cur])
        BY <3>1, <3>2, PopRange DEF HeldOnce, TypeOK
    <3> QED
        BY <3>1, <3>2, <3>3, AddedUnchanged DEF HeldOnce
  <2>6. CASE Store
    <3>1. /\ UNCHANGED <<queue, calls>> /\ cur \in Kinds
          /\ taken' = None /\ taken \in Jobs
        BY <2>6 DEF Store, TypeOK
    <3>2. active'[cur] = taken /\ \A k \in Kinds \ {cur} : active'[k] = active[k]
        BY <2>6 DEF Store, TypeOK
    <3>3. phase' \notin {"take", "store"}
      <4>1. phase' = "flush" \/ LeaveQueue
          BY <2>6 DEF Store
      <4> QED
          BY <4>1 DEF LeaveQueue
    <3> QED
        BY <3>1, <3>2, <3>3, AddedUnchanged DEF HeldOnce
  <2>7. ASSUME NEW j \in Jobs, Cancel(j) \/ Run(j)
        PROVE  UNCHANGED <<queue, active, taken, cur, phase, calls>>
      BY <2>7 DEF Cancel, Run, RunDone, RunReturn, managerVars
  <2>8. CASE ShutdownRequest \/ Shutdown \/ PoolStart \/ UNCHANGED vars
    <3>1. UNCHANGED <<queue, active, taken, cur, phase, calls>>
        BY <2>8 DEF ShutdownRequest, Shutdown, ShutdownTestActiveDB, ShutdownMarkActiveDB,
           ShutdownMarkQueues, ShutdownMarkQueue, ShutdownWaitJobs, ShutdownWaitStopped,
           PoolStart, managerVars, vars
    <3> QED
        BY <2>2, <3>1
  <2> QED
      BY <2>1, <2>2, <2>3, <2>4, <2>5, <2>6, <2>7, <2>8 DEF Next, Manager
<1> QED
    BY <1>1, <1>2, TypeCorrect, PTL DEF Spec

-----------------------------------------------------------------------------
(* A job that is reported has left the manager. *)
THEOREM HeldUnreportedInvariant == Spec => []HeldUnreported
<1>1. Init => HeldUnreported
  <2>1. Range(<<>>) = {}
      BY DEF Range
  <2> QED
      BY <2>1 DEF Init, HeldUnreported
<1>2. TypeOK /\ HeldOnce /\ HeldUnreported /\ [Next]_vars => HeldUnreported'
  <2> SUFFICES ASSUME TypeOK, HeldOnce, HeldUnreported, [Next]_vars PROVE HeldUnreported'
      OBVIOUS
  <2>1. ASSUME NEW j \in Jobs, Add(j) PROVE HeldUnreported'
    <3>1. /\ j \notin Added /\ Added' = Added \cup {j}
          /\ UNCHANGED <<active, taken, cur, phase, reports>>
          /\ \A k \in Kinds : Range(queue'[k]) \subseteq Range(queue[k]) \cup {j}
        BY <2>1, AddedByAdd DEF Add, managerVars
    <3>2. reports[j] = 0
        BY <3>1 DEF HeldUnreported
    <3> QED
        BY <3>1, <3>2 DEF HeldUnreported
  <2>2. CASE /\ UNCHANGED <<queue, active, taken, calls, reports>>
             /\ phase \notin Flushing \/ UNCHANGED <<phase, cur>>
      BY <2>2, AddedUnchanged DEF HeldUnreported
  <2>3. CASE Flush
    <3>1. UNCHANGED <<queue, calls, taken, cur>> /\ Added' = Added /\ cur \in Kinds
        BY <2>3, FlushSteps, AddedUnchanged
    <3>2. CASE UNCHANGED <<active, reports>> /\ phase' \in Flushing
        BY <3>1, <3>2 DEF HeldUnreported
    <3>3. CASE FlushLetGo
        BY <3>1, <3>3, LetGoStep DEF HeldUnreported
    <3>4. CASE /\ UNCHANGED active /\ phase \in Flushing /\ phase' \in Flushing
               /\ reports' = [reports EXCEPT ![active[cur]] = @ + 1]
      <4> DEFINE j == active[cur]
      <4>1. \A i \in Jobs \ {j} : reports'[i] = reports[i]
          BY <3>4 DEF TypeOK
      <4>2. \A k \in Kinds : active[k] # None /\ k # cur => active[k] # j /\ active[k] \in Jobs
          BY <3>1 DEF HeldOnce, TypeOK
      <4>3. \A k \in Kinds : j \notin Range(queue[k]) \ {None}
          BY <3>1 DEF HeldOnce
      <4>4. \A k \in Kinds : Range(queue[k]) \subseteq Jobs
          BY DEF TypeOK, Range
      <4>5. taken = None
          BY <2>3, FlushSteps
      <4>6. \A i \in Jobs \ Added : i # j
          BY <3>1, JobsAssumption DEF HeldOnce
      <4> QED
          BY <3>1, <3>4, <4>1, <4>2, <4>3, <4>4, <4>5, <4>6 DEF HeldUnreported
    <3> QED
        BY <2>3, <3>2, <3>3, <3>4
        DEF Flush, FlushTest, FlushTestObsolete, FlushTestStop, FlushEmit, Flushing
  <2>4. CASE Take
    <3>1. /\ UNCHANGED <<active, calls, reports>> /\ cur \in Kinds /\ phase \notin Flushing
          /\ taken' = Head(queue[cur]) /\ queue[cur] # <<>>
        BY <2>4 DEF Take, TypeOK, Flushing
    <3>2. queue'[cur] = Tail(queue[cur]) /\ \A k \in Kinds \ {cur} : queue'[k] = queue[k]
        BY <2>4 DEF Take, TypeOK
    <3>3. Range(queue[cur]) = {taken'} \cup Range(queue'[cur])
        BY <3>1, <3>2, PopRange DEF TypeOK
    <3>4. taken' # None => reports[taken'] = 0
        BY <3>1, <3>3 DEF HeldUnreported
    <3>5. \A k \in Kinds : Range(queue'[k]) \subseteq Range(queue[k])
        BY <3>2, <3>3
    <3> QED
        BY <3>1, <3>4, <3>5, AddedUnchanged DEF HeldUnreported
  <2>5. CASE Store
    <3>1. /\ UNCHANGED <<queue, calls, reports>> /\ cur \in Kinds /\ taken' = None
          /\ phase \notin Flushing
        BY <2>5 DEF Store, TypeOK, Flushing
    <3>2. active'[cur] = taken /\ \A k \in Kinds \ {cur} : active'[k] = active[k]
        BY <2>5 DEF Store, TypeOK
    <3> QED
        BY <3>1, <3>2, AddedUnchanged DEF HeldUnreported
  <2>6. CASE \/ StartRound \/ LeaveRun \/ EndRound \/ EmitIdle \/ KeepActive
             \/ NothingToTake \/ PoolStart
             \/ ShutdownRequest \/ Shutdown \/ UNCHANGED vars
             \/ \E j \in Jobs : Cancel(j) \/ Run(j)
    <3>1. /\ UNCHANGED <<queue, active, taken, calls, reports>>
          /\ phase \notin Flushing \/ UNCHANGED <<phase, cur>>
        BY <2>6
        DEF StartRound, LeaveRun, EndRound, EmitIdle, KeepActive, NothingToTake, PoolStart,
            Cancel, Run, RunDone, RunReturn, ShutdownRequest, Shutdown, ShutdownTestActiveDB,
            ShutdownMarkActiveDB, ShutdownMarkQueues, ShutdownMarkQueue, ShutdownWaitJobs,
            ShutdownWaitStopped, managerVars, vars, Flushing
    <3> QED
        BY <2>2, <3>1
  <2> QED
      BY <2>1, <2>3, <2>4, <2>5, <2>6 DEF Next, Manager
<1> QED
    BY <1>1, <1>2, TypeCorrect, HeldOnceInvariant, PTL DEF Spec

-----------------------------------------------------------------------------
(* Arithmetic on positions in a sequence. *)
LEMMA Difference ==
    ASSUME NEW a \in Nat, NEW b \in Nat
    PROVE  a - b <= a /\ (a - b) + b = a /\ (a - b) + (b + 1) = a + 1
OBVIOUS

(* The positions of the jobs that are gone from a queue. *)
LEMMA PositionInCalls ==
    ASSUME TypeOK, QueueIsSuffix
    PROVE  \A k \in Kinds : /\ Position(k) \in Nat /\ Position(k) <= Len(calls[k])
                           /\ Len(calls[k]) \in Nat /\ DOMAIN calls[k] = 1 .. Len(calls[k])
                           /\ \A i \in 1 .. Position(k) : calls[k][i] \in Jobs
<1> SUFFICES ASSUME NEW k \in Kinds
             PROVE  /\ Position(k) \in Nat /\ Position(k) <= Len(calls[k])
                    /\ Len(calls[k]) \in Nat /\ DOMAIN calls[k] = 1 .. Len(calls[k])
                    /\ \A i \in 1 .. Position(k) : calls[k][i] \in Jobs
    OBVIOUS
<1>1. calls[k] \in Seq(Jobs) /\ queue[k] \in Seq(Jobs) /\ Position(k) \in Nat
    BY DEF TypeOK, QueueIsSuffix, SuffixOf
<1>2. Len(calls[k]) \in Nat /\ Len(queue[k]) \in Nat /\ DOMAIN calls[k] = 1 .. Len(calls[k])
    BY <1>1
<1>3. Position(k) <= Len(calls[k])
    BY <1>2, Difference DEF Position
<1>4. \A i \in 1 .. Position(k) : i \in 1 .. Len(calls[k])
    BY <1>1, <1>2, <1>3
<1> QED
    BY <1>1, <1>2, <1>3, <1>4

(* The job that is being flushed is the last of those gone from the queue, *)
(* and unless the manager is stopped all before it are reported.           *)
LEMMA FlushedIsLast ==
    ASSUME TypeOK, QueueIsSuffix, phase # "store", active[cur] # None
    PROVE  /\ Position(cur) \in DOMAIN calls[cur] /\ calls[cur][Position(cur)] = active[cur]
           /\ stop_requested \/ \A i \in 1 .. Position(cur) - 1 : reports[calls[cur][i]] > 0
<1>1. cur \in Kinds /\ taken = None /\ Popped(cur) = {active[cur]} /\ SuffixOf(cur)
    BY DEF TypeOK, Popped, QueueIsSuffix
<1>2. /\ Position(cur) \in Nat /\ Position(cur) <= Len(calls[cur]) /\ Len(calls[cur]) \in Nat
      /\ DOMAIN calls[cur] = 1 .. Len(calls[cur])
    BY <1>1, PositionInCalls
<1>3. calls[cur][Position(cur)] = active[cur] /\ Position(cur) > 0
    BY <1>1 DEF SuffixOf
<1>4. Position(cur) \in DOMAIN calls[cur]
    BY <1>2, <1>3
<1>5. ASSUME ~stop_requested, NEW i \in 1 .. Position(cur) - 1 PROVE reports[calls[cur][i]] > 0
  <2>1. i \in 1 .. Position(cur) /\ i # Position(cur) /\ i \in DOMAIN calls[cur]
      BY <1>2, <1>3
  <2>2. calls[cur][i] # active[cur]
      BY <1>1, <1>3, <1>4, <2>1 DEF SuffixOf, IsInjective
  <2> QED
      BY <1>1, <1>5, <2>1, <2>2 DEF SuffixOf
<1> QED
    BY <1>3, <1>4, <1>5

(* A queue stays what is left of the jobs added to it. *)
LEMMA SuffixStep ==
    ASSUME TypeOK, HeldOnce, FlushKnows, QueueIsSuffix, [Next]_vars
    PROVE  QueueIsSuffix'
<1>1. ASSUME NEW j \in Jobs, Add(j) PROVE QueueIsSuffix'
  <2> DEFINE k == KindOf[j]
  <2>1. /\ k \in Kinds /\ j \notin Added
        /\ UNCHANGED <<active, taken, cur, reports, stop_requested>>
        /\ queue'[k] = Append(queue[k], j) /\ calls'[k] = Append(calls[k], j)
        /\ \A h \in Kinds \ {k} : queue'[h] = queue[h] /\ calls'[h] = calls[h]
      BY <1>1 DEF Add, TypeOK, managerVars
  <2>2. j \notin Range(calls[k])
      BY <2>1 DEF Added
  <2>3. queue[k] \in Seq(Jobs) /\ calls[k] \in Seq(Jobs)
      BY <2>1 DEF TypeOK
  <2>4. /\ IsInjective(calls'[k]) /\ Range(calls'[k]) = Range(calls[k]) \cup {j}
      BY <2>1, <2>2, <2>3, AppendInjective, AppendRange DEF QueueIsSuffix, SuffixOf
  <2>5. \A h \in Kinds : Popped(h)' = Popped(h)
      BY <2>1 DEF Popped
  <2>6. Position(k)' = Position(k) /\ Position(k) \in Nat
    <3>1. /\ Len(queue'[k]) = Len(queue[k]) + 1 /\ Len(calls'[k]) = Len(calls[k]) + 1
          /\ Len(queue[k]) \in Nat /\ Len(calls[k]) \in Nat
        BY <2>1, <2>3
    <3>2. Position(k)' = Len(calls'[k]) - Len(queue'[k])
        BY DEF Position
    <3>3. Position(k) \in Nat
        BY <2>1 DEF QueueIsSuffix, SuffixOf
    <3> QED
        BY <3>1, <3>2, <3>3 DEF Position
  <2>7. /\ \A i \in 1 .. Len(calls[k]) : calls'[k][i] = calls[k][i]
        /\ calls'[k][Len(calls[k]) + 1] = j
      BY <2>1, <2>3
  <2>8. \A i \in DOMAIN queue'[k] : queue'[k][i] = calls'[k][Position(k) + i]
    <3>1. /\ \A i \in 1 .. Len(queue[k]) : queue'[k][i] = queue[k][i]
          /\ queue'[k][Len(queue[k]) + 1] = j
          /\ DOMAIN queue'[k] = 1 .. Len(queue[k]) + 1 /\ Len(queue[k]) \in Nat
        BY <2>1, <2>3
    <3>2. \A i \in 1 .. Len(queue[k]) : queue[k][i] = calls[k][Position(k) + i]
        BY <2>1, <2>3 DEF QueueIsSuffix, SuffixOf
    <3>3. Position(k) + Len(queue[k]) = Len(calls[k]) /\ Len(calls[k]) \in Nat
        BY <2>3 DEF Position
    <3>4. ASSUME NEW i \in 1 .. Len(queue[k])
          PROVE  queue'[k][i] = calls'[k][Position(k) + i]
      <4>1. Position(k) + i \in 1 .. Len(calls[k])
          BY <2>6, <3>3, <3>1
      <4> QED
          BY <2>7, <3>1, <3>2, <4>1
    <3>5. queue'[k][Len(queue[k]) + 1] = calls'[k][Position(k) + (Len(queue[k]) + 1)]
      <4>1. Position(k) + (Len(queue[k]) + 1) = Len(calls[k]) + 1
          BY <3>1, <3>3, Difference DEF Position
      <4> QED
          BY <2>7, <3>1, <4>1
    <3>6. \A i \in 1 .. Len(queue[k]) + 1 : i \in 1 .. Len(queue[k]) \/ i = Len(queue[k]) + 1
        BY <3>1
    <3> QED
        BY <3>1, <3>4, <3>5, <3>6
  <2>9. Position(k) <= Len(calls[k]) /\ Len(calls[k]) \in Nat
    <3>1. Len(calls[k]) \in Nat /\ Len(queue[k]) \in Nat
        BY <2>3
    <3> QED
        BY <3>1, Difference DEF Position
  <2>10. /\ \A p \in Popped(k) : Position(k) > 0 /\ p = calls'[k][Position(k)]
         /\ \A i \in 1 .. Position(k) : \/ calls'[k][i] \in Popped(k)
                                        \/ reports[calls'[k][i]] > 0
                                        \/ stop_requested
      BY <2>1, <2>6, <2>7, <2>9 DEF QueueIsSuffix, SuffixOf
  <2>11. ASSUME NEW h \in Kinds \ {k} PROVE Position(h)' = Position(h)
      BY <2>1 DEF Position
  <2>12. SuffixOf(k)'
    <3>1. \A i \in Range(calls'[k]) : KindOf[i] = k
        BY <2>1, <2>4 DEF QueueIsSuffix, SuffixOf
    <3> QED
        BY <2>1, <2>4, <2>5, <2>6, <2>8, <2>10, <3>1 DEF SuffixOf
  <2>13. ASSUME NEW h \in Kinds \ {k} PROVE SuffixOf(h)'
      BY <2>1, <2>5, <2>11, <2>13 DEF QueueIsSuffix, SuffixOf
  <2> QED
      BY <2>12, <2>13 DEF QueueIsSuffix
<1>2. ASSUME UNCHANGED <<queue, calls, reports>>, stop_requested => stop_requested',
             \A k \in Kinds : Popped(k)' = Popped(k)
      PROVE  QueueIsSuffix'
  <2>1. \A k \in Kinds : Position(k)' = Position(k)
      BY <1>2 DEF Position
  <2> QED
      BY <1>2, <2>1 DEF QueueIsSuffix, SuffixOf
<1>3. CASE \/ StartRound \/ LeaveRun \/ EndRound \/ EmitIdle \/ KeepActive \/ NothingToTake
  <2>1. UNCHANGED <<queue, calls, reports, stop_requested, active, taken>> /\ taken = None
      BY <1>3 DEF StartRound, LeaveRun, EndRound, EmitIdle, KeepActive, NothingToTake, TypeOK
  <2>2. \A k \in Kinds : Popped(k)' = Popped(k)
      BY <2>1 DEF Popped
  <2> QED
      BY <1>2, <2>1, <2>2
<1>4. CASE \/ ShutdownRequest \/ Shutdown \/ PoolStart \/ UNCHANGED vars
           \/ \E j \in Jobs : Cancel(j) \/ Run(j)
  <2>1. /\ UNCHANGED <<queue, calls, reports, active, taken, cur>>
        /\ stop_requested => stop_requested'
      BY <1>4
      DEF PoolStart, Cancel, Run, RunDone, RunReturn, ShutdownRequest, Shutdown,
          ShutdownTestActiveDB, ShutdownMarkActiveDB, ShutdownMarkQueues, ShutdownMarkQueue,
          ShutdownWaitJobs, ShutdownWaitStopped, managerVars, vars
  <2>2. \A k \in Kinds : Popped(k)' = Popped(k)
      BY <2>1 DEF Popped
  <2> QED
      BY <1>2, <2>1, <2>2
<1>5. CASE Flush
  <2>1. /\ UNCHANGED <<queue, calls, taken, cur, stop_requested>> /\ cur \in Kinds /\ taken = None
        /\ \A k \in Kinds : Position(k)' = Position(k)
      BY <1>5, FlushSteps DEF Position
  <2>2. CASE UNCHANGED active
    <3>1. \A k \in Kinds : Popped(k)' = Popped(k)
        BY <2>1, <2>2 DEF Popped
    <3>2. \A i \in Jobs : reports[i] > 0 => reports'[i] > 0
      <4>1. UNCHANGED reports \/ reports' = [reports EXCEPT ![active[cur]] = @ + 1]
          BY <1>5 DEF Flush, FlushTest, FlushTestObsolete, FlushTestStop, FlushEmit, FlushLetGo
      <4>2. reports \in [Jobs -> Nat]
          BY DEF TypeOK
      <4> QED
          BY <4>1, <4>2, CountUp
    <3>3. \A k \in Kinds : \A i \in 1 .. Position(k) : calls[k][i] \in Jobs
        BY PositionInCalls
    <3> QED
        BY <2>1, <3>1, <3>2, <3>3 DEF QueueIsSuffix, SuffixOf
  <2>3. CASE FlushLetGo
    <3>1. /\ phase = "letGo" /\ UNCHANGED reports
          /\ active'[cur] = None /\ \A k \in Kinds \ {cur} : active'[k] = active[k]
        BY <2>3, LetGoStep
    <3>2. active[cur] # None /\ (stop_requested \/ reports[active[cur]] > 0)
        BY <3>1 DEF FlushKnows, Flushing
    <3>3. /\ Popped(cur)' = {} /\ Popped(cur) = {active[cur]}
          /\ \A k \in Kinds \ {cur} : Popped(k)' = Popped(k)
        BY <2>1, <3>1, <3>2 DEF Popped
    <3> QED
        BY <2>1, <3>1, <3>2, <3>3 DEF QueueIsSuffix, SuffixOf
  <2> QED
      BY <1>5, <2>2, <2>3, FlushSteps
<1>6. CASE Take
  <2>1. /\ UNCHANGED <<active, calls, cur, reports, stop_requested>> /\ cur \in Kinds
        /\ taken = None /\ active[cur] = None /\ taken' = Head(queue[cur]) /\ queue[cur] # <<>>
      BY <1>6 DEF Take, TypeOK, HeldOnce
  <2>2. queue'[cur] = Tail(queue[cur]) /\ \A k \in Kinds \ {cur} : queue'[k] = queue[k]
      BY <1>6 DEF Take, TypeOK
  <2>3. queue[cur] \in Seq(Jobs) /\ calls[cur] \in Seq(Jobs) /\ Position(cur) \in Nat
      BY <2>1 DEF TypeOK, QueueIsSuffix, SuffixOf
  <2>4. /\ Len(queue[cur]) \in Nat \ {0} /\ Len(queue'[cur]) = Len(queue[cur]) - 1
        /\ DOMAIN queue'[cur] = 1 .. Len(queue[cur]) - 1
        /\ \A i \in 1 .. Len(queue[cur]) - 1 : queue'[cur][i] = queue[cur][i + 1]
        /\ taken' = queue[cur][1] /\ taken' \in Jobs
      BY <2>1, <2>2, <2>3
  <2>5. Position(cur)' = Position(cur) + 1
      BY <2>1, <2>3, <2>4 DEF Position
  <2>6. \A i \in 1 .. Len(queue[cur]) : queue[cur][i] = calls[cur][Position(cur) + i]
      BY <2>1, <2>3 DEF QueueIsSuffix, SuffixOf
  <2>7. ASSUME NEW i \in DOMAIN queue'[cur]
        PROVE  queue'[cur][i] = calls[cur][(Position(cur) + 1) + i]
    <3>1. i \in Nat /\ i + 1 \in 1 .. Len(queue[cur]) /\ queue'[cur][i] = queue[cur][i + 1]
        BY <2>4
    <3>2. Position(cur) + (i + 1) = (Position(cur) + 1) + i
        BY <2>3, <3>1
    <3> QED
        BY <2>6, <3>1, <3>2
  <2>8. Popped(cur) = {} /\ Popped(cur)' = {taken'} /\ taken' = calls[cur][Position(cur) + 1]
      BY <2>1, <2>4, <2>6 DEF Popped
  <2>9. \A i \in 1 .. Position(cur) + 1 : \/ calls[cur][i] \in Popped(cur)'
                                          \/ reports[calls[cur][i]] > 0 \/ stop_requested
    <3>1. ASSUME NEW i \in 1 .. Position(cur) + 1, i # Position(cur) + 1
          PROVE  reports[calls[cur][i]] > 0 \/ stop_requested
      <4>1. i \in 1 .. Position(cur)
          BY <2>3, <3>1
      <4> QED
          BY <2>1, <2>8, <4>1 DEF QueueIsSuffix, SuffixOf
    <3> QED
        BY <2>8, <3>1
  <2>10. \A k \in Kinds \ {cur} : Position(k)' = Position(k) /\ Popped(k)' = Popped(k)
      BY <2>1, <2>2 DEF Position, Popped
  <2>11. SuffixOf(cur)'
    <3>1. IsInjective(calls[cur]) /\ \A i \in Range(calls[cur]) : KindOf[i] = cur
        BY <2>1 DEF QueueIsSuffix, SuffixOf
    <3>2. Position(cur) + 1 \in Nat /\ Position(cur) + 1 > 0
        BY <2>3
    <3> QED
        BY <2>1, <2>5, <2>7, <2>8, <2>9, <3>1, <3>2 DEF SuffixOf
  <2>12. ASSUME NEW k \in Kinds \ {cur} PROVE SuffixOf(k)'
      BY <2>1, <2>2, <2>10, <2>12 DEF QueueIsSuffix, SuffixOf
  <2> QED
      BY <2>1, <2>11, <2>12 DEF QueueIsSuffix
<1>7. CASE Store
  <2>1. /\ UNCHANGED <<queue, calls, reports, stop_requested>> /\ cur \in Kinds
        /\ taken' = None /\ taken \in Jobs /\ active[cur] = None
      BY <1>7 DEF Store, TypeOK, HeldOnce
  <2>2. active'[cur] = taken /\ \A k \in Kinds \ {cur} : active'[k] = active[k]
      BY <1>7 DEF Store, TypeOK
  <2>3. \A k \in Kinds : Popped(k)' = Popped(k)
      BY <2>1, <2>2 DEF Popped
  <2> QED
      BY <1>2, <2>1, <2>3
<1> QED
    BY <1>1, <1>3, <1>4, <1>5, <1>6, <1>7 DEF Next, Manager

(* What the manager knows of the job it is flushing stays true. *)
LEMMA FlushKnowsStep ==
    ASSUME TypeOK, HeldOnce, HeldUnreported, FlushKnows, QueueIsSuffix, [Next]_vars
    PROVE  FlushKnows'
<1>1. CASE phase' \notin Flushing
    BY <1>1 DEF FlushKnows
<1>2. CASE Flush
  <2> DEFINE j == active[cur]
  <2>1. /\ UNCHANGED <<queue, calls, cur, stop_requested, done, obsolete>> /\ cur \in Kinds
        /\ phase \in Flushing \cup {"flush"}
      BY <1>2, FlushSteps
  <2>2. CASE FlushTest
    <3>1. /\ j # None /\ j \in obsolete \cup done /\ phase = "flush" /\ phase' = "testObsolete"
          /\ UNCHANGED <<active, reports>>
        BY <2>2 DEF FlushTest
    <3>2. reports[j] = 0
        BY <2>1, <3>1 DEF HeldUnreported, Flushing
    <3> QED
        BY <2>1, <3>1, <3>2 DEF FlushKnows
  <2>3. CASE FlushTestObsolete \/ FlushTestStop
    <3>1. /\ phase \in {"testObsolete", "testDone"} /\ UNCHANGED <<active, reports>>
          /\ phase' \in {"emitObsolete", "testDone", "emitDone", "letGo"}
          /\ phase' \in {"emitObsolete", "emitDone"} => ~stop_requested
          /\ phase = "testDone" => phase' \in {"emitDone", "letGo"}
          /\ phase = "testObsolete" => phase' \in {"emitObsolete", "testDone"}
          /\ phase' = "emitObsolete" => j \in obsolete
          /\ phase = "testObsolete" /\ phase' = "testDone" => j \notin obsolete \/ stop_requested
          /\ phase' = "letGo" => stop_requested
        BY <2>3 DEF FlushTestObsolete, FlushTestStop
    <3>2. /\ j # None /\ j \in obsolete \cup done
          /\ phase = "testObsolete" => reports[j] = 0
          /\ phase = "testDone" => \/ reports[j] = 0 /\ (stop_requested \/ j \in done)
                                   \/ reports[j] = 1 /\ j \in obsolete
        BY <3>1 DEF FlushKnows, Flushing
    <3>3. ~stop_requested => \A i \in 1 .. Len(calls[cur]) - Len(queue[cur]) - 1 :
                                 reports[calls[cur][i]] > 0
        BY <3>1, <3>2, FlushedIsLast DEF Position
    <3>4. phase' \in {"emitObsolete", "emitDone"} =>
              \A i \in 1 .. Len(calls'[cur']) - Len(queue'[cur']) - 1 :
                  reports'[calls'[cur'][i]] > 0
        BY <2>1, <3>1, <3>3
    <3>5. active'[cur'] = j /\ reports'[active'[cur']] = reports[j]
        BY <2>1, <3>1
    <3>6. /\ phase' = "emitObsolete" => reports[j] = 0 /\ j \in obsolete
          /\ phase' \in {"testDone", "emitDone"} =>
                \/ reports[j] = 0 /\ (stop_requested \/ j \in done)
                \/ reports[j] = 1 /\ j \in obsolete
          /\ phase' = "letGo" => \/ stop_requested /\ reports[j] <= 1
                                 \/ reports[j] = 1 /\ j \in done
                                 \/ reports[j] = 2 /\ j \in obsolete
        BY <3>1, <3>2
    <3>7. phase' # "testObsolete" /\ UNCHANGED <<stop_requested, done, obsolete>>
        BY <2>1, <3>1
    <3> QED
        BY <3>2, <3>4, <3>5, <3>6, <3>7 DEF FlushKnows
  <2>4. CASE FlushEmit("emitObsolete", "testDone") \/ FlushEmit("emitDone", "letGo")
    <3>1. /\ phase \in {"emitObsolete", "emitDone"} /\ UNCHANGED active
          /\ phase = "emitObsolete" => phase' = "testDone"
          /\ phase = "emitDone" => phase' = "letGo"
          /\ reports' = [reports EXCEPT ![j] = @ + 1]
        BY <2>4 DEF FlushEmit
    <3>2. /\ j # None /\ j \in obsolete \cup done /\ j \in Jobs
          /\ phase = "emitObsolete" => reports[j] = 0 /\ j \in obsolete
          /\ phase = "emitDone" => \/ reports[j] = 0 /\ (stop_requested \/ j \in done)
                                   \/ reports[j] = 1 /\ j \in obsolete
        BY <2>1, <3>1 DEF FlushKnows, Flushing, TypeOK
    <3>3. reports'[j] = reports[j] + 1
        BY <3>1, <3>2 DEF TypeOK
    <3>4. /\ phase' = "testDone" => reports'[j] = 1 /\ j \in obsolete
          /\ phase' = "letGo" => \/ stop_requested /\ reports'[j] <= 1
                                 \/ reports'[j] = 1 /\ j \in done
                                 \/ reports'[j] = 2 /\ j \in obsolete
        BY <3>1, <3>2, <3>3
    <3>5. phase' \in {"testDone", "letGo"}
        BY <3>1
    <3> QED
        BY <2>1, <3>1, <3>2, <3>4, <3>5 DEF FlushKnows
  <2>5. CASE FlushLetGo
      BY <1>1, <2>5, LetGoStep DEF Flushing
  <2> QED
      BY <1>2, <2>2, <2>3, <2>4, <2>5 DEF Flush
<1>3. ASSUME phase \in Flushing, UNCHANGED <<phase, active, cur, reports>>,
             done \subseteq done', obsolete \subseteq obsolete', stop_requested => stop_requested',
             \/ UNCHANGED <<queue, calls>>
             \/ \E j \in Jobs : Add(j)
      PROVE  FlushKnows'
  <2> DEFINE j == active[cur]
  <2>1. /\ j # None /\ j \in obsolete \cup done /\ cur \in Kinds
      BY <1>3 DEF FlushKnows, TypeOK
  <2>2. ASSUME phase \in {"emitObsolete", "emitDone"},
               NEW i \in 1 .. Len(calls'[cur]) - Len(queue'[cur]) - 1
        PROVE  reports[calls'[cur][i]] > 0
    <3>1. /\ Position(cur) \in Nat /\ Position(cur) <= Len(calls[cur]) /\ Len(calls[cur]) \in Nat
          /\ calls[cur] \in Seq(Jobs) /\ queue[cur] \in Seq(Jobs)
        BY <2>1, PositionInCalls DEF TypeOK
    <3>2. Len(queue[cur]) \in Nat
        BY <3>1
    <3>3. /\ Len(calls'[cur]) - Len(queue'[cur]) = Position(cur)
          /\ \A m \in 1 .. Len(calls[cur]) : calls'[cur][m] = calls[cur][m]
      <4>1. CASE UNCHANGED <<queue, calls>>
          BY <4>1 DEF Position
      <4>2. CASE \E h \in Jobs : Add(h)
        <5>1. PICK h \in Jobs : Add(h)
            BY <4>2
        <5>2. CASE KindOf[h] = cur
          <6>1. calls'[cur] = Append(calls[cur], h) /\ queue'[cur] = Append(queue[cur], h)
              BY <2>1, <5>1, <5>2 DEF Add, TypeOK
          <6>2. Len(calls'[cur]) = Len(calls[cur]) + 1 /\ Len(queue'[cur]) = Len(queue[cur]) + 1
              BY <3>1, <6>1
          <6>3. \A m \in 1 .. Len(calls[cur]) : calls'[cur][m] = calls[cur][m]
              BY <3>1, <6>1
          <6> QED
              BY <3>1, <3>2, <6>2, <6>3 DEF Position
        <5>3. CASE KindOf[h] # cur
          <6>1. calls'[cur] = calls[cur] /\ queue'[cur] = queue[cur]
              BY <2>1, <5>1, <5>3 DEF Add, TypeOK
          <6> QED
              BY <6>1 DEF Position
        <5> QED
            BY <5>2, <5>3
      <4> QED
          BY <1>3, <4>1, <4>2
    <3>4. i \in 1 .. Len(calls[cur]) - Len(queue[cur]) - 1 /\ i \in 1 .. Len(calls[cur])
      <4>1. i \in 1 .. Position(cur) - 1
          BY <2>2, <3>3
      <4>2. Position(cur) = Len(calls[cur]) - Len(queue[cur])
          BY DEF Position
      <4>3. i \in 1 .. Len(calls[cur]) - Len(queue[cur]) - 1
          BY <4>1, <4>2
      <4>4. Position(cur) \in Nat /\ Position(cur) <= Len(calls[cur]) /\ Len(calls[cur]) \in Nat
          BY <3>1
      <4>5. i \in 1 .. Len(calls[cur])
          BY <4>1, <4>4
      <4> QED
          BY <4>3, <4>5
    <3>5. reports[calls[cur][i]] > 0
        BY <1>3, <2>2, <3>4 DEF FlushKnows
    <3> QED
        BY <3>3, <3>4, <3>5
  <2>3. /\ phase \in {"testObsolete", "emitObsolete"} => reports[j] = 0
        /\ phase = "emitObsolete" => j \in obsolete
        /\ phase \in {"testDone", "emitDone"} =>
              \/ reports[j] = 0 /\ (stop_requested \/ j \in done)
              \/ reports[j] = 1 /\ j \in obsolete
        /\ phase = "letGo" => \/ stop_requested /\ reports[j] <= 1
                              \/ reports[j] = 1 /\ j \in done
                              \/ reports[j] = 2 /\ j \in obsolete
      BY <1>3 DEF FlushKnows
  <2> QED
      BY <1>3, <2>1, <2>2, <2>3 DEF FlushKnows
<1>4. CASE \/ StartRound \/ LeaveRun \/ EndRound \/ EmitIdle \/ KeepActive \/ NothingToTake
           \/ Take \/ Store
  <2>1. phase' \notin Flushing
      BY <1>4
      DEF StartRound, LeaveRun, EndRound, EmitIdle, KeepActive, NothingToTake, Take, Store,
          LeaveQueue, Flushing
  <2> QED
      BY <1>1, <2>1
<1>5. CASE \/ ShutdownRequest \/ Shutdown \/ PoolStart \/ UNCHANGED vars
           \/ \E j \in Jobs : Add(j) \/ Cancel(j) \/ Run(j)
  <2>1. /\ UNCHANGED <<phase, active, cur, reports>> /\ done \subseteq done'
        /\ obsolete \subseteq obsolete' /\ (stop_requested => stop_requested')
        /\ UNCHANGED <<queue, calls>> \/ \E j \in Jobs : Add(j)
      BY <1>5
      DEF PoolStart, Add, Cancel, Run, RunDone, RunReturn, ShutdownRequest, Shutdown,
          ShutdownTestActiveDB, ShutdownMarkActiveDB, ShutdownMarkQueues, ShutdownMarkQueue,
          ShutdownWaitJobs, ShutdownWaitStopped, managerVars, poolVars, vars
  <2> QED
      BY <1>1, <1>3, <2>1
<1> QED
    BY <1>2, <1>4, <1>5 DEF Next, Manager

(* The jobs that are gone from a queue were flushed in its order, each     *)
(* after what the manager knew of it.                                      *)
THEOREM FlushingIsOrdered == Spec => [](QueueIsSuffix /\ FlushKnows)
<1>1. Init => QueueIsSuffix
  <2> SUFFICES ASSUME Init PROVE QueueIsSuffix
      OBVIOUS
  <2>1. \A k \in Kinds : queue[k] = <<>> /\ calls[k] = <<>> /\ active[k] = None /\ taken = None
      BY DEF Init
  <2>2. IsInjective(<<>>) /\ Range(<<>>) = {} /\ DOMAIN <<>> = {} /\ Len(<<>>) = 0
      BY DEF IsInjective, Range
  <2>3. \A k \in Kinds : Position(k) = 0 /\ Popped(k) = {}
      BY <2>1, <2>2 DEF Position, Popped
  <2> QED
      BY <2>1, <2>2, <2>3 DEF QueueIsSuffix, SuffixOf
<1>2. Init => FlushKnows
    BY DEF Init, FlushKnows, Flushing
<1>3. TypeOK /\ HeldOnce /\ HeldUnreported /\ (QueueIsSuffix /\ FlushKnows) /\ [Next]_vars
        => (QueueIsSuffix /\ FlushKnows)'
    BY SuffixStep, FlushKnowsStep
<1> QED
    BY <1>1, <1>2, <1>3, TypeCorrect, HeldOnceInvariant, HeldUnreportedInvariant, PTL DEF Spec

(* A queue is what is left of the jobs added to it. *)
THEOREM QueueIsSuffixInvariant == Spec => []QueueIsSuffix
    BY FlushingIsOrdered, PTL

-----------------------------------------------------------------------------
(* The jobs in the pool. *)
THEOREM PoolOnceInvariant == Spec => []PoolOnce
<1>1. Init => PoolOnce
  <2>1. IsInjective(<<>>) /\ Range(<<>>) = {}
      BY DEF IsInjective, Range
  <2> QED
      BY <2>1 DEF Init, PoolOnce, AtWork, InPool, Kinds
<1>2. TypeOK /\ HeldOnce /\ FlushKnows /\ PoolOnce /\ [Next]_vars => PoolOnce'
  <2> SUFFICES ASSUME TypeOK, HeldOnce, FlushKnows, PoolOnce, [Next]_vars PROVE PoolOnce'
      OBVIOUS
  <2>1. ASSUME NEW j \in Jobs, Add(j) PROVE PoolOnce'
    <3>1. /\ j \notin Added /\ j \notin InPool \cup done /\ Added' = Added \cup {j}
          /\ UNCHANGED <<active, taken, cur, running, done, obsolete>>
        BY <2>1, AddedByAdd DEF Add, managerVars, PoolOnce
    <3>2. \A k \in Kinds : Range(queue'[k]) =
              IF k = KindOf[j] THEN Range(queue[k]) \cup {j} ELSE Range(queue[k])
        BY <2>1, AddedByAdd
    <3>3. CASE KindOf[j] = "nonBlocking"
      <4>1. poolQueue' = Append(poolQueue, j)
          BY <2>1, <3>3 DEF Add
      <4>2. Range(poolQueue') = Range(poolQueue) \cup {j} /\ InPool' = InPool \cup {j}
          BY <3>1, <4>1, AppendRange DEF TypeOK, InPool
      <4>3. IsInjective(poolQueue')
          BY <3>1, <4>1, AppendInjective DEF TypeOK, PoolOnce, InPool
      <4>4. /\ Range(queue'["nonBlocking"]) = Range(queue["nonBlocking"]) \cup {j}
            /\ \A k \in {"blocking", "db"} : Range(queue'[k]) = Range(queue[k])
          BY <3>2, <3>3 DEF Kinds
      <4>5. taken # None /\ cur # "nonBlocking" => taken # j
          BY <3>1 DEF HeldOnce
      <4>6. \A k \in {"blocking", "db"} : Range(queue'[k]) \cap (InPool' \cup done') = {}
        <5>1. \A k \in {"blocking", "db"} : j \notin Range(queue[k])
            BY <3>1 DEF HeldOnce, Kinds
        <5> QED
            BY <3>1, <4>2, <4>4, <5>1 DEF PoolOnce, AtWork
      <4>7. Range(poolQueue') \cap (running' \cup done') = {}
          BY <3>1, <4>2 DEF PoolOnce, AtWork, InPool
      <4>8. InPool' \cup done' \subseteq Added'
          BY <3>1, <4>2 DEF PoolOnce, AtWork
      <4>9. \A i \in AtWork' :
              IF KindOf[i] = "nonBlocking"
              THEN i \in Range(queue'["nonBlocking"]) \cup {active'["nonBlocking"], taken'}
              ELSE i = active'[KindOf[i]]
          BY <3>1, <3>3, <4>2, <4>4 DEF PoolOnce, AtWork
      <4> QED
          BY <3>1, <4>2, <4>3, <4>5, <4>6, <4>7, <4>8, <4>9 DEF PoolOnce, AtWork
    <3>4. CASE KindOf[j] # "nonBlocking"
      <4>1. poolQueue' = poolQueue /\ InPool' = InPool
          BY <2>1, <3>1, <3>4 DEF Add, InPool
      <4>2. /\ Range(queue'["nonBlocking"]) = Range(queue["nonBlocking"])
            /\ \A k \in {"blocking", "db"} : Range(queue'[k]) \subseteq Range(queue[k]) \cup {j}
          BY <3>2, <3>4 DEF Kinds
      <4> QED
          BY <3>1, <4>1, <4>2 DEF PoolOnce, AtWork
    <3> QED
        BY <3>3, <3>4
  <2>2. ASSUME UNCHANGED <<queue, active, taken, cur, calls, poolQueue, running, done>>,
               obsolete \subseteq obsolete'
        PROVE  PoolOnce'
    <3>1. InPool' = InPool /\ Added' = Added
        BY <2>2, AddedUnchanged DEF InPool
    <3> QED
        BY <2>2, <3>1 DEF PoolOnce, AtWork
  <2>3. CASE \/ StartRound \/ LeaveRun \/ EndRound \/ EmitIdle \/ KeepActive \/ NothingToTake
    <3>1. UNCHANGED <<queue, active, calls, poolQueue, running, done, obsolete, taken>>
        BY <2>3 DEF StartRound, LeaveRun, EndRound, EmitIdle, KeepActive, NothingToTake, poolVars
    <3>2. taken' = None
        BY <2>3 DEF StartRound, LeaveRun, EndRound, EmitIdle, KeepActive, NothingToTake, TypeOK
    <3>3. InPool' = InPool /\ Added' = Added
        BY <3>1, AddedUnchanged DEF InPool
    <3> QED
        BY <3>1, <3>2, <3>3 DEF PoolOnce, AtWork
  <2>4. CASE Flush
    <3>1. UNCHANGED <<queue, calls, taken, cur, poolQueue, running, done, obsolete>>
        BY <2>4, FlushSteps
    <3>2. InPool' = InPool /\ Added' = Added /\ AtWork' = AtWork
        BY <3>1, AddedUnchanged DEF InPool, AtWork
    <3>3. CASE UNCHANGED active
        BY <3>1, <3>2, <3>3 DEF PoolOnce
    <3>4. CASE FlushLetGo
      <4>1. phase \in Flushing /\ \A k \in Kinds \ {cur} : active'[k] = active[k]
          BY <3>4, LetGoStep DEF Flushing
      <4>2. \A i \in AtWork : i # active[cur] /\ KindOf[i] \in Kinds
        <5>1. active[cur] \in obsolete \cup done
            BY <4>1 DEF FlushKnows
        <5>2. AtWork \subseteq Jobs
            BY DEF TypeOK, AtWork, InPool, Range
        <5> QED
            BY <5>1, <5>2 DEF AtWork
      <4>3. \A i \in AtWork :
                IF KindOf[i] = "nonBlocking"
                THEN i \in Range(queue["nonBlocking"]) \cup {active'["nonBlocking"], taken}
                ELSE i = active'[KindOf[i]]
          BY <4>1, <4>2 DEF PoolOnce, Kinds
      <4> QED
          BY <3>1, <3>2, <4>3 DEF PoolOnce
    <3> QED
        BY <2>4, <3>3, <3>4, FlushSteps
  <2>5. CASE Take
    <3>1. /\ UNCHANGED <<active, calls, cur, poolQueue, running, done, obsolete>>
          /\ cur \in Kinds /\ taken' = Head(queue[cur]) /\ queue[cur] # <<>> /\ taken = None
        BY <2>5 DEF Take, TypeOK, poolVars
    <3>2. queue'[cur] = Tail(queue[cur]) /\ \A k \in Kinds \ {cur} : queue'[k] = queue[k]
        BY <2>5 DEF Take, TypeOK
    <3>3. Range(queue[cur]) = {taken'} \cup Range(queue'[cur])
        BY <3>1, <3>2, PopRange DEF TypeOK
    <3>4. InPool' = InPool /\ Added' = Added
        BY <3>1, AddedUnchanged DEF InPool
    <3>5. \A k \in Kinds : Range(queue'[k]) \subseteq Range(queue[k])
        BY <3>2, <3>3
    <3>6. Range(queue["nonBlocking"]) \subseteq Range(queue'["nonBlocking"]) \cup {taken'}
        BY <3>2, <3>3 DEF Kinds
    <3>7. cur # "nonBlocking" => taken' \notin InPool \cup done
        BY <3>1, <3>3 DEF PoolOnce, AtWork, Kinds
    <3>8. \A i \in AtWork : i # taken
        BY <3>1 DEF TypeOK, AtWork, InPool, Range
    <3> QED
        BY <3>1, <3>4, <3>5, <3>6, <3>7, <3>8 DEF PoolOnce, AtWork, Kinds
  <2>6. CASE Store
    <3>1. /\ UNCHANGED <<queue, calls, running, done, obsolete>> /\ cur \in Kinds
          /\ taken' = None /\ taken \in Jobs /\ taken # None
          /\ active[cur] = None /\ KindOf[taken] = cur
        BY <2>6 DEF Store, TypeOK, HeldOnce
    <3>2. active'[cur] = taken /\ \A k \in Kinds \ {cur} : active'[k] = active[k]
        BY <2>6 DEF Store, TypeOK
    <3>3. Added' = Added
        BY <3>1, AddedUnchanged
    <3>4. AtWork \subseteq Jobs
        BY DEF AtWork, InPool, TypeOK, Range
    <3>5. CASE cur = "nonBlocking"
      <4>1. poolQueue' = poolQueue /\ InPool' = InPool /\ AtWork' = AtWork
          BY <2>6, <3>1, <3>5 DEF Store, InPool, AtWork
      <4>2. \A i \in AtWork :
                IF KindOf[i] = "nonBlocking"
                THEN i \in Range(queue["nonBlocking"]) \cup {active'["nonBlocking"]}
                ELSE i = active'[KindOf[i]]
          BY <3>1, <3>2, <3>4, <3>5 DEF PoolOnce
      <4> QED
          BY <3>1, <3>3, <4>1, <4>2 DEF PoolOnce
    <3>6. CASE cur # "nonBlocking"
      <4>1. poolQueue' = Append(poolQueue, taken)
          BY <2>6, <3>6 DEF Store
      <4>2. Range(poolQueue') = Range(poolQueue) \cup {taken} /\ InPool' = InPool \cup {taken}
          BY <3>1, <4>1, AppendRange DEF TypeOK, InPool
      <4>3. taken \notin InPool \cup done /\ taken \in Added
          BY <3>1, <3>6 DEF PoolOnce, AtWork, HeldOnce
      <4>4. IsInjective(poolQueue')
          BY <3>1, <4>1, <4>3, AppendInjective DEF TypeOK, PoolOnce, InPool
      <4>5. \A k \in Kinds : taken \notin Range(queue[k])
          BY <3>1 DEF HeldOnce
      <4>6. \A i \in AtWork :
                /\ KindOf[i] # cur
                /\ IF KindOf[i] = "nonBlocking"
                   THEN i \in Range(queue["nonBlocking"]) \cup {active["nonBlocking"], taken}
                   ELSE i = active[KindOf[i]]
          BY <3>1, <3>4, <3>6 DEF PoolOnce, AtWork
      <4>7. \A i \in AtWork :
                IF KindOf[i] = "nonBlocking"
                THEN i \in Range(queue["nonBlocking"]) \cup {active'["nonBlocking"]}
                ELSE i = active'[KindOf[i]]
          BY <3>1, <3>2, <3>4, <3>6, <4>3, <4>6 DEF Kinds
      <4> QED
          BY <3>1, <3>2, <3>3, <3>6, <4>2, <4>3, <4>4, <4>5, <4>7
          DEF PoolOnce, AtWork, InPool, Kinds
    <3> QED
        BY <3>5, <3>6
  <2>7. CASE PoolStart
    <3>1. /\ UNCHANGED <<queue, active, taken, cur, calls, done, obsolete>>
          /\ poolQueue # <<>> /\ poolQueue' = Tail(poolQueue)
          /\ running' = running \cup {Head(poolQueue)}
        BY <2>7 DEF PoolStart, managerVars
    <3>2. /\ Range(poolQueue) = {Head(poolQueue)} \cup Range(poolQueue')
          /\ IsInjective(poolQueue') /\ Head(poolQueue) \notin Range(poolQueue')
        BY <3>1, PopRange DEF TypeOK, PoolOnce
    <3>3. InPool' = InPool /\ Added' = Added
        BY <3>1, <3>2, AddedUnchanged DEF InPool
    <3> QED
        BY <3>1, <3>2, <3>3 DEF PoolOnce, AtWork
  <2>8. ASSUME NEW j \in Jobs, Run(j) PROVE PoolOnce'
    <3>1. /\ UNCHANGED <<queue, active, taken, cur, calls, poolQueue, obsolete>>
          /\ j \in running
          /\ \/ running' = running /\ done' = done \cup {j}
             \/ running' = running \ {j} /\ done' = done /\ j \in done
        BY <2>8 DEF Run, RunDone, RunReturn, managerVars
    <3>2. /\ InPool' \cup done' = InPool \cup done /\ Added' = Added /\ AtWork' \subseteq AtWork
          /\ running' \cup done' = running \cup done
        BY <3>1, AddedUnchanged DEF InPool, AtWork
    <3> QED
        BY <3>1, <3>2 DEF PoolOnce
  <2>9. CASE ShutdownRequest \/ Shutdown \/ UNCHANGED vars \/ \E j \in Jobs : Cancel(j)
      BY <2>2, <2>9
      DEF Cancel, ShutdownRequest, Shutdown, ShutdownTestActiveDB, ShutdownMarkActiveDB,
          ShutdownMarkQueues, ShutdownMarkQueue, ShutdownWaitJobs, ShutdownWaitStopped,
          managerVars, poolVars, vars
  <2> QED
      BY <2>1, <2>3, <2>4, <2>5, <2>6, <2>7, <2>8, <2>9 DEF Next, Manager
<1> QED
    BY <1>1, <1>2, TypeCorrect, HeldOnceInvariant, FlushingIsOrdered, PTL DEF Spec

(* Where the manager can hold a job, before and after a step. *)
LEMMA HeldMembers ==
    /\ \A x : x \in Held <=> \/ \E k \in Kinds : x \in Range(queue[k]) \/ x = active[k]
                             \/ x = taken
    /\ \A x : x \in Held' <=> \/ \E k \in Kinds : x \in Range(queue'[k]) \/ x = active'[k]
                              \/ x = taken'
<1> DEFINE InQueues == UNION {Range(queue[k]) \cup {active[k]} : k \in Kinds}
<1>1. \A x : x \in InQueues <=> \E k \in Kinds : x \in Range(queue[k]) \cup {active[k]}
    OBVIOUS
<1>2. \A x : x \in InQueues' <=> \E k \in Kinds : x \in Range(queue'[k]) \cup {active'[k]}
    OBVIOUS
<1>3. Held = {taken} \cup InQueues /\ Held' = {taken'} \cup InQueues'
    BY DEF Held
<1> HIDE DEF InQueues
<1> QED
    BY <1>1, <1>2, <1>3

(* Of the jobs at work at most one is a blocking job and at most one a     *)
(* database job.                                                           *)
THEOREM OneLiveJob == Spec => []OneLiveJobPerQueue
<1>1. PoolOnce => OneLiveJobPerQueue
    BY DEF PoolOnce, AtWork, OneLiveJobPerQueue
<1> QED
    BY <1>1, PoolOnceInvariant, PTL

(* A job at work is owned by the manager. *)
THEOREM PoolJobsHeld == Spec => []PoolJobsAreHeld
<1>1. TypeOK /\ PoolOnce => PoolJobsAreHeld
  <2> SUFFICES ASSUME TypeOK, PoolOnce, NEW j \in AtWork PROVE j \in Held
      BY DEF PoolJobsAreHeld
  <2>1. KindOf[j] \in Kinds /\ "nonBlocking" \in Kinds
      BY DEF TypeOK, AtWork, InPool, Range, Kinds
  <2>2. /\ \A k \in Kinds : Range(queue[k]) \subseteq Held /\ active[k] \in Held
        /\ taken \in Held
      BY HeldMembers
  <2>3. \/ j \in Range(queue["nonBlocking"]) \cup {active["nonBlocking"], taken}
        \/ j = active[KindOf[j]]
      BY DEF PoolOnce, AtWork
  <2> QED
      BY <2>1, <2>2, <2>3
<1> QED
    BY <1>1, TypeCorrect, PoolOnceInvariant, PTL

-----------------------------------------------------------------------------
(* A job is reported once and after its run(), unless it was cancelled. *)
THEOREM ReportsAreRight == Spec => []ReportedOnce
<1>1. Init => ReportedOnce
    BY DEF Init, ReportedOnce
<1>2. TypeOK /\ FlushKnows /\ ReportedOnce /\ [Next]_vars => ReportedOnce'
  <2> SUFFICES ASSUME TypeOK, FlushKnows, ReportedOnce, [Next]_vars PROVE ReportedOnce'
      OBVIOUS
  <2>1. CASE reports' = reports /\ done \subseteq done' /\ obsolete \subseteq obsolete'
      BY <2>1 DEF ReportedOnce
  <2>2. ASSUME phase \in {"emitObsolete", "emitDone"},
               reports' = [reports EXCEPT ![active[cur]] = @ + 1], UNCHANGED <<done, obsolete>>
        PROVE  ReportedOnce'
    <3> DEFINE j == active[cur]
    <3>1. j \in Jobs
        BY <2>2 DEF TypeOK, FlushKnows, Flushing
    <3>2. /\ reports'[j] = reports[j] + 1
          /\ \A i \in Jobs \ {j} : reports'[i] = reports[i]
        BY <2>2, <3>1 DEF TypeOK
    <3>3. \/ reports[j] = 0 /\ j \in obsolete \cup done
          \/ reports[j] = 1 /\ j \in obsolete
        BY <2>2 DEF FlushKnows, Flushing
    <3> QED
        BY <2>2, <3>2, <3>3 DEF ReportedOnce
  <2>3. CASE Flush
    <3>1. UNCHANGED <<done, obsolete>>
        BY <2>3, FlushSteps
    <3> QED
        BY <2>1, <2>2, <2>3, <3>1
        DEF Flush, FlushTest, FlushTestObsolete, FlushTestStop, FlushEmit, FlushLetGo
  <2>4. ~Flush => reports' = reports
      BY DEF Next, Manager, Add, StartRound, LeaveRun, EndRound, EmitIdle, KeepActive, Take,
             Store, NothingToTake, PoolStart, Cancel, Run, RunDone, RunReturn, ShutdownRequest,
             Shutdown, ShutdownTestActiveDB, ShutdownMarkActiveDB, ShutdownMarkQueues,
             ShutdownMarkQueue, ShutdownWaitJobs, ShutdownWaitStopped, vars
  <2>5. ~Flush => done \subseteq done' /\ obsolete \subseteq obsolete'
      BY DEF Next, Manager, Add, StartRound, LeaveRun, EndRound, EmitIdle, KeepActive, Take,
             Store, NothingToTake, PoolStart, Cancel, Run, RunDone, RunReturn, ShutdownRequest,
             Shutdown, ShutdownTestActiveDB, ShutdownMarkActiveDB, ShutdownMarkQueues,
             ShutdownMarkQueue, ShutdownWaitJobs, ShutdownWaitStopped, vars, poolVars
  <2> QED
      BY <2>1, <2>3, <2>4, <2>5
<1> QED
    BY <1>1, <1>2, TypeCorrect, FlushingIsOrdered, PTL DEF Spec

-----------------------------------------------------------------------------
(* No job is lost: it is held until it has finished or is cancelled. *)
THEOREM LetGoInvariant == Spec => []LetGoWhenFinished
<1>1. Init => LetGoWhenFinished
  <2>1. ASSUME Init PROVE Added = {}
    <3>1. \A k \in Kinds : Range(calls[k]) = {}
        BY <2>1 DEF Init, Range
    <3> QED
        BY <3>1 DEF Added
  <2> QED
      BY <2>1 DEF Init, LetGoWhenFinished
<1>2. TypeOK /\ HeldOnce /\ FlushKnows /\ LetGoWhenFinished /\ [Next]_vars => LetGoWhenFinished'
  <2> SUFFICES ASSUME TypeOK, HeldOnce, FlushKnows, LetGoWhenFinished, [Next]_vars
               PROVE  LetGoWhenFinished'
      OBVIOUS
  <2>1. (Added \subseteq Held \cup done \cup obsolete)'
    <3>1. done \subseteq done' /\ obsolete \subseteq obsolete'
        BY DEF Next, Manager, Add, StartRound, LeaveRun, EndRound, EmitIdle, KeepActive, Take,
               Store, Flush, FlushTest, FlushTestObsolete, FlushTestStop, FlushEmit, FlushLetGo,
               flushUnchanged, NothingToTake, PoolStart, Cancel, Run, RunDone, RunReturn,
               ShutdownRequest, Shutdown, ShutdownTestActiveDB, ShutdownMarkActiveDB,
               ShutdownMarkQueues, ShutdownMarkQueue, ShutdownWaitJobs, ShutdownWaitStopped,
               vars, poolVars
    <3>2. ASSUME NEW j \in Jobs, Add(j)
          PROVE  Added' = Added \cup {j} /\ Held \cup {j} \subseteq Held'
      <4>1. KindOf[j] \in Kinds /\ UNCHANGED <<active, taken>>
          BY <3>2 DEF Add, managerVars
      <4>2. \A k \in Kinds : Range(queue'[k]) =
                IF k = KindOf[j] THEN Range(queue[k]) \cup {j} ELSE Range(queue[k])
          BY <3>2, AddedByAdd
      <4> QED
          BY <3>2, <4>1, <4>2, AddedByAdd, HeldMembers
    <3>3. CASE UNCHANGED <<queue, active, taken, calls>>
      <4>1. Held' = Held /\ Added' = Added
          BY <3>3, AddedUnchanged DEF Held
      <4> QED
          BY <3>1, <4>1 DEF LetGoWhenFinished
    <3>4. CASE Flush
      <4>1. UNCHANGED <<queue, calls, taken, done, obsolete>> /\ Added' = Added
          BY <3>4, FlushSteps, AddedUnchanged
      <4>2. CASE UNCHANGED active
          BY <3>3, <4>1, <4>2
      <4>3. CASE FlushLetGo
        <5>1. /\ active[cur] \in obsolete \cup done
              /\ \A k \in Kinds \ {cur} : active'[k] = active[k]
            BY <4>3, LetGoStep DEF FlushKnows, Flushing
        <5>2. Held \subseteq Held' \cup {active[cur]}
            BY <4>1, <5>1, HeldMembers
        <5> QED
            BY <4>1, <5>1, <5>2 DEF LetGoWhenFinished
      <4> QED
          BY <3>4, <4>2, <4>3, FlushSteps
    <3>5. CASE Take
      <4>1. /\ UNCHANGED <<active, calls, done, obsolete>> /\ cur \in Kinds /\ taken = None
            /\ taken' = Head(queue[cur]) /\ queue[cur] # <<>>
          BY <3>5 DEF Take, TypeOK, poolVars
      <4>2. queue'[cur] = Tail(queue[cur]) /\ \A k \in Kinds \ {cur} : queue'[k] = queue[k]
          BY <3>5 DEF Take, TypeOK
      <4>3. Range(queue[cur]) = {taken'} \cup Range(queue'[cur])
          BY <4>1, <4>2, PopRange DEF TypeOK
      <4>4. \A x \in Held : x = None \/ x \in Held'
          BY <4>1, <4>2, <4>3, HeldMembers
      <4>5. None \notin Added
          BY DEF Added, TypeOK, Range
      <4> QED
          BY <4>1, <4>4, <4>5, AddedUnchanged DEF LetGoWhenFinished
    <3>6. CASE Store
      <4>1. /\ UNCHANGED <<queue, calls, done, obsolete>> /\ cur \in Kinds /\ active'[cur] = taken
            /\ \A k \in Kinds \ {cur} : active'[k] = active[k]
          BY <3>6 DEF Store, TypeOK
      <4>2. active[cur] = None
          BY <3>6 DEF Store, HeldOnce
      <4>3. \A x \in Held : x = None \/ x \in Held'
          BY <4>1, <4>2, HeldMembers
      <4>4. None \notin Added
          BY DEF Added, TypeOK, Range
      <4> QED
          BY <4>1, <4>3, <4>4, AddedUnchanged DEF LetGoWhenFinished
    <3>7. CASE \/ StartRound \/ LeaveRun \/ EndRound \/ EmitIdle \/ KeepActive
             \/ NothingToTake \/ PoolStart
               \/ ShutdownRequest \/ Shutdown \/ UNCHANGED vars
               \/ \E j \in Jobs : Cancel(j) \/ Run(j)
      <4>1. UNCHANGED <<queue, active, taken, calls>>
          BY <3>7
          DEF StartRound, LeaveRun, EndRound, EmitIdle, KeepActive, NothingToTake, PoolStart,
              Cancel, Run, RunDone, RunReturn, ShutdownRequest, Shutdown, ShutdownTestActiveDB,
              ShutdownMarkActiveDB, ShutdownMarkQueues, ShutdownMarkQueue, ShutdownWaitJobs,
              ShutdownWaitStopped, managerVars, vars
      <4> QED
          BY <3>3, <4>1
    <3>8. ASSUME NEW j \in Jobs, Add(j) PROVE (Added \subseteq Held \cup done \cup obsolete)'
        BY <3>1, <3>2, <3>8 DEF LetGoWhenFinished
    <3> QED
        BY <3>4, <3>5, <3>6, <3>7, <3>8 DEF Next, Manager
  <2>2. (main = "events" <=> ~stop_requested)'
      BY DEF LetGoWhenFinished, TypeOK, Next, Manager, Add, StartRound, LeaveRun, EndRound,
             EmitIdle, KeepActive, Take, Store, Flush, FlushTest, FlushTestObsolete,
             FlushTestStop, FlushEmit, FlushLetGo, flushUnchanged, NothingToTake, PoolStart,
             Cancel, Run, RunDone, RunReturn, ShutdownRequest, Shutdown, ShutdownTestActiveDB,
             ShutdownMarkActiveDB, ShutdownMarkQueues, ShutdownMarkQueue, ShutdownWaitJobs,
             ShutdownWaitStopped, vars
  <2>3. (stopped => phase = "ended")'
      BY DEF LetGoWhenFinished, TypeOK, Next, Manager, Add, StartRound, LeaveRun, EndRound,
             EmitIdle, KeepActive, Take, Store, Flush, FlushTest, FlushTestObsolete,
             FlushTestStop, FlushEmit, FlushLetGo, flushUnchanged, NothingToTake, PoolStart,
             Cancel, Run, RunDone, RunReturn, ShutdownRequest, Shutdown, ShutdownTestActiveDB,
             ShutdownMarkActiveDB, ShutdownMarkQueues, ShutdownMarkQueue, ShutdownWaitJobs,
             ShutdownWaitStopped, managerVars, vars, LeaveQueue
  <2>4. (phase = "ended" => stop_requested /\ ~HasAnyJobs)'
    <3>1. CASE phase # "ended"
      <4>1. phase' = "ended" => LeaveRun
          BY <3>1
          DEF Next, Manager, Add, StartRound, LeaveRun, EndRound, EmitIdle, KeepActive, Take,
              Store, Flush, FlushTest, FlushTestObsolete, FlushTestStop, FlushEmit, FlushLetGo,
              flushUnchanged, NothingToTake, PoolStart, Cancel, Run, RunDone, RunReturn,
              ShutdownRequest, Shutdown, ShutdownTestActiveDB, ShutdownMarkActiveDB,
              ShutdownMarkQueues, ShutdownMarkQueue, ShutdownWaitJobs, ShutdownWaitStopped,
              managerVars, vars, LeaveQueue
      <4> QED
          BY <4>1 DEF LeaveRun, HasAnyJobs, HasJobs
    <3>2. CASE phase = "ended"
      <4>1. UNCHANGED <<queue, active>> /\ stop_requested' = stop_requested
          BY <3>2
          DEF LetGoWhenFinished, Next, Manager, Add, StartRound, LeaveRun, EndRound, EmitIdle,
              KeepActive, Take, Store, Flush, FlushTest, FlushTestObsolete, FlushTestStop,
              FlushEmit, FlushLetGo, flushUnchanged, NothingToTake, PoolStart, Cancel, Run,
              RunDone, RunReturn, ShutdownRequest, Shutdown, ShutdownTestActiveDB,
              ShutdownMarkActiveDB, ShutdownMarkQueues, ShutdownMarkQueue, ShutdownWaitJobs,
              ShutdownWaitStopped, vars
      <4> QED
          BY <3>2, <4>1 DEF LetGoWhenFinished, HasAnyJobs, HasJobs
    <3> QED
        BY <3>1, <3>2
  <2>5. (main = "down" => stopped)'
      BY DEF LetGoWhenFinished, Next, Manager, Add, StartRound, LeaveRun, EndRound, EmitIdle,
             KeepActive, Take, Store, Flush, FlushTest, FlushTestObsolete, FlushTestStop,
             FlushEmit, FlushLetGo, flushUnchanged, NothingToTake, PoolStart, Cancel, Run,
             RunDone, RunReturn, ShutdownRequest, Shutdown, ShutdownTestActiveDB,
             ShutdownMarkActiveDB, ShutdownMarkQueues, ShutdownMarkQueue, ShutdownWaitJobs,
             ShutdownWaitStopped, managerVars, vars
  <2> QED
      BY <2>1, <2>2, <2>3, <2>4, <2>5 DEF LetGoWhenFinished
<1> QED
    BY <1>1, <1>2, TypeCorrect, HeldOnceInvariant, FlushingIsOrdered, PTL DEF Spec

(* When shutdown() is over no job is left in the manager, and every job    *)
(* has finished or was cancelled.                                          *)
THEOREM ShutdownSettles == Spec => []ShutdownSettlesAll
<1>1. TypeOK /\ LetGoWhenFinished => ShutdownSettlesAll
  <2> SUFFICES ASSUME TypeOK, LetGoWhenFinished, main = "down"
               PROVE  ~HasAnyJobs /\ Added \subseteq done \cup obsolete
      BY DEF ShutdownSettlesAll
  <2>1. phase = "ended" /\ ~HasAnyJobs /\ taken = None
      BY DEF LetGoWhenFinished, TypeOK
  <2>2. \A k \in Kinds : active[k] = None /\ Range(queue[k]) = {}
      BY <2>1 DEF HasAnyJobs, HasJobs, Range
  <2>3. Held \subseteq {None}
      BY <2>1, <2>2, HeldMembers
  <2>4. None \notin Added
      BY DEF Added, TypeOK, Range
  <2> QED
      BY <2>1, <2>3, <2>4 DEF LetGoWhenFinished
<1> QED
    BY <1>1, TypeCorrect, LetGoInvariant, PTL

-----------------------------------------------------------------------------
(* The done signals of a queue's jobs come in the order of the add calls. *)
THEOREM DoneInCallOrder == Spec => []DoneOrder
<1>1. Init => DoneOrder
    BY DEF Init, DoneOrder
<1>2. TypeOK /\ HeldUnreported /\ FlushKnows /\ QueueIsSuffix /\ DoneOrder /\ [Next]_vars
        => DoneOrder'
  <2> SUFFICES ASSUME TypeOK, HeldUnreported, FlushKnows, QueueIsSuffix, DoneOrder,
                      [Next]_vars
               PROVE  DoneOrder'
      OBVIOUS
  <2>1. CASE UNCHANGED <<calls, reports>>
      BY <2>1 DEF DoneOrder
  <2>2. ASSUME NEW j \in Jobs, Add(j) PROVE DoneOrder'
    <3> DEFINE k == KindOf[j]
    <3>1. /\ k \in Kinds /\ j \notin Added /\ reports' = reports
          /\ calls'[k] = Append(calls[k], j)
          /\ \A h \in Kinds \ {k} : calls'[h] = calls[h]
        BY <2>2 DEF Add, TypeOK
    <3>2. reports[j] = 0
        BY <3>1 DEF HeldUnreported
    <3>3. /\ DOMAIN calls'[k] = 1 .. Len(calls[k]) + 1 /\ DOMAIN calls[k] = 1 .. Len(calls[k])
          /\ Len(calls[k]) \in Nat /\ calls'[k][Len(calls[k]) + 1] = j
          /\ \A i \in 1 .. Len(calls[k]) : calls'[k][i] = calls[k][i]
        BY <3>1 DEF TypeOK
    <3>4. ASSUME NEW i \in DOMAIN calls'[k], NEW m \in DOMAIN calls'[k],
                 i < m, reports'[calls'[k][m]] > 0
          PROVE  reports'[calls'[k][i]] > 0
      <4>1. m # Len(calls[k]) + 1
          BY <3>1, <3>2, <3>3, <3>4
      <4>2. m \in 1 .. Len(calls[k]) /\ i \in 1 .. Len(calls[k])
          BY <3>3, <3>4, <4>1
      <4> QED
          BY <3>1, <3>3, <3>4, <4>2 DEF DoneOrder
    <3> QED
        BY <3>1, <3>4 DEF DoneOrder
  <2>3. CASE phase \in {"emitObsolete", "emitDone"} /\ Flush
    <3> DEFINE j == active[cur]
    <3>1. /\ UNCHANGED <<queue, calls>> /\ cur \in Kinds /\ j \in Jobs /\ j # None
          /\ reports' = [reports EXCEPT ![j] = @ + 1]
      <4>1. UNCHANGED <<queue, calls>> /\ cur \in Kinds
          BY <2>3, FlushSteps
      <4>2. j # None /\ j \in Jobs
          BY <2>3, <4>1 DEF FlushKnows, Flushing, TypeOK
      <4>3. reports' = [reports EXCEPT ![j] = @ + 1]
          BY <2>3 DEF Flush, FlushTest, FlushTestObsolete, FlushTestStop, FlushEmit, FlushLetGo
      <4> QED
          BY <4>1, <4>2, <4>3
    <3>2. reports'[j] = reports[j] + 1 /\ \A i \in Jobs \ {j} : reports'[i] = reports[i]
        BY <3>1 DEF TypeOK
    <3>3. \A i \in Jobs : reports[i] > 0 => reports'[i] > 0
        BY <3>1, <3>2 DEF TypeOK
    <3>4. /\ Position(cur) \in DOMAIN calls[cur] /\ calls[cur][Position(cur)] = j
          /\ KindOf[j] = cur /\ SuffixOf(cur)
      <4>1. Position(cur) \in DOMAIN calls[cur] /\ calls[cur][Position(cur)] = j
          BY <2>3, <3>1, FlushedIsLast
      <4> QED
          BY <3>1, <4>1 DEF QueueIsSuffix, SuffixOf, Range
    <3>5. \A i \in 1 .. Position(cur) - 1 : reports[calls[cur][i]] > 0
        BY <2>3 DEF FlushKnows, Flushing, Position
    <3>6. ASSUME NEW k \in Kinds, NEW i \in DOMAIN calls[k], NEW m \in DOMAIN calls[k],
                 i < m, reports'[calls[k][m]] > 0
          PROVE  reports'[calls[k][i]] > 0
      <4>1. calls[k][i] \in Jobs /\ calls[k][m] \in Jobs /\ calls[k][m] \in Range(calls[k])
          BY DEF TypeOK, Range
      <4>2. CASE calls[k][m] # j
        <5>1. reports[calls[k][i]] > 0
            BY <3>2, <3>6, <4>1, <4>2 DEF DoneOrder
        <5> QED
            BY <3>3, <4>1, <5>1
      <4>3. CASE calls[k][m] = j
        <5>1. k = cur
            BY <3>4, <4>1, <4>3 DEF QueueIsSuffix, SuffixOf
        <5>2. m = Position(cur)
            BY <3>4, <4>3, <5>1 DEF SuffixOf, IsInjective
        <5>3. i \in 1 .. Position(cur) - 1
          <6>1. calls[cur] \in Seq(Jobs)
              BY <3>1 DEF TypeOK
          <6>2. i \in Nat \ {0} /\ m \in Nat
              BY <5>1, <6>1
          <6> QED
              BY <3>6, <5>2, <6>2
        <5> QED
            BY <3>3, <3>5, <4>1, <5>1, <5>3
      <4> QED
          BY <4>2, <4>3
    <3> QED
        BY <3>1, <3>6 DEF DoneOrder
  <2>5. CASE phase \notin {"emitObsolete", "emitDone"} /\ Flush
    <3>1. UNCHANGED <<calls, reports>>
        BY <2>5, FlushSteps DEF Flush, FlushTest, FlushTestObsolete, FlushTestStop, FlushEmit,
                                FlushLetGo
    <3> QED
        BY <2>1, <3>1
  <2>4. CASE \/ StartRound \/ LeaveRun \/ EndRound \/ EmitIdle \/ KeepActive
             \/ NothingToTake \/ Take \/ Store \/ PoolStart \/ ShutdownRequest \/ Shutdown
             \/ UNCHANGED vars
             \/ \E j \in Jobs : Cancel(j) \/ Run(j)
    <3>1. UNCHANGED <<calls, reports>>
        BY <2>4
        DEF StartRound, LeaveRun, EndRound, EmitIdle, KeepActive, NothingToTake, Take, Store,
            PoolStart, Cancel, Run, RunDone, RunReturn, ShutdownRequest, Shutdown,
            ShutdownTestActiveDB, ShutdownMarkActiveDB, ShutdownMarkQueues, ShutdownMarkQueue,
            ShutdownWaitJobs, ShutdownWaitStopped, vars
    <3> QED
        BY <2>1, <3>1
  <2> QED
      BY <2>2, <2>3, <2>4, <2>5 DEF Next, Manager
<1> QED
    BY <1>1, <1>2, TypeCorrect, HeldUnreportedInvariant, FlushingIsOrdered, PTL DEF Spec

-----------------------------------------------------------------------------
(* databaseIdle is emitted only while no database job is at work. *)
THEOREM NoneAtWorkWhenIdle == Spec => []IdleWhenNoneAtWork
<1> DEFINE Test == phase = "emitIdle" => active["db"] = None
<1>1. Init => Test
    BY DEF Init
<1>2. TypeOK /\ Test /\ [Next]_vars => Test'
  <2> SUFFICES ASSUME TypeOK, Test, [Next]_vars, phase' = "emitIdle" PROVE active'["db"] = None
      OBVIOUS
  <2>1. CASE EndRound
      BY <2>1 DEF EndRound, HasJobs
  <2>2. CASE Flush
      BY <2>2, FlushSteps DEF Flushing
  <2>3. CASE StartRound \/ LeaveRun \/ EmitIdle \/ KeepActive \/ NothingToTake \/ Take \/ Store
      BY <2>3
      DEF StartRound, LeaveRun, EmitIdle, KeepActive, NothingToTake, Take, Store, LeaveQueue
  <2>4. CASE \/ ShutdownRequest \/ Shutdown \/ PoolStart \/ UNCHANGED vars
             \/ \E j \in Jobs : Add(j) \/ Cancel(j) \/ Run(j)
    <3>1. UNCHANGED <<phase, active>>
        BY <2>4
        DEF PoolStart, Add, Cancel, Run, RunDone, RunReturn, ShutdownRequest, Shutdown,
            ShutdownTestActiveDB, ShutdownMarkActiveDB, ShutdownMarkQueues, ShutdownMarkQueue,
            ShutdownWaitJobs, ShutdownWaitStopped, managerVars, vars
    <3> QED
        BY <3>1
  <2> QED
      BY <2>1, <2>2, <2>3, <2>4 DEF Next, Manager
<1>3. TypeOK /\ PoolOnce /\ Test => IdleWhenNoneAtWork
  <2> SUFFICES ASSUME TypeOK, PoolOnce, active["db"] = None, NEW j \in AtWork
               PROVE  KindOf[j] # "db"
      BY DEF IdleWhenNoneAtWork
  <2>1. j # None
      BY JobsAssumption DEF AtWork, InPool, TypeOK, Range
  <2> QED
      BY <2>1 DEF PoolOnce
<1> QED
    BY <1>1, <1>2, <1>3, TypeCorrect, PoolOnceInvariant, PTL DEF Spec

-----------------------------------------------------------------------------
(* JobManager implements JobOrder: the refinement mapping takes as line of *)
(* a kind the active job, the one in flight and the queue.                  *)

(* The part of a line that is not in the queue any more. *)
Front(k) == (IF active[k] # None THEN <<active[k]>> ELSE <<>>)
            \o (IF taken # None /\ cur = k THEN <<taken>> ELSE <<>>)

(* Sequences: what is in front stays in front. *)
LEMMA AppendBehind ==
    ASSUME NEW S, NEW s \in Seq(S), NEW t \in Seq(S), NEW x \in S
    PROVE  s \o Append(t, x) = Append(s \o t, x)
    OBVIOUS

LEMMA FirstOfLine ==
    ASSUME NEW S, NEW s \in Seq(S), NEW x \in S
    PROVE  /\ <<x>> \o s # <<>> /\ Head(<<x>> \o s) = x /\ Tail(<<x>> \o s) = s
           /\ <<>> \o s = s /\ <<x>> \o <<>> = <<x>> /\ <<>> \o <<x>> = <<x>>
<1>1. <<>> \o s = s /\ <<x>> \o <<>> = <<x>> /\ <<>> \o <<x>> = <<x>>
    OBVIOUS
<1>2. <<x>> \o s # <<>> /\ Head(<<x>> \o s) = x
    OBVIOUS
<1>3. Tail(<<x>> \o s) = s
  <2>1. /\ Len(<<x>> \o s) = Len(s) + 1 /\ <<x>> \o s \in Seq(S)
        /\ \A i \in 1 .. Len(s) : (<<x>> \o s)[i + 1] = s[i]
      OBVIOUS
  <2>2. /\ Tail(<<x>> \o s) \in Seq(S) /\ Len(Tail(<<x>> \o s)) = Len(s)
        /\ \A i \in 1 .. Len(s) : Tail(<<x>> \o s)[i] = s[i]
      BY <2>1
  <2> QED
      BY <2>2
<1> QED
    BY <1>1, <1>2, <1>3

LEMMA HeadAndTail ==
    ASSUME NEW S, NEW s \in Seq(S), s # <<>>
    PROVE  <<Head(s)>> \o Tail(s) = s /\ Head(s) \in S /\ Tail(s) \in Seq(S)
    OBVIOUS

(* The four forms of a line. *)
LEMMA LineForms ==
    ASSUME TypeOK, NEW k \in Kinds
    PROVE  /\ Line(k) = Front(k) \o queue[k] /\ Front(k) \in Seq(Jobs) /\ queue[k] \in Seq(Jobs)
           /\ active[k] = None /\ ~(taken # None /\ cur = k) => Line(k) = queue[k]
           /\ active[k] # None /\ ~(taken # None /\ cur = k) => Line(k) = <<active[k]>> \o queue[k]
           /\ active[k] = None /\ taken # None /\ cur = k => Line(k) = <<taken>> \o queue[k]
<1>1. queue[k] \in Seq(Jobs) /\ active[k] \in Jobs \cup {None} /\ taken \in Jobs \cup {None}
    BY DEF TypeOK
<1>2. active[k] # None => <<active[k]>> \o <<>> = <<active[k]>>
    BY <1>1, FirstOfLine
<1>3. taken # None => <<>> \o <<taken>> = <<taken>>
    BY <1>1, FirstOfLine
<1>4. <<>> \o <<>> = <<>> /\ <<>> \o queue[k] = queue[k]
    BY <1>1
<1>5. Front(k) \in Seq(Jobs)
    BY <1>1 DEF Front
<1> QED
    BY <1>1, <1>2, <1>3, <1>4, <1>5 DEF Line, Front

(* What the proofs of JobManager establish and the steps need. *)
Known == TypeOK /\ HeldOnce /\ PoolOnce /\ FlushKnows /\ LetGoWhenFinished

(* A step that leaves the lines alone. *)
LEMMA LineUnchanged ==
    ASSUME NEW k \in Kinds, UNCHANGED <<queue, active, taken>>, taken = None \/ cur' = cur
    PROVE  Line(k)' = Line(k)
    BY DEF Line

(* add...Job puts the job at the end of its line, before shutdown(). *)
LEMMA AddImplements ==
    ASSUME Known, NEW j \in Jobs, Add(j)
    PROVE  Order!Add(j)
<1>1. KindOf[j] \in Kinds
    BY KindAssumption
<1>2. /\ UNCHANGED <<active, taken, cur, phase, done, obsolete, stop_requested, reports>>
      /\ j \notin Added /\ ~stop_requested
    BY DEF Add, managerVars, Known, LetGoWhenFinished
<1>3. /\ Added' = Added \cup {j}
      /\ queue'[KindOf[j]] = Append(queue[KindOf[j]], j)
      /\ \A k \in Kinds \ {KindOf[j]} : queue'[k] = queue[k]
    BY AddedByAdd DEF Known
<1>4. ASSUME NEW k \in Kinds, k = KindOf[j] PROVE Line(k)' = Append(Line(k), j)
  <2>1. Line(k)' = Front(k) \o Append(queue[k], j)
      BY <1>2, <1>3, <1>4 DEF Line, Front
  <2>2. Front(k) \in Seq(Jobs) /\ queue[k] \in Seq(Jobs) /\ Line(k) = Front(k) \o queue[k]
      BY LineForms DEF Known
  <2> QED
      BY <2>1, <2>2, AppendBehind
<1>5. ASSUME NEW k \in Kinds, k # KindOf[j] PROVE Line(k)' = Line(k)
    BY <1>2, <1>3, <1>5 DEF Line
<1>6. [k \in Kinds |-> Line(k)]' =
         [[k \in Kinds |-> Line(k)] EXCEPT ![KindOf[j]] = Append(@, j)]
    BY <1>1, <1>4, <1>5
<1>7. Due' = Due
    BY <1>2 DEF Due
<1> QED
    BY <1>2, <1>3, <1>6, <1>7 DEF Order!Add

(* Jobs are cancelled one by one or, in shutdown(), a queue at a time. *)
LEMMA CancelImplements ==
    ASSUME Known, NEW set \in SUBSET Added, obsolete' = obsolete \cup set,
           UNCHANGED <<queue, active, taken, cur, phase, calls, done, stop_requested, reports>>
    PROVE  Order!Next
<1>1. \A k \in Kinds : Line(k)' = Line(k)
    BY LineUnchanged
<1>2. Added' = Added
    BY AddedUnchanged
<1>3. Order!Cancel(set)
    BY <1>1, <1>2 DEF Order!Cancel, Due
<1> QED
    BY <1>3 DEF Order!Next

(* What the users do not see. *)
LEMMA StutterImplements ==
    ASSUME \A k \in Kinds : Line(k)' = Line(k), Due' = Due,
           UNCHANGED <<calls, done, obsolete, stop_requested, reports>>
    PROVE  UNCHANGED Order!vars
<1>1. Added' = Added
    BY AddedUnchanged
<1> QED
    BY <1>1 DEF Order!vars

(* The main thread in shutdown(). *)
LEMMA ShutdownImplements ==
    ASSUME Known, ShutdownRequest \/ Shutdown
    PROVE  Order!Next \/ UNCHANGED Order!vars
<1>1. UNCHANGED <<queue, active, taken, cur, phase, calls, done, reports>>
    BY DEF ShutdownRequest, Shutdown, ShutdownTestActiveDB, ShutdownMarkActiveDB,
           ShutdownMarkQueues, ShutdownMarkQueue, ShutdownWaitJobs, ShutdownWaitStopped,
           managerVars, poolVars
<1>2. (\A k \in Kinds : Line(k)' = Line(k)) /\ Due' = Due
    BY <1>1, LineUnchanged DEF Due
<1>3. CASE ShutdownRequest
  <2>1. ~stop_requested /\ stop_requested' = TRUE /\ UNCHANGED obsolete
      BY <1>3 DEF ShutdownRequest, Known, LetGoWhenFinished
  <2>2. Added' = Added
      BY <1>1, AddedUnchanged
  <2>3. Order!Stop
      BY <1>1, <1>2, <2>1, <2>2 DEF Order!Stop
  <2> QED
      BY <2>3 DEF Order!Next
<1>4. CASE ShutdownTestActiveDB \/ ShutdownWaitJobs \/ ShutdownWaitStopped
  <2>1. UNCHANGED <<obsolete, stop_requested>>
      BY <1>4 DEF ShutdownTestActiveDB, ShutdownWaitJobs, ShutdownWaitStopped
  <2> QED
      BY <1>1, <1>2, <2>1, StutterImplements
<1>5. CASE ShutdownMarkActiveDB
  <2>1. UNCHANGED stop_requested
      BY <1>5 DEF ShutdownMarkActiveDB
  <2>2. CASE obsolete' = obsolete \cup {active["db"]} /\ active["db"] # None
    <3>1. {active["db"]} \in SUBSET Added
        BY <2>2 DEF Known, HeldOnce, Kinds
    <3> QED
        BY <1>1, <2>1, <2>2, <3>1, CancelImplements
  <2>3. CASE UNCHANGED obsolete
      BY <1>1, <1>2, <2>1, <2>3, StutterImplements
  <2> QED
      BY <1>5, <2>2, <2>3 DEF ShutdownMarkActiveDB
<1>6. CASE ShutdownMarkQueues
  <2>1. PICK k \in Kinds : obsolete' = obsolete \cup Range(queue[k])
      BY <1>6 DEF ShutdownMarkQueues, ShutdownMarkQueue, Kinds
  <2>2. UNCHANGED stop_requested
      BY <1>6 DEF ShutdownMarkQueues, ShutdownMarkQueue
  <2>3. Range(queue[k]) \in SUBSET Added
      BY DEF Known, HeldOnce
  <2> QED
      BY <1>1, <2>1, <2>2, <2>3, CancelImplements
<1> QED
    BY <1>3, <1>4, <1>5, <1>6 DEF Shutdown

(* The job that is being flushed is the first of its line. *)
LEMMA FlushedIsFirst ==
    ASSUME Known, phase \in Flushing
    PROVE  /\ cur \in Kinds /\ active[cur] \in Jobs /\ active[cur] # None
           /\ Line(cur) # <<>> /\ Head(Line(cur)) = active[cur] /\ Tail(Line(cur)) = queue[cur]
<1>1. cur \in Kinds /\ active[cur] # None /\ active[cur] \in Jobs /\ taken = None
    BY DEF Known, FlushKnows, TypeOK, Flushing
<1>2. Line(cur) = <<active[cur]>> \o queue[cur] /\ queue[cur] \in Seq(Jobs)
    BY <1>1, LineForms DEF Known
<1> QED
    BY <1>1, <1>2, FirstOfLine

(* The manager thread decides on a report, makes it, and lets go of the    *)
(* first job of a line; what it tests before that nobody sees.             *)
LEMMA FlushImplements ==
    ASSUME Known, Flush
    PROVE  Order!Next \/ UNCHANGED Order!vars
<1> DEFINE j == active[cur]
           lines == [k \in Kinds |-> Line(k)]
<1>1. /\ UNCHANGED <<queue, taken, cur, stop_requested, done, obsolete, calls>>
      /\ taken = None /\ cur \in Kinds /\ phase \in Flushing \cup {"flush"}
    BY FlushSteps DEF Known
<1>2. Added' = Added
    BY <1>1, AddedUnchanged
<1>3. UNCHANGED active => lines' = lines
    BY <1>1, LineUnchanged
<1>4. CASE FlushTest
  <2>1. UNCHANGED <<active, reports>> /\ phase = "flush" /\ phase' = "testObsolete"
      BY <1>4 DEF FlushTest
  <2>2. Due' = Due
      BY <2>1 DEF Due
  <2>3. \A k \in Kinds : Line(k)' = Line(k)
      BY <1>1, <2>1, LineUnchanged
  <2> QED
      BY <1>1, <2>1, <2>2, <2>3, StutterImplements
<1>5. CASE FlushTestObsolete \/ FlushTestStop
  <2>1. /\ phase \in {"testObsolete", "testDone"} /\ UNCHANGED <<active, reports>>
        /\ phase' \in {"emitObsolete", "testDone", "emitDone", "letGo"}
        /\ phase' \in {"emitObsolete", "emitDone"} => ~stop_requested
      BY <1>5 DEF FlushTestObsolete, FlushTestStop
  <2>2. CASE phase' \in {"testDone", "letGo"}
    <3>1. Due' = Due
        BY <2>1, <2>2 DEF Due
    <3>2. \A k \in Kinds : Line(k)' = Line(k)
        BY <1>1, <2>1, LineUnchanged
    <3> QED
        BY <1>1, <2>1, <3>1, <3>2, StutterImplements
  <2>3. CASE phase' \in {"emitObsolete", "emitDone"}
    <3>1. Due = None /\ Due' = j /\ ~stop_requested
        BY <1>1, <2>1, <2>3 DEF Due
    <3>2. Line(cur) # <<>> /\ Head(Line(cur)) = j
        BY <2>1, FlushedIsFirst DEF Flushing
    <3>3. j \in obsolete \cup done /\ (reports[j] = 0 \/ (reports[j] = 1 /\ j \in obsolete))
        BY <2>1 DEF Known, FlushKnows, Flushing
    <3>4. lines[cur] = Line(cur)
        BY <1>1
    <3>5. Order!Decide(cur)
        BY <1>1, <1>2, <1>3, <2>1, <3>1, <3>2, <3>3, <3>4 DEF Order!Decide
    <3> QED
        BY <1>1, <3>5 DEF Order!Next, Order!Kinds, Kinds
  <2> QED
      BY <2>1, <2>2, <2>3
<1>6. CASE FlushEmit("emitObsolete", "testDone") \/ FlushEmit("emitDone", "letGo")
  <2>1. /\ phase \in {"emitObsolete", "emitDone"} /\ phase' \in {"testDone", "letGo"}
        /\ UNCHANGED active /\ reports' = [reports EXCEPT ![j] = @ + 1]
      BY <1>6 DEF FlushEmit
  <2>2. Due = j /\ Due' = None /\ j # None
      BY <2>1, FlushedIsFirst DEF Due, Flushing
  <2>3. Order!Report
      BY <1>1, <1>2, <1>3, <2>1, <2>2 DEF Order!Report
  <2> QED
      BY <2>3 DEF Order!Next
<1>7. CASE FlushLetGo
  <2>1. /\ phase = "letGo" /\ phase' = "take" /\ UNCHANGED reports
        /\ active'[cur] = None /\ \A k \in Kinds \ {cur} : active'[k] = active[k]
      BY <1>7, LetGoStep DEF Known
  <2>2. /\ j # None /\ Line(cur) # <<>> /\ Head(Line(cur)) = j /\ Tail(Line(cur)) = queue[cur]
        /\ queue[cur] \in Seq(Jobs)
      BY <1>1, <2>1, FlushedIsFirst DEF Flushing, Known, TypeOK
  <2>3. Line(cur)' = queue[cur]
    <3>1. Line(cur)' = (<<>> \o <<>>) \o queue[cur]
        BY <1>1, <2>1 DEF Line
    <3> QED
        BY <2>2, <3>1
  <2>4. \A k \in Kinds \ {cur} : Line(k)' = Line(k)
      BY <1>1, <2>1 DEF Line
  <2>5. lines' = [lines EXCEPT ![cur] = Tail(@)]
      BY <1>1, <2>2, <2>3, <2>4
  <2>6. Due = None /\ Due' = None /\ lines[cur] = Line(cur)
      BY <1>1, <2>1 DEF Due
  <2>7. /\ j \in obsolete \cup done
        /\ stop_requested \/ reports[j] = 2 \/ (reports[j] = 1 /\ j \in done)
      BY <2>1 DEF Known, FlushKnows, Flushing
  <2>8. Order!Leave(cur)
      BY <1>1, <1>2, <2>1, <2>2, <2>5, <2>6, <2>7 DEF Order!Leave
  <2> QED
      BY <1>1, <2>8 DEF Order!Next, Order!Kinds, Kinds
<1> QED
    BY <1>4, <1>5, <1>6, <1>7 DEF Flush

(* All else it does leaves the lines as they are, also the job in flight   *)
(* from a queue to the active job.                                         *)
LEMMA ManagerImplements ==
    ASSUME Known, Manager, ~Flush
    PROVE  UNCHANGED Order!vars
<1>0. UNCHANGED <<calls, done, obsolete, stop_requested, reports>> /\ Due' = Due
    BY DEF Manager, StartRound, LeaveRun, KeepActive, Take, NothingToTake, Store, EndRound,
           EmitIdle, LeaveQueue, poolVars, Due
<1>1. cur \in Kinds
    BY DEF Known, TypeOK
<1>2. CASE StartRound \/ LeaveRun \/ KeepActive \/ NothingToTake \/ EndRound \/ EmitIdle
  <2>1. taken = None /\ UNCHANGED <<queue, active, taken>>
      BY <1>2
      DEF StartRound, LeaveRun, KeepActive, NothingToTake, EndRound, EmitIdle, Known, TypeOK
  <2>2. \A k \in Kinds : Line(k)' = Line(k)
      BY <2>1, LineUnchanged
  <2> QED
      BY <1>0, <2>2, StutterImplements
<1>3. CASE Take
  <2>1. /\ taken = None /\ active[cur] = None /\ queue[cur] # <<>> /\ queue[cur] \in Seq(Jobs)
        /\ taken' = Head(queue[cur]) /\ queue' = [queue EXCEPT ![cur] = Tail(@)]
        /\ UNCHANGED <<active, cur>>
      BY <1>1, <1>3 DEF Take, Known, TypeOK, HeldOnce
  <2>2. taken' # None /\ taken' \in Jobs /\ Tail(queue[cur]) \in Seq(Jobs)
      BY <2>1, JobsAssumption, HeadAndTail
  <2>3. Line(cur) = queue[cur]
      BY <1>1, <2>1, LineForms DEF Known
  <2>4. ASSUME NEW k \in Kinds, k = cur PROVE Line(k)' = Line(k)
    <3>1. Line(k)' = (<<>> \o <<taken'>>) \o Tail(queue[k])
        BY <2>1, <2>2, <2>4 DEF Line, Known, TypeOK
    <3> QED
        BY <2>1, <2>2, <2>3, <2>4, <3>1, HeadAndTail, FirstOfLine
  <2>5. ASSUME NEW k \in Kinds, k # cur PROVE Line(k)' = Line(k)
      BY <2>1, <2>5 DEF Line, Known, TypeOK
  <2> QED
      BY <1>0, <2>4, <2>5, StutterImplements
<1>4. CASE Store
  <2>1. /\ taken \in Jobs /\ taken # None /\ active[cur] = None /\ queue[cur] \in Seq(Jobs)
        /\ taken' = None /\ active' = [active EXCEPT ![cur] = taken] /\ UNCHANGED queue
      BY <1>1, <1>4, JobsAssumption DEF Store, Known, TypeOK, HeldOnce
  <2>2. Line(cur) = <<taken>> \o queue[cur]
      BY <1>1, <2>1, LineForms DEF Known
  <2>3. ASSUME NEW k \in Kinds, k = cur PROVE Line(k)' = Line(k)
    <3>1. active'[k] = taken
        BY <2>1, <2>3 DEF Known, TypeOK
    <3>2. Line(k)' = (<<taken>> \o <<>>) \o queue[k]
        BY <2>1, <3>1 DEF Line
    <3> QED
        BY <2>1, <2>2, <2>3, <3>2, FirstOfLine
  <2>4. ASSUME NEW k \in Kinds, k # cur PROVE Line(k)' = Line(k)
      BY <2>1, <2>4 DEF Line, Known, TypeOK
  <2> QED
      BY <1>0, <2>3, <2>4, StutterImplements
<1> QED
    BY <1>2, <1>3, <1>4 DEF Manager

(* The pool: a job that was not cancelled works only as the first of its line. *)
LEMMA RunDoneImplements ==
    ASSUME Known, NEW j \in Jobs, RunDone(j)
    PROVE  Order!Next
<1>1. /\ j \in running \ done /\ done' = done \cup {j}
      /\ UNCHANGED <<queue, active, taken, cur, phase, stop_requested, obsolete, calls, reports>>
    BY DEF RunDone, managerVars
<1>2. \A k \in Kinds : Line(k)' = Line(k)
    BY <1>1, LineUnchanged
<1>3. Added' = Added
    BY <1>1, AddedUnchanged
<1>4. j \in Added /\ j \in InPool /\ KindOf[j] \in Kinds
    BY <1>1, KindAssumption DEF Known, PoolOnce, InPool
<1>8. Due' = Due
    BY <1>1 DEF Due
<1>5. \/ KindOf[j] = "nonBlocking"
      \/ j \in obsolete
      \/ Line(KindOf[j]) # <<>> /\ j = Head(Line(KindOf[j]))
  <2> SUFFICES ASSUME KindOf[j] # "nonBlocking", j \notin obsolete
               PROVE  Line(KindOf[j]) # <<>> /\ j = Head(Line(KindOf[j]))
      OBVIOUS
  <2>1. j = active[KindOf[j]] /\ j # None
      BY <1>1, <1>4, JobsAssumption DEF Known, PoolOnce, AtWork
  <2>2. ~(taken # None /\ cur = KindOf[j])
      BY <2>1 DEF Known, HeldOnce, TypeOK
  <2>3. Line(KindOf[j]) = <<j>> \o queue[KindOf[j]] /\ queue[KindOf[j]] \in Seq(Jobs)
      BY <1>4, <2>1, <2>2, LineForms DEF Known
  <2> QED
      BY <2>3, FirstOfLine
<1>6. [k \in Kinds |-> Line(k)][KindOf[j]] = Line(KindOf[j])
    BY <1>4
<1>7. Order!Finish(j)
    BY <1>1, <1>2, <1>3, <1>4, <1>5, <1>6, <1>8 DEF Order!Finish
<1> QED
    BY <1>7 DEF Order!Next

(* The job manager keeps the promise: every step of its threads is a step  *)
(* of the three lines, or changes nothing that those who add jobs can see. *)
THEOREM ImplementsJobOrder == Spec => KeepsJobOrder
<1>1. Init => Order!Init
  <2> SUFFICES ASSUME Init PROVE Order!Init
      OBVIOUS
  <2>1. \A k \in Kinds : Line(k) = <<>>
      BY DEF Init, Line
  <2>2. Added = {}
      BY DEF Init, Added, Range
  <2>3. [k \in Kinds |-> Line(k)] = [k \in Kinds |-> <<>>]
      BY <2>1
  <2> QED
      BY <2>2, <2>3 DEF Init, Order!Init, Order!Kinds, Kinds, Due
<1>2. Known /\ [Next]_vars => [Order!Next]_Order!vars
  <2> SUFFICES ASSUME Known, [Next]_vars PROVE Order!Next \/ UNCHANGED Order!vars
      OBVIOUS
  <2>1. ASSUME NEW j \in Jobs, Add(j) PROVE Order!Next
      BY <2>1, AddImplements DEF Order!Next
  <2>2. ASSUME NEW j \in Jobs, Cancel(j) PROVE Order!Next
    <3>1. {j} \in SUBSET Added /\ obsolete' = obsolete \cup {j}
        BY <2>2 DEF Cancel
    <3>2. UNCHANGED <<queue, active, taken, cur, phase, calls, done, stop_requested, reports>>
        BY <2>2 DEF Cancel, managerVars, poolVars
    <3> QED
        BY <3>1, <3>2, CancelImplements
  <2>3. CASE ShutdownRequest \/ Shutdown
      BY <2>3, ShutdownImplements
  <2>4. CASE Manager
      BY <2>4, FlushImplements, ManagerImplements
  <2>5. CASE PoolStart \/ UNCHANGED vars \/ \E j \in Jobs : RunReturn(j)
    <3>1. UNCHANGED <<queue, active, taken, cur, phase, calls, done, obsolete, stop_requested,
                      reports>>
        BY <2>5 DEF PoolStart, RunReturn, vars, managerVars, poolVars
    <3>2. (\A k \in Kinds : Line(k)' = Line(k)) /\ Due' = Due
        BY <3>1, LineUnchanged DEF Due
    <3> QED
        BY <3>1, <3>2, StutterImplements
  <2> QED
      BY <2>1, <2>2, <2>3, <2>4, <2>5, RunDoneImplements DEF Next, Run
<1>3. Spec => []Known
    BY TypeCorrect, HeldOnceInvariant, PoolOnceInvariant, FlushingIsOrdered, LetGoInvariant, PTL
    DEF Known
<1> QED
    BY <1>1, <1>2, <1>3, PTL DEF Spec, KeepsJobOrder, Order!Spec
=============================================================================
