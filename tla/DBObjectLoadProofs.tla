------------------------ MODULE DBObjectLoadProofs ------------------------
(***************************************************************************)
(* Theorems about DBObjectLoad, for any number of objects, of chunks and   *)
(* of loads.  The first part (Consistent) holds for any use of the Stop    *)
(* button, and so does NoAssertionFails, which says what has to happen     *)
(* before an assertion can fail.  The second part (Regular, Complete and   *)
(* what follows them) is about loads that are not stopped, and neither     *)
(* started while another is in progress: it does not hold otherwise.       *)
(***************************************************************************)
EXTENDS DBObjectLoad, FiniteSetTheorems, TLAPS

-----------------------------------------------------------------------------
(* Sequences: the event queue and the lines grow at the end and shrink at  *)
(* the front.                                                              *)

(* t is s with copies of e, at least one, at its end. *)
Continues(s, t, e) ==
    /\ Len(s) <= Len(t)
    /\ \A i \in 1 .. Len(s) : t[i] = s[i]
    /\ \A i \in Len(s) + 1 .. Len(t) : t[i] = e
    /\ Len(t) > Len(s)

(* An element at the end. *)
LEMMA AppendContinues ==
    ASSUME NEW S, NEW s \in Seq(S), NEW e \in S
    PROVE  /\ Append(s, e) \in Seq(S)
           /\ Continues(s, Append(s, e), e)
           /\ Len(Append(s, e)) = Len(s) + 1
BY DEF Continues

(* The front is gone. *)
LEMMA TailShifts ==
    ASSUME NEW S, NEW s \in Seq(S), s # <<>>
    PROVE  /\ Len(s) \in Nat \ {0}
           /\ Head(s) = s[1] /\ Head(s) \in S
           /\ Tail(s) \in Seq(S)
           /\ Len(Tail(s)) = Len(s) - 1
           /\ \A i \in 1 .. Len(s) - 1 : Tail(s)[i] = s[i + 1]
OBVIOUS

(* A sequence at the end of another. *)
LEMMA ConcatIndices ==
    ASSUME NEW S, NEW s \in Seq(S), NEW t \in Seq(S)
    PROVE  /\ s \o t \in Seq(S)
           /\ Len(s \o t) = Len(s) + Len(t)
           /\ \A i \in 1 .. Len(s) : (s \o t)[i] = s[i]
           /\ \A i \in 1 .. Len(t) : (s \o t)[Len(s) + i] = t[i]
OBVIOUS

-----------------------------------------------------------------------------
(* The jobs of one load are added in the order of their objects.           *)

(* How many of the wanted objects come up to o. *)
Rank(wanted, o) == Cardinality({p \in wanted : p <= o})

(* Each place from 1 to the number of the wanted objects is that of one of *)
(* them.                                                                   *)
LEMMA RanksAreThePlaces ==
    ASSUME NEW wanted \in SUBSET Objects
    PROVE  /\ Cardinality(wanted) \in Nat
           /\ \A o \in wanted : Rank(wanted, o) \in 1 .. Cardinality(wanted)
           /\ \A o, u \in wanted : Rank(wanted, o) = Rank(wanted, u) => o = u
           /\ \A i \in 1 .. Cardinality(wanted) : \E o \in wanted : Rank(wanted, o) = i
<1>1. IsFiniteSet(Objects)
    BY ObjectsAssumption, FS_Interval DEF Objects
<1>2. IsFiniteSet(wanted) /\ Cardinality(wanted) \in Nat
    BY <1>1, FS_Subset, FS_CardinalityType
<1>3. \A o \in wanted : o \in Nat
    BY ObjectsAssumption DEF Objects
<1> DEFINE Up(o) == {p \in wanted : p <= o}
<1>4. ASSUME NEW o \in wanted
      PROVE  /\ IsFiniteSet(Up(o))
             /\ Cardinality(Up(o)) \in 1 .. Cardinality(wanted)
  <2>1. IsFiniteSet(Up(o)) /\ Cardinality(Up(o)) <= Cardinality(wanted)
      BY <1>2, FS_Subset
  <2>2. o \in Up(o)
      BY <1>3
  <2>3. Cardinality(Up(o)) \in Nat /\ Cardinality(Up(o)) # 0
      BY <2>1, <2>2, FS_CardinalityType, FS_EmptySet
  <2> QED
      BY <2>1, <2>3, <1>2
<1>5. ASSUME NEW o \in wanted, NEW u \in wanted, o < u
      PROVE  Cardinality(Up(o)) # Cardinality(Up(u))
  <2>1. Up(o) \in SUBSET Up(u)
      BY <1>3, <1>5
  <2>2. u \in Up(u) /\ u \notin Up(o)
      BY <1>3, <1>5
  <2> QED
      BY <2>1, <2>2, <1>4, FS_Subset
<1> DEFINE f == [o \in wanted |-> Cardinality(Up(o))]
<1>6. ASSUME NEW o \in wanted, NEW u \in wanted, f[o] = f[u]
      PROVE  o = u
  <2>1. Cardinality(Up(o)) = Cardinality(Up(u))
      BY <1>6
  <2> HIDE DEF Up
  <2>2. ~(o < u) /\ ~(u < o)
      BY <2>1, <1>5
  <2> QED
      BY <2>2, <1>3
<1>7. f \in Injection(wanted, 1 .. Cardinality(wanted))
    BY <1>4, <1>6 DEF Injection, IsInjective
<1>8. /\ IsFiniteSet(1 .. Cardinality(wanted))
      /\ Cardinality(1 .. Cardinality(wanted)) = Cardinality(wanted)
    BY <1>2, FS_Interval
<1>9. f \in Surjection(wanted, 1 .. Cardinality(wanted))
    BY <1>7, <1>8, FS_Injection
<1>10. \A i \in 1 .. Cardinality(wanted) : \E o \in wanted : f[o] = i
    BY <1>9 DEF Surjection
<1> QED
    BY <1>2, <1>4, <1>6, <1>10 DEF Rank

(* A read job or the job that finalizes a chunk, of a load of an object. *)
ChunkJob(o, l, n) == [obj |-> o, load |-> l, chunk |-> n]

(* The read jobs that a call of loadSlot adds, in this order. *)
NewJobs(wanted) ==
    LET new == [o \in wanted |-> [obj |-> o, load |-> loads + 1, chunk |-> 0]]
    IN  [i \in 1 .. Cardinality(wanted) |->
            new[CHOOSE o \in wanted : Cardinality({p \in wanted : p <= o}) = i]]

(* They are one per wanted object. *)
LEMMA NewJobsOfWanted ==
    ASSUME NEW wanted \in SUBSET Objects, loads \in Nat, loads < MaxLoads
    PROVE  /\ NewJobs(wanted) \in Seq(ReadJobs)
           /\ \A x \in 1 .. Len(NewJobs(wanted)) : \E o \in wanted :
                  NewJobs(wanted)[x] = ChunkJob(o, loads + 1, 0)
           /\ \A o \in wanted : \E x \in 1 .. Len(NewJobs(wanted)) :
                  NewJobs(wanted)[x] = ChunkJob(o, loads + 1, 0)
           /\ \A x, y \in 1 .. Len(NewJobs(wanted)) :
                  NewJobs(wanted)[x] = NewJobs(wanted)[y] => x = y
<1> DEFINE n == Cardinality(wanted)
           at(i) == CHOOSE o \in wanted : Rank(wanted, o) = i
<1>1. /\ n \in Nat
      /\ \A o \in wanted : Rank(wanted, o) \in 1 .. n
      /\ \A o, u \in wanted : Rank(wanted, o) = Rank(wanted, u) => o = u
      /\ \A i \in 1 .. n : \E o \in wanted : Rank(wanted, o) = i
    BY RanksAreThePlaces
<1>2. \A i \in 1 .. n : at(i) \in wanted /\ Rank(wanted, at(i)) = i
    BY <1>1
<1>3. NewJobs(wanted) = [i \in 1 .. n |-> ChunkJob(at(i), loads + 1, 0)]
    BY <1>2 DEF NewJobs, ChunkJob, Rank
<1>4. \A o \in wanted : ChunkJob(o, loads + 1, 0) \in ReadJobs
    BY BoundsAssumption DEF ChunkJob, ReadJobs
<1> HIDE DEF n, at
<1>5. NewJobs(wanted) \in Seq(ReadJobs) /\ Len(NewJobs(wanted)) = n
    BY <1>1, <1>2, <1>3, <1>4
<1>6. \A i \in 1 .. n : NewJobs(wanted)[i] = ChunkJob(at(i), loads + 1, 0)
    BY <1>3
<1>7. ASSUME NEW o \in wanted
      PROVE  at(Rank(wanted, o)) = o
    BY <1>1, <1>2
<1>8. ASSUME NEW x \in 1 .. n, NEW y \in 1 .. n, NewJobs(wanted)[x] = NewJobs(wanted)[y]
      PROVE  x = y
  <2>1. ChunkJob(at(x), loads + 1, 0) = ChunkJob(at(y), loads + 1, 0)
      BY <1>6, <1>8
  <2>2. at(x) = at(y)
      BY <2>1 DEF ChunkJob
  <2> QED
      BY <2>2, <1>2
<1> QED
    BY <1>1, <1>2, <1>5, <1>6, <1>7, <1>8

(* The two kinds of jobs. *)
LEMMA JobKinds ==
    /\ Jobs = ReadJobs \cup FinalizeJobs /\ None \notin Jobs
    /\ \A j \in ReadJobs :
          /\ KindOf[j] = "db" /\ j \notin FinalizeJobs
          /\ j.obj \in Objects /\ j.load \in 1 .. MaxLoads
          /\ j = ChunkJob(j.obj, j.load, 0)
    /\ \A j \in FinalizeJobs :
          /\ KindOf[j] = "blocking" /\ j \notin ReadJobs
          /\ j.obj \in Objects /\ j.load \in 1 .. MaxLoads
          /\ j.chunk \in 1 .. Chunks[j.obj]
          /\ j = ChunkJob(j.obj, j.load, j.chunk)
    /\ \A o \in Objects, l \in 1 .. MaxLoads : ChunkJob(o, l, 0) \in ReadJobs
    /\ \A o \in Objects, l \in 1 .. MaxLoads : \A n \in 1 .. Chunks[o] :
          ChunkJob(o, l, n) \in FinalizeJobs
<1>1. Jobs = ReadJobs \cup FinalizeJobs /\ None \notin Jobs
    BY NoneAssumption DEF Jobs
<1>2. ASSUME NEW j \in ReadJobs
      PROVE  /\ KindOf[j] = "db" /\ j \notin FinalizeJobs
             /\ j.obj \in Objects /\ j.load \in 1 .. MaxLoads
             /\ j = ChunkJob(j.obj, j.load, 0)
  <2>1. j.chunk = 0 /\ j.obj \in Objects /\ j.load \in 1 .. MaxLoads
      BY DEF ReadJobs
  <2>2. j = ChunkJob(j.obj, j.load, 0)
      BY DEF ReadJobs, ChunkJob
  <2>3. KindOf[j] = "db"
      BY <2>1, <1>1 DEF KindOf
  <2>4. j \notin FinalizeJobs
      BY <2>1, ChunksAssumption DEF FinalizeJobs
  <2> QED
      BY <2>1, <2>2, <2>3, <2>4
<1>3. ASSUME NEW j \in FinalizeJobs
      PROVE  /\ KindOf[j] = "blocking" /\ j \notin ReadJobs
             /\ j.obj \in Objects /\ j.load \in 1 .. MaxLoads
             /\ j.chunk \in 1 .. Chunks[j.obj]
             /\ j = ChunkJob(j.obj, j.load, j.chunk)
  <2>1. PICK o \in Objects : j.chunk \in 1 .. Chunks[o]
      BY DEF FinalizeJobs
  <2>2. j.obj \in Objects /\ j.load \in 1 .. MaxLoads /\ j.chunk <= Chunks[j.obj]
      BY DEF FinalizeJobs
  <2>3. j.chunk \in 1 .. Chunks[j.obj] /\ j.chunk # 0
      BY <2>1, <2>2, ChunksAssumption
  <2>4. j = ChunkJob(j.obj, j.load, j.chunk)
      BY DEF FinalizeJobs, ChunkJob
  <2>5. KindOf[j] = "blocking"
      BY <2>3, <1>1 DEF KindOf
  <2> QED
      BY <2>2, <2>3, <2>4, <2>5, <1>2
<1>4. \A o \in Objects, l \in 1 .. MaxLoads : ChunkJob(o, l, 0) \in ReadJobs
    BY DEF ChunkJob, ReadJobs
<1>5. \A o \in Objects, l \in 1 .. MaxLoads : \A n \in 1 .. Chunks[o] :
          ChunkJob(o, l, n) \in FinalizeJobs
    BY DEF ChunkJob, FinalizeJobs
<1> QED
    BY <1>1, <1>2, <1>3, <1>4, <1>5

-----------------------------------------------------------------------------
(* The invariant, for every use of the Stop button.                        *)

(* Where run() of a read job can be. *)
Steps == {"new", "prepare", "read", "emit", "unlock", "finalize", "over"}

(* What is posted of a chunk that was read. *)
BufferEvents == [what : {"buffer"}, job : ReadJobs, chunk : Nat]
(* What is posted of a job that has ended. *)
EndEvents    == [what : {"done"}, job : Jobs, chunk : {0}]

(* The job manager holds jobs that were added to it. *)
LinesTyped ==
    /\ line \in [Manager!Kinds -> Seq(Jobs)]
    /\ stopping = FALSE
    /\ added \subseteq Jobs
    /\ finished \subseteq added /\ cancelled \subseteq added /\ emitted \subseteq added

(* A signal is due of a job that is finished or cancelled, and a second    *)
(* one of a cancelled job only.                                            *)
DueTyped ==
    /\ due \in Jobs \cup {None}
    /\ due # None => due \in finished \cup cancelled /\ (due \in emitted => due \in cancelled)

(* The read jobs, the connection and the event queue. *)
ReadersTyped ==
    /\ step \in [ReadJobs -> Steps] /\ row_count \in [ReadJobs -> Nat]
    /\ mutex \in ReadJobs \cup {None} /\ prepared_command \in ReadJobs \cup {None}
    /\ events \in Seq(BufferEvents \cup EndEvents)

(* The members of the objects. *)
ObjectsTyped ==
    /\ read_job \in [Objects -> ReadJobs \cup {None}]
    /\ finalize_jobs \in [Objects -> SUBSET FinalizeJobs]
    /\ data \in [Objects -> Seq(FinalizeJobs)]
    /\ announced \in [Objects -> Nat]

(* The load widget and the bounds of the instance. *)
CountersTyped ==
    /\ waiting \in Nat /\ loads \in Nat /\ loads + waiting <= MaxLoads
    /\ stops \in Nat /\ cursor \in Nat /\ finishes \in Nat
    /\ load_in_progress \in BOOLEAN /\ button \in {"Load", "Stop", "disabled"}

(* The type invariant. *)
Typed == LinesTyped /\ DueTyped /\ ReadersTyped /\ ObjectsTyped /\ CountersTyped

(* Each job is in the line of its kind at most once, and was added.        *)
JobsInLine ==
    \A k \in {"db", "blocking"} : \A x \in 1 .. Len(line[k]) :
        /\ line[k][x] \in added /\ KindOf[line[k][x]] = k
        /\ \A y \in 1 .. Len(line[k]) : line[k][x] = line[k][y] => x = y

(* A buffer event tells of a chunk that was read, and a job is done only   *)
(* once its signals were emitted.                                          *)
JobsInEvents ==
    \A p \in 1 .. Len(events) :
        /\ events[p].what = "done" => events[p].job \in emitted
        /\ events[p].what = "buffer" => /\ events[p].job \in added
                                        /\ events[p].chunk \in 1 .. row_count[events[p].job]

(* The lines and the events hold only jobs that were added.                *)
Queued == JobsInLine /\ JobsInEvents /\ \A j \in added : j.load <= loads

(* Where a read job is, what it has read, and what of the connection it    *)
(* may hold there.                                                         *)
Reading ==
    /\ \A j \in ReadJobs :
          /\ row_count[j] <= Chunks[j.obj]
          /\ step[j] \in {"new", "prepare", "read", "emit"} => row_count[j] < Chunks[j.obj]
          /\ step[j] \in {"new", "prepare"} => row_count[j] = 0
          /\ j \notin added => step[j] = "new"
          /\ j \in finished => step[j] = "over"
    /\ mutex # None => step[mutex] \in {"read", "emit", "unlock"}
    /\ prepared_command # None => step[prepared_command] \in {"read", "emit", "unlock", "finalize"}

(* e is in the event queue. *)
Posted(e) == \E p \in 1 .. Len(events) : events[p] = e

(* The done signal of j is still to come. *)
Pending(j) == (j \notin emitted /\ InLine(j)) \/ Posted(Done(j))

(* The jobs that an object holds are its own, and will be reported.        *)
Current ==
    \A o \in Objects :
        /\ read_job[o] # None =>
               read_job[o] \in added /\ read_job[o].obj = o /\ Pending(read_job[o])
        /\ \A k \in finalize_jobs[o] : k \in added \ cancelled /\ k.obj = o /\ Pending(k)

(* The done signal of m comes before that of k. *)
Before(m, k) ==
    /\ \A q \in 1 .. Len(events) : events[q] = Done(k) =>
           \E r \in 1 .. q - 1 : events[r] = Done(m)
    /\ m \notin emitted =>
           \A x, y \in 1 .. Len(line["blocking"]) :
               line["blocking"][x] = m /\ line["blocking"][y] = k => x < y

(* The chunks of an object are finalized in their order. *)
Chain == \A o \in Objects : \A m, k \in finalize_jobs[o] : m.chunk < k.chunk => Before(m, k)

(* The buffers of a read job arrive in the order of their chunks. *)
InSequence ==
    \A p, q \in 1 .. Len(events) :
        /\ events[p].what = "buffer" /\ events[q].what = "buffer"
        /\ events[p].job = events[q].job /\ p < q
        => events[p].chunk < events[q].chunk

(* All chunks of j after chunk b that were read are in the events, and     *)
(* none up to it.                                                          *)
Unread(j, b) ==
    /\ b <= row_count[j]
    /\ \A p \in 1 .. Len(events) :
           events[p].what = "buffer" /\ events[p].job = j => events[p].chunk > b
    /\ \A n \in b + 1 .. row_count[j] : Posted(Event("buffer", j, n))

(* Of load l of the object, data_ ends with chunk a, the chunks after a up *)
(* to b are being finalized, and those after b are still to arrive.        *)
Sequel(o, a, b, l) ==
    /\ a <= b /\ Len(data[o]) <= a
    /\ \A i \in 1 .. Len(data[o]) : data[o][i] = ChunkJob(o, l, (a - Len(data[o])) + i)
    /\ \A k : k \in finalize_jobs[o] <=> \E n \in a + 1 .. b : k = ChunkJob(o, l, n)
    /\ \A j \in added : j.obj = o => j.load <= l
    /\ read_job[o] # None => read_job[o].load = l /\ Unread(read_job[o], b)

(* data_ and the chunks to come are those of one load, in their order. *)
InOrder == \A o \in Objects : \E a, b, l \in Nat : Sequel(o, a, b, l)

(* While loading is in progress something will end it, and the button and  *)
(* the cursor say so.                                                      *)
Front ==
    /\ load_in_progress => waiting > 0 \/ \E o \in Objects : Loading(o)
    /\ button # "Load" => load_in_progress
    /\ Results # "always" => cursor = (IF load_in_progress THEN 1 ELSE 0)

(* The inductive invariant. *)
Consistent == Typed /\ Queued /\ Reading /\ Current /\ Chain /\ InSequence /\ InOrder /\ Front

(* It holds at the start. *)
LEMMA StartIsConsistent == Init => Consistent
<1> SUFFICES ASSUME Init
             PROVE  Consistent
    OBVIOUS
<1>1. line = [k \in Manager!Kinds |-> <<>>] /\ added = {} /\ finished = {} /\ cancelled = {}
      /\ stopping = FALSE /\ emitted = {} /\ events = <<>> /\ loads = 0 /\ waiting = 0
    BY DEF Init, Manager!Init
<1>2. Typed
  <2>1. LinesTyped
      BY <1>1 DEF LinesTyped
  <2>2. ReadersTyped
      BY <1>1 DEF Init, ReadersTyped, Steps
  <2>3. ObjectsTyped
      BY DEF Init, ObjectsTyped
  <2>4. CountersTyped
    <3>1. /\ waiting \in Nat /\ loads \in Nat /\ loads + waiting <= MaxLoads
          /\ stops \in Nat /\ cursor \in Nat /\ finishes \in Nat
        BY BoundsAssumption DEF Init
    <3>2. load_in_progress \in BOOLEAN /\ button \in {"Load", "Stop", "disabled"}
        BY DEF Init
    <3> QED
        BY <3>1, <3>2 DEF CountersTyped
  <2>5. DueTyped
      BY DEF Init, Manager!Init, DueTyped
  <2> QED
      BY <2>1, <2>2, <2>3, <2>4, <2>5 DEF Typed
<1>3. \A k \in {"db", "blocking"} : line[k] = <<>>
    BY <1>1 DEF Manager!Kinds
<1>4. Queued
    BY <1>1, <1>3 DEF Queued, JobsInLine, JobsInEvents
<1>5. Reading
  <2>1. \A j \in ReadJobs : Chunks[j.obj] \in Nat \ {0}
      BY ChunksAssumption, JobKinds
  <2> QED
      BY <1>1, <2>1 DEF Init, Reading
<1>6. Current /\ Chain
    BY DEF Init, Current, Chain
<1>7. InSequence
    BY <1>1 DEF InSequence
<1>8. InOrder
  <2> SUFFICES ASSUME NEW o \in Objects
               PROVE  Sequel(o, 0, 0, 0)
      BY DEF InOrder
  <2> QED
      BY <1>1 DEF Init, Sequel
<1>9. Front
    BY DEF Init, Front
<1> QED
    BY <1>2, <1>4, <1>5, <1>6, <1>7, <1>8, <1>9 DEF Consistent

-----------------------------------------------------------------------------
(* What the steps do.                                                      *)

(* A step inside run() of a job, but for the emission of a buffer. *)
Quiet ==
    UNCHANGED <<line, added, cancelled, stopping, emitted, row_count, events, objectVars,
                frontVars, userVars>>

(* loadSlot is called. *)
Load == \E label \in {"Load", "Stop", "disabled"} : Free /\ LoadSlot(label)

(* The kinds of steps the parts of the invariant tell apart. *)
LEMMA StepCases ==
    ASSUME Typed, [Next]_vars
    PROVE  \/ \E k \in {"db", "blocking"} : Emit(k)
           \/ \E k \in {"db", "blocking"} : LetGo(k)
           \/ \E j \in ReadJobs : ReadEmit(j)
           \/ Quiet
           \/ BufferSlot \/ ReadDoneSlot \/ FinalizeDoneSlot
           \/ ContinueLoad \/ Load \/ StopButton
<1>1. ASSUME NEW j \in ReadJobs, Read(j)
      PROVE  ReadEmit(j) \/ Quiet
  <2>1. CASE ReadObsolete(j) \/ ReadEnd(j)
      BY <2>1 DEF ReadObsolete, ReadEnd, Manager!Finish, Quiet
  <2>2. CASE ReadStart(j) \/ ReadChunk(j) \/ ReadUnlock(j) \/ ReadPrepare(j)
      BY <2>2 DEF ReadStart, ReadChunk, ReadUnlock, ReadPrepare, Quiet, managerVars
  <2> QED
      BY <1>1, <2>1, <2>2 DEF Read
<1>2. ASSUME NEW j, Finalize(j) \/ RunDestroyed(j)
      PROVE  Quiet
    BY <1>2 DEF Finalize, RunDestroyed, Manager!Finish, Quiet, managerVars, readerVars
<1>3. CASE UNCHANGED vars
    BY <1>3 DEF vars, Quiet, managerVars, readerVars
<1>4. CASE User
  <2>1. button \in {"Load", "Stop", "disabled"}
      BY DEF Typed, CountersTyped
  <2> QED
      BY <1>4, <2>1 DEF User, LoadButton, ShowResult, Load
<1>5. CASE Next
  <2>1. CASE \E k \in {"db", "blocking"} : Manage(k)
    <3>1. ASSUME NEW k, Decide(k)
          PROVE  Quiet
        BY <3>1 DEF Decide, Manager!Decide, Quiet, readerVars
    <3> QED
        BY <2>1, <3>1 DEF Manage
  <2>2. CASE Slots
      BY <2>2 DEF Slots
  <2>3. CASE \E j \in ReadJobs : Read(j)
      BY <2>3, <1>1
  <2>4. CASE (\E j \in FinalizeJobs : Finalize(j)) \/ (\E j \in Jobs : RunDestroyed(j))
      BY <2>4, <1>2
  <2> QED
      BY <1>5, <2>1, <2>2, <2>3, <2>4, <1>4 DEF Next
<1> QED
    BY <1>3, <1>5

(* What the events are. *)
LEMMA EventKinds ==
    ASSUME Typed
    PROVE  /\ Len(events) \in Nat
           /\ \A p \in 1 .. Len(events) :
                 /\ events[p].what \in {"buffer", "done"}
                 /\ events[p].what = "buffer" =>
                        /\ events[p].job \in ReadJobs /\ events[p].chunk \in Nat
                        /\ events[p] = Event("buffer", events[p].job, events[p].chunk)
                 /\ events[p].what = "done" =>
                        events[p].job \in Jobs /\ events[p] = Done(events[p].job)
<1>1. events \in Seq(BufferEvents \cup EndEvents)
    BY DEF Typed, ReadersTyped
<1>2. Len(events) \in Nat /\ \A p \in 1 .. Len(events) : events[p] \in BufferEvents \cup EndEvents
    BY <1>1
<1>3. ASSUME NEW e \in BufferEvents
      PROVE  /\ e.what = "buffer" /\ e.job \in ReadJobs /\ e.chunk \in Nat
             /\ e = Event("buffer", e.job, e.chunk)
    BY DEF BufferEvents, Event
<1>4. ASSUME NEW e \in EndEvents
      PROVE  e.what = "done" /\ e.job \in Jobs /\ e = Done(e.job)
    BY DEF EndEvents, Event, Done
<1> QED
    BY <1>2, <1>3, <1>4

(* The signals of a job are events, and their parts. *)
LEMMA SignalKinds ==
    /\ \A j \in Jobs : Done(j) \in EndEvents
    /\ \A j \in ReadJobs, n \in Nat : Event("buffer", j, n) \in BufferEvents
    /\ \A j : Done(j).what = "done" /\ Done(j).job = j
    /\ \A j, n : /\ Event("buffer", j, n).what = "buffer"
                 /\ Event("buffer", j, n).job = j /\ Event("buffer", j, n).chunk = n
BY DEF EndEvents, BufferEvents, Event, Done

(* A slot takes the front of the event queue. *)
LEMMA TakeEvent ==
    ASSUME Typed, NEW name, NextEvent(name)
    PROVE  /\ Len(events) \in Nat \ {0} /\ Head(events) = events[1] /\ events[1].what = name
           /\ events' \in Seq(BufferEvents \cup EndEvents)
           /\ Len(events') = Len(events) - 1
           /\ \A p \in 1 .. Len(events') : events'[p] = events[p + 1]
<1>1. events \in Seq(BufferEvents \cup EndEvents)
    BY DEF Typed, ReadersTyped
<1>2. events # <<>> /\ events' = Tail(events) /\ Head(events).what = name
    BY DEF NextEvent
<1> HIDE DEF BufferEvents, EndEvents
<1> QED
    BY <1>1, <1>2, TailShifts

(* A decision changes nothing but what is due. *)
LEMMA DecideLeaves ==
    ASSUME NEW k, Decide(k)
    PROVE  /\ Quiet
           /\ UNCHANGED <<finished, reports, step, row_count, mutex, prepared_command, aborted>>
BY DEF Decide, Manager!Decide, Quiet, readerVars

(* Emitting a signal of a job changes no more than what is due, the         *)
(* reports, and the event queue.                                           *)
LEMMA EmitLeaves ==
    ASSUME NEW k, Emit(k)
    PROVE  UNCHANGED <<line, added, finished, cancelled, stopping, step, row_count, mutex,
                       prepared_command, read_job, finalize_jobs, data, announced,
                       load_in_progress, button, cursor, finishes, waiting, loads, stops, aborted>>
<1>1. CASE EmitObsolete(k)
    BY <1>1 DEF EmitObsolete, EmitFirst, readerVars, objectVars, frontVars, userVars
<1>2. CASE EmitDone(k)
    BY <1>2 DEF EmitDone, Manager!Report, readerVars, objectVars, frontVars, userVars
<1> QED
    BY <1>1, <1>2 DEF Emit

(* Emitting the signals of a job, or a buffer, grows the event queue. *)
LEMMA EmitEvents ==
    ASSUME Typed, NEW k \in {"db", "blocking"}, Emit(k), Queued
    PROVE  LET j == Head(line[k]) IN
           /\ Len(line[k]) \in Nat \ {0} /\ line[k][1] = j
           /\ j \in added \ (emitted \ cancelled) /\ j \in finished \cup cancelled
           /\ KindOf[j] = k
           /\ emitted' = emitted \cup {j}
           /\ events' \in Seq(BufferEvents \cup EndEvents)
           /\ Continues(events, events', Done(j))
           /\ Len(events') = Len(events) + 1
<1> DEFINE j == Head(line[k])
<1>1. line[k] \in Seq(Jobs) /\ line[k] # <<>>
    BY DEF Typed, LinesTyped, Emit, EmitObsolete, EmitFirst, EmitDone, Manager!Kinds
<1>2. Len(line[k]) \in Nat \ {0} /\ line[k][1] = j
    BY <1>1, TailShifts
<1>3. j \in added /\ KindOf[j] = k
    BY <1>2 DEF Queued, JobsInLine
<1>4. /\ j \in finished \cup cancelled /\ j \notin emitted \ cancelled
      /\ emitted' = emitted \cup {j} /\ events' = Append(events, Done(j))
  <2>1. CASE EmitObsolete(k)
      BY <2>1 DEF EmitObsolete, EmitFirst, Post
  <2>2. CASE EmitDone(k)
    <3>1. due = j /\ due \in Jobs
        BY <2>2, <1>3 DEF EmitDone, Typed, LinesTyped
    <3>2. due # None
        BY <3>1, NoneAssumption
    <3> QED
        BY <2>2, <3>1, <3>2 DEF EmitDone, Post, Manager!Report, Typed, DueTyped
  <2> QED
      BY <2>1, <2>2 DEF Emit
<1>5. Done(j) \in BufferEvents \cup EndEvents
    BY <1>3, SignalKinds DEF Typed, LinesTyped
<1>6. events \in Seq(BufferEvents \cup EndEvents)
    BY DEF Typed, ReadersTyped
<1> HIDE DEF j
<1>7. /\ events' \in Seq(BufferEvents \cup EndEvents)
      /\ Continues(events, events', Done(j))
      /\ Len(events') = Len(events) + 1
    BY <1>4, <1>5, <1>6, AppendContinues
<1> QED
    BY <1>2, <1>3, <1>4, <1>7 DEF j

(* ... a buffer, unless the job is gone. *)
LEMMA BufferEmitted ==
    ASSUME Typed, Reading, NEW j \in ReadJobs, ReadEmit(j)
    PROVE  /\ j \in added /\ step[j] = "emit"
           /\ row_count[j] \in Nat /\ row_count[j] + 1 <= Chunks[j.obj]
           /\ step' = [step EXCEPT ![j] = IF row_count[j] + 1 = Chunks[j.obj]
                                          THEN "unlock" ELSE "read"]
           /\ row_count' = [row_count EXCEPT ![j] = row_count[j] + 1]
           /\ events' \in Seq(BufferEvents \cup EndEvents)
           /\ \/ Destroyed(j) /\ events' = events
              \/ /\ ~Destroyed(j)
                 /\ Continues(events, events', Event("buffer", j, row_count[j] + 1))
                 /\ Len(events') = Len(events) + 1
<1>1. step[j] = "emit"
    BY DEF ReadEmit, To
<1>2. j \in added /\ row_count[j] < Chunks[j.obj]
    BY <1>1 DEF Reading
<1>3. row_count[j] \in Nat /\ Chunks[j.obj] \in Nat
    BY JobKinds, ChunksAssumption DEF Typed, ReadersTyped
<1>4. Event("buffer", j, row_count[j] + 1) \in BufferEvents \cup EndEvents
    BY <1>3, SignalKinds
<1>5. events \in Seq(BufferEvents \cup EndEvents)
    BY DEF Typed, ReadersTyped
<1>6. /\ step' = [step EXCEPT ![j] = IF row_count[j] + 1 = Chunks[j.obj]
                                     THEN "unlock" ELSE "read"]
      /\ row_count' = [row_count EXCEPT ![j] = row_count[j] + 1]
      /\ events' = IF Destroyed(j) THEN events
                   ELSE Append(events, Event("buffer", j, row_count[j] + 1))
    BY DEF ReadEmit, To
<1>7. /\ events' \in Seq(BufferEvents \cup EndEvents)
      /\ \/ Destroyed(j) /\ events' = events
         \/ /\ ~Destroyed(j)
            /\ Continues(events, events', Event("buffer", j, row_count[j] + 1))
            /\ Len(events') = Len(events) + 1
    BY <1>4, <1>5, <1>6, AppendContinues
<1> QED
    BY <1>1, <1>2, <1>3, <1>6, <1>7

(* The manager lets go of the job at the front of a line. *)
LEMMA LineShifts ==
    ASSUME Typed, Queued, NEW k \in {"db", "blocking"}, LetGo(k)
    PROVE  /\ Len(line[k]) \in Nat \ {0} /\ Head(line[k]) = line[k][1]
           /\ line[k][1] \in emitted
           /\ line' \in [Manager!Kinds -> Seq(Jobs)]
           /\ \A i \in Manager!Kinds \ {k} : line'[i] = line[i]
           /\ Len(line'[k]) = Len(line[k]) - 1
           /\ \A x \in 1 .. Len(line'[k]) : line'[k][x] = line[k][x + 1]
           /\ UNCHANGED <<added, finished, cancelled, stopping>>
<1>1. line \in [Manager!Kinds -> Seq(Jobs)] /\ k \in Manager!Kinds
    BY DEF Typed, LinesTyped, Manager!Kinds
<1>2. /\ line[k] # <<>> /\ Head(line[k]) \in emitted
      /\ line' = [line EXCEPT ![k] = Tail(@)]
      /\ UNCHANGED <<added, finished, cancelled, stopping>>
    BY DEF LetGo, Manager!Leave
<1>3. line[k] \in Seq(Jobs)
    BY <1>1
<1>4. /\ Len(line[k]) \in Nat \ {0} /\ Head(line[k]) = line[k][1]
      /\ Tail(line[k]) \in Seq(Jobs) /\ Len(Tail(line[k])) = Len(line[k]) - 1
      /\ \A x \in 1 .. Len(line[k]) - 1 : Tail(line[k])[x] = line[k][x + 1]
    BY <1>2, <1>3, TailShifts
<1> QED
    BY <1>1, <1>2, <1>4

(* A buffer arrives: a job to finalize it is added, or the event is lost. *)
LEMMA BufferArrives ==
    ASSUME Typed, Queued, Reading, BufferSlot
    PROVE  LET r == events[1].job
               j == ChunkJob(r.obj, r.load, events[1].chunk)
           IN
           /\ NextEvent("buffer") /\ r \in ReadJobs
           /\ UNCHANGED <<emitted, step, row_count, mutex, prepared_command, waiting, loads, stops,
                          read_job, data, announced, load_in_progress, button, cursor, finishes,
                          stopping, cancelled, finished>>
           /\ \/ r # read_job[r.obj] /\ UNCHANGED <<line, added, finalize_jobs>>
              \/ /\ r = read_job[r.obj] /\ j \in FinalizeJobs /\ j \notin added
                 /\ added' = added \cup {j}
                 /\ finalize_jobs' = [finalize_jobs EXCEPT ![r.obj] = @ \cup {j}]
                 /\ line' \in [Manager!Kinds -> Seq(Jobs)]
                 /\ line'["db"] = line["db"]
                 /\ Continues(line["blocking"], line'["blocking"], j)
                 /\ Len(line'["blocking"]) = Len(line["blocking"]) + 1
<1> DEFINE e == Head(events)
           r == events[1].job
           n == events[1].chunk
           j == ChunkJob(r.obj, r.load, n)
<1>1. NextEvent("buffer")
    BY DEF BufferSlot
<1>2. /\ Len(events) \in Nat \ {0} /\ e = events[1] /\ events[1].what = "buffer"
    BY <1>1, TakeEvent
<1>3. r \in ReadJobs /\ n \in 1 .. row_count[r]
    BY <1>2, EventKinds DEF Queued, JobsInEvents
<1>4. n \in 1 .. Chunks[r.obj]
    BY <1>3, JobKinds, ChunksAssumption DEF Reading, Typed, ReadersTyped
<1>5. j \in FinalizeJobs /\ r = ChunkJob(r.obj, r.load, 0)
    BY <1>3, <1>4, JobKinds
<1>6. [r EXCEPT !.chunk = n] = j
    BY <1>5 DEF ChunkJob
<1>7. UNCHANGED <<emitted, step, row_count, mutex, prepared_command, waiting, loads, stops>>
    BY DEF BufferSlot, readerVars, userVars
<1>8. \/ /\ r # read_job[r.obj]
         /\ UNCHANGED <<managerVars, objectVars, frontVars>>
      \/ /\ r = read_job[r.obj]
         /\ finalize_jobs' = [finalize_jobs EXCEPT ![r.obj] = @ \cup {j}]
         /\ Manager!Add(j)
         /\ UNCHANGED <<read_job, data, announced, frontVars>>
  <2>1. CASE Destroyed(e.job) /\ UNCHANGED <<managerVars, objectVars, frontVars, aborted>>
      BY <2>1, <1>2 DEF Destroyed
  <2>2. CASE e.job # read_job[e.job.obj] /\ Abort("sender == read_job_.get()")
      BY <2>2, <1>2 DEF Abort
  <2>3. CASE /\ e.job = read_job[e.job.obj]
             /\ finalize_jobs' = [finalize_jobs EXCEPT ![e.job.obj]
                                    = @ \cup {[e.job EXCEPT !.chunk = e.chunk]}]
             /\ Manager!Add([e.job EXCEPT !.chunk = e.chunk])
             /\ UNCHANGED <<read_job, data, announced, frontVars, aborted>>
      BY <2>3, <1>2, <1>6
  <2> QED
      BY <2>1, <2>2, <2>3 DEF BufferSlot
<1>9. CASE /\ r # read_job[r.obj]
           /\ UNCHANGED <<managerVars, objectVars, frontVars>>
    BY <1>9, <1>1, <1>3, <1>7 DEF managerVars, objectVars, frontVars
<1>10. CASE /\ r = read_job[r.obj]
            /\ finalize_jobs' = [finalize_jobs EXCEPT ![r.obj] = @ \cup {j}]
            /\ Manager!Add(j)
            /\ UNCHANGED <<read_job, data, announced, frontVars>>
  <2>1. line \in [Manager!Kinds -> Seq(Jobs)] /\ {"db", "blocking"} \subseteq Manager!Kinds
      BY DEF Typed, LinesTyped, Manager!Kinds
  <2>2. KindOf[j] = "blocking" /\ j \in Jobs
      BY <1>5, JobKinds
  <2>3. /\ j \notin added /\ added' = added \cup {j}
        /\ line' = [line EXCEPT !["blocking"] = Append(@, j)]
        /\ UNCHANGED <<finished, cancelled, stopping>>
      BY <1>10, <2>2 DEF Manager!Add
  <2> HIDE DEF j
  <2>4. line["blocking"] \in Seq(Jobs)
      BY <2>1
  <2>5. /\ Append(line["blocking"], j) \in Seq(Jobs)
        /\ Continues(line["blocking"], Append(line["blocking"], j), j)
        /\ Len(Append(line["blocking"], j)) = Len(line["blocking"]) + 1
      BY <2>2, <2>4, AppendContinues
  <2>6. /\ line' \in [Manager!Kinds -> Seq(Jobs)]
        /\ line'["db"] = line["db"]
        /\ line'["blocking"] = Append(line["blocking"], j)
      BY <2>1, <2>3, <2>5
  <2> QED
      BY <1>1, <1>3, <1>5, <1>7, <1>10, <2>3, <2>5, <2>6 DEF frontVars, j
<1> QED
    BY <1>8, <1>9, <1>10

(* load() of the wanted objects. *)
LEMMA LoadsStart ==
    ASSUME Typed, Queued, NEW wanted \in SUBSET Objects, loads < MaxLoads, StartLoads(wanted)
    PROVE  /\ \A o \in wanted : ChunkJob(o, loads + 1, 0) \in ReadJobs \ added
           /\ added' = added \cup {ChunkJob(o, loads + 1, 0) : o \in wanted}
           /\ loads' = loads + 1
           /\ UNCHANGED <<finished, stopping>>
           /\ cancelled \subseteq cancelled'
           /\ \A j \in cancelled' \ cancelled : j # None /\
                  \E o \in wanted : j = read_job[o] \/ j \in finalize_jobs[o]
           /\ read_job' = [o \in Objects |-> IF o \in wanted THEN ChunkJob(o, loads + 1, 0)
                                             ELSE read_job[o]]
           /\ finalize_jobs' = [o \in Objects |-> IF o \in wanted THEN {} ELSE finalize_jobs[o]]
           /\ line' \in [Manager!Kinds -> Seq(Jobs)]
           /\ line'["blocking"] = line["blocking"]
           /\ Len(line'["db"]) = Len(line["db"]) + Len(NewJobs(wanted))
           /\ \A x \in 1 .. Len(line["db"]) : line'["db"][x] = line["db"][x]
           /\ \A x \in 1 .. Len(NewJobs(wanted)) :
                  line'["db"][Len(line["db"]) + x] = NewJobs(wanted)[x]
<1> DEFINE jobs == NewJobs(wanted)
           new == [o \in wanted |-> [obj |-> o, load |-> loads + 1, chunk |-> 0]]
           old == UNION {({read_job[o]} \cup finalize_jobs[o]) \ {None} : o \in wanted}
<1>1. /\ jobs \in Seq(ReadJobs)
      /\ \A x \in 1 .. Len(jobs) : \E o \in wanted : jobs[x] = ChunkJob(o, loads + 1, 0)
      /\ \A o \in wanted : \E x \in 1 .. Len(jobs) : jobs[x] = ChunkJob(o, loads + 1, 0)
    BY NewJobsOfWanted DEF Typed, CountersTyped
<1>2. \A o \in wanted : new[o] = ChunkJob(o, loads + 1, 0)
    BY DEF ChunkJob
<1>3. /\ cancelled' = cancelled \cup old
      /\ read_job' = [o \in Objects |-> IF o \in wanted THEN new[o] ELSE read_job[o]]
      /\ finalize_jobs' = [o \in Objects |-> IF o \in wanted THEN {} ELSE finalize_jobs[o]]
      /\ added' = added \cup Range(jobs)
      /\ line' = [line EXCEPT !["db"] = @ \o jobs]
      /\ loads' = loads + 1
      /\ UNCHANGED <<finished, stopping>>
    BY DEF StartLoads, NewJobs
<1>4. \A o \in wanted : ChunkJob(o, loads + 1, 0) \in ReadJobs \ added
  <2> SUFFICES ASSUME NEW o \in wanted
               PROVE  ChunkJob(o, loads + 1, 0) \in ReadJobs \ added
      OBVIOUS
  <2>1. loads \in Nat /\ loads + 1 \in 1 .. MaxLoads
      BY BoundsAssumption DEF Typed, CountersTyped
  <2>2. ChunkJob(o, loads + 1, 0) \in ReadJobs
      BY <2>1, JobKinds
  <2>3. ChunkJob(o, loads + 1, 0).load = loads + 1
      BY DEF ChunkJob
  <2>4. ~(loads + 1 <= loads)
      BY <2>1
  <2> QED
      BY <2>2, <2>3, <2>4 DEF Queued
<1> HIDE DEF new, jobs
<1>5. Range(jobs) = {ChunkJob(o, loads + 1, 0) : o \in wanted}
  <2>1. DOMAIN jobs = 1 .. Len(jobs)
      BY <1>1
  <2>2. \A j \in Range(jobs) : \E x \in 1 .. Len(jobs) : j = jobs[x]
      BY <2>1 DEF Range
  <2>3. \A x \in 1 .. Len(jobs) : jobs[x] \in Range(jobs)
      BY <2>1 DEF Range
  <2>4. ASSUME NEW j \in Range(jobs)
        PROVE  \E o \in wanted : j = ChunkJob(o, loads + 1, 0)
      BY <1>1, <2>2
  <2>5. ASSUME NEW o \in wanted
        PROVE  ChunkJob(o, loads + 1, 0) \in Range(jobs)
      BY <1>1, <2>3
  <2> QED
      BY <2>4, <2>5
<1>6. \A j \in cancelled' \ cancelled : j # None /\
          \E o \in wanted : j = read_job[o] \/ j \in finalize_jobs[o]
    BY <1>3
<1>7. read_job' = [o \in Objects |-> IF o \in wanted THEN ChunkJob(o, loads + 1, 0)
                                     ELSE read_job[o]]
    BY <1>2, <1>3
<1>8. line \in [Manager!Kinds -> Seq(Jobs)] /\ {"db", "blocking"} \subseteq Manager!Kinds
    BY DEF Typed, LinesTyped, Manager!Kinds
<1>9. line["db"] \in Seq(Jobs) /\ jobs \in Seq(Jobs)
    BY <1>1, <1>8, JobKinds
<1>10. /\ line["db"] \o jobs \in Seq(Jobs)
       /\ Len(line["db"] \o jobs) = Len(line["db"]) + Len(jobs)
       /\ \A x \in 1 .. Len(line["db"]) : (line["db"] \o jobs)[x] = line["db"][x]
       /\ \A x \in 1 .. Len(jobs) : (line["db"] \o jobs)[Len(line["db"]) + x] = jobs[x]
    BY <1>9, ConcatIndices
<1>11. /\ line' \in [Manager!Kinds -> Seq(Jobs)]
       /\ line'["blocking"] = line["blocking"]
       /\ line'["db"] = line["db"] \o jobs
    BY <1>3, <1>8, <1>10
<1> QED
    BY <1>3, <1>4, <1>5, <1>6, <1>7, <1>10, <1>11 DEF jobs

(* loadSlot and the end of its wait: it goes on waiting, or calls load(). *)
LEMMA LoadCases ==
    ASSUME Typed, Load \/ ContinueLoad
    PROVE  /\ UNCHANGED <<emitted, step, row_count, mutex, prepared_command, events, stops>>
           /\ \/ /\ Load /\ waiting' = waiting + 1 /\ loads + waiting < MaxLoads
                 /\ UNCHANGED <<line, added, finished, cancelled, stopping,
                                read_job, finalize_jobs, loads>>
                 /\ data' = [o \in Objects |-> <<>>] /\ announced' = [o \in Objects |-> 0]
              \/ /\ loads < MaxLoads
                 /\ loads + 1 + waiting' <= MaxLoads /\ waiting' \in Nat
                 /\ \E wanted \in SUBSET Objects :
                       /\ StartLoads(wanted)
                       /\ data' \in [Objects -> Seq(FinalizeJobs)]
                       /\ announced' \in [Objects -> Nat]
                       /\ \A o \in Objects : /\ data'[o] = <<>> \/ data'[o] = data[o]
                                             /\ o \in wanted => data'[o] = <<>>
<1>1. /\ data \in [Objects -> Seq(FinalizeJobs)] /\ announced \in [Objects -> Nat]
      /\ waiting \in Nat /\ loads \in Nat /\ loads + waiting <= MaxLoads /\ MaxLoads \in Nat
    BY BoundsAssumption DEF Typed, ObjectsTyped, CountersTyped
<1>2. ASSUME NEW label \in {"Load", "Stop", "disabled"}, Free /\ LoadSlot(label)
      PROVE  /\ UNCHANGED <<emitted, step, row_count, mutex, prepared_command, events, stops>>
             /\ data' = [o \in Objects |-> <<>>] /\ announced' = [o \in Objects |-> 0]
             /\ loads + waiting < MaxLoads
             /\ \/ /\ waiting' = waiting + 1
                   /\ UNCHANGED <<line, added, finished, cancelled, stopping,
                                  read_job, finalize_jobs, loads>>
                \/ /\ waiting' = waiting
                   /\ \E wanted \in SUBSET Objects : StartLoads(wanted)
    BY <1>2 DEF LoadSlot, readerVars, managerVars
<1>3. ASSUME ContinueLoad
      PROVE  /\ UNCHANGED <<emitted, step, row_count, mutex, prepared_command, events, stops>>
             /\ waiting > 0 /\ waiting' = waiting - 1
             /\ \E wanted \in SUBSET Objects :
                   /\ StartLoads(wanted)
                   /\ data' = [o \in Objects |-> IF o \in wanted THEN <<>> ELSE data[o]]
                   /\ announced' = [o \in Objects |-> IF o \in wanted THEN 0 ELSE announced[o]]
    BY <1>3 DEF ContinueLoad, readerVars
<1>4. \A o \in Objects : data[o] \in Seq(FinalizeJobs) /\ <<>> \in Seq(FinalizeJobs)
    BY <1>1
<1>5. CASE ContinueLoad
  <2>1. PICK wanted \in SUBSET Objects :
                   /\ StartLoads(wanted)
                   /\ data' = [o \in Objects |-> IF o \in wanted THEN <<>> ELSE data[o]]
                   /\ announced' = [o \in Objects |-> IF o \in wanted THEN 0 ELSE announced[o]]
      BY <1>3, <1>5
  <2>2. data' \in [Objects -> Seq(FinalizeJobs)] /\ announced' \in [Objects -> Nat]
      BY <2>1, <1>1, <1>4
  <2>3. loads < MaxLoads /\ loads + 1 + waiting' <= MaxLoads /\ waiting' \in Nat
      BY <1>1, <1>3, <1>5
  <2> QED
      BY <2>1, <2>2, <2>3, <1>3, <1>5
<1>6. CASE Load
  <2>1. PICK label \in {"Load", "Stop", "disabled"} : Free /\ LoadSlot(label)
      BY <1>6 DEF Load
  <2>2. data' = [o \in Objects |-> <<>>] /\ announced' = [o \in Objects |-> 0]
      BY <1>2, <2>1
  <2>3. data' \in [Objects -> Seq(FinalizeJobs)] /\ announced' \in [Objects -> Nat]
      BY <1>4, <2>2
  <2>4. loads < MaxLoads
      BY <1>1, <1>2, <2>1
  <2>5. CASE waiting' = waiting + 1 /\ UNCHANGED <<line, added, finished, cancelled, stopping,
                                                   read_job, finalize_jobs, loads>>
      BY <1>6, <1>2, <2>1, <2>5, <2>2
  <2>6. CASE waiting' = waiting /\ \E wanted \in SUBSET Objects : StartLoads(wanted)
    <3>1. loads + 1 + waiting' <= MaxLoads /\ waiting' \in Nat
        BY <1>1, <1>2, <2>1, <2>6
    <3> QED
        BY <1>2, <2>1, <2>2, <2>3, <2>4, <2>6, <3>1
  <2> QED
      BY <1>2, <2>1, <2>5, <2>6
<1> QED
    BY <1>5, <1>6

(* loadingDoneSlot: while an object is loading nothing happens. *)
LEMMA LoadingDoneCases ==
    ASSUME LoadingDone
    PROVE  \/ UNCHANGED frontVars /\ \E o \in Objects : StillLoading(o)
           \/ FinishLoading /\ \A o \in Objects : ~StillLoading(o)
BY DEF LoadingDone

(* A read job is told to be done. *)
LEMMA ReadEnds ==
    ASSUME Typed, ReadDoneSlot
    PROVE  LET j == events[1].job IN
           /\ NextEvent("done") /\ j \in ReadJobs
           /\ UNCHANGED <<line, added, finished, cancelled, stopping, emitted, step, row_count,
                          mutex, prepared_command, waiting, loads, stops,
                          finalize_jobs, data, announced>>
           /\ read_job' = [read_job EXCEPT ![j.obj] = None]
           /\ \/ finalize_jobs[j.obj] # {} /\ UNCHANGED frontVars
              \/ /\ finalize_jobs[j.obj] = {}
                 /\ UNCHANGED frontVars /\ \E o \in Objects : StillLoading(o)
              \/ /\ finalize_jobs[j.obj] = {}
                 /\ FinishLoading /\ \A o \in Objects : ~StillLoading(o)
<1>1. NextEvent("done")
    BY DEF ReadDoneSlot
<1>2. Head(events) = events[1]
    BY <1>1, TakeEvent
<1> QED
    BY <1>1, <1>2, LoadingDoneCases DEF ReadDoneSlot, managerVars, readerVars, userVars

(* A finalize job is told to be done: its chunk is put to the others, unless the object *)
(* has let go of the job. *)
LEMMA FinalizeEnds ==
    ASSUME Typed, FinalizeDoneSlot
    PROVE  LET j == events[1].job IN
           /\ NextEvent("done") /\ j \in FinalizeJobs
           /\ UNCHANGED <<line, added, finished, cancelled, stopping, emitted, step, row_count,
                          mutex, prepared_command, waiting, loads, stops, read_job>>
           /\ \/ /\ j \notin finalize_jobs[j.obj]
                 /\ UNCHANGED <<finalize_jobs, data, announced, load_in_progress, button, cursor,
                                finishes>>
              \/ /\ j \in finalize_jobs[j.obj]
                 /\ finalize_jobs' = [finalize_jobs EXCEPT ![j.obj] = @ \ {j}]
                 /\ data' = [data EXCEPT ![j.obj] = Append(@, j)]
                 /\ \/ /\ UNCHANGED frontVars /\ StillLoading(j.obj)
                       /\ announced' = IF DelayNewData(j.obj) THEN announced
                                       ELSE [announced EXCEPT ![j.obj] = Len(data'[j.obj])]
                    \/ /\ ~StillLoading(j.obj)
                       /\ announced' = [announced EXCEPT ![j.obj] = Len(data'[j.obj])]
                       /\ \/ UNCHANGED frontVars /\ \E o \in Objects : StillLoading(o)
                          \/ FinishLoading /\ \A o \in Objects : ~StillLoading(o)
<1> DEFINE j == Head(events).job
<1>1. NextEvent("done") /\ j \in FinalizeJobs
    BY DEF FinalizeDoneSlot
<1>2. Head(events) = events[1]
    BY <1>1, TakeEvent
<1>3. UNCHANGED <<emitted, step, row_count, mutex, prepared_command, waiting, loads, stops>>
    BY DEF FinalizeDoneSlot, readerVars, userVars
<1>4. \/ /\ j \notin finalize_jobs[j.obj]
         /\ UNCHANGED <<managerVars, objectVars, frontVars>>
      \/ /\ j \in finalize_jobs[j.obj]
         /\ finalize_jobs' = [finalize_jobs EXCEPT ![j.obj] = @ \ {j}]
         /\ data' = [data EXCEPT ![j.obj] = Append(@, j)]
         /\ UNCHANGED <<managerVars, read_job>>
         /\ IF StillLoading(j.obj)
            THEN /\ announced' = IF DelayNewData(j.obj) THEN announced
                                 ELSE [announced EXCEPT ![j.obj] = Len(data'[j.obj])]
                 /\ UNCHANGED frontVars
            ELSE /\ announced' = [announced EXCEPT ![j.obj] = Len(data'[j.obj])]
                 /\ LoadingDone
  <2>1. CASE Destroyed(j) /\ UNCHANGED <<managerVars, objectVars, frontVars, aborted>>
      BY <2>1 DEF Destroyed
  <2>2. CASE InLine(j) /\ j \notin finalize_jobs[j.obj] /\ Abort("found")
      BY <2>2 DEF Abort
  <2> QED
      BY <2>1, <2>2 DEF FinalizeDoneSlot, SeizeBuffer
<1>5. CASE j \notin finalize_jobs[j.obj] /\ UNCHANGED <<managerVars, objectVars, frontVars>>
    BY <1>1, <1>2, <1>3, <1>5 DEF managerVars, objectVars, frontVars
<1>6. CASE /\ j \in finalize_jobs[j.obj]
           /\ finalize_jobs' = [finalize_jobs EXCEPT ![j.obj] = @ \ {j}]
           /\ data' = [data EXCEPT ![j.obj] = Append(@, j)]
           /\ UNCHANGED <<managerVars, read_job>>
           /\ IF StillLoading(j.obj)
              THEN /\ announced' = IF DelayNewData(j.obj) THEN announced
                                   ELSE [announced EXCEPT ![j.obj] = Len(data'[j.obj])]
                   /\ UNCHANGED frontVars
              ELSE /\ announced' = [announced EXCEPT ![j.obj] = Len(data'[j.obj])]
                   /\ LoadingDone
    BY <1>1, <1>2, <1>3, <1>6, LoadingDoneCases DEF managerVars
<1> QED
    BY <1>4, <1>5, <1>6

-----------------------------------------------------------------------------
(* What is due is kept as DueTyped says. *)
LEMMA DueIsKept ==
    ASSUME Typed, Queued, Current, [Next]_vars
    PROVE  DueTyped'
<1>1. DueTyped /\ added \subseteq Jobs /\ finished \subseteq added
    BY DEF Typed, LinesTyped
<1>2. ASSUME UNCHANGED <<due, emitted>>, finished \subseteq finished',
             cancelled \subseteq cancelled'
      PROVE  DueTyped'
    BY <1>1, <1>2 DEF DueTyped
<1>3. ASSUME NEW k \in {"db", "blocking"}, line[k] # <<>>
      PROVE  Head(line[k]) \in Jobs
  <2>1. line[k] \in Seq(Jobs)
      BY DEF Typed, LinesTyped, Manager!Kinds
  <2> QED
      BY <1>3, <2>1
<1>4. ASSUME NEW k \in {"db", "blocking"}, Manage(k)
      PROVE  DueTyped'
  <2>1. CASE Decide(k)
      BY <1>3, <2>1 DEF Decide, Manager!Decide, DueTyped
  <2>2. CASE EmitObsolete(k)
      BY <1>3, <2>2 DEF EmitObsolete, EmitFirst, DueTyped
  <2>3. CASE EmitDone(k)
      BY <2>3 DEF EmitDone, Manager!Report, DueTyped
  <2>4. CASE LetGo(k)
      BY <2>4, <1>2 DEF LetGo, Manager!Leave
  <2> QED
      BY <1>4, <2>1, <2>2, <2>3, <2>4 DEF Manage, Emit
<1>5. ASSUME NEW j \in ReadJobs, Read(j)
      PROVE  DueTyped'
  <2>1. CASE ReadObsolete(j) \/ ReadEnd(j)
      BY <2>1, <1>2 DEF ReadObsolete, ReadEnd, Manager!Finish
  <2>2. CASE ReadStart(j) \/ ReadPrepare(j) \/ ReadChunk(j) \/ ReadEmit(j) \/ ReadUnlock(j)
      BY <2>2, <1>2 DEF ReadStart, ReadPrepare, ReadChunk, ReadEmit, ReadUnlock, managerVars
  <2> QED
      BY <1>5, <2>1, <2>2 DEF Read
<1>6. ASSUME NEW j, Finalize(j) \/ RunDestroyed(j) \/ UNCHANGED vars
      PROVE  DueTyped'
    BY <1>6, <1>2 DEF Finalize, RunDestroyed, Manager!Finish, managerVars, vars
<1>7. CASE Slots
    BY <1>7, <1>2 DEF Slots, BufferSlot, ReadDoneSlot, FinalizeDoneSlot, Abort, Manager!Add,
                      managerVars
<1>8. ASSUME NEW wanted, StartLoads(wanted), UNCHANGED emitted
      PROVE  DueTyped'
    BY <1>8, <1>2 DEF StartLoads
<1>9. ASSUME NEW label, LoadSlot(label)
      PROVE  DueTyped'
    BY <1>9, <1>8, <1>2 DEF LoadSlot, managerVars
<1>10. CASE ContinueLoad
    BY <1>10, <1>8 DEF ContinueLoad
<1>11. CASE StopButton
    BY <1>11, <1>2 DEF StopButton
<1> QED
    BY <1>4, <1>5, <1>6, <1>7, <1>9, <1>10, <1>11 DEF Next, User, LoadButton, ShowResult

(* The types are kept. *)
LEMMA TypedIsKept ==
    ASSUME Typed, Queued, Reading, Current, [Next]_vars
    PROVE  Typed'
<1>1. LinesTyped /\ ReadersTyped /\ ObjectsTyped /\ CountersTyped
    BY DEF Typed
<1> USE <1>1
<1>15. DueTyped'
    BY DueIsKept
<1>2. ASSUME NEW j \in ReadJobs, Read(j), ~ReadEmit(j)
      PROVE  Typed'
  <2>1. Quiet
      BY <1>2 DEF Read, ReadObsolete, ReadEnd, ReadStart, ReadChunk, ReadUnlock, ReadPrepare,
                  Manager!Finish, managerVars, Quiet
  <2>2. finished' \subseteq added
    <3>1. CASE ReadObsolete(j) \/ ReadEnd(j)
        BY <3>1 DEF ReadObsolete, ReadEnd, Manager!Finish, LinesTyped
    <3>2. CASE ReadStart(j) \/ ReadChunk(j) \/ ReadUnlock(j) \/ ReadPrepare(j)
        BY <3>2 DEF ReadStart, ReadChunk, ReadUnlock, ReadPrepare, managerVars, LinesTyped
    <3> QED
        BY <1>2, <3>1, <3>2 DEF Read
  <2>3. step' \in [ReadJobs -> Steps]
      BY <1>2 DEF Read, ReadObsolete, ReadEnd, ReadStart, ReadChunk, ReadUnlock, ReadPrepare, To,
                  ReadersTyped, Steps
  <2>4. mutex' \in ReadJobs \cup {None} /\ prepared_command' \in ReadJobs \cup {None}
      BY <1>2 DEF Read, ReadObsolete, ReadEnd, ReadStart, ReadChunk, ReadUnlock, ReadPrepare,
                  ReadersTyped
  <2>5. LinesTyped'
      BY <2>1, <2>2 DEF Quiet, LinesTyped
  <2>6. ReadersTyped'
      BY <2>1, <2>3, <2>4 DEF Quiet, ReadersTyped
  <2>7. ObjectsTyped' /\ CountersTyped'
      BY <2>1 DEF Quiet, ObjectsTyped, CountersTyped, objectVars, frontVars, userVars
  <2> QED
      BY <2>5, <2>6, <2>7, <1>15 DEF Typed
<1>3. ASSUME NEW j, Finalize(j) \/ RunDestroyed(j) \/ Decide(j) \/ UNCHANGED vars
      PROVE  Typed'
  <2>1. Quiet /\ UNCHANGED readerVars
      BY <1>3, DecideLeaves
      DEF Finalize, RunDestroyed, Manager!Finish, vars, managerVars, Quiet, readerVars
  <2>2. finished' \subseteq added
      BY <1>3, DecideLeaves
      DEF Finalize, RunDestroyed, Manager!Finish, vars, managerVars, LinesTyped
  <2>3. LinesTyped'
      BY <2>1, <2>2 DEF Quiet, LinesTyped
  <2>4. ReadersTyped' /\ ObjectsTyped' /\ CountersTyped'
      BY <2>1
      DEF Quiet, ReadersTyped, ObjectsTyped, CountersTyped, objectVars, frontVars, userVars,
          readerVars
  <2> QED
      BY <2>3, <2>4, <1>15 DEF Typed
<1>4. ASSUME NEW k \in {"db", "blocking"}, Emit(k)
      PROVE  Typed'
  <2>1. UNCHANGED <<line, added, finished, cancelled, stopping, step, row_count, mutex,
                    prepared_command, objectVars, frontVars, userVars>>
      BY <1>4, EmitLeaves DEF objectVars, frontVars, userVars
  <2>2. emitted' \subseteq added /\ events' \in Seq(BufferEvents \cup EndEvents)
      BY <1>4, EmitEvents DEF LinesTyped
  <2>3. LinesTyped' /\ ReadersTyped'
      BY <2>1, <2>2 DEF LinesTyped, ReadersTyped
  <2>4. ObjectsTyped' /\ CountersTyped'
      BY <2>1 DEF ObjectsTyped, CountersTyped, objectVars, frontVars, userVars
  <2> QED
      BY <2>3, <2>4, <1>15 DEF Typed
<1>5. ASSUME NEW k \in {"db", "blocking"}, LetGo(k)
      PROVE  Typed'
  <2>1. UNCHANGED <<emitted, readerVars, events, objectVars, frontVars, userVars>>
      BY <1>5 DEF LetGo
  <2>2. LinesTyped'
      BY <1>5, <2>1, LineShifts DEF LinesTyped
  <2>3. ReadersTyped' /\ ObjectsTyped' /\ CountersTyped'
      BY <2>1 DEF ReadersTyped, ObjectsTyped, CountersTyped, objectVars, frontVars, userVars,
                  readerVars
  <2> QED
      BY <2>2, <2>3, <1>15 DEF Typed
<1>6. ASSUME NEW j \in ReadJobs, ReadEmit(j)
      PROVE  Typed'
  <2>1. UNCHANGED <<line, added, finished, cancelled, stopping, emitted, mutex,
                    prepared_command, objectVars, frontVars, userVars>>
      BY <1>6 DEF ReadEmit, managerVars
  <2>2. /\ events' \in Seq(BufferEvents \cup EndEvents)
        /\ row_count[j] \in Nat
        /\ row_count' = [row_count EXCEPT ![j] = row_count[j] + 1]
        /\ step' = [step EXCEPT ![j] = IF row_count[j] + 1 = Chunks[j.obj]
                                       THEN "unlock" ELSE "read"]
      BY <1>6, BufferEmitted
  <2>3. step' \in [ReadJobs -> Steps] /\ row_count' \in [ReadJobs -> Nat]
      BY <2>2 DEF ReadersTyped, Steps
  <2>4. ReadersTyped'
      BY <2>1, <2>2, <2>3 DEF ReadersTyped
  <2>5. LinesTyped' /\ ObjectsTyped' /\ CountersTyped'
      BY <2>1 DEF LinesTyped, ObjectsTyped, CountersTyped, objectVars, frontVars, userVars
  <2> QED
      BY <2>4, <2>5, <1>15 DEF Typed
<1>7. CASE BufferSlot
  <2> DEFINE r == events[1].job
             j == ChunkJob(r.obj, r.load, events[1].chunk)
  <2>1. /\ NextEvent("buffer") /\ r \in ReadJobs
        /\ UNCHANGED <<emitted, step, row_count, mutex, prepared_command, waiting, loads, stops,
                       read_job, data, announced, load_in_progress, button, cursor, finishes,
                       stopping, cancelled, finished>>
        /\ \/ UNCHANGED <<line, added, finalize_jobs>>
           \/ /\ j \in FinalizeJobs /\ added' = added \cup {j}
              /\ finalize_jobs' = [finalize_jobs EXCEPT ![r.obj] = @ \cup {j}]
              /\ line' \in [Manager!Kinds -> Seq(Jobs)]
      BY <1>7, BufferArrives
  <2>2. events' \in Seq(BufferEvents \cup EndEvents)
      BY <2>1, TakeEvent
  <2> HIDE DEF j, r
  <2>3. LinesTyped'
      BY <2>1, JobKinds DEF LinesTyped
  <2>4. ReadersTyped' /\ CountersTyped'
      BY <2>1, <2>2 DEF ReadersTyped, CountersTyped
  <2>5. finalize_jobs' \in [Objects -> SUBSET FinalizeJobs]
    <3>1. CASE UNCHANGED finalize_jobs
        BY <3>1 DEF ObjectsTyped
    <3>2. CASE j \in FinalizeJobs /\ finalize_jobs' = [finalize_jobs EXCEPT ![r.obj] = @ \cup {j}]
        BY <3>2 DEF ObjectsTyped
    <3> QED
        BY <2>1, <3>1, <3>2
  <2>6. ObjectsTyped'
      BY <2>1, <2>5 DEF ObjectsTyped
  <2> QED
      BY <2>3, <2>4, <2>6, <1>15 DEF Typed
<1>8. ASSUME FinishLoading \/ UNCHANGED frontVars
      PROVE  /\ cursor' \in Nat /\ finishes' \in Nat
             /\ load_in_progress' \in BOOLEAN /\ button' \in {"Load", "Stop", "disabled"}
  <2>1. cursor' \in Nat /\ finishes' \in Nat
      BY <1>8 DEF CountersTyped, FinishLoading, frontVars
  <2>2. load_in_progress' \in BOOLEAN /\ button' \in {"Load", "Stop", "disabled"}
      BY <1>8 DEF CountersTyped, FinishLoading, frontVars
  <2> QED
      BY <2>1, <2>2
<1>9. CASE ReadDoneSlot
  <2> DEFINE j == events[1].job
  <2>1. /\ NextEvent("done") /\ j \in ReadJobs
        /\ UNCHANGED <<line, added, finished, cancelled, stopping, emitted, step, row_count,
                       mutex, prepared_command, waiting, loads, stops,
                       finalize_jobs, data, announced>>
        /\ read_job' = [read_job EXCEPT ![j.obj] = None]
        /\ FinishLoading \/ UNCHANGED frontVars
      BY <1>9, ReadEnds
  <2>2. events' \in Seq(BufferEvents \cup EndEvents)
      BY <2>1, TakeEvent
  <2> HIDE DEF j
  <2>3. LinesTyped' /\ ReadersTyped'
      BY <2>1, <2>2 DEF LinesTyped, ReadersTyped
  <2>4. ObjectsTyped'
      BY <2>1 DEF ObjectsTyped
  <2>5. CountersTyped'
      BY <2>1, <1>8 DEF CountersTyped
  <2> QED
      BY <2>3, <2>4, <2>5, <1>15 DEF Typed
<1>10. CASE FinalizeDoneSlot
  <2> DEFINE j == events[1].job
  <2>1. /\ NextEvent("done") /\ j \in FinalizeJobs
        /\ UNCHANGED <<line, added, finished, cancelled, stopping, emitted, step, row_count,
                       mutex, prepared_command, waiting, loads, stops, read_job>>
        /\ \/ UNCHANGED <<finalize_jobs, data, announced>>
           \/ /\ finalize_jobs' = [finalize_jobs EXCEPT ![j.obj] = @ \ {j}]
              /\ data' = [data EXCEPT ![j.obj] = Append(@, j)]
              /\ \/ announced' = announced
                 \/ announced' = [announced EXCEPT ![j.obj] = Len(data'[j.obj])]
      BY <1>10, FinalizeEnds
  <2>2. FinishLoading \/ UNCHANGED frontVars
      BY <1>10, FinalizeEnds DEF frontVars
  <2>3. events' \in Seq(BufferEvents \cup EndEvents)
      BY <2>1, TakeEvent
  <2>4. j.obj \in Objects
      BY <2>1, JobKinds
  <2> HIDE DEF j
  <2>5. LinesTyped' /\ ReadersTyped'
      BY <2>1, <2>3 DEF LinesTyped, ReadersTyped
  <2>6. data' \in [Objects -> Seq(FinalizeJobs)]
    <3>1. Append(data[j.obj], j) \in Seq(FinalizeJobs)
        BY <2>1, <2>4 DEF ObjectsTyped
    <3> QED
        BY <2>1, <3>1 DEF ObjectsTyped
  <2>7. Len(data'[j.obj]) \in Nat
      BY <2>4, <2>6
  <2>8. announced' \in [Objects -> Nat] /\ read_job' \in [Objects -> ReadJobs \cup {None}]
      BY <2>1, <2>7 DEF ObjectsTyped
  <2>10. finalize_jobs' \in [Objects -> SUBSET FinalizeJobs]
    <3>1. CASE UNCHANGED finalize_jobs
        BY <3>1 DEF ObjectsTyped
    <3>2. CASE finalize_jobs' = [finalize_jobs EXCEPT ![j.obj] = @ \ {j}]
        BY <3>2 DEF ObjectsTyped
    <3> QED
        BY <2>1, <3>1, <3>2
  <2>11. ObjectsTyped'
      BY <2>6, <2>8, <2>10 DEF ObjectsTyped
  <2>9. CountersTyped'
      BY <2>1, <2>2, <1>8 DEF CountersTyped
  <2> QED
      BY <2>5, <2>9, <2>11, <1>15 DEF Typed
<1>11. ASSUME Load \/ ContinueLoad
       PROVE  /\ cursor' \in Nat /\ finishes' \in Nat
              /\ load_in_progress' \in BOOLEAN /\ button' \in {"Load", "Stop", "disabled"}
  <2>1. CASE Load
    <3>1. PICK label \in {"Load", "Stop", "disabled"} : LoadSlot(label)
        BY <2>1 DEF Load
    <3>2. CASE line["db"] # <<>> /\ cursor' = cursor + 1 /\ load_in_progress' = TRUE
               /\ button' = label /\ UNCHANGED finishes
        BY <3>2 DEF CountersTyped
    <3>3. CASE \E wanted \in SUBSET Objects :
                  IF wanted = {}
                  THEN button' = "Load" /\ finishes' = finishes + 1
                       /\ load_in_progress' = FALSE /\ UNCHANGED cursor
                  ELSE button' = label /\ UNCHANGED finishes
                       /\ load_in_progress' = TRUE /\ cursor' = cursor + 1
      <4>1. cursor' \in Nat /\ finishes' \in Nat
          BY <3>3 DEF CountersTyped
      <4>2. load_in_progress' \in BOOLEAN /\ button' \in {"Load", "Stop", "disabled"}
          BY <3>3
      <4> QED
          BY <4>1, <4>2
    <3> QED
        BY <3>1, <3>2, <3>3 DEF LoadSlot
  <2>2. CASE ContinueLoad
      BY <2>2, <1>8 DEF ContinueLoad
  <2> QED
      BY <1>11, <2>1, <2>2
<1>12. CASE Load \/ ContinueLoad
  <2>1. /\ UNCHANGED <<emitted, step, row_count, mutex, prepared_command, events, stops>>
        /\ \/ /\ waiting' = waiting + 1 /\ loads + waiting < MaxLoads
              /\ UNCHANGED <<line, added, finished, cancelled, stopping,
                             read_job, finalize_jobs, loads>>
              /\ data' = [o \in Objects |-> <<>>] /\ announced' = [o \in Objects |-> 0]
           \/ /\ loads < MaxLoads /\ loads + 1 + waiting' <= MaxLoads /\ waiting' \in Nat
              /\ data' \in [Objects -> Seq(FinalizeJobs)]
              /\ announced' \in [Objects -> Nat]
              /\ \E wanted \in SUBSET Objects : StartLoads(wanted)
      BY <1>12, LoadCases
  <2>2. ReadersTyped'
      BY <2>1 DEF ReadersTyped
  <2>3. CASE /\ waiting' = waiting + 1 /\ loads + waiting < MaxLoads
             /\ UNCHANGED <<line, added, finished, cancelled, stopping,
                            read_job, finalize_jobs, loads>>
             /\ data' = [o \in Objects |-> <<>>] /\ announced' = [o \in Objects |-> 0]
    <3>1. LinesTyped'
        BY <2>1, <2>3 DEF LinesTyped
    <3>2. ObjectsTyped'
        BY <2>3 DEF ObjectsTyped
    <3>3. /\ waiting' \in Nat /\ loads' \in Nat /\ loads' + waiting' <= MaxLoads
          /\ stops' \in Nat
        BY <2>1, <2>3, BoundsAssumption DEF CountersTyped
    <3>4. CountersTyped'
        BY <3>3, <1>11, <1>12 DEF CountersTyped
    <3> QED
        BY <2>2, <3>1, <3>2, <3>4, <1>15 DEF Typed
  <2>4. CASE /\ loads < MaxLoads /\ loads + 1 + waiting' <= MaxLoads /\ waiting' \in Nat
             /\ data' \in [Objects -> Seq(FinalizeJobs)]
             /\ announced' \in [Objects -> Nat]
             /\ \E wanted \in SUBSET Objects : StartLoads(wanted)
    <3>1. PICK wanted \in SUBSET Objects : StartLoads(wanted)
        BY <2>4
    <3>2. /\ \A o \in wanted : ChunkJob(o, loads + 1, 0) \in ReadJobs \ added
          /\ added' = added \cup {ChunkJob(o, loads + 1, 0) : o \in wanted}
          /\ loads' = loads + 1
          /\ UNCHANGED <<finished, stopping>>
          /\ cancelled \subseteq cancelled'
          /\ \A j \in cancelled' \ cancelled : j # None /\
                 \E o \in wanted : j = read_job[o] \/ j \in finalize_jobs[o]
          /\ read_job' = [o \in Objects |-> IF o \in wanted THEN ChunkJob(o, loads + 1, 0)
                                            ELSE read_job[o]]
          /\ finalize_jobs' = [o \in Objects |-> IF o \in wanted THEN {} ELSE finalize_jobs[o]]
          /\ line' \in [Manager!Kinds -> Seq(Jobs)]
        BY <2>4, <3>1, LoadsStart
    <3>3. cancelled' \subseteq added
        BY <3>2 DEF LinesTyped, Current
    <3>4. added' \subseteq Jobs
        BY <3>2, JobKinds DEF LinesTyped
    <3>5. LinesTyped'
        BY <2>1, <3>2, <3>3, <3>4 DEF LinesTyped
    <3>6. ObjectsTyped'
        BY <2>4, <3>2 DEF ObjectsTyped
    <3>7. loads' \in Nat /\ loads' + waiting' <= MaxLoads /\ waiting' \in Nat /\ stops' \in Nat
        BY <2>1, <2>4, <3>2 DEF CountersTyped
    <3>8. CountersTyped'
        BY <3>7, <1>11, <1>12 DEF CountersTyped
    <3> QED
        BY <2>2, <3>5, <3>6, <3>8, <1>15 DEF Typed
  <2> QED
      BY <2>1, <2>3, <2>4
<1>13. CASE StopButton
  <2>1. /\ UNCHANGED <<line, added, finished, stopping, emitted, readerVars, events,
                       objectVars, cursor, finishes, waiting, loads>>
        /\ stops' = stops + 1 /\ button' = "disabled" /\ load_in_progress' = TRUE
        /\ cancelled' = cancelled \cup {read_job[o] : o \in {p \in Objects : read_job[p] # None}}
      BY <1>13 DEF StopButton
  <2>2. cancelled' \subseteq added
      BY <2>1 DEF LinesTyped, Current
  <2>3. LinesTyped'
      BY <2>1, <2>2 DEF LinesTyped
  <2>4. ReadersTyped' /\ ObjectsTyped'
      BY <2>1 DEF ReadersTyped, ObjectsTyped, readerVars, objectVars
  <2>5. CountersTyped'
      BY <2>1 DEF CountersTyped
  <2> QED
      BY <2>3, <2>4, <2>5, <1>15 DEF Typed
<1>14. CASE Next
  <2>1. CASE \E j \in ReadJobs : Read(j)
      BY <2>1, <1>2, <1>6
  <2>2. CASE User
    <3>1. button \in {"Load", "Stop", "disabled"}
        BY DEF CountersTyped
    <3> QED
        BY <2>2, <3>1, <1>12, <1>13 DEF User, LoadButton, ShowResult, Load
  <2> QED
      BY <1>14, <2>1, <2>2, <1>3, <1>4, <1>5, <1>7, <1>9, <1>10, <1>12 DEF Next, Slots, Manage
<1> QED
    BY <1>14, <1>3

-----------------------------------------------------------------------------
(* The lines and the events are kept as Queued says. *)

(* Taking the front of the events leaves the rest as it was. *)
LEMMA TakeKeepsEvents ==
    ASSUME Typed, JobsInEvents, NEW name, NextEvent(name),
           UNCHANGED <<emitted, row_count>>, added \subseteq added'
    PROVE  JobsInEvents'
<1>1. /\ Len(events) \in Nat \ {0} /\ Len(events') = Len(events) - 1
      /\ \A p \in 1 .. Len(events') : events'[p] = events[p + 1]
    BY TakeEvent
<1>2. \A p \in 1 .. Len(events') : p + 1 \in 1 .. Len(events)
    BY <1>1
<1> QED
    BY <1>1, <1>2 DEF JobsInEvents

(* Every step keeps Queued. *)
LEMMA QueuedIsKept ==
    ASSUME Typed, Queued, Reading, [Next]_vars
    PROVE  Queued'
<1>1. JobsInLine /\ JobsInEvents /\ \A j \in added : j.load <= loads
    BY DEF Queued
<1>2. /\ loads \in Nat
      /\ \A k \in {"db", "blocking"} : Len(line[k]) \in Nat
    BY DEF Typed, CountersTyped, LinesTyped, Manager!Kinds
<1>3. CASE Quiet
    BY <1>1, <1>3 DEF Quiet, Queued, JobsInLine, JobsInEvents, userVars
<1>4. CASE StopButton
    BY <1>1, <1>4 DEF StopButton, Queued, JobsInLine, JobsInEvents, readerVars
<1>5. ASSUME NEW k \in {"db", "blocking"}, Emit(k)
      PROVE  Queued'
  <2> DEFINE j == Head(line[k])
  <2>1. UNCHANGED <<line, added, row_count, loads>>
      BY <1>5, EmitLeaves DEF managerVars, readerVars, userVars
  <2>2. /\ emitted' = emitted \cup {j} /\ Continues(events, events', Done(j))
        /\ events' \in Seq(BufferEvents \cup EndEvents)
      BY <1>5, EmitEvents
  <2>3. Done(j).what = "done" /\ Done(j).job = j
      BY SignalKinds
  <2>4. Len(events) \in Nat /\ Len(events') \in Nat
      BY <2>2, EventKinds
  <2> HIDE DEF j
  <2>5. JobsInEvents'
    <3> SUFFICES ASSUME NEW p \in 1 .. Len(events')
                 PROVE  /\ events'[p].what = "done" => events'[p].job \in emitted'
                        /\ events'[p].what = "buffer" =>
                               /\ events'[p].job \in added'
                               /\ events'[p].chunk \in 1 .. row_count'[events'[p].job]
        BY DEF JobsInEvents
    <3>1. CASE p \in 1 .. Len(events)
        BY <3>1, <1>1, <2>1, <2>2 DEF JobsInEvents, Continues
    <3>2. CASE p \in Len(events) + 1 .. Len(events')
        BY <3>2, <2>2, <2>3 DEF Continues
    <3> QED
        BY <3>1, <3>2, <2>4
  <2> QED
      BY <1>1, <2>1, <2>5 DEF Queued, JobsInLine
<1>6. ASSUME NEW k \in {"db", "blocking"}, LetGo(k)
      PROVE  Queued'
  <2>1. UNCHANGED <<emitted, row_count, events, loads, added>>
      BY <1>6, LineShifts DEF LetGo, readerVars, userVars
  <2>2. /\ Len(line[k]) \in Nat \ {0}
        /\ \A i \in Manager!Kinds \ {k} : line'[i] = line[i]
        /\ Len(line'[k]) = Len(line[k]) - 1
        /\ \A x \in 1 .. Len(line'[k]) : line'[k][x] = line[k][x + 1]
      BY <1>1, <1>6, LineShifts DEF Queued
  <2>3. \A x \in 1 .. Len(line'[k]) : x + 1 \in 1 .. Len(line[k])
      BY <2>2
  <2>4. ASSUME NEW i \in {"db", "blocking"}, NEW x \in 1 .. Len(line'[i])
        PROVE  /\ line'[i][x] \in added' /\ KindOf[line'[i][x]] = i
               /\ \A y \in 1 .. Len(line'[i]) : line'[i][x] = line'[i][y] => x = y
    <3>1. CASE i = k
      <4>1. line'[k][x] \in added' /\ KindOf[line'[k][x]] = k
        <5>1. x + 1 \in 1 .. Len(line[k]) /\ line'[k][x] = line[k][x + 1]
            BY <2>2, <2>3, <2>4, <3>1
        <5> QED
            BY <1>1, <2>1, <5>1 DEF JobsInLine
      <4>2. ASSUME NEW y \in 1 .. Len(line'[k]), line'[k][x] = line'[k][y]
            PROVE  x = y
        <5>1. line[k][x + 1] = line[k][y + 1]
            BY <2>2, <2>4, <3>1, <4>2
        <5>2. x + 1 = y + 1
            BY <5>1, <1>1, <2>3, <2>4, <3>1, <4>2 DEF JobsInLine
        <5> QED
            BY <5>2, <2>2, <2>4, <3>1
      <4> QED
          BY <3>1, <4>1, <4>2
    <3>2. CASE i # k
        BY <3>2, <1>1, <2>1, <2>2, <2>4 DEF JobsInLine, Manager!Kinds
    <3> QED
        BY <3>1, <3>2
  <2>5. JobsInLine'
      BY <2>4 DEF JobsInLine
  <2> QED
      BY <1>1, <2>1, <2>5 DEF Queued, JobsInEvents
<1>7. ASSUME NEW j \in ReadJobs, ReadEmit(j)
      PROVE  Queued'
  <2>1. UNCHANGED <<line, added, emitted, loads>>
      BY <1>7 DEF ReadEmit, managerVars, userVars
  <2> DEFINE n == row_count[j] + 1
             e == Event("buffer", j, n)
  <2>2. /\ j \in added /\ row_count[j] \in Nat
        /\ row_count' = [row_count EXCEPT ![j] = n]
        /\ events' \in Seq(BufferEvents \cup EndEvents)
        /\ events' = events \/ Continues(events, events', e)
      BY <1>7, BufferEmitted
  <2>3. e.what = "buffer" /\ e.job = j /\ e.chunk = n
      BY SignalKinds
  <2>4. Len(events) \in Nat /\ Len(events') \in Nat
      BY <2>2, EventKinds
  <2>5. row_count \in [ReadJobs -> Nat]
      BY DEF Typed, ReadersTyped
  <2> HIDE DEF e
  <2>6. JobsInEvents'
    <3> SUFFICES ASSUME NEW p \in 1 .. Len(events')
                 PROVE  /\ events'[p].what = "done" => events'[p].job \in emitted'
                        /\ events'[p].what = "buffer" =>
                               /\ events'[p].job \in added'
                               /\ events'[p].chunk \in 1 .. row_count'[events'[p].job]
        BY DEF JobsInEvents
    <3>1. CASE p \in 1 .. Len(events) /\ events'[p] = events[p]
      <4>1. /\ events[p].what = "done" => events[p].job \in emitted
            /\ events[p].what = "buffer" =>
                   /\ events[p].job \in added /\ events[p].job \in ReadJobs
                   /\ events[p].chunk \in 1 .. row_count[events[p].job]
          BY <3>1, <1>1, EventKinds DEF JobsInEvents
      <4>2. \A i \in ReadJobs : row_count'[i] \in {row_count[i], row_count[i] + 1}
          BY <2>2, <2>5
      <4> QED
          BY <3>1, <4>1, <4>2, <2>1, <2>5
    <3>2. CASE p \in Len(events) + 1 .. Len(events') /\ events'[p] = e
        BY <3>2, <2>1, <2>2, <2>3, <2>5
    <3> QED
        BY <3>1, <3>2, <2>2, <2>4 DEF Continues
  <2> QED
      BY <1>1, <2>1, <2>6 DEF Queued, JobsInLine
<1>8. CASE BufferSlot
  <2> DEFINE r == events[1].job
             j == ChunkJob(r.obj, r.load, events[1].chunk)
  <2>1. /\ NextEvent("buffer") /\ r \in ReadJobs
        /\ UNCHANGED <<emitted, row_count, loads>>
        /\ \/ UNCHANGED <<line, added>>
           \/ /\ j \in FinalizeJobs /\ j \notin added
              /\ added' = added \cup {j}
              /\ line'["db"] = line["db"]
              /\ Continues(line["blocking"], line'["blocking"], j)
              /\ Len(line'["blocking"]) = Len(line["blocking"]) + 1
      BY <1>8, BufferArrives
  <2>2. JobsInEvents'
      BY <1>1, <2>1, TakeKeepsEvents
  <2>3. CASE UNCHANGED <<line, added>>
      BY <1>1, <2>1, <2>2, <2>3 DEF Queued, JobsInLine
  <2>4. CASE /\ j \in FinalizeJobs /\ j \notin added
             /\ added' = added \cup {j}
             /\ line'["db"] = line["db"]
             /\ Continues(line["blocking"], line'["blocking"], j)
             /\ Len(line'["blocking"]) = Len(line["blocking"]) + 1
    <3>1. r \in added /\ j.load = r.load
      <4>1. Len(events) \in Nat \ {0} /\ events[1].what = "buffer"
          BY <2>1, TakeEvent
      <4> QED
          BY <4>1, <1>1 DEF JobsInEvents, ChunkJob
    <3>2. \A i \in added' : i.load <= loads'
        BY <3>1, <1>1, <2>1, <2>4
    <3>3. KindOf[j] = "blocking"
        BY <2>4, JobKinds
    <3> HIDE DEF j
    <3> DEFINE n == Len(line["blocking"])
    <3>4. /\ n \in Nat /\ Len(line'["blocking"]) = n + 1
          /\ \A x \in 1 .. n : line'["blocking"][x] = line["blocking"][x]
          /\ line'["blocking"][n + 1] = j
        BY <1>2, <2>4 DEF Continues
    <3>5. \A x \in 1 .. n : line["blocking"][x] # j
        BY <1>1, <2>4 DEF JobsInLine
    <3> HIDE DEF n
    <3>6. ASSUME NEW x \in 1 .. n + 1
          PROVE  /\ line'["blocking"][x] \in added' /\ KindOf[line'["blocking"][x]] = "blocking"
                 /\ \A y \in 1 .. n + 1 : line'["blocking"][x] = line'["blocking"][y] => x = y
      <4>1. CASE x = n + 1
          BY <4>1, <2>4, <3>3, <3>4, <3>5
      <4>2. CASE x \in 1 .. n
        <5>1. /\ line["blocking"][x] \in added /\ KindOf[line["blocking"][x]] = "blocking"
              /\ \A y \in 1 .. n : line["blocking"][x] = line["blocking"][y] => x = y
            BY <4>2, <1>1 DEF JobsInLine, n
        <5> QED
            BY <4>2, <5>1, <2>4, <3>4, <3>5
      <4> QED
          BY <4>1, <4>2, <3>4
    <3>7. ASSUME NEW x \in 1 .. Len(line'["db"])
          PROVE  /\ line'["db"][x] \in added' /\ KindOf[line'["db"][x]] = "db"
                 /\ \A y \in 1 .. Len(line'["db"]) : line'["db"][x] = line'["db"][y] => x = y
        BY <3>7, <1>1, <2>4 DEF JobsInLine
    <3>8. JobsInLine'
        BY <3>4, <3>6, <3>7 DEF JobsInLine
    <3> QED
        BY <2>2, <3>2, <3>8 DEF Queued
  <2> QED
      BY <2>1, <2>3, <2>4
<1>9. CASE ReadDoneSlot \/ FinalizeDoneSlot
  <2>1. NextEvent("done") /\ UNCHANGED <<line, added, emitted, row_count, loads>>
      BY <1>9, ReadEnds, FinalizeEnds
  <2>2. JobsInEvents'
      BY <1>1, <2>1, TakeKeepsEvents
  <2> QED
      BY <1>1, <2>1, <2>2 DEF Queued, JobsInLine
<1>10. CASE Load \/ ContinueLoad
  <2>1. /\ UNCHANGED <<emitted, row_count, events>>
        /\ \/ UNCHANGED <<line, added, loads>>
           \/ loads < MaxLoads /\ \E wanted \in SUBSET Objects : StartLoads(wanted)
      BY <1>10, LoadCases
  <2>2. CASE UNCHANGED <<line, added, loads>>
      BY <1>1, <2>1, <2>2 DEF Queued, JobsInLine, JobsInEvents
  <2>3. ASSUME loads < MaxLoads, NEW wanted \in SUBSET Objects, StartLoads(wanted)
        PROVE  Queued'
    <3> DEFINE jobs == NewJobs(wanted)
               n == Len(line["db"])
    <3>1. /\ \A o \in wanted : ChunkJob(o, loads + 1, 0) \in ReadJobs \ added
          /\ added' = added \cup {ChunkJob(o, loads + 1, 0) : o \in wanted}
          /\ loads' = loads + 1
          /\ line'["blocking"] = line["blocking"]
          /\ Len(line'["db"]) = n + Len(jobs)
          /\ \A x \in 1 .. n : line'["db"][x] = line["db"][x]
          /\ \A x \in 1 .. Len(jobs) : line'["db"][n + x] = jobs[x]
        BY <1>1, <2>3, LoadsStart DEF Queued
    <3>2. /\ jobs \in Seq(ReadJobs)
          /\ \A x \in 1 .. Len(jobs) : \E o \in wanted : jobs[x] = ChunkJob(o, loads + 1, 0)
          /\ \A x, y \in 1 .. Len(jobs) : jobs[x] = jobs[y] => x = y
        BY <1>2, <2>3, NewJobsOfWanted
    <3>3. ASSUME NEW i \in added'
          PROVE  i.load <= loads'
      <4>1. CASE i \in added
        <5>1. i.load <= loads /\ i.load \in Nat
            BY <4>1, <1>1, JobKinds DEF Typed, LinesTyped
        <5> QED
            BY <5>1, <1>2, <3>1
      <4>2. CASE \E o \in wanted : i = ChunkJob(o, loads + 1, 0)
        <5>1. i.load = loads + 1
            BY <4>2 DEF ChunkJob
        <5> QED
            BY <5>1, <1>2, <3>1
      <4> QED
          BY <3>1, <4>1, <4>2
    <3>4. JobsInEvents'
        BY <1>1, <2>1, <3>1 DEF JobsInEvents
    <3>5. Len(jobs) \in Nat /\ n \in Nat
        BY <1>2, <3>2
    <3> HIDE DEF jobs, n
    <3>6. \A x \in 1 .. Len(jobs) : /\ jobs[x] \in added' \ added
                                    /\ KindOf[jobs[x]] = "db"
        BY <3>1, <3>2, JobKinds
    <3>7. ASSUME NEW x \in 1 .. n + Len(jobs)
          PROVE  /\ line'["db"][x] \in added' /\ KindOf[line'["db"][x]] = "db"
                 /\ \A y \in 1 .. n + Len(jobs) : line'["db"][x] = line'["db"][y] => x = y
      <4>1. \A y \in 1 .. n + Len(jobs) :
                \/ /\ y \in 1 .. n /\ line'["db"][y] = line["db"][y]
                   /\ line'["db"][y] \in added /\ KindOf[line'["db"][y]] = "db"
                \/ /\ y - n \in 1 .. Len(jobs) /\ line'["db"][y] = jobs[y - n]
                   /\ line'["db"][y] \in added' \ added
        <5> TAKE y \in 1 .. n + Len(jobs)
        <5>1. CASE y \in 1 .. n
            BY <5>1, <1>1, <3>1 DEF JobsInLine, n
        <5>2. CASE y \notin 1 .. n
          <6>1. y - n \in 1 .. Len(jobs) /\ n + (y - n) = y
              BY <5>2, <3>5
          <6> QED
              BY <6>1, <3>1, <3>6
        <5> QED
            BY <5>1, <5>2
      <4>2. line'["db"][x] \in added' /\ KindOf[line'["db"][x]] = "db"
          BY <4>1, <3>1, <3>6
      <4>3. ASSUME NEW y \in 1 .. n + Len(jobs), line'["db"][x] = line'["db"][y]
            PROVE  x = y
        <5>1. CASE x \in 1 .. n /\ y \in 1 .. n /\ line["db"][x] = line["db"][y]
            BY <5>1, <1>1 DEF JobsInLine, n
        <5>2. CASE x - n \in 1 .. Len(jobs) /\ y - n \in 1 .. Len(jobs) /\ jobs[x - n] = jobs[y - n]
          <6>1. x - n = y - n
              BY <5>2, <3>2
          <6> QED
              BY <6>1, <3>5
        <5> QED
            BY <4>1, <4>3, <5>1, <5>2
      <4> QED
          BY <4>2, <4>3
    <3>8. ASSUME NEW x \in 1 .. Len(line'["blocking"])
          PROVE  /\ line'["blocking"][x] \in added' /\ KindOf[line'["blocking"][x]] = "blocking"
                 /\ \A y \in 1 .. Len(line'["blocking"]) :
                        line'["blocking"][x] = line'["blocking"][y] => x = y
        BY <3>8, <1>1, <3>1 DEF JobsInLine
    <3>9. JobsInLine'
        BY <3>1, <3>7, <3>8 DEF JobsInLine
    <3> QED
        BY <3>3, <3>4, <3>9 DEF Queued
  <2> QED
      BY <2>1, <2>2, <2>3
<1> QED
    BY <1>3, <1>4, <1>5, <1>6, <1>7, <1>8, <1>9, <1>10, StepCases

-----------------------------------------------------------------------------
(* A read job reads no more than its chunks, and holds the mutex and the   *)
(* command only between preparing and finalizing.                          *)
LEMMA ReadingIsKept ==
    ASSUME Typed, Queued, Reading, [Next]_vars
    PROVE  Reading'
<1>1. /\ step \in [ReadJobs -> Steps] /\ row_count \in [ReadJobs -> Nat]
      /\ mutex \in ReadJobs \cup {None} /\ prepared_command \in ReadJobs \cup {None}
      /\ None \notin ReadJobs
      /\ \A j \in ReadJobs : Chunks[j.obj] \in Nat \ {0}
    BY JobKinds, ChunksAssumption DEF Typed, ReadersTyped
<1> DEFINE Fine(j) ==
               /\ row_count[j] <= Chunks[j.obj]
               /\ step[j] \in {"new", "prepare", "read", "emit"} => row_count[j] < Chunks[j.obj]
               /\ step[j] \in {"new", "prepare"} => row_count[j] = 0
               /\ j \notin added => step[j] = "new"
               /\ j \in finished => step[j] = "over"
           Held == /\ mutex # None => step[mutex] \in {"read", "emit", "unlock"}
                   /\ prepared_command # None =>
                          step[prepared_command] \in {"read", "emit", "unlock", "finalize"}
<1>2. (\A j \in ReadJobs : Fine(j)) /\ Held
    BY DEF Reading
<1>3. ASSUME \A j \in ReadJobs : Fine(j)', Held'
      PROVE  Reading'
    BY <1>3 DEF Reading
<1>4. ASSUME UNCHANGED <<step, row_count, mutex, prepared_command>>, added \subseteq added',
             \A j \in ReadJobs : j \in finished' => j \in finished
      PROVE  Reading'
    BY <1>2, <1>3, <1>4
<1>5. ASSUME NEW j \in ReadJobs, Read(j)
      PROVE  Reading'
  <2>1. added' = added
      BY <1>5, StepCases DEF Read, ReadObsolete, ReadStart, ReadPrepare, ReadChunk, ReadEmit,
                             ReadUnlock, ReadEnd, Manager!Finish, managerVars
  <2>2. ASSUME NEW i \in ReadJobs, i # j
        PROVE  Fine(i)'
    <3>1. step'[i] = step[i] /\ row_count'[i] = row_count[i]
        BY <1>1, <1>5, <2>2 DEF Read, ReadObsolete, ReadStart, ReadPrepare, ReadChunk, ReadEmit,
                             ReadUnlock, ReadEnd, To
    <3>2. i \in finished' => i \in finished
        BY <1>5, <2>2 DEF Read, ReadObsolete, ReadStart, ReadPrepare, ReadChunk, ReadEmit,
                             ReadUnlock, ReadEnd, Manager!Finish, managerVars
    <3> QED
        BY <1>2, <2>1, <3>1, <3>2
  <2>3. CASE ReadObsolete(j)
    <3>1. /\ step[j] = "new" /\ step' = [step EXCEPT ![j] = "over"] /\ j \in added
          /\ UNCHANGED <<row_count, mutex, prepared_command>>
        BY <2>3 DEF ReadObsolete, To, Started
    <3>2. Fine(j)'
        BY <1>1, <1>2, <2>1, <3>1
    <3>3. Held'
        BY <1>1, <1>2, <3>1
    <3> QED
        BY <1>3, <2>2, <3>2, <3>3
  <2>4. CASE ReadStart(j)
    <3>1. /\ step[j] = "new" /\ step' = [step EXCEPT ![j] = "prepare"] /\ j \in added
          /\ UNCHANGED <<row_count, mutex, prepared_command, finished>>
        BY <2>4 DEF ReadStart, To, Started, managerVars
    <3>2. Fine(j)'
        BY <1>1, <1>2, <2>1, <3>1
    <3>3. Held'
        BY <1>1, <1>2, <3>1
    <3> QED
        BY <1>3, <2>2, <3>2, <3>3
  <2>5. CASE ReadPrepare(j)
    <3>1. /\ step[j] = "prepare" /\ step' = [step EXCEPT ![j] = "read"]
          /\ mutex' = j /\ prepared_command' \in {prepared_command, j}
          /\ UNCHANGED <<row_count, finished>>
        BY <2>5 DEF ReadPrepare, To, managerVars
    <3>2. Fine(j)'
        BY <1>1, <1>2, <2>1, <3>1
    <3>3. Held'
        BY <1>1, <1>2, <3>1
    <3> QED
        BY <1>3, <2>2, <3>2, <3>3
  <2>6. CASE ReadChunk(j)
    <3>1. /\ step[j] = "read"
          /\ \/ step' = [step EXCEPT ![j] = "unlock"] \/ step' = [step EXCEPT ![j] = "emit"]
          /\ UNCHANGED <<row_count, mutex, prepared_command, finished>>
        BY <2>6 DEF ReadChunk, To, managerVars
    <3>2. Fine(j)'
        BY <1>1, <1>2, <2>1, <3>1
    <3>3. Held'
        BY <1>1, <1>2, <3>1
    <3> QED
        BY <1>3, <2>2, <3>2, <3>3
  <2>7. CASE ReadEmit(j)
    <3>1. /\ step[j] = "emit"
          /\ step' = [step EXCEPT ![j] = IF row_count[j] + 1 = Chunks[j.obj]
                                         THEN "unlock" ELSE "read"]
          /\ row_count' = [row_count EXCEPT ![j] = row_count[j] + 1]
          /\ j \in added /\ row_count[j] \in Nat /\ row_count[j] + 1 <= Chunks[j.obj]
        BY <2>7, BufferEmitted
    <3>2. UNCHANGED <<mutex, prepared_command, finished>>
        BY <2>7 DEF ReadEmit, managerVars
    <3>3. Fine(j)'
      <4>1. row_count'[j] = row_count[j] + 1 /\ j \notin finished'
          BY <1>1, <1>2, <3>1, <3>2
      <4>2. \/ step'[j] = "unlock" /\ row_count[j] + 1 = Chunks[j.obj]
            \/ step'[j] = "read" /\ row_count[j] + 1 # Chunks[j.obj]
          BY <1>1, <3>1
      <4> QED
          BY <1>1, <2>1, <3>1, <4>1, <4>2
    <3>4. Held'
        BY <1>1, <1>2, <3>1, <3>2
    <3> QED
        BY <1>3, <2>2, <3>3, <3>4
  <2>8. CASE ReadUnlock(j)
    <3>1. /\ step[j] = "unlock" /\ step' = [step EXCEPT ![j] = "finalize"] /\ mutex' = None
          /\ UNCHANGED <<row_count, prepared_command, finished>>
        BY <2>8 DEF ReadUnlock, To, managerVars
    <3>2. Fine(j)'
        BY <1>1, <1>2, <2>1, <3>1
    <3>3. Held'
        BY <1>1, <1>2, <3>1
    <3> QED
        BY <1>3, <2>2, <3>2, <3>3
  <2>9. CASE ReadEnd(j)
    <3>1. /\ step[j] = "finalize" /\ step' = [step EXCEPT ![j] = "over"]
          /\ prepared_command' = None
          /\ UNCHANGED <<row_count, mutex>>
        BY <2>9 DEF ReadEnd, To
    <3>2. Fine(j)'
        BY <1>1, <1>2, <2>1, <3>1
    <3>3. Held'
        BY <1>1, <1>2, <3>1
    <3> QED
        BY <1>3, <2>2, <3>2, <3>3
  <2> QED
      BY <1>5, <2>3, <2>4, <2>5, <2>6, <2>7, <2>8, <2>9 DEF Read
<1>6. ASSUME NEW j \in FinalizeJobs, Finalize(j)
      PROVE  Reading'
  <2>1. UNCHANGED <<step, row_count, mutex, prepared_command, added>>
        /\ finished' = finished \cup {j}
      BY <1>6 DEF Finalize, readerVars, Manager!Finish
  <2> QED
      BY <1>4, <2>1, JobKinds
<1>7. ASSUME NEW k, (k \in {"db", "blocking"} /\ (Emit(k) \/ LetGo(k))) \/ RunDestroyed(k)
                    \/ Decide(k) \/ StopButton \/ UNCHANGED vars
      PROVE  Reading'
  <2>1. UNCHANGED <<step, row_count, mutex, prepared_command, added, finished>>
      BY <1>7, EmitLeaves, DecideLeaves
      DEF LetGo, RunDestroyed, StopButton, vars, readerVars, managerVars, Manager!Leave, Quiet
  <2> QED
      BY <1>4, <2>1
<1>8. CASE BufferSlot
  <2>1. /\ UNCHANGED <<step, row_count, mutex, prepared_command, finished>>
        /\ added \subseteq added'
      BY <1>8, BufferArrives
  <2> QED
      BY <1>4, <2>1
<1>9. CASE ReadDoneSlot \/ FinalizeDoneSlot
  <2>1. UNCHANGED <<step, row_count, mutex, prepared_command, added, finished>>
      BY <1>9, ReadEnds, FinalizeEnds
  <2> QED
      BY <1>4, <2>1
<1>10. CASE Load \/ ContinueLoad
  <2>1. UNCHANGED <<step, row_count, mutex, prepared_command>>
      BY <1>10, LoadCases
  <2>2. UNCHANGED finished /\ added \subseteq added'
    <3>1. CASE UNCHANGED <<added, finished>>
        BY <3>1
    <3>2. ASSUME loads < MaxLoads, NEW wanted \in SUBSET Objects, StartLoads(wanted)
          PROVE  UNCHANGED finished /\ added \subseteq added'
        BY <3>2, LoadsStart
    <3> QED
        BY <1>10, LoadCases, <3>1, <3>2
  <2> QED
      BY <1>4, <2>1, <2>2
<1>11. CASE Next
  <2>1. CASE User
    <3>1. button \in {"Load", "Stop", "disabled"}
        BY DEF Typed, CountersTyped
    <3> QED
        BY <2>1, <3>1, <1>7, <1>10 DEF User, LoadButton, ShowResult, Load
  <2>2. CASE \E k \in {"db", "blocking"} : Manage(k)
      BY <2>2, <1>7 DEF Manage
  <2>3. CASE \E j \in Jobs : RunDestroyed(j)
      BY <2>3, <1>7
  <2> QED
      BY <1>11, <2>1, <2>2, <2>3, <1>5, <1>6, <1>8, <1>9, <1>10 DEF Next, Slots
<1> QED
    BY <1>11, <1>7

-----------------------------------------------------------------------------
(* What is still to be reported, and the objects' own jobs. *)

(* A job is in its line when it has a place there. *)
LEMMA PlaceInLine ==
    ASSUME NEW lines \in [Manager!Kinds -> Seq(Jobs)], NEW j \in Jobs
    PROVE  /\ KindOf[j] \in {"db", "blocking"}
           /\ Len(lines[KindOf[j]]) \in Nat
           /\ j \in Range(lines[KindOf[j]])
                  <=> \E x \in 1 .. Len(lines[KindOf[j]]) : lines[KindOf[j]][x] = j
<1>1. KindOf[j] \in {"db", "blocking"}
    BY JobKinds
<1>2. lines[KindOf[j]] \in Seq(Jobs)
    BY <1>1 DEF Manager!Kinds
<1>3. DOMAIN lines[KindOf[j]] = 1 .. Len(lines[KindOf[j]])
    BY <1>2
<1> QED
    BY <1>1, <1>2, <1>3 DEF Range

(* What is to be reported stays so, until a slot takes its done signal. *)
LEMMA PendingStays ==
    ASSUME Typed, Queued, Reading, Typed', [Next]_vars, NEW j \in Jobs, Pending(j)
    PROVE  Pending(j)' \/ ((ReadDoneSlot \/ FinalizeDoneSlot) /\ events[1] = Done(j))
<1> DEFINE k == KindOf[j]
<1>1. /\ k \in {"db", "blocking"}
      /\ Len(line[k]) \in Nat /\ Len(line'[k]) \in Nat
      /\ InLine(j) <=> \E x \in 1 .. Len(line[k]) : line[k][x] = j
      /\ InLine(j)' <=> \E x \in 1 .. Len(line'[k]) : line'[k][x] = j
  <2>1. line \in [Manager!Kinds -> Seq(Jobs)] /\ line' \in [Manager!Kinds -> Seq(Jobs)]
      BY DEF Typed, LinesTyped
  <2>2. /\ k \in {"db", "blocking"} /\ Len(line[k]) \in Nat
        /\ InLine(j) <=> \E x \in 1 .. Len(line[k]) : line[k][x] = j
      BY <2>1, PlaceInLine DEF InLine
  <2>3. /\ Len(line'[k]) \in Nat
        /\ InLine(j)' <=> \E x \in 1 .. Len(line'[k]) : line'[k][x] = j
      BY <2>1, PlaceInLine DEF InLine
  <2> QED
      BY <2>2, <2>3
<1>2. Len(events) \in Nat /\ Len(events') \in Nat
    BY EventKinds DEF Typed, ReadersTyped
<1>3. ASSUME Posted(Done(j)), Len(events) <= Len(events'),
             \A p \in 1 .. Len(events) : events'[p] = events[p]
      PROVE  Posted(Done(j))'
    BY <1>2, <1>3 DEF Posted
<1>4. ASSUME NEW name, NextEvent(name), events[1] # Done(j), Posted(Done(j))
      PROVE  Posted(Done(j))'
  <2>1. /\ Len(events) \in Nat \ {0} /\ Len(events') = Len(events) - 1
        /\ \A p \in 1 .. Len(events') : events'[p] = events[p + 1]
      BY <1>4, TakeEvent
  <2>2. PICK p \in 1 .. Len(events) : events[p] = Done(j)
      BY <1>4 DEF Posted
  <2>3. p - 1 \in 1 .. Len(events') /\ events'[p - 1] = events[p]
      BY <1>4, <2>1, <2>2
  <2> QED
      BY <2>2, <2>3 DEF Posted
<1>5. ASSUME UNCHANGED emitted, InLine(j) => InLine(j)', Posted(Done(j)) => Posted(Done(j))'
      PROVE  Pending(j)'
    BY <1>5 DEF Pending
<1> HIDE DEF k
<1>6. ASSUME UNCHANGED <<line, emitted, events>>
      PROVE  Pending(j)'
    BY <1>1, <1>5, <1>6 DEF Posted
<1>7. CASE Quiet \/ StopButton
    BY <1>6, <1>7 DEF Quiet, StopButton
<1>8. ASSUME NEW i \in {"db", "blocking"}, Emit(i)
      PROVE  Pending(j)'
  <2>1. /\ emitted' = emitted \cup {Head(line[i])}
        /\ Continues(events, events', Done(Head(line[i])))
      BY <1>8, EmitEvents
  <2>2. UNCHANGED line
      BY <1>8, EmitLeaves DEF managerVars
  <2>3. CASE j = Head(line[i])
    <3>1. Len(events) + 1 \in 1 .. Len(events') /\ events'[Len(events) + 1] = Done(j)
        BY <1>2, <2>1, <2>3 DEF Continues
    <3> QED
        BY <3>1 DEF Pending, Posted
  <2>4. CASE j # Head(line[i])
    <3>1. Posted(Done(j)) => Posted(Done(j))'
        BY <1>2, <1>3, <2>1 DEF Continues
    <3>2. j \notin emitted => j \notin emitted'
        BY <2>1, <2>4
    <3> QED
        BY <1>1, <2>2, <3>1, <3>2 DEF Pending
  <2> QED
      BY <2>3, <2>4
<1>9. ASSUME NEW i \in {"db", "blocking"}, LetGo(i)
      PROVE  Pending(j)'
  <2>1. UNCHANGED <<emitted, events>>
      BY <1>9 DEF LetGo
  <2>2. /\ Len(line[i]) \in Nat \ {0} /\ line[i][1] \in emitted
        /\ \A h \in Manager!Kinds \ {i} : line'[h] = line[h]
        /\ Len(line'[i]) = Len(line[i]) - 1
        /\ \A x \in 1 .. Len(line'[i]) : line'[i][x] = line[i][x + 1]
      BY <1>9, LineShifts
  <2>3. CASE Posted(Done(j))
      BY <2>1, <2>3 DEF Pending, Posted
  <2>4. CASE j \notin emitted /\ InLine(j)
    <3>1. CASE i = k
      <4>1. PICK x \in 1 .. Len(line[k]) : line[k][x] = j
          BY <1>1, <2>4
      <4>2. x # 1
          BY <2>2, <2>4, <3>1, <4>1
      <4>3. x - 1 \in 1 .. Len(line'[k]) /\ (x - 1) + 1 = x
          BY <2>2, <3>1, <4>1, <4>2
      <4>4. line'[k][x - 1] = j
          BY <2>2, <3>1, <4>1, <4>3
      <4> QED
          BY <1>1, <2>1, <2>4, <4>3, <4>4 DEF Pending
    <3>2. CASE i # k
        BY <1>1, <2>1, <2>2, <2>4, <3>2 DEF Pending, Manager!Kinds
    <3> QED
        BY <3>1, <3>2
  <2> QED
      BY <2>3, <2>4 DEF Pending
<1>10. ASSUME NEW i \in ReadJobs, ReadEmit(i)
       PROVE  Pending(j)'
  <2>1. UNCHANGED <<line, emitted>>
      BY <1>10 DEF ReadEmit, managerVars
  <2>2. events' = events \/ Continues(events, events', Event("buffer", i, row_count[i] + 1))
      BY <1>10, BufferEmitted
  <2>3. Posted(Done(j)) => Posted(Done(j))'
      BY <1>2, <1>3, <2>2 DEF Continues, Posted
  <2> QED
      BY <1>1, <1>5, <2>1, <2>3
<1>11. CASE BufferSlot
  <2>1. /\ NextEvent("buffer") /\ UNCHANGED emitted
        /\ \/ UNCHANGED line
           \/ \E i : /\ line'["db"] = line["db"]
                     /\ Continues(line["blocking"], line'["blocking"], i)
      BY <1>11, BufferArrives
  <2>2. events[1] # Done(j)
      BY <2>1, TakeEvent, SignalKinds
  <2>3. InLine(j) => InLine(j)'
    <3>1. CASE UNCHANGED line
        BY <1>1, <3>1
    <3>2. CASE \E i : /\ line'["db"] = line["db"]
                      /\ Continues(line["blocking"], line'["blocking"], i)
      <4>1. Len(line[k]) <= Len(line'[k]) /\ \A x \in 1 .. Len(line[k]) : line'[k][x] = line[k][x]
          BY <1>1, <3>2 DEF Continues
      <4> QED
          BY <1>1, <4>1
    <3> QED
        BY <2>1, <3>1, <3>2
  <2> QED
      BY <1>4, <1>5, <2>1, <2>2, <2>3
<1>12. CASE ReadDoneSlot \/ FinalizeDoneSlot
  <2>1. NextEvent("done") /\ UNCHANGED <<line, emitted>>
      BY <1>12, ReadEnds, FinalizeEnds
  <2> QED
      BY <1>1, <1>4, <1>5, <1>12, <2>1
<1>13. CASE Load \/ ContinueLoad
  <2>1. UNCHANGED <<emitted, events>>
      BY <1>13, LoadCases
  <2>2. ASSUME loads < MaxLoads, NEW wanted \in SUBSET Objects, StartLoads(wanted)
        PROVE  InLine(j) => InLine(j)'
    <3>1. /\ line'["blocking"] = line["blocking"]
          /\ Len(line'["db"]) = Len(line["db"]) + Len(NewJobs(wanted))
          /\ \A x \in 1 .. Len(line["db"]) : line'["db"][x] = line["db"][x]
        BY <2>2, LoadsStart
    <3>2. Len(NewJobs(wanted)) \in Nat
        BY <2>2, NewJobsOfWanted DEF Typed, CountersTyped
    <3>3. Len(line[k]) <= Len(line'[k]) /\ \A x \in 1 .. Len(line[k]) : line'[k][x] = line[k][x]
        BY <1>1, <3>1, <3>2
    <3> QED
        BY <1>1, <3>3
  <2>3. UNCHANGED line \/ (InLine(j) => InLine(j)')
      BY <1>13, <2>2, LoadCases
  <2> QED
      BY <1>1, <1>5, <2>1, <2>3 DEF Posted
<1> QED
    BY <1>7, <1>8, <1>9, <1>10, <1>11, <1>12, <1>13, StepCases

(* The objects' jobs stay their own and pending. *)
LEMMA CurrentIsKept ==
    ASSUME Typed, Queued, Reading, Current, Typed', [Next]_vars
    PROVE  Current'
<1>1. /\ read_job \in [Objects -> ReadJobs \cup {None}]
      /\ finalize_jobs \in [Objects -> SUBSET FinalizeJobs]
      /\ None \notin Jobs /\ ReadJobs \subseteq Jobs /\ FinalizeJobs \subseteq Jobs
      /\ cancelled \subseteq added /\ emitted \subseteq added
    BY JobKinds DEF Typed, ObjectsTyped, LinesTyped
<1>2. ASSUME NEW o \in Objects
      PROVE  /\ read_job[o] # None => /\ read_job[o] \in ReadJobs /\ read_job[o] \in added
                                      /\ read_job[o].obj = o /\ Pending(read_job[o])
             /\ \A k \in finalize_jobs[o] : /\ k \in FinalizeJobs /\ k \in added \ cancelled
                                            /\ k.obj = o /\ Pending(k)
    BY <1>1 DEF Current
<1>3. ASSUME ~(ReadDoneSlot \/ FinalizeDoneSlot), NEW j, Pending(j), j \in Jobs
      PROVE  Pending(j)'
    BY <1>3, PendingStays
<1>4. ASSUME ~(ReadDoneSlot \/ FinalizeDoneSlot), added \subseteq added',
             UNCHANGED <<cancelled, read_job, finalize_jobs>>
      PROVE  Current'
    BY <1>1, <1>2, <1>3, <1>4 DEF Current
<1>5. ASSUME NEW name, NextEvent(name), NEW j, events[1] = Done(j)
      PROVE  \A i : i # j => events[1] # Done(i)
    BY <1>5, SignalKinds
<1>6. CASE Quiet
  <2>1. UNCHANGED <<cancelled, read_job, finalize_jobs, added, emitted, line, events>>
      BY <1>6 DEF Quiet, objectVars
  <2>2. ASSUME NEW j, Pending(j)
        PROVE  Pending(j)'
      BY <2>1, <2>2 DEF Pending, InLine, Posted
  <2> QED
      BY <1>2, <2>1, <2>2 DEF Current
<1>7. ASSUME NEW k \in {"db", "blocking"}, Emit(k) \/ LetGo(k)
      PROVE  Current'
  <2>1. UNCHANGED <<cancelled, read_job, finalize_jobs, added>>
      BY <1>7, EmitLeaves DEF LetGo, Manager!Leave, managerVars, objectVars
  <2>2. ~(ReadDoneSlot \/ FinalizeDoneSlot)
    <3>1. ASSUME ReadDoneSlot \/ FinalizeDoneSlot
          PROVE  FALSE
      <4>1. UNCHANGED <<line, emitted>> /\ NextEvent("done")
          BY <3>1, ReadEnds, FinalizeEnds
      <4>2. Len(events) \in Nat /\ Len(events') = Len(events) - 1
          BY <4>1, TakeEvent
      <4>3. CASE Emit(k)
          BY <4>2, <4>3, EmitEvents
      <4>4. CASE LetGo(k)
          BY <4>2, <4>4 DEF LetGo
      <4> QED
          BY <1>7, <4>3, <4>4
    <3> QED
        BY <3>1
  <2> QED
      BY <1>4, <2>1, <2>2
<1>8. ASSUME NEW j \in ReadJobs, ReadEmit(j)
      PROVE  Current'
  <2>1. UNCHANGED <<cancelled, read_job, finalize_jobs, added>>
      BY <1>8 DEF ReadEmit, managerVars, objectVars
  <2>2. row_count' # row_count
    <3>1. row_count[j] \in Nat /\ row_count'[j] = row_count[j] + 1
        BY <1>8, BufferEmitted DEF Typed, ReadersTyped
    <3> QED
        BY <3>1
  <2>3. ~(ReadDoneSlot \/ FinalizeDoneSlot)
      BY <2>2, ReadEnds, FinalizeEnds
  <2> QED
      BY <1>4, <2>1, <2>3
<1>9. CASE BufferSlot
  <2> DEFINE r == events[1].job
             j == ChunkJob(r.obj, r.load, events[1].chunk)
  <2>1. /\ NextEvent("buffer") /\ r \in ReadJobs
        /\ UNCHANGED <<emitted, read_job, cancelled>>
        /\ \/ UNCHANGED <<line, added, finalize_jobs>>
           \/ /\ r = read_job[r.obj] /\ j \in FinalizeJobs /\ j \notin added
              /\ added' = added \cup {j}
              /\ finalize_jobs' = [finalize_jobs EXCEPT ![r.obj] = @ \cup {j}]
              /\ Continues(line["blocking"], line'["blocking"], j)
              /\ Len(line'["blocking"]) = Len(line["blocking"]) + 1
      BY <1>9, BufferArrives
  <2>2. ~(ReadDoneSlot \/ FinalizeDoneSlot)
    <3>1. events[1].what = "buffer"
        BY <2>1, TakeEvent
    <3>2. ASSUME ReadDoneSlot \/ FinalizeDoneSlot
          PROVE  FALSE
        BY <3>1, <3>2, ReadEnds, FinalizeEnds, TakeEvent
    <3> QED
        BY <3>2
  <2>3. CASE UNCHANGED <<line, added, finalize_jobs>>
      BY <1>4, <2>1, <2>2, <2>3
  <2>4. CASE /\ r = read_job[r.obj] /\ j \in FinalizeJobs /\ j \notin added
             /\ added' = added \cup {j}
             /\ finalize_jobs' = [finalize_jobs EXCEPT ![r.obj] = @ \cup {j}]
             /\ Continues(line["blocking"], line'["blocking"], j)
             /\ Len(line'["blocking"]) = Len(line["blocking"]) + 1
    <3>1. j.obj = r.obj /\ r.obj \in Objects
        BY <2>1, JobKinds DEF ChunkJob
    <3>2. PICK i : i = j
        OBVIOUS
    <3> HIDE DEF j
    <3>3. i \in Jobs /\ KindOf[i] = "blocking" /\ i \in added' \ cancelled' /\ i \notin emitted'
        BY <1>1, <2>1, <2>4, <3>2, JobKinds
    <3>4. Pending(i)'
      <4>1. line' \in [Manager!Kinds -> Seq(Jobs)] /\ Len(line["blocking"]) \in Nat
          BY DEF Typed, LinesTyped, Manager!Kinds
      <4>2. /\ Len(line["blocking"]) + 1 \in 1 .. Len(line'["blocking"])
            /\ line'["blocking"][Len(line["blocking"]) + 1] = i
          BY <2>4, <3>2, <4>1 DEF Continues
      <4>3. i \in Range(line'[KindOf[i]])
          BY <3>3, <4>1, <4>2, PlaceInLine
      <4> QED
          BY <3>3, <4>3 DEF Pending, InLine
    <3>5. ASSUME NEW o \in Objects, NEW k \in finalize_jobs'[o]
          PROVE  k \in added' \ cancelled' /\ k.obj = o /\ Pending(k)'
      <4>1. CASE k \in finalize_jobs[o]
          BY <4>1, <1>1, <1>2, <1>3, <2>1, <2>2, <2>4
      <4>2. CASE k \notin finalize_jobs[o]
        <5>1. o = r.obj /\ k = i
            BY <4>2, <1>1, <2>4, <3>2, <3>5
        <5> QED
            BY <3>1, <3>2, <3>3, <3>4, <5>1
      <4> QED
          BY <4>1, <4>2
    <3>6. ASSUME NEW o \in Objects, read_job'[o] # None
          PROVE  read_job'[o] \in added' /\ read_job'[o].obj = o /\ Pending(read_job[o])'
        BY <1>1, <1>2, <1>3, <2>1, <2>2, <2>4, <3>6
    <3> QED
        BY <2>1, <3>5, <3>6 DEF Current
  <2> QED
      BY <2>1, <2>3, <2>4
<1>10. CASE ReadDoneSlot \/ FinalizeDoneSlot
  <2> DEFINE j == events[1].job
  <2>1. /\ NextEvent("done") /\ UNCHANGED <<added, cancelled>>
        /\ j \in Jobs /\ j.obj \in Objects
        /\ \/ /\ j \in ReadJobs /\ UNCHANGED finalize_jobs
              /\ read_job' = [read_job EXCEPT ![j.obj] = None]
           \/ /\ j \in FinalizeJobs /\ UNCHANGED read_job
              /\ \/ j \notin finalize_jobs[j.obj] /\ UNCHANGED finalize_jobs
                 \/ finalize_jobs' = [finalize_jobs EXCEPT ![j.obj] = @ \ {j}]
      BY <1>10, ReadEnds, FinalizeEnds, JobKinds
  <2>2. events[1] = Done(j)
      BY <2>1, TakeEvent, EventKinds
  <2>3. ASSUME NEW i \in Jobs, Pending(i), i # j
        PROVE  Pending(i)'
      BY <2>1, <2>2, <2>3, <1>5, PendingStays
  <2> HIDE DEF j
  <2>4. ASSUME NEW o \in Objects, NEW k \in finalize_jobs'[o]
        PROVE  k \in added' \ cancelled' /\ k.obj = o /\ Pending(k)'
    <3>1. k \in finalize_jobs[o]
        BY <1>1, <2>1, <2>4
    <3>2. k \in FinalizeJobs /\ k \in added \ cancelled /\ k.obj = o /\ Pending(k)
        BY <1>2, <3>1
    <3>3. k # j
      <4>1. CASE j \in ReadJobs
          BY <4>1, <3>2, JobKinds
      <4>2. CASE j \in FinalizeJobs
          BY <4>2, <1>1, <2>1, <2>4, <3>1, <3>2, JobKinds
      <4> QED
          BY <2>1, <4>1, <4>2
    <3> QED
        BY <1>1, <2>1, <2>3, <3>2, <3>3
  <2>5. ASSUME NEW o \in Objects, read_job'[o] # None
        PROVE  read_job'[o] \in added' /\ read_job'[o].obj = o /\ Pending(read_job[o])'
               /\ read_job'[o] = read_job[o]
    <3>1. read_job'[o] = read_job[o] /\ (j \in ReadJobs => o # j.obj)
        BY <1>1, <2>1, <2>5, JobKinds
    <3>2. read_job[o] \in ReadJobs /\ read_job[o] \in added /\ read_job[o].obj = o
          /\ Pending(read_job[o])
        BY <1>2, <2>5, <3>1
    <3>3. read_job[o] # j
        BY <3>1, <3>2, JobKinds
    <3> QED
        BY <1>1, <2>1, <2>3, <3>1, <3>2, <3>3
  <2> QED
      BY <2>4, <2>5 DEF Current
<1>11. CASE StopButton
  <2>1. /\ UNCHANGED <<added, line, emitted, events, read_job, finalize_jobs>>
        /\ cancelled' = cancelled \cup {read_job[o] : o \in {p \in Objects : read_job[p] # None}}
      BY <1>11 DEF StopButton, objectVars
  <2>2. ASSUME NEW j, Pending(j)
        PROVE  Pending(j)'
      BY <2>1, <2>2 DEF Pending, InLine, Posted
  <2>3. ASSUME NEW o \in Objects, NEW k \in finalize_jobs[o]
        PROVE  k \notin cancelled'
      BY <1>1, <1>2, <2>1, <2>3, JobKinds
  <2> QED
      BY <1>2, <2>1, <2>2, <2>3 DEF Current
<1>12. CASE Load \/ ContinueLoad
  <2>1. UNCHANGED <<emitted, events>>
      BY <1>12, LoadCases
  <2>2. ~(ReadDoneSlot \/ FinalizeDoneSlot)
    <3>1. ASSUME ReadDoneSlot \/ FinalizeDoneSlot
          PROVE  FALSE
      <4>1. NextEvent("done")
          BY <3>1, ReadEnds, FinalizeEnds
      <4> QED
          BY <2>1, <4>1, TakeEvent
    <3> QED
        BY <3>1
  <2>3. CASE UNCHANGED <<line, added, cancelled, read_job, finalize_jobs>>
      BY <1>4, <2>2, <2>3
  <2>4. ASSUME loads < MaxLoads, NEW wanted \in SUBSET Objects, StartLoads(wanted)
        PROVE  Current'
    <3> DEFINE new(o) == ChunkJob(o, loads + 1, 0)
               n == Len(line["db"])
    <3>1. /\ \A o \in wanted : new(o) \in ReadJobs \ added
          /\ added' = added \cup {new(o) : o \in wanted}
          /\ cancelled \subseteq cancelled'
          /\ \A j \in cancelled' \ cancelled : j # None /\
                  \E o \in wanted : j = read_job[o] \/ j \in finalize_jobs[o]
          /\ read_job' = [o \in Objects |-> IF o \in wanted THEN new(o) ELSE read_job[o]]
          /\ finalize_jobs' = [o \in Objects |-> IF o \in wanted THEN {} ELSE finalize_jobs[o]]
          /\ Len(line'["db"]) = n + Len(NewJobs(wanted))
          /\ \A x \in 1 .. Len(NewJobs(wanted)) : line'["db"][n + x] = NewJobs(wanted)[x]
        BY <2>4, LoadsStart
    <3>2. /\ NewJobs(wanted) \in Seq(ReadJobs)
          /\ \A o \in wanted : \E x \in 1 .. Len(NewJobs(wanted)) : NewJobs(wanted)[x] = new(o)
        BY <2>4, NewJobsOfWanted DEF Typed, CountersTyped
    <3>3. n \in Nat /\ Len(NewJobs(wanted)) \in Nat
        BY <3>2 DEF Typed, LinesTyped, Manager!Kinds
    <3>4. \A o : new(o).obj = o
        BY DEF ChunkJob
    <3> HIDE DEF new, n
    <3>5. ASSUME NEW o \in wanted, NEW j, j = new(o)
          PROVE  Pending(j)'
      <4>1. PICK x \in 1 .. Len(NewJobs(wanted)) : NewJobs(wanted)[x] = j
          BY <3>2, <3>5
      <4>2. n + x \in 1 .. Len(line'["db"]) /\ line'["db"][n + x] = j
          BY <3>1, <3>3, <4>1
      <4>3. j \in Jobs /\ KindOf[j] = "db" /\ line' \in [Manager!Kinds -> Seq(Jobs)]
          BY <3>1, <3>5, JobKinds DEF Typed, LinesTyped
      <4>4. j \in Range(line'[KindOf[j]])
          BY <4>2, <4>3, PlaceInLine
      <4>5. j \notin emitted'
          BY <1>1, <2>1, <3>1, <3>5
      <4> QED
          BY <4>4, <4>5 DEF Pending, InLine
    <3>6. ASSUME NEW o \in Objects, NEW k \in finalize_jobs'[o]
          PROVE  k \in added' \ cancelled' /\ k.obj = o /\ Pending(k)'
      <4>1. o \notin wanted /\ k \in finalize_jobs[o]
          BY <3>1, <3>6
      <4>2. k \in FinalizeJobs /\ k \in added \ cancelled /\ k.obj = o /\ Pending(k)'
          BY <1>1, <1>2, <1>3, <2>2, <4>1
      <4>3. ASSUME k \in cancelled'
            PROVE  FALSE
        <5>1. PICK u \in wanted : k = read_job[u] \/ k \in finalize_jobs[u]
            BY <3>1, <4>2, <4>3
        <5>2. k.obj = u
            BY <1>1, <1>2, <4>2, <5>1
        <5> QED
            BY <4>1, <4>2, <5>1, <5>2
      <4> QED
          BY <3>1, <4>2, <4>3
    <3>7. ASSUME NEW o \in Objects, read_job'[o] # None
          PROVE  read_job'[o] \in added' /\ read_job'[o].obj = o /\ Pending(read_job[o])'
      <4>1. CASE o \in wanted
          BY <4>1, <3>1, <3>4, <3>5
      <4>2. CASE o \notin wanted
          BY <4>2, <1>1, <1>2, <1>3, <2>2, <3>1, <3>7
      <4> QED
          BY <4>1, <4>2
    <3> QED
        BY <3>6, <3>7 DEF Current
  <2> QED
      BY <1>12, <2>3, <2>4, LoadCases
<1> QED
    BY <1>6, <1>7, <1>8, <1>9, <1>10, <1>11, <1>12, StepCases

-----------------------------------------------------------------------------
(* The load widget follows the loads. *)
LEMMA FrontIsKept ==
    ASSUME Typed, Queued, Reading, Front, [Next]_vars
    PROVE  Front'
<1> DEFINE Busy == load_in_progress => waiting > 0 \/ \E o \in Objects : Loading(o)
           Shown == /\ button # "Load" => load_in_progress
                    /\ Results # "always" => cursor = (IF load_in_progress THEN 1 ELSE 0)
<1>1. Busy /\ Shown
    BY DEF Front
<1>2. ASSUME Busy', Shown'
      PROVE  Front'
    BY <1>2 DEF Front
<1>3. /\ load_in_progress \in BOOLEAN /\ cursor \in Nat /\ waiting \in Nat
      /\ finalize_jobs \in [Objects -> SUBSET FinalizeJobs]
    BY DEF Typed, CountersTyped, ObjectsTyped
<1>4. ASSUME UNCHANGED frontVars
      PROVE  Shown'
    BY <1>1, <1>4 DEF frontVars
<1>5. ASSUME UNCHANGED <<load_in_progress, waiting>>,
             \A o \in Objects : Loading(o) => StillLoading(o)
      PROVE  Busy'
    BY <1>1, <1>5 DEF Loading, StillLoading
<1>6. ASSUME FinishLoading
      PROVE  Busy' /\ Shown'
  <2>1. load_in_progress' = FALSE /\ button' = "Load"
        /\ cursor' = IF cursor = 0 THEN 0 ELSE cursor - 1
      BY <1>6 DEF FinishLoading
  <2>2. Results # "always" => cursor' = 0
      BY <1>1, <1>3, <2>1
  <2> QED
      BY <2>1, <2>2
<1>7. CASE Quiet
    BY <1>2, <1>4, <1>5, <1>7 DEF Quiet, frontVars, userVars, objectVars, Loading, StillLoading
<1>8. ASSUME NEW k, (k \in {"db", "blocking"} /\ (Emit(k) \/ LetGo(k))) \/ ReadEmit(k)
      PROVE  Front'
  <2>1. UNCHANGED <<objectVars, frontVars, userVars>>
      BY <1>8, EmitLeaves DEF LetGo, ReadEmit, objectVars, frontVars, userVars
  <2> QED
      BY <1>2, <1>4, <1>5, <2>1 DEF objectVars, frontVars, userVars, Loading, StillLoading
<1>9. CASE BufferSlot
  <2>1. /\ UNCHANGED <<waiting, read_job, load_in_progress, button, cursor, finishes>>
        /\ \/ UNCHANGED finalize_jobs
           \/ \E o, j : finalize_jobs' = [finalize_jobs EXCEPT ![o] = @ \cup {j}]
      BY <1>9, BufferArrives
  <2>2. \A o \in Objects : finalize_jobs[o] # {} => finalize_jobs'[o] # {}
      BY <1>3, <2>1
  <2> QED
      BY <1>2, <1>4, <1>5, <2>1, <2>2 DEF frontVars, Loading, StillLoading
<1>10. CASE ReadDoneSlot
  <2> DEFINE j == events[1].job
  <2>1. /\ j \in ReadJobs /\ UNCHANGED <<waiting, finalize_jobs>>
        /\ \/ finalize_jobs[j.obj] # {} /\ UNCHANGED frontVars
           \/ UNCHANGED frontVars /\ \E o \in Objects : StillLoading(o)
           \/ FinishLoading
      BY <1>10, ReadEnds
  <2>2. j.obj \in Objects
      BY <2>1, JobKinds
  <2>3. CASE UNCHANGED frontVars /\ \E o \in Objects : StillLoading(o)
      BY <2>3, <1>2, <1>4 DEF Loading, StillLoading
  <2>4. CASE finalize_jobs[j.obj] # {} /\ UNCHANGED frontVars
    <3>1. StillLoading(j.obj)
        BY <2>1, <2>4 DEF StillLoading
    <3> QED
        BY <2>2, <2>3, <2>4, <3>1
  <2> QED
      BY <2>1, <2>3, <2>4, <1>6, <1>2
<1>11. CASE FinalizeDoneSlot
  <2> DEFINE j == events[1].job
  <2>1. /\ j \in FinalizeJobs /\ UNCHANGED <<waiting, read_job>>
        /\ \/ UNCHANGED <<finalize_jobs, load_in_progress, button, cursor, finishes>>
           \/ UNCHANGED frontVars /\ StillLoading(j.obj)
           \/ UNCHANGED frontVars /\ \E o \in Objects : StillLoading(o)
           \/ FinishLoading
      BY <1>11, FinalizeEnds
  <2>2. j.obj \in Objects
      BY <2>1, JobKinds
  <2>3. CASE UNCHANGED frontVars /\ \E o \in Objects : StillLoading(o)
      BY <2>3, <1>2, <1>4 DEF Loading, StillLoading
  <2>4. CASE UNCHANGED <<finalize_jobs, load_in_progress, button, cursor, finishes>>
      BY <2>1, <2>4, <1>2, <1>4, <1>5 DEF frontVars, Loading, StillLoading
  <2> QED
      BY <2>1, <2>2, <2>3, <2>4, <1>6, <1>2
<1>12. CASE StopButton
  <2>1. /\ button = "Stop" /\ button' = "disabled" /\ load_in_progress' = TRUE
        /\ UNCHANGED <<cursor, waiting, read_job, finalize_jobs>>
      BY <1>12 DEF StopButton, objectVars
  <2>2. load_in_progress = TRUE
      BY <1>1, <1>3, <2>1
  <2>3. Busy'
      BY <1>5, <2>1, <2>2 DEF Loading, StillLoading
  <2>4. Shown'
      BY <1>1, <2>1, <2>2
  <2> QED
      BY <1>2, <2>3, <2>4
<1>13. ASSUME NEW wanted \in SUBSET Objects, wanted # {}, StartLoads(wanted), loads < MaxLoads
       PROVE  \E o \in Objects : StillLoading(o)
  <2>1. PICK o \in wanted : TRUE
      BY <1>13
  <2>2. read_job'[o] = ChunkJob(o, loads + 1, 0) /\ ChunkJob(o, loads + 1, 0) \in ReadJobs
      BY <1>13, <2>1, LoadsStart
  <2> QED
      BY <2>1, <2>2, JobKinds DEF StillLoading
<1>14. CASE Load
  <2>1. PICK label \in {"Load", "Stop", "disabled"} : Free /\ LoadSlot(label)
      BY <1>14 DEF Load
  <2>2. Results # "always" => cursor = 0
      BY <1>1, <2>1 DEF Free
  <2>3. loads < MaxLoads
      BY BoundsAssumption, <2>1 DEF LoadSlot, Typed, CountersTyped
  <2>4. CASE waiting' = waiting + 1 /\ load_in_progress' = TRUE /\ cursor' = cursor + 1
      BY <2>2, <2>4, <1>2, <1>3
  <2>5. ASSUME NEW wanted \in SUBSET Objects, StartLoads(wanted),
               IF wanted = {}
               THEN button' = "Load" /\ load_in_progress' = FALSE /\ UNCHANGED cursor
               ELSE load_in_progress' = TRUE /\ cursor' = cursor + 1
        PROVE  Front'
    <3>1. CASE wanted = {}
        BY <2>2, <2>5, <3>1, <1>2
    <3>2. CASE wanted # {}
      <4>1. \E o \in Objects : StillLoading(o)
          BY <1>13, <2>3, <2>5, <3>2
      <4>2. Busy'
          BY <4>1 DEF Loading, StillLoading
      <4>3. Shown'
          BY <2>2, <2>5, <3>2, <1>3
      <4> QED
          BY <1>2, <4>2, <4>3
    <3> QED
        BY <3>1, <3>2
  <2> QED
      BY <2>1, <2>4, <2>5 DEF LoadSlot
<1>15. CASE ContinueLoad
  <2>1. PICK wanted \in SUBSET Objects :
            StartLoads(wanted) /\ IF wanted = {} THEN FinishLoading ELSE UNCHANGED frontVars
      BY <1>15 DEF ContinueLoad
  <2>2. loads < MaxLoads
      BY BoundsAssumption, <1>15 DEF ContinueLoad, Typed, CountersTyped
  <2>3. CASE wanted = {}
      BY <1>2, <1>6, <2>1, <2>3
  <2>4. CASE wanted # {}
    <3>1. \E o \in Objects : StillLoading(o)
        BY <1>13, <2>1, <2>2, <2>4
    <3>2. Busy'
        BY <3>1 DEF Loading, StillLoading
    <3> QED
        BY <1>2, <1>4, <2>1, <2>4, <3>2
  <2> QED
      BY <2>3, <2>4
<1> QED
    BY <1>7, <1>8, <1>9, <1>10, <1>11, <1>12, <1>14, <1>15, StepCases

(* What the theorem about the rest needs of the invariant. *)
Sound == Typed /\ Queued /\ Reading /\ Current /\ Front

(* It is kept by every step. *)
LEMMA SoundIsKept == Sound /\ [Next]_vars => Sound'
BY TypedIsKept, QueuedIsKept, ReadingIsKept, CurrentIsKept, FrontIsKept DEF Sound

(* The variables have their types, the lines and the events hold only jobs *)
(* that were added, and the load widget follows the loads.                 *)
THEOREM LoadingIsSound == Spec => []Sound
<1>1. Init => Sound
    BY StartIsConsistent DEF Consistent, Sound
<1> QED
    BY <1>1, SoundIsKept, PTL DEF Spec

(* When nothing is under way any more, no object is loading, the mutex and *)
(* the command of the connection are free and the widget is as before a    *)
(* load - if the load button is not used during a load that a result has   *)
(* started (then a wait cursor can stay).                                  *)
THEOREM LoadingComesToRest ==
    ASSUME Results # "always"
    PROVE  Spec => []RestIsClean
<1>1. ASSUME Sound, AtRest
      PROVE  /\ \A o \in Objects : ~Loading(o)
             /\ ~load_in_progress /\ button = "Load"
             /\ mutex = None /\ prepared_command = None
             /\ cursor = 0
  <2>1. /\ Len(events) = 0 /\ waiting = 0 /\ added \subseteq finished
        /\ \A k \in {"db", "blocking"} : Len(line[k]) = 0
      BY <1>1 DEF AtRest
  <2>2. ASSUME NEW j \in Jobs, Pending(j)
        PROVE  FALSE
    <3>1. line \in [Manager!Kinds -> Seq(Jobs)]
        BY <1>1 DEF Sound, Typed, LinesTyped
    <3>2. KindOf[j] \in {"db", "blocking"} /\ Len(line[KindOf[j]]) = 0
        BY <2>1, JobKinds
    <3>3. ~ \E x \in 1 .. Len(line[KindOf[j]]) : line[KindOf[j]][x] = j
        BY <3>2
    <3>4. j \notin Range(line[KindOf[j]])
        BY <3>1, <3>3, PlaceInLine
    <3> QED
        BY <2>1, <2>2, <3>4 DEF Pending, Posted, InLine
  <2>3. \A o \in Objects : ~Loading(o)
    <3> SUFFICES ASSUME NEW o \in Objects, Loading(o)
                 PROVE  FALSE
        OBVIOUS
    <3>1. /\ read_job[o] \in ReadJobs \cup {None} /\ finalize_jobs[o] \subseteq FinalizeJobs
          /\ read_job[o] # None => Pending(read_job[o])
          /\ \A k \in finalize_jobs[o] : Pending(k)
        BY <1>1 DEF Sound, Typed, ObjectsTyped, Current
    <3> QED
        BY <2>2, <3>1, JobKinds DEF Loading
  <2>4. load_in_progress = FALSE /\ button = "Load" /\ cursor = 0
      BY <1>1, <2>1, <2>3 DEF Sound, Front, Typed, CountersTyped
  <2>5. \A j \in ReadJobs : step[j] \in {"new", "over"}
      BY <1>1, <2>1 DEF Sound, Reading
  <2>6. mutex = None /\ prepared_command = None
      BY <1>1, <2>5 DEF Sound, Reading, Typed, ReadersTyped
  <2> QED
      BY <2>3, <2>4, <2>6
<1>2. Sound => RestIsClean
    BY <1>1 DEF RestIsClean
<1> QED
    BY <1>2, LoadingIsSound, PTL

-----------------------------------------------------------------------------
(* The order of the done signals. *)

(* What comes before something stays so, until its own signal is taken. *)
LEMMA BeforeStays ==
    ASSUME Typed, Queued, Reading, Typed', [Next]_vars,
           NEW m \in FinalizeJobs, NEW k \in FinalizeJobs, m # k,
           m \in added, k \in added \ cancelled, Pending(m), Before(m, k),
           ~(FinalizeDoneSlot /\ events[1] = Done(m))
    PROVE  Before(m, k)'
<1> DEFINE n == Len(line["blocking"])
           InEvents == \A q \in 1 .. Len(events) : events[q] = Done(k) =>
                           \E r \in 1 .. q - 1 : events[r] = Done(m)
           InTheLine == m \notin emitted =>
                            \A x, y \in 1 .. Len(line["blocking"]) :
                               line["blocking"][x] = m /\ line["blocking"][y] = k => x < y
<1>1. InEvents /\ InTheLine
    BY DEF Before
<1>2. ASSUME InEvents', InTheLine'
      PROVE  Before(m, k)'
    BY <1>2 DEF Before
<1>3. /\ n \in Nat /\ Len(line'["blocking"]) \in Nat
      /\ Len(events) \in Nat /\ Len(events') \in Nat
      /\ emitted \subseteq added
  <2>1. n \in Nat /\ Len(line'["blocking"]) \in Nat /\ emitted \subseteq added
      BY DEF Typed, LinesTyped, Manager!Kinds
  <2>2. Len(events) \in Nat /\ Len(events') \in Nat
      BY DEF Typed, ReadersTyped
  <2> QED
      BY <2>1, <2>2
<1>4. /\ \A j : Done(j).what = "done" /\ Done(j).job = j
      /\ \A j, c : Event("buffer", j, c).what = "buffer"
    BY SignalKinds
<1>5. ASSUME UNCHANGED events
      PROVE  InEvents'
    BY <1>1, <1>5
<1>6. ASSUME UNCHANGED emitted, line'["blocking"] = line["blocking"]
      PROVE  InTheLine'
    BY <1>1, <1>6
<1>7. ASSUME NEW e, e # Done(k), Continues(events, events', e)
      PROVE  InEvents'
  <2>1. ASSUME NEW q \in 1 .. Len(events'), events'[q] = Done(k)
        PROVE  \E r \in 1 .. q - 1 : events'[r] = Done(m)
    <3>1. q \in 1 .. Len(events) /\ events[q] = Done(k)
        BY <1>3, <1>7, <2>1 DEF Continues
    <3>2. PICK r \in 1 .. q - 1 : events[r] = Done(m)
        BY <1>1, <3>1
    <3>3. r \in 1 .. Len(events)
        BY <1>3, <3>1, <3>2
    <3> QED
        BY <1>7, <3>2, <3>3 DEF Continues
  <2> QED
      BY <2>1
<1>8. ASSUME NEW name, NextEvent(name), events[1] # Done(m)
      PROVE  InEvents'
  <2>1. /\ Len(events) \in Nat \ {0} /\ Len(events') = Len(events) - 1
        /\ \A p \in 1 .. Len(events') : events'[p] = events[p + 1]
      BY <1>8, TakeEvent
  <2>2. ASSUME NEW q \in 1 .. Len(events'), events'[q] = Done(k)
        PROVE  \E r \in 1 .. q - 1 : events'[r] = Done(m)
    <3>1. q + 1 \in 1 .. Len(events) /\ events[q + 1] = Done(k)
        BY <2>1, <2>2
    <3>2. PICK r \in 1 .. (q + 1) - 1 : events[r] = Done(m)
        BY <1>1, <3>1
    <3>3. r # 1 /\ r - 1 \in 1 .. q - 1 /\ r - 1 \in 1 .. Len(events') /\ (r - 1) + 1 = r
        BY <1>8, <2>1, <2>2, <3>2
    <3> QED
        BY <2>1, <3>2, <3>3
  <2> QED
      BY <2>2
<1>9. CASE Quiet \/ StopButton
    BY <1>2, <1>5, <1>6, <1>9 DEF Quiet, StopButton
<1>10. ASSUME NEW i \in {"db", "blocking"}, Emit(i)
       PROVE  Before(m, k)'
  <2> DEFINE j == Head(line[i])
  <2>1. /\ line[i][1] = j /\ Len(line[i]) \in Nat \ {0} /\ KindOf[j] = i
        /\ emitted' = emitted \cup {j} /\ Continues(events, events', Done(j))
        /\ j \in added \ (emitted \ cancelled)
      BY <1>10, EmitEvents
  <2>2. UNCHANGED line
      BY <1>10, EmitLeaves DEF managerVars
  <2> HIDE DEF j
  <2>3. InTheLine'
      BY <1>1, <2>1, <2>2
  <2>4. CASE j # k
      BY <1>2, <1>4, <1>7, <2>1, <2>3, <2>4
  <2>5. CASE j = k
    <3>1. i = "blocking" /\ KindOf[m] = "blocking"
        BY <2>1, <2>5, JobKinds
    <3>2. Posted(Done(m))
      <4>1. SUFFICES ASSUME ~Posted(Done(m))
                     PROVE  FALSE
          OBVIOUS
      <4>2. m \notin emitted /\ InLine(m)
          BY <4>1 DEF Pending
      <4>3. PICK x \in 1 .. n : line["blocking"][x] = m
        <5>1. line \in [Manager!Kinds -> Seq(Jobs)] /\ m \in Jobs
            BY JobKinds DEF Typed, LinesTyped
        <5>2. m \in Range(line["blocking"])
            BY <3>1, <4>2 DEF InLine
        <5> QED
            BY <3>1, <5>1, <5>2, PlaceInLine
      <4>4. 1 \in 1 .. n /\ line["blocking"][1] = k
          BY <2>1, <2>5, <3>1
      <4>5. x < 1
          BY <1>1, <4>2, <4>3, <4>4
      <4> QED
          BY <1>3, <4>3, <4>5
    <3>3. PICK r \in 1 .. Len(events) : events[r] = Done(m)
        BY <3>2 DEF Posted
    <3>4. k \notin emitted
        BY <2>1, <2>5
    <3>5. ASSUME NEW q \in 1 .. Len(events'), events'[q] = Done(k)
          PROVE  \E p \in 1 .. q - 1 : events'[p] = Done(m)
      <4>1. q \notin 1 .. Len(events)
        <5>1. ASSUME q \in 1 .. Len(events)
              PROVE  FALSE
          <6>1. events[q] = Done(k)
              BY <2>1, <3>5, <5>1 DEF Continues
          <6>2. events[q].what = "done" => events[q].job \in emitted
              BY <5>1 DEF Queued, JobsInEvents
          <6> QED
              BY <1>4, <3>4, <6>1, <6>2
        <5> QED
            BY <5>1
      <4>2. r \in 1 .. q - 1 /\ events'[r] = Done(m)
          BY <1>3, <2>1, <3>3, <3>5, <4>1 DEF Continues
      <4> QED
          BY <4>2
    <3> QED
        BY <1>2, <2>3, <3>5
  <2> QED
      BY <2>4, <2>5
<1>11. ASSUME NEW i \in {"db", "blocking"}, LetGo(i)
       PROVE  Before(m, k)'
  <2>1. UNCHANGED <<emitted, events>>
      BY <1>11 DEF LetGo
  <2>2. /\ \A h \in Manager!Kinds \ {i} : line'[h] = line[h]
        /\ Len(line'[i]) = Len(line[i]) - 1
        /\ \A x \in 1 .. Len(line'[i]) : line'[i][x] = line[i][x + 1]
      BY <1>11, LineShifts
  <2>3. CASE i # "blocking"
      BY <1>2, <1>5, <1>6, <2>1, <2>2, <2>3 DEF Manager!Kinds
  <2>4. CASE i = "blocking"
    <3>1. ASSUME m \notin emitted,
                 NEW x \in 1 .. n - 1, NEW y \in 1 .. n - 1,
                 line'["blocking"][x] = m, line'["blocking"][y] = k
          PROVE  x < y
      <4>1. /\ x + 1 \in 1 .. n /\ y + 1 \in 1 .. n
            /\ line["blocking"][x + 1] = m /\ line["blocking"][y + 1] = k
        <5>1. x + 1 \in 1 .. n /\ y + 1 \in 1 .. n
            BY <1>3
        <5>2. x \in 1 .. Len(line'["blocking"]) /\ y \in 1 .. Len(line'["blocking"])
            BY <1>3, <2>2, <2>4
        <5> QED
            BY <2>2, <2>4, <3>1, <5>1, <5>2
      <4>2. x + 1 < y + 1
          BY <1>1, <3>1, <4>1
      <4> QED
          BY <1>3, <4>2
    <3> QED
        BY <1>2, <1>5, <2>1, <2>2, <2>4, <3>1
  <2> QED
      BY <2>3, <2>4
<1>12. ASSUME NEW j \in ReadJobs, ReadEmit(j)
       PROVE  Before(m, k)'
  <2>1. UNCHANGED <<line, emitted>>
      BY <1>12 DEF ReadEmit, managerVars
  <2>2. events' = events \/ Continues(events, events', Event("buffer", j, row_count[j] + 1))
      BY <1>12, BufferEmitted
  <2>3. Event("buffer", j, row_count[j] + 1) # Done(k)
      BY <1>4
  <2> QED
      BY <1>2, <1>5, <1>6, <1>7, <2>1, <2>2, <2>3
<1>13. CASE BufferSlot
  <2>1. /\ NextEvent("buffer") /\ UNCHANGED emitted
        /\ \/ UNCHANGED line
           \/ \E j : /\ j \notin added
                     /\ Continues(line["blocking"], line'["blocking"], j)
      BY <1>13, BufferArrives
  <2>2. InEvents'
      BY <1>4, <1>8, <2>1, TakeEvent
  <2>3. InTheLine'
    <3>1. CASE UNCHANGED line
        BY <1>6, <2>1, <3>1
    <3>2. ASSUME NEW j, j \notin added, Continues(line["blocking"], line'["blocking"], j)
          PROVE  InTheLine'
      <4>1. m # j /\ k # j
          BY <3>2
      <4>2. ASSUME NEW x \in 1 .. Len(line'["blocking"]), line'["blocking"][x] # j
            PROVE  x \in 1 .. n /\ line'["blocking"][x] = line["blocking"][x]
          BY <1>3, <3>2, <4>2 DEF Continues
      <4> QED
          BY <1>1, <2>1, <4>1, <4>2
    <3> QED
        BY <2>1, <3>1, <3>2
  <2> QED
      BY <1>2, <2>2, <2>3
<1>14. CASE ReadDoneSlot \/ FinalizeDoneSlot
  <2>1. NextEvent("done") /\ UNCHANGED <<line, emitted>>
      BY <1>14, ReadEnds, FinalizeEnds
  <2>2. events[1] # Done(m)
    <3>1. CASE FinalizeDoneSlot
        BY <3>1
    <3>2. CASE ReadDoneSlot
        BY <1>4, <3>2, ReadEnds, JobKinds
    <3> QED
        BY <1>14, <3>1, <3>2
  <2> QED
      BY <1>2, <1>6, <1>8, <2>1, <2>2
<1>15. CASE Load \/ ContinueLoad
  <2>1. UNCHANGED <<emitted, events>>
      BY <1>15, LoadCases
  <2>2. ASSUME loads < MaxLoads, NEW wanted \in SUBSET Objects, StartLoads(wanted)
        PROVE  line'["blocking"] = line["blocking"]
      BY <2>2, LoadsStart
  <2>3. line'["blocking"] = line["blocking"]
      BY <1>15, <2>2, LoadCases
  <2> QED
      BY <1>2, <1>5, <1>6, <2>1, <2>3
<1> QED
    BY <1>9, <1>10, <1>11, <1>12, <1>13, <1>14, <1>15, StepCases

(* The buffers of a read job stay in sequence. *)
LEMMA SequenceIsKept ==
    ASSUME Typed, Queued, Reading, Typed', InSequence, [Next]_vars
    PROVE  InSequence'
<1>1. Len(events) \in Nat /\ Len(events') \in Nat
    BY DEF Typed, ReadersTyped
<1>2. CASE UNCHANGED events
    BY <1>2 DEF InSequence
<1>3. ASSUME NEW e, Continues(events, events', e),
             e.what = "buffer" => /\ Len(events') = Len(events) + 1
                                  /\ \A p \in 1 .. Len(events) :
                                        events[p].what = "buffer" /\ events[p].job = e.job
                                            => events[p].chunk < e.chunk
      PROVE  InSequence'
  <2> SUFFICES ASSUME NEW p \in 1 .. Len(events'), NEW q \in 1 .. Len(events'),
                      events'[p].what = "buffer", events'[q].what = "buffer",
                      events'[p].job = events'[q].job, p < q
               PROVE  events'[p].chunk < events'[q].chunk
      BY DEF InSequence
  <2>1. CASE q \in 1 .. Len(events)
    <3>1. p \in 1 .. Len(events) /\ events'[p] = events[p] /\ events'[q] = events[q]
        BY <1>1, <1>3, <2>1 DEF Continues
    <3> QED
        BY <2>1, <3>1 DEF InSequence
  <2>2. CASE q \notin 1 .. Len(events)
    <3>1. events'[q] = e
        BY <1>1, <1>3, <2>2 DEF Continues
    <3>2. p \in 1 .. Len(events) /\ events'[p] = events[p]
        BY <1>1, <1>3, <2>2, <3>1 DEF Continues
    <3> QED
        BY <1>3, <3>1, <3>2
  <2> QED
      BY <2>1, <2>2
<1>4. ASSUME NEW name, NextEvent(name)
      PROVE  InSequence'
  <2>1. /\ Len(events) \in Nat \ {0} /\ Len(events') = Len(events) - 1
        /\ \A p \in 1 .. Len(events') : events'[p] = events[p + 1]
      BY <1>4, TakeEvent
  <2> SUFFICES ASSUME NEW p \in 1 .. Len(events'), NEW q \in 1 .. Len(events'),
                      events'[p].what = "buffer", events'[q].what = "buffer",
                      events'[p].job = events'[q].job, p < q
               PROVE  events'[p].chunk < events'[q].chunk
      BY DEF InSequence
  <2>2. /\ p + 1 \in 1 .. Len(events) /\ q + 1 \in 1 .. Len(events) /\ p + 1 < q + 1
        /\ events'[p] = events[p + 1] /\ events'[q] = events[q + 1]
      BY <2>1
  <2> QED
      BY <2>2 DEF InSequence
<1>5. ASSUME NEW k \in {"db", "blocking"}, Emit(k)
      PROVE  InSequence'
    BY <1>3, <1>5, EmitEvents, SignalKinds
<1>6. ASSUME NEW j \in ReadJobs, ReadEmit(j)
      PROVE  InSequence'
  <2> DEFINE e == Event("buffer", j, row_count[j] + 1)
  <2>1. /\ row_count[j] \in Nat
        /\ events' = events \/ (Continues(events, events', e) /\ Len(events') = Len(events) + 1)
      BY <1>6, BufferEmitted
  <2>2. e.what = "buffer" /\ e.job = j /\ e.chunk = row_count[j] + 1
      BY SignalKinds
  <2> HIDE DEF e
  <2>3. ASSUME NEW p \in 1 .. Len(events), events[p].what = "buffer", events[p].job = e.job
        PROVE  events[p].chunk < e.chunk
    <3>1. events[p].chunk \in 1 .. row_count[j]
        BY <2>2, <2>3 DEF Queued, JobsInEvents
    <3> QED
        BY <2>1, <2>2, <3>1
  <2> QED
      BY <1>2, <1>3, <2>1, <2>3
<1>7. CASE Quiet \/ StopButton \/ \E k \in {"db", "blocking"} : LetGo(k)
    BY <1>2, <1>7 DEF Quiet, StopButton, LetGo
<1>8. CASE BufferSlot \/ ReadDoneSlot \/ FinalizeDoneSlot
    BY <1>4, <1>8, BufferArrives, ReadEnds, FinalizeEnds
<1>9. CASE Load \/ ContinueLoad
    BY <1>2, <1>9, LoadCases
<1> QED
    BY <1>5, <1>6, <1>7, <1>8, <1>9, StepCases

-----------------------------------------------------------------------------
(* The chunks of an object. *)

(* What of a read job is still unread stays so, until its buffer is taken. *)
LEMMA UnreadStays ==
    ASSUME Typed, Queued, Reading, Typed', [Next]_vars,
           NEW j \in ReadJobs, j = read_job[j.obj], NEW b \in Nat, Unread(j, b),
           ~(BufferSlot /\ events[1].job = j)
    PROVE  Unread(j, b)'
<1> DEFINE Later == \A p \in 1 .. Len(events) :
                        events[p].what = "buffer" /\ events[p].job = j => events[p].chunk > b
           Rest == \A n \in b + 1 .. row_count[j] : Posted(Event("buffer", j, n))
<1>1. b <= row_count[j] /\ Later /\ Rest
    BY DEF Unread
<1>2. ASSUME b <= row_count'[j], Later', Rest'
      PROVE  Unread(j, b)'
    BY <1>2 DEF Unread
<1>3. Len(events) \in Nat /\ Len(events') \in Nat /\ row_count[j] \in Nat
    BY DEF Typed, ReadersTyped
<1>4. /\ \A i : Done(i).what = "done"
      /\ \A i, n : /\ Event("buffer", i, n).what = "buffer" /\ Event("buffer", i, n).job = i
                   /\ Event("buffer", i, n).chunk = n
    BY SignalKinds
<1>5. ASSUME UNCHANGED <<events, row_count>>
      PROVE  Unread(j, b)'
    BY <1>1, <1>2, <1>5 DEF Posted
<1>6. ASSUME NEW e, Continues(events, events', e)
      PROVE  /\ \A x : Posted(x) => Posted(x)'
             /\ Posted(e)'
             /\ (e.what = "buffer" /\ e.job = j => e.chunk > b) => Later'
  <2>1. \A x : Posted(x) => Posted(x)'
      BY <1>3, <1>6 DEF Continues, Posted
  <2>2. Len(events) + 1 \in 1 .. Len(events') /\ events'[Len(events) + 1] = e
      BY <1>3, <1>6 DEF Continues
  <2>3. Posted(e)'
      BY <2>2 DEF Posted
  <2>4. ASSUME e.what = "buffer" /\ e.job = j => e.chunk > b,
               NEW p \in 1 .. Len(events'), events'[p].what = "buffer", events'[p].job = j
        PROVE  events'[p].chunk > b
    <3>1. CASE p \in 1 .. Len(events)
        BY <1>1, <1>6, <2>4, <3>1 DEF Continues
    <3>2. CASE p \in Len(events) + 1 .. Len(events')
        BY <1>6, <2>4, <3>2 DEF Continues
    <3> QED
        BY <1>3, <3>1, <3>2
  <2> QED
      BY <2>1, <2>3, <2>4
<1>7. ASSUME NEW name, NextEvent(name), UNCHANGED row_count,
             ~(name = "buffer" /\ events[1].job = j)
      PROVE  Unread(j, b)'
  <2>1. /\ Len(events) \in Nat \ {0} /\ Len(events') = Len(events) - 1
        /\ events[1].what = name
        /\ \A p \in 1 .. Len(events') : events'[p] = events[p + 1]
      BY <1>7, TakeEvent
  <2>2. Later'
    <3>1. \A p \in 1 .. Len(events') : p + 1 \in 1 .. Len(events)
        BY <2>1
    <3> QED
        BY <1>1, <2>1, <3>1
  <2>3. ASSUME NEW n \in b + 1 .. row_count[j]
        PROVE  Posted(Event("buffer", j, n))'
    <3>1. PICK p \in 1 .. Len(events) : events[p] = Event("buffer", j, n)
        BY <1>1 DEF Posted
    <3>2. p # 1
        BY <1>4, <1>7, <2>1, <3>1
    <3>3. p - 1 \in 1 .. Len(events') /\ (p - 1) + 1 = p
        BY <2>1, <3>1, <3>2
    <3>4. events'[p - 1] = Event("buffer", j, n)
        BY <2>1, <3>1, <3>3
    <3> QED
        BY <3>3, <3>4 DEF Posted
  <2> QED
      BY <1>1, <1>2, <1>7, <2>2, <2>3
<1>8. ASSUME NEW k \in {"db", "blocking"}, Emit(k)
      PROVE  Unread(j, b)'
  <2>1. Continues(events, events', Done(Head(line[k]))) /\ UNCHANGED row_count
      BY <1>8, EmitEvents, EmitLeaves DEF readerVars
  <2> QED
      BY <1>1, <1>2, <1>4, <1>6, <2>1
<1>9. ASSUME NEW i \in ReadJobs, ReadEmit(i)
      PROVE  Unread(j, b)'
  <2> DEFINE e == Event("buffer", i, row_count[i] + 1)
  <2>1. /\ row_count' = [row_count EXCEPT ![i] = row_count[i] + 1]
        /\ \/ Destroyed(i) /\ events' = events
           \/ Continues(events, events', e)
      BY <1>9, BufferEmitted
  <2>2. e.what = "buffer" /\ e.job = i /\ e.chunk = row_count[i] + 1
      BY <1>4
  <2>3. row_count \in [ReadJobs -> Nat]
      BY DEF Typed, ReadersTyped
  <2>4. CASE i # j
    <3>1. row_count'[j] = row_count[j]
        BY <2>1, <2>3, <2>4
    <3>2. CASE events' = events
        BY <1>1, <1>2, <3>1, <3>2 DEF Posted
    <3>3. CASE Continues(events, events', e)
      <4>1. \A n \in b + 1 .. row_count'[j] : Posted(Event("buffer", j, n))'
          BY <1>1, <1>6, <3>1, <3>3
      <4>2. Later'
          BY <1>6, <2>2, <2>4, <3>3
      <4> QED
          BY <1>1, <1>2, <3>1, <4>1, <4>2
    <3> QED
        BY <2>1, <3>2, <3>3
  <2>5. CASE i = j
    <3>1. ~Destroyed(i)
        BY <2>5 DEF Destroyed
    <3>2. Continues(events, events', e)
        BY <2>1, <3>1
    <3>3. row_count'[j] = row_count[j] + 1
        BY <2>1, <2>3, <2>5
    <3>4. Later'
        BY <1>1, <1>3, <1>6, <2>2, <2>5, <3>2
    <3>5. ASSUME NEW n \in b + 1 .. row_count[j] + 1
          PROVE  Posted(Event("buffer", j, n))'
      <4>1. CASE n = row_count[j] + 1
          BY <1>6, <2>5, <3>2, <4>1
      <4>2. CASE n # row_count[j] + 1
        <5>1. n \in b + 1 .. row_count[j]
            BY <1>3, <4>2
        <5> QED
            BY <1>1, <1>6, <3>2, <5>1
      <4> QED
          BY <4>1, <4>2
    <3>6. b <= row_count'[j]
        BY <1>1, <1>3, <3>3
    <3> QED
        BY <1>2, <3>3, <3>4, <3>5, <3>6
  <2> QED
      BY <2>4, <2>5
<1>10. CASE Quiet \/ StopButton \/ \E k \in {"db", "blocking"} : LetGo(k)
    BY <1>5, <1>10 DEF Quiet, StopButton, LetGo, readerVars
<1>11. CASE BufferSlot
    BY <1>7, <1>11, BufferArrives
<1>12. CASE ReadDoneSlot \/ FinalizeDoneSlot
    BY <1>7, <1>12, ReadEnds, FinalizeEnds
<1>13. CASE Load \/ ContinueLoad
    BY <1>5, <1>13, LoadCases
<1> QED
    BY <1>8, <1>9, <1>10, <1>11, <1>12, <1>13, StepCases

(* The buffer that is taken has the chunk after the last one that is being *)
(* finalized.                                                              *)
LEMMA NextChunkArrives ==
    ASSUME Typed, Queued, Reading, InSequence, NextEvent("buffer"),
           NEW b \in Nat, Unread(events[1].job, b)
    PROVE  /\ events[1].chunk = b + 1
           /\ \A p \in 2 .. Len(events) :
                 events[p].what = "buffer" /\ events[p].job = events[1].job
                     => events[p].chunk > b + 1
<1> DEFINE j == events[1].job
<1>1. Len(events) \in Nat \ {0} /\ events[1].what = "buffer"
    BY TakeEvent
<1>2. /\ events[1].chunk \in 1 .. row_count[j] /\ events[1].chunk > b
      /\ row_count[j] \in Nat
    BY <1>1, EventKinds DEF Unread, Queued, JobsInEvents, Typed, ReadersTyped
<1>3. b + 1 \in b + 1 .. row_count[j]
    BY <1>2
<1>4. PICK p \in 1 .. Len(events) : events[p] = Event("buffer", j, b + 1)
    BY <1>3 DEF Unread, Posted
<1>5. events[p].what = "buffer" /\ events[p].job = j /\ events[p].chunk = b + 1
    BY <1>4, SignalKinds
<1>6. \A q \in 2 .. Len(events) :
          events[q].what = "buffer" /\ events[q].job = j => events[1].chunk < events[q].chunk
    BY <1>1 DEF InSequence
<1>7. p = 1
  <2>1. ASSUME p # 1
        PROVE  FALSE
    <3>1. p \in 2 .. Len(events)
        BY <1>1, <2>1
    <3> QED
        BY <1>2, <1>5, <1>6, <3>1
  <2> QED
      BY <2>1
<1> QED
    BY <1>5, <1>6, <1>7

(* Where the chunks of an object are after a step, from where they were. *)
LEMMA OrderIsKept ==
    ASSUME Typed, Queued, Reading, Current, Chain, InSequence, Typed', [Next]_vars,
           NEW o \in Objects, NEW a \in Nat, NEW b \in Nat, NEW l \in Nat, Sequel(o, a, b, l)
    PROVE  \/ Sequel(o, a, b, l)'
           \/ Sequel(o, a, b + 1, l)' /\ BufferSlot /\ events[1].job = read_job[o]
           \/ Sequel(o, a + 1, b, l)' /\ FinalizeDoneSlot /\ events[1] = Done(ChunkJob(o, l, a + 1))
              /\ Len(data'[o]) = Len(data[o]) + 1
           \/ /\ Load \/ ContinueLoad
              /\ loads' = loads + 1 /\ \E m \in Nat : m = loads' /\ Sequel(o, 0, 0, m)'
<1> DEFINE Held(h, t) == \A i \in 1 .. Len(data[o]) :
                             data[o][i] = ChunkJob(o, l, (h - Len(data[o])) + i)
           Under(h, t) == \A k : k \in finalize_jobs[o]
                                     <=> \E n \in h + 1 .. t : k = ChunkJob(o, l, n)
           Last == \A j \in added : j.obj = o => j.load <= l
           More(t) == read_job[o] # None => read_job[o].load = l /\ Unread(read_job[o], t)
<1>1. a <= b /\ Len(data[o]) <= a /\ Held(a, b) /\ Under(a, b) /\ Last /\ More(b)
    BY DEF Sequel
<1>2. ASSUME NEW h \in Nat, NEW t \in Nat, h <= t, Len(data'[o]) <= h,
             Held(h, t)', Under(h, t)', Last', More(t)'
      PROVE  Sequel(o, h, t, l)'
    BY <1>2 DEF Sequel
<1>3. /\ data[o] \in Seq(FinalizeJobs) /\ Len(data[o]) \in Nat
      /\ read_job \in [Objects -> ReadJobs \cup {None}]
      /\ finalize_jobs \in [Objects -> SUBSET FinalizeJobs]
      /\ read_job[o] # None => read_job[o] \in ReadJobs /\ read_job[o].obj = o
      /\ data \in [Objects -> Seq(FinalizeJobs)]
    BY DEF Typed, ObjectsTyped, Current
<1>4. ASSUME read_job'[o] \in {read_job[o], None},
             ~(BufferSlot /\ events[1].job = read_job[o])
      PROVE  More(b)'
  <2> SUFFICES ASSUME read_job'[o] # None
               PROVE  read_job'[o].load = l /\ Unread(read_job[o], b)'
      OBVIOUS
  <2>1. PICK j : j = read_job[o]
      OBVIOUS
  <2>2. j \in ReadJobs /\ j = read_job[j.obj] /\ j.load = l /\ Unread(j, b)
      BY <1>1, <1>3, <1>4, <2>1
  <2>3. Unread(j, b)'
      BY <1>4, <2>1, <2>2, UnreadStays
  <2>4. j = read_job'[o]
      BY <1>4, <2>1
  <2> QED
      BY <2>2, <2>3, <2>4
<1>5. ASSUME UNCHANGED <<added, read_job, finalize_jobs>>, data'[o] \in {data[o], <<>>},
             ~(BufferSlot /\ events[1].job = read_job[o])
      PROVE  Sequel(o, a, b, l)'
  <2>1. More(b)'
      BY <1>4, <1>5
  <2>2. Len(data'[o]) <= a /\ Held(a, b)'
      BY <1>1, <1>3, <1>5
  <2>3. Under(a, b)' /\ Last'
      BY <1>1, <1>5
  <2> QED
      BY <1>1, <1>2, <2>1, <2>2, <2>3
<1>6. \/ BufferSlot => NextEvent("buffer") /\ events[1].what = "buffer"
      \/ ~BufferSlot
    BY BufferArrives, TakeEvent
<1>7. ASSUME UNCHANGED events \/ Len(events') >= Len(events)
      PROVE  ~BufferSlot /\ ~ReadDoneSlot /\ ~FinalizeDoneSlot
  <2>1. \A name : ~NextEvent(name)
      BY <1>7, TakeEvent
  <2> QED
      BY <2>1 DEF BufferSlot, ReadDoneSlot, FinalizeDoneSlot
<1>8. CASE Quiet \/ StopButton
    BY <1>5, <1>7, <1>8 DEF Quiet, StopButton, objectVars
<1>9. ASSUME NEW k \in {"db", "blocking"}, Emit(k) \/ LetGo(k)
      PROVE  Sequel(o, a, b, l)'
  <2>1. UNCHANGED <<added, read_job, finalize_jobs, data>>
      BY <1>9, EmitLeaves DEF LetGo, Manager!Leave, managerVars, objectVars
  <2>2. UNCHANGED events \/ Len(events') >= Len(events)
    <3>1. CASE LetGo(k)
        BY <3>1 DEF LetGo
    <3>2. CASE Emit(k)
        BY <3>2, EmitEvents DEF Continues
    <3> QED
        BY <1>9, <3>1, <3>2
  <2> QED
      BY <1>5, <1>7, <2>1, <2>2
<1>10. ASSUME NEW j \in ReadJobs, ReadEmit(j)
       PROVE  Sequel(o, a, b, l)'
  <2>1. UNCHANGED <<added, read_job, finalize_jobs, data>>
      BY <1>10 DEF ReadEmit, managerVars, objectVars
  <2>2. UNCHANGED events \/ Len(events') >= Len(events)
      BY <1>10, BufferEmitted DEF Continues
  <2> QED
      BY <1>5, <1>7, <2>1, <2>2
<1>11. CASE BufferSlot
  <2> DEFINE r == events[1].job
             j == ChunkJob(r.obj, r.load, events[1].chunk)
  <2>1. /\ NextEvent("buffer") /\ r \in ReadJobs
        /\ UNCHANGED <<read_job, data, row_count>>
        /\ \/ r # read_job[r.obj] /\ UNCHANGED <<line, added, finalize_jobs>>
           \/ /\ r = read_job[r.obj]
              /\ added' = added \cup {j}
              /\ finalize_jobs' = [finalize_jobs EXCEPT ![r.obj] = @ \cup {j}]
      BY <1>11, BufferArrives
  <2>2. r.obj \in Objects /\ r # None
      BY <2>1, JobKinds
  <2>3. CASE r # read_job[r.obj] /\ UNCHANGED <<line, added, finalize_jobs>>
    <3>1. r # read_job[o]
        BY <1>3, <2>2, <2>3
    <3> QED
        BY <1>5, <2>1, <2>3, <3>1
  <2>4. CASE r = read_job[r.obj] /\ r.obj # o
    <3>1. read_job[o] # r
        BY <1>3, <2>2, <2>4
    <3>2. More(b)'
        BY <1>4, <2>1, <3>1
    <3>3. finalize_jobs'[o] = finalize_jobs[o]
        BY <1>3, <2>1, <2>4
    <3>4. Last'
        BY <1>1, <2>1, <2>4 DEF ChunkJob
    <3> QED
        BY <1>1, <1>2, <2>1, <3>2, <3>3, <3>4
  <2>5. CASE r = read_job[r.obj] /\ r.obj = o
    <3>1. PICK i : i = r
        OBVIOUS
    <3>2. i = read_job[o] /\ i \in ReadJobs /\ i.load = l /\ i.obj = o /\ Unread(i, b)
        BY <1>1, <2>1, <2>2, <2>5, <3>1
    <3>3. /\ events[1].chunk = b + 1
          /\ \A p \in 2 .. Len(events) :
                events[p].what = "buffer" /\ events[p].job = i => events[p].chunk > b + 1
        BY <2>1, <3>1, <3>2, NextChunkArrives
    <3>4. /\ Len(events) \in Nat \ {0} /\ Len(events') = Len(events) - 1
          /\ events[1].what = "buffer"
          /\ \A p \in 1 .. Len(events') : events'[p] = events[p + 1]
        BY <2>1, TakeEvent
    <3>5. row_count[i] \in Nat /\ b + 1 <= row_count[i]
      <4>1. events[1].chunk \in 1 .. row_count[i] /\ row_count[i] \in Nat
        <5>1. events[1].job = i /\ 1 \in 1 .. Len(events)
            BY <3>1, <3>4
        <5>2. events[1].chunk \in 1 .. row_count[events[1].job]
            BY <3>4, <5>1 DEF Queued, JobsInEvents
        <5>3. row_count[i] \in Nat
            BY <3>2 DEF Typed, ReadersTyped
        <5> QED
            BY <5>1, <5>2, <5>3
      <4> QED
          BY <3>3, <4>1
    <3>6. Unread(i, b + 1)'
      <4>1. \A p \in 1 .. Len(events') : p + 1 \in 2 .. Len(events)
          BY <3>4
      <4>2. \A p \in 1 .. Len(events') :
                events'[p].what = "buffer" /\ events'[p].job = i => events'[p].chunk > b + 1
          BY <3>3, <3>4, <4>1
      <4>3. ASSUME NEW n \in (b + 1) + 1 .. row_count[i]
            PROVE  Posted(Event("buffer", i, n))'
        <5>1. n \in b + 1 .. row_count[i] /\ n # b + 1
            BY <3>5
        <5>2. PICK p \in 1 .. Len(events) : events[p] = Event("buffer", i, n)
            BY <3>2, <5>1 DEF Unread, Posted
        <5>3. p # 1
            BY <3>3, <5>1, <5>2, SignalKinds
        <5>4. p - 1 \in 1 .. Len(events') /\ (p - 1) + 1 = p
            BY <3>4, <5>2, <5>3
        <5>5. events'[p - 1] = Event("buffer", i, n)
            BY <3>4, <5>2, <5>4
        <5> QED
            BY <5>4, <5>5 DEF Posted
      <4> QED
          BY <2>1, <3>5, <4>2, <4>3 DEF Unread
    <3>7. More(b + 1)'
      <4>1. read_job'[o] = i
          BY <2>1, <3>2
      <4> QED
          BY <3>2, <3>6, <4>1
    <3>8. j = ChunkJob(o, l, b + 1)
        BY <3>1, <3>2, <3>3
    <3> HIDE DEF j
    <3>9. Under(a, b + 1)'
      <4>1. finalize_jobs'[o] = finalize_jobs[o] \cup {ChunkJob(o, l, b + 1)}
          BY <1>3, <2>1, <2>5, <3>8
      <4>2. \A n : n \in a + 1 .. b + 1 <=> n \in a + 1 .. b \/ n = b + 1
          BY <1>1
      <4> QED
          BY <1>1, <4>1, <4>2
    <3>10. Last'
      <4>1. j.load = l /\ l <= l
          BY <3>8 DEF ChunkJob
      <4> QED
          BY <1>1, <2>1, <2>5, <4>1
    <3>11. Sequel(o, a, b + 1, l)'
      <4>1. b + 1 \in Nat /\ a <= b + 1
          BY <1>1
      <4>2. Len(data'[o]) <= a /\ Held(a, b + 1)'
          BY <1>1, <2>1
      <4> QED
          BY <1>2, <3>7, <3>9, <3>10, <4>1, <4>2
    <3> QED
        BY <1>11, <3>1, <3>2, <3>11
  <2> QED
      BY <2>1, <2>3, <2>4, <2>5
<1>12. CASE ReadDoneSlot
  <2> DEFINE j == events[1].job
  <2>1. /\ NextEvent("done") /\ j \in ReadJobs
        /\ UNCHANGED <<added, finalize_jobs, data>>
        /\ read_job' = [read_job EXCEPT ![j.obj] = None]
      BY <1>12, ReadEnds
  <2>2. ~BufferSlot
    <3>1. events[1].what = "done"
        BY <2>1, TakeEvent
    <3> QED
        BY <1>6, <3>1
  <2>3. read_job'[o] \in {read_job[o], None}
      BY <1>3, <2>1
  <2>4. More(b)'
      BY <1>4, <2>2, <2>3
  <2> QED
      BY <1>1, <1>2, <2>1, <2>4
<1>13. CASE FinalizeDoneSlot
  <2> DEFINE e == events[1].job
  <2>1. /\ NextEvent("done") /\ e \in FinalizeJobs
        /\ UNCHANGED <<added, read_job>>
        /\ \/ UNCHANGED <<finalize_jobs, data>>
           \/ /\ e \in finalize_jobs[e.obj]
              /\ finalize_jobs' = [finalize_jobs EXCEPT ![e.obj] = @ \ {e}]
              /\ data' = [data EXCEPT ![e.obj] = Append(@, e)]
      BY <1>13, FinalizeEnds
  <2>2. Len(events) \in Nat \ {0} /\ events[1].what = "done" /\ events[1] = Done(e)
      BY <2>1, TakeEvent, EventKinds
  <2>3. ~BufferSlot
      BY <1>6, <2>2
  <2>4. More(b)'
      BY <1>4, <2>1, <2>3
  <2>5. CASE UNCHANGED <<finalize_jobs, data>>
      BY <1>5, <2>1, <2>3, <2>5
  <2>6. CASE e.obj # o /\ finalize_jobs' = [finalize_jobs EXCEPT ![e.obj] = @ \ {e}]
             /\ data' = [data EXCEPT ![e.obj] = Append(@, e)]
    <3>1. finalize_jobs'[o] = finalize_jobs[o] /\ data'[o] = data[o]
        BY <1>3, <2>6
    <3> QED
        BY <1>1, <1>2, <2>1, <2>4, <3>1
  <2>7. CASE /\ e.obj = o /\ e \in finalize_jobs[e.obj]
             /\ finalize_jobs' = [finalize_jobs EXCEPT ![e.obj] = @ \ {e}]
             /\ data' = [data EXCEPT ![e.obj] = Append(@, e)]
    <3>1. PICK n \in a + 1 .. b : e = ChunkJob(o, l, n)
        BY <1>1, <2>7
    <3>2. n = a + 1
      <4>1. ASSUME n # a + 1
            PROVE  FALSE
        <5>1. a + 1 \in a + 1 .. b /\ a + 1 < n
            BY <3>1, <4>1
        <5>2. ChunkJob(o, l, a + 1) \in finalize_jobs[o]
            BY <1>1, <5>1
        <5>3. ChunkJob(o, l, a + 1).chunk < e.chunk
            BY <3>1, <5>1 DEF ChunkJob
        <5>4. Before(ChunkJob(o, l, a + 1), e)
            BY <2>7, <5>2, <5>3 DEF Chain
        <5>5. \E x \in 1 .. 1 - 1 : events[x] = Done(ChunkJob(o, l, a + 1))
            BY <2>2, <5>4 DEF Before
        <5> QED
            BY <5>5
      <4> QED
          BY <4>1
    <3>3. e = ChunkJob(o, l, a + 1) /\ a + 1 <= b
        BY <3>1, <3>2
    <3>4. PICK k : k = e
        OBVIOUS
    <3>5. k = ChunkJob(o, l, a + 1) /\ k \in FinalizeJobs
        BY <2>1, <3>3, <3>4
    <3>6. data'[o] = Append(data[o], k) /\ finalize_jobs'[o] = finalize_jobs[o] \ {k}
        BY <1>3, <2>7, <3>4
    <3>7. /\ Len(data'[o]) = Len(data[o]) + 1
          /\ \A i \in 1 .. Len(data[o]) : data'[o][i] = data[o][i]
          /\ data'[o][Len(data[o]) + 1] = k
        BY <1>3, <3>5, <3>6
    <3>8. Held(a + 1, b)'
      <4> SUFFICES ASSUME NEW i \in 1 .. Len(data'[o])
                   PROVE  data'[o][i] = ChunkJob(o, l, ((a + 1) - Len(data'[o])) + i)
          OBVIOUS
      <4>1. (a + 1) - Len(data'[o]) = a - Len(data[o])
          BY <1>3, <3>7
      <4>2. CASE i = Len(data[o]) + 1
        <5>1. (a - Len(data[o])) + i = a + 1
            BY <1>3, <4>2
        <5> QED
            BY <3>5, <3>7, <4>1, <4>2, <5>1
      <4>3. CASE i \in 1 .. Len(data[o])
          BY <1>1, <3>7, <4>1, <4>3
      <4> QED
          BY <1>3, <3>7, <4>2, <4>3
    <3>9. Under(a + 1, b)'
      <4> SUFFICES ASSUME NEW x
                   PROVE  x \in finalize_jobs'[o]
                              <=> \E c \in (a + 1) + 1 .. b : x = ChunkJob(o, l, c)
          OBVIOUS
      <4>1. ASSUME x \in finalize_jobs[o] \ {k}
            PROVE  \E c \in (a + 1) + 1 .. b : x = ChunkJob(o, l, c)
        <5>1. PICK c \in a + 1 .. b : x = ChunkJob(o, l, c)
            BY <1>1, <4>1
        <5>2. c # a + 1
            BY <3>5, <4>1, <5>1
        <5> QED
            BY <5>1, <5>2
      <4>2. ASSUME NEW c \in (a + 1) + 1 .. b, x = ChunkJob(o, l, c)
            PROVE  x \in finalize_jobs[o] \ {k}
        <5>1. c \in a + 1 .. b /\ c # a + 1
            OBVIOUS
        <5>2. x # k
            BY <3>5, <4>2, <5>1 DEF ChunkJob
        <5> QED
            BY <1>1, <4>2, <5>1, <5>2
      <4> QED
          BY <3>6, <4>1, <4>2
    <3>10. Len(data'[o]) <= a + 1
        BY <1>1, <1>3, <3>7
    <3>11. Last'
        BY <1>1, <2>1
    <3>12. Sequel(o, a + 1, b, l)'
      <4>1. a + 1 \in Nat /\ a + 1 <= b
          BY <3>3
      <4> HIDE DEF Held, Under, More, Last
      <4> QED
          BY <1>2, <2>4, <3>8, <3>9, <3>10, <3>11, <4>1
    <3> QED
        BY <1>13, <2>2, <3>3, <3>7, <3>12
  <2> QED
      BY <2>1, <2>5, <2>6, <2>7
<1>14. CASE Load \/ ContinueLoad
  <2>1. UNCHANGED <<events, row_count>>
      BY <1>14, LoadCases
  <2>2. ~BufferSlot
      BY <1>7, <2>1
  <2>3. CASE UNCHANGED <<added, read_job, finalize_jobs>> /\ data' = [u \in Objects |-> <<>>]
      BY <1>5, <2>2, <2>3
  <2>4. ASSUME loads < MaxLoads, NEW wanted \in SUBSET Objects, StartLoads(wanted),
               data'[o] = <<>> \/ data'[o] = data[o], o \in wanted => data'[o] = <<>>
        PROVE  \/ Sequel(o, a, b, l)'
               \/ loads' = loads + 1 /\ \E m \in Nat : m = loads' /\ Sequel(o, 0, 0, m)'
    <3>1. /\ \A u \in wanted : ChunkJob(u, loads + 1, 0) \in ReadJobs \ added
          /\ added' = added \cup {ChunkJob(u, loads + 1, 0) : u \in wanted}
          /\ loads' = loads + 1
          /\ read_job' = [u \in Objects |-> IF u \in wanted THEN ChunkJob(u, loads + 1, 0)
                                            ELSE read_job[u]]
          /\ finalize_jobs' = [u \in Objects |-> IF u \in wanted THEN {} ELSE finalize_jobs[u]]
        BY <2>4, LoadsStart
    <3>2. loads \in Nat
        BY DEF Typed, CountersTyped
    <3>3. CASE o \notin wanted
      <4>1. read_job'[o] = read_job[o] /\ finalize_jobs'[o] = finalize_jobs[o]
          BY <3>1, <3>3
      <4>2. More(b)'
          BY <1>4, <2>2, <4>1
      <4>3. Len(data'[o]) <= a /\ Held(a, b)'
          BY <1>1, <1>3, <2>4
      <4>4. Last'
          BY <1>1, <3>1, <3>3 DEF ChunkJob
      <4> QED
          BY <1>1, <1>2, <4>1, <4>2, <4>3, <4>4
    <3>4. CASE o \in wanted
      <4>1. PICK j : j = ChunkJob(o, loads + 1, 0)
          OBVIOUS
      <4>2. j \in ReadJobs \ added /\ j.load = loads + 1
          BY <3>1, <3>4, <4>1 DEF ChunkJob
      <4>3. read_job'[o] = j /\ finalize_jobs'[o] = {} /\ data'[o] = <<>>
          BY <2>4, <3>1, <3>4, <4>1
      <4>4. row_count[j] = 0
          BY <4>2 DEF Reading
      <4>5. Unread(j, 0)'
        <5>1. \A p \in 1 .. Len(events) : events[p].what = "buffer" => events[p].job # j
            BY <4>2 DEF Queued, JobsInEvents
        <5>2. row_count'[j] = 0 /\ events' = events
            BY <2>1, <4>4
        <5>3. \A n \in 0 + 1 .. row_count'[j] : FALSE
            BY <5>2
        <5> QED
            BY <5>1, <5>2, <5>3 DEF Unread
      <4>6. \A i \in added' : i.load <= loads + 1
        <5>1. \A i \in added : i.load <= loads /\ i.load \in Nat
            BY JobKinds DEF Queued, Typed, LinesTyped
        <5>2. \A u : ChunkJob(u, loads + 1, 0).load = loads + 1
            BY DEF ChunkJob
        <5>3. loads + 1 <= loads + 1 /\ \A x \in Nat : x <= loads => x <= loads + 1
            BY <3>2
        <5> QED
            BY <3>1, <5>1, <5>2, <5>3
      <4>7. PICK m : m = loads + 1
          OBVIOUS
      <4>8. m \in Nat /\ read_job'[o].load = m /\ Unread(read_job[o], 0)'
          BY <3>2, <4>2, <4>3, <4>5, <4>7
      <4>9. \A n \in 0 + 1 .. 0 : FALSE
          OBVIOUS
      <4>10. Sequel(o, 0, 0, m)'
          BY <4>3, <4>6, <4>7, <4>8, <4>9 DEF Sequel
      <4> QED
          BY <3>1, <4>7, <4>8, <4>10
    <3> QED
        BY <3>3, <3>4
  <2>5. \/ UNCHANGED <<added, read_job, finalize_jobs>> /\ data' = [u \in Objects |-> <<>>]
        \/ loads < MaxLoads /\ \E wanted \in SUBSET Objects :
              /\ StartLoads(wanted)
              /\ data'[o] = <<>> \/ data'[o] = data[o]
              /\ o \in wanted => data'[o] = <<>>
      BY <1>14, LoadCases
  <2> QED
      BY <1>14, <2>3, <2>4, <2>5
<1> QED
    BY <1>8, <1>9, <1>10, <1>11, <1>12, <1>13, <1>14, StepCases

(* A finalize job that an object holds after a step: it held it before and *)
(* the job is not the one just reported, or it is the one just added.      *)
LEMMA HeldFinalizeJobs ==
    ASSUME Typed, Queued, Reading, Current, [Next]_vars,
           NEW o \in Objects, NEW k \in finalize_jobs'[o]
    PROVE  \/ k \in finalize_jobs[o] /\ ~(FinalizeDoneSlot /\ events[1] = Done(k))
           \/ /\ BufferSlot /\ events[1].job = read_job[o] /\ read_job[o] \in ReadJobs
              /\ k = ChunkJob(o, read_job[o].load, events[1].chunk)
              /\ k \in FinalizeJobs \ added
              /\ Continues(line["blocking"], line'["blocking"], k)
              /\ Len(line'["blocking"]) = Len(line["blocking"]) + 1
<1>1. finalize_jobs \in [Objects -> SUBSET FinalizeJobs]
    BY DEF Typed, ObjectsTyped
<1>2. ASSUME UNCHANGED finalize_jobs, ~FinalizeDoneSlot
      PROVE  k \in finalize_jobs[o] /\ ~(FinalizeDoneSlot /\ events[1] = Done(k))
    BY <1>2
<1>3. ASSUME UNCHANGED events \/ Len(events') >= Len(events)
      PROVE  ~FinalizeDoneSlot
  <2>1. \A name : ~NextEvent(name)
      BY <1>3, TakeEvent
  <2> QED
      BY <2>1 DEF FinalizeDoneSlot
<1>4. CASE Quiet \/ StopButton \/ \E i \in {"db", "blocking"} : LetGo(i)
    BY <1>2, <1>3, <1>4 DEF Quiet, StopButton, LetGo, objectVars
<1>5. ASSUME NEW i, (i \in {"db", "blocking"} /\ Emit(i)) \/ (i \in ReadJobs /\ ReadEmit(i))
      PROVE  k \in finalize_jobs[o] /\ ~(FinalizeDoneSlot /\ events[1] = Done(k))
  <2>1. UNCHANGED finalize_jobs
      BY <1>5, EmitLeaves DEF ReadEmit, objectVars
  <2>2. UNCHANGED events \/ Len(events') >= Len(events)
      BY <1>5, EmitEvents, BufferEmitted DEF Continues
  <2> QED
      BY <1>2, <1>3, <2>1, <2>2
<1>6. CASE BufferSlot
  <2> DEFINE r == events[1].job
             j == ChunkJob(r.obj, r.load, events[1].chunk)
  <2>1. /\ NextEvent("buffer") /\ r \in ReadJobs
        /\ \/ UNCHANGED finalize_jobs
           \/ /\ r = read_job[r.obj] /\ j \in FinalizeJobs /\ j \notin added
              /\ finalize_jobs' = [finalize_jobs EXCEPT ![r.obj] = @ \cup {j}]
              /\ Continues(line["blocking"], line'["blocking"], j)
              /\ Len(line'["blocking"]) = Len(line["blocking"]) + 1
      BY <1>6, BufferArrives
  <2>2. ~FinalizeDoneSlot
    <3>1. events[1].what = "buffer"
        BY <2>1, TakeEvent
    <3> QED
        BY <3>1, FinalizeEnds, TakeEvent
  <2>3. CASE UNCHANGED finalize_jobs \/ k \in finalize_jobs[o]
      BY <1>2, <2>2, <2>3
  <2>4. CASE k \notin finalize_jobs[o] /\ ~UNCHANGED finalize_jobs
    <3>1. /\ r = read_job[r.obj] /\ j \in FinalizeJobs /\ j \notin added
          /\ finalize_jobs' = [finalize_jobs EXCEPT ![r.obj] = @ \cup {j}]
          /\ Continues(line["blocking"], line'["blocking"], j)
          /\ Len(line'["blocking"]) = Len(line["blocking"]) + 1
        BY <2>1, <2>4
    <3>2. r.obj = o /\ k = j
        BY <1>1, <2>4, <3>1
    <3> QED
        BY <1>6, <2>1, <3>1, <3>2
  <2> QED
      BY <2>3, <2>4
<1>7. CASE ReadDoneSlot
  <2>1. UNCHANGED finalize_jobs /\ events[1].job \in ReadJobs
      BY <1>7, ReadEnds
  <2>2. ~FinalizeDoneSlot
      BY <2>1, FinalizeEnds, JobKinds
  <2> QED
      BY <1>2, <2>1, <2>2
<1>8. CASE FinalizeDoneSlot
  <2> DEFINE j == events[1].job
  <2>1. /\ j \in FinalizeJobs
        /\ \/ j \notin finalize_jobs[j.obj] /\ UNCHANGED finalize_jobs
           \/ finalize_jobs' = [finalize_jobs EXCEPT ![j.obj] = @ \ {j}]
      BY <1>8, FinalizeEnds
  <2>2. j.obj \in Objects
      BY <2>1, JobKinds
  <2>3. k \in finalize_jobs[o] /\ (j = k => o # j.obj)
      BY <1>1, <2>1, <2>2
  <2>4. k.obj = o
      BY <2>3 DEF Current
  <2>5. events[1] # Done(k)
      BY <2>3, <2>4, SignalKinds
  <2> QED
      BY <2>3, <2>5
<1>9. CASE Load \/ ContinueLoad
  <2>1. UNCHANGED events
      BY <1>9, LoadCases
  <2>2. ASSUME loads < MaxLoads, NEW wanted \in SUBSET Objects, StartLoads(wanted)
        PROVE  k \in finalize_jobs[o]
    <3>1. finalize_jobs' = [u \in Objects |-> IF u \in wanted THEN {} ELSE finalize_jobs[u]]
        BY <2>2, LoadsStart
    <3> QED
        BY <3>1
  <2>3. k \in finalize_jobs[o]
      BY <1>9, <2>2, LoadCases
  <2> QED
      BY <1>3, <2>1, <2>3
<1> QED
    BY <1>4, <1>5, <1>6, <1>7, <1>8, <1>9, StepCases

(* The job just added comes after all the others. *)
LEMMA AddedComesLast ==
    ASSUME Typed, Queued, Reading, BufferSlot,
           NEW k \in FinalizeJobs \ added, NEW m \in added,
           Continues(line["blocking"], line'["blocking"], k),
           Len(line'["blocking"]) = Len(line["blocking"]) + 1
    PROVE  Before(m, k)'
<1> DEFINE n == Len(line["blocking"])
<1>1. /\ n \in Nat /\ Len(line'["blocking"]) = n + 1
      /\ \A x \in 1 .. n : line'["blocking"][x] = line["blocking"][x]
      /\ line'["blocking"][n + 1] = k
    BY DEF Continues, Typed, LinesTyped, Manager!Kinds
<1>2. \A x \in 1 .. n : line["blocking"][x] # k
    BY DEF Queued, JobsInLine
<1>3. ASSUME NEW x \in 1 .. Len(line'["blocking"]), NEW y \in 1 .. Len(line'["blocking"]),
             line'["blocking"][x] = m, line'["blocking"][y] = k
      PROVE  x < y
    BY <1>1, <1>2, <1>3
<1>4. ASSUME NEW q \in 1 .. Len(events'), events'[q] = Done(k)
      PROVE  FALSE
  <2>1. NextEvent("buffer") /\ UNCHANGED emitted
      BY BufferArrives
  <2>2. q + 1 \in 1 .. Len(events) /\ events[q + 1] = Done(k)
    <3>1. /\ Len(events) \in Nat \ {0} /\ Len(events') = Len(events) - 1
          /\ events'[q] = events[q + 1]
        BY <1>4, <2>1, TakeEvent
    <3>2. q + 1 \in 1 .. Len(events)
        BY <3>1
    <3> QED
        BY <1>4, <3>1, <3>2
  <2>3. Done(k).what = "done" /\ Done(k).job = k
      BY SignalKinds
  <2>4. k \in emitted
      BY <2>2, <2>3 DEF Queued, JobsInEvents
  <2> QED
      BY <2>4 DEF Typed, LinesTyped
<1> QED
    BY <1>3, <1>4 DEF Before

(* The chunks of an object stay in their order. *)
LEMMA ChainIsKept ==
    ASSUME Typed, Queued, Reading, Current, Chain, InSequence, InOrder, Typed', [Next]_vars
    PROVE  Chain'
<1> SUFFICES ASSUME NEW o \in Objects, NEW m \in finalize_jobs'[o], NEW k \in finalize_jobs'[o],
                    m.chunk < k.chunk
             PROVE  Before(m, k)'
    BY DEF Chain
<1>1. finalize_jobs[o] \subseteq FinalizeJobs
    BY DEF Typed, ObjectsTyped
<1>2. \A i \in finalize_jobs[o] : i \in added \ cancelled /\ Pending(i)
    BY DEF Current
<1>3. CASE m \in finalize_jobs[o] /\ k \in finalize_jobs[o]
  <2>1. ~(FinalizeDoneSlot /\ events[1] = Done(m))
      BY <1>2, <1>3, HeldFinalizeJobs
  <2>2. m # k
    <3>1. m.chunk \in Nat
        BY <1>1, <1>3, JobKinds, ChunksAssumption
    <3> QED
        BY <3>1
  <2>3. Before(m, k)
      BY <1>3 DEF Chain
  <2> QED
      BY <1>1, <1>2, <1>3, <2>1, <2>2, <2>3, BeforeStays
<1>4. CASE m \in finalize_jobs[o] /\ k \notin finalize_jobs[o]
    BY <1>2, <1>4, HeldFinalizeJobs, AddedComesLast
<1>5. ASSUME m \notin finalize_jobs[o]
      PROVE  FALSE
  <2>1. /\ BufferSlot /\ events[1].job = read_job[o] /\ read_job[o] \in ReadJobs
        /\ m = ChunkJob(o, read_job[o].load, events[1].chunk)
      BY <1>5, HeldFinalizeJobs
  <2>2. PICK a \in Nat, b \in Nat, l \in Nat : Sequel(o, a, b, l)
      BY DEF InOrder
  <2>3. Unread(events[1].job, b)
      BY <2>1, <2>2, JobKinds DEF Sequel
  <2>4. m.chunk = b + 1
    <3>1. NextEvent("buffer")
        BY <2>1, BufferArrives
    <3> QED
        BY <2>1, <2>3, <3>1, NextChunkArrives DEF ChunkJob
  <2>5. k.chunk <= b + 1
    <3>1. CASE k \in finalize_jobs[o]
      <4>1. PICK n \in a + 1 .. b : k = ChunkJob(o, l, n)
          BY <2>2, <3>1 DEF Sequel
      <4> QED
          BY <4>1 DEF ChunkJob
    <3>2. CASE k \notin finalize_jobs[o]
      <4>1. k = ChunkJob(o, read_job[o].load, events[1].chunk)
          BY <3>2, HeldFinalizeJobs
      <4> QED
          BY <2>1, <2>4, <4>1
    <3> QED
        BY <3>1, <3>2
  <2>6. k.chunk \in Nat
    <3>1. k \in FinalizeJobs
        BY <1>1, HeldFinalizeJobs
    <3> QED
        BY <3>1, JobKinds, ChunksAssumption
  <2> QED
      BY <2>4, <2>5, <2>6
<1> QED
    BY <1>3, <1>4, <1>5

(* The whole invariant is kept. *)
LEMMA ConsistentIsKept == Consistent /\ [Next]_vars => Consistent'
<1> SUFFICES ASSUME Consistent, [Next]_vars
             PROVE  Consistent'
    OBVIOUS
<1>1. Typed /\ Queued /\ Reading /\ Current /\ Chain /\ InSequence /\ InOrder /\ Front
    BY DEF Consistent
<1>2. Typed' /\ Queued' /\ Reading' /\ Front'
    BY <1>1, TypedIsKept, QueuedIsKept, ReadingIsKept, FrontIsKept
<1>3. Current' /\ InSequence' /\ Chain'
    BY <1>1, <1>2, CurrentIsKept, SequenceIsKept, ChainIsKept
<1>4. ASSUME NEW o \in Objects
      PROVE  \E a, b, l \in Nat : Sequel(o, a, b, l)'
  <2>1. PICK a \in Nat, b \in Nat, l \in Nat : Sequel(o, a, b, l)
      BY <1>1 DEF InOrder
  <2>2. \/ Sequel(o, a, b, l)' \/ Sequel(o, a, b + 1, l)' \/ Sequel(o, a + 1, b, l)'
        \/ \E m \in Nat : Sequel(o, 0, 0, m)'
      BY <1>1, <1>2, <2>1, OrderIsKept
  <2>3. a + 1 \in Nat /\ b + 1 \in Nat /\ 0 \in Nat
      OBVIOUS
  <2> QED
      BY <2>2, <2>3
<1>5. InOrder'
    BY <1>4 DEF InOrder
<1> QED
    BY <1>2, <1>3, <1>5 DEF Consistent

(* The order of the done signals and of the chunks, from the read jobs to  *)
(* the data, is an invariant.                                              *)
THEOREM LoadingIsInOrder == Spec => []Consistent
BY StartIsConsistent, ConsistentIsKept, PTL DEF Spec

(* data_ of an object holds consecutive chunks of its last load, whatever  *)
(* loads and stops cross each other.                                       *)
THEOREM NoChunkOfEarlierLoads == Spec => []DataIsOfLastLoad
<1>1. ASSUME Consistent, NEW o \in Objects, NEW i \in DOMAIN data[o]
      PROVE  /\ data[o][i] = [data[o][1] EXCEPT !.chunk = @ + i - 1]
             /\ data[o][i].obj = o
             /\ \A j \in added : j.obj = o => j.load <= data[o][i].load
  <2>1. PICK a \in Nat, b \in Nat, l \in Nat : Sequel(o, a, b, l)
      BY <1>1 DEF Consistent, InOrder
  <2>2. Len(data[o]) \in Nat /\ DOMAIN data[o] = 1 .. Len(data[o])
      BY <1>1 DEF Consistent, Typed, ObjectsTyped
  <2> DEFINE n == a - Len(data[o])
  <2>3. \A x \in 1 .. Len(data[o]) : data[o][x] = ChunkJob(o, l, n + x)
      BY <2>1 DEF Sequel
  <2>4. n \in Nat /\ i \in 1 .. Len(data[o]) /\ 1 \in 1 .. Len(data[o])
      BY <1>1, <2>1, <2>2 DEF Sequel
  <2> HIDE DEF n
  <2>5. data[o][i] = ChunkJob(o, l, n + i) /\ data[o][1] = ChunkJob(o, l, n + 1)
      BY <2>3, <2>4
  <2>6. (n + 1) + i - 1 = n + i
      BY <2>4
  <2>7. [ChunkJob(o, l, n + 1) EXCEPT !.chunk = @ + i - 1] = ChunkJob(o, l, n + i)
      BY <2>6 DEF ChunkJob
  <2>8. ChunkJob(o, l, n + i).obj = o /\ ChunkJob(o, l, n + i).load = l
      BY DEF ChunkJob
  <2> QED
      BY <2>1, <2>5, <2>7, <2>8 DEF Sequel
<1>2. Consistent => DataIsOfLastLoad
    BY <1>1 DEF DataIsOfLastLoad
<1> QED
    BY <1>2, LoadingIsInOrder, PTL

-----------------------------------------------------------------------------
(* Without the Stop button, and with a load button that is not used while a *)
(* result loads: what else holds.                                          *)

(* Nothing is cancelled, a load is under way exactly while objects load or *)
(* a call of loadSlot waits, and it has been finished once or not yet.     *)
Undisturbed ==
    /\ cancelled = {}
    /\ waiting <= 1
    /\ ~load_in_progress \/ waiting > 0 => \A o \in Objects : ~Loading(o)
    /\ waiting > 0 => load_in_progress /\ \A o \in Objects : data[o] = <<>>
    /\ load_in_progress /\ waiting = 0 => finishes = loads - 1
    /\ ~load_in_progress \/ waiting > 0 => finishes = loads

(* A job is worked on until it is finished, then reported and let go of;   *)
(* the pool has only the first job of the database line.                   *)
OneAtATime ==
    /\ emitted \subseteq finished
    /\ \A j \in added : InLine(j) \/ j \in emitted
    /\ \A x \in 1 .. Len(line["db"]) : step[line["db"][x]] # "new" => x = 1
    /\ \A j \in ReadJobs :
          step[j] \in {"unlock", "finalize", "over"} => row_count[j] = Chunks[j.obj]

(* The object still holds the job. *)
Own(j) == j \in finalize_jobs[j.obj] \/ j = read_job[j.obj]

(* Every job that is at work or reported is held by its object, and the    *)
(* done signal is the last signal of its job.                              *)
UpToDate ==
    /\ \A p \in 1 .. Len(events) : Own(events[p].job)
    /\ \A j \in added \ emitted : Own(j)
    /\ \A p, q \in 1 .. Len(events) :
          p < q /\ events[p].what = "done" => events[q].job # events[p].job

(* The first three and the absence of failures are kept together. *)
Regular == Undisturbed /\ OneAtATime /\ UpToDate /\ Alive

(* They hold at the start. *)
LEMMA StartIsRegular == Init => Regular
<1> SUFFICES ASSUME Init
             PROVE  Regular
    OBVIOUS
<1>1. line = [k \in Manager!Kinds |-> <<>>] /\ added = {} /\ cancelled = {}
      /\ emitted = {} /\ events = <<>>
    BY DEF Init, Manager!Init
<1>2. Undisturbed
  <2>1. waiting = 0 /\ loads = 0 /\ finishes = 0 /\ load_in_progress = FALSE
      BY DEF Init
  <2>2. \A o \in Objects : ~Loading(o)
      BY DEF Init, Loading
  <2>3. ~(waiting > 0) /\ waiting <= 1
      BY <2>1
  <2> QED
      BY <1>1, <2>1, <2>2, <2>3 DEF Undisturbed
<1>3. OneAtATime
  <2>1. line["db"] = <<>>
      BY <1>1 DEF Manager!Kinds
  <2>2. \A j \in ReadJobs : step[j] = "new"
      BY DEF Init
  <2> QED
      BY <1>1, <2>1, <2>2 DEF OneAtATime
<1>4. UpToDate
    BY <1>1 DEF UpToDate
<1> QED
    BY <1>2, <1>3, <1>4 DEF Regular, Alive, Init

(* The Stop button is not there. *)
LEMMA NoStop ==
    ASSUME MaxStops = 0, Typed
    PROVE  ~StopButton
BY DEF StopButton, Typed, CountersTyped

(* While no object loads, no signal is under way and every job was         *)
(* reported.                                                               *)
LEMMA NothingUnderWay ==
    ASSUME Typed, UpToDate, \A o \in Objects : ~Loading(o)
    PROVE  Len(events) = 0 /\ added \subseteq emitted
<1>1. ASSUME NEW j \in Jobs
      PROVE  ~Own(j)
  <2>1. j.obj \in Objects /\ j # None
      BY JobKinds
  <2>2. read_job[j.obj] = None /\ finalize_jobs[j.obj] = {}
      BY <2>1 DEF Loading
  <2> QED
      BY <2>1, <2>2 DEF Own
<1>2. added \subseteq emitted
    BY <1>1 DEF UpToDate, Typed, LinesTyped
<1>3. \A p \in 1 .. Len(events) : FALSE
  <2> SUFFICES ASSUME NEW p \in 1 .. Len(events)
               PROVE  FALSE
      OBVIOUS
  <2>1. events[p].job \in Jobs
      BY EventKinds, JobKinds
  <2> QED
      BY <1>1, <2>1 DEF UpToDate
<1>4. Len(events) \in Nat
    BY EventKinds
<1> QED
    BY <1>2, <1>3, <1>4

(* What a call of loadSlot and the end of its wait do when nothing is      *)
(* under way.                                                              *)
LEMMA SteadyLoad ==
    ASSUME Typed, Queued, Undisturbed, UpToDate, Results # "always", Load \/ ContinueLoad
    PROVE  /\ \A o \in Objects : ~Loading(o)
           /\ Len(events) = 0 /\ added \subseteq emitted
           /\ UNCHANGED <<emitted, step, row_count, mutex, prepared_command, events, finished,
                          aborted, cancelled>>
           /\ finishes = loads
           /\ \A o \in Objects :
                 /\ data'[o] = <<>> /\ finalize_jobs'[o] = {}
                 /\ announced'[o] = 0 \/ (announced'[o] = announced[o] /\ data[o] = <<>>)
           /\ \/ /\ waiting' = 1 /\ load_in_progress'
                 /\ UNCHANGED <<line, added, read_job, finalize_jobs, loads, finishes>>
              \/ /\ waiting' = 0
                 /\ \E wanted \in SUBSET Objects :
                       /\ StartLoads(wanted) /\ loads < MaxLoads
                       /\ IF wanted = {} THEN ~load_in_progress' /\ finishes' = finishes + 1
                                         ELSE load_in_progress' /\ finishes' = finishes
<1>1. waiting \in Nat /\ loads \in Nat /\ finishes \in Nat /\ loads + waiting <= MaxLoads
    BY DEF Typed, CountersTyped
<1>2. Load => ~load_in_progress /\ waiting = 0
    BY <1>1 DEF Load, Free, Undisturbed
<1>3. ContinueLoad => waiting = 1
    BY <1>1 DEF ContinueLoad, Undisturbed
<1>4. \A o \in Objects : ~Loading(o)
    BY <1>2, <1>3 DEF Undisturbed
<1>5. Len(events) = 0 /\ added \subseteq emitted
    BY <1>4, NothingUnderWay
<1>6. finishes = loads
    BY <1>1, <1>2, <1>3 DEF Undisturbed
<1>7. UNCHANGED <<emitted, step, row_count, mutex, prepared_command, events>>
    BY LoadCases
<1>8. ASSUME NEW wanted \in SUBSET Objects, StartLoads(wanted)
      PROVE  /\ cancelled' = cancelled
             /\ finished' = finished
             /\ \A o \in Objects : finalize_jobs'[o] = {}
  <2>1. \A o \in Objects : read_job[o] = None /\ finalize_jobs[o] = {}
      BY <1>4 DEF Loading
  <2>2. finalize_jobs' = [o \in Objects |-> IF o \in wanted THEN {} ELSE finalize_jobs[o]]
        /\ finished' = finished
      BY <1>8 DEF StartLoads
  <2>3. UNION {({read_job[o]} \cup finalize_jobs[o]) \ {None} : o \in wanted} = {}
      BY <2>1
  <2>4. cancelled' = cancelled
      BY <1>8, <2>3 DEF StartLoads
  <2> QED
      BY <2>1, <2>2, <2>4
<1>9. CASE Load
  <2>1. PICK label \in {"Load", "Stop", "disabled"} : LoadSlot(label)
      BY <1>9 DEF Load
  <2>2. /\ loads + waiting < MaxLoads
        /\ data' = [o \in Objects |-> <<>>] /\ announced' = [o \in Objects |-> 0]
        /\ aborted' = aborted
      BY <2>1 DEF LoadSlot
  <2>3. CASE /\ waiting' = waiting + 1
             /\ load_in_progress' = TRUE
             /\ UNCHANGED <<managerVars, read_job, finalize_jobs, loads, finishes>>
    <3>1. waiting' = 1 /\ load_in_progress'
        BY <1>2, <1>9, <2>3
    <3>2. UNCHANGED <<line, added, finished, cancelled, read_job, finalize_jobs, loads, finishes>>
        BY <2>3 DEF managerVars
    <3>3. \A o \in Objects : data'[o] = <<>> /\ finalize_jobs'[o] = {} /\ announced'[o] = 0
        BY <1>4, <2>2, <3>2 DEF Loading
    <3> QED
        BY <1>4, <1>5, <1>6, <1>7, <2>2, <3>1, <3>2, <3>3
  <2>4. CASE /\ waiting' = waiting
             /\ \E wanted \in SUBSET Objects :
                /\ StartLoads(wanted)
                /\ IF wanted = {}
                   THEN button' = "Load" /\ finishes' = finishes + 1
                        /\ load_in_progress' = FALSE /\ UNCHANGED cursor
                   ELSE button' = label /\ UNCHANGED finishes
                        /\ load_in_progress' = TRUE /\ cursor' = cursor + 1
    <3>1. PICK wanted \in SUBSET Objects :
                /\ StartLoads(wanted)
                /\ IF wanted = {} THEN ~load_in_progress' /\ finishes' = finishes + 1
                                  ELSE load_in_progress' /\ finishes' = finishes
        BY <2>4
    <3>2. waiting' = 0 /\ loads < MaxLoads
        BY <1>1, <1>2, <1>9, <2>2, <2>4
    <3>3. \A o \in Objects : data'[o] = <<>> /\ finalize_jobs'[o] = {} /\ announced'[o] = 0
        BY <1>8, <2>2, <3>1
    <3> QED
        BY <1>4, <1>5, <1>6, <1>7, <1>8, <2>2, <3>1, <3>2, <3>3
  <2> QED
      BY <2>1, <2>3, <2>4 DEF LoadSlot
<1>10. CASE ContinueLoad
  <2>1. PICK wanted \in SUBSET Objects :
          /\ StartLoads(wanted)
          /\ IF wanted = {} THEN FinishLoading ELSE UNCHANGED frontVars
          /\ data' = [o \in Objects |-> IF o \in wanted THEN <<>> ELSE data[o]]
          /\ announced' = [o \in Objects |-> IF o \in wanted THEN 0 ELSE announced[o]]
      BY <1>10 DEF ContinueLoad
  <2>2. waiting' = 0 /\ loads < MaxLoads
    <3>1. waiting = 1 /\ waiting' = waiting - 1
        BY <1>3, <1>10 DEF ContinueLoad
    <3> QED
        BY <1>1, <3>1, BoundsAssumption
  <2>3. aborted' = aborted
      BY <1>10 DEF ContinueLoad
  <2>4. load_in_progress /\ \A o \in Objects : data[o] = <<>>
      BY <1>3, <1>10 DEF Undisturbed
  <2>5. IF wanted = {} THEN ~load_in_progress' /\ finishes' = finishes + 1
                       ELSE load_in_progress' /\ finishes' = finishes
      BY <2>1, <2>4 DEF FinishLoading, frontVars
  <2>6. \A o \in Objects : /\ data'[o] = <<>> /\ finalize_jobs'[o] = {}
                           /\ announced'[o] = 0 \/ (announced'[o] = announced[o] /\ data[o] = <<>>)
      BY <1>8, <2>1, <2>4
  <2> QED
      BY <1>4, <1>5, <1>6, <1>7, <1>8, <2>1, <2>2, <2>3, <2>5, <2>6
<1> QED
    BY <1>9, <1>10

(* The front of the events is a signal of a job that its object holds. *)
LEMMA SignalIsOwned ==
    ASSUME Typed, UpToDate, NEW name, NextEvent(name)
    PROVE  LET j == events[1].job IN
           /\ j \in Jobs /\ Loading(j.obj)
           /\ j \in ReadJobs => read_job[j.obj] = j
           /\ j \in FinalizeJobs => j \in finalize_jobs[j.obj]
<1> DEFINE j == events[1].job
<1>1. 1 \in 1 .. Len(events)
    BY TakeEvent
<1>2. Own(j) /\ j \in Jobs
    BY <1>1, EventKinds, JobKinds DEF UpToDate
<1>3. j.obj \in Objects /\ j # None
    BY <1>2, JobKinds
<1>4. finalize_jobs[j.obj] \subseteq FinalizeJobs /\ read_job[j.obj] \in ReadJobs \cup {None}
    BY <1>3 DEF Typed, ObjectsTyped
<1>5. Loading(j.obj)
    BY <1>2, <1>3 DEF Own, Loading
<1>6. /\ j \in ReadJobs => read_job[j.obj] = j
      /\ j \in FinalizeJobs => j \in finalize_jobs[j.obj]
    BY <1>2, <1>3, <1>4, JobKinds DEF Own
<1> QED
    BY <1>2, <1>5, <1>6

(* So it is one of the load that is under way.                             *)
LEMMA SignalOfTheLoad ==
    ASSUME Typed, Undisturbed, UpToDate, NEW name, NextEvent(name)
    PROVE  LET j == events[1].job IN
           /\ load_in_progress /\ waiting = 0
           /\ j \in Jobs
           /\ j \in ReadJobs => read_job[j.obj] = j
           /\ j \in FinalizeJobs => j \in finalize_jobs[j.obj]
<1> DEFINE j == events[1].job
<1>1. j \in Jobs /\ Loading(j.obj)
    BY SignalIsOwned
<1>2. j.obj \in Objects
    BY <1>1, JobKinds
<1>3. load_in_progress /\ waiting = 0
    BY <1>1, <1>2 DEF Undisturbed, Typed, CountersTyped
<1> QED
    BY <1>1, <1>3, SignalIsOwned

(* A load that cancels nothing is one of objects that do not load.         *)
LEMMA FreshLoad ==
    ASSUME Typed, Queued, Load \/ ContinueLoad, cancelled' = {}
    PROVE  /\ UNCHANGED <<emitted, step, row_count, events, finished, aborted>>
           /\ \/ UNCHANGED <<line, added, read_job, finalize_jobs>>
              \/ \E wanted \in SUBSET Objects :
                    StartLoads(wanted) /\ loads < MaxLoads /\ \A o \in wanted : ~Loading(o)
<1>1. /\ UNCHANGED <<emitted, step, row_count, events>>
      /\ \/ UNCHANGED <<line, added, finished, read_job, finalize_jobs>>
         \/ loads < MaxLoads /\ \E wanted \in SUBSET Objects : StartLoads(wanted)
    BY LoadCases
<1>2. aborted' = aborted
    BY DEF Load, LoadSlot, ContinueLoad
<1>3. ASSUME NEW wanted \in SUBSET Objects, StartLoads(wanted)
      PROVE  finished' = finished /\ \A o \in wanted : ~Loading(o)
  <2>1. /\ finished' = finished
        /\ UNION {({read_job[o]} \cup finalize_jobs[o]) \ {None} : o \in wanted} = {}
      BY <1>3 DEF StartLoads
  <2>2. \A o \in Objects : None \notin finalize_jobs[o]
      BY JobKinds, NoneAssumption DEF Typed, ObjectsTyped
  <2>3. \A o \in wanted : ({read_job[o]} \cup finalize_jobs[o]) \ {None} = {}
      BY <2>1
  <2>4. \A o \in wanted : read_job[o] = None /\ finalize_jobs[o] = {}
      BY <2>2, <2>3
  <2> QED
      BY <2>1, <2>4 DEF Loading
<1> QED
    BY <1>1, <1>2, <1>3

(* Undisturbed is kept by every step. *)
LEMMA UndisturbedIsKept ==
    ASSUME MaxStops = 0, Results # "always",
           Typed, Queued, Reading, Undisturbed, UpToDate, [Next]_vars
    PROVE  Undisturbed'
<1>1. /\ waiting \in Nat /\ loads \in Nat /\ finishes \in Nat
    BY DEF Typed, CountersTyped
<1>2. ASSUME UNCHANGED <<cancelled, waiting, load_in_progress, read_job, finalize_jobs, data,
                         finishes, loads>>
      PROVE  Undisturbed'
    BY <1>2 DEF Undisturbed, Loading
<1>3. CASE \/ \E k \in {"db", "blocking"} : Emit(k) \/ LetGo(k)
           \/ \E j \in ReadJobs : ReadEmit(j)
           \/ Quiet
  <2>1. UNCHANGED <<cancelled, objectVars, frontVars, userVars>>
      BY <1>3, EmitLeaves DEF LetGo, Manager!Leave, ReadEmit, Quiet, managerVars,
                               objectVars, frontVars, userVars
  <2> QED
      BY <2>1, <1>2 DEF objectVars, frontVars, userVars
<1>4. ASSUME load_in_progress, waiting = 0,
             UNCHANGED <<cancelled, waiting, loads>>,
             \/ UNCHANGED frontVars
             \/ FinishLoading /\ \A o \in Objects : ~StillLoading(o)
      PROVE  Undisturbed'
  <2>1. cancelled = {} /\ finishes = loads - 1
      BY <1>4 DEF Undisturbed
  <2>2. CASE UNCHANGED frontVars
    <3>1. load_in_progress' /\ waiting' = 0 /\ finishes' = loads' - 1 /\ cancelled' = {}
        BY <1>4, <2>1, <2>2 DEF frontVars
    <3> QED
        BY <3>1 DEF Undisturbed
  <2>3. CASE FinishLoading /\ \A o \in Objects : ~StillLoading(o)
    <3>1. ~load_in_progress' /\ waiting' = 0 /\ cancelled' = {}
        BY <1>4, <2>1, <2>3 DEF FinishLoading
    <3>2. finishes' = loads'
        BY <1>1, <1>4, <2>1, <2>3 DEF FinishLoading
    <3>3. \A o \in Objects : ~Loading(o)'
        BY <2>3 DEF StillLoading, Loading
    <3> QED
        BY <3>1, <3>2, <3>3 DEF Undisturbed
  <2> QED
      BY <1>4, <2>2, <2>3
<1>5. CASE BufferSlot
  <2>1. /\ NextEvent("buffer")
        /\ UNCHANGED <<waiting, loads, load_in_progress, button, cursor, finishes, cancelled>>
      BY <1>5, BufferArrives
  <2>2. load_in_progress /\ waiting = 0
      BY <2>1, SignalOfTheLoad
  <2> QED
      BY <2>1, <2>2, <1>4 DEF frontVars
<1>6. CASE ReadDoneSlot
  <2>1. /\ NextEvent("done") /\ UNCHANGED <<waiting, loads, cancelled>>
        /\ \/ UNCHANGED frontVars
           \/ FinishLoading /\ \A o \in Objects : ~StillLoading(o)
      BY <1>6, ReadEnds
  <2>2. load_in_progress /\ waiting = 0
      BY <2>1, SignalOfTheLoad
  <2> QED
      BY <2>1, <2>2, <1>4
<1>7. CASE FinalizeDoneSlot
  <2>1. /\ NextEvent("done") /\ UNCHANGED <<waiting, loads, cancelled>>
        /\ \/ UNCHANGED frontVars
           \/ FinishLoading /\ \A o \in Objects : ~StillLoading(o)
      BY <1>7, FinalizeEnds DEF frontVars
  <2>2. load_in_progress /\ waiting = 0
      BY <2>1, SignalOfTheLoad
  <2> QED
      BY <2>1, <2>2, <1>4
<1>8. CASE Load \/ ContinueLoad
  <2>1. /\ \A o \in Objects : ~Loading(o)
        /\ cancelled' = cancelled /\ finishes = loads
        /\ \A o \in Objects : data'[o] = <<>> /\ finalize_jobs'[o] = {}
        /\ \/ /\ waiting' = 1 /\ load_in_progress'
              /\ UNCHANGED <<read_job, finalize_jobs, loads, finishes>>
           \/ /\ waiting' = 0
              /\ \E wanted \in SUBSET Objects :
                    /\ StartLoads(wanted)
                    /\ IF wanted = {} THEN ~load_in_progress' /\ finishes' = finishes + 1
                                      ELSE load_in_progress' /\ finishes' = finishes
      BY <1>8, SteadyLoad
  <2>2. cancelled' = {}
      BY <2>1 DEF Undisturbed
  <2>3. CASE /\ waiting' = 1 /\ load_in_progress'
             /\ UNCHANGED <<read_job, finalize_jobs, loads, finishes>>
    <3>1. \A o \in Objects : ~Loading(o)'
        BY <2>1, <2>3 DEF Loading
    <3>2. finishes' = loads' /\ waiting' > 0 /\ waiting' <= 1 /\ waiting' # 0
        BY <2>1, <2>3
    <3> QED
        BY <2>1, <2>2, <2>3, <3>1, <3>2 DEF Undisturbed
  <2>4. ASSUME waiting' = 0, NEW wanted \in SUBSET Objects, StartLoads(wanted),
               IF wanted = {} THEN ~load_in_progress' /\ finishes' = finishes + 1
                              ELSE load_in_progress' /\ finishes' = finishes
        PROVE  Undisturbed'
    <3>1. loads' = loads + 1 /\ ~(waiting' > 0) /\ waiting' <= 1
        BY <2>4 DEF StartLoads
    <3>2. CASE wanted = {}
      <4>1. ~load_in_progress' /\ finishes' = loads'
          BY <2>1, <2>4, <3>1, <3>2
      <4>2. \A o \in Objects : read_job'[o] = read_job[o]
          BY <2>4, <3>2 DEF StartLoads
      <4>3. \A o \in Objects : ~Loading(o)'
          BY <2>1, <4>2 DEF Loading
      <4> QED
          BY <2>2, <3>1, <4>1, <4>3 DEF Undisturbed
    <3>3. CASE wanted # {}
      <4>1. load_in_progress' /\ finishes' = loads' - 1
          BY <1>1, <2>1, <2>4, <3>1, <3>3
      <4> QED
          BY <2>2, <2>4, <3>1, <4>1 DEF Undisturbed
    <3> QED
        BY <3>2, <3>3
  <2> QED
      BY <2>1, <2>3, <2>4
<1> QED
    BY <1>3, <1>5, <1>6, <1>7, <1>8, StepCases, NoStop

(* Only the first job of the database line is at work. *)
LEMMA AtWork ==
    ASSUME Typed, Queued, Reading, OneAtATime, NEW j \in ReadJobs, step[j] \notin {"new", "over"}
    PROVE  /\ j \in added \ emitted /\ j \notin finished
           /\ Len(line["db"]) \in Nat \ {0} /\ line["db"][1] = j
<1>1. j \in added /\ j \notin finished
    BY DEF Reading
<1>2. j \notin emitted
    BY <1>1 DEF OneAtATime
<1>3. InLine(j) /\ j \in Jobs /\ KindOf[j] = "db"
    BY <1>1, <1>2, JobKinds DEF OneAtATime
<1>4. Len(line["db"]) \in Nat /\ \E x \in 1 .. Len(line["db"]) : line["db"][x] = j
    BY <1>3, PlaceInLine DEF Typed, LinesTyped, InLine
<1>5. line["db"][1] = j /\ Len(line["db"]) # 0
    BY <1>4 DEF OneAtATime
<1> QED
    BY <1>1, <1>2, <1>4, <1>5

(* A read job that starts is the first of its line. *)
LEMMA FirstStarts ==
    ASSUME Typed, Queued, Reading, OneAtATime, NEW j \in ReadJobs, Started(j), step[j] = "new"
    PROVE  \A x \in 1 .. Len(line["db"]) : line["db"][x] = j => x = 1
<1>1. j \in added /\ j \notin finished
    BY DEF Started, Reading
<1>2. InLine(j) /\ j \in Jobs /\ KindOf[j] = "db"
    BY <1>1, JobKinds DEF OneAtATime
<1>3. line["db"] \in Seq(Jobs)
    BY DEF Typed, LinesTyped, Manager!Kinds
<1>4. Len(line["db"]) \in Nat /\ \E x \in 1 .. Len(line["db"]) : line["db"][x] = j
    BY <1>2, PlaceInLine DEF Typed, LinesTyped, InLine
<1>5. line["db"] # <<>> /\ 1 \in 1 .. Len(line["db"])
    BY <1>3, <1>4
<1>6. Head(line["db"]) = line["db"][1]
    BY <1>3, <1>5, TailShifts
<1>7. line["db"][1] = j
    BY <1>2, <1>6 DEF Started
<1> QED
    BY <1>5, <1>7 DEF Queued, JobsInLine

(* OneAtATime is kept by every step. *)
LEMMA OneAtATimeIsKept ==
    ASSUME Typed, Queued, Reading, OneAtATime, UpToDate, Typed', [Next]_vars,
           cancelled = {}, cancelled' = {}
    PROVE  OneAtATime'
<1>1. /\ emitted \subseteq finished
      /\ \A j \in added : InLine(j) \/ j \in emitted
      /\ \A x \in 1 .. Len(line["db"]) : step[line["db"][x]] # "new" => x = 1
      /\ \A j \in ReadJobs :
            step[j] \in {"unlock", "finalize", "over"} => row_count[j] = Chunks[j.obj]
    BY DEF OneAtATime
<1>2. /\ added \subseteq Jobs /\ cancelled = {}
      /\ line \in [Manager!Kinds -> Seq(Jobs)] /\ line' \in [Manager!Kinds -> Seq(Jobs)]
      /\ step \in [ReadJobs -> Steps] /\ row_count \in [ReadJobs -> Nat]
      /\ {"db", "blocking"} \subseteq Manager!Kinds
    BY DEF Typed, LinesTyped, ReadersTyped, Manager!Kinds
<1>3. \A x \in 1 .. Len(line["db"]) : line["db"][x] \in ReadJobs \cap added
  <2>1. \A x \in 1 .. Len(line["db"]) :
            line["db"][x] \in added /\ KindOf[line["db"][x]] = "db"
      BY DEF Queued, JobsInLine
  <2>2. \A i \in added : KindOf[i] = "db" => i \in ReadJobs
      BY <1>2, JobKinds
  <2> QED
      BY <2>1, <2>2
<1>4. ASSUME UNCHANGED <<line, added, emitted, step, row_count>>, finished \subseteq finished'
      PROVE  OneAtATime'
    BY <1>1, <1>4 DEF OneAtATime, InLine
<1>5. ASSUME NEW j \in ReadJobs, NEW v,
             step' = [step EXCEPT ![j] = v],
             UNCHANGED <<line, added, emitted>>, finished \subseteq finished',
             \/ step[j] # "new"
             \/ \A x \in 1 .. Len(line["db"]) : line["db"][x] = j => x = 1,
             v \in {"unlock", "finalize", "over"} => row_count'[j] = Chunks[j.obj],
             \A i \in ReadJobs \ {j} : row_count'[i] = row_count[i]
      PROVE  OneAtATime'
  <2>1. \A x \in 1 .. Len(line["db"]) : step'[line["db"][x]] # "new" => x = 1
      BY <1>1, <1>2, <1>3, <1>5
  <2>2. \A i \in ReadJobs :
            step'[i] \in {"unlock", "finalize", "over"} => row_count'[i] = Chunks[i.obj]
      BY <1>1, <1>2, <1>5
  <2>3. \A i \in added : InLine(i)' \/ i \in emitted
      BY <1>1, <1>5 DEF InLine
  <2> QED
      BY <1>1, <1>5, <2>1, <2>2, <2>3 DEF OneAtATime
<1>6. ASSUME NEW j \in ReadJobs, Read(j)
      PROVE  OneAtATime'
  <2>1. CASE ReadObsolete(j)
      BY <1>2, <2>1 DEF ReadObsolete
  <2>2. CASE ReadStart(j)
    <3>1. /\ Started(j) /\ step[j] = "new" /\ step' = [step EXCEPT ![j] = "prepare"]
          /\ UNCHANGED <<line, added, finished, emitted, row_count>>
        BY <2>2 DEF ReadStart, To, managerVars
    <3>2. \A x \in 1 .. Len(line["db"]) : line["db"][x] = j => x = 1
        BY <3>1, FirstStarts
    <3> QED
        BY <1>5, <3>1, <3>2
  <2>3. CASE ReadPrepare(j)
    <3>1. /\ step[j] # "new" /\ step' = [step EXCEPT ![j] = "read"]
          /\ UNCHANGED <<line, added, finished, emitted, row_count>>
        BY <2>3 DEF ReadPrepare, To, managerVars
    <3> QED
        BY <1>5, <3>1
  <2>4. CASE ReadChunk(j)
    <3>1. /\ step[j] # "new" /\ step' = [step EXCEPT ![j] = "emit"]
          /\ UNCHANGED <<line, added, finished, emitted, row_count>>
        BY <1>2, <2>4 DEF ReadChunk, To, managerVars
    <3> QED
        BY <1>5, <3>1
  <2>5. CASE ReadEmit(j)
    <3>1. /\ step[j] # "new"
          /\ step' = [step EXCEPT ![j] = IF row_count[j] + 1 = Chunks[j.obj]
                                         THEN "unlock" ELSE "read"]
          /\ row_count' = [row_count EXCEPT ![j] = row_count[j] + 1]
        BY <2>5, BufferEmitted
    <3>2. UNCHANGED <<line, added, finished, emitted>>
        BY <2>5 DEF ReadEmit, managerVars
    <3>3. row_count'[j] = row_count[j] + 1 /\ \A i \in ReadJobs \ {j} : row_count'[i] = row_count[i]
        BY <1>2, <3>1
    <3>4. CASE row_count[j] + 1 = Chunks[j.obj]
        BY <1>5, <3>1, <3>2, <3>3, <3>4
    <3>5. CASE row_count[j] + 1 # Chunks[j.obj]
        BY <1>5, <3>1, <3>2, <3>3, <3>5
    <3> QED
        BY <3>4, <3>5
  <2>6. CASE ReadUnlock(j)
    <3>1. /\ step[j] = "unlock" /\ step' = [step EXCEPT ![j] = "finalize"]
          /\ UNCHANGED <<line, added, finished, emitted, row_count>>
        BY <2>6 DEF ReadUnlock, To, managerVars
    <3>2. row_count[j] = Chunks[j.obj]
        BY <1>1, <3>1
    <3> QED
        BY <1>5, <3>1, <3>2
  <2>7. CASE ReadEnd(j)
    <3>1. /\ step[j] = "finalize" /\ step' = [step EXCEPT ![j] = "over"]
          /\ UNCHANGED <<line, added, emitted, row_count>> /\ finished \subseteq finished'
        BY <2>7 DEF ReadEnd, To, Manager!Finish
    <3>2. row_count[j] = Chunks[j.obj]
        BY <1>1, <3>1
    <3> QED
        BY <1>5, <3>1, <3>2
  <2> QED
      BY <1>6, <2>1, <2>2, <2>3, <2>4, <2>5, <2>6, <2>7 DEF Read
<1>7. ASSUME NEW j, Finalize(j) \/ RunDestroyed(j) \/ UNCHANGED vars
      PROVE  OneAtATime'
  <2>1. UNCHANGED <<line, added, emitted, step, row_count>> /\ finished \subseteq finished'
      BY <1>7 DEF Finalize, RunDestroyed, Manager!Finish, vars, managerVars, readerVars
  <2> QED
      BY <1>4, <2>1
<1>8. CASE ReadDoneSlot \/ FinalizeDoneSlot
  <2>1. UNCHANGED <<line, added, finished, emitted, step, row_count>>
      BY <1>8, ReadEnds, FinalizeEnds
  <2> QED
      BY <1>4, <2>1
<1>9. ASSUME NEW k \in {"db", "blocking"}, Emit(k)
      PROVE  OneAtATime'
  <2>1. UNCHANGED <<line, added, finished, step, row_count>>
      BY <1>9, EmitLeaves DEF managerVars, readerVars
  <2>2. PICK j : j \in finished /\ emitted' = emitted \cup {j}
      BY <1>2, <1>9, EmitEvents
  <2>3. emitted' \subseteq finished' /\ emitted \subseteq emitted'
      BY <1>1, <2>1, <2>2
  <2>4. \A i \in added' : InLine(i)' \/ i \in emitted'
      BY <1>1, <2>1, <2>3 DEF InLine
  <2> QED
      BY <1>1, <2>1, <2>3, <2>4 DEF OneAtATime
<1>10. ASSUME NEW k \in {"db", "blocking"}, LetGo(k)
       PROVE  OneAtATime'
  <2>1. /\ Len(line[k]) \in Nat \ {0} /\ line[k][1] \in emitted
        /\ \A i \in Manager!Kinds \ {k} : line'[i] = line[i]
        /\ Len(line'[k]) = Len(line[k]) - 1
        /\ \A x \in 1 .. Len(line'[k]) : line'[k][x] = line[k][x + 1]
        /\ UNCHANGED <<added, finished>>
      BY <1>10, LineShifts
  <2>2. UNCHANGED <<emitted, step, row_count>>
      BY <1>10 DEF LetGo, readerVars
  <2>3. ASSUME NEW j \in added, j \notin emitted
        PROVE  InLine(j)'
    <3>1. j \in Jobs /\ InLine(j)
        BY <1>1, <1>2, <2>3
    <3>2. PICK i : i = KindOf[j]
        OBVIOUS
    <3>3. i \in {"db", "blocking"} /\ \E x \in 1 .. Len(line[i]) : line[i][x] = j
        BY <1>2, <3>1, <3>2, PlaceInLine DEF InLine
    <3>4. \E x \in 1 .. Len(line'[i]) : line'[i][x] = j
      <4>1. CASE i # k
          BY <1>2, <2>1, <3>3, <4>1
      <4>2. CASE i = k
        <5>1. PICK x \in 1 .. Len(line[k]) : line[k][x] = j
            BY <3>3, <4>2
        <5>2. x # 1
            BY <2>1, <2>3, <5>1
        <5>3. x - 1 \in 1 .. Len(line'[k]) /\ (x - 1) + 1 = x
            BY <2>1, <5>2
        <5> QED
            BY <2>1, <4>2, <5>1, <5>3
      <4> QED
          BY <4>1, <4>2
    <3>5. j \in Range(line'[KindOf[j]])
        BY <1>2, <3>1, <3>2, <3>4, PlaceInLine
    <3> QED
        BY <3>5 DEF InLine
  <2>4. ASSUME NEW x \in 1 .. Len(line'["db"]), step'[line'["db"][x]] # "new"
        PROVE  x = 1
    <3>1. CASE k # "db"
      <4>1. line'["db"] = line["db"]
          BY <1>2, <2>1, <3>1
      <4> QED
          BY <1>1, <2>2, <2>4, <4>1
    <3>2. CASE k = "db"
      <4>1. x + 1 \in 1 .. Len(line["db"]) /\ line'["db"][x] = line["db"][x + 1]
          BY <2>1, <2>4, <3>2
      <4>2. x + 1 = 1
          BY <1>1, <2>2, <2>4, <4>1
      <4> QED
          BY <4>2
    <3> QED
        BY <3>1, <3>2
  <2> QED
      BY <1>1, <2>1, <2>2, <2>3, <2>4 DEF OneAtATime
<1>11. CASE BufferSlot
  <2> DEFINE j == ChunkJob(events[1].job.obj, events[1].job.load, events[1].chunk)
  <2>1. /\ UNCHANGED <<emitted, step, row_count, finished>>
        /\ \/ UNCHANGED <<line, added>>
           \/ /\ j \in FinalizeJobs
              /\ added' = added \cup {j}
              /\ line'["db"] = line["db"]
              /\ Continues(line["blocking"], line'["blocking"], j)
      BY <1>11, BufferArrives
  <2> HIDE DEF j
  <2>2. CASE UNCHANGED <<line, added>>
      BY <1>4, <2>1, <2>2
  <2>3. CASE /\ j \in FinalizeJobs /\ added' = added \cup {j}
             /\ line'["db"] = line["db"]
             /\ Continues(line["blocking"], line'["blocking"], j)
    <3>1. ASSUME NEW i \in added
          PROVE  i \in Range(line'[KindOf[i]]) \/ i \in emitted
      <4> SUFFICES ASSUME i \notin emitted
                   PROVE  i \in Range(line'[KindOf[i]])
          OBVIOUS
      <4>1. i \in Jobs /\ InLine(i)
          BY <1>1, <1>2
      <4>2. PICK h : h = KindOf[i]
          OBVIOUS
      <4>3. h \in {"db", "blocking"} /\ \E x \in 1 .. Len(line[h]) : line[h][x] = i
          BY <1>2, <4>1, <4>2, PlaceInLine DEF InLine
      <4>4. \E x \in 1 .. Len(line'[h]) : line'[h][x] = i
        <5>1. CASE h = "db"
            BY <2>3, <4>3, <5>1
        <5>2. CASE h = "blocking"
          <6>1. PICK x \in 1 .. Len(line["blocking"]) : line["blocking"][x] = i
              BY <4>3, <5>2
          <6>2. /\ Len(line["blocking"]) <= Len(line'["blocking"])
                /\ line'["blocking"][x] = i
              BY <2>3, <6>1 DEF Continues
          <6>3. Len(line["blocking"]) \in Nat /\ Len(line'["blocking"]) \in Nat
              BY <1>2
          <6>4. x \in 1 .. Len(line'["blocking"])
              BY <6>2, <6>3
          <6> QED
              BY <5>2, <6>2, <6>4
        <5> QED
            BY <4>3, <5>1, <5>2
      <4> QED
          BY <1>2, <4>1, <4>2, <4>4, PlaceInLine
    <3>2. j \in Range(line'[KindOf[j]])
      <4>1. KindOf[j] = "blocking" /\ j \in Jobs
          BY <2>3, JobKinds
      <4>2. /\ Len(line["blocking"]) \in Nat /\ Len(line'["blocking"]) \in Nat
            /\ Len(line'["blocking"]) > Len(line["blocking"])
          BY <1>2, <2>3 DEF Continues
      <4>3. Len(line'["blocking"]) \in 1 .. Len(line'["blocking"])
            /\ Len(line'["blocking"]) \in Len(line["blocking"]) + 1 .. Len(line'["blocking"])
          BY <4>2
      <4>4. line'["blocking"][Len(line'["blocking"])] = j
          BY <2>3, <4>3 DEF Continues
      <4> QED
          BY <1>2, <4>1, <4>3, <4>4, PlaceInLine
    <3>3. \A i \in added' : i \in Range(line'[KindOf[i]]) \/ i \in emitted'
        BY <2>1, <2>3, <3>1, <3>2
    <3> QED
        BY <1>1, <2>1, <2>3, <3>3 DEF OneAtATime, InLine
  <2> QED
      BY <2>1, <2>2, <2>3
<1>12. CASE Load \/ ContinueLoad
  <2>1. /\ UNCHANGED <<emitted, step, row_count, finished>>
        /\ \/ UNCHANGED <<line, added>>
           \/ \E wanted \in SUBSET Objects : StartLoads(wanted) /\ loads < MaxLoads
      BY <1>12, FreshLoad
  <2>2. CASE UNCHANGED <<line, added>>
      BY <1>4, <2>1, <2>2
  <2>3. ASSUME NEW wanted \in SUBSET Objects, StartLoads(wanted), loads < MaxLoads
        PROVE  OneAtATime'
    <3> DEFINE n == Len(line["db"])
               jobs == NewJobs(wanted)
    <3>1. /\ \A o \in wanted : ChunkJob(o, loads + 1, 0) \in ReadJobs \ added
          /\ line'["blocking"] = line["blocking"]
          /\ added' = added \cup {ChunkJob(o, loads + 1, 0) : o \in wanted}
          /\ Len(line'["db"]) = n + Len(jobs)
          /\ \A x \in 1 .. n : line'["db"][x] = line["db"][x]
          /\ \A x \in 1 .. Len(jobs) : line'["db"][n + x] = jobs[x]
        BY <2>3, LoadsStart
    <3>2. /\ jobs \in Seq(ReadJobs)
          /\ \A x \in 1 .. Len(jobs) : \E o \in wanted : jobs[x] = ChunkJob(o, loads + 1, 0)
          /\ \A o \in wanted : \E x \in 1 .. Len(jobs) : jobs[x] = ChunkJob(o, loads + 1, 0)
        BY <2>3, NewJobsOfWanted DEF Typed, CountersTyped
    <3>3. n \in Nat /\ Len(jobs) \in Nat
        BY <1>2, <3>2
    <3> HIDE DEF n, jobs
    <3>4. ASSUME NEW j, NEW o \in wanted, j = ChunkJob(o, loads + 1, 0)
          PROVE  j \in Range(line'[KindOf[j]]) /\ step[j] = "new"
      <4>1. j \in ReadJobs \ added
          BY <3>1, <3>4
      <4>2. PICK x \in 1 .. Len(jobs) : jobs[x] = j
          BY <3>2, <3>4
      <4>3. n + x \in 1 .. Len(line'["db"]) /\ line'["db"][n + x] = j
          BY <3>1, <3>3, <4>2
      <4>4. j \in Jobs /\ KindOf[j] = "db"
          BY <4>1, JobKinds
      <4> QED
          BY <1>2, <4>1, <4>3, <4>4, PlaceInLine DEF Reading
    <3>7. ASSUME NEW i \in added, i \notin emitted
          PROVE  i \in Range(line'[KindOf[i]])
      <4>1. i \in Jobs /\ InLine(i)
          BY <1>1, <1>2, <3>7
      <4>2. PICK h : h = KindOf[i]
          OBVIOUS
      <4>3. h \in {"db", "blocking"} /\ \E x \in 1 .. Len(line[h]) : line[h][x] = i
          BY <1>2, <4>1, <4>2, PlaceInLine DEF InLine
      <4>4. \E x \in 1 .. Len(line'[h]) : line'[h][x] = i
        <5>1. CASE h = "blocking"
            BY <3>1, <4>3, <5>1
        <5>2. CASE h = "db"
          <6>1. PICK x \in 1 .. n : line["db"][x] = i
              BY <4>3, <5>2 DEF n
          <6>2. x \in 1 .. Len(line'["db"]) /\ line'["db"][x] = i
              BY <3>1, <3>3, <6>1
          <6> QED
              BY <5>2, <6>2
        <5> QED
            BY <4>3, <5>1, <5>2
      <4> QED
          BY <1>2, <4>1, <4>2, <4>4, PlaceInLine
    <3>5. \A i \in added' : i \in Range(line'[KindOf[i]]) \/ i \in emitted'
        BY <2>1, <3>1, <3>4, <3>7
    <3>6. ASSUME NEW x \in 1 .. Len(line'["db"]), step[line'["db"][x]] # "new"
          PROVE  x = 1
      <4>1. CASE x \in 1 .. n
          BY <1>1, <3>1, <3>6, <4>1 DEF n
      <4>2. CASE x \in n + 1 .. n + Len(jobs)
        <5>1. x - n \in 1 .. Len(jobs) /\ n + (x - n) = x
            BY <3>3, <4>2
        <5>2. line'["db"][x] = jobs[x - n]
            BY <3>1, <5>1
        <5>3. PICK o \in wanted : jobs[x - n] = ChunkJob(o, loads + 1, 0)
            BY <3>2, <5>1
        <5> QED
            BY <3>4, <3>6, <5>2, <5>3
      <4> QED
          BY <3>1, <3>3, <4>1, <4>2
    <3> QED
        BY <1>1, <2>1, <3>5, <3>6 DEF OneAtATime, InLine
  <2> QED
      BY <2>1, <2>2, <2>3
<1> QED
  <2>1. CASE UNCHANGED vars
      BY <2>1, <1>7
  <2>2. CASE Next
    <3>1. CASE User
      <4>1. button \in {"Load", "Stop", "disabled"}
          BY DEF Typed, CountersTyped
      <4>2. CASE StopButton
          BY <4>2, <1>4 DEF StopButton, readerVars
      <4> QED
          BY <3>1, <4>1, <4>2, <1>12 DEF User, LoadButton, ShowResult, Load
    <3>2. CASE \E k \in {"db", "blocking"} : Manage(k)
      <4>1. ASSUME NEW k, Decide(k)
            PROVE  OneAtATime'
          BY <4>1, <1>4, DecideLeaves DEF Quiet
      <4> QED
          BY <3>2, <4>1, <1>9, <1>10 DEF Manage
    <3> QED
        BY <2>2, <3>1, <3>2, <1>6, <1>7, <1>8, <1>9, <1>10, <1>11, <1>12 DEF Next, Slots
  <2> QED
      BY <2>1, <2>2

(* UpToDate is kept by every step. *)
LEMMA UpToDateIsKept ==
    ASSUME Typed, Queued, Reading, OneAtATime, UpToDate, Typed', [Next]_vars,
           cancelled = {}, cancelled' = {}
    PROVE  UpToDate'
<1>1. /\ \A p \in 1 .. Len(events) : Own(events[p].job)
      /\ \A j \in added \ emitted : Own(j)
      /\ \A p, q \in 1 .. Len(events) :
            p < q /\ events[p].what = "done" => events[q].job # events[p].job
    BY DEF UpToDate
<1>2. /\ Len(events) \in Nat /\ Len(events') \in Nat
      /\ \A p \in 1 .. Len(events) : events[p].job \in Jobs
      /\ \A p \in 1 .. Len(events) : events[p].what = "done" => events[p].job \in emitted
      /\ added \subseteq Jobs /\ cancelled = {}
  <2>1. Len(events) \in Nat /\ Len(events') \in Nat
      BY DEF Typed, ReadersTyped
  <2>2. /\ \A p \in 1 .. Len(events) : events[p].job \in Jobs
        /\ \A p \in 1 .. Len(events) : events[p].what = "done" => events[p].job \in emitted
      BY EventKinds, JobKinds DEF Queued, JobsInEvents
  <2> QED
      BY <2>1, <2>2 DEF Typed, LinesTyped
<1>3. /\ read_job \in [Objects -> ReadJobs \cup {None}]
      /\ finalize_jobs \in [Objects -> SUBSET FinalizeJobs]
      /\ \A j \in Jobs : j.obj \in Objects /\ j # None
    BY JobKinds DEF Typed, ObjectsTyped
<1>4. ASSUME UNCHANGED <<events, read_job, finalize_jobs, added, emitted>>
      PROVE  UpToDate'
    BY <1>1, <1>4 DEF UpToDate, Own
<1>5. CASE Quiet \/ \E k \in {"db", "blocking"} : LetGo(k)
  <2>1. UNCHANGED <<events, read_job, finalize_jobs, added, emitted>>
      BY <1>5 DEF Quiet, LetGo, Manager!Leave, objectVars
  <2> QED
      BY <2>1, <1>4
<1>6. ASSUME NEW j, NEW e, e.job = j, Own(j), j \notin emitted,
             Continues(events, events', e), Len(events') = Len(events) + 1,
             UNCHANGED <<read_job, finalize_jobs, added>>, emitted \subseteq emitted'
      PROVE  UpToDate'
  <2>1. /\ \A p \in 1 .. Len(events) : events'[p] = events[p]
        /\ events'[Len(events) + 1] = e
      BY <1>2, <1>6 DEF Continues
  <2>2. \A i : Own(i) => Own(i)'
      BY <1>6 DEF Own
  <2>3. \A p \in 1 .. Len(events') : p \in 1 .. Len(events) \/ p = Len(events) + 1
      BY <1>2, <1>6
  <2>4. ASSUME NEW p \in 1 .. Len(events')
        PROVE  \E i : i = events'[p].job /\ Own(i)
      BY <1>1, <1>6, <2>1, <2>3
  <2>5. \A p \in 1 .. Len(events') : Own(events[p].job)'
    <3> SUFFICES ASSUME NEW p \in 1 .. Len(events')
                 PROVE  Own(events[p].job)'
        OBVIOUS
    <3>1. PICK i : i = events'[p].job /\ Own(i)
        BY <2>4
    <3>2. i \in finalize_jobs'[i.obj] \/ i = read_job'[i.obj]
        BY <2>2, <3>1 DEF Own
    <3> QED
        BY <3>1, <3>2 DEF Own
  <2>6. ASSUME NEW p \in 1 .. Len(events'), NEW q \in 1 .. Len(events'), p < q,
               events'[p].what = "done"
        PROVE  events'[q].job # events'[p].job
    <3>1. p \in 1 .. Len(events) /\ events'[p] = events[p]
        BY <1>2, <1>6, <2>1, <2>6
    <3>2. CASE q \in 1 .. Len(events)
        BY <1>1, <2>1, <2>6, <3>1, <3>2
    <3>3. CASE q = Len(events) + 1
        BY <1>2, <1>6, <2>1, <2>6, <3>1, <3>3
    <3> QED
        BY <2>3, <3>2, <3>3
  <2>7. \A i \in added' \ emitted' : Own(i)'
      BY <1>1, <1>6, <2>2
  <2> QED
      BY <2>5, <2>6, <2>7 DEF UpToDate
<1>7. ASSUME NEW k \in {"db", "blocking"}, Emit(k)
      PROVE  UpToDate'
  <2>1. PICK j : j = Head(line[k])
      OBVIOUS
  <2>2. /\ j \in added \ emitted /\ emitted' = emitted \cup {j}
        /\ Continues(events, events', Done(j))
        /\ Len(events') = Len(events) + 1
      BY <1>2, <1>7, <2>1, EmitEvents
  <2>3. UNCHANGED <<added, read_job, finalize_jobs>>
      BY <1>7, EmitLeaves DEF managerVars, objectVars
  <2>4. Own(j) /\ Done(j).job = j
      BY <1>1, <2>2, SignalKinds
  <2> QED
      BY <2>2, <2>3, <2>4, <1>6
<1>8. ASSUME NEW j \in ReadJobs, ReadEmit(j)
      PROVE  UpToDate'
  <2>1. UNCHANGED <<added, emitted, read_job, finalize_jobs>>
      BY <1>8 DEF ReadEmit, managerVars, objectVars
  <2>2. /\ step[j] = "emit"
        /\ \/ events' = events
           \/ /\ Continues(events, events', Event("buffer", j, row_count[j] + 1))
              /\ Len(events') = Len(events) + 1
      BY <1>8, BufferEmitted
  <2>3. j \in added \ emitted
      BY <2>2, AtWork
  <2>4. CASE events' = events
      BY <2>1, <2>4, <1>4
  <2>5. CASE /\ Continues(events, events', Event("buffer", j, row_count[j] + 1))
             /\ Len(events') = Len(events) + 1
    <3>1. PICK e : e = Event("buffer", j, row_count[j] + 1)
        OBVIOUS
    <3>2. e.job = j /\ Own(j)
        BY <1>1, <2>3, <3>1, SignalKinds
    <3> QED
        BY <2>1, <2>3, <2>5, <3>1, <3>2, <1>6
  <2> QED
      BY <2>2, <2>4, <2>5
<1>9. ASSUME NEW name, NextEvent(name), NEW fresh,
             added' = added \cup fresh, fresh \cap emitted = {}, fresh \subseteq Jobs,
             UNCHANGED emitted,
             \A i \in Jobs : Own(i) =>
                 (i \in finalize_jobs'[i.obj] \/ i = read_job'[i.obj])
                 \/ (name = "done" /\ i = events[1].job),
             \A i \in fresh : i \in finalize_jobs'[i.obj] \/ i = read_job'[i.obj]
      PROVE  UpToDate'
  <2>1. /\ Len(events) \in Nat \ {0} /\ events[1].what = name
        /\ Len(events') = Len(events) - 1
        /\ \A p \in 1 .. Len(events') : events'[p] = events[p + 1]
      BY <1>9, TakeEvent
  <2>2. \A p \in 1 .. Len(events') :
           p + 1 \in 1 .. Len(events) /\ 1 < p + 1 /\ 1 \in 1 .. Len(events)
      BY <2>1
  <2>3. ASSUME NEW p \in 1 .. Len(events')
        PROVE  events'[p].job \in finalize_jobs'[events'[p].job.obj]
               \/ events'[p].job = read_job'[events'[p].job.obj]
    <3>1. PICK i : i = events[p + 1].job
        OBVIOUS
    <3>2. i \in Jobs /\ Own(i)
        BY <1>1, <1>2, <2>2, <3>1
    <3>3. name = "done" => i # events[1].job
        BY <1>1, <2>1, <2>2, <3>1
    <3>4. i \in finalize_jobs'[i.obj] \/ i = read_job'[i.obj]
        BY <1>9, <3>2, <3>3
    <3> QED
        BY <2>1, <3>1, <3>4
  <2>4. ASSUME NEW i \in added' \ emitted'
        PROVE  i \in finalize_jobs'[i.obj] \/ i = read_job'[i.obj]
    <3>1. CASE i \in fresh
        BY <1>9, <3>1
    <3>2. CASE i \in added \ emitted
      <4>1. Own(i) /\ i \in Jobs
          BY <1>1, <1>2, <3>2
      <4>2. name = "done" => i # events[1].job
          BY <1>2, <2>1, <3>2
      <4> QED
          BY <1>9, <4>1, <4>2
    <3> QED
        BY <1>9, <2>4, <3>1, <3>2
  <2>5. ASSUME NEW p \in 1 .. Len(events'), NEW q \in 1 .. Len(events'), p < q,
               events'[p].what = "done"
        PROVE  events'[q].job # events'[p].job
    <3>1. p + 1 < q + 1
        BY <2>5
    <3> QED
        BY <1>1, <2>1, <2>2, <2>5, <3>1
  <2> QED
      BY <2>3, <2>4, <2>5 DEF UpToDate, Own
<1>10. CASE BufferSlot
  <2> DEFINE r == events[1].job
             j == ChunkJob(r.obj, r.load, events[1].chunk)
  <2>1. /\ NextEvent("buffer") /\ r \in ReadJobs /\ UNCHANGED <<emitted, read_job>>
        /\ \/ r # read_job[r.obj]
           \/ /\ j \in FinalizeJobs /\ j \notin added
              /\ added' = added \cup {j}
              /\ finalize_jobs' = [finalize_jobs EXCEPT ![r.obj] = @ \cup {j}]
      BY <1>10, BufferArrives
  <2>2. r = read_job[r.obj]
      BY <2>1, SignalIsOwned
  <2>3. j.obj = r.obj /\ j \in Jobs /\ r.obj \in Objects /\ j \notin emitted
    <3>1. j.obj = r.obj
        BY DEF ChunkJob
    <3>2. j \notin emitted
        BY <2>1, <2>2 DEF Typed, LinesTyped
    <3> QED
        BY <2>1, <2>2, <3>1, <3>2, JobKinds
  <2> HIDE DEF j, r
  <2>4. \A i \in Jobs : Own(i) => i \in finalize_jobs'[i.obj] \/ i = read_job'[i.obj]
      BY <1>3, <2>1, <2>2 DEF Own
  <2>5. j \in finalize_jobs'[j.obj]
      BY <1>3, <2>1, <2>2, <2>3
  <2>6. PICK fresh : fresh = {j}
      OBVIOUS
  <2>7. /\ added' = added \cup fresh /\ fresh \cap emitted = {} /\ fresh \subseteq Jobs
        /\ \A i \in fresh : i \in finalize_jobs'[i.obj] \/ i = read_job'[i.obj]
      BY <2>1, <2>2, <2>3, <2>5, <2>6
  <2> QED
      BY <2>1, <2>4, <2>7, <1>9
<1>11. CASE ReadDoneSlot
  <2> DEFINE j == events[1].job
  <2>1. /\ NextEvent("done") /\ j \in ReadJobs /\ UNCHANGED <<emitted, added, finalize_jobs>>
        /\ read_job' = [read_job EXCEPT ![j.obj] = None]
      BY <1>11, ReadEnds
  <2>2. read_job[j.obj] = j
      BY <2>1, SignalIsOwned
  <2> HIDE DEF j
  <2>3. \A i \in Jobs : Own(i) => (i \in finalize_jobs'[i.obj] \/ i = read_job'[i.obj]) \/ i = j
      BY <1>3, <2>1, <2>2 DEF Own
  <2>4. PICK none : none = {}
      OBVIOUS
  <2>5. /\ added' = added \cup none /\ none \cap emitted = {} /\ none \subseteq Jobs
        /\ \A i \in none : i \in finalize_jobs'[i.obj] \/ i = read_job'[i.obj]
      BY <2>1, <2>4
  <2>6. \A i \in Jobs : Own(i) =>
            (i \in finalize_jobs'[i.obj] \/ i = read_job'[i.obj]) \/ i = events[1].job
      BY <2>3 DEF j
  <2> QED
      BY <2>1, <2>5, <2>6, <1>9
<1>12. CASE FinalizeDoneSlot
  <2> DEFINE j == events[1].job
  <2>1. /\ NextEvent("done") /\ j \in FinalizeJobs /\ UNCHANGED <<emitted, added, read_job>>
        /\ \/ j \notin finalize_jobs[j.obj]
           \/ finalize_jobs' = [finalize_jobs EXCEPT ![j.obj] = @ \ {j}]
      BY <1>12, FinalizeEnds
  <2>2. j \in finalize_jobs[j.obj]
      BY <2>1, SignalIsOwned
  <2> HIDE DEF j
  <2>3. \A i \in Jobs : Own(i) => (i \in finalize_jobs'[i.obj] \/ i = read_job'[i.obj]) \/ i = j
      BY <1>3, <2>1, <2>2 DEF Own
  <2>4. PICK none : none = {}
      OBVIOUS
  <2>5. /\ added' = added \cup none /\ none \cap emitted = {} /\ none \subseteq Jobs
        /\ \A i \in none : i \in finalize_jobs'[i.obj] \/ i = read_job'[i.obj]
      BY <2>1, <2>4
  <2>6. \A i \in Jobs : Own(i) =>
            (i \in finalize_jobs'[i.obj] \/ i = read_job'[i.obj]) \/ i = events[1].job
      BY <2>3 DEF j
  <2> QED
      BY <2>1, <2>5, <2>6, <1>9
<1>13. CASE Load \/ ContinueLoad
  <2>1. /\ UNCHANGED <<emitted, events>>
        /\ \/ UNCHANGED <<added, read_job, finalize_jobs>>
           \/ \E wanted \in SUBSET Objects :
                 StartLoads(wanted) /\ loads < MaxLoads /\ \A o \in wanted : ~Loading(o)
      BY <1>13, FreshLoad
  <2>2. CASE UNCHANGED <<added, read_job, finalize_jobs>>
      BY <1>4, <2>1, <2>2
  <2>3. ASSUME NEW wanted \in SUBSET Objects, StartLoads(wanted), loads < MaxLoads,
               \A o \in wanted : ~Loading(o)
        PROVE  UpToDate'
    <3>1. /\ added' = added \cup {ChunkJob(o, loads + 1, 0) : o \in wanted}
          /\ read_job' = [o \in Objects |-> IF o \in wanted THEN ChunkJob(o, loads + 1, 0)
                                            ELSE read_job[o]]
          /\ finalize_jobs' = [o \in Objects |-> IF o \in wanted THEN {} ELSE finalize_jobs[o]]
        BY <2>3, LoadsStart
    <3>2. ASSUME NEW j \in Jobs, Own(j)
          PROVE  j \in finalize_jobs'[j.obj] \/ j = read_job'[j.obj]
      <4>1. j.obj \in Objects /\ j # None
          BY <1>3
      <4>2. j.obj \notin wanted
          BY <2>3, <3>2, <4>1 DEF Own, Loading
      <4> QED
          BY <3>1, <3>2, <4>1, <4>2 DEF Own
    <3>3. ASSUME NEW j \in added' \ emitted'
          PROVE  j \in finalize_jobs'[j.obj] \/ j = read_job'[j.obj]
      <4>1. CASE j \in added
        <5>1. Own(j) /\ j \in Jobs
            BY <1>1, <1>2, <2>1, <3>3, <4>1
        <5> QED
            BY <3>2, <5>1
      <4>2. CASE j \notin added
        <5>1. PICK o \in wanted : j = ChunkJob(o, loads + 1, 0)
            BY <3>1, <3>3, <4>2
        <5>2. j.obj = o /\ read_job'[o] = j
            BY <3>1, <5>1 DEF ChunkJob
        <5> QED
            BY <5>2
      <4> QED
          BY <4>1, <4>2
    <3>4. \A p \in 1 .. Len(events') :
              \/ events'[p].job \in finalize_jobs'[events'[p].job.obj]
              \/ events'[p].job = read_job'[events'[p].job.obj]
        BY <1>1, <1>2, <2>1, <3>2
    <3> QED
        BY <1>1, <2>1, <3>3, <3>4 DEF UpToDate, Own
  <2> QED
      BY <2>1, <2>2, <2>3
<1>14. CASE StopButton
    BY <1>14, <1>4 DEF StopButton, objectVars
<1> QED
    BY <1>5, <1>7, <1>8, <1>10, <1>11, <1>12, <1>13, <1>14, StepCases

(* No assertion fails in any step. *)
LEMMA NoStepAborts ==
    ASSUME Typed, Queued, Reading, OneAtATime, UpToDate, [Next]_vars,
           cancelled = {}, cancelled' = {}
    PROVE  aborted' = aborted
<1>1. cancelled = {} /\ emitted \subseteq finished
    BY DEF OneAtATime
<1>2. ASSUME NEW j \in Jobs
      PROVE  ~RunDestroyed(j)
    BY <1>1 DEF RunDestroyed, Destroyed, OneAtATime
<1>3. ASSUME NEW j \in ReadJobs, ReadPrepare(j)
      PROVE  aborted' = aborted
  <2>1. step[j] = "prepare"
      BY <1>3 DEF ReadPrepare, To
  <2>2. ASSUME prepared_command # None
        PROVE  FALSE
    <3>1. prepared_command \in ReadJobs
        BY <2>2 DEF Typed, ReadersTyped
    <3>2. step[prepared_command] \in {"read", "emit", "unlock", "finalize"}
        BY <2>2 DEF Reading
    <3>3. line["db"][1] = prepared_command
        BY <3>1, <3>2, AtWork
    <3>4. line["db"][1] = j
        BY <2>1, AtWork
    <3> QED
        BY <2>1, <3>2, <3>3, <3>4
  <2> QED
      BY <1>3, <2>2 DEF ReadPrepare
<1>4. ASSUME NEW j \in ReadJobs, Read(j)
      PROVE  aborted' = aborted
  <2>1. CASE ReadObsolete(j) \/ ReadStart(j) \/ ReadChunk(j)
      BY <2>1 DEF ReadObsolete, ReadStart, ReadChunk
  <2>2. CASE ReadEmit(j) \/ ReadUnlock(j) \/ ReadEnd(j)
      BY <2>2 DEF ReadEmit, ReadUnlock, ReadEnd
  <2> QED
      BY <1>3, <1>4, <2>1, <2>2 DEF Read
<1>5. CASE BufferSlot
  <2>1. NextEvent("buffer") /\ events[1].job \in ReadJobs
      BY <1>5, BufferArrives
  <2>2. Head(events) = events[1]
      BY <2>1, TakeEvent
  <2>3. Head(events).job = read_job[Head(events).job.obj]
      BY <2>1, <2>2, SignalIsOwned
  <2>4. ~Destroyed(Head(events).job)
      BY <2>3 DEF Destroyed
  <2> QED
      BY <1>5, <2>3, <2>4 DEF BufferSlot
<1>6. CASE ReadDoneSlot
    BY <1>6 DEF ReadDoneSlot
<1>7. CASE FinalizeDoneSlot
  <2>1. NextEvent("done") /\ events[1].job \in FinalizeJobs
      BY <1>7, FinalizeEnds
  <2>2. Head(events) = events[1]
      BY <2>1, TakeEvent
  <2>3. Head(events).job \in finalize_jobs[Head(events).job.obj]
      BY <2>1, <2>2, SignalIsOwned
  <2>4. ~Destroyed(Head(events).job)
      BY <2>3 DEF Destroyed
  <2> QED
      BY <1>7, <2>3, <2>4 DEF FinalizeDoneSlot
<1>8. CASE UNCHANGED vars
    BY <1>8 DEF vars
<1>9. CASE Next
  <2>1. CASE \E k \in {"db", "blocking"} : Manage(k)
      BY <2>1, EmitLeaves, DecideLeaves DEF LetGo, Manage
  <2>2. CASE \E j \in FinalizeJobs : Finalize(j)
      BY <2>2 DEF Finalize
  <2>3. CASE User
    <3>1. button \in {"Load", "Stop", "disabled"}
        BY DEF Typed, CountersTyped
    <3>2. Load \/ StopButton
        BY <2>3, <3>1 DEF User, LoadButton, ShowResult, Load
    <3> QED
        BY <3>2, FreshLoad DEF StopButton
  <2>4. CASE ContinueLoad
      BY <2>4, FreshLoad
  <2> QED
      BY <1>9, <2>1, <2>2, <2>3, <2>4, <1>2, <1>4, <1>5, <1>6, <1>7 DEF Next, Slots
<1> QED
    BY <1>8, <1>9

(* Regular is kept by every step. *)
LEMMA RegularIsKept ==
    ASSUME MaxStops = 0, Results # "always"
    PROVE  Consistent /\ Regular /\ [Next]_vars => Regular'
<1> SUFFICES ASSUME Consistent, Regular, [Next]_vars
             PROVE  Regular'
    OBVIOUS
<1>1. Typed /\ Queued /\ Reading /\ Undisturbed /\ OneAtATime /\ UpToDate /\ Alive
    BY DEF Consistent, Regular
<1>2. Typed'
    BY ConsistentIsKept DEF Consistent
<1>3. Undisturbed'
    BY <1>1, UndisturbedIsKept
<1>4. cancelled = {} /\ cancelled' = {}
    BY <1>1, <1>3 DEF Undisturbed
<1>5. OneAtATime' /\ UpToDate'
    BY <1>1, <1>2, <1>4, OneAtATimeIsKept, UpToDateIsKept
<1>6. Alive'
    BY <1>1, <1>4, NoStepAborts DEF Alive
<1> QED
    BY <1>3, <1>5, <1>6 DEF Regular

(* Loads that are not stopped and not started in the midst of each other   *)
(* run one read job at a time, whose signals all find their object.        *)
THEOREM LoadsAreRegular ==
    ASSUME MaxStops = 0, Results # "always"
    PROVE  Spec => [](Consistent /\ Regular)
<1>1. Init => Consistent /\ Regular
    BY StartIsConsistent, StartIsRegular
<1>2. Consistent /\ Regular /\ [Next]_vars => (Consistent /\ Regular)'
    BY ConsistentIsKept, RegularIsKept
<1> QED
    BY <1>1, <1>2, PTL DEF Spec

(* What is cancelled stays cancelled.                                      *)
LEMMA CancelledForGood ==
    ASSUME Typed, Queued, Reading, [Next]_vars
    PROVE  cancelled \subseteq cancelled'
<1>1. CASE \/ \E k \in {"db", "blocking"} : Emit(k) \/ LetGo(k)
           \/ \E j \in ReadJobs : ReadEmit(j)
           \/ Quiet \/ StopButton
    BY <1>1, EmitLeaves DEF LetGo, Manager!Leave, ReadEmit, Quiet, StopButton, managerVars
<1>2. CASE BufferSlot
    BY <1>2, BufferArrives
<1>3. CASE ReadDoneSlot
    BY <1>3, ReadEnds
<1>4. CASE FinalizeDoneSlot
    BY <1>4, FinalizeEnds
<1>5. CASE Load \/ ContinueLoad
    BY <1>5, LoadCases DEF StartLoads
<1> QED
    BY <1>1, <1>2, <1>3, <1>4, <1>5, StepCases

(* For any use of the load button, of Stop and of results, also with loads *)
(* that begin during others: an assertion of the slots or of the           *)
(* connection fails, or a job is destroyed at work, only after a job was   *)
(* cancelled, by Stop or by a new load of an object that still loads.      *)
THEOREM NoAssertionFails == Spec => [](cancelled = {} => NothingAborts)
<1> DEFINE Unhindered == cancelled = {} => OneAtATime /\ UpToDate /\ Alive
<1>1. Init => Consistent /\ Unhindered
    BY StartIsConsistent, StartIsRegular DEF Regular
<1>2. Consistent /\ Unhindered /\ [Next]_vars => (Consistent /\ Unhindered)'
  <2> SUFFICES ASSUME Consistent, Unhindered, [Next]_vars
               PROVE  Consistent' /\ Unhindered'
      OBVIOUS
  <2>1. Consistent'
      BY ConsistentIsKept
  <2>2. Typed /\ Queued /\ Reading /\ Typed'
      BY <2>1 DEF Consistent
  <2>3. ASSUME cancelled' = {}
        PROVE  OneAtATime' /\ UpToDate' /\ Alive'
    <3>1. cancelled = {}
        BY <2>2, <2>3, CancelledForGood
    <3>2. OneAtATime /\ UpToDate /\ Alive
        BY <3>1
    <3>3. OneAtATime' /\ UpToDate'
        BY <2>2, <2>3, <3>1, <3>2, OneAtATimeIsKept, UpToDateIsKept
    <3>4. aborted' = aborted
        BY <2>2, <2>3, <3>1, <3>2, NoStepAborts
    <3> QED
        BY <3>2, <3>3, <3>4 DEF Alive
  <2> QED
      BY <2>1, <2>3
<1>3. Consistent /\ Unhindered => (cancelled = {} => NothingAborts)
    BY DEF Alive, NothingAborts
<1> QED
    BY <1>1, <1>2, <1>3, PTL DEF Spec

(* Each of them is finished once, and the cursor and the button tell of it. *)
THEOREM LoadsFinishOnce ==
    ASSUME MaxStops = 0, Results # "always"
    PROVE  Spec => []FinishedOnce
<1>1. Consistent /\ Regular => FinishedOnce
  <2> SUFFICES ASSUME Consistent, Regular
               PROVE  FinishedOnce
      OBVIOUS
  <2>1. /\ load_in_progress /\ waiting = 0 => finishes = loads - 1
        /\ ~load_in_progress \/ waiting > 0 => finishes = loads
        /\ waiting \in Nat /\ loads \in Nat /\ finishes \in Nat
        /\ load_in_progress \in BOOLEAN
      BY DEF Regular, Undisturbed, Consistent, Typed, CountersTyped
  <2>2. finishes = loads - (IF load_in_progress /\ waiting = 0 THEN 1 ELSE 0)
    <3>1. CASE load_in_progress /\ waiting = 0
      <4>1. (IF load_in_progress /\ waiting = 0 THEN 1 ELSE 0) = 1
          BY <3>1
      <4> QED
          BY <2>1, <3>1, <4>1
    <3>2. CASE ~(load_in_progress /\ waiting = 0)
      <4>1. (IF load_in_progress /\ waiting = 0 THEN 1 ELSE 0) = 0
          BY <3>2
      <4>2. ~load_in_progress \/ waiting > 0
          BY <2>1, <3>2
      <4>3. finishes = loads - 0
          BY <2>1, <4>2
      <4> QED
          BY <4>1, <4>3
    <3> QED
        BY <3>1, <3>2
  <2>3. /\ cursor = (IF load_in_progress THEN 1 ELSE 0)
        /\ button # "Load" => load_in_progress
      BY DEF Consistent, Front
  <2> QED
      BY <2>2, <2>3 DEF FinishedOnce
<1> QED
    BY <1>1, LoadsAreRegular, PTL

-----------------------------------------------------------------------------
(* Each load brings all chunks of the objects it reads.                    *)

(* Of the last load data_ holds the chunks from the first on, and once the *)
(* read job is done no chunk is missing among those finalized and those    *)
(* being finalized.                                                        *)
Complete ==
    \A o \in Objects : \E b \in Nat :
        /\ Sequel(o, Len(data[o]), b, loads)
        /\ waiting = 0 /\ ChunkJob(o, loads, 0) \in added /\ read_job[o] = None => b = Chunks[o]

(* A read job is reported when all its chunks have arrived. *)
LEMMA ReadToTheEnd ==
    ASSUME Typed, Queued, Reading, OneAtATime, UpToDate, NextEvent("done"),
           NEW j \in ReadJobs, events[1].job = j, NEW b \in Nat, Unread(j, b)
    PROVE  b = Chunks[j.obj]
<1>1. Len(events) \in Nat \ {0} /\ events[1].what = "done"
    BY TakeEvent
<1>2. j \in finished
    BY <1>1 DEF Queued, JobsInEvents, OneAtATime
<1>3. row_count[j] = Chunks[j.obj]
    BY <1>2 DEF Reading, OneAtATime
<1>4. row_count[j] \in Nat /\ b <= row_count[j]
    BY DEF Typed, ReadersTyped, Unread
<1>5. ASSUME b < row_count[j]
      PROVE  FALSE
  <2>1. Posted(Event("buffer", j, b + 1))
      BY <1>4, <1>5 DEF Unread
  <2>2. PICK p \in 1 .. Len(events) : events[p] = Event("buffer", j, b + 1)
      BY <2>1 DEF Posted
  <2>3. events[p].what = "buffer" /\ events[p].job = j
      BY <2>2, SignalKinds
  <2>4. p # 1 /\ 1 \in 1 .. Len(events) /\ 1 < p
      BY <1>1, <2>3
  <2> QED
      BY <1>1, <2>3, <2>4 DEF UpToDate
<1> QED
    BY <1>3, <1>4, <1>5

(* Complete is kept by every step. *)
LEMMA CompleteIsKept ==
    ASSUME MaxStops = 0, Results # "always",
           Consistent, Regular, Complete, Typed', Queued', [Next]_vars
    PROVE  Complete'
<1> SUFFICES ASSUME NEW o \in Objects
             PROVE  \E b \in Nat :
                        /\ Sequel(o, Len(data[o]), b, loads)'
                        /\ waiting' = 0 /\ ChunkJob(o, loads', 0) \in added' /\ read_job'[o] = None
                               => b = Chunks[o]
    BY DEF Complete
<1>1. /\ Typed /\ Queued /\ Reading /\ Current /\ Chain /\ InSequence
      /\ Undisturbed /\ OneAtATime /\ UpToDate
    BY DEF Consistent, Regular
<1>2. PICK b \in Nat :
          /\ Sequel(o, Len(data[o]), b, loads)
          /\ waiting = 0 /\ ChunkJob(o, loads, 0) \in added /\ read_job[o] = None => b = Chunks[o]
    BY DEF Complete
<1>3. Len(data[o]) \in Nat /\ loads \in Nat
    BY <1>1 DEF Typed, ObjectsTyped, CountersTyped
<1>4. PICK a \in Nat, l \in Nat : a = Len(data[o]) /\ l = loads
    BY <1>3
<1>5. Sequel(o, a, b, l)
    BY <1>2, <1>4
<1>6. ASSUME NEW h \in Nat, NEW t \in Nat, NEW m \in Nat,
             Sequel(o, h, t, m)', h = Len(data'[o]), m = loads',
             waiting' = 0 /\ ChunkJob(o, m, 0) \in added' /\ read_job'[o] = None => t = Chunks[o]
      PROVE  \E c \in Nat :
                /\ Sequel(o, Len(data[o]), c, loads)'
                /\ waiting' = 0 /\ ChunkJob(o, loads', 0) \in added' /\ read_job'[o] = None
                       => c = Chunks[o]
  <2>1. Sequel(o, Len(data[o]), t, loads)'
      BY <1>6 DEF Sequel
  <2> QED
      BY <1>6, <2>1
<1>7. \/ Sequel(o, a, b, l)'
      \/ Sequel(o, a, b + 1, l)' /\ BufferSlot /\ events[1].job = read_job[o]
      \/ Sequel(o, a + 1, b, l)' /\ FinalizeDoneSlot /\ events[1] = Done(ChunkJob(o, l, a + 1))
         /\ Len(data'[o]) = Len(data[o]) + 1
      \/ Load \/ ContinueLoad
    BY <1>1, <1>5, OrderIsKept
<1>8. ASSUME UNCHANGED <<added, waiting, loads, read_job, data>>, Sequel(o, a, b, l)'
      PROVE  \E c \in Nat :
                /\ Sequel(o, Len(data[o]), c, loads)'
                /\ waiting' = 0 /\ ChunkJob(o, loads', 0) \in added' /\ read_job'[o] = None
                       => c = Chunks[o]
    BY <1>2, <1>4, <1>8, <1>6
<1>9. ASSUME NEW j \in FinalizeJobs
      PROVE  ChunkJob(o, l, 0) # j
  <2>1. j.chunk # 0
      BY JobKinds, ChunksAssumption
  <2> QED
      BY <2>1 DEF ChunkJob
<1>10. CASE Sequel(o, a, b + 1, l)' /\ BufferSlot /\ events[1].job = read_job[o]
  <2>1. /\ events[1].job \in ReadJobs
        /\ UNCHANGED <<read_job, data, loads>>
      BY <1>1, <1>10, BufferArrives
  <2>2. read_job'[o] # None
      BY <1>10, <2>1, JobKinds
  <2>3. b + 1 \in Nat /\ a = Len(data'[o]) /\ l = loads'
      BY <1>4, <2>1
  <2> QED
      BY <1>6, <1>10, <2>2, <2>3
<1>11. CASE Sequel(o, a + 1, b, l)' /\ FinalizeDoneSlot /\ Len(data'[o]) = Len(data[o]) + 1
  <2>1. UNCHANGED <<added, waiting, loads, read_job>>
      BY <1>1, <1>11, FinalizeEnds
  <2>2. a + 1 \in Nat /\ a + 1 = Len(data'[o]) /\ l = loads'
      BY <1>4, <1>11, <2>1
  <2> QED
      BY <1>2, <1>4, <1>6, <1>11, <2>1, <2>2
<1>12. CASE Load \/ ContinueLoad
  <2>1. /\ \A u \in Objects : ~Loading(u)
        /\ Len(events) = 0
        /\ UNCHANGED <<step, row_count, events>>
        /\ data'[o] = <<>> /\ finalize_jobs'[o] = {}
        /\ \/ waiting' = 1 /\ UNCHANGED read_job
           \/ \E wanted \in SUBSET Objects : StartLoads(wanted) /\ loads < MaxLoads
      BY <1>1, <1>12, SteadyLoad
  <2>2. PICK m \in Nat : m = loads'
      BY DEF Typed, CountersTyped
  <2>3. read_job[o] = None
      BY <2>1 DEF Loading
  <2>4. \/ waiting' = 1 /\ read_job'[o] = None
        \/ /\ m = loads + 1
           /\ ChunkJob(o, m, 0) \in added' => read_job'[o] # None
           /\ read_job'[o] # None =>
                  read_job'[o] = ChunkJob(o, m, 0) /\ ChunkJob(o, m, 0) \in ReadJobs \ added
    <3>1. CASE waiting' = 1 /\ UNCHANGED read_job
        BY <2>3, <3>1
    <3>2. ASSUME NEW wanted \in SUBSET Objects, StartLoads(wanted), loads < MaxLoads
          PROVE  /\ m = loads + 1
                 /\ ChunkJob(o, m, 0) \in added' => read_job'[o] # None
                 /\ read_job'[o] # None =>
                        read_job'[o] = ChunkJob(o, m, 0) /\ ChunkJob(o, m, 0) \in ReadJobs \ added
      <4>1. /\ \A u \in wanted : ChunkJob(u, loads + 1, 0) \in ReadJobs \ added
            /\ added' = added \cup {ChunkJob(u, loads + 1, 0) : u \in wanted}
            /\ loads' = loads + 1
            /\ read_job' = [u \in Objects |-> IF u \in wanted THEN ChunkJob(u, loads + 1, 0)
                                              ELSE read_job[u]]
          BY <1>1, <3>2, LoadsStart
      <4>2. CASE o \in wanted
        <5>1. read_job'[o] = ChunkJob(o, m, 0) /\ ChunkJob(o, m, 0) \in ReadJobs \ added
            BY <2>2, <4>1, <4>2
        <5> QED
            BY <2>2, <4>1, <5>1, JobKinds
      <4>3. CASE o \notin wanted
        <5>1. read_job'[o] = None
            BY <2>3, <4>1, <4>3
        <5>2. ChunkJob(o, m, 0).load = loads + 1 /\ ~(loads + 1 <= loads)
            BY <1>3, <2>2, <4>1 DEF ChunkJob
        <5>3. ChunkJob(o, m, 0) \notin added
            BY <1>1, <5>2 DEF Queued
        <5>4. \A u \in wanted : ChunkJob(o, m, 0) # ChunkJob(u, loads + 1, 0)
            BY <4>3 DEF ChunkJob
        <5> QED
            BY <2>2, <4>1, <5>1, <5>3, <5>4
      <4> QED
          BY <4>2, <4>3
    <3> QED
        BY <2>1, <3>1, <3>2
  <2>5. Sequel(o, 0, 0, m)'
    <3>1. \A j \in added' : j.obj = o => j.load <= m
        BY <2>2 DEF Queued
    <3>2. ASSUME read_job'[o] # None
          PROVE  read_job'[o].load = m /\ Unread(read_job[o], 0)'
      <4>1. PICK j : j = ChunkJob(o, m, 0)
          OBVIOUS
      <4>2. read_job'[o] = j /\ j \in ReadJobs \ added
          BY <2>4, <3>2, <4>1
      <4>3. row_count'[j] = 0
          BY <1>1, <2>1, <4>2 DEF Reading
      <4>4. Len(events') = 0
          BY <2>1
      <4>5. j.load = m
          BY <4>1 DEF ChunkJob
      <4> QED
          BY <4>2, <4>3, <4>4, <4>5 DEF Unread
    <3>3. Len(data'[o]) = 0
        BY <2>1
    <3>4. \A k : k \in finalize_jobs'[o] <=> \E n \in 0 + 1 .. 0 : k = ChunkJob(o, m, n)
        BY <2>1
    <3> QED
        BY <3>1, <3>2, <3>3, <3>4 DEF Sequel
  <2>6. Len(data'[o]) = 0
      BY <2>1
  <2> QED
      BY <1>6, <2>2, <2>4, <2>5, <2>6
<1>13. CASE Sequel(o, a, b, l)'
  <2>1. CASE \/ \E k \in {"db", "blocking"} : Emit(k) \/ LetGo(k)
             \/ \E j \in ReadJobs : ReadEmit(j)
             \/ Quiet
    <3>1. UNCHANGED <<added, waiting, loads, read_job, data>>
        BY <2>1, EmitLeaves
        DEF LetGo, Manager!Leave, ReadEmit, Quiet, managerVars, objectVars, userVars
    <3> QED
        BY <1>8, <1>13, <3>1
  <2>2. CASE BufferSlot
    <3>1. PICK j : j = ChunkJob(events[1].job.obj, events[1].job.load, events[1].chunk)
        OBVIOUS
    <3>2. /\ UNCHANGED <<read_job, data, loads, waiting>>
          /\ \/ UNCHANGED added
             \/ j \in FinalizeJobs /\ added' = added \cup {j}
        BY <1>1, <2>2, <3>1, BufferArrives
    <3>3. ChunkJob(o, l, 0) \in added' => ChunkJob(o, l, 0) \in added
        BY <1>9, <3>2
    <3>4. a = Len(data'[o]) /\ l = loads'
        BY <1>4, <3>2
    <3> QED
        BY <1>2, <1>4, <1>6, <1>13, <3>2, <3>3, <3>4
  <2>3. CASE ReadDoneSlot
    <3>1. PICK j : j = events[1].job
        OBVIOUS
    <3>2. /\ NextEvent("done") /\ j \in ReadJobs
          /\ UNCHANGED <<added, waiting, loads, data>>
          /\ read_job' = [read_job EXCEPT ![j.obj] = None]
        BY <1>1, <2>3, <3>1, ReadEnds
    <3>3. read_job[j.obj] = j /\ j.obj \in Objects /\ j # None
        BY <1>1, <3>1, <3>2, SignalOfTheLoad, JobKinds
    <3>4. ASSUME j.obj = o
          PROVE  b = Chunks[o]
      <4>1. Unread(j, b)
          BY <1>5, <3>3, <3>4 DEF Sequel
      <4> QED
          BY <1>1, <3>1, <3>2, <3>4, <4>1, ReadToTheEnd
    <3>5. j.obj # o => read_job'[o] = read_job[o]
        BY <3>2, <1>1 DEF Typed, ObjectsTyped
    <3>6. a = Len(data'[o]) /\ l = loads'
        BY <1>4, <3>2
    <3> QED
        BY <1>2, <1>4, <1>6, <1>13, <3>2, <3>4, <3>5, <3>6
  <2>4. CASE FinalizeDoneSlot
    <3>1. PICK j : j = events[1].job
        OBVIOUS
    <3>2. /\ NextEvent("done") /\ j \in FinalizeJobs
          /\ UNCHANGED <<added, waiting, loads, read_job>>
          /\ \/ j \notin finalize_jobs[j.obj]
             \/ /\ finalize_jobs' = [finalize_jobs EXCEPT ![j.obj] = @ \ {j}]
                /\ data' = [data EXCEPT ![j.obj] = Append(@, j)]
        BY <1>1, <2>4, <3>1, FinalizeEnds
    <3>3. j \in finalize_jobs[j.obj]
        BY <1>1, <3>1, <3>2, SignalOfTheLoad
    <3>4. j.obj # o
      <4> SUFFICES ASSUME j.obj = o
                   PROVE  FALSE
          OBVIOUS
      <4>1. j \in finalize_jobs[o] /\ j \notin finalize_jobs'[o]
          BY <1>1, <3>2, <3>3 DEF Typed, ObjectsTyped
      <4>2. \E n \in a + 1 .. b : j = ChunkJob(o, l, n)
          BY <1>5, <4>1 DEF Sequel
      <4>3. j \in finalize_jobs'[o]
          BY <1>13, <4>2 DEF Sequel
      <4> QED
          BY <4>1, <4>3
    <3>5. data'[o] = data[o]
        BY <1>1, <3>2, <3>3, <3>4 DEF Typed, ObjectsTyped
    <3>6. a = Len(data'[o]) /\ l = loads'
        BY <1>4, <3>2, <3>5
    <3> QED
        BY <1>2, <1>4, <1>6, <1>13, <3>2, <3>6
  <2> QED
      BY <1>1, <2>1, <2>2, <2>3, <2>4, <1>12, StepCases, NoStop
<1> QED
    BY <1>7, <1>10, <1>11, <1>12, <1>13

(* No load, no chunk. *)
LEMMA StartIsComplete == Init => Complete
<1> SUFFICES ASSUME Init
             PROVE  Complete
    OBVIOUS
<1> SUFFICES ASSUME NEW o \in Objects
             PROVE  Sequel(o, Len(data[o]), 0, loads) /\ ChunkJob(o, loads, 0) \notin added
    BY DEF Complete
<1>1. /\ data[o] = <<>> /\ loads = 0 /\ added = {} /\ events = <<>>
      /\ read_job[o] = None /\ finalize_jobs[o] = {}
    BY DEF Init, Manager!Init
<1>2. Len(data[o]) = 0
    BY <1>1
<1> QED
    BY <1>1, <1>2 DEF Sequel

(* The chunks of every load are complete or on their way. *)
THEOREM LoadsAreComplete ==
    ASSUME MaxStops = 0, Results # "always"
    PROVE  Spec => []Complete
<1>1. Init => Complete
    BY StartIsComplete
<1>2. /\ Consistent /\ Regular /\ Complete /\ [Next]_vars
      /\ (Consistent /\ Regular)'
      => Complete'
  <2> SUFFICES ASSUME Consistent, Regular, Complete, [Next]_vars, (Consistent /\ Regular)'
               PROVE  Complete'
      OBVIOUS
  <2>1. Typed' /\ Queued'
      BY DEF Consistent
  <2> QED
      BY <2>1, CompleteIsKept
<1> QED
    BY <1>1, <1>2, LoadsAreRegular, PTL DEF Spec

(* When such a load is over, each object it read has all its chunks, from  *)
(* the first to the last.                                                  *)
THEOREM LoadsBringAllChunks ==
    ASSUME MaxStops = 0, Results # "always"
    PROVE  Spec => []LoadedInFull
<1>1. Consistent /\ Regular /\ Complete => LoadedInFull
  <2> SUFFICES ASSUME Consistent, Regular, Complete, ~load_in_progress,
                      NEW j \in ReadJobs, j \in added \ cancelled, j.load = loads
               PROVE  data[j.obj] = [i \in 1 .. Chunks[j.obj] |-> [j EXCEPT !.chunk = i]]
      BY DEF LoadedInFull
  <2>1. Typed /\ Queued /\ Undisturbed
      BY DEF Consistent, Regular
  <2>2. PICK o : o = j.obj
      OBVIOUS
  <2>3. o \in Objects /\ j = ChunkJob(o, loads, 0)
      BY <2>2, JobKinds
  <2>4. waiting = 0
      BY <2>1 DEF Undisturbed, Typed, CountersTyped
  <2>5. read_job[o] = None /\ finalize_jobs[o] = {}
      BY <2>1, <2>3 DEF Undisturbed, Loading
  <2>6. Chunks[o] \in Nat /\ Sequel(o, Len(data[o]), Chunks[o], loads)
    <3>1. PICK b \in Nat : Sequel(o, Len(data[o]), b, loads) /\ b = Chunks[o]
        BY <2>3, <2>4, <2>5 DEF Complete
    <3> QED
        BY <3>1
  <2>7. data[o] \in Seq(FinalizeJobs) /\ Len(data[o]) \in Nat
      BY <2>1, <2>3 DEF Typed, ObjectsTyped
  <2>8. Len(data[o]) = Chunks[o]
    <3>1. \A n \in Len(data[o]) + 1 .. Chunks[o] : FALSE
        BY <2>5, <2>6 DEF Sequel
    <3>2. Len(data[o]) <= Chunks[o]
        BY <2>6 DEF Sequel
    <3> QED
        BY <2>6, <2>7, <3>1, <3>2
  <2>9. \A i \in 1 .. Len(data[o]) : data[o][i] = ChunkJob(o, loads, i)
    <3>1. \A i \in 1 .. Len(data[o]) : (Len(data[o]) - Len(data[o])) + i = i
        BY <2>7
    <3> QED
        BY <2>6, <3>1 DEF Sequel
  <2>10. \A i : [j EXCEPT !.chunk = i] = ChunkJob(o, loads, i)
      BY <2>3 DEF ChunkJob
  <2>11. data[o] = [i \in 1 .. Len(data[o]) |-> data[o][i]]
      BY <2>7
  <2> QED
      BY <2>2, <2>8, <2>9, <2>10, <2>11
<1> QED
    BY <1>1, LoadsAreRegular, LoadsAreComplete, PTL

-----------------------------------------------------------------------------
(* The objects are read and finalized in turn, so the views never wait for *)
(* more data in vain.                                                      *)

(* Between the buffers of two objects the read job of the first is done,   *)
(* and while chunks of an object are finalized that is still read, those   *)
(* of other objects come only after its read job is done.                  *)
BuffersInTurn ==
    /\ \A p, q \in 1 .. Len(events) :
          /\ p < q /\ events[p].what = "buffer" /\ events[q].what = "buffer"
          /\ events[p].job.obj # events[q].job.obj
          => \E s \in p .. q - 1 : events[s] = Done(events[p].job)
    /\ \A o \in Objects : read_job[o] # None /\ finalize_jobs[o] # {} =>
          \A q \in 1 .. Len(events) :
              events[q].what = "buffer" /\ events[q].job.obj # o
                  => \E s \in 1 .. q - 1 : events[s] = Done(read_job[o])

(* The chunks of other objects are finalized before those of an object     *)
(* that is still read.                                                     *)
ChunksInTurn ==
    \A o, u \in Objects : o # u /\ read_job[o] # None =>
        \A k \in finalize_jobs[o], m \in finalize_jobs[u] : Before(m, k)

(* When another read job is at work, one that has read something is done. *)
LEMMA EarlierIsDone ==
    ASSUME Typed, Queued, Reading, Current, OneAtATime,
           NEW j \in ReadJobs, step[j] = "emit",
           NEW i \in ReadJobs, i = read_job[i.obj], i # j, row_count[i] # 0
    PROVE  Posted(Done(i))
<1>1. i.obj \in Objects /\ i # None /\ i \in Jobs /\ KindOf[i] = "db"
    BY JobKinds
<1>2. Pending(i) /\ step[i] # "new"
    BY <1>1 DEF Current, Reading
<1>3. line["db"][1] = j
    BY AtWork
<1>4. ASSUME InLine(i)
      PROVE  FALSE
  <2>1. PICK x \in 1 .. Len(line["db"]) : line["db"][x] = i
      BY <1>1, <1>4, PlaceInLine DEF InLine, Typed, LinesTyped
  <2> QED
      BY <1>2, <1>3, <2>1 DEF OneAtATime
<1> QED
    BY <1>2, <1>4 DEF Pending

(* What an object still reads has been read when a chunk of it is being    *)
(* finalized.                                                              *)
LEMMA FinalizedWasRead ==
    ASSUME Typed, Current, InOrder, NEW o \in Objects, read_job[o] # None, finalize_jobs[o] # {}
    PROVE  /\ read_job[o] \in ReadJobs /\ read_job[o].obj = o
           /\ row_count[read_job[o]] # 0
<1>1. read_job[o] \in ReadJobs /\ read_job[o].obj = o
    BY DEF Typed, ObjectsTyped, Current
<1>2. PICK a \in Nat, b \in Nat, l \in Nat : Sequel(o, a, b, l)
    BY DEF InOrder
<1>3. PICK n \in a + 1 .. b : TRUE
    BY <1>2 DEF Sequel
<1>4. b <= row_count[read_job[o]]
    BY <1>2 DEF Sequel, Unread
<1>5. row_count[read_job[o]] \in Nat
    BY <1>1 DEF Typed, ReadersTyped
<1> QED
    BY <1>1, <1>3, <1>4, <1>5

(* BuffersInTurn is kept by every step. *)
LEMMA BuffersInTurnAreKept ==
    ASSUME MaxStops = 0, Results # "always",
           Consistent, Regular, BuffersInTurn, Typed', [Next]_vars
    PROVE  BuffersInTurn'
<1> DEFINE Separated == \A p, q \in 1 .. Len(events) :
                            /\ p < q /\ events[p].what = "buffer" /\ events[q].what = "buffer"
                            /\ events[p].job.obj # events[q].job.obj
                            => \E s \in p .. q - 1 : events[s] = Done(events[p].job)
           Later(o, i) == \A q \in 1 .. Len(events) :
                              events[q].what = "buffer" /\ events[q].job.obj # o
                                  => \E s \in 1 .. q - 1 : events[s] = Done(i)
<1>1. /\ Typed /\ Queued /\ Reading /\ Current /\ InOrder
      /\ Undisturbed /\ OneAtATime /\ UpToDate
    BY DEF Consistent, Regular
<1>2. /\ Separated
      /\ \A o \in Objects : read_job[o] # None /\ finalize_jobs[o] # {} => Later(o, read_job[o])
    BY DEF BuffersInTurn
<1>3. ASSUME Separated',
             \A o \in Objects : read_job'[o] # None /\ finalize_jobs'[o] # {} =>
                 \E i : i = read_job'[o] /\ Later(o, i)'
      PROVE  BuffersInTurn'
    BY <1>3 DEF BuffersInTurn
<1>4. /\ Len(events) \in Nat /\ Len(events') \in Nat
      /\ \A j, n : Event("buffer", j, n).what = "buffer" /\ Event("buffer", j, n).job = j
      /\ \A j : Done(j).what = "done" /\ Done(j).job = j
  <2>1. Len(events) \in Nat /\ Len(events') \in Nat
      BY <1>1 DEF Typed, ReadersTyped
  <2> QED
      BY <2>1, SignalKinds
<1>5. /\ read_job \in [Objects -> ReadJobs \cup {None}]
      /\ finalize_jobs \in [Objects -> SUBSET FinalizeJobs]
      /\ \A o \in Objects : read_job[o] # None => read_job[o] \in ReadJobs /\ read_job[o].obj = o
    BY <1>1 DEF Typed, ObjectsTyped, Current
<1>6. ASSUME UNCHANGED <<events, read_job, finalize_jobs>>
      PROVE  BuffersInTurn'
    BY <1>6 DEF BuffersInTurn
<1>7. CASE Quiet \/ \E k \in {"db", "blocking"} : LetGo(k)
  <2>1. UNCHANGED <<events, read_job, finalize_jobs>>
      BY <1>7 DEF Quiet, LetGo, objectVars
  <2> QED
      BY <1>6, <2>1
<1>8. ASSUME NEW e, Continues(events, events', e), Len(events') = Len(events) + 1,
             UNCHANGED <<read_job, finalize_jobs>>,
             e.what = "buffer" =>
                 /\ \A p \in 1 .. Len(events) :
                       events[p].what = "buffer" /\ events[p].job.obj # e.job.obj
                           => \E s \in p .. Len(events) : events[s] = Done(events[p].job)
                 /\ \A o \in Objects :
                       read_job[o] # None /\ finalize_jobs[o] # {} /\ e.job.obj # o
                           => \E s \in 1 .. Len(events) : events[s] = Done(read_job[o])
      PROVE  BuffersInTurn'
  <2>1. /\ \A p \in 1 .. Len(events) : events'[p] = events[p]
        /\ events'[Len(events) + 1] = e
        /\ \A p \in 1 .. Len(events') : p \in 1 .. Len(events) \/ p = Len(events) + 1
      BY <1>4, <1>8 DEF Continues
  <2>2. ASSUME NEW p \in 1 .. Len(events'), NEW q \in 1 .. Len(events'), p < q,
               events'[p].what = "buffer", events'[q].what = "buffer",
               events'[p].job.obj # events'[q].job.obj
        PROVE  \E s \in p .. q - 1 : events'[s] = Done(events'[p].job)
    <3>1. p \in 1 .. Len(events) /\ events'[p] = events[p]
        BY <1>4, <1>8, <2>1, <2>2
    <3>2. \E s \in p .. q - 1 : events[s] = Done(events[p].job)
      <4>1. CASE q \in 1 .. Len(events)
          BY <1>2, <2>1, <2>2, <3>1, <4>1
      <4>2. CASE q = Len(events) + 1
        <5>1. e.what = "buffer" /\ events[p].what = "buffer" /\ events[p].job.obj # e.job.obj
            BY <2>1, <2>2, <3>1, <4>2
        <5>2. PICK s \in p .. Len(events) : events[s] = Done(events[p].job)
            BY <1>8, <3>1, <5>1
        <5>3. s \in p .. q - 1
            BY <1>4, <4>2
        <5> QED
            BY <5>2, <5>3
      <4> QED
          BY <2>1, <4>1, <4>2
    <3>3. PICK s \in p .. q - 1 : events[s] = Done(events[p].job)
        BY <3>2
    <3>4. s \in 1 .. Len(events)
        BY <1>4, <1>8, <2>2
    <3> QED
        BY <2>1, <3>1, <3>3, <3>4
  <2>3. ASSUME NEW o \in Objects, read_job'[o] # None, finalize_jobs'[o] # {},
               NEW i, i = read_job[o]
        PROVE  Later(o, i)'
    <3> SUFFICES ASSUME NEW q \in 1 .. Len(events'),
                        events'[q].what = "buffer", events'[q].job.obj # o
                 PROVE  \E s \in 1 .. q - 1 : events'[s] = Done(i)
        OBVIOUS
    <3>1. \E s \in 1 .. q - 1 : events[s] = Done(i)
      <4>1. CASE q \in 1 .. Len(events)
          BY <1>2, <1>8, <2>1, <2>3, <4>1
      <4>2. CASE q = Len(events) + 1
        <5>1. \E s \in 1 .. Len(events) : events[s] = Done(i)
            BY <1>8, <2>1, <2>3, <4>2
        <5> QED
            BY <1>4, <4>2, <5>1
      <4> QED
          BY <2>1, <4>1, <4>2
    <3>2. PICK s \in 1 .. q - 1 : events[s] = Done(i)
        BY <3>1
    <3>3. s \in 1 .. Len(events)
        BY <1>4, <1>8
    <3> QED
        BY <2>1, <3>2, <3>3
  <2>4. Separated'
      BY <2>2
  <2> QED
      BY <1>3, <1>8, <2>3, <2>4
<1>9. ASSUME NEW k \in {"db", "blocking"}, Emit(k)
      PROVE  BuffersInTurn'
  <2>1. PICK j : j = Head(line[k])
      OBVIOUS
  <2>2. Continues(events, events', Done(j)) /\ Len(events') = Len(events) + 1
      BY <1>1, <1>9, <2>1, EmitEvents DEF Undisturbed
  <2>3. UNCHANGED <<read_job, finalize_jobs>> /\ Done(j).what # "buffer"
      BY <1>4, <1>9, EmitLeaves DEF objectVars
  <2> QED
      BY <2>2, <2>3, <1>8
<1>10. ASSUME NEW j \in ReadJobs, ReadEmit(j)
       PROVE  BuffersInTurn'
  <2>1. UNCHANGED <<read_job, finalize_jobs>>
      BY <1>10 DEF ReadEmit, objectVars
  <2>2. /\ step[j] = "emit"
        /\ \/ events' = events
           \/ /\ Continues(events, events', Event("buffer", j, row_count[j] + 1))
              /\ Len(events') = Len(events) + 1
      BY <1>1, <1>10, BufferEmitted
  <2>3. ASSUME NEW p \in 1 .. Len(events), events[p].what = "buffer", events[p].job.obj # j.obj
        PROVE  \E s \in p .. Len(events) : events[s] = Done(events[p].job)
    <3>1. PICK i : i = events[p].job
        OBVIOUS
    <3>2. i \in ReadJobs /\ events[p].chunk \in 1 .. row_count[i]
        BY <1>1, <2>3, <3>1, EventKinds DEF Queued, JobsInEvents
    <3>3. Own(i) /\ i \notin FinalizeJobs /\ i.obj \in Objects
        BY <1>1, <3>1, <3>2, JobKinds DEF UpToDate
    <3>4. i = read_job[i.obj]
        BY <1>5, <3>3 DEF Own
    <3>5. row_count[i] # 0
        BY <3>2
    <3>6. PICK s \in 1 .. Len(events) : events[s] = Done(i)
        BY <1>1, <2>2, <2>3, <3>1, <3>2, <3>4, <3>5, EarlierIsDone DEF Posted
    <3>7. ~(s < p)
        BY <1>1, <1>4, <3>1, <3>6 DEF UpToDate
    <3>8. s \in p .. Len(events)
        BY <1>4, <3>7
    <3> QED
        BY <3>1, <3>6, <3>8
  <2>4. ASSUME NEW o \in Objects, read_job[o] # None, finalize_jobs[o] # {}, j.obj # o
        PROVE  \E s \in 1 .. Len(events) : events[s] = Done(read_job[o])
    <3>1. PICK i : i = read_job[o]
        OBVIOUS
    <3>2. i \in ReadJobs /\ i.obj = o /\ row_count[i] # 0
        BY <1>1, <2>4, <3>1, FinalizedWasRead
    <3>3. Posted(Done(i))
        BY <1>1, <2>2, <2>4, <3>1, <3>2, EarlierIsDone
    <3> QED
        BY <3>1, <3>3 DEF Posted
  <2>5. CASE events' = events
      BY <1>6, <2>1, <2>5
  <2>6. CASE /\ Continues(events, events', Event("buffer", j, row_count[j] + 1))
             /\ Len(events') = Len(events) + 1
    <3>1. PICK e : e = Event("buffer", j, row_count[j] + 1)
        OBVIOUS
    <3>2. e.job = j
        BY <1>4, <3>1
    <3> QED
        BY <1>8, <2>1, <2>3, <2>4, <2>6, <3>1, <3>2
  <2> QED
      BY <2>2, <2>5, <2>6
<1>11. ASSUME NEW name, NextEvent(name),
              \A o \in Objects : read_job'[o] # None /\ finalize_jobs'[o] # {} =>
                  /\ read_job'[o] = read_job[o] /\ events[1] # Done(read_job[o])
                  /\ Later(o, read_job[o])
       PROVE  BuffersInTurn'
  <2>1. /\ Len(events) \in Nat \ {0}
        /\ Len(events') = Len(events) - 1
        /\ \A p \in 1 .. Len(events') : events'[p] = events[p + 1]
      BY <1>1, <1>11, TakeEvent
  <2>2. /\ \A p \in 1 .. Len(events') : p + 1 \in 1 .. Len(events)
        /\ \A p, s \in Nat : \A q \in 1 .. Len(events') : p >= 1 /\ s \in p + 1 .. (q + 1) - 1 =>
               s - 1 \in p .. q - 1 /\ s - 1 \in 1 .. Len(events') /\ (s - 1) + 1 = s
      BY <2>1
  <2>3. ASSUME NEW p \in 1 .. Len(events'), NEW q \in 1 .. Len(events'), p < q,
               events'[p].what = "buffer", events'[q].what = "buffer",
               events'[p].job.obj # events'[q].job.obj
        PROVE  \E s \in p .. q - 1 : events'[s] = Done(events'[p].job)
    <3>1. /\ p + 1 \in 1 .. Len(events) /\ q + 1 \in 1 .. Len(events) /\ p + 1 < q + 1
          /\ events'[p] = events[p + 1] /\ events'[q] = events[q + 1]
        BY <2>1, <2>2, <2>3
    <3>2. PICK s \in p + 1 .. (q + 1) - 1 : events[s] = Done(events[p + 1].job)
        BY <1>2, <2>3, <3>1
    <3>3. s - 1 \in p .. q - 1 /\ events'[s - 1] = events[s]
      <4>1. p \in Nat /\ s \in Nat /\ p >= 1
          BY <3>2
      <4>2. s - 1 \in p .. q - 1 /\ s - 1 \in 1 .. Len(events') /\ (s - 1) + 1 = s
          BY <2>2, <3>2, <4>1
      <4> QED
          BY <2>1, <4>2
    <3> QED
        BY <3>1, <3>2, <3>3
  <2>4. ASSUME NEW o \in Objects, read_job'[o] # None, finalize_jobs'[o] # {}
        PROVE  \E i : i = read_job'[o] /\ Later(o, i)'
    <3>1. PICK i : i = read_job[o]
        OBVIOUS
    <3>2. i = read_job'[o] /\ events[1] # Done(i) /\ Later(o, i)
        BY <1>11, <2>4, <3>1
    <3>3. ASSUME NEW q \in 1 .. Len(events'),
                 events'[q].what = "buffer", events'[q].job.obj # o
          PROVE  \E s \in 1 .. q - 1 : events'[s] = Done(i)
      <4>1. q + 1 \in 1 .. Len(events) /\ events'[q] = events[q + 1]
          BY <2>1, <2>2
      <4>2. PICK s \in 1 .. (q + 1) - 1 : events[s] = Done(i)
          BY <3>2, <3>3, <4>1
      <4>3. s # 1
          BY <3>2, <4>2
      <4>4. s \in 1 + 1 .. (q + 1) - 1
          BY <4>2, <4>3
      <4>5. s - 1 \in 1 .. q - 1 /\ events'[s - 1] = events[s]
        <5>1. s \in Nat /\ 1 \in Nat /\ 1 >= 1
            BY <4>2
        <5>2. s - 1 \in 1 .. q - 1 /\ s - 1 \in 1 .. Len(events') /\ (s - 1) + 1 = s
            BY <2>2, <4>4, <5>1
        <5> QED
            BY <2>1, <5>2
      <4> QED
          BY <4>2, <4>5
    <3>4. Later(o, i)'
        BY <3>3
    <3> QED
        BY <3>2, <3>4
  <2>5. Separated'
      BY <2>3
  <2> QED
      BY <1>3, <2>4, <2>5
<1>12. CASE BufferSlot
  <2>1. PICK r : r = events[1].job
      OBVIOUS
  <2>2. /\ NextEvent("buffer") /\ UNCHANGED read_job
        /\ \/ UNCHANGED finalize_jobs
           \/ /\ r = read_job[r.obj]
              /\ \A o \in Objects : o # r.obj => finalize_jobs'[o] = finalize_jobs[o]
    <3>1. /\ NextEvent("buffer") /\ UNCHANGED read_job
          /\ \/ UNCHANGED finalize_jobs
             \/ /\ r = read_job[r.obj]
                /\ \E k : finalize_jobs' = [finalize_jobs EXCEPT ![r.obj] = @ \cup {k}]
        BY <1>1, <1>12, <2>1, BufferArrives
    <3> QED
        BY <1>5, <3>1
  <2>3. events[1].what = "buffer" /\ Len(events) \in Nat \ {0}
      BY <1>1, <2>2, TakeEvent
  <2>4. \A i : events[1] # Done(i)
      BY <1>4, <2>3
  <2>5. ASSUME NEW o \in Objects, read_job'[o] # None, finalize_jobs'[o] # {}
        PROVE  Later(o, read_job[o])
    <3>1. CASE finalize_jobs[o] # {}
        BY <1>2, <2>2, <2>5, <3>1
    <3>2. CASE finalize_jobs[o] = {}
      <4>1. r.obj = o /\ r = read_job[o]
          BY <2>2, <2>5, <3>2
      <4>2. ASSUME NEW q \in 1 .. Len(events), events[q].what = "buffer", events[q].job.obj # o
            PROVE  \E s \in 1 .. q - 1 : events[s] = Done(read_job[o])
        <5>1. 1 \in 1 .. Len(events) /\ 1 < q
          <6>1. q # 1
              BY <2>1, <4>1, <4>2
          <6> QED
              BY <2>3, <6>1
        <5> QED
            BY <1>2, <2>1, <2>3, <4>1, <4>2, <5>1
      <4> QED
          BY <4>2
    <3> QED
        BY <3>1, <3>2
  <2> QED
      BY <2>2, <2>4, <2>5, <1>11
<1>13. CASE ReadDoneSlot
  <2>1. PICK j : j = events[1].job
      OBVIOUS
  <2>2. /\ NextEvent("done") /\ j \in ReadJobs /\ UNCHANGED finalize_jobs
        /\ read_job' = [read_job EXCEPT ![j.obj] = None]
      BY <1>1, <1>13, <2>1, ReadEnds
  <2>3. ASSUME NEW o \in Objects, read_job'[o] # None, finalize_jobs'[o] # {}
        PROVE  /\ read_job'[o] = read_job[o] /\ events[1] # Done(read_job[o])
               /\ Later(o, read_job[o])
    <3>1. o # j.obj /\ read_job'[o] = read_job[o]
        BY <1>5, <2>2, <2>3
    <3>2. read_job[o].obj = o
        BY <1>5, <2>3, <3>1
    <3>3. events[1] # Done(read_job[o])
        BY <1>4, <2>1, <3>1, <3>2
    <3> QED
        BY <1>2, <2>2, <2>3, <3>1, <3>3
  <2> QED
      BY <2>2, <2>3, <1>11
<1>14. CASE FinalizeDoneSlot
  <2>1. PICK j : j = events[1].job
      OBVIOUS
  <2>2. /\ NextEvent("done") /\ j \in FinalizeJobs /\ UNCHANGED read_job
        /\ \/ UNCHANGED finalize_jobs
           \/ finalize_jobs' = [finalize_jobs EXCEPT ![j.obj] = @ \ {j}]
      BY <1>1, <1>14, <2>1, FinalizeEnds
  <2>3. ASSUME NEW o \in Objects, read_job'[o] # None, finalize_jobs'[o] # {}
        PROVE  /\ read_job'[o] = read_job[o] /\ events[1] # Done(read_job[o])
               /\ Later(o, read_job[o])
    <3>1. read_job[o] # j
        BY <1>5, <2>2, <2>3, JobKinds
    <3>2. events[1] # Done(read_job[o])
        BY <1>4, <2>1, <3>1
    <3>3. finalize_jobs[o] # {}
        BY <1>5, <2>2, <2>3
    <3> QED
        BY <1>2, <2>2, <2>3, <3>2, <3>3
  <2> QED
      BY <2>2, <2>3, <1>11
<1>15. CASE Load \/ ContinueLoad
  <2>1. Len(events') = 0 /\ \A o \in Objects : finalize_jobs'[o] = {}
      BY <1>1, <1>15, SteadyLoad
  <2>2. 1 .. Len(events') = {}
      BY <2>1
  <2> QED
      BY <2>1, <2>2, <1>3
<1> QED
    BY <1>1, <1>7, <1>9, <1>10, <1>12, <1>13, <1>14, <1>15, StepCases, NoStop

(* A step that does not start a load lets no object read that did not. *)
LEMMA NoReadStarts ==
    ASSUME MaxStops = 0, Typed, [Next]_vars, ~(Load \/ ContinueLoad),
           NEW o \in Objects, read_job'[o] # None
    PROVE  read_job'[o] = read_job[o]
<1>1. read_job \in [Objects -> ReadJobs \cup {None}]
    BY DEF Typed, ObjectsTyped
<1>2. ASSUME UNCHANGED read_job
      PROVE  read_job'[o] = read_job[o]
    BY <1>2
<1>3. CASE \/ \E k \in {"db", "blocking"} : Emit(k) \/ LetGo(k)
           \/ \E j \in ReadJobs : ReadEmit(j)
           \/ Quiet
    BY <1>2, <1>3, EmitLeaves DEF LetGo, ReadEmit, Quiet, objectVars
<1>4. CASE BufferSlot
    BY <1>2, <1>4 DEF BufferSlot, Abort, objectVars
<1>5. CASE FinalizeDoneSlot
    BY <1>2, <1>5, FinalizeEnds
<1>6. CASE ReadDoneSlot
  <2>1. PICK j : j = events[1].job
      OBVIOUS
  <2>2. read_job' = [read_job EXCEPT ![j.obj] = None]
      BY <1>6, <2>1, ReadEnds
  <2> QED
      BY <1>1, <2>2
<1> QED
    BY <1>3, <1>4, <1>5, <1>6, StepCases, NoStop

(* ChunksInTurn is kept by every step. *)
LEMMA ChunksInTurnAreKept ==
    ASSUME MaxStops = 0, Results # "always",
           Consistent, Regular, BuffersInTurn, ChunksInTurn, Typed', [Next]_vars
    PROVE  ChunksInTurn'
<1>1. /\ Typed /\ Queued /\ Reading /\ Current /\ Undisturbed /\ UpToDate
    BY DEF Consistent, Regular
<1>2. ASSUME NEW o \in Objects, NEW u \in Objects, o # u, read_job'[o] # None,
             NEW k \in finalize_jobs'[o], NEW m \in finalize_jobs'[u]
      PROVE  Before(m, k)'
  <2>1. ~(Load \/ ContinueLoad)
      BY <1>1, <1>2, SteadyLoad
  <2>2. read_job[o] # None
      BY <1>1, <1>2, <2>1, NoReadStarts
  <2>3. finalize_jobs \in [Objects -> SUBSET FinalizeJobs]
      BY <1>1 DEF Typed, ObjectsTyped
  <2>4. /\ \/ k \in finalize_jobs[o]
           \/ /\ BufferSlot /\ events[1].job = read_job[o] /\ k \in FinalizeJobs \ added
              /\ Continues(line["blocking"], line'["blocking"], k)
              /\ Len(line'["blocking"]) = Len(line["blocking"]) + 1
        /\ \/ m \in finalize_jobs[u] /\ ~(FinalizeDoneSlot /\ events[1] = Done(m))
           \/ /\ BufferSlot /\ events[1].job = read_job[u] /\ read_job[u] # None
      BY <1>1, <1>2, HeldFinalizeJobs, JobKinds
  <2>5. ASSUME k \in finalize_jobs[o], m \in finalize_jobs[u],
               ~(FinalizeDoneSlot /\ events[1] = Done(m))
        PROVE  Before(m, k)'
    <3>1. Before(m, k)
        BY <1>2, <2>2, <2>5 DEF ChunksInTurn
    <3>2. m \in added /\ k \in added \ cancelled /\ m # k /\ Pending(m)
        BY <1>1, <1>2, <2>5 DEF Current
    <3> QED
        BY <1>1, <2>3, <2>5, <3>1, <3>2, BeforeStays
  <2>6. ASSUME BufferSlot, k \in FinalizeJobs \ added, m \in finalize_jobs[u],
               Continues(line["blocking"], line'["blocking"], k),
               Len(line'["blocking"]) = Len(line["blocking"]) + 1
        PROVE  Before(m, k)'
    <3>1. m \in added
        BY <1>1, <2>6 DEF Current
    <3> QED
        BY <1>1, <2>6, <3>1, AddedComesLast
  <2>7. ASSUME BufferSlot, events[1].job = read_job[u], read_job[u] # None
        PROVE  k \notin finalize_jobs[o] /\ events[1].job # read_job[o]
    <3>1. NextEvent("buffer")
        BY <1>1, <2>7, BufferArrives
    <3>2. events[1].what = "buffer" /\ 1 \in 1 .. Len(events)
        BY <1>1, <3>1, TakeEvent
    <3>3. events[1].job.obj = u /\ read_job[o].obj = o
        BY <1>1, <2>2, <2>7 DEF Current
    <3>4. ASSUME k \in finalize_jobs[o]
          PROVE  FALSE
      <4>1. \E s \in 1 .. 1 - 1 : events[s] = Done(read_job[o])
          BY <1>2, <2>2, <3>2, <3>3, <3>4 DEF BuffersInTurn
      <4> QED
          BY <4>1
    <3> QED
        BY <1>2, <3>3, <3>4
  <2> QED
      BY <2>4, <2>5, <2>6, <2>7
<1> QED
    BY <1>2 DEF ChunksInTurn

(* What an object has is announced, or more of it has been read; and all   *)
(* of it is when the object does not load.                                 *)
Announced ==
    \A o \in Objects :
        /\ read_job[o] # None =>
               announced[o] = Len(data[o]) \/ Len(data[o]) < row_count[read_job[o]]
        /\ ~Loading(o) => announced[o] = Len(data[o])

(* Announced is kept by every step. *)
LEMMA AnnouncedIsKept ==
    ASSUME MaxStops = 0, Results # "always",
           Consistent, Regular, Complete, ChunksInTurn, Announced, [Next]_vars
    PROVE  Announced'
<1> SUFFICES ASSUME NEW o \in Objects
             PROVE  /\ read_job'[o] # None =>
                           \/ announced'[o] = Len(data'[o])
                           \/ Len(data'[o]) < row_count'[read_job'[o]]
                    /\ ~Loading(o)' => announced'[o] = Len(data'[o])
    BY DEF Announced
<1>1. /\ Typed /\ Queued /\ Reading /\ Current /\ Undisturbed /\ OneAtATime /\ UpToDate
    BY DEF Consistent, Regular
<1>2. /\ read_job[o] # None => announced[o] = Len(data[o]) \/ Len(data[o]) < row_count[read_job[o]]
      /\ ~Loading(o) => announced[o] = Len(data[o])
    BY DEF Announced
<1>3. /\ read_job \in [Objects -> ReadJobs \cup {None}] /\ row_count \in [ReadJobs -> Nat]
      /\ finalize_jobs \in [Objects -> SUBSET FinalizeJobs]
      /\ data \in [Objects -> Seq(FinalizeJobs)] /\ announced \in [Objects -> Nat]
    BY <1>1 DEF Typed, ObjectsTyped, ReadersTyped
<1>4. Len(data[o]) \in Nat
    BY <1>3
<1>5. ASSUME read_job'[o] = read_job[o], finalize_jobs'[o] = finalize_jobs[o],
             data'[o] = data[o], announced'[o] = announced[o], UNCHANGED row_count
      PROVE  /\ read_job'[o] # None =>
                    \/ announced'[o] = Len(data'[o])
                    \/ Len(data'[o]) < row_count'[read_job'[o]]
             /\ ~Loading(o)' => announced'[o] = Len(data'[o])
    BY <1>2, <1>5 DEF Loading
<1>6. CASE Quiet \/ \E k \in {"db", "blocking"} : Emit(k) \/ LetGo(k)
  <2>1. UNCHANGED <<read_job, finalize_jobs, data, announced, row_count>>
      BY <1>6, EmitLeaves DEF Quiet, LetGo, objectVars, readerVars
  <2> QED
      BY <2>1, <1>5
<1>7. CASE \E j \in ReadJobs : ReadEmit(j)
  <2>1. PICK j \in ReadJobs : ReadEmit(j)
      BY <1>7
  <2>2. /\ UNCHANGED <<read_job, finalize_jobs, data, announced>>
        /\ row_count' = [row_count EXCEPT ![j] = row_count[j] + 1]
      BY <2>1 DEF ReadEmit, objectVars
  <2>3. ASSUME NEW i \in ReadJobs
        PROVE  row_count[i] \in Nat /\ row_count[i] <= row_count'[i] /\ row_count'[i] \in Nat
      BY <1>3, <2>2
  <2>4. ASSUME read_job'[o] # None
        PROVE  announced'[o] = Len(data'[o]) \/ Len(data'[o]) < row_count'[read_job'[o]]
    <3>1. PICK i : i = read_job[o]
        OBVIOUS
    <3>2. i \in ReadJobs /\ i = read_job'[o] /\ i # None
        BY <1>3, <2>2, <2>4, <3>1
    <3>3. announced[o] = Len(data[o]) \/ Len(data[o]) < row_count[i]
        BY <1>2, <3>1, <3>2
    <3>4. CASE Len(data[o]) < row_count[i]
      <4>1. Len(data[o]) < row_count'[i]
          BY <1>4, <2>3, <3>2, <3>4
      <4> QED
          BY <2>2, <3>2, <4>1
    <3> QED
        BY <2>2, <3>3, <3>4
  <2>5. ~Loading(o)' => announced'[o] = Len(data'[o])
      BY <1>2, <2>2 DEF Loading
  <2> QED
      BY <2>4, <2>5
<1>8. CASE BufferSlot
  <2>1. UNCHANGED <<read_job, data, announced, row_count>>
      BY <1>1, <1>8, BufferArrives
  <2>2. finalize_jobs[o] \subseteq finalize_jobs'[o]
      BY <1>1, <1>3, <1>8, BufferArrives
  <2>3. ~Loading(o)' => ~Loading(o)
      BY <2>1, <2>2 DEF Loading
  <2> QED
      BY <1>2, <2>1, <2>3
<1>9. CASE ReadDoneSlot
  <2>1. PICK j : j = events[1].job
      OBVIOUS
  <2>2. /\ NextEvent("done") /\ j \in ReadJobs
        /\ UNCHANGED <<row_count, finalize_jobs, data, announced>>
        /\ read_job' = [read_job EXCEPT ![j.obj] = None]
      BY <1>1, <1>9, <2>1, ReadEnds
  <2>3. CASE o # j.obj
      BY <1>3, <2>2, <2>3, <1>5
  <2>4. CASE o = j.obj
    <3>1. read_job'[o] = None
        BY <1>3, <2>2, <2>4
    <3>2. read_job[o] = j /\ j # None
        BY <1>1, <2>1, <2>2, <2>4, SignalOfTheLoad, JobKinds
    <3>3. ASSUME finalize_jobs[o] = {}
          PROVE  announced[o] = Len(data[o])
      <4>1. PICK b \in Nat : Sequel(o, Len(data[o]), b, loads)
          BY DEF Complete
      <4>2. /\ Len(data[o]) <= b /\ Unread(j, b)
            /\ \A n \in Len(data[o]) + 1 .. b : FALSE
          BY <3>2, <3>3, <4>1 DEF Sequel
      <4>3. b = Len(data[o])
          BY <1>4, <4>1, <4>2
      <4>4. b = Chunks[o]
          BY <1>1, <2>1, <2>2, <2>4, <4>1, <4>2, ReadToTheEnd
      <4>5. row_count[j] <= Chunks[o] /\ row_count[j] \in Nat
          BY <1>1, <1>3, <2>2, <2>4 DEF Reading
      <4>6. ~(Len(data[o]) < row_count[j])
          BY <1>4, <4>3, <4>4, <4>5
      <4> QED
          BY <1>2, <3>2, <4>6
    <3>4. ~Loading(o)' => announced'[o] = Len(data'[o])
        BY <2>2, <3>3 DEF Loading
    <3> QED
        BY <3>1, <3>4
  <2> QED
      BY <2>3, <2>4
<1>10. CASE FinalizeDoneSlot
  <2>1. PICK j : j = events[1].job
      OBVIOUS
  <2>2. /\ NextEvent("done") /\ j \in FinalizeJobs /\ j \in finalize_jobs[j.obj]
      BY <1>1, <1>10, <2>1, FinalizeEnds, SignalOfTheLoad
  <2>3. /\ UNCHANGED <<row_count, read_job>>
        /\ finalize_jobs' = [finalize_jobs EXCEPT ![j.obj] = @ \ {j}]
        /\ data' = [data EXCEPT ![j.obj] = Append(@, j)]
        /\ \/ /\ StillLoading(j.obj)
              /\ announced' = IF DelayNewData(j.obj) THEN announced
                              ELSE [announced EXCEPT ![j.obj] = Len(data'[j.obj])]
           \/ announced' = [announced EXCEPT ![j.obj] = Len(data'[j.obj])]
      BY <1>1, <1>10, <2>1, <2>2, FinalizeEnds
  <2>4. CASE o # j.obj
      BY <1>3, <2>3, <2>4, <1>5
  <2>5. CASE o = j.obj
    <3>1. Len(data'[o]) = Len(data[o]) + 1
        BY <1>3, <2>2, <2>3, <2>5
    <3>2. CASE announced' = [announced EXCEPT ![j.obj] = Len(data'[j.obj])]
        BY <1>3, <2>5, <3>2
    <3>3. CASE StillLoading(o) /\ DelayNewData(o)
      <4>1. Loading(o)'
          BY <3>3 DEF StillLoading, Loading
      <4>2. ASSUME read_job'[o] # None
            PROVE  Len(data'[o]) < row_count'[read_job'[o]]
        <5>1. ~OtherPostProcessing(o)
          <6>1. SUFFICES ASSUME NEW u \in Objects, u # o, NEW m \in finalize_jobs[u]
                         PROVE  FALSE
              BY DEF OtherPostProcessing
          <6>2. Before(m, j)
              BY <2>2, <2>3, <2>5, <4>2, <6>1 DEF ChunksInTurn
          <6>3. 1 \in 1 .. Len(events) /\ events[1] = Done(j)
            <7>1. 1 \in 1 .. Len(events) /\ events[1].what = "done"
                BY <1>1, <2>2, TakeEvent
            <7> QED
                BY <1>1, <2>1, <7>1, EventKinds
          <6>4. \E r \in 1 .. 1 - 1 : events[r] = Done(m)
              BY <6>2, <6>3 DEF Before
          <6> QED
              BY <6>4
        <5>2. Len(data[o]) + 1 < row_count[read_job[o]]
            BY <3>3, <5>1 DEF DelayNewData
        <5> QED
            BY <2>3, <3>1, <5>2
      <4> QED
          BY <4>1, <4>2
    <3> QED
        BY <2>3, <2>5, <3>2, <3>3
  <2> QED
      BY <2>4, <2>5
<1>11. CASE Load \/ ContinueLoad
  <2>1. /\ ~Loading(o) /\ data'[o] = <<>>
        /\ announced'[o] = 0 \/ (announced'[o] = announced[o] /\ data[o] = <<>>)
      BY <1>1, <1>11, SteadyLoad
  <2>2. announced'[o] = 0
      BY <1>2, <2>1
  <2> QED
      BY <2>1, <2>2
<1> QED
    BY <1>1, <1>6, <1>7, <1>8, <1>9, <1>10, <1>11, StepCases, NoStop

(* What arrives in turn is announced in time: the invariant of newDataSignal. *)
THEOREM SignalsAreCertain ==
    ASSUME MaxStops = 0, Results # "always"
    PROVE  Spec => [](BuffersInTurn /\ ChunksInTurn /\ Announced)
<1>1. Init => BuffersInTurn /\ ChunksInTurn /\ Announced
  <2> SUFFICES ASSUME Init
               PROVE  BuffersInTurn /\ ChunksInTurn /\ Announced
      OBVIOUS
  <2>1. /\ 1 .. Len(events) = {}
        /\ \A o \in Objects : read_job[o] = None /\ announced[o] = 0 /\ data[o] = <<>>
      BY DEF Init
  <2> QED
      BY <2>1 DEF BuffersInTurn, ChunksInTurn, Announced
<1>2. /\ Consistent /\ Regular /\ Complete
      /\ BuffersInTurn /\ ChunksInTurn /\ Announced
      /\ [Next]_vars /\ Consistent'
      => (BuffersInTurn /\ ChunksInTurn /\ Announced)'
  <2> SUFFICES ASSUME Consistent, Regular, Complete, BuffersInTurn, ChunksInTurn, Announced,
                      [Next]_vars, Consistent'
               PROVE  (BuffersInTurn /\ ChunksInTurn /\ Announced)'
      OBVIOUS
  <2>1. Typed'
      BY DEF Consistent
  <2> QED
      BY <2>1, BuffersInTurnAreKept, ChunksInTurnAreKept, AnnouncedIsKept
<1> QED
    BY <1>1, <1>2, LoadsAreRegular, LoadsAreComplete, PTL DEF Spec

(* newDataSignal is delayed in the hope of more data, but never in vain:   *)
(* when loading is over the views were told of all data there is.          *)
THEOREM ViewsHearOfAllData ==
    ASSUME MaxStops = 0, Results # "always"
    PROVE  Spec => []AllDataAnnounced
<1>1. Consistent /\ Regular /\ Announced => AllDataAnnounced
    BY DEF Regular, Undisturbed, Announced, AllDataAnnounced
<1> QED
    BY <1>1, LoadsAreRegular, SignalsAreCertain, PTL

-----------------------------------------------------------------------------
(* Loads implement LoadedData.                                             *)

(* No chunk is finalized of an object that the load does not read. *)
ReadFirst == \A j \in added : ChunkJob(j.obj, j.load, 0) \in added

(* ReadFirst is kept by every step. *)
LEMMA ReadFirstIsKept ==
    ASSUME MaxStops = 0, Typed, Queued, Reading, ReadFirst, [Next]_vars
    PROVE  ReadFirst'
<1>1. CASE UNCHANGED added
    BY <1>1 DEF ReadFirst
<1>2. CASE \/ \E k \in {"db", "blocking"} : Emit(k) \/ LetGo(k)
           \/ \E j \in ReadJobs : ReadEmit(j)
           \/ Quiet
  <2>1. UNCHANGED added
      BY <1>2, EmitLeaves DEF LetGo, Manager!Leave, ReadEmit, Quiet, managerVars
  <2> QED
      BY <2>1, <1>1
<1>3. CASE BufferSlot
  <2>1. PICK r, n : r = events[1].job /\ n = events[1].chunk
      OBVIOUS
  <2>2. /\ NextEvent("buffer") /\ r \in ReadJobs
        /\ UNCHANGED added \/ added' = added \cup {ChunkJob(r.obj, r.load, n)}
      BY <1>3, <2>1, BufferArrives
  <2>3. Len(events) \in Nat \ {0} /\ events[1].what = "buffer"
      BY <2>2, TakeEvent
  <2>4. r \in added
      BY <2>1, <2>3 DEF Queued, JobsInEvents
  <2>5. ChunkJob(r.obj, r.load, 0) \in added
      BY <2>4 DEF ReadFirst
  <2>6. ChunkJob(r.obj, r.load, n).obj = r.obj /\ ChunkJob(r.obj, r.load, n).load = r.load
      BY DEF ChunkJob
  <2> QED
      BY <1>1, <2>2, <2>5, <2>6 DEF ReadFirst
<1>4. CASE ReadDoneSlot \/ FinalizeDoneSlot
  <2>1. UNCHANGED added
      BY <1>4, ReadEnds, FinalizeEnds
  <2> QED
      BY <2>1, <1>1
<1>5. ASSUME NEW wanted \in SUBSET Objects, StartLoads(wanted), loads < MaxLoads
      PROVE  ReadFirst'
  <2>1. PICK l : l = loads + 1
      OBVIOUS
  <2>2. added' = added \cup {ChunkJob(o, l, 0) : o \in wanted}
      BY <1>5, <2>1, LoadsStart
  <2>3. \A o : ChunkJob(o, l, 0).obj = o /\ ChunkJob(o, l, 0).load = l
      BY DEF ChunkJob
  <2> QED
      BY <2>2, <2>3 DEF ReadFirst
<1>6. CASE Load \/ ContinueLoad
    BY <1>1, <1>5, <1>6, LoadCases
<1> QED
    BY <1>2, <1>3, <1>4, <1>6, StepCases, NoStop

(* A load reads the objects that were chosen for it. *)
LEMMA WantedOfLoad ==
    ASSUME Typed, Queued, NEW wanted \in SUBSET Objects, loads < MaxLoads, StartLoads(wanted)
    PROVE  Wanted' = wanted /\ loads' = loads + 1
<1>1. PICK l : l = loads + 1
    OBVIOUS
<1>2. added' = added \cup {ChunkJob(o, l, 0) : o \in wanted} /\ loads' = l
    BY <1>1, LoadsStart
<1>3. ASSUME NEW o \in Objects
      PROVE  ChunkJob(o, l, 0) \in added' <=> o \in wanted
  <2>1. ChunkJob(o, l, 0) \notin added
    <3>1. ChunkJob(o, l, 0).load = l /\ ~(l <= loads)
        BY <1>1 DEF ChunkJob, Typed, CountersTyped
    <3> QED
        BY <3>1 DEF Queued
  <2>2. \A u \in wanted : ChunkJob(u, l, 0) = ChunkJob(o, l, 0) => u = o
      BY DEF ChunkJob
  <2> QED
      BY <1>2, <2>1, <2>2
<1>4. Wanted' = {o \in Objects : ChunkJob(o, l, 0) \in added'}
    BY <1>2 DEF Wanted, ChunkJob
<1> QED
    BY <1>1, <1>2, <1>3, <1>4

(* When a load is over everything is there. *)
LEMMA OverIsAllThere ==
    ASSUME Typed', Undisturbed', LoadedInFull', AllDataAnnounced', ~load_in_progress'
    PROVE  Promise!AllThere'
<1>1. ASSUME NEW o \in Wanted'
      PROVE  Len(data'[o]) = Chunks[o]
  <2>1. PICK j : j = ChunkJob(o, loads', 0)
      OBVIOUS
  <2>2. j \in added' /\ o \in Objects /\ j.obj = o /\ j.load = loads' /\ j.chunk = 0
      BY <1>1, <2>1 DEF Wanted, ChunkJob
  <2>3. j \in ReadJobs
    <3>1. j \in Jobs
        BY <2>2 DEF Typed, LinesTyped
    <3> QED
        BY <2>2, <3>1, JobKinds, ChunksAssumption
  <2>4. cancelled' = {}
      BY DEF Undisturbed
  <2>5. data'[o] = [i \in 1 .. Chunks[o] |-> [j EXCEPT !.chunk = i]]
      BY <2>2, <2>3, <2>4 DEF LoadedInFull
  <2>6. Chunks[o] \in Nat
      BY <2>2, ChunksAssumption
  <2> QED
      BY <2>5, <2>6
<1>2. \A o \in Objects : announced'[o] = Len(data'[o])
    BY DEF AllDataAnnounced
<1> QED
    BY <1>1, <1>2 DEF Promise!AllThere, Promise!DBObjects, Objects

(* loadSlot asks for a load or begins it, the end of its wait begins it. *)
LEMMA LoadsBegin ==
    ASSUME Typed, Queued, Undisturbed, UpToDate, Announced, Results # "always", Typed',
           Load \/ ContinueLoad
    PROVE  Promise!Request \/ Promise!Begin
<1>1. /\ waiting \in Nat /\ loads \in Nat
      /\ load_in_progress \in BOOLEAN /\ load_in_progress' \in BOOLEAN
    BY DEF Typed, CountersTyped
<1>2. ~load_in_progress \/ waiting > 0
    BY DEF Load, Free, ContinueLoad
<1>3. Promise!Emptied
  <2>1. /\ data' \in [Objects -> Seq(FinalizeJobs)]
        /\ announced' \in [Objects -> Nat]
      BY DEF Typed, ObjectsTyped
  <2>2. ASSUME NEW o \in Objects
        PROVE  data'[o] = <<>> /\ announced'[o] = 0
    <3>1. /\ ~Loading(o) /\ data'[o] = <<>>
          /\ announced'[o] = 0 \/ (announced'[o] = announced[o] /\ data[o] = <<>>)
        BY SteadyLoad
    <3>2. announced[o] = Len(data[o])
        BY <3>1 DEF Announced
    <3> QED
        BY <3>1, <3>2
  <2> QED
      BY <2>1, <2>2 DEF Promise!Emptied, Promise!DBObjects, Objects
<1>4. CASE waiting' = 1 /\ load_in_progress' /\ UNCHANGED <<added, loads>>
  <2>1. ~ContinueLoad
    <3>1. ContinueLoad => loads' = loads + 1
        BY DEF ContinueLoad, StartLoads
    <3> QED
        BY <1>1, <1>4, <3>1
  <2>2. ~load_in_progress
    <3>1. Load => ~load_in_progress
        BY DEF Load, Free
    <3> QED
        BY <2>1, <3>1
  <2>3. Wanted' = Wanted
      BY <1>4 DEF Wanted
  <2>4. load_in_progress' = TRUE /\ (waiting > 0)' = TRUE
      BY <1>1, <1>4
  <2> QED
      BY <1>3, <1>4, <2>2, <2>3, <2>4 DEF Promise!Request
<1>5. ASSUME waiting' = 0, NEW wanted \in SUBSET Objects, StartLoads(wanted), loads < MaxLoads,
             load_in_progress' <=> wanted # {}
      PROVE  Promise!Begin
  <2>1. Wanted' = wanted /\ loads' = loads + 1
      BY <1>5, WantedOfLoad
  <2>2. (waiting > 0)' = FALSE
      BY <1>5
  <2>3. load_in_progress' = (wanted # {})
      BY <1>1, <1>5
  <2> QED
      BY <1>2, <1>3, <2>1, <2>2, <2>3 DEF Promise!Begin, Promise!DBObjects, Objects
<1> QED
  <2>1. \/ waiting' = 1 /\ load_in_progress' /\ UNCHANGED <<added, loads>>
        \/ /\ waiting' = 0
           /\ \E wanted \in SUBSET Objects :
                 /\ StartLoads(wanted) /\ loads < MaxLoads
                 /\ load_in_progress' <=> wanted # {}
      BY SteadyLoad
  <2> QED
      BY <2>1, <1>4, <1>5

(* The chunk that a finalize job is done with is the next of the object. *)
LEMMA NextChunk ==
    ASSUME Typed, Queued, Reading, Current, Chain, InSequence, Undisturbed, UpToDate, Complete,
           Results # "always", Typed', [Next]_vars, FinalizeDoneSlot
    PROVE  LET o == events[1].job.obj IN
           events[1].job = ChunkJob(o, loads, Len(data[o]) + 1)
<1>0. PICK j, o : j = events[1].job /\ o = j.obj
    OBVIOUS
<1>1. /\ NextEvent("done") /\ j \in FinalizeJobs
      /\ \/ j \notin finalize_jobs[o]
         \/ data' = [data EXCEPT ![o] = Append(@, j)]
    BY <1>0, FinalizeEnds
<1>2. j \in finalize_jobs[o] /\ o \in Objects
    BY <1>0, <1>1, SignalOfTheLoad, JobKinds
<1>3. Len(events) \in Nat \ {0} /\ events[1].what = "done"
    BY <1>1, TakeEvent
<1>4. data[o] \in Seq(FinalizeJobs)
    BY <1>2 DEF Typed, ObjectsTyped
<1>5. Len(data'[o]) = Len(data[o]) + 1
  <2>1. data'[o] = Append(data[o], j)
      BY <1>1, <1>2 DEF Typed, ObjectsTyped
  <2> QED
      BY <1>4, <2>1
<1>6. PICK a \in Nat, b \in Nat, l \in Nat : a = Len(data[o]) /\ l = loads /\ Sequel(o, a, b, l)
  <2>1. PICK b \in Nat : Sequel(o, Len(data[o]), b, loads)
      BY <1>2 DEF Complete
  <2>2. Len(data[o]) \in Nat /\ loads \in Nat
      BY <1>4 DEF Typed, CountersTyped
  <2> QED
      BY <2>1, <2>2
<1>7. \/ Sequel(o, a, b, l)'
      \/ BufferSlot
      \/ events[1] = Done(ChunkJob(o, l, a + 1))
      \/ Load \/ ContinueLoad
    BY <1>2, <1>6, OrderIsKept
<1>8. ~Sequel(o, a, b, l)'
  <2>1. Sequel(o, a, b, l)' => Len(data'[o]) <= a
      BY DEF Sequel
  <2> QED
      BY <1>5, <1>6, <2>1
<1>9. ~BufferSlot
  <2>1. BufferSlot => NextEvent("buffer")
      BY DEF BufferSlot
  <2> QED
      BY <1>3, <2>1, TakeEvent
<1>10. ~(Load \/ ContinueLoad)
    BY <1>3, SteadyLoad
<1>11. Done(ChunkJob(o, l, a + 1)).job = ChunkJob(o, l, a + 1)
    BY SignalKinds
<1> QED
    BY <1>0, <1>6, <1>7, <1>8, <1>9, <1>10, <1>11

(* It is added to the data, and the load may be over with it. *)
LEMMA ChunksAreAdded ==
    ASSUME Typed, Queued, Reading, Current, Chain, InSequence, Undisturbed, UpToDate, Complete,
           ReadFirst, Results # "always", [Next]_vars, FinalizeDoneSlot,
           Typed', Undisturbed', LoadedInFull', AllDataAnnounced'
    PROVE  \E o \in Objects : Promise!AddChunk(o)
<1>1. PICK j, o : j = events[1].job /\ o = j.obj
    OBVIOUS
<1>2. /\ NextEvent("done") /\ j \in FinalizeJobs
      /\ UNCHANGED <<added, waiting, loads>>
      /\ \/ j \notin finalize_jobs[o]
         \/ /\ data' = [data EXCEPT ![o] = Append(@, j)]
            /\ \/ announced' = IF DelayNewData(o) THEN announced
                                ELSE [announced EXCEPT ![o] = Len(data'[o])]
               \/ announced' = [announced EXCEPT ![o] = Len(data'[o])]
            /\ UNCHANGED frontVars \/ FinishLoading
    BY <1>1, FinalizeEnds
<1>3. load_in_progress /\ waiting = 0 /\ j \in finalize_jobs[o] /\ o \in Objects
    BY <1>1, <1>2, SignalOfTheLoad, JobKinds
<1>4. j = ChunkJob(o, loads, Len(data[o]) + 1)
    BY <1>1, NextChunk
<1>5. j.load = loads /\ j.chunk = Len(data[o]) + 1
    BY <1>4 DEF ChunkJob
<1>6. Len(data[o]) \in Nat
    BY <1>3 DEF Typed, ObjectsTyped
<1>7. o \in Wanted
  <2>1. j \in added
      BY <1>3 DEF Current
  <2>2. ChunkJob(o, loads, 0) \in added
      BY <1>1, <1>5, <2>1 DEF ReadFirst
  <2> QED
      BY <1>3, <2>2 DEF Wanted, ChunkJob
<1>8. Len(data[o]) < Chunks[o]
  <2>1. j.chunk \in 1 .. Chunks[o] /\ Chunks[o] \in Nat
      BY <1>1, <1>2, <1>3, JobKinds, ChunksAssumption
  <2> QED
      BY <1>5, <1>6, <2>1
<1>9. data' = [data EXCEPT ![o] = Append(@, Promise!Chunk(o, Len(@) + 1))]
  <2>1. Promise!Chunk(o, Len(data[o]) + 1) = j
      BY <1>4 DEF Promise!Chunk, ChunkJob
  <2> QED
      BY <1>2, <1>3, <2>1
<1>10. announced' = announced \/ announced' = [announced EXCEPT ![o] = Len(data'[o])]
    BY <1>2, <1>3
<1>11. Wanted' = Wanted /\ (waiting > 0)' = (waiting > 0) /\ loads' = loads
    BY <1>2 DEF Wanted
<1>12. load_in_progress' = TRUE \/ (load_in_progress' = FALSE /\ Promise!AllThere')
  <2>1. load_in_progress' \in BOOLEAN
      BY DEF Typed, CountersTyped
  <2>2. ~load_in_progress' => Promise!AllThere'
      BY OverIsAllThere
  <2> QED
      BY <2>1, <2>2
<1>13. Promise!AddChunk(o)
    BY <1>3, <1>7, <1>8, <1>9, <1>10, <1>11, <1>12 DEF Promise!AddChunk
<1> QED
    BY <1>3, <1>13

(* The done signal of a read job may end the load. *)
LEMMA ReadsMayEnd ==
    ASSUME Typed, Undisturbed, UpToDate, ReadDoneSlot,
           Typed', Undisturbed', LoadedInFull', AllDataAnnounced'
    PROVE  Promise!End \/ UNCHANGED Promise!promiseVars
<1>1. /\ NextEvent("done")
      /\ UNCHANGED <<added, waiting, loads, data, announced>>
      /\ UNCHANGED frontVars \/ FinishLoading
    BY ReadEnds
<1>2. load_in_progress /\ waiting = 0
    BY <1>1, SignalOfTheLoad
<1>3. Wanted' = Wanted /\ (waiting > 0)' = (waiting > 0)
    BY <1>1 DEF Wanted
<1>4. CASE UNCHANGED frontVars
    BY <1>1, <1>3, <1>4 DEF frontVars, Promise!promiseVars
<1>5. CASE FinishLoading
  <2>1. load_in_progress' = FALSE
      BY <1>5 DEF FinishLoading
  <2>2. Promise!AllThere'
      BY <2>1, OverIsAllThere
  <2>3. Promise!AllThere
      BY <1>1, <1>3, <2>2 DEF Promise!AllThere
  <2> QED
      BY <1>1, <1>2, <1>3, <2>1, <2>3 DEF Promise!End
<1> QED
    BY <1>1, <1>4, <1>5

(* Every step of a load is one of what is promised, or none of it. *)
LEMMA StepsKeepPromise ==
    ASSUME MaxStops = 0, Results # "always",
           Consistent, Regular, Complete, Announced, ReadFirst, [Next]_vars,
           Consistent', Regular', LoadedInFull', AllDataAnnounced'
    PROVE  [Promise!Next]_(Promise!promiseVars)
<1>1. /\ Typed /\ Queued /\ Reading /\ Current /\ Chain /\ InSequence
      /\ Undisturbed /\ UpToDate /\ Typed' /\ Undisturbed'
    BY DEF Consistent, Regular
<1>2. ASSUME UNCHANGED <<added, waiting, loads, data, announced, load_in_progress>>
      PROVE  UNCHANGED Promise!promiseVars
    BY <1>2 DEF Promise!promiseVars, Wanted
<1>3. CASE \/ \E k \in {"db", "blocking"} : Emit(k) \/ LetGo(k)
           \/ \E j \in ReadJobs : ReadEmit(j)
           \/ Quiet
  <2>1. UNCHANGED <<added, waiting, loads, data, announced, load_in_progress>>
      BY <1>3, EmitLeaves DEF LetGo, Manager!Leave, ReadEmit, Quiet, managerVars, objectVars,
                  userVars, frontVars
  <2> QED
      BY <2>1, <1>2
<1>4. CASE BufferSlot
  <2>1. PICK j : j = ChunkJob(events[1].job.obj, events[1].job.load, events[1].chunk)
      OBVIOUS
  <2>2. /\ UNCHANGED <<waiting, loads, data, announced, load_in_progress>>
        /\ \/ UNCHANGED added
           \/ j \in FinalizeJobs /\ added' = added \cup {j}
      BY <1>1, <1>4, <2>1, BufferArrives
  <2>3. ASSUME NEW o, j \in FinalizeJobs
        PROVE  ChunkJob(o, loads, 0) # j
    <3>1. j.chunk # 0
        BY <2>3, JobKinds, ChunksAssumption
    <3> QED
        BY <3>1 DEF ChunkJob
  <2>4. Wanted' = Wanted
      BY <2>2, <2>3 DEF Wanted, ChunkJob
  <2> QED
      BY <2>2, <2>4 DEF Promise!promiseVars
<1>5. CASE ReadDoneSlot
    BY <1>1, <1>5, ReadsMayEnd DEF Promise!Next
<1>6. CASE FinalizeDoneSlot
  <2>1. \E o \in Objects : Promise!AddChunk(o)
      BY <1>1, <1>6, ChunksAreAdded
  <2> QED
      BY <2>1 DEF Promise!Next, Promise!DBObjects, Objects
<1>7. CASE Load \/ ContinueLoad
    BY <1>1, <1>7, LoadsBegin DEF Promise!Next
<1> QED
    BY <1>1, <1>3, <1>4, <1>5, <1>6, <1>7, StepCases, NoStop

(* Loads that are not stopped and not started in the midst of each other   *)
(* implement LoadedData.                                                   *)
THEOREM LoadsImplementPromise ==
    ASSUME MaxStops = 0, Results # "always"
    PROVE  Spec => KeepsPromise
<1>1. Init => Promise!Init /\ ReadFirst
  <2> SUFFICES ASSUME Init
               PROVE  Promise!Init /\ ReadFirst
      OBVIOUS
  <2>1. added = {} /\ waiting = 0 /\ load_in_progress = FALSE /\ loads = 0
      BY DEF Init, Manager!Init
  <2>2. (waiting > 0) = FALSE /\ Wanted = {} /\ ReadFirst
      BY <2>1 DEF Wanted, ReadFirst
  <2>3. /\ data = [o \in 1 .. NumObjects |-> <<>>]
        /\ announced = [o \in 1 .. NumObjects |-> 0]
      BY DEF Init, Objects
  <2> QED
      BY <2>1, <2>2, <2>3 DEF Promise!Init, Promise!DBObjects
<1>2. Consistent /\ ReadFirst /\ [Next]_vars => ReadFirst'
    BY ReadFirstIsKept DEF Consistent
<1>3. /\ Consistent /\ Regular /\ Complete /\ Announced /\ ReadFirst /\ [Next]_vars
      /\ (Consistent /\ Regular /\ LoadedInFull /\ AllDataAnnounced)'
      => [Promise!Next]_(Promise!promiseVars)
    BY StepsKeepPromise
<1> QED
    BY <1>1, <1>2, <1>3, LoadsAreRegular, LoadsAreComplete, SignalsAreCertain,
       LoadsBringAllChunks, ViewsHearOfAllData, PTL DEF Spec, KeepsPromise, Promise!Spec
=============================================================================
