------------------------ MODULE ASTERIXImportProofs ------------------------
(***************************************************************************)
(* Theorems about ASTERIXImport, for any number of chunks, any finite set  *)
(* of database objects and any files.                                      *)
(***************************************************************************)
EXTENDS ASTERIXImport, FiniteSetTheorems, TLAPS

(* What is posted to the main thread, and the inserts the job manager has. *)
Posted == ToSet(events)
Queued == ToSet(db_line)

Events == {<<e>> : e \in {"decoded", "decodeDone", "decodeError", "mapDone"}}
          \cup ({"insertDone"} \X Chunks \X Dbos)

-----------------------------------------------------------------------------
(* Lines without repetition: what taking the first element leaves. *)
LEMMA TakeFirst ==
    ASSUME NEW S, NEW s \in Seq(S), s # <<>>, IsInjective(s)
    PROVE  /\ Head(s) \in S /\ Tail(s) \in Seq(S)
           /\ IsInjective(Tail(s))
           /\ Head(s) \in ToSet(s)
           /\ ToSet(Tail(s)) = ToSet(s) \ {Head(s)}
<1>1. Len(s) \in Nat /\ Len(s) > 0 /\ DOMAIN s = 1 .. Len(s)
    OBVIOUS
<1>2. Head(s) = s[1] /\ 1 \in DOMAIN s
    BY <1>1
<1>3. /\ Tail(s) \in Seq(S)
      /\ DOMAIN Tail(s) = 1 .. Len(s) - 1
      /\ \A i \in 1 .. Len(s) - 1 : Tail(s)[i] = s[i + 1]
    BY <1>1
<1>4. IsInjective(Tail(s))
    BY <1>1, <1>3 DEF IsInjective
<1>5. ASSUME NEW x
      PROVE  x \in ToSet(Tail(s)) <=> x \in ToSet(s) \ {Head(s)}
  <2>1. CASE x \in ToSet(Tail(s))
    <3>1. PICK i \in 1 .. Len(s) - 1 : x = s[i + 1]
        BY <2>1, <1>3 DEF ToSet
    <3>2. i + 1 \in DOMAIN s /\ i + 1 # 1
        BY <1>1, <3>1
    <3>3. x # s[1]
        BY <3>1, <3>2, <1>2 DEF IsInjective
    <3>4. x \in ToSet(s)
        BY <3>1, <3>2 DEF ToSet
    <3> QED
        BY <2>1, <3>3, <3>4, <1>2
  <2>2. CASE x \in ToSet(s) \ {Head(s)}
    <3>1. PICK i \in DOMAIN s : x = s[i]
        BY <2>2 DEF ToSet
    <3>2. i # 1
        BY <3>1, <2>2, <1>2
    <3>3. i - 1 \in 1 .. Len(s) - 1 /\ (i - 1) + 1 = i
        BY <3>1, <3>2, <1>1
    <3>4. Tail(s)[i - 1] = x
        BY <3>1, <3>3, <1>3
    <3>5. x \in ToSet(Tail(s))
        BY <3>3, <3>4, <1>3 DEF ToSet
    <3> QED
        BY <2>2, <3>5
  <2> QED
      BY <2>1, <2>2
<1>6. Head(s) \in S /\ Head(s) \in ToSet(s)
    BY <1>1, <1>2 DEF ToSet
<1> QED
    BY <1>3, <1>4, <1>5, <1>6

(* ... and what adding an element that is not there yet gives. *)
LEMMA AddLast ==
    ASSUME NEW S, NEW s \in Seq(S), NEW x \in S, IsInjective(s), x \notin ToSet(s)
    PROVE  /\ Append(s, x) \in Seq(S)
           /\ IsInjective(Append(s, x))
           /\ ToSet(Append(s, x)) = ToSet(s) \cup {x}
<1>1. Len(s) \in Nat /\ DOMAIN s = 1 .. Len(s)
    OBVIOUS
<1>2. /\ Append(s, x) \in Seq(S)
      /\ DOMAIN Append(s, x) = 1 .. Len(s) + 1
      /\ \A i \in 1 .. Len(s) : Append(s, x)[i] = s[i]
      /\ Append(s, x)[Len(s) + 1] = x
    BY <1>1
<1>3. \A i \in 1 .. Len(s) : s[i] # x
    BY <1>1 DEF ToSet
<1>4. IsInjective(Append(s, x))
  <2> SUFFICES ASSUME NEW i \in 1 .. Len(s) + 1, NEW j \in 1 .. Len(s) + 1,
                      Append(s, x)[i] = Append(s, x)[j]
               PROVE  i = j
      BY <1>2 DEF IsInjective
  <2>1. CASE i \in 1 .. Len(s) /\ j \in 1 .. Len(s)
      BY <2>1, <1>1, <1>2 DEF IsInjective
  <2>2. CASE i = Len(s) + 1 \/ j = Len(s) + 1
      BY <2>2, <1>1, <1>2, <1>3
  <2> QED
      BY <2>1, <2>2, <1>1
<1>5. ASSUME NEW y
      PROVE  y \in ToSet(Append(s, x)) <=> y \in ToSet(s) \cup {x}
  <2>1. y \in ToSet(Append(s, x)) <=> \E i \in 1 .. Len(s) + 1 : y = Append(s, x)[i]
      BY <1>2 DEF ToSet
  <2>2. y \in ToSet(s) <=> \E i \in 1 .. Len(s) : y = s[i]
      BY <1>1 DEF ToSet
  <2>3. 1 .. Len(s) + 1 = (1 .. Len(s)) \cup {Len(s) + 1}
      BY <1>1
  <2> QED
      BY <2>1, <2>2, <2>3, <1>2
<1> QED
    BY <1>2, <1>4, <1>5

(* The line made of a finite set has each of its elements once. *)
LEMMA LineOfSet ==
    ASSUME NEW S, IsFiniteSet(S)
    PROVE  /\ SetToSeq(S) \in Seq(S)
           /\ IsInjective(SetToSeq(S))
           /\ ToSet(SetToSeq(S)) = S
<1> DEFINE n == Cardinality(S)
           f == SetToSeq(S)
<1>1. n \in Nat /\ ExistsBijection(1 .. n, S)
    BY FS_CardinalityType
<1>2. \E g \in [1 .. n -> S] : IsInjective(g)
    BY <1>1 DEF ExistsBijection, Bijection, Injection
<1>3. f \in [1 .. n -> S] /\ IsInjective(f)
    BY <1>2 DEF SetToSeq
<1>4. f \in Injection(1 .. n, S)
    BY <1>3 DEF Injection
<1>5. IsFiniteSet(1 .. n) /\ Cardinality(1 .. n) = n
    BY <1>1, FS_Interval
<1>6. f \in Surjection(1 .. n, S)
    BY <1>4, <1>5, FS_Injection
<1>7. DOMAIN f = 1 .. n
    BY <1>3
<1>8. ToSet(f) = S
    BY <1>3, <1>6, <1>7 DEF Surjection, ToSet
<1>9. f \in Seq(S)
    BY <1>1, <1>3
<1> QED
    BY <1>3, <1>8, <1>9

(* Events are told apart by their name and, for inserts, by chunk and object. *)
LEMMA EventsDiffer ==
    /\ <<"decoded">> # <<"decodeDone">> /\ <<"decoded">> # <<"decodeError">>
    /\ <<"decoded">> # <<"mapDone">> /\ <<"decodeDone">> # <<"decodeError">>
    /\ <<"decodeDone">> # <<"mapDone">> /\ <<"decodeError">> # <<"mapDone">>
    /\ \A e, c, d : <<"insertDone", c, d>> # <<e>>
    /\ \A c1, d1, c2, d2 : <<"insertDone", c1, d1>> = <<"insertDone", c2, d2>>
                               => c1 = c2 /\ d1 = d2
<1>1. ASSUME NEW e, NEW c, NEW d, <<"insertDone", c, d>> = <<e>>
      PROVE  FALSE
    BY <1>1
<1>2. ASSUME NEW c1, NEW d1, NEW c2, NEW d2,
             <<"insertDone", c1, d1>> = <<"insertDone", c2, d2>>
      PROVE  c1 = c2 /\ d1 = d2
    BY <1>2
<1>3. ASSUME NEW e1, NEW e2, <<e1>> = <<e2>> PROVE e1 = e2
    BY <1>3
<1> QED
    BY <1>1, <1>2, <1>3

(* Nothing before a line is the line. *)
LEMMA NothingBefore ==
    ASSUME NEW S, NEW s \in Seq(S)
    PROVE  <<>> \o s = s
    OBVIOUS

(* A waiting slot is put on top of the others. *)
LEMMA PutOnTop ==
    ASSUME NEW S, NEW s \in Seq(S), NEW x \in S
    PROVE  /\ <<x>> \o s \in Seq(S)
           /\ DOMAIN (<<x>> \o s) = 1 .. Len(s) + 1
           /\ (<<x>> \o s)[1] = x
           /\ \A i \in 2 .. Len(s) + 1 : (<<x>> \o s)[i] = s[i - 1]
    OBVIOUS

-----------------------------------------------------------------------------
(* Where the decoder is tells whether it has a chunk in its hand and what  *)
(* it has posted; the mapping job is known until the slot of its end; a    *)
(* slot that waits has a chunk; an object has one insert at a time.        *)
DecoderStage ==
    /\ <<"decoded">> \in Posted => decoder = "emitted" /\ extracted # None
    /\ decoder = "decoded" => extracted # None
    /\ extracted # None => decoder \in {"decoded", "emitted"}
    /\ <<"decodeDone">> \in Posted => decoder = "over"
    /\ <<"decodeError">> \in Posted => decoder = "over"

MapStage ==
    /\ map_running => map_job # None /\ <<"mapDone">> \notin Posted
    /\ <<"mapDone">> \in Posted => map_job # None

FrameStage == \A i \in DOMAIN frames : frames[i].slot # "message" => frames[i].chunk # None

Inserting(c, d) == <<c, d>> \in Queued \/ <<"insertDone", c, d>> \in Posted

InsertStage ==
    /\ \A c \in Chunks, d \in Dbos :
          ~(<<c, d>> \in Queued /\ <<"insertDone", c, d>> \in Posted)
    /\ \A c1, c2 \in Chunks, d \in Dbos : Inserting(c1, d) /\ Inserting(c2, d) => c1 = c2
    /\ \A d \in Dbos : d \in insert_job <=> \E c \in Chunks : Inserting(c, d)
    /\ insert_active = Cardinality(insert_job)
    /\ aborted # "!insert_job_"

Lines == IsInjective(events) /\ IsInjective(db_line)

Stages == Typed /\ Lines /\ DecoderStage /\ MapStage /\ FrameStage /\ InsertStage

(* An insert needs to know only what is queued and posted. *)
LEMMA InsertStageKept ==
    ASSUME InsertStage, Queued' = Queued, UNCHANGED <<insert_job, insert_active>>,
           \A c, d : <<"insertDone", c, d>> \in Posted' <=> <<"insertDone", c, d>> \in Posted,
           aborted' # "!insert_job_"
    PROVE  InsertStage'
    BY DEF InsertStage, Inserting

(* The pool: the decode job. *)
LEMMA DecodeKeepsStages ==
    ASSUME Stages, Decode
    PROVE  Stages'
<1> USE DEF Stages, Lines
<1>0. /\ UNCHANGED <<mode, summary, content, frames, decode_job, map_job, map_running, db_line,
                     insert_job, insert_active, waiting_for_insert, all_done, status_widget,
                     settled, signals, aborted, pause>>
      /\ Queued' = Queued
    BY DEF Decode, DecodeChunk, DecodeEmit, DecodeGoOn, DecodeEnd, fileVars, insertVars,
           doneVars, decoderVars, Queued
<1>1. FrameStage' /\ IsInjective(db_line')
    BY <1>0 DEF FrameStage
<1>2. ASSUME NEW e \in {"decoded", "decodeDone", "decodeError"},
             Post(<<e>>), <<e>> \notin Posted, UNCHANGED extracted, UNCHANGED decoded,
             e = "decoded" => decoder = "decoded" /\ decoder' = "emitted",
             e # "decoded" => decoder = "decode" /\ decoder' = "over"
      PROVE  Stages'
  <2>1. events \in Seq(Events) /\ <<e>> \in Events
      BY DEF Typed, Events
  <2>2. events' \in Seq(Events) /\ IsInjective(events') /\ Posted' = Posted \cup {<<e>>}
      BY <2>1, <1>2, AddLast DEF Post, Posted
  <2>3. Typed'
      BY <2>2, <1>0, <1>2 DEF Typed, Events
  <2>4. DecoderStage'
      BY <2>2, <1>2, EventsDiffer DEF DecoderStage
  <2>5. MapStage'
      BY <2>2, <1>0, EventsDiffer DEF MapStage
  <2>6. InsertStage'
      BY <2>2, <1>0, EventsDiffer, InsertStageKept DEF InsertStage
  <2> QED
      BY <2>2, <2>3, <2>4, <2>5, <2>6, <1>1
<1>3. ASSUME UNCHANGED events
      PROVE  Lines' /\ MapStage' /\ InsertStage' /\ Posted' = Posted
  <2>1. Posted' = Posted
      BY <1>3 DEF Posted
  <2> QED
      BY <2>1, <1>0, <1>3, InsertStageKept DEF MapStage, InsertStage
<1>4. CASE DecodeChunk
  <2>1. UNCHANGED events /\ decoded + 1 \in Chunks
      BY <1>4, ChunksAssumption DEF DecodeChunk, Typed, Chunks
  <2>2. Typed'
      BY <2>1, <1>0, <1>4 DEF Typed, DecodeChunk, Chunks
  <2>3. DecoderStage'
      BY <2>1, <1>3, <1>4, ChunksAssumption DEF DecoderStage, DecodeChunk
  <2> QED
      BY <2>1, <2>2, <2>3, <1>1, <1>3
<1>5. CASE DecodeEmit
    BY <1>5, <1>2 DEF DecodeEmit, decoderVars, DecoderStage
<1>6. CASE DecodeGoOn
  <2>1. UNCHANGED <<events, extracted, decoded>>
      BY <1>6 DEF DecodeGoOn
  <2>2. Typed'
      BY <2>1, <1>0, <1>6 DEF Typed, DecodeGoOn
  <2>3. DecoderStage'
      BY <2>1, <1>3, <1>6 DEF DecoderStage, DecodeGoOn
  <2> QED
      BY <2>1, <2>2, <2>3, <1>1, <1>3
<1>7. CASE DecodeEnd
  <2>1. <<"decodeDone">> \notin Posted /\ <<"decodeError">> \notin Posted
      BY <1>7 DEF DecodeEnd, DecoderStage
  <2> QED
      BY <2>1, <1>7, <1>2 DEF DecodeEnd
<1> QED
    BY <1>4, <1>5, <1>6, <1>7 DEF Decode

(* The pool: the mapping job. *)
LEMMA MapEndKeepsStages ==
    ASSUME Stages, MapEnd
    PROVE  Stages'
<1> USE DEF Stages, Lines
<1>0. UNCHANGED <<mode, summary, content, decoder, decoded, extracted, pause, frames,
                  decode_job, map_job, db_line, insert_job, insert_active, waiting_for_insert,
                  all_done, status_widget, settled, signals, aborted>>
    BY DEF MapEnd, fileVars, decoderVars, insertVars, doneVars
<1>1. events \in Seq(Events) /\ <<"mapDone">> \in Events /\ <<"mapDone">> \notin Posted
    BY DEF Typed, Events, MapEnd, MapStage
<1>2. events' \in Seq(Events) /\ IsInjective(events') /\ Posted' = Posted \cup {<<"mapDone">>}
    BY <1>1, AddLast DEF MapEnd, Post, Posted
<1>3. Typed'
    BY <1>0, <1>2 DEF Typed, Events, MapEnd
<1>4. DecoderStage'
    BY <1>0, <1>2, EventsDiffer DEF DecoderStage
<1>5. MapStage' /\ FrameStage'
    BY <1>0, <1>2 DEF MapStage, MapEnd, FrameStage
<1>6. Queued' = Queued
    BY <1>0 DEF Queued
<1>7. InsertStage'
    BY <1>0, <1>2, <1>6, EventsDiffer, InsertStageKept DEF InsertStage
<1> QED
    BY <1>0, <1>2, <1>3, <1>4, <1>5, <1>7

(* The pool: an insert moves from the queue of the job manager to the      *)
(* events; its object keeps it.                                            *)
LEMMA InsertEndKeepsStages ==
    ASSUME Stages, InsertEnd
    PROVE  Stages'
<1> USE DEF Stages, Lines
<1> DEFINE insert == Head(db_line)
           c0 == insert[1]
           d0 == insert[2]
<1>0. UNCHANGED <<mode, summary, content, decoder, decoded, extracted, pause, frames,
                  decode_job, map_job, map_running, insert_job, insert_active,
                  waiting_for_insert, all_done, status_widget, settled, signals, aborted>>
    BY DEF InsertEnd, fileVars, decoderVars, doneVars
<1>1. /\ insert \in Chunks \X Dbos /\ db_line' \in Seq(Chunks \X Dbos)
      /\ IsInjective(db_line') /\ insert \in Queued /\ Queued' = Queued \ {insert}
    BY TakeFirst DEF InsertEnd, Typed, Queued
<1>2. c0 \in Chunks /\ d0 \in Dbos /\ insert = <<c0, d0>>
    BY <1>1
<1>3. <<"insertDone", c0, d0>> \notin Posted
    BY <1>1, <1>2 DEF InsertStage
<1>4. events \in Seq(Events) /\ <<"insertDone", c0, d0>> \in Events
    BY <1>2 DEF Typed, Events
<1>5. /\ events' \in Seq(Events) /\ IsInjective(events')
      /\ Posted' = Posted \cup {<<"insertDone", c0, d0>>}
  <2> DEFINE report == <<"insertDone", c0, d0>>
  <2>1. events' = Append(events, report)
      BY DEF InsertEnd, Post
  <2>2. report \in Events /\ report \notin ToSet(events)
      BY <1>3, <1>4 DEF Posted
  <2> HIDE DEF report
  <2>3. /\ Append(events, report) \in Seq(Events) /\ IsInjective(Append(events, report))
        /\ ToSet(Append(events, report)) = ToSet(events) \cup {report}
      BY <1>4, <2>2, AddLast
  <2> QED
      BY <2>1, <2>3 DEF Posted, report
<1>6. Typed'
  <2>1. events' \in Seq(Events) /\ db_line' \in Seq(Chunks \X Dbos)
      BY <1>1, <1>5
  <2> QED
      BY <2>1, <1>0 DEF Typed, Events
<1>7. DecoderStage'
    BY <1>0, <1>5, EventsDiffer DEF DecoderStage
<1>8. MapStage' /\ FrameStage'
    BY <1>0, <1>5, EventsDiffer DEF MapStage, FrameStage
<1>9. \A c \in Chunks, d \in Dbos :
         /\ <<c, d>> \in Queued' <=> <<c, d>> \in Queued /\ ~(c = c0 /\ d = d0)
         /\ <<"insertDone", c, d>> \in Posted' <=>
               <<"insertDone", c, d>> \in Posted \/ (c = c0 /\ d = d0)
    BY <1>1, <1>2, <1>5, EventsDiffer
<1>10. \A c \in Chunks, d \in Dbos : Inserting(c, d)' <=> Inserting(c, d)
    BY <1>1, <1>2, <1>9 DEF Inserting
<1>11. InsertStage'
    BY <1>0, <1>9, <1>10 DEF InsertStage
<1> QED
    BY <1>1, <1>5, <1>6, <1>7, <1>8, <1>11

-----------------------------------------------------------------------------
FrameSet == [slot : {"addDecoded", "insertData", "message"}, chunk : Chunks \cup {None}]

(* The main thread takes the first event: it is posted no more. *)
LEMMA EventTaken ==
    ASSUME Stages, NEW e, NextEvent(e)
    PROVE  /\ e \in Events /\ e \in Posted
           /\ events' \in Seq(Events) /\ IsInjective(events') /\ Posted' = Posted \ {e}
<1>1. events \in Seq(Events) /\ IsInjective(events)
    BY DEF Stages, Lines, Typed, Events
<1>2. events # <<>> /\ Head(events) = e /\ events' = Tail(events)
    BY DEF NextEvent
<1> QED
    BY <1>1, <1>2, TakeFirst DEF Posted

(* checkAllDone sets flags only. *)
LEMMA CheckType ==
    ASSUME Typed, CheckAllDone
    PROVE  all_done' \in BOOLEAN /\ status_widget' \in BOOLEAN
    BY DEF Typed, CheckAllDone, doneVars

(* A slot that waits goes on top of the frames, the innermost one goes on. *)
LEMMA FramePushed ==
    ASSUME FrameStage, frames \in Seq(FrameSet), NEW slot, NEW chunk,
           Frame(slot, chunk) \in FrameSet, slot # "message" => chunk # None,
           frames' = <<Frame(slot, chunk)>> \o frames
    PROVE  FrameStage' /\ frames' \in Seq(FrameSet)
<1>1. /\ frames' \in Seq(FrameSet)
      /\ DOMAIN frames' = 1 .. Len(frames) + 1
      /\ frames'[1] = Frame(slot, chunk)
      /\ \A i \in 2 .. Len(frames) + 1 : frames'[i] = frames[i - 1]
    BY PutOnTop
<1>2. ASSUME NEW i \in 1 .. Len(frames) + 1, frames'[i].slot # "message"
      PROVE  frames'[i].chunk # None
  <2>1. CASE i = 1
      BY <2>1, <1>1, <1>2 DEF Frame
  <2>2. CASE i # 1
    <3>1. i \in 2 .. Len(frames) + 1 /\ i - 1 \in DOMAIN frames
        BY <2>2
    <3> QED
        BY <3>1, <1>1, <1>2 DEF FrameStage
  <2> QED
      BY <2>1, <2>2
<1> QED
    BY <1>1, <1>2 DEF FrameStage

LEMMA FramePopped ==
    ASSUME FrameStage, frames \in Seq(FrameSet), frames # <<>>, frames' = Tail(frames)
    PROVE  /\ FrameStage' /\ frames' \in Seq(FrameSet)
           /\ Head(frames) \in FrameSet
           /\ Head(frames).slot # "message" => Head(frames).chunk \in Chunks
<1>1. Len(frames) \in Nat \ {0} /\ DOMAIN frames = 1 .. Len(frames) /\ Head(frames) = frames[1]
    OBVIOUS
<1>2. /\ frames' \in Seq(FrameSet)
      /\ DOMAIN frames' = 1 .. Len(frames) - 1
      /\ \A i \in 1 .. Len(frames) - 1 : frames'[i] = frames[i + 1]
    BY <1>1
<1>3. \A i \in 1 .. Len(frames) - 1 : i + 1 \in DOMAIN frames
    BY <1>1
<1>4. FrameStage'
    BY <1>2, <1>3 DEF FrameStage
<1>5. Head(frames) \in FrameSet
    BY <1>1
<1>6. Head(frames).slot # "message" => Head(frames).chunk # None
    BY <1>1 DEF FrameStage
<1> QED
    BY <1>2, <1>4, <1>5, <1>6 DEF FrameSet

(* The objects of a chunk get their inserts when no other is under way:    *)
(* then nothing is queued or posted, and assert(!insert_job_) holds.       *)
LEMMA InsertKeepsStage ==
    ASSUME Stages, Alive, NEW chunk \in Chunks, insert_active = 0, Insert(chunk),
           UNCHANGED content,
           \A c, d : <<"insertDone", c, d>> \in Posted' <=> <<"insertDone", c, d>> \in Posted
    PROVE  /\ InsertStage' /\ IsInjective(db_line')
           /\ db_line' \in Seq(Chunks \X Dbos)
           /\ insert_job' \subseteq Dbos /\ insert_active' \in Nat
           /\ waiting_for_insert' \in BOOLEAN
           /\ all_done' \in BOOLEAN /\ status_widget' \in BOOLEAN
           /\ settled' \subseteq Chunks
<1> USE DEF Stages, Lines
<1> DEFINE dbos == content[chunk]
           inserts == {<<chunk, d>> : d \in dbos}
<1>1. dbos \subseteq Dbos /\ IsFiniteSet(dbos)
    BY ContentsAssumption, DbosAssumption, FS_Subset DEF Typed
<1>2. insert_job = {} /\ IsFiniteSet(insert_job)
    BY DbosAssumption, FS_Subset, FS_EmptySet DEF Typed, InsertStage
<1>3. \A c \in Chunks, d \in Dbos : ~Inserting(c, d)
    BY <1>2 DEF InsertStage
<1>4. db_line = <<>>
  <2> SUFFICES ASSUME db_line # <<>> PROVE FALSE
      OBVIOUS
  <2>1. Head(db_line) \in Queued /\ Head(db_line) \in Chunks \X Dbos
      BY TakeFirst DEF Typed, Queued
  <2>2. PICK c \in Chunks, d \in Dbos : Head(db_line) = <<c, d>>
      BY <2>1
  <2> QED
      BY <2>1, <2>2, <1>3 DEF Inserting
<1>5. CASE dbos # {} /\ ~status_widget
  <2>1. UNCHANGED <<db_line, insert_job, insert_active, waiting_for_insert, all_done,
                    status_widget, settled>> /\ aborted' = "status_widget_"
      BY <1>5 DEF Insert, Abort, insertVars, doneVars
  <2>2. Queued' = Queued
      BY <2>1 DEF Queued
  <2>3. InsertStage'
      BY <2>1, <2>2, InsertStageKept
  <2> QED
      BY <2>1, <2>3 DEF Typed, InsertStage
<1>6. CASE ~(dbos # {} /\ ~status_widget)
  <2>1. /\ waiting_for_insert' = FALSE
        /\ insert_active' = insert_active + Cardinality(dbos)
        /\ insert_job' = insert_job \cup dbos
        /\ db_line' = db_line \o SetToSeq(inserts)
        /\ settled' = settled \cup {chunk}
        /\ UNCHANGED aborted
        /\ CheckAllDone
      BY <1>2, <1>6 DEF Insert, AddInsertActive
  <2>2. IsFiniteSet(inserts) /\ inserts \subseteq Chunks \X Dbos
    <3>1. {chunk} \X dbos = inserts
        OBVIOUS
    <3>2. IsFiniteSet({chunk})
        BY FS_Singleton
    <3> QED
        BY <1>1, <3>1, <3>2, FS_Product
  <2> HIDE DEF inserts
  <2>3. SetToSeq(inserts) \in Seq(inserts) /\ db_line' = SetToSeq(inserts)
      BY <2>1, <2>2, <1>4, LineOfSet, NothingBefore
  <2>4. db_line' \in Seq(inserts) /\ IsInjective(db_line') /\ Queued' = inserts
      BY <2>2, <2>3, LineOfSet DEF Queued
  <2>5. db_line' \in Seq(Chunks \X Dbos)
      BY <2>2, <2>4
  <2>6. \A c \in Chunks, d \in Dbos :
           /\ <<"insertDone", c, d>> \notin Posted'
           /\ <<c, d>> \in Queued' <=> c = chunk /\ d \in dbos
      BY <1>3, <2>4 DEF Inserting, inserts
  <2>7. \A c \in Chunks, d \in Dbos : Inserting(c, d)' <=> c = chunk /\ d \in dbos
      BY <2>6 DEF Inserting
  <2>8. insert_job' = dbos /\ insert_active' = Cardinality(dbos) /\ Cardinality(dbos) \in Nat
      BY <1>1, <1>2, <2>1, FS_CardinalityType
  <2>9. InsertStage'
      BY <1>1, <2>1, <2>6, <2>7, <2>8 DEF InsertStage, Alive
  <2>10. all_done' \in BOOLEAN /\ status_widget' \in BOOLEAN
      BY <2>1, CheckType
  <2>11. settled' \subseteq Chunks
      BY <2>1 DEF Typed
  <2> QED
      BY <1>1, <2>1, <2>4, <2>5, <2>8, <2>9, <2>10, <2>11
<1> QED
    BY <1>5, <1>6

(* addDecodedASTERIXSlot: the chunk is there when its event is. *)
LEMMA AddDecodedKeepsStages ==
    ASSUME Stages, AddDecodedASTERIX
    PROVE  Stages'
<1> USE DEF Stages, Lines
<1>1. /\ <<"decoded">> \in Posted /\ extracted # None
      /\ events' \in Seq(Events) /\ IsInjective(events') /\ Posted' = Posted \ {<<"decoded">>}
    BY EventTaken DEF AddDecodedASTERIX, DecoderStage
<1>2. UNCHANGED <<mode, summary, content, decoder, decoded, signals, decode_job, db_line,
                  insert_job, insert_active, waiting_for_insert, all_done, status_widget,
                  settled>> /\ Queued' = Queued
    BY DEF AddDecodedASTERIX, Abort, fileVars, decoderVars, insertVars, doneVars, Queued
<1>3. aborted' # "!insert_job_"
    BY DEF AddDecodedASTERIX, Abort, InsertStage
<1>4. InsertStage'
    BY <1>1, <1>2, <1>3, EventsDiffer, InsertStageKept
<1>5. extracted' \in {extracted, None}
    BY DEF AddDecodedASTERIX
<1>6. DecoderStage'
    BY <1>1, <1>2, <1>5 DEF DecoderStage
<1>7. CASE UNCHANGED <<map_job, map_running, frames, pause>>
  <2>1. Typed'
      BY <1>1, <1>2, <1>5, <1>7 DEF Typed, Events
  <2>2. MapStage' /\ FrameStage'
      BY <1>1, <1>7 DEF MapStage, FrameStage
  <2> QED
      BY <2>1, <2>2, <1>1, <1>2, <1>4, <1>6
<1>8. CASE map_job = None /\ StartMap(extracted) /\ UNCHANGED frames
  <2>1. pause' \in BOOLEAN
      BY <1>8 DEF StartMap, Typed, MaxLoadReached
  <2>2. Typed'
      BY <2>1, <1>1, <1>2, <1>5, <1>8 DEF Typed, Events, StartMap
  <2>3. MapStage' /\ FrameStage'
      BY <1>1, <1>8 DEF MapStage, FrameStage, StartMap
  <2> QED
      BY <2>2, <2>3, <1>1, <1>2, <1>4, <1>6
<1>9. CASE /\ frames' = <<Frame("addDecoded", extracted)>> \o frames
           /\ pause' = TRUE
           /\ UNCHANGED <<map_job, map_running>>
  <2>1. frames \in Seq(FrameSet) /\ Frame("addDecoded", extracted) \in FrameSet
      BY DEF Typed, FrameSet, Frame
  <2>2. FrameStage' /\ frames' \in Seq(FrameSet)
      BY <2>1, <1>1, <1>9, FramePushed
  <2>3. Typed'
      BY <2>2, <1>1, <1>2, <1>5, <1>9 DEF Typed, Events, FrameSet
  <2>4. MapStage'
      BY <1>1, <1>9 DEF MapStage
  <2> QED
      BY <2>2, <2>3, <2>4, <1>1, <1>2, <1>4, <1>6
<1> QED
    BY <1>7, <1>8, <1>9 DEF AddDecodedASTERIX

(* A slot that waited in addDecodedASTERIXSlot maps the chunk it has. *)
LEMMA ContinueAddDecodedKeepsStages ==
    ASSUME Stages, ContinueAddDecoded
    PROVE  Stages'
<1> USE DEF Stages, Lines
<1>1. UNCHANGED <<mode, summary, content, decoder, decoded, extracted, events, decode_job,
                  db_line, insert_job, insert_active, waiting_for_insert, all_done,
                  status_widget, settled, signals, aborted>>
      /\ Queued' = Queued /\ Posted' = Posted
    BY DEF ContinueAddDecoded, fileVars, decoderVars, insertVars, doneVars, Queued, Posted
<1>2. /\ FrameStage' /\ frames' \in Seq(FrameSet)
      /\ Head(frames).chunk \in Chunks
    BY FramePopped DEF ContinueAddDecoded, Typed, FrameSet
<1>3. map_job = None /\ map_job' = Head(frames).chunk /\ map_running' = TRUE
    BY DEF ContinueAddDecoded, StartMap
<1>4. pause' \in BOOLEAN
    BY DEF ContinueAddDecoded, StartMap, Typed, MaxLoadReached
<1>5. Typed'
    BY <1>1, <1>2, <1>3, <1>4 DEF Typed, FrameSet
<1>6. MapStage'
    BY <1>1, <1>2, <1>3, ChunksAssumption DEF MapStage
<1>7. DecoderStage' /\ InsertStage'
    BY <1>1, InsertStageKept DEF DecoderStage, InsertStage
<1> QED
    BY <1>1, <1>2, <1>5, <1>6, <1>7

(* decodeASTERIXDoneSlot, and its end behind the message of an error. *)
LEMMA DecodeDoneKeepsStages ==
    ASSUME Stages, DecodeASTERIXDone \/ MessageClosed
    PROVE  Stages'
<1> USE DEF Stages, Lines
<1>1. UNCHANGED <<mode, summary, content, decoder, decoded, extracted, pause, map_job,
                  map_running, db_line, insert_job, insert_active, waiting_for_insert,
                  settled, signals, aborted>> /\ Queued' = Queued
    BY DEF DecodeASTERIXDone, MessageClosed, fileVars, decoderVars, insertVars, Queued
<1>2. /\ events' \in Seq(Events) /\ IsInjective(events')
      /\ Posted' \subseteq Posted
      /\ Posted \subseteq Posted' \cup {<<"decodeDone">>, <<"decodeError">>}
  <2>1. CASE DecodeASTERIXDone
      BY <2>1, EventTaken DEF DecodeASTERIXDone
  <2>2. CASE MessageClosed
      BY <2>2 DEF MessageClosed, Typed, Events, Posted
  <2> QED
      BY <2>1, <2>2
<1>3. FrameStage' /\ frames' \in Seq(FrameSet)
  <2>1. frames \in Seq(FrameSet)
      BY DEF Typed, FrameSet
  <2>2. CASE UNCHANGED frames
      BY <2>1, <2>2 DEF FrameStage
  <2>3. CASE frames' = <<Frame("message", None)>> \o frames
    <3>1. Frame("message", None) \in FrameSet
        BY DEF Frame, FrameSet
    <3> QED
        BY <2>1, <2>3, <3>1, FramePushed
  <2>4. CASE MessageClosed
      BY <2>1, <2>4, FramePopped DEF MessageClosed
  <2> QED
      BY <2>2, <2>3, <2>4 DEF DecodeASTERIXDone
<1>4. decode_job' \in BOOLEAN /\ all_done' \in BOOLEAN /\ status_widget' \in BOOLEAN
    BY CheckType DEF DecodeASTERIXDone, MessageClosed, doneVars, Typed
<1>5. Typed'
    BY <1>1, <1>2, <1>3, <1>4 DEF Typed, Events, FrameSet
<1>6. DecoderStage' /\ MapStage'
    BY <1>1, <1>2, EventsDiffer DEF DecoderStage, MapStage
<1>7. InsertStage'
    BY <1>1, <1>2, EventsDiffer, InsertStageKept DEF InsertStage
<1> QED
    BY <1>1, <1>2, <1>3, <1>5, <1>6, <1>7

(* mapJSONDoneSlot: the end of the mapping job comes once per job. *)
LEMMA MapJSONDoneKeepsStages ==
    ASSUME Stages, Alive, MapJSONDone
    PROVE  Stages'
<1> USE DEF Stages, Lines
<1>1. /\ <<"mapDone">> \in Posted /\ events' \in Seq(Events) /\ IsInjective(events')
      /\ Posted' = Posted \ {<<"mapDone">>}
    BY EventTaken DEF MapJSONDone
<1>2. UNCHANGED <<mode, summary, content, decoder, decoded, extracted, signals>>
    BY DEF MapJSONDone, fileVars, decoderVars
<1>3. map_job \in Chunks /\ map_running = FALSE
    BY <1>1 DEF MapStage, Typed
<1>4. DecoderStage'
    BY <1>1, <1>2 DEF DecoderStage
<1>5. frames \in Seq(FrameSet) /\ Frame("insertData", map_job) \in FrameSet
    BY <1>3 DEF Typed, FrameSet, Frame
<1>6. ASSUME map_job' \in {map_job, None}, UNCHANGED map_running
      PROVE  MapStage'
    BY <1>1, <1>3, <1>6 DEF MapStage
<1>7. CASE /\ UNCHANGED <<insertVars, doneVars, settled, pause, frames, decode_job, map_job,
                          map_running>>
           /\ aborted' = "status_widget_"
  <2>1. Queued' = Queued
      BY <1>7 DEF insertVars, Queued
  <2>2. Typed'
      BY <1>1, <1>2, <1>7 DEF Typed, Events, insertVars, doneVars
  <2>3. InsertStage'
      BY <1>1, <1>7, <2>1, EventsDiffer, InsertStageKept DEF insertVars
  <2>4. FrameStage' /\ IsInjective(db_line')
      BY <1>7 DEF FrameStage, insertVars
  <2> QED
      BY <2>2, <2>3, <2>4, <1>1, <1>4, <1>6, <1>7
<1>8. CASE /\ map_job' = None
           /\ pause' = IF decode_job THEN MaxLoadReached ELSE pause
           /\ UNCHANGED <<decode_job, map_running>>
           /\ \/ /\ settled' = settled \cup {map_job}
                 /\ UNCHANGED <<frames, insertVars, aborted>>
                 /\ CheckAllDone
              \/ /\ frames' = <<Frame("insertData", map_job)>> \o frames
                 /\ waiting_for_insert' = TRUE
                 /\ UNCHANGED <<db_line, insert_job, insert_active, doneVars, settled, aborted>>
              \/ /\ insert_active = 0
                 /\ UNCHANGED frames
                 /\ Insert(map_job)
  <2>1. pause' \in BOOLEAN
    <3>1. pause' = IF decode_job THEN insert_active >= 2 ELSE pause
        BY <1>8 DEF MaxLoadReached
    <3>2. (insert_active >= 2) \in BOOLEAN /\ pause \in BOOLEAN
        BY DEF Typed
    <3> QED
        BY <3>1, <3>2
  <2>2. CASE /\ settled' = settled \cup {map_job}
             /\ UNCHANGED <<frames, insertVars, aborted>>
             /\ CheckAllDone
    <3>1. Queued' = Queued
        BY <2>2 DEF insertVars, Queued
    <3>2. Typed'
      <4>1. all_done' \in BOOLEAN /\ status_widget' \in BOOLEAN
          BY <2>2, CheckType
      <4>2. settled' \subseteq Chunks
          BY <1>3, <2>2 DEF Typed
      <4> QED
          BY <4>1, <4>2, <1>1, <1>2, <1>8, <2>1, <2>2 DEF Typed, Events, insertVars
    <3>3. InsertStage'
        BY <1>1, <2>2, <3>1, EventsDiffer, InsertStageKept DEF insertVars, InsertStage
    <3>4. FrameStage' /\ IsInjective(db_line')
        BY <2>2 DEF FrameStage, insertVars
    <3> QED
        BY <3>2, <3>3, <3>4, <1>1, <1>4, <1>6, <1>8
  <2>3. CASE /\ frames' = <<Frame("insertData", map_job)>> \o frames
             /\ waiting_for_insert' = TRUE
             /\ UNCHANGED <<db_line, insert_job, insert_active, doneVars, settled, aborted>>
    <3>1. Queued' = Queued
        BY <2>3 DEF Queued
    <3>2. FrameStage' /\ frames' \in Seq(FrameSet)
        BY <2>3, <1>3, <1>5, ChunksAssumption, FramePushed
    <3>3. Typed'
        BY <1>1, <1>2, <1>8, <2>1, <2>3, <3>2 DEF Typed, Events, FrameSet, doneVars
    <3>4. InsertStage'
        BY <1>1, <2>3, <3>1, EventsDiffer, InsertStageKept DEF InsertStage
    <3> QED
        BY <3>2, <3>3, <3>4, <1>1, <1>4, <1>6, <1>8, <2>3
  <2>4. CASE insert_active = 0 /\ UNCHANGED frames /\ Insert(map_job)
    <3>1. /\ InsertStage' /\ IsInjective(db_line')
          /\ db_line' \in Seq(Chunks \X Dbos)
          /\ insert_job' \subseteq Dbos /\ insert_active' \in Nat
          /\ waiting_for_insert' \in BOOLEAN
          /\ all_done' \in BOOLEAN /\ status_widget' \in BOOLEAN
          /\ settled' \subseteq Chunks
        BY <1>1, <1>2, <1>3, <2>4, EventsDiffer, InsertKeepsStage
    <3>2. Typed'
        BY <1>1, <1>2, <1>8, <2>1, <2>4, <3>1 DEF Typed, Events
    <3>3. FrameStage'
        BY <2>4 DEF FrameStage
    <3> QED
        BY <3>1, <3>2, <3>3, <1>1, <1>4, <1>6, <1>8
  <2> QED
      BY <1>8, <2>2, <2>3, <2>4
<1> QED
    BY <1>7, <1>8 DEF MapJSONDone, Abort

(* The slot that waited in insertData has its turn. *)
LEMMA ContinueInsertKeepsStages ==
    ASSUME Stages, Alive, ContinueInsertData
    PROVE  Stages'
<1> USE DEF Stages, Lines
<1>1. UNCHANGED <<mode, summary, content, decoder, decoded, extracted, pause, events,
                  decode_job, map_job, map_running, signals>> /\ Posted' = Posted
    BY DEF ContinueInsertData, fileVars, decoderVars, Posted
<1>2. FrameStage' /\ frames' \in Seq(FrameSet) /\ Head(frames).chunk \in Chunks
    BY FramePopped DEF ContinueInsertData, Typed, FrameSet
<1>3. /\ InsertStage' /\ IsInjective(db_line')
      /\ db_line' \in Seq(Chunks \X Dbos)
      /\ insert_job' \subseteq Dbos /\ insert_active' \in Nat
      /\ waiting_for_insert' \in BOOLEAN
      /\ all_done' \in BOOLEAN /\ status_widget' \in BOOLEAN
      /\ settled' \subseteq Chunks
    BY <1>1, <1>2, InsertKeepsStage DEF ContinueInsertData
<1>4. Typed'
    BY <1>1, <1>2, <1>3 DEF Typed, FrameSet
<1>5. DecoderStage' /\ MapStage'
    BY <1>1 DEF DecoderStage, MapStage
<1> QED
    BY <1>1, <1>2, <1>3, <1>4, <1>5

(* mapStubsDoneSlot *)
LEMMA MapStubsDoneKeepsStages ==
    ASSUME Stages, MapStubsDone
    PROVE  Stages'
<1> USE DEF Stages, Lines
<1>1. /\ <<"mapDone">> \in Posted /\ events' \in Seq(Events) /\ IsInjective(events')
      /\ Posted' = Posted \ {<<"mapDone">>}
    BY EventTaken DEF MapStubsDone
<1>2. UNCHANGED <<mode, summary, content, decoder, decoded, extracted, pause, frames,
                  decode_job, map_running, db_line, insert_job, insert_active,
                  waiting_for_insert, signals, aborted>> /\ Queued' = Queued
    BY DEF MapStubsDone, fileVars, decoderVars, insertVars, Queued
<1>3. map_job \in Chunks /\ map_running = FALSE
    BY <1>1 DEF MapStage, Typed
<1>4. all_done' \in BOOLEAN /\ status_widget' \in BOOLEAN
    BY CheckType DEF MapStubsDone
<1>5. map_job' = None /\ settled' \subseteq Chunks
    BY <1>3 DEF MapStubsDone, Typed
<1>6. Typed'
    BY <1>1, <1>2, <1>4, <1>5 DEF Typed, Events
<1>7. DecoderStage' /\ MapStage' /\ FrameStage'
    BY <1>1, <1>2, <1>3, <1>5 DEF DecoderStage, MapStage, FrameStage
<1>8. InsertStage'
    BY <1>1, <1>2, EventsDiffer, InsertStageKept DEF InsertStage
<1> QED
    BY <1>1, <1>2, <1>6, <1>7, <1>8

(* insertDoneSlot: the object had just this insert, so it has none any more. *)
LEMMA InsertDoneKeepsStages ==
    ASSUME Stages, InsertDone
    PROVE  Stages'
<1> USE DEF Stages, Lines
<1>0. PICK c0 \in Chunks, d0 \in Dbos :
         /\ NextEvent(<<"insertDone", c0, d0>>)
         /\ insert_job' = insert_job \ {d0}
         /\ insert_active' = insert_active - 1
         /\ UNCHANGED <<fileVars, decoderVars, extracted, pause, frames, decode_job, map_job,
                        map_running, db_line, waiting_for_insert, settled, aborted>>
         /\ CheckAllDone
         /\ signals' = IF all_done' /\ mode = "import" THEN signals + 1 ELSE signals
    BY DEF InsertDone, ForgetInsertJob
<1>1. /\ <<"insertDone", c0, d0>> \in Posted
      /\ events' \in Seq(Events) /\ IsInjective(events')
      /\ Posted' = Posted \ {<<"insertDone", c0, d0>>}
    BY <1>0, EventTaken
<1>2. UNCHANGED <<mode, summary, content, decoder, decoded, extracted, pause, frames,
                  decode_job, map_job, map_running, db_line, waiting_for_insert, settled,
                  aborted>> /\ Queued' = Queued
    BY <1>0 DEF fileVars, decoderVars, Queued
<1>3. d0 \in insert_job
    BY <1>1 DEF InsertStage, Inserting
<1>4. /\ insert_active' = Cardinality(insert_job') /\ insert_active' \in Nat
  <2>1. IsFiniteSet(insert_job)
      BY DbosAssumption, FS_Subset DEF Typed
  <2>2. Cardinality(insert_job') = Cardinality(insert_job) - 1 /\ IsFiniteSet(insert_job')
      BY <1>0, <1>3, <2>1, FS_RemoveElement
  <2> QED
      BY <1>0, <2>2, FS_CardinalityType DEF InsertStage
<1>5. \A c \in Chunks, d \in Dbos :
         Inserting(c, d)' <=> Inserting(c, d) /\ d # d0
  <2> SUFFICES ASSUME NEW c \in Chunks, NEW d \in Dbos
               PROVE  Inserting(c, d)' <=> Inserting(c, d) /\ d # d0
      OBVIOUS
  <2>1. Inserting(c0, d0) /\ <<c0, d0>> \notin Queued
      BY <1>1 DEF Inserting, InsertStage
  <2>2. <<"insertDone", c, d>> \in Posted' <=>
           <<"insertDone", c, d>> \in Posted /\ ~(c = c0 /\ d = d0)
      BY <1>1, EventsDiffer
  <2>3. CASE d = d0
    <3>1. c # c0 => ~Inserting(c, d)
        BY <2>1, <2>3 DEF InsertStage
    <3> QED
        BY <1>2, <2>1, <2>2, <2>3, <3>1 DEF Inserting
  <2>4. CASE d # d0
      BY <1>2, <2>2, <2>4 DEF Inserting
  <2> QED
      BY <2>3, <2>4
<1>6. InsertStage'
  <2>1. \A c \in Chunks, d \in Dbos :
           ~(<<c, d>> \in Queued' /\ <<"insertDone", c, d>> \in Posted')
      BY <1>1, <1>2 DEF InsertStage
  <2>2. \A d \in Dbos : d \in insert_job' <=> \E c \in Chunks : Inserting(c, d)'
      BY <1>0, <1>5 DEF InsertStage
  <2>3. \A c1, c2 \in Chunks, d \in Dbos : Inserting(c1, d)' /\ Inserting(c2, d)' => c1 = c2
      BY <1>5 DEF InsertStage
  <2> QED
      BY <1>2, <1>4, <2>1, <2>2, <2>3 DEF InsertStage
<1>7. all_done' \in BOOLEAN /\ status_widget' \in BOOLEAN
    BY <1>0, CheckType
<1>8. insert_job' \subseteq Dbos /\ signals' \in Nat
    BY <1>0 DEF Typed
<1>9. Typed'
    BY <1>1, <1>2, <1>4, <1>7, <1>8 DEF Typed, Events
<1>10. DecoderStage' /\ MapStage' /\ FrameStage'
    BY <1>1, <1>2, EventsDiffer DEF DecoderStage, MapStage, FrameStage
<1> QED
    BY <1>1, <1>2, <1>6, <1>9, <1>10

(* The flags that a waiting slot and the user set. *)
LEMMA FlagsKeepStages ==
    ASSUME Stages, WaitOn \/ CloseStatusDialog \/ UNCHANGED vars
    PROVE  Stages'
<1> USE DEF Stages, Lines
<1>1. /\ UNCHANGED <<mode, summary, content, decoder, decoded, extracted, events, frames,
                     decode_job, map_job, map_running, db_line, insert_job, insert_active,
                     all_done, settled, signals, aborted>>
      /\ pause' \in BOOLEAN /\ waiting_for_insert' \in BOOLEAN /\ status_widget' \in BOOLEAN
    BY DEF WaitOn, CloseStatusDialog, vars, fileVars, decoderVars, insertVars, doneVars, Typed
<1>2. Posted' = Posted /\ Queued' = Queued
    BY <1>1 DEF Posted, Queued
<1>3. Typed'
    BY <1>1 DEF Typed
<1>4. DecoderStage' /\ MapStage' /\ FrameStage'
    BY <1>1, <1>2 DEF DecoderStage, MapStage, FrameStage
<1>5. InsertStage'
    BY <1>1, <1>2, InsertStageKept DEF InsertStage
<1> QED
    BY <1>1, <1>3, <1>4, <1>5

(* The stages are in order in every state. *)
THEOREM StagesInvariant == Spec => []Stages
<1>1. Init => Stages
  <2> SUFFICES ASSUME Init PROVE Stages
      OBVIOUS
  <2>1. Posted = {} /\ Queued = {} /\ IsInjective(events) /\ IsInjective(db_line)
      BY DEF Init, Posted, Queued, ToSet, IsInjective
  <2>2. InsertStage
      BY <2>1, FS_EmptySet DEF Init, InsertStage, Inserting
  <2>3. DecoderStage /\ MapStage /\ FrameStage
      BY <2>1 DEF Init, DecoderStage, MapStage, FrameStage
  <2>4. Typed
    <3>1. /\ mode \in {"import", "test", "stubs"} /\ summary \in BOOLEAN /\ content \in Contents
          /\ decoder = "decode" /\ decoded \in 0 .. NumChunks
        BY ChunksAssumption DEF Init
    <3>2. events \in Seq(Events) /\ frames \in Seq(FrameSet) /\ db_line \in Seq(Chunks \X Dbos)
        BY DEF Init
    <3>3. insert_job \subseteq Dbos /\ insert_active \in Nat /\ settled \subseteq Chunks
          /\ signals \in Nat
        BY DEF Init
    <3> QED
        BY <3>1, <3>2, <3>3 DEF Init, Typed, Events, FrameSet
  <2> QED
      BY <2>1, <2>2, <2>3, <2>4 DEF Stages, Lines
<1>2. Stages /\ [Next]_vars => Stages'
  <2> SUFFICES ASSUME Stages, [Next]_vars PROVE Stages'
      OBVIOUS
  <2> USE DecodeKeepsStages, MapEndKeepsStages, InsertEndKeepsStages, AddDecodedKeepsStages,
          ContinueAddDecodedKeepsStages, DecodeDoneKeepsStages, MapJSONDoneKeepsStages,
          ContinueInsertKeepsStages, MapStubsDoneKeepsStages, InsertDoneKeepsStages,
          FlagsKeepStages
  <2>1. CASE Alive /\ (Decode \/ MapEnd \/ InsertEnd)
      BY <2>1
  <2>2. CASE Alive /\ Slots
      BY <2>2 DEF Slots
  <2>3. CASE Alive /\ Frames
      BY <2>3 DEF Frames
  <2> QED
      BY <2>1, <2>2, <2>3 DEF Next
<1> QED
    BY <1>1, <1>2, PTL DEF Spec

(* Every variable keeps its type, and insert_active_ its range: it counts the objects that   *)
(* have an insert.                                                                           *)
THEOREM TypeCorrect == Spec => []TypeOK
<1>1. Stages => TypeOK
  <2> SUFFICES ASSUME Stages PROVE insert_active \in 0 .. Cardinality(Dbos)
      BY DEF Stages, TypeOK
  <2>1. insert_job \subseteq Dbos /\ IsFiniteSet(Dbos)
      BY DbosAssumption DEF Stages, Typed
  <2>2. Cardinality(insert_job) <= Cardinality(Dbos) /\ Cardinality(insert_job) \in Nat
      BY <2>1, FS_Subset, FS_CardinalityType
  <2> QED
      BY <2>1, <2>2, FS_CardinalityType DEF Stages, InsertStage
<1> QED
    BY <1>1, StagesInvariant, PTL

(* An object has an insert job when and only when one is queued or has to  *)
(* be reported, and insert_active_ counts them.                            *)
THEOREM InsertsAreCounted == Spec => []InsertsCounted
<1>1. InsertStage => InsertsCounted
    BY DEF InsertStage, InsertsCounted, Inserting, Posted, Queued
<1> QED
    BY <1>1, StagesInvariant, PTL DEF Stages

-----------------------------------------------------------------------------
(* As long as no assertion fails the chunks decoded so far are those at    *)
(* the four places, no chunk is at two of them, no two slots hold the same *)
(* one, and an error message holds none.                                   *)
Held(c) == \E i \in DOMAIN frames : frames[i].chunk = c

Placed(c) == extracted = c \/ map_job = c \/ Held(c) \/ c \in settled

AtOnePlace(c) ==
    /\ extracted = c => map_job # c /\ ~Held(c) /\ c \notin settled
    /\ map_job = c => ~Held(c) /\ c \notin settled
    /\ Held(c) => c \notin settled

FramesDistinct ==
    /\ \A i, j \in DOMAIN frames : frames[i].chunk = frames[j].chunk /\ frames[i].chunk # None
                                       => i = j
    /\ \A i \in DOMAIN frames : frames[i].slot = "message" => frames[i].chunk = None

Places ==
    Alive => /\ \A c \in Chunks : Placed(c) <=> c \in 1 .. decoded
             /\ \A c \in Chunks : AtOnePlace(c)
             /\ FramesDistinct

(* A pushed frame holds one chunk more. *)
LEMMA HeldPushed ==
    ASSUME FramesDistinct, frames \in Seq(FrameSet), NEW slot, NEW chunk,
           Frame(slot, chunk) \in FrameSet, chunk # None => ~Held(chunk),
           slot = "message" => chunk = None,
           frames' = <<Frame(slot, chunk)>> \o frames
    PROVE  /\ FramesDistinct'
           /\ \A c \in Chunks : Held(c)' <=> Held(c) \/ c = chunk
<1>1. /\ DOMAIN frames' = 1 .. Len(frames) + 1
      /\ frames'[1].slot = slot /\ frames'[1].chunk = chunk
      /\ \A i \in 2 .. Len(frames) + 1 : frames'[i] = frames[i - 1]
    BY PutOnTop DEF Frame
<1>2. DOMAIN frames = 1 .. Len(frames) /\ Len(frames) \in Nat
    OBVIOUS
<1>3. ASSUME NEW i \in 1 .. Len(frames) + 1, i # 1
      PROVE  i - 1 \in DOMAIN frames /\ frames'[i] = frames[i - 1]
  <2>1. i \in 2 .. Len(frames) + 1 /\ i - 1 \in 1 .. Len(frames)
      BY <1>2, <1>3
  <2> QED
      BY <2>1, <1>1, <1>2
<1>4. \A i \in DOMAIN frames : i + 1 \in 2 .. Len(frames) + 1 /\ frames'[i + 1] = frames[i]
    BY <1>1, <1>2
<1>5. \A c \in Chunks : Held(c)' <=> Held(c) \/ c = chunk
  <2> SUFFICES ASSUME NEW c \in Chunks PROVE Held(c)' <=> Held(c) \/ c = chunk
      OBVIOUS
  <2>1. ASSUME Held(c)' PROVE Held(c) \/ c = chunk
    <3>1. PICK i \in 1 .. Len(frames) + 1 : frames'[i].chunk = c
        BY <2>1, <1>1 DEF Held
    <3>2. CASE i = 1
        BY <3>1, <3>2, <1>1
    <3>3. CASE i # 1
      <4>1. i - 1 \in DOMAIN frames /\ frames[i - 1].chunk = c
          BY <3>1, <3>3, <1>3
      <4> QED
          BY <4>1 DEF Held
    <3> QED
        BY <3>2, <3>3
  <2>2. ASSUME Held(c) PROVE Held(c)'
    <3>1. PICK i \in DOMAIN frames : frames[i].chunk = c
        BY <2>2 DEF Held
    <3>2. i + 1 \in DOMAIN frames' /\ frames'[i + 1] = frames[i]
        BY <3>1, <1>1, <1>2, <1>4
    <3> QED
        BY <3>1, <3>2 DEF Held
  <2>3. ASSUME c = chunk PROVE Held(c)'
    <3>1. 1 \in DOMAIN frames'
        BY <1>1, <1>2
    <3> QED
        BY <2>3, <3>1, <1>1 DEF Held
  <2> QED
      BY <2>1, <2>2, <2>3
<1>6. ASSUME NEW i \in 1 .. Len(frames) + 1, NEW j \in 1 .. Len(frames) + 1,
             frames'[i].chunk = frames'[j].chunk, frames'[i].chunk # None
      PROVE  i = j
  <2>1. CASE i = 1 /\ j = 1
      BY <2>1
  <2>2. CASE i = 1 /\ j # 1
    <3>1. j - 1 \in DOMAIN frames /\ frames[j - 1].chunk = chunk
        BY <2>2, <1>1, <1>3, <1>6
    <3> QED
        BY <3>1, <1>1, <1>6, <2>2 DEF Held
  <2>3. CASE i # 1 /\ j = 1
    <3>1. i - 1 \in DOMAIN frames /\ frames[i - 1].chunk = chunk
        BY <2>3, <1>1, <1>3, <1>6
    <3> QED
        BY <3>1, <1>1, <1>6, <2>3 DEF Held
  <2>4. CASE i # 1 /\ j # 1
    <3>1. /\ i - 1 \in DOMAIN frames /\ frames'[i] = frames[i - 1]
          /\ j - 1 \in DOMAIN frames /\ frames'[j] = frames[j - 1]
        BY <2>4, <1>3
    <3>2. i - 1 = j - 1
        BY <3>1, <1>6 DEF FramesDistinct
    <3> QED
        BY <3>2
  <2> QED
      BY <2>1, <2>2, <2>3, <2>4
<1>7. ASSUME NEW i \in 1 .. Len(frames) + 1, frames'[i].slot = "message"
      PROVE  frames'[i].chunk = None
  <2>1. CASE i = 1
      BY <2>1, <1>1, <1>7
  <2>2. CASE i # 1
      BY <2>2, <1>3, <1>7 DEF FramesDistinct
  <2> QED
      BY <2>1, <2>2
<1> QED
    BY <1>1, <1>5, <1>6, <1>7 DEF FramesDistinct

(* A popped one takes its chunk along. *)
LEMMA HeldPopped ==
    ASSUME FramesDistinct, frames \in Seq(FrameSet), frames # <<>>, frames' = Tail(frames)
    PROVE  /\ FramesDistinct'
           /\ \A c \in Chunks : Held(c)' <=> Held(c) /\ c # Head(frames).chunk
           /\ Held(Head(frames).chunk)
           /\ Head(frames).slot = "message" => Head(frames).chunk = None
<1>1. Len(frames) \in Nat \ {0} /\ DOMAIN frames = 1 .. Len(frames) /\ Head(frames) = frames[1]
    OBVIOUS
<1>2. /\ DOMAIN frames' = 1 .. Len(frames) - 1
      /\ \A i \in 1 .. Len(frames) - 1 : frames'[i] = frames[i + 1] /\ i + 1 \in DOMAIN frames
    BY <1>1
<1>3. FramesDistinct'
  <2>1. ASSUME NEW i \in DOMAIN frames', NEW j \in DOMAIN frames',
               frames'[i].chunk = frames'[j].chunk, frames'[i].chunk # None
        PROVE  i = j
    <3>1. i + 1 = j + 1
        BY <2>1, <1>2 DEF FramesDistinct
    <3> QED
        BY <3>1, <1>1, <1>2
  <2>2. ASSUME NEW i \in DOMAIN frames', frames'[i].slot = "message"
        PROVE  frames'[i].chunk = None
      BY <2>2, <1>2 DEF FramesDistinct
  <2> QED
      BY <2>1, <2>2 DEF FramesDistinct
<1>4. ASSUME NEW c \in Chunks
      PROVE  Held(c)' <=> Held(c) /\ c # Head(frames).chunk
  <2>1. ASSUME Held(c)' PROVE Held(c) /\ c # Head(frames).chunk
    <3>1. PICK i \in 1 .. Len(frames) - 1 : frames'[i].chunk = c
        BY <2>1, <1>2 DEF Held
    <3>2. i + 1 \in DOMAIN frames /\ i + 1 # 1 /\ 1 \in DOMAIN frames /\ frames[i + 1].chunk = c
        BY <3>1, <1>1, <1>2
    <3>3. frames[i + 1].chunk # frames[1].chunk
        BY <3>2, ChunksAssumption DEF FramesDistinct
    <3> QED
        BY <3>2, <3>3, <1>1 DEF Held
  <2>2. ASSUME Held(c), c # Head(frames).chunk PROVE Held(c)'
    <3>1. PICK i \in DOMAIN frames : frames[i].chunk = c
        BY <2>2 DEF Held
    <3>2. i # 1
        BY <3>1, <2>2, <1>1
    <3>3. i - 1 \in 1 .. Len(frames) - 1 /\ (i - 1) + 1 = i
        BY <3>2, <1>1
    <3>4. frames'[i - 1] = frames[i]
        BY <3>3, <1>2
    <3> QED
        BY <3>1, <3>3, <3>4, <1>2 DEF Held
  <2> QED
      BY <2>1, <2>2
<1>5. 1 \in DOMAIN frames
    BY <1>1
<1>6. Held(Head(frames).chunk)
    BY <1>1, <1>5 DEF Held
<1>7. Head(frames).slot = "message" => Head(frames).chunk = None
    BY <1>1, <1>5 DEF FramesDistinct
<1> QED
    BY <1>3, <1>4, <1>6, <1>7

(* A step that moves no chunk. *)
LEMMA NothingMoved ==
    ASSUME Places, Alive, UNCHANGED <<extracted, map_job, frames, settled, decoded>>
    PROVE  Places'
    BY DEF Places, Placed, AtOnePlace, Held, FramesDistinct

(* The decode job. *)
LEMMA DecodeKeepsPlaces ==
    ASSUME Stages, Places, Alive, Decode
    PROVE  Places'
<1>1. CASE DecodeChunk
  <2>1. /\ extracted = None /\ extracted' = decoded + 1 /\ decoded' = decoded + 1
        /\ UNCHANGED <<map_job, frames, settled>>
      BY <1>1 DEF DecodeChunk, Stages, DecoderStage
  <2>2. decoded \in Nat /\ decoded + 1 \in Chunks
      BY <1>1, ChunksAssumption DEF DecodeChunk, Stages, Typed, Chunks
  <2>3. ~Placed(decoded + 1)
      BY <2>2 DEF Places
  <2>4. \A c \in Chunks : c \in 1 .. decoded' <=> c \in 1 .. decoded \/ c = decoded + 1
      BY <2>1, <2>2 DEF Chunks
  <2>5. \A c \in Chunks : Held(c)' <=> Held(c)
      BY <2>1 DEF Held
  <2>6. FramesDistinct'
      BY <2>1 DEF Places, FramesDistinct
  <2>7. \A c \in Chunks : Placed(c)' <=> Placed(c) \/ c = decoded + 1
      BY <2>1, <2>5, ChunksAssumption DEF Placed
  <2>8. \A c \in Chunks : AtOnePlace(c)'
      BY <2>1, <2>2, <2>3, <2>5, ChunksAssumption DEF Places, Placed, AtOnePlace
  <2> QED
      BY <2>4, <2>6, <2>7, <2>8 DEF Places
<1>2. CASE DecodeEmit \/ DecodeGoOn \/ DecodeEnd
    BY <1>2, NothingMoved DEF DecodeEmit, DecodeGoOn, DecodeEnd, decoderVars
<1> QED
    BY <1>1, <1>2 DEF Decode

(* The chunk moves out to the mapping job or onto the stack. *)
LEMMA AddDecodedKeepsPlaces ==
    ASSUME Stages, Places, Alive, AddDecodedASTERIX, Alive'
    PROVE  Places'
<1>1. extracted \in Chunks /\ extracted # None
    BY EventTaken DEF AddDecodedASTERIX, Stages, DecoderStage, Typed
<1>2. /\ extracted' = None /\ UNCHANGED <<settled, decoded>>
      /\ \/ map_job = None /\ map_job' = extracted /\ UNCHANGED frames
         \/ /\ frames' = <<Frame("addDecoded", extracted)>> \o frames
            /\ UNCHANGED map_job
    BY DEF AddDecodedASTERIX, Abort, Alive, StartMap, decoderVars
<1>3. CASE map_job = None /\ map_job' = extracted /\ UNCHANGED frames
  <2>1. \A c \in Chunks : Held(c)' <=> Held(c)
      BY <1>3 DEF Held
  <2>2. \A c \in Chunks : (Placed(c)' <=> Placed(c)) /\ AtOnePlace(c)'
      BY <1>1, <1>2, <1>3, <2>1, ChunksAssumption DEF Places, Placed, AtOnePlace
  <2>3. FramesDistinct'
      BY <1>3 DEF Places, FramesDistinct
  <2> QED
      BY <1>2, <2>2, <2>3 DEF Places
<1>4. CASE /\ frames' = <<Frame("addDecoded", extracted)>> \o frames
           /\ UNCHANGED map_job
  <2>1. frames \in Seq(FrameSet) /\ Frame("addDecoded", extracted) \in FrameSet
      BY <1>1 DEF Stages, Typed, FrameSet, Frame
  <2>2. ~Held(extracted) /\ FramesDistinct
      BY <1>1 DEF Places, AtOnePlace
  <2>3. FramesDistinct' /\ \A c \in Chunks : Held(c)' <=> Held(c) \/ c = extracted
      BY <1>4, <2>1, <2>2, HeldPushed
  <2>4. \A c \in Chunks : (Placed(c)' <=> Placed(c)) /\ AtOnePlace(c)'
      BY <1>1, <1>2, <1>4, <2>3, ChunksAssumption DEF Places, Placed, AtOnePlace
  <2> QED
      BY <1>2, <2>3, <2>4 DEF Places
<1> QED
    BY <1>2, <1>3, <1>4

(* A slot that waited hands its chunk to the mapping job or, in            *)
(* insertData, to the objects; an error message has none.                  *)
LEMMA PopKeepsPlaces ==
    ASSUME Stages, Places, Alive, ContinueAddDecoded \/ ContinueInsertData \/ MessageClosed,
           Alive'
    PROVE  Places'
<1> DEFINE chunk == Head(frames).chunk
<1>1. frames \in Seq(FrameSet) /\ frames # <<>> /\ frames' = Tail(frames)
    BY DEF Stages, Typed, FrameSet, ContinueAddDecoded, ContinueInsertData, MessageClosed
<1>2. /\ FramesDistinct'
      /\ \A c \in Chunks : Held(c)' <=> Held(c) /\ c # chunk
      /\ Held(chunk)
      /\ Head(frames).slot = "message" => chunk = None
    BY <1>1, HeldPopped DEF Places
<1>3. Head(frames).slot # "message" => chunk \in Chunks
    BY <1>1, FramePopped DEF Stages
<1> HIDE DEF chunk
<1>4. CASE ContinueAddDecoded
  <2>1. map_job = None /\ map_job' = chunk /\ UNCHANGED <<extracted, settled, decoded>>
      BY <1>4 DEF ContinueAddDecoded, StartMap, decoderVars, chunk
  <2>2. chunk \in Chunks
      BY <1>3, <1>4 DEF ContinueAddDecoded
  <2>3. \A c \in Chunks : (Placed(c)' <=> Placed(c)) /\ AtOnePlace(c)'
      BY <1>2, <2>1, <2>2, ChunksAssumption DEF Places, Placed, AtOnePlace
  <2> QED
      BY <1>2, <2>1, <2>3 DEF Places
<1>5. CASE ContinueInsertData
  <2>1. settled' = settled \cup {chunk} /\ UNCHANGED <<extracted, map_job, decoded>>
      BY <1>5 DEF ContinueInsertData, Insert, Abort, Alive, decoderVars, chunk
  <2>2. chunk \in Chunks
      BY <1>3, <1>5 DEF ContinueInsertData
  <2>3. \A c \in Chunks : (Placed(c)' <=> Placed(c)) /\ AtOnePlace(c)'
      BY <1>2, <2>1, <2>2, ChunksAssumption DEF Places, Placed, AtOnePlace
  <2> QED
      BY <1>2, <2>1, <2>3 DEF Places
<1>6. CASE MessageClosed
  <2>1. UNCHANGED <<extracted, map_job, settled, decoded>>
      BY <1>6 DEF MessageClosed, decoderVars
  <2>2. chunk = None
      BY <1>2, <1>6 DEF MessageClosed
  <2>3. \A c \in Chunks : (Placed(c)' <=> Placed(c)) /\ AtOnePlace(c)'
      BY <1>2, <2>1, <2>2, ChunksAssumption DEF Places, Placed, AtOnePlace
  <2> QED
      BY <1>2, <2>1, <2>3 DEF Places
<1> QED
    BY <1>4, <1>5, <1>6

(* The mapping job gives its chunk away, or an error message opens. *)
LEMMA DoneKeepsPlaces ==
    ASSUME Stages, Places, Alive, MapJSONDone \/ MapStubsDone \/ DecodeASTERIXDone, Alive'
    PROVE  Places'
<1>1. frames \in Seq(FrameSet) /\ FramesDistinct
    BY DEF Stages, Typed, FrameSet, Places
<1>2. CASE MapJSONDone \/ MapStubsDone
  <2>1. map_job \in Chunks /\ map_job # None
      BY <1>2, EventTaken, ChunksAssumption DEF MapJSONDone, MapStubsDone, Stages, MapStage, Typed
  <2>2. /\ map_job' = None /\ UNCHANGED <<extracted, decoded>>
        /\ \/ settled' = settled \cup {map_job} /\ UNCHANGED frames
           \/ /\ frames' = <<Frame("insertData", map_job)>> \o frames
              /\ UNCHANGED settled
    <3>1. CASE MapJSONDone
        BY <3>1 DEF MapJSONDone, Insert, Abort, Alive, decoderVars
    <3>2. CASE MapStubsDone
        BY <3>2 DEF MapStubsDone, decoderVars
    <3> QED
        BY <1>2, <3>1, <3>2
  <2>3. CASE settled' = settled \cup {map_job} /\ UNCHANGED frames
    <3>1. FramesDistinct' /\ \A c \in Chunks : Held(c)' <=> Held(c)
        BY <2>3, <1>1 DEF Held, FramesDistinct
    <3>2. \A c \in Chunks : (Placed(c)' <=> Placed(c)) /\ AtOnePlace(c)'
        BY <2>1, <2>2, <2>3, <3>1, ChunksAssumption DEF Places, Placed, AtOnePlace
    <3> QED
        BY <2>2, <3>1, <3>2 DEF Places
  <2>4. CASE frames' = <<Frame("insertData", map_job)>> \o frames /\ UNCHANGED settled
    <3>1. Frame("insertData", map_job) \in FrameSet /\ ~Held(map_job)
        BY <2>1 DEF FrameSet, Frame, Places, AtOnePlace
    <3>2. FramesDistinct' /\ \A c \in Chunks : Held(c)' <=> Held(c) \/ c = map_job
        BY <1>1, <2>1, <2>4, <3>1, HeldPushed
    <3>3. \A c \in Chunks : (Placed(c)' <=> Placed(c)) /\ AtOnePlace(c)'
        BY <2>1, <2>2, <2>4, <3>2, ChunksAssumption DEF Places, Placed, AtOnePlace
    <3> QED
        BY <2>2, <3>2, <3>3 DEF Places
  <2> QED
      BY <2>2, <2>3, <2>4
<1>3. CASE DecodeASTERIXDone
  <2>1. UNCHANGED <<extracted, map_job, settled, decoded>>
      BY <1>3 DEF DecodeASTERIXDone, decoderVars
  <2>2. CASE UNCHANGED frames
      BY <2>1, <2>2, NothingMoved
  <2>3. CASE frames' = <<Frame("message", None)>> \o frames
    <3>1. Frame("message", None) \in FrameSet
        BY DEF FrameSet, Frame
    <3>2. FramesDistinct' /\ \A c \in Chunks : Held(c)' <=> Held(c) \/ c = None
        BY <1>1, <2>3, <3>1, HeldPushed
    <3>3. \A c \in Chunks : (Placed(c)' <=> Placed(c)) /\ AtOnePlace(c)'
        BY <2>1, <3>2, ChunksAssumption DEF Places, Placed, AtOnePlace
    <3> QED
        BY <2>1, <3>2, <3>3 DEF Places
  <2> QED
      BY <1>3, <2>2, <2>3 DEF DecodeASTERIXDone
<1> QED
    BY <1>2, <1>3

(* Each chunk is at one place in every state. *)
THEOREM PlacesInvariant == Spec => []Places
<1>1. Init => Places
  <2> SUFFICES ASSUME Init PROVE Places
      OBVIOUS
  <2>1. FramesDistinct /\ 1 .. decoded = {}
      BY DEF Init, FramesDistinct
  <2>2. ASSUME NEW c \in Chunks PROVE ~Placed(c) /\ AtOnePlace(c)
      BY ChunksAssumption DEF Init, Placed, AtOnePlace, Held
  <2> QED
      BY <2>1, <2>2 DEF Places
<1>2. Stages /\ Places /\ [Next]_vars => Places'
  <2> SUFFICES ASSUME Stages, Places, [Next]_vars, Alive' PROVE Places'
      BY DEF Places
  <2>0. Alive
      BY DEF Next, Alive, vars
  <2> USE <2>0, DecodeKeepsPlaces, AddDecodedKeepsPlaces, PopKeepsPlaces, DoneKeepsPlaces,
          NothingMoved
  <2>1. CASE Decode
      BY <2>1
  <2>2. CASE MapEnd \/ InsertEnd
      BY <2>2 DEF MapEnd, InsertEnd, decoderVars
  <2>3. CASE InsertDone
      BY <2>3 DEF InsertDone, decoderVars
  <2>4. CASE Slots /\ ~InsertDone
      BY <2>4 DEF Slots
  <2>5. CASE WaitOn \/ CloseStatusDialog \/ UNCHANGED vars
      BY <2>5 DEF WaitOn, CloseStatusDialog, vars, decoderVars
  <2>6. CASE Frames /\ ~WaitOn
      BY <2>6 DEF Frames
  <2> QED
      BY <2>1, <2>2, <2>3, <2>4, <2>5, <2>6 DEF Next
<1> QED
    BY <1>1, <1>2, StagesInvariant, PTL DEF Spec

(* The chunks move through the stages one by one: each chunk decoded is at *)
(* exactly one place.                                                      *)
THEOREM ChunksOnce == Spec => []EachChunkOnce
<1>1. Stages /\ Places => EachChunkOnce
  <2> SUFFICES ASSUME Stages, Places, Alive, NEW c \in 1 .. decoded
               PROVE  Cardinality(InFrame(c))
                      + Cardinality({x \in {"extracted"} : extracted = c})
                      + Cardinality({x \in {"map"} : map_job = c})
                      + Cardinality({c} \cap settled) = 1
      BY DEF EachChunkOnce
  <2>1. c \in Chunks /\ c # None
      BY ChunksAssumption DEF Stages, Typed, Chunks
  <2>2. Placed(c) /\ AtOnePlace(c) /\ FramesDistinct
      BY <2>1 DEF Places
  <2>3. Cardinality(InFrame(c)) = IF Held(c) THEN 1 ELSE 0
    <3>1. ASSUME Held(c) PROVE \E i : InFrame(c) = {i}
        BY <3>1, <2>1, <2>2 DEF Held, InFrame, FramesDistinct
    <3>2. ASSUME ~Held(c) PROVE InFrame(c) = {}
        BY <3>2 DEF Held, InFrame
    <3> QED
        BY <3>1, <3>2, FS_EmptySet, FS_Singleton
  <2>4. Cardinality({x \in {"extracted"} : extracted = c}) = IF extracted = c THEN 1 ELSE 0
    <3>1. {x \in {"extracted"} : extracted = c} = IF extracted = c THEN {"extracted"} ELSE {}
        OBVIOUS
    <3> QED
        BY <3>1, FS_EmptySet, FS_Singleton
  <2>5. Cardinality({x \in {"map"} : map_job = c}) = IF map_job = c THEN 1 ELSE 0
    <3>1. {x \in {"map"} : map_job = c} = IF map_job = c THEN {"map"} ELSE {}
        OBVIOUS
    <3> QED
        BY <3>1, FS_EmptySet, FS_Singleton
  <2>6. Cardinality({c} \cap settled) = IF c \in settled THEN 1 ELSE 0
    <3>1. {c} \cap settled = IF c \in settled THEN {c} ELSE {}
        OBVIOUS
    <3> QED
        BY <3>1, FS_EmptySet, FS_Singleton
  <2> QED
      BY <2>2, <2>3, <2>4, <2>5, <2>6 DEF Placed, AtOnePlace
<1> QED
    BY <1>1, StagesInvariant, PlacesInvariant, PTL

-----------------------------------------------------------------------------
(* As long as no assertion fails, an import that is not over has something *)
(* that checkAllDone will be called behind: a decode job, a mapping job, a *)
(* slot that waits in insertData, or an insert - and each of these is      *)
(* under way.                                                              *)
Waits(slot) == \E i \in DOMAIN frames : frames[i].slot = slot

DecodeOwed ==
    decode_job => decoder # "over" \/ <<"decodeDone">> \in Posted \/ <<"decodeError">> \in Posted
                  \/ Waits("message")

MapOwed == map_job # None => map_running \/ <<"mapDone">> \in Posted

InsertOwed == waiting_for_insert => Waits("insertData")

EndOwed == all_done \/ decode_job \/ map_job # None \/ waiting_for_insert \/ insert_active # 0

Owed == Alive => DecodeOwed /\ MapOwed /\ InsertOwed /\ EndOwed

(* The frames that are pushed and popped, by their slots. *)
LEMMA WaitsPushed ==
    ASSUME frames \in Seq(FrameSet), NEW slot, NEW chunk, Frame(slot, chunk) \in FrameSet,
           frames' = <<Frame(slot, chunk)>> \o frames
    PROVE  /\ Waits(slot)'
           /\ \A s : Waits(s) => Waits(s)'
<1>1. /\ DOMAIN frames' = 1 .. Len(frames) + 1
      /\ frames'[1].slot = slot
      /\ \A i \in 2 .. Len(frames) + 1 : frames'[i] = frames[i - 1]
    BY PutOnTop DEF Frame
<1>2. DOMAIN frames = 1 .. Len(frames) /\ Len(frames) \in Nat
    OBVIOUS
<1>3. 1 \in DOMAIN frames'
    BY <1>1, <1>2
<1>4. ASSUME NEW i \in DOMAIN frames
      PROVE  i + 1 \in DOMAIN frames' /\ frames'[i + 1] = frames[i]
    BY <1>1, <1>2
<1> QED
    BY <1>1, <1>3, <1>4 DEF Waits

LEMMA WaitsPopped ==
    ASSUME frames \in Seq(FrameSet), frames # <<>>, frames' = Tail(frames)
    PROVE  \A s : Waits(s) => Waits(s)' \/ s = Head(frames).slot
<1>1. Len(frames) \in Nat \ {0} /\ DOMAIN frames = 1 .. Len(frames) /\ Head(frames) = frames[1]
    OBVIOUS
<1>2. /\ DOMAIN frames' = 1 .. Len(frames) - 1
      /\ \A i \in 1 .. Len(frames) - 1 : frames'[i] = frames[i + 1]
    BY <1>1
<1>3. ASSUME NEW s, Waits(s), s # Head(frames).slot
      PROVE  Waits(s)'
  <2>1. PICK i \in DOMAIN frames : frames[i].slot = s
      BY <1>3 DEF Waits
  <2>2. i - 1 \in 1 .. Len(frames) - 1 /\ (i - 1) + 1 = i
      BY <2>1, <1>1, <1>3
  <2>3. i - 1 \in DOMAIN frames' /\ frames'[i - 1] = frames[i]
      BY <2>2, <1>2
  <2> QED
      BY <2>1, <2>3 DEF Waits
<1> QED
    BY <1>3

(* checkAllDone leaves the import open only while something is. *)
LEMMA CheckLeavesOwed ==
    ASSUME Stages, Stages', CheckAllDone
    PROVE  EndOwed'
    BY DEF CheckAllDone, doneVars, EndOwed, Stages, Typed

(* The pool. *)
LEMMA PoolKeepsOwed ==
    ASSUME Stages, Owed, Alive, Decode \/ MapEnd \/ InsertEnd
    PROVE  Owed'
<1>1. UNCHANGED <<frames, decode_job, map_job, waiting_for_insert, insert_active, all_done>>
    BY DEF Decode, DecodeChunk, DecodeEmit, DecodeGoOn, DecodeEnd, MapEnd, InsertEnd,
           insertVars, doneVars
<1>2. EndOwed' /\ InsertOwed' /\ (Waits("message")' <=> Waits("message"))
    BY <1>1 DEF Owed, EndOwed, InsertOwed, Waits
<1>3. ASSUME NEW x \in Events, Post(x)
      PROVE  x \in Posted' /\ \A e \in Posted : e \in Posted'
  <2>1. events \in Seq(Events)
      BY DEF Stages, Typed, Events
  <2>2. Len(events) + 1 \in DOMAIN events' /\ events'[Len(events) + 1] = x
      BY <2>1, <1>3 DEF Post
  <2>3. \A i \in DOMAIN events : i \in DOMAIN events' /\ events'[i] = events[i]
      BY <2>1, <1>3 DEF Post
  <2> QED
      BY <2>2, <2>3 DEF Posted, ToSet
<1>4. UNCHANGED events => \A e \in Posted : e \in Posted'
    BY DEF Posted
<1>5. <<"decoded">> \in Events /\ <<"decodeDone">> \in Events /\ <<"decodeError">> \in Events
      /\ <<"mapDone">> \in Events
    BY DEF Events
<1>6. CASE DecodeChunk \/ DecodeEmit \/ DecodeGoOn
  <2>1. \A e \in Posted : e \in Posted'
      BY <1>3, <1>4, <1>5, <1>6 DEF DecodeChunk, DecodeEmit, DecodeGoOn
  <2>2. DecodeOwed'
      BY <1>6 DEF DecodeOwed, DecodeChunk, DecodeEmit, DecodeGoOn
  <2>3. MapOwed'
      BY <1>1, <1>6, <2>1 DEF Owed, MapOwed, DecodeChunk, DecodeEmit, DecodeGoOn
  <2> QED
      BY <1>2, <2>2, <2>3 DEF Owed
<1>7. CASE DecodeEnd
  <2>1. /\ \A e \in Posted : e \in Posted'
        /\ <<"decodeDone">> \in Posted' \/ <<"decodeError">> \in Posted'
      BY <1>3, <1>5, <1>7 DEF DecodeEnd
  <2>2. DecodeOwed'
      BY <2>1 DEF DecodeOwed
  <2>3. MapOwed'
      BY <1>1, <1>7, <2>1 DEF Owed, MapOwed, DecodeEnd
  <2> QED
      BY <1>2, <2>2, <2>3 DEF Owed
<1>8. CASE MapEnd
  <2>1. (\A e \in Posted : e \in Posted') /\ <<"mapDone">> \in Posted'
      BY <1>3, <1>5, <1>8 DEF MapEnd
  <2>2. DecodeOwed'
      BY <1>1, <1>2, <1>8, <2>1 DEF Owed, DecodeOwed, MapEnd, decoderVars
  <2>3. MapOwed'
      BY <2>1 DEF MapOwed
  <2> QED
      BY <1>2, <2>2, <2>3 DEF Owed
<1>9. CASE InsertEnd
  <2>1. Head(db_line) \in Chunks \X Dbos
      BY <1>9 DEF InsertEnd, Stages, Typed
  <2>2. <<"insertDone", Head(db_line)[1], Head(db_line)[2]>> \in Events
      BY <2>1 DEF Events
  <2>3. \A e \in Posted : e \in Posted'
      BY <1>3, <1>9, <2>2 DEF InsertEnd
  <2>4. UNCHANGED <<decoder, map_running>>
      BY <1>9 DEF InsertEnd, decoderVars
  <2>5. DecodeOwed' /\ MapOwed'
      BY <1>1, <1>2, <2>3, <2>4 DEF Owed, DecodeOwed, MapOwed
  <2> QED
      BY <1>2, <2>5 DEF Owed
<1> QED
    BY <1>6, <1>7, <1>8, <1>9 DEF Decode

(* A slot that takes event e and pops no frame; what it may end is owed no more. *)
LEMMA SlotKeepsOwed ==
    ASSUME Stages, Owed, Alive, Slots, Alive', Stages'
    PROVE  Owed'
<1> USE DEF Owed
<1>1. frames \in Seq(FrameSet)
    BY DEF Stages, Typed, FrameSet
<1>2. UNCHANGED frames => \A s : Waits(s)' <=> Waits(s)
    BY DEF Waits
<1>3. CASE AddDecodedASTERIX
  <2>1. Posted' = Posted \ {<<"decoded">>} /\ extracted # None /\ extracted \in Chunks
      BY <1>3, EventTaken DEF AddDecodedASTERIX, Stages, DecoderStage, Typed
  <2>2. /\ decode_job /\ UNCHANGED <<decoder, decode_job, waiting_for_insert, all_done>>
        /\ \/ map_running' = TRUE /\ UNCHANGED frames
           \/ /\ frames' = <<Frame("addDecoded", extracted)>> \o frames
              /\ UNCHANGED <<map_job, map_running>>
      BY <1>3 DEF AddDecodedASTERIX, Abort, Alive, StartMap, decoderVars, insertVars, doneVars
  <2>3. Frame("addDecoded", extracted) \in FrameSet
      BY <2>1 DEF Frame, FrameSet
  <2>4. \A s : Waits(s) => Waits(s)'
      BY <1>1, <1>2, <2>2, <2>3, WaitsPushed
  <2>5. DecodeOwed' /\ InsertOwed' /\ EndOwed'
      BY <2>1, <2>2, <2>4, EventsDiffer DEF DecodeOwed, InsertOwed, EndOwed
  <2>6. MapOwed'
      BY <2>1, <2>2, EventsDiffer DEF MapOwed
  <2> QED
      BY <2>5, <2>6
<1>4. CASE DecodeASTERIXDone /\ NextEvent(<<"decodeDone">>)
  <2>1. Posted' = Posted \ {<<"decodeDone">>}
      BY <1>4, EventTaken
  <2>2. /\ decode_job' = FALSE /\ CheckAllDone
        /\ UNCHANGED <<frames, map_job, map_running, waiting_for_insert>>
    <3>1. ~NextEvent(<<"decodeError">>)
        BY <1>4, EventsDiffer DEF NextEvent
    <3> QED
        BY <1>4, <3>1 DEF DecodeASTERIXDone, insertVars
  <2>3. DecodeOwed' /\ MapOwed' /\ InsertOwed'
      BY <1>2, <2>1, <2>2, EventsDiffer DEF DecodeOwed, MapOwed, InsertOwed
  <2> QED
      BY <2>2, <2>3, CheckLeavesOwed
<1>5. CASE DecodeASTERIXDone /\ NextEvent(<<"decodeError">>)
  <2>1. Posted' = Posted \ {<<"decodeError">>}
      BY <1>5, EventTaken
  <2>2. /\ frames' = <<Frame("message", None)>> \o frames
        /\ UNCHANGED <<decode_job, map_job, map_running, waiting_for_insert, insert_active,
                       all_done>>
    <3>1. ~NextEvent(<<"decodeDone">>)
        BY <1>5, EventsDiffer DEF NextEvent
    <3> QED
        BY <1>5, <3>1 DEF DecodeASTERIXDone, insertVars, doneVars
  <2>3. Frame("message", None) \in FrameSet
      BY DEF Frame, FrameSet
  <2>4. Waits("message")' /\ (\A s : Waits(s) => Waits(s)')
      BY <1>1, <2>2, <2>3, WaitsPushed
  <2>5. DecodeOwed' /\ MapOwed' /\ InsertOwed' /\ EndOwed'
      BY <2>1, <2>2, <2>4, EventsDiffer DEF DecodeOwed, MapOwed, InsertOwed, EndOwed
  <2> QED
      BY <2>5
<1>6. CASE MapJSONDone \/ MapStubsDone
  <2>1. Posted' = Posted \ {<<"mapDone">>} /\ map_job \in Chunks
      BY <1>6, EventTaken DEF MapJSONDone, MapStubsDone, Stages, MapStage, Typed
  <2>2. /\ map_job' = None /\ UNCHANGED <<decoder, decode_job>>
        /\ \/ UNCHANGED <<frames, waiting_for_insert>> /\ CheckAllDone
           \/ /\ frames' = <<Frame("insertData", map_job)>> \o frames
              /\ waiting_for_insert' = TRUE
           \/ UNCHANGED frames /\ waiting_for_insert' = FALSE /\ CheckAllDone
    <3>1. CASE MapJSONDone
        BY <3>1 DEF MapJSONDone, Insert, Abort, Alive, decoderVars, insertVars
    <3>2. CASE MapStubsDone
        BY <3>2 DEF MapStubsDone, decoderVars, insertVars
    <3> QED
        BY <1>6, <3>1, <3>2
  <2>3. Frame("insertData", map_job) \in FrameSet
      BY <2>1 DEF Frame, FrameSet
  <2>4. \A s : Waits(s) => Waits(s)'
      BY <1>1, <1>2, <2>2, <2>3, WaitsPushed
  <2>5. DecodeOwed' /\ MapOwed'
      BY <2>1, <2>2, <2>4, EventsDiffer DEF DecodeOwed, MapOwed
  <2>6. InsertOwed'
      BY <1>1, <2>2, <2>3, <2>4, WaitsPushed DEF InsertOwed
  <2>7. EndOwed'
      BY <2>2, CheckLeavesOwed DEF EndOwed
  <2> QED
      BY <2>5, <2>6, <2>7
<1>7. CASE InsertDone
  <2>1. PICK c \in Chunks, d \in Dbos : NextEvent(<<"insertDone", c, d>>)
      BY <1>7 DEF InsertDone
  <2>2. Posted' = Posted \ {<<"insertDone", c, d>>}
      BY <2>1, EventTaken
  <2>3. /\ UNCHANGED <<frames, decoder, decode_job, map_job, map_running, waiting_for_insert>>
        /\ CheckAllDone
      BY <1>7 DEF InsertDone, decoderVars
  <2>4. DecodeOwed' /\ MapOwed' /\ InsertOwed'
      BY <1>2, <2>2, <2>3, EventsDiffer DEF DecodeOwed, MapOwed, InsertOwed
  <2> QED
      BY <2>3, <2>4, CheckLeavesOwed
<1> QED
    BY <1>3, <1>4, <1>5, <1>6, <1>7 DEF Slots, DecodeASTERIXDone

(* A frame that goes on, a flag that is set again. *)
LEMMA FrameKeepsOwed ==
    ASSUME Stages, Owed, Alive, Frames \/ CloseStatusDialog \/ UNCHANGED vars, Alive', Stages'
    PROVE  Owed'
<1> USE DEF Owed
<1>1. UNCHANGED events /\ Posted' = Posted
    BY DEF Frames, ContinueAddDecoded, ContinueInsertData, MessageClosed, WaitOn,
           CloseStatusDialog, vars, Posted
<1>2. frames \in Seq(FrameSet)
    BY DEF Stages, Typed, FrameSet
<1>3. CASE ContinueAddDecoded
  <2>1. Head(frames).chunk \in Chunks /\ Head(frames).slot = "addDecoded"
      BY <1>2, <1>3, FramePopped DEF ContinueAddDecoded, Stages
  <2>2. Waits("message") => Waits("message")'
      BY <1>2, <1>3, <2>1, WaitsPopped DEF ContinueAddDecoded
  <2>3. Waits("insertData") => Waits("insertData")'
      BY <1>2, <1>3, <2>1, WaitsPopped DEF ContinueAddDecoded
  <2>4. /\ map_running' = TRUE /\ map_job' # None
        /\ UNCHANGED <<decoder, decode_job, waiting_for_insert>>
      BY <1>3, <2>1, ChunksAssumption DEF ContinueAddDecoded, StartMap, decoderVars, insertVars
  <2> QED
      BY <1>1, <2>2, <2>3, <2>4 DEF DecodeOwed, MapOwed, InsertOwed, EndOwed
<1>4. CASE ContinueInsertData
  <2>1. Waits("message") => Waits("message")'
      BY <1>2, <1>4, WaitsPopped DEF ContinueInsertData
  <2>2. /\ waiting_for_insert' = FALSE /\ CheckAllDone
        /\ UNCHANGED <<decoder, decode_job, map_job, map_running>>
      BY <1>4 DEF ContinueInsertData, Insert, Abort, Alive, decoderVars
  <2>3. DecodeOwed' /\ MapOwed' /\ InsertOwed'
      BY <1>1, <2>1, <2>2 DEF DecodeOwed, MapOwed, InsertOwed
  <2> QED
      BY <2>2, <2>3, CheckLeavesOwed
<1>5. CASE MessageClosed
  <2>1. Waits("insertData") => Waits("insertData")'
      BY <1>2, <1>5, WaitsPopped DEF MessageClosed
  <2>2. /\ decode_job' = FALSE /\ CheckAllDone
        /\ UNCHANGED <<map_job, map_running, waiting_for_insert>>
      BY <1>5 DEF MessageClosed, insertVars
  <2>3. DecodeOwed' /\ MapOwed' /\ InsertOwed'
      BY <1>1, <2>1, <2>2 DEF DecodeOwed, MapOwed, InsertOwed
  <2> QED
      BY <2>2, <2>3, CheckLeavesOwed
<1>6. CASE WaitOn \/ CloseStatusDialog \/ UNCHANGED vars
  <2>1. /\ UNCHANGED <<frames, decoder, decode_job, map_job, map_running, insert_active, all_done>>
        /\ \/ UNCHANGED waiting_for_insert
           \/ waiting_for_insert' = TRUE /\ frames # <<>> /\ Head(frames).slot = "insertData"
      BY <1>6 DEF WaitOn, CloseStatusDialog, vars, decoderVars, insertVars, doneVars
  <2>2. \A s : Waits(s)' <=> Waits(s)
      BY <2>1 DEF Waits
  <2>3. frames # <<>> => 1 \in DOMAIN frames /\ Head(frames) = frames[1]
      BY <1>2
  <2>4. InsertOwed'
      BY <2>1, <2>2, <2>3 DEF InsertOwed, Waits
  <2> QED
      BY <1>1, <2>1, <2>2, <2>4 DEF DecodeOwed, MapOwed, EndOwed
<1> QED
    BY <1>3, <1>4, <1>5, <1>6 DEF Frames

(* An import that is not over is never left without something under way. *)
THEOREM OwedInvariant == Spec => []Owed
<1>1. Init => Owed
    BY DEF Init, Owed, DecodeOwed, MapOwed, InsertOwed, EndOwed
<1>2. Stages /\ Stages' /\ Owed /\ [Next]_vars => Owed'
  <2> SUFFICES ASSUME Stages, Stages', Owed, [Next]_vars, Alive' PROVE Owed'
      BY DEF Owed
  <2>1. Alive
      BY DEF Next, Alive, vars
  <2> QED
      BY <2>1, PoolKeepsOwed, SlotKeepsOwed, FrameKeepsOwed DEF Next
<1> QED
    BY <1>1, <1>2, StagesInvariant, PTL DEF Spec

(* When nothing moves any more all_done_ is set and every chunk that was   *)
(* decoded has been dealt with: the end of an import cannot be missed.     *)
THEOREM RestIsTheEnd == Spec => []RestIsDone
<1>1. Stages /\ Places /\ Owed => RestIsDone
  <2> SUFFICES ASSUME Stages, Places, Owed, Alive, decoder = "over", events = <<>>,
                      frames = <<>>, db_line = <<>>, ~map_running
               PROVE  all_done /\ settled = 1 .. decoded
      BY DEF RestIsDone
  <2>1. Posted = {} /\ Queued = {} /\ DOMAIN frames = {}
      BY DEF Posted, Queued, ToSet
  <2>2. map_job = None
      BY <2>1 DEF Owed, MapOwed
  <2>3. extracted = None
      BY DEF Stages, DecoderStage
  <2>4. ~decode_job /\ ~waiting_for_insert
      BY <2>1 DEF Owed, DecodeOwed, InsertOwed, Waits
  <2>5. insert_active = 0
    <3>1. insert_job = {}
        BY <2>1 DEF Stages, Typed, InsertStage, Inserting
    <3> QED
        BY <3>1, FS_EmptySet DEF Stages, InsertStage
  <2>6. all_done
      BY <2>2, <2>4, <2>5 DEF Owed, EndOwed
  <2>7. \A c \in Chunks : c \in settled <=> c \in 1 .. decoded
      BY <2>1, <2>2, <2>3, ChunksAssumption DEF Places, Placed, Held
  <2>8. settled \subseteq Chunks /\ 1 .. decoded \subseteq Chunks
      BY ChunksAssumption DEF Stages, Typed, Chunks
  <2> QED
      BY <2>6, <2>7, <2>8
<1> QED
    BY <1>1, StagesInvariant, PlacesInvariant, OwedInvariant, PTL

-----------------------------------------------------------------------------
(* The import implements ChunkPipeline.                                    *)

(* A chunk more is held by the slots of the name of a frame that is pushed. *)
LEMMA HoldersPushed ==
    ASSUME frames \in Seq(FrameSet), NEW slot, NEW chunk, Frame(slot, chunk) \in FrameSet,
           frames' = <<Frame(slot, chunk)>> \o frames, NEW t
    PROVE  HeldBy(t)' = IF t = slot THEN HeldBy(t) \cup {chunk} ELSE HeldBy(t)
<1>1. /\ DOMAIN frames' = 1 .. Len(frames) + 1
      /\ frames'[1].slot = slot /\ frames'[1].chunk = chunk
      /\ \A i \in 2 .. Len(frames) + 1 : frames'[i] = frames[i - 1]
    BY PutOnTop DEF Frame
<1>2. DOMAIN frames = 1 .. Len(frames) /\ Len(frames) \in Nat
    OBVIOUS
<1>3. ASSUME NEW x
      PROVE  x \in HeldBy(t)' <=> x \in HeldBy(t) \/ (t = slot /\ x = chunk)
  <2>1. ASSUME x \in HeldBy(t)'
        PROVE  x \in HeldBy(t) \/ (t = slot /\ x = chunk)
    <3>1. PICK i \in 1 .. Len(frames) + 1 : frames'[i].slot = t /\ frames'[i].chunk = x
        BY <1>1, <2>1 DEF HeldBy
    <3>2. CASE i # 1
      <4>1. i - 1 \in DOMAIN frames /\ frames'[i] = frames[i - 1]
          BY <1>1, <1>2, <3>2
      <4> QED
          BY <3>1, <4>1 DEF HeldBy
    <3> QED
        BY <1>1, <3>1, <3>2
  <2>2. ASSUME x \in HeldBy(t)
        PROVE  x \in HeldBy(t)'
    <3>1. PICK i \in 1 .. Len(frames) : frames[i].slot = t /\ frames[i].chunk = x
        BY <1>2, <2>2 DEF HeldBy
    <3>2. i + 1 \in 2 .. Len(frames) + 1 /\ (i + 1) - 1 = i
        BY <1>2
    <3>3. i + 1 \in DOMAIN frames' /\ frames'[i + 1] = frames[i]
        BY <1>1, <1>2, <3>2
    <3> QED
        BY <3>1, <3>3 DEF HeldBy
  <2>3. t = slot => chunk \in HeldBy(t)'
    <3>1. 1 \in DOMAIN frames'
        BY <1>1, <1>2
    <3> QED
        BY <1>1, <3>1 DEF HeldBy
  <2> QED
      BY <2>1, <2>2, <2>3
<1> QED
    BY <1>3

(* One less is, of the innermost frame when it is popped. *)
LEMMA HoldersPopped ==
    ASSUME FramesDistinct, FrameStage, frames \in Seq(FrameSet), frames # <<>>,
           frames' = Tail(frames), NEW t, t # "message"
    PROVE  /\ HeldBy(t)' = IF t = Head(frames).slot THEN HeldBy(t) \ {Head(frames).chunk}
                           ELSE HeldBy(t)
           /\ t = Head(frames).slot => Head(frames).chunk \in HeldBy(t)
<1>1. Len(frames) \in Nat \ {0} /\ DOMAIN frames = 1 .. Len(frames) /\ Head(frames) = frames[1]
    OBVIOUS
<1>2. /\ DOMAIN frames' = 1 .. Len(frames) - 1
      /\ \A i \in 1 .. Len(frames) - 1 : frames'[i] = frames[i + 1] /\ i + 1 \in DOMAIN frames
    BY <1>1
<1>3. 1 \in DOMAIN frames
    BY <1>1
<1>4. ASSUME NEW x
      PROVE  x \in HeldBy(t)' <=>
                 x \in HeldBy(t) /\ ~(t = Head(frames).slot /\ x = Head(frames).chunk)
  <2>1. ASSUME x \in HeldBy(t)'
        PROVE  x \in HeldBy(t) /\ ~(t = Head(frames).slot /\ x = Head(frames).chunk)
    <3>1. PICK i \in 1 .. Len(frames) - 1 : frames'[i].slot = t /\ frames'[i].chunk = x
        BY <1>2, <2>1 DEF HeldBy
    <3>2. i + 1 \in DOMAIN frames /\ i + 1 # 1 /\ frames[i + 1].slot = t /\ frames[i + 1].chunk = x
        BY <1>1, <1>2, <3>1
    <3>3. x # None
        BY <3>2 DEF FrameStage
    <3>4. x # frames[1].chunk
        BY <1>3, <3>2, <3>3 DEF FramesDistinct
    <3> QED
        BY <1>1, <3>2, <3>4 DEF HeldBy
  <2>2. ASSUME x \in HeldBy(t), ~(t = Head(frames).slot /\ x = Head(frames).chunk)
        PROVE  x \in HeldBy(t)'
    <3>1. PICK i \in 1 .. Len(frames) : frames[i].slot = t /\ frames[i].chunk = x
        BY <1>1, <2>2 DEF HeldBy
    <3>2. i # 1
        BY <1>1, <2>2, <3>1
    <3>3. i - 1 \in 1 .. Len(frames) - 1 /\ (i - 1) + 1 = i
        BY <1>1, <3>2
    <3>4. i - 1 \in DOMAIN frames' /\ frames'[i - 1] = frames[i]
        BY <1>2, <3>3
    <3> QED
        BY <3>1, <3>4 DEF HeldBy
  <2> QED
      BY <2>1, <2>2
<1>5. t = Head(frames).slot => Head(frames).chunk \in HeldBy(t)
    BY <1>1, <1>3 DEF HeldBy
<1> QED
    BY <1>4, <1>5

(* What slots hold is held by a frame. *)
LEMMA HeldByIsHeld == \A t, c : c \in HeldBy(t) => Held(c)
BY DEF HeldBy, Held

(* A step that touches none of what the pipeline is made of. *)
LEMMA PipelineUntouched ==
    ASSUME UNCHANGED <<decoded, extracted, map_job, settled, insert_job, aborted>>,
           HeldBy("addDecoded")' = HeldBy("addDecoded"),
           HeldBy("insertData")' = HeldBy("insertData")
    PROVE  UNCHANGED Pipeline!pipeVars
BY DEF Pipeline!pipeVars

(* insertData behind its wait: the objects get the buffers of one chunk, or *)
(* an assertion fails.                                                     *)
LEMMA InsertSettles ==
    ASSUME Stages, Alive, NEW chunk \in Chunks, insert_active = 0, Insert(chunk)
    PROVE  \/ aborted' # "no" /\ UNCHANGED <<settled, insert_job>>
           \/ aborted' = aborted /\ Pipeline!Settled(chunk)
<1>1. insert_job = {}
  <2>1. IsFiniteSet(insert_job)
      BY DbosAssumption, FS_Subset DEF Stages, Typed
  <2> QED
      BY <2>1, FS_EmptySet DEF Stages, InsertStage
<1>2. content[chunk] \in SUBSET Dbos
    BY ContentsAssumption DEF Stages, Typed
<1>3. \/ aborted' \in {"status_widget_", "!insert_job_"} /\ UNCHANGED <<settled, insert_job>>
      \/ /\ aborted' = aborted /\ settled' = settled \cup {chunk}
         /\ insert_job' = insert_job \cup content[chunk]
    BY DEF Insert, Abort, insertVars
<1> QED
    BY <1>1, <1>2, <1>3 DEF Pipeline!Settled

(* The decode job takes the next chunk from the file. *)
LEMMA DecodeTakes ==
    ASSUME Stages, DecodeChunk
    PROVE  Pipeline!Take
<1>1. extracted = None
    BY DEF DecodeChunk, Stages, DecoderStage
<1>2. /\ decoded' = decoded + 1 /\ extracted' = decoded + 1 /\ decoded + 1 \in Chunks
      /\ UNCHANGED <<frames, map_job, settled, insert_job, aborted>>
  <2>1. /\ decoded < NumChunks /\ decoded' = decoded + 1 /\ extracted' = decoded + 1
        /\ UNCHANGED <<frames, map_job, settled, insert_job, aborted>>
      BY DEF DecodeChunk, insertVars
  <2>2. decoded \in 0 .. NumChunks
      BY DEF Stages, Typed
  <2> QED
      BY <2>1, <2>2, ChunksAssumption DEF Chunks
<1>3. \A t : HeldBy(t)' = HeldBy(t)
    BY <1>2 DEF HeldBy
<1>4. ({extracted} \ {None}) = {} /\ ({extracted'} \ {None}) = {decoded + 1}
    BY <1>1, <1>2, ChunksAssumption
<1> QED
    BY <1>2, <1>3, <1>4 DEF Pipeline!Take

(* addDecodedASTERIXSlot starts the mapping job or lets the chunk wait. *)
LEMMA AddDecodedStarts ==
    ASSUME Stages, Places, Alive, AddDecodedASTERIX
    PROVE  \/ UNCHANGED Pipeline!pipeVars
           \/ Pipeline!Fail
           \/ Pipeline!Start(extracted)
<1>1. extracted \in Chunks /\ extracted # None
    BY EventTaken DEF AddDecodedASTERIX, Stages, DecoderStage, Typed
<1>2. UNCHANGED <<decoded, insert_job, settled>>
    BY DEF AddDecodedASTERIX, Abort, decoderVars, insertVars
<1>3. extracted \notin HeldBy("addDecoded")
    BY <1>1, HeldByIsHeld DEF Places, AtOnePlace
<1>4. CASE aborted' = "decode_job_" /\ UNCHANGED <<extracted, frames, map_job>>
  <2>1. \A t : HeldBy(t)' = HeldBy(t)
      BY <1>4 DEF HeldBy
  <2>2. (aborted # "no")' = TRUE
      BY <1>4
  <2> QED
      BY <1>2, <1>4, <2>1, <2>2 DEF Pipeline!Fail
<1>5. CASE /\ map_job = None /\ map_job' = extracted
           /\ UNCHANGED <<frames, aborted>> /\ extracted' = None
  <2>1. \A t : HeldBy(t)' = HeldBy(t)
      BY <1>5 DEF HeldBy
  <2>2. HeldBy("addDecoded")' \cup ({extracted'} \ {None})
            = (HeldBy("addDecoded") \cup ({extracted} \ {None})) \ {extracted}
      BY <1>1, <1>3, <1>5, <2>1
  <2>3. /\ (IF map_job = None THEN <<>> ELSE <<map_job>>) = <<>>
        /\ (IF map_job' = None THEN <<>> ELSE <<map_job'>>) = Append(<<>>, extracted)
      BY <1>1, <1>5
  <2> QED
      BY <1>1, <1>2, <1>5, <2>1, <2>2, <2>3 DEF Pipeline!Start
<1>6. CASE /\ frames' = <<Frame("addDecoded", extracted)>> \o frames
           /\ UNCHANGED <<map_job, aborted>> /\ extracted' = None
  <2>1. frames \in Seq(FrameSet) /\ Frame("addDecoded", extracted) \in FrameSet
      BY <1>1 DEF Stages, Typed, FrameSet, Frame
  <2>2. /\ HeldBy("addDecoded")' = HeldBy("addDecoded") \cup {extracted}
        /\ HeldBy("insertData")' = HeldBy("insertData")
      BY <1>6, <2>1, HoldersPushed
  <2>3. HeldBy("addDecoded")' \cup ({extracted'} \ {None})
            = HeldBy("addDecoded") \cup ({extracted} \ {None})
      BY <1>1, <1>6, <2>2
  <2> QED
      BY <1>2, <1>6, <2>2, <2>3 DEF Pipeline!pipeVars
<1> QED
    BY <1>4, <1>5, <1>6 DEF AddDecodedASTERIX, Abort, StartMap

(* A slot that waited starts the mapping job, or goes on to the insert. *)
LEMMA WaitingGoOn ==
    ASSUME Stages, Places, Alive, ContinueAddDecoded \/ ContinueInsertData
    PROVE  \/ Pipeline!Fail
           \/ Pipeline!Start(Head(frames).chunk)
           \/ Head(frames).chunk \in HeldBy("insertData") /\ Pipeline!GoOn(Head(frames).chunk)
<1>1. PICK chunk : chunk = Head(frames).chunk
    OBVIOUS
<1>2. frames \in Seq(FrameSet) /\ frames # <<>> /\ frames' = Tail(frames) /\ FramesDistinct
    BY DEF Stages, Typed, FrameSet, ContinueAddDecoded, ContinueInsertData, Places
<1>3. Head(frames).slot # "message" /\ chunk \in Chunks /\ Held(chunk)
    BY <1>1, <1>2, FramePopped, HeldPopped DEF ContinueAddDecoded, ContinueInsertData, Stages
<1>4. \A t \in {"addDecoded", "insertData"} :
          /\ HeldBy(t)' = IF t = Head(frames).slot THEN HeldBy(t) \ {chunk} ELSE HeldBy(t)
          /\ t = Head(frames).slot => chunk \in HeldBy(t)
    BY <1>1, <1>2, HoldersPopped DEF Stages
<1>5. chunk # extracted /\ chunk # None
    BY <1>3, ChunksAssumption DEF Places, AtOnePlace
<1>6. CASE ContinueAddDecoded
  <2>1. /\ map_job = None /\ map_job' = chunk
        /\ UNCHANGED <<decoded, extracted, settled, insert_job, aborted>>
        /\ Head(frames).slot = "addDecoded"
      BY <1>1, <1>6 DEF ContinueAddDecoded, StartMap, decoderVars, insertVars
  <2>2. /\ HeldBy("addDecoded")' = HeldBy("addDecoded") \ {chunk} /\ chunk \in HeldBy("addDecoded")
        /\ HeldBy("insertData")' = HeldBy("insertData")
      BY <1>4, <2>1
  <2>3. HeldBy("addDecoded")' \cup ({extracted'} \ {None})
            = (HeldBy("addDecoded") \cup ({extracted} \ {None})) \ {chunk}
      BY <1>5, <2>1, <2>2
  <2>4. /\ (IF map_job = None THEN <<>> ELSE <<map_job>>) = <<>>
        /\ (IF map_job' = None THEN <<>> ELSE <<map_job'>>) = Append(<<>>, chunk)
      BY <1>5, <2>1
  <2> QED
      BY <1>1, <2>1, <2>2, <2>3, <2>4 DEF Pipeline!Start
<1>7. CASE ContinueInsertData
  <2>1. /\ UNCHANGED <<decoded, extracted, map_job>>
        /\ Head(frames).slot = "insertData" /\ insert_active = 0 /\ Insert(chunk)
      BY <1>1, <1>7 DEF ContinueInsertData, decoderVars
  <2>2. /\ HeldBy("insertData")' = HeldBy("insertData") \ {chunk} /\ chunk \in HeldBy("insertData")
        /\ HeldBy("addDecoded")' = HeldBy("addDecoded")
      BY <1>4, <2>1
  <2>3. CASE aborted' # "no" /\ UNCHANGED <<settled, insert_job>>
    <3>1. (aborted # "no")' = TRUE
        BY <2>3
    <3> QED
        BY <2>1, <2>2, <2>3, <3>1 DEF Pipeline!Fail
  <2>4. CASE aborted' = aborted /\ Pipeline!Settled(chunk)
      BY <1>1, <2>1, <2>2, <2>4 DEF Pipeline!GoOn
  <2> QED
      BY <1>3, <2>1, <2>3, <2>4, InsertSettles
<1> QED
    BY <1>6, <1>7

(* The end of the mapping job settles its chunk or makes it wait for the inserts. *)
LEMMA MappedLeaves ==
    ASSUME Stages, Places, Alive, MapJSONDone \/ MapStubsDone
    PROVE  Pipeline!Leave \/ Pipeline!Fail
<1>1. map_job \in Chunks /\ map_job # None
    BY EventTaken, ChunksAssumption DEF MapJSONDone, MapStubsDone, Stages, MapStage, Typed
<1>2. PICK c : c = map_job
    OBVIOUS
<1>3. /\ (IF map_job = None THEN <<>> ELSE <<map_job>>) = <<c>>
      /\ <<c>> # <<>> /\ Tail(<<c>>) = <<>> /\ Head(<<c>>) = c
    BY <1>1, <1>2
<1>4. UNCHANGED <<decoded, extracted>>
    BY DEF MapJSONDone, MapStubsDone, decoderVars
<1>5. CASE aborted' # "no" /\ UNCHANGED <<frames, map_job, settled, insert_job>>
  <2>1. (aborted # "no")' = TRUE
      BY <1>5
  <2>2. \A t : HeldBy(t)' = HeldBy(t)
      BY <1>5 DEF HeldBy
  <2> QED
      BY <1>4, <1>5, <2>1, <2>2 DEF Pipeline!Fail
<1>6. CASE map_job' = None /\ UNCHANGED frames /\ aborted' # "no"
           /\ UNCHANGED <<settled, insert_job>>
  <2>1. (aborted # "no")' = TRUE
      BY <1>6
  <2>2. \A t : HeldBy(t)' = HeldBy(t)
      BY <1>6 DEF HeldBy
  <2>3. (IF map_job' = None THEN <<>> ELSE <<map_job'>>) = <<>>
      BY <1>6
  <2> QED
      BY <1>3, <1>4, <1>6, <2>1, <2>2, <2>3 DEF Pipeline!Fail
<1>7. CASE map_job' = None /\ UNCHANGED <<frames, aborted>> /\ Pipeline!Settled(c)
  <2>1. \A t : HeldBy(t)' = HeldBy(t)
      BY <1>7 DEF HeldBy
  <2>2. (IF map_job' = None THEN <<>> ELSE <<map_job'>>) = <<>>
      BY <1>7
  <2> QED
      BY <1>3, <1>4, <1>7, <2>1, <2>2 DEF Pipeline!Leave
<1>8. CASE /\ map_job' = None /\ frames' = <<Frame("insertData", c)>> \o frames
           /\ UNCHANGED <<settled, insert_job, aborted>>
  <2>1. frames \in Seq(FrameSet) /\ Frame("insertData", c) \in FrameSet
      BY <1>1, <1>2 DEF Stages, Typed, FrameSet, Frame
  <2>2. /\ HeldBy("insertData")' = HeldBy("insertData") \cup {c}
        /\ HeldBy("addDecoded")' = HeldBy("addDecoded")
      BY <1>8, <2>1, HoldersPushed
  <2>3. (IF map_job' = None THEN <<>> ELSE <<map_job'>>) = <<>>
      BY <1>8
  <2> QED
      BY <1>3, <1>4, <1>8, <2>2, <2>3 DEF Pipeline!Leave
<1>9. CASE MapJSONDone
  <2>1. CASE ~status_widget
      BY <1>5, <1>9, <2>1 DEF MapJSONDone, Abort, insertVars
  <2>2. CASE status_widget /\ mode = "test" /\ settled' = settled \cup {c}
             /\ UNCHANGED <<frames, insertVars, aborted>>
    <3>1. Pipeline!Settled(c) /\ map_job' = None
        BY <1>9, <2>2 DEF Pipeline!Settled, MapJSONDone, insertVars
    <3> QED
        BY <1>7, <2>2, <3>1
  <2>3. CASE status_widget /\ frames' = <<Frame("insertData", c)>> \o frames
             /\ UNCHANGED <<insert_job, settled, aborted>>
      BY <1>8, <1>9, <2>3 DEF MapJSONDone
  <2>4. CASE status_widget /\ insert_active = 0 /\ UNCHANGED frames /\ Insert(c)
    <3>1. map_job' = None
        BY <1>9, <2>4 DEF MapJSONDone
    <3> QED
        BY <1>1, <1>2, <1>6, <1>7, <2>4, <3>1, InsertSettles
  <2> QED
      BY <1>2, <1>9, <2>1, <2>2, <2>3, <2>4 DEF MapJSONDone
<1>10. CASE MapStubsDone
  <2>1. /\ map_job' = None /\ settled' = settled \cup {c}
        /\ UNCHANGED <<frames, insert_job, aborted>>
      BY <1>2, <1>10 DEF MapStubsDone, insertVars
  <2>2. Pipeline!Settled(c)
      BY <2>1 DEF Pipeline!Settled
  <2> QED
      BY <1>7, <2>1, <2>2
<1> QED
    BY <1>9, <1>10

(* Every step of the import is one of the pipeline, or none of it. *)
LEMMA StepsFollowPipeline ==
    ASSUME Stages, Places, [Next]_vars
    PROVE  [Pipeline!Next]_(Pipeline!pipeVars)
<1>1. CASE UNCHANGED vars
  <2>1. UNCHANGED <<decoded, extracted, map_job, settled, insert_job, aborted, frames>>
      BY <1>1 DEF vars, decoderVars, insertVars
  <2>2. \A t : HeldBy(t)' = HeldBy(t)
      BY <2>1 DEF HeldBy
  <2> QED
      BY <2>1, <2>2, PipelineUntouched
<1>2. CASE Next
  <2>1. Alive /\ ~(aborted # "no")
      BY <1>2 DEF Next, Alive
  <2>2. ASSUME UNCHANGED <<decoded, extracted, map_job, settled, insert_job, aborted, frames>>
        PROVE  UNCHANGED Pipeline!pipeVars
    <3>1. \A t : HeldBy(t)' = HeldBy(t)
        BY <2>2 DEF HeldBy
    <3> QED
        BY <2>2, <3>1, PipelineUntouched
  <2>3. CASE DecodeChunk
      BY <2>1, <2>3, DecodeTakes DEF Pipeline!Next
  <2>4. CASE DecodeEmit \/ DecodeGoOn \/ DecodeEnd \/ MapEnd
      BY <2>2, <2>4 DEF DecodeEmit, DecodeGoOn, DecodeEnd, MapEnd, decoderVars, insertVars
  <2>5. CASE InsertEnd
      BY <2>2, <2>5 DEF InsertEnd, decoderVars
  <2>6. CASE WaitOn \/ CloseStatusDialog
      BY <2>2, <2>6 DEF WaitOn, CloseStatusDialog, decoderVars, insertVars
  <2>7. CASE AddDecodedASTERIX
    <3>1. Pipeline!Start(extracted) =>
              extracted \in HeldBy("addDecoded") \cup ({extracted} \ {None})
        BY DEF Pipeline!Start
    <3> QED
        BY <2>1, <2>7, <3>1, AddDecodedStarts DEF Pipeline!Next
  <2>8. CASE ContinueAddDecoded \/ ContinueInsertData
    <3>1. Pipeline!Start(Head(frames).chunk) =>
              Head(frames).chunk \in HeldBy("addDecoded") \cup ({extracted} \ {None})
        BY DEF Pipeline!Start
    <3> QED
        BY <2>1, <2>8, <3>1, WaitingGoOn DEF Pipeline!Next
  <2>9. CASE MapJSONDone \/ MapStubsDone
      BY <2>1, <2>9, MappedLeaves DEF Pipeline!Next
  <2>10. frames \in Seq(FrameSet) /\ FramesDistinct /\ FrameStage
      BY <2>1 DEF Stages, Typed, FrameSet, Places
  <2>11. CASE DecodeASTERIXDone
    <3>1. UNCHANGED <<decoded, extracted, map_job, settled, insert_job, aborted>>
        BY <2>11 DEF DecodeASTERIXDone, decoderVars, insertVars
    <3>2. CASE UNCHANGED frames
        BY <2>2, <3>1, <3>2
    <3>3. CASE frames' = <<Frame("message", None)>> \o frames
      <4>1. Frame("message", None) \in FrameSet
          BY DEF FrameSet, Frame
      <4>2. /\ HeldBy("addDecoded")' = HeldBy("addDecoded")
            /\ HeldBy("insertData")' = HeldBy("insertData")
          BY <2>10, <3>3, <4>1, HoldersPushed
      <4> QED
          BY <3>1, <4>2, PipelineUntouched
    <3> QED
        BY <2>11, <3>2, <3>3 DEF DecodeASTERIXDone
  <2>12. CASE MessageClosed
    <3>1. /\ UNCHANGED <<decoded, extracted, map_job, settled, insert_job, aborted>>
          /\ frames # <<>> /\ frames' = Tail(frames) /\ Head(frames).slot = "message"
        BY <2>12 DEF MessageClosed, decoderVars, insertVars
    <3>2. /\ HeldBy("addDecoded")' = HeldBy("addDecoded")
          /\ HeldBy("insertData")' = HeldBy("insertData")
        BY <2>10, <3>1, HoldersPopped
    <3> QED
        BY <3>1, <3>2, PipelineUntouched
  <2>13. CASE InsertDone
    <3>1. PICK c \in Chunks, d \in Dbos :
              /\ NextEvent(<<"insertDone", c, d>>)
              /\ insert_job' = insert_job \ {d}
              /\ UNCHANGED <<decoded, extracted, map_job, settled, aborted, frames>>
        BY <2>13 DEF InsertDone, ForgetInsertJob, decoderVars
    <3>2. d \in insert_job
      <4>1. <<"insertDone", c, d>> \in Posted
          BY <3>1, EventTaken
      <4> QED
          BY <4>1 DEF Stages, InsertStage, Inserting
    <3>3. \A t : HeldBy(t)' = HeldBy(t)
        BY <3>1 DEF HeldBy
    <3>4. Pipeline!InsertEnds(d)
        BY <3>1, <3>2, <3>3 DEF Pipeline!InsertEnds
    <3> QED
        BY <2>1, <3>2, <3>4 DEF Pipeline!Next
  <2> QED
      BY <1>2, <2>3, <2>4, <2>5, <2>6, <2>7, <2>8, <2>9, <2>11, <2>12, <2>13
         DEF Next, Decode, Slots, Frames
<1> QED
    BY <1>1, <1>2

(* The import implements ChunkPipeline: no chunk is mapped or inserted     *)
(* twice or before its turn, and none is lost while no assertion fails.    *)
THEOREM ImportFollowsPipeline == Spec => FollowsPipeline
<1>1. Init => Pipeline!Init
  <2> SUFFICES ASSUME Init
               PROVE  Pipeline!Init
      OBVIOUS
  <2>1. \A t : HeldBy(t) = {}
      BY DEF Init, HeldBy
  <2>2. (aborted # "no") = FALSE
      BY DEF Init
  <2> QED
      BY <2>1, <2>2 DEF Init, Pipeline!Init
<1>2. Stages /\ Places /\ [Next]_vars => [Pipeline!Next]_(Pipeline!pipeVars)
    BY StepsFollowPipeline
<1> QED
    BY <1>1, <1>2, StagesInvariant, PlacesInvariant, PTL DEF Spec, FollowsPipeline, Pipeline!Spec
=============================================================================
