------------------------- MODULE JSONImportProofs -------------------------
(***************************************************************************)
(* Theorems about JSONImport, for any files, any number of runs, any       *)
(* finite set of database objects and any number of inserts of other       *)
(* imports that size_t can count: the chunks move through the stages one   *)
(* by one, the inserts are counted, the end leaves chunks of waiting slots *)
(* only, and the database has what it should when nothing moves.           *)
(* First what readFilePart makes of a file: its objects, in full parts.    *)
(***************************************************************************)
EXTENDS JSONImport, FiniteSetTheorems, WellFoundedInduction, TLAPS

-----------------------------------------------------------------------------
(* What readFilePart makes of a file: its parts are a sequence.            *)

(* The states of the read job while it reads a file of these characters.   *)
ScanStates(C) ==
    [parts : Seq(Seq(Seq(C))), objects : Seq(Seq(C)), open : Int, tmp : Seq(C)]

(* A character leads from such a state to such a state.                    *)
LEMMA NextCharType ==
    ASSUME NEW C, NEW s \in ScanStates(C), NEW c \in C, NEW number
    PROVE  NextChar(s, c, number) \in ScanStates(C)
<1>1. /\ s.parts \in Seq(Seq(Seq(C))) /\ s.objects \in Seq(Seq(C))
      /\ s.open \in Int /\ s.tmp \in Seq(C)
      /\ s = [parts |-> s.parts, objects |-> s.objects, open |-> s.open, tmp |-> s.tmp]
    BY DEF ScanStates
<1>2. Count(s.open, c) \in Int
  <2>1. PICK o \in Int : o = s.open
      BY <1>1
  <2>2. o + 1 \in Int /\ o - 1 \in Int
      OBVIOUS
  <2>3. Count(o, c) \in {o + 1, o - 1, o}
      BY Zenon DEF Count
  <2> QED
      BY <2>1, <2>2, <2>3
<1>3. Append(s.tmp, c) \in Seq(C) /\ <<>> \in Seq(C) /\ <<>> \in Seq(Seq(C))
    BY <1>1
<1>4. ReadChar(s, c) \in ScanStates(C)
  <2> DEFINE open == Count(s.open, c)
             tmp  == IF Kept(open, c) THEN Append(s.tmp, c) ELSE s.tmp
  <2>1. tmp \in Seq(C) /\ open \in Int
      BY <1>1, <1>2, <1>3
  <2>2. Append(s.objects, tmp) \in Seq(Seq(C))
      BY <1>1, <2>1
  <2>3. ReadChar(s, c) = IF c = "}" /\ open = 0
                         THEN [s EXCEPT !.open = open, !.tmp = <<>>,
                                        !.objects = Append(@, tmp)]
                         ELSE [s EXCEPT !.open = open, !.tmp = tmp]
      BY DEF ReadChar
  <2> HIDE DEF open, tmp
  <2> QED
      BY <1>1, <1>3, <2>1, <2>2, <2>3 DEF ScanStates
<1>5. Append(s.parts, s.objects) \in Seq(Seq(Seq(C)))
    BY <1>1
<1> QED
    BY <1>1, <1>3, <1>4, <1>5 DEF NextChar, ScanStates

(* A set of numbers with a member has a least one. *)
LEMMA LeastNumber ==
    ASSUME NEW S \in SUBSET Nat, S # {}
    PROVE  \E n \in S : \A m \in S : n <= m
<1> DEFINE less == {ss \in Nat \X Nat : ss[1] < ss[2]}
<1>1. \A m, n \in Nat : <<m, n>> \in less <=> m < n
    OBVIOUS
<1>2. IsWellFoundedOn(less, Nat)
  <2>1. less = OpToRel(<, Nat)
      BY Zenon DEF OpToRel
  <2> QED
      BY <2>1, NatLessThanWellFounded
<1> HIDE DEF less
<1>3. PICK n \in S : \A m \in S : ~(<<m, n>> \in less)
    BY <1>2, WFMin
<1>4. ASSUME NEW m \in S
      PROVE  n <= m
  <2>1. m \in Nat /\ n \in Nat /\ ~(m < n)
      BY <1>1, <1>3
  <2> QED
      BY <2>1
<1> QED
    BY <1>4

(* A set of numbers up to n that has 0 and with a number the next one has n. *)
LEMMA AllNumbers ==
    ASSUME NEW n \in Nat, NEW S, 0 \in S, \A i \in 0 .. n : i \in S /\ i < n => i + 1 \in S
    PROVE  n \in S
<1> DEFINE Missing == {i \in 0 .. n : i \notin S}
<1>1. SUFFICES ASSUME n \notin S PROVE FALSE
    OBVIOUS
<1>2. n \in Missing /\ Missing \in SUBSET Nat
    BY <1>1
<1>3. PICK i \in Missing : \A j \in Missing : i <= j
    BY <1>2, LeastNumber
<1>4. i \in 0 .. n /\ i \notin S /\ i # 0 /\ i - 1 \in 0 .. n /\ i - 1 < n /\ (i - 1) + 1 = i
    BY <1>3
<1>5. i - 1 \in S
    BY <1>3, <1>4
<1> QED
    BY <1>4, <1>5

(* The states after each of the characters: of such a state, by NextChar from the last. *)
LEMMA ScansType ==
    ASSUME NEW C, NEW text \in Seq(C), NEW number
    PROVE  /\ Scans(text, number) \in [0 .. Len(text) -> ScanStates(C)]
           /\ Scans(text, number)[0] = [parts |-> <<>>, objects |-> <<>>, open |-> 0, tmp |-> <<>>]
           /\ \A i \in 1 .. Len(text) :
                  Scans(text, number)[i] = NextChar(Scans(text, number)[i - 1], text[i], number)
<1> DEFINE start == [parts |-> <<>>, objects |-> <<>>, open |-> 0, tmp |-> <<>>]
           States == ScanStates(C)
           Step(s, i) == NextChar(s, text[i], number)
           IsScan(f, n) == f[0] = start /\ \A i \in 1 .. n : f[i] = Step(f[i - 1], i)
           Reached == {n \in 0 .. Len(text) : \E f \in [0 .. n -> States] : IsScan(f, n)}
<1>1. start \in States
  <2>1. <<>> \in Seq(Seq(Seq(C))) /\ <<>> \in Seq(Seq(C)) /\ <<>> \in Seq(C) /\ 0 \in Int
      OBVIOUS
  <2> QED
      BY <2>1 DEF ScanStates
<1>2. \A s \in States, i \in 1 .. Len(text) : Step(s, i) \in States
    BY NextCharType
<1> HIDE DEF start, States, Step
<1>3. 0 \in Reached
  <2> DEFINE f == [i \in 0 .. 0 |-> start]
  <2>1. f \in [0 .. 0 -> States] /\ IsScan(f, 0)
      BY <1>1
  <2> HIDE DEF f, IsScan
  <2> QED
      BY <2>1
<1>4. ASSUME NEW n \in 0 .. Len(text), n \in Reached, n < Len(text)
      PROVE  n + 1 \in Reached
  <2>1. PICK f \in [0 .. n -> States] : IsScan(f, n)
      BY <1>4
  <2> DEFINE g == [i \in 0 .. n + 1 |-> IF i = n + 1 THEN Step(f[n], n + 1) ELSE f[i]]
  <2>2. f[n] \in States /\ n + 1 \in 1 .. Len(text)
      BY <1>4
  <2>3. Step(f[n], n + 1) \in States
      BY <1>2, <2>2
  <2>4. g \in [0 .. n + 1 -> States]
      BY <2>3
  <2>5. g[0] = start /\ g[n + 1] = Step(g[n], n + 1)
      BY <2>1, <1>4
  <2>6. ASSUME NEW i \in 1 .. n
        PROVE  g[i] = Step(g[i - 1], i)
    <3>1. g[i] = f[i] /\ g[i - 1] = f[i - 1]
        BY <1>4
    <3> QED
        BY <3>1, <2>1
  <2>7. IsScan(g, n + 1)
    <3>1. ASSUME NEW i \in 1 .. n + 1 PROVE g[i] = Step(g[i - 1], i)
      <4>1. i \in 1 .. n \/ (i = n + 1 /\ i - 1 = n)
          OBVIOUS
      <4> HIDE DEF g
      <4> QED
          BY <2>5, <2>6, <4>1
    <3> HIDE DEF g
    <3> QED
        BY <3>1, <2>5
  <2> HIDE DEF g, IsScan
  <2> QED
      BY <2>4, <2>7, <1>4
<1>5. Len(text) \in Reached
  <2> HIDE DEF Reached
  <2> QED
      BY <1>3, <1>4, AllNumbers
<1>6. PICK f \in [0 .. Len(text) -> States] : IsScan(f, Len(text))
    BY <1>5
<1>7. f = [i \in 0 .. Len(text) |-> IF i = 0 THEN start ELSE Step(f[i - 1], i)]
    BY <1>6
<1> DEFINE Body(h) == [i \in 0 .. Len(text) |-> IF i = 0 THEN start ELSE Step(h[i - 1], i)]
           all == CHOOSE h : h = Body(h)
<1>8. Scans(text, number) = all
    BY DEF Scans, start, Step
<1>9. all = Body(all)
    BY <1>7
<1>10. \A i \in 0 .. Len(text) : i = 0 => all[i] = start
    BY <1>9
<1>11. \A i \in 1 .. Len(text) : all[i] = Step(all[i - 1], i)
  <2>1. ASSUME NEW i \in 1 .. Len(text) PROVE all[i] = Step(all[i - 1], i)
    <3>1. i \in 0 .. Len(text) /\ i # 0
        OBVIOUS
    <3> QED
        BY <1>9, <3>1
  <2> QED
      BY <2>1
<1>12. all \in [0 .. Len(text) -> States]
  <2>1. DOMAIN all = 0 .. Len(text) /\ all = [i \in 0 .. Len(text) |-> all[i]]
      BY <1>9
  <2> HIDE DEF all
  <2> DEFINE Typed(n) == {k \in 0 .. n : all[k] \in States}
  <2>2. ASSUME NEW n \in 0 .. Len(text)
        PROVE  n \in Typed(n)
    <3>1. 0 \in Typed(n)
        BY <1>10, <1>1
    <3>2. ASSUME NEW i \in 0 .. n, i \in Typed(n), i < n PROVE i + 1 \in Typed(n)
      <4>1. all[i] \in States /\ i + 1 \in 1 .. Len(text) /\ i + 1 \in 0 .. n /\ (i + 1) - 1 = i
          BY <3>2
      <4>2. all[i + 1] = Step(all[i], i + 1)
          BY <1>11, <4>1
      <4>3. all[i + 1] \in States
          BY <1>2, <4>1, <4>2
      <4> QED
          BY <4>1, <4>3
    <3> HIDE DEF Typed
    <3> QED
        BY <3>1, <3>2, AllNumbers
  <2> QED
      BY <2>1, <2>2
<1>13. 0 \in 0 .. Len(text)
    OBVIOUS
<1> HIDE DEF all
<1> QED
    BY <1>8, <1>10, <1>11, <1>12, <1>13 DEF States, start, Step

(* The parts of a file are a sequence.                                     *)
LEMMA PartsType ==
    ASSUME NEW C, NEW text \in Seq(C), NEW number
    PROVE  Parts(text, number) \in Seq(Seq(Seq(C)))
<1>1. Len(text) \in 0 .. Len(text)
    OBVIOUS
<1>2. Scan(text, number) \in ScanStates(C)
    BY <1>1, ScansType DEF Scan
<1>3. /\ Scan(text, number).parts \in Seq(Seq(Seq(C)))
      /\ Scan(text, number).objects \in Seq(Seq(C))
    BY <1>2 DEF ScanStates
<1> QED
    BY <1>3 DEF Parts

(* ... and so is what they are mapped to.                                  *)
LEMMA MappingType ==
    ASSUME NEW f \in Files
    PROVE  Mapping(f) \in Seq(SUBSET Dbos)
<1> DEFINE parts == Parts(f, NumObjects)
           Objs(i) == {d \in Dbos : \E o \in ToSet(parts[i]) : d \in ToSet(o)}
<1>1. PICK C : parts \in Seq(C)
    BY FilesAssumption, PartsType
<1>2. Mapping(f) = [i \in DOMAIN parts |-> Objs(i)]
    BY DEF Mapping
<1>3. \A i : Objs(i) \in SUBSET Dbos
    OBVIOUS
<1> HIDE DEF parts, Objs
<1>4. DOMAIN parts = 1 .. Len(parts) /\ Len(parts) \in Nat
    BY <1>1
<1> QED
    BY <1>2, <1>3, <1>4

-----------------------------------------------------------------------------
(* What the parts of a file hold.                                          *)

(* How deep a place is in the braces: the count of readFilePart.           *)
LEMMA DepthNext ==
    ASSUME NEW C, NEW text \in Seq(C)
    PROVE  /\ \A i \in 0 .. Len(text) : Depth(text, i) \in Int
           /\ Depth(text, 0) = 0
           /\ \A i \in 0 .. Len(text) - 1 :
                  Depth(text, i + 1) = Count(Depth(text, i), text[i + 1])
<1> DEFINE Same(i, c) == {k \in 1 .. i : text[k] = c}
<1>1. ASSUME NEW i \in 0 .. Len(text), NEW c
      PROVE  IsFiniteSet(Same(i, c)) /\ Braces(text, i, c) = Cardinality(Same(i, c))
             /\ Braces(text, i, c) \in Nat
  <2>1. IsFiniteSet(1 .. i) /\ Same(i, c) \subseteq 1 .. i
      BY FS_Interval
  <2>2. IsFiniteSet(Same(i, c))
      BY <2>1, FS_Subset
  <2> QED
      BY <2>2, FS_CardinalityType DEF Braces
<1>2. ASSUME NEW c
      PROVE  Braces(text, 0, c) = 0
  <2>1. Same(0, c) = {} /\ 0 \in 0 .. Len(text)
      OBVIOUS
  <2> QED
      BY <1>1, <2>1, FS_EmptySet
<1>3. ASSUME NEW i \in 0 .. Len(text) - 1, NEW c
      PROVE  Braces(text, i + 1, c) = Braces(text, i, c) + IF text[i + 1] = c THEN 1 ELSE 0
  <2>1. /\ i \in 0 .. Len(text) /\ i + 1 \in 0 .. Len(text) /\ i + 1 \notin Same(i, c)
        /\ 1 .. i + 1 = (1 .. i) \cup {i + 1}
      OBVIOUS
  <2>2. Same(i + 1, c) = IF text[i + 1] = c THEN Same(i, c) \cup {i + 1} ELSE Same(i, c)
      BY <2>1
  <2> HIDE DEF Same
  <2>3. Cardinality(Same(i, c) \cup {i + 1}) = Cardinality(Same(i, c)) + 1
      BY <1>1, <2>1, FS_AddElement
  <2>4. Braces(text, i, c) \in Nat
      BY <1>1, <2>1
  <2> QED
      BY <1>1, <2>1, <2>2, <2>3, <2>4
<1> HIDE DEF Same
<1> DEFINE Opened(i) == Braces(text, i, "{")
           Closed(i) == Braces(text, i, "}")
<1>4. \A i : Depth(text, i) = Opened(i) - Closed(i)
    BY DEF Depth
<1>5. \A i \in 0 .. Len(text) : Opened(i) \in Nat /\ Closed(i) \in Nat
    BY <1>1
<1>6. Opened(0) = 0 /\ Closed(0) = 0
    BY <1>2
<1>7. ASSUME NEW i \in 0 .. Len(text) - 1, text[i + 1] = "{"
      PROVE  Opened(i + 1) = Opened(i) + 1 /\ Closed(i + 1) = Closed(i) + 0
    BY <1>3, <1>7, Zenon
<1>8. ASSUME NEW i \in 0 .. Len(text) - 1, text[i + 1] = "}"
      PROVE  Opened(i + 1) = Opened(i) + 0 /\ Closed(i + 1) = Closed(i) + 1
    BY <1>3, <1>8, Zenon
<1>9. ASSUME NEW i \in 0 .. Len(text) - 1, text[i + 1] # "{", text[i + 1] # "}"
      PROVE  Opened(i + 1) = Opened(i) + 0 /\ Closed(i + 1) = Closed(i) + 0
    BY <1>3, <1>9, Zenon
<1> HIDE DEF Opened, Closed
<1>10. ASSUME NEW i \in 0 .. Len(text) - 1
       PROVE  /\ Opened(i) \in Nat /\ Closed(i) \in Nat
              /\ Opened(i) + 0 = Opened(i) /\ Closed(i) + 0 = Closed(i)
              /\ Opened(i) + 1 - Closed(i) = Opened(i) - Closed(i) + 1
              /\ Opened(i) - (Closed(i) + 1) = Opened(i) - Closed(i) - 1
  <2>1. i \in 0 .. Len(text)
      OBVIOUS
  <2> QED
      BY <1>5, <2>1
<1>11. ASSUME NEW i \in 0 .. Len(text) - 1
       PROVE  Depth(text, i + 1) = Count(Depth(text, i), text[i + 1])
  <2>1. CASE text[i + 1] = "{"
    <3>1. Opened(i + 1) = Opened(i) + 1 /\ Closed(i + 1) = Closed(i) + 0
        BY <1>7, <2>1, Zenon
    <3>2. Depth(text, i + 1) = Depth(text, i) + 1
        BY <1>4, <1>10, <3>1
    <3> QED
        BY <2>1, <3>2, Zenon DEF Count
  <2>2. CASE text[i + 1] = "}"
    <3>1. Opened(i + 1) = Opened(i) + 0 /\ Closed(i + 1) = Closed(i) + 1
        BY <1>8, <2>2, Zenon
    <3>2. Depth(text, i + 1) = Depth(text, i) - 1
        BY <1>4, <1>10, <3>1
    <3> QED
        BY <2>2, <3>2, Zenon DEF Count
  <2>3. CASE text[i + 1] # "{" /\ text[i + 1] # "}"
    <3>1. Depth(text, i + 1) = Depth(text, i)
        BY <1>4, <1>9, <1>10, <2>3, Zenon
    <3> QED
        BY <2>3, <3>1, Zenon DEF Count
  <2> QED
      BY <2>1, <2>2, <2>3
<1>12. \A i \in 0 .. Len(text) : Depth(text, i) \in Int
    BY <1>4, <1>5
<1>13. Depth(text, 0) = 0
    BY <1>4, <1>6
<1> QED
    BY <1>11, <1>12, <1>13

(* The loop inside of FlattenSeq is a function.                            *)
LEMMA FlatteningSteps ==
    ASSUME NEW S, NEW seqs \in Seq(Seq(S)), Len(seqs) > 0
    PROVE  \E f \in [1 .. Len(seqs) -> Seq(S)] :
               /\ f[1] = seqs[1]
               /\ \A i \in 2 .. Len(seqs) : f[i] = f[i - 1] \o seqs[i]
               /\ FlattenSeq(seqs) = f[Len(seqs)]
<1> DEFINE N == Len(seqs)
           IsFlat(f, n) == f[1] = seqs[1] /\ \A i \in 2 .. n : f[i] = f[i - 1] \o seqs[i]
           Reached == {n \in 0 .. N : n = 0 \/ \E f \in [1 .. n -> Seq(S)] : IsFlat(f, n)}
<1>1. N \in Nat /\ N > 0 /\ \A i \in 1 .. N : seqs[i] \in Seq(S)
    OBVIOUS
<1>7. FlattenSeq(seqs) =
          LET all == CHOOSE h :
                         h = [i \in 1 .. N |-> IF i = 1 THEN seqs[i] ELSE h[i - 1] \o seqs[i]]
          IN  all[N]
    BY DEF FlattenSeq
<1> HIDE DEF N
<1>2. 0 \in Reached
    BY <1>1
<1>3. ASSUME NEW n \in 0 .. N, n \in Reached, n < N
      PROVE  n + 1 \in Reached
  <2>1. CASE n = 0
    <3> DEFINE g == [i \in 1 .. 1 |-> seqs[1]]
    <3>1. g \in [1 .. 1 -> Seq(S)] /\ g[1] = seqs[1]
        BY <1>1
    <3>2. \A i \in 2 .. 1 : FALSE
        OBVIOUS
    <3> HIDE DEF g
    <3>3. IsFlat(g, 1)
        BY <3>1, <3>2
    <3> HIDE DEF IsFlat
    <3> QED
        BY <2>1, <3>1, <3>3, <1>1, <1>3
  <2>2. CASE n # 0
    <3>1. PICK f \in [1 .. n -> Seq(S)] : IsFlat(f, n)
        BY <1>3, <2>2
    <3> DEFINE g == [i \in 1 .. n + 1 |-> IF i = n + 1 THEN f[n] \o seqs[n + 1] ELSE f[i]]
    <3>0. n \in 1 .. n /\ n + 1 \in 1 .. N /\ n \in Nat
        BY <1>1, <1>3, <2>2
    <3>2. f[n] \in Seq(S) /\ seqs[n + 1] \in Seq(S)
        BY <1>1, <3>0
    <3>3. f[n] \o seqs[n + 1] \in Seq(S)
        BY <3>2
    <3>4. g \in [1 .. n + 1 -> Seq(S)]
        BY <3>3
    <3>5. g[1] = seqs[1] /\ g[n + 1] = g[n] \o seqs[n + 1]
      <4>1. 1 \in 1 .. n /\ 1 \in 1 .. n + 1 /\ n \in 1 .. n + 1 /\ n + 1 \in 1 .. n + 1
            /\ n # n + 1 /\ 1 # n + 1
          BY <3>0
      <4> QED
          BY <3>0, <3>1, <4>1
    <3>6. ASSUME NEW i \in 2 .. n
          PROVE  g[i] = g[i - 1] \o seqs[i]
      <4>1. g[i] = f[i] /\ g[i - 1] = f[i - 1]
          OBVIOUS
      <4> QED
          BY <4>1, <3>1
    <3> HIDE DEF g
    <3>7. IsFlat(g, n + 1)
      <4>1. ASSUME NEW i \in 2 .. n + 1 PROVE g[i] = g[i - 1] \o seqs[i]
        <5>1. i \in 2 .. n \/ (i = n + 1 /\ i - 1 = n)
            OBVIOUS
        <5> QED
            BY <3>5, <3>6, <5>1
      <4> QED
          BY <4>1, <3>5
    <3> HIDE DEF IsFlat
    <3> QED
        BY <3>4, <3>7, <1>1, <1>3
  <2> QED
      BY <2>1, <2>2
<1>4. N \in Reached
  <2> HIDE DEF Reached
  <2> QED
      BY <1>1, <1>2, <1>3, AllNumbers
<1>5. PICK f \in [1 .. N -> Seq(S)] : IsFlat(f, N)
  <2> HIDE DEF IsFlat
  <2> QED
      BY <1>1, <1>4
<1> DEFINE Body(h) == [i \in 1 .. N |-> IF i = 1 THEN seqs[i] ELSE h[i - 1] \o seqs[i]]
           all == CHOOSE h : h = Body(h)
<1>6. f = Body(f)
  <2>1. ASSUME NEW i \in 1 .. N
        PROVE  f[i] = IF i = 1 THEN seqs[i] ELSE f[i - 1] \o seqs[i]
    <3>1. i = 1 \/ i \in 2 .. N
        BY <1>1
    <3> QED
        BY <1>5, <3>1
  <2> QED
      BY <1>5, <2>1
<1>8. all = Body(all)
    BY <1>6
<1>9. DOMAIN all = 1 .. N /\ all[1] = seqs[1] /\ all = [i \in 1 .. N |-> all[i]]
  <2>1. 1 \in 1 .. N
      BY <1>1
  <2> HIDE DEF all
  <2> QED
      BY <1>8, <2>1
<1>10. ASSUME NEW i \in 2 .. N
       PROVE  all[i] = all[i - 1] \o seqs[i]
  <2>1. i \in 1 .. N /\ i # 1
      OBVIOUS
  <2> QED
      BY <1>8, <2>1
<1> HIDE DEF all
<1>11. ASSUME NEW n \in 0 .. N PROVE n = 0 \/ all[n] \in Seq(S)
  <2> DEFINE Typed == {k \in 0 .. n : k = 0 \/ all[k] \in Seq(S)}
  <2>1. ASSUME NEW i \in 0 .. n, i \in Typed, i < n PROVE i + 1 \in Typed
    <3>1. CASE i = 0
        BY <3>1, <1>9, <1>1, <2>1
    <3>2. CASE i # 0
      <4>1. i + 1 \in 2 .. N /\ (i + 1) - 1 = i /\ i + 1 \in 1 .. N /\ i + 1 \in 0 .. n
          BY <1>1, <2>1, <3>2
      <4>2. all[i + 1] = all[i] \o seqs[i + 1]
          BY <1>10, <4>1
      <4>3. all[i] \in Seq(S) /\ seqs[i + 1] \in Seq(S)
          BY <2>1, <3>2, <4>1, <1>1
      <4>4. all[i] \o seqs[i + 1] \in Seq(S)
          BY <4>3
      <4> QED
          BY <4>1, <4>2, <4>4
    <3> QED
        BY <3>1, <3>2
  <2>2. 0 \in Typed
      OBVIOUS
  <2> HIDE DEF Typed
  <2>3. n \in Typed
      BY <2>1, <2>2, AllNumbers
  <2> QED
      BY <2>3 DEF Typed
<1>12. all \in [1 .. N -> Seq(S)]
  <2>1. \A i \in 1 .. N : i \in 0 .. N /\ i # 0
      BY <1>1
  <2>2. \A i \in 1 .. N : all[i] \in Seq(S)
      BY <1>11, <2>1
  <2> QED
      BY <1>9, <2>2
<1> QED
    BY <1>7, <1>9, <1>10, <1>12 DEF N, all

(* Nothing before a sequence. *)
LEMMA EmptyBefore ==
    ASSUME NEW S, NEW s \in Seq(S)
    PROVE  <<>> \in Seq(S) /\ <<>> \o s = s
    OBVIOUS

(* One more sequence is put behind what the others give.                   *)
LEMMA FlattenAppend ==
    ASSUME NEW S, NEW seqs \in Seq(Seq(S)), NEW s \in Seq(S)
    PROVE  /\ FlattenSeq(seqs) \in Seq(S)
           /\ FlattenSeq(Append(seqs, s)) = FlattenSeq(seqs) \o s
<1> DEFINE N    == Len(seqs)
           more == Append(seqs, s)
<1>1. /\ N \in Nat /\ more \in Seq(Seq(S)) /\ Len(more) = N + 1 /\ more[N + 1] = s
      /\ Len(seqs) = N /\ \A i \in 1 .. N : more[i] = seqs[i]
    OBVIOUS
<1>5. N = 0 => seqs = <<>> /\ FlattenSeq(seqs) = <<>>
    BY DEF FlattenSeq
<1> HIDE DEF N, more
<1>2. PICK g \in [1 .. N + 1 -> Seq(S)] :
          /\ g[1] = more[1]
          /\ \A i \in 2 .. N + 1 : g[i] = g[i - 1] \o more[i]
          /\ FlattenSeq(more) = g[N + 1]
  <2>1. Len(more) > 0
      BY <1>1
  <2>2. \E f \in [1 .. Len(more) -> Seq(S)] :
            /\ f[1] = more[1]
            /\ \A i \in 2 .. Len(more) : f[i] = f[i - 1] \o more[i]
            /\ FlattenSeq(more) = f[Len(more)]
      BY <1>1, <2>1, FlatteningSteps
  <2> QED
      BY <1>1, <2>2
<1>3. CASE N = 0
  <2>1. FlattenSeq(seqs) = <<>> /\ FlattenSeq(seqs) \in Seq(S) /\ <<>> \o s = s
      BY <1>3, <1>5, EmptyBefore
  <2>2. FlattenSeq(more) = s
      BY <1>1, <1>2, <1>3
  <2> QED
      BY <2>1, <2>2 DEF more
<1>4. CASE N # 0
  <2>1. PICK f \in [1 .. N -> Seq(S)] :
            /\ f[1] = seqs[1]
            /\ \A i \in 2 .. N : f[i] = f[i - 1] \o seqs[i]
            /\ FlattenSeq(seqs) = f[N]
    <3>1. Len(seqs) > 0
        BY <1>1, <1>4
    <3> QED
        BY <1>1, <3>1, FlatteningSteps, Zenon
  <2> DEFINE Same == {k \in 0 .. N : k = 0 \/ f[k] = g[k]}
  <2>2. ASSUME NEW i \in 0 .. N, i \in Same, i < N PROVE i + 1 \in Same
    <3>1. CASE i = 0
      <4>1. f[1] = g[1]
          BY <1>1, <1>2, <1>4, <2>1
      <4> QED
          BY <3>1, <4>1, <2>2, <1>1
    <3>2. CASE i # 0
      <4>1. /\ i + 1 \in 2 .. N /\ i + 1 \in 2 .. N + 1 /\ (i + 1) - 1 = i
            /\ i + 1 \in 1 .. N /\ i + 1 \in 0 .. N
          BY <1>1, <2>2, <3>2
      <4>2. f[i + 1] = f[i] \o seqs[i + 1] /\ g[i + 1] = g[i] \o more[i + 1]
          BY <4>1, <1>2, <2>1
      <4>3. f[i] = g[i] /\ seqs[i + 1] = more[i + 1]
          BY <4>1, <1>1, <2>2, <3>2
      <4> QED
          BY <4>1, <4>2, <4>3
    <3> QED
        BY <3>1, <3>2
  <2>3. 0 \in Same
      BY <1>1
  <2>4. N \in Same
    <3> HIDE DEF Same
    <3> QED
        BY <1>1, <2>2, <2>3, AllNumbers
  <2>5. f[N] = g[N]
      BY <2>4, <1>4
  <2>6. g[N + 1] = g[N] \o more[N + 1]
    <3>1. N + 1 \in 2 .. N + 1 /\ (N + 1) - 1 = N
        BY <1>1, <1>4
    <3> QED
        BY <1>2, <3>1
  <2>7. f[N] \in Seq(S)
      BY <1>1, <1>4, <2>1
  <2> QED
      BY <1>1, <1>2, <2>1, <2>5, <2>6, <2>7 DEF more
<1> QED
    BY <1>3, <1>4

(* Where an object may begin and end. *)
OpensAt(text, i) == text[i] = "{"
ClosesAt(text, i) == text[i] = "}"

(* What a character does to the depth. *)
LEMMA DepthSteps ==
    ASSUME NEW C, NEW text \in Seq(C), NEW i \in 0 .. Len(text) - 1
    PROVE  /\ OpensAt(text, i + 1) => ~ClosesAt(text, i + 1)
           /\ OpensAt(text, i + 1) => Depth(text, i + 1) = Depth(text, i) + 1
           /\ ClosesAt(text, i + 1) => Depth(text, i + 1) = Depth(text, i) - 1
           /\ ~OpensAt(text, i + 1) /\ ~ClosesAt(text, i + 1) =>
                  Depth(text, i + 1) = Depth(text, i)
<1>1. Depth(text, i + 1) = Count(Depth(text, i), text[i + 1])
    BY DepthNext
<1>2. "{" # "}"
    BY Zenon
<1>3. ASSUME NEW c
      PROVE  /\ c = "{" => Count(Depth(text, i), c) = Depth(text, i) + 1
             /\ c = "}" => Count(Depth(text, i), c) = Depth(text, i) - 1
             /\ c # "{" /\ c # "}" => Count(Depth(text, i), c) = Depth(text, i)
    BY <1>2, Zenon DEF Count
<1> QED
    BY <1>1, <1>2, <1>3, Zenon DEF OpensAt, ClosesAt

(* The groups, as pairs of places. *)
LEMMA GroupsAre ==
    ASSUME NEW C, NEW text \in Seq(C)
    PROVE  /\ Groups(text) \subseteq (1 .. Len(text)) \X (1 .. Len(text))
           /\ \A g \in (1 .. Len(text)) \X (1 .. Len(text)) :
                  g \in Groups(text) <=>
                      /\ g[1] < g[2] /\ OpensAt(text, g[1])
                      /\ Depth(text, g[1] - 1) = 0 /\ Depth(text, g[2]) = 0
                      /\ \A k \in g[1] .. g[2] - 1 : Depth(text, k) > 0
<1>1. DOMAIN text = 1 .. Len(text)
    OBVIOUS
<1> QED
    BY <1>1, Zenon DEF Groups, OpensAt

(* The groups that end at a place or before it. *)
Ended(text, i) == {g \in Groups(text) : g[2] <= i}

(* No group ends in the middle of an object or between two of them. *)
LEMMA NoGroupEnds ==
    ASSUME NEW C, NEW text \in Seq(C), NEW i \in 0 .. Len(text) - 1,
           ~(Depth(text, i) > 0 /\ Depth(text, i + 1) = 0)
    PROVE  Ended(text, i + 1) = Ended(text, i)
<1>1. ASSUME NEW g \in Groups(text), g[2] = i + 1
      PROVE  FALSE
  <2>1. /\ g \in (1 .. Len(text)) \X (1 .. Len(text))
        /\ g[1] < g[2] /\ Depth(text, g[2]) = 0
        /\ \A k \in g[1] .. g[2] - 1 : Depth(text, k) > 0
      BY GroupsAre
  <2>2. i \in g[1] .. g[2] - 1
      BY <1>1, <2>1
  <2> QED
      BY <1>1, <2>1, <2>2
<1>2. \A g \in Groups(text) : g[2] \in Nat
    BY GroupsAre
<1>3. \A g \in Groups(text) : g[2] <= i + 1 <=> g[2] <= i
    BY <1>1, <1>2
<1> QED
    BY <1>3 DEF Ended

(* The brace that closes an object ends the group that began with it, and  *)
(* no other; all that ended before began before.                           *)
LEMMA OneGroupEnds ==
    ASSUME NEW C, NEW text \in Seq(C), NEW i \in 0 .. Len(text) - 1, NEW b \in 1 .. i,
           Depth(text, i + 1) = 0, Depth(text, b - 1) = 0, OpensAt(text, b),
           \A k \in b .. i : Depth(text, k) > 0
    PROVE  /\ Ended(text, i + 1) = Ended(text, i) \cup {<<b, i + 1>>}
           /\ \A h \in Ended(text, i) : h[1] < b
<1>1. /\ <<b, i + 1>> \in (1 .. Len(text)) \X (1 .. Len(text))
      /\ b < i + 1 /\ (i + 1) - 1 = i
    OBVIOUS
<1>2. <<b, i + 1>> \in Groups(text)
  <2>1. <<b, i + 1>>[1] = b /\ <<b, i + 1>>[2] = i + 1
      OBVIOUS
  <2> QED
      BY <1>1, <2>1, GroupsAre
<1>3. ASSUME NEW g \in Groups(text)
      PROVE  /\ g = <<g[1], g[2]>> /\ g[1] \in 1 .. Len(text) /\ g[2] \in 1 .. Len(text)
             /\ g[1] < g[2] /\ Depth(text, g[1] - 1) = 0 /\ Depth(text, g[2]) = 0
             /\ \A k \in g[1] .. g[2] - 1 : Depth(text, k) > 0
    BY GroupsAre
<1>4. ASSUME NEW g \in Groups(text), g[2] = i + 1
      PROVE  g = <<b, i + 1>>
  <2>1. CASE g[1] < b
    <3>1. b - 1 \in g[1] .. g[2] - 1
        BY <2>1, <1>3, <1>4
    <3> QED
        BY <3>1, <1>3
  <2>2. CASE g[1] > b
    <3>1. g[1] - 1 \in b .. i
        BY <2>2, <1>3, <1>4
    <3>2. Depth(text, g[1] - 1) > 0
        BY <3>1
    <3> QED
        BY <3>2, <1>3
  <2>3. g[1] = b \/ g[1] < b \/ g[1] > b
      BY <1>3
  <2> QED
      BY <2>1, <2>2, <2>3, <1>3, <1>4
<1>5. ASSUME NEW h \in Groups(text), h[2] <= i
      PROVE  h[1] < b
  <2>1. ~(h[2] \in b .. i)
    <3>1. Depth(text, h[2]) = 0
        BY <1>3
    <3> QED
        BY <3>1
  <2> QED
      BY <1>3, <1>5, <2>1
<1>6. \A g \in Groups(text) : g[2] <= i + 1 <=> g[2] <= i \/ g = <<b, i + 1>>
  <2>1. \A g \in Groups(text) : g[2] <= i + 1 <=> g[2] <= i \/ g[2] = i + 1
      BY <1>3
  <2>2. <<b, i + 1>>[2] = i + 1
      OBVIOUS
  <2> QED
      BY <1>4, <2>1, <2>2
<1> QED
    BY <1>2, <1>5, <1>6 DEF Ended

(* A sequence has the texts of these groups, in the order in which they    *)
(* begin. *)
AreObjects(seq, groups, text) ==
    /\ IsFiniteSet(groups) /\ Len(seq) = Cardinality(groups)
    /\ \A g \in groups : /\ Place(g, groups) \in 1 .. Len(seq)
                         /\ seq[Place(g, groups)] = SubSeq(text, g[1], g[2])
    /\ \A i \in 1 .. Len(seq) : \E g \in groups : Place(g, groups) = i

(* One more, behind the others. *)
LEMMA ObjectAdded ==
    ASSUME NEW C, NEW text, NEW seq \in Seq(C), NEW groups \in SUBSET (Nat \X Nat),
           AreObjects(seq, groups, text), NEW b \in Nat, NEW e \in Nat,
           \A h \in groups : h[1] < b, SubSeq(text, b, e) \in C
    PROVE  AreObjects(Append(seq, SubSeq(text, b, e)), groups \cup {<<b, e>>}, text)
<1> DEFINE new  == <<b, e>>
           more == groups \cup {new}
           N    == Len(seq)
           next == Append(seq, SubSeq(text, b, e))
<1>1. new[1] = b /\ new[2] = e /\ \A h \in groups : h[1] \in Nat /\ h[1] < b
    OBVIOUS
<1>2. new \notin groups
    BY <1>1
<1>3. /\ IsFiniteSet(groups) /\ N = Cardinality(groups) /\ N \in Nat
      /\ \A g \in groups : Place(g, groups) \in 1 .. N
                           /\ seq[Place(g, groups)] = SubSeq(text, g[1], g[2])
      /\ \A i \in 1 .. N : \E g \in groups : Place(g, groups) = i
    BY DEF AreObjects
<1>4. IsFiniteSet(more) /\ Cardinality(more) = N + 1
    BY <1>2, <1>3, FS_AddElement
<1>5. /\ Len(next) = N + 1 /\ next[N + 1] = SubSeq(text, b, e)
      /\ \A i \in 1 .. N : next[i] = seq[i]
    OBVIOUS
<1> HIDE DEF new
<1>6. ASSUME NEW g \in groups
      PROVE  Place(g, more) = Place(g, groups)
  <2>1. ~(new[1] <= g[1])
      BY <1>1
  <2>2. {h \in more : h[1] <= g[1]} = {h \in groups : h[1] <= g[1]}
      BY <2>1
  <2> QED
      BY <2>2 DEF Place
<1>7. Place(new, more) = N + 1
  <2>1. \A h \in more : h[1] <= new[1]
      BY <1>1
  <2>2. {h \in more : h[1] <= new[1]} = more
      BY <2>1
  <2> QED
      BY <2>2, <1>4 DEF Place
<1> HIDE DEF N, next
<1>8. \A g \in more : /\ Place(g, more) \in 1 .. N + 1
                      /\ next[Place(g, more)] = SubSeq(text, g[1], g[2])
  <2>1. ASSUME NEW g \in groups
        PROVE  /\ Place(g, more) \in 1 .. N + 1
               /\ next[Place(g, more)] = SubSeq(text, g[1], g[2])
    <3> DEFINE p == Place(g, more)
    <3>0. p = Place(g, groups) /\ Place(g, groups) \in 1 .. N
        BY <1>3, <1>6, Zenon
    <3>4. \A i \in 1 .. N : i \in 1 .. N + 1
        BY <1>3
    <3>1. p = Place(g, groups) /\ p \in 1 .. N /\ p \in 1 .. N + 1
        BY <3>0, <3>4, Zenon
    <3>2. seq[p] = SubSeq(text, g[1], g[2])
        BY <3>1, <1>3
    <3> HIDE DEF p
    <3>3. next[p] = seq[p]
        BY <3>1, <1>5
    <3> QED
        BY <3>1, <3>2, <3>3 DEF p
  <2>2. Place(new, more) \in 1 .. N + 1 /\ next[Place(new, more)] = SubSeq(text, new[1], new[2])
    <3>1. N + 1 \in 1 .. N + 1
        BY <1>3
    <3> HIDE DEF more
    <3> QED
        BY <3>1, <1>1, <1>5, <1>7, Zenon
  <2> QED
      BY <2>1, <2>2
<1>9. \A i \in 1 .. N + 1 : \E g \in more : Place(g, more) = i
  <2>1. ASSUME NEW i \in 1 .. N + 1
        PROVE  \E g \in more : Place(g, more) = i
    <3>1. CASE i = N + 1
        BY <3>1, <1>7
    <3>2. CASE i # N + 1
      <4>1. i \in 1 .. N
          BY <3>2, <1>3
      <4>2. PICK g \in groups : Place(g, groups) = i
          BY <4>1, <1>3
      <4> QED
          BY <4>2, <1>6
    <3> QED
        BY <3>1, <3>2
  <2> QED
      BY <2>1
<1>10. AreObjects(next, more, text)
  <2> HIDE DEF more
  <2> QED
      BY <1>4, <1>5, <1>8, <1>9 DEF AreObjects
<1> QED
    BY <1>10 DEF next, more, new

(* All of them are the objects of the text. *)
LEMMA AllObjects ==
    ASSUME NEW C, NEW text, NEW seq \in Seq(C), AreObjects(seq, Groups(text), text)
    PROVE  seq = Objects(text)
<1> DEFINE groups == Groups(text)
           nth(i) == CHOOSE g \in groups : Place(g, groups) = i
<1>1. Objects(text) = [i \in 1 .. Cardinality(groups) |-> SubSeq(text, nth(i)[1], nth(i)[2])]
    BY DEF Objects
<1>2. /\ Len(seq) = Cardinality(groups)
      /\ \A g \in groups : seq[Place(g, groups)] = SubSeq(text, g[1], g[2])
      /\ \A i \in 1 .. Len(seq) : \E g \in groups : Place(g, groups) = i
    BY DEF AreObjects
<1> HIDE DEF groups
<1>3. \A i \in 1 .. Len(seq) : nth(i) \in groups /\ Place(nth(i), groups) = i
    BY <1>2
<1> HIDE DEF nth
<1>4. \A i \in 1 .. Len(seq) : seq[i] = SubSeq(text, nth(i)[1], nth(i)[2])
    BY <1>2, <1>3
<1>5. seq = [i \in 1 .. Len(seq) |-> seq[i]]
    OBVIOUS
<1> QED
    BY <1>1, <1>2, <1>4, <1>5

(* What is kept of an object that is not closed yet. *)
OpenObject(text, i, tmp) ==
    IF Depth(text, i) = 0 THEN tmp = <<>>
    ELSE \E b \in 1 .. i :
             /\ OpensAt(text, b) /\ Depth(text, b - 1) = 0
             /\ \A k \in b .. i : Depth(text, k) > 0
             /\ tmp = SubSeq(text, b, i)

(* The objects put into parts or into the part at hand. *)
Found(s) == FlattenSeq(s.parts) \o s.objects

(* After i characters: the objects that have ended were found, the one     *)
(* that is open is kept, all parts are full, and when the part at hand is  *)
(* full too, an object has just ended. *)
ScanFits(text, number, i, s) ==
    /\ s.open = Depth(text, i)
    /\ OpenObject(text, i, s.tmp)
    /\ \A k \in 1 .. Len(s.parts) : Len(s.parts[k]) = number
    /\ Len(s.objects) <= number
    /\ Len(s.objects) = number => i # 0 /\ ClosesAt(text, i) /\ Depth(text, i) = 0
    /\ AreObjects(Found(s), Ended(text, i), text)

(* What a character that is not lost does. *)
LEMMA ReadCharCases ==
    ASSUME NEW C, NEW text \in Seq(C), NEW i \in 0 .. Len(text) - 1,
           NEW s \in ScanStates(C), s.open = Depth(text, i)
    PROVE  LET c == text[i + 1]
               r == ReadChar(s, c)
           IN  /\ r.parts = s.parts /\ r.open = Depth(text, i + 1)
               /\ ClosesAt(text, i + 1) /\ Depth(text, i + 1) = 0 =>
                      r.tmp = <<>> /\ r.objects = Append(s.objects, Append(s.tmp, c))
               /\ ~(ClosesAt(text, i + 1) /\ Depth(text, i + 1) = 0) =>
                      /\ r.objects = s.objects
                      /\ r.tmp = IF Depth(text, i + 1) # 0 THEN Append(s.tmp, c) ELSE s.tmp
<1> DEFINE c == text[i + 1]
           D == Depth(text, i + 1)
           full == Append(s.tmp, c)
           closes == c = "}"
<1>1. Count(s.open, c) = D
    BY DepthNext
<1>2. ReadChar(s, c) =
          LET tmp == IF D # 0 \/ closes THEN full ELSE s.tmp IN
          IF closes /\ D = 0
          THEN [s EXCEPT !.open = D, !.tmp = <<>>, !.objects = Append(@, tmp)]
          ELSE [s EXCEPT !.open = D, !.tmp = tmp]
    BY <1>1, Zenon DEF ReadChar, Kept
<1>3. ClosesAt(text, i + 1) <=> closes
    BY DEF ClosesAt
<1>4. s = [parts |-> s.parts, objects |-> s.objects, open |-> s.open, tmp |-> s.tmp]
    BY DEF ScanStates
<1> HIDE DEF c, D, full, closes
<1>5. CASE closes /\ D = 0
  <2>1. ReadChar(s, c) = [s EXCEPT !.open = D, !.tmp = <<>>, !.objects = Append(@, full)]
      BY <1>2, <1>5
  <2>2. /\ ReadChar(s, c).parts = s.parts /\ ReadChar(s, c).open = D
        /\ ReadChar(s, c).tmp = <<>> /\ ReadChar(s, c).objects = Append(s.objects, full)
      BY <2>1, <1>4
  <2> QED
      BY <2>2, <1>3, <1>5, Zenon DEF c, D, full
<1>6. CASE ~(closes /\ D = 0)
  <2> DEFINE tmp == IF D # 0 THEN full ELSE s.tmp
  <2>1. ReadChar(s, c) = [s EXCEPT !.open = D, !.tmp = tmp]
      BY <1>2, <1>6
  <2> HIDE DEF tmp
  <2>2. /\ ReadChar(s, c).parts = s.parts /\ ReadChar(s, c).open = D
        /\ ReadChar(s, c).tmp = tmp /\ ReadChar(s, c).objects = s.objects
      BY <2>1, <1>4
  <2> QED
      BY <2>2, <1>3, <1>6, Zenon DEF c, D, full, tmp
<1> QED
    BY <1>5, <1>6

(* Before the first character. *)
LEMMA FitsFirst ==
    ASSUME NEW C, NEW text \in Seq(C), NEW number \in Nat \ {0}
    PROVE  ScanFits(text, number, 0, [parts |-> <<>>, objects |-> <<>>, open |-> 0, tmp |-> <<>>])
<1> DEFINE s == [parts |-> <<>>, objects |-> <<>>, open |-> 0, tmp |-> <<>>]
<1>1. Depth(text, 0) = 0
    BY DepthNext
<1>2. s.parts = <<>> /\ s.objects = <<>> /\ s.open = 0 /\ s.tmp = <<>>
    OBVIOUS
<1>3. FlattenSeq(<<>>) = <<>>
    BY DEF FlattenSeq
<1>4. Found(s) = <<>>
    BY <1>2, <1>3 DEF Found
<1>5. Ended(text, 0) = {}
  <2>1. \A g \in Groups(text) : ~(g[2] <= 0)
      BY GroupsAre
  <2> QED
      BY <2>1 DEF Ended
<1>6. AreObjects(<<>>, {}, text)
    BY FS_EmptySet DEF AreObjects
<1>7. OpenObject(text, 0, <<>>)
    BY <1>1 DEF OpenObject
<1>8. Len(<<>>) = 0
    OBVIOUS
<1> HIDE DEF s
<1>9. AreObjects(Found(s), Ended(text, 0), text)
    BY <1>4, <1>5, <1>6
<1>10. ScanFits(text, number, 0, s)
    BY <1>1, <1>2, <1>7, <1>8, <1>9 DEF ScanFits
<1> QED
    BY <1>10 DEF s

(* The next character of a separated text. *)
LEMMA FitsNext ==
    ASSUME NEW C, NEW text \in Seq(C), Balanced(text), Separated(text),
           NEW number \in Nat \ {0}, NEW i \in 0 .. Len(text) - 1,
           NEW s \in ScanStates(C), ScanFits(text, number, i, s)
    PROVE  ScanFits(text, number, i + 1, NextChar(s, text[i + 1], number))
<1> DEFINE c == text[i + 1]
           r == ReadChar(s, c)
<1>1. /\ s.parts \in Seq(Seq(Seq(C))) /\ s.objects \in Seq(Seq(C)) /\ s.tmp \in Seq(C)
      /\ s = [parts |-> s.parts, objects |-> s.objects, open |-> s.open, tmp |-> s.tmp]
    BY DEF ScanStates
<1>2. /\ s.open = Depth(text, i) /\ OpenObject(text, i, s.tmp)
      /\ \A k \in 1 .. Len(s.parts) : Len(s.parts[k]) = number
      /\ Len(s.objects) <= number
      /\ Len(s.objects) = number => i # 0 /\ ClosesAt(text, i) /\ Depth(text, i) = 0
      /\ AreObjects(Found(s), Ended(text, i), text)
    BY DEF ScanFits
<1>3. /\ i \in 0 .. Len(text) /\ i + 1 \in 0 .. Len(text) /\ i + 1 \in DOMAIN text
      /\ i + 1 # 0 /\ c \in C
    OBVIOUS
<1>4. /\ Depth(text, i) \in Int /\ Depth(text, i + 1) \in Int
      /\ Depth(text, i + 1) >= 0 /\ Depth(text, i) >= 0
  <2>1. Depth(text, i + 1) >= 0
      BY <1>3 DEF Balanced
  <2>2. Depth(text, 0) = 0 /\ \A k \in 0 .. Len(text) : Depth(text, k) \in Int
      BY DepthNext
  <2>3. i = 0 \/ i \in DOMAIN text
      OBVIOUS
  <2>4. Depth(text, i) >= 0
      BY <2>2, <2>3 DEF Balanced
  <2> QED
      BY <1>3, <2>1, <2>2, <2>4
<1>5. /\ OpensAt(text, i + 1) => ~ClosesAt(text, i + 1)
      /\ OpensAt(text, i + 1) => Depth(text, i + 1) = Depth(text, i) + 1
      /\ ClosesAt(text, i + 1) => Depth(text, i + 1) = Depth(text, i) - 1
      /\ ~OpensAt(text, i + 1) /\ ~ClosesAt(text, i + 1) => Depth(text, i + 1) = Depth(text, i)
    BY DepthSteps
<1>6. CASE Len(s.objects) = number
  <2> DEFINE t == [s EXCEPT !.parts = Append(s.parts, s.objects), !.objects = <<>>]
  <2>1. NextChar(s, c, number) = t
      BY <1>6, <1>1 DEF NextChar
  <2>2. i # 0 /\ ClosesAt(text, i) /\ Depth(text, i) = 0
      BY <1>2, <1>6
  <2>3. ~OpensAt(text, i + 1)
    <3>1. i \in 1 .. Len(text) - 1
        BY <2>2
    <3> QED
        BY <3>1, <2>2, Zenon DEF Separated, OpensAt, ClosesAt
  <2>4. ~ClosesAt(text, i + 1) /\ Depth(text, i + 1) = 0
      BY <1>4, <1>5, <2>2, <2>3
  <2>5. Ended(text, i + 1) = Ended(text, i)
      BY <2>2, NoGroupEnds
  <2>6. /\ t.parts = Append(s.parts, s.objects) /\ t.objects = <<>>
        /\ t.open = s.open /\ t.tmp = s.tmp
      BY <1>1
  <2>7. Found(t) = Found(s)
    <3>1. FlattenSeq(Append(s.parts, s.objects)) = FlattenSeq(s.parts) \o s.objects
        BY <1>1, FlattenAppend
    <3>2. FlattenSeq(s.parts) \in Seq(Seq(C))
        BY <1>1, FlattenAppend
    <3>3. FlattenSeq(s.parts) \o s.objects \in Seq(Seq(C))
        BY <1>1, <3>2
    <3>4. (FlattenSeq(s.parts) \o s.objects) \o <<>> = FlattenSeq(s.parts) \o s.objects
        BY <3>3
    <3> QED
        BY <2>6, <3>1, <3>4 DEF Found
  <2>8. s.tmp = <<>>
      BY <1>2, <2>2 DEF OpenObject
  <2>9. OpenObject(text, i + 1, t.tmp)
      BY <2>4, <2>6, <2>8 DEF OpenObject
  <2>10. \A k \in 1 .. Len(t.parts) : Len(t.parts[k]) = number
    <3>1. /\ Len(t.parts) = Len(s.parts) + 1 /\ Len(s.parts) \in Nat
          /\ t.parts[Len(s.parts) + 1] = s.objects
          /\ \A k \in 1 .. Len(s.parts) : t.parts[k] = s.parts[k]
        BY <1>1, <2>6
    <3>2. \A k \in 1 .. Len(s.parts) + 1 : k = Len(s.parts) + 1 \/ k \in 1 .. Len(s.parts)
        BY <3>1
    <3> QED
        BY <1>2, <1>6, <3>1, <3>2
  <2> HIDE DEF t
  <2>11. Len(t.objects) = 0
      BY <2>6
  <2>12. ScanFits(text, number, i + 1, t)
      BY <1>2, <2>2, <2>4, <2>5, <2>6, <2>7, <2>9, <2>10, <2>11 DEF ScanFits
  <2> QED
      BY <2>1, <2>12
<1>7. CASE Len(s.objects) # number
  <2>1. NextChar(s, c, number) = r /\ Len(s.objects) < number
    <3>1. Len(s.objects) < number
        BY <1>1, <1>2, <1>7
    <3> QED
        BY <3>1 DEF NextChar
  <2>2. /\ r.parts = s.parts /\ r.open = Depth(text, i + 1)
        /\ ClosesAt(text, i + 1) /\ Depth(text, i + 1) = 0 =>
               r.tmp = <<>> /\ r.objects = Append(s.objects, Append(s.tmp, c))
        /\ ~(ClosesAt(text, i + 1) /\ Depth(text, i + 1) = 0) =>
               /\ r.objects = s.objects
               /\ r.tmp = IF Depth(text, i + 1) # 0 THEN Append(s.tmp, c) ELSE s.tmp
      BY <1>2, ReadCharCases
  <2>p. \A k \in 1 .. Len(r.parts) : Len(r.parts[k]) = number
      BY <1>2, <2>2
  <2> HIDE DEF c, r
  <2>3. CASE ClosesAt(text, i + 1) /\ Depth(text, i + 1) = 0
    <3>1. Depth(text, i) > 0
        BY <1>4, <1>5, <2>3
    <3>2. PICK b \in 1 .. i : /\ OpensAt(text, b) /\ Depth(text, b - 1) = 0
                              /\ \A k \in b .. i : Depth(text, k) > 0
                              /\ s.tmp = SubSeq(text, b, i)
        BY <1>2, <3>1 DEF OpenObject
    <3>3. /\ Ended(text, i + 1) = Ended(text, i) \cup {<<b, i + 1>>}
          /\ \A h \in Ended(text, i) : h[1] < b
        BY <2>3, <3>2, OneGroupEnds
    <3>4. Append(s.tmp, c) = SubSeq(text, b, i + 1) /\ SubSeq(text, b, i + 1) \in Seq(C)
        BY <3>2 DEF c
    <3>5. FlattenSeq(s.parts) \in Seq(Seq(C))
        BY <1>1, FlattenAppend
    <3>6. Found(s) \in Seq(Seq(C)) /\ Found(r) = Append(Found(s), SubSeq(text, b, i + 1))
      <4>1. r.parts = s.parts /\ r.objects = Append(s.objects, SubSeq(text, b, i + 1))
          BY <2>2, <2>3, <3>4
      <4>2. FlattenSeq(s.parts) \o Append(s.objects, SubSeq(text, b, i + 1)) =
                Append(FlattenSeq(s.parts) \o s.objects, SubSeq(text, b, i + 1))
        <5>1. /\ FlattenSeq(s.parts) \in Seq(Seq(C)) /\ s.objects \in Seq(Seq(C))
              /\ SubSeq(text, b, i + 1) \in Seq(C)
            BY <1>1, <3>4, <3>5
        <5>2. ASSUME NEW p \in Seq(Seq(C)), NEW q \in Seq(Seq(C)), NEW x \in Seq(C)
              PROVE  p \o Append(q, x) = Append(p \o q, x)
          <6> DEFINE T == Seq(C)
          <6>1. p \in Seq(T) /\ q \in Seq(T) /\ x \in T
              OBVIOUS
          <6> HIDE DEF T
          <6> QED
              BY <6>1
        <5> QED
            BY <5>1, <5>2
      <4>3. Found(s) \in Seq(Seq(C))
          BY <1>1, <3>5 DEF Found
      <4> QED
          BY <2>2, <4>1, <4>2, <4>3 DEF Found
    <3>7. Ended(text, i) \in SUBSET (Nat \X Nat)
        BY GroupsAre DEF Ended
    <3>8. AreObjects(Found(r), Ended(text, i + 1), text)
      <4>1. b \in Nat /\ i + 1 \in Nat
          OBVIOUS
      <4>2. AreObjects(Append(Found(s), SubSeq(text, b, i + 1)),
                       Ended(text, i) \cup {<<b, i + 1>>}, text)
        <5>1. AreObjects(Found(s), Ended(text, i), text) /\ Found(s) \in Seq(Seq(C))
            BY <1>2, <3>6
        <5> QED
            BY <5>1, <3>3, <3>4, <3>7, <4>1, ObjectAdded
      <4> QED
          BY <3>3, <3>6, <4>2
    <3>9. Len(r.objects) <= number
      <4>1. r.objects = Append(s.objects, Append(s.tmp, c))
          BY <2>2, <2>3
      <4>2. Len(r.objects) = Len(s.objects) + 1 /\ Len(s.objects) \in Nat
          BY <1>1, <4>1
      <4> QED
          BY <2>1, <4>2
    <3>10. OpenObject(text, i + 1, r.tmp)
        BY <2>2, <2>3 DEF OpenObject
    <3> QED
        BY <1>3, <2>1, <2>2, <2>3, <2>p, <3>8, <3>9, <3>10 DEF ScanFits, c
  <2>4. CASE ~(ClosesAt(text, i + 1) /\ Depth(text, i + 1) = 0)
    <3>1. /\ r.objects = s.objects
          /\ r.tmp = IF Depth(text, i + 1) # 0 THEN Append(s.tmp, c) ELSE s.tmp
        BY <2>2, <2>4
    <3>2. Ended(text, i + 1) = Ended(text, i)
      <4>1. ~(Depth(text, i) > 0 /\ Depth(text, i + 1) = 0)
          BY <1>4, <1>5, <2>4
      <4> QED
          BY <4>1, NoGroupEnds
    <3>3. Found(r) = Found(s)
        BY <2>2, <3>1 DEF Found
    <3>4. OpenObject(text, i + 1, r.tmp)
      <4>1. CASE Depth(text, i + 1) = 0
        <5>1. Depth(text, i) = 0
            BY <1>4, <1>5, <2>4, <4>1
        <5>2. s.tmp = <<>>
            BY <1>2, <5>1 DEF OpenObject
        <5> QED
            BY <3>1, <4>1, <5>2 DEF OpenObject
      <4>2. CASE Depth(text, i + 1) # 0 /\ Depth(text, i) = 0
        <5>1. OpensAt(text, i + 1) /\ Depth(text, i + 1) > 0
            BY <1>4, <1>5, <4>2
        <5>2. s.tmp = <<>> /\ r.tmp = Append(s.tmp, c)
            BY <1>2, <3>1, <4>2 DEF OpenObject
        <5>3. Append(<<>>, c) = SubSeq(text, i + 1, i + 1)
            BY <1>3 DEF c
        <5>4. /\ i + 1 \in 1 .. i + 1 /\ Depth(text, (i + 1) - 1) = 0
              /\ \A k \in i + 1 .. i + 1 : Depth(text, k) > 0
            BY <4>2, <5>1
        <5> QED
            BY <4>2, <5>1, <5>2, <5>3, <5>4 DEF OpenObject
      <4>3. CASE Depth(text, i + 1) # 0 /\ Depth(text, i) # 0
        <5>1. PICK b \in 1 .. i : /\ OpensAt(text, b) /\ Depth(text, b - 1) = 0
                                  /\ \A k \in b .. i : Depth(text, k) > 0
                                  /\ s.tmp = SubSeq(text, b, i)
            BY <1>2, <4>3 DEF OpenObject
        <5>2. r.tmp = Append(s.tmp, c)
            BY <3>1, <4>3
        <5>3. Append(s.tmp, c) = SubSeq(text, b, i + 1)
            BY <5>1 DEF c
        <5>4. Depth(text, i + 1) > 0
            BY <1>4, <4>3
        <5>5. b \in 1 .. i + 1 /\ \A k \in b .. i + 1 : Depth(text, k) > 0
          <6>1. \A k \in b .. i + 1 : k = i + 1 \/ k \in b .. i
              OBVIOUS
          <6>2. \A k \in b .. i + 1 : Depth(text, k) > 0
              BY <5>1, <5>4, <6>1
          <6>3. b \in 1 .. i + 1
              OBVIOUS
          <6> QED
              BY <6>2, <6>3
        <5> QED
            BY <4>3, <5>1, <5>2, <5>3, <5>5 DEF OpenObject
      <4> QED
          BY <4>1, <4>2, <4>3
    <3>5. Len(r.objects) <= number /\ Len(r.objects) # number
        BY <1>2, <1>7, <3>1
    <3> QED
        BY <1>2, <2>1, <2>2, <2>p, <3>2, <3>3, <3>4, <3>5 DEF ScanFits, c
  <2> QED
      BY <2>3, <2>4
<1> QED
    BY <1>6, <1>7

(* After all of them. *)
LEMMA FitsAll ==
    ASSUME NEW C, NEW text \in Seq(C), Balanced(text), Separated(text),
           NEW number \in Nat \ {0}
    PROVE  ScanFits(text, number, Len(text), Scan(text, number))
<1> DEFINE scan == Scans(text, number)
           Fit  == {k \in 0 .. Len(text) : ScanFits(text, number, k, scan[k])}
<1>1. /\ scan \in [0 .. Len(text) -> ScanStates(C)]
      /\ scan[0] = [parts |-> <<>>, objects |-> <<>>, open |-> 0, tmp |-> <<>>]
      /\ \A i \in 1 .. Len(text) : scan[i] = NextChar(scan[i - 1], text[i], number)
    BY ScansType
<1>2. Scan(text, number) = scan[Len(text)]
    BY DEF Scan
<1> HIDE DEF scan
<1>3. 0 \in Fit
    BY <1>1, FitsFirst
<1>4. ASSUME NEW i \in 0 .. Len(text), i \in Fit, i < Len(text)
      PROVE  i + 1 \in Fit
  <2>1. i \in 0 .. Len(text) - 1 /\ i + 1 \in 1 .. Len(text) /\ (i + 1) - 1 = i
        /\ i + 1 \in 0 .. Len(text)
      BY <1>4
  <2>2. scan[i] \in ScanStates(C) /\ scan[i + 1] = NextChar(scan[i], text[i + 1], number)
      BY <1>1, <2>1
  <2>3. ScanFits(text, number, i, scan[i])
      BY <1>4
  <2>4. ScanFits(text, number, i + 1, NextChar(scan[i], text[i + 1], number))
      BY <2>1, <2>2, <2>3, FitsNext
  <2> QED
      BY <2>1, <2>2, <2>4
<1>5. Len(text) \in Fit
  <2>1. Len(text) \in Nat
      OBVIOUS
  <2> HIDE DEF Fit
  <2> QED
      BY <1>3, <1>4, <2>1, AllNumbers
<1> QED
    BY <1>2, <1>5

(* Whatever its characters and the size of the parts: a file whose objects *)
(* are separated is cut into these objects, in full parts but for the last *)
(* one, and nothing is left open. *)
LEMMA FileIsCut ==
    ASSUME NEW C, NEW text \in Seq(C), NEW number \in Nat \ {0}
    PROVE  CutsAtObjects({text}, {number})
<1> DEFINE s == Scan(text, number)
           parts == Parts(text, number)
<1>1. SUFFICES ASSUME Balanced(text), Separated(text)
               PROVE  /\ FlattenSeq(parts) = Objects(text)
                      /\ \A i \in 1 .. Len(parts) - 1 : Len(parts[i]) = number
                      /\ NothingLeftOpen(text, number)
    BY DEF CutsAtObjects
<1>2. s \in ScanStates(C)
  <2>1. Len(text) \in 0 .. Len(text)
      OBVIOUS
  <2> QED
      BY <2>1, ScansType DEF Scan
<1>3. /\ s.parts \in Seq(Seq(Seq(C))) /\ s.objects \in Seq(Seq(C)) /\ s.tmp \in Seq(C)
    BY <1>2 DEF ScanStates
<1>4. parts = IF s.objects = <<>> THEN s.parts ELSE Append(s.parts, s.objects)
    BY DEF Parts
<1>5. NothingLeftOpen(text, number) <=> s.open = 0 /\ s.tmp = <<>>
    BY DEF NothingLeftOpen
<1>6. ScanFits(text, number, Len(text), s)
    BY <1>1, FitsAll
<1> HIDE DEF s, parts
<1>7. Depth(text, Len(text)) = 0
    BY <1>1 DEF Balanced
<1>8. NothingLeftOpen(text, number)
    BY <1>5, <1>6, <1>7 DEF ScanFits, OpenObject
<1>9. FlattenSeq(s.parts) \in Seq(Seq(C))
    BY <1>3, FlattenAppend
<1>10. FlattenSeq(parts) = Found(s)
  <2>1. CASE s.objects = <<>>
    <3>1. FlattenSeq(s.parts) \o <<>> = FlattenSeq(s.parts)
        BY <1>9
    <3> QED
        BY <2>1, <3>1, <1>4 DEF Found
  <2>2. CASE s.objects # <<>>
    <3>1. FlattenSeq(Append(s.parts, s.objects)) = FlattenSeq(s.parts) \o s.objects
        BY <1>3, FlattenAppend
    <3> QED
        BY <2>2, <3>1, <1>4 DEF Found
  <2> QED
      BY <2>1, <2>2
<1>11. Found(s) = Objects(text)
  <2>1. Ended(text, Len(text)) = Groups(text)
    <3>1. \A g \in Groups(text) : g[2] <= Len(text)
        BY GroupsAre
    <3> QED
        BY <3>1 DEF Ended
  <2>2. AreObjects(Found(s), Groups(text), text)
      BY <1>6, <2>1 DEF ScanFits
  <2>3. Found(s) \in Seq(Seq(C))
      BY <1>3, <1>9 DEF Found
  <2> QED
      BY <2>2, <2>3, AllObjects
<1>12. ASSUME NEW i \in 1 .. Len(parts) - 1
       PROVE  Len(parts[i]) = number
  <2>1. \A k \in 1 .. Len(s.parts) : Len(s.parts[k]) = number
      BY <1>6 DEF ScanFits
  <2>2. i \in 1 .. Len(s.parts) /\ parts[i] = s.parts[i]
      BY <1>3, <1>4
  <2> QED
      BY <2>1, <2>2
<1> QED
    BY <1>8, <1>10, <1>11, <1>12

-----------------------------------------------------------------------------
(* Lines without repetition: what taking the first element leaves. *)
LEMMA TakeFirst ==
    ASSUME NEW S, NEW s \in Seq(S), s # <<>>, IsInjective(s)
    PROVE  /\ Head(s) \in S /\ Tail(s) \in Seq(S)
           /\ IsInjective(Tail(s))
           /\ Head(s) \in ToSet(s)
           /\ ToSet(Tail(s)) = ToSet(s) \ {Head(s)}
<1>1. Len(s) \in Nat /\ Len(s) > 0 /\ DOMAIN s = 1 .. Len(s)
    OBVIOUS
<1>2. Head(s) = s[1] /\ 1 \in DOMAIN s
    BY <1>1
<1>3. /\ Tail(s) \in Seq(S)
      /\ DOMAIN Tail(s) = 1 .. Len(s) - 1
      /\ \A i \in 1 .. Len(s) - 1 : Tail(s)[i] = s[i + 1]
    BY <1>1
<1>4. IsInjective(Tail(s))
    BY <1>1, <1>3 DEF IsInjective
<1>5. ASSUME NEW x
      PROVE  x \in ToSet(Tail(s)) <=> x \in ToSet(s) \ {Head(s)}
  <2>1. CASE x \in ToSet(Tail(s))
    <3>1. PICK i \in 1 .. Len(s) - 1 : x = s[i + 1]
        BY <2>1, <1>3 DEF ToSet
    <3>2. i + 1 \in DOMAIN s /\ i + 1 # 1
        BY <1>1, <3>1
    <3>3. x # s[1]
        BY <3>1, <3>2, <1>2 DEF IsInjective
    <3>4. x \in ToSet(s)
        BY <3>1, <3>2 DEF ToSet
    <3> QED
        BY <2>1, <3>3, <3>4, <1>2
  <2>2. CASE x \in ToSet(s) \ {Head(s)}
    <3>1. PICK i \in DOMAIN s : x = s[i]
        BY <2>2 DEF ToSet
    <3>2. i # 1
        BY <3>1, <2>2, <1>2
    <3>3. i - 1 \in 1 .. Len(s) - 1 /\ (i - 1) + 1 = i
        BY <3>1, <3>2, <1>1
    <3>4. Tail(s)[i - 1] = x
        BY <3>1, <3>3, <1>3
    <3>5. x \in ToSet(Tail(s))
        BY <3>3, <3>4, <1>3 DEF ToSet
    <3> QED
        BY <2>2, <3>5
  <2> QED
      BY <2>1, <2>2
<1>6. Head(s) \in S /\ Head(s) \in ToSet(s)
    BY <1>1, <1>2 DEF ToSet
<1> QED
    BY <1>3, <1>4, <1>5, <1>6

(* ... and what adding an element that is not there yet gives. *)
LEMMA AddLast ==
    ASSUME NEW S, NEW s \in Seq(S), NEW x \in S, IsInjective(s), x \notin ToSet(s)
    PROVE  /\ Append(s, x) \in Seq(S)
           /\ IsInjective(Append(s, x))
           /\ ToSet(Append(s, x)) = ToSet(s) \cup {x}
<1>1. Len(s) \in Nat /\ DOMAIN s = 1 .. Len(s)
    OBVIOUS
<1>2. /\ Append(s, x) \in Seq(S)
      /\ DOMAIN Append(s, x) = 1 .. Len(s) + 1
      /\ \A i \in 1 .. Len(s) : Append(s, x)[i] = s[i]
      /\ Append(s, x)[Len(s) + 1] = x
    BY <1>1
<1>3. \A i \in 1 .. Len(s) : s[i] # x
    BY <1>1 DEF ToSet
<1>4. IsInjective(Append(s, x))
  <2> SUFFICES ASSUME NEW i \in 1 .. Len(s) + 1, NEW j \in 1 .. Len(s) + 1,
                      Append(s, x)[i] = Append(s, x)[j]
               PROVE  i = j
      BY <1>2 DEF IsInjective
  <2>1. CASE i \in 1 .. Len(s) /\ j \in 1 .. Len(s)
      BY <2>1, <1>1, <1>2 DEF IsInjective
  <2>2. CASE i = Len(s) + 1 \/ j = Len(s) + 1
      BY <2>2, <1>1, <1>2, <1>3
  <2> QED
      BY <2>1, <2>2, <1>1
<1>5. ASSUME NEW y
      PROVE  y \in ToSet(Append(s, x)) <=> y \in ToSet(s) \cup {x}
  <2>1. y \in ToSet(Append(s, x)) <=> \E i \in 1 .. Len(s) + 1 : y = Append(s, x)[i]
      BY <1>2 DEF ToSet
  <2>2. y \in ToSet(s) <=> \E i \in 1 .. Len(s) : y = s[i]
      BY <1>1 DEF ToSet
  <2>3. 1 .. Len(s) + 1 = (1 .. Len(s)) \cup {Len(s) + 1}
      BY <1>1
  <2> QED
      BY <2>1, <2>2, <2>3, <1>2
<1> QED
    BY <1>2, <1>4, <1>5

(* The line made of a finite set has each of its elements once. *)
LEMMA LineOfSet ==
    ASSUME NEW S, IsFiniteSet(S)
    PROVE  /\ SetToSeq(S) \in Seq(S)
           /\ IsInjective(SetToSeq(S))
           /\ ToSet(SetToSeq(S)) = S
<1> DEFINE n == Cardinality(S)
           f == SetToSeq(S)
<1>1. n \in Nat /\ ExistsBijection(1 .. n, S)
    BY FS_CardinalityType
<1>2. \E g \in [1 .. n -> S] : IsInjective(g)
    BY <1>1 DEF ExistsBijection, Bijection, Injection
<1>3. f \in [1 .. n -> S] /\ IsInjective(f)
    BY <1>2 DEF SetToSeq
<1>4. f \in Injection(1 .. n, S)
    BY <1>3 DEF Injection
<1>5. IsFiniteSet(1 .. n) /\ Cardinality(1 .. n) = n
    BY <1>1, FS_Interval
<1>6. f \in Surjection(1 .. n, S)
    BY <1>4, <1>5, FS_Injection
<1>7. DOMAIN f = 1 .. n
    BY <1>3
<1>8. ToSet(f) = S
    BY <1>3, <1>6, <1>7 DEF Surjection, ToSet
<1>9. f \in Seq(S)
    BY <1>1, <1>3
<1> QED
    BY <1>3, <1>8, <1>9

(* Nothing before a line is the line. *)
LEMMA NothingBefore ==
    ASSUME NEW S, NEW s \in Seq(S)
    PROVE  <<>> \o s = s
    OBVIOUS

(* A waiting slot is put on top of the others. *)
LEMMA PutOnTop ==
    ASSUME NEW S, NEW s \in Seq(S), NEW x \in S
    PROVE  /\ <<x>> \o s \in Seq(S)
           /\ DOMAIN (<<x>> \o s) = 1 .. Len(s) + 1
           /\ (<<x>> \o s)[1] = x
           /\ \A i \in 2 .. Len(s) + 1 : (<<x>> \o s)[i] = s[i - 1]
    OBVIOUS

(* What is posted to the main thread, what the job manager has of the jobs *)
(* that run, and the inserts in line for the database.                     *)
Posted == ToSet(events)
Pooled == ToSet(pool)
Queued == ToSet(db_line)

(* Signals of the parse and the mapping jobs, and all that can be posted.  *)
Signals == {"parsed", "mapped"} \X Nat
Events == {<<"read">>, <<"readDone">>} \cup Signals \cup ({"insertDone"} \X Nat \X Dbos)

(* Slots that wait. *)
FrameSet == [slot : {"addRead", "insertData"}, chunk : Nat]

-----------------------------------------------------------------------------
(* The variables have their types ... *)
TypeOK ==
    /\ test \in BOOLEAN
    /\ runs \in Seq(BOOLEAN)
    /\ content \in Seq(SUBSET Dbos)
    /\ reader \in {"read", "part", "emitted", "over"}
    /\ read \in Nat
    /\ objects \in Nat \cup {None}
    /\ events \in Seq(Events)
    /\ frames \in Seq(FrameSet)
    /\ read_job \in BOOLEAN
    /\ parse_job \in Nat \cup {None}
    /\ map_jobs \in Seq(Nat)
    /\ pool \in Seq(Signals)
    /\ db_line \in Seq(Nat \X Dbos)
    /\ mapped \in BOOLEAN
    /\ variable_sets \subseteq Dbos
    /\ insert_job \subseteq Dbos
    /\ insert_active \in Nat
    /\ all_done \in BOOLEAN
    /\ others \in Nat
    /\ settled \subseteq Nat
    /\ stored \subseteq Nat \X Dbos

(* ... and nothing is twice in a line, nor held by two slots. *)
Lines ==
    /\ IsInjective(events) /\ IsInjective(pool) /\ IsInjective(db_line)
    /\ IsInjective(map_jobs)
    /\ \A i, j \in DOMAIN frames : frames[i].chunk = frames[j].chunk => i = j

(* Where the reader is tells whether it has a chunk in its hand, what it   *)
(* has posted and whether its end was heard of.                            *)
ReaderStage ==
    /\ objects # None => reader = "emitted" /\ objects = read
    /\ <<"read">> \in Posted <=> objects # None
    /\ <<"readDone">> \in Posted => reader = "over"
    /\ read_job <=> (reader # "over" \/ <<"readDone">> \in Posted)
    /\ reader = "over" => read = Len(content)
    /\ read <= Len(content)
    /\ all_done => ~read_job

(* The end of the parse job and of each mapping job is on its way once,    *)
(* with the job manager or posted.                                         *)
SignalStage ==
    /\ Posted \cap Pooled = {}
    /\ \A c \in Nat : <<"parsed", c>> \in Posted \cup Pooled <=> parse_job = c
    /\ \A c \in Nat : <<"mapped", c>> \in Posted \cup Pooled <=> c \in ToSet(map_jobs)

(* The ends of the mapping jobs come in the order of these jobs: within a  *)
(* line, and what is posted comes before what the job manager has.         *)
Sorted(line, jobs) ==
    \A k, l \in DOMAIN line, i, j \in DOMAIN jobs :
        k < l /\ line[k] = <<"mapped", jobs[i]>> /\ line[l] = <<"mapped", jobs[j]>> => i < j

(* All of a first line are before all of a second one. *)
Precedes(first, second, jobs) ==
    \A k \in DOMAIN first, l \in DOMAIN second, i, j \in DOMAIN jobs :
        first[k] = <<"mapped", jobs[i]>> /\ second[l] = <<"mapped", jobs[j]>> => i < j

(* That is how the ends of the mapping jobs stand. *)
OrderStage ==
    /\ Sorted(events, map_jobs)
    /\ Sorted(pool, map_jobs)
    /\ Precedes(events, pool, map_jobs)

(* The places of the chunks: held by a slot that waits, in the hand of the *)
(* read job, with the parse job, with the mapping jobs ...                 *)
Held == {frames[i].chunk : i \in DOMAIN frames}
InHand == {objects} \ {None}
Parsing == {parse_job} \ {None}
InMapping == ToSet(map_jobs)

(* ... or dealt with: each chunk read so far is at one of these. *)
PlaceStage ==
    /\ Held \cup InHand \cup Parsing \cup InMapping \cup settled = 1 .. read
    /\ Held \cap (InHand \cup Parsing \cup InMapping \cup settled) = {}
    /\ InHand \cap (Parsing \cup InMapping \cup settled) = {}
    /\ Parsing \cap (InMapping \cup settled) = {}
    /\ InMapping \cap settled = {}

(* An insert is in line for the database or its end is posted. *)
Inserting(c, d) == <<c, d>> \in Queued \/ <<"insertDone", c, d>> \in Posted

(* An insert is on its way once, in line or posted, and an object has one. *)
(* insert_active_ counts the objects with an insert, in the numbers of     *)
(* size_t less the inserts of others; with these it is never 0 again.      *)
InsertStage ==
    /\ \A c \in Nat, d \in Dbos : ~(<<c, d>> \in Queued /\ <<"insertDone", c, d>> \in Posted)
    /\ \A c1, c2 \in Nat, d \in Dbos : Inserting(c1, d) /\ Inserting(c2, d) => c1 = c2
    /\ \A d \in Dbos : d \in insert_job <=> \E c \in Nat : Inserting(c, d)
    /\ \A c \in Nat, d \in Dbos : Inserting(c, d) => c \in 1 .. read
    /\ others = 0 => insert_active = Cardinality(insert_job)
    /\ others # 0 => insert_active = Modulus - others /\ insert_job = {}
    /\ others <= MaxOthers
    /\ aborted # "!insert_job_"

(* The rows the buffers have of objects that have a variable set. *)
Known == {x \in Chunks \X variable_sets : x[2] \in content[x[1]]}

(* The chunks of the slots that wait to insert. *)
Waiting == {frames[i].chunk : i \in {k \in DOMAIN frames : frames[k].slot = "insertData"}}

(* What is inserted is what the buffers of the chunk have of the objects   *)
(* that have a variable set.  Without a test, all of that is inserted, and *)
(* a chunk that waits or was dealt with has left its variable sets.        *)
KnownStage ==
    /\ stored \cup Queued \subseteq Known
    /\ TRUE \notin ToSet(runs) =>
          /\ ~test
          /\ \A c \in settled, d \in variable_sets :
                d \in content[c] => <<c, d>> \in stored \cup Queued
          /\ \A c \in settled \cup Waiting : content[c] # {} => variable_sets # {}

(* The inductive invariant. *)
Stages ==
    TypeOK /\ Lines /\ ReaderStage /\ SignalStage /\ OrderStage /\ PlaceStage /\ InsertStage
    /\ KnownStage
-----------------------------------------------------------------------------
(* The order of the ends of the mapping jobs.                              *)

(* Taking the first of a line leaves its order ... *)
LEMMA TailIsSorted ==
    ASSUME NEW S, NEW line \in Seq(S), line # <<>>, NEW jobs, Sorted(line, jobs)
    PROVE  Sorted(Tail(line), jobs)
<1>1. /\ DOMAIN line = 1 .. Len(line) /\ Len(line) \in Nat
      /\ DOMAIN Tail(line) = 1 .. Len(line) - 1
      /\ \A k \in 1 .. Len(line) - 1 : Tail(line)[k] = line[k + 1]
    OBVIOUS
<1>2. \A k, l \in 1 .. Len(line) - 1 :
         k + 1 \in DOMAIN line /\ l + 1 \in DOMAIN line /\ (k < l <=> k + 1 < l + 1)
    BY <1>1
<1> QED
    BY <1>1, <1>2 DEF Sorted

(* ... and the order of what is behind it ... *)
LEMMA TailPrecedes ==
    ASSUME NEW S, NEW line \in Seq(S), line # <<>>, NEW second, NEW jobs,
           Precedes(line, second, jobs)
    PROVE  Precedes(Tail(line), second, jobs)
<1>1. /\ DOMAIN line = 1 .. Len(line) /\ Len(line) \in Nat
      /\ DOMAIN Tail(line) = 1 .. Len(line) - 1
      /\ \A k \in 1 .. Len(line) - 1 : Tail(line)[k] = line[k + 1]
    OBVIOUS
<1>2. \A k \in 1 .. Len(line) - 1 : k + 1 \in DOMAIN line
    BY <1>1
<1> QED
    BY <1>1, <1>2 DEF Precedes

(* ... or in front of it. *)
LEMMA PrecedesTail ==
    ASSUME NEW S, NEW line \in Seq(S), line # <<>>, NEW first, NEW jobs,
           Precedes(first, line, jobs)
    PROVE  Precedes(first, Tail(line), jobs)
<1>1. /\ DOMAIN line = 1 .. Len(line) /\ Len(line) \in Nat
      /\ DOMAIN Tail(line) = 1 .. Len(line) - 1
      /\ \A k \in 1 .. Len(line) - 1 : Tail(line)[k] = line[k + 1]
    OBVIOUS
<1>2. \A k \in 1 .. Len(line) - 1 : k + 1 \in DOMAIN line
    BY <1>1
<1> QED
    BY <1>1, <1>2 DEF Precedes

(* What is added behind those it does not precede keeps a line in order ... *)
LEMMA AppendIsSorted ==
    ASSUME NEW S, NEW line \in Seq(S), NEW x, NEW jobs, Sorted(line, jobs),
           Precedes(line, <<x>>, jobs)
    PROVE  Sorted(Append(line, x), jobs)
<1> DEFINE long == Append(line, x)
<1>1. /\ Len(line) \in Nat /\ DOMAIN line = 1 .. Len(line)
      /\ DOMAIN long = 1 .. Len(line) + 1
      /\ \A k \in 1 .. Len(line) : long[k] = line[k]
      /\ long[Len(line) + 1] = x
    OBVIOUS
<1>2. 1 \in DOMAIN <<x>> /\ <<x>>[1] = x
    OBVIOUS
<1> HIDE DEF long
<1>3. SUFFICES ASSUME NEW k \in DOMAIN long, NEW l \in DOMAIN long,
                      NEW i \in DOMAIN jobs, NEW j \in DOMAIN jobs, k < l,
                      long[k] = <<"mapped", jobs[i]>>, long[l] = <<"mapped", jobs[j]>>
               PROVE  i < j
    BY DEF Sorted, long
<1>4. k \in 1 .. Len(line) /\ long[k] = line[k]
    BY <1>1, <1>3
<1>5. CASE l \in 1 .. Len(line)
    BY <1>1, <1>3, <1>4, <1>5 DEF Sorted
<1>6. CASE l = Len(line) + 1
    BY <1>1, <1>2, <1>3, <1>4, <1>6 DEF Precedes
<1> QED
    BY <1>1, <1>5, <1>6

(* ... and that line before another. *)
LEMMA AppendPrecedes ==
    ASSUME NEW S, NEW line \in Seq(S), NEW x, NEW second, NEW jobs,
           Precedes(line, second, jobs), Precedes(<<x>>, second, jobs)
    PROVE  Precedes(Append(line, x), second, jobs)
<1> DEFINE long == Append(line, x)
<1>1. /\ Len(line) \in Nat /\ DOMAIN line = 1 .. Len(line)
      /\ DOMAIN long = 1 .. Len(line) + 1
      /\ \A k \in 1 .. Len(line) : long[k] = line[k]
      /\ long[Len(line) + 1] = x
    OBVIOUS
<1>2. 1 \in DOMAIN <<x>> /\ <<x>>[1] = x
    OBVIOUS
<1> HIDE DEF long
<1>3. SUFFICES ASSUME NEW k \in DOMAIN long, NEW l \in DOMAIN second,
                      NEW i \in DOMAIN jobs, NEW j \in DOMAIN jobs,
                      long[k] = <<"mapped", jobs[i]>>, second[l] = <<"mapped", jobs[j]>>
               PROVE  i < j
    BY DEF Precedes, long
<1>4. CASE k \in 1 .. Len(line)
    BY <1>1, <1>3, <1>4 DEF Precedes
<1>5. CASE k = Len(line) + 1
    BY <1>1, <1>2, <1>3, <1>5 DEF Precedes
<1> QED
    BY <1>1, <1>4, <1>5

(* Nothing needs an order that is not the end of a mapping job. *)
LEMMA OthersPrecede ==
    ASSUME NEW first, NEW x, NEW jobs, \A c : x # <<"mapped", c>>
    PROVE  Precedes(<<x>>, first, jobs) /\ Precedes(first, <<x>>, jobs)
<1>1. DOMAIN <<x>> = {1} /\ <<x>>[1] = x
    OBVIOUS
<1> QED
    BY <1>1 DEF Precedes

(* A new mapping job is the last one. *)
LEMMA NewJobIsLast ==
    ASSUME NEW jobs \in Seq(Nat), NEW c \in Nat, NEW S, NEW line \in Seq(S),
           <<"mapped", c>> \notin ToSet(line), Sorted(line, jobs), c \notin ToSet(jobs),
           NEW T, NEW front \in Seq(T), <<"mapped", c>> \notin ToSet(front),
           Precedes(front, line, jobs)
    PROVE  /\ Sorted(line, Append(jobs, c))
           /\ Precedes(line, << <<"mapped", c>> >>, Append(jobs, c))
           /\ Precedes(front, line, Append(jobs, c))
<1> DEFINE more == Append(jobs, c)
           Job(i) == <<"mapped", more[i]>>
<1>1. /\ Len(jobs) \in Nat /\ DOMAIN jobs = 1 .. Len(jobs)
      /\ DOMAIN more = 1 .. Len(jobs) + 1
      /\ \A i \in 1 .. Len(jobs) : more[i] = jobs[i]
      /\ more[Len(jobs) + 1] = c
    OBVIOUS
<1>2. /\ \A k \in DOMAIN line : line[k] # <<"mapped", c>>
      /\ \A k \in DOMAIN front : front[k] # <<"mapped", c>>
      /\ \A i \in DOMAIN jobs : jobs[i] # c
    BY DEF ToSet
<1> HIDE DEF more
<1>3. ASSUME NEW i \in DOMAIN more
      PROVE  \/ i \in DOMAIN jobs /\ more[i] = jobs[i]
             \/ i = Len(jobs) + 1 /\ more[i] = c
  <2>1. i \in 1 .. Len(jobs) \/ i = Len(jobs) + 1
      BY <1>1
  <2> QED
      BY <2>1, <1>1
<1>4. ASSUME NEW k \in DOMAIN line, NEW i \in DOMAIN more, line[k] = <<"mapped", more[i]>>
      PROVE  i \in DOMAIN jobs /\ more[i] = jobs[i]
    BY <1>2, <1>3, <1>4
<1>5. ASSUME NEW k \in DOMAIN front, NEW i \in DOMAIN more, front[k] = <<"mapped", more[i]>>
      PROVE  i \in DOMAIN jobs /\ more[i] = jobs[i]
    BY <1>2, <1>3, <1>5
<1>6. Sorted(line, more)
    BY <1>4 DEF Sorted
<1>7. Precedes(front, line, more)
    BY <1>4, <1>5 DEF Precedes
<1>8. Precedes(line, << <<"mapped", c>> >>, more)
  <2> SUFFICES ASSUME NEW k \in DOMAIN line, NEW i \in DOMAIN more, NEW j \in DOMAIN more,
                      line[k] = <<"mapped", more[i]>>, <<"mapped", c>> = <<"mapped", more[j]>>
               PROVE  i < j
    <3>1. DOMAIN << <<"mapped", c>> >> = {1} /\ << <<"mapped", c>> >>[1] = <<"mapped", c>>
        OBVIOUS
    <3> QED
        BY <3>1 DEF Precedes
  <2>1. i \in DOMAIN jobs
      BY <1>4
  <2>2. more[j] = c
      OBVIOUS
  <2>3. j = Len(jobs) + 1
      BY <1>2, <1>3, <2>2
  <2> QED
      BY <1>1, <2>1, <2>3
<1> QED
    BY <1>6, <1>7, <1>8 DEF more

(* The order of the other jobs stays when the first one is let go of. *)
LEMMA FirstJobGoes ==
    ASSUME NEW jobs \in Seq(Nat), jobs # <<>>, NEW line, NEW front
    PROVE  /\ Sorted(line, jobs) => Sorted(line, Tail(jobs))
           /\ Precedes(front, line, jobs) => Precedes(front, line, Tail(jobs))
<1>1. /\ DOMAIN jobs = 1 .. Len(jobs) /\ Len(jobs) \in Nat
      /\ DOMAIN Tail(jobs) = 1 .. Len(jobs) - 1
      /\ \A k \in 1 .. Len(jobs) - 1 : Tail(jobs)[k] = jobs[k + 1]
    OBVIOUS
<1>2. \A k, l \in 1 .. Len(jobs) - 1 :
         k + 1 \in DOMAIN jobs /\ l + 1 \in DOMAIN jobs /\ (k < l <=> k + 1 < l + 1)
    BY <1>1
<1>3. ASSUME Sorted(line, jobs)
      PROVE  Sorted(line, Tail(jobs))
    BY <1>1, <1>2, <1>3 DEF Sorted
<1>4. ASSUME Precedes(front, line, jobs)
      PROVE  Precedes(front, line, Tail(jobs))
  <2> SUFFICES ASSUME NEW k \in DOMAIN front, NEW l \in DOMAIN line,
                      NEW i \in DOMAIN Tail(jobs), NEW j \in DOMAIN Tail(jobs),
                      front[k] = <<"mapped", Tail(jobs)[i]>>,
                      line[l] = <<"mapped", Tail(jobs)[j]>>
               PROVE  i < j
      BY DEF Precedes
  <2>1. /\ i + 1 \in DOMAIN jobs /\ Tail(jobs)[i] = jobs[i + 1]
        /\ j + 1 \in DOMAIN jobs /\ Tail(jobs)[j] = jobs[j + 1]
        /\ (i < j <=> i + 1 < j + 1)
      BY <1>1, <1>2
  <2>2. i + 1 < j + 1
      BY <1>4, <2>1 DEF Precedes
  <2> QED
      BY <2>1, <2>2
<1> QED
    BY <1>3, <1>4

(* What is added behind a line another one precedes. *)
LEMMA PrecedesAppend ==
    ASSUME NEW S, NEW line \in Seq(S), NEW x, NEW first, NEW jobs,
           Precedes(first, line, jobs), Precedes(first, <<x>>, jobs)
    PROVE  Precedes(first, Append(line, x), jobs)
<1> DEFINE long == Append(line, x)
<1>1. /\ Len(line) \in Nat /\ DOMAIN line = 1 .. Len(line)
      /\ DOMAIN long = 1 .. Len(line) + 1
      /\ \A k \in 1 .. Len(line) : long[k] = line[k]
      /\ long[Len(line) + 1] = x
    OBVIOUS
<1>2. 1 \in DOMAIN <<x>> /\ <<x>>[1] = x
    OBVIOUS
<1> HIDE DEF long
<1>3. SUFFICES ASSUME NEW k \in DOMAIN first, NEW l \in DOMAIN long,
                      NEW i \in DOMAIN jobs, NEW j \in DOMAIN jobs,
                      first[k] = <<"mapped", jobs[i]>>, long[l] = <<"mapped", jobs[j]>>
               PROVE  i < j
    BY DEF Precedes, long
<1>4. CASE l \in 1 .. Len(line)
    BY <1>1, <1>3, <1>4 DEF Precedes
<1>5. CASE l = Len(line) + 1
    BY <1>1, <1>2, <1>3, <1>5 DEF Precedes
<1> QED
    BY <1>1, <1>4, <1>5

-----------------------------------------------------------------------------
(* What is posted, and the parts of the invariant a step does not touch.   *)

(* Events are told apart by their name, their chunk and their object. *)
LEMMA EventsDiffer ==
    /\ <<"read">> # <<"readDone">>
    /\ \A s \in Signals : s # <<"read">> /\ s # <<"readDone">>
    /\ \A e, c : <<"parsed", c>> # <<e>> /\ <<"mapped", c>> # <<e>>
    /\ \A c1, c2 : <<"parsed", c1>> # <<"mapped", c2>>
    /\ \A c1, c2 : <<"parsed", c1>> = <<"parsed", c2>> => c1 = c2
    /\ \A c1, c2 : <<"mapped", c1>> = <<"mapped", c2>> => c1 = c2
    /\ \A e, c, d : <<"insertDone", c, d>> # <<e>>
    /\ \A s \in Signals : \A c, d : <<"insertDone", c, d>> # s
    /\ \A n, c1, c2, d : <<"insertDone", c1, d>> # <<n, c2>>
    /\ \A c1, d1, c2, d2 : <<"insertDone", c1, d1>> = <<"insertDone", c2, d2>>
                               => c1 = c2 /\ d1 = d2
<1>1. ASSUME NEW e1, NEW e2, <<e1>> = <<e2>> PROVE e1 = e2
    BY <1>1
<1>2. ASSUME NEW n1, NEW n2, NEW c1, NEW c2, <<n1, c1>> = <<n2, c2>>
      PROVE  n1 = n2 /\ c1 = c2
    BY <1>2
<1>3. ASSUME NEW n, NEW e, NEW c, <<n, c>> = <<e>> PROVE FALSE
    BY <1>3
<1>4. ASSUME NEW e, NEW c, NEW d, <<"insertDone", c, d>> = <<e>> PROVE FALSE
    BY <1>4
<1>5. ASSUME NEW n, NEW b, NEW c, NEW d, <<"insertDone", c, d>> = <<n, b>> PROVE FALSE
    BY <1>5
<1>6. ASSUME NEW c1, NEW d1, NEW c2, NEW d2,
             <<"insertDone", c1, d1>> = <<"insertDone", c2, d2>>
      PROVE  c1 = c2 /\ d1 = d2
    BY <1>6
<1>7. ASSUME NEW s \in Signals
      PROVE  \E n, c : s = <<n, c>>
  <2>1. PICK n \in {"parsed", "mapped"}, c \in Nat : s = <<n, c>>
      BY DEF Signals
  <2> QED
      BY <2>1
<1>8. ASSUME NEW s \in Signals
      PROVE  s # <<"read">> /\ s # <<"readDone">> /\ \A c, d : <<"insertDone", c, d>> # s
  <2>1. PICK n, c : s = <<n, c>>
      BY <1>7
  <2> QED
      BY <2>1, <1>3, <1>5
<1> QED
    BY <1>1, <1>2, <1>3, <1>4, <1>5, <1>6, <1>8

(* The signals of jobs are signals, and these and the others are events. *)
LEMMA KindsOfEvents ==
    /\ <<"read">> \in Events /\ <<"readDone">> \in Events
    /\ \A c \in Nat : <<"parsed", c>> \in Signals /\ <<"mapped", c>> \in Signals
    /\ Signals \subseteq Events
    /\ \A c \in Nat, d \in Dbos : <<"insertDone", c, d>> \in Events
<1>1. \A c \in Nat : <<"parsed", c>> \in Signals /\ <<"mapped", c>> \in Signals
    BY DEF Signals
<1>2. Signals \subseteq Events /\ <<"read">> \in Events /\ <<"readDone">> \in Events
    BY DEF Events
<1>3. \A c \in Nat, d \in Dbos : <<"insertDone", c, d>> \in {"insertDone"} \X Nat \X Dbos
    OBVIOUS
<1>4. \A c \in Nat, d \in Dbos : <<"insertDone", c, d>> \in Events
    BY <1>3 DEF Events
<1> QED
    BY <1>1, <1>2, <1>4

(* The main thread takes the first event: it is posted no more. *)
LEMMA EventTaken ==
    ASSUME Stages, NEW e, NextEvent(e)
    PROVE  /\ e \in Events /\ e \in Posted
           /\ events' \in Seq(Events) /\ IsInjective(events') /\ Posted' = Posted \ {e}
           /\ Sorted(events', map_jobs) /\ Precedes(events', pool, map_jobs)
<1>1. events \in Seq(Events) /\ IsInjective(events)
    BY DEF Stages, Lines, TypeOK
<1>2. events # <<>> /\ Head(events) = e /\ events' = Tail(events)
    BY DEF NextEvent
<1>3. Sorted(events, map_jobs) /\ Precedes(events, pool, map_jobs)
    BY DEF Stages, OrderStage
<1>4. Sorted(Tail(events), map_jobs) /\ Precedes(Tail(events), pool, map_jobs)
    BY <1>1, <1>2, <1>3, TailIsSorted, TailPrecedes
<1>5. /\ e \in Events /\ Tail(events) \in Seq(Events) /\ IsInjective(Tail(events))
      /\ e \in ToSet(events) /\ ToSet(Tail(events)) = ToSet(events) \ {e}
    BY <1>1, <1>2, TakeFirst
<1> QED
    BY <1>2, <1>4, <1>5 DEF Posted

(* An event that is not the end of a mapping job is posted. *)
LEMMA EventPosted ==
    ASSUME Stages, NEW e, e \in Events, e \notin Posted, \A c : e # <<"mapped", c>>,
           Post(e)
    PROVE  /\ events' \in Seq(Events) /\ IsInjective(events') /\ Posted' = Posted \cup {e}
           /\ Sorted(events', map_jobs) /\ Precedes(events', pool, map_jobs)
<1>1. events \in Seq(Events) /\ IsInjective(events) /\ events' = Append(events, e)
    BY DEF Stages, Lines, TypeOK, Post
<1>2. Sorted(events, map_jobs) /\ Precedes(events, pool, map_jobs)
    BY DEF Stages, OrderStage
<1>3. Precedes(<<e>>, pool, map_jobs) /\ Precedes(events, <<e>>, map_jobs)
    BY OthersPrecede
<1>4. Sorted(Append(events, e), map_jobs) /\ Precedes(Append(events, e), pool, map_jobs)
    BY <1>1, <1>2, <1>3, AppendIsSorted, AppendPrecedes
<1>5. /\ Append(events, e) \in Seq(Events) /\ IsInjective(Append(events, e))
      /\ ToSet(Append(events, e)) = ToSet(events) \cup {e}
    BY <1>1, AddLast DEF Posted
<1> QED
    BY <1>1, <1>4, <1>5 DEF Posted

(* The parts of the invariant, if a step leaves what they are about. *)
LEMMA ReaderKept ==
    ASSUME ReaderStage, UNCHANGED <<reader, read, content, objects, read_job>>,
           <<"read">> \in Posted' <=> <<"read">> \in Posted,
           <<"readDone">> \in Posted' <=> <<"readDone">> \in Posted,
           all_done' => all_done \/ ~read_job
    PROVE  ReaderStage'
    BY DEF ReaderStage

(* The signals of the jobs. *)
LEMMA SignalKept ==
    ASSUME TypeOK, SignalStage, UNCHANGED <<pool, parse_job, map_jobs>>,
           \A s \in Signals : s \in Posted' <=> s \in Posted
    PROVE  SignalStage'
<1>1. Pooled' = Pooled /\ ToSet(map_jobs') = ToSet(map_jobs)
    BY DEF Pooled
<1>2. Pooled \subseteq Signals
  <2>1. pool \in Seq(Signals)
      BY DEF TypeOK
  <2> QED
      BY <2>1 DEF Pooled, ToSet
<1>3. Posted' \cap Pooled' = {}
    BY <1>1, <1>2 DEF SignalStage
<1>4. \A c \in Nat : /\ <<"parsed", c>> \in Posted' \cup Pooled' <=> parse_job' = c
                     /\ <<"mapped", c>> \in Posted' \cup Pooled' <=> c \in ToSet(map_jobs')
    BY <1>1, KindsOfEvents DEF SignalStage
<1> QED
    BY <1>3, <1>4 DEF SignalStage

(* The places. *)
LEMMA PlaceKept ==
    ASSUME PlaceStage, UNCHANGED <<frames, objects, parse_job, map_jobs, settled, read>>
    PROVE  PlaceStage'
<1>1. /\ Held' = Held /\ InHand' = InHand /\ Parsing' = Parsing /\ InMapping' = InMapping
      /\ settled' = settled /\ read' = read
    BY DEF Held, InHand, Parsing, InMapping
<1> QED
    BY <1>1 DEF PlaceStage

(* The inserts. *)
LEMMA InsertKept ==
    ASSUME InsertStage, UNCHANGED <<db_line, insert_job, insert_active, others>>,
           1 .. read \subseteq 1 .. read', aborted' # "!insert_job_",
           \A c, d : <<"insertDone", c, d>> \in Posted' <=> <<"insertDone", c, d>> \in Posted
    PROVE  InsertStage'
<1>1. Queued' = Queued
    BY DEF Queued
<1>2. \A c, d : Inserting(c, d)' <=> Inserting(c, d)
    BY <1>1 DEF Inserting
<1> QED
    BY <1>1, <1>2 DEF InsertStage

(* What is known of the rows. *)
LEMMA KnownKept ==
    ASSUME KnownStage, UNCHANGED <<stored, db_line, content, runs, settled, variable_sets>>,
           Waiting' \subseteq Waiting, test' => test
    PROVE  KnownStage'
<1>1. Queued' = Queued /\ Known' = Known
    BY DEF Queued, Known, Chunks
<1> QED
    BY <1>1 DEF KnownStage

-----------------------------------------------------------------------------
(* The pool: each step keeps the invariant.                                *)

(* The read job. *)
LEMMA ReadKeeps ==
    ASSUME Stages, Read
    PROVE  Stages'
<1> USE DEF Stages
<1>0. /\ UNCHANGED <<all_done, test, runs, content, tested, others, pause, frames, read_job,
                     parse_job, map_jobs, pool, mapped, db_line, variable_sets, insert_job,
                     insert_active, settled, stored, aborted>>
      /\ read' \in {read, read + 1}
    BY DEF Read, ReadPart, ReadEmit, ReadGoOn, ReadEnd, doneVars, runVars, jobVars, insertVars,
           TypeOK
<1>1. read \in Nat /\ read' \in Nat /\ 1 .. read \subseteq 1 .. read'
    BY <1>0 DEF TypeOK
<1>2. KnownStage'
    BY <1>0, KnownKept DEF Waiting
<1>3. ASSUME UNCHANGED <<events, read>>, reader' \in {"read", "part"},
             reader \in {"read", "part"} \/ objects = None, reader # "over",
             UNCHANGED objects
      PROVE  Stages'
  <2>1. Posted' = Posted
      BY <1>3 DEF Posted
  <2>2. TypeOK' /\ Lines' /\ OrderStage'
      BY <1>0, <1>3 DEF TypeOK, Lines, OrderStage
  <2>3. ReaderStage'
      BY <1>0, <1>3, <2>1 DEF ReaderStage
  <2>4. SignalStage' /\ PlaceStage'
      BY <1>0, <1>3, <2>1, SignalKept, PlaceKept
  <2>5. InsertStage'
      BY <1>0, <1>1, <2>1, InsertKept DEF InsertStage
  <2> QED
      BY <1>2, <2>2, <2>3, <2>4, <2>5
<1>4. CASE ReadPart
    BY <1>3, <1>4 DEF ReadPart
<1>5. CASE ReadGoOn
    BY <1>3, <1>5 DEF ReadGoOn
<1>6. ASSUME NEW e \in {<<"read">>, <<"readDone">>}, e \notin Posted, Post(e)
      PROVE  /\ Lines' /\ SignalStage' /\ InsertStage' /\ OrderStage'
             /\ events' \in Seq(Events) /\ Posted' = Posted \cup {e}
  <2>1. e \in Events /\ \A c : e # <<"mapped", c>>
      BY KindsOfEvents, EventsDiffer
  <2>2. /\ events' \in Seq(Events) /\ IsInjective(events') /\ Posted' = Posted \cup {e}
        /\ Sorted(events', map_jobs) /\ Precedes(events', pool, map_jobs)
      BY <1>6, <2>1, EventPosted
  <2>3. Lines' /\ OrderStage'
      BY <1>0, <2>2 DEF Lines, OrderStage
  <2>4. /\ \A s \in Signals : s \in Posted' <=> s \in Posted
        /\ \A c, d : <<"insertDone", c, d>> \in Posted' <=> <<"insertDone", c, d>> \in Posted
      BY <2>2, EventsDiffer
  <2>5. SignalStage'
      BY <1>0, <2>4, SignalKept
  <2>6. InsertStage'
      BY <1>0, <1>1, <2>4, InsertKept DEF InsertStage
  <2> QED
      BY <2>2, <2>3, <2>5, <2>6
<1>7. CASE ReadEmit
  <2>1. /\ reader = "part" /\ read < Len(content) /\ reader' = "emitted" /\ read' = read + 1
        /\ objects' = read + 1 /\ Post(<<"read">>)
      BY <1>7 DEF ReadEmit
  <2>2. objects = None /\ <<"read">> \notin Posted /\ <<"readDone">> \notin Posted
      BY <2>1 DEF ReaderStage
  <2>3. /\ Lines' /\ SignalStage' /\ InsertStage' /\ OrderStage'
        /\ events' \in Seq(Events) /\ Posted' = Posted \cup {<<"read">>}
      BY <1>6, <2>1, <2>2
  <2>4. TypeOK'
      BY <1>0, <1>1, <2>1, <2>3 DEF TypeOK
  <2>5. content \in Seq(SUBSET Dbos) /\ Len(content) \in Nat
      BY DEF TypeOK
  <2>6. read' <= Len(content')
      BY <1>0, <1>1, <2>1, <2>5
  <2>7. ReaderStage'
      BY <1>0, <1>1, <2>1, <2>2, <2>3, <2>6, EventsDiffer, NoneAssumption DEF ReaderStage
  <2>8. PlaceStage'
    <3>1. /\ Held' = Held /\ Parsing' = Parsing /\ InMapping' = InMapping /\ settled' = settled
          /\ InHand = {} /\ InHand' = {read + 1}
        BY <1>0, <1>1, <2>1, <2>2, NoneAssumption DEF Held, InHand, Parsing, InMapping
    <3>2. 1 .. read' = (1 .. read) \cup {read + 1} /\ read + 1 \notin 1 .. read
        BY <1>1, <2>1
    <3> QED
        BY <3>1, <3>2 DEF PlaceStage
  <2> QED
      BY <1>2, <2>3, <2>4, <2>7, <2>8
<1>8. CASE ReadEnd
  <2>1. /\ read = Len(content) /\ reader # "over" /\ objects = None /\ reader' = "over"
        /\ UNCHANGED <<read, objects>> /\ Post(<<"readDone">>)
      BY <1>8 DEF ReadEnd, ReaderStage
  <2>2. <<"read">> \notin Posted /\ <<"readDone">> \notin Posted
      BY <2>1 DEF ReaderStage
  <2>3. /\ Lines' /\ SignalStage' /\ InsertStage' /\ OrderStage'
        /\ events' \in Seq(Events) /\ Posted' = Posted \cup {<<"readDone">>}
      BY <1>6, <2>1, <2>2
  <2>4. TypeOK'
      BY <1>0, <2>1, <2>3 DEF TypeOK
  <2>5. ReaderStage'
      BY <1>0, <2>1, <2>2, <2>3, EventsDiffer DEF ReaderStage
  <2>6. PlaceStage'
      BY <1>0, <2>1, PlaceKept
  <2> QED
      BY <1>2, <2>3, <2>4, <2>5, <2>6
<1> QED
    BY <1>4, <1>5, <1>7, <1>8 DEF Read

(* The end of a parse or a mapping job is posted. *)
LEMMA PoolEndKeeps ==
    ASSUME Stages, PoolEnd
    PROVE  Stages'
<1> USE DEF Stages
<1>0. UNCHANGED <<all_done, test, runs, content, tested, others, reader, read, objects, pause,
                  frames, read_job, parse_job, map_jobs, mapped, db_line, variable_sets,
                  insert_job, insert_active, settled, stored, aborted>>
    BY DEF PoolEnd, doneVars, runVars, readerVars, insertVars
<1>1. /\ pool \in Seq(Signals) /\ pool # <<>> /\ IsInjective(pool) /\ pool' = Tail(pool)
      /\ events' = Append(events, Head(pool)) /\ events \in Seq(Events) /\ IsInjective(events)
    BY DEF PoolEnd, Post, TypeOK, Lines
<1>2. PICK e : e = Head(pool)
    OBVIOUS
<1>3. /\ e \in Signals /\ pool' \in Seq(Signals) /\ IsInjective(pool') /\ e \in Pooled
      /\ Pooled' = Pooled \ {e}
    BY <1>1, <1>2, TakeFirst DEF Pooled
<1>4. e \in Events /\ e \notin Posted
    BY <1>3, KindsOfEvents DEF SignalStage
<1>5. /\ events' \in Seq(Events) /\ IsInjective(events') /\ Posted' = Posted \cup {e}
    BY <1>1, <1>2, <1>4, AddLast DEF Posted
<1>6. TypeOK' /\ Lines'
    BY <1>0, <1>3, <1>5 DEF TypeOK, Lines
<1>7. ReaderStage'
    BY <1>0, <1>3, <1>5, EventsDiffer DEF ReaderStage
<1>8. SignalStage'
  <2>1. Posted' \cup Pooled' = Posted \cup Pooled /\ Posted' \cap Pooled' = {}
      BY <1>3, <1>5 DEF SignalStage
  <2> QED
      BY <1>0, <2>1 DEF SignalStage
<1>9. OrderStage'
  <2>1. /\ Sorted(events, map_jobs) /\ Sorted(pool, map_jobs)
        /\ Precedes(events, pool, map_jobs)
      BY DEF OrderStage
  <2>2. 1 \in DOMAIN pool /\ pool[1] = e
      BY <1>1, <1>2
  <2>3. DOMAIN <<e>> = {1} /\ <<e>>[1] = e
      OBVIOUS
  <2>4. Precedes(events, <<e>>, map_jobs)
      BY <2>1, <2>2, <2>3 DEF Precedes
  <2>5. Sorted(events', map_jobs)
      BY <1>1, <1>2, <2>1, <2>4, AppendIsSorted
  <2>6. Sorted(pool', map_jobs) /\ Precedes(events, pool', map_jobs)
      BY <1>1, <2>1, TailIsSorted, PrecedesTail
  <2>7. Precedes(<<e>>, pool', map_jobs)
    <3>1. /\ DOMAIN pool = 1 .. Len(pool) /\ Len(pool) \in Nat
          /\ DOMAIN pool' = 1 .. Len(pool) - 1
          /\ \A k \in 1 .. Len(pool) - 1 : pool'[k] = pool[k + 1]
        BY <1>1
    <3>2. \A l \in DOMAIN pool' : l + 1 \in DOMAIN pool /\ 1 < l + 1 /\ pool'[l] = pool[l + 1]
        BY <3>1
    <3> QED
        BY <2>1, <2>2, <2>3, <3>2 DEF Precedes, Sorted
  <2>8. Precedes(events', pool', map_jobs)
      BY <1>1, <1>2, <2>6, <2>7, AppendPrecedes
  <2> QED
      BY <1>0, <2>5, <2>6, <2>8 DEF OrderStage
<1>10. PlaceStage' /\ KnownStage'
    BY <1>0, PlaceKept, KnownKept DEF Waiting
<1>11. InsertStage'
  <2>1. \A c, d : <<"insertDone", c, d>> \in Posted' <=> <<"insertDone", c, d>> \in Posted
      BY <1>3, <1>5, EventsDiffer
  <2> QED
      BY <1>0, <2>1, InsertKept DEF InsertStage
<1> QED
    BY <1>6, <1>7, <1>8, <1>9, <1>10, <1>11

(* An insert moves from the line of the job manager to the events; its     *)
(* object keeps it, and the database has its rows.                         *)
LEMMA InsertEndKeeps ==
    ASSUME Stages, InsertEnd
    PROVE  Stages'
<1> USE DEF Stages
<1>0. UNCHANGED <<all_done, test, runs, content, tested, others, reader, read, objects, pause,
                  frames, read_job, parse_job, map_jobs, pool, mapped, variable_sets,
                  insert_job, insert_active, settled, aborted>>
    BY DEF InsertEnd, doneVars, runVars, readerVars, jobVars
<1>1. /\ db_line \in Seq(Nat \X Dbos) /\ db_line # <<>> /\ IsInjective(db_line)
      /\ db_line' = Tail(db_line)
      /\ stored' = stored \cup {Head(db_line)}
      /\ events' = Append(events, <<"insertDone", Head(db_line)[1], Head(db_line)[2]>>)
    BY DEF InsertEnd, Post, TypeOK, Lines
<1>2. PICK insert : insert = Head(db_line)
    OBVIOUS
<1>3. /\ insert \in Nat \X Dbos /\ db_line' \in Seq(Nat \X Dbos) /\ IsInjective(db_line')
      /\ insert \in Queued /\ Queued' = Queued \ {insert}
    BY <1>1, <1>2, TakeFirst DEF Queued
<1>4. PICK c0 \in Nat, d0 \in Dbos : insert = <<c0, d0>>
    BY <1>3
<1>5. PICK e : e = <<"insertDone", c0, d0>>
    OBVIOUS
<1>6. e \in Events /\ e \notin Posted /\ \A c : e # <<"mapped", c>>
    BY <1>3, <1>4, <1>5, KindsOfEvents, EventsDiffer DEF InsertStage
<1>7. Post(e)
  <2>1. Head(db_line)[1] = c0 /\ Head(db_line)[2] = d0
      BY <1>2, <1>4
  <2> QED
      BY <1>1, <1>5, <2>1 DEF Post
<1>8. /\ events' \in Seq(Events) /\ IsInjective(events') /\ Posted' = Posted \cup {e}
      /\ Sorted(events', map_jobs) /\ Precedes(events', pool, map_jobs)
    BY <1>6, <1>7, EventPosted
<1>9. /\ \A s \in Signals : s \in Posted' <=> s \in Posted
      /\ <<"read">> \in Posted' <=> <<"read">> \in Posted
      /\ <<"readDone">> \in Posted' <=> <<"readDone">> \in Posted
    BY <1>5, <1>8, EventsDiffer
<1>10. stored' = stored \cup {insert}
    BY <1>1, <1>2
<1>11. TypeOK' /\ Lines' /\ OrderStage'
    BY <1>0, <1>3, <1>8, <1>10 DEF TypeOK, Lines, OrderStage
<1>12. ReaderStage' /\ SignalStage' /\ PlaceStage'
    BY <1>0, <1>9, ReaderKept, SignalKept, PlaceKept
<1>13. \A c \in Nat, d \in Dbos :
         /\ <<c, d>> \in Queued' <=> <<c, d>> \in Queued /\ ~(c = c0 /\ d = d0)
         /\ <<"insertDone", c, d>> \in Posted' <=>
               \/ <<"insertDone", c, d>> \in Posted
               \/ c = c0 /\ d = d0
    BY <1>3, <1>4, <1>5, <1>8, EventsDiffer
<1>14. \A c \in Nat, d \in Dbos : Inserting(c, d)' <=> Inserting(c, d)
    BY <1>3, <1>4, <1>13 DEF Inserting
<1>15. InsertStage'
    BY <1>0, <1>13, <1>14 DEF InsertStage
<1>16. KnownStage'
  <2>1. stored' \cup Queued' = stored \cup Queued
      BY <1>3, <1>10
  <2>2. Known' = Known /\ Waiting' = Waiting
      BY <1>0 DEF Known, Waiting, Chunks
  <2> QED
      BY <1>0, <2>1, <2>2 DEF KnownStage
<1> QED
    BY <1>11, <1>12, <1>15, <1>16

-----------------------------------------------------------------------------
(* The main thread: what the slots do.                                     *)

(* A slot that waits goes on top of the frames ... *)
LEMMA FramePushed ==
    ASSUME TypeOK, Lines, NEW slot \in {"addRead", "insertData"}, NEW chunk \in Nat,
           chunk \notin Held, frames' = <<Frame(slot, chunk)>> \o frames
    PROVE  /\ frames' \in Seq(FrameSet)
           /\ \A i, j \in DOMAIN frames' : frames'[i].chunk = frames'[j].chunk => i = j
           /\ Held' = Held \cup {chunk}
           /\ slot = "addRead" => Waiting' \subseteq Waiting
           /\ Waiting' \subseteq Waiting \cup {chunk}
<1>1. PICK f : f = Frame(slot, chunk)
    OBVIOUS
<1>2. f \in FrameSet /\ f.slot = slot /\ f.chunk = chunk
    BY <1>1 DEF Frame, FrameSet
<1>3. frames \in Seq(FrameSet) /\ frames' = <<f>> \o frames
    BY <1>1 DEF TypeOK
<1>4. /\ frames' \in Seq(FrameSet)
      /\ DOMAIN frames' = 1 .. Len(frames) + 1
      /\ frames'[1] = f
      /\ \A i \in 2 .. Len(frames) + 1 : frames'[i] = frames[i - 1]
    BY <1>2, <1>3, PutOnTop
<1>5. DOMAIN frames = 1 .. Len(frames) /\ Len(frames) \in Nat
    BY <1>3
<1>6. \A i \in DOMAIN frames : frames[i].chunk # chunk
    BY DEF Held
<1>7. ASSUME NEW i \in DOMAIN frames'
      PROVE  \/ i = 1 /\ frames'[i] = f
             \/ i # 1 /\ i - 1 \in DOMAIN frames /\ frames'[i] = frames[i - 1]
  <2>1. i = 1 \/ i \in 2 .. Len(frames) + 1
      BY <1>4, <1>5
  <2> QED
      BY <2>1, <1>4, <1>5
<1>8. ASSUME NEW i \in DOMAIN frames', NEW j \in DOMAIN frames',
             frames'[i].chunk = frames'[j].chunk
      PROVE  i = j
  <2>1. i \in Int /\ j \in Int
      BY <1>4
  <2>2. CASE i = 1 /\ j = 1
      BY <2>2
  <2>3. CASE i # 1 /\ j # 1
    <3>1. i - 1 \in DOMAIN frames /\ j - 1 \in DOMAIN frames
          /\ frames[i - 1].chunk = frames[j - 1].chunk
        BY <1>7, <1>8, <2>3
    <3>2. i - 1 = j - 1
        BY <3>1 DEF Lines
    <3> QED
        BY <3>2, <2>1
  <2>4. \A k \in DOMAIN frames' : k # 1 => frames'[k].chunk # chunk
    <3> SUFFICES ASSUME NEW k \in DOMAIN frames', k # 1 PROVE frames'[k].chunk # chunk
        OBVIOUS
    <3>1. PICK l \in DOMAIN frames : frames'[k] = frames[l]
        BY <1>7
    <3> QED
        BY <3>1, <1>6
  <2>5. frames'[1].chunk = chunk
      BY <1>2, <1>4
  <2> QED
      BY <1>8, <2>2, <2>3, <2>4, <2>5
<1>9. \A i \in DOMAIN frames : i + 1 \in DOMAIN frames' /\ frames'[i + 1] = frames[i]
  <2> SUFFICES ASSUME NEW i \in DOMAIN frames
               PROVE  i + 1 \in DOMAIN frames' /\ frames'[i + 1] = frames[i]
      OBVIOUS
  <2>1. i + 1 \in 2 .. Len(frames) + 1 /\ (i + 1) - 1 = i
      BY <1>5
  <2> QED
      BY <2>1, <1>4
<1>10. 1 \in DOMAIN frames'
    BY <1>4, <1>5
<1>11. Held' = Held \cup {chunk}
  <2>1. Held' = {frames'[i].chunk : i \in DOMAIN frames'}
      BY DEF Held
  <2>2. ASSUME NEW x PROVE x \in Held' <=> x \in Held \cup {chunk}
    <3>1. ASSUME x \in Held' PROVE x \in Held \cup {chunk}
      <4>1. PICK i \in DOMAIN frames' : x = frames'[i].chunk
          BY <2>1, <3>1
      <4> QED
          BY <4>1, <1>2, <1>7 DEF Held
    <3>2. ASSUME x \in Held PROVE x \in Held'
      <4>1. PICK i \in DOMAIN frames : x = frames[i].chunk
          BY <3>2 DEF Held
      <4> QED
          BY <4>1, <2>1, <1>9
    <3>3. chunk \in Held'
        BY <2>1, <1>2, <1>4, <1>10
    <3> QED
        BY <3>1, <3>2, <3>3
  <2> QED
      BY <2>2
<1>12. ASSUME NEW x \in Waiting'
       PROVE  x \in Waiting \/ (x = chunk /\ slot = "insertData")
  <2>1. PICK i \in DOMAIN frames' : x = frames'[i].chunk /\ frames'[i].slot = "insertData"
      BY <1>12 DEF Waiting
  <2>2. CASE i = 1
      BY <2>1, <2>2, <1>2, <1>7
  <2>3. CASE i # 1
      BY <2>1, <2>3, <1>7 DEF Waiting
  <2> QED
      BY <2>2, <2>3
<1> QED
    BY <1>4, <1>8, <1>11, <1>12

(* ... and the innermost one goes on. *)
LEMMA FramePopped ==
    ASSUME TypeOK, Lines, frames # <<>>, frames' = Tail(frames)
    PROVE  /\ frames' \in Seq(FrameSet)
           /\ \A i, j \in DOMAIN frames' : frames'[i].chunk = frames'[j].chunk => i = j
           /\ Head(frames).chunk \in Nat /\ Head(frames).chunk \in Held
           /\ Held' = Held \ {Head(frames).chunk}
           /\ Waiting' \subseteq Waiting
           /\ Head(frames).slot = "insertData" => Head(frames).chunk \in Waiting
<1>1. /\ frames \in Seq(FrameSet) /\ frames' \in Seq(FrameSet)
      /\ Len(frames) \in Nat /\ Len(frames) > 0 /\ DOMAIN frames = 1 .. Len(frames)
      /\ DOMAIN frames' = 1 .. Len(frames) - 1
      /\ \A i \in 1 .. Len(frames) - 1 : frames'[i] = frames[i + 1]
      /\ 1 \in DOMAIN frames /\ Head(frames) = frames[1]
    BY DEF TypeOK
<1>2. PICK chunk : chunk = Head(frames).chunk
    OBVIOUS
<1>3. Head(frames) \in FrameSet
    BY <1>1
<1>4. chunk \in Nat
    BY <1>2, <1>3 DEF FrameSet
<1>5. chunk \in Held /\ (Head(frames).slot = "insertData" => chunk \in Waiting)
    BY <1>1, <1>2 DEF Held, Waiting
<1>6. \A i \in DOMAIN frames' :
         i \in Int /\ i + 1 \in DOMAIN frames /\ frames'[i] = frames[i + 1] /\ i + 1 # 1
    BY <1>1
<1>7. ASSUME NEW i \in DOMAIN frames', NEW j \in DOMAIN frames',
             frames'[i].chunk = frames'[j].chunk
      PROVE  i = j
  <2>1. i + 1 = j + 1
      BY <1>6, <1>7 DEF Lines
  <2> QED
      BY <2>1, <1>6
<1>8. \A i \in DOMAIN frames : i # 1 => frames[i].chunk # chunk
    BY <1>1, <1>2 DEF Lines
<1>9. ASSUME NEW x
      PROVE  x \in Held' <=> x \in Held \ {chunk}
  <2>1. Held' = {frames'[i].chunk : i \in DOMAIN frames'}
      BY DEF Held
  <2>2. ASSUME x \in Held' PROVE x \in Held \ {chunk}
    <3>1. PICK i \in DOMAIN frames' : x = frames'[i].chunk
        BY <2>1, <2>2
    <3> QED
        BY <3>1, <1>6, <1>8 DEF Held
  <2>3. ASSUME x \in Held \ {chunk} PROVE x \in Held'
    <3>1. PICK i \in DOMAIN frames : x = frames[i].chunk
        BY <2>3 DEF Held
    <3>2. i # 1
        BY <3>1, <2>3, <1>1, <1>2
    <3>3. i - 1 \in 1 .. Len(frames) - 1 /\ (i - 1) + 1 = i
        BY <3>2, <1>1
    <3>4. frames'[i - 1] = frames[i]
        BY <3>3, <1>1
    <3> QED
        BY <3>1, <3>3, <3>4, <1>1, <2>1
  <2> QED
      BY <2>2, <2>3
<1>10. ASSUME NEW x \in Waiting' PROVE x \in Waiting
  <2>1. PICK i \in DOMAIN frames' : x = frames'[i].chunk /\ frames'[i].slot = "insertData"
      BY <1>10 DEF Waiting
  <2> QED
      BY <2>1, <1>6 DEF Waiting
<1> QED
    BY <1>1, <1>2, <1>4, <1>5, <1>7, <1>9, <1>10

(* checkAllDone sets flags only, and these only when nothing is read. *)
LEMMA CheckSetsFlags ==
    ASSUME TypeOK, CheckAllDone
    PROVE  /\ test' \in BOOLEAN /\ all_done' \in BOOLEAN
           /\ test' => test
           /\ all_done' => all_done \/ ~read_job'
    BY DEF TypeOK, CheckAllDone, doneVars

(* The numbers of size_t. *)
LEMMA SizeNumbers ==
    /\ \A k \in Nat : k < Modulus => k % Modulus = k
    /\ \A k \in Nat : 0 < k /\ k <= Modulus => (0 - k) % Modulus = Modulus - k
<1>1. Modulus \in Nat /\ Modulus > 0
    BY ModulusAssumption, DbosAssumption, FS_CardinalityType
<1>2. ASSUME NEW k \in Nat, k < Modulus
      PROVE  k % Modulus = k
    BY <1>1, <1>2
<1>3. ASSUME NEW k \in Nat, 0 < k, k <= Modulus
      PROVE  (0 - k) % Modulus = Modulus - k
    BY <1>1, <1>3
<1> QED
    BY <1>2, <1>3

(* Any number of objects is a number of size_t. *)
LEMMA ObjectsAreCounted ==
    ASSUME NEW S \in SUBSET Dbos
    PROVE  IsFiniteSet(S) /\ Cardinality(S) \in Nat /\ Cardinality(S) < Modulus
<1>1. IsFiniteSet(S) /\ Cardinality(S) <= Cardinality(Dbos)
    BY DbosAssumption, FS_Subset
<1>2. Cardinality(S) \in Nat /\ Cardinality(Dbos) \in Nat
    BY <1>1, DbosAssumption, FS_CardinalityType
<1> QED
    BY <1>1, <1>2, ModulusAssumption

(* Where no insert is counted there is none, and no other was heard of. *)
LEMMA IdleMeansNone ==
    ASSUME TypeOK, InsertStage, insert_active = 0
    PROVE  /\ others = 0 /\ insert_job = {} /\ db_line = <<>>
           /\ \A c \in Nat, d \in Dbos : ~Inserting(c, d)
<1>1. others = 0
  <2> SUFFICES ASSUME others # 0 PROVE FALSE
      OBVIOUS
  <2>1. others \in Nat /\ others <= MaxOthers /\ insert_active = Modulus - others
      BY DEF TypeOK, InsertStage
  <2>2. Cardinality(Dbos) \in Nat
      BY DbosAssumption, FS_CardinalityType
  <2> QED
      BY <2>1, <2>2, ModulusAssumption
<1>2. insert_job = {}
  <2>1. IsFiniteSet(insert_job) /\ Cardinality(insert_job) = 0
      BY <1>1, ObjectsAreCounted DEF TypeOK, InsertStage
  <2> QED
      BY <2>1, FS_EmptySet
<1>3. \A c \in Nat, d \in Dbos : ~Inserting(c, d)
    BY <1>2 DEF InsertStage
<1>4. db_line = <<>>
  <2> SUFFICES ASSUME db_line # <<>> PROVE FALSE
      OBVIOUS
  <2>1. db_line \in Seq(Nat \X Dbos)
      BY DEF TypeOK
  <2>2. 1 \in DOMAIN db_line /\ db_line[1] \in Nat \X Dbos
      BY <2>1
  <2>3. PICK c \in Nat, d \in Dbos : db_line[1] = <<c, d>>
      BY <2>2
  <2>4. Inserting(c, d)
      BY <2>2, <2>3 DEF Inserting, Queued, ToSet
  <2> QED
      BY <2>4, <1>3
<1> QED
    BY <1>1, <1>2, <1>3, <1>4

(* A parse job is started when there is none. *)
LEMMA ParseStarts ==
    ASSUME Stages, NEW chunk \in Nat, parse_job = None, StartParse(chunk),
           UNCHANGED map_jobs, Sorted(events', map_jobs), Precedes(events', pool, map_jobs),
           \A s \in Signals : s \in Posted' <=> s \in Posted
    PROVE  /\ parse_job' \in Nat /\ pool' \in Seq(Signals) /\ IsInjective(pool')
           /\ SignalStage' /\ OrderStage' /\ Parsing = {} /\ Parsing' = {chunk}
<1> USE DEF Stages
<1>1. PICK e : e = <<"parsed", chunk>>
    OBVIOUS
<1>2. e \in Signals /\ \A c : e # <<"mapped", c>>
    BY <1>1, KindsOfEvents, EventsDiffer
<1>3. e \notin Posted \cup Pooled
    BY <1>1, NoneAssumption DEF SignalStage
<1>4. pool \in Seq(Signals) /\ IsInjective(pool) /\ pool' = Append(pool, e)
    BY <1>1 DEF TypeOK, Lines, StartParse
<1>5. pool' \in Seq(Signals) /\ IsInjective(pool') /\ Pooled' = Pooled \cup {e}
    BY <1>2, <1>3, <1>4, AddLast DEF Pooled
<1>6. parse_job' = chunk
    BY DEF StartParse
<1>7. Parsing = {} /\ Parsing' = {chunk}
    BY <1>6, NoneAssumption DEF Parsing
<1>8. SignalStage'
  <2>1. ToSet(map_jobs') = ToSet(map_jobs)
      OBVIOUS
  <2>2. Pooled \subseteq Signals
      BY <1>4 DEF Pooled, ToSet
  <2>3. Posted' \cap Pooled' = {}
      BY <1>2, <1>3, <1>5, <2>2 DEF SignalStage
  <2>4. ASSUME NEW c \in Nat
        PROVE  <<"parsed", c>> \in Posted' \cup Pooled' <=> parse_job' = c
    <3>1. <<"parsed", c>> \notin Posted \cup Pooled
        BY NoneAssumption DEF SignalStage
    <3>2. <<"parsed", c>> \in Signals
        BY KindsOfEvents
    <3>3. <<"parsed", c>> \in Posted' \cup Pooled' <=> <<"parsed", c>> = e
        BY <3>1, <3>2, <1>5
    <3> QED
        BY <3>3, <1>1, <1>6, EventsDiffer
  <2>5. ASSUME NEW c \in Nat
        PROVE  <<"mapped", c>> \in Posted' \cup Pooled' <=> c \in ToSet(map_jobs')
    <3>1. <<"mapped", c>> \in Signals
        BY KindsOfEvents
    <3>2. <<"mapped", c>> \in Posted' \cup Pooled' <=> <<"mapped", c>> \in Posted \cup Pooled
        BY <3>1, <1>2, <1>5
    <3> QED
        BY <3>2, <2>1 DEF SignalStage
  <2> QED
      BY <2>3, <2>4, <2>5 DEF SignalStage
<1>9. OrderStage'
  <2>1. Sorted(pool, map_jobs)
      BY DEF OrderStage
  <2>2. Precedes(pool, <<e>>, map_jobs) /\ Precedes(events', <<e>>, map_jobs)
      BY <1>2, OthersPrecede
  <2>3. Sorted(pool', map_jobs)
      BY <1>4, <2>1, <2>2, AppendIsSorted
  <2>4. Precedes(events', pool', map_jobs)
      BY <1>4, <2>2, PrecedesAppend
  <2> QED
      BY <2>3, <2>4 DEF OrderStage
<1> QED
    BY <1>5, <1>6, <1>7, <1>8, <1>9

(* addReadJSONSlot takes the chunk from the read job, and parses it or waits. *)
LEMMA AddReadJSONKeeps ==
    ASSUME Stages, AddReadJSON
    PROVE  Stages'
<1> USE DEF Stages
<1>0. UNCHANGED <<all_done, test, runs, content, tested, others, reader, read, read_job,
                  map_jobs, mapped, db_line, variable_sets, insert_job, insert_active, settled,
                  stored, aborted>>
    BY DEF AddReadJSON, doneVars, runVars, readerVars, insertVars
<1>1. NextEvent(<<"read">>) /\ objects' = None
    BY DEF AddReadJSON
<1>2. /\ <<"read">> \in Posted /\ events' \in Seq(Events) /\ IsInjective(events')
      /\ Posted' = Posted \ {<<"read">>}
      /\ Sorted(events', map_jobs) /\ Precedes(events', pool, map_jobs)
    BY <1>1, EventTaken
<1>3. objects # None /\ objects = read /\ objects \in Nat
    BY <1>2 DEF ReaderStage, TypeOK
<1>4. /\ \A s \in Signals : s \in Posted' <=> s \in Posted
      /\ <<"readDone">> \in Posted' <=> <<"readDone">> \in Posted
      /\ \A c, d : <<"insertDone", c, d>> \in Posted' <=> <<"insertDone", c, d>> \in Posted
    BY <1>2, EventsDiffer
<1>5. ReaderStage'
    BY <1>0, <1>1, <1>2, <1>4 DEF ReaderStage
<1>6. InsertStage'
    BY <1>0, <1>4, InsertKept DEF InsertStage
<1>7. InHand = {objects} /\ InHand' = {} /\ InMapping' = InMapping
    BY <1>0, <1>1, <1>3 DEF InHand, InMapping
<1>8. CASE parse_job = None
  <2>1. StartParse(objects) /\ UNCHANGED frames
      BY <1>8 DEF AddReadJSON
  <2>2. /\ parse_job' \in Nat /\ pool' \in Seq(Signals) /\ IsInjective(pool')
        /\ SignalStage' /\ OrderStage' /\ Parsing = {} /\ Parsing' = {objects}
      BY <1>0, <1>2, <1>3, <1>4, <1>8, <2>1, ParseStarts
  <2>3. TypeOK' /\ Lines'
      BY <1>0, <1>1, <1>2, <2>1, <2>2 DEF TypeOK, Lines
  <2>4. Held' = Held /\ Waiting' = Waiting
      BY <2>1 DEF Held, Waiting
  <2>5. PlaceStage'
      BY <1>0, <1>7, <2>2, <2>4 DEF PlaceStage
  <2>6. KnownStage'
      BY <1>0, <2>4, KnownKept
  <2> QED
      BY <1>5, <1>6, <2>2, <2>3, <2>5, <2>6
<1>9. CASE parse_job # None
  <2>1. frames' = <<Frame("addRead", objects)>> \o frames /\ UNCHANGED <<parse_job, pool>>
      BY <1>9 DEF AddReadJSON
  <2>2. objects \notin Held
      BY <1>7 DEF PlaceStage
  <2>3. /\ frames' \in Seq(FrameSet)
        /\ \A i, j \in DOMAIN frames' : frames'[i].chunk = frames'[j].chunk => i = j
        /\ Held' = Held \cup {objects}
        /\ Waiting' \subseteq Waiting
      BY <1>3, <2>1, <2>2, FramePushed
  <2>4. TypeOK' /\ Lines'
      BY <1>0, <1>1, <1>2, <2>1, <2>3 DEF TypeOK, Lines
  <2>5. SignalStage' /\ OrderStage'
      BY <1>0, <1>2, <1>4, <2>1, SignalKept DEF OrderStage
  <2>6. PlaceStage'
    <3>1. Parsing' = Parsing
        BY <2>1 DEF Parsing
    <3> QED
        BY <1>0, <1>7, <2>3, <3>1 DEF PlaceStage
  <2>7. KnownStage'
      BY <1>0, <2>3, KnownKept
  <2> QED
      BY <1>5, <1>6, <2>4, <2>5, <2>6, <2>7
<1> QED
    BY <1>8, <1>9

(* A waiting addReadJSONSlot goes on when no parse job is left. *)
LEMMA ContinueAddReadJSONKeeps ==
    ASSUME Stages, ContinueAddReadJSON
    PROVE  Stages'
<1> USE DEF Stages
<1>0. UNCHANGED <<all_done, test, runs, content, tested, others, reader, read, objects, events,
                  read_job, map_jobs, mapped, db_line, variable_sets, insert_job,
                  insert_active, settled, stored, aborted>>
    BY DEF ContinueAddReadJSON, doneVars, runVars, readerVars, insertVars
<1>1. /\ frames # <<>> /\ parse_job = None /\ frames' = Tail(frames)
      /\ StartParse(Head(frames).chunk)
    BY DEF ContinueAddReadJSON
<1>2. PICK chunk : chunk = Head(frames).chunk
    OBVIOUS
<1>3. /\ frames' \in Seq(FrameSet)
      /\ \A i, j \in DOMAIN frames' : frames'[i].chunk = frames'[j].chunk => i = j
      /\ chunk \in Nat /\ chunk \in Held /\ Held' = Held \ {chunk} /\ Waiting' \subseteq Waiting
    BY <1>1, <1>2, FramePopped
<1>4. Posted' = Posted
    BY <1>0 DEF Posted
<1>5. Sorted(events', map_jobs) /\ Precedes(events', pool, map_jobs)
    BY <1>0 DEF OrderStage
<1>6. /\ parse_job' \in Nat /\ pool' \in Seq(Signals) /\ IsInjective(pool')
      /\ SignalStage' /\ OrderStage' /\ Parsing = {} /\ Parsing' = {chunk}
    BY <1>0, <1>1, <1>2, <1>3, <1>4, <1>5, ParseStarts
<1>7. TypeOK' /\ Lines'
    BY <1>0, <1>3, <1>6 DEF TypeOK, Lines
<1>8. ReaderStage'
    BY <1>0, <1>4, ReaderKept
<1>9. InsertStage'
    BY <1>0, <1>4, InsertKept DEF InsertStage
<1>10. PlaceStage'
  <2>1. InHand' = InHand /\ InMapping' = InMapping
      BY <1>0 DEF InHand, InMapping
  <2> QED
      BY <1>0, <1>3, <1>6, <2>1 DEF PlaceStage
<1>11. KnownStage'
    BY <1>0, <1>3, KnownKept
<1> QED
    BY <1>6, <1>7, <1>8, <1>9, <1>10, <1>11

(* The loop of a waiting slot pauses the reader. *)
LEMMA WaitOnKeeps ==
    ASSUME Stages, WaitOn
    PROVE  Stages'
<1> USE DEF Stages
<1>0. UNCHANGED <<all_done, test, runs, content, tested, others, reader, read, objects, events,
                  frames, read_job, parse_job, map_jobs, pool, mapped, db_line, variable_sets,
                  insert_job, insert_active, settled, stored, aborted>>
    BY DEF WaitOn, doneVars, runVars, readerVars, jobVars, insertVars
<1>1. Posted' = Posted /\ Waiting' = Waiting
    BY <1>0 DEF Posted, Waiting
<1>2. TypeOK' /\ Lines' /\ OrderStage'
    BY <1>0 DEF TypeOK, Lines, OrderStage
<1>3. ReaderStage' /\ SignalStage' /\ PlaceStage' /\ KnownStage'
    BY <1>0, <1>1, ReaderKept, SignalKept, PlaceKept, KnownKept
<1>4. InsertStage'
    BY <1>0, <1>1, InsertKept DEF InsertStage
<1> QED
    BY <1>2, <1>3, <1>4

(* The read job has ended. *)
LEMMA ReadJSONFileDoneKeeps ==
    ASSUME Stages, ReadJSONFileDone
    PROVE  Stages'
<1> USE DEF Stages
<1>0. /\ UNCHANGED <<all_done, test, runs, content, tested, others, reader, read, objects,
                     frames, parse_job, map_jobs, pool, mapped, db_line, variable_sets,
                     insert_job, insert_active, settled, stored, aborted>>
      /\ NextEvent(<<"readDone">>) /\ read_job' = FALSE
    BY DEF ReadJSONFileDone, doneVars, runVars, readerVars, insertVars
<1>1. /\ <<"readDone">> \in Posted /\ events' \in Seq(Events) /\ IsInjective(events')
      /\ Posted' = Posted \ {<<"readDone">>}
      /\ Sorted(events', map_jobs) /\ Precedes(events', pool, map_jobs)
    BY <1>0, EventTaken
<1>2. /\ \A s \in Signals : s \in Posted' <=> s \in Posted
      /\ <<"read">> \in Posted' <=> <<"read">> \in Posted
      /\ \A c, d : <<"insertDone", c, d>> \in Posted' <=> <<"insertDone", c, d>> \in Posted
    BY <1>1, EventsDiffer
<1>3. TypeOK' /\ Lines' /\ OrderStage'
    BY <1>0, <1>1 DEF TypeOK, Lines, OrderStage
<1>4. ReaderStage'
    BY <1>0, <1>1, <1>2 DEF ReaderStage
<1>5. SignalStage' /\ PlaceStage' /\ KnownStage'
    BY <1>0, <1>2, SignalKept, PlaceKept, KnownKept DEF Waiting
<1>6. InsertStage'
    BY <1>0, <1>2, InsertKept DEF InsertStage
<1> QED
    BY <1>3, <1>4, <1>5, <1>6

(* parseJSONDoneSlot makes a mapping job of the parse job. *)
LEMMA ParseJSONDoneKeeps ==
    ASSUME Stages, ParseJSONDone
    PROVE  Stages'
<1> USE DEF Stages
<1>0. UNCHANGED <<all_done, test, runs, content, tested, others, reader, read, objects, frames,
                  read_job, mapped, db_line, variable_sets, insert_job, insert_active, settled,
                  stored, aborted>>
    BY DEF ParseJSONDone, doneVars, runVars, readerVars, insertVars
<1>1. PICK c \in DOMAIN content :
         /\ NextEvent(<<"parsed", c>>) /\ parse_job' = None
         /\ map_jobs' = Append(map_jobs, c) /\ pool' = Append(pool, <<"mapped", c>>)
    BY DEF ParseJSONDone
<1>2. c \in Nat
    BY <1>1 DEF TypeOK
<1>3. PICK p, m : p = <<"parsed", c>> /\ m = <<"mapped", c>>
    OBVIOUS
<1>4. p \in Signals /\ m \in Signals /\ p # m
    BY <1>2, <1>3, KindsOfEvents, EventsDiffer
<1>5. /\ p \in Posted /\ events' \in Seq(Events) /\ IsInjective(events')
      /\ Posted' = Posted \ {p}
      /\ Sorted(events', map_jobs) /\ Precedes(events', pool, map_jobs)
    BY <1>1, <1>3, EventTaken
<1>6. parse_job = c
    BY <1>2, <1>3, <1>5 DEF SignalStage
<1>7. c # None /\ Parsing = {c} /\ Parsing' = {}
    BY <1>1, <1>2, <1>6, NoneAssumption DEF Parsing
<1>8. c \notin ToSet(map_jobs) /\ m \notin Posted /\ m \notin Pooled
    BY <1>2, <1>3, <1>7 DEF PlaceStage, InMapping, SignalStage
<1>9. /\ map_jobs' \in Seq(Nat) /\ IsInjective(map_jobs')
      /\ ToSet(map_jobs') = ToSet(map_jobs) \cup {c}
    BY <1>1, <1>2, <1>8, AddLast DEF TypeOK, Lines
<1>10. pool' \in Seq(Signals) /\ IsInjective(pool') /\ Pooled' = Pooled \cup {m}
  <2>1. pool \in Seq(Signals) /\ IsInjective(pool) /\ pool' = Append(pool, m)
      BY <1>1, <1>3 DEF TypeOK, Lines
  <2> QED
      BY <1>4, <1>8, <2>1, AddLast DEF Pooled
<1>11. TypeOK' /\ Lines'
    BY <1>0, <1>1, <1>5, <1>9, <1>10 DEF TypeOK, Lines
<1>12. ReaderStage' /\ KnownStage'
  <2>1. /\ <<"read">> \in Posted' <=> <<"read">> \in Posted
        /\ <<"readDone">> \in Posted' <=> <<"readDone">> \in Posted
      BY <1>4, <1>5, EventsDiffer
  <2> QED
      BY <1>0, <2>1, ReaderKept, KnownKept DEF Waiting
<1>13. InsertStage'
  <2>1. \A x, d : <<"insertDone", x, d>> \in Posted' <=> <<"insertDone", x, d>> \in Posted
      BY <1>4, <1>5, EventsDiffer
  <2> QED
      BY <1>0, <2>1, InsertKept DEF InsertStage
<1>14. SignalStage'
  <2>1. p \notin Pooled
      BY <1>5 DEF SignalStage
  <2>2. Posted' \cup Pooled' = ((Posted \cup Pooled) \ {p}) \cup {m}
      BY <1>4, <1>5, <1>10, <2>1
  <2>3. Posted' \cap Pooled' = {}
      BY <1>5, <1>8, <1>10 DEF SignalStage
  <2>4. ASSUME NEW x \in Nat
        PROVE  <<"parsed", x>> \in Posted' \cup Pooled' <=> parse_job' = x
    <3>1. <<"parsed", x>> \in Posted \cup Pooled => x = c
        BY <1>6 DEF SignalStage
    <3>2. <<"parsed", x>> # m /\ (x = c => <<"parsed", x>> = p)
        BY <1>3, EventsDiffer
    <3>3. parse_job' # x
        BY <1>1, NoneAssumption
    <3> QED
        BY <2>2, <3>1, <3>2, <3>3
  <2>5. ASSUME NEW x \in Nat
        PROVE  <<"mapped", x>> \in Posted' \cup Pooled' <=> x \in ToSet(map_jobs')
    <3>1. <<"mapped", x>> # p /\ (x = c <=> <<"mapped", x>> = m)
        BY <1>3, EventsDiffer
    <3>2. <<"mapped", x>> \in Posted \cup Pooled <=> x \in ToSet(map_jobs)
        BY DEF SignalStage
    <3> QED
        BY <2>2, <3>1, <3>2, <1>9
  <2> QED
      BY <2>3, <2>4, <2>5 DEF SignalStage
<1>15. OrderStage'
  <2>1. map_jobs \in Seq(Nat) /\ pool \in Seq(Signals)
      BY DEF TypeOK
  <2>2. Sorted(pool, map_jobs)
      BY DEF OrderStage
  <2>3. <<"mapped", c>> \notin ToSet(pool) /\ <<"mapped", c>> \notin ToSet(events')
      BY <1>3, <1>5, <1>8 DEF Posted, Pooled
  <2>4. /\ Sorted(pool, map_jobs') /\ Precedes(pool, <<m>>, map_jobs')
        /\ Precedes(events', pool, map_jobs')
      BY <1>1, <1>2, <1>3, <1>5, <1>8, <2>1, <2>2, <2>3, NewJobIsLast
  <2>6. Sorted(events', map_jobs') /\ Precedes(events', <<m>>, map_jobs')
    <3>1. Precedes(<<>>, events', map_jobs)
        BY DEF Precedes
    <3>2. <<>> \in Seq(Events) /\ <<"mapped", c>> \notin ToSet(<<>>)
        BY DEF ToSet
    <3> QED
        BY <1>1, <1>2, <1>3, <1>5, <1>8, <2>1, <2>3, <3>1, <3>2, NewJobIsLast
  <2>7. Sorted(pool', map_jobs')
      BY <1>1, <1>3, <2>1, <2>4, AppendIsSorted
  <2>8. Precedes(events', pool', map_jobs')
      BY <1>1, <1>3, <2>1, <2>4, <2>6, PrecedesAppend
  <2> QED
      BY <2>6, <2>7, <2>8 DEF OrderStage
<1>16. PlaceStage'
  <2>1. Held' = Held /\ InHand' = InHand /\ InMapping' = InMapping \cup {c}
      BY <1>0, <1>9 DEF Held, InHand, InMapping
  <2> QED
      BY <1>0, <1>7, <2>1 DEF PlaceStage
<1> QED
    BY <1>11, <1>12, <1>13, <1>14, <1>15, <1>16

(* insertData behind its wait: no insert is under way, and each object     *)
(* with rows and a variable set gets one.                                  *)
LEMMA InsertStarts ==
    ASSUME Stages, NEW chunk \in 1 .. read, insert_active = 0, Insert(chunk),
           UNCHANGED <<others, read, content, stored, runs>>, test' => test,
           variable_sets # {} => variable_sets' = variable_sets,
           variable_sets' \in {variable_sets, content[chunk]},
           TRUE \notin ToSet(runs) /\ content[chunk] # {} => variable_sets' # {},
           Waiting' \subseteq Waiting,
           \A c, d : <<"insertDone", c, d>> \in Posted' <=> <<"insertDone", c, d>> \in Posted
    PROVE  /\ db_line' \in Seq(Nat \X Dbos) /\ IsInjective(db_line')
           /\ insert_job' \in SUBSET Dbos /\ insert_active' \in Nat
           /\ variable_sets' \in SUBSET Dbos
           /\ settled' = settled \cup {chunk} /\ aborted' = aborted
           /\ InsertStage' /\ KnownStage'
<1> USE DEF Stages
<1> DEFINE dbos == content[chunk] \cap variable_sets'
           inserts == {<<chunk, d>> : d \in dbos}
<1>1. /\ others = 0 /\ insert_job = {} /\ db_line = <<>>
      /\ \A c \in Nat, d \in Dbos : ~Inserting(c, d)
    BY IdleMeansNone
<1>2. /\ content \in Seq(SUBSET Dbos) /\ Len(content) \in Nat /\ Chunks = 1 .. Len(content)
      /\ chunk \in Chunks /\ chunk \in Nat /\ 1 .. read \subseteq Chunks
      /\ \A c \in Chunks : content[c] \in SUBSET Dbos
  <2>1. content \in Seq(SUBSET Dbos) /\ read \in Nat /\ read <= Len(content)
      BY DEF TypeOK, ReaderStage
  <2>2. /\ Len(content) \in Nat /\ Chunks = 1 .. Len(content)
        /\ \A c \in Chunks : content[c] \in SUBSET Dbos
      BY <2>1 DEF Chunks
  <2>3. 1 .. read \subseteq 1 .. Len(content) /\ chunk \in Nat
      BY <2>1, <2>2
  <2> QED
      BY <2>1, <2>2, <2>3
<1>3. variable_sets' \in SUBSET Dbos /\ dbos \in SUBSET Dbos
    BY <1>2 DEF TypeOK
<1> HIDE DEF dbos
<1>4. IsFiniteSet(inserts) /\ inserts \subseteq Nat \X Dbos
  <2>1. IsFiniteSet(dbos) /\ IsFiniteSet({chunk})
      BY <1>3, ObjectsAreCounted, FS_Singleton
  <2>2. IsFiniteSet({chunk} \X dbos)
      BY <2>1, FS_Product
  <2>3. inserts \subseteq {chunk} \X dbos
      OBVIOUS
  <2> HIDE DEF inserts
  <2>4. IsFiniteSet(inserts)
      BY <2>2, <2>3, FS_Subset
  <2> QED
      BY <1>2, <1>3, <2>3, <2>4
<1>5. /\ settled' = settled \cup {chunk} /\ aborted' = aborted
      /\ insert_active' = AddInsertActive(Cardinality(dbos))
      /\ insert_job' = dbos
      /\ db_line' = SetToSeq(inserts)
  <2>1. dbos \cap insert_job = {}
      BY <1>1
  <2>2. /\ settled' = settled \cup {chunk}
        /\ insert_active' = AddInsertActive(Cardinality(dbos))
        /\ insert_job' = insert_job \cup dbos
        /\ db_line' = db_line \o SetToSeq(inserts)
        /\ aborted' = aborted
      BY <2>1 DEF Insert, dbos
  <2>4. SetToSeq(inserts) \in Seq(inserts)
      BY <1>4, LineOfSet
  <2> HIDE DEF inserts
  <2>5. <<>> \o SetToSeq(inserts) = SetToSeq(inserts)
      BY <2>4, NothingBefore
  <2> QED
      BY <1>1, <2>2, <2>5
<1>6. /\ db_line' \in Seq(Nat \X Dbos) /\ IsInjective(db_line') /\ Queued' = inserts
  <2>1. IsFiniteSet(inserts) /\ inserts \subseteq Nat \X Dbos
      BY <1>4
  <2> HIDE DEF inserts
  <2>3. /\ SetToSeq(inserts) \in Seq(inserts) /\ IsInjective(SetToSeq(inserts))
        /\ ToSet(SetToSeq(inserts)) = inserts
      BY <2>1, LineOfSet
  <2>4. SetToSeq(inserts) \in Seq(Nat \X Dbos)
      BY <2>1, <2>3
  <2> QED
      BY <1>5, <2>3, <2>4 DEF Queued
<1>7. IsFiniteSet(dbos) /\ insert_active' = Cardinality(dbos) /\ insert_active' \in Nat
  <2>1. IsFiniteSet(dbos) /\ Cardinality(dbos) \in Nat /\ Cardinality(dbos) < Modulus
      BY <1>3, ObjectsAreCounted
  <2>2. PICK n \in Nat : n = Cardinality(dbos)
      BY <2>1
  <2>3. insert_active' = (0 + n) % Modulus
      BY <1>5, <2>2 DEF AddInsertActive
  <2>4. 0 + n = n /\ n % Modulus = n
      BY <2>1, <2>2, SizeNumbers
  <2> QED
      BY <2>1, <2>2, <2>3, <2>4
<1>8. ASSUME NEW c \in Nat, NEW d \in Dbos
      PROVE  /\ <<c, d>> \in Queued' <=> c = chunk /\ d \in dbos
             /\ <<"insertDone", c, d>> \notin Posted'
             /\ Inserting(c, d)' <=> c = chunk /\ d \in dbos
  <2>1. <<"insertDone", c, d>> \notin Posted'
      BY <1>1 DEF Inserting
  <2>2. <<c, d>> \in Queued' <=> c = chunk /\ d \in dbos
      BY <1>6
  <2> QED
      BY <2>1, <2>2 DEF Inserting
<1>9. InsertStage'
  <2>1. \A d \in Dbos : d \in insert_job' <=> \E c \in Nat : Inserting(c, d)'
      BY <1>2, <1>5, <1>8
  <2>2. others' = 0 /\ insert_active' = Cardinality(insert_job') /\ aborted' # "!insert_job_"
      BY <1>1, <1>5, <1>7 DEF InsertStage
  <2>3. \A c \in Nat, d \in Dbos : Inserting(c, d)' => c \in 1 .. read'
      BY <1>8
  <2>4. others' <= MaxOthers
      BY DEF InsertStage
  <2> QED
      BY <1>8, <2>1, <2>2, <2>3, <2>4 DEF InsertStage
<1>10. KnownStage'
  <2>1. Known \subseteq Known' /\ inserts \subseteq Known'
    <3>1. Known' = {x \in Chunks \X variable_sets' : x[2] \in content[x[1]]}
        BY DEF Known, Chunks
    <3>2. variable_sets \subseteq variable_sets'
        OBVIOUS
    <3>3. ASSUME NEW x \in Known PROVE x \in Known'
      <4>1. x \in Chunks \X variable_sets /\ x[2] \in content[x[1]]
          BY DEF Known
      <4>2. x \in Chunks \X variable_sets'
          BY <3>2, <4>1
      <4> QED
          BY <3>1, <4>1, <4>2
    <3>4. ASSUME NEW d \in dbos PROVE <<chunk, d>> \in Known'
      <4>1. d \in content[chunk] /\ d \in variable_sets'
          BY DEF dbos
      <4>2. <<chunk, d>> \in Chunks \X variable_sets'
          BY <1>2, <4>1
      <4> QED
          BY <3>1, <4>1, <4>2
    <3> QED
        BY <3>3, <3>4
  <2>2. Queued = {}
      BY <1>1 DEF Queued, ToSet
  <2>3. stored' \cup Queued' \subseteq Known'
      BY <1>6, <2>1, <2>2 DEF KnownStage
  <2>4. SUFFICES ASSUME TRUE \notin ToSet(runs)
        PROVE  /\ ~test'
               /\ \A c \in settled', d \in variable_sets' :
                     d \in content[c] => <<c, d>> \in stored' \cup Queued'
               /\ \A c \in settled' \cup Waiting' : content[c] # {} => variable_sets' # {}
      BY <2>3 DEF KnownStage
  <2>5. /\ ~test
        /\ \A c \in settled, d \in variable_sets : d \in content[c] => <<c, d>> \in stored
        /\ \A c \in settled \cup Waiting : content[c] # {} => variable_sets # {}
      BY <2>2, <2>4 DEF KnownStage
  <2>6. ASSUME NEW c \in settled', NEW d \in variable_sets', d \in content[c]
        PROVE  <<c, d>> \in stored' \cup Queued'
    <3>1. CASE c = chunk
      <4>1. d \in dbos
          BY <2>6, <3>1 DEF dbos
      <4> QED
          BY <4>1, <3>1, <1>6
    <3>2. CASE c # chunk
      <4>1. c \in settled
          BY <3>2, <1>5
      <4>2. variable_sets # {}
          BY <2>5, <2>6, <4>1
      <4> QED
          BY <2>5, <2>6, <4>1, <4>2
    <3> QED
        BY <3>1, <3>2
  <2>7. ASSUME NEW c \in settled' \cup Waiting', content[c] # {}
        PROVE  variable_sets' # {}
    <3>1. CASE c = chunk
        BY <2>4, <2>7, <3>1
    <3>2. CASE c \in settled \cup Waiting
        BY <2>5, <2>7, <3>2
    <3> QED
        BY <3>1, <3>2, <1>5
  <2> QED
      BY <2>5, <2>6, <2>7
<1> QED
    BY <1>3, <1>5, <1>6, <1>7, <1>9, <1>10

(* The end of the first mapping job is the first that is posted. *)
LEMMA FirstIsMapped ==
    ASSUME Stages, NEW c \in Nat, NextEvent(<<"mapped", c>>)
    PROVE  map_jobs # <<>> /\ c = Head(map_jobs)
<1> USE DEF Stages
<1>1. PICK m : m = <<"mapped", c>>
    OBVIOUS
<1>2. m \in Posted
    BY <1>1, EventTaken
<1>3. c \in ToSet(map_jobs)
    BY <1>1, <1>2 DEF SignalStage
<1>4. /\ map_jobs \in Seq(Nat) /\ events \in Seq(Events) /\ events # <<>> /\ events[1] = m
      /\ 1 \in DOMAIN events /\ pool \in Seq(Signals)
    BY <1>1 DEF TypeOK, NextEvent
<1>5. PICK i \in DOMAIN map_jobs : map_jobs[i] = c
    BY <1>3 DEF ToSet
<1>6. /\ i \in Nat /\ i >= 1 /\ 1 \in DOMAIN map_jobs
      /\ map_jobs # <<>> /\ map_jobs[1] = Head(map_jobs)
    BY <1>4, <1>5
<1>7. i = 1
  <2> SUFFICES ASSUME i # 1 PROVE FALSE
      OBVIOUS
  <2>1. PICK b \in Nat : b = map_jobs[1]
      BY <1>4, <1>6
  <2>2. b \in ToSet(map_jobs)
      BY <1>6, <2>1 DEF ToSet
  <2>3. <<"mapped", b>> \in Posted \cup Pooled
      BY <2>2 DEF SignalStage
  <2>4. b # c
      BY <1>5, <1>6, <2>1 DEF Lines, IsInjective
  <2>5. CASE <<"mapped", b>> \in Posted
    <3>1. PICK k \in DOMAIN events : events[k] = <<"mapped", b>>
        BY <2>5 DEF Posted, ToSet
    <3>2. k # 1
        BY <3>1, <1>1, <1>4, <2>4, EventsDiffer
    <3>3. 1 < k
        BY <3>1, <3>2, <1>4
    <3>4. i < 1
        BY <3>1, <3>3, <1>1, <1>4, <1>5, <1>6, <2>1 DEF OrderStage, Sorted
    <3> QED
        BY <3>4, <1>6
  <2>6. CASE <<"mapped", b>> \in Pooled
    <3>1. PICK k \in DOMAIN pool : pool[k] = <<"mapped", b>>
        BY <2>6 DEF Pooled, ToSet
    <3>2. i < 1
        BY <3>1, <1>1, <1>4, <1>5, <1>6, <2>1 DEF OrderStage, Precedes
    <3> QED
        BY <3>2, <1>6
  <2> QED
      BY <2>3, <2>5, <2>6
<1> QED
    BY <1>5, <1>6, <1>7

(* Its chunk leaves the mapping jobs. *)
LEMMA MapTaken ==
    ASSUME Stages, NEW c \in Nat, NextEvent(<<"mapped", c>>), map_jobs' = Tail(map_jobs),
           UNCHANGED <<pool, parse_job>>
    PROVE  /\ events' \in Seq(Events) /\ IsInjective(events')
           /\ Posted' = Posted \ {<<"mapped", c>>}
           /\ map_jobs' \in Seq(Nat) /\ IsInjective(map_jobs')
           /\ c \in InMapping /\ InMapping' = InMapping \ {c}
           /\ SignalStage' /\ OrderStage'
<1> USE DEF Stages
<1>1. PICK m : m = <<"mapped", c>>
    OBVIOUS
<1>2. /\ m \in Posted /\ events' \in Seq(Events) /\ IsInjective(events')
      /\ Posted' = Posted \ {m}
      /\ Sorted(events', map_jobs) /\ Precedes(events', pool, map_jobs)
    BY <1>1, EventTaken
<1>3. map_jobs # <<>> /\ c = Head(map_jobs) /\ map_jobs \in Seq(Nat) /\ IsInjective(map_jobs)
    BY FirstIsMapped DEF TypeOK, Lines
<1>4. /\ map_jobs' \in Seq(Nat) /\ IsInjective(map_jobs') /\ c \in ToSet(map_jobs)
      /\ ToSet(map_jobs') = ToSet(map_jobs) \ {c}
    BY <1>3, TakeFirst
<1>5. SignalStage'
  <2>1. Pooled' = Pooled /\ m \notin Pooled
      BY <1>2 DEF Pooled, SignalStage
  <2>2. Posted' \cup Pooled' = (Posted \cup Pooled) \ {m} /\ Posted' \cap Pooled' = {}
      BY <1>2, <2>1 DEF SignalStage
  <2>3. ASSUME NEW x \in Nat
        PROVE  /\ <<"parsed", x>> \in Posted' \cup Pooled' <=> parse_job' = x
               /\ <<"mapped", x>> \in Posted' \cup Pooled' <=> x \in ToSet(map_jobs')
    <3>1. <<"parsed", x>> # m /\ (x = c <=> <<"mapped", x>> = m)
        BY <1>1, EventsDiffer
    <3>2. /\ <<"parsed", x>> \in Posted \cup Pooled <=> parse_job = x
          /\ <<"mapped", x>> \in Posted \cup Pooled <=> x \in ToSet(map_jobs)
        BY DEF SignalStage
    <3> QED
        BY <2>2, <3>1, <3>2, <1>4
  <2> QED
      BY <2>2, <2>3 DEF SignalStage
<1>6. OrderStage'
  <2>1. Sorted(pool, map_jobs)
      BY DEF OrderStage
  <2>2. /\ Sorted(events', map_jobs') /\ Sorted(pool, map_jobs')
        /\ Precedes(events', pool, map_jobs')
      BY <1>2, <1>3, <2>1, FirstJobGoes
  <2> QED
      BY <2>2 DEF OrderStage
<1> QED
    BY <1>1, <1>2, <1>4, <1>5, <1>6 DEF InMapping

(* mapJSONDoneSlot: the chunk is dealt with, waits, or is inserted. *)
LEMMA MapJSONDoneKeeps ==
    ASSUME Stages, MapJSONDone
    PROVE  Stages'
<1> USE DEF Stages
<1>0. UNCHANGED <<runs, content, tested, others, reader, read, objects, read_job, parse_job,
                  pool, stored>>
    BY DEF MapJSONDone, runVars, readerVars
<1>1. PICK c \in DOMAIN content :
         /\ NextEvent(<<"mapped", c>>)
         /\ map_jobs' = Tail(map_jobs)
         /\ mapped' = (mapped \/ content[c] # {})
         /\ \/ /\ test \/ ~mapped'
               /\ settled' = settled \cup {c}
               /\ UNCHANGED <<pause, frames, insertVars, aborted>>
               /\ CheckAllDone
            \/ /\ ~test /\ mapped'
               /\ HoldReader
               /\ InsertData(c)
               /\ UNCHANGED doneVars
    BY DEF MapJSONDone
<1>2. c \in Nat
    BY <1>1 DEF TypeOK
<1>3. PICK m : m = <<"mapped", c>>
    OBVIOUS
<1>4. /\ events' \in Seq(Events) /\ IsInjective(events') /\ Posted' = Posted \ {m}
      /\ map_jobs' \in Seq(Nat) /\ IsInjective(map_jobs')
      /\ c \in InMapping /\ InMapping' = InMapping \ {c}
      /\ SignalStage' /\ OrderStage'
    BY <1>0, <1>1, <1>2, <1>3, MapTaken
<1>5. /\ \A x, d : <<"insertDone", x, d>> \in Posted' <=> <<"insertDone", x, d>> \in Posted
      /\ <<"read">> \in Posted' <=> <<"read">> \in Posted
      /\ <<"readDone">> \in Posted' <=> <<"readDone">> \in Posted
    BY <1>3, <1>4, EventsDiffer
<1>6. InHand' = InHand /\ Parsing' = Parsing
    BY <1>0 DEF InHand, Parsing
<1>7. c \in 1 .. read /\ c \notin Held \cup settled
    BY <1>4 DEF PlaceStage
<1>8. mapped' \in BOOLEAN
    BY <1>1 DEF TypeOK
<1>9. CASE /\ test \/ ~mapped'
           /\ settled' = settled \cup {c}
           /\ UNCHANGED <<pause, frames, insertVars, aborted>>
           /\ CheckAllDone
  <2>1. UNCHANGED <<db_line, variable_sets, insert_job, insert_active>>
      BY <1>9 DEF insertVars
  <2>2. test' \in BOOLEAN /\ all_done' \in BOOLEAN /\ (test' => test)
        /\ (all_done' => all_done \/ ~read_job')
      BY <1>9, CheckSetsFlags
  <2>3. settled' \in SUBSET Nat
      BY <1>2, <1>9 DEF TypeOK
  <2>4. TypeOK' /\ Lines'
      BY <1>0, <1>4, <1>8, <1>9, <2>1, <2>2, <2>3 DEF TypeOK, Lines
  <2>5. ReaderStage'
      BY <1>0, <1>5, <2>2, ReaderKept
  <2>6. Held' = Held /\ Waiting' = Waiting
      BY <1>9 DEF Held, Waiting
  <2>7. PlaceStage'
      BY <1>0, <1>4, <1>6, <1>7, <1>9, <2>6 DEF PlaceStage
  <2>8. InsertStage'
      BY <1>0, <1>5, <1>9, <2>1, InsertKept DEF InsertStage
  <2>9. KnownStage'
    <3>1. Queued' = Queued /\ Known' = Known
        BY <1>0, <2>1 DEF Queued, Known, Chunks
    <3>2. TRUE \notin ToSet(runs) => content[c] = {}
        BY <1>1, <1>9 DEF KnownStage
    <3> QED
        BY <1>0, <1>9, <2>1, <2>2, <2>6, <3>1, <3>2 DEF KnownStage
  <2> QED
      BY <1>4, <2>4, <2>5, <2>7, <2>8, <2>9
<1>10. CASE ~test /\ mapped' /\ HoldReader /\ InsertData(c) /\ UNCHANGED doneVars
  <2>1. UNCHANGED <<all_done, test>>
      BY <1>10 DEF doneVars
  <2>2. variable_sets' = IF variable_sets = {} THEN content[c] ELSE variable_sets
      BY <1>10 DEF InsertData
  <2>3. content[c] \in SUBSET Dbos /\ variable_sets' \in SUBSET Dbos
      BY <1>1, <2>2 DEF TypeOK
  <2>4. ReaderStage'
      BY <1>0, <1>5, <2>1, ReaderKept
  <2>5. CASE insert_active > 0
    <3>1. /\ frames' = <<Frame("insertData", c)>> \o frames
          /\ UNCHANGED <<db_line, insert_job, insert_active, settled, aborted>>
        BY <1>10, <2>5 DEF InsertData, TypeOK
    <3>2. /\ frames' \in Seq(FrameSet)
          /\ \A i, j \in DOMAIN frames' : frames'[i].chunk = frames'[j].chunk => i = j
          /\ Held' = Held \cup {c}
          /\ Waiting' \subseteq Waiting \cup {c}
        BY <1>2, <1>7, <3>1, FramePushed
    <3>3. TypeOK' /\ Lines'
        BY <1>0, <1>4, <1>8, <2>1, <2>3, <3>1, <3>2 DEF TypeOK, Lines
    <3>4. PlaceStage'
        BY <1>0, <1>4, <1>6, <1>7, <3>1, <3>2 DEF PlaceStage
    <3>5. InsertStage'
        BY <1>0, <1>5, <3>1, InsertKept DEF InsertStage
    <3>6. KnownStage'
      <4>1. Queued' = Queued
          BY <3>1 DEF Queued
      <4>2. Known \subseteq Known'
          BY <1>0, <2>2 DEF Known, Chunks
      <4>3. stored' \cup Queued' \subseteq Known'
          BY <1>0, <4>1, <4>2 DEF KnownStage
      <4>4. SUFFICES ASSUME TRUE \notin ToSet(runs)
            PROVE  /\ ~test'
                   /\ \A x \in settled', d \in variable_sets' :
                         d \in content[x] => <<x, d>> \in stored' \cup Queued'
                   /\ \A x \in settled' \cup Waiting' : content[x] # {} => variable_sets' # {}
          BY <1>0, <4>3 DEF KnownStage
      <4>5. /\ ~test
            /\ \A x \in settled, d \in variable_sets :
                  d \in content[x] => <<x, d>> \in stored \cup Queued
            /\ \A x \in settled \cup Waiting : content[x] # {} => variable_sets # {}
          BY <4>4 DEF KnownStage
      <4>6. ASSUME NEW x \in settled', NEW d \in variable_sets', d \in content[x]
            PROVE  <<x, d>> \in stored' \cup Queued'
        <5>1. variable_sets # {} /\ x \in settled
            BY <3>1, <4>5, <4>6
        <5> QED
            BY <5>1, <1>0, <2>2, <4>1, <4>5, <4>6
      <4>7. \A x \in settled' \cup Waiting' : content[x] # {} => variable_sets' # {}
          BY <2>2, <3>1, <3>2, <4>5
      <4> QED
          BY <2>1, <4>5, <4>6, <4>7
    <3> QED
        BY <1>4, <2>4, <3>3, <3>4, <3>5, <3>6
  <2>6. CASE insert_active = 0
    <3>1. UNCHANGED frames /\ Insert(c)
        BY <1>10, <2>6 DEF InsertData
    <3>2. Held' = Held /\ Waiting' = Waiting
        BY <3>1 DEF Held, Waiting
    <3>3. /\ db_line' \in Seq(Nat \X Dbos) /\ IsInjective(db_line')
          /\ insert_job' \in SUBSET Dbos /\ insert_active' \in Nat
          /\ settled' = settled \cup {c}
          /\ InsertStage' /\ KnownStage'
        BY <1>0, <1>5, <1>7, <2>1, <2>2, <2>6, <3>1, <3>2, InsertStarts
    <3>4. settled' \in SUBSET Nat
        BY <1>2, <3>3 DEF TypeOK
    <3>5. TypeOK' /\ Lines'
        BY <1>0, <1>4, <1>8, <2>1, <2>3, <3>1, <3>3, <3>4 DEF TypeOK, Lines
    <3>6. PlaceStage'
        BY <1>0, <1>4, <1>6, <1>7, <3>2, <3>3 DEF PlaceStage
    <3> QED
        BY <1>4, <2>4, <3>3, <3>5, <3>6
  <2>7. insert_active \in Nat
      BY DEF TypeOK
  <2> QED
      BY <2>5, <2>6, <2>7
<1> QED
    BY <1>1, <1>9, <1>10

(* A waiting insertData goes on when no insert is counted. *)
LEMMA ContinueInsertDataKeeps ==
    ASSUME Stages, ContinueInsertData
    PROVE  Stages'
<1> USE DEF Stages
<1>0. UNCHANGED <<all_done, test, runs, content, tested, others, reader, read, objects, events,
                  read_job, parse_job, map_jobs, pool, mapped, variable_sets, stored>>
    BY DEF ContinueInsertData, doneVars, runVars, readerVars, jobVars
<1>1. /\ frames # <<>> /\ Head(frames).slot = "insertData" /\ insert_active = 0
      /\ frames' = Tail(frames)
    BY DEF ContinueInsertData
<1>2. PICK chunk : chunk = Head(frames).chunk
    OBVIOUS
<1>3. Insert(chunk)
    BY <1>2 DEF ContinueInsertData
<1>4. /\ frames' \in Seq(FrameSet)
      /\ \A i, j \in DOMAIN frames' : frames'[i].chunk = frames'[j].chunk => i = j
      /\ chunk \in Nat /\ chunk \in Held /\ Held' = Held \ {chunk} /\ Waiting' \subseteq Waiting
      /\ chunk \in Waiting
    BY <1>1, <1>2, FramePopped
<1>5. chunk \in 1 .. read /\ chunk \notin settled
    BY <1>4 DEF PlaceStage
<1>6. Posted' = Posted
    BY <1>0 DEF Posted
<1>7. TRUE \notin ToSet(runs) /\ content[chunk] # {} => variable_sets' # {}
    BY <1>0, <1>4 DEF KnownStage
<1>8. /\ db_line' \in Seq(Nat \X Dbos) /\ IsInjective(db_line')
      /\ insert_job' \in SUBSET Dbos /\ insert_active' \in Nat
      /\ settled' = settled \cup {chunk}
      /\ InsertStage' /\ KnownStage'
    BY <1>0, <1>1, <1>3, <1>4, <1>5, <1>6, <1>7, InsertStarts
<1>9. settled' \in SUBSET Nat
    BY <1>4, <1>8 DEF TypeOK
<1>10. TypeOK' /\ Lines' /\ OrderStage'
    BY <1>0, <1>4, <1>8, <1>9 DEF TypeOK, Lines, OrderStage
<1>11. ReaderStage' /\ SignalStage'
    BY <1>0, <1>6, ReaderKept, SignalKept
<1>12. PlaceStage'
  <2>1. InHand' = InHand /\ Parsing' = Parsing /\ InMapping' = InMapping
      BY <1>0 DEF InHand, Parsing, InMapping
  <2> QED
      BY <1>0, <1>4, <1>5, <1>8, <2>1 DEF PlaceStage
<1> QED
    BY <1>8, <1>10, <1>11, <1>12

(* insertDoneSlot: an object has no insert any more, and one less is counted. *)
LEMMA InsertDoneKeeps ==
    ASSUME Stages, InsertDone
    PROVE  Stages'
<1> USE DEF Stages
<1>0. /\ UNCHANGED <<runs, content, tested, others, reader, read, objects, frames, read_job,
                     parse_job, map_jobs, pool, mapped, db_line, variable_sets, settled, stored,
                     aborted>>
      /\ CheckAllDone
    BY DEF InsertDone, runVars, readerVars, jobVars
<1>1. PICK c0 \in DOMAIN content, d0 \in Dbos :
         /\ NextEvent(<<"insertDone", c0, d0>>)
         /\ insert_job' = insert_job \ {d0}
         /\ insert_active' = LessInsertActive(insert_active)
    BY DEF InsertDone
<1>2. c0 \in Nat
    BY <1>1 DEF TypeOK
<1>3. PICK e : e = <<"insertDone", c0, d0>>
    OBVIOUS
<1>4. /\ e \in Posted /\ events' \in Seq(Events) /\ IsInjective(events')
      /\ Posted' = Posted \ {e}
      /\ Sorted(events', map_jobs) /\ Precedes(events', pool, map_jobs)
    BY <1>1, <1>3, EventTaken
<1>5. /\ \A s \in Signals : s \in Posted' <=> s \in Posted
      /\ <<"read">> \in Posted' <=> <<"read">> \in Posted
      /\ <<"readDone">> \in Posted' <=> <<"readDone">> \in Posted
    BY <1>3, <1>4, EventsDiffer
<1>6. Inserting(c0, d0) /\ d0 \in insert_job
    BY <1>2, <1>3, <1>4 DEF Inserting, InsertStage
<1>7. others = 0 /\ insert_active = Cardinality(insert_job) /\ insert_job \in SUBSET Dbos
    BY <1>6 DEF InsertStage, TypeOK
<1>8. /\ insert_job' \in SUBSET Dbos /\ insert_active' \in Nat
      /\ insert_active' = Cardinality(insert_job')
  <2>1. /\ IsFiniteSet(insert_job) /\ Cardinality(insert_job) \in Nat
        /\ Cardinality(insert_job) < Modulus
      BY <1>7, ObjectsAreCounted
  <2>2. insert_job' \in SUBSET Dbos
      BY <1>1, <1>7
  <2>3. Cardinality(insert_job \ {d0}) = Cardinality(insert_job) - 1
      BY <1>6, <2>1, FS_RemoveElement
  <2>4. Cardinality(insert_job \ {d0}) \in Nat
      BY <1>7, ObjectsAreCounted
  <2>5. PICK n \in Nat : n = Cardinality(insert_job \ {d0})
      BY <2>4
  <2>6. insert_active - 1 = n /\ n < Modulus
      BY <1>7, <2>1, <2>3, <2>5, ModulusAssumption
  <2>7. insert_active' = n
      BY <1>1, <2>6, SizeNumbers DEF LessInsertActive
  <2> QED
      BY <1>1, <2>2, <2>5, <2>7
<1>9. /\ test' \in BOOLEAN /\ all_done' \in BOOLEAN /\ (test' => test)
      /\ (all_done' => all_done \/ ~read_job')
    BY <1>0, CheckSetsFlags
<1>10. TypeOK' /\ Lines' /\ OrderStage'
    BY <1>0, <1>4, <1>8, <1>9 DEF TypeOK, Lines, OrderStage
<1>11. ReaderStage' /\ SignalStage' /\ PlaceStage' /\ KnownStage'
    BY <1>0, <1>5, <1>9, ReaderKept, SignalKept, PlaceKept, KnownKept DEF Waiting
<1>12. ASSUME NEW c \in Nat, NEW d \in Dbos
       PROVE  /\ <<c, d>> \in Queued' <=> <<c, d>> \in Queued
              /\ <<"insertDone", c, d>> \in Posted' <=>
                    <<"insertDone", c, d>> \in Posted /\ ~(c = c0 /\ d = d0)
              /\ Inserting(c, d)' <=> Inserting(c, d) /\ d # d0
  <2>1. <<c, d>> \in Queued' <=> <<c, d>> \in Queued
      BY <1>0 DEF Queued
  <2>2. <<"insertDone", c, d>> \in Posted' <=>
           <<"insertDone", c, d>> \in Posted /\ ~(c = c0 /\ d = d0)
      BY <1>3, <1>4, EventsDiffer
  <2>3. Inserting(c, d) /\ d = d0 => c = c0
      BY <1>2, <1>6 DEF InsertStage
  <2>4. <<c0, d0>> \notin Queued
      BY <1>2, <1>3, <1>4 DEF InsertStage
  <2> QED
      BY <2>1, <2>2, <2>3, <2>4 DEF Inserting
<1>13. InsertStage'
  <2>1. \A d \in Dbos : d \in insert_job' <=> \E c \in Nat : Inserting(c, d)'
      BY <1>1, <1>12 DEF InsertStage
  <2>2. others' = 0 /\ others' <= MaxOthers /\ aborted' # "!insert_job_"
      BY <1>0, <1>7 DEF InsertStage
  <2> QED
      BY <1>0, <1>8, <1>12, <2>1, <2>2 DEF InsertStage
<1> QED
    BY <1>10, <1>11, <1>13

(* An insert of another import is counted down too. *)
LEMMA OtherInsertDoneKeeps ==
    ASSUME Stages, OtherInsertDone
    PROVE  Stages'
<1> USE DEF Stages
<1>0. /\ UNCHANGED <<all_done, test, runs, content, tested, reader, read, objects, events,
                     frames, read_job, parse_job, map_jobs, pool, mapped, db_line,
                     variable_sets, insert_job, settled, stored, aborted>>
      /\ others < MaxOthers /\ others' = others + 1 /\ events = <<>> /\ db_line = <<>>
      /\ insert_active' = LessInsertActive(insert_active)
    BY DEF OtherInsertDone, Rest, doneVars, readerVars, jobVars
<1>1. Posted = {} /\ Queued = {} /\ Posted' = Posted /\ Queued' = Queued
    BY <1>0 DEF Posted, Queued, ToSet
<1>2. insert_job = {}
    BY <1>1 DEF InsertStage, Inserting, TypeOK
<1>3. /\ Modulus \in Nat /\ MaxOthers \in Nat /\ MaxOthers < Modulus
      /\ others \in Nat /\ others' \in Nat /\ others' # 0 /\ others' <= MaxOthers
  <2>1. Cardinality(Dbos) \in Nat
      BY DbosAssumption, FS_CardinalityType
  <2>2. others \in Nat
      BY DEF TypeOK
  <2> QED
      BY <1>0, <2>1, <2>2, ModulusAssumption
<1>4. insert_active' = Modulus - others' /\ insert_active' \in Nat
  <2>1. CASE others = 0
    <3>1. insert_active = 0
        BY <1>2, <2>1, FS_EmptySet DEF InsertStage
    <3>2. insert_active' = (0 - 1) % Modulus
        BY <1>0, <3>1 DEF LessInsertActive
    <3>3. (0 - 1) % Modulus = Modulus - 1
        BY <1>3, SizeNumbers
    <3> QED
        BY <1>0, <1>3, <2>1, <3>2, <3>3
  <2>2. CASE others # 0
    <3>1. insert_active = Modulus - others
        BY <2>2 DEF InsertStage
    <3>2. PICK n \in Nat : n = Modulus - (others + 1)
        BY <1>0, <1>3
    <3>3. insert_active - 1 = n /\ n < Modulus
        BY <1>0, <1>3, <3>1, <3>2
    <3>4. insert_active' = n
        BY <1>0, <3>3, SizeNumbers DEF LessInsertActive
    <3> QED
        BY <1>0, <3>2, <3>4
  <2> QED
      BY <2>1, <2>2
<1>5. TypeOK' /\ Lines' /\ OrderStage'
    BY <1>0, <1>3, <1>4 DEF TypeOK, Lines, OrderStage
<1>6. ReaderStage' /\ SignalStage' /\ PlaceStage' /\ KnownStage'
    BY <1>0, <1>1, ReaderKept, SignalKept, PlaceKept, KnownKept DEF Waiting
<1>7. InsertStage'
  <2>1. \A c, d : Inserting(c, d)' <=> Inserting(c, d)
      BY <1>1 DEF Inserting
  <2> QED
      BY <1>0, <1>1, <1>2, <1>3, <1>4, <2>1 DEF InsertStage
<1> QED
    BY <1>5, <1>6, <1>7

(* run() adds the chunks of a file to those there were. *)
LEMMA RunKeeps ==
    ASSUME Stages, Run
    PROVE  Stages'
<1> USE DEF Stages
<1>0. /\ UNCHANGED <<others, events, frames, parse_job, map_jobs, pool, db_line, variable_sets,
                     insert_job, insert_active, settled, stored, aborted>>
      /\ all_done /\ reader' = "read" /\ read' = Len(content) /\ objects' = None
      /\ read_job' = TRUE /\ mapped' = FALSE /\ all_done' = FALSE
    BY DEF Run, insertVars
<1>1. PICK f \in Files, t \in BOOLEAN :
         test' = t /\ runs' = Append(runs, t) /\ content' = content \o Mapping(f)
    BY DEF Run
<1>2. /\ content \in Seq(SUBSET Dbos) /\ Mapping(f) \in Seq(SUBSET Dbos)
      /\ content' \in Seq(SUBSET Dbos) /\ Len(content) \in Nat /\ Len(content') \in Nat
      /\ Len(content) <= Len(content')
      /\ \A c \in 1 .. Len(content) : content'[c] = content[c]
    BY <1>1, MappingType DEF TypeOK
<1>3. /\ reader = "over" /\ read' = read /\ objects = None
      /\ <<"readDone">> \notin Posted /\ <<"read">> \notin Posted
    BY <1>0 DEF ReaderStage, TypeOK
<1>4. Posted' = Posted /\ Waiting' = Waiting /\ Held' = Held
    BY <1>0 DEF Posted, Waiting, Held
<1>5. runs' \in Seq(BOOLEAN) /\ (TRUE \notin ToSet(runs') => t = FALSE /\ TRUE \notin ToSet(runs))
  <2>1. runs \in Seq(BOOLEAN) /\ t \in BOOLEAN
      BY DEF TypeOK
  <2>2. runs' \in Seq(BOOLEAN)
      BY <1>1, <2>1
  <2>3. ASSUME TRUE \notin ToSet(runs')
        PROVE  t = FALSE /\ TRUE \notin ToSet(runs)
    <3>1. /\ Len(runs) \in Nat /\ DOMAIN runs = 1 .. Len(runs)
          /\ DOMAIN runs' = 1 .. Len(runs) + 1
          /\ \A i \in 1 .. Len(runs) : runs'[i] = runs[i]
          /\ runs'[Len(runs) + 1] = t
        BY <1>1, <2>1
    <3>2. \A i \in DOMAIN runs' : runs'[i] # TRUE
        BY <2>3 DEF ToSet
    <3>3. Len(runs) + 1 \in DOMAIN runs' /\ \A i \in DOMAIN runs : i \in DOMAIN runs'
        BY <3>1
    <3>4. t # TRUE
        BY <3>1, <3>2, <3>3, Zenon
    <3>5. \A i \in DOMAIN runs : runs[i] # TRUE
        BY <3>1, <3>2, <3>3, Zenon
    <3> QED
        BY <2>1, <3>4, <3>5 DEF ToSet
  <2> QED
      BY <2>2, <2>3
<1>6. TypeOK' /\ Lines' /\ OrderStage'
    BY <1>0, <1>1, <1>2, <1>5 DEF TypeOK, Lines, OrderStage
<1>7. ReaderStage'
    BY <1>0, <1>2, <1>3, <1>4 DEF ReaderStage
<1>8. SignalStage' /\ PlaceStage'
    BY <1>0, <1>3, <1>4, SignalKept, PlaceKept
<1>9. InsertStage'
    BY <1>0, <1>3, <1>4, InsertKept DEF InsertStage
<1>10. KnownStage'
  <2>1. Queued' = Queued
      BY <1>0 DEF Queued
  <2>2. Chunks = 1 .. Len(content) /\ Chunks' = 1 .. Len(content')
      BY <1>2 DEF Chunks
  <2>3. Chunks \subseteq Chunks' /\ \A c \in Chunks : content'[c] = content[c]
      BY <1>2, <2>2
  <2>4. Known \subseteq Known'
    <3> SUFFICES ASSUME NEW x \in Known PROVE x \in Known'
        OBVIOUS
    <3>1. x \in Chunks \X variable_sets /\ x[2] \in content[x[1]]
        BY DEF Known
    <3>2. x[1] \in Chunks /\ x \in Chunks' \X variable_sets'
        BY <1>0, <2>3, <3>1
    <3>3. x[2] \in content'[x[1]]
        BY <2>3, <3>1, <3>2
    <3> QED
        BY <3>2, <3>3 DEF Known, Chunks
  <2>5. stored' \cup Queued' \subseteq Known'
      BY <1>0, <2>1, <2>4 DEF KnownStage
  <2>6. settled \cup Waiting \subseteq Chunks
    <3>1. Waiting \subseteq Held
        BY DEF Waiting, Held
    <3>2. 1 .. read \subseteq Chunks
        BY <1>2, <2>2 DEF TypeOK, ReaderStage
    <3> QED
        BY <3>1, <3>2 DEF PlaceStage
  <2>7. SUFFICES ASSUME TRUE \notin ToSet(runs')
        PROVE  /\ ~test'
               /\ \A x \in settled', d \in variable_sets' :
                     d \in content'[x] => <<x, d>> \in stored' \cup Queued'
               /\ \A x \in settled' \cup Waiting' : content'[x] # {} => variable_sets' # {}
      BY <2>5 DEF KnownStage
  <2>8. ~test' /\ TRUE \notin ToSet(runs)
      BY <1>1, <1>5, <2>7
  <2>9. /\ \A x \in settled, d \in variable_sets :
              d \in content[x] => <<x, d>> \in stored \cup Queued
        /\ \A x \in settled \cup Waiting : content[x] # {} => variable_sets # {}
      BY <2>8 DEF KnownStage
  <2>10. \A x \in settled', d \in variable_sets' :
            d \in content'[x] => <<x, d>> \in stored' \cup Queued'
      BY <1>0, <2>1, <2>3, <2>6, <2>9
  <2>11. \A x \in settled' \cup Waiting' : content'[x] # {} => variable_sets' # {}
      BY <1>0, <1>4, <2>3, <2>6, <2>9
  <2> QED
      BY <2>8, <2>10, <2>11
<1> QED
    BY <1>6, <1>7, <1>8, <1>9, <1>10

-----------------------------------------------------------------------------
(* The task at its start is consistent ... *)
LEMMA StartIsConsistent ==
    ASSUME Init
    PROVE  Stages
<1>0. /\ events = <<>> /\ frames = <<>> /\ pool = <<>> /\ db_line = <<>> /\ map_jobs = <<>>
      /\ objects = None /\ parse_job = None /\ read = 0 /\ reader = "over" /\ content = <<>>
      /\ ~read_job /\ settled = {} /\ stored = {} /\ insert_job = {} /\ variable_sets = {}
      /\ insert_active = 0 /\ others = 0 /\ aborted = "no" /\ runs = <<>> /\ test = FALSE
      /\ mapped = FALSE /\ all_done = TRUE /\ read_job = FALSE
    BY DEF Init
<1>1. /\ Posted = {} /\ Pooled = {} /\ Queued = {} /\ Held = {} /\ InHand = {} /\ Parsing = {}
      /\ InMapping = {} /\ Waiting = {} /\ ToSet(map_jobs) = {}
    BY <1>0 DEF Posted, Pooled, Queued, Held, InHand, Parsing, InMapping, Waiting, ToSet
<1>2. MaxOthers \in Nat
    BY ModulusAssumption
<1>3. TypeOK
  <2>1. \A S : <<>> \in Seq(S)
      OBVIOUS
  <2>2. /\ runs \in Seq(BOOLEAN) /\ content \in Seq(SUBSET Dbos) /\ events \in Seq(Events)
        /\ frames \in Seq(FrameSet) /\ map_jobs \in Seq(Nat) /\ pool \in Seq(Signals)
        /\ db_line \in Seq(Nat \X Dbos)
      BY <1>0, <2>1, Zenon
  <2> QED
      BY <1>0, <2>2 DEF TypeOK
<1>4. Lines /\ OrderStage
    BY <1>0 DEF Lines, OrderStage, IsInjective, Sorted, Precedes
<1>5. ReaderStage
  <2>1. Len(content) = 0
      BY <1>0
  <2> QED
      BY <1>0, <1>1, <2>1 DEF ReaderStage
<1>6. SignalStage
    BY <1>0, <1>1, NoneAssumption DEF SignalStage
<1>7. PlaceStage
    BY <1>0, <1>1 DEF PlaceStage
<1>8. InsertStage
    BY <1>0, <1>1, <1>2, FS_EmptySet DEF InsertStage, Inserting
<1>9. KnownStage
    BY <1>0, <1>1 DEF KnownStage
<1> QED
    BY <1>3, <1>4, <1>5, <1>6, <1>7, <1>8, <1>9 DEF Stages

(* ... and a step that changes nothing leaves it so. *)
LEMMA StutterKeeps ==
    ASSUME Stages, UNCHANGED vars
    PROVE  Stages'
<1> USE DEF Stages
<1>0. UNCHANGED <<all_done, test, runs, content, tested, others, reader, read, objects, events,
                  frames, read_job, parse_job, map_jobs, pool, mapped, db_line, variable_sets,
                  insert_job, insert_active, settled, stored, aborted>>
    BY DEF vars, doneVars, runVars, readerVars, jobVars, insertVars
<1>1. Posted' = Posted /\ Waiting' = Waiting
    BY <1>0 DEF Posted, Waiting
<1>2. TypeOK' /\ Lines' /\ OrderStage'
    BY <1>0 DEF TypeOK, Lines, OrderStage
<1>3. ReaderStage' /\ SignalStage' /\ PlaceStage' /\ KnownStage'
    BY <1>0, <1>1, ReaderKept, SignalKept, PlaceKept, KnownKept
<1>4. InsertStage'
    BY <1>0, <1>1, InsertKept DEF InsertStage
<1> QED
    BY <1>2, <1>3, <1>4

(* Every step keeps the invariant. *)
LEMMA StepKeeps ==
    ASSUME Stages, [Next]_vars
    PROVE  Stages'
<1>1. CASE Next
    BY <1>1, ReadKeeps, PoolEndKeeps, InsertEndKeeps, AddReadJSONKeeps, ReadJSONFileDoneKeeps,
       ParseJSONDoneKeeps, MapJSONDoneKeeps, InsertDoneKeeps, ContinueAddReadJSONKeeps,
       ContinueInsertDataKeeps, WaitOnKeeps, RunKeeps, OtherInsertDoneKeeps
       DEF Next, Slots, Frames
<1>2. CASE UNCHANGED vars
    BY <1>2, StutterKeeps
<1> QED
    BY <1>1, <1>2

(* The inductive invariant: the types, where the reader is, what is posted *)
(* and in which order, the places of the chunks, the inserts and the rows. *)
THEOREM ImportIsConsistent == Spec => []Stages
<1>1. Init => Stages
    BY StartIsConsistent
<1>2. Stages /\ [Next]_vars => Stages'
    BY StepKeeps
<1> QED
    BY <1>1, <1>2, PTL DEF Spec

-----------------------------------------------------------------------------
(* A set without two members has one or none. *)
LEMMA OneOrNone ==
    ASSUME NEW S, \A x, y \in S : x = y
    PROVE  /\ S = {} => Cardinality(S) = 0
           /\ S # {} => Cardinality(S) = 1
<1>1. ASSUME S # {} PROVE Cardinality(S) = 1
  <2>1. PICK x \in S : TRUE
      BY <1>1
  <2>2. S = {x}
      BY <2>1
  <2> QED
      BY <2>2, FS_Singleton
<1> QED
    BY <1>1, FS_EmptySet

(* The places as sets, and the numbers of them. *)
LEMMA PlacesAreCounted ==
    ASSUME Stages
    PROVE  EachChunkOnce
<1> SUFFICES ASSUME NEW c \in 1 .. read
             PROVE  Cardinality(InFrame(c)) + Cardinality(InMapJobs(c))
                    + Cardinality({c} \cap settled)
                    + Cardinality({x \in {"objects"} : objects = c})
                    + Cardinality({x \in {"parse"} : parse_job = c}) = 1
    BY DEF EachChunkOnce
<1> USE DEF Stages
<1> DEFINE a == InFrame(c)
           b == InMapJobs(c)
           s == {c} \cap settled
           o == {x \in {"objects"} : objects = c}
           p == {x \in {"parse"} : parse_job = c}
<1>1. c # None
    BY NoneAssumption DEF TypeOK
<1>2. /\ \A x, y \in a : x = y
      /\ a # {} <=> c \in Held
    BY DEF InFrame, Held, Lines
<1>3. /\ \A x, y \in b : x = y
      /\ b # {} <=> c \in InMapping
    BY DEF InMapJobs, InMapping, Lines, IsInjective, ToSet
<1>4. /\ \A x, y \in s : x = y
      /\ s # {} <=> c \in settled
    OBVIOUS
<1>5. /\ \A x, y \in o : x = y
      /\ o # {} <=> c \in InHand
    BY <1>1 DEF InHand
<1>6. /\ \A x, y \in p : x = y
      /\ p # {} <=> c \in Parsing
    BY <1>1 DEF Parsing
<1> HIDE DEF a, b, s, o, p
<1>7. /\ c \in Held => Cardinality(a) = 1
      /\ c \notin Held => Cardinality(a) = 0
      /\ c \in InMapping => Cardinality(b) = 1
      /\ c \notin InMapping => Cardinality(b) = 0
    BY <1>2, <1>3, OneOrNone
<1>8. /\ c \in settled => Cardinality(s) = 1
      /\ c \notin settled => Cardinality(s) = 0
      /\ c \in InHand => Cardinality(o) = 1
      /\ c \notin InHand => Cardinality(o) = 0
      /\ c \in Parsing => Cardinality(p) = 1
      /\ c \notin Parsing => Cardinality(p) = 0
    BY <1>4, <1>5, <1>6, OneOrNone
<1>9. /\ c \in Held \/ c \in InHand \/ c \in Parsing \/ c \in InMapping \/ c \in settled
      /\ c \in Held => c \notin InHand /\ c \notin Parsing /\ c \notin InMapping /\ c \notin settled
      /\ c \in InHand => c \notin Parsing /\ c \notin InMapping /\ c \notin settled
      /\ c \in Parsing => c \notin InMapping /\ c \notin settled
      /\ c \in InMapping => c \notin settled
    BY DEF PlaceStage
<1>10. Cardinality(a) + Cardinality(b) + Cardinality(s) + Cardinality(o) + Cardinality(p) = 1
    BY <1>7, <1>8, <1>9
<1> QED
    BY <1>10 DEF a, b, s, o, p

(* No chunk is lost and none is handled twice: each chunk read so far is   *)
(* to be moved out, held by a slot that waits, with the parse job, with a  *)
(* mapping job, or was dealt with (addReadJSONSlot, parseJSONDoneSlot,     *)
(* mapJSONDoneSlot and insertData), in whatever order slots wait.          *)
THEOREM ChunksMoveOnce == Spec => []EachChunkOnce
<1>1. Stages => EachChunkOnce
    BY PlacesAreCounted
<1> QED
    BY <1>1, ImportIsConsistent, PTL

(* The count of the inserts follows from the invariant. *)
LEMMA InsertsAreCounted ==
    ASSUME Stages
    PROVE  InsertsCounted
<1> USE DEF Stages
<1>1. /\ content \in Seq(SUBSET Dbos) /\ Len(content) \in Nat /\ Chunks = 1 .. Len(content)
      /\ read \in Nat /\ read <= Len(content)
    BY DEF TypeOK, ReaderStage, Chunks
<1>2. 1 .. read \subseteq Chunks /\ Chunks \subseteq Nat
    BY <1>1
<1>3. insert_active = (Cardinality(insert_job) - others) % Modulus
  <2>1. Cardinality(insert_job) \in Nat /\ Cardinality(insert_job) < Modulus
      BY ObjectsAreCounted DEF TypeOK
  <2>2. /\ others \in Nat /\ others <= MaxOthers /\ MaxOthers \in Nat /\ MaxOthers < Modulus
        /\ Modulus \in Nat
    <3>1. Cardinality(Dbos) \in Nat
        BY DbosAssumption, FS_CardinalityType
    <3> QED
        BY <3>1, ModulusAssumption DEF TypeOK, InsertStage
  <2>3. CASE others = 0
    <3>1. Cardinality(insert_job) - others = Cardinality(insert_job)
        BY <2>1, <2>3
    <3> QED
        BY <2>1, <2>3, <3>1, SizeNumbers DEF InsertStage
  <2>4. CASE others # 0
    <3>1. Cardinality(insert_job) = 0 /\ insert_active = Modulus - others
        BY <2>4, FS_EmptySet DEF InsertStage
    <3>2. 0 < others /\ others <= Modulus
        BY <2>2, <2>4
    <3> QED
        BY <2>2, <3>1, <3>2, SizeNumbers
  <2> QED
      BY <2>3, <2>4
<1>4. \A d \in Dbos : d \in insert_job <=> \E c \in Chunks : Inserting(c, d)
    BY <1>2 DEF InsertStage
<1> QED
    BY <1>3, <1>4 DEF InsertsCounted, InsertStage, Inserting, Queued, Posted

(* The assertion of DBObject::insertData (dbobject.cpp:849) never fails,   *)
(* and insert_active_ is the number of the objects with an insert, less    *)
(* the inserts of other imports insertDoneSlot was told of.                *)
THEOREM InsertsAreKnown == Spec => []InsertsCounted
<1>1. Stages => InsertsCounted
    BY InsertsAreCounted
<1> QED
    BY <1>1, ImportIsConsistent, PTL

(* Where nothing moves every chunk was dealt with. *)
LEMMA RestIsSettled ==
    ASSUME Stages
    PROVE  RestStoresKnown
<1> SUFFICES ASSUME Rest
             PROVE  /\ settled = Chunks
                    /\ stored \subseteq Known
                    /\ TRUE \notin ToSet(runs) => stored = Known
    BY DEF RestStoresKnown, Known
<1> USE DEF Stages
<1>1. /\ reader = "over" /\ events = <<>> /\ frames = <<>> /\ pool = <<>> /\ db_line = <<>>
    BY DEF Rest
<1>2. Posted = {} /\ Pooled = {} /\ Queued = {} /\ Held = {}
    BY <1>1 DEF Posted, Pooled, Queued, Held, ToSet
<1>3. objects = None /\ InHand = {}
    BY <1>1, <1>2 DEF ReaderStage, InHand
<1>4. parse_job = None /\ Parsing = {}
    BY <1>2 DEF SignalStage, Parsing, TypeOK
<1>5. InMapping = {}
  <2>1. InMapping \subseteq Nat
    <3>1. map_jobs \in Seq(Nat)
        BY DEF TypeOK
    <3> QED
        BY <3>1 DEF InMapping, ToSet
  <2> QED
      BY <1>2, <2>1 DEF SignalStage, InMapping
<1>6. read = Len(content) /\ Chunks = 1 .. read
    BY <1>1 DEF ReaderStage, TypeOK, Chunks
<1>7. settled = Chunks
    BY <1>2, <1>3, <1>4, <1>5, <1>6 DEF PlaceStage
<1>8. stored \subseteq Known
    BY <1>2 DEF KnownStage
<1>9. ASSUME TRUE \notin ToSet(runs), NEW x \in Known
      PROVE  x \in stored
  <2>1. x \in Chunks \X variable_sets /\ x[2] \in content[x[1]]
      BY <1>9 DEF Known
  <2>2. PICK c \in Chunks, d \in variable_sets : x = <<c, d>>
      BY <2>1
  <2>3. d \in content[c] /\ c \in settled
      BY <1>7, <2>1, <2>2
  <2> QED
      BY <1>2, <1>9, <2>2, <2>3 DEF KnownStage
<1> QED
    BY <1>7, <1>8, <1>9

(* When nothing moves any more the task has dealt with every chunk, and    *)
(* the database has rows of objects with a variable set only, and all of   *)
(* these if no run was a test, however early checkAllDone found a run done *)
(* and the next one was started.                                           *)
THEOREM RestHasAllKnown == Spec => []RestStoresKnown
<1>1. Stages => RestStoresKnown
    BY RestIsSettled
<1> QED
    BY <1>1, ImportIsConsistent, PTL

(* Only checkAllDone finds all done, and it changes nothing of the file. *)
LEMMA EndIsFound ==
    ASSUME Stages, Next, ~all_done, all_done'
    PROVE  /\ ~read_job' /\ parse_job' = None /\ map_jobs' = <<>>
           /\ UNCHANGED <<reader, read, content>>
<1>1. CASE Read
    BY <1>1 DEF Read, ReadPart, ReadEmit, ReadGoOn, ReadEnd, doneVars
<1>2. CASE PoolEnd \/ InsertEnd
    BY <1>2 DEF PoolEnd, InsertEnd, doneVars
<1>3. CASE AddReadJSON \/ ReadJSONFileDone \/ ParseJSONDone
    BY <1>3 DEF AddReadJSON, ReadJSONFileDone, ParseJSONDone, doneVars
<1>4. CASE MapJSONDone
  <2>1. CheckAllDone \/ UNCHANGED doneVars
      BY <1>4 DEF MapJSONDone
  <2>2. UNCHANGED <<reader, read, content>>
      BY <1>4 DEF MapJSONDone, runVars, readerVars
  <2> QED
      BY <2>1, <2>2 DEF CheckAllDone, doneVars
<1>5. CASE InsertDone
    BY <1>5 DEF InsertDone, CheckAllDone, doneVars, runVars, readerVars
<1>6. CASE Frames
    BY <1>6 DEF Frames, ContinueAddReadJSON, ContinueInsertData, WaitOn, doneVars
<1>7. CASE Run \/ OtherInsertDone
    BY <1>7 DEF Run, OtherInsertDone, doneVars
<1> QED
    BY <1>1, <1>2, <1>3, <1>4, <1>5, <1>6, <1>7 DEF Next, Slots

(* What that says of the chunks. *)
LEMMA EndLeavesHeld ==
    ASSUME Stages, [Next]_vars
    PROVE  [~all_done /\ all_done' =>
               /\ reader = "over" /\ read = Len(content)
               /\ \A c \in Chunks : c \in settled' \/ InFrame(c)' # {}]_vars
<1> SUFFICES ASSUME Next, ~all_done, all_done'
             PROVE  /\ reader = "over" /\ read = Len(content)
                    /\ \A c \in Chunks : c \in settled' \/ InFrame(c)' # {}
    OBVIOUS
<1>1. /\ ~read_job' /\ parse_job' = None /\ map_jobs' = <<>>
      /\ UNCHANGED <<reader, read, content>>
    BY EndIsFound
<1>2. Stages'
    BY StepKeeps
<1>3. reader' = "over" /\ read' = Len(content')
    BY <1>1, <1>2 DEF Stages, ReaderStage
<1>4. InHand' = {} /\ Parsing' = {} /\ InMapping' = {}
    BY <1>1, <1>2, <1>3 DEF Stages, ReaderStage, InHand, Parsing, InMapping, ToSet
<1>5. Held' \cup settled' = 1 .. read'
    BY <1>2, <1>4 DEF Stages, PlaceStage
<1>6. Chunks = 1 .. read'
    BY <1>1, <1>3 DEF Stages, TypeOK, Chunks
<1>7. ASSUME NEW c \in Chunks, c \notin settled'
      PROVE  InFrame(c)' # {}
  <2>1. c \in Held'
      BY <1>5, <1>6, <1>7
  <2>2. PICK i \in DOMAIN frames' : frames'[i].chunk = c
      BY <2>1 DEF Held
  <2> QED
      BY <2>2 DEF InFrame
<1> QED
    BY <1>1, <1>3, <1>7

(* When checkAllDone finds all done the file is read, and the only chunks  *)
(* not dealt with are those of slots that wait.                            *)
THEOREM EndMissesFramesOnly == Spec => EndLeavesFramesOnly
<1>1. Stages /\ [Next]_vars =>
          [~all_done /\ all_done' =>
              /\ reader = "over" /\ read = Len(content)
              /\ \A c \in Chunks : c \in settled' \/ InFrame(c)' # {}]_vars
    BY EndLeavesHeld
<1> QED
    BY <1>1, ImportIsConsistent, PTL DEF Spec, EndLeavesFramesOnly

(* Every file whose objects are separated is cut into these objects: the   *)
(* parts together are the objects in their order, only the last part may   *)
(* be short, and at the end nothing is open and nothing left over, so that *)
(* the assertions of readFilePart hold; for any characters and any size of *)
(* a part.  A run checks it of short files.                                *)
THEOREM FilesAreCut == Spec => []PartsAreObjects
<1>1. ASSUME NEW text \in Texts, NEW number \in 1 .. 3
      PROVE  CutsAtObjects({text}, {number})
  <2>1. text \in Seq(ToSet(text)) /\ number \in Nat \ {0}
      BY TextsAssumption
  <2> QED
      BY <2>1, FileIsCut
<1>2. CutsAtObjects(Texts, 1 .. 3)
    BY <1>1 DEF CutsAtObjects
<1>3. PartsAreObjects
    BY <1>2 DEF PartsAreObjects
<1> QED
    BY <1>3, PTL

-----------------------------------------------------------------------------
(* The import implements ChunkPipeline.                                    *)

(* A chunk more is held by the slots of the name of a frame that is pushed. *)
LEMMA HoldersPushed ==
    ASSUME frames \in Seq(FrameSet), NEW slot, NEW chunk, Frame(slot, chunk) \in FrameSet,
           frames' = <<Frame(slot, chunk)>> \o frames, NEW t
    PROVE  HeldBy(t)' = IF t = slot THEN HeldBy(t) \cup {chunk} ELSE HeldBy(t)
<1>1. /\ DOMAIN frames' = 1 .. Len(frames) + 1
      /\ frames'[1].slot = slot /\ frames'[1].chunk = chunk
      /\ \A i \in 2 .. Len(frames) + 1 : frames'[i] = frames[i - 1]
    BY PutOnTop DEF Frame
<1>2. DOMAIN frames = 1 .. Len(frames) /\ Len(frames) \in Nat
    OBVIOUS
<1>3. ASSUME NEW x
      PROVE  x \in HeldBy(t)' <=> x \in HeldBy(t) \/ (t = slot /\ x = chunk)
  <2>1. ASSUME x \in HeldBy(t)'
        PROVE  x \in HeldBy(t) \/ (t = slot /\ x = chunk)
    <3>1. PICK i \in 1 .. Len(frames) + 1 : frames'[i].slot = t /\ frames'[i].chunk = x
        BY <1>1, <2>1 DEF HeldBy
    <3>2. CASE i # 1
      <4>1. i - 1 \in DOMAIN frames /\ frames'[i] = frames[i - 1]
          BY <1>1, <1>2, <3>2
      <4> QED
          BY <3>1, <4>1 DEF HeldBy
    <3> QED
        BY <1>1, <3>1, <3>2
  <2>2. ASSUME x \in HeldBy(t)
        PROVE  x \in HeldBy(t)'
    <3>1. PICK i \in 1 .. Len(frames) : frames[i].slot = t /\ frames[i].chunk = x
        BY <1>2, <2>2 DEF HeldBy
    <3>2. i + 1 \in 2 .. Len(frames) + 1 /\ (i + 1) - 1 = i
        BY <1>2
    <3>3. i + 1 \in DOMAIN frames' /\ frames'[i + 1] = frames[i]
        BY <1>1, <1>2, <3>2
    <3> QED
        BY <3>1, <3>3 DEF HeldBy
  <2>3. t = slot => chunk \in HeldBy(t)'
    <3>1. 1 \in DOMAIN frames'
        BY <1>1, <1>2
    <3> QED
        BY <1>1, <3>1 DEF HeldBy
  <2> QED
      BY <2>1, <2>2, <2>3
<1> QED
    BY <1>3

(* One less is, of the innermost frame when it is popped. *)
LEMMA HoldersPopped ==
    ASSUME Lines, frames \in Seq(FrameSet), frames # <<>>, frames' = Tail(frames), NEW t
    PROVE  /\ HeldBy(t)' = IF t = Head(frames).slot THEN HeldBy(t) \ {Head(frames).chunk}
                           ELSE HeldBy(t)
           /\ t = Head(frames).slot => Head(frames).chunk \in HeldBy(t)
<1>1. Len(frames) \in Nat \ {0} /\ DOMAIN frames = 1 .. Len(frames) /\ Head(frames) = frames[1]
    OBVIOUS
<1>2. /\ DOMAIN frames' = 1 .. Len(frames) - 1
      /\ \A i \in 1 .. Len(frames) - 1 : frames'[i] = frames[i + 1] /\ i + 1 \in DOMAIN frames
    BY <1>1
<1>3. 1 \in DOMAIN frames
    BY <1>1
<1>4. ASSUME NEW x
      PROVE  x \in HeldBy(t)' <=>
                 x \in HeldBy(t) /\ ~(t = Head(frames).slot /\ x = Head(frames).chunk)
  <2>1. ASSUME x \in HeldBy(t)'
        PROVE  x \in HeldBy(t) /\ ~(t = Head(frames).slot /\ x = Head(frames).chunk)
    <3>1. PICK i \in 1 .. Len(frames) - 1 : frames'[i].slot = t /\ frames'[i].chunk = x
        BY <1>2, <2>1 DEF HeldBy
    <3>2. /\ i + 1 \in DOMAIN frames /\ i + 1 # 1
          /\ frames[i + 1].slot = t /\ frames[i + 1].chunk = x
        BY <1>1, <1>2, <3>1
    <3>3. x # frames[1].chunk
        BY <1>3, <3>2 DEF Lines
    <3> QED
        BY <1>1, <3>2, <3>3 DEF HeldBy
  <2>2. ASSUME x \in HeldBy(t), ~(t = Head(frames).slot /\ x = Head(frames).chunk)
        PROVE  x \in HeldBy(t)'
    <3>1. PICK i \in 1 .. Len(frames) : frames[i].slot = t /\ frames[i].chunk = x
        BY <1>1, <2>2 DEF HeldBy
    <3>2. i # 1
        BY <1>1, <2>2, <3>1
    <3>3. i - 1 \in 1 .. Len(frames) - 1 /\ (i - 1) + 1 = i
        BY <1>1, <3>2
    <3>4. i - 1 \in DOMAIN frames' /\ frames'[i - 1] = frames[i]
        BY <1>2, <3>3
    <3> QED
        BY <3>1, <3>4 DEF HeldBy
  <2> QED
      BY <2>1, <2>2
<1>5. t = Head(frames).slot => Head(frames).chunk \in HeldBy(t)
    BY <1>1, <1>3 DEF HeldBy
<1> QED
    BY <1>4, <1>5

(* The chunks the jobs work on: of the mapping jobs, then of the parse job. *)
WorkLine(jobs, parsing) == jobs \o (IF parsing = None THEN <<>> ELSE <<parsing>>)

(* A parse job adds its chunk at the end and becomes a mapping job, and    *)
(* the first mapping job goes, without a change of the order.              *)
LEMMA WorkLines ==
    ASSUME NEW jobs \in Seq(Nat), NEW c \in Nat
    PROVE  /\ WorkLine(jobs, c) = Append(WorkLine(jobs, None), c)
           /\ WorkLine(Append(jobs, c), None) = WorkLine(jobs, c)
           /\ jobs # <<>> => \A p \in {c, None} :
                  /\ WorkLine(jobs, p) # <<>>
                  /\ Head(WorkLine(jobs, p)) = Head(jobs)
                  /\ Tail(WorkLine(jobs, p)) = WorkLine(Tail(jobs), p)
<1>1. c # None
    BY NoneAssumption
<1>2. \A s \in Seq(Nat) : WorkLine(s, c) = Append(s, c)
    BY <1>1 DEF WorkLine
<1>3. \A s \in Seq(Nat) : WorkLine(s, None) = s
    BY DEF WorkLine
<1>4. Append(jobs, c) \in Seq(Nat)
    OBVIOUS
<1>5. ASSUME jobs # <<>>
      PROVE  /\ Append(jobs, c) # <<>> /\ Head(Append(jobs, c)) = Head(jobs)
             /\ Tail(Append(jobs, c)) = Append(Tail(jobs), c) /\ Tail(jobs) \in Seq(Nat)
    BY <1>5
<1> QED
    BY <1>2, <1>3, <1>4, <1>5

(* A step that touches none of what the pipeline is made of. *)
LEMMA PipelineUntouched ==
    ASSUME UNCHANGED <<read, objects, frames, map_jobs, parse_job, settled, insert_job, aborted>>
    PROVE  UNCHANGED Pipeline!pipeVars
<1>1. \A t : HeldBy(t)' = HeldBy(t)
    BY DEF HeldBy
<1> QED
    BY <1>1 DEF Pipeline!pipeVars

(* insertData behind its wait: the objects get the buffers of one chunk. *)
LEMMA InsertSettles ==
    ASSUME Stages, NEW chunk \in Chunks, insert_active = 0, Insert(chunk)
    PROVE  aborted' = aborted /\ Pipeline!Settled(chunk)
<1>1. insert_job = {}
    BY IdleMeansNone DEF Stages
<1>2. content[chunk] \in SUBSET Dbos
    BY DEF Stages, TypeOK, Chunks
<1>3. PICK dbos : dbos = content[chunk] \cap variable_sets'
    OBVIOUS
<1>4. dbos \cap insert_job = {} /\ insert_job \cup dbos = dbos /\ dbos \in SUBSET Dbos
    BY <1>1, <1>2, <1>3
<1>5. settled' = settled \cup {chunk} /\ insert_job' = dbos /\ aborted' = aborted
    BY <1>3, <1>4 DEF Insert
<1> QED
    BY <1>1, <1>4, <1>5 DEF Pipeline!Settled

(* The read job takes the next chunk from the file. *)
LEMMA ReadTakes ==
    ASSUME Stages, ReadEmit
    PROVE  Pipeline!Take
<1>1. objects = None /\ read \in Nat
    BY DEF ReadEmit, Stages, ReaderStage, TypeOK
<1>2. /\ read' = read + 1 /\ objects' = read + 1
      /\ UNCHANGED <<frames, map_jobs, parse_job, settled, insert_job, aborted>>
    BY DEF ReadEmit, jobVars, insertVars
<1>3. \A t : HeldBy(t)' = HeldBy(t)
    BY <1>2 DEF HeldBy
<1>4. ({objects} \ {None}) = {} /\ ({objects'} \ {None}) = {read + 1}
    BY <1>1, <1>2, NoneAssumption
<1> QED
    BY <1>2, <1>3, <1>4 DEF Pipeline!Take

(* addReadJSONSlot starts the parse job or lets the chunk wait. *)
LEMMA AddReadStarts ==
    ASSUME Stages, AddReadJSON
    PROVE  \/ UNCHANGED Pipeline!pipeVars
           \/ \E c \in HeldBy("addRead") \cup ({objects} \ {None}) : Pipeline!Start(c)
<1>1. objects \in Nat /\ objects # None
    BY EventTaken DEF AddReadJSON, Stages, ReaderStage, TypeOK
<1>2. UNCHANGED <<read, map_jobs, insert_job, settled, aborted>> /\ objects' = None
    BY DEF AddReadJSON, readerVars, insertVars
<1>3. objects \notin HeldBy("addRead")
    BY <1>1 DEF HeldBy, Held, InHand, Stages, PlaceStage
<1>4. map_jobs \in Seq(Nat)
    BY DEF Stages, TypeOK
<1>5. CASE parse_job = None /\ parse_job' = objects /\ UNCHANGED frames
  <2>1. \A t : HeldBy(t)' = HeldBy(t)
      BY <1>5 DEF HeldBy
  <2>2. HeldBy("addRead")' \cup ({objects'} \ {None})
            = (HeldBy("addRead") \cup ({objects} \ {None})) \ {objects}
      BY <1>1, <1>2, <1>3, <2>1
  <2>3. WorkLine(map_jobs', parse_job') = Append(WorkLine(map_jobs, parse_job), objects)
      BY <1>1, <1>2, <1>4, <1>5, WorkLines
  <2>4. Pipeline!Start(objects)
      BY <1>1, <1>2, <2>1, <2>2, <2>3 DEF Pipeline!Start, WorkLine
  <2> QED
      BY <1>1, <2>4
<1>6. CASE frames' = <<Frame("addRead", objects)>> \o frames /\ UNCHANGED parse_job
  <2>1. frames \in Seq(FrameSet) /\ Frame("addRead", objects) \in FrameSet
      BY <1>1 DEF Stages, TypeOK, FrameSet, Frame
  <2>2. /\ HeldBy("addRead")' = HeldBy("addRead") \cup {objects}
        /\ HeldBy("insertData")' = HeldBy("insertData")
      BY <1>6, <2>1, HoldersPushed
  <2>3. HeldBy("addRead")' \cup ({objects'} \ {None})
            = HeldBy("addRead") \cup ({objects} \ {None})
      BY <1>1, <1>2, <2>2
  <2> QED
      BY <1>2, <1>6, <2>2, <2>3 DEF Pipeline!pipeVars
<1> QED
    BY <1>5, <1>6 DEF AddReadJSON, StartParse

(* The parse job ends: its chunk stays at the end of those worked on. *)
LEMMA ParsedIsMapped ==
    ASSUME Stages, ParseJSONDone
    PROVE  UNCHANGED Pipeline!pipeVars
<1>1. PICK c \in DOMAIN content :
          /\ NextEvent(<<"parsed", c>>)
          /\ parse_job' = None /\ map_jobs' = Append(map_jobs, c)
          /\ UNCHANGED <<read, objects, frames, settled, insert_job, aborted>>
    BY DEF ParseJSONDone, readerVars, insertVars
<1>2. map_jobs \in Seq(Nat) /\ c \in Nat
    BY <1>1 DEF Stages, TypeOK
<1>3. parse_job = c
  <2>1. <<"parsed", c>> \in Posted
      BY <1>1, EventTaken
  <2> QED
      BY <1>2, <2>1 DEF Stages, SignalStage
<1>4. WorkLine(map_jobs', parse_job') = WorkLine(map_jobs, parse_job)
    BY <1>1, <1>2, <1>3, WorkLines
<1>5. \A t : HeldBy(t)' = HeldBy(t)
    BY <1>1 DEF HeldBy
<1> QED
    BY <1>1, <1>4, <1>5 DEF Pipeline!pipeVars, WorkLine

(* A slot that waited starts the parse job ... *)
LEMMA WaitingStarts ==
    ASSUME Stages, ContinueAddReadJSON
    PROVE  \E c \in HeldBy("addRead") \cup ({objects} \ {None}) : Pipeline!Start(c)
<1>1. PICK chunk : chunk = Head(frames).chunk
    OBVIOUS
<1>2. /\ frames # <<>> /\ frames' = Tail(frames) /\ Head(frames).slot = "addRead"
      /\ parse_job = None /\ parse_job' = chunk
      /\ UNCHANGED <<read, objects, map_jobs, settled, insert_job, aborted>>
    BY <1>1 DEF ContinueAddReadJSON, StartParse, readerVars, insertVars
<1>3. frames \in Seq(FrameSet) /\ map_jobs \in Seq(Nat)
    BY DEF Stages, TypeOK
<1>4. chunk \in Nat /\ chunk \in Held
    BY <1>1, <1>2, FramePopped DEF Stages
<1>5. /\ HeldBy("addRead")' = HeldBy("addRead") \ {chunk} /\ chunk \in HeldBy("addRead")
      /\ HeldBy("insertData")' = HeldBy("insertData")
    BY <1>1, <1>2, <1>3, HoldersPopped DEF Stages
<1>6. chunk # objects \/ objects = None
    BY <1>4 DEF InHand, Stages, PlaceStage
<1>7. chunk # None
    BY <1>4, NoneAssumption
<1>8. HeldBy("addRead")' \cup ({objects'} \ {None})
          = (HeldBy("addRead") \cup ({objects} \ {None})) \ {chunk}
    BY <1>2, <1>5, <1>6, <1>7
<1>9. WorkLine(map_jobs', parse_job') = Append(WorkLine(map_jobs, parse_job), chunk)
    BY <1>2, <1>3, <1>4, WorkLines
<1>10. Pipeline!Start(chunk)
    BY <1>2, <1>5, <1>8, <1>9 DEF Pipeline!Start, WorkLine
<1> QED
    BY <1>5, <1>10

(* ... or goes on to the insert. *)
LEMMA WaitingSettles ==
    ASSUME Stages, ContinueInsertData
    PROVE  \E c \in HeldBy("insertData") : Pipeline!GoOn(c)
<1>1. PICK chunk : chunk = Head(frames).chunk
    OBVIOUS
<1>2. /\ frames # <<>> /\ frames' = Tail(frames) /\ Head(frames).slot = "insertData"
      /\ insert_active = 0 /\ Insert(chunk)
      /\ UNCHANGED <<read, objects, map_jobs, parse_job>>
    BY <1>1 DEF ContinueInsertData, readerVars, jobVars
<1>3. frames \in Seq(FrameSet)
    BY DEF Stages, TypeOK
<1>4. chunk \in Nat /\ chunk \in Held
    BY <1>1, <1>2, FramePopped DEF Stages
<1>5. /\ HeldBy("insertData")' = HeldBy("insertData") \ {chunk} /\ chunk \in HeldBy("insertData")
      /\ HeldBy("addRead")' = HeldBy("addRead")
    BY <1>1, <1>2, <1>3, HoldersPopped DEF Stages
<1>6. chunk \in Chunks
  <2>1. chunk \in 1 .. read
      BY <1>4 DEF Stages, PlaceStage
  <2> QED
      BY <2>1 DEF Stages, TypeOK, ReaderStage, Chunks
<1>7. aborted' = aborted /\ Pipeline!Settled(chunk)
    BY <1>2, <1>6, InsertSettles
<1>8. Pipeline!GoOn(chunk)
    BY <1>2, <1>5, <1>7 DEF Pipeline!GoOn
<1> QED
    BY <1>5, <1>8

(* The end of the first mapping job settles its chunk or lets it wait for  *)
(* the inserts.                                                            *)
LEMMA MappedLeaves ==
    ASSUME Stages, MapJSONDone
    PROVE  Pipeline!Leave
<1>1. PICK c \in DOMAIN content :
         /\ NextEvent(<<"mapped", c>>)
         /\ map_jobs' = Tail(map_jobs)
         /\ UNCHANGED <<read, objects, parse_job>>
         /\ \/ /\ settled' = settled \cup {c}
               /\ UNCHANGED <<frames, insert_job, aborted>>
            \/ InsertData(c)
    BY DEF MapJSONDone, insertVars, readerVars
<1>2. c \in Nat /\ c \in Chunks
    BY <1>1 DEF Stages, TypeOK, Chunks
<1>3. map_jobs # <<>> /\ c = Head(map_jobs) /\ map_jobs \in Seq(Nat)
    BY <1>1, <1>2, FirstIsMapped DEF Stages, TypeOK
<1>4. /\ WorkLine(map_jobs, parse_job) # <<>>
      /\ Head(WorkLine(map_jobs, parse_job)) = c
      /\ Tail(WorkLine(map_jobs, parse_job)) = WorkLine(map_jobs', parse_job')
  <2>1. parse_job \in Nat \/ parse_job = None
      BY DEF Stages, TypeOK
  <2> QED
      BY <1>1, <1>2, <1>3, <2>1, WorkLines
<1>5. CASE UNCHANGED <<frames, aborted>> /\ Pipeline!Settled(c)
  <2>1. \A t : HeldBy(t)' = HeldBy(t)
      BY <1>5 DEF HeldBy
  <2> QED
      BY <1>1, <1>4, <1>5, <2>1 DEF Pipeline!Leave, WorkLine
<1>6. CASE frames' = <<Frame("insertData", c)>> \o frames
           /\ UNCHANGED <<settled, insert_job, aborted>>
  <2>1. frames \in Seq(FrameSet) /\ Frame("insertData", c) \in FrameSet
      BY <1>2 DEF Stages, TypeOK, FrameSet, Frame
  <2>2. /\ HeldBy("insertData")' = HeldBy("insertData") \cup {c}
        /\ HeldBy("addRead")' = HeldBy("addRead")
      BY <1>6, <2>1, HoldersPushed
  <2> QED
      BY <1>1, <1>4, <1>6, <2>2 DEF Pipeline!Leave, WorkLine
<1>7. CASE settled' = settled \cup {c} /\ UNCHANGED <<frames, insert_job, aborted>>
    BY <1>5, <1>7 DEF Pipeline!Settled
<1>8. CASE InsertData(c)
  <2>1. CASE insert_active = 0 /\ UNCHANGED frames /\ Insert(c)
      BY <1>2, <1>5, <2>1, InsertSettles
  <2> QED
      BY <1>6, <1>8, <2>1 DEF InsertData
<1> QED
    BY <1>1, <1>7, <1>8

(* The end of an insert is one of the insert of an object. *)
LEMMA InsertIsOver ==
    ASSUME Stages, InsertDone
    PROVE  \E d \in insert_job : Pipeline!InsertEnds(d)
<1>1. PICK c \in DOMAIN content, d \in Dbos :
          /\ NextEvent(<<"insertDone", c, d>>)
          /\ insert_job' = insert_job \ {d}
          /\ UNCHANGED <<read, objects, frames, map_jobs, parse_job, settled, aborted>>
    BY DEF InsertDone, readerVars, jobVars
<1>2. c \in Nat
    BY <1>1 DEF Stages, TypeOK
<1>3. d \in insert_job
  <2>1. <<"insertDone", c, d>> \in Posted
      BY <1>1, EventTaken
  <2> QED
      BY <1>2, <2>1 DEF Stages, InsertStage, Inserting
<1>4. \A t : HeldBy(t)' = HeldBy(t)
    BY <1>1 DEF HeldBy
<1>5. Pipeline!InsertEnds(d)
    BY <1>1, <1>3, <1>4 DEF Pipeline!InsertEnds
<1> QED
    BY <1>3, <1>5

(* A new run goes on where the last one has left the chunks. *)
LEMMA RunGoesOn ==
    ASSUME Stages, Run
    PROVE  UNCHANGED Pipeline!pipeVars
<1>1. /\ all_done /\ read' = Len(content) /\ objects' = None
      /\ UNCHANGED <<frames, map_jobs, parse_job, settled, insert_job, aborted>>
    BY DEF Run, insertVars
<1>2. reader = "over"
    BY <1>1 DEF Stages, ReaderStage, TypeOK
<1>3. read = Len(content) /\ objects = None
    BY <1>2 DEF Stages, ReaderStage
<1> QED
    BY <1>1, <1>3, PipelineUntouched

(* Every step of the import is one of the pipeline, or none of it. *)
LEMMA StepsFollowPipeline ==
    ASSUME Stages, [Next]_vars
    PROVE  [Pipeline!Next]_(Pipeline!pipeVars)
<1>1. CASE UNCHANGED vars
  <2>1. UNCHANGED <<read, objects, frames, map_jobs, parse_job, settled, insert_job, aborted>>
      BY <1>1 DEF vars, readerVars, jobVars, insertVars
  <2> QED
      BY <2>1, PipelineUntouched
<1>2. CASE Next
  <2>1. ~(aborted # "no")
      BY <1>2 DEF Next, Alive
  <2>2. CASE ReadEmit
      BY <2>1, <2>2, ReadTakes DEF Pipeline!Next
  <2>3. CASE ReadPart \/ ReadGoOn \/ ReadEnd \/ PoolEnd \/ InsertEnd
    <3>1. UNCHANGED <<read, objects, frames, map_jobs, parse_job, settled, insert_job, aborted>>
        BY <2>3 DEF ReadPart, ReadGoOn, ReadEnd, PoolEnd, InsertEnd, readerVars, jobVars,
                    insertVars
    <3> QED
        BY <3>1, PipelineUntouched
  <2>4. CASE ReadJSONFileDone \/ WaitOn \/ OtherInsertDone
    <3>1. UNCHANGED <<read, objects, frames, map_jobs, parse_job, settled, insert_job, aborted>>
        BY <2>4 DEF ReadJSONFileDone, WaitOn, OtherInsertDone, readerVars, jobVars, insertVars
    <3> QED
        BY <3>1, PipelineUntouched
  <2>5. CASE AddReadJSON
      BY <2>1, <2>5, AddReadStarts DEF Pipeline!Next
  <2>6. CASE ContinueAddReadJSON
      BY <2>1, <2>6, WaitingStarts DEF Pipeline!Next
  <2>7. CASE ContinueInsertData
      BY <2>1, <2>7, WaitingSettles DEF Pipeline!Next
  <2>8. CASE MapJSONDone
      BY <2>1, <2>8, MappedLeaves DEF Pipeline!Next
  <2>9. CASE InsertDone
      BY <2>1, <2>9, InsertIsOver DEF Pipeline!Next
  <2>10. CASE ParseJSONDone
      BY <2>10, ParsedIsMapped
  <2>11. CASE Run
      BY <2>11, RunGoesOn
  <2> QED
      BY <1>2, <2>2, <2>3, <2>4, <2>5, <2>6, <2>7, <2>8, <2>9, <2>10, <2>11
         DEF Next, Read, Slots, Frames
<1> QED
    BY <1>1, <1>2

(* The import implements ChunkPipeline, from run to run: no chunk is lost, *)
(* none is parsed, mapped or inserted twice, they leave the jobs in the    *)
(* order in which they came, and one chunk is inserted at a time.          *)
THEOREM ImportFollowsPipeline == Spec => FollowsPipeline
<1>1. Init => Pipeline!Init
  <2> SUFFICES ASSUME Init
               PROVE  Pipeline!Init
      OBVIOUS
  <2>1. \A t : HeldBy(t) = {}
      BY DEF Init, HeldBy
  <2>2. /\ (aborted # "no") = FALSE
        /\ WorkLine(map_jobs, parse_job) = <<>>
      BY DEF Init, WorkLine
  <2> QED
      BY <2>1, <2>2 DEF Init, Pipeline!Init, WorkLine
<1>2. Stages /\ [Next]_vars => [Pipeline!Next]_(Pipeline!pipeVars)
    BY StepsFollowPipeline
<1> QED
    BY <1>1, <1>2, ImportIsConsistent, PTL DEF Spec, FollowsPipeline, Pipeline!Spec
=============================================================================
