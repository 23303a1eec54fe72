------------------------------- MODULE JSONFile -------------------------------
(***************************************************************************)
(* How ReadJSONFileJob::readFilePart (src/src/job/readjsonfilejob.cpp)     *)
(* cuts a file that is not an archive into parts: the file is a sequence   *)
(* of characters, an object one of these from a brace to the one that      *)
(* closes it, and a part a sequence of at most "number" objects.           *)
(***************************************************************************)
EXTENDS Integers, Sequences, FiniteSets, SequencesExt

\* open_count_ is unsigned: it differs from 0 exactly as this integer does.
Count(open, c) ==
    CASE c = "{" -> open + 1
      [] c = "}" -> open - 1
      [] OTHER   -> open

\* Seeded fault: only what is inside of the braces is kept, the last one is not.
KeptInside(open, c) == open # 0

\* "only add if enclosed by brackets"
Kept(open, c) == open # 0 \/ c = "}"

ReadChar(s, c) ==
    LET open == Count(s.open, c)
        tmp  == IF Kept(open, c) THEN Append(s.tmp, c) ELSE s.tmp
    IN  IF c = "}" /\ open = 0
        THEN [s EXCEPT !.open = open, !.tmp = <<>>, !.objects = Append(@, tmp)]
        ELSE [s EXCEPT !.open = open, !.tmp = tmp]

\* The loop gets a character before it looks at the limit: with a full part that one is lost.
NextChar(s, c, number) ==
    IF Len(s.objects) < number
    THEN ReadChar(s, c)
    ELSE [s EXCEPT !.parts = Append(@, s.objects), !.objects = <<>>]

\* After so many characters of the file.
Scans(text, number) ==
    LET scan[i \in 0 .. Len(text)] ==
            IF i = 0 THEN [parts |-> <<>>, objects |-> <<>>, open |-> 0, tmp |-> <<>>]
            ELSE NextChar(scan[i - 1], text[i], number)
    IN scan

Scan(text, number) == Scans(text, number)[Len(text)]

\* The parts handed over; the last one may be short, and none is empty.
Parts(text, number) ==
    LET s == Scan(text, number)
    IN  IF s.objects = <<>> THEN s.parts ELSE Append(s.parts, s.objects)

\* assert(open_count_ == 0) and the one on tmp_stream_, at the end of the file.
NothingLeftOpen(text, number) ==
    LET s == Scan(text, number) IN s.open = 0 /\ s.tmp = <<>>

-----------------------------------------------------------------------------
(* The reference: the objects are the balanced groups at the top level.    *)

Braces(text, i, c) == Cardinality({k \in 1 .. i : text[k] = c})

Depth(text, i) == Braces(text, i, "{") - Braces(text, i, "}")

Balanced(text) ==
    Depth(text, Len(text)) = 0 /\ \A i \in DOMAIN text : Depth(text, i) >= 0

\* Something is between one object and the next: a comma or the end of a line.
Separated(text) ==
    \A i \in 1 .. Len(text) - 1 :
        ~(text[i] = "}" /\ text[i + 1] = "{" /\ Depth(text, i) = 0)

\* The places where an object begins and ends.
Groups(text) ==
    {g \in (DOMAIN text) \X (DOMAIN text) :
        /\ g[1] < g[2] /\ text[g[1]] = "{"
        /\ Depth(text, g[1] - 1) = 0 /\ Depth(text, g[2]) = 0
        /\ \A k \in g[1] .. g[2] - 1 : Depth(text, k) > 0}

\* The place of a group among others, by where they begin.
Place(g, groups) == Cardinality({h \in groups : h[1] <= g[1]})

Objects(text) ==
    LET groups == Groups(text)
        nth(i) == CHOOSE g \in groups : Place(g, groups) = i
    IN  [i \in 1 .. Cardinality(groups) |-> SubSeq(text, nth(i)[1], nth(i)[2])]

(* Files whose objects are separated are read in full and nothing is left  *)
(* open: the parts together are the objects of the file in their order,    *)
(* and every part but the last one is full.                                *)
CutsAtObjects(texts, numbers) ==
    \A t \in texts, n \in numbers :
        Balanced(t) /\ Separated(t) =>
            LET parts == Parts(t, n) IN
            /\ FlattenSeq(parts) = Objects(t)
            /\ \A i \in 1 .. Len(parts) - 1 : Len(parts[i]) = n
            /\ NothingLeftOpen(t, n)
=============================================================================
