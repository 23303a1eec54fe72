---------------------------- MODULE JSONMapping ----------------------------
(***************************************************************************)
(* JSONMappingJob::run (src/src/job/jsonmappingjob.cpp): every record of a *)
(* chunk is given to every parser, which writes its target reports into    *)
(* the buffer of its database object, entry by entry, takes back a row     *)
(* that turns out to be unfit, and converts the units afterwards.          *)
(*                                                                         *)
(* An entry is the number of the target report it was taken from and the   *)
(* number of times its unit was converted; zero is the entry <<0, 0>>,     *)
(* which overrides the data source.  A key of the JSON object is named     *)
(* after the variable it is mapped to, and is absent, or has a value that  *)
(* fits, one the JSON library throws at ("unfit"), or one that another     *)
(* function throws at ("malformed": std::stoi of setFromFormat).           *)
(***************************************************************************)
EXTENDS Naturals, FiniteSetsExt, SequencesExt

CONSTANTS
    Records,     \* JSON records: a target report and the sequence of those in a container
    Parsers,     \* the active parsers, in their order
    Columns,     \* variables of the database objects
    DataSource,  \* the one with the data source
    Null,
    MaxRecords   \* bound: records of the chunk

DBObjects == {Parsers[p].object : p \in DOMAIN Parsers}

\* The target reports there are.
Reports == {rec.own : rec \in Records} \cup UNION {ToSet(rec.list) : rec \in Records}

\* A parser has a database object, may look into the container, takes reports with certain
\* values of its key, may override the data source, and has mappings in their order, one for
\* a variable, which may be mandatory and may have a unit to convert from.
Mapped(p) == {p.mappings[m].column : m \in DOMAIN p.mappings}

ASSUME ParsersAssumption ==
    /\ Parsers \in Seq(ToSet(Parsers)) /\ Parsers # <<>>
    /\ \A i \in DOMAIN Parsers :
           /\ Parsers[i].mappings \in Seq(ToSet(Parsers[i].mappings))
           /\ Mapped(Parsers[i]) \subseteq Columns
           /\ Cardinality(Mapped(Parsers[i])) = Len(Parsers[i].mappings)
           /\ DataSource \in Columns \ Mapped(Parsers[i])
ASSUME RecordsAssumption ==
    /\ \A rec \in Records : rec.list \in Seq(Reports)
    /\ \A report \in Reports, i \in DOMAIN Parsers : \A c \in Mapped(Parsers[i]) :
           report.fields[c] \in {"absent", "value", "unfit", "malformed"}
ASSUME NullAssumption == Null \notin Nat \X Nat

VARIABLES
    columns,     \* the vectors of buffers_
    data_size,   \* the sizes of buffers_
    records,     \* records begun
    record,      \* the one at hand, or Null
    parser,      \* number of the parser at work, 0 between records
    reports,     \* target reports it has left
    row_cnt,     \* of parseJSON
    parsed_any,  \* of parseJSON
    mapped,      \* parsed_any of run
    num_mapped, num_not_mapped, num_errors,
    num_reports, \* history: target reports looked at
    rows,        \* history: those that came into the buffer of an object
    blank        \* history: the objects with a parser that took a report without any value

bufferVars == <<columns, data_size>>
recordVars == <<records, record>>
countVars == <<num_mapped, num_not_mapped, num_errors>>
vars == <<bufferVars, recordVars, parser, reports, row_cnt, parsed_any, mapped, countVars,
          num_reports, rows, blank>>

Vector == INSTANCE NullableVector WITH
    Values <- Nat \X Nat, Zero <- <<0, 0>>, Add <- LAMBDA a, b : b

Init ==
    /\ columns = [o \in DBObjects |-> [c \in Columns |-> Vector!Empty]]
    /\ data_size = [o \in DBObjects |-> 0]
    /\ records = 0
    /\ record = Null
    /\ parser = 0
    /\ reports = <<>>
    /\ row_cnt = 0
    /\ parsed_any = FALSE
    /\ mapped = FALSE
    /\ num_mapped = 0
    /\ num_not_mapped = 0
    /\ num_errors = 0
    /\ num_reports = 0
    /\ rows = [o \in DBObjects |-> <<>>]
    /\ blank = {}

Parser == Parsers[parser]

\* The number of the report at hand.
Number == num_reports + 1

-----------------------------------------------------------------------------
(* parseTargetReport                                                       *)

MappingOf(p, c) == CHOOSE m \in DOMAIN p.mappings : p.mappings[m].column = c

\* findAndSetValue returns true or throws.
EndsAt(p, report, m) ==
    LET field == report.fields[p.mappings[m].column] IN
    field \in {"unfit", "malformed"} \/ (field = "absent" /\ p.mappings[m].mandatory)

\* The mappings with which the loop is left early.
Ends(p, report) == {m \in DOMAIN p.mappings : EndsAt(p, report, m)}

LastField ==
    Head(reports).fields[Parser.mappings[Min(Ends(Parser, Head(reports)))].column]

\* Mappings that were tried.
Tried(p, report) == {m \in DOMAIN p.mappings : \A e \in Ends(p, report) : m <= e}

Field(p, report, c) ==
    IF c \in Mapped(p) /\ MappingOf(p, c) \in Tried(p, report) THEN report.fields[c] ELSE "absent"

\* The vectors when the loop is left.
Written(p, report) ==
    [c \in Columns |->
        LET vec == columns[p.object][c] IN
        CASE Field(p, report, c) = "value" -> Vector!SetValue(vec, row_cnt, <<Number, 0>>)
          [] Field(p, report, c) = "unfit" -> Vector!SetNull(vec, row_cnt)
          [] OTHER -> vec]

SizeOf(vectors, size) == Max({Vector!SizeWith(vectors[c], size) : c \in Columns})

\* The buffer grows with its vectors.
Keep(vectors) ==
    /\ columns' = [columns EXCEPT ![Parser.object] = vectors]
    /\ data_size' = [data_size EXCEPT ![Parser.object] = SizeOf(vectors, @)]

\* Seeded fault: the entries of the report stay.
NoCleanup(vectors) == Keep(vectors)

\* The row is taken back if it has come into being.
Cleanup(vectors) ==
    IF SizeOf(vectors, data_size[Parser.object]) > row_cnt
    THEN /\ columns' = [columns EXCEPT ![Parser.object] =
                            [c \in Columns |-> Vector!CutToSize(vectors[c], row_cnt)]]
         /\ data_size' = [data_size EXCEPT ![Parser.object] = row_cnt]
    ELSE Keep(vectors)

\* What becomes a row: the report, where it comes from, and the variables with values.
NewRow ==
    LET report == Head(reports) IN
    [number |-> Number, record |-> records, parser |-> parser,
     whole |-> Ends(Parser, report) = {},
     values |-> {c \in Columns : Field(Parser, report, c) = "value"}]

-----------------------------------------------------------------------------
(* JSONMappingJob::run and parseJSON                                       *)

\* parseJSON of a parser begins.
Begin(p, rec, size) ==
    /\ parser' = p
    /\ reports' = IF Parsers[p].container THEN rec.list ELSE <<rec.own>>
    /\ row_cnt' = size
    /\ parsed_any' = FALSE

\* The record is given to the next parser, or is through: was it mapped by any?
GoOn(any) ==
    IF parser < Len(Parsers)
    THEN /\ Begin(parser + 1, record, data_size'[Parsers[parser + 1].object])
         /\ mapped' = any
         /\ UNCHANGED <<record, num_mapped, num_not_mapped>>
    ELSE /\ parser' = 0 /\ record' = Null
         /\ reports' = <<>> /\ row_cnt' = 0 /\ parsed_any' = FALSE
         /\ num_mapped' = num_mapped + (IF any THEN 1 ELSE 0)
         /\ num_not_mapped' = num_not_mapped + (IF any THEN 0 ELSE 1)
         /\ mapped' = FALSE

NextRecord ==
    /\ parser = 0
    /\ records < MaxRecords
    /\ records' = records + 1
    /\ record' \in Records
    /\ Begin(1, record', data_size[Parsers[1].object])
    /\ UNCHANGED <<bufferVars, mapped, countVars, num_reports, rows, blank>>

\* parseTargetReport returns false at once.
WrongKey ==
    /\ parser # 0 /\ reports # <<>>
    /\ Head(reports).key \notin Parser.keys
    /\ reports' = Tail(reports)
    /\ UNCHANGED <<bufferVars, recordVars, parser, row_cnt, parsed_any, mapped, countVars,
                   num_reports, rows, blank>>

\* The report at hand has the right key.
Parse ==
    /\ parser # 0 /\ reports # <<>>
    /\ Head(reports).key \in Parser.keys
    /\ num_reports' = Number
    /\ UNCHANGED records

\* A report without any value is taken too, by a parser without a mandatory mapping: it counts
\* as a row and the buffer does not grow.
Accept ==
    /\ Parse
    /\ Ends(Parser, Head(reports)) = {}
    /\ Keep(Written(Parser, Head(reports)))
    /\ rows' = [rows EXCEPT ![Parser.object] = Append(@, NewRow)]
    /\ blank' = IF NewRow.values = {} THEN blank \cup {Parser.object} ELSE blank
    /\ reports' = Tail(reports)
    /\ row_cnt' = row_cnt + 1
    /\ parsed_any' = TRUE
    /\ UNCHANGED <<record, parser, mapped, countVars>>

\* A mandatory value is missing, or the JSON library threw at one.
Skip ==
    /\ Parse
    /\ Ends(Parser, Head(reports)) # {}
    /\ LastField # "malformed"
    /\ Cleanup(Written(Parser, Head(reports)))
    /\ reports' = Tail(reports)
    /\ UNCHANGED <<record, parser, row_cnt, parsed_any, mapped, countVars, rows, blank>>

\* Seeded fault: run forgets that an earlier parser mapped the record.
GoOnAfresh == GoOn(FALSE)

\* This parser has mapped nothing, as far as run knows.
GoOnWithout == GoOn(mapped)

\* Another exception leaves parseTargetReport and parseJSON, and is caught by run.
Raise ==
    /\ Parse
    /\ Ends(Parser, Head(reports)) # {}
    /\ LastField = "malformed"
    /\ Keep(Written(Parser, Head(reports)))
    /\ rows' = [rows EXCEPT ![Parser.object] =
                    IF NewRow.values = {} THEN @ ELSE Append(@, NewRow)]
    /\ num_errors' = num_errors + 1
    /\ UNCHANGED blank
    /\ GoOnWithout

\* parseJSON returns false.
NoneParsed ==
    /\ parser # 0 /\ reports = <<>>
    /\ ~parsed_any
    /\ UNCHANGED <<bufferVars, records, num_errors, num_reports, rows, blank>>
    /\ GoOnWithout

\* The data source is overridden, and what is not null is converted, in the last row.
Converted(p, vectors, index) ==
    [c \in Columns |->
        LET vec == vectors[c] IN
        IF c = DataSource
        THEN IF p.override THEN Vector!SetValue(vec, index, <<0, 0>>) ELSE vec
        ELSE IF c \in Mapped(p) /\ p.mappings[MappingOf(p, c)].unit /\ ~Vector!IsNull(vec, index)
        THEN LET entry == Vector!Entry(vec, index)
             IN  Vector!SetValue(vec, index, <<entry[1], entry[2] + 1>>)
        ELSE vec]

\* Seeded fault: the units of all rows are converted.
ConvertedAll(p) ==
    [c \in Columns |->
        IF c \in Mapped(p) /\ p.mappings[MappingOf(p, c)].unit
        THEN [columns[p.object][c] EXCEPT !.data = [i \in DOMAIN @ |-> <<@[i][1], @[i][2] + 1>>]]
        ELSE columns[p.object][c]]

ConvertedLast(p) == Converted(p, columns[p.object], data_size[p.object] - 1)

\* transformBuffer with buffer->size() - 1; without a row its assertion ends the process.
TransformBuffer ==
    /\ parser # 0 /\ reports = <<>>
    /\ parsed_any
    /\ data_size[Parser.object] > 0
    /\ Keep(ConvertedLast(Parser))
    /\ GoOn(TRUE)
    /\ UNCHANGED <<records, num_errors, num_reports, rows, blank>>

Next == NextRecord \/ WrongKey \/ Accept \/ Skip \/ Raise \/ NoneParsed \/ TransformBuffer

Spec == Init /\ [][Next]_vars

-----------------------------------------------------------------------------
(* Properties.                                                             *)

\* The database objects whose parsers have only taken reports with a value.
Sound == DBObjects \ blank

\* The rows of their buffers are the target reports that were accepted, in their order, and the
\* ones an exception stopped at: each row has the values of its report in the variables they
\* are mapped to, null in the others, and none of another report that was skipped before it.
\* What parsers of other objects take makes no difference.
RowsAreReports ==
    \A o \in Sound :
        /\ data_size[o] = Len(rows[o])
        /\ \A i \in DOMAIN rows[o], c \in Columns \ {DataSource} :
               LET entry == Vector!Entry(columns[o][c], i - 1) IN
               IF c \in rows[o][i].values
               THEN entry # Null /\ entry[1] = rows[o][i].number
               ELSE entry = Null

\* Is this variable of the row to be converted?
HasUnit(row, c) ==
    LET p == Parsers[row.parser] IN c \in Mapped(p) /\ p.mappings[MappingOf(p, c)].unit

\* How often an entry of row i was converted.
Times(o, i, c) == Vector!Entry(columns[o][c], i - 1)[2]

\* A value is converted twice only after a parser of its object has taken a report without a
\* value: not when the last report of a record was skipped, several parsers write to one buffer
\* or an exception left a row.  And until then those values that came with a record of their
\* own have been converted between records.
ConvertedAtMostOnce ==
    \A o \in Sound : \A i \in DOMAIN rows[o] : \A c \in rows[o][i].values :
        LET row == rows[o][i] IN
        /\ Times(o, i, c) <= (IF HasUnit(row, c) THEN 1 ELSE 0)
        /\ parser = 0 /\ HasUnit(row, c) /\ row.whole /\ ~Parsers[row.parser].container =>
               Times(o, i, c) = 1

\* Records with a target report that some parser accepted.
Accepted ==
    {n \in 1 .. records :
        \E o \in DBObjects : \E i \in DOMAIN rows[o] :
            rows[o][i].whole /\ rows[o][i].record = n}

\* Between records, those with a target report that some parser accepted count as mapped,
\* whatever the parsers before and after it did, but for as many as there were errors; and
\* no others do.
RecordsCounted ==
    parser = 0 =>
        /\ num_mapped + num_not_mapped = records
        /\ num_mapped <= Cardinality(Accepted)
        /\ Cardinality(Accepted) <= num_mapped + num_errors

=============================================================================
