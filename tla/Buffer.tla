------------------------------- MODULE Buffer -------------------------------
(***************************************************************************)
(* Buffers (src/src/buffer/buffer.cpp): columns that share a size.  Rows   *)
(* that were read or mapped are written entry by entry; the buffer of a    *)
(* chunk is seized by that of its database object, which empties it.       *)
(***************************************************************************)
EXTENDS NullableVector, FiniteSets

CONSTANTS
    Columns,   \* the properties all of the buffers have
    Buffers,   \* buffers with these properties
    MaxRows    \* bound: rows of all buffers

ASSUME MaxRowsAssumption == MaxRows \in Nat

VARIABLES
    columns,   \* array_list_tuple_ of each buffer
    data_size  \* data_size_

vars == <<columns, data_size>>

NoRows == [c \in Columns |-> Empty]

Init ==
    /\ columns = [b \in Buffers |-> NoRows]
    /\ data_size = [b \in Buffers |-> 0]

\* Is there room for another row of b at this index?
InBound(b, index) ==
    \A org \in Buffers \ {b} : Larger(index + 1, data_size[b]) + data_size[org] <= MaxRows

\* A column was changed; the buffer is as long as its longest column.
Grow(b, c, vec) ==
    /\ columns' = [columns EXCEPT ![b][c] = vec]
    /\ data_size' = [data_size EXCEPT ![b] = SizeWith(vec, @)]

Set ==
    \E b \in Buffers, c \in Columns, index \in 0 .. MaxRows - 1, value \in Values :
        /\ InBound(b, index)
        /\ Grow(b, c, SetValue(columns[b][c], index, value))

\* Nobody appends to an entry that setNull was called on: its value is still there.
Appendable(vec, index) ==
    IsNull(vec, index) /\ index < Len(vec.data) => vec.data[index + 1] = Zero

AppendTo ==
    \E b \in Buffers, c \in Columns, index \in 0 .. MaxRows - 1, value \in Values :
        /\ InBound(b, index)
        /\ Appendable(columns[b][c], index)
        /\ Grow(b, c, AppendValue(columns[b][c], index, value))

SetEntryNull ==
    \E b \in Buffers, c \in Columns, index \in 0 .. MaxRows - 1 :
        /\ InBound(b, index)
        /\ Grow(b, c, SetNull(columns[b][c], index))

\* Seeded fault: the columns see the size the buffer will have.
SeizedAtNewSize(b, org) ==
    [c \in Columns |-> AddData(columns[b][c], columns[org][c], data_size[b] + data_size[org])]

Seized(b, org) == [c \in Columns |-> AddData(columns[b][c], columns[org][c], data_size[b])]

\* seizeBuffer; what was seized from is gone, a new one takes its place.
SeizeBuffer ==
    \E b \in Buffers, org \in Buffers :
        /\ b # org
        /\ columns' = [columns EXCEPT ![b] = Seized(b, org), ![org] = NoRows]
        /\ data_size' = [data_size EXCEPT ![b] = @ + data_size[org], ![org] = 0]

Cutting ==
    \E b \in Buffers : \E size \in 0 .. data_size[b] :
        /\ columns' = [columns EXCEPT ![b] = [c \in Columns |-> CutToSize(@[c], size)]]
        /\ data_size' = [data_size EXCEPT ![b] = size]

Next == Set \/ AppendTo \/ SetEntryNull \/ SeizeBuffer \/ Cutting

Spec == Init /\ [][Next]_vars

-----------------------------------------------------------------------------
(* Properties.                                                             *)

\* Types of the variables.  No column is longer than the buffer, which the assertions of
\* nullablevector.h say when pedantic checking is on.
TypeOK ==
    /\ columns \in [Buffers -> [Columns -> Vectors]]
    /\ data_size \in [Buffers -> Nat]
    /\ \A b \in Buffers, c \in Columns :
           /\ Len(columns[b][c].data) <= data_size[b]
           /\ Len(columns[b][c].null_flags) <= data_size[b]

\* An entry that isNull does not call null has a value that get and data_.at can return,
\* whatever rows were left out, cut or seized before.
NotNullHasValue ==
    \A b \in Buffers, c \in Columns : \A i \in DOMAIN columns[b][c].null_flags :
        columns[b][c].null_flags[i] = 0 => i <= Len(columns[b][c].data)

\* Each index of a range is either listed with its value or among the null ones: what
\* distinctValuesWithIndexes and nullValueIndexes tell the evaluation adds up.
IndexesAddUp ==
    \A b \in Buffers, c \in Columns : \A from, to \in 0 .. data_size[b] :
        from <= to =>
            LET vec == columns[b][c] IN
            /\ DistinctValuesWithIndexes(vec, from, to) =
                   {<<Entry(vec, i), i>> : i \in (from .. to) \ NullValueIndexes(vec, from, to)}
            /\ \A v \in DistinctValuesWithIndexes(vec, from, to) : v[1] # Null

\* Whoever reads a column finds the same entries set, and each of these with a value.
ReadsAgree == NotNullHasValue /\ IndexesAddUp

\* A call of set, append or setNull is about one entry: it is as asked for and all others of
\* the column are as before, those of rows left out null.  What is appended to a null entry
\* is all there is.
OneEntryWritten ==
    \A b \in Buffers, c \in Columns, index \in 0 .. MaxRows - 1, value \in Values :
        LET vec == columns[b][c]
            Becomes(new, entry) ==
                \A i \in 0 .. MaxRows - 1 :
                    Entry(new, i) = IF i = index THEN entry ELSE Entry(vec, i)
        IN  /\ Becomes(SetValue(vec, index, value), value)
            /\ Becomes(SetNull(vec, index), Null)
            /\ Appendable(vec, index) =>
                   Becomes(AppendValue(vec, index, value),
                           IF IsNull(vec, index) THEN value ELSE Add(Entry(vec, index), value))

\* However the vectors and flags of the columns have grown, a buffer is a table of rows.
Rows(b) == [r \in 1 .. data_size[b] |-> [c \in Columns |-> Entry(columns[b][c], r - 1)]]

Table == INSTANCE RowTable WITH rows <- [b \in Buffers |-> Rows(b)]

ImplementsTable == Table!Spec
=============================================================================
