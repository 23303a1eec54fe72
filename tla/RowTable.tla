------------------------------ MODULE RowTable ------------------------------
(***************************************************************************)
(* What a buffer promises to its users: rows with an entry for each        *)
(* column, which is a value or null.  Rows come into being when an entry   *)
(* of theirs or of a later row is touched.                                 *)
(***************************************************************************)
EXTENDS Naturals, Sequences

CONSTANTS
    Columns, Buffers, Values, Null,
    MaxRows     \* bound: rows of a buffer

VARIABLE rows

Entries == Values \cup {Null}

Init == rows = [b \in Buffers |-> <<>>]

\* The entry of a row that may be behind the last one.
At(table, row, c) == IF row <= Len(table) THEN table[row][c] ELSE Null

\* The table with an entry written.
With(table, row, c, entry) ==
    [r \in 1 .. (IF row > Len(table) THEN row ELSE Len(table)) |->
        [d \in Columns |-> IF r = row /\ d = c THEN entry ELSE At(table, r, d)]]

\* Some entry is written: set, added to or made null.
Write ==
    \E b \in Buffers, row \in 1 .. MaxRows, c \in Columns :
        /\ row <= Len(rows'[b])
        /\ rows'[b][row][c] \in Entries
        /\ rows' = [rows EXCEPT ![b] = With(@, row, c, rows'[b][row][c])]

\* The rows of another buffer come behind those there are.
Seize ==
    \E b \in Buffers, org \in Buffers :
        /\ b # org
        /\ rows' = [rows EXCEPT ![b] = @ \o rows[org], ![org] = <<>>]

\* Rows at the end are cut off.
CutToSize ==
    \E b \in Buffers : \E size \in 0 .. Len(rows[b]) :
        rows' = [rows EXCEPT ![b] = SubSeq(@, 1, size)]

Next == Write \/ Seize \/ CutToSize

Spec == Init /\ [][Next]_rows
=============================================================================
