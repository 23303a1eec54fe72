--------------------------- MODULE RowTableProofs ---------------------------
(***************************************************************************)
(* Buffer implements RowTable, for any values, columns and buffers: what   *)
(* set, append, setNull, seizeBuffer and cutToSize do to vectors and flags *)
(* is what RowTable does to rows.                                          *)
(***************************************************************************)
EXTENDS BufferProofs, SequenceTheorems

(* The rows of all buffers, as the abstract specification sees them. *)
AllRows == [b \in Buffers |-> Rows(b)]

(* A row has an entry for each column. *)
RowType == [Columns -> Values \cup {Null}]

(* An entry is a value or null. *)
LEMMA EntryType ==
    ASSUME NEW vec \in Vectors, Agrees(vec), NEW i \in Nat
    PROVE  Entry(vec, i) \in Values \cup {Null}
<1>1. CASE IsNull(vec, i)
  BY <1>1 DEF Entry
<1>2. CASE ~IsNull(vec, i)
  BY <1>2, NotNullIsThere
<1> QED BY <1>1, <1>2

(* The rows of a buffer are rows, as many as its size says. *)
LEMMA RowsType ==
    ASSUME Sound, NEW b \in Buffers
    PROVE  /\ Rows(b) \in Seq(RowType) /\ Len(Rows(b)) = data_size[b] /\ data_size[b] \in Nat
           /\ \A r \in 1 .. data_size[b] :
                  Rows(b)[r] = [c \in Columns |-> Entry(columns[b][c], r - 1)]
<1>1. data_size[b] \in Nat
  BY DEF Sound
<1>2. \A r \in 1 .. data_size[b] : [c \in Columns |-> Entry(columns[b][c], r - 1)] \in RowType
  <2> TAKE r \in 1 .. data_size[b]
  <2>1. r - 1 \in Nat
    BY <1>1
  <2>2. \A c \in Columns : Entry(columns[b][c], r - 1) \in Values \cup {Null}
    BY <2>1, EntryType DEF Sound
  <2> QED BY <2>2 DEF RowType
<1> QED BY <1>1, <1>2 DEF Rows

(* Rows that may be behind the last one. *)
LEMMA RowAt ==
    ASSUME Sound, NEW b \in Buffers, NEW r \in Nat \ {0}, NEW c \in Columns
    PROVE  Table!At(Rows(b), r, c) = Entry(columns[b][c], r - 1)
<1>1. /\ Len(Rows(b)) = data_size[b] /\ data_size[b] \in Nat
      /\ \A i \in 1 .. data_size[b] :
             Rows(b)[i] = [d \in Columns |-> Entry(columns[b][d], i - 1)]
  BY RowsType
<1>2. CASE r <= data_size[b]
  <2>1. r \in 1 .. data_size[b]
    BY <1>1, <1>2
  <2>2. Rows(b)[r] = [d \in Columns |-> Entry(columns[b][d], r - 1)]
    BY <1>1, <2>1
  <2> QED BY <1>1, <1>2, <2>2 DEF Table!At
<1>3. CASE ~(r <= data_size[b])
  <2>1. /\ columns[b][c] \in Vectors /\ Fits(columns[b][c], data_size[b])
        /\ r - 1 \in Nat /\ r - 1 >= data_size[b]
    BY <1>1, <1>3 DEF Sound
  <2>2. Entry(columns[b][c], r - 1) = Null
    BY <1>1, <2>1, BeyondIsNull
  <2> QED BY <1>1, <1>3, <2>2 DEF Table!At
<1> QED BY <1>2, <1>3

-----------------------------------------------------------------------------
(* Writing.                                                                *)

(* A buffer grows by set up to the row that was set. *)
LEMMA SizeAfterSet ==
    ASSUME NEW vec \in Vectors, NEW k \in Nat, NEW value \in Values,
           NEW n \in Nat, Fits(vec, n)
    PROVE  SizeWith(SetValue(vec, k, value), n) = Larger(n, k + 1)
<1> DEFINE new  == SetValue(vec, k, value)
           room == RoomForFlags(vec, k)
           d    == Len(vec.data)
           f    == Len(vec.null_flags)
<1>1. d \in Nat /\ d <= n /\ f \in Nat /\ f <= n
  BY DEF Vectors, Fits
<1>2. Len(new.data) = Larger(d, k + 1)
  BY SetValueData
<1>3. room \in Seq(Bits) /\ new.null_flags = UnsetNull(room, k)
  BY RoomForFlagsType DEF SetValue
<1>4. Len(room) = Larger(Larger(f, d), k + 1) \/ Len(room) = f
  BY ResizeNullToType DEF RoomForFlags
<1>5. SizeWith(new, n) = Larger(n, Larger(Len(new.data), Len(new.null_flags)))
  BY DEF SizeWith
<1> HIDE DEF new, room, d, f
<1>6. Len(new.null_flags) = Len(room)
  BY <1>3, UnsetNullType
<1>7. SizeWith(new, n) = Larger(n, k + 1)
  BY <1>1, <1>2, <1>4, <1>5, <1>6 DEF Larger
<1> QED BY <1>7 DEF new

(* So it does by setNull. *)
LEMMA SizeAfterSetNull ==
    ASSUME NEW vec \in Vectors, NEW k \in Nat, NEW n \in Nat, Fits(vec, n)
    PROVE  SizeWith(SetNull(vec, k), n) = Larger(n, k + 1)
<1> DEFINE new  == SetNull(vec, k)
           room == RoomForNull(vec, k)
           d    == Len(vec.data)
           f    == Len(vec.null_flags)
<1>1. d \in Nat /\ d <= n /\ f \in Nat /\ f <= n
  BY DEF Vectors, Fits
<1>2. Len(new.data) = d /\ Len(new.null_flags) = Len(room)
  BY SetNullFlags
<1>3. IF k >= f THEN Len(room) = Larger(Larger(f, d), k + 1) ELSE Len(room) = f
  BY ResizeNullToType DEF RoomForNull
<1>4. SizeWith(new, n) = Larger(n, Larger(Len(new.data), Len(new.null_flags)))
  BY DEF SizeWith
<1> HIDE DEF new, room, d, f
<1>5. SizeWith(new, n) = Larger(n, k + 1)
  BY <1>1, <1>2, <1>3, <1>4 DEF Larger
<1> QED BY <1>5 DEF new

(* A column of which one entry was written is a table of which one was. *)
LEMMA GrowImplements ==
    ASSUME Sound, Sound', NEW b \in Buffers, NEW c \in Columns,
           NEW k \in 0 .. MaxRows - 1, NEW vec \in Vectors, Agrees(vec),
           Grow(b, c, vec), SizeWith(vec, data_size[b]) = Larger(data_size[b], k + 1),
           \A i \in Nat : i # k => Entry(vec, i) = Entry(columns[b][c], i)
    PROVE  Table!Next
<1>1. k \in Nat /\ k + 1 \in 1 .. MaxRows
  BY MaxRowsAssumption
<1>2. /\ columns' = [columns EXCEPT ![b][c] = vec]
      /\ data_size' = [data_size EXCEPT ![b] = Larger(data_size[b], k + 1)]
  BY DEF Grow
<1>3. /\ columns \in [Buffers -> [Columns -> Vectors]]
      /\ data_size \in [Buffers -> Nat]
  BY DEF Sound
<1> DEFINE size  == data_size[b]
           entry == Entry(vec, k)
           larger == Larger(size, k + 1)
<1>4. /\ data_size'[b] = larger /\ size \in Nat /\ larger \in Nat
      /\ k + 1 <= larger /\ size <= larger
  BY <1>1, <1>2, <1>3 DEF Larger
<1>5. \A a \in Buffers \ {b} : columns'[a] = columns[a] /\ data_size'[a] = data_size[a]
  BY <1>2, <1>3
<1>6. columns'[b][c] = vec /\ \A d \in Columns \ {c} : columns'[b][d] = columns[b][d]
  BY <1>2, <1>3
<1>7. AllRows' = [a \in Buffers |-> Rows(a)'] /\ AllRows = [a \in Buffers |-> Rows(a)]
  BY DEF AllRows
<1>8. \A a \in Buffers \ {b} : AllRows'[a] = AllRows[a]
  BY <1>5, <1>7 DEF Rows
<1>9. AllRows'[b] = [r \in 1 .. larger |-> [d \in Columns |-> Entry(columns'[b][d], r - 1)]]
  BY <1>4, <1>7 DEF Rows
<1>10. Len(Rows(b)) = size /\ AllRows[b] = Rows(b)
  BY <1>7, RowsType
<1>11. Table!With(Rows(b), k + 1, c, entry) =
           [r \in 1 .. larger |->
               [d \in Columns |-> IF r = k + 1 /\ d = c THEN entry
                                  ELSE Table!At(Rows(b), r, d)]]
  <2>1. larger = IF k + 1 > Len(Rows(b)) THEN k + 1 ELSE Len(Rows(b))
    BY <1>1, <1>4, <1>10 DEF Larger
  <2> HIDE DEF larger, entry
  <2> QED BY <2>1 DEF Table!With
<1> HIDE DEF size, larger, entry
<1>12. ASSUME NEW r \in 1 .. larger, NEW d \in Columns
       PROVE  Entry(columns'[b][d], r - 1) =
                  IF r = k + 1 /\ d = c THEN entry ELSE Table!At(Rows(b), r, d)
  <2>1. r \in Nat \ {0} /\ r - 1 \in Nat /\ (r - 1 = k <=> r = k + 1)
    BY <1>1, <1>4
  <2>2. Table!At(Rows(b), r, d) = Entry(columns[b][d], r - 1)
    BY <2>1, RowAt
  <2>3. CASE d # c
    BY <1>6, <2>2, <2>3
  <2>4. CASE d = c /\ r = k + 1
    BY <1>6, <2>1, <2>4 DEF entry
  <2>5. CASE d = c /\ r # k + 1
    BY <1>6, <2>1, <2>2, <2>5
  <2> QED BY <2>3, <2>4, <2>5
<1>13. AllRows'[b] = Table!With(AllRows[b], k + 1, c, entry)
  BY <1>9, <1>10, <1>11, <1>12
<1>14. AllRows'[b][k + 1][c] = entry /\ entry \in Values \cup {Null}
  <2>1. k + 1 \in 1 .. larger
    BY <1>1, <1>4
  <2>2. AllRows'[b][k + 1][c] = Entry(columns'[b][c], k + 1 - 1)
    BY <1>9, <2>1
  <2>3. Entry(columns'[b][c], k + 1 - 1) = entry
    BY <1>12, <2>1
  <2> QED BY <1>1, <2>2, <2>3, EntryType DEF entry
<1>15. Len(AllRows'[b]) = larger
  BY <1>4, <1>9
<1>16. AllRows' = [AllRows EXCEPT ![b] = Table!With(AllRows[b], k + 1, c, entry)]
  BY <1>7, <1>8, <1>13
<1>17. /\ k + 1 <= Len(AllRows'[b])
       /\ AllRows'[b][k + 1][c] \in Table!Entries
       /\ AllRows' = [AllRows EXCEPT ![b] =
                          Table!With(AllRows[b], k + 1, c, AllRows'[b][k + 1][c])]
  BY <1>4, <1>14, <1>15, <1>16 DEF Table!Entries
<1>18. \E a \in Buffers, row \in 1 .. MaxRows, d \in Columns :
           /\ row <= Len(AllRows'[a])
           /\ AllRows'[a][row][d] \in Table!Entries
           /\ AllRows' = [AllRows EXCEPT ![a] =
                              Table!With(AllRows[a], row, d, AllRows'[a][row][d])]
  BY <1>1, <1>17
<1>19. Table!Write
  BY <1>18 DEF Table!Write, AllRows
<1> QED BY <1>19 DEF Table!Next

-----------------------------------------------------------------------------
(* Seizing.                                                                *)

(* What is null in a vector that another one was added to, given its flags and values as    *)
(* one case of addData makes them: the head is that of the vector, the rest the other one's. *)
LEMMA JoinedNulls ==
    ASSUME NEW vec \in Vectors, NEW size \in Nat, Fits(vec, size),
           NEW other \in Vectors, NEW i \in Nat
    PROVE  LET flags == ResizeNullTo(vec, size) \o other.null_flags
           IN  /\ i < size => i < Len(flags) /\ (flags[i + 1] = 1 <=> IsNull(vec, i))
               /\ i >= size /\ i < Len(flags) =>
                      (flags[i + 1] = 1 <=> IsNull(other, i - size))
               /\ i >= Len(flags) =>
                      (i - size >= Len(other.data) <=> IsNull(other, i - size))
<1> DEFINE f     == ResizeNullTo(vec, size)
           g     == other.null_flags
           flags == f \o g
<1>1. /\ Len(vec.data) \in Nat /\ Len(vec.data) <= size
      /\ Len(vec.null_flags) \in Nat /\ Len(vec.null_flags) <= size
      /\ g \in Seq(Bits) /\ Len(g) \in Nat
  BY DEF Vectors, Fits
<1>2. f \in Seq(Bits) /\ Len(f) = size
  BY <1>1, ResizeNullToType DEF Larger
<1>3. i < size => (f[i + 1] = 1 <=> IsNull(vec, i))
  BY <1>2, ResizeKeepsNulls
<1>4. i >= size => (IsNull(other, i - size) <=>
                        IF i - size < Len(g) THEN g[i - size + 1] = 1
                        ELSE i - size >= Len(other.data))
  BY DEF IsNull
<1> HIDE DEF f, g
<1>5. /\ Len(flags) = size + Len(g)
      /\ \A j \in 1 .. size : flags[j] = f[j]
      /\ \A j \in size + 1 .. size + Len(g) : flags[j] = g[j - size]
  BY <1>1, <1>2, Joined
<1> HIDE DEF flags
<1>6. i < size => i < Len(flags) /\ (flags[i + 1] = 1 <=> IsNull(vec, i))
  BY <1>1, <1>3, <1>5
<1>7. ASSUME i >= size, i < Len(flags)
      PROVE  flags[i + 1] = 1 <=> IsNull(other, i - size)
  <2>1. i + 1 \in size + 1 .. size + Len(g) /\ i + 1 - size = i - size + 1
    BY <1>1, <1>5, <1>7
  <2>2. flags[i + 1] = g[i + 1 - size] /\ i - size < Len(g)
    BY <1>1, <1>5, <1>7, <2>1
  <2> QED BY <1>4, <1>7, <2>1, <2>2
<1>8. i >= Len(flags) => (i - size >= Len(other.data) <=> IsNull(other, i - size))
  BY <1>1, <1>4, <1>5
<1> QED BY <1>6, <1>7, <1>8 DEF flags, f, g

(* Values put behind values that were filled up. *)
LEMMA JoinedValues ==
    ASSUME NEW d \in Seq(Values), NEW e \in Seq(Values), NEW size \in Nat, Len(d) <= size
    PROVE  LET data == Filled(d, size, Zero) \o e
           IN  /\ Len(data) = size + Len(e)
               /\ \A j \in 1 .. Len(d) : data[j] = d[j]
               /\ \A j \in size + 1 .. size + Len(e) : data[j] = e[j - size]
<1> DEFINE f == Filled(d, size, Zero)
<1>1. f \in Seq(Values) /\ Len(f) = size
  BY FilledToSize
<1>2. \A j \in 1 .. Len(d) : f[j] = d[j]
  BY FilledHead, ZeroAssumption
<1> HIDE DEF f
<1>3. /\ Len(f \o e) = size + Len(e)
      /\ \A j \in 1 .. size : (f \o e)[j] = f[j]
      /\ \A j \in size + 1 .. size + Len(e) : (f \o e)[j] = e[j - size]
  BY <1>1, Joined
<1>4. \A j \in 1 .. Len(d) : (f \o e)[j] = d[j]
  BY <1>2, <1>3
<1> QED BY <1>3, <1>4 DEF f

(* What addData leaves null: what was null in either column. *)
LEMMA AddDataNulls ==
    ASSUME NEW vec \in Vectors, NEW other \in Vectors,
           NEW size \in Nat, Fits(vec, size), NEW i \in Nat
    PROVE  IsNull(AddData(vec, other, size), i) <=>
               IF i < size THEN IsNull(vec, i) ELSE IsNull(other, i - size)
<1> DEFINE new  == AddData(vec, other, size)
           nf   == new.null_flags
           r    == ResizeNullTo(vec, size)
           e    == other.data
           g    == other.null_flags
           data == Filled(vec.data, size, Zero) \o e
<1>1. /\ vec.data \in Seq(Values) /\ Len(vec.data) \in Nat /\ Len(vec.data) <= size
      /\ Len(vec.null_flags) \in Nat /\ Len(vec.null_flags) <= size
      /\ e \in Seq(Values) /\ Len(e) \in Nat /\ g \in Seq(Bits) /\ Len(g) \in Nat
  BY DEF Vectors, Fits
<1>2. Len(data) = size + Len(e)
  <2> DEFINE d == vec.data
  <2> HIDE DEF d, e
  <2>1. Len(Filled(d, size, Zero) \o e) = size + Len(e)
    BY <1>1, JoinedValues DEF d
  <2> QED BY <2>1 DEF d
<1>3. IsNull(new, i) <=> IF i < Len(nf) THEN nf[i + 1] = 1 ELSE i >= Len(new.data)
  BY DEF IsNull
<1>4. i >= size => (IsNull(other, i - size) <=>
                        IF i - size < Len(g) THEN g[i - size + 1] = 1
                        ELSE i - size >= Len(e))
  BY DEF IsNull
<1>5. r \in Seq(Bits) /\ Len(r) = size
  BY <1>1, ResizeNullToType DEF Larger
<1>6. Len(r \o g) = size + Len(g)
  <2> HIDE DEF r, g
  <2> QED BY <1>1, <1>5, Joined
<1>7. ASSUME nf = r \o g
      PROVE  /\ i < size => i < Len(nf) /\ (nf[i + 1] = 1 <=> IsNull(vec, i))
             /\ i >= size /\ i < Len(nf) => (nf[i + 1] = 1 <=> IsNull(other, i - size))
             /\ i >= Len(nf) => (i - size >= Len(e) <=> IsNull(other, i - size))
  <2>1. /\ i < size => i < Len(r \o g) /\ ((r \o g)[i + 1] = 1 <=> IsNull(vec, i))
        /\ i >= size /\ i < Len(r \o g) => ((r \o g)[i + 1] = 1 <=> IsNull(other, i - size))
        /\ i >= Len(r \o g) => (i - size >= Len(e) <=> IsNull(other, i - size))
    BY JoinedNulls
  <2> HIDE DEF nf, r, g, e
  <2> QED BY <1>7, <2>1
<1> SUFFICES IsNull(new, i) <=> IF i < size THEN IsNull(vec, i) ELSE IsNull(other, i - size)
  OBVIOUS
<1>8. CASE e = <<>> /\ g # <<>>
  <2>1. nf = r \o g /\ new.data = vec.data /\ Len(e) = 0
    BY <1>8 DEF AddData
  <2> HIDE DEF new, nf, r, e, g, data
  <2>2. i >= Len(nf) => i >= Len(new.data) /\ i - size >= Len(e) /\ i >= size
    BY <1>1, <1>6, <2>1
  <2>3. CASE i < size
    BY <1>3, <1>7, <2>1, <2>3
  <2>4. CASE i >= size
    BY <1>3, <1>7, <2>1, <2>2, <2>4
  <2> QED BY <2>3, <2>4
<1>9. CASE e # <<>> /\ g = <<>>
  <2>1. /\ nf = (IF Len(vec.data) < size THEN r ELSE vec.null_flags)
        /\ new.data = data /\ Len(g) = 0
    BY <1>9 DEF AddData
  <2>2. Len(vec.data) < size /\ i < size => (r[i + 1] = 1 <=> IsNull(vec, i))
    BY <1>5, ResizeKeepsNulls
  <2>3. IsNull(vec, i) <=>
            IF i < Len(vec.null_flags) THEN vec.null_flags[i + 1] = 1 ELSE i >= Len(vec.data)
    BY DEF IsNull
  <2> HIDE DEF new, nf, r, e, g, data
  <2>4. CASE i < size
    BY <1>1, <1>2, <1>3, <1>5, <2>1, <2>2, <2>3, <2>4
  <2>5. CASE i >= size
    <3>1. Len(nf) <= size /\ Len(nf) \in Nat
      BY <1>1, <1>5, <2>1
    <3>2. IsNull(new, i) <=> i >= size + Len(e)
      BY <1>2, <1>3, <2>1, <2>5, <3>1
    <3>3. IsNull(other, i - size) <=> i - size >= Len(e)
      BY <1>4, <2>1, <2>5
    <3> QED BY <1>1, <2>5, <3>2, <3>3
  <2> QED BY <2>4, <2>5
<1>10. CASE ~(e = <<>> /\ g # <<>>) /\ ~(e # <<>> /\ g = <<>>)
  <2>1. nf = r \o g /\ new.data = data
    BY <1>10 DEF AddData
  <2> HIDE DEF new, nf, r, e, g, data
  <2>2. i >= Len(nf) => i >= size /\ (i >= Len(new.data) <=> i - size >= Len(e))
    BY <1>1, <1>2, <1>6, <2>1
  <2>3. CASE i < size
    BY <1>3, <1>7, <2>1, <2>3
  <2>4. CASE i >= size
    BY <1>3, <1>7, <2>1, <2>2, <2>4
  <2> QED BY <2>3, <2>4
<1> QED BY <1>8, <1>9, <1>10

(* After addData the entries of the other column come behind those of the buffer. *)
LEMMA AddDataEntries ==
    ASSUME NEW vec \in Vectors, NEW other \in Vectors, Agrees(vec), Agrees(other),
           NEW size \in Nat, Fits(vec, size), NEW i \in Nat
    PROVE  Entry(AddData(vec, other, size), i) =
               IF i < size THEN Entry(vec, i) ELSE Entry(other, i - size)
<1> DEFINE new == AddData(vec, other, size)
<1>1. IsNull(new, i) <=> IF i < size THEN IsNull(vec, i) ELSE IsNull(other, i - size)
  BY AddDataNulls
<1>2. /\ vec.data \in Seq(Values) /\ Len(vec.data) \in Nat /\ Len(vec.data) <= size
      /\ other.data \in Seq(Values) /\ Len(other.data) \in Nat
  BY DEF Vectors, Fits
<1>3. /\ \A j \in 1 .. Len(vec.data) : new.data[j] = vec.data[j]
      /\ \A j \in size + 1 .. size + Len(other.data) : new.data[j] = other.data[j - size]
  <2>1. CASE other.data = <<>> /\ other.null_flags # <<>>
    <3>1. new.data = vec.data /\ Len(other.data) = 0
      BY <2>1 DEF AddData
    <3> HIDE DEF new
    <3> QED BY <3>1
  <2>2. CASE ~(other.data = <<>> /\ other.null_flags # <<>>)
    <3> DEFINE d == vec.data
               e == other.data
               data == Filled(d, size, Zero) \o e
    <3>1. new.data = data
      BY <2>2 DEF AddData
    <3>2. d \in Seq(Values) /\ Len(d) <= size /\ e \in Seq(Values)
      BY <1>2
    <3> HIDE DEF d, e
    <3>3. /\ \A j \in 1 .. Len(d) : data[j] = d[j]
          /\ \A j \in size + 1 .. size + Len(e) : data[j] = e[j - size]
      BY <3>2, JoinedValues
    <3> HIDE DEF new, data
    <3> QED BY <3>1, <3>3 DEF d, e
  <2> QED BY <2>1, <2>2
<1>4. Entry(new, i) = IF IsNull(new, i) THEN Null ELSE new.data[i + 1]
  BY DEF Entry
<1> SUFFICES Entry(new, i) = IF i < size THEN Entry(vec, i) ELSE Entry(other, i - size)
  OBVIOUS
<1> HIDE DEF new
<1>5. CASE i < size
  <2>1. CASE IsNull(vec, i)
    BY <1>1, <1>4, <1>5, <2>1 DEF Entry
  <2>2. CASE ~IsNull(vec, i)
    <3>1. i < Len(vec.data) /\ Entry(vec, i) = vec.data[i + 1]
      BY <2>2, NotNullIsThere
    <3>2. new.data[i + 1] = vec.data[i + 1]
      BY <1>2, <1>3, <3>1
    <3> QED BY <1>1, <1>4, <1>5, <2>2, <3>1, <3>2
  <2> QED BY <2>1, <2>2
<1>6. CASE ~(i < size)
  <2> DEFINE k == i - size
  <2>1. k \in Nat /\ i + 1 - size = k + 1
    BY <1>6
  <2>2. CASE IsNull(other, k)
    <3>1. Entry(other, k) = Null
      BY <2>2 DEF Entry
    <3> QED BY <1>1, <1>4, <1>6, <2>2, <3>1
  <2>3. CASE ~IsNull(other, k)
    <3> HIDE DEF k
    <3>1. k < Len(other.data) /\ Entry(other, k) = other.data[k + 1]
      BY <2>1, <2>3, NotNullIsThere
    <3>2. i + 1 \in size + 1 .. size + Len(other.data)
      BY <1>2, <1>6, <2>1, <3>1
    <3>3. new.data[i + 1] = other.data[k + 1]
      BY <1>3, <2>1, <3>2
    <3> QED BY <1>1, <1>4, <1>6, <2>3, <3>1, <3>3 DEF k
  <2> QED BY <2>2, <2>3
<1> QED BY <1>5, <1>6

(* A buffer that seizes another one is a table with the rows of both. *)
LEMMA SeizeImplements ==
    ASSUME Sound, Sound', SeizeBuffer
    PROVE  Table!Next
<1>1. PICK b \in Buffers, org \in Buffers :
          /\ b # org
          /\ columns' = [columns EXCEPT ![b] = Seized(b, org), ![org] = NoRows]
          /\ data_size' = [data_size EXCEPT ![b] = @ + data_size[org], ![org] = 0]
  BY DEF SeizeBuffer
<1>2. /\ columns \in [Buffers -> [Columns -> Vectors]]
      /\ data_size \in [Buffers -> Nat]
  BY DEF Sound
<1> DEFINE size == data_size[b]
           more == data_size[org]
<1>3. /\ columns'[b] = Seized(b, org)
      /\ data_size'[b] = size + more /\ data_size'[org] = 0
      /\ \A a \in Buffers \ {b, org} : columns'[a] = columns[a] /\ data_size'[a] = data_size[a]
  BY <1>1, <1>2
<1>4. /\ Rows(b) \in Seq(RowType) /\ Len(Rows(b)) = size /\ size \in Nat
      /\ \A r \in 1 .. size : Rows(b)[r] = [c \in Columns |-> Entry(columns[b][c], r - 1)]
  BY RowsType
<1>5. /\ Rows(org) \in Seq(RowType) /\ Len(Rows(org)) = more /\ more \in Nat
      /\ \A r \in 1 .. more : Rows(org)[r] = [c \in Columns |-> Entry(columns[org][c], r - 1)]
  BY RowsType
<1>6. AllRows' = [a \in Buffers |-> Rows(a)'] /\ AllRows = [a \in Buffers |-> Rows(a)]
  BY DEF AllRows
<1>7. \A a \in Buffers \ {b, org} : AllRows'[a] = AllRows[a]
  BY <1>3, <1>6 DEF Rows
<1>8. AllRows'[org] = <<>>
  <2>1. AllRows'[org] = [r \in 1 .. 0 |-> [c \in Columns |-> Entry(columns'[org][c], r - 1)]]
    BY <1>3, <1>6 DEF Rows
  <2> QED BY <2>1
<1>9. AllRows'[b] =
          [r \in 1 .. size + more |-> [c \in Columns |-> Entry(columns'[b][c], r - 1)]]
  BY <1>3, <1>6 DEF Rows
<1>10. \A c \in Columns : /\ columns[b][c] \in Vectors /\ columns[org][c] \in Vectors
                          /\ Agrees(columns[b][c]) /\ Agrees(columns[org][c])
                          /\ Fits(columns[b][c], size)
                          /\ columns'[b][c] = AddData(columns[b][c], columns[org][c], size)
  BY <1>2, <1>3 DEF Sound, Seized
<1> HIDE DEF size, more
<1>11. ASSUME NEW r \in 1 .. size + more, NEW c \in Columns
       PROVE  Entry(columns'[b][c], r - 1) =
                  IF r <= size THEN Entry(columns[b][c], r - 1)
                  ELSE Entry(columns[org][c], r - size - 1)
  <2>1. r - 1 \in Nat /\ (r - 1 < size <=> r <= size) /\ r - 1 - size = r - size - 1
    BY <1>4, <1>5
  <2>2. Entry(AddData(columns[b][c], columns[org][c], size), r - 1) =
            IF r - 1 < size THEN Entry(columns[b][c], r - 1)
            ELSE Entry(columns[org][c], r - 1 - size)
    BY <1>4, <1>10, <2>1, AddDataEntries
  <2> QED BY <1>10, <2>1, <2>2
<1>12. ASSUME NEW r \in 1 .. size + more
       PROVE  AllRows'[b][r] = (Rows(b) \o Rows(org))[r]
  <2>1. AllRows'[b][r] = [c \in Columns |-> Entry(columns'[b][c], r - 1)]
    BY <1>9
  <2>2. (Rows(b) \o Rows(org))[r] = IF r <= size THEN Rows(b)[r] ELSE Rows(org)[r - size]
    BY <1>4, <1>5, ConcatProperties
  <2>3. CASE r <= size
    <3>1. Rows(b)[r] = [c \in Columns |-> Entry(columns[b][c], r - 1)]
      BY <1>4, <1>5, <2>3
    <3> QED BY <1>11, <2>1, <2>2, <2>3, <3>1
  <2>4. CASE ~(r <= size)
    <3>1. r - size \in 1 .. more
      BY <1>4, <1>5, <2>4
    <3>2. Rows(org)[r - size] = [c \in Columns |-> Entry(columns[org][c], r - size - 1)]
      BY <1>5, <3>1
    <3> QED BY <1>11, <2>1, <2>2, <2>4, <3>2
  <2> QED BY <2>3, <2>4
<1>13. AllRows'[b] = Rows(b) \o Rows(org)
  <2>1. /\ Rows(b) \o Rows(org) \in Seq(RowType)
        /\ Len(Rows(b) \o Rows(org)) = size + more
    BY <1>4, <1>5, ConcatProperties
  <2>2. AllRows'[b] \in Seq(RowType) /\ Len(AllRows'[b]) = size + more
    <3>1. \A r \in 1 .. size + more : (Rows(b) \o Rows(org))[r] \in RowType
      BY <1>4, <1>5, <2>1
    <3>2. \A r \in 1 .. size + more : AllRows'[b][r] \in RowType
      BY <1>12, <3>1
    <3>3. size + more \in Nat
      BY <1>4, <1>5
    <3>4. /\ DOMAIN AllRows'[b] = 1 .. size + more
          /\ AllRows'[b] = [r \in 1 .. size + more |-> AllRows'[b][r]]
      BY <1>9
    <3> HIDE DEF AllRows
    <3> QED BY <3>2, <3>3, <3>4
  <2> QED BY <1>12, <2>1, <2>2, SeqEqual
<1>14. AllRows' = [AllRows EXCEPT ![b] = AllRows[b] \o AllRows[org], ![org] = <<>>]
  BY <1>1, <1>6, <1>7, <1>8, <1>13
<1>15. \E a \in Buffers, o \in Buffers :
           /\ a # o
           /\ AllRows' = [AllRows EXCEPT ![a] = AllRows[a] \o AllRows[o], ![o] = <<>>]
  BY <1>1, <1>14
<1>16. Table!Seize
  BY <1>15 DEF Table!Seize, AllRows
<1> QED BY <1>16 DEF Table!Next

(* Cutting a column leaves the entries before the cut. *)
LEMMA CutEntries ==
    ASSUME NEW vec \in Vectors, Agrees(vec), NEW n \in Nat, NEW i \in Nat, i < n
    PROVE  Entry(CutToSize(vec, n), i) = Entry(vec, i)
<1> DEFINE new   == CutToSize(vec, n)
           flags == vec.null_flags
           data  == vec.data
<1>1. flags \in Seq(Bits) /\ Len(flags) \in Nat /\ data \in Seq(Values) /\ Len(data) \in Nat
  BY DEF Vectors
<1>2. new.data = Cut(data, n) /\ new.null_flags = Cut(flags, n)
  BY DEF CutToSize
<1>3. /\ IsNull(new, i) <=> IF i < Len(new.null_flags) THEN new.null_flags[i + 1] = 1
                            ELSE i >= Len(new.data)
      /\ IsNull(vec, i) <=> IF i < Len(flags) THEN flags[i + 1] = 1 ELSE i >= Len(data)
  BY DEF IsNull
<1>4. /\ Entry(new, i) = IF IsNull(new, i) THEN Null ELSE new.data[i + 1]
      /\ Entry(vec, i) = IF IsNull(vec, i) THEN Null ELSE data[i + 1]
  BY DEF Entry
<1> HIDE DEF new, flags, data
<1>5. /\ Len(Cut(data, n)) = (IF Len(data) > n THEN n ELSE Len(data))
      /\ \A j \in 1 .. Len(Cut(data, n)) : Cut(data, n)[j] = data[j]
  BY <1>1, CutType
<1>6. /\ Len(Cut(flags, n)) = (IF Len(flags) > n THEN n ELSE Len(flags))
      /\ \A j \in 1 .. Len(Cut(flags, n)) : Cut(flags, n)[j] = flags[j]
  BY <1>1, CutType
<1>7. i < Len(new.null_flags) <=> i < Len(flags)
  BY <1>1, <1>2, <1>6
<1>8. i < Len(new.data) <=> i < Len(data)
  BY <1>1, <1>2, <1>5
<1>9. i < Len(flags) => new.null_flags[i + 1] = flags[i + 1]
  BY <1>1, <1>2, <1>6, <1>7
<1>10. i < Len(data) => new.data[i + 1] = data[i + 1]
  BY <1>1, <1>2, <1>5, <1>8
<1>11. Len(new.data) \in Nat
  BY <1>1, <1>2, <1>5
<1>12. IsNull(new, i) <=> IsNull(vec, i)
  BY <1>1, <1>3, <1>7, <1>8, <1>9, <1>11
<1>13. ~IsNull(vec, i) => i < Len(data)
  BY NotNullIsThere DEF data
<1> QED BY <1>4, <1>10, <1>12, <1>13 DEF new

(* A buffer that is cut is a table that is cut. *)
LEMMA CuttingImplements ==
    ASSUME Sound, Sound', Cutting
    PROVE  Table!Next
<1>1. PICK b \in Buffers : \E n \in 0 .. data_size[b] :
          /\ columns' = [columns EXCEPT ![b] = [c \in Columns |-> CutToSize(@[c], n)]]
          /\ data_size' = [data_size EXCEPT ![b] = n]
  BY DEF Cutting
<1>2. PICK n \in 0 .. data_size[b] :
          /\ columns' = [columns EXCEPT ![b] = [c \in Columns |-> CutToSize(@[c], n)]]
          /\ data_size' = [data_size EXCEPT ![b] = n]
  BY <1>1
<1>3. /\ columns \in [Buffers -> [Columns -> Vectors]]
      /\ data_size \in [Buffers -> Nat]
  BY DEF Sound
<1>4. /\ Rows(b) \in Seq(RowType) /\ Len(Rows(b)) = data_size[b] /\ data_size[b] \in Nat
      /\ \A r \in 1 .. data_size[b] :
             Rows(b)[r] = [c \in Columns |-> Entry(columns[b][c], r - 1)]
  BY RowsType
<1>5. /\ n \in Nat /\ n <= data_size[b]
      /\ columns'[b] = [c \in Columns |-> CutToSize(columns[b][c], n)]
      /\ data_size'[b] = n
      /\ \A a \in Buffers \ {b} : columns'[a] = columns[a] /\ data_size'[a] = data_size[a]
  BY <1>2, <1>3, <1>4
<1>6. AllRows' = [a \in Buffers |-> Rows(a)'] /\ AllRows = [a \in Buffers |-> Rows(a)]
  BY DEF AllRows
<1>7. \A a \in Buffers \ {b} : AllRows'[a] = AllRows[a]
  BY <1>5, <1>6 DEF Rows
<1>8. AllRows'[b] = [r \in 1 .. n |-> [c \in Columns |-> Entry(columns'[b][c], r - 1)]]
  BY <1>5, <1>6 DEF Rows
<1>9. ASSUME NEW r \in 1 .. n
      PROVE  AllRows'[b][r] = Rows(b)[r]
  <2>1. r - 1 \in Nat /\ r - 1 < n /\ r \in 1 .. data_size[b]
    BY <1>4, <1>5
  <2>2. \A c \in Columns : Entry(columns'[b][c], r - 1) = Entry(columns[b][c], r - 1)
    <3> TAKE c \in Columns
    <3>1. columns[b][c] \in Vectors /\ Agrees(columns[b][c])
      BY <1>3 DEF Sound
    <3> QED BY <1>5, <2>1, <3>1, CutEntries
  <2>3. AllRows'[b][r] = [c \in Columns |-> Entry(columns'[b][c], r - 1)]
    BY <1>8
  <2>4. Rows(b)[r] = [c \in Columns |-> Entry(columns[b][c], r - 1)]
    BY <1>4, <2>1
  <2> QED BY <2>2, <2>3, <2>4
<1>10. AllRows'[b] = SubSeq(Rows(b), 1, n)
  <2>1. \A r \in 1 .. n : Rows(b)[r] \in RowType
    BY <1>4, <1>5
  <2>2. /\ SubSeq(Rows(b), 1, n) \in Seq(RowType)
        /\ Len(SubSeq(Rows(b), 1, n)) = (IF 1 <= n THEN n - 1 + 1 ELSE 0)
        /\ \A r \in 1 .. n - 1 + 1 : SubSeq(Rows(b), 1, n)[r] = Rows(b)[1 + r - 1]
    BY <1>5, <2>1, SubSeqProperties
  <2>3. /\ Len(SubSeq(Rows(b), 1, n)) = n
        /\ \A r \in 1 .. n : SubSeq(Rows(b), 1, n)[r] = Rows(b)[r]
    BY <1>5, <2>2
  <2>4. AllRows'[b] \in Seq(RowType) /\ Len(AllRows'[b]) = n
    <3>1. \A r \in 1 .. n : AllRows'[b][r] \in RowType
      BY <1>9, <2>1
    <3>2. DOMAIN AllRows'[b] = 1 .. n /\ AllRows'[b] = [r \in 1 .. n |-> AllRows'[b][r]]
      BY <1>8
    <3> HIDE DEF AllRows
    <3> QED BY <1>5, <3>1, <3>2
  <2> QED BY <1>9, <2>2, <2>3, <2>4, SeqEqual
<1>11. AllRows' = [AllRows EXCEPT ![b] = SubSeq(AllRows[b], 1, n)]
  BY <1>6, <1>7, <1>10
<1>12. n \in 0 .. Len(AllRows[b])
  BY <1>4, <1>5, <1>6
<1>13. \E a \in Buffers : \E size \in 0 .. Len(AllRows[a]) :
           AllRows' = [AllRows EXCEPT ![a] = SubSeq(AllRows[a], 1, size)]
  BY <1>11, <1>12
<1>14. Table!CutToSize
  BY <1>13 DEF Table!CutToSize, AllRows
<1> QED BY <1>14 DEF Table!Next

-----------------------------------------------------------------------------
(* A buffer is a table of rows with an entry for each column, however vectors and flags     *)
(* have grown: ImplementsTable, for any values, columns and buffers.                        *)
THEOREM BufferImplementsTable == Spec => ImplementsTable
<1>1. Init => Table!Init
  <2> SUFFICES ASSUME Init PROVE AllRows = [b \in Buffers |-> <<>>]
    BY DEF AllRows, Table!Init
  <2>1. ASSUME NEW b \in Buffers PROVE Rows(b) = <<>>
    <3>1. Rows(b) = [r \in 1 .. 0 |-> [c \in Columns |-> Entry(columns[b][c], r - 1)]]
      BY DEF Init, Rows
    <3> QED BY <3>1
  <2> QED BY <2>1 DEF AllRows
<1>2. Sound /\ Sound' /\ [Next]_vars => [Table!Next]_[b \in Buffers |-> Rows(b)]
  <2> SUFFICES ASSUME Sound, Sound', [Next]_vars PROVE Table!Next \/ UNCHANGED AllRows
    BY DEF AllRows
  <2>1. ASSUME NEW b \in Buffers, NEW c \in Columns
        PROVE  /\ columns[b][c] \in Vectors /\ Agrees(columns[b][c])
               /\ Fits(columns[b][c], data_size[b]) /\ data_size[b] \in Nat
    BY DEF Sound
  <2>2. \A k \in 0 .. MaxRows - 1 : k \in Nat
    BY MaxRowsAssumption
  <2>3. CASE Set
    <3>1. PICK b \in Buffers, c \in Columns, k \in 0 .. MaxRows - 1, value \in Values :
              Grow(b, c, SetValue(columns[b][c], k, value))
      BY <2>3 DEF Set
    <3> DEFINE vec == columns[b][c]
               new == SetValue(vec, k, value)
    <3>2. new \in Vectors /\ Agrees(new)
      BY <2>1, <2>2, SetValueAgrees
    <3>3. SizeWith(new, data_size[b]) = Larger(data_size[b], k + 1)
      BY <2>1, <2>2, SizeAfterSet
    <3>4. \A i \in Nat : i # k => Entry(new, i) = Entry(vec, i)
      BY <2>1, <2>2, SetValueWrites
    <3> HIDE DEF new
    <3> QED BY <3>1, <3>2, <3>3, <3>4, GrowImplements DEF new
  <2>4. CASE AppendTo
    <3>1. PICK b \in Buffers, c \in Columns, k \in 0 .. MaxRows - 1, value \in Values :
              Grow(b, c, AppendValue(columns[b][c], k, value))
      BY <2>4 DEF AppendTo
    <3> DEFINE vec == columns[b][c]
               sum == Add(RoomForData(vec, k)[k + 1], value)
               new == SetValue(vec, k, sum)
    <3>2. sum \in Values
      BY <2>1, <2>2, AppendedType
    <3>3. Grow(b, c, new)
      BY <3>1 DEF AppendValue
    <3> HIDE DEF sum
    <3>4. new \in Vectors /\ Agrees(new)
      BY <2>1, <2>2, <3>2, SetValueAgrees
    <3>5. SizeWith(new, data_size[b]) = Larger(data_size[b], k + 1)
      BY <2>1, <2>2, <3>2, SizeAfterSet
    <3>6. \A i \in Nat : i # k => Entry(new, i) = Entry(vec, i)
      BY <2>1, <2>2, <3>2, SetValueWrites
    <3> HIDE DEF new
    <3> QED BY <3>3, <3>4, <3>5, <3>6, GrowImplements
  <2>5. CASE SetEntryNull
    <3>1. PICK b \in Buffers, c \in Columns, k \in 0 .. MaxRows - 1 :
              Grow(b, c, SetNull(columns[b][c], k))
      BY <2>5 DEF SetEntryNull
    <3> DEFINE vec == columns[b][c]
               new == SetNull(vec, k)
    <3>2. new \in Vectors /\ Agrees(new)
      BY <2>1, <2>2, SetNullAgrees
    <3>3. SizeWith(new, data_size[b]) = Larger(data_size[b], k + 1)
      BY <2>1, <2>2, SizeAfterSetNull
    <3>4. \A i \in Nat : i # k => Entry(new, i) = Entry(vec, i)
      BY <2>1, <2>2, SetNullWrites
    <3> HIDE DEF new
    <3> QED BY <3>1, <3>2, <3>3, <3>4, GrowImplements DEF new
  <2>6. CASE SeizeBuffer
    BY <2>6, SeizeImplements
  <2>7. CASE Cutting
    BY <2>7, CuttingImplements
  <2>8. CASE UNCHANGED vars
    BY <2>8 DEF vars, AllRows, Rows
  <2> QED BY <2>3, <2>4, <2>5, <2>6, <2>7, <2>8 DEF Next
<1>3. Spec => []Sound
  BY SoundInvariant
<1> QED BY <1>1, <1>2, <1>3, PTL DEF Spec, ImplementsTable, Table!Spec
=============================================================================
