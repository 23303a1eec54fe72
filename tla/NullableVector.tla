--------------------------- MODULE NullableVector ---------------------------
(***************************************************************************)
(* A column of a buffer (src/src/buffer/nullablevector.h): values and      *)
(* flags that tell which entries are null.  Both vectors only grow as far  *)
(* as they are needed: flags that are missing stand for entries that are   *)
(* set, values that are missing for entries that are null.  Indexes count  *)
(* from zero, as in the code.                                              *)
(***************************************************************************)
EXTENDS Naturals, Sequences

CONSTANTS
    Values,     \* values of an entry
    Zero,       \* T()
    Null,       \* no value
    Add(_, _)   \* operator+= of the type, for strings the appending with a separator

ASSUME ZeroAssumption == Zero \in Values /\ Null \notin Values
ASSUME AddAssumption ==
    \A a, b \in Values : Add(a, b) \in Values /\ Add(Zero, b) = b

\* Flags are bits: 1 for null.
Bits == {0, 1}

Vectors == [data : Seq(Values), null_flags : Seq(Bits)]

Empty == [data |-> <<>>, null_flags |-> <<>>]

Larger(m, n) == IF m < n THEN n ELSE m

\* isNull: an entry without a flag is null if it has no value.
IsNull(vec, index) ==
    IF index < Len(vec.null_flags)
    THEN vec.null_flags[index + 1] = 1
    ELSE index >= Len(vec.data)

\* get, or Null where it throws.
Entry(vec, index) == IF IsNull(vec, index) THEN Null ELSE vec.data[index + 1]

\* std::vector::resize, to no less than there is.
Resized(seq, size, fill) == [i \in 1 .. size |-> IF i <= Len(seq) THEN seq[i] ELSE fill]

Filled(seq, size, fill) == IF Len(seq) < size THEN Resized(seq, size, fill) ELSE seq

Replaced(seq, index, element) == [seq EXCEPT ![index + 1] = element]

\* Seeded fault: entries set without a flag are not filled in.
FillNoFlags(vec) == vec.null_flags

\* resizeNullTo, first part: data was set without flags, these were not null.
FillFlags(vec) == Filled(vec.null_flags, Len(vec.data), 0)

\* The flags after resizeNullTo.
ResizeNullTo(vec, size) == Filled(FillFlags(vec), size, 1)

\* The flags after unsetNull.
UnsetNull(flags, index) == IF index < Len(flags) THEN Replaced(flags, index, 0) ELSE flags

\* set and append: null for the entries that are left out ...
RoomForFlags(vec, index) ==
    IF index > Len(vec.data) THEN ResizeNullTo(vec, index + 1) ELSE vec.null_flags

\* ... and room for the value.
RoomForData(vec, index) == Filled(vec.data, index + 1, Zero)

SetValue(vec, index, value) ==
    [data       |-> Replaced(RoomForData(vec, index), index, value),
     null_flags |-> UnsetNull(RoomForFlags(vec, index), index)]

AppendValue(vec, index, value) ==
    SetValue(vec, index, Add(RoomForData(vec, index)[index + 1], value))

SetNull(vec, index) ==
    [data       |-> vec.data,
     null_flags |-> Replaced(IF index >= Len(vec.null_flags) THEN ResizeNullTo(vec, index + 1)
                             ELSE vec.null_flags, index, 1)]

\* Seeded fault: values set without flags are moved behind flags that end early.
AddDataWithoutNull(vec, other, size) ==
    [data |-> vec.data \o other.data, null_flags |-> vec.null_flags \o other.null_flags]

\* addData, for a buffer of this size: flags only, values only, or both.
AddData(vec, other, size) ==
    IF other.data = <<>> /\ other.null_flags # <<>>
    THEN [data |-> vec.data, null_flags |-> ResizeNullTo(vec, size) \o other.null_flags]
    ELSE IF other.data # <<>> /\ other.null_flags = <<>>
    THEN [data       |-> Filled(vec.data, size, Zero) \o other.data,
          null_flags |-> IF Len(vec.data) < size THEN ResizeNullTo(vec, size)
                         ELSE vec.null_flags]
    ELSE [data       |-> Filled(vec.data, size, Zero) \o other.data,
          null_flags |-> ResizeNullTo(vec, size) \o other.null_flags]

\* pop_back until the size is reached.
Cut(seq, size) == [i \in 1 .. (IF Len(seq) > size THEN size ELSE Len(seq)) |-> seq[i]]

CutToSize(vec, size) ==
    [data |-> Cut(vec.data, size), null_flags |-> Cut(vec.null_flags, size)]

\* The size of the buffer a vector asks for when it has grown.
SizeWith(vec, size) == Larger(size, Larger(Len(vec.data), Len(vec.null_flags)))

\* distinctValuesWithIndexes and nullValueIndexes of a range; nothing at all without data.
DistinctValuesWithIndexes(vec, from, to) ==
    IF from + 1 > Len(vec.data) THEN {}
    ELSE {<<vec.data[i + 1], i>> : i \in {j \in from .. to : ~IsNull(vec, j)}}

NullValueIndexes(vec, from, to) == {i \in from .. to : IsNull(vec, i)}
=============================================================================
