------------------------- MODULE JSONMappingProofs -------------------------
(***************************************************************************)
(* Theorems about JSONMapping, for any parsers, records and variables, and *)
(* any number of records.  Until a parser of an object takes a report      *)
(* without a value: the rows of its buffer are the target reports that     *)
(* were taken, entry by entry, whatever rows were written in part and      *)
(* taken back, and no value is converted twice.  The counters of the job   *)
(* tell how many records came to a row, always.                            *)
(***************************************************************************)
EXTENDS JSONMapping, FiniteSetTheorems, WellFoundedInduction, TLAPS

-----------------------------------------------------------------------------
(* Columns whose values are entries: what set, setNull and cutToSize do.   *)

(* Entries with a value. *)
Values == Nat \X Nat

(* A flag that is not null stands for a value. *)
Agrees(vec) ==
    \A i \in DOMAIN vec.null_flags : vec.null_flags[i] = 0 => i <= Len(vec.data)

(* A column is not longer than its buffer. *)
Fits(vec, size) == Len(vec.data) <= size /\ Len(vec.null_flags) <= size

(* What a column is made of. *)
LEMMA VectorParts ==
    ASSUME NEW vec \in Vector!Vectors
    PROVE  /\ vec = [data |-> vec.data, null_flags |-> vec.null_flags]
           /\ vec.data \in Seq(Values) /\ Len(vec.data) \in Nat
           /\ vec.null_flags \in Seq(Vector!Bits) /\ Len(vec.null_flags) \in Nat
           /\ DOMAIN vec.data = 1 .. Len(vec.data)
           /\ DOMAIN vec.null_flags = 1 .. Len(vec.null_flags)
<1>1. /\ vec = [data |-> vec.data, null_flags |-> vec.null_flags]
      /\ vec.data \in Seq(Values) /\ vec.null_flags \in Seq(Vector!Bits)
    BY DEF Vector!Vectors, Values
<1> HIDE DEF Values
<1> QED
    BY <1>1

(* Two sequences make a column. *)
LEMMA MadeVector ==
    ASSUME NEW data \in Seq(Values), NEW flags \in Seq(Vector!Bits)
    PROVE  [data |-> data, null_flags |-> flags] \in Vector!Vectors
    BY DEF Vector!Vectors, Values

(* Filling up. *)
LEMMA FilledUp ==
    ASSUME NEW S, NEW s \in Seq(S), NEW n \in Nat, NEW fill \in S
    PROVE  /\ Vector!Filled(s, n, fill) \in Seq(S)
           /\ Len(Vector!Filled(s, n, fill)) = Vector!Larger(Len(s), n)
           /\ \A i \in 1 .. Len(s) : Vector!Filled(s, n, fill)[i] = s[i]
           /\ \A i \in Len(s) + 1 .. n : Vector!Filled(s, n, fill)[i] = fill
<1>1. \A i \in 1 .. n : i <= Len(s) => s[i] \in S
    OBVIOUS
<1> QED
    BY <1>1 DEF Vector!Filled, Vector!Resized, Vector!Larger

(* The flags after resizeNullTo: no entry becomes null or set by it. *)
LEMMA ResizedFlags ==
    ASSUME NEW vec \in Vector!Vectors, NEW n \in Nat,
           Len(vec.data) <= n, Len(vec.null_flags) <= n
    PROVE  LET flags == Vector!ResizeNullTo(vec, n) IN
           /\ flags \in Seq(Vector!Bits) /\ Len(flags) = n
           /\ \A i \in 1 .. n : flags[i] = 1 <=> Vector!IsNull(vec, i - 1)
<1> DEFINE d  == Len(vec.data)
           g  == vec.null_flags
           f  == Vector!FillFlags(vec)
           r  == Vector!ResizeNullTo(vec, n)
<1>1. d \in Nat /\ g \in Seq(Vector!Bits) /\ Len(g) \in Nat /\ d <= n /\ Len(g) <= n
    BY VectorParts
<1>2. f = Vector!Filled(g, d, 0) /\ r = Vector!Filled(f, n, 1)
    BY DEF Vector!FillFlags, Vector!ResizeNullTo
<1>3. \A i \in 1 .. n : Vector!IsNull(vec, i - 1) <=>
                            IF i - 1 < Len(g) THEN g[i - 1 + 1] = 1 ELSE i - 1 >= d
    BY DEF Vector!IsNull
<1> HIDE DEF d, g, f, r
<1>b. 0 \in Vector!Bits /\ 1 \in Vector!Bits
    BY DEF Vector!Bits
<1>4. /\ f \in Seq(Vector!Bits) /\ Len(f) = Vector!Larger(Len(g), d)
      /\ \A i \in 1 .. Len(g) : f[i] = g[i]
      /\ \A i \in Len(g) + 1 .. d : f[i] = 0
  <2>1. f \in Seq(Vector!Bits) /\ Len(f) = Vector!Larger(Len(g), d)
      BY <1>1, <1>2, <1>b, FilledUp
  <2>2. \A i \in 1 .. Len(g) : Vector!Filled(g, d, 0)[i] = g[i]
      BY <1>1, <1>b, FilledUp
  <2>3. \A i \in Len(g) + 1 .. d : Vector!Filled(g, d, 0)[i] = 0
      BY <1>1, <1>b, FilledUp
  <2> QED
      BY <1>2, <2>1, <2>2, <2>3
<1>n. n \in Nat /\ f \in Seq(Vector!Bits)
    BY <1>4
<1>5. /\ r \in Seq(Vector!Bits) /\ Len(r) = Vector!Larger(Len(f), n)
      /\ \A i \in 1 .. Len(f) : r[i] = f[i]
      /\ \A i \in Len(f) + 1 .. n : r[i] = 1
  <2>1. r \in Seq(Vector!Bits) /\ Len(r) = Vector!Larger(Len(f), n)
      BY <1>2, <1>4, <1>b, <1>n, FilledUp
  <2>2. \A i \in 1 .. Len(f) : Vector!Filled(f, n, 1)[i] = f[i]
      BY <1>b, <1>n, FilledUp
  <2>3. \A i \in Len(f) + 1 .. n : Vector!Filled(f, n, 1)[i] = 1
      BY <1>b, <1>n, FilledUp
  <2> QED
      BY <1>2, <2>1, <2>2, <2>3
<1>6. Len(r) = n /\ Len(f) <= n /\ Len(f) \in Nat
    BY <1>1, <1>4, <1>5 DEF Vector!Larger
<1>7. ASSUME NEW i \in 1 .. n
      PROVE  r[i] = 1 <=> IF i - 1 < Len(g) THEN g[i - 1 + 1] = 1 ELSE i - 1 >= d
  <2>1. i - 1 + 1 = i /\ (i - 1 < Len(g) <=> i <= Len(g)) /\ (i - 1 >= d <=> i > d)
      BY <1>1
  <2>2. CASE i <= Len(g)
    <3>1. i \in 1 .. Len(f) /\ i \in 1 .. Len(g)
        BY <1>1, <1>4, <2>2 DEF Vector!Larger
    <3>2. r[i] = g[i]
        BY <1>4, <1>5, <3>1
    <3> QED
        BY <1>1, <2>1, <2>2, <3>2
  <2>3. CASE ~(i <= Len(g)) /\ i <= d
    <3>1. i \in 1 .. Len(f) /\ i \in Len(g) + 1 .. d
        BY <1>1, <1>4, <2>3 DEF Vector!Larger
    <3>2. f[i] = 0 /\ r[i] = f[i]
        BY <1>4, <1>5, <3>1
    <3>3. r[i] = 0
        BY <3>2
    <3> QED
        BY <1>1, <2>1, <2>3, <3>3
  <2>4. CASE ~(i <= Len(g)) /\ ~(i <= d)
    <3>1. i \in Len(f) + 1 .. n
        BY <1>1, <1>4, <2>4 DEF Vector!Larger
    <3>2. r[i] = 1
        BY <1>5, <3>1
    <3> QED
        BY <1>1, <2>1, <2>4, <3>2
  <2> QED
      BY <2>2, <2>3, <2>4
<1> QED
    BY <1>3, <1>5, <1>6, <1>7 DEF r

(* An entry that is not null has a value. *)
LEMMA NotNullHasValue ==
    ASSUME NEW vec \in Vector!Vectors, Agrees(vec), NEW i \in Nat, ~Vector!IsNull(vec, i)
    PROVE  /\ i < Len(vec.data) /\ vec.data[i + 1] \in Values
           /\ Vector!Entry(vec, i) = vec.data[i + 1]
<1>1. /\ vec.data \in Seq(Values) /\ Len(vec.data) \in Nat
      /\ vec.null_flags \in Seq(Vector!Bits) /\ Len(vec.null_flags) \in Nat
      /\ DOMAIN vec.null_flags = 1 .. Len(vec.null_flags)
    BY VectorParts
<1>2. i < Len(vec.data)
  <2>1. CASE i < Len(vec.null_flags)
    <3>1. i + 1 \in 1 .. Len(vec.null_flags)
        BY <1>1, <2>1
    <3>2. vec.null_flags[i + 1] # 1
        BY <2>1 DEF Vector!IsNull
    <3>3. vec.null_flags[i + 1] \in {0, 1}
        BY <1>1, <3>1 DEF Vector!Bits
    <3>4. i + 1 <= Len(vec.data)
        BY <1>1, <3>1, <3>2, <3>3 DEF Agrees
    <3> QED
        BY <1>1, <3>4
  <2>2. CASE ~(i < Len(vec.null_flags))
      BY <1>1, <2>2 DEF Vector!IsNull
  <2> QED
      BY <2>1, <2>2
<1>3. vec.data[i + 1] \in Values
  <2>1. i + 1 \in 1 .. Len(vec.data)
      BY <1>1, <1>2
  <2> HIDE DEF Values
  <2> QED
      BY <1>1, <2>1
<1> QED
    BY <1>2, <1>3 DEF Vector!Entry

(* Nothing is behind the end of a column. *)
LEMMA BeyondIsNull ==
    ASSUME NEW vec \in Vector!Vectors, NEW n \in Nat, Fits(vec, n), NEW i \in Nat, i >= n
    PROVE  Vector!IsNull(vec, i) /\ Vector!Entry(vec, i) = Null
<1>1. Len(vec.data) \in Nat /\ Len(vec.null_flags) \in Nat
    BY VectorParts
<1>2. Vector!IsNull(vec, i)
    BY <1>1 DEF Vector!IsNull, Fits
<1> QED
    BY <1>2 DEF Vector!Entry

(* A column that has a value behind all others and tells apart null and    *)
(* set as another one does, has the entries of the other and the value.    *)
LEMMA ValueBehind ==
    ASSUME NEW vec \in Vector!Vectors, Agrees(vec), NEW k \in Nat, Fits(vec, k + 1),
           NEW value, NEW new \in Vector!Vectors,
           Len(new.data) = k + 1, new.data[k + 1] = value,
           \A i \in 1 .. k : i <= Len(vec.data) => new.data[i] = vec.data[i],
           Len(new.null_flags) <= k + 1,
           k < Len(new.null_flags) => new.null_flags[k + 1] = 0,
           \A i \in 0 .. k - 1 : i < Len(new.null_flags) =>
               (new.null_flags[i + 1] = 1 <=> Vector!IsNull(vec, i)),
           \A i \in 0 .. k - 1 : ~(i < Len(new.null_flags)) => ~Vector!IsNull(vec, i)
    PROVE  /\ Agrees(new) /\ Fits(new, k + 1)
           /\ \A i \in Nat : Vector!Entry(new, i) = IF i = k THEN value ELSE Vector!Entry(vec, i)
<1> DEFINE data  == new.data
           flags == new.null_flags
<1>1. /\ Len(flags) \in Nat /\ DOMAIN flags = 1 .. Len(flags)
    BY VectorParts
<1>2. Agrees(new)
  <2> SUFFICES ASSUME NEW i \in 1 .. Len(flags)
               PROVE  i <= k + 1
      BY <1>1 DEF Agrees
  <2> QED
      BY <1>1
<1>3. Fits(new, k + 1)
    BY <1>1 DEF Fits
<1>4. ASSUME NEW i \in Nat, i = k
      PROVE  Vector!Entry(new, i) = value
  <2>1. ~Vector!IsNull(new, i)
      BY <1>1, <1>4 DEF Vector!IsNull
  <2>2. Vector!Entry(new, i) = new.data[i + 1]
      BY <2>1 DEF Vector!Entry
  <2> QED
      BY <1>1, <1>4, <2>2
<1>5. ASSUME NEW i \in Nat, i > k
      PROVE  Vector!Entry(new, i) = Vector!Entry(vec, i)
  <2>1. i >= k + 1 /\ k + 1 \in Nat
      BY <1>5
  <2> QED
      BY <1>1, <1>3, <2>1, BeyondIsNull
<1>6. ASSUME NEW i \in Nat, i < k
      PROVE  Vector!Entry(new, i) = Vector!Entry(vec, i)
  <2>1. i \in 0 .. k - 1 /\ i + 1 \in 1 .. k
      BY <1>6
  <2>2. Vector!IsNull(new, i) <=> Vector!IsNull(vec, i)
    <3>1. CASE i < Len(flags)
      <4>1. Vector!IsNull(new, i) <=> flags[i + 1] = 1
          BY <1>1, <3>1 DEF Vector!IsNull
      <4> QED
          BY <2>1, <3>1, <4>1
    <3>2. CASE ~(i < Len(flags))
      <4>1. ~Vector!IsNull(new, i)
          BY <1>1, <1>6, <3>2 DEF Vector!IsNull
      <4> QED
          BY <2>1, <3>2, <4>1
    <3> QED
        BY <3>1, <3>2
  <2>3. CASE Vector!IsNull(vec, i)
      BY <2>2, <2>3 DEF Vector!Entry
  <2>4. CASE ~Vector!IsNull(vec, i)
    <3>1. i < Len(vec.data) /\ Vector!Entry(vec, i) = vec.data[i + 1]
        BY <2>4, NotNullHasValue
    <3>2. Len(vec.data) \in Nat
        BY VectorParts
    <3>3. data[i + 1] = vec.data[i + 1]
        BY <2>1, <3>1, <3>2
    <3>4. Vector!Entry(new, i) = data[i + 1]
        BY <1>1, <2>2, <2>4 DEF Vector!Entry
    <3> QED
        BY <3>1, <3>3, <3>4
  <2> QED
      BY <2>3, <2>4
<1>7. ASSUME NEW i \in Nat
      PROVE  Vector!Entry(new, i) = IF i = k THEN value ELSE Vector!Entry(vec, i)
    BY <1>4, <1>5, <1>6
<1> QED
    BY <1>2, <1>3, <1>7

(* The same of a column with a flag behind all others. *)
LEMMA NullBehind ==
    ASSUME NEW vec \in Vector!Vectors, Agrees(vec), NEW k \in Nat, Fits(vec, k + 1),
           NEW new \in Vector!Vectors, new.data = vec.data,
           Len(new.null_flags) = k + 1, new.null_flags[k + 1] = 1,
           \A i \in 0 .. k - 1 : new.null_flags[i + 1] = 1 <=> Vector!IsNull(vec, i)
    PROVE  /\ Agrees(new) /\ Fits(new, k + 1)
           /\ \A i \in Nat : Vector!Entry(new, i) = IF i = k THEN Null ELSE Vector!Entry(vec, i)
<1> DEFINE flags == new.null_flags
<1>1. /\ Len(flags) \in Nat /\ DOMAIN flags = 1 .. Len(flags)
      /\ Len(vec.data) \in Nat
    BY VectorParts
<1>2. \A i \in 0 .. k : Vector!IsNull(new, i) <=> flags[i + 1] = 1
    BY <1>1 DEF Vector!IsNull
<1>3. Agrees(new)
  <2> SUFFICES ASSUME NEW i \in 1 .. Len(flags), flags[i] = 0
               PROVE  i <= Len(vec.data)
      BY <1>1 DEF Agrees
  <2>1. i # k + 1 /\ i <= k + 1
      BY <1>1
  <2>2. PICK j \in 0 .. k - 1 : i = j + 1
    <3>1. i - 1 \in 0 .. k - 1 /\ i = (i - 1) + 1
        BY <2>1
    <3> QED
        BY <3>1
  <2>3. ~Vector!IsNull(vec, j)
      BY <2>2
  <2>4. j \in Nat /\ j < Len(vec.data)
      BY <2>3, NotNullHasValue
  <2> QED
      BY <1>1, <2>2, <2>4
<1>4. Fits(new, k + 1)
    BY <1>1 DEF Fits
<1>5. ASSUME NEW i \in Nat, i = k
      PROVE  Vector!Entry(new, i) = Null
  <2>1. Vector!IsNull(new, i)
      BY <1>2, <1>5
  <2> QED
      BY <2>1 DEF Vector!Entry
<1>6. ASSUME NEW i \in Nat, i > k
      PROVE  Vector!Entry(new, i) = Vector!Entry(vec, i)
  <2>1. i >= k + 1 /\ k + 1 \in Nat
      BY <1>6
  <2> QED
      BY <1>1, <1>4, <2>1, BeyondIsNull
<1>7. ASSUME NEW i \in Nat, i < k
      PROVE  Vector!Entry(new, i) = Vector!Entry(vec, i)
  <2>1. i \in 0 .. k - 1 /\ i \in 0 .. k
      BY <1>7
  <2>2. Vector!IsNull(new, i) <=> Vector!IsNull(vec, i)
      BY <1>2, <2>1
  <2> QED
      BY <1>1, <2>2 DEF Vector!Entry
<1>8. ASSUME NEW i \in Nat
      PROVE  Vector!Entry(new, i) = IF i = k THEN Null ELSE Vector!Entry(vec, i)
    BY <1>5, <1>6, <1>7
<1> QED
    BY <1>3, <1>4, <1>8

(* set: the entry is the value, the others are as before. *)
LEMMA SetValueWrites ==
    ASSUME NEW vec \in Vector!Vectors, Agrees(vec), NEW k \in Nat, Fits(vec, k + 1),
           NEW value \in Values
    PROVE  LET new == Vector!SetValue(vec, k, value) IN
           /\ new \in Vector!Vectors /\ Agrees(new) /\ Fits(new, k + 1) /\ Len(new.data) = k + 1
           /\ \A i \in Nat : Vector!Entry(new, i) = IF i = k THEN value ELSE Vector!Entry(vec, i)
<1> DEFINE d     == vec.data
           g     == vec.null_flags
           room  == Vector!Filled(d, k + 1, <<0, 0>>)
           data  == Vector!Replaced(room, k, value)
           fill  == IF k > Len(d) THEN Vector!ResizeNullTo(vec, k + 1) ELSE g
           flags == Vector!UnsetNull(fill, k)
           new   == Vector!SetValue(vec, k, value)
<1>1. /\ d \in Seq(Values) /\ Len(d) \in Nat /\ Len(d) <= k + 1
      /\ g \in Seq(Vector!Bits) /\ Len(g) \in Nat /\ Len(g) <= k + 1
      /\ k + 1 \in Nat /\ <<0, 0>> \in Values
    BY VectorParts DEF Fits, Values
<1>2. new = [data |-> data, null_flags |-> flags]
    BY DEF Vector!SetValue, Vector!RoomForData, Vector!RoomForFlags
<1>3. /\ Vector!ResizeNullTo(vec, k + 1) \in Seq(Vector!Bits)
      /\ Len(Vector!ResizeNullTo(vec, k + 1)) = k + 1
      /\ \A i \in 1 .. k + 1 :
             Vector!ResizeNullTo(vec, k + 1)[i] = 1 <=> Vector!IsNull(vec, i - 1)
    BY <1>1, ResizedFlags
<1>4. \A i \in Nat : Vector!IsNull(vec, i) <=> IF i < Len(g) THEN g[i + 1] = 1 ELSE i >= Len(d)
    BY DEF Vector!IsNull
<1> HIDE DEF d, g
<1>5. /\ room \in Seq(Values) /\ Len(room) = k + 1
      /\ \A i \in 1 .. Len(d) : room[i] = d[i]
  <2>1. /\ room \in Seq(Values) /\ Len(room) = Vector!Larger(Len(d), k + 1)
        /\ \A i \in 1 .. Len(d) : room[i] = d[i]
      BY <1>1, FilledUp
  <2>2. Vector!Larger(Len(d), k + 1) = k + 1
      BY <1>1 DEF Vector!Larger
  <2> QED
      BY <2>1, <2>2
<1> HIDE DEF room
<1>6. /\ data \in Seq(Values) /\ Len(data) = k + 1
      /\ data[k + 1] = value
      /\ \A i \in 1 .. k : data[i] = room[i]
  <2>0. DOMAIN room = 1 .. Len(room)
      BY <1>5
  <2>1. k < Len(room)
      BY <1>1, <1>5
  <2> HIDE DEF Values
  <2>2. data \in Seq(Values) /\ Len(data) = Len(room)
      BY <1>1, <1>5, <2>1, <2>0 DEF Vector!Replaced
  <2>4. data[k + 1] = value
      BY <1>1, <1>5, <2>1, <2>0 DEF Vector!Replaced
  <2>5. \A i \in 1 .. Len(room) : i # k + 1 => data[i] = room[i]
      BY <1>1, <1>5, <2>1, <2>0 DEF Vector!Replaced
  <2> HIDE DEF data
  <2>3. \A i \in 1 .. k : i \in 1 .. k + 1 /\ i # k + 1
      OBVIOUS
  <2> QED
      BY <1>5, <2>2, <2>3, <2>4, <2>5
<1>7. data[k + 1] = value /\ \A i \in 1 .. k : i <= Len(d) => data[i] = d[i]
    BY <1>1, <1>5, <1>6
<1>8. /\ fill \in Seq(Vector!Bits) /\ Len(fill) <= k + 1 /\ Len(fill) \in Nat
      /\ \A i \in 0 .. k - 1 : i < Len(fill) => (fill[i + 1] = 1 <=> Vector!IsNull(vec, i))
      /\ \A i \in 0 .. k - 1 : ~(i < Len(fill)) => ~Vector!IsNull(vec, i)
  <2>1. CASE k > Len(d)
    <3>1. fill = Vector!ResizeNullTo(vec, k + 1)
        BY <2>1
    <3> HIDE DEF fill
    <3>2. ASSUME NEW i \in 0 .. k - 1
          PROVE  i < Len(fill) /\ (fill[i + 1] = 1 <=> Vector!IsNull(vec, i))
      <4>1. i + 1 \in 1 .. k + 1 /\ i + 1 - 1 = i /\ i < k + 1
          OBVIOUS
      <4> QED
          BY <1>3, <3>1, <4>1
    <3> QED
        BY <1>1, <1>3, <3>1, <3>2
  <2>2. CASE ~(k > Len(d))
    <3>1. fill = g
        BY <2>2
    <3> HIDE DEF fill
    <3>2. ASSUME NEW i \in 0 .. k - 1
          PROVE  Vector!IsNull(vec, i) <=> (i < Len(g) /\ g[i + 1] = 1)
      <4>1. i \in Nat /\ ~(i >= Len(d))
          BY <1>1, <2>2
      <4> QED
          BY <1>4, <4>1
    <3> QED
        BY <1>1, <3>1, <3>2
  <2> QED
      BY <2>1, <2>2
<1> HIDE DEF fill, data
<1>9. /\ flags \in Seq(Vector!Bits) /\ Len(flags) = Len(fill)
      /\ k < Len(flags) => flags[k + 1] = 0
      /\ \A i \in 0 .. k - 1 : i < Len(flags) => flags[i + 1] = fill[i + 1]
  <2>1. CASE k < Len(fill)
    <3>d. DOMAIN fill = 1 .. Len(fill)
        BY <1>8
    <3>0. 0 \in Vector!Bits
        BY DEF Vector!Bits
    <3>1. flags = Vector!Replaced(fill, k, 0)
        BY <2>1 DEF Vector!UnsetNull
    <3> HIDE DEF flags
    <3>2. /\ Vector!Replaced(fill, k, 0) \in Seq(Vector!Bits)
          /\ Len(Vector!Replaced(fill, k, 0)) = Len(fill)
        BY <1>8, <2>1, <3>0, <3>d DEF Vector!Replaced
    <3>3. Vector!Replaced(fill, k, 0)[k + 1] = 0
        BY <1>8, <2>1, <3>0, <3>d DEF Vector!Replaced
    <3>5. \A i \in 1 .. Len(fill) : i # k + 1 => Vector!Replaced(fill, k, 0)[i] = fill[i]
        BY <1>8, <2>1, <3>0, <3>d DEF Vector!Replaced
    <3>4. \A i \in 0 .. k - 1 : i < Len(fill) => i + 1 \in 1 .. Len(fill) /\ i + 1 # k + 1
        BY <1>8
    <3> QED
        BY <2>1, <3>1, <3>2, <3>3, <3>4, <3>5
  <2>2. CASE ~(k < Len(fill))
    <3>1. flags = fill
        BY <2>2 DEF Vector!UnsetNull
    <3> HIDE DEF flags
    <3> QED
        BY <1>8, <2>2, <3>1
  <2> QED
      BY <2>1, <2>2
<1> HIDE DEF flags, new
<1>10. /\ new \in Vector!Vectors /\ Agrees(new) /\ Fits(new, k + 1)
       /\ \A i \in Nat : Vector!Entry(new, i) = IF i = k THEN value ELSE Vector!Entry(vec, i)
  <2>1. /\ Len(flags) <= k + 1
        /\ \A i \in 0 .. k - 1 : i < Len(flags) => (flags[i + 1] = 1 <=> Vector!IsNull(vec, i))
        /\ \A i \in 0 .. k - 1 : ~(i < Len(flags)) => ~Vector!IsNull(vec, i)
      BY <1>8, <1>9
  <2>2. new \in Vector!Vectors /\ new.data = data /\ new.null_flags = flags
      BY <1>2, <1>6, <1>9, MadeVector
  <2>3. \A i \in 1 .. k : i <= Len(vec.data) => data[i] = vec.data[i]
      BY <1>7 DEF d
  <2>4. Len(new.data) = k + 1 /\ new.data[k + 1] = value
      BY <1>6, <2>2
  <2>5. \A i \in 1 .. k : i <= Len(vec.data) => new.data[i] = vec.data[i]
      BY <2>2, <2>3
  <2>6. Len(new.null_flags) <= k + 1 /\ (k < Len(new.null_flags) => new.null_flags[k + 1] = 0)
      BY <1>9, <2>1, <2>2
  <2>7. \A i \in 0 .. k - 1 : i < Len(new.null_flags) =>
            (new.null_flags[i + 1] = 1 <=> Vector!IsNull(vec, i))
      BY <2>1, <2>2
  <2>8. \A i \in 0 .. k - 1 : ~(i < Len(new.null_flags)) => ~Vector!IsNull(vec, i)
      BY <2>1, <2>2
  <2>9. new \in Vector!Vectors
      BY <2>2
  <2>10. Agrees(new) /\ Fits(new, k + 1)
      BY <2>4, <2>5, <2>6, <2>7, <2>8, <2>9, ValueBehind
  <2>11. \A i \in Nat : Vector!Entry(new, i) = IF i = k THEN value ELSE Vector!Entry(vec, i)
      BY <2>4, <2>5, <2>6, <2>7, <2>8, <2>9, ValueBehind
  <2> QED
      BY <2>9, <2>10, <2>11
<1>11. Len(new.data) = k + 1
    BY <1>2, <1>6
<1> QED
    BY <1>10, <1>11 DEF new

(* setNull: the entry is null, the others are as before. *)
LEMMA SetNullWrites ==
    ASSUME NEW vec \in Vector!Vectors, Agrees(vec), NEW k \in Nat, Fits(vec, k + 1)
    PROVE  LET new == Vector!SetNull(vec, k) IN
           /\ new \in Vector!Vectors /\ Agrees(new) /\ Fits(new, k + 1)
           /\ Len(new.null_flags) = k + 1
           /\ \A i \in Nat : Vector!Entry(new, i) = IF i = k THEN Null ELSE Vector!Entry(vec, i)
<1> DEFINE g     == vec.null_flags
           fill  == IF k >= Len(g) THEN Vector!ResizeNullTo(vec, k + 1) ELSE g
           flags == Vector!Replaced(fill, k, 1)
           new   == Vector!SetNull(vec, k)
<1>1. /\ Len(vec.data) \in Nat /\ Len(vec.data) <= k + 1
      /\ g \in Seq(Vector!Bits) /\ Len(g) \in Nat /\ Len(g) <= k + 1 /\ k + 1 \in Nat
    BY VectorParts DEF Fits
<1>2. new = [data |-> vec.data, null_flags |-> flags]
    BY DEF Vector!SetNull
<1>3. /\ Vector!ResizeNullTo(vec, k + 1) \in Seq(Vector!Bits)
      /\ Len(Vector!ResizeNullTo(vec, k + 1)) = k + 1
      /\ \A i \in 1 .. k + 1 :
             Vector!ResizeNullTo(vec, k + 1)[i] = 1 <=> Vector!IsNull(vec, i - 1)
    BY <1>1, ResizedFlags
<1>4. \A i \in Nat : i < Len(g) => (Vector!IsNull(vec, i) <=> g[i + 1] = 1)
    BY DEF Vector!IsNull
<1> HIDE DEF g
<1>5. /\ fill \in Seq(Vector!Bits) /\ Len(fill) = k + 1
      /\ \A i \in 0 .. k : fill[i + 1] = 1 <=> Vector!IsNull(vec, i)
  <2>1. CASE k >= Len(g)
    <3>1. fill = Vector!ResizeNullTo(vec, k + 1)
        BY <2>1
    <3> HIDE DEF fill
    <3>2. \A i \in 0 .. k : i + 1 \in 1 .. k + 1 /\ i + 1 - 1 = i
        OBVIOUS
    <3>3. ASSUME NEW i \in 0 .. k
          PROVE  fill[i + 1] = 1 <=> Vector!IsNull(vec, i)
      <4>1. i + 1 \in 1 .. k + 1 /\ i + 1 - 1 = i
          OBVIOUS
      <4> QED
          BY <1>3, <3>1, <4>1
    <3> QED
        BY <1>3, <3>1, <3>3
  <2>2. CASE ~(k >= Len(g))
    <3>1. fill = g /\ Len(g) = k + 1
        BY <1>1, <2>2
    <3> HIDE DEF fill
    <3>2. \A i \in 0 .. k : i \in Nat /\ i < k + 1
        OBVIOUS
    <3> QED
        BY <1>1, <1>4, <3>1, <3>2
  <2> QED
      BY <2>1, <2>2
<1> HIDE DEF fill
<1>6. /\ flags \in Seq(Vector!Bits) /\ Len(flags) = k + 1
      /\ flags[k + 1] = 1
      /\ \A i \in 1 .. k + 1 : i # k + 1 => flags[i] = fill[i]
  <2>0. DOMAIN fill = 1 .. Len(fill)
      BY <1>5
  <2>1. k < Len(fill) /\ 1 \in Vector!Bits
      BY <1>5 DEF Vector!Bits
  <2> HIDE DEF flags
  <2>2. /\ Vector!Replaced(fill, k, 1) \in Seq(Vector!Bits)
        /\ Len(Vector!Replaced(fill, k, 1)) = Len(fill)
      BY <1>1, <1>5, <2>1, <2>0 DEF Vector!Replaced
  <2>3. Vector!Replaced(fill, k, 1)[k + 1] = 1
      BY <1>1, <1>5, <2>1, <2>0 DEF Vector!Replaced
  <2>4. \A i \in 1 .. Len(fill) : i # k + 1 => Vector!Replaced(fill, k, 1)[i] = fill[i]
      BY <1>1, <1>5, <2>1, <2>0 DEF Vector!Replaced
  <2>5. flags = Vector!Replaced(fill, k, 1)
      BY DEF flags
  <2> QED
      BY <1>5, <2>2, <2>3, <2>4, <2>5
<1> HIDE DEF flags, new
<1>7. new \in Vector!Vectors /\ new.data = vec.data /\ new.null_flags = flags
    BY <1>2, <1>6, MadeVector, VectorParts
<1>8. ASSUME NEW i \in 0 .. k - 1
      PROVE  flags[i + 1] = 1 <=> Vector!IsNull(vec, i)
  <2>1. i + 1 \in 1 .. k + 1 /\ i + 1 # k + 1 /\ i \in 0 .. k
      OBVIOUS
  <2>2. flags[i + 1] = fill[i + 1]
      BY <1>6, <2>1
  <2> QED
      BY <1>5, <2>1, <2>2
<1>9. /\ new \in Vector!Vectors /\ Agrees(new) /\ Fits(new, k + 1)
      /\ \A i \in Nat : Vector!Entry(new, i) = IF i = k THEN Null ELSE Vector!Entry(vec, i)
    BY <1>6, <1>7, <1>8, NullBehind
<1>10. Len(new.null_flags) = k + 1
    BY <1>2, <1>6
<1> QED
    BY <1>9, <1>10 DEF new

(* cutToSize: the entries that are left are as before. *)
LEMMA CutKeeps ==
    ASSUME NEW vec \in Vector!Vectors, Agrees(vec), NEW n \in Nat
    PROVE  LET new == Vector!CutToSize(vec, n) IN
           /\ new \in Vector!Vectors /\ Agrees(new) /\ Fits(new, n)
           /\ \A i \in 0 .. n - 1 : Vector!Entry(new, i) = Vector!Entry(vec, i)
<1> DEFINE d     == vec.data
           g     == vec.null_flags
           data  == Vector!Cut(d, n)
           flags == Vector!Cut(g, n)
           new   == Vector!CutToSize(vec, n)
<1>1. /\ d \in Seq(Values) /\ Len(d) \in Nat
      /\ g \in Seq(Vector!Bits) /\ Len(g) \in Nat /\ DOMAIN g = 1 .. Len(g)
    BY VectorParts
<1>2. new = [data |-> data, null_flags |-> flags]
    BY DEF Vector!CutToSize
<1>3. \A i \in 0 .. n - 1 :
          Vector!IsNull(vec, i) <=> IF i < Len(g) THEN g[i + 1] = 1 ELSE i >= Len(d)
    BY DEF Vector!IsNull
<1>4. \A i \in 1 .. Len(g) : g[i] = 0 => i <= Len(d)
    BY <1>1 DEF Agrees
<1> HIDE DEF d, g
<1>5. /\ data \in Seq(Values) /\ Len(data) = (IF Len(d) > n THEN n ELSE Len(d))
      /\ \A i \in 1 .. Len(data) : data[i] = d[i]
  <2> HIDE DEF Values
  <2> QED
      BY <1>1 DEF Vector!Cut
<1>6. /\ flags \in Seq(Vector!Bits) /\ Len(flags) = (IF Len(g) > n THEN n ELSE Len(g))
      /\ \A i \in 1 .. Len(flags) : flags[i] = g[i]
  <2> HIDE DEF Vector!Bits
  <2> QED
      BY <1>1 DEF Vector!Cut
<1> HIDE DEF data, flags, new
<1>7. /\ new \in Vector!Vectors /\ new.data = data /\ new.null_flags = flags
      /\ DOMAIN flags = 1 .. Len(flags)
    BY <1>2, <1>5, <1>6, MadeVector
<1>8. Fits(new, n)
    BY <1>1, <1>5, <1>6, <1>7 DEF Fits
<1>9. Agrees(new)
  <2> SUFFICES ASSUME NEW i \in 1 .. Len(flags), flags[i] = 0
               PROVE  i <= Len(data)
      BY <1>7 DEF Agrees
  <2>1. i \in 1 .. Len(g) /\ i <= n /\ g[i] = 0
      BY <1>1, <1>6
  <2>2. i <= Len(d)
      BY <1>4, <2>1
  <2> QED
      BY <1>1, <1>5, <2>1, <2>2
<1>10. ASSUME NEW i \in 0 .. n - 1
       PROVE  Vector!Entry(new, i) = Vector!Entry(vec, i)
  <2>1. Vector!IsNull(new, i) <=> IF i < Len(flags) THEN flags[i + 1] = 1 ELSE i >= Len(data)
      BY <1>7 DEF Vector!IsNull
  <2>2. (i < Len(flags) <=> i < Len(g)) /\ (i >= Len(data) <=> i >= Len(d))
      BY <1>1, <1>5, <1>6
  <2>3. i < Len(flags) => flags[i + 1] = g[i + 1]
      BY <1>1, <1>6
  <2>4. Vector!IsNull(new, i) <=> Vector!IsNull(vec, i)
      BY <1>3, <2>1, <2>2, <2>3
  <2>5. CASE Vector!IsNull(vec, i)
      BY <2>4, <2>5 DEF Vector!Entry
  <2>6. CASE ~Vector!IsNull(vec, i)
    <3>1. i \in Nat /\ i < Len(vec.data)
        BY <2>6, NotNullHasValue
    <3>2. i + 1 \in 1 .. Len(data)
        BY <1>1, <1>5, <3>1 DEF d
    <3>3. data[i + 1] = d[i + 1]
        BY <1>5, <3>2
    <3> QED
        BY <1>7, <2>4, <2>6, <3>3 DEF Vector!Entry, d
  <2> QED
      BY <2>5, <2>6
<1> QED
    BY <1>8, <1>9, <1>7, <1>10 DEF new


(* The size of a buffer whose columns have at most one entry more.         *)
LEMMA SizeOfGrown ==
    ASSUME NEW vectors \in [Columns -> Vector!Vectors], NEW n \in Nat, Columns # {},
           \A c \in Columns : Fits(vectors[c], n + 1)
    PROVE  SizeOf(vectors, n) = IF \A c \in Columns : Fits(vectors[c], n) THEN n ELSE n + 1
<1> DEFINE Sizes == {Vector!SizeWith(vectors[c], n) : c \in Columns}
<1>1. ASSUME NEW c \in Columns
      PROVE  Vector!SizeWith(vectors[c], n) = IF Fits(vectors[c], n) THEN n ELSE n + 1
  <2>1. Len(vectors[c].data) \in Nat /\ Len(vectors[c].null_flags) \in Nat
      BY VectorParts
  <2>2. Len(vectors[c].data) <= n + 1 /\ Len(vectors[c].null_flags) <= n + 1
      BY DEF Fits
  <2> QED
      BY <2>1, <2>2 DEF Fits, Vector!SizeWith, Vector!Larger
<1>2. CASE \A c \in Columns : Fits(vectors[c], n)
  <2>1. n \in Sizes /\ \A s \in Sizes : s = n
      BY <1>1, <1>2
  <2> HIDE DEF Sizes
  <2>2. n \in Sizes /\ \A s \in Sizes : n >= s
      BY <2>1
  <2>3. Max(Sizes) \in Sizes
      BY <2>2, Zenon DEF Max
  <2>4. Max(Sizes) = n
      BY <2>1, <2>3
  <2> QED
      BY <1>2, <2>4 DEF SizeOf, Sizes
<1>3. CASE ~(\A c \in Columns : Fits(vectors[c], n))
  <2>1. n + 1 \in Sizes /\ \A s \in Sizes : s = n \/ s = n + 1
      BY <1>1, <1>3
  <2> HIDE DEF Sizes
  <2>2. n + 1 >= n /\ n + 1 >= n + 1 /\ ~(n >= n + 1)
      OBVIOUS
  <2>3. Max(Sizes) = n + 1
      BY <2>1, <2>2 DEF Max
  <2> QED
      BY <1>3, <2>3 DEF SizeOf, Sizes
<1> QED
    BY <1>2, <1>3

(* There is room for one entry more.                                       *)
LEMMA FitsMore ==
    ASSUME NEW vec \in Vector!Vectors, NEW n \in Nat, Fits(vec, n)
    PROVE  Fits(vec, n + 1)
<1>1. Len(vec.data) \in Nat /\ Len(vec.null_flags) \in Nat
    BY VectorParts
<1> QED
    BY <1>1 DEF Fits

(* A buffer whose columns have not grown keeps its size.                   *)
LEMMA SizeOfKept ==
    ASSUME NEW vectors \in [Columns -> Vector!Vectors], NEW n \in Nat, Columns # {},
           \A c \in Columns : Fits(vectors[c], n)
    PROVE  SizeOf(vectors, n) = n
<1>1. \A c \in Columns : Fits(vectors[c], n + 1)
    BY FitsMore
<1> QED
    BY <1>1, SizeOfGrown


(* A set of numbers with a member has a least one. *)
LEMMA LeastNumber ==
    ASSUME NEW S \in SUBSET Nat, S # {}
    PROVE  \E n \in S : \A m \in S : n <= m
<1> DEFINE less == {ss \in Nat \X Nat : ss[1] < ss[2]}
<1>1. \A m, n \in Nat : <<m, n>> \in less <=> m < n
    OBVIOUS
<1>2. IsWellFoundedOn(less, Nat)
  <2>1. less = OpToRel(<, Nat)
      BY Zenon DEF OpToRel
  <2> QED
      BY <2>1, NatLessThanWellFounded
<1> HIDE DEF less
<1>3. PICK n \in S : \A m \in S : ~(<<m, n>> \in less)
    BY <1>2, WFMin
<1>4. ASSUME NEW m \in S
      PROVE  n <= m
  <2>1. m \in Nat /\ n \in Nat /\ ~(m < n)
      BY <1>1, <1>3
  <2> QED
      BY <2>1
<1> QED
    BY <1>4
-----------------------------------------------------------------------------
(* The inductive invariant.                                                *)

(* The rows, as the history remembers them. *)
RowType ==
    [number : Nat, record : Nat, parser : Nat, whole : BOOLEAN, values : SUBSET Columns]

(* The variables have their types ... *)
TypeOK ==
    /\ records \in Nat
    /\ parser \in 0 .. Len(Parsers)
    /\ parser # 0 => record \in Records /\ records # 0
    /\ reports \in Seq(Reports)
    /\ parsed_any \in BOOLEAN /\ mapped \in BOOLEAN
    /\ num_mapped \in Nat /\ num_not_mapped \in Nat /\ num_errors \in Nat
    /\ num_reports \in Nat
    /\ blank \subseteq DBObjects

(* ... the buffers too, of the objects without a report taken in vain:     *)
(* flags and values of each column agree there and no column is longer     *)
(* than its buffer. *)
BufferStage ==
    /\ columns = [o \in DBObjects |-> columns[o]]
    /\ data_size = [o \in DBObjects |-> data_size[o]]
    /\ rows \in [DBObjects -> Seq(RowType)]
    /\ \A o \in Sound : columns[o] \in [Columns -> Vector!Vectors] /\ data_size[o] \in Nat
    /\ \A o \in Sound, c \in Columns :
           Agrees(columns[o][c]) /\ Fits(columns[o][c], data_size[o])

(* A parser writes behind the last row.  Nothing is under way between the  *)
(* records, and a parser that does not look into the container has one     *)
(* report. *)
WorkStage ==
    /\ parser = 0 => ~parsed_any /\ ~mapped
    /\ parser # 0 /\ Parser.object \in Sound => row_cnt = data_size[Parser.object]
    /\ parser # 0 /\ ~Parser.container /\ reports # <<>> => Len(reports) = 1 /\ ~parsed_any

(* Row i came from the parser at work out of the record at hand. *)
Fresh(o, i) == parser # 0 /\ rows[o][i].record = records /\ rows[o][i].parser = parser

(* A row comes from a parser of its object, from a record that was begun,  *)
(* and from no parser that is still to come. *)
ComesFrom(row, o) ==
    /\ row.parser \in DOMAIN Parsers /\ Parsers[row.parser].object = o
    /\ row.values \subseteq Mapped(Parsers[row.parser])
    /\ row.record \in 1 .. records
    /\ row.record = records /\ parser # 0 => row.parser <= parser

(* The rows of the parser at work are whole and known to it, and the last  *)
(* row is one of them; there is one if it does not look into the container. *)
RowStage ==
    /\ \A o \in DBObjects : \A i \in DOMAIN rows[o] :
           /\ ComesFrom(rows[o][i], o)
           /\ Fresh(o, i) => rows[o][i].whole /\ parsed_any
           /\ Fresh(o, i) /\ ~Parser.container => i = Len(rows[o])
    /\ parsed_any => rows[Parser.object] # <<>> /\ Fresh(Parser.object, Len(rows[Parser.object]))

(* A value is converted once at most, and if it is one of a record of its  *)
(* own, it is. *)
TimesFit(row, c, times) ==
    /\ times = 0 \/ (times = 1 /\ HasUnit(row, c))
    /\ HasUnit(row, c) /\ row.whole /\ ~Parsers[row.parser].container => times = 1

(* The rows of the parser at work are to be converted, the last of them;   *)
(* the others have been. *)
ConversionStage ==
    \A o \in Sound : \A i \in DOMAIN rows[o] : \A c \in rows[o][i].values :
        IF Fresh(o, i) THEN Times(o, i, c) = 0 ELSE TimesFit(rows[o][i], c, Times(o, i, c))

(* Records that are through, ... *)
Through == IF parser = 0 THEN records ELSE records - 1

(* ... those of them that came to a row. *)
RowsThrough == Cardinality({n \in Accepted : n <= Through})

(* The records that are through are counted, and of the record at hand it  *)
(* is known whether a row came of it, or an error is to be counted for it. *)
CountStage ==
    /\ num_mapped + num_not_mapped = Through
    /\ num_mapped <= RowsThrough /\ RowsThrough <= num_mapped + num_errors
    /\ mapped => records \in Accepted
    /\ parser # 0 /\ records \in Accepted /\ ~mapped /\ ~parsed_any =>
           RowsThrough + 1 <= num_mapped + num_errors

(* All of it. *)
MappingInvariant ==
    /\ TypeOK /\ BufferStage /\ WorkStage /\ RowsAreReports /\ RowStage /\ ConversionStage
    /\ CountStage

-----------------------------------------------------------------------------
(* What a parser writes.                                                   *)

(* The parser at work is one of the parsers. *)
LEMMA ParserAtWork ==
    ASSUME TypeOK, parser # 0
    PROVE  /\ parser \in DOMAIN Parsers /\ Parser = Parsers[parser]
           /\ Parser.object \in DBObjects /\ Columns # {}
<1>1. Len(Parsers) \in Nat /\ DOMAIN Parsers = 1 .. Len(Parsers)
    BY ParsersAssumption
<1>2. parser \in DOMAIN Parsers
    BY <1>1 DEF TypeOK
<1> QED
    BY <1>2, ParsersAssumption DEF Parser, DBObjects

(* A mapped variable has its mapping, and none is the data source.         *)
LEMMA MappingOfColumn ==
    ASSUME NEW i \in DOMAIN Parsers, NEW c \in Mapped(Parsers[i])
    PROVE  /\ MappingOf(Parsers[i], c) \in DOMAIN Parsers[i].mappings
           /\ Parsers[i].mappings[MappingOf(Parsers[i], c)].column = c
           /\ c \in Columns /\ c # DataSource
<1>1. \E m \in DOMAIN Parsers[i].mappings : Parsers[i].mappings[m].column = c
    BY DEF Mapped
<1>2. c \in Columns /\ c # DataSource
    BY ParsersAssumption
<1> QED
    BY <1>1, <1>2 DEF MappingOf

(* There is a first mapping at which the loop is left.                     *)
LEMMA FirstEnd ==
    ASSUME NEW i \in DOMAIN Parsers, NEW report, Ends(Parsers[i], report) # {}
    PROVE  LET E == Ends(Parsers[i], report) IN
           Min(E) \in E /\ \A m \in E : Min(E) <= m
<1> DEFINE E == Ends(Parsers[i], report)
<1>1. E \in SUBSET Nat
  <2>1. DOMAIN Parsers[i].mappings = 1 .. Len(Parsers[i].mappings)
      BY ParsersAssumption
  <2>2. E \subseteq DOMAIN Parsers[i].mappings /\ Len(Parsers[i].mappings) \in Nat
      BY ParsersAssumption DEF Ends
  <2> QED
      BY <2>1, <2>2
<1> HIDE DEF E
<1>2. E # {}
    BY DEF E
<1>3. PICK n \in E : \A m \in E : n <= m
    BY <1>1, <1>2, LeastNumber
<1>4. Min(E) \in E /\ \A m \in E : Min(E) <= m
    BY <1>3, Zenon DEF Min
<1> QED
    BY <1>4 DEF E

(* The value that ended the loop was unfit if any was.                     *)
LEMMA UnfitIsLast ==
    ASSUME NEW i \in DOMAIN Parsers, NEW report, NEW c,
           Field(Parsers[i], report, c) = "unfit"
    PROVE  /\ Ends(Parsers[i], report) # {}
           /\ report.fields[Parsers[i].mappings[Min(Ends(Parsers[i], report))].column] = "unfit"
<1> DEFINE P == Parsers[i]
           m == MappingOf(P, c)
           E == Ends(P, report)
<1>1. c \in Mapped(P) /\ m \in Tried(P, report) /\ report.fields[c] = "unfit"
    BY DEF Field
<1>2. m \in DOMAIN P.mappings /\ P.mappings[m].column = c
    BY <1>1, MappingOfColumn
<1>3. m \in E
    BY <1>1, <1>2 DEF Ends, EndsAt
<1>4. Min(E) \in E /\ Min(E) <= m
    BY <1>3, FirstEnd
<1>5. m <= Min(E)
    BY <1>1, <1>4 DEF Tried
<1>6. m \in Nat /\ Min(E) \in Nat
  <2>1. DOMAIN P.mappings \subseteq Nat
      BY ParsersAssumption
  <2>2. E \subseteq DOMAIN P.mappings
      BY DEF Ends
  <2> QED
      BY <1>2, <1>4, <2>1, <2>2
<1>7. Min(E) = m
    BY <1>4, <1>5, <1>6
<1> QED
    BY <1>1, <1>2, <1>3, <1>7

(* The parts of the buffers that are kept in order.                        *)
LEMMA SoundBuffers ==
    ASSUME BufferStage
    PROVE  /\ Sound \subseteq DBObjects
           /\ \A x \in Sound : data_size[x] \in Nat
           /\ \A x \in Sound : columns[x] \in [Columns -> Vector!Vectors]
           /\ \A x \in DBObjects : /\ rows[x] \in Seq(RowType) /\ Len(rows[x]) \in Nat
                                   /\ DOMAIN rows[x] = 1 .. Len(rows[x])
<1>1. Sound \subseteq DBObjects
    BY DEF Sound
<1>2. ASSUME NEW x \in Sound
      PROVE  data_size[x] \in Nat /\ columns[x] \in [Columns -> Vector!Vectors]
    BY <1>2, Zenon DEF BufferStage
<1>3. ASSUME NEW x \in DBObjects
      PROVE  /\ rows[x] \in Seq(RowType) /\ Len(rows[x]) \in Nat
             /\ DOMAIN rows[x] = 1 .. Len(rows[x])
  <2>1. rows[x] \in Seq(RowType)
      BY DEF BufferStage
  <2> HIDE DEF RowType
  <2> QED
      BY <2>1
<1> QED
    BY <1>1, <1>2, <1>3

(* The columns a report was written to: the entries that were there are as *)
(* before, and behind them there are the values of the report.             *)
LEMMA WrittenBehind ==
    ASSUME TypeOK, BufferStage, WorkStage, parser # 0, Parser.object \in Sound, NEW report
    PROVE  LET o == Parser.object
               n == data_size[o]
               v == Written(Parser, report)
           IN  /\ v \in [Columns -> Vector!Vectors]
               /\ \A c \in Columns : Agrees(v[c]) /\ Fits(v[c], n + 1)
               /\ \A c \in Columns : \A i \in Nat :
                      Vector!Entry(v[c], i) =
                          IF i = n
                          THEN IF Field(Parser, report, c) = "value" THEN <<Number, 0>> ELSE Null
                          ELSE Vector!Entry(columns[o][c], i)
               /\ \A c \in Columns :
                      Fits(v[c], n) <=> Field(Parser, report, c) \notin {"value", "unfit"}
<1> DEFINE o == Parser.object
           n == data_size[o]
           v == Written(Parser, report)
           F(c) == Field(Parser, report, c)
           Right(new, c) ==
               /\ new \in Vector!Vectors /\ Agrees(new) /\ Fits(new, n + 1)
               /\ \A i \in Nat : Vector!Entry(new, i) =
                      IF i = n THEN IF F(c) = "value" THEN <<Number, 0>> ELSE Null
                      ELSE Vector!Entry(columns[o][c], i)
               /\ Fits(new, n) <=> F(c) \notin {"value", "unfit"}
<1>1. o \in Sound /\ n \in Nat /\ row_cnt = n /\ n + 1 \in Nat /\ ~(n + 1 <= n)
  <2>1. o \in Sound /\ n \in Nat /\ row_cnt = n
      BY SoundBuffers DEF WorkStage
  <2> HIDE DEF n
  <2> QED
      BY <2>1
<1>2. <<Number, 0>> \in Values
    BY DEF TypeOK, Values, Number
<1>3. ASSUME NEW c \in Columns
      PROVE  Right(v[c], c)
  <2> DEFINE vec == columns[o][c]
  <2>1. vec \in Vector!Vectors /\ Agrees(vec) /\ Fits(vec, n)
      BY <1>1 DEF BufferStage
  <2>2. Fits(vec, n + 1)
    <3>1. Len(vec.data) \in Nat /\ Len(vec.null_flags) \in Nat
        BY <2>1, VectorParts
    <3> QED
        BY <1>1, <2>1, <3>1 DEF Fits
  <2>3. v[c] = CASE F(c) = "value" -> Vector!SetValue(vec, row_cnt, <<Number, 0>>)
                 [] F(c) = "unfit" -> Vector!SetNull(vec, row_cnt)
                 [] OTHER -> vec
      BY DEF Written
  <2> HIDE DEF vec, v, o, n, F
  <2>4. CASE F(c) = "value"
    <3> DEFINE new == Vector!SetValue(vec, n, <<Number, 0>>)
    <3>1. v[c] = new
        BY <1>1, <2>3, <2>4
    <3>2. /\ new \in Vector!Vectors /\ Agrees(new) /\ Fits(new, n + 1) /\ Len(new.data) = n + 1
          /\ \A i \in Nat : Vector!Entry(new, i) =
                 IF i = n THEN <<Number, 0>> ELSE Vector!Entry(vec, i)
        BY <1>1, <1>2, <2>1, <2>2, SetValueWrites
    <3> HIDE DEF new
    <3>3. ~Fits(new, n)
        BY <1>1, <3>2 DEF Fits
    <3> QED
        BY <2>4, <3>1, <3>2, <3>3 DEF vec
  <2>5. CASE F(c) = "unfit"
    <3> DEFINE new == Vector!SetNull(vec, n)
    <3>1. v[c] = new /\ F(c) # "value"
        BY <1>1, <2>3, <2>5
    <3>2. /\ new \in Vector!Vectors /\ Agrees(new) /\ Fits(new, n + 1)
          /\ Len(new.null_flags) = n + 1
          /\ \A i \in Nat : Vector!Entry(new, i) = IF i = n THEN Null ELSE Vector!Entry(vec, i)
        BY <1>1, <2>1, <2>2, SetNullWrites
    <3> HIDE DEF new
    <3>3. ~Fits(new, n)
        BY <1>1, <3>2 DEF Fits
    <3> QED
        BY <2>5, <3>1, <3>2, <3>3 DEF vec
  <2>6. CASE F(c) \notin {"value", "unfit"}
    <3>1. v[c] = vec
        BY <2>3, <2>6
    <3>2. Vector!Entry(vec, n) = Null
        BY <1>1, <2>1, BeyondIsNull
    <3> QED
        BY <2>1, <2>2, <2>6, <3>1, <3>2 DEF vec
  <2> QED
      BY <2>4, <2>5, <2>6
<1>4. v \in [Columns -> Vector!Vectors]
  <2>1. v = [c \in Columns |-> v[c]]
      BY DEF Written
  <2> HIDE DEF v
  <2> QED
      BY <1>3, <2>1
<1> HIDE DEF v, o, n, F
<1>5. \A c \in Columns : Right(v[c], c)
    BY <1>3
<1> QED
    BY <1>4, <1>5 DEF v, o, n, F

-----------------------------------------------------------------------------
(* What becomes of the buffers.                                            *)

(* The columns of a buffer change, but none of its entries: the rows are   *)
(* still the reports.                                                      *)
LEMMA EntriesKept ==
    ASSUME BufferStage, RowsAreReports, NEW o \in Sound,
           NEW vectors \in [Columns -> Vector!Vectors],
           \A c \in Columns : Agrees(vectors[c]) /\ Fits(vectors[c], data_size[o]),
           \A c \in Columns : \A i \in 0 .. data_size[o] - 1 :
               Vector!Entry(vectors[c], i) = Vector!Entry(columns[o][c], i),
           columns' = [columns EXCEPT ![o] = vectors], data_size' = data_size, rows' = rows,
           blank' = blank
    PROVE  /\ BufferStage' /\ RowsAreReports'
           /\ \A x \in Sound : \A i \in DOMAIN rows[x] : \A c \in Columns :
                  Times(x, i, c)' = Times(x, i, c)
<1>0. Sound' = Sound /\ o \in DBObjects /\ Sound \subseteq DBObjects
    BY DEF Sound
<1>1. \A x \in Sound : data_size[x] = Len(rows[x]) /\ DOMAIN rows[x] = 1 .. Len(rows[x])
    BY SoundBuffers DEF RowsAreReports
<1>2. /\ columns' = [x \in DBObjects |-> columns'[x]]
      /\ columns'[o] = vectors /\ \A x \in DBObjects : x # o => columns'[x] = columns[x]
    BY <1>0 DEF BufferStage
<1>3. BufferStage'
  <2>1. ASSUME NEW x \in Sound
        PROVE  /\ columns'[x] \in [Columns -> Vector!Vectors] /\ data_size'[x] \in Nat
               /\ \A c \in Columns : Agrees(columns'[x][c]) /\ Fits(columns'[x][c], data_size'[x])
    <3>1. CASE x = o
        BY <1>2, <3>1, SoundBuffers
    <3>2. CASE x # o
      <4>1. \A c \in Columns : Agrees(columns[x][c]) /\ Fits(columns[x][c], data_size[x])
          BY DEF BufferStage
      <4> QED
          BY <1>0, <1>2, <3>2, <4>1, SoundBuffers
    <3> QED
        BY <3>1, <3>2
  <2> QED
      BY <1>0, <1>2, <2>1 DEF BufferStage
<1>4. ASSUME NEW x \in Sound, NEW i \in DOMAIN rows[x], NEW c \in Columns
      PROVE  Vector!Entry(columns'[x][c], i - 1) = Vector!Entry(columns[x][c], i - 1)
  <2>1. CASE x = o
    <3>1. i - 1 \in 0 .. data_size[o] - 1
        BY <1>1, <2>1
    <3> QED
        BY <1>2, <2>1, <3>1
  <2>2. CASE x # o
      BY <1>2, <2>2
  <2> QED
      BY <2>1, <2>2
<1>5. RowsAreReports'
    BY <1>0, <1>4 DEF RowsAreReports
<1>6. \A x \in Sound : \A i \in DOMAIN rows[x] : \A c \in Columns :
          Times(x, i, c)' = Times(x, i, c)
    BY <1>4 DEF Times
<1> QED
    BY <1>3, <1>5, <1>6

(* A row is added behind the others, with the entries of its report.       *)
LEMMA RowAdded ==
    ASSUME BufferStage, RowsAreReports, NEW o \in Sound, NEW row \in RowType,
           NEW vectors \in [Columns -> Vector!Vectors],
           \A c \in Columns : Agrees(vectors[c]) /\ Fits(vectors[c], data_size[o] + 1),
           \A c \in Columns : \A i \in Nat :
               Vector!Entry(vectors[c], i) =
                   IF i = data_size[o] THEN IF c \in row.values THEN <<row.number, 0>> ELSE Null
                   ELSE Vector!Entry(columns[o][c], i),
           columns' = [columns EXCEPT ![o] = vectors],
           data_size' = [data_size EXCEPT ![o] = @ + 1],
           rows' = [rows EXCEPT ![o] = Append(@, row)], blank' = blank
    PROVE  /\ BufferStage' /\ RowsAreReports'
           /\ \A x \in Sound : \A i \in DOMAIN rows[x] : \A c \in Columns :
                  Times(x, i, c)' = Times(x, i, c)
           /\ \A i \in Nat : i = Len(rows[o]) + 1 => \A c \in row.values : Times(o, i, c)' = 0
<1> DEFINE n == data_size[o]
           N == Len(rows[o]) + 1
<1>0. Sound' = Sound /\ o \in DBObjects /\ Sound \subseteq DBObjects
    BY DEF Sound
<1>1. /\ \A x \in Sound : data_size[x] = Len(rows[x]) /\ DOMAIN rows[x] = 1 .. Len(rows[x])
      /\ \A x \in DBObjects : rows[x] \in Seq(RowType) /\ Len(rows[x]) \in Nat
      /\ n \in Nat /\ N = n + 1 /\ N - 1 = n
  <2>1. \A x \in Sound : data_size[x] = Len(rows[x]) /\ DOMAIN rows[x] = 1 .. Len(rows[x])
      BY SoundBuffers DEF RowsAreReports
  <2>2. \A x \in DBObjects : rows[x] \in Seq(RowType) /\ Len(rows[x]) \in Nat
      BY SoundBuffers
  <2> HIDE DEF RowType
  <2> QED
      BY <2>1, <2>2, SoundBuffers
<1>2. /\ columns' = [x \in DBObjects |-> columns'[x]]
      /\ columns'[o] = vectors /\ \A x \in DBObjects : x # o => columns'[x] = columns[x]
    BY <1>0 DEF BufferStage
<1>3. /\ data_size' = [x \in DBObjects |-> data_size'[x]]
      /\ data_size'[o] = n + 1 /\ \A x \in DBObjects : x # o => data_size'[x] = data_size[x]
    BY <1>0, <1>1 DEF BufferStage
<1>4. /\ rows'[o] = Append(rows[o], row) /\ \A x \in DBObjects : x # o => rows'[x] = rows[x]
      /\ rows' = [x \in DBObjects |-> rows'[x]]
    BY <1>0 DEF BufferStage
<1>5. /\ Append(rows[o], row) \in Seq(RowType) /\ Len(Append(rows[o], row)) = N
      /\ DOMAIN Append(rows[o], row) = 1 .. N /\ Append(rows[o], row)[N] = row
      /\ \A i \in 1 .. Len(rows[o]) : Append(rows[o], row)[i] = rows[o][i]
  <2> HIDE DEF RowType
  <2> QED
      BY <1>0, <1>1
<1>6. rows' \in [DBObjects -> Seq(RowType)]
    BY <1>1, <1>4, <1>5
<1>7. row.number \in Nat /\ row.values \subseteq Columns
    BY DEF RowType
<1>8. <<row.number, 0>> # Null /\ <<row.number, 0>>[1] = row.number /\ <<row.number, 0>>[2] = 0
    BY <1>7, NullAssumption
<1> HIDE DEF n, N
<1>9. BufferStage'
  <2>0. ASSUME NEW x \in Sound
        PROVE  columns'[x] \in [Columns -> Vector!Vectors] /\ data_size'[x] \in Nat
    <3>1. CASE x = o
        BY <1>1, <1>2, <1>3, <3>1
    <3>2. CASE x # o
        BY <1>0, <1>2, <1>3, <3>2 DEF BufferStage
    <3> QED
        BY <3>1, <3>2
  <2>1. ASSUME NEW x \in Sound, NEW c \in Columns
        PROVE  Agrees(columns'[x][c]) /\ Fits(columns'[x][c], data_size'[x])
    <3>1. CASE x = o
        BY <1>2, <1>3, <3>1 DEF n
    <3>2. CASE x # o
        BY <1>0, <1>2, <1>3, <3>2 DEF BufferStage
    <3> QED
        BY <3>1, <3>2
  <2> QED
      BY <1>0, <1>2, <1>3, <1>6, <2>0, <2>1 DEF BufferStage
<1>10. ASSUME NEW x \in Sound, NEW i \in DOMAIN rows[x], NEW c \in Columns
       PROVE  Vector!Entry(columns'[x][c], i - 1) = Vector!Entry(columns[x][c], i - 1)
  <2>1. CASE x = o
    <3>1. i - 1 \in Nat /\ i - 1 # n
        BY <1>1, <2>1 DEF n
    <3> QED
        BY <1>2, <2>1, <3>1 DEF n
  <2>2. CASE x # o
      BY <1>0, <1>2, <2>2
  <2> QED
      BY <2>1, <2>2
<1>11. ASSUME NEW c \in Columns
       PROVE  Vector!Entry(columns'[o][c], N - 1) =
                  IF c \in row.values THEN <<row.number, 0>> ELSE Null
    BY <1>1, <1>2 DEF n
<1>12. RowsAreReports'
  <2>1. ASSUME NEW x \in Sound
        PROVE  data_size'[x] = Len(rows'[x])
    <3>1. CASE x = o
        BY <1>1, <1>3, <1>4, <1>5, <3>1
    <3>2. CASE x # o
        BY <1>0, <1>1, <1>3, <1>4, <3>2
    <3> QED
        BY <3>1, <3>2
  <2>2. ASSUME NEW x \in Sound, NEW i \in DOMAIN rows'[x], NEW c \in Columns \ {DataSource}
        PROVE  IF c \in rows'[x][i].values
               THEN /\ Vector!Entry(columns'[x][c], i - 1) # Null
                    /\ Vector!Entry(columns'[x][c], i - 1)[1] = rows'[x][i].number
               ELSE Vector!Entry(columns'[x][c], i - 1) = Null
    <3>1. CASE i \in DOMAIN rows[x]
      <4>1. rows'[x][i] = rows[x][i]
          BY <1>0, <1>1, <1>4, <1>5, <3>1
      <4> QED
          BY <1>10, <3>1, <4>1 DEF RowsAreReports
    <3>2. CASE i \notin DOMAIN rows[x]
      <4>1. x = o
          BY <1>0, <1>4, <3>2
      <4>2. i = N /\ rows'[x][i] = row
          BY <1>1, <1>4, <1>5, <3>2, <4>1
      <4> QED
          BY <1>8, <1>11, <4>1, <4>2
    <3> QED
        BY <3>1, <3>2
  <2> QED
      BY <1>0, <2>1, <2>2 DEF RowsAreReports
<1>13. \A x \in Sound : \A i \in DOMAIN rows[x] : \A c \in Columns :
           Times(x, i, c)' = Times(x, i, c)
    BY <1>10 DEF Times
<1>14. ASSUME NEW i \in Nat, i = N, NEW c \in row.values
       PROVE  Times(o, i, c)' = 0
  <2>1. Vector!Entry(columns'[o][c], i - 1) = <<row.number, 0>>
      BY <1>7, <1>11, <1>14
  <2> QED
      BY <1>8, <2>1 DEF Times
<1> QED
    BY <1>9, <1>12, <1>13, <1>14 DEF N

(* What becomes of a buffer whose parsers took a report in vain makes no   *)
(* difference to those of other objects.                                   *)
LEMMA OthersKept ==
    ASSUME BufferStage, RowsAreReports, NEW o \in DBObjects, o \in blank', blank \subseteq blank',
           NEW vectors, NEW size, NEW list \in Seq(RowType),
           columns' = [columns EXCEPT ![o] = vectors],
           data_size' = [data_size EXCEPT ![o] = size],
           rows' = [rows EXCEPT ![o] = list]
    PROVE  /\ BufferStage' /\ RowsAreReports'
           /\ \A x \in Sound' : x \in Sound /\ x # o /\ rows'[x] = rows[x]
           /\ \A x \in Sound' : \A i \in DOMAIN rows[x] : \A c \in Columns :
                  Times(x, i, c)' = Times(x, i, c)
<1>1. \A x \in Sound' : x \in Sound /\ x # o /\ x \in DBObjects
    BY DEF Sound
<1>2. /\ columns' = [x \in DBObjects |-> columns'[x]]
      /\ data_size' = [x \in DBObjects |-> data_size'[x]]
      /\ rows' \in [DBObjects -> Seq(RowType)]
    BY DEF BufferStage
<1>3. ASSUME NEW x \in Sound'
      PROVE  columns'[x] = columns[x] /\ data_size'[x] = data_size[x] /\ rows'[x] = rows[x]
    BY <1>1 DEF BufferStage
<1>4. BufferStage'
    BY <1>1, <1>2, <1>3 DEF BufferStage
<1>5. RowsAreReports'
    BY <1>1, <1>3 DEF RowsAreReports
<1>6. \A x \in Sound' : \A i \in DOMAIN rows[x] : \A c \in Columns :
          Times(x, i, c)' = Times(x, i, c)
    BY <1>3 DEF Times
<1> QED
    BY <1>1, <1>3, <1>4, <1>5, <1>6

(* Does the parser at work convert the unit of a variable? *)
Converts(c) == c \in Mapped(Parser) /\ Parser.mappings[MappingOf(Parser, c)].unit

(* A column after transformBuffer: the last entry is converted if it is to *)
(* be and is not null, the others are as before.                           *)
LEMMA ColumnConverted ==
    ASSUME TypeOK, BufferStage, parser # 0, Parser.object \in Sound,
           data_size[Parser.object] > 0, NEW c \in Columns
    PROVE  LET n   == data_size[Parser.object]
               vec == columns[Parser.object][c]
               new == ConvertedLast(Parser)[c]
               old == Vector!Entry(vec, n - 1)
           IN  /\ new \in Vector!Vectors /\ Agrees(new) /\ Fits(new, n)
               /\ \A i \in Nat : i # n - 1 => Vector!Entry(new, i) = Vector!Entry(vec, i)
               /\ c # DataSource =>
                      Vector!Entry(new, n - 1) =
                          IF old # Null /\ Converts(c) THEN <<old[1], old[2] + 1>> ELSE old
<1> DEFINE o   == Parser.object
           n   == data_size[o]
           k   == n - 1
           vec == columns[o][c]
           new == ConvertedLast(Parser)[c]
           old == Vector!Entry(vec, k)
           inc == <<old[1], old[2] + 1>>
<1>1. o \in Sound
    OBVIOUS
<1>2. n \in Nat /\ n > 0 /\ k \in Nat /\ k + 1 = n
  <2>1. n \in Nat
      BY <1>1, SoundBuffers
  <2> QED
      BY <2>1
<1>3. vec \in Vector!Vectors /\ Agrees(vec) /\ Fits(vec, k + 1) /\ Fits(vec, n)
    BY <1>1, <1>2 DEF BufferStage
<1>4. new = IF c = DataSource
            THEN IF Parser.override THEN Vector!SetValue(vec, k, <<0, 0>>) ELSE vec
            ELSE IF Converts(c) /\ ~Vector!IsNull(vec, k)
            THEN Vector!SetValue(vec, k, inc)
            ELSE vec
    BY DEF ConvertedLast, Converted, Converts
<1> HIDE DEF vec, new, k, n, o
<1>5. ~Vector!IsNull(vec, k) => inc \in Values /\ old # Null
  <2> SUFFICES ASSUME ~Vector!IsNull(vec, k)
               PROVE  inc \in Values /\ old # Null
      OBVIOUS
  <2>1. old \in Values
      BY <1>2, <1>3, NotNullHasValue
  <2> HIDE DEF old
  <2>2. old[1] \in Nat /\ old[2] \in Nat
      BY <2>1 DEF Values
  <2> QED
      BY <2>1, <2>2, NullAssumption DEF Values
<1>6. Vector!IsNull(vec, k) => old = Null
    BY DEF Vector!Entry
<1> HIDE DEF inc, old
<1>7. CASE c = DataSource /\ Parser.override
  <2>1. new = Vector!SetValue(vec, k, <<0, 0>>) /\ <<0, 0>> \in Values
      BY <1>4, <1>7 DEF Values
  <2>2. /\ Vector!SetValue(vec, k, <<0, 0>>) \in Vector!Vectors
        /\ Agrees(Vector!SetValue(vec, k, <<0, 0>>))
        /\ Fits(Vector!SetValue(vec, k, <<0, 0>>), k + 1)
        /\ \A i \in Nat : Vector!Entry(Vector!SetValue(vec, k, <<0, 0>>), i) =
               IF i = k THEN <<0, 0>> ELSE Vector!Entry(vec, i)
      BY <1>2, <1>3, <2>1, SetValueWrites
  <2>3. \A i \in Nat : i # k => Vector!Entry(new, i) = Vector!Entry(vec, i)
      BY <2>1, <2>2
  <2> QED
      BY <1>2, <1>7, <2>1, <2>2, <2>3 DEF new, vec, k, n, o, old
<1>8. CASE c # DataSource /\ Converts(c) /\ ~Vector!IsNull(vec, k)
  <2>1. new = Vector!SetValue(vec, k, inc) /\ old # Null
      BY <1>4, <1>5, <1>8
  <2>v. inc \in Values
      BY <1>5, <1>8
  <2>2. /\ Vector!SetValue(vec, k, inc) \in Vector!Vectors
        /\ Agrees(Vector!SetValue(vec, k, inc)) /\ Fits(Vector!SetValue(vec, k, inc), k + 1)
        /\ \A i \in Nat : Vector!Entry(Vector!SetValue(vec, k, inc), i) =
               IF i = k THEN inc ELSE Vector!Entry(vec, i)
      BY <1>2, <1>3, <2>v, SetValueWrites
  <2>3. \A i \in Nat : i # k => Vector!Entry(new, i) = Vector!Entry(vec, i)
      BY <2>1, <2>2
  <2>4. Vector!Entry(new, k) = inc
      BY <1>2, <2>1, <2>2
  <2> QED
      BY <1>2, <1>8, <2>1, <2>2, <2>3, <2>4 DEF new, vec, k, n, o, old, inc
<1>9. CASE ~(c = DataSource /\ Parser.override)
           /\ ~(c # DataSource /\ Converts(c) /\ ~Vector!IsNull(vec, k))
  <2>1. new = vec
      BY <1>4, <1>9
  <2>2. c # DataSource => ~(old # Null /\ Converts(c))
      BY <1>6, <1>9
  <2>3. c # DataSource =>
            Vector!Entry(new, k) = IF old # Null /\ Converts(c) THEN inc ELSE old
      BY <2>1, <2>2 DEF old
  <2> QED
      BY <1>2, <1>3, <2>1, <2>3 DEF new, vec, k, n, o, old, inc
<1> QED
    BY <1>7, <1>8, <1>9

(* After transformBuffer the rows are still the reports, and those values  *)
(* of the last one that have a unit to convert are converted once more.    *)
LEMMA LastRowConverted ==
    ASSUME TypeOK, BufferStage, RowsAreReports, parser # 0, Parser.object \in Sound,
           data_size[Parser.object] > 0, Keep(ConvertedLast(Parser)), rows' = rows,
           blank' = blank
    PROVE  /\ BufferStage' /\ RowsAreReports'
           /\ \A x \in Sound : \A i \in DOMAIN rows[x] : \A c \in Columns \ {DataSource} :
                  c \in rows[x][i].values =>
                  Times(x, i, c)' =
                      IF x = Parser.object /\ i = Len(rows[x]) /\ Converts(c)
                      THEN Times(x, i, c) + 1 ELSE Times(x, i, c)
<1> DEFINE o == Parser.object
           n == data_size[o]
           v == ConvertedLast(Parser)
           Right(new, c) ==
               /\ new \in Vector!Vectors /\ Agrees(new) /\ Fits(new, n)
               /\ \A i \in Nat : i # n - 1 =>
                      Vector!Entry(new, i) = Vector!Entry(columns[o][c], i)
               /\ c # DataSource =>
                      Vector!Entry(new, n - 1) =
                          IF Vector!Entry(columns[o][c], n - 1) # Null /\ Converts(c)
                          THEN <<Vector!Entry(columns[o][c], n - 1)[1],
                                 Vector!Entry(columns[o][c], n - 1)[2] + 1>>
                          ELSE Vector!Entry(columns[o][c], n - 1)
<1>1. /\ o \in Sound /\ o \in DBObjects /\ Columns # {}
      /\ Sound' = Sound /\ Sound \subseteq DBObjects
    BY ParserAtWork DEF Sound
<1>2. /\ \A x \in Sound : data_size[x] = Len(rows[x]) /\ DOMAIN rows[x] = 1 .. Len(rows[x])
      /\ \A x \in DBObjects : Len(rows[x]) \in Nat
      /\ n \in Nat
    BY <1>1, SoundBuffers DEF RowsAreReports
<1>3. ASSUME NEW c \in Columns
      PROVE  Right(v[c], c)
    BY ColumnConverted
<1>4. v \in [Columns -> Vector!Vectors]
  <2>1. v = [c \in Columns |-> v[c]]
      BY DEF ConvertedLast, Converted
  <2> HIDE DEF v
  <2> QED
      BY <1>3, <2>1
<1>5. SizeOf(v, n) = n
  <2> HIDE DEF v, n
  <2> QED
      BY <1>1, <1>2, <1>3, <1>4, SizeOfKept
<1>6. columns' = [columns EXCEPT ![o] = v] /\ data_size' = data_size
  <2>1. columns' = [columns EXCEPT ![o] = v] /\ data_size' = [data_size EXCEPT ![o] = SizeOf(v, @)]
      BY DEF Keep
  <2> HIDE DEF v
  <2> QED
      BY <1>1, <1>5, <2>1 DEF BufferStage
<1> HIDE DEF v
<1>7. /\ columns' = [x \in DBObjects |-> columns'[x]]
      /\ columns'[o] = v /\ \A x \in DBObjects : x # o => columns'[x] = columns[x]
    BY <1>1, <1>4, <1>6 DEF BufferStage
<1>8. BufferStage'
  <2>1. ASSUME NEW x \in Sound
        PROVE  /\ columns'[x] \in [Columns -> Vector!Vectors] /\ data_size'[x] \in Nat
               /\ \A c \in Columns : Agrees(columns'[x][c]) /\ Fits(columns'[x][c], data_size'[x])
    <3>1. CASE x = o
        BY <1>2, <1>3, <1>4, <1>6, <1>7, <3>1
    <3>2. CASE x # o
        BY <1>1, <1>6, <1>7, <3>2 DEF BufferStage
    <3> QED
        BY <3>1, <3>2
  <2> HIDE DEF n, o
  <2> QED
      BY <1>1, <1>6, <1>7, <2>1 DEF BufferStage
<1>9. ASSUME NEW x \in Sound, NEW i \in DOMAIN rows[x], NEW c \in Columns \ {DataSource}
      PROVE  LET old == Vector!Entry(columns[x][c], i - 1)
             IN  Vector!Entry(columns'[x][c], i - 1) =
                     IF x = o /\ i = Len(rows[x]) /\ old # Null /\ Converts(c)
                     THEN <<old[1], old[2] + 1>> ELSE old
  <2>1. CASE x = o /\ i = Len(rows[x])
    <3>1. i - 1 = n - 1 /\ columns'[x] = v
        BY <1>2, <1>7, <2>1
    <3> QED
        BY <1>3, <2>1, <3>1
  <2>2. CASE x = o /\ i # Len(rows[x])
    <3>1. i - 1 # n - 1 /\ i - 1 \in Nat /\ columns'[x] = v
        BY <1>2, <1>7, <2>2
    <3> QED
        BY <1>3, <2>2, <3>1
  <2>3. CASE x # o
      BY <1>1, <1>7, <2>3
  <2> QED
      BY <2>1, <2>2, <2>3
<1> HIDE DEF o, n
<1>10. ASSUME NEW x \in Sound, NEW i \in DOMAIN rows[x], NEW c \in Columns \ {DataSource}
       PROVE  IF c \in rows[x][i].values
              THEN /\ Vector!Entry(columns'[x][c], i - 1) # Null
                   /\ Vector!Entry(columns'[x][c], i - 1)[1] = rows[x][i].number
              ELSE Vector!Entry(columns'[x][c], i - 1) = Null
  <2> DEFINE old == Vector!Entry(columns[x][c], i - 1)
  <2>1. IF c \in rows[x][i].values THEN old # Null /\ old[1] = rows[x][i].number ELSE old = Null
      BY DEF RowsAreReports
  <2>2. c \in rows[x][i].values => <<old[1], old[2] + 1>> # Null
    <3> SUFFICES ASSUME c \in rows[x][i].values
                 PROVE  <<old[1], old[2] + 1>> # Null
        OBVIOUS
    <3>1. ~Vector!IsNull(columns[x][c], i - 1) /\ i - 1 \in Nat
        BY <1>2, <2>1 DEF Vector!Entry
    <3>2. columns[x][c] \in Vector!Vectors /\ Agrees(columns[x][c])
        BY DEF BufferStage
    <3>3. old \in Values
        BY <3>1, <3>2, NotNullHasValue
    <3> HIDE DEF old
    <3>4. old[1] \in Nat /\ old[2] \in Nat
        BY <3>3 DEF Values
    <3> QED
        BY <3>4, NullAssumption
  <2>3. Vector!Entry(columns'[x][c], i - 1) =
            IF x = o /\ i = Len(rows[x]) /\ old # Null /\ Converts(c)
            THEN <<old[1], old[2] + 1>> ELSE old
      BY <1>9
  <2> HIDE DEF old
  <2> QED
      BY <2>1, <2>2, <2>3
<1>11. RowsAreReports'
  <2>1. \A x \in Sound : data_size'[x] = Len(rows'[x])
      BY <1>2, <1>6
  <2> QED
      BY <1>1, <1>10, <2>1 DEF RowsAreReports
<1>12. ASSUME NEW x \in Sound, NEW i \in DOMAIN rows[x], NEW c \in Columns \ {DataSource},
              c \in rows[x][i].values
       PROVE  Times(x, i, c)' = IF x = o /\ i = Len(rows[x]) /\ Converts(c)
                                THEN Times(x, i, c) + 1 ELSE Times(x, i, c)
  <2> DEFINE old == Vector!Entry(columns[x][c], i - 1)
  <2>1. old # Null
      BY <1>12 DEF RowsAreReports
  <2>2. Vector!Entry(columns'[x][c], i - 1) =
            IF x = o /\ i = Len(rows[x]) /\ Converts(c)
            THEN <<old[1], old[2] + 1>> ELSE old
      BY <1>9, <2>1
  <2>3. Times(x, i, c)' = Vector!Entry(columns'[x][c], i - 1)[2] /\ Times(x, i, c) = old[2]
      BY DEF Times
  <2> HIDE DEF old
  <2> QED
      BY <2>2, <2>3
<1> QED
    BY <1>8, <1>11, <1>12 DEF o

-----------------------------------------------------------------------------
(* From parser to parser, and from record to record.                       *)

(* Begin of parseJSON: the reports of a record are target reports, and one *)
(* if the parser does not look into the container.                         *)
LEMMA BeginsWithReports ==
    ASSUME NEW p \in DOMAIN Parsers, NEW rec \in Records, NEW size, Begin(p, rec, size)
    PROVE  /\ reports' \in Seq(Reports)
           /\ ~Parsers[p].container => Len(reports') = 1
           /\ parser' = p /\ row_cnt' = size /\ parsed_any' = FALSE
<1>1. rec.list \in Seq(Reports)
    BY RecordsAssumption
<1>2. <<rec.own>> \in Seq(Reports) /\ Len(<<rec.own>>) = 1
  <2>1. rec.own \in Reports
      BY DEF Reports
  <2> QED
      BY <2>1
<1> QED
    BY <1>1, <1>2 DEF Begin

(* The next parser gets to work behind the last row of its buffer, or the  *)
(* record is through.                                                      *)
LEMMA GoesOn ==
    ASSUME TypeOK, parser # 0, NEW any \in BOOLEAN, GoOn(any), records' = records,
           num_errors' \in Nat, num_reports' \in Nat, blank' = blank
    PROVE  /\ TypeOK' /\ WorkStage' /\ parsed_any' = FALSE
           /\ parser' # 0 => parser' > parser
<1>1. /\ parser \in DOMAIN Parsers /\ parser \in Nat /\ DOMAIN Parsers = 1 .. Len(Parsers)
      /\ Len(Parsers) \in Nat /\ record \in Records /\ records # 0 /\ records \in Nat
    BY ParserAtWork, ParsersAssumption DEF TypeOK
<1>2. CASE parser < Len(Parsers)
  <2> DEFINE o == Parsers[parser + 1].object
  <2>1. parser + 1 \in DOMAIN Parsers /\ parser + 1 # 0
      BY <1>1, <1>2
  <2>2. /\ Begin(parser + 1, record, data_size'[o]) /\ mapped' = any
        /\ record' = record /\ num_mapped' = num_mapped /\ num_not_mapped' = num_not_mapped
      BY <1>2 DEF GoOn
  <2>3. /\ reports' \in Seq(Reports)
        /\ ~Parsers[parser + 1].container => Len(reports') = 1
        /\ parser' = parser + 1 /\ row_cnt' = data_size'[o] /\ parsed_any' = FALSE
      BY <1>1, <2>1, <2>2, BeginsWithReports
  <2>b. parsed_any' \in BOOLEAN /\ mapped' \in BOOLEAN
      BY <2>2, <2>3, Zenon
  <2>n. num_mapped' \in Nat /\ num_not_mapped' \in Nat
      BY <2>2 DEF TypeOK
  <2>p. /\ records' \in Nat /\ parser' \in 0 .. Len(Parsers)
        /\ record' \in Records /\ records' # 0 /\ blank' \subseteq DBObjects
      BY <1>1, <2>1, <2>2, <2>3 DEF TypeOK
  <2>5. TypeOK'
      BY <2>3, <2>b, <2>n, <2>p DEF TypeOK
  <2>6. WorkStage'
      BY <2>1, <2>3 DEF WorkStage, Parser
  <2> QED
      BY <1>1, <2>3, <2>5, <2>6
<1>3. CASE ~(parser < Len(Parsers))
  <2>1. /\ parser' = 0 /\ reports' = <<>> /\ row_cnt' = 0 /\ parsed_any' = FALSE
        /\ num_mapped' = num_mapped + (IF any THEN 1 ELSE 0)
        /\ num_not_mapped' = num_not_mapped + (IF any THEN 0 ELSE 1)
        /\ mapped' = FALSE
      BY <1>3 DEF GoOn
  <2>2. num_mapped' \in Nat /\ num_not_mapped' \in Nat /\ reports' \in Seq(Reports)
      BY <2>1 DEF TypeOK
  <2>b. parsed_any' \in BOOLEAN /\ mapped' \in BOOLEAN
      BY <2>1, Zenon
  <2>p. records' \in Nat /\ parser' \in 0 .. Len(Parsers) /\ blank' \subseteq DBObjects
      BY <1>1, <2>1 DEF TypeOK
  <2>3. TypeOK'
      BY <2>1, <2>2, <2>b, <2>p DEF TypeOK
  <2>4. WorkStage'
      BY <2>1 DEF WorkStage
  <2> QED
      BY <2>1, <2>3, <2>4
<1> QED
    BY <1>2, <1>3

(* No row comes from the parser that begins.                               *)
LEMMA NoRowOfNextParser ==
    ASSUME TypeOK, parser # 0, records' = records, parsed_any' = FALSE,
           parser' \in Nat, parser' # 0 => parser' > parser,
           \A o \in DBObjects : \A i \in DOMAIN rows'[o] : ComesFrom(rows'[o][i], o)
    PROVE  /\ RowStage'
           /\ \A o \in DBObjects : \A i \in DOMAIN rows'[o] : ~Fresh(o, i)'
<1>1. parser \in Nat
    BY ParsersAssumption DEF TypeOK
<1>2. ASSUME NEW o \in DBObjects, NEW i \in DOMAIN rows'[o]
      PROVE  ComesFrom(rows[o][i], o)' /\ ~Fresh(o, i)'
  <2>1. /\ rows'[o][i].parser \in DOMAIN Parsers /\ Parsers[rows'[o][i].parser].object = o
        /\ rows'[o][i].values \subseteq Mapped(Parsers[rows'[o][i].parser])
        /\ rows'[o][i].record \in 1 .. records
        /\ rows'[o][i].record = records => rows'[o][i].parser <= parser
      BY <1>2 DEF ComesFrom
  <2>2. rows'[o][i].parser \in Nat
    <3>1. DOMAIN Parsers \subseteq Nat
        BY ParsersAssumption
    <3> QED
        BY <2>1, <3>1
  <2>3. parser' # 0 /\ rows'[o][i].record = records => rows'[o][i].parser < parser'
      BY <1>1, <2>1, <2>2
  <2> QED
      BY <2>1, <2>2, <2>3 DEF ComesFrom, Fresh
<1> QED
    BY <1>2 DEF RowStage

-----------------------------------------------------------------------------
(* Counting.                                                               *)

(* The accepted records are finitely many.                                 *)
LEMMA AcceptedIsFinite ==
    ASSUME records \in Nat, NEW t
    PROVE  /\ Accepted \subseteq 1 .. records
           /\ IsFiniteSet({n \in Accepted : n <= t})
           /\ Cardinality({n \in Accepted : n <= t}) \in Nat
<1>1. Accepted \subseteq 1 .. records
    BY DEF Accepted
<1>2. IsFiniteSet(1 .. records)
    BY FS_Interval
<1>3. {n \in Accepted : n <= t} \subseteq 1 .. records
    BY <1>1
<1>4. IsFiniteSet({n \in Accepted : n <= t})
    BY <1>2, <1>3, FS_Subset
<1> QED
    BY <1>1, <1>4, FS_CardinalityType

(* A row that is added is the last one.                                    *)
LEMMA RowsAppended ==
    ASSUME BufferStage, NEW o \in DBObjects, NEW row \in RowType,
           rows' = [rows EXCEPT ![o] = Append(@, row)]
    PROVE  /\ Len(rows[o]) \in Nat /\ DOMAIN rows[o] = 1 .. Len(rows[o])
           /\ Len(rows'[o]) = Len(rows[o]) + 1 /\ DOMAIN rows'[o] = 1 .. Len(rows'[o])
           /\ rows'[o][Len(rows[o]) + 1] = row
           /\ \A x \in DBObjects : \A i \in DOMAIN rows[x] :
                  i \in DOMAIN rows'[x] /\ rows'[x][i] = rows[x][i]
           /\ \A x \in DBObjects : \A i \in DOMAIN rows'[x] :
                  i \in DOMAIN rows[x] \/ (x = o /\ i = Len(rows[o]) + 1)
<1>1. /\ rows'[o] = Append(rows[o], row) /\ \A x \in DBObjects : x # o => rows'[x] = rows[x]
      /\ rows[o] \in Seq(RowType)
    BY DEF BufferStage
<1>2. /\ Len(rows[o]) \in Nat /\ DOMAIN rows[o] = 1 .. Len(rows[o])
      /\ Len(rows'[o]) = Len(rows[o]) + 1 /\ DOMAIN rows'[o] = 1 .. Len(rows'[o])
      /\ rows'[o][Len(rows[o]) + 1] = row
      /\ \A i \in DOMAIN rows[o] : i \in DOMAIN rows'[o] /\ rows'[o][i] = rows[o][i]
      /\ \A i \in DOMAIN rows'[o] : i \in DOMAIN rows[o] \/ i = Len(rows[o]) + 1
  <2> HIDE DEF RowType
  <2> QED
      BY <1>1
<1> QED
    BY <1>1, <1>2

(* Such a row makes its record an accepted one, if it is whole.            *)
LEMMA AcceptedGrows ==
    ASSUME BufferStage, NEW o \in DBObjects, NEW row \in RowType, records' = records,
           rows' = [rows EXCEPT ![o] = Append(@, row)]
    PROVE  Accepted' = Accepted \cup {n \in 1 .. records : row.whole /\ row.record = n}
<1>1. /\ Len(rows[o]) + 1 \in DOMAIN rows'[o] /\ rows'[o][Len(rows[o]) + 1] = row
      /\ \A x \in DBObjects : \A i \in DOMAIN rows[x] :
             i \in DOMAIN rows'[x] /\ rows'[x][i] = rows[x][i]
      /\ \A x \in DBObjects : \A i \in DOMAIN rows'[x] :
             i \in DOMAIN rows[x] \/ (x = o /\ i = Len(rows[o]) + 1)
  <2>1. /\ Len(rows[o]) \in Nat /\ Len(rows'[o]) = Len(rows[o]) + 1
        /\ DOMAIN rows'[o] = 1 .. Len(rows'[o]) /\ rows'[o][Len(rows[o]) + 1] = row
      BY RowsAppended
  <2>2. \A x \in DBObjects : \A i \in DOMAIN rows[x] :
            i \in DOMAIN rows'[x] /\ rows'[x][i] = rows[x][i]
      BY RowsAppended
  <2>3. \A x \in DBObjects : \A i \in DOMAIN rows'[x] :
            i \in DOMAIN rows[x] \/ (x = o /\ i = Len(rows[o]) + 1)
      BY RowsAppended
  <2>4. Len(rows[o]) + 1 \in DOMAIN rows'[o]
      BY <2>1
  <2> QED
      BY <2>1, <2>2, <2>3, <2>4
<1>3. ASSUME NEW n \in 1 .. records
      PROVE  (\E x \in DBObjects : \E i \in DOMAIN rows'[x] :
                  rows'[x][i].whole /\ rows'[x][i].record = n) <=>
             \/ \E x \in DBObjects : \E i \in DOMAIN rows[x] :
                    rows[x][i].whole /\ rows[x][i].record = n
             \/ row.whole /\ row.record = n
  <2>1. ASSUME NEW x \in DBObjects, NEW i \in DOMAIN rows'[x],
               rows'[x][i].whole /\ rows'[x][i].record = n
        PROVE  \/ \E y \in DBObjects : \E j \in DOMAIN rows[y] :
                      rows[y][j].whole /\ rows[y][j].record = n
               \/ row.whole /\ row.record = n
    <3>1. CASE x = o /\ i = Len(rows[o]) + 1
        BY <1>1, <2>1, <3>1
    <3>2. CASE ~(x = o /\ i = Len(rows[o]) + 1)
      <4>1. i \in DOMAIN rows[x] /\ rows'[x][i] = rows[x][i]
          BY <1>1, <3>2
      <4> QED
          BY <2>1, <4>1
    <3> QED
        BY <3>1, <3>2
  <2>2. ASSUME NEW x \in DBObjects, NEW i \in DOMAIN rows[x],
               rows[x][i].whole /\ rows[x][i].record = n
        PROVE  \E y \in DBObjects : \E j \in DOMAIN rows'[y] :
                   rows'[y][j].whole /\ rows'[y][j].record = n
    <3>1. i \in DOMAIN rows'[x] /\ rows'[x][i] = rows[x][i]
        BY <1>1
    <3> QED
        BY <2>2, <3>1
  <2>3. ASSUME row.whole /\ row.record = n
        PROVE  \E y \in DBObjects : \E j \in DOMAIN rows'[y] :
                   rows'[y][j].whole /\ rows'[y][j].record = n
    <3>1. /\ Len(rows[o]) + 1 \in DOMAIN rows'[o]
          /\ rows'[o][Len(rows[o]) + 1].whole /\ rows'[o][Len(rows[o]) + 1].record = n
        BY <1>1, <2>3
    <3> QED
        BY <3>1
  <2> QED
      BY <2>1, <2>2, <2>3
<1> HIDE DEF RowType
<1> QED
    BY <1>3 DEF Accepted

(* When the job goes on to the next parser or is through with the record,  *)
(* the counters are right.                                                 *)
LEMMA CountsGoOn ==
    ASSUME TypeOK, CountStage, parser # 0, NEW any \in BOOLEAN, GoOn(any), records' = records,
           Accepted' = Accepted, any => records \in Accepted,
           num_errors' \in Nat, num_errors' >= num_errors,
           records \in Accepted /\ ~any => RowsThrough + 1 <= num_mapped + num_errors'
    PROVE  CountStage'
<1> DEFINE T == {n \in Accepted : n <= records - 1}
           S == {n \in Accepted : n <= records}
<1>1. /\ records \in Nat /\ records # 0 /\ num_mapped \in Nat /\ num_not_mapped \in Nat
      /\ num_errors \in Nat
      /\ parser \in Nat
    BY ParsersAssumption DEF TypeOK
<1>2. RowsThrough = Cardinality(T) /\ Through = records - 1
    BY DEF RowsThrough, Through
<1>3. /\ num_mapped + num_not_mapped = records - 1
      /\ num_mapped <= Cardinality(T) /\ Cardinality(T) <= num_mapped + num_errors
    BY <1>2 DEF CountStage
<1>4. IsFiniteSet(T) /\ Cardinality(T) \in Nat /\ Accepted \subseteq 1 .. records
    BY <1>1, AcceptedIsFinite
<1>5. CASE parser < Len(Parsers)
  <2>1. /\ parser' = parser + 1 /\ mapped' = any /\ parsed_any' = FALSE
        /\ num_mapped' = num_mapped /\ num_not_mapped' = num_not_mapped
      BY <1>5 DEF GoOn, Begin
  <2>2. parser' # 0
      BY <1>1, <2>1
  <2>3. Through' = records - 1 /\ RowsThrough' = Cardinality(T)
      BY <2>2 DEF Through, RowsThrough
  <2> HIDE DEF T
  <2>4. /\ num_mapped' + num_not_mapped' = Through'
        /\ num_mapped' <= RowsThrough' /\ RowsThrough' <= num_mapped' + num_errors'
      BY <1>1, <1>3, <1>4, <2>1, <2>3
  <2>5. records \in Accepted /\ ~any => RowsThrough' + 1 <= num_mapped' + num_errors'
      BY <1>2, <2>1, <2>3
  <2> QED
      BY <2>1, <2>4, <2>5 DEF CountStage
<1>6. CASE ~(parser < Len(Parsers))
  <2>1. /\ parser' = 0
        /\ num_mapped' = num_mapped + (IF any THEN 1 ELSE 0)
        /\ num_not_mapped' = num_not_mapped + (IF any THEN 0 ELSE 1)
        /\ mapped' = FALSE
      BY <1>6 DEF GoOn
  <2>2. Through' = records /\ RowsThrough' = Cardinality(S)
      BY <2>1 DEF Through, RowsThrough
  <2>3. Cardinality(S) = Cardinality(T) + (IF records \in Accepted THEN 1 ELSE 0)
    <3>0. \A n \in Accepted : n <= records /\ (n <= records - 1 <=> n # records)
        BY <1>1, <1>4
    <3>1. CASE records \in Accepted
      <4>1. S = T \cup {records}
          BY <3>0, <3>1
      <4>2. records \notin T
          BY <3>0, <3>1
      <4> HIDE DEF S, T
      <4> QED
          BY <1>4, <3>1, <4>1, <4>2, FS_AddElement
    <3>2. CASE records \notin Accepted
      <4>1. S = T
          BY <3>0, <3>2
      <4> HIDE DEF S, T
      <4> QED
          BY <1>4, <3>2, <4>1
    <3> QED
        BY <3>1, <3>2
  <2> HIDE DEF S, T
  <2>4. num_mapped' + num_not_mapped' = Through'
      BY <1>1, <1>3, <2>1, <2>2
  <2>5. num_mapped' <= RowsThrough' /\ RowsThrough' <= num_mapped' + num_errors'
    <3>1. CASE records \in Accepted /\ any
        BY <1>1, <1>3, <1>4, <2>1, <2>2, <2>3, <3>1
    <3>2. CASE records \in Accepted /\ ~any
        BY <1>1, <1>2, <1>3, <1>4, <2>1, <2>2, <2>3, <3>2
    <3>3. CASE records \notin Accepted
        BY <1>1, <1>3, <1>4, <2>1, <2>2, <2>3, <3>3
    <3> QED
        BY <3>1, <3>2, <3>3
  <2> QED
      BY <2>1, <2>4, <2>5 DEF CountStage
<1> QED
    BY <1>5, <1>6

-----------------------------------------------------------------------------
(* The steps keep the invariant.                                           *)

(* The row of a report comes from the parser at work.                      *)
LEMMA NewRowFits ==
    ASSUME TypeOK, parser # 0
    PROVE  /\ NewRow \in RowType /\ ComesFrom(NewRow, Parser.object)
           /\ NewRow.number = Number /\ NewRow.record = records /\ NewRow.parser = parser
           /\ NewRow.whole <=> Ends(Parser, Head(reports)) = {}
           /\ \A c \in Columns :
                  c \in NewRow.values <=> Field(Parser, Head(reports), c) = "value"
<1> DEFINE V == {c \in Columns : Field(Parser, Head(reports), c) = "value"}
           w == Ends(Parser, Head(reports)) = {}
<1>1. NewRow = [number |-> Number, record |-> records, parser |-> parser, whole |-> w, values |-> V]
    BY DEF NewRow
<1>2. /\ parser \in DOMAIN Parsers /\ Parser = Parsers[parser] /\ DOMAIN Parsers \subseteq Nat
      /\ records \in Nat /\ records # 0 /\ Number \in Nat
    BY ParserAtWork, ParsersAssumption DEF TypeOK, Number
<1>3. w \in BOOLEAN /\ V \in SUBSET Columns
    OBVIOUS
<1>4. V \subseteq Mapped(Parser)
    BY DEF Field
<1>5. \A c \in Columns : c \in V <=> Field(Parser, Head(reports), c) = "value"
    OBVIOUS
<1>6. parser \in Nat /\ parser <= parser /\ records \in 1 .. records
    BY <1>2
<1>7. w <=> Ends(Parser, Head(reports)) = {}
    OBVIOUS
<1> HIDE DEF V, w
<1>8. NewRow \in RowType
    BY <1>1, <1>2, <1>3 DEF RowType
<1>9. /\ NewRow.number = Number /\ NewRow.record = records /\ NewRow.parser = parser
      /\ NewRow.values = V
    BY <1>1
<1>10. NewRow.whole = w
    BY <1>1
<1>11. ComesFrom(NewRow, Parser.object)
    BY <1>2, <1>4, <1>6, <1>9 DEF ComesFrom
<1> QED
    BY <1>5, <1>7, <1>8, <1>9, <1>10, <1>11

(* The reports left are target reports, and the first is one.              *)
LEMMA ReportsLeft ==
    ASSUME TypeOK, reports # <<>>
    PROVE  /\ Head(reports) \in Reports /\ Tail(reports) \in Seq(Reports)
           /\ Len(reports) = 1 => Tail(reports) = <<>>
<1>1. reports \in Seq(Reports)
    BY DEF TypeOK
<1> QED
    BY <1>1

(* A record begins.                                                        *)
LEMMA NextRecordKeeps ==
    ASSUME MappingInvariant, NextRecord
    PROVE  MappingInvariant'
<1>1. /\ TypeOK /\ BufferStage /\ WorkStage /\ RowsAreReports /\ RowStage /\ ConversionStage
      /\ CountStage
    BY DEF MappingInvariant
<1>2. /\ parser = 0 /\ records' = records + 1 /\ record' \in Records
      /\ Begin(1, record', data_size[Parsers[1].object])
      /\ columns' = columns /\ data_size' = data_size /\ rows' = rows /\ mapped' = mapped
      /\ num_mapped' = num_mapped /\ num_not_mapped' = num_not_mapped
      /\ num_errors' = num_errors /\ num_reports' = num_reports /\ blank' = blank
    BY DEF NextRecord, bufferVars, countVars
<1>3. 1 \in DOMAIN Parsers /\ Len(Parsers) \in Nat /\ 1 <= Len(Parsers)
    BY ParsersAssumption
<1>4. /\ reports' \in Seq(Reports) /\ (~Parsers[1].container => Len(reports') = 1)
      /\ parser' = 1 /\ row_cnt' = data_size[Parsers[1].object] /\ parsed_any' = FALSE
    BY <1>2, <1>3, BeginsWithReports
<1>6. records \in Nat
    BY <1>1 DEF TypeOK
<1>7. TypeOK'
  <2>1. parsed_any' \in BOOLEAN /\ mapped' \in BOOLEAN
      BY <1>1, <1>2, <1>4, Zenon DEF TypeOK
  <2>2. /\ records' \in Nat /\ records' # 0 /\ parser' \in 0 .. Len(Parsers)
        /\ blank' \subseteq DBObjects
      BY <1>1, <1>2, <1>3, <1>4, <1>6 DEF TypeOK
  <2>3. /\ num_mapped' \in Nat /\ num_not_mapped' \in Nat /\ num_errors' \in Nat
        /\ num_reports' \in Nat
      BY <1>1, <1>2 DEF TypeOK
  <2> QED
      BY <1>2, <1>4, <2>1, <2>2, <2>3 DEF TypeOK
<1>8. BufferStage' /\ RowsAreReports'
    BY <1>1, <1>2 DEF BufferStage, RowsAreReports, Sound
<1>9. WorkStage'
    BY <1>2, <1>4 DEF WorkStage, Parser
<1>10. \A o \in DBObjects : \A i \in DOMAIN rows[o] :
           /\ ComesFrom(rows[o][i], o) /\ rows[o][i].record \in 1 .. records
           /\ rows[o][i].record # records + 1 /\ rows[o][i].record \in 1 .. records + 1
    BY <1>1, <1>6 DEF RowStage, ComesFrom
<1>11. ASSUME NEW o \in DBObjects, NEW i \in DOMAIN rows[o]
       PROVE  ComesFrom(rows[o][i], o)' /\ ~Fresh(o, i) /\ ~Fresh(o, i)'
    BY <1>2, <1>10 DEF ComesFrom, Fresh
<1>12. RowStage'
    BY <1>2, <1>4, <1>11 DEF RowStage
<1>13. ConversionStage'
  <2>0. Sound' = Sound /\ Sound \subseteq DBObjects
      BY <1>2 DEF Sound
  <2>1. ASSUME NEW o \in Sound, NEW i \in DOMAIN rows[o], NEW c \in rows[o][i].values
        PROVE  TimesFit(rows[o][i], c, Times(o, i, c)) /\ Times(o, i, c)' = Times(o, i, c)
      BY <1>1, <1>2, <1>11, <2>0 DEF ConversionStage, Times
  <2> QED
      BY <1>2, <1>11, <2>0, <2>1 DEF ConversionStage
<1>14. CountStage'
  <2>1. Accepted' = Accepted /\ records + 1 \notin Accepted
    <3>1. \A n \in 1 .. records + 1 : n \in 1 .. records \/ n = records + 1
        BY <1>6
    <3>2. \A n \in 1 .. records : n \in 1 .. records + 1
        BY <1>6
    <3>3. records + 1 \notin 1 .. records
        BY <1>6
    <3> QED
        BY <1>2, <1>10, <3>1, <3>2, <3>3 DEF Accepted
  <2>2. Through' = Through /\ Through = records
      BY <1>2, <1>4, <1>6 DEF Through
  <2>3. RowsThrough' = RowsThrough
      BY <2>1, <2>2 DEF RowsThrough
  <2>4. /\ num_mapped' + num_not_mapped' = Through'
        /\ num_mapped' <= RowsThrough' /\ RowsThrough' <= num_mapped' + num_errors'
      BY <1>1, <1>2, <2>2, <2>3 DEF CountStage
  <2>5. ~mapped' /\ records' \notin Accepted'
      BY <1>1, <1>2, <2>1 DEF WorkStage
  <2> QED
      BY <2>4, <2>5 DEF CountStage
<1> QED
    BY <1>7, <1>8, <1>9, <1>12, <1>13, <1>14 DEF MappingInvariant

(* A report of another key is passed over.                                 *)
LEMMA WrongKeyKeeps ==
    ASSUME MappingInvariant, WrongKey
    PROVE  MappingInvariant'
<1>1. /\ TypeOK /\ BufferStage /\ WorkStage /\ RowsAreReports /\ RowStage /\ ConversionStage
      /\ CountStage
    BY DEF MappingInvariant
<1>2. /\ parser # 0 /\ reports # <<>> /\ reports' = Tail(reports)
      /\ columns' = columns /\ data_size' = data_size /\ rows' = rows /\ mapped' = mapped
      /\ records' = records /\ record' = record /\ parser' = parser /\ row_cnt' = row_cnt
      /\ parsed_any' = parsed_any
      /\ num_mapped' = num_mapped /\ num_not_mapped' = num_not_mapped
      /\ num_errors' = num_errors /\ num_reports' = num_reports /\ blank' = blank
    BY DEF WrongKey, bufferVars, countVars, recordVars
<1>3. reports' \in Seq(Reports) /\ (Len(reports) = 1 => reports' = <<>>)
    BY <1>1, <1>2, ReportsLeft
<1>4. TypeOK'
    BY <1>1, <1>2, <1>3 DEF TypeOK
<1>5. BufferStage' /\ RowsAreReports'
    BY <1>1, <1>2 DEF BufferStage, RowsAreReports, Sound
<1>6. WorkStage'
    BY <1>1, <1>2, <1>3 DEF WorkStage, Parser, Sound
<1>7. RowStage'
    BY <1>1, <1>2 DEF RowStage, ComesFrom, Fresh, Parser
<1>8. ConversionStage'
    BY <1>1, <1>2 DEF ConversionStage, Fresh, Times, Sound
<1>9. CountStage'
    BY <1>1, <1>2 DEF CountStage, RowsThrough, Through, Accepted
<1> QED
    BY <1>4, <1>5, <1>6, <1>7, <1>8, <1>9 DEF MappingInvariant

(* Values of a row are in columns, and none is the data source.            *)
LEMMA RowValues ==
    ASSUME RowStage, NEW o \in DBObjects, NEW i \in DOMAIN rows[o], NEW c \in rows[o][i].values
    PROVE  /\ rows[o][i].parser \in DOMAIN Parsers /\ c \in Mapped(Parsers[rows[o][i].parser])
           /\ c \in Columns /\ c # DataSource
<1>1. rows[o][i].parser \in DOMAIN Parsers /\ c \in Mapped(Parsers[rows[o][i].parser])
    BY DEF RowStage, ComesFrom
<1> QED
    BY <1>1, MappingOfColumn

(* A report becomes the last row of its buffer.                            *)
LEMMA AcceptKeeps ==
    ASSUME MappingInvariant, Accept
    PROVE  MappingInvariant'
<1>1. /\ TypeOK /\ BufferStage /\ WorkStage /\ RowsAreReports /\ RowStage /\ ConversionStage
      /\ CountStage
    BY DEF MappingInvariant
<1>o. PICK o \in DBObjects : o = Parser.object
    BY <1>1, ParserAtWork DEF Accept, Parse
<1>N. PICK N \in Nat : N = Len(rows[o]) + 1
    BY <1>1 DEF BufferStage
<1> DEFINE n == data_size[o]
           v == Written(Parser, Head(reports))
           row == NewRow
<1>2. /\ parser # 0 /\ reports # <<>> /\ Head(reports).key \in Parser.keys
      /\ num_reports' = num_reports + 1 /\ records' = records
      /\ Ends(Parser, Head(reports)) = {} /\ Keep(v)
      /\ rows' = [rows EXCEPT ![o] = Append(@, row)]
      /\ reports' = Tail(reports) /\ row_cnt' = row_cnt + 1 /\ parsed_any' = TRUE
      /\ record' = record /\ parser' = parser /\ mapped' = mapped
      /\ num_mapped' = num_mapped /\ num_not_mapped' = num_not_mapped
      /\ num_errors' = num_errors
      /\ blank' = IF row.values = {} THEN blank \cup {o} ELSE blank
    BY <1>o DEF Accept, Parse, countVars, Number
<1>3. /\ parser \in DOMAIN Parsers /\ Parser = Parsers[parser] /\ Parser.object = o
      /\ Columns # {} /\ Parser' = Parser
    BY <1>1, <1>2, <1>o, ParserAtWork DEF Parser
<1>5. /\ Head(reports) \in Reports /\ Tail(reports) \in Seq(Reports)
      /\ Len(reports) = 1 => Tail(reports) = <<>>
    BY <1>1, <1>2, ReportsLeft
<1>6. /\ row \in RowType /\ ComesFrom(row, o) /\ row.number = Number
      /\ row.record = records /\ row.parser = parser /\ row.whole
      /\ \A c \in Columns : c \in row.values <=> Field(Parser, Head(reports), c) = "value"
    BY <1>1, <1>2, <1>3, NewRowFits
<1> DEFINE Result ==
               /\ BufferStage' /\ RowsAreReports'
               /\ o \in Sound' => row_cnt' = data_size'[o]
               /\ \A x \in Sound' : x \in Sound /\ \A i \in DOMAIN rows[x] : \A c \in Columns :
                      Times(x, i, c)' = Times(x, i, c)
               /\ o \in Sound' => \A c \in row.values : Times(o, N, c)' = 0
<1>7. ASSUME o \in Sound'
      PROVE  Result
  <2>1. o \in Sound /\ row.values # {} /\ blank' = blank /\ Sound' = Sound
      BY <1>2, <1>7 DEF Sound
  <2>2. n \in Nat /\ row_cnt = n /\ parser # 0 /\ Parser.object \in Sound
      BY <1>1, <1>2, <1>3, <2>1 DEF BufferStage, WorkStage
  <2>3. v \in [Columns -> Vector!Vectors]
      BY <1>1, <2>2, WrittenBehind
  <2>4. \A c \in Columns : Agrees(v[c]) /\ Fits(v[c], n + 1)
      BY <1>1, <1>o, <2>2, WrittenBehind
  <2>5. \A c \in Columns : \A i \in Nat :
            Vector!Entry(v[c], i) =
                IF i = n
                THEN IF Field(Parser, Head(reports), c) = "value" THEN <<Number, 0>> ELSE Null
                ELSE Vector!Entry(columns[o][c], i)
      BY <1>1, <1>o, <2>2, WrittenBehind
  <2>6. \A c \in Columns :
            Fits(v[c], n) <=> Field(Parser, Head(reports), c) \notin {"value", "unfit"}
      BY <1>1, <1>o, <2>2, WrittenBehind
  <2> HIDE DEF v, row
  <2>7. SizeOf(v, n) = n + 1
    <3>1. row.values \subseteq Columns
        BY <1>6 DEF RowType
    <3>2. \E c \in Columns : Field(Parser, Head(reports), c) = "value"
        BY <1>6, <2>1, <3>1
    <3>3. ~(\A c \in Columns : Fits(v[c], n))
        BY <2>6, <3>2
    <3> QED
        BY <1>3, <2>2, <2>3, <2>4, <3>3, SizeOfGrown
  <2>8. columns' = [columns EXCEPT ![o] = v] /\ data_size' = [data_size EXCEPT ![o] = @ + 1]
      BY <1>2, <1>3, <2>7 DEF Keep
  <2>9. \A c \in Columns : \A i \in Nat :
            Vector!Entry(v[c], i) =
                IF i = data_size[o] THEN IF c \in row.values THEN <<row.number, 0>> ELSE Null
                ELSE Vector!Entry(columns[o][c], i)
      BY <1>6, <2>5
  <2>10. /\ row \in RowType /\ rows' = [rows EXCEPT ![o] = Append(@, row)]
         /\ \A c \in Columns : Agrees(v[c]) /\ Fits(v[c], data_size[o] + 1)
      BY <1>2, <1>6, <2>4
  <2>11. /\ BufferStage' /\ RowsAreReports'
         /\ \A x \in Sound : \A i \in DOMAIN rows[x] : \A c \in Columns :
                Times(x, i, c)' = Times(x, i, c)
         /\ \A i \in Nat : i = Len(rows[o]) + 1 => \A c \in row.values : Times(o, i, c)' = 0
      BY <1>1, <2>1, <2>3, <2>8, <2>9, <2>10, RowAdded
  <2>12. \A c \in row.values : Times(o, N, c)' = 0
      BY <1>N, <2>11
  <2>13. row_cnt' = data_size'[o]
      BY <1>1, <1>2, <2>2, <2>8 DEF BufferStage
  <2> QED
      BY <2>1, <2>11, <2>12, <2>13
<1>8. ASSUME o \notin Sound'
      PROVE  Result
  <2>1. o \in blank' /\ blank \subseteq blank'
      BY <1>2, <1>8 DEF Sound
  <2>2. /\ columns' = [columns EXCEPT ![o] = v]
        /\ data_size' = [data_size EXCEPT ![o] = SizeOf(v, data_size[o])]
      BY <1>2, <1>3 DEF Keep
  <2>3. /\ rows' = [rows EXCEPT ![o] = Append(rows[o], row)]
        /\ Append(rows[o], row) \in Seq(RowType)
    <3>1. row \in RowType /\ rows[o] \in Seq(RowType)
        BY <1>1, <1>6 DEF BufferStage
    <3> HIDE DEF row, RowType
    <3> QED
        BY <1>2, <3>1
  <2> HIDE DEF v, row
  <2>4. /\ BufferStage' /\ RowsAreReports'
        /\ \A x \in Sound' : x \in Sound
        /\ \A x \in Sound' : \A i \in DOMAIN rows[x] : \A c \in Columns :
               Times(x, i, c)' = Times(x, i, c)
      BY <1>1, <2>1, <2>2, <2>3, OthersKept
  <2> QED
      BY <1>8, <2>4
<1> HIDE DEF v, row, Result
<1>11. Result
    BY <1>7, <1>8
<1> USE DEF Result
<1>12. /\ Len(rows[o]) \in Nat /\ DOMAIN rows[o] = 1 .. Len(rows[o])
       /\ Len(rows'[o]) = N /\ DOMAIN rows'[o] = 1 .. N
       /\ rows'[o][N] = row
       /\ \A x \in DBObjects : \A i \in DOMAIN rows[x] :
              i \in DOMAIN rows'[x] /\ rows'[x][i] = rows[x][i]
       /\ \A x \in DBObjects : \A i \in DOMAIN rows'[x] :
              i \in DOMAIN rows[x] \/ (x = o /\ i = N)
  <2>1. /\ Len(rows[o]) \in Nat /\ DOMAIN rows[o] = 1 .. Len(rows[o])
        /\ Len(rows'[o]) = Len(rows[o]) + 1 /\ DOMAIN rows'[o] = 1 .. Len(rows'[o])
        /\ rows'[o][Len(rows[o]) + 1] = row
      BY <1>1, <1>2, <1>6, RowsAppended
  <2>2. \A x \in DBObjects : \A i \in DOMAIN rows[x] :
            i \in DOMAIN rows'[x] /\ rows'[x][i] = rows[x][i]
      BY <1>1, <1>2, <1>6, RowsAppended
  <2>3. \A x \in DBObjects : \A i \in DOMAIN rows'[x] :
            i \in DOMAIN rows[x] \/ (x = o /\ i = Len(rows[o]) + 1)
      BY <1>1, <1>2, <1>6, RowsAppended
  <2> QED
      BY <1>N, <2>1, <2>2, <2>3
<1>13. N \in DOMAIN rows'[o]
    BY <1>12, <1>N
<1>14. TypeOK'
  <2>1. parsed_any' \in BOOLEAN /\ mapped' \in BOOLEAN
      BY <1>1, <1>2, Zenon DEF TypeOK
  <2>2. num_reports' \in Nat /\ blank' \subseteq DBObjects
      BY <1>1, <1>2 DEF TypeOK
  <2> QED
      BY <1>1, <1>2, <1>5, <2>1, <2>2 DEF TypeOK
<1>15. WorkStage'
  <2>1. o \in Sound' => row_cnt' = data_size'[o]
      BY <1>11
  <2>2. ~Parser.container => reports' = <<>>
      BY <1>1, <1>2, <1>5 DEF WorkStage
  <2> QED
      BY <1>2, <1>3, <2>1, <2>2 DEF WorkStage
<1>16. ASSUME NEW x \in DBObjects, NEW i \in DOMAIN rows[x]
       PROVE  /\ ComesFrom(rows'[x][i], x) /\ rows'[x][i] = rows[x][i]
              /\ Fresh(x, i)' <=> Fresh(x, i)
              /\ Fresh(x, i) => rows'[x][i].whole /\ Parser.container
  <2>1. ComesFrom(rows[x][i], x) /\ (Fresh(x, i) => rows[x][i].whole /\ parsed_any)
      BY <1>1 DEF RowStage
  <2>2. parsed_any => Parser.container
      BY <1>1, <1>2 DEF WorkStage
  <2>3. rows'[x][i] = rows[x][i]
      BY <1>12
  <2> QED
      BY <1>2, <2>1, <2>2, <2>3 DEF Fresh
<1>17. Fresh(o, N)'
    BY <1>2, <1>6, <1>12 DEF Fresh
<1>18. RowStage'
  <2>1. ASSUME NEW x \in DBObjects, NEW i \in DOMAIN rows'[x]
        PROVE  /\ ComesFrom(rows[x][i], x)'
               /\ Fresh(x, i)' => rows'[x][i].whole /\ parsed_any'
               /\ Fresh(x, i)' /\ ~Parser.container' => i = Len(rows'[x])
    <3>1. CASE i \in DOMAIN rows[x]
        BY <1>2, <1>3, <1>16, <3>1 DEF ComesFrom
    <3>2. CASE i \notin DOMAIN rows[x]
      <4>1. x = o /\ i = N
          BY <1>12, <3>2
      <4>2. rows'[x][i] = row /\ ComesFrom(row, x) /\ row.whole /\ i = Len(rows'[x])
          BY <1>6, <1>12, <4>1
      <4> QED
          BY <1>2, <4>2 DEF ComesFrom
    <3> QED
        BY <3>1, <3>2
  <2>2. rows'[o] # <<>>
      BY <1>13
  <2>3. Fresh(Parser.object, Len(rows[Parser.object]))'
      BY <1>2, <1>3, <1>6, <1>12 DEF Fresh
  <2> QED
      BY <1>3, <2>1, <2>2, <2>3 DEF RowStage
<1>19. ConversionStage'
  <2>0. Sound' \subseteq DBObjects
      BY <1>1, <1>2 DEF Sound
  <2>1. ASSUME NEW x \in Sound', NEW i \in DOMAIN rows'[x], NEW c \in rows'[x][i].values
        PROVE  IF Fresh(x, i)' THEN Times(x, i, c)' = 0
               ELSE TimesFit(rows'[x][i], c, Times(x, i, c)')
    <3>1. CASE i \in DOMAIN rows[x]
      <4>1. rows'[x][i] = rows[x][i] /\ (Fresh(x, i)' <=> Fresh(x, i))
          BY <1>16, <2>0, <3>1
      <4>2. c \in Columns /\ x \in Sound
          BY <1>1, <1>11, <2>0, <3>1, <4>1, RowValues
      <4> QED
          BY <1>1, <1>11, <3>1, <4>1, <4>2 DEF ConversionStage
    <3>2. CASE i \notin DOMAIN rows[x]
      <4>1. x = o /\ i = N
          BY <1>12, <2>0, <3>2
      <4>2. rows'[x][i] = row
          BY <1>12, <4>1
      <4>3. Times(x, i, c)' = 0
          BY <1>11, <4>1, <4>2
      <4> QED
          BY <1>17, <4>1, <4>3
    <3> QED
        BY <3>1, <3>2
  <2> QED
      BY <2>1 DEF ConversionStage
<1>20. CountStage'
  <2>0. records \in Nat /\ records # 0
      BY <1>1, <1>2 DEF TypeOK
  <2>1. Accepted' = Accepted \cup {k \in 1 .. records : row.whole /\ row.record = k}
      BY <1>1, <1>2, <1>3, <1>6, AcceptedGrows
  <2>2. Accepted' = Accepted \cup {records}
      BY <1>6, <2>0, <2>1
  <2>3. Through' = records - 1 /\ Through = records - 1
      BY <1>2 DEF Through
  <2>4. RowsThrough' = RowsThrough
    <3>1. ~(records <= records - 1)
        BY <2>0
    <3>2. {k \in Accepted' : k <= records - 1} = {k \in Accepted : k <= records - 1}
        BY <2>2, <3>1
    <3> QED
        BY <2>3, <3>2 DEF RowsThrough
  <2>5. records' \in Accepted'
      BY <1>2, <2>2
  <2> QED
      BY <1>1, <1>2, <2>3, <2>4, <2>5 DEF CountStage
<1> QED
    BY <1>11, <1>14, <1>15, <1>18, <1>19, <1>20 DEF MappingInvariant

(* A report that is skipped leaves no trace.                               *)
LEMMA CleanedUp ==
    ASSUME TypeOK, BufferStage, WorkStage, RowsAreReports, parser # 0,
           Parser.object \in Sound, NEW report,
           Cleanup(Written(Parser, report)), rows' = rows, blank' = blank
    PROVE  /\ BufferStage' /\ RowsAreReports' /\ data_size' = data_size
           /\ \A x \in Sound : \A i \in DOMAIN rows[x] : \A c \in Columns :
                  Times(x, i, c)' = Times(x, i, c)
<1>o. PICK o \in Sound : o = Parser.object
    OBVIOUS
<1> DEFINE n == data_size[o]
           v == Written(Parser, report)
           w == [c \in Columns |-> Vector!CutToSize(v[c], n)]
<1>1. n \in Nat /\ row_cnt = n /\ Columns # {}
    BY <1>o, ParserAtWork DEF BufferStage, WorkStage
<1>2. v \in [Columns -> Vector!Vectors]
    BY WrittenBehind
<1>3. \A c \in Columns : Agrees(v[c]) /\ Fits(v[c], n + 1)
    BY <1>o, WrittenBehind
<1>4. \A c \in Columns : \A i \in 0 .. n - 1 :
          Vector!Entry(v[c], i) = Vector!Entry(columns[o][c], i)
  <2>1. \A c \in Columns : \A i \in Nat :
            Vector!Entry(v[c], i) =
                IF i = n
                THEN IF Field(Parser, report, c) = "value" THEN <<Number, 0>> ELSE Null
                ELSE Vector!Entry(columns[o][c], i)
      BY <1>o, WrittenBehind
  <2>2. \A i \in 0 .. n - 1 : i \in Nat /\ i # n
      BY <1>1
  <2> HIDE DEF n, v
  <2> QED
      BY <2>1, <2>2
<1>5. IF SizeOf(v, n) > n
      THEN columns' = [columns EXCEPT ![o] = w] /\ data_size' = [data_size EXCEPT ![o] = n]
      ELSE /\ columns' = [columns EXCEPT ![o] = v]
           /\ data_size' = [data_size EXCEPT ![o] = SizeOf(v, n)]
    BY <1>1, <1>o DEF Cleanup, Keep
<1>6. SizeOf(v, n) = IF \A c \in Columns : Fits(v[c], n) THEN n ELSE n + 1
  <2> HIDE DEF n, v
  <2> QED
      BY <1>1, <1>2, <1>3, SizeOfGrown
<1> HIDE DEF v
<1>7. [data_size EXCEPT ![o] = n] = data_size
    BY DEF BufferStage, Sound
<1>8. CASE ~(\A c \in Columns : Fits(v[c], n))
  <2>1. SizeOf(v, n) > n
      BY <1>1, <1>6, <1>8
  <2>2. columns' = [columns EXCEPT ![o] = w] /\ data_size' = data_size
      BY <1>5, <1>7, <2>1
  <2>3. ASSUME NEW c \in Columns
        PROVE  /\ w[c] \in Vector!Vectors /\ Agrees(w[c]) /\ Fits(w[c], data_size[o])
               /\ \A i \in 0 .. data_size[o] - 1 :
                      Vector!Entry(w[c], i) = Vector!Entry(columns[o][c], i)
    <3>1. v[c] \in Vector!Vectors /\ Agrees(v[c]) /\ w[c] = Vector!CutToSize(v[c], n)
        BY <1>2, <1>3
    <3> HIDE DEF w
    <3>2. /\ Vector!CutToSize(v[c], n) \in Vector!Vectors /\ Agrees(Vector!CutToSize(v[c], n))
          /\ Fits(Vector!CutToSize(v[c], n), n)
          /\ \A i \in 0 .. n - 1 :
                 Vector!Entry(Vector!CutToSize(v[c], n), i) = Vector!Entry(v[c], i)
      <4>1. v[c] \in Vector!Vectors /\ Agrees(v[c])
          BY <3>1
      <4> QED
          BY <1>1, <4>1, CutKeeps
    <3> QED
        BY <1>4, <3>1, <3>2
  <2>4. w \in [Columns -> Vector!Vectors]
      BY <2>3
  <2> HIDE DEF w, n
  <2>5. /\ \A c \in Columns : Agrees(w[c]) /\ Fits(w[c], data_size[o])
        /\ \A c \in Columns : \A i \in 0 .. data_size[o] - 1 :
               Vector!Entry(w[c], i) = Vector!Entry(columns[o][c], i)
      BY <2>3
  <2> QED
      BY <2>2, <2>4, <2>5, EntriesKept
<1>9. CASE \A c \in Columns : Fits(v[c], n)
  <2>1. SizeOf(v, n) = n
      BY <1>6, <1>9
  <2>2. columns' = [columns EXCEPT ![o] = v] /\ data_size' = data_size
      BY <1>1, <1>5, <1>7, <2>1
  <2>3. /\ \A c \in Columns : Agrees(v[c]) /\ Fits(v[c], data_size[o])
        /\ \A c \in Columns : \A i \in 0 .. data_size[o] - 1 :
               Vector!Entry(v[c], i) = Vector!Entry(columns[o][c], i)
      BY <1>3, <1>4, <1>9
  <2> QED
      BY <1>2, <2>2, <2>3, EntriesKept
<1> QED
    BY <1>8, <1>9

(* A report is skipped.                                                    *)
LEMMA SkipKeeps ==
    ASSUME MappingInvariant, Skip
    PROVE  MappingInvariant'
<1>1. /\ TypeOK /\ BufferStage /\ WorkStage /\ RowsAreReports /\ RowStage /\ ConversionStage
      /\ CountStage
    BY DEF MappingInvariant
<1>2. /\ parser # 0 /\ reports # <<>> /\ Cleanup(Written(Parser, Head(reports)))
      /\ num_reports' = num_reports + 1 /\ records' = records /\ rows' = rows
      /\ reports' = Tail(reports) /\ row_cnt' = row_cnt /\ parsed_any' = parsed_any
      /\ record' = record /\ parser' = parser /\ mapped' = mapped
      /\ num_mapped' = num_mapped /\ num_not_mapped' = num_not_mapped
      /\ num_errors' = num_errors /\ blank' = blank
    BY DEF Skip, Parse, countVars, Number
<1>s. Sound' = Sound
    BY <1>2 DEF Sound
<1>o. PICK o \in DBObjects : o = Parser.object
    BY <1>1, <1>2, ParserAtWork
<1> DEFINE Result ==
               /\ BufferStage' /\ RowsAreReports'
               /\ o \in Sound => data_size'[o] = data_size[o]
               /\ \A x \in Sound : \A i \in DOMAIN rows[x] : \A c \in Columns :
                      Times(x, i, c)' = Times(x, i, c)
<1>a. ASSUME o \in Sound
      PROVE  Result
  <2>1. /\ BufferStage' /\ RowsAreReports' /\ data_size' = data_size
        /\ \A x \in Sound : \A i \in DOMAIN rows[x] : \A c \in Columns :
               Times(x, i, c)' = Times(x, i, c)
      BY <1>1, <1>2, <1>o, <1>a, CleanedUp
  <2> QED
      BY <2>1
<1>b. ASSUME o \notin Sound
      PROVE  Result
  <2>1. o \in blank' /\ blank \subseteq blank'
      BY <1>2, <1>b DEF Sound
  <2>2. PICK vectors, size : /\ columns' = [columns EXCEPT ![o] = vectors]
                             /\ data_size' = [data_size EXCEPT ![o] = size]
    <3> DEFINE v == Written(Parser, Head(reports))
               w == [c \in Columns |-> Vector!CutToSize(v[c], row_cnt)]
    <3>1. \/ /\ columns' = [columns EXCEPT ![o] = w]
             /\ data_size' = [data_size EXCEPT ![o] = row_cnt]
          \/ /\ columns' = [columns EXCEPT ![o] = v]
             /\ data_size' = [data_size EXCEPT ![o] = SizeOf(v, data_size[o])]
        BY <1>2, <1>o DEF Cleanup, Keep
    <3> HIDE DEF v, w
    <3> QED
        BY <3>1
  <2>3. rows' = [rows EXCEPT ![o] = rows[o]] /\ rows[o] \in Seq(RowType)
      BY <1>1, <1>2 DEF BufferStage
  <2>4. /\ BufferStage' /\ RowsAreReports'
        /\ \A x \in Sound' : \A i \in DOMAIN rows[x] : \A c \in Columns :
               Times(x, i, c)' = Times(x, i, c)
      BY <1>1, <2>1, <2>2, <2>3, OthersKept
  <2> QED
      BY <1>b, <1>s, <2>4
<1> HIDE DEF Result
<1>3. Result
    BY <1>a, <1>b
<1> USE DEF Result
<1>4. reports' \in Seq(Reports) /\ (Len(reports) = 1 => reports' = <<>>)
    BY <1>1, <1>2, ReportsLeft
<1>5. TypeOK'
  <2>1. num_reports' \in Nat
      BY <1>1, <1>2 DEF TypeOK
  <2> QED
      BY <1>1, <1>2, <1>4, <2>1 DEF TypeOK
<1>6. WorkStage'
    BY <1>1, <1>2, <1>3, <1>4, <1>o, <1>s DEF WorkStage, Parser
<1>7. RowStage'
    BY <1>1, <1>2 DEF RowStage, ComesFrom, Fresh, Parser
<1>8. ConversionStage'
  <2>1. ASSUME NEW x \in Sound, NEW i \in DOMAIN rows[x], NEW c \in rows[x][i].values
        PROVE  Times(x, i, c)' = Times(x, i, c)
    <3>1. c \in Columns
        BY <1>1, RowValues DEF Sound
    <3> QED
        BY <1>3, <3>1
  <2> QED
      BY <1>1, <1>2, <1>s, <2>1 DEF ConversionStage, Fresh
<1>9. CountStage'
    BY <1>1, <1>2 DEF CountStage, RowsThrough, Through, Accepted
<1> QED
    BY <1>3, <1>5, <1>6, <1>7, <1>8, <1>9 DEF MappingInvariant

(* A parser has mapped nothing.                                            *)
LEMMA NoneParsedKeeps ==
    ASSUME MappingInvariant, NoneParsed
    PROVE  MappingInvariant'
<1>1. /\ TypeOK /\ BufferStage /\ WorkStage /\ RowsAreReports /\ RowStage /\ ConversionStage
      /\ CountStage
    BY DEF MappingInvariant
<1>2. /\ parser # 0 /\ ~parsed_any /\ GoOn(mapped) /\ mapped \in BOOLEAN
      /\ columns' = columns /\ data_size' = data_size /\ records' = records
      /\ num_errors' = num_errors /\ num_reports' = num_reports /\ rows' = rows
      /\ blank' = blank
    BY <1>1 DEF NoneParsed, GoOnWithout, bufferVars, TypeOK
<1>3. BufferStage' /\ RowsAreReports'
    BY <1>1, <1>2 DEF BufferStage, RowsAreReports, Sound
<1>4. num_errors' \in Nat /\ num_reports' \in Nat /\ num_errors' >= num_errors
    BY <1>1, <1>2 DEF TypeOK
<1>5. /\ TypeOK' /\ WorkStage' /\ parsed_any' = FALSE
      /\ parser' # 0 => parser' > parser
    BY <1>1, <1>2, <1>4, GoesOn
<1>6. parser' \in Nat
    BY <1>5, ParsersAssumption DEF TypeOK
<1>7. \A o \in DBObjects : \A i \in DOMAIN rows'[o] : ComesFrom(rows'[o][i], o)
    BY <1>1, <1>2 DEF RowStage
<1>8. /\ RowStage'
      /\ \A o \in DBObjects : \A i \in DOMAIN rows'[o] : ~Fresh(o, i)'
    BY <1>1, <1>2, <1>5, <1>6, <1>7, NoRowOfNextParser
<1>9. ConversionStage'
  <2>0. Sound' = Sound /\ Sound \subseteq DBObjects
      BY <1>2 DEF Sound
  <2>1. ASSUME NEW o \in Sound, NEW i \in DOMAIN rows[o], NEW c \in rows[o][i].values
        PROVE  TimesFit(rows[o][i], c, Times(o, i, c)) /\ Times(o, i, c)' = Times(o, i, c)
    <3>1. ~Fresh(o, i)
        BY <1>1, <1>2, <2>0 DEF RowStage
    <3> QED
        BY <1>1, <1>2, <3>1 DEF ConversionStage, Times
  <2> QED
      BY <1>2, <1>8, <2>0, <2>1 DEF ConversionStage
<1>10. CountStage'
  <2>1. Accepted' = Accepted
      BY <1>2 DEF Accepted
  <2>2. mapped => records \in Accepted
      BY <1>1 DEF CountStage
  <2>3. records \in Accepted /\ ~mapped => RowsThrough + 1 <= num_mapped + num_errors'
      BY <1>1, <1>2 DEF CountStage
  <2> QED
      BY <1>1, <1>2, <1>4, <2>1, <2>2, <2>3, CountsGoOn
<1> QED
    BY <1>3, <1>5, <1>8, <1>9, <1>10 DEF MappingInvariant

(* The last row of a parser is converted.                                  *)
LEMMA TransformBufferKeeps ==
    ASSUME MappingInvariant, TransformBuffer
    PROVE  MappingInvariant'
<1>1. /\ TypeOK /\ BufferStage /\ WorkStage /\ RowsAreReports /\ RowStage /\ ConversionStage
      /\ CountStage
    BY DEF MappingInvariant
<1>o. PICK o \in DBObjects : o = Parser.object
    BY <1>1, ParserAtWork DEF TransformBuffer
<1>2. /\ parser # 0 /\ parsed_any /\ GoOn(TRUE) /\ data_size[Parser.object] > 0
      /\ Keep(ConvertedLast(Parser)) /\ records' = records
      /\ num_errors' = num_errors /\ num_reports' = num_reports /\ rows' = rows
      /\ blank' = blank
    BY DEF TransformBuffer
<1>s. Sound' = Sound /\ Sound \subseteq DBObjects
    BY <1>2 DEF Sound
<1> DEFINE Result ==
               /\ BufferStage' /\ RowsAreReports'
               /\ \A x \in Sound : \A i \in DOMAIN rows[x] : \A c \in Columns \ {DataSource} :
                      c \in rows[x][i].values =>
                      Times(x, i, c)' =
                          IF x = o /\ i = Len(rows[x]) /\ Converts(c)
                          THEN Times(x, i, c) + 1 ELSE Times(x, i, c)
<1>a. ASSUME o \in Sound
      PROVE  Result
    BY <1>1, <1>2, <1>o, <1>a, LastRowConverted
<1>b. ASSUME o \notin Sound
      PROVE  Result
  <2> DEFINE v == ConvertedLast(Parser)
  <2>1. o \in blank' /\ blank \subseteq blank'
      BY <1>2, <1>b DEF Sound
  <2>2. /\ columns' = [columns EXCEPT ![o] = v]
        /\ data_size' = [data_size EXCEPT ![o] = SizeOf(v, data_size[o])]
      BY <1>2, <1>o DEF Keep
  <2>3. rows' = [rows EXCEPT ![o] = rows[o]] /\ rows[o] \in Seq(RowType)
      BY <1>1, <1>2 DEF BufferStage
  <2> HIDE DEF v
  <2>4. /\ BufferStage' /\ RowsAreReports'
        /\ \A x \in Sound' : x # o
        /\ \A x \in Sound' : \A i \in DOMAIN rows[x] : \A c \in Columns :
               Times(x, i, c)' = Times(x, i, c)
      BY <1>1, <2>1, <2>2, <2>3, OthersKept
  <2> QED
      BY <1>s, <2>4
<1> HIDE DEF Result
<1>3. Result
    BY <1>a, <1>b
<1> USE DEF Result
<1>4. num_errors' \in Nat /\ num_reports' \in Nat /\ num_errors' >= num_errors
    BY <1>1, <1>2 DEF TypeOK
<1>5. /\ TypeOK' /\ WorkStage' /\ parsed_any' = FALSE
      /\ parser' # 0 => parser' > parser
    BY <1>1, <1>2, <1>4, GoesOn
<1>6. parser' \in Nat
    BY <1>5, ParsersAssumption DEF TypeOK
<1>7. \A x \in DBObjects : \A i \in DOMAIN rows'[x] : ComesFrom(rows'[x][i], x)
    BY <1>1, <1>2 DEF RowStage
<1>8. /\ RowStage'
      /\ \A x \in DBObjects : \A i \in DOMAIN rows'[x] : ~Fresh(x, i)'
    BY <1>1, <1>2, <1>5, <1>6, <1>7, NoRowOfNextParser
<1>9. Len(rows[o]) \in DOMAIN rows[o] /\ Fresh(o, Len(rows[o]))
  <2>1. rows[o] # <<>> /\ Fresh(o, Len(rows[o])) /\ rows[o] \in Seq(RowType)
      BY <1>1, <1>2, <1>o DEF RowStage, BufferStage
  <2> HIDE DEF RowType
  <2> QED
      BY <2>1
<1>10. ASSUME NEW x \in Sound, NEW i \in DOMAIN rows[x], NEW c \in rows[x][i].values
       PROVE  TimesFit(rows[x][i], c, Times(x, i, c)')
  <2> DEFINE row == rows[x][i]
             times == Times(x, i, c)
  <2>1. /\ row.parser \in DOMAIN Parsers /\ c \in Mapped(Parsers[row.parser])
        /\ c \in Columns /\ c # DataSource
      BY <1>1, <1>s, RowValues
  <2>2. Times(x, i, c)' = IF x = o /\ i = Len(rows[x]) /\ Converts(c) THEN times + 1 ELSE times
      BY <1>3, <2>1
  <2>3. CASE Fresh(x, i)
    <3>1. times = 0 /\ row.parser = parser /\ Parsers[row.parser] = Parser
        BY <1>1, <2>3 DEF ConversionStage, Fresh, Parser
    <3>2. HasUnit(row, c) <=> Converts(c)
        BY <3>1 DEF HasUnit, Converts
    <3>3. x = o
        BY <1>1, <1>o, <1>s, <3>1 DEF RowStage, ComesFrom
    <3>4. ~Parser.container => i = Len(rows[x])
        BY <1>1, <1>s, <2>3 DEF RowStage
    <3> HIDE DEF times
    <3> QED
        BY <2>2, <3>1, <3>2, <3>3, <3>4 DEF TimesFit
  <2>4. CASE ~Fresh(x, i)
    <3>1. ~(x = o /\ i = Len(rows[x]))
        BY <1>9, <2>4
    <3>2. TimesFit(row, c, times)
        BY <1>1, <2>4 DEF ConversionStage
    <3> QED
        BY <2>2, <3>1, <3>2
  <2> QED
      BY <2>3, <2>4
<1>11. ConversionStage'
    BY <1>2, <1>8, <1>10, <1>s DEF ConversionStage
<1>12. CountStage'
  <2>1. Accepted' = Accepted
      BY <1>2 DEF Accepted
  <2>2. records \in Accepted
    <3>1. /\ rows[o][Len(rows[o])].whole /\ rows[o][Len(rows[o])].record = records
          /\ rows[o][Len(rows[o])].record \in 1 .. records
        BY <1>1, <1>9 DEF RowStage, Fresh, ComesFrom
    <3> QED
        BY <1>9, <3>1 DEF Accepted
  <2> QED
      BY <1>1, <1>2, <1>4, <2>1, <2>2, CountsGoOn
<1> QED
    BY <1>3, <1>5, <1>8, <1>11, <1>12 DEF MappingInvariant

(* An exception ends the parser: its row stays if it has a value, in part. *)
LEMMA RaiseKeeps ==
    ASSUME MappingInvariant, Raise
    PROVE  MappingInvariant'
<1>1. /\ TypeOK /\ BufferStage /\ WorkStage /\ RowsAreReports /\ RowStage /\ ConversionStage
      /\ CountStage
    BY DEF MappingInvariant
<1>o. PICK o \in DBObjects : o = Parser.object
    BY <1>1, ParserAtWork DEF Raise, Parse
<1>N. PICK N \in Nat : N = Len(rows[o]) + 1
    BY <1>1 DEF BufferStage
<1>s. Sound \subseteq DBObjects
    BY DEF Sound
<1> DEFINE n == data_size[o]
           v == Written(Parser, Head(reports))
           row == NewRow
           F(c) == Field(Parser, Head(reports), c)
<1>2. /\ parser # 0 /\ reports # <<>> /\ num_reports' = num_reports + 1 /\ records' = records
      /\ Ends(Parser, Head(reports)) # {} /\ LastField = "malformed"
      /\ Keep(v) /\ GoOn(mapped) /\ mapped \in BOOLEAN
      /\ rows' = [rows EXCEPT ![o] = IF row.values = {} THEN @ ELSE Append(@, row)]
      /\ num_errors' = num_errors + 1 /\ blank' = blank /\ Sound' = Sound
    BY <1>1, <1>o DEF Raise, Parse, GoOnWithout, Number, TypeOK, Sound
<1>3. /\ parser \in DOMAIN Parsers /\ Parser = Parsers[parser] /\ Columns # {}
    BY <1>1, <1>2, ParserAtWork
<1>4. /\ row \in RowType /\ ComesFrom(row, o) /\ row.number = Number
      /\ row.record = records /\ row.parser = parser /\ ~row.whole
      /\ \A c \in Columns : c \in row.values <=> F(c) = "value"
    BY <1>1, <1>2, <1>o, NewRowFits
<1>5. \A c \in Columns : F(c) # "unfit"
  <2> SUFFICES ASSUME NEW c \in Columns, F(c) = "unfit"
               PROVE  FALSE
      OBVIOUS
  <2>1. Head(reports).fields[Parser.mappings[Min(Ends(Parser, Head(reports)))].column] = "unfit"
      BY <1>3, UnfitIsLast
  <2> QED
      BY <1>2, <2>1 DEF LastField
<1>w. parser # 0
    BY <1>2
<1>k. columns' = [columns EXCEPT ![o] = v] /\ data_size' = [data_size EXCEPT ![o] = SizeOf(v, n)]
    BY <1>2, <1>o DEF Keep
<1>l. \/ row.values = {} /\ rows' = rows
      \/ row.values # {} /\ rows' = [rows EXCEPT ![o] = Append(@, row)]
    BY <1>1, <1>2 DEF BufferStage
<1>6. o \in Sound =>
          /\ n \in Nat /\ v \in [Columns -> Vector!Vectors]
          /\ \A c \in Columns : Agrees(v[c]) /\ Fits(v[c], n + 1)
          /\ \A c \in Columns : \A i \in Nat :
                 Vector!Entry(v[c], i) =
                     IF i = n THEN IF F(c) = "value" THEN <<Number, 0>> ELSE Null
                     ELSE Vector!Entry(columns[o][c], i)
          /\ \A c \in Columns : Fits(v[c], n) <=> F(c) \notin {"value", "unfit"}
  <2> SUFFICES ASSUME Parser.object \in Sound
               PROVE  /\ n \in Nat /\ v \in [Columns -> Vector!Vectors]
                      /\ \A c \in Columns : Agrees(v[c]) /\ Fits(v[c], n + 1)
                      /\ \A c \in Columns : \A i \in Nat :
                             Vector!Entry(v[c], i) =
                                 IF i = n THEN IF F(c) = "value" THEN <<Number, 0>> ELSE Null
                                 ELSE Vector!Entry(columns[o][c], i)
                      /\ \A c \in Columns : Fits(v[c], n) <=> F(c) \notin {"value", "unfit"}
      BY <1>o
  <2>1. n \in Nat
      BY <1>1, <1>o DEF BufferStage
  <2>2. v \in [Columns -> Vector!Vectors]
      BY <1>1, <1>w, WrittenBehind
  <2>3. \A c \in Columns : Agrees(v[c]) /\ Fits(v[c], n + 1)
      BY <1>1, <1>w, <1>o, WrittenBehind
  <2>4. \A c \in Columns : \A i \in Nat :
            Vector!Entry(v[c], i) =
                IF i = n THEN IF F(c) = "value" THEN <<Number, 0>> ELSE Null
                ELSE Vector!Entry(columns[o][c], i)
      BY <1>1, <1>w, <1>o, WrittenBehind
  <2>5. \A c \in Columns : Fits(v[c], n) <=> F(c) \notin {"value", "unfit"}
      BY <1>1, <1>w, <1>o, WrittenBehind
  <2> QED
      BY <2>1, <2>2, <2>3, <2>4, <2>5
<1> HIDE DEF F, v, row
<1> DEFINE Result ==
               /\ BufferStage' /\ RowsAreReports'
               /\ \A x \in Sound : \A i \in DOMAIN rows[x] : \A c \in Columns :
                      Times(x, i, c)' = Times(x, i, c)
               /\ o \in Sound /\ row.values # {} => \A c \in row.values : Times(o, N, c)' = 0
<1>7. ASSUME o \in Sound
      PROVE  Result
  <2>1. /\ n \in Nat /\ v \in [Columns -> Vector!Vectors]
        /\ \A c \in Columns : Agrees(v[c]) /\ Fits(v[c], n + 1)
        /\ \A c \in Columns : \A i \in Nat :
               Vector!Entry(v[c], i) =
                   IF i = n THEN IF c \in row.values THEN <<row.number, 0>> ELSE Null
                   ELSE Vector!Entry(columns[o][c], i)
      BY <1>4, <1>6, <1>7
  <2>2. \A c \in Columns : Fits(v[c], n) <=> c \notin row.values
      BY <1>4, <1>5, <1>6, <1>7
  <2>3. SizeOf(v, n) = IF \A c \in Columns : Fits(v[c], n) THEN n ELSE n + 1
    <3> HIDE DEF n
    <3> QED
        BY <1>3, <2>1, SizeOfGrown
  <2>4. CASE row.values = {}
    <3>1. rows' = rows
        BY <1>l, <2>4
    <3>2. (\A c \in Columns : Fits(v[c], n)) /\ SizeOf(v, n) = n
        BY <2>2, <2>3, <2>4
    <3>3. data_size' = data_size
        BY <1>1, <1>k, <3>2 DEF BufferStage
    <3>4. columns' = [columns EXCEPT ![o] = v]
        BY <1>k
    <3>5. \A c \in Columns : Agrees(v[c]) /\ Fits(v[c], data_size[o])
        BY <2>1, <3>2
    <3>6. \A c \in Columns : \A i \in 0 .. data_size[o] - 1 :
              Vector!Entry(v[c], i) = Vector!Entry(columns[o][c], i)
      <4>1. \A i \in 0 .. n - 1 : i \in Nat /\ i # n
          BY <2>1
      <4> QED
          BY <2>1, <4>1
    <3>7. /\ BufferStage' /\ RowsAreReports'
          /\ \A x \in Sound : \A i \in DOMAIN rows[x] : \A c \in Columns :
                 Times(x, i, c)' = Times(x, i, c)
        BY <1>1, <1>2, <1>7, <2>1, <3>1, <3>3, <3>4, <3>5, <3>6, EntriesKept
    <3> QED
        BY <2>4, <3>7
  <2>5. CASE row.values # {}
    <3>1. rows' = [rows EXCEPT ![o] = Append(@, row)] /\ row \in RowType
        BY <1>4, <1>l, <2>5
    <3>2. ~(\A c \in Columns : Fits(v[c], n))
      <4>1. row.values \subseteq Columns
          BY <3>1 DEF RowType
      <4> QED
          BY <2>2, <2>5, <4>1
    <3>3. data_size' = [data_size EXCEPT ![o] = @ + 1]
        BY <1>1, <1>k, <2>3, <3>2 DEF BufferStage
    <3>4. columns' = [columns EXCEPT ![o] = v]
        BY <1>k
    <3>5. /\ \A c \in Columns : Agrees(v[c]) /\ Fits(v[c], data_size[o] + 1)
          /\ \A c \in Columns : \A i \in Nat :
                 Vector!Entry(v[c], i) =
                     IF i = data_size[o]
                     THEN IF c \in row.values THEN <<row.number, 0>> ELSE Null
                     ELSE Vector!Entry(columns[o][c], i)
        BY <2>1
    <3>6. /\ BufferStage' /\ RowsAreReports'
          /\ \A x \in Sound : \A i \in DOMAIN rows[x] : \A c \in Columns :
                 Times(x, i, c)' = Times(x, i, c)
          /\ \A i \in Nat : i = Len(rows[o]) + 1 => \A c \in row.values : Times(o, i, c)' = 0
        BY <1>1, <1>2, <1>7, <2>1, <3>1, <3>3, <3>4, <3>5, RowAdded
    <3>7. \A c \in row.values : Times(o, N, c)' = 0
        BY <1>N, <3>6
    <3> QED
        BY <3>6, <3>7
  <2> QED
      BY <2>4, <2>5
<1>8. ASSUME o \notin Sound
      PROVE  Result
  <2>1. o \in blank' /\ blank \subseteq blank'
      BY <1>2, <1>8 DEF Sound
  <2>2. PICK list \in Seq(RowType) : rows' = [rows EXCEPT ![o] = list]
    <3>1. row \in RowType /\ rows[o] \in Seq(RowType)
        BY <1>1, <1>4 DEF BufferStage
    <3>2. Append(rows[o], row) \in Seq(RowType)
      <4> HIDE DEF RowType
      <4> QED
          BY <3>1
    <3>3. rows = [rows EXCEPT ![o] = rows[o]]
        BY <1>1 DEF BufferStage
    <3> HIDE DEF RowType
    <3> QED
        BY <1>l, <3>1, <3>2, <3>3
  <2>3. /\ BufferStage' /\ RowsAreReports'
        /\ \A x \in Sound' : \A i \in DOMAIN rows[x] : \A c \in Columns :
               Times(x, i, c)' = Times(x, i, c)
      BY <1>1, <1>k, <2>1, <2>2, OthersKept
  <2> QED
      BY <1>2, <1>8, <2>3
<1> HIDE DEF Result
<1>9. Result
    BY <1>7, <1>8
<1> USE DEF Result
<1>14. /\ Accepted' = Accepted
       /\ \A x \in DBObjects : \A i \in DOMAIN rows'[x] :
              IF i \in DOMAIN rows[x] THEN rows'[x][i] = rows[x][i]
              ELSE rows'[x][i] = row /\ x = o /\ i = N /\ row.values # {}
  <2>1. CASE row.values = {} /\ rows' = rows
      BY <1>2, <2>1 DEF Accepted
  <2>2. CASE row.values # {} /\ rows' = [rows EXCEPT ![o] = Append(@, row)]
    <3>0. row \in RowType /\ rows' = [rows EXCEPT ![o] = Append(@, row)]
        BY <1>4, <2>2
    <3>1. rows'[o][Len(rows[o]) + 1] = row
        BY <1>1, <3>0, RowsAppended
    <3>2. \A x \in DBObjects : \A i \in DOMAIN rows[x] :
              i \in DOMAIN rows'[x] /\ rows'[x][i] = rows[x][i]
        BY <1>1, <3>0, RowsAppended
    <3>3. \A x \in DBObjects : \A i \in DOMAIN rows'[x] :
              i \in DOMAIN rows[x] \/ (x = o /\ i = Len(rows[o]) + 1)
        BY <1>1, <3>0, RowsAppended
    <3>4. Accepted' = Accepted \cup {k \in 1 .. records : row.whole /\ row.record = k}
        BY <1>1, <1>2, <3>0, AcceptedGrows
    <3> QED
        BY <1>4, <1>N, <2>2, <3>1, <3>2, <3>3, <3>4
  <2> QED
      BY <1>l, <2>1, <2>2
<1>15. num_errors' \in Nat /\ num_reports' \in Nat /\ num_errors' >= num_errors
  <2>1. num_errors' = num_errors + 1 /\ num_reports' = num_reports + 1
      BY <1>2
  <2>2. num_errors \in Nat /\ num_reports \in Nat
      BY <1>1 DEF TypeOK
  <2> QED
      BY <2>1, <2>2
<1>16. /\ TypeOK' /\ WorkStage' /\ parsed_any' = FALSE
       /\ parser' # 0 => parser' > parser
    BY <1>1, <1>2, <1>15, GoesOn
<1>17. parser' \in Nat
    BY <1>16, ParsersAssumption DEF TypeOK
<1>18. \A x \in DBObjects : \A i \in DOMAIN rows'[x] : ComesFrom(rows'[x][i], x)
  <2>1. \A x \in DBObjects : \A i \in DOMAIN rows[x] : ComesFrom(rows[x][i], x)
      BY <1>1 DEF RowStage
  <2> QED
      BY <1>4, <1>14, <2>1
<1>19. /\ RowStage'
       /\ \A x \in DBObjects : \A i \in DOMAIN rows'[x] : ~Fresh(x, i)'
    BY <1>1, <1>2, <1>16, <1>17, <1>18, NoRowOfNextParser
<1>20. ASSUME NEW x \in Sound, NEW i \in DOMAIN rows'[x], NEW c \in rows'[x][i].values
       PROVE  TimesFit(rows'[x][i], c, Times(x, i, c)')
  <2>1. CASE i \in DOMAIN rows[x]
    <3>1. rows'[x][i] = rows[x][i]
        BY <1>14, <1>s, <2>1
    <3>2. c \in Columns
        BY <1>1, <1>s, <2>1, <3>1, RowValues
    <3>3. Times(x, i, c)' = Times(x, i, c)
        BY <1>9, <2>1, <3>2
    <3>4. CASE Fresh(x, i)
      <4>1. Times(x, i, c) = 0
          BY <1>1, <2>1, <3>1, <3>4 DEF ConversionStage
      <4>2. Parser.container /\ Parsers[rows[x][i].parser] = Parser
          BY <1>1, <1>2, <1>s, <2>1, <3>4 DEF RowStage, WorkStage, Fresh, Parser
      <4> QED
          BY <3>1, <3>3, <4>1, <4>2 DEF TimesFit
    <3>5. CASE ~Fresh(x, i)
        BY <1>1, <2>1, <3>1, <3>3, <3>5 DEF ConversionStage
    <3> QED
        BY <3>4, <3>5
  <2>2. CASE i \notin DOMAIN rows[x]
    <3>1. rows'[x][i] = row /\ x = o /\ i = N /\ row.values # {}
        BY <1>14, <1>s, <2>2
    <3>2. Times(x, i, c)' = 0
        BY <1>9, <3>1
    <3> QED
        BY <1>4, <3>1, <3>2 DEF TimesFit
  <2> QED
      BY <2>1, <2>2
<1>21. ConversionStage'
    BY <1>2, <1>19, <1>20, <1>s DEF ConversionStage
<1>22. CountStage'
  <2>1. Accepted' = Accepted /\ (mapped => records \in Accepted)
      BY <1>1, <1>14 DEF CountStage
  <2>2. RowsThrough + 1 <= num_mapped + num_errors'
    <3>1. RowsThrough \in Nat
        BY <1>1, AcceptedIsFinite DEF RowsThrough, TypeOK
    <3> QED
        BY <1>1, <1>2, <3>1 DEF CountStage, TypeOK
  <2> QED
      BY <1>1, <1>2, <1>15, <2>1, <2>2, CountsGoOn
<1> QED
    BY <1>9, <1>16, <1>19, <1>21, <1>22 DEF MappingInvariant

(* No step, and the first state.                                           *)
LEMMA StutterKeeps ==
    ASSUME MappingInvariant, UNCHANGED vars
    PROVE  MappingInvariant'
<1>1. /\ columns' = columns /\ data_size' = data_size /\ records' = records /\ record' = record
      /\ parser' = parser /\ reports' = reports /\ row_cnt' = row_cnt
      /\ parsed_any' = parsed_any /\ mapped' = mapped
      /\ num_mapped' = num_mapped /\ num_not_mapped' = num_not_mapped
      /\ num_errors' = num_errors /\ num_reports' = num_reports /\ rows' = rows
      /\ blank' = blank
    BY DEF vars, bufferVars, recordVars, countVars
<1>2. TypeOK' /\ BufferStage' /\ RowsAreReports'
    BY <1>1 DEF MappingInvariant, TypeOK, BufferStage, RowsAreReports, Sound
<1>3. WorkStage' /\ RowStage'
    BY <1>1 DEF MappingInvariant, WorkStage, RowStage, ComesFrom, Fresh, Parser,
              Sound
<1>4. ConversionStage'
    BY <1>1 DEF MappingInvariant, ConversionStage, Fresh, Times, Sound
<1>5. CountStage'
    BY <1>1 DEF MappingInvariant, CountStage, RowsThrough, Through, Accepted
<1> QED
    BY <1>2, <1>3, <1>4, <1>5 DEF MappingInvariant

(* The job begins with empty buffers.                                      *)
LEMMA InitInvariant ==
    ASSUME Init
    PROVE  MappingInvariant
<1>1. /\ columns = [o \in DBObjects |-> [c \in Columns |-> Vector!Empty]]
      /\ data_size = [o \in DBObjects |-> 0] /\ rows = [o \in DBObjects |-> <<>>]
      /\ records = 0 /\ parser = 0 /\ reports = <<>> /\ row_cnt = 0
      /\ parsed_any = FALSE /\ mapped = FALSE
      /\ num_mapped = 0 /\ num_not_mapped = 0 /\ num_errors = 0 /\ num_reports = 0
      /\ blank = {}
    BY DEF Init
<1>2. Vector!Empty \in Vector!Vectors /\ Agrees(Vector!Empty) /\ Fits(Vector!Empty, 0)
  <2>1. Vector!Empty = [data |-> <<>>, null_flags |-> <<>>]
      BY DEF Vector!Empty
  <2>2. <<>> \in Seq(Values) /\ <<>> \in Seq(Vector!Bits)
      OBVIOUS
  <2>3. /\ Vector!Empty.data = <<>> /\ Vector!Empty.null_flags = <<>>
        /\ Len(<<>>) = 0 /\ DOMAIN <<>> = {} /\ 0 <= 0
      BY <2>1
  <2>4. Vector!Empty \in Vector!Vectors
      BY <2>1, <2>2, MadeVector
  <2> QED
      BY <2>3, <2>4 DEF Agrees, Fits
<1>3. TypeOK
  <2>1. parsed_any \in BOOLEAN /\ mapped \in BOOLEAN
      BY <1>1, Zenon
  <2>2. parser \in 0 .. Len(Parsers) /\ reports \in Seq(Reports)
      BY <1>1, ParsersAssumption
  <2> QED
      BY <1>1, <2>1, <2>2 DEF TypeOK
<1>4. BufferStage
  <2>1. <<>> \in Seq(RowType)
      OBVIOUS
  <2>2. rows \in [DBObjects -> Seq(RowType)] /\ data_size \in [DBObjects -> Nat]
      BY <1>1, <2>1
  <2>5. Sound = DBObjects
      BY <1>1 DEF Sound
  <2>3. columns \in [DBObjects -> [Columns -> Vector!Vectors]]
      BY <1>1, <1>2
  <2>4. \A o \in DBObjects, c \in Columns : columns[o][c] = Vector!Empty /\ data_size[o] = 0
      BY <1>1
  <2> QED
      BY <1>2, <2>2, <2>3, <2>4, <2>5 DEF BufferStage
<1>5. \A o \in DBObjects : rows[o] = <<>> /\ DOMAIN rows[o] = {} /\ Len(rows[o]) = 0
    BY <1>1
<1>6. WorkStage
    BY <1>1 DEF WorkStage
<1>7. RowsAreReports /\ RowStage /\ ConversionStage
  <2>1. \A o \in DBObjects : data_size[o] = 0
      BY <1>1
  <2> QED
      BY <1>1, <1>5, <2>1 DEF RowsAreReports, RowStage, ConversionStage, Sound
<1>8. CountStage
  <2>1. Accepted = {}
      BY <1>5 DEF Accepted
  <2>2. Through = 0 /\ RowsThrough = 0
      BY <1>1, <2>1, FS_EmptySet DEF Through, RowsThrough
  <2> QED
      BY <1>1, <2>1, <2>2 DEF CountStage
<1> QED
    BY <1>3, <1>4, <1>6, <1>7, <1>8 DEF MappingInvariant

(* Every step keeps the invariant.                                         *)
LEMMA StepKeeps ==
    ASSUME MappingInvariant, [Next]_vars
    PROVE  MappingInvariant'
<1>1. CASE NextRecord
    BY <1>1, NextRecordKeeps
<1>2. CASE WrongKey
    BY <1>2, WrongKeyKeeps
<1>3. CASE Accept
    BY <1>3, AcceptKeeps
<1>4. CASE Skip
    BY <1>4, SkipKeeps
<1>5. CASE Raise
    BY <1>5, RaiseKeeps
<1>6. CASE NoneParsed
    BY <1>6, NoneParsedKeeps
<1>7. CASE TransformBuffer
    BY <1>7, TransformBufferKeeps
<1>8. CASE UNCHANGED vars
    BY <1>8, StutterKeeps
<1> QED
    BY <1>1, <1>2, <1>3, <1>4, <1>5, <1>6, <1>7, <1>8 DEF Next

-----------------------------------------------------------------------------
(* The theorems.                                                           *)

(* Buffers, rows, the parser at work and the counters always agree.        *)
THEOREM MappingIsConsistent == Spec => []MappingInvariant
<1>1. Init => MappingInvariant
    BY InitInvariant
<1>2. MappingInvariant /\ [Next]_vars => MappingInvariant'
    BY StepKeeps
<1> QED
    BY <1>1, <1>2, PTL DEF Spec

(* The rows of a buffer are the target reports that were taken, entry by   *)
(* entry, and nothing of those that were skipped is left in them, for as   *)
(* long as each report that was taken had a value.                         *)
THEOREM RowsMatchReports == Spec => []RowsAreReports
<1>1. MappingInvariant => RowsAreReports
    BY DEF MappingInvariant
<1> QED
    BY <1>1, MappingIsConsistent, PTL

(* For any parsers and records: a value is converted twice only after a    *)
(* parser of its object has taken a report without a value, and until then *)
(* no value that came with a record of its own is left unconverted between *)
(* the records.                                                            *)
THEOREM ConvertedOnce == Spec => []ConvertedAtMostOnce
<1>1. ASSUME MappingInvariant
      PROVE  ConvertedAtMostOnce
  <2> SUFFICES ASSUME NEW o \in Sound, NEW i \in DOMAIN rows[o],
                      NEW c \in rows[o][i].values
               PROVE  /\ Times(o, i, c) <= (IF HasUnit(rows[o][i], c) THEN 1 ELSE 0)
                      /\ parser = 0 /\ HasUnit(rows[o][i], c) /\ rows[o][i].whole
                            /\ ~Parsers[rows[o][i].parser].container => Times(o, i, c) = 1
      BY DEF ConvertedAtMostOnce
  <2>1. IF Fresh(o, i) THEN Times(o, i, c) = 0 ELSE TimesFit(rows[o][i], c, Times(o, i, c))
      BY <1>1 DEF MappingInvariant, ConversionStage
  <2>2. Fresh(o, i) => parser # 0
      BY DEF Fresh
  <2> QED
      BY <2>1, <2>2 DEF TimesFit
<1> QED
    BY <1>1, MappingIsConsistent, PTL

(* Between the records, the job has counted each one, and the mapped ones  *)
(* are those with a row, but for as many as there were errors.             *)
THEOREM CountsMatch == Spec => []RecordsCounted
<1>1. ASSUME MappingInvariant
      PROVE  RecordsCounted
  <2> SUFFICES ASSUME parser = 0
               PROVE  /\ num_mapped + num_not_mapped = records
                      /\ num_mapped <= Cardinality(Accepted)
                      /\ Cardinality(Accepted) <= num_mapped + num_errors
      BY DEF RecordsCounted
  <2>1. Through = records
      BY DEF Through
  <2>2. records \in Nat
      BY <1>1 DEF MappingInvariant, TypeOK
  <2>5. Accepted \subseteq 1 .. records
      BY <2>2, AcceptedIsFinite
  <2>6. \A n \in 1 .. records : n <= records
      BY <2>2
  <2>3. {n \in Accepted : n <= records} = Accepted
      BY <2>5, <2>6
  <2>4. RowsThrough = Cardinality(Accepted)
      BY <2>1, <2>3 DEF RowsThrough
  <2> QED
      BY <1>1, <2>1, <2>4 DEF MappingInvariant, CountStage
<1> QED
    BY <1>1, MappingIsConsistent, PTL
=============================================================================
