---------------------------- MODULE BufferProofs ----------------------------
(***************************************************************************)
(* Proofs about buffers (src/src/buffer/buffer.cpp) and their columns      *)
(* (src/src/buffer/nullablevector.h), for any values, columns, buffers and *)
(* any number of rows.  A column is two vectors of different length; that  *)
(* a flag which is not null stands for a value (Agrees) is what reading    *)
(* rests on, and it is kept by addData only as long as no vector is longer *)
(* than its buffer (Fits).                                                 *)
(***************************************************************************)
EXTENDS Buffer, TLAPS

-----------------------------------------------------------------------------
(* Helpers on sequences.                                                   *)

(* Filling up makes a sequence as long as asked for, or leaves it. *)
LEMMA FilledType ==
    ASSUME NEW S, NEW s \in Seq(S), NEW n \in Nat, NEW fill \in S
    PROVE  Filled(s, n, fill) \in Seq(S) /\ Len(Filled(s, n, fill)) = Larger(Len(s), n)
<1>1. \A i \in 1 .. n : i <= Len(s) => s[i] \in S
  OBVIOUS
<1> QED BY <1>1 DEF Filled, Resized, Larger

(* What was there stays. *)
LEMMA FilledHead ==
    ASSUME NEW S, NEW s \in Seq(S), NEW n \in Nat, NEW fill \in S
    PROVE  \A i \in 1 .. Len(s) : Filled(s, n, fill)[i] = s[i]
BY DEF Filled, Resized

(* What is filled in is the fill. *)
LEMMA FilledTail ==
    ASSUME NEW S, NEW s \in Seq(S), NEW n \in Nat, NEW fill \in S
    PROVE  \A i \in Len(s) + 1 .. n : Filled(s, n, fill)[i] = fill
BY DEF Filled, Resized

(* Replacing an element leaves the length. *)
LEMMA ReplacedType ==
    ASSUME NEW S, NEW s \in Seq(S), NEW k \in Nat, k < Len(s), NEW e \in S
    PROVE  Replaced(s, k, e) \in Seq(S) /\ Len(Replaced(s, k, e)) = Len(s)
BY DEF Replaced

(* The element is replaced ... *)
LEMMA ReplacedAt ==
    ASSUME NEW S, NEW s \in Seq(S), NEW k \in Nat, k < Len(s), NEW e \in S
    PROVE  Replaced(s, k, e)[k + 1] = e
BY DEF Replaced

(* ... and no other. *)
LEMMA ReplacedElse ==
    ASSUME NEW S, NEW s \in Seq(S), NEW k \in Nat, k < Len(s), NEW e \in S
    PROVE  \A i \in 1 .. Len(s) : i # k + 1 => Replaced(s, k, e)[i] = s[i]
BY DEF Replaced

(* There are flags for all values after the first part of resizeNullTo. *)
LEMMA FillFlagsType ==
    ASSUME NEW vec \in Vectors
    PROVE  /\ FillFlags(vec) \in Seq(Bits)
           /\ Len(FillFlags(vec)) = Larger(Len(vec.null_flags), Len(vec.data))
<1> DEFINE flags == vec.null_flags
           d     == Len(vec.data)
<1>1. flags \in Seq(Bits) /\ d \in Nat /\ 0 \in Bits
  BY DEF Vectors, Bits
<1>2. FillFlags(vec) = Filled(flags, d, 0)
  BY DEF FillFlags
<1> HIDE DEF flags, d, Bits
<1>3. /\ Filled(flags, d, 0) \in Seq(Bits)
      /\ Len(Filled(flags, d, 0)) = Larger(Len(flags), d)
  BY <1>1, FilledType
<1> QED BY <1>2, <1>3 DEF flags, d

(* resizeNullTo leaves flags for all values and for as many entries as asked for. *)
LEMMA ResizeNullToType ==
    ASSUME NEW vec \in Vectors, NEW n \in Nat
    PROVE  /\ ResizeNullTo(vec, n) \in Seq(Bits)
           /\ Len(ResizeNullTo(vec, n)) = Larger(Larger(Len(vec.null_flags), Len(vec.data)), n)
<1> DEFINE f == FillFlags(vec)
<1>1. f \in Seq(Bits) /\ Len(f) = Larger(Len(vec.null_flags), Len(vec.data)) /\ 1 \in Bits
  BY FillFlagsType DEF Bits
<1>2. ResizeNullTo(vec, n) = Filled(f, n, 1)
  BY DEF ResizeNullTo
<1> HIDE DEF f, Bits
<1>3. Filled(f, n, 1) \in Seq(Bits) /\ Len(Filled(f, n, 1)) = Larger(Len(f), n)
  BY <1>1, FilledType
<1> QED BY <1>1, <1>2, <1>3

(* The flags there were stay, *)
LEMMA ResizeNullToFlags ==
    ASSUME NEW vec \in Vectors, NEW n \in Nat
    PROVE  \A i \in 1 .. Len(vec.null_flags) : ResizeNullTo(vec, n)[i] = vec.null_flags[i]
<1> DEFINE flags == vec.null_flags
           f == FillFlags(vec)
<1>1. /\ flags \in Seq(Bits) /\ Len(flags) \in Nat
      /\ Len(vec.data) \in Nat
      /\ 0 \in Bits /\ 1 \in Bits
  BY DEF Vectors, Bits
<1>2. f \in Seq(Bits) /\ Len(f) = Larger(Len(flags), Len(vec.data))
  BY FillFlagsType
<1>3. f = Filled(flags, Len(vec.data), 0) /\ ResizeNullTo(vec, n) = Filled(f, n, 1)
  BY DEF FillFlags, ResizeNullTo
<1> SUFFICES ASSUME NEW i \in 1 .. Len(flags)
             PROVE  ResizeNullTo(vec, n)[i] = flags[i]
  OBVIOUS
<1> HIDE DEF f, flags
<1>4. f[i] = flags[i]
  BY <1>1, <1>3, FilledHead
<1>5. i \in 1 .. Len(f)
  BY <1>1, <1>2 DEF Larger
<1>6. Filled(f, n, 1)[i] = f[i]
  BY <1>1, <1>2, <1>5, FilledHead
<1> QED BY <1>3, <1>4, <1>6

(* values without a flag are flagged as set, *)
LEMMA ResizeNullToData ==
    ASSUME NEW vec \in Vectors, NEW n \in Nat
    PROVE  \A i \in Len(vec.null_flags) + 1 .. Len(vec.data) : ResizeNullTo(vec, n)[i] = 0
<1> DEFINE flags == vec.null_flags
           f == FillFlags(vec)
<1>1. /\ flags \in Seq(Bits) /\ Len(flags) \in Nat
      /\ Len(vec.data) \in Nat
      /\ 0 \in Bits /\ 1 \in Bits
  BY DEF Vectors, Bits
<1>2. f \in Seq(Bits) /\ Len(f) = Larger(Len(flags), Len(vec.data))
  BY FillFlagsType
<1>3. f = Filled(flags, Len(vec.data), 0) /\ ResizeNullTo(vec, n) = Filled(f, n, 1)
  BY DEF FillFlags, ResizeNullTo
<1> SUFFICES ASSUME NEW i \in Len(flags) + 1 .. Len(vec.data)
             PROVE  ResizeNullTo(vec, n)[i] = 0
  OBVIOUS
<1> HIDE DEF f, flags
<1>4. f[i] = 0
  BY <1>1, <1>3, FilledTail
<1>5. i \in 1 .. Len(f)
  BY <1>1, <1>2 DEF Larger
<1>6. Filled(f, n, 1)[i] = f[i]
  BY <1>1, <1>2, <1>5, FilledHead
<1> QED BY <1>3, <1>4, <1>6

(* and what has neither value nor flag as null. *)
LEMMA ResizeNullToRest ==
    ASSUME NEW vec \in Vectors, NEW n \in Nat
    PROVE  \A i \in Larger(Len(vec.null_flags), Len(vec.data)) + 1 .. n :
               ResizeNullTo(vec, n)[i] = 1
<1> DEFINE flags == vec.null_flags
           f == FillFlags(vec)
<1>1. /\ flags \in Seq(Bits) /\ Len(flags) \in Nat
      /\ Len(vec.data) \in Nat
      /\ 0 \in Bits /\ 1 \in Bits
  BY DEF Vectors, Bits
<1>2. f \in Seq(Bits) /\ Len(f) = Larger(Len(flags), Len(vec.data))
  BY FillFlagsType
<1>3. ResizeNullTo(vec, n) = Filled(f, n, 1)
  BY DEF FillFlags, ResizeNullTo
<1> SUFFICES ASSUME NEW i \in Larger(Len(flags), Len(vec.data)) + 1 .. n
             PROVE  ResizeNullTo(vec, n)[i] = 1
  OBVIOUS
<1> HIDE DEF f, flags, Bits
<1>4. \A k \in Len(f) + 1 .. n : Filled(f, n, 1)[k] = 1
  BY <1>1, <1>2, FilledTail
<1> QED BY <1>2, <1>3, <1>4

-----------------------------------------------------------------------------
(* A flag that is not null stands for a value. *)
Agrees(vec) ==
    \A i \in DOMAIN vec.null_flags : vec.null_flags[i] = 0 => i <= Len(vec.data)

(* resizeNullTo calls no entry set that has no value. *)
LEMMA ResizeNullToAgrees ==
    ASSUME NEW vec \in Vectors, NEW n \in Nat, Agrees(vec),
           NEW i \in 1 .. Len(ResizeNullTo(vec, n)), ResizeNullTo(vec, n)[i] = 0
    PROVE  i <= Len(vec.data)
<1> DEFINE flags == vec.null_flags
           r == ResizeNullTo(vec, n)
<1>1. Len(flags) \in Nat /\ Len(vec.data) \in Nat /\ DOMAIN flags = 1 .. Len(flags)
  BY DEF Vectors
<1>2. Len(r) = Larger(Larger(Len(flags), Len(vec.data)), n)
  BY ResizeNullToType
<1>3. \A k \in 1 .. Len(flags) : r[k] = flags[k]
  BY ResizeNullToFlags
<1>4. \A k \in Larger(Len(flags), Len(vec.data)) + 1 .. n : r[k] = 1
  BY ResizeNullToRest
<1>5. \A k \in 1 .. Len(flags) : flags[k] = 0 => k <= Len(vec.data)
  BY <1>1 DEF Agrees
<1>6. i \in 1 .. Len(r) /\ r[i] = 0
  OBVIOUS
<1> HIDE DEF r, flags
<1>7. CASE i <= Len(flags)
  BY <1>1, <1>3, <1>5, <1>6, <1>7
<1>8. CASE i > Len(flags)
  BY <1>1, <1>2, <1>4, <1>6, <1>8 DEF Larger
<1> QED BY <1>1, <1>2, <1>6, <1>7, <1>8 DEF Larger

(* The flags set and append write to are flags. *)
LEMMA RoomForFlagsType ==
    ASSUME NEW vec \in Vectors, NEW k \in Nat
    PROVE  RoomForFlags(vec, k) \in Seq(Bits)
<1>1. ResizeNullTo(vec, k + 1) \in Seq(Bits)
  <2>1. k + 1 \in Nat
    OBVIOUS
  <2> QED BY <2>1, ResizeNullToType
<1>2. vec.null_flags \in Seq(Bits)
  BY DEF Vectors
<1> QED BY <1>1, <1>2 DEF RoomForFlags

(* unsetNull leaves the length of the flags, *)
LEMMA UnsetNullType ==
    ASSUME NEW flags \in Seq(Bits), NEW k \in Nat
    PROVE  UnsetNull(flags, k) \in Seq(Bits) /\ Len(UnsetNull(flags, k)) = Len(flags)
<1>1. 0 \in Bits
  BY DEF Bits
<1> HIDE DEF Bits
<1> QED BY <1>1, ReplacedType DEF UnsetNull

(* resets the flag if there is one, *)
LEMMA UnsetNullAt ==
    ASSUME NEW flags \in Seq(Bits), NEW k \in Nat, k < Len(flags)
    PROVE  UnsetNull(flags, k)[k + 1] = 0
<1>1. 0 \in Bits
  BY DEF Bits
<1> HIDE DEF Bits
<1> QED BY <1>1, ReplacedAt DEF UnsetNull

(* and no other. *)
LEMMA UnsetNullElse ==
    ASSUME NEW flags \in Seq(Bits), NEW k \in Nat
    PROVE  \A i \in 1 .. Len(flags) : i # k + 1 => UnsetNull(flags, k)[i] = flags[i]
<1>1. 0 \in Bits
  BY DEF Bits
<1> HIDE DEF Bits
<1> QED BY <1>1, ReplacedElse DEF UnsetNull

(* set and append make room for the value, *)
LEMMA RoomForDataType ==
    ASSUME NEW vec \in Vectors, NEW k \in Nat
    PROVE  /\ RoomForData(vec, k) \in Seq(Values)
           /\ Len(RoomForData(vec, k)) = Larger(Len(vec.data), k + 1)
           /\ k < Len(RoomForData(vec, k))
<1> DEFINE data == vec.data
<1>1. data \in Seq(Values) /\ Len(data) \in Nat /\ k + 1 \in Nat /\ Zero \in Values
  BY ZeroAssumption DEF Vectors
<1>2. RoomForData(vec, k) = Filled(data, k + 1, Zero)
  BY DEF RoomForData
<1> HIDE DEF data
<1>3. /\ Filled(data, k + 1, Zero) \in Seq(Values)
      /\ Len(Filled(data, k + 1, Zero)) = Larger(Len(data), k + 1)
  BY <1>1, FilledType
<1>4. k < Larger(Len(data), k + 1)
  BY <1>1 DEF Larger
<1> QED BY <1>2, <1>3, <1>4 DEF data

(* behind the values there are. *)
LEMMA RoomForDataHead ==
    ASSUME NEW vec \in Vectors, NEW k \in Nat
    PROVE  \A i \in 1 .. Len(vec.data) : RoomForData(vec, k)[i] = vec.data[i]
<1>1. vec.data \in Seq(Values) /\ k + 1 \in Nat /\ Zero \in Values
  BY ZeroAssumption DEF Vectors
<1> QED BY <1>1, FilledHead DEF RoomForData

(* After set the value is there, in a vector long enough. *)
LEMMA SetValueData ==
    ASSUME NEW vec \in Vectors, NEW k \in Nat, NEW value \in Values
    PROVE  /\ SetValue(vec, k, value).data \in Seq(Values)
           /\ Len(SetValue(vec, k, value).data) = Larger(Len(vec.data), k + 1)
           /\ SetValue(vec, k, value).data[k + 1] = value
<1> DEFINE room == RoomForData(vec, k)
<1>1. SetValue(vec, k, value).data = Replaced(room, k, value)
  BY DEF SetValue
<1>2. /\ room \in Seq(Values) /\ k < Len(room)
      /\ Len(room) = Larger(Len(vec.data), k + 1)
  BY RoomForDataType
<1> HIDE DEF room
<1>3. Replaced(room, k, value) \in Seq(Values) /\ Len(Replaced(room, k, value)) = Len(room)
  BY <1>2, ReplacedType
<1>4. Replaced(room, k, value)[k + 1] = value
  BY <1>2, ReplacedAt
<1> QED BY <1>1, <1>2, <1>3, <1>4

(* set changes no other value. *)
LEMMA SetValueElse ==
    ASSUME NEW vec \in Vectors, NEW k \in Nat, NEW value \in Values
    PROVE  \A i \in 1 .. Len(vec.data) :
               i # k + 1 => SetValue(vec, k, value).data[i] = vec.data[i]
<1> DEFINE room == RoomForData(vec, k)
<1>1. SetValue(vec, k, value).data = Replaced(room, k, value)
  BY DEF SetValue
<1>2. /\ room \in Seq(Values) /\ k < Len(room) /\ Len(vec.data) \in Nat
      /\ Len(room) = Larger(Len(vec.data), k + 1)
  BY RoomForDataType DEF Vectors
<1>3. \A i \in 1 .. Len(vec.data) : room[i] = vec.data[i]
  BY RoomForDataHead
<1> HIDE DEF room
<1> SUFFICES ASSUME NEW i \in 1 .. Len(vec.data), i # k + 1
             PROVE  SetValue(vec, k, value).data[i] = vec.data[i]
  OBVIOUS
<1>4. i \in 1 .. Len(room)
  BY <1>2 DEF Larger
<1>5. Replaced(room, k, value)[i] = room[i]
  BY <1>2, <1>4, ReplacedElse
<1> QED BY <1>1, <1>3, <1>5

(* The flags set and append write to call no entry set that has no value. *)
LEMMA RoomForFlagsAgrees ==
    ASSUME NEW vec \in Vectors, NEW k \in Nat, Agrees(vec),
           NEW i \in 1 .. Len(RoomForFlags(vec, k)), RoomForFlags(vec, k)[i] = 0
    PROVE  i <= Len(vec.data)
<1>1. CASE k > Len(vec.data)
  <2>1. RoomForFlags(vec, k) = ResizeNullTo(vec, k + 1)
    BY <1>1 DEF RoomForFlags
  <2> QED BY <2>1, ResizeNullToAgrees
<1>2. CASE ~(k > Len(vec.data))
  <2>1. RoomForFlags(vec, k) = vec.null_flags
    BY <1>2 DEF RoomForFlags
  <2>2. DOMAIN vec.null_flags = 1 .. Len(vec.null_flags)
    BY DEF Vectors
  <2>3. i \in DOMAIN vec.null_flags /\ vec.null_flags[i] = 0
    BY <2>1, <2>2
  <2> QED BY <2>3 DEF Agrees
<1> QED BY <1>1, <1>2

(* set keeps flags and values in agreement. *)
LEMMA SetValueAgrees ==
    ASSUME NEW vec \in Vectors, Agrees(vec), NEW k \in Nat, NEW value \in Values
    PROVE  SetValue(vec, k, value) \in Vectors /\ Agrees(SetValue(vec, k, value))
<1> DEFINE new  == SetValue(vec, k, value)
           room == RoomForFlags(vec, k)
<1>1. /\ new.data \in Seq(Values) /\ Len(new.data) = Larger(Len(vec.data), k + 1)
  BY SetValueData
<1>2. room \in Seq(Bits) /\ Len(vec.data) \in Nat
  BY RoomForFlagsType DEF Vectors
<1>3. new.null_flags = UnsetNull(room, k)
  BY DEF SetValue
<1>4. new = [data |-> new.data, null_flags |-> new.null_flags]
  BY DEF SetValue
<1>5. \A i \in 1 .. Len(room) : room[i] = 0 => i <= Len(vec.data)
  BY RoomForFlagsAgrees
<1> HIDE DEF new, room
<1>6. new.null_flags \in Seq(Bits) /\ Len(new.null_flags) = Len(room)
  BY <1>2, <1>3, UnsetNullType
<1>7. \A i \in 1 .. Len(room) : i # k + 1 => new.null_flags[i] = room[i]
  BY <1>2, <1>3, UnsetNullElse
<1>8. new \in Vectors
  BY <1>1, <1>4, <1>6 DEF Vectors
<1>9. Agrees(new)
  <2> SUFFICES ASSUME NEW i \in DOMAIN new.null_flags, new.null_flags[i] = 0
               PROVE  i <= Len(new.data)
    BY DEF Agrees
  <2>1. i \in 1 .. Len(room)
    BY <1>6
  <2>2. CASE i = k + 1
    BY <1>1, <1>2, <2>2 DEF Larger
  <2>3. CASE i # k + 1
    <3>1. i <= Len(vec.data)
      BY <1>5, <1>7, <2>1, <2>3
    <3> QED BY <1>1, <1>2, <2>1, <3>1 DEF Larger
  <2> QED BY <2>2, <2>3
<1> QED BY <1>8, <1>9 DEF new

(* What append sets is a value. *)
LEMMA AppendedType ==
    ASSUME NEW vec \in Vectors, NEW k \in Nat, NEW value \in Values
    PROVE  Add(RoomForData(vec, k)[k + 1], value) \in Values
<1> DEFINE room == RoomForData(vec, k)
<1>1. room \in Seq(Values) /\ k < Len(room)
  BY RoomForDataType
<1> HIDE DEF room
<1>2. room[k + 1] \in Values
  BY <1>1
<1> QED BY <1>2, AddAssumption DEF room

(* append keeps flags and values in agreement. *)
LEMMA AppendValueAgrees ==
    ASSUME NEW vec \in Vectors, Agrees(vec), NEW k \in Nat, NEW value \in Values
    PROVE  AppendValue(vec, k, value) \in Vectors /\ Agrees(AppendValue(vec, k, value))
BY AppendedType, SetValueAgrees DEF AppendValue

(* The flags setNull writes to. *)
RoomForNull(vec, k) ==
    IF k >= Len(vec.null_flags) THEN ResizeNullTo(vec, k + 1) ELSE vec.null_flags

(* setNull finds a flag to write to, *)
LEMMA RoomForNullType ==
    ASSUME NEW vec \in Vectors, NEW k \in Nat
    PROVE  /\ RoomForNull(vec, k) \in Seq(Bits)
           /\ k < Len(RoomForNull(vec, k))
<1>1. Len(vec.null_flags) \in Nat /\ vec.null_flags \in Seq(Bits) /\ Len(vec.data) \in Nat
  BY DEF Vectors
<1>2. CASE k >= Len(vec.null_flags)
  <2>1. RoomForNull(vec, k) = ResizeNullTo(vec, k + 1)
    BY <1>2 DEF RoomForNull
  <2>2. k < Larger(Larger(Len(vec.null_flags), Len(vec.data)), k + 1)
    BY <1>1 DEF Larger
  <2> QED BY <2>1, <2>2, ResizeNullToType
<1>3. CASE ~(k >= Len(vec.null_flags))
  BY <1>1, <1>3 DEF RoomForNull
<1> QED BY <1>2, <1>3

(* among flags that call no entry set that has no value. *)
LEMMA RoomForNullAgrees ==
    ASSUME NEW vec \in Vectors, NEW k \in Nat, Agrees(vec),
           NEW i \in 1 .. Len(RoomForNull(vec, k)), RoomForNull(vec, k)[i] = 0
    PROVE  i <= Len(vec.data)
<1>1. CASE k >= Len(vec.null_flags)
  <2>1. RoomForNull(vec, k) = ResizeNullTo(vec, k + 1)
    BY <1>1 DEF RoomForNull
  <2> QED BY <2>1, ResizeNullToAgrees
<1>2. CASE ~(k >= Len(vec.null_flags))
  <2>1. RoomForNull(vec, k) = vec.null_flags
    BY <1>2 DEF RoomForNull
  <2>2. DOMAIN vec.null_flags = 1 .. Len(vec.null_flags)
    BY DEF Vectors
  <2>3. i \in DOMAIN vec.null_flags /\ vec.null_flags[i] = 0
    BY <2>1, <2>2
  <2> QED BY <2>3 DEF Agrees
<1> QED BY <1>1, <1>2

(* setNull leaves the values and sets the flag, *)
LEMMA SetNullFlags ==
    ASSUME NEW vec \in Vectors, NEW k \in Nat
    PROVE  /\ SetNull(vec, k).data = vec.data
           /\ SetNull(vec, k).null_flags = Replaced(RoomForNull(vec, k), k, 1)
           /\ SetNull(vec, k).null_flags \in Seq(Bits)
           /\ Len(SetNull(vec, k).null_flags) = Len(RoomForNull(vec, k))
           /\ SetNull(vec, k).null_flags[k + 1] = 1
<1> DEFINE room == RoomForNull(vec, k)
<1>1. room \in Seq(Bits) /\ k < Len(room) /\ 1 \in Bits
  BY RoomForNullType DEF Bits
<1>2. SetNull(vec, k) = [data |-> vec.data, null_flags |-> Replaced(room, k, 1)]
  BY DEF SetNull, RoomForNull
<1> HIDE DEF room, Bits
<1>3. Replaced(room, k, 1) \in Seq(Bits) /\ Len(Replaced(room, k, 1)) = Len(room)
  BY <1>1, ReplacedType
<1>4. Replaced(room, k, 1)[k + 1] = 1
  BY <1>1, ReplacedAt
<1> QED BY <1>2, <1>3, <1>4 DEF room

(* and no other. *)
LEMMA SetNullElse ==
    ASSUME NEW vec \in Vectors, NEW k \in Nat
    PROVE  \A i \in 1 .. Len(RoomForNull(vec, k)) :
               i # k + 1 => SetNull(vec, k).null_flags[i] = RoomForNull(vec, k)[i]
<1> DEFINE room == RoomForNull(vec, k)
<1>1. room \in Seq(Bits) /\ k < Len(room) /\ 1 \in Bits
  BY RoomForNullType DEF Bits
<1>2. SetNull(vec, k).null_flags = Replaced(room, k, 1)
  BY SetNullFlags
<1> HIDE DEF room, Bits
<1>3. \A i \in 1 .. Len(room) : i # k + 1 => Replaced(room, k, 1)[i] = room[i]
  BY <1>1, ReplacedElse
<1> QED BY <1>2, <1>3 DEF room

(* setNull keeps flags and values in agreement. *)
LEMMA SetNullAgrees ==
    ASSUME NEW vec \in Vectors, Agrees(vec), NEW k \in Nat
    PROVE  SetNull(vec, k) \in Vectors /\ Agrees(SetNull(vec, k))
<1> DEFINE new  == SetNull(vec, k)
           room == RoomForNull(vec, k)
<1>1. /\ new.data = vec.data
      /\ new.null_flags \in Seq(Bits) /\ Len(new.null_flags) = Len(room)
      /\ new.null_flags[k + 1] = 1
  BY SetNullFlags
<1>2. vec.data \in Seq(Values) /\ Len(vec.data) \in Nat
  BY DEF Vectors
<1>3. new = [data |-> new.data, null_flags |-> new.null_flags]
  BY DEF SetNull
<1>4. \A i \in 1 .. Len(room) : room[i] = 0 => i <= Len(vec.data)
  BY RoomForNullAgrees
<1>5. \A i \in 1 .. Len(room) : i # k + 1 => new.null_flags[i] = room[i]
  BY SetNullElse
<1> HIDE DEF new, room
<1>6. new \in Vectors
  BY <1>1, <1>2, <1>3 DEF Vectors
<1>7. Agrees(new)
  <2> SUFFICES ASSUME NEW i \in DOMAIN new.null_flags, new.null_flags[i] = 0
               PROVE  i <= Len(new.data)
    BY DEF Agrees
  <2>1. i \in 1 .. Len(room) /\ i # k + 1
    BY <1>1
  <2> QED BY <1>1, <1>4, <1>5, <2>1
<1> QED BY <1>6, <1>7 DEF new

(* No vector is longer than its buffer. *)
Fits(vec, size) == Len(vec.data) <= size /\ Len(vec.null_flags) <= size

(* Length and elements of sequences that were joined. *)
LEMMA Joined ==
    ASSUME NEW S, NEW s \in Seq(S), NEW t \in Seq(S)
    PROVE  /\ s \o t \in Seq(S) /\ Len(s \o t) = Len(s) + Len(t)
           /\ \A i \in 1 .. Len(s) : (s \o t)[i] = s[i]
           /\ \A i \in Len(s) + 1 .. Len(s) + Len(t) : (s \o t)[i] = t[i - Len(s)]
OBVIOUS

(* Flags put behind others agree with values put behind others, if the first flags end
   before the first values do. *)
LEMMA JoinedAgrees ==
    ASSUME NEW f \in Seq(Bits), NEW g \in Seq(Bits), NEW d \in Nat, NEW n \in Nat,
           \A i \in 1 .. Len(f) : f[i] = 0 => i <= d,
           \A i \in 1 .. Len(g) : g[i] = 0 => i <= n,
           Len(f) <= d \/ n = 0
    PROVE  \A i \in 1 .. Len(f \o g) : (f \o g)[i] = 0 => i <= d + n
<1>1. Len(f) \in Nat /\ Len(g) \in Nat /\ Len(f \o g) = Len(f) + Len(g)
  BY Joined
<1>2. \A i \in 1 .. Len(f) : (f \o g)[i] = f[i]
  BY Joined
<1>3. \A i \in Len(f) + 1 .. Len(f) + Len(g) : (f \o g)[i] = g[i - Len(f)]
  BY Joined
<1> SUFFICES ASSUME NEW i \in 1 .. Len(f \o g), (f \o g)[i] = 0
             PROVE  i <= d + n
  OBVIOUS
<1>4. CASE i <= Len(f)
  BY <1>1, <1>2, <1>4
<1>5. CASE i > Len(f)
  <2>1. i \in Len(f) + 1 .. Len(f) + Len(g) /\ i - Len(f) \in 1 .. Len(g)
    BY <1>1, <1>5
  <2>2. g[i - Len(f)] = 0
    BY <1>3, <2>1
  <2>3. i - Len(f) <= n
    BY <2>1, <2>2
  <2> QED BY <1>1, <2>1, <2>3
<1> QED BY <1>1, <1>4, <1>5

(* A vector made of values and flags that agree. *)
LEMMA MadeVector ==
    ASSUME NEW d \in Seq(Values), NEW f \in Seq(Bits), NEW n \in Nat,
           \A i \in 1 .. Len(f) : f[i] = 0 => i <= Len(d),
           Len(d) <= n, Len(f) <= n
    PROVE  /\ [data |-> d, null_flags |-> f] \in Vectors
           /\ Agrees([data |-> d, null_flags |-> f])
           /\ Fits([data |-> d, null_flags |-> f], n)
<1> DEFINE v == [data |-> d, null_flags |-> f]
<1>1. v.data = d /\ v.null_flags = f /\ DOMAIN f = 1 .. Len(f)
  OBVIOUS
<1>2. v \in Vectors
  BY DEF Vectors
<1> HIDE DEF v
<1>3. Agrees(v) /\ Fits(v, n)
  BY <1>1 DEF Agrees, Fits
<1> QED BY <1>2, <1>3 DEF v

(* Values filled up to the size of the buffer. *)
LEMMA FilledToSize ==
    ASSUME NEW d \in Seq(Values), NEW n \in Nat, Len(d) <= n
    PROVE  Filled(d, n, Zero) \in Seq(Values) /\ Len(Filled(d, n, Zero)) = n
<1>1. Zero \in Values /\ Len(d) \in Nat
  BY ZeroAssumption
<1>2. Larger(Len(d), n) = n
  BY <1>1 DEF Larger
<1> QED BY <1>1, <1>2, FilledType

(* addData keeps flags and values in agreement and makes nothing longer than both buffers:
   the three cases of addData.  Without Fits the last one would fail. *)
LEMMA AddDataKeeps ==
    ASSUME NEW vec \in Vectors, NEW other \in Vectors, Agrees(vec), Agrees(other),
           NEW size \in Nat, Fits(vec, size), NEW more \in Nat, Fits(other, more)
    PROVE  /\ AddData(vec, other, size) \in Vectors
           /\ Agrees(AddData(vec, other, size))
           /\ Fits(AddData(vec, other, size), size + more)
<1> DEFINE new   == AddData(vec, other, size)
           data  == Filled(vec.data, size, Zero)
           flags == ResizeNullTo(vec, size)
           g     == other.null_flags
           e     == other.data
<1>1. /\ vec.data \in Seq(Values) /\ Len(vec.data) \in Nat /\ Len(vec.data) <= size
      /\ vec.null_flags \in Seq(Bits) /\ Len(vec.null_flags) \in Nat
      /\ Len(vec.null_flags) <= size
  BY DEF Vectors, Fits
<1>2. /\ e \in Seq(Values) /\ Len(e) \in Nat /\ Len(e) <= more
      /\ g \in Seq(Bits) /\ Len(g) \in Nat /\ Len(g) <= more
  BY DEF Vectors, Fits
<1>3. data \in Seq(Values) /\ Len(data) = size
  BY <1>1, FilledToSize
<1>4. flags \in Seq(Bits) /\ Len(flags) = size
  BY <1>1, ResizeNullToType DEF Larger
<1>5. \A i \in 1 .. Len(flags) : flags[i] = 0 => i <= Len(vec.data)
  BY ResizeNullToAgrees
<1>6. \A i \in 1 .. Len(vec.null_flags) : vec.null_flags[i] = 0 => i <= Len(vec.data)
  BY <1>1 DEF Agrees
<1>7. \A i \in 1 .. Len(g) : g[i] = 0 => i <= Len(e)
  BY <1>2 DEF Agrees
<1>8. CASE e = <<>> /\ g # <<>>
  <2>1. new = [data |-> vec.data, null_flags |-> flags \o g]
    BY <1>8 DEF AddData
  <2> HIDE DEF new, flags, g, e
  <2>2. Len(e) = 0
    BY <1>8
  <2>3. flags \o g \in Seq(Bits) /\ Len(flags \o g) = size + Len(g)
    BY <1>2, <1>4, Joined
  <2>4. \A i \in 1 .. Len(flags \o g) : (flags \o g)[i] = 0 => i <= Len(vec.data) + Len(e)
    BY <1>1, <1>2, <1>4, <1>5, <1>7, <2>2, JoinedAgrees
  <2>5. /\ size + more \in Nat /\ Len(vec.data) <= size + more
        /\ Len(flags \o g) <= size + more
        /\ \A i \in 1 .. Len(flags \o g) : (flags \o g)[i] = 0 => i <= Len(vec.data)
    BY <1>1, <1>2, <2>2, <2>3, <2>4
  <2> QED BY <1>1, <2>1, <2>3, <2>5, MadeVector DEF new
<1>9. CASE e # <<>> /\ g = <<>>
  <2> DEFINE f == IF Len(vec.data) < size THEN flags ELSE vec.null_flags
  <2>1. new = [data |-> data \o e, null_flags |-> f]
    BY <1>9 DEF AddData
  <2>2. f \in Seq(Bits) /\ Len(f) <= size
    BY <1>1, <1>4
  <2>3. \A i \in 1 .. Len(f) : f[i] = 0 => i <= Len(vec.data)
    BY <1>5, <1>6
  <2> HIDE DEF new, flags, g, e, f, data
  <2>4. data \o e \in Seq(Values) /\ Len(data \o e) = size + Len(e)
    BY <1>2, <1>3, Joined
  <2>5. /\ size + more \in Nat /\ Len(data \o e) <= size + more /\ Len(f) <= size + more
        /\ \A i \in 1 .. Len(f) : f[i] = 0 => i <= Len(data \o e)
    <3>1. Len(f) \in Nat
      BY <2>2
    <3> QED BY <1>1, <1>2, <2>2, <2>3, <2>4, <3>1
  <2> QED BY <2>1, <2>2, <2>4, <2>5, MadeVector DEF new
<1>10. CASE ~(e = <<>> /\ g # <<>>) /\ ~(e # <<>> /\ g = <<>>)
  <2>1. new = [data |-> data \o e, null_flags |-> flags \o g]
    BY <1>10 DEF AddData
  <2> HIDE DEF new, flags, g, e, data
  <2>2. flags \o g \in Seq(Bits) /\ Len(flags \o g) = size + Len(g)
    BY <1>2, <1>4, Joined
  <2>3. data \o e \in Seq(Values) /\ Len(data \o e) = size + Len(e)
    BY <1>2, <1>3, Joined
  <2>4. \A i \in 1 .. Len(flags) : flags[i] = 0 => i <= size
    BY <1>1, <1>4, <1>5
  <2>5. \A i \in 1 .. Len(flags \o g) : (flags \o g)[i] = 0 => i <= size + Len(e)
    BY <1>2, <1>4, <1>7, <2>4, JoinedAgrees
  <2>6. /\ size + more \in Nat /\ Len(data \o e) <= size + more
        /\ Len(flags \o g) <= size + more
        /\ \A i \in 1 .. Len(flags \o g) : (flags \o g)[i] = 0 => i <= Len(data \o e)
    BY <1>2, <2>2, <2>3, <2>5
  <2> QED BY <2>1, <2>2, <2>3, <2>6, MadeVector DEF new
<1> QED BY <1>8, <1>9, <1>10 DEF new

(* Cutting keeps the head of a sequence. *)
LEMMA CutType ==
    ASSUME NEW S, NEW s \in Seq(S), NEW n \in Nat
    PROVE  /\ Cut(s, n) \in Seq(S)
           /\ Len(Cut(s, n)) = (IF Len(s) > n THEN n ELSE Len(s))
           /\ \A i \in 1 .. Len(Cut(s, n)) : Cut(s, n)[i] = s[i]
BY DEF Cut

(* cutToSize keeps flags and values in agreement. *)
LEMMA CutToSizeKeeps ==
    ASSUME NEW vec \in Vectors, Agrees(vec), NEW n \in Nat
    PROVE  /\ CutToSize(vec, n) \in Vectors
           /\ Agrees(CutToSize(vec, n))
           /\ Fits(CutToSize(vec, n), n)
<1> DEFINE data  == Cut(vec.data, n)
           flags == Cut(vec.null_flags, n)
<1>1. /\ Len(vec.data) \in Nat /\ Len(vec.null_flags) \in Nat
      /\ vec.data \in Seq(Values) /\ vec.null_flags \in Seq(Bits)
      /\ DOMAIN vec.null_flags = 1 .. Len(vec.null_flags)
  BY DEF Vectors
<1>2. CutToSize(vec, n) = [data |-> data, null_flags |-> flags]
  BY DEF CutToSize
<1>3. data \in Seq(Values) /\ Len(data) = (IF Len(vec.data) > n THEN n ELSE Len(vec.data))
  BY <1>1, CutType
<1>4. /\ flags \in Seq(Bits)
      /\ Len(flags) = (IF Len(vec.null_flags) > n THEN n ELSE Len(vec.null_flags))
      /\ \A i \in 1 .. Len(flags) : flags[i] = vec.null_flags[i]
  BY <1>1, CutType
<1>5. \A i \in 1 .. Len(vec.null_flags) : vec.null_flags[i] = 0 => i <= Len(vec.data)
  BY <1>1 DEF Agrees
<1> HIDE DEF data, flags
<1>6. \A i \in 1 .. Len(flags) : flags[i] = 0 => i <= Len(data)
  BY <1>1, <1>3, <1>4, <1>5
<1> QED BY <1>1, <1>2, <1>3, <1>4, <1>6 DEF Vectors, Agrees, Fits

-----------------------------------------------------------------------------
(* The inductive invariant, column by column. *)
Sound ==
    /\ columns \in [Buffers -> [Columns -> Vectors]]
    /\ data_size \in [Buffers -> Nat]
    /\ \A b \in Buffers, c \in Columns :
           Agrees(columns[b][c]) /\ Fits(columns[b][c], data_size[b])

(* A vector fits into a larger buffer. *)
LEMMA LongerFits ==
    ASSUME NEW vec \in Vectors, NEW m \in Nat, NEW n \in Nat, m <= n, Fits(vec, m)
    PROVE  Fits(vec, n)
BY DEF Fits, Vectors

(* A buffer that grows with a vector is large enough for it. *)
LEMMA SizeWithFits ==
    ASSUME NEW vec \in Vectors, NEW n \in Nat
    PROVE  SizeWith(vec, n) \in Nat /\ n <= SizeWith(vec, n) /\ Fits(vec, SizeWith(vec, n))
<1>1. Len(vec.data) \in Nat /\ Len(vec.null_flags) \in Nat
  BY DEF Vectors
<1> QED BY <1>1 DEF SizeWith, Larger, Fits

(* One column was changed. *)
LEMMA GrowKeepsSound ==
    ASSUME Sound, NEW b \in Buffers, NEW c \in Columns, NEW vec \in Vectors, Agrees(vec),
           Grow(b, c, vec)
    PROVE  Sound'
<1>1. /\ columns' = [columns EXCEPT ![b][c] = vec]
      /\ data_size' = [data_size EXCEPT ![b] = SizeWith(vec, data_size[b])]
  BY DEF Grow
<1>2. /\ columns \in [Buffers -> [Columns -> Vectors]]
      /\ data_size \in [Buffers -> Nat]
  BY DEF Sound
<1>3. /\ SizeWith(vec, data_size[b]) \in Nat
      /\ data_size[b] <= SizeWith(vec, data_size[b])
      /\ Fits(vec, SizeWith(vec, data_size[b]))
  BY <1>2, SizeWithFits
<1>4. columns' \in [Buffers -> [Columns -> Vectors]] /\ data_size' \in [Buffers -> Nat]
  BY <1>1, <1>2, <1>3
<1>5. ASSUME NEW a \in Buffers, NEW d \in Columns
      PROVE  Agrees(columns'[a][d]) /\ Fits(columns'[a][d], data_size'[a])
  <2>1. /\ columns[a][d] \in Vectors /\ Agrees(columns[a][d])
        /\ Fits(columns[a][d], data_size[a]) /\ data_size[a] \in Nat
    BY <1>2 DEF Sound
  <2>2. CASE a = b /\ d = c
    <3>1. columns'[a][d] = vec /\ data_size'[a] = SizeWith(vec, data_size[b])
      BY <1>1, <1>2, <2>2
    <3> QED BY <1>3, <3>1
  <2>3. CASE a = b /\ d # c
    <3>1. columns'[a][d] = columns[a][d] /\ data_size'[a] = SizeWith(vec, data_size[b])
      BY <1>1, <1>2, <2>3
    <3>2. Fits(columns[a][d], SizeWith(vec, data_size[b]))
      BY <1>3, <2>1, <2>3, LongerFits
    <3> QED BY <2>1, <3>1, <3>2
  <2>4. CASE a # b
    <3>1. columns'[a][d] = columns[a][d] /\ data_size'[a] = data_size[a]
      BY <1>1, <1>2, <2>4
    <3> QED BY <2>1, <3>1
  <2> QED BY <2>2, <2>3, <2>4
<1> QED BY <1>4, <1>5 DEF Sound

(* A buffer was seized. *)
LEMMA SeizeKeepsSound ==
    ASSUME Sound, SeizeBuffer
    PROVE  Sound'
<1>1. PICK b \in Buffers, org \in Buffers :
          /\ b # org
          /\ columns' = [columns EXCEPT ![b] = Seized(b, org), ![org] = NoRows]
          /\ data_size' = [data_size EXCEPT ![b] = @ + data_size[org], ![org] = 0]
  BY DEF SeizeBuffer
<1>2. /\ columns \in [Buffers -> [Columns -> Vectors]]
      /\ data_size \in [Buffers -> Nat]
  BY DEF Sound
<1>3. \A c \in Columns :
          /\ AddData(columns[b][c], columns[org][c], data_size[b]) \in Vectors
          /\ Agrees(AddData(columns[b][c], columns[org][c], data_size[b]))
          /\ Fits(AddData(columns[b][c], columns[org][c], data_size[b]),
                  data_size[b] + data_size[org])
  <2> TAKE c \in Columns
  <2>1. /\ columns[b][c] \in Vectors /\ columns[org][c] \in Vectors
        /\ Agrees(columns[b][c]) /\ Agrees(columns[org][c])
        /\ data_size[b] \in Nat /\ data_size[org] \in Nat
        /\ Fits(columns[b][c], data_size[b]) /\ Fits(columns[org][c], data_size[org])
    BY <1>2 DEF Sound
  <2> QED BY <2>1, AddDataKeeps
<1>4. /\ Seized(b, org) \in [Columns -> Vectors]
      /\ \A c \in Columns : Agrees(Seized(b, org)[c])
                         /\ Fits(Seized(b, org)[c], data_size[b] + data_size[org])
  BY <1>3 DEF Seized
<1>5. /\ NoRows \in [Columns -> Vectors]
      /\ \A c \in Columns : Agrees(NoRows[c]) /\ Fits(NoRows[c], 0)
  BY DEF NoRows, Empty, Vectors, Agrees, Fits
<1>6. /\ columns'[b] = Seized(b, org) /\ columns'[org] = NoRows
      /\ data_size'[b] = data_size[b] + data_size[org] /\ data_size'[org] = 0
      /\ \A a \in Buffers \ {b, org} : columns'[a] = columns[a] /\ data_size'[a] = data_size[a]
  BY <1>1, <1>2
<1>7. columns' \in [Buffers -> [Columns -> Vectors]] /\ data_size' \in [Buffers -> Nat]
  BY <1>1, <1>2, <1>4, <1>5
<1>8. ASSUME NEW a \in Buffers, NEW d \in Columns
      PROVE  Agrees(columns'[a][d]) /\ Fits(columns'[a][d], data_size'[a])
  <2>1. CASE a = b
    BY <1>4, <1>6, <2>1
  <2>2. CASE a = org
    BY <1>5, <1>6, <2>2
  <2>3. CASE a \notin {b, org}
    BY <1>6, <2>3 DEF Sound
  <2> QED BY <2>1, <2>2, <2>3
<1> QED BY <1>7, <1>8 DEF Sound

(* A buffer was cut. *)
LEMMA CuttingKeepsSound ==
    ASSUME Sound, Cutting
    PROVE  Sound'
<1>1. PICK b \in Buffers : \E size \in 0 .. data_size[b] :
          /\ columns' = [columns EXCEPT ![b] = [c \in Columns |-> CutToSize(@[c], size)]]
          /\ data_size' = [data_size EXCEPT ![b] = size]
  BY DEF Cutting
<1>2. PICK size \in 0 .. data_size[b] :
          /\ columns' = [columns EXCEPT ![b] = [c \in Columns |-> CutToSize(@[c], size)]]
          /\ data_size' = [data_size EXCEPT ![b] = size]
  BY <1>1
<1>3. /\ columns \in [Buffers -> [Columns -> Vectors]]
      /\ data_size \in [Buffers -> Nat] /\ size \in Nat
  BY DEF Sound
<1> DEFINE cut == [c \in Columns |-> CutToSize(columns[b][c], size)]
<1>4. \A c \in Columns : /\ CutToSize(columns[b][c], size) \in Vectors
                         /\ Agrees(CutToSize(columns[b][c], size))
                         /\ Fits(CutToSize(columns[b][c], size), size)
  <2> TAKE c \in Columns
  <2>1. columns[b][c] \in Vectors /\ Agrees(columns[b][c])
    BY <1>3 DEF Sound
  <2> QED BY <1>3, <2>1, CutToSizeKeeps
<1>5. /\ cut \in [Columns -> Vectors]
      /\ \A c \in Columns : Agrees(cut[c]) /\ Fits(cut[c], size)
  BY <1>4
<1>6. columns' = [columns EXCEPT ![b] = cut]
  BY <1>2
<1> HIDE DEF cut
<1>7. /\ columns'[b] = cut /\ data_size'[b] = size
      /\ \A a \in Buffers \ {b} : columns'[a] = columns[a] /\ data_size'[a] = data_size[a]
  BY <1>2, <1>3, <1>6
<1>8. columns' \in [Buffers -> [Columns -> Vectors]] /\ data_size' \in [Buffers -> Nat]
  BY <1>2, <1>3, <1>5, <1>6
<1>9. ASSUME NEW a \in Buffers, NEW d \in Columns
      PROVE  Agrees(columns'[a][d]) /\ Fits(columns'[a][d], data_size'[a])
  <2>1. CASE a = b
    BY <1>5, <1>7, <2>1
  <2>2. CASE a # b
    BY <1>7, <2>2 DEF Sound
  <2> QED BY <2>1, <2>2
<1> QED BY <1>8, <1>9 DEF Sound

(* Whatever was set, appended, made null, seized and cut: flags and values of  *)
(* a column agree, and no column is longer than its buffer.                    *)
THEOREM SoundInvariant == Spec => []Sound
<1>1. Init => Sound
  BY DEF Init, Sound, NoRows, Empty, Vectors, Agrees, Fits
<1>2. Sound /\ [Next]_vars => Sound'
  <2> SUFFICES ASSUME Sound, [Next]_vars PROVE Sound'
    OBVIOUS
  <2>1. ASSUME NEW b \in Buffers, NEW c \in Columns
        PROVE  columns[b][c] \in Vectors /\ Agrees(columns[b][c])
    BY DEF Sound
  <2>2. \A k \in 0 .. MaxRows - 1 : k \in Nat
    BY MaxRowsAssumption
  <2>3. CASE Set
    <3>1. PICK b \in Buffers, c \in Columns, k \in 0 .. MaxRows - 1, value \in Values :
              Grow(b, c, SetValue(columns[b][c], k, value))
      BY <2>3 DEF Set
    <3>2. SetValue(columns[b][c], k, value) \in Vectors /\ Agrees(SetValue(columns[b][c], k, value))
      BY <2>1, <2>2, SetValueAgrees
    <3> QED BY <3>1, <3>2, GrowKeepsSound
  <2>4. CASE AppendTo
    <3>1. PICK b \in Buffers, c \in Columns, k \in 0 .. MaxRows - 1, value \in Values :
              Grow(b, c, AppendValue(columns[b][c], k, value))
      BY <2>4 DEF AppendTo
    <3>2. /\ AppendValue(columns[b][c], k, value) \in Vectors
          /\ Agrees(AppendValue(columns[b][c], k, value))
      BY <2>1, <2>2, AppendValueAgrees
    <3> QED BY <3>1, <3>2, GrowKeepsSound
  <2>5. CASE SetEntryNull
    <3>1. PICK b \in Buffers, c \in Columns, k \in 0 .. MaxRows - 1 :
              Grow(b, c, SetNull(columns[b][c], k))
      BY <2>5 DEF SetEntryNull
    <3>2. SetNull(columns[b][c], k) \in Vectors /\ Agrees(SetNull(columns[b][c], k))
      BY <2>1, <2>2, SetNullAgrees
    <3> QED BY <3>1, <3>2, GrowKeepsSound
  <2>6. CASE SeizeBuffer
    BY <2>6, SeizeKeepsSound
  <2>7. CASE Cutting
    BY <2>7, CuttingKeepsSound
  <2>8. CASE UNCHANGED vars
    BY <2>8 DEF Sound, vars
  <2> QED BY <2>3, <2>4, <2>5, <2>6, <2>7, <2>8 DEF Next
<1> QED BY <1>1, <1>2, PTL DEF Spec

(* The types, and that no column is longer than its buffer: what the assertions of *)
(* nullablevector.h say when pedantic checking is on.                              *)
THEOREM TypeCorrect == Spec => []TypeOK
<1>1. Sound => TypeOK
  BY DEF Sound, TypeOK, Fits
<1> QED BY <1>1, SoundInvariant, PTL

-----------------------------------------------------------------------------
(* Reading.                                                                *)

(* What is not null can be read. *)
LEMMA NotNullIsThere ==
    ASSUME NEW vec \in Vectors, Agrees(vec), NEW i \in Nat, ~IsNull(vec, i)
    PROVE  /\ i < Len(vec.data)
           /\ Entry(vec, i) = vec.data[i + 1]
           /\ vec.data[i + 1] \in Values
<1>1. /\ Len(vec.data) \in Nat /\ Len(vec.null_flags) \in Nat
      /\ vec.data \in Seq(Values) /\ vec.null_flags \in Seq(Bits)
      /\ DOMAIN vec.null_flags = 1 .. Len(vec.null_flags)
  BY DEF Vectors
<1>2. ASSUME i < Len(vec.null_flags) PROVE i < Len(vec.data)
  <2>1. vec.null_flags[i + 1] # 1 /\ i + 1 \in 1 .. Len(vec.null_flags)
    BY <1>1, <1>2 DEF IsNull
  <2>2. vec.null_flags[i + 1] \in {0, 1}
    BY <1>1, <2>1 DEF Bits
  <2>3. i + 1 <= Len(vec.data)
    BY <1>1, <2>1, <2>2 DEF Agrees
  <2> QED BY <1>1, <2>3
<1>3. ASSUME ~(i < Len(vec.null_flags)) PROVE i < Len(vec.data)
  BY <1>1, <1>3 DEF IsNull
<1>4. i < Len(vec.data)
  BY <1>2, <1>3
<1>5. vec.data[i + 1] \in Values
  BY <1>1, <1>4
<1> QED BY <1>4, <1>5 DEF Entry

(* distinctValuesWithIndexes and nullValueIndexes share the indexes out. *)
LEMMA IndexesOfRange ==
    ASSUME NEW vec \in Vectors, Agrees(vec), NEW from \in Nat, NEW to \in Nat
    PROVE  /\ DistinctValuesWithIndexes(vec, from, to) =
                   {<<Entry(vec, i), i>> : i \in (from .. to) \ NullValueIndexes(vec, from, to)}
           /\ \A v \in DistinctValuesWithIndexes(vec, from, to) : v[1] # Null
<1> DEFINE set == {j \in from .. to : ~IsNull(vec, j)}
<1>1. (from .. to) \ NullValueIndexes(vec, from, to) = set
  BY DEF NullValueIndexes
<1>2. \A i \in set : /\ i \in Nat /\ from <= i /\ i < Len(vec.data)
                     /\ Entry(vec, i) = vec.data[i + 1] /\ vec.data[i + 1] \in Values
  BY NotNullIsThere
<1>3. Len(vec.data) \in Nat
  BY DEF Vectors
<1>4. from + 1 > Len(vec.data) => set = {}
  BY <1>2, <1>3
<1>5. DistinctValuesWithIndexes(vec, from, to) = {<<vec.data[i + 1], i>> : i \in set}
  BY <1>4 DEF DistinctValuesWithIndexes
<1> HIDE DEF set
<1>6. {<<vec.data[i + 1], i>> : i \in set} = {<<Entry(vec, i), i>> : i \in set}
  <2>1. \A i \in set : <<vec.data[i + 1], i>> = <<Entry(vec, i), i>>
    BY <1>2
  <2> QED BY <2>1
<1>7. \A v \in {<<vec.data[i + 1], i>> : i \in set} : v[1] # Null
  BY <1>2, ZeroAssumption
<1> QED BY <1>1, <1>5, <1>6, <1>7

(* Whoever reads a column of a buffer finds the same entries set, with values: *)
(* ReadsAgree, for any columns and buffers of any size.                        *)
THEOREM ReadersAgree == Spec => []ReadsAgree
<1>1. Sound => ReadsAgree
  <2> SUFFICES ASSUME Sound PROVE NotNullHasValue /\ IndexesAddUp
    BY DEF ReadsAgree
  <2>1. NotNullHasValue
    BY DEF Sound, NotNullHasValue, Agrees
  <2>2. IndexesAddUp
    <3> SUFFICES ASSUME NEW b \in Buffers, NEW c \in Columns,
                        NEW from \in 0 .. data_size[b], NEW to \in 0 .. data_size[b]
                 PROVE  LET vec == columns[b][c] IN
                        /\ DistinctValuesWithIndexes(vec, from, to) =
                               {<<Entry(vec, i), i>> :
                                   i \in (from .. to) \ NullValueIndexes(vec, from, to)}
                        /\ \A v \in DistinctValuesWithIndexes(vec, from, to) : v[1] # Null
      BY DEF IndexesAddUp
    <3>1. columns[b][c] \in Vectors /\ Agrees(columns[b][c])
      BY DEF Sound
    <3>2. from \in Nat /\ to \in Nat
      BY DEF Sound
    <3> QED BY <3>1, <3>2, IndexesOfRange
  <2> QED BY <2>1, <2>2
<1> QED BY <1>1, SoundInvariant, PTL

-----------------------------------------------------------------------------
(* Writing.                                                                *)

(* Filling in flags changes no entry. *)
LEMMA ResizeKeepsNulls ==
    ASSUME NEW vec \in Vectors, NEW n \in Nat, NEW i \in Nat
    PROVE  (IF i < Len(ResizeNullTo(vec, n)) THEN ResizeNullTo(vec, n)[i + 1] = 1
            ELSE i >= Len(vec.data)) <=> IsNull(vec, i)
<1> DEFINE flags == vec.null_flags
           r     == ResizeNullTo(vec, n)
<1>1. Len(flags) \in Nat /\ Len(vec.data) \in Nat
  BY DEF Vectors
<1>2. Len(r) = Larger(Larger(Len(flags), Len(vec.data)), n)
  BY ResizeNullToType
<1>3. \A k \in 1 .. Len(flags) : r[k] = flags[k]
  BY ResizeNullToFlags
<1>4. \A k \in Len(flags) + 1 .. Len(vec.data) : r[k] = 0
  BY ResizeNullToData
<1>5. \A k \in Larger(Len(flags), Len(vec.data)) + 1 .. n : r[k] = 1
  BY ResizeNullToRest
<1>6. IsNull(vec, i) <=> IF i < Len(flags) THEN flags[i + 1] = 1 ELSE i >= Len(vec.data)
  BY DEF IsNull
<1> SUFFICES (IF i < Len(r) THEN r[i + 1] = 1 ELSE i >= Len(vec.data)) <=> IsNull(vec, i)
  OBVIOUS
<1> HIDE DEF r, flags
<1>7. CASE i < Len(flags)
  <2>1. i < Len(r) /\ r[i + 1] = flags[i + 1]
    BY <1>1, <1>2, <1>3, <1>7 DEF Larger
  <2> QED BY <1>6, <1>7, <2>1
<1>8. CASE ~(i < Len(flags)) /\ i < Len(vec.data)
  <2>1. i < Len(r) /\ r[i + 1] = 0
    BY <1>1, <1>2, <1>4, <1>8 DEF Larger
  <2> QED BY <1>1, <1>6, <1>8, <2>1
<1>9. CASE ~(i < Len(flags)) /\ ~(i < Len(vec.data))
  <2>1. i < Len(r) => r[i + 1] = 1
    BY <1>1, <1>2, <1>5, <1>9 DEF Larger
  <2>2. IsNull(vec, i) /\ i >= Len(vec.data)
    BY <1>1, <1>6, <1>9
  <2> QED BY <2>1, <2>2
<1> QED BY <1>7, <1>8, <1>9

(* The flags that set, append and setNull write to say the same as before. *)
LEMMA RoomForFlagsKeepsNulls ==
    ASSUME NEW vec \in Vectors, NEW k \in Nat, NEW i \in Nat
    PROVE  (IF i < Len(RoomForFlags(vec, k)) THEN RoomForFlags(vec, k)[i + 1] = 1
            ELSE i >= Len(vec.data)) <=> IsNull(vec, i)
<1>1. CASE k > Len(vec.data)
  <2>1. RoomForFlags(vec, k) = ResizeNullTo(vec, k + 1)
    BY <1>1 DEF RoomForFlags
  <2> QED BY <2>1, ResizeKeepsNulls
<1>2. CASE ~(k > Len(vec.data))
  <2>1. RoomForFlags(vec, k) = vec.null_flags
    BY <1>2 DEF RoomForFlags
  <2> QED BY <2>1 DEF IsNull
<1> QED BY <1>1, <1>2

(* setNull's flags say the same as before. *)
LEMMA RoomForNullKeepsNulls ==
    ASSUME NEW vec \in Vectors, NEW k \in Nat, NEW i \in Nat
    PROVE  (IF i < Len(RoomForNull(vec, k)) THEN RoomForNull(vec, k)[i + 1] = 1
            ELSE i >= Len(vec.data)) <=> IsNull(vec, i)
<1>1. CASE k >= Len(vec.null_flags)
  <2>1. RoomForNull(vec, k) = ResizeNullTo(vec, k + 1)
    BY <1>1 DEF RoomForNull
  <2> QED BY <2>1, ResizeKeepsNulls
<1>2. CASE ~(k >= Len(vec.null_flags))
  <2>1. RoomForNull(vec, k) = vec.null_flags
    BY <1>2 DEF RoomForNull
  <2> QED BY <2>1 DEF IsNull
<1> QED BY <1>1, <1>2

(* After set the entry is not null, and no other entry has become null or set. *)
LEMMA SetValueNulls ==
    ASSUME NEW vec \in Vectors, NEW k \in Nat, NEW value \in Values, NEW i \in Nat
    PROVE  IsNull(SetValue(vec, k, value), i) <=> i # k /\ IsNull(vec, i)
<1> DEFINE new   == SetValue(vec, k, value)
           room  == RoomForFlags(vec, k)
           flags == new.null_flags
           size  == Len(vec.data)
<1>1. size \in Nat /\ room \in Seq(Bits)
  BY RoomForFlagsType DEF Vectors
<1>2. flags = UnsetNull(room, k)
  BY DEF SetValue
<1>3. Len(new.data) = Larger(size, k + 1)
  BY SetValueData
<1>4. (IF i < Len(room) THEN room[i + 1] = 1 ELSE i >= size) <=> IsNull(vec, i)
  BY RoomForFlagsKeepsNulls
<1>5. IsNull(new, i) <=> IF i < Len(flags) THEN flags[i + 1] = 1 ELSE i >= Len(new.data)
  BY DEF IsNull
<1>6. k > size => k < Len(room)
  <2> SUFFICES ASSUME k > size PROVE k < Len(room)
    OBVIOUS
  <2>1. room = ResizeNullTo(vec, k + 1)
    BY DEF RoomForFlags
  <2>2. Len(room) = Larger(Larger(Len(vec.null_flags), size), k + 1)
    BY <2>1, ResizeNullToType
  <2>3. Len(vec.null_flags) \in Nat
    BY DEF Vectors
  <2> HIDE DEF room, size
  <2> QED BY <1>1, <2>2, <2>3 DEF Larger
<1> SUFFICES IsNull(new, i) <=> i # k /\ IsNull(vec, i)
  OBVIOUS
<1> HIDE DEF new, room, flags, size
<1>7. Len(flags) = Len(room) /\ Len(room) \in Nat
  BY <1>1, <1>2, UnsetNullType
<1>8. CASE i = k
  <2>1. CASE k < Len(room)
    <3>1. flags[k + 1] = 0
      BY <1>1, <1>2, <2>1, UnsetNullAt
    <3> QED BY <1>5, <1>7, <1>8, <2>1, <3>1
  <2>2. CASE ~(k < Len(room))
    <3>1. ~(i >= Len(new.data))
      BY <1>1, <1>3, <1>8 DEF Larger
    <3> QED BY <1>5, <1>7, <1>8, <2>2, <3>1
  <2> QED BY <2>1, <2>2
<1>9. CASE i # k
  <2>1. CASE i < Len(room)
    <3>1. \A j \in 1 .. Len(room) : j # k + 1 => flags[j] = room[j]
      BY <1>1, <1>2, UnsetNullElse
    <3>2. flags[i + 1] = room[i + 1]
      BY <1>7, <1>9, <2>1, <3>1
    <3> QED BY <1>4, <1>5, <1>7, <1>9, <2>1, <3>2
  <2>2. CASE ~(i < Len(room))
    <3>1. (i >= Len(new.data)) <=> (i >= size)
      BY <1>1, <1>3, <1>6, <1>7, <1>9, <2>2 DEF Larger
    <3> QED BY <1>4, <1>5, <1>7, <1>9, <2>2, <3>1
  <2> QED BY <2>1, <2>2
<1> QED BY <1>8, <1>9

(* set is about one entry. *)
LEMMA SetValueWrites ==
    ASSUME NEW vec \in Vectors, Agrees(vec), NEW k \in Nat, NEW value \in Values, NEW i \in Nat
    PROVE  Entry(SetValue(vec, k, value), i) = IF i = k THEN value ELSE Entry(vec, i)
<1> DEFINE new == SetValue(vec, k, value)
<1>1. IsNull(new, i) <=> i # k /\ IsNull(vec, i)
  BY SetValueNulls
<1>2. new.data[k + 1] = value
  BY SetValueData
<1>3. \A j \in 1 .. Len(vec.data) : j # k + 1 => new.data[j] = vec.data[j]
  BY SetValueElse
<1>4. Entry(new, i) = IF IsNull(new, i) THEN Null ELSE new.data[i + 1]
  BY DEF Entry
<1> HIDE DEF new
<1>5. CASE i = k
  BY <1>1, <1>2, <1>4, <1>5 DEF new
<1>6. CASE i # k /\ IsNull(vec, i)
  BY <1>1, <1>4, <1>6 DEF Entry, new
<1>7. CASE i # k /\ ~IsNull(vec, i)
  <2>1. i < Len(vec.data) /\ Entry(vec, i) = vec.data[i + 1] /\ Len(vec.data) \in Nat
    BY <1>7, NotNullIsThere DEF Vectors
  <2>2. i + 1 \in 1 .. Len(vec.data) /\ i + 1 # k + 1
    BY <1>7, <2>1
  <2>3. new.data[i + 1] = vec.data[i + 1]
    BY <1>3, <2>2
  <2> QED BY <1>1, <1>4, <1>7, <2>1, <2>3 DEF new
<1> QED BY <1>5, <1>6, <1>7

(* setNull is about one entry. *)
LEMMA SetNullWrites ==
    ASSUME NEW vec \in Vectors, NEW k \in Nat, NEW i \in Nat
    PROVE  Entry(SetNull(vec, k), i) = IF i = k THEN Null ELSE Entry(vec, i)
<1> DEFINE new   == SetNull(vec, k)
           room  == RoomForNull(vec, k)
           flags == new.null_flags
<1>1. new.data = vec.data /\ Len(flags) = Len(room) /\ flags[k + 1] = 1
  BY SetNullFlags
<1>2. room \in Seq(Bits) /\ k < Len(room)
  BY RoomForNullType
<1>3. (IF i < Len(room) THEN room[i + 1] = 1 ELSE i >= Len(vec.data)) <=> IsNull(vec, i)
  BY RoomForNullKeepsNulls
<1>4. \A j \in 1 .. Len(room) : j # k + 1 => flags[j] = room[j]
  BY SetNullElse
<1>5. IsNull(new, i) <=> IF i < Len(flags) THEN flags[i + 1] = 1 ELSE i >= Len(new.data)
  BY DEF IsNull
<1>6. Entry(new, i) = IF IsNull(new, i) THEN Null ELSE new.data[i + 1]
  BY DEF Entry
<1>7. Entry(vec, i) = IF IsNull(vec, i) THEN Null ELSE vec.data[i + 1]
  BY DEF Entry
<1> SUFFICES Entry(new, i) = IF i = k THEN Null ELSE Entry(vec, i)
  OBVIOUS
<1> HIDE DEF new, room, flags
<1>8. CASE i = k
  BY <1>1, <1>2, <1>5, <1>6, <1>8
<1>9. CASE i # k
  <2>1. i < Len(room) => flags[i + 1] = room[i + 1]
    BY <1>2, <1>4, <1>9
  <2>2. IsNull(new, i) <=> IsNull(vec, i)
    BY <1>1, <1>3, <1>5, <2>1
  <2> QED BY <1>1, <1>6, <1>7, <1>9, <2>2
<1> QED BY <1>8, <1>9

(* append is about one entry: what there was is added to, or there was nothing. *)
LEMMA AppendValueWrites ==
    ASSUME NEW vec \in Vectors, Agrees(vec), NEW k \in Nat, NEW value \in Values, NEW i \in Nat,
           Appendable(vec, k)
    PROVE  Entry(AppendValue(vec, k, value), i) =
               IF i # k THEN Entry(vec, i)
               ELSE IF IsNull(vec, k) THEN value ELSE Add(Entry(vec, k), value)
<1> DEFINE room == RoomForData(vec, k)
           sum  == Add(room[k + 1], value)
<1>1. AppendValue(vec, k, value) = SetValue(vec, k, sum) /\ sum \in Values
  BY AppendedType DEF AppendValue
<1>2. vec.data \in Seq(Values) /\ Len(vec.data) \in Nat /\ Zero \in Values
  BY ZeroAssumption DEF Vectors
<1>3. k < Len(vec.data) => room[k + 1] = vec.data[k + 1]
  BY <1>2, RoomForDataHead
<1>4. ~(k < Len(vec.data)) => room[k + 1] = Zero
  <2>1. room = Filled(vec.data, k + 1, Zero)
    BY DEF RoomForData
  <2>2. \A j \in Len(vec.data) + 1 .. k + 1 : Filled(vec.data, k + 1, Zero)[j] = Zero
    BY <1>2, FilledTail
  <2> HIDE DEF room
  <2> QED BY <1>2, <2>1, <2>2
<1> HIDE DEF room
<1>5. IsNull(vec, k) => sum = value
  BY <1>3, <1>4, AddAssumption DEF Appendable
<1>6. ~IsNull(vec, k) => sum = Add(Entry(vec, k), value)
  BY <1>3, NotNullIsThere
<1> HIDE DEF sum
<1>7. Entry(SetValue(vec, k, sum), i) = IF i = k THEN sum ELSE Entry(vec, i)
  BY <1>1, SetValueWrites
<1> QED BY <1>1, <1>5, <1>6, <1>7

(* set, append and setNull change the entry they are called for and no other,  *)
(* whatever flags they fill in: OneEntryWritten, for any values and columns of *)
(* any length.                                                                 *)
THEOREM WritesOneEntry == Spec => []OneEntryWritten
<1>1. Sound => OneEntryWritten
  <2> SUFFICES ASSUME Sound, NEW b \in Buffers, NEW c \in Columns,
                      NEW index \in 0 .. MaxRows - 1, NEW value \in Values,
                      NEW i \in 0 .. MaxRows - 1
               PROVE  LET vec == columns[b][c] IN
                      /\ Entry(SetValue(vec, index, value), i) =
                             IF i = index THEN value ELSE Entry(vec, i)
                      /\ Entry(SetNull(vec, index), i) =
                             IF i = index THEN Null ELSE Entry(vec, i)
                      /\ Appendable(vec, index) =>
                             Entry(AppendValue(vec, index, value), i) =
                                 IF i = index
                                 THEN IF IsNull(vec, index) THEN value
                                      ELSE Add(Entry(vec, index), value)
                                 ELSE Entry(vec, i)
    BY DEF OneEntryWritten
  <2> DEFINE vec == columns[b][c]
  <2>1. vec \in Vectors /\ Agrees(vec)
    BY DEF Sound
  <2>2. index \in Nat /\ i \in Nat
    BY MaxRowsAssumption
  <2> HIDE DEF vec
  <2>3. Entry(SetValue(vec, index, value), i) = IF i = index THEN value ELSE Entry(vec, i)
    BY <2>1, <2>2, SetValueWrites
  <2>4. Entry(SetNull(vec, index), i) = IF i = index THEN Null ELSE Entry(vec, i)
    BY <2>1, <2>2, SetNullWrites
  <2>5. Appendable(vec, index) =>
            Entry(AppendValue(vec, index, value), i) =
                IF i = index
                THEN IF IsNull(vec, index) THEN value ELSE Add(Entry(vec, index), value)
                ELSE Entry(vec, i)
    BY <2>1, <2>2, AppendValueWrites
  <2> QED BY <2>3, <2>4, <2>5 DEF vec
<1> QED BY <1>1, SoundInvariant, PTL

-----------------------------------------------------------------------------
(* There is nothing behind the end of a buffer. *)
LEMMA BeyondIsNull ==
    ASSUME NEW vec \in Vectors, NEW n \in Nat, Fits(vec, n), NEW i \in Nat, i >= n
    PROVE  IsNull(vec, i) /\ Entry(vec, i) = Null
<1>1. Len(vec.data) \in Nat /\ Len(vec.null_flags) \in Nat
  BY DEF Vectors
<1>2. IsNull(vec, i)
  BY <1>1 DEF Fits, IsNull
<1> QED BY <1>2 DEF Entry
=============================================================================
