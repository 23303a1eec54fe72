------------------------------ MODULE MCBuffer ------------------------------
(* An instance of Buffer for TLC: entries of one bit, added like bool. *)
EXTENDS Buffer, TLC

MCAdd(a, b) == IF a = 1 \/ b = 1 THEN 1 ELSE 0

MCSymmetry == Permutations(Columns) \cup Permutations(Buffers)
=============================================================================
