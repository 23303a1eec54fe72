--------------------------- MODULE MCDBObjectLoad ---------------------------
(***************************************************************************)
(* Small instances of DBObjectLoad for TLC: objects with two chunks each,  *)
(* but the last one with one chunk only.                                   *)
(***************************************************************************)
EXTENDS DBObjectLoad, TLC

MCChunks == [o \in Objects |-> IF o = NumObjects THEN 1 ELSE 2]
=============================================================================
