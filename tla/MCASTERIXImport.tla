-------------------------- MODULE MCASTERIXImport --------------------------
(***************************************************************************)
(* Small instances of ASTERIXImport for TLC.                               *)
(***************************************************************************)
EXTENDS ASTERIXImport, TLC

CONSTANTS r, t  \* two database objects, radar and tracker

\* Files whose chunks have records of both objects or none at all, or of one only.
MCContents == [Chunks -> {{}, {r, t}}] \cup {[c \in Chunks |-> {r}]}

\* Files with records of both objects in every chunk.
MCFull == {[c \in Chunks |-> {r, t}]}
=============================================================================
