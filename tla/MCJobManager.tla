---------------------------- MODULE MCJobManager ----------------------------
(***************************************************************************)
(* Small instances of JobManager for TLC.  Jobs d1 and d2 are database     *)
(* jobs, n1 and n2 non-blocking ones; b1 is a blocking job that waits for  *)
(* the main thread, like the decoding and the reading job of an import.    *)
(***************************************************************************)
EXTENDS JobManager, TLC

CONSTANTS d1, d2, b1, n1, n2

MCKindOf ==
    [j \in Jobs |-> CASE j \in {d1, d2} -> "db"
                      [] j = b1 -> "blocking"
                      [] OTHER -> "nonBlocking"]

\* Sound for the safety run: its definitions name none of these jobs.
MCSymmetry == Permutations({d1, d2}) \cup Permutations({n1, n2})
=============================================================================
