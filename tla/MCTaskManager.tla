--------------------------- MODULE MCTaskManager ---------------------------
(* An instance of TaskManager for TLC. *)
EXTENDS TaskManager

\* Two imports in one go with all that follows, a GPS trail with associations, processing of
\* what is there, and associations alone.
MCPlans == {<<"asterix", "json", "radar", "post", "assoc">>,
            <<"gps", "radar", "post", "assoc">>,
            <<"radar", "post">>,
            <<"assoc">>}
=============================================================================
