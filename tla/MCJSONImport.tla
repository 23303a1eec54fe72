---------------------------- MODULE MCJSONImport ----------------------------
(***************************************************************************)
(* Small instances of JSONImport for TLC.                                  *)
(***************************************************************************)
EXTENDS JSONImport, TLC

CONSTANTS radar, adsb

\* JSON objects that are mapped to these database objects.
Object(dbos) == <<"{">> \o dbos \o <<"}">>

\* A file without an object, one whose object is mapped to nothing, a file of two parts with
\* nothing in the second one, and a file of four parts with a nested object and a short end.
MCFiles == {
    <<>>,
    Object(<<>>),
    Object(<<adsb>>) \o <<",">> \o Object(<<>>) \o <<",">> \o Object(<<>>),
    Object(<<adsb>>) \o <<",">> \o Object(Object(<<adsb>>)) \o <<",">> \o
    Object(<<radar>>) \o <<",">> \o Object(<<>>) \o <<",">> \o
    Object(<<radar>>) \o <<",">> \o Object(<<adsb>>) \o <<",">> \o Object(<<adsb>>)}

\* All files of up to eight characters.
MCTexts == UNION {[1 .. n -> {"{", "}", ","}] : n \in 0 .. 8}
=============================================================================
