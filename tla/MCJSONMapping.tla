--------------------------- MODULE MCJSONMapping ---------------------------
(* Instances of JSONMapping for TLC. *)
EXTENDS JSONMapping, TLC

CONSTANTS adsb, tracker,  \* database objects, and the keys of their reports
          id, height, ds  \* variables

Mapping(column, mandatory, unit) == [column |-> column, mandatory |-> mandatory, unit |-> unit]

Report(key, i, h) == [key |-> key, fields |-> (id :> i) @@ (height :> h)]

\* Two parsers for one object, and one of another object that takes the same reports, next to
\* one without a mandatory mapping.
MCParsers == <<
    [object |-> adsb, container |-> FALSE, keys |-> {adsb}, override |-> FALSE,
     mappings |-> <<Mapping(id, TRUE, FALSE), Mapping(height, FALSE, TRUE)>>],
    [object |-> adsb, container |-> TRUE, keys |-> {adsb, tracker}, override |-> TRUE,
     mappings |-> <<Mapping(height, FALSE, TRUE), Mapping(id, TRUE, FALSE)>>],
    [object |-> tracker, container |-> FALSE, keys |-> {adsb, tracker}, override |-> FALSE,
     mappings |-> <<Mapping(height, FALSE, FALSE), Mapping(id, TRUE, TRUE)>>],
    [object |-> tracker, container |-> FALSE, keys |-> {tracker}, override |-> FALSE,
     mappings |-> <<Mapping(height, FALSE, TRUE)>>]>>

Whole == Report(adsb, "value", "value")

\* Reports of both keys with all sorts of values; containers with a skipped report at the
\* begin, in the middle and at the end, with one that throws, and of the wrong key.
Fields == {"absent", "value", "unfit", "malformed"}
Own == {Report(k, i, h) : k \in {adsb, tracker}, i \in Fields, h \in Fields}
Lists == {<<>>,
          <<Report(tracker, "value", "absent"), Report(adsb, "absent", "value"), Whole>>,
          <<Whole, Report(adsb, "unfit", "value")>>,
          <<Report(adsb, "malformed", "value"), Whole>>,
          <<Whole, Report(adsb, "value", "malformed")>>,
          <<Report(Null, "value", "value")>>}
MCRecords == [own : Own, list : Lists]
=============================================================================
