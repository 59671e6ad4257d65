------------------------------ MODULE MCConfig ------------------------------
(* Two small documents for the run of Config: numbers, a string, null,       *)
(* nested objects, an array of objects, arrays of one type and of two that   *)
(* go together, and one of two that do not, which is refused.                *)
EXTENDS Config

CONSTANTS a, b, on, off

MCSpelling == (a :> <<a>>) @@ (b :> <<b>>)
NoNumber == [s \in {} |-> 0]
MCNums == {0, 1}
MCStrings == {on, off}

One(kind, v) == [array |-> FALSE, at |-> <<[kind |-> kind, is |-> v]>>]
Many(kinds, v) == [array |-> TRUE,
                   at |-> [i \in DOMAIN kinds |-> [kind |-> kinds[i], is |-> v]]]

\* {a: 0, b: {a: on, b: [0.0, 0]}}
Nested == (<<a>> :> One("integer", 0)) @@ (<<b>> :> One("object", 0)) @@
          (<<b, 0, a>> :> One("string", on)) @@
          (<<b, 0, b>> :> Many(<<"real", "integer">>, 0))
\* {a: [true, false], b: [{a: 0, b: [0, on]}, {a: 0, b: null}]}
Listed == (<<a>> :> Many(<<"true", "false">>, 0)) @@
          (<<b>> :> Many(<<"object", "object">>, 0)) @@
          (<<b, 0, a>> :> One("integer", 0)) @@
          (<<b, 0, b>> :> Many(<<"integer", "string">>, 0)) @@
          (<<b, 1, a>> :> One("integer", 0)) @@ (<<b, 1, b>> :> One("null", 0))
\* {a: 0}
MCParts == {<<a>> :> One("integer", 0)}
MCDocuments == {Nested, Listed}
=============================================================================
