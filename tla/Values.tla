------------------------------- MODULE Values -------------------------------
(* Trees of values: what src/src/config.cpp keeps of the parameters, and     *)
(* what src/src/config_factory.cpp makes of a JSON document. Config and      *)
(* Schema work on such trees.                                                *)
(* A tree is flat here: a function from the locations of its values, <<name, *)
(* index, name, index, ..., name>>, to the values; the configs in it are the *)
(* elements of values of type "object".                                      *)
EXTENDS Integers, FiniteSets, SequencesExt

CONSTANTS
    Names,          \* names of parameters
    Documents,      \* the JSON documents trees are loaded from
    Slash,          \* the character "/" of a path
    Spelling,       \* the tokens of a name in a path; plain: the name itself
    Null,           \* a string that is not there
    Unit,           \* numbers are counted in parts of one: this many make one
    IntegerOf,      \* the number each string that spells an integer stands for,
    RealOf,         \* each that spells a real,
    BoolOf          \* and each that spells true or false, in any case

\* An array or one JSON value, with the numbers in parts of one.
IsNode(node) ==
    /\ node.array \in BOOLEAN
    /\ Len(node.at) \in Nat /\ DOMAIN node.at = 1 .. Len(node.at)
    /\ \A i \in DOMAIN node.at :
         /\ node.at[i].kind \in {"integer", "real"} => node.at[i].is \in Int
         /\ node.at[i].kind = "integer" => node.at[i].is % Unit = 0

\* A document is flat too: a node at each location.
\* Names and indices take turns in a location, and what stands below an element
\* of an array or value stands in an object.
IsDocument(doc) ==
    \A loc \in DOMAIN doc :
        /\ IsNode(doc[loc])
        /\ loc \in Seq(Names \cup Nat) /\ Len(loc) % 2 = 1
        /\ \A k \in 1 .. Len(loc) :
             IF k % 2 = 1 THEN loc[k] \in Names ELSE
             LET above == SubSeq(loc, 1, k - 1)
             IN  /\ loc[k] \in Nat /\ above \in DOMAIN doc
                 /\ loc[k] < Len(doc[above].at)
                 /\ doc[above].at[loc[k] + 1].kind = "object"

ASSUME ValuesAssumption ==
    /\ Slash \notin Names /\ Unit \in Nat \ {0}
    /\ \A n \in Names \cup {Slash} : n \notin Nat
    /\ Spelling \in [Names -> Seq(Names \cup {Slash})]
    /\ Null \notin DOMAIN IntegerOf \cup DOMAIN RealOf \cup DOMAIN BoolOf
    /\ \A s \in DOMAIN IntegerOf : IntegerOf[s] \in Int /\ IntegerOf[s] % Unit = 0
    /\ \A s \in DOMAIN RealOf : RealOf[s] \in Int
    /\ \A doc \in Documents : IsDocument(doc)

\* jpath_parse does not take a name with a slash for one part.
Plain(n) == Spelling[n] = <<n>>

-----------------------------------------------------------------------------
(* Values and locations                                                      *)

Types == {"none", "integer", "real", "string", "object"}

Zero(type) == IF type = "string" THEN Null ELSE 0

\* value::value: no content yet; objects and strings are valid all the same.
\* "uplinked" says that the configs of an object know where they are.
NewValue(type, len, array, bool) ==
    [type |-> type, len |-> len, bool |-> bool, bound |-> FALSE,
     array |-> array \/ len > 1,
     valid |-> len > 0 /\ type \in {"object", "string"},
     uplinked |-> FALSE, at |-> [i \in 1 .. len |-> Zero(type)]]

\* The values whose elements hold the value at loc, and what lies below it.
Above(loc) == {SubSeq(loc, 1, k) : k \in {k \in 1 .. Len(loc) - 1 : k % 2 = 1}}
Below(t, loc) == {l \in DOMAIN t : loc = l \/ loc \in Above(l)}

\* The elements of the values, counted from 0.
Elements(t) == UNION {{<<l, i>> : i \in 0 .. t[l].len - 1} : l \in DOMAIN t}

\* The configs of a tree: its root, and the elements of its objects.
Configs(t) ==
    {<<>>} \cup {Append(e[1], e[2]) : e \in {e \in Elements(t) : t[e[1]].type = "object"}}

-----------------------------------------------------------------------------
(* Loading a document: at each location an array or one JSON value           *)

Kinds(node) == {node.at[i].kind : i \in DOMAIN node.at}

\* json_array_get_type: elements of one type, or nothing. A value that is not
\* an array follows the same rule.
TypeOf(node) ==
    LET ks == Kinds(node)
    IN  CASE ks = {} \/ (ks = {"null"} /\ ~node.array) -> "none"
          [] ks = {"object"} -> "object"
          [] ks = {"string"} -> "string"
          [] ks = {"integer"} \/ (ks # {} /\ ks \subseteq {"true", "false"}) -> "integer"
          [] "real" \in ks /\ ks \subseteq {"integer", "real"} -> "real"
          [] OTHER -> "refused"

Content(v) == CASE v.kind = "true" -> Unit [] v.kind \in {"false", "object", "null"} -> 0
                [] OTHER -> v.is

FromJson(node) ==
    LET type == TypeOf(node)
    IN  [NewValue(type, Len(node.at), node.array, Kinds(node) \cap {"true", "false"} # {})
           EXCEPT !.valid = type # "none", !.uplinked = type = "object",
                  !.at = [i \in DOMAIN node.at |-> Content(node.at[i])]]

\* config::create looks for a slash in the name of an object, an array and a
\* null only.
NameAccepted(n, scalar) == scalar \/ Plain(n)

Scalar(node) == ~node.array /\ TypeOf(node) \in {"integer", "real", "string"}

Kept(doc, loc) == /\ TypeOf(doc[loc]) # "refused"
                  /\ NameAccepted(Last(loc), Scalar(doc[loc]))

Load(doc) == [loc \in {l \in DOMAIN doc : \A a \in Above(l) \cup {l} : Kept(doc, a)}
                |-> FromJson(doc[loc])]

-----------------------------------------------------------------------------
(* Paths                                                                     *)

\* A walk that begins in the config c.
Start(c) == [mode |-> "config", loc |-> c, idx |-> 0]

\* A name in a config (config::get).
StepName(t, c, n) ==
    IF Append(c, n) \in DOMAIN t
      THEN [mode |-> "value", loc |-> Append(c, n), idx |-> 0]
      ELSE [mode |-> "not found", loc |-> <<>>, idx |-> 0]

Bad == [mode |-> "invalid", loc |-> <<>>, idx |-> 0]

\* A name after the name of an object goes on in its last element.
Step_mutant(t, s, tok) ==
    LET v == t[s.loc]
    IN  CASE s.mode = "config" -> IF tok = Slash THEN s ELSE
                                  IF tok \in Names THEN StepName(t, s.loc, tok) ELSE Bad
          [] s.mode = "value" /\ tok = Slash -> s
          [] s.mode = "value" /\ tok \in Names ->
               IF v.type = "object" THEN StepName(t, Append(s.loc, v.len - 1), tok) ELSE Bad
          [] s.mode = "value" /\ tok \notin Names \cup {Slash} ->
               IF tok < v.len THEN [s EXCEPT !.mode = "element", !.idx = tok]
                              ELSE [s EXCEPT !.mode = "not found"]
          [] s.mode = "element" ->
               IF v.type # "object" THEN Bad ELSE
               IF tok = Slash THEN Start(Append(s.loc, s.idx)) ELSE
               IF tok \in Names THEN StepName(t, Append(s.loc, s.idx), tok) ELSE Bad
          [] OTHER -> s

\* One token of the path, a slash, a name or an index: config::get looks up
\* names, value::get goes on in element 0 after a name and in the element of
\* an index.
Step(t, s, tok) ==
    LET v == t[s.loc]
    IN  CASE s.mode = "config" -> IF tok = Slash THEN s ELSE
                                  IF tok \in Names THEN StepName(t, s.loc, tok) ELSE Bad
          [] s.mode = "value" /\ tok = Slash -> s
          [] s.mode = "value" /\ tok \in Names ->
               IF v.type = "object" THEN StepName(t, Append(s.loc, 0), tok) ELSE Bad
          [] s.mode = "value" /\ tok \notin Names \cup {Slash} ->
               IF tok < v.len THEN [s EXCEPT !.mode = "element", !.idx = tok]
                              ELSE [s EXCEPT !.mode = "not found"]
          [] s.mode = "element" ->
               IF v.type # "object" THEN Bad ELSE
               IF tok = Slash THEN Start(Append(s.loc, s.idx)) ELSE
               IF tok \in Names THEN StepName(t, Append(s.loc, s.idx), tok) ELSE Bad
          [] OTHER -> s

\* Where a path leads: to a value and an index, or nowhere. A path that ends
\* in a config names none.
Get(t, path) ==
    LET walk[k \in 0 .. Len(path)] ==
          IF k = 0 THEN Start(<<>>) ELSE Step(t, walk[k - 1], path[k])
    IN  walk[Len(path)]
Found(t, path) == Get(t, path).mode \in {"value", "element"}

\* The index of an element is left out of the path of a value.
PathOf_mutant(t, stray, loc, i) ==
    FlattenSeq([k \in 1 .. Len(loc) |->
        IF k % 2 = 1 THEN <<Slash>> \o Spelling[loc[k]] ELSE <<>>])
    \o IF i = 0 THEN <<>> ELSE <<i>>

\* Whether the uplinks lead from the value at loc up to its part k: a config
\* without one is taken for the root.
Known(t, loc, k) ==
    \A j \in k .. Len(loc) - 1 : j % 2 = 1 => t[SubSeq(loc, 1, j)].uplinked

\* get_path, from the value up by the uplinks: index 0 is left out; an uplink
\* that was never initialised leads anywhere: here to no path.
PathOf(t, stray, loc, i) ==
    IF stray THEN <<>> ELSE
        FlattenSeq([k \in 1 .. Len(loc) |->
            IF ~Known(t, loc, k) THEN <<>> ELSE
            IF k % 2 = 1 THEN <<Slash>> \o Spelling[loc[k]] ELSE
            IF loc[k] = 0 THEN <<>> ELSE <<loc[k]>>])
        \o IF i = 0 THEN <<>> ELSE <<i>>

-----------------------------------------------------------------------------
(* Reading and writing one element                                           *)

\* The first element is written, whatever the index.
Assign_mutant(v, i, kind, x) == [v EXCEPT !.at[1] = x, !.valid = TRUE]

\* value::set
Accepts(v, i, kind) ==
    /\ i < v.len
    /\ \/ kind = "integer" /\ v.type \in {"integer", "real"}
       \/ kind \in {"real", "string"} /\ v.type = kind

Assign(v, i, kind, x) == [v EXCEPT !.at[i + 1] = x, !.valid = TRUE]

\* What a double leaves of itself in an integer.
Truncated(x) == IF x < 0 THEN -((-x) \div Unit) * Unit ELSE (x \div Unit) * Unit

\* What a string stands for: helper's stoll and stod; value::get knows the
\* words true and false too, and does not look at valid_ when asked for a string.
Spelled(x, Of) == IF x \in DOMAIN Of THEN {Of[x]} ELSE {}

\* value::get: the one content a value gives when asked for an integer, a real
\* or a string, or none.
Read(v, i, kind) ==
    IF i >= v.len THEN {} ELSE
    LET x == v.at[i + 1]
    IN  IF kind = "string" THEN IF v.type = "string" THEN {x} ELSE {} ELSE
        IF ~v.valid THEN {} ELSE
        CASE v.type = "integer"  -> {x}
          [] v.type = "real"     -> {IF kind = "integer" THEN Truncated(x) ELSE x}
          [] v.type = "string"   -> IF kind = "real" THEN Spelled(x, RealOf)
                                                     ELSE Spelled(x, IntegerOf @@ BoolOf)
          [] OTHER               -> {}
=============================================================================
