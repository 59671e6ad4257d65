------------------------------- MODULE Schema -------------------------------
(* The validation of parameters in src/src/schema.cpp: schema_factory makes  *)
(* a range of every declaration of a schema, schema::validate looks up the   *)
(* values each range is about in a tree of parameters and lists what is      *)
(* within its range and what is not.                                         *)
EXTENDS Values

CONSTANTS
    Schemas,        \* schemas: declarations by path, a sequence of names
    Text,           \* the tokens of a text that may be an interval
    Lower,          \* a string in lower case
    Matches,        \* the strings each pattern that compiles matches
    IntEnd          \* an int is from -IntEnd up to, not including, IntEnd

\* A declaration has some of these; each is what stands in the document.
Fields == {"type", "required", "size", "range", "alias"}

\* What an interval is written with, next to its numbers.
Opening == {"[", "("}
Closing == {"]", ")"}
Square  == {"[", "]"}
Comma   == ","
Blank   == " "

ASSUME SchemaAssumption ==
    /\ IntEnd \in Nat \ {0}
    /\ \A s \in DOMAIN Text : Text[s] \in Seq(Range(Text[s]))
    /\ (Opening \cup Closing \cup {Comma, Blank}) \cap (DOMAIN IntegerOf \cup DOMAIN RealOf) = {}
    /\ \A schema \in Schemas : \A p \in DOMAIN schema :
         /\ p \in Seq(Names) \ {<<>>} /\ "type" \in DOMAIN schema[p]
         /\ DOMAIN schema[p] \subseteq Fields
         /\ \A f \in DOMAIN schema[p] : IsNode(schema[p][f])

VARIABLES
    decls,          \* [path -> declaration]: the schema
    conf,           \* the tree of parameters
    found,          \* declarations jgb::find has come to
    ranges,         \* ranges_: [path -> range]
    walked,         \* ranges schema::validate has gone through
    listed          \* result: ok_ and error_, a bag of <<path, code>>

schemaVars == <<decls, conf, found, ranges, walked, listed>>

-----------------------------------------------------------------------------
(* Intervals: [lower, upper], each part there or not                         *)

NoPart     == [has |-> FALSE, inbound |-> FALSE, is |-> 0]
Everything == [lower |-> NoPart, upper |-> NoPart]

\* The first place from k on where the tokens x have one of S, or their end.
First(x, k, S) ==
    LET places == {i \in k .. Len(x) : x[i] \in S}
    IN  IF places = {} THEN Len(x) + 1 ELSE Min(places)

\* A bound next to a round bracket belongs to the interval.
PartOf_mutant(x, from, to, Of, inbound) ==
    LET blanks == {k \in from .. to : \A i \in from .. k : x[i] = Blank}
        rest   == SubSeq(x, from + Cardinality(blanks), to)
    IN  CASE rest = <<>> -> [r |-> "not found", part |-> NoPart]
          [] Len(rest) = 1 /\ rest[1] \in DOMAIN Of ->
               [r |-> "found", part |-> [has |-> TRUE, inbound |-> TRUE, is |-> Of[rest[1]]]]
          [] OTHER -> [r |-> "invalid", part |-> NoPart]

\* get_part_value: blanks before a number are skipped, anything after it is not.
PartOf(x, from, to, Of, inbound) ==
    LET blanks == {k \in from .. to : \A i \in from .. k : x[i] = Blank}
        rest   == SubSeq(x, from + Cardinality(blanks), to)
    IN  CASE rest = <<>> -> [r |-> "not found", part |-> NoPart]
          [] Len(rest) = 1 /\ rest[1] \in DOMAIN Of ->
               [r |-> "found", part |-> [has |-> TRUE, inbound |-> inbound, is |-> Of[rest[1]]]]
          [] OTHER -> [r |-> "invalid", part |-> NoPart]

\* get_lower_part and get_upper_part between the marks p0, p1 and p2: an upper
\* part that is no number is left out without a word when the lower one is there.
ScanParts(x, p0, p1, p2, Of) ==
    LET lower == PartOf(x, p0 + 1, p1 - 1, Of, x[p0] \in Square)
        upper == IF p1 < p2 /\ lower.r # "invalid"
                   THEN PartOf(x, p1 + 1, p2 - 1, Of, x[p2] \in Square)
                   ELSE [r |-> "not found", part |-> NoPart]
    IN  [r  |-> /\ "found" \in {lower.r, upper.r}
                /\ \A i \in p2 + 1 .. Len(x) : x[i] = Blank,
         is |-> [lower |-> lower.part, upper |-> upper.part]]

\* scan_one_interval: a text without a comma is a lower part.
Scan(s, Of) ==
    LET x  == Text[s]
        p0 == First(x, 1, Opening)
        p1 == First(x, p0 + 1, Closing \cup {Comma})
        p2 == IF p1 <= Len(x) /\ x[p1] = Comma THEN First(x, p1 + 1, Closing) ELSE p1
    IN  IF p2 > Len(x) THEN [r |-> FALSE, is |-> Everything] ELSE ScanParts(x, p0, p1, p2, Of)

\* validate of an integer, and of the length of a value.
Inside(x, interval) ==
    /\ interval.lower.has => \/ x > interval.lower.is
                             \/ interval.lower.inbound /\ x = interval.lower.is
    /\ interval.upper.has => \/ x < interval.upper.is
                             \/ interval.upper.inbound /\ x = interval.upper.is

\* range_real::validate: an upper bound that is excluded is compared with the
\* lower one.
InsideReal(x, interval) ==
    /\ interval.lower.has => \/ x > interval.lower.is
                             \/ interval.lower.inbound /\ x = interval.lower.is
    /\ interval.upper.has => /\ x <= interval.upper.is
                             /\ interval.upper.inbound \/ x # interval.lower.is

\* range_int and range_real: the vector of intervals is cut to as many as were
\* scanned, the first ones. (Of an integer there is one only where assertions are
\* compiled in, by that of schema.cpp:497. Here they are not.)
Intervals(v, Of) ==
    LET scans == [i \in DOMAIN v.at |-> Scan(v.at[i], Of)]
    IN  [i \in 1 .. Cardinality({j \in DOMAIN scans : scans[j].r}) |-> scans[i].is]

-----------------------------------------------------------------------------
(* Ranges                                                                    *)

Has(d, field)   == field \in DOMAIN d
Field(d, field) == FromJson(d[field])

Ints == -IntEnd .. IntEnd - 1

\* An int of what is read as a longer integer.
Narrow(x) == ((x + IntEnd) % (2 * IntEnd)) - IntEnd

\* get_type
DeclaredTypes == [int |-> "integer", bool |-> "integer", real |-> "real",
                  string |-> "string", object |-> "object"]

\* range::range: the length and, when it is 0, the interval of lengths.
SizeOf(d) ==
    LET any == [len |-> 0, lens |-> Everything]
        v   == Field(d, "size")
    IN  IF ~Has(d, "size") THEN [any EXCEPT !.len = 1] ELSE
        CASE v.type = "integer" -> [any EXCEPT !.len = Max({0, Narrow(v.at[1])}) \div Unit]
          [] v.type = "string" ->
               [any EXCEPT !.lens = IF Scan(v.at[1], IntegerOf).r
                                      THEN Scan(v.at[1], IntegerOf).is ELSE Everything]
          [] OTHER -> any

\* The names that go with the numbers of an enumeration.
AliasOf(d, count) ==
    LET v == Field(d, "alias")
    IN  IF Has(d, "alias") /\ v.type = "string" /\ v.len = count THEN v.at ELSE <<>>

\* range_factory::create: the range of a declaration, or none.
RangeOf(d) ==
    LET word == Field(d, "type").at[1]
        type == DeclaredTypes[word]
        v    == Field(d, "range")
        Make(kind, of, allows) ==
            {[kind |-> kind, type |-> of, allows |-> allows, size |-> SizeOf(d),
              required |-> /\ Has(d, "required")
                           /\ \E x \in Read(Field(d, "required"), 0, "integer") : x # 0]}
    IN  IF word \notin DOMAIN DeclaredTypes THEN {} ELSE
        IF word # "bool" /\ ~Has(d, "range") THEN Make("base", type, <<>>) ELSE
        CASE word = "bool" -> Make("enum", "integer", [ints |-> <<Unit, 0>>, names |-> <<>>])
          [] word # "bool" /\ v.valid /\ v.type = "integer" ->
               Make("enum", "integer", [ints  |-> [i \in DOMAIN v.at |-> Narrow(v.at[i])],
                                        names |-> AliasOf(d, v.len)])
          [] word = "int" /\ v.valid /\ v.type = "string" ->
               Make("int", type, Intervals(v, IntegerOf))
          [] word = "real" /\ v.valid /\ v.type = "string" ->
               Make("real", type, Intervals(v, RealOf))
          [] word = "string" /\ v.valid /\ v.type = "string" ->
               Make("re", type, Range(v.at) \cap DOMAIN Matches)
          [] OTHER -> {}

-----------------------------------------------------------------------------
(* Judging one value                                                         *)

\* range::validate_type; the type of an empty value does not matter where any
\* length will do.
TypeFits(r, v) ==
    \/ r.size.len = 0 /\ v.len = 0
    \/ v.type \in {r.type, "string"}
    \/ v.type = "integer" /\ r.type = "real"

LengthFits(r, v) == IF r.size.len # 0 THEN v.len = r.size.len
                                      ELSE Inside(v.len * Unit, r.size.lens)

\* range_enum::validate: a string is one of the names in any case; otherwise it
\* is the first string of the value that has to spell one of the numbers.
EnumTakes(e, v, i) ==
    \/ v.type = "string" /\ \E k \in DOMAIN e.names : Lower[v.at[i]] = Lower[e.names[k]]
    \/ \E x \in (IF v.type = "string" THEN Read(v, 0, "integer") ELSE {v.at[i]}) :
         \E k \in DOMAIN e.ints : e.ints[k] = Narrow(x)

\* real(i): the element as a real, 0 when it is none.
RealAt(v, i) == LET xs == Read(v, i - 1, "real") IN IF xs = {} THEN {0} ELSE xs

\* What validate may answer for element i (from 1) of a value that fits: the
\* pointer to a string, read as an integer, may be any number.
Answers(r, v, i) ==
    CASE r.kind = "enum" -> {EnumTakes(r.allows, v, i)}
      [] r.kind = "int" -> IF v.type = "string" THEN {TRUE, FALSE} ELSE
           {\E k \in DOMAIN r.allows : Inside(v.at[i], r.allows[k])}
      [] r.kind = "real" ->
           {\E k \in DOMAIN r.allows, x \in RealAt(v, i) : InsideReal(x, r.allows[k])}
      [] r.kind = "re" -> {\E s \in r.allows : v.at[i] \in Matches[s]}

-----------------------------------------------------------------------------
(* The walk                                                                  *)

NamesOf(c) == [k \in 1 .. (Len(c) + 1) \div 2 |-> c[2 * k - 1]]

\* Only the first config of an array is looked into.
Reached_mutant(p) ==
    {c \in Configs(conf) : /\ NamesOf(c) = Front(p)
                           /\ \A k \in DOMAIN c : k % 2 = 0 => c[k] = 0}

\* The configs walk_through comes to: an object on the way that is not there,
\* or is no object, leads to none.
Reached(p) == {c \in Configs(conf) : NamesOf(c) = Front(p)}

\* The index of an element is not shown.
Shown_mutant(loc, i) == PathOf(conf, FALSE, loc, 0)

\* put_result: index 0 is shown for the elements of arrays only.
Shown(loc, i) == PathOf(conf, FALSE, loc, i) \o
                 IF i = 0 /\ conf[loc].array THEN <<0>> ELSE <<>>

Whole(loc) == PathOf(conf, FALSE, loc, 0)

\* What validate lists of one value: all of it if it does not fit, otherwise
\* each element, the good ones as ok; a range without limits lists nothing.
Judged(r, loc) ==
    IF TypeFits(r, conf[loc]) /\ LengthFits(r, conf[loc]) /\ r.kind # "base"
      THEN {<<loc, i>> : i \in 0 .. conf[loc].len - 1} ELSE {}

OfValue(r, loc, good) ==
    CASE ~TypeFits(r, conf[loc])   -> {<<loc, Whole(loc), "type">>}
      [] /\ TypeFits(r, conf[loc])
         /\ ~LengthFits(r, conf[loc]) -> {<<loc, Whole(loc), "length">>}
      [] OTHER -> {<<e, Shown(loc, e[2]), IF e \in good THEN "ok" ELSE "range">> :
                     e \in Judged(r, loc)}

\* Where a range looks for its parameter.
Looks(p) == {Append(c, Last(p)) : c \in Reached(p)}

\* All that one range has to say, of the values there and those absent: of what,
\* by which path, with which code.
OfValues(r, there, good) == UNION {OfValue(r, l, good) : l \in there}
OfAbsent(absent)         == {<<l, Whole(l), "absent">> : l \in absent}
Says(r, there, absent, good) == OfValues(r, there, good) \cup OfAbsent(absent)

\* How many lines of each path and code that makes.
Line(x)     == <<x[2], x[3]>>
Counts(new) == [y \in {Line(x) : x \in new} |-> Cardinality({x \in new : Line(x) = y})]

SchemaInit ==
    /\ decls \in Schemas
    /\ \E doc \in Documents : conf = Load(doc)
    /\ found = {} /\ ranges = <<>> /\ walked = {} /\ listed = EmptyBag

\* on_found_type, for a "type" that is a string.
FoundType(p) ==
    /\ p \in DOMAIN decls \ found
    /\ found' = found \cup {p}
    /\ LET type == Field(decls[p], "type")
           new  == IF type.type = "string" /\ type.len = 1 THEN RangeOf(decls[p]) ELSE {}
       IN  ranges' = [q \in DOMAIN ranges \cup {q \in {p} : new # {}} |->
                        IF q \in DOMAIN ranges THEN ranges[q] ELSE CHOOSE r \in new : TRUE]
    /\ UNCHANGED <<decls, conf, walked, listed>>

\* walk_through with validate, for one range.
WalkThrough(p) ==
    /\ found = DOMAIN decls /\ p \in DOMAIN ranges \ walked
    /\ walked' = walked \cup {p}
    /\ LET r      == ranges[p]
           there  == Looks(p) \cap DOMAIN conf
           absent == IF r.required THEN Looks(p) \ there ELSE {}
           judged == UNION {Judged(r, l) : l \in there}
       IN  \E good \in SUBSET judged :
             /\ \A e \in judged : (e \in good) \in Answers(r, conf[e[1]], e[2] + 1)
             /\ listed' = listed (+) Counts(Says(r, there, absent, good))
    /\ UNCHANGED <<decls, conf, found, ranges>>

SchemaNext == \E p \in DOMAIN decls : FoundType(p) \/ WalkThrough(p)

SchemaSpec == SchemaInit /\ [][SchemaNext]_schemaVars

-----------------------------------------------------------------------------
(* What a declaration asks for, without the scanner and without the ranges   *)

\* An interval as the texts of a schema write them: two brackets, between them one
\* number, or a comma with a number on one side or on both. A blank may stand
\* anywhere but right after a number.
WellFormed(s, Of) ==
    LET x == Text[s]
    IN  /\ s \in DOMAIN Text
        /\ \E a, c \in DOMAIN x :
             /\ a < c /\ x[a] \in Opening /\ x[c] \in Closing
             /\ \A k \in DOMAIN x \ (a .. c) : x[k] = Blank
             /\ \A k \in a + 1 .. c - 1 :
                  \/ x[k] \in {Comma, Blank}
                  \/ x[k] \in DOMAIN Of /\ x[k + 1] \in Closing \cup {Comma}
             /\ \A j, k \in a .. c : x[j] = Comma /\ x[k] = Comma => j = k
             /\ \E k \in a .. c : x[k] \in DOMAIN Of

\* A number before the comma bounds n from below, one after it from above; a
\* square bracket on its side lets n reach it.
Within(n, s, Of) ==
    LET x == Text[s]
    IN  \A k \in {k \in DOMAIN x : x[k] \in DOMAIN Of} :
          IF \E j \in 1 .. k : x[j] = Comma
            THEN n < Of[x[k]] \/ (Range(x) \cap Closing \subseteq Square /\ n = Of[x[k]])
            ELSE n > Of[x[k]] \/ (Range(x) \cap Opening \subseteq Square /\ n = Of[x[k]])

\* A length of n elements: one by default, the number or the interval of
\* "size", and any length when that is 0 or cannot be understood.
LengthAsked(d, n) ==
    LET v == Field(d, "size")
    IN  IF ~Has(d, "size") THEN n = 1 ELSE
        CASE v.type = "integer"   -> v.at[1] <= 0 \/ n * Unit = v.at[1]
          [] v.type = "string" /\ WellFormed(v.at[1], IntegerOf) ->
                                     Within(n * Unit, v.at[1], IntegerOf)
          [] OTHER                -> TRUE

AnyLength(d) == Has(d, "size") /\ LengthAsked(d, 0)

Limits(d) == IF Has(d, "range") THEN Range(Field(d, "range").at) ELSE {}

Numbers(d) == Has(d, "range") /\ Field(d, "range").type = "integer"

TypeAsked(d, v) ==
    LET type == IF Numbers(d) THEN "integer" ELSE DeclaredTypes[Field(d, "type").at[1]]
    IN  v.type \in {type, "string"} \/ (v.type = "integer" /\ type = "real")

Asked(d, v) == IF v.len = 0 THEN AnyLength(d) ELSE TypeAsked(d, v) /\ LengthAsked(d, v.len)

\* The elements about which a schema says clearly what it wants. The others
\* are the ones the code decides by accident: an excluded upper bound of a
\* real, a malformed interval, a string where integers are in an interval, or
\* where it spells no real, several strings for an enumeration, a number of one
\* that is no int.
Plainly(d, v, i) ==
    LET word == Field(d, "type").at[1]
        x    == v.at[i]
    IN  CASE Numbers(d) \/ word = "bool" ->
               /\ v.type = "string" => v.len = 1
               /\ Read(v, i - 1, "integer") \subseteq Ints
               /\ Numbers(d) => Limits(d) \subseteq Ints
          [] ~Numbers(d) /\ word = "int" ->
               v.type = "integer" /\ \A s \in Limits(d) : WellFormed(s, IntegerOf)
          [] ~Numbers(d) /\ word = "real" ->
               /\ v.type = "string" => x \in DOMAIN RealOf
               /\ \A s \in Limits(d) : /\ WellFormed(s, RealOf)
                                          /\ Range(Text[s]) \cap Closing \subseteq Square
          [] OTHER -> TRUE

\* An element is what its declaration asks for.
Complies(d, v, i) ==
    LET word  == Field(d, "type").at[1]
        x     == v.at[i]
        as    == IF word = "real" /\ ~Numbers(d) THEN "real" ELSE "integer"
        means == Read(v, i - 1, as)
        alias == Field(d, "alias")
    IN  CASE word = "bool" -> means \cap {0, Unit} # {}
          [] Numbers(d) /\ word # "bool" ->
               \/ means \cap Limits(d) # {}
               \/ /\ v.type = "string" /\ Has(d, "alias") /\ alias.type = "string"
                  /\ alias.len = Field(d, "range").len
                  /\ \E k \in DOMAIN alias.at : Lower[x] = Lower[alias.at[k]]
          [] word = "int" /\ ~Numbers(d) ->
               \E s \in Limits(d) : \A n \in means : Within(n, s, IntegerOf)
          [] word = "real" /\ ~Numbers(d) ->
               \E s \in Limits(d) : \A n \in means : Within(n, s, RealOf)
          [] OTHER -> \E s \in Limits(d) \cap DOMAIN Matches : x \in Matches[s]

Times(path, code) == IF <<path, code>> \in DOMAIN listed THEN listed[<<path, code>>] ELSE 0

-----------------------------------------------------------------------------
\* A value of the wrong type or length is listed once, as a whole, and none of
\* its elements is; of any other value under a range every element is listed
\* once, as ok exactly if it is what the schema asks for, wherever the schema
\* says so plainly.
ValuesJudged ==
    \A p \in walked : \A l \in {l \in DOMAIN conf : NamesOf(l) = p} :
      LET d == decls[p]
          v == conf[l]
          Good(i) == Times(Shown(l, i), "ok")
          Poor(i) == Times(Shown(l, i), "range")
      IN  /\ Times(Whole(l), "type") + Times(Whole(l), "length") = IF Asked(d, v) THEN 0 ELSE 1
          /\ \A i \in 0 .. v.len - 1 :
               IF Asked(d, v) /\ (Has(d, "range") \/ Field(d, "type").at[1] = "bool")
                 THEN /\ Good(i) + Poor(i) = 1
                      /\ Plainly(d, v, i + 1) => (Good(i) = 1) = Complies(d, v, i + 1)
                 ELSE Good(i) + Poor(i) = 0

\* A required parameter is reported in each config that should have it and does
\* not, once; a config that is not there itself hides what is required in it.
AbsentReported ==
    \A p \in walked : \A c \in {c \in Configs(conf) : NamesOf(c) = Front(p)} :
      Times(Whole(Append(c, Last(p))), "absent") =
        IF /\ Append(c, Last(p)) \notin DOMAIN conf
           /\ Has(decls[p], "required")
           /\ \E x \in Read(Field(decls[p], "required"), 0, "integer") : x # 0
          THEN 1 ELSE 0

\* No path is listed twice, as ok and as an error neither, and each one leads
\* config::get to a value at the path of a range that was walked; those
\* reported as not present lead nowhere.
PathsLeadBack ==
    \A x \in DOMAIN listed :
      /\ listed[x] = 1
      /\ \A y \in DOMAIN listed : x[1] = y[1] => x = y
      /\ IF x[2] = "absent" THEN ~Found(conf, x[1])
         ELSE Found(conf, x[1]) /\ NamesOf(Get(conf, x[1]).loc) \in walked
=============================================================================
