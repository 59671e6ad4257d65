------------------------------ MODULE MCSchema ------------------------------
(* Small schemas and documents for the run of Schema: two parameters p and q, *)
(* and a p in each config of q. Numbers are counted in halves.               *)
EXTENDS Schema

CONSTANTS p, q

MCSpelling == (p :> <<p>>) @@ (q :> <<q>>)
MCIntegerOf == ("0" :> 0) @@ ("1" :> 2) @@ ("2" :> 4)
MCRealOf == MCIntegerOf @@ ("0.5" :> 1)
MCBoolOf == ("true" :> 2)
MCText == ("[0, 2)" :> <<"[", "0", ",", " ", "2", ")">>) @@
          ("[1] " :> <<"[", "1", "]", " ">>) @@
          ("(,2]" :> <<"(", ",", "2", "]">>) @@
          ("(0.5,2]" :> <<"(", "0.5", ",", "2", "]">>) @@
          ("(0,)" :> <<"(", "0", ",", ")">>) @@
          ("[0,1)" :> <<"[", "0", ",", "1", ")">>) @@
          ("[1,h]" :> <<"[", "1", ",", "h", "]">>) @@
          ("[1" :> <<"[", "1">>)
MCLower == [s \in {"h", "1", "2", "0.5", "true", "x"} |-> s] @@ ("H" :> "h")
MCMatches == ("^h" :> {"h"})

One(kind, v) == [array |-> FALSE, at |-> <<[kind |-> kind, is |-> v]>>]
Many(kind, vs) == [array |-> TRUE, at |-> [i \in DOMAIN vs |-> [kind |-> kind, is |-> vs[i]]]]
Num(n) == One("integer", 2 * n)
Str(s) == One("string", s)
True == One("true", 0)

Declare(word) == [type |-> Str(word)]
Sized(word, size) == Declare(word) @@ [size |-> size]
Limited(d, limits) == d @@ [range |-> limits]
Required(d) == d @@ [required |-> True]

Codecs == Limited(Declare("int"), Many("integer", <<2, 4>>)) @@
          [alias |-> Many("string", <<"h", "x">>)]
Lists == Sized("object", Str("(0,)"))

MCSchemas == {
    (<<p>> :> Limited(Sized("int", Num(0)), Many("string", <<"[0, 2)">>))) @@
      (<<q>> :> Required(Lists)) @@ (<<q, p>> :> Required(Codecs)),
    (<<p>> :> Limited(Sized("real", Num(2)), Many("string", <<"(0.5,2]", "[1] ">>))) @@
      (<<q>> :> Required(Declare("bool"))),
    (<<p>> :> Limited(Declare("string"), Many("string", <<"[", "^h">>))) @@
      (<<q>> :> Sized("object", Num(0))) @@
      (<<q, p>> :> Required(Limited(Sized("int", Str("(0,)")), Str("(,2]")))),
    (<<p>> :> Limited(Sized("int", Num(2)), Str("[1,h]"))) @@
      (<<q>> :> Limited(Sized("real", Str("[1")), Many("string", <<"[1", "[0,1)">>))),
    (<<p>> :> Declare("none")) @@ (<<q>> :> Limited(Sized("real", One("null", 0)), Many("integer", <<2>>))) }

MCDocuments == {
    (<<p>> :> Many("integer", <<0, 4>>)) @@
      (<<q>> :> Many("object", <<0, 0, 0>>)) @@ (<<q, 0, p>> :> Num(2)) @@
      (<<q, 1, p>> :> Str("H")),
    (<<p>> :> Many("real", <<1, 2>>)) @@ (<<q>> :> True),
    (<<p>> :> Many("string", <<"1", "x">>)) @@ (<<q>> :> One("null", 0)),
    (<<p>> :> Str("h")) @@ (<<q>> :> Str("true")),
    (<<p>> :> Many("integer", <<>>)) @@ (<<q>> :> One("object", 0)) @@
      (<<q, 0, p>> :> Many("string", <<"1", "2">>)),
    (<<p>> :> Num(9)) @@ (<<q>> :> Many("object", <<0>>)) @@ (<<q, 0, p>> :> Num(17)),
    (<<q>> :> Many("real", <<0, 1, 2>>)) }
=============================================================================
