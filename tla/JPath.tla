-------------------------------- MODULE JPath --------------------------------
(* jpath_parse of src/src/helper.cpp: one call finds the first part of the   *)
(* text of a path, a name, an index in brackets, or the "/" that ends a path *)
(* of slashes only, by the four-state automaton of the source, one character *)
(* a step. Positions count from 1; the text's terminating zero is at         *)
(* Len(text) + 1.                                                            *)
EXTENDS Naturals, Sequences

CONSTANT Texts      \* the texts a caller may pass, what follows *start

\* Characters jpath_parse does not tell apart are one: "x".
Chars == {"/", "[", "]", "x"}

ASSUME TextsAssumption == Texts \subseteq Seq(Chars)

VARIABLES
    text,       \* the caller's text
    p,          \* the character looked at
    state,      \* the automaton's state, or "returned"
    start, end, \* the part found, from start up to and without end
    ret         \* "ok" or "invalid" (JGB_ERR_INVALID)

vars == <<text, p, state, start, end, ret>>

At(i) == IF i \in 1 .. Len(text) THEN text[i] ELSE "zero"

Init ==
    /\ text \in Texts
    /\ p = 1 /\ state = "init"
    /\ start = 1 /\ end = 1 /\ ret = "ok"

Go(s) == state' = s /\ p' = p + 1 /\ UNCHANGED <<end, ret>>

Found(e) == state' = "returned" /\ end' = e /\ UNCHANGED <<p, ret>>

Invalid == /\ state' = "returned" /\ ret' = "invalid"
           /\ UNCHANGED <<p, start, end>>

-----------------------------------------------------------------------------
\* The terminating zero is read over.
First_mutant ==
    /\ state = "init"
    /\ \/ At(p) = "/" /\ Go("slash") /\ UNCHANGED start
       \/ At(p) = "[" /\ Go("index") /\ UNCHANGED start
       \/ At(p) = "]" /\ Invalid
       \/ At(p) = "zero" /\ Go("name") /\ UNCHANGED start
       \/ At(p) = "x" /\ Go("name") /\ UNCHANGED start
    /\ UNCHANGED text

\* Nothing read yet.
First ==
    /\ state = "init"
    /\ \/ At(p) = "/" /\ Go("slash") /\ UNCHANGED start
       \/ At(p) = "[" /\ Go("index") /\ UNCHANGED start
       \/ At(p) = "]" /\ Invalid
       \/ At(p) = "zero" /\ Found(p) /\ UNCHANGED start
       \/ At(p) = "x" /\ Go("name") /\ UNCHANGED start
    /\ UNCHANGED text

\* s1: leading slashes are skipped, the last one of a text of slashes is kept.
Slash ==
    /\ state = "slash"
    /\ \/ At(p) = "/" /\ Go("slash") /\ UNCHANGED start
       \/ At(p) = "[" /\ Go("index") /\ start' = p
       \/ At(p) = "]" /\ Invalid
       \/ At(p) = "zero" /\ Found(p) /\ start' = p - 1
       \/ At(p) = "x" /\ Go("name") /\ start' = p
    /\ UNCHANGED text

\* The bracket that closes the index is left for the next call.
Index_mutant ==
    /\ state = "index"
    /\ \/ At(p) \in {"/", "[", "zero"} /\ Invalid
       \/ At(p) = "]" /\ Found(p) /\ UNCHANGED start
       \/ At(p) = "x" /\ Go("index") /\ UNCHANGED start
    /\ UNCHANGED text

\* s2: inside the brackets of an index.
Index ==
    /\ state = "index"
    /\ \/ At(p) \in {"/", "[", "zero"} /\ Invalid
       \/ At(p) = "]" /\ Found(p + 1) /\ UNCHANGED start
       \/ At(p) = "x" /\ Go("index") /\ UNCHANGED start
    /\ UNCHANGED text

\* An index that follows a name is taken for a part of it.
Name_mutant ==
    /\ state = "name"
    /\ \/ At(p) \in {"/", "zero"} /\ Found(p) /\ UNCHANGED start
       \/ At(p) \in {"[", "]"} /\ Invalid
       \/ At(p) = "x" /\ Go("name") /\ UNCHANGED start
    /\ UNCHANGED text

\* s3: inside a name.
Name ==
    /\ state = "name"
    /\ \/ At(p) \in {"/", "[", "zero"} /\ Found(p) /\ UNCHANGED start
       \/ At(p) = "]" /\ Invalid
       \/ At(p) = "x" /\ Go("name") /\ UNCHANGED start
    /\ UNCHANGED text

Next == First \/ Slash \/ Index \/ Name

Spec == Init /\ [][Next]_vars /\ WF_vars(Next)

-----------------------------------------------------------------------------
(* What a part is, said without the automaton                                *)

IsAll(a, b, c) == \A i \in a .. b : text[i] = c

\* Slashes only come before the part: it starts where they end.
SlashesBefore(s) == s \in 1 .. Len(text) + 1 /\ IsAll(1, s - 1, "/")

IsName(s, e) ==
    /\ s < e /\ e \in 1 .. Len(text) + 1
    /\ IsAll(s, e - 1, "x")
    /\ At(e) \in {"/", "[", "zero"}

IsIndex(s, e) ==
    /\ s + 1 < e /\ e \in 1 .. Len(text) + 1
    /\ text[s] = "[" /\ text[e - 1] = "]"
    /\ IsAll(s + 1, e - 2, "x")

\* The empty text, or the last of a text's slashes.
IsRest(s, e) ==
    /\ e = Len(text) + 1 /\ s = IF text = <<>> THEN e ELSE e - 1
    /\ IsAll(1, Len(text), "/")

IsPart(s, e) == \/ IsRest(s, e)
                \/ SlashesBefore(s) /\ (IsName(s, e) \/ IsIndex(s, e))

-----------------------------------------------------------------------------
TypeOK ==
    /\ text \in Texts /\ p \in 1 .. Len(text) + 1
    /\ state \in {"init", "slash", "index", "name", "returned"}
    /\ start \in 1 .. p /\ end \in 1 .. Len(text) + 1
    /\ ret \in {"ok", "invalid"}

\* What a successful call reports is a part of the text by the definition
\* above: the callers (config::get, value::get, walk_through) copy and compare
\* the bytes from start to end and go on at end.
PartFound == state = "returned" /\ ret = "ok" => IsPart(start, end)

\* A call that succeeds has moved on, unless the text was empty, so the walk
\* of config::get and value::get from part to part comes to an end.
Progress == state = "returned" /\ ret = "ok" /\ text /= <<>> => end > start

\* A text with a first part is never refused.
RefusedRightly ==
    state = "returned" /\ ret = "invalid" =>
        ~ \E s \in 1 .. Len(text) + 1, e \in 1 .. Len(text) + 1 : IsPart(s, e)
=============================================================================
