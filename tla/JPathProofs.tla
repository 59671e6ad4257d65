----------------------------- MODULE JPathProofs -----------------------------
(* What jpath_parse reports, for texts of any length.                        *)
EXTENDS JPath, TLAPS

\* What the automaton knows of the characters it has passed: in "slash" they
\* are slashes, in "index" and "name" the part begins at start and everything
\* since is of the part.
Passed ==
    /\ state /= "returned" => ret = "ok"
    /\ state = "init" => p = 1 /\ start = 1
    /\ state = "slash" => p > 1 /\ start = 1 /\ IsAll(1, p - 1, "/")
    /\ state = "index" => /\ SlashesBefore(start) /\ start < p
                          /\ text[start] = "[" /\ IsAll(start + 1, p - 1, "x")
    /\ state = "name" => /\ SlashesBefore(start) /\ start < p
                         /\ IsAll(start, p - 1, "x")

\* Why a text was refused: where its slashes end stands neither a name nor an
\* index that is closed, but one that p breaks off.
Broken(s) ==
    /\ SlashesBefore(s) /\ s \in 1 .. p
    /\ \/ At(p) = "]" /\ IsAll(s, p - 1, "x")
       \/ /\ s < p /\ At(p) \in {"/", "[", "zero"}
          /\ text[s] = "[" /\ IsAll(s + 1, p - 1, "x")

Refused == state = "returned" /\ ret = "invalid" => \E s \in 1 .. p : Broken(s)

IInv == TypeOK /\ Passed /\ PartFound /\ Refused

-----------------------------------------------------------------------------
LEMMA TextType == TypeOK => text \in Seq(Chars) /\ Len(text) \in Nat
  BY TextsAssumption DEF TypeOK

LEMMA AtChars ==
  ASSUME TypeOK
  PROVE  /\ At(p) \in Chars \cup {"zero"}
         /\ At(p) = "zero" => p = Len(text) + 1
         /\ At(p) /= "zero" => p \in 1 .. Len(text) /\ At(p) = text[p]
  BY TextType DEF TypeOK, At, Chars

\* A found part is where the definition wants it.
LEMMA NameEnds ==
  ASSUME TypeOK, Passed, state = "name", At(p) \in {"/", "[", "zero"}
  PROVE  IsPart(start, p)
  BY TextType DEF TypeOK, Passed, IsPart, IsName, IsAll, SlashesBefore

LEMMA IndexEnds ==
  ASSUME TypeOK, Passed, state = "index", At(p) = "]"
  PROVE  IsPart(start, p + 1)
<1>1. p \in 1 .. Len(text) /\ text[p] = "]"
  BY AtChars
<1>2. start + 1 < p + 1 /\ p + 1 \in 1 .. Len(text) + 1 /\ text[(p + 1) - 1] = "]"
  BY <1>1, TextType DEF TypeOK, Passed
<1>3. IsAll(start + 1, (p + 1) - 2, "x")
  BY TextType DEF TypeOK, Passed, IsAll
<1> QED
  BY <1>2, <1>3 DEF Passed, IsPart, IsIndex

LEMMA SlashesEnd ==
  ASSUME TypeOK, Passed, state = "slash", At(p) = "zero"
  PROVE  IsPart(p - 1, p)
<1>1. p = Len(text) + 1 /\ p > 1 /\ IsAll(1, p - 1, "/")
  BY AtChars DEF Passed
<1>2. text /= <<>>
  BY <1>1, TextType
<1> QED
  BY <1>1, <1>2, TextType DEF IsPart, IsRest, TypeOK

LEMMA EmptyEnds ==
  ASSUME TypeOK, Passed, state = "init", At(p) = "zero"
  PROVE  IsPart(start, p)
<1>1. p = 1 /\ start = 1 /\ Len(text) = 0
  BY AtChars, TextType DEF Passed
<1>2. text = <<>>
  BY <1>1, TextType
<1> QED
  BY <1>1, <1>2 DEF IsPart, IsRest, IsAll

LEMMA InitOK == Init => IInv
  BY TextsAssumption DEF Init, IInv, TypeOK, Passed, PartFound, Refused

LEMMA FirstStep == IInv /\ First => IInv'
<1> SUFFICES ASSUME IInv, First PROVE IInv'
  OBVIOUS
<1> USE DEF IInv
<1>1. /\ text' = text /\ text \in Seq(Chars) /\ Len(text) \in Nat
      /\ p = 1 /\ start = 1 /\ ret = "ok"
  BY TextType DEF First, Passed
<1>2. CASE At(p) \in {"/", "[", "x"}
  <2>1. p \in 1 .. Len(text) /\ At(p) = text[p]
    BY <1>2, AtChars
  <2>2. /\ p' = 2 /\ UNCHANGED <<start, end, ret>>
        /\ state' = IF At(p) = "/" THEN "slash" ELSE IF At(p) = "[" THEN "index" ELSE "name"
    BY <1>1, <1>2 DEF First, Go, Found, Invalid
  <2>3. TypeOK'
    BY <1>1, <2>1, <2>2 DEF TypeOK
  <2>4. Passed'
    <3>1. SlashesBefore(1)'
      BY <1>1 DEF SlashesBefore, IsAll
    <3>2. text'[1] = At(p) /\ p' - 1 = 1 /\ start' = 1 /\ ret' = "ok"
      BY <1>1, <2>1, <2>2
    <3>3. CASE At(p) = "/"
      BY <2>2, <3>2, <3>3 DEF Passed, IsAll
    <3>4. CASE At(p) = "["
      BY <2>2, <3>1, <3>2, <3>4 DEF Passed, IsAll
    <3>5. CASE At(p) = "x"
      BY <2>2, <3>1, <3>2, <3>5 DEF Passed, IsAll
    <3> QED
      BY <1>2, <3>3, <3>4, <3>5
  <2> QED
    BY <2>2, <2>3, <2>4 DEF PartFound, Refused
<1>3. CASE At(p) = "]"
  <2>1. state' = "returned" /\ ret' = "invalid" /\ UNCHANGED <<p, start, end>>
    BY <1>3 DEF First, Go, Found, Invalid
  <2>2. TypeOK' /\ Passed' /\ PartFound'
    BY <1>1, <2>1 DEF TypeOK, Passed, PartFound
  <2>3. Broken(1)'
    BY <1>1, <1>3, <2>1 DEF Broken, SlashesBefore, IsAll, At
  <2> QED
    BY <1>1, <2>1, <2>2, <2>3 DEF Refused
<1>4. CASE At(p) = "zero"
  <2>1. state' = "returned" /\ end' = p /\ UNCHANGED <<p, start, ret>>
    BY <1>4 DEF First, Go, Found, Invalid
  <2>2. TypeOK' /\ Passed'
    BY <1>1, <2>1 DEF TypeOK, Passed
  <2>3. IsPart(start, end)'
    <3>1. IsPart(start, p)
      BY <1>4, EmptyEnds DEF First
    <3> QED
      BY <1>1, <2>1, <3>1 DEF IsPart, IsRest, IsName, IsIndex, SlashesBefore, IsAll, At
  <2> QED
    BY <1>1, <2>1, <2>2, <2>3 DEF PartFound, Refused
<1> QED
  BY <1>2, <1>3, <1>4, AtChars DEF Chars

\* The part stays what it is: text does not change.
LEMMA PartStays ==
  ASSUME NEW e, IsPart(start, e), UNCHANGED <<text, start>>, end' = e
  PROVE  IsPart(start, end)'
  BY DEF IsPart, IsRest, IsName, IsIndex, SlashesBefore, IsAll, At

LEMMA SlashStep == IInv /\ Slash => IInv'
<1> SUFFICES ASSUME IInv, Slash PROVE IInv'
  OBVIOUS
<1> USE DEF IInv
<1>1. /\ text' = text /\ text \in Seq(Chars) /\ Len(text) \in Nat
      /\ p \in 2 .. Len(text) + 1 /\ start = 1 /\ ret = "ok"
      /\ \A i \in 1 .. p - 1 : text[i] = "/"
  BY TextType DEF Slash, Passed, TypeOK, IsAll
<1>2. CASE At(p) \in {"/", "[", "x"}
  <2>1. p \in 1 .. Len(text) /\ At(p) = text[p]
    BY <1>2, AtChars
  <2>2. /\ p' = p + 1 /\ UNCHANGED <<end, ret>>
        /\ start' = IF At(p) = "/" THEN 1 ELSE p
        /\ state' = IF At(p) = "/" THEN "slash" ELSE IF At(p) = "[" THEN "index" ELSE "name"
    BY <1>1, <1>2 DEF Slash, Go, Found, Invalid
  <2>3. TypeOK'
    BY <1>1, <2>1, <2>2 DEF TypeOK
  <2>4. Passed'
    <3>1. text'[p] = At(p) /\ p' - 1 = p /\ ret' = "ok" /\ p \in Nat
      BY <1>1, <2>1, <2>2
    <3>2. CASE At(p) = "/"
      BY <1>1, <2>2, <3>1, <3>2 DEF Passed, IsAll
    <3>3. CASE At(p) = "["
      <4>1. SlashesBefore(start)'
        BY <1>1, <2>2, <3>3 DEF SlashesBefore, IsAll
      <4> QED
        BY <2>2, <3>1, <3>3, <4>1 DEF Passed, IsAll
    <3>4. CASE At(p) = "x"
      <4>1. SlashesBefore(start)'
        BY <1>1, <2>2, <3>4 DEF SlashesBefore, IsAll
      <4> QED
        BY <2>2, <3>1, <3>4, <4>1 DEF Passed, IsAll
    <3> QED
      BY <1>2, <3>2, <3>3, <3>4
  <2> QED
    BY <2>2, <2>3, <2>4 DEF PartFound, Refused
<1>3. CASE At(p) = "]"
  <2>1. state' = "returned" /\ ret' = "invalid" /\ UNCHANGED <<p, start, end>>
    BY <1>3 DEF Slash, Go, Found, Invalid
  <2>2. TypeOK' /\ Passed' /\ PartFound'
    BY <1>1, <2>1 DEF TypeOK, Passed, PartFound
  <2>3. Broken(p)'
    BY <1>1, <1>3, <2>1 DEF Broken, SlashesBefore, IsAll, At
  <2> QED
    BY <1>1, <2>1, <2>2, <2>3 DEF Refused
<1>4. CASE At(p) = "zero"
  <2>1. state' = "returned" /\ end' = p /\ start' = p - 1 /\ UNCHANGED <<p, ret>>
    BY <1>4 DEF Slash, Go, Found, Invalid
  <2>2. TypeOK' /\ Passed'
    BY <1>1, <2>1 DEF TypeOK, Passed
  <2>3. IsPart(start, end)'
    <3>1. IsPart(p - 1, p)
      BY <1>4, SlashesEnd DEF Slash
    <3> QED
      BY <1>1, <2>1, <3>1 DEF IsPart, IsRest, IsName, IsIndex, SlashesBefore, IsAll, At
  <2> QED
    BY <1>1, <2>1, <2>2, <2>3 DEF PartFound, Refused
<1> QED
  BY <1>2, <1>3, <1>4, AtChars DEF Chars

LEMMA IndexStep == IInv /\ Index => IInv'
<1> SUFFICES ASSUME IInv, Index PROVE IInv'
  OBVIOUS
<1> USE DEF IInv
<1>1. /\ text' = text /\ text \in Seq(Chars) /\ Len(text) \in Nat
      /\ p \in 1 .. Len(text) + 1 /\ start \in 1 .. p - 1 /\ ret = "ok"
      /\ SlashesBefore(start) /\ text[start] = "[" /\ IsAll(start + 1, p - 1, "x")
  BY TextType DEF Index, Passed, TypeOK
<1>2. SlashesBefore(start)' \/ start' /= start
  BY <1>1 DEF SlashesBefore, IsAll
<1>3. CASE At(p) = "x"
  <2>1. p \in 1 .. Len(text) /\ text[p] = "x"
    BY <1>3, AtChars
  <2>2. p' = p + 1 /\ state' = "index" /\ UNCHANGED <<start, end, ret>>
    BY <1>3 DEF Index, Go, Found, Invalid
  <2>3. TypeOK'
    BY <1>1, <2>1, <2>2 DEF TypeOK
  <2>4. Passed'
    BY <1>1, <1>2, <2>1, <2>2 DEF Passed, IsAll
  <2> QED
    BY <2>2, <2>3, <2>4 DEF PartFound, Refused
<1>4. CASE At(p) \in {"/", "[", "zero"}
  <2>1. state' = "returned" /\ ret' = "invalid" /\ UNCHANGED <<p, start, end>>
    BY <1>4 DEF Index, Go, Found, Invalid
  <2>2. TypeOK' /\ Passed' /\ PartFound'
    BY <1>1, <2>1 DEF TypeOK, Passed, PartFound
  <2>3. Broken(start)'
    BY <1>1, <1>2, <1>4, <2>1 DEF Broken, IsAll, At
  <2> QED
    BY <1>1, <2>1, <2>2, <2>3 DEF Refused
<1>5. CASE At(p) = "]"
  <2>1. p \in 1 .. Len(text)
    BY <1>5, AtChars
  <2>2. state' = "returned" /\ end' = p + 1 /\ UNCHANGED <<p, start, ret>>
    BY <1>5 DEF Index, Go, Found, Invalid
  <2>3. TypeOK' /\ Passed'
    BY <1>1, <2>1, <2>2 DEF TypeOK, Passed
  <2>4. IsPart(start, end)'
    BY <1>1, <1>5, <2>2, IndexEnds, PartStays DEF Index
  <2> QED
    BY <1>1, <2>2, <2>3, <2>4 DEF PartFound, Refused
<1> QED
  BY <1>3, <1>4, <1>5, AtChars DEF Chars

LEMMA NameStep == IInv /\ Name => IInv'
<1> SUFFICES ASSUME IInv, Name PROVE IInv'
  OBVIOUS
<1> USE DEF IInv
<1>1. /\ text' = text /\ text \in Seq(Chars) /\ Len(text) \in Nat
      /\ p \in 1 .. Len(text) + 1 /\ start \in 1 .. p - 1 /\ ret = "ok"
      /\ SlashesBefore(start) /\ IsAll(start, p - 1, "x")
  BY TextType DEF Name, Passed, TypeOK
<1>2. SlashesBefore(start)' \/ start' /= start
  BY <1>1 DEF SlashesBefore, IsAll
<1>3. CASE At(p) = "x"
  <2>1. p \in 1 .. Len(text) /\ text[p] = "x"
    BY <1>3, AtChars
  <2>2. p' = p + 1 /\ state' = "name" /\ UNCHANGED <<start, end, ret>>
    BY <1>3 DEF Name, Go, Found, Invalid
  <2>3. TypeOK'
    BY <1>1, <2>1, <2>2 DEF TypeOK
  <2>4. Passed'
    BY <1>1, <1>2, <2>1, <2>2 DEF Passed, IsAll
  <2> QED
    BY <2>2, <2>3, <2>4 DEF PartFound, Refused
<1>4. CASE At(p) = "]"
  <2>1. state' = "returned" /\ ret' = "invalid" /\ UNCHANGED <<p, start, end>>
    BY <1>4 DEF Name, Go, Found, Invalid
  <2>2. TypeOK' /\ Passed' /\ PartFound'
    BY <1>1, <2>1 DEF TypeOK, Passed, PartFound
  <2>3. Broken(start)'
    BY <1>1, <1>2, <1>4, <2>1 DEF Broken, IsAll, At
  <2> QED
    BY <1>1, <2>1, <2>2, <2>3 DEF Refused
<1>5. CASE At(p) \in {"/", "[", "zero"}
  <2>2. state' = "returned" /\ end' = p /\ UNCHANGED <<p, start, ret>>
    BY <1>5 DEF Name, Go, Found, Invalid
  <2>3. TypeOK' /\ Passed'
    BY <1>1, <2>2 DEF TypeOK, Passed
  <2>4. IsPart(start, end)'
    BY <1>1, <1>5, <2>2, NameEnds, PartStays DEF Name
  <2> QED
    BY <1>1, <2>2, <2>3, <2>4 DEF PartFound, Refused
<1> QED
  BY <1>3, <1>4, <1>5, AtChars DEF Chars
\* Where the slashes end there is one place only, and a part that breaks off
\* there leaves no other.
LEMMA BrokenHasNoPart ==
  ASSUME TypeOK, NEW b \in 1 .. p, Broken(b),
         NEW s \in 1 .. Len(text) + 1, NEW e \in 1 .. Len(text) + 1, IsPart(s, e)
  PROVE  FALSE
<1>1. text \in Seq(Chars) /\ Len(text) \in Nat /\ p \in 1 .. Len(text) + 1
  BY TextType DEF TypeOK
<1>2. /\ At(p) = "zero" => p = Len(text) + 1
      /\ At(p) /= "zero" => p \in 1 .. Len(text) /\ text[p] = At(p)
  BY AtChars
<1>3. b \in 1 .. Len(text) /\ text[b] \in {"x", "[", "]"}
  <2>1. CASE At(p) = "]" /\ IsAll(b, p - 1, "x")
    BY <1>1, <1>2, <2>1 DEF IsAll
  <2>2. CASE b < p /\ text[b] = "["
    BY <1>1, <2>2
  <2> QED
    BY <2>1, <2>2 DEF Broken
<1>4. ~IsRest(s, e)
  BY <1>1, <1>3 DEF IsRest, IsAll
<1>5. SlashesBefore(s) /\ (IsName(s, e) \/ IsIndex(s, e))
  BY <1>4 DEF IsPart
<1>6. s < e /\ s \in 1 .. Len(text) /\ text[s] \in {"x", "["}
  BY <1>1, <1>5 DEF IsName, IsIndex, IsAll
<1>7. s = b
  BY <1>1, <1>3, <1>5, <1>6 DEF Broken, SlashesBefore, IsAll
<1>8. CASE At(p) = "]" /\ IsAll(b, p - 1, "x")
  <2>1. IsName(s, e)
    BY <1>1, <1>2, <1>5, <1>7, <1>8 DEF IsIndex, IsAll
  <2>2. e /= p /\ ~(p < e) /\ ~(e < p)
    BY <1>1, <1>2, <1>7, <1>8, <2>1 DEF IsName, IsAll, At
  <2> QED
    BY <1>1, <2>2
<1>9. CASE /\ b < p /\ At(p) \in {"/", "[", "zero"}
           /\ text[b] = "[" /\ IsAll(b + 1, p - 1, "x")
  <2>1. IsIndex(s, e)
    BY <1>1, <1>5, <1>7, <1>9 DEF IsName, IsAll
  <2>2. e - 1 /= p /\ ~(p < e - 1) /\ ~(e - 1 < p)
    BY <1>1, <1>2, <1>7, <1>9, <2>1 DEF IsIndex, IsAll
  <2> QED
    BY <1>1, <2>2
<1> QED
  BY <1>8, <1>9 DEF Broken

LEMMA Consequences == IInv => PartFound /\ Progress /\ RefusedRightly
<1> SUFFICES ASSUME IInv PROVE PartFound /\ Progress /\ RefusedRightly
  OBVIOUS
<1> USE DEF IInv
<1>1. text \in Seq(Chars) /\ Len(text) \in Nat
  BY TextType
<1>2. ASSUME state = "returned", ret = "ok", text /= <<>> PROVE end > start
  <2>1. IsPart(start, end) /\ Len(text) > 0
    BY <1>1, <1>2 DEF PartFound
  <2> QED
    BY <1>1, <1>2, <2>1 DEF IsPart, IsRest, IsName, IsIndex, SlashesBefore, TypeOK
<1>3. RefusedRightly
  BY BrokenHasNoPart DEF RefusedRightly, Refused
<1> QED
  BY <1>2, <1>3 DEF Progress

LEMMA Inductive == Spec => []IInv
<1>1. IInv /\ [Next]_vars => IInv'
  <2> SUFFICES ASSUME IInv, [Next]_vars PROVE IInv'
    OBVIOUS
  <2>1. CASE UNCHANGED vars
    BY <2>1 DEF vars, IInv, TypeOK, Passed, PartFound, Refused, Broken, IsPart, IsRest,
                IsName, IsIndex, SlashesBefore, IsAll, At
  <2> QED
    BY <2>1, FirstStep, SlashStep, IndexStep, NameStep DEF Next
<1> QED
  BY InitOK, <1>1, PTL DEF Spec

-----------------------------------------------------------------------------
\* TypeOK: the automaton never reads past the text's terminating zero, and the
\* part it reports lies in the text, whatever the text.
THEOREM StaysInText == Spec => []TypeOK
<1>1. IInv => TypeOK
  BY DEF IInv
<1> QED
  BY Inductive, <1>1, PTL

\* PartFound: what a call reports is a name, a closed index or the rest of the
\* text, behind slashes only.
THEOREM ReportsParts == Spec => []PartFound
<1>1. IInv => PartFound
  BY Consequences
<1> QED
  BY Inductive, <1>1, PTL

\* Progress: a call that succeeds consumes something unless nothing was left.
THEOREM MovesOn == Spec => []Progress
<1>1. IInv => Progress
  BY Consequences
<1> QED
  BY Inductive, <1>1, PTL

\* RefusedRightly: a text that begins with a part is never refused.
THEOREM RefusesOnlyBroken == Spec => []RefusedRightly
<1>1. IInv => RefusedRightly
  BY Consequences
<1> QED
  BY Inductive, <1>1, PTL
=============================================================================
