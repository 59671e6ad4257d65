---------------------------- MODULE SchemaProofs ----------------------------
(* What validate() lists, for any schema and any document.                   *)
(* A line is about one place of the tree (Subject), which its path tells:    *)
(* the value config::get comes to or, for a parameter that is not there, the *)
(* config it is missing in. A range is walked once, and the places of        *)
(* different ranges have different names on their way; so no line is listed  *)
(* twice (LineInv). What is known of trees and paths is ConfigProofs'.       *)
(* What is listed of a value is what its own range answers (JudgedInv), and  *)
(* that is what the declaration asks for (ElementMeant): the scanner reads   *)
(* intervals as they are meant (ScansRight).                                 *)
EXTENDS Schema, ConfigProofs, FiniteSetTheorems

-----------------------------------------------------------------------------
(* Names on the way                                                          *)

LEMMA Halves ==
    ASSUME NEW n \in Nat, n % 2 = 0
    PROVE  \E m \in Nat : n = 2 * m /\ (n + 1) \div 2 = m /\ (n + 2) \div 2 = m + 1
<1>1. n \div 2 \in Nat /\ n = 2 * (n \div 2)
  OBVIOUS
<1> QED
  BY <1>1

\* A parameter of a config that Front(p) leads to is one p leads to.
LEMMA NamesAppended ==
    ASSUME NEW c \in Seq(Places), Len(c) % 2 = 0, NEW p \in Seq(Names), p # <<>>,
           NamesOf(c) = Front(p)
    PROVE  NamesOf(Append(c, Last(p))) = p
<1>1. Len(c) \in Nat /\ Len(p) \in Nat /\ Len(p) > 0
  BY LenProperties, EmptySeq
<1>2. PICK m \in Nat : Len(c) = 2 * m /\ (Len(c) + 1) \div 2 = m /\ (Len(c) + 2) \div 2 = m + 1
  BY <1>1, Halves
<1>3. PICK x : x = Last(p)
  OBVIOUS
<1>4. x = p[Len(p)] /\ x \in Places
  BY <1>1, <1>3 DEF Last, Places
<1>5. PICK l : l = Append(c, x)
  OBVIOUS
<1>6. /\ Len(l) = 2 * m + 1 /\ l[2 * m + 1] = x
      /\ \A k \in 1 .. 2 * m : l[k] = c[k]
  BY <1>2, <1>4, <1>5, Extended
<1>7. NamesOf(c) = [k \in 1 .. m |-> c[2 * k - 1]]
  BY <1>2 DEF NamesOf
<1>8. Front(p) = [k \in 1 .. Len(p) - 1 |-> p[k]]
  BY <1>1 DEF Front
<1>9. m = Len(p) - 1 /\ \A k \in 1 .. m : c[2 * k - 1] = p[k]
  <2>1. 1 .. m = 1 .. Len(p) - 1
    BY <1>7, <1>8
  <2>2. m = Len(p) - 1
    BY <1>1, <2>1
  <2> QED
    BY <1>7, <1>8, <2>2
<1>10. NamesOf(l) = [k \in 1 .. m + 1 |-> l[2 * k - 1]]
  <2>1. (Len(l) + 1) \div 2 = m + 1
    BY <1>2, <1>6
  <2> QED
    BY <2>1 DEF NamesOf
<1>11. ASSUME NEW k \in 1 .. m + 1 PROVE l[2 * k - 1] = p[k]
  <2>1. CASE k = m + 1
    BY <1>4, <1>6, <1>9, <2>1
  <2>2. CASE k \in 1 .. m
    BY <1>6, <1>9, <2>2
  <2> QED
    BY <2>1, <2>2
<1>12. p = [k \in 1 .. m + 1 |-> p[k]]
  BY <1>1, <1>9
<1> QED
  BY <1>3, <1>5, <1>10, <1>11, <1>12

-----------------------------------------------------------------------------
(* What a path tells                                                         *)

\* The config a walk has come to: the element it names, the first one of a value.
ConfigOf(g) == IF g.mode = "config" THEN g.loc ELSE Append(g.loc, g.idx)

LEMMA ConfigWay ==
    ASSUME NEW t, Grown(t), ShapedTree(t), NEW c \in Configs(t)
    PROVE  /\ Way(c) \in Seq(Tokens) /\ ConfigOf(Get(t, Way(c))) = c
           /\ \A n \in Names :
                Step(t, Get(t, Append(Way(c), Slash)), n) = StepName(t, c, n)
<1>1. CASE c = <<>>
  <2>1. Get(t, Way(c)) = Start(<<>>)
    BY <1>1, WayNone, GetNone
  <2>2. Arrived(t, c, 0) /\ 0 % 2 = 0
    BY <1>1, StartsAtRoot
  <2> QED
    BY <1>1, <2>1, <2>2 DEF Arrived, ConfigOf, Start
<1>2. CASE c # <<>>
  <2>1. PICK l \in DOMAIN t : \E i \in 0 .. t[l].len - 1 : t[l].type = "object" /\ c = Append(l, i)
    BY <1>2 DEF Configs, Elements
  <2>2. PICK i \in 0 .. t[l].len - 1 : t[l].type = "object" /\ c = Append(l, i)
    BY <2>1
  <2>3. i \in Nat /\ i < t[l].len
    <3>1. t[l].len \in Nat
      BY DEF ShapedTree, Shaped
    <3> QED
      BY <2>2, <3>1
  <2>4. l \in Seq(Places) /\ Len(l) \in Nat /\ Len(l) % 2 = 1
    BY GrownPlaces
  <2>5. Way(l) \in Seq(Tokens) /\ Get(t, Way(l)) = ValueAt(l)
    BY Arrives
  <2>6. Arrived(t, l, Len(l))
    BY <2>4, <2>5 DEF Arrived
  <2>7. Arrived(t, c, Len(l) + 1) /\ (Len(l) + 1) % 2 = 0
    BY <2>2, <2>3, <2>4, <2>6, NextIndex, Odd
  <2>8. i \in Places /\ i \in Tokens /\ i \notin Names
    BY <2>3, Signs DEF Places, Tokens
  <2>9. Way(c) = WayTo(l, i)
    BY <2>2, <2>4, <2>8, WayAppended DEF WayTo, Spell
  <2>10. ConfigOf(Get(t, Way(c))) = c
    <3>1. Found(t, WayTo(l, i)) /\ Get(t, WayTo(l, i)).loc = l /\ Get(t, WayTo(l, i)).idx = i
      BY <2>3, WayLeads
    <3> QED
      BY <2>2, <2>9, <3>1 DEF ConfigOf, Found
  <2> QED
    BY <2>7, <2>10 DEF Arrived
<1> QED
  BY <1>1, <1>2

\* The place a path of a line is about.
Subject(t, path) ==
    IF Found(t, path) THEN Get(t, path).loc
    ELSE Append(ConfigOf(Get(t, Front(Front(path)))), Last(path))

LEMMA LastOfAppended ==
    ASSUME NEW S, NEW s \in Seq(S), NEW x \in S
    PROVE  Front(Append(s, x)) = s /\ Last(Append(s, x)) = x
<1>1. PICK m : m = Append(s, x)
  OBVIOUS
<1>2. /\ m \in Seq(S) /\ Len(m) = Len(s) + 1 /\ Len(s) \in Nat /\ m[Len(s) + 1] = x
      /\ \A j \in 1 .. Len(s) : m[j] = s[j]
  BY <1>1, Extended, LenProperties
<1>3. Last(m) = x
  BY <1>2 DEF Last
<1>4. Front(m) = [j \in 1 .. Len(s) |-> m[j]]
  BY <1>2 DEF Front
<1>5. s = [j \in 1 .. Len(s) |-> s[j]]
  BY <1>2
<1> QED
  BY <1>1, <1>2, <1>3, <1>4, <1>5

\* A value that is there, as a whole and its elements.
LEMMA ThereIsFound ==
    ASSUME PlainNames, NEW t, Grown(t), Linked(t), NEW l \in DOMAIN t
    PROVE  /\ Found(t, PathOf(t, FALSE, l, 0))
           /\ Subject(t, PathOf(t, FALSE, l, 0)) = l
           /\ \A i \in Nat : i < t[l].len =>
                /\ PathOf(t, FALSE, l, i) \in Seq(Tokens)
                /\ Found(t, PathOf(t, FALSE, l, i))
                /\ Get(t, PathOf(t, FALSE, l, i)).loc = l
                /\ Get(t, PathOf(t, FALSE, l, i)).idx = i
<1>1. Stands(t, l)
  BY DEF Grown
<1>2. \A i : PathOf(t, FALSE, l, i) = WayTo(l, i)
  BY <1>1, UplinksThere, PathIsWay
<1>3. Way(l) \in Seq(Tokens) /\ Get(t, Way(l)) = ValueAt(l)
  BY Arrives
<1>4. WayTo(l, 0) = Way(l)
  BY <1>3, ConcatEmptySeq DEF WayTo
<1>5. Found(t, Way(l)) /\ Subject(t, Way(l)) = l
  BY <1>3 DEF Found, Subject, ValueAt
<1>6. ASSUME NEW i \in Nat PROVE WayTo(l, i) \in Seq(Tokens)
  <2>1. CASE i = 0
    BY <1>3, <1>4, <2>1
  <2>2. CASE i # 0
    <3>1. i \in Tokens
      BY DEF Tokens
    <3>2. WayTo(l, i) = Append(Way(l), i)
      BY <1>3, <2>2, <3>1 DEF WayTo
    <3> QED
      BY <1>3, <3>1, <3>2, Extended
  <2> QED
    BY <2>1, <2>2
<1>7. ASSUME NEW i \in Nat, i < t[l].len
      PROVE  /\ PathOf(t, FALSE, l, i) \in Seq(Tokens)
             /\ Found(t, PathOf(t, FALSE, l, i))
             /\ Get(t, PathOf(t, FALSE, l, i)).loc = l
             /\ Get(t, PathOf(t, FALSE, l, i)).idx = i
  <2>1. PathOf(t, FALSE, l, i) = WayTo(l, i)
    BY <1>2
  <2>2. /\ Found(t, WayTo(l, i))
        /\ Get(t, WayTo(l, i)).loc = l /\ Get(t, WayTo(l, i)).idx = i
    BY <1>7, WayLeads
  <2>3. WayTo(l, i) \in Seq(Tokens)
    BY <1>6
  <2> QED
    BY <2>1, <2>2, <2>3
<1>8. PathOf(t, FALSE, l, 0) = Way(l)
  BY <1>2, <1>4
<1> QED
  BY <1>5, <1>7, <1>8

\* The index of the first element of an array is shown, and leads to it.
LEMMA FirstShown ==
    ASSUME NEW t, Grown(t), NEW l \in DOMAIN t, 0 < t[l].len
    PROVE  Get(t, Append(Way(l), 0)) = ElementAt(l, 0)
<1>1. Way(l) \in Seq(Tokens) /\ Get(t, Way(l)) = ValueAt(l)
  BY Arrives
<1>2. 0 \in Tokens
  BY DEF Tokens
<1> QED
  BY <1>1, <1>2, GetAppended, FromValue

\* A parameter that is not there.
LEMMA AbsentIsNot ==
    ASSUME PlainNames, NEW t, Grown(t), Linked(t), ShapedTree(t), NEW c \in Configs(t),
           NEW n \in Names, Append(c, n) \notin DOMAIN t
    PROVE  /\ ~Found(t, PathOf(t, FALSE, Append(c, n), 0))
           /\ Subject(t, PathOf(t, FALSE, Append(c, n), 0)) = Append(c, n)
<1>1. PICK l : l = Append(c, n)
  OBVIOUS
<1>2. Stands(t, l) /\ c \in Seq(Places)
  BY <1>1, NamePlace, ConfigStands
<1>3. PathOf(t, FALSE, l, 0) = WayTo(l, 0)
  BY <1>2, UplinksThere, PathIsWay
<1>4. PICK w \in Seq(Tokens) : w = Way(c)
  BY ConfigWay
<1>5. n \in Places /\ n \in Tokens /\ Slash \in Tokens
  BY DEF Places, Tokens
<1>6. PICK v \in Seq(Tokens) : v = Append(w, Slash)
  BY <1>4, <1>5, Extended
<1>7. PICK u \in Seq(Tokens) : u = Append(v, n)
  BY <1>5, <1>6, Extended
<1>8. Way(l) = u /\ WayTo(l, 0) = u
  <2>1. Way(l) = w \o <<Slash, n>>
    BY <1>1, <1>2, <1>4, <1>5, WayAppended DEF Spell
  <2>2. w \o <<Slash, n>> = u
    BY <1>5, <1>6, <1>7
  <2> QED
    BY <2>1, <2>2, ConcatEmptySeq DEF WayTo
<1>9. Get(t, u) = StepName(t, c, n)
  <2>1. Get(t, u) = Step(t, Get(t, v), n)
    BY <1>5, <1>6, <1>7, GetAppended
  <2> QED
    BY <1>4, <1>6, <2>1, ConfigWay
<1>10. ~Found(t, u)
  <2>1. StepName(t, c, n).mode = "not found"
    BY DEF StepName
  <2> QED
    BY <1>9, <2>1 DEF Found
<1>11. Front(u) = v /\ Last(u) = n /\ Front(v) = w
  BY <1>5, <1>6, <1>7, LastOfAppended
<1>12. ConfigOf(Get(t, w)) = c
  BY <1>4, ConfigWay
<1> QED
  BY <1>1, <1>3, <1>8, <1>10, <1>11, <1>12 DEF Subject

-----------------------------------------------------------------------------
(* The lines of one range                                                    *)

\* The tree is a loaded one.
TreeInv == Grown(conf) /\ Linked(conf) /\ ShapedTree(conf)

\* What a loaded value looks like.
Loaded(v) == \E node : IsNode(node) /\ v = FromJson(node)

\* An element is shown by a path of its own.
LEMMA ShownLeads ==
    ASSUME PlainNames, TreeInv, NEW l \in DOMAIN conf, NEW i \in Nat, i < conf[l].len
    PROVE  /\ Found(conf, Shown(l, i))
           /\ Get(conf, Shown(l, i)).loc = l /\ Get(conf, Shown(l, i)).idx = i
<1>1. PICK w : w = PathOf(conf, FALSE, l, i)
  OBVIOUS
<1>2. w \in Seq(Tokens) /\ Found(conf, w) /\ Get(conf, w).loc = l /\ Get(conf, w).idx = i
  <2>1. /\ PathOf(conf, FALSE, l, i) \in Seq(Tokens) /\ Found(conf, PathOf(conf, FALSE, l, i))
        /\ Get(conf, PathOf(conf, FALSE, l, i)).loc = l
        /\ Get(conf, PathOf(conf, FALSE, l, i)).idx = i
    <3>1. Grown(conf) /\ Linked(conf)
      BY DEF TreeInv
    <3>2. \A j \in Nat : j < conf[l].len =>
            /\ PathOf(conf, FALSE, l, j) \in Seq(Tokens)
            /\ Found(conf, PathOf(conf, FALSE, l, j))
            /\ Get(conf, PathOf(conf, FALSE, l, j)).loc = l
            /\ Get(conf, PathOf(conf, FALSE, l, j)).idx = j
      BY <3>1, ThereIsFound, Zenon
    <3> QED
      BY <3>2
  <2> QED
    BY <1>1, <2>1
<1>3. CASE i = 0 /\ conf[l].array
  <2>1. w = Way(l) /\ w \in Seq(Tokens)
    <3>1. Stands(conf, l)
      BY DEF Grown, TreeInv
    <3>2. w = WayTo(l, 0)
      BY <1>1, <1>3, <3>1, UplinksThere, PathIsWay DEF TreeInv
    <3>3. Way(l) \in Seq(Tokens)
      BY Arrives DEF TreeInv
    <3> QED
      BY <1>1, <3>2, <3>3, ConcatEmptySeq DEF WayTo
  <2>2. 0 \in Tokens
    BY DEF Tokens
  <2>3. Shown(l, i) = Append(Way(l), 0)
    <3>1. Shown(l, i) = w \o <<0>>
      BY <1>1, <1>3 DEF Shown
    <3>2. w \o <<0>> = Append(w, 0)
      BY <2>1, <2>2
    <3> QED
      BY <2>1, <3>1, <3>2
  <2>4. Get(conf, Shown(l, i)) = ElementAt(l, 0)
    BY <1>3, <2>3, FirstShown DEF TreeInv
  <2> QED
    BY <1>3, <2>4 DEF Found, ElementAt
<1>4. CASE ~(i = 0 /\ conf[l].array)
  <2>1. Shown(l, i) = w \o <<>>
    BY <1>1, <1>4 DEF Shown
  <2> QED
    BY <1>2, <2>1, ConcatEmptySeq
<1> QED
  BY <1>3, <1>4

\* What is listed of a value that is there.
LEMMA ValueLines ==
    ASSUME PlainNames, TreeInv, NEW r, NEW l \in DOMAIN conf, NEW good,
           NEW x \in OfValue(r, l, good)
    PROVE  /\ x = <<x[1], x[2], x[3]>> /\ x[3] \in {"type", "length", "ok", "range"}
           /\ Found(conf, x[2]) /\ Subject(conf, x[2]) = l
           /\ \A y \in OfValue(r, l, good) : x[2] = y[2] => x = y
<1> DEFINE Code(e) == IF e \in good THEN "ok" ELSE "range"
<1>1. CASE ~TypeFits(r, conf[l])
  <2>1. OfValue(r, l, good) = {<<l, Whole(l), "type">>}
    BY <1>1 DEF OfValue
  <2> QED
    <3>1. Found(conf, Whole(l)) /\ Subject(conf, Whole(l)) = l
      BY ThereIsFound DEF Whole, TreeInv
    <3> QED
      BY <2>1, <3>1
<1>2. CASE TypeFits(r, conf[l]) /\ ~LengthFits(r, conf[l])
  <2>1. OfValue(r, l, good) = {<<l, Whole(l), "length">>}
    BY <1>2 DEF OfValue
  <2> QED
    <3>1. Found(conf, Whole(l)) /\ Subject(conf, Whole(l)) = l
      BY ThereIsFound DEF Whole, TreeInv
    <3> QED
      BY <2>1, <3>1
<1>3. CASE TypeFits(r, conf[l]) /\ LengthFits(r, conf[l])
  <2>1. OfValue(r, l, good) = {<<e, Shown(l, e[2]), Code(e)>> : e \in Judged(r, l)}
    BY <1>3 DEF OfValue
  <2>2. conf[l].len \in Nat
    BY DEF TreeInv, ShapedTree, Shaped
  <2>3. ASSUME NEW e \in Judged(r, l)
        PROVE  \E i \in Nat : e = <<l, i>> /\ i < conf[l].len
    <3>1. PICK i \in 0 .. conf[l].len - 1 : e = <<l, i>>
      BY DEF Judged
    <3> QED
      BY <2>2, <3>1
  <2>4. ASSUME NEW y \in OfValue(r, l, good)
        PROVE  \E i \in Nat : /\ i < conf[l].len
                              /\ y = <<<<l, i>>, Shown(l, i), Code(<<l, i>>)>>
    <3>1. PICK e \in Judged(r, l) : y = <<e, Shown(l, e[2]), Code(e)>>
      BY <2>1
    <3>2. PICK i \in Nat : e = <<l, i>> /\ i < conf[l].len
      BY <2>3
    <3> HIDE DEF Code
    <3> QED
      BY <3>1, <3>2
  <2>5. PICK i \in Nat : i < conf[l].len /\ x = <<<<l, i>>, Shown(l, i), Code(<<l, i>>)>>
    BY <2>4
  <2>6. /\ Found(conf, Shown(l, i))
        /\ Get(conf, Shown(l, i)).loc = l /\ Get(conf, Shown(l, i)).idx = i
    BY <2>5, ShownLeads
  <2>7. ASSUME NEW y \in OfValue(r, l, good), x[2] = y[2] PROVE x = y
    <3>1. PICK j \in Nat : j < conf[l].len /\ y = <<<<l, j>>, Shown(l, j), Code(<<l, j>>)>>
      BY <2>4
    <3>2. Get(conf, Shown(l, j)).idx = j
      BY <3>1, ShownLeads
    <3> HIDE DEF Code
    <3>3. Shown(l, i) = Shown(l, j)
      BY <2>5, <2>7, <3>1
    <3>4. i = j
      BY <2>6, <3>2, <3>3
    <3> QED
      BY <2>5, <3>1, <3>4
  <2>8. Code(<<l, i>>) \in {"ok", "range"}
    OBVIOUS
  <2> HIDE DEF Code
  <2>9. x[2] = Shown(l, i) /\ x[3] = Code(<<l, i>>) /\ x[1] = <<l, i>>
    BY <2>5
  <2> QED
    BY <2>5, <2>6, <2>7, <2>8, <2>9 DEF Subject
<1> QED
  BY <1>1, <1>2, <1>3

LEMMA LooksThere ==
    ASSUME TreeInv, NEW p \in Seq(Names), p # <<>>, NEW l \in Looks(p)
    PROVE  NamesOf(l) = p /\ \E c \in Configs(conf) : \E n \in Names : l = Append(c, n)
<1>1. PICK c \in Configs(conf) : NamesOf(c) = Front(p) /\ l = Append(c, Last(p))
  BY DEF Looks, Reached
<1>2. c \in Seq(Places) /\ Len(c) % 2 = 0
  BY ConfigStands DEF TreeInv
<1>3. Last(p) \in Names
  <2>1. Len(p) \in Nat /\ Len(p) > 0
    BY LenProperties, EmptySeq
  <2> QED
    BY <2>1 DEF Last
<1> QED
  BY <1>1, <1>2, <1>3, NamesAppended

\* A range looks at every value its path leads to.
LEMMA LooksAll ==
    ASSUME TreeInv, NEW l \in DOMAIN conf
    PROVE  l \in Looks(NamesOf(l))
<1>1. l \in Seq(Places) /\ Len(l) % 2 = 1 /\ Len(l) \in Nat /\ Stands(conf, l)
  BY GrownPlaces DEF TreeInv, Grown
<1>2. PICK m \in Nat : Len(l) = 2 * m + 1 /\ (Len(l) + 1) \div 2 = m + 1
  <2>1. Len(l) \div 2 \in Nat /\ Len(l) = 2 * (Len(l) \div 2) + 1
    BY <1>1
  <2> QED
    BY <2>1
<1>3. PICK c : c = Upto(l, 2 * m)
  OBVIOUS
<1>4. c \in Seq(Places) /\ Len(c) = 2 * m /\ \A j \in 1 .. 2 * m : c[j] = l[j]
  <2>1. 2 * m \in 0 .. Len(l)
    BY <1>2
  <2> QED
    BY <1>1, <1>3, <2>1, Prefix
<1>5. l = Append(c, l[2 * m + 1])
  <2>1. Len(l) > 0 /\ Len(l) - 1 = 2 * m
    BY <1>2
  <2> QED
    BY <1>1, <1>2, <1>3, <2>1, LastPart
<1>6. c \in Configs(conf)
  <2>1. CASE m = 0
    <3>1. c = <<>>
      BY <1>4, <2>1, EmptySeq
    <3> QED
      BY <3>1 DEF Configs
  <2>2. CASE m # 0
    <3>1. 2 * m \in 1 .. Len(l) /\ (2 * m) % 2 = 0
      BY <1>2, <2>2
    <3>2. PICK a, i : a = Upto(l, 2 * m - 1) /\ i = l[2 * m]
      OBVIOUS
    <3>3. a \in DOMAIN conf /\ conf[a].type = "object" /\ i \in Nat /\ i < conf[a].len
      BY <1>1, <3>1, <3>2, IndexAt DEF Holds
    <3>4. c = Append(a, i)
      <4>1. Len(c) > 0 /\ Len(c) - 1 = 2 * m - 1
        BY <1>4, <2>2
      <4>2. c = Append(Upto(c, 2 * m - 1), c[2 * m])
        BY <1>4, <4>1, LastPart
      <4>3. Upto(c, 2 * m - 1) = a
        <5>1. 2 * m \in 0 .. Len(l) /\ 2 * m - 1 \in 0 .. 2 * m
          BY <1>2, <2>2
        <5> QED
          BY <1>1, <1>3, <3>2, <5>1, PrefixOfPrefix
      <4>4. c[2 * m] = i
        BY <1>4, <3>1, <3>2
      <4> QED
        BY <4>2, <4>3, <4>4
    <3>5. conf[a].len \in Nat
      BY <3>3 DEF TreeInv, ShapedTree, Shaped
    <3>6. <<a, i>> \in Elements(conf)
      <4>1. i \in 0 .. conf[a].len - 1
        BY <3>3, <3>5
      <4> QED
        BY <3>3, <4>1 DEF Elements
    <3> QED
      BY <3>3, <3>4, <3>6 DEF Configs
  <2> QED
    BY <2>1, <2>2
<1>7. PICK p : p = NamesOf(l)
  OBVIOUS
<1>8. p = [k \in 1 .. m + 1 |-> l[2 * k - 1]]
  BY <1>2, <1>7 DEF NamesOf
<1>9. Len(p) = m + 1 /\ Last(p) = l[2 * m + 1]
  <2>1. Len(p) = m + 1
    BY <1>8
  <2>2. p[m + 1] = l[2 * (m + 1) - 1] /\ 2 * (m + 1) - 1 = 2 * m + 1
    BY <1>8
  <2> QED
    BY <2>1, <2>2 DEF Last
<1>10. NamesOf(c) = Front(p)
  <2>1. (Len(c) + 1) \div 2 = m
    BY <1>4
  <2>2. NamesOf(c) = [k \in 1 .. m |-> c[2 * k - 1]]
    BY <2>1 DEF NamesOf
  <2>3. Front(p) = [k \in 1 .. m |-> p[k]]
    BY <1>8, <1>9 DEF Front
  <2>4. \A k \in 1 .. m : c[2 * k - 1] = p[k]
    BY <1>4, <1>8
  <2> QED
    BY <2>2, <2>3, <2>4
<1> QED
  BY <1>5, <1>6, <1>7, <1>9, <1>10 DEF Looks, Reached

LEMMA AbsentLine ==
    ASSUME PlainNames, TreeInv, NEW p \in Seq(Names), p # <<>>,
           NEW l \in Looks(p), l \notin DOMAIN conf
    PROVE  ~Found(conf, Whole(l)) /\ Subject(conf, Whole(l)) = l
<1>1. PICK c \in Configs(conf), n \in Names : l = Append(c, n)
  BY LooksThere
<1> QED
  BY <1>1, AbsentIsNot DEF Whole, TreeInv

LEMMA RangeLines ==
    ASSUME PlainNames, TreeInv, NEW p \in Seq(Names), p # <<>>, NEW r, NEW good,
           NEW there, there \subseteq Looks(p) \cap DOMAIN conf,
           NEW absent, absent \subseteq Looks(p) \ DOMAIN conf,
           NEW x \in Says(r, there, absent, good)
    PROVE  /\ x = <<x[1], x[2], x[3]>> /\ NamesOf(Subject(conf, x[2])) = p
           /\ (x[3] = "absent") = ~Found(conf, x[2])
           /\ x[3] = "absent" => Subject(conf, x[2]) \in absent
           /\ \A y \in Says(r, there, absent, good) : x[2] = y[2] => x = y
<1> DEFINE Missing(l) == <<l, Whole(l), "absent">>
<1>1. ASSUME NEW y \in Says(r, there, absent, good)
      PROVE  \/ \E l \in there : y \in OfValue(r, l, good)
             \/ \E l \in absent : y = Missing(l)
  <2>1. CASE y \in OfValues(r, there, good)
    BY <2>1 DEF OfValues
  <2>2. CASE y \in OfAbsent(absent)
    BY <2>2 DEF OfAbsent
  <2> QED
    BY <1>1, <2>1, <2>2 DEF Says
<1>2. ASSUME NEW l \in there, NEW y \in OfValue(r, l, good)
      PROVE  /\ y = <<y[1], y[2], y[3]>> /\ y[3] # "absent"
             /\ Found(conf, y[2]) /\ Subject(conf, y[2]) = l /\ NamesOf(l) = p
             /\ \A z \in OfValue(r, l, good) : y[2] = z[2] => y = z
  <2>1. l \in DOMAIN conf /\ l \in Looks(p)
    BY <1>2
  <2>2. /\ y = <<y[1], y[2], y[3]>> /\ y[3] \in {"type", "length", "ok", "range"}
        /\ Found(conf, y[2]) /\ Subject(conf, y[2]) = l
        /\ \A z \in OfValue(r, l, good) : y[2] = z[2] => y = z
    BY <1>2, <2>1, ValueLines
  <2>3. NamesOf(l) = p
    BY <2>1, LooksThere
  <2> QED
    BY <2>2, <2>3
<1>3. ASSUME NEW l \in absent
      PROVE  ~Found(conf, Whole(l)) /\ Subject(conf, Whole(l)) = l /\ NamesOf(l) = p
  <2>1. l \notin DOMAIN conf /\ l \in Looks(p)
    BY <1>3
  <2> QED
    BY <2>1, AbsentLine, LooksThere
<1>4. CASE \E l \in there : x \in OfValue(r, l, good)
  <2>1. PICK l \in there : x \in OfValue(r, l, good)
    BY <1>4
  <2>2. /\ x = <<x[1], x[2], x[3]>> /\ x[3] # "absent"
        /\ Found(conf, x[2]) /\ Subject(conf, x[2]) = l /\ NamesOf(l) = p
    BY <1>2, <2>1
  <2>3. ASSUME NEW y \in Says(r, there, absent, good), x[2] = y[2] PROVE x = y
    <3>1. CASE \E m \in there : y \in OfValue(r, m, good)
      <4>1. PICK m \in there : y \in OfValue(r, m, good)
        BY <3>1
      <4>2. Subject(conf, y[2]) = m
        BY <1>2, <4>1
      <4>3. m = l
        BY <2>2, <2>3, <4>2
      <4> QED
        BY <1>2, <2>1, <2>3, <4>1, <4>3
    <3>2. CASE \E m \in absent : y = Missing(m)
      <4>1. PICK m \in absent : y = Missing(m)
        BY <3>2
      <4>2. y[2] = Whole(m)
        BY <4>1
      <4> QED
        BY <1>3, <2>2, <2>3, <4>2
    <3> QED
      BY <1>1, <3>1, <3>2
  <2> QED
    BY <2>2, <2>3
<1>5. CASE \E l \in absent : x = Missing(l)
  <2>1. PICK l \in absent : x = Missing(l)
    BY <1>5
  <2>2. x[1] = l /\ x[2] = Whole(l) /\ x[3] = "absent"
    BY <2>1
  <2>3. ~Found(conf, x[2]) /\ Subject(conf, x[2]) = l /\ NamesOf(l) = p
    BY <1>3, <2>2
  <2>4. ASSUME NEW y \in Says(r, there, absent, good), x[2] = y[2] PROVE x = y
    <3>1. CASE \E m \in there : y \in OfValue(r, m, good)
      BY <1>2, <2>3, <2>4, <3>1
    <3>2. CASE \E m \in absent : y = Missing(m)
      <4>1. PICK m \in absent : y = Missing(m)
        BY <3>2
      <4>2. y[2] = Whole(m) /\ Subject(conf, Whole(m)) = m
        BY <1>3, <4>1
      <4>3. m = l
        BY <2>3, <2>4, <4>2
      <4> QED
        BY <2>1, <4>1, <4>3
    <3> QED
      BY <1>1, <3>1, <3>2
  <2> QED
    BY <2>1, <2>2, <2>3, <2>4
<1> QED
  BY <1>1, <1>4, <1>5

\* The lines about one value.
LEMMA LinesOfOne ==
    ASSUME PlainNames, TreeInv, NEW p \in Seq(Names), p # <<>>, NEW r, NEW good,
           NEW there, there \subseteq Looks(p) \cap DOMAIN conf,
           NEW absent, absent \subseteq Looks(p) \ DOMAIN conf,
           NEW l \in there
    PROVE  {x \in Says(r, there, absent, good) : Subject(conf, x[2]) = l} = OfValue(r, l, good)
<1>1. ASSUME NEW m \in there, NEW x \in OfValue(r, m, good) PROVE Subject(conf, x[2]) = m
  BY <1>1, ValueLines
<1>2. ASSUME NEW m \in absent PROVE Subject(conf, Whole(m)) = m /\ m # l
  <2>1. m \in Looks(p) /\ m \notin DOMAIN conf
    BY <1>2
  <2> QED
    BY <2>1, AbsentLine
<1>3. ASSUME NEW x \in Says(r, there, absent, good), Subject(conf, x[2]) = l
      PROVE  x \in OfValue(r, l, good)
  <2>1. CASE x \in OfValues(r, there, good)
    BY <1>1, <1>3, <2>1 DEF OfValues
  <2>2. CASE x \in OfAbsent(absent)
    <3>1. PICK m \in absent : x = <<m, Whole(m), "absent">>
      BY <2>2 DEF OfAbsent
    <3>2. x[2] = Whole(m)
      BY <3>1
    <3> QED
      BY <1>2, <1>3, <3>2
  <2> QED
    BY <1>3, <2>1, <2>2 DEF Says
<1>4. ASSUME NEW x \in OfValue(r, l, good) PROVE x \in Says(r, there, absent, good)
  BY <1>4 DEF Says, OfValues
<1> QED
  BY <1>1, <1>3, <1>4

\* Lines of different paths are counted once each.
LEMMA CountedOnce ==
    ASSUME NEW new, \A x \in new : \A y \in new : x[2] = y[2] => x = y,
           NEW y \in {Line(x) : x \in new}
    PROVE  Cardinality({x \in new : Line(x) = y}) = 1
<1>1. PICK z \in new : y = Line(z)
  OBVIOUS
<1>2. ASSUME NEW x \in new, Line(x) = y PROVE x = z
  BY <1>1, <1>2 DEF Line
<1>3. {x \in new : Line(x) = y} = {z}
  BY <1>1, <1>2
<1> QED
  BY <1>3, FS_Singleton

-----------------------------------------------------------------------------
(* The scanner of intervals                                                  *)

LEMMA FirstIs ==
    ASSUME NEW x, Len(x) \in Nat, NEW k \in Nat, NEW S, NEW p \in k .. Len(x),
           x[p] \in S, \A i \in k .. p - 1 : x[i] \notin S
    PROVE  First(x, k, S) = p
<1> DEFINE places == {i \in k .. Len(x) : x[i] \in S}
<1>1. p \in places /\ \A i \in places : p <= i
  OBVIOUS
<1>2. Min(places) = p
  <2>1. \A m \in places : (\A i \in places : m <= i) => m = p
    BY <1>1
  <2> HIDE DEF places
  <2> QED
    BY <1>1, <2>1 DEF Min
<1> QED
  BY <1>1, <1>2 DEF First

\* A number that ends the stretch is found; blanks alone give no part.
LEMMA PartRead ==
    ASSUME NEW T, NEW x \in Seq(T), NEW from \in Nat \ {0}, NEW to \in Nat, to <= Len(x),
           from <= to + 1,
           NEW Of, Blank \notin DOMAIN Of, NEW inbound,
           \A k \in from .. to : x[k] = Blank \/ (k = to /\ x[k] \in DOMAIN Of)
    PROVE  PartOf(x, from, to, Of, inbound) =
             IF from <= to /\ x[to] \in DOMAIN Of
               THEN [r |-> "found", part |-> [has |-> TRUE, inbound |-> inbound, is |-> Of[x[to]]]]
               ELSE [r |-> "not found", part |-> NoPart]
<1>1. PICK blanks, rest :
        /\ blanks = {k \in from .. to : \A i \in from .. k : x[i] = Blank}
        /\ rest = SubSeq(x, from + Cardinality(blanks), to)
  OBVIOUS
<1>2. PartOf(x, from, to, Of, inbound) =
        CASE rest = <<>> -> [r |-> "not found", part |-> NoPart]
          [] Len(rest) = 1 /\ rest[1] \in DOMAIN Of ->
               [r |-> "found", part |-> [has |-> TRUE, inbound |-> inbound, is |-> Of[rest[1]]]]
          [] OTHER -> [r |-> "invalid", part |-> NoPart]
  BY <1>1 DEF PartOf
<1>3. CASE from <= to /\ x[to] \in DOMAIN Of
  <2>1. blanks = from .. to - 1
    BY <1>1, <1>3
  <2>2. Cardinality(blanks) = to - from
    BY <1>3, <2>1, FS_Interval
  <2>3. from + Cardinality(blanks) = to
    BY <2>2
  <2>4. rest = SubSeq(x, to, to)
    BY <1>1, <2>3
  <2>5. to \in 1 .. Len(x) /\ \A i \in to .. to : x[i] \in T
    BY <1>3
  <2>6. Len(rest) = 1 /\ rest[1] = x[to]
    BY <2>4, <2>5, SubSeqProperties
  <2>7. rest # <<>>
    BY <2>6
  <2> QED
    BY <1>2, <1>3, <2>6, <2>7
<1>4. CASE ~(from <= to /\ x[to] \in DOMAIN Of)
  <2>1. \A k \in from .. to : x[k] = Blank
    BY <1>4
  <2>2. blanks = from .. to
    BY <1>1, <2>1
  <2>3. Cardinality(blanks) = to - from + 1
    <3>1. from \in Int /\ to \in Int
      OBVIOUS
    <3>2. Cardinality(from .. to) = IF from > to THEN 0 ELSE to - from + 1
      BY <3>1, FS_Interval
    <3> QED
      BY <1>4, <2>2, <3>1, <3>2
  <2>4. from + Cardinality(blanks) = to + 1
    BY <2>3
  <2>5. rest = SubSeq(x, to + 1, to)
    BY <1>1, <2>4
  <2>6. rest = <<>>
    BY <2>5, SubSeqEmpty
  <2>7. Len(rest) # 1
    BY <2>6, EmptySeq
  <2>8. PartOf(x, from, to, Of, inbound) = [r |-> "not found", part |-> NoPart]
    BY <1>2, <2>6, <2>7
  <2> QED
    BY <1>4, <2>8
<1> QED
  BY <1>3, <1>4

LEMMA MarksApart ==
    /\ Opening \cap Closing = {} /\ Comma # Blank
    /\ Comma \notin Opening \cup Closing /\ Blank \notin Opening \cup Closing
    /\ \A Of \in {IntegerOf, RealOf} :
         \A m \in Opening \cup Closing \cup {Comma, Blank} : m \notin DOMAIN Of
<1>1. /\ Opening \cap Closing = {} /\ Comma # Blank
      /\ Comma \notin Opening \cup Closing /\ Blank \notin Opening \cup Closing
  BY Zenon DEF Opening, Closing, Comma, Blank
<1> QED
  BY <1>1, SchemaAssumption

\* The scanner reads what is well formed as it is meant.
LEMMA ScansRight ==
    ASSUME NEW Of \in {IntegerOf, RealOf}, NEW s, WellFormed(s, Of)
    PROVE  /\ Scan(s, Of).r
           /\ \A n \in Int : Inside(n, Scan(s, Of).is) = Within(n, s, Of)
           /\ Range(Text[s]) \cap Closing \subseteq Square =>
                \A n \in Int : InsideReal(n, Scan(s, Of).is) = Within(n, s, Of)
<1>1. PICK x : x = Text[s]
  OBVIOUS
<1>2. PICK a \in DOMAIN x, c \in DOMAIN x :
        /\ a < c /\ x[a] \in Opening /\ x[c] \in Closing
        /\ \A k \in DOMAIN x \ (a .. c) : x[k] = Blank
        /\ \A k \in a + 1 .. c - 1 :
             \/ x[k] \in {Comma, Blank}
             \/ x[k] \in DOMAIN Of /\ x[k + 1] \in Closing \cup {Comma}
        /\ \A j, k \in a .. c : x[j] = Comma /\ x[k] = Comma => j = k
        /\ \E k \in a .. c : x[k] \in DOMAIN Of
  BY <1>1 DEF WellFormed
<1>3. PICK T : x \in Seq(T)
  <2>1. s \in DOMAIN Text
    BY DEF WellFormed
  <2> QED
    BY <1>1, <2>1, SchemaAssumption
<1>4. /\ Len(x) \in Nat /\ DOMAIN x = 1 .. Len(x)
      /\ a \in Nat \ {0} /\ c \in Nat /\ a < c /\ c <= Len(x)
  <2>1. Len(x) \in Nat /\ DOMAIN x = 1 .. Len(x)
    BY <1>3, LenProperties
  <2>2. a \in 1 .. Len(x) /\ c \in 1 .. Len(x) /\ a < c
    BY <1>2, <2>1
  <2> QED
    BY <2>1, <2>2
<1>5. /\ Opening \cap Closing = {} /\ Comma # Blank
      /\ Comma \notin Opening \cup Closing /\ Blank \notin Opening \cup Closing
      /\ \A m \in Opening \cup Closing \cup {Comma, Blank} : m \notin DOMAIN Of
      /\ \A n \in DOMAIN Of : Of[n] \in Int
  BY MarksApart, ValuesAssumption
<1>6. PICK m : /\ m \in a + 1 .. c /\ (m < c => x[m] = Comma)
               /\ \A k \in a .. c : x[k] = Comma => k = m /\ m < c
  <2>1. CASE \E k \in a .. c : x[k] = Comma
    <3>1. PICK k \in a .. c : x[k] = Comma
      BY <2>1
    <3>2. k # a /\ k # c
      BY <1>2, <1>5, <3>1
    <3>3. k \in a + 1 .. c /\ k < c
      BY <1>4, <3>1, <3>2
    <3>4. \A j \in a .. c : x[j] = Comma => j = k
      BY <1>2, <3>1
    <3> QED
      BY <3>1, <3>3, <3>4
  <2>2. CASE ~\E k \in a .. c : x[k] = Comma
    <3>1. c \in a + 1 .. c /\ ~(c < c)
      BY <1>4
    <3> QED
      BY <2>2, <3>1
  <2> QED
    BY <2>1, <2>2
<1>7. /\ a \in Nat \ {0} /\ c \in Nat /\ m \in Nat /\ a < m /\ m <= c /\ c <= Len(x)
      /\ a \in Int /\ c \in Int /\ m \in Int
  <2>1. m \in a + 1 .. c
    BY <1>6
  <2> QED
    BY <1>4, <2>1
<1>8. x[m] \in Closing \cup {Comma}
  BY <1>2, <1>6, <1>7
\* What stands between the marks.
<1>9. \A k \in a + 1 .. m - 1 : x[k] = Blank \/ (k = m - 1 /\ x[k] \in DOMAIN Of)
  <2>1. SUFFICES ASSUME NEW k \in a + 1 .. m - 1, x[k] # Blank
                 PROVE  k = m - 1 /\ x[k] \in DOMAIN Of
    BY <1>7
  <2>2. k \in a + 1 .. c - 1 /\ k \in a .. c /\ k # m /\ k + 1 \in a .. m /\ k + 1 \in a .. c
    BY <1>7, <2>1
  <2>3. x[k] # Comma
    BY <1>6, <2>2
  <2>4. x[k] \in DOMAIN Of /\ x[k + 1] \in Closing \cup {Comma}
    BY <1>2, <2>1, <2>2, <2>3
  <2>5. k + 1 = m
    <3>1. ASSUME k + 1 # m PROVE FALSE
      <4>1. k + 1 \in a + 1 .. c - 1 /\ x[k + 1] # Comma
        BY <1>6, <1>7, <2>2, <3>1
      <4> QED
        BY <1>2, <1>5, <2>4, <4>1
    <3> QED
      BY <3>1
  <2> QED
    BY <1>7, <2>4, <2>5
<1>10. \A k \in m + 1 .. c - 1 : x[k] = Blank \/ (k = c - 1 /\ x[k] \in DOMAIN Of)
  <2>1. SUFFICES ASSUME NEW k \in m + 1 .. c - 1, x[k] # Blank
                 PROVE  k = c - 1 /\ x[k] \in DOMAIN Of
    BY <1>7
  <2>2. k \in a + 1 .. c - 1 /\ k \in a .. c /\ k # m /\ k + 1 \in a .. c
    BY <1>7, <2>1
  <2>3. x[k] # Comma
    BY <1>6, <2>2
  <2>4. x[k] \in DOMAIN Of /\ x[k + 1] \in Closing \cup {Comma}
    BY <1>2, <2>1, <2>2, <2>3
  <2>5. k + 1 = c
    <3>1. ASSUME k + 1 # c PROVE FALSE
      <4>1. k + 1 \in a + 1 .. c - 1 /\ k + 1 # m /\ x[k + 1] # Comma
        BY <1>6, <1>7, <2>1, <2>2, <3>1
      <4> QED
        BY <1>2, <1>5, <2>4, <4>1
    <3> QED
      BY <3>1
  <2> QED
    BY <1>7, <2>4, <2>5
\* The marks are found where they are.
<1>11. First(x, 1, Opening) = a
  <2>1. \A i \in 1 .. a - 1 : x[i] \notin Opening
    <3>1. \A i \in 1 .. a - 1 : i \in DOMAIN x \ (a .. c)
      BY <1>4, <1>7
    <3> QED
      BY <1>2, <1>5, <3>1
  <2>2. a \in 1 .. Len(x)
    BY <1>4
  <2> QED
    BY <1>2, <1>4, <2>1, <2>2, FirstIs
<1>12. First(x, a + 1, Closing \cup {Comma}) = m
  <2>1. \A i \in a + 1 .. m - 1 : x[i] \notin Closing \cup {Comma}
    BY <1>5, <1>9
  <2>2. m \in a + 1 .. Len(x) /\ a + 1 \in Nat
    BY <1>7
  <2>3. x[m] \in Closing \cup {Comma}
    BY <1>8
  <2> QED
    BY <1>4, <2>1, <2>2, <2>3, FirstIs
<1>13. m < c => First(x, m + 1, Closing) = c
  <2>1. SUFFICES ASSUME m < c PROVE First(x, m + 1, Closing) = c
    OBVIOUS
  <2>2. \A i \in m + 1 .. c - 1 : x[i] \notin Closing
    BY <1>5, <1>10
  <2>3. c \in m + 1 .. Len(x) /\ m + 1 \in Nat
    BY <1>6, <1>7, <2>1
  <2> QED
    BY <1>2, <1>4, <2>2, <2>3, FirstIs
<1> DEFINE lo == a + 1 <= m - 1 /\ x[m - 1] \in DOMAIN Of
           up == m < c /\ m + 1 <= c - 1 /\ x[c - 1] \in DOMAIN Of
<1>14. lo \/ up
  <2>1. PICK k \in a .. c : x[k] \in DOMAIN Of
    BY <1>2
  <2>2. k # a /\ k # c /\ k # m /\ x[k] # Blank
    BY <1>2, <1>5, <1>8, <2>1
  <2>3. k \in a + 1 .. m - 1 \/ k \in m + 1 .. c - 1
    BY <1>7, <2>2
  <2>4. ASSUME k \in a + 1 .. m - 1 PROVE lo
    BY <1>7, <1>9, <2>1, <2>2, <2>4
  <2>5. ASSUME k \in m + 1 .. c - 1 PROVE up
    <3>1. k = c - 1 /\ m < c
      BY <1>7, <1>10, <2>2, <2>5
    <3> QED
      BY <1>6, <1>7, <2>1, <2>5, <3>1
  <2> QED
    BY <2>3, <2>4, <2>5
\* So the scanner comes to the interval that is written there.
<1>15. (m < c) = (m <= Len(x) /\ x[m] = Comma)
  <2>1. m = c => x[m] # Comma
    BY <1>2, <1>5
  <2> QED
    BY <1>6, <1>7, <2>1
<1>16. PICK lower, upper, inl, inu :
         /\ inl = (x[a] \in Square) /\ inu = (x[c] \in Square)
         /\ lower = IF lo THEN [has |-> TRUE, inbound |-> inl, is |-> Of[x[m - 1]]]
                          ELSE NoPart
         /\ upper = IF up THEN [has |-> TRUE, inbound |-> inu, is |-> Of[x[c - 1]]]
                          ELSE NoPart
  OBVIOUS
<1> DEFINE Got(from, to, inbound) ==
      IF from <= to /\ x[to] \in DOMAIN Of
        THEN [r |-> "found", part |-> [has |-> TRUE, inbound |-> inbound, is |-> Of[x[to]]]]
        ELSE [r |-> "not found", part |-> NoPart]
<1>17. ASSUME NEW from \in Nat \ {0}, NEW to \in Nat, NEW inbound,
              to <= Len(x), from <= to + 1,
              \A k \in from .. to : x[k] = Blank \/ (k = to /\ x[k] \in DOMAIN Of)
       PROVE  PartOf(x, from, to, Of, inbound) = Got(from, to, inbound)
  BY <1>3, <1>5, <1>17, PartRead
<1>18. PartOf(x, a + 1, m - 1, Of, inl) =
         [r |-> IF lo THEN "found" ELSE "not found", part |-> lower]
  <2>1. /\ a + 1 \in Nat \ {0} /\ m - 1 \in Nat /\ m - 1 <= Len(x) /\ a + 1 <= (m - 1) + 1
        /\ Blank \notin DOMAIN Of
    BY <1>5, <1>7
  <2>2. PICK from, to : from = a + 1 /\ to = m - 1
    OBVIOUS
  <2>3. PartOf(x, from, to, Of, inl) = Got(from, to, inl)
    BY <1>9, <1>17, <2>1, <2>2
  <2> QED
    BY <1>16, <2>2, <2>3
<1>19. m < c => PartOf(x, m + 1, c - 1, Of, inu) =
                  [r |-> IF up THEN "found" ELSE "not found", part |-> upper]
  <2>1. SUFFICES ASSUME m < c
                 PROVE  PartOf(x, m + 1, c - 1, Of, inu) =
                          [r |-> IF up THEN "found" ELSE "not found", part |-> upper]
    OBVIOUS
  <2>2. /\ m + 1 \in Nat \ {0} /\ c - 1 \in Nat /\ c - 1 <= Len(x) /\ m + 1 <= (c - 1) + 1
        /\ Blank \notin DOMAIN Of
    BY <1>5, <1>6, <1>7, <2>1
  <2>3. PICK from, to : from = m + 1 /\ to = c - 1
    OBVIOUS
  <2>4. PartOf(x, from, to, Of, inu) = Got(from, to, inu)
    BY <1>10, <1>17, <2>2, <2>3
  <2> QED
    BY <1>16, <2>1, <2>3, <2>4
<1>20. \A i \in c + 1 .. Len(x) : x[i] = Blank
  <2>1. \A i \in c + 1 .. Len(x) : i \in DOMAIN x \ (a .. c)
    BY <1>4, <1>7
  <2> QED
    BY <1>2, <2>1
<1>21. Scan(s, Of) = ScanParts(x, a, m, c, Of)
  <2>1. CASE m < c
    BY <1>1, <1>7, <1>11, <1>12, <1>13, <1>15, <2>1 DEF Scan
  <2>2. CASE ~(m < c)
    <3>1. m = c
      BY <1>7, <2>2
    <3> QED
      BY <1>1, <1>7, <1>11, <1>12, <1>15, <2>2, <3>1 DEF Scan
  <2> QED
    BY <2>1, <2>2
<1>22. Scan(s, Of).r /\ Scan(s, Of).is.lower = lower /\ Scan(s, Of).is.upper = upper
  <2>1. PICK got : got = PartOf(x, a + 1, m - 1, Of, x[a] \in Square)
    OBVIOUS
  <2>2. got = [r |-> IF lo THEN "found" ELSE "not found", part |-> lower]
    BY <1>16, <1>18, <2>1
  <2>3. CASE m < c
    <3>1. PICK more : more = PartOf(x, m + 1, c - 1, Of, x[c] \in Square)
      OBVIOUS
    <3>2. more = [r |-> IF up THEN "found" ELSE "not found", part |-> upper]
      BY <1>16, <1>19, <2>3, <3>1
    <3>3. ScanParts(x, a, m, c, Of) =
            LET up1 == IF got.r # "invalid" THEN more
                                            ELSE [r |-> "not found", part |-> NoPart]
            IN  [r  |-> /\ "found" \in {got.r, up1.r}
                        /\ \A i \in c + 1 .. Len(x) : x[i] = Blank,
                 is |-> [lower |-> got.part, upper |-> up1.part]]
      BY <2>1, <2>3, <3>1, Zenon DEF ScanParts
    <3>4. got.r # "invalid" /\ "found" \in {got.r, more.r}
      BY <1>14, <2>2, <3>2
    <3>5. ScanParts(x, a, m, c, Of) =
            [r  |-> /\ "found" \in {got.r, more.r}
                    /\ \A i \in c + 1 .. Len(x) : x[i] = Blank,
             is |-> [lower |-> got.part, upper |-> more.part]]
      BY <3>3, <3>4
    <3>6. got.part = lower /\ more.part = upper
      BY <2>2, <3>2
    <3> QED
      BY <1>20, <1>21, <3>4, <3>5, <3>6
  <2>4. CASE ~(m < c)
    <3>1. ScanParts(x, a, m, c, Of) =
            [r  |-> /\ "found" \in {got.r, "not found"}
                    /\ \A i \in c + 1 .. Len(x) : x[i] = Blank,
             is |-> [lower |-> got.part, upper |-> NoPart]]
      BY <2>1, <2>4 DEF ScanParts
    <3>2. lo /\ upper = NoPart
      BY <1>14, <1>16, <2>4
    <3> QED
      BY <1>20, <1>21, <2>2, <3>1, <3>2
  <2> QED
    BY <2>3, <2>4
\* What is written there bounds a number from both sides, or from one.
<1>23. /\ (Range(x) \cap Opening \subseteq Square) = (x[a] \in Square)
       /\ (Range(x) \cap Closing \subseteq Square) = (x[c] \in Square)
  <2>1. \A k \in DOMAIN x : k # a /\ k # c => x[k] \notin Opening \cup Closing
    <3>1. SUFFICES ASSUME NEW k \in DOMAIN x, k # a, k # c PROVE x[k] \notin Opening \cup Closing
      OBVIOUS
    <3>2. CASE k \in a + 1 .. c - 1
      BY <1>2, <1>5, <3>2
    <3>3. CASE k \notin a + 1 .. c - 1
      <4>1. k \in DOMAIN x \ (a .. c)
        BY <1>4, <1>7, <3>1, <3>3
      <4> QED
        BY <1>2, <1>5, <4>1
    <3> QED
      BY <3>2, <3>3
  <2>2. Range(x) = {x[k] : k \in DOMAIN x}
    BY DEF Range
  <2>3. Range(x) \cap Opening = {x[a]}
    BY <1>2, <1>5, <2>1, <2>2
  <2>4. Range(x) \cap Closing = {x[c]}
    BY <1>2, <1>5, <2>1, <2>2
  <2> QED
    BY <2>3, <2>4
<1>24. ASSUME NEW k \in DOMAIN x, x[k] \in DOMAIN Of
       PROVE  \/ lo /\ k = m - 1 /\ ~\E j \in 1 .. k : x[j] = Comma
              \/ up /\ k = c - 1 /\ \E j \in 1 .. k : x[j] = Comma
  <2>1. x[k] # Blank /\ k # a /\ k # c /\ k # m
    BY <1>2, <1>5, <1>8, <1>24
  <2>2. k \in a .. c
    BY <1>2, <2>1, <1>24
  <2>3. CASE k < m
    <3>1. k \in a + 1 .. m - 1
      BY <1>7, <2>1, <2>2, <2>3
    <3>2. k = m - 1 /\ lo
      BY <1>7, <1>9, <1>24, <2>1, <3>1
    <3>3. ASSUME NEW j \in 1 .. k PROVE x[j] # Comma
      <4>1. CASE j \in a .. c
        BY <1>6, <1>7, <2>3, <3>3, <4>1
      <4>2. CASE j \notin a .. c
        <5>1. j \in DOMAIN x \ (a .. c)
          BY <1>4, <1>24, <3>3, <4>2
        <5> QED
          BY <1>2, <1>5, <5>1
      <4> QED
        BY <4>1, <4>2
    <3> QED
      BY <3>2, <3>3
  <2>4. CASE m < k
    <3>1. k \in m + 1 .. c - 1
      BY <1>7, <2>1, <2>2, <2>4
    <3>2. k = c - 1 /\ m < c /\ x[m] = Comma
      BY <1>6, <1>7, <1>10, <2>1, <3>1
    <3>3. m \in 1 .. k
      BY <1>7, <3>1
    <3> QED
      BY <1>7, <1>24, <3>1, <3>2, <3>3
  <2> QED
    BY <1>7, <2>1, <2>2, <2>3, <2>4
<1>25. ASSUME NEW n \in Int
       PROVE  Within(n, s, Of) =
                /\ lo => n > Of[x[m - 1]] \/ (x[a] \in Square /\ n = Of[x[m - 1]])
                /\ up => n < Of[x[c - 1]] \/ (x[c] \in Square /\ n = Of[x[c - 1]])
  <2>1. Within(n, s, Of) =
          \A k \in {k \in DOMAIN x : x[k] \in DOMAIN Of} :
            IF \E j \in 1 .. k : x[j] = Comma
              THEN n < Of[x[k]] \/ (x[c] \in Square /\ n = Of[x[k]])
              ELSE n > Of[x[k]] \/ (x[a] \in Square /\ n = Of[x[k]])
    BY <1>1, <1>23 DEF Within
  <2>2. lo => m - 1 \in DOMAIN x /\ x[m - 1] \in DOMAIN Of
    BY <1>4, <1>7
  <2>3. up => c - 1 \in DOMAIN x /\ x[c - 1] \in DOMAIN Of
    BY <1>4, <1>7
  <2>4. lo => ~\E j \in 1 .. m - 1 : x[j] = Comma
    <3>1. m - 1 # c - 1 \/ ~up
      BY <1>6
    <3> QED
      BY <1>7, <1>24, <2>2, <3>1
  <2>5. up => \E j \in 1 .. c - 1 : x[j] = Comma
    <3>1. m - 1 # c - 1 \/ ~up
      BY <1>6
    <3> QED
      BY <1>7, <1>24, <2>3, <3>1
  <2>6. ASSUME Within(n, s, Of)
        PROVE  /\ lo => n > Of[x[m - 1]] \/ (x[a] \in Square /\ n = Of[x[m - 1]])
               /\ up => n < Of[x[c - 1]] \/ (x[c] \in Square /\ n = Of[x[c - 1]])
    BY <2>1, <2>2, <2>3, <2>4, <2>5, <2>6
  <2>7. ASSUME lo => n > Of[x[m - 1]] \/ (x[a] \in Square /\ n = Of[x[m - 1]]),
               up => n < Of[x[c - 1]] \/ (x[c] \in Square /\ n = Of[x[c - 1]])
        PROVE  Within(n, s, Of)
    BY <1>24, <2>1, <2>7
  <2>8. Within(n, s, Of) \in BOOLEAN
    BY <2>1
  <2> QED
    BY <2>6, <2>7, <2>8
<1>26. /\ lo => Of[x[m - 1]] \in Int
       /\ up => Of[x[c - 1]] \in Int
  BY <1>5
<1>27. /\ lower.has <=> lo
       /\ lo => lower.is = Of[x[m - 1]] /\ (lower.inbound <=> x[a] \in Square)
  BY <1>16 DEF NoPart
<1>28. /\ upper.has <=> up
       /\ up => upper.is = Of[x[c - 1]] /\ (upper.inbound <=> x[c] \in Square)
  BY <1>16 DEF NoPart
<1> HIDE DEF lo, up
<1>29. ASSUME NEW n \in Int PROVE Inside(n, Scan(s, Of).is) = Within(n, s, Of)
  <2>1. Within(n, s, Of) =
           /\ lo => n > Of[x[m - 1]] \/ (x[a] \in Square /\ n = Of[x[m - 1]])
           /\ up => n < Of[x[c - 1]] \/ (x[c] \in Square /\ n = Of[x[c - 1]])
    BY <1>25
  <2>2. Inside(n, Scan(s, Of).is) =
           /\ lower.has => n > lower.is \/ (lower.inbound /\ n = lower.is)
           /\ upper.has => n < upper.is \/ (upper.inbound /\ n = upper.is)
    BY <1>22 DEF Inside
  <2> QED
    BY <1>26, <1>27, <1>28, <2>1, <2>2
<1>30. ASSUME NEW n \in Int, Range(Text[s]) \cap Closing \subseteq Square
       PROVE  InsideReal(n, Scan(s, Of).is) = Within(n, s, Of)
  <2>1. Within(n, s, Of) =
           /\ lo => n > Of[x[m - 1]] \/ (x[a] \in Square /\ n = Of[x[m - 1]])
           /\ up => n < Of[x[c - 1]] \/ (x[c] \in Square /\ n = Of[x[c - 1]])
    BY <1>25
  <2>2. x[c] \in Square
    BY <1>1, <1>23, <1>30
  <2>3. InsideReal(n, Scan(s, Of).is) =
           /\ lower.has => n > lower.is \/ (lower.inbound /\ n = lower.is)
           /\ upper.has => n <= upper.is /\ (upper.inbound \/ n # lower.is)
    BY <1>22 DEF InsideReal
  <2> QED
    BY <1>26, <1>27, <1>28, <2>1, <2>2, <2>3
<1> QED
  BY <1>22, <1>29, <1>30

-----------------------------------------------------------------------------
(* What a declaration asks for, and its range                                *)

\* A required parameter.
Needed(d) == /\ Has(d, "required")
             /\ \E x \in Read(Field(d, "required"), 0, "integer") : x # 0

LEMMA RangeNeeded ==
    ASSUME NEW d, NEW r \in RangeOf(d)
    PROVE  r.required = Needed(d)
<1>1. PICK kind, of, allows :
        r = [kind |-> kind, type |-> of, allows |-> allows, size |-> SizeOf(d),
             required |-> Needed(d)]
  BY Zenon DEF RangeOf, Needed
<1> QED
  BY <1>1

\* What a JSON node is read as.
LEMMA NodeRead ==
    ASSUME NEW node, IsNode(node), NEW v, v = FromJson(node)
    PROVE  /\ v.len \in Nat /\ DOMAIN v.at = 1 .. v.len
           /\ v.valid = (v.type # "none")
           /\ v.type \in {"integer", "string"} => v.len > 0
           /\ v.type \in {"integer", "real"} => \A i \in 1 .. v.len : v.at[i] \in Int
           /\ v.type = "integer" => \A i \in 1 .. v.len : v.at[i] % Unit = 0
<1>1. /\ Len(node.at) \in Nat /\ DOMAIN node.at = 1 .. Len(node.at)
      /\ \A i \in DOMAIN node.at :
           /\ node.at[i].kind \in {"integer", "real"} => node.at[i].is \in Int
           /\ node.at[i].kind = "integer" => node.at[i].is % Unit = 0
  BY DEF IsNode
<1>2. /\ v.type = TypeOf(node) /\ v.len = Len(node.at)
  BY FromJsonIs
<1>3. /\ v.valid = (TypeOf(node) # "none")
      /\ v.at = [i \in DOMAIN node.at |-> Content(node.at[i])]
  BY DEF FromJson, NewValue
<1>4. PICK ks : ks = Kinds(node)
  OBVIOUS
<1>5. v.type = "integer" => ks = {"integer"} \/ (ks # {} /\ ks \subseteq {"true", "false"})
  BY <1>2, <1>4 DEF TypeOf
<1>6. v.type = "string" => ks = {"string"}
  BY <1>2, <1>4 DEF TypeOf
<1>7. v.type = "real" => ks \subseteq {"integer", "real"}
  BY <1>2, <1>4 DEF TypeOf
<1>8. \A i \in DOMAIN node.at : node.at[i].kind \in ks
  BY <1>4 DEF Kinds
<1>9. ks # {} => v.len > 0
  <2>1. ks = {node.at[i].kind : i \in DOMAIN node.at}
    BY <1>4 DEF Kinds
  <2> QED
    BY <1>1, <1>2, <2>1
<1>10. Unit \in Nat \ {0} /\ 0 % Unit = 0 /\ Unit % Unit = 0
  BY ValuesAssumption
<1>11. ASSUME NEW i \in DOMAIN node.at, v.type \in {"integer", "real"}
       PROVE  v.at[i] \in Int /\ (v.type = "integer" => v.at[i] % Unit = 0)
  <2>1. v.at[i] = Content(node.at[i]) /\ node.at[i].kind \in ks
    BY <1>3, <1>8, <1>11
  <2>2. CASE node.at[i].kind \in {"integer", "real"}
    <3>1. v.at[i] = node.at[i].is
      BY <2>1, <2>2 DEF Content
    <3>2. v.type = "integer" => node.at[i].kind = "integer"
      BY <1>5, <2>1, <2>2
    <3> QED
      BY <1>1, <2>2, <3>1, <3>2
  <2>3. CASE node.at[i].kind \in {"true", "false"}
    <3>1. v.at[i] \in {0, Unit}
      BY <2>1, <2>3 DEF Content
    <3> QED
      BY <1>10, <3>1
  <2> QED
    BY <1>5, <1>7, <1>11, <2>1, <2>2, <2>3
<1> QED
  BY <1>1, <1>2, <1>3, <1>5, <1>6, <1>9, <1>11

\* The range r that is made of a declaration d with this word for a type and this
\* value of "range".
MadeOf(d, r, word, v) ==
    /\ r.size = SizeOf(d) /\ word \in DOMAIN DeclaredTypes
    /\ \/ /\ word # "bool" /\ ~Has(d, "range")
          /\ r.kind = "base" /\ r.type = DeclaredTypes[word]
       \/ /\ word = "bool" /\ r.kind = "enum" /\ r.type = "integer"
          /\ r.allows = [ints |-> <<Unit, 0>>, names |-> <<>>]
       \/ /\ word # "bool" /\ Has(d, "range") /\ v.type = "integer"
          /\ r.kind = "enum" /\ r.type = "integer"
          /\ r.allows = [ints  |-> [i \in DOMAIN v.at |-> Narrow(v.at[i])],
                         names |-> AliasOf(d, v.len)]
       \/ /\ word = "int" /\ Has(d, "range") /\ v.type = "string"
          /\ r.kind = "int" /\ r.type = DeclaredTypes[word]
          /\ r.allows = Intervals(v, IntegerOf)
       \/ /\ word = "real" /\ Has(d, "range") /\ v.type = "string"
          /\ r.kind = "real" /\ r.type = DeclaredTypes[word]
          /\ r.allows = Intervals(v, RealOf)
       \/ /\ word = "string" /\ Has(d, "range") /\ v.type = "string"
          /\ r.kind = "re" /\ r.type = DeclaredTypes[word]
          /\ r.allows = Range(v.at) \cap DOMAIN Matches

\* What range_factory::create makes, case by case.
LEMMA RangeMade ==
    ASSUME NEW d, NEW r \in RangeOf(d)
    PROVE  MadeOf(d, r, Field(d, "type").at[1], Field(d, "range"))
<1> SUFFICES ASSUME NEW word, word = Field(d, "type").at[1], NEW v, v = Field(d, "range")
             PROVE  MadeOf(d, r, word, v)
  OBVIOUS
<1> DEFINE Made(kind, of, allows) ==
      [kind |-> kind, type |-> of, allows |-> allows, size |-> SizeOf(d), required |-> Needed(d)]
<1>1. word \in DOMAIN DeclaredTypes
  BY DEF RangeOf
<1>2. CASE word # "bool" /\ ~Has(d, "range")
  <2>1. r = Made("base", DeclaredTypes[word], <<>>)
    BY <1>1, <1>2, Zenon DEF RangeOf, Needed
  <2> QED
    BY <1>1, <1>2, <2>1 DEF MadeOf
<1>3. CASE word = "bool"
  <2>1. r = Made("enum", "integer", [ints |-> <<Unit, 0>>, names |-> <<>>])
    BY <1>1, <1>3 DEF RangeOf, Needed
  <2> QED
    BY <1>1, <1>3, <2>1 DEF MadeOf
<1>4. CASE word # "bool" /\ Has(d, "range")
  <2>1. r \in CASE word = "bool" -> {}
                [] word # "bool" /\ v.valid /\ v.type = "integer" ->
                     {Made("enum", "integer", [ints  |-> [i \in DOMAIN v.at |-> Narrow(v.at[i])],
                                               names |-> AliasOf(d, v.len)])}
                [] word = "int" /\ v.valid /\ v.type = "string" ->
                     {Made("int", DeclaredTypes[word], Intervals(v, IntegerOf))}
                [] word = "real" /\ v.valid /\ v.type = "string" ->
                     {Made("real", DeclaredTypes[word], Intervals(v, RealOf))}
                [] word = "string" /\ v.valid /\ v.type = "string" ->
                     {Made("re", DeclaredTypes[word], Range(v.at) \cap DOMAIN Matches)}
                [] OTHER -> {}
    BY <1>1, <1>4 DEF RangeOf, Needed
  <2> HIDE DEF Made
  <2>2. \/ /\ v.type = "integer"
           /\ r = Made("enum", "integer", [ints  |-> [i \in DOMAIN v.at |-> Narrow(v.at[i])],
                                           names |-> AliasOf(d, v.len)])
        \/ /\ word = "int" /\ v.type = "string"
           /\ r = Made("int", DeclaredTypes[word], Intervals(v, IntegerOf))
        \/ /\ word = "real" /\ v.type = "string"
           /\ r = Made("real", DeclaredTypes[word], Intervals(v, RealOf))
        \/ /\ word = "string" /\ v.type = "string"
           /\ r = Made("re", DeclaredTypes[word], Range(v.at) \cap DOMAIN Matches)
    BY <1>4, <2>1
  <2> QED
    BY <1>1, <1>4, <2>2 DEF Made, MadeOf
<1> QED
  BY <1>2, <1>3, <1>4

LEMMA NarrowIs == ASSUME NEW x \in Ints PROVE Narrow(x) = x
<1>1. IntEnd \in Nat \ {0} /\ x \in Int /\ -IntEnd <= x /\ x < IntEnd
  BY SchemaAssumption DEF Ints
<1>2. PICK a, m : a = x + IntEnd /\ m = 2 * IntEnd
  OBVIOUS
<1>3. a \in Nat /\ m \in Nat \ {0} /\ a < m
  BY <1>1, <1>2
<1>4. a % m = a
  BY <1>3
<1> QED
  BY <1>1, <1>2, <1>4 DEF Narrow

\* A size is an int, or a text that is plainly an interval or plainly none.
PlainSize(v) ==
    /\ v.type = "integer" => v.at[1] \in Ints
    /\ v.type = "string" => WellFormed(v.at[1], IntegerOf) \/ ~Scan(v.at[1], IntegerOf).r

PlainSizes ==
    \A schema \in Schemas : \A p \in DOMAIN schema :
      Has(schema[p], "size") => PlainSize(Field(schema[p], "size"))

\* A declaration in a schema.
Declares(d) == /\ \A f \in DOMAIN d : IsNode(d[f])
               /\ Has(d, "size") => PlainSize(Field(d, "size"))

\* Numbers are counted in parts of one.
LEMMA Units ==
    ASSUME NEW x \in Int, x % Unit = 0, NEW n \in Nat
    PROVE  (n * Unit = x) <=> n = x \div Unit
<1>1. Unit \in Nat /\ Unit > 0
  BY ValuesAssumption
<1>2. PICK q \in Int : x = q * Unit /\ q = x \div Unit
  <2>1. x = (x \div Unit) * Unit /\ x \div Unit \in Int
    BY <1>1
  <2> QED
    BY <2>1
<1>3. \A a, b \in Int : a * Unit = b * Unit => a = b
  BY <1>1
<1> QED
  BY <1>2, <1>3

\* The length a range asks for is the one that is declared.
LEMMA SizeMeant ==
    ASSUME NEW d, Declares(d), NEW n \in Nat
    PROVE  /\ SizeOf(d).len \in Nat /\ (~Has(d, "size") => SizeOf(d).len # 0)
           /\ LengthAsked(d, n) <=> IF SizeOf(d).len # 0 THEN n = SizeOf(d).len
                                     ELSE Inside(n * Unit, SizeOf(d).lens)
<1>1. PICK v : v = Field(d, "size")
  OBVIOUS
<1>2. n * Unit \in Int /\ Unit \in Nat \ {0}
  BY ValuesAssumption
<1>3. Inside(n * Unit, Everything)
  BY DEF Inside, Everything, NoPart
<1>4. CASE ~Has(d, "size")
  <2>1. SizeOf(d).len = 1
    BY <1>4 DEF SizeOf
  <2>2. LengthAsked(d, n) <=> n = 1
    BY <1>4 DEF LengthAsked
  <2> QED
    BY <2>1, <2>2
<1>5. CASE Has(d, "size")
  <2>1. IsNode(d["size"]) /\ v = FromJson(d["size"]) /\ PlainSize(v)
    BY <1>1, <1>5 DEF Declares, Has, Field
  <2>2. CASE v.type = "integer"
    <3>1. PICK x : x = v.at[1]
      OBVIOUS
    <3>2. x \in Ints /\ x % Unit = 0 /\ x \in Int
      BY <2>1, <2>2, <3>1, NodeRead DEF PlainSize
    <3>3. PICK most : most = Max({0, x})
      OBVIOUS
    <3>4. most = IF x > 0 THEN x ELSE 0
      BY <3>2, <3>3 DEF Max
    <3>5. SizeOf(d).len = most \div Unit /\ SizeOf(d).lens = Everything
      <4>1. Narrow(x) = x
        BY <3>2, NarrowIs
      <4>2. SizeOf(d) = [len |-> most \div Unit, lens |-> Everything]
        BY <1>1, <1>5, <2>2, <3>1, <3>3, <4>1 DEF SizeOf
      <4> QED
        BY <4>2
    <3>6. LengthAsked(d, n) <=> x <= 0 \/ n * Unit = x
      BY <1>1, <1>5, <2>2, <3>1 DEF LengthAsked
    <3>7. CASE x > 0
      <4>1. most = x /\ (n * Unit = x <=> n = x \div Unit)
        BY <3>2, <3>4, <3>7, Units
      <4>2. x \div Unit \in Nat
        BY <1>2, <3>2, <3>7
      <4>3. x \div Unit # 0
        <5>1. (0 * Unit = x) <=> 0 = x \div Unit
          BY <3>2, Units
        <5> QED
          BY <1>2, <3>7, <5>1
      <4> QED
        BY <3>2, <3>5, <3>6, <3>7, <4>1, <4>2, <4>3
    <3>8. CASE ~(x > 0)
      <4>1. most = 0 /\ 0 \div Unit = 0 /\ x <= 0
        BY <1>2, <3>2, <3>4, <3>8
      <4> QED
        BY <1>3, <1>5, <3>5, <3>6, <4>1
    <3> QED
      BY <3>7, <3>8
  <2>3. CASE v.type = "string"
    <3>1. PICK s : s = v.at[1]
      OBVIOUS
    <3>2. WellFormed(s, IntegerOf) \/ ~Scan(s, IntegerOf).r
      BY <2>1, <2>3, <3>1 DEF PlainSize
    <3>3. SizeOf(d) = [len |-> 0, lens |-> IF Scan(s, IntegerOf).r THEN Scan(s, IntegerOf).is
                                                                 ELSE Everything]
      BY <1>1, <1>5, <2>3, <3>1 DEF SizeOf
    <3>4. CASE WellFormed(s, IntegerOf)
      <4>1. /\ Scan(s, IntegerOf).r
            /\ Inside(n * Unit, Scan(s, IntegerOf).is) = Within(n * Unit, s, IntegerOf)
        BY <1>2, <3>4, ScansRight
      <4>2. LengthAsked(d, n) = Within(n * Unit, s, IntegerOf)
        BY <1>1, <1>5, <2>3, <3>1, <3>4 DEF LengthAsked
      <4> QED
        BY <1>5, <3>3, <4>1, <4>2
    <3>5. CASE ~WellFormed(s, IntegerOf)
      <4>1. LengthAsked(d, n)
        BY <1>1, <1>5, <2>3, <3>1, <3>5 DEF LengthAsked
      <4> QED
        BY <1>3, <1>5, <3>2, <3>3, <3>5, <4>1
    <3> QED
      BY <3>4, <3>5
  <2>4. CASE v.type \notin {"integer", "string"}
    <3>1. SizeOf(d) = [len |-> 0, lens |-> Everything]
      BY <1>1, <1>5, <2>4 DEF SizeOf
    <3>2. LengthAsked(d, n)
      BY <1>1, <1>5, <2>4 DEF LengthAsked
    <3> QED
      BY <1>3, <1>5, <3>1, <3>2
  <2> QED
    BY <2>2, <2>3, <2>4
<1> QED
  BY <1>4, <1>5

\* A value fits a range exactly when it has the type and the length declared.
LEMMA FitsAsked ==
    ASSUME NEW d, Declares(d), NEW r \in RangeOf(d), NEW v, v.len \in Nat
    PROVE  (TypeFits(r, v) /\ LengthFits(r, v)) <=> Asked(d, v)
<1>1. r.size = SizeOf(d)
  BY RangeMade DEF MadeOf
<1>2. PICK z : z = SizeOf(d)
  OBVIOUS
<1>3. /\ z.len \in Nat /\ (~Has(d, "size") => z.len # 0)
      /\ \A n \in Nat : LengthAsked(d, n) <=> IF z.len # 0 THEN n = z.len
                                              ELSE Inside(n * Unit, z.lens)
  BY <1>2, SizeMeant
<1>4. LengthFits(r, v) <=> LengthAsked(d, v.len)
  BY <1>1, <1>2, <1>3 DEF LengthFits
<1>5. (v.type \in {r.type, "string"} \/ (v.type = "integer" /\ r.type = "real")) <=> TypeAsked(d, v)
  <2>1. PICK type : type = IF Numbers(d) THEN "integer" ELSE DeclaredTypes[Field(d, "type").at[1]]
    OBVIOUS
  <2>2. DeclaredTypes["bool"] = "integer"
    BY DEF DeclaredTypes
  <2>3. PICK word, f : word = Field(d, "type").at[1] /\ f = Field(d, "range")
    OBVIOUS
  <2>4. Numbers(d) <=> Has(d, "range") /\ f.type = "integer"
    BY <2>3 DEF Numbers
  <2>5. r.type = IF word = "bool" \/ (Has(d, "range") /\ f.type = "integer")
                   THEN "integer" ELSE DeclaredTypes[word]
    <3>1. MadeOf(d, r, word, f)
      BY <2>3, RangeMade
    <3> QED
      BY <2>2, <3>1 DEF MadeOf
  <2>6. type = IF Has(d, "range") /\ f.type = "integer" THEN "integer" ELSE DeclaredTypes[word]
    BY <2>1, <2>3, <2>4
  <2>7. r.type = type
    BY <2>2, <2>5, <2>6
  <2> QED
    BY <2>1, <2>7 DEF TypeAsked
<1>6. TypeFits(r, v) <=> (z.len = 0 /\ v.len = 0) \/ TypeAsked(d, v)
  BY <1>1, <1>2, <1>5 DEF TypeFits
<1>7. CASE v.len = 0
  <2>1. Asked(d, v) <=> Has(d, "size") /\ LengthAsked(d, 0)
    BY <1>7 DEF Asked, AnyLength
  <2> QED
    BY <1>3, <1>4, <1>6, <1>7, <2>1
<1>8. CASE v.len # 0
  <2>1. Asked(d, v) <=> TypeAsked(d, v) /\ LengthAsked(d, v.len)
    BY <1>8 DEF Asked
  <2> QED
    BY <1>3, <1>4, <1>6, <1>8, <2>1
<1> QED
  BY <1>7, <1>8

\* An element of a range without limits is not judged.
LEMMA Judges ==
    ASSUME NEW d, NEW r \in RangeOf(d)
    PROVE  (r.kind # "base") <=> Has(d, "range") \/ Field(d, "type").at[1] = "bool"
<1>1. PICK word, f : word = Field(d, "type").at[1] /\ f = Field(d, "range")
  OBVIOUS
<1>2. \/ word # "bool" /\ ~Has(d, "range") /\ r.kind = "base"
      \/ word = "bool" /\ r.kind = "enum"
      \/ Has(d, "range") /\ r.kind \in {"enum", "int", "real", "re"}
  <2>1. MadeOf(d, r, word, f)
    BY <1>1, RangeMade
  <2> QED
    BY <2>1 DEF MadeOf
<1> QED
  BY <1>1, <1>2

\* Of texts that are all well formed none is left out, and each keeps its place.
LEMMA IntervalsScanned ==
    ASSUME NEW Of \in {IntegerOf, RealOf}, NEW v, v.len \in Nat, DOMAIN v.at = 1 .. v.len,
           \A k \in DOMAIN v.at : WellFormed(v.at[k], Of)
    PROVE  Intervals(v, Of) = [k \in DOMAIN v.at |-> Scan(v.at[k], Of).is]
<1>1. PICK scans : scans = [i \in DOMAIN v.at |-> Scan(v.at[i], Of)]
  OBVIOUS
<1>2. \A k \in DOMAIN v.at : scans[k].r
  BY <1>1, ScansRight
<1>3. {j \in DOMAIN scans : scans[j].r} = 1 .. v.len
  BY <1>1, <1>2
<1>4. Cardinality({j \in DOMAIN scans : scans[j].r}) = v.len
  <2>1. PICK n : n = v.len
    OBVIOUS
  <2>2. Cardinality(1 .. n) = IF 1 > n THEN 0 ELSE n - 1 + 1
    BY <2>1, FS_Interval
  <2>3. Cardinality(1 .. n) = n
    BY <2>1, <2>2
  <2> QED
    BY <1>3, <2>1, <2>3
<1>5. Intervals(v, Of) = [i \in 1 .. v.len |-> scans[i].is]
  BY <1>1, <1>4 DEF Intervals
<1> QED
  BY <1>1, <1>5

\* An element of an enumeration.
LEMMA EnumMeant ==
    ASSUME NEW d, Declares(d), NEW r \in RangeOf(d), r.kind = "enum",
           NEW v, Loaded(v), v.type \in {"integer", "string"}, NEW i \in 1 .. v.len,
           Plainly(d, v, i)
    PROVE  EnumTakes(r.allows, v, i) <=> Complies(d, v, i)
<1>1. PICK word, f, ints, names, means :
        /\ word = Field(d, "type").at[1] /\ f = Field(d, "range")
        /\ ints = r.allows.ints /\ names = r.allows.names
        /\ means = Read(v, i - 1, "integer")
  OBVIOUS
<1>2. \/ /\ word = "bool" /\ ints = <<Unit, 0>> /\ names = <<>>
      \/ /\ word # "bool" /\ Has(d, "range") /\ f.type = "integer"
         /\ ints = [k \in DOMAIN f.at |-> Narrow(f.at[k])] /\ names = AliasOf(d, f.len)
  <2>1. \/ /\ word = "bool" /\ r.allows = [ints |-> <<Unit, 0>>, names |-> <<>>]
        \/ /\ word # "bool" /\ Has(d, "range") /\ f.type = "integer"
           /\ r.allows = [ints  |-> [k \in DOMAIN f.at |-> Narrow(f.at[k])],
                          names |-> AliasOf(d, f.len)]
    <3>1. MadeOf(d, r, word, f)
      BY <1>1, RangeMade
    <3> QED
      BY <3>1 DEF MadeOf
  <2> QED
    BY <1>1, <2>1
<1>3. Numbers(d) <=> Has(d, "range") /\ f.type = "integer"
  BY <1>1 DEF Numbers
<1>4. /\ v.type = "string" => v.len = 1
      /\ means \subseteq Ints
      /\ Numbers(d) => Limits(d) \subseteq Ints
  BY <1>1, <1>2, <1>3 DEF Plainly
<1>5. /\ v.len \in Nat /\ DOMAIN v.at = 1 .. v.len /\ v.valid
      /\ v.type = "integer" => v.at[i] \in Int
  BY NodeRead DEF Loaded
\* What it is compared with is what it means.
<1>6. (IF v.type = "string" THEN Read(v, 0, "integer") ELSE {v.at[i]}) = means
  <2>1. CASE v.type = "string"
    <3>1. i - 1 = 0
      BY <1>4, <1>5, <2>1
    <3> QED
      BY <1>1, <2>1, <3>1
  <2>2. CASE v.type = "integer"
    <3>1. i - 1 + 1 = i /\ ~(i - 1 >= v.len)
      BY <1>5
    <3>2. means = {v.at[i]}
      BY <1>1, <1>5, <2>2, <3>1 DEF Read
    <3> QED
      BY <2>2, <3>2
  <2> QED
    BY <2>1, <2>2
<1>7. EnumTakes(r.allows, v, i) <=>
        \/ v.type = "string" /\ \E k \in DOMAIN names : Lower[v.at[i]] = Lower[names[k]]
        \/ \E x \in means : \E k \in DOMAIN ints : ints[k] = x
  <2>1. \A x \in means : Narrow(x) = x
    BY <1>4, NarrowIs
  <2> QED
    BY <1>1, <1>6, <2>1 DEF EnumTakes
<1>8. CASE word = "bool"
  <2>1. ints = <<Unit, 0>> /\ names = <<>>
    BY <1>2, <1>8
  <2>2. EnumTakes(r.allows, v, i) <=> means \cap {0, Unit} # {}
    BY <1>7, <2>1
  <2>3. Complies(d, v, i) <=> means \cap {0, Unit} # {}
    BY <1>1, <1>8 DEF Complies
  <2> QED
    BY <2>2, <2>3
<1>9. CASE word # "bool"
  <2>1. /\ Has(d, "range") /\ f.type = "integer" /\ Numbers(d)
        /\ ints = [k \in DOMAIN f.at |-> Narrow(f.at[k])] /\ names = AliasOf(d, f.len)
    BY <1>2, <1>3, <1>9
  <2>2. Limits(d) = {f.at[k] : k \in DOMAIN f.at}
    BY <1>1, <2>1 DEF Limits, Range
  <2>3. \A k \in DOMAIN f.at : ints[k] = f.at[k]
    BY <1>4, <2>1, <2>2, NarrowIs
  <2>4. (\E x \in means : \E k \in DOMAIN ints : ints[k] = x) <=> means \cap Limits(d) # {}
    BY <2>1, <2>2, <2>3
  <2>5. PICK a : a = Field(d, "alias")
    OBVIOUS
  <2>6. (\E k \in DOMAIN names : Lower[v.at[i]] = Lower[names[k]]) <=>
          /\ Has(d, "alias") /\ a.type = "string" /\ a.len = f.len
          /\ \E k \in DOMAIN a.at : Lower[v.at[i]] = Lower[a.at[k]]
    BY <2>1, <2>5 DEF AliasOf
  <2>7. Complies(d, v, i) <=>
          \/ means \cap Limits(d) # {}
          \/ /\ v.type = "string" /\ Has(d, "alias") /\ a.type = "string" /\ a.len = f.len
             /\ \E k \in DOMAIN a.at : Lower[v.at[i]] = Lower[a.at[k]]
    BY <1>1, <1>9, <2>1, <2>5 DEF Complies
  <2> QED
    BY <1>7, <2>4, <2>6, <2>7
<1> QED
  BY <1>8, <1>9

\* An element under intervals of integers.
LEMMA IntMeant ==
    ASSUME NEW d, Declares(d), NEW r \in RangeOf(d), r.kind = "int",
           NEW v, Loaded(v), NEW i \in 1 .. v.len, Plainly(d, v, i),
           NEW e, NEW good, (e \in good) \in Answers(r, v, i)
    PROVE  e \in good <=> Complies(d, v, i)
<1>1. PICK word, f, y :
        word = Field(d, "type").at[1] /\ f = Field(d, "range") /\ y = v.at[i]
  OBVIOUS
<1>2. /\ word = "int" /\ Has(d, "range") /\ f.type = "string" /\ r.allows = Intervals(f, IntegerOf)
  <2>1. MadeOf(d, r, word, f)
    BY <1>1, RangeMade
  <2> QED
    BY <2>1 DEF MadeOf
<1>3. ~Numbers(d)
  BY <1>1, <1>2 DEF Numbers
<1>4. v.type = "integer" /\ \A s \in Limits(d) : WellFormed(s, IntegerOf)
  BY <1>1, <1>2, <1>3 DEF Plainly
<1>5. y \in Int /\ v.len \in Nat /\ v.valid
  BY <1>1, <1>4, NodeRead DEF Loaded
<1>6. Read(v, i - 1, "integer") = {y}
  <2>1. i - 1 + 1 = i /\ ~(i - 1 >= v.len)
    BY <1>5
  <2> QED
    BY <1>1, <1>4, <1>5, <2>1 DEF Read
<1>7. Limits(d) = {f.at[k] : k \in DOMAIN f.at}
  BY <1>1, <1>2 DEF Limits, Range
<1>8. r.allows = [k \in DOMAIN f.at |-> Scan(f.at[k], IntegerOf).is]
  <2>1. IsNode(d["range"]) /\ f = FromJson(d["range"])
    BY <1>1, <1>2 DEF Declares, Has, Field
  <2>2. f.len \in Nat /\ DOMAIN f.at = 1 .. f.len
    BY <2>1, NodeRead
  <2>3. \A k \in DOMAIN f.at : WellFormed(f.at[k], IntegerOf)
    BY <1>4, <1>7
  <2> QED
    BY <1>2, <2>2, <2>3, IntervalsScanned
<1>9. \A k \in DOMAIN f.at :
        Inside(y, Scan(f.at[k], IntegerOf).is) = Within(y, f.at[k], IntegerOf)
  BY <1>4, <1>5, <1>7, ScansRight
<1>10. e \in good <=> \E k \in DOMAIN r.allows : Inside(y, r.allows[k])
  BY <1>1, <1>4 DEF Answers
<1>11. Complies(d, v, i) <=> \E s \in Limits(d) : Within(y, s, IntegerOf)
  <2>1. Complies(d, v, i) <=> \E s \in Limits(d) : \A n \in {y} : Within(n, s, IntegerOf)
    BY <1>1, <1>2, <1>3, <1>6 DEF Complies
  <2> QED
    BY <2>1
<1> QED
  BY <1>7, <1>8, <1>9, <1>10, <1>11

\* An element under intervals of reals, none of which excludes its upper bound.
LEMMA RealMeant ==
    ASSUME NEW d, Declares(d), NEW r \in RangeOf(d), r.kind = "real",
           NEW v, Loaded(v), v.type \in {"integer", "real", "string"},
           NEW i \in 1 .. v.len, Plainly(d, v, i),
           NEW e, NEW good, (e \in good) \in Answers(r, v, i)
    PROVE  e \in good <=> Complies(d, v, i)
<1>1. PICK word, f, x, means :
        /\ word = Field(d, "type").at[1] /\ f = Field(d, "range") /\ x = v.at[i]
        /\ means = Read(v, i - 1, "real")
  OBVIOUS
<1>2. /\ word = "real" /\ Has(d, "range") /\ f.type = "string" /\ r.allows = Intervals(f, RealOf)
  <2>1. MadeOf(d, r, word, f)
    BY <1>1, RangeMade
  <2> QED
    BY <2>1 DEF MadeOf
<1>3. ~Numbers(d)
  BY <1>1, <1>2 DEF Numbers
<1>4. /\ v.type = "string" => x \in DOMAIN RealOf
      /\ \A s \in Limits(d) : WellFormed(s, RealOf) /\ Range(Text[s]) \cap Closing \subseteq Square
  BY <1>1, <1>2, <1>3 DEF Plainly
<1>5. /\ v.type # "string" => x \in Int
      /\ v.len \in Nat /\ v.valid
  BY <1>1, NodeRead DEF Loaded
<1>6. PICK y \in Int : means = {y}
  <2>1. i - 1 + 1 = i /\ ~(i - 1 >= v.len)
    BY <1>5
  <2>2. CASE v.type = "integer"
    <3>1. means = {x}
      BY <1>1, <1>5, <2>1, <2>2 DEF Read
    <3> QED
      BY <1>5, <2>2, <3>1
  <2>3. CASE v.type = "real"
    <3>1. means = {x}
      BY <1>1, <1>5, <2>1, <2>3 DEF Read
    <3> QED
      BY <1>5, <2>3, <3>1
  <2>4. CASE v.type = "string"
    <3>1. means = Spelled(x, RealOf)
      BY <1>1, <1>5, <2>1, <2>4 DEF Read
    <3>2. means = {RealOf[x]} /\ RealOf[x] \in Int
      BY <1>4, <2>4, <3>1, ValuesAssumption DEF Spelled
    <3> QED
      BY <3>2
  <2> QED
    BY <2>2, <2>3, <2>4
<1>7. Limits(d) = {f.at[k] : k \in DOMAIN f.at}
  BY <1>1, <1>2 DEF Limits, Range
<1>8. r.allows = [k \in DOMAIN f.at |-> Scan(f.at[k], RealOf).is]
  <2>1. IsNode(d["range"]) /\ f = FromJson(d["range"])
    BY <1>1, <1>2 DEF Declares, Has, Field
  <2>2. f.len \in Nat /\ DOMAIN f.at = 1 .. f.len
    BY <2>1, NodeRead
  <2>3. \A k \in DOMAIN f.at : WellFormed(f.at[k], RealOf)
    BY <1>4, <1>7
  <2> QED
    BY <1>2, <2>2, <2>3, IntervalsScanned
<1>9. \A k \in DOMAIN f.at :
        InsideReal(y, Scan(f.at[k], RealOf).is) = Within(y, f.at[k], RealOf)
  <2>1. ASSUME NEW k \in DOMAIN f.at
        PROVE  InsideReal(y, Scan(f.at[k], RealOf).is) = Within(y, f.at[k], RealOf)
    <3>1. PICK s : s = f.at[k]
      OBVIOUS
    <3>2. WellFormed(s, RealOf) /\ Range(Text[s]) \cap Closing \subseteq Square
      BY <1>4, <1>7, <3>1
    <3> QED
      BY <3>1, <3>2, ScansRight
  <2> QED
    BY <2>1
<1>10. e \in good <=> \E k \in DOMAIN r.allows : InsideReal(y, r.allows[k])
  <2>1. RealAt(v, i) = {y}
    BY <1>1, <1>6 DEF RealAt
  <2> QED
    BY <2>1 DEF Answers
<1>11. Complies(d, v, i) <=> \E s \in Limits(d) : Within(y, s, RealOf)
  <2>1. Complies(d, v, i) <=> \E s \in Limits(d) : \A n \in {y} : Within(n, s, RealOf)
    BY <1>1, <1>2, <1>3, <1>6 DEF Complies
  <2> QED
    BY <2>1
<1> QED
  BY <1>7, <1>8, <1>9, <1>10, <1>11

\* An element under patterns.
LEMMA ReMeant ==
    ASSUME NEW d, NEW r \in RangeOf(d), r.kind = "re",
           NEW v, NEW i \in 1 .. v.len, NEW e, NEW good, (e \in good) \in Answers(r, v, i)
    PROVE  e \in good <=> Complies(d, v, i)
<1>1. PICK word, f : word = Field(d, "type").at[1] /\ f = Field(d, "range")
  OBVIOUS
<1>2. /\ word = "string" /\ Has(d, "range") /\ f.type = "string"
      /\ r.allows = Range(f.at) \cap DOMAIN Matches
  <2>1. MadeOf(d, r, word, f)
    BY <1>1, RangeMade
  <2> QED
    BY <2>1 DEF MadeOf
<1>3. ~Numbers(d) /\ Limits(d) = Range(f.at)
  BY <1>1, <1>2 DEF Numbers, Limits
<1>4. e \in good <=> \E s \in r.allows : v.at[i] \in Matches[s]
  BY DEF Answers
<1>5. Complies(d, v, i) <=> \E s \in Limits(d) \cap DOMAIN Matches : v.at[i] \in Matches[s]
  BY <1>1, <1>2, <1>3 DEF Complies
<1> QED
  BY <1>2, <1>3, <1>4, <1>5

\* What validate() answers for an element is what its declaration asks for,
\* where that says so plainly.
LEMMA ElementMeant ==
    ASSUME NEW d, Declares(d), NEW r \in RangeOf(d), r.kind # "base",
           NEW v, Loaded(v), TypeFits(r, v), NEW i \in 1 .. v.len, Plainly(d, v, i),
           NEW e, NEW good, (e \in good) \in Answers(r, v, i)
    PROVE  e \in good <=> Complies(d, v, i)
<1>1. r.kind \in {"enum", "int", "real", "re"} /\
      (r.kind = "enum" => r.type = "integer") /\ (r.kind = "real" => r.type = "real")
  <2>1. MadeOf(d, r, Field(d, "type").at[1], Field(d, "range"))
    BY RangeMade
  <2> QED
    BY <2>1 DEF MadeOf, DeclaredTypes
<1>2. v.type \in {r.type, "string"} \/ (v.type = "integer" /\ r.type = "real")
  <2>1. v.len # 0
    BY NodeRead DEF Loaded
  <2> QED
    BY <2>1 DEF TypeFits
<1>3. CASE r.kind = "enum"
  <2>1. EnumTakes(r.allows, v, i) <=> Complies(d, v, i)
    BY <1>1, <1>2, <1>3, EnumMeant
  <2>2. e \in good <=> EnumTakes(r.allows, v, i)
    BY <1>3 DEF Answers
  <2> QED
    BY <2>1, <2>2
<1>4. CASE r.kind = "int"
  BY <1>4, IntMeant
<1>5. CASE r.kind = "real"
  BY <1>1, <1>2, <1>5, RealMeant
<1>6. CASE r.kind = "re"
  BY <1>6, ReMeant
<1> QED
  BY <1>1, <1>3, <1>4, <1>5, <1>6

-----------------------------------------------------------------------------
(* The invariant                                                             *)

\* The elements of a value that validate() may have found good.
Answered(r, l, good) ==
    \A e \in Judged(r, l) : (e \in good) \in Answers(r, conf[l], e[2] + 1)

LEMMA WalkLists ==
    ASSUME NEW p, WalkThrough(p)
    PROVE  \E there, absent, good :
             /\ there = Looks(p) \cap DOMAIN conf
             /\ absent = IF ranges[p].required THEN Looks(p) \ there ELSE {}
             /\ \A l \in there : Answered(ranges[p], l, good)
             /\ listed' = listed (+) Counts(Says(ranges[p], there, absent, good))
<1> DEFINE there == Looks(p) \cap DOMAIN conf
           absent == IF ranges[p].required THEN Looks(p) \ there ELSE {}
           judged == UNION {Judged(ranges[p], l) : l \in there}
<1>1. PICK good \in SUBSET judged :
        /\ \A e \in judged : (e \in good) \in Answers(ranges[p], conf[e[1]], e[2] + 1)
        /\ listed' = listed (+) Counts(Says(ranges[p], there, absent, good))
  BY DEF WalkThrough
<1>2. ASSUME NEW l \in there PROVE Answered(ranges[p], l, good)
  <2>1. \A e \in Judged(ranges[p], l) : e \in judged /\ e[1] = l
    BY DEF Judged
  <2> HIDE DEF judged
  <2> QED
    BY <1>1, <2>1 DEF Answered
<1> QED
  BY <1>1, <1>2

RangeInv ==
    /\ decls \in Schemas
    /\ walked \subseteq DOMAIN ranges /\ DOMAIN ranges \subseteq DOMAIN decls
    /\ \A p \in DOMAIN ranges : ranges[p] \in RangeOf(decls[p])

\* Every line is about a place under a range that was walked, where something is
\* or, if it is reported as not present, nothing is and something is required;
\* and it is the only line of its path.
LineInv ==
    \A x \in DOMAIN listed :
      /\ listed[x] = 1
      /\ NamesOf(Subject(conf, x[1])) \in walked
      /\ (x[2] = "absent") = ~Found(conf, x[1])
      /\ x[2] = "absent" => Needed(decls[NamesOf(Subject(conf, x[1]))])
      /\ \A y \in DOMAIN listed : x[1] = y[1] => x = y

\* Whatever is required and missing is listed.
MissingInv ==
    \A p \in walked : \A l \in Looks(p) \ DOMAIN conf :
      Needed(decls[p]) => <<Whole(l), "absent">> \in DOMAIN listed

\* The lines about a value under a range that was walked are those its elements
\* make, each answered by the range.
JudgedInv ==
    \A p \in walked : \A l \in Looks(p) \cap DOMAIN conf :
      \E r, good : /\ r = ranges[p] /\ Answered(r, l, good)
                   /\ {x \in DOMAIN listed : Subject(conf, x[1]) = l} =
                         {Line(y) : y \in OfValue(r, l, good)}

\* What is said of a value depends on the tree alone.
LEMMA SameSaid ==
    ASSUME UNCHANGED conf
    PROVE  /\ \A p : Looks(p)' = Looks(p)
           /\ \A r, l, good : OfValue(r, l, good)' = OfValue(r, l, good)
           /\ \A r, l, good : Answered(r, l, good)' = Answered(r, l, good)
<1>1. \A p : Looks(p)' = Looks(p)
  BY DEF Looks, Reached
<1>2. \A r, l : Judged(r, l)' = Judged(r, l)
  BY DEF Judged
<1>3. \A l, i : Whole(l)' = Whole(l) /\ Shown(l, i)' = Shown(l, i)
  BY DEF Whole, Shown
<1>4. \A r, l, good : OfValue(r, l, good)' = OfValue(r, l, good)
  BY <1>2, <1>3 DEF OfValue
<1>5. \A r, l, good : Answered(r, l, good)' = Answered(r, l, good)
  BY <1>2 DEF Answered
<1> QED
  BY <1>1, <1>4, <1>5

\* Every value is a loaded one.
LoadedInv == \A l \in DOMAIN conf : Loaded(conf[l])

SInv == TreeInv /\ LoadedInv /\ RangeInv /\ LineInv /\ MissingInv /\ JudgedInv

LEMMA SchemaPaths ==
    ASSUME RangeInv, NEW p \in DOMAIN decls
    PROVE  p \in Seq(Names) /\ p # <<>>
BY SchemaAssumption DEF RangeInv

LEMMA SchemaInitInv == SchemaInit => SInv
<1> SUFFICES ASSUME SchemaInit PROVE SInv
  OBVIOUS
<1>1. PICK doc \in Documents : conf = Load(doc)
  BY DEF SchemaInit
<1>2. TreeInv
  <2>1. IsDocument(doc)
    BY ValuesAssumption
  <2> QED
    BY <1>1, <2>1, LoadShaped, LoadGrown DEF TreeInv
<1>3. LoadedInv
  <2>1. ASSUME NEW l \in DOMAIN conf PROVE Loaded(conf[l])
    <3>1. l \in DOMAIN doc /\ conf[l] = FromJson(doc[l])
      BY <1>1, <2>1 DEF Load
    <3>2. IsNode(doc[l])
      BY <3>1, ValuesAssumption DEF IsDocument
    <3> QED
      BY <3>1, <3>2 DEF Loaded
  <2> QED
    BY <2>1 DEF LoadedInv
<1>4. walked = {} /\ DOMAIN ranges = {} /\ DOMAIN listed = {} /\ decls \in Schemas
  <2>1. ranges = <<>> /\ listed = EmptyBag /\ walked = {} /\ decls \in Schemas
    BY DEF SchemaInit
  <2>2. DOMAIN EmptyBag = {}
    BY DEF EmptyBag, SetToBag
  <2> QED
    BY <2>1, <2>2
<1> QED
  BY <1>2, <1>4, <1>3 DEF SInv, RangeInv, LineInv, MissingInv, JudgedInv

LEMMA FoundTypeInv ==
    ASSUME SInv, NEW p \in DOMAIN decls, FoundType(p)
    PROVE  SInv'
<1>1. UNCHANGED <<decls, conf, walked, listed>>
  BY DEF FoundType
<1>2. PICK new : /\ new = {} \/ new = RangeOf(decls[p])
                 /\ ranges' = [q \in DOMAIN ranges \cup {q \in {p} : new # {}} |->
                                 IF q \in DOMAIN ranges THEN ranges[q]
                                                        ELSE CHOOSE r \in new : TRUE]
  BY DEF FoundType
<1>3. TreeInv' /\ LoadedInv' /\ LineInv' /\ MissingInv'
  BY <1>1 DEF SInv, TreeInv, LoadedInv, LineInv, MissingInv, Subject, Looks, Reached, Whole
<1>4. DOMAIN ranges \subseteq DOMAIN ranges' /\ DOMAIN ranges' \subseteq DOMAIN ranges \cup {p}
  BY <1>2
<1>5. \A q \in DOMAIN ranges : ranges'[q] = ranges[q]
  BY <1>2
<1>6. JudgedInv'
  <2>1. \A q \in walked : ranges'[q] = ranges[q]
    BY <1>5 DEF SInv, RangeInv
  <2> QED
    BY <1>1, <2>1, SameSaid DEF SInv, JudgedInv, Subject
<1>7. ASSUME NEW q \in DOMAIN ranges' PROVE ranges'[q] \in RangeOf(decls[q])
  <2>1. CASE q \in DOMAIN ranges
    BY <1>2, <2>1 DEF SInv, RangeInv
  <2>2. CASE q \notin DOMAIN ranges
    <3>1. q = p /\ new # {} /\ ranges'[q] = CHOOSE r \in new : TRUE
      BY <1>2, <2>2
    <3> QED
      BY <1>2, <3>1
  <2> QED
    BY <2>1, <2>2
<1> QED
  BY <1>1, <1>3, <1>4, <1>7, <1>6 DEF SInv, RangeInv

LEMMA WalkThroughInv ==
    ASSUME PlainNames, SInv, NEW p \in DOMAIN decls, WalkThrough(p)
    PROVE  SInv'
<1>1. /\ UNCHANGED <<decls, conf, found, ranges>>
      /\ walked' = walked \cup {p} /\ p \in DOMAIN ranges /\ p \notin walked
  BY DEF WalkThrough
<1>2. PICK there, absent, good :
             /\ there = Looks(p) \cap DOMAIN conf
             /\ absent = IF ranges[p].required THEN Looks(p) \ there ELSE {}
             /\ \A l \in there : Answered(ranges[p], l, good)
             /\ listed' = listed (+) Counts(Says(ranges[p], there, absent, good))
  BY WalkLists
<1>3. PICK new, bag : new = Says(ranges[p], there, absent, good) /\ bag = Counts(new)
  OBVIOUS
<1>4. p \in Seq(Names) /\ p # <<>>
  BY SchemaPaths DEF SInv
<1>5. there \subseteq Looks(p) \cap DOMAIN conf /\ absent \subseteq Looks(p) \ DOMAIN conf
  BY <1>2
<1>6. ranges[p].required = Needed(decls[p])
  BY <1>1, RangeNeeded DEF SInv, RangeInv
<1>7. ASSUME NEW x \in new
      PROVE  /\ NamesOf(Subject(conf, x[2])) = p
             /\ (x[3] = "absent") = ~Found(conf, x[2])
             /\ x[3] = "absent" => Needed(decls[p])
             /\ \A y \in new : x[2] = y[2] => x = y
  <2>1. TreeInv
    BY DEF SInv
  <2>2. /\ NamesOf(Subject(conf, x[2])) = p
        /\ (x[3] = "absent") = ~Found(conf, x[2])
        /\ x[3] = "absent" => Subject(conf, x[2]) \in absent
        /\ \A y \in new : x[2] = y[2] => x = y
    <3>1. x \in Says(ranges[p], there, absent, good)
      BY <1>3, <1>7
    <3>2. /\ x = <<x[1], x[2], x[3]>> /\ NamesOf(Subject(conf, x[2])) = p
          /\ (x[3] = "absent") = ~Found(conf, x[2])
          /\ x[3] = "absent" => Subject(conf, x[2]) \in absent
          /\ \A y \in Says(ranges[p], there, absent, good) : x[2] = y[2] => x = y
      BY <1>4, <1>5, <2>1, <3>1, RangeLines
    <3> QED
      BY <1>3, <3>2
  <2>3. absent # {} => Needed(decls[p])
    BY <1>2, <1>6
  <2> QED
    BY <2>2, <2>3
<1>8. DOMAIN bag = {Line(x) : x \in new}
  BY <1>3 DEF Counts
<1>9. ASSUME NEW y \in DOMAIN bag
      PROVE  /\ bag[y] = 1 /\ NamesOf(Subject(conf, y[1])) = p
             /\ (y[2] = "absent") = ~Found(conf, y[1])
             /\ y[2] = "absent" => Needed(decls[p])
             /\ \A z \in DOMAIN bag : y[1] = z[1] => y = z
  <2>1. PICK x \in new : y = Line(x)
    BY <1>8
  <2>2. y[1] = x[2] /\ y[2] = x[3]
    BY <2>1 DEF Line
  <2>3. bag[y] = 1
    <3>1. Cardinality({z \in new : Line(z) = y}) = 1
      BY <1>7, <1>8, CountedOnce
    <3> QED
      BY <1>3, <1>8, <3>1 DEF Counts
  <2>4. ASSUME NEW z \in DOMAIN bag, y[1] = z[1] PROVE y = z
    <3>1. PICK u \in new : z = Line(u)
      BY <1>8
    <3>2. z[1] = u[2]
      BY <3>1 DEF Line
    <3>3. x = u
      BY <1>7, <2>2, <2>4, <3>2
    <3> QED
      BY <2>1, <3>1, <3>3
  <2> QED
    BY <1>7, <2>2, <2>3, <2>4
<1>10. ASSUME NEW y \in DOMAIN listed
       PROVE  /\ listed[y] = 1 /\ NamesOf(Subject(conf, y[1])) \in walked
              /\ NamesOf(Subject(conf, y[1])) # p
              /\ (y[2] = "absent") = ~Found(conf, y[1])
              /\ y[2] = "absent" => Needed(decls[NamesOf(Subject(conf, y[1]))])
              /\ \A z \in DOMAIN listed : y[1] = z[1] => y = z
  BY <1>1 DEF SInv, LineInv
<1>11. ASSUME NEW y \in DOMAIN listed, NEW z \in DOMAIN bag PROVE y[1] # z[1]
  <2>1. NamesOf(Subject(conf, y[1])) # NamesOf(Subject(conf, z[1]))
    BY <1>9, <1>10
  <2> QED
    BY <2>1
<1>12. /\ DOMAIN listed' = DOMAIN listed \cup DOMAIN bag
       /\ \A y \in DOMAIN listed : listed'[y] = listed[y] + (IF y \in DOMAIN bag THEN bag[y] ELSE 0)
       /\ \A y \in DOMAIN bag :
            listed'[y] = (IF y \in DOMAIN listed THEN listed[y] ELSE 0) + bag[y]
  <2>1. listed' = listed (+) bag
    BY <1>2, <1>3
  <2> QED
    BY <2>1 DEF (+)
<1>13. LineInv'
  <2>1. ASSUME NEW x \in DOMAIN listed'
        PROVE  /\ listed'[x] = 1 /\ NamesOf(Subject(conf, x[1])) \in walked'
               /\ (x[2] = "absent") = ~Found(conf, x[1])
               /\ x[2] = "absent" => Needed(decls[NamesOf(Subject(conf, x[1]))])
               /\ \A y \in DOMAIN listed' : x[1] = y[1] => x = y
    <3>1. CASE x \in DOMAIN listed
      <4>1. x \notin DOMAIN bag
        BY <1>11, <3>1
      <4>2. listed'[x] = 1
        <5>1. listed'[x] = listed[x] + 0
          BY <1>12, <3>1, <4>1
        <5>2. listed[x] = 1
          BY <1>10, <3>1
        <5> QED
          BY <5>1, <5>2
      <4> QED
        BY <1>1, <1>10, <1>11, <1>12, <3>1, <4>2
    <3>2. CASE x \in DOMAIN bag
      <4>1. x \notin DOMAIN listed
        BY <1>11, <3>2
      <4>2. listed'[x] = 1
        <5>1. listed'[x] = 0 + bag[x]
          BY <1>12, <3>2, <4>1
        <5>2. bag[x] = 1
          BY <1>9, <3>2
        <5> QED
          BY <5>1, <5>2
      <4> QED
        BY <1>1, <1>9, <1>11, <1>12, <3>2, <4>2
    <3> QED
      BY <1>12, <3>1, <3>2
  <2>2. conf' = conf /\ decls' = decls
    BY <1>1
  <2> QED
    BY <2>1, <2>2 DEF LineInv
<1>14. MissingInv'
  <2>1. ASSUME NEW q \in walked', NEW l \in Looks(q) \ DOMAIN conf, Needed(decls[q])
        PROVE  <<Whole(l), "absent">> \in DOMAIN listed'
    <3>1. CASE q \in walked
      BY <1>12, <2>1, <3>1 DEF SInv, MissingInv
    <3>2. CASE q = p
      <4>1. l \in absent
        BY <1>2, <1>6, <2>1, <3>2
      <4>2. PICK x \in new : x = <<l, Whole(l), "absent">>
        BY <1>3, <4>1 DEF Says, OfAbsent
      <4>3. Line(x) = <<Whole(l), "absent">>
        BY <4>2 DEF Line
      <4> QED
        BY <1>8, <1>12, <4>3
    <3> QED
      BY <1>1, <3>1, <3>2
  <2>2. /\ conf' = conf /\ decls' = decls
        /\ (\A q : Looks(q)' = Looks(q)) /\ \A l : Whole(l)' = Whole(l)
    BY <1>1 DEF Looks, Reached, Whole
  <2> QED
    BY <2>1, <2>2 DEF MissingInv
<1>15. TreeInv' /\ LoadedInv' /\ RangeInv'
  BY <1>1 DEF SInv, TreeInv, LoadedInv, RangeInv
<1>16. JudgedInv'
  <2> DEFINE Of(bg, l) == {x \in DOMAIN bg : Subject(conf, x[1]) = l}
  <2>1. ASSUME NEW q \in walked', NEW l \in Looks(q) \cap DOMAIN conf
        PROVE  \E r, g : /\ r = ranges[q] /\ Answered(r, l, g)
                         /\ Of(listed', l) = {Line(y) : y \in OfValue(r, l, g)}
    <3>1. CASE q \in walked
      <4>1. PICK g : Answered(ranges[q], l, g) /\
                     Of(listed, l) = {Line(y) : y \in OfValue(ranges[q], l, g)}
        BY <3>1, <2>1 DEF SInv, JudgedInv
      <4>2. NamesOf(l) = q
        <5>1. q \in DOMAIN decls /\ TreeInv /\ RangeInv
          BY <3>1 DEF SInv, RangeInv
        <5>2. q \in Seq(Names) /\ q # <<>>
          BY <5>1, SchemaPaths
        <5> QED
          BY <5>1, <5>2, LooksThere
      <4>3. \A x \in DOMAIN bag : Subject(conf, x[1]) # l
        BY <1>1, <1>9, <3>1, <4>2
      <4>4. Of(listed', l) = Of(listed, l)
        BY <1>12, <4>3
      <4> QED
        BY <4>1, <4>4
    <3>2. CASE q = p
      <4>1. l \in there /\ TreeInv
        BY <1>2, <3>2 DEF SInv
      <4>2. {x \in new : Subject(conf, x[2]) = l} = OfValue(ranges[p], l, good)
        <5>1. {x \in Says(ranges[p], there, absent, good) : Subject(conf, x[2]) = l}
                = OfValue(ranges[p], l, good)
          BY <1>4, <1>5, <4>1, LinesOfOne
        <5> QED
          BY <1>3, <5>1
      <4>3. NamesOf(l) = p
        BY <1>4, <3>2, <4>1, LooksThere
      <4>4. \A x \in DOMAIN listed : Subject(conf, x[1]) # l
        BY <1>10, <4>3
      <4>5. \A x \in new : Line(x)[1] = x[2]
        BY DEF Line
      <4>6. Of(bag, l) = {Line(y) : y \in OfValue(ranges[p], l, good)}
        BY <1>8, <4>2, <4>5
      <4>7. Of(listed', l) = Of(bag, l)
        BY <1>12, <4>4
      <4> QED
        BY <1>2, <3>2, <4>1, <4>6, <4>7
    <3> QED
      BY <1>1, <3>1, <3>2
  <2> QED
    BY <1>1, <2>1, SameSaid DEF JudgedInv, Subject
<1> QED
  BY <1>13, <1>14, <1>15, <1>16 DEF SInv

LEMMA SchemaNextInv == ASSUME PlainNames, SInv, [SchemaNext]_schemaVars PROVE SInv'
<1>1. CASE UNCHANGED schemaVars
  <2>1. UNCHANGED <<decls, conf, ranges, walked, listed>>
    BY <1>1 DEF schemaVars
  <2>2. JudgedInv'
    BY <2>1, SameSaid DEF SInv, JudgedInv, Subject
  <2>3. TreeInv' /\ LoadedInv' /\ RangeInv' /\ LineInv' /\ MissingInv'
    BY <2>1, SameSaid DEF SInv, TreeInv, LoadedInv, RangeInv, LineInv, MissingInv, Subject, Whole
  <2> QED
    BY <2>2, <2>3 DEF SInv
<1>2. ASSUME NEW p \in DOMAIN decls, FoundType(p) PROVE SInv'
  BY <1>2, FoundTypeInv
<1>3. ASSUME NEW p \in DOMAIN decls, WalkThrough(p) PROVE SInv'
  BY <1>3, WalkThroughInv
<1> QED
  BY <1>1, <1>2, <1>3 DEF SchemaNext

-----------------------------------------------------------------------------
(* What is listed, and what is not                                           *)

\* No path is listed twice, with one result or with two, and each leads
\* config::get to what validate() has judged, or nowhere for what it has
\* missed: for every schema, every document and every order of the ranges.
THEOREM ListedPathsLeadBack ==
    ASSUME PlainNames
    PROVE  SchemaSpec => []PathsLeadBack
<1>1. SInv => PathsLeadBack
  BY DEF SInv, LineInv, PathsLeadBack, Subject
<1> QED
  BY SchemaInitInv, SchemaNextInv, <1>1, PTL DEF SchemaSpec

\* A required parameter is reported in every config that should have it and does
\* not, once, and no other is, however the ranges of a schema lie in each other.
THEOREM AbsencesReported ==
    ASSUME PlainNames
    PROVE  SchemaSpec => []AbsentReported
<1>1. ASSUME SInv, NEW p \in walked, NEW c \in Configs(conf), NamesOf(c) = Front(p)
      PROVE  Times(Whole(Append(c, Last(p))), "absent") =
               IF Append(c, Last(p)) \notin DOMAIN conf /\ Needed(decls[p]) THEN 1 ELSE 0
  <2>1. PICK l : l = Append(c, Last(p))
    OBVIOUS
  <2>2. l \in Looks(p)
    BY <1>1, <2>1 DEF Looks, Reached
  <2>3. p \in Seq(Names) /\ p # <<>>
    BY <1>1, SchemaPaths DEF SInv, RangeInv
  <2>4. NamesOf(l) = p
    BY <1>1, <2>2, <2>3, LooksThere DEF SInv
  <2>5. PICK x : x = <<Whole(l), "absent">>
    OBVIOUS
  <2>6. Times(Whole(l), "absent") = IF x \in DOMAIN listed THEN listed[x] ELSE 0
    BY <2>5 DEF Times
  <2>7. x \in DOMAIN listed => listed[x] = 1 /\ ~Found(conf, Whole(l)) /\
                               Needed(decls[NamesOf(Subject(conf, Whole(l)))])
    <3>1. x[1] = Whole(l) /\ x[2] = "absent"
      BY <2>5
    <3> QED
      BY <1>1, <3>1 DEF SInv, LineInv
  <2>8. CASE l \in DOMAIN conf
    <3>1. Found(conf, Whole(l))
      BY <1>1, <2>8, ThereIsFound DEF SInv, TreeInv, Whole
    <3> QED
      BY <2>1, <2>6, <2>7, <2>8, <3>1
  <2>9. CASE l \notin DOMAIN conf
    <3>1. Subject(conf, Whole(l)) = l
      BY <1>1, <2>2, <2>3, <2>9, AbsentLine DEF SInv
    <3>2. Needed(decls[p]) => x \in DOMAIN listed
      BY <1>1, <2>2, <2>5, <2>9 DEF SInv, MissingInv
    <3> QED
      BY <2>1, <2>4, <2>6, <2>7, <2>9, <3>1, <3>2
  <2> QED
    BY <2>8, <2>9
<1>2. SInv => AbsentReported
  BY <1>1 DEF AbsentReported, Needed
<1> QED
  BY SchemaInitInv, SchemaNextInv, <1>2, PTL DEF SchemaSpec

\* How often something is listed of the value at l, of which L are the lines.
LEMMA TimesOf ==
    ASSUME LineInv, NEW l, NEW L, {x \in DOMAIN listed : Subject(conf, x[1]) = l} = L,
           NEW path, Subject(conf, path) = l, NEW code
    PROVE  Times(path, code) = IF <<path, code>> \in L THEN 1 ELSE 0
<1>1. PICK x : x = <<path, code>>
  OBVIOUS
<1>2. x[1] = path
  BY <1>1
<1>3. x \in DOMAIN listed => x \in L /\ listed[x] = 1
  BY <1>2 DEF LineInv
<1>4. x \in L => x \in DOMAIN listed
  OBVIOUS
<1> QED
  BY <1>1, <1>3, <1>4 DEF Times

LEMMA CompliesIs == ASSUME NEW d, NEW v, NEW i PROVE Complies(d, v, i) \in BOOLEAN
BY DEF Complies

\* What is listed of one value.
LEMMA OneJudged ==
    ASSUME PlainNames, PlainSizes, SInv, NEW p \in walked, NEW l \in DOMAIN conf, NamesOf(l) = p
    PROVE  /\ Times(Whole(l), "type") + Times(Whole(l), "length") =
                IF Asked(decls[p], conf[l]) THEN 0 ELSE 1
           /\ \A i \in 0 .. conf[l].len - 1 :
                IF /\ Asked(decls[p], conf[l])
                   /\ Has(decls[p], "range") \/ Field(decls[p], "type").at[1] = "bool"
                  THEN /\ Times(Shown(l, i), "ok") + Times(Shown(l, i), "range") = 1
                       /\ Plainly(decls[p], conf[l], i + 1) =>
                            (Times(Shown(l, i), "ok") = 1) = Complies(decls[p], conf[l], i + 1)
                  ELSE Times(Shown(l, i), "ok") + Times(Shown(l, i), "range") = 0
<1>1. PICK r, d, v : r = ranges[p] /\ d = decls[p] /\ v = conf[l]
  OBVIOUS
<1>2. /\ TreeInv /\ RangeInv /\ LineInv /\ LoadedInv
      /\ p \in DOMAIN decls /\ r \in RangeOf(d)
  BY <1>1 DEF SInv, RangeInv
<1>3. Loaded(v) /\ v.len \in Nat
  <2>1. Loaded(v)
    BY <1>1, <1>2 DEF LoadedInv
  <2> QED
    BY <2>1, NodeRead DEF Loaded
<1>4. Declares(d)
  <2>1. decls \in Schemas
    BY <1>2 DEF RangeInv
  <2>2. \A f \in DOMAIN d : IsNode(d[f])
    BY <1>1, <1>2, <2>1, SchemaAssumption
  <2>3. Has(d, "size") => PlainSize(Field(d, "size"))
    BY <1>1, <1>2, <2>1 DEF PlainSizes
  <2> QED
    BY <2>2, <2>3 DEF Declares
<1>5. Asked(d, v) <=> TypeFits(r, v) /\ LengthFits(r, v)
  BY <1>2, <1>3, <1>4, FitsAsked
<1>6. (r.kind # "base") <=> Has(d, "range") \/ Field(d, "type").at[1] = "bool"
  BY <1>2, Judges
<1>7. PICK good : /\ Answered(r, l, good)
                  /\ {x \in DOMAIN listed : Subject(conf, x[1]) = l} =
                       {Line(y) : y \in OfValue(r, l, good)}
  <2>1. l \in Looks(p)
    BY <1>2, LooksAll
  <2> QED
    BY <1>1, <2>1 DEF SInv, JudgedInv
<1>8. PICK L : L = {Line(y) : y \in OfValue(r, l, good)}
  OBVIOUS
<1>9. Subject(conf, Whole(l)) = l
  BY <1>2, ThereIsFound DEF Whole, TreeInv
<1>10. ASSUME NEW i \in 0 .. v.len - 1
       PROVE  Subject(conf, Shown(l, i)) = l /\ Get(conf, Shown(l, i)).idx = i
  <2>1. i \in Nat /\ i < conf[l].len
    BY <1>1, <1>3, <1>10
  <2> QED
    BY <1>2, <2>1, ShownLeads DEF Subject
<1>11. \A code : Times(Whole(l), code) = IF <<Whole(l), code>> \in L THEN 1 ELSE 0
  BY <1>2, <1>7, <1>8, <1>9, TimesOf
<1>12. \A i \in 0 .. v.len - 1 : \A code :
         Times(Shown(l, i), code) = IF <<Shown(l, i), code>> \in L THEN 1 ELSE 0
  BY <1>2, <1>7, <1>8, <1>10, TimesOf
<1> DEFINE Fine == /\ Times(Whole(l), "type") + Times(Whole(l), "length") =
                        IF Asked(d, v) THEN 0 ELSE 1
                   /\ \A i \in 0 .. v.len - 1 :
                        IF Asked(d, v) /\ r.kind # "base"
                          THEN /\ Times(Shown(l, i), "ok") + Times(Shown(l, i), "range") = 1
                               /\ Plainly(d, v, i + 1) =>
                                    (Times(Shown(l, i), "ok") = 1) = Complies(d, v, i + 1)
                          ELSE Times(Shown(l, i), "ok") + Times(Shown(l, i), "range") = 0
<1>13. ASSUME NEW code \in {"type", "length"}, L = {<<Whole(l), code>>}, ~Asked(d, v)
       PROVE  Fine
  <2>1. Times(Whole(l), "type") + Times(Whole(l), "length") = 1
    BY <1>11, <1>13
  <2>2. \A i \in 0 .. v.len - 1 : Times(Shown(l, i), "ok") = 0 /\ Times(Shown(l, i), "range") = 0
    BY <1>12, <1>13
  <2> QED
    BY <1>13, <2>1, <2>2
<1>14. ASSUME ~TypeFits(r, v) PROVE Fine
  <2>1. OfValue(r, l, good) = {<<l, Whole(l), "type">>}
    BY <1>1, <1>14 DEF OfValue
  <2>2. L = {<<Whole(l), "type">>}
    BY <1>8, <2>1 DEF Line
  <2> HIDE DEF Fine
  <2> QED
    BY <1>5, <1>13, <1>14, <2>2
<1>15. ASSUME TypeFits(r, v) /\ ~LengthFits(r, v) PROVE Fine
  <2>1. OfValue(r, l, good) = {<<l, Whole(l), "length">>}
    BY <1>1, <1>15 DEF OfValue
  <2>2. L = {<<Whole(l), "length">>}
    BY <1>8, <2>1 DEF Line
  <2> HIDE DEF Fine
  <2> QED
    BY <1>5, <1>13, <1>15, <2>2
<1> DEFINE Code(e) == IF e \in good THEN "ok" ELSE "range"
           Said(e) == <<e, Shown(l, e[2]), Code(e)>>
<1>16. ASSUME TypeFits(r, v), LengthFits(r, v)
       PROVE  /\ Asked(d, v)
              /\ L = {Line(Said(e)) : e \in Judged(r, l)}
              /\ Judged(r, l) = IF r.kind # "base" THEN {<<l, i>> : i \in 0 .. v.len - 1} ELSE {}
  <2>1. OfValue(r, l, good) = {Said(e) : e \in Judged(r, l)}
    BY <1>1, <1>16 DEF OfValue
  <2>2. Judged(r, l) = IF r.kind # "base" THEN {<<l, i>> : i \in 0 .. v.len - 1} ELSE {}
    BY <1>1, <1>16 DEF Judged
  <2> HIDE DEF Said
  <2> QED
    BY <1>5, <1>8, <1>16, <2>1, <2>2
<1>17. ASSUME TypeFits(r, v), LengthFits(r, v) PROVE Fine
  <2>1. /\ Asked(d, v)
        /\ L = {Line(Said(e)) : e \in Judged(r, l)}
        /\ Judged(r, l) = IF r.kind # "base" THEN {<<l, i>> : i \in 0 .. v.len - 1} ELSE {}
    BY <1>16, <1>17
  <2>2. \A e : Code(e) \in {"ok", "range"} /\ (Code(e) = "ok" <=> e \in good)
    OBVIOUS
  <2>3. \A i : Line(Said(<<l, i>>)) = <<Shown(l, i), Code(<<l, i>>)>>
    BY DEF Line
  <2>4. \A e : Line(Said(e))[2] \in {"ok", "range"}
    <3> HIDE DEF Code
    <3>1. \A e : Line(Said(e))[2] = Code(e)
      BY DEF Line
    <3> QED
      BY <2>2, <3>1
  <2> HIDE DEF Code, Said
  <2>5. Times(Whole(l), "type") = 0 /\ Times(Whole(l), "length") = 0
    <3>1. \A z \in L : z[2] \in {"ok", "range"}
      BY <2>1, <2>4
    <3>2. \A path : \A code \in {"type", "length"} : <<path, code>> \notin L
      BY <3>1
    <3> QED
      BY <1>11, <3>2
  <2>6. CASE r.kind = "base"
    <3>1. L = {}
      BY <2>1, <2>6
    <3>2. \A i \in 0 .. v.len - 1 :
            Times(Shown(l, i), "ok") = 0 /\ Times(Shown(l, i), "range") = 0
      BY <1>12, <3>1
    <3>3. \A i \in 0 .. v.len - 1 : Times(Shown(l, i), "ok") + Times(Shown(l, i), "range") = 0
      BY <3>2
    <3> QED
      BY <2>1, <2>5, <2>6, <3>3
  <2>7. CASE r.kind # "base"
    <3>1. ASSUME NEW i \in 0 .. v.len - 1, NEW code
          PROVE  <<Shown(l, i), code>> \in L <=> code = Code(<<l, i>>)
      <4>1. Judged(r, l) = {<<l, j>> : j \in 0 .. v.len - 1}
        BY <2>1, <2>7
      <4>2. ASSUME code = Code(<<l, i>>) PROVE <<Shown(l, i), code>> \in L
        <5>1. <<l, i>> \in Judged(r, l)
          BY <4>1
        <5> QED
          BY <2>1, <2>3, <4>2, <5>1
      <4>3. ASSUME <<Shown(l, i), code>> \in L PROVE code = Code(<<l, i>>)
        <5>1. PICK e \in Judged(r, l) : <<Shown(l, i), code>> = Line(Said(e))
          BY <2>1, <4>3
        <5>2. PICK j \in 0 .. v.len - 1 : e = <<l, j>>
          BY <4>1
        <5>3. <<Shown(l, i), code>> = <<Shown(l, j), Code(<<l, j>>)>>
          BY <2>3, <5>1, <5>2
        <5>4. Shown(l, i) = Shown(l, j) /\ code = Code(<<l, j>>)
          BY <5>3
        <5>5. i = j
          BY <1>10, <5>4
        <5> QED
          BY <5>4, <5>5
      <4> QED
        BY <4>2, <4>3
    <3>2. ASSUME NEW i \in 0 .. v.len - 1
          PROVE  /\ Times(Shown(l, i), "ok") = IF <<l, i>> \in good THEN 1 ELSE 0
                 /\ Times(Shown(l, i), "range") = IF <<l, i>> \in good THEN 0 ELSE 1
      <4>1. Times(Shown(l, i), "ok") = IF Code(<<l, i>>) = "ok" THEN 1 ELSE 0
        BY <1>12, <3>1
      <4>2. Times(Shown(l, i), "range") = IF Code(<<l, i>>) = "range" THEN 1 ELSE 0
        BY <1>12, <3>1
      <4> QED
        BY <2>2, <4>1, <4>2
    <3>3. ASSUME NEW i \in 0 .. v.len - 1
          PROVE  Times(Shown(l, i), "ok") + Times(Shown(l, i), "range") = 1
      <4>1. CASE <<l, i>> \in good
        <5>1. Times(Shown(l, i), "ok") = 1 /\ Times(Shown(l, i), "range") = 0
          BY <3>2, <4>1
        <5> QED
          BY <5>1
      <4>2. CASE <<l, i>> \notin good
        <5>1. Times(Shown(l, i), "ok") = 0 /\ Times(Shown(l, i), "range") = 1
          BY <3>2, <4>2
        <5> QED
          BY <5>1
      <4> QED
        BY <4>1, <4>2
    <3>4. ASSUME NEW i \in 0 .. v.len - 1, Plainly(d, v, i + 1)
          PROVE  (Times(Shown(l, i), "ok") = 1) = Complies(d, v, i + 1)
      <4>1. <<l, i>> \in Judged(r, l) /\ i + 1 \in 1 .. v.len
        BY <1>3, <2>1, <2>7
      <4>2. (<<l, i>> \in good) \in Answers(r, v, i + 1)
        BY <1>1, <1>7, <4>1 DEF Answered
      <4>3. (<<l, i>> \in good) <=> Complies(d, v, i + 1)
        BY <1>2, <1>3, <1>4, <1>17, <2>7, <3>4, <4>1, <4>2, ElementMeant
      <4>4. Complies(d, v, i + 1) \in BOOLEAN
        BY CompliesIs
      <4> QED
        BY <3>2, <4>3, <4>4
    <3> QED
      BY <2>1, <2>5, <2>7, <3>3, <3>4
  <2> QED
    BY <2>6, <2>7
<1>18. Fine
  <2> HIDE DEF Fine
  <2> QED
    BY <1>14, <1>15, <1>17
<1> QED
  BY <1>1, <1>6, <1>18

\* A value that has not the type or the length its declaration asks for is listed
\* once, as a whole; of any other one each element is, as ok exactly when it is
\* what the declaration says plainly that it wants.
THEOREM ValuesAreJudged ==
    ASSUME PlainNames, PlainSizes
    PROVE  SchemaSpec => []ValuesJudged
<1>1. SInv => ValuesJudged
  BY OneJudged DEF ValuesJudged
<1> QED
  BY SchemaInitInv, SchemaNextInv, <1>1, PTL DEF SchemaSpec
=============================================================================
