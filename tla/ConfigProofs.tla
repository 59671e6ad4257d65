---------------------------- MODULE ConfigProofs ----------------------------
(* The properties of Config for trees of any shape, whatever documents they  *)
(* were loaded from and whatever was done to them before.                    *)
(*   UpdateConverges: an update changes contents only, not which values      *)
(* there are, nor types and lengths, by which update() decides what meets    *)
(* what; so a second run meets the same pairs and finds equal contents in    *)
(* them. That takes contents to be as long as len_ says (Shaped).            *)
(*   PathRoundTrip, DiffNamesChanges: what stands below an element stands in *)
(* an object (Grown), whose configs know where they are (Linked); names are  *)
(* one token of a path (PlainNames), and the value constructor made no       *)
(* object (NoFreshObjects). The walk along a path is computed by induction   *)
(* over the parts of the location it was written from.                       *)
(*   SetReadBack: set() leaves alone what the walk goes by.                  *)
EXTENDS Config, SequenceTheorems, WellFoundedInduction, TLAPS

-----------------------------------------------------------------------------
(* Counting up                                                               *)

\* Every set of numbers has a least one, which is what induction rests on.
LEMMA Least ==
    ASSUME NEW T, T \subseteq Nat, T # {}
    PROVE  \E n \in T : \A m \in T : n <= m
<1>1. PICK n \in T : \A m \in T : <<m, n>> \notin OpToRel(<, Nat)
  BY WFMin, NatLessThanWellFounded, Zenon
<1>2. \A m \in T : ~ (m < n)
  BY <1>1, Zenon DEF OpToRel
<1> QED
  <2>1. \A m \in T : m \in Int
    OBVIOUS
  <2> QED
    BY <1>2, <2>1

LEMMA Induction ==
    ASSUME NEW S, 0 \in S, \A n \in Nat : n \in S => n + 1 \in S
    PROVE  Nat \subseteq S
<1> DEFINE T == Nat \ S
<1>1. SUFFICES ASSUME T # {} PROVE FALSE
  OBVIOUS
<1>2. PICK n \in T : \A m \in T : n <= m
  BY <1>1, Least
<1>3. n - 1 \in Nat /\ n - 1 \in S
  BY <1>2
<1> QED
  BY <1>2, <1>3

-----------------------------------------------------------------------------
(* Prefixes                                                                  *)

Upto(l, k) == SubSeq(l, 1, k)

LEMMA Prefix ==
    ASSUME NEW S, NEW l \in Seq(S), NEW k \in 0 .. Len(l)
    PROVE  /\ Upto(l, k) \in Seq(S) /\ Len(Upto(l, k)) = k
           /\ \A j \in 1 .. k : Upto(l, k)[j] = l[j]
BY DEF Upto

LEMMA SameElements ==
    ASSUME NEW S, NEW l \in Seq(S), NEW m \in Seq(S), Len(l) = Len(m),
           \A j \in 1 .. Len(l) : l[j] = m[j]
    PROVE  l = m
BY SeqEqual

LEMMA PrefixOfPrefix ==
    ASSUME NEW S, NEW l \in Seq(S), NEW k \in 0 .. Len(l), NEW j \in 0 .. k
    PROVE  Upto(Upto(l, k), j) = Upto(l, j)
<1>1. /\ Upto(l, k) \in Seq(S) /\ Len(Upto(l, k)) = k
      /\ \A i \in 1 .. k : Upto(l, k)[i] = l[i]
  BY Prefix
<1>2. /\ Upto(Upto(l, k), j) \in Seq(S) /\ Len(Upto(Upto(l, k), j)) = j
      /\ \A i \in 1 .. j : Upto(Upto(l, k), j)[i] = Upto(l, k)[i]
  BY <1>1, Prefix
<1>3. /\ Upto(l, j) \in Seq(S) /\ Len(Upto(l, j)) = j
      /\ \A i \in 1 .. j : Upto(l, j)[i] = l[i]
  BY Prefix
<1>4. \A i \in 1 .. j : i \in 1 .. k
  OBVIOUS
<1> QED
  BY <1>1, <1>2, <1>3, <1>4, SameElements

LEMMA WholePrefix ==
    ASSUME NEW S, NEW l \in Seq(S)
    PROVE  Upto(l, Len(l)) = l
<1>1. Len(l) \in 0 .. Len(l)
  OBVIOUS
<1> QED
  BY <1>1, Prefix, SameElements

LEMMA Extended ==
    ASSUME NEW S, NEW l \in Seq(S), NEW x \in S
    PROVE  /\ Append(l, x) \in Seq(S) /\ Len(Append(l, x)) = Len(l) + 1
           /\ \A j \in 1 .. Len(l) : Append(l, x)[j] = l[j]
           /\ Append(l, x)[Len(l) + 1] = x
BY AppendProperties

LEMMA PrefixExtended ==
    ASSUME NEW S, NEW l \in Seq(S), NEW x \in S, NEW k \in 0 .. Len(l)
    PROVE  Upto(Append(l, x), k) = Upto(l, k)
<1>1. PICK m : m = Append(l, x)
  OBVIOUS
<1>2. m \in Seq(S) /\ Len(m) = Len(l) + 1 /\ \A j \in 1 .. Len(l) : m[j] = l[j]
  BY <1>1, Extended
<1>3. k \in 0 .. Len(m) /\ \A i \in 1 .. k : i \in 1 .. Len(l)
  BY <1>2
<1>4. /\ Upto(m, k) \in Seq(S) /\ Len(Upto(m, k)) = k
      /\ \A i \in 1 .. k : Upto(m, k)[i] = m[i]
  BY <1>2, <1>3, Prefix
<1>5. Upto(m, k) = Upto(l, k)
  BY <1>2, <1>3, <1>4, Prefix, SameElements
<1> QED
  BY <1>1, <1>5

LEMMA LastPart ==
    ASSUME NEW S, NEW l \in Seq(S), Len(l) > 0
    PROVE  l = Append(Upto(l, Len(l) - 1), l[Len(l)])
<1>1. Len(l) - 1 \in 0 .. Len(l) /\ Len(l) \in 1 .. Len(l) /\ l[Len(l)] \in S
  BY ElementOfSeq
<1>2. /\ Upto(l, Len(l) - 1) \in Seq(S) /\ Len(Upto(l, Len(l) - 1)) = Len(l) - 1
      /\ \A j \in 1 .. Len(l) - 1 : Upto(l, Len(l) - 1)[j] = l[j]
  BY <1>1, Prefix
<1> DEFINE m == Append(Upto(l, Len(l) - 1), l[Len(l)])
<1>3. /\ m \in Seq(S) /\ Len(m) = Len(l) /\ m[Len(l)] = l[Len(l)]
      /\ \A j \in 1 .. Len(l) - 1 : m[j] = l[j]
  BY <1>1, <1>2, Extended
<1> HIDE DEF m
<1>4. \A j \in 1 .. Len(l) : l[j] = m[j]
  BY <1>3
<1>5. l = m
  BY <1>3, <1>4, SameElements
<1> QED
  BY <1>5 DEF m


-----------------------------------------------------------------------------
(* Putting the parts of a path together                                      *)

\* f[n] is the first n sequences of s, one behind the other.
Flattens(s, m, f) == f = [i \in 1 .. m |-> IF i = 1 THEN s[i] ELSE f[i - 1] \o s[i]]

LEMMA FlattenSteps ==
    ASSUME NEW s, NEW m \in Nat, NEW f, Flattens(s, m, f)
    PROVE  \A i \in 1 .. m : f[i] = IF i = 1 THEN s[i] ELSE f[i - 1] \o s[i]
<1> DEFINE g == [i \in 1 .. m |-> IF i = 1 THEN s[i] ELSE f[i - 1] \o s[i]]
<1>1. f = g
  BY DEF Flattens
<1>2. \A i \in 1 .. m : g[i] = IF i = 1 THEN s[i] ELSE f[i - 1] \o s[i]
  OBVIOUS
<1> HIDE DEF g
<1> QED
  BY <1>1, <1>2

LEMMA FlattenOneMore ==
    ASSUME NEW s, NEW k \in Nat, NEW f, Flattens(s, k, f)
    PROVE  \E g : Flattens(s, k + 1, g)
<1> DEFINE last == IF k = 0 THEN s[1] ELSE f[k] \o s[k + 1]
           g == [i \in 1 .. k + 1 |-> IF i <= k THEN f[i] ELSE last]
           new(i) == IF i = 1 THEN s[i] ELSE g[i - 1] \o s[i]
<1>1. \A i \in 1 .. k : f[i] = IF i = 1 THEN s[i] ELSE f[i - 1] \o s[i]
  BY FlattenSteps
<1>2. \A i \in 1 .. k : g[i] = f[i]
  OBVIOUS
<1>3. g[k + 1] = last
  OBVIOUS
<1>4. ASSUME NEW i \in 1 .. k + 1 PROVE g[i] = new(i)
  <2>1. CASE i \in 1 .. k /\ i = 1
    BY <1>1, <1>2, <2>1
  <2>2. CASE i \in 2 .. k
    <3>1. i \in 1 .. k /\ i - 1 \in 1 .. k /\ i # 1
      BY <2>2
    <3> HIDE DEF g
    <3> QED
      BY <1>1, <1>2, <3>1
  <2>3. CASE i = k + 1 /\ k = 0
    BY <1>3, <2>3
  <2>4. CASE i = k + 1 /\ k # 0
    <3>1. k \in 1 .. k /\ i - 1 = k /\ i # 1
      BY <2>4
    <3> HIDE DEF g
    <3> QED
      BY <1>2, <1>3, <2>4, <3>1
  <2> QED
    BY <2>1, <2>2, <2>3, <2>4
<1>5. g = [i \in 1 .. k + 1 |-> new(i)]
  <2>1. g = [i \in 1 .. k + 1 |-> g[i]]
    OBVIOUS
  <2> HIDE DEF g
  <2> QED
    BY <1>4, <2>1
<1> HIDE DEF g
<1> QED
  BY <1>5 DEF Flattens

LEMMA FlattenExists == \A s : \A m \in Nat : \E f : Flattens(s, m, f)
<1> SUFFICES ASSUME NEW s PROVE \A m \in Nat : \E f : Flattens(s, m, f)
  OBVIOUS
<1> DEFINE S == {m \in Nat : \E f : Flattens(s, m, f)}
<1>1. 0 \in S
  <2>1. Flattens(s, 0, [i \in 1 .. 0 |-> <<>>])
    BY DEF Flattens
  <2> QED
    BY <2>1
<1>2. \A n \in Nat : n \in S => n + 1 \in S
  BY FlattenOneMore
<1> HIDE DEF S
<1>3. Nat \subseteq S
  BY <1>1, <1>2, Induction
<1> QED
  BY <1>3 DEF S

LEMMA FlattenIs ==
    ASSUME NEW s, Len(s) \in Nat, Len(s) # 0
    PROVE  \E f : Flattens(s, Len(s), f) /\ FlattenSeq(s) = f[Len(s)]
<1> DEFINE flatten == CHOOSE f : Flattens(s, Len(s), f)
<1>1. Flattens(s, Len(s), flatten)
  BY FlattenExists
<1>2. FlattenSeq(s) = flatten[Len(s)]
  BY DEF FlattenSeq, Flattens
<1> HIDE DEF flatten
<1> QED
  BY <1>1, <1>2

LEMMA FlattensAgree ==
    ASSUME NEW s, NEW z, NEW m \in Nat, NEW l \in Nat, NEW f, Flattens(s, m, f),
           NEW g, Flattens(z, l, g), NEW k \in Nat, k <= m, k <= l,
           \A i \in 1 .. k : s[i] = z[i]
    PROVE  k # 0 => f[k] = g[k]
<1> DEFINE S == {n \in Nat : n \in 1 .. k => f[n] = g[n]}
<1>1. 0 \in S
  OBVIOUS
<1>2. ASSUME NEW n \in Nat, n \in S PROVE n + 1 \in S
  <2>1. SUFFICES ASSUME n + 1 <= k PROVE f[n + 1] = g[n + 1]
    OBVIOUS
  <2>2. PICK i \in 1 .. k : i = n + 1
    BY <2>1
  <2>3. i \in 1 .. m /\ i \in 1 .. l /\ i - 1 = n /\ s[i] = z[i]
    BY <2>2
  <2>4. i # 1 => f[n] = g[n]
    BY <1>2, <2>2
  <2>5. f[i] = g[i]
    BY <2>3, <2>4, FlattenSteps
  <2> QED
    BY <2>2, <2>5
<1> HIDE DEF S
<1>3. Nat \subseteq S
  BY <1>1, <1>2, Induction
<1> QED
  BY <1>3 DEF S

LEMMA Pair ==
    ASSUME NEW T, NEW a \in T, NEW b \in T
    PROVE  <<a>> \o <<b>> = <<a, b>>
<1> DEFINE u == <<a>>
           v == <<b>>
           y == <<a, b>>
<1>1. /\ u \in Seq(T) /\ Len(u) = 1 /\ u[1] = a
      /\ v \in Seq(T) /\ Len(v) = 1 /\ v[1] = b
      /\ y \in Seq(T) /\ Len(y) = 2 /\ y[1] = a /\ y[2] = b
  OBVIOUS
<1> HIDE DEF u, v, y
<1>2. u \o v \in Seq(T) /\ Len(u \o v) = 2 /\ (u \o v)[1] = a /\ (u \o v)[2] = b
  BY <1>1, ConcatProperties
<1>3. \A k \in 1 .. 2 : (u \o v)[k] = y[k]
  BY <1>1, <1>2
<1>4. u \o v = y
  BY <1>1, <1>2, <1>3, SameElements
<1> QED
  BY <1>4 DEF u, v, y

LEMMA FlattenNone == FlattenSeq(<<>>) = <<>>
BY DEF FlattenSeq

LEMMA FlattenAppended ==
    ASSUME NEW T, NEW s \in Seq(Seq(T)), NEW x \in Seq(T)
    PROVE  FlattenSeq(Append(s, x)) = FlattenSeq(s) \o x
<1>1. PICK z : z = Append(s, x)
  OBVIOUS
<1>2. /\ Len(z) = Len(s) + 1 /\ Len(s) \in Nat
      /\ \A i \in 1 .. Len(s) : z[i] = s[i]
      /\ z[Len(s) + 1] = x
  BY <1>1, Extended
<1>3. PICK l \in Nat : l = Len(s) + 1 /\ l = Len(z) /\ l # 0 /\ z[l] = x
  BY <1>2
<1>4. PICK g : Flattens(z, l, g) /\ FlattenSeq(z) = g[l]
  BY <1>3, FlattenIs
<1>5. g[l] = IF l = 1 THEN z[l] ELSE g[l - 1] \o z[l]
  <2>1. l \in 1 .. l
    BY <1>3
  <2> QED
    BY <1>4, <2>1, FlattenSteps
<1>6. CASE s = <<>>
  <2>1. FlattenSeq(s) = <<>> /\ l = 1
    BY <1>3, <1>6, FlattenNone
  <2>2. <<>> \o x = x
    BY ConcatEmptySeq
  <2> QED
    BY <1>1, <1>3, <1>4, <1>5, <2>1, <2>2
<1>7. CASE s # <<>>
  <2>1. Len(s) # 0 /\ l # 1 /\ l - 1 = Len(s)
    BY <1>2, <1>3, <1>7, EmptySeq
  <2>2. PICK f : Flattens(s, Len(s), f) /\ FlattenSeq(s) = f[Len(s)]
    BY <1>2, <2>1, FlattenIs
  <2>3. PICK k \in Nat : k = Len(s)
    BY <1>2
  <2>4. k <= l /\ k <= k /\ k \in 1 .. k
    BY <1>3, <2>1, <2>3
  <2>5. Flattens(s, k, f) /\ \A i \in 1 .. k : s[i] = z[i]
    BY <1>2, <2>2, <2>3
  <2>6. f[k] = g[k]
    BY <1>4, <2>4, <2>5, FlattensAgree
  <2> QED
    BY <1>1, <1>3, <1>4, <1>5, <2>1, <2>2, <2>3, <2>4, <2>6
<1> QED
  BY <1>6, <1>7

-----------------------------------------------------------------------------
(* Walking along a path                                                      *)

\* f[k] is where the first k tokens of the path lead.
Walks(t, path, m, f) ==
    f = [k \in 0 .. m |-> IF k = 0 THEN Start(<<>>) ELSE Step(t, f[k - 1], path[k])]

LEMMA WalkStart ==
    ASSUME NEW t, NEW path, NEW m \in Nat, NEW f, Walks(t, path, m, f)
    PROVE  f[0] = Start(<<>>)
<1> DEFINE g == [k \in 0 .. m |-> IF k = 0 THEN Start(<<>>) ELSE Step(t, f[k - 1], path[k])]
<1>1. f = g
  BY DEF Walks
<1>2. g[0] = Start(<<>>)
  OBVIOUS
<1> HIDE DEF g
<1> QED
  BY <1>1, <1>2

LEMMA WalkSteps ==
    ASSUME NEW t, NEW path, NEW m \in Nat, NEW f, Walks(t, path, m, f), NEW k \in 1 .. m
    PROVE  f[k] = Step(t, f[k - 1], path[k])
<1> DEFINE g == [i \in 0 .. m |-> IF i = 0 THEN Start(<<>>) ELSE Step(t, f[i - 1], path[i])]
<1>1. f = g
  BY DEF Walks
<1>2. g[k] = Step(t, f[k - 1], path[k])
  OBVIOUS
<1> HIDE DEF g
<1> QED
  BY <1>1, <1>2

LEMMA WalkOneMore ==
    ASSUME NEW t, NEW path, NEW m \in Nat, NEW f, Walks(t, path, m, f)
    PROVE  \E g : Walks(t, path, m + 1, g)
<1> DEFINE last == Step(t, f[m], path[m + 1])
           g == [k \in 0 .. m + 1 |-> IF k <= m THEN f[k] ELSE last]
           new(k) == IF k = 0 THEN Start(<<>>) ELSE Step(t, g[k - 1], path[k])
<1>1. f[0] = Start(<<>>) /\ \A k \in 1 .. m : f[k] = Step(t, f[k - 1], path[k])
  BY WalkStart, WalkSteps
<1>2. \A k \in 0 .. m : g[k] = f[k]
  OBVIOUS
<1>3. g[m + 1] = last
  OBVIOUS
<1>4. ASSUME NEW k \in 0 .. m + 1 PROVE g[k] = new(k)
  <2>1. CASE k = 0
    BY <1>1, <1>2, <2>1
  <2>2. CASE k \in 1 .. m
    <3>1. k \in 0 .. m /\ k - 1 \in 0 .. m /\ k # 0
      BY <2>2
    <3> HIDE DEF g
    <3> QED
      BY <1>1, <1>2, <2>2, <3>1
  <2>3. CASE k = m + 1
    <3>1. m \in 0 .. m /\ k - 1 = m /\ k # 0
      BY <2>3
    <3> HIDE DEF g
    <3> QED
      BY <1>2, <1>3, <2>3, <3>1
  <2> QED
    BY <2>1, <2>2, <2>3
<1>5. g = [k \in 0 .. m + 1 |-> new(k)]
  <2>1. g = [k \in 0 .. m + 1 |-> g[k]]
    OBVIOUS
  <2> HIDE DEF g
  <2> QED
    BY <1>4, <2>1
<1> HIDE DEF g
<1> QED
  BY <1>5 DEF Walks

LEMMA WalkExists == \A t, path : \A m \in Nat : \E f : Walks(t, path, m, f)
<1> SUFFICES ASSUME NEW t, NEW path PROVE \A m \in Nat : \E f : Walks(t, path, m, f)
  OBVIOUS
<1> DEFINE S == {m \in Nat : \E f : Walks(t, path, m, f)}
<1>1. 0 \in S
  <2>1. Walks(t, path, 0, [k \in 0 .. 0 |-> Start(<<>>)])
    BY DEF Walks
  <2> QED
    BY <2>1
<1>2. \A n \in Nat : n \in S => n + 1 \in S
  BY WalkOneMore
<1> HIDE DEF S
<1>3. Nat \subseteq S
  BY <1>1, <1>2, Induction
<1> QED
  BY <1>3 DEF S

LEMMA GetWalks ==
    ASSUME NEW t, NEW path, Len(path) \in Nat
    PROVE  \E f : Walks(t, path, Len(path), f) /\ Get(t, path) = f[Len(path)]
<1> DEFINE walk == CHOOSE f : Walks(t, path, Len(path), f)
<1>1. Walks(t, path, Len(path), walk)
  BY WalkExists
<1>2. Get(t, path) = walk[Len(path)]
  BY DEF Get, Walks
<1> HIDE DEF walk
<1> QED
  BY <1>1, <1>2

\* Paths that begin alike lead to the same place there.
LEMMA WalksAgree ==
    ASSUME NEW t, NEW path, NEW other, NEW m \in Nat, NEW l \in Nat,
           NEW f, Walks(t, path, m, f), NEW g, Walks(t, other, l, g),
           NEW k \in Nat, k <= m, k <= l, \A i \in 1 .. k : path[i] = other[i]
    PROVE  f[k] = g[k]
<1> DEFINE S == {n \in Nat : n <= k => f[n] = g[n]}
<1>1. 0 \in S
  BY WalkStart
<1>2. ASSUME NEW n \in Nat, n \in S PROVE n + 1 \in S
  <2>1. SUFFICES ASSUME n + 1 <= k PROVE f[n + 1] = g[n + 1]
    OBVIOUS
  <2>2. PICK i \in 1 .. k : i = n + 1
    BY <2>1
  <2>3. i \in 1 .. m /\ i \in 1 .. l /\ i - 1 = n /\ path[i] = other[i]
    BY <2>2
  <2>4. f[n] = g[n]
    BY <1>2, <2>1
  <2>5. f[i] = Step(t, f[i - 1], path[i])
    BY <2>3, WalkSteps
  <2>6. g[i] = Step(t, g[i - 1], other[i])
    <3>1. Walks(t, other, l, g) /\ l \in Nat /\ i \in 1 .. l
      BY <2>3
    <3> QED
      BY <3>1, WalkSteps
  <2> QED
    BY <2>2, <2>3, <2>4, <2>5, <2>6
<1> HIDE DEF S
<1>3. Nat \subseteq S
  BY <1>1, <1>2, Induction
<1> QED
  BY <1>3 DEF S

LEMMA GetNone == ASSUME NEW t PROVE Get(t, <<>>) = Start(<<>>)
<1>1. PICK path : path = <<>>
  OBVIOUS
<1>2. Len(path) = 0 /\ 0 \in Nat
  BY <1>1
<1>3. PICK f : Walks(t, path, 0, f) /\ Get(t, path) = f[0]
  BY <1>2, GetWalks
<1> QED
  BY <1>1, <1>2, <1>3, WalkStart

LEMMA GetAppended ==
    ASSUME NEW t, NEW T, NEW path \in Seq(T), NEW tok \in T
    PROVE  Get(t, Append(path, tok)) = Step(t, Get(t, path), tok)
<1>1. PICK other : other = Append(path, tok)
  OBVIOUS
<1>2. PICK m \in Nat : m = Len(path)
  OBVIOUS
<1>3. PICK l \in Nat : l = m + 1
  OBVIOUS
<1>4. l = Len(other) /\ other[l] = tok /\ \A i \in 1 .. m : path[i] = other[i]
  BY <1>1, <1>2, <1>3, Extended
<1>5. PICK f : Walks(t, path, m, f) /\ Get(t, path) = f[m]
  BY <1>2, GetWalks
<1>6. PICK g : Walks(t, other, l, g) /\ Get(t, other) = g[l]
  BY <1>4, GetWalks
<1>7. l \in 1 .. l /\ l - 1 = m /\ m <= l /\ m <= m
  BY <1>3
<1>8. g[l] = Step(t, g[m], tok)
  BY <1>4, <1>6, <1>7, WalkSteps
<1>9. Walks(t, path, m, f) /\ Walks(t, other, l, g)
  BY <1>5, <1>6
<1>10. f[m] = g[m]
  <2>1. m <= m /\ m <= l /\ \A i \in 1 .. m : path[i] = other[i]
    BY <1>4, <1>7
  <2> QED
    BY <1>9, <2>1, WalksAgree
<1> QED
  BY <1>1, <1>5, <1>6, <1>8, <1>10

\* One token.
ValueAt(l)      == [mode |-> "value", loc |-> l, idx |-> 0]
ElementAt(l, i) == [mode |-> "element", loc |-> l, idx |-> i]

LEMMA Signs ==
    /\ \A n \in Names : n # Slash /\ n \notin Nat
    /\ Slash \notin Nat
BY ValuesAssumption

LEMMA FromConfig ==
    ASSUME NEW t, NEW c
    PROVE  /\ Step(t, Start(c), Slash) = Start(c)
           /\ \A n \in Names : Step(t, Start(c), n) = StepName(t, c, n)
<1>1. Start(c).mode = "config" /\ Start(c).loc = c
  BY DEF Start
<1>2. Step(t, Start(c), Slash) = Start(c)
  BY <1>1 DEF Step
<1>3. ASSUME NEW n \in Names PROVE Step(t, Start(c), n) = StepName(t, c, n)
  BY <1>1, Signs DEF Step
<1> QED
  BY <1>2, <1>3

LEMMA FromValue ==
    ASSUME NEW t, NEW l
    PROVE  /\ Step(t, ValueAt(l), Slash) = ValueAt(l)
           /\ t[l].type = "object" =>
                \A n \in Names : Step(t, ValueAt(l), n) = StepName(t, Append(l, 0), n)
           /\ \A i \in Nat : i < t[l].len => Step(t, ValueAt(l), i) = ElementAt(l, i)
<1>1. ValueAt(l).mode = "value" /\ ValueAt(l).loc = l
  BY DEF ValueAt
<1>2. Step(t, ValueAt(l), Slash) = ValueAt(l)
  BY <1>1, Signs DEF Step
<1>3. ASSUME t[l].type = "object", NEW n \in Names
      PROVE  Step(t, ValueAt(l), n) = StepName(t, Append(l, 0), n)
  BY <1>1, <1>3, Signs DEF Step
<1>4. ASSUME NEW i \in Nat, i < t[l].len PROVE Step(t, ValueAt(l), i) = ElementAt(l, i)
  <2>1. i \notin Names \cup {Slash}
    BY Signs
  <2>2. Step(t, ValueAt(l), i) = [ValueAt(l) EXCEPT !.mode = "element", !.idx = i]
    BY <1>1, <1>4, <2>1 DEF Step
  <2> QED
    BY <2>2 DEF ValueAt, ElementAt
<1> QED
  BY <1>2, <1>3, <1>4

LEMMA FromElement ==
    ASSUME NEW t, NEW l, NEW i, t[l].type = "object"
    PROVE  Step(t, ElementAt(l, i), Slash) = Start(Append(l, i))
<1>1. ElementAt(l, i).mode = "element" /\ ElementAt(l, i).loc = l /\ ElementAt(l, i).idx = i
  BY DEF ElementAt
<1> QED
  BY <1>1 DEF Step

LEMMA NameFound ==
    ASSUME NEW t, NEW c, NEW n, Append(c, n) \in DOMAIN t
    PROVE  StepName(t, c, n) = ValueAt(Append(c, n))
BY DEF StepName, ValueAt

\* Names are one token each.
PlainNames == \A n \in Names : Plain(n)

Places == Names \cup Nat
Tokens == Names \cup Nat \cup {Slash}

Spell(x) == IF x \in Names THEN <<Slash, x>> ELSE IF x = 0 THEN <<>> ELSE <<x>>

\* The path of a place with all its uplinks.
Way(l) == FlattenSeq([k \in 1 .. Len(l) |-> Spell(l[k])])

LEMMA SpellType == ASSUME NEW x \in Places PROVE Spell(x) \in Seq(Tokens)
<1>1. x \in Tokens /\ Slash \in Tokens
  BY DEF Places, Tokens
<1>2. <<Slash, x>> \in Seq(Tokens) /\ <<x>> \in Seq(Tokens) /\ <<>> \in Seq(Tokens)
  BY <1>1
<1> QED
  BY <1>2 DEF Spell

LEMMA WayNone == Way(<<>>) = <<>>
<1>1. [k \in 1 .. Len(<<>>) |-> Spell(<<>>[k])] = <<>>
  OBVIOUS
<1> QED
  BY <1>1, FlattenNone DEF Way

LEMMA WayAppended ==
    ASSUME NEW l \in Seq(Places), NEW x \in Places
    PROVE  Way(Append(l, x)) = Way(l) \o Spell(x)
<1> DEFINE s == [k \in 1 .. Len(l) |-> Spell(l[k])]
           m == Append(l, x)
           z == [k \in 1 .. Len(m) |-> Spell(m[k])]
<1>1. Len(l) \in Nat /\ \A k \in 1 .. Len(l) : Spell(l[k]) \in Seq(Tokens)
  BY SpellType, ElementOfSeq
<1>2. s \in Seq(Seq(Tokens)) /\ Len(s) = Len(l)
  <2>1. s \in [1 .. Len(l) -> Seq(Tokens)]
    BY <1>1
  <2> HIDE DEF s
  <2> QED
    BY <1>1, <2>1
<1>3. Spell(x) \in Seq(Tokens)
  BY SpellType
<1>4. /\ m \in Seq(Places) /\ Len(m) = Len(l) + 1 /\ m[Len(l) + 1] = x
      /\ \A k \in 1 .. Len(l) : m[k] = l[k]
  BY Extended
<1> HIDE DEF m
<1>5. z = Append(s, Spell(x))
  <2>1. /\ Append(s, Spell(x)) \in Seq(Seq(Tokens)) /\ Len(Append(s, Spell(x))) = Len(l) + 1
        /\ \A k \in 1 .. Len(l) : Append(s, Spell(x))[k] = s[k]
        /\ Append(s, Spell(x))[Len(l) + 1] = Spell(x)
    <3> HIDE DEF s
    <3> QED
      BY <1>2, <1>3, Extended
  <2>2. z \in Seq(Seq(Tokens)) /\ Len(z) = Len(m)
    <3>1. \A k \in 1 .. Len(m) : m[k] \in Places
      BY <1>4, ElementOfSeq
    <3>2. z \in [1 .. Len(m) -> Seq(Tokens)]
      BY <3>1, SpellType
    <3> HIDE DEF z
    <3> QED
      BY <1>1, <1>4, <3>2
  <2>3. ASSUME NEW k \in 1 .. Len(l) + 1 PROVE z[k] = Append(s, Spell(x))[k]
    <3>1. CASE k \in 1 .. Len(l)
      <4>1. s[k] = Spell(l[k])
        BY <3>1
      <4>2. z[k] = Spell(m[k])
        BY <1>4
      <4> HIDE DEF s, z
      <4> QED
        BY <1>4, <2>1, <3>1, <4>1, <4>2
    <3>2. CASE k = Len(l) + 1
      <4>1. z[k] = Spell(m[k])
        BY <1>4
      <4> HIDE DEF s, z
      <4> QED
        BY <1>4, <2>1, <3>2, <4>1
    <3> QED
      BY <1>1, <3>1, <3>2
  <2> HIDE DEF s, z
  <2> QED
    BY <1>4, <2>1, <2>2, <2>3, SameElements
<1>6. Way(l) = FlattenSeq(s) /\ Way(m) = FlattenSeq(z)
  BY DEF Way
<1> HIDE DEF s, z
<1>7. FlattenSeq(z) = FlattenSeq(s) \o Spell(x)
  BY <1>2, <1>3, <1>5, FlattenAppended
<1> QED
  BY <1>6, <1>7 DEF m

-----------------------------------------------------------------------------
(* Where values stand                                                        *)

\* a is an object with an element i.
Holds(t, a, i) == a \in DOMAIN t /\ t[a].type = "object" /\ i \in Nat /\ i < t[a].len

\* A location of names and indices in turn, each index that of an element there.
Stands(t, l) ==
    /\ l \in Seq(Places)
    /\ \A k \in 1 .. Len(l) :
         /\ k % 2 = 1 => l[k] \in Names
         /\ k % 2 = 0 => Holds(t, Upto(l, k - 1), l[k])

Grown(t) == \A l \in DOMAIN t : Stands(t, l) /\ Len(l) % 2 = 1

LEMMA Odd == ASSUME NEW k \in Nat PROVE /\ k % 2 = 1 => (k + 1) % 2 = 0
                                        /\ k % 2 = 0 => (k + 1) % 2 = 1
                                        /\ k % 2 = 0 \/ k % 2 = 1
OBVIOUS

LEMMA EvenAhead ==
    ASSUME NEW b \in Nat, b % 2 = 0, NEW j \in Nat
    PROVE  (b + j) % 2 = j % 2
OBVIOUS

LEMMA Before ==
    ASSUME NEW j \in Nat, j > 0, j % 2 = 0
    PROVE  j - 1 >= 1 /\ (j - 1) % 2 = 1
OBVIOUS

LEMMA GrownPlaces ==
    ASSUME NEW t, Grown(t), NEW l \in DOMAIN t
    PROVE  l \in Seq(Places) /\ Len(l) % 2 = 1 /\ Len(l) \in Nat
<1>1. l \in Seq(Places) /\ Len(l) % 2 = 1
  BY DEF Grown, Stands
<1> QED
  BY <1>1, LenProperties

LEMMA NameAt ==
    ASSUME NEW t, NEW l, Stands(t, l), NEW k \in 1 .. Len(l), k % 2 = 1
    PROVE  l[k] \in Names
BY DEF Stands

LEMMA IndexAt ==
    ASSUME NEW t, NEW l, Stands(t, l), NEW k \in 1 .. Len(l), k % 2 = 0
    PROVE  Holds(t, Upto(l, k - 1), l[k])
BY DEF Stands

LEMMA PartThere ==
    ASSUME NEW t, Grown(t), NEW l \in DOMAIN t, NEW k \in 1 .. Len(l), k % 2 = 1
    PROVE  Upto(l, k) \in DOMAIN t
<1>1. l \in Seq(Places) /\ Len(l) % 2 = 1 /\ Len(l) \in Nat
  BY GrownPlaces
<1>2. CASE k = Len(l)
  BY <1>1, <1>2, WholePrefix
<1>3. CASE k # Len(l)
  <2>1. PICK j \in 1 .. Len(l) : j = k + 1
    BY <1>1, <1>3
  <2>2. j % 2 = 0 /\ j - 1 = k
    BY <2>1, Odd
  <2> QED
    BY <2>2 DEF Grown, Stands, Holds
<1> QED
  BY <1>2, <1>3

\* The walk down to the value at l has come to its part k.
Arrived(t, c, k) ==
    /\ Way(c) \in Seq(Tokens)
    /\ k % 2 = 1 => Get(t, Way(c)) = ValueAt(c)
    /\ k % 2 = 0 => \A n \in Names :
                      Step(t, Get(t, Append(Way(c), Slash)), n) = StepName(t, c, n)

LEMMA StartsAtRoot == ASSUME NEW t PROVE Arrived(t, <<>>, 0)
<1>1. Way(<<>>) = <<>> /\ <<>> \in Seq(Tokens) /\ Slash \in Tokens
  BY WayNone DEF Tokens
<1>2. Get(t, Append(<<>>, Slash)) = Step(t, Get(t, <<>>), Slash)
  BY <1>1, GetAppended
<1>3. Get(t, Append(<<>>, Slash)) = Start(<<>>)
  BY <1>2, GetNone, FromConfig
<1>4. \A n \in Names : Step(t, Start(<<>>), n) = StepName(t, <<>>, n)
  BY FromConfig
<1>5. 0 % 2 = 0 /\ 0 % 2 # 1
  OBVIOUS
<1> QED
  BY <1>1, <1>3, <1>4, <1>5 DEF Arrived

LEMMA NextName ==
    ASSUME NEW t, NEW c \in Seq(Places), NEW k \in Nat, k % 2 = 0, Arrived(t, c, k),
           NEW n \in Names, Append(c, n) \in DOMAIN t
    PROVE  Arrived(t, Append(c, n), k + 1)
<1>1. PICK w \in Seq(Tokens) : w = Way(c)
  BY DEF Arrived
<1>2. n \in Places /\ n \in Tokens /\ Slash \in Tokens
  BY DEF Places, Tokens
<1>3. Append(w, Slash) \in Seq(Tokens) /\ Append(Append(w, Slash), n) \in Seq(Tokens)
  BY <1>2, Extended
<1>4. Way(Append(c, n)) = Append(Append(w, Slash), n)
  <2>1. Way(Append(c, n)) = w \o <<Slash, n>>
    BY <1>1, <1>2, WayAppended DEF Spell
  <2> QED
    BY <1>2, <2>1
<1>5. Get(t, Append(Append(w, Slash), n)) = Step(t, Get(t, Append(w, Slash)), n)
  BY <1>2, <1>3, GetAppended
<1>6. Get(t, Append(Append(w, Slash), n)) = ValueAt(Append(c, n))
  BY <1>1, <1>5, NameFound DEF Arrived
<1>7. (k + 1) % 2 = 1
  BY Odd
<1> QED
  BY <1>3, <1>4, <1>6, <1>7 DEF Arrived

LEMMA NextIndex ==
    ASSUME NEW t, NEW l \in Seq(Places), NEW k \in Nat, k % 2 = 1, Arrived(t, l, k),
           t[l].type = "object", NEW i \in Nat, i < t[l].len
    PROVE  Arrived(t, Append(l, i), k + 1)
<1>1. PICK w \in Seq(Tokens) : w = Way(l)
  BY DEF Arrived
<1>2. i \in Places /\ i \in Tokens /\ Slash \in Tokens /\ i \notin Names
  BY Signs DEF Places, Tokens
<1>3. Get(t, w) = ValueAt(l)
  BY <1>1 DEF Arrived
<1>4. Way(Append(l, i)) = w \o (IF i = 0 THEN <<>> ELSE <<i>>)
  BY <1>1, <1>2, WayAppended DEF Spell
<1>5. (k + 1) % 2 = 0
  BY Odd
<1>6. CASE i = 0
  <2>1. Way(Append(l, i)) = w
    BY <1>4, <1>6, ConcatEmptySeq
  <2>2. Get(t, Append(w, Slash)) = ValueAt(l)
    BY <1>2, <1>3, GetAppended, FromValue
  <2>3. \A n \in Names : Step(t, ValueAt(l), n) = StepName(t, Append(l, i), n)
    BY <1>6, FromValue
  <2> QED
    BY <1>5, <2>1, <2>2, <2>3 DEF Arrived
<1>7. CASE i # 0
  <2>1. PICK v \in Seq(Tokens) : v = Append(w, i)
    BY <1>2, Extended
  <2>2. Way(Append(l, i)) = v
    BY <1>2, <1>4, <1>7, <2>1
  <2>3. Get(t, v) = ElementAt(l, i)
    <3>1. Get(t, v) = Step(t, ValueAt(l), i)
      BY <1>2, <1>3, <2>1, GetAppended
    <3> QED
      BY <3>1, FromValue
  <2>4. Get(t, Append(v, Slash)) = Start(Append(l, i))
    <3>1. Get(t, Append(v, Slash)) = Step(t, ElementAt(l, i), Slash)
      BY <1>2, <2>3, GetAppended
    <3> QED
      BY <3>1, FromElement
  <2>5. \A n \in Names : Step(t, Start(Append(l, i)), n) = StepName(t, Append(l, i), n)
    BY FromConfig
  <2> QED
    BY <1>5, <2>2, <2>4, <2>5 DEF Arrived
<1> QED
  BY <1>6, <1>7

LEMMA Arrives ==
    ASSUME NEW t, Grown(t), NEW l \in DOMAIN t
    PROVE  Way(l) \in Seq(Tokens) /\ Get(t, Way(l)) = ValueAt(l)
<1>1. l \in Seq(Places) /\ Len(l) % 2 = 1 /\ Len(l) \in Nat
  BY GrownPlaces
<1> DEFINE S == {k \in Nat : k <= Len(l) => Arrived(t, Upto(l, k), k)}
<1>2. 0 \in S
  <2>1. Upto(l, 0) = <<>>
    BY DEF Upto
  <2> QED
    BY <2>1, StartsAtRoot
<1>3. ASSUME NEW k \in Nat, k \in S PROVE k + 1 \in S
  <2>1. SUFFICES ASSUME k + 1 <= Len(l) PROVE Arrived(t, Upto(l, k + 1), k + 1)
    OBVIOUS
  <2>2. PICK j \in 1 .. Len(l) : j = k + 1
    BY <2>1
  <2>3. PICK m : m = Upto(l, k)
    OBVIOUS
  <2>4. Arrived(t, m, k) /\ k \in 0 .. Len(l) /\ m \in Seq(Places)
    <3>1. k \in 0 .. Len(l)
      BY <1>1, <2>1
    <3>2. Arrived(t, m, k)
      BY <1>1, <1>3, <2>1, <2>3
    <3> QED
      BY <1>1, <2>3, <3>1, <3>2, Prefix
  <2>5. PICK x : x = l[j]
    OBVIOUS
  <2>6. Upto(l, j) = Append(m, x)
    <3>1. /\ Upto(l, j) \in Seq(Places) /\ Len(Upto(l, j)) = j
          /\ \A i \in 1 .. j : Upto(l, j)[i] = l[i]
      BY <1>1, Prefix
    <3>2. PICK u : u = Upto(l, j)
      OBVIOUS
    <3>3. u = Append(Upto(u, Len(u) - 1), u[Len(u)])
      BY <3>1, <3>2, LastPart
    <3>4. Len(u) - 1 = k /\ u[Len(u)] = x
      BY <2>2, <2>5, <3>1, <3>2
    <3>5. Upto(u, k) = m
      <4>1. j \in 0 .. Len(l) /\ k \in 0 .. j
        BY <2>2
      <4> QED
        BY <1>1, <2>3, <3>2, <4>1, PrefixOfPrefix
    <3> QED
      BY <3>2, <3>3, <3>4, <3>5
  <2>7. CASE k % 2 = 0
    <3>1. j % 2 = 1 /\ x \in Names
      BY <2>2, <2>5, <2>7, Odd, NameAt DEF Grown
    <3>2. Append(m, x) \in DOMAIN t
      BY <2>6, <3>1, PartThere
    <3> QED
      BY <2>2, <2>4, <2>6, <2>7, <3>1, <3>2, NextName
  <2>8. CASE k % 2 = 1
    <3>1. j % 2 = 0 /\ j - 1 = k
      BY <2>2, <2>8, Odd
    <3>2. t[m].type = "object" /\ x \in Nat /\ x < t[m].len
      BY <2>3, <2>5, <3>1 DEF Grown, Stands, Holds
    <3> QED
      BY <2>2, <2>4, <2>6, <2>8, <3>2, NextIndex
  <2> QED
    BY <2>7, <2>8, Odd
<1> HIDE DEF S
<1>4. Nat \subseteq S
  BY <1>2, <1>3, Induction
<1>5. Arrived(t, Upto(l, Len(l)), Len(l))
  BY <1>1, <1>4 DEF S
<1>6. Upto(l, Len(l)) = l
  BY <1>1, WholePrefix
<1> QED
  BY <1>1, <1>5, <1>6 DEF Arrived

\* The path of an element, when all uplinks are there.
WayTo(l, i) == Way(l) \o (IF i = 0 THEN <<>> ELSE <<i>>)

LEMMA WayLeads ==
    ASSUME NEW t, Grown(t), NEW l \in DOMAIN t, NEW i \in Nat, i < t[l].len
    PROVE  /\ Found(t, WayTo(l, i))
           /\ Get(t, WayTo(l, i)).loc = l /\ Get(t, WayTo(l, i)).idx = i
<1>1. Way(l) \in Seq(Tokens) /\ Get(t, Way(l)) = ValueAt(l)
  BY Arrives
<1>2. CASE i = 0
  <2>1. WayTo(l, i) = Way(l)
    BY <1>1, <1>2, ConcatEmptySeq DEF WayTo
  <2> QED
    BY <1>1, <1>2, <2>1 DEF Found, ValueAt
<1>3. CASE i # 0
  <2>1. i \in Tokens
    BY DEF Tokens
  <2>2. WayTo(l, i) = Append(Way(l), i)
    BY <1>1, <1>3, <2>1 DEF WayTo
  <2>3. Get(t, WayTo(l, i)) = Step(t, ValueAt(l), i)
    BY <1>1, <2>1, <2>2, GetAppended
  <2>4. Get(t, WayTo(l, i)) = ElementAt(l, i)
    BY <2>3, FromValue
  <2> QED
    BY <2>4 DEF Found, ElementAt
<1> QED
  BY <1>2, <1>3

\* get_path gives that path for a place below objects with their uplinks.
LEMMA PathIsWay ==
    ASSUME PlainNames, NEW t, NEW l, Stands(t, l), NEW i,
           \A k \in 1 .. Len(l) - 1 : k % 2 = 1 => t[Upto(l, k)].uplinked
    PROVE  PathOf(t, FALSE, l, i) = WayTo(l, i)
<1> DEFINE Token(k) == IF ~Known(t, l, k) THEN <<>> ELSE
                       IF k % 2 = 1 THEN <<Slash>> \o Spelling[l[k]] ELSE
                       IF l[k] = 0 THEN <<>> ELSE <<l[k]>>
<1>1. ASSUME NEW k \in 1 .. Len(l) PROVE Token(k) = Spell(l[k])
  <2>1. Known(t, l, k)
    BY DEF Known, Upto
  <2>2. CASE k % 2 = 1
    <3>1. l[k] \in Names
      BY <2>2, NameAt
    <3>2. PICK n \in Names : n = l[k] /\ Spelling[n] = <<n>>
      BY <3>1 DEF PlainNames, Plain
    <3>3. <<Slash>> \o <<n>> = <<Slash, n>>
      <4>1. n \in Tokens /\ Slash \in Tokens
        BY DEF Tokens
      <4> QED
        BY <4>1, Pair
    <3> QED
      BY <2>1, <2>2, <3>2, <3>3 DEF Spell
  <2>3. CASE k % 2 = 0
    <3>1. l[k] \in Nat /\ l[k] \notin Names
      BY <2>3, Signs DEF Stands, Holds
    <3> QED
      BY <2>1, <2>3, <3>1 DEF Spell
  <2> QED
    BY <2>2, <2>3, Odd
<1>2. [k \in 1 .. Len(l) |-> Token(k)] = [k \in 1 .. Len(l) |-> Spell(l[k])]
  BY <1>1
<1>3. PathOf(t, FALSE, l, i) =
        FlattenSeq([k \in 1 .. Len(l) |-> Token(k)]) \o IF i = 0 THEN <<>> ELSE <<i>>
  BY DEF PathOf
<1> HIDE DEF Token
<1> QED
  BY <1>2, <1>3 DEF WayTo, Way

\* Every object knows where its configs are.
Linked(t) == \A l \in DOMAIN t : t[l].type = "object" => t[l].uplinked

GInv == Grown(tree.conf) /\ Grown(tree.patch)

\* A patch that is a copy has lost its uplinks.
LInv == Linked(tree.conf) /\ (~copied => Linked(tree.patch))

\* A value whose contents are as long as its len says.
Shaped(v) ==
    /\ v = [type |-> v.type, len |-> v.len, bool |-> v.bool, bound |-> v.bound,
            array |-> v.array, valid |-> v.valid, uplinked |-> v.uplinked, at |-> v.at]
    /\ v.len \in Nat
    /\ v.at = [i \in 1 .. v.len |-> v.at[i]]

ShapedTree(t) == /\ t = [l \in DOMAIN t |-> t[l]]
                 /\ \A l \in DOMAIN t : Shaped(t[l])

IInv == /\ tree = [conf |-> tree.conf, patch |-> tree.patch]
        /\ ShapedTree(tree.conf) /\ ShapedTree(tree.patch)

-----------------------------------------------------------------------------
(* What makes values and trees                                               *)

LEMMA NewShaped ==
    ASSUME NEW type, NEW len \in Nat, NEW array, NEW bool
    PROVE  /\ Shaped(NewValue(type, len, array, bool))
           /\ NewValue(type, len, array, bool).len = len
BY DEF NewValue, Shaped

LEMMA ContentsShaped ==
    ASSUME NEW v, Shaped(v), NEW at, at = [i \in 1 .. v.len |-> at[i]]
    PROVE  Shaped([v EXCEPT !.at = at])
<1>1. PICK u : u = [v EXCEPT !.at = at]
  OBVIOUS
<1>2. /\ u = [type |-> u.type, len |-> u.len, bool |-> u.bool, bound |-> u.bound,
              array |-> u.array, valid |-> u.valid, uplinked |-> u.uplinked, at |-> u.at]
      /\ u.len = v.len /\ u.at = at
  BY <1>1 DEF Shaped
<1>3. u.len \in Nat
  BY <1>2 DEF Shaped
<1>4. u.at = [i \in 1 .. u.len |-> u.at[i]]
  BY <1>2
<1> QED
  BY <1>1, <1>2, <1>3, <1>4 DEF Shaped

LEMMA FlagShaped ==
    ASSUME NEW v, Shaped(v), NEW x
    PROVE  /\ Shaped([v EXCEPT !.valid = x])
           /\ Shaped([v EXCEPT !.bound = x])
<1>1. Shaped([v EXCEPT !.valid = x])
  BY DEF Shaped
<1>2. Shaped([v EXCEPT !.bound = x])
  BY DEF Shaped
<1> QED
  BY <1>1, <1>2

LEMMA LoadShaped ==
    ASSUME NEW doc, IsDocument(doc)
    PROVE  ShapedTree(Load(doc))
<1>1. ASSUME NEW l \in DOMAIN doc PROVE Shaped(FromJson(doc[l]))
  <2> DEFINE node == doc[l]
  <2>1. Len(node.at) \in Nat /\ DOMAIN node.at = 1 .. Len(node.at)
    BY DEF IsDocument, IsNode
  <2>2. PICK v : v = NewValue(TypeOf(node), Len(node.at), node.array,
                              Kinds(node) \cap {"true", "false"} # {})
    OBVIOUS
  <2>3. Shaped(v) /\ v.len = Len(node.at)
    BY <2>1, <2>2, NewShaped
  <2>4. FromJson(node) = [v EXCEPT !.valid = TypeOf(node) # "none",
                                   !.uplinked = TypeOf(node) = "object",
                                   !.at = [i \in DOMAIN node.at |-> Content(node.at[i])]]
    BY <2>2 DEF FromJson
  <2> QED
    BY <2>1, <2>3, <2>4 DEF Shaped
<1> QED
  BY <1>1 DEF Load, ShapedTree

LEMMA PutShaped ==
    ASSUME NEW t, ShapedTree(t), NEW l, NEW v, Shaped(v)
    PROVE  ShapedTree([x \in DOMAIN t \cup {l} |-> IF x = l THEN v ELSE t[x]])
BY DEF ShapedTree

LEMMA KeptShaped ==
    ASSUME NEW t, ShapedTree(t), NEW S, S \subseteq DOMAIN t
    PROVE  ShapedTree([l \in S |-> t[l]])
BY DEF ShapedTree

\* A value that moves stays what it is.
LEMMA MovedShaped ==
    ASSUME NEW t, ShapedTree(t), NEW to, DOMAIN to = DOMAIN t
    PROVE  ShapedTree(Moved(t, to))
<1>1. \A m \in {to[l] : l \in DOMAIN t} : (CHOOSE l \in DOMAIN t : to[l] = m) \in DOMAIN t
  OBVIOUS
<1> QED
  BY <1>1 DEF Moved, ShapedTree

LEMMA StandsAppended ==
    ASSUME NEW t, NEW l, Stands(t, l), NEW x \in Places,
           Len(l) % 2 = 0 => x \in Names, Len(l) % 2 = 1 => Holds(t, l, x)
    PROVE  Stands(t, Append(l, x))
<1>1. l \in Seq(Places) /\ Len(l) \in Nat
  BY LenProperties DEF Stands
<1>2. PICK m : m = Append(l, x)
  OBVIOUS
<1>3. /\ m \in Seq(Places) /\ Len(m) = Len(l) + 1 /\ m[Len(l) + 1] = x
      /\ \A k \in 1 .. Len(l) : m[k] = l[k]
  BY <1>1, <1>2, Extended
<1>4. \A k \in 0 .. Len(l) : Upto(m, k) = Upto(l, k)
  BY <1>1, <1>2, PrefixExtended
<1>5. ASSUME NEW k \in 1 .. Len(m), k % 2 = 1 PROVE m[k] \in Names
  <2>1. CASE k \in 1 .. Len(l)
    BY <1>3, <1>5, <2>1, NameAt
  <2>2. CASE k = Len(l) + 1
    BY <1>1, <1>3, <1>5, <2>2, Odd
  <2> QED
    BY <1>1, <1>3, <2>1, <2>2
<1>6. ASSUME NEW k \in 1 .. Len(m), k % 2 = 0 PROVE Holds(t, Upto(m, k - 1), m[k])
  <2>1. CASE k \in 1 .. Len(l)
    <3>1. k - 1 \in 0 .. Len(l)
      BY <1>1, <2>1
    <3> QED
      BY <1>3, <1>4, <1>6, <2>1, <3>1, IndexAt
  <2>2. CASE k = Len(l) + 1
    <3>1. k - 1 = Len(l) /\ Len(l) \in 0 .. Len(l) /\ Len(l) % 2 = 1
      BY <1>1, <1>6, <2>2, Odd
    <3>2. Upto(m, k - 1) = l
      BY <1>1, <1>4, <3>1, WholePrefix
    <3> QED
      BY <1>3, <2>2, <3>1, <3>2
  <2> QED
    BY <1>1, <1>3, <2>1, <2>2
<1> QED
  BY <1>2, <1>3, <1>5, <1>6 DEF Stands

LEMMA ConfigStands ==
    ASSUME NEW t, Grown(t), ShapedTree(t), NEW c \in Configs(t)
    PROVE  c \in Seq(Places) /\ Len(c) \in Nat /\ Len(c) % 2 = 0 /\ Stands(t, c)
<1>1. CASE c = <<>>
  <2>1. <<>> \in Seq(Places) /\ Len(<<>>) = 0 /\ 0 % 2 = 0
    OBVIOUS
  <2>2. Stands(t, <<>>)
    BY <2>1 DEF Stands
  <2> QED
    BY <1>1, <2>1, <2>2
<1>2. CASE c # <<>>
  <2>1. PICK l \in DOMAIN t : \E i \in 0 .. t[l].len - 1 : t[l].type = "object" /\ c = Append(l, i)
    BY <1>2 DEF Configs, Elements
  <2>2. t[l].len \in Nat
    BY DEF ShapedTree, Shaped
  <2>3. PICK i \in 0 .. t[l].len - 1 : t[l].type = "object" /\ c = Append(l, i)
    BY <2>1
  <2>4. Holds(t, l, i) /\ i \in Places
    BY <2>2, <2>3 DEF Holds, Places
  <2>5. l \in Seq(Places) /\ Len(l) % 2 = 1 /\ Len(l) \in Nat /\ Stands(t, l)
    BY GrownPlaces DEF Grown
  <2>6. Stands(t, c)
    <3>1. Len(l) % 2 # 0
      BY <2>5
    <3> QED
      BY <2>3, <2>4, <2>5, <3>1, StandsAppended
  <2>7. c \in Seq(Places) /\ Len(c) = Len(l) + 1
    BY <2>3, <2>4, <2>5, Extended
  <2> QED
    BY <2>5, <2>6, <2>7, Odd
<1> QED
  BY <1>1, <1>2

\* What stands in t stands in u, if its objects are there too.
LEMMA StandsIn ==
    ASSUME NEW t, NEW l, Stands(t, l), NEW u,
           \A k \in 1 .. Len(l) - 1 : k % 2 = 1 =>
              \A i : Holds(t, Upto(l, k), i) => Holds(u, Upto(l, k), i)
    PROVE  Stands(u, l)
<1>1. l \in Seq(Places) /\ Len(l) \in Nat
  BY LenProperties DEF Stands
<1>2. ASSUME NEW k \in 1 .. Len(l), k % 2 = 0 PROVE Holds(u, Upto(l, k - 1), l[k])
  <2>1. Holds(t, Upto(l, k - 1), l[k])
    BY <1>2, IndexAt
  <2>2. PICK j : j = k - 1
    OBVIOUS
  <2>3. j \in 1 .. Len(l) - 1 /\ j % 2 = 1
    BY <1>1, <1>2, <2>2
  <2> QED
    BY <2>1, <2>2, <2>3
<1>3. \A k \in 1 .. Len(l) : k % 2 = 1 => l[k] \in Names
  BY NameAt
<1> QED
  BY <1>1, <1>2, <1>3 DEF Stands

\* More values, or the same ones with other contents.
LEMMA GrownMore ==
    ASSUME NEW t, Grown(t), NEW u, DOMAIN t \subseteq DOMAIN u,
           \A a \in DOMAIN t : u[a].type = t[a].type /\ u[a].len = t[a].len,
           \A l \in DOMAIN u \ DOMAIN t : Stands(u, l) /\ Len(l) % 2 = 1
    PROVE  Grown(u)
<1>1. ASSUME NEW l \in DOMAIN t PROVE Stands(u, l) /\ Len(l) % 2 = 1
  <2>1. Stands(t, l) /\ Len(l) % 2 = 1
    BY DEF Grown
  <2>2. \A a, i : Holds(t, a, i) => Holds(u, a, i)
    BY DEF Holds
  <2> QED
    BY <2>1, <2>2, StandsIn
<1> QED
  BY <1>1 DEF Grown

\* Fewer values, none left without the objects it stands in.
LEMMA GrownLess ==
    ASSUME NEW t, Grown(t), NEW S, S \subseteq DOMAIN t,
           \A l \in S : \A k \in 1 .. Len(l) - 1 :
              k % 2 = 1 /\ Upto(l, k) \in DOMAIN t => Upto(l, k) \in S
    PROVE  Grown([l \in S |-> t[l]])
<1> DEFINE u == [l \in S |-> t[l]]
<1>1. ASSUME NEW l \in S PROVE Stands(u, l) /\ Len(l) % 2 = 1
  <2>1. Stands(t, l) /\ Len(l) % 2 = 1
    BY DEF Grown
  <2>2. \A k \in 1 .. Len(l) - 1 : k % 2 = 1 =>
           \A i : Holds(t, Upto(l, k), i) => Holds(u, Upto(l, k), i)
    BY DEF Holds
  <2> HIDE DEF u
  <2> QED
    BY <2>1, <2>2, StandsIn
<1> QED
  BY <1>1 DEF Grown

LEMMA NamePlace ==
    ASSUME NEW t, Grown(t), ShapedTree(t), NEW c \in Configs(t), NEW n \in Names
    PROVE  Stands(t, Append(c, n)) /\ Len(Append(c, n)) % 2 = 1 /\ Len(Append(c, n)) = Len(c) + 1
<1>1. c \in Seq(Places) /\ Len(c) \in Nat /\ Len(c) % 2 = 0 /\ Stands(t, c)
  BY ConfigStands
<1>2. n \in Places /\ Len(c) % 2 # 1
  BY <1>1 DEF Places
<1>3. Stands(t, Append(c, n))
  BY <1>1, <1>2, StandsAppended
<1>4. Len(Append(c, n)) = Len(c) + 1
  BY <1>1, <1>2, Extended
<1> QED
  BY <1>1, <1>3, <1>4, Odd

\* The tree u has one more value than t.
Adds(t, l, u) == DOMAIN u = DOMAIN t \cup {l} /\ \A a \in DOMAIN t : u[a] = t[a]

LEMMA PutGrown ==
    ASSUME NEW t, Grown(t), ShapedTree(t), NEW c \in Configs(t), NEW n \in Names,
           NEW l, l = Append(c, n), l \notin DOMAIN t, NEW u, Adds(t, l, u)
    PROVE  Grown(u)
<1>1. Stands(t, l) /\ Len(l) % 2 = 1
  BY NamePlace
<1>2. /\ DOMAIN t \subseteq DOMAIN u /\ DOMAIN u \ DOMAIN t = {l}
      /\ \A a \in DOMAIN t : u[a] = t[a]
  BY DEF Adds
<1>3. \A a, i : Holds(t, a, i) => Holds(u, a, i)
  BY <1>2 DEF Holds
<1>4. Stands(u, l)
  BY <1>1, <1>3, StandsIn
<1> QED
  BY <1>1, <1>2, <1>4, GrownMore

LEMMA RemoveGrown ==
    ASSUME NEW t, Grown(t), NEW loc
    PROVE  Grown([l \in DOMAIN t \ Below(t, loc) |-> t[l]])
<1> DEFINE S == DOMAIN t \ Below(t, loc)
<1>1. ASSUME NEW l \in S, NEW k \in 1 .. Len(l) - 1, k % 2 = 1, Upto(l, k) \in DOMAIN t
      PROVE  Upto(l, k) \in S
  <2>1. SUFFICES ASSUME Upto(l, k) \in Below(t, loc) PROVE FALSE
    BY <1>1
  <2>2. l \in Seq(Places) /\ Len(l) \in Nat
    BY GrownPlaces
  <2>3. loc \notin Above(l)
    BY DEF Below
  <2>4. k \in 0 .. Len(l) /\ Len(Upto(l, k)) = k
    BY <2>2, Prefix
  <2>5. CASE loc = Upto(l, k)
    BY <1>1, <2>3, <2>5 DEF Above, Upto
  <2>6. CASE loc \in Above(Upto(l, k))
    <3>1. PICK j \in 1 .. k - 1 : j % 2 = 1 /\ loc = Upto(Upto(l, k), j)
      BY <2>4, <2>6 DEF Above, Upto
    <3>2. j \in 0 .. k /\ j \in 1 .. Len(l) - 1
      BY <2>2, <2>4
    <3>3. loc = Upto(l, j)
      BY <2>2, <2>4, <3>1, <3>2, PrefixOfPrefix
    <3> QED
      BY <2>3, <3>1, <3>2, <3>3 DEF Above, Upto
  <2> QED
    BY <2>1, <2>5, <2>6 DEF Below
<1> HIDE DEF S
<1>2. S \subseteq DOMAIN t
  BY DEF S
<1>3. Grown([l \in S |-> t[l]])
  BY <1>1, <1>2, GrownLess
<1> QED
  BY <1>3 DEF S

LEMMA ClearGrown ==
    ASSUME NEW t, Grown(t), NEW c, Len(c) \in Nat
    PROVE  Grown([l \in {l \in DOMAIN t : ~IsStrictPrefix(c, l)} |-> t[l]])
<1> DEFINE S == {l \in DOMAIN t : ~IsStrictPrefix(c, l)}
<1>1. ASSUME NEW l \in S, NEW k \in 1 .. Len(l) - 1, k % 2 = 1, Upto(l, k) \in DOMAIN t
      PROVE  Upto(l, k) \in S
  <2>1. SUFFICES ASSUME IsStrictPrefix(c, Upto(l, k)) PROVE IsStrictPrefix(c, l)
    BY <1>1
  <2>2. l \in Seq(Places) /\ Len(l) \in Nat
    BY GrownPlaces
  <2>3. k \in 0 .. Len(l) /\ Len(Upto(l, k)) = k
    BY <2>2, Prefix
  <2>4. Len(c) <= k /\ Upto(c, Len(c)) = Upto(Upto(l, k), Len(c))
    BY <2>1, <2>3 DEF IsStrictPrefix, IsPrefix, Upto
  <2>5. Upto(Upto(l, k), Len(c)) = Upto(l, Len(c))
    <3>1. Len(c) \in 0 .. k
      BY <2>4
    <3> QED
      BY <2>2, <2>3, <3>1, PrefixOfPrefix
  <2>6. Len(c) <= Len(l) /\ c # l
    BY <2>2, <2>4
  <2> QED
    BY <2>4, <2>5, <2>6 DEF IsStrictPrefix, IsPrefix, Upto
<1> HIDE DEF S
<1>2. S \subseteq DOMAIN t
  BY DEF S
<1>3. Grown([l \in S |-> t[l]])
  BY <1>1, <1>2, GrownLess
<1> QED
  BY <1>3 DEF S

LEMMA FromJsonIs ==
    ASSUME NEW node
    PROVE  /\ FromJson(node).type = TypeOf(node) /\ FromJson(node).len = Len(node.at)
           /\ FromJson(node).uplinked = (TypeOf(node) = "object")
BY DEF FromJson, NewValue

\* An array that holds an object holds nothing else, or is refused.
LEMMA ObjectsAlone ==
    ASSUME NEW node, "object" \in Kinds(node), TypeOf(node) # "refused"
    PROVE  TypeOf(node) = "object"
<1> DEFINE ks == Kinds(node)
<1>1. /\ ks # {} /\ ks # {"null"} /\ ks # {"string"} /\ ks # {"integer"}
      /\ ~(ks \subseteq {"true", "false"}) /\ ~(ks \subseteq {"integer", "real"})
  OBVIOUS
<1>2. CASE ks = {"object"}
  BY <1>1, <1>2 DEF TypeOf
<1>3. CASE ks # {"object"}
  BY <1>1, <1>3 DEF TypeOf
<1> QED
  BY <1>2, <1>3

LEMMA LoadGrown ==
    ASSUME NEW doc, IsDocument(doc)
    PROVE  Grown(Load(doc)) /\ Linked(Load(doc))
<1> DEFINE D == {l \in DOMAIN doc : \A a \in Above(l) \cup {l} : Kept(doc, a)}
           u == [l \in D |-> FromJson(doc[l])]
<1>1. IsDocument(doc)
  OBVIOUS
<1>2. ASSUME NEW l \in D
      PROVE  Stands(u, l) /\ Len(l) % 2 = 1
  <2>1. l \in Seq(Places) /\ Len(l) % 2 = 1
    BY <1>1 DEF IsDocument, Places
  <2>2. Len(l) \in Nat
    BY <2>1, LenProperties
  <2>3. ASSUME NEW k \in 1 .. Len(l), k % 2 = 1 PROVE l[k] \in Names
    BY <1>1, <2>3 DEF IsDocument
  <2>4. ASSUME NEW k \in 1 .. Len(l), k % 2 = 0 PROVE Holds(u, Upto(l, k - 1), l[k])
    <3>1. PICK a : a = Upto(l, k - 1)
      OBVIOUS
    <3>2. /\ l[k] \in Nat /\ a \in DOMAIN doc /\ l[k] < Len(doc[a].at)
          /\ doc[a].at[l[k] + 1].kind = "object"
      <4>1. k % 2 # 1
        BY <2>4
      <4> QED
        BY <1>1, <3>1, <4>1 DEF IsDocument, Upto
    <3>3. PICK j : j = k - 1
      OBVIOUS
    <3>4. j \in 1 .. Len(l) - 1 /\ j % 2 = 1 /\ j \in 0 .. Len(l)
      BY <2>2, <2>4, <3>3
    <3>5. a \in Above(l) /\ Len(a) = j
      BY <2>1, <3>1, <3>3, <3>4, Prefix DEF Above, Upto
    <3>6. ASSUME NEW b \in Above(a) PROVE b \in Above(l)
      <4>1. PICK i \in 1 .. j - 1 : i % 2 = 1 /\ b = Upto(a, i)
        BY <3>5, <3>6 DEF Above, Upto
      <4>2. i \in 0 .. j /\ i \in 1 .. Len(l) - 1
        BY <2>2, <3>4
      <4>3. b = Upto(l, i)
        BY <2>1, <3>1, <3>3, <3>4, <4>1, <4>2, PrefixOfPrefix
      <4> QED
        BY <4>1, <4>2, <4>3 DEF Above, Upto
    <3>7. a \in D /\ Kept(doc, a)
      BY <3>2, <3>5, <3>6
    <3>8. TypeOf(doc[a]) = "object"
      <4>1. l[k] + 1 \in DOMAIN doc[a].at
        BY <1>1, <3>2 DEF IsDocument, IsNode
      <4>2. "object" \in Kinds(doc[a])
        BY <3>2, <4>1 DEF Kinds
      <4> QED
        BY <3>7, <4>2, ObjectsAlone DEF Kept
    <3>9. a \in DOMAIN u /\ u[a].type = "object" /\ u[a].len = Len(doc[a].at)
      BY <3>7, <3>8, FromJsonIs
    <3> HIDE DEF u, D
    <3> QED
      BY <3>1, <3>2, <3>9 DEF Holds
  <2> HIDE DEF u, D
  <2> QED
    BY <2>1, <2>3, <2>4 DEF Stands
<1>3. \A l \in D : u[l].type = "object" => u[l].uplinked
  BY FromJsonIs
<1>4. DOMAIN u = D /\ u = Load(doc)
  BY DEF Load
<1> HIDE DEF u, D
<1> QED
  BY <1>2, <1>3, <1>4 DEF Grown, Linked

LEMMA Joined ==
    ASSUME NEW b \in Seq(Places), NEW l \in Seq(Places)
    PROVE  /\ b \o l \in Seq(Places) /\ Len(b \o l) = Len(b) + Len(l)
           /\ \A k \in 1 .. Len(b) : (b \o l)[k] = b[k]
           /\ \A k \in 1 .. Len(l) : (b \o l)[Len(b) + k] = l[k]
BY ConcatProperties, LenProperties

LEMMA PrefixOfFirst ==
    ASSUME NEW b \in Seq(Places), NEW l \in Seq(Places), NEW k \in 0 .. Len(b)
    PROVE  Upto(b \o l, k) = Upto(b, k)
<1>1. PICK m : m = b \o l
  OBVIOUS
<1>2. /\ m \in Seq(Places) /\ Len(m) = Len(b) + Len(l)
      /\ \A i \in 1 .. Len(b) : m[i] = b[i]
      /\ Len(b) \in Nat /\ Len(l) \in Nat
  BY <1>1, Joined, LenProperties
<1>3. k \in 0 .. Len(m) /\ \A i \in 1 .. k : i \in 1 .. Len(b)
  BY <1>2
<1>4. /\ Upto(m, k) \in Seq(Places) /\ Len(Upto(m, k)) = k
      /\ \A i \in 1 .. k : Upto(m, k)[i] = m[i]
  BY <1>2, <1>3, Prefix
<1>5. /\ Upto(b, k) \in Seq(Places) /\ Len(Upto(b, k)) = k
      /\ \A i \in 1 .. k : Upto(b, k)[i] = b[i]
  BY Prefix
<1>6. Upto(m, k) = Upto(b, k)
  BY <1>2, <1>3, <1>4, <1>5, SameElements
<1> QED
  BY <1>1, <1>6

LEMMA PrefixOfJoined ==
    ASSUME NEW b \in Seq(Places), NEW l \in Seq(Places), NEW j \in 0 .. Len(l)
    PROVE  Upto(b \o l, Len(b) + j) = b \o Upto(l, j)
<1>1. PICK m, r, n : m = b \o l /\ r = Upto(l, j) /\ n = Len(b)
  OBVIOUS
<1>2. /\ m \in Seq(Places) /\ Len(m) = n + Len(l)
      /\ \A i \in 1 .. n : m[i] = b[i]
      /\ \A i \in 1 .. Len(l) : m[n + i] = l[i]
      /\ n \in Nat /\ Len(l) \in Nat
  BY <1>1, Joined, LenProperties
<1>3. r \in Seq(Places) /\ Len(r) = j /\ \A i \in 1 .. j : r[i] = l[i]
  BY <1>1, Prefix
<1>4. /\ b \o r \in Seq(Places) /\ Len(b \o r) = n + j
      /\ \A i \in 1 .. n : (b \o r)[i] = b[i]
      /\ \A i \in 1 .. j : (b \o r)[n + i] = r[i]
  <2>1. /\ b \o r \in Seq(Places) /\ Len(b \o r) = Len(b) + Len(r)
        /\ \A i \in 1 .. Len(b) : (b \o r)[i] = b[i]
        /\ \A i \in 1 .. Len(r) : (b \o r)[Len(b) + i] = r[i]
    BY <1>3, Joined
  <2> QED
    BY <1>1, <1>3, <2>1
<1>5. PICK s : s = b \o r
  OBVIOUS
<1>6. n + j \in 0 .. Len(m)
  BY <1>2
<1>7. /\ Upto(m, n + j) \in Seq(Places) /\ Len(Upto(m, n + j)) = n + j
      /\ \A i \in 1 .. n + j : Upto(m, n + j)[i] = m[i]
  BY <1>2, <1>6, Prefix
<1>8. ASSUME NEW i \in 1 .. n + j PROVE m[i] = s[i]
  <2>1. CASE i \in 1 .. n
    BY <1>2, <1>4, <1>5, <2>1
  <2>2. CASE i \notin 1 .. n
    <3>1. PICK h \in 1 .. j : i = n + h
      <4>1. i - n \in 1 .. j /\ i = n + (i - n)
        BY <1>2, <2>2
      <4> QED
        BY <4>1
    <3>2. h \in 1 .. Len(l)
      BY <1>2
    <3> QED
      BY <1>2, <1>3, <1>4, <1>5, <3>1, <3>2
  <2> QED
    BY <2>1, <2>2
<1>9. Upto(m, n + j) = s
  BY <1>4, <1>5, <1>7, <1>8, SameElements
<1> QED
  BY <1>1, <1>5, <1>9

\* A value that moves is the one there was.
LEMMA MovedIs ==
    ASSUME NEW t, NEW to, DOMAIN to = DOMAIN t,
           \A l, m \in DOMAIN t : to[l] = to[m] => l = m
    PROVE  /\ DOMAIN Moved(t, to) = {to[l] : l \in DOMAIN t}
           /\ \A l \in DOMAIN t : Moved(t, to)[to[l]] = t[l]
<1>1. ASSUME NEW l \in DOMAIN t PROVE Moved(t, to)[to[l]] = t[l]
  <2>1. (CHOOSE x \in DOMAIN t : to[x] = to[l]) = l
    OBVIOUS
  <2> QED
    BY <2>1 DEF Moved
<1> QED
  BY <1>1 DEF Moved

\* What a config d holds, moved to element 0 of the value at "at".
Moves(d, at, to) == DOMAIN to = DOMAIN d /\ \A l \in DOMAIN d : to[l] = at \o <<0>> \o l

\* The tree t with the value self at "at" and the values of part below it.
Brings(t, at, self, part, u) ==
    /\ DOMAIN u = DOMAIN t \cup {at} \cup DOMAIN part
    /\ \A l \in DOMAIN u :
          u[l] = IF l = at THEN self ELSE IF l \in DOMAIN part THEN part[l] ELSE t[l]

\* A config brings what it holds to the place where it is put.
LEMMA PartGrown ==
    ASSUME NEW t, Grown(t), ShapedTree(t), NEW c \in Configs(t), NEW n \in Names,
           NEW at, at = Append(c, n), at \notin DOMAIN t,
           NEW d, Grown(d), NEW to, Moves(d, at, to), NEW part, part = Moved(d, to),
           NEW self, self.type = "object", self.len = 1, NEW u, Brings(t, at, self, part, u)
    PROVE  Grown(u) /\ (Linked(t) /\ Linked(d) /\ self.uplinked => Linked(u))
<1>1. /\ at \in Seq(Places) /\ Len(at) \in Nat /\ Len(at) % 2 = 1 /\ Stands(t, at)
  <2>1. Stands(t, at) /\ Len(at) % 2 = 1
    BY NamePlace
  <2> QED
    BY <2>1, LenProperties DEF Stands
<1>2. PICK base : base = at \o <<0>>
  OBVIOUS
<1>3. 0 \in Places /\ base = Append(at, 0)
  <2>1. 0 \in Places
    BY DEF Places
  <2> QED
    BY <1>1, <1>2, <2>1, AppendIsConcat
<1>4. /\ base \in Seq(Places) /\ Len(base) = Len(at) + 1 /\ Len(base) \in Nat
      /\ Len(base) % 2 = 0 /\ Upto(base, Len(at)) = at
  <2>1. base \in Seq(Places) /\ Len(base) = Len(at) + 1
    BY <1>1, <1>3, Extended
  <2>2. Upto(base, Len(at)) = at
    <3>1. Len(at) \in 0 .. Len(at)
      BY <1>1
    <3>2. Upto(Append(at, 0), Len(at)) = Upto(at, Len(at))
      BY <1>1, <1>3, <3>1, PrefixExtended
    <3>3. Upto(at, Len(at)) = at
      BY <1>1, WholePrefix
    <3> QED
      BY <1>3, <3>2, <3>3
  <2> QED
    BY <1>1, <2>1, <2>2, Odd
<1>5. \A l \in DOMAIN d : l \in Seq(Places) /\ Len(l) \in Nat /\ Len(l) % 2 = 1 /\ Stands(d, l)
  BY GrownPlaces DEF Grown
<1>6. ASSUME NEW l \in DOMAIN d
      PROVE  /\ to[l] = base \o l /\ to[l] \in Seq(Places) /\ Len(to[l]) = Len(base) + Len(l)
             /\ \A k \in 1 .. Len(base) : to[l][k] = base[k]
             /\ \A k \in 1 .. Len(l) : to[l][Len(base) + k] = l[k]
             /\ Upto(to[l], Len(at)) = at
  <2>1. to[l] = base \o l
    BY <1>2 DEF Moves
  <2>2. Len(at) \in 0 .. Len(base)
    BY <1>1, <1>4
  <2>3. Upto(base \o l, Len(at)) = at
    BY <1>4, <1>5, <2>2, PrefixOfFirst
  <2>4. /\ base \o l \in Seq(Places) /\ Len(base \o l) = Len(base) + Len(l)
        /\ \A k \in 1 .. Len(base) : (base \o l)[k] = base[k]
        /\ \A k \in 1 .. Len(l) : (base \o l)[Len(base) + k] = l[k]
    <3>1. base \in Seq(Places) /\ l \in Seq(Places)
      BY <1>4, <1>5
    <3> QED
      BY <3>1, Joined
  <2> QED
    BY <2>1, <2>3, <2>4
<1>7. ASSUME NEW l \in DOMAIN d, NEW m \in DOMAIN d, to[l] = to[m] PROVE l = m
  <2>1. Len(l) = Len(m)
    BY <1>4, <1>5, <1>6, <1>7
  <2>2. /\ \A k \in 1 .. Len(l) : to[l][Len(base) + k] = l[k]
        /\ \A k \in 1 .. Len(m) : to[m][Len(base) + k] = m[k]
    BY <1>6
  <2>3. \A k \in 1 .. Len(l) : l[k] = m[k]
    BY <1>7, <2>1, <2>2
  <2> QED
    BY <1>5, <2>1, <2>3, SameElements
<1>8. DOMAIN part = {to[l] : l \in DOMAIN d} /\ \A l \in DOMAIN d : part[to[l]] = d[l]
  <2>1. DOMAIN to = DOMAIN d
    BY DEF Moves
  <2>2. \A l, m \in DOMAIN d : to[l] = to[m] => l = m
    BY <1>7
  <2>3. PICK z : z = to
    OBVIOUS
  <2>4. DOMAIN z = DOMAIN d /\ \A l, m \in DOMAIN d : z[l] = z[m] => l = m
    BY <2>1, <2>2, <2>3
  <2>5. /\ DOMAIN Moved(d, z) = {z[l] : l \in DOMAIN d}
        /\ \A l \in DOMAIN d : Moved(d, z)[z[l]] = d[l]
    BY ONLY <2>4, MovedIs
  <2> QED
    BY <2>3, <2>5
<1>9. ASSUME NEW l \in DOMAIN d PROVE to[l] \notin DOMAIN t \cup {at}
  <2>1. to[l] # at
    BY <1>1, <1>4, <1>5, <1>6
  <2>2. ASSUME to[l] \in DOMAIN t PROVE FALSE
    <3>1. Len(at) \in 1 .. Len(to[l])
      BY <1>1, <1>4, <1>5, <1>6
    <3>2. Upto(to[l], Len(at)) \in DOMAIN t
      BY <1>1, <2>2, <3>1, PartThere
    <3> QED
      BY <1>6, <3>2
  <2> QED
    BY <2>1, <2>2
<1>10. /\ DOMAIN u = DOMAIN t \cup {at} \cup DOMAIN part
       /\ \A l \in DOMAIN t : u[l] = t[l]
       /\ u[at] = self
       /\ \A l \in DOMAIN d : to[l] \in DOMAIN u /\ u[to[l]] = d[l]
  <2>1. \A l \in DOMAIN t : l # at /\ l \notin DOMAIN part
    BY <1>8, <1>9
  <2>2. \A l \in DOMAIN d : to[l] # at /\ to[l] \in DOMAIN part
    BY <1>8, <1>9
  <2> QED
    BY <1>8, <2>1, <2>2 DEF Brings
<1>11. \A a, i : Holds(t, a, i) => Holds(u, a, i)
  BY <1>10 DEF Holds
<1>12. Holds(u, at, 0)
  BY <1>10 DEF Holds
<1>13. Stands(u, at)
  BY <1>1, <1>11, StandsIn
<1>14. Stands(u, base)
  <2>1. Len(at) % 2 # 0
    BY <1>1
  <2> QED
    BY <1>3, <1>12, <1>13, <2>1, StandsAppended
<1>15. ASSUME NEW l \in DOMAIN d PROVE Stands(u, to[l]) /\ Len(to[l]) % 2 = 1
  <2>1. PICK m, b : m = to[l] /\ b = Len(base)
    OBVIOUS
  <2>2. /\ m \in Seq(Places) /\ m = base \o l /\ Len(m) = b + Len(l)
        /\ \A k \in 1 .. b : m[k] = base[k]
        /\ \A k \in 1 .. Len(l) : m[b + k] = l[k]
    BY <1>6, <2>1
  <2>3. b \in Nat /\ b % 2 = 0 /\ Len(l) \in Nat /\ Len(l) % 2 = 1 /\ Stands(d, l)
    BY <1>4, <1>5, <2>1
  <2>4. ASSUME NEW k \in 1 .. Len(m)
        PROVE  k \in 1 .. b \/ \E j \in 1 .. Len(l) : k = b + j /\ j % 2 = k % 2
    <3>1. SUFFICES ASSUME k \notin 1 .. b PROVE \E j \in 1 .. Len(l) : k = b + j /\ j % 2 = k % 2
      OBVIOUS
    <3>2. PICK j \in 1 .. Len(l) : k = b + j
      <4>1. k - b \in 1 .. Len(l) /\ k = b + (k - b)
        BY <2>2, <2>3, <3>1
      <4> QED
        BY <4>1
    <3>3. j % 2 = k % 2
      <4>1. j \in Nat
        OBVIOUS
      <4> QED
        BY <2>3, <3>2, <4>1, EvenAhead
    <3> QED
      BY <3>2, <3>3
  <2>5. ASSUME NEW k \in 1 .. Len(m), k % 2 = 1 PROVE m[k] \in Names
    <3>1. CASE k \in 1 .. b
      BY <1>14, <2>1, <2>2, <2>5, <3>1, NameAt
    <3>2. ASSUME NEW j \in 1 .. Len(l), k = b + j, j % 2 = k % 2 PROVE m[k] \in Names
      BY <2>2, <2>3, <2>5, <3>2, NameAt
    <3> QED
      BY <2>4, <3>1, <3>2
  <2>6. ASSUME NEW k \in 1 .. Len(m), k % 2 = 0 PROVE Holds(u, Upto(m, k - 1), m[k])
    <3>1. CASE k \in 1 .. b
      <4>1. k - 1 \in 0 .. b
        BY <2>3, <3>1
      <4>2. Upto(m, k - 1) = Upto(base, k - 1)
        <5>1. base \in Seq(Places) /\ l \in Seq(Places) /\ k - 1 \in 0 .. Len(base)
          BY <1>4, <1>5, <2>1, <4>1
        <5> QED
          BY <2>2, <5>1, PrefixOfFirst
      <4>3. Holds(u, Upto(base, k - 1), base[k])
        BY <1>14, <2>1, <2>6, <3>1, IndexAt
      <4> QED
        BY <2>2, <3>1, <4>2, <4>3
    <3>2. ASSUME NEW j \in 1 .. Len(l), k = b + j, j % 2 = k % 2
          PROVE  Holds(u, Upto(m, k - 1), m[k])
      <4>1. PICK i : i = j - 1
        OBVIOUS
      <4>2. i \in 1 .. Len(l) /\ i \in 0 .. Len(l) /\ i % 2 = 1 /\ k - 1 = b + i
        <5>1. j \in Nat /\ j > 0 /\ j % 2 = 0
          BY <2>6, <3>2
        <5>2. i >= 1 /\ i % 2 = 1
          BY <4>1, <5>1, Before
        <5> QED
          BY <2>3, <3>2, <4>1, <5>2
      <4>3. Upto(m, k - 1) = base \o Upto(l, i)
        <5>1. base \in Seq(Places) /\ l \in Seq(Places)
          BY <1>4, <1>5
        <5> QED
          BY <2>1, <2>2, <4>2, <5>1, PrefixOfJoined
      <4>4. Holds(d, Upto(l, i), l[j])
        BY <2>3, <2>6, <3>2, <4>1, IndexAt
      <4>5. PICK a \in DOMAIN d : a = Upto(l, i)
        BY <4>4 DEF Holds
      <4>6. to[a] \in DOMAIN u /\ u[to[a]] = d[a] /\ to[a] = base \o a
        BY <1>6, <1>10
      <4> QED
        BY <2>2, <3>2, <4>3, <4>4, <4>5, <4>6 DEF Holds
    <3> QED
      BY <2>4, <3>1, <3>2
  <2>7. Len(m) % 2 = 1
    BY <2>2, <2>3, EvenAhead
  <2> QED
    BY <2>1, <2>2, <2>5, <2>6, <2>7 DEF Stands
<1>16. \A l \in DOMAIN u \ DOMAIN t : l = at \/ \E m \in DOMAIN d : l = to[m]
  BY <1>8, <1>10
<1>17. \A l \in DOMAIN u \ DOMAIN t : Stands(u, l) /\ Len(l) % 2 = 1
  BY <1>1, <1>13, <1>15, <1>16
<1>18. /\ DOMAIN t \subseteq DOMAIN u
       /\ \A a \in DOMAIN t : u[a].type = t[a].type /\ u[a].len = t[a].len
  BY <1>10
<1>19. Grown(u)
  BY <1>17, <1>18, GrownMore
<1>20. \A l \in DOMAIN u : \/ l \in DOMAIN t /\ u[l] = t[l]
                           \/ l = at /\ u[l] = self
                           \/ \E m \in DOMAIN d : u[l] = d[m]
  <2> SUFFICES ASSUME NEW l \in DOMAIN u
               PROVE  \/ l \in DOMAIN t /\ u[l] = t[l]
                      \/ l = at /\ u[l] = self
                      \/ \E m \in DOMAIN d : u[l] = d[m]
    OBVIOUS
  <2>1. CASE l \in DOMAIN t
    BY <1>10, <2>1
  <2>2. CASE l = at
    BY <1>10, <2>2
  <2>3. ASSUME NEW m \in DOMAIN d, l = to[m] PROVE u[l] = d[m]
    BY <1>10, <2>3
  <2> QED
    BY <1>16, <2>1, <2>2, <2>3
<1>21. Linked(t) /\ Linked(d) /\ self.uplinked => Linked(u)
  BY <1>20 DEF Linked
<1> QED
  BY <1>19, <1>21

-----------------------------------------------------------------------------
(* Another name for a value                                                  *)

LEMMA PrefixIs ==
    ASSUME NEW at \in Seq(Places), NEW l \in Seq(Places)
    PROVE  IsPrefix(at, l) <=> Len(at) <= Len(l) /\ Upto(l, Len(at)) = at
<1>1. Upto(at, Len(at)) = at
  BY WholePrefix
<1> QED
  BY <1>1 DEF IsPrefix, Upto

\* The location l when the value at "at" is called new.
Renamed(l, at, new) == IF IsPrefix(at, l) THEN [l EXCEPT ![Len(at)] = new] ELSE l

LEMMA RenamedIs ==
    ASSUME NEW at \in Seq(Places), Len(at) > 0, NEW new \in Places, NEW l \in Seq(Places)
    PROVE  /\ Renamed(l, at, new) \in Seq(Places) /\ Len(Renamed(l, at, new)) = Len(l)
           /\ IsPrefix(at, l) => /\ Len(at) \in 1 .. Len(l)
                                 /\ Renamed(l, at, new)[Len(at)] = new
           /\ \A k \in 1 .. Len(l) : ~IsPrefix(at, l) \/ k # Len(at) => Renamed(l, at, new)[k] = l[k]
<1>1. Len(at) \in Nat /\ Len(l) \in Nat
  BY LenProperties
<1>2. CASE IsPrefix(at, l)
  <2>1. Len(at) \in 1 .. Len(l)
    BY <1>1, <1>2, PrefixIs
  <2>2. PICK m : m = [l EXCEPT ![Len(at)] = new]
    OBVIOUS
  <2>3. m \in Seq(Places) /\ Len(m) = Len(l)
    BY <2>1, <2>2, ExceptSeq
  <2>4. m[Len(at)] = new /\ \A k \in 1 .. Len(l) : k # Len(at) => m[k] = l[k]
    BY <2>1, <2>2
  <2> QED
    BY <1>2, <2>1, <2>2, <2>3, <2>4 DEF Renamed
<1>3. CASE ~IsPrefix(at, l)
  BY <1>3 DEF Renamed
<1> QED
  BY <1>2, <1>3

LEMMA RenamedUpto ==
    ASSUME NEW at \in Seq(Places), Len(at) > 0, NEW new \in Places,
           NEW l \in Seq(Places), NEW j \in 0 .. Len(l)
    PROVE  Upto(Renamed(l, at, new), j) = Renamed(Upto(l, j), at, new)
<1>1. PICK m, a, r, n : /\ m = Renamed(l, at, new) /\ a = Upto(l, j)
                        /\ r = Renamed(a, at, new) /\ n = Len(at)
  OBVIOUS
<1>2. n \in Nat /\ n > 0 /\ Len(l) \in Nat
  BY <1>1, LenProperties
<1>3. a \in Seq(Places) /\ Len(a) = j /\ \A k \in 1 .. j : a[k] = l[k]
  BY <1>1, Prefix
<1>4. /\ m \in Seq(Places) /\ Len(m) = Len(l)
      /\ IsPrefix(at, l) => n \in 1 .. Len(l) /\ m[n] = new
      /\ \A k \in 1 .. Len(l) : ~IsPrefix(at, l) \/ k # n => m[k] = l[k]
  BY <1>1, RenamedIs
<1>5. /\ r \in Seq(Places) /\ Len(r) = j
      /\ IsPrefix(at, a) => n \in 1 .. j /\ r[n] = new
      /\ \A k \in 1 .. j : ~IsPrefix(at, a) \/ k # n => r[k] = a[k]
  <2>1. /\ Renamed(a, at, new) \in Seq(Places) /\ Len(Renamed(a, at, new)) = Len(a)
        /\ IsPrefix(at, a) => Len(at) \in 1 .. Len(a) /\ Renamed(a, at, new)[Len(at)] = new
        /\ \A k \in 1 .. Len(a) : ~IsPrefix(at, a) \/ k # Len(at) => Renamed(a, at, new)[k] = a[k]
    BY <1>3, RenamedIs
  <2> QED
    BY <1>1, <1>3, <2>1
<1>6. Upto(m, j) \in Seq(Places) /\ Len(Upto(m, j)) = j /\ \A k \in 1 .. j : Upto(m, j)[k] = m[k]
  BY <1>4, Prefix
<1>7. n <= j => (IsPrefix(at, a) <=> IsPrefix(at, l))
  <2>1. ASSUME n <= j PROVE Upto(a, n) = Upto(l, n)
    <3>1. n \in 0 .. j
      BY <1>2, <2>1
    <3> QED
      BY <1>1, <3>1, PrefixOfPrefix
  <2>2. IsPrefix(at, a) <=> n <= j /\ Upto(a, n) = at
    BY <1>1, <1>3, PrefixIs
  <2>3. IsPrefix(at, l) <=> n <= Len(l) /\ Upto(l, n) = at
    BY <1>1, PrefixIs
  <2> QED
    BY <1>2, <2>1, <2>2, <2>3
<1>8. ASSUME NEW k \in 1 .. j PROVE m[k] = r[k]
  <2>1. k \in 1 .. Len(l) /\ a[k] = l[k]
    BY <1>2, <1>3
  <2>2. CASE k # n
    BY <1>4, <1>5, <2>1, <2>2
  <2>3. CASE k = n
    BY <1>4, <1>5, <1>7, <2>1, <2>3
  <2> QED
    BY <2>2, <2>3
<1>9. Upto(m, j) = r
  BY <1>5, <1>6, <1>8, SameElements
<1> QED
  BY <1>1, <1>9

Renames(t, c, old, new, to) ==
    /\ DOMAIN to = DOMAIN t
    /\ \A l \in DOMAIN t : to[l] = IF IsPrefix(Append(c, old), l)
                                     THEN [l EXCEPT ![Len(c) + 1] = new] ELSE l

\* A new name that is not taken moves nothing onto something else, and what is
\* below a value stays below it.
LEMMA RenameGrown ==
    ASSUME NEW t, Grown(t), ShapedTree(t), NEW c \in Configs(t), NEW old \in Names,
           NEW new \in Names, Append(c, new) \notin DOMAIN t, Append(c, old) \in DOMAIN t,
           NEW to, Renames(t, c, old, new, to)
    PROVE  /\ Grown(Moved(t, to))
           /\ \A l \in DOMAIN Moved(t, to) : \E m \in DOMAIN t : Moved(t, to)[l] = t[m]
<1>1. PICK at, n : at = Append(c, old) /\ n = Len(at)
  OBVIOUS
<1> DEFINE R(l) == Renamed(l, at, new)
<1>2. c \in Seq(Places) /\ Len(c) \in Nat /\ Len(c) % 2 = 0
  BY ConfigStands
<1>3. old \in Places /\ new \in Places
  BY DEF Places
<1>4. /\ at \in Seq(Places) /\ n = Len(c) + 1 /\ n \in Nat /\ n > 0 /\ n % 2 = 1 /\ at[n] = old
      /\ \A k \in 1 .. Len(c) : at[k] = c[k]
  <2>1. at \in Seq(Places) /\ n = Len(c) + 1 /\ at[n] = old /\ \A k \in 1 .. Len(c) : at[k] = c[k]
    BY <1>1, <1>2, <1>3, Extended
  <2> QED
    BY <1>2, <2>1, Odd
<1>5. \A l \in DOMAIN t : l \in Seq(Places) /\ Len(l) \in Nat /\ Len(l) % 2 = 1 /\ Stands(t, l)
  BY GrownPlaces DEF Grown
<1>6. ASSUME NEW l \in DOMAIN t
      PROVE  /\ to[l] = R(l) /\ R(l) \in Seq(Places) /\ Len(R(l)) = Len(l)
             /\ IsPrefix(at, l) => /\ n \in 1 .. Len(l) /\ R(l)[n] = new /\ l[n] = old
                                   /\ Upto(l, n) = at
             /\ ~IsPrefix(at, l) => R(l) = l
             /\ \A k \in 1 .. Len(l) : k # n => R(l)[k] = l[k]
  <2>1. l \in Seq(Places) /\ Len(l) \in Nat
    BY <1>5
  <2>2. to[l] = R(l)
    BY <1>1, <1>4 DEF Renamed, Renames
  <2>3. /\ R(l) \in Seq(Places) /\ Len(R(l)) = Len(l)
        /\ IsPrefix(at, l) => n \in 1 .. Len(l) /\ R(l)[n] = new
        /\ \A k \in 1 .. Len(l) : ~IsPrefix(at, l) \/ k # n => R(l)[k] = l[k]
    <3>1. /\ Renamed(l, at, new) \in Seq(Places) /\ Len(Renamed(l, at, new)) = Len(l)
          /\ IsPrefix(at, l) => Len(at) \in 1 .. Len(l) /\ Renamed(l, at, new)[Len(at)] = new
          /\ \A k \in 1 .. Len(l) : ~IsPrefix(at, l) \/ k # Len(at) => Renamed(l, at, new)[k] = l[k]
      <4>1. Len(at) > 0
        BY <1>1, <1>4
      <4> QED
        BY <1>3, <1>4, <2>1, <4>1, RenamedIs
    <3> QED
      BY <1>1, <3>1
  <2>4. ASSUME IsPrefix(at, l) PROVE Upto(l, n) = at /\ l[n] = old
    <3>1. Upto(l, n) = at
      BY <1>1, <1>4, <2>1, <2>4, PrefixIs
    <3>2. n \in 0 .. Len(l) /\ n \in 1 .. n
      BY <1>4, <2>3, <2>4
    <3>3. Upto(l, n)[n] = l[n]
      BY <2>1, <3>2, Prefix
    <3> QED
      BY <1>4, <3>1, <3>3
  <2>5. ~IsPrefix(at, l) => R(l) = l
    BY DEF Renamed
  <2> HIDE DEF R
  <2> QED
    BY <2>2, <2>3, <2>4, <2>5
<1>7. R(at) = Append(c, new)
  <2>1. PICK z : z = Append(c, new)
    OBVIOUS
  <2>2. /\ z \in Seq(Places) /\ Len(z) = n /\ z[n] = new
        /\ \A k \in 1 .. Len(c) : z[k] = c[k]
    BY <1>2, <1>3, <1>4, <2>1, Extended
  <2>3. IsPrefix(at, at)
    <3>1. Upto(at, Len(at)) = at
      BY <1>4, WholePrefix
    <3>2. Len(at) <= Len(at)
      BY <1>1, <1>4
    <3> QED
      BY <1>4, <3>1, <3>2, PrefixIs
  <2>4. /\ R(at) \in Seq(Places) /\ Len(R(at)) = n /\ R(at)[n] = new
        /\ \A k \in 1 .. n : k # n => R(at)[k] = at[k]
    <3>1. /\ Renamed(at, at, new) \in Seq(Places) /\ Len(Renamed(at, at, new)) = Len(at)
          /\ Renamed(at, at, new)[Len(at)] = new
          /\ \A k \in 1 .. Len(at) : k # Len(at) => Renamed(at, at, new)[k] = at[k]
      <4>1. Len(at) > 0
        BY <1>1, <1>4
      <4> QED
        BY <1>3, <1>4, <2>3, <4>1, RenamedIs
    <3> QED
      BY <1>1, <3>1
  <2> HIDE DEF R
  <2>5. ASSUME NEW k \in 1 .. n PROVE R(at)[k] = z[k]
    <3>1. CASE k = n
      BY <2>2, <2>4, <3>1
    <3>2. CASE k # n
      <4>1. k \in 1 .. Len(c)
        <5>1. Len(c) \in Nat /\ n = Len(c) + 1
          BY <1>2, <1>4
        <5> QED
          BY <3>2, <5>1
      <4> QED
        BY <1>4, <2>2, <2>4, <3>2, <4>1
    <3> QED
      BY <3>1, <3>2
  <2> QED
    BY <2>1, <2>2, <2>4, <2>5, SameElements
<1>8. ASSUME NEW l \in DOMAIN t, NEW j \in 0 .. Len(l)
      PROVE  Upto(R(l), j) = R(Upto(l, j))
  BY <1>1, <1>3, <1>4, <1>5, RenamedUpto
<1> HIDE DEF R
<1>9. ASSUME NEW l \in DOMAIN t, IsPrefix(at, l) PROVE R(l) \notin DOMAIN t
  <2>1. SUFFICES ASSUME R(l) \in DOMAIN t PROVE FALSE
    OBVIOUS
  <2>2. n \in 1 .. Len(R(l)) /\ n \in 0 .. Len(l) /\ Upto(l, n) = at
    BY <1>4, <1>6, <1>9
  <2>3. Upto(R(l), n) \in DOMAIN t
    BY <1>4, <2>1, <2>2, PartThere
  <2>4. Upto(R(l), n) = R(at)
    BY <1>8, <2>2
  <2> QED
    BY <1>7, <2>3, <2>4
<1>10. ASSUME NEW l \in DOMAIN t, NEW m \in DOMAIN t, to[l] = to[m] PROVE l = m
  <2>1. R(l) = R(m) /\ l \in Seq(Places) /\ m \in Seq(Places) /\ Len(l) = Len(m)
    BY <1>5, <1>6, <1>10
  <2>2. CASE IsPrefix(at, l) /\ IsPrefix(at, m)
    <3>1. ASSUME NEW k \in 1 .. Len(l) PROVE l[k] = m[k]
      <4>1. CASE k = n
        BY <1>6, <2>2, <4>1
      <4>2. CASE k # n
        <5>1. R(l)[k] = l[k]
          BY <1>6, <4>2
        <5>2. R(m)[k] = m[k]
          BY <1>6, <2>1, <4>2
        <5> QED
          BY <2>1, <5>1, <5>2
      <4> QED
        BY <4>1, <4>2
    <3> QED
      BY <2>1, <3>1, SameElements
  <2>3. CASE ~IsPrefix(at, l)
    <3>1. R(l) = l
      BY <1>6, <2>3
    <3>2. ~IsPrefix(at, m)
      BY <1>9, <2>1, <3>1
    <3> QED
      BY <1>6, <2>1, <3>1, <3>2
  <2>4. CASE ~IsPrefix(at, m)
    <3>1. R(m) = m
      BY <1>6, <2>4
    <3>2. ~IsPrefix(at, l)
      BY <1>9, <2>1, <3>1
    <3> QED
      BY <1>6, <2>1, <3>1, <3>2
  <2> QED
    BY <2>2, <2>3, <2>4
<1>11. PICK u, z : u = Moved(t, z) /\ z = to
  OBVIOUS
<1>12. DOMAIN u = {z[l] : l \in DOMAIN t} /\ \A l \in DOMAIN t : u[z[l]] = t[l]
  <2>1. DOMAIN z = DOMAIN t /\ \A l, m \in DOMAIN t : z[l] = z[m] => l = m
    BY <1>10, <1>11 DEF Renames
  <2>2. /\ DOMAIN Moved(t, z) = {z[l] : l \in DOMAIN t}
        /\ \A l \in DOMAIN t : Moved(t, z)[z[l]] = t[l]
    BY ONLY <2>1, MovedIs
  <2> QED
    BY <1>11, <2>2
<1>13. \A l \in DOMAIN t : z[l] = R(l)
  BY <1>6, <1>11
<1>14. DOMAIN u = {R(l) : l \in DOMAIN t} /\ \A l \in DOMAIN t : u[R(l)] = t[l]
  BY <1>12, <1>13
<1>15. ASSUME NEW l \in DOMAIN t PROVE Stands(u, R(l)) /\ Len(R(l)) % 2 = 1
  <2>1. PICK m : m = R(l)
    OBVIOUS
  <2>2. m \in Seq(Places) /\ Len(m) = Len(l) /\ Len(l) % 2 = 1 /\ Stands(t, l) /\ Len(l) \in Nat
    BY <1>5, <1>6, <2>1
  <2>3. ASSUME NEW k \in 1 .. Len(m), k % 2 = 1 PROVE m[k] \in Names
    <3>1. CASE k = n /\ IsPrefix(at, l)
      BY <1>6, <2>1, <3>1
    <3>2. CASE ~(k = n /\ IsPrefix(at, l))
      <4>1. m[k] = l[k]
        BY <1>6, <2>1, <2>2, <3>2
      <4> QED
        BY <2>2, <2>3, <4>1, NameAt
    <3> QED
      BY <3>1, <3>2
  <2>4. ASSUME NEW k \in 1 .. Len(m), k % 2 = 0 PROVE Holds(u, Upto(m, k - 1), m[k])
    <3>1. k # n
      BY <1>4, <2>4
    <3>2. m[k] = l[k]
      BY <1>6, <2>1, <2>2, <3>1
    <3>3. Holds(t, Upto(l, k - 1), l[k])
      BY <2>2, <2>4, IndexAt
    <3>4. k - 1 \in 0 .. Len(l)
      BY <2>2
    <3>5. Upto(m, k - 1) = R(Upto(l, k - 1))
      BY <1>8, <2>1, <3>4
    <3>6. PICK a : a = Upto(l, k - 1)
      OBVIOUS
    <3>7. a \in DOMAIN t /\ u[R(a)] = t[a] /\ R(a) \in DOMAIN u
      BY <1>14, <3>3, <3>6 DEF Holds
    <3> QED
      BY <3>2, <3>3, <3>5, <3>6, <3>7 DEF Holds
  <2> QED
    BY <2>1, <2>2, <2>3, <2>4 DEF Stands
<1>16. Grown(u) /\ \A l \in DOMAIN u : \E m \in DOMAIN t : u[l] = t[m]
  BY <1>14, <1>15 DEF Grown
<1> QED
  BY <1>11, <1>16

\* update() changes contents only.
LEMMA UpdatedKeeps ==
    ASSUME NEW dest, ShapedTree(dest), NEW src
    PROVE  LET new == Updated(dest, src)
           IN  /\ DOMAIN new = DOMAIN dest
               /\ ShapedTree(new)
               /\ \A l \in DOMAIN dest :
                    /\ new[l].type = dest[l].type /\ new[l].len = dest[l].len
                    /\ new[l].bool = dest[l].bool
                    /\ new[l].uplinked = dest[l].uplinked
                    /\ \A i \in 1 .. dest[l].len :
                         new[l].at[i] = IF <<l, i - 1>> \in Diff(dest, src)
                                          THEN src[l].at[i] ELSE dest[l].at[i]
<1> DEFINE new == Updated(dest, src)
<1>1. DOMAIN new = DOMAIN dest /\ new = [l \in DOMAIN new |-> new[l]]
  BY DEF Updated
<1>2. ASSUME NEW l \in DOMAIN dest
      PROVE  /\ Shaped(new[l])
             /\ new[l].type = dest[l].type /\ new[l].len = dest[l].len
             /\ new[l].bool = dest[l].bool
             /\ new[l].uplinked = dest[l].uplinked
             /\ \A i \in 1 .. dest[l].len :
                  new[l].at[i] = IF <<l, i - 1>> \in Diff(dest, src)
                                   THEN src[l].at[i] ELSE dest[l].at[i]
  <2>1. Shaped(dest[l])
    BY DEF ShapedTree
  <2>2. DOMAIN dest[l].at = 1 .. dest[l].len
    BY <2>1 DEF Shaped
  <2> DEFINE at == [i \in 1 .. dest[l].len |-> IF <<l, i - 1>> \in Diff(dest, src)
                                                THEN src[l].at[i] ELSE dest[l].at[i]]
  <2>3. new[l] = [dest[l] EXCEPT !.at = at]
    BY <2>2 DEF Updated
  <2> HIDE DEF new
  <2> QED
    BY <2>1, <2>3 DEF Shaped
<1> HIDE DEF new
<1>3. ShapedTree(new)
  BY <1>1, <1>2 DEF ShapedTree
<1> QED
  BY <1>1, <1>2, <1>3 DEF new

-----------------------------------------------------------------------------
(* The operations                                                            *)

LEMMA Documented == \A doc \in Documents \cup Parts : IsDocument(doc)
BY ValuesAssumption, ConfigAssumption

LEMMA InitInv == Init => IInv
<1> SUFFICES ASSUME Init PROVE IInv
  OBVIOUS
<1>1. PICK c \in Documents, p \in Documents : tree = [conf |-> Load(c), patch |-> Load(p)]
  BY DEF Init
<1> QED
  BY <1>1, Documented, LoadShaped DEF IInv

\* One of the trees is replaced.
LEMMA Replaced ==
    ASSUME IInv, NEW w \in Trees, NEW t, ShapedTree(t), tree' = [tree EXCEPT ![w] = t]
    PROVE  IInv'
<1>1. CASE w = "conf"
  BY <1>1 DEF IInv
<1>2. CASE w = "patch"
  BY <1>2 DEF IInv
<1> QED
  BY <1>1, <1>2 DEF Trees

LEMMA TreeShaped == ASSUME IInv, NEW w \in Trees PROVE ShapedTree(tree[w])
BY DEF IInv, Trees

LEMMA PutInv ==
    ASSUME IInv, NEW w \in Trees, NEW l, NEW v, Shaped(v), Put(w, l, v)
    PROVE  IInv'
<1> DEFINE t == [x \in DOMAIN tree[w] \cup {l} |-> IF x = l THEN v ELSE tree[w][x]]
<1>1. tree' = [tree EXCEPT ![w] = t]
  BY DEF Put, IInv, Trees
<1>2. ShapedTree(t)
  BY TreeShaped, PutShaped
<1> HIDE DEF t
<1> QED
  BY <1>1, <1>2, Replaced

\* One value is replaced, if it is there.
LEMMA ChangedInv ==
    ASSUME IInv, NEW w \in Trees, NEW l, NEW v,
           l \in DOMAIN tree[w] => Shaped(v), tree' = [tree EXCEPT ![w][l] = v]
    PROVE  IInv'
<1> DEFINE t == [tree[w] EXCEPT ![l] = v]
<1>1. tree' = [tree EXCEPT ![w] = t]
  OBVIOUS
<1>2. ShapedTree(t)
  BY TreeShaped DEF ShapedTree
<1> HIDE DEF t
<1> QED
  BY <1>1, <1>2, Replaced

LEMMA NextInv == IInv /\ [Next]_vars => IInv'
<1> SUFFICES ASSUME IInv, [Next]_vars PROVE IInv'
  OBVIOUS
<1> USE DEF Count
<1>1. CASE UNCHANGED vars
  BY <1>1 DEF IInv, vars
<1>2. ASSUME NEW w \in Trees, NEW n \in Names, NEW c \in Configs(tree[w]), Create(w, c, n)
      PROVE  IInv'
  <2>1. PICK type, x : Put(w, Append(c, n), [NewValue(type, 1, FALSE, FALSE)
                                        EXCEPT !.valid = TRUE, !.at = <<x>>])
    BY <1>2 DEF Create
  <2>2. PICK v : v = NewValue(type, 1, FALSE, FALSE)
    OBVIOUS
  <2>3. Shaped(v) /\ v.len = 1
    BY <2>2 DEF NewValue, Shaped
  <2>4. Shaped([v EXCEPT !.valid = TRUE, !.at = <<x>>])
    <3> DEFINE at == <<x>>
    <3>1. at = [i \in 1 .. v.len |-> at[i]]
      BY <2>3
    <3> HIDE DEF at
    <3>2. PICK yes : yes = TRUE
      OBVIOUS
    <3>3. Shaped([v EXCEPT !.at = at])
      BY <2>3, <3>1, ContentsShaped
    <3>4. PICK u : u = [v EXCEPT !.at = at]
      OBVIOUS
    <3>5. Shaped([u EXCEPT !.valid = yes])
      BY <3>3, <3>4, FlagShaped
    <3>6. [u EXCEPT !.valid = yes] = [v EXCEPT !.valid = TRUE, !.at = at]
      BY <2>3, <3>2, <3>4 DEF Shaped
    <3> HIDE DEF at
    <3> QED
      BY <3>5, <3>6 DEF at
  <2> QED
    BY <2>1, <2>2, <2>4, PutInv
<1>3. ASSUME NEW w \in Trees, NEW n \in Names, NEW c \in Configs(tree[w]), CreateConfig(w, c, n)
      PROVE  IInv'
  <2> DEFINE at == Append(c, n)
  <2>1. PICK doc \in Parts :
          LET self == [NewValue("object", 1, FALSE, FALSE) EXCEPT !.uplinked = TRUE]
              part == Moved(Load(doc), [l \in DOMAIN Load(doc) |-> at \o <<0>> \o l])
          IN  tree' = [tree EXCEPT ![w] =
                [l \in DOMAIN @ \cup {at} \cup DOMAIN part |->
                   IF l = at THEN self ELSE IF l \in DOMAIN part THEN part[l] ELSE @[l]]]
    BY <1>3 DEF CreateConfig
  <2>2. PICK part : part = Moved(Load(doc), [l \in DOMAIN Load(doc) |-> at \o <<0>> \o l])
    OBVIOUS
  <2>3. PICK v : v = NewValue("object", 1, FALSE, FALSE)
    OBVIOUS
  <2>4. PICK self : self = [v EXCEPT !.uplinked = TRUE]
    OBVIOUS
  <2> DEFINE u == [l \in DOMAIN tree[w] \cup {at} \cup DOMAIN part |->
                     IF l = at THEN self ELSE IF l \in DOMAIN part THEN part[l] ELSE tree[w][l]]
  <2>5. tree' = [tree EXCEPT ![w] = u]
    BY <2>1, <2>2, <2>3, <2>4 DEF IInv, Trees
  <2>6. ShapedTree(part)
    <3>1. PICK t, to : t = Load(doc) /\ to = [l \in DOMAIN Load(doc) |-> at \o <<0>> \o l]
      OBVIOUS
    <3>2. DOMAIN to = DOMAIN t /\ part = Moved(t, to)
      BY <2>2, <3>1
    <3> QED
      BY <3>1, <3>2, Documented, LoadShaped, MovedShaped
  <2>7. Shaped(self)
    <3>1. Shaped(v)
      BY <2>3 DEF NewValue, Shaped
    <3>2. PICK yes : yes = TRUE
      OBVIOUS
    <3>3. Shaped([v EXCEPT !.uplinked = yes])
      BY <3>1 DEF Shaped
    <3> QED
      BY <2>4, <3>2, <3>3
  <2>8. ShapedTree(u)
    BY <2>6, <2>7, TreeShaped DEF ShapedTree
  <2> HIDE DEF u
  <2> QED
    BY <2>5, <2>8, Replaced
<1>4. ASSUME NEW w \in Trees, NEW n \in Names, NEW c \in Configs(tree[w]), CreateFresh(w, c, n)
      PROVE  IInv'
  <2>1. PICK type \in FreshTypes, len \in 1 .. MaxLen :
          Put(w, Append(c, n), NewValue(type, len, FALSE, FALSE))
    BY <1>4 DEF CreateFresh
  <2>2. len \in Nat
    BY ConfigAssumption
  <2> QED
    BY <2>1, <2>2, NewShaped, PutInv
<1>5. ASSUME NEW w \in Trees, NEW n \in Names, NEW c \in Configs(tree[w]), RemovePair(w, c, n)
      PROVE  IInv'
  <2>1. tree' = [tree EXCEPT ![w] = [l \in DOMAIN tree[w] \ Below(tree[w], Append(c, n))
                                       |-> tree[w][l]]]
    BY <1>5 DEF RemovePair, IInv, Trees
  <2> QED
    BY <2>1, TreeShaped, KeptShaped, Replaced
<1>6. ASSUME NEW w \in Trees, NEW c \in Configs(tree[w]), Clear(w, c)
      PROVE  IInv'
  <2> DEFINE S == {l \in DOMAIN tree[w] : ~IsStrictPrefix(c, l)}
  <2>1. tree' = [tree EXCEPT ![w] = [l \in S |-> tree[w][l]]]
    BY <1>6 DEF Clear, IInv, Trees
  <2>2. S \subseteq DOMAIN tree[w]
    OBVIOUS
  <2> HIDE DEF S
  <2> QED
    BY <2>1, <2>2, TreeShaped, KeptShaped, Replaced
<1>7. ASSUME NEW w \in Trees, NEW n \in Names, NEW c \in Configs(tree[w]),
             NEW new \in Names, Rename(w, c, n, new)
      PROVE  IInv'
  <2>1. PICK to : to = [l \in DOMAIN tree[w] |->
          IF IsPrefix(Append(c, n), l) THEN [l EXCEPT ![Len(c) + 1] = new] ELSE l]
    OBVIOUS
  <2>2. tree' = [tree EXCEPT ![w] = Moved(tree[w], to)]
    BY <1>7, <2>1 DEF Rename, IInv, Trees
  <2>3. DOMAIN to = DOMAIN tree[w]
    BY <2>1
  <2>4. ShapedTree(Moved(tree[w], to))
    BY <2>3, TreeShaped, MovedShaped
  <2> QED
    BY <2>2, <2>4, Replaced
<1>8. ASSUME NEW w \in Trees, NEW kind \in Kinded, NEW path, NEW x, Set(w, path, kind, x)
      PROVE  IInv'
  <2>1. PICK l, i : /\ tree' = [tree EXCEPT ![w][l] = Assign(@, i, kind, x)]
                    /\ Accepts(tree[w][l], i, kind)
    BY <1>8 DEF Set
  <2> DEFINE v == Assign(tree[w][l], i, kind, x)
  <2>2. tree' = [tree EXCEPT ![w][l] = v] \/ l \notin DOMAIN tree[w]
    BY <2>1 DEF IInv, Trees
  <2>3. l \in DOMAIN tree[w] => Shaped(v)
    <3> SUFFICES ASSUME l \in DOMAIN tree[w] PROVE Shaped(v)
      OBVIOUS
    <3>1. PICK u : u = tree[w][l]
      OBVIOUS
    <3>2. Shaped(u)
      BY <3>1, TreeShaped DEF ShapedTree
    <3>3. v = [u EXCEPT !.at = [u.at EXCEPT ![i + 1] = x], !.valid = TRUE]
      BY <3>1, <3>2 DEF Assign, Shaped
    <3>4. [u.at EXCEPT ![i + 1] = x] = [j \in 1 .. u.len |-> [u.at EXCEPT ![i + 1] = x][j]]
      BY <3>2 DEF Shaped
    <3> QED
      BY <3>2, <3>3, <3>4 DEF Shaped
  <2> HIDE DEF v
  <2> QED
    BY <2>1, <2>2, <2>3, ChangedInv
<1>9. ASSUME NEW loc \in DOMAIN tree["conf"], Bind(loc)
      PROVE  IInv'
  <2>1. PICK at \in [1 .. tree.conf[loc].len -> Contents(tree.conf[loc].type)] :
          tree' = [tree EXCEPT !.conf[loc] = [@ EXCEPT !.bound = TRUE, !.at = at]]
    BY <1>9 DEF Bind
  <2> DEFINE v == [tree.conf[loc] EXCEPT !.bound = TRUE, !.at = at]
  <2>2. tree' = [tree EXCEPT !.conf[loc] = v]
    BY <2>1 DEF IInv, ShapedTree
  <2>3. Shaped(tree.conf[loc])
    BY DEF IInv, ShapedTree
  <2>4. Shaped(v)
    <3>1. PICK u, yes : u = tree.conf[loc] /\ yes = TRUE
      OBVIOUS
    <3>2. Shaped(u)
      BY <2>3, <3>1
    <3>3. at = [i \in 1 .. u.len |-> at[i]]
      BY <2>1, <3>1, <3>2 DEF Shaped
    <3>4. Shaped([u EXCEPT !.at = at])
      BY <3>2, <3>3, ContentsShaped
    <3>5. PICK r : r = [u EXCEPT !.at = at]
      OBVIOUS
    <3>6. Shaped([r EXCEPT !.bound = yes])
      BY <3>4, <3>5, FlagShaped
    <3>7. [r EXCEPT !.bound = yes] = v
      BY <3>1, <3>2, <3>5 DEF Shaped
    <3> QED
      BY <3>6, <3>7
  <2> HIDE DEF v
  <2> QED
    BY <2>2, <2>4, ChangedInv DEF Trees
<1>10. ASSUME NEW loc \in DOMAIN tree["conf"], AppWrites(loc)
       PROVE  IInv'
  <2>1. PICK at \in [DOMAIN tree.conf[loc].at -> Contents(tree.conf[loc].type)] :
          tree' = [tree EXCEPT !.conf[loc].at = at]
    BY <1>10 DEF AppWrites
  <2> DEFINE v == [tree.conf[loc] EXCEPT !.at = at]
  <2>2. tree' = [tree EXCEPT !.conf[loc] = v]
    BY <2>1 DEF IInv, ShapedTree
  <2>3. Shaped(tree.conf[loc])
    BY DEF IInv, ShapedTree
  <2>4. Shaped(v)
    <3>1. PICK u : u = tree.conf[loc]
      OBVIOUS
    <3>2. Shaped(u)
      BY <2>3, <3>1
    <3>3. at = [i \in 1 .. u.len |-> at[i]]
      BY <2>1, <3>1, <3>2 DEF Shaped
    <3>4. Shaped([u EXCEPT !.at = at])
      BY <3>2, <3>3, ContentsShaped
    <3> QED
      BY <3>1, <3>4
  <2> HIDE DEF v
  <2> QED
    BY <2>2, <2>4, ChangedInv DEF Trees
<1>11. CASE Copy
  <2> DEFINE V(l) == LET v == tree.conf[l]
                     IN  [v EXCEPT !.bound = FALSE, !.uplinked = FALSE,
                            !.at = IF v.valid THEN @ ELSE [i \in DOMAIN @ |-> Zero(v.type)]]
             t == [l \in DOMAIN tree.conf |-> V(l)]
  <2>1. tree' = [tree EXCEPT !["patch"] = t]
    BY <1>11 DEF Copy
  <2>2. ASSUME NEW l \in DOMAIN tree.conf PROVE Shaped(V(l))
    <3>1. Shaped(tree.conf[l])
      BY DEF IInv, ShapedTree
    <3> DEFINE v == tree.conf[l]
               at == IF v.valid THEN v.at ELSE [i \in DOMAIN v.at |-> Zero(v.type)]
    <3>2. at = [i \in 1 .. v.len |-> at[i]]
      BY <3>1 DEF Shaped
    <3>3. V(l) = [v EXCEPT !.bound = FALSE, !.uplinked = FALSE, !.at = at]
      BY <3>1 DEF Shaped
    <3> HIDE DEF at, V
    <3> QED
      BY <3>1, <3>2, <3>3 DEF Shaped
  <2>3. ShapedTree(t)
    BY <2>2 DEF ShapedTree
  <2> HIDE DEF t
  <2> QED
    BY <2>1, <2>3, Replaced DEF Trees
<1>12. ASSUME NEW dry \in BOOLEAN, Update(dry) PROVE IInv'
  <2>1. CASE dry
    BY <1>12, <2>1 DEF Update, IInv
  <2>2. CASE ~dry
    <3>1. tree' = [tree EXCEPT !["conf"] = Updated(tree.conf, tree.patch)]
      BY <1>12, <2>2 DEF Update, IInv
    <3> QED
      BY <3>1, UpdatedKeeps, Replaced DEF IInv, Trees
  <2> QED
    BY <2>1, <2>2
<1> QED
  BY <1>1, <1>2, <1>3, <1>4, <1>5, <1>6, <1>7, <1>8, <1>9, <1>10, <1>11, <1>12 DEF Next

-----------------------------------------------------------------------------
(* Every operation leaves trees grown and linked                             *)

\* The program makes no value of type object without its content.
NoFreshObjects == "object" \notin FreshTypes

LEMMA SameGrown ==
    ASSUME NEW t, Grown(t), NEW u, DOMAIN u = DOMAIN t,
           \A l \in DOMAIN t : u[l].type = t[l].type /\ u[l].len = t[l].len
    PROVE  Grown(u)
BY GrownMore

LEMMA InitGrown == Init => GInv /\ LInv
<1> SUFFICES ASSUME Init PROVE GInv /\ LInv
  OBVIOUS
<1>1. PICK c \in Documents, p \in Documents : tree = [conf |-> Load(c), patch |-> Load(p)]
  BY DEF Init
<1> QED
  BY <1>1, Documented, LoadGrown DEF GInv, LInv

LEMMA OneGrown ==
    ASSUME IInv, GInv, NEW w \in Trees, NEW t, Grown(t),
           tree' = [tree EXCEPT ![w] = t], copied' = copied
    PROVE  GInv' /\ (LInv /\ (Linked(tree[w]) => Linked(t)) => LInv')
<1>1. CASE w = "conf"
  <2>1. tree'.conf = t /\ tree'.patch = tree.patch
    BY <1>1 DEF IInv
  <2> QED
    BY <1>1, <2>1 DEF GInv, LInv
<1>2. CASE w = "patch"
  <2>1. tree'.patch = t /\ tree'.conf = tree.conf
    BY <1>2 DEF IInv
  <2> QED
    BY <1>2, <2>1 DEF GInv, LInv
<1> QED
  BY <1>1, <1>2 DEF Trees

LEMMA TreeGrown == ASSUME GInv, NEW w \in Trees PROVE Grown(tree[w])
BY DEF GInv, Trees

\* A new value.
LEMMA PutKeepsGrown ==
    ASSUME IInv, GInv, NEW w \in Trees, NEW n \in Names, NEW c \in Configs(tree[w]),
           Append(c, n) \notin DOMAIN tree[w], NEW v, Put(w, Append(c, n), v), copied' = copied
    PROVE  GInv' /\ (LInv /\ v.type # "object" => LInv')
<1>1. PICK l, t : l = Append(c, n) /\ t = tree[w]
  OBVIOUS
<1> DEFINE u == [x \in DOMAIN t \cup {l} |-> IF x = l THEN v ELSE t[x]]
<1>2. tree' = [tree EXCEPT ![w] = u]
  BY <1>1 DEF Put, IInv, Trees
<1>3. Grown(u)
  <2>1. Grown(t) /\ ShapedTree(t) /\ c \in Configs(t) /\ Append(c, n) \notin DOMAIN t
    BY <1>1, TreeGrown, TreeShaped
  <2>2. l \notin DOMAIN t /\ Adds(t, l, u)
    BY <1>1 DEF Adds
  <2> HIDE DEF u
  <2> QED
    BY <1>1, <2>1, <2>2, PutGrown
<1>4. v.type # "object" => (Linked(t) => Linked(u))
  BY DEF Linked
<1> HIDE DEF u
<1> QED
  BY <1>1, <1>2, <1>3, <1>4, OneGrown

\* Another content for one value, if it is there.
LEMMA ChangeKeepsGrown ==
    ASSUME IInv, GInv, NEW w \in Trees, NEW l, NEW v,
           l \in DOMAIN tree[w] => /\ v.type = tree[w][l].type /\ v.len = tree[w][l].len
                                   /\ v.uplinked = tree[w][l].uplinked,
           tree' = [tree EXCEPT ![w][l] = v], copied' = copied
    PROVE  GInv' /\ (LInv => LInv')
<1>1. PICK t : t = tree[w]
  OBVIOUS
<1> DEFINE u == [t EXCEPT ![l] = v]
<1>2. tree' = [tree EXCEPT ![w] = u]
  BY <1>1
<1>3. /\ DOMAIN u = DOMAIN t
      /\ \A a \in DOMAIN t : /\ u[a].type = t[a].type /\ u[a].len = t[a].len
                             /\ u[a].uplinked = t[a].uplinked
  BY <1>1
<1> HIDE DEF u
<1>4. Grown(u)
  BY <1>1, <1>3, TreeGrown, SameGrown
<1>5. Linked(t) => Linked(u)
  BY <1>3 DEF Linked
<1> QED
  BY <1>1, <1>2, <1>4, <1>5, OneGrown

LEMMA NextGrown ==
    ASSUME IInv, GInv, [Next]_vars
    PROVE  GInv' /\ (NoFreshObjects /\ LInv => LInv')
<1> DEFINE Goal == GInv' /\ (NoFreshObjects /\ LInv => LInv')
<1>1. CASE UNCHANGED vars
  BY <1>1 DEF GInv, LInv, vars
<1>2. ASSUME NEW w \in Trees, NEW n \in Names, NEW c \in Configs(tree[w]), Create(w, c, n)
      PROVE  Goal
  <2>1. PICK type \in Kinded :
          \E x : Put(w, Append(c, n), [NewValue(type, 1, FALSE, FALSE)
                                         EXCEPT !.valid = TRUE, !.at = <<x>>])
    BY <1>2 DEF Create
  <2>2. PICK x : Put(w, Append(c, n), [NewValue(type, 1, FALSE, FALSE)
                                         EXCEPT !.valid = TRUE, !.at = <<x>>])
    BY <2>1
  <2>3. PICK v : v = [NewValue(type, 1, FALSE, FALSE) EXCEPT !.valid = TRUE, !.at = <<x>>]
    OBVIOUS
  <2>4. v.type # "object"
    BY <2>3 DEF NewValue, Kinded
  <2>5. Append(c, n) \notin DOMAIN tree[w] /\ copied' = copied
    BY <1>2 DEF Create, Free
  <2> QED
    BY <2>2, <2>3, <2>4, <2>5, PutKeepsGrown
<1>3. ASSUME NEW w \in Trees, NEW n \in Names, NEW c \in Configs(tree[w]), CreateConfig(w, c, n)
      PROVE  Goal
  <2> DEFINE at == Append(c, n)
  <2>1. PICK t : t = tree[w]
    OBVIOUS
  <2>2. PICK doc \in Parts :
          LET self == [NewValue("object", 1, FALSE, FALSE) EXCEPT !.uplinked = TRUE]
              part == Moved(Load(doc), [l \in DOMAIN Load(doc) |-> at \o <<0>> \o l])
          IN  tree' = [tree EXCEPT ![w] =
                [l \in DOMAIN @ \cup {at} \cup DOMAIN part |->
                   IF l = at THEN self ELSE IF l \in DOMAIN part THEN part[l] ELSE @[l]]]
    BY <1>3 DEF CreateConfig
  <2>3. PICK d : d = Load(doc)
    OBVIOUS
  <2>4. PICK to : to = [l \in DOMAIN d |-> at \o <<0>> \o l]
    OBVIOUS
  <2>5. PICK part, self : /\ part = Moved(d, to)
                          /\ self = [NewValue("object", 1, FALSE, FALSE) EXCEPT !.uplinked = TRUE]
    OBVIOUS
  <2> DEFINE u == [l \in DOMAIN t \cup {at} \cup DOMAIN part |->
                     IF l = at THEN self ELSE IF l \in DOMAIN part THEN part[l] ELSE t[l]]
  <2>6. tree' = [tree EXCEPT ![w] = u]
    BY <2>1, <2>2, <2>3, <2>4, <2>5 DEF IInv, Trees
  <2>7. Grown(d) /\ Linked(d)
    BY <2>3, Documented, LoadGrown
  <2>8. self.type = "object" /\ self.len = 1 /\ self.uplinked
    BY <2>5 DEF NewValue
  <2>9. at \notin DOMAIN t /\ copied' = copied
    BY <1>3, <2>1 DEF CreateConfig, Free
  <2>10. Grown(t) /\ ShapedTree(t)
    BY <2>1, TreeGrown, TreeShaped
  <2>11. Grown(u) /\ (Linked(t) /\ Linked(d) /\ self.uplinked => Linked(u))
    <3>1. c \in Configs(t) /\ part = Moved(d, to)
      BY <2>1, <2>5
    <3>2. self.type = "object" /\ self.len = 1 /\ Grown(d)
      BY <2>7, <2>8
    <3>3. Moves(d, at, to)
      BY <2>4 DEF Moves
    <3>4. Brings(t, at, self, part, u)
      BY DEF Brings
    <3>5. at = Append(c, n) /\ at \notin DOMAIN t
      BY <2>9
    <3> HIDE DEF u, at
    <3> QED
      BY <2>10, <3>1, <3>2, <3>3, <3>4, <3>5, PartGrown
  <2> HIDE DEF u
  <2>12. Linked(t) => Linked(u)
    BY <2>7, <2>8, <2>11
  <2> QED
    BY <2>1, <2>6, <2>9, <2>11, <2>12, OneGrown
<1>4. ASSUME NEW w \in Trees, NEW n \in Names, NEW c \in Configs(tree[w]), CreateFresh(w, c, n)
      PROVE  Goal
  <2>1. PICK type \in FreshTypes, len \in 1 .. MaxLen :
          Put(w, Append(c, n), NewValue(type, len, FALSE, FALSE))
    BY <1>4 DEF CreateFresh
  <2>2. PICK v : v = NewValue(type, len, FALSE, FALSE)
    OBVIOUS
  <2>3. NoFreshObjects => v.type # "object"
    BY <2>2 DEF NewValue, NoFreshObjects
  <2>4. Append(c, n) \notin DOMAIN tree[w] /\ copied' = copied
    BY <1>4 DEF CreateFresh, Free
  <2> QED
    BY <2>1, <2>2, <2>3, <2>4, PutKeepsGrown
<1>5. ASSUME NEW w \in Trees, NEW n \in Names, NEW c \in Configs(tree[w]), RemovePair(w, c, n)
      PROVE  Goal
  <2>1. PICK t, at : t = tree[w] /\ at = Append(c, n)
    OBVIOUS
  <2> DEFINE u == [l \in DOMAIN t \ Below(t, at) |-> t[l]]
  <2>2. tree' = [tree EXCEPT ![w] = u] /\ copied' = copied
    BY <1>5, <2>1 DEF RemovePair, IInv, Trees
  <2>3. Grown(u)
    BY <2>1, TreeGrown, RemoveGrown
  <2>4. Linked(t) => Linked(u)
    BY DEF Linked
  <2> HIDE DEF u
  <2> QED
    BY <2>1, <2>2, <2>3, <2>4, OneGrown
<1>6. ASSUME NEW w \in Trees, NEW c \in Configs(tree[w]), Clear(w, c)
      PROVE  Goal
  <2>1. PICK t : t = tree[w]
    OBVIOUS
  <2> DEFINE u == [l \in {l \in DOMAIN t : ~IsStrictPrefix(c, l)} |-> t[l]]
  <2>2. tree' = [tree EXCEPT ![w] = u] /\ copied' = copied
    BY <1>6, <2>1 DEF Clear, IInv, Trees
  <2>3. Grown(u)
    <3>1. Grown(t) /\ ShapedTree(t) /\ c \in Configs(t)
      BY <2>1, TreeGrown, TreeShaped
    <3>2. Len(c) \in Nat
      BY <3>1, ConfigStands
    <3> QED
      BY <3>1, <3>2, ClearGrown
  <2>4. Linked(t) => Linked(u)
    BY DEF Linked
  <2> HIDE DEF u
  <2> QED
    BY <2>1, <2>2, <2>3, <2>4, OneGrown
<1>7. ASSUME NEW w \in Trees, NEW n \in Names, NEW c \in Configs(tree[w]),
             NEW new \in Names, Rename(w, c, n, new)
      PROVE  Goal
  <2>1. PICK t : t = tree[w]
    OBVIOUS
  <2>2. PICK to : to = [l \in DOMAIN t |->
          IF IsPrefix(Append(c, n), l) THEN [l EXCEPT ![Len(c) + 1] = new] ELSE l]
    OBVIOUS
  <2>3. tree' = [tree EXCEPT ![w] = Moved(t, to)] /\ copied' = copied
    BY <1>7, <2>1, <2>2 DEF Rename, IInv, Trees
  <2>4. Append(c, new) \notin DOMAIN t /\ Append(c, n) \in DOMAIN t
    BY <1>7, <2>1 DEF Rename, Free
  <2>5. Grown(t) /\ ShapedTree(t) /\ c \in Configs(t)
    BY <2>1, TreeGrown, TreeShaped
  <2>6. PICK u : u = Moved(t, to)
    OBVIOUS
  <2>7. Grown(u) /\ \A l \in DOMAIN u : \E m \in DOMAIN t : u[l] = t[m]
    <3>1. /\ Grown(Moved(t, to))
          /\ \A l \in DOMAIN Moved(t, to) : \E m \in DOMAIN t : Moved(t, to)[l] = t[m]
      <4>1. Renames(t, c, n, new, to)
        BY <2>2 DEF Renames
      <4> QED
        BY <2>4, <2>5, <4>1, RenameGrown
    <3> QED
      BY <2>6, <3>1
  <2>8. Linked(t) => Linked(u)
    BY <2>7 DEF Linked
  <2> QED
    BY <2>1, <2>3, <2>6, <2>7, <2>8, OneGrown
<1>8. ASSUME NEW w \in Trees, NEW kind \in Kinded, NEW path, NEW x, Set(w, path, kind, x)
      PROVE  Goal
  <2>1. PICK l, i : tree' = [tree EXCEPT ![w][l] = Assign(@, i, kind, x)] /\ copied' = copied
    BY <1>8 DEF Set
  <2>2. PICK v : v = Assign(tree[w][l], i, kind, x)
    OBVIOUS
  <2>3. tree' = [tree EXCEPT ![w][l] = v] \/ l \notin DOMAIN tree[w]
    BY <2>1, <2>2 DEF IInv, Trees
  <2>4. l \in DOMAIN tree[w] => /\ v.type = tree[w][l].type /\ v.len = tree[w][l].len
                                /\ v.uplinked = tree[w][l].uplinked
    <3> SUFFICES ASSUME l \in DOMAIN tree[w]
                 PROVE  /\ v.type = tree[w][l].type /\ v.len = tree[w][l].len
                        /\ v.uplinked = tree[w][l].uplinked
      OBVIOUS
    <3>1. PICK o : o = tree[w][l]
      OBVIOUS
    <3>2. Shaped(o)
      BY <3>1, TreeShaped DEF ShapedTree
    <3>3. v = [o EXCEPT !.at = [o.at EXCEPT ![i + 1] = x], !.valid = TRUE]
      BY <2>2, <3>1, <3>2 DEF Assign, Shaped
    <3> QED
      BY <3>1, <3>2, <3>3 DEF Shaped
  <2>5. CASE l \notin DOMAIN tree[w]
    <3>1. tree' = tree
      <4>1. PICK t : t = tree[w] /\ t = [a \in DOMAIN t |-> t[a]]
        BY TreeShaped DEF ShapedTree
      <4>2. [t EXCEPT ![l] = Assign(@, i, kind, x)] = t
        BY <2>5, <4>1
      <4>3. tree' = [tree EXCEPT ![w] = [t EXCEPT ![l] = Assign(@, i, kind, x)]]
        BY <2>1, <4>1
      <4> QED
        BY <4>1, <4>2, <4>3 DEF IInv, Trees
    <3> QED
      BY <2>1, <3>1 DEF GInv, LInv
  <2> QED
    BY <2>1, <2>3, <2>4, <2>5, ChangeKeepsGrown
<1>9. ASSUME NEW loc \in DOMAIN tree["conf"], Bind(loc)
      PROVE  Goal
  <2>1. PICK at : tree' = [tree EXCEPT !.conf[loc] = [@ EXCEPT !.bound = TRUE, !.at = at]]
    BY <1>9 DEF Bind
  <2>2. PICK v : v = [tree.conf[loc] EXCEPT !.bound = TRUE, !.at = at]
    OBVIOUS
  <2>3. tree' = [tree EXCEPT !["conf"][loc] = v] /\ copied' = copied
    BY <1>9, <2>1, <2>2 DEF Bind, IInv, ShapedTree
  <2>4. /\ v.type = tree["conf"][loc].type /\ v.len = tree["conf"][loc].len
        /\ v.uplinked = tree["conf"][loc].uplinked
    <3>1. Shaped(tree.conf[loc])
      BY DEF IInv, ShapedTree
    <3> QED
      BY <2>2, <3>1 DEF Shaped
  <2> QED
    BY <2>3, <2>4, ChangeKeepsGrown DEF Trees
<1>10. ASSUME NEW loc \in DOMAIN tree["conf"], AppWrites(loc)
       PROVE  Goal
  <2>1. PICK at : tree' = [tree EXCEPT !.conf[loc].at = at]
    BY <1>10 DEF AppWrites
  <2>2. PICK v : v = [tree.conf[loc] EXCEPT !.at = at]
    OBVIOUS
  <2>3. tree' = [tree EXCEPT !["conf"][loc] = v] /\ copied' = copied
    BY <1>10, <2>1, <2>2 DEF AppWrites, IInv, ShapedTree
  <2>4. /\ v.type = tree["conf"][loc].type /\ v.len = tree["conf"][loc].len
        /\ v.uplinked = tree["conf"][loc].uplinked
    <3>1. Shaped(tree.conf[loc])
      BY DEF IInv, ShapedTree
    <3> QED
      BY <2>2, <3>1 DEF Shaped
  <2> QED
    BY <2>3, <2>4, ChangeKeepsGrown DEF Trees
<1>11. CASE Copy
  <2> DEFINE V(l) == LET v == tree.conf[l]
                     IN  [v EXCEPT !.bound = FALSE, !.uplinked = FALSE,
                            !.at = IF v.valid THEN @ ELSE [i \in DOMAIN @ |-> Zero(v.type)]]
             u == [l \in DOMAIN tree.conf |-> V(l)]
  <2>1. tree'.patch = u /\ tree'.conf = tree.conf /\ copied' = TRUE
    BY <1>11 DEF Copy, IInv
  <2>2. ASSUME NEW l \in DOMAIN tree.conf
        PROVE  u[l].type = tree.conf[l].type /\ u[l].len = tree.conf[l].len
    <3>1. PICK v : v = tree.conf[l] /\ Shaped(v)
      BY DEF IInv, ShapedTree
    <3>2. V(l).type = v.type /\ V(l).len = v.len
      BY <3>1 DEF Shaped
    <3> QED
      BY <3>1, <3>2
  <2>3. DOMAIN u = DOMAIN tree.conf
    OBVIOUS
  <2> HIDE DEF u
  <2>4. Grown(u)
    BY <2>2, <2>3, SameGrown DEF GInv
  <2> QED
    BY <2>1, <2>4 DEF GInv, LInv
<1>12. ASSUME NEW dry \in BOOLEAN, Update(dry) PROVE Goal
  <2>1. CASE dry
    BY <1>12, <2>1 DEF Update, GInv, LInv
  <2>2. CASE ~dry
    <3>1. PICK t, u : t = tree["conf"] /\ u = Updated(t, tree.patch)
      OBVIOUS
    <3>2. tree' = [tree EXCEPT !["conf"] = u] /\ copied' = copied
      BY <1>12, <2>2, <3>1 DEF Update, IInv
    <3>3. /\ DOMAIN u = DOMAIN t
          /\ \A l \in DOMAIN t : /\ u[l].type = t[l].type /\ u[l].len = t[l].len
                                 /\ u[l].uplinked = t[l].uplinked
      BY <3>1, UpdatedKeeps DEF IInv
    <3>4. Grown(u) /\ (Linked(t) => Linked(u))
      BY <3>1, <3>3, SameGrown DEF GInv, Linked
    <3> QED
      BY <3>1, <3>2, <3>4, OneGrown DEF Trees
  <2> QED
    BY <2>1, <2>2
<1> QED
  BY <1>1, <1>2, <1>3, <1>4, <1>5, <1>6, <1>7, <1>8, <1>9, <1>10, <1>11, <1>12 DEF Next

-----------------------------------------------------------------------------
\* What a second run would list, the first one has listed and removed.
LEMMA NothingLeftToDo ==
    ASSUME NEW dest, ShapedTree(dest), NEW src
    PROVE  Diff(Updated(dest, src), src) = {}
<1> DEFINE new == Updated(dest, src)
<1> SUFFICES ASSUME NEW e \in Diff(new, src) PROVE FALSE
  OBVIOUS
<1>1. PICK l, i : e = <<l, i>> /\ l \in DOMAIN new /\ i \in 0 .. new[l].len - 1
  BY DEF Diff, Elements
<1>2. /\ l \in DOMAIN dest /\ i \in 0 .. dest[l].len - 1 /\ dest[l].len \in Nat
      /\ new[l].at[i + 1] = IF <<l, i>> \in Diff(dest, src)
                              THEN src[l].at[i + 1] ELSE dest[l].at[i + 1]
  <2>1. l \in DOMAIN dest /\ new[l].len = dest[l].len
    BY <1>1, UpdatedKeeps
  <2>2. dest[l].len \in Nat
    BY <2>1 DEF ShapedTree, Shaped
  <2>3. i + 1 \in 1 .. dest[l].len /\ (i + 1) - 1 = i /\ i \in 0 .. dest[l].len - 1
    BY <1>1, <2>1, <2>2
  <2> QED
    BY <2>1, <2>2, <2>3, UpdatedKeeps
<1>3. Meets(new, src, l) /\ Takes(new[l], src[l]) /\ Differs(new[l], src[l], i)
  BY <1>1 DEF Diff
<1>4. Meets(dest, src, l)
  BY <1>3, UpdatedKeeps DEF Meets
<1>5. Takes(dest[l], src[l])
  BY <1>2, <1>3, UpdatedKeeps DEF Takes
<1>6. CASE <<l, i>> \in Diff(dest, src)
  BY <1>2, <1>3, <1>6 DEF Differs
<1>7. CASE <<l, i>> \notin Diff(dest, src)
  <2>1. new[l].at[i + 1] = dest[l].at[i + 1] /\ new[l].type = dest[l].type
    BY <1>2, <1>7, UpdatedKeeps
  <2>2. Differs(dest[l], src[l], i)
    BY <1>3, <2>1 DEF Differs
  <2>3. <<l, i>> \in Elements(dest)
    BY <1>2 DEF Elements
  <2> QED
    BY <1>4, <1>5, <1>7, <2>2, <2>3 DEF Diff
<1> QED
  BY <1>6, <1>7

\* An update leaves nothing for the next one to do, in trees of any shape and
\* after any operations on them.
THEOREM Converges == Spec => UpdateConverges
<1>1. IInv /\ [Next]_vars => (Update(FALSE) => Diff(tree'.conf, tree'.patch) = {})
  <2> SUFFICES ASSUME IInv, Update(FALSE) PROVE Diff(tree'.conf, tree'.patch) = {}
    OBVIOUS
  <2>1. tree' = [tree EXCEPT !.conf = Updated(@, tree.patch)]
    BY DEF Update
  <2>2. tree'.conf = Updated(tree.conf, tree.patch) /\ tree'.patch = tree.patch
    BY <2>1 DEF IInv
  <2> QED
    BY <2>2, NothingLeftToDo DEF IInv
<1> QED
  BY InitInv, NextInv, <1>1, PTL DEF Spec, UpdateConverges

-----------------------------------------------------------------------------
(* Paths lead back                                                           *)

LEMMA UplinksThere ==
    ASSUME NEW t, Linked(t), NEW l, Stands(t, l), NEW k \in 1 .. Len(l) - 1, k % 2 = 1
    PROVE  t[Upto(l, k)].uplinked
<1>1. l \in Seq(Places) /\ Len(l) \in Nat
  BY LenProperties DEF Stands
<1>2. PICK j \in 1 .. Len(l) : j = k + 1
  BY <1>1
<1>3. j % 2 = 0 /\ j - 1 = k
  BY <1>2, Odd
<1>4. Holds(t, Upto(l, k), l[j])
  BY <1>1, <1>3, IndexAt
<1> QED
  BY <1>4 DEF Holds, Linked

LEMMA ElementIs ==
    ASSUME NEW t, ShapedTree(t), NEW e \in Elements(t)
    PROVE  \E l \in DOMAIN t : \E i \in Nat : e = <<l, i>> /\ i < t[l].len
<1>1. PICK l \in DOMAIN t : \E i \in 0 .. t[l].len - 1 : e = <<l, i>>
  BY DEF Elements
<1>2. t[l].len \in Nat
  BY DEF ShapedTree, Shaped
<1>3. PICK i \in 0 .. t[l].len - 1 : e = <<l, i>>
  BY <1>1
<1>4. i \in Nat /\ i < t[l].len
  BY <1>2
<1> QED
  BY <1>3, <1>4

\* The path get_path gives an element leads config::get to that element, in
\* every tree the operations of config make from any documents: for names that
\* are one token of a path each, and objects that come with their content. The
\* state constraints of the runs and their sizes are gone; what the walk up by
\* uplinks writes is what the walk down reads, part by part.
THEOREM PathsRoundTrip ==
    ASSUME PlainNames, NoFreshObjects
    PROVE  Spec => []PathRoundTrip
<1>1. IInv /\ GInv /\ LInv => PathRoundTrip
  <2> SUFFICES ASSUME IInv, GInv, LInv, NEW e \in Elements(tree.conf)
               PROVE  LET path == PathOf(tree.conf, FALSE, e[1], e[2])
                          g == Get(tree.conf, path)
                      IN  Found(tree.conf, path) /\ <<g.loc, g.idx>> = e
    BY DEF PathRoundTrip
  <2>1. PICK t : t = tree.conf
    OBVIOUS
  <2>2. Grown(t) /\ Linked(t) /\ ShapedTree(t)
    BY <2>1 DEF IInv, GInv, LInv
  <2>3. PICK l \in DOMAIN t : \E i \in Nat : e = <<l, i>> /\ i < t[l].len
    BY <2>1, <2>2, ElementIs
  <2>4. PICK i \in Nat : e = <<l, i>> /\ i < t[l].len
    BY <2>3
  <2>5. \A k \in 1 .. Len(l) - 1 : k % 2 = 1 => t[Upto(l, k)].uplinked
    BY <2>2, UplinksThere DEF Grown
  <2>6. PathOf(t, FALSE, l, i) = WayTo(l, i)
    BY <2>2, <2>5, PathIsWay DEF Grown
  <2>7. /\ Found(t, WayTo(l, i))
        /\ Get(t, WayTo(l, i)).loc = l /\ Get(t, WayTo(l, i)).idx = i
    BY <2>2, <2>4, WayLeads
  <2> QED
    BY <2>1, <2>4, <2>6, <2>7
<1>2. Init => IInv /\ GInv /\ LInv
  BY InitInv, InitGrown
<1>3. IInv /\ GInv /\ LInv /\ [Next]_vars => (IInv /\ GInv /\ LInv)'
  BY NextInv, NextGrown
<1> QED
  BY <1>1, <1>2, <1>3, PTL DEF Spec

\* The list update() gives names by their paths exactly the elements a run
\* changes, for a patch with all its uplinks: a path of the patch leads to the
\* same place in the tree, whatever else the two trees hold.
THEOREM DiffNames ==
    ASSUME PlainNames, NoFreshObjects
    PROVE  Spec => DiffNamesChanges
<1>1. IInv /\ GInv /\ LInv => \A dry \in BOOLEAN : ~copied /\ Update(dry) =>
         LET old == tree.conf
             new == Updated(old, tree.patch)
         IN  /\ \A p \in told' : Found(old, p)
             /\ {<<Get(old, p).loc, Get(old, p).idx>> : p \in told'} =
                {e \in Elements(old) : old[e[1]].at[e[2] + 1] # new[e[1]].at[e[2] + 1]}
  <2> SUFFICES ASSUME IInv, GInv, LInv, NEW dry \in BOOLEAN, ~copied, Update(dry)
               PROVE  LET old == tree.conf
                          new == Updated(old, tree.patch)
                      IN  /\ \A p \in told' : Found(old, p)
                          /\ {<<Get(old, p).loc, Get(old, p).idx>> : p \in told'} =
                             {e \in Elements(old) :
                                old[e[1]].at[e[2] + 1] # new[e[1]].at[e[2] + 1]}
    OBVIOUS
  <2>1. PICK old, src, new : old = tree.conf /\ src = tree.patch /\ new = Updated(old, src)
    OBVIOUS
  <2>2. /\ Grown(old) /\ ShapedTree(old)
        /\ Grown(src) /\ ShapedTree(src) /\ Linked(src)
    BY <2>1 DEF IInv, GInv, LInv
  <2> DEFINE path(e) == PathOf(src, FALSE, e[1], e[2])
  <2>3. told' = {path(e) : e \in Diff(old, src)}
    <3>1. \A l, i : PathOf(src, copied, l, i) = PathOf(src, FALSE, l, i)
      BY DEF PathOf
    <3> QED
      BY <2>1, <3>1 DEF Update
  <2>4. ASSUME NEW e \in Diff(old, src)
        PROVE  /\ Found(old, path(e))
               /\ <<Get(old, path(e)).loc, Get(old, path(e)).idx>> = e
               /\ e \in Elements(old)
    <3>1. e \in Elements(old) /\ Meets(old, src, e[1])
      BY DEF Diff
    <3>2. PICK l \in DOMAIN old : \E i \in Nat : e = <<l, i>> /\ i < old[l].len
      BY <2>2, <3>1, ElementIs
    <3>3. PICK i \in Nat : e = <<l, i>> /\ i < old[l].len
      BY <3>2
    <3>4. l \in DOMAIN src
      BY <3>1, <3>3 DEF Meets
    <3>5. \A k \in 1 .. Len(l) - 1 : k % 2 = 1 => src[Upto(l, k)].uplinked
      BY <2>2, <3>4, UplinksThere DEF Grown
    <3>6. PathOf(src, FALSE, l, i) = WayTo(l, i)
      BY <2>2, <3>4, <3>5, PathIsWay DEF Grown
    <3>7. /\ Found(old, WayTo(l, i))
          /\ Get(old, WayTo(l, i)).loc = l /\ Get(old, WayTo(l, i)).idx = i
      BY <2>2, <3>3, WayLeads
    <3> QED
      BY <3>1, <3>3, <3>6, <3>7
  <2>5. ASSUME NEW e \in Elements(old)
        PROVE  old[e[1]].at[e[2] + 1] # new[e[1]].at[e[2] + 1] <=> e \in Diff(old, src)
    <3>1. PICK l \in DOMAIN old : \E i \in Nat : e = <<l, i>> /\ i < old[l].len
      BY <2>2, ElementIs
    <3>2. PICK i \in Nat : e = <<l, i>> /\ i < old[l].len
      BY <3>1
    <3>3. PICK j : j = i + 1
      OBVIOUS
    <3>4. j \in 1 .. old[l].len /\ j - 1 = i
      <4>1. old[l].len \in Nat
        BY <2>2 DEF ShapedTree, Shaped
      <4> QED
        BY <3>2, <3>3, <4>1
    <3>5. new[l].at[j] = IF <<l, i>> \in Diff(old, src) THEN src[l].at[j] ELSE old[l].at[j]
      BY <2>1, <2>2, <3>4, UpdatedKeeps
    <3>6. e \in Diff(old, src) => old[l].at[j] # src[l].at[j]
      BY <3>2, <3>3 DEF Diff, Differs
    <3> QED
      BY <3>2, <3>3, <3>5, <3>6
  <2> HIDE DEF path
  <2>6. \A p \in told' : Found(old, p)
    BY <2>3, <2>4
  <2>7. {<<Get(old, p).loc, Get(old, p).idx>> : p \in told'} = Diff(old, src)
    BY <2>3, <2>4
  <2>8. {e \in Elements(old) : old[e[1]].at[e[2] + 1] # new[e[1]].at[e[2] + 1]} = Diff(old, src)
    BY <2>4, <2>5
  <2> QED
    BY <2>1, <2>6, <2>7, <2>8
<1>2. Init => IInv /\ GInv /\ LInv
  BY InitInv, InitGrown
<1>3. IInv /\ GInv /\ LInv /\ [Next]_vars => (IInv /\ GInv /\ LInv)'
  BY NextInv, NextGrown
<1> QED
  BY <1>1, <1>2, <1>3, PTL DEF Spec, DiffNamesChanges

-----------------------------------------------------------------------------
(* A value that is set                                                       *)

LEMMA FlattenType ==
    ASSUME NEW T, NEW s \in Seq(Seq(T))
    PROVE  FlattenSeq(s) \in Seq(T)
<1> DEFINE S == {k \in Nat : k <= Len(s) => FlattenSeq(Upto(s, k)) \in Seq(T)}
<1>1. 0 \in S
  <2>1. Upto(s, 0) = <<>> /\ <<>> \in Seq(T)
    BY DEF Upto
  <2> QED
    BY <2>1, FlattenNone
<1>2. ASSUME NEW k \in Nat, k \in S PROVE k + 1 \in S
  <2>1. SUFFICES ASSUME k + 1 <= Len(s) PROVE FlattenSeq(Upto(s, k + 1)) \in Seq(T)
    OBVIOUS
  <2>2. PICK j \in 1 .. Len(s) : j = k + 1
    BY <2>1
  <2>3. PICK u : u = Upto(s, j)
    OBVIOUS
  <2>4. j \in 0 .. Len(s) /\ k \in 0 .. j /\ k \in 0 .. Len(s)
    BY <2>2
  <2>5. u \in Seq(Seq(T)) /\ Len(u) = j
    BY <2>3, <2>4, Prefix
  <2>6. u = Append(Upto(u, Len(u) - 1), u[Len(u)])
    <3>1. PICK Q : Q = Seq(T)
      OBVIOUS
    <3>2. u \in Seq(Q) /\ Len(u) > 0
      BY <2>2, <2>5, <3>1
    <3> QED
      BY <3>2, LastPart
  <2>7. Upto(u, k) = Upto(s, k)
    BY <2>3, <2>4, PrefixOfPrefix
  <2>8. PICK v, x : v = Upto(s, k) /\ x = u[j]
    OBVIOUS
  <2>9. v \in Seq(Seq(T)) /\ x \in Seq(T)
    <3>1. v \in Seq(Seq(T))
      BY <2>4, <2>8, Prefix
    <3>2. j \in 1 .. Len(u)
      BY <2>2, <2>5
    <3> QED
      BY <2>5, <2>8, <3>1, <3>2, ElementOfSeq
  <2>10. u = Append(v, x)
    BY <2>2, <2>5, <2>6, <2>7, <2>8
  <2>11. FlattenSeq(u) = FlattenSeq(v) \o x
    BY <2>9, <2>10, FlattenAppended
  <2>12. FlattenSeq(v) \in Seq(T)
    BY <1>2, <2>4, <2>8
  <2>13. FlattenSeq(v) \o x \in Seq(T)
    BY <2>9, <2>12, ConcatProperties
  <2> QED
    BY <2>2, <2>3, <2>11, <2>13
<1> HIDE DEF S
<1>3. Nat \subseteq S
  BY <1>1, <1>2, Induction
<1>4. FlattenSeq(Upto(s, Len(s))) \in Seq(T)
  BY <1>3 DEF S
<1> QED
  BY <1>4, WholePrefix

LEMMA PathTokens ==
    ASSUME NEW t, Grown(t), NEW l \in DOMAIN t, NEW i \in Nat
    PROVE  PathOf(t, FALSE, l, i) \in Seq(Tokens)
<1> DEFINE Token(k) == IF ~Known(t, l, k) THEN <<>> ELSE
                       IF k % 2 = 1 THEN <<Slash>> \o Spelling[l[k]] ELSE
                       IF l[k] = 0 THEN <<>> ELSE <<l[k]>>
           s == [k \in 1 .. Len(l) |-> Token(k)]
<1>1. Len(l) \in Nat /\ Stands(t, l)
  BY GrownPlaces DEF Grown
<1>2. Slash \in Tokens /\ Names \cup {Slash} \subseteq Tokens /\ Nat \subseteq Tokens
  BY DEF Tokens
<1>3. ASSUME NEW k \in 1 .. Len(l) PROVE Token(k) \in Seq(Tokens)
  <2>1. CASE k % 2 = 1
    <3>1. PICK n \in Names : n = l[k]
      BY <1>1, <2>1, NameAt
    <3>2. Spelling[n] \in Seq(Tokens)
      <4>1. Spelling[n] \in Seq(Names \cup {Slash})
        BY ValuesAssumption
      <4> QED
        BY <1>2, <4>1
    <3>3. <<Slash>> \o Spelling[n] \in Seq(Tokens)
      BY <1>2, <3>2
    <3> QED
      BY <2>1, <3>1, <3>3
  <2>2. CASE k % 2 = 0
    <3>1. PICK x \in Nat : x = l[k]
      BY <1>1, <2>2, IndexAt DEF Holds
    <3>2. <<x>> \in Seq(Tokens)
      BY <1>2
    <3> QED
      BY <2>2, <3>1, <3>2
  <2> QED
    BY <2>1, <2>2, Odd
<1>4. PathOf(t, FALSE, l, i) = FlattenSeq(s) \o (IF i = 0 THEN <<>> ELSE <<i>>)
  BY DEF PathOf
<1> HIDE DEF Token
<1>5. s \in Seq(Seq(Tokens))
  <2>1. s \in [1 .. Len(l) -> Seq(Tokens)]
    BY <1>3
  <2> HIDE DEF s
  <2> QED
    BY <1>1, <2>1
<1> HIDE DEF s
<1>6. FlattenSeq(s) \in Seq(Tokens)
  BY <1>5, FlattenType
<1>7. (IF i = 0 THEN <<>> ELSE <<i>>) \in Seq(Tokens)
  BY <1>2
<1> QED
  BY <1>4, <1>6, <1>7, ConcatProperties

LEMMA PathsTokens ==
    ASSUME IInv, GInv, NEW w \in Trees, NEW path \in Paths(w)
    PROVE  path \in Seq(Tokens)
<1>1. PICK t : t = tree[w]
  OBVIOUS
<1>2. Grown(t) /\ ShapedTree(t) /\ 0 \in Nat /\ 0 \in Tokens
  BY <1>1, TreeGrown, TreeShaped DEF Tokens
<1>3. ASSUME NEW e \in Elements(t), path = PathOf(t, FALSE, e[1], e[2])
      PROVE  path \in Seq(Tokens)
  <2>1. PICK l \in DOMAIN t : \E i \in Nat : e = <<l, i>> /\ i < t[l].len
    BY <1>2, ElementIs
  <2>2. PICK i \in Nat : e = <<l, i>>
    BY <2>1
  <2>3. PathOf(t, FALSE, l, i) \in Seq(Tokens)
    BY <1>2, PathTokens
  <2> QED
    BY <1>3, <2>2, <2>3
<1>4. ASSUME NEW l \in DOMAIN t, path = Append(PathOf(t, FALSE, l, 0), 0)
      PROVE  path \in Seq(Tokens)
  <2>1. PICK p : p = PathOf(t, FALSE, l, 0)
    OBVIOUS
  <2>2. p \in Seq(Tokens)
    BY <1>2, <2>1, PathTokens
  <2>3. Append(p, 0) \in Seq(Tokens)
    BY <1>2, <2>2, AppendProperties
  <2> QED
    BY <1>4, <2>1, <2>3
<1> QED
  BY <1>1, <1>3, <1>4 DEF Paths

\* A place of a walk: where it is in a value, the value is there.
Sound(t, s) ==
    /\ s = [mode |-> s.mode, loc |-> s.loc, idx |-> s.idx]
    /\ s.idx \in Nat
    /\ s.mode \in {"value", "element"} => s.loc \in DOMAIN t

\* Trees with the same values, other contents aside.
Alike(t, u) == /\ DOMAIN u = DOMAIN t
               /\ \A l \in DOMAIN t : u[l].type = t[l].type /\ u[l].len = t[l].len

LEMMA NameSound ==
    ASSUME NEW t, NEW c, NEW n
    PROVE  Sound(t, StepName(t, c, n))
<1>1. CASE Append(c, n) \in DOMAIN t
  BY <1>1 DEF StepName, Sound
<1>2. CASE Append(c, n) \notin DOMAIN t
  BY <1>2 DEF StepName, Sound
<1> QED
  BY <1>1, <1>2

LEMMA NameAlike ==
    ASSUME NEW t, NEW u, Alike(t, u), NEW c, NEW n
    PROVE  StepName(u, c, n) = StepName(t, c, n)
BY DEF StepName, Alike

LEMMA StepAlike ==
    ASSUME NEW t, NEW u, Alike(t, u), NEW s, Sound(t, s), NEW tok \in Tokens
    PROVE  Sound(t, Step(t, s, tok)) /\ Step(u, s, tok) = Step(t, s, tok)
<1> DEFINE Goal == Sound(t, Step(t, s, tok)) /\ Step(u, s, tok) = Step(t, s, tok)
<1>1. Sound(t, Bad) /\ \A c : Sound(t, Start(c))
  BY DEF Sound, Bad, Start
<1>2. CASE s.mode = "config"
  <2>1. CASE tok = Slash
    BY <1>2, <2>1 DEF Step
  <2>2. CASE tok # Slash /\ tok \in Names
    <3>1. Step(t, s, tok) = StepName(t, s.loc, tok) /\ Step(u, s, tok) = StepName(u, s.loc, tok)
      BY <1>2, <2>2 DEF Step
    <3> QED
      BY <3>1, NameSound, NameAlike
  <2>3. CASE tok # Slash /\ tok \notin Names
    <3>1. Step(t, s, tok) = Bad /\ Step(u, s, tok) = Bad
      BY <1>2, <2>3 DEF Step
    <3> QED
      BY <1>1, <3>1
  <2> QED
    BY <2>1, <2>2, <2>3
<1>3. CASE s.mode = "value"
  <2>1. u[s.loc].type = t[s.loc].type /\ u[s.loc].len = t[s.loc].len
    BY <1>3 DEF Sound, Alike
  <2>2. CASE tok = Slash
    BY <1>3, <2>2, Signs DEF Step
  <2>3. CASE tok \in Names
    <3>1. tok # Slash
      BY <2>3, Signs
    <3>2. /\ Step(t, s, tok) = IF t[s.loc].type = "object"
                                 THEN StepName(t, Append(s.loc, 0), tok) ELSE Bad
          /\ Step(u, s, tok) = IF u[s.loc].type = "object"
                                 THEN StepName(u, Append(s.loc, 0), tok) ELSE Bad
      BY <1>3, <2>3, <3>1 DEF Step
    <3> QED
      BY <1>1, <2>1, <3>2, NameSound, NameAlike
  <2>4. CASE tok \notin Names \cup {Slash}
    <3>1. tok \in Nat
      BY <2>4 DEF Tokens
    <3>2. PICK e, b : /\ e = [s EXCEPT !.mode = "element", !.idx = tok]
                      /\ b = [s EXCEPT !.mode = "not found"]
      OBVIOUS
    <3>3. tok # Slash /\ tok \notin Names
      BY <2>4
    <3>4. Step(t, s, tok) = IF tok < t[s.loc].len THEN e ELSE b
      BY <1>3, <3>2, <3>3 DEF Step
    <3>5. Step(u, s, tok) = IF tok < u[s.loc].len THEN e ELSE b
      BY <1>3, <3>2, <3>3 DEF Step
    <3>6. /\ s = [mode |-> s.mode, loc |-> s.loc, idx |-> s.idx]
          /\ s.loc \in DOMAIN t /\ s.idx \in Nat
      BY <1>3 DEF Sound
    <3>7. Sound(t, e)
      <4>1. e = [mode |-> "element", loc |-> s.loc, idx |-> tok]
        BY <3>2, <3>6
      <4> QED
        BY <3>1, <3>6, <4>1 DEF Sound
    <3>8. Sound(t, b)
      <4>1. b = [mode |-> "not found", loc |-> s.loc, idx |-> s.idx]
        BY <3>2, <3>6
      <4> QED
        BY <3>6, <4>1 DEF Sound
    <3> QED
      BY <2>1, <3>4, <3>5, <3>7, <3>8
  <2> QED
    BY <2>2, <2>3, <2>4
<1>4. CASE s.mode = "element"
  <2>1. u[s.loc].type = t[s.loc].type
    BY <1>4 DEF Sound, Alike
  <2>2. /\ Step(t, s, tok) = IF t[s.loc].type # "object" THEN Bad ELSE
                             IF tok = Slash THEN Start(Append(s.loc, s.idx)) ELSE
                             IF tok \in Names THEN StepName(t, Append(s.loc, s.idx), tok) ELSE Bad
        /\ Step(u, s, tok) = IF u[s.loc].type # "object" THEN Bad ELSE
                             IF tok = Slash THEN Start(Append(s.loc, s.idx)) ELSE
                             IF tok \in Names THEN StepName(u, Append(s.loc, s.idx), tok) ELSE Bad
    BY <1>4 DEF Step
  <2> QED
    BY <1>1, <2>1, <2>2, NameSound, NameAlike
<1>5. CASE s.mode \notin {"config", "value", "element"}
  <2>1. Step(t, s, tok) = s /\ Step(u, s, tok) = s
    BY <1>5 DEF Step
  <2> QED
    BY <2>1
<1> QED
  BY <1>2, <1>3, <1>4, <1>5

LEMMA GetAlike ==
    ASSUME NEW t, NEW u, Alike(t, u), NEW path \in Seq(Tokens)
    PROVE  Sound(t, Get(t, path)) /\ Get(u, path) = Get(t, path)
<1>1. PICK m \in Nat : m = Len(path)
  OBVIOUS
<1>2. PICK f : Walks(t, path, m, f) /\ Get(t, path) = f[m]
  BY <1>1, GetWalks
<1>3. PICK g : Walks(u, path, m, g) /\ Get(u, path) = g[m]
  BY <1>1, GetWalks
<1> DEFINE S == {k \in Nat : k <= m => Sound(t, f[k]) /\ g[k] = f[k]}
<1>4. 0 \in S
  <2>1. f[0] = Start(<<>>) /\ g[0] = Start(<<>>)
    BY <1>2, <1>3, WalkStart
  <2> QED
    BY <2>1 DEF Start, Sound
<1>5. ASSUME NEW k \in Nat, k \in S PROVE k + 1 \in S
  <2>1. SUFFICES ASSUME k + 1 <= m PROVE Sound(t, f[k + 1]) /\ g[k + 1] = f[k + 1]
    OBVIOUS
  <2>2. PICK i \in 1 .. m : i = k + 1 /\ i - 1 = k
    BY <2>1
  <2>3. PICK tok \in Tokens : tok = path[i]
    BY <1>1, <2>2, ElementOfSeq
  <2>4. f[i] = Step(t, f[k], tok)
    <3>1. f[i] = Step(t, f[i - 1], path[i])
      BY <1>2, WalkSteps
    <3> QED
      BY <2>2, <2>3, <3>1
  <2>5. g[i] = Step(u, g[k], tok)
    <3>1. g[i] = Step(u, g[i - 1], path[i])
      BY <1>3, WalkSteps
    <3> QED
      BY <2>2, <2>3, <3>1
  <2>6. Sound(t, f[k]) /\ g[k] = f[k]
    BY <1>5, <2>1
  <2>7. PICK s : s = f[k]
    OBVIOUS
  <2>8. Sound(t, Step(t, s, tok)) /\ Step(u, s, tok) = Step(t, s, tok)
    BY <2>6, <2>7, StepAlike
  <2> QED
    BY <2>2, <2>4, <2>5, <2>6, <2>7, <2>8
<1> HIDE DEF S
<1>6. Nat \subseteq S
  BY <1>4, <1>5, Induction
<1>7. Sound(t, f[m]) /\ g[m] = f[m]
  BY <1>6 DEF S
<1> QED
  BY <1>2, <1>3, <1>7

\* A whole number stays what it is when it is read as an integer.
LEMMA WholeTruncated ==
    ASSUME NEW x \in Int, x % Unit = 0
    PROVE  Truncated(x) = x
<1>1. Unit \in Nat /\ Unit > 0
  BY ValuesAssumption
<1>2. PICK q \in Int : x = q * Unit
  <2>1. x = (x \div Unit) * Unit /\ x \div Unit \in Int
    BY <1>1
  <2> QED
    BY <2>1
<1>3. \A r \in Int : (r * Unit) \div Unit = r
  BY <1>1
<1>4. -x = (-q) * Unit /\ -q \in Int
  BY <1>1, <1>2
<1> QED
  BY <1>1, <1>2, <1>3, <1>4 DEF Truncated

LEMMA AssignedReads ==
    ASSUME NEW v, Shaped(v), NEW i \in Nat, NEW kind \in Kinded, Accepts(v, i, kind),
           NEW x \in Contents(kind)
    PROVE  LET a == Assign(v, i, kind, x)
           IN  /\ a.type = v.type /\ a.len = v.len
               /\ a.at[i + 1] = x /\ x \in Read(a, i, kind)
               /\ \A j \in Nat : j < v.len /\ j # i => a.at[j + 1] = v.at[j + 1]
<1>1. PICK a : a = Assign(v, i, kind, x)
  OBVIOUS
<1>2. v.len \in Nat /\ i < v.len /\ DOMAIN v.at = 1 .. v.len
  BY DEF Shaped, Accepts
<1>3. a = [v EXCEPT !.at = [v.at EXCEPT ![i + 1] = x], !.valid = TRUE]
  BY <1>1 DEF Assign, Shaped
<1>4. a.type = v.type /\ a.len = v.len /\ a.valid = TRUE /\ a.at = [v.at EXCEPT ![i + 1] = x]
  BY <1>3 DEF Shaped
<1>5. a.at[i + 1] = x
  BY <1>2, <1>4
<1>6. ASSUME NEW j \in Nat, j < v.len, j # i PROVE a.at[j + 1] = v.at[j + 1]
  BY <1>2, <1>4, <1>6
<1>7. \/ kind = "integer" /\ a.type \in {"integer", "real"}
      \/ kind \in {"real", "string"} /\ a.type = kind
  BY <1>4 DEF Accepts
<1>8. ~(i >= a.len)
  BY <1>2, <1>4
<1>9. x \in Read(a, i, kind)
  <2>1. CASE kind = "string"
    BY <1>5, <1>7, <1>8, <2>1 DEF Read
  <2>2. CASE kind # "string" /\ a.type = "integer"
    BY <1>4, <1>5, <1>8, <2>2 DEF Read
  <2>3. CASE kind = "real" /\ a.type = "real"
    BY <1>4, <1>5, <1>8, <2>3 DEF Read
  <2>4. CASE kind = "integer" /\ a.type = "real"
    <3>1. x \in Int /\ x % Unit = 0
      BY <2>4, ConfigAssumption DEF Contents
    <3>2. Truncated(x) = x
      BY <3>1, WholeTruncated
    <3> QED
      BY <1>4, <1>5, <1>8, <2>4, <3>2 DEF Read
  <2> QED
    BY <1>7, <2>1, <2>2, <2>3, <2>4
<1> QED
  BY <1>1, <1>4, <1>5, <1>6, <1>9

\* A value set through a path is the value read through that path, and no other
\* element has changed: the walk goes by types and lengths, which set() leaves
\* alone, and a whole number loses nothing on its way through a double.
THEOREM SetReads == Spec => SetReadBack
<1>1. IInv /\ GInv =>
        \A w \in {w \in Trees : DOMAIN tree'[w] = DOMAIN tree[w]} :
         LET changed == {l \in DOMAIN tree[w] : tree'[w][l] # tree[w][l]}
         IN  \A path \in {path \in Paths(w) : Get(tree[w], path).loc \in changed},
                kind \in Kinded : \A x \in Contents(kind) :
           Set(w, path, kind, x) =>
             LET t == tree'[w]
                 g == Get(t, path)
             IN  /\ x \in Read(t[g.loc], g.idx, kind) /\ t[g.loc].at[g.idx + 1] = x
                 /\ \A e \in Elements(t) \ {<<g.loc, g.idx>>} :
                      t[e[1]].at[e[2] + 1] = tree[w][e[1]].at[e[2] + 1]
  <2> SUFFICES ASSUME IInv, GInv, NEW w \in Trees, NEW path \in Paths(w),
                      Get(tree[w], path).loc \in DOMAIN tree[w], NEW kind \in Kinded,
                      NEW x \in Contents(kind), Set(w, path, kind, x)
               PROVE  LET t == tree'[w]
                          g == Get(t, path)
                      IN  /\ x \in Read(t[g.loc], g.idx, kind) /\ t[g.loc].at[g.idx + 1] = x
                          /\ \A e \in Elements(t) \ {<<g.loc, g.idx>>} :
                               t[e[1]].at[e[2] + 1] = tree[w][e[1]].at[e[2] + 1]
    OBVIOUS
  <2>1. PICK t, u : t = tree[w] /\ u = tree'[w]
    OBVIOUS
  <2>2. PICK g : g = Get(t, path)
    OBVIOUS
  <2>3. PICK v, a : v = t[g.loc] /\ a = Assign(v, g.idx, kind, x)
    OBVIOUS
  <2>4. g.loc \in DOMAIN t /\ Accepts(v, g.idx, kind) /\ u = [t EXCEPT ![g.loc] = a]
    BY <2>1, <2>2, <2>3 DEF Set, IInv, Trees
  <2>5. ShapedTree(t) /\ Shaped(v)
    BY <2>1, <2>3, <2>4, TreeShaped DEF ShapedTree
  <2>6. path \in Seq(Tokens)
    BY PathsTokens
  <2>7. g.idx \in Nat
    <3>1. Alike(t, t)
      BY DEF Alike
    <3> QED
      BY <2>2, <2>6, <3>1, GetAlike DEF Sound
  <2>8. /\ a.type = v.type /\ a.len = v.len
        /\ a.at[g.idx + 1] = x /\ x \in Read(a, g.idx, kind)
        /\ \A j \in Nat : j < v.len /\ j # g.idx => a.at[j + 1] = v.at[j + 1]
    BY <2>3, <2>4, <2>5, <2>7, AssignedReads
  <2>9. /\ DOMAIN u = DOMAIN t /\ u[g.loc] = a
        /\ \A l \in DOMAIN t : l # g.loc => u[l] = t[l]
    BY <2>4
  <2>10. Alike(t, u)
    BY <2>3, <2>8, <2>9 DEF Alike
  <2>11. Get(u, path) = g
    BY <2>2, <2>6, <2>10, GetAlike
  <2>12. ASSUME NEW e \in Elements(u) \ {<<g.loc, g.idx>>}
         PROVE  u[e[1]].at[e[2] + 1] = t[e[1]].at[e[2] + 1]
    <3>1. PICK l \in DOMAIN u : \E i \in 0 .. u[l].len - 1 : e = <<l, i>>
      BY DEF Elements
    <3>2. PICK i \in 0 .. u[l].len - 1 : e = <<l, i>>
      BY <3>1
    <3>3. CASE l # g.loc
      BY <2>9, <3>2, <3>3
    <3>4. CASE l = g.loc
      <4>1. v.len \in Nat
        BY <2>5 DEF Shaped
      <4>2. i \in Nat /\ i < v.len /\ i # g.idx
        BY <2>8, <2>9, <3>2, <3>4, <4>1
      <4> QED
        BY <2>3, <2>8, <2>9, <3>2, <3>4, <4>2
    <3> QED
      BY <3>3, <3>4
  <2> QED
    BY <2>1, <2>8, <2>9, <2>11, <2>12
<1>2. Init => IInv /\ GInv
  BY InitInv, InitGrown
<1>3. IInv /\ GInv /\ [Next]_vars => (IInv /\ GInv)'
  BY NextInv, NextGrown
<1> QED
  BY <1>1, <1>2, <1>3, PTL DEF Spec, SetReadBack
=============================================================================
