------------------------------- MODULE Config -------------------------------
(* The parameters of src/src/config.cpp and the loading of JSON documents in *)
(* src/src/config_factory.cpp: two trees of values (Values), the one the     *)
(* program uses and a patch that update() brings into it.                    *)
EXTENDS Values

CONSTANTS
    Parts,          \* the documents a config inside a tree is made from
    FreshTypes,     \* types of values the program creates without a content
    Nums, Strings,  \* what numbers and strings hold
    MaxLen,         \* bound: elements of a value
    MaxOps,         \* bound: operations on the trees
    Copies          \* the patch may be a copy of the tree

ASSUME ConfigAssumption ==
    /\ 0 \in Nums /\ Nums \subseteq Int /\ Null \notin Strings
    /\ \A doc \in Parts : IsDocument(doc)
    /\ MaxLen \in Nat \ {0} /\ MaxOps \in Nat /\ Copies \in BOOLEAN

VARIABLES
    tree,       \* [conf, patch]: the two trees
    copied,     \* the patch is a copy
    told,       \* the paths the last update listed
    ops         \* operations so far (bound)

vars == <<tree, copied, told, ops>>

-----------------------------------------------------------------------------
(* update()                                                                  *)

\* The pairs of values update() comes to: both there, below objects of equal
\* length.
Meets(dest, src, loc) ==
    /\ Above(loc) \cup {loc} \subseteq DOMAIN dest \cap DOMAIN src
    /\ \A a \in Above(loc) : /\ dest[a].type = "object" /\ src[a].type = "object"
                             /\ dest[a].len = src[a].len

\* What one value may take from another.
Takes(d, s) ==
    /\ d.len = s.len
    /\ \/ d.type = "integer" /\ s.type = "integer" /\ d.bool = s.bool
       \/ d.type = "real" /\ s.type \in {"integer", "real"}
       \/ d.type = "string" /\ s.type = "string"

Differs(d, s, i) == /\ d.at[i + 1] # s.at[i + 1]
                    /\ d.type = "string" => Null \notin {d.at[i + 1], s.at[i + 1]}

Diff(dest, src) ==
    {e \in Elements(dest) : /\ Meets(dest, src, e[1])
                            /\ Takes(dest[e[1]], src[e[1]])
                            /\ Differs(dest[e[1]], src[e[1]], e[2])}

\* An integer is not stored in a real value.
Updated_mutant(dest, src) ==
    [l \in DOMAIN dest |->
        [dest[l] EXCEPT !.at = [i \in DOMAIN @ |->
            IF <<l, i - 1>> \in Diff(dest, src) /\ dest[l].type = src[l].type
              THEN src[l].at[i] ELSE @[i]]]]

Updated(dest, src) ==
    [l \in DOMAIN dest |->
        [dest[l] EXCEPT !.at = [i \in DOMAIN @ |->
            IF <<l, i - 1>> \in Diff(dest, src) THEN src[l].at[i] ELSE @[i]]]]

-----------------------------------------------------------------------------
(* The operations                                                            *)

Trees == {"conf", "patch"}

Init ==
    /\ \E c, p \in Documents : tree = [conf |-> Load(c), patch |-> Load(p)]
    /\ copied = FALSE /\ told = {} /\ ops = 0

Count == ops < MaxOps /\ ops' = ops + 1

Put(w, l, v) == tree' = [tree EXCEPT ![w] = [x \in DOMAIN @ \cup {l} |->
                                               IF x = l THEN v ELSE @[x]]]

\* The tree t with the value at each location l moved to to[l].
Moved(t, to) ==
    [m \in {to[l] : l \in DOMAIN t} |-> t[CHOOSE l \in DOMAIN t : to[l] = m]]

Kinded == {"integer", "real", "string"}

\* An integer is a whole number.
Contents(kind) ==
    CASE kind = "string"  -> Strings \cup {Null}
      [] kind = "real"    -> Nums
      [] kind = "integer" -> {x \in Nums : x % Unit = 0}

\* Where a new value goes: a name of the config c that is not taken.
Free(w, c, n) == c \in Configs(tree[w]) /\ Append(c, n) \notin DOMAIN tree[w]

\* config::create of a number or a string; one without a content is made by
\* CreateFresh.
Create(w, c, n) ==
    /\ Count /\ Free(w, c, n)
    /\ \E type \in Kinded : \E x \in Contents(type) \ {Null} :
         Put(w, Append(c, n), [NewValue(type, 1, FALSE, FALSE)
                                 EXCEPT !.valid = TRUE, !.at = <<x>>])
    /\ UNCHANGED <<copied, told>>

\* config::create of a config the caller made: it gets its uplink.
CreateConfig(w, c, n) ==
    /\ Count /\ Free(w, c, n) /\ Plain(n)
    /\ \E doc \in Parts :
         LET at   == Append(c, n)
             self == [NewValue("object", 1, FALSE, FALSE) EXCEPT !.uplinked = TRUE]
             part == Moved(Load(doc), [l \in DOMAIN Load(doc) |-> at \o <<0>> \o l])
         IN  tree' = [tree EXCEPT ![w] =
               [l \in DOMAIN @ \cup {at} \cup DOMAIN part |->
                  IF l = at THEN self ELSE IF l \in DOMAIN part THEN part[l] ELSE @[l]]]
    /\ UNCHANGED <<copied, told>>

\* config::create of a value the caller made, still without a content.
CreateFresh(w, c, n) ==
    /\ Count /\ Free(w, c, n) /\ Plain(n)
    /\ \E type \in FreshTypes, len \in 1 .. MaxLen :
         Put(w, Append(c, n), NewValue(type, len, FALSE, FALSE))
    /\ UNCHANGED <<copied, told>>

\* config::remove, with everything below.
RemovePair(w, c, n) ==
    /\ Count /\ c \in Configs(tree[w]) /\ Append(c, n) \in DOMAIN tree[w] /\ Plain(n)
    /\ tree' = [tree EXCEPT ![w] =
                  [l \in DOMAIN @ \ Below(@, Append(c, n)) |-> @[l]]]
    /\ UNCHANGED <<copied, told>>

\* config::clear
Clear(w, c) ==
    /\ Count /\ c \in Configs(tree[w])
    /\ tree' = [tree EXCEPT ![w] = [l \in {l \in DOMAIN @ : ~IsStrictPrefix(c, l)} |-> @[l]]]
    /\ UNCHANGED <<copied, told>>

\* config::rename: what lies below the old name is below the new one. The code
\* tests neither that the new name is free nor that it has no slash; here the
\* first is the caller's duty.
Rename(w, c, old, new) ==
    /\ Count /\ Free(w, c, new) /\ Append(c, old) \in DOMAIN tree[w]
    /\ tree' = [tree EXCEPT ![w] = Moved(@, [l \in DOMAIN @ |->
          IF IsPrefix(Append(c, old), l) THEN [l EXCEPT ![Len(c) + 1] = new] ELSE l])]
    /\ UNCHANGED <<copied, told>>

\* config::set through a path.
Set(w, path, kind, x) ==
    /\ Count /\ Found(tree[w], path)
    /\ LET g == Get(tree[w], path)
       IN  /\ Accepts(tree[w][g.loc], g.idx, kind)
           /\ tree' = [tree EXCEPT ![w][g.loc] = Assign(@, g.idx, kind, x)]
    /\ UNCHANGED <<copied, told>>

\* config::bind: the content is the caller's variable from now on, which may
\* hold anything; valid_ stays what it was.
Bind(loc) ==
    /\ Count /\ loc \in DOMAIN tree["conf"]
    /\ LET v == tree["conf"][loc]
       IN  /\ v.type \in {"integer", "real"}
           /\ \E at \in [1 .. v.len -> Contents(v.type)] :
                tree' = [tree EXCEPT !.conf[loc] = [@ EXCEPT !.bound = TRUE, !.at = at]]
    /\ UNCHANGED <<copied, told>>

\* The application writes the variable it bound.
AppWrites(loc) ==
    /\ Count /\ loc \in DOMAIN tree["conf"] /\ tree["conf"][loc].bound
    /\ LET v == tree["conf"][loc] IN \E at \in [DOMAIN v.at -> Contents(v.type)] :
         tree' = [tree EXCEPT !.conf[loc].at = at]
    /\ UNCHANGED <<copied, told>>

\* The copy constructors: contents that are not valid, bindings and uplinks
\* are left behind.
Copy ==
    /\ Count /\ Copies
    /\ tree' = [tree EXCEPT !.patch = [l \in DOMAIN tree.conf |->
          LET v == tree.conf[l]
          IN  [v EXCEPT !.bound = FALSE, !.uplinked = FALSE,
                 !.at = IF v.valid THEN @ ELSE [i \in DOMAIN @ |-> Zero(v.type)]]]]
    /\ copied' = TRUE
    /\ UNCHANGED told

\* update: the differences are listed by their paths in the patch, and brought
\* into the tree unless it is a dry run.
Update(dry) ==
    /\ Count
    /\ told' = {PathOf(tree.patch, copied, e[1], e[2]) : e \in Diff(tree.conf, tree.patch)}
    /\ tree' = IF dry THEN tree
                      ELSE [tree EXCEPT !.conf = Updated(@, tree.patch)]
    /\ UNCHANGED copied

\* The paths callers use: of every element of the tree, and index 0 spelled out.
Paths(w) == LET t == tree[w]
            IN  {PathOf(t, FALSE, e[1], e[2]) : e \in Elements(t)} \cup
                {Append(PathOf(t, FALSE, l, 0), 0) : l \in DOMAIN t}

Next ==
    \/ \E w \in Trees, n \in Names : \E c \in Configs(tree[w]) :
         \/ Create(w, c, n) \/ CreateConfig(w, c, n) \/ CreateFresh(w, c, n)
         \/ RemovePair(w, c, n) \/ Clear(w, c)
         \/ \E new \in Names : Rename(w, c, n, new)
    \/ \E w \in Trees, kind \in Kinded :
         \E path \in Paths(w), x \in Contents(kind) : Set(w, path, kind, x)
    \/ \E loc \in DOMAIN tree["conf"] : Bind(loc) \/ AppWrites(loc)
    \/ Copy
    \/ \E dry \in BOOLEAN : Update(dry)

Spec == Init /\ [][Next]_vars

-----------------------------------------------------------------------------
\* get_path gives the path that leads back to the element (config.h:88): the
\* walk down by names and indices and the walk up by uplinks agree in every
\* tree the program built.
PathRoundTrip ==
    \A e \in Elements(tree.conf) :
        LET path == PathOf(tree.conf, FALSE, e[1], e[2])
            g == Get(tree.conf, path)
        IN  Found(tree.conf, path) /\ <<g.loc, g.idx>> = e

\* A value set through a path is the value read through it, and no other
\* element has changed.
SetReadBack ==
    [][\A w \in {w \in Trees : DOMAIN tree'[w] = DOMAIN tree[w]} :
         LET changed == {l \in DOMAIN tree[w] : tree'[w][l] # tree[w][l]}
         IN  \A path \in {path \in Paths(w) : Get(tree[w], path).loc \in changed},
                kind \in Kinded : \A x \in Contents(kind) :
           Set(w, path, kind, x) =>
             LET t == tree'[w]
                 g == Get(t, path)
             IN  /\ x \in Read(t[g.loc], g.idx, kind) /\ t[g.loc].at[g.idx + 1] = x
                 /\ \A e \in Elements(t) \ {<<g.loc, g.idx>>} :
                      t[e[1]].at[e[2] + 1] = tree[w][e[1]].at[e[2] + 1]]_vars

\* An update leaves nothing for the next one to do: a second run lists no
\* difference.
UpdateConverges == [][Update(FALSE) => Diff(tree'.conf, tree'.patch) = {}]_vars

\* The list update() gives its caller names, by paths in the patch, the
\* elements of the tree that a run changes; a dry run gives the same list. A
\* patch that is a copy is left out: the copy constructor of config
\* (config.cpp:686) sets no uplink for its paths to follow.
DiffNamesChanges ==
    [][\A dry \in BOOLEAN : ~copied /\ Update(dry) =>
         LET old == tree.conf
             new == Updated(old, tree.patch)
         IN  /\ \A p \in told' : Found(old, p)
             /\ {<<Get(old, p).loc, Get(old, p).idx>> : p \in told'} =
                {e \in Elements(old) : old[e[1]].at[e[2] + 1] # new[e[1]].at[e[2] + 1]}]_vars
=============================================================================
