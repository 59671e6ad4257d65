---------------------------- MODULE TaskIoProofs ----------------------------
(* What holds of TaskIo for any number of tasks and buffers, when a task is  *)
(* started once: its types, that the references counted are those somebody   *)
(* has to give back, that no open buffer is deleted, that nothing is left    *)
(* when all have stopped, and that a ring is sized once when all who size it *)
(* ask for the same, in a build with assertions (which may end at the one of *)
(* buffer.cpp:102) and in one without.                                       *)
(*                                                                          *)
(* A task opens its handles in the order of its configuration and closes     *)
(* them in the same order, so what it has open is known from its place and   *)
(* from how much it has still to do (IsOpen). The rest is counting.          *)
EXTENDS TaskIo, FiniteSetTheorems, SequenceTheorems, TLAPS

\* The handles of a task, numbered in the order they are opened.
R(t) == Len(ReadsFrom[t])
N(t) == R(t) + Len(WritesTo[t])
Slot(t, k) == IF k <= R(t) THEN <<"reader", k>> ELSE <<"writer", k - R(t)>>
H(t, k) == <<t, Slot(t, k)[1], 1, Slot(t, k)[2]>>
IdOf(t, k) == IF k <= R(t) THEN ReadsFrom[t][k] ELSE WritesTo[t][k - R(t)]

\* How many of them are done with, in the phase the task is in.
Past(t) == N(t) - Len(todo[t])

Resizing == {"look", "check", "resize", "aborted"}
Opening == {"open", "attach"} \cup Resizing
Closing == {"close", "unref"}

IsOpen(t, k) ==
    \/ tpc[t] \in Opening /\ k <= Past(t)
    \/ tpc[t] = "running"
    \/ tpc[t] \in Closing /\ k > Past(t)

\* How many of them the vectors list.
ListedTo(t) == IF starts[t] = 0 THEN 0
               ELSE IF tpc[t] \in Opening THEN Past(t) ELSE N(t)

Cur(id) == <<id, made[id]>>

On(id)   == {h \in attached : buf_[h] = Cur(id)}
With(id) == {t \in Tasks : buf[t] = Cur(id)}

Item == (Tasks \X {"reader", "writer"} \X {1} \X Nat) \cup ({"reader", "writer"} \X Nat)

Types ==
    /\ made \in [BufIds -> Nat] /\ ref \in [BufIds -> Nat]
    /\ ring \in [BufIds -> [len : Nat, news : Nat]]
    /\ IsFiniteSet(attached)
    /\ readers_ \in [Tasks -> Seq(Item)] /\ writers_ \in [Tasks -> Seq(Item)]
    /\ todo \in [Tasks -> Seq(Item)]
    /\ starts \in [Tasks -> {0, 1}] /\ \A t \in Tasks : starts[t] <= MaxStarts
    /\ tpc \in [Tasks -> {"idle", "running"} \cup Opening \cup Closing]
    /\ buf \in [Tasks -> Buffers]
    /\ DOMAIN buf_ \subseteq Tasks \X {"reader", "writer"} \X {1} \X Nat
    /\ \A h \in DOMAIN buf_ : buf_[h] \in Buffers

\* What a task has still to do.
TodoOk(t) ==
    /\ Len(todo[t]) <= N(t)
    /\ tpc[t] = "attach" => Len(todo[t]) > 0
    /\ tpc[t] \in Resizing => Past(t) > R(t)
    /\ tpc[t] \in {"idle", "running"} => Len(todo[t]) = 0
    /\ tpc[t] # "idle" => starts[t] = 1
    /\ tpc[t] \in Opening =>
         \A j \in 1 .. Len(todo[t]) : todo[t][j] = Slot(t, Past(t) + j)
    /\ tpc[t] \in Closing =>
         \A j \in 1 .. Len(todo[t]) : todo[t][j] = H(t, Past(t) + j)

\* What its vectors list.
ListOk(t) ==
    /\ Len(readers_[t]) = IF ListedTo(t) < R(t) THEN ListedTo(t) ELSE R(t)
    /\ Len(writers_[t]) = IF ListedTo(t) < R(t) THEN 0 ELSE ListedTo(t) - R(t)
    /\ \A i \in 1 .. Len(readers_[t]) : readers_[t][i] = H(t, i)
    /\ \A i \in 1 .. Len(writers_[t]) : writers_[t][i] = H(t, R(t) + i)
    /\ \A k \in 1 .. ListedTo(t) : H(t, k) \in DOMAIN buf_

\* Which buffer it has in hand.
HandOk(t) ==
    /\ tpc[t] = "attach" => buf[t] = Cur(IdOf(t, Past(t) + 1))
    /\ tpc[t] = "unref" => \E id \in BufIds : buf[t] = Cur(id)
    /\ tpc[t] \notin {"attach", "unref"} => buf[t] = NoBuffer

TasksOk == \A t \in Tasks : TodoOk(t) /\ ListOk(t) /\ HandOk(t)

\* What is open, and on which buffer.
OpenInv ==
    /\ \A h \in attached : \E t \in Tasks : \E k \in 1 .. N(t) : h = H(t, k)
    /\ \A t \in Tasks : \A k \in 1 .. N(t) : H(t, k) \in attached <=> IsOpen(t, k)
    /\ \A t \in Tasks : \A k \in 1 .. N(t) :
         IsOpen(t, k) => H(t, k) \in DOMAIN buf_ /\ buf_[H(t, k)] = Cur(IdOf(t, k))

CountInv == \A id \in BufIds : ref[id] = Cardinality(On(id)) + Cardinality(With(id))

IInv == Types /\ TasksOk /\ OpenInv /\ CountInv

-----------------------------------------------------------------------------
\* The shape of a task's configuration.
LEMMA Config ==
    ASSUME NEW t \in Tasks
    PROVE  /\ R(t) \in Nat /\ N(t) \in Nat /\ R(t) <= N(t)
           /\ Len(Configured(t)) = N(t) /\ Configured(t) \in Seq({"reader", "writer"} \X Nat)
           /\ \A k \in 1 .. N(t) : /\ Configured(t)[k] = Slot(t, k)
                                   /\ BufId(t, Slot(t, k)) = IdOf(t, k)
                                   /\ IdOf(t, k) \in BufIds
                                   /\ Slot(t, k) \in {"reader", "writer"} \X Nat
                                   /\ H(t, k) \in Tasks \X {"reader", "writer"} \X {1} \X Nat
<1>0. \A s \in Seq(BufIds) : Len(s) \in Nat /\ \A i \in 1 .. Len(s) : s[i] \in BufIds
  BY LenProperties
<1>1. /\ Len(ReadsFrom[t]) \in Nat
      /\ \A i \in 1 .. Len(ReadsFrom[t]) : ReadsFrom[t][i] \in BufIds
  <2>1. ReadsFrom[t] \in Seq(BufIds)
    BY IoAssumption
  <2> QED
    BY <2>1, <1>0
<1>2. /\ Len(WritesTo[t]) \in Nat
      /\ \A i \in 1 .. Len(WritesTo[t]) : WritesTo[t][i] \in BufIds
  <2>1. WritesTo[t] \in Seq(BufIds)
    BY IoAssumption
  <2> QED
    BY <2>1, <1>0
<1>3. R(t) \in Nat /\ N(t) \in Nat /\ R(t) <= N(t)
  <2>1. \A m, n \in Nat : m + n \in Nat /\ m <= m + n
    OBVIOUS
  <2> QED
    BY <1>1, <1>2, <2>1, Zenon DEF R, N
<1>4. \A k \in 1 .. N(t) : Slot(t, k) \in {"reader", "writer"} \X Nat
  BY <1>3 DEF Slot
<1>5. \A k \in 1 .. N(t) : /\ BufId(t, Slot(t, k)) = IdOf(t, k) /\ IdOf(t, k) \in BufIds
                           /\ H(t, k) \in Tasks \X {"reader", "writer"} \X {1} \X Nat
  <2> SUFFICES ASSUME NEW k \in 1 .. N(t)
               PROVE  /\ BufId(t, Slot(t, k)) = IdOf(t, k) /\ IdOf(t, k) \in BufIds
                      /\ H(t, k) \in Tasks \X {"reader", "writer"} \X {1} \X Nat
    OBVIOUS
  <2>1. CASE k <= R(t)
    BY <2>1, <1>1, <1>3 DEF H, IdOf, BufId, Slot, R
  <2>2. CASE ~(k <= R(t))
    <3>1. k - R(t) \in 1 .. Len(WritesTo[t])
      BY <2>2, <1>2, <1>3 DEF N
    <3> QED
      BY <3>1, <2>2, <1>2 DEF H, IdOf, BufId, Slot
  <2> QED
    BY <2>1, <2>2
<1>6. Configured(t) = [k \in 1 .. N(t) |-> Slot(t, k)]
  BY DEF Configured, R, N, Slot
<1>7. Configured(t) \in Seq({"reader", "writer"} \X Nat) /\ Len(Configured(t)) = N(t)
  BY <1>3, <1>4, <1>6
<1> QED
  BY <1>3, <1>4, <1>5, <1>6, <1>7

\* Handles with different numbers are different.
LEMMA Distinct ==
    ASSUME NEW t \in Tasks, NEW u \in Tasks, NEW k \in 1 .. N(t), NEW j \in 1 .. N(u),
           H(t, k) = H(u, j)
    PROVE  t = u /\ k = j
<1>1. t = u
  BY DEF H
<1>2. R(t) \in Nat /\ N(t) \in Nat
  BY Config
<1> QED
  BY <1>1, <1>2 DEF H, Slot

\* No reference is to no buffer.
LEMMA CurIsBuffer == ASSUME NEW id \in BufIds PROVE Cur(id) # NoBuffer
BY IoAssumption DEF Cur, NoBuffer

LEMMA InitInv == Init => IInv
<1> SUFFICES ASSUME Init PROVE IInv
  OBVIOUS
<1> USE DEF Init
<1>1. Types
  BY FS_EmptySet, IoAssumption DEF Types, Opening, Resizing, Closing, Buffers, NoBuffer, NoRing
<1>2. TasksOk
  <2> SUFFICES ASSUME NEW t \in Tasks PROVE TodoOk(t) /\ ListOk(t) /\ HandOk(t)
    BY DEF TasksOk
  <2> QED
    BY Config DEF TodoOk, ListOk, HandOk, ListedTo, Opening, Resizing, Closing, Past
<1>3. OpenInv
  BY Config DEF OpenInv, IsOpen, Opening, Resizing, Closing
<1>5. CountInv
  <2> SUFFICES ASSUME NEW id \in BufIds
               PROVE  ref[id] = Cardinality(On(id)) + Cardinality(With(id))
    BY DEF CountInv
  <2>1. On(id) = {} /\ With(id) = {}
    BY CurIsBuffer DEF On, With
  <2> QED
    BY <2>1, FS_EmptySet
<1> QED
  BY <1>1, <1>2, <1>3, <1>5 DEF IInv

-----------------------------------------------------------------------------
\* The numbers of a task.
LEMMA Sizes ==
    ASSUME Types, NEW t \in Tasks
    PROVE  /\ R(t) \in Nat /\ N(t) \in Nat /\ R(t) <= N(t) /\ Len(todo[t]) \in Nat
           /\ Len(WritesTo[t]) \in Nat /\ N(t) = R(t) + Len(WritesTo[t])
           /\ Past(t) = N(t) - Len(todo[t])
           /\ todo[t] \in Seq(Item) /\ readers_[t] \in Seq(Item) /\ writers_[t] \in Seq(Item)
           /\ starts[t] \in {0, 1} /\ tpc[t] \in {"idle", "running"} \cup Opening \cup Closing
<1>1. todo[t] \in Seq(Item) /\ WritesTo[t] \in Seq(BufIds)
  BY IoAssumption DEF Types
<1>2. Len(todo[t]) \in Nat /\ Len(WritesTo[t]) \in Nat
  BY <1>1, LenProperties
<1> QED
  BY <1>2, Config DEF Types, N, Past

\* A step of a task that neither opens nor closes anything.
LEMMA Quiet ==
    ASSUME IInv, NEW t \in Tasks,
           UNCHANGED <<made, ref, attached, buf_, buf, readers_, writers_>>,
           ring' \in [BufIds -> [len : Nat, news : Nat]],
           \A u \in Tasks \ {t} : tpc'[u] = tpc[u] /\ todo'[u] = todo[u] /\ starts'[u] = starts[u],
           tpc' \in [Tasks -> {"idle", "running"} \cup Opening \cup Closing],
           todo' \in [Tasks -> Seq(Item)],
           starts' \in [Tasks -> {0, 1}], starts'[t] <= MaxStarts,
           {tpc[t], tpc'[t]} \cap {"attach", "unref"} = {},
           TodoOk(t)',
           \A k \in 1 .. N(t) : IsOpen(t, k)' <=> IsOpen(t, k),
           ListedTo(t)' = ListedTo(t)
    PROVE  IInv'
<1> USE DEF IInv
<1>1. \A u \in Tasks \ {t} : /\ Past(u)' = Past(u) /\ ListedTo(u)' = ListedTo(u)
                              /\ \A k \in 1 .. N(u) : IsOpen(u, k)' <=> IsOpen(u, k)
  BY DEF Past, ListedTo, IsOpen
<1>2. \A u \in Tasks : /\ ListedTo(u)' = ListedTo(u)
                       /\ \A k \in 1 .. N(u) : IsOpen(u, k)' <=> IsOpen(u, k)
  BY <1>1
<1>3. Types'
  BY DEF Types
<1>4. TasksOk'
  <2> SUFFICES ASSUME NEW u \in Tasks PROVE TodoOk(u)' /\ ListOk(u)' /\ HandOk(u)'
    BY DEF TasksOk
  <2>1. TodoOk(u) /\ ListOk(u) /\ HandOk(u)
    BY DEF TasksOk
  <2>2. CASE u = t
    <3>1. ListOk(u)'
      BY <2>1, <2>2 DEF ListOk
    <3>2. HandOk(u)'
      BY <2>1, <2>2 DEF HandOk
    <3> QED
      BY <3>1, <3>2, <2>2
  <2>3. CASE u # t
    <3>1. TodoOk(u)'
      BY <2>1, <2>3, <1>1 DEF TodoOk
    <3>2. ListOk(u)' /\ HandOk(u)'
      BY <2>1, <2>3, <1>1 DEF ListOk, HandOk, Cur
    <3> QED
      BY <3>1, <3>2
  <2> QED
    BY <2>2, <2>3
<1>6. OpenInv'
  BY <1>2 DEF OpenInv, Cur
<1>8. CountInv'
  BY DEF CountInv, On, With, Cur
<1> QED
  BY <1>3, <1>4, <1>6, <1>8

LEMMA StartInv == ASSUME IInv, MaxStarts <= 1, NEW t \in Tasks, Start(t) PROVE IInv'
<1> USE DEF Start, managerVars, handleVars, taskVars
<1>1. /\ starts[t] = 0 /\ starts'[t] = 1 /\ starts'[t] <= MaxStarts /\ tpc'[t] = "open"
      /\ tpc[t] = "idle" /\ todo'[t] = Configured(t)
  BY IoAssumption DEF IInv, Types
<1>2. Past(t)' = 0 /\ ListedTo(t)' = 0 /\ ListedTo(t) = 0
  BY <1>1, Config DEF Past, ListedTo, Opening, Resizing
<1>3. TodoOk(t)'
  <2>1. \A j \in 1 .. Len(todo'[t]) : todo'[t][j] = Slot(t, Past(t)' + j)
    BY <1>1, <1>2, Config
  <2> QED
    BY <2>1, <1>1, Config DEF TodoOk, Closing, Resizing
<1>4. \A k \in 1 .. N(t) : IsOpen(t, k)' <=> IsOpen(t, k)
  BY <1>1, <1>2, Config DEF IsOpen, Opening, Resizing, Closing
<1>5. Configured(t) \in Seq(Item)
  BY Config DEF Item
<1>6. todo' \in [Tasks -> Seq(Item)] /\ starts' \in [Tasks -> {0, 1}]
      /\ tpc' \in [Tasks -> {"idle", "running"} \cup Opening \cup Closing]
  BY <1>1, <1>5 DEF IInv, Types, Opening, Resizing
<1>7. \A u \in Tasks \ {t} : tpc'[u] = tpc[u] /\ todo'[u] = todo[u] /\ starts'[u] = starts[u]
  BY DEF IInv, Types
<1> QED
  BY <1>1, <1>2, <1>3, <1>4, <1>6, <1>7, Quiet DEF IInv, Types

\* What resize() is asked, and of which buffer: the writer opened last.
LEMMA SizingOf ==
    ASSUME IInv, NEW t \in Tasks, tpc[t] \in Resizing
    PROVE  /\ Past(t) - R(t) \in 1 .. Len(WritesTo[t]) /\ Past(t) \in 1 .. N(t)
           /\ Sizing(t).size = BufSize[t][Past(t) - R(t)] /\ Sizing(t).size \in Nat
           /\ Sizing(t).id = WritesTo[t][Past(t) - R(t)] /\ Sizing(t).id \in BufIds
<1> DEFINE i == Past(t) - R(t)
           wr == writers_[t][Len(writers_[t])]
<1>1. Types /\ TodoOk(t) /\ ListOk(t) /\ OpenInv
  BY DEF IInv, TasksOk
<1>2. Past(t) > R(t) /\ Past(t) \in 1 .. N(t) /\ i \in 1 .. Len(WritesTo[t]) /\ R(t) \in Nat
  BY <1>1, Sizes DEF TodoOk
<1>3. ListedTo(t) = Past(t) /\ IsOpen(t, Past(t))
  BY <1>1, <1>2 DEF TodoOk, ListedTo, Opening, Resizing, IsOpen
<1>4. Len(writers_[t]) = i /\ wr = H(t, Past(t))
  <2>1. Len(writers_[t]) = i
    BY <1>1, <1>2, <1>3 DEF ListOk
  <2>2. R(t) + i = Past(t) /\ i \in 1 .. Len(writers_[t])
    BY <2>1, <1>2
  <2>3. writers_[t][i] = H(t, R(t) + i)
    BY <2>2, <1>1 DEF ListOk
  <2> QED
    BY <2>1, <2>2, <2>3
<1>5. wr[4] = i
  BY <1>4, <1>1, <1>2 DEF H, Slot
<1>6. BufSize[t][i] \in Nat
  <2>1. BufSize[t] \in Seq(Nat) /\ Len(BufSize[t]) = Len(WritesTo[t])
    BY IoAssumption
  <2> QED
    BY <2>1, <1>2, LenProperties
<1>7. buf_[wr] = Cur(IdOf(t, Past(t))) /\ IdOf(t, Past(t)) = WritesTo[t][i]
  BY <1>1, <1>2, <1>3, <1>4 DEF OpenInv, IdOf
<1>8. Sizing(t).size = BufSize[t][wr[4]] /\ Sizing(t).id = buf_[wr][1]
  BY DEF Sizing
<1>9. Sizing(t).id = WritesTo[t][i]
  BY <1>7, <1>8 DEF Cur
<1>10. WritesTo[t][i] \in BufIds
  BY <1>2, <1>7, Config
<1> QED
  BY <1>2, <1>5, <1>6, <1>8, <1>9, <1>10

LEMMA SizeInv ==
    ASSUME IInv, NEW t \in Tasks, Look(t) \/ CheckStart(t) \/ Resize(t) PROVE IInv'
<1> USE DEF Look, CheckStart, Resize, Resizing, managerVars, handleVars, taskVars
<1>1. /\ tpc[t] \in Resizing /\ tpc'[t] \in {"open"} \cup Resizing
      /\ todo' = todo /\ starts' = starts /\ starts[t] <= MaxStarts
      /\ tpc' \in [Tasks -> {"idle", "running"} \cup Opening \cup Closing]
      /\ \A u \in Tasks \ {t} : tpc'[u] = tpc[u]
  BY DEF IInv, Types, Opening, Resizing
<1>2. Past(t)' = Past(t) /\ ListedTo(t)' = ListedTo(t)
  BY <1>1 DEF Past, ListedTo, Opening, Resizing
<1>3. TodoOk(t)'
  BY <1>1, <1>2 DEF IInv, TasksOk, TodoOk, Opening, Resizing, Closing
<1>4. \A k \in 1 .. N(t) : IsOpen(t, k)' <=> IsOpen(t, k)
  BY <1>1, <1>2 DEF IsOpen, Opening, Resizing, Closing
<1>5. ring' \in [BufIds -> [len : Nat, news : Nat]]
  <2>1. CASE tpc[t] = "resize"
    <3> DEFINE id == Sizing(t).id
               size == Sizing(t).size
    <3>1. size \in Nat /\ id \in BufIds
      BY <2>1, SizingOf
    <3>2. ring \in [BufIds -> [len : Nat, news : Nat]]
      BY DEF IInv, Types
    <3>3. \/ ring' = ring
          \/ ring' = [ring EXCEPT ![id] = [len |-> size, news |-> @.news + 1]]
      BY <2>1
    <3> HIDE DEF id, size
    <3> QED
      BY <3>1, <3>2, <3>3
  <2>2. CASE tpc[t] \in {"look", "check"}
    BY <2>2 DEF IInv, Types
  <2> QED
    BY <1>1, <2>1, <2>2
<1> QED
  BY <1>1, <1>2, <1>3, <1>4, <1>5, Quiet DEF IInv, Types

-----------------------------------------------------------------------------
\* Every buffer somebody has is the one its name stands for.
LEMMA Held ==
    ASSUME IInv
    PROVE  /\ \A h \in attached : h \in DOMAIN buf_ /\ \E id \in BufIds : buf_[h] = Cur(id)
           /\ \A u \in Tasks : buf[u] = NoBuffer \/ \E id \in BufIds : buf[u] = Cur(id)
<1>1. ASSUME NEW h \in attached
      PROVE  h \in DOMAIN buf_ /\ \E id \in BufIds : buf_[h] = Cur(id)
  <2>1. PICK t \in Tasks : \E k \in 1 .. N(t) : h = H(t, k)
    BY DEF IInv, OpenInv
  <2>2. PICK k \in 1 .. N(t) : h = H(t, k)
    BY <2>1
  <2> QED
    BY <2>2, Config DEF IInv, OpenInv
<1>2. ASSUME NEW u \in Tasks
      PROVE  buf[u] = NoBuffer \/ \E id \in BufIds : buf[u] = Cur(id)
  <2>1. Types /\ TodoOk(u) /\ HandOk(u)
    BY DEF IInv, TasksOk
  <2>2. tpc[u] = "attach" => Past(u) + 1 \in 1 .. N(u)
    BY <2>1, Sizes DEF TodoOk
  <2> QED
    BY <2>1, <2>2, Config DEF HandOk
<1> QED
  BY <1>1, <1>2

LEMMA Counts ==
    ASSUME IInv, NEW id \in BufIds
    PROVE  /\ IsFiniteSet(On(id)) /\ IsFiniteSet(With(id))
           /\ Cardinality(On(id)) \in Nat /\ Cardinality(With(id)) \in Nat
           /\ ref[id] = Cardinality(On(id)) + Cardinality(With(id)) /\ ref[id] \in Nat
           /\ ref[id] = 0 => On(id) = {} /\ With(id) = {}
<1>1. IsFiniteSet(On(id)) /\ IsFiniteSet(With(id))
  <2>1. On(id) \subseteq attached /\ With(id) \subseteq Tasks
    BY DEF On, With
  <2>2. IsFiniteSet(attached) /\ IsFiniteSet(Tasks)
    BY IoAssumption DEF IInv, Types
  <2> QED
    BY <2>1, <2>2, FS_Subset
<1>2. Cardinality(On(id)) \in Nat /\ Cardinality(With(id)) \in Nat
  BY <1>1, FS_CardinalityType
<1>3. ref[id] = Cardinality(On(id)) + Cardinality(With(id)) /\ ref[id] \in Nat
  BY DEF IInv, CountInv, Types
<1>4. ref[id] = 0 => Cardinality(On(id)) = 0 /\ Cardinality(With(id)) = 0
  BY <1>2, <1>3
<1> QED
  BY <1>1, <1>2, <1>3, <1>4, FS_EmptySet

\* A buffer that somebody has is in the manager's list.
LEMMA InList ==
    ASSUME IInv, NEW id \in BufIds, On(id) # {} \/ With(id) # {}
    PROVE  InManager(Cur(id))
<1>1. ref[id] # 0 /\ ref[id] \in Nat
  BY Counts
<1> QED
  BY <1>1, CurIsBuffer DEF InManager, Cur

\* The buffer a name stands for is replaced only when nobody has it.
LEMMA FindInv == ASSUME IInv, NEW t \in Tasks, FindBuffer(t) PROVE IInv'
<1> USE DEF FindBuffer, handleVars, taskVars
<1>1. Types /\ TodoOk(t) /\ ListOk(t) /\ HandOk(t) /\ OpenInv /\ TasksOk
  BY DEF IInv, TasksOk
<1>2. PICK k \in 1 .. N(t) : k = Past(t) + 1 /\ Head(todo[t]) = Slot(t, k) /\ Len(todo[t]) > 0
  <2>1. Len(todo[t]) > 0
    BY <1>1, Sizes, EmptySeq
  <2>2. Past(t) + 1 \in 1 .. N(t)
    BY <2>1, <1>1, Sizes DEF TodoOk
  <2>3. todo[t][1] = Slot(t, Past(t) + 1)
    <3>1. 1 \in 1 .. Len(todo[t])
      BY <2>1, <1>1, Sizes
    <3> QED
      BY <1>1, <3>1 DEF TodoOk, Opening, Resizing
  <2> QED
    BY <2>1, <2>2, <2>3
<1>3. PICK id \in BufIds : id = IdOf(t, k) /\ id = BufId(t, Head(todo[t]))
  BY <1>2, Config
<1>4. /\ AddBuffer(id) /\ buf' = [buf EXCEPT ![t] = <<id, made'[id]>>]
      /\ UNCHANGED <<attached, buf_, readers_, writers_, starts, todo>>
      /\ tpc' = [tpc EXCEPT ![t] = "attach"] /\ tpc[t] = "open" /\ buf[t] = NoBuffer
  BY <1>1, <1>3 DEF HandOk
<1>5. /\ made' \in [BufIds -> Nat] /\ ref' = [ref EXCEPT ![id] = @ + 1]
      /\ ring' \in [BufIds -> [len : Nat, news : Nat]]
      /\ \A x \in BufIds \ {id} : made'[x] = made[x]
      /\ made'[id] = IF ref[id] > 0 THEN made[id] ELSE made[id] + 1
  <2>1. /\ made \in [BufIds -> Nat] /\ ref \in [BufIds -> Nat]
        /\ ring \in [BufIds -> [len : Nat, news : Nat]]
    BY <1>1 DEF Types
  <2>2. CASE ref[id] > 0
    BY <2>1, <2>2, <1>4 DEF AddBuffer
  <2>3. CASE ~(ref[id] > 0)
    <3>1. NoRing \in [len : Nat, news : Nat]
      BY DEF NoRing
    <3>2. /\ made' = [made EXCEPT ![id] = @ + 1] /\ ring' = [ring EXCEPT ![id] = NoRing]
          /\ ref' = [ref EXCEPT ![id] = @ + 1]
      BY <2>3, <1>4 DEF AddBuffer
    <3> QED
      BY <2>1, <2>3, <3>1, <3>2
  <2> QED
    BY <2>2, <2>3
<1>6. \A x \in BufIds : /\ On(x) # {} \/ With(x) # {} => Cur(x)' = Cur(x)
                        /\ x # id => Cur(x)' = Cur(x)
  <2>1. \A x \in BufIds : ref[x] \in Nat /\ (ref[x] = 0 => On(x) = {} /\ With(x) = {})
    BY Counts
  <2> QED
    BY <2>1, <1>3, <1>5 DEF Cur
<1>7. \A x \in BufIds : (On(x) = {} /\ With(x) = {}) \/ Cur(x)' = Cur(x)
  BY <1>6
<1>8. Types'
  <2>1. buf'[t] \in Buffers
    BY <1>1, <1>3, <1>4, <1>5 DEF Types, Buffers
  <2>2. ref' \in [BufIds -> Nat]
    <3>1. ref \in [BufIds -> Nat] /\ ref' = [ref EXCEPT ![id] = @ + 1]
      BY <1>1, <1>5 DEF Types
    <3> QED
      BY <3>1
  <2> QED
    BY <1>1, <1>4, <1>5, <2>1, <2>2 DEF Types, Opening, Resizing
<1>9. \A u \in Tasks : /\ Past(u)' = Past(u) /\ ListedTo(u)' = ListedTo(u)
                       /\ \A j \in 1 .. N(u) : IsOpen(u, j)' <=> IsOpen(u, j)
  BY <1>1, <1>4 DEF Past, ListedTo, IsOpen, Types, Opening, Resizing, Closing
<1>10. TasksOk'
  <2> SUFFICES ASSUME NEW u \in Tasks PROVE TodoOk(u)' /\ ListOk(u)' /\ HandOk(u)'
    BY DEF TasksOk
  <2>1. TodoOk(u) /\ ListOk(u) /\ HandOk(u) /\ Past(u)' = Past(u) /\ ListedTo(u)' = ListedTo(u)
    BY <1>9 DEF IInv, TasksOk
  <2>2. ListOk(u)'
    BY <2>1, <1>4 DEF ListOk
  <2>3. CASE u = t
    <3>1. TodoOk(u)'
      BY <2>1, <2>3, <1>1, <1>2, <1>4 DEF TodoOk, Types, Opening, Resizing, Closing
    <3>2. HandOk(u)'
      <4>1. buf'[t] = <<id, made'[id]>> /\ tpc'[t] = "attach"
        BY <1>1, <1>4 DEF Types
      <4>2. Cur(IdOf(t, Past(t) + 1))' = <<id, made'[id]>>
        BY <2>1, <2>3, <1>2, <1>3 DEF Cur
      <4> QED
        BY <2>3, <4>1, <4>2 DEF HandOk
    <3> QED
      BY <2>2, <3>1, <3>2
  <2>4. CASE u # t
    <3>1. tpc'[u] = tpc[u] /\ todo'[u] = todo[u] /\ starts'[u] = starts[u] /\ buf'[u] = buf[u]
      BY <2>4, <1>1, <1>4 DEF Types
    <3>2. TodoOk(u)'
      BY <2>1, <3>1 DEF TodoOk
    <3>3. \A x \in BufIds : buf[u] = Cur(x) => Cur(x)' = Cur(x)
      BY <1>6 DEF With
    <3>4. tpc[u] = "attach" => IdOf(u, Past(u) + 1) \in BufIds
      <4>1. tpc[u] = "attach" => Past(u) + 1 \in 1 .. N(u)
        BY <2>1, <1>1, Sizes DEF TodoOk
      <4> QED
        BY <4>1, Config
    <3>5. HandOk(u)'
      BY <2>1, <3>1, <3>3, <3>4 DEF HandOk
    <3> QED
      BY <2>2, <3>2, <3>5
  <2> QED
    BY <2>3, <2>4
<1>11. OpenInv'
  <2>1. \A u \in Tasks : \A j \in 1 .. N(u) :
          IsOpen(u, j) => Cur(IdOf(u, j))' = Cur(IdOf(u, j))
    <3> SUFFICES ASSUME NEW u \in Tasks, NEW j \in 1 .. N(u), IsOpen(u, j)
                 PROVE  Cur(IdOf(u, j))' = Cur(IdOf(u, j))
      OBVIOUS
    <3>1. IdOf(u, j) \in BufIds
      BY Config
    <3>2. H(u, j) \in attached /\ buf_[H(u, j)] = Cur(IdOf(u, j))
      BY <1>1 DEF OpenInv
    <3> QED
      BY <3>1, <3>2, <1>6 DEF On
  <2> QED
    BY <2>1, <1>1, <1>4, <1>9 DEF OpenInv
<1>12. \A x \in BufIds : On(x)' = On(x)
  <2> SUFFICES ASSUME NEW x \in BufIds PROVE On(x)' = On(x)
    OBVIOUS
  <2>1. \A h \in attached : \E y \in BufIds : buf_[h] = Cur(y) /\ Cur(y)' = Cur(y)
    BY Held, <1>6 DEF On
  <2>2. \A h \in attached : buf_[h] = Cur(x)' <=> buf_[h] = Cur(x)
    <3> SUFFICES ASSUME NEW h \in attached PROVE buf_[h] = Cur(x)' <=> buf_[h] = Cur(x)
      OBVIOUS
    <3>1. PICK y \in BufIds : buf_[h] = Cur(y) /\ Cur(y)' = Cur(y)
      BY <2>1
    <3>2. x = y \/ (Cur(x) # Cur(y) /\ Cur(x)' # Cur(y)')
      BY DEF Cur
    <3> QED
      BY <3>1, <3>2
  <2> QED
    BY <2>2, <1>4 DEF On
<1>13. \A x \in BufIds \ {id} : With(x)' = With(x)
  <2> SUFFICES ASSUME NEW x \in BufIds \ {id} PROVE With(x)' = With(x)
    OBVIOUS
  <2>1. Cur(x)' = Cur(x) /\ buf'[t] # Cur(x) /\ buf[t] # Cur(x)
    BY <1>1, <1>4, <1>6, CurIsBuffer DEF Cur, Types
  <2>2. \A u \in Tasks : u # t => buf'[u] = buf[u]
    BY <1>1, <1>4 DEF Types
  <2> QED
    BY <2>1, <2>2 DEF With
<1>14. With(id)' = With(id) \cup {t} /\ t \notin With(id)
  <2>1. buf'[t] = Cur(id)' /\ buf[t] # Cur(id)
    BY <1>1, <1>3, <1>4, CurIsBuffer DEF Cur, Types
  <2>2. \A u \in Tasks : u # t => buf'[u] = buf[u]
    BY <1>1, <1>4 DEF Types
  <2>3. \A u \in Tasks : u # t => (buf[u] = Cur(id)' <=> buf[u] = Cur(id))
    <3> SUFFICES ASSUME NEW u \in Tasks PROVE buf[u] = Cur(id)' <=> buf[u] = Cur(id)
      OBVIOUS
    <3>1. CASE buf[u] = NoBuffer
      <4>1. Cur(id)' # NoBuffer
        BY <1>3, IoAssumption DEF Cur, NoBuffer
      <4> QED
        BY <3>1, <4>1, <1>3, CurIsBuffer
    <3>2. ASSUME NEW y \in BufIds, buf[u] = Cur(y) PROVE buf[u] = Cur(id)' <=> buf[u] = Cur(id)
      <4>1. Cur(y)' = Cur(y)
        BY <3>2, <1>6 DEF With
      <4>2. id = y \/ (Cur(id) # Cur(y) /\ Cur(id)' # Cur(y)')
        BY DEF Cur
      <4> QED
        BY <3>2, <4>1, <4>2
    <3> QED
      BY <3>1, <3>2, Held
  <2> QED
    BY <2>1, <2>2, <2>3 DEF With
<1>15. CountInv'
  <2> SUFFICES ASSUME NEW x \in BufIds
               PROVE  ref'[x] = Cardinality(On(x)') + Cardinality(With(x)')
    BY DEF CountInv
  <2>0. ref \in [BufIds -> Nat]
    BY <1>1 DEF Types
  <2>1. CASE x = id
    <3>1. IsFiniteSet(With(id)) /\ ref[id] = Cardinality(On(id)) + Cardinality(With(id))
          /\ Cardinality(On(id)) \in Nat /\ Cardinality(With(id)) \in Nat
      BY <1>3, Counts
    <3>2. Cardinality(With(id) \cup {t}) = Cardinality(With(id)) + 1
      BY <3>1, <1>14, FS_AddElement
    <3>3. Cardinality(With(x)') = Cardinality(With(id)) + 1 /\ On(x)' = On(id)
      BY <3>2, <2>1, <1>3, <1>12, <1>14
    <3>4. ref'[x] = ref[id] + 1
      BY <2>0, <2>1, <1>3, <1>5
    <3> QED
      BY <3>1, <3>3, <3>4
  <2>2. CASE x # id
    <3>1. ref'[x] = ref[x] /\ On(x)' = On(x) /\ With(x)' = With(x)
      BY <2>0, <2>2, <1>5, <1>12, <1>13
    <3> QED
      BY <3>1 DEF IInv, CountInv
  <2> QED
    BY <2>1, <2>2
<1> QED
  BY <1>8, <1>10, <1>11, <1>15 DEF IInv

-----------------------------------------------------------------------------
\* A list that has something to do, and what is left when its head is done.
LEMMA HeadOf ==
    ASSUME Types, NEW t \in Tasks, todo[t] # <<>>, TodoOk(t)
    PROVE  /\ Len(todo[t]) \in Nat /\ Len(todo[t]) > 0 /\ Head(todo[t]) = todo[t][1]
           /\ Past(t) + 1 \in 1 .. N(t)
           /\ Tail(todo[t]) \in Seq(Item) /\ Len(Tail(todo[t])) = Len(todo[t]) - 1
           /\ \A j \in 1 .. Len(todo[t]) - 1 : Tail(todo[t])[j] = todo[t][j + 1]
<1>1. todo[t] \in Seq(Item) /\ Len(todo[t]) \in Nat /\ Len(todo[t]) > 0
  BY Sizes, EmptySeq
<1>2. /\ Head(todo[t]) = todo[t][1] /\ Tail(todo[t]) \in Seq(Item)
      /\ Len(Tail(todo[t])) = Len(todo[t]) - 1
      /\ \A j \in 1 .. Len(todo[t]) - 1 : Tail(todo[t])[j] = todo[t][j + 1]
  BY <1>1
<1>3. Past(t) + 1 \in 1 .. N(t)
  BY <1>1, Sizes DEF TodoOk
<1> QED
  BY <1>1, <1>2, <1>3

\* The vectors of a task that has all its handles list them in order.
LEMMA AllListed ==
    ASSUME IInv, NEW t \in Tasks, tpc[t] = "running" \/ (tpc[t] = "open" /\ todo[t] = <<>>)
    PROVE  /\ Past(t) = N(t) /\ starts[t] = 1 /\ \A k \in 1 .. N(t) : IsOpen(t, k)
           /\ readers_[t] \o writers_[t] \in Seq(Item)
           /\ Len(readers_[t] \o writers_[t]) = N(t)
           /\ \A k \in 1 .. N(t) : (readers_[t] \o writers_[t])[k] = H(t, k)
           /\ \A i \in DOMAIN readers_[t] : readers_[t][i] \in attached
           /\ \A i \in DOMAIN writers_[t] : writers_[t][i] \in attached
<1>1. Types /\ TodoOk(t) /\ ListOk(t) /\ OpenInv
  BY DEF IInv, TasksOk
<1>2. Len(todo[t]) = 0
  BY <1>1 DEF TodoOk
<1>3. /\ Past(t) = N(t) /\ starts[t] = 1 /\ R(t) \in Nat /\ N(t) \in Nat /\ R(t) <= N(t)
      /\ readers_[t] \in Seq(Item) /\ writers_[t] \in Seq(Item)
  BY <1>1, <1>2, Sizes DEF TodoOk
<1>4. ListedTo(t) = N(t)
  BY <1>3 DEF ListedTo
<1>5. Len(readers_[t]) = R(t) /\ Len(writers_[t]) = N(t) - R(t)
  BY <1>1, <1>3, <1>4 DEF ListOk
<1>6. \A k \in 1 .. N(t) : IsOpen(t, k)
  BY <1>3 DEF IsOpen, Opening, Resizing
<1>7. /\ \A i \in 1 .. R(t) : readers_[t][i] = H(t, i) /\ i \in 1 .. N(t)
      /\ \A i \in 1 .. N(t) - R(t) : writers_[t][i] = H(t, R(t) + i) /\ R(t) + i \in 1 .. N(t)
  BY <1>1, <1>3, <1>5 DEF ListOk
<1>8. DOMAIN readers_[t] = 1 .. R(t) /\ DOMAIN writers_[t] = 1 .. N(t) - R(t)
  BY <1>3, <1>5, LenProperties
<1>9. \A k \in 1 .. N(t) : H(t, k) \in attached
  BY <1>1, <1>6 DEF OpenInv
<1>10. /\ readers_[t] \o writers_[t] \in Seq(Item)
       /\ Len(readers_[t] \o writers_[t]) = N(t)
       /\ \A k \in 1 .. N(t) : (readers_[t] \o writers_[t])[k] =
             IF k <= R(t) THEN readers_[t][k] ELSE writers_[t][k - R(t)]
  <2>1. Len(readers_[t]) + Len(writers_[t]) = N(t)
    BY <1>3, <1>5
  <2>2. /\ readers_[t] \o writers_[t] \in Seq(Item)
        /\ Len(readers_[t] \o writers_[t]) = Len(readers_[t]) + Len(writers_[t])
        /\ \A k \in 1 .. Len(readers_[t]) + Len(writers_[t]) : (readers_[t] \o writers_[t])[k] =
             IF k <= Len(readers_[t]) THEN readers_[t][k] ELSE writers_[t][k - Len(readers_[t])]
    BY <1>3, ConcatProperties, Zenon
  <2> QED
    BY <2>1, <2>2, <1>5, Zenon
<1>11. ASSUME NEW k \in 1 .. N(t) PROVE (readers_[t] \o writers_[t])[k] = H(t, k)
  <2>1. CASE k <= R(t)
    <3>1. k \in 1 .. R(t)
      BY <2>1, <1>3
    <3> QED
      BY <2>1, <3>1, <1>7, <1>10
  <2>2. CASE ~(k <= R(t))
    <3>1. k - R(t) \in 1 .. N(t) - R(t) /\ R(t) + (k - R(t)) = k
      BY <2>2, <1>3
    <3> QED
      BY <2>2, <3>1, <1>7, <1>10
  <2> QED
    BY <2>1, <2>2
<1>12. /\ \A i \in DOMAIN readers_[t] : readers_[t][i] \in attached
       /\ \A i \in DOMAIN writers_[t] : writers_[t][i] \in attached
  BY <1>7, <1>8, <1>9
<1> QED
  BY <1>3, <1>6, <1>10, <1>11, <1>12

LEMMA OpenedInv == ASSUME IInv, NEW t \in Tasks, Opened(t) \/ Stop(t) PROVE IInv'
<1> USE DEF Opened, Stop, managerVars, handleVars, taskVars
<1> DEFINE all == readers_[t] \o writers_[t]
<1>1. tpc[t] = "running" \/ (tpc[t] = "open" /\ todo[t] = <<>>)
  OBVIOUS
<1>2. Types /\ TodoOk(t) /\ starts' = starts
  BY DEF IInv, TasksOk
<1>3. \/ tpc' = [tpc EXCEPT ![t] = "running"] /\ todo' = todo
      \/ tpc' = [tpc EXCEPT ![t] = "close"] /\ todo' = [todo EXCEPT ![t] = all]
  OBVIOUS
<1>4. /\ all \in Seq(Item) /\ Len(all) = N(t) /\ \A k \in 1 .. N(t) : all[k] = H(t, k)
      /\ starts[t] = 1 /\ Past(t) = N(t) /\ \A k \in 1 .. N(t) : IsOpen(t, k)
      /\ N(t) \in Nat /\ R(t) \in Nat
  BY <1>1, <1>2, AllListed, Sizes
<1> HIDE DEF all
<1>5. /\ tpc' \in [Tasks -> {"idle", "running"} \cup Opening \cup Closing]
      /\ todo' \in [Tasks -> Seq(Item)]
      /\ \A u \in Tasks \ {t} : tpc'[u] = tpc[u] /\ todo'[u] = todo[u]
  <2>1. tpc \in [Tasks -> {"idle", "running"} \cup Opening \cup Closing] /\ "close" \in Closing
        /\ todo \in [Tasks -> Seq(Item)]
    BY <1>2 DEF Types, Closing
  <2>2. CASE tpc' = [tpc EXCEPT ![t] = "running"] /\ todo' = todo
    BY <2>1, <2>2
  <2>3. CASE tpc' = [tpc EXCEPT ![t] = "close"] /\ todo' = [todo EXCEPT ![t] = all]
    BY <2>1, <2>3, <1>4
  <2> QED
    BY <1>3, <2>2, <2>3
<1>6. ListedTo(t)' = ListedTo(t)
  BY <1>1, <1>2, <1>3, <1>4 DEF ListedTo, Opening, Resizing, Types
<1>7. (TodoOk(t) /\ \A k \in 1 .. N(t) : IsOpen(t, k))'
  <2>1. CASE tpc' = [tpc EXCEPT ![t] = "running"] /\ todo' = todo
    <3>1. tpc'[t] = "running" /\ Len(todo[t]) = 0
      BY <2>1, <1>1, <1>2 DEF Types, TodoOk
    <3> QED
      BY <2>1, <3>1, <1>2, <1>4 DEF TodoOk, IsOpen, Opening, Resizing, Closing, Past
  <2>2. CASE tpc' = [tpc EXCEPT ![t] = "close"] /\ todo' = [todo EXCEPT ![t] = all]
    <3>1. tpc'[t] = "close" /\ todo'[t] = all /\ Past(t)' = 0
      BY <2>2, <1>2, <1>4 DEF Types, Past
    <3> QED
      BY <3>1, <1>2, <1>4 DEF TodoOk, IsOpen, Opening, Resizing, Closing
  <2> QED
    BY <1>3, <2>1, <2>2
<1> QED
  BY <1>1, <1>2, <1>4, <1>5, <1>6, <1>7, Quiet DEF IInv, Types

LEMMA ClosedInv == ASSUME IInv, NEW t \in Tasks, Closed(t) PROVE IInv'
<1> USE DEF Closed, managerVars, handleVars, taskVars
<1>1. Types /\ TodoOk(t) /\ starts' = starts /\ todo' = todo /\ tpc[t] = "close"
  BY DEF IInv, TasksOk
<1>2. /\ tpc' \in [Tasks -> {"idle", "running"} \cup Opening \cup Closing] /\ tpc'[t] = "idle"
      /\ \A u \in Tasks \ {t} : tpc'[u] = tpc[u]
  BY <1>1 DEF Types
<1>3. Len(todo[t]) = 0 /\ Past(t) = N(t) /\ Past(t)' = N(t) /\ N(t) \in Nat
  BY <1>1, Sizes DEF Past
<1>4. TodoOk(t)'
  BY <1>1, <1>2, <1>3 DEF TodoOk, Opening, Resizing, Closing
<1>5. ListedTo(t)' = ListedTo(t)
  BY <1>1, <1>2 DEF ListedTo, Opening, Resizing
<1>6. \A k \in 1 .. N(t) : IsOpen(t, k)' <=> IsOpen(t, k)
  BY <1>1, <1>2, <1>3 DEF IsOpen, Opening, Resizing, Closing
<1> QED
  BY <1>1, <1>2, <1>4, <1>5, <1>6, Quiet DEF IInv, Types

-----------------------------------------------------------------------------
\* A task whose own state is left alone.
LEMMA Others ==
    ASSUME IInv, made' = made, DOMAIN buf_ \subseteq DOMAIN buf_', NEW u \in Tasks,
           tpc'[u] = tpc[u], todo'[u] = todo[u], starts'[u] = starts[u],
           readers_'[u] = readers_[u], writers_'[u] = writers_[u], buf'[u] = buf[u]
    PROVE  /\ TodoOk(u)' /\ ListOk(u)' /\ HandOk(u)'
           /\ \A k \in 1 .. N(u) : IsOpen(u, k)' <=> IsOpen(u, k)
<1>1. Past(u)' = Past(u) /\ ListedTo(u)' = ListedTo(u) /\ TodoOk(u) /\ ListOk(u) /\ HandOk(u)
  BY DEF Past, ListedTo, IInv, TasksOk
<1>2. TodoOk(u)'
  BY <1>1 DEF TodoOk
<1>3. ListOk(u)'
  BY <1>1 DEF ListOk
<1>4. HandOk(u)'
  BY <1>1 DEF HandOk, Cur
<1>5. \A k \in 1 .. N(u) : IsOpen(u, k)' <=> IsOpen(u, k)
  BY <1>1 DEF IsOpen
<1> QED
  BY <1>2, <1>3, <1>4, <1>5

\* How the number of those with a reference in hand changes when one task takes
\* or gives one.
LEMMA HandCount ==
    ASSUME IInv, made' = made, NEW t \in Tasks, NEW x \in BufIds,
           \A u \in Tasks \ {t} : buf'[u] = buf[u]
    PROVE  /\ Cardinality(With(x)) \in Nat
           /\ buf[t] = Cur(x) /\ buf'[t] # Cur(x) =>
                Cardinality(With(x)') = Cardinality(With(x)) - 1
           /\ buf[t] # Cur(x) /\ buf'[t] = Cur(x) =>
                Cardinality(With(x)') = Cardinality(With(x)) + 1
           /\ buf[t] # Cur(x) /\ buf'[t] # Cur(x) => With(x)' = With(x)
<1>1. IsFiniteSet(With(x)) /\ Cardinality(With(x)) \in Nat /\ Cur(x)' = Cur(x)
  BY Counts DEF Cur
<1>2. ASSUME buf[t] = Cur(x), buf'[t] # Cur(x)
      PROVE  Cardinality(With(x)') = Cardinality(With(x)) - 1
  <2>1. With(x)' = With(x) \ {t} /\ t \in With(x)
    BY <1>1, <1>2 DEF With
  <2> QED
    BY <1>1, <2>1, FS_RemoveElement
<1>3. ASSUME buf[t] # Cur(x), buf'[t] = Cur(x)
      PROVE  Cardinality(With(x)') = Cardinality(With(x)) + 1
  <2>1. With(x)' = With(x) \cup {t} /\ t \notin With(x)
    BY <1>1, <1>3 DEF With
  <2> QED
    BY <1>1, <2>1, FS_AddElement
<1>4. buf[t] # Cur(x) /\ buf'[t] # Cur(x) => With(x)' = With(x)
  BY <1>1 DEF With
<1> QED
  BY <1>1, <1>2, <1>3, <1>4

\* The reference taken to open a handle becomes the handle's.
LEMMA AttachInv == ASSUME IInv, NEW t \in Tasks, Attach(t) PROVE IInv'
<1> USE DEF Attach, managerVars
<1>1. /\ Types /\ TodoOk(t) /\ ListOk(t) /\ HandOk(t) /\ OpenInv
      /\ tpc[t] = "attach" /\ starts[t] = 1 /\ todo[t] # <<>>
  BY EmptySeq, Sizes DEF IInv, TasksOk, TodoOk
<1>2. PICK k \in 1 .. N(t) : k = Past(t) + 1 /\ Head(todo[t]) = Slot(t, k)
  <2>1. 1 \in 1 .. Len(todo[t]) /\ Head(todo[t]) = todo[t][1] /\ Past(t) + 1 \in 1 .. N(t)
    BY <1>1, HeadOf
  <2> QED
    BY <2>1, <1>1 DEF TodoOk, Opening, Resizing
<1>3. PICK id \in BufIds : id = IdOf(t, k) /\ buf[t] = Cur(id)
  BY <1>1, <1>2, Config DEF HandOk
<1> DEFINE h == H(t, k)
<1>4. h \in Tasks \X {"reader", "writer"} \X {1} \X Nat /\ h = <<t, Slot(t, k)[1], starts[t], Slot(t, k)[2]>>
      /\ h \in Item
  BY <1>1, Config DEF H, Item
<1>5. /\ attached' = attached \cup {h}
      /\ buf_' = [x \in DOMAIN buf_ \cup {h} |-> IF x = h THEN Cur(id) ELSE buf_[x]]
      /\ \/ /\ k <= R(t) /\ UNCHANGED writers_
            /\ readers_' = [readers_ EXCEPT ![t] = Append(@, h)]
         \/ /\ ~(k <= R(t)) /\ UNCHANGED readers_
            /\ writers_' = [writers_ EXCEPT ![t] = Append(@, h)]
      /\ buf' = [buf EXCEPT ![t] = NoBuffer]
      /\ todo' = [todo EXCEPT ![t] = Tail(@)]
      /\ \/ tpc' = [tpc EXCEPT ![t] = "open"]
         \/ tpc' = [tpc EXCEPT ![t] = "look"] /\ ~(k <= R(t))
      /\ UNCHANGED <<made, ref, ring, starts>>
  <2>1. Slot(t, k)[1] = "reader" <=> k <= R(t)
    BY DEF Slot
  <2>2. Head(todo[t]) = Slot(t, k) /\ buf[t] = Cur(id)
    BY <1>2, <1>3
  <2> HIDE DEF h
  <2>3. /\ attached' = attached \cup {h}
        /\ buf_' = [x \in DOMAIN buf_ \cup {h} |-> IF x = h THEN Cur(id) ELSE buf_[x]]
        /\ buf' = [buf EXCEPT ![t] = NoBuffer]
        /\ todo' = [todo EXCEPT ![t] = Tail(@)]
        /\ UNCHANGED <<made, ref, ring, starts>>
    BY <2>2, <1>4
  <2>4. IF Slot(t, k)[1] = "reader"
        THEN readers_' = [readers_ EXCEPT ![t] = Append(@, h)] /\ UNCHANGED writers_
        ELSE writers_' = [writers_ EXCEPT ![t] = Append(@, h)] /\ UNCHANGED readers_
    BY <2>2, <1>4
  <2>5. tpc' = [tpc EXCEPT ![t] = IF Slot(t, k)[1] = "writer" /\ BufSize[t][Slot(t, k)[2]] > 0
                                  THEN "look" ELSE "open"]
    BY <2>2
  <2>6. \/ tpc' = [tpc EXCEPT ![t] = "open"]
        \/ tpc' = [tpc EXCEPT ![t] = "look"] /\ ~(k <= R(t))
    <3>1. CASE Slot(t, k)[1] = "writer" /\ BufSize[t][Slot(t, k)[2]] > 0
      BY <3>1, <2>1, <2>5
    <3>2. CASE ~(Slot(t, k)[1] = "writer" /\ BufSize[t][Slot(t, k)[2]] > 0)
      BY <3>2, <2>5
    <3> QED
      BY <3>1, <3>2
  <2> QED
    BY <2>1, <2>3, <2>4, <2>6
<1> HIDE DEF h, Attach
<1>6. h \notin attached /\ ~IsOpen(t, k)
  <2>1. ~IsOpen(t, k)
    BY <1>1, <1>2, Sizes DEF IsOpen, Opening, Resizing, Closing
  <2> QED
    BY <2>1, <1>1 DEF OpenInv, h
<1>7. /\ Past(t)' = k /\ todo'[t] = Tail(todo[t]) /\ Len(todo'[t]) = Len(todo[t]) - 1
      /\ ListedTo(t) = k - 1 /\ ListedTo(t)' = k /\ tpc'[t] \in {"open", "look"}
  <2>1. todo'[t] = Tail(todo[t]) /\ tpc'[t] \in {"open", "look"} /\ starts'[t] = 1
    BY <1>1, <1>5 DEF Types
  <2>2. Len(todo'[t]) = Len(todo[t]) - 1
    BY <2>1, <1>1, HeadOf
  <2>3. Past(t)' = k
    BY <2>2, <1>1, <1>2, Sizes DEF Past
  <2> QED
    BY <2>1, <2>2, <2>3, <1>1, <1>2, Sizes DEF ListedTo, Opening, Resizing
<1>8. \A u \in Tasks \ {t} :
        /\ TodoOk(u)' /\ ListOk(u)' /\ HandOk(u)'
        /\ \A j \in 1 .. N(u) : IsOpen(u, j)' <=> IsOpen(u, j)
  <2> SUFFICES ASSUME NEW u \in Tasks \ {t}
               PROVE  /\ TodoOk(u)' /\ ListOk(u)' /\ HandOk(u)'
                      /\ \A j \in 1 .. N(u) : IsOpen(u, j)' <=> IsOpen(u, j)
    OBVIOUS
  <2>1. /\ tpc'[u] = tpc[u] /\ todo'[u] = todo[u] /\ starts'[u] = starts[u]
        /\ readers_'[u] = readers_[u] /\ writers_'[u] = writers_[u] /\ buf'[u] = buf[u]
    BY <1>1, <1>5 DEF Types
  <2>2. made' = made /\ DOMAIN buf_ \subseteq DOMAIN buf_'
    BY <1>5
  <2> QED
    BY <2>1, <2>2, Others
<1>9. Types'
  <2>1. todo' \in [Tasks -> Seq(Item)] /\ buf' \in [Tasks -> Buffers]
        /\ tpc' \in [Tasks -> {"idle", "running"} \cup Opening \cup Closing]
    BY <1>1, <1>5, HeadOf DEF Types, Opening, Resizing, Buffers
  <2>2. readers_' \in [Tasks -> Seq(Item)] /\ writers_' \in [Tasks -> Seq(Item)]
    <3>1. Append(readers_[t], h) \in Seq(Item) /\ Append(writers_[t], h) \in Seq(Item)
      BY <1>1, <1>4, Sizes
    <3> QED
      BY <3>1, <1>1, <1>5 DEF Types
  <2>3. IsFiniteSet(attached')
    BY <1>1, <1>5, FS_AddElement DEF Types
  <2>4. Cur(id) \in Buffers
    BY <1>1 DEF Cur, Buffers, Types
  <2>5. /\ DOMAIN buf_' \subseteq Tasks \X {"reader", "writer"} \X {1} \X Nat
        /\ \A x \in DOMAIN buf_' : buf_'[x] \in Buffers
    BY <1>1, <1>4, <1>5, <2>4 DEF Types
  <2> QED
    BY <1>1, <1>5, <2>1, <2>2, <2>3, <2>5 DEF Types
<1>10. TodoOk(t)'
  <2>1. \A j \in 1 .. Len(todo'[t]) : todo'[t][j] = Slot(t, Past(t)' + j)
    <3> SUFFICES ASSUME NEW j \in 1 .. Len(todo'[t])
                 PROVE  todo'[t][j] = Slot(t, Past(t)' + j)
      OBVIOUS
    <3>1. j + 1 \in 1 .. Len(todo[t]) /\ Past(t) + (j + 1) = Past(t)' + j
      <4>1. /\ Len(todo[t]) \in Nat /\ Past(t) = N(t) - Len(todo[t]) /\ N(t) \in Nat
            /\ j \in 1 .. Len(todo[t]) - 1 /\ Past(t)' = Past(t) + 1
        BY <1>1, <1>2, <1>7, Sizes
      <4> QED
        BY <4>1
    <3>2. todo'[t][j] = todo[t][j + 1]
      BY <1>1, <1>7, HeadOf
    <3> QED
      BY <3>1, <3>2, <1>1 DEF TodoOk, Opening, Resizing
  <2>2. Len(todo'[t]) <= N(t)
    BY <1>1, <1>7, Sizes DEF TodoOk
  <2>3. tpc'[t] = "look" => Past(t)' > R(t)
    <3>1. tpc'[t] = "look" => ~(k <= R(t))
      BY <1>1, <1>5 DEF Types
    <3> QED
      BY <3>1, <1>1, <1>7, Sizes
  <2>4. starts'[t] = 1
    BY <1>1, <1>5
  <2> QED
    BY <2>1, <2>2, <2>3, <2>4, <1>7 DEF TodoOk, Opening, Resizing, Closing
<1>11. ListOk(t)'
  <2>1. readers_[t] \in Seq(Item) /\ writers_[t] \in Seq(Item) /\ R(t) \in Nat /\ N(t) \in Nat
    BY <1>1, Sizes
  <2>2. CASE k <= R(t)
    <3>1. readers_'[t] = Append(readers_[t], h) /\ writers_'[t] = writers_[t]
      BY <2>2, <1>1, <1>5 DEF Types
    <3>2. Len(readers_[t]) = k - 1 /\ Len(writers_[t]) = 0
      BY <2>1, <2>2, <1>1, <1>7 DEF ListOk
    <3>3. Len(readers_'[t]) = k /\ \A i \in 1 .. k : readers_'[t][i] = H(t, i)
      BY <3>1, <3>2, <2>1, <1>1, <1>4 DEF ListOk, h
    <3> QED
      BY <2>1, <2>2, <3>1, <3>2, <3>3, <1>1, <1>5, <1>7 DEF ListOk, h
  <2>3. CASE ~(k <= R(t))
    <3>1. writers_'[t] = Append(writers_[t], h) /\ readers_'[t] = readers_[t]
      BY <2>3, <1>1, <1>5 DEF Types
    <3>2. Len(writers_[t]) = k - 1 - R(t) /\ Len(readers_[t]) = R(t)
      BY <2>1, <2>3, <1>1, <1>7 DEF ListOk
    <3>3. Len(writers_'[t]) = k - R(t) /\ \A i \in 1 .. k - R(t) : writers_'[t][i] = H(t, R(t) + i)
      <4>1. /\ Len(writers_'[t]) = Len(writers_[t]) + 1
            /\ \A i \in 1 .. Len(writers_[t]) : writers_'[t][i] = writers_[t][i]
            /\ writers_'[t][Len(writers_[t]) + 1] = h
        BY <3>1, <2>1, <1>4, AppendProperties
      <4>2. Len(writers_[t]) + 1 = k - R(t) /\ R(t) + (k - R(t)) = k
        BY <3>2, <2>1
      <4>3. ASSUME NEW i \in 1 .. k - R(t) PROVE writers_'[t][i] = H(t, R(t) + i)
        <5>1. CASE i = k - R(t)
          BY <5>1, <4>1, <4>2 DEF h
        <5>2. CASE i # k - R(t)
          <6>1. i \in 1 .. Len(writers_[t])
            BY <5>2, <3>2, <2>1, <2>3
          <6> QED
            BY <6>1, <4>1, <1>1 DEF ListOk
        <5> QED
          BY <5>1, <5>2
      <4> QED
        BY <4>1, <4>2, <4>3
    <3> QED
      <4>1. \A i \in 1 .. Len(readers_'[t]) : readers_'[t][i] = H(t, i)
        BY <3>1, <1>1 DEF ListOk
      <4>2. \A j \in 1 .. k : H(t, j) \in DOMAIN buf_'
        <5>1. \A j \in 1 .. k : j \in 1 .. k - 1 \/ j = k
          OBVIOUS
        <5> QED
          BY <5>1, <1>1, <1>5, <1>7 DEF ListOk, h
      <4>3. /\ Len(readers_'[t]) = IF k < R(t) THEN k ELSE R(t)
            /\ Len(writers_'[t]) = IF k < R(t) THEN 0 ELSE k - R(t)
        BY <2>1, <2>3, <3>1, <3>2, <3>3
      <4>4. \A i \in 1 .. Len(writers_'[t]) : writers_'[t][i] = H(t, R(t) + i)
        BY <3>3
      <4> QED
        BY <4>1, <4>2, <4>3, <4>4, <1>7 DEF ListOk
  <2> QED
    BY <2>2, <2>3
<1>12. HandOk(t)'
  BY <1>1, <1>5, <1>7 DEF HandOk, Types
<1>13. \A j \in 1 .. N(t) : IsOpen(t, j)' <=> IsOpen(t, j) \/ j = k
  BY <1>1, <1>2, <1>7, Sizes DEF IsOpen, Opening, Resizing, Closing
<1>14. OpenInv'
  <2>1. \A x \in BufIds : Cur(x)' = Cur(x)
    BY <1>5 DEF Cur
  <2>2. \A g \in attached' : \E u \in Tasks : \E j \in 1 .. N(u) : g = H(u, j)
    BY <1>1, <1>5 DEF OpenInv, h
  <2> SUFFICES ASSUME NEW u \in Tasks, NEW j \in 1 .. N(u)
               PROVE  /\ H(u, j) \in attached' <=> IsOpen(u, j)'
                      /\ IsOpen(u, j)' => H(u, j) \in DOMAIN buf_' /\ buf_'[H(u, j)] = Cur(IdOf(u, j))'
    BY <2>2 DEF OpenInv
  <2>3. H(u, j) = h <=> u = t /\ j = k
    BY Distinct DEF h
  <2>4. IsOpen(u, j)' <=> IsOpen(u, j) \/ H(u, j) = h
    BY <2>3, <1>8, <1>13
  <2>5. /\ H(u, j) \in attached <=> IsOpen(u, j)
        /\ IsOpen(u, j) => H(u, j) \in DOMAIN buf_ /\ buf_[H(u, j)] = Cur(IdOf(u, j))
    BY <1>1 DEF OpenInv
  <2>6. H(u, j) \in attached' <=> IsOpen(u, j)'
    BY <2>4, <2>5, <1>5
  <2>7. Cur(IdOf(u, j))' = Cur(IdOf(u, j))
    BY <1>5 DEF Cur
  <2>8. CASE H(u, j) = h
    BY <2>3, <2>6, <2>7, <2>8, <1>3, <1>5
  <2>9. CASE H(u, j) # h
    BY <2>4, <2>5, <2>6, <2>7, <2>9, <1>5
  <2> QED
    BY <2>8, <2>9
<1>15. CountInv'
  <2> SUFFICES ASSUME NEW x \in BufIds
               PROVE  ref'[x] = Cardinality(On(x)') + Cardinality(With(x)')
    BY DEF CountInv
  <2>1. Cur(x)' = Cur(x) /\ made' = made /\ ref'[x] = ref[x]
    BY <1>5 DEF Cur
  <2>2. buf'[t] = NoBuffer /\ \A u \in Tasks \ {t} : buf'[u] = buf[u]
    BY <1>1, <1>5 DEF Types
  <2>3. /\ IsFiniteSet(On(x)) /\ Cardinality(On(x)) \in Nat
        /\ ref[x] = Cardinality(On(x)) + Cardinality(With(x))
    BY Counts
  <2>4. \A g \in attached : g \in DOMAIN buf_ /\ buf_'[g] = buf_[g]
    BY Held, <1>5, <1>6
  <2>5. buf_'[h] = Cur(id)
    BY <1>5
  <2>6. CASE x = id
    <3>1. On(x)' = On(x) \cup {h} /\ h \notin On(x)
      BY <2>1, <2>4, <2>5, <2>6, <1>5, <1>6 DEF On
    <3>2. Cardinality(On(x)') = Cardinality(On(x)) + 1
      BY <3>1, <2>3, FS_AddElement
    <3>3. Cardinality(With(x)') = Cardinality(With(x)) - 1 /\ Cardinality(With(x)) \in Nat
      BY <2>1, <2>2, <2>6, <1>3, CurIsBuffer, HandCount
    <3> QED
      BY <3>2, <3>3, <2>1, <2>3
  <2>7. CASE x # id
    <3>1. Cur(id) # Cur(x)
      BY <2>7 DEF Cur
    <3>2. On(x)' = On(x)
      BY <3>1, <2>1, <2>4, <2>5, <1>5 DEF On
    <3>3. With(x)' = With(x)
      BY <3>1, <2>1, <2>2, <1>3, CurIsBuffer, HandCount
    <3> QED
      BY <3>2, <3>3, <2>1, <2>3
  <2> QED
    BY <2>6, <2>7
<1> QED
  <2>1. TasksOk'
    BY <1>8, <1>10, <1>11, <1>12 DEF TasksOk
  <2> QED
    BY <2>1, <1>9, <1>14, <1>15 DEF IInv

-----------------------------------------------------------------------------
\* The reference of a handle that is closed is the closing thread's.
LEMMA DetachInv == ASSUME IInv, NEW t \in Tasks, Detach(t) PROVE IInv'
<1> USE DEF Detach, managerVars, taskVars
<1>1. /\ Types /\ TodoOk(t) /\ ListOk(t) /\ HandOk(t) /\ OpenInv
      /\ tpc[t] = "close" /\ starts[t] = 1 /\ todo[t] # <<>>
  BY DEF IInv, TasksOk, TodoOk
<1>2. PICK k \in 1 .. N(t) : k = Past(t) + 1 /\ Head(todo[t]) = H(t, k)
  <2>1. 1 \in 1 .. Len(todo[t]) /\ Head(todo[t]) = todo[t][1] /\ Past(t) + 1 \in 1 .. N(t)
    BY <1>1, HeadOf
  <2> QED
    BY <2>1, <1>1 DEF TodoOk, Closing
<1> DEFINE h == H(t, k)
<1>3. IsOpen(t, k) /\ h \in attached
  <2>1. IsOpen(t, k)
    BY <1>1, <1>2, Sizes DEF IsOpen, Closing
  <2> QED
    BY <2>1, <1>1 DEF OpenInv
<1>4. PICK id \in BufIds : id = IdOf(t, k) /\ buf_[h] = Cur(id)
  BY <1>1, <1>3, Config DEF OpenInv
<1> HIDE DEF h
<1>5. /\ attached' = attached \ {h} /\ buf' = [buf EXCEPT ![t] = Cur(id)]
      /\ todo' = [todo EXCEPT ![t] = Tail(@)] /\ tpc' = [tpc EXCEPT ![t] = "unref"]
      /\ UNCHANGED <<made, ref, ring, buf_, readers_, writers_, starts>>
  BY <1>2, <1>4 DEF h
<1> HIDE DEF Detach
<1>6. /\ Past(t)' = k /\ todo'[t] = Tail(todo[t]) /\ Len(todo'[t]) = Len(todo[t]) - 1
      /\ ListedTo(t)' = ListedTo(t) /\ tpc'[t] = "unref" /\ buf'[t] = Cur(id)
      /\ starts'[t] = 1
  <2>1. /\ todo'[t] = Tail(todo[t]) /\ tpc'[t] = "unref" /\ starts'[t] = 1
        /\ buf'[t] = Cur(id)
    BY <1>1, <1>5 DEF Types
  <2>2. Len(todo'[t]) = Len(todo[t]) - 1
    BY <2>1, <1>1, HeadOf
  <2>3. Past(t)' = k
    BY <2>2, <1>1, <1>2, Sizes DEF Past
  <2> QED
    BY <2>1, <2>2, <2>3, <1>1 DEF ListedTo, Opening, Resizing
<1>7. \A u \in Tasks \ {t} :
        /\ TodoOk(u)' /\ ListOk(u)' /\ HandOk(u)'
        /\ \A j \in 1 .. N(u) : IsOpen(u, j)' <=> IsOpen(u, j)
  <2> SUFFICES ASSUME NEW u \in Tasks \ {t}
               PROVE  /\ TodoOk(u)' /\ ListOk(u)' /\ HandOk(u)'
                      /\ \A j \in 1 .. N(u) : IsOpen(u, j)' <=> IsOpen(u, j)
    OBVIOUS
  <2>1. /\ tpc'[u] = tpc[u] /\ todo'[u] = todo[u] /\ starts'[u] = starts[u]
        /\ readers_'[u] = readers_[u] /\ writers_'[u] = writers_[u] /\ buf'[u] = buf[u]
    BY <1>1, <1>5 DEF Types
  <2>2. made' = made /\ DOMAIN buf_ \subseteq DOMAIN buf_'
    BY <1>5
  <2> QED
    BY <2>1, <2>2, Others
<1>8. Types'
  <2>1. Cur(id) \in Buffers
    BY <1>1 DEF Cur, Buffers, Types
  <2>2. todo' \in [Tasks -> Seq(Item)] /\ buf' \in [Tasks -> Buffers]
        /\ tpc' \in [Tasks -> {"idle", "running"} \cup Opening \cup Closing]
    BY <2>1, <1>1, <1>5, HeadOf DEF Types, Closing
  <2>3. IsFiniteSet(attached')
    BY <1>1, <1>5, FS_RemoveElement DEF Types
  <2> QED
    BY <1>1, <1>5, <2>2, <2>3 DEF Types
<1>9. TodoOk(t)'
  <2>1. \A j \in 1 .. Len(todo'[t]) : todo'[t][j] = H(t, Past(t)' + j)
    <3> SUFFICES ASSUME NEW j \in 1 .. Len(todo'[t])
                 PROVE  todo'[t][j] = H(t, Past(t)' + j)
      OBVIOUS
    <3>1. /\ Len(todo[t]) \in Nat /\ Past(t) = N(t) - Len(todo[t]) /\ N(t) \in Nat
          /\ j \in 1 .. Len(todo[t]) - 1 /\ Past(t)' = Past(t) + 1
      BY <1>1, <1>2, <1>6, Sizes
    <3>2. j + 1 \in 1 .. Len(todo[t]) /\ Past(t) + (j + 1) = Past(t)' + j
      BY <3>1
    <3>3. todo'[t][j] = todo[t][j + 1]
      BY <1>1, <1>6, HeadOf
    <3> QED
      BY <3>2, <3>3, <1>1 DEF TodoOk, Closing
  <2>2. Len(todo'[t]) <= N(t)
    BY <1>1, <1>6, Sizes DEF TodoOk
  <2> QED
    BY <2>1, <2>2, <1>6 DEF TodoOk, Opening, Resizing
<1>10. ListOk(t)'
  BY <1>1, <1>5, <1>6 DEF ListOk
<1>11. HandOk(t)'
  BY <1>5, <1>6 DEF HandOk, Cur
<1>12. \A j \in 1 .. N(t) : IsOpen(t, j)' <=> IsOpen(t, j) /\ j # k
  BY <1>1, <1>2, <1>6, Sizes DEF IsOpen, Opening, Resizing, Closing
<1>13. OpenInv'
  <2>1. \A g \in attached' : \E u \in Tasks : \E j \in 1 .. N(u) : g = H(u, j)
    BY <1>1, <1>5 DEF OpenInv
  <2> SUFFICES ASSUME NEW u \in Tasks, NEW j \in 1 .. N(u)
               PROVE  /\ H(u, j) \in attached' <=> IsOpen(u, j)'
                      /\ IsOpen(u, j)' => H(u, j) \in DOMAIN buf_' /\ buf_'[H(u, j)] = Cur(IdOf(u, j))'
    BY <2>1 DEF OpenInv
  <2>2. H(u, j) = h <=> u = t /\ j = k
    BY Distinct DEF h
  <2>3. IsOpen(u, j)' <=> IsOpen(u, j) /\ H(u, j) # h
    BY <2>2, <1>7, <1>12
  <2>4. /\ H(u, j) \in attached <=> IsOpen(u, j)
        /\ IsOpen(u, j) => H(u, j) \in DOMAIN buf_ /\ buf_[H(u, j)] = Cur(IdOf(u, j))
    BY <1>1 DEF OpenInv
  <2>5. Cur(IdOf(u, j))' = Cur(IdOf(u, j))
    BY <1>5 DEF Cur
  <2> QED
    BY <2>3, <2>4, <2>5, <1>5
<1>14. CountInv'
  <2> SUFFICES ASSUME NEW x \in BufIds
               PROVE  ref'[x] = Cardinality(On(x)') + Cardinality(With(x)')
    BY DEF CountInv
  <2>1. Cur(x)' = Cur(x) /\ made' = made /\ ref'[x] = ref[x] /\ buf[t] = NoBuffer
    BY <1>1, <1>5 DEF Cur, HandOk
  <2>2. buf'[t] = Cur(id) /\ \A u \in Tasks \ {t} : buf'[u] = buf[u]
    BY <1>1, <1>5, <1>6 DEF Types
  <2>3. /\ IsFiniteSet(On(x)) /\ Cardinality(On(x)) \in Nat
        /\ ref[x] = Cardinality(On(x)) + Cardinality(With(x))
    BY Counts
  <2>4. CASE x = id
    <3>1. On(x)' = On(x) \ {h} /\ h \in On(x)
      BY <2>1, <2>4, <1>3, <1>4, <1>5 DEF On
    <3>2. Cardinality(On(x)') = Cardinality(On(x)) - 1
      BY <3>1, <2>3, FS_RemoveElement
    <3>3. Cardinality(With(x)') = Cardinality(With(x)) + 1 /\ Cardinality(With(x)) \in Nat
      BY <2>1, <2>2, <2>4, CurIsBuffer, HandCount
    <3> QED
      BY <3>2, <3>3, <2>1, <2>3
  <2>5. CASE x # id
    <3>1. Cur(id) # Cur(x)
      BY <2>5 DEF Cur
    <3>2. On(x)' = On(x)
      BY <3>1, <2>1, <1>4, <1>5 DEF On
    <3>3. With(x)' = With(x)
      BY <3>1, <2>1, <2>2, CurIsBuffer, HandCount
    <3> QED
      BY <3>2, <3>3, <2>1, <2>3
  <2> QED
    BY <2>4, <2>5
<1> QED
  <2>1. TasksOk'
    BY <1>7, <1>9, <1>10, <1>11 DEF TasksOk
  <2> QED
    BY <2>1, <1>8, <1>13, <1>14 DEF IInv

\* A reference is given back while it is counted, so the buffer is still there.
LEMMA UnrefInv == ASSUME IInv, NEW t \in Tasks, Unref(t) PROVE IInv'
<1> USE DEF Unref, handleVars, taskVars
<1>1. /\ Types /\ TodoOk(t) /\ ListOk(t) /\ HandOk(t) /\ OpenInv /\ tpc[t] = "unref"
  BY DEF IInv, TasksOk
<1>2. PICK id \in BufIds : buf[t] = Cur(id)
  BY <1>1 DEF HandOk
<1>3. InManager(buf[t]) /\ ref[id] > 0 /\ ref[id] \in Nat
  <2>1. t \in With(id)
    BY <1>2 DEF With
  <2> QED
    BY <2>1, <1>1, <1>2, InList DEF InManager, Cur, Types
<1>4. /\ ref' = [ref EXCEPT ![id] = @ - 1] /\ buf' = [buf EXCEPT ![t] = NoBuffer]
      /\ tpc' = [tpc EXCEPT ![t] = "close"]
      /\ UNCHANGED <<made, ring, attached, buf_, readers_, writers_, starts, todo>>
  BY <1>2, <1>3 DEF RemoveBuffer, Cur
<1> HIDE DEF Unref
<1>5. /\ tpc'[t] = "close" /\ buf'[t] = NoBuffer
      /\ Past(t)' = Past(t) /\ ListedTo(t)' = ListedTo(t)
      /\ \A u \in Tasks \ {t} : tpc'[u] = tpc[u] /\ buf'[u] = buf[u]
      /\ \A x \in BufIds : Cur(x)' = Cur(x)
  BY <1>1, <1>4 DEF Types, Past, ListedTo, Opening, Resizing, Cur
<1>6. \A u \in Tasks \ {t} :
        /\ TodoOk(u)' /\ ListOk(u)' /\ HandOk(u)'
        /\ \A j \in 1 .. N(u) : IsOpen(u, j)' <=> IsOpen(u, j)
  BY <1>4, <1>5, Others
<1>7. Types'
  <2>1. ref' \in [BufIds -> Nat]
    BY <1>1, <1>3, <1>4 DEF Types
  <2>2. buf' \in [Tasks -> Buffers]
        /\ tpc' \in [Tasks -> {"idle", "running"} \cup Opening \cup Closing]
    BY <1>1, <1>4 DEF Types, Buffers, Closing
  <2> QED
    BY <2>1, <2>2, <1>1, <1>4 DEF Types
<1>8. TodoOk(t)' /\ HandOk(t)'
  BY <1>1, <1>4, <1>5 DEF TodoOk, HandOk, Opening, Resizing, Closing
<1>9. ListOk(t)'
  BY <1>1, <1>4, <1>5 DEF ListOk
<1>10. \A j \in 1 .. N(t) : IsOpen(t, j)' <=> IsOpen(t, j)
  BY <1>1, <1>5 DEF IsOpen, Opening, Resizing, Closing
<1>11. \A u \in Tasks : \A j \in 1 .. N(u) : IsOpen(u, j)' <=> IsOpen(u, j)
  BY <1>6, <1>10
<1>12. OpenInv'
  BY <1>1, <1>4, <1>11 DEF OpenInv, Cur
<1>13. CountInv'
  <2> SUFFICES ASSUME NEW x \in BufIds
               PROVE  ref'[x] = Cardinality(On(x)') + Cardinality(With(x)')
    BY DEF CountInv
  <2>1. Cardinality(On(x)) \in Nat /\ ref[x] = Cardinality(On(x)) + Cardinality(With(x))
    BY Counts
  <2>2. On(x)' = On(x)
    BY <1>4, <1>5 DEF On
  <2>3. CASE x = id
    <3>1. Cardinality(With(x)') = Cardinality(With(x)) - 1 /\ Cardinality(With(x)) \in Nat
      BY <2>3, <1>2, <1>4, <1>5, CurIsBuffer, HandCount
    <3>2. ref'[x] = ref[x] - 1
      BY <2>3, <1>1, <1>4 DEF Types
    <3> QED
      BY <3>1, <3>2, <2>1, <2>2
  <2>4. CASE x # id
    <3>1. Cur(id) # Cur(x)
      BY <2>4 DEF Cur
    <3>2. With(x)' = With(x)
      BY <3>1, <1>2, <1>4, <1>5, CurIsBuffer, HandCount
    <3>3. ref'[x] = ref[x]
      BY <2>4, <1>1, <1>4 DEF Types
    <3> QED
      BY <3>2, <3>3, <2>1, <2>2
  <2> QED
    BY <2>3, <2>4
<1> QED
  <2>1. TasksOk'
    BY <1>6, <1>8, <1>9 DEF TasksOk
  <2> QED
    BY <2>1, <1>7, <1>12, <1>13 DEF IInv

LEMMA NextInv == ASSUME MaxStarts <= 1, IInv, [Next]_vars PROVE IInv'
<1>1. CASE UNCHANGED vars
  <2>1. UNCHANGED <<made, ref, ring, attached, buf_, readers_, writers_, starts, tpc, buf, todo>>
    BY <1>1 DEF vars, managerVars, handleVars, taskVars
  <2>2. Types'
    BY <2>1 DEF IInv, Types
  <2>3. \A u \in Tasks : /\ TodoOk(u)' /\ ListOk(u)' /\ HandOk(u)'
                         /\ \A j \in 1 .. N(u) : IsOpen(u, j)' <=> IsOpen(u, j)
    BY <2>1, Others
  <2>4. OpenInv'
    BY <2>1, <2>3 DEF IInv, OpenInv, Cur
  <2>5. CountInv'
    BY <2>1 DEF IInv, CountInv, On, With, Cur
  <2> QED
    BY <2>2, <2>3, <2>4, <2>5 DEF IInv, TasksOk
<1>2. ASSUME NEW t \in Tasks, TaskStep(t) PROVE IInv'
  <2>1. CASE Start(t)
    BY <2>1, StartInv
  <2>2. CASE FindBuffer(t)
    BY <2>2, FindInv
  <2>3. CASE Attach(t)
    BY <2>3, AttachInv
  <2>4. CASE Look(t) \/ CheckStart(t) \/ Resize(t)
    BY <2>4, SizeInv
  <2>5. CASE Opened(t) \/ Stop(t)
    BY <2>5, OpenedInv
  <2>6. CASE Detach(t)
    BY <2>6, DetachInv
  <2>7. CASE Unref(t)
    BY <2>7, UnrefInv
  <2>8. CASE Closed(t)
    BY <2>8, ClosedInv
  <2> QED
    BY <1>2, <2>1, <2>2, <2>3, <2>4, <2>5, <2>6, <2>7, <2>8 DEF TaskStep
<1> QED
  BY <1>1, <1>2 DEF Next

LEMMA Invariant == ASSUME MaxStarts <= 1 PROVE Spec => []IInv
BY InitInv, NextInv, PTL DEF Spec

-----------------------------------------------------------------------------
\* Types: every handle a vector lists or a buffer holds is one add_reader or
\* add_writer has made.
THEOREM TypeCorrect == ASSUME MaxStarts = 1 PROVE Spec => []TypeOK
<1>1. ASSUME IInv PROVE TypeOK
  <2>1. Types
    BY <1>1 DEF IInv
  <2>2. attached \subseteq DOMAIN buf_ /\ DOMAIN buf_ \subseteq Handles
    BY <1>1, <2>1, Held DEF Types, Handles
  <2>3. ASSUME NEW t \in Tasks
        PROVE  /\ \A i \in DOMAIN readers_[t] : readers_[t][i] \in DOMAIN buf_
               /\ \A i \in DOMAIN writers_[t] : writers_[t][i] \in DOMAIN buf_
    <3>1. ListOk(t) /\ TodoOk(t)
      BY <1>1 DEF IInv, TasksOk
    <3>2. /\ DOMAIN readers_[t] = 1 .. Len(readers_[t]) /\ Len(readers_[t]) \in Nat
          /\ DOMAIN writers_[t] = 1 .. Len(writers_[t]) /\ Len(writers_[t]) \in Nat
          /\ R(t) \in Nat /\ N(t) \in Nat /\ ListedTo(t) \in Int
      BY <2>1, Sizes, LenProperties DEF ListedTo
    <3>3. /\ \A i \in 1 .. Len(readers_[t]) : i \in 1 .. ListedTo(t)
          /\ \A i \in 1 .. Len(writers_[t]) : R(t) + i \in 1 .. ListedTo(t)
      BY <3>1, <3>2 DEF ListOk
    <3> QED
      BY <3>1, <3>2, <3>3 DEF ListOk
  <2> QED
    BY <2>1, <2>2, <2>3 DEF Types, TypeOK, Opening, Resizing, Closing
<1>2. Spec => []IInv
  BY Invariant
<1> QED
  BY <1>1, <1>2, PTL

\* Every reference counted by add_buffer is one that a handle, or a thread on its
\* way to or from one, has to give back to remove_buffer.
THEOREM Counted == ASSUME MaxStarts <= 1 PROVE Spec => []RefCounts
<1>1. IInv => RefCounts
  BY DEF IInv, CountInv, RefCounts, On, With, Cur
<1> QED
  BY <1>1, Invariant, PTL

\* buffer_manager never deletes a buffer that somebody has open.
THEOREM NeverDeletedOpen == ASSUME MaxStarts <= 1 PROVE Spec => []OpenBufferAlive
<1>1. ASSUME IInv PROVE OpenBufferAlive
  <2>1. ASSUME NEW h \in attached PROVE InManager(buf_[h])
    <3>1. PICK id \in BufIds : buf_[h] = Cur(id)
      BY <1>1, Held
    <3>2. h \in On(id)
      BY <3>1 DEF On
    <3> QED
      BY <1>1, <3>1, <3>2, InList
  <2>2. ASSUME NEW t \in Tasks, tpc[t] = "attach" PROVE InManager(buf[t])
    <3>1. Types /\ TodoOk(t) /\ HandOk(t)
      BY <1>1 DEF IInv, TasksOk
    <3>2. Past(t) + 1 \in 1 .. N(t)
      BY <2>2, <3>1, Sizes DEF TodoOk
    <3>3. PICK id \in BufIds : buf[t] = Cur(id)
      BY <2>2, <3>1, <3>2, Config DEF HandOk
    <3>4. t \in With(id)
      BY <3>3 DEF With
    <3> QED
      BY <1>1, <3>3, <3>4, InList
  <2> QED
    BY <2>1, <2>2 DEF OpenBufferAlive
<1> QED
  BY <1>1, Invariant, PTL

\* When every task has stopped, release_io has closed every handle and the last
\* reference has deleted every buffer.
THEOREM AllGivenBack == ASSUME MaxStarts <= 1 PROVE Spec => []NothingLeft
<1>1. ASSUME IInv, \A t \in Tasks : tpc[t] = "idle"
      PROVE  attached = {} /\ \A id \in BufIds : ref[id] = 0
  <2>1. attached = {}
    BY <1>1 DEF IInv, OpenInv, IsOpen, Opening, Resizing, Closing
  <2>2. ASSUME NEW id \in BufIds PROVE ref[id] = 0
    <3>1. On(id) = {}
      BY <2>1 DEF On
    <3>2. With(id) = {}
      BY <1>1, CurIsBuffer DEF With, IInv, TasksOk, HandOk
    <3>3. ref[id] = Cardinality(On(id)) + Cardinality(With(id)) /\ Cardinality({}) = 0
      BY <1>1, Counts, FS_EmptySet
    <3> QED
      BY <3>1, <3>2, <3>3
  <2> QED
    BY <2>1, <2>2
<1>2. IInv => NothingLeft
  BY <1>1 DEF NothingLeft
<1> QED
  BY <1>2, Invariant, PTL

-----------------------------------------------------------------------------
\* The memory of the rings. Handle k is a writer that has a size.
Asks(t, k) == k > R(t) /\ BufSize[t][k - R(t)] > 0
Size(t, k) == BufSize[t][k - R(t)]

\* Whoever gives a size for a buffer gives the same.
SameSize ==
    \A t, u \in Tasks : \A k \in 1 .. N(t) : \A j \in 1 .. N(u) :
        Asks(t, k) /\ Asks(u, j) /\ IdOf(t, k) = IdOf(u, j) => Size(t, k) = Size(u, j)

\* resize() is over for it.
Sized(t, k) ==
    \/ tpc[t] = "running"
    \/ tpc[t] \in Opening /\ k <= Past(t) /\ ~(tpc[t] \in Resizing /\ k = Past(t))

RingOk(id) ==
    \/ ring[id] = NoRing
    \/ /\ ring[id].news = 1 /\ ring[id].len > 0
       /\ \A t \in Tasks : \A k \in 1 .. N(t) :
            Asks(t, k) /\ IdOf(t, k) = id => Size(t, k) = ring[id].len

SizedInv ==
    /\ \A id \in BufIds : RingOk(id)
    /\ \A t \in Tasks : tpc[t] \in Resizing => Asks(t, Past(t))
    /\ \A t \in Tasks : \A k \in 1 .. N(t) :
         Asks(t, k) /\ Sized(t, k) => ring[IdOf(t, k)].len > 0

\* A step that leaves the rings alone.
LEMMA SizedQuiet ==
    ASSUME IInv, SizedInv, NEW t \in Tasks, ring' = ring,
           \A u \in Tasks \ {t} : tpc'[u] = tpc[u] /\ todo'[u] = todo[u],
           tpc'[t] \in Resizing => Asks(t, Past(t)'),
           \A k \in 1 .. N(t) :
             Asks(t, k) /\ Sized(t, k)' => Sized(t, k) \/ ring[IdOf(t, k)].len > 0
    PROVE  SizedInv'
<1>1. \A u \in Tasks \ {t} : Past(u)' = Past(u) /\ \A k \in 1 .. N(u) : Sized(u, k)' <=> Sized(u, k)
  BY DEF Past, Sized
<1>2. \A id \in BufIds : RingOk(id)'
  BY DEF SizedInv, RingOk
<1>3. \A u \in Tasks : tpc'[u] \in Resizing => Asks(u, Past(u)')
  BY <1>1 DEF SizedInv
<1>4. \A u \in Tasks : \A k \in 1 .. N(u) :
        Asks(u, k) /\ Sized(u, k)' => ring'[IdOf(u, k)].len > 0
  BY <1>1 DEF SizedInv
<1> QED
  BY <1>2, <1>3, <1>4 DEF SizedInv, Asks

\* A new buffer has no memory yet; nobody has sized it.
LEMMA SizedFind ==
    ASSUME IInv, SizedInv, NEW t \in Tasks, FindBuffer(t) PROVE SizedInv'
<1> USE DEF FindBuffer, handleVars, taskVars
<1>1. Types /\ TodoOk(t) /\ OpenInv /\ todo[t] # <<>> /\ tpc[t] = "open"
  BY DEF IInv, TasksOk
<1>2. PICK id \in BufIds : AddBuffer(id)
  <2>1. 1 \in 1 .. Len(todo[t]) /\ Head(todo[t]) = todo[t][1] /\ Past(t) + 1 \in 1 .. N(t)
    BY <1>1, HeadOf
  <2>2. Head(todo[t]) = Slot(t, Past(t) + 1)
    BY <2>1, <1>1 DEF TodoOk, Opening, Resizing
  <2> QED
    BY <2>1, <2>2, Config
<1>3. \/ ring' = ring
      \/ ring' = [ring EXCEPT ![id] = NoRing] /\ On(id) = {}
  <2>1. ref[id] \in Nat /\ (ref[id] = 0 => On(id) = {})
    BY Counts
  <2>2. CASE ref[id] > 0
    BY <2>2, <1>2 DEF AddBuffer
  <2>3. CASE ~(ref[id] > 0)
    BY <2>1, <2>3, <1>2 DEF AddBuffer
  <2> QED
    BY <2>2, <2>3
<1>4. tpc' = [tpc EXCEPT ![t] = "attach"] /\ todo' = todo
  OBVIOUS
<1> HIDE DEF FindBuffer
<1>5. \A u \in Tasks : /\ Past(u)' = Past(u)
                       /\ tpc'[u] \in Resizing => tpc[u] \in Resizing
                       /\ \A k \in 1 .. N(u) : Sized(u, k)' <=> Sized(u, k)
  BY <1>1, <1>4 DEF Past, Sized, Opening, Resizing, Types
<1>6. \A x \in BufIds : RingOk(x)'
  BY <1>1, <1>3 DEF SizedInv, RingOk, Types
<1>7. ASSUME NEW u \in Tasks, NEW k \in 1 .. N(u), Asks(u, k), Sized(u, k)'
      PROVE  ring'[IdOf(u, k)].len > 0
  <2>1. ring[IdOf(u, k)].len > 0 /\ Sized(u, k)
    BY <1>5, <1>7 DEF SizedInv
  <2>2. IsOpen(u, k)
    BY <2>1 DEF Sized, IsOpen
  <2>3. H(u, k) \in attached /\ buf_[H(u, k)] = Cur(IdOf(u, k)) /\ IdOf(u, k) \in BufIds
    BY <2>2, <1>1, Config DEF OpenInv
  <2>4. CASE ring' = ring
    BY <2>1, <2>4
  <2>5. CASE ring' = [ring EXCEPT ![id] = NoRing] /\ On(id) = {}
    <3>1. IdOf(u, k) # id
      BY <2>3, <2>5 DEF On
    <3> QED
      BY <2>1, <2>3, <2>5, <3>1, <1>1 DEF Types
  <2> QED
    BY <2>4, <2>5, <1>3
<1> QED
  BY <1>5, <1>6, <1>7 DEF SizedInv, Asks

\* resize() allocates only what has no memory, and what it allocates is the size
\* everybody asks for.
LEMMA SizedResize ==
    ASSUME SameSize, IInv, SizedInv, NEW t \in Tasks, Resize(t) PROVE SizedInv'
<1> USE DEF Resize, handleVars, taskVars
<1>1. Types /\ tpc[t] = "resize" /\ todo' = todo /\ tpc' = [tpc EXCEPT ![t] = "open"]
  BY DEF IInv
<1>2. PICK k \in 1 .. N(t) : k = Past(t)
  BY <1>1, SizingOf DEF Resizing
<1>3. Asks(t, k)
  BY <1>1, <1>2 DEF SizedInv, Resizing
<1>4. PICK id \in BufIds : id = IdOf(t, k) /\ Sizing(t).id = id
  <2>1. ~(k <= R(t))
    BY <1>1, <1>3, Sizes DEF Asks
  <2>2. Sizing(t).id = WritesTo[t][k - R(t)] /\ Sizing(t).id \in BufIds
    BY <1>1, <1>2, SizingOf DEF Resizing
  <2> QED
    BY <2>1, <2>2 DEF IdOf
<1>5. PICK size \in Nat : size = Size(t, k) /\ Sizing(t).size = size /\ size > 0
  BY <1>1, <1>2, <1>3, SizingOf DEF Size, Asks, Resizing
<1>6. RingOk(id) /\ ring[id] \in [len : Nat, news : Nat]
  BY <1>1 DEF SizedInv, Types
<1>7. \/ ring' = ring /\ ring[id].len = size
      \/ ring' = [ring EXCEPT ![id] = [len |-> size, news |-> 1]]
  <2>1. CASE ring[id].len = size
    BY <2>1, <1>4, <1>5
  <2>2. CASE ring[id].len # size
    <3>1. ring[id] = NoRing
      BY <2>2, <1>3, <1>4, <1>5, <1>6 DEF RingOk
    <3>2. ring' = [ring EXCEPT ![id] = [len |-> size, news |-> @.news + 1]]
      BY <2>2, <1>4, <1>5
    <3> QED
      BY <3>1, <3>2 DEF NoRing
  <2> QED
    BY <2>1, <2>2
<1> HIDE DEF Resize
<1>8. ring'[id].len = size /\ \A x \in BufIds : x # id => ring'[x] = ring[x]
  BY <1>1, <1>7 DEF Types
<1>9. ASSUME NEW x \in BufIds PROVE RingOk(x)'
  <2>1. CASE x # id
    BY <2>1, <1>8 DEF SizedInv, RingOk
  <2>2. CASE x = id /\ ring' = ring
    BY <2>2 DEF SizedInv, RingOk
  <2>3. CASE x = id /\ ring' = [ring EXCEPT ![id] = [len |-> size, news |-> 1]]
    <3>1. ring'[x] = [len |-> size, news |-> 1]
      BY <2>3, <1>1 DEF Types
    <3>2. \A u \in Tasks : \A j \in 1 .. N(u) : Asks(u, j) /\ IdOf(u, j) = x => Size(u, j) = size
      BY <2>3, <1>3, <1>4, <1>5 DEF SameSize
    <3> QED
      BY <3>1, <3>2, <1>5 DEF RingOk
  <2> QED
    BY <2>1, <2>2, <2>3, <1>7
<1>10. \A u \in Tasks : /\ Past(u)' = Past(u)
                        /\ tpc'[u] \in Resizing => tpc[u] \in Resizing
  BY <1>1 DEF Past, Types, Resizing
<1>11. ASSUME NEW u \in Tasks, NEW j \in 1 .. N(u), Asks(u, j), Sized(u, j)'
       PROVE  ring'[IdOf(u, j)].len > 0
  <2>1. IdOf(u, j) \in BufIds
    BY Config
  <2>2. CASE IdOf(u, j) = id
    BY <2>2, <1>5, <1>8
  <2>3. CASE IdOf(u, j) # id
    <3>1. u # t \/ j # k
      BY <2>3, <1>4
    <3>2. Sized(u, j)
      BY <3>1, <1>1, <1>2, <1>10, <1>11 DEF Sized, Opening, Resizing, Types
    <3> QED
      BY <2>1, <2>3, <3>2, <1>8, <1>11 DEF SizedInv
  <2> QED
    BY <2>2, <2>3
<1> QED
  BY <1>9, <1>10, <1>11 DEF SizedInv, Asks

\* A writer with a size is sized next.
LEMMA SizedAttach ==
    ASSUME IInv, SizedInv, NEW t \in Tasks, Attach(t) PROVE SizedInv'
<1> USE DEF Attach, managerVars
<1>1. /\ Types /\ TodoOk(t) /\ tpc[t] = "attach" /\ todo[t] # <<>>
  BY EmptySeq, Sizes DEF IInv, TasksOk, TodoOk, Resizing
<1>2. PICK k \in 1 .. N(t) : k = Past(t) + 1 /\ Head(todo[t]) = Slot(t, k)
  <2>1. 1 \in 1 .. Len(todo[t]) /\ Head(todo[t]) = todo[t][1] /\ Past(t) + 1 \in 1 .. N(t)
    BY <1>1, HeadOf
  <2> QED
    BY <2>1, <1>1 DEF TodoOk, Opening, Resizing
<1>3. Slot(t, k)[1] = "writer" /\ BufSize[t][Slot(t, k)[2]] > 0 <=> Asks(t, k)
  BY <1>1, <1>2, Sizes DEF Slot, Asks
<1>4. /\ ring' = ring /\ todo' = [todo EXCEPT ![t] = Tail(@)]
      /\ tpc' = [tpc EXCEPT ![t] = IF Asks(t, k) THEN "look" ELSE "open"]
  BY <1>2, <1>3
<1> HIDE DEF Attach
<1>5. /\ \A u \in Tasks \ {t} : tpc'[u] = tpc[u] /\ todo'[u] = todo[u]
      /\ tpc'[t] = IF Asks(t, k) THEN "look" ELSE "open"
  BY <1>1, <1>4 DEF Types
<1>6. Past(t)' = k
  <2>1. todo'[t] = Tail(todo[t])
    BY <1>1, <1>4 DEF Types
  <2>2. Len(todo'[t]) = Len(todo[t]) - 1
    BY <2>1, <1>1, HeadOf
  <2> QED
    BY <2>2, <1>1, <1>2, Sizes DEF Past
<1>7. \A j \in 1 .. N(t) : Asks(t, j) /\ Sized(t, j)' => Sized(t, j)
  BY <1>1, <1>2, <1>5, <1>6, Sizes DEF Sized, Opening, Resizing
<1> QED
  BY <1>4, <1>5, <1>6, <1>7, SizedQuiet DEF Resizing

LEMMA SizedNext ==
    ASSUME MaxStarts <= 1, SameSize, IInv, SizedInv, [Next]_vars PROVE SizedInv'
<1>1. CASE UNCHANGED vars
  <2>1. ring' = ring /\ tpc' = tpc /\ todo' = todo
    BY <1>1 DEF vars, managerVars
  <2> QED
    BY <2>1 DEF SizedInv, RingOk, Asks, Sized, Past
<1>2. ASSUME NEW t \in Tasks, TaskStep(t) PROVE SizedInv'
  <2>1. Types /\ TodoOk(t)
    BY DEF IInv, TasksOk
  <2>2. CASE Start(t)
    <3>1. /\ ring' = ring /\ \A u \in Tasks \ {t} : tpc'[u] = tpc[u] /\ todo'[u] = todo[u]
          /\ tpc'[t] = "open" /\ todo'[t] = Configured(t)
      BY <2>1, <2>2 DEF Start, managerVars, Types
    <3>2. Past(t)' = 0
      BY <3>1, Config DEF Past
    <3>3. \A k \in 1 .. N(t) : ~Sized(t, k)'
      BY <3>1, <3>2, Config DEF Sized
    <3> QED
      BY <3>1, <3>3, SizedQuiet DEF Resizing
  <2>3. CASE Look(t)
    <3>1. /\ ring' = ring /\ todo' = todo /\ tpc[t] = "look"
          /\ \A u \in Tasks \ {t} : tpc'[u] = tpc[u]
          /\ tpc'[t] = IF ring[Sizing(t).id].len > 0 THEN "open" ELSE "check"
      BY <2>1, <2>3 DEF Look, managerVars, Types
    <3>2. Past(t)' = Past(t) /\ Asks(t, Past(t))
      BY <3>1 DEF SizedInv, Past, Resizing
    <3>3. Sizing(t).id = IdOf(t, Past(t))
      <4>1. ~(Past(t) <= R(t))
        BY <2>1, <3>2, Sizes DEF Asks
      <4> QED
        BY <4>1, <3>1, SizingOf DEF IdOf, Resizing
    <3>4. \A k \in 1 .. N(t) : Sized(t, k)' => Sized(t, k) \/ ring[IdOf(t, k)].len > 0
      BY <3>1, <3>2, <3>3 DEF Sized, Opening, Resizing
    <3> QED
      BY <3>1, <3>2, <3>4, SizedQuiet DEF Resizing
  <2>9. CASE CheckStart(t)
    <3>1. /\ ring' = ring /\ todo' = todo /\ tpc[t] = "check"
          /\ \A u \in Tasks \ {t} : tpc'[u] = tpc[u]
          /\ tpc'[t] \in {"resize", "aborted"}
      BY <2>1, <2>9 DEF CheckStart, managerVars, Types
    <3>2. Past(t)' = Past(t) /\ Asks(t, Past(t))
      BY <3>1 DEF SizedInv, Past, Resizing
    <3>3. \A k \in 1 .. N(t) : Sized(t, k)' => Sized(t, k)
      BY <3>1, <3>2 DEF Sized, Opening, Resizing
    <3> QED
      BY <3>1, <3>2, <3>3, SizedQuiet DEF Resizing
  <2>4. CASE Opened(t) \/ Stop(t)
    <3>1. /\ ring' = ring /\ \A u \in Tasks \ {t} : tpc'[u] = tpc[u] /\ todo'[u] = todo[u]
          /\ tpc'[t] \in {"running", "close"}
          /\ tpc[t] = "running" \/ (tpc[t] = "open" /\ todo[t] = <<>>)
      BY <2>1, <2>4 DEF Opened, Stop, managerVars, Types
    <3>2. \A k \in 1 .. N(t) : Sized(t, k)
      BY <3>1, <2>1, AllListed, Sizes DEF Sized, Opening, Resizing
    <3> QED
      BY <3>1, <3>2, SizedQuiet DEF Resizing
  <2>5. CASE Detach(t) \/ Unref(t) \/ Closed(t)
    <3>1. /\ ring' = ring /\ \A u \in Tasks \ {t} : tpc'[u] = tpc[u] /\ todo'[u] = todo[u]
          /\ tpc'[t] \in {"close", "unref", "idle"}
      BY <2>1, <2>5 DEF Detach, Unref, Closed, managerVars, Types
    <3>2. \A k \in 1 .. N(t) : ~Sized(t, k)'
      BY <3>1 DEF Sized, Opening, Resizing
    <3> QED
      BY <3>1, <3>2, SizedQuiet DEF Resizing
  <2>6. CASE FindBuffer(t)
    BY <2>6, SizedFind
  <2>7. CASE Attach(t)
    BY <2>7, SizedAttach
  <2>8. CASE Resize(t)
    BY <2>8, SizedResize
  <2> QED
    BY <1>2, <2>2, <2>3, <2>4, <2>5, <2>6, <2>7, <2>8, <2>9 DEF TaskStep
<1> QED
  BY <1>1, <1>2 DEF Next

\* Where each task starts once and nobody asks for another size, the memory of a
\* ring is allocated once, however many tasks resize it at the same time, and a
\* running task has a ring of the size it asked for. That the assertion of
\* buffer.cpp:102 holds is not said: the step of a task whose assertion fails is
\* CheckStart, after which the process ends or, without assertions, goes on.
THEOREM SizedOnce ==
    ASSUME MaxStarts <= 1, SameSize PROVE Spec => []RingSizedOnce
<1>1. Init => SizedInv
  BY DEF Init, SizedInv, RingOk, Sized, Opening, Resizing
<1>2. Spec => []SizedInv
  <2>1. IInv /\ SizedInv /\ [Next]_vars => SizedInv'
    BY SizedNext
  <2>2. Spec => []IInv
    BY Invariant
  <2> QED
    BY <1>1, <2>1, <2>2, PTL DEF Spec
<1>3. IInv /\ SizedInv => RingSizedOnce
  <2> SUFFICES ASSUME IInv, SizedInv PROVE RingSizedOnce
    OBVIOUS
  <2>1. \A id \in BufIds : ring[id].news <= 1
    BY DEF SizedInv, RingOk, NoRing
  <2>2. ASSUME NEW t \in Tasks, tpc[t] = "running",
               NEW i \in DOMAIN WritesTo[t], BufSize[t][i] > 0
        PROVE  ring[WritesTo[t][i]].len = BufSize[t][i]
    <3>1. i \in 1 .. Len(WritesTo[t]) /\ R(t) \in Nat /\ N(t) = R(t) + Len(WritesTo[t])
          /\ Len(WritesTo[t]) \in Nat
      <4>1. WritesTo[t] \in Seq(BufIds)
        BY IoAssumption
      <4> QED
        BY <4>1, LenProperties, Config, Sizes DEF IInv
    <3>2. PICK k \in 1 .. N(t) : k = R(t) + i
      BY <3>1
    <3>3. k - R(t) = i /\ ~(k <= R(t)) /\ k > R(t)
      BY <3>1, <3>2
    <3>4. Asks(t, k) /\ Size(t, k) = BufSize[t][i] /\ IdOf(t, k) = WritesTo[t][i]
      BY <2>2, <3>3 DEF Asks, Size, IdOf
    <3>5. WritesTo[t][i] \in BufIds
      BY <3>2, <3>4, Config
    <3>6. ring[WritesTo[t][i]].len > 0 /\ RingOk(WritesTo[t][i])
      BY <2>2, <3>2, <3>4, <3>5 DEF SizedInv, Sized
    <3> QED
      BY <3>2, <3>4, <3>6 DEF RingOk, NoRing
  <2> QED
    BY <2>1, <2>2 DEF RingSizedOnce
<1> QED
  BY <1>2, <1>3, Invariant, PTL
=============================================================================
