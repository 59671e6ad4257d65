----------------------------- MODULE CoreProofs -----------------------------
(* What the registry of applications promises for any applications, services *)
(* and imports, as long as every application comes up (AllComeUp): names     *)
(* are unique, callbacks come in the order of InstanceLife, and the shutdown *)
(* leaves nothing.                                                           *)
(*                                                                           *)
(* The calls in progress say how far each instance is: while an install is   *)
(* on the stack its instances are created one after the other (Building),    *)
(* during the shutdown one frame stands for the instances already deleted    *)
(* (Removing). A session can begin only by way of a frame that was pushed    *)
(* when its instance had been created (Sessions).                            *)
EXTENDS Core, SequenceTheorems, TLAPS

\* The runs of Core keep clear of the cases in which create is never called and
\* destroy is.
AllComeUp == WithApi = Apps /\ Compatible = Apps /\ InitFails = {}

-----------------------------------------------------------------------------
(* The stack                                                                 *)

BuildOps == {"init", "import", "create", "created"}
CallOps  == {"start", "setup", "stop", "exit"}
TakeOps  == {"release", "destroy", "delete"}
Ops      == BuildOps \cup CallOps \cup TakeOps \cup {"install", "uninstall"}

Frames == [op : Ops, app : Apps \cup {"core"}, idx : Nat, n : Nat]
Pos    == 1 .. Len(stack)

\* The instance a frame of CallOps is about, and the one a loop has come to.
Inst(f) == <<f.app, f.idx>>
Item(f) == <<f.app, f.n>>

FrameOK(f) ==
    /\ f.op # "uninstall" => f.app \in Apps
    /\ f.op \in CallOps => Inst(f) \in Instances
    /\ f.op \in {"import", "create", "release"} => f.n > 0
    /\ f.op \in {"created", "destroy", "delete"} => Item(f) \in Instances

Types ==
    /\ app_ \in Seq(Apps)
    /\ life \in [Instances -> {"none", "new", "created", "destroyed", "deleted"}]
    /\ inormal \in [Instances -> BOOLEAN] /\ running \in [Instances -> BOOLEAN]
    /\ ctx \in [Instances -> SUBSET Nat]
    /\ \A i \in Instances : ctx[i] \subseteq DOMAIN Subtasks[i]
    /\ stack \in Seq(Frames) /\ \A j \in Pos : FrameOK(stack[j])
    /\ next \in Int

\* Before and after the shutdown begins.
Phase ==
    /\ \A j \in Pos : IF next = -1 THEN stack[j].op \in TakeOps \cup {"stop", "exit", "uninstall"}
                                   ELSE stack[j].op \in BuildOps \cup CallOps \cup {"install"}
    /\ \A i \in Instances : next # -1 => life[i] \in {"none", "new", "created"}

-----------------------------------------------------------------------------
(* Installing                                                                *)

\* How many instances of its app a frame of BuildOps has created.
Made(f) == CASE f.op = "create" -> f.n - 1 [] f.op = "created" -> f.n [] OTHER -> 0

Registry ==
    /\ \A j, k \in 1 .. Len(app_) : app_[j] = app_[k] => j = k
    /\ \A i \in Instances : next # -1 \/ stack # <<>> =>
         (life[i] = "none" <=> \A k \in 1 .. Len(app_) : app_[k] # i[1])

Building ==
    /\ \A j \in Pos : stack[j].op \in BuildOps =>
         /\ \E k \in 1 .. Len(app_) : app_[k] = stack[j].app
         /\ \A i \in Instances : i[1] = stack[j].app =>
              life[i] = IF i[2] <= Made(stack[j]) THEN "created" ELSE "new"
    /\ \A j, k \in Pos : /\ stack[j].op \in BuildOps /\ stack[k].op \in BuildOps
                         /\ stack[j].app = stack[k].app
                         => j = k
    /\ \A i \in Instances : life[i] = "new" =>
         \E j \in Pos : stack[j].op \in BuildOps /\ stack[j].app = i[1]

-----------------------------------------------------------------------------
(* Starting and stopping                                                     *)

Sessions ==
    /\ \A i \in Instances : running[i] =>
         life[i] = "created" /\ inormal[i] /\ i[1] \in WithLoop
    /\ \A i \in Instances : next # -1 => \A k \in ctx[i] : life[Subtasks[i][k]] = "created"
    /\ \A j \in Pos : stack[j].op \in {"start", "setup"} => life[Inst(stack[j])] = "created"
    /\ \A j \in Pos : stack[j].op = "setup" =>
         inormal[Inst(stack[j])] /\ stack[j].app \in WithLoop

\* An instance whose create fails has no session yet when that is noticed.
Failing ==
    \A j \in Pos : stack[j].op = "created" /\ Item(stack[j]) \in CreateFails =>
        /\ j = 1 /\ ~running[Item(stack[j])]
        /\ \A k \in Pos : stack[k].op = "setup" => Inst(stack[k]) # Item(stack[j])

\* An instance about to be destroyed has been stopped, or is being stopped.
Stopping ==
    \A j \in Pos : stack[j].op = "destroy" =>
        \/ j = 1 /\ ~running[Item(stack[j])]
        \/ /\ j > 1 /\ stack[j - 1].op \in {"stop", "exit"}
           /\ Inst(stack[j - 1]) = Item(stack[j])

-----------------------------------------------------------------------------
(* The shutdown                                                              *)

\* What a frame of TakeOps says of the k-th instance of its app.
Removed(f, k) == IF k < f.n THEN "deleted" ELSE
                 IF k = f.n /\ f.op = "delete" THEN "destroyed" ELSE "created"

\* Of the apps in the list the first "left" are untouched, the next one is being
\* removed if there is a frame for it, and the others are gone.
Removing ==
    next = -1 =>
      IF stack = <<>> THEN app_ = <<>> /\ \A i \in Instances : life[i] \in {"none", "deleted"}
      ELSE LET last == Len(stack)
               left == stack[last].n
           IN  /\ stack[last].op = "uninstall" /\ left <= Len(app_)
               /\ \A j \in Pos : stack[j].op = "uninstall" => j = last
               /\ \A j \in Pos : stack[j].op \in TakeOps => j = last - 1
               /\ last > 1 => /\ left < Len(app_) /\ stack[last - 1].op \in TakeOps
                              /\ stack[last - 1].app = app_[left + 1]
               /\ \A i \in Instances, m \in 1 .. Len(app_) : app_[m] = i[1] =>
                    life[i] = IF m <= left THEN "created" ELSE
                              IF m = left + 1 /\ last > 1 THEN Removed(stack[last - 1], i[2])
                                                          ELSE "deleted"

IInv == /\ Types /\ Phase /\ Registry /\ Building /\ Sessions /\ Failing /\ Stopping
        /\ Removing

-----------------------------------------------------------------------------
(* What a step does to the stack: with d = -1 it pops the innermost frame,    *)
(* with d = 0 it changes it, with d = 1 it puts another one before it.        *)

Shape(d) ==
    /\ stack \in Seq(Frames) /\ stack' \in Seq(Frames)
    /\ Len(stack) \in Nat /\ Len(stack) > 0
    /\ Len(stack') = Len(stack) + d
    /\ \A j \in 2 .. Len(stack) : stack'[j + d] = stack[j]
    /\ \A j \in 2 + d .. Len(stack') : stack'[j] = stack[j - d]

\* Frame t does the same for the same as before, but op and n.
Turned(t, op, n) ==
    t.op = op /\ t.n = n /\ t.app = stack[1].app /\ t.idx = stack[1].idx

LEMMA OnReturn ==
    ASSUME stack \in Seq(Frames), stack # <<>>, Return
    PROVE  Shape(-1)
BY DEF Return, Shape

LEMMA TopFrame ==
    ASSUME stack \in Seq(Frames), stack # <<>>
    PROVE  Top = stack[1] /\ Top \in Frames /\ 1 \in Pos
BY DEF Top, Pos

LEMMA OnGoto ==
    ASSUME stack \in Seq(Frames), stack # <<>>,
           NEW op \in Ops, NEW n \in Nat, Goto(op, n)
    PROVE  Shape(0) /\ Turned(stack'[1], op, n)
<1> DEFINE t == [Top EXCEPT !.op = op, !.n = n]
<1>1. t \in Frames /\ t.op = op /\ t.n = n /\ t.app = stack[1].app /\ t.idx = stack[1].idx
  BY TopFrame DEF Frames
<1>2. stack' = <<t>> \o Tail(stack)
  BY DEF Goto, Becomes
<1> HIDE DEF t
<1>3. <<t>> \in Seq(Frames) /\ Tail(stack) \in Seq(Frames)
  BY <1>1
<1>4. Shape(0) /\ stack'[1] = t
  BY <1>2, <1>3 DEF Shape
<1> QED
  BY <1>1, <1>4 DEF Turned

LEMMA OnCall ==
    ASSUME stack \in Seq(Frames), stack # <<>>, NEW f \in Frames,
           NEW op \in Ops, NEW n \in Nat, Call(f, op, n)
    PROVE  Shape(1) /\ stack'[1] = f /\ Turned(stack'[2], op, n)
<1> DEFINE t == [Top EXCEPT !.op = op, !.n = n]
<1>1. t \in Frames /\ t.op = op /\ t.n = n /\ t.app = stack[1].app /\ t.idx = stack[1].idx
  BY TopFrame DEF Frames
<1>2. stack' = <<f>> \o (<<t>> \o Tail(stack))
  BY DEF Call, Becomes
<1> HIDE DEF t
<1>3. <<f>> \in Seq(Frames) /\ <<t>> \in Seq(Frames) /\ Tail(stack) \in Seq(Frames)
  BY <1>1
<1>4. Shape(1) /\ stack'[1] = f /\ stack'[2] = t
  BY <1>2, <1>3 DEF Shape
<1> QED
  BY <1>1, <1>4 DEF Turned

\* An instance is a pair of an app and a number.
LEMMA Pairs ==
    /\ \A i \in Instances : i = <<i[1], i[2]>> /\ i[1] \in Apps /\ i[2] \in 1 .. Count[i[1]]
    /\ \A a \in Apps : \A k \in 1 .. Count[a] : <<a, k>> \in Instances
BY CoreAssumption DEF Instances

LEMMA Innermost ==
    ASSUME IInv, NEW op, TopIs(op)
    PROVE  /\ stack \in Seq(Frames) /\ stack # <<>> /\ Top = stack[1] /\ 1 \in Pos
           /\ stack[1] \in Frames /\ FrameOK(stack[1]) /\ stack[1].op = op
BY TopFrame DEF IInv, Types, TopIs

\* Where the frames below the innermost one go to, and come from.
LEMMA Places ==
    ASSUME NEW d \in {-1, 0, 1}, Shape(d)
    PROVE  /\ \A j \in Pos : j = 1 \/ (j + d \in Pos' /\ stack'[j + d] = stack[j])
           /\ \A j \in Pos' : j \in 1 .. 1 + d
                 \/ (j > 1 + d /\ j - d \in Pos \ {1} /\ stack'[j] = stack[j - d])
<1>1. \A j \in Pos : j = 1 \/ (j + d \in Pos' /\ stack'[j + d] = stack[j])
  BY DEF Shape, Pos
<1>2. ASSUME NEW j \in Pos', j \notin 1 .. 1 + d
      PROVE  j > 1 + d /\ j - d \in Pos \ {1} /\ stack'[j] = stack[j - d]
  <2>1. j \in 1 .. Len(stack') /\ Len(stack') = Len(stack) + d /\ Len(stack) \in Nat
    BY DEF Shape, Pos
  <2>2. j \in 2 + d .. Len(stack')
    BY <1>2, <2>1
  <2> QED
    BY <2>1, <2>2 DEF Shape, Pos
<1> QED
  BY <1>1, <1>2

-----------------------------------------------------------------------------
(* Starting and stopping: what concerns neither installing nor removing      *)

LEMMA CallsKeep ==
    ASSUME IInv, NEW d \in {-1, 0, 1}, Shape(d), stack[1].op \in CallOps \cup {"install"},
           \A j \in 1 .. 1 + d :
               /\ FrameOK(stack'[j]) /\ stack'[j].op \in CallOps
               /\ next = -1 => stack'[j].op \in {"stop", "exit"},
           UNCHANGED <<app_, life, inormal, ctx, next>>, running' \in [Instances -> BOOLEAN]
    PROVE  Types' /\ Phase' /\ Registry' /\ Building' /\ Removing'
<1>1. Types'
  <2>1. \A j \in Pos' : FrameOK(stack'[j])
    BY Places DEF IInv, Types
  <2> QED
    BY <2>1 DEF IInv, Types, FrameOK, Shape, Inst, Item
<1>2. Phase'
  <2>1. \A j \in Pos' : IF next = -1 THEN stack'[j].op \in TakeOps \cup {"stop", "exit", "uninstall"}
                                   ELSE stack'[j].op \in BuildOps \cup CallOps \cup {"install"}
    BY Places DEF IInv, Phase
  <2> QED
    BY <2>1 DEF IInv, Phase
<1>3. Registry'
  BY DEF IInv, Registry, Shape
<1>4. Building'
  <2>1. \A j \in Pos' : stack'[j].op \in BuildOps => j - d \in Pos /\ stack'[j] = stack[j - d]
    BY Places DEF BuildOps, CallOps
  <2>2. \A j \in Pos : stack[j].op \in BuildOps => j + d \in Pos' /\ stack'[j + d] = stack[j]
    BY Places DEF BuildOps, CallOps
  <2>3. \A j \in Pos' : stack'[j].op \in BuildOps =>
         /\ \E k \in 1 .. Len(app_) : app_[k] = stack'[j].app
         /\ \A i \in Instances : i[1] = stack'[j].app =>
              life[i] = IF i[2] <= Made(stack'[j]) THEN "created" ELSE "new"
    BY <2>1 DEF IInv, Building
  <2>4. \A j, k \in Pos' : /\ stack'[j].op \in BuildOps /\ stack'[k].op \in BuildOps
                           /\ stack'[j].app = stack'[k].app
                           => j = k
    <3> SUFFICES ASSUME NEW j \in Pos', NEW k \in Pos',
                        stack'[j].op \in BuildOps, stack'[k].op \in BuildOps,
                        stack'[j].app = stack'[k].app
                 PROVE  j = k
      OBVIOUS
    <3>1. j - d = k - d
      BY <2>1 DEF IInv, Building
    <3> QED
      BY <3>1 DEF Pos
  <2>5. \A i \in Instances : life[i] = "new" =>
         \E j \in Pos' : stack'[j].op \in BuildOps /\ stack'[j].app = i[1]
    BY <2>2 DEF IInv, Building
  <2> QED
    BY <2>3, <2>4, <2>5 DEF Building, Made
<1>5. Removing'
  <2>1. CASE next = -1
    <3>1. /\ Len(stack) \in Nat /\ Len(stack) > 0 /\ Len(stack') = Len(stack) + d /\ stack # <<>>
      BY DEF Shape
    <3>2. Len(stack) > 2 /\ Len(stack') > 1 /\ stack' # <<>>
      BY <2>1, <3>1 DEF IInv, Removing, CallOps, TakeOps
    <3>3. /\ stack'[Len(stack')] = stack[Len(stack)]
          /\ stack'[Len(stack') - 1] = stack[Len(stack) - 1]
      BY <3>1, <3>2 DEF Shape
    <3>4. \A j \in Pos' : stack'[j].op \in TakeOps \cup {"uninstall"} =>
             j - d \in Pos /\ stack'[j] = stack[j - d]
      BY Places DEF TakeOps, CallOps
    <3>5. /\ stack'[Len(stack')].op = "uninstall" /\ stack'[Len(stack')].n < Len(app_)
          /\ stack'[Len(stack') - 1].op \in TakeOps
          /\ stack'[Len(stack') - 1].app = app_[stack'[Len(stack')].n + 1]
      BY <2>1, <3>1, <3>2, <3>3 DEF IInv, Removing
    <3>6. \A j \in Pos' : /\ stack'[j].op = "uninstall" => j = Len(stack')
                          /\ stack'[j].op \in TakeOps => j = Len(stack') - 1
      <4>1. \A j \in Pos : /\ stack[j].op = "uninstall" => j = Len(stack)
                           /\ stack[j].op \in TakeOps => j = Len(stack) - 1
        BY <2>1, <3>1 DEF IInv, Removing
      <4> QED
        BY <3>1, <3>4, <4>1 DEF Pos
    <3>7. \A i \in Instances, m \in 1 .. Len(app_) : app_[m] = i[1] =>
             life[i] = IF m <= stack'[Len(stack')].n THEN "created" ELSE
                       IF m = stack'[Len(stack')].n + 1
                       THEN Removed(stack'[Len(stack') - 1], i[2]) ELSE "deleted"
      BY <2>1, <3>1, <3>2, <3>3 DEF IInv, Removing
    <3>8. stack'[Len(stack')].n <= Len(app_)
      BY <3>1, <3>2, <3>3, <2>1 DEF IInv, Removing
    <3> QED
      BY <2>1, <3>2, <3>5, <3>6, <3>7, <3>8 DEF Removing, Removed
  <2> QED
    BY <2>1 DEF Removing
<1> QED
  BY <1>1, <1>2, <1>3, <1>4, <1>5

LEMMA SessionsKeep ==
    ASSUME IInv, NEW d \in {-1, 0, 1}, Shape(d), UNCHANGED <<life, inormal, ctx, next>>,
           \A i \in Instances : running'[i] =>
               running[i] \/ (life[i] = "created" /\ inormal[i] /\ i[1] \in WithLoop),
           \A j \in 1 .. 1 + d :
               /\ stack'[j].op \in {"start", "setup"} => life[Inst(stack'[j])] = "created"
               /\ stack'[j].op = "setup" => inormal[Inst(stack'[j])] /\ stack'[j].app \in WithLoop
    PROVE  Sessions'
<1>1. \A i \in Instances : running'[i] => life[i] = "created" /\ inormal[i] /\ i[1] \in WithLoop
  BY DEF IInv, Sessions
<1>2. \A j \in Pos' :
         /\ stack'[j].op \in {"start", "setup"} => life[Inst(stack'[j])] = "created"
         /\ stack'[j].op = "setup" => inormal[Inst(stack'[j])] /\ stack'[j].app \in WithLoop
  BY Places DEF IInv, Sessions
<1> QED
  BY <1>1, <1>2 DEF IInv, Sessions, Inst

LEMMA FailingKeep ==
    ASSUME IInv, NEW d \in {-1, 0, 1}, Shape(d),
           \A j \in 1 .. 1 + d : ~(stack'[j].op = "created" /\ Item(stack'[j]) \in CreateFails)
    PROVE  Failing'
<1>1. \A j \in Pos' : ~(stack'[j].op = "created" /\ Item(stack'[j]) \in CreateFails)
  <2> SUFFICES ASSUME NEW j \in Pos', j \notin 1 .. 1 + d,
                      stack'[j].op = "created", Item(stack'[j]) \in CreateFails
               PROVE  FALSE
    OBVIOUS
  <2>1. j - d \in Pos \ {1} /\ stack'[j] = stack[j - d]
    BY Places
  <2>2. stack[j - d].op = "created" /\ Item(stack[j - d]) \in CreateFails
    BY <2>1
  <2> QED
    BY <2>1, <2>2 DEF IInv, Failing
<1> QED
  BY <1>1 DEF Failing, Item

\* Before the shutdown, and unless the innermost call is a stop, nothing is
\* about to be destroyed.
LEMMA StoppingKeep == ASSUME Phase', next' # -1 PROVE Stopping'
BY DEF Phase, Stopping, BuildOps, CallOps

LEMMA StopsKeep ==
    ASSUME IInv, NEW d \in {-1, 0, 1}, Shape(d), stack[1].op \in {"stop", "exit"},
           \A i \in Instances : running'[i] => running[i],
           \A j \in 1 .. 1 + d : stack'[j].op # "destroy",
           d = -1 => ~running'[Inst(stack[1])],
           d \in {0, 1} => /\ stack'[1 + d].op \in {"stop", "exit"}
                           /\ Inst(stack'[1 + d]) = Inst(stack[1])
    PROVE  Stopping'
<1> SUFFICES ASSUME NEW j \in Pos', stack'[j].op = "destroy"
             PROVE  \/ j = 1 /\ ~running'[Item(stack'[j])]
                    \/ /\ j > 1 /\ stack'[j - 1].op \in {"stop", "exit"}
                       /\ Inst(stack'[j - 1]) = Item(stack'[j])
  BY DEF Stopping, Inst, Item
<1>1. j > 1 + d /\ j - d \in Pos \ {1} /\ stack'[j] = stack[j - d]
  BY Places
<1>2. /\ j - d > 1 /\ stack[j - d - 1].op \in {"stop", "exit"}
      /\ Inst(stack[j - d - 1]) = Item(stack'[j])
  BY <1>1 DEF IInv, Stopping, Pos
<1>3. CASE j - d = 2
  <2>1. Inst(stack[1]) = Item(stack'[j]) /\ j = 2 + d
    <3>1. j \in Int
      BY DEF Pos
    <3>2. j - d - 1 = 1 /\ j = 2 + d
      BY <1>3, <3>1
    <3> QED
      BY <1>2, <3>2
  <2>2. CASE d = -1
    BY <2>1, <2>2
  <2>3. CASE d \in {0, 1}
    <3>1. j - 1 = 1 + d
      BY <2>1
    <3> QED
      BY <2>1, <2>3, <3>1
  <2> QED
    BY <2>2, <2>3
<1>4. CASE j - d > 2
  <2>1. j - d - 1 \in Pos /\ j - d - 1 # 1
    BY <1>1, <1>4 DEF Pos
  <2>2. stack'[j - 1] = stack[j - d - 1] /\ j - 1 \in Pos'
    <3>1. (j - d - 1) + d = j - 1
      BY DEF Pos
    <3>2. \A k \in Pos : k = 1 \/ (k + d \in Pos' /\ stack'[k + d] = stack[k])
      BY Places
    <3> QED
      BY <2>1, <3>1, <3>2
  <2> QED
    BY <1>1, <1>2, <1>4, <2>2 DEF Pos
<1> QED
  BY <1>1, <1>2, <1>3, <1>4 DEF Pos

LEMMA StartInv == ASSUME IInv, StartInstance PROVE IInv'
<1>1. /\ stack \in Seq(Frames) /\ stack # <<>> /\ Top = stack[1] /\ 1 \in Pos
      /\ stack[1] \in Frames /\ FrameOK(stack[1]) /\ stack[1].op = "start"
  BY Innermost DEF StartInstance
<1>2. next # -1 /\ UNCHANGED <<app_, normal_, life, inormal, running, ctx, next>>
  BY <1>1 DEF StartInstance, IInv, Phase, TakeOps
<1>3. running' \in [Instances -> BOOLEAN]
  BY <1>2 DEF IInv, Types
<1>4. CASE Return
  <2>1. Shape(-1)
    BY <1>1, <1>4, OnReturn
  <2>2. Types' /\ Phase' /\ Registry' /\ Building' /\ Removing'
    BY <1>1, <1>2, <1>3, <2>1, CallsKeep DEF CallOps
  <2>3. Sessions' /\ Failing' /\ Stopping'
    BY <1>2, <2>1, <2>2, SessionsKeep, FailingKeep, StoppingKeep
  <2> QED
    BY <2>2, <2>3 DEF IInv
<1>5. CASE /\ inormal[TopInst] /\ Top.app \in WithLoop
           /\ Goto("setup", 0)
  <2>1. Shape(0) /\ Turned(stack'[1], "setup", 0)
    BY <1>1, <1>5, OnGoto DEF Ops, CallOps
  <2>2. /\ FrameOK(stack'[1]) /\ stack'[1].op \in CallOps
        /\ Inst(stack'[1]) = Inst(stack[1])
    BY <1>1, <2>1 DEF Turned, FrameOK, CallOps, Inst
  <2>3. life[Inst(stack[1])] = "created"
    BY <1>1 DEF IInv, Sessions
  <2>4. inormal[Inst(stack[1])] /\ stack'[1].app \in WithLoop
    BY <1>1, <1>5, <2>1 DEF Turned, TopInst, Inst
  <2>5. Types' /\ Phase' /\ Registry' /\ Building' /\ Removing'
    BY <1>1, <1>2, <1>3, <2>1, <2>2, CallsKeep DEF CallOps
  <2>6. Sessions' /\ Failing' /\ Stopping'
    BY <1>2, <2>1, <2>2, <2>3, <2>4, <2>5, SessionsKeep, FailingKeep, StoppingKeep DEF Turned
  <2> QED
    BY <2>5, <2>6 DEF IInv
<1> QED
  BY <1>4, <1>5 DEF StartInstance

LEMMA SubtaskFrame ==
    ASSUME IInv, TopInst \in Instances, NEW k \in ctx[TopInst], NEW op \in Ops, k \in Nat,
           NEW request \in {"start", "stop"}, CallSubtask(request, op, k)
    PROVE  \E i \in Instances :
             /\ i = Subtasks[TopInst][k]
             /\ Call(Frame(request, i[1], i[2], 0), op, k)
             /\ Frame(request, i[1], i[2], 0) \in Frames
             /\ FrameOK(Frame(request, i[1], i[2], 0))
             /\ Frame(request, i[1], i[2], 0).op = request
             /\ Inst(Frame(request, i[1], i[2], 0)) = i
<1>1. PICK i \in Instances : i = Subtasks[TopInst][k]
  BY CoreAssumption DEF IInv, Types
<1>2. i = <<i[1], i[2]>> /\ i[1] \in Apps /\ i[2] \in Nat
  BY Pairs, CoreAssumption
<1>3. request \in Ops
  BY DEF Ops, CallOps
<1> QED
  BY <1>1, <1>2, <1>3 DEF CallSubtask, Frame, Frames, FrameOK, Inst, CallOps

LEMMA SetUpInv == ASSUME IInv, SetUp PROVE IInv'
<1>1. /\ stack \in Seq(Frames) /\ stack # <<>> /\ Top = stack[1] /\ 1 \in Pos
      /\ stack[1] \in Frames /\ FrameOK(stack[1]) /\ stack[1].op = "setup"
  BY Innermost DEF SetUp
<1>2. next # -1 /\ UNCHANGED <<app_, normal_, life, inormal, ctx, next>>
  BY <1>1 DEF SetUp, IInv, Phase, TakeOps
<1>3. /\ TopInst = Inst(stack[1]) /\ TopInst \in Instances /\ life[TopInst] = "created"
      /\ inormal[TopInst] /\ stack[1].app \in WithLoop
  BY <1>1 DEF IInv, Sessions, FrameOK, TopInst, Inst, CallOps
<1>4. ASSUME NEW k \in ctx[TopInst], CallSubtask("start", "setup", k), UNCHANGED running
      PROVE  IInv'
  <2>1. k \in Nat /\ "setup" \in Ops
    BY <1>3 DEF IInv, Types, Ops, CallOps
  <2>2. PICK i \in Instances :
             /\ i = Subtasks[TopInst][k]
             /\ Call(Frame("start", i[1], i[2], 0), "setup", k)
             /\ Frame("start", i[1], i[2], 0) \in Frames
             /\ FrameOK(Frame("start", i[1], i[2], 0))
             /\ Frame("start", i[1], i[2], 0).op = "start"
             /\ Inst(Frame("start", i[1], i[2], 0)) = i
    BY <1>3, <1>4, <2>1, SubtaskFrame
  <2>3. /\ Shape(1) /\ stack'[1] = Frame("start", i[1], i[2], 0)
        /\ Turned(stack'[2], "setup", k)
    BY <1>1, <2>1, <2>2, OnCall
  <2>4. /\ FrameOK(stack'[1]) /\ stack'[1].op = "start" /\ Inst(stack'[1]) = i
        /\ FrameOK(stack'[2]) /\ stack'[2].op = "setup" /\ Inst(stack'[2]) = TopInst
        /\ stack'[2].app \in WithLoop
    BY <1>1, <1>3, <2>2, <2>3 DEF Turned, FrameOK, Inst, CallOps
  <2>5. life[i] = "created"
    BY <1>2, <1>3, <2>2 DEF IInv, Sessions
  <2>6. running' \in [Instances -> BOOLEAN]
    BY <1>4 DEF IInv, Types
  <2>7. Types' /\ Phase' /\ Registry' /\ Building' /\ Removing'
    BY <1>1, <1>2, <2>3, <2>4, <2>6, CallsKeep DEF CallOps
  <2>8. Sessions' /\ Failing' /\ Stopping'
    BY <1>2, <1>3, <1>4, <2>3, <2>4, <2>5, <2>7, SessionsKeep, FailingKeep, StoppingKeep
  <2> QED
    BY <2>7, <2>8 DEF IInv
<1>5. ASSUME Return, running' = [running EXCEPT ![TopInst] = TRUE] \/ UNCHANGED running
      PROVE  IInv'
  <2>1. Shape(-1)
    BY <1>1, <1>5, OnReturn
  <2>2. /\ running' \in [Instances -> BOOLEAN]
        /\ \A i \in Instances : running'[i] => running[i] \/ i = TopInst
    BY <1>3, <1>5 DEF IInv, Types
  <2>3. \A i \in Instances : running'[i] =>
           running[i] \/ (life[i] = "created" /\ inormal[i] /\ i[1] \in WithLoop)
    BY <1>1, <1>3, <2>2 DEF Inst
  <2>4. Types' /\ Phase' /\ Registry' /\ Building' /\ Removing'
    BY <1>1, <1>2, <2>1, <2>2, CallsKeep DEF CallOps
  <2>5. Sessions' /\ Failing' /\ Stopping'
    BY <1>2, <2>1, <2>3, <2>4, SessionsKeep, FailingKeep, StoppingKeep
  <2> QED
    BY <2>4, <2>5 DEF IInv
<1> QED
  BY <1>4, <1>5 DEF SetUp

LEMMA StopInv == ASSUME IInv, StopInstance PROVE IInv'
<1>1. /\ stack \in Seq(Frames) /\ stack # <<>> /\ Top = stack[1] /\ 1 \in Pos
      /\ stack[1] \in Frames /\ FrameOK(stack[1]) /\ stack[1].op = "stop"
  BY Innermost DEF StopInstance
<1>2. UNCHANGED <<app_, normal_, life, inormal, running, ctx, next>>
  BY DEF StopInstance
<1>3. /\ running' \in [Instances -> BOOLEAN] /\ \A i \in Instances : running'[i] => running[i]
      /\ TopInst = Inst(stack[1]) /\ TopInst \in Instances
  BY <1>1, <1>2 DEF IInv, Types, FrameOK, CallOps, TopInst, Inst
<1>4. CASE Return /\ ~(inormal[TopInst] /\ Top.app \in WithLoop /\ running[TopInst])
  <2>1. Shape(-1)
    BY <1>1, <1>4, OnReturn
  <2>2. ~running[TopInst]
    BY <1>1, <1>3, <1>4 DEF IInv, Sessions, Inst
  <2>3. Types' /\ Phase' /\ Registry' /\ Building' /\ Removing'
    BY <1>1, <1>2, <1>3, <2>1, CallsKeep DEF CallOps
  <2>4. Sessions' /\ Failing' /\ Stopping'
    BY <1>1, <1>2, <1>3, <2>1, <2>2, SessionsKeep, FailingKeep, StopsKeep
  <2> QED
    BY <2>3, <2>4 DEF IInv
<1>5. CASE Goto("exit", Len(Subtasks[TopInst]) + 1)
  <2>1. Len(Subtasks[TopInst]) + 1 \in Nat /\ "exit" \in Ops
    BY <1>3, CoreAssumption DEF Ops, CallOps
  <2>2. Shape(0) /\ Turned(stack'[1], "exit", Len(Subtasks[TopInst]) + 1)
    BY <1>1, <1>5, <2>1, OnGoto
  <2>3. /\ FrameOK(stack'[1]) /\ stack'[1].op = "exit" /\ Inst(stack'[1]) = Inst(stack[1])
    BY <1>1, <2>2 DEF Turned, FrameOK, CallOps, Inst
  <2>4. Types' /\ Phase' /\ Registry' /\ Building' /\ Removing'
    BY <1>1, <1>2, <1>3, <2>2, <2>3, CallsKeep DEF CallOps
  <2>5. Sessions' /\ Failing' /\ Stopping'
    BY <1>1, <1>2, <1>3, <2>2, <2>3, SessionsKeep, FailingKeep, StopsKeep
  <2> QED
    BY <2>4, <2>5 DEF IInv
<1> QED
  BY <1>4, <1>5 DEF StopInstance

LEMMA ExitInv == ASSUME IInv, Exit PROVE IInv'
<1>1. /\ stack \in Seq(Frames) /\ stack # <<>> /\ Top = stack[1] /\ 1 \in Pos
      /\ stack[1] \in Frames /\ FrameOK(stack[1]) /\ stack[1].op = "exit"
  BY Innermost DEF Exit
<1>2. UNCHANGED <<app_, normal_, life, inormal, ctx, next>>
  BY DEF Exit
<1>3. TopInst = Inst(stack[1]) /\ TopInst \in Instances
  BY <1>1 DEF FrameOK, TopInst, Inst, CallOps
<1>4. ASSUME NEW k \in ctx[TopInst], CallSubtask("stop", "exit", k), UNCHANGED running
      PROVE  IInv'
  <2>1. k \in Nat /\ "exit" \in Ops
    BY <1>3 DEF IInv, Types, Ops, CallOps
  <2>2. PICK i \in Instances :
             /\ i = Subtasks[TopInst][k]
             /\ Call(Frame("stop", i[1], i[2], 0), "exit", k)
             /\ Frame("stop", i[1], i[2], 0) \in Frames
             /\ FrameOK(Frame("stop", i[1], i[2], 0))
             /\ Frame("stop", i[1], i[2], 0).op = "stop"
             /\ Inst(Frame("stop", i[1], i[2], 0)) = i
    BY <1>3, <1>4, <2>1, SubtaskFrame
  <2>3. /\ Shape(1) /\ stack'[1] = Frame("stop", i[1], i[2], 0)
        /\ Turned(stack'[2], "exit", k)
    BY <1>1, <2>1, <2>2, OnCall
  <2>4. /\ FrameOK(stack'[1]) /\ stack'[1].op = "stop"
        /\ FrameOK(stack'[2]) /\ stack'[2].op = "exit" /\ Inst(stack'[2]) = Inst(stack[1])
    BY <1>1, <2>2, <2>3 DEF Turned, FrameOK, Inst, CallOps
  <2>5. running' \in [Instances -> BOOLEAN] /\ \A j \in Instances : running'[j] => running[j]
    BY <1>4 DEF IInv, Types
  <2>6. Types' /\ Phase' /\ Registry' /\ Building' /\ Removing'
    BY <1>1, <1>2, <2>3, <2>4, <2>5, CallsKeep DEF CallOps
  <2>7. Sessions' /\ Failing' /\ Stopping'
    BY <1>1, <1>2, <2>3, <2>4, <2>5, SessionsKeep, FailingKeep, StopsKeep
  <2> QED
    BY <2>6, <2>7 DEF IInv
<1>5. ASSUME Return, running' = [running EXCEPT ![TopInst] = FALSE]
      PROVE  IInv'
  <2>1. Shape(-1)
    BY <1>1, <1>5, OnReturn
  <2>2. /\ running' \in [Instances -> BOOLEAN]
        /\ \A i \in Instances : running'[i] => running[i]
        /\ ~running'[Inst(stack[1])]
    BY <1>3, <1>5 DEF IInv, Types
  <2>3. Types' /\ Phase' /\ Registry' /\ Building' /\ Removing'
    BY <1>1, <1>2, <2>1, <2>2, CallsKeep DEF CallOps
  <2>4. Sessions' /\ Failing' /\ Stopping'
    BY <1>1, <1>2, <2>1, <2>2, SessionsKeep, FailingKeep, StopsKeep
  <2> QED
    BY <2>3, <2>4 DEF IInv
<1> QED
  BY <1>4, <1>5 DEF Exit

-----------------------------------------------------------------------------
(* Installing                                                                *)

\* The frames that install apps stay, and so do their apps.
LEMMA BuildPlaces ==
    ASSUME NEW d \in {0, 1}, Shape(d), stack[1].op \in BuildOps,
           stack'[1 + d].op \in BuildOps, stack'[1 + d].app = stack[1].app,
           d = 1 => stack'[1].op \notin BuildOps
    PROVE  /\ \A j \in Pos' : stack'[j].op \in BuildOps =>
                 /\ j - d \in Pos /\ stack[j - d].op \in BuildOps
                 /\ stack'[j].app = stack[j - d].app
                 /\ j # 1 + d => j - d # 1 /\ stack'[j] = stack[j - d]
           /\ \A j \in Pos : stack[j].op \in BuildOps =>
                 /\ j + d \in Pos' /\ stack'[j + d].op \in BuildOps
                 /\ stack'[j + d].app = stack[j].app
<1>1. 1 \in Pos /\ 1 + d \in Pos'
  BY DEF Shape, Pos
<1>2. ASSUME NEW j \in Pos', stack'[j].op \in BuildOps
      PROVE  /\ j - d \in Pos /\ stack[j - d].op \in BuildOps
             /\ stack'[j].app = stack[j - d].app
             /\ j # 1 + d => j - d # 1 /\ stack'[j] = stack[j - d]
  <2>1. CASE j = 1 + d
    BY <1>1, <2>1
  <2>2. CASE j # 1 + d
    <3>1. j \notin 1 .. 1 + d
      BY <1>2, <2>2
    <3>2. j - d \in Pos \ {1} /\ stack'[j] = stack[j - d]
      BY <3>1, Places
    <3> QED
      BY <1>2, <2>2, <3>2
  <2> QED
    BY <2>1, <2>2
<1>3. ASSUME NEW j \in Pos, stack[j].op \in BuildOps
      PROVE  /\ j + d \in Pos' /\ stack'[j + d].op \in BuildOps
             /\ stack'[j + d].app = stack[j].app
  BY <1>1, <1>3, Places
<1> QED
  BY <1>2, <1>3

\* A frame that comes next in the install of its app, maybe after a call.
BuildMoves(d) ==
    /\ Shape(d) /\ stack[1].op \in BuildOps
    /\ stack'[1 + d].op \in BuildOps /\ stack'[1 + d].app = stack[1].app
    /\ FrameOK(stack'[1 + d])
    /\ d = 1 => stack'[1].op \in {"install", "start"} /\ FrameOK(stack'[1])

LEMMA BuildKeep ==
    ASSUME IInv, NEW d \in {0, 1}, BuildMoves(d), next # -1, UNCHANGED <<app_, next>>
    PROVE  /\ stack' \in Seq(Frames) /\ \A j \in Pos' : FrameOK(stack'[j])
           /\ \A j \in Pos' : stack'[j].op \in BuildOps \cup CallOps \cup {"install"}
           /\ \A j \in Pos' : stack'[j].op \in BuildOps =>
                 \E k \in 1 .. Len(app_) : app_[k] = stack'[j].app
           /\ \A j, k \in Pos' : /\ stack'[j].op \in BuildOps /\ stack'[k].op \in BuildOps
                                 /\ stack'[j].app = stack'[k].app
                                 => j = k
           /\ \A i \in Instances : life[i] = "new" =>
                 \E j \in Pos' : stack'[j].op \in BuildOps /\ stack'[j].app = i[1]
           /\ Stopping' /\ Removing'
<1>1. Shape(d) /\ d \in {-1, 0, 1} /\ (d = 1 => stack'[1].op \notin BuildOps)
  BY DEF BuildMoves, BuildOps
<1>2. /\ \A j \in Pos' : stack'[j].op \in BuildOps =>
                 /\ j - d \in Pos /\ stack[j - d].op \in BuildOps
                 /\ stack'[j].app = stack[j - d].app
      /\ \A j \in Pos : stack[j].op \in BuildOps =>
                 /\ j + d \in Pos' /\ stack'[j + d].op \in BuildOps
                 /\ stack'[j + d].app = stack[j].app
  BY <1>1, BuildPlaces DEF BuildMoves
<1>3. \A j \in 1 .. 1 + d : /\ FrameOK(stack'[j])
                            /\ stack'[j].op \in BuildOps \cup CallOps \cup {"install"}
  BY DEF BuildMoves, CallOps
<1>4. \A j \in Pos' : /\ FrameOK(stack'[j])
                      /\ stack'[j].op \in BuildOps \cup CallOps \cup {"install"}
  <2> SUFFICES ASSUME NEW j \in Pos', j \notin 1 .. 1 + d
               PROVE  /\ FrameOK(stack'[j])
                      /\ stack'[j].op \in BuildOps \cup CallOps \cup {"install"}
    BY <1>3
  <2>1. j - d \in Pos /\ stack'[j] = stack[j - d]
    BY <1>1, Places
  <2> QED
    BY <2>1 DEF IInv, Types, Phase
<1>5. \A j \in Pos' : stack'[j].op \in BuildOps =>
                 \E k \in 1 .. Len(app_) : app_[k] = stack'[j].app
  BY <1>2 DEF IInv, Building
<1>6. ASSUME NEW j \in Pos', NEW k \in Pos', stack'[j].op \in BuildOps,
             stack'[k].op \in BuildOps, stack'[j].app = stack'[k].app
      PROVE  j = k
  <2>1. j - d = k - d
    BY <1>2, <1>6 DEF IInv, Building
  <2> QED
    BY <2>1 DEF Pos
<1>7. \A i \in Instances : life[i] = "new" =>
                 \E j \in Pos' : stack'[j].op \in BuildOps /\ stack'[j].app = i[1]
  BY <1>2 DEF IInv, Building
<1>8. Stopping' /\ Removing'
  BY <1>4 DEF Stopping, Removing, BuildOps, CallOps
<1> QED
  BY <1>1, <1>4, <1>5, <1>6, <1>7, <1>8 DEF Shape

\* While no instance changes.
LEMMA BuildQuiet ==
    ASSUME IInv, NEW d \in {0, 1}, BuildMoves(d), next # -1,
           UNCHANGED <<app_, life, running, ctx, next>>, inormal' \in [Instances -> BOOLEAN],
           Made(stack'[1 + d]) = Made(stack[1])
    PROVE  Types' /\ Phase' /\ Registry' /\ Building' /\ Stopping' /\ Removing'
<1>1. /\ stack' \in Seq(Frames) /\ \A j \in Pos' : FrameOK(stack'[j])
      /\ \A j \in Pos' : stack'[j].op \in BuildOps \cup CallOps \cup {"install"}
      /\ \A j \in Pos' : stack'[j].op \in BuildOps =>
            \E k \in 1 .. Len(app_) : app_[k] = stack'[j].app
      /\ \A j, k \in Pos' : /\ stack'[j].op \in BuildOps /\ stack'[k].op \in BuildOps
                            /\ stack'[j].app = stack'[k].app
                            => j = k
      /\ \A i \in Instances : life[i] = "new" =>
            \E j \in Pos' : stack'[j].op \in BuildOps /\ stack'[j].app = i[1]
      /\ Stopping' /\ Removing'
  BY BuildKeep
<1>2. Types'
  BY <1>1 DEF IInv, Types, FrameOK, Inst, Item
<1>3. Phase' /\ Registry'
  BY <1>1 DEF IInv, Phase, Registry
<1>4. \A j \in Pos' : stack'[j].op \in BuildOps =>
           \A i \in Instances : i[1] = stack'[j].app =>
              life[i] = IF i[2] <= Made(stack'[j]) THEN "created" ELSE "new"
  <2>1. \A j \in Pos' : stack'[j].op \in BuildOps =>
            /\ j - d \in Pos /\ stack[j - d].op \in BuildOps
            /\ stack'[j].app = stack[j - d].app
            /\ Made(stack'[j]) = Made(stack[j - d])
    <3>1. \A j \in Pos' : stack'[j].op \in BuildOps =>
                 /\ j - d \in Pos /\ stack[j - d].op \in BuildOps
                 /\ stack'[j].app = stack[j - d].app
                 /\ j # 1 + d => j - d # 1 /\ stack'[j] = stack[j - d]
      BY BuildPlaces DEF BuildMoves, BuildOps
    <3> QED
      BY <3>1
  <2> QED
    BY <2>1 DEF IInv, Building
<1>5. Building'
  BY <1>1, <1>4 DEF Building, Made
<1> QED
  BY <1>1, <1>2, <1>3, <1>5

LEMMA InitAppInv == ASSUME AllComeUp, IInv, InitApp PROVE IInv'
<1>1. /\ stack \in Seq(Frames) /\ stack # <<>> /\ Top = stack[1] /\ 1 \in Pos
      /\ stack[1] \in Frames /\ FrameOK(stack[1]) /\ stack[1].op = "init"
  BY Innermost DEF InitApp
<1>2. next # -1 /\ UNCHANGED <<app_, life, inormal, running, ctx, next>>
  BY <1>1 DEF InitApp, IInv, Phase, TakeOps
<1>3. Goto("import", 1)
  BY <1>1 DEF InitApp, AllComeUp, FrameOK
<1>4. Shape(0) /\ Turned(stack'[1], "import", 1)
  BY <1>1, <1>3, OnGoto DEF Ops, BuildOps
<1>5. BuildMoves(0) /\ Made(stack'[1]) = Made(stack[1])
  BY <1>1, <1>4 DEF BuildMoves, Turned, Made, FrameOK, BuildOps, CallOps
<1>6. inormal' \in [Instances -> BOOLEAN]
  BY <1>2 DEF IInv, Types
<1>7. Types' /\ Phase' /\ Registry' /\ Building' /\ Stopping' /\ Removing'
  BY <1>2, <1>5, <1>6, BuildQuiet
<1>8. Sessions' /\ Failing'
  BY <1>2, <1>4, SessionsKeep, FailingKeep DEF Turned
<1> QED
  BY <1>7, <1>8 DEF IInv

LEMMA ImportInv == ASSUME AllComeUp, IInv, Import PROVE IInv'
<1>1. /\ stack \in Seq(Frames) /\ stack # <<>> /\ Top = stack[1] /\ 1 \in Pos
      /\ stack[1] \in Frames /\ FrameOK(stack[1]) /\ stack[1].op = "import"
  BY Innermost DEF Import
<1>2. next # -1 /\ UNCHANGED <<app_, life, inormal, running, ctx, next>>
  BY <1>1 DEF Import, IInv, Phase, TakeOps
<1>3. inormal' \in [Instances -> BOOLEAN]
  BY <1>2 DEF IInv, Types
<1>4. stack[1].app \in Apps /\ stack[1].n \in Nat
  BY <1>1 DEF FrameOK, Frames
<1>5. CASE stack[1].n <= Len(Imports[stack[1].app])
           /\ Call(Frame("install", Imports[stack[1].app][stack[1].n], 0, 0), "import", stack[1].n + 1)
  <2> DEFINE a == Imports[stack[1].app][stack[1].n]
             f == Frame("install", a, 0, 0)
  <2>1. a \in Apps
    BY <1>1, <1>4, <1>5, CoreAssumption DEF FrameOK
  <2>2. f \in Frames /\ FrameOK(f) /\ f.op = "install"
    BY <2>1 DEF Frame, Frames, Ops, FrameOK, CallOps
  <2>3. "import" \in Ops /\ stack[1].n + 1 \in Nat
    BY <1>4 DEF Ops, BuildOps
  <2>4. Shape(1) /\ stack'[1] = f /\ Turned(stack'[2], "import", stack[1].n + 1)
    BY <1>1, <1>5, <2>2, <2>3, OnCall
  <2>5. BuildMoves(1) /\ Made(stack'[2]) = Made(stack[1])
    BY <1>1, <1>4, <2>2, <2>4 DEF BuildMoves, Turned, Made, FrameOK, BuildOps, CallOps
  <2>6. Types' /\ Phase' /\ Registry' /\ Building' /\ Stopping' /\ Removing'
    BY <1>2, <1>3, <2>5, BuildQuiet
  <2>7. Sessions' /\ Failing'
    BY <1>2, <2>2, <2>4, SessionsKeep, FailingKeep DEF Turned
  <2> QED
    BY <2>6, <2>7 DEF IInv
<1>6. CASE Goto("create", 1)
  <2>1. Shape(0) /\ Turned(stack'[1], "create", 1)
    BY <1>1, <1>6, OnGoto DEF Ops, BuildOps
  <2>2. BuildMoves(0) /\ Made(stack'[1]) = Made(stack[1])
    BY <1>1, <2>1 DEF BuildMoves, Turned, Made, FrameOK, BuildOps, CallOps
  <2>3. Types' /\ Phase' /\ Registry' /\ Building' /\ Stopping' /\ Removing'
    BY <1>2, <1>3, <2>2, BuildQuiet
  <2>4. Sessions' /\ Failing'
    BY <1>2, <2>1, SessionsKeep, FailingKeep DEF Turned
  <2> QED
    BY <2>3, <2>4 DEF IInv
<1> QED
  BY <1>1, <1>5, <1>6 DEF Import, AllComeUp

LEMMA InstanceCreatedInv == ASSUME IInv, InstanceCreated PROVE IInv'
<1> DEFINE i == <<stack[1].app, stack[1].n>>
<1>1. /\ stack \in Seq(Frames) /\ stack # <<>> /\ Top = stack[1] /\ 1 \in Pos
      /\ stack[1] \in Frames /\ FrameOK(stack[1]) /\ stack[1].op = "created"
  BY Innermost DEF InstanceCreated
<1>2. next # -1 /\ UNCHANGED <<app_, life, running, ctx, next>>
  BY <1>1 DEF InstanceCreated, IInv, Phase, TakeOps
<1>3. i \in Instances /\ i = Item(stack[1]) /\ stack[1].app \in Apps /\ stack[1].n \in Nat
  BY <1>1 DEF FrameOK, Item, Frames
<1>4. inormal' = [inormal EXCEPT ![i] = i \notin CreateFails] /\ Goto("create", stack[1].n + 1)
  BY <1>1 DEF InstanceCreated
<1>5. /\ inormal' \in [Instances -> BOOLEAN]
      /\ \A j \in Instances : inormal[j] => inormal'[j] \/ (j = i /\ i \in CreateFails)
  BY <1>3, <1>4 DEF IInv, Types
<1>6. Shape(0) /\ Turned(stack'[1], "create", stack[1].n + 1)
  BY <1>1, <1>3, <1>4, OnGoto DEF Ops, BuildOps
<1>7. BuildMoves(0) /\ Made(stack'[1]) = Made(stack[1])
  BY <1>1, <1>3, <1>6 DEF BuildMoves, Turned, Made, FrameOK, BuildOps, CallOps
<1>8. Types' /\ Phase' /\ Registry' /\ Building' /\ Stopping' /\ Removing'
  BY <1>2, <1>5, <1>7, BuildQuiet
<1>9. Failing'
  BY <1>6, FailingKeep DEF Turned
<1>10. Sessions'
  <2>1. i \in CreateFails => /\ ~running[i]
                             /\ \A k \in Pos : stack[k].op = "setup" => Inst(stack[k]) # i
    BY <1>1, <1>3 DEF IInv, Failing
  <2>2. \A j \in Instances : running[j] => life[j] = "created" /\ inormal'[j] /\ j[1] \in WithLoop
    BY <1>5, <2>1 DEF IInv, Sessions
  <2>3. ASSUME NEW j \in Pos', stack'[j].op \in {"start", "setup"}
        PROVE  /\ life[Inst(stack'[j])] = "created"
               /\ stack'[j].op = "setup" => inormal'[Inst(stack'[j])] /\ stack'[j].app \in WithLoop
    <3>1. j \in Pos /\ stack'[j] = stack[j]
      <4>1. j # 1 /\ j \in 2 .. Len(stack') /\ 0 \in {-1, 0, 1}
        BY <1>6, <2>3 DEF Turned, Pos, Shape
      <4> QED
        BY <1>6, <4>1 DEF Pos, Shape
    <3>2. Inst(stack[j]) \in Instances
      BY <2>3, <3>1 DEF IInv, Types, FrameOK, CallOps
    <3>3. stack[j].op = "setup" => inormal'[Inst(stack[j])]
      BY <1>5, <2>1, <3>1, <3>2 DEF IInv, Sessions
    <3> QED
      BY <2>3, <3>1, <3>3 DEF IInv, Sessions
  <2> QED
    BY <1>2, <2>2, <2>3 DEF IInv, Sessions, Inst
<1> QED
  BY <1>8, <1>9, <1>10 DEF IInv

LEMMA AllCreatedInv == ASSUME IInv, AllCreated PROVE IInv'
<1> DEFINE a == stack[1].app
<1>1. /\ stack \in Seq(Frames) /\ stack # <<>> /\ Top = stack[1] /\ 1 \in Pos
      /\ stack[1] \in Frames /\ FrameOK(stack[1]) /\ stack[1].op = "create"
  BY Innermost DEF AllCreated
<1>2. next # -1 /\ UNCHANGED <<app_, life, inormal, running, ctx, next>>
  BY <1>1 DEF AllCreated, IInv, Phase, TakeOps
<1>3. Shape(-1) /\ stack[1].n > Count[a] /\ a \in Apps /\ stack[1].n \in Nat
  BY <1>1, OnReturn DEF AllCreated, FrameOK, Frames
<1>4. /\ \A j \in Pos : j = 1 \/ (j - 1 \in Pos' /\ stack'[j - 1] = stack[j])
      /\ \A j \in Pos' : j + 1 \in Pos \ {1} /\ stack'[j] = stack[j + 1]
  BY <1>3 DEF Shape, Pos
<1>5. Types' /\ Phase' /\ Registry'
  <2>1. stack' \in Seq(Frames) /\ \A j \in Pos' : FrameOK(stack'[j])
    BY <1>3, <1>4 DEF IInv, Types, Shape
  <2>2. Types'
    BY <1>2, <2>1 DEF IInv, Types, FrameOK, Inst, Item
  <2>3. Phase'
    BY <1>2, <1>4 DEF IInv, Phase
  <2>4. Registry'
    BY <1>2 DEF IInv, Registry
  <2> QED
    BY <2>2, <2>3, <2>4
<1>6. Sessions' /\ Failing'
  BY <1>2, <1>3, SessionsKeep, FailingKeep
<1>7. Stopping' /\ Removing'
  BY <1>2, <1>5, StoppingKeep DEF Removing
<1>8. Building'
  <2>1. \A i \in Instances : i[1] = a => life[i] = "created"
    <3>1. \A i \in Instances : i[1] = a => i[2] <= stack[1].n - 1
      BY <1>3, Pairs, CoreAssumption
    <3> QED
      BY <1>1, <3>1 DEF IInv, Building, Made, BuildOps
  <2>2. \A j \in Pos' : stack'[j].op \in BuildOps =>
         /\ \E k \in 1 .. Len(app_) : app_[k] = stack'[j].app
         /\ \A i \in Instances : i[1] = stack'[j].app =>
              life[i] = IF i[2] <= Made(stack'[j]) THEN "created" ELSE "new"
    BY <1>4 DEF IInv, Building
  <2>3. ASSUME NEW j \in Pos', NEW k \in Pos', stack'[j].op \in BuildOps,
               stack'[k].op \in BuildOps, stack'[j].app = stack'[k].app
        PROVE  j = k
    <3>1. j + 1 = k + 1
      BY <1>4, <2>3 DEF IInv, Building
    <3> QED
      BY <3>1 DEF Pos
  <2>4. \A i \in Instances : life[i] = "new" =>
         \E j \in Pos' : stack'[j].op \in BuildOps /\ stack'[j].app = i[1]
    BY <1>4, <2>1 DEF IInv, Building
  <2> QED
    BY <1>2, <2>2, <2>3, <2>4 DEF Building, Made
<1> QED
  BY <1>5, <1>6, <1>7, <1>8 DEF IInv

LEMMA CreateInstanceInv == ASSUME IInv, CreateInstance PROVE IInv'
<1> DEFINE a == stack[1].app
           n == stack[1].n
           i == <<a, n>>
           f == Frame("start", i[1], i[2], 0)
<1>1. /\ stack \in Seq(Frames) /\ stack # <<>> /\ Top = stack[1] /\ 1 \in Pos
      /\ stack[1] \in Frames /\ FrameOK(stack[1]) /\ stack[1].op = "create"
  BY Innermost DEF CreateInstance
<1>2. next # -1 /\ UNCHANGED <<app_, normal_, inormal, running, next>>
  BY <1>1 DEF CreateInstance, IInv, Phase, TakeOps
<1>3. a \in Apps /\ n \in Nat /\ n > 0 /\ n <= Count[a] /\ Count[a] \in Nat
  BY <1>1, CoreAssumption DEF CreateInstance, FrameOK, Frames
<1>4. i \in Instances /\ i[1] = a /\ i[2] = n
  BY <1>3, Pairs
<1>5. life' = [life EXCEPT ![i] = "created"]
  BY <1>1 DEF CreateInstance
<1>6. ctx' = [ctx EXCEPT ![i] = IF a \in Services THEN Resolve(i) ELSE {}]
  BY <1>1 DEF CreateInstance
<1>7. IF i \in AutoStart THEN Call(f, "created", n) ELSE Goto("created", n)
  BY <1>1 DEF CreateInstance
<1>8. /\ f \in Frames /\ FrameOK(f) /\ f.op = "start" /\ Inst(f) = i
      /\ "created" \in Ops
  BY <1>3, <1>4 DEF Frame, Frames, Ops, FrameOK, CallOps, BuildOps, Inst
<1>9. life[i] = "new"
  BY <1>1, <1>3, <1>4 DEF IInv, Building, Made, BuildOps
<1>10. /\ \A j \in Instances : life'[j] = IF j = i THEN "created" ELSE life[j]
       /\ \A j \in Instances : life'[j] # "none" <=> life[j] # "none"
       /\ \A j \in Instances : life[j] = "created" => life'[j] = "created"
  BY <1>4, <1>5, <1>9 DEF IInv, Types
<1>11. ctx' \in [Instances -> SUBSET Nat] /\ \A j \in Instances : ctx'[j] \subseteq DOMAIN Subtasks[j]
  <2>1. Resolve(i) \subseteq DOMAIN Subtasks[i]
    BY DEF Resolve
  <2>2. Subtasks[i] \in Seq(Instances)
    BY <1>4, CoreAssumption
  <2>3. DOMAIN Subtasks[i] \subseteq Nat
    BY <2>2
  <2> QED
    BY <1>4, <1>6, <2>1, <2>3 DEF IInv, Types
<1>12. \A j \in Instances : \A k \in ctx'[j] : life'[Subtasks[j][k]] = "created"
  <2>1. \A j \in Instances : \A k \in DOMAIN Subtasks[j] : Subtasks[j][k] \in Instances
    BY CoreAssumption
  <2>2. \A k \in Resolve(i) : life'[Subtasks[i][k]] = "created"
    BY <1>4, <1>10, <2>1 DEF Resolve
  <2>3. \A j \in Instances : \A k \in ctx[j] : life[Subtasks[j][k]] = "created"
    BY <1>2 DEF IInv, Sessions
  <2>4. \A j \in Instances : \A k \in ctx[j] : life'[Subtasks[j][k]] = "created"
    BY <1>10, <2>1, <2>3 DEF IInv, Types
  <2> QED
    BY <1>4, <1>6, <2>2, <2>4 DEF IInv, Types
<1>13. PICK d \in {0, 1} : /\ Shape(d) /\ Turned(stack'[1 + d], "created", n)
                           /\ d = 1 => stack'[1] = f /\ i \in AutoStart
  <2>1. CASE i \in AutoStart
    <3>1. Shape(1) /\ stack'[1] = f /\ Turned(stack'[2], "created", n)
      BY <1>1, <1>3, <1>7, <1>8, <2>1, OnCall
    <3> QED
      BY <2>1, <3>1
  <2>2. CASE i \notin AutoStart
    <3>1. Shape(0) /\ Turned(stack'[1], "created", n)
      BY <1>1, <1>3, <1>7, <1>8, <2>2, OnGoto
    <3> QED
      BY <3>1
  <2> QED
    BY <2>1, <2>2
<1> HIDE DEF i, f
<1>a. /\ stack'[1 + d].op = "created" /\ stack'[1 + d].app = a /\ stack'[1 + d].n = n
      /\ d \in {-1, 0, 1} /\ Shape(d) /\ (d = 1 => stack'[1] = f /\ i \in AutoStart)
  BY <1>13 DEF Turned
<1>b. Item(stack'[1 + d]) = i /\ Made(stack'[1 + d]) = n
  BY <1>a DEF Item, Made, i
<1>c. FrameOK(stack'[1 + d])
  BY <1>3, <1>4, <1>a, <1>b DEF FrameOK, CallOps
<1>14. BuildMoves(d)
  BY <1>1, <1>8, <1>a, <1>c DEF BuildMoves, BuildOps
<1>15. /\ stack' \in Seq(Frames) /\ \A j \in Pos' : FrameOK(stack'[j])
       /\ \A j \in Pos' : stack'[j].op \in BuildOps \cup CallOps \cup {"install"}
       /\ \A j \in Pos' : stack'[j].op \in BuildOps =>
            \E k \in 1 .. Len(app_) : app_[k] = stack'[j].app
       /\ \A j, k \in Pos' : /\ stack'[j].op \in BuildOps /\ stack'[k].op \in BuildOps
                             /\ stack'[j].app = stack'[k].app
                             => j = k
       /\ \A j \in Instances : life[j] = "new" =>
            \E k \in Pos' : stack'[k].op \in BuildOps /\ stack'[k].app = j[1]
       /\ Stopping' /\ Removing'
  BY <1>2, <1>14, BuildKeep
<1>16. Types'
  <2>1. life' \in [Instances -> {"none", "new", "created", "destroyed", "deleted"}]
    BY <1>5 DEF IInv, Types
  <2> QED
    BY <1>2, <1>11, <1>15, <2>1 DEF IInv, Types, FrameOK, Inst, Item
<1>17. Phase'
  BY <1>2, <1>10, <1>15 DEF IInv, Phase
<1>18. Registry'
  BY <1>2, <1>10 DEF IInv, Registry
<1>19. Building'
  <2>1. ASSUME NEW j \in Pos', stack'[j].op \in BuildOps, NEW m \in Instances,
               m[1] = stack'[j].app
        PROVE  life'[m] = IF m[2] <= Made(stack'[j]) THEN "created" ELSE "new"
    <3>1. CASE j = 1 + d
      <4>1. stack'[j].app = a /\ Made(stack'[j]) = n
        BY <1>a, <1>b, <3>1
      <4>2. life[m] = IF m[2] <= n - 1 THEN "created" ELSE "new"
        BY <1>1, <2>1, <4>1 DEF IInv, Building, Made, BuildOps
      <4>3. m = i <=> m[2] = n
        BY <1>4, <2>1, <4>1, Pairs DEF i
      <4>4. m[2] \in Int
        BY Pairs, CoreAssumption
      <4> QED
        BY <1>3, <1>10, <4>1, <4>2, <4>3, <4>4
    <3>2. CASE j # 1 + d
      <4>1. /\ j - d \in Pos /\ stack[j - d].op \in BuildOps
            /\ j - d # 1 /\ stack'[j] = stack[j - d]
        BY <1>14, <2>1, <3>2, BuildPlaces DEF BuildMoves, BuildOps
      <4>2. life[m] = IF m[2] <= Made(stack'[j]) THEN "created" ELSE "new"
        BY <2>1, <4>1 DEF IInv, Building
      <4>3. stack'[j].app # a
        BY <1>1, <4>1 DEF IInv, Building, BuildOps
      <4> QED
        BY <1>4, <1>10, <2>1, <4>2, <4>3
    <3> QED
      BY <3>1, <3>2
  <2> QED
    BY <1>2, <1>10, <1>15, <2>1 DEF Building, Made
<1>20. Sessions'
  <2>1. ASSUME NEW j \in Pos', stack'[j].op \in {"start", "setup"}
        PROVE  /\ life'[Inst(stack'[j])] = "created"
               /\ stack'[j].op = "setup" => inormal[Inst(stack'[j])] /\ stack'[j].app \in WithLoop
    <3>1. CASE j \in 1 .. 1 + d
      <4>1. stack'[j] = f
        BY <1>a, <2>1, <3>1
      <4> QED
        BY <1>4, <1>8, <1>10, <4>1
    <3>2. CASE j \notin 1 .. 1 + d
      <4>1. j - d \in Pos /\ stack'[j] = stack[j - d]
        BY <1>a, <3>2, Places
      <4>2. Inst(stack[j - d]) \in Instances
        BY <2>1, <4>1 DEF IInv, Types, FrameOK, CallOps
      <4> QED
        BY <1>10, <2>1, <4>1, <4>2 DEF IInv, Sessions
    <3> QED
      BY <3>1, <3>2
  <2>2. \A j \in Instances : running[j] => life'[j] = "created" /\ inormal[j] /\ j[1] \in WithLoop
    BY <1>10 DEF IInv, Sessions
  <2> QED
    BY <1>2, <1>12, <2>1, <2>2 DEF Sessions, Inst
<1>21. Failing'
  <2> SUFFICES ASSUME NEW j \in Pos', stack'[j].op = "created", Item(stack'[j]) \in CreateFails
               PROVE  /\ j = 1 /\ ~running[Item(stack'[j])]
                      /\ \A k \in Pos' : stack'[k].op = "setup" => Inst(stack'[k]) # Item(stack'[j])
    BY <1>2 DEF Failing, Item, Inst
  <2>1. j \in 1 .. 1 + d
    <3> SUFFICES ASSUME j \notin 1 .. 1 + d PROVE FALSE
      OBVIOUS
    <3>1. j - d \in Pos \ {1} /\ stack'[j] = stack[j - d]
      BY <1>a, Places
    <3>2. stack[j - d].op = "created" /\ Item(stack[j - d]) \in CreateFails
      BY <3>1
    <3> QED
      BY <3>1, <3>2 DEF IInv, Failing
  <2>2. j = 1 + d /\ i \in CreateFails
    BY <1>8, <1>a, <1>b, <2>1
  <2>3. d = 0
    BY <1>a, <2>2, CoreAssumption
  <2>4. ~running[i]
    BY <1>4, <1>9 DEF IInv, Sessions
  <2>5. ASSUME NEW k \in Pos', stack'[k].op = "setup" PROVE Inst(stack'[k]) # i
    <3>1. k \notin 1 .. 1 + d
      BY <1>a, <2>3, <2>5
    <3>2. k - d \in Pos /\ stack'[k] = stack[k - d]
      BY <1>a, <3>1, Places
    <3> QED
      BY <1>9, <2>5, <3>2 DEF IInv, Sessions
  <2>6. j = 1 /\ Item(stack'[j]) = i
    BY <1>b, <2>2, <2>3
  <2> QED
    BY <2>4, <2>5, <2>6
<1> QED
  BY <1>15, <1>16, <1>17, <1>18, <1>19, <1>20, <1>21 DEF IInv

LEMMA InstallInv == ASSUME AllComeUp, IInv, Install PROVE IInv'
<1> DEFINE a == stack[1].app
<1>1. /\ stack \in Seq(Frames) /\ stack # <<>> /\ Top = stack[1] /\ 1 \in Pos
      /\ stack[1] \in Frames /\ stack[1].op = "install" /\ a \in Apps
  BY Innermost DEF Install, FrameOK
<1>2. next # -1 /\ UNCHANGED <<normal_, inormal, running, ctx, next>>
  BY <1>1 DEF Install, IInv, Phase, TakeOps
<1>3. app_ \in Seq(Apps) /\ running' \in [Instances -> BOOLEAN]
  BY <1>2 DEF IInv, Types
<1>4. CASE Installed(a)
  <2>1. Shape(-1) /\ UNCHANGED <<app_, life>>
    BY <1>1, <1>4, OnReturn DEF Install
  <2>2. Types' /\ Phase' /\ Registry' /\ Building' /\ Removing'
    BY <1>1, <1>2, <1>3, <2>1, CallsKeep
  <2>3. Sessions' /\ Failing' /\ Stopping'
    BY <1>2, <2>1, <2>2, SessionsKeep, FailingKeep, StoppingKeep
  <2> QED
    BY <2>2, <2>3 DEF IInv
<1>5. CASE ~Installed(a)
  <2>1. /\ Goto("init", 1) /\ app_' = Append(app_, a)
        /\ life' = [i \in Instances |-> IF i[1] = a THEN "new" ELSE life[i]]
    BY <1>1, <1>5 DEF Install
  <2>2. Shape(0) /\ Turned(stack'[1], "init", 1)
    BY <1>1, <2>1, OnGoto DEF Ops, BuildOps
  <2>3. stack'[1].op = "init" /\ stack'[1].app = a /\ stack'[1].n = 1
    BY <2>2 DEF Turned
  <2>4. \A j \in Pos' : j \in Pos /\ (j # 1 => stack'[j] = stack[j])
    BY <2>2 DEF Shape, Pos
  <2>5. \A k \in 1 .. Len(app_) : app_[k] # a
    BY <1>3, <1>5 DEF Installed, ToSet
  <2>6. /\ app_' \in Seq(Apps) /\ Len(app_') = Len(app_) + 1 /\ app_'[Len(app_) + 1] = a
        /\ Len(app_) \in Nat /\ \A k \in 1 .. Len(app_) : app_'[k] = app_[k]
    BY <1>1, <1>3, <2>1
  <2>7. \A i \in Instances : life'[i] = IF i[1] = a THEN "new" ELSE life[i]
    BY <2>1
  <2>8. \A i \in Instances : i[1] = a => life[i] = "none"
    BY <1>2, <2>5 DEF IInv, Registry
  <2>9. Types'
    <3>1. FrameOK(stack'[1])
      BY <1>1, <2>3 DEF FrameOK, CallOps
    <3>2. stack' \in Seq(Frames) /\ \A j \in Pos' : FrameOK(stack'[j])
      BY <2>2, <2>4, <3>1 DEF IInv, Types, Shape
    <3>3. life' \in [Instances -> {"none", "new", "created", "destroyed", "deleted"}]
      BY <2>1 DEF IInv, Types
    <3> QED
      BY <1>2, <2>6, <3>2, <3>3 DEF IInv, Types, FrameOK, Inst, Item
  <2>10. Phase'
    <3>1. \A j \in Pos' : stack'[j].op \in BuildOps \cup CallOps \cup {"install"}
      BY <1>2, <2>3, <2>4 DEF IInv, Phase, BuildOps
    <3> QED
      BY <1>2, <2>7, <3>1 DEF IInv, Phase
  <2>11. Registry'
    <3>1. ASSUME NEW j \in 1 .. Len(app_'), NEW k \in 1 .. Len(app_'), app_'[j] = app_'[k]
          PROVE  j = k
      BY <2>5, <2>6, <3>1 DEF IInv, Registry
    <3>2. ASSUME NEW i \in Instances
          PROVE  life'[i] = "none" <=> \A k \in 1 .. Len(app_') : app_'[k] # i[1]
      <4>1. CASE i[1] = a
        <5>1. Len(app_) + 1 \in 1 .. Len(app_') /\ app_'[Len(app_) + 1] = i[1]
          BY <2>6, <4>1
        <5> QED
          BY <2>7, <4>1, <5>1
      <4>2. CASE i[1] # a
        <5>1. life[i] = "none" <=> \A k \in 1 .. Len(app_) : app_[k] # i[1]
          BY <1>2 DEF IInv, Registry
        <5> QED
          BY <2>6, <2>7, <4>2, <5>1
      <4> QED
        BY <4>1, <4>2
    <3> QED
      BY <3>1, <3>2 DEF Registry
  <2>12. Building'
    <3>1. \A j \in Pos' : stack'[j].op \in BuildOps /\ j # 1 =>
             stack[j].op \in BuildOps /\ j \in Pos /\ stack'[j] = stack[j] /\ stack[j].app # a
      BY <2>4, <2>5 DEF IInv, Building
    <3>2. ASSUME NEW j \in Pos', stack'[j].op \in BuildOps
          PROVE  \E k \in 1 .. Len(app_') : app_'[k] = stack'[j].app
      <4>1. CASE j = 1
        BY <2>3, <2>6, <4>1
      <4>2. CASE j # 1
        <5>1. PICK k \in 1 .. Len(app_) : app_[k] = stack'[j].app
          BY <3>1, <3>2, <4>2 DEF IInv, Building
        <5> QED
          BY <2>6, <5>1
      <4> QED
        BY <4>1, <4>2
    <3>3. ASSUME NEW j \in Pos', stack'[j].op \in BuildOps, NEW i \in Instances,
                 i[1] = stack'[j].app
          PROVE  life'[i] = IF i[2] <= Made(stack'[j]) THEN "created" ELSE "new"
      <4>1. CASE j = 1
        <5>1. Made(stack'[j]) = 0
          BY <2>3, <4>1 DEF Made
        <5>2. i[2] \in Nat /\ i[2] > 0
          BY Pairs, CoreAssumption
        <5> QED
          BY <2>3, <2>7, <3>3, <4>1, <5>1, <5>2
      <4>2. CASE j # 1
        BY <2>7, <3>1, <3>3, <4>2 DEF IInv, Building
      <4> QED
        BY <4>1, <4>2
    <3>4. \A j, k \in Pos' : /\ stack'[j].op \in BuildOps /\ stack'[k].op \in BuildOps
                             /\ stack'[j].app = stack'[k].app
                             => j = k
      BY <2>3, <3>1 DEF IInv, Building
    <3>5. ASSUME NEW i \in Instances, life'[i] = "new"
          PROVE  \E j \in Pos' : stack'[j].op \in BuildOps /\ stack'[j].app = i[1]
      <4>1. CASE i[1] = a
        <5>1. 1 \in Pos'
          BY <1>1, <2>2 DEF Shape, Pos
        <5> QED
          BY <2>3, <4>1, <5>1 DEF BuildOps
      <4>2. CASE i[1] # a
        <5>1. PICK j \in Pos : stack[j].op \in BuildOps /\ stack[j].app = i[1]
          BY <2>7, <3>5, <4>2 DEF IInv, Building
        <5>2. j # 1 /\ j \in Pos' /\ stack'[j] = stack[j]
          BY <1>1, <2>2, <5>1 DEF Shape, Pos, BuildOps
        <5> QED
          BY <5>1, <5>2
      <4> QED
        BY <4>1, <4>2
    <3> QED
      BY <3>2, <3>3, <3>4, <3>5 DEF Building, Made
  <2>13. Sessions'
    <3>1. \A i \in Instances : life[i] = "created" => life'[i] = "created"
      BY <2>7, <2>8
    <3>2. \A i \in Instances : \A k \in ctx[i] : life'[Subtasks[i][k]] = "created"
      <4>1. \A i \in Instances : \A k \in ctx[i] : Subtasks[i][k] \in Instances
        BY CoreAssumption DEF IInv, Types
      <4> QED
        BY <1>2, <3>1, <4>1 DEF IInv, Sessions
    <3>3. ASSUME NEW j \in Pos', stack'[j].op \in {"start", "setup"}
          PROVE  /\ life'[Inst(stack'[j])] = "created"
                 /\ stack'[j].op = "setup" => inormal[Inst(stack'[j])] /\ stack'[j].app \in WithLoop
      <4>1. j \in Pos /\ stack'[j] = stack[j]
        BY <2>3, <2>4, <3>3
      <4>2. Inst(stack[j]) \in Instances
        BY <3>3, <4>1 DEF IInv, Types, FrameOK, CallOps
      <4> QED
        BY <3>1, <3>3, <4>1, <4>2 DEF IInv, Sessions
    <3>4. \A i \in Instances : running[i] => life'[i] = "created" /\ inormal[i] /\ i[1] \in WithLoop
      BY <3>1 DEF IInv, Sessions
    <3> QED
      BY <1>2, <3>2, <3>3, <3>4 DEF Sessions, Inst
  <2>14. Failing' /\ Stopping' /\ Removing'
    BY <1>2, <2>2, <2>3, <2>10, FailingKeep, StoppingKeep DEF Removing
  <2> QED
    BY <2>9, <2>10, <2>11, <2>12, <2>13, <2>14 DEF IInv
<1> QED
  BY <1>4, <1>5

-----------------------------------------------------------------------------
(* Shutting down                                                             *)

\* The frame in which the shutdown removes an app is the last but one.
LEMMA TakePlaces ==
    ASSUME IInv, stack # <<>>, stack[1].op \in TakeOps \cup {"uninstall"}
    PROVE  /\ next = -1 /\ app_ \in Seq(Apps)
           /\ Len(stack) = IF stack[1].op = "uninstall" THEN 1 ELSE 2
           /\ LET last == stack[Len(stack)] IN
                /\ last.op = "uninstall" /\ last.n \in Nat /\ last.n <= Len(app_)
                /\ stack[1].op \in TakeOps =>
                     last.n < Len(app_) /\ stack[1].app = app_[last.n + 1]
<1>1. 1 \in Pos /\ stack \in Seq(Frames) /\ app_ \in Seq(Apps) /\ Len(stack) \in Nat
  BY TopFrame DEF IInv, Types
<1>2. next = -1
  BY <1>1 DEF IInv, Phase, BuildOps, CallOps, TakeOps
<1>3. stack[Len(stack)] \in Frames
  BY <1>1 DEF Pos
<1>4. /\ stack[1].op = "uninstall" => 1 = Len(stack)
      /\ stack[1].op \in TakeOps => 1 = Len(stack) - 1
  BY <1>1, <1>2 DEF IInv, Removing
<1>5. /\ stack[Len(stack)].op = "uninstall" /\ stack[Len(stack)].n <= Len(app_)
      /\ stack[1].op \in TakeOps => /\ stack[Len(stack)].n < Len(app_)
                                    /\ stack[1].app = app_[stack[Len(stack)].n + 1]
  <2>1. stack[1].op \in TakeOps => Len(stack) > 1 /\ stack[Len(stack) - 1] = stack[1]
    <3>1. ASSUME stack[1].op \in TakeOps PROVE Len(stack) > 1 /\ Len(stack) - 1 = 1
      <4>1. 1 = Len(stack) - 1 /\ Len(stack) \in Nat
        BY <1>1, <1>4, <3>1
      <4> QED
        BY <4>1
    <3> QED
      BY <3>1
  <2> QED
    BY <1>2, <2>1 DEF IInv, Removing
<1> QED
  BY <1>1, <1>2, <1>3, <1>4, <1>5 DEF Frames

\* The invariants about installing and starting during the shutdown.
LEMMA TakeKeep ==
    ASSUME IInv, next = -1, UNCHANGED <<inormal, running, ctx, next>>,
           \A j \in Pos' : stack'[j].op \in TakeOps \cup {"stop", "exit", "uninstall"},
           \A i \in Instances : life'[i] # life[i] =>
                ~running[i] /\ life'[i] \in {"destroyed", "deleted"}
    PROVE  Phase' /\ Building' /\ Sessions' /\ Failing'
<1>1. \A j \in Pos' : stack'[j].op \notin BuildOps \cup {"start", "setup"}
  BY DEF TakeOps, BuildOps
<1>2. \A i \in Instances : life[i] # "new"
  BY DEF IInv, Building, Phase, TakeOps, BuildOps
<1>3. Phase'
  BY DEF Phase
<1>4. Building'
  BY <1>1, <1>2 DEF Building
<1>5. Sessions'
  BY <1>1 DEF IInv, Sessions
<1>6. Failing'
  BY <1>1 DEF Failing, BuildOps
<1> QED
  BY <1>3, <1>4, <1>5, <1>6

LEMMA UninstallInv == ASSUME IInv, Uninstall PROVE IInv'
<1>1. /\ stack \in Seq(Frames) /\ stack # <<>> /\ Top = stack[1] /\ 1 \in Pos
      /\ stack[1] \in Frames /\ FrameOK(stack[1]) /\ stack[1].op = "uninstall"
  BY Innermost DEF Uninstall
<1>2. /\ next = -1 /\ app_ \in Seq(Apps) /\ Len(stack) = 1
      /\ stack[1].n \in Nat /\ stack[1].n <= Len(app_)
  BY <1>1, TakePlaces
<1>3. UNCHANGED <<normal_, life, inormal, running, ctx, next>>
  BY DEF Uninstall
<1>4. \A i \in Instances, m \in 1 .. Len(app_) : app_[m] = i[1] =>
        life[i] = IF m <= stack[1].n THEN "created" ELSE "deleted"
  BY <1>1, <1>2 DEF IInv, Removing
<1>5. CASE /\ stack[1].n > 0 /\ UNCHANGED app_
           /\ Call(Frame("release", app_[stack[1].n], 0, 1), "uninstall", stack[1].n - 1)
  <2> DEFINE f == Frame("release", app_[stack[1].n], 0, 1)
  <2>1. app_[stack[1].n] \in Apps
    BY <1>2, <1>5
  <2>2. /\ f \in Frames /\ FrameOK(f) /\ f.op = "release" /\ f.n = 1
        /\ f.app = app_[stack[1].n]
    BY <2>1 DEF Frame, Frames, Ops, TakeOps, FrameOK, CallOps
  <2>3. "uninstall" \in Ops /\ stack[1].n - 1 \in Nat
    BY <1>2, <1>5 DEF Ops
  <2>4. Shape(1) /\ stack'[1] = f /\ Turned(stack'[2], "uninstall", stack[1].n - 1)
    BY <1>1, <1>5, <2>2, <2>3, OnCall
  <2> HIDE DEF f
  <2>5. /\ stack' \in Seq(Frames) /\ Pos' = {1, 2} /\ Len(stack') = 2 /\ stack' # <<>>
        /\ stack'[2].op = "uninstall" /\ stack'[2].n = stack[1].n - 1
    <3>1. stack' \in Seq(Frames) /\ Len(stack') = 2
      BY <1>2, <2>4 DEF Shape
    <3>2. stack'[2].op = "uninstall" /\ stack'[2].n = stack[1].n - 1
      BY <2>4 DEF Turned
    <3> QED
      BY <3>1, <3>2 DEF Pos
  <2>6. Types'
    <3>1. FrameOK(stack'[2])
      BY <2>5 DEF FrameOK, CallOps
    <3> QED
      BY <1>3, <1>5, <2>2, <2>4, <2>5, <3>1 DEF IInv, Types, FrameOK, Inst, Item
  <2>7. \A j \in Pos' : stack'[j].op \in TakeOps \cup {"stop", "exit", "uninstall"}
    BY <2>2, <2>4, <2>5 DEF TakeOps
  <2>8. Phase' /\ Building' /\ Sessions' /\ Failing'
    BY <1>2, <1>3, <2>7, TakeKeep
  <2>9. Registry' /\ Stopping'
    BY <1>1, <1>3, <1>5, <2>2, <2>4, <2>5 DEF IInv, Registry, Stopping
  <2>10. Removing'
    <3>1. \A i \in Instances, m \in 1 .. Len(app_) : app_[m] = i[1] =>
             life[i] = IF m <= stack[1].n - 1 THEN "created" ELSE
                       IF m = stack[1].n THEN Removed(f, i[2]) ELSE "deleted"
      <4>1. \A i \in Instances : Removed(f, i[2]) = "created"
        <5>1. \A i \in Instances : i[2] \in Nat /\ i[2] > 0
          BY Pairs, CoreAssumption
        <5> QED
          BY <2>2, <5>1 DEF Removed
      <4> QED
        BY <1>2, <1>4, <1>5, <4>1
    <3>2. \A j \in Pos' : /\ stack'[j].op = "uninstall" => j = 2
                          /\ stack'[j].op \in TakeOps => j = 1
      BY <2>2, <2>4, <2>5 DEF TakeOps
    <3> QED
      BY <1>2, <1>3, <1>5, <2>2, <2>4, <2>5, <3>1, <3>2 DEF Removing, Removed, TakeOps
  <2> QED
    BY <2>6, <2>8, <2>9, <2>10 DEF IInv
<1>6. CASE stack[1].n = 0 /\ Return /\ app_' = <<>>
  <2>1. Shape(-1) /\ stack' = <<>> /\ Pos' = {}
    BY <1>1, <1>2, <1>6, OnReturn DEF Return, Pos
  <2>2. \A i \in Instances : life[i] \in {"none", "deleted"}
    BY <1>1, <1>2, <1>4, <1>6 DEF IInv, Registry
  <2>3. Types'
    BY <1>3, <1>6, <2>1 DEF IInv, Types, Shape
  <2>4. Phase' /\ Building' /\ Sessions' /\ Failing'
    BY <1>2, <1>3, <2>1, TakeKeep
  <2>5. Registry' /\ Stopping' /\ Removing'
    BY <1>2, <1>3, <1>6, <2>1, <2>2 DEF Registry, Stopping, Removing
  <2> QED
    BY <2>3, <2>4, <2>5 DEF IInv
<1> QED
  BY <1>1, <1>2, <1>5, <1>6 DEF Uninstall

\* While an app is being removed: what Removing says with that frame innermost.
LEMMA TakeTop ==
    ASSUME IInv, stack # <<>>, stack[1].op \in TakeOps
    PROVE  /\ next = -1 /\ app_ \in Seq(Apps) /\ Len(app_) \in Nat /\ Len(stack) = 2
           /\ stack[2].op = "uninstall" /\ stack[2].n \in Nat /\ stack[2].n < Len(app_)
           /\ stack[1].app = app_[stack[2].n + 1]
           /\ \A i \in Instances, m \in 1 .. Len(app_) : app_[m] = i[1] =>
                life[i] = IF m <= stack[2].n THEN "created" ELSE
                          IF m = stack[2].n + 1 THEN Removed(stack[1], i[2]) ELSE "deleted"
           /\ \A i \in Instances : i[1] = stack[1].app => life[i] = Removed(stack[1], i[2])
           /\ \A m \in 1 .. Len(app_) : app_[m] = stack[1].app <=> m = stack[2].n + 1
<1>1. /\ next = -1 /\ app_ \in Seq(Apps) /\ Len(app_) \in Nat /\ Len(stack) = 2
      /\ stack[2].op = "uninstall" /\ stack[2].n \in Nat /\ stack[2].n < Len(app_)
      /\ stack[1].app = app_[stack[2].n + 1]
  <2>1. stack[1].op # "uninstall"
    BY DEF TakeOps
  <2> QED
    BY <2>1, TakePlaces
<1>2. \A i \in Instances, m \in 1 .. Len(app_) : app_[m] = i[1] =>
                life[i] = IF m <= stack[2].n THEN "created" ELSE
                          IF m = stack[2].n + 1 THEN Removed(stack[1], i[2]) ELSE "deleted"
  BY <1>1 DEF IInv, Removing
<1>3. stack[2].n + 1 \in 1 .. Len(app_)
  BY <1>1
<1>4. \A m \in 1 .. Len(app_) : app_[m] = stack[1].app <=> m = stack[2].n + 1
  BY <1>1, <1>3 DEF IInv, Registry
<1>5. \A i \in Instances : i[1] = stack[1].app => life[i] = Removed(stack[1], i[2])
  BY <1>1, <1>2, <1>3
<1> QED
  BY <1>1, <1>2, <1>4, <1>5

\* The frame below, which counts the apps, stays as it is.
LEMMA TakeStep ==
    ASSUME IInv, stack # <<>>, stack[1].op \in TakeOps, NEW d \in {0, 1}, Shape(d),
           stack'[1 + d].op \in TakeOps, stack'[1 + d].app = stack[1].app,
           FrameOK(stack'[1 + d]),
           d = 1 => stack'[1].op = "stop" /\ FrameOK(stack'[1]),
           UNCHANGED <<app_, inormal, running, ctx, next>>,
           life' \in [Instances -> {"none", "new", "created", "destroyed", "deleted"}],
           \A i \in Instances : i[1] # stack[1].app => life'[i] = life[i],
           \A i \in Instances : i[1] = stack[1].app => life'[i] = Removed(stack'[1 + d], i[2]),
           \A i \in Instances : life'[i] # life[i] =>
                ~running[i] /\ life'[i] \in {"destroyed", "deleted"}
    PROVE  /\ Types' /\ Phase' /\ Registry' /\ Building' /\ Sessions' /\ Failing' /\ Removing'
           /\ stack'[2 + d].op = "uninstall" /\ Pos' = 1 .. 2 + d
<1>1. /\ next = -1 /\ app_ \in Seq(Apps) /\ Len(app_) \in Nat /\ Len(stack) = 2
      /\ stack[2].op = "uninstall" /\ stack[2].n \in Nat /\ stack[2].n < Len(app_)
      /\ stack[1].app = app_[stack[2].n + 1]
  BY TakeTop
<1>2. stack' \in Seq(Frames) /\ Len(stack') = 2 + d /\ stack'[2 + d] = stack[2]
  BY <1>1 DEF Shape
<1>3. Pos' = 1 .. 2 + d /\ stack' # <<>>
  BY <1>2 DEF Pos
<1>4. \A j \in Pos' : j = 2 + d \/ j = 1 + d \/ (d = 1 /\ j = 1)
  BY <1>3
<1>5. Types'
  <2>1. FrameOK(stack'[2 + d])
    BY <1>1, <1>2 DEF FrameOK, CallOps
  <2>2. \A j \in Pos' : FrameOK(stack'[j])
    BY <1>4, <2>1
  <2> QED
    BY <1>2, <2>2 DEF IInv, Types, FrameOK, Inst, Item
<1>6. \A j \in Pos' : stack'[j].op \in TakeOps \cup {"stop", "exit", "uninstall"}
  BY <1>1, <1>2, <1>4
<1>7. Phase' /\ Building' /\ Sessions' /\ Failing'
  BY <1>1, <1>6, TakeKeep
<1>8. Registry'
  <2>1. \A i \in Instances : life[i] = "none" <=> life'[i] = "none"
    <3>1. \A i \in Instances : i[1] = stack[1].app => life[i] # "none" /\ life'[i] # "none"
      BY TakeTop DEF Removed
    <3> QED
      BY <3>1
  <2> QED
    BY <1>1, <2>1 DEF IInv, Registry
<1>9. Removing'
  <2>1. \A j \in Pos' : /\ stack'[j].op = "uninstall" => j = 2 + d
                        /\ stack'[j].op \in TakeOps => j = 1 + d
    BY <1>1, <1>2, <1>4 DEF TakeOps
  <2>2. \A i \in Instances, m \in 1 .. Len(app_) : app_[m] = i[1] =>
             life'[i] = IF m <= stack[2].n THEN "created" ELSE
                        IF m = stack[2].n + 1 THEN Removed(stack'[1 + d], i[2]) ELSE "deleted"
    <3> SUFFICES ASSUME NEW i \in Instances, NEW m \in 1 .. Len(app_), app_[m] = i[1]
                 PROVE  life'[i] = IF m <= stack[2].n THEN "created" ELSE
                        IF m = stack[2].n + 1 THEN Removed(stack'[1 + d], i[2]) ELSE "deleted"
      OBVIOUS
    <3>1. i[1] = stack[1].app <=> m = stack[2].n + 1
      BY TakeTop
    <3>2. m # stack[2].n + 1 => life[i] = IF m <= stack[2].n THEN "created" ELSE "deleted"
      BY TakeTop
    <3> QED
      BY <1>1, <3>1, <3>2
  <2>3. Len(stack') - 1 = 1 + d /\ Len(stack') > 1
    BY <1>2
  <2>4. next' = -1 /\ app_' = app_
    BY <1>1
  <2> QED
    BY <1>1, <1>2, <1>3, <2>1, <2>2, <2>3, <2>4 DEF Removing, Removed
<1> QED
  BY <1>1, <1>2, <1>3, <1>5, <1>7, <1>8, <1>9

LEMMA ReleaseInv == ASSUME IInv, Release PROVE IInv'
<1> DEFINE a == stack[1].app
           n == stack[1].n
           f == Frame("stop", a, n, 0)
<1>1. /\ stack \in Seq(Frames) /\ stack # <<>> /\ Top = stack[1] /\ 1 \in Pos
      /\ stack[1] \in Frames /\ FrameOK(stack[1]) /\ stack[1].op = "release"
      /\ stack[1].op \in TakeOps
  BY Innermost DEF Release, TakeOps
<1>2. a \in Apps /\ n \in Nat /\ n > 0 /\ Count[a] \in Nat
  BY <1>1, CoreAssumption DEF FrameOK, Frames
<1>3. UNCHANGED <<app_, normal_, life, inormal, running, ctx, next>>
  BY DEF Release
<1>4. \A i \in Instances : i[1] = a => life[i] = IF i[2] < n THEN "deleted" ELSE "created"
  BY <1>1, TakeTop DEF Removed
<1>5. CASE n <= Count[a] /\ Call(f, "destroy", n)
  <2>1. <<a, n>> \in Instances
    BY <1>2, <1>5, Pairs
  <2>2. /\ f \in Frames /\ FrameOK(f) /\ f.op = "stop" /\ Inst(f) = <<a, n>>
        /\ "destroy" \in Ops
    BY <1>2, <2>1 DEF Frame, Frames, Ops, TakeOps, CallOps, FrameOK, Inst
  <2>3. Shape(1) /\ stack'[1] = f /\ Turned(stack'[2], "destroy", n)
    BY <1>1, <1>2, <1>5, <2>2, OnCall
  <2> HIDE DEF f
  <2>4. /\ stack'[2].op = "destroy" /\ stack'[2].app = a /\ stack'[2].n = n
        /\ stack'[2].op \in TakeOps /\ FrameOK(stack'[2]) /\ Item(stack'[2]) = <<a, n>>
    BY <1>2, <2>1, <2>3 DEF Turned, FrameOK, TakeOps, CallOps, Item
  <2>5. \A i \in Instances : i[1] = a => life[i] = Removed(stack'[2], i[2])
    BY <1>4, <2>4 DEF Removed
  <2>6. life \in [Instances -> {"none", "new", "created", "destroyed", "deleted"}]
    BY DEF IInv, Types
  <2>7. /\ Types' /\ Phase' /\ Registry' /\ Building' /\ Sessions' /\ Failing' /\ Removing'
        /\ stack'[3].op = "uninstall" /\ Pos' = 1 .. 3
    BY <1>1, <1>3, <2>2, <2>3, <2>4, <2>5, <2>6, TakeStep
  <2>8. Stopping'
    BY <2>2, <2>3, <2>4, <2>7 DEF Stopping, Inst, Item
  <2> QED
    BY <2>7, <2>8 DEF IInv
<1>6. CASE ~(n <= Count[a]) /\ Return
  <2>1. Shape(-1)
    BY <1>1, <1>6, OnReturn
  <2>2. /\ next = -1 /\ app_ \in Seq(Apps) /\ Len(stack) = 2
        /\ stack[2].op = "uninstall" /\ stack[2].n \in Nat /\ stack[2].n < Len(app_)
    BY <1>1, TakeTop
  <2>3. stack' \in Seq(Frames) /\ Len(stack') = 1 /\ stack'[1] = stack[2]
    BY <2>1, <2>2 DEF Shape
  <2>4. Pos' = {1} /\ stack' # <<>>
    BY <2>3 DEF Pos
  <2>5. Types'
    <3>1. FrameOK(stack'[1])
      BY <2>2, <2>3 DEF FrameOK, CallOps
    <3> QED
      BY <1>3, <2>3, <2>4, <3>1 DEF IInv, Types, FrameOK, Inst, Item
  <2>6. Phase' /\ Building' /\ Sessions' /\ Failing'
    BY <1>3, <2>2, <2>3, <2>4, TakeKeep
  <2>7. Registry' /\ Stopping'
    BY <1>1, <1>3, <2>2, <2>3, <2>4 DEF IInv, Registry, Stopping
  <2>8. \A i \in Instances : i[1] = a => life[i] = "deleted"
    <3>1. \A i \in Instances : i[1] = a => i[2] < n
      BY <1>2, <1>6, Pairs
    <3> QED
      BY <1>4, <3>1
  <2>9. \A i \in Instances, m \in 1 .. Len(app_) : app_[m] = i[1] =>
             life[i] = IF m <= stack[2].n THEN "created" ELSE "deleted"
    BY <1>1, <2>2, <2>8, TakeTop
  <2>10. Removing'
    BY <1>3, <2>2, <2>3, <2>4, <2>9 DEF Removing, TakeOps
  <2> QED
    BY <2>5, <2>6, <2>7, <2>10 DEF IInv
<1> QED
  BY <1>1, <1>5, <1>6 DEF Release

LEMMA DestroyInv == ASSUME AllComeUp, IInv, DestroyInstance PROVE IInv'
<1> DEFINE a == stack[1].app
           n == stack[1].n
           i == <<a, n>>
           f == Frame("stop", i[1], i[2], 0)
<1>1. /\ stack \in Seq(Frames) /\ stack # <<>> /\ Top = stack[1] /\ 1 \in Pos
      /\ stack[1] \in Frames /\ FrameOK(stack[1]) /\ stack[1].op = "destroy"
      /\ stack[1].op \in TakeOps
  BY Innermost DEF DestroyInstance, TakeOps
<1>2. a \in Apps /\ n \in Nat /\ i \in Instances /\ i[1] = a /\ i[2] = n /\ i = Item(stack[1])
  BY <1>1 DEF FrameOK, Frames, Item
<1>3. /\ UNCHANGED <<app_, normal_, inormal, running, ctx, next>>
      /\ life' = [life EXCEPT ![i] = "destroyed"]
  BY <1>1, <1>2 DEF DestroyInstance, AllComeUp
<1>4. \A m \in Instances : m[1] = a => life[m] = IF m[2] < n THEN "deleted" ELSE "created"
  BY <1>1, TakeTop DEF Removed
<1>5. ~running[i]
  BY <1>1, <1>2 DEF IInv, Stopping
<1>6. /\ f \in Frames /\ FrameOK(f) /\ f.op = "stop" /\ "delete" \in Ops
  BY <1>2 DEF Frame, Frames, Ops, TakeOps, CallOps, FrameOK, Inst
<1>7. PICK d \in {0, 1} : /\ Shape(d) /\ Turned(stack'[1 + d], "delete", n)
                          /\ d = 1 => stack'[1] = f
  <2>1. CASE a \in Services
    <3>1. Call(f, "delete", n)
      BY <1>1, <2>1 DEF DestroyInstance
    <3>2. Shape(1) /\ stack'[1] = f /\ Turned(stack'[2], "delete", n)
      BY <1>1, <1>2, <1>6, <3>1, OnCall
    <3> QED
      BY <3>2
  <2>2. CASE a \notin Services
    <3>1. Goto("delete", n)
      BY <1>1, <2>2 DEF DestroyInstance
    <3>2. Shape(0) /\ Turned(stack'[1], "delete", n)
      BY <1>1, <1>2, <1>6, <3>1, OnGoto
    <3> QED
      BY <3>2
  <2> QED
    BY <2>1, <2>2
<1> HIDE DEF i, f
<1>8. /\ stack'[1 + d].op = "delete" /\ stack'[1 + d].app = a /\ stack'[1 + d].n = n
      /\ Shape(d) /\ (d = 1 => stack'[1] = f)
  BY <1>7 DEF Turned
<1>9. /\ FrameOK(stack'[1 + d]) /\ stack'[1 + d].op \in TakeOps
      /\ d = 1 => stack'[1].op = "stop" /\ FrameOK(stack'[1])
  BY <1>1, <1>2, <1>6, <1>8 DEF FrameOK, TakeOps, CallOps, Item
<1>10. life' \in [Instances -> {"none", "new", "created", "destroyed", "deleted"}]
  BY <1>3 DEF IInv, Types
<1>11. \A m \in Instances : life'[m] = IF m = i THEN "destroyed" ELSE life[m]
  BY <1>2, <1>3 DEF IInv, Types
<1>12. ASSUME NEW m \in Instances, m[1] = a PROVE life'[m] = Removed(stack'[1 + d], m[2])
  <2>1. m = i <=> m[2] = n
    BY <1>2, <1>12, Pairs DEF i
  <2>2. life[m] = IF m[2] < n THEN "deleted" ELSE "created"
    BY <1>4, <1>12
  <2>3. m[2] \in Nat
    BY Pairs, CoreAssumption
  <2> QED
    BY <1>2, <1>8, <1>11, <2>1, <2>2, <2>3 DEF Removed
<1>13. /\ Types' /\ Phase' /\ Registry' /\ Building' /\ Sessions' /\ Failing' /\ Removing'
       /\ stack'[2 + d].op = "uninstall" /\ Pos' = 1 .. 2 + d
  BY <1>1, <1>2, <1>3, <1>5, <1>8, <1>9, <1>10, <1>11, <1>12, TakeStep
<1>14. Stopping'
  <2>1. \A j \in Pos' : j = 2 + d \/ j = 1 + d \/ (d = 1 /\ j = 1)
    BY <1>13
  <2>2. \A j \in Pos' : stack'[j].op # "destroy"
    BY <1>8, <1>9, <1>13, <2>1
  <2> QED
    BY <2>2 DEF Stopping
<1> QED
  BY <1>13, <1>14 DEF IInv

LEMMA DeleteInv == ASSUME IInv, DeleteInstance PROVE IInv'
<1> DEFINE a == stack[1].app
           n == stack[1].n
           i == <<a, n>>
<1>1. /\ stack \in Seq(Frames) /\ stack # <<>> /\ Top = stack[1] /\ 1 \in Pos
      /\ stack[1] \in Frames /\ FrameOK(stack[1]) /\ stack[1].op = "delete"
      /\ stack[1].op \in TakeOps
  BY Innermost DEF DeleteInstance, TakeOps
<1>2. a \in Apps /\ n \in Nat /\ i \in Instances /\ i[1] = a /\ i[2] = n
  BY <1>1 DEF FrameOK, Frames, Item
<1>3. /\ UNCHANGED <<app_, normal_, inormal, running, ctx, next>>
      /\ life' = [life EXCEPT ![i] = "deleted"] /\ Goto("release", n + 1)
  BY <1>1 DEF DeleteInstance
<1> HIDE DEF i
<1>4. \A m \in Instances : m[1] = a =>
         life[m] = IF m[2] < n THEN "deleted" ELSE IF m[2] = n THEN "destroyed" ELSE "created"
  BY <1>1, TakeTop DEF Removed
<1>5. ~running[i]
  BY <1>2, <1>4 DEF IInv, Sessions
<1>6. Shape(0) /\ Turned(stack'[1], "release", n + 1)
  <2>1. "release" \in Ops /\ n + 1 \in Nat
    BY <1>2 DEF Ops, TakeOps
  <2> QED
    BY <1>1, <1>3, <2>1, OnGoto
<1>7. /\ stack'[1].op = "release" /\ stack'[1].app = a /\ stack'[1].n = n + 1
  BY <1>6 DEF Turned
<1>8. FrameOK(stack'[1]) /\ stack'[1].op \in TakeOps
  BY <1>2, <1>7 DEF FrameOK, TakeOps, CallOps
<1>9. life' \in [Instances -> {"none", "new", "created", "destroyed", "deleted"}]
  BY <1>3 DEF IInv, Types
<1>10. \A m \in Instances : life'[m] = IF m = i THEN "deleted" ELSE life[m]
  BY <1>2, <1>3 DEF IInv, Types
<1>11. ASSUME NEW m \in Instances, m[1] = a PROVE life'[m] = Removed(stack'[1], m[2])
  <2>1. m = i <=> m[2] = n
    BY <1>2, <1>11, Pairs DEF i
  <2>2. m[2] \in Nat
    BY Pairs, CoreAssumption
  <2> QED
    BY <1>2, <1>4, <1>7, <1>10, <1>11, <2>1, <2>2 DEF Removed
<1>12. /\ Types' /\ Phase' /\ Registry' /\ Building' /\ Sessions' /\ Failing' /\ Removing'
       /\ stack'[2 + 0].op = "uninstall" /\ Pos' = 1 .. 2 + 0
  <2>1. 0 \in {0, 1} /\ 1 + 0 = 1
    OBVIOUS
  <2> QED
    BY <1>1, <1>2, <1>3, <1>5, <1>6, <1>7, <1>8, <1>9, <1>10, <1>11, <2>1, TakeStep
<1>13. Stopping'
  <2>1. \A j \in Pos' : j = 1 \/ j = 2
    BY <1>12
  <2>2. \A j \in Pos' : stack'[j].op # "destroy"
    BY <1>7, <1>12, <2>1
  <2> QED
    BY <2>2 DEF Stopping
<1> QED
  BY <1>12, <1>13 DEF IInv

-----------------------------------------------------------------------------
(* Main() and the requests                                                   *)

LEMMA InitInv == Init => IInv
<1> SUFFICES ASSUME Init PROVE IInv
  OBVIOUS
<1>1. stack = <<>> /\ app_ = <<>> /\ next = 1 /\ Pos = {}
  BY DEF Init, Pos
<1>2. Types
  <2>1. app_ \in Seq(Apps) /\ stack \in Seq(Frames)
    BY <1>1
  <2>2. life \in [Instances -> {"none", "new", "created", "destroyed", "deleted"}]
    BY DEF Init
  <2>3. /\ inormal \in [Instances -> BOOLEAN] /\ running \in [Instances -> BOOLEAN]
        /\ ctx \in [Instances -> SUBSET Nat] /\ \A i \in Instances : ctx[i] = {}
    BY DEF Init
  <2> QED
    BY <1>1, <2>1, <2>2, <2>3 DEF Types
<1> QED
  BY <1>1, <1>2 DEF Init, IInv, Phase, Registry, Building, Sessions, Failing, Stopping, Removing

\* A call from outside while none is in progress.
LEMMA CallBegins ==
    ASSUME IInv, stack = <<>>, next # -1, NEW f \in Frames, FrameOK(f), stack' = <<f>>,
           f.op \in {"install", "start", "stop"},
           f.op = "start" => life[Inst(f)] = "created",
           UNCHANGED <<app_, life, inormal, running, ctx>>,
           next' \in Int, next' # -1
    PROVE  IInv'
<1>1. stack' \in Seq(Frames) /\ Len(stack') = 1 /\ stack'[1] = f /\ Pos' = {1} /\ Pos = {}
  BY DEF Pos
<1>2. Types'
  BY <1>1 DEF IInv, Types, FrameOK, Inst, Item
<1>3. Phase' /\ Registry' /\ Building' /\ Sessions' /\ Failing' /\ Stopping' /\ Removing'
  <2>1. Phase'
    BY <1>1 DEF IInv, Phase, CallOps
  <2>2. Registry'
    BY DEF IInv, Registry
  <2>3. Building'
    BY <1>1 DEF IInv, Building, BuildOps
  <2>4. Sessions'
    BY <1>1 DEF IInv, Sessions, Inst
  <2> QED
    BY <1>1, <2>1, <2>2, <2>3, <2>4 DEF Failing, Stopping, Removing
<1> QED
  BY <1>2, <1>3 DEF IInv

LEMMA MainInstallsInv == ASSUME IInv, MainInstalls PROVE IInv'
<1> DEFINE f == Frame("install", Main[next], 0, 0)
<1>1. Main[next] \in Apps /\ Len(Main) \in Nat /\ next \in 1 .. Len(Main)
  BY CoreAssumption DEF MainInstalls
<1>2. f \in Frames /\ FrameOK(f) /\ f.op = "install"
  BY <1>1 DEF Frame, Frames, FrameOK, Ops, CallOps
<1>3. next' \in Int /\ next' # -1 /\ next # -1
  BY <1>1 DEF MainInstalls
<1>4. stack = <<>> /\ stack' = <<f>> /\ UNCHANGED <<app_, life, inormal, running, ctx>>
  BY DEF MainInstalls
<1> QED
  BY <1>2, <1>3, <1>4, CallBegins

LEMMA RequestInv == ASSUME IInv, NEW op \in {"start", "stop"}, Request(op) PROVE IInv'
<1>1. PICK i \in Instances : Installed(i[1]) /\ stack' = <<Frame(op, i[1], i[2], 0)>>
  BY DEF Request
<1> DEFINE f == Frame(op, i[1], i[2], 0)
<1>2. i = <<i[1], i[2]>> /\ i[1] \in Apps /\ i[2] \in Nat
  BY Pairs, CoreAssumption
<1>3. f \in Frames /\ FrameOK(f) /\ f.op = op /\ Inst(f) = i
  BY <1>2 DEF Frame, Frames, FrameOK, Ops, CallOps, Inst
<1>4. /\ stack = <<>> /\ next = 0 /\ next' = next
      /\ UNCHANGED <<app_, life, inormal, running, ctx>>
  BY DEF Request
<1>5. life[i] = "created"
  <2>1. \E k \in 1 .. Len(app_) : app_[k] = i[1]
    <3>1. app_ \in Seq(Apps) /\ i[1] \in ToSet(app_)
      BY <1>1 DEF Installed, IInv, Types
    <3> QED
      BY <3>1 DEF ToSet
  <2>2. life[i] # "none"
    BY <1>4, <2>1 DEF IInv, Registry
  <2>3. life[i] # "new"
    BY <1>4 DEF IInv, Building, Pos
  <2> QED
    BY <1>4, <2>2, <2>3 DEF IInv, Phase
<1>6. next' \in Int /\ next' # -1 /\ next # -1
  BY <1>4 DEF IInv, Types
<1> HIDE DEF f
<1> QED
  BY <1>1, <1>3, <1>4, <1>5, <1>6, CallBegins DEF f

LEMMA MainUninstallsInv == ASSUME IInv, MainUninstalls PROVE IInv'
<1> DEFINE f == Frame("uninstall", "core", 0, Len(app_))
<1>1. app_ \in Seq(Apps) /\ Len(app_) \in Nat
  BY DEF IInv, Types
<1>2. f \in Frames /\ FrameOK(f) /\ f.op = "uninstall" /\ f.n = Len(app_)
  BY <1>1 DEF Frame, Frames, FrameOK, Ops, CallOps
<1>3. /\ stack = <<>> /\ stack' = <<f>> /\ next = 0 /\ next' = -1
      /\ UNCHANGED <<app_, life, inormal, running, ctx>>
  BY DEF MainUninstalls
<1> HIDE DEF f
<1>4. stack' \in Seq(Frames) /\ Len(stack') = 1 /\ stack'[1] = f /\ Pos' = {1} /\ Pos = {}
      /\ stack' # <<>>
  BY <1>2, <1>3 DEF Pos
<1>5. Types'
  BY <1>2, <1>3, <1>4 DEF IInv, Types, FrameOK, Inst, Item
<1>6. Phase' /\ Registry' /\ Building' /\ Sessions' /\ Failing' /\ Stopping'
  <2>1. Phase'
    BY <1>2, <1>3, <1>4 DEF Phase
  <2>2. Registry'
    BY <1>3 DEF IInv, Registry
  <2>3. Building'
    BY <1>2, <1>3, <1>4 DEF IInv, Building, BuildOps
  <2>4. Sessions'
    BY <1>2, <1>3, <1>4 DEF IInv, Sessions
  <2> QED
    BY <1>2, <1>4, <2>1, <2>2, <2>3, <2>4 DEF Failing, Stopping
<1>7. Removing'
  <2>1. ASSUME NEW i \in Instances, NEW m \in 1 .. Len(app_), app_[m] = i[1]
        PROVE  life[i] = "created"
    <3>1. life[i] # "none"
      BY <1>3, <2>1 DEF IInv, Registry
    <3>2. life[i] # "new"
      BY <1>4 DEF IInv, Building
    <3> QED
      BY <1>3, <3>1, <3>2 DEF IInv, Phase
  <2> QED
    BY <1>1, <1>2, <1>3, <1>4, <2>1 DEF Removing, TakeOps, Removed
<1> QED
  BY <1>5, <1>6, <1>7 DEF IInv

LEMMA NextInv == ASSUME AllComeUp, IInv, [Next]_vars PROVE IInv'
<1>1. CASE UNCHANGED vars
  BY <1>1 DEF vars, IInv, Types, Phase, Registry, Building, Sessions, Failing, Stopping,
     Removing, Pos, FrameOK, Inst, Item, Made, Removed
<1>2. CASE CallStep
  BY <1>2, InstallInv, InitAppInv, ImportInv, CreateInstanceInv, InstanceCreatedInv,
     AllCreatedInv, StartInv, SetUpInv, StopInv, ExitInv, UninstallInv, ReleaseInv,
     DestroyInv, DeleteInv DEF CallStep
<1>3. CASE MainInstalls \/ MainUninstalls
  BY <1>3, MainInstallsInv, MainUninstallsInv
<1>4. CASE Request("start") \/ Request("stop")
  BY <1>4, RequestInv
<1> QED
  BY <1>1, <1>2, <1>3, <1>4 DEF Next

LEMMA Invariant == ASSUME AllComeUp PROVE Spec => []IInv
<1>1. Init => IInv
  BY InitInv
<1>2. IInv /\ [Next]_vars => IInv'
  BY NextInv
<1> QED
  BY <1>1, <1>2, PTL DEF Spec

-----------------------------------------------------------------------------
(* What follows                                                              *)

\* No app is entered twice, whatever the inits of apps install in the course of
\* an install (core::check, core.cpp).
THEOREM UniqueNames == ASSUME AllComeUp PROVE Spec => []NamesUnique
<1>1. IInv => NamesUnique
  BY DEF IInv, Types, Registry, NamesUnique, IsInjective
<1> QED
  BY <1>1, Invariant, PTL

\* When the shutdown is over, every app is out of the registry and every
\* instance that was there is deleted (core::uninstall_all, app::release).
THEOREM Shutdown == ASSUME AllComeUp PROVE Spec => []NothingLeft
<1>1. IInv => NothingLeft
  BY DEF IInv, Removing, NothingLeft
<1> QED
  BY <1>1, Invariant, PTL

-----------------------------------------------------------------------------
(* Core implements InstanceLife                                              *)

Stage == [i \in Instances |->
             CASE life[i] \in {"none", "new"} -> "new"
               [] life[i] = "created" -> "created"
               [] OTHER -> "destroyed"]

\* Only these steps are steps of InstanceLife; in the others it stutters.
LEMMA SameStage ==
    ASSUME \A i \in Instances :
               life'[i] = life[i] \/ (life[i] = "none" /\ life'[i] = "new")
    PROVE  Stage' = Stage
BY DEF Stage

LEMMA NextStage ==
    ASSUME IInv, NEW i \in Instances, NEW l \in {"created", "destroyed", "deleted"},
           life' = [life EXCEPT ![i] = l],
           NEW s \in {"created", "destroyed"}, s = "created" <=> l = "created"
    PROVE  Stage' = [Stage EXCEPT ![i] = s]
<1>1. \A j \in Instances : life'[j] = IF j = i THEN l ELSE life[j]
  BY DEF IInv, Types
<1>2. \A j \in Instances : Stage'[j] = IF j = i THEN s ELSE Stage[j]
  BY <1>1 DEF Stage
<1> QED
  BY <1>2 DEF Stage

LEMMA Quiet ==
    ASSUME UNCHANGED <<life, running>>
    PROVE  UNCHANGED Lives!lifeVars
BY DEF Lives!lifeVars

LEMMA NextLives ==
    ASSUME AllComeUp, IInv, [Next]_vars
    PROVE  [Lives!LNext]_(Lives!lifeVars)
<1>a. /\ Lives!lifeVars = <<Stage, running>> /\ Lives!lifeVars' = <<Stage', running'>>
      /\ running \in [Instances -> BOOLEAN]
  BY DEF Lives!lifeVars, Stage, IInv, Types
<1>b. \A i \in Instances : life[i] = "created" => Stage[i] = "created"
  BY DEF Stage
<1>1. CASE UNCHANGED vars
  BY <1>1, Quiet DEF vars
<1>2. CASE MainInstalls \/ MainUninstalls \/ Request("start") \/ Request("stop")
  BY <1>2, Quiet DEF MainInstalls, MainUninstalls, Request
<1>3. CASE InitApp \/ Import \/ InstanceCreated \/ AllCreated \/ StartInstance \/ StopInstance
           \/ Uninstall \/ Release
  BY <1>3, Quiet DEF InitApp, Import, InstanceCreated, AllCreated, StartInstance, StopInstance,
     Uninstall, Release
<1>4. CASE Install
  <2>1. \A i \in Instances : life'[i] = life[i] \/ (life[i] = "none" /\ life'[i] = "new")
    <3>1. CASE Installed(Top.app)
      BY <1>4, <3>1 DEF Install
    <3>2. CASE ~Installed(Top.app)
      <4>1. life' = [i \in Instances |-> IF i[1] = Top.app THEN "new" ELSE life[i]]
        BY <1>4, <3>2 DEF Install
      <4>2. next # -1
        BY <1>4, Innermost DEF Install, IInv, Phase, TakeOps
      <4>3. \A i \in Instances : i[1] = Top.app => life[i] = "none"
        BY <3>2, <4>2 DEF Installed, ToSet, IInv, Types, Registry
      <4> QED
        BY <4>1, <4>3
    <3> QED
      BY <3>1, <3>2
  <2>2. running' = running
    BY <1>4 DEF Install
  <2> QED
    BY <1>a, <2>1, <2>2, SameStage
<1>5. CASE CreateInstance
  <2>1. /\ Top = stack[1] /\ 1 \in Pos /\ stack[1].op = "create" /\ stack[1] \in Frames
        /\ FrameOK(stack[1])
    BY <1>5, Innermost DEF CreateInstance
  <2>2. stack[1].app \in Apps /\ stack[1].n \in 1 .. Count[stack[1].app]
    BY <1>5, <2>1, CoreAssumption DEF CreateInstance, FrameOK, Frames
  <2>3. PICK i \in Instances :
             i = <<stack[1].app, stack[1].n>> /\ i[1] = stack[1].app /\ i[2] = stack[1].n
    BY <2>2, Pairs
  <2>4. life[i] = "new"
    BY <2>1, <2>2, <2>3 DEF IInv, Building, Made, BuildOps
  <2>5. life' = [life EXCEPT ![i] = "created"] /\ running' = running
    BY <1>5, <2>1, <2>3 DEF CreateInstance
  <2>6. Stage[i] = "new"
    BY <2>3, <2>4 DEF Stage
  <2>7. Stage' = [Stage EXCEPT ![i] = "created"]
    BY <2>3, <2>5, NextStage
  <2>8. Lives!Create(i)
    BY <2>5, <2>6, <2>7 DEF Lives!Create, Stage
  <2> QED
    BY <2>3, <2>8 DEF Lives!LNext
<1>6. CASE SetUp
  <2>1. /\ Top = stack[1] /\ 1 \in Pos /\ stack[1].op = "setup" /\ FrameOK(stack[1])
    BY <1>6, Innermost DEF SetUp
  <2>2. TopInst = Inst(stack[1]) /\ TopInst \in Instances /\ life[TopInst] = "created"
    BY <2>1 DEF TopInst, Inst, FrameOK, CallOps, IInv, Sessions
  <2>3. Stage' = Stage
    BY <1>6, SameStage DEF SetUp
  <2>4. running' = [running EXCEPT ![TopInst] = TRUE] \/ running' = running
    BY <1>6 DEF SetUp
  <2>5. CASE running' = [running EXCEPT ![TopInst] = TRUE] /\ ~running[TopInst]
    <3>1. Lives!BeginSession(TopInst)
      BY <1>b, <2>2, <2>3, <2>5 DEF Lives!BeginSession, Stage
    <3> QED
      BY <2>2, <3>1 DEF Lives!LNext
  <2>6. CASE running' = [running EXCEPT ![TopInst] = TRUE] /\ running[TopInst]
    <3>1. running' = running
      BY <1>a, <2>2, <2>6
    <3> QED
      BY <1>a, <2>3, <3>1
  <2>7. CASE running' = running
    BY <1>a, <2>3, <2>7
  <2> QED
    BY <2>4, <2>5, <2>6, <2>7
<1>7. CASE Exit
  <2>1. /\ Top = stack[1] /\ 1 \in Pos /\ stack[1].op = "exit" /\ FrameOK(stack[1])
    BY <1>7, Innermost DEF Exit
  <2>2. TopInst \in Instances
    BY <2>1 DEF TopInst, Inst, FrameOK, CallOps
  <2>3. Stage' = Stage
    BY <1>7, SameStage DEF Exit
  <2>4. running' = [running EXCEPT ![TopInst] = FALSE] \/ running' = running
    BY <1>7 DEF Exit
  <2>5. CASE running' = [running EXCEPT ![TopInst] = FALSE] /\ running[TopInst]
    <3>1. life[TopInst] = "created"
      BY <2>2, <2>5 DEF IInv, Sessions
    <3>2. Lives!EndSession(TopInst)
      BY <1>b, <2>2, <2>3, <2>5, <3>1 DEF Lives!EndSession, Stage
    <3> QED
      BY <2>2, <3>2 DEF Lives!LNext
  <2>6. CASE running' = [running EXCEPT ![TopInst] = FALSE] /\ ~running[TopInst]
    <3>1. running' = running
      BY <1>a, <2>2, <2>6
    <3> QED
      BY <1>a, <2>3, <3>1
  <2>7. CASE running' = running
    BY <1>a, <2>3, <2>7
  <2> QED
    BY <2>4, <2>5, <2>6, <2>7
<1>8. CASE DestroyInstance
  <2>1. /\ Top = stack[1] /\ 1 \in Pos /\ stack[1].op = "destroy" /\ stack[1] \in Frames
        /\ FrameOK(stack[1]) /\ stack # <<>> /\ stack[1].op \in TakeOps
    BY <1>8, Innermost DEF DestroyInstance, TakeOps
  <2>2. PICK i \in Instances : /\ i = <<stack[1].app, stack[1].n>> /\ i = Item(stack[1])
                               /\ i[1] = stack[1].app /\ i[2] = stack[1].n
                               /\ stack[1].app \in Apps /\ stack[1].n \in Nat
    BY <2>1 DEF FrameOK, Frames, Item
  <2>3. life[i] = "created" /\ ~running[i]
    <3>1. life[i] = Removed(stack[1], i[2])
      BY <2>1, <2>2, TakeTop
    <3>2. ~running[i]
      BY <2>1, <2>2 DEF IInv, Stopping
    <3> QED
      BY <2>1, <2>2, <3>1, <3>2 DEF Removed
  <2>4. life' = [life EXCEPT ![i] = "destroyed"] /\ running' = running
    BY <1>8, <2>1, <2>2 DEF DestroyInstance, AllComeUp
  <2>5. Stage' = [Stage EXCEPT ![i] = "destroyed"]
    BY <2>2, <2>4, NextStage
  <2>6. Lives!Destroy(i)
    BY <1>b, <2>2, <2>3, <2>4, <2>5 DEF Lives!Destroy, Stage
  <2> QED
    BY <2>2, <2>6 DEF Lives!LNext
<1>9. CASE DeleteInstance
  <2>1. /\ Top = stack[1] /\ 1 \in Pos /\ stack[1].op = "delete" /\ stack[1] \in Frames
        /\ FrameOK(stack[1]) /\ stack # <<>> /\ stack[1].op \in TakeOps
    BY <1>9, Innermost DEF DeleteInstance, TakeOps
  <2>2. PICK i \in Instances : /\ i = <<stack[1].app, stack[1].n>> /\ stack[1].n \in Nat
                               /\ i[1] = stack[1].app /\ i[2] = stack[1].n
    BY <2>1 DEF FrameOK, Frames, Item
  <2>3. life[i] = "destroyed"
    <3>1. life[i] = Removed(stack[1], i[2])
      BY <2>1, <2>2, TakeTop
    <3> QED
      BY <2>1, <2>2, <3>1 DEF Removed
  <2>4. life' = [life EXCEPT ![i] = "deleted"] /\ running' = running
    BY <1>9, <2>1, <2>2 DEF DeleteInstance
  <2>5. Stage' = [Stage EXCEPT ![i] = "destroyed"]
    BY <2>2, <2>4, NextStage
  <2>6. Stage[i] = "destroyed"
    BY <2>2, <2>3 DEF Stage
  <2>7. Stage' = Stage
    BY <2>2, <2>5, <2>6 DEF Stage
  <2> QED
    BY <1>a, <2>4, <2>7
<1> QED
  BY <1>1, <1>2, <1>3, <1>4, <1>5, <1>6, <1>7, <1>8, <1>9 DEF Next, CallStep

\* The callbacks of every instance come in the order of its life: create, then
\* sessions of its task, each from setup to exit, then destroy, whatever other
\* instances a service starts and stops from its own callbacks (instance.create,
\* start, stop and destroy, core.cpp).
THEOREM Lifecycle == ASSUME AllComeUp PROVE Spec => CallbackOrder
<1>1. Init => Lives!LInit
  BY DEF Init, Lives!LInit
<1>2. IInv /\ [Next]_vars => [Lives!LNext]_(Lives!lifeVars)
  BY NextLives
<1> QED
  BY <1>1, <1>2, Invariant, PTL DEF Spec, CallbackOrder, Lives!LSpec

-----------------------------------------------------------------------------
(* A service and its subtasks                                                *)

\* What service.cpp has for an init (nullptr), and where its subtasks may be:
\* among the instances of its own application only itself and those that come
\* after it, which it does not find.
SubtasksApart ==
    /\ \A a \in Services : Imports[a] = <<>>
    /\ \A i \in Instances : i[1] \in Services => \A k \in DOMAIN Subtasks[i] :
         LET s == Subtasks[i][k] IN s[1] = i[1] => s[2] >= i[2]

\* An install in progress was called by the imports below it, none of a service.
Nested ==
    \A j, k \in Pos : /\ j < k
                      /\ stack[j].op \in BuildOps \cup {"install"}
                      /\ stack[k].op \in BuildOps
                      => stack[k].app \notin Services

\* So a service is the last of the registry while its instances are created,
Newest ==
    \A j \in Pos : stack[j].op \in BuildOps /\ stack[j].app \in Services =>
        app_[Len(app_)] = stack[j].app

\* and what it has found comes before it in the registry, or is no earlier
\* instance of its own.
Before(a, b) == \E m, n \in 1 .. Len(app_) : m < n /\ app_[m] = a /\ app_[n] = b

Found(i, s) == (s[1] = i[1] /\ s[2] >= i[2]) \/ Before(s[1], i[1])

Order ==
    next # -1 \/ stack # <<>> =>
        \A i \in Instances : \A k \in ctx[i] : Found(i, Subtasks[i][k])

Reached ==
    \A j \in Pos : /\ stack[j].op = "exit" => life[Inst(stack[j])] = "created"
                   /\ stack[j].op = "stop" =>
                        life[Inst(stack[j])] \in {"new", "created", "destroyed"}

SInv == Nested /\ Newest /\ Order /\ Reached

LEMMA NestedKeep ==
    ASSUME Nested, NEW d \in {-1, 0, 1}, Shape(d),
           \A j \in 1 .. 1 + d : stack'[j].op \in BuildOps \cup {"install"} =>
               stack[1].op \in BuildOps \cup {"install"},
           d = 1 /\ stack'[1].op \in BuildOps \cup {"install"} /\ stack'[2].op \in BuildOps =>
               stack'[2].app \notin Services
    PROVE  Nested'
<1> SUFFICES ASSUME NEW j \in Pos', NEW k \in Pos', j < k,
                    stack'[j].op \in BuildOps \cup {"install"}, stack'[k].op \in BuildOps
             PROVE  stack'[k].app \notin Services
  BY DEF Nested
<1>1. j \in Nat /\ k \in Nat /\ j > 0
  BY DEF Pos, Shape
<1>2. CASE k \in 1 .. 1 + d
  <2>1. d = 1 /\ j = 1 /\ k = 2
    BY <1>1, <1>2
  <2> QED
    BY <2>1
<1>3. CASE k \notin 1 .. 1 + d
  <2>1. k > 1 + d /\ k - d \in Pos \ {1} /\ stack'[k] = stack[k - d]
    BY <1>3, Places
  <2>2. CASE j \in 1 .. 1 + d
    <3>1. 1 \in Pos /\ 1 < k - d
      BY <1>1, <2>1 DEF Pos, Shape
    <3> QED
      BY <2>1, <2>2, <3>1 DEF Nested
  <2>3. CASE j \notin 1 .. 1 + d
    <3>1. j - d \in Pos /\ stack'[j] = stack[j - d] /\ j - d < k - d
      BY <1>1, <2>3, Places
    <3> QED
      BY <2>1, <3>1 DEF Nested
  <2> QED
    BY <2>2, <2>3
<1> QED
  BY <1>2, <1>3

LEMMA NewestKeep ==
    ASSUME Newest, NEW d \in {-1, 0, 1}, Shape(d), UNCHANGED app_,
           \A j \in 1 .. 1 + d : stack'[j].op \in BuildOps =>
               stack[1].op \in BuildOps /\ stack'[j].app = stack[1].app
    PROVE  Newest'
<1> SUFFICES ASSUME NEW j \in Pos', stack'[j].op \in BuildOps, stack'[j].app \in Services
             PROVE  app_[Len(app_)] = stack'[j].app
  BY DEF Newest
<1>1. CASE j \in 1 .. 1 + d
  <2>1. 1 \in Pos
    BY DEF Pos, Shape
  <2> QED
    BY <1>1, <2>1 DEF Newest
<1>2. CASE j \notin 1 .. 1 + d
  BY <1>2, Places DEF Newest
<1> QED
  BY <1>1, <1>2

LEMMA ReachedKeep ==
    ASSUME Reached, NEW d \in {-1, 0, 1}, Shape(d),
           \A j \in Pos : /\ j > 1 /\ stack[j].op = "exit" => life'[Inst(stack[j])] = "created"
                          /\ j > 1 /\ stack[j].op = "stop" =>
                               life'[Inst(stack[j])] \in {"new", "created", "destroyed"},
           \A j \in 1 .. 1 + d :
               /\ stack'[j].op = "exit" => life'[Inst(stack'[j])] = "created"
               /\ stack'[j].op = "stop" =>
                    life'[Inst(stack'[j])] \in {"new", "created", "destroyed"}
    PROVE  Reached'
<1>1. ASSUME NEW j \in Pos'
      PROVE  /\ stack'[j].op = "exit" => life'[Inst(stack'[j])] = "created"
             /\ stack'[j].op = "stop" =>
                  life'[Inst(stack'[j])] \in {"new", "created", "destroyed"}
  <2>1. CASE j \in 1 .. 1 + d
    BY <2>1
  <2>2. CASE j \notin 1 .. 1 + d
    <3>1. j - d \in Pos /\ j - d > 1 /\ stack'[j] = stack[j - d]
      BY <2>2, Places DEF Pos
    <3> QED
      BY <3>1
  <2> QED
    BY <2>1, <2>2
<1> QED
  BY <1>1 DEF Reached, Inst

\* A step that neither enters an app, nor creates, destroys or deletes.
LEMMA ApartKeep ==
    ASSUME SInv, NEW d \in {-1, 0, 1}, Shape(d), UNCHANGED <<app_, life, ctx, next>>,
           \A j \in 1 .. 1 + d :
               /\ stack'[j].op \in BuildOps =>
                    stack[1].op \in BuildOps /\ stack'[j].app = stack[1].app
               /\ stack'[j].op = "install" => stack[1].op \in BuildOps
               /\ stack'[j].op = "exit" => life[Inst(stack'[j])] = "created"
               /\ stack'[j].op = "stop" =>
                    life[Inst(stack'[j])] \in {"new", "created", "destroyed"},
           d = 1 /\ stack'[1].op \in BuildOps \cup {"install"} => stack'[2].app \notin Services
    PROVE  SInv'
<1>1. Nested'
  <2>1. \A j \in 1 .. 1 + d : stack'[j].op \in BuildOps \cup {"install"} =>
               stack[1].op \in BuildOps \cup {"install"}
    OBVIOUS
  <2> QED
    BY <2>1, NestedKeep DEF SInv
<1>2. Newest'
  BY NewestKeep DEF SInv
<1>3. Reached'
  <2>1. \A j \in Pos : /\ j > 1 /\ stack[j].op = "exit" => life'[Inst(stack[j])] = "created"
                       /\ j > 1 /\ stack[j].op = "stop" =>
                            life'[Inst(stack[j])] \in {"new", "created", "destroyed"}
    BY DEF SInv, Reached
  <2> QED
    BY <2>1, ReachedKeep DEF SInv
<1>4. Order'
  <2>1. stack # <<>>
    BY DEF Shape
  <2> QED
    BY <2>1 DEF SInv, Order, Found, Before
<1> QED
  BY <1>1, <1>2, <1>3, <1>4 DEF SInv

\* An innermost call returns or goes on by itself.
LEMMA ApartReturn ==
    ASSUME SInv, stack \in Seq(Frames), stack # <<>>, Return, UNCHANGED <<app_, life, ctx, next>>
    PROVE  SInv'
<1>1. Shape(-1)
  BY OnReturn
<1> QED
  BY <1>1, ApartKeep

LEMMA ApartGoto ==
    ASSUME SInv, stack \in Seq(Frames), stack # <<>>, UNCHANGED <<app_, life, ctx, next>>,
           NEW op \in Ops \ {"install", "stop"}, NEW n \in Nat, Goto(op, n),
           op \in BuildOps => stack[1].op \in BuildOps,
           op = "exit" => life[Inst(stack[1])] = "created"
    PROVE  SInv'
<1>1. Shape(0) /\ Turned(stack'[1], op, n)
  BY OnGoto
<1>2. stack'[1].op = op /\ stack'[1].app = stack[1].app /\ Inst(stack'[1]) = Inst(stack[1])
  BY <1>1 DEF Turned, Inst
<1> QED
  BY <1>1, <1>2, ApartKeep

\* A call of an instance; the caller goes on with the operation it was in.
LEMMA ApartCall ==
    ASSUME SInv, stack \in Seq(Frames), stack # <<>>, UNCHANGED <<app_, life, ctx, next>>,
           NEW f \in Frames, NEW op \in Ops \ (BuildOps \cup {"install", "stop"}), NEW n \in Nat,
           Call(f, op, n), f.op \in {"start", "stop", "release"},
           f.op = "stop" => life[Inst(f)] \in {"new", "created", "destroyed"},
           op = "exit" => life[Inst(stack[1])] = "created"
    PROVE  SInv'
<1>1. Shape(1) /\ stack'[1] = f /\ Turned(stack'[2], op, n)
  BY OnCall
<1>2. stack'[2].op = op /\ stack'[2].app = stack[1].app /\ Inst(stack'[2]) = Inst(stack[1])
  BY <1>1 DEF Turned, Inst
<1>3. f.op \notin BuildOps \cup {"install", "exit"}
  BY DEF BuildOps
<1> QED
  BY <1>1, <1>2, <1>3, ApartKeep

LEMMA InitAppApart == ASSUME IInv, SInv, InitApp PROVE SInv'
<1>1. /\ stack \in Seq(Frames) /\ stack # <<>> /\ Top = stack[1] /\ stack[1].op = "init"
      /\ UNCHANGED <<app_, life, ctx, next>>
  BY Innermost DEF InitApp
<1>2. CASE Return
  BY <1>1, <1>2, ApartReturn
<1>3. CASE Goto("import", 1)
  BY <1>1, <1>3, ApartGoto DEF Ops, BuildOps
<1> QED
  BY <1>2, <1>3 DEF InitApp

LEMMA ImportApart == ASSUME SubtasksApart, IInv, SInv, Import PROVE SInv'
<1>a. /\ stack \in Seq(Frames) /\ stack # <<>> /\ Top = stack[1] /\ stack[1].op = "import"
      /\ UNCHANGED <<app_, life, ctx, next>> /\ stack[1] \in Frames /\ FrameOK(stack[1])
  BY Innermost DEF Import
<1>b. stack[1].app \in Apps /\ stack[1].n \in Nat /\ stack[1].n > 0
  BY <1>a DEF Frames, FrameOK
<1>1. /\ stack \in Seq(Frames) /\ stack # <<>> /\ Top = stack[1] /\ stack[1].op = "import"
      /\ UNCHANGED <<app_, life, ctx, next>> /\ stack[1].app \in Apps /\ stack[1].n \in Nat
      /\ stack[1].n > 0
  BY <1>a, <1>b
<1>2. CASE stack[1].n <= Len(Imports[stack[1].app])
           /\ Call(Frame("install", Imports[stack[1].app][stack[1].n], 0, 0), "import", stack[1].n + 1)
  <2> DEFINE f == Frame("install", Imports[stack[1].app][stack[1].n], 0, 0)
  <2>1. f \in Frames /\ f.op = "install"
    BY <1>1, <1>2, CoreAssumption DEF Frame, Frames, Ops
  <2>2. "import" \in Ops /\ stack[1].n + 1 \in Nat
    BY <1>1 DEF Ops, BuildOps
  <2>3. Shape(1) /\ stack'[1] = f /\ Turned(stack'[2], "import", stack[1].n + 1)
    BY <1>1, <1>2, <2>1, <2>2, OnCall
  <2>4. stack'[2].op = "import" /\ stack'[2].app = stack[1].app
    BY <2>3 DEF Turned
  <2>5. stack[1].app \notin Services
    BY <1>1, <1>2 DEF SubtasksApart
  <2> QED
    BY <1>1, <2>1, <2>3, <2>4, <2>5, ApartKeep DEF BuildOps
<1>3. CASE Return
  BY <1>1, <1>3, ApartReturn
<1>4. CASE Goto("create", 1)
  BY <1>1, <1>4, ApartGoto DEF Ops, BuildOps
<1> QED
  BY <1>1, <1>2, <1>3, <1>4 DEF Import

LEMMA InstanceCreatedApart == ASSUME IInv, SInv, InstanceCreated PROVE SInv'
<1>1. /\ stack \in Seq(Frames) /\ stack # <<>> /\ Top = stack[1] /\ stack[1].op = "created"
      /\ UNCHANGED <<app_, life, ctx, next>> /\ stack[1].n \in Nat
  BY Innermost DEF InstanceCreated, Frames
<1> QED
  BY <1>1, ApartGoto DEF InstanceCreated, Ops, BuildOps

LEMMA StartApart == ASSUME IInv, SInv, StartInstance PROVE SInv'
<1>1. /\ stack \in Seq(Frames) /\ stack # <<>> /\ UNCHANGED <<app_, life, ctx, next>>
  BY Innermost DEF StartInstance
<1>2. CASE Goto("setup", 0)
  BY <1>1, <1>2, ApartGoto DEF Ops, BuildOps, CallOps
<1> QED
  BY <1>1, <1>2, ApartReturn DEF StartInstance

LEMMA SetUpApart == ASSUME IInv, SInv, SetUp PROVE SInv'
<1>1. /\ stack \in Seq(Frames) /\ stack # <<>> /\ UNCHANGED <<app_, life, ctx, next>>
      /\ Top = stack[1] /\ FrameOK(stack[1]) /\ stack[1].op = "setup"
  BY Innermost DEF SetUp
<1>2. TopInst \in Instances
  BY <1>1 DEF FrameOK, TopInst, Inst, CallOps
<1>3. ASSUME NEW k \in ctx[TopInst], CallSubtask("start", "setup", k)
      PROVE  SInv'
  <2>1. k \in Nat /\ "setup" \in Ops /\ "setup" \notin BuildOps
    BY <1>2 DEF IInv, Types, Ops, CallOps, BuildOps
  <2>2. PICK i \in Instances :
             /\ Call(Frame("start", i[1], i[2], 0), "setup", k)
             /\ Frame("start", i[1], i[2], 0) \in Frames
             /\ Frame("start", i[1], i[2], 0).op = "start"
    BY <1>2, <1>3, <2>1, SubtaskFrame
  <2> QED
    BY <1>1, <2>1, <2>2, ApartCall
<1> QED
  BY <1>1, <1>3, ApartReturn DEF SetUp

LEMMA StopApart == ASSUME IInv, SInv, StopInstance PROVE SInv'
<1>1. /\ stack \in Seq(Frames) /\ stack # <<>> /\ UNCHANGED <<app_, life, ctx, next>>
      /\ Top = stack[1] /\ FrameOK(stack[1]) /\ stack[1].op = "stop"
  BY Innermost DEF StopInstance
<1>2. TopInst = Inst(stack[1]) /\ TopInst \in Instances
  BY <1>1 DEF FrameOK, TopInst, Inst, CallOps
<1>3. CASE running[TopInst] /\ Goto("exit", Len(Subtasks[TopInst]) + 1)
  <2>1. Len(Subtasks[TopInst]) + 1 \in Nat /\ "exit" \in Ops /\ "exit" \notin BuildOps
    BY <1>2, CoreAssumption DEF Ops, CallOps, BuildOps
  <2>2. life[TopInst] = "created"
    BY <1>2, <1>3 DEF IInv, Sessions
  <2> QED
    BY <1>1, <1>2, <1>3, <2>1, <2>2, ApartGoto
<1> QED
  BY <1>1, <1>3, ApartReturn DEF StopInstance

\* The heart of it: what a service has found is there as long as it is itself,
\* because the shutdown goes backwards.
LEMMA StillThere ==
    ASSUME IInv, Order, stack # <<>>, NEW i \in Instances, NEW k \in ctx[i], life[i] = "created"
    PROVE  life[Subtasks[i][k]] = "created"
<1> DEFINE s == Subtasks[i][k]
<1>1. s \in Instances /\ s[1] \in Apps /\ s[2] \in Nat /\ i[1] \in Apps /\ i[2] \in Nat
  <2>1. k \in DOMAIN Subtasks[i] /\ Subtasks[i] \in Seq(Instances)
    BY CoreAssumption DEF IInv, Types
  <2>2. s \in Instances
    BY <2>1
  <2>3. \A j \in Instances : j[1] \in Apps /\ j[2] \in Nat
    BY Pairs, CoreAssumption
  <2> QED
    BY <2>2, <2>3
<1>2. CASE next # -1
  BY <1>2 DEF IInv, Sessions
<1>3. CASE next = -1
  <2> DEFINE last == Len(stack)
             left == stack[last].n
             f == stack[last - 1]
  <2>1. /\ app_ \in Seq(Apps) /\ Len(app_) \in Nat /\ last \in Nat /\ last > 0
        /\ stack[last] \in Frames /\ left \in Nat
    <3>1. stack \in Seq(Frames) /\ app_ \in Seq(Apps)
      BY DEF IInv, Types
    <3>2. last \in Nat /\ last > 0 /\ last \in 1 .. last
      BY <3>1
    <3>3. stack[last] \in Frames
      BY <3>1, <3>2
    <3>4. left \in Nat
      BY <3>3 DEF Frames
    <3> QED
      BY <3>1, <3>2, <3>3, <3>4
  <2>2. \A j \in Instances, m \in 1 .. Len(app_) : app_[m] = j[1] =>
           life[j] = IF m <= left THEN "created" ELSE
                     IF m = left + 1 /\ last > 1 THEN Removed(f, j[2]) ELSE "deleted"
    BY <1>3 DEF IInv, Removing
  <2>3. PICK n \in 1 .. Len(app_) : app_[n] = i[1]
    BY DEF IInv, Registry
  <2>4. n <= left \/ (n = left + 1 /\ last > 1 /\ Removed(f, i[2]) = "created")
    BY <2>2, <2>3
  <2>5. Found(i, s)
    BY DEF Order
  <2>6. CASE Before(s[1], i[1])
    <3>1. PICK m, o \in 1 .. Len(app_) : m < o /\ app_[m] = s[1] /\ app_[o] = i[1]
      BY <2>6 DEF Before
    <3>2. o = n
      BY <2>3, <3>1 DEF IInv, Registry
    <3>3. m <= left
      BY <2>1, <2>4, <3>1, <3>2
    <3> QED
      BY <1>1, <2>2, <3>1, <3>3
  <2>7. CASE s[1] = i[1] /\ s[2] >= i[2]
    <3>1. CASE n <= left
      BY <1>1, <2>2, <2>3, <2>7, <3>1
    <3>2. CASE n = left + 1 /\ last > 1 /\ Removed(f, i[2]) = "created"
      <4>1. f \in Frames /\ f.n \in Nat
        <5>1. stack \in Seq(Frames) /\ last - 1 \in 1 .. Len(stack)
          BY <2>1, <3>2 DEF IInv, Types
        <5>2. f \in Frames
          BY <5>1
        <5> QED
          BY <5>2 DEF Frames
      <4>2. i[2] >= f.n /\ ~(i[2] = f.n /\ f.op = "delete")
        BY <1>1, <3>2, <4>1 DEF Removed
      <4>3. Removed(f, s[2]) = "created"
        BY <1>1, <2>7, <4>1, <4>2 DEF Removed
      <4>4. ~(n <= left)
        BY <2>1, <3>2
      <4> QED
        BY <1>1, <2>2, <2>3, <2>7, <3>2, <4>3, <4>4
    <3> QED
      BY <2>4, <3>1, <3>2
  <2> QED
    BY <2>5, <2>6, <2>7 DEF Found
<1> QED
  BY <1>2, <1>3

LEMMA ExitApart == ASSUME IInv, SInv, Exit PROVE SInv'
<1>1. /\ stack \in Seq(Frames) /\ stack # <<>> /\ UNCHANGED <<app_, life, ctx, next>>
      /\ Top = stack[1] /\ FrameOK(stack[1]) /\ stack[1].op = "exit" /\ 1 \in Pos
  BY Innermost DEF Exit
<1>2. TopInst \in Instances /\ TopInst = Inst(stack[1]) /\ life[TopInst] = "created"
  BY <1>1 DEF FrameOK, TopInst, Inst, CallOps, SInv, Reached
<1>3. ASSUME NEW k \in ctx[TopInst], CallSubtask("stop", "exit", k)
      PROVE  SInv'
  <2>1. k \in Nat /\ "exit" \in Ops /\ "exit" \notin BuildOps
    BY <1>2 DEF IInv, Types, Ops, CallOps, BuildOps
  <2>2. PICK i \in Instances :
             /\ i = Subtasks[TopInst][k]
             /\ Call(Frame("stop", i[1], i[2], 0), "exit", k)
             /\ Frame("stop", i[1], i[2], 0) \in Frames
             /\ Frame("stop", i[1], i[2], 0).op = "stop"
             /\ Inst(Frame("stop", i[1], i[2], 0)) = i
    BY <1>2, <1>3, <2>1, SubtaskFrame
  <2>3. life[i] = "created"
    BY <1>1, <1>2, <2>2, StillThere DEF SInv
  <2> QED
    BY <1>1, <1>2, <2>1, <2>2, <2>3, ApartCall
<1> QED
  BY <1>1, <1>3, ApartReturn DEF Exit

\* Frames say of an instance that is there what they said before it was created.
LEMMA ReachedLater ==
    ASSUME IInv, Reached, NEW d \in {-1, 0, 1}, Shape(d),
           \A i \in Instances : /\ life[i] = "created" => life'[i] = "created"
                                /\ life[i] = "new" => life'[i] \in {"new", "created"}
                                /\ life[i] = "destroyed" => life'[i] = "destroyed",
           \A j \in 1 .. 1 + d : stack'[j].op \notin {"stop", "exit"}
    PROVE  Reached'
<1>1. \A j \in Pos : /\ j > 1 /\ stack[j].op = "exit" => life'[Inst(stack[j])] = "created"
                     /\ j > 1 /\ stack[j].op = "stop" =>
                          life'[Inst(stack[j])] \in {"new", "created", "destroyed"}
  <2>1. \A j \in Pos : stack[j].op \in {"stop", "exit"} => Inst(stack[j]) \in Instances
    BY DEF IInv, Types, FrameOK, CallOps
  <2> QED
    BY <2>1 DEF Reached
<1> QED
  BY <1>1, ReachedKeep

LEMMA InstallApart == ASSUME IInv, SInv, Install PROVE SInv'
<1> DEFINE a == stack[1].app
<1>1. /\ stack \in Seq(Frames) /\ stack # <<>> /\ Top = stack[1] /\ 1 \in Pos
      /\ stack[1].op = "install" /\ UNCHANGED <<ctx, next>>
  BY Innermost DEF Install
<1>2. next # -1
  BY <1>1 DEF IInv, Phase, TakeOps
<1>3. CASE Installed(a)
  BY <1>1, <1>3, ApartReturn DEF Install
<1>4. CASE ~Installed(a)
  <2>1. /\ Goto("init", 1) /\ app_' = Append(app_, a)
        /\ life' = [i \in Instances |-> IF i[1] = a THEN "new" ELSE life[i]]
    BY <1>1, <1>4 DEF Install
  <2>2. Shape(0) /\ Turned(stack'[1], "init", 1)
    BY <1>1, <2>1, OnGoto DEF Ops, BuildOps
  <2>3. stack'[1].op = "init" /\ stack'[1].app = a
    BY <2>2 DEF Turned
  <2>4. app_ \in Seq(Apps) /\ a \in Apps
    <3>1. FrameOK(stack[1])
      BY <1>1 DEF IInv, Types
    <3> QED
      BY <1>1, <3>1 DEF IInv, Types, FrameOK
  <2>5. /\ Len(app_') = Len(app_) + 1 /\ app_'[Len(app_')] = a /\ Len(app_) \in Nat
        /\ \A k \in 1 .. Len(app_) : k \in 1 .. Len(app_') /\ app_'[k] = app_[k]
    BY <2>1, <2>4
  <2>6. \A i \in Instances : i[1] = a => life[i] = "none"
    <3>1. \A k \in 1 .. Len(app_) : app_[k] # a
      BY <1>4, <2>4 DEF Installed, ToSet
    <3> QED
      BY <1>2, <3>1 DEF IInv, Registry
  <2>7. Nested'
    BY <1>1, <2>2, NestedKeep DEF SInv
  <2>8. Newest'
    <3>1. ASSUME NEW j \in Pos', stack'[j].op \in BuildOps, stack'[j].app \in Services
          PROVE  app_'[Len(app_')] = stack'[j].app
      <4>1. CASE j = 1
        BY <2>3, <2>5, <4>1
      <4>2. CASE j # 1
        <5>1. j \in Pos /\ 1 < j /\ stack[j] = stack'[j]
          BY <2>2, <4>2 DEF Shape, Pos
        <5> QED
          BY <1>1, <3>1, <5>1 DEF SInv, Nested
      <4> QED
        BY <4>1, <4>2
    <3> QED
      BY <3>1 DEF Newest
  <2>9. Order'
    <3>1. \A b, c : Before(b, c) => Before(b, c)'
      BY <2>5 DEF Before
    <3>2. \A i \in Instances : \A k \in ctx[i] : Found(i, Subtasks[i][k])
      BY <1>2 DEF SInv, Order
    <3> QED
      BY <1>1, <3>1, <3>2 DEF Order, Found
  <2>10. Reached'
    <3>1. \A i \in Instances : life'[i] = IF i[1] = a THEN "new" ELSE life[i]
      BY <2>1
    <3>2. \A i \in Instances : /\ life[i] = "created" => life'[i] = "created"
                               /\ life[i] = "new" => life'[i] \in {"new", "created"}
                               /\ life[i] = "destroyed" => life'[i] = "destroyed"
      BY <2>6, <3>1
    <3> QED
      BY <2>2, <2>3, <3>2, ReachedLater DEF SInv
  <2> QED
    BY <2>7, <2>8, <2>9, <2>10 DEF SInv
<1> QED
  BY <1>3, <1>4

LEMMA AllCreatedApart == ASSUME IInv, SInv, AllCreated PROVE SInv'
<1>1. stack \in Seq(Frames) /\ stack # <<>> /\ UNCHANGED <<app_, life, ctx, next>>
  BY Innermost DEF AllCreated
<1> QED
  BY <1>1, ApartReturn DEF AllCreated

\* The create of a service finds what was installed before it, and itself.
LEMMA CreateApart == ASSUME SubtasksApart, IInv, SInv, CreateInstance PROVE SInv'
<1> DEFINE a == stack[1].app
           n == stack[1].n
           i == <<a, n>>
           f == Frame("start", i[1], i[2], 0)
<1>1. /\ stack \in Seq(Frames) /\ stack # <<>> /\ Top = stack[1] /\ 1 \in Pos
      /\ stack[1] \in Frames /\ FrameOK(stack[1]) /\ stack[1].op = "create"
      /\ UNCHANGED <<app_, next>>
  BY Innermost DEF CreateInstance
<1>2. a \in Apps /\ n \in Nat /\ n > 0 /\ n <= Count[a] /\ Count[a] \in Nat
  BY <1>1, CoreAssumption DEF CreateInstance, FrameOK, Frames
<1>3. i \in Instances /\ i[1] = a /\ i[2] = n
  BY <1>2, Pairs
<1>4. /\ life' = [life EXCEPT ![i] = "created"]
      /\ ctx' = [ctx EXCEPT ![i] = IF a \in Services THEN Resolve(i) ELSE {}]
      /\ IF i \in AutoStart THEN Call(f, "created", n) ELSE Goto("created", n)
  BY <1>1 DEF CreateInstance
<1>5. life[i] = "new"
  BY <1>1, <1>2, <1>3 DEF IInv, Building, Made, BuildOps
<1>6. \A j \in Instances : life'[j] = IF j = i THEN "created" ELSE life[j]
  BY <1>3, <1>4 DEF IInv, Types
<1>7. \A j \in Instances : /\ life[j] = "created" => life'[j] = "created"
                           /\ life[j] = "new" => life'[j] \in {"new", "created"}
                           /\ life[j] = "destroyed" => life'[j] = "destroyed"
  BY <1>5, <1>6
<1>8. ASSUME NEW d \in {0, 1}, Shape(d), stack'[1 + d].op = "created", stack'[1 + d].app = a,
             d = 1 => stack'[1].op = "start"
      PROVE  Nested' /\ Newest' /\ Reached'
  <2>1. \A j \in 1 .. 1 + d : /\ stack'[j].op \in BuildOps => j = 1 + d
                              /\ stack'[j].op \notin {"install", "stop", "exit"}
    <3>1. ASSUME NEW j \in 1 .. 1 + d PROVE j = 1 + d \/ (d = 1 /\ j = 1)
      OBVIOUS
    <3> QED
      BY <1>8, <3>1 DEF BuildOps
  <2>2. stack[1].op \in BuildOps
    BY <1>1 DEF BuildOps
  <2>3. d = 1 => stack'[1].op \notin BuildOps \cup {"install"}
    BY <1>8 DEF BuildOps
  <2>4. Nested'
    BY <1>8, <2>2, <2>3, NestedKeep DEF SInv
  <2>5. Newest'
    BY <1>1, <1>8, <2>1, <2>2, NewestKeep DEF SInv
  <2>6. Reached'
    BY <1>7, <1>8, <2>1, ReachedLater DEF SInv
  <2> QED
    BY <2>4, <2>5, <2>6
<1>9. Nested' /\ Newest' /\ Reached'
  <2>1. "created" \in Ops
    BY DEF Ops, BuildOps
  <2>2. CASE Goto("created", n)
    <3>1. Shape(0) /\ Turned(stack'[1], "created", n)
      BY <1>1, <1>2, <2>1, <2>2, OnGoto
    <3> QED
      BY <1>8, <3>1 DEF Turned
  <2>3. CASE Call(f, "created", n)
    <3>1. f \in Frames /\ f.op = "start"
      BY <1>2, <1>3 DEF Frame, Frames, Ops, CallOps
    <3>2. Shape(1) /\ stack'[1] = f /\ Turned(stack'[2], "created", n)
      BY <1>1, <1>2, <2>1, <2>3, <3>1, OnCall
    <3> QED
      BY <1>8, <3>1, <3>2 DEF Turned
  <2> QED
    BY <1>4, <2>2, <2>3
<1>10. Order'
  <2>1. \A j \in Instances : \A k \in ctx[j] : Found(j, Subtasks[j][k])
    BY <1>1 DEF SInv, Order
  <2>2. ASSUME NEW k \in ctx'[i] PROVE Found(i, Subtasks[i][k])
    <3> DEFINE s == Subtasks[i][k]
    <3>1. a \in Services /\ k \in Resolve(i)
      BY <1>3, <1>4, <2>2 DEF IInv, Types
    <3>2. k \in DOMAIN Subtasks[i] /\ s \in Instances
      <4>1. k \in DOMAIN Subtasks[i] /\ Subtasks[i] \in Seq(Instances)
        BY <1>3, <3>1, CoreAssumption DEF Resolve
      <4> QED
        BY <4>1
    <3>3. CASE s[1] = i[1]
      BY <1>3, <3>1, <3>2, <3>3 DEF SubtasksApart, Found
    <3>4. CASE s[1] # i[1]
      <4>1. life[s] = "created"
        BY <3>1, <3>4 DEF Resolve
      <4>2. app_ \in Seq(Apps) /\ Len(app_) \in Nat
        BY DEF IInv, Types
      <4>3. PICK m \in 1 .. Len(app_) : app_[m] = s[1]
        BY <1>1, <3>2, <4>1 DEF IInv, Registry
      <4>4. app_[Len(app_)] = i[1]
        BY <1>1, <1>3, <3>1 DEF SInv, Newest, BuildOps
      <4>5. m < Len(app_) /\ Len(app_) \in 1 .. Len(app_)
        BY <3>4, <4>2, <4>3, <4>4
      <4> QED
        BY <4>3, <4>4, <4>5 DEF Before, Found
    <3> QED
      BY <3>3, <3>4
  <2>3. \A j \in Instances : j # i => ctx'[j] = ctx[j]
    BY <1>3, <1>4 DEF IInv, Types
  <2>4. \A j \in Instances : \A k \in ctx'[j] : Found(j, Subtasks[j][k])
    BY <2>1, <2>2, <2>3
  <2> QED
    BY <1>1, <2>4 DEF Order, Found, Before
<1> QED
  BY <1>9, <1>10 DEF SInv

LEMMA UninstallApart == ASSUME IInv, SInv, Uninstall PROVE SInv'
<1>1. /\ stack \in Seq(Frames) /\ stack # <<>> /\ Top = stack[1] /\ stack[1].op = "uninstall"
      /\ UNCHANGED <<life, ctx, next>>
  BY Innermost DEF Uninstall
<1>2. /\ next = -1 /\ app_ \in Seq(Apps) /\ Len(stack) = 1
      /\ stack[1].n \in Nat /\ stack[1].n <= Len(app_)
  BY <1>1, TakePlaces
<1>3. CASE /\ stack[1].n > 0 /\ UNCHANGED app_
           /\ Call(Frame("release", app_[stack[1].n], 0, 1), "uninstall", stack[1].n - 1)
  <2> DEFINE f == Frame("release", app_[stack[1].n], 0, 1)
  <2>1. app_[stack[1].n] \in Apps
    BY <1>2, <1>3
  <2>2. f \in Frames /\ f.op = "release"
    BY <2>1 DEF Frame, Frames, Ops, TakeOps
  <2>3. "uninstall" \in Ops /\ "uninstall" \notin BuildOps /\ stack[1].n - 1 \in Nat
    BY <1>2, <1>3 DEF Ops, BuildOps
  <2>4. Call(f, "uninstall", stack[1].n - 1)
    BY <1>3
  <2> HIDE DEF f
  <2> QED
    BY <1>1, <1>3, <2>2, <2>3, <2>4, ApartCall
<1>4. CASE Return
  <2>1. Pos' = {} /\ stack' = <<>>
    BY <1>1, <1>2, <1>4 DEF Return, Pos
  <2> QED
    BY <1>1, <1>2, <2>1 DEF SInv, Nested, Newest, Order, Reached
<1> QED
  BY <1>1, <1>3, <1>4 DEF Uninstall

LEMMA ReleaseApart == ASSUME IInv, SInv, Release PROVE SInv'
<1>1. /\ stack \in Seq(Frames) /\ stack # <<>> /\ Top = stack[1] /\ stack[1].op = "release"
      /\ UNCHANGED <<app_, life, ctx, next>> /\ stack[1] \in Frames /\ FrameOK(stack[1])
  BY Innermost DEF Release
<1>2. /\ stack[1].op \in TakeOps /\ stack[1].app \in Apps /\ stack[1].n \in Nat
      /\ stack[1].n > 0
  BY <1>1 DEF Frames, FrameOK, TakeOps
<1>3. CASE /\ stack[1].n <= Count[stack[1].app]
           /\ Call(Frame("stop", stack[1].app, stack[1].n, 0), "destroy", stack[1].n)
  <2> DEFINE f == Frame("stop", stack[1].app, stack[1].n, 0)
  <2>1. f \in Frames /\ f.op = "stop" /\ Inst(f) = <<stack[1].app, stack[1].n>>
    BY <1>2 DEF Frame, Frames, Ops, CallOps, Inst
  <2>2. Inst(f) \in Instances /\ Inst(f)[1] = stack[1].app /\ Inst(f)[2] = stack[1].n
    <3>1. stack[1].n \in 1 .. Count[stack[1].app]
      BY <1>2, <1>3, CoreAssumption
    <3> QED
      BY <1>2, <2>1, <3>1, Pairs
  <2>3. life[Inst(f)] = "created"
    <3>1. life[Inst(f)] = Removed(stack[1], stack[1].n)
      BY <1>1, <1>2, <2>2, TakeTop
    <3> QED
      BY <1>1, <1>2, <3>1 DEF Removed
  <2>4. "destroy" \in Ops \ (BuildOps \cup {"install", "stop"})
    BY DEF Ops, TakeOps, BuildOps
  <2>5. Call(f, "destroy", stack[1].n)
    BY <1>3
  <2> HIDE DEF f
  <2> QED
    BY <1>1, <1>2, <2>1, <2>3, <2>4, <2>5, ApartCall
<1> QED
  BY <1>1, <1>3, ApartReturn DEF Release

LEMMA DestroyApart == ASSUME AllComeUp, IInv, SInv, DestroyInstance PROVE SInv'
<1> DEFINE i == <<stack[1].app, stack[1].n>>
           f == Frame("stop", i[1], i[2], 0)
<1>1. /\ stack \in Seq(Frames) /\ stack # <<>> /\ Top = stack[1] /\ stack[1].op = "destroy"
      /\ UNCHANGED <<app_, ctx, next>> /\ stack[1] \in Frames /\ FrameOK(stack[1])
  BY Innermost DEF DestroyInstance
<1>2. /\ stack[1].op \in TakeOps /\ stack[1].app \in Apps /\ stack[1].n \in Nat
      /\ i \in Instances
  BY <1>1 DEF Frames, FrameOK, TakeOps, Item
<1>3. life' = [life EXCEPT ![i] = "destroyed"]
  BY <1>1, <1>2 DEF DestroyInstance, AllComeUp
<1>4. life'[i] = "destroyed"
  BY <1>2, <1>3 DEF IInv, Types
<1>5. Len(stack) = 2 /\ stack[2].op = "uninstall"
  BY <1>1, <1>2, TakeTop
<1>6. ASSUME NEW d \in {0, 1}, Shape(d), stack'[1 + d].op = "delete",
             d = 1 => stack'[1].op = "stop" /\ Inst(stack'[1]) = i
      PROVE  SInv'
  <2>1. \A j \in Pos' : \/ stack'[j].op \in {"delete", "uninstall"}
                        \/ stack'[j].op = "stop" /\ Inst(stack'[j]) = i
    <3>1. stack'[2 + d].op = "uninstall" /\ Len(stack') = 2 + d
      BY <1>5, <1>6 DEF Shape
    <3>2. ASSUME NEW j \in Pos' PROVE j = 1 + d \/ j = 2 + d \/ (d = 1 /\ j = 1)
      BY <3>1 DEF Pos
    <3> QED
      BY <1>6, <3>1, <3>2
  <2>2. Nested' /\ Newest'
    BY <2>1 DEF Nested, Newest, BuildOps
  <2>3. Order'
    BY <1>1 DEF SInv, Order, Found, Before
  <2>4. Reached'
    BY <1>4, <2>1 DEF Reached, Inst
  <2> QED
    BY <2>2, <2>3, <2>4 DEF SInv
<1>7. "delete" \in Ops
  BY DEF Ops, TakeOps
<1>8. CASE Goto("delete", stack[1].n)
  <2>1. Shape(0) /\ Turned(stack'[1], "delete", stack[1].n)
    BY <1>1, <1>2, <1>7, <1>8, OnGoto
  <2> QED
    BY <1>6, <2>1 DEF Turned
<1>9. CASE Call(f, "delete", stack[1].n)
  <2>1. f \in Frames /\ f.op = "stop" /\ Inst(f) = i
    BY <1>2 DEF Frame, Frames, Ops, CallOps, Inst
  <2>2. Shape(1) /\ stack'[1] = f /\ Turned(stack'[2], "delete", stack[1].n)
    BY <1>1, <1>2, <1>7, <1>9, <2>1, OnCall
  <2> QED
    BY <1>6, <2>1, <2>2 DEF Turned
<1> QED
  BY <1>1, <1>8, <1>9 DEF DestroyInstance

LEMMA DeleteApart == ASSUME IInv, SInv, DeleteInstance PROVE SInv'
<1>1. /\ stack \in Seq(Frames) /\ stack # <<>> /\ Top = stack[1] /\ stack[1].op = "delete"
      /\ UNCHANGED <<app_, ctx, next>> /\ stack[1] \in Frames
  BY Innermost DEF DeleteInstance
<1>2. stack[1].op \in TakeOps /\ stack[1].n + 1 \in Nat /\ "release" \in Ops
  BY <1>1 DEF Frames, TakeOps, Ops
<1>3. Len(stack) = 2 /\ stack[2].op = "uninstall"
  BY <1>1, <1>2, TakeTop
<1>4. Shape(0) /\ Turned(stack'[1], "release", stack[1].n + 1)
  BY <1>1, <1>2, OnGoto DEF DeleteInstance
<1>5. \A j \in Pos' : stack'[j].op \in {"release", "uninstall"}
  <2>1. stack'[2].op = "uninstall" /\ Len(stack') = 2 /\ stack'[1].op = "release"
    BY <1>3, <1>4 DEF Shape, Turned
  <2>2. Pos' = {1, 2}
    BY <2>1 DEF Pos
  <2> QED
    BY <2>1, <2>2
<1>6. Nested' /\ Newest' /\ Reached'
  BY <1>5 DEF Nested, Newest, Reached, BuildOps
<1>7. Order'
  BY <1>1 DEF SInv, Order, Found, Before
<1> QED
  BY <1>6, <1>7 DEF SInv

LEMMA OutsideApart ==
    ASSUME IInv, SInv, MainInstalls \/ MainUninstalls \/ Request("start") \/ Request("stop")
    PROVE  SInv'
<1>1. stack = <<>> /\ next # -1 /\ UNCHANGED <<app_, life, ctx>>
  <2>1. MainInstalls => next # -1
    BY DEF MainInstalls
  <2> QED
    BY <2>1 DEF MainInstalls, MainUninstalls, Request
<1>2. ASSUME NEW f, stack' = <<f>>, f.op \in {"install", "uninstall", "start", "stop"},
             f.op = "stop" => life[Inst(f)] = "created"
      PROVE  SInv'
  <2>1. stack'[1] = f /\ Pos' = {1}
    BY <1>2 DEF Pos
  <2>2. Nested' /\ Newest'
    BY <1>2, <2>1 DEF Nested, Newest, BuildOps
  <2>3. Order'
    BY <1>1 DEF SInv, Order, Found, Before
  <2>4. Reached'
    BY <1>1, <1>2, <2>1 DEF Reached, Inst
  <2> QED
    BY <2>2, <2>3, <2>4 DEF SInv
<1>3. CASE MainInstalls
  BY <1>2, <1>3 DEF MainInstalls, Frame
<1>4. CASE MainUninstalls
  BY <1>2, <1>4 DEF MainUninstalls, Frame
<1>5. ASSUME NEW op \in {"start", "stop"}, Request(op) PROVE SInv'
  <2>1. PICK i \in Instances : Installed(i[1]) /\ stack' = <<Frame(op, i[1], i[2], 0)>>
    BY <1>5 DEF Request
  <2>2. i = <<i[1], i[2]>>
    BY Pairs
  <2>3. Frame(op, i[1], i[2], 0).op = op /\ Inst(Frame(op, i[1], i[2], 0)) = i
    BY <2>2 DEF Frame, Inst
  <2>4. life[i] = "created"
    <3>1. \E k \in 1 .. Len(app_) : app_[k] = i[1]
      <4>1. app_ \in Seq(Apps) /\ i[1] \in ToSet(app_)
        BY <2>1 DEF Installed, IInv, Types
      <4> QED
        BY <4>1 DEF ToSet
    <3>2. life[i] # "none"
      BY <1>1, <3>1 DEF IInv, Registry
    <3>3. life[i] # "new"
      BY <1>1 DEF IInv, Building, Pos
    <3> QED
      BY <1>1, <3>2, <3>3 DEF IInv, Phase
  <2> QED
    BY <1>2, <2>1, <2>3, <2>4
<1> QED
  BY <1>3, <1>4, <1>5

LEMMA ApartInvariance == ASSUME AllComeUp, SubtasksApart PROVE Spec => [](IInv /\ SInv)
<1>1. Init => SInv
  <2>1. ASSUME Init PROVE Pos = {} /\ \A i \in Instances : ctx[i] = {}
    BY <2>1 DEF Init, Pos
  <2> QED
    BY <2>1 DEF SInv, Nested, Newest, Order, Reached
<1>2. ASSUME IInv, SInv, [Next]_vars PROVE SInv'
  <2>1. CASE UNCHANGED vars
    BY <1>2, <2>1 DEF vars, SInv, Nested, Newest, Order, Reached, Found, Before, Pos, Inst
  <2>2. CASE CallStep
    BY <1>2, <2>2, InstallApart, InitAppApart, ImportApart, CreateApart, InstanceCreatedApart,
       AllCreatedApart, StartApart, SetUpApart, StopApart, ExitApart, UninstallApart,
       ReleaseApart, DestroyApart, DeleteApart DEF CallStep
  <2>3. CASE MainInstalls \/ MainUninstalls \/ Request("start") \/ Request("stop")
    BY <1>2, <2>3, OutsideApart
  <2> QED
    BY <1>2, <2>1, <2>2, <2>3 DEF Next
<1>3. Init => IInv
  BY InitInv
<1>4. IInv /\ [Next]_vars => IInv'
  BY NextInv
<1> QED
  BY <1>1, <1>2, <1>3, <1>4, PTL DEF Spec

\* A service that stops its subtasks finds them undeleted, at any time and in
\* the shutdown too: they were installed before it, and are uninstalled after it
\* (core::uninstall_all, core.cpp; tsk_exit, service.cpp).
THEOREM SubtasksThere ==
    ASSUME AllComeUp, SubtasksApart PROVE Spec => []CallsReachInstances
<1>1. IInv /\ SInv => CallsReachInstances
  <2> SUFFICES ASSUME IInv, SInv, TopIs("start") \/ TopIs("stop")
               PROVE  life[TopInst] \in {"new", "created", "destroyed"}
    BY DEF CallsReachInstances
  <2>1. PICK op \in {"start", "stop"} : TopIs(op)
    OBVIOUS
  <2>2. 1 \in Pos /\ stack[1].op = op /\ TopInst = Inst(stack[1])
    BY <2>1, Innermost DEF TopInst, Inst
  <2> QED
    BY <2>2 DEF IInv, Sessions, SInv, Reached
<1> QED
  BY <1>1, ApartInvariance, PTL
=============================================================================
