-------------------------------- MODULE Core --------------------------------
(***************************************************************************)
(* The registry of applications in src/src/core.cpp: core::install and      *)
(* uninstall_all, the start of an app and its release, and what start and   *)
(* stop of an instance set off.                                             *)
(*                                                                          *)
(* Everything happens in one thread, but through callbacks that call back:  *)
(* the init of an application may install others (module.cpp), the create   *)
(* of an instance may start it, and the setup and exit of a service         *)
(* (misc/service.cpp) start and stop other instances.  The calls in         *)
(* progress are a stack of frames; a step is a step of the innermost one.   *)
(*                                                                          *)
(* A task is here either idle or running: its threads are in Task, its      *)
(* readers and writers in TaskIo.                                           *)
(***************************************************************************)
EXTENDS Integers, Sequences, SequencesExt

CONSTANTS
    Apps,        \* names of applications
    Main,        \* what main() installs, in order
    WithApi,     \* applications installed with an api
    WithLoop,    \* applications whose api has a loop
    Compatible,  \* applications whose api has the version required
    Imports,     \* the applications each app's init installs, in order
    Count,       \* how many instances each app's configuration has, at least 1
    InitFails,   \* applications whose init fails
    CreateFails, \* instances whose create fails
    Services,    \* applications that work like misc/service.cpp
    Subtasks,    \* the "subtask" paths of each instance
    AutoStart    \* service instances whose create starts them ("auto"): the
                 \* create of service.cpp never fails

\* The instances, numbered from 1.
Instances == UNION {{<<a, k>> : k \in 1..Count[a]} : a \in Apps}

ASSUME CoreAssumption ==
    /\ Main \in Seq(Apps)
    /\ WithLoop \subseteq WithApi /\ WithApi \subseteq Apps
    /\ Compatible \subseteq Apps /\ InitFails \subseteq Apps
    /\ Imports \in [Apps -> Seq(Apps)]
    /\ Count \in [Apps -> Nat \ {0}]
    /\ Services \subseteq WithLoop
    /\ CreateFails \subseteq Instances
    /\ Subtasks \in [Instances -> Seq(Instances)]
    /\ AutoStart \subseteq {i \in Instances : i[1] \in Services} \ CreateFails

VARIABLES
    app_,       \* core::app_, in the order of installation
    normal_,    \* app::normal_
    life,       \* each instance object, and the callbacks it has had
    inormal,    \* instance::normal_
    running,    \* task::state_ = task_state_running
    ctx,        \* the subtasks a service has found, by their place in its list
    stack,      \* the calls in progress, innermost first
    next        \* what main() does next: an index into Main, or "wait", "done"

vars == <<app_, normal_, life, inormal, running, ctx, stack, next>>

\* A call: what it is doing, for which app or instance, and a loop counter.
Frame(op, a, k, n) == [op |-> op, app |-> a, idx |-> k, n |-> n]

Top == Head(stack)
TopIs(op) == stack # <<>> /\ Top.op = op
TopInst == <<Top.app, Top.idx>>

\* The innermost call returns, goes on with op and n, or calls f on the way.
Return == stack' = Tail(stack)
Becomes(op, n) == <<[Top EXCEPT !.op = op, !.n = n]>> \o Tail(stack)
Goto(op, n) == stack' = Becomes(op, n)
Call(f, op, n) == stack' = <<f>> \o Becomes(op, n)

Installed(a) == a \in ToSet(app_)

-----------------------------------------------------------------------------
(* core::install and app::init.                                             *)

\* Mutant: what check() says is not looked at.
Install_mutant ==
    /\ TopIs("install")
    /\ app_' = Append(app_, Top.app)
    /\ life' = [i \in Instances |-> IF i[1] = Top.app THEN "new" ELSE life[i]]
    /\ Goto("init", 1)
    /\ UNCHANGED <<normal_, inormal, running, ctx, next>>

\* check() ignores a name that is there.  The app, its instances and its name
\* are in place before init is called.
Install ==
    /\ TopIs("install")
    /\ IF Installed(Top.app)
       THEN Return /\ UNCHANGED <<app_, life>>
       ELSE /\ app_' = Append(app_, Top.app)
            /\ life' = [i \in Instances |-> IF i[1] = Top.app THEN "new" ELSE life[i]]
            /\ Goto("init", 1)
    /\ UNCHANGED <<normal_, inormal, running, ctx, next>>

\* app::init calls the init callback, if there is an api of the right version.
InitApp ==
    /\ TopIs("init")
    /\ IF Top.app \in WithApi
       THEN /\ IF Top.app \in Compatible THEN Goto("import", 1) ELSE Return
            /\ UNCHANGED normal_
       ELSE Return /\ normal_' = [normal_ EXCEPT ![Top.app] = TRUE]
    /\ UNCHANGED <<app_, life, inormal, running, ctx, next>>

\* The init callback installs the next application and goes on whatever comes
\* of it, or returns; install() ignores what app::init returns.
Import ==
    /\ TopIs("import")
    /\ LET todo == Imports[Top.app] IN
       IF Top.n <= Len(todo)
       THEN Call(Frame("install", todo[Top.n], 0, 0), "import", Top.n + 1)
       ELSE IF Top.app \in InitFails THEN Return ELSE Goto("create", 1)
    /\ UNCHANGED <<app_, normal_, life, inormal, running, ctx, next>>

\* service's create: the paths that name an instance which has been created, or
\* is being created, are kept.
Resolve(i) == {k \in DOMAIN Subtasks[i] : life[Subtasks[i][k]] = "created" \/ Subtasks[i][k] = i}

\* instance::create: the callback may start the instance before it returns.
CreateInstance ==
    LET i == <<Top.app, Top.n>> IN
    /\ TopIs("create")
    /\ Top.n <= Count[Top.app]
    /\ life' = [life EXCEPT ![i] = "created"]
    /\ ctx' = [ctx EXCEPT ![i] = IF Top.app \in Services THEN Resolve(i) ELSE {}]
    /\ IF i \in AutoStart
       THEN Call(Frame("start", i[1], i[2], 0), "created", Top.n)
       ELSE Goto("created", Top.n)
    /\ UNCHANGED <<app_, normal_, inormal, running, next>>

InstanceCreated ==
    LET i == <<Top.app, Top.n>> IN
    /\ TopIs("created")
    /\ inormal' = [inormal EXCEPT ![i] = i \notin CreateFails]
    /\ Goto("create", Top.n + 1)
    /\ UNCHANGED <<app_, normal_, life, running, ctx, next>>

AllCreated ==
    /\ TopIs("create")
    /\ Top.n > Count[Top.app]
    /\ normal_' = [normal_ EXCEPT ![Top.app] = TRUE]
    /\ Return
    /\ UNCHANGED <<app_, life, inormal, running, ctx, next>>

-----------------------------------------------------------------------------
(* instance::start and stop, task::start and stop.  Without an api they     *)
(* follow a null pointer: the innermost call never returns.                 *)

\* Mutant: normal_ is not looked at.
StartInstance_mutant ==
    /\ TopIs("start")
    /\ Top.app \in WithApi
    /\ IF Top.app \notin WithLoop \/ running[TopInst]
       THEN Return
       ELSE Goto("setup", 0)
    /\ UNCHANGED <<app_, normal_, life, inormal, running, ctx, next>>

StartInstance ==
    /\ TopIs("start")
    /\ inormal[TopInst] => Top.app \in WithApi
    /\ IF ~inormal[TopInst] \/ Top.app \notin WithLoop \/ running[TopInst]
       THEN Return
       ELSE Goto("setup", 0)
    /\ UNCHANGED <<app_, normal_, life, inormal, running, ctx, next>>

\* A service starts or stops the k-th of its subtasks, and goes on from there.
CallSubtask(request, op, k) ==
    LET sub == Subtasks[TopInst][k] IN Call(Frame(request, sub[1], sub[2], 0), op, k)

\* The setup callback.  That of a service starts its subtasks, in order, and
\* succeeds whatever comes of it.
SetUp ==
    LET left == {k \in ctx[TopInst] : k > Top.n} IN
    /\ TopIs("setup")
    /\ \/ \E k \in left :
             /\ \A j \in left : k <= j
             /\ CallSubtask("start", "setup", k)
             /\ UNCHANGED running
       \/ /\ left = {}
          /\ Return
          /\ \/ running' = [running EXCEPT ![TopInst] = TRUE]
             \/ Top.app \notin Services /\ UNCHANGED running
    /\ UNCHANGED <<app_, normal_, life, inormal, ctx, next>>

StopInstance ==
    /\ TopIs("stop")
    /\ inormal[TopInst] => Top.app \in WithApi
    /\ IF inormal[TopInst] /\ Top.app \in WithLoop /\ running[TopInst]
       THEN Goto("exit", Len(Subtasks[TopInst]) + 1)
       ELSE Return
    /\ UNCHANGED <<app_, normal_, life, inormal, running, ctx, next>>

\* Mutant: the iterator is not advanced.
Exit_mutant ==
    LET left == {k \in ctx[TopInst] : k < Top.n} IN
    /\ TopIs("exit")
    /\ \/ \E k \in left :
             /\ \A j \in left : k >= j
             /\ Call(Frame("stop", Subtasks[TopInst][k][1], Subtasks[TopInst][k][2], 0), "exit", Top.n)
             /\ UNCHANGED running
       \/ /\ left = {}
          /\ Return
          /\ running' = [running EXCEPT ![TopInst] = FALSE]
    /\ UNCHANGED <<app_, normal_, life, inormal, ctx, next>>

\* The exit callback.  That of a service stops its subtasks, last one first.
Exit ==
    LET left == {k \in ctx[TopInst] : k < Top.n} IN
    /\ TopIs("exit")
    /\ \/ \E k \in left :
             /\ \A j \in left : k >= j
             /\ CallSubtask("stop", "exit", k)
             /\ UNCHANGED running
       \/ /\ left = {}
          /\ Return
          /\ running' = [running EXCEPT ![TopInst] = FALSE]
    /\ UNCHANGED <<app_, normal_, life, inormal, ctx, next>>

-----------------------------------------------------------------------------
(* core::uninstall_all and app::release.                                    *)

\* Mutant: applications go in the order they came.
Uninstall_mutant ==
    /\ TopIs("uninstall")
    /\ IF Top.n > 0
       THEN /\ Call(Frame("release", app_[Len(app_) + 1 - Top.n], 0, 1), "uninstall", Top.n - 1)
            /\ UNCHANGED app_
       ELSE Return /\ app_' = <<>>
    /\ UNCHANGED <<normal_, life, inormal, running, ctx, next>>

\* The last one installed goes first.
Uninstall ==
    /\ TopIs("uninstall")
    /\ IF Top.n > 0
       THEN /\ Call(Frame("release", app_[Top.n], 0, 1), "uninstall", Top.n - 1)
            /\ UNCHANGED app_
       ELSE Return /\ app_' = <<>>
    /\ UNCHANGED <<normal_, life, inormal, running, ctx, next>>

\* Mutant: the last instance is forgotten.
Release_mutant ==
    /\ TopIs("release")
    /\ IF Top.n < Count[Top.app]
       THEN Call(Frame("stop", Top.app, Top.n, 0), "destroy", Top.n)
       ELSE Return
    /\ UNCHANGED <<app_, normal_, life, inormal, running, ctx, next>>

\* app::release stops the next instance.
Release ==
    /\ TopIs("release")
    /\ IF Top.n <= Count[Top.app]
       THEN Call(Frame("stop", Top.app, Top.n, 0), "destroy", Top.n)
       ELSE Return
    /\ UNCHANGED <<app_, normal_, life, inormal, running, ctx, next>>

\* instance::destroy: the destroy callback, that of a service stops it again.
DestroyInstance ==
    LET i == <<Top.app, Top.n>> IN
    /\ TopIs("destroy")
    /\ IF Top.app \in WithApi
       THEN life' = [life EXCEPT ![i] = "destroyed"]
       ELSE UNCHANGED life
    /\ IF Top.app \in Services
       THEN Call(Frame("stop", i[1], i[2], 0), "delete", Top.n)
       ELSE Goto("delete", Top.n)
    /\ UNCHANGED <<app_, normal_, inormal, running, ctx, next>>

DeleteInstance ==
    /\ TopIs("delete")
    /\ life' = [life EXCEPT ![<<Top.app, Top.n>>] = "deleted"]
    /\ Goto("release", Top.n + 1)
    /\ UNCHANGED <<app_, normal_, inormal, running, ctx, next>>

-----------------------------------------------------------------------------
(* main(), and whoever starts and stops instances meanwhile.                *)

MainInstalls ==
    /\ stack = <<>>
    /\ next \in 1..Len(Main)
    /\ stack' = <<Frame("install", Main[next], 0, 0)>>
    /\ next' = IF next < Len(Main) THEN next + 1 ELSE 0
    /\ UNCHANGED <<app_, normal_, life, inormal, running, ctx>>

\* core::start(name, idx) and core::stop(name, idx).
Request(op) ==
    /\ stack = <<>>
    /\ next = 0
    /\ \E i \in Instances :
          /\ Installed(i[1])
          /\ stack' = <<Frame(op, i[1], i[2], 0)>>
    /\ UNCHANGED <<app_, normal_, life, inormal, running, ctx, next>>

\* SIGINT has set exit_flag.
MainUninstalls ==
    /\ stack = <<>>
    /\ next = 0
    /\ next' = -1
    /\ stack' = <<Frame("uninstall", "core", 0, Len(app_))>>
    /\ UNCHANGED <<app_, normal_, life, inormal, running, ctx>>

-----------------------------------------------------------------------------

Init ==
    /\ app_ = <<>>
    /\ normal_ = [a \in Apps |-> FALSE]
    /\ life = [i \in Instances |-> "none"]
    /\ inormal = [i \in Instances |-> TRUE]
    /\ running = [i \in Instances |-> FALSE]
    /\ ctx = [i \in Instances |-> {}]
    /\ stack = <<>>
    /\ next = 1

CallStep ==
    \/ Install \/ InitApp \/ Import
    \/ CreateInstance \/ InstanceCreated \/ AllCreated
    \/ StartInstance \/ SetUp \/ StopInstance \/ Exit
    \/ Uninstall \/ Release \/ DestroyInstance \/ DeleteInstance

Next ==
    \/ CallStep
    \/ MainInstalls \/ MainUninstalls \/ Request("start") \/ Request("stop")

Spec == Init /\ [][Next]_vars

\* A call in progress goes on: callbacks return.
FairSpec == Spec /\ WF_vars(CallStep)

-----------------------------------------------------------------------------
(* What the registry promises.                                              *)

\* No application is entered twice, though init callbacks install more of them
\* before the install that called them is over.
NamesUnique == IsInjective(app_)

\* Nobody starts or stops an instance that has been deleted: when a service
\* stops its subtasks they are still there.
CallsReachInstances ==
    TopIs("start") \/ TopIs("stop") => life[TopInst] \in {"new", "created", "destroyed"}

\* The callbacks of every instance come in the order of its life: no session
\* before create, none left over at destroy.
Lives == INSTANCE InstanceLife WITH
    stage <- [i \in Instances |->
                 CASE life[i] \in {"none", "new"} -> "new"
                   [] life[i] = "created" -> "created"
                   [] OTHER -> "destroyed"],
    up <- running

CallbackOrder == Lives!LSpec

\* When main() is done, everything that was installed is deleted.
NothingLeft ==
    next = -1 /\ stack = <<>> =>
        /\ app_ = <<>>
        /\ \A i \in Instances : life[i] \in {"none", "deleted"}

\* The shutdown comes to an end: services stop subtasks that stop subtasks, and
\* every instance is stopped once more when it is destroyed.
ShutdownEnds == next = -1 ~> stack = <<>>
=============================================================================
