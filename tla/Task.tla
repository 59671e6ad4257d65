-------------------------------- MODULE Task --------------------------------
(***************************************************************************)
(* One task of src/src/core.cpp: an instance's worker threads, started and  *)
(* stopped by one controlling thread (task::start and stop are not thread   *)
(* safe, as the TODO comments before them say).                             *)
(*                                                                          *)
(* With exactly one worker, setup and exit are called in the worker's own   *)
(* thread.  With none or several they are called by the controlling thread, *)
(* around the life of the workers' threads.                                 *)
(*                                                                          *)
(* A stop may have to get a worker out of a blocking system call: with      *)
(* send_kill_ set it sends SIGUSR1 again and again.  The handler runs on    *)
(* the worker's stack, wherever the worker is, and the program's own        *)
(* handler (main.cpp) logs, under the same mutex as every other message.    *)
(* Of the messages of core.cpp only those of the worker threads are here.   *)
(*                                                                          *)
(* A step is what a thread does between two of the points where another     *)
(* thread, or a signal, makes a difference.  task::run_ is not modelled:    *)
(* nothing but assertions reads it.                                         *)
(***************************************************************************)
EXTENDS Integers

CONSTANTS
    NWorkers,     \* workers_.size(), the number of loops of the application
    SendKill,     \* task::send_kill_
    HandlerLogs,  \* the SIGUSR1 handler logs, as the one of main.cpp does
    PrintsInfo,   \* jgb_log_print_level lets jgb_info through
    Nobody        \* nobody holds the mutex of the log

ASSUME WorkerAssumption ==
    /\ NWorkers \in Nat
    /\ SendKill \in BOOLEAN /\ HandlerLogs \in BOOLEAN /\ PrintsInfo \in BOOLEAN
    /\ Nobody \notin Nat

Workers == 1..NWorkers
Single == NWorkers = 1

VARIABLES
    \* struct task, and where the controlling thread is in it
    state,    \* state_
    cpc,      \* idle, or the part of start() or stop() it is in
    at,       \* the worker it is dealing with
    \* struct worker
    run, exited, normal,
    thread,   \* thread_ # nullptr
    \* the threads
    tpc,      \* where the worker's thread is
    hpc,      \* where the signal handler is that runs on its stack
    pending,  \* SIGUSR1 has been sent to it and not delivered yet
    logm      \* the worker that holds the mutex of to_stderr

taskVars   == <<state, cpc, at>>
workerVars == <<run, exited, normal, thread>>
signalVars == <<hpc, pending, logm>>
vars == <<taskVars, workerVars, tpc, signalVars>>

-----------------------------------------------------------------------------
(* The controlling thread: task::start.                                     *)

\* worker::start: a new thread.
StartWorker(w) ==
    /\ ~thread[w]
    /\ thread' = [thread EXCEPT ![w] = TRUE]
    /\ run' = [run EXCEPT ![w] = TRUE]
    /\ exited' = [exited EXCEPT ![w] = FALSE]
    /\ normal' = [normal EXCEPT ![w] = TRUE]
    /\ tpc' = [tpc EXCEPT ![w] = "begin"]
    /\ pending' = [pending EXCEPT ![w] = FALSE]
    /\ UNCHANGED <<hpc, logm>>

\* start_single: setup is left to the thread, whose failure nobody reports.
StartSingle ==
    /\ cpc = "idle" /\ state = "idle"
    /\ Single
    /\ StartWorker(1)
    /\ state' = "running"
    /\ UNCHANGED <<cpc, at>>

\* start_multiple calls setup.
StartMultiple ==
    /\ cpc = "idle" /\ state = "idle"
    /\ ~Single
    /\ cpc' = "setup"
    /\ UNCHANGED <<state, at, workerVars, tpc, signalVars>>

\* It returns 0, or the task stays idle.
SetupReturns ==
    /\ cpc = "setup"
    /\ \/ cpc' = "spawn" /\ at' = 1
       \/ cpc' = "idle" /\ UNCHANGED at
    /\ UNCHANGED <<state, workerVars, tpc, signalVars>>

\* The workers start one by one; the first may be looping before the last.
Spawn ==
    /\ cpc = "spawn"
    /\ at <= NWorkers
    /\ StartWorker(at)
    /\ at' = at + 1
    /\ UNCHANGED <<state, cpc>>

Spawned ==
    /\ cpc = "spawn"
    /\ at > NWorkers
    /\ state' = "running"
    /\ cpc' = "idle"
    /\ UNCHANGED <<at, workerVars, tpc, signalVars>>

-----------------------------------------------------------------------------
(* The controlling thread: task::stop.                                      *)

\* Mutant: the index does not go down.
StopNext_mutant(w) ==
    /\ at' = w
    /\ cpc' = IF w > 1 THEN "stop" ELSE IF Single THEN "idle" ELSE "exit"
    /\ state' = IF w = 1 /\ Single THEN "idle" ELSE state

\* What it does next when worker w is dealt with, going down: the next
\* worker, or exit when there are none left and it is up to this thread.
StopNext(w) ==
    /\ at' = w - 1
    /\ cpc' = IF w > 1 THEN "stop" ELSE IF Single THEN "idle" ELSE "exit"
    /\ state' = IF w = 1 /\ Single THEN "idle" ELSE state

Stop ==
    /\ cpc = "idle" /\ state = "running"
    /\ StopNext(NWorkers + 1)
    /\ UNCHANGED <<workerVars, tpc, signalVars>>

\* worker::stop asks the thread to end, and interrupts it if need be.
StopWorker ==
    /\ cpc = "stop"
    /\ run' = [run EXCEPT ![at] = FALSE]
    /\ cpc' = IF SendKill THEN "kill" ELSE "join"
    /\ pending' = [pending EXCEPT ![at] = SendKill]
    /\ UNCHANGED <<state, at, exited, normal, thread, tpc, hpc, logm>>

\* Mutant: the signal is sent once.
KillAgain_mutant ==
    /\ FALSE
    /\ UNCHANGED vars

\* Every 10 ms, until the thread says it has left its loop.
KillAgain ==
    /\ cpc = "kill"
    /\ ~exited[at]
    /\ pending' = [pending EXCEPT ![at] = TRUE]
    /\ UNCHANGED <<taskVars, workerVars, tpc, hpc, logm>>

KillDone ==
    /\ cpc = "kill"
    /\ exited[at]
    /\ cpc' = "join"
    /\ UNCHANGED <<state, at, workerVars, tpc, signalVars>>

\* Mutant: the thread is not waited for.
Join_mutant ==
    /\ cpc = "join"
    /\ thread' = [thread EXCEPT ![at] = FALSE]
    /\ StopNext(at)
    /\ UNCHANGED <<run, exited, normal, tpc, signalVars>>

\* thread_->join(), and the thread object is deleted.
Join ==
    /\ cpc = "join"
    /\ tpc[at] = "done"
    /\ thread' = [thread EXCEPT ![at] = FALSE]
    /\ tpc' = [tpc EXCEPT ![at] = "none"]
    /\ StopNext(at)
    /\ UNCHANGED <<run, exited, normal, signalVars>>

\* stop_multiple calls exit once every thread is gone.
ExitReturns ==
    /\ cpc = "exit"
    /\ cpc' = "idle"
    /\ state' = "idle"
    /\ UNCHANGED <<at, workerVars, tpc, signalVars>>

-----------------------------------------------------------------------------
(* The thread of worker w: core_worker.  It moves when no handler runs on   *)
(* its stack.                                                               *)

Goes(w, from, to) ==
    /\ hpc[w] = "out"
    /\ tpc[w] = from
    /\ tpc' = [tpc EXCEPT ![w] = to]

Begin(w) ==
    /\ Goes(w, "begin", IF Single THEN "setup" ELSE "test")
    /\ UNCHANGED <<taskVars, workerVars, signalVars>>

ThreadSetupOk(w) ==
    /\ Goes(w, "setup", "test")
    /\ UNCHANGED <<taskVars, workerVars, signalVars>>

\* Mutant: exit is called after a setup that failed.
ThreadSetupFails_mutant(w) ==
    /\ Goes(w, "setup", "exit")
    /\ normal' = [normal EXCEPT ![w] = FALSE]
    /\ UNCHANGED <<taskVars, run, exited, thread, signalVars>>

\* No loop, no exit.
ThreadSetupFails(w) ==
    /\ Goes(w, "setup", "done")
    /\ exited' = [exited EXCEPT ![w] = TRUE]
    /\ normal' = [normal EXCEPT ![w] = FALSE]
    /\ UNCHANGED <<taskVars, run, thread, signalVars>>

\* while(w->run_)
Test(w) ==
    /\ Goes(w, "test", IF run[w] THEN "loop" ELSE "left")
    /\ UNCHANGED <<taskVars, workerVars, signalVars>>

\* The loop callback enters a system call, which may return by itself.
LoopBlocks(w) ==
    /\ Goes(w, "loop", "blocked")
    /\ UNCHANGED <<taskVars, workerVars, signalVars>>

LoopWakes(w) ==
    /\ Goes(w, "blocked", "awake")
    /\ UNCHANGED <<taskVars, workerVars, signalVars>>

\* It returns 0 to be called again, JGB_ERR_END, or an error.
LoopReturns(w) ==
    /\ \E from \in {"loop", "awake"} :
          \/ Goes(w, from, "test") /\ UNCHANGED normal
          \/ Goes(w, from, "left") /\ UNCHANGED normal
          \/ Goes(w, from, "warn") /\ normal' = [normal EXCEPT ![w] = FALSE]
    /\ UNCHANGED <<taskVars, run, exited, thread, signalVars>>

\* The mutex of to_stderr, for the warning about the error and, if it is to be
\* printed, for the message that the loop has ended.
LockLog(w) ==
    /\ logm = Nobody
    /\ \/ Goes(w, "warn", "warning")
       \/ PrintsInfo /\ Goes(w, "tell", "telling")
    /\ logm' = w
    /\ UNCHANGED <<taskVars, workerVars, hpc, pending>>

UnlockLog(w) ==
    /\ Goes(w, "warning", "left") \/ Goes(w, "telling", "last")
    /\ logm' = Nobody
    /\ UNCHANGED <<taskVars, workerVars, hpc, pending>>

NothingToTell(w) ==
    /\ ~PrintsInfo
    /\ Goes(w, "tell", "last")
    /\ UNCHANGED <<taskVars, workerVars, signalVars>>

\* Mutant: exit is called by every worker.
Leave_mutant(w) ==
    /\ Goes(w, "left", "exit")
    /\ UNCHANGED <<taskVars, workerVars, signalVars>>

\* The only worker of a task calls exit.
Leave(w) ==
    /\ Goes(w, "left", IF Single THEN "exit" ELSE "tell")
    /\ UNCHANGED <<taskVars, workerVars, signalVars>>

ThreadExitReturns(w) ==
    /\ Goes(w, "exit", "tell")
    /\ UNCHANGED <<taskVars, workerVars, signalVars>>

End(w) ==
    /\ Goes(w, "last", "done")
    /\ exited' = [exited EXCEPT ![w] = TRUE]
    /\ UNCHANGED <<taskVars, run, normal, thread, signalVars>>

-----------------------------------------------------------------------------
(* SIGUSR1 on the stack of worker w: handler in main.cpp.                   *)

\* A system call that was interrupted returns.
Interrupt(w) ==
    tpc' = [tpc EXCEPT ![w] = IF @ = "blocked" THEN "awake" ELSE @]

\* SIGUSR1 is not delivered again while its handler runs.
Deliver(w) ==
    /\ pending[w]
    /\ hpc[w] = "out"
    /\ tpc[w] \notin {"none", "done"}
    /\ pending' = [pending EXCEPT ![w] = FALSE]
    /\ IF HandlerLogs
       THEN hpc' = [hpc EXCEPT ![w] = "lock"] /\ UNCHANGED tpc
       ELSE Interrupt(w) /\ UNCHANGED hpc
    /\ UNCHANGED <<taskVars, workerVars, logm>>

\* jgb_notice in the handler.
HandlerLocks(w) ==
    /\ hpc[w] = "lock"
    /\ logm = Nobody
    /\ logm' = w
    /\ hpc' = [hpc EXCEPT ![w] = "print"]
    /\ UNCHANGED <<taskVars, workerVars, tpc, pending>>

HandlerReturns(w) ==
    /\ hpc[w] = "print"
    /\ logm' = Nobody
    /\ hpc' = [hpc EXCEPT ![w] = "out"]
    /\ Interrupt(w)
    /\ UNCHANGED <<taskVars, workerVars, pending>>

-----------------------------------------------------------------------------

Init ==
    /\ state = "idle"
    /\ cpc = "idle"
    /\ at = 0
    /\ run = [w \in Workers |-> FALSE]
    /\ exited = [w \in Workers |-> FALSE]
    /\ normal = [w \in Workers |-> TRUE]
    /\ thread = [w \in Workers |-> FALSE]
    /\ tpc = [w \in Workers |-> "none"]
    /\ hpc = [w \in Workers |-> "out"]
    /\ pending = [w \in Workers |-> FALSE]
    /\ logm = Nobody

StartStep == StartSingle \/ StartMultiple
StopStep ==
    \/ StopWorker \/ KillAgain \/ KillDone \/ Join \/ ExitReturns
ControlStep ==
    \/ StartStep \/ SetupReturns \/ Spawn \/ Spawned \/ Stop \/ StopStep

ThreadStep(w) ==
    \/ Begin(w) \/ ThreadSetupOk(w) \/ ThreadSetupFails(w) \/ Test(w)
    \/ LoopReturns(w) \/ LockLog(w) \/ UnlockLog(w) \/ NothingToTell(w)
    \/ Leave(w) \/ ThreadExitReturns(w) \/ End(w)

SystemCall(w) == LoopBlocks(w) \/ LoopWakes(w)
HandlerStep(w) == Deliver(w) \/ HandlerLocks(w) \/ HandlerReturns(w)

Next ==
    \/ ControlStep
    \/ \E w \in Workers : ThreadStep(w) \/ SystemCall(w) \/ HandlerStep(w)

Spec == Init /\ [][Next]_vars

-----------------------------------------------------------------------------
(* Fairness.  No thread is stopped for good, a signal that was sent is      *)
(* delivered, and callbacks return, unless they block in a system call:     *)
(* that one need not return by itself.  Strong, because a thread gets ahead *)
(* between two signals, 10 ms apart, and because the mutex of the log goes  *)
(* to whoever asks for it again and again.  Nobody has to start or stop.    *)

FairSpec ==
    /\ Spec
    /\ WF_vars(StopStep)
    /\ \A w \in Workers :
          /\ SF_vars(ThreadStep(w))
          /\ SF_vars(HandlerStep(w))

-----------------------------------------------------------------------------
(* What a task promises.                                                    *)

ThreadStates ==
    {"none", "begin", "setup", "test", "loop", "blocked", "awake", "warn",
     "warning", "left", "exit", "tell", "telling", "last", "done"}

TypeOK ==
    /\ state \in {"idle", "running"}
    /\ cpc \in {"idle", "setup", "spawn", "stop", "kill", "join", "exit"}
    /\ at \in IF cpc \in {"stop", "kill", "join"} THEN Workers ELSE 0..NWorkers + 1
    /\ run \in [Workers -> BOOLEAN]
    /\ exited \in [Workers -> BOOLEAN]
    /\ normal \in [Workers -> BOOLEAN]
    /\ thread \in [Workers -> BOOLEAN]
    /\ tpc \in [Workers -> ThreadStates]
    /\ hpc \in [Workers -> {"out", "lock", "print"}]
    /\ pending \in [Workers -> BOOLEAN]
    /\ logm \in Workers \cup {Nobody}

\* A task that is not running has no thread left, nor a message half printed:
\* the next start finds every worker free (the jgb_bug() at core.cpp:142) and
\* the instance can be deleted.
QuietWhenIdle ==
    state = "idle" /\ cpc \in {"idle", "setup"} =>
        /\ \A w \in Workers : ~thread[w] /\ tpc[w] = "none" /\ hpc[w] = "out"
        /\ logm = Nobody

\* A task as its callbacks see it: whether setup has succeeded and exit not yet
\* returned, which of them is being called, and the loops that are.
SetUpDone ==
    IF Single
    THEN tpc[1] \in {"test", "loop", "blocked", "awake", "warn", "warning",
                     "left", "exit"}
    ELSE state = "running" \/ cpc = "spawn"

CalledNow ==
    IF cpc = "setup" \/ \E w \in Workers : tpc[w] = "setup" THEN "setup"
    ELSE IF cpc = "exit" \/ \E w \in Workers : tpc[w] = "exit" THEN "exit"
    ELSE "none"

InLoop(w) == tpc[w] \in {"loop", "blocked", "awake"}

Session == INSTANCE TaskSession WITH
    up <- SetUpDone,
    calling <- CalledNow,
    looping <- {w \in Workers : InLoop(w)}

\* Every step of the task is a step of a session or leaves it as it is: what
\* the applications under test/ assert, whatever start and stop run into.
CallbacksInSession == Session!SSpec

Stopping == cpc \in {"stop", "kill", "join", "exit"}

\* What core.h:96 says of send_kill_ = true: SIGUSR1 terminates the threads, so
\* a stop comes to an end even when loops are blocked.
StopReturns == Stopping ~> ~Stopping
=============================================================================
