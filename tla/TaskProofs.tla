----------------------------- MODULE TaskProofs -----------------------------
(***************************************************************************)
(* What holds of Task for any number of workers, with or without send_kill  *)
(* and whatever the signal handler does: its types, that nothing is left of *)
(* a task that is idle, and that its callbacks are called in sessions.      *)
(*                                                                          *)
(* All of it rests on where threads can exist: from the controlling         *)
(* thread's place in start() or stop() to what each worker may be doing.    *)
(***************************************************************************)
EXTENDS Task, TLAPS

\* A worker's thread object and its thread come and go together, no handler
\* outlives its thread, and only a single worker calls setup and exit.
ThreadInv ==
    \A w \in Workers :
        /\ thread[w] <=> tpc[w] # "none"
        /\ tpc[w] \in {"none", "done"} => hpc[w] = "out"
        /\ ~Single => tpc[w] \notin {"setup", "exit"}

\* Who holds the mutex of the log is printing, itself or in its handler.
LogInv ==
    logm # Nobody => tpc[logm] \in {"warning", "telling"} \/ hpc[logm] = "print"

\* Threads exist below the worker start() has reached, and up to the one stop()
\* is dealing with.
PhaseInv ==
    /\ Single => cpc \notin {"setup", "spawn", "exit"}
    /\ cpc \in {"setup", "spawn"} => state = "idle"
    /\ cpc \in {"stop", "kill", "join", "exit"} => state = "running"
    /\ state = "idle" /\ cpc # "spawn" => \A w \in Workers : ~thread[w]
    /\ cpc = "spawn" => at >= 1 /\ \A w \in Workers : w >= at => ~thread[w]
    /\ cpc \in {"stop", "kill", "join"} => \A w \in Workers : w > at => ~thread[w]
    /\ cpc = "exit" => \A w \in Workers : ~thread[w]

IInv == TypeOK /\ ThreadInv /\ LogInv /\ PhaseInv

\* The invariant holds when nothing has been started.
LEMMA InitInv == Init => IInv
BY WorkerAssumption DEF Init, IInv, TypeOK, ThreadInv, LogInv, PhaseInv, Workers,
   ThreadStates, Single

\* The controlling thread keeps it.
LEMMA ControlInv == IInv /\ ControlStep => IInv'
<1> SUFFICES ASSUME IInv, ControlStep PROVE IInv'
  OBVIOUS
<1> USE WorkerAssumption DEF IInv, TypeOK, ThreadInv, LogInv, PhaseInv, Workers,
   Single, ThreadStates, taskVars, workerVars, signalVars
<1>1. CASE StartSingle
  BY <1>1 DEF StartSingle, StartWorker
<1>2. CASE StartMultiple
  BY <1>2 DEF StartMultiple
<1>3. CASE SetupReturns
  BY <1>3 DEF SetupReturns
<1>4. CASE Spawn
  BY <1>4 DEF Spawn, StartWorker
<1>5. CASE Spawned
  BY <1>5 DEF Spawned
<1>6. CASE Stop
  BY <1>6 DEF Stop, StopNext
<1>7. CASE StopWorker
  BY <1>7 DEF StopWorker
<1>8. CASE KillAgain
  BY <1>8 DEF KillAgain
<1>9. CASE KillDone
  BY <1>9 DEF KillDone
<1>10. CASE Join
  BY <1>10 DEF Join, StopNext
<1>11. CASE ExitReturns
  BY <1>11 DEF ExitReturns
<1> QED
  BY <1>1, <1>2, <1>3, <1>4, <1>5, <1>6, <1>7, <1>8, <1>9, <1>10, <1>11
     DEF ControlStep, StartStep, StopStep

\* A worker's thread keeps it.
LEMMA ThreadKeepsInv ==
  ASSUME IInv, NEW w \in Workers, ThreadStep(w) \/ SystemCall(w)
  PROVE  IInv'
<1> USE WorkerAssumption DEF IInv, TypeOK, ThreadInv, LogInv, PhaseInv, Workers,
   Single, ThreadStates, taskVars, workerVars, signalVars, Goes
<1>1. CASE Begin(w)
  BY <1>1 DEF Begin
<1>2. CASE ThreadSetupOk(w)
  BY <1>2 DEF ThreadSetupOk
<1>3. CASE ThreadSetupFails(w)
  BY <1>3 DEF ThreadSetupFails
<1>4. CASE Test(w)
  BY <1>4 DEF Test
<1>5. CASE LoopReturns(w)
  <2> USE <1>5 DEF LoopReturns
  <2>1. PICK from \in {"loop", "awake"}, to \in {"test", "left", "warn"} : Goes(w, from, to)
    OBVIOUS
  <2>2. normal' \in [Workers -> BOOLEAN]
    OBVIOUS
  <2> QED
    BY <2>1, <2>2
<1>6. CASE LockLog(w)
  <2> USE <1>6 DEF LockLog
  <2>1. CASE Goes(w, "warn", "warning")
    BY <2>1
  <2>2. CASE Goes(w, "tell", "telling")
    BY <2>2
  <2> QED
    BY <2>1, <2>2
<1>7. CASE UnlockLog(w)
  <2> USE <1>7 DEF UnlockLog
  <2>1. CASE Goes(w, "warning", "left")
    BY <2>1
  <2>2. CASE Goes(w, "telling", "last")
    BY <2>2
  <2> QED
    BY <2>1, <2>2
<1>8. CASE NothingToTell(w)
  BY <1>8 DEF NothingToTell
<1>9. CASE Leave(w)
  BY <1>9 DEF Leave
<1>10. CASE ThreadExitReturns(w)
  BY <1>10 DEF ThreadExitReturns
<1>11. CASE End(w)
  BY <1>11 DEF End
<1>12. CASE LoopBlocks(w)
  BY <1>12 DEF LoopBlocks
<1>13. CASE LoopWakes(w)
  BY <1>13 DEF LoopWakes
<1> QED
  BY <1>1, <1>2, <1>3, <1>4, <1>5, <1>6, <1>7, <1>8, <1>9, <1>10, <1>11,
     <1>12, <1>13 DEF ThreadStep, SystemCall

\* The signal handler keeps it.
LEMMA HandlerKeepsInv ==
  ASSUME IInv, NEW w \in Workers, HandlerStep(w)
  PROVE  IInv'
<1> USE WorkerAssumption DEF IInv, TypeOK, ThreadInv, LogInv, PhaseInv, Workers,
   Single, ThreadStates, taskVars, workerVars, signalVars, Interrupt
<1>1. CASE Deliver(w)
  <2> USE <1>1 DEF Deliver
  <2>1. CASE HandlerLogs
    BY <2>1
  <2>2. CASE ~HandlerLogs
    <3>1. CASE tpc[w] = "blocked"
      BY <2>2, <3>1
    <3>2. CASE tpc[w] # "blocked"
      <4>1. tpc' = tpc
        BY <2>2, <3>2
      <4> QED
        BY <2>2, <4>1
    <3> QED
      BY <3>1, <3>2
  <2> QED
    BY <2>1, <2>2
<1>2. CASE HandlerLocks(w)
  BY <1>2 DEF HandlerLocks
<1>3. CASE HandlerReturns(w)
  BY <1>3 DEF HandlerReturns
<1> QED
  BY <1>1, <1>2, <1>3 DEF HandlerStep

\* Every step keeps the invariant.
LEMMA NextInv == IInv /\ [Next]_vars => IInv'
<1> SUFFICES ASSUME IInv, [Next]_vars PROVE IInv'
  OBVIOUS
<1>1. CASE UNCHANGED vars
  BY <1>1 DEF vars, taskVars, workerVars, signalVars, IInv, TypeOK, ThreadInv,
     LogInv, PhaseInv
<1>2. CASE ControlStep
  BY <1>2, ControlInv
<1>3. ASSUME NEW w \in Workers, ThreadStep(w) \/ SystemCall(w) \/ HandlerStep(w)
      PROVE  IInv'
  BY <1>3, ThreadKeepsInv, HandlerKeepsInv
<1> QED
  BY <1>1, <1>2, <1>3 DEF Next

LEMMA Invariance == Spec => []IInv
<1> QED
  BY InitInv, NextInv, PTL DEF Spec

\* The variables of a task hold values of their types.
THEOREM TypeCorrect == Spec => []TypeOK
<1>1. IInv => TypeOK
  BY DEF IInv
<1> QED
  BY Invariance, <1>1, PTL

\* A task that is idle has no thread and no message half printed.
THEOREM IdleIsQuiet == Spec => []QuietWhenIdle
<1>1. IInv => QuietWhenIdle
  BY WorkerAssumption DEF IInv, TypeOK, ThreadInv, LogInv, PhaseInv, QuietWhenIdle
<1> QED
  BY Invariance, <1>1, PTL

-----------------------------------------------------------------------------
(* The task implements TaskSession: every step of a thread is one step of a  *)
(* session or leaves it as it is.                                            *)

Looping == {w \in Workers : InLoop(w)}

\* What the invariant says of sessions.  Which callback is being called is up
\* to the controlling thread or to the only worker; a thread of several has a
\* session around it; without threads nobody is in a loop.
SessionInv ==
    /\ ~Single => CalledNow = IF cpc \in {"setup", "exit"} THEN cpc ELSE "none"
    /\ Single => CalledNow = IF tpc[1] \in {"setup", "exit"} THEN tpc[1] ELSE "none"
    /\ ~Single => \A w \in Workers : thread[w] => SetUpDone /\ CalledNow = "none"
    /\ (\A w \in Workers : ~thread[w]) => Looping = {}

\* The invariant implies it.
LEMMA SessionFacts == IInv => SessionInv
<1> SUFFICES ASSUME IInv PROVE SessionInv
  OBVIOUS
<1> USE WorkerAssumption DEF IInv, TypeOK, ThreadInv, PhaseInv, Workers, Single
<1>1. ~Single => CalledNow = IF cpc \in {"setup", "exit"} THEN cpc ELSE "none"
  BY DEF CalledNow
<1>2. Single => CalledNow = IF tpc[1] \in {"setup", "exit"} THEN tpc[1] ELSE "none"
  BY DEF CalledNow
<1>3. ~Single => \A w \in Workers : thread[w] => SetUpDone /\ CalledNow = "none"
  BY <1>1 DEF SetUpDone
<1>4. (\A w \in Workers : ~thread[w]) => Looping = {}
  BY DEF Looping, InLoop
<1> QED
  BY <1>1, <1>2, <1>3, <1>4 DEF SessionInv

\* And in the next state.
LEMMA SessionFactsNext == IInv' => SessionInv'
BY SessionFacts, PTL

\* Initially there is no session.
LEMMA InitSession == Init => Session!SInit
BY WorkerAssumption DEF Init, Session!SInit, SetUpDone, CalledNow, InLoop, Single,
   Workers

SessionStep == Session!SNext \/ UNCHANGED <<SetUpDone, CalledNow, Looping>>

\* A worker that moves from one place to another is in the loop or not by where
\* it is going.
LEMMA LoopingMoves ==
  ASSUME IInv, NEW w \in Workers, NEW to, tpc' = [tpc EXCEPT ![w] = to]
  PROVE  Looping' = IF to \in {"loop", "blocked", "awake"}
                    THEN Looping \cup {w} ELSE Looping \ {w}
BY DEF IInv, TypeOK, Looping, InLoop

\* A step of the controlling thread of a task with one worker.
LEMMA ControlSingle ==
  ASSUME IInv, IInv', ControlStep, Single
  PROVE  UNCHANGED <<SetUpDone, CalledNow, Looping>>
<1> USE WorkerAssumption DEF Single
<1>0. /\ 1 \in Workers /\ Workers = {1}
      /\ tpc \in [Workers -> ThreadStates]
      /\ thread[1] <=> tpc[1] # "none"
      /\ cpc \notin {"setup", "spawn", "exit"}
  BY DEF Workers, IInv, TypeOK, ThreadInv, PhaseInv
<1>1. \/ UNCHANGED tpc
      \/ tpc[1] = "none" /\ tpc' = [tpc EXCEPT ![1] = "begin"]
      \/ tpc[1] = "done" /\ tpc' = [tpc EXCEPT ![1] = "none"]
  BY <1>0 DEF ControlStep, StartStep, StopStep, StartSingle, StartWorker,
     StartMultiple, SetupReturns, Spawn, Spawned, Stop, StopWorker, KillAgain,
     KillDone, Join, ExitReturns, workerVars, taskVars, IInv, TypeOK
<1>2. /\ tpc[1] \in {"setup", "exit"} <=> tpc'[1] \in {"setup", "exit"}
      /\ tpc[1] \in {"setup", "exit"} => tpc'[1] = tpc[1]
      /\ \A w \in Workers : InLoop(w)' <=> InLoop(w)
  BY <1>0, <1>1 DEF InLoop
<1>3. CalledNow' = CalledNow
  BY <1>2, SessionFacts, SessionFactsNext DEF SessionInv
<1>4. Looping' = Looping
  BY <1>2 DEF Looping
<1>5. SetUpDone' = SetUpDone
  BY <1>0, <1>1 DEF SetUpDone
<1> QED
  BY <1>3, <1>4, <1>5

\* A step of the controlling thread of a task with none or several.
LEMMA ControlMultiple ==
  ASSUME IInv, IInv', ControlStep, ~Single
  PROVE  SessionStep
<1> USE WorkerAssumption DEF SessionStep
<1>0. /\ SetUpDone = (state = "running" \/ cpc = "spawn")
      /\ SetUpDone' = (state' = "running" \/ cpc' = "spawn")
      /\ CalledNow = IF cpc \in {"setup", "exit"} THEN cpc ELSE "none"
      /\ CalledNow' = IF cpc' \in {"setup", "exit"} THEN cpc' ELSE "none"
      /\ (\A w \in Workers : ~thread[w]) => Looping = {}
      /\ (\A w \in Workers : ~thread'[w]) => Looping' = {}
  BY SessionFacts, SessionFactsNext DEF SessionInv, SetUpDone, Single
<1>1. ASSUME UNCHANGED tpc PROVE Looping' = Looping
  BY <1>1 DEF Looping, InLoop
<1>2. CASE StartMultiple
  <2>1. Looping = {} /\ Looping' = {}
    BY <1>0, <1>1, <1>2 DEF StartMultiple, IInv, PhaseInv
  <2> QED
    BY <1>0, <1>2, <2>1 DEF StartMultiple, Session!SNext, Session!BeginSetup, Looping
<1>3. CASE SetupReturns
  <2>1. Session!EndSetup
    BY <1>0, <1>1, <1>3 DEF SetupReturns, Session!EndSetup, Looping, IInv, PhaseInv
  <2> QED
    BY <2>1 DEF Session!SNext
<1>4. CASE Spawn
  <2>1. at \in Workers /\ tpc[at] = "none" /\ tpc' = [tpc EXCEPT ![at] = "begin"]
    BY <1>4 DEF Spawn, StartWorker, Workers, IInv, TypeOK, ThreadInv, PhaseInv
  <2>2. Looping' = Looping
    BY <2>1, LoopingMoves DEF Looping, InLoop
  <2> QED
    BY <1>0, <1>4, <2>2 DEF Spawn
<1>5. CASE Spawned
  BY <1>0, <1>1, <1>5 DEF Spawned
<1>6. ASSUME cpc' = "exit", state' = state, Looping' = {},
             state = "running", cpc \notin {"setup", "exit"}, Looping = {}
      PROVE  SessionStep
  <2>1. Session!BeginExit
    BY <1>0, <1>6 DEF Session!BeginExit, Looping
  <2> QED
    BY <2>1 DEF Session!SNext
<1>7. CASE Stop
  <2>1. CASE NWorkers = 0
    <3>1. Looping = {} /\ Looping' = {} /\ cpc' = "exit" /\ state' = state
      BY <2>1, <1>0, <1>1, <1>7 DEF Stop, StopNext, Workers, Looping, Single
    <3> QED
      BY <1>6, <1>7, <3>1 DEF Stop
  <2>2. CASE NWorkers # 0
    BY <1>0, <1>1, <1>7, <2>2 DEF Stop, StopNext, Single
  <2> QED
    BY <2>1, <2>2
<1>8. CASE Join
  <2>1. at \in Workers /\ tpc[at] = "done" /\ tpc' = [tpc EXCEPT ![at] = "none"]
        /\ state = "running" /\ state' = state /\ cpc = "join"
    BY <1>8 DEF Join, StopNext, IInv, TypeOK, PhaseInv
  <2>2. Looping' = Looping
    BY <2>1, LoopingMoves DEF Looping, InLoop
  <2>3. CASE cpc' = "exit"
    <3>1. Looping' = {}
      BY <1>0, <2>3 DEF IInv, PhaseInv
    <3> QED
      BY <1>6, <2>1, <2>2, <2>3, <3>1
  <2>4. CASE cpc' # "exit"
    <3>1. cpc' = "stop"
      BY <1>8, <2>1, <2>4 DEF Join, StopNext, Workers
    <3> QED
      BY <1>0, <2>1, <2>2, <3>1
  <2> QED
    BY <2>3, <2>4
<1>9. CASE StopWorker \/ KillAgain \/ KillDone
  BY <1>0, <1>1, <1>9 DEF StopWorker, KillAgain, KillDone, taskVars, workerVars
<1>10. CASE ExitReturns
  <2>1. Session!EndExit
    BY <1>0, <1>1, <1>10 DEF ExitReturns, Session!EndExit, Looping
  <2> QED
    BY <2>1 DEF Session!SNext
<1>11. ~StartSingle
  BY DEF StartSingle
<1> QED
  BY <1>2, <1>3, <1>4, <1>5, <1>7, <1>8, <1>9, <1>10, <1>11
     DEF ControlStep, StartStep, StopStep

\* A step of a thread of several workers: its loop begins, ends or neither.
LEMMA ThreadMultiple ==
  ASSUME IInv, IInv', ~Single, NEW w \in Workers,
         ThreadStep(w) \/ SystemCall(w) \/ HandlerStep(w)
  PROVE  SessionStep
<1> USE WorkerAssumption DEF SessionStep
<1>0. /\ UNCHANGED <<state, cpc, at>>
      /\ tpc \in [Workers -> ThreadStates]
      /\ \/ UNCHANGED tpc
         \/ tpc[w] = "test" /\ tpc' = [tpc EXCEPT ![w] = "loop"]
         \/ \E to \in ThreadStates \ {"loop"} :
               /\ tpc' = [tpc EXCEPT ![w] = to]
               /\ tpc[w] \notin {"loop", "blocked", "awake"} => to \notin {"blocked", "awake"}
  BY DEF ThreadStep, SystemCall, HandlerStep, Begin, ThreadSetupOk,
     ThreadSetupFails, Test, LoopReturns, LockLog, UnlockLog, NothingToTell, Leave,
     ThreadExitReturns, End, LoopBlocks, LoopWakes, Deliver, HandlerLocks,
     HandlerReturns, Interrupt, Goes, taskVars, workerVars, signalVars, IInv, TypeOK,
     ThreadStates
<1>1. UNCHANGED <<SetUpDone, CalledNow>>
  BY <1>0, SessionFacts, SessionFactsNext DEF SessionInv, SetUpDone, Single
<1>2. CASE UNCHANGED tpc
  BY <1>1, <1>2 DEF Looping, InLoop
<1>3. CASE tpc[w] = "test" /\ tpc' = [tpc EXCEPT ![w] = "loop"]
  <2>1. SetUpDone /\ CalledNow = "none" /\ w \notin Looping
    BY <1>3, SessionFacts DEF SessionInv, IInv, ThreadInv, Looping, InLoop
  <2>2. Looping' = Looping \cup {w}
    BY <1>3, LoopingMoves
  <2>3. Session!EnterLoop(w)
    BY <1>1, <2>1, <2>2 DEF Session!EnterLoop, Looping
  <2> QED
    BY <2>3 DEF Session!SNext
<1>4. ASSUME NEW to \in ThreadStates \ {"loop"}, tpc' = [tpc EXCEPT ![w] = to],
             tpc[w] \notin {"loop", "blocked", "awake"} => to \notin {"blocked", "awake"}
      PROVE  SessionStep
  <2>1. Looping' = IF to \in {"blocked", "awake"} THEN Looping \cup {w} ELSE Looping \ {w}
    BY <1>4, LoopingMoves
  <2>2. CASE Looping' = Looping
    BY <1>1, <2>2
  <2>3. CASE Looping' # Looping
    <3>1. w \in Looping /\ Looping' = Looping \ {w}
      BY <1>4, <2>1, <2>3 DEF Looping, InLoop
    <3>2. Session!LeaveLoop(w)
      BY <1>1, <3>1 DEF Session!LeaveLoop, Looping
    <3> QED
      BY <3>2 DEF Session!SNext
  <2> QED
    BY <2>2, <2>3
<1> QED
  BY <1>0, <1>2, <1>3, <1>4

\* A step of the only worker's thread, which calls setup and exit too.
LEMMA ThreadSingle ==
  ASSUME IInv, IInv', Single, NEW w \in Workers,
         ThreadStep(w) \/ SystemCall(w) \/ HandlerStep(w)
  PROVE  SessionStep
<1> USE WorkerAssumption DEF SessionStep
<1>0. /\ w = 1 /\ Workers = {1}
      /\ tpc \in [Workers -> ThreadStates]
  BY DEF Single, Workers, IInv, TypeOK
<1>1. /\ CalledNow = IF tpc[1] \in {"setup", "exit"} THEN tpc[1] ELSE "none"
      /\ CalledNow' = IF tpc'[1] \in {"setup", "exit"} THEN tpc'[1] ELSE "none"
  BY SessionFacts, SessionFactsNext DEF SessionInv, Single
<1>2. /\ Looping = IF tpc[1] \in {"loop", "blocked", "awake"} THEN {1} ELSE {}
      /\ Looping' = IF tpc'[1] \in {"loop", "blocked", "awake"} THEN {1} ELSE {}
  BY <1>0 DEF Looping, InLoop
<1>3. CASE UNCHANGED tpc
  BY <1>1, <1>3 DEF Looping, InLoop, SetUpDone
<1>4. /\ SetUpDone <=> (tpc[1] \in {"test", "loop", "blocked", "awake", "warn",
                                  "warning", "left", "exit"})
      /\ SetUpDone' <=> (tpc'[1] \in {"test", "loop", "blocked", "awake", "warn",
                                    "warning", "left", "exit"})
  BY DEF SetUpDone, Single
<1>14. SetUpDone \in BOOLEAN
  BY DEF SetUpDone, Single
<1>15. SetUpDone' \in BOOLEAN
  BY DEF SetUpDone, Single
<1>5. CASE Begin(w)
  <2>1. tpc[1] = "begin" /\ tpc'[1] = "setup"
    BY <1>0, <1>5 DEF Begin, Goes
  <2>2. /\ ~SetUpDone /\ ~SetUpDone'
        /\ CalledNow = "none" /\ CalledNow' = "setup"
        /\ Looping = {} /\ Looping' = {}
    BY <1>1, <1>2, <1>4, <1>14, <1>15, <2>1
  <2>3. Session!BeginSetup
    BY <1>14, <1>15, <2>2 DEF Session!BeginSetup, Looping
  <2> QED
    BY <2>3 DEF Session!SNext
<1>6. CASE ThreadSetupOk(w) \/ ThreadSetupFails(w)
  <2>1. tpc[1] = "setup" /\ \E to \in {"test", "done"} : tpc'[1] = to
    BY <1>0, <1>6 DEF ThreadSetupOk, ThreadSetupFails, Goes
  <2>2. /\ CalledNow = "setup" /\ CalledNow' = "none"
        /\ SetUpDone' \in BOOLEAN
        /\ Looping = {} /\ Looping' = {}
    BY <1>1, <1>2, <1>4, <1>14, <1>15, <2>1
  <2>3. Session!EndSetup
    BY <1>14, <1>15, <2>2 DEF Session!EndSetup, Looping
  <2> QED
    BY <2>3 DEF Session!SNext
<1>7. CASE Leave(w)
  <2>1. tpc[1] = "left" /\ tpc'[1] = "exit"
    BY <1>0, <1>7 DEF Leave, Goes
  <2>2. /\ SetUpDone /\ SetUpDone'
        /\ CalledNow = "none" /\ CalledNow' = "exit"
        /\ Looping = {} /\ Looping' = {}
    BY <1>1, <1>2, <1>4, <1>14, <1>15, <2>1
  <2>3. Session!BeginExit
    BY <1>14, <1>15, <2>2 DEF Session!BeginExit, Looping
  <2> QED
    BY <2>3 DEF Session!SNext
<1>8. CASE ThreadExitReturns(w)
  <2>1. tpc[1] = "exit" /\ tpc'[1] = "tell"
    BY <1>0, <1>8 DEF ThreadExitReturns, Goes
  <2>2. /\ ~SetUpDone'
        /\ CalledNow = "exit" /\ CalledNow' = "none"
        /\ Looping = {} /\ Looping' = {}
    BY <1>1, <1>2, <1>4, <1>14, <1>15, <2>1
  <2>3. Session!EndExit
    BY <1>14, <1>15, <2>2 DEF Session!EndExit, Looping
  <2> QED
    BY <2>3 DEF Session!SNext
<1>9. CASE Test(w) /\ run[w]
  <2>1. tpc[1] = "test" /\ tpc'[1] = "loop"
    BY <1>0, <1>9 DEF Test, Goes
  <2>2. /\ SetUpDone /\ SetUpDone'
        /\ CalledNow = "none" /\ CalledNow' = "none"
        /\ Looping = {} /\ Looping' = {1}
    BY <1>1, <1>2, <1>4, <1>14, <1>15, <2>1
  <2>3. Session!EnterLoop(1)
    BY <1>14, <1>15, <2>2 DEF Session!EnterLoop, Looping
  <2> QED
    BY <1>0, <2>3 DEF Session!SNext
<1>10. CASE LoopReturns(w)
  <2>1. tpc[1] \in {"loop", "awake"} /\
        \E to \in {"test", "left", "warn"} : tpc'[1] = to
    BY <1>0, <1>10 DEF LoopReturns, Goes
  <2>2. /\ SetUpDone /\ SetUpDone'
        /\ CalledNow = "none" /\ CalledNow' = "none"
        /\ Looping = {1} /\ Looping' = {}
    BY <1>1, <1>2, <1>4, <1>14, <1>15, <2>1
  <2>3. Session!LeaveLoop(1)
    BY <1>14, <1>15, <2>2 DEF Session!LeaveLoop, Looping
  <2> QED
    BY <1>0, <2>3 DEF Session!SNext
<1>11. CASE SystemCall(w)
  <2>1. tpc[1] \in {"loop", "blocked"} /\
        \E to \in {"blocked", "awake"} : tpc'[1] = to
    BY <1>0, <1>11 DEF SystemCall, LoopBlocks, LoopWakes, Goes
  <2> QED
    BY <1>1, <1>2, <1>4, <1>14, <1>15, <2>1
<1>12. CASE HandlerStep(w)
  <2>1. (UNCHANGED tpc) \/ (tpc[1] = "blocked" /\ tpc'[1] = "awake")
    <3>1. CASE UNCHANGED tpc
      BY <3>1
    <3>2. CASE Interrupt(w)
      <4>1. CASE tpc[w] = "blocked"
        BY <1>0, <3>2, <4>1 DEF Interrupt
      <4>2. CASE tpc[w] # "blocked"
        <5>1. tpc' = [tpc EXCEPT ![w] = tpc[w]]
          BY <1>0, <3>2, <4>2 DEF Interrupt
        <5> QED
          BY <1>0, <5>1
      <4> QED
        BY <4>1, <4>2
    <3>3. CASE Deliver(w)
      BY <3>1, <3>2, <3>3 DEF Deliver
    <3>4. CASE HandlerLocks(w)
      BY <3>1, <3>4 DEF HandlerLocks
    <3>5. CASE HandlerReturns(w)
      BY <3>2, <3>5 DEF HandlerReturns
    <3> QED
      BY <1>12, <3>3, <3>4, <3>5 DEF HandlerStep
  <2> QED
    BY <1>1, <1>2, <1>3, <1>4, <1>14, <1>15, <2>1
<1>13. CASE (Test(w) /\ ~run[w]) \/ LockLog(w) \/ UnlockLog(w)
            \/ NothingToTell(w) \/ End(w)
  <2>1. \/ \E from, to \in {"test", "left", "warn", "warning"} :
              tpc[1] = from /\ tpc'[1] = to
        \/ \E from, to \in {"tell", "telling", "last", "done"} :
              tpc[1] = from /\ tpc'[1] = to
    BY <1>0, <1>13 DEF Test, LockLog, UnlockLog, NothingToTell, End, Goes
  <2> QED
    BY <1>1, <1>2, <1>4, <1>14, <1>15, <2>1
<1> QED
  BY <1>5, <1>6, <1>7, <1>8, <1>9, <1>10, <1>11, <1>12, <1>13 DEF ThreadStep

\* Every step of a task is a step of a session or leaves it as it is.
LEMMA StepIsSession ==
  IInv /\ IInv' /\ [Next]_vars => [Session!SNext]_(Session!sessionVars)
<1> SUFFICES ASSUME IInv, IInv', [Next]_vars
             PROVE  [Session!SNext]_(Session!sessionVars)
  OBVIOUS
<1>1. ASSUME SessionStep PROVE [Session!SNext]_(Session!sessionVars)
  BY <1>1 DEF SessionStep, Session!sessionVars, Looping
<1>2. CASE UNCHANGED vars
  BY <1>2 DEF vars, taskVars, workerVars, signalVars, Session!sessionVars,
     SetUpDone, CalledNow, InLoop
<1>3. CASE ControlStep
  BY <1>1, <1>3, ControlSingle, ControlMultiple DEF SessionStep
<1>4. ASSUME NEW w \in Workers, ThreadStep(w) \/ SystemCall(w) \/ HandlerStep(w)
      PROVE  [Session!SNext]_(Session!sessionVars)
  BY <1>1, <1>4, ThreadSingle, ThreadMultiple
<1> QED
  BY <1>2, <1>3, <1>4 DEF Next

\* The callbacks of a task with any number of workers are called in sessions:
\* one setup that succeeds, loops, one exit, whatever interrupts them.
THEOREM SessionsImplemented == Spec => CallbacksInSession
<1>1. Init => Session!SInit
  BY InitSession
<1>2. IInv /\ IInv' /\ [Next]_vars => [Session!SNext]_(Session!sessionVars)
  BY StepIsSession
<1> QED
  BY <1>1, <1>2, Invariance, PTL DEF Spec, CallbacksInSession, Session!SSpec
=============================================================================
