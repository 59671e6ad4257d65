---------------------------- MODULE TaskSession ----------------------------
(***************************************************************************)
(* What an application may rely on in its task callbacks (jgb_loop_t in     *)
(* include/app.h): a session begins with a setup that succeeds and ends     *)
(* with one exit, loops are called only in between, and setup and exit are  *)
(* alone while they run.  The applications under test/ assert as much of    *)
(* their callbacks.                                                         *)
(***************************************************************************)
CONSTANT Workers

VARIABLES
    up,       \* setup has succeeded and exit has not returned yet
    calling,  \* which of setup and exit is being called
    looping   \* the workers whose loop callback is being called

sessionVars == <<up, calling, looping>>

SInit ==
    /\ up = FALSE
    /\ calling = "none"
    /\ looping = {}

BeginSetup ==
    /\ ~up
    /\ calling = "none"
    /\ looping = {}
    /\ calling' = "setup"
    /\ UNCHANGED <<up, looping>>

\* A setup that fails leaves no session behind.
EndSetup ==
    /\ calling = "setup"
    /\ calling' = "none"
    /\ up' \in BOOLEAN
    /\ UNCHANGED looping

EnterLoop(w) ==
    /\ up
    /\ calling = "none"
    /\ w \notin looping
    /\ looping' = looping \cup {w}
    /\ UNCHANGED <<up, calling>>

LeaveLoop(w) ==
    /\ w \in looping
    /\ looping' = looping \ {w}
    /\ UNCHANGED <<up, calling>>

BeginExit ==
    /\ up
    /\ calling = "none"
    /\ looping = {}
    /\ calling' = "exit"
    /\ UNCHANGED <<up, looping>>

EndExit ==
    /\ calling = "exit"
    /\ calling' = "none"
    /\ up' = FALSE
    /\ UNCHANGED looping

SNext ==
    \/ BeginSetup \/ EndSetup \/ BeginExit \/ EndExit
    \/ \E w \in Workers : EnterLoop(w) \/ LeaveLoop(w)

SSpec == SInit /\ [][SNext]_sessionVars
=============================================================================
