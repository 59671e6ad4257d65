---------------------------- MODULE InstanceLife ----------------------------
(***************************************************************************)
(* The order in which instances meet the callbacks of their applications    *)
(* (jgb_api_t in include/app.h): create, then any number of sessions of the *)
(* task, each from a setup to an exit, then destroy.                        *)
(***************************************************************************)
CONSTANT Instances

VARIABLES
    stage,  \* how far each instance is: "new", "created" or "destroyed"
    up      \* its task has been set up and not exited yet

lifeVars == <<stage, up>>

LInit ==
    /\ stage = [i \in Instances |-> "new"]
    /\ up = [i \in Instances |-> FALSE]

Create(i) ==
    /\ stage[i] = "new"
    /\ stage' = [stage EXCEPT ![i] = "created"]
    /\ UNCHANGED up

BeginSession(i) ==
    /\ stage[i] = "created" /\ ~up[i]
    /\ up' = [up EXCEPT ![i] = TRUE]
    /\ UNCHANGED stage

EndSession(i) ==
    /\ stage[i] = "created" /\ up[i]
    /\ up' = [up EXCEPT ![i] = FALSE]
    /\ UNCHANGED stage

Destroy(i) ==
    /\ stage[i] = "created" /\ ~up[i]
    /\ stage' = [stage EXCEPT ![i] = "destroyed"]
    /\ UNCHANGED up

LNext ==
    \E i \in Instances :
        Create(i) \/ BeginSession(i) \/ EndSession(i) \/ Destroy(i)

LSpec == LInit /\ [][LNext]_lifeVars
=============================================================================
