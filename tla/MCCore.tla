------------------------------- MODULE MCCore -------------------------------
(* Installations for the TLC runs of Core.  main() installs module, whose    *)
(* init installs the others, itself among them.                              *)
EXTENDS Core, TLC

CONSTANTS module, worker, service, group

MCMain == <<module>>
MCApps == {module, worker, service, group}
MCCount == [a \in MCApps |-> IF a = worker THEN 2 ELSE 1]
MCImports == [a \in MCApps |->
    IF a = module THEN <<worker, service, module, worker, group>>
    ELSE IF a = worker THEN <<module>> ELSE <<>>]
\* A service that shares its subtasks with a service of services.
MCSubtasks ==
    (<<module, 1>> :> <<>>) @@ (<<worker, 1>> :> <<>>) @@ (<<worker, 2>> :> <<>>) @@
    (<<service, 1>> :> << <<worker, 1>>, <<worker, 2>> >>) @@
    (<<group, 1>> :> << <<worker, 2>>, <<service, 1>>, <<worker, 2>> >>)
MCAuto == {<<group, 1>>}
MCCreateFails == {<<worker, 1>>}
=============================================================================
