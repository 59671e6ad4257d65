------------------------------- MODULE MCTask -------------------------------
(* Model values for the TLC runs of Task.                                   *)
EXTENDS Task
=============================================================================
