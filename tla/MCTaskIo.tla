------------------------------ MODULE MCTaskIo ------------------------------
(* A pipeline of tasks on two buffers for the TLC runs of TaskIo: a source,  *)
(* a filter that reads and adds to what the source writes, and a sink that   *)
(* reads both. The writers of the first ask for the same size.               *)
EXTENDS TaskIo, TLC

CONSTANTS source, filter, sink, raw, cooked

MCReadsFrom == (source :> <<>>) @@ (filter :> <<raw>>) @@ (sink :> <<raw, cooked>>)
MCWritesTo == (source :> <<raw>>) @@ (filter :> <<cooked, raw>>) @@ (sink :> <<>>)
MCBufSize == (source :> <<64>>) @@ (filter :> <<0, 64>>) @@ (sink :> <<>>)
=============================================================================
