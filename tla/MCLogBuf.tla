------------------------------ MODULE MCLogBuf ------------------------------
(* The threads that log, for the runs LogBuf_*.                              *)
EXTENDS LogBuf

CONSTANTS t1, t2

MCThreads == {t1, t2}
=============================================================================
