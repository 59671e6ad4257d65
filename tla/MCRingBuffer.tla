---------------------------- MODULE MCRingBuffer ----------------------------
(* Instances of RingBuffer small enough for TLC.                            *)
EXTENDS RingBuffer, TLC

CONSTANTS t1, t2, t3, w1, w2, r1, r2, r3

\* Which writer each thread uses.
Apart  == (t1 :> w1) @@ (t2 :> w2)
Mixed  == (t1 :> w1) @@ (t2 :> w1) @@ (t3 :> w2)
Alone  == (t1 :> w1)

OneAttached == <<r1>>
TwoAttached == <<r1, r2>>
=============================================================================
