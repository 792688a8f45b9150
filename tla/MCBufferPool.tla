---------------------------- MODULE MCBufferPool ----------------------------
(* Instances of BufferPool for TLC.                                        *)
EXTENDS BufferPool

CONSTANTS t1, t2

OneThread  == {t1}
TwoThreads == {t1, t2}
=============================================================================
