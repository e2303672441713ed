---------------------------- MODULE MCBarrierSem ----------------------------
EXTENDS BarrierSem

CONSTANTS t1, t2, t3, t4
=============================================================================
