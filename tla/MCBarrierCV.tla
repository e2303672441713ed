---------------------------- MODULE MCBarrierCV -----------------------------
EXTENDS BarrierCV

CONSTANTS t1, t2, t3
=============================================================================
