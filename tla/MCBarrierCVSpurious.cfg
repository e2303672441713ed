\* The same barrier when pthread_cond_wait may return without a broadcast,
\* as POSIX allows.
CONSTANTS
  t1 = t1
  t2 = t2
  t3 = t3
  Threads = {t1, t2, t3}
  Iterations = 2
  NoThread = NoThread

SPECIFICATION SpecSpurious

PROPERTY BarrierRefinement
