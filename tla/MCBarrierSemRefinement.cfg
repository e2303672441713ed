\* Three threads, two rounds: a thread released early from round 1 can
\* re-enter barrier_sync for round 2 while the releasing thread is still
\* posting barrier_sem.
CONSTANTS
  t1 = t1
  t2 = t2
  t3 = t3
  t4 = t4
  Threads = {t1, t2, t3}
  Iterations = 2

SPECIFICATION Spec

PROPERTY BarrierRefinement
