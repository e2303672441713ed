\* 04-pc_bad.c with a pipe that holds every work unit.  Each thread is
\* scheduled whenever it stays runnable; a producer blocked on sdata.mtx is
\* runnable only while main does not hold the mutex.
CONSTANTS
  p1 = p1
  p2 = p2
  p3 = p3
  Producers = {p1, p2, p3}
  Consumer = Consumer
  NoThread = NoThread
  PipeCap = 3
  SpinPipeCap = 3

SPECIFICATION Spec

PROPERTY SpinTermination

CHECK_DEADLOCK FALSE
