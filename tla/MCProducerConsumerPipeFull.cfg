\* More producers than the pipe holds work units (NUM_PRODUCERS above
\* 16384 with a 64 KiB pipe).  Deadlock checking is off so that the hang is
\* reported as a violation of Termination.
CONSTANTS
  p1 = p1
  p2 = p2
  p3 = p3
  Producers = {p1, p2, p3}
  Consumer = Consumer
  NoThread = NoThread
  PipeCap = 2
  SpinPipeCap = 2

SPECIFICATION Spec

PROPERTY CVTermination

CHECK_DEADLOCK FALSE
