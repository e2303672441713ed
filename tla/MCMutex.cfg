\* num_elements up to 4 and num_threads up to 3 cover the remainder chunk,
\* chunk_size 0 and a thread count that divides the size; two updates per
\* counter thread let one thread's store overwrite two of the other's;
\* two threads of each type in 02-deadlock.c and three workers in
\* solution.c; three producers in 05-pc_cv.c, whose pipe holds all their
\* work units as the 64 KiB pipe holds NUM_PRODUCERS units, and in
\* 04-pc_bad.c, whose pipe holds two so that a failed write is explored.
\* Every program ends once its threads are joined, so
\* deadlock checking is off; termination is checked as a property.
CONSTANTS
  MaxElements = 4
  MaxThreads = 3
  Ops = 2
  NumWorkers = 3
  main = main
  worker = worker
  a1 = a1
  a2 = a2
  b1 = b1
  b2 = b2
  Main = Main
  NoThread = NoThread
  p1 = p1
  p2 = p2
  p3 = p3

SPECIFICATION Spec

INVARIANT ResultMatchesReference
INVARIANT CounterResults
INVARIANT NoUseAfterFree
INVARIANT TotalMatchesCheck
INVARIANT CleanupReleases
INVARIANT SumComplete

PROPERTY Termination
PROPERTY CancelTermination
PROPERTY CVTermination
PROPERTY AsyncCancelSafe

CHECK_DEADLOCK FALSE
