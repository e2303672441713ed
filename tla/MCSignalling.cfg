\* v2 has two waiting threads, enough for a single pthread_cond_signal to
\* leave one asleep; 03-simple_cv.c has three, so that the signal is passed
\* on twice.  Each behaviour runs one program.
\* Every program ends once its threads are joined; the
\* if version of the semaphore program can also hang, which is reported by
\* MCSignallingIfHang.cfg.  Deadlock checking is off for that reason; the
\* other programs' termination is checked here.
CONSTANTS
  Main = Main
  w1 = w1
  w2 = w2
  w3 = w3
  Signaller = Signaller
  NoThread = NoThread
  Parent = Parent
  Child = Child
  s1 = s1
  s2 = s2
  Zero = Zero
  NoFifo = NoFifo

SPECIFICATION Spec

INVARIANT SeesValue
INVARIANT ChildReadsMessage
INVARIANT BarrierHolds
INVARIANT NoInterleave
INVARIANT DeliveredInOrder
INVARIANT ServerReadsThisRun
INVARIANT PipeDataDelivered
INVARIANT NoZombieAtReturn
INVARIANT ValuesShared
INVARIANT ChildKeepsTerminal
INVARIANT JobTableTracksProcesses
INVARIANT TotalIsSquareSum
INVARIANT NoStaleFifo

PROPERTY WakeupTermination
PROPERTY ChainTermination
PROPERTY PipeSyncTermination
PROPERTY ShmTermination
PROPERTY PipeProcessesExit
PROPERTY PosixMessageNeverOverwritten
PROPERTY SignalsReachHandler
PROPERTY KillOnlyNamedJob

CHECK_DEADLOCK FALSE
