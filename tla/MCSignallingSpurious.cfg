\* The condition-variable programs when pthread_cond_wait may return
\* without a signal, as POSIX allows.
CONSTANTS
  Main = Main
  w1 = w1
  w2 = w2
  w3 = w3
  Signaller = Signaller
  NoThread = NoThread
  Parent = Parent
  Child = Child
  s1 = s1
  s2 = s2
  Zero = Zero
  NoFifo = NoFifo

SPECIFICATION SpecSpurious

INVARIANT SeesValue

CHECK_DEADLOCK FALSE
