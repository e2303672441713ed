\* signalling_using_semaphores.c when the thread sets the value before main
\* first locks the mutex: main keeps the mutex and locks it again.
\* Deadlock checking is off so that the hang is reported as a violation of
\* IfTermination.
CONSTANTS
  Main = Main
  w1 = w1
  w2 = w2
  w3 = w3
  Signaller = Signaller
  NoThread = NoThread
  Parent = Parent
  Child = Child
  s1 = s1
  s2 = s2
  Zero = Zero
  NoFifo = NoFifo

SPECIFICATION Spec

PROPERTY IfTermination

CHECK_DEADLOCK FALSE
