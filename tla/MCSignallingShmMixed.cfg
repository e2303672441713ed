\* sv_xfr.c and cl_xfr.c: two clients store their id and their string
\* with no lock between them; the server may print one client's id with
\* the other's string.
CONSTANTS
  Main = Main
  w1 = w1
  w2 = w2
  w3 = w3
  Signaller = Signaller
  NoThread = NoThread
  Parent = Parent
  Child = Child
  s1 = s1
  s2 = s2
  Zero = Zero
  NoFifo = NoFifo

SPECIFICATION Spec

INVARIANT ShmMessageIntact

CHECK_DEADLOCK FALSE
