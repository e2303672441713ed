\* Three customers compete for two waiting-room chairs and the one barber
\* seat, in both barber programs; the barrier programs run three and four
\* threads.  Every program exits, so terminal states are expected; a
\* deadlock would violate Termination, which is checked.
CONSTANTS
  c1 = c1
  c2 = c2
  c3 = c3
  Customers = {c1, c2, c3}
  NumChairs = 2
  t1 = t1
  t2 = t2
  t3 = t3
  t4 = t4
  NoThread = NoThread
  sv1 = sv1
  sv2 = sv2
  cl1 = cl1
  cl2 = cl2
  NoSock = NoSock
  Junk = Junk

SPECIFICATION Spec

INVARIANT CutServesOneWaitingCustomer
INVARIANT OneHaircutEach
INVARIANT BarberLeavesLast
INVARIANT StreamsWhole
INVARIANT RepliesMatch
INVARIANT ReportsListPrimes

PROPERTY Termination
PROPERTY CVRefinement
PROPERTY SemRefinement

CHECK_DEADLOCK FALSE
