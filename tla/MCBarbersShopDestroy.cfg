\* 02-sleeping_barber.c with three customers and two waiting-room chairs.
CONSTANTS
  c1 = c1
  c2 = c2
  c3 = c3
  Customers = {c1, c2, c3}
  NumChairs = 2
  t1 = t1
  t2 = t2
  t3 = t3
  t4 = t4
  NoThread = NoThread
  sv1 = sv1
  sv2 = sv2
  cl1 = cl1
  cl2 = cl2
  NoSock = NoSock
  Junk = Junk

SPECIFICATION Spec

INVARIANT ShopNoWaitOnDestroyed

CHECK_DEADLOCK FALSE
