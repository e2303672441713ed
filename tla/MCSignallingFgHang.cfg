\* 1-foreground.c with the user sending nothing, tostop off and execlp
\* succeeding: the SIGCHLD of the child's exit can be handled between
\* main's test of child_dead and its call to pause(), which then never
\* returns.
CONSTANTS
  Main = Main
  w1 = w1
  w2 = w2
  w3 = w3
  Signaller = Signaller
  NoThread = NoThread
  Parent = Parent
  Child = Child
  s1 = s1
  s2 = s2
  Zero = Zero
  NoFifo = NoFifo

SPECIFICATION Spec

PROPERTY ForegroundTermination

CHECK_DEADLOCK FALSE
