----------------------------- MODULE PipeBarrier -----------------------------
(***************************************************************************)
(* The barrier of src/pipes/barrier_sync_with_pipes.c.                     *)
(*                                                                         *)
(* The parent makes one pipe and forks one child per argument; each child *)
(* inherits both ends, closes the read end, works, closes the write end    *)
(* and exits.  After the fork loop the parent closes its write end and     *)
(* reads: nothing is ever written, so the read returns 0 (end of file)     *)
(* exactly when no process holds the write end any more.  writers is the  *)
(* set of processes with pfd[1] open.                                      *)
(***************************************************************************)
EXTENDS Naturals

CONSTANTS
  Children,    \* one child per sleep-time argument, forked in this order
  Parent

ASSUME Parent \notin Children

VARIABLES
  writers,     \* processes holding the write end of the pipe
  forked,      \* children forked so far
  cpc,         \* program counter of each child
  ppc          \* program counter of the parent

vars == <<writers, forked, cpc, ppc>>

\* pipe(pfd): the parent holds both ends.
Init ==
  /\ writers = {Parent}
  /\ forked = {}
  /\ cpc = [c \in Children |-> "none"]
  /\ ppc = "fork"

-----------------------------------------------------------------------------
(* One iteration of for (j = 1; j < argc; j++): fork; the child inherits   *)
(* the write end.                                                          *)
ParentFork ==
  /\ ppc = "fork"
  /\ forked # Children
  /\ \E c \in Children \ forked :
       /\ forked' = forked \cup {c}
       /\ cpc' = [cpc EXCEPT ![c] = "close_read"]
       /\ writers' = writers \cup {c}
  /\ UNCHANGED ppc

\* Mutant: the parent does not close its own write end.
ParentCloseWriteSkipped ==
  /\ ppc = "fork"
  /\ forked = Children
  /\ ppc' = "read"
  /\ UNCHANGED <<writers, forked, cpc>>

\* The loop ends; close(pfd[1]) so that the parent can see end of file.
ParentCloseWrite ==
  /\ ppc = "fork"
  /\ forked = Children
  /\ writers' = writers \ {Parent}
  /\ ppc' = "read"
  /\ UNCHANGED <<forked, cpc>>

\* read(pfd[0], &dummy, 1) returns 0 once no process holds the write end.
ParentRead ==
  /\ ppc = "read"
  /\ writers = {}
  /\ ppc' = "crossed"
  /\ UNCHANGED <<writers, forked, cpc>>

\* "Barrier crossed"; exit(EXIT_SUCCESS).
ParentExit ==
  /\ ppc = "crossed"
  /\ ppc' = "exited"
  /\ UNCHANGED <<writers, forked, cpc>>

-----------------------------------------------------------------------------
\* Mutant: the child closes both ends before it works.
ChildCloseBoth(c) ==
  /\ cpc[c] = "close_read"
  /\ writers' = writers \ {c}
  /\ cpc' = [cpc EXCEPT ![c] = "work"]
  /\ UNCHANGED <<forked, ppc>>

\* close(pfd[0]).
ChildCloseRead(c) ==
  /\ cpc[c] = "close_read"
  /\ cpc' = [cpc EXCEPT ![c] = "work"]
  /\ UNCHANGED <<writers, forked, ppc>>

\* sleep(atoi(argv[j])): the child's work.
ChildWork(c) ==
  /\ cpc[c] = "work"
  /\ cpc' = [cpc EXCEPT ![c] = "close_write"]
  /\ UNCHANGED <<writers, forked, ppc>>

\* close(pfd[1]); exit(EXIT_SUCCESS).
ChildCloseWrite(c) ==
  /\ cpc[c] = "close_write"
  /\ writers' = writers \ {c}
  /\ cpc' = [cpc EXCEPT ![c] = "exited"]
  /\ UNCHANGED <<forked, ppc>>

-----------------------------------------------------------------------------
ParentStep == ParentFork \/ ParentCloseWrite \/ ParentRead \/ ParentExit

Child(c) == ChildCloseRead(c) \/ ChildWork(c) \/ ChildCloseWrite(c)

Next == ParentStep \/ \E c \in Children : Child(c)

\* Every process is eventually scheduled while it can run.
Fairness == WF_vars(ParentStep) /\ \A c \in Children : WF_vars(Child(c))

Spec == Init /\ [][Next]_vars /\ Fairness

-----------------------------------------------------------------------------
TypeOK ==
  /\ writers \subseteq Children \cup {Parent}
  /\ forked \subseteq Children
  /\ cpc \in [Children -> {"none", "close_read", "work", "close_write",
                           "exited"}]
  /\ ppc \in {"fork", "read", "crossed", "exited"}

(* "Barrier crossed" is printed only when every child has finished its     *)
(* work: the end of file the parent reads cannot come while a child, or a *)
(* child not yet forked, is still to work.                                 *)
BarrierHolds ==
  ppc \in {"crossed", "exited"} =>
    \A c \in Children : cpc[c] \in {"close_write", "exited"}

\* The parent eventually crosses the barrier and exits.
Termination == <>(ppc = "exited")

=============================================================================
