------------------------------- MODULE SigChld -------------------------------
(***************************************************************************)
(* The SIGCHLD reaper of src/code_examples/signals/5-sigchld.c.            *)
(*                                                                         *)
(* main installs handler for SIGCHLD, forks NumChildren children that exit *)
(* at once, and counts with a sleep per number.  The kernel makes SIGCHLD  *)
(* pending when a child exits; a pending signal does not queue, so the     *)
(* exits of several children may make it pending once.  It is delivered   *)
(* to main before main's next step, and is masked while handler runs:     *)
(* an exit during the handler leaves it pending for one more delivery      *)
(* after the handler returns.  handler loops on waitpid(-1, NULL, WNOHANG), *)
(* which reaps one zombie child, returns 0 while children run and none is  *)
(* a zombie, and -1 when there are no children.  The thirteen numbers of   *)
(* the count are Ticks steps.                                              *)
(***************************************************************************)
EXTENDS Naturals

CONSTANTS
  NumChildren,   \* the for loop's 5 forks
  Ticks          \* the numbers main counts

Children == 1..NumChildren

VARIABLES
  child,     \* each child: "none" (not forked), "running", "zombie",
             \* "reaped" by handler, or "adopted" by init
  i,         \* main's loop index
  mpc,       \* program counter of main
  hpc,       \* "none" outside handler, "waitpid" inside its loop
  pending    \* SIGCHLD is pending

vars == <<child, i, mpc, hpc, pending>>

Init ==
  /\ child = [c \in Children |-> "none"]
  /\ i = 0
  /\ mpc = "fork"
  /\ hpc = "none"
  /\ pending = FALSE

\* main runs only outside the handler, once no SIGCHLD awaits delivery.
MainRuns == hpc = "none" /\ ~pending

(* for (i = 0; i < 5; i++): fork; a failed fork exits with EXIT_FAILURE;   *)
(* the child exits at once.  After the loop, the count starts.             *)
Fork ==
  /\ MainRuns /\ mpc = "fork"
  /\ IF i < NumChildren
       THEN \/ child' = [child EXCEPT ![i + 1] = "running"] /\ i' = i + 1
               /\ UNCHANGED mpc
            \/ mpc' = "failed" /\ UNCHANGED <<child, i>>
       ELSE mpc' = "count" /\ i' = 0 /\ UNCHANGED child
  /\ UNCHANGED <<hpc, pending>>

\* for (i = 0; i <= 12; i++) printf, sleep(1); then return 0.
Count ==
  /\ MainRuns /\ mpc = "count"
  /\ IF i < Ticks
       THEN i' = i + 1 /\ UNCHANGED mpc
       ELSE mpc' = "exited" /\ UNCHANGED i
  /\ UNCHANGED <<child, hpc, pending>>

(* exit(EXIT_SUCCESS) of a child: it becomes main's zombie and SIGCHLD    *)
(* pending; once main has exited the child belongs to init, which reaps it. *)
ChildExit(c) ==
  /\ child[c] = "running"
  /\ IF mpc \in {"exited", "failed"}
       THEN child' = [child EXCEPT ![c] = "adopted"] /\ UNCHANGED pending
       ELSE child' = [child EXCEPT ![c] = "zombie"] /\ pending' = TRUE
  /\ UNCHANGED <<i, mpc, hpc>>

\* The kernel delivers the pending SIGCHLD: handler starts, SIGCHLD masked.
Deliver ==
  /\ pending /\ hpc = "none" /\ mpc \notin {"exited", "failed"}
  /\ pending' = FALSE
  /\ hpc' = "waitpid"
  /\ UNCHANGED <<child, i, mpc>>

Zombies == {c \in Children : child[c] = "zombie"}

\* Mutant: if instead of while: one waitpid per delivery.
HandlerWaitOnce ==
  /\ hpc = "waitpid" /\ mpc \notin {"exited", "failed"}
  /\ \/ \E c \in Zombies : child' = [child EXCEPT ![c] = "reaped"]
     \/ Zombies = {} /\ UNCHANGED child
  /\ hpc' = "none"
  /\ UNCHANGED <<i, mpc, pending>>

(* while ((chld = waitpid(-1, NULL, WNOHANG)) > 0): reap a zombie and loop, *)
(* or, with none, return from handler.                                     *)
HandlerWait ==
  /\ hpc = "waitpid" /\ mpc \notin {"exited", "failed"}
  /\ \/ \E c \in Zombies : child' = [child EXCEPT ![c] = "reaped"]
                           /\ UNCHANGED hpc
     \/ Zombies = {} /\ hpc' = "none" /\ UNCHANGED child
  /\ UNCHANGED <<i, mpc, pending>>

Main == Fork \/ Count \/ Deliver \/ HandlerWait

Next == Main \/ \E c \in Children : ChildExit(c)

\* The kernel runs main and every child that can run.
Fairness == WF_vars(Main) /\ \A c \in Children : WF_vars(ChildExit(c))

Spec == Init /\ [][Next]_vars /\ Fairness

-----------------------------------------------------------------------------
TypeOK ==
  /\ child \in [Children -> {"none", "running", "zombie", "reaped", "adopted"}]
  /\ i \in 0..(IF NumChildren > Ticks THEN NumChildren ELSE Ticks)
  /\ mpc \in {"fork", "count", "exited", "failed"}
  /\ hpc \in {"none", "waitpid"} /\ pending \in BOOLEAN

(* The comment in handler: SIGCHLD does not queue, so handler keeps        *)
(* waiting until there are no zombies; when main returns no child it       *)
(* forked is left a zombie, however the exits coalesce into deliveries and *)
(* whether they fall inside the handler.                                   *)
NoZombieAtReturn == mpc = "exited" => Zombies = {}

=============================================================================
