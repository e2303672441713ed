----------------------------- MODULE CharAtATime -----------------------------
(***************************************************************************)
(* Parent and child writing to one unbuffered stdout, as in                *)
(* src/code_examples/thr_sync/race.c and no_race.c.                       *)
(*                                                                         *)
(* After fork each process calls charatatime, which puts its string one    *)
(* putc at a time (setbuf(stdout, NULL)).  In no_race.c (Synced) the child *)
(* first blocks in WAIT_PARENT and the parent calls TELL_CHILD after its   *)
(* string; the TELL_WAIT channel is a pipe holding tell bytes.  A string  *)
(* is StrLen characters; out records which process put each character.   *)
(***************************************************************************)
EXTENDS Naturals, Sequences

CONSTANTS
  Parent, Child,   \* the two processes after fork
  StrLen,          \* characters in each string
  Synced           \* no_race.c (TRUE) or race.c (FALSE)

Procs == {Parent, Child}

VARIABLES
  out,     \* the characters on stdout, each as the process that put it
  next,    \* index of the next character of each process's string
  tell,    \* bytes in the TELL_WAIT pipe
  pc       \* program counter of each process

vars == <<out, next, tell, pc>>

\* TELL_WAIT (no_race.c only) and fork.
Init ==
  /\ out = <<>>
  /\ next = [p \in Procs |-> 1]
  /\ tell = 0
  /\ pc = [p \in Procs |-> IF Synced /\ p = Child THEN "wait" ELSE "put"]

\* for (ptr = str; c = *ptr++;) putc(c, stdout): one character.
Put(p) ==
  /\ pc[p] = "put"
  /\ next[p] <= StrLen
  /\ out' = Append(out, p)
  /\ next' = [next EXCEPT ![p] = next[p] + 1]
  /\ UNCHANGED <<tell, pc>>

(* The string ends; the parent of no_race.c goes on to TELL_CHILD, any     *)
(* other process to exit(0).                                               *)
Done(p) ==
  /\ pc[p] = "put"
  /\ next[p] > StrLen
  /\ pc' = [pc EXCEPT ![p] = IF Synced /\ p = Parent THEN "tell" ELSE "exited"]
  /\ UNCHANGED <<out, next, tell>>

\* TELL_CHILD(pid); exit(0).
TellChild ==
  /\ pc[Parent] = "tell"
  /\ tell' = tell + 1
  /\ pc' = [pc EXCEPT ![Parent] = "exited"]
  /\ UNCHANGED <<out, next>>

\* Mutant: WAIT_PARENT returns at once, as a read of an empty non-blocking pipe.
WaitParentNoBlock ==
  /\ pc[Child] = "wait"
  /\ pc' = [pc EXCEPT ![Child] = "put"]
  /\ UNCHANGED <<out, next, tell>>

\* WAIT_PARENT blocks until the parent's byte arrives.
WaitParent ==
  /\ pc[Child] = "wait"
  /\ tell > 0
  /\ tell' = tell - 1
  /\ pc' = [pc EXCEPT ![Child] = "put"]
  /\ UNCHANGED <<out, next>>

Proc(p) == Put(p) \/ Done(p) \/ (p = Parent /\ TellChild)
             \/ (p = Child /\ WaitParent)

Next == \E p \in Procs : Proc(p)

\* Both processes are eventually scheduled while they can run.
Fairness == \A p \in Procs : WF_vars(Proc(p))

Spec == Init /\ [][Next]_vars /\ Fairness

-----------------------------------------------------------------------------
TypeOK ==
  /\ out \in Seq(Procs) /\ Len(out) <= 2 * StrLen
  /\ next \in [Procs -> 1..StrLen + 1]
  /\ tell \in 0..1
  /\ pc \in [Procs -> {"wait", "put", "tell", "exited"}]

(* no_race.c: the output is not interleaved: no character of the child     *)
(* comes before a character of the parent.                                 *)
NoInterleave ==
  Synced => \A i, j \in 1..Len(out) : i < j /\ out[j] = Parent => out[i] = Parent

\* Both processes write their whole string and exit.
Termination == <>(\A p \in Procs : pc[p] = "exited" /\ next[p] = StrLen + 1)

=============================================================================
