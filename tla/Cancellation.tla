---------------------------- MODULE Cancellation ----------------------------
(***************************************************************************)
(* The cancellation programs of shackleford/src/threads:                   *)
(*   "deferred" -- 3-cancel_deferred.c: the thread disables cancellation,  *)
(*                 sleeps, enables it and sleeps in sleep(9001), a         *)
(*                 cancellation point; main cancels it at once;            *)
(*   "async"    -- 4-cancel-async.c: the thread disables cancellation,     *)
(*                 sets the type to asynchronous, enables it and spins in  *)
(*                 while(1); main cancels it after sleep(5);               *)
(*   "cleanup"  -- 5-cancel_cleanup.c: the thread disables cancellation,   *)
(*                 mallocs matrix and pushes cleanup_a, mallocs the rows   *)
(*                 and pushes cleanup_b, enables cancellation and loops on *)
(*                 the matrix and pthread_testcancel; main cancels it      *)
(*                 after sleep(2);                                         *)
(*   "v1"       -- src/code_examples/thr/deferred_cancellation_v1.c: the   *)
(*                 thread counts in for (counter = 0; ; counter++) and     *)
(*                 calls pthread_testcancel every 1000 iterations; main    *)
(*                 cancels it after sleep(2).                              *)
(* In each, main then joins and reports whether the thread was cancelled.  *)
(*                                                                         *)
(* A cancellation request stays pending while the state is disabled; it    *)
(* acts at a cancellation point (sleep, pthread_testcancel; printf may be  *)
(* one) or, with the asynchronous type, at any instruction.  Acting runs   *)
(* the cleanup handlers, last pushed first, and ends the thread with       *)
(* PTHREAD_CANCELED.  The sleeps are not timed: sleep(9001) returns only   *)
(* by cancellation, main's cancel coming long before.  A failed malloc     *)
(* calls exit(EXIT_FAILURE), which ends the whole process.                 *)
(***************************************************************************)
EXTENDS Naturals, Sequences

CONSTANT Prog   \* "deferred", "async", "cleanup" or "v1"

VARIABLES
  cstate,    \* the thread's cancellation state: "enabled" or "disabled"
  ctype,     \* its cancellation type: "deferred" or "async"
  pending,   \* a cancellation request is pending
  stack,     \* the cleanup handlers pushed, the last at the end
  heap,      \* the allocated blocks: "matrix", "rows"
  tpc,       \* program counter of the thread
  mpc        \* program counter of main

vars == <<cstate, ctype, pending, stack, heap, tpc, mpc>>

(* The points where a pending deferred request acts: the first printf      *)
(* (which may be a cancellation point), sleep(9001) and                    *)
(* pthread_testcancel.                                                     *)
CancelPoints == {"start", "sleep", "testcancel"}

Init ==
  /\ cstate = "enabled" /\ ctype = "deferred" /\ pending = FALSE
  /\ stack = <<>> /\ heap = {}
  /\ tpc = "none" /\ mpc = "create"

Running == mpc # "killed"

-----------------------------------------------------------------------------
\* pthread_create.
MainCreate ==
  /\ mpc = "create"
  /\ tpc' = IF Prog = "v1" THEN "count" ELSE "start"
  /\ mpc' = "cancel"
  /\ UNCHANGED <<cstate, ctype, pending, stack, heap>>

\* (sleep;) pthread_cancel(tid): it returns 0 while the thread is not joined.
MainCancel ==
  /\ Running /\ mpc = "cancel"
  /\ pending' = TRUE
  /\ mpc' = "join"
  /\ UNCHANGED <<cstate, ctype, stack, heap, tpc>>

(* pthread_join(tid, &tid_ret); tid_ret == PTHREAD_CANCELED: "successfully *)
(* cancelled".                                                             *)
MainJoin ==
  /\ Running /\ mpc = "join"
  /\ tpc = "canceled"
  /\ mpc' = "done"
  /\ UNCHANGED <<cstate, ctype, pending, stack, heap, tpc>>

-----------------------------------------------------------------------------
\* printf("!! Thread -- setting cancellation state: DISABLED"), not acted on.
PrintStart ==
  /\ Running /\ tpc = "start"
  /\ tpc' = "disable"
  /\ UNCHANGED <<cstate, ctype, pending, stack, heap, mpc>>

\* Mutant: the thread does not disable cancellation.
DisableSkipped ==
  /\ Running /\ tpc = "disable"
  /\ tpc' = CASE Prog = "deferred" -> "enable"
              [] Prog = "async" -> "settype"
              [] Prog = "cleanup" -> "alloc_matrix"
  /\ UNCHANGED <<cstate, ctype, pending, stack, heap, mpc>>

(* pthread_setcancelstate(PTHREAD_CANCEL_DISABLE); then sleep(5) and a     *)
(* printf in 3-cancel_deferred.c, the printf before the type change in     *)
(* 4-cancel-async.c, or the malloc of matrix in 5-cancel_cleanup.c.         *)
Disable ==
  /\ Running /\ tpc = "disable"
  /\ cstate' = "disabled"
  /\ tpc' = CASE Prog = "deferred" -> "enable"
              [] Prog = "async" -> "settype"
              [] Prog = "cleanup" -> "alloc_matrix"
  /\ UNCHANGED <<ctype, pending, stack, heap, mpc>>

\* pthread_setcanceltype(PTHREAD_CANCEL_ASYNCHRONOUS); printf("... ENABLED").
SetType ==
  /\ Running /\ tpc = "settype"
  /\ ctype' = "async"
  /\ tpc' = "enable"
  /\ UNCHANGED <<cstate, pending, stack, heap, mpc>>

(* matrix = malloc(...); if (!matrix) exit(EXIT_FAILURE);                  *)
(* pthread_cleanup_push(cleanup_a, matrix).                                *)
AllocMatrix ==
  /\ Running /\ tpc = "alloc_matrix"
  /\ \/ heap' = heap \cup {"matrix"} /\ stack' = Append(stack, "cleanup_a")
        /\ tpc' = "alloc_rows" /\ UNCHANGED mpc
     \/ mpc' = "killed" /\ UNCHANGED <<heap, stack, tpc>>
  /\ UNCHANGED <<cstate, ctype, pending>>

(* The malloc loop of the rows, each exiting on failure;                   *)
(* pthread_cleanup_push(cleanup_b, matrix); printf("... ENABLED").         *)
AllocRows ==
  /\ Running /\ tpc = "alloc_rows"
  /\ \/ heap' = heap \cup {"rows"} /\ stack' = Append(stack, "cleanup_b")
        /\ tpc' = "enable" /\ UNCHANGED mpc
     \/ mpc' = "killed" /\ UNCHANGED <<heap, stack, tpc>>
  /\ UNCHANGED <<cstate, ctype, pending>>

(* pthread_setcancelstate(PTHREAD_CANCEL_ENABLE); the thread goes on to    *)
(* sleep(9001), while(1) or the work loop.                                 *)
Enable ==
  /\ Running /\ tpc = "enable"
  /\ cstate' = "enabled"
  /\ tpc' = CASE Prog = "deferred" -> "sleep"
              [] Prog = "async" -> "spin"
              [] Prog = "cleanup" -> "work"
  /\ UNCHANGED <<ctype, pending, stack, heap, mpc>>

\* One pass of the matrix[i][j]++ loops.
Work ==
  /\ Running /\ tpc = "work"
  /\ tpc' = "testcancel"
  /\ UNCHANGED <<cstate, ctype, pending, stack, heap, mpc>>

(* deferred_cancellation_v1.c: counter++ until counter % 1000 == 0, the     *)
(* iteration that calls pthread_testcancel.  The int counter is not        *)
(* modelled: main cancels long before it could overflow.                   *)
Count ==
  /\ Running /\ tpc = "count"
  /\ tpc' = "testcancel"
  /\ UNCHANGED <<cstate, ctype, pending, stack, heap, mpc>>

\* The loop the thread goes back to after a pthread_testcancel.
Loop == IF Prog = "v1" THEN "count" ELSE "work"

\* Mutant: the loop has no pthread_testcancel.
TestCancelMissing ==
  /\ Running /\ tpc = "testcancel"
  /\ tpc' = Loop
  /\ UNCHANGED <<cstate, ctype, pending, stack, heap, mpc>>

\* pthread_testcancel() with no request to act on: the while (1) goes on.
TestCancel ==
  /\ Running /\ tpc = "testcancel"
  /\ ~(pending /\ cstate = "enabled")
  /\ tpc' = Loop
  /\ UNCHANGED <<cstate, ctype, pending, stack, heap, mpc>>

(* The pending request acts: at a cancellation point, or anywhere but in   *)
(* the cleanup handlers once the type is asynchronous.                     *)
ActOnCancel ==
  /\ Running /\ pending /\ cstate = "enabled"
  /\ \/ tpc \in CancelPoints
     \/ ctype = "async" /\ tpc \notin {"none", "cleanup", "canceled"}
  /\ tpc' = "cleanup"
  /\ UNCHANGED <<cstate, ctype, pending, stack, heap, mpc>>

\* Mutant: the handlers run in the order they were pushed.
CleanupPopFirst ==
  /\ Running /\ tpc = "cleanup" /\ stack # <<>>
  /\ heap' = heap \ {IF Head(stack) = "cleanup_a" THEN "matrix" ELSE "rows"}
  /\ stack' = Tail(stack)
  /\ UNCHANGED <<cstate, ctype, pending, tpc, mpc>>

(* The last handler pushed runs and is popped: cleanup_b frees the rows    *)
(* through matrix[i], cleanup_a frees matrix.                              *)
CleanupPop ==
  /\ Running /\ tpc = "cleanup" /\ stack # <<>>
  /\ heap' = heap \ {IF stack[Len(stack)] = "cleanup_a" THEN "matrix"
                                                         ELSE "rows"}
  /\ stack' = SubSeq(stack, 1, Len(stack) - 1)
  /\ UNCHANGED <<cstate, ctype, pending, tpc, mpc>>

\* With no handler left the thread ends with PTHREAD_CANCELED.
CleanupDone ==
  /\ Running /\ tpc = "cleanup" /\ stack = <<>>
  /\ tpc' = "canceled"
  /\ UNCHANGED <<cstate, ctype, pending, stack, heap, mpc>>

-----------------------------------------------------------------------------
Thread ==
  \/ PrintStart \/ Disable \/ SetType \/ AllocMatrix \/ AllocRows \/ Enable
  \/ Work \/ Count \/ TestCancel \/ ActOnCancel \/ CleanupPop \/ CleanupDone

Main == MainCreate \/ MainCancel \/ MainJoin

Next == Thread \/ Main

\* Both threads are eventually scheduled while they can run.
Fairness == WF_vars(Thread) /\ WF_vars(Main)

Spec == Init /\ [][Next]_vars /\ Fairness

-----------------------------------------------------------------------------
TypeOK ==
  /\ cstate \in {"enabled", "disabled"} /\ ctype \in {"deferred", "async"}
  /\ pending \in BOOLEAN
  /\ stack \in Seq({"cleanup_a", "cleanup_b"})
  /\ heap \subseteq {"matrix", "rows"}
  /\ tpc \in {"none", "start", "disable", "settype", "alloc_matrix",
              "alloc_rows", "enable", "sleep", "spin", "work", "count", "testcancel",
              "cleanup", "canceled"}
  /\ mpc \in {"create", "cancel", "join", "done", "killed"}

(* main's join returns and it reports "successfully cancelled", unless a   *)
(* malloc failure ended the process: the request sent while cancellation  *)
(* was disabled is not lost, and the thread reaches a point where it acts. *)
CancelTermination == <>(mpc \in {"done", "killed"})

(* 5-cancel_cleanup.c: the handlers free the rows while matrix, which      *)
(* cleanup_b reads them through, is still allocated, and after the join    *)
(* nothing the thread allocated is left.                                   *)
CleanupReleases ==
  /\ "rows" \in heap => "matrix" \in heap
  /\ mpc = "done" => heap = {}

(* 4-cancel-async.c: an asynchronous cancellation acts only in the         *)
(* while(1) loop, never inside one of the printf calls, which are not      *)
(* async-cancel-safe (a thread cancelled holding the stdout lock would     *)
(* block main's own printf).                                               *)
AsyncCancelSafe == [][ActOnCancel /\ ctype = "async" => tpc = "spin"]_vars

=============================================================================
