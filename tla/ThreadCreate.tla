----------------------------- MODULE ThreadCreate -----------------------------
(***************************************************************************)
(* The thread-creation demonstrations, one per value of Prog:              *)
(*  "simple"   -- shackleford/src/threads/1-simple.c: foo reads a struct   *)
(*                on main's stack, main joins it and returns;              *)
(*  "nested"   -- src/thr/simple_thread.c: thread A                        *)
(*                creates thread B, adds 1 to the global a five times and  *)
(*                joins B; main joins A, prints a and calls pthread_exit;  *)
(*  "clone"    -- threads/thread creation and management/custom_thread.c:  *)
(*                a clone(CLONE_VM) child on a malloc'd stack increments   *)
(*                the global val; main waits, frees the stack, prints val; *)
(*  "multiple" -- thr/multiple_threads.c: num_threads workers, each with   *)
(*                a malloc'd argument struct that it frees itself; main    *)
(*                joins them all and calls pthread_exit.                   *)
(*                                                                         *)
(* mem[t] is the memory thread t reads its arguments from (main's stack    *)
(* frame, the clone stack, or the heap struct): "none", "live" or "freed"; *)
(* stale records a read of freed memory.  A process ends when main returns *)
(* or exits, or, after main's pthread_exit, when its last thread ends;     *)
(* its threads stop with it.  pthread_create, clone and malloc may fail.   *)
(* The printing, sleeps and thread ids are left out.                       *)
(***************************************************************************)
EXTENDS Integers

CONSTANTS
  Prog,         \* "simple", "nested", "clone" or "multiple"
  MaxThreads,   \* the largest num_threads (argv[1]) of multiple_threads.c
  Incs          \* func_a's five increments of a

Threads == 0..MaxThreads - 1

\* The globals a of simple_thread.c and val of custom_thread.c start at 10.
V0 == 10

VARIABLES
  n,        \* num_threads
  val,      \* the global a or val
  k,        \* main's loop index
  i,        \* each thread's loop index
  mem,      \* the argument memory of each thread
  stale,    \* a thread has read freed argument memory
  printed,  \* the value main printed, or -1
  tpc,      \* program counter of each thread
  mpc       \* program counter of main

vars == <<n, val, k, i, mem, stale, printed, tpc, mpc>>

Init ==
  /\ n \in (IF Prog = "multiple" THEN 0..MaxThreads ELSE {0})
  /\ val = V0 /\ k = 0 /\ i = [t \in Threads |-> 0]
  /\ mem = [t \in Threads |-> "none"] /\ stale = FALSE /\ printed = -1
  /\ tpc = [t \in Threads |-> "none"]
  /\ mpc = "start"

Done == {"exited", "failed"}

\* The process is running.
Alive == mpc \notin Done

\* Thread t goes from program point from to program point to.
Goto(t, from, to) ==
  /\ Alive /\ tpc[t] = from
  /\ tpc' = [tpc EXCEPT ![t] = to]

\* Thread t reads its arguments.
Read(t) == stale' = (stale \/ mem[t] # "live")

-----------------------------------------------------------------------------
(* 1-simple.c.                                                             *)

\* args.a = -42 ...; pthread_create(&tid_foo, NULL, foo, &args), or exit.
SimpleCreate ==
  /\ Prog = "simple" /\ mpc = "start"
  /\ \/ /\ mem' = [mem EXCEPT ![0] = "live"]
        /\ tpc' = [tpc EXCEPT ![0] = "run"] /\ mpc' = "join"
     \/ mpc' = "failed" /\ UNCHANGED <<mem, tpc>>
  /\ UNCHANGED <<n, val, k, i, stale, printed>>

\* foo: params = arg and the prints of params->a, ->b and ->c.
SimpleFoo ==
  /\ Prog = "simple" /\ Goto(0, "run", "exited") /\ Read(0)
  /\ UNCHANGED <<n, val, k, i, mem, printed, mpc>>

\* Mutant: main returns without pthread_join(tid_foo).
SimpleJoinSkipped ==
  /\ Prog = "simple" /\ mpc = "join"
  /\ mpc' = "return"
  /\ UNCHANGED <<n, val, k, i, mem, stale, printed, tpc>>

\* pthread_join(tid_foo, NULL); printf("done.").
SimpleJoin ==
  /\ Prog = "simple" /\ mpc = "join" /\ tpc[0] = "exited"
  /\ mpc' = "return"
  /\ UNCHANGED <<n, val, k, i, mem, stale, printed, tpc>>

(* return 0: main's frame, args with it, is gone; exit then ends the       *)
(* process.                                                                *)
SimpleReturn ==
  /\ Prog = "simple" /\ mpc = "return"
  /\ mem' = [mem EXCEPT ![0] = "freed"]
  /\ mpc' = "exit"
  /\ UNCHANGED <<n, val, k, i, stale, printed, tpc>>

-----------------------------------------------------------------------------
(* simple_thread.c: thread 0 is A, thread 1 is B.                          *)

\* pthread_create(&thr_a, NULL, func_a, NULL), or exit.
NestedCreate ==
  /\ Prog = "nested" /\ mpc = "start"
  /\ \/ tpc' = [tpc EXCEPT ![0] = "create"] /\ mpc' = "join"
     \/ mpc' = "failed" /\ UNCHANGED tpc
  /\ UNCHANGED <<n, val, k, i, mem, stale, printed>>

\* func_a: pthread_create(&thr_b, ..., func_b, 5), or exit of the process.
ACreate ==
  /\ Prog = "nested" /\ Alive /\ tpc[0] = "create"
  /\ \/ tpc' = [tpc EXCEPT ![0] = "loop", ![1] = "run"] /\ UNCHANGED mpc
     \/ mpc' = "failed" /\ UNCHANGED tpc
  /\ UNCHANGED <<n, val, k, i, mem, stale, printed>>

\* for (i = 0; i < 5; i++) { a = a + 1; sleep(1); }
ALoop ==
  /\ Prog = "nested" /\ Alive /\ tpc[0] = "loop"
  /\ IF i[0] < Incs
       THEN val' = val + 1 /\ i' = [i EXCEPT ![0] = i[0] + 1] /\ UNCHANGED tpc
       ELSE tpc' = [tpc EXCEPT ![0] = "join"] /\ UNCHANGED <<val, i>>
  /\ UNCHANGED <<n, k, mem, stale, printed, mpc>>

\* pthread_join(thr_b, NULL); pthread_exit.
AJoin ==
  /\ Prog = "nested" /\ tpc[1] = "exited" /\ Goto(0, "join", "exited")
  /\ UNCHANGED <<n, val, k, i, mem, stale, printed, mpc>>

\* func_b: the five dots; pthread_exit.
BRun ==
  /\ Prog = "nested" /\ Goto(1, "run", "exited")
  /\ UNCHANGED <<n, val, k, i, mem, stale, printed, mpc>>

\* Mutant: main prints a without joining thr_a.
NestedJoinSkipped ==
  /\ Prog = "nested" /\ mpc = "join"
  /\ printed' = val
  /\ mpc' = "pexit"
  /\ UNCHANGED <<n, val, k, i, mem, stale, tpc>>

(* pthread_join(thr_a, NULL); printf("Value of a is %d"); pthread_exit of  *)
(* main.                                                                   *)
NestedJoin ==
  /\ Prog = "nested" /\ mpc = "join" /\ tpc[0] = "exited"
  /\ printed' = val
  /\ mpc' = "pexit"
  /\ UNCHANGED <<n, val, k, i, mem, stale, tpc>>

-----------------------------------------------------------------------------
(* custom_thread.c.                                                        *)

\* child_stack = malloc(STACK_SIZE); NULL returns EXIT_FAILURE.
CloneAlloc ==
  /\ Prog = "clone" /\ mpc = "start"
  /\ \/ mem' = [mem EXCEPT ![0] = "live"] /\ mpc' = "clone"
     \/ mpc' = "failed" /\ UNCHANGED mem
  /\ UNCHANGED <<n, val, k, i, stale, printed, tpc>>

\* clone(&threadfunc, child_stack + STACK_SIZE, CLONE_VM | SIGCHLD, NULL).
CloneCreate ==
  /\ Prog = "clone" /\ mpc = "clone"
  /\ \/ tpc' = [tpc EXCEPT ![0] = "run"] /\ mpc' = "wait"
     \/ mpc' = "failed" /\ UNCHANGED tpc
  /\ UNCHANGED <<n, val, k, i, mem, stale, printed>>

(* threadfunc: val++ in the shared address space, on the clone stack.  The *)
(* child is a process of its own: it runs on when the parent has ended.    *)
CloneChild ==
  /\ Prog = "clone" /\ tpc[0] = "run"
  /\ tpc' = [tpc EXCEPT ![0] = "exited"]
  /\ val' = val + 1 /\ Read(0)
  /\ UNCHANGED <<n, k, i, mem, printed, mpc>>

\* Mutant: the stack is freed and val printed without waitpid.
CloneWaitSkipped ==
  /\ Prog = "clone" /\ mpc = "wait"
  /\ mem' = [mem EXCEPT ![0] = "freed"]
  /\ printed' = val
  /\ mpc' = "exited"
  /\ UNCHANGED <<n, val, k, i, stale, tpc>>

(* waitpid(child_pid, 0, 0); free(child_stack); printf("val is: %d");     *)
(* return EXIT_SUCCESS.                                                    *)
CloneWait ==
  /\ Prog = "clone" /\ mpc = "wait" /\ tpc[0] = "exited"
  /\ mem' = [mem EXCEPT ![0] = "freed"]
  /\ printed' = val
  /\ mpc' = "exited"
  /\ UNCHANGED <<n, val, k, i, stale, tpc>>

-----------------------------------------------------------------------------
(* multiple_threads.c.                                                     *)

(* The create loop: malloc of the argument struct, whose result is not     *)
(* checked (a NULL is written through and kills the process), the          *)
(* dummy arguments, pthread_create or exit(EXIT_FAILURE).                  *)
MultipleCreate ==
  /\ Prog = "multiple" /\ mpc = "start"
  /\ IF k < n
       THEN \/ /\ mem' = [mem EXCEPT ![k] = "live"]
               /\ tpc' = [tpc EXCEPT ![k] = "run"]
               /\ k' = k + 1 /\ UNCHANGED mpc
            \/ mpc' = "failed" /\ UNCHANGED <<mem, tpc, k>>
       ELSE mpc' = "join" /\ k' = 0 /\ UNCHANGED <<mem, tpc>>
  /\ UNCHANGED <<n, val, i, stale, printed>>

\* my_func: the printf of tid, arg1 and arg2, and processing_time.
WorkerRead(t) ==
  /\ Prog = "multiple" /\ Goto(t, "run", "done") /\ Read(t)
  /\ UNCHANGED <<n, val, k, i, mem, printed, mpc>>

\* sleep; printf("Thread %d is done", args_for_me->tid); free; pthread_exit.
WorkerFree(t) ==
  /\ Prog = "multiple" /\ Goto(t, "done", "exited") /\ Read(t)
  /\ mem' = [mem EXCEPT ![t] = "freed"]
  /\ UNCHANGED <<n, val, k, i, printed, mpc>>

(* for (i = 0; i < num_threads; i++) pthread_join; free(worker_thread);    *)
(* pthread_exit of main.                                                   *)
MultipleJoin ==
  /\ Prog = "multiple" /\ mpc = "join"
  /\ IF k < n
       THEN tpc[k] = "exited" /\ k' = k + 1 /\ UNCHANGED mpc
       ELSE mpc' = "pexit" /\ UNCHANGED k
  /\ UNCHANGED <<n, val, i, mem, stale, printed, tpc>>

-----------------------------------------------------------------------------
(* The end of the process: exit after main's return, or the end of the     *)
(* last thread after main's pthread_exit.                                  *)
ProcessEnd ==
  /\ \/ mpc = "exit"
     \/ mpc = "pexit" /\ \A t \in Threads : tpc[t] \in {"none", "exited"}
  /\ mpc' = "exited"
  /\ UNCHANGED <<n, val, k, i, mem, stale, printed, tpc>>

Main ==
  \/ SimpleCreate \/ SimpleJoin \/ SimpleReturn
  \/ NestedCreate \/ NestedJoin
  \/ CloneAlloc \/ CloneCreate \/ CloneWait
  \/ MultipleCreate \/ MultipleJoin
  \/ ProcessEnd

Thread(t) ==
  \/ t = 0 /\ (SimpleFoo \/ ACreate \/ ALoop \/ AJoin \/ CloneChild)
  \/ t = 1 /\ BRun
  \/ WorkerRead(t) \/ WorkerFree(t)

Next == Main \/ \E t \in Threads : Thread(t)

\* The scheduler runs every thread that can run.
Fairness == WF_vars(Main) /\ \A t \in Threads : WF_vars(Thread(t))

Spec == Init /\ [][Next]_vars /\ Fairness

-----------------------------------------------------------------------------
TypeOK ==
  /\ n \in 0..MaxThreads /\ val \in Nat /\ k \in 0..MaxThreads
  /\ i \in [Threads -> 0..Incs]
  /\ mem \in [Threads -> {"none", "live", "freed"}]
  /\ stale \in BOOLEAN /\ printed \in {-1} \cup Nat
  /\ tpc \in [Threads -> {"none", "run", "create", "loop", "join", "done",
                          "exited"}]
  /\ mpc \in {"start", "join", "return", "exit", "pexit", "clone", "wait",
              "exited", "failed"}

(* No thread reads its arguments from memory that is gone: main's stack    *)
(* frame in 1-simple.c, the clone stack in custom_thread.c, the struct a   *)
(* worker frees in multiple_threads.c.                                     *)
NoUseAfterFree == ~stale

(* The value main prints is the one the other thread computed: "Value of   *)
(* a is 15" in simple_thread.c and "val is: 11" in custom_thread.c.        *)
PrintsFinalValue ==
  printed # -1 => printed = V0 + (IF Prog = "nested" THEN Incs ELSE 1)

\* The process ends: every join and wait returns.
Termination == <>(mpc \in Done)

=============================================================================
