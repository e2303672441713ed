------------------------------ MODULE BarrierSem -----------------------------
(***************************************************************************)
(* The semaphore barrier of                                                *)
(* src/thr/barrier_synchronization_with_semaphores.c.                     *)
(*                                                                         *)
(* counter_sem (initially 1) is the lock on counter; barrier_sem          *)
(* (initially 0) holds the threads back.  The thread that finds           *)
(* counter == num_threads - 1 resets counter, releases counter_sem and    *)
(* then posts barrier_sem num_threads - 1 times, one post per step; every *)
(* other thread increments counter, releases counter_sem and waits on     *)
(* barrier_sem.  posted[t] is the loop index of that for loop.            *)
(***************************************************************************)
EXTENDS Naturals, FiniteSets

CONSTANTS
  Threads,      \* the num_threads threads
  Iterations    \* num_iterations

ASSUME Iterations \in Nat

NumThreads == Cardinality(Threads)

VARIABLES
  counter_sem, barrier_sem,  \* the two semaphores
  counter,                   \* barrier.counter
  pc,                        \* program counter of each thread
  i,                         \* loop index i of my_thread: barriers crossed
  posted                     \* loop index of the sem_post loop

vars == <<counter_sem, barrier_sem, counter, pc, i, posted>>

PC == {"loop", "wait_counter", "test", "post_counter_last", "release",
       "post_counter", "wait_barrier", "exited"}

\* main: barrier.counter = 0; sem_init(counter_sem, 1); sem_init(barrier_sem, 0).
Init ==
  /\ counter_sem = 1
  /\ barrier_sem = 0
  /\ counter = 0
  /\ pc = [t \in Threads |-> "loop"]
  /\ i = [t \in Threads |-> 0]
  /\ posted = [t \in Threads |-> 0]

-----------------------------------------------------------------------------
\* my_thread: the loop test; the body's sleep is left to the interleaving.
LoopTest(t) ==
  /\ pc[t] = "loop"
  /\ pc' = [pc EXCEPT ![t] = IF i[t] < Iterations THEN "wait_counter"
                                                  ELSE "exited"]
  /\ UNCHANGED <<counter_sem, barrier_sem, counter, i, posted>>

\* sem_wait(&barrier->counter_sem).
WaitCounter(t) ==
  /\ pc[t] = "wait_counter"
  /\ counter_sem > 0
  /\ counter_sem' = counter_sem - 1
  /\ pc' = [pc EXCEPT ![t] = "test"]
  /\ UNCHANGED <<barrier_sem, counter, i, posted>>

\* Mutant: the last arrival does not reset counter.
TestNoReset(t) ==
  /\ pc[t] = "test"
  /\ counter' = counter + 1
  /\ pc' = [pc EXCEPT ![t] = IF counter = NumThreads - 1
                                THEN "post_counter_last" ELSE "post_counter"]
  /\ UNCHANGED <<counter_sem, barrier_sem, i, posted>>

\* Mutant: the last arrival is recognised one thread too early.
TestEarly(t) ==
  /\ pc[t] = "test"
  /\ IF counter = NumThreads - 2
       THEN /\ counter' = 0
            /\ pc' = [pc EXCEPT ![t] = "post_counter_last"]
       ELSE /\ counter' = counter + 1
            /\ pc' = [pc EXCEPT ![t] = "post_counter"]
  /\ UNCHANGED <<counter_sem, barrier_sem, i, posted>>

(* if (counter == num_threads - 1) counter = 0; else counter++.            *)
Test(t) ==
  /\ pc[t] = "test"
  /\ IF counter = NumThreads - 1
       THEN /\ counter' = 0
            /\ pc' = [pc EXCEPT ![t] = "post_counter_last"]
       ELSE /\ counter' = counter + 1
            /\ pc' = [pc EXCEPT ![t] = "post_counter"]
  /\ UNCHANGED <<counter_sem, barrier_sem, i, posted>>

\* Last thread: sem_post(&barrier->counter_sem).
PostCounterLast(t) ==
  /\ pc[t] = "post_counter_last"
  /\ counter_sem' = counter_sem + 1
  /\ pc' = [pc EXCEPT ![t] = IF NumThreads > 1 THEN "release" ELSE "loop"]
  /\ i' = IF NumThreads > 1 THEN i ELSE [i EXCEPT ![t] = i[t] + 1]
  /\ UNCHANGED <<barrier_sem, counter, posted>>

\* Mutant: the for loop posts one time too few.
ReleaseShort(t) ==
  /\ pc[t] = "release"
  /\ barrier_sem' = barrier_sem + 1
  /\ IF posted[t] + 1 >= NumThreads - 2
       THEN /\ posted' = [posted EXCEPT ![t] = 0]
            /\ i' = [i EXCEPT ![t] = i[t] + 1]
            /\ pc' = [pc EXCEPT ![t] = "loop"]
       ELSE /\ posted' = [posted EXCEPT ![t] = posted[t] + 1]
            /\ UNCHANGED <<i, pc>>
  /\ UNCHANGED <<counter_sem, counter>>

(* One iteration of for (i = 0; i < num_threads - 1; i++)                  *)
(* sem_post(&barrier->barrier_sem); after the last one barrier_sync        *)
(* returns and my_thread's loop increments its i.                          *)
Release(t) ==
  /\ pc[t] = "release"
  /\ barrier_sem' = barrier_sem + 1
  /\ IF posted[t] + 1 = NumThreads - 1
       THEN /\ posted' = [posted EXCEPT ![t] = 0]
            /\ i' = [i EXCEPT ![t] = i[t] + 1]
            /\ pc' = [pc EXCEPT ![t] = "loop"]
       ELSE /\ posted' = [posted EXCEPT ![t] = posted[t] + 1]
            /\ UNCHANGED <<i, pc>>
  /\ UNCHANGED <<counter_sem, counter>>

\* Other threads: sem_post(&barrier->counter_sem).
PostCounter(t) ==
  /\ pc[t] = "post_counter"
  /\ counter_sem' = counter_sem + 1
  /\ pc' = [pc EXCEPT ![t] = "wait_barrier"]
  /\ UNCHANGED <<barrier_sem, counter, i, posted>>

\* sem_wait(&barrier->barrier_sem); barrier_sync returns.
WaitBarrier(t) ==
  /\ pc[t] = "wait_barrier"
  /\ barrier_sem > 0
  /\ barrier_sem' = barrier_sem - 1
  /\ i' = [i EXCEPT ![t] = i[t] + 1]
  /\ pc' = [pc EXCEPT ![t] = "loop"]
  /\ UNCHANGED <<counter_sem, counter, posted>>

-----------------------------------------------------------------------------
Thread(t) ==
  \/ LoopTest(t) \/ WaitCounter(t) \/ Test(t) \/ PostCounterLast(t)
  \/ Release(t) \/ PostCounter(t) \/ WaitBarrier(t)

Next == \E t \in Threads : Thread(t)

(* Each runnable thread is eventually scheduled.                            *)
Fairness == \A t \in Threads : WF_vars(Thread(t))

Spec == Init /\ [][Next]_vars /\ Fairness

-----------------------------------------------------------------------------
TypeOK ==
  /\ counter_sem \in 0..1
  /\ barrier_sem \in Nat
  /\ counter \in 0..NumThreads - 1
  /\ pc \in [Threads -> PC]
  /\ i \in [Threads -> 0..Iterations]
  /\ posted \in [Threads -> 0..NumThreads]

(* Refinement mapping: a thread has arrived once it has updated counter    *)
(* and until its barrier_sync returns.                                     *)
CB == INSTANCE CyclicBarrier
        WITH iter <- i,
             arrived <- [t \in Threads |->
                           pc[t] \in {"post_counter_last", "release",
                                      "post_counter", "wait_barrier"}]

(* barrier_sync implements the cyclic barrier: no thread returns from     *)
(* barrier_sync for round k before every thread has called it for round k. *)
BarrierRefinement == CB!Spec

(* Every thread completes all num_iterations rounds and exits, so main's  *)
(* pthread_join loop returns: no barrier_sem post is left to a thread that *)
(* never waits for it.                                                     *)
Termination == <>(\A t \in Threads : pc[t] = "exited")

=============================================================================
