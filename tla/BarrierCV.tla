------------------------------ MODULE BarrierCV ------------------------------
(***************************************************************************)
(* The condition-variable barrier of                                       *)
(* src/thr/barrier_synchronization_with_condition_variables.c.             *)
(*                                                                         *)
(* Threads run my_thread: num_iterations rounds of work followed by       *)
(* barrier_sync.  barrier_sync locks the mutex, increments counter; the    *)
(* thread that makes it num_threads resets it and broadcasts, every other *)
(* thread waits on the condition variable:                                 *)
(*     while ((pthread_cond_wait (...)) != 0);                             *)
(* The loop re-waits only when pthread_cond_wait returns an error, never  *)
(* re-checks a predicate.                                                  *)
(*                                                                         *)
(* The mutex is its holder (or NoThread).  A thread blocked in             *)
(* pthread_cond_wait has pc "wait"; a broadcast moves every such thread   *)
(* to "relock", where pthread_cond_wait reacquires the mutex before        *)
(* returning.  POSIX allows pthread_cond_wait to return 0 without a        *)
(* signal (a spurious wakeup); SpuriousWakeup(t) is that step, and only    *)
(* SpecSpurious takes it.                                                  *)
(***************************************************************************)
EXTENDS Naturals, FiniteSets

CONSTANTS
  Threads,      \* the num_threads threads
  Iterations,   \* num_iterations
  NoThread      \* the mutex is unlocked

ASSUME NoThread \notin Threads
ASSUME Iterations \in Nat

NumThreads == Cardinality(Threads)

VARIABLES
  mutex,     \* barrier.mutex: holder or NoThread
  counter,   \* barrier.counter
  pc,        \* program counter of each thread
  i          \* loop index i of each thread: barriers crossed

vars == <<mutex, counter, pc, i>>

PC == {"loop", "arrive", "wait", "relock", "unlock", "exited"}

Init ==
  /\ mutex = NoThread
  /\ counter = 0
  /\ pc = [t \in Threads |-> "loop"]
  /\ i = [t \in Threads |-> 0]

-----------------------------------------------------------------------------
(* my_thread: for (i = 0; i < num_iterations; i++) { sleep; barrier_sync } *)
(* The loop test and pthread_mutex_lock at the top of barrier_sync.        *)
Lock(t) ==
  /\ pc[t] = "loop"
  /\ i[t] < Iterations
  /\ mutex = NoThread
  /\ mutex' = t
  /\ pc' = [pc EXCEPT ![t] = "arrive"]
  /\ UNCHANGED <<counter, i>>

\* The loop ends; pthread_exit.
Exit(t) ==
  /\ pc[t] = "loop"
  /\ i[t] = Iterations
  /\ pc' = [pc EXCEPT ![t] = "exited"]
  /\ UNCHANGED <<mutex, counter, i>>

\* Mutant: the last thread is recognised one arrival too early.
ArriveEarlyRelease(t) ==
  /\ pc[t] = "arrive"
  /\ IF counter + 1 = NumThreads - 1
       THEN /\ counter' = 0
            /\ pc' = [u \in Threads |->
                        IF u = t THEN "unlock"
                        ELSE IF pc[u] = "wait" THEN "relock" ELSE pc[u]]
            /\ UNCHANGED mutex
       ELSE /\ counter' = counter + 1
            /\ mutex' = NoThread
            /\ pc' = [pc EXCEPT ![t] = "wait"]
  /\ UNCHANGED i

\* Mutant: the last thread broadcasts without resetting counter.
ArriveNoReset(t) ==
  /\ pc[t] = "arrive"
  /\ IF counter + 1 = NumThreads
       THEN /\ counter' = counter + 1
            /\ pc' = [u \in Threads |->
                        IF u = t THEN "unlock"
                        ELSE IF pc[u] = "wait" THEN "relock" ELSE pc[u]]
            /\ UNCHANGED mutex
       ELSE /\ counter' = counter + 1
            /\ mutex' = NoThread
            /\ pc' = [pc EXCEPT ![t] = "wait"]
  /\ UNCHANGED i

\* Mutant: pthread_cond_signal instead of pthread_cond_broadcast.
ArriveSignalOne(t) ==
  /\ pc[t] = "arrive"
  /\ IF counter + 1 = NumThreads
       THEN /\ counter' = 0
            /\ \/ /\ \E w \in Threads :
                       /\ pc[w] = "wait"
                       /\ pc' = [pc EXCEPT ![t] = "unlock", ![w] = "relock"]
               \/ /\ \A w \in Threads : pc[w] # "wait"
                  /\ pc' = [pc EXCEPT ![t] = "unlock"]
            /\ UNCHANGED mutex
       ELSE /\ counter' = counter + 1
            /\ mutex' = NoThread
            /\ pc' = [pc EXCEPT ![t] = "wait"]
  /\ UNCHANGED i

(* barrier->counter++; if it reached num_threads: reset it and broadcast,  *)
(* keeping the mutex; otherwise pthread_cond_wait releases the mutex and   *)
(* blocks.                                                                 *)
Arrive(t) ==
  /\ pc[t] = "arrive"
  /\ IF counter + 1 = NumThreads
       THEN /\ counter' = 0
            /\ pc' = [u \in Threads |->
                        IF u = t THEN "unlock"
                        ELSE IF pc[u] = "wait" THEN "relock" ELSE pc[u]]
            /\ UNCHANGED mutex
       ELSE /\ counter' = counter + 1
            /\ mutex' = NoThread
            /\ pc' = [pc EXCEPT ![t] = "wait"]
  /\ UNCHANGED i

\* pthread_cond_wait returns 0 without a signal (allowed by POSIX).
SpuriousWakeup(t) ==
  /\ pc[t] = "wait"
  /\ pc' = [pc EXCEPT ![t] = "relock"]
  /\ UNCHANGED <<mutex, counter, i>>

\* pthread_cond_wait reacquires the mutex and returns 0: the while loop ends.
Relock(t) ==
  /\ pc[t] = "relock"
  /\ mutex = NoThread
  /\ mutex' = t
  /\ pc' = [pc EXCEPT ![t] = "unlock"]
  /\ UNCHANGED <<counter, i>>

\* pthread_mutex_unlock; barrier_sync returns and the loop increments i.
Unlock(t) ==
  /\ pc[t] = "unlock"
  /\ mutex' = NoThread
  /\ i' = [i EXCEPT ![t] = i[t] + 1]
  /\ pc' = [pc EXCEPT ![t] = "loop"]
  /\ UNCHANGED counter

-----------------------------------------------------------------------------
Thread(t) == Lock(t) \/ Exit(t) \/ Arrive(t) \/ Relock(t) \/ Unlock(t)

Next == \E t \in Threads : Thread(t)

NextSpurious == Next \/ \E t \in Threads : SpuriousWakeup(t)

(* Each runnable thread is eventually scheduled.                            *)
Fairness == \A t \in Threads : WF_vars(Thread(t))

Spec == Init /\ [][Next]_vars /\ Fairness

SpecSpurious == Init /\ [][NextSpurious]_vars /\ Fairness

-----------------------------------------------------------------------------
TypeOK ==
  /\ mutex \in Threads \cup {NoThread}
  /\ counter \in 0..NumThreads - 1
  /\ pc \in [Threads -> PC]
  /\ i \in [Threads -> 0..Iterations]

(* Refinement mapping: a thread has arrived at its current barrier once    *)
(* it has incremented counter and until barrier_sync returns.              *)
CB == INSTANCE CyclicBarrier
        WITH iter <- i,
             arrived <- [t \in Threads |-> pc[t] \in {"wait", "relock", "unlock"}]

(* barrier_sync implements the cyclic barrier: no thread returns from     *)
(* barrier_sync for round k before every thread has entered barrier_sync  *)
(* for round k, over every round and every interleaving of the threads.   *)
BarrierRefinement == CB!Spec

(* Every thread completes all num_iterations rounds and exits, so main's  *)
(* pthread_join loop returns.                                              *)
Termination == <>(\A t \in Threads : pc[t] = "exited")

=============================================================================
