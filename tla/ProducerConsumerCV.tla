-------------------------- MODULE ProducerConsumerCV --------------------------
(***************************************************************************)
(* The producer/consumer of                                                *)
(* src/code_examples/shackleford/src/sync/mutex/05-pc_cv.c.                *)
(*                                                                         *)
(* Each detached producer thread writes one work unit (its thread number) *)
(* into a non-blocking pipe under sdata.mtx, increments avail, decrements *)
(* producers, unlocks and then signals sdata.cond.  The main thread is the *)
(* consumer: it locks, waits on the condition while avail is 0, reads      *)
(* work units while avail > 0 and stops once it has seen producers == 0.   *)
(*                                                                         *)
(* The pipe is a sequence of work units holding at most PipeCap of them   *)
(* (the pipe buffer divided by sizeof(unsigned int)); a write to a full   *)
(* non-blocking pipe fails.  The running sum is kept as the set of work    *)
(* units read, in the order read, from which the sum follows.             *)
(***************************************************************************)
EXTENDS Naturals, Sequences, FiniteSets

CONSTANTS
  Producers,   \* the NUM_PRODUCERS producer threads; each produces itself
  Consumer,    \* the main thread
  NoThread,    \* sdata.mtx is unlocked
  PipeCap      \* work units the pipe holds

ASSUME PipeCap \in Nat \ {0}
ASSUME Consumer \notin Producers /\ NoThread \notin Producers \cup {Consumer}

VARIABLES
  pipe,        \* contents of work_pipe
  avail,       \* sdata.avail
  producers,   \* sdata.producers
  mtx,         \* holder of sdata.mtx
  ppc,         \* program counter of each producer
  cpc,         \* program counter of the consumer
  finished,    \* consumer's local finished
  consumed     \* work units the consumer has added to sum, in order

vars == <<pipe, avail, producers, mtx, ppc, cpc, finished, consumed>>

ProducerPC == {"lock", "write", "unlock", "signal", "exited"}
ConsumerPC == {"top", "check", "wait", "relock", "drain", "unlock", "exited"}

Init ==
  /\ pipe = <<>>
  /\ avail = 0
  /\ producers = Cardinality(Producers)
  /\ mtx = NoThread
  /\ ppc = [p \in Producers |-> "lock"]
  /\ cpc = "top"
  /\ finished = FALSE
  /\ consumed = <<>>

-----------------------------------------------------------------------------
(* producer()                                                              *)

\* sleep(random_uint(2)); pthread_mutex_lock(&sdata.mtx).
ProducerLock(p) ==
  /\ ppc[p] = "lock"
  /\ mtx = NoThread
  /\ mtx' = p
  /\ ppc' = [ppc EXCEPT ![p] = "write"]
  /\ UNCHANGED <<pipe, avail, producers, cpc, finished, consumed>>

(* write(work_pipe[WRITE_SIDE], &result, ...): on success avail++ and      *)
(* producers--; on a full pipe "pipe was full" and goto unlock, leaving    *)
(* both unchanged.  The do { } while (0) does not retry.                   *)
ProducerWrite(p) ==
  /\ ppc[p] = "write"
  /\ IF Len(pipe) < PipeCap
       THEN /\ pipe' = Append(pipe, p)
            /\ avail' = avail + 1
            /\ producers' = producers - 1
       ELSE UNCHANGED <<pipe, avail, producers>>
  /\ ppc' = [ppc EXCEPT ![p] = "unlock"]
  /\ UNCHANGED <<mtx, cpc, finished, consumed>>

\* unlock: pthread_mutex_unlock(&sdata.mtx).
ProducerUnlock(p) ==
  /\ ppc[p] = "unlock"
  /\ mtx' = NoThread
  /\ ppc' = [ppc EXCEPT ![p] = "signal"]
  /\ UNCHANGED <<pipe, avail, producers, cpc, finished, consumed>>

\* Mutant: the producer ends without pthread_cond_signal.
ProducerSignalDropped(p) ==
  /\ ppc[p] = "signal"
  /\ ppc' = [ppc EXCEPT ![p] = "exited"]
  /\ UNCHANGED <<pipe, avail, producers, mtx, cpc, finished, consumed>>

(* pthread_cond_signal(&sdata.cond), outside the mutex: wakes the consumer *)
(* if it is blocked in pthread_cond_wait, else is lost; the thread ends.   *)
ProducerSignal(p) ==
  /\ ppc[p] = "signal"
  /\ cpc' = IF cpc = "wait" THEN "relock" ELSE cpc
  /\ ppc' = [ppc EXCEPT ![p] = "exited"]
  /\ UNCHANGED <<pipe, avail, producers, mtx, finished, consumed>>

-----------------------------------------------------------------------------
(* main(): the consumer loop.                                              *)

\* while (!finished) { processed = 0; pthread_mutex_lock(&sdata.mtx); ... }
ConsumerLock ==
  /\ cpc = "top"
  /\ ~finished
  /\ mtx = NoThread
  /\ mtx' = Consumer
  /\ cpc' = "check"
  /\ UNCHANGED <<pipe, avail, producers, ppc, finished, consumed>>

\* The loop ends; the sums are printed and main returns.
ConsumerExit ==
  /\ cpc = "top"
  /\ finished
  /\ cpc' = "exited"
  /\ UNCHANGED <<pipe, avail, producers, mtx, ppc, finished, consumed>>

(* while (!sdata.avail) pthread_cond_wait(...): test the predicate; wait   *)
(* releases the mutex and blocks.                                          *)
ConsumerCheck ==
  /\ cpc = "check"
  /\ IF avail = 0
       THEN /\ mtx' = NoThread
            /\ cpc' = "wait"
       ELSE /\ cpc' = "drain"
            /\ UNCHANGED mtx
  /\ UNCHANGED <<pipe, avail, producers, ppc, finished, consumed>>

\* A spurious return from pthread_cond_wait, allowed by POSIX.
ConsumerSpuriousWakeup ==
  /\ cpc = "wait"
  /\ cpc' = "relock"
  /\ UNCHANGED <<pipe, avail, producers, mtx, ppc, finished, consumed>>

\* pthread_cond_wait reacquires the mutex before returning; re-test.
ConsumerRelock ==
  /\ cpc = "relock"
  /\ mtx = NoThread
  /\ mtx' = Consumer
  /\ cpc' = "check"
  /\ UNCHANGED <<pipe, avail, producers, ppc, finished, consumed>>

\* Mutant: finished is set one producer too early.
ConsumerDrainEarly ==
  /\ cpc = "drain"
  /\ IF pipe # <<>>
       THEN /\ consumed' = Append(consumed, Head(pipe))
            /\ pipe' = Tail(pipe)
            /\ avail' = avail - 1
       ELSE UNCHANGED <<consumed, pipe, avail>>
  /\ finished' = (finished \/ producers <= 1)
  /\ cpc' = IF avail' > 0 THEN "drain" ELSE "unlock"
  /\ UNCHANGED <<producers, mtx, ppc>>

(* One iteration of while (sdata.avail > 0): read a work unit (the read    *)
(* of an empty pipe only prints), then if (sdata.producers == 0)           *)
(* finished = 1.                                                           *)
ConsumerDrain ==
  /\ cpc = "drain"
  /\ IF pipe # <<>>
       THEN /\ consumed' = Append(consumed, Head(pipe))
            /\ pipe' = Tail(pipe)
            /\ avail' = avail - 1
       ELSE UNCHANGED <<consumed, pipe, avail>>
  /\ finished' = (finished \/ producers = 0)
  /\ cpc' = IF avail' > 0 THEN "drain" ELSE "unlock"
  /\ UNCHANGED <<producers, mtx, ppc>>

\* pthread_mutex_unlock(&sdata.mtx); print processed.
ConsumerUnlock ==
  /\ cpc = "unlock"
  /\ mtx' = NoThread
  /\ cpc' = "top"
  /\ UNCHANGED <<pipe, avail, producers, ppc, finished, consumed>>

-----------------------------------------------------------------------------
Producer(p) ==
  ProducerLock(p) \/ ProducerWrite(p) \/ ProducerUnlock(p) \/ ProducerSignal(p)

ConsumerStep ==
  \/ ConsumerLock \/ ConsumerExit \/ ConsumerCheck \/ ConsumerRelock
  \/ ConsumerDrain \/ ConsumerUnlock

Next ==
  \/ \E p \in Producers : Producer(p)
  \/ ConsumerStep
  \/ ConsumerSpuriousWakeup

(* Every runnable thread is eventually scheduled.  A spurious wakeup may   *)
(* happen but need not.                                                    *)
Fairness ==
  /\ \A p \in Producers : WF_vars(Producer(p))
  /\ WF_vars(ConsumerStep)

Spec == Init /\ [][Next]_vars /\ Fairness

-----------------------------------------------------------------------------
TypeOK ==
  /\ pipe \in Seq(Producers) /\ Len(pipe) <= PipeCap
  /\ avail \in Nat
  /\ producers \in 0..Cardinality(Producers)
  /\ mtx \in Producers \cup {Consumer, NoThread}
  /\ ppc \in [Producers -> ProducerPC]
  /\ cpc \in ConsumerPC
  /\ finished \in BOOLEAN
  /\ consumed \in Seq(Producers)

(* When the consumer leaves its loop it has added every producer's work    *)
(* unit to sum exactly once: "Work unit sum" equals "Expected result".     *)
SumComplete ==
  cpc = "exited" =>
    /\ Len(consumed) = Cardinality(Producers)
    /\ {consumed[k] : k \in 1..Len(consumed)} = Producers

(* The consumer eventually leaves its loop and prints the sums, unless     *)
(* pthread_cond_wait keeps returning spuriously forever.                   *)
Termination ==
  []<><<ConsumerSpuriousWakeup>>_vars \/ <>(cpc = "exited")

=============================================================================
