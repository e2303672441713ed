-------------------------------- MODULE PCSpin --------------------------------
(***************************************************************************)
(* The spinning producer/consumer of                                       *)
(* src/code_examples/shackleford/src/sync/mutex/04-pc_bad.c.               *)
(*                                                                         *)
(* As in 05-pc_cv.c, each detached producer writes its thread number into  *)
(* a non-blocking pipe under sdata.mtx and updates avail and producers,    *)
(* but there is no condition variable: main locks the mutex, drains while  *)
(* avail > 0, unlocks and tries again, spinning on the mutex while no work *)
(* is available.  The pipe is a sequence of at most PipeCap work units.    *)
(***************************************************************************)
EXTENDS Naturals, Sequences, FiniteSets

CONSTANTS
  Producers,   \* the NUM_PRODUCERS producer threads
  Consumer,    \* the main thread
  NoThread,    \* sdata.mtx is unlocked
  PipeCap      \* work units the pipe holds

ASSUME PipeCap \in Nat \ {0}
ASSUME Consumer \notin Producers /\ NoThread \notin Producers \cup {Consumer}

VARIABLES
  pipe,        \* contents of work_pipe
  avail,       \* sdata.avail
  producers,   \* sdata.producers
  mtx,         \* holder of sdata.mtx
  ppc,         \* program counter of each producer
  cpc,         \* program counter of the consumer
  finished,    \* main's local finished
  consumed     \* work units added to sum, in order

vars == <<pipe, avail, producers, mtx, ppc, cpc, finished, consumed>>

\* static struct shared_data sdata = { .avail = 0, .producers = NUM_PRODUCERS }.
Init ==
  /\ pipe = <<>>
  /\ avail = 0
  /\ producers = Cardinality(Producers)
  /\ mtx = NoThread
  /\ ppc = [p \in Producers |-> "lock"]
  /\ cpc = "top"
  /\ finished = FALSE
  /\ consumed = <<>>

-----------------------------------------------------------------------------
\* sleep(random_uint(2)); pthread_mutex_lock(&sdata.mtx).
ProducerLock(p) ==
  /\ ppc[p] = "lock"
  /\ mtx = NoThread
  /\ mtx' = p
  /\ ppc' = [ppc EXCEPT ![p] = "write"]
  /\ UNCHANGED <<pipe, avail, producers, cpc, finished, consumed>>

\* Mutant: avail++ also when the write fails.
ProducerWriteCountsFailure(p) ==
  /\ ppc[p] = "write"
  /\ IF Len(pipe) < PipeCap
       THEN /\ pipe' = Append(pipe, p)
            /\ producers' = producers - 1
       ELSE UNCHANGED <<pipe, producers>>
  /\ avail' = avail + 1
  /\ ppc' = [ppc EXCEPT ![p] = "unlock"]
  /\ UNCHANGED <<mtx, cpc, finished, consumed>>

(* write(): on success avail++ and producers--; when the pipe is full the  *)
(* producer unlocks and continue leaves the do { } while (0): no retry.    *)
ProducerWrite(p) ==
  /\ ppc[p] = "write"
  /\ IF Len(pipe) < PipeCap
       THEN /\ pipe' = Append(pipe, p)
            /\ avail' = avail + 1
            /\ producers' = producers - 1
       ELSE UNCHANGED <<pipe, avail, producers>>
  /\ ppc' = [ppc EXCEPT ![p] = "unlock"]
  /\ UNCHANGED <<mtx, cpc, finished, consumed>>

\* pthread_mutex_unlock(&sdata.mtx); the thread function returns.
ProducerUnlock(p) ==
  /\ ppc[p] = "unlock"
  /\ mtx' = NoThread
  /\ ppc' = [ppc EXCEPT ![p] = "exited"]
  /\ UNCHANGED <<pipe, avail, producers, cpc, finished, consumed>>

-----------------------------------------------------------------------------
\* while (!finished) { processed = 0; pthread_mutex_lock(&sdata.mtx); ... }
ConsumerLock ==
  /\ cpc = "top"
  /\ ~finished
  /\ mtx = NoThread
  /\ mtx' = Consumer
  /\ cpc' = "drain"
  /\ UNCHANGED <<pipe, avail, producers, ppc, finished, consumed>>

\* The loop ends; the sums are printed.
ConsumerExit ==
  /\ cpc = "top"
  /\ finished
  /\ cpc' = "exited"
  /\ UNCHANGED <<pipe, avail, producers, mtx, ppc, finished, consumed>>

\* Mutant: finished is set one producer too early.
ConsumerDrainEarly ==
  /\ cpc = "drain"
  /\ avail > 0
  /\ IF pipe # <<>>
       THEN /\ consumed' = Append(consumed, Head(pipe))
            /\ pipe' = Tail(pipe)
            /\ avail' = avail - 1
       ELSE UNCHANGED <<consumed, pipe, avail>>
  /\ finished' = (finished \/ producers <= 1)
  /\ UNCHANGED <<producers, mtx, ppc, cpc>>

(* One iteration of while (sdata.avail > 0): read a unit (an empty pipe    *)
(* only prints), then if (!sdata.producers) finished = 1.                  *)
ConsumerDrain ==
  /\ cpc = "drain"
  /\ avail > 0
  /\ IF pipe # <<>>
       THEN /\ consumed' = Append(consumed, Head(pipe))
            /\ pipe' = Tail(pipe)
            /\ avail' = avail - 1
       ELSE UNCHANGED <<consumed, pipe, avail>>
  /\ finished' = (finished \/ producers = 0)
  /\ UNCHANGED <<producers, mtx, ppc, cpc>>

\* avail == 0 ends the drain loop; pthread_mutex_unlock(&sdata.mtx).
ConsumerUnlock ==
  /\ cpc = "drain"
  /\ avail = 0
  /\ mtx' = NoThread
  /\ cpc' = "top"
  /\ UNCHANGED <<pipe, avail, producers, ppc, finished, consumed>>

-----------------------------------------------------------------------------
Producer(p) == ProducerLock(p) \/ ProducerWrite(p) \/ ProducerUnlock(p)

ConsumerStep == ConsumerLock \/ ConsumerExit \/ ConsumerDrain \/ ConsumerUnlock

Next == (\E p \in Producers : Producer(p)) \/ ConsumerStep

(* Every runnable thread is eventually scheduled.  A producer blocked in   *)
(* pthread_mutex_lock is runnable only while the mutex is free; the mutex  *)
(* promises no order among the threads contending for it.                  *)
Fairness ==
  /\ \A p \in Producers : WF_vars(Producer(p))
  /\ WF_vars(ConsumerStep)

Spec == Init /\ [][Next]_vars /\ Fairness

-----------------------------------------------------------------------------
TypeOK ==
  /\ pipe \in Seq(Producers) /\ Len(pipe) <= PipeCap
  /\ avail \in 0..PipeCap
  /\ producers \in 0..Cardinality(Producers)
  /\ mtx \in Producers \cup {Consumer, NoThread}
  /\ ppc \in [Producers -> {"lock", "write", "unlock", "exited"}]
  /\ cpc \in {"top", "drain", "exited"}
  /\ finished \in BOOLEAN
  /\ consumed \in Seq(Producers)

(* When main leaves its loop it has added every producer's work unit to    *)
(* sum exactly once: "Work unit sum" equals "Expected result".             *)
SumComplete ==
  cpc = "exited" =>
    /\ Len(consumed) = Cardinality(Producers)
    /\ {consumed[k] : k \in 1..Len(consumed)} = Producers

(* main eventually leaves its loop: every producer gets the mutex between  *)
(* the consumer's polls.                                                   *)
Termination == <>(cpc = "exited")

=============================================================================
