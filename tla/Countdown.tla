------------------------------ MODULE Countdown ------------------------------
(***************************************************************************)
(* The countdown of shackleford/src/sync/mutex/homework/solution.c.        *)
(*                                                                         *)
(* main creates detached workers, each given &threads[i] with num = i.     *)
(* A worker writes result[num] = num * num, decrements                     *)
(* wstate.still_working under wstate.mutex and signals wstate.signal.      *)
(* main waits on the condition variable while still_working != 0, frees    *)
(* threads and adds up result.  pthread_cond_wait may wake spuriously      *)
(* (Spurious).                                                             *)
(***************************************************************************)
EXTENDS Integers, FiniteSetsExt

CONSTANTS
  NumWorkers,  \* NUM_WORKER_THREADS
  Main,        \* the main thread
  NoThread     \* wstate.mutex is unlocked

Workers == 0..NumWorkers - 1

ASSUME NumWorkers \in Nat /\ Main \notin Workers /\ NoThread \notin Workers

VARIABLES
  still_working,  \* wstate.still_working
  mutex,          \* holder of wstate.mutex
  result,         \* the static result array
  freed,          \* free(threads) has run
  total,          \* main's total
  wpc,            \* program counter of each worker
  mpc             \* program counter of main

vars == <<still_working, mutex, result, freed, total, wpc, mpc>>

Init ==
  /\ still_working = NumWorkers
  /\ mutex = NoThread
  /\ result = [i \in Workers |-> 0]
  /\ freed = FALSE
  /\ total = 0
  /\ wpc = [i \in Workers |-> "none"]
  /\ mpc = "create"

\* The sum "Check" main compares against: i*i over every i.
Check == MapThenSumSet(LAMBDA i : i * i, Workers)

-----------------------------------------------------------------------------
\* malloc, then pthread_create and pthread_detach of every worker.
MainCreate ==
  /\ mpc = "create"
  /\ wpc' = [i \in Workers |-> "write"]
  /\ mpc' = "lock"
  /\ UNCHANGED <<still_working, mutex, result, freed, total>>

(* Mutant: if instead of while: main leaves the wait without testing       *)
(* still_working again.                                                    *)
MainLockNoRetest ==
  /\ mpc \in {"lock", "relock"}
  /\ mutex = NoThread
  /\ mutex' = Main
  /\ mpc' = IF mpc = "relock" THEN "unlock" ELSE "test"
  /\ UNCHANGED <<still_working, result, freed, total, wpc>>

(* pthread_mutex_lock(&wstate.mutex), first or as pthread_cond_wait        *)
(* returns.                                                                *)
MainLock ==
  /\ mpc \in {"lock", "relock"}
  /\ mutex = NoThread
  /\ mutex' = Main
  /\ mpc' = "test"
  /\ UNCHANGED <<still_working, result, freed, total, wpc>>

(* while (wstate.still_working != 0): pthread_cond_wait unlocks the mutex  *)
(* and blocks; else the loop ends.                                         *)
MainTest ==
  /\ mpc = "test"
  /\ IF still_working # 0
       THEN mutex' = NoThread /\ mpc' = "wait"
       ELSE UNCHANGED mutex /\ mpc' = "unlock"
  /\ UNCHANGED <<still_working, result, freed, total, wpc>>

\* pthread_mutex_unlock; free(threads).
MainUnlock ==
  /\ mpc = "unlock"
  /\ mutex' = NoThread
  /\ freed' = TRUE
  /\ mpc' = "sum"
  /\ UNCHANGED <<still_working, result, total, wpc>>

\* total += result[i] over every i; the totals are printed.
MainSum ==
  /\ mpc = "sum"
  /\ total' = MapThenSumSet(LAMBDA i : result[i], Workers)
  /\ mpc' = "done"
  /\ UNCHANGED <<still_working, mutex, result, freed, wpc>>

\* A spurious wakeup returns main from pthread_cond_wait.
Spurious ==
  /\ mpc = "wait"
  /\ mpc' = "relock"
  /\ UNCHANGED <<still_working, mutex, result, freed, total, wpc>>

-----------------------------------------------------------------------------
\* result[tdata->num] = tdata->num * tdata->num.
WorkerWrite(i) ==
  /\ wpc[i] = "write"
  /\ result' = [result EXCEPT ![i] = i * i]
  /\ wpc' = [wpc EXCEPT ![i] = "lock"]
  /\ UNCHANGED <<still_working, mutex, freed, total, mpc>>

\* pthread_mutex_lock(&wstate.mutex).
WorkerLock(i) ==
  /\ wpc[i] = "lock"
  /\ mutex = NoThread
  /\ mutex' = i
  /\ wpc' = [wpc EXCEPT ![i] = "dec"]
  /\ UNCHANGED <<still_working, result, freed, total, mpc>>

\* wstate.still_working--; pthread_mutex_unlock(&wstate.mutex).
WorkerDecrement(i) ==
  /\ wpc[i] = "dec"
  /\ still_working' = still_working - 1
  /\ mutex' = NoThread
  /\ wpc' = [wpc EXCEPT ![i] = "signal"]
  /\ UNCHANGED <<result, freed, total, mpc>>

\* Mutant: the worker exits without signalling.
WorkerSignalDropped(i) ==
  /\ wpc[i] = "signal"
  /\ wpc' = [wpc EXCEPT ![i] = "exited"]
  /\ UNCHANGED <<still_working, mutex, result, freed, total, mpc>>

(* pthread_cond_signal(&wstate.signal) wakes main if it waits, else is     *)
(* lost; pthread_exit.                                                     *)
WorkerSignal(i) ==
  /\ wpc[i] = "signal"
  /\ mpc' = IF mpc = "wait" THEN "relock" ELSE mpc
  /\ wpc' = [wpc EXCEPT ![i] = "exited"]
  /\ UNCHANGED <<still_working, mutex, result, freed, total>>

Worker(i) ==
  WorkerWrite(i) \/ WorkerLock(i) \/ WorkerDecrement(i) \/ WorkerSignal(i)

MainStep == MainCreate \/ MainLock \/ MainTest \/ MainUnlock \/ MainSum

Next == MainStep \/ Spurious \/ \E i \in Workers : Worker(i)

\* Every runnable thread is eventually scheduled; wakeups may be spurious.
Fairness == WF_vars(MainStep) /\ \A i \in Workers : WF_vars(Worker(i))

Spec == Init /\ [][Next]_vars /\ Fairness

AllDone == mpc = "done"

-----------------------------------------------------------------------------
TypeOK ==
  /\ still_working \in 0..NumWorkers
  /\ mutex \in Workers \cup {Main, NoThread}
  /\ result \in [Workers -> Nat] /\ freed \in BOOLEAN /\ total \in Nat
  /\ wpc \in [Workers -> {"none", "write", "lock", "dec", "signal", "exited"}]
  /\ mpc \in {"create", "lock", "test", "wait", "relock", "unlock", "sum",
              "done"}

(* free(threads) runs only after every worker has read tdata->num: no      *)
(* detached worker reads the freed thread_data.                            *)
NoUseAfterFree == freed => \A i \in Workers : wpc[i] \notin {"none", "write"}

(* The "Final Total" main prints equals the "Check" sum: every worker's    *)
(* result is written before main adds them up.                             *)
TotalMatchesCheck == AllDone => total = Check

=============================================================================
