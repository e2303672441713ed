----------------------------- MODULE SignallingCV -----------------------------
(***************************************************************************)
(* Signalling a change of data.value with a mutex and a condition          *)
(* variable, as in src/code_examples/thr/                                  *)
(*  - signalling_using_condition_variables_v2.c: Waiters threads run       *)
(*    waiting_thread; signalling_thread sets the value and broadcasts;     *)
(*  - signalling_using_condition_variables_v1.c: main is the only waiter   *)
(*    and my_thread uses pthread_cond_signal;                              *)
(* and src/code_examples/shackleford/src/sync/mutex/03-simple_cv.c: each   *)
(*    wait_thread re-tests sig.active in a while loop and, once through,   *)
(*    passes the single pthread_cond_signal of signal_thread on to the     *)
(*    next waiter.                                                         *)
(*                                                                         *)
(* A waiter locks the mutex and tests the predicate once:                  *)
(*     if (data.value == 0) pthread_cond_wait(...);                        *)
(* then reports the value if it is not 0 and unlocks.  A thread in         *)
(* pthread_cond_wait has pc "wait"; a signal or broadcast moves it to      *)
(* "relock", where it reacquires the mutex.  WSpurious(w) is a return of   *)
(* pthread_cond_wait without a signal, which POSIX allows.                 *)
(***************************************************************************)
EXTENDS Naturals

CONSTANTS
  Waiters,     \* the waiting threads (v1: main alone)
  Signaller,   \* the signalling thread
  NoThread     \* the mutex is unlocked

ASSUME Signaller \notin Waiters /\ NoThread \notin Waiters \cup {Signaller}

VARIABLES
  value,     \* data.value
  mutex,     \* holder of data.mutex, or NoThread
  wpc,       \* program counter of each waiter
  spc,       \* program counter of the signalling thread
  seen       \* history: seen[w] is {the value w found when it reported}

vars == <<value, mutex, wpc, spc, seen>>

\* MY_STRUCT data = {PTHREAD_MUTEX_INITIALIZER, PTHREAD_COND_INITIALIZER, 0}.
Init ==
  /\ value = 0
  /\ mutex = NoThread
  /\ wpc = [w \in Waiters |-> "lock"]
  /\ spc = "lock"
  /\ seen = [w \in Waiters |-> {}]

\* The waiters blocked in pthread_cond_wait are moved to "relock".
Woken(W) == [w \in Waiters |-> IF w \in W THEN "relock" ELSE wpc[w]]

InWait == {w \in Waiters : wpc[w] = "wait"}

-----------------------------------------------------------------------------
(* A waiter.                                                               *)

\* pthread_mutex_lock(&data.mutex).
WLock(w) ==
  /\ wpc[w] = "lock"
  /\ mutex = NoThread
  /\ mutex' = w
  /\ wpc' = [wpc EXCEPT ![w] = "test"]
  /\ UNCHANGED <<value, spc, seen>>

\* Mutant: the predicate test is inverted (value != 0).
WTestInverted(w) ==
  /\ wpc[w] = "test"
  /\ IF value # 0
       THEN /\ mutex' = NoThread
            /\ wpc' = [wpc EXCEPT ![w] = "wait"]
       ELSE /\ wpc' = [wpc EXCEPT ![w] = "report"]
            /\ UNCHANGED mutex
  /\ UNCHANGED <<value, spc, seen>>

(* if (data.value == 0) pthread_cond_wait: releases the mutex and blocks.  *)
WTest(w) ==
  /\ wpc[w] = "test"
  /\ IF value = 0
       THEN /\ mutex' = NoThread
            /\ wpc' = [wpc EXCEPT ![w] = "wait"]
       ELSE /\ wpc' = [wpc EXCEPT ![w] = "report"]
            /\ UNCHANGED mutex
  /\ UNCHANGED <<value, spc, seen>>

\* pthread_cond_wait returns without a signal.
WSpurious(w) ==
  /\ wpc[w] = "wait"
  /\ wpc' = [wpc EXCEPT ![w] = "relock"]
  /\ UNCHANGED <<value, mutex, spc, seen>>

\* pthread_cond_wait reacquires the mutex and returns.
WRelock(w) ==
  /\ wpc[w] = "relock"
  /\ mutex = NoThread
  /\ mutex' = w
  /\ wpc' = [wpc EXCEPT ![w] = "report"]
  /\ UNCHANGED <<value, spc, seen>>

\* 03-simple_cv.c: the mutex is reacquired and the while loop re-tests.
WLoopRelock(w) ==
  /\ wpc[w] = "relock"
  /\ mutex = NoThread
  /\ mutex' = w
  /\ wpc' = [wpc EXCEPT ![w] = "test"]
  /\ UNCHANGED <<value, spc, seen>>

\* Mutant: the waiter leaves without passing the signal on.
WChainReportNoSignal(w) ==
  /\ wpc[w] = "report"
  /\ seen' = [seen EXCEPT ![w] = {value}]
  /\ mutex' = NoThread
  /\ wpc' = [wpc EXCEPT ![w] = "done"]
  /\ UNCHANGED <<value, spc>>

(* 03-simple_cv.c: "I like the predicate!"; pthread_cond_signal wakes one  *)
(* waiter, if any waits; pthread_mutex_unlock.                             *)
WChainReport(w) ==
  /\ wpc[w] = "report"
  /\ seen' = [seen EXCEPT ![w] = {value}]
  /\ mutex' = NoThread
  /\ \/ \E u \in InWait : wpc' = [Woken({u}) EXCEPT ![w] = "done"]
     \/ InWait = {} /\ wpc' = [wpc EXCEPT ![w] = "done"]
  /\ UNCHANGED <<value, spc>>

\* if (data.value != 0) print it; pthread_mutex_unlock(&data.mutex).
WReport(w) ==
  /\ wpc[w] = "report"
  /\ seen' = [seen EXCEPT ![w] = {value}]
  /\ mutex' = NoThread
  /\ wpc' = [wpc EXCEPT ![w] = "done"]
  /\ UNCHANGED <<value, spc>>

-----------------------------------------------------------------------------
(* The signalling thread.                                                  *)

\* sleep(5); pthread_mutex_lock(&data.mutex).
SLock ==
  /\ spc = "lock"
  /\ mutex = NoThread
  /\ mutex' = Signaller
  /\ spc' = "set"
  /\ UNCHANGED <<value, wpc, seen>>

\* data.value = 1.
SSet ==
  /\ spc = "set"
  /\ value' = 1
  /\ spc' = "wake"
  /\ UNCHANGED <<mutex, wpc, seen>>

\* v1: pthread_cond_signal wakes one waiter, if any is waiting.
SSignal ==
  /\ spc = "wake"
  /\ \/ \E w \in InWait : wpc' = Woken({w})
     \/ InWait = {} /\ UNCHANGED wpc
  /\ spc' = "unlock"
  /\ UNCHANGED <<value, mutex, seen>>

\* v2: pthread_cond_broadcast wakes every waiter.
SBroadcast ==
  /\ spc = "wake"
  /\ wpc' = Woken(InWait)
  /\ spc' = "unlock"
  /\ UNCHANGED <<value, mutex, seen>>

\* pthread_mutex_unlock(&data.mutex); pthread_exit.
SUnlock ==
  /\ spc = "unlock"
  /\ mutex' = NoThread
  /\ spc' = "exited"
  /\ UNCHANGED <<value, wpc, seen>>

-----------------------------------------------------------------------------
Waiter(w) == WLock(w) \/ WTest(w) \/ WRelock(w) \/ WReport(w)

SignallerV1 == SLock \/ SSet \/ SSignal \/ SUnlock

SignallerV2 == SLock \/ SSet \/ SBroadcast \/ SUnlock

NextV1 == (\E w \in Waiters : Waiter(w)) \/ SignallerV1

NextV2 == (\E w \in Waiters : Waiter(w)) \/ SignallerV2

WaiterChain(w) == WLock(w) \/ WTest(w) \/ WLoopRelock(w) \/ WChainReport(w)

\* signal_thread is my_thread of v1: lock, set, pthread_cond_signal, unlock.
NextChain == (\E w \in Waiters : WaiterChain(w)) \/ SignallerV1

Spurious == \E w \in Waiters : WSpurious(w)

(* Every runnable thread is eventually scheduled; spurious wakeups may     *)
(* happen but need not.                                                    *)
FairnessV1 == (\A w \in Waiters : WF_vars(Waiter(w))) /\ WF_vars(SignallerV1)

FairnessV2 == (\A w \in Waiters : WF_vars(Waiter(w))) /\ WF_vars(SignallerV2)

FairnessChain ==
  (\A w \in Waiters : WF_vars(WaiterChain(w))) /\ WF_vars(SignallerV1)

-----------------------------------------------------------------------------
(* Every waiter that gets past its test reports the value the signalling   *)
(* thread set: "Condition signalled ... The value of data = 1".  The       *)
(* single if relies on every return from pthread_cond_wait following the   *)
(* assignment of data.value.                                               *)
WaiterSeesValue == \A w \in Waiters : wpc[w] = "done" => seen[w] = {1}

\* Every waiter finishes and the signalling thread exits.
AllDone == (\A w \in Waiters : wpc[w] = "done") /\ spc = "exited"

=============================================================================
