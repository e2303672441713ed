------------------------------ MODULE LockOrder ------------------------------
(***************************************************************************)
(* The two-mutex program of shackleford/src/sync/mutex/02-deadlock.c.      *)
(*                                                                         *)
(* main creates NUM_THREADS type_a and NUM_THREADS type_b threads and      *)
(* joins them.  Each thread locks two mutexes one after the other, updates *)
(* bar and foo, and unlocks mtx_bar and then mtx_foo.  The order in which  *)
(* a thread type locks the two mutexes is OrderA or OrderB.                *)
(***************************************************************************)
EXTENDS Integers, FiniteSets

CONSTANTS
  TypeA,      \* the type_a threads
  TypeB,      \* the type_b threads
  NoThread    \* a mutex is unlocked

ASSUME TypeA \cap TypeB = {} /\ NoThread \notin TypeA \cup TypeB

Threads == TypeA \cup TypeB

VARIABLES
  foo, bar,   \* the shared ints
  holder,     \* holder[m]: the thread holding mtx_foo ("foo") or mtx_bar ("bar")
  pc          \* program counter of each thread

vars == <<foo, bar, holder, pc>>

\* Mutant: type_a locks mtx_bar first, against the agreed protocol.
OrderASwapped == <<"bar", "foo">>

\* type_a: pthread_mutex_lock(&mtx_foo); pthread_mutex_lock(&mtx_bar).
OrderA == <<"foo", "bar">>

\* type_b: pthread_mutex_lock(&mtx_foo); pthread_mutex_lock(&mtx_bar).
OrderB == <<"foo", "bar">>

Order(t) == IF t \in TypeA THEN OrderA ELSE OrderB

\* main: foo = 10; bar = 20; the pthread_create loop.
Init ==
  /\ foo = 10 /\ bar = 20
  /\ holder = [m \in {"foo", "bar"} |-> NoThread]
  /\ pc = [t \in Threads |-> "lock1"]

\* The first pthread_mutex_lock: it blocks while the mutex is held.
LockFirst(t) ==
  /\ pc[t] = "lock1"
  /\ holder[Order(t)[1]] = NoThread
  /\ holder' = [holder EXCEPT ![Order(t)[1]] = t]
  /\ pc' = [pc EXCEPT ![t] = "lock2"]
  /\ UNCHANGED <<foo, bar>>

\* The second pthread_mutex_lock.
LockSecond(t) ==
  /\ pc[t] = "lock2"
  /\ holder[Order(t)[2]] = NoThread
  /\ holder' = [holder EXCEPT ![Order(t)[2]] = t]
  /\ pc' = [pc EXCEPT ![t] = "update"]
  /\ UNCHANGED <<foo, bar>>

\* bar++; foo += bar; pthread_mutex_unlock(&mtx_bar).
Update(t) ==
  /\ pc[t] = "update"
  /\ bar' = bar + 1
  /\ foo' = foo + bar + 1
  /\ holder' = [holder EXCEPT !["bar"] = NoThread]
  /\ pc' = [pc EXCEPT ![t] = "unlock"]

\* pthread_mutex_unlock(&mtx_foo); return NULL.
UnlockFoo(t) ==
  /\ pc[t] = "unlock"
  /\ holder' = [holder EXCEPT !["foo"] = NoThread]
  /\ pc' = [pc EXCEPT ![t] = "exited"]
  /\ UNCHANGED <<foo, bar>>

Thread(t) == LockFirst(t) \/ LockSecond(t) \/ Update(t) \/ UnlockFoo(t)

Next == \E t \in Threads : Thread(t)

(* Every runnable thread is eventually scheduled; a thread blocked in      *)
(* pthread_mutex_lock is runnable once the mutex is free.                  *)
Fairness == \A t \in Threads : WF_vars(Thread(t))

Spec == Init /\ [][Next]_vars /\ Fairness

\* The pthread_join loop returns once every thread has exited.
Joined == \A t \in Threads : pc[t] = "exited"

-----------------------------------------------------------------------------
TypeOK ==
  /\ foo \in Nat /\ bar \in Nat
  /\ holder \in [{"foo", "bar"} -> Threads \cup {NoThread}]
  /\ pc \in [Threads -> {"lock1", "lock2", "update", "unlock", "exited"}]

(* main's joins all return: however the type_a and type_b threads          *)
(* interleave, no thread holds one mutex while waiting for the other held  *)
(* by a thread that waits for the first.                                   *)
Termination == <>Joined

=============================================================================
