---------------------------- MODULE SharedCounter ----------------------------
(***************************************************************************)
(* Threads updating one shared int Ops times each, as in                   *)
(*  - shackleford/src/sync/mutex/01-threads_mutex.c: main increments val  *)
(*    and a worker decrements it, each update under mtx_val;               *)
(*  - shackleford/src/sync/mutex/01-threads_nomutex.c: the same updates    *)
(*    without the mutex;                                                   *)
(*  - threads/thread synchronization/pthread_add.c: race_func threads      *)
(*    increment through a plain ++ of *ptr and atomic_func threads through   *)
(*    __sync_fetch_and_add.                                                *)
(*                                                                         *)
(* Mode[t] says how thread t updates the counter: "mutex" (lock, load,     *)
(* store, unlock), "plain" (load, store: the compiled ++ or -- on memory   *)
(* is a separate load and store, so another thread's update may fall in    *)
(* between) or "atomic" (one indivisible read-modify-write).  Delta[t] is  *)
(* +1 for ++ and -1 for --.                                                *)
(***************************************************************************)
EXTENDS Integers, FiniteSetsExt

CONSTANTS
  Threads,     \* the threads updating the counter
  Mode,        \* Mode[t] \in {"mutex", "plain", "atomic"}
  Delta,       \* Delta[t] \in {1, -1}
  Ops,         \* OPS / LOOPS / 10000: updates per thread
  V0,          \* the initial value of the counter
  NoThread     \* the mutex is unlocked

ASSUME /\ Mode \in [Threads -> {"mutex", "plain", "atomic"}]
       /\ Delta \in [Threads -> {1, -1}]
       /\ Ops \in Nat /\ NoThread \notin Threads

VARIABLES
  val,      \* the shared counter
  mutex,    \* holder of mtx_val
  loaded,   \* the value a thread has loaded for its update
  i,        \* each thread's loop index
  pc        \* program counter of each thread

vars == <<val, mutex, loaded, i, pc>>

Init ==
  /\ val = V0
  /\ mutex = NoThread
  /\ loaded = [t \in Threads |-> V0]
  /\ i = [t \in Threads |-> 0]
  /\ pc = [t \in Threads |-> "loop"]

\* Mutant: the loop runs one update too many (i <= OPS).
LoopTestLong(t) ==
  /\ pc[t] = "loop"
  /\ pc' = [pc EXCEPT ![t] =
              IF i[t] <= Ops
                THEN CASE Mode[t] = "mutex" -> "lock"
                       [] Mode[t] = "plain" -> "load"
                       [] Mode[t] = "atomic" -> "add"
                ELSE "exited"]
  /\ UNCHANGED <<val, mutex, loaded, i>>

\* Mutant: the loop runs one update too few (i < OPS - 1).
LoopTestShort(t) ==
  /\ pc[t] = "loop"
  /\ pc' = [pc EXCEPT ![t] =
              IF i[t] < Ops - 1
                THEN CASE Mode[t] = "mutex" -> "lock"
                       [] Mode[t] = "plain" -> "load"
                       [] Mode[t] = "atomic" -> "add"
                ELSE "exited"]
  /\ UNCHANGED <<val, mutex, loaded, i>>

(* for (i = 0; i < OPS; i++): the loop test leads to the first step of     *)
(* the update, or out of the loop.                                         *)
LoopTest(t) ==
  /\ pc[t] = "loop"
  /\ pc' = [pc EXCEPT ![t] =
              IF i[t] < Ops
                THEN CASE Mode[t] = "mutex" -> "lock"
                       [] Mode[t] = "plain" -> "load"
                       [] Mode[t] = "atomic" -> "add"
                ELSE "exited"]
  /\ UNCHANGED <<val, mutex, loaded, i>>

\* Mutant: the update does not wait for mtx_val.
LockIgnored(t) ==
  /\ pc[t] = "lock"
  /\ pc' = [pc EXCEPT ![t] = "load"]
  /\ UNCHANGED <<val, mutex, loaded, i>>

\* pthread_mutex_lock(&mtx_val).
Lock(t) ==
  /\ pc[t] = "lock"
  /\ mutex = NoThread
  /\ mutex' = t
  /\ pc' = [pc EXCEPT ![t] = "load"]
  /\ UNCHANGED <<val, loaded, i>>

\* val++, val-- or the ++ of *ptr: the load.
Load(t) ==
  /\ pc[t] = "load"
  /\ loaded' = [loaded EXCEPT ![t] = val]
  /\ pc' = [pc EXCEPT ![t] = "store"]
  /\ UNCHANGED <<val, mutex, i>>

(* The store of the updated value; without the mutex the iteration ends    *)
(* here.                                                                   *)
Store(t) ==
  /\ pc[t] = "store"
  /\ val' = loaded[t] + Delta[t]
  /\ IF Mode[t] = "mutex"
       THEN pc' = [pc EXCEPT ![t] = "unlock"] /\ UNCHANGED i
       ELSE pc' = [pc EXCEPT ![t] = "loop"] /\ i' = [i EXCEPT ![t] = i[t] + 1]
  /\ UNCHANGED <<mutex, loaded>>

\* pthread_mutex_unlock(&mtx_val); i++.
Unlock(t) ==
  /\ pc[t] = "unlock"
  /\ mutex' = NoThread
  /\ i' = [i EXCEPT ![t] = i[t] + 1]
  /\ pc' = [pc EXCEPT ![t] = "loop"]
  /\ UNCHANGED <<val, loaded>>

\* __sync_fetch_and_add(ptr, 1); i++.
AtomicAdd(t) ==
  /\ pc[t] = "add"
  /\ val' = val + Delta[t]
  /\ i' = [i EXCEPT ![t] = i[t] + 1]
  /\ pc' = [pc EXCEPT ![t] = "loop"]
  /\ UNCHANGED <<mutex, loaded>>

Thread(t) ==
  LoopTest(t) \/ Lock(t) \/ Load(t) \/ Store(t) \/ Unlock(t) \/ AtomicAdd(t)

Next == \E t \in Threads : Thread(t)

Fairness == \A t \in Threads : WF_vars(Thread(t))

Spec == Init /\ [][Next]_vars /\ Fairness

TypeOK ==
  /\ val \in Int /\ mutex \in Threads \cup {NoThread}
  /\ loaded \in [Threads -> Int] /\ i \in [Threads -> 0..Ops]
  /\ pc \in [Threads -> {"loop", "lock", "load", "store", "unlock", "add",
                         "exited"}]

\* Every thread has finished: main's pthread_join calls have returned.
Joined == \A t \in Threads : pc[t] = "exited"

\* The value printed when every update has been made exactly once.
Expected == V0 + Ops * MapThenSumSet(LAMBDA u : Delta[u], Threads)

(* The values the counter can hold when updates are lost but none is made  *)
(* twice: from every decrement and no increment to every increment and no *)
(* decrement.                                                              *)
Reachable ==
  (V0 - Ops * Cardinality({t \in Threads : Delta[t] = -1}))
    ..(V0 + Ops * Cardinality({t \in Threads : Delta[t] = 1}))

=============================================================================
