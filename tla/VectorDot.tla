------------------------------ MODULE VectorDot ------------------------------
(***************************************************************************)
(* The dot product of src/code_examples/thr/vector_dot_product_v2.c.       *)
(*                                                                         *)
(* main computes the reference with compute_gold, then                     *)
(* compute_using_pthreads splits the index range into num_threads chunks   *)
(* of floor(num_elements / num_threads) elements, the last thread taking   *)
(* the remainder; each dot_product thread computes its partial sum in a    *)
(* local variable and adds it to the shared sum under mutex_for_sum.       *)
(*                                                                         *)
(* The vectors are random floats in the code; here the product of          *)
(* element i is Product(i), chosen so that a sum of products tells how     *)
(* many times each index was added (every index is added at most          *)
(* MaxThreads times, and Product(i) = (MaxThreads + 1)^i).  The            *)
(* floating-point rounding of the sums is not modelled: the check is that  *)
(* the threads add up exactly the products compute_gold adds up.  The      *)
(* read-modify-write *(sum) += partial_sum is a load and a store.          *)
(***************************************************************************)
EXTENDS Integers, FiniteSetsExt

CONSTANTS
  MaxElements,   \* the largest num_elements (argv[1]) checked
  MaxThreads,    \* the largest num_threads (argv[2]) checked
  NoThread       \* mutex_for_sum is unlocked

Threads == 0..MaxThreads - 1

ASSUME NoThread \notin Threads

VARIABLES
  n,          \* num_elements
  t,          \* num_threads
  sum,        \* compute_using_pthreads' sum
  mutex,      \* holder of mutex_for_sum
  partial,    \* each thread's partial_sum
  loaded,     \* the value of *(sum) a thread has loaded
  pc,         \* program counter of each thread
  mpc         \* program counter of main

vars == <<n, t, sum, mutex, partial, loaded, pc, mpc>>

Product(i) == (MaxThreads + 1) ^ i

\* compute_gold: for (i = 0; i < num_elements; i++) sum += a[i] * b[i].
RECURSIVE GoldFrom(_, _)
GoldFrom(i, num) == IF i >= num THEN 0 ELSE Product(i) + GoldFrom(i + 1, num)

compute_gold(num) == GoldFrom(0, num)

\* Mutant: the last thread takes a chunk like the others.
ChunkNoRemainder(num, nt, k) ==
  LET chunk == num \div nt
  IN  (k * chunk)..(k * chunk + chunk - 1)

(* The indices dot_product thread k adds: offset = k * chunk_size up to    *)
(* offset + chunk_size, or up to num_elements for the last thread.         *)
Chunk(num, nt, k) ==
  LET chunk == num \div nt
  IN  IF k < nt - 1 THEN (k * chunk)..(k * chunk + chunk - 1)
                    ELSE (k * chunk)..(num - 1)

Init ==
  /\ n \in 1..MaxElements
  /\ t \in 1..MaxThreads
  /\ sum = 0
  /\ mutex = NoThread
  /\ partial = [k \in Threads |-> 0]
  /\ loaded = [k \in Threads |-> 0]
  /\ pc = [k \in Threads |-> "none"]
  /\ mpc = "create"

-----------------------------------------------------------------------------
\* compute_gold, then the args_for_thread set-up and pthread_create loops.
MainCreate ==
  /\ mpc = "create"
  /\ pc' = [k \in Threads |-> IF k < t THEN "compute" ELSE "none"]
  /\ mpc' = "join"
  /\ UNCHANGED <<n, t, sum, mutex, partial, loaded>>

\* The pthread_join loop; return (float) sum.
MainJoin ==
  /\ mpc = "join"
  /\ \A k \in 0..t - 1 : pc[k] = "exited"
  /\ mpc' = "done"
  /\ UNCHANGED <<n, t, sum, mutex, partial, loaded, pc>>

\* dot_product: the partial sum over the thread's chunk.
Compute(k) ==
  /\ pc[k] = "compute"
  /\ partial' = [partial EXCEPT ![k] = MapThenSumSet(Product, Chunk(n, t, k))]
  /\ pc' = [pc EXCEPT ![k] = "lock"]
  /\ UNCHANGED <<n, t, sum, mutex, loaded, mpc>>

\* Mutant: the thread does not wait for mutex_for_sum.
LockIgnored(k) ==
  /\ pc[k] = "lock"
  /\ pc' = [pc EXCEPT ![k] = "load"]
  /\ UNCHANGED <<n, t, sum, mutex, partial, loaded, mpc>>

\* pthread_mutex_lock(args_for_me->mutex_for_sum).
Lock(k) ==
  /\ pc[k] = "lock"
  /\ mutex = NoThread
  /\ mutex' = k
  /\ pc' = [pc EXCEPT ![k] = "load"]
  /\ UNCHANGED <<n, t, sum, partial, loaded, mpc>>

\* *(args_for_me->sum) += partial_sum: the load.
Load(k) ==
  /\ pc[k] = "load"
  /\ loaded' = [loaded EXCEPT ![k] = sum]
  /\ pc' = [pc EXCEPT ![k] = "store"]
  /\ UNCHANGED <<n, t, sum, mutex, partial, mpc>>

\* *(args_for_me->sum) += partial_sum: the store.
Store(k) ==
  /\ pc[k] = "store"
  /\ sum' = loaded[k] + partial[k]
  /\ pc' = [pc EXCEPT ![k] = "unlock"]
  /\ UNCHANGED <<n, t, mutex, partial, loaded, mpc>>

\* pthread_mutex_unlock; pthread_exit.
Unlock(k) ==
  /\ pc[k] = "unlock"
  /\ mutex' = NoThread
  /\ pc' = [pc EXCEPT ![k] = "exited"]
  /\ UNCHANGED <<n, t, sum, partial, loaded, mpc>>

Thread(k) == Compute(k) \/ Lock(k) \/ Load(k) \/ Store(k) \/ Unlock(k)

Main == MainCreate \/ MainJoin

Next == Main \/ \E k \in Threads : Thread(k)

Fairness == WF_vars(Main) /\ \A k \in Threads : WF_vars(Thread(k))

Spec == Init /\ [][Next]_vars /\ Fairness

-----------------------------------------------------------------------------
TypeOK ==
  /\ n \in 1..MaxElements /\ t \in 1..MaxThreads
  /\ sum \in Nat
  /\ mutex \in Threads \cup {NoThread}
  /\ partial \in [Threads -> Nat] /\ loaded \in [Threads -> Nat]
  /\ pc \in [Threads -> {"none", "compute", "lock", "load", "store",
                         "unlock", "exited"}]
  /\ mpc \in {"create", "join", "done"}

(* The "Pthread solution" that compute_using_pthreads returns equals the   *)
(* "Reference solution" of compute_gold: no partial sum is lost to an      *)
(* interleaved update of sum and no element is counted twice or skipped:  *)
(* with Product's weights the sum tells how often each index was added,    *)
(* so the chunks must partition 0..num_elements - 1, also when            *)
(* num_threads does not divide it or exceeds it (chunk_size 0).            *)
ResultMatchesReference == mpc = "done" => sum = compute_gold(n)

=============================================================================
