------------------------------- MODULE MCMutex -------------------------------
(***************************************************************************)
(* The mutex programs, each checked on its own: a behaviour runs the       *)
(* program prog names.                                                     *)
(*   "dot"       -- thr/vector_dot_product_v2.c,                           *)
(*   "mutex"     -- shackleford/src/sync/mutex/01-threads_mutex.c,         *)
(*   "nomutex"   -- shackleford/src/sync/mutex/01-threads_nomutex.c,       *)
(*   "add"       -- threads/thread synchronization/pthread_add.c (the race *)
(*                  and the atomic threads run side by side),              *)
(*   "lockorder" -- shackleford/src/sync/mutex/02-deadlock.c,              *)
(*   "countdown" -- shackleford/src/sync/mutex/homework/solution.c,        *)
(*   "deferred", "async", "cleanup" -- shackleford/src/threads/            *)
(*                  3-cancel_deferred.c, 4-cancel-async.c and              *)
(*                  5-cancel_cleanup.c, and "v1" -- thr/                   *)
(*                  deferred_cancellation_v1.c, which share one set of     *)
(*                  variables,                                             *)
(*   "pccv", "pcspin" -- shackleford/src/sync/mutex/05-pc_cv.c and         *)
(*                  04-pc_bad.c, which share one set of variables,         *)
(*   "simple", "nested", "clone", "multiple" -- the thread-creation        *)
(*                  programs of ThreadCreate (1-simple.c, simple_thread.c, *)
(*                  custom_thread.c and multiple_threads.c with up to two  *)
(*                  workers), which share one set of variables.            *)
(* "mutex", "nomutex" and the race half of "add" share the counter         *)
(* variables; fairness is asserted only of the program that runs.          *)
(***************************************************************************)
EXTENDS Integers

CONSTANTS MaxElements, MaxThreads, Ops, NumWorkers,
          main, worker, a1, a2, b1, b2, Main, NoThread, p1, p2, p3

VARIABLES d_n, d_t, d_sum, d_mutex, d_partial, d_loaded, d_pc, d_mpc,
          c_val, c_mutex, c_loaded, c_i, c_pc,
          a_val, a_mutex, a_loaded, a_i, a_pc,
          l_foo, l_bar, l_holder, l_pc,
          k_still, k_mutex, k_result, k_freed, k_total, k_wpc, k_mpc,
          x_cstate, x_ctype, x_pending, x_stack, x_heap, x_tpc, x_mpc,
          p_pipe, p_avail, p_producers, p_mtx, p_ppc, p_cpc, p_finished,
          p_consumed,
          t_n, t_val, t_k, t_i, t_mem, t_stale, t_printed, t_tpc, t_mpc,
          prog

dvars == <<d_n, d_t, d_sum, d_mutex, d_partial, d_loaded, d_pc, d_mpc>>
cvars == <<c_val, c_mutex, c_loaded, c_i, c_pc>>
avars == <<a_val, a_mutex, a_loaded, a_i, a_pc>>
lvars == <<l_foo, l_bar, l_holder, l_pc>>
kvars == <<k_still, k_mutex, k_result, k_freed, k_total, k_wpc, k_mpc>>
xvars == <<x_cstate, x_ctype, x_pending, x_stack, x_heap, x_tpc, x_mpc>>
pvars == <<p_pipe, p_avail, p_producers, p_mtx, p_ppc, p_cpc, p_finished,
           p_consumed>>
tvars == <<t_n, t_val, t_k, t_i, t_mem, t_stale, t_printed, t_tpc, t_mpc>>
vars == <<dvars, cvars, avars, lvars, kvars, xvars, pvars, tvars, prog>>

Two == {main, worker}

D == INSTANCE VectorDot
       WITH n <- d_n, t <- d_t, sum <- d_sum, mutex <- d_mutex,
            partial <- d_partial, loaded <- d_loaded, pc <- d_pc, mpc <- d_mpc
\* 01-threads_mutex.c: main increments, the worker decrements, val = 10.
M == INSTANCE SharedCounter
       WITH Threads <- Two, Mode <- [u \in Two |-> "mutex"],
            Delta <- [u \in Two |-> IF u = main THEN 1 ELSE -1], V0 <- 10,
            val <- c_val, mutex <- c_mutex, loaded <- c_loaded, i <- c_i,
            pc <- c_pc
U == INSTANCE SharedCounter
       WITH Threads <- Two, Mode <- [u \in Two |-> "plain"],
            Delta <- [u \in Two |-> IF u = main THEN 1 ELSE -1], V0 <- 10,
            val <- c_val, mutex <- c_mutex, loaded <- c_loaded, i <- c_i,
            pc <- c_pc
\* pthread_add.c with num_threads = 2: race_val and atomic_val start at 0.
R == INSTANCE SharedCounter
       WITH Threads <- Two, Mode <- [u \in Two |-> "plain"],
            Delta <- [u \in Two |-> 1], V0 <- 0,
            val <- c_val, mutex <- c_mutex, loaded <- c_loaded, i <- c_i,
            pc <- c_pc
A == INSTANCE SharedCounter
       WITH Threads <- Two, Mode <- [u \in Two |-> "atomic"],
            Delta <- [u \in Two |-> 1], V0 <- 0,
            val <- a_val, mutex <- a_mutex, loaded <- a_loaded, i <- a_i,
            pc <- a_pc
L == INSTANCE LockOrder
       WITH TypeA <- {a1, a2}, TypeB <- {b1, b2},
            foo <- l_foo, bar <- l_bar, holder <- l_holder, pc <- l_pc
K == INSTANCE Countdown
       WITH still_working <- k_still, mutex <- k_mutex, result <- k_result,
            freed <- k_freed, total <- k_total, wpc <- k_wpc, mpc <- k_mpc
XD == INSTANCE Cancellation
        WITH Prog <- "deferred", cstate <- x_cstate, ctype <- x_ctype,
             pending <- x_pending, stack <- x_stack, heap <- x_heap,
             tpc <- x_tpc, mpc <- x_mpc
XA == INSTANCE Cancellation
        WITH Prog <- "async", cstate <- x_cstate, ctype <- x_ctype,
             pending <- x_pending, stack <- x_stack, heap <- x_heap,
             tpc <- x_tpc, mpc <- x_mpc
XV == INSTANCE Cancellation
        WITH Prog <- "v1", cstate <- x_cstate, ctype <- x_ctype,
             pending <- x_pending, stack <- x_stack, heap <- x_heap,
             tpc <- x_tpc, mpc <- x_mpc
XC == INSTANCE Cancellation
        WITH Prog <- "cleanup", cstate <- x_cstate, ctype <- x_ctype,
             pending <- x_pending, stack <- x_stack, heap <- x_heap,
             tpc <- x_tpc, mpc <- x_mpc
\* 05-pc_cv.c: the pipe holds every work unit of the three producers.
PC == INSTANCE ProducerConsumerCV
        WITH Producers <- {p1, p2, p3}, Consumer <- Main, PipeCap <- 3,
             pipe <- p_pipe, avail <- p_avail, producers <- p_producers,
             mtx <- p_mtx, ppc <- p_ppc, cpc <- p_cpc, finished <- p_finished,
             consumed <- p_consumed
\* 04-pc_bad.c: the pipe holds two, so that a failed write is explored.
PS == INSTANCE PCSpin
        WITH Producers <- {p1, p2, p3}, Consumer <- Main, PipeCap <- 2,
             pipe <- p_pipe, avail <- p_avail, producers <- p_producers,
             mtx <- p_mtx, ppc <- p_ppc, cpc <- p_cpc, finished <- p_finished,
             consumed <- p_consumed

TS == INSTANCE ThreadCreate
        WITH Prog <- "simple", MaxThreads <- 2, Incs <- 5, n <- t_n, val <- t_val,
             k <- t_k, i <- t_i, mem <- t_mem, stale <- t_stale,
             printed <- t_printed, tpc <- t_tpc, mpc <- t_mpc
TN == INSTANCE ThreadCreate
        WITH Prog <- "nested", MaxThreads <- 2, Incs <- 5, n <- t_n, val <- t_val,
             k <- t_k, i <- t_i, mem <- t_mem, stale <- t_stale,
             printed <- t_printed, tpc <- t_tpc, mpc <- t_mpc
TK == INSTANCE ThreadCreate
        WITH Prog <- "clone", MaxThreads <- 2, Incs <- 5, n <- t_n, val <- t_val,
             k <- t_k, i <- t_i, mem <- t_mem, stale <- t_stale,
             printed <- t_printed, tpc <- t_tpc, mpc <- t_mpc
TM == INSTANCE ThreadCreate
        WITH Prog <- "multiple", MaxThreads <- 2, Incs <- 5, n <- t_n, val <- t_val,
             k <- t_k, i <- t_i, mem <- t_mem, stale <- t_stale,
             printed <- t_printed, tpc <- t_tpc, mpc <- t_mpc

Cancelling == {"deferred", "async", "cleanup", "v1"}

Creating == {"simple", "nested", "clone", "multiple"}

Init ==
  /\ prog \in {"dot", "mutex", "nomutex", "add", "lockorder", "countdown"}
                \cup Cancelling \cup {"pccv", "pcspin"} \cup Creating
  /\ D!Init /\ A!Init /\ L!Init /\ K!Init /\ XC!Init /\ PC!Init
  /\ IF prog = "add" THEN R!Init ELSE M!Init
  /\ IF prog = "multiple" THEN TM!Init ELSE TS!Init

Step ==
  \/ prog = "dot" /\ D!Next /\ UNCHANGED <<cvars, avars, lvars, kvars, xvars, pvars>>
  \/ prog = "mutex" /\ M!Next /\ UNCHANGED <<dvars, avars, lvars, kvars, xvars, pvars>>
  \/ prog = "nomutex" /\ U!Next /\ UNCHANGED <<dvars, avars, lvars, kvars, xvars, pvars>>
  \/ prog = "add" /\ R!Next /\ UNCHANGED <<dvars, avars, lvars, kvars, xvars, pvars>>
  \/ prog = "add" /\ A!Next /\ UNCHANGED <<dvars, cvars, lvars, kvars, xvars, pvars>>
  \/ prog = "lockorder" /\ L!Next /\ UNCHANGED <<dvars, cvars, avars, kvars, xvars, pvars>>
  \/ prog = "countdown" /\ K!Next /\ UNCHANGED <<dvars, cvars, avars, lvars, xvars, pvars>>

CancelStep ==
  \/ prog = "deferred" /\ XD!Next
  \/ prog = "async" /\ XA!Next
  \/ prog = "cleanup" /\ XC!Next
  \/ prog = "v1" /\ XV!Next

CreateStep ==
  \/ prog = "simple" /\ TS!Next
  \/ prog = "nested" /\ TN!Next
  \/ prog = "clone" /\ TK!Next
  \/ prog = "multiple" /\ TM!Next

Next ==
  \/ Step /\ UNCHANGED <<tvars, prog>>
  \/ CancelStep /\ UNCHANGED <<dvars, cvars, avars, lvars, kvars, pvars, tvars, prog>>
  \/ \/ prog = "pccv" /\ PC!Next
     \/ prog = "pcspin" /\ PS!Next
     /\ UNCHANGED <<dvars, cvars, avars, lvars, kvars, xvars, tvars, prog>>
  \/ CreateStep /\ UNCHANGED <<dvars, cvars, avars, lvars, kvars, xvars, pvars, prog>>

Fairness ==
  /\ WF_dvars(prog = "dot" /\ D!Main)
  /\ \A k \in D!Threads : WF_dvars(prog = "dot" /\ D!Thread(k))
  /\ \A u \in Two : WF_cvars(prog = "mutex" /\ M!Thread(u))
  /\ \A u \in Two : WF_cvars(prog = "nomutex" /\ U!Thread(u))
  /\ \A u \in Two : WF_cvars(prog = "add" /\ R!Thread(u))
  /\ \A u \in Two : WF_avars(prog = "add" /\ A!Thread(u))
  /\ \A u \in {a1, a2, b1, b2} : WF_lvars(prog = "lockorder" /\ L!Thread(u))
  /\ WF_kvars(prog = "countdown" /\ K!MainStep)
  /\ \A i \in K!Workers : WF_kvars(prog = "countdown" /\ K!Worker(i))
  /\ WF_xvars(prog = "deferred" /\ XD!Thread) /\ WF_xvars(prog = "deferred" /\ XD!Main)
  /\ WF_xvars(prog = "async" /\ XA!Thread) /\ WF_xvars(prog = "async" /\ XA!Main)
  /\ WF_xvars(prog = "cleanup" /\ XC!Thread) /\ WF_xvars(prog = "cleanup" /\ XC!Main)
  /\ WF_xvars(prog = "v1" /\ XV!Thread) /\ WF_xvars(prog = "v1" /\ XV!Main)
  /\ \A p \in {p1, p2, p3} : WF_pvars(prog = "pccv" /\ PC!Producer(p))
  /\ WF_pvars(prog = "pccv" /\ PC!ConsumerStep)
  /\ \A p \in {p1, p2, p3} : WF_pvars(prog = "pcspin" /\ PS!Producer(p))
  /\ WF_pvars(prog = "pcspin" /\ PS!ConsumerStep)
  /\ WF_tvars(prog = "simple" /\ TS!Main) /\ WF_tvars(prog = "nested" /\ TN!Main)
  /\ WF_tvars(prog = "clone" /\ TK!Main) /\ WF_tvars(prog = "multiple" /\ TM!Main)
  /\ \A t \in TS!Threads :
       /\ WF_tvars(prog = "simple" /\ TS!Thread(t))
       /\ WF_tvars(prog = "nested" /\ TN!Thread(t))
       /\ WF_tvars(prog = "clone" /\ TK!Thread(t))
       /\ WF_tvars(prog = "multiple" /\ TM!Thread(t))

Spec == Init /\ [][Next]_vars /\ Fairness

-----------------------------------------------------------------------------
TypeOK == D!TypeOK /\ M!TypeOK /\ A!TypeOK /\ L!TypeOK /\ K!TypeOK
          /\ XC!TypeOK /\ PC!TypeOK

(* vector_dot_product_v2.c: the pthread sum equals compute_gold's, each   *)
(* index added once, for every size and thread count up to the bounds;    *)
(* simple_thread.c and custom_thread.c: main prints the value the other    *)
(* thread computed, a = 15 and val = 11.                                   *)
ResultMatchesReference ==
  /\ D!ResultMatchesReference
  /\ prog = "nested" => TN!PrintsFinalValue
  /\ prog = "clone" => TK!PrintsFinalValue

(* The shared-counter programs.  01-threads_mutex.c: once the worker is    *)
(* joined main prints val = 10: with mtx_val held around each val++ and    *)
(* val-- no update is lost.  01-threads_nomutex.c: the racing val++ and    *)
(* val-- lose updates but never make one twice: val stays between          *)
(* 10 - OPS and 10 + OPS.  pthread_add.c: when both halves are joined      *)
(* atomic_val is exactly 2 * 10000 (here 2 * Ops), while race_val may lose *)
(* updates but is at least 2: a thread's last store always counts the     *)
(* other thread's finished work or its own.                                *)
CounterResults ==
  /\ prog = "mutex" /\ M!Joined => c_val = M!Expected
  /\ prog = "nomutex" => c_val \in U!Reachable
  /\ prog = "add" /\ R!Joined /\ A!Joined =>
       /\ a_val = A!Expected
       /\ c_val \in 2..R!Expected

(* 02-deadlock.c: every type_a and type_b thread finishes and main's joins *)
(* return; solution.c: main leaves its wait once every worker has          *)
(* decremented and signalled, unless spurious wakeups go on forever; the   *)
(* thread-creation programs: every join and wait returns and the process   *)
(* ends.                                                                   *)
Termination ==
  /\ prog = "lockorder" => <>L!Joined
  /\ prog = "countdown" => ([]<><<K!Spurious>>_kvars \/ <>K!AllDone)
  /\ prog \in Creating => TS!Termination

(* solution.c: main frees threads only after every detached worker has     *)
(* read its thread_data; the thread-creation programs: no thread reads its *)
(* arguments from a stack frame, clone stack or struct that is gone.       *)
NoUseAfterFree == K!NoUseAfterFree /\ TS!NoUseAfterFree

(* solution.c: "Final Total" equals "Check".                               *)
TotalMatchesCheck == K!TotalMatchesCheck

(* 05-pc_cv.c and 04-pc_bad.c: when main leaves its loop the sum holds    *)
(* every producer's work unit exactly once, in 04-pc_bad.c although one    *)
(* write found the pipe full.                                              *)
SumComplete ==
  /\ prog = "pccv" => PC!SumComplete
  /\ prog = "pcspin" => PS!SumComplete

(* 05-pc_cv.c: main eventually prints the sums, unless pthread_cond_wait   *)
(* returns spuriously forever.                                             *)
CVTermination == prog = "pccv" => PC!Termination

(* The cancellation programs: main's join returns with PTHREAD_CANCELED,   *)
(* unless a failed malloc ended the process.                               *)
CancelTermination == prog \in Cancelling => XC!CancelTermination

(* 5-cancel_cleanup.c: the handlers free the rows before matrix and leave  *)
(* nothing allocated.                                                      *)
CleanupReleases == prog = "cleanup" => XC!CleanupReleases

(* 4-cancel-async.c: the asynchronous cancellation acts only in while(1).  *)
AsyncCancelSafe == [][prog = "async" => (XA!ActOnCancel /\ x_ctype = "async" => x_tpc = "spin")]_vars

=============================================================================
