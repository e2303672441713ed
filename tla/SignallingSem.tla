---------------------------- MODULE SignallingSem ----------------------------
(***************************************************************************)
(* Signalling a change of a predicate with a mutex and a semaphore, in the *)
(* two versions of the repository:                                         *)
(*                                                                         *)
(*  - src/code_examples/thr/signalling_using_semaphores.c: main tests      *)
(*    shared_data.value once with an if; when it is 0 it unlocks and       *)
(*    sem_waits, and in every case it then locks the mutex again;          *)
(*  - src/code_examples/shackleford/src/sync/sem/01-signaling_semaphore.c: *)
(*    main tests sig.active in a while loop, unlocking around sem_wait.    *)
(*                                                                         *)
(* The signalling thread is the same in both: lock, set the predicate to 1,*)
(* unlock, sem_post.  The mutex is the default (non-recursive) kind:       *)
(* pthread_mutex_lock by its holder never returns, so the lock step is     *)
(* enabled only when the mutex is free.                                    *)
(***************************************************************************)
EXTENDS Naturals

CONSTANTS Main, Signaller, NoThread

ASSUME Main # Signaller /\ NoThread \notin {Main, Signaller}

VARIABLES
  value,     \* shared_data.value / sig.active
  sem,       \* the semaphore, initialised to 0
  mutex,     \* holder of the mutex, or NoThread
  mpc,       \* program counter of main
  spc,       \* program counter of the signalling thread
  seen       \* history: {the value main found when it reported}

vars == <<value, sem, mutex, mpc, spc, seen>>

\* main: the predicate = 0; sem_init(.., 0); pthread_mutex_init; pthread_create.
Init ==
  /\ value = 0
  /\ sem = 0
  /\ mutex = NoThread
  /\ mpc = "lock"
  /\ spc = "lock"
  /\ seen = {}

-----------------------------------------------------------------------------
(* The signalling thread (my_thread / thread).                             *)

\* pthread_mutex_lock(&mutex), after the sleep.
SLock ==
  /\ spc = "lock"
  /\ mutex = NoThread
  /\ mutex' = Signaller
  /\ spc' = "set"
  /\ UNCHANGED <<value, sem, mpc, seen>>

\* Mutant: the assignment of the predicate is missing.
SSetForgets ==
  /\ spc = "set"
  /\ mutex' = NoThread
  /\ spc' = "post"
  /\ UNCHANGED <<value, sem, mpc, seen>>

\* value = 1; pthread_mutex_unlock(&mutex).
SSet ==
  /\ spc = "set"
  /\ value' = 1
  /\ mutex' = NoThread
  /\ spc' = "post"
  /\ UNCHANGED <<sem, mpc, seen>>

\* Mutant: the semaphore is posted twice.
SPostTwice ==
  /\ spc = "post"
  /\ sem' = sem + 2
  /\ spc' = "exited"
  /\ UNCHANGED <<value, mutex, mpc, seen>>

\* sem_post(&semaphore); pthread_exit.
SPost ==
  /\ spc = "post"
  /\ sem' = sem + 1
  /\ spc' = "exited"
  /\ UNCHANGED <<value, mutex, mpc, seen>>

-----------------------------------------------------------------------------
(* main, common to both versions.                                          *)

\* pthread_mutex_lock(&mutex) before the test of the predicate.
MLock ==
  /\ mpc = "lock"
  /\ mutex = NoThread
  /\ mutex' = Main
  /\ mpc' = "test"
  /\ UNCHANGED <<value, sem, spc, seen>>

\* sem_wait(&semaphore).
MWait ==
  /\ mpc = "wait"
  /\ sem > 0
  /\ sem' = sem - 1
  /\ mpc' = "relock"
  /\ UNCHANGED <<value, mutex, spc, seen>>

(* The report: "Value of data = 1" / "we are active!" when the predicate   *)
(* is set; then pthread_mutex_unlock.                                       *)
MReport ==
  /\ mpc = "report"
  /\ seen' = {value}
  /\ mutex' = NoThread
  /\ mpc' = "join"
  /\ UNCHANGED <<value, sem, spc>>

\* pthread_join(tid); main returns.
MJoin ==
  /\ mpc = "join"
  /\ spc = "exited"
  /\ mpc' = "exited"
  /\ UNCHANGED <<value, sem, mutex, spc, seen>>

-----------------------------------------------------------------------------
(* main of signalling_using_semaphores.c: one if.                          *)

(* if (value == 0) { unlock; sem_wait }.  When value is already 1 main     *)
(* goes on to the second pthread_mutex_lock still holding the mutex.       *)
MIfTest ==
  /\ mpc = "test"
  /\ IF value = 0
       THEN /\ mutex' = NoThread
            /\ mpc' = "wait"
       ELSE /\ mpc' = "relock"
            /\ UNCHANGED mutex
  /\ UNCHANGED <<value, sem, spc, seen>>

\* The second pthread_mutex_lock(&mutex), before if (value != 0).
MRelock ==
  /\ mpc = "relock"
  /\ mutex = NoThread
  /\ mutex' = Main
  /\ mpc' = "report"
  /\ UNCHANGED <<value, sem, spc, seen>>

-----------------------------------------------------------------------------
(* main of 01-signaling_semaphore.c: a while loop.                         *)

\* while (!sig.active) { pthread_mutex_unlock; sem_wait; ... }
MWhileTest ==
  /\ mpc = "test"
  /\ IF value = 0
       THEN /\ mutex' = NoThread
            /\ mpc' = "wait"
       ELSE /\ mpc' = "report"
            /\ UNCHANGED mutex
  /\ UNCHANGED <<value, sem, spc, seen>>

\* pthread_mutex_lock at the end of the loop body; the loop test again.
MLoopRelock ==
  /\ mpc = "relock"
  /\ mutex = NoThread
  /\ mutex' = Main
  /\ mpc' = "test"
  /\ UNCHANGED <<value, sem, spc, seen>>

-----------------------------------------------------------------------------
Signaller_ == SLock \/ SSet \/ SPost

MainIf == MLock \/ MIfTest \/ MWait \/ MRelock \/ MReport \/ MJoin

MainWhile == MLock \/ MWhileTest \/ MWait \/ MLoopRelock \/ MReport \/ MJoin

NextIf == Signaller_ \/ MainIf

NextWhile == Signaller_ \/ MainWhile

(* Both threads are eventually scheduled when runnable.                     *)
SpecIf ==
  Init /\ [][NextIf]_vars /\ WF_vars(Signaller_) /\ WF_vars(MainIf)

SpecWhile ==
  Init /\ [][NextWhile]_vars /\ WF_vars(Signaller_) /\ WF_vars(MainWhile)

-----------------------------------------------------------------------------
TypeOK ==
  /\ value \in {0, 1}
  /\ sem \in {0, 1}
  /\ mutex \in {Main, Signaller, NoThread}
  /\ mpc \in {"lock", "test", "wait", "relock", "report", "join", "exited"}
  /\ spc \in {"lock", "set", "post", "exited"}
  /\ seen \subseteq {0, 1}

(* When main reports, the predicate has been set: main's sem_wait returns  *)
(* only after the thread's post, and the thread posts only after setting  *)
(* the value, so even the single if test never lets main report 0.         *)
MainSeesValue == mpc \in {"join", "exited"} => seen = {1}

(* main gets past its wait and joins the thread: the post is never lost,   *)
(* whether it comes before or after main's sem_wait, and main never blocks *)
(* on a mutex it holds.                                                    *)
Termination == <>(mpc = "exited")

=============================================================================
