----------------------------- MODULE SignalThread -----------------------------
(***************************************************************************)
(* A thread dedicated to signals: src/code_examples/thr/                   *)
(* signal_handler_thread.c and src/code_examples/shackleford/src/signals/  *)
(* 7-thread.c, which behave alike.                                         *)
(*                                                                         *)
(* main blocks every signal with sigprocmask(SIG_BLOCK, full set), creates *)
(* signal_handler, which inherits that mask, and spins for ever.           *)
(* signal_handler loops on sigwait over the full set: SIGINT makes it      *)
(* print and exit(0), SIGUSR1, SIGUSR2 and any other signal are reported   *)
(* and the loop goes on.  sigwait fails only for an invalid set, which a   *)
(* filled set is not, so its error branch is not reachable.                *)
(*                                                                         *)
(* The user sends up to MaxSends signals of Signals with kill at any time. *)
(* A signal for the process goes to a thread that does not block it, and   *)
(* its default action (for each of Signals, termination) ends the process; *)
(* when every thread blocks it, it stays pending, and a second one of the  *)
(* same kind while it is pending is merged with it.                        *)
(***************************************************************************)
EXTENDS Naturals

CONSTANTS
  Signals,    \* the signals the user sends; "INT" is SIGINT
  MaxSends    \* how many the user sends

VARIABLES
  mmask,     \* main blocks all signals
  tmask,     \* signal_handler blocks all signals
  pending,   \* the signals pending for the process
  sent,      \* signals sent so far
  mpc,       \* main: "mask", "create", "spin"
  tpc,       \* signal_handler: "none", "wait"
  ended      \* "no", "exit" (exit status 0 or EXIT_FAILURE), "killed"

vars == <<mmask, tmask, pending, sent, mpc, tpc, ended>>

Init ==
  /\ mmask = FALSE /\ tmask = FALSE
  /\ pending = {} /\ sent = 0
  /\ mpc = "mask" /\ tpc = "none" /\ ended = "no"

Alive == ended = "no"

\* Some thread of the process does not block signals.
Unblocked == ~mmask \/ (tpc # "none" /\ ~tmask)

-----------------------------------------------------------------------------
\* sigfillset(&set); sigprocmask(SIG_BLOCK, &set, NULL).
MainMask ==
  /\ Alive /\ mpc = "mask"
  /\ mmask' = TRUE
  /\ mpc' = "create"
  /\ UNCHANGED <<tmask, pending, sent, tpc, ended>>

(* Mutant: signal_handler is created before main blocks the signals, with  *)
(* the empty mask main had then.                                           *)
MainCreateUnmasked ==
  /\ Alive /\ mpc = "create"
  /\ \/ tpc' = "wait" /\ tmask' = FALSE /\ mpc' = "spin" /\ UNCHANGED ended
     \/ ended' = "exit" /\ UNCHANGED <<tpc, tmask, mpc>>
  /\ UNCHANGED <<mmask, pending, sent>>

(* pthread_create(&tid, NULL, signal_handler, NULL): the thread inherits   *)
(* main's mask; on failure main exits with EXIT_FAILURE.  Then main prints *)
(* and spins in while (1).                                                 *)
MainCreate ==
  /\ Alive /\ mpc = "create"
  /\ \/ tpc' = "wait" /\ tmask' = mmask /\ mpc' = "spin" /\ UNCHANGED ended
     \/ ended' = "exit" /\ UNCHANGED <<tpc, tmask, mpc>>
  /\ UNCHANGED <<mmask, pending, sent>>

(* sigwait(&set, &sig) takes one pending signal; SIGINT: printf and        *)
(* exit(0); any other: printf and back to sigwait.                         *)
SigWait ==
  /\ Alive /\ tpc = "wait"
  /\ \E sig \in pending :
       /\ pending' = pending \ {sig}
       /\ ended' = IF sig = "INT" THEN "exit" ELSE "no"
  /\ UNCHANGED <<mmask, tmask, sent, mpc, tpc>>

(* kill -s sig <pid>: the default action, termination, if a thread does   *)
(* not block it; otherwise pending, merged with one already pending.       *)
Send ==
  /\ Alive /\ sent < MaxSends
  /\ \E sig \in Signals :
       IF Unblocked
         THEN ended' = "killed" /\ UNCHANGED pending
         ELSE pending' = pending \cup {sig} /\ UNCHANGED ended
  /\ sent' = sent + 1
  /\ UNCHANGED <<mmask, tmask, mpc, tpc>>

Main == MainMask \/ MainCreate

Next == Main \/ SigWait \/ Send

\* The kernel runs both threads; the user need not send anything.
Fairness == WF_vars(Main) /\ WF_vars(SigWait)

Spec == Init /\ [][Next]_vars /\ Fairness

-----------------------------------------------------------------------------
TypeOK ==
  /\ mmask \in BOOLEAN /\ tmask \in BOOLEAN
  /\ pending \subseteq Signals /\ sent \in 0..MaxSends
  /\ mpc \in {"mask", "create", "spin"} /\ tpc \in {"none", "wait"}
  /\ ended \in {"no", "exit", "killed"}

(* The mask inherited from main: a signal that arrives once main has       *)
(* blocked all signals never kills the process by its default action, and *)
(* it is eventually taken by signal_handler's sigwait (or the process has *)
(* ended by SIGINT or a failed pthread_create).                           *)
SignalsReachHandler ==
  /\ [](ended = "killed" => mpc = "mask")
  /\ \A sig \in Signals : sig \in pending ~> (sig \notin pending \/ ~Alive)

=============================================================================
