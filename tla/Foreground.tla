------------------------------ MODULE Foreground ------------------------------
(***************************************************************************)
(* The foreground process group of the programs of                         *)
(* src/code_examples/shackleford/src/pgroups/, which Prog names:          *)
(*   "foreground" -- 1-foreground.c;                                       *)
(*   "sigttou"    -- 2-sigttou.c: after giving the terminal to the child,  *)
(*                   main prints "HI MOM!" from the background, and with   *)
(*                   tostop the default action of SIGTTOU stops it;        *)
(*   "pause"      -- 3-pause.c: the same print, with handler_sigttou,      *)
(*                   which pauses until the parent has the terminal again, *)
(*                   and handler, which takes the terminal back for the    *)
(*                   parent when the child has terminated.                 *)
(*                                                                         *)
(* main installs handler for SIGCHLD and forks; both processes call        *)
(* setpgid so that the child leads its own group C, apart from the         *)
(* parent's group P.  The child prints a line and execs sleep 60; the      *)
(* parent gives the terminal to C (set_fg_pgid) and pauses until handler   *)
(* has seen the child terminate, then takes the terminal back and returns. *)
(* handler loops on waitpid(WNOHANG | WUNTRACED | WCONTINUED) and reports  *)
(* each status with safe_print, which reads the foreground group, gives    *)
(* the terminal to P, prints, and gives it back to the group it read.      *)
(*                                                                         *)
(* fg is the terminal's foreground group: tcsetpgrp on stdin and stdout    *)
(* set the same terminal, so set_fg_pgid is one step, and it fails when    *)
(* the group has no process left.  tostop is the terminal's tostop mode    *)
(* (stty tostop, which the header asks for): a write from a background     *)
(* group then stops it with SIGTTOU.  The user, who learns the child's    *)
(* PID from main's printf, may stop, continue or kill the child; sent     *)
(* counts those signals, up to MaxSignals.  SIGCHLD is a pending bit that  *)
(* does not queue, masked while handler runs and delivered before main's   *)
(* next step; report is the stop or continue status waitpid has not yet    *)
(* returned (an exit stays reportable until the child is reaped).          *)
(***************************************************************************)
EXTENDS Naturals

CONSTANTS
  Prog,         \* "foreground", "sigttou" or "pause"
  MaxSignals    \* the signals the user sends to the child

VARIABLES
  tostop,       \* the terminal's tostop mode
  fg,           \* the terminal's foreground process group, "P" or "C"
  cgrp,         \* the child's process group
  cstate,       \* the child: "none", "run", "stopped", "zombie", "reaped"
  cpc,          \* program counter of the child
  report,       \* the unreported stop or continue: "none", "stopped",
                \* "continued"
  pending,      \* SIGCHLD is pending for the parent
  child_dead,   \* the sig_atomic_t child_dead
  saved,        \* safe_print's fg_pgid
  mpc,          \* program counter of main
  hpc,          \* program counter of handler
  sent          \* signals the user has sent

vars == <<tostop, fg, cgrp, cstate, cpc, report, pending, child_dead, saved,
          mpc, hpc, sent>>

Init ==
  /\ tostop \in BOOLEAN
  /\ fg = "P" /\ cgrp = "P"
  /\ cstate = "none" /\ cpc = "setpgid"
  /\ report = "none" /\ pending = FALSE /\ child_dead = FALSE
  /\ saved = "P" /\ mpc = "fork" /\ hpc = "none" /\ sent = 0

\* A process of group g is left: tcsetpgrp to g succeeds.
GroupAlive(g) == g = "P" \/ (cgrp = "C" /\ cstate # "reaped")

\* main runs only outside the handler, once no SIGCHLD awaits delivery.
MainRuns == hpc = "none" /\ ~pending

Done == {"exited", "failed"}

\* A pause() of main or of handler_sigttou returns once a handler has run.
Wake(m) == CASE m = "paused"      -> "test"
           []   m = "ttou_paused" -> "ttou_test"
           []   OTHER             -> m

-----------------------------------------------------------------------------
(* main.                                                                   *)

\* signal(SIGCHLD, handler); fork(); a failed fork exits with EXIT_FAILURE.
Fork ==
  /\ MainRuns /\ mpc = "fork"
  /\ \/ cstate' = "run" /\ mpc' = "setpgid"
     \/ mpc' = "failed" /\ UNCHANGED cstate
  /\ UNCHANGED <<tostop, fg, cgrp, cpc, report, pending, child_dead, saved,
                 hpc, sent>>

\* setpgid(pid, pid); printf("Created child -- PID: ...") with P in front.
MainSetpgid ==
  /\ MainRuns /\ mpc = "setpgid"
  /\ cgrp' = "C"
  /\ mpc' = "setfg"
  /\ UNCHANGED <<tostop, fg, cstate, cpc, report, pending, child_dead, saved,
                 hpc, sent>>

\* set_fg_pgid(pid), SIGTTOU ignored around it.
MainSetFg ==
  /\ MainRuns /\ mpc = "setfg"
  /\ fg' = IF GroupAlive("C") THEN "C" ELSE fg
  /\ mpc' = IF Prog = "foreground" THEN "test" ELSE "himom"
  /\ UNCHANGED <<tostop, cgrp, cstate, cpc, report, pending, child_dead, saved,
                 hpc, sent>>

(* printf("HI MOM!\n") of 2-sigttou.c and 3-pause.c: from the background   *)
(* with tostop set, SIGTTOU stops main in 2-sigttou.c and enters           *)
(* handler_sigttou in 3-pause.c, after which the write is retried.        *)
MainHiMom ==
  /\ MainRuns /\ mpc = "himom"
  /\ mpc' = CASE ~tostop \/ fg = "P" -> "test"
              []   Prog = "sigttou"    -> "stopped"
              []   OTHER               -> "ttou_test"
  /\ UNCHANGED <<tostop, fg, cgrp, cstate, cpc, report, pending, child_dead,
                 saved, hpc, sent>>

(* handler_sigttou: while (tcgetpgrp(STDOUT_FILENO) != getpid()), the     *)
(* test; once the parent has the terminal the handler returns and the     *)
(* printf is retried.                                                      *)
TtouTest ==
  /\ MainRuns /\ mpc = "ttou_test"
  /\ mpc' = IF fg = "P" THEN "himom" ELSE "ttou_pause"
  /\ UNCHANGED <<tostop, fg, cgrp, cstate, cpc, report, pending, child_dead,
                 saved, hpc, sent>>

\* handler_sigttou's pause(), with SIGCHLD not masked.
TtouPause ==
  /\ MainRuns /\ mpc = "ttou_pause"
  /\ mpc' = "ttou_paused"
  /\ UNCHANGED <<tostop, fg, cgrp, cstate, cpc, report, pending, child_dead,
                 saved, hpc, sent>>

\* while (!child_dead): the test.
MainTest ==
  /\ MainRuns /\ mpc = "test"
  /\ mpc' = IF child_dead THEN "restore" ELSE "pause"
  /\ UNCHANGED <<tostop, fg, cgrp, cstate, cpc, report, pending, child_dead,
                 saved, hpc, sent>>

\* pause(): main sleeps until a signal handler has run.
MainPause ==
  /\ MainRuns /\ mpc = "pause"
  /\ mpc' = "paused"
  /\ UNCHANGED <<tostop, fg, cgrp, cstate, cpc, report, pending, child_dead,
                 saved, hpc, sent>>

\* set_fg_pgid(getpgrp()); printf("parent -- have FG: exiting"); return 0.
MainRestore ==
  /\ MainRuns /\ mpc = "restore"
  /\ fg' = "P"
  /\ mpc' = "exited"
  /\ UNCHANGED <<tostop, cgrp, cstate, cpc, report, pending, child_dead, saved,
                 hpc, sent>>

(* handler.                                                                *)

(* The kernel delivers the pending SIGCHLD: handler starts, SIGCHLD       *)
(* masked.  A process stopped by SIGTTOU runs no handler.                  *)
Deliver ==
  /\ pending /\ hpc = "none" /\ mpc \notin Done \cup {"stopped"}
  /\ pending' = FALSE
  /\ hpc' = "waitpid"
  /\ UNCHANGED <<tostop, fg, cgrp, cstate, cpc, report, child_dead, saved,
                 mpc, sent>>

\* Mutant: tcgetpgrp called after set_fg_pgid(getpgrp()), reading P.
SafePrintBeginLate ==
  /\ saved' = "P"
  /\ fg' = "P"
  /\ hpc' = "print"

\* safe_print, first half: fg_pgid = tcgetpgrp(); set_fg_pgid(getpgrp()).
SafePrintBegin ==
  /\ saved' = fg
  /\ fg' = "P"
  /\ hpc' = "print"

(* while ((child = waitpid(-1, &status, WNOHANG | WUNTRACED |             *)
(* WCONTINUED)) > 0): a terminated child is reaped and child_dead set, a   *)
(* stop or continue is taken; each is reported with safe_print.  With no   *)
(* status left handler returns, and a pause() it interrupted returns.      *)
HandlerWait ==
  /\ hpc = "waitpid"
  /\ \/ /\ cstate = "zombie"
        /\ cstate' = "reaped" /\ child_dead' = TRUE
        /\ SafePrintBegin /\ UNCHANGED report
     \/ /\ cstate # "zombie" /\ report # "none"
        /\ report' = "none"
        /\ SafePrintBegin /\ UNCHANGED <<cstate, child_dead>>
     \/ /\ cstate # "zombie" /\ report = "none"
        /\ hpc' = "none"
        /\ mpc' = Wake(mpc)
        /\ UNCHANGED <<fg, cstate, report, child_dead, saved>>
  /\ UNCHANGED <<tostop, cgrp, cpc, pending, sent>>
  /\ hpc' # "none" => UNCHANGED mpc

(* safe_print, second half: printf, then set_fg_pgid(fg_pgid), which fails *)
(* when that group has no process left; the loop goes on.  In 3-pause.c    *)
(* the report of the child's termination is followed by                    *)
(* set_fg_pgid(getpgrp()).                                                 *)
SafePrintEnd ==
  /\ hpc = "print"
  /\ fg' = CASE Prog = "pause" /\ cstate = "reaped" -> "P"
            []   GroupAlive(saved)                  -> saved
            []   OTHER                              -> fg
  /\ hpc' = "waitpid"
  /\ UNCHANGED <<tostop, cgrp, cstate, cpc, report, pending, child_dead, saved,
                 mpc, sent>>

-----------------------------------------------------------------------------
(* The child, and the user's signals to it.                                *)

\* The child's setpgid(pid, pid) with pid = 0: its own group.
ChildSetpgid ==
  /\ cstate = "run" /\ cpc = "setpgid"
  /\ cgrp' = "C"
  /\ cpc' = "print"
  /\ UNCHANGED <<tostop, fg, cstate, report, pending, child_dead, saved, mpc,
                 hpc, sent>>

(* printf("Child says, ..."): from the background with tostop set the      *)
(* write stops the group with SIGTTOU and is retried once it continues.    *)
ChildPrint ==
  /\ cstate = "run" /\ cpc = "print"
  /\ IF tostop /\ fg # cgrp
       THEN /\ cstate' = "stopped" /\ report' = "stopped" /\ pending' = TRUE
            /\ UNCHANGED cpc
       ELSE /\ cpc' = "exec"
            /\ UNCHANGED <<cstate, report, pending>>
  /\ UNCHANGED <<tostop, fg, cgrp, child_dead, saved, mpc, hpc, sent>>

(* execlp("sleep", "sleep", "60", NULL); when it fails the child goes on   *)
(* into main's code and pauses until a child of its own dies: forever.     *)
ChildExec ==
  /\ cstate = "run" /\ cpc = "exec"
  /\ cpc' \in {"sleep", "hung"}
  /\ UNCHANGED <<tostop, fg, cgrp, cstate, report, pending, child_dead, saved,
                 mpc, hpc, sent>>

\* sleep 60 ends and exits: the child becomes a zombie, SIGCHLD pending.
ChildExit ==
  /\ cstate = "run" /\ cpc = "sleep"
  /\ cstate' = "zombie" /\ report' = "none" /\ pending' = TRUE
  /\ UNCHANGED <<tostop, fg, cgrp, cpc, child_dead, saved, mpc, hpc, sent>>

(* kill -STOP, -CONT or -TERM of the child by the user, once main has      *)
(* printed its PID.                                                        *)
UserSignal ==
  /\ sent < MaxSignals /\ mpc \notin {"fork", "setpgid"}
  /\ \/ cstate = "run" /\ cstate' = "stopped" /\ report' = "stopped"
     \/ cstate = "stopped" /\ cstate' = "run" /\ report' = "continued"
     \/ cstate \in {"run", "stopped"} /\ cstate' = "zombie" /\ report' = "none"
  /\ pending' = TRUE
  /\ sent' = sent + 1
  /\ UNCHANGED <<tostop, fg, cgrp, cpc, child_dead, saved, mpc, hpc>>

Main ==
  \/ Fork \/ MainSetpgid \/ MainSetFg \/ MainHiMom \/ TtouTest \/ TtouPause
  \/ MainTest \/ MainPause \/ MainRestore
  \/ Deliver \/ HandlerWait \/ SafePrintEnd

Child == ChildSetpgid \/ ChildPrint \/ ChildExec \/ ChildExit

Next == Main \/ Child \/ UserSignal

\* The kernel runs both processes; the user need not send anything.
Fairness == WF_vars(Main) /\ WF_vars(Child)

Spec == Init /\ [][Next]_vars /\ Fairness

-----------------------------------------------------------------------------
TypeOK ==
  /\ tostop \in BOOLEAN /\ fg \in {"P", "C"} /\ cgrp \in {"P", "C"}
  /\ cstate \in {"none", "run", "stopped", "zombie", "reaped"}
  /\ cpc \in {"setpgid", "print", "exec", "sleep", "hung"}
  /\ report \in {"none", "stopped", "continued"}
  /\ pending \in BOOLEAN /\ child_dead \in BOOLEAN /\ saved \in {"P", "C"}
  /\ mpc \in {"fork", "setpgid", "setfg", "himom", "stopped", "ttou_test",
              "ttou_pause", "ttou_paused", "test", "pause", "paused",
              "restore", "exited", "failed"}
  /\ hpc \in {"none", "waitpid", "print"} /\ sent \in 0..MaxSignals

(* While main waits in its while (!child_dead) loop and the child's group *)
(* has a process, the terminal's foreground group is the child's: each     *)
(* safe_print the SIGCHLD handler makes for a stop, continue or exit hands *)
(* the terminal to the parent only for its printf and gives it back to the *)
(* group tcgetpgrp read before, however the reports interleave with main.  *)
ChildKeepsTerminal ==
  (mpc \in {"test", "pause", "paused"} /\ hpc = "none" /\ cgrp = "C"
     /\ cstate \in {"run", "stopped", "zombie"}) => fg = "C"

(* Left alone by the user, with tostop off and a working execlp, the       *)
(* child sleeps and exits and main, which waits for that in its pause()    *)
(* loop, returns.                                                          *)
ForegroundTermination ==
  (~tostop /\ [](sent = 0) /\ [](cpc # "hung")) => <>(mpc \in Done)

=============================================================================
