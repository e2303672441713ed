------------------------------- MODULE PipeDup -------------------------------
(***************************************************************************)
(* The pipeline "ls -l | wc -l" of                                        *)
(* src/code_examples/shackleford/src/processes/ipc/2-pipes-dup.c.          *)
(*                                                                         *)
(* The parent creates the pipe (fds 3 and 4), forks the ls child (close 3, *)
(* dup2(4, 1), close 4, execlp ls) and the wc child (close 4, dup2(3, 0),  *)
(* close 3, execlp wc), closes 3 and 4 and waits twice.  When execlp       *)
(* fails the child prints an error and falls out of its case into the     *)
(* parent's code with its own descriptor table: a failed ls child forks   *)
(* a wc child of its own ("lswc"), and either failed child goes on to the *)
(* closes and the two waits.                                               *)
(*                                                                         *)
(* Each process has the descriptors 0, 1, 3 and 4, each the terminal      *)
(* ("in", "out"), a pipe end ("r", "w") or "closed".  ls writes Lines      *)
(* lines to its fd 1, dying of SIGPIPE if no read end is open; wc counts   *)
(* the lines it reads from fd 0 until end of file, when no write end is    *)
(* open, and prints the count.  A dup2 or close of a closed descriptor     *)
(* fails with EBADF; exit closes every descriptor.                         *)
(***************************************************************************)
EXTENDS Naturals, FiniteSets

CONSTANT Lines   \* the lines ls -l writes

Procs == {"parent", "ls", "wc", "lswc"}
Fds == {0, 1, 3, 4}
NoCount == Lines + 1   \* wc has printed nothing

VARIABLES
  fds,       \* each process's descriptor table
  pc,        \* program counter of each process ("none" before its fork)
  reaped,    \* children whose exit a wait has collected
  pipe,      \* lines in the pipe
  lsk,       \* lines ls has written
  count,     \* lines each wc has read
  printed,   \* the count each wc printed, or NoCount
  lsExec     \* "ok" or "failed" once ls's execlp has returned or not

vars == <<fds, pc, reaped, pipe, lsk, count, printed, lsExec>>

\* The process each fork creates, by its parent and the fork.
ChildOf(p, which) ==
  IF which = "ls" THEN "ls" ELSE IF p = "parent" THEN "wc" ELSE "lswc"

Parent(c) == IF c = "lswc" THEN "ls" ELSE "parent"

Alive(p) == pc[p] \notin {"none", "exited"}

\* Processes holding a read end, or a write end, of the pipe open.
Holders(e) == {p \in Procs : Alive(p) /\ \E f \in Fds : fds[p][f] = e}

Closed == [f \in Fds |-> "closed"]

Init ==
  /\ fds = [p \in Procs |-> [f \in Fds |-> CASE f = 0 -> "in"
                                             [] f = 1 -> "out"
                                             [] OTHER -> "closed"]]
  /\ pc = [p \in Procs |-> IF p = "parent" THEN "pipe" ELSE "none"]
  /\ reaped = {}
  /\ pipe = 0 /\ lsk = 0
  /\ count = [p \in {"wc", "lswc"} |-> 0]
  /\ printed = [p \in {"wc", "lswc"} |-> NoCount]
  /\ lsExec = "pending"

\* Process p goes from pc from to pc to.
Goto(p, from, to) == pc[p] = from /\ pc' = [pc EXCEPT ![p] = to]

\* Process p exits: its descriptors are closed.
Exit(p) ==
  /\ pc' = [pc EXCEPT ![p] = "exited"]
  /\ fds' = [fds EXCEPT ![p] = Closed]

-----------------------------------------------------------------------------
(* The parent's code.                                                      *)

\* pipe(fd): descriptors 3 and 4; on failure return 1.
MakePipe(p) ==
  /\ pc[p] = "pipe"
  /\ \/ fds' = [fds EXCEPT ![p][3] = "r", ![p][4] = "w"]
        /\ pc' = [pc EXCEPT ![p] = "fork_ls"]
     \/ Exit(p)
  /\ UNCHANGED <<reaped, pipe, lsk, count, printed, lsExec>>

(* fork() for ls, or for wc: the child starts its case 0 with a copy of    *)
(* the table; a failed fork exits with EXIT_FAILURE.                       *)
Fork(p) ==
  /\ pc[p] \in {"fork_ls", "fork_wc"}
  /\ LET which == IF pc[p] = "fork_ls" THEN "ls" ELSE "wc"
         c == ChildOf(p, which)
     IN  \/ /\ fds' = [fds EXCEPT ![c] = fds[p]]
            /\ pc' = [pc EXCEPT ![p] = IF which = "ls" THEN "fork_wc"
                                                      ELSE "close_r",
                                ![c] = IF which = "ls" THEN "ls_close_r"
                                                      ELSE "wc_close_w"]
         \/ Exit(p)
  /\ UNCHANGED <<reaped, pipe, lsk, count, printed, lsExec>>

\* Mutant: the parent keeps the write side open.
CloseWriteSkipped(p) ==
  /\ \/ Goto(p, "close_r", "close_w") /\ fds' = [fds EXCEPT ![p][3] = "closed"]
     \/ Goto(p, "close_w", "wait1") /\ UNCHANGED fds
  /\ UNCHANGED <<reaped, pipe, lsk, count, printed, lsExec>>

\* close(fd[READ_SIDE]); close(fd[WRITE_SIDE]).
CloseBoth(p) ==
  /\ \/ Goto(p, "close_r", "close_w") /\ fds' = [fds EXCEPT ![p][3] = "closed"]
     \/ Goto(p, "close_w", "wait1") /\ fds' = [fds EXCEPT ![p][4] = "closed"]
  /\ UNCHANGED <<reaped, pipe, lsk, count, printed, lsExec>>

(* wait(NULL): collects an exited child, blocks while a child runs, and    *)
(* returns -1 at once when there is none; return 0 after the second.      *)
Wait(p) ==
  /\ pc[p] \in {"wait1", "wait2"}
  /\ LET kids == {c \in Procs \ {"parent"} : Parent(c) = p /\ pc[c] # "none"
                                            /\ c \notin reaped}
         next == IF pc[p] = "wait1" THEN "wait2" ELSE "exit"
     IN  \/ \E c \in kids : pc[c] = "exited" /\ reaped' = reaped \cup {c}
                             /\ pc' = [pc EXCEPT ![p] = next]
         \/ kids = {} /\ pc' = [pc EXCEPT ![p] = next] /\ UNCHANGED reaped
  /\ UNCHANGED <<fds, pipe, lsk, count, printed, lsExec>>

\* return 0 from main.
Return(p) ==
  /\ pc[p] = "exit"
  /\ Exit(p)
  /\ UNCHANGED <<reaped, pipe, lsk, count, printed, lsExec>>

-----------------------------------------------------------------------------
(* The ls child's case 0; an execlp that fails falls through to the wc     *)
(* fork.                                                                   *)

\* close(fd[READ_SIDE]).
LsCloseRead(p) ==
  /\ Goto(p, "ls_close_r", "ls_dup")
  /\ fds' = [fds EXCEPT ![p][3] = "closed"]
  /\ UNCHANGED <<reaped, pipe, lsk, count, printed, lsExec>>

\* Mutant: the ls child leaves its standard output on the terminal.
LsDupSkipped(p) ==
  /\ Goto(p, "ls_dup", "ls_close_w")
  /\ UNCHANGED <<fds, reaped, pipe, lsk, count, printed, lsExec>>

\* dup2(fd[WRITE_SIDE], STDOUT_FILENO); EBADF exits with EXIT_FAILURE.
LsDup(p) ==
  /\ pc[p] = "ls_dup"
  /\ IF fds[p][4] = "closed"
       THEN Exit(p)
       ELSE /\ fds' = [fds EXCEPT ![p][1] = fds[p][4]]
            /\ pc' = [pc EXCEPT ![p] = "ls_close_w"]
  /\ UNCHANGED <<reaped, pipe, lsk, count, printed, lsExec>>

\* close(fd[WRITE_SIDE]).
LsCloseWrite(p) ==
  /\ Goto(p, "ls_close_w", "ls_exec")
  /\ fds' = [fds EXCEPT ![p][4] = "closed"]
  /\ UNCHANGED <<reaped, pipe, lsk, count, printed, lsExec>>

\* execlp("ls", ...): ls runs, or the child falls through to the wc fork.
LsExec(p) ==
  /\ pc[p] = "ls_exec"
  /\ \/ pc' = [pc EXCEPT ![p] = "ls_run"] /\ lsExec' = "ok"
     \/ pc' = [pc EXCEPT ![p] = "fork_wc"] /\ lsExec' = "failed"
  /\ UNCHANGED <<fds, reaped, pipe, lsk, count, printed>>

(* ls -l writes its next line to fd 1: into the pipe, killed by SIGPIPE    *)
(* when no process holds the read end, or to the terminal; after the last  *)
(* line it exits.                                                          *)
LsRun(p) ==
  /\ pc[p] = "ls_run"
  /\ IF lsk = Lines
       THEN Exit(p) /\ UNCHANGED <<pipe, lsk>>
       ELSE CASE fds[p][1] = "w" /\ Holders("r") = {} ->
                   Exit(p) /\ UNCHANGED <<pipe, lsk>>
              [] fds[p][1] = "w" ->
                   pipe' = pipe + 1 /\ lsk' = lsk + 1 /\ UNCHANGED <<fds, pc>>
              [] OTHER -> lsk' = lsk + 1 /\ UNCHANGED <<fds, pc, pipe>>
  /\ UNCHANGED <<reaped, count, printed, lsExec>>

-----------------------------------------------------------------------------
(* The wc child's case 0; an execlp that fails falls through to the        *)
(* parent's closes and waits.                                              *)

\* close(fd[WRITE_SIDE]).
WcCloseWrite(p) ==
  /\ Goto(p, "wc_close_w", "wc_dup")
  /\ fds' = [fds EXCEPT ![p][4] = "closed"]
  /\ UNCHANGED <<reaped, pipe, lsk, count, printed, lsExec>>

\* dup2(fd[READ_SIDE], STDIN_FILENO); EBADF exits with EXIT_FAILURE.
WcDup(p) ==
  /\ pc[p] = "wc_dup"
  /\ IF fds[p][3] = "closed"
       THEN Exit(p)
       ELSE /\ fds' = [fds EXCEPT ![p][0] = fds[p][3]]
            /\ pc' = [pc EXCEPT ![p] = "wc_close_r"]
  /\ UNCHANGED <<reaped, pipe, lsk, count, printed, lsExec>>

\* close(fd[READ_SIDE]).
WcCloseRead(p) ==
  /\ Goto(p, "wc_close_r", "wc_exec")
  /\ fds' = [fds EXCEPT ![p][3] = "closed"]
  /\ UNCHANGED <<reaped, pipe, lsk, count, printed, lsExec>>

\* execlp("wc", ...): wc runs, or the child falls through to the closes.
WcExec(p) ==
  /\ pc[p] = "wc_exec"
  /\ \/ pc' = [pc EXCEPT ![p] = "wc_run"]
     \/ pc' = [pc EXCEPT ![p] = "close_r"]
  /\ UNCHANGED <<fds, reaped, pipe, lsk, count, printed, lsExec>>

(* wc -l reads fd 0: a line while the pipe holds one; end of file once it  *)
(* is empty and no process holds the write end, when it prints the count   *)
(* and exits.  (fd 0 is always the read end here: the dup2 succeeded.)     *)
WcRun(p) ==
  /\ pc[p] = "wc_run"
  /\ \/ /\ pipe > 0
        /\ pipe' = pipe - 1
        /\ count' = [count EXCEPT ![p] = count[p] + 1]
        /\ UNCHANGED <<fds, pc, printed>>
     \/ /\ pipe = 0 /\ Holders("w") = {}
        /\ printed' = [printed EXCEPT ![p] = count[p]]
        /\ Exit(p)
        /\ UNCHANGED <<pipe, count>>
  /\ UNCHANGED <<reaped, lsk, lsExec>>

-----------------------------------------------------------------------------
Proc(p) ==
  \/ MakePipe(p) \/ Fork(p) \/ CloseBoth(p) \/ Wait(p) \/ Return(p)
  \/ LsCloseRead(p) \/ LsDup(p) \/ LsCloseWrite(p) \/ LsExec(p) \/ LsRun(p)
  \/ WcCloseWrite(p) \/ WcDup(p) \/ WcCloseRead(p) \/ WcExec(p) \/ WcRun(p)

Next == \E p \in Procs : Proc(p)

\* The kernel schedules every runnable process.
Fairness == \A p \in Procs : WF_vars(Proc(p))

Spec == Init /\ [][Next]_vars /\ Fairness

-----------------------------------------------------------------------------
TypeOK ==
  /\ fds \in [Procs -> [Fds -> {"in", "out", "r", "w", "closed"}]]
  /\ reaped \subseteq Procs
  /\ pipe \in 0..Lines /\ lsk \in 0..Lines
  /\ count \in [{"wc", "lswc"} -> 0..Lines]
  /\ printed \in [{"wc", "lswc"} -> 0..NoCount]
  /\ lsExec \in {"pending", "ok", "failed"}

(* A wc that prints a count after ls -l ran prints every line ls wrote:    *)
(* the pipe reaches end of file only after ls has written its last line,   *)
(* whatever the order of the two children and of the parent's closes.     *)
WcCountsAll ==
  \A w \in {"wc", "lswc"} : printed[w] # NoCount /\ lsExec = "ok"
                               => printed[w] = Lines

(* Every process the program creates terminates, the parent returning      *)
(* after its two waits, whether or not execlp of ls or wc fails: a failed  *)
(* child that falls through into the parent's code holds no pipe end      *)
(* another process waits on for ever.                                      *)
AllExit == <>(\A p \in Procs : pc[p] \in {"none", "exited"})

=============================================================================
