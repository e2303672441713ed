------------------------------ MODULE PsshJobs ------------------------------
(***************************************************************************)
(* The job table of the pssh shell project: src/code_examples/shackleford/ *)
(* src/projects/pssh/pssh_v2/jobs.c, and the built-in commands bg, fg and  *)
(* kill of builtin.c that act on it.                                       *)
(*                                                                         *)
(* J is the static array of MAX_JOBS entries (here MaxJobs); an entry is   *)
(* in use while its name is not NULL.  The command line is one model       *)
(* string, since no function reads it but jobs_print.  pids is the array  *)
(* the caller passes to job_add: job_remove_pid zeroes an entry, and       *)
(* job_delete frees it and the name but leaves pids, pgrp and status as    *)
(* they were (a freed array keeps its contents here).  pgrp starts at 0,   *)
(* as J is static.                                                         *)
(*                                                                         *)
(* The shell's main loop and its SIGCHLD handling (pssh.c) are not in the  *)
(* repository; they are the environment of this module:                    *)
(*   Launch -- the shell forks a pipeline of up to MaxTasks processes into *)
(*             a new process group led by the first, and records it with   *)
(*             job_add before any of them can be reaped;                   *)
(*   Reap   -- on SIGCHLD the shell reaps a child and, for its job number  *)
(*             taken with job_get_number, calls job_remove_pid and, once   *)
(*             job_is_done, job_delete;                                    *)
(*   Exit   -- a process ends by itself.                                   *)
(* The kernel gives a new process a pid that is neither in use nor the id  *)
(* of a process group that still has members.  Signals have their default *)
(* actions: SIGINT ends a running or stopped process, SIGCONT continues   *)
(* and SIGSTOP stops one; a zombie ignores them.                           *)
(***************************************************************************)
EXTENDS Integers, Sequences, FiniteSetsExt, Functions

CONSTANTS
  MaxJobs,    \* MAX_JOBS
  MaxTasks,   \* the most processes of one pipeline
  Pids        \* the pids the kernel hands out, positive integers

ASSUME MaxJobs \in Nat \ {0} /\ MaxTasks \in Nat \ {0}
ASSUME Pids \subseteq Nat \ {0}

VARIABLES
  J,        \* the job table
  pstate,   \* each pid: "free", "run", "stop" or "zombie"
  pgid      \* the process group of each pid in use

vars == <<J, pstate, pgid>>

NULL == "NULL"
Slots == 0 .. MaxJobs - 1
Sigs == {"INT", "CONT", "STOP"}
JobStatus == {"STOPPED", "TERM", "BG", "FG"}

\* The pipelines the shell can fork: distinct pids, at most MaxTasks.
Pipelines == {s \in UNION {[1 .. k -> Pids] : k \in 1 .. MaxTasks} : IsInjective(s)}

\* A pid the kernel may hand out: unused and not the id of a live group.
Fresh(p) ==
  /\ pstate[p] = "free"
  /\ \A q \in Pids : pstate[q] # "free" => pgid[q] # p

\* The processes kill(-g, sig) reaches.
Group(g) == {p \in Pids : pstate[p] # "free" /\ pgid[p] = g}

\* The default action of sig on a process in state st.
Effect(st, sig) ==
  IF st = "zombie" THEN st
  ELSE CASE sig = "INT"  -> "zombie"
         [] sig = "CONT" -> "run"
         [] sig = "STOP" -> "stop"

\* kill(-g, sig), or kill(pid, sig) with S = {pid}.
Deliver(S, sig) ==
  pstate' = [p \in Pids |-> IF p \in S THEN Effect(pstate[p], sig) ELSE pstate[p]]

\* The pids entry j still lists.
Listed(t, j) == {t[j].pids[i] : i \in 1 .. t[j].npids} \ {0}

-----------------------------------------------------------------------------
\* jobs_init: every entry has no name, no pids and status STOPPED.
Init ==
  /\ J = [j \in Slots |->
            [name |-> NULL, pids |-> <<>>, npids |-> 0, pgrp |-> 0,
             status |-> "STOPPED"]]
  /\ pstate = [p \in Pids |-> "free"]
  /\ pgid = [p \in Pids |-> 0]

(* job_add: the first entry without a name takes the job, its pgrp the     *)
(* first pid, its status BG or FG; with every entry in use it returns 0    *)
(* and the table is unchanged.                                             *)
JobAdd(t, pids, bg) ==
  LET free == {j \in Slots : t[j].name = NULL}
  IN  IF free = {} THEN t
      ELSE [t EXCEPT ![Min(free)] =
              [name |-> "cmd", pids |-> pids, npids |-> Len(pids),
               pgrp |-> pids[1], status |-> IF bg THEN "BG" ELSE "FG"]]

\* job_get_number: the first entry listing pid, or -1.
JobGetNumber(t, pid) ==
  LET js == {j \in Slots : \E i \in 1 .. t[j].npids : t[j].pids[i] = pid}
  IN  IF js = {} THEN -1 ELSE Min(js)

(* Mutant: the early return of job_remove_pid tests jnum <= 0, so the      *)
(* first entry is never updated.                                           *)
JobRemovePidFirstSkipped(t, pid) ==
  LET jnum == JobGetNumber(t, pid)
  IN  IF jnum <= 0 THEN t
      ELSE [t EXCEPT ![jnum].pids =
              [i \in DOMAIN @ |-> IF i <= t[jnum].npids /\ @[i] = pid
                                    THEN 0 ELSE @[i]]]

\* job_remove_pid: zero pid in the entry job_get_number finds.
JobRemovePid(t, pid) ==
  LET jnum == JobGetNumber(t, pid)
  IN  IF jnum < 0 THEN t
      ELSE [t EXCEPT ![jnum].pids =
              [i \in DOMAIN @ |-> IF i <= t[jnum].npids /\ @[i] = pid
                                    THEN 0 ELSE @[i]]]

\* job_is_done: no pid of the entry is left.
JobIsDone(t, jnum) == \A i \in 1 .. t[jnum].npids : t[jnum].pids[i] = 0

\* job_delete: npids = 0, pids and name freed, name = NULL.
JobDelete(t, jnum) == [t EXCEPT ![jnum].npids = 0, ![jnum].name = NULL]

(* Mutant: job_exists tests pids, which job_delete frees but does not set  *)
(* to NULL.                                                                *)
JobExistsByPids(jnum) == J[jnum].pids # <<>>

\* job_exists: the entry has a name.
JobExists(jnum) == J[jnum].name # NULL

\* job_kill: kill(-pgrp, sig) if the job exists.
JobKill(jnum, sig) ==
  IF JobExists(jnum) THEN Deliver(Group(J[jnum].pgrp), sig)
  ELSE UNCHANGED pstate

\* job_set_status: only for a job that exists.
JobSetStatus(jnum, status) ==
  J' = IF JobExists(jnum) THEN [J EXCEPT ![jnum].status = status] ELSE J

-----------------------------------------------------------------------------
\* The shell forks a pipeline, in the background or not, and calls job_add.
Launch ==
  \E pids \in Pipelines, bg \in BOOLEAN :
    /\ \A i \in DOMAIN pids : Fresh(pids[i])
    /\ pstate' = [p \in Pids |-> IF p \in Range(pids) THEN "run" ELSE pstate[p]]
    /\ pgid' = [p \in Pids |-> IF p \in Range(pids) THEN pids[1] ELSE pgid[p]]
    /\ J' = JobAdd(J, pids, bg)

\* A process exits by itself.
Exit(p) ==
  /\ pstate[p] \in {"run", "stop"}
  /\ pstate' = [pstate EXCEPT ![p] = "zombie"]
  /\ UNCHANGED <<J, pgid>>

\* The shell reaps a zombie: job_remove_pid, then job_delete once done.
Reap(p) ==
  /\ pstate[p] = "zombie"
  /\ pstate' = [pstate EXCEPT ![p] = "free"]
  /\ LET jnum == JobGetNumber(J, p)
         t == JobRemovePid(J, p)
     IN  J' = IF jnum >= 0 /\ JobIsDone(t, jnum) THEN JobDelete(t, jnum) ELSE t
  /\ UNCHANGED pgid

(* builtin_bg with argv[1] = "%jnum": if job_exists, job_kill with         *)
(* SIGCONT; the status is not changed.                                     *)
BuiltinBg(jnum) ==
  /\ JobExists(jnum)
  /\ JobKill(jnum, "CONT")
  /\ UNCHANGED <<J, pgid>>

(* builtin_fg: if job_exists, status FG and job_kill with SIGCONT.  Its    *)
(* set_fg_process_group, which is not in the repository, hands the         *)
(* terminal to the job's group; nothing here reads the terminal.           *)
BuiltinFg(jnum) ==
  /\ JobExists(jnum)
  /\ JobSetStatus(jnum, "FG")
  /\ JobKill(jnum, "CONT")
  /\ UNCHANGED pgid

(* builtin_kill [-s sig] %jnum: job_kill if job_exists; SIGINT without     *)
(* -s.                                                                     *)
BuiltinKillJob(jnum, sig) ==
  /\ JobExists(jnum)
  /\ JobKill(jnum, sig)
  /\ UNCHANGED <<J, pgid>>

\* builtin_kill [-s sig] pid: kill(pid, sig); an unused pid fails.
BuiltinKillPid(p, sig) ==
  /\ pstate[p] # "free"
  /\ Deliver({p}, sig)
  /\ UNCHANGED <<J, pgid>>

Builtin ==
  \E jnum \in Slots, sig \in Sigs :
    \/ BuiltinBg(jnum) \/ BuiltinFg(jnum) \/ BuiltinKillJob(jnum, sig)
    \/ \E p \in Pids : BuiltinKillPid(p, sig)

Next == Launch \/ Builtin \/ \E p \in Pids : Exit(p) \/ Reap(p)

\* The shell handles every SIGCHLD.
Fairness == \A p \in Pids : WF_vars(Reap(p))

Spec == Init /\ [][Next]_vars /\ Fairness

-----------------------------------------------------------------------------
TypeOK ==
  /\ \A j \in Slots :
       /\ J[j].name \in {NULL, "cmd"} /\ J[j].npids \in 0 .. MaxTasks
       /\ J[j].pgrp \in Pids \cup {0} /\ J[j].status \in JobStatus
  /\ pstate \in [Pids -> {"free", "run", "stop", "zombie"}]
  /\ pgid \in [Pids -> Pids \cup {0}]

(* job_remove_pid and job_delete keep the table true to the kernel,        *)
(* through exits, reaps and the reuse of pids: a job in the table lists    *)
(* exactly the processes of its group not yet reaped, and no two jobs      *)
(* share a group.                                                          *)
JobTableTracksProcesses ==
  \A j \in Slots : J[j].name # NULL =>
    /\ Listed(J, j) = Group(J[j].pgrp)
    /\ \A k \in Slots \ {j} : J[k].name # NULL => J[k].pgrp # J[j].pgrp

(* bg, fg and kill %n signal only processes job n lists: a job number      *)
(* whose entry was deleted, and whose pgrp may since have been reused as   *)
(* the pid of another job's leader, reaches nobody.                        *)
KillOnlyNamedJob ==
  [][\A jnum \in Slots, sig \in Sigs :
       BuiltinBg(jnum) \/ BuiltinFg(jnum) \/ BuiltinKillJob(jnum, sig) =>
         \A p \in Pids : pstate'[p] # pstate[p] => p \in Listed(J, jnum)]_vars

=============================================================================
