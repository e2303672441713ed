---------------------------- MODULE MCSignalling ----------------------------
(***************************************************************************)
(* The signalling programs, each checked on its own: a behaviour runs     *)
(* the program prog names, and the variables of the others keep their     *)
(* initial values.                                                         *)
(*   "if"    -- thr/signalling_using_semaphores.c (one if, a semaphore),   *)
(*   "while" -- shackleford/src/sync/sem/01-signaling_semaphore.c,         *)
(*   "v1"    -- thr/signalling_using_condition_variables_v1.c (main waits, *)
(*              pthread_cond_signal),                                      *)
(*   "v2"    -- thr/signalling_using_condition_variables_v2.c (two waiting *)
(*              threads, pthread_cond_broadcast),                          *)
(*   "chain" -- shackleford/src/sync/mutex/03-simple_cv.c (three waiting   *)
(*              threads passing one pthread_cond_signal on),               *)
(* and between processes:                                                  *)
(*   "tellwait" -- pipes/sync_with_pipes.c (a byte each way),              *)
(*   "pipebarrier" -- src/pipes/barrier_sync_with_pipes.c (three children, *)
(*              end of file as the barrier),                               *)
(*   "norace", "race" -- thr_sync/no_race.c and race.c (two strings of     *)
(*              two characters on one stdout),                             *)
(*   "shm"   -- shm/reader_writer_systemV (stdin of up to two blocks       *)
(*              through a System V segment and two semaphores),            *)
(*   "shmcs" -- shm/SystemV sv_xfr.c and cl_xfr.c (a server and two        *)
(*              clients of one segment and one semaphore),                 *)
(*   "pipedup" -- processes/ipc/2-pipes-dup.c (ls -l | wc -l with ls       *)
(*              writing two lines),                                        *)
(*   "sigchld" -- signals/5-sigchld.c (three children, a SIGCHLD handler), *)
(*   "forkshm4" -- processes/ipc/4-shared_memory.c, "forkshm" --           *)
(*              shm/posix/simple_shm_example.c and ipc/shared_memory.c     *)
(*              (two items of a mapping shared over fork),                 *)
(*   "coproc" -- pipes/simple_co_process.c with add2.c (argv[1] two        *)
(*              numbers, text or empty),                                   *)
(*   "foreground" -- pgroups/1-foreground.c (a child in its own process    *)
(*              group given the terminal, up to two signals from the user),*)
(*   "sigttou", "pause" -- pgroups/2-sigttou.c and 3-pause.c (the same,    *)
(*              with main's "HI MOM!" printed from the background),        *)
(*   "sigthread" -- thr/signal_handler_thread.c and signals/7-thread.c (a  *)
(*              sigwait thread, two signals from the user),                *)
(*   "posixshm" -- shm/posix sv_xfr.c and cl_xfr.c (two runs of the server *)
(*              and two of the client, started at any time),               *)
(*   "pssh"  -- projects/pssh/pssh_v2 jobs.c and builtin.c (a job table of *)
(*              two entries, pipelines of up to two of three pids),        *)
(*   "sigjmp" -- signals/6-sigsetjmp.c (three squares, up to two Ctrl-Cs), *)
(*   "fifo"   -- ipc/server_code.c and client_code.c (two runs of each,    *)
(*              started at any time, and one Ctrl-C to a server).         *)
(* Fairness is asserted only of the program that runs.                     *)
(***************************************************************************)
EXTENDS Naturals

CONSTANTS Main, w1, w2, w3, Signaller, NoThread, Parent, Child, s1, s2, Zero, NoFifo

VARIABLES ivalue, isem, imutex, impc, ispc, iseen,
          wvalue, wsem, wmutex, wmpc, wspc, wseen,
          value1, mutex1, wpc1, spc1, seen1,
          value2, mutex2, wpc2, spc2, seen2,
          value3, mutex3, wpc3, spc3, seen3,
          pfd1, pfd2, file, buffer, tppc, tcpc,
          writers, forked, bcpc, bppc,
          out, next, tell, opc,
          sinput, snext, semExists, sem, shmExists, shm, sout, swpc, srpc,
          sarg, cshmExists, seg, csemExists, semval, sspc, scpc, printed,
          written,
          dfds, dpc, dreaped, dpipe, dlsk, dcount, dprinted, dlsExec,
          gchild, gi, gmpc, ghpc, gpending, fmem, fk, fppc, fcpc, fcout, fpout,
          kinput, kfds, kpc, kpipe0, kpipe1, kreply,
          etostop, efg, ecgrp, ecstate, ecpc, ereport, epending, echild_dead,
          esaved, empc, ehpc, esent,
          hname, hsize, hmtype, hmbuf, hsfd, hspc, hcfd, hshown, hcpc,
          ymmask, ytmask, ypending, ysent, ympc, ytpc, yended,
          jJ, jpstate, jpgid,
          upc, ubuf, uheap, uci, usi, utotal, uprinted, usent,
          npath, nfifo, nspc, nsfd, ngot, ncpc, ncfd, nsigs,
          prog

ivars == <<ivalue, isem, imutex, impc, ispc, iseen>>
wvars == <<wvalue, wsem, wmutex, wmpc, wspc, wseen>>
vars1 == <<value1, mutex1, wpc1, spc1, seen1>>
vars2 == <<value2, mutex2, wpc2, spc2, seen2>>
vars3 == <<value3, mutex3, wpc3, spc3, seen3>>
tvars == <<pfd1, pfd2, file, buffer, tppc, tcpc>>
bvars == <<writers, forked, bcpc, bppc>>
ovars == <<out, next, tell, opc>>
cvvars == <<ivars, wvars, vars1, vars2, vars3>>
svars == <<sinput, snext, semExists, sem, shmExists, shm, sout, swpc, srpc>>
qvars == <<sarg, cshmExists, seg, csemExists, semval, sspc, scpc, printed,
           written>>
dvars == <<dfds, dpc, dreaped, dpipe, dlsk, dcount, dprinted, dlsExec>>
gvars == <<gchild, gi, gmpc, ghpc, gpending>>
fvars == <<fmem, fk, fppc, fcpc, fcout, fpout>>
kvars == <<kinput, kfds, kpc, kpipe0, kpipe1, kreply>>
evars == <<etostop, efg, ecgrp, ecstate, ecpc, ereport, epending,
           echild_dead, esaved, empc, ehpc, esent>>
hvars == <<hname, hsize, hmtype, hmbuf, hsfd, hspc, hcfd, hshown, hcpc>>
yvars == <<ymmask, ytmask, ypending, ysent, ympc, ytpc, yended>>
zvars == <<jJ, jpstate, jpgid>>
uvars == <<upc, ubuf, uheap, uci, usi, utotal, uprinted, usent>>
nvars == <<npath, nfifo, nspc, nsfd, ngot, ncpc, ncfd, nsigs>>
xvars == <<gvars, fvars, kvars, evars, hvars, yvars, zvars, uvars, nvars>>
pvars == <<tvars, bvars, ovars, svars, qvars, dvars, xvars>>
vars == <<cvvars, pvars, prog>>

I == INSTANCE SignallingSem
       WITH value <- ivalue, sem <- isem, mutex <- imutex, mpc <- impc,
            spc <- ispc, seen <- iseen
W == INSTANCE SignallingSem
       WITH value <- wvalue, sem <- wsem, mutex <- wmutex, mpc <- wmpc,
            spc <- wspc, seen <- wseen
P1 == INSTANCE SignallingCV
        WITH Waiters <- {Main}, value <- value1, mutex <- mutex1,
             wpc <- wpc1, spc <- spc1, seen <- seen1
P2 == INSTANCE SignallingCV
        WITH Waiters <- {w1, w2}, value <- value2, mutex <- mutex2,
             wpc <- wpc2, spc <- spc2, seen <- seen2
P3 == INSTANCE SignallingCV
        WITH Waiters <- {w1, w2, w3}, value <- value3, mutex <- mutex3,
             wpc <- wpc3, spc <- spc3, seen <- seen3
TW == INSTANCE TellWait WITH ppc <- tppc, cpc <- tcpc
PB == INSTANCE PipeBarrier
        WITH Children <- {w1, w2, w3}, cpc <- bcpc, ppc <- bppc
NR == INSTANCE CharAtATime WITH StrLen <- 2, Synced <- TRUE, pc <- opc
RC == INSTANCE CharAtATime WITH StrLen <- 2, Synced <- FALSE, pc <- opc
SX == INSTANCE ShmTransfer
        WITH Data <- {"a", "b"}, MaxBlocks <- 2, Eof <- "eof",
             input <- sinput, next <- snext, out <- sout, wpc <- swpc,
             rpc <- srpc
SC == INSTANCE ShmClientServer
        WITH Clients <- {w1, w2}, Words <- {"hi", "quit"}, NoClient <- NoThread,
             Empty <- "", arg <- sarg, shmExists <- cshmExists,
             semExists <- csemExists, spc <- sspc, cpc <- scpc
PD == INSTANCE PipeDup
        WITH Lines <- 2, fds <- dfds, pc <- dpc, reaped <- dreaped,
             pipe <- dpipe, lsk <- dlsk, count <- dcount, printed <- dprinted,
             lsExec <- dlsExec
SG == INSTANCE SigChld
        WITH NumChildren <- 3, Ticks <- 2, child <- gchild, i <- gi,
             mpc <- gmpc, hpc <- ghpc, pending <- gpending
F4 == INSTANCE ForkShm
        WITH NumItems <- 2, V0 <- <<0, 1>>, Inc <- 5, ChildPrints <- TRUE, mem <- fmem, k <- fk,
             ppc <- fppc, cpc <- fcpc, cout <- fcout, pout <- fpout
PX == INSTANCE PosixShm
        WITH Servers <- {s1, s2}, Clients <- {w1, w2}, NoObj <- NoThread,
             name <- hname, size <- hsize, mtype <- hmtype, mbuf <- hmbuf,
             sfd <- hsfd, spc <- hspc, cfd <- hcfd, shown <- hshown,
             cpc <- hcpc
ST == INSTANCE SignalThread
        WITH Signals <- {"INT", "USR1", "USR2"}, MaxSends <- 2,
             mmask <- ymmask, tmask <- ytmask, pending <- ypending,
             sent <- ysent, mpc <- ympc, tpc <- ytpc, ended <- yended
\* pssh_v2 jobs.c with MAX_JOBS 2: three pids, so that the table fills.
JT == INSTANCE PsshJobs
        WITH MaxJobs <- 2, MaxTasks <- 2, Pids <- {1, 2, 3}, J <- jJ,
             pstate <- jpstate, pgid <- jpgid
CP == INSTANCE CoProcess
        WITH Inputs <- {"nums", "text", ""}, input <- kinput, fds <- kfds,
             pc <- kpc, pipe0 <- kpipe0, pipe1 <- kpipe1, reply <- kreply
FG == INSTANCE Foreground
        WITH Prog <- "foreground", MaxSignals <- 2, tostop <- etostop,
             fg <- efg, cgrp <- ecgrp, cstate <- ecstate, cpc <- ecpc, report <- ereport,
             pending <- epending, child_dead <- echild_dead, saved <- esaved,
             mpc <- empc, hpc <- ehpc, sent <- esent
FT == INSTANCE Foreground
        WITH Prog <- "sigttou", MaxSignals <- 2, tostop <- etostop, fg <- efg,
             cgrp <- ecgrp, cstate <- ecstate, cpc <- ecpc, report <- ereport,
             pending <- epending, child_dead <- echild_dead, saved <- esaved,
             mpc <- empc, hpc <- ehpc, sent <- esent
FP == INSTANCE Foreground
        WITH Prog <- "pause", MaxSignals <- 2, tostop <- etostop, fg <- efg,
             cgrp <- ecgrp, cstate <- ecstate, cpc <- ecpc, report <- ereport,
             pending <- epending, child_dead <- echild_dead, saved <- esaved,
             mpc <- empc, hpc <- ehpc, sent <- esent
SJ == INSTANCE SigJmp
        WITH N <- 3, MaxSigs <- 2, Junk <- 7, pc <- upc, buf <- ubuf,
             heap <- uheap, ci <- uci, si <- usi, total <- utotal,
             printed <- uprinted, sent <- usent
HD == INSTANCE HalfDuplexFifo
        WITH Servers <- {s1, s2}, Clients <- {w1, w2},
             StrLen <- [c \in {w1, w2} |-> IF c = w1 THEN 1 ELSE 2], Max <- 2,
             MaxSigs <- 1, None <- NoFifo, path <- npath, fifo <- nfifo,
             spc <- nspc, sfd <- nsfd, got <- ngot, cpc <- ncpc, cfd <- ncfd,
             sigs <- nsigs
Grouping == {"foreground", "sigttou", "pause"}
FZ == INSTANCE ForkShm
        WITH NumItems <- 2, V0 <- <<10, 10>>, Inc <- 1, ChildPrints <- FALSE, mem <- fmem, k <- fk,
             ppc <- fppc, cpc <- fcpc, cout <- fcout, pout <- fpout

Init ==
  /\ prog \in {"if", "while", "v1", "v2", "chain", "tellwait", "pipebarrier",
               "norace", "race", "shm", "shmcs", "pipedup",
               "sigchld", "forkshm4", "forkshm", "coproc", "foreground", "sigttou", "pause",
               "posixshm", "sigthread", "pssh", "sigjmp", "fifo"}
  /\ I!Init /\ W!Init /\ P1!Init /\ P2!Init /\ P3!Init /\ TW!Init /\ PB!Init
  /\ SX!Init /\ (prog # "shm" => sinput = <<>>)
  /\ SC!Init /\ (prog # "shmcs" => ~cshmExists /\ sarg = [c \in {w1, w2} |-> "hi"])
  /\ IF prog = "race" THEN RC!Init ELSE NR!Init
  /\ PD!Init /\ SG!Init /\ F4!Init
  /\ CP!Init /\ (prog # "coproc" => kinput = "nums")
  /\ FG!Init /\ (prog \notin Grouping => ~etostop)
  /\ PX!Init /\ ST!Init /\ JT!Init /\ SJ!Init /\ HD!Init

(* Steps of each program; pthread_cond_wait of 03-simple_cv.c may return   *)
(* without a signal, which its while loop is written for.                  *)
Step ==
  \/ prog = "if" /\ I!NextIf
     /\ UNCHANGED <<wvars, vars1, vars2, vars3, pvars>>
  \/ prog = "while" /\ W!NextWhile
     /\ UNCHANGED <<ivars, vars1, vars2, vars3, pvars>>
  \/ prog = "v1" /\ P1!NextV1
     /\ UNCHANGED <<ivars, wvars, vars2, vars3, pvars>>
  \/ prog = "v2" /\ P2!NextV2
     /\ UNCHANGED <<ivars, wvars, vars1, vars3, pvars>>
  \/ prog = "chain" /\ (P3!NextChain \/ P3!Spurious)
     /\ UNCHANGED <<ivars, wvars, vars1, vars2, pvars>>
  \/ prog = "tellwait" /\ TW!Next /\ UNCHANGED <<cvvars, bvars, ovars, svars, qvars, dvars, xvars>>
  \/ prog = "pipebarrier" /\ PB!Next /\ UNCHANGED <<cvvars, tvars, ovars, svars, qvars, dvars, xvars>>
  \/ prog = "norace" /\ NR!Next /\ UNCHANGED <<cvvars, tvars, bvars, svars, qvars, dvars, xvars>>
  \/ prog = "race" /\ RC!Next /\ UNCHANGED <<cvvars, tvars, bvars, svars, qvars, dvars, xvars>>
  \/ prog = "shm" /\ SX!Next /\ UNCHANGED <<cvvars, tvars, bvars, ovars, qvars, dvars, xvars>>
  \/ prog = "shmcs" /\ SC!Next /\ UNCHANGED <<cvvars, tvars, bvars, ovars, svars, dvars, xvars>>
  \/ prog = "pipedup" /\ PD!Next /\ UNCHANGED <<cvvars, tvars, bvars, ovars, svars, qvars, xvars>>
  \/ prog = "sigchld" /\ SG!Next /\ UNCHANGED <<cvvars, tvars, bvars, ovars, svars, qvars, dvars, fvars, kvars, evars, hvars, yvars, zvars, uvars, nvars>>
  \/ prog = "forkshm4" /\ F4!Next /\ UNCHANGED <<cvvars, tvars, bvars, ovars, svars, qvars, dvars, gvars, kvars, evars, hvars, yvars, zvars, uvars, nvars>>
  \/ prog = "forkshm" /\ FZ!Next /\ UNCHANGED <<cvvars, tvars, bvars, ovars, svars, qvars, dvars, gvars, kvars, evars, hvars, yvars, zvars, uvars, nvars>>
  \/ prog = "foreground" /\ FG!Next /\ UNCHANGED <<cvvars, tvars, bvars, ovars, svars, qvars, dvars, gvars, fvars, kvars, hvars, yvars, zvars, uvars, nvars>>
  \/ prog = "sigttou" /\ FT!Next /\ UNCHANGED <<cvvars, tvars, bvars, ovars, svars, qvars, dvars, gvars, fvars, kvars, hvars, yvars, zvars, uvars, nvars>>
  \/ prog = "pause" /\ FP!Next /\ UNCHANGED <<cvvars, tvars, bvars, ovars, svars, qvars, dvars, gvars, fvars, kvars, hvars, yvars, zvars, uvars, nvars>>
  \/ prog = "posixshm" /\ PX!Next /\ UNCHANGED <<cvvars, tvars, bvars, ovars, svars, qvars, dvars, gvars, fvars, kvars, evars, yvars, zvars, uvars, nvars>>
  \/ prog = "sigthread" /\ ST!Next /\ UNCHANGED <<cvvars, tvars, bvars, ovars, svars, qvars, dvars, gvars, fvars, kvars, evars, hvars, zvars, uvars, nvars>>
  \/ prog = "pssh" /\ JT!Next /\ UNCHANGED <<cvvars, tvars, bvars, ovars, svars, qvars, dvars, gvars, fvars, kvars, evars, hvars, yvars, uvars, nvars>>
  \/ prog = "sigjmp" /\ SJ!Next /\ UNCHANGED <<cvvars, tvars, bvars, ovars, svars, qvars, dvars, gvars, fvars, kvars, evars, hvars, yvars, zvars, nvars>>
  \/ prog = "fifo" /\ HD!Next /\ UNCHANGED <<cvvars, tvars, bvars, ovars, svars, qvars, dvars, gvars, fvars, kvars, evars, hvars, yvars, zvars, uvars>>
  \/ prog = "coproc" /\ CP!Next /\ UNCHANGED <<cvvars, tvars, bvars, ovars, svars, qvars, dvars, gvars, fvars, evars, hvars, yvars, zvars, uvars, nvars>>

Next == Step /\ UNCHANGED prog

\* pthread_cond_wait of v1 and v2 may also return without a signal.
NextSpurious ==
  \/ Next
  \/ prog = "v1" /\ P1!Spurious
     /\ UNCHANGED <<ivars, wvars, vars2, vars3, pvars, prog>>
  \/ prog = "v2" /\ P2!Spurious
     /\ UNCHANGED <<ivars, wvars, vars1, vars3, pvars, prog>>

Fairness ==
  /\ WF_ivars(prog = "if" /\ I!Signaller_) /\ WF_ivars(prog = "if" /\ I!MainIf)
  /\ WF_wvars(prog = "while" /\ W!Signaller_)
  /\ WF_wvars(prog = "while" /\ W!MainWhile)
  /\ WF_vars1(prog = "v1" /\ P1!Waiter(Main))
  /\ WF_vars1(prog = "v1" /\ P1!SignallerV1)
  /\ \A w \in {w1, w2} : WF_vars2(prog = "v2" /\ P2!Waiter(w))
  /\ WF_vars2(prog = "v2" /\ P2!SignallerV2)
  /\ \A w \in {w1, w2, w3} : WF_vars3(prog = "chain" /\ P3!WaiterChain(w))
  /\ WF_vars3(prog = "chain" /\ P3!SignallerV1)
  /\ WF_tvars(prog = "tellwait" /\ TW!Parent)
  /\ WF_tvars(prog = "tellwait" /\ TW!Child)
  /\ WF_bvars(prog = "pipebarrier" /\ PB!ParentStep)
  /\ \A c \in {w1, w2, w3} : WF_bvars(prog = "pipebarrier" /\ PB!Child(c))
  /\ \A p \in {Parent, Child} : WF_ovars(prog = "norace" /\ NR!Proc(p))
  /\ \A p \in {Parent, Child} : WF_ovars(prog = "race" /\ RC!Proc(p))
  /\ WF_svars(prog = "shm" /\ SX!Writer) /\ WF_svars(prog = "shm" /\ SX!Reader)
  /\ WF_qvars(prog = "shmcs" /\ SC!Server)
  /\ \A c \in {w1, w2} : WF_qvars(prog = "shmcs" /\ SC!Client(c))
  /\ \A p \in PD!Procs : WF_dvars(prog = "pipedup" /\ PD!Proc(p))
  /\ WF_gvars(prog = "sigchld" /\ SG!Main)
  /\ \A c \in SG!Children : WF_gvars(prog = "sigchld" /\ SG!ChildExit(c))
  /\ WF_fvars(prog = "forkshm4" /\ F4!Parent) /\ WF_fvars(prog = "forkshm4" /\ F4!ChildStep)
  /\ WF_fvars(prog = "forkshm" /\ FZ!Parent) /\ WF_fvars(prog = "forkshm" /\ FZ!ChildStep)
  /\ WF_kvars(prog = "coproc" /\ CP!Parent) /\ WF_kvars(prog = "coproc" /\ CP!Child)
  /\ WF_evars(prog = "foreground" /\ FG!Main)
  /\ WF_evars(prog = "foreground" /\ FG!Child)
  /\ WF_evars(prog = "sigttou" /\ FT!Main) /\ WF_evars(prog = "sigttou" /\ FT!Child)
  /\ WF_evars(prog = "pause" /\ FP!Main) /\ WF_evars(prog = "pause" /\ FP!Child)
  /\ \A x \in {s1, s2} : WF_hvars(prog = "posixshm" /\ PX!Server(x))
  /\ \A c \in {w1, w2} : WF_hvars(prog = "posixshm" /\ PX!Client(c))
  /\ WF_yvars(prog = "sigthread" /\ ST!Main)
  /\ WF_yvars(prog = "sigthread" /\ ST!SigWait)
  /\ \A p \in {1, 2, 3} : WF_zvars(prog = "pssh" /\ JT!Reap(p))

Spec == Init /\ [][Next]_vars /\ Fairness

SpecSpurious == Init /\ [][NextSpurious]_vars /\ Fairness

-----------------------------------------------------------------------------
TypeOK == I!TypeOK /\ W!TypeOK /\ TW!TypeOK /\ PB!TypeOK /\ NR!TypeOK
          /\ SX!TypeOK /\ SC!TypeOK /\ PD!TypeOK
          /\ SG!TypeOK /\ F4!TypeOK /\ CP!TypeOK /\ FG!TypeOK
          /\ PX!TypeOK /\ ST!TypeOK /\ JT!TypeOK /\ SJ!TypeOK /\ HD!TypeOK


(* signalling_using_semaphores.c: main always returns from pthread_join.   *)
IfTermination == prog = "if" => I!Termination


(* signalling_using_semaphores.c, whose thread posts only after setting  *)
(* the value, and condition-variable v1, v2 and 03-simple_cv.c: a waiter  *)
(* that reports the value has seen it set.                                 *)
SeesValue ==
  I!MainSeesValue /\ P1!WaiterSeesValue /\ P2!WaiterSeesValue /\ P3!WaiterSeesValue

(* No wake-up is lost: in 01-signaling_semaphore.c main leaves its loop   *)
(* and joins, as the semaphore keeps a post made before its sem_wait; in   *)
(* condition-variable v1 and v2 every waiter and the signalling thread     *)
(* finish, as no signal is lost between the predicate test and             *)
(* pthread_cond_wait, and the broadcast reaches both v2 waiters.           *)
WakeupTermination ==
  <>(/\ prog = "while" => wmpc = "exited"
     /\ prog = "v1" => P1!AllDone
     /\ prog = "v2" => P2!AllDone)

(* 03-simple_cv.c: the one pthread_cond_signal of signal_thread, passed on *)
(* by each waiter that gets through, wakes every waiter, whatever the     *)
(* order of arrival and spurious wakeups, unless wakeups go on forever.    *)
ChainTermination ==
  prog = "chain" => ([]<><<P3!Spurious>>_vars3 \/ <>P3!AllDone)

(* sync_with_pipes.c: the child reads message.txt only after the parent's *)
(* tell_child, and so sees the parent's line, whatever an earlier run left *)
(* in the file.                                                            *)
ChildReadsMessage == TW!ChildReadsMessage


(* barrier_sync_with_pipes.c: "Barrier crossed" is printed only after      *)
(* every child has finished its work.                                      *)
BarrierHolds == PB!BarrierHolds

(* The pipe synchronisations end: in sync_with_pipes.c both processes     *)
(* exit, unless the parent's fopen failed and left the child blocked in    *)
(* wait_for_parent; in barrier_sync_with_pipes.c the parent's read does    *)
(* return end of file once every child has closed its write end.           *)
PipeSyncTermination ==
  /\ prog = "tellwait" => TW!Termination
  /\ prog = "pipebarrier" => PB!Termination

(* no_race.c: the child's string comes after the whole of the parent's.    *)
NoInterleave == prog = "norace" => NR!NoInterleave

(* svshm_xfr_reader.c: the reader's stdout is always a prefix of the       *)
(* writer's stdin, and all of it once the reader exits normally.           *)
DeliveredInOrder == SX!DeliveredInOrder

(* svshm_xfr: both programs exit and remove the IPC objects, unless the    *)
(* reader ran before the writer created them.                              *)
ShmTermination == prog = "shm" => SX!Termination

(* sv_xfr.c: the server prints, and stops on, only what the clients of     *)
(* this run stored in the segment.                                         *)
ServerReadsThisRun == SC!ServerReadsThisRun

(* sv_xfr.c with cl_xfr.c: every line the server prints is one client's   *)
(* id and string as that client stored them.                               *)
ShmMessageIntact == prog = "shmcs" => SC!MessageIntact

(* What goes through a pipe arrives: in 2-pipes-dup.c a wc -l that prints  *)
(* after ls -l ran counts every line ls wrote into the pipe; in            *)
(* simple_co_process.c the parent prints the sum add2 computed of argv[1]. *)
PipeDataDelivered == PD!WcCountsAll /\ CP!SumOfInput

(* The processes of the pipe programs exit: in 2-pipes-dup.c the parent   *)
(* and every child it or a failed child forks, also when an execlp fails  *)
(* and the child runs on in main; in simple_co_process.c the parent,      *)
(* unless argv[1] is empty.                                                *)
PipeProcessesExit ==
  /\ prog = "pipedup" => PD!AllExit
  /\ prog = "coproc" => CP!CoprocessTermination

(* 5-sigchld.c: main never returns with a zombie child, though SIGCHLD     *)
(* does not queue and is masked while handler runs.                        *)
NoZombieAtReturn == SG!NoZombieAtReturn

(* 4-shared_memory.c: the child prints the parent's values; it,           *)
(* simple_shm_example.c and shared_memory.c: the parent, after wait,       *)
(* prints the child's.                                                     *)
ValuesShared ==
  /\ prog = "forkshm4" => F4!ValuesShared
  /\ prog = "forkshm" => FZ!ValuesShared

(* 1-foreground.c, 2-sigttou.c and 3-pause.c: when main returns the child *)
(* has been reaped and the parent's group has the terminal, however the   *)
(* child's stops, continues and exit interleave with safe_print's          *)
(* hand-overs of the terminal and, in 3-pause.c, with handler_sigttou's    *)
(* The pgroups programs: while main waits for the child and the child's  *)
(* group lives, the terminal is the child's, through every safe_print.     *)
ChildKeepsTerminal == prog \in Grouping => FG!ChildKeepsTerminal

(* The pgroups programs: left alone by the user, with tostop off and a     *)
(* working execlp, the child exits and main's while (!child_dead) pause()  *)
(* loop ends, so main returns.                                             *)
ForegroundTermination == prog \in Grouping => FG!ForegroundTermination

(* shm/posix sv_xfr.c: once a server run has stored its message whole, no  *)
(* other run of the server changes it, whichever runs of the server and   *)
(* of cl_xfr.c overlap (the O_EXCL of its shm_open).                       *)
PosixMessageNeverOverwritten == PX!MessageNeverOverwritten

(* signal_handler_thread.c and 7-thread.c: a signal sent once main has     *)
(* blocked all signals never kills the process, since signal_handler       *)
(* inherits the mask, and sigwait eventually takes it.                     *)
SignalsReachHandler == ST!SignalsReachHandler

(* 6-sigsetjmp.c: however Ctrl-C interrupts the calculation or the sum, a  *)
(* total main prints from the live buffer is the sum of the squares        *)
(* do_calculation stored before the interrupt.                             *)
TotalIsSquareSum == SJ!TotalIsSquareSum

(* ipc/server_code.c: once no server runs, no FIFO is left at the name,   *)
(* whatever the order of the runs and wherever Ctrl-C stops a server.      *)
NoStaleFifo == HD!NoStaleFifo

(* pssh_v2 jobs.c: job_remove_pid and job_delete keep the job table true   *)
(* to the kernel through exits, reaps and the reuse of pids.               *)
JobTableTracksProcesses == JT!JobTableTracksProcesses

(* pssh_v2 builtin.c: bg, fg and kill %n signal only the processes job n   *)
(* lists, also when n names a deleted entry whose pgrp is now the pid of   *)
(* another job's leader.                                                   *)
KillOnlyNamedJob == JT!KillOnlyNamedJob

=============================================================================
