------------------------------ MODULE MCBarbers ------------------------------
(***************************************************************************)
(* The semaphore-coordinated thread programs, each checked on its own: a   *)
(* behaviour runs src/code_examples/thr/sleeping_barber.c (prog = "thr"),   *)
(* shackleford/src/sync/sem/02-sleeping_barber.c (prog = "shop") or the    *)
(* two barrier programs side by side (prog = "barriers"): C is             *)
(* barrier_synchronization_with_condition_variables.c with three threads  *)
(* and CVIterations rounds, S is barrier_synchronization_with_semaphores.c *)
(* with four threads and SemIterations rounds; they share no state.  The   *)
(* client/server socket programs run as well: sockets/us_xfr_server.c with *)
(* us_xfr_client.c (prog = "xfr", X) and ud_ucase_server.c with            *)
(* ud_ucase_client.c (prog = "ucase", G), each with two server runs, two   *)
(* client runs and one Ctrl-C, and signals/sol/primes.c with its alarm    *)
(* (prog = "primes", R).  The variables of the programs that do not        *)
(* run keep their initial values.                                          *)
(* Fairness is asserted only of the program that runs.                     *)
(***************************************************************************)
EXTENDS Naturals, Sequences

CONSTANTS c1, c2, c3, Customers, NumChairs, t1, t2, t3, t4, NoThread,
          sv1, sv2, cl1, cl2, NoSock, Junk

\* The stream clients' stdin: one byte, and three, more than BUF_SIZE.
XferLen == [c \in {cl1, cl2} |-> IF c = cl1 THEN 1 ELSE 3]

\* The datagram clients' arguments: cl1 sends one longer than BUF_SIZE and
\* then a shorter one, so buf still holds a byte of the first.
UcaseArgs == [c \in {cl1, cl2} |-> IF c = cl1 THEN <<3, 1>> ELSE <<1>>]

\* Three rounds: a thread released from round k can re-enter barrier_sync
\* for round k+1 while others still wait to reacquire the mutex.
CVIterations == 3

\* One round: the post loop runs three times; reuse of the semaphore
\* barrier is checked by MCBarrierSem.cfg.
SemIterations == 1

VARIABLES
  waiting_room, barber_seat, done_with_customer, barber_bed,
  done_with_all_customers, cpc, bpc, mpc, haircut,
  sh_waiting_room, barber_chair, done_cutting, awake, empty, destroyed,
  sh_cpc, sh_bpc, sh_mpc, sh_haircut,
  mutex, counter, pc, i,
  counter_sem, barrier_sem, scounter, spc, si, posted,
  x_path, x_spc, x_queue, x_conn, x_out, x_acc, x_cpc, x_srv, x_nread,
  x_chunk, x_data, x_eof, x_shut, x_kills,
  g_path, g_spc, g_inbox, g_buf, g_nbytes, g_claddr, g_cpc, g_bound,
  g_cinbox, g_j, g_printed, g_kills,
  r_pc, r_try, r_found, r_primes, r_blocked, r_armed, r_pending, r_fired,
  r_reports,
  prog

thrvars == <<waiting_room, barber_seat, done_with_customer, barber_bed,
             done_with_all_customers, cpc, bpc, mpc, haircut>>
shopvars == <<sh_waiting_room, barber_chair, done_cutting, awake, empty,
              destroyed, sh_cpc, sh_bpc, sh_mpc, sh_haircut>>
cvars == <<mutex, counter, pc, i>>
svars == <<counter_sem, barrier_sem, scounter, spc, si, posted>>
xvars == <<x_path, x_spc, x_queue, x_conn, x_out, x_acc, x_cpc, x_srv,
           x_nread, x_chunk, x_data, x_eof, x_shut, x_kills>>
gvars == <<g_path, g_spc, g_inbox, g_buf, g_nbytes, g_claddr, g_cpc, g_bound,
           g_cinbox, g_j, g_printed, g_kills>>
rvars == <<r_pc, r_try, r_found, r_primes, r_blocked, r_armed, r_pending,
           r_fired, r_reports>>
vars == <<thrvars, shopvars, cvars, svars, xvars, gvars, rvars, prog>>

T == INSTANCE SleepingBarber

B == INSTANCE BarberShop WITH waiting_room <- sh_waiting_room, cpc <- sh_cpc,
       bpc <- sh_bpc, mpc <- sh_mpc, haircut <- sh_haircut

C == INSTANCE BarrierCV
       WITH Threads <- {t1, t2, t3}, Iterations <- CVIterations
S == INSTANCE BarrierSem
       WITH Threads <- {t1, t2, t3, t4}, Iterations <- SemIterations,
            counter <- scounter, pc <- spc, i <- si

\* BACKLOG 0 stands for 5: a second connection then finds the queue full.
X == INSTANCE StreamXfr
       WITH Servers <- {sv1, sv2}, Clients <- {cl1, cl2}, StrLen <- XferLen,
            BufSize <- 2, Backlog <- 0, MaxKills <- 1, None <- NoSock,
            path <- x_path, spc <- x_spc, queue <- x_queue, conn <- x_conn,
            out <- x_out, acc <- x_acc, cpc <- x_cpc, srv <- x_srv,
            nread <- x_nread, chunk <- x_chunk, data <- x_data, eof <- x_eof,
            shut <- x_shut, kills <- x_kills

\* BUF_SIZE 2 stands for 10: cl1's first argument is cut.
G == INSTANCE DgramUcase
       WITH Servers <- {sv1, sv2}, Clients <- {cl1, cl2}, Msgs <- UcaseArgs,
            BufSize <- 2, MaxKills <- 1, None <- NoSock,
            path <- g_path, spc <- g_spc, inbox <- g_inbox, buf <- g_buf,
            nbytes <- g_nbytes, claddr <- g_claddr, cpc <- g_cpc,
            bound <- g_bound, cinbox <- g_cinbox, j <- g_j,
            printed <- g_printed, kills <- g_kills

(* NUM_PRIMES 6 stands for 10000000: the fifth prime is found, so reports *)
(* before and after it happen; two alarms; a 5-bit unsigned int, wide      *)
(* enough for the primes up to 13; try kept in memory across the jump.     *)
R == INSTANCE Primes
       WITH NumPrimes <- 6, MaxAlarms <- 2, Width <- 5, TryRestored <- FALSE,
            pc <- r_pc, try <- r_try, num_found <- r_found, primes <- r_primes,
            blocked <- r_blocked, armed <- r_armed, pending <- r_pending,
            fired <- r_fired, reports <- r_reports

Init ==
  /\ prog \in {"thr", "shop", "barriers", "xfr", "ucase", "primes"}
  /\ T!Init /\ B!Init /\ C!Init /\ S!Init /\ X!Init /\ G!Init /\ R!Init

Next ==
  /\ \/ prog = "thr" /\ T!Next /\ UNCHANGED <<shopvars, cvars, svars, xvars, gvars, rvars>>
     \/ prog = "shop" /\ B!Next /\ UNCHANGED <<thrvars, cvars, svars, xvars, gvars, rvars>>
     \/ prog = "barriers" /\ C!Next /\ UNCHANGED <<thrvars, shopvars, svars, xvars, gvars, rvars>>
     \/ prog = "barriers" /\ S!Next /\ UNCHANGED <<thrvars, shopvars, cvars, xvars, gvars, rvars>>
     \/ prog = "xfr" /\ X!Next /\ UNCHANGED <<thrvars, shopvars, cvars, svars, gvars, rvars>>
     \/ prog = "ucase" /\ G!Next /\ UNCHANGED <<thrvars, shopvars, cvars, svars, xvars, rvars>>
     \/ prog = "primes" /\ R!Next /\ UNCHANGED <<thrvars, shopvars, cvars, svars, xvars, gvars>>
  /\ UNCHANGED prog

\* Each runnable thread of the running program is eventually scheduled.
Spec ==
  /\ Init /\ [][Next]_vars
  /\ \A c \in Customers : WF_thrvars(prog = "thr" /\ T!Customer(c))
  /\ WF_thrvars(prog = "thr" /\ T!Barber)
  /\ WF_thrvars(prog = "thr" /\ T!Main)
  /\ \A c \in Customers : WF_shopvars(prog = "shop" /\ B!Customer(c))
  /\ WF_shopvars(prog = "shop" /\ B!Barber)
  /\ WF_shopvars(prog = "shop" /\ B!Main)
  /\ \A t \in {t1, t2, t3} : WF_cvars(prog = "barriers" /\ C!Thread(t))
  /\ \A t \in {t1, t2, t3, t4} : WF_svars(prog = "barriers" /\ S!Thread(t))
  /\ WF_rvars(prog = "primes" /\ R!Main)

-----------------------------------------------------------------------------
TypeOK == T!TypeOK /\ B!TypeOK /\ C!TypeOK /\ S!TypeOK /\ X!TypeOK /\ G!TypeOK /\ R!TypeOK

(* sleeping_barber.c: the barber cuts only while exactly one customer is   *)
(* seated and waiting for done_with_customer; 02-sleeping_barber.c: only   *)
(* while exactly one customer holds the chair and waits on done_cutting.   *)
CutServesOneWaitingCustomer ==
  /\ prog = "thr" => T!CutServesOneWaitingCustomer
  /\ prog = "shop" => B!CutServesSeated

(* sleeping_barber.c and 02-sleeping_barber.c: every customer that leaves *)
(* or goes home had exactly one haircut.                                   *)
OneHaircutEach ==
  /\ prog = "thr" => T!OneHaircutEach
  /\ prog = "shop" => B!OneHaircutEach

(* sleeping_barber.c: the barber exits only after every customer left.     *)
BarberLeavesLast == prog = "thr" => T!BarberLeavesLast

(* Every program: main eventually exits; in the barrier programs every     *)
(* thread completes its rounds, so both mains return from their            *)
(* pthread_join loops; primes.c returns however the alarms interrupt it.   *)
Termination ==
  /\ prog = "thr" => T!Termination
  /\ prog = "shop" => B!Termination
  /\ prog = "barriers" => C!Termination /\ S!Termination
  /\ prog = "primes" => R!Termination

(* The condition-variable barrier_sync implements the cyclic barrier: no   *)
(* thread returns for round k before all three have entered it for round k.*)
(* In the other programs the barrier variables keep their initial values,  *)
(* which the abstract barrier allows, so the property needs no guard.      *)
CVRefinement == C!BarrierRefinement

(* The semaphore barrier_sync, used once, implements the cyclic barrier.   *)
SemRefinement == S!BarrierRefinement

(* us_xfr_server.c: each server's stdout is, connection by connection in   *)
(* accept order, a leading part of one client's stdin, and the whole of it *)
(* once the connection is closed and the client reached EOF.               *)
StreamsWhole == X!StreamsWhole

(* ud_ucase_client.c: response k is the upper case of argument k, cut to   *)
(* BUF_SIZE bytes, whatever the other client sends meanwhile.              *)
RepliesMatch == G!RepliesMatch

(* signals/sol/primes.c: wherever the alarm's siglongjmp falls, primes[]  *)
(* holds the first num_found primes once each, and every report lists the *)
(* last five found so far, or none before the fifth.                       *)
ReportsListPrimes == prog = "primes" => R!ReportsListPrimes

(* 02-sleeping_barber.c: barbershop_destroy never destroys the semaphore   *)
(* the barber is blocked on.                                               *)
ShopNoWaitOnDestroyed == prog = "shop" => B!NoWaitOnDestroyed

=============================================================================
