--------------------------- MODULE SleepingBarber ---------------------------
(***************************************************************************)
(* The sleeping-barber program of src/code_examples/thr/sleeping_barber.c.*)
(*                                                                         *)
(* One barber thread, one thread per customer and the main thread share    *)
(* four POSIX semaphores and the flag done_with_all_customers.  Every      *)
(* thread is a program counter; every semaphore call is one atomic step:   *)
(* sem_wait is enabled only when the value is positive and decrements it,  *)
(* sem_post increments it.  The random sleeps (travel, cutting) are left   *)
(* to the interleaving.  The flag is read and written without a lock; an   *)
(* int load or store is atomic on the targets the course uses, so each     *)
(* read sees either the old or the new value, which the interleaving      *)
(* already gives.                                                          *)
(*                                                                         *)
(* haircut is a history variable: the number of times the barber finished *)
(* cutting (sem_post(&done_with_customer)) while that customer held the    *)
(* barber seat.                                                            *)
(***************************************************************************)
EXTENDS Naturals, FiniteSets

CONSTANTS
  Customers,   \* the customer threads (argv[1] of them)
  NumChairs    \* num_waiting_chairs, argv[2]

ASSUME NumChairs \in Nat

VARIABLES
  waiting_room, barber_seat, done_with_customer, barber_bed, \* semaphores
  done_with_all_customers,                                  \* shared flag
  cpc,       \* program counter of each customer thread
  bpc,       \* program counter of the barber thread
  mpc,       \* program counter of the main thread
  haircut    \* history: haircuts given to each customer

sems == <<waiting_room, barber_seat, done_with_customer, barber_bed>>
vars == <<sems, done_with_all_customers, cpc, bpc, mpc, haircut>>

CustomerPC == {"arrive", "wait_seat", "post_room", "wake_barber",
               "wait_done", "leave_seat", "exited"}
BarberPC   == {"loop", "sleep", "check", "cut", "exited"}
MainPC     == {"join_customers", "set_done", "wake_barber", "join_barber",
               "exited"}

\* Customers holding the barber seat: between sem_wait(&barber_seat) and
\* sem_post(&barber_seat).
Seated == {c \in Customers :
             cpc[c] \in {"post_room", "wake_barber", "wait_done", "leave_seat"}}


-----------------------------------------------------------------------------
(* main(): the four sem_init calls and the thread creation.                *)
Init ==
  /\ waiting_room = NumChairs
  /\ barber_seat = 1
  /\ done_with_customer = 0
  /\ barber_bed = 0
  /\ done_with_all_customers = FALSE
  /\ cpc = [c \in Customers |-> "arrive"]
  /\ bpc = "loop"
  /\ mpc = "join_customers"
  /\ haircut = [c \in Customers |-> 0]

-----------------------------------------------------------------------------
(* customer(): one action per semaphore call.                              *)

\* sem_wait(&waiting_room), after the travel sleep.
CustomerEnterRoom(c) ==
  /\ cpc[c] = "arrive"
  /\ waiting_room > 0
  /\ waiting_room' = waiting_room - 1
  /\ cpc' = [cpc EXCEPT ![c] = "wait_seat"]
  /\ UNCHANGED <<barber_seat, done_with_customer, barber_bed,
                 done_with_all_customers, bpc, mpc, haircut>>

\* sem_wait(&barber_seat): wait for the barber to become free.
CustomerTakeSeat(c) ==
  /\ cpc[c] = "wait_seat"
  /\ barber_seat > 0
  /\ barber_seat' = barber_seat - 1
  /\ cpc' = [cpc EXCEPT ![c] = "post_room"]
  /\ UNCHANGED <<waiting_room, done_with_customer, barber_bed,
                 done_with_all_customers, bpc, mpc, haircut>>

\* sem_post(&waiting_room): the waiting-room seat is free again.
CustomerLeaveRoom(c) ==
  /\ cpc[c] = "post_room"
  /\ waiting_room' = waiting_room + 1
  /\ cpc' = [cpc EXCEPT ![c] = "wake_barber"]
  /\ UNCHANGED <<barber_seat, done_with_customer, barber_bed,
                 done_with_all_customers, bpc, mpc, haircut>>

\* sem_post(&barber_bed): wake the barber.
CustomerWakeBarber(c) ==
  /\ cpc[c] = "wake_barber"
  /\ barber_bed' = barber_bed + 1
  /\ cpc' = [cpc EXCEPT ![c] = "wait_done"]
  /\ UNCHANGED <<waiting_room, barber_seat, done_with_customer,
                 done_with_all_customers, bpc, mpc, haircut>>

\* sem_wait(&done_with_customer): wait until the hair is cut.
CustomerWaitDone(c) ==
  /\ cpc[c] = "wait_done"
  /\ done_with_customer > 0
  /\ done_with_customer' = done_with_customer - 1
  /\ cpc' = [cpc EXCEPT ![c] = "leave_seat"]
  /\ UNCHANGED <<waiting_room, barber_seat, barber_bed,
                 done_with_all_customers, bpc, mpc, haircut>>

\* sem_post(&barber_seat), then pthread_exit.
CustomerLeaveSeat(c) ==
  /\ cpc[c] = "leave_seat"
  /\ barber_seat' = barber_seat + 1
  /\ cpc' = [cpc EXCEPT ![c] = "exited"]
  /\ UNCHANGED <<waiting_room, done_with_customer, barber_bed,
                 done_with_all_customers, bpc, mpc, haircut>>

-----------------------------------------------------------------------------
(* barber(): the while loop, its sem_wait and its inner re-check.          *)

\* while (!done_with_all_customers): enter the body or exit the thread.
BarberLoopTest ==
  /\ bpc = "loop"
  /\ bpc' = IF done_with_all_customers THEN "exited" ELSE "sleep"
  /\ UNCHANGED <<sems, done_with_all_customers, cpc, mpc, haircut>>

\* sem_wait(&barber_bed).
BarberSleep ==
  /\ bpc = "sleep"
  /\ barber_bed > 0
  /\ barber_bed' = barber_bed - 1
  /\ bpc' = "check"
  /\ UNCHANGED <<waiting_room, barber_seat, done_with_customer,
                 done_with_all_customers, cpc, mpc, haircut>>

\* Mutant: the barber cuts whenever woken, without if (!done_with_all_customers).
BarberCheckNoFlag ==
  /\ bpc = "check"
  /\ bpc' = "cut"
  /\ UNCHANGED <<sems, done_with_all_customers, cpc, mpc, haircut>>

\* if (!done_with_all_customers): cut hair, else print "Going home".
BarberCheck ==
  /\ bpc = "check"
  /\ bpc' = IF done_with_all_customers THEN "loop" ELSE "cut"
  /\ UNCHANGED <<sems, done_with_all_customers, cpc, mpc, haircut>>

\* Mutant: the barber posts done_with_customer twice per haircut.
BarberCutTwice ==
  /\ bpc = "cut"
  /\ done_with_customer' = done_with_customer + 2
  /\ haircut' = [c \in Customers |->
                   IF c \in Seated THEN haircut[c] + 1 ELSE haircut[c]]
  /\ bpc' = "loop"
  /\ UNCHANGED <<waiting_room, barber_seat, barber_bed,
                 done_with_all_customers, cpc, mpc>>

\* sleep(wait_time); sem_post(&done_with_customer).
BarberCut ==
  /\ bpc = "cut"
  /\ done_with_customer' = done_with_customer + 1
  /\ haircut' = [c \in Customers |->
                   IF c \in Seated THEN haircut[c] + 1 ELSE haircut[c]]
  /\ bpc' = "loop"
  /\ UNCHANGED <<waiting_room, barber_seat, barber_bed,
                 done_with_all_customers, cpc, mpc>>

-----------------------------------------------------------------------------
(* main(), after the threads are created.                                  *)

\* Mutant: the flag is raised without waiting for the customers.
MainJoinCustomersEarly ==
  /\ mpc = "join_customers"
  /\ mpc' = "set_done"
  /\ UNCHANGED <<sems, done_with_all_customers, cpc, bpc, haircut>>

\* for (...) pthread_join(tid[i], 0): returns once every customer exited.
MainJoinCustomers ==
  /\ mpc = "join_customers"
  /\ \A c \in Customers : cpc[c] = "exited"
  /\ mpc' = "set_done"
  /\ UNCHANGED <<sems, done_with_all_customers, cpc, bpc, haircut>>

\* done_with_all_customers = TRUE.
MainSetDone ==
  /\ mpc = "set_done"
  /\ done_with_all_customers' = TRUE
  /\ mpc' = "wake_barber"
  /\ UNCHANGED <<sems, cpc, bpc, haircut>>

\* Mutant: main forgets to wake the barber.
MainWakeBarberNoPost ==
  /\ mpc = "wake_barber"
  /\ mpc' = "join_barber"
  /\ UNCHANGED <<sems, done_with_all_customers, cpc, bpc, haircut>>

\* sem_post(&barber_bed): wake the barber so it sees the flag.
MainWakeBarber ==
  /\ mpc = "wake_barber"
  /\ barber_bed' = barber_bed + 1
  /\ mpc' = "join_barber"
  /\ UNCHANGED <<waiting_room, barber_seat, done_with_customer,
                 done_with_all_customers, cpc, bpc, haircut>>

\* pthread_join(btid, 0); exit(EXIT_SUCCESS).
MainJoinBarber ==
  /\ mpc = "join_barber"
  /\ bpc = "exited"
  /\ mpc' = "exited"
  /\ UNCHANGED <<sems, done_with_all_customers, cpc, bpc, haircut>>

-----------------------------------------------------------------------------
Customer(c) ==
  \/ CustomerEnterRoom(c)
  \/ CustomerTakeSeat(c)
  \/ CustomerLeaveRoom(c)
  \/ CustomerWakeBarber(c)
  \/ CustomerWaitDone(c)
  \/ CustomerLeaveSeat(c)

Barber == BarberLoopTest \/ BarberSleep \/ BarberCheck \/ BarberCut

Main == MainJoinCustomers \/ MainSetDone \/ MainWakeBarber \/ MainJoinBarber

Next == (\E c \in Customers : Customer(c)) \/ Barber \/ Main

(* Every runnable thread is eventually scheduled (the Linux scheduler      *)
(* runs every runnable thread); a thread blocked in sem_wait is not        *)
(* runnable, which the guards express.                                     *)
Fairness ==
  /\ \A c \in Customers : WF_vars(Customer(c))
  /\ WF_vars(Barber)
  /\ WF_vars(Main)

Spec == Init /\ [][Next]_vars /\ Fairness

-----------------------------------------------------------------------------
TypeOK ==
  /\ waiting_room \in 0..NumChairs
  /\ barber_seat \in 0..1
  /\ done_with_customer \in 0..1
  /\ barber_bed \in 0..Cardinality(Customers) + 1
  /\ done_with_all_customers \in BOOLEAN
  /\ cpc \in [Customers -> CustomerPC]
  /\ bpc \in BarberPC
  /\ mpc \in MainPC
  /\ haircut \in [Customers -> Nat]

(* Whenever the barber is cutting (between sem_wait(&barber_bed) passing   *)
(* the flag check and sem_post(&done_with_customer)), exactly one customer *)
(* is in the chair waiting on done_with_customer: the barber never cuts    *)
(* for nobody, and two customers never wait for the same haircut.          *)
CutServesOneWaitingCustomer ==
  bpc = "cut" =>
    /\ Cardinality({c \in Customers : cpc[c] = "wait_done"}) = 1
    /\ Seated = {c \in Customers : cpc[c] = "wait_done"}

(* A customer leaves the barber seat only after exactly one haircut given  *)
(* while that customer sat in it, and no customer ever gets two: the       *)
(* done_with_customer post always reaches the customer it was meant for.   *)
OneHaircutEach ==
  \A c \in Customers :
    /\ haircut[c] <= 1
    /\ cpc[c] \in {"leave_seat", "exited"} => haircut[c] = 1

(* The barber goes home (its thread exits) only when no customer is left   *)
(* in the shop: the flag done_with_all_customers is never seen before the  *)
(* last customer thread has finished.                                      *)
BarberLeavesLast ==
  bpc = "exited" => \A c \in Customers : cpc[c] = "exited"

(* The program terminates: every customer gets a haircut and goes home,    *)
(* the barber goes home, and main returns from pthread_join(btid).         *)
Termination == <>(mpc = "exited")

=============================================================================
