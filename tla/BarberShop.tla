----------------------------- MODULE BarberShop -----------------------------
(***************************************************************************)
(* The barber shop of                                                      *)
(* src/code_examples/shackleford/src/sync/sem/02-sleeping_barber.c.        *)
(*                                                                         *)
(* main builds the shop (barbershop_create: argument checks, four          *)
(* sem_init calls, the barber thread), creates one thread per customer,    *)
(* joins them all, sets shop.empty and destroys the semaphores             *)
(* (barbershop_destroy) before returning, which ends the process and every *)
(* thread still in it.  The barber loops while (!shop->empty) on           *)
(* sem_wait(&awake), cut, sem_post(&done_cutting).  A customer takes a     *)
(* waiting-room seat, then the barber chair, gives its room seat back,     *)
(* wakes the barber and waits for done_cutting before leaving the chair.   *)
(*                                                                         *)
(* Every semaphore call is one atomic step; the travel and cutting sleeps  *)
(* are left to the interleaving.  shop->empty is read and written without  *)
(* a lock; each read sees the old or the new value, which the interleaving *)
(* gives.  destroyed records that barbershop_destroy has run: a sem_wait   *)
(* pending on a destroyed semaphore is undefined behaviour.  haircut is a  *)
(* history variable: the cuts finished while each customer sat in the     *)
(* chair.                                                                  *)
(***************************************************************************)
EXTENDS Integers, FiniteSets

CONSTANTS
  Customers,     \* argv[1] customer threads
  NumChairs      \* argv[2], the waiting-room chairs

ASSUME NumChairs \in Int

VARIABLES
  waiting_room, barber_chair, done_cutting, awake,   \* semaphores
  empty,         \* shop.empty
  destroyed,     \* barbershop_destroy has run
  cpc,           \* program counter of each customer
  bpc,           \* program counter of the barber
  mpc,           \* program counter of main
  haircut        \* history: cuts finished while each customer sat

vars == <<waiting_room, barber_chair, done_cutting, awake, empty, destroyed,
          cpc, bpc, mpc, haircut>>

\* Customers holding the barber chair.
InChair == {c \in Customers :
              cpc[c] \in {"post_room", "post_awake", "wait_done", "post_chair"}}

Init ==
  /\ waiting_room = 0 /\ barber_chair = 0 /\ done_cutting = 0 /\ awake = 0
  /\ empty = FALSE
  /\ destroyed = FALSE
  /\ cpc = [c \in Customers |-> "none"]
  /\ bpc = "none"
  /\ mpc = "create"
  /\ haircut = [c \in Customers |-> 0]

\* The process is running: main has not returned.
Alive == mpc # "exited"

-----------------------------------------------------------------------------
(* main.                                                                   *)

\* Mutant: sem_init(&shop->barber_chair, ..., 2).
MainCreateTwoChairs ==
  /\ mpc = "create"
  /\ IF Cardinality(Customers) <= 0 \/ NumChairs <= 0
       THEN /\ mpc' = "exited"
            /\ UNCHANGED <<waiting_room, barber_chair, bpc>>
       ELSE /\ waiting_room' = NumChairs
            /\ barber_chair' = 2
            /\ bpc' = "test"
            /\ mpc' = "customers"
  /\ UNCHANGED <<done_cutting, awake, empty, destroyed, cpc, haircut>>

(* barbershop_create: a count that is not positive returns -1 and main     *)
(* exits with EXIT_FAILURE; else the semaphores are initialised and the    *)
(* barber thread is created.                                               *)
MainCreate ==
  /\ mpc = "create"
  /\ IF Cardinality(Customers) <= 0 \/ NumChairs <= 0
       THEN /\ mpc' = "exited"
            /\ UNCHANGED <<waiting_room, barber_chair, bpc>>
       ELSE /\ waiting_room' = NumChairs
            /\ barber_chair' = 1
            /\ bpc' = "test"
            /\ mpc' = "customers"
  /\ UNCHANGED <<done_cutting, awake, empty, destroyed, cpc, haircut>>

\* customers_create: one thread per customer.
MainCreateCustomers ==
  /\ mpc = "customers"
  /\ cpc' = [c \in Customers |-> "wait_room"]
  /\ mpc' = "join"
  /\ UNCHANGED <<waiting_room, barber_chair, done_cutting, awake, empty,
                 destroyed, bpc, haircut>>

\* customers_destroy: pthread_join of every customer; then shop.empty = TRUE.
MainJoin ==
  /\ mpc = "join"
  /\ \A c \in Customers : cpc[c] = "gone"
  /\ empty' = TRUE
  /\ mpc' = "destroy"
  /\ UNCHANGED <<waiting_room, barber_chair, done_cutting, awake, destroyed,
                 cpc, bpc, haircut>>

\* barbershop_destroy: sem_destroy of the four semaphores, free(barber).
MainDestroy ==
  /\ mpc = "destroy"
  /\ destroyed' = TRUE
  /\ mpc' = "return"
  /\ UNCHANGED <<waiting_room, barber_chair, done_cutting, awake, empty,
                 cpc, bpc, haircut>>

\* return 0 from main: the process exits with the barber thread in it.
MainReturn ==
  /\ mpc = "return"
  /\ mpc' = "exited"
  /\ UNCHANGED <<waiting_room, barber_chair, done_cutting, awake, empty,
                 destroyed, cpc, bpc, haircut>>

-----------------------------------------------------------------------------
(* thread_barber.                                                          *)

\* while (!shop->empty).
BarberTest ==
  /\ Alive /\ bpc = "test"
  /\ bpc' = IF empty THEN "exited" ELSE "sleep"
  /\ UNCHANGED <<waiting_room, barber_chair, done_cutting, awake, empty,
                 destroyed, cpc, mpc, haircut>>

\* sem_wait(&barber->awake).
BarberSleep ==
  /\ Alive /\ bpc = "sleep"
  /\ awake > 0
  /\ awake' = awake - 1
  /\ bpc' = "cut"
  /\ UNCHANGED <<waiting_room, barber_chair, done_cutting, empty, destroyed,
                 cpc, mpc, haircut>>

\* cut_hair(MIN_TIME, MAX_TIME); sem_post(&barber->done_cutting).
BarberCut ==
  /\ Alive /\ bpc = "cut"
  /\ done_cutting' = done_cutting + 1
  /\ haircut' = [c \in Customers |->
                   IF c \in InChair THEN haircut[c] + 1 ELSE haircut[c]]
  /\ bpc' = "test"
  /\ UNCHANGED <<waiting_room, barber_chair, awake, empty, destroyed, cpc,
                 mpc>>

-----------------------------------------------------------------------------
(* thread_customer.                                                        *)

\* Step of customer c from program point pc to program point next.
Goto(c, pc, next) ==
  /\ Alive /\ cpc[c] = pc
  /\ cpc' = [cpc EXCEPT ![c] = next]

\* sem_wait(&shop->waiting_room), after travelling.
CustomerWaitRoom(c) ==
  /\ Goto(c, "wait_room", "wait_chair")
  /\ waiting_room > 0
  /\ waiting_room' = waiting_room - 1
  /\ UNCHANGED <<barber_chair, done_cutting, awake, empty, destroyed, bpc,
                 mpc, haircut>>

\* sem_wait(&shop->barber_chair).
CustomerWaitChair(c) ==
  /\ Goto(c, "wait_chair", "post_room")
  /\ barber_chair > 0
  /\ barber_chair' = barber_chair - 1
  /\ UNCHANGED <<waiting_room, done_cutting, awake, empty, destroyed, bpc,
                 mpc, haircut>>

\* sem_post(&shop->waiting_room).
CustomerPostRoom(c) ==
  /\ Goto(c, "post_room", "post_awake")
  /\ waiting_room' = waiting_room + 1
  /\ UNCHANGED <<barber_chair, done_cutting, awake, empty, destroyed, bpc,
                 mpc, haircut>>

\* sem_post(&barber->awake).
CustomerPostAwake(c) ==
  /\ Goto(c, "post_awake", "wait_done")
  /\ awake' = awake + 1
  /\ UNCHANGED <<waiting_room, barber_chair, done_cutting, empty, destroyed,
                 bpc, mpc, haircut>>

\* Mutant: the customer does not wait for done_cutting.
CustomerWaitDoneSkipped(c) ==
  /\ Goto(c, "wait_done", "post_chair")
  /\ UNCHANGED <<waiting_room, barber_chair, done_cutting, awake, empty,
                 destroyed, bpc, mpc, haircut>>

\* sem_wait(&barber->done_cutting).
CustomerWaitDone(c) ==
  /\ Goto(c, "wait_done", "post_chair")
  /\ done_cutting > 0
  /\ done_cutting' = done_cutting - 1
  /\ UNCHANGED <<waiting_room, barber_chair, awake, empty, destroyed, bpc,
                 mpc, haircut>>

\* sem_post(&shop->barber_chair); the thread returns.
CustomerPostChair(c) ==
  /\ Goto(c, "post_chair", "gone")
  /\ barber_chair' = barber_chair + 1
  /\ UNCHANGED <<waiting_room, done_cutting, awake, empty, destroyed, bpc,
                 mpc, haircut>>

-----------------------------------------------------------------------------
Customer(c) ==
  \/ CustomerWaitRoom(c) \/ CustomerWaitChair(c) \/ CustomerPostRoom(c)
  \/ CustomerPostAwake(c) \/ CustomerWaitDone(c) \/ CustomerPostChair(c)

Barber == BarberTest \/ BarberSleep \/ BarberCut

Main ==
  \/ MainCreate \/ MainCreateCustomers \/ MainJoin \/ MainDestroy
  \/ MainReturn

Next == (\E c \in Customers : Customer(c)) \/ Barber \/ Main

\* Every runnable thread is eventually scheduled.
Fairness ==
  /\ \A c \in Customers : WF_vars(Customer(c))
  /\ WF_vars(Barber)
  /\ WF_vars(Main)

Spec == Init /\ [][Next]_vars /\ Fairness

-----------------------------------------------------------------------------
TypeOK ==
  /\ waiting_room \in 0..NumChairs
  /\ barber_chair \in 0..1
  /\ done_cutting \in 0..1
  /\ awake \in 0..1
  /\ empty \in BOOLEAN /\ destroyed \in BOOLEAN
  /\ cpc \in [Customers -> {"none", "wait_room", "wait_chair", "post_room",
                            "post_awake", "wait_done", "post_chair", "gone"}]
  /\ bpc \in {"none", "test", "sleep", "cut", "exited"}
  /\ mpc \in {"create", "customers", "join", "destroy", "return", "exited"}
  /\ haircut \in [Customers -> Nat]

(* While the barber cuts, exactly one customer holds the barber chair and  *)
(* it is the one waiting on done_cutting, so the post the barber makes at  *)
(* the end of the cut can only be taken by the customer it was meant for.  *)
CutServesSeated ==
  bpc = "cut" => \E c \in Customers : InChair = {c} /\ cpc[c] = "wait_done"

(* Every customer that goes home had exactly one haircut finished while   *)
(* it sat in the barber chair.                                             *)
OneHaircutEach == \A c \in Customers : cpc[c] = "gone" => haircut[c] = 1

\* main eventually returns: no customer or join waits forever.
Termination == <>(mpc = "exited")

(* barbershop_destroy never destroys a semaphore the barber is blocked on: *)
(* when the semaphores are destroyed the barber is not in                  *)
(* sem_wait(&barber->awake).                                               *)
NoWaitOnDestroyed == destroyed => bpc # "sleep"

=============================================================================
