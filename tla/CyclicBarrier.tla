--------------------------- MODULE CyclicBarrier ---------------------------
(***************************************************************************)
(* What a reusable barrier promises (spec section 4.4): each of Threads    *)
(* runs Iterations rounds; in each round it arrives at the barrier and may *)
(* cross it only once every thread has arrived at that same round.        *)
(*                                                                         *)
(*   iter[t]    -- barriers thread t has crossed (its loop index i)        *)
(*   arrived[t] -- t has arrived at barrier iter[t] and not yet crossed    *)
(*                                                                         *)
(* The barrier implementations (BarrierCV, BarrierSem) are checked to      *)
(* implement this specification under a refinement mapping.                *)
(***************************************************************************)
EXTENDS Naturals

CONSTANTS Threads, Iterations

VARIABLES iter, arrived

vars == <<iter, arrived>>

Init ==
  /\ iter = [t \in Threads |-> 0]
  /\ arrived = [t \in Threads |-> FALSE]

\* t finishes the work of round iter[t] and reaches the barrier.
Arrive(t) ==
  /\ ~arrived[t]
  /\ iter[t] < Iterations
  /\ arrived' = [arrived EXCEPT ![t] = TRUE]
  /\ UNCHANGED iter

\* Every thread has arrived at barrier k (or has already crossed it).
AllArrivedAt(k) ==
  \A u \in Threads : iter[u] > k \/ (iter[u] = k /\ arrived[u])

\* t crosses barrier iter[t].
Cross(t) ==
  /\ arrived[t]
  /\ AllArrivedAt(iter[t])
  /\ iter' = [iter EXCEPT ![t] = iter[t] + 1]
  /\ arrived' = [arrived EXCEPT ![t] = FALSE]

Next == \E t \in Threads : Arrive(t) \/ Cross(t)

Spec == Init /\ [][Next]_vars

=============================================================================
