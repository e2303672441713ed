------------------------- MODULE MCProducerConsumer -------------------------
(***************************************************************************)
(* The two producer/consumer programs of shackleford/src/sync/mutex, each  *)
(* checked on its own: a behaviour runs either 05-pc_cv.c (prog = "cv") or *)
(* 04-pc_bad.c (prog = "spin").  Both programs have the same shared data,  *)
(* so the two instances share the variables; fairness is asserted only of  *)
(* the program that runs.                                                  *)
(***************************************************************************)
EXTENDS Naturals, Sequences

CONSTANTS p1, p2, p3, Producers, Consumer, NoThread, PipeCap, SpinPipeCap

VARIABLES pipe, avail, producers, mtx, ppc, cpc, finished, consumed, prog

pcvars == <<pipe, avail, producers, mtx, ppc, cpc, finished, consumed>>

C == INSTANCE ProducerConsumerCV

S == INSTANCE PCSpin WITH PipeCap <- SpinPipeCap

Init ==
  \/ prog = "cv" /\ C!Init
  \/ prog = "spin" /\ S!Init

Next ==
  /\ \/ prog = "cv" /\ C!Next
     \/ prog = "spin" /\ S!Next
  /\ UNCHANGED prog

Spec ==
  /\ Init /\ [][Next]_<<pcvars, prog>>
  /\ \A p \in Producers : WF_pcvars(prog = "cv" /\ C!Producer(p))
  /\ WF_pcvars(prog = "cv" /\ C!ConsumerStep)
  /\ \A p \in Producers : WF_pcvars(prog = "spin" /\ S!Producer(p))
  /\ WF_pcvars(prog = "spin" /\ S!ConsumerStep)

-----------------------------------------------------------------------------
\* The variables have the types of the program that runs.
TypeOK == IF prog = "cv" THEN C!TypeOK ELSE S!TypeOK

(* 05-pc_cv.c: when main leaves its loop the sum holds every producer's    *)
(* work unit exactly once.                                                 *)
CVSumComplete == prog = "cv" => C!SumComplete

(* 04-pc_bad.c: when main leaves its spinning loop the sum holds every     *)
(* producer's work unit exactly once.                                      *)
SpinSumComplete == prog = "spin" => S!SumComplete

(* 05-pc_cv.c: main eventually prints the sums, unless pthread_cond_wait   *)
(* returns spuriously forever.                                             *)
CVTermination == prog = "cv" => C!Termination

(* 04-pc_bad.c: main eventually prints the sums, with each runnable thread *)
(* scheduled but no fairness among the threads contending for sdata.mtx.  *)
SpinTermination == prog = "spin" => S!Termination

=============================================================================
