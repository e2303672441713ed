------------------------------ MODULE SigJmp ------------------------------
(***************************************************************************)
(* src/code_examples/shackleford/src/signals/6-sigsetjmp.c: main fills a   *)
(* malloc'd buffer with squares, one a second, and the SIGINT handler      *)
(* siglongjmps back to the sigsetjmp of main, which sums the buffer,       *)
(* prints the total, frees the buffer and exits.  The calculation ends     *)
(* with siglongjmp(env, NORMAL), which takes the same path.                *)
(*                                                                         *)
(* pc is main's position:                                                  *)
(*   "malloc" "memset" "signal" "setjmp" -- lines 78, 79, 81, 93;          *)
(*   "calc"  -- do_calculation, one iteration a step, ci done so far;     *)
(*   "jump"  -- siglongjmp(env, NORMAL) of line 113;                       *)
(*   "sum"   -- the loop of lines 102-104, si the index, total the sum;    *)
(*   "print" "free" "exit" -- lines 105, 106, 107;                         *)
(*   "exited" "killed" "crashed" -- the process has ended.                 *)
(* A SIGINT arrives between any two steps while the process lives; the     *)
(* user sends at most MaxSigs of them.  The handler runs with SIGINT       *)
(* masked and siglongjmps at once, restoring the mask sigsetjmp saved, so  *)
(* its delivery and the jump are one step.  Before line 81 SIGINT has its  *)
(* default action; between 81 and 93 env is still the zeroed static        *)
(* sigjmp_buf and the jump crashes.  Memory malloc returns, and memory     *)
(* read after free, may hold anything: Junk stands for any value that is   *)
(* not the one the program stored.  A second free of the buffer aborts.    *)
(***************************************************************************)
EXTENDS Naturals, Sequences

CONSTANTS
  N,        \* CALC_SIZE
  MaxSigs,  \* the most SIGINTs the user sends
  Junk      \* a value the program never stores in the buffer

ASSUME N \in Nat \ {0} /\ MaxSigs \in Nat /\ Junk \in Nat

VARIABLES
  pc,       \* main's position, above
  buf,      \* result_buffer[0 .. N-1]
  heap,     \* the buffer: "none", "live" or "freed"
  ci,       \* do_calculation's i
  si,       \* main's i
  total,    \* main's total
  printed,  \* each "total:" line: the total and whether the buffer was freed
  sent      \* the SIGINTs sent so far

vars == <<pc, buf, heap, ci, si, total, printed, sent>>

Idx == 0 .. N - 1
Ended == {"exited", "killed", "crashed"}

\* Contents malloc hands back, and what a read of freed memory may see.
Garbage == [Idx -> {0, Junk}]

\* The handler is installed once signal() of line 81 has returned.
Installed == pc \notin {"malloc", "memset", "signal"}

(* sigsetjmp returning a non-zero ret: the switch falls into the loop of  *)
(* line 102, which starts with i = 0 and total = 0.                        *)
LongJmp ==
  /\ pc' = "sum" /\ si' = 0 /\ total' = 0
  /\ UNCHANGED <<buf, heap, ci, printed>>

-----------------------------------------------------------------------------
Init ==
  /\ pc = "malloc" /\ buf = [i \in Idx |-> 0] /\ heap = "none"
  /\ ci = 0 /\ si = 0 /\ total = 0 /\ printed = <<>> /\ sent = 0

\* Line 78: malloc returns memory with whatever it held.
Malloc ==
  /\ pc = "malloc" /\ pc' = "memset"
  /\ heap' = "live" /\ buf' \in Garbage
  /\ UNCHANGED <<ci, si, total, printed, sent>>

\* Mutant: line 79 left out, the buffer keeps what malloc left in it.
MemsetDropped ==
  /\ pc = "memset" /\ pc' = "signal"
  /\ UNCHANGED <<buf, heap, ci, si, total, printed, sent>>

\* Line 79: memset zeroes the buffer.
Memset ==
  /\ pc = "memset" /\ pc' = "signal"
  /\ buf' = [i \in Idx |-> 0]
  /\ UNCHANGED <<heap, ci, si, total, printed, sent>>

\* Line 81: the handler is installed.
Signal ==
  /\ pc = "signal" /\ pc' = "setjmp"
  /\ UNCHANGED <<buf, heap, ci, si, total, printed, sent>>

\* Line 93: sigsetjmp returns 0 and the switch breaks to line 111.
SetJmp ==
  /\ pc = "setjmp" /\ pc' = "calc"
  /\ UNCHANGED <<buf, heap, ci, si, total, printed, sent>>

(* do_calculation: buf[i] = i*i and sleep(1) for i < num; then back to    *)
(* main's siglongjmp of line 113.                                          *)
Calc ==
  /\ pc = "calc"
  /\ IF ci < N
       THEN buf' = [buf EXCEPT ![ci] = ci * ci] /\ ci' = ci + 1 /\ pc' = "calc"
       ELSE UNCHANGED <<buf, ci>> /\ pc' = "jump"
  /\ UNCHANGED <<heap, si, total, printed, sent>>

\* Line 113: siglongjmp(env, NORMAL).
JumpNormal == pc = "jump" /\ LongJmp /\ UNCHANGED sent

(* Lines 102-104: total += result_buffer[i].  After free the read is of    *)
(* memory the allocator owns and may see anything.                         *)
Sum ==
  /\ pc = "sum"
  /\ IF si < N
       THEN /\ \E v \in IF heap = "live" THEN {buf[si]} ELSE {buf[si], Junk} :
                 total' = total + v
            /\ si' = si + 1 /\ pc' = "sum"
       ELSE UNCHANGED <<si, total>> /\ pc' = "print"
  /\ UNCHANGED <<buf, heap, ci, printed, sent>>

\* Line 105: printf("total: %lu\n", total).
PrintTotal ==
  /\ pc = "print" /\ pc' = "free"
  /\ printed' = Append(printed, [total |-> total, freed |-> heap = "freed"])
  /\ UNCHANGED <<buf, heap, ci, si, total, sent>>

\* Line 106: free(result_buffer); freeing it a second time aborts.
Free ==
  /\ pc = "free"
  /\ IF heap = "live"
       THEN heap' = "freed" /\ pc' = "exit"
       ELSE UNCHANGED heap /\ pc' = "crashed"
  /\ UNCHANGED <<buf, ci, si, total, printed, sent>>

\* Line 107: exit(EXIT_SUCCESS).
Exit ==
  /\ pc = "exit" /\ pc' = "exited"
  /\ UNCHANGED <<buf, heap, ci, si, total, printed, sent>>

(* The user presses Ctrl-C.  Before line 81 the process is killed; before *)
(* line 93 handler jumps through the unset env and crashes; after it the  *)
(* handler's siglongjmp(env, CTRLC) lands in the CTRLC case (lines 98-100 *)
(* only print) and falls through to the sum.                              *)
SigInt ==
  /\ pc \notin Ended /\ sent < MaxSigs
  /\ sent' = sent + 1
  /\ CASE ~Installed    -> pc' = "killed" /\ UNCHANGED <<buf, heap, ci, si, total, printed>>
       [] pc = "setjmp" -> pc' = "crashed" /\ UNCHANGED <<buf, heap, ci, si, total, printed>>
       [] OTHER         -> LongJmp

\* A step of main.
Step ==
  \/ Malloc \/ Memset \/ Signal \/ SetJmp \/ Calc \/ JumpNormal
  \/ Sum \/ PrintTotal \/ Free \/ Exit

Next == Step \/ SigInt

\* main is never descheduled for good; the user need not press Ctrl-C.
Spec == Init /\ [][Next]_vars /\ WF_vars(Step)

-----------------------------------------------------------------------------
\* The sum of the squares 0*0 .. (n-1)*(n-1), the reference for the total.
RECURSIVE SquareSum(_)
SquareSum(n) == IF n = 0 THEN 0 ELSE (n - 1) * (n - 1) + SquareSum(n - 1)

TypeOK ==
  /\ pc \in {"malloc", "memset", "signal", "setjmp", "calc", "jump", "sum",
             "print", "free", "exit"} \cup Ended
  /\ buf \in [Idx -> Nat] /\ heap \in {"none", "live", "freed"}
  /\ ci \in 0 .. N /\ si \in 0 .. N /\ sent \in 0 .. MaxSigs

(* Whenever and however often Ctrl-C interrupts the calculation or the     *)
(* sum, a total main prints from the live buffer is the sum of the squares *)
(* do_calculation stored before it: the memset of line 79 zeroes the       *)
(* entries not yet computed, and each siglongjmp restarts the sum of lines *)
(* 102-104 from total = 0.                                                 *)
TotalIsSquareSum ==
  \A k \in DOMAIN printed :
    ~printed[k].freed => printed[k].total = SquareSum(ci)

====
