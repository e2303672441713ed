------------------------------ MODULE Primes ------------------------------
(***************************************************************************)
(* src/code_examples/shackleford/src/signals/sol/primes.c: main tests     *)
(* try = 0, 1, 2, ... with is_prime and appends each prime to primes[],    *)
(* with SIGALRM blocked around each test; the SIGALRM handler re-arms a    *)
(* five-second alarm and siglongjmps to the sigsetjmp of main, which       *)
(* calls report() to print num_found and the last five primes, and the     *)
(* search goes on.  main starts the cycle by calling handler itself.       *)
(*                                                                         *)
(* pc is main's position:                                                  *)
(*   "start"  -- lines 68-79, up to the first sigsetjmp;                  *)
(*   "report" -- line 75;  "loop" -- the test of line 82;                 *)
(*   "test"   -- line 84, SIGALRM blocked;  "store" -- line 85;           *)
(*   "inc"    -- line 87;  "unblock" -- line 88;  "done" -- return 0.     *)
(* The alarm fires at any moment once armed, at most MaxAlarms times.      *)
(* Blocked, it stays pending and is delivered when line 88 restores the    *)
(* mask; delivery, the handler and its jump are one step.  siglongjmp      *)
(* restores the empty mask sigsetjmp saved.  try is an automatic variable  *)
(* changed after sigsetjmp and not volatile, so after the jump its value   *)
(* is indeterminate: TryRestored says whether the build keeps it in a      *)
(* register sigsetjmp saved (then it is 0 again) or in memory.             *)
(* NumPrimes stands for NUM_PRIMES; unsigned int is Width bits wide.       *)
(***************************************************************************)
EXTENDS Naturals, Sequences

CONSTANTS
  NumPrimes,    \* NUM_PRIMES
  MaxAlarms,    \* the most times the alarm fires
  Width,        \* bits of an unsigned int
  TryRestored   \* siglongjmp gives try back its value at sigsetjmp

ASSUME NumPrimes \in Nat \ {0} /\ MaxAlarms \in Nat /\ Width \in Nat \ {0}
ASSUME TryRestored \in BOOLEAN

VARIABLES
  pc,         \* main's position, above
  try,        \* main's try
  num_found,  \* num_found
  primes,     \* primes[0 .. NumPrimes-1]
  blocked,    \* SIGALRM is in the process's signal mask
  armed,      \* an alarm is set and has not fired
  pending,    \* SIGALRM fired while blocked and waits
  fired,      \* times the alarm has fired
  reports     \* each report(): the count and the primes the loop printed

vars == <<pc, try, num_found, primes, blocked, armed, pending, fired, reports>>

UIntMax == 2 ^ Width

RECURSIVE OddDivisorFree(_, _)
\* The loop of lines 44-48: no odd i with i*i <= num divides num.
OddDivisorFree(num, i) ==
  i * i > num \/ (num % i # 0 /\ OddDivisorFree(num, i + 2))

\* Lines 30-51.
is_prime(num) ==
  CASE num < 2        -> FALSE
    [] num = 2        -> TRUE
    [] num % 2 = 0    -> FALSE
    [] OTHER          -> OddDivisorFree(num, 3)

(* Lines 53-64: i = num_found-5 is an unsigned subtraction that wraps      *)
(* below 5; i < num_found converts i back to unsigned, so the loop starts  *)
(* at the wrapped value and prints nothing when it wrapped.                *)
LastFive ==
  LET first == (num_found + UIntMax - 5) % UIntMax
  IN  IF first < num_found
        THEN [k \in 1 .. num_found - first |-> primes[first + k - 1]]
        ELSE <<>>

(* handler of lines 24-28, run by delivery or by main itself: alarm(5)     *)
(* re-arms the timer and siglongjmp lands in the non-zero branch of line   *)
(* 74 with the saved, empty mask.                                          *)
Handler ==
  /\ armed' = TRUE /\ pending' = FALSE /\ blocked' = FALSE
  /\ pc' = "report"
  /\ try' \in IF TryRestored THEN {0} ELSE {try}
  /\ UNCHANGED <<num_found, primes>>

-----------------------------------------------------------------------------
Init ==
  /\ pc = "start" /\ try = 0 /\ num_found = 0
  /\ primes = [k \in 0 .. NumPrimes - 1 |-> 0]
  /\ blocked = FALSE /\ armed = FALSE /\ pending = FALSE
  /\ fired = 0 /\ reports = <<>>

\* Lines 68-79: sigsetjmp returns 0, num_found = 0, signal(), handler().
Start ==
  /\ pc = "start"
  /\ Handler
  /\ UNCHANGED <<fired, reports>>

\* Line 75: report() prints num_found and the loop of line 60.
Report ==
  /\ pc = "report" /\ pc' = "loop"
  /\ reports' = Append(reports, [found |-> num_found, last |-> LastFive])
  /\ UNCHANGED <<try, num_found, primes, blocked, armed, pending, fired>>

\* Line 82: the loop ends when NUM_PRIMES primes are found.
Loop ==
  /\ pc = "loop"
  /\ pc' = IF num_found < NumPrimes THEN "block" ELSE "done"
  /\ UNCHANGED <<try, num_found, primes, blocked, armed, pending, fired, reports>>

\* Mutant: line 83 left out, SIGALRM is never blocked.
BlockDropped ==
  /\ pc = "block" /\ pc' = "test"
  /\ UNCHANGED <<try, num_found, primes, blocked, armed, pending, fired, reports>>

\* Line 83: sigprocmask(SIG_BLOCK) adds SIGALRM to the mask.
Block ==
  /\ pc = "block" /\ pc' = "test"
  /\ blocked' = TRUE
  /\ UNCHANGED <<try, num_found, primes, armed, pending, fired, reports>>

\* Line 84.
Test ==
  /\ pc = "test"
  /\ pc' = IF is_prime(try) THEN "store" ELSE "inc"
  /\ UNCHANGED <<try, num_found, primes, blocked, armed, pending, fired, reports>>

\* Line 85: primes[num_found++] = try.
Store ==
  /\ pc = "store" /\ pc' = "inc"
  /\ primes' = [primes EXCEPT ![num_found] = try]
  /\ num_found' = num_found + 1
  /\ UNCHANGED <<try, blocked, armed, pending, fired, reports>>

\* Line 87.
Inc ==
  /\ pc = "inc" /\ pc' = "unblock"
  /\ try' = (try + 1) % UIntMax
  /\ UNCHANGED <<num_found, primes, blocked, armed, pending, fired, reports>>

(* Line 88: the mask before line 83 is restored; a SIGALRM pending is      *)
(* delivered before sigprocmask returns.                                   *)
Unblock ==
  /\ pc = "unblock"
  /\ IF pending
       THEN Handler
       ELSE pc' = "loop" /\ blocked' = FALSE
              /\ UNCHANGED <<try, num_found, primes, armed, pending>>
  /\ UNCHANGED <<fired, reports>>

(* The alarm fires: while SIGALRM is blocked it becomes pending, otherwise *)
(* the handler runs in place of main's next step.                          *)
Alarm ==
  /\ armed /\ pc \notin {"start", "done"} /\ fired < MaxAlarms
  /\ fired' = fired + 1
  /\ IF blocked
       THEN pending' = TRUE /\ armed' = FALSE
              /\ UNCHANGED <<pc, try, num_found, primes, blocked>>
       ELSE Handler
  /\ UNCHANGED reports

\* main's own steps, the handler's included when main calls it.
Main == Start \/ Report \/ Loop \/ Block \/ Test \/ Store \/ Inc \/ Unblock

Next == Main \/ Alarm

Spec == Init /\ [][Next]_vars

-----------------------------------------------------------------------------
TypeOK ==
  /\ pc \in {"start", "report", "loop", "block", "test", "store", "inc",
             "unblock", "done"}
  /\ try \in 0 .. UIntMax - 1 /\ num_found \in 0 .. NumPrimes
  /\ primes \in [0 .. NumPrimes - 1 -> 0 .. UIntMax - 1]
  /\ {blocked, armed, pending} \subseteq BOOLEAN /\ fired \in 0 .. MaxAlarms

(* main returns: the alarms cannot keep the loop of line 82 from finding   *)
(* NUM_PRIMES primes, since each jump resumes the search where it was.     *)
Termination == <>(pc = "done")

\* The primes below n in increasing order, by the definition of a prime;
\* with NumPrimes primes below 2^Width the first NumPrimes are all there.
PrimesBelow(n) ==
  SelectSeq([k \in 1 .. n - 1 |-> k],
            LAMBDA p : p > 1 /\ \A d \in 2 .. p - 1 : p % d # 0)

(* However the alarms fall between main's steps, primes[] holds the first  *)
(* num_found primes in order, none twice and none missed, and each report  *)
(* prints the last five of those found so far, or nothing before the      *)
(* fifth: the mask of lines 83-88 keeps the jump out of the store of line  *)
(* 85 and the try++ of line 87, and the wrap of line 60 stays harmless.    *)
ReportsListPrimes ==
  LET found == [k \in 1 .. num_found |-> primes[k - 1]]
      ref   == PrimesBelow(UIntMax)
  IN  /\ found = SubSeq(ref, 1, num_found)
      /\ \A r \in 1 .. Len(reports) :
           reports[r].last = IF reports[r].found < 5 THEN <<>>
                             ELSE SubSeq(ref, reports[r].found - 4, reports[r].found)

====
