------------------------------- MODULE ForkShm -------------------------------
(***************************************************************************)
(* A parent and a forked child sharing a mapped array, as in               *)
(* src/code_examples/shackleford/src/processes/ipc/4-shared_memory.c       *)
(* (shm_open "/SHARE", values i, child adds 5) and in                      *)
(* src/shm/posix/simple_shm_example.c and                                  *)
(* src/code_examples/ipc/shared_memory.c (a MAP_SHARED mapping of          *)
(* /dev/zero, values 10, child adds 1).                                    *)
(*                                                                         *)
(* The parent maps the area, whose calls are not checked: a failed         *)
(* mapping is MAP_FAILED and the first store through it is a segmentation *)
(* fault.  It writes V0[k] into every item, forks (a failed fork exits),   *)
(* waits for the child and prints every item.  The child adds Inc to      *)
(* every item, printing it first when ChildPrints (4-shared_memory.c;     *)
(* the other two print only a string), then exits.  Items are the         *)
(* NUM_ITEMS ints.                                                         *)
(***************************************************************************)
EXTENDS Naturals, Sequences

CONSTANTS
  NumItems,   \* the items of the array
  V0,         \* V0[k]: the value the parent writes into item k
  Inc,        \* what the child adds to each item
  ChildPrints \* the child prints each item before it adds Inc

Items == 1..NumItems

VARIABLES
  mem,      \* the shared array
  k,        \* the loop index of the parent and of the child
  ppc,      \* program counter of the parent
  cpc,      \* program counter of the child
  cout,     \* the values the child printed
  pout      \* the values the parent printed

vars == <<mem, k, ppc, cpc, cout, pout>>

Init ==
  /\ mem = [j \in Items |-> 0]
  /\ k = [p \in {"parent", "child"} |-> 1]
  /\ ppc = "map"
  /\ cpc = "none"
  /\ cout = <<>> /\ pout = <<>>

(* shm_open, ftruncate and mmap, or open("/dev/zero") and mmap; then the   *)
(* loop first_area[i] = 10 (smem_ptr[i] = i), which faults on MAP_FAILED.   *)
MapAndWrite ==
  /\ ppc = "map"
  /\ \/ mem' = V0 /\ ppc' = "fork"
     \/ ppc' = "crashed" /\ UNCHANGED mem
  /\ UNCHANGED <<k, cpc, cout, pout>>

\* fork(): the child starts its loop; a failed fork exits.
Fork ==
  /\ ppc = "fork"
  /\ \/ ppc' = "wait" /\ cpc' = "loop"
     \/ ppc' = "failed" /\ UNCHANGED cpc
  /\ UNCHANGED <<mem, k, cout, pout>>

(* One iteration of the child's loop: print item i if the program does,   *)
(* add Inc to it; after the last, exit.                                    *)
ChildStep ==
  /\ cpc = "loop"
  /\ IF k["child"] <= NumItems
       THEN LET j == k["child"] IN
            /\ cout' = IF ChildPrints THEN Append(cout, mem[j]) ELSE cout
            /\ mem' = [mem EXCEPT ![j] = mem[j] + Inc]
            /\ k' = [k EXCEPT !["child"] = j + 1]
            /\ UNCHANGED cpc
       ELSE cpc' = "exited" /\ UNCHANGED <<cout, mem, k>>
  /\ UNCHANGED <<ppc, pout>>

\* Mutant: the parent reads without waiting for the child.
WaitSkipped ==
  /\ ppc = "wait"
  /\ ppc' = "read"
  /\ UNCHANGED <<mem, k, cpc, cout, pout>>

\* wait(): returns once the child has exited.
Wait ==
  /\ ppc = "wait"
  /\ cpc = "exited"
  /\ ppc' = "read"
  /\ UNCHANGED <<mem, k, cpc, cout, pout>>

(* One iteration of the parent's print loop; after the last, munmap,       *)
(* shm_unlink and exit.                                                    *)
ParentRead ==
  /\ ppc = "read"
  /\ IF k["parent"] <= NumItems
       THEN /\ pout' = Append(pout, mem[k["parent"]])
            /\ k' = [k EXCEPT !["parent"] = k["parent"] + 1]
            /\ UNCHANGED ppc
       ELSE ppc' = "exited" /\ UNCHANGED <<pout, k>>
  /\ UNCHANGED <<mem, cpc, cout>>

Parent == MapAndWrite \/ Fork \/ Wait \/ ParentRead

Next == Parent \/ ChildStep

Fairness == WF_vars(Parent) /\ WF_vars(ChildStep)

Spec == Init /\ [][Next]_vars /\ Fairness

-----------------------------------------------------------------------------
TypeOK ==
  /\ mem \in [Items -> Nat] /\ k \in [{"parent", "child"} -> 1..NumItems + 1]
  /\ ppc \in {"map", "fork", "wait", "read", "exited", "crashed", "failed"}
  /\ cpc \in {"none", "loop", "exited"}
  /\ cout \in Seq(Nat) /\ pout \in Seq(Nat)

(* The values travel through the mapping both ways: the child prints what  *)
(* the parent wrote before the fork, and the parent, after wait, prints    *)
(* every item as the child left it, V0[i] + Inc, and none half-updated.    *)
ValuesShared ==
  /\ \A j \in 1..Len(cout) : cout[j] = V0[j]
  /\ \A j \in 1..Len(pout) : pout[j] = V0[j] + Inc

=============================================================================
