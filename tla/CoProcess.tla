------------------------------ MODULE CoProcess ------------------------------
(***************************************************************************)
(* The coprocess of src/code_examples/pipes/simple_co_process.c and        *)
(* src/code_examples/pipes/add2.c.                                         *)
(*                                                                         *)
(* The parent makes two pipes, fd0 (descriptors 3, 4) for the request and  *)
(* fd1 (5, 6) for the reply, and forks.  The child closes fd0[1] and       *)
(* fd1[0], moves fd0[0] to its standard input and fd1[1] to its standard   *)
(* output (dup2, close) and execs ./add2; a failed execl exits.  add2      *)
(* reads its input once, scans two integers, and writes their sum.  The    *)
(* parent closes fd0[0] and fd1[1], writes argv[1] with one write of       *)
(* strlen bytes, reads the reply once and prints it.                        *)
(*                                                                         *)
(* The request is abstracted to what it holds: Input is "nums" (two        *)
(* integers), "text" (no integers: sscanf assigns nothing and the          *)
(* uninitialised numbers give some garbage sum) or "" (nothing to write:   *)
(* a write of zero bytes puts nothing in the pipe).  A reply is "sum" or   *)
(* "garbage"; a read returns what one write put in the pipe (a write       *)
(* shorter than PIPE_BUF is atomic), or end of file once no write end is   *)
(* open.  A write to a pipe with no read end open kills the writer by      *)
(* SIGPIPE.  Descriptors 0 and 1 are the terminal until a dup2.            *)
(***************************************************************************)
EXTENDS Naturals, Sequences

CONSTANT Inputs   \* the argv[1] strings checked

Procs == {"parent", "child"}
Fds == {0, 1, 3, 4, 5, 6}
\* What each descriptor of the two pipes is, after pipe(fd0) and pipe(fd1).
PipeEnd == [f \in {3, 4, 5, 6} |-> CASE f = 3 -> "r0" [] f = 4 -> "w0"
                                     [] f = 5 -> "r1" [] f = 6 -> "w1"]

VARIABLES
  input,     \* argv[1]
  fds,       \* each process's descriptor table
  pc,        \* program counter of each process
  pipe0,     \* the writes in the request pipe
  pipe1,     \* the writes in the reply pipe
  reply      \* what the parent printed as the sum, "" before

vars == <<input, fds, pc, pipe0, pipe1, reply>>

Alive(p) == pc[p] \notin {"none", "exited"}

\* Whether some live process holds the end e open.
Open(e) == \E p \in Procs : Alive(p) /\ \E f \in Fds : fds[p][f] = e

Init ==
  /\ input \in Inputs
  /\ fds = [p \in Procs |-> [f \in Fds |-> CASE f = 0 -> "in" [] f = 1 -> "out"
                                           [] OTHER -> "closed"]]
  /\ pc = [p \in Procs |-> IF p = "parent" THEN "pipe" ELSE "none"]
  /\ pipe0 = <<>> /\ pipe1 = <<>>
  /\ reply = ""

Exit(p) ==
  /\ pc' = [pc EXCEPT ![p] = "exited"]
  /\ fds' = [fds EXCEPT ![p] = [f \in Fds |-> "closed"]]

\* close(f) in process p, then go to pc next.
Close(p, f, next) ==
  /\ fds' = [fds EXCEPT ![p][f] = "closed"]
  /\ pc' = [pc EXCEPT ![p] = next]

\* dup2(old, new); close(old): both descriptors are open here.
Move(p, old, new, next) ==
  /\ fds' = [fds EXCEPT ![p][new] = fds[p][old], ![p][old] = "closed"]
  /\ pc' = [pc EXCEPT ![p] = next]

-----------------------------------------------------------------------------
(* pipe(fd0) and pipe(fd1), either failing exits; fork(), failing exits.   *)
ParentStart ==
  /\ \/ pc["parent"] = "pipe"
        /\ \/ /\ fds' = [fds EXCEPT !["parent"] =
                           [f \in Fds |-> IF f \in {0, 1} THEN fds["parent"][f]
                                                          ELSE PipeEnd[f]]]
              /\ pc' = [pc EXCEPT !["parent"] = "fork"]
           \/ Exit("parent")
     \/ pc["parent"] = "fork"
        /\ \/ /\ fds' = [fds EXCEPT !["child"] = fds["parent"]]
              /\ pc' = [pc EXCEPT !["parent"] = "close_r0",
                                  !["child"] = "close_w0"]
           \/ Exit("parent")
  /\ UNCHANGED <<input, pipe0, pipe1, reply>>

\* Mutant: the parent keeps fd1[1] open.
ParentCloseSkipped ==
  /\ \/ pc["parent"] = "close_r0" /\ Close("parent", 3, "close_w1")
     \/ pc["parent"] = "close_w1" /\ pc' = [pc EXCEPT !["parent"] = "write"]
        /\ UNCHANGED fds
  /\ UNCHANGED <<input, pipe0, pipe1, reply>>

\* close(fd0[0]); close(fd1[1]).
ParentClose ==
  /\ \/ pc["parent"] = "close_r0" /\ Close("parent", 3, "close_w1")
     \/ pc["parent"] = "close_w1" /\ Close("parent", 6, "write")
  /\ UNCHANGED <<input, pipe0, pipe1, reply>>

(* write(fd0[1], buffer, strlen(buffer)): nothing for "", SIGPIPE when the  *)
(* child no longer holds the read end.                                     *)
ParentWrite ==
  /\ pc["parent"] = "write"
  /\ CASE input = "" ->
            pc' = [pc EXCEPT !["parent"] = "read"] /\ UNCHANGED <<fds, pipe0>>
       [] ~Open("r0") -> Exit("parent") /\ UNCHANGED pipe0
       [] OTHER -> pipe0' = Append(pipe0, input)
                   /\ pc' = [pc EXCEPT !["parent"] = "read"] /\ UNCHANGED fds
  /\ UNCHANGED <<input, pipe1, reply>>

(* n = read(fd1[0], ...): the reply, or end of file (n = 0, an empty sum); *)
(* print and exit.                                                         *)
ParentRead ==
  /\ pc["parent"] = "read"
  /\ \/ pipe1 # <<>> /\ reply' = Head(pipe1) /\ pipe1' = Tail(pipe1)
     \/ pipe1 = <<>> /\ ~Open("w1") /\ reply' = "none" /\ UNCHANGED pipe1
  /\ Exit("parent")
  /\ UNCHANGED <<input, pipe0>>

-----------------------------------------------------------------------------
\* close(fd0[1]); close(fd1[0]).
ChildClose ==
  /\ \/ pc["child"] = "close_w0" /\ Close("child", 4, "close_r1")
     \/ pc["child"] = "close_r1" /\ Close("child", 5, "dup_in")
  /\ UNCHANGED <<input, pipe0, pipe1, reply>>

\* Mutant: the child leaves its standard input on the terminal.
ChildDupInSkipped ==
  /\ \/ pc["child"] = "dup_in" /\ Close("child", 3, "dup_out")
     \/ pc["child"] = "dup_out" /\ Move("child", 6, 1, "exec")
  /\ UNCHANGED <<input, pipe0, pipe1, reply>>

\* dup2(fd0[0], STDIN); close(fd0[0]); dup2(fd1[1], STDOUT); close(fd1[1]).
ChildDup ==
  /\ \/ pc["child"] = "dup_in" /\ Move("child", 3, 0, "dup_out")
     \/ pc["child"] = "dup_out" /\ Move("child", 6, 1, "exec")
  /\ UNCHANGED <<input, pipe0, pipe1, reply>>

\* execl("./add2", ...): add2 runs, or exit(EXIT_FAILURE).
ChildExec ==
  /\ pc["child"] = "exec"
  /\ \/ pc' = [pc EXCEPT !["child"] = "add2_read"] /\ UNCHANGED fds
     \/ Exit("child")
  /\ UNCHANGED <<input, pipe0, pipe1, reply>>

(* add2: n = read(STDIN, ...): a write from the pipe or end of file; from  *)
(* the terminal, whatever the user types.  sscanf finds the two numbers     *)
(* only in "nums".                                                         *)
Add2Read ==
  /\ pc["child"] = "add2_read"
  /\ \/ fds["child"][0] = "r0" /\ pipe0 # <<>>
        /\ pc' = [pc EXCEPT !["child"] =
                    IF Head(pipe0) = "nums" THEN "add2_sum" ELSE "add2_garbage"]
        /\ pipe0' = Tail(pipe0)
     \/ fds["child"][0] = "r0" /\ pipe0 = <<>> /\ ~Open("w0")
        /\ pc' = [pc EXCEPT !["child"] = "add2_garbage"] /\ UNCHANGED pipe0
     \/ fds["child"][0] = "in"
        /\ pc' = [pc EXCEPT !["child"] = "add2_garbage"] /\ UNCHANGED pipe0
  /\ UNCHANGED <<input, fds, pipe1, reply>>

(* sprintf the sum; write(STDOUT, ...), SIGPIPE when the parent no longer  *)
(* holds the read end; exit.                                               *)
Add2Write ==
  /\ pc["child"] \in {"add2_sum", "add2_garbage"}
  /\ LET sum == IF pc["child"] = "add2_sum" THEN "sum" ELSE "garbage"
     IN  pipe1' = IF fds["child"][1] = "w1" /\ Open("r1")
                    THEN Append(pipe1, sum) ELSE pipe1
  /\ Exit("child")
  /\ UNCHANGED <<input, pipe0, reply>>

-----------------------------------------------------------------------------
Parent == ParentStart \/ ParentClose \/ ParentWrite \/ ParentRead

Child == ChildClose \/ ChildDup \/ ChildExec \/ Add2Read \/ Add2Write

Next == Parent \/ Child

\* The kernel schedules both processes.
Fairness == WF_vars(Parent) /\ WF_vars(Child)

Spec == Init /\ [][Next]_vars /\ Fairness

-----------------------------------------------------------------------------
TypeOK ==
  /\ input \in Inputs
  /\ fds \in [Procs -> [Fds -> {"in", "out", "r0", "w0", "r1", "w1", "closed"}]]
  /\ pipe0 \in Seq(Inputs) /\ pipe1 \in Seq({"sum", "garbage"})
  /\ reply \in {"", "none", "sum", "garbage"}

(* The parent prints the sum add2 computed of its own argv[1]: when the    *)
(* string holds two numbers and the parent reads a reply, it is the sum.   *)
SumOfInput == reply \in {"sum", "garbage"} /\ input = "nums" => reply = "sum"

(* The parent exits, whether execl fails or add2 dies, unless argv[1] is   *)
(* empty: then nothing is written, add2's read waits for the parent's      *)
(* write end and the parent's read for add2's reply.                       *)
CoprocessTermination == input = "" \/ <>(pc["parent"] = "exited")

=============================================================================
