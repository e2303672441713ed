------------------------------ MODULE TellWait ------------------------------
(***************************************************************************)
(* The parent/child handshake of src/code_examples/pipes/sync_with_pipes.c *)
(* (the functions of src/code_examples/ipc/sync_with_pipes.c are the same). *)
(*                                                                         *)
(* create_sync_channel makes pfd1 (parent to child) and pfd2 (child to     *)
(* parent).  The parent writes message.txt, tell_child writes 'p' into     *)
(* pfd1, wait_for_child reads 'c' from pfd2, then waitpid.  The child      *)
(* blocks in wait_for_parent, reads the file, tell_parent, exits.  Only    *)
(* 'p' and 'c' are ever written, so a pipe is the number of bytes in it.   *)
(* Both processes keep every pipe end open, so a read never sees end of    *)
(* file: it blocks until a byte arrives.  message.txt is "none" (absent),  *)
(* "empty" (truncated by fopen "wt", the fprintf still in the stdio        *)
(* buffer) or "hello" (closed with its line); a run may find the file of  *)
(* an earlier run.  buffer is what the child's fscanf read.                *)
(***************************************************************************)
EXTENDS Naturals

VARIABLES
  pfd1, pfd2,   \* bytes in the two pipes
  file,         \* the contents of message.txt
  buffer,       \* the child's buffer after fscanf
  ppc, cpc      \* program counters of parent and child

vars == <<pfd1, pfd2, file, buffer, ppc, cpc>>

\* main: create_sync_channel and fork; message.txt may be left from before.
Init ==
  /\ pfd1 = 0 /\ pfd2 = 0
  /\ file \in {"none", "hello"}
  /\ buffer = "unset"
  /\ ppc = "open" /\ cpc = "wait_parent"

-----------------------------------------------------------------------------
(* sleep(5); fp = fopen("message.txt", "wt") truncates the file, or fails  *)
(* and the parent exits with EXIT_FAILURE.                                  *)
ParentOpen ==
  /\ ppc = "open"
  /\ \/ file' = "empty" /\ ppc' = "write"
     \/ UNCHANGED file /\ ppc' = "failed"
  /\ UNCHANGED <<pfd1, pfd2, buffer, cpc>>

\* Mutant: the parent signals without fclose: the line stays in the buffer.
ParentWriteNoFlush ==
  /\ ppc = "write"
  /\ ppc' = "tell"
  /\ UNCHANGED <<pfd1, pfd2, file, buffer, cpc>>

\* fprintf(fp, "Hello_there. \n"); fclose(fp) flushes it.
ParentWrite ==
  /\ ppc = "write"
  /\ file' = "hello"
  /\ ppc' = "tell"
  /\ UNCHANGED <<pfd1, pfd2, buffer, cpc>>

\* tell_child: write(pfd1[1], "p", 1).
ParentTell ==
  /\ ppc = "tell"
  /\ pfd1' = pfd1 + 1
  /\ ppc' = "wait_child"
  /\ UNCHANGED <<pfd2, file, buffer, cpc>>

\* wait_for_child: read(pfd2[0], &c, 1) blocks until the byte arrives.
ParentWaitChild ==
  /\ ppc = "wait_child"
  /\ pfd2 > 0
  /\ pfd2' = pfd2 - 1
  /\ ppc' = "waitpid"
  /\ UNCHANGED <<pfd1, file, buffer, cpc>>

\* waitpid(pid, &status, 0); exit(EXIT_SUCCESS).
ParentWaitpid ==
  /\ ppc = "waitpid"
  /\ cpc = "exited"
  /\ ppc' = "exited"
  /\ UNCHANGED <<pfd1, pfd2, file, buffer, cpc>>

-----------------------------------------------------------------------------
\* wait_for_parent: read(pfd1[0], &c, 1) blocks until the byte arrives.
ChildWaitParent ==
  /\ cpc = "wait_parent"
  /\ pfd1 > 0
  /\ pfd1' = pfd1 - 1
  /\ cpc' = "read"
  /\ UNCHANGED <<pfd2, file, buffer, ppc>>

(* fopen(message.txt, "rt"); fscanf; fclose.  A missing file gives a NULL  *)
(* fp, and fscanf on it crashes the child; an empty file leaves buffer     *)
(* uninitialised.                                                          *)
ChildRead ==
  /\ cpc = "read"
  /\ buffer' = file
  /\ cpc' = IF file = "none" THEN "crashed" ELSE "tell"
  /\ UNCHANGED <<pfd1, pfd2, file, ppc>>

\* Mutant: the child exits without tell_parent.
ChildTellSkipped ==
  /\ cpc = "tell"
  /\ cpc' = "exited"
  /\ UNCHANGED <<pfd1, pfd2, file, buffer, ppc>>

\* tell_parent: write(pfd2[1], "c", 1); sleep(5); exit(EXIT_SUCCESS).
ChildTell ==
  /\ cpc = "tell"
  /\ pfd2' = pfd2 + 1
  /\ cpc' = "exited"
  /\ UNCHANGED <<pfd1, file, buffer, ppc>>

-----------------------------------------------------------------------------
Parent == ParentOpen \/ ParentWrite \/ ParentTell \/ ParentWaitChild
            \/ ParentWaitpid

Child == ChildWaitParent \/ ChildRead \/ ChildTell

Next == Parent \/ Child

\* Both processes are eventually scheduled while they can run.
Fairness == WF_vars(Parent) /\ WF_vars(Child)

Spec == Init /\ [][Next]_vars /\ Fairness

-----------------------------------------------------------------------------
TypeOK ==
  /\ pfd1 \in 0..1 /\ pfd2 \in 0..1
  /\ file \in {"none", "empty", "hello"}
  /\ buffer \in {"unset", "none", "empty", "hello"}
  /\ ppc \in {"open", "write", "tell", "wait_child", "waitpid", "exited",
              "failed"}
  /\ cpc \in {"wait_parent", "read", "tell", "crashed", "exited"}

(* The child reads message.txt only once the parent has written and closed *)
(* it, whatever file an earlier run left: "CHILD: Message says:" prints    *)
(* the parent's line.                                                      *)
ChildReadsMessage == buffer # "unset" => buffer = "hello"

(* The parent prints "Child is done reading the file" only after the child *)
(* has read it, and the run ends with both processes gone, unless the      *)
(* parent's fopen failed (then the child blocks in read forever: it holds  *)
(* the write end of pfd1 itself, so it never sees end of file).            *)
Termination ==
  <>(ppc = "exited" /\ cpc = "exited") \/ <>(ppc = "failed")

=============================================================================
