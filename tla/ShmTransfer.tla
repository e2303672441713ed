----------------------------- MODULE ShmTransfer -----------------------------
(***************************************************************************)
(* The System V shared-memory transfer of                                  *)
(* src/code_examples/shm/reader_writer_systemV: svshm_xfr_writer.c,        *)
(* svshm_xfr_reader.c and binary_sems.c.                                   *)
(*                                                                         *)
(* The writer creates a set of two semaphores (WRITE_SEM available,        *)
(* READ_SEM in use) and the segment, then copies stdin block by block:     *)
(* reserve WRITE_SEM, read a block into the segment, release READ_SEM; a   *)
(* block of count 0 (end of file) ends the loop, after which it waits for  *)
(* WRITE_SEM once more and removes the objects.  The reader, started from  *)
(* another shell at any time, gets both objects (or exits), and loops:     *)
(* reserve READ_SEM, stop at count 0, write the block to stdout, release   *)
(* WRITE_SEM; then shmdt and a last release of WRITE_SEM.                 *)
(*                                                                         *)
(* A block is an element of Data; the segment holds a block or Eof (count *)
(* 0, also the contents of a new, zero-filled segment).  semget creates    *)
(* the set with both values 0; a semop on a removed set fails (EIDRM).     *)
(***************************************************************************)
EXTENDS Naturals, Sequences

CONSTANTS
  Data,        \* the blocks stdin may hold
  MaxBlocks,   \* the longest input checked
  Eof          \* shmp->count == 0

ASSUME Eof \notin Data

VARIABLES
  input,       \* the writer's stdin, fixed for the run
  next,        \* index of the next block the writer reads
  semExists,   \* the semaphore set SEM_KEY exists
  sem,         \* sem["write"], sem["read"]: WRITE_SEM and READ_SEM
  shmExists,   \* the segment SHM_KEY exists
  shm,         \* the block in the segment
  out,         \* what the reader wrote to stdout
  wpc, rpc     \* program counters of writer and reader

vars == <<input, next, semExists, sem, shmExists, shm, out, wpc, rpc>>

Init ==
  /\ input \in UNION {[1..k -> Data] : k \in 0..MaxBlocks}
  /\ next = 1
  /\ semExists = FALSE /\ sem = [s \in {"write", "read"} |-> 0]
  /\ shmExists = FALSE /\ shm = Eof
  /\ out = <<>>
  /\ wpc = "semget" /\ rpc = "start"

-----------------------------------------------------------------------------
\* semget(SEM_KEY, 2, IPC_CREAT | OBJ_PERMS): both values 0.
WriterSemget ==
  /\ wpc = "semget"
  /\ semExists' = TRUE
  /\ wpc' = "init"
  /\ UNCHANGED <<input, next, sem, shmExists, shm, out, rpc>>

\* initSemAvailable(WRITE_SEM); initSemInUse(READ_SEM).
WriterInit ==
  /\ wpc = "init"
  /\ sem' = [sem EXCEPT !["write"] = 1, !["read"] = 0]
  /\ wpc' = "shmget"
  /\ UNCHANGED <<input, next, semExists, shmExists, shm, out, rpc>>

\* shmget(SHM_KEY, ..., IPC_CREAT | OBJ_PERMS); shmat: a zero-filled segment.
WriterShmget ==
  /\ wpc = "shmget"
  /\ shmExists' = TRUE
  /\ wpc' = "reserve"
  /\ UNCHANGED <<input, next, semExists, sem, shm, out, rpc>>

\* Mutant: the writer does not wait for its turn.
WriterReserveSkipped ==
  /\ wpc \in {"reserve", "final"}
  /\ wpc' = IF wpc = "reserve" THEN "read" ELSE "rmid"
  /\ UNCHANGED <<input, next, semExists, sem, shmExists, shm, out, rpc>>

(* reserveSem(semid, WRITE_SEM), in the loop or after it: blocks until the *)
(* reader releases it.                                                     *)
WriterReserve ==
  /\ wpc \in {"reserve", "final"}
  /\ sem["write"] > 0
  /\ sem' = [sem EXCEPT !["write"] = @ - 1]
  /\ wpc' = IF wpc = "reserve" THEN "read" ELSE "rmid"
  /\ UNCHANGED <<input, next, semExists, shmExists, shm, out, rpc>>

\* shmp->count = read(STDIN_FILENO, shmp->buf, BUF_SIZE): a block, or 0.
WriterRead ==
  /\ wpc = "read"
  /\ IF next <= Len(input)
       THEN shm' = input[next] /\ next' = next + 1
       ELSE shm' = Eof /\ UNCHANGED next
  /\ wpc' = "release"
  /\ UNCHANGED <<input, semExists, sem, shmExists, out, rpc>>

(* releaseSem(semid, READ_SEM); then if (shmp->count == 0) break, tested   *)
(* after the release so that the reader sees the 0 too.                    *)
WriterRelease ==
  /\ wpc = "release"
  /\ sem' = [sem EXCEPT !["read"] = @ + 1]
  /\ wpc' = IF shm = Eof THEN "final" ELSE "reserve"
  /\ UNCHANGED <<input, next, semExists, shmExists, shm, out, rpc>>

\* semctl(IPC_RMID); shmdt; shmctl(IPC_RMID); exit.
WriterRemove ==
  /\ wpc = "rmid"
  /\ semExists' = FALSE
  /\ shmExists' = FALSE
  /\ wpc' = "exited"
  /\ UNCHANGED <<input, next, sem, shm, out, rpc>>

-----------------------------------------------------------------------------
(* semget(SEM_KEY, 0, 0); shmget(SHM_KEY, 0, 0); shmat: errExit when the   *)
(* writer has not created them yet.                                        *)
ReaderStart ==
  /\ rpc = "start"
  /\ rpc' = IF semExists /\ shmExists THEN "reserve" ELSE "failed"
  /\ UNCHANGED <<input, next, semExists, sem, shmExists, shm, out, wpc>>

(* reserveSem(semid, READ_SEM) blocks until the writer releases it, or     *)
(* fails once the set is removed.                                          *)
ReaderReserve ==
  /\ rpc = "reserve"
  /\ \/ semExists /\ sem["read"] > 0
        /\ sem' = [sem EXCEPT !["read"] = @ - 1] /\ rpc' = "test"
     \/ ~semExists /\ rpc' = "failed" /\ UNCHANGED sem
  /\ UNCHANGED <<input, next, semExists, shmExists, shm, out, wpc>>

(* if (shmp->count == 0) break; nbytes += count; write(STDOUT_FILENO, ...). *)
ReaderTest ==
  /\ rpc = "test"
  /\ IF shm = Eof
       THEN rpc' = "detach" /\ UNCHANGED out
       ELSE rpc' = "release" /\ out' = Append(out, shm)
  /\ UNCHANGED <<input, next, semExists, sem, shmExists, shm, wpc>>

\* releaseSem(semid, WRITE_SEM): give the writer a turn.
ReaderRelease ==
  /\ rpc = "release"
  /\ sem' = [sem EXCEPT !["write"] = @ + 1]
  /\ rpc' = "reserve"
  /\ UNCHANGED <<input, next, semExists, shmExists, shm, out, wpc>>

\* Mutant: the reader exits without the last release.
ReaderFinalSkipped ==
  /\ rpc = "detach"
  /\ rpc' = "exited"
  /\ UNCHANGED <<input, next, semExists, sem, shmExists, shm, out, wpc>>

\* shmdt; releaseSem(semid, WRITE_SEM) so that the writer can clean up; exit.
ReaderFinal ==
  /\ rpc = "detach"
  /\ sem' = [sem EXCEPT !["write"] = @ + 1]
  /\ rpc' = "exited"
  /\ UNCHANGED <<input, next, semExists, shmExists, shm, out, wpc>>

-----------------------------------------------------------------------------
Writer == WriterSemget \/ WriterInit \/ WriterShmget \/ WriterReserve
            \/ WriterRead \/ WriterRelease \/ WriterRemove

Reader == ReaderStart \/ ReaderReserve \/ ReaderTest \/ ReaderRelease
            \/ ReaderFinal

Next == Writer \/ Reader

\* Both processes are eventually scheduled while they can run.
Fairness == WF_vars(Writer) /\ WF_vars(Reader)

Spec == Init /\ [][Next]_vars /\ Fairness

-----------------------------------------------------------------------------
TypeOK ==
  /\ next \in 1..MaxBlocks + 1
  /\ semExists \in BOOLEAN /\ shmExists \in BOOLEAN
  /\ sem \in [{"write", "read"} -> 0..1]
  /\ shm \in Data \cup {Eof}
  /\ out \in Seq(Data)
  /\ wpc \in {"semget", "init", "shmget", "reserve", "read", "release",
              "final", "rmid", "exited"}
  /\ rpc \in {"start", "reserve", "test", "release", "detach", "exited",
              "failed"}

(* The reader's stdout is always a prefix of the writer's stdin: no block  *)
(* is lost, repeated or reordered in the one-block segment, and a reader  *)
(* that exits normally has written all of it.                              *)
DeliveredInOrder ==
  /\ \E k \in 0..Len(input) : out = SubSeq(input, 1, k)
  /\ rpc = "exited" => out = input

(* Both programs finish and the IPC objects are removed, unless the reader *)
(* was started before the writer had created them (it exits and the       *)
(* writer then waits for WRITE_SEM forever).                               *)
Termination ==
  <>(wpc = "exited" /\ rpc = "exited") \/ <>(rpc = "failed")

=============================================================================
