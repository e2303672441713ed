--------------------------- MODULE ShmClientServer ---------------------------
(***************************************************************************)
(* The System V shared-memory server and its clients:                      *)
(* src/code_examples/shm/SystemV/sv_xfr.c with sem_ops.c and               *)
(* src/shm/SystemV/cl_xfr.c (src/shm/SystemV/server_code.c and             *)
(* src/code_examples/shm/SystemV/client_code.c are the same programs with  *)
(* P and V in the file).                                                   *)
(*                                                                         *)
(* The server creates (or finds) the segment SHM_KEY, creates the          *)
(* semaphore SEM_KEY with value 0, then loops: P, stop if buf is "quit",   *)
(* else print client_id and buf.  After the loop it detaches and removes   *)
(* the semaphore (see below); the segment is never removed, so a later run finds it    *)
(* with the contents the last one left.  Each client, run from a shell at  *)
(* any time, locates the segment (or exits), stores its id and its string *)
(* argv[2] with two separate stores and calls V, which exits when the      *)
(* semaphore does not exist.  No lock orders the clients' stores or the    *)
(* server's reads.  semaphore_id is create_semaphore's TRUE, not an id,   *)
(* so the IPC_RMID of line 97 removes the set whose id is 1, SEM_KEY's     *)
(* only if the kernel gave it that id: a run may find the semaphore left   *)
(* by an earlier one, with the V calls made after that server stopped.     *)
(***************************************************************************)
EXTENDS Naturals, Sequences, FiniteSets

CONSTANTS
  Clients,     \* the client processes; a client's id is itself
  Words,       \* the strings argv[2] may be, "quit" among them
  NoClient,    \* client_id of a zero-filled segment
  Empty        \* buf of a zero-filled segment

ASSUME "quit" \in Words /\ Empty \notin Words /\ NoClient \notin Clients

VARIABLES
  arg,         \* argv[2] of each client
  shmExists,   \* the segment SHM_KEY exists
  seg,         \* its contents: [client_id, buf]
  semExists,   \* the semaphore SEM_KEY exists
  semval,      \* its value
  spc,         \* program counter of the server
  cpc,         \* program counter of each client
  printed,     \* the lines "Client %d says %s." the server printed
  written      \* history: the [client_id, buf] stores of this run

vars == <<arg, shmExists, seg, semExists, semval, spc, cpc, printed, written>>

Zeroed == [client_id |-> NoClient, buf |-> Empty]

(* A segment left by an earlier server run holds what its last client      *)
(* wrote, "quit" if that server stopped normally; a semaphore left with it *)
(* holds the V calls made since.                                           *)
Init ==
  /\ arg \in [Clients -> Words]
  /\ shmExists \in BOOLEAN
  /\ seg \in IF shmExists THEN [client_id : Clients, buf : {"quit"}]
                          ELSE {Zeroed}
  /\ semExists \in IF shmExists THEN BOOLEAN ELSE {FALSE}
  /\ semval \in IF semExists THEN 0 .. 1 ELSE {0}
  /\ spc = "create_shm"
  /\ cpc = [c \in Clients |-> "locate"]
  /\ printed = <<>>
  /\ written = {}

-----------------------------------------------------------------------------
(* create_shm_area: shmget(IPC_CREAT) returns the existing segment or a    *)
(* new zero-filled one; shmat.                                             *)
ServerCreateShm ==
  /\ spc = "create_shm"
  /\ shmExists' = TRUE
  /\ seg' = IF shmExists THEN seg ELSE Zeroed
  /\ spc' = "create_sem"
  /\ UNCHANGED <<arg, semExists, semval, cpc, printed, written>>

(* create_semaphore: semget(IPC_CREAT) finds or creates the set, and      *)
(* semctl(SETVAL, 0) discards the V calls made on a left-over one.         *)
ServerCreateSem ==
  /\ spc = "create_sem"
  /\ semExists' = TRUE /\ semval' = 0
  /\ spc' = "P"
  /\ UNCHANGED <<arg, shmExists, seg, cpc, printed, written>>

\* P(SEM_KEY): semop -1 blocks until a client's V.
ServerP ==
  /\ spc = "P"
  /\ semval > 0
  /\ semval' = semval - 1
  /\ spc' = "test"
  /\ UNCHANGED <<arg, shmExists, seg, semExists, cpc, printed, written>>

(* if (!strcmp(ptr->buf, "quit")) break; else printf(... ptr->client_id,   *)
(* ptr->buf): the two fields are read from the segment as it is now.      *)
ServerTest ==
  /\ spc = "test"
  /\ IF seg.buf = "quit"
       THEN spc' = "detach" /\ UNCHANGED printed
       ELSE spc' = "P" /\ printed' = Append(printed, seg)
  /\ UNCHANGED <<arg, shmExists, seg, semExists, semval, cpc, written>>

(* shmdt; semctl(semaphore_id, 0, IPC_RMID) with semaphore_id = TRUE,     *)
(* which removes SEM_KEY's set only if its id is 1; exit: the segment      *)
(* stays.                                                                  *)
ServerExit ==
  /\ spc = "detach"
  /\ \/ UNCHANGED <<semExists, semval>>
     \/ semExists' = FALSE /\ semval' = 0
  /\ spc' = "exited"
  /\ UNCHANGED <<arg, shmExists, seg, cpc, printed, written>>

-----------------------------------------------------------------------------
\* locate_shared_memory: shmget without IPC_CREAT fails before the server.
ClientLocate(c) ==
  /\ cpc[c] = "locate"
  /\ cpc' = [cpc EXCEPT ![c] = IF shmExists THEN "store_id" ELSE "failed"]
  /\ UNCHANGED <<arg, shmExists, seg, semExists, semval, spc, printed, written>>

\* ptr->client_id = client_id.
ClientStoreId(c) ==
  /\ cpc[c] = "store_id"
  /\ seg' = [seg EXCEPT !.client_id = c]
  /\ cpc' = [cpc EXCEPT ![c] = "store_buf"]
  /\ UNCHANGED <<arg, shmExists, semExists, semval, spc, printed, written>>

\* Mutant: the client signals the server before it copies its string.
ClientStoreBufLate(c) ==
  /\ cpc[c] = "store_buf"
  /\ semExists
  /\ semval' = semval + 1
  /\ cpc' = [cpc EXCEPT ![c] = "late_buf"]
  /\ UNCHANGED <<arg, shmExists, seg, semExists, spc, printed, written>>

\* strcpy(ptr->buf, argv[2]).
ClientStoreBuf(c) ==
  /\ cpc[c] = "store_buf"
  /\ seg' = [seg EXCEPT !.buf = arg[c]]
  /\ written' = written \cup {[client_id |-> c, buf |-> arg[c]]}
  /\ cpc' = [cpc EXCEPT ![c] = "V"]
  /\ UNCHANGED <<arg, shmExists, semExists, semval, spc, printed>>

(* V(SEM_KEY): semget fails (exit) when the server has not created the     *)
(* semaphore yet or has removed it; else semop +1.                         *)
ClientV(c) ==
  /\ cpc[c] = "V"
  /\ IF semExists
       THEN semval' = semval + 1 /\ cpc' = [cpc EXCEPT ![c] = "exited"]
       ELSE UNCHANGED semval /\ cpc' = [cpc EXCEPT ![c] = "failed"]
  /\ UNCHANGED <<arg, shmExists, seg, semExists, spc, printed, written>>

-----------------------------------------------------------------------------
Server == ServerCreateShm \/ ServerCreateSem \/ ServerP \/ ServerTest
            \/ ServerExit

Client(c) == ClientLocate(c) \/ ClientStoreId(c) \/ ClientStoreBuf(c)
               \/ ClientV(c)

Next == Server \/ \E c \in Clients : Client(c)

\* Every process is eventually scheduled while it can run.
Fairness == WF_vars(Server) /\ \A c \in Clients : WF_vars(Client(c))

Spec == Init /\ [][Next]_vars /\ Fairness

-----------------------------------------------------------------------------
TypeOK ==
  /\ arg \in [Clients -> Words]
  /\ shmExists \in BOOLEAN /\ semExists \in BOOLEAN
  /\ seg \in [client_id : Clients \cup {NoClient}, buf : Words \cup {Empty}]
  /\ semval \in 0..Cardinality(Clients) + 1
  /\ spc \in {"create_shm", "create_sem", "P", "test", "detach", "exited"}
  /\ cpc \in [Clients -> {"locate", "store_id", "store_buf", "late_buf", "V",
                          "exited", "failed"}]
  /\ printed \in Seq([client_id : Clients \cup {NoClient},
                      buf : Words \cup {Empty}])

(* The server acts only on what the clients of this run stored: every      *)
(* line it prints shows a client's id and a string some client stored, and *)
(* it stops only on a "quit" a client stored, never on the zero-filled or  *)
(* left-over contents of the segment, since each V follows its client's    *)
(* strcpy.  (Id and string of one line may still come from two clients,    *)
(* and a string stored over another before the server read it is lost.)    *)
ServerReadsThisRun ==
  /\ \A k \in 1..Len(printed) :
       /\ printed[k].client_id \in Clients
       /\ \E w \in written : w.buf = printed[k].buf
  /\ spc \in {"detach", "exited"} => \E w \in written : w.buf = "quit"

(* The header of sv_xfr.c says access to the segment "is controlled using  *)
(* semaphores": each line the server prints is the id and string one       *)
(* client stored together.  The semaphore only counts V calls, so the two   *)
(* stores of two clients can interleave before the server reads.           *)
MessageIntact == \A k \in 1..Len(printed) : printed[k] \in written

=============================================================================
