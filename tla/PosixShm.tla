------------------------------ MODULE PosixShm ------------------------------
(***************************************************************************)
(* The POSIX shared-memory pair: the server src/shm/posix/sv_xfr.c and the *)
(* client src/code_examples/shm/posix/cl_xfr.c, with the header            *)
(* src/shm/posix/sv_cl_xfr.h.                                              *)
(*                                                                         *)
(* The server creates the object SHARED_OBJECT_PATH with O_CREAT | O_EXCL, *)
(* sizes it with ftruncate, maps it, stores a message's type and then its  *)
(* text, and exits, leaving the object behind.  The client opens the       *)
(* object, maps it, prints the message and shm_unlinks the name.  Each     *)
(* run of either program is a process of its own and the user may start   *)
(* them in any order and at the same time: Servers and Clients are these   *)
(* runs.                                                                   *)
(*                                                                         *)
(* An object is named after the server run that created it.  name is the  *)
(* object SHARED_OBJECT_PATH denotes; unlinking removes the name and an    *)
(* object stays usable through the descriptors already open.  A message    *)
(* is its writer's run and mtype, mbuf are the two fields of struct msg;   *)
(* random contents and the text's formatting are not modelled.  mmap of    *)
(* an object still of length zero succeeds and the first access raises     *)
(* SIGBUS, which ends the client.                                          *)
(***************************************************************************)
EXTENDS FiniteSets

CONSTANTS
  Servers,   \* runs of sv_xfr
  Clients,   \* runs of cl_xfr
  NoObj,     \* no object: the name is unlinked, or no descriptor
  Zero       \* a field of a new object, all bytes zero

ASSUME NoObj \notin Servers /\ Zero \notin Servers

VARIABLES
  name,    \* the object SHARED_OBJECT_PATH names
  size,    \* object length: 0 until ftruncate, 1 (one struct msg) after
  mtype,   \* shared_msg->type of each object
  mbuf,    \* shared_msg->buf of each object
  sfd,     \* the object each server's fd refers to
  spc,     \* program counter of each server run
  cfd,     \* the object each client's fd refers to
  shown,   \* what each client printed: <<type, buf>>
  cpc      \* program counter of each client run

vars == <<name, size, mtype, mbuf, sfd, spc, cfd, shown, cpc>>

Objects == Servers
Field == Servers \cup {Zero}

Init ==
  /\ name = NoObj
  /\ size = [o \in Objects |-> 0]
  /\ mtype = [o \in Objects |-> Zero]
  /\ mbuf = [o \in Objects |-> Zero]
  /\ sfd = [s \in Servers |-> NoObj]
  /\ spc = [s \in Servers |-> "open"]
  /\ cfd = [c \in Clients |-> NoObj]
  /\ shown = [c \in Clients |-> <<NoObj, NoObj>>]
  /\ cpc = [c \in Clients |-> "open"]

-----------------------------------------------------------------------------
(* Mutant: shm_open without O_EXCL opens the existing object, which the    *)
(* server then resizes and overwrites.                                     *)
SvOpenNoExcl(s) ==
  /\ spc[s] = "open"
  /\ IF name = NoObj
       THEN /\ name' = s /\ sfd' = [sfd EXCEPT ![s] = s]
       ELSE /\ sfd' = [sfd EXCEPT ![s] = name] /\ UNCHANGED name
  /\ spc' = [spc EXCEPT ![s] = "truncate"]
  /\ UNCHANGED <<size, mtype, mbuf, cfd, shown, cpc>>

(* shm_open(SHARED_OBJECT_PATH, O_CREAT | O_EXCL | O_RDWR): EEXIST while   *)
(* the name exists, and the server exits; otherwise a new object of        *)
(* length zero.                                                            *)
SvOpen(s) ==
  /\ spc[s] = "open"
  /\ IF name = NoObj
       THEN /\ name' = s /\ sfd' = [sfd EXCEPT ![s] = s]
            /\ spc' = [spc EXCEPT ![s] = "truncate"]
       ELSE /\ spc' = [spc EXCEPT ![s] = "failed"]
            /\ UNCHANGED <<name, sfd>>
  /\ UNCHANGED <<size, mtype, mbuf, cfd, shown, cpc>>

\* ftruncate(fd, sizeof(struct msg)), its result unchecked.
SvTruncate(s) ==
  /\ spc[s] = "truncate"
  /\ size' = [size EXCEPT ![sfd[s]] = 1]
  /\ spc' = [spc EXCEPT ![s] = "type"]
  /\ UNCHANGED <<name, mtype, mbuf, sfd, cfd, shown, cpc>>

\* mmap, then shared_msg->type = random_number % MESSAGE_TYPES.
SvWriteType(s) ==
  /\ spc[s] = "type"
  /\ mtype' = [mtype EXCEPT ![sfd[s]] = s]
  /\ spc' = [spc EXCEPT ![s] = "buf"]
  /\ UNCHANGED <<name, size, mbuf, sfd, cfd, shown, cpc>>

\* snprintf(shared_msg->buf, ...); exit, leaving the object in place.
SvWriteBuf(s) ==
  /\ spc[s] = "buf"
  /\ mbuf' = [mbuf EXCEPT ![sfd[s]] = s]
  /\ spc' = [spc EXCEPT ![s] = "exited"]
  /\ UNCHANGED <<name, size, mtype, sfd, cfd, shown, cpc>>

\* shm_open(SHARED_OBJECT_PATH, O_RDWR): the client exits if there is none.
ClOpen(c) ==
  /\ cpc[c] = "open"
  /\ IF name = NoObj
       THEN /\ cpc' = [cpc EXCEPT ![c] = "failed"] /\ UNCHANGED cfd
       ELSE /\ cfd' = [cfd EXCEPT ![c] = name]
            /\ cpc' = [cpc EXCEPT ![c] = "read"]
  /\ UNCHANGED <<name, size, mtype, mbuf, sfd, spc, shown>>

(* mmap, then the printf of shared_msg->type and shared_msg->buf: SIGBUS   *)
(* if the object has no bytes yet.                                         *)
ClRead(c) ==
  /\ cpc[c] = "read"
  /\ IF size[cfd[c]] = 0
       THEN /\ cpc' = [cpc EXCEPT ![c] = "bus"] /\ UNCHANGED shown
       ELSE /\ shown' = [shown EXCEPT ![c] = <<mtype[cfd[c]], mbuf[cfd[c]]>>]
            /\ cpc' = [cpc EXCEPT ![c] = "unlink"]
  /\ UNCHANGED <<name, size, mtype, mbuf, sfd, spc, cfd>>

(* shm_unlink(SHARED_OBJECT_PATH): removes whatever object the name        *)
(* denotes now; ENOENT makes the client exit with EXIT_FAILURE.            *)
ClUnlink(c) ==
  /\ cpc[c] = "unlink"
  /\ name' = NoObj
  /\ cpc' = [cpc EXCEPT ![c] = IF name = NoObj THEN "failed" ELSE "exited"]
  /\ UNCHANGED <<size, mtype, mbuf, sfd, spc, cfd, shown>>

Server(s) == SvOpen(s) \/ SvTruncate(s) \/ SvWriteType(s) \/ SvWriteBuf(s)

Client(c) == ClOpen(c) \/ ClRead(c) \/ ClUnlink(c)

Next == (\E s \in Servers : Server(s)) \/ (\E c \in Clients : Client(c))

Fairness == (\A s \in Servers : WF_vars(Server(s)))
            /\ (\A c \in Clients : WF_vars(Client(c)))

Spec == Init /\ [][Next]_vars /\ Fairness

-----------------------------------------------------------------------------
TypeOK ==
  /\ name \in Objects \cup {NoObj}
  /\ size \in [Objects -> {0, 1}]
  /\ mtype \in [Objects -> Field] /\ mbuf \in [Objects -> Field]
  /\ sfd \in [Servers -> Objects \cup {NoObj}]
  /\ spc \in [Servers -> {"open", "truncate", "type", "buf", "exited", "failed"}]
  /\ cfd \in [Clients -> Objects \cup {NoObj}]
  /\ shown \in [Clients -> (Field \cup {NoObj}) \X (Field \cup {NoObj})]
  /\ cpc \in [Clients -> {"open", "read", "unlink", "exited", "failed", "bus"}]

(* The O_EXCL of the server's shm_open: a message a server run has stored  *)
(* whole is never changed by a later server run, however the runs of both  *)
(* programs overlap; a second server fails while the name exists and a     *)
(* server started after an unlink writes a new object.                    *)
MessageNeverOverwritten ==
  [][\A o \in Objects :
       mbuf[o] # Zero => mtype'[o] = mtype[o] /\ mbuf'[o] = mbuf[o]]_vars

=============================================================================
