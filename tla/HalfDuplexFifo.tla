---------------------------- MODULE HalfDuplexFifo ----------------------------
(***************************************************************************)
(* The named-pipe server of src/code_examples/ipc/server_code.c and its    *)
(* client src/ipc/client_code.c, run from shells at any time, several of   *)
(* each.  The server installs a SIGINT handler, creates the FIFO           *)
(* /tmp/half_duplex_2 (exiting if mkfifo fails), opens it for reading,     *)
(* makes one read of up to MAX_BUFFER_SIZE bytes, prints them in upper     *)
(* case, unlinks the path and exits; the handler unlinks the path and      *)
(* exits.  The client opens the path for writing, writes its argument and  *)
(* exits.                                                                  *)
(*                                                                         *)
(* path is the FIFO the name /tmp/half_duplex_2 refers to, named after     *)
(* the server run that made it, or None.  An open resolves the name once;  *)
(* the process then holds that FIFO, linked or not.  As open(2) of a FIFO  *)
(* does, an open for reading waits until the FIFO has a writer and an      *)
(* open for writing until it has a reader, and the second of the pair      *)
(* wakes the first.  A write of fewer than PIPE_BUF bytes is atomic; to a  *)
(* FIFO no process holds for reading it raises SIGPIPE, whose default     *)
(* action ends the client.  A read returns what the FIFO holds, at most   *)
(* Max bytes, blocks while it is empty and has a writer, and returns 0     *)
(* when it is empty and has none; read(-1) returns -1.  A byte is the      *)
(* client that wrote it; client c writes StrLen[c] bytes.  The user sends     *)
(* up to MaxSigs Ctrl-Cs to servers.                                       *)
(***************************************************************************)
EXTENDS Naturals, Sequences

CONSTANTS
  Servers,   \* the server runs
  Clients,   \* the client runs
  StrLen,    \* strlen(argv[1]) of each client
  Max,       \* MAX_BUFFER_SIZE
  MaxSigs,   \* Ctrl-Cs the user sends
  None       \* no FIFO, or no descriptor

ASSUME None \notin Servers /\ StrLen \in [Clients -> Nat] /\ Max \in Nat \ {0}

VARIABLES
  path,      \* the FIFO at /tmp/half_duplex_2, or None
  fifo,      \* the bytes each server's FIFO holds
  spc,       \* each server's position
  sfd,       \* the FIFO each server has opened, None, or "bad" (-1)
  got,       \* the bytes each server's read returned, or "err" for -1
  cpc,       \* each client's position
  cfd,       \* the FIFO each client has opened, None, or "bad" (-1)
  sigs       \* Ctrl-Cs sent so far

vars == <<path, fifo, spc, sfd, got, cpc, cfd, sigs>>

\* Server positions, by source line: "signal" 43, "mkfifo" 47, "open" 52,
\* "opening" blocked in that open, "read" 54-62, "unlink" 64, "exit" 65.
\* Client positions: "open" 44, "opening", "write" 47, "exit" 49.
Ended == {"done", "killed"}

\* The servers holding FIFO o open for reading, and the clients for writing.
Readers(o) == {s \in Servers : sfd[s] = o /\ spc[s] \in {"read", "unlink", "exit"}}
Writers(o) == {c \in Clients : cfd[c] = o /\ cpc[c] \in {"write", "exit"}}

\* The processes blocked in open on o.
OpeningServers(o) == {s \in Servers : sfd[s] = o /\ spc[s] = "opening"}
OpeningClients(o) == {c \in Clients : cfd[c] = o /\ cpc[c] = "opening"}

\* The bytes client c writes.
Bytes(c) == [i \in 1 .. StrLen[c] |-> c]

\* The server has started and not ended.
Running(s) == spc[s] \notin {"signal"} \cup Ended

-----------------------------------------------------------------------------
Init ==
  /\ path = None
  /\ fifo = [s \in Servers |-> <<>>]
  /\ spc = [s \in Servers |-> "signal"] /\ sfd = [s \in Servers |-> None]
  /\ got = [s \in Servers |-> <<>>]
  /\ cpc = [c \in Clients |-> "open"] /\ cfd = [c \in Clients |-> None]
  /\ sigs = 0

\* Line 43: a server run starts and installs control_c_handler.
ServerSignal(s) ==
  /\ spc[s] = "signal" /\ spc' = [spc EXCEPT ![s] = "mkfifo"]
  /\ UNCHANGED <<path, fifo, sfd, got, cpc, cfd, sigs>>

\* Lines 47-50: mkfifo fails if the name exists, and the server exits.
ServerMkfifo(s) ==
  /\ spc[s] = "mkfifo"
  /\ IF path = None
       THEN /\ path' = s /\ fifo' = [fifo EXCEPT ![s] = <<>>]
            /\ spc' = [spc EXCEPT ![s] = "open"]
       ELSE /\ spc' = [spc EXCEPT ![s] = "done"]
            /\ UNCHANGED <<path, fifo>>
  /\ UNCHANGED <<sfd, got, cpc, cfd, sigs>>

(* Line 52: open(O_RDONLY) fails with no FIFO at the name; otherwise it    *)
(* returns at once if a client has the FIFO open or is opening it, waking  *)
(* those clients, and waits for one if not.                                *)
ServerOpen(s) ==
  /\ spc[s] = "open"
  /\ IF path = None
       THEN /\ sfd' = [sfd EXCEPT ![s] = "bad"]
            /\ spc' = [spc EXCEPT ![s] = "read"]
            /\ UNCHANGED cpc
       ELSE /\ sfd' = [sfd EXCEPT ![s] = path]
            /\ spc' = [spc EXCEPT ![s] =
                 IF Writers(path) \cup OpeningClients(path) = {} THEN "opening" ELSE "read"]
            /\ cpc' = [c \in Clients |-> IF c \in OpeningClients(path) THEN "write" ELSE cpc[c]]
  /\ UNCHANGED <<path, fifo, got, cfd, sigs>>

(* Lines 54-62: n = read(fd, buffer, MAX_BUFFER_SIZE), then buffer[n] =   *)
(* '\0', the conversion and the prints.                                    *)
ServerRead(s) ==
  /\ spc[s] = "read"
  /\ LET o == sfd[s] IN
       IF o = "bad"
         THEN got' = [got EXCEPT ![s] = "err"] /\ UNCHANGED fifo
         ELSE /\ fifo[o] # <<>> \/ Writers(o) = {}
              /\ LET k == IF Len(fifo[o]) < Max THEN Len(fifo[o]) ELSE Max
                 IN  /\ got' = [got EXCEPT ![s] = SubSeq(fifo[o], 1, k)]
                     /\ fifo' = [fifo EXCEPT ![o] = SubSeq(@, k + 1, Len(@))]
  /\ spc' = [spc EXCEPT ![s] = "unlink"]
  /\ UNCHANGED <<path, sfd, cpc, cfd, sigs>>

\* Line 64: unlink(HALF_DUPLEX_FILE), of whatever FIFO has the name now.
ServerUnlink(s) ==
  /\ spc[s] = "unlink" /\ spc' = [spc EXCEPT ![s] = "exit"]
  /\ path' = None
  /\ UNCHANGED <<fifo, sfd, got, cpc, cfd, sigs>>

\* Line 65: exit(0), which closes the descriptor.
ServerExit(s) ==
  /\ spc[s] = "exit" /\ spc' = [spc EXCEPT ![s] = "done"]
  /\ UNCHANGED <<path, fifo, sfd, got, cpc, cfd, sigs>>

\* Mutant: control_c_handler exits without the unlink.
ServerSigIntKeepsFifo(s) ==
  /\ Running(s)
  /\ sigs < MaxSigs /\ sigs' = sigs + 1
  /\ spc' = [spc EXCEPT ![s] = "done"]
  /\ UNCHANGED <<path, fifo, sfd, got, cpc, cfd>>

(* Ctrl-C to a started server: control_c_handler unlinks the name,       *)
(* whatever FIFO it names, and exits.                                      *)
ServerSigInt(s) ==
  /\ Running(s)
  /\ sigs < MaxSigs /\ sigs' = sigs + 1
  /\ path' = None
  /\ spc' = [spc EXCEPT ![s] = "done"]
  /\ UNCHANGED <<fifo, sfd, got, cpc, cfd>>

(* Line 44: open(O_WRONLY) fails with no FIFO at the name; otherwise it    *)
(* returns at once if a server has the FIFO open or is opening it, waking  *)
(* those servers, and waits for one if not.                                *)
ClientOpen(c) ==
  /\ cpc[c] = "open"
  /\ IF path = None
       THEN /\ cfd' = [cfd EXCEPT ![c] = "bad"]
            /\ cpc' = [cpc EXCEPT ![c] = "write"]
            /\ UNCHANGED spc
       ELSE /\ cfd' = [cfd EXCEPT ![c] = path]
            /\ cpc' = [cpc EXCEPT ![c] =
                 IF Readers(path) \cup OpeningServers(path) = {} THEN "opening" ELSE "write"]
            /\ spc' = [s \in Servers |-> IF s \in OpeningServers(path) THEN "read" ELSE spc[s]]
  /\ UNCHANGED <<path, fifo, sfd, got, sigs>>

(* Line 47: write(fd, argv[1], strlen(argv[1])); to fd -1 it fails, to a  *)
(* FIFO no server reads it raises SIGPIPE.                                 *)
ClientWrite(c) ==
  /\ cpc[c] = "write"
  /\ LET o == cfd[c] IN
       IF o = "bad"
         THEN cpc' = [cpc EXCEPT ![c] = "exit"] /\ UNCHANGED fifo
       ELSE IF Readers(o) = {}
         THEN cpc' = [cpc EXCEPT ![c] = "killed"] /\ UNCHANGED fifo
       ELSE /\ fifo' = [fifo EXCEPT ![o] = @ \o Bytes(c)]
            /\ cpc' = [cpc EXCEPT ![c] = "exit"]
  /\ UNCHANGED <<path, spc, sfd, got, cfd, sigs>>

\* Line 49: exit(0), which closes the descriptor.
ClientExit(c) ==
  /\ cpc[c] = "exit" /\ cpc' = [cpc EXCEPT ![c] = "done"]
  /\ UNCHANGED <<path, fifo, spc, sfd, got, cfd, sigs>>

Server(s) ==
  \/ ServerSignal(s) \/ ServerMkfifo(s) \/ ServerOpen(s) \/ ServerRead(s)
  \/ ServerUnlink(s) \/ ServerExit(s)

Client(c) == ClientOpen(c) \/ ClientWrite(c) \/ ClientExit(c)

Next ==
  \/ \E s \in Servers : Server(s) \/ ServerSigInt(s)
  \/ \E c \in Clients : Client(c)

\* A started process is eventually scheduled; no run is forced to start.
Fairness ==
  /\ \A s \in Servers : WF_vars(spc[s] # "signal" /\ Server(s))
  /\ \A c \in Clients : WF_vars(cpc[c] # "open" /\ Client(c))

Spec == Init /\ [][Next]_vars /\ Fairness

-----------------------------------------------------------------------------
TypeOK ==
  /\ path \in Servers \cup {None}
  /\ spc \in [Servers -> {"signal", "mkfifo", "open", "opening", "read",
                          "unlink", "exit", "done"}]
  /\ cpc \in [Clients -> {"open", "opening", "write", "exit", "done", "killed"}]
  /\ sigs \in 0 .. MaxSigs

(* Whatever order the runs start in and wherever Ctrl-C stops a server,   *)
(* once no server is running no FIFO is left at /tmp/half_duplex_2, so the *)
(* next server's mkfifo succeeds: both the end of main and                 *)
(* control_c_handler unlink it, and a server whose mkfifo failed leaves   *)
(* the name to the one that made it.                                       *)
NoStaleFifo == (\A s \in Servers : ~Running(s)) => path = None

====
