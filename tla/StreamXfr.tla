------------------------------ MODULE StreamXfr ------------------------------
(***************************************************************************)
(* The iterative UNIX-domain stream server src/sockets/us_xfr_server.c and *)
(* its client src/code_examples/sockets/us_xfr_client.c, run from shells   *)
(* at any time, several of each.  The server removes /tmp/us_xfr, binds    *)
(* and listens on it, then forever accepts one connection, copies it to    *)
(* stdout until EOF and closes it.  The client connects and copies its     *)
(* stdin to the socket until EOF, then exits.                              *)
(*                                                                         *)
(* path is the socket the name /tmp/us_xfr refers to, named after the     *)
(* server run that bound it, or None; it outlives a killed server.  As     *)
(* Linux does, connect fails at once with no socket at the name or one     *)
(* not listening, blocks while the listen queue holds more than Backlog    *)
(* connections, and otherwise completes before the server accepts: the     *)
(* client may write at once.  A read returns what the connection holds, at *)
(* most BufSize bytes, blocks while it is empty and the client has not     *)
(* closed it, and returns 0 once it has.  A write to a connection the      *)
(* server has closed raises SIGPIPE, whose default action ends the client. *)
(* Byte i of client c's stdin is <<c, i>>; a read of stdin returns any     *)
(* number of the bytes left, up to BUF_SIZE.  The user sends up to         *)
(* MaxKills Ctrl-Cs, to servers (which loop forever) or clients.           *)
(***************************************************************************)
EXTENDS Naturals, Sequences, SequencesExt

CONSTANTS
  Servers,   \* the server runs
  Clients,   \* the client runs
  StrLen,    \* the length of each client's stdin
  BufSize,   \* BUF_SIZE
  Backlog,   \* BACKLOG
  MaxKills,  \* Ctrl-Cs the user sends
  None       \* no socket, or no connection

ASSUME None \notin Servers \cup Clients /\ StrLen \in [Clients -> Nat]
ASSUME BufSize \in Nat \ {0} /\ Backlog \in Nat /\ MaxKills \in Nat

VARIABLES
  path,      \* the socket at /tmp/us_xfr, or None
  spc,       \* each server's position
  queue,     \* each server's listen queue: connected clients not accepted
  conn,      \* the client each server's cfd is connected to, or None
  out,       \* the bytes each server wrote to its stdout
  acc,       \* history: the clients each server accepted, in order
  cpc,       \* each client's position
  srv,       \* the server each client connected to, or None
  nread,     \* the bytes of stdin each client has read
  chunk,     \* the bytes of the client's last read of stdin, not yet written
  data,      \* the bytes each client's connection holds, unread
  eof,       \* the client has closed its end
  shut,      \* the server has closed its end of the client's connection
  kills      \* Ctrl-Cs sent so far

vars == <<path, spc, queue, conn, out, acc, cpc, srv, nread, chunk, data, eof,
          shut, kills>>

\* Server positions, by source line: "remove" 38, "bind" 47, "listen" 52,
\* "accept" 77, "read" 84-89, "close" 96; "failed" after an exit(EXIT_FAILURE),
\* "killed" after Ctrl-C.  Client positions: "connect" 33, "read" 44,
\* "write" 45, "done" after exit(EXIT_SUCCESS), "failed", "killed".

\* client c's stdin.
Stdin(c) == [i \in 1 .. StrLen[c] |-> <<c, i>>]

\* A server that listens: connect to its socket succeeds or waits.
Listening(s) == spc[s] \in {"accept", "read", "close"}

\* A server run that started and has not ended.
Running(s) == spc[s] \notin {"remove", "failed", "killed"}

-----------------------------------------------------------------------------
Init ==
  /\ path = None
  /\ spc = [s \in Servers |-> "remove"] /\ queue = [s \in Servers |-> <<>>]
  /\ conn = [s \in Servers |-> None] /\ out = [s \in Servers |-> <<>>]
  /\ acc = [s \in Servers |-> <<>>]
  /\ cpc = [c \in Clients |-> "connect"] /\ srv = [c \in Clients |-> None]
  /\ nread = [c \in Clients |-> 0] /\ chunk = [c \in Clients |-> <<>>]
  /\ data = [c \in Clients |-> <<>>] /\ eof = [c \in Clients |-> FALSE]
  /\ shut = [c \in Clients |-> FALSE] /\ kills = 0

serverLocal == <<queue, conn, out, acc>>
clientVars == <<cpc, srv, nread, chunk, data, eof, shut>>

(* Lines 28-41: a server run starts, creates its socket and removes the   *)
(* name, whatever socket it refers to.                                     *)
ServerRemove(s) ==
  /\ spc[s] = "remove" /\ spc' = [spc EXCEPT ![s] = "bind"]
  /\ path' = None
  /\ UNCHANGED <<serverLocal, clientVars, kills>>

\* Lines 43-50: bind fails with EADDRINUSE if the name exists again.
ServerBind(s) ==
  /\ spc[s] = "bind"
  /\ IF path = None
       THEN path' = s /\ spc' = [spc EXCEPT ![s] = "listen"]
       ELSE UNCHANGED path /\ spc' = [spc EXCEPT ![s] = "failed"]
  /\ UNCHANGED <<serverLocal, clientVars, kills>>

\* Lines 52-55: listen(sfd, BACKLOG).
ServerListen(s) ==
  /\ spc[s] = "listen" /\ spc' = [spc EXCEPT ![s] = "accept"]
  /\ UNCHANGED <<path, serverLocal, clientVars, kills>>

\* Line 77: accept blocks until a connection is queued and takes the first.
ServerAccept(s) ==
  /\ spc[s] = "accept" /\ queue[s] # <<>>
  /\ conn' = [conn EXCEPT ![s] = Head(queue[s])]
  /\ acc' = [acc EXCEPT ![s] = Append(@, Head(queue[s]))]
  /\ queue' = [queue EXCEPT ![s] = Tail(@)]
  /\ spc' = [spc EXCEPT ![s] = "read"]
  /\ UNCHANGED <<path, out, clientVars, kills>>

\* The bytes one read of cfd returns.
Received(c) == SubSeq(data[c], 1, IF Len(data[c]) < BufSize THEN Len(data[c]) ELSE BufSize)

(* Mutant: the loop of lines 84-89 made a single read, as the FIFO server *)
(* of ipc/server_code.c does.                                              *)
ServerReadOnce(s) ==
  /\ spc[s] = "read"
  /\ LET c == conn[s] IN
       /\ data[c] # <<>> \/ eof[c]
       /\ out' = [out EXCEPT ![s] = @ \o Received(c)]
       /\ data' = [data EXCEPT ![c] = SubSeq(@, Len(Received(c)) + 1, Len(@))]
  /\ spc' = [spc EXCEPT ![s] = "close"]
  /\ UNCHANGED <<path, queue, conn, acc, cpc, srv, nread, chunk, eof, shut, kills>>

(* Lines 84-94: read cfd and write what it returns to stdout, until read  *)
(* returns 0 at EOF.                                                       *)
ServerRead(s) ==
  /\ spc[s] = "read"
  /\ LET c == conn[s] IN
       IF data[c] # <<>>
         THEN /\ out' = [out EXCEPT ![s] = @ \o Received(c)]
              /\ data' = [data EXCEPT ![c] = SubSeq(@, Len(Received(c)) + 1, Len(@))]
              /\ UNCHANGED spc
         ELSE /\ eof[c] /\ spc' = [spc EXCEPT ![s] = "close"]
              /\ UNCHANGED <<out, data>>
  /\ UNCHANGED <<path, queue, conn, acc, cpc, srv, nread, chunk, eof, shut, kills>>

\* Line 96: close(cfd), and back to accept.
ServerClose(s) ==
  /\ spc[s] = "close" /\ spc' = [spc EXCEPT ![s] = "accept"]
  /\ shut' = [shut EXCEPT ![conn[s]] = TRUE]
  /\ conn' = [conn EXCEPT ![s] = None]
  /\ UNCHANGED <<path, queue, out, acc, cpc, srv, nread, chunk, data, eof, kills>>

(* Ctrl-C ends a server run; the kernel closes its connections, queued    *)
(* ones included, and the socket file stays behind.                        *)
ServerSigInt(s) ==
  /\ Running(s) /\ kills < MaxKills /\ kills' = kills + 1
  /\ spc' = [spc EXCEPT ![s] = "killed"]
  /\ shut' = [c \in Clients |-> shut[c] \/ srv[c] = s]
  /\ UNCHANGED <<path, serverLocal, cpc, srv, nread, chunk, data, eof>>

(* Line 33: connect fails with no socket at the name or one that does not *)
(* listen, waits while the listen queue is full, and otherwise queues the  *)
(* connection.                                                             *)
ClientConnect(c) ==
  /\ cpc[c] = "connect"
  /\ IF path = None \/ ~Listening(path)
       THEN cpc' = [cpc EXCEPT ![c] = "failed"] /\ UNCHANGED <<queue, srv>>
       ELSE /\ Len(queue[path]) <= Backlog
            /\ queue' = [queue EXCEPT ![path] = Append(@, c)]
            /\ srv' = [srv EXCEPT ![c] = path]
            /\ cpc' = [cpc EXCEPT ![c] = "read"]
  /\ UNCHANGED <<path, spc, conn, out, acc, nread, chunk, data, eof, shut, kills>>

(* Line 44: read(STDIN_FILENO, buf, BUF_SIZE) returns some of what is left *)
(* of stdin; at EOF the client exits and its end of the socket closes.     *)
ClientRead(c) ==
  /\ cpc[c] = "read"
  /\ IF nread[c] < StrLen[c]
       THEN \E n \in 1 .. BufSize :
              /\ nread[c] + n <= StrLen[c]
              /\ chunk' = [chunk EXCEPT ![c] = SubSeq(Stdin(c), nread[c] + 1, nread[c] + n)]
              /\ nread' = [nread EXCEPT ![c] = @ + n]
              /\ cpc' = [cpc EXCEPT ![c] = "write"]
              /\ UNCHANGED eof
       ELSE /\ cpc' = [cpc EXCEPT ![c] = "done"] /\ eof' = [eof EXCEPT ![c] = TRUE]
            /\ UNCHANGED <<nread, chunk>>
  /\ UNCHANGED <<path, spc, serverLocal, srv, data, shut, kills>>

(* Line 45: write(sfd, buf, nr); on a connection the server has closed it  *)
(* raises SIGPIPE.                                                         *)
ClientWrite(c) ==
  /\ cpc[c] = "write"
  /\ IF shut[c]
       THEN cpc' = [cpc EXCEPT ![c] = "killed"] /\ eof' = [eof EXCEPT ![c] = TRUE]
            /\ UNCHANGED data
       ELSE /\ data' = [data EXCEPT ![c] = @ \o chunk[c]]
            /\ cpc' = [cpc EXCEPT ![c] = "read"]
            /\ UNCHANGED eof
  /\ UNCHANGED <<path, spc, serverLocal, srv, nread, chunk, shut, kills>>

\* Ctrl-C ends a client; its end of the connection closes.
ClientSigInt(c) ==
  /\ cpc[c] \in {"read", "write"} /\ kills < MaxKills /\ kills' = kills + 1
  /\ cpc' = [cpc EXCEPT ![c] = "killed"] /\ eof' = [eof EXCEPT ![c] = TRUE]
  /\ UNCHANGED <<path, spc, serverLocal, srv, nread, chunk, data, shut>>

Server(s) ==
  \/ ServerRemove(s) \/ ServerBind(s) \/ ServerListen(s) \/ ServerAccept(s)
  \/ ServerRead(s) \/ ServerClose(s)

Client(c) == ClientConnect(c) \/ ClientRead(c) \/ ClientWrite(c)

Next ==
  \/ \E s \in Servers : Server(s) \/ ServerSigInt(s)
  \/ \E c \in Clients : Client(c) \/ ClientSigInt(c)

Spec == Init /\ [][Next]_vars

-----------------------------------------------------------------------------
TypeOK ==
  /\ path \in Servers \cup {None}
  /\ spc \in [Servers -> {"remove", "bind", "listen", "accept", "read", "close",
                          "failed", "killed"}]
  /\ cpc \in [Clients -> {"connect", "read", "write", "done", "failed", "killed"}]
  /\ kills \in 0 .. MaxKills

\* The bytes of client c that server s wrote to stdout.
Copied(s, c) == Len(SelectSeq(out[s], LAMBDA b : b[1] = c))

(* Whatever the order of the runs, however stdin is split into reads and   *)
(* wherever Ctrl-C ends a process, each server's stdout is, connection by  *)
(* connection in the order accept returned them, a leading part of that   *)
(* client's stdin, never mixed with another's; and a connection the server *)
(* closed holds the whole stdin of a client that reached EOF: the read    *)
(* loop of lines 84-89 drains each connection before the next accept.      *)
StreamsWhole ==
  \A s \in Servers :
    /\ out[s] = FlattenSeq([i \in DOMAIN acc[s] |->
                   SubSeq(Stdin(acc[s][i]), 1, Copied(s, acc[s][i]))])
    /\ \A i \in DOMAIN acc[s] :
         /\ i < Len(acc[s]) \/ conn[s] = None
         /\ cpc[acc[s][i]] = "done"
         => Copied(s, acc[s][i]) = StrLen[acc[s][i]]

====
