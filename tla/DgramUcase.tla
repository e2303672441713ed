------------------------------ MODULE DgramUcase -----------------------------
(***************************************************************************)
(* The UNIX-domain datagram server src/code_examples/sockets/              *)
(* ud_ucase_server.c and its client ud_ucase_client.c, run from shells at  *)
(* any time, several of each.  The server removes /tmp/ud_ucase, binds it  *)
(* and forever receives a datagram into buf, converts its bytes to upper   *)
(* case in place and sends them back to the sender's address.  The client  *)
(* binds /tmp/ud_ucase_client.<pid>, sends each argument to the server,    *)
(* waits for the reply and prints it, then removes its pathname.           *)
(*                                                                         *)
(* path is the socket the name /tmp/ud_ucase refers to, named after the   *)
(* server run that bound it, or None; a killed process's pathname stays.  *)
(* As Linux does, a sendto fails with ENOENT when no socket has the name   *)
(* and with ECONNREFUSED when its socket is closed, and a datagram longer  *)
(* than the receive buffer is cut to BufSize bytes.  Byte i of argument j  *)
(* of client c is a record of c, j, i and its case, lower in argv; Junk is *)
(* what buf holds before the first receive.  The user sends up to MaxKills *)
(* Ctrl-Cs.                                                                *)
(***************************************************************************)
EXTENDS Naturals, Sequences

CONSTANTS
  Servers,   \* the server runs
  Clients,   \* the client runs
  Msgs,      \* strlen of each client's arguments, in order
  BufSize,   \* BUF_SIZE
  MaxKills,  \* Ctrl-Cs the user sends
  Junk,      \* the contents of buf not yet written
  None       \* no socket

ASSUME None \notin Servers /\ BufSize \in Nat \ {0} /\ MaxKills \in Nat
ASSUME Msgs \in [Clients -> Seq(Nat)] /\ \A c \in Clients : Msgs[c] # <<>>

VARIABLES
  path,      \* the socket at /tmp/ud_ucase, or None
  spc,       \* each server's position
  inbox,     \* the datagrams queued at each server's socket
  buf,       \* each server's buf
  nbytes,    \* each server's num_bytes
  claddr,    \* the client each server's last datagram came from
  cpc,       \* each client's position
  bound,     \* the client's pathname exists
  cinbox,    \* the datagrams queued at each client's socket
  j,         \* the argument each client sends next
  printed,   \* the responses each client printed
  kills      \* Ctrl-Cs sent so far

vars == <<path, spc, inbox, buf, nbytes, claddr, cpc, bound, cinbox, j,
          printed, kills>>

\* Server positions, by source line: "remove" 30, "bind" 39, "recv" 57-69,
\* "send" 72; client positions: "bind" 41, "send" 59, "recv" 65,
\* "remove" 75; "done", "failed" after exit(EXIT_FAILURE), "killed".
Ended == {"done", "failed", "killed"}

\* Argument k of client c, and toupper of a byte.
Arg(c, k) == [i \in 1 .. Msgs[c][k] |-> [who |-> c, arg |-> k, pos |-> i, upper |-> FALSE]]
ToUpper(b) == IF b = Junk THEN Junk ELSE [b EXCEPT !.upper = TRUE]

\* A server socket that receives: bound, and its process alive.
Receiving(s) == spc[s] \in {"recv", "send"}

serverVars == <<spc, inbox, buf, nbytes, claddr>>
clientVars == <<cpc, bound, cinbox, j, printed>>

-----------------------------------------------------------------------------
Init ==
  /\ path = None
  /\ spc = [s \in Servers |-> "remove"] /\ inbox = [s \in Servers |-> <<>>]
  /\ buf = [s \in Servers |-> [i \in 1 .. BufSize |-> Junk]]
  /\ nbytes = [s \in Servers |-> 0] /\ claddr = [s \in Servers |-> None]
  /\ cpc = [c \in Clients |-> "bind"] /\ bound = [c \in Clients |-> FALSE]
  /\ cinbox = [c \in Clients |-> <<>>] /\ j = [c \in Clients |-> 1]
  /\ printed = [c \in Clients |-> <<>>] /\ kills = 0

(* Lines 23-33: a server run starts, creates its socket and removes the   *)
(* name, whatever socket it refers to.                                     *)
ServerRemove(s) ==
  /\ spc[s] = "remove" /\ spc' = [spc EXCEPT ![s] = "bind"]
  /\ path' = None
  /\ UNCHANGED <<inbox, buf, nbytes, claddr, clientVars, kills>>

\* Lines 35-42: bind fails with EADDRINUSE if the name exists again.
ServerBind(s) ==
  /\ spc[s] = "bind"
  /\ IF path = None
       THEN path' = s /\ spc' = [spc EXCEPT ![s] = "recv"]
       ELSE UNCHANGED path /\ spc' = [spc EXCEPT ![s] = "failed"]
  /\ UNCHANGED <<inbox, buf, nbytes, claddr, clientVars, kills>>

(* Lines 56-69: recvfrom takes the first datagram, at most BUF_SIZE of its *)
(* bytes, and its sender; printf; the loop makes those bytes upper case.   *)
ServerRecv(s) ==
  /\ spc[s] = "recv" /\ inbox[s] # <<>>
  /\ LET d == Head(inbox[s])
         n == IF Len(d.bytes) < BufSize THEN Len(d.bytes) ELSE BufSize
     IN  /\ buf' = [buf EXCEPT ![s] = [i \in 1 .. BufSize |->
                      IF i <= n THEN ToUpper(d.bytes[i]) ELSE @[i]]]
         /\ nbytes' = [nbytes EXCEPT ![s] = n]
         /\ claddr' = [claddr EXCEPT ![s] = d.from]
  /\ inbox' = [inbox EXCEPT ![s] = Tail(@)]
  /\ spc' = [spc EXCEPT ![s] = "send"]
  /\ UNCHANGED <<path, clientVars, kills>>

\* The reply sendto sends: the first k bytes of buf.
Reply(s, k) == SubSeq(buf[s], 1, k)

(* Mutant: sendto of line 72 given BUF_SIZE, not num_bytes, as the length. *)
ServerSendWhole(s) ==
  /\ spc[s] = "send"
  /\ LET c == claddr[s] IN
       IF bound[c] /\ cpc[c] \notin {"killed", "failed"}
         THEN /\ cinbox' = [cinbox EXCEPT ![c] = Append(@, Reply(s, BufSize))]
              /\ spc' = [spc EXCEPT ![s] = "recv"]
         ELSE spc' = [spc EXCEPT ![s] = "failed"] /\ UNCHANGED cinbox
  /\ UNCHANGED <<path, inbox, buf, nbytes, claddr, cpc, bound, j, printed, kills>>

(* Lines 72-76: sendto the sender's pathname fails if it was removed       *)
(* (ENOENT) or its socket is closed (ECONNREFUSED), and the server exits.  *)
ServerSend(s) ==
  /\ spc[s] = "send"
  /\ LET c == claddr[s] IN
       IF bound[c] /\ cpc[c] \notin {"killed", "failed"}
         THEN /\ cinbox' = [cinbox EXCEPT ![c] = Append(@, Reply(s, nbytes[s]))]
              /\ spc' = [spc EXCEPT ![s] = "recv"]
         ELSE spc' = [spc EXCEPT ![s] = "failed"] /\ UNCHANGED cinbox
  /\ UNCHANGED <<path, inbox, buf, nbytes, claddr, cpc, bound, j, printed, kills>>

\* Ctrl-C ends a server run; its socket closes and its pathname stays.
ServerSigInt(s) ==
  /\ spc[s] \in {"bind", "recv", "send"} /\ kills < MaxKills /\ kills' = kills + 1
  /\ spc' = [spc EXCEPT ![s] = "killed"]
  /\ UNCHANGED <<path, inbox, buf, nbytes, claddr, clientVars>>

\* Lines 29-44: socket and bind to the client's own pathname.
ClientBind(c) ==
  /\ cpc[c] = "bind" /\ cpc' = [cpc EXCEPT ![c] = "send"]
  /\ bound' = [bound EXCEPT ![c] = TRUE]
  /\ UNCHANGED <<path, serverVars, cinbox, j, printed, kills>>

(* Lines 58-63: sendto the server's name fails with no socket there or   *)
(* a closed one, and the client exits without removing its pathname.      *)
ClientSend(c) ==
  /\ cpc[c] = "send"
  /\ IF path # None /\ Receiving(path)
       THEN /\ inbox' = [inbox EXCEPT ![path] =
                           Append(@, [from |-> c, bytes |-> Arg(c, j[c])])]
            /\ cpc' = [cpc EXCEPT ![c] = "recv"]
       ELSE cpc' = [cpc EXCEPT ![c] = "failed"] /\ UNCHANGED inbox
  /\ UNCHANGED <<path, spc, buf, nbytes, claddr, bound, cinbox, j, printed, kills>>

(* Lines 65-72: recvfrom waits for a datagram, which is printed as the   *)
(* response to argument j; then the next argument, or the remove.          *)
ClientRecv(c) ==
  /\ cpc[c] = "recv" /\ cinbox[c] # <<>>
  /\ printed' = [printed EXCEPT ![c] = Append(@, Head(cinbox[c]))]
  /\ cinbox' = [cinbox EXCEPT ![c] = Tail(@)]
  /\ j' = [j EXCEPT ![c] = @ + 1]
  /\ cpc' = [cpc EXCEPT ![c] = IF j[c] < Len(Msgs[c]) THEN "send" ELSE "remove"]
  /\ UNCHANGED <<path, serverVars, bound, kills>>

\* Lines 75-77: remove(claddr.sun_path) and exit.
ClientRemove(c) ==
  /\ cpc[c] = "remove" /\ cpc' = [cpc EXCEPT ![c] = "done"]
  /\ bound' = [bound EXCEPT ![c] = FALSE]
  /\ UNCHANGED <<path, serverVars, cinbox, j, printed, kills>>

\* Ctrl-C ends a client; its socket closes and its pathname stays.
ClientSigInt(c) ==
  /\ cpc[c] \in {"send", "recv", "remove"} /\ kills < MaxKills /\ kills' = kills + 1
  /\ cpc' = [cpc EXCEPT ![c] = "killed"]
  /\ UNCHANGED <<path, serverVars, bound, cinbox, j, printed>>

Server(s) == ServerRemove(s) \/ ServerBind(s) \/ ServerRecv(s) \/ ServerSend(s)

Client(c) == ClientBind(c) \/ ClientSend(c) \/ ClientRecv(c) \/ ClientRemove(c)

Next ==
  \/ \E s \in Servers : Server(s) \/ ServerSigInt(s)
  \/ \E c \in Clients : Client(c) \/ ClientSigInt(c)

Spec == Init /\ [][Next]_vars

-----------------------------------------------------------------------------
TypeOK ==
  /\ path \in Servers \cup {None}
  /\ spc \in [Servers -> {"remove", "bind", "recv", "send", "failed", "killed"}]
  /\ cpc \in [Clients -> {"bind", "send", "recv", "remove"} \cup Ended]
  /\ nbytes \in [Servers -> 0 .. BufSize]
  /\ kills \in 0 .. MaxKills

(* Whatever the order of the runs and however the two clients' datagrams  *)
(* interleave at the server, response k a client prints is argument k of  *)
(* that client, cut to BUF_SIZE bytes and in upper case, and nothing else: *)
(* the server replies to the address recvfrom filled in, with num_bytes    *)
(* bytes of the buf it reuses for every datagram.                          *)
RepliesMatch ==
  \A c \in Clients : \A k \in DOMAIN printed[c] :
    LET a == Arg(c, k)
    IN  printed[c][k] = [i \in 1 .. IF Len(a) < BufSize THEN Len(a) ELSE BufSize
                            |-> ToUpper(a[i])]

====
