------------------------------ MODULE TcpClient ------------------------------
(***************************************************************************)
(* The TCP connections of local clients to remote servers:                 *)
(* tcp_client_connect, tcp_socket_send, tcp_socket_recv, socket_close and  *)
(* the handler of the segments that arrive                                 *)
(* (__handle_tcp_for_non_local_servers).                                   *)
(*                                                                         *)
(* A connection is named by its slot in connectionList, which is also the  *)
(* local port of its socket: both are taken in the same order and none is  *)
(* given back.  A sequence number is counted from the initial one of its   *)
(* sender, so that byte k of a stream has the number k; the code compares  *)
(* them for equality only.                                                 *)
(*                                                                         *)
(* The network loses, duplicates, delays and reorders.  What may arrive at *)
(* a moment is therefore everything a peer was ever entitled to send, and  *)
(* it is a function of the state of the peer: no segment is stored.        *)
(***************************************************************************)
EXTENDS Integers, Sequences, FiniteSetsExt

CONSTANTS MAX_CONNECTIONS, \* the slots of connectionList
          Server,          \* the remote servers, each an address and a port
          Length,          \* the most bytes a server sends
          MaxWrite,        \* the most bytes a client sends
          Segment,         \* the most bytes a server puts in a segment
          Payload,         \* the size of __tcp_payload
          Nul,             \* which bytes of the stream to a port are NUL
          BufSize,         \* _lbfsize: the bytes the file of a socket holds
          Reconnect        \* may a server be connected to more than once?

Conn == 1..MAX_CONNECTIONS

ASSUME BoundsAssumption ==
  /\ MAX_CONNECTIONS \in Nat /\ Length \in Nat /\ MaxWrite \in Nat
  /\ Segment \in Nat /\ Payload \in Nat \ {0, 1} /\ BufSize \in Nat
ASSUME NulAssumption == Nul \in [Conn -> SUBSET Nat]
ASSUME ServerAssumption == Server # {}
ASSUME ReconnectAssumption == Reconnect \in BOOLEAN

VARIABLES
  used,    \* connectionList is taken up to this slot
  remote,  \* the server of a connection
  status,  \* conn->status
  sock,    \* the state of the client's socket
  sndUna, sndNxt, rcvNxt,  \* of conn->tcp_conn
  buf,     \* the bytes in the file of the socket: their number, 0 for a NUL
  r,       \* fp->_r
  canRead, canWrite,       \* fp->sync
  action,  \* fp->sync.action
  srv,     \* the server's view of the connection of a port
  srvRst,  \* the server has sent a reset to a port
  sent,    \* how many bytes it has sent to it
  srvGot,  \* how many bytes it has got from it
  syn,     \* a SYN was sent from a port
  ackSent  \* the highest acknowledgement sent from a port, 0 when none was

connVars == <<used, remote, status, sock, sndUna, sndNxt, rcvNxt>>
fileVars == <<buf, r, canRead, canWrite, action>>
srvVars  == <<srv, srvRst, sent, srvGot>>
outVars  == <<syn, ackSent>>
vars == <<connVars, fileVars, srvVars, outVars>>

Status == {"NONE", "CLOSED", "SYN_SENT", "ESTABLISHED", "CLOSE_WAIT"}
SocketState == {"UNCONNECTED", "CONNECTING", "CONNECTED", "CLOSED"}
Action == {"NULL", "CONNECTING", "REPLY"}
ServerState == {"LISTEN", "SYN_RCVD", "ESTABLISHED", "FIN_SENT"}

\* NONE is the state of a connection that has no slot yet: its remote server
\* is then of no meaning.
Init ==
  /\ used = 0
  /\ remote \in [Conn -> {CHOOSE s \in Server : TRUE}]
  /\ status = [c \in Conn |-> "NONE"]
  /\ sock = [c \in Conn |-> "UNCONNECTED"]
  /\ sndUna = [c \in Conn |-> 0]
  /\ sndNxt = [c \in Conn |-> 0]
  /\ rcvNxt = [c \in Conn |-> 0]
  /\ buf = [c \in Conn |-> <<>>]
  /\ r = [c \in Conn |-> 0]
  /\ canRead = [c \in Conn |-> TRUE]
  /\ canWrite = [c \in Conn |-> TRUE]
  /\ action = [c \in Conn |-> "NULL"]
  /\ srv = [p \in Conn |-> "LISTEN"]
  /\ srvRst = [p \in Conn |-> FALSE]
  /\ sent = [p \in Conn |-> 0]
  /\ srvGot = [p \in Conn |-> 0]
  /\ syn = [p \in Conn |-> FALSE]
  /\ ackSent = [p \in Conn |-> 0]

-----------------------------------------------------------------------------
(* The services of the application. *)

\* tcp_client_connect takes a slot and a port, and sends a SYN that is never
\* sent again.  When it cannot be sent (ok is FALSE) the slot is lost.
Connect(s, ok) ==
  /\ used < MAX_CONNECTIONS
  /\ Reconnect \/ s \notin {remote[c] : c \in 1..used}
  /\ LET c == used + 1 IN
       /\ used' = c
       /\ remote' = [remote EXCEPT ![c] = s]
       /\ sndUna' = [sndUna EXCEPT ![c] = 0]
       /\ sndNxt' = [sndNxt EXCEPT ![c] = 1]
       /\ status' = [status EXCEPT ![c] = IF ok THEN "SYN_SENT" ELSE "CLOSED"]
       /\ syn' = [syn EXCEPT ![c] = ok]
       /\ sock' = [sock EXCEPT ![c] = IF ok THEN "CONNECTING" ELSE @]
       /\ action' = [action EXCEPT ![c] = IF ok THEN "CONNECTING" ELSE @]
  /\ UNCHANGED <<rcvNxt, buf, r, canRead, canWrite, srvVars, ackSent>>

\* A write to the socket: tcp_socket_send sends it as one segment, once.
Write(c, n) ==
  /\ canWrite[c]
  /\ sock[c] = "CONNECTED" /\ status[c] = "ESTABLISHED"
  /\ sndNxt[c] + n <= MaxWrite + 1
  /\ sndNxt' = [sndNxt EXCEPT ![c] = @ + n]
  /\ ackSent' = [ackSent EXCEPT ![c] = Max({@, rcvNxt[c]})]
  /\ UNCHANGED <<used, remote, status, sock, sndUna, rcvNxt, fileVars, srvVars, syn>>

\* Mutant: the read offset is not held at the end of the data.
ReadPast(c, n) ==
  /\ canRead[c]
  /\ sock[c] = "CONNECTED" /\ status[c] = "CLOSE_WAIT"
  /\ r' = [r EXCEPT ![c] = @ + n]
  /\ canRead' = [canRead EXCEPT ![c] = r'[c] < Len(buf[c])]
  /\ UNCHANGED <<connVars, buf, canWrite, action, srvVars, outVars>>

\* A read of the socket: tcp_socket_recv copies at most n bytes.
Read(c, n) ==
  /\ canRead[c]
  /\ sock[c] = "CONNECTED" /\ status[c] = "CLOSE_WAIT"
  /\ r' = [r EXCEPT ![c] = Min({@ + n, Len(buf[c])})]
  /\ canRead' = [canRead EXCEPT ![c] = r'[c] < Len(buf[c])]
  /\ UNCHANGED <<connVars, buf, canWrite, action, srvVars, outVars>>

\* socket_close gives the connection up at once and sends no FIN.
Close(c) ==
  /\ status[c] # "NONE" /\ sock[c] # "CLOSED"
  /\ status' = [status EXCEPT ![c] = "CLOSED"]
  /\ sock' = [sock EXCEPT ![c] = "CLOSED"]
  /\ UNCHANGED <<used, remote, sndUna, sndNxt, rcvNxt, fileVars, srvVars, outVars>>

-----------------------------------------------------------------------------
(* The segments that may arrive. *)

SynAck(p) == [kind |-> "SYNACK", port |-> p, seq |-> 0, len |-> 0, fin |-> FALSE, ack |-> 1]
Rst(p)    == [kind |-> "RST",    port |-> p, seq |-> 0, len |-> 0, fin |-> FALSE, ack |-> 0]
Data(p, s, n, f, a) ==
  [kind |-> "DATA", port |-> p, seq |-> s, len |-> n, fin |-> f, ack |-> a]

\* A server that sends to port p sends any piece of its stream so far, as
\* often as it likes; it marks the last piece once it has finished.
MaySend(p, s, n, f, a) ==
  /\ srv[p] \in {"ESTABLISHED", "FIN_SENT"}
  /\ s + n <= sent[p] + 1
  /\ f => srv[p] = "FIN_SENT" /\ s + n = sent[p] + 1
  /\ a <= srvGot[p] + 1

Segments(p) ==
  {g \in {SynAck(p)} : srv[p] # "LISTEN"}
    \cup {g \in {Rst(p)} : srvRst[p]}
    \cup {Data(p, x[1], x[2], x[3], x[4]) :
            x \in {y \in (1..Length + 1) \X (0..Segment) \X BOOLEAN \X (1..MaxWrite + 1) :
                     MaySend(p, y[1], y[2], y[3], y[4])}}

\* The connection c handles segment g: it is the one of its ports for a
\* SYN|ACK (tcp_find_connection_client_side), and for any other segment the
\* first whose remote server sent it (tcp_find_connection_by_remote_peer).
Found(c, g) ==
  IF g.kind = "SYNACK" THEN c = g.port
  ELSE /\ c \in 1..used /\ remote[c] = remote[g.port]
       /\ \A d \in 1..c - 1 : remote[d] # remote[g.port]

-----------------------------------------------------------------------------
(* The handler, by the status of the connection it finds. *)

\* CLOSED: a reset and a plain ACK are ignored, anything else is answered by
\* a reset (the server then stops, SrvReset), and the socket is unconnected.
RecvClosed(c, g, ok) ==
  /\ status[c] = "CLOSED"
  /\ g.kind = "SYNACK" \/ g.fin
  /\ ok
  /\ sock' = [sock EXCEPT ![c] = "UNCONNECTED"]
  /\ UNCHANGED <<used, remote, status, sndUna, sndNxt, rcvNxt, fileVars, srvVars, outVars>>

\* A reset closes a connection that is opening or open, whatever its number.
RecvRst(c, g) ==
  /\ g.kind = "RST"
  /\ status[c] \in {"SYN_SENT", "ESTABLISHED"}
  /\ status' = [status EXCEPT ![c] = "CLOSED"]
  /\ UNCHANGED <<used, remote, sock, sndUna, sndNxt, rcvNxt, fileVars, srvVars, outVars>>

\* Mutant: a SYN|ACK that comes again starts the connection anew.
RecvSynAckAgain(c, g, ok) ==
  /\ g.kind = "SYNACK"
  /\ status[c] \in {"SYN_SENT", "ESTABLISHED"}
  /\ status' = [status EXCEPT ![c] = "ESTABLISHED"]
  /\ sock' = [sock EXCEPT ![c] = "CONNECTED"]
  /\ sndUna' = [sndUna EXCEPT ![c] = 1]
  /\ sndNxt' = [sndNxt EXCEPT ![c] = 1]
  /\ rcvNxt' = [rcvNxt EXCEPT ![c] = g.seq + 1]
  /\ canWrite' = [canWrite EXCEPT ![c] = TRUE]
  /\ action' = [action EXCEPT ![c] = "NULL"]
  /\ ackSent' = [ackSent EXCEPT ![g.port] = IF ok THEN Max({@, g.seq + 1}) ELSE @]
  /\ UNCHANGED <<used, remote, buf, r, canRead, srvVars, syn>>

\* Mutant: the number of the ACK is checked, and one off.
RecvSynAckStrict(c, g, ok) ==
  /\ g.kind = "SYNACK"
  /\ status[c] = "SYN_SENT" /\ g.ack = sndNxt[c] + 1
  /\ status' = [status EXCEPT ![c] = "ESTABLISHED"]
  /\ sock' = [sock EXCEPT ![c] = "CONNECTED"]
  /\ sndUna' = [sndUna EXCEPT ![c] = 1]
  /\ sndNxt' = [sndNxt EXCEPT ![c] = 1]
  /\ rcvNxt' = [rcvNxt EXCEPT ![c] = g.seq + 1]
  /\ canWrite' = [canWrite EXCEPT ![c] = TRUE]
  /\ action' = [action EXCEPT ![c] = "NULL"]
  /\ ackSent' = [ackSent EXCEPT ![g.port] = IF ok THEN Max({@, g.seq + 1}) ELSE @]
  /\ UNCHANGED <<used, remote, buf, r, canRead, srvVars, syn>>

\* SYN_SENT: only a SYN|ACK is taken.  The result of sending the ACK is not
\* looked at, and the ACK is not sent again.
RecvSynAck(c, g, ok) ==
  /\ g.kind = "SYNACK"
  /\ status[c] = "SYN_SENT"
  /\ status' = [status EXCEPT ![c] = "ESTABLISHED"]
  /\ sock' = [sock EXCEPT ![c] = "CONNECTED"]
  /\ sndUna' = [sndUna EXCEPT ![c] = 1]
  /\ sndNxt' = [sndNxt EXCEPT ![c] = 1]
  /\ rcvNxt' = [rcvNxt EXCEPT ![c] = g.seq + 1]
  /\ canWrite' = [canWrite EXCEPT ![c] = TRUE]
  /\ action' = [action EXCEPT ![c] = "NULL"]
  /\ ackSent' = [ackSent EXCEPT ![g.port] = IF ok THEN Max({@, g.seq + 1}) ELSE @]
  /\ UNCHANGED <<used, remote, buf, r, canRead, srvVars, syn>>

\* data_len: a segment that does not fit into __tcp_payload is cut two short.
DataLen(g) == IF g.len >= Payload THEN Payload - 2 ELSE g.len

\* Copies n bytes of the stream to port p, from number k on: up to the first
\* NUL, and NUL from there on.
strncpy(p, k, n) ==
  [i \in 1..n |-> IF \E j \in 1..i : k + j - 1 \in Nul[p] THEN 0 ELSE k + i - 1]

\* __tcp_payload, of which all of data_len is counted.
PayloadOf(g) == strncpy(g.port, g.seq, DataLen(g))

\* Mutant: the whole segment is counted, also what was cut off.
AdvancedUncut(c, g) ==
  IF g.seq = rcvNxt[c]
  THEN [rcvNxt EXCEPT ![c] = @ + g.len + (IF g.fin THEN 1 ELSE 0)]
  ELSE rcvNxt

\* What is expected next moves past the data and the FIN of a segment that is
\* in order, before it is known whether the data fit.
Advanced(c, g) ==
  IF g.seq = rcvNxt[c]
  THEN [rcvNxt EXCEPT ![c] = @ + DataLen(g) + (IF g.fin THEN 1 ELSE 0)]
  ELSE rcvNxt

\* Mutant: data that fill the file to its last byte are taken for too many.
FitsTight(c, g) == Len(buf[c]) + DataLen(g) < BufSize

Fits(c, g) == Len(buf[c]) + DataLen(g) <= BufSize

\* Data in order that fit are appended to the file, and reading and writing
\* are shut; data out of order are dropped.
Stored(c, g) ==
  /\ buf' = IF g.seq = rcvNxt[c] /\ Fits(c, g)
            THEN [buf EXCEPT ![c] = @ \o PayloadOf(g)] ELSE buf
  /\ canWrite' = IF g.seq = rcvNxt[c] /\ (Fits(c, g) \/ g.fin)
                 THEN [canWrite EXCEPT ![c] = FALSE] ELSE canWrite

\* The client is told to read by the FIN, in order or, when it could be
\* acknowledged, out of order.
Told(c, g, ok) ==
  LET inOrder == g.seq = rcvNxt[c] IN
  /\ r' = IF inOrder /\ g.fin THEN [r EXCEPT ![c] = 0] ELSE r
  /\ IF g.fin /\ (inOrder \/ ok)
     THEN /\ canRead' = [canRead EXCEPT ![c] = TRUE]
          /\ action' = [action EXCEPT ![c] = "REPLY"]
     ELSE IF inOrder /\ Fits(c, g)
     THEN /\ canRead' = [canRead EXCEPT ![c] = FALSE]
          /\ action' = [action EXCEPT ![c] = "NULL"]
     ELSE UNCHANGED <<canRead, action>>

\* Mutant: only a FIN in order moves the connection on.
AcknowledgedInOrder(c, g, ok) ==
  /\ ackSent' = [ackSent EXCEPT ![g.port] = IF ok THEN Max({@, rcvNxt'[c]}) ELSE @]
  /\ status' = [status EXCEPT ![c] =
                  IF ok /\ g.fin /\ g.seq = rcvNxt[c] THEN "CLOSE_WAIT" ELSE @]
  /\ sock' = [sock EXCEPT ![c] = IF g.fin /\ (ok \/ g.seq = rcvNxt[c]) THEN "CONNECTED" ELSE @]

\* Every segment is acknowledged; when that fails (ok is FALSE) the status
\* stays, so that the FIN that is sent again can be taken.
Acknowledged(c, g, ok) ==
  /\ ackSent' = [ackSent EXCEPT ![g.port] = IF ok THEN Max({@, rcvNxt'[c]}) ELSE @]
  /\ status' = [status EXCEPT ![c] = IF ok /\ g.fin THEN "CLOSE_WAIT" ELSE @]
  /\ sock' = [sock EXCEPT ![c] = IF g.fin /\ (ok \/ g.seq = rcvNxt[c]) THEN "CONNECTED" ELSE @]

\* ESTABLISHED: a SYN is ignored and every other segment has its ACK bit set.
RecvData(c, g, ok) ==
  /\ g.kind = "DATA"
  /\ status[c] = "ESTABLISHED"
  /\ sndUna' = [sndUna EXCEPT ![c] = g.ack]
  /\ rcvNxt' = Advanced(c, g)
  /\ Stored(c, g)
  /\ Told(c, g, ok)
  /\ Acknowledged(c, g, ok)
  /\ UNCHANGED <<used, remote, sndNxt, srvVars, syn>>

Receive(g, ok) ==
  \E c \in Conn :
    /\ Found(c, g)
    /\ \/ RecvClosed(c, g, ok)
       \/ ok /\ RecvRst(c, g)
       \/ RecvSynAck(c, g, ok)
       \/ RecvData(c, g, ok)

-----------------------------------------------------------------------------
(* The remote server, which is not part of the system: what a conforming   *)
(* peer does with the segments the client has sent.                        *)

SrvSyn(p) ==
  /\ syn[p] /\ srv[p] = "LISTEN" /\ ~ srvRst[p]
  /\ \/ srv' = [srv EXCEPT ![p] = "SYN_RCVD"] /\ srvRst' = srvRst
     \/ srvRst' = [srvRst EXCEPT ![p] = TRUE] /\ srv' = srv
  /\ UNCHANGED <<connVars, fileVars, sent, srvGot, outVars>>

SrvAck(p) ==
  /\ srv[p] = "SYN_RCVD" /\ ackSent[p] >= 1 /\ ~ srvRst[p]
  /\ srv' = [srv EXCEPT ![p] = "ESTABLISHED"]
  /\ UNCHANGED <<connVars, fileVars, srvRst, sent, srvGot, outVars>>

SrvGet(p) ==
  /\ srv[p] \in {"ESTABLISHED", "FIN_SENT"} /\ ~ srvRst[p]
  /\ srvGot[p] + 1 < sndNxt[p]
  /\ srvGot' = [srvGot EXCEPT ![p] = @ + 1]
  /\ UNCHANGED <<connVars, fileVars, srv, srvRst, sent, outVars>>

SrvSend(p, n, f) ==
  /\ srv[p] = "ESTABLISHED" /\ ~ srvRst[p]
  /\ sent[p] + n <= Length
  /\ sent' = [sent EXCEPT ![p] = @ + n]
  /\ srv' = [srv EXCEPT ![p] = IF f THEN "FIN_SENT" ELSE @]
  /\ UNCHANGED <<connVars, fileVars, srvRst, srvGot, outVars>>

\* A server that is reset, or that gives the connection up, stops.
SrvReset(p) ==
  /\ srv[p] # "LISTEN" /\ ~ srvRst[p]
  /\ srvRst' = [srvRst EXCEPT ![p] = TRUE]
  /\ UNCHANGED <<connVars, fileVars, srv, sent, srvGot, outVars>>

-----------------------------------------------------------------------------
Application ==
  \/ \E s \in Server, ok \in BOOLEAN : Connect(s, ok)
  \/ \E c \in Conn : \/ \E n \in 1..MaxWrite : Write(c, n)
                     \/ \E n \in 1..BufSize : Read(c, n)
                     \/ Close(c)

Network == \E p \in 1..used : \E g \in Segments(p), ok \in BOOLEAN : Receive(g, ok)

Peer ==
  \E p \in 1..used :
     \/ SrvSyn(p) \/ SrvAck(p) \/ SrvGet(p) \/ SrvReset(p)
     \/ \E n \in 0..Length, f \in BOOLEAN : SrvSend(p, n, f)

Next == Application \/ Network \/ Peer

Spec == Init /\ [][Next]_vars

\* What a server sends again and again, until it stops, arrives at last, and
\* its FIN is at last acknowledged; nothing is assumed of the segments of the
\* client, which are sent once.
Fairness ==
  \A p \in Conn :
    /\ WF_vars(/\ p <= used /\ srv[p] # "LISTEN" /\ ~ srvRst[p]
               /\ RecvSynAck(p, SynAck(p), TRUE))
    /\ WF_vars(/\ p <= used /\ ~ srvRst[p]
               /\ \E c \in Conn, g \in Segments(p) :
                     g.fin /\ Found(c, g) /\ RecvData(c, g, TRUE))

FairSpec == Spec /\ Fairness

-----------------------------------------------------------------------------
(* Properties *)

\* Every variable has its type: no number leaves the range of the bytes that
\* were really sent, although segments are cut, repeated and out of order.
TypeOK ==
  /\ used \in 0..MAX_CONNECTIONS
  /\ remote \in [Conn -> Server]
  /\ status \in [Conn -> Status]
  /\ sock \in [Conn -> SocketState]
  /\ sndUna \in [Conn -> 0..MaxWrite + 1]
  /\ sndNxt \in [Conn -> 0..MaxWrite + 1]
  /\ rcvNxt \in [Conn -> 0..Length + 2]
  /\ buf \in [Conn -> Seq(0..Length)]
  /\ r \in [Conn -> 0..BufSize]
  /\ canRead \in [Conn -> BOOLEAN]
  /\ canWrite \in [Conn -> BOOLEAN]
  /\ action \in [Conn -> Action]
  /\ srv \in [Conn -> ServerState]
  /\ srvRst \in [Conn -> BOOLEAN]
  /\ sent \in [Conn -> 0..Length]
  /\ srvGot \in [Conn -> 0..MaxWrite]
  /\ syn \in [Conn -> BOOLEAN]
  /\ ackSent \in [Conn -> 0..Length + 2]

\* The life of the stream of a connection.
Phase(c) == CASE status[c] = "CLOSED" -> "dead"
              [] status[c] = "CLOSE_WAIT" -> "ended"
              [] OTHER -> "open"

\* The stream that the sockets of the clients show to their applications.
S == INSTANCE Stream WITH
       Room <- BufSize,
       finished <- [c \in Conn |-> srv[c] = "FIN_SENT"],
       upto <- [c \in Conn |-> IF rcvNxt[c] = 0 THEN 0 ELSE rcvNxt[c] - 1],
       got <- buf,
       phase <- [c \in Conn |-> Phase(c)],
       taken <- r

\* The handler implements the stream, over a network that loses, duplicates
\* and reorders: a client reads the bytes of its server in order, none twice,
\* each at its place.  A byte is blanked only if a NUL came before it in its
\* segment, and a piece is passed over only when the file has no room for it
\* or, by one byte, at a FIN that could not be acknowledged.
ImplementsStream == S!Spec

\* What the connection holds for acknowledged (snd_una, which is taken from
\* every segment unchecked) was sent.
AckedWasSent == \A c \in Conn : sndUna[c] <= sndNxt[c]

\* The stream of a connection has been short enough for its file, and the
\* handler cannot have cut the segment that finished it.
Short(c) ==
  /\ sent[c] <= BufSize
  /\ srv[c] = "FIN_SENT" => sent[c] < Payload \/ Segment < Payload

\* What byte i of the stream may look like in the file: itself, or NUL because
\* it is one or follows one so closely that both came in one segment.
CopyOf(c, i, b) ==
  IF b = 0 THEN \E j \in Nul[c] : j <= i /\ i < j + Payload - 1
           ELSE b = i /\ i \notin Nul[c]

InFile(c, i) == i <= Len(buf[c]) /\ CopyOf(c, i, buf[c][i])

\* An acknowledgement is a promise: the server will not send again what it
\* covers.  rcv_nxt moves before it is known whether the data fit (tcp.c:4267
\* and 4321), so the promise is kept only for a short stream; and by data_len,
\* whereas strncpy stops at a NUL.  There, every byte the server holds for
\* acknowledged is in the file at its place, or blanked by a NUL close before.
AcknowledgedIsKept ==
  \A c \in Conn : Short(c) =>
    \A i \in 1..sent[c] : i < ackSent[c] => InFile(c, i)

\* A segment reaches "the connection object that tcp_client_connect() created
\* for the matching SYN" (sockint.c:459): a client is told that its stream is
\* over only when its own server has finished.
EndedByItsServer == \A c \in Conn : status[c] = "CLOSE_WAIT" => srv[c] = "FIN_SENT"

\* A server that got the SYN brings the client out of SYN_SENT, although the
\* SYN is never sent again, unless the server stops.
HandshakeEnds ==
  \A c \in Conn : srv[c] = "SYN_RCVD" ~> status[c] # "SYN_SENT" \/ srvRst[c]

\* A FIN is taken at last, also when it could not be acknowledged the first
\* time and comes again with a number that has been passed, unless the server
\* stops.
FinTaken ==
  \A c \in Conn : srv[c] = "FIN_SENT" ~> status[c] # "ESTABLISHED" \/ srvRst[c]
=============================================================================
