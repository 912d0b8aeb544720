------------------------------- MODULE Sockets -------------------------------
(***************************************************************************)
(* Local sockets and the protocol that the display server and its clients  *)
(* run over them.  The kernel part is listen, connect and accept of        *)
(* net/socket.c, read and write of a socket (fs/fslib.c) and the           *)
(* synchronization word of a file (fs/fs.c); the ring-3 part is the main   *)
(* loop of the server (comp00/src/comp/comploop.c) and the calls of the    *)
(* client library (libgws/gws.c).                                          *)
(*                                                                         *)
(* A connection has one buffer, in the file of the client's socket, and    *)
(* the server reaches it through slot 31 of its own open files: whatever   *)
(* file is in that slot when the server reads or writes is used.  A system *)
(* call is one step; between two of them anybody may run.                  *)
(***************************************************************************)
EXTENDS Integers, FiniteSets

CONSTANTS Client,   \* the client processes
          None,     \* no client
          BACKLOG,  \* the argument of listen
          AnyTime   \* may a client connect while the server is not in accept?

ASSUME ClientAssumption == IsFiniteSet(Client)
ASSUME NoneAssumption == None \notin Client
ASSUME BacklogAssumption == BACKLOG \in 1..31
ASSUME AnyTimeAssumption == AnyTime \in BOOLEAN

\* A call either waits for a reply ("event"), or waits for one and gives up
\* when the action is cleared ("text"), or waits for it to be cleared
\* ("async").
Kind == {"event", "text", "async"}
Slot == 0..BACKLOG

VARIABLES
  sstate,   \* the state of the server's socket
  pending,  \* pending_client_endpoints
  tail,     \* pending_client_count
  head,     \* backlog_head
  fd31,     \* whose file is in slot 31 of the server
  cstate,   \* the state of a client's socket
  flags,    \* which of __SRD and __SWR are set on its file
  full,     \* socket_buffer_full
  action,   \* sync.action
  content,  \* the message in the buffer
  pc,       \* where a client is in a call
  kind,     \* the kind of its call
  result,   \* the message it took as the answer of its last call
  spc,      \* where the server is in its loop
  msg,      \* the request the server has read
  noReply   \* NoReply of comploop.c

backlogVars == <<sstate, pending, tail, head, cstate>>
fileVars == <<flags, full, action, content>>
clientVars == <<pc, kind, result>>
serverVars == <<spc, msg, noReply>>
vars == <<backlogVars, fd31, fileVars, clientVars, serverVars>>

Message == [type : Kind \cup {"reply"}, of : Client \cup {None}]
Nothing == [type |-> "reply", of |-> None]

Init ==
  /\ sstate = "UNCONNECTED"
  /\ pending = [i \in Slot |-> None]
  /\ tail = 0 /\ head = 0
  /\ fd31 = None
  /\ cstate = [c \in Client |-> "UNCONNECTED"]
  /\ flags = [c \in Client |-> {"SWR"}]
  /\ full = [c \in Client |-> FALSE]
  /\ action = [c \in Client |-> "NULL"]
  /\ content = [c \in Client |-> Nothing]
  /\ pc = [c \in Client |-> "start"]
  /\ kind = [c \in Client |-> "event"]
  /\ result = [c \in Client |-> Nothing]
  /\ spc = "bound" /\ msg = Nothing /\ noReply = FALSE

-----------------------------------------------------------------------------
(* The system calls. *)

\* listen empties the queue, but not its head.
Listen ==
  /\ spc = "bound"
  /\ pending' = [i \in Slot |-> None]
  /\ tail' = 0
  /\ sstate' = "LISTENING"
  /\ spc' = "accept"
  /\ UNCHANGED <<head, fd31, cstate, fileVars, clientVars, msg, noReply>>

\* Mutant: the index wraps one place late.
WrapLate(i) == IF i > BACKLOG THEN 0 ELSE i

Wrap(i) == IF i >= BACKLOG THEN 0 ELSE i

\* Mutant: the count is set back one place early.
ConnectEarly(c) ==
  /\ pc[c] = "start"
  /\ cstate[c] = "UNCONNECTED"
  /\ AnyTime \/ spc = "accept"
  /\ fd31' = c
  /\ cstate' = [cstate EXCEPT ![c] = "CONNECTING"]
  /\ sstate' = "CONNECTING"
  /\ tail' = IF tail + 2 >= BACKLOG THEN 0 ELSE tail + 1
  /\ pending' = [pending EXCEPT ![tail'] = c]
  /\ pc' = [pc EXCEPT ![c] = "ready"]
  /\ UNCHANGED <<head, fileVars, kind, result, serverVars>>

\* connect enters the queue, over whoever is in that place, and puts the file
\* of the client into slot 31 of the server.
Connect(c) ==
  /\ pc[c] = "start"
  /\ cstate[c] = "UNCONNECTED"
  /\ AnyTime \/ spc = "accept"
  /\ fd31' = c
  /\ cstate' = [cstate EXCEPT ![c] = "CONNECTING"]
  /\ sstate' = "CONNECTING"
  /\ tail' = Wrap(tail + 1)
  /\ pending' = [pending EXCEPT ![tail'] = c]
  /\ pc' = [pc EXCEPT ![c] = "ready"]
  /\ UNCHANGED <<head, fileVars, kind, result, serverVars>>

\* Place i holds the first client of the queue from place h on.
IsFirst(i, h) == pending[i] # None /\ \A j \in h..i - 1 : pending[j] = None

\* Mutant: the head stays where it is.
AcceptStays ==
  /\ spc = "accept"
  /\ sstate \in {"LISTENING", "CONNECTING", "CONNECTED"}
  /\ head' = head
  /\ \/ /\ \A i \in head'..BACKLOG : pending[i] = None
        /\ UNCHANGED <<sstate, cstate, fd31, spc>>
     \/ \E i \in head'..BACKLOG :
          /\ IsFirst(i, head')
          /\ sstate' = "CONNECTED"
          /\ cstate' = [cstate EXCEPT ![pending[i]] = "CONNECTED"]
          /\ fd31' = pending[i]
          /\ spc' = "check"
  /\ UNCHANGED <<pending, tail, fileVars, clientVars, msg, noReply>>

\* accept moves the head by one and takes the next client from there, who
\* stays in the queue; with none it fails, and the server calls it again.
Accept ==
  /\ spc = "accept"
  /\ sstate \in {"LISTENING", "CONNECTING", "CONNECTED"}
  /\ head' = Wrap(head + 1)
  /\ \/ /\ \A i \in head'..BACKLOG : pending[i] = None
        /\ UNCHANGED <<sstate, cstate, fd31, spc>>
     \/ \E i \in head'..BACKLOG :
          /\ IsFirst(i, head')
          /\ sstate' = "CONNECTED"
          /\ cstate' = [cstate EXCEPT ![pending[i]] = "CONNECTED"]
          /\ fd31' = pending[i]
          /\ spc' = "check"
  /\ UNCHANGED <<pending, tail, fileVars, clientVars, msg, noReply>>

\* A write to the file of c succeeds when the file may be written and its
\* buffer is empty.
CanWrite(c) == "SWR" \in flags[c] /\ ~ full[c]

Written(c, m) ==
  IF CanWrite(c)
  THEN /\ content' = [content EXCEPT ![c] = m]
       /\ full' = [full EXCEPT ![c] = TRUE]
       /\ flags' = [flags EXCEPT ![c] = {"SRD"}]
  ELSE /\ flags' = [flags EXCEPT ![c] = IF "SWR" \in @ THEN {"SRD"} ELSE @]
       /\ UNCHANGED <<content, full>>

\* A read of the file of c fails when the file may not be read, and takes the
\* message from a full buffer.  What is left in the buffer is not read again.
CanReadFile(c) == "SRD" \in flags[c] /\ full[c]

\* Mutant: the file stays readable.
ReadFromAgain(c) ==
  IF CanReadFile(c)
  THEN /\ full' = [full EXCEPT ![c] = FALSE]
       /\ flags' = [flags EXCEPT ![c] = @ \cup {"SWR"}]
       /\ content' = [content EXCEPT ![c] = Nothing]
  ELSE UNCHANGED <<full, flags, content>>

ReadFrom(c) ==
  IF CanReadFile(c)
  THEN /\ full' = [full EXCEPT ![c] = FALSE]
       /\ flags' = [flags EXCEPT ![c] = {"SWR"}]
       /\ content' = [content EXCEPT ![c] = Nothing]
  ELSE UNCHANGED <<full, flags, content>>

\* sys_set_file_sync with SYNC_REQUEST_SET_ACTION.
SetAction(c, a) == action' = [action EXCEPT ![c] = a]

-----------------------------------------------------------------------------
(* A call of the client library. *)

\* The request is written before it is announced.
CallWrite(c, k) ==
  /\ pc[c] = "ready"
  /\ kind' = [kind EXCEPT ![c] = k]
  /\ Written(c, [type |-> k, of |-> c])
  /\ pc' = [pc EXCEPT ![c] = IF CanWrite(c) THEN "written" ELSE "done"]
  /\ result' = [result EXCEPT ![c] = Nothing]
  /\ UNCHANGED <<backlogVars, fd31, action, serverVars>>

CallAnnounce(c) ==
  /\ pc[c] = "written"
  /\ SetAction(c, "REQUEST")
  /\ pc' = [pc EXCEPT ![c] = "waiting"]
  /\ UNCHANGED <<backlogVars, fd31, flags, full, content, kind, result, serverVars>>

\* The loops that ask for the action until it is what the call waits for.
CallPoll(c) ==
  /\ pc[c] = "waiting"
  /\ \/ kind[c] # "async" /\ action[c] = "REPLY" /\ pc' = [pc EXCEPT ![c] = "reading"]
     \/ kind[c] # "event" /\ action[c] = "NULL" /\ pc' = [pc EXCEPT ![c] = "done"]
  /\ UNCHANGED <<backlogVars, fd31, fileVars, kind, result, serverVars>>

CallRead(c) ==
  /\ pc[c] = "reading"
  /\ ReadFrom(c)
  /\ result' = [result EXCEPT ![c] = IF CanReadFile(c) THEN content[c] ELSE @]
  /\ pc' = [pc EXCEPT ![c] = "done"]
  /\ UNCHANGED <<backlogVars, fd31, action, kind, serverVars>>

\* Every call ends by clearing the action.
CallReturn(c) ==
  /\ pc[c] = "done"
  /\ SetAction(c, "NULL")
  /\ pc' = [pc EXCEPT ![c] = "ready"]
  /\ UNCHANGED <<backlogVars, fd31, flags, full, content, kind, result, serverVars>>

-----------------------------------------------------------------------------
(* The dispatcher of the server, for the client that accept returned. *)

\* Mutant: the action is not looked at.
ServerCheckNot ==
  /\ spc = "check"
  /\ spc' = "read"
  /\ UNCHANGED <<backlogVars, fd31, fileVars, clientVars, msg, noReply>>

\* Only a client that announced a request is read.
ServerCheck ==
  /\ spc = "check"
  /\ spc' = IF action[fd31] = "REQUEST" THEN "read" ELSE "accept"
  /\ UNCHANGED <<backlogVars, fd31, fileVars, clientVars, msg, noReply>>

ServerRead ==
  /\ spc = "read"
  /\ ReadFrom(fd31)
  /\ IF CanReadFile(fd31) THEN spc' = "handle" /\ msg' = content[fd31]
                          ELSE spc' = "accept" /\ UNCHANGED msg
  /\ UNCHANGED <<backlogVars, fd31, action, clientVars, noReply>>

\* dsProcedure; a message that is no request leaves NoReply as it was.
ServerHandle ==
  /\ spc = "handle"
  /\ noReply' = IF msg.type = "reply" THEN noReply ELSE msg.type = "async"
  /\ spc' = IF noReply' THEN "clear" ELSE "write"
  /\ UNCHANGED <<backlogVars, fd31, fileVars, clientVars, msg>>

\* dsSendResponse tries the write a few times, and goes on also without it.
ServerWrite ==
  /\ spc = "write"
  /\ Written(fd31, [type |-> "reply", of |-> msg.of])
  /\ spc' \in IF CanWrite(fd31) THEN {"announce"} ELSE {"announce", "write"}
  /\ UNCHANGED <<backlogVars, fd31, action, clientVars, msg, noReply>>

ServerAnnounce ==
  /\ spc = "announce"
  /\ SetAction(fd31, "REPLY")
  /\ spc' = "accept" /\ msg' = Nothing
  /\ UNCHANGED <<backlogVars, fd31, flags, full, content, clientVars, noReply>>

ServerClear ==
  /\ spc = "clear"
  /\ SetAction(fd31, "NULL")
  /\ spc' = "accept" /\ msg' = Nothing
  /\ UNCHANGED <<backlogVars, fd31, flags, full, content, clientVars, noReply>>

-----------------------------------------------------------------------------
CallStep(c) == CallAnnounce(c) \/ CallPoll(c) \/ CallRead(c) \/ CallReturn(c)

ServerStep ==
  Listen \/ Accept \/ ServerCheck \/ ServerRead \/ ServerHandle \/ ServerWrite
    \/ ServerAnnounce \/ ServerClear

Next ==
  \/ ServerStep
  \/ \E c \in Client : Connect(c) \/ CallStep(c) \/ \E k \in Kind : CallWrite(c, k)

Spec == Init /\ [][Next]_vars

\* The scheduler gives the server and every client that is in a call its
\* turns; nobody has to start a call.
Fairness == WF_vars(ServerStep) /\ \A c \in Client : WF_vars(CallStep(c))

FairSpec == Spec /\ Fairness

-----------------------------------------------------------------------------
(* Properties *)

\* Every variable has its type; the indices of the queue stay below the
\* backlog, and a file is either readable or writable.
TypeOK ==
  /\ sstate \in {"UNCONNECTED", "LISTENING", "CONNECTING", "CONNECTED"}
  /\ pending \in [Slot -> Client \cup {None}]
  /\ tail \in 0..BACKLOG - 1
  /\ head \in 0..BACKLOG - 1
  /\ fd31 \in Client \cup {None}
  /\ cstate \in [Client -> {"UNCONNECTED", "CONNECTING", "CONNECTED"}]
  /\ flags \in [Client -> {{"SRD"}, {"SWR"}}]
  /\ full \in [Client -> BOOLEAN]
  /\ action \in [Client -> {"NULL", "REQUEST", "REPLY"}]
  /\ content \in [Client -> Message]
  /\ pc \in [Client -> {"start", "ready", "written", "waiting", "reading", "done"}]
  /\ kind \in [Client -> Kind]
  /\ result \in [Client -> Message]
  /\ spc \in {"bound", "accept", "check", "read", "handle", "write", "announce", "clear"}
  /\ msg \in Message
  /\ noReply \in BOOLEAN

\* A file is readable exactly when its buffer is full, so that __read_imp never
\* meets its panic "Couldn't read socket. Buffer not full".
ReadableIsFull == \A c \in Client : "SRD" \in flags[c] <=> full[c]

\* connect takes its place in the queue without a look at who is there.  As
\* long as no more clients have connected than the server asked for with
\* listen, nobody is overwritten: each of them has one place of its own, where
\* accept finds it.
Connected == {c \in Client : cstate[c] # "UNCONNECTED"}
OnePlaceEach ==
  Cardinality(Connected) <= BACKLOG =>
    \A c \in Connected : \E i \in 0..BACKLOG - 1 :
      pending[i] = c /\ \A j \in Slot \ {i} : pending[j] # c

\* "estamos apenas entrando na fila ... Quem realizara a conexao sera o
\* accept()" (socket.c:1874): connect only enters the queue, so that what the
\* server writes goes to the client whose request it read.
AnswersTheAsker == spc \in {"write", "announce", "clear"} => fd31 = msg.of

\* The server has handled the request of c, and c does not know it yet.
Handling(c) == spc \in {"write", "announce", "clear"} /\ msg.of = c

CallState(c) ==
  CASE pc[c] \in {"start", "ready"} -> "idle"
    [] pc[c] = "written" -> "asked"
    [] pc[c] = "waiting" /\ action[c] = "REQUEST" /\ ~ Handling(c) -> "asked"
    [] OTHER -> "served"

R == INSTANCE Rpc WITH
       NoAnswer <- Nothing,
       call <- [c \in Client |-> CallState(c)],
       answer <- result

\* The server and the client library, over one buffer and one action word for
\* each client and one descriptor for all of them, implement calls: every
\* request is handled once, before its call returns, and the answer a client
\* takes is the answer to that request.
ImplementsRpc == R!Spec

\* Every call returns: the server comes round to every client that waits.
Served == \A c \in Client : pc[c] = "waiting" ~> pc[c] = "ready"
=============================================================================
