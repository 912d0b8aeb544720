---------------------------- MODULE SocketsProofs ----------------------------
(***************************************************************************)
(* Proofs for every set of clients and every backlog: a file is readable   *)
(* exactly when its buffer is full and, if clients connect only while the  *)
(* server is in accept, the server answers the client whose request it     *)
(* read, and the protocol implements calls (module Rpc).                   *)
(***************************************************************************)
EXTENDS Sockets, FiniteSetTheorems, TLAPS

USE NoneAssumption, BacklogAssumption, AnyTimeAssumption

\* The server works on the file of a client.
HasFile == spc \notin {"bound", "accept"} => fd31 \in Client

Base == TypeOK /\ ReadableIsFull /\ HasFile

-----------------------------------------------------------------------------
(* The types, and files that are readable when full. *)

\* Messages that are sent are messages.
LEMMA MessageFacts ==
  /\ Nothing \in Message
  /\ \A c \in Client : \A k \in Kind : [type |-> k, of |-> c] \in Message
  /\ \A x \in Client \cup {None} : [type |-> "reply", of |-> x] \in Message
  /\ \A m \in Message : m.type \in Kind \cup {"reply"} /\ m.of \in Client \cup {None}
BY DEF Message, Nothing, Kind

\* The types of the variables of the files.
FileTypes ==
  /\ flags \in [Client -> {{"SRD"}, {"SWR"}}]
  /\ full \in [Client -> BOOLEAN]
  /\ content \in [Client -> Message]

\* The flags of a file say whether its buffer is full.
LEMMA FlagsFacts ==
  ASSUME Base, NEW c \in Client
  PROVE  /\ full[c] => flags[c] = {"SRD"}
         /\ ~ full[c] => flags[c] = {"SWR"}
         /\ CanWrite(c) <=> ~ full[c]
         /\ CanReadFile(c) <=> full[c]
<1>1. flags[c] \in {{"SRD"}, {"SWR"}} /\ ("SRD" \in flags[c] <=> full[c])
  BY DEF Base, TypeOK, ReadableIsFull
<1>2. ("SRD" \in flags[c] <=> flags[c] = {"SRD"}) /\ ("SWR" \in flags[c] <=> flags[c] = {"SWR"})
      /\ {"SRD"} # {"SWR"}
  BY <1>1
<1>3. QED
  BY <1>1, <1>2 DEF CanWrite, CanReadFile

\* What a write does to the files.
LEMMA WrittenFacts ==
  ASSUME Base, NEW c \in Client, NEW m \in Message, Written(c, m)
  PROVE  /\ FileTypes' /\ ReadableIsFull'
         /\ ~ full[c] => /\ full' = [full EXCEPT ![c] = TRUE]
                         /\ content' = [content EXCEPT ![c] = m]
         /\ full[c] => full' = full /\ content' = content
<1>1. FileTypes /\ ReadableIsFull
  BY DEF Base, TypeOK, FileTypes
<1>2. CASE ~ full[c]
  <2>1. /\ full' = [full EXCEPT ![c] = TRUE]
        /\ content' = [content EXCEPT ![c] = m]
        /\ flags' = [flags EXCEPT ![c] = {"SRD"}]
    BY <1>2, FlagsFacts DEF Written
  <2>2. FileTypes'
    BY <1>1, <2>1 DEF FileTypes
  <2>3. \A d \in Client : d # c => flags'[d] = flags[d] /\ full'[d] = full[d]
    BY <1>1, <2>1 DEF FileTypes
  <2>4. flags'[c] = {"SRD"} /\ full'[c] = TRUE
    BY <1>1, <2>1 DEF FileTypes
  <2>5. ReadableIsFull'
    BY <1>1, <2>3, <2>4 DEF ReadableIsFull
  <2>6. QED
    BY <1>2, <2>1, <2>2, <2>5
<1>3. CASE full[c]
  <2>1. full' = full /\ content' = content
        /\ flags' = [flags EXCEPT ![c] = IF "SWR" \in @ THEN {"SRD"} ELSE @]
    BY <1>3, FlagsFacts DEF Written
  <2>2. flags[c] = {"SRD"} /\ "SWR" \notin flags[c]
    BY <1>3, FlagsFacts
  <2>3. flags' = flags
    BY <1>1, <2>1, <2>2 DEF FileTypes
  <2>4. QED
    BY <1>1, <1>3, <2>1, <2>3 DEF FileTypes, ReadableIsFull
<1>4. QED
  BY <1>2, <1>3

\* What a read does to the files.
LEMMA ReadFacts ==
  ASSUME Base, NEW c \in Client, ReadFrom(c)
  PROVE  /\ FileTypes' /\ ReadableIsFull'
         /\ full[c] => /\ full' = [full EXCEPT ![c] = FALSE]
                       /\ content' = [content EXCEPT ![c] = Nothing]
         /\ ~ full[c] => full' = full /\ content' = content
<1>1. FileTypes /\ ReadableIsFull
  BY DEF Base, TypeOK, FileTypes
<1>2. CASE full[c]
  <2>1. /\ full' = [full EXCEPT ![c] = FALSE]
        /\ content' = [content EXCEPT ![c] = Nothing]
        /\ flags' = [flags EXCEPT ![c] = {"SWR"}]
    BY <1>2, FlagsFacts DEF ReadFrom
  <2>2. FileTypes'
    BY <1>1, <2>1, MessageFacts DEF FileTypes
  <2>3. \A d \in Client : d # c => flags'[d] = flags[d] /\ full'[d] = full[d]
    BY <1>1, <2>1 DEF FileTypes
  <2>4. flags'[c] = {"SWR"} /\ full'[c] = FALSE
    BY <1>1, <2>1 DEF FileTypes
  <2>5. ReadableIsFull'
    BY <1>1, <2>3, <2>4 DEF ReadableIsFull
  <2>6. QED
    BY <1>2, <2>1, <2>2, <2>5
<1>3. CASE ~ full[c]
  <2>1. full' = full /\ content' = content /\ flags' = flags
    BY <1>3, FlagsFacts DEF ReadFrom
  <2>2. QED
    BY <1>1, <1>3, <2>1 DEF FileTypes, ReadableIsFull
<1>4. QED
  BY <1>2, <1>3

\* The types of the other variables.
OtherTypes ==
  /\ sstate \in {"UNCONNECTED", "LISTENING", "CONNECTING", "CONNECTED"}
  /\ pending \in [Slot -> Client \cup {None}]
  /\ tail \in 0..BACKLOG - 1
  /\ head \in 0..BACKLOG - 1
  /\ fd31 \in Client \cup {None}
  /\ cstate \in [Client -> {"UNCONNECTED", "CONNECTING", "CONNECTED"}]
  /\ action \in [Client -> {"NULL", "REQUEST", "REPLY"}]
  /\ pc \in [Client -> {"start", "ready", "written", "waiting", "reading", "done"}]
  /\ kind \in [Client -> Kind]
  /\ result \in [Client -> Message]
  /\ spc \in {"bound", "accept", "check", "read", "handle", "write", "announce", "clear"}
  /\ msg \in Message
  /\ noReply \in BOOLEAN

\* The type invariant, in two parts.
LEMMA TypeParts == (TypeOK <=> FileTypes /\ OtherTypes) /\ (TypeOK' <=> FileTypes' /\ OtherTypes')
BY DEF TypeOK, FileTypes, OtherTypes

\* Initially the files are empty and writable.
LEMMA InitBase == Init => Base
<1>1. SUFFICES ASSUME Init PROVE Base
  OBVIOUS
<1>2. OtherTypes
  <2>1. 0 \in 0..BACKLOG - 1
    OBVIOUS
  <2>2. QED
    BY <1>1, <2>1, MessageFacts DEF Init, OtherTypes, Kind
<1>3. FileTypes
  BY <1>1, MessageFacts DEF Init, FileTypes
<1>4. ReadableIsFull
  <2>0. flags = [c \in Client |-> {"SWR"}] /\ full = [c \in Client |-> FALSE]
    BY <1>1 DEF Init
  <2>1. \A c \in Client : flags[c] = {"SWR"} /\ full[c] = FALSE
    BY <2>0, Zenon
  <2>2. \A c \in Client : "SRD" \notin flags[c] /\ ~ full[c]
    <3>1. TAKE c \in Client
    <3>2. flags[c] = {"SWR"}
      BY <2>1
    <3>3. "SRD" \notin flags[c]
      BY <3>2
    <3>4. ~ full[c]
      BY <2>1
    <3>5. QED
      BY <3>3, <3>4
  <2>3. QED
    BY <2>2 DEF ReadableIsFull
<1>5. QED
  BY <1>1, <1>2, <1>3, <1>4, TypeParts DEF Base, HasFile, Init

\* Every step that leaves flags, buffers and contents alone keeps their part.
LEMMA SameFiles ==
  ASSUME Base, UNCHANGED <<flags, full, content>>
  PROVE  FileTypes' /\ ReadableIsFull'
BY DEF Base, TypeOK, FileTypes, ReadableIsFull

\* listen, connect and accept keep the indices of the queue in range.
LEMMA QueueBase ==
  ASSUME Base, Listen \/ (\E c \in Client : Connect(c)) \/ Accept
  PROVE  Base'
<1>1. OtherTypes
  BY TypeParts DEF Base
<1>2. UNCHANGED <<flags, full, content>>
  BY DEF Listen, Connect, Accept, fileVars
<1>3. CASE Listen
  <2>1. OtherTypes'
    BY <1>1, <1>3 DEF Listen, OtherTypes, fileVars, clientVars
  <2>2. QED
    BY <1>2, <1>3, <2>1, SameFiles, TypeParts DEF Base, HasFile, Listen
<1>4. ASSUME NEW c \in Client, Connect(c) PROVE Base'
  <2>1. tail' \in 0..BACKLOG - 1
    BY <1>1, <1>4 DEF Connect, OtherTypes, Wrap
  <2>2. tail' \in Slot /\ pending' = [pending EXCEPT ![tail'] = c]
    BY <1>4, <2>1 DEF Connect, Slot
  <2>3. pending' \in [Slot -> Client \cup {None}]
    BY <1>1, <2>2 DEF OtherTypes
  <2>4. OtherTypes'
    BY <1>1, <1>4, <2>1, <2>3 DEF Connect, OtherTypes, fileVars, serverVars
  <2>5. HasFile'
    BY <1>4 DEF Connect, HasFile
  <2>6. QED
    BY <1>2, <2>4, <2>5, SameFiles, TypeParts DEF Base
<1>5. CASE Accept
  <2>1. head' \in 0..BACKLOG - 1
    BY <1>1, <1>5 DEF Accept, OtherTypes, Wrap
  <2>2. CASE UNCHANGED <<sstate, cstate, fd31, spc>>
    <3>1. OtherTypes'
      BY <1>1, <1>5, <2>1, <2>2 DEF Accept, OtherTypes, fileVars, clientVars
    <3>2. QED
      BY <1>2, <1>5, <2>2, <3>1, SameFiles, TypeParts DEF Base, HasFile, Accept
  <2>3. ASSUME NEW i \in head'..BACKLOG, IsFirst(i, head'), sstate' = "CONNECTED",
               cstate' = [cstate EXCEPT ![pending[i]] = "CONNECTED"],
               fd31' = pending[i], spc' = "check"
        PROVE  Base'
    <3>1. pending[i] \in Client
      BY <1>1, <2>1, <2>3 DEF OtherTypes, IsFirst, Slot
    <3>2. cstate' \in [Client -> {"UNCONNECTED", "CONNECTING", "CONNECTED"}]
      BY <1>1, <2>3, <3>1 DEF OtherTypes
    <3>3. OtherTypes'
      BY <1>1, <1>5, <2>1, <2>3, <3>1, <3>2 DEF Accept, OtherTypes, fileVars, clientVars
    <3>4. QED
      BY <1>2, <2>3, <3>1, <3>3, SameFiles, TypeParts DEF Base, HasFile
  <2>4. QED
    BY <1>5, <2>2, <2>3 DEF Accept
<1>6. QED
  BY <1>3, <1>4, <1>5

\* The steps of a call keep types and flags.
LEMMA CallBase ==
  ASSUME Base, NEW c \in Client, CallStep(c) \/ (\E k \in Kind : CallWrite(c, k))
  PROVE  Base'
<1>1. OtherTypes /\ HasFile
  BY TypeParts DEF Base
<1>2. ASSUME NEW k \in Kind, CallWrite(c, k) PROVE Base'
  <2>1. FileTypes' /\ ReadableIsFull'
    BY <1>2, WrittenFacts, MessageFacts DEF CallWrite
  <2>2. OtherTypes'
    BY <1>1, <1>2, MessageFacts
       DEF CallWrite, OtherTypes, backlogVars, serverVars
  <2>3. HasFile'
    BY <1>1, <1>2 DEF CallWrite, HasFile, serverVars
  <2>4. QED
    BY <2>1, <2>2, <2>3, TypeParts DEF Base
<1>3. CASE CallAnnounce(c) \/ CallReturn(c)
  <2>1. UNCHANGED <<flags, full, content, backlogVars, fd31, kind, result, serverVars>>
    BY <1>3 DEF CallAnnounce, CallReturn
  <2>2. OtherTypes' /\ HasFile'
    BY <1>1, <1>3, <2>1 DEF CallAnnounce, CallReturn, SetAction, OtherTypes, HasFile,
       backlogVars, serverVars
  <2>3. QED
    BY <2>1, <2>2, SameFiles, TypeParts DEF Base
<1>4. CASE CallPoll(c)
  <2>1. UNCHANGED <<flags, full, content>>
    BY <1>4 DEF CallPoll, fileVars
  <2>2. OtherTypes' /\ HasFile'
    BY <1>1, <1>4 DEF CallPoll, OtherTypes, HasFile, backlogVars, serverVars, fileVars
  <2>3. QED
    BY <2>1, <2>2, SameFiles, TypeParts DEF Base
<1>5. CASE CallRead(c)
  <2>1. FileTypes' /\ ReadableIsFull'
    BY <1>5, ReadFacts DEF CallRead
  <2>2. result' \in [Client -> Message]
    <3>1. content[c] \in Message
      BY DEF Base, TypeOK
    <3>2. QED
      BY <1>1, <1>5, <3>1 DEF CallRead, OtherTypes
  <2>3. OtherTypes' /\ HasFile'
    BY <1>1, <1>5, <2>2 DEF CallRead, OtherTypes, HasFile, backlogVars, serverVars
  <2>4. QED
    BY <2>1, <2>3, TypeParts DEF Base
<1>6. QED
  BY <1>2, <1>3, <1>4, <1>5 DEF CallStep

\* The steps of the dispatcher keep types and flags.
LEMMA ServerBase ==
  ASSUME Base,
         ServerCheck \/ ServerRead \/ ServerHandle \/ ServerWrite \/ ServerAnnounce \/ ServerClear
  PROVE  Base'
<1>1. OtherTypes /\ HasFile
  BY TypeParts DEF Base
<1>2. fd31 \in Client
  BY <1>1 DEF HasFile, ServerCheck, ServerRead, ServerHandle, ServerWrite, ServerAnnounce, ServerClear
<1>3. CASE ServerCheck
  <2>1. UNCHANGED <<flags, full, content>>
    BY <1>3 DEF ServerCheck, fileVars
  <2>2. OtherTypes' /\ HasFile'
    BY <1>1, <1>2, <1>3 DEF ServerCheck, OtherTypes, HasFile, backlogVars, fileVars, clientVars
  <2>3. QED
    BY <2>1, <2>2, SameFiles, TypeParts DEF Base
<1>4. CASE ServerRead
  <2>1. FileTypes' /\ ReadableIsFull'
    BY <1>2, <1>4, ReadFacts DEF ServerRead
  <2>2. content[fd31] \in Message
    BY <1>2 DEF Base, TypeOK
  <2>3. spc' \in {"handle", "accept"} /\ msg' \in Message
    BY <1>1, <1>4, <2>2 DEF ServerRead, OtherTypes
  <2>4. OtherTypes' /\ HasFile'
    BY <1>1, <1>2, <1>4, <2>3 DEF ServerRead, OtherTypes, HasFile, backlogVars, clientVars
  <2>5. QED
    BY <2>1, <2>4, TypeParts DEF Base
<1>5. CASE ServerHandle
  <2>1. UNCHANGED <<flags, full, content>>
    BY <1>5 DEF ServerHandle, fileVars
  <2>2. noReply' \in BOOLEAN
    BY <1>1, <1>5 DEF ServerHandle, OtherTypes
  <2>3. spc' \in {"clear", "write"}
    BY <1>5 DEF ServerHandle
  <2>4. OtherTypes' /\ HasFile'
    BY <1>1, <1>2, <1>5, <2>2, <2>3 DEF ServerHandle, OtherTypes, HasFile, backlogVars, fileVars, clientVars
  <2>5. QED
    BY <2>1, <2>4, SameFiles, TypeParts DEF Base
<1>6. CASE ServerWrite
  <2>1. [type |-> "reply", of |-> msg.of] \in Message
    BY <1>1, MessageFacts DEF OtherTypes
  <2>2. FileTypes' /\ ReadableIsFull'
    BY <1>2, <1>6, <2>1, WrittenFacts DEF ServerWrite
  <2>3. spc' \in {"announce", "write"}
    BY <1>6 DEF ServerWrite
  <2>4. OtherTypes' /\ HasFile'
    BY <1>1, <1>2, <1>6, <2>3 DEF ServerWrite, OtherTypes, HasFile, backlogVars, clientVars
  <2>5. QED
    BY <2>2, <2>4, TypeParts DEF Base
<1>7. CASE ServerAnnounce \/ ServerClear
  <2>1. UNCHANGED <<flags, full, content, backlogVars, fd31, clientVars, noReply>>
        /\ spc' = "accept" /\ msg' = Nothing
    BY <1>7 DEF ServerAnnounce, ServerClear
  <2>2. action' \in [Client -> {"NULL", "REQUEST", "REPLY"}]
    BY <1>1, <1>7 DEF ServerAnnounce, ServerClear, SetAction, OtherTypes
  <2>3. OtherTypes' /\ HasFile'
    BY <1>1, <2>1, <2>2, MessageFacts DEF OtherTypes, HasFile, backlogVars, clientVars
  <2>4. QED
    BY <2>1, <2>3, SameFiles, TypeParts DEF Base
<1>8. QED
  BY <1>3, <1>4, <1>5, <1>6, <1>7

\* Every step keeps the types and the flags.
LEMMA NextBase == Base /\ [Next]_vars => Base'
<1>1. SUFFICES ASSUME Base, [Next]_vars PROVE Base'
  OBVIOUS
<1>2. CASE UNCHANGED vars
  BY <1>1, <1>2 DEF Base, TypeOK, ReadableIsFull, HasFile, vars, backlogVars, fileVars,
     clientVars, serverVars
<1>3. QED
  BY <1>1, <1>2, QueueBase, CallBase, ServerBase DEF Next, ServerStep

\* Type correctness, for every backlog: the indices of the queue of pending
\* clients stay below it.
THEOREM SocketsTypeOK == Spec => []TypeOK
<1>1. Base => TypeOK
  BY DEF Base
<1>2. QED
  BY <1>1, InitBase, NextBase, PTL DEF Spec

\* Whenever clients connect, read and write, a file is readable exactly when
\* its buffer is full: __read_imp never meets its panic.
THEOREM SocketsReadableIsFull == Spec => []ReadableIsFull
<1>1. Base => ReadableIsFull
  BY DEF Base
<1>2. QED
  BY <1>1, InitBase, NextBase, PTL DEF Spec

-----------------------------------------------------------------------------
(* The protocol, when clients connect only while the server is in accept. *)

Own(c) == [type |-> kind[c], of |-> c]
Rep(c) == [type |-> "reply", of |-> c]

\* The server has taken the request of c and not announced the end.
Busy(c) == spc \in {"handle", "write", "announce", "clear"} /\ fd31 = c

\* What the buffer and the action word of a client hold, by where it is in
\* its call.
ClientInv(c) ==
  /\ pc[c] \in {"start", "ready", "done"} => ~ full[c] /\ action[c] # "REQUEST"
  /\ pc[c] = "written" => full[c] /\ content[c] = Own(c) /\ action[c] # "REQUEST"
  /\ pc[c] = "reading" => full[c] /\ content[c] = Rep(c) /\ action[c] # "REQUEST"
  /\ pc[c] = "waiting" =>
       \/ action[c] = "REQUEST" /\ Busy(c)
       \/ action[c] = "REQUEST" /\ ~ Busy(c) /\ full[c] /\ content[c] = Own(c)
       \/ action[c] = "REPLY" /\ ~ Busy(c) /\ full[c] /\ content[c] = Rep(c)
       \/ action[c] = "NULL" /\ ~ Busy(c) /\ ~ full[c]

\* What the server has in hand, by where it is in its loop.
ServerInv ==
  /\ spc \in {"read", "handle", "write", "announce", "clear"} =>
       pc[fd31] = "waiting" /\ action[fd31] = "REQUEST"
  /\ spc \in {"handle", "write", "announce", "clear"} => msg = Own(fd31)
  /\ spc \in {"handle", "write", "clear"} => ~ full[fd31]
  /\ spc = "announce" => full[fd31] /\ content[fd31] = Rep(fd31)

RInv == Base /\ ServerInv /\ \A c \in Client : ClientInv(c)

\* Initially nobody is in a call.
LEMMA InitRInv == Init => RInv
<1>1. SUFFICES ASSUME Init PROVE RInv
  OBVIOUS
<1>2. Base
  BY <1>1, InitBase
<1>3. ServerInv
  BY <1>1 DEF Init, ServerInv
<1>4. ASSUME NEW c \in Client PROVE ClientInv(c)
  <2>1. pc[c] = "start" /\ action[c] = "NULL"
    BY <1>1 DEF Init
  <2>2. ~ full[c]
    BY <1>1, Zenon DEF Init
  <2>3. QED
    BY <2>1, <2>2 DEF ClientInv
<1>5. QED
  BY <1>2, <1>3, <1>4 DEF RInv

\* A client whose state did not change is where it was.
LEMMA FrameClient ==
  ASSUME NEW d \in Client, ClientInv(d), pc'[d] = pc[d], kind'[d] = kind[d],
         full'[d] = full[d], content'[d] = content[d], action'[d] = action[d],
         Busy(d)' <=> Busy(d)
  PROVE  ClientInv(d)'
BY DEF ClientInv, Own, Rep

\* So is the server, when its client has not changed.
LEMMA FrameServer ==
  ASSUME ServerInv, spc' = spc, fd31' = fd31, msg' = msg,
         \/ spc \in {"bound", "accept", "check"}
         \/ /\ pc'[fd31] = pc[fd31] /\ kind'[fd31] = kind[fd31] /\ full'[fd31] = full[fd31]
            /\ content'[fd31] = content[fd31] /\ action'[fd31] = action[fd31]
  PROVE  ServerInv'
<1>1. CASE spc \in {"bound", "accept", "check"}
  BY <1>1 DEF ServerInv
<1>2. CASE /\ pc'[fd31] = pc[fd31] /\ kind'[fd31] = kind[fd31] /\ full'[fd31] = full[fd31]
           /\ content'[fd31] = content[fd31] /\ action'[fd31] = action[fd31]
  BY <1>2 DEF ServerInv, Own, Rep
<1>3. QED
  BY <1>1, <1>2

\* A client moves only while the server has nothing of it in hand.
LEMMA ActorFree ==
  ASSUME RInv, NEW c \in Client, CallStep(c) \/ (\E k \in Kind : CallWrite(c, k))
  PROVE  (spc \in {"bound", "accept", "check"} \/ fd31 # c) /\ ~ Busy(c)
<1>1. pc[c] # "waiting" \/ action[c] # "REQUEST"
  BY DEF CallStep, CallWrite, CallAnnounce, CallPoll, CallRead, CallReturn
<1>2. spc \in {"bound", "accept", "check", "read", "handle", "write", "announce", "clear"}
  BY DEF RInv, Base, TypeOK
<1>3. QED
  BY <1>1, <1>2 DEF RInv, ServerInv, Busy

\* A step of client c keeps the invariant if it keeps the part of c and
\* changes nobody else.
LEMMA ActorRInv ==
  ASSUME RInv, Base', NEW c \in Client, ClientInv(c)',
         spc \in {"bound", "accept", "check"} \/ fd31 # c,
         UNCHANGED <<spc, fd31, msg>>,
         \A d \in Client \ {c} : /\ pc'[d] = pc[d] /\ kind'[d] = kind[d] /\ full'[d] = full[d]
                                /\ content'[d] = content[d] /\ action'[d] = action[d]
  PROVE  RInv'
<1>1. ServerInv'
  <2>1. CASE spc \in {"bound", "accept", "check"}
    BY <2>1, FrameServer DEF RInv
  <2>2. CASE spc \notin {"bound", "accept", "check"}
    <3>1. fd31 \in Client \ {c}
      BY <2>2 DEF RInv, Base, HasFile
    <3>2. QED
      BY <3>1, FrameServer DEF RInv
  <2>3. QED
    BY <2>1, <2>2
<1>2. ASSUME NEW d \in Client PROVE ClientInv(d)'
  <2>1. CASE d = c
    BY <2>1
  <2>2. CASE d # c
    BY <2>2, FrameClient DEF RInv, Busy
  <2>3. QED
    BY <2>1, <2>2
<1>3. QED
  BY <1>1, <1>2 DEF RInv

\* The types of the variables of a client.
LEMMA ClientTypes ==
  Base => /\ pc \in [Client -> {"start", "ready", "written", "waiting", "reading", "done"}]
          /\ kind \in [Client -> Kind] /\ full \in [Client -> BOOLEAN]
          /\ content \in [Client -> Message] /\ action \in [Client -> {"NULL", "REQUEST", "REPLY"}]
BY DEF Base, TypeOK

\* A client writes its request into an empty buffer.
LEMMA WriteRInv ==
  ASSUME RInv, Base', NEW c \in Client, NEW k \in Kind, CallWrite(c, k)
  PROVE  RInv' /\ ~ full[c]
<1>1. /\ pc[c] = "ready" /\ kind' = [kind EXCEPT ![c] = k]
      /\ Written(c, [type |-> k, of |-> c])
      /\ pc' = [pc EXCEPT ![c] = IF CanWrite(c) THEN "written" ELSE "done"]
      /\ UNCHANGED <<spc, fd31, msg, action>>
  BY DEF CallWrite, serverVars
<1>2. ~ full[c] /\ action[c] # "REQUEST"
  BY <1>1 DEF RInv, ClientInv
<1>3. CanWrite(c) /\ [type |-> k, of |-> c] \in Message
  BY <1>2, FlagsFacts, MessageFacts DEF RInv
<1>4. full' = [full EXCEPT ![c] = TRUE] /\ content' = [content EXCEPT ![c] = [type |-> k, of |-> c]]
  BY <1>1, <1>2, <1>3, WrittenFacts DEF RInv
<1>5. pc'[c] = "written" /\ content'[c] = [type |-> k, of |-> c] /\ kind'[c] = k
  BY <1>1, <1>3, <1>4, ClientTypes DEF RInv
<1>6. full'[c]
  BY <1>4, ClientTypes DEF RInv
<1>7. ClientInv(c)'
  BY <1>1, <1>2, <1>5, <1>6 DEF ClientInv, Own
<1>8. \A d \in Client \ {c} : /\ pc'[d] = pc[d] /\ kind'[d] = kind[d]
                             /\ content'[d] = content[d] /\ action'[d] = action[d]
  BY <1>1, <1>4, ClientTypes DEF RInv
<1>9. \A d \in Client \ {c} : full'[d] = full[d]
  BY <1>4, ClientTypes DEF RInv
<1>10. QED
  BY <1>1, <1>2, <1>7, <1>8, <1>9, ActorFree, ActorRInv

\* A request that was written is announced.
LEMMA AnnounceRInv ==
  ASSUME RInv, Base', NEW c \in Client, CallAnnounce(c)
  PROVE  RInv'
<1>1. /\ pc[c] = "written" /\ action' = [action EXCEPT ![c] = "REQUEST"]
      /\ pc' = [pc EXCEPT ![c] = "waiting"]
      /\ UNCHANGED <<spc, fd31, msg, kind, full, content>>
  BY DEF CallAnnounce, SetAction, serverVars
<1>2. full[c] /\ content[c] = Own(c)
  BY <1>1 DEF RInv, ClientInv
<1>3. pc'[c] = "waiting" /\ action'[c] = "REQUEST"
  BY <1>1, ClientTypes DEF RInv
<1>4. CallStep(c)
  BY DEF CallStep
<1>5. ClientInv(c)'
  BY <1>1, <1>2, <1>3, <1>4, ActorFree DEF ClientInv, Own, Busy
<1>6. \A d \in Client \ {c} : pc'[d] = pc[d] /\ action'[d] = action[d]
  BY <1>1, ClientTypes DEF RInv
<1>7. QED
  BY <1>1, <1>4, <1>5, <1>6, ActorFree, ActorRInv

\* A client that stops waiting finds its reply, or an empty buffer.
LEMMA PollRInv ==
  ASSUME RInv, Base', NEW c \in Client, CallPoll(c)
  PROVE  RInv'
<1>1. /\ pc[c] = "waiting" /\ UNCHANGED <<spc, fd31, msg, kind, full, content, action>>
      /\ \/ action[c] = "REPLY" /\ pc' = [pc EXCEPT ![c] = "reading"]
         \/ action[c] = "NULL" /\ pc' = [pc EXCEPT ![c] = "done"]
  BY DEF CallPoll, serverVars, fileVars
<1>2. ClientInv(c)'
  <2>1. CASE action[c] = "REPLY" /\ pc' = [pc EXCEPT ![c] = "reading"]
    <3>1. pc'[c] = "reading"
      BY <2>1, ClientTypes DEF RInv
    <3>2. full[c] /\ content[c] = Rep(c)
      BY <1>1, <2>1 DEF RInv, ClientInv
    <3>3. QED
      BY <1>1, <2>1, <3>1, <3>2 DEF ClientInv, Rep
  <2>2. CASE action[c] = "NULL" /\ pc' = [pc EXCEPT ![c] = "done"]
    <3>1. pc'[c] = "done"
      BY <2>2, ClientTypes DEF RInv
    <3>2. ~ full[c]
      BY <1>1, <2>2 DEF RInv, ClientInv
    <3>3. QED
      BY <1>1, <2>2, <3>1, <3>2 DEF ClientInv
  <2>3. QED
    BY <1>1, <2>1, <2>2
<1>3. CallStep(c)
  BY DEF CallStep
<1>4. \A d \in Client \ {c} : pc'[d] = pc[d]
  BY <1>1, ClientTypes DEF RInv
<1>5. QED
  BY <1>1, <1>2, <1>3, <1>4, ActorFree, ActorRInv

\* What a client reads is the reply to its request.
LEMMA ReadRInv ==
  ASSUME RInv, Base', NEW c \in Client, CallRead(c)
  PROVE  RInv' /\ result' = [result EXCEPT ![c] = Rep(c)]
<1>1. /\ pc[c] = "reading" /\ ReadFrom(c) /\ pc' = [pc EXCEPT ![c] = "done"]
      /\ result' = [result EXCEPT ![c] = IF CanReadFile(c) THEN content[c] ELSE @]
      /\ UNCHANGED <<spc, fd31, msg, kind, action>>
  BY DEF CallRead, serverVars
<1>2. full[c] /\ content[c] = Rep(c) /\ action[c] # "REQUEST"
  BY <1>1 DEF RInv, ClientInv
<1>3. CanReadFile(c)
  BY <1>2, FlagsFacts DEF RInv
<1>4. full' = [full EXCEPT ![c] = FALSE] /\ content' = [content EXCEPT ![c] = Nothing]
  BY <1>1, <1>2, ReadFacts DEF RInv
<1>5. pc'[c] = "done"
  BY <1>1, ClientTypes DEF RInv
<1>6. ~ full'[c]
  BY <1>4, ClientTypes DEF RInv
<1>7. ClientInv(c)'
  BY <1>1, <1>2, <1>5, <1>6 DEF ClientInv
<1>8. CallStep(c)
  BY DEF CallStep
<1>9. \A d \in Client \ {c} : pc'[d] = pc[d] /\ content'[d] = content[d]
  BY <1>1, <1>4, ClientTypes DEF RInv
<1>10. \A d \in Client \ {c} : full'[d] = full[d]
  BY <1>4, ClientTypes DEF RInv
<1>11. QED
  BY <1>1, <1>2, <1>3, <1>7, <1>8, <1>9, <1>10, ActorFree, ActorRInv

\* A call ends with an empty buffer.
LEMMA ReturnRInv ==
  ASSUME RInv, Base', NEW c \in Client, CallReturn(c)
  PROVE  RInv'
<1>1. /\ pc[c] = "done" /\ action' = [action EXCEPT ![c] = "NULL"]
      /\ pc' = [pc EXCEPT ![c] = "ready"]
      /\ UNCHANGED <<spc, fd31, msg, kind, full, content>>
  BY DEF CallReturn, SetAction, serverVars
<1>2. ~ full[c]
  BY <1>1 DEF RInv, ClientInv
<1>3. pc'[c] = "ready" /\ action'[c] = "NULL"
  BY <1>1, ClientTypes DEF RInv
<1>4. ClientInv(c)'
  BY <1>1, <1>2, <1>3 DEF ClientInv
<1>5. CallStep(c)
  BY DEF CallStep
<1>6. \A d \in Client \ {c} : pc'[d] = pc[d] /\ action'[d] = action[d]
  BY <1>1, ClientTypes DEF RInv
<1>7. QED
  BY <1>1, <1>4, <1>5, <1>6, ActorFree, ActorRInv

\* listen, connect and accept find the server with nothing in hand.
LEMMA QueueRInv ==
  ASSUME AnyTime = FALSE, RInv, Base', Listen \/ (\E c \in Client : Connect(c)) \/ Accept
  PROVE  RInv'
<1>1. spc \in {"bound", "accept"} /\ spc' \in {"accept", "check"}
  BY DEF Listen, Connect, Accept, serverVars
<1>2. ServerInv'
  BY <1>1 DEF ServerInv
<1>3. UNCHANGED <<kind, full, content, action>>
  BY DEF Listen, Connect, Accept, fileVars, clientVars
<1>4. ASSUME NEW d \in Client PROVE ClientInv(d)'
  <2>1. ~ Busy(d) /\ ~ Busy(d)'
    BY <1>1 DEF Busy
  <2>2. CASE pc'[d] = pc[d]
    BY <1>3, <2>1, <2>2, FrameClient DEF RInv
  <2>3. CASE pc'[d] # pc[d]
    <3>1. pc[d] = "start" /\ pc'[d] = "ready"
      BY <2>3, ClientTypes DEF Listen, Connect, Accept, clientVars, RInv
    <3>2. QED
      BY <1>3, <3>1 DEF RInv, ClientInv
  <2>4. QED
    BY <2>2, <2>3
<1>5. QED
  BY <1>2, <1>4 DEF RInv

\* A step of the server changes its client f only.
LEMMA ServerFrame ==
  ASSUME RInv, Base', NEW f \in Client, fd31 = f, fd31' = f, ClientInv(f)', ServerInv',
         UNCHANGED <<pc, kind>>,
         \A d \in Client \ {f} : /\ full'[d] = full[d] /\ content'[d] = content[d]
                                /\ action'[d] = action[d]
  PROVE  RInv'
<1>1. ASSUME NEW d \in Client, d # f PROVE ClientInv(d)'
  <2>1. ~ Busy(d) /\ ~ Busy(d)'
    BY <1>1 DEF Busy
  <2>2. QED
    BY <1>1, <2>1, FrameClient DEF RInv
<1>2. QED
  BY <1>1 DEF RInv

\* Only a client that waits has announced a request.
LEMMA CheckRInv == ASSUME RInv, Base', ServerCheck PROVE RInv'
<1>1. PICK f \in Client : f = fd31
  BY DEF ServerCheck, RInv, Base, HasFile
<1>2. /\ spc = "check" /\ spc' = IF action[f] = "REQUEST" THEN "read" ELSE "accept"
      /\ UNCHANGED <<fd31, pc, kind, full, content, action, msg>>
  BY <1>1 DEF ServerCheck, fileVars, clientVars
<1>3. ClientInv(f) /\ pc[f] \in {"start", "ready", "written", "waiting", "reading", "done"}
  BY ClientTypes DEF RInv
<1>4. action[f] = "REQUEST" => pc[f] = "waiting"
  BY <1>3 DEF ClientInv
<1>5. ServerInv'
  BY <1>1, <1>2, <1>4 DEF ServerInv
<1>6. ~ Busy(f) /\ ~ Busy(f)'
  BY <1>2 DEF Busy
<1>7. ClientInv(f)'
  BY <1>2, <1>3, <1>6, FrameClient
<1>8. QED
  BY <1>1, <1>2, <1>5, <1>7, ServerFrame

\* The server reads the request that its client wrote.
LEMMA ServerReadRInv ==
  ASSUME RInv, Base', ServerRead
  PROVE  RInv' /\ spc' = "handle"
<1>1. PICK f \in Client : f = fd31
  BY DEF ServerRead, RInv, Base, HasFile
<1>2. /\ spc = "read" /\ ReadFrom(f) /\ UNCHANGED <<fd31, pc, kind, action>>
      /\ CanReadFile(f) => spc' = "handle" /\ msg' = content[f]
  BY <1>1 DEF ServerRead, clientVars
<1>3. pc[f] = "waiting" /\ action[f] = "REQUEST" /\ ClientInv(f) /\ ~ Busy(f)
  BY <1>1, <1>2 DEF RInv, ServerInv, Busy
<1>4. full[f] /\ content[f] = Own(f)
  BY <1>3 DEF ClientInv
<1>5. CanReadFile(f)
  BY <1>4, FlagsFacts DEF RInv
<1>6. full' = [full EXCEPT ![f] = FALSE] /\ content' = [content EXCEPT ![f] = Nothing]
  BY <1>2, <1>4, ReadFacts DEF RInv
<1>7. ~ full'[f] /\ \A d \in Client \ {f} : full'[d] = full[d]
  BY <1>6, ClientTypes DEF RInv
<1>8. \A d \in Client \ {f} : content'[d] = content[d]
  BY <1>6, ClientTypes DEF RInv
<1>9. spc' = "handle" /\ msg' = Own(f)
  BY <1>2, <1>4, <1>5
<1>10. ServerInv'
  BY <1>1, <1>2, <1>3, <1>7, <1>9 DEF ServerInv, Own
<1>11. ClientInv(f)'
  BY <1>1, <1>2, <1>3, <1>9 DEF ClientInv, Busy
<1>12. QED
  BY <1>1, <1>2, <1>7, <1>8, <1>9, <1>10, <1>11, ServerFrame

\* The request in hand is handled.
LEMMA HandleRInv ==
  ASSUME RInv, Base', ServerHandle
  PROVE  RInv' /\ spc' \in {"write", "clear"} /\ msg.of = fd31 /\ pc[fd31] = "waiting"
         /\ action[fd31] = "REQUEST" /\ fd31 \in Client
<1>1. PICK f \in Client : f = fd31
  BY DEF ServerHandle, RInv, Base, HasFile
<1>2. /\ spc = "handle" /\ spc' \in {"write", "clear"}
      /\ UNCHANGED <<fd31, pc, kind, full, content, action, msg>>
  BY DEF ServerHandle, fileVars, clientVars
<1>3. pc[f] = "waiting" /\ action[f] = "REQUEST" /\ msg = Own(f) /\ ~ full[f]
  BY <1>1, <1>2 DEF RInv, ServerInv
<1>4. ServerInv'
  BY <1>1, <1>2, <1>3 DEF ServerInv, Own
<1>5. ClientInv(f)'
  BY <1>1, <1>2, <1>3 DEF ClientInv, Busy
<1>6. msg.of = f
  BY <1>3 DEF Own
<1>7. QED
  BY <1>1, <1>2, <1>3, <1>4, <1>5, <1>6, ServerFrame

\* The reply finds the buffer empty.
LEMMA ServerWriteRInv ==
  ASSUME RInv, Base', ServerWrite
  PROVE  RInv' /\ spc' = "announce"
<1>1. PICK f \in Client : f = fd31
  BY DEF ServerWrite, RInv, Base, HasFile
<1>2. /\ spc = "write" /\ Written(f, [type |-> "reply", of |-> msg.of])
      /\ UNCHANGED <<fd31, pc, kind, action, msg>>
      /\ CanWrite(f) => spc' = "announce"
  BY <1>1 DEF ServerWrite, clientVars
<1>3. pc[f] = "waiting" /\ action[f] = "REQUEST" /\ msg = Own(f) /\ ~ full[f]
  BY <1>1, <1>2 DEF RInv, ServerInv
<1>4. CanWrite(f) /\ [type |-> "reply", of |-> msg.of] = Rep(f) /\ Rep(f) \in Message
  BY <1>3, FlagsFacts, MessageFacts DEF RInv, Own, Rep
<1>5. full' = [full EXCEPT ![f] = TRUE] /\ content' = [content EXCEPT ![f] = Rep(f)]
  BY <1>2, <1>3, <1>4, WrittenFacts DEF RInv
<1>6. full'[f] /\ \A d \in Client \ {f} : full'[d] = full[d]
  BY <1>5, ClientTypes DEF RInv
<1>7. content'[f] = Rep(f) /\ \A d \in Client \ {f} : content'[d] = content[d]
  BY <1>5, ClientTypes DEF RInv
<1>8. ServerInv'
  BY <1>1, <1>2, <1>3, <1>4, <1>6, <1>7 DEF ServerInv, Own, Rep
<1>9. ClientInv(f)'
  BY <1>1, <1>2, <1>3, <1>4 DEF ClientInv, Busy
<1>10. QED
  BY <1>1, <1>2, <1>4, <1>6, <1>7, <1>8, <1>9, ServerFrame

\* The end of a request is announced, with a reply or without.
LEMMA EndRInv ==
  ASSUME RInv, Base', ServerAnnounce \/ ServerClear
  PROVE  RInv' /\ msg.of = fd31 /\ pc[fd31] = "waiting" /\ action'[fd31] # "REQUEST"
         /\ \A d \in Client : d # fd31 => action'[d] = action[d]
<1>1. PICK f \in Client : f = fd31
  BY DEF ServerAnnounce, ServerClear, RInv, Base, HasFile
<1>2. spc' = "accept" /\ UNCHANGED <<fd31, pc, kind, full, content>>
  BY DEF ServerAnnounce, ServerClear, clientVars
<1>3. spc \in {"announce", "clear"} /\ pc[f] = "waiting" /\ msg = Own(f)
  BY <1>1 DEF ServerAnnounce, ServerClear, RInv, ServerInv
<1>4. ~ Busy(f)'
  BY <1>2 DEF Busy
<1>5. /\ action'[f] \in {"REPLY", "NULL"} /\ \A d \in Client \ {f} : action'[d] = action[d]
      /\ action'[f] = "REPLY" => spc = "announce"
      /\ action'[f] = "NULL" => spc = "clear"
  BY <1>1, ClientTypes DEF ServerAnnounce, ServerClear, SetAction, RInv
<1>6. ClientInv(f)'
  <2>1. CASE spc = "announce"
    <3>1. full[f] /\ content[f] = Rep(f) /\ action'[f] = "REPLY"
      BY <1>1, <1>5, <2>1 DEF RInv, ServerInv
    <3>2. QED
      BY <1>2, <1>3, <1>4, <3>1 DEF ClientInv, Rep
  <2>2. CASE spc = "clear"
    <3>1. ~ full[f] /\ action'[f] = "NULL"
      BY <1>1, <1>5, <2>2 DEF RInv, ServerInv
    <3>2. QED
      BY <1>2, <1>3, <1>4, <3>1 DEF ClientInv
  <2>3. QED
    BY <1>3, <2>1, <2>2
<1>7. ServerInv'
  BY <1>2 DEF ServerInv
<1>8. msg.of = f
  BY <1>3 DEF Own
<1>9. QED
  BY <1>1, <1>2, <1>3, <1>5, <1>6, <1>7, <1>8, ServerFrame

\* Every step keeps the protocol invariant.
LEMMA NextRInv == AnyTime = FALSE /\ RInv /\ [Next]_vars => RInv'
<1>1. SUFFICES ASSUME AnyTime = FALSE, RInv, [Next]_vars PROVE RInv'
  OBVIOUS
<1>2. Base'
  BY <1>1, NextBase DEF RInv
<1>3. CASE UNCHANGED vars
  <2>1. UNCHANGED <<pc, kind, full, content, action, spc, fd31, msg>>
    BY <1>3 DEF vars, fileVars, clientVars, serverVars
  <2>2. QED
    BY <1>1, <1>2, <2>1 DEF RInv, ServerInv, ClientInv, Busy, Own, Rep
<1>4. QED
  BY <1>1, <1>2, <1>3, QueueRInv, WriteRInv, AnnounceRInv, PollRInv, ReadRInv, ReturnRInv,
     CheckRInv, ServerReadRInv, HandleRInv, ServerWriteRInv, EndRInv
     DEF Next, ServerStep, CallStep

\* If clients connect only while the server is in accept, what the server
\* writes goes to the client whose request it read.
THEOREM SocketsAnswersTheAsker ==
  ASSUME AnyTime = FALSE
  PROVE  Spec => []AnswersTheAsker
<1>1. RInv => AnswersTheAsker
  BY DEF RInv, ServerInv, AnswersTheAsker, Own
<1>2. QED
  BY <1>1, InitRInv, NextRInv, PTL DEF Spec

-----------------------------------------------------------------------------
(* The protocol implements calls. *)

\* The abstract state of a call whose client and server did not move.
LEMMA CallFrame ==
  ASSUME NEW d \in Client, pc'[d] = pc[d], action'[d] = action[d],
         Handling(d)' <=> Handling(d)
  PROVE  CallState(d)' = CallState(d)
BY DEF CallState

\* The abstract state of a call, by where its client is.
LEMMA CallValues ==
  ASSUME NEW d \in Client
  PROVE  /\ pc[d] \in {"start", "ready"} => CallState(d) = "idle"
         /\ pc[d] = "written" => CallState(d) = "asked"
         /\ pc[d] = "waiting" /\ action[d] = "REQUEST" /\ ~ Handling(d) => CallState(d) = "asked"
         /\ pc[d] = "waiting" /\ (action[d] # "REQUEST" \/ Handling(d)) => CallState(d) = "served"
         /\ pc[d] \in {"reading", "done"} => CallState(d) = "served"
BY DEF CallState

\* The same after a step.
LEMMA CallValuesNext ==
  ASSUME NEW d \in Client
  PROVE  /\ pc'[d] \in {"start", "ready"} => CallState(d)' = "idle"
         /\ pc'[d] = "written" => CallState(d)' = "asked"
         /\ pc'[d] = "waiting" /\ action'[d] = "REQUEST" /\ ~ Handling(d)' => CallState(d)' = "asked"
         /\ pc'[d] = "waiting" /\ (action'[d] # "REQUEST" \/ Handling(d)') => CallState(d)' = "served"
         /\ pc'[d] \in {"reading", "done"} => CallState(d)' = "served"
BY DEF CallState

\* A step that moves no call but that of c.
LEMMA CallUpdate ==
  ASSUME NEW c \in Client, NEW v, CallState(c)' = v,
         \A d \in Client \ {c} : CallState(d)' = CallState(d)
  PROVE  [d \in Client |-> CallState(d)]' = [[d \in Client |-> CallState(d)] EXCEPT ![c] = v]
OBVIOUS

\* A request is being handled only for a client that waits for it.
LEMMA HandlingWaits ==
  ASSUME RInv, NEW d \in Client, Handling(d)
  PROVE  d = fd31 /\ pc[d] = "waiting" /\ action[d] = "REQUEST"
BY DEF RInv, ServerInv, Handling, Own

\* The steps of a call, as steps of the abstract call.
LEMMA CallRefines ==
  ASSUME RInv, RInv', NEW c \in Client, CallStep(c) \/ (\E k \in Kind : CallWrite(c, k))
  PROVE  [R!Next]_(R!rpcVars)
<1>0. Base /\ Base' /\ UNCHANGED <<spc, msg>>
  BY DEF RInv, CallStep, CallWrite, CallAnnounce, CallPoll, CallRead, CallReturn, serverVars
<1>1. ~ Handling(c) /\ ~ Handling(c)' /\ \A d \in Client : Handling(d)' <=> Handling(d)
  <2>1. ~ Handling(c)
    BY ActorFree, HandlingWaits DEF Handling
  <2>2. QED
    BY <1>0, <2>1 DEF Handling
<1>2. ASSUME \A d \in Client \ {c} : pc'[d] = pc[d] /\ action'[d] = action[d]
      PROVE  \A d \in Client \ {c} : CallState(d)' = CallState(d)
  BY <1>1, <1>2, CallFrame
<1>3. ASSUME NEW k \in Kind, CallWrite(c, k) PROVE R!Ask(c)
  <2>1. /\ pc[c] = "ready" /\ action' = action
        /\ pc' = [pc EXCEPT ![c] = IF CanWrite(c) THEN "written" ELSE "done"]
        /\ result' = [result EXCEPT ![c] = Nothing]
    BY <1>3 DEF CallWrite
  <2>2. CanWrite(c)
    BY <1>0, <1>3, WriteRInv, FlagsFacts
  <2>3. pc'[c] = "written" /\ \A d \in Client \ {c} : pc'[d] = pc[d] /\ action'[d] = action[d]
    BY <1>0, <2>1, <2>2, ClientTypes
  <2>4. CallState(c) = "idle" /\ CallState(c)' = "asked"
    BY <2>1, <2>3, CallValues, CallValuesNext
  <2>5. [d \in Client |-> CallState(d)]' = [[d \in Client |-> CallState(d)] EXCEPT ![c] = "asked"]
    BY <1>2, <2>3, <2>4, CallUpdate
  <2>6. QED
    BY <2>1, <2>4, <2>5 DEF R!Ask
<1>4. CASE CallAnnounce(c)
  <2>1. /\ pc[c] = "written" /\ action' = [action EXCEPT ![c] = "REQUEST"]
        /\ pc' = [pc EXCEPT ![c] = "waiting"] /\ result' = result
    BY <1>4 DEF CallAnnounce, SetAction
  <2>2. /\ pc'[c] = "waiting" /\ action'[c] = "REQUEST"
        /\ \A d \in Client \ {c} : pc'[d] = pc[d] /\ action'[d] = action[d]
    BY <1>0, <2>1, ClientTypes
  <2>3. CallState(c)' = CallState(c)
    BY <1>1, <2>1, <2>2, CallValues, CallValuesNext
  <2>4. \A d \in Client : CallState(d)' = CallState(d)
    BY <1>2, <2>2, <2>3
  <2>5. QED
    BY <2>1, <2>4 DEF R!rpcVars
<1>5. CASE CallPoll(c)
  <2>1. /\ pc[c] = "waiting" /\ action[c] # "REQUEST" /\ UNCHANGED <<action, result>>
        /\ pc' \in {[pc EXCEPT ![c] = "reading"], [pc EXCEPT ![c] = "done"]}
    BY <1>5 DEF CallPoll, fileVars
  <2>2. /\ pc'[c] \in {"reading", "done"}
        /\ \A d \in Client \ {c} : pc'[d] = pc[d] /\ action'[d] = action[d]
    BY <1>0, <2>1, ClientTypes
  <2>3. CallState(c)' = CallState(c)
    BY <2>1, <2>2, CallValues, CallValuesNext
  <2>4. \A d \in Client : CallState(d)' = CallState(d)
    BY <1>2, <2>2, <2>3
  <2>5. QED
    BY <2>1, <2>4 DEF R!rpcVars
<1>6. CASE CallRead(c)
  <2>1. pc[c] = "reading" /\ pc' = [pc EXCEPT ![c] = "done"] /\ action' = action
    BY <1>6 DEF CallRead
  <2>2. result' = [result EXCEPT ![c] = Rep(c)]
    BY <1>0, <1>6, ReadRInv
  <2>3. pc'[c] = "done" /\ \A d \in Client \ {c} : pc'[d] = pc[d] /\ action'[d] = action[d]
    BY <1>0, <2>1, ClientTypes
  <2>4. CallState(c) = "served" /\ CallState(c)' = "served"
    BY <2>1, <2>3, CallValues, CallValuesNext
  <2>5. \A d \in Client : CallState(d)' = CallState(d)
    BY <1>2, <2>3, <2>4
  <2>6. R!Answer(c)
    BY <2>2, <2>4, <2>5 DEF R!Answer, R!AnswerTo, Rep
  <2>7. QED
    BY <2>6 DEF R!Next
<1>7. CASE CallReturn(c)
  <2>1. /\ pc[c] = "done" /\ pc' = [pc EXCEPT ![c] = "ready"]
        /\ action' = [action EXCEPT ![c] = "NULL"] /\ result' = result
    BY <1>7 DEF CallReturn, SetAction
  <2>2. pc'[c] = "ready" /\ \A d \in Client \ {c} : pc'[d] = pc[d] /\ action'[d] = action[d]
    BY <1>0, <2>1, ClientTypes
  <2>3. CallState(c) = "served" /\ CallState(c)' = "idle"
    BY <2>1, <2>2, CallValues, CallValuesNext
  <2>4. [d \in Client |-> CallState(d)]' = [[d \in Client |-> CallState(d)] EXCEPT ![c] = "idle"]
    BY <1>2, <2>2, <2>3, CallUpdate
  <2>5. R!Return(c)
    BY <2>1, <2>3, <2>4 DEF R!Return
  <2>6. QED
    BY <2>5 DEF R!Next
<1>8. QED
  BY <1>3, <1>4, <1>5, <1>6, <1>7 DEF CallStep, R!Next

\* A step in which no call moves, and nothing is handled that was not.
LEMMA QuietRefines ==
  ASSUME result' = result, \A d \in Client : CallState(d)' = CallState(d)
  PROVE  UNCHANGED R!rpcVars
BY DEF R!rpcVars

\* The queue: a client that connects is still idle.
LEMMA QueueRefines ==
  ASSUME AnyTime = FALSE, RInv, Listen \/ (\E c \in Client : Connect(c)) \/ Accept
  PROVE  UNCHANGED R!rpcVars
<1>1. /\ spc \in {"bound", "accept"} /\ spc' \in {"accept", "check"}
      /\ UNCHANGED <<action, result>>
  BY DEF Listen, Connect, Accept, fileVars, clientVars, serverVars
<1>2. ASSUME NEW d \in Client PROVE CallState(d)' = CallState(d)
  <2>1. ~ Handling(d) /\ ~ Handling(d)'
    BY <1>1 DEF Handling
  <2>2. CASE pc'[d] = pc[d]
    BY <1>1, <2>1, <2>2, CallFrame
  <2>3. CASE pc'[d] # pc[d]
    <3>1. pc[d] = "start" /\ pc'[d] = "ready"
      BY <2>3, ClientTypes DEF Listen, Connect, Accept, clientVars, RInv
    <3>2. QED
      BY <3>1, CallValues, CallValuesNext
  <2>4. QED
    BY <2>2, <2>3
<1>3. QED
  BY <1>1, <1>2, QuietRefines

\* The dispatcher: a call is served when its request is handled.
LEMMA ServerRefines ==
  ASSUME RInv, Base',
         ServerCheck \/ ServerRead \/ ServerHandle \/ ServerWrite \/ ServerAnnounce \/ ServerClear
  PROVE  [R!Next]_(R!rpcVars)
<1>1. UNCHANGED <<pc, kind, result, fd31>>
  BY DEF ServerCheck, ServerRead, ServerHandle, ServerWrite, ServerAnnounce, ServerClear, clientVars
<1>2. CASE ServerCheck \/ ServerRead
  <2>1. action' = action /\ spc \in {"check", "read"} /\ spc' \in {"read", "accept", "handle"}
    BY <1>2 DEF ServerCheck, ServerRead, fileVars
  <2>2. \A d \in Client : ~ Handling(d) /\ ~ Handling(d)'
    BY <2>1 DEF Handling
  <2>3. QED
    BY <1>1, <2>1, <2>2, CallFrame, QuietRefines
<1>3. CASE ServerHandle
  <2>1. PICK f \in Client : f = fd31 /\ msg.of = f /\ pc[f] = "waiting" /\ action[f] = "REQUEST"
    BY <1>3, HandleRInv
  <2>2. /\ spc = "handle" /\ spc' \in {"write", "clear"} /\ msg' = msg /\ action' = action
    BY <1>3 DEF ServerHandle, fileVars
  <2>3. ~ Handling(f) /\ Handling(f)' /\ \A d \in Client \ {f} : ~ Handling(d) /\ ~ Handling(d)'
    BY <2>1, <2>2 DEF Handling
  <2>4. CallState(f) = "asked" /\ CallState(f)' = "served"
    BY <1>1, <2>1, <2>2, <2>3, CallValues, CallValuesNext
  <2>5. \A d \in Client \ {f} : CallState(d)' = CallState(d)
    BY <1>1, <2>2, <2>3, CallFrame
  <2>6. [d \in Client |-> CallState(d)]' = [[d \in Client |-> CallState(d)] EXCEPT ![f] = "served"]
    BY <2>4, <2>5, CallUpdate
  <2>7. R!Serve(f)
    BY <1>1, <2>4, <2>6 DEF R!Serve
  <2>8. QED
    BY <2>7 DEF R!Next
<1>4. CASE ServerWrite
  <2>1. spc' = "announce" /\ spc = "write" /\ UNCHANGED <<msg, action>>
    BY <1>4, ServerWriteRInv DEF ServerWrite
  <2>2. \A d \in Client : Handling(d)' <=> Handling(d)
    BY <2>1 DEF Handling
  <2>3. QED
    BY <1>1, <2>1, <2>2, CallFrame, QuietRefines
<1>5. CASE ServerAnnounce \/ ServerClear
  <2>1. PICK f \in Client : f = fd31
    BY <1>5 DEF ServerAnnounce, ServerClear, RInv, Base, HasFile
  <2>2. /\ msg.of = f /\ pc[f] = "waiting" /\ action'[f] # "REQUEST"
        /\ \A d \in Client \ {f} : action'[d] = action[d]
    BY <1>5, <2>1, EndRInv
  <2>3. spc \in {"announce", "clear"} /\ spc' = "accept"
    BY <1>5 DEF ServerAnnounce, ServerClear
  <2>4. Handling(f) /\ \A d \in Client \ {f} : ~ Handling(d) /\ ~ Handling(d)'
    BY <2>2, <2>3 DEF Handling
  <2>5. CallState(f) = "served" /\ CallState(f)' = "served"
    BY <1>1, <2>2, <2>4, CallValues, CallValuesNext
  <2>6. \A d \in Client \ {f} : CallState(d)' = CallState(d)
    BY <1>1, <2>2, <2>4, CallFrame
  <2>7. QED
    BY <1>1, <2>5, <2>6, QuietRefines
<1>6. QED
  BY <1>2, <1>3, <1>4, <1>5

\* Initially every client is idle and holds no answer.
LEMMA InitRefines == Init => R!Init
<1>1. SUFFICES ASSUME Init PROVE R!Init
  OBVIOUS
<1>2. \A c \in Client : CallState(c) = "idle"
  BY <1>1, CallValues DEF Init
<1>3. QED
  BY <1>1, <1>2 DEF Init, R!Init

\* Every step of the protocol is a step of the abstract calls or leaves them
\* alone.
LEMMA NextRefines == AnyTime = FALSE /\ RInv /\ [Next]_vars => [R!Next]_(R!rpcVars)
<1>1. SUFFICES ASSUME AnyTime = FALSE, RInv, [Next]_vars PROVE [R!Next]_(R!rpcVars)
  OBVIOUS
<1>2. RInv' /\ Base'
  BY <1>1, NextRInv DEF RInv
<1>3. CASE UNCHANGED vars
  <2>1. UNCHANGED <<pc, action, spc, msg, result>>
    BY <1>3 DEF vars, fileVars, clientVars, serverVars
  <2>2. \A d \in Client : CallState(d)' = CallState(d)
    BY <2>1, CallFrame DEF Handling
  <2>3. QED
    BY <2>1, <2>2, QuietRefines
<1>4. QED
  BY <1>1, <1>2, <1>3, QueueRefines, CallRefines, ServerRefines DEF Next, ServerStep

\* The main loop of the display server and the calls of the client library,
\* over one buffer and one action word for each client, implement remote
\* calls: every request is handled once, before its call returns, and the
\* answer a client takes is the answer to its request; for every number of
\* clients, as long as they connect while the server is in accept.
THEOREM SocketsImplementRpc ==
  ASSUME AnyTime = FALSE
  PROVE  Spec => ImplementsRpc
<1>1. Init => R!Init
  BY InitRefines
<1>2. RInv /\ [Next]_vars => [R!Next]_(R!rpcVars)
  BY NextRefines
<1>3. QED
  BY <1>1, <1>2, InitRInv, NextRInv, PTL DEF Spec, ImplementsRpc, R!Spec

-----------------------------------------------------------------------------
(* The places of the queue, when clients connect only while the server is in *)
(* accept.                                                                   *)

\* The places that n clients take, in the order in which connect takes them.
Taken(n) == {i \in Slot : \E k \in 1..n : i = Wrap(k)}

\* The number of clients that have connected says where the tail is and which
\* places are taken, as long as the queue has not overflowed.
Counted ==
  Cardinality(Connected) <= BACKLOG =>
    /\ tail = Wrap(Cardinality(Connected))
    /\ \A i \in Slot : pending[i] # None => i \in Taken(Cardinality(Connected))

PlacesInv ==
  /\ \A i \in Slot : pending[i] # None => pending[i] \in Connected
  /\ spc = "bound" => Connected = {}
  /\ Counted
  /\ OnePlaceEach

\* The clients that have connected can be counted.
LEMMA ConnectedFinite == IsFiniteSet(Connected) /\ Cardinality(Connected) \in Nat
<1>1. Connected \in SUBSET Client
  BY DEF Connected
<1>2. IsFiniteSet(Connected)
  BY <1>1, ClientAssumption, FS_Subset
<1>3. QED
  BY <1>2, FS_CardinalityType

\* The next place is free until the queue has gone round once.
LEMMA NextPlace ==
  ASSUME NEW n \in Nat, n < BACKLOG
  PROVE  /\ Wrap(Wrap(n) + 1) = Wrap(n + 1)
         /\ Wrap(n + 1) \in 0..BACKLOG - 1
         /\ Wrap(n + 1) \notin Taken(n)
         /\ Taken(n) \subseteq Taken(n + 1)
         /\ Wrap(n + 1) \in Taken(n + 1)
<1>1. BACKLOG \in Nat /\ BACKLOG >= 1
  OBVIOUS
<1>2. Wrap(n) = n
  BY <1>1 DEF Wrap
<1>3. Wrap(n + 1) \in 0..BACKLOG - 1 /\ Wrap(n + 1) \in {0, n + 1}
  BY <1>1 DEF Wrap
<1>4. \A k \in 1..n : Wrap(k) = k
  BY <1>1 DEF Wrap
<1>5. Wrap(n + 1) \notin Taken(n)
  BY <1>3, <1>4 DEF Taken
<1>6. Taken(n) \subseteq Taken(n + 1)
  BY DEF Taken
<1>7. Wrap(n + 1) \in Slot /\ n + 1 \in 1..n + 1
  BY <1>1, <1>3 DEF Slot
<1>8. Wrap(n + 1) \in Taken(n + 1)
  BY <1>7 DEF Taken
<1>9. QED
  BY <1>2, <1>3, <1>5, <1>6, <1>8

\* A step that leaves the queue alone, and connects nobody, keeps the places.
LEMMA PlacesKept ==
  ASSUME PlacesInv, UNCHANGED <<pending, tail>>, Connected' = Connected,
         spc' = "bound" => spc = "bound"
  PROVE  PlacesInv'
BY DEF PlacesInv, Counted, OnePlaceEach

\* connect takes the next place, which is free as long as the queue has not
\* overflowed.
LEMMA ConnectPlaces ==
  ASSUME Base, PlacesInv, AnyTime = FALSE, NEW c \in Client, Connect(c)
  PROVE  PlacesInv'
<1>1. /\ pending \in [Slot -> Client \cup {None}] /\ tail \in 0..BACKLOG - 1
      /\ cstate \in [Client -> {"UNCONNECTED", "CONNECTING", "CONNECTED"}]
  BY DEF Base, TypeOK
<1>2. /\ spc = "accept" /\ spc' = spc /\ cstate[c] = "UNCONNECTED"
      /\ cstate' = [cstate EXCEPT ![c] = "CONNECTING"]
      /\ tail' = Wrap(tail + 1)
      /\ pending' = [pending EXCEPT ![tail'] = c]
  BY DEF Connect, serverVars
<1>3. DEFINE n == Cardinality(Connected)
<1>4. c \notin Connected /\ Connected' = Connected \cup {c}
  BY <1>1, <1>2 DEF Connected
<1>5. n \in Nat /\ Cardinality(Connected') = n + 1
  BY <1>4, ConnectedFinite, FS_AddElement
<1>6. tail' \in 0..BACKLOG - 1 /\ tail' \in Slot
  BY <1>1, <1>2 DEF Wrap, Slot
<1>7. pending'[tail'] = c /\ \A i \in Slot \ {tail'} : pending'[i] = pending[i]
  BY <1>1, <1>2, <1>6
<1>8. \A i \in Slot : pending'[i] # None => pending'[i] \in Connected'
  BY <1>4, <1>7 DEF PlacesInv
<1>9. ASSUME n + 1 <= BACKLOG
      PROVE  /\ tail' = Wrap(n + 1) /\ tail' \in Taken(n + 1)
             /\ Taken(n) \subseteq Taken(n + 1)
             /\ pending[tail'] = None
  <2>1. n < BACKLOG /\ n <= BACKLOG
    BY <1>5, <1>9
  <2>2. tail = Wrap(n) /\ \A i \in Slot : pending[i] # None => i \in Taken(n)
    BY <2>1 DEF PlacesInv, Counted
  <2>3. tail' = Wrap(n + 1)
    BY <1>2, <1>5, <2>1, <2>2, NextPlace
  <2>4. QED
    BY <1>5, <1>6, <2>1, <2>2, <2>3, NextPlace
<1>10. Counted'
  <2>1. SUFFICES ASSUME n + 1 <= BACKLOG
                 PROVE  /\ tail' = Wrap(n + 1)
                        /\ \A i \in Slot : pending'[i] # None => i \in Taken(n + 1)
    BY <1>5 DEF Counted
  <2>2. \A i \in Slot : pending[i] # None => i \in Taken(n)
    BY <1>5, <2>1 DEF PlacesInv, Counted
  <2>3. QED
    BY <1>7, <1>9, <2>1, <2>2
<1>11. OnePlaceEach'
  <2>1. SUFFICES ASSUME n + 1 <= BACKLOG, NEW d \in Connected'
                 PROVE  \E i \in 0..BACKLOG - 1 :
                          pending'[i] = d /\ \A j \in Slot \ {i} : pending'[j] # d
    BY <1>5 DEF OnePlaceEach
  <2>2. CASE d = c
    <3>1. \A j \in Slot : pending[j] # c
      BY <1>4 DEF PlacesInv
    <3>2. QED
      BY <1>6, <1>7, <2>2, <3>1
  <2>3. CASE d # c
    <3>1. d \in Connected /\ n <= BACKLOG /\ d # None
      BY <1>4, <1>5, <2>1, <2>3 DEF Connected
    <3>2. PICK i \in 0..BACKLOG - 1 : pending[i] = d /\ \A j \in Slot \ {i} : pending[j] # d
      BY <3>1 DEF PlacesInv, OnePlaceEach
    <3>3. i \in Slot /\ i # tail'
      BY <1>9, <2>1, <3>1, <3>2 DEF Slot
    <3>4. pending'[i] = d /\ \A j \in Slot \ {i} : pending'[j] # d
      BY <1>7, <2>3, <3>2, <3>3
    <3>5. QED
      BY <3>2, <3>4
  <2>4. QED
    BY <2>2, <2>3
<1>12. QED
  BY <1>2, <1>8, <1>10, <1>11 DEF PlacesInv

\* accept connects only clients that have a place.
LEMMA AcceptPlaces == ASSUME Base, PlacesInv, Accept PROVE PlacesInv'
<1>1. UNCHANGED <<pending, tail>> /\ spc = "accept"
  BY DEF Accept
<1>2. /\ pending \in [Slot -> Client \cup {None}] /\ head' \in 0..BACKLOG - 1
      /\ cstate \in [Client -> {"UNCONNECTED", "CONNECTING", "CONNECTED"}]
  BY DEF Base, TypeOK, Accept, Wrap
<1>3. CASE UNCHANGED <<cstate, spc>>
  BY <1>1, <1>3, PlacesKept DEF Connected
<1>4. ASSUME NEW i \in head'..BACKLOG, IsFirst(i, head'), spc' = "check",
             cstate' = [cstate EXCEPT ![pending[i]] = "CONNECTED"]
      PROVE  PlacesInv'
  <2>1. i \in Slot /\ pending[i] # None
    BY <1>2, <1>4 DEF IsFirst, Slot
  <2>2. pending[i] \in Connected
    BY <2>1 DEF PlacesInv
  <2>3. Connected' = Connected
    BY <1>2, <1>4, <2>2 DEF Connected
  <2>4. QED
    BY <1>1, <1>4, <2>3, PlacesKept
<1>5. QED
  BY <1>3, <1>4 DEF Accept

\* Initially, and after listen, nobody has connected and every place is free.
LEMMA EmptyPlaces ==
  ASSUME pending = [i \in Slot |-> None], tail = 0, Connected = {}
  PROVE  PlacesInv
<1>1. Cardinality(Connected) = 0
  BY FS_EmptySet
<1>2. Wrap(0) = 0
  BY DEF Wrap
<1>3. QED
  BY <1>1, <1>2 DEF PlacesInv, Counted, OnePlaceEach

\* Every step keeps the places.
LEMMA NextPlaces ==
  ASSUME AnyTime = FALSE, Base, PlacesInv, [Next]_vars PROVE PlacesInv'
<1>1. CASE Listen
  <2>1. /\ spc = "bound" /\ spc' = "accept" /\ tail' = 0
        /\ pending' = [i \in Slot |-> None] /\ cstate' = cstate
    BY <1>1 DEF Listen
  <2>2. Connected' = {}
    BY <2>1 DEF PlacesInv, Connected
  <2>3. Cardinality(Connected') = 0 /\ Wrap(0) = 0
    BY <2>2, FS_EmptySet DEF Wrap
  <2>4. QED
    BY <2>1, <2>2, <2>3 DEF PlacesInv, Counted, OnePlaceEach
<1>2. CASE \/ ServerCheck \/ ServerRead \/ ServerHandle \/ ServerWrite
           \/ ServerAnnounce \/ ServerClear
  <2>1. UNCHANGED <<pending, tail, cstate>> /\ spc' # "bound"
    BY <1>2 DEF ServerCheck, ServerRead, ServerHandle, ServerWrite, ServerAnnounce,
       ServerClear, backlogVars
  <2>2. QED
    BY <2>1, PlacesKept DEF Connected
<1>3. ASSUME NEW c \in Client, CallStep(c) \/ (\E k \in Kind : CallWrite(c, k))
      PROVE  PlacesInv'
  <2>1. UNCHANGED <<pending, tail, cstate, spc>>
    BY <1>3 DEF CallStep, CallAnnounce, CallPoll, CallRead, CallReturn, CallWrite,
       backlogVars, serverVars
  <2>2. QED
    BY <2>1, PlacesKept DEF Connected
<1>4. CASE UNCHANGED vars
  BY <1>4, PlacesKept DEF Connected, vars, backlogVars, serverVars
<1>5. QED
  BY <1>1, <1>2, <1>3, <1>4, ConnectPlaces, AcceptPlaces DEF Next, ServerStep

\* As long as no more clients have connected than the backlog, connect writes
\* over nobody: everyone who has connected has exactly one place, below the
\* backlog; for every set of clients and every backlog, if clients connect
\* only while the server is in accept.
THEOREM SocketsOnePlaceEach ==
  ASSUME AnyTime = FALSE
  PROVE  Spec => []OnePlaceEach
<1>1. Init => PlacesInv
  BY EmptyPlaces DEF Init, Connected
<1>2. Base /\ PlacesInv /\ [Next]_vars => PlacesInv'
  BY NextPlaces
<1>3. PlacesInv => OnePlaceEach
  BY DEF PlacesInv
<1>4. QED
  BY <1>1, <1>2, <1>3, InitBase, NextBase, PTL DEF Spec
=============================================================================
