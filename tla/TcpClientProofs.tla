--------------------------- MODULE TcpClientProofs ---------------------------
(***************************************************************************)
(* Proofs about TcpClient, for every number of connections and servers,    *)
(* every length of a stream and every size of segment, payload and file.   *)
(***************************************************************************)
EXTENDS TcpClient, TLAPS

-----------------------------------------------------------------------------
(* Helpers *)

\* The smaller and the larger of two numbers.
LEMMA MinMaxTwo ==
  ASSUME NEW a \in Int, NEW b \in Int
  PROVE  /\ Min({a, b}) = IF a <= b THEN a ELSE b
         /\ Max({a, b}) = IF a >= b THEN a ELSE b
<1>1. CASE a <= b
  <2>1. Min({a, b}) = a
    BY <1>1 DEF Min
  <2>2. Max({a, b}) = b
    BY <1>1 DEF Max
  <2>3. QED
    BY <1>1, <2>1, <2>2
<1>2. CASE a > b
  <2>1. Min({a, b}) = b
    BY <1>2 DEF Min
  <2>2. Max({a, b}) = a
    BY <1>2 DEF Max
  <2>3. QED
    BY <1>2, <2>1, <2>2
<1>3. QED
  BY <1>1, <1>2

\* An offset that is moved on, but not past the end.
LEMMA MovedOn ==
  ASSUME NEW a \in Nat, NEW n \in Nat, NEW l \in Nat, a <= l
  PROVE  Min({a + n, l}) \in Nat /\ Min({a + n, l}) <= l /\ a <= Min({a + n, l})
<1>1. a + n \in Int /\ l \in Int
  OBVIOUS
<1>2. Min({a + n, l}) = IF a + n <= l THEN a + n ELSE l
  BY <1>1, MinMaxTwo
<1>3. QED
  BY <1>2

\* The larger of two numbers has their bound.
LEMMA MaxBound ==
  ASSUME NEW k \in Int, NEW a \in 0..k, NEW b \in 0..k
  PROVE  Max({a, b}) \in 0..k
<1>1. a \in Int /\ b \in Int
  OBVIOUS
<1>2. Max({a, b}) = a \/ Max({a, b}) = b
  BY <1>1, MinMaxTwo
<1>3. QED
  BY <1>2

\* The concatenation of two sequences.
LEMMA ConcatFacts ==
  ASSUME NEW T, NEW a \in Seq(T), NEW b \in Seq(T)
  PROVE  a \o b \in Seq(T) /\ Len(a \o b) = Len(a) + Len(b)
OBVIOUS

\* What a server is entitled to send, by its kind.
LEMMA SegmentShape ==
  ASSUME TypeOK, NEW p \in 1..used, NEW g \in Segments(p)
  PROVE  /\ g.port = p /\ p \in Conn
         /\ g.kind \in {"SYNACK", "RST", "DATA"}
         /\ g.seq \in 0..Length + 1 /\ g.len \in Nat /\ g.fin \in BOOLEAN
         /\ g.ack \in 0..MaxWrite + 1
         /\ g.kind # "DATA" => g.seq = 0 /\ g.fin = FALSE
         /\ g.kind = "DATA" => g.seq >= 1 /\ MaySend(p, g.seq, g.len, g.fin, g.ack)
<1>0. /\ p \in Conn /\ Length \in Nat /\ MaxWrite \in Nat /\ Segment \in Nat
  BY BoundsAssumption DEF TypeOK, Conn
<1>1. CASE g = SynAck(p)
  BY <1>0, <1>1 DEF SynAck
<1>2. CASE g = Rst(p)
  BY <1>0, <1>2 DEF Rst
<1>3. CASE g \notin {SynAck(p), Rst(p)}
  <2>1. PICK s \in 1..Length + 1, n \in 0..Segment, f \in BOOLEAN, a \in 1..MaxWrite + 1 :
               g = Data(p, s, n, f, a) /\ MaySend(p, s, n, f, a)
    BY <1>3 DEF Segments
  <2>2. /\ g.port = p /\ g.kind = "DATA" /\ g.seq = s /\ g.len = n /\ g.fin = f /\ g.ack = a
    BY <2>1 DEF Data
  <2>3. MaySend(p, g.seq, g.len, g.fin, g.ack)
    BY <2>1, <2>2
  <2>4. QED
    BY <1>0, <2>2, <2>3
<1>4. QED
  BY <1>1, <1>2, <1>3

\* The handler takes a prefix of the segment.
LEMMA DataLenFacts ==
  ASSUME NEW g, g.len \in Nat
  PROVE  DataLen(g) \in Nat /\ DataLen(g) <= g.len /\ DataLen(g) < Payload
<1>1. Payload \in Nat /\ Payload >= 2
  BY BoundsAssumption
<1>2. QED
  BY <1>1 DEF DataLen

\* The bytes of a segment, numbered within the stream of its server.
LEMMA PayloadType ==
  ASSUME TypeOK, NEW p \in 1..used, NEW g \in Segments(p), g.kind = "DATA"
  PROVE  /\ PayloadOf(g) \in Seq(0..Length) /\ Len(PayloadOf(g)) = DataLen(g)
         /\ g.seq + DataLen(g) <= sent[p] + 1 /\ sent[p] \in 0..Length /\ DataLen(g) \in Nat
<1>0. /\ g.seq >= 1 /\ g.seq \in 0..Length + 1 /\ g.len \in Nat /\ p \in Conn
      /\ MaySend(p, g.seq, g.len, g.fin, g.ack)
  BY SegmentShape
<1>1. g.seq >= 1 /\ g.seq \in Nat /\ g.len \in Nat /\ p \in Conn
  BY <1>0, BoundsAssumption
<1>2. DataLen(g) \in Nat /\ DataLen(g) <= g.len
  BY <1>1, DataLenFacts
<1>3. sent[p] \in 0..Length /\ Length \in Nat
  BY <1>1, BoundsAssumption DEF TypeOK
<1>4. g.seq + g.len <= sent[p] + 1
  BY <1>0 DEF MaySend
<1>5. g.seq + DataLen(g) <= sent[p] + 1
  BY <1>1, <1>2, <1>3, <1>4
<1>6. \A i \in 1..DataLen(g) : g.seq + i - 1 \in 1..Length
  BY <1>1, <1>2, <1>3, <1>5
<1>7. PayloadOf(g) \in [1..DataLen(g) -> 0..Length]
  BY <1>3, <1>6 DEF PayloadOf, strncpy
<1>8. QED
  BY <1>2, <1>3, <1>5, <1>7

\* Each of them is a copy of its byte, or was blanked by a NUL before it.
LEMMA PayloadCopy ==
  ASSUME NEW c \in Conn, NEW g, g.port = c, g.seq \in Nat, g.seq >= 1, g.len \in Nat,
         NEW k \in 1..DataLen(g)
  PROVE  CopyOf(c, g.seq + k - 1, PayloadOf(g)[k])
<1>1. /\ DataLen(g) \in Nat /\ DataLen(g) < Payload /\ Payload \in Nat /\ k \in Nat /\ k >= 1
  BY DataLenFacts, BoundsAssumption
<1>2. CASE \E j \in 1..k : g.seq + j - 1 \in Nul[c]
  <2>1. PICK j \in 1..k : g.seq + j - 1 \in Nul[c]
    BY <1>2
  <2>2. PayloadOf(g)[k] = 0
    BY <1>2 DEF PayloadOf, strncpy
  <2>3. g.seq + j - 1 <= g.seq + k - 1 /\ g.seq + k - 1 < g.seq + j - 1 + Payload - 1
    <3>1. k <= DataLen(g) /\ j >= 1 /\ j <= k /\ j \in Nat
      BY <1>1
    <3>2. QED
      BY <1>1, <3>1
  <2>4. QED
    BY <2>1, <2>2, <2>3 DEF CopyOf
<1>3. CASE ~ \E j \in 1..k : g.seq + j - 1 \in Nul[c]
  <2>1. PayloadOf(g)[k] = g.seq + k - 1
    BY <1>3 DEF PayloadOf, strncpy
  <2>2. g.seq + k - 1 \notin Nul[c]
    BY <1>1, <1>3
  <2>3. g.seq + k - 1 # 0
    BY <1>1
  <2>4. QED
    BY <2>1, <2>2, <2>3 DEF CopyOf
<1>4. QED
  BY <1>2, <1>3

-----------------------------------------------------------------------------
(* Types *)

\* The type invariant needs the length of the file, which bounds the offset.
TInv == TypeOK /\ \A c \in Conn : Len(buf[c]) <= BufSize /\ r[c] <= Len(buf[c])

\* The type invariant holds at the start.
LEMMA InitTInv == Init => TInv
<1>1. SUFFICES ASSUME Init PROVE TInv
  OBVIOUS
<1>2. (CHOOSE s \in Server : TRUE) \in Server
  BY ServerAssumption
<1>3. remote \in [Conn -> Server]
  BY <1>1, <1>2 DEF Init
<1>4. TypeOK
  BY <1>1, <1>3, BoundsAssumption DEF Init, TypeOK, Status, SocketState, Action, ServerState
<1>5. QED
  BY <1>1, <1>4, BoundsAssumption DEF Init, TInv

\* A step that leaves the files alone and keeps the types keeps TInv.
LEMMA FileFrame == ASSUME TInv, TypeOK', UNCHANGED <<buf, r>> PROVE TInv'
BY DEF TInv

\* The services of the application preserve the types.
LEMMA ApplicationTInv == TInv /\ Application => TInv'
<1> SUFFICES ASSUME TInv, Application PROVE TInv'
  OBVIOUS
<1> USE BoundsAssumption
<1>1. ASSUME NEW s \in Server, NEW ok \in BOOLEAN, Connect(s, ok) PROVE TInv'
  <2>1. UNCHANGED <<buf, r>>
    BY <1>1 DEF Connect
  <2>2. used + 1 \in 0..MAX_CONNECTIONS
    BY <1>1 DEF Connect, TInv, TypeOK
  <2>a. used + 1 \in Conn /\ used' = used + 1 /\ remote' = [remote EXCEPT ![used + 1] = s]
    BY <1>1, <2>2 DEF Connect, TInv, TypeOK, Conn
  <2>b. /\ sndUna' = [sndUna EXCEPT ![used + 1] = 0] /\ sndNxt' = [sndNxt EXCEPT ![used + 1] = 1]
        /\ syn' = [syn EXCEPT ![used + 1] = ok]
    BY <1>1 DEF Connect
  <2>c. sndUna' \in [Conn -> 0..MaxWrite + 1] /\ sndNxt' \in [Conn -> 0..MaxWrite + 1]
    <3>1. /\ sndUna \in [Conn -> 0..MaxWrite + 1] /\ sndNxt \in [Conn -> 0..MaxWrite + 1]
          /\ 0 \in 0..MaxWrite + 1 /\ 1 \in 0..MaxWrite + 1
      BY DEF TInv, TypeOK
    <3>2. QED
      BY <2>b, <3>1
  <2>d. status' \in [Conn -> Status] /\ sock' \in [Conn -> SocketState] /\ action' \in [Conn -> Action]
    BY <1>1, <2>a DEF Connect, TInv, TypeOK, Status, SocketState, Action
  <2>e. UNCHANGED <<rcvNxt, buf, r, canRead, canWrite, ackSent, srv, srvRst, sent, srvGot>>
    BY <1>1 DEF Connect, srvVars
  <2>3. TypeOK'
    BY <2>2, <2>a, <2>b, <2>c, <2>d, <2>e DEF TInv, TypeOK
  <2>4. QED
    BY <2>1, <2>3, FileFrame
<1>2. ASSUME NEW c \in Conn, NEW n \in 1..MaxWrite, Write(c, n) PROVE TInv'
  <2>1. UNCHANGED <<buf, r>>
    BY <1>2 DEF Write, fileVars
  <2>2. /\ sndNxt[c] + n \in 0..MaxWrite + 1 /\ ackSent[c] \in 0..Length + 2
        /\ rcvNxt[c] \in 0..Length + 2
    BY <1>2 DEF Write, TInv, TypeOK
  <2>3. Max({ackSent[c], rcvNxt[c]}) \in 0..Length + 2
    <3>1. ackSent[c] \in Int /\ rcvNxt[c] \in Int
      BY <2>2
    <3>2. QED
      BY <2>2, <3>1, MinMaxTwo
  <2>4. TypeOK'
    BY <1>2, <2>2, <2>3 DEF Write, TInv, TypeOK, fileVars, srvVars
  <2>5. QED
    BY <2>1, <2>4, FileFrame
<1>3. ASSUME NEW c \in Conn, NEW n \in 1..BufSize, Read(c, n) PROVE TInv'
  <2>1. /\ r[c] \in Nat /\ Len(buf[c]) \in Nat /\ Len(buf[c]) <= BufSize /\ r[c] <= Len(buf[c])
        /\ r \in [Conn -> 0..BufSize] /\ n \in Nat
    BY DEF TInv, TypeOK
  <2>2. PICK m \in Nat : m = Min({r[c] + n, Len(buf[c])}) /\ m <= Len(buf[c])
    BY <2>1, MovedOn
  <2>3. r' = [r EXCEPT ![c] = m] /\ buf' = buf
    BY <1>3, <2>2 DEF Read
  <2>4. r' \in [Conn -> 0..BufSize]
    BY <2>1, <2>2, <2>3
  <2>a. canRead' = [canRead EXCEPT ![c] = r'[c] < Len(buf[c])]
    BY <1>3 DEF Read
  <2>b. (r'[c] < Len(buf[c])) \in BOOLEAN
    OBVIOUS
  <2>c. canRead' \in [Conn -> BOOLEAN]
    BY <2>a, <2>b DEF TInv, TypeOK
  <2>d. UNCHANGED <<used, remote, status, sock, sndUna, sndNxt, rcvNxt, buf, canWrite, action, srv,
                    srvRst, sent, srvGot, syn, ackSent>>
    BY <1>3 DEF Read, connVars, srvVars, outVars
  <2>5. TypeOK'
    BY <2>4, <2>c, <2>d DEF TInv, TypeOK
  <2>6. QED
    BY <2>1, <2>2, <2>3, <2>5 DEF TInv
<1>4. ASSUME NEW c \in Conn, Close(c) PROVE TInv'
  <2>1. UNCHANGED <<buf, r>>
    BY <1>4 DEF Close, fileVars
  <2>2. TypeOK'
    BY <1>4 DEF Close, TInv, TypeOK, fileVars, srvVars, outVars, Status, SocketState
  <2>3. QED
    BY <2>1, <2>2, FileFrame
<1>5. QED
  BY <1>1, <1>2, <1>3, <1>4 DEF Application

\* A conforming server stays within its numbers.
LEMMA PeerTInv == TInv /\ Peer => TInv'
<1> SUFFICES ASSUME TInv, Peer PROVE TInv'
  OBVIOUS
<1> USE BoundsAssumption
<1>1. PICK p \in 1..used : \/ SrvSyn(p) \/ SrvAck(p) \/ SrvGet(p) \/ SrvReset(p)
                           \/ \E n \in 0..Length, f \in BOOLEAN : SrvSend(p, n, f)
  BY DEF Peer
<1>2. p \in Conn
  BY DEF TInv, TypeOK, Conn
<1>3. UNCHANGED <<connVars, fileVars, outVars>>
  BY <1>1 DEF SrvSyn, SrvAck, SrvGet, SrvReset, SrvSend
<1>4. UNCHANGED <<used, remote, status, sock, sndUna, sndNxt, rcvNxt, buf, r, canRead, canWrite,
                  action, syn, ackSent>>
  BY <1>3 DEF connVars, fileVars, outVars
<1>5. srv' \in [Conn -> ServerState] /\ srvRst' \in [Conn -> BOOLEAN]
  BY <1>1, <1>2 DEF SrvSyn, SrvAck, SrvGet, SrvReset, SrvSend, TInv, TypeOK, ServerState
<1>6. sent' \in [Conn -> 0..Length]
  <2>1. sent \in [Conn -> 0..Length]
    BY DEF TInv, TypeOK
  <2>2. sent' = sent \/ \E n \in 0..Length : sent[p] + n <= Length /\ sent' = [sent EXCEPT ![p] = @ + n]
    BY <1>1 DEF SrvSyn, SrvAck, SrvGet, SrvReset, SrvSend
  <2>3. QED
    BY <1>2, <2>1, <2>2
<1>7. srvGot' \in [Conn -> 0..MaxWrite]
  <2>1. srvGot \in [Conn -> 0..MaxWrite] /\ sndNxt[p] \in 0..MaxWrite + 1
    BY <1>2 DEF TInv, TypeOK
  <2>2. \/ srvGot' = srvGot
        \/ srvGot[p] + 1 < sndNxt[p] /\ srvGot' = [srvGot EXCEPT ![p] = @ + 1]
    <3>1. CASE SrvGet(p)
      BY <3>1 DEF SrvGet
    <3>2. CASE ~ SrvGet(p)
      BY <1>1, <3>2 DEF SrvSyn, SrvAck, SrvReset, SrvSend
    <3>3. QED
      BY <3>1, <3>2
  <2>3. QED
    BY <1>2, <2>1, <2>2
<1>8. TypeOK'
  BY <1>4, <1>5, <1>6, <1>7 DEF TInv, TypeOK
<1>9. QED
  BY <1>4, <1>8, FileFrame

\* A segment and the connection that handles it.
Arrives(p, c, g) == p \in 1..used /\ c \in Conn /\ g \in Segments(p) /\ Found(c, g)

\* The acknowledgement of the handler is in the range of its type.
LEMMA AckType ==
  ASSUME TypeOK, NEW p \in Conn, NEW a \in 0..Length + 2, NEW ok \in BOOLEAN,
         ackSent' = [ackSent EXCEPT ![p] = IF ok THEN Max({@, a}) ELSE @]
  PROVE  ackSent' \in [Conn -> 0..Length + 2]
<1>1. ackSent \in [Conn -> 0..Length + 2] /\ Length \in Nat
  BY BoundsAssumption DEF TypeOK
<1>2. ackSent[p] \in 0..Length + 2 /\ Length + 2 \in Int
  BY <1>1
<1>3. Max({ackSent[p], a}) \in 0..Length + 2
  BY <1>2, MaxBound
<1>4. QED
  BY <1>1, <1>3

\* What a segment of data does to the numbers and the file of its connection.
LEMMA RecvDataNumbers ==
  ASSUME TInv, NEW p, NEW c, NEW g, NEW ok \in BOOLEAN, Arrives(p, c, g), RecvData(c, g, ok)
  PROVE  /\ rcvNxt' \in [Conn -> 0..Length + 2]
         /\ buf' \in [Conn -> Seq(0..Length)]
         /\ r' \in [Conn -> 0..BufSize]
         /\ \A d \in Conn : Len(buf'[d]) <= BufSize /\ r'[d] <= Len(buf'[d])
<1>0. /\ c \in Conn /\ p \in 1..used /\ g \in Segments(p) /\ g.kind = "DATA" /\ TypeOK
  BY DEF Arrives, RecvData, TInv
<1>1. /\ PayloadOf(g) \in Seq(0..Length) /\ Len(PayloadOf(g)) = DataLen(g) /\ DataLen(g) \in Nat
      /\ g.seq + DataLen(g) <= sent[p] + 1 /\ sent[p] \in 0..Length
  BY <1>0, PayloadType
<1>2. /\ g.seq \in Nat /\ g.fin \in BOOLEAN /\ Length \in Nat /\ BufSize \in Nat
  <2>1. g.seq \in 0..Length + 1 /\ g.fin \in BOOLEAN
    BY <1>0, SegmentShape
  <2>2. QED
    BY <2>1, BoundsAssumption
<1>3. /\ rcvNxt \in [Conn -> 0..Length + 2] /\ buf \in [Conn -> Seq(0..Length)]
      /\ r \in [Conn -> 0..BufSize]
      /\ \A d \in Conn : Len(buf[d]) <= BufSize /\ r[d] <= Len(buf[d])
  BY DEF TInv, TypeOK
<1>4. rcvNxt' \in [Conn -> 0..Length + 2]
  <2>1. rcvNxt' = Advanced(c, g)
    BY DEF RecvData
  <2>2. CASE g.seq = rcvNxt[c]
    <3>1. PICK k \in {0, 1} : rcvNxt' = [rcvNxt EXCEPT ![c] = @ + DataLen(g) + k]
      BY <2>1, <2>2 DEF Advanced
    <3>2. rcvNxt[c] + DataLen(g) + k \in 0..Length + 2
      BY <1>1, <1>2, <2>2
    <3>3. QED
      BY <1>3, <3>1, <3>2
  <2>3. CASE g.seq # rcvNxt[c]
    BY <1>3, <2>1, <2>3 DEF Advanced
  <2>4. QED
    BY <2>2, <2>3
<1>5. \/ buf' = buf
      \/ /\ buf' = [buf EXCEPT ![c] = @ \o PayloadOf(g)]
         /\ Len(buf[c]) + DataLen(g) <= BufSize
  BY DEF RecvData, Stored, Fits
<1>6. r' = r \/ r' = [r EXCEPT ![c] = 0]
  BY DEF RecvData, Told
<1>7. buf[c] \o PayloadOf(g) \in Seq(0..Length) /\ Len(buf[c] \o PayloadOf(g)) = Len(buf[c]) + DataLen(g)
  <2>1. buf[c] \in Seq(0..Length)
    BY <1>0, <1>3
  <2>2. QED
    BY <1>1, <2>1, ConcatFacts
<1>8. buf' \in [Conn -> Seq(0..Length)] /\ r' \in [Conn -> 0..BufSize]
  <2>1. PICK b \in Seq(0..Length) : b = buf[c] \o PayloadOf(g)
    BY <1>7
  <2>2. buf' \in [Conn -> Seq(0..Length)]
    BY <1>3, <1>5, <2>1
  <2>3. r' \in [Conn -> 0..BufSize]
    <3>1. 0 \in 0..BufSize
      BY <1>2
    <3>2. QED
      BY <1>3, <1>6, <3>1
  <2>4. QED
    BY <2>2, <2>3
<1>9. ASSUME NEW d \in Conn PROVE Len(buf'[d]) <= BufSize /\ r'[d] <= Len(buf'[d])
  <2>1. /\ Len(buf[d]) \in Nat /\ r[d] \in Nat /\ r[d] <= Len(buf[d]) /\ Len(buf[d]) <= BufSize
    BY <1>3
  <2>2. CASE buf'[d] = buf[d]
    <3>1. r'[d] = r[d] \/ r'[d] = 0
      BY <1>3, <1>6
    <3>2. QED
      BY <2>1, <2>2, <3>1
  <2>3. CASE buf'[d] # buf[d]
    <3>1. d = c /\ Len(buf'[d]) = Len(buf[c]) + DataLen(g) /\ Len(buf[c]) + DataLen(g) <= BufSize
      BY <1>0, <1>3, <1>5, <1>7, <2>3
    <3>2. r'[d] = r[d] \/ r'[d] = 0
      BY <1>0, <1>3, <1>6
    <3>3. QED
      BY <1>1, <2>1, <3>1, <3>2
  <2>4. QED
    BY <2>2, <2>3
<1>10. QED
  BY <1>4, <1>8, <1>9

\* A segment that arrives preserves the types, whichever it is and whichever
\* connection is found for it.
LEMMA NetworkTInv == TInv /\ Network => TInv'
<1> SUFFICES ASSUME TInv, Network PROVE TInv'
  OBVIOUS
<1> USE BoundsAssumption
<1>1. PICK p \in 1..used : \E h \in Segments(p), ok \in BOOLEAN : Receive(h, ok)
  BY DEF Network
<1>2. PICK g \in Segments(p), ok \in BOOLEAN : Receive(g, ok)
  BY <1>1
<1>3. PICK c \in Conn : /\ Found(c, g)
                        /\ \/ RecvClosed(c, g, ok) \/ RecvRst(c, g)
                           \/ RecvSynAck(c, g, ok) \/ RecvData(c, g, ok)
  BY <1>2 DEF Receive
<1>4. TypeOK
  BY DEF TInv
<1>5. /\ g.port = p /\ p \in Conn /\ g.ack \in 0..MaxWrite + 1 /\ g.fin \in BOOLEAN
      /\ g.kind # "DATA" => g.seq = 0
  BY <1>4, SegmentShape
<1>6. CASE RecvClosed(c, g, ok)
  <2>1. TypeOK' /\ UNCHANGED <<buf, r>>
    BY <1>4, <1>6 DEF RecvClosed, TypeOK, fileVars, srvVars, outVars, SocketState
  <2>2. QED
    BY <2>1, FileFrame
<1>7. CASE RecvRst(c, g)
  <2>1. TypeOK' /\ UNCHANGED <<buf, r>>
    BY <1>4, <1>7 DEF RecvRst, TypeOK, fileVars, srvVars, outVars, Status
  <2>2. QED
    BY <2>1, FileFrame
<1>8. CASE RecvSynAck(c, g, ok)
  <2>1. UNCHANGED <<used, remote, buf, r, canRead, srv, srvRst, sent, srvGot, syn>>
    BY <1>8 DEF RecvSynAck, srvVars
  <2>2. /\ g.seq = 0 /\ status' = [status EXCEPT ![c] = "ESTABLISHED"]
        /\ sock' = [sock EXCEPT ![c] = "CONNECTED"] /\ sndUna' = [sndUna EXCEPT ![c] = 1]
        /\ sndNxt' = [sndNxt EXCEPT ![c] = 1] /\ rcvNxt' = [rcvNxt EXCEPT ![c] = g.seq + 1]
        /\ canWrite' = [canWrite EXCEPT ![c] = TRUE] /\ action' = [action EXCEPT ![c] = "NULL"]
        /\ ackSent' = [ackSent EXCEPT ![p] = IF ok THEN Max({@, g.seq + 1}) ELSE @]
    BY <1>5, <1>8 DEF RecvSynAck
  <2>3. 1 \in 0..MaxWrite + 1 /\ g.seq + 1 \in 0..Length + 2
    BY <2>2
  <2>4. ackSent' \in [Conn -> 0..Length + 2]
    BY <1>4, <1>5, <2>2, <2>3, AckType
  <2>5. /\ sndUna' \in [Conn -> 0..MaxWrite + 1] /\ sndNxt' \in [Conn -> 0..MaxWrite + 1]
        /\ rcvNxt' \in [Conn -> 0..Length + 2]
    BY <1>4, <2>2, <2>3 DEF TypeOK
  <2>6. /\ status' \in [Conn -> Status] /\ sock' \in [Conn -> SocketState]
        /\ canWrite' \in [Conn -> BOOLEAN] /\ action' \in [Conn -> Action]
    BY <1>4, <2>2 DEF TypeOK, Status, SocketState, Action
  <2>7. TypeOK'
    BY <1>4, <2>1, <2>4, <2>5, <2>6 DEF TypeOK
  <2>8. QED
    BY <2>1, <2>7, FileFrame
<1>9. CASE RecvData(c, g, ok)
  <2>1. Arrives(p, c, g)
    BY <1>3 DEF Arrives
  <2>2. /\ rcvNxt' \in [Conn -> 0..Length + 2] /\ buf' \in [Conn -> Seq(0..Length)]
        /\ r' \in [Conn -> 0..BufSize]
        /\ \A d \in Conn : Len(buf'[d]) <= BufSize /\ r'[d] <= Len(buf'[d])
    BY <1>9, <2>1, RecvDataNumbers
  <2>3. PICK a \in 0..Length + 2 : a = rcvNxt'[c]
    BY <2>2
  <2>4. ackSent' = [ackSent EXCEPT ![p] = IF ok THEN Max({@, a}) ELSE @]
    BY <1>5, <1>9, <2>3 DEF RecvData, Acknowledged
  <2>5. ackSent' \in [Conn -> 0..Length + 2]
    BY <1>4, <1>5, <2>4, AckType
  <2>6. sndUna' \in [Conn -> 0..MaxWrite + 1]
    BY <1>4, <1>5, <1>9 DEF RecvData, TypeOK
  <2>7. status' \in [Conn -> Status] /\ sock' \in [Conn -> SocketState]
    BY <1>4, <1>9 DEF RecvData, Acknowledged, TypeOK, Status, SocketState
  <2>8. canWrite' \in [Conn -> BOOLEAN]
    BY <1>4, <1>9 DEF RecvData, Stored, TypeOK
  <2>9. canRead' \in [Conn -> BOOLEAN] /\ action' \in [Conn -> Action]
    BY <1>4, <1>9 DEF RecvData, Told, TypeOK, Action
  <2>10. UNCHANGED <<used, remote, sndNxt, srv, srvRst, sent, srvGot, syn>>
    BY <1>9 DEF RecvData, srvVars
  <2>11. TypeOK'
    BY <1>4, <2>2, <2>5, <2>6, <2>7, <2>8, <2>9, <2>10 DEF TypeOK
  <2>12. QED
    BY <2>2, <2>11 DEF TInv
<1>10. QED
  BY <1>3, <1>6, <1>7, <1>8, <1>9

\* Every step preserves the types.
LEMMA NextTInv == TInv /\ [Next]_vars => TInv'
<1>1. SUFFICES ASSUME TInv, [Next]_vars PROVE TInv'
  OBVIOUS
<1>2. CASE UNCHANGED vars
  BY <1>1, <1>2 DEF TInv, TypeOK, vars, connVars, fileVars, srvVars, outVars
<1>3. QED
  BY <1>1, <1>2, ApplicationTInv, NetworkTInv, PeerTInv DEF Next

\* The numbers of a connection stay within what was really sent, and the
\* offset of the file within its data, over a network that loses, duplicates
\* and reorders, also when a segment is handed to the wrong connection.
THEOREM TcpTypeOK == Spec => []TypeOK
<1>1. TInv => TypeOK
  BY DEF TInv
<1>2. QED
  BY <1>1, InitTInv, NextTInv, PTL DEF Spec

-----------------------------------------------------------------------------
(* One connection for each server *)

\* What is true of the connection c by itself.
ConnInv(c) ==
  /\ c > used => status[c] = "NONE" /\ srvGot[c] = 0
  /\ c <= used => status[c] # "NONE" /\ srvGot[c] + 1 <= sndNxt[c]
  /\ status[c] \in {"NONE", "SYN_SENT"} => rcvNxt[c] = 0
  /\ status[c] = "SYN_SENT" => sndNxt[c] = 1
  /\ status[c] = "ESTABLISHED" => rcvNxt[c] >= 1
  /\ status[c] \in {"NONE", "SYN_SENT", "ESTABLISHED"} => r[c] = 0
  /\ sndUna[c] <= sndNxt[c]
  /\ Len(buf[c]) <= sent[c]
  /\ Len(buf[c]) = 0 \/ Len(buf[c]) + 1 <= rcvNxt[c]

\* Every connection has a server of its own.
Distinct == \A c, d \in 1..used : remote[c] = remote[d] => c = d

CInv == TInv /\ Distinct /\ \A c \in Conn : ConnInv(c)

\* The numbers of a connection are numbers.
LEMMA ConnTypes ==
  ASSUME TInv, NEW d \in Conn
  PROVE  /\ d \in Nat /\ used \in Nat /\ srvGot[d] \in Nat /\ sndNxt[d] \in Nat /\ rcvNxt[d] \in Nat
         /\ r[d] \in Nat /\ sndUna[d] \in Nat /\ Len(buf[d]) \in Nat /\ sent[d] \in Nat
<1>1. /\ buf[d] \in Seq(0..Length) /\ MAX_CONNECTIONS \in Nat
  BY BoundsAssumption DEF TInv, TypeOK
<1>2. QED
  BY <1>1, BoundsAssumption DEF TInv, TypeOK, Conn

\* A slot that is taken is a slot.
LEMMA InConn == ASSUME TInv, NEW p \in 1..used PROVE p \in Conn
<1>1. used \in 0..MAX_CONNECTIONS /\ MAX_CONNECTIONS \in Nat
  BY BoundsAssumption DEF TInv, TypeOK
<1>2. QED
  BY <1>1 DEF Conn

\* A step that leaves the variables of a connection alone keeps its invariant.
LEMMA ConnFrame ==
  ASSUME NEW d \in Conn, ConnInv(d), used' = used,
         status'[d] = status[d], srvGot'[d] = srvGot[d], sndNxt'[d] = sndNxt[d],
         rcvNxt'[d] = rcvNxt[d], r'[d] = r[d], sndUna'[d] = sndUna[d], buf'[d] = buf[d],
         sent'[d] = sent[d]
  PROVE  ConnInv(d)'
BY DEF ConnInv

\* With one connection for each server, a segment is handled by the
\* connection it was sent to.
LEMMA FoundOwn ==
  ASSUME CInv, NEW p \in 1..used, NEW g \in Segments(p), NEW c \in Conn, Found(c, g)
  PROVE  c = p
<1>1. g.port = p
  BY SegmentShape DEF CInv, TInv
<1>2. CASE g.kind = "SYNACK"
  BY <1>1, <1>2 DEF Found
<1>3. CASE g.kind # "SYNACK"
  BY <1>1, <1>3 DEF Found, CInv, Distinct
<1>4. QED
  BY <1>2, <1>3

\* The invariant holds at the start.
LEMMA InitCInv == Init => CInv
<1>1. SUFFICES ASSUME Init PROVE CInv
  OBVIOUS
<1>2. TInv
  BY <1>1, InitTInv
<1>3. Distinct
  BY <1>1 DEF Init, Distinct
<1>4. ASSUME NEW c \in Conn PROVE ConnInv(c)
  <2>1. /\ c > used /\ ~ (c <= used)
    BY <1>1, BoundsAssumption DEF Init, Conn
  <2>2. /\ status[c] = "NONE" /\ srvGot[c] = 0 /\ sndNxt[c] = 0 /\ sndUna[c] = 0 /\ rcvNxt[c] = 0
        /\ r[c] = 0 /\ buf[c] = <<>> /\ sent[c] = 0
    BY <1>1 DEF Init
  <2>3. QED
    BY <2>1, <2>2 DEF ConnInv
<1>5. QED
  BY <1>2, <1>3, <1>4 DEF CInv

\* A connection that is opened is the first with its server.
LEMMA ConnectCInv ==
  ASSUME Reconnect = FALSE, CInv, TInv', NEW s \in Server, NEW ok \in BOOLEAN, Connect(s, ok)
  PROVE  CInv'
<1>1. /\ TInv /\ Distinct /\ \A d \in Conn : ConnInv(d)
  BY DEF CInv
<1>2. /\ used \in 0..MAX_CONNECTIONS /\ used < MAX_CONNECTIONS /\ MAX_CONNECTIONS \in Nat
      /\ remote \in [Conn -> Server] /\ status \in [Conn -> Status]
      /\ sndUna \in [Conn -> 0..MaxWrite + 1] /\ sndNxt \in [Conn -> 0..MaxWrite + 1]
  BY <1>1, BoundsAssumption DEF Connect, TInv, TypeOK
<1>3. PICK c \in Conn : c = used + 1
  BY <1>2 DEF Conn
<1>4. /\ used' = c /\ remote' = [remote EXCEPT ![c] = s] /\ s \notin {remote[d] : d \in 1..used}
      /\ sndUna' = [sndUna EXCEPT ![c] = 0] /\ sndNxt' = [sndNxt EXCEPT ![c] = 1]
      /\ status' = [status EXCEPT ![c] = IF ok THEN "SYN_SENT" ELSE "CLOSED"]
      /\ UNCHANGED <<rcvNxt, buf, r, sent, srvGot>>
  BY <1>3 DEF Connect, srvVars
<1>5. Distinct'
  <2>1. SUFFICES ASSUME NEW a \in 1..c, NEW b \in 1..c, remote'[a] = remote'[b] PROVE a = b
    BY <1>4 DEF Distinct
  <2>2. a \in Conn /\ b \in Conn /\ (a = c \/ a \in 1..used) /\ (b = c \/ b \in 1..used)
    BY <1>2, <1>3 DEF Conn
  <2>3. \A d \in Conn \ {c} : remote'[d] = remote[d]
    BY <1>2, <1>4
  <2>4. remote'[c] = s /\ \A d \in 1..used : remote[d] # s
    BY <1>2, <1>4
  <2>5. QED
    BY <1>1, <2>1, <2>2, <2>3, <2>4 DEF Distinct
<1>6. ASSUME NEW d \in Conn PROVE ConnInv(d)'
  <2>1. ConnInv(d)
    BY <1>1
  <2>2. /\ d \in Nat /\ used \in Nat /\ srvGot[d] \in Nat /\ Len(buf[d]) \in Nat /\ rcvNxt[d] \in Nat
    BY <1>1, ConnTypes
  <2>3. CASE d = c
    <3>1. /\ status'[d] \in {"SYN_SENT", "CLOSED"} /\ sndUna'[d] = 0 /\ sndNxt'[d] = 1
      BY <1>2, <1>4, <2>3
    <3>2. /\ rcvNxt[d] = 0 /\ r[d] = 0 /\ srvGot[d] = 0
      BY <1>3, <2>1, <2>2, <2>3 DEF ConnInv
    <3>3. QED
      BY <1>4, <2>1, <2>2, <2>3, <3>1, <3>2 DEF ConnInv
  <2>4. CASE d # c
    <3>1. status'[d] = status[d] /\ sndUna'[d] = sndUna[d] /\ sndNxt'[d] = sndNxt[d]
      BY <1>2, <1>4, <2>4
    <3>2. (d > used' <=> d > used) /\ (d <= used' <=> d <= used)
      BY <1>3, <1>4, <2>2, <2>4
    <3>3. QED
      BY <1>4, <2>1, <3>1, <3>2 DEF ConnInv
  <2>5. QED
    BY <2>3, <2>4
<1>7. QED
  BY <1>5, <1>6 DEF CInv

\* The other services of the application.
LEMMA ServiceCInv ==
  ASSUME CInv, TInv', NEW c \in Conn,
         (\E n \in 1..MaxWrite : Write(c, n)) \/ (\E n \in 1..BufSize : Read(c, n)) \/ Close(c)
  PROVE  CInv'
<1>1. /\ TInv /\ Distinct /\ \A d \in Conn : ConnInv(d)
  BY DEF CInv
<1>2. UNCHANGED <<used, remote, srvGot, rcvNxt, sndUna, buf, sent>>
  BY DEF Write, Read, Close, connVars, fileVars, srvVars
<1>3. Distinct'
  BY <1>1, <1>2 DEF Distinct
<1>4. /\ sndNxt \in [Conn -> 0..MaxWrite + 1] /\ status \in [Conn -> Status]
      /\ r \in [Conn -> 0..BufSize]
  BY <1>1 DEF TInv, TypeOK
<1>5. /\ \A d \in Conn \ {c} : status'[d] = status[d] /\ r'[d] = r[d] /\ sndNxt'[d] = sndNxt[d]
  BY <1>4 DEF Write, Read, Close, connVars, fileVars
<1>6. ConnInv(c) /\ c \in Nat /\ used \in Nat /\ srvGot[c] \in Nat /\ sndNxt[c] \in Nat /\ sndUna[c] \in Nat
  BY <1>1, ConnTypes
<1>7. ConnInv(c)'
  <2>1. ASSUME NEW n \in 1..MaxWrite, Write(c, n) PROVE ConnInv(c)'
    <3>1. /\ status[c] = "ESTABLISHED" /\ UNCHANGED <<status, r>>
          /\ sndNxt' = [sndNxt EXCEPT ![c] = @ + n]
      BY <2>1 DEF Write, fileVars
    <3>2. sndNxt'[c] >= sndNxt[c] /\ sndNxt'[c] \in Nat /\ n \in Nat
      BY <1>4, <1>6, <3>1, BoundsAssumption
    <3>3. srvGot[c] + 1 <= sndNxt[c] => srvGot[c] + 1 <= sndNxt'[c]
      BY <1>6, <3>2
    <3>4. sndUna[c] <= sndNxt[c] => sndUna[c] <= sndNxt'[c]
      BY <1>6, <3>2
    <3>5. QED
      BY <1>2, <1>6, <3>1, <3>3, <3>4 DEF ConnInv
  <2>2. ASSUME NEW n \in 1..BufSize, Read(c, n) PROVE ConnInv(c)'
    <3>1. status[c] = "CLOSE_WAIT" /\ UNCHANGED <<status, sndNxt>>
      BY <2>2 DEF Read, connVars
    <3>2. QED
      BY <1>2, <1>6, <3>1 DEF ConnInv
  <2>3. ASSUME Close(c) PROVE ConnInv(c)'
    <3>1. status'[c] = "CLOSED" /\ status[c] # "NONE" /\ UNCHANGED <<r, sndNxt>>
      BY <1>4, <2>3 DEF Close, fileVars
    <3>2. QED
      BY <1>2, <1>6, <3>1 DEF ConnInv
  <2>4. QED
    BY <2>1, <2>2, <2>3
<1>8. \A d \in Conn \ {c} : ConnInv(d)'
  BY <1>1, <1>2, <1>5, ConnFrame
<1>9. QED
  BY <1>3, <1>7, <1>8 DEF CInv

\* A conforming server gets what was sent to it, and no more.
LEMMA PeerCInv == ASSUME CInv, TInv', Peer PROVE CInv'
<1>1. /\ TInv /\ Distinct /\ \A d \in Conn : ConnInv(d)
  BY DEF CInv
<1>2. PICK p \in 1..used : \/ SrvSyn(p) \/ SrvAck(p) \/ SrvGet(p) \/ SrvReset(p)
                           \/ \E n \in 0..Length, f \in BOOLEAN : SrvSend(p, n, f)
  BY DEF Peer
<1>3. p \in Conn
  BY <1>1, InConn
<1>4. UNCHANGED <<connVars, fileVars>>
  BY <1>2 DEF SrvSyn, SrvAck, SrvGet, SrvReset, SrvSend
<1>5. UNCHANGED <<used, remote, status, sndUna, sndNxt, rcvNxt, buf, r>>
  BY <1>4 DEF connVars, fileVars
<1>6. Distinct'
  BY <1>1, <1>5 DEF Distinct
<1>7. /\ sent \in [Conn -> 0..Length] /\ srvGot \in [Conn -> 0..MaxWrite]
  BY <1>1 DEF TInv, TypeOK
<1>8. /\ ConnInv(p) /\ p \in Nat /\ used \in Nat /\ p <= used
      /\ srvGot[p] \in Nat /\ sent[p] \in Nat /\ Len(buf[p]) \in Nat /\ sndNxt[p] \in Nat
  BY <1>1, <1>3, ConnTypes
<1>9. CASE SrvGet(p)
  <2>1. srvGot[p] + 1 < sndNxt[p] /\ srvGot' = [srvGot EXCEPT ![p] = @ + 1] /\ sent' = sent
    BY <1>9 DEF SrvGet
  <2>2. srvGot'[p] = srvGot[p] + 1 /\ \A d \in Conn \ {p} : srvGot'[d] = srvGot[d]
    BY <1>3, <1>7, <2>1
  <2>3. srvGot'[p] + 1 <= sndNxt[p]
    BY <1>8, <2>1, <2>2
  <2>4. ConnInv(p)'
    BY <1>5, <1>8, <2>1, <2>3 DEF ConnInv
  <2>5. \A d \in Conn \ {p} : ConnInv(d)'
    BY <1>1, <1>5, <2>1, <2>2, ConnFrame
  <2>6. QED
    BY <1>6, <2>4, <2>5 DEF CInv
<1>10. ASSUME NEW n \in 0..Length, NEW f \in BOOLEAN, SrvSend(p, n, f) PROVE CInv'
  <2>1. sent' = [sent EXCEPT ![p] = @ + n] /\ srvGot' = srvGot
    BY <1>10 DEF SrvSend
  <2>2. sent'[p] = sent[p] + n /\ \A d \in Conn \ {p} : sent'[d] = sent[d]
    BY <1>3, <1>7, <2>1
  <2>3. Len(buf[p]) <= sent[p] => Len(buf[p]) <= sent'[p]
    BY <1>8, <2>2, BoundsAssumption
  <2>4. ConnInv(p)'
    BY <1>5, <1>8, <2>1, <2>3 DEF ConnInv
  <2>5. \A d \in Conn \ {p} : ConnInv(d)'
    BY <1>1, <1>5, <2>1, <2>2, ConnFrame
  <2>6. QED
    BY <1>6, <2>4, <2>5 DEF CInv
<1>11. CASE SrvSyn(p) \/ SrvAck(p) \/ SrvReset(p)
  <2>1. UNCHANGED <<sent, srvGot>>
    BY <1>11 DEF SrvSyn, SrvAck, SrvReset
  <2>2. QED
    BY <1>1, <1>5, <1>6, <2>1, ConnFrame DEF CInv
<1>12. QED
  BY <1>2, <1>9, <1>10, <1>11

\* A segment of data, seen from the connection it was sent to: what it does
\* to the number that is expected next, to the file and to the status.
LEMMA RecvDataSteps ==
  ASSUME CInv, NEW c \in 1..used, NEW g \in Segments(c), NEW ok \in BOOLEAN, RecvData(c, g, ok)
  PROVE  /\ c \in Conn /\ status[c] = "ESTABLISHED" /\ rcvNxt[c] >= 1 /\ r[c] = 0 /\ r' = r
         /\ DataLen(g) \in Nat /\ g.fin \in BOOLEAN
         /\ g.fin => srv[c] = "FIN_SENT"
         /\ status' = [status EXCEPT ![c] = IF ok /\ g.fin THEN "CLOSE_WAIT" ELSE @]
         /\ sndUna' = [sndUna EXCEPT ![c] = g.ack] /\ g.ack <= srvGot[c] + 1 /\ g.ack \in Nat
         /\ UNCHANGED <<used, remote, sndNxt, srv, srvGot, sent>>
         /\ g.seq # rcvNxt[c] => UNCHANGED <<rcvNxt, buf>>
         /\ g.seq = rcvNxt[c] =>
              /\ rcvNxt[c] + DataLen(g) <= sent[c] + 1
              /\ rcvNxt' = [rcvNxt EXCEPT ![c] = @ + DataLen(g) + (IF g.fin THEN 1 ELSE 0)]
              /\ \/ buf' = [buf EXCEPT ![c] = @ \o PayloadOf(g)]
                 \/ Len(buf[c]) + DataLen(g) > BufSize /\ buf' = buf
<1>0. TInv /\ TypeOK /\ r \in [Conn -> 0..BufSize]
  BY DEF CInv, TInv, TypeOK
<1>1. c \in Conn /\ ConnInv(c)
  BY <1>0, InConn DEF CInv
<1>2. g.kind = "DATA" /\ status[c] = "ESTABLISHED"
  BY DEF RecvData
<1>3. rcvNxt[c] >= 1 /\ r[c] = 0
  BY <1>1, <1>2 DEF ConnInv
<1>4. /\ g.port = c /\ g.fin \in BOOLEAN /\ g.ack \in 0..MaxWrite + 1 /\ g.len \in Nat
      /\ MaySend(c, g.seq, g.len, g.fin, g.ack)
  BY <1>0, <1>1, <1>2, SegmentShape
<1>5. g.ack \in Nat /\ MaxWrite \in Nat
  BY <1>4, BoundsAssumption
<1>6. g.ack <= srvGot[c] + 1 /\ (g.fin => srv[c] = "FIN_SENT")
  BY <1>4 DEF MaySend
<1>7. DataLen(g) \in Nat /\ g.seq + DataLen(g) <= sent[c] + 1
  BY <1>0, <1>1, <1>2, PayloadType
<1>8. r' = r
  <2>1. r' = r \/ r' = [r EXCEPT ![c] = 0]
    BY DEF RecvData, Told
  <2>2. QED
    BY <1>0, <1>1, <1>3, <2>1
<1>9. /\ status' = [status EXCEPT ![c] = IF ok /\ g.fin THEN "CLOSE_WAIT" ELSE @]
      /\ sndUna' = [sndUna EXCEPT ![c] = g.ack]
      /\ UNCHANGED <<used, remote, sndNxt, srv, srvGot, sent>>
  BY DEF RecvData, Acknowledged, srvVars
<1>10. g.seq # rcvNxt[c] => UNCHANGED <<rcvNxt, buf>>
  BY DEF RecvData, Advanced, Stored
<1>11. ASSUME g.seq = rcvNxt[c]
       PROVE  /\ rcvNxt' = [rcvNxt EXCEPT ![c] = @ + DataLen(g) + (IF g.fin THEN 1 ELSE 0)]
              /\ \/ buf' = [buf EXCEPT ![c] = @ \o PayloadOf(g)]
                 \/ Len(buf[c]) + DataLen(g) > BufSize /\ buf' = buf
  <2>1. rcvNxt' = [rcvNxt EXCEPT ![c] = @ + DataLen(g) + (IF g.fin THEN 1 ELSE 0)]
    BY <1>11 DEF RecvData, Advanced
  <2>2. Len(buf[c]) \in Nat /\ BufSize \in Nat
    BY <1>0, <1>1, ConnTypes, BoundsAssumption
  <2>3. CASE Fits(c, g)
    BY <1>11, <2>1, <2>3 DEF RecvData, Stored
  <2>4. CASE ~ Fits(c, g)
    <3>1. Len(buf[c]) + DataLen(g) > BufSize
      BY <1>7, <2>2, <2>4 DEF Fits
    <3>2. buf' = buf
      BY <1>11, <2>4 DEF RecvData, Stored
    <3>3. QED
      BY <2>1, <3>1, <3>2
  <2>5. QED
    BY <2>3, <2>4
<1>12. g.seq = rcvNxt[c] => rcvNxt[c] + DataLen(g) <= sent[c] + 1
  BY <1>7
<1>13. QED
  BY <1>1, <1>2, <1>3, <1>4, <1>5, <1>6, <1>7, <1>8, <1>9, <1>10, <1>11, <1>12

\* A segment that arrives at the connection it was sent to.
LEMMA ReceiveCInv ==
  ASSUME CInv, TInv', NEW c \in 1..used, NEW g \in Segments(c), NEW ok \in BOOLEAN,
         RecvClosed(c, g, ok) \/ RecvRst(c, g) \/ RecvSynAck(c, g, ok) \/ RecvData(c, g, ok)
  PROVE  CInv'
<1>1. /\ TInv /\ Distinct /\ \A d \in Conn : ConnInv(d)
  BY DEF CInv
<1>2. UNCHANGED <<used, remote, srvGot, sent>>
  BY DEF RecvClosed, RecvRst, RecvSynAck, RecvData, srvVars
<1>3. Distinct'
  BY <1>1, <1>2 DEF Distinct
<1>4. c \in Conn /\ ConnInv(c)
  BY <1>1, InConn
<1>5. /\ c \in Nat /\ used \in Nat /\ c <= used /\ srvGot[c] \in Nat /\ sndNxt[c] \in Nat
      /\ rcvNxt[c] \in Nat /\ Len(buf[c]) \in Nat /\ sent[c] \in Nat /\ buf[c] \in Seq(0..Length)
  BY <1>1, <1>4, ConnTypes DEF TInv, TypeOK
<1>6. /\ status \in [Conn -> Status] /\ sndUna \in [Conn -> 0..MaxWrite + 1]
      /\ sndNxt \in [Conn -> 0..MaxWrite + 1] /\ rcvNxt \in [Conn -> 0..Length + 2]
      /\ buf \in [Conn -> Seq(0..Length)]
  BY <1>1 DEF TInv, TypeOK
<1>7. CASE RecvClosed(c, g, ok)
  <2>1. UNCHANGED <<status, sndNxt, rcvNxt, r, sndUna, buf>>
    BY <1>7 DEF RecvClosed, fileVars
  <2>2. QED
    BY <1>1, <1>2, <1>3, <2>1, ConnFrame DEF CInv
<1>8. CASE RecvRst(c, g)
  <2>1. /\ status[c] # "NONE" /\ status' = [status EXCEPT ![c] = "CLOSED"]
        /\ UNCHANGED <<sndNxt, rcvNxt, r, sndUna, buf>>
    BY <1>8 DEF RecvRst, fileVars
  <2>2. status'[c] = "CLOSED" /\ \A d \in Conn \ {c} : status'[d] = status[d]
    BY <1>4, <1>6, <2>1
  <2>3. ConnInv(c)'
    BY <1>2, <1>4, <1>5, <2>1, <2>2 DEF ConnInv
  <2>4. \A d \in Conn \ {c} : ConnInv(d)'
    BY <1>1, <1>2, <2>1, <2>2, ConnFrame
  <2>5. QED
    BY <1>3, <2>3, <2>4 DEF CInv
<1>9. CASE RecvSynAck(c, g, ok)
  <2>1. /\ g.kind = "SYNACK" /\ status[c] = "SYN_SENT"
        /\ status' = [status EXCEPT ![c] = "ESTABLISHED"] /\ sndUna' = [sndUna EXCEPT ![c] = 1]
        /\ sndNxt' = [sndNxt EXCEPT ![c] = 1] /\ rcvNxt' = [rcvNxt EXCEPT ![c] = g.seq + 1]
        /\ UNCHANGED <<r, buf>>
    BY <1>9 DEF RecvSynAck
  <2>2. g.seq = 0
    BY <1>1, <2>1, SegmentShape DEF TInv
  <2>3. /\ status'[c] = "ESTABLISHED" /\ sndUna'[c] = 1 /\ sndNxt'[c] = 1 /\ rcvNxt'[c] = 1
        /\ \A d \in Conn \ {c} : /\ status'[d] = status[d] /\ sndUna'[d] = sndUna[d]
                                 /\ sndNxt'[d] = sndNxt[d] /\ rcvNxt'[d] = rcvNxt[d]
    BY <1>4, <1>6, <2>1, <2>2
  <2>4. rcvNxt[c] = 0 /\ r[c] = 0 /\ srvGot[c] = 0 /\ Len(buf[c]) = 0
    BY <1>4, <1>5, <2>1 DEF ConnInv
  <2>5. ConnInv(c)'
    BY <1>2, <1>5, <2>1, <2>3, <2>4 DEF ConnInv
  <2>6. \A d \in Conn \ {c} : ConnInv(d)'
    BY <1>1, <1>2, <2>1, <2>3, ConnFrame
  <2>7. QED
    BY <1>3, <2>5, <2>6 DEF CInv
<1>10. CASE RecvData(c, g, ok)
  <2>1. /\ status[c] = "ESTABLISHED" /\ rcvNxt[c] >= 1 /\ r[c] = 0 /\ r' = r
        /\ DataLen(g) \in Nat /\ g.fin \in BOOLEAN
        /\ status' = [status EXCEPT ![c] = IF ok /\ g.fin THEN "CLOSE_WAIT" ELSE @]
        /\ sndUna' = [sndUna EXCEPT ![c] = g.ack] /\ g.ack <= srvGot[c] + 1 /\ g.ack \in Nat
        /\ sndNxt' = sndNxt
        /\ g.seq # rcvNxt[c] => UNCHANGED <<rcvNxt, buf>>
        /\ g.seq = rcvNxt[c] =>
              /\ rcvNxt[c] + DataLen(g) <= sent[c] + 1
              /\ rcvNxt' = [rcvNxt EXCEPT ![c] = @ + DataLen(g) + (IF g.fin THEN 1 ELSE 0)]
              /\ \/ buf' = [buf EXCEPT ![c] = @ \o PayloadOf(g)]
                 \/ Len(buf[c]) + DataLen(g) > BufSize /\ buf' = buf
    BY <1>10, RecvDataSteps
  <2>2. /\ status'[c] \in {"ESTABLISHED", "CLOSE_WAIT"} /\ sndUna'[c] = g.ack
        /\ \A d \in Conn \ {c} : status'[d] = status[d] /\ sndUna'[d] = sndUna[d]
    BY <1>4, <1>6, <2>1
  <2>3. sndUna'[c] <= sndNxt[c]
    <3>1. srvGot[c] + 1 <= sndNxt[c]
      BY <1>4, <1>5 DEF ConnInv
    <3>2. QED
      BY <1>5, <2>1, <2>2, <3>1
  <2>4. \A d \in Conn \ {c} : rcvNxt'[d] = rcvNxt[d] /\ buf'[d] = buf[d]
    BY <1>6, <2>1
  <2>5. /\ rcvNxt'[c] >= 1 /\ Len(buf'[c]) <= sent[c]
        /\ Len(buf'[c]) = 0 \/ Len(buf'[c]) + 1 <= rcvNxt'[c]
    <3>0. Len(buf[c]) <= sent[c] /\ Len(buf[c]) + 1 <= rcvNxt[c]
      BY <1>4, <1>5, <2>1 DEF ConnInv
    <3>1. CASE g.seq # rcvNxt[c]
      BY <2>1, <3>0, <3>1
    <3>2. CASE g.seq = rcvNxt[c]
      <4>1. PICK k \in {0, 1} : rcvNxt' = [rcvNxt EXCEPT ![c] = @ + DataLen(g) + k]
        BY <2>1, <3>2
      <4>2. rcvNxt'[c] = rcvNxt[c] + DataLen(g) + k
        BY <1>4, <1>6, <4>1
      <4>3. PayloadOf(g) \in Seq(0..Length) /\ Len(PayloadOf(g)) = DataLen(g)
        BY <1>1, <1>10, PayloadType DEF TInv, RecvData
      <4>4. Len(buf[c] \o PayloadOf(g)) = Len(buf[c]) + DataLen(g)
        BY <1>5, <4>3, ConcatFacts
      <4>5. Len(buf'[c]) = Len(buf[c]) \/ Len(buf'[c]) = Len(buf[c]) + DataLen(g)
        <5>1. CASE buf' = buf
          BY <5>1
        <5>2. CASE buf' = [buf EXCEPT ![c] = @ \o PayloadOf(g)]
          <6>1. buf'[c] = buf[c] \o PayloadOf(g)
            BY <1>4, <1>6, <5>2
          <6>2. QED
            BY <4>4, <6>1
        <5>3. QED
          BY <2>1, <3>2, <5>1, <5>2
      <4>6. rcvNxt[c] + DataLen(g) <= sent[c] + 1
        BY <2>1, <3>2
      <4>7. DataLen(g) \in Nat /\ rcvNxt[c] >= 1 /\ k \in Nat
        BY <2>1
      <4>8. rcvNxt'[c] >= 1 /\ rcvNxt[c] + DataLen(g) <= rcvNxt'[c]
        BY <1>5, <4>2, <4>7
      <4>9. Len(buf'[c]) \in Nat /\ Len(buf'[c]) + 1 <= rcvNxt[c] + DataLen(g)
        BY <1>5, <3>0, <4>5, <4>7
      <4>10. Len(buf'[c]) <= sent[c]
        BY <1>5, <4>6, <4>7, <4>9
      <4>11. Len(buf'[c]) + 1 <= rcvNxt'[c]
        BY <1>5, <4>2, <4>7, <4>8, <4>9
      <4>12. QED
        BY <4>8, <4>10, <4>11
    <3>3. QED
      BY <3>1, <3>2
  <2>6. ConnInv(c)'
    BY <1>2, <1>4, <1>5, <2>1, <2>2, <2>3, <2>5 DEF ConnInv
  <2>7. \A d \in Conn \ {c} : ConnInv(d)'
    BY <1>1, <1>2, <2>1, <2>2, <2>4, ConnFrame
  <2>8. QED
    BY <1>3, <2>6, <2>7 DEF CInv
<1>11. QED
  BY <1>7, <1>8, <1>9, <1>10

\* A segment of the network arrives at the connection it was sent to.
LEMMA NetworkOwn ==
  ASSUME CInv, Network
  PROVE  \E c \in 1..used : \E g \in Segments(c), ok \in BOOLEAN :
           RecvClosed(c, g, ok) \/ RecvRst(c, g) \/ RecvSynAck(c, g, ok) \/ RecvData(c, g, ok)
<1>1. PICK p \in 1..used : \E h \in Segments(p), ok \in BOOLEAN : Receive(h, ok)
  BY DEF Network
<1>2. PICK g \in Segments(p), ok \in BOOLEAN : Receive(g, ok)
  BY <1>1
<1>3. PICK c \in Conn : /\ Found(c, g)
                        /\ \/ RecvClosed(c, g, ok) \/ RecvRst(c, g)
                           \/ RecvSynAck(c, g, ok) \/ RecvData(c, g, ok)
  BY <1>2 DEF Receive
<1>4. c = p
  BY <1>3, FoundOwn
<1>5. QED
  BY <1>3, <1>4

\* Every step preserves the invariant of the connections.
LEMMA NextCInv == Reconnect = FALSE /\ CInv /\ [Next]_vars => CInv'
<1>1. SUFFICES ASSUME Reconnect = FALSE, CInv, [Next]_vars PROVE CInv'
  OBVIOUS
<1>2. TInv'
  BY <1>1, NextTInv DEF CInv
<1>3. CASE UNCHANGED vars
  <2>1. UNCHANGED <<used, remote, status, srvGot, sndNxt, rcvNxt, r, sndUna, buf, sent>>
    BY <1>3 DEF vars, connVars, fileVars, srvVars
  <2>2. QED
    BY <1>1, <1>2, <2>1, ConnFrame DEF CInv, Distinct
<1>4. CASE Application
  BY <1>1, <1>2, <1>4, ConnectCInv, ServiceCInv DEF Application
<1>5. CASE Network
  BY <1>1, <1>2, <1>5, NetworkOwn, ReceiveCInv
<1>6. CASE Peer
  BY <1>1, <1>2, <1>6, PeerCInv
<1>7. QED
  BY <1>1, <1>3, <1>4, <1>5, <1>6 DEF Next

\* What a connection holds for acknowledged was sent, for every number of
\* connections and every size, although snd_una is taken from every segment
\* unchecked: as long as no server is connected to twice.
THEOREM TcpAckedWasSent ==
  ASSUME Reconnect = FALSE
  PROVE  Spec => []AckedWasSent
<1>1. CInv => AckedWasSent
  BY DEF CInv, ConnInv, AckedWasSent
<1>2. CInv /\ [Next]_vars => CInv'
  BY NextCInv
<1>3. QED
  BY <1>1, <1>2, InitCInv, PTL DEF Spec

-----------------------------------------------------------------------------
(* What is acknowledged is kept *)

\* The file holds the stream from its first byte on, each byte at its place,
\* and everything that was gone through: all but the number of a FIN, which is
\* counted after the last byte.
Whole(c) ==
  /\ \A i \in 1..Len(buf[c]) : CopyOf(c, i, buf[c][i])
  /\ \/ rcvNxt[c] <= Len(buf[c]) + 1
     \/ srv[c] = "FIN_SENT" /\ sent[c] <= Len(buf[c])

\* No acknowledgement is ahead of what was gone through, and a short stream
\* has no gap.
KeptInv(c) == ackSent[c] <= rcvNxt[c] /\ (Short(c) => Whole(c))

\* The numbers that the invariant compares.
LEMMA KeptTypes ==
  ASSUME TInv, NEW d \in Conn
  PROVE  /\ ackSent[d] \in Nat /\ rcvNxt[d] \in Nat /\ sent[d] \in Nat /\ Len(buf[d]) \in Nat
         /\ BufSize \in Nat /\ Payload \in Nat /\ Segment \in Nat
BY ConnTypes, BoundsAssumption DEF TInv, TypeOK

\* A stream that is short was short: its length only grows, and once it is
\* finished it stays so.
LEMMA KeptFrame ==
  ASSUME TInv, TInv', NEW d \in Conn, KeptInv(d),
         buf'[d] = buf[d], rcvNxt'[d] = rcvNxt[d], ackSent'[d] <= rcvNxt[d],
         \/ srv'[d] = srv[d] /\ sent'[d] = sent[d]
         \/ srv[d] # "FIN_SENT" /\ sent[d] <= sent'[d]
  PROVE  KeptInv(d)'
<1>1. /\ rcvNxt[d] \in Nat /\ sent[d] \in Nat /\ sent'[d] \in Nat /\ Len(buf[d]) \in Nat /\ BufSize \in Nat
  <2>1. sent' \in [Conn -> 0..Length] /\ sent \in [Conn -> 0..Length] /\ Length \in Nat
    BY BoundsAssumption DEF TInv, TypeOK
  <2>2. QED
    BY <2>1, KeptTypes
<1>2. CASE srv'[d] = srv[d] /\ sent'[d] = sent[d]
  BY <1>2 DEF KeptInv, Short, Whole
<1>3. CASE srv[d] # "FIN_SENT" /\ sent[d] <= sent'[d]
  <2>1. SUFFICES ASSUME Short(d)' PROVE Whole(d)'
    BY DEF KeptInv
  <2>2. sent'[d] <= BufSize
    BY <2>1 DEF Short
  <2>3. Short(d)
    BY <1>1, <1>3, <2>2 DEF Short
  <2>4. Whole(d) /\ rcvNxt[d] <= Len(buf[d]) + 1
    BY <1>3, <2>3 DEF KeptInv, Whole
  <2>5. QED
    BY <2>4 DEF Whole
<1>4. QED
  BY <1>2, <1>3

\* An acknowledgement that is sent moves up to what was gone through.
LEMMA AckMoves ==
  ASSUME TInv, NEW p \in Conn, NEW a \in Nat, NEW ok \in BOOLEAN, ackSent[p] <= a,
         ackSent' = [ackSent EXCEPT ![p] = IF ok THEN Max({@, a}) ELSE @]
  PROVE  ackSent'[p] <= a /\ \A d \in Conn \ {p} : ackSent'[d] = ackSent[d]
<1>1. ackSent \in [Conn -> 0..Length + 2]
  BY DEF TInv, TypeOK
<1>2. ackSent[p] \in Nat
  BY KeptTypes
<1>3. Max({ackSent[p], a}) = a
  <2>1. Max({ackSent[p], a}) = IF ackSent[p] >= a THEN ackSent[p] ELSE a
    BY <1>2, MinMaxTwo
  <2>2. QED
    BY <1>2, <2>1
<1>4. \A d \in Conn \ {p} : ackSent'[d] = ackSent[d]
  BY <1>1
<1>5. ackSent'[p] = IF ok THEN Max({ackSent[p], a}) ELSE ackSent[p]
  BY <1>1
<1>6. QED
  BY <1>2, <1>3, <1>4, <1>5

\* The segment that finishes a short stream is taken to its last byte.
LEMMA LastUncut ==
  ASSUME TypeOK, NEW c \in 1..used, NEW g \in Segments(c), g.kind = "DATA", g.fin, Short(c)
  PROVE  g.seq + DataLen(g) = sent[c] + 1
<1>1. /\ g.seq \in 0..Length + 1 /\ g.seq >= 1 /\ g.len \in Nat /\ c \in Conn
      /\ MaySend(c, g.seq, g.len, g.fin, g.ack)
  BY SegmentShape
<1>2. srv[c] = "FIN_SENT" /\ g.seq + g.len = sent[c] + 1
  BY <1>1 DEF MaySend
<1>3. sent[c] < Payload \/ Segment < Payload
  BY <1>2 DEF Short
<1>4. g.len <= Segment
  <2>1. g # SynAck(c) /\ g # Rst(c)
    BY DEF SynAck, Rst
  <2>2. PICK s \in 1..Length + 1, n \in 0..Segment, f \in BOOLEAN, a \in 1..MaxWrite + 1 :
               g = Data(c, s, n, f, a)
    BY <2>1 DEF Segments
  <2>3. g.len = n
    BY <2>2 DEF Data
  <2>4. QED
    BY <2>3, BoundsAssumption
<1>5. sent[c] \in 0..Length /\ Length \in Nat /\ Payload \in Nat /\ Segment \in Nat
  BY <1>1, BoundsAssumption DEF TypeOK
<1>6. g.seq \in Nat /\ ~ (g.len >= Payload)
  BY <1>1, <1>2, <1>3, <1>4, <1>5
<1>7. DataLen(g) = g.len
  BY <1>6 DEF DataLen
<1>8. QED
  BY <1>2, <1>7

\* A piece of a short stream that is in order fits, and is the next piece of
\* the file.
LEMMA InOrderKept ==
  ASSUME CInv, CInv', NEW c \in 1..used, NEW g \in Segments(c), NEW ok \in BOOLEAN,
         RecvData(c, g, ok), g.seq = rcvNxt[c], Whole(c), Short(c)
  PROVE  Whole(c)'
<1>0. /\ TInv /\ TypeOK /\ c \in Conn /\ ConnInv(c) /\ g.kind = "DATA"
  BY InConn DEF CInv, TInv, RecvData
<1>1. /\ rcvNxt[c] >= 1 /\ DataLen(g) \in Nat /\ g.fin \in BOOLEAN
      /\ g.fin => srv[c] = "FIN_SENT"
      /\ srv' = srv /\ sent' = sent
      /\ rcvNxt[c] + DataLen(g) <= sent[c] + 1
      /\ rcvNxt' = [rcvNxt EXCEPT ![c] = @ + DataLen(g) + (IF g.fin THEN 1 ELSE 0)]
      /\ \/ buf' = [buf EXCEPT ![c] = @ \o PayloadOf(g)]
         \/ Len(buf[c]) + DataLen(g) > BufSize /\ buf' = buf
  BY RecvDataSteps
<1>2. /\ rcvNxt[c] \in Nat /\ sent[c] \in Nat /\ Len(buf[c]) \in Nat /\ BufSize \in Nat
  BY <1>0, KeptTypes
<1>3. /\ rcvNxt \in [Conn -> 0..Length + 2] /\ buf \in [Conn -> Seq(0..Length)]
  BY <1>0 DEF TypeOK
<1>4. rcvNxt[c] = Len(buf[c]) + 1
  <2>1. Len(buf[c]) = 0 \/ Len(buf[c]) + 1 <= rcvNxt[c]
    BY <1>0 DEF ConnInv
  <2>2. rcvNxt[c] <= Len(buf[c]) + 1 \/ sent[c] <= Len(buf[c])
    BY DEF Whole
  <2>3. QED
    BY <1>1, <1>2, <2>1, <2>2
<1>5. sent[c] <= BufSize
  BY DEF Short
<1>6. buf' = [buf EXCEPT ![c] = @ \o PayloadOf(g)]
  <2>1. ~ (Len(buf[c]) + DataLen(g) > BufSize)
    BY <1>1, <1>2, <1>4, <1>5
  <2>2. QED
    BY <1>1, <2>1
<1>7. PayloadOf(g) \in Seq(0..Length) /\ Len(PayloadOf(g)) = DataLen(g)
  BY <1>0, PayloadType
<1>8. /\ buf'[c] = buf[c] \o PayloadOf(g) /\ Len(buf'[c]) = Len(buf[c]) + DataLen(g)
  <2>1. buf'[c] = buf[c] \o PayloadOf(g)
    BY <1>0, <1>3, <1>6
  <2>2. buf[c] \in Seq(0..Length)
    BY <1>0, <1>3
  <2>3. Len(buf[c] \o PayloadOf(g)) = Len(buf[c]) + DataLen(g)
    BY <1>7, <2>2, ConcatFacts
  <2>4. QED
    BY <2>1, <2>3
<1>9. ASSUME NEW i \in 1..Len(buf'[c]) PROVE CopyOf(c, i, buf'[c][i])
  <2>1. i \in 1..Len(buf[c]) + DataLen(g) /\ i \in Nat
    BY <1>1, <1>2, <1>8
  <2>2. CASE i <= Len(buf[c])
    <3>1. CopyOf(c, i, buf[c][i])
      BY <1>2, <2>1, <2>2 DEF Whole
    <3>2. (buf[c] \o PayloadOf(g))[i] = buf[c][i]
      BY <1>0, <1>2, <1>3, <1>7, <2>1, <2>2
    <3>3. QED
      BY <1>8, <3>1, <3>2
  <2>3. CASE i > Len(buf[c])
    <3>0. i - Len(buf[c]) \in 1..DataLen(g)
      BY <1>1, <1>2, <2>1, <2>3
    <3>1. PICK l \in Nat, k \in Nat : l = Len(buf[c]) /\ k = i - l
      <4>1. DataLen(g) \in Nat
        BY <1>1
      <4>2. QED
        BY <1>2, <3>0, <4>1
    <3>2. CopyOf(c, g.seq + k - 1, PayloadOf(g)[k])
      <4>1. g.port = c /\ g.seq \in Nat /\ g.seq >= 1 /\ g.len \in Nat
        BY <1>0, <1>1, <1>2, SegmentShape
      <4>2. k \in 1..DataLen(g)
        BY <3>0, <3>1
      <4>3. QED
        BY <1>0, <4>1, <4>2, PayloadCopy
    <3>3. (buf[c] \o PayloadOf(g))[i] = PayloadOf(g)[k]
      BY <1>0, <1>1, <1>2, <1>3, <1>7, <2>1, <2>3, <3>0, <3>1
    <3>4. g.seq + k - 1 = i
      <4>1. PICK n \in Nat : n = g.seq /\ n = l + 1
        BY <1>4, <3>1
      <4>2. k = i - l /\ i \in Nat
        BY <2>1, <3>1
      <4>3. QED
        BY <4>1, <4>2
    <3>5. QED
      BY <1>8, <3>2, <3>3, <3>4
  <2>4. QED
    BY <1>2, <2>1, <2>2, <2>3
<1>10. rcvNxt'[c] = rcvNxt[c] + DataLen(g) + (IF g.fin THEN 1 ELSE 0)
  BY <1>0, <1>1, <1>3
<1>11. CASE g.fin
  <2>1. g.seq + DataLen(g) = sent[c] + 1
    BY <1>0, <1>11, LastUncut
  <2>2. sent[c] <= Len(buf'[c]) /\ srv[c] = "FIN_SENT"
    BY <1>1, <1>2, <1>4, <1>8, <1>11, <2>1
  <2>3. QED
    BY <1>1, <1>9, <2>2 DEF Whole
<1>12. CASE ~ g.fin
  <2>1. rcvNxt'[c] = rcvNxt[c] + DataLen(g)
    BY <1>1, <1>2, <1>10, <1>12
  <2>2. rcvNxt'[c] <= Len(buf'[c]) + 1
    BY <1>1, <1>2, <1>4, <1>8, <2>1
  <2>3. QED
    BY <1>9, <2>2 DEF Whole
<1>13. QED
  BY <1>11, <1>12

\* A segment of data.
LEMMA RecvDataKept ==
  ASSUME CInv, CInv', NEW c \in 1..used, NEW g \in Segments(c), NEW ok \in BOOLEAN,
         RecvData(c, g, ok), \A d \in Conn : KeptInv(d)
  PROVE  \A d \in Conn : KeptInv(d)'
<1>0. /\ TInv /\ TInv' /\ TypeOK /\ c \in Conn /\ g.port = c
  BY InConn, SegmentShape DEF CInv, TInv
<1>1. /\ DataLen(g) \in Nat /\ srv' = srv /\ sent' = sent
      /\ g.seq # rcvNxt[c] => UNCHANGED <<rcvNxt, buf>>
      /\ g.seq = rcvNxt[c] =>
           /\ rcvNxt' = [rcvNxt EXCEPT ![c] = @ + DataLen(g) + (IF g.fin THEN 1 ELSE 0)]
           /\ \/ buf' = [buf EXCEPT ![c] = @ \o PayloadOf(g)]
              \/ Len(buf[c]) + DataLen(g) > BufSize /\ buf' = buf
  BY RecvDataSteps
<1>2. ackSent' = [ackSent EXCEPT ![c] = IF ok THEN Max({@, rcvNxt'[c]}) ELSE @]
  BY <1>0 DEF RecvData, Acknowledged
<1>3. /\ rcvNxt \in [Conn -> 0..Length + 2] /\ buf \in [Conn -> Seq(0..Length)]
      /\ rcvNxt[c] \in Nat /\ rcvNxt'[c] \in Nat /\ ackSent[c] \in Nat /\ ackSent[c] <= rcvNxt[c]
  <2>1. rcvNxt' \in [Conn -> 0..Length + 2] /\ rcvNxt \in [Conn -> 0..Length + 2] /\ Length \in Nat
        /\ buf \in [Conn -> Seq(0..Length)]
    BY <1>0, BoundsAssumption DEF TInv, TypeOK
  <2>2. QED
    BY <1>0, <2>1, KeptTypes DEF KeptInv
<1>4. rcvNxt[c] <= rcvNxt'[c]
  <2>1. CASE g.seq # rcvNxt[c]
    BY <1>1, <1>3, <2>1
  <2>2. CASE g.seq = rcvNxt[c]
    <3>1. PICK k \in {0, 1} : rcvNxt' = [rcvNxt EXCEPT ![c] = @ + DataLen(g) + k]
      BY <1>1, <2>2
    <3>2. rcvNxt'[c] = rcvNxt[c] + DataLen(g) + k
      BY <1>0, <1>3, <3>1
    <3>3. QED
      BY <1>1, <1>3, <3>1, <3>2
  <2>3. QED
    BY <2>1, <2>2
<1>5. ackSent'[c] <= rcvNxt'[c] /\ \A d \in Conn \ {c} : ackSent'[d] = ackSent[d]
  <2>1. PICK a \in Nat : a = rcvNxt'[c]
    BY <1>3
  <2>2. ackSent[c] <= a
    BY <1>3, <1>4, <2>1
  <2>3. ackSent' = [ackSent EXCEPT ![c] = IF ok THEN Max({@, a}) ELSE @]
    BY <1>2, <2>1
  <2>4. QED
    BY <1>0, <2>1, <2>2, <2>3, AckMoves
<1>6. ASSUME NEW d \in Conn, d # c PROVE KeptInv(d)'
  <2>1. rcvNxt'[d] = rcvNxt[d] /\ buf'[d] = buf[d]
    BY <1>1, <1>3, <1>6
  <2>2. ackSent'[d] <= rcvNxt[d]
    BY <1>5, <1>6 DEF KeptInv
  <2>3. QED
    BY <1>0, <1>1, <2>1, <2>2, KeptFrame
<1>7. KeptInv(c)'
  <2>1. CASE g.seq # rcvNxt[c]
    <3>1. rcvNxt'[c] = rcvNxt[c] /\ buf'[c] = buf[c] /\ ackSent'[c] <= rcvNxt[c]
      BY <1>1, <1>5, <2>1
    <3>2. QED
      BY <1>0, <1>1, <3>1, KeptFrame
  <2>2. CASE g.seq = rcvNxt[c]
    <3>1. Short(c)' => Short(c)
      BY <1>1 DEF Short
    <3>2. Short(c) => Whole(c)
      BY <1>0 DEF KeptInv
    <3>3. Short(c)' => Whole(c)'
      BY <2>2, <3>1, <3>2, InOrderKept
    <3>4. QED
      BY <1>5, <3>3 DEF KeptInv
  <2>3. QED
    BY <2>1, <2>2
<1>8. QED
  BY <1>6, <1>7

\* A SYN|ACK opens a connection whose file is empty.
LEMMA RecvSynAckKept ==
  ASSUME CInv, CInv', NEW c \in 1..used, NEW g \in Segments(c), NEW ok \in BOOLEAN,
         RecvSynAck(c, g, ok), \A d \in Conn : KeptInv(d)
  PROVE  \A d \in Conn : KeptInv(d)'
<1>0. /\ TInv /\ TInv' /\ TypeOK /\ c \in Conn /\ g.port = c /\ ConnInv(c)
  BY InConn, SegmentShape DEF CInv, TInv
<1>1. /\ g.kind = "SYNACK" /\ status[c] = "SYN_SENT"
      /\ rcvNxt' = [rcvNxt EXCEPT ![c] = g.seq + 1]
      /\ ackSent' = [ackSent EXCEPT ![c] = IF ok THEN Max({@, g.seq + 1}) ELSE @]
      /\ UNCHANGED <<buf, srv, sent>>
  BY <1>0 DEF RecvSynAck, srvVars
<1>2. g.seq = 0
  BY <1>0, <1>1, SegmentShape
<1>3. /\ rcvNxt \in [Conn -> 0..Length + 2] /\ ackSent[c] \in Nat /\ Len(buf[c]) \in Nat
  BY <1>0, KeptTypes DEF TypeOK
<1>4. rcvNxt[c] = 0 /\ Len(buf[c]) = 0
  BY <1>0, <1>1, <1>3 DEF ConnInv
<1>5. rcvNxt'[c] = 1 /\ \A d \in Conn \ {c} : rcvNxt'[d] = rcvNxt[d]
  BY <1>0, <1>1, <1>2, <1>3
<1>6. ackSent'[c] <= 1 /\ \A d \in Conn \ {c} : ackSent'[d] = ackSent[d]
  <2>1. ackSent[c] <= 1
    BY <1>0, <1>3, <1>4 DEF KeptInv
  <2>2. ackSent' = [ackSent EXCEPT ![c] = IF ok THEN Max({@, 1}) ELSE @]
    BY <1>1, <1>2
  <2>3. QED
    BY <1>0, <2>1, <2>2, AckMoves
<1>7. KeptInv(c)'
  <2>1. Len(buf'[c]) = 0
    BY <1>1, <1>4
  <2>2. Whole(c)'
    BY <1>5, <2>1 DEF Whole
  <2>3. QED
    BY <1>5, <1>6, <2>2 DEF KeptInv
<1>8. ASSUME NEW d \in Conn, d # c PROVE KeptInv(d)'
  <2>1. ackSent'[d] <= rcvNxt[d] /\ rcvNxt'[d] = rcvNxt[d]
    BY <1>5, <1>6, <1>8 DEF KeptInv
  <2>2. QED
    BY <1>0, <1>1, <2>1, KeptFrame
<1>9. QED
  BY <1>7, <1>8

\* The services of the application: only a write acknowledges.
LEMMA ApplicationKept ==
  ASSUME CInv, CInv', Application, \A d \in Conn : KeptInv(d)
  PROVE  \A d \in Conn : KeptInv(d)'
<1>0. TInv /\ TInv'
  BY DEF CInv
<1>1. UNCHANGED <<rcvNxt, buf, srv, sent>>
  BY DEF Application, Connect, Write, Read, Close, connVars, fileVars, srvVars
<1>2. SUFFICES ASSUME NEW d \in Conn PROVE ackSent'[d] <= rcvNxt[d]
  BY <1>0, <1>1, KeptFrame
<1>3. ackSent[d] <= rcvNxt[d]
  BY DEF KeptInv
<1>4. CASE ackSent' = ackSent
  BY <1>3, <1>4
<1>5. ASSUME NEW c \in Conn, NEW n, Write(c, n) PROVE ackSent'[d] <= rcvNxt[d]
  <2>1. ackSent' = [ackSent EXCEPT ![c] = IF TRUE THEN Max({@, rcvNxt[c]}) ELSE @]
    BY <1>5 DEF Write
  <2>2. PICK a \in Nat : a = rcvNxt[c]
    BY <1>0, KeptTypes
  <2>3. ackSent[c] <= a
    BY <2>2 DEF KeptInv
  <2>4. ackSent'[c] <= a /\ \A e \in Conn \ {c} : ackSent'[e] = ackSent[e]
    BY <1>0, <2>1, <2>2, <2>3, AckMoves
  <2>5. QED
    BY <1>3, <2>2, <2>4
<1>6. QED
  BY <1>4, <1>5 DEF Application, Connect, Read, Close, outVars

\* The server sends more only before it has finished.
LEMMA PeerKept ==
  ASSUME CInv, CInv', Peer, \A d \in Conn : KeptInv(d)
  PROVE  \A d \in Conn : KeptInv(d)'
<1>0. /\ TInv /\ TInv' /\ sent \in [Conn -> 0..Length] /\ srv \in [Conn -> ServerState]
      /\ Length \in Nat
  BY BoundsAssumption DEF CInv, TInv, TypeOK
<1>1. UNCHANGED <<connVars, fileVars, outVars>>
  BY DEF Peer, SrvSyn, SrvAck, SrvGet, SrvReset, SrvSend
<1>2. UNCHANGED <<rcvNxt, buf, ackSent>>
  BY <1>1 DEF connVars, fileVars, outVars
<1>3. PICK p \in 1..used : \/ SrvSyn(p) \/ SrvAck(p) \/ SrvGet(p) \/ SrvReset(p)
                           \/ \E n \in 0..Length, f \in BOOLEAN : SrvSend(p, n, f)
  BY DEF Peer
<1>4. p \in Conn
  BY <1>0, InConn
<1>5. SUFFICES ASSUME NEW d \in Conn
               PROVE  \/ srv'[d] = srv[d] /\ sent'[d] = sent[d]
                      \/ srv[d] # "FIN_SENT" /\ sent[d] <= sent'[d]
  BY <1>0, <1>2, KeptFrame DEF KeptInv
<1>6. CASE SrvGet(p) \/ SrvReset(p)
  BY <1>6 DEF SrvGet, SrvReset
<1>7. CASE SrvSyn(p) \/ SrvAck(p)
  <2>1. sent' = sent /\ srv[p] # "FIN_SENT" /\ \A e \in Conn \ {p} : srv'[e] = srv[e]
    BY <1>0, <1>4, <1>7 DEF SrvSyn, SrvAck
  <2>2. sent[d] <= sent'[d]
    BY <1>0, <2>1
  <2>3. QED
    BY <2>1, <2>2
<1>8. ASSUME NEW n \in 0..Length, NEW f \in BOOLEAN, SrvSend(p, n, f)
      PROVE  \/ srv'[d] = srv[d] /\ sent'[d] = sent[d]
             \/ srv[d] # "FIN_SENT" /\ sent[d] <= sent'[d]
  <2>1. /\ srv[p] = "ESTABLISHED" /\ sent' = [sent EXCEPT ![p] = @ + n]
        /\ srv' = [srv EXCEPT ![p] = IF f THEN "FIN_SENT" ELSE @]
    BY <1>8 DEF SrvSend
  <2>2. CASE d = p
    <3>1. sent'[d] = sent[d] + n /\ srv[d] # "FIN_SENT"
      BY <1>0, <1>4, <2>1, <2>2
    <3>2. QED
      BY <1>0, <3>1
  <2>3. CASE d # p
    BY <1>0, <2>1, <2>3
  <2>4. QED
    BY <2>2, <2>3
<1>9. QED
  BY <1>3, <1>6, <1>7, <1>8

\* Every step keeps what was acknowledged.
LEMMA NextKept ==
  ASSUME CInv, CInv', [Next]_vars, \A d \in Conn : KeptInv(d)
  PROVE  \A d \in Conn : KeptInv(d)'
<1>0. TInv /\ TInv'
  BY DEF CInv
<1>1. ASSUME UNCHANGED <<rcvNxt, buf, ackSent, srv, sent>> PROVE \A d \in Conn : KeptInv(d)'
  BY <1>0, <1>1, KeptFrame DEF KeptInv
<1>2. CASE UNCHANGED vars
  BY <1>1, <1>2 DEF vars, connVars, fileVars, srvVars, outVars
<1>3. CASE Network
  <2>1. PICK c \in 1..used : \E g \in Segments(c), ok \in BOOLEAN :
           RecvClosed(c, g, ok) \/ RecvRst(c, g) \/ RecvSynAck(c, g, ok) \/ RecvData(c, g, ok)
    BY <1>3, NetworkOwn
  <2>2. PICK g \in Segments(c), ok \in BOOLEAN :
           RecvClosed(c, g, ok) \/ RecvRst(c, g) \/ RecvSynAck(c, g, ok) \/ RecvData(c, g, ok)
    BY <2>1
  <2>3. CASE RecvClosed(c, g, ok) \/ RecvRst(c, g)
    BY <1>1, <2>3 DEF RecvClosed, RecvRst, fileVars, srvVars, outVars
  <2>4. QED
    BY <2>2, <2>3, RecvSynAckKept, RecvDataKept
<1>4. QED
  BY <1>2, <1>3, ApplicationKept, PeerKept DEF Next

\* Every byte that the server of a short stream holds for acknowledged is in
\* the file of the socket at its place, for every number of connections and
\* every size, over a network that loses, duplicates and reorders: as long as
\* no server is connected to twice.
THEOREM TcpAcknowledgedIsKept ==
  ASSUME Reconnect = FALSE
  PROVE  Spec => []AcknowledgedIsKept
<1>0. DEFINE Inv == CInv /\ \A d \in Conn : KeptInv(d)
<1>1. Init => Inv
  <2>1. SUFFICES ASSUME Init PROVE \A d \in Conn : KeptInv(d)
    BY InitCInv
  <2>2. ASSUME NEW d \in Conn PROVE KeptInv(d)
    <3>1. ackSent[d] = 0 /\ rcvNxt[d] = 0 /\ buf[d] = <<>>
      BY <2>1 DEF Init
    <3>2. QED
      BY <3>1 DEF KeptInv, Whole
  <2>3. QED
    BY <2>2
<1>2. Inv /\ [Next]_vars => Inv'
  BY NextCInv, NextKept
<1>3. Inv => AcknowledgedIsKept
  <2>1. SUFFICES ASSUME Inv, NEW c \in Conn, Short(c), NEW i \in 1..sent[c], i < ackSent[c]
                 PROVE  i <= Len(buf[c]) /\ CopyOf(c, i, buf[c][i])
    BY DEF AcknowledgedIsKept, InFile
  <2>2. /\ Whole(c) /\ ackSent[c] <= rcvNxt[c]
    BY <2>1 DEF KeptInv
  <2>3. ackSent[c] \in Nat /\ rcvNxt[c] \in Nat /\ sent[c] \in Nat /\ Len(buf[c]) \in Nat
    BY <2>1, KeptTypes DEF CInv
  <2>4. rcvNxt[c] <= Len(buf[c]) + 1 \/ sent[c] <= Len(buf[c])
    BY <2>2 DEF Whole
  <2>5. i \in 1..Len(buf[c])
    BY <2>1, <2>2, <2>3, <2>4
  <2>6. QED
    BY <2>2, <2>3, <2>5 DEF Whole
<1>4. QED
  BY <1>1, <1>2, <1>3, PTL DEF Spec

-----------------------------------------------------------------------------
(* Ended by its own server *)

\* A server that has finished stays so, and no step but a FIN that is
\* acknowledged ends a stream.
LEMMA EndedKept ==
  ASSUME CInv, [Next]_vars, EndedByItsServer
  PROVE  EndedByItsServer'
<1>0. /\ TInv /\ status \in [Conn -> Status] /\ srv \in [Conn -> ServerState]
  BY DEF CInv, TInv, TypeOK
<1>1. ASSUME \A d \in Conn : status'[d] = "CLOSE_WAIT" => status[d] = "CLOSE_WAIT",
             \A d \in Conn : srv[d] = "FIN_SENT" => srv'[d] = "FIN_SENT"
      PROVE  EndedByItsServer'
  BY <1>1 DEF EndedByItsServer
<1>2. CASE UNCHANGED vars
  BY <1>1, <1>2 DEF vars, connVars, srvVars
<1>3. CASE Application
  <2>1. srv' = srv
    BY <1>3 DEF Application, Connect, Write, Read, Close, srvVars
  <2>2. \A d \in Conn : status'[d] \in {status[d], "SYN_SENT", "CLOSED"}
    BY <1>0, <1>3 DEF Application, Connect, Write, Read, Close, connVars
  <2>3. QED
    BY <1>1, <2>1, <2>2
<1>4. CASE Peer
  <2>1. status' = status
    BY <1>4 DEF Peer, SrvSyn, SrvAck, SrvGet, SrvReset, SrvSend, connVars
  <2>2. \A d \in Conn : srv[d] = "FIN_SENT" => srv'[d] = "FIN_SENT"
    BY <1>0, <1>4 DEF Peer, SrvSyn, SrvAck, SrvGet, SrvReset, SrvSend
  <2>3. QED
    BY <1>1, <2>1, <2>2
<1>5. CASE Network
  <2>1. PICK c \in 1..used : \E h \in Segments(c), ok \in BOOLEAN :
           RecvClosed(c, h, ok) \/ RecvRst(c, h) \/ RecvSynAck(c, h, ok) \/ RecvData(c, h, ok)
    BY <1>5, NetworkOwn
  <2>2. PICK g \in Segments(c), ok \in BOOLEAN :
           RecvClosed(c, g, ok) \/ RecvRst(c, g) \/ RecvSynAck(c, g, ok) \/ RecvData(c, g, ok)
    BY <2>1
  <2>3. CASE RecvClosed(c, g, ok) \/ RecvRst(c, g) \/ RecvSynAck(c, g, ok)
    <3>1. srv' = srv
      BY <2>3 DEF RecvClosed, RecvRst, RecvSynAck, srvVars
    <3>2. \A d \in Conn : status'[d] \in {status[d], "ESTABLISHED", "CLOSED"}
      BY <1>0, <2>3 DEF RecvClosed, RecvRst, RecvSynAck
    <3>3. QED
      BY <1>1, <3>1, <3>2
  <2>4. CASE RecvData(c, g, ok)
    <3>1. /\ status' = [status EXCEPT ![c] = IF ok /\ g.fin THEN "CLOSE_WAIT" ELSE @]
          /\ srv' = srv /\ (g.fin => srv[c] = "FIN_SENT")
      BY <2>4, RecvDataSteps
    <3>2. CASE g.fin
      BY <1>0, <3>1, <3>2 DEF EndedByItsServer
    <3>3. CASE ~ g.fin
      <4>1. status' = status
        BY <1>0, <3>1, <3>3
      <4>2. QED
        BY <1>1, <3>1, <4>1
    <3>4. QED
      BY <3>2, <3>3
  <2>5. QED
    BY <2>2, <2>3, <2>4
<1>6. QED
  BY <1>2, <1>3, <1>4, <1>5 DEF Next

\* With one connection for each server a client is told that its stream is
\* over only when its own server has finished, for every number of
\* connections: the disagreement that two connections to one server show has
\* no other cause.
THEOREM TcpEndedByItsServer ==
  ASSUME Reconnect = FALSE
  PROVE  Spec => []EndedByItsServer
<1>1. Init => EndedByItsServer
  BY DEF Init, EndedByItsServer
<1>2. CInv /\ [Next]_vars => CInv'
  BY NextCInv
<1>3. CInv /\ EndedByItsServer /\ [Next]_vars => EndedByItsServer'
  BY EndedKept
<1>4. QED
  BY <1>1, <1>2, <1>3, InitCInv, PTL DEF Spec

-----------------------------------------------------------------------------
(* Refinement *)

\* How far the stream of a connection has been gone through.
Upto(c) == IF rcvNxt[c] = 0 THEN 0 ELSE rcvNxt[c] - 1

\* The stream by the status of its connection.
LEMMA PhaseValues ==
  ASSUME NEW c \in Conn
  PROVE  /\ status[c] = "CLOSED" => Phase(c) = "dead"
         /\ status[c] = "CLOSE_WAIT" => Phase(c) = "ended"
         /\ status[c] \notin {"CLOSED", "CLOSE_WAIT"} => Phase(c) = "open"
BY DEF Phase

\* The same in the next state.
LEMMA PhaseValuesNext ==
  ASSUME NEW c \in Conn
  PROVE  /\ status'[c] = "CLOSED" => Phase(c)' = "dead"
         /\ status'[c] = "CLOSE_WAIT" => Phase(c)' = "ended"
         /\ status'[c] \notin {"CLOSED", "CLOSE_WAIT"} => Phase(c)' = "open"
BY DEF Phase

\* The stream of a connection whose status stays.
LEMMA PhaseFrame ==
  ASSUME NEW c \in Conn, status'[c] = status[c]
  PROVE  Phase(c)' = Phase(c)
BY DEF Phase

\* The phases after a step that moves one stream.
LEMMA PhaseUpdate ==
  ASSUME NEW c \in Conn, NEW v, Phase(c)' = v, \A d \in Conn \ {c} : Phase(d)' = Phase(d)
  PROVE  [d \in Conn |-> Phase(d)]' = [[d \in Conn |-> Phase(d)] EXCEPT ![c] = v]
<1>1. \A d \in Conn : Phase(d)' = IF d = c THEN v ELSE Phase(d)
  OBVIOUS
<1>2. QED
  BY <1>1

\* A step in which no stream moves.
LEMMA QuietStream ==
  ASSUME UNCHANGED <<sent, buf, r>>,
         \A d \in Conn : srv'[d] = "FIN_SENT" <=> srv[d] = "FIN_SENT",
         \A d \in Conn : Upto(d)' = Upto(d),
         \A d \in Conn : Phase(d)' = Phase(d)
  PROVE  UNCHANGED S!streamVars
<1>1. [d \in Conn |-> srv[d] = "FIN_SENT"]' = [d \in Conn |-> srv[d] = "FIN_SENT"]
  OBVIOUS
<1>2. [d \in Conn |-> Upto(d)]' = [d \in Conn |-> Upto(d)]
  OBVIOUS
<1>3. [d \in Conn |-> Phase(d)]' = [d \in Conn |-> Phase(d)]
  OBVIOUS
<1>4. QED
  BY <1>1, <1>2, <1>3 DEF S!streamVars, Upto

\* A step in which a connection is given up.
LEMMA DeadStream ==
  ASSUME NEW c \in Conn, status'[c] = "CLOSED", UNCHANGED <<sent, buf, r, srv, rcvNxt>>,
         \A d \in Conn \ {c} : Phase(d)' = Phase(d)
  PROVE  S!Next
<1>1. Phase(c)' = "dead"
  BY PhaseValuesNext
<1>2. [d \in Conn |-> Phase(d)]' = [[d \in Conn |-> Phase(d)] EXCEPT ![c] = "dead"]
  BY <1>1, PhaseUpdate
<1>3. S!Die(c)
  BY <1>2 DEF S!Die
<1>4. QED
  BY <1>3 DEF S!Next

\* The services of the application: a read takes, a close kills, and a
\* connection that could not be opened is dead.
LEMMA ApplicationRefines == ASSUME CInv, Application PROVE [S!Next]_(S!streamVars)
<1>1. TInv /\ \A d \in Conn : ConnInv(d)
  BY DEF CInv
<1>2. status \in [Conn -> Status] /\ r \in [Conn -> 0..BufSize]
  BY <1>1 DEF TInv, TypeOK
<1>3. ASSUME NEW s \in Server, NEW ok \in BOOLEAN, Connect(s, ok) PROVE [S!Next]_(S!streamVars)
  <2>1. used + 1 \in Conn /\ used + 1 > used
    BY <1>1, <1>3, BoundsAssumption DEF Connect, TInv, TypeOK, Conn
  <2>2. PICK c \in Conn : c = used + 1 /\ c > used
    BY <2>1
  <2>3. /\ status' = [status EXCEPT ![c] = IF ok THEN "SYN_SENT" ELSE "CLOSED"]
        /\ UNCHANGED <<sent, buf, r, srv, rcvNxt>>
    BY <1>3, <2>2 DEF Connect, srvVars
  <2>4. \A d \in Conn \ {c} : Phase(d)' = Phase(d)
    <3>1. \A d \in Conn \ {c} : status'[d] = status[d]
      BY <1>2, <2>3
    <3>2. QED
      BY <3>1, PhaseFrame
  <2>5. CASE ok
    <3>1. status[c] = "NONE" /\ status'[c] = "SYN_SENT"
      BY <1>1, <1>2, <2>2, <2>3, <2>5 DEF ConnInv
    <3>2. Phase(c)' = Phase(c)
      BY <3>1, PhaseValues, PhaseValuesNext
    <3>3. \A d \in Conn : Phase(d)' = Phase(d) /\ Upto(d)' = Upto(d)
      BY <2>3, <2>4, <3>2 DEF Upto
    <3>4. QED
      BY <2>3, <3>3, QuietStream
  <2>6. CASE ~ ok
    <3>1. status'[c] = "CLOSED"
      BY <1>2, <2>3, <2>6
    <3>2. QED
      BY <2>3, <2>4, <3>1, DeadStream
  <2>7. QED
    BY <2>5, <2>6
<1>4. ASSUME NEW c \in Conn, NEW n \in 1..MaxWrite, Write(c, n) PROVE UNCHANGED S!streamVars
  <2>1. UNCHANGED <<sent, buf, r, srv, rcvNxt, status>>
    BY <1>4 DEF Write, fileVars, srvVars
  <2>2. \A d \in Conn : Phase(d)' = Phase(d) /\ Upto(d)' = Upto(d)
    BY <2>1, PhaseFrame DEF Upto
  <2>3. QED
    BY <2>1, <2>2, QuietStream
<1>5. ASSUME NEW c \in Conn, NEW n \in 1..BufSize, Read(c, n) PROVE S!Next
  <2>1. /\ r[c] \in Nat /\ Len(buf[c]) \in Nat /\ r[c] <= Len(buf[c]) /\ Len(buf[c]) <= sent[c]
        /\ sent[c] \in 0..Length /\ Length \in Nat
    BY <1>1, ConnTypes, BoundsAssumption DEF TInv, TypeOK, ConnInv
  <2>2. PICK m \in Nat : m = Min({r[c] + n, Len(buf[c])}) /\ m <= Len(buf[c]) /\ r[c] <= m
    <3>1. n \in Nat
      BY BoundsAssumption
    <3>2. QED
      BY <2>1, <3>1, MovedOn
  <2>3. /\ r' = [r EXCEPT ![c] = m] /\ status[c] = "CLOSE_WAIT"
        /\ UNCHANGED <<sent, buf, srv, rcvNxt, status>>
    BY <1>5, <2>2 DEF Read, connVars, srvVars
  <2>4. PICK k \in 0..Length : m = r[c] + k
    <3>1. m - r[c] \in 0..Length /\ m = r[c] + (m - r[c])
      BY <2>1, <2>2
    <3>2. QED
      BY <3>1
  <2>5. r' = [r EXCEPT ![c] = @ + k] /\ r[c] + k <= Len(buf[c])
    BY <1>2, <2>2, <2>3, <2>4
  <2>6. Phase(c) = "ended" /\ \A d \in Conn : Phase(d)' = Phase(d)
    BY <2>3, PhaseValues, PhaseFrame
  <2>7. S!Take(c, k)
    <3>1. [d \in Conn |-> Phase(d)]' = [d \in Conn |-> Phase(d)]
      BY <2>6
    <3>2. QED
      BY <2>3, <2>5, <2>6, <3>1 DEF S!Take
  <2>8. QED
    BY <2>7 DEF S!Next
<1>6. ASSUME NEW c \in Conn, Close(c) PROVE S!Next
  <2>1. /\ status' = [status EXCEPT ![c] = "CLOSED"] /\ UNCHANGED <<sent, buf, r, srv, rcvNxt>>
    BY <1>6 DEF Close, fileVars, srvVars
  <2>2. status'[c] = "CLOSED" /\ \A d \in Conn \ {c} : status'[d] = status[d]
    BY <1>2, <2>1
  <2>3. QED
    BY <2>1, <2>2, DeadStream, PhaseFrame
<1>7. QED
  BY <1>3, <1>4, <1>5, <1>6 DEF Application

\* The server: what it sends is produced, nothing else moves.
LEMMA PeerRefines == ASSUME CInv, Peer PROVE [S!Next]_(S!streamVars)
<1>1. TInv /\ srv \in [Conn -> ServerState] /\ sent \in [Conn -> 0..Length]
  BY DEF CInv, TInv, TypeOK
<1>2. PICK p \in 1..used : \/ SrvSyn(p) \/ SrvAck(p) \/ SrvGet(p) \/ SrvReset(p)
                           \/ \E n \in 0..Length, f \in BOOLEAN : SrvSend(p, n, f)
  BY DEF Peer
<1>3. p \in Conn
  BY <1>1, InConn
<1>4. UNCHANGED <<connVars, fileVars>>
  BY <1>2 DEF SrvSyn, SrvAck, SrvGet, SrvReset, SrvSend
<1>5. UNCHANGED <<status, rcvNxt, buf, r>>
  BY <1>4 DEF connVars, fileVars
<1>6. \A d \in Conn : Phase(d)' = Phase(d) /\ Upto(d)' = Upto(d)
  BY <1>5, PhaseFrame DEF Upto
<1>7. CASE SrvSyn(p) \/ SrvAck(p) \/ SrvGet(p) \/ SrvReset(p)
  <2>1. sent' = sent
    BY <1>7 DEF SrvSyn, SrvAck, SrvGet, SrvReset
  <2>2. \A d \in Conn : srv'[d] = "FIN_SENT" <=> srv[d] = "FIN_SENT"
    BY <1>1, <1>3, <1>7 DEF SrvSyn, SrvAck, SrvGet, SrvReset
  <2>3. QED
    BY <1>5, <1>6, <2>1, <2>2, QuietStream
<1>8. ASSUME NEW n \in 0..Length, NEW f \in BOOLEAN, SrvSend(p, n, f) PROVE S!Next
  <2>1. /\ srv[p] = "ESTABLISHED" /\ sent' = [sent EXCEPT ![p] = @ + n]
        /\ srv' = [srv EXCEPT ![p] = IF f THEN "FIN_SENT" ELSE @]
    BY <1>8 DEF SrvSend
  <2>2. [d \in Conn |-> Phase(d)]' = [d \in Conn |-> Phase(d)]
    BY <1>6
  <2>3. [d \in Conn |-> srv[d] = "FIN_SENT"]' \in
          {[d \in Conn |-> srv[d] = "FIN_SENT"],
           [[d \in Conn |-> srv[d] = "FIN_SENT"] EXCEPT ![p] = TRUE]}
    <3>1. CASE f
      <4>1. srv'[p] = "FIN_SENT" /\ \A d \in Conn \ {p} : srv'[d] = srv[d]
        BY <1>1, <1>3, <2>1, <3>1
      <4>2. \A d \in Conn : (srv'[d] = "FIN_SENT") = IF d = p THEN TRUE ELSE srv[d] = "FIN_SENT"
        BY <4>1
      <4>3. [d \in Conn |-> srv[d] = "FIN_SENT"]' = [[d \in Conn |-> srv[d] = "FIN_SENT"] EXCEPT ![p] = TRUE]
        BY <4>2
      <4>4. QED
        BY <4>3
    <3>2. CASE ~ f
      <4>1. srv' = srv
        BY <1>1, <1>3, <2>1, <3>2
      <4>2. [d \in Conn |-> srv[d] = "FIN_SENT"]' = [d \in Conn |-> srv[d] = "FIN_SENT"]
        BY <4>1
      <4>3. QED
        BY <4>2
    <3>3. QED
      BY <3>1, <3>2
  <2>4. ~ [d \in Conn |-> srv[d] = "FIN_SENT"][p]
    BY <1>3, <2>1
  <2>5. S!Produce(p, n)
    BY <1>5, <2>1, <2>2, <2>3, <2>4 DEF S!Produce
  <2>6. QED
    BY <1>3, <2>5 DEF S!Next
<1>9. QED
  BY <1>2, <1>7, <1>8

\* A segment of data in order is a step through its bytes; the stream ends
\* with a FIN that could be acknowledged.
LEMMA InOrderRefines ==
  ASSUME CInv, NEW c \in 1..used, NEW g \in Segments(c), NEW ok \in BOOLEAN, RecvData(c, g, ok),
         g.seq = rcvNxt[c]
  PROVE  S!Next
<1>1. /\ c \in Conn /\ status[c] = "ESTABLISHED" /\ rcvNxt[c] >= 1 /\ r' = r
      /\ DataLen(g) \in Nat /\ g.fin \in BOOLEAN /\ (g.fin => srv[c] = "FIN_SENT")
      /\ status' = [status EXCEPT ![c] = IF ok /\ g.fin THEN "CLOSE_WAIT" ELSE @]
      /\ UNCHANGED <<srv, sent>>
      /\ rcvNxt[c] + DataLen(g) <= sent[c] + 1
      /\ rcvNxt' = [rcvNxt EXCEPT ![c] = @ + DataLen(g) + (IF g.fin THEN 1 ELSE 0)]
      /\ \/ buf' = [buf EXCEPT ![c] = @ \o PayloadOf(g)]
         \/ Len(buf[c]) + DataLen(g) > BufSize /\ buf' = buf
  BY RecvDataSteps
<1>2. /\ status \in [Conn -> Status] /\ rcvNxt \in [Conn -> 0..Length + 2]
      /\ rcvNxt[c] \in Nat /\ sent[c] \in 0..Length /\ Length \in Nat
  <2>1. /\ status \in [Conn -> Status] /\ rcvNxt \in [Conn -> 0..Length + 2]
        /\ sent \in [Conn -> 0..Length]
    BY DEF CInv, TInv, TypeOK
  <2>2. c \in Conn /\ Length \in Nat
    BY <1>1, BoundsAssumption
  <2>3. QED
    BY <2>1, <2>2
<1>3. PICK n \in 0..Length : n = DataLen(g)
  BY <1>1, <1>2
<1>4. PICK u \in Nat : u = rcvNxt[c] - 1 /\ Upto(c) = u /\ u + n <= sent[c]
  <2>1. rcvNxt[c] >= 1 /\ rcvNxt[c] + n <= sent[c] + 1
    BY <1>1, <1>3
  <2>2. rcvNxt[c] - 1 \in Nat /\ rcvNxt[c] # 0 /\ rcvNxt[c] - 1 + n <= sent[c]
    BY <1>2, <2>1
  <2>3. Upto(c) = rcvNxt[c] - 1
    BY <2>2 DEF Upto
  <2>4. QED
    BY <2>2, <2>3
<1>5. PayloadOf(g) = S!Bytes(c, u, n)
  <2>1. \A i \in Nat : g.seq + i - 1 = u + i
    BY <1>2, <1>4
  <2>2. g.port = c
    BY SegmentShape DEF CInv, TInv
  <2>3. ASSUME NEW i \in 1..n
        PROVE  (\E j \in 1..i : g.seq + j - 1 \in Nul[g.port]) <=> (\E j \in 1..i : u + j \in Nul[c])
    BY <1>3, <2>1, <2>2
  <2>4. ASSUME NEW i \in 1..n
        PROVE  (IF \E j \in 1..i : g.seq + j - 1 \in Nul[g.port] THEN 0 ELSE g.seq + i - 1)
                 = (IF \E j \in 1..i : u + j \in Nul[c] THEN 0 ELSE u + i)
    <3>1. g.seq + i - 1 = u + i
      BY <1>3, <2>1
    <3>2. QED
      BY <2>3, <3>1, Zenon
  <2>5. QED
    BY <1>3, <2>4, Zenon DEF PayloadOf, strncpy, S!Bytes
<1>6. /\ Phase(c) = "open" /\ \A d \in Conn \ {c} : Phase(d)' = Phase(d)
  <2>1. \A d \in Conn \ {c} : status'[d] = status[d]
    BY <1>1, <1>2
  <2>2. QED
    BY <1>1, <2>1, PhaseValues, PhaseFrame
<1>7. S!Kept(c, n)
  BY <1>1, <1>3, <1>4, <1>5 DEF S!Kept, Upto
<1>8. \A d \in Conn \ {c} : Upto(d)' = Upto(d)
  BY <1>1, <1>2 DEF Upto
<1>9. CASE ~ g.fin
  <2>1. rcvNxt'[c] = rcvNxt[c] + n
    BY <1>1, <1>2, <1>3, <1>9
  <2>2. Upto(c)' = u + n
    <3>1. rcvNxt[c] = u + 1 /\ u \in Nat /\ n \in Nat
      BY <1>2, <1>4
    <3>2. rcvNxt'[c] = u + 1 + n
      BY <2>1, <3>1
    <3>3. rcvNxt'[c] # 0 /\ rcvNxt'[c] - 1 = u + n
      BY <3>1, <3>2
    <3>4. QED
      BY <3>3 DEF Upto
  <2>3. [d \in Conn |-> Upto(d)]' = [[d \in Conn |-> Upto(d)] EXCEPT ![c] = @ + n]
    <3>1. \A d \in Conn : Upto(d)' = IF d = c THEN Upto(c) + n ELSE Upto(d)
      BY <1>4, <1>8, <2>2
    <3>2. QED
      BY <1>1, <3>1
  <2>4. status'[c] = status[c]
    BY <1>1, <1>2, <1>9
  <2>5. [d \in Conn |-> Phase(d)]' = [d \in Conn |-> Phase(d)]
    BY <1>1, <1>6, <2>4, PhaseFrame
  <2>6. S!Consume(c, n)
    BY <1>1, <1>4, <1>6, <1>7, <2>3, <2>5 DEF S!Consume, Upto
  <2>7. QED
    BY <1>1, <2>6 DEF S!Next
<1>10. CASE g.fin
  <2>1. rcvNxt'[c] = rcvNxt[c] + n + 1
    BY <1>1, <1>2, <1>3, <1>10
  <2>2. Upto(c)' = u + n + 1
    <3>1. rcvNxt[c] = u + 1 /\ u \in Nat /\ n \in Nat
      BY <1>2, <1>4
    <3>2. rcvNxt'[c] = u + 1 + n + 1
      BY <2>1, <3>1
    <3>3. rcvNxt'[c] # 0 /\ rcvNxt'[c] - 1 = u + n + 1
      BY <3>1, <3>2
    <3>4. QED
      BY <3>3 DEF Upto
  <2>3. [d \in Conn |-> Upto(d)]' = [[d \in Conn |-> Upto(d)] EXCEPT ![c] = @ + n + 1]
    <3>1. \A d \in Conn : Upto(d)' = IF d = c THEN Upto(c) + n + 1 ELSE Upto(d)
      BY <1>4, <1>8, <2>2
    <3>2. QED
      BY <1>1, <3>1
  <2>4. [d \in Conn |-> Phase(d)]' \in {[d \in Conn |-> Phase(d)],
                                        [[d \in Conn |-> Phase(d)] EXCEPT ![c] = "ended"]}
    <3>1. CASE ok
      <4>1. status'[c] = "CLOSE_WAIT"
        BY <1>1, <1>2, <1>10, <3>1
      <4>2. Phase(c)' = "ended"
        BY <1>1, <4>1, PhaseValuesNext
      <4>3. QED
        BY <1>1, <1>6, <4>2, PhaseUpdate
    <3>2. CASE ~ ok
      <4>1. status'[c] = status[c]
        BY <1>1, <1>2, <3>2
      <4>2. [d \in Conn |-> Phase(d)]' = [d \in Conn |-> Phase(d)]
        BY <1>1, <1>6, <4>1, PhaseFrame
      <4>3. QED
        BY <4>2
    <3>3. QED
      BY <3>1, <3>2
  <2>5. srv[c] = "FIN_SENT"
    BY <1>1, <1>10
  <2>6. S!ConsumeLast(c, n)
    BY <1>1, <1>4, <1>6, <1>7, <2>3, <2>4, <2>5 DEF S!ConsumeLast, Upto
  <2>7. QED
    BY <1>1, <2>6 DEF S!Next
<1>11. QED
  BY <1>1, <1>9, <1>10

\* A segment of data out of order moves no byte; its FIN, when it could be
\* acknowledged, ends the stream.
LEMMA OutOfOrderRefines ==
  ASSUME CInv, NEW c \in 1..used, NEW g \in Segments(c), NEW ok \in BOOLEAN, RecvData(c, g, ok),
         g.seq # rcvNxt[c]
  PROVE  [S!Next]_(S!streamVars)
<1>1. /\ c \in Conn /\ status[c] = "ESTABLISHED" /\ r' = r
      /\ g.fin \in BOOLEAN /\ (g.fin => srv[c] = "FIN_SENT")
      /\ status' = [status EXCEPT ![c] = IF ok /\ g.fin THEN "CLOSE_WAIT" ELSE @]
      /\ UNCHANGED <<srv, sent, rcvNxt, buf>>
  BY RecvDataSteps
<1>2. status \in [Conn -> Status]
  BY DEF CInv, TInv, TypeOK
<1>3. /\ Phase(c) = "open" /\ \A d \in Conn \ {c} : Phase(d)' = Phase(d)
  <2>1. \A d \in Conn \ {c} : status'[d] = status[d]
    BY <1>1, <1>2
  <2>2. QED
    BY <1>1, <2>1, PhaseValues, PhaseFrame
<1>4. CASE ok /\ g.fin
  <2>1. status'[c] = "CLOSE_WAIT"
    BY <1>1, <1>2, <1>4
  <2>2. Phase(c)' = "ended"
    BY <1>1, <2>1, PhaseValuesNext
  <2>3. [d \in Conn |-> Phase(d)]' = [[d \in Conn |-> Phase(d)] EXCEPT ![c] = "ended"]
    BY <1>1, <1>3, <2>2, PhaseUpdate
  <2>4. srv[c] = "FIN_SENT"
    BY <1>1, <1>4
  <2>5. S!End(c)
    BY <1>1, <1>3, <2>3, <2>4 DEF S!End
  <2>6. QED
    BY <1>1, <2>5 DEF S!Next
<1>5. CASE ~ (ok /\ g.fin)
  <2>1. status'[c] = status[c]
    BY <1>1, <1>2, <1>5
  <2>2. \A d \in Conn : Phase(d)' = Phase(d) /\ Upto(d)' = Upto(d)
    BY <1>1, <1>3, <2>1, PhaseFrame DEF Upto
  <2>3. QED
    BY <1>1, <2>2, QuietStream
<1>6. QED
  BY <1>4, <1>5

\* The segments that open and close a connection.
LEMMA ControlRefines ==
  ASSUME CInv, NEW c \in 1..used, NEW g \in Segments(c), NEW ok \in BOOLEAN,
         RecvClosed(c, g, ok) \/ RecvRst(c, g) \/ RecvSynAck(c, g, ok)
  PROVE  [S!Next]_(S!streamVars)
<1>1. TInv /\ TypeOK /\ status \in [Conn -> Status] /\ rcvNxt \in [Conn -> 0..Length + 2]
  BY DEF CInv, TInv, TypeOK
<1>2. c \in Conn /\ ConnInv(c)
  BY <1>1, InConn DEF CInv
<1>3. UNCHANGED <<sent, buf, r, srv>>
  BY DEF RecvClosed, RecvRst, RecvSynAck, fileVars, srvVars
<1>4. CASE RecvClosed(c, g, ok)
  <2>1. UNCHANGED <<status, rcvNxt>>
    BY <1>4 DEF RecvClosed
  <2>2. \A d \in Conn : Phase(d)' = Phase(d) /\ Upto(d)' = Upto(d)
    BY <2>1, PhaseFrame DEF Upto
  <2>3. QED
    BY <1>3, <2>2, QuietStream
<1>5. CASE RecvRst(c, g)
  <2>1. status' = [status EXCEPT ![c] = "CLOSED"] /\ rcvNxt' = rcvNxt
    BY <1>5 DEF RecvRst
  <2>2. status'[c] = "CLOSED" /\ \A d \in Conn \ {c} : status'[d] = status[d]
    BY <1>1, <1>2, <2>1
  <2>3. QED
    BY <1>2, <1>3, <2>1, <2>2, DeadStream, PhaseFrame
<1>6. CASE RecvSynAck(c, g, ok)
  <2>1. /\ g.kind = "SYNACK" /\ status[c] = "SYN_SENT"
        /\ status' = [status EXCEPT ![c] = "ESTABLISHED"] /\ rcvNxt' = [rcvNxt EXCEPT ![c] = g.seq + 1]
    BY <1>6 DEF RecvSynAck
  <2>2. g.seq = 0
    BY <1>1, <2>1, SegmentShape
  <2>3. /\ status'[c] = "ESTABLISHED" /\ rcvNxt'[c] = 1
        /\ \A d \in Conn \ {c} : status'[d] = status[d] /\ rcvNxt'[d] = rcvNxt[d]
    BY <1>1, <1>2, <2>1, <2>2
  <2>4. rcvNxt[c] = 0
    BY <1>2, <2>1 DEF ConnInv
  <2>5. Phase(c)' = Phase(c) /\ Upto(c)' = Upto(c)
    BY <1>2, <2>1, <2>3, <2>4, PhaseValues, PhaseValuesNext DEF Upto
  <2>6. \A d \in Conn : Phase(d)' = Phase(d) /\ Upto(d)' = Upto(d)
    BY <2>3, <2>5, PhaseFrame DEF Upto
  <2>7. QED
    BY <1>3, <2>6, QuietStream
<1>7. QED
  BY <1>4, <1>5, <1>6

\* Initially no byte was sent.
LEMMA InitStream == Init => S!Init
<1>1. SUFFICES ASSUME Init PROVE S!Init
  OBVIOUS
<1>2. \A c \in Conn : Phase(c) = "open" /\ srv[c] # "FIN_SENT" /\ rcvNxt[c] = 0
  BY <1>1, PhaseValues DEF Init
<1>3. [c \in Conn |-> srv[c] = "FIN_SENT"] = [c \in Conn |-> FALSE]
  BY <1>2
<1>4. QED
  BY <1>1, <1>2, <1>3 DEF Init, S!Init

\* Every step is a step of the streams or leaves them alone.
LEMMA NextStream == CInv /\ [Next]_vars => [S!Next]_(S!streamVars)
<1>1. SUFFICES ASSUME CInv, [Next]_vars PROVE [S!Next]_(S!streamVars)
  OBVIOUS
<1>2. CASE UNCHANGED vars
  <2>1. UNCHANGED <<sent, buf, r, srv, status, rcvNxt>>
    BY <1>2 DEF vars, connVars, fileVars, srvVars
  <2>2. \A d \in Conn : Phase(d)' = Phase(d) /\ Upto(d)' = Upto(d)
    BY <2>1, PhaseFrame DEF Upto
  <2>3. QED
    BY <2>1, <2>2, QuietStream
<1>3. CASE Network
  <2>1. PICK c \in 1..used : \E g \in Segments(c), ok \in BOOLEAN :
           RecvClosed(c, g, ok) \/ RecvRst(c, g) \/ RecvSynAck(c, g, ok) \/ RecvData(c, g, ok)
    BY <1>1, <1>3, NetworkOwn
  <2>2. PICK g \in Segments(c), ok \in BOOLEAN :
           RecvClosed(c, g, ok) \/ RecvRst(c, g) \/ RecvSynAck(c, g, ok) \/ RecvData(c, g, ok)
    BY <2>1
  <2>3. QED
    BY <1>1, <2>2, InOrderRefines, OutOfOrderRefines, ControlRefines
<1>4. QED
  BY <1>1, <1>2, <1>3, ApplicationRefines, PeerRefines DEF Next

\* The TCP of the clients implements the stream over a network that loses,
\* duplicates, delays and reorders, for every number of connections and every
\* size: a client reads the bytes of its server in order and none twice, and
\* passes over a piece only when the file has no room for it or, by one byte,
\* at a FIN that could not be acknowledged, as long as no server is connected
\* to twice.
THEOREM TcpImplementsStream ==
  ASSUME Reconnect = FALSE
  PROVE  Spec => ImplementsStream
<1>1. CInv /\ [Next]_vars => CInv'
  BY NextCInv
<1>2. QED
  BY <1>1, InitCInv, InitStream, NextStream, PTL DEF Spec, ImplementsStream, S!Spec
=============================================================================
