------------------------------- MODULE Stream -------------------------------
(***************************************************************************)
(* What a stream socket promises to the application that reads it, one     *)
(* stream for each connection.  The peer sends bytes, numbered from 1; the *)
(* socket goes through them from first to last and keeps a byte or, when   *)
(* its buffer has no room for what arrived, passes over it.  It is a       *)
(* stream of text: what arrives together is kept up to its first NUL, and  *)
(* the rest of it is blanked.  Once the peer has finished the stream may   *)
(* end, and only then is it read, from its first byte, each byte once.  A  *)
(* stream may die at any time, and then nothing more happens to it.        *)
(***************************************************************************)
EXTENDS Integers, Sequences

CONSTANTS Conn,     \* the streams
          Length,   \* the most bytes a peer sends
          Room,     \* the bytes a buffer holds
          Nul       \* which bytes of a stream are NUL

VARIABLES sent,     \* how many bytes the peer has sent
          finished, \* the peer sends no more
          upto,     \* how many bytes the socket has gone through
          got,      \* the bytes it kept: their number, 0 for a NUL
          phase,    \* "open", "ended" (the application may read) or "dead"
          taken     \* how many of the kept bytes have been read

streamVars == <<sent, finished, upto, got, phase, taken>>

\* The n bytes that follow byte k, when they are copied as text.
Bytes(c, k, n) ==
  [i \in 1..n |-> IF \E j \in 1..i : k + j \in Nul[c] THEN 0 ELSE k + i]

Init ==
  /\ sent = [c \in Conn |-> 0]
  /\ finished = [c \in Conn |-> FALSE]
  /\ upto = [c \in Conn |-> 0]
  /\ got = [c \in Conn |-> <<>>]
  /\ phase = [c \in Conn |-> "open"]
  /\ taken = [c \in Conn |-> 0]

\* The peer sends n more bytes, and they may be its last.
Produce(c, n) ==
  /\ ~ finished[c]
  /\ sent' = [sent EXCEPT ![c] = @ + n]
  /\ finished' \in {finished, [finished EXCEPT ![c] = TRUE]}
  /\ UNCHANGED <<upto, got, phase, taken>>

\* The next n bytes are kept, all of them, or passed over for want of room.
Kept(c, n) ==
  \/ got' = [got EXCEPT ![c] = @ \o Bytes(c, upto[c], n)]
  \/ Len(got[c]) + n > Room /\ got' = got

\* The socket goes through the next n bytes.
Consume(c, n) ==
  /\ phase[c] = "open" /\ upto[c] + n <= sent[c]
  /\ Kept(c, n)
  /\ upto' = [upto EXCEPT ![c] = @ + n]
  /\ UNCHANGED <<sent, finished, phase, taken>>

\* It goes through n bytes and the mark that the peer has finished, which is
\* counted as one more; the stream may end with that.
ConsumeLast(c, n) ==
  /\ phase[c] = "open" /\ finished[c] /\ upto[c] + n <= sent[c]
  /\ Kept(c, n)
  /\ upto' = [upto EXCEPT ![c] = @ + n + 1]
  /\ phase' \in {phase, [phase EXCEPT ![c] = "ended"]}
  /\ UNCHANGED <<sent, finished, taken>>

\* The stream ends where the socket is.
End(c) ==
  /\ phase[c] = "open" /\ finished[c]
  /\ phase' = [phase EXCEPT ![c] = "ended"]
  /\ UNCHANGED <<sent, finished, upto, got, taken>>

\* The stream dies: a reset, a close or a connection that never came about.
Die(c) ==
  /\ phase' = [phase EXCEPT ![c] = "dead"]
  /\ UNCHANGED <<sent, finished, upto, got, taken>>

\* The application takes the next n of the kept bytes.
Take(c, n) ==
  /\ phase[c] = "ended" /\ taken[c] + n <= Len(got[c])
  /\ taken' = [taken EXCEPT ![c] = @ + n]
  /\ UNCHANGED <<sent, finished, upto, got, phase>>

Next ==
  \E c \in Conn :
    \/ \E n \in 0..Length : \/ Produce(c, n)
                            \/ Consume(c, n)
                            \/ ConsumeLast(c, n)
                            \/ Take(c, n)
    \/ End(c)
    \/ Die(c)

Spec == Init /\ [][Next]_streamVars
=============================================================================
