----------------------------- MODULE MCTcpClient -----------------------------
(* TcpClient for TLC; the instances are in TcpClient_*.cfg.                  *)
EXTENDS TcpClient

\* The second byte of every stream is a NUL.
SecondByteNul == [p \in Conn |-> {2}]
=============================================================================
