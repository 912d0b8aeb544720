------------------------------ MODULE MCSockets ------------------------------
(* Sockets for TLC; the instances are in Sockets_*.cfg.                      *)
EXTENDS Sockets
=============================================================================
