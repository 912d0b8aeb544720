------------------------------ MODULE MCCallback ------------------------------
(* Callback for TLC; the instances are in Callback_*.cfg.                      *)
EXTENDS Callback
=============================================================================
