------------------------------ MODULE MCSched ------------------------------
(* Sched for TLC; the instances are in Sched_*.cfg.                         *)
EXTENDS Sched
=============================================================================
