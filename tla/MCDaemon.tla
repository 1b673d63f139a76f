------------------------------ MODULE MCDaemon ------------------------------
(* Two processes, one of which may be started while the other stops.       *)
EXTENDS Daemon, TLC
=============================================================================
