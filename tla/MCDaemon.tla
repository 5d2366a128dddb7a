------------------------------ MODULE MCDaemon ------------------------------
(***************************************************************************)
(* The TLC instance of Daemon.                                             *)
(***************************************************************************)
EXTENDS Daemon

CONSTANTS first, second, dps1

=============================================================================
