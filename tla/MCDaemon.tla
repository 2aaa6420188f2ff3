------------------------------ MODULE MCDaemon ------------------------------
(***************************************************************************)
(* Daemon has no parameters: TLC checks it as it is.                       *)
(***************************************************************************)
EXTENDS Daemon
=============================================================================
