------------------------- MODULE MCStandaloneDaemon -------------------------
(***************************************************************************)
(* StandaloneDaemon on small instances, for TLC.                           *)
(***************************************************************************)
EXTENDS StandaloneDaemon
=============================================================================
