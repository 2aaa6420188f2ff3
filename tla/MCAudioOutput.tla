--------------------------- MODULE MCAudioOutput ---------------------------
(***************************************************************************)
(* AudioOutput on small instances, for TLC.                                *)
(***************************************************************************)
EXTENDS AudioOutput
=============================================================================
