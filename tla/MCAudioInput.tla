---------------------------- MODULE MCAudioInput ----------------------------
(***************************************************************************)
(* AudioInput on small instances, for TLC.                                 *)
(***************************************************************************)
EXTENDS AudioInput
=============================================================================
