----------------------------- MODULE MCWebClient -----------------------------
(***************************************************************************)
(* WebClient on small instances, for TLC.                                  *)
(***************************************************************************)
EXTENDS WebClient
=============================================================================
