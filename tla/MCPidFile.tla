----------------------------- MODULE MCPidFile -----------------------------
(***************************************************************************)
(* PidFile on small instances, for TLC.                                    *)
(***************************************************************************)
EXTENDS PidFile, TLC

CONSTANTS l1, l2, l3

\* The launches that stay in the foreground are interchangeable.
Symmetry == Permutations(Launches \ Background)
=============================================================================
