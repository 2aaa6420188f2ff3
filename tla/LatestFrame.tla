---------------------------- MODULE LatestFrame ----------------------------
(***************************************************************************)
(* What the buffer of the standalone audio_daemon promises: no more than a *)
(* register between a writer that never waits and a device.  A frame that  *)
(* is offered replaces the one before it, played or not; the device gets   *)
(* the newest frame there is, whole, and each frame at most once.          *)
(*                                                                         *)
(* Frames are numbered 1, 2, 3, ... in the order they are offered.         *)
(***************************************************************************)
EXTENDS Naturals

VARIABLES offered,  \* the newest frame
          played,   \* the last frame the device has taken
          taken     \* how many frames it has taken

latestVars == <<offered, played, taken>>

Init == offered = 0 /\ played = 0 /\ taken = 0

Offer == offered' = offered + 1 /\ UNCHANGED <<played, taken>>

Play == /\ played < offered
        /\ played' = offered
        /\ taken' = taken + 1
        /\ UNCHANGED offered

Next == Offer \/ Play

Spec == Init /\ [][Next]_latestVars
=============================================================================
