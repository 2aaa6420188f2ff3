---------------------------- MODULE FrameChannel ----------------------------
(***************************************************************************)
(* What the audio-output path of iad promises, whatever its threads, locks *)
(* and buffers look like.  Clients are served one session at a time.  The  *)
(* audio of a session enters a pipe a chunk at a time and leaves it, oldest*)
(* first, for the speaker.  A chunk may be lost in two ways only: the      *)
(* device refuses it when its turn comes, or its session ends while it is  *)
(* still queued.  Nothing is lost in the middle of a session, nothing is   *)
(* played twice, nothing overtakes.                                        *)
(*                                                                         *)
(* A chunk is what one recv() of the server returns.  Chunks are numbered  *)
(* 1, 2, 3, ... in the order the daemon receives them.                     *)
(***************************************************************************)
EXTENDS Naturals, FiniteSets

CONSTANTS Clients,   \* the connections that are ever made
          NoClient,  \* no session is open; not one of Clients
          Depth      \* how many chunks the daemon holds at most

VARIABLES session,   \* the connection being served, or NoClient
          received,  \* number of chunks received so far
          pipe,      \* the chunks received that are neither played nor lost
          played,    \* the chunks the device has accepted
          lost       \* the chunks that will never be played

channelVars == <<session, received, pipe, played, lost>>

Init == /\ session = NoClient
        /\ received = 0
        /\ pipe = {}
        /\ played = {}
        /\ lost = {}

Open(c) == /\ session = NoClient
           /\ session' = c
           /\ UNCHANGED <<received, pipe, played, lost>>

Receive == /\ session # NoClient
           /\ Cardinality(pipe) < Depth
           /\ received' = received + 1
           /\ pipe' = pipe \cup {received + 1}
           /\ UNCHANGED <<session, played, lost>>

Oldest(n) == /\ n \in pipe
             /\ \A m \in pipe : n <= m

Play(n) == /\ Oldest(n)
           /\ pipe' = pipe \ {n}
           /\ played' = played \cup {n}
           /\ UNCHANGED <<session, received, lost>>

Refuse(n) == /\ Oldest(n)
             /\ pipe' = pipe \ {n}
             /\ lost' = lost \cup {n}
             /\ UNCHANGED <<session, received, played>>

\* The session ends.  A prefix of the pipe, already on its way to the device,
\* survives it; the newer chunks are discarded.
Close(keep) == /\ session # NoClient
               /\ keep \subseteq pipe
               /\ \A k \in keep, d \in pipe \ keep : k < d
               /\ session' = NoClient
               /\ pipe' = keep
               /\ lost' = lost \cup (pipe \ keep)
               /\ UNCHANGED <<received, played>>

Next == \/ \E c \in Clients : Open(c)
        \/ Receive
        \/ \E n \in pipe : Play(n) \/ Refuse(n)
        \/ \E keep \in SUBSET pipe : Close(keep)

Spec == Init /\ [][Next]_channelVars
=============================================================================
