----------------------- MODULE StandaloneDaemon_proof -----------------------
(***************************************************************************)
(* Theorems about StandaloneDaemon, for any number of clients and frames.  *)
(*                                                                         *)
(* The strengthening says that the lock is held exactly while the device   *)
(* is being fed, which is what keeps the frame in the buffer, that         *)
(* audio_buffer_size tells a frame to be played from one played already,   *)
(* that the server has read one frame more than it has put into the        *)
(* buffer, or none, and that a client is active only between the server's  *)
(* wait for its turn and its release.                                      *)
(***************************************************************************)
EXTENDS StandaloneDaemon, SequenceTheorems, TLAPS

\* While the server has a client, client_sock is one.
ClientInv ==
  spc \notin {"none", "setup", "accept", "ended"} => client_sock \in Conns

\* A thread does nothing before main creates it.
MainInv ==
  /\ mpc = "play" => ppc = "none"
  /\ mpc \in {"play", "server"} => spc = "none"

HeldInv ==
  /\ audio_buffer_lock = "play" <=> ppc = "send"
  /\ FrameHeldStill

OrderInv ==
  /\ audio_buffer_size = 0 => played = audio_buffer
  /\ audio_buffer_size > 0 => played < audio_buffer
  /\ buf = IF spc = "deposit" THEN audio_buffer + 1 ELSE audio_buffer

\* A client is active from the server's wait until its release.
ActiveInv ==
  active_client_sock # NoClient <=> spc \in {"read", "deposit", "release"}

SleepInv == ppc = "sleep" => audio_buffer_size = 0

IInv == /\ TypeOK /\ ClientInv /\ MainInv /\ HeldInv /\ OrderInv
        /\ ActiveInv /\ SleepInv

\* The initial state satisfies it.
LEMMA InitIInv == Init => IInv
<1>1. <<>> \in Seq(Conns)
  BY EmptySeq
<1>2. QED
  BY <1>1, StandaloneAssumption DEF Init, IInv, TypeOK, ClientInv, MainInv,
     HeldInv, FrameHeldStill, OrderInv, ActiveInv, SleepInv, ServerStates,
     PlayStates

\* No step breaks it.
LEMMA StepIInv == IInv /\ [Next]_vars => IInv'
<1> SUFFICES ASSUME IInv, [Next]_vars PROVE IInv'
  OBVIOUS
<1> USE StandaloneAssumption
    DEF IInv, TypeOK, ClientInv, MainInv, HeldInv, FrameHeldStill,
        OrderInv, ActiveInv, SleepInv, ServerStates, PlayStates, bufferVars, serverVars, playVars,
        clientVars
<1>1. CASE ServerSetup \/ ServerSetupFails
  BY <1>1 DEF ServerSetup, ServerSetupFails
<1>2. CASE ServerAccept
  <2>1. Head(backlog) \in Conns /\ Tail(backlog) \in Seq(Conns)
    BY <1>2, HeadTailProperties DEF ServerAccept
  <2>2. QED
    BY <1>2, <2>1 DEF ServerAccept
<1>3. CASE ServerAcceptError
  BY <1>3 DEF ServerAcceptError, vars
<1>4. CASE ServerActivate
  BY <1>4 DEF ServerActivate
<1>5. CASE ServerRead
  BY <1>5 DEF ServerRead
<1>6. CASE ServerReadEnd
  BY <1>6 DEF ServerReadEnd
<1>7. CASE ServerDeposit
  BY <1>7 DEF ServerDeposit, LockIsFree, SignalData
<1>8. CASE ServerRelease
  BY <1>8 DEF ServerRelease, ResetActive
<1>9. CASE ServerClose
  BY <1>9 DEF ServerClose
<1>10. CASE PlayReinit
  BY <1>10 DEF PlayReinit
<1>11. CASE PlayWait \/ PlaySpurious
  BY <1>11 DEF PlayWait, PlaySpurious
<1>12. CASE PlaySend
  BY <1>12 DEF PlaySend, KeepsLock
<1>13. CASE PlaySent
  BY <1>13 DEF PlaySent, EmptyBuffer
<1>14. CASE PlaySendFails
  BY <1>14 DEF PlaySendFails
<1>15. CASE MainAdvance
  BY <1>15 DEF MainAdvance, MainCreatePlay, MainCreateServer, MainCreateFails
<1>16. ASSUME NEW c \in Conns, ClientConnect(c) PROVE IInv'
  <2>1. Append(backlog, c) \in Seq(Conns)
    BY <1>16, AppendProperties
  <2>2. QED
    BY <1>16, <2>1 DEF ClientConnect
<1>17. ASSUME NEW c \in Conns, ClientSend(c) PROVE IInv'
  BY <1>17 DEF ClientSend
<1>18. ASSUME NEW c \in Conns, ClientClose(c) PROVE IInv'
  BY <1>18 DEF ClientClose
<1>19. CASE UNCHANGED vars
  BY <1>19 DEF vars
<1>20. QED
  BY <1>1, <1>2, <1>3, <1>4, <1>5, <1>6, <1>7, <1>8, <1>9, <1>10, <1>11,
     <1>12, <1>13, <1>14, <1>15, <1>16, <1>17, <1>18, <1>19
     DEF Next, ServerAdvance, PlayAdvance

LEMMA Invariance == Spec => []IInv
BY InitIInv, StepIInv, PTL DEF Spec

-----------------------------------------------------------------------------
\* The variables keep their types, for any number of clients and frames.
THEOREM TypeCorrect == Spec => []TypeOK
<1>1. IInv => TypeOK
  BY DEF IInv
<1>2. QED
  BY <1>1, Invariance, PTL

\* The device never reads a frame that is being replaced.
THEOREM HeldStill == Spec => []FrameHeldStill
<1>1. IInv => FrameHeldStill
  BY DEF IInv, HeldInv
<1>2. QED
  BY <1>1, Invariance, PTL

\* Neither thread waits for what only it could bring about.
THEOREM NoWaitInVain == Spec => []NoVainWait
<1>1. IInv => NoVainWait
  BY DEF IInv, ActiveInv, SleepInv, NoVainWait
<1>2. QED
  BY <1>1, Invariance, PTL

\* Every step is an Offer, a Play or a stutter of the abstract register.
LEMMA LatestStep == IInv /\ [Next]_vars => [Latest!Next]_(Latest!latestVars)
<1> SUFFICES ASSUME IInv, [Next]_vars
             PROVE Latest!Next \/ UNCHANGED Latest!latestVars
  OBVIOUS
<1> USE DEF Latest!Next, Latest!latestVars, bufferVars, playVars
<1>1. CASE ServerDeposit
  <2>1. Latest!Offer
    BY <1>1 DEF ServerDeposit, Latest!Offer, IInv, OrderInv
  <2>2. QED
    BY <2>1
<1>2. CASE PlaySent
  <2>1. Latest!Play
    BY <1>2 DEF PlaySent, Latest!Play, IInv, HeldInv, FrameHeldStill, OrderInv
  <2>2. QED
    BY <2>1
<1>3. CASE UNCHANGED <<audio_buffer, played, taken>>
  BY <1>3
<1>4. QED
  BY <1>1, <1>2, <1>3
     DEF Next, vars, ServerAdvance, ServerSetup, ServerSetupFails,
         ServerAccept, ServerAcceptError, ServerActivate, ServerRead,
         ServerReadEnd, ServerRelease, ServerClose, PlayAdvance, PlayReinit,
         PlayWait, PlaySpurious, PlaySend, PlaySendFails, MainAdvance,
         MainCreatePlay, MainCreateServer, MainCreateFails, ClientConnect,
         ClientSend, ClientClose

\* The daemon implements the abstract register.
THEOREM Refinement == Spec => ImplementsLatest
<1>1. Init => Latest!Init
  BY DEF Init, Latest!Init
<1>2. QED
  BY <1>1, LatestStep, Invariance, PTL
     DEF Spec, ImplementsLatest, Latest!Spec, Latest!latestVars
=============================================================================
