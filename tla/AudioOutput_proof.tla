------------------------- MODULE AudioOutput_proof -------------------------
(***************************************************************************)
(* Theorems about AudioOutput, for any number of connections and any       *)
(* length of their streams.                                                *)
(*                                                                         *)
(* No property of AudioOutput is inductive by itself.  The strengthening   *)
(* IInv says, in this order: who holds the lock is told by where the       *)
(* threads stand; what the server and the play thread hold and where they  *)
(* wait follows from it; main's phase bounds where the threads can be; and *)
(* the chunks in flight are ordered local_buffer, audio_buffer, srv_buf,   *)
(* all of them newer than every chunk played.                              *)
(***************************************************************************)
EXTENDS AudioOutput, FiniteSetTheorems, SequenceTheorems, TLAPS

Critical == {"check", "presleep", "go"}
Idle     == {"none", "setup", "top", "accept", "shut", "done"}
Ended    == {"none", "done"}

LockInv ==
  /\ audio_buffer_lock = "server" <=> spc \in Critical
  /\ audio_buffer_lock = "play" <=> ppc \in Critical

\* What each thread holds, by where it stands.
LocalInv ==
  /\ active_client_sock = NoClient <=> spc \in Idle
  /\ spc \in Idle => audio_buffer_size = 0
  /\ spc \in Idle \cup {"inner", "recv"} => srv_buf = 0
  /\ spc \notin Idle \cup {"inner", "recv", "cleanup"} => srv_buf # 0
  /\ ppc = "send" <=> local_buffer # 0
  /\ audio_buffer_size > 0 => audio_buffer > 0

\* What a thread that has read its wait condition may rely on.
WaitInv ==
  /\ spc \in {"presleep", "sleep"} => audio_buffer_size > 0
  /\ ppc \in {"presleep", "sleep"} => audio_buffer_size = 0
  /\ spc = "go" => audio_buffer_size = 0 \/ g_stop_thread
  /\ ppc = "go" => audio_buffer_size > 0 \/ g_stop_thread

MainInv ==
  /\ mpc = "bootServer" => spc = "none"
  /\ mpc \in {"bootServer", "bootPlay"} => ppc = "none"
  /\ mpc \notin {"bootServer", "bootPlay", "loop"} => g_stop_thread
  /\ mpc \in {"joinServer", "joinPlay", "cleanup", "done"} =>
       {spc, ppc} \cap {"presleep", "sleep"} = {}
  /\ mpc \in {"joinPlay", "cleanup", "done"} => spc \in Ended
  /\ mpc \in {"cleanup", "done"} => ppc \in Ended
  /\ audio_buffer = -1 => mpc = "done"

DataInv ==
  /\ srv_buf # 0 => srv_buf = received
  /\ local_buffer # 0 /\ audio_buffer_size > 0 => local_buffer < audio_buffer
  /\ local_buffer # 0 /\ srv_buf # 0 => local_buffer < srv_buf
  /\ audio_buffer_size > 0 /\ srv_buf # 0 => audio_buffer < srv_buf
  /\ \A m \in played, n \in InFlight : m < n
  /\ ChunksConserved

ControlInv == LockInv /\ LocalInv /\ WaitInv /\ MainInv
IInv == TypeOK /\ ControlInv /\ DataInv

-----------------------------------------------------------------------------
(* Control: each action, from TypeOK and ControlInv.                       *)

\* No action breaks ControlInv: who holds the lock, what each thread holds.
LEMMA ControlStep == TypeOK /\ ControlInv /\ [Next]_vars => ControlInv'
<1> SUFFICES ASSUME TypeOK /\ ControlInv, [Next]_vars PROVE ControlInv'
  OBVIOUS
<1> USE OutputAssumption DEF TypeOK, ControlInv, LockInv, LocalInv, WaitInv,
   MainInv,
        Critical, Idle, Ended, serverVars, playVars, bufferVars, clientVars,
        history
<1>1. CASE ServerSetup
  BY <1>1 DEF ServerSetup
<1>2. CASE ServerSetupFails
  BY <1>2 DEF ServerSetupFails
<1>3. CASE ServerTop
  BY <1>3 DEF ServerTop
<1>4. CASE ServerAccept
  BY <1>4 DEF ServerAccept
<1>5. CASE ServerAcceptError
  BY <1>5 DEF ServerAcceptError
<1>6. CASE ServerInner
  BY <1>6 DEF ServerInner
<1>7. CASE ServerRecv
  BY <1>7 DEF ServerRecv, Readable
<1>8. CASE ServerRecvEnd
  BY <1>8 DEF ServerRecvEnd
<1>9. CASE ServerLock
  BY <1>9 DEF ServerLock, Lock, LockIsFree
<1>10. CASE ServerCheck
  BY <1>10 DEF ServerCheck, ServerMustWait
<1>11. CASE ServerSleep
  BY <1>11 DEF ServerSleep, Unlock
<1>12. CASE ServerSpurious
  BY <1>12 DEF ServerSpurious
<1>13. CASE ServerStopped
  BY <1>13 DEF ServerStopped, Unlock
<1>14. CASE ServerDeposit
  BY <1>14 DEF ServerDeposit, Unlock, Woken
<1>15. CASE ServerCleanup
  BY <1>15 DEF ServerCleanup, LockIsFree, ClearBuffer, Woken
<1>16. CASE ServerShut
  BY <1>16 DEF ServerShut
<1>17. CASE PlayLock
  BY <1>17 DEF PlayLock, Lock, LockIsFree
<1>18. CASE PlayCheck
  BY <1>18 DEF PlayCheck, PlayMustWait
<1>19. CASE PlaySleep
  BY <1>19 DEF PlaySleep, Unlock
<1>20. CASE PlaySpurious
  BY <1>20 DEF PlaySpurious
<1>21. CASE PlayStopped
  BY <1>21 DEF PlayStopped, Unlock
<1>22. CASE PlayTake
  BY <1>22 DEF PlayTake, Unlock, FreeBuffer, SignalFree, Woken
<1>23. CASE PlaySend
  BY <1>23 DEF PlaySend
<1>24. CASE PlaySendFails
  BY <1>24 DEF PlaySendFails
<1>25. CASE MainCreateServer
  BY <1>25 DEF MainCreateServer
<1>26. CASE MainCreatePlay
  BY <1>26 DEF MainCreatePlay, MainUnchanged
<1>27. CASE MainCreateFails
  BY <1>27 DEF MainCreateFails, MainUnchanged
<1>28. CASE MainAbort
  BY <1>28 DEF MainAbort, Broadcast, LockIsFree, Woken
<1>29. CASE MainLoop
  BY <1>29 DEF MainLoop, MainUnchanged
<1>30. CASE MainWake
  BY <1>30 DEF MainWake, Broadcast, LockIsFree, Woken
<1>31. CASE MainJoinServer
  BY <1>31 DEF MainJoinServer, MainUnchanged, Joined
<1>32. CASE MainJoinPlay
  BY <1>32 DEF MainJoinPlay, MainUnchanged, Joined
<1>33. CASE MainCleanup
  BY <1>33 DEF MainCleanup, MainUnchanged
<1>34. CASE HandleSigint
  BY <1>34 DEF HandleSigint
<1>35. CASE HandleSigintInServer
  BY <1>35 DEF HandleSigintInServer
<1>36. ASSUME NEW c \in Conns, ClientConnect(c) PROVE ControlInv'
  BY <1>36 DEF ClientConnect
<1>37. ASSUME NEW c \in Conns, ClientSend(c) PROVE ControlInv'
  BY <1>37 DEF ClientSend
<1>38. ASSUME NEW c \in Conns, ClientClose(c) PROVE ControlInv'
  BY <1>38 DEF ClientClose
<1>39. CASE UNCHANGED vars
  BY <1>39 DEF vars
<1>40. QED
  BY <1>1, <1>2, <1>3, <1>4, <1>5, <1>6, <1>7, <1>8, <1>9, <1>10, <1>11,
     <1>12, <1>13, <1>14, <1>15, <1>16, <1>17, <1>18, <1>19, <1>20, <1>21,
     <1>22, <1>23, <1>24, <1>25, <1>26, <1>27, <1>28, <1>29, <1>30, <1>31,
     <1>32, <1>33, <1>34, <1>35, <1>36, <1>37, <1>38, <1>39
     DEF Next, ServerAdvance, PlayAdvance, MainAdvance, ClientStep

-----------------------------------------------------------------------------
(* Types.                                                                  *)

\* No action gives a variable a value of another type.
LEMMA TypeStep == TypeOK /\ ControlInv /\ [Next]_vars => TypeOK'
<1> SUFFICES ASSUME TypeOK /\ ControlInv, [Next]_vars PROVE TypeOK'
  OBVIOUS
<1> USE OutputAssumption DEF TypeOK, ServerStates, PlayStates, MainStates,
   serverVars,
        playVars, bufferVars, clientVars, history
<1>1. CASE ServerSetup
  BY <1>1 DEF ServerSetup
<1>2. CASE ServerSetupFails
  BY <1>2 DEF ServerSetupFails
<1>3. CASE ServerTop
  BY <1>3 DEF ServerTop
<1>4. CASE ServerAccept
  BY <1>4 DEF ServerAccept
<1>5. CASE ServerAcceptError
  BY <1>5 DEF ServerAcceptError
<1>6. CASE ServerInner
  BY <1>6 DEF ServerInner
<1>7. CASE ServerRecv
  <2>1. active_client_sock \in Conns
    BY <1>7 DEF ServerRecv, ControlInv, LocalInv, Idle
  <2>2. avail[active_client_sock] - 1 \in Nat
    BY <1>7, <2>1 DEF ServerRecv, Readable
  <2>3. avail' \in [Conns -> Nat]
    BY <1>7, <2>2 DEF ServerRecv
  <2>4. QED
    BY <1>7, <2>3 DEF ServerRecv
<1>8. CASE ServerRecvEnd
  BY <1>8 DEF ServerRecvEnd
<1>9. CASE ServerLock
  BY <1>9 DEF ServerLock, Lock, LockIsFree
<1>10. CASE ServerCheck
  BY <1>10 DEF ServerCheck, ServerMustWait
<1>11. CASE ServerSleep
  BY <1>11 DEF ServerSleep, Unlock
<1>12. CASE ServerSpurious
  BY <1>12 DEF ServerSpurious
<1>13. CASE ServerStopped
  BY <1>13 DEF ServerStopped, Unlock
<1>14. CASE ServerDeposit
  BY <1>14 DEF ServerDeposit, Unlock, Woken
<1>15. CASE ServerCleanup
  <2>1. NonZero({srv_buf}) \cup Buffered \subseteq Nat
    BY DEF NonZero, Buffered, ControlInv, LocalInv
  <2>2. lost' \subseteq Nat
    BY <1>15, <2>1 DEF ServerCleanup
  <2>3. conn' \in [Conns -> {"new", "connected", "gone", "closed"}]
    BY <1>15 DEF ServerCleanup
  <2>4. /\ ppc' \in PlayStates /\ spc' = "top"
        /\ audio_buffer' = 0 /\ audio_buffer_size' = 0 /\ srv_buf' = 0
        /\ active_client_sock' = NoClient
        /\ UNCHANGED <<g_stop_thread, local_buffer, mpc, audio_buffer_lock,
                       backlog, unsent, avail, received, played>>
    BY <1>15 DEF ServerCleanup, ClearBuffer, Woken
  <2>5. QED
    BY <2>2, <2>3, <2>4
<1>16. CASE ServerShut
  BY <1>16 DEF ServerShut
<1>17. CASE PlayLock
  BY <1>17 DEF PlayLock, Lock, LockIsFree
<1>18. CASE PlayCheck
  BY <1>18 DEF PlayCheck, PlayMustWait
<1>19. CASE PlaySleep
  BY <1>19 DEF PlaySleep, Unlock
<1>20. CASE PlaySpurious
  BY <1>20 DEF PlaySpurious
<1>21. CASE PlayStopped
  BY <1>21 DEF PlayStopped, Unlock
<1>22. CASE PlayTake
  <2>1. audio_buffer \in Nat
    BY <1>22 DEF PlayTake, ControlInv, WaitInv, LocalInv
  <2>2. QED
    BY <1>22, <2>1 DEF PlayTake, Unlock, FreeBuffer, SignalFree, Woken
<1>23. CASE PlaySend
  BY <1>23 DEF PlaySend
<1>24. CASE PlaySendFails
  BY <1>24 DEF PlaySendFails
<1>25. CASE MainCreateServer
  BY <1>25 DEF MainCreateServer
<1>26. CASE MainCreatePlay
  BY <1>26 DEF MainCreatePlay, MainUnchanged
<1>27. CASE MainCreateFails
  BY <1>27 DEF MainCreateFails, MainUnchanged
<1>28. CASE MainAbort
  BY <1>28 DEF MainAbort, Broadcast, LockIsFree, Woken
<1>29. CASE MainLoop
  BY <1>29 DEF MainLoop, MainUnchanged
<1>30. CASE MainWake
  BY <1>30 DEF MainWake, Broadcast, LockIsFree, Woken
<1>31. CASE MainJoinServer
  BY <1>31 DEF MainJoinServer, MainUnchanged, Joined
<1>32. CASE MainJoinPlay
  BY <1>32 DEF MainJoinPlay, MainUnchanged, Joined
<1>33. CASE MainCleanup
  BY <1>33 DEF MainCleanup, MainUnchanged
<1>34. CASE HandleSigint
  BY <1>34 DEF HandleSigint
<1>35. CASE HandleSigintInServer
  BY <1>35 DEF HandleSigintInServer
<1>36. ASSUME NEW c \in Conns, ClientConnect(c) PROVE TypeOK'
  BY <1>36 DEF ClientConnect
<1>37. ASSUME NEW c \in Conns, ClientSend(c) PROVE TypeOK'
  BY <1>37 DEF ClientSend
<1>38. ASSUME NEW c \in Conns, ClientClose(c) PROVE TypeOK'
  BY <1>38 DEF ClientClose
<1>39. CASE UNCHANGED vars
  BY <1>39 DEF vars
<1>40. QED
  BY <1>1, <1>2, <1>3, <1>4, <1>5, <1>6, <1>7, <1>8, <1>9, <1>10, <1>11,
     <1>12, <1>13, <1>14, <1>15, <1>16, <1>17, <1>18, <1>19, <1>20, <1>21,
     <1>22, <1>23, <1>24, <1>25, <1>26, <1>27, <1>28, <1>29, <1>30, <1>31,
     <1>32, <1>33, <1>34, <1>35, <1>36, <1>37, <1>38, <1>39
     DEF Next, ServerAdvance, PlayAdvance, MainAdvance, ClientStep

-----------------------------------------------------------------------------
(* What moves chunks about, and what does not.                             *)

dataVars == <<srv_buf, local_buffer, audio_buffer, audio_buffer_size,
              received, played, lost>>

\* Only seven actions move a chunk.
LEMMA DataMoves ==
  [Next]_vars => \/ UNCHANGED dataVars
                 \/ ServerRecv \/ ServerDeposit \/ ServerCleanup
                 \/ PlayTake \/ PlaySend \/ PlaySendFails \/ MainCleanup
<1> SUFFICES ASSUME [Next]_vars,
                    ~ (\/ ServerRecv \/ ServerDeposit \/ ServerCleanup
                       \/ PlayTake \/ PlaySend \/ PlaySendFails \/ MainCleanup)
             PROVE UNCHANGED dataVars
  OBVIOUS
<1> USE DEF dataVars, serverVars, playVars, bufferVars, clientVars, history
<1>1. CASE UNCHANGED vars
  BY <1>1 DEF vars
<1>2. CASE ServerAdvance \/ ServerAcceptError \/ ServerSpurious
  BY <1>2 DEF ServerAdvance, ServerSetup, ServerSetupFails, ServerTop,
     ServerAccept, ServerAcceptError, ServerInner, ServerRecvEnd, ServerLock,
     ServerCheck, ServerSleep, ServerSpurious, ServerStopped, ServerShut
<1>3. CASE PlayAdvance \/ PlaySpurious
  BY <1>3 DEF PlayAdvance, PlayLock, PlayCheck, PlaySleep, PlaySpurious,
     PlayStopped
<1>4. CASE MainAdvance
  BY <1>4 DEF MainAdvance, MainUnchanged, MainCreateServer, MainCreatePlay,
     MainCreateFails, MainAbort, MainLoop, MainWake, MainJoinServer,
     MainJoinPlay
<1>5. CASE HandleSigint \/ HandleSigintInServer \/ ClientStep
  BY <1>5 DEF HandleSigint, HandleSigintInServer, ClientStep, ClientConnect,
     ClientSend, ClientClose
<1>6. QED
  BY <1>1, <1>2, <1>3, <1>4, <1>5 DEF Next

\* No action breaks DataInv: chunks stay ordered and accounted for.
LEMMA DataStep == TypeOK /\ ControlInv /\ DataInv /\ [Next]_vars => DataInv'
<1> SUFFICES ASSUME TypeOK, ControlInv, DataInv, [Next]_vars
             PROVE DataInv'
  OBVIOUS
<1> USE DEF Buffered, NonZero, InFlight
<1>0. /\ received \in Nat /\ played \subseteq Nat /\ lost \subseteq Nat
      /\ srv_buf \in Nat /\ local_buffer \in Nat /\ audio_buffer \in Int
      /\ audio_buffer_size \in {0, 1}
      /\ InFlight \subseteq 1..received
  BY DEF TypeOK, DataInv, ChunksConserved
<1>1. CASE UNCHANGED dataVars
  BY <1>1 DEF DataInv, ChunksConserved, dataVars
<1>2. CASE ServerRecv
  <2>1. /\ srv_buf = 0 /\ srv_buf' = received + 1 /\ received' = received + 1
        /\ UNCHANGED <<local_buffer, bufferVars, played, lost>>
    BY <1>2 DEF ServerRecv, playVars, ControlInv, LocalInv, Idle
  <2>2. InFlight' = InFlight \cup {received + 1}
    BY <1>0, <2>1 DEF bufferVars
  <2>3. 1..received' = 1..received \cup {received + 1}
    BY <1>0, <2>1
  <2>4. ChunksConserved'
    BY <1>0, <2>1, <2>2, <2>3 DEF DataInv, ChunksConserved
  <2>5. \A m \in played', n \in InFlight' : m < n
    BY <1>0, <2>1, <2>2 DEF DataInv, ChunksConserved
  <2>6. QED
    BY <1>0, <2>1, <2>4, <2>5 DEF DataInv, bufferVars
<1>3. CASE ServerDeposit
  <2>1. /\ audio_buffer_size = 0 /\ audio_buffer_size' = 1
        /\ srv_buf # 0 /\ srv_buf' = 0 /\ audio_buffer' = srv_buf
        /\ UNCHANGED <<local_buffer, received, played, lost>>
    BY <1>3 DEF ServerDeposit, ControlInv, WaitInv, LocalInv, Idle, history
  <2>2. InFlight' = InFlight
    BY <1>0, <2>1
  <2>3. QED
    BY <1>0, <2>1, <2>2 DEF DataInv, ChunksConserved
<1>4. CASE ServerCleanup
  <2>1. /\ lost' = lost \cup NonZero({srv_buf}) \cup Buffered
        /\ audio_buffer_size' = 0 /\ srv_buf' = 0
        /\ UNCHANGED <<local_buffer, received, played>>
    BY <1>4 DEF ServerCleanup, ClearBuffer
  <2>2. /\ InFlight' = NonZero({local_buffer})
        /\ InFlight' \cup NonZero({srv_buf}) \cup Buffered = InFlight
        /\ InFlight' \cap (NonZero({srv_buf}) \cup Buffered) = {}
    BY <1>0, <2>1 DEF DataInv
  <2>3. ChunksConserved'
    BY <2>1, <2>2 DEF DataInv, ChunksConserved
  <2>4. QED
    BY <1>0, <2>1, <2>2, <2>3 DEF DataInv
<1>5. CASE PlayTake
  <2>1. /\ audio_buffer_size > 0 /\ audio_buffer_size' = 0
        /\ audio_buffer > 0 /\ local_buffer = 0 /\ local_buffer' = audio_buffer
        /\ UNCHANGED <<srv_buf, received, played, lost>>
    BY <1>5 DEF PlayTake, FreeBuffer, ControlInv, WaitInv, LocalInv, history
  <2>2. InFlight' = InFlight
    BY <1>0, <2>1
  <2>3. QED
    BY <1>0, <2>1, <2>2 DEF DataInv, ChunksConserved
<1>6. CASE PlaySend \/ PlaySendFails
  <2>1. /\ local_buffer # 0 /\ local_buffer' = 0
        /\ UNCHANGED <<srv_buf, bufferVars, received>>
        /\ \/ played' = played \cup {local_buffer} /\ UNCHANGED lost
           \/ lost' = lost \cup {local_buffer} /\ UNCHANGED played
    BY <1>6 DEF PlaySend, PlaySendFails, ControlInv, LocalInv, serverVars
  <2>2. /\ InFlight = InFlight' \cup {local_buffer}
        /\ \A n \in InFlight' : local_buffer < n
    BY <1>0, <2>1 DEF DataInv, bufferVars
  <2>3. local_buffer \notin InFlight'
    BY <1>0, <2>2
  <2>4. ChunksConserved'
    BY <2>1, <2>2, <2>3 DEF DataInv, ChunksConserved
  <2>5. \A m \in played', n \in InFlight' : m < n
    BY <2>1, <2>2 DEF DataInv
  <2>6. QED
    BY <2>1, <2>4, <2>5 DEF DataInv, bufferVars
<1>7. CASE MainCleanup
  <2>1. /\ audio_buffer_size = 0 /\ UNCHANGED audio_buffer_size
        /\ UNCHANGED <<srv_buf, local_buffer, received, played, lost>>
    BY <1>7 DEF MainCleanup, MainUnchanged, ControlInv, MainInv, LocalInv,
       Idle, Ended, serverVars, history
  <2>2. InFlight' = InFlight
    BY <2>1
  <2>3. QED
    BY <2>1, <2>2 DEF DataInv, ChunksConserved
<1>8. QED
  BY <1>1, <1>2, <1>3, <1>4, <1>5, <1>6, <1>7, DataMoves

-----------------------------------------------------------------------------
(* The invariant and what follows from it.                                 *)

\* IInv holds when main starts to create the threads.
LEMMA InitIInv == Init => IInv
<1> SUFFICES ASSUME Init PROVE IInv
  OBVIOUS
<1> USE OutputAssumption DEF Init
<1>1. TypeOK
  <2>1. backlog \in Seq(Conns)
    BY EmptySeq
  <2>2. /\ conn \in [Conns -> {"new", "connected", "gone", "closed"}]
        /\ unsent \in [Conns -> Nat] /\ avail \in [Conns -> Nat]
    BY DEF OutputAssumption
  <2>3. spc \in ServerStates /\ ppc \in PlayStates /\ mpc \in MainStates
    BY DEF ServerStates, PlayStates, MainStates
  <2>4. g_stop_thread \in BOOLEAN
    OBVIOUS
  <2>5. /\ active_client_sock \in Conns \cup {NoClient}
        /\ audio_buffer_lock \in {"none", "server", "play"}
        /\ audio_buffer \in Int /\ audio_buffer_size \in {0, 1}
        /\ srv_buf \in Nat /\ local_buffer \in Nat
    OBVIOUS
  <2>6. received \in Nat /\ played \subseteq Nat /\ lost \subseteq Nat
    OBVIOUS
  <2>7. QED
    BY <2>1, <2>2, <2>3, <2>4, <2>5, <2>6 DEF TypeOK
<1>2. ControlInv
  BY DEF ControlInv, LockInv, LocalInv, WaitInv, MainInv, Critical, Idle, Ended
<1>3. InFlight = {}
  BY DEF InFlight, NonZero, Buffered
<1>4. DataInv
  BY <1>3 DEF DataInv, ChunksConserved
<1>5. QED
  BY <1>1, <1>2, <1>4 DEF IInv

\* No action breaks IInv.
LEMMA StepIInv == IInv /\ [Next]_vars => IInv'
BY ControlStep, TypeStep, DataStep DEF IInv

\* IInv holds in every reachable state.
LEMMA Invariance == Spec => []IInv
<1>1. Init => IInv
  BY InitIInv
<1>2. IInv /\ [Next]_vars => IInv'
  BY StepIInv
<1>3. QED
  BY <1>1, <1>2, PTL DEF Spec

\* Every variable keeps its type.
THEOREM TypeCorrect == Spec => []TypeOK
<1>1. IInv => TypeOK
  BY DEF IInv
<1>2. QED
  BY <1>1, Invariance, PTL

\* No chunk recv() has returned is ever lost track of, overwritten or doubled.
THEOREM Conservation == Spec => []ChunksConserved
<1>1. IInv => ChunksConserved
  BY DEF IInv, DataInv
<1>2. QED
  BY <1>1, Invariance, PTL

\* Nothing of a finished session is left for the next one.
THEOREM FreshSessions == Spec => []SessionStartsEmpty
<1>1. IInv => SessionStartsEmpty
  BY DEF IInv, ControlInv, LocalInv, Idle, SessionStartsEmpty
<1>2. QED
  BY <1>1, Invariance, PTL

\* No wait of the two threads misses the event it waits for.
THEOREM Wakeups == Spec => []NoLostWakeup
<1>1. IInv => NoLostWakeup
  BY DEF IInv, ControlInv, WaitInv, MainInv, NoLostWakeup
<1>2. QED
  BY <1>1, Invariance, PTL

\* The server thread and the play thread never wait for each other.
THEOREM NoDeadlock == Spec => []NoStandstill
<1>1. ASSUME IInv, InFlight # {}, ppc \notin {"none", "done"}, ServerWaits,
             PlayWaits
      PROVE  FALSE
  <2> USE DEF IInv, ControlInv
  <2>1. audio_buffer_lock = "none"
    BY <1>1 DEF LockInv, Critical, ServerWaits, PlayWaits, LockIsFree, TypeOK
  <2>2. ppc = "sleep" /\ audio_buffer_size = 0 /\ local_buffer = 0
    BY <1>1, <2>1 DEF PlayWaits, LockIsFree, WaitInv, LocalInv
  <2>3. srv_buf # 0
    BY <1>1, <2>2 DEF InFlight, NonZero, Buffered
  <2>4. spc = "sleep"
    BY <1>1, <2>1, <2>3 DEF LocalInv, Idle, ServerWaits, LockIsFree
  <2> QED
    BY <1>1, <2>2, <2>4 DEF WaitInv
<1>2. IInv => NoStandstill
  BY <1>1 DEF NoStandstill
<1>3. QED
  BY <1>2, Invariance, PTL

\* The buffer is freed last of all.
THEOREM FreedLast == Spec => []NoUseAfterFree
<1>1. IInv => NoUseAfterFree
  BY DEF IInv, ControlInv, MainInv, Ended, NoUseAfterFree
<1>2. QED
  BY <1>1, Invariance, PTL

\* The device is given every chunk at most once and in the order received.
THEOREM PlaybackOrder == Spec => InOrderPlayback
<1>1. IInv /\ [Next]_vars => [PlaySend => \A m \in played : m < local_buffer]_vars
  <2> SUFFICES ASSUME IInv, PlaySend
               PROVE \A m \in played : m < local_buffer
    OBVIOUS
  <2>1. local_buffer \in InFlight
    BY DEF IInv, ControlInv, LocalInv, PlaySend, InFlight, NonZero
  <2>2. QED
    BY <2>1 DEF IInv, DataInv
<1>2. QED
  BY <1>1, Invariance, PTL DEF Spec, InOrderPlayback

-----------------------------------------------------------------------------
(* Refinement: every step of the threads is a step of the channel, or none *)
(* of the channel's business.                                              *)

channelVars == <<active_client_sock, received, InFlight, played, lost>>

\* The server holds no chunk while it receives: there is room for one more.
LEMMA RoomToReceive ==
  ASSUME srv_buf = 0
  PROVE  Cardinality(InFlight) < 3
<1> DEFINE P == {local_buffer} \cup {audio_buffer}
<1>1. InFlight \in SUBSET P
  BY DEF InFlight, NonZero, Buffered
<1>2. IsFiniteSet(P) /\ Cardinality(P) \in {1, 2}
  <2>1. IsFiniteSet({local_buffer}) /\ Cardinality({local_buffer}) = 1
    BY FS_Singleton
  <2>2. QED
    BY <2>1, FS_AddElement
<1>3. IsFiniteSet(InFlight) /\ Cardinality(InFlight) <= Cardinality(P)
  BY <1>1, <1>2, FS_Subset
<1>4. Cardinality(InFlight) \in Nat
  BY <1>3, FS_CardinalityType
<1>5. QED
  BY <1>2, <1>3, <1>4

\* Only seven actions change what the channel sees.
LEMMA ChannelMoves ==
  [Next]_vars => \/ UNCHANGED channelVars
                 \/ ServerAccept \/ ServerRecv \/ ServerDeposit \/ ServerCleanup
                 \/ PlayTake \/ PlaySend \/ PlaySendFails \/ MainCleanup
<1> SUFFICES ASSUME [Next]_vars,
                    ~ (\/ ServerAccept \/ ServerRecv \/ ServerDeposit
                       \/ ServerCleanup \/ PlayTake \/ PlaySend
                       \/ PlaySendFails \/ MainCleanup)
             PROVE UNCHANGED channelVars
  OBVIOUS
<1>1. UNCHANGED dataVars
  BY DataMoves
<1>2. InFlight' = InFlight
  BY <1>1 DEF dataVars, InFlight, NonZero, Buffered
<1> USE DEF serverVars
<1>3. UNCHANGED active_client_sock
  <2>1. CASE UNCHANGED vars
    BY <2>1 DEF vars
  <2>2. CASE ServerAdvance \/ ServerAcceptError \/ ServerSpurious
    BY <2>2 DEF ServerAdvance, ServerSetup, ServerSetupFails, ServerTop,
       ServerAcceptError, ServerInner, ServerRecvEnd, ServerLock, ServerCheck,
       ServerSleep, ServerSpurious, ServerStopped, ServerShut
  <2>3. CASE PlayAdvance \/ PlaySpurious
    BY <2>3 DEF PlayAdvance, PlayLock, PlayCheck, PlaySleep, PlaySpurious,
       PlayStopped
  <2>4. CASE MainAdvance
    BY <2>4 DEF MainAdvance, MainUnchanged, MainCreateServer, MainCreatePlay,
       MainCreateFails, MainAbort, MainLoop, MainWake, MainJoinServer,
       MainJoinPlay
  <2>5. CASE HandleSigint \/ HandleSigintInServer \/ ClientStep
    BY <2>5 DEF HandleSigint, HandleSigintInServer, ClientStep, ClientConnect,
       ClientSend, ClientClose
  <2>6. QED
    BY <2>1, <2>2, <2>3, <2>4, <2>5 DEF Next
<1>4. QED
  BY <1>1, <1>2, <1>3 DEF channelVars, dataVars

\* Every step is a step of the channel, or leaves it alone.
LEMMA ChannelStep == IInv /\ [Next]_vars => [Channel!Next]_channelVars
<1> SUFFICES ASSUME IInv, [Next]_vars
             PROVE Channel!Next \/ UNCHANGED channelVars
  OBVIOUS
<1> USE DEF Buffered, NonZero, InFlight
<1>0. /\ received \in Nat /\ srv_buf \in Nat /\ local_buffer \in Nat
      /\ audio_buffer \in Int /\ audio_buffer_size \in {0, 1}
  BY DEF IInv, TypeOK
<1>1. CASE ServerAccept
  <2>1. /\ active_client_sock = NoClient
        /\ UNCHANGED <<received, InFlight, played, lost>>
    BY <1>1 DEF ServerAccept, IInv, ControlInv, LocalInv, Idle, playVars,
       bufferVars, history
  <2>2. Head(backlog) \in Conns /\ active_client_sock' = Head(backlog)
    BY <1>1, HeadTailProperties DEF ServerAccept, IInv, TypeOK
  <2>3. QED
    BY <2>1, <2>2 DEF Channel!Next, Channel!Open
<1>2. CASE ServerRecv
  <2>1. /\ active_client_sock # NoClient /\ srv_buf = 0
        /\ srv_buf' = received + 1 /\ received' = received + 1
        /\ UNCHANGED <<active_client_sock, local_buffer, bufferVars, played,
                       lost>>
    BY <1>2 DEF ServerRecv, IInv, ControlInv, LocalInv, Idle, playVars
  <2>2. InFlight' = InFlight \cup {received + 1}
    BY <1>0, <2>1 DEF bufferVars
  <2>3. Cardinality(InFlight) < 3
    BY <2>1, RoomToReceive
  <2>4. Channel!Receive
    <3> HIDE DEF InFlight
    <3>1. QED
      BY <2>1, <2>2, <2>3 DEF Channel!Receive, Cardinality, Channel!Cardinality
  <2>5. QED
    BY <2>4 DEF Channel!Next
<1>3. CASE ServerDeposit
  <2>1. /\ audio_buffer_size = 0 /\ audio_buffer_size' = 1
        /\ srv_buf # 0 /\ srv_buf' = 0 /\ audio_buffer' = srv_buf
        /\ UNCHANGED <<local_buffer, active_client_sock, received, played,
                       lost>>
    BY <1>3 DEF ServerDeposit, IInv, ControlInv, WaitInv, LocalInv, Idle,
       history
  <2>2. InFlight' = InFlight
    BY <1>0, <2>1
  <2>3. QED
    BY <2>1, <2>2 DEF channelVars
<1>4. CASE ServerCleanup
  <2>1. /\ active_client_sock # NoClient /\ active_client_sock' = NoClient
        /\ lost' = lost \cup NonZero({srv_buf}) \cup Buffered
        /\ audio_buffer_size' = 0 /\ srv_buf' = 0
        /\ UNCHANGED <<local_buffer, received, played>>
    BY <1>4 DEF ServerCleanup, ClearBuffer, IInv, ControlInv, LocalInv, Idle
  <2>2. InFlight' = NonZero({local_buffer})
    BY <2>1
  <2>3. \A k \in InFlight', d \in NonZero({srv_buf}) \cup Buffered : k < d
    BY <1>0, <2>2 DEF IInv, DataInv
  <2>4. InFlight \ InFlight' = NonZero({srv_buf}) \cup Buffered
    BY <1>0, <2>2, <2>3
  <2>5. InFlight' \in SUBSET InFlight
    BY <2>2
  <2>6. Channel!Close(InFlight')
    BY <2>1, <2>3, <2>4, <2>5 DEF Channel!Close
  <2>7. QED
    BY <2>5, <2>6 DEF Channel!Next
<1>5. CASE PlayTake
  <2>1. /\ audio_buffer_size > 0 /\ audio_buffer_size' = 0
        /\ audio_buffer > 0 /\ local_buffer = 0 /\ local_buffer' = audio_buffer
        /\ UNCHANGED <<srv_buf, active_client_sock, received, played, lost>>
    BY <1>5 DEF PlayTake, FreeBuffer, IInv, ControlInv, WaitInv, LocalInv,
       history
  <2>2. InFlight' = InFlight
    BY <1>0, <2>1
  <2>3. QED
    BY <2>1, <2>2 DEF channelVars
<1>6. CASE PlaySend \/ PlaySendFails
  <2>1. /\ local_buffer # 0 /\ local_buffer' = 0
        /\ UNCHANGED <<srv_buf, active_client_sock, bufferVars, received>>
        /\ \/ played' = played \cup {local_buffer} /\ UNCHANGED lost
           \/ lost' = lost \cup {local_buffer} /\ UNCHANGED played
    BY <1>6 DEF PlaySend, PlaySendFails, IInv, ControlInv, LocalInv, serverVars
  <2>2. \A n \in InFlight' : local_buffer < n
    BY <1>0, <2>1 DEF IInv, DataInv, bufferVars
  <2>3. InFlight = InFlight' \cup {local_buffer}
    BY <2>1 DEF bufferVars
  <2>4. InFlight' = InFlight \ {local_buffer}
    BY <1>0, <2>2, <2>3
  <2>5. Channel!Oldest(local_buffer)
    BY <1>0, <2>2, <2>3 DEF Channel!Oldest
  <2>6. Channel!Play(local_buffer) \/ Channel!Refuse(local_buffer)
    BY <2>1, <2>4, <2>5 DEF Channel!Play, Channel!Refuse
  <2>7. QED
    BY <2>3, <2>6 DEF Channel!Next
<1>7. CASE MainCleanup
  <2>1. /\ audio_buffer_size = 0 /\ UNCHANGED audio_buffer_size
        /\ UNCHANGED <<active_client_sock, srv_buf, local_buffer, received,
                       played, lost>>
    BY <1>7 DEF MainCleanup, MainUnchanged, IInv, ControlInv, MainInv, LocalInv,
       Idle, Ended, serverVars, history
  <2>2. QED
    BY <2>1 DEF channelVars
<1>8. QED
  BY <1>1, <1>2, <1>3, <1>4, <1>5, <1>6, <1>7, ChannelMoves

\* The threads, their lock and their three buffers implement the channel.
THEOREM Refinement == Spec => ImplementsChannel
<1>1. Init => Channel!Init
  BY DEF Init, Channel!Init, InFlight, NonZero, Buffered
<1>2. IInv /\ [Next]_vars => [Channel!Next]_channelVars
  BY ChannelStep
<1>3. QED
  BY <1>1, <1>2, Invariance, PTL
     DEF Spec, ImplementsChannel, Channel!Spec, Channel!channelVars, channelVars
=============================================================================
