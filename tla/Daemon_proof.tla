---------------------------- MODULE Daemon_proof -----------------------------
(***************************************************************************)
(* Theorems about Daemon, for every configuration, every failure of the    *)
(* startup and every behaviour of the threads.                             *)
(*                                                                         *)
(* The strengthening IInv follows main: BootInv says what is initialized at*)
(* each point of the boot, ThreadInv that only the threads the             *)
(* configuration calls for exist and that main is past the joins only when *)
(* all of them have ended, and TeardownInv that what a call of the teardown*)
(* should have disabled is still there only if that very call has failed.  *)
(***************************************************************************)
EXTENDS Daemon, TLAPS

Booting  == {"config", "sys", "ao", "ai"}
Working  == {"create", "loop", "join"}
Teardown == {"disable_ai", "disable_ao", "config_cleanup", "destroy", "sys_exit",
             "done"}

BootInv ==
  /\ mpc \in Booting \cup {"exited"} => \A t \in Threads : thread[t] = "none"
  /\ mpc = "config" <=> config = "unread"
  /\ config = "freed" => mpc \in Teardown
  /\ "locks" \in up <=> mpc \notin {"sys_exit", "done"}
  /\ mpc \notin {"config", "sys", "exited", "done"} => "mi_sys" \in up
  /\ mpc \in Booting => "aec" \notin up
  /\ mpc \in {"config", "sys", "ao"} => "ao_attributes" \notin up
  /\ mpc = "ai" /\ "ao_attributes" \in up => Output \subseteq up
  /\ mpc \in {"ai"} \cup Working /\ ~disable_ao =>
       Output \cup {"audio_buffer"} \subseteq up
  /\ mpc \in Working /\ ~disable_ai => Input \subseteq up

ThreadInv ==
  /\ Created \subseteq Wanted
  /\ \A t \in joined : thread[t] = "ended"
  /\ mpc \in Teardown => \A t \in Threads : ~InUse(t)
  /\ mpc \in {"loop", "join"} \cup Teardown /\ exit_code = 0 => Created = Wanted

\* Each of these calls has been made: what it disables is gone, or it failed.
Made(calls) == \A c \in calls : \A r \in Releases[c] : r \in up => c \in failed

TeardownInv ==
  /\ mpc \in Teardown \ {"disable_ai"} => Made(InputCalls)
  /\ mpc \in Teardown \ {"disable_ai", "disable_ao"} =>
       Made(OutputCalls) /\ "audio_buffer" \notin up
  /\ mpc \in {"destroy", "sys_exit", "done"} => config = "freed"
  /\ mpc = "done" => Made({"MI_SYS_Exit"})

IInv == TypeOK /\ BootInv /\ ThreadInv /\ TeardownInv /\ EchoNeedsOutput

\* The four threads are four.
LEMMA ThreadNames == Threads = {"control", "input", "output", "play"}
<1>1. DOMAIN Order = 1..4
  BY DEF Order
<1>2. /\ Order[1] = "control" /\ Order[2] = "input"
      /\ Order[3] = "output" /\ Order[4] = "play"
  BY DEF Order
<1> QED
  BY <1>1, <1>2 DEF Threads

\* Which call disables what: everything but the buffer and the locks is disabled by
\* one call, MI_SYS by none of the devices'.
LEMMA ReleasesFacts ==
  /\ \A c \in Calls : Releases[c] \subseteq Resources
  /\ \A r \in Resources \ {"audio_buffer", "locks"} :
       \E c \in Calls : r \in Releases[c]
  /\ \A c \in InputCalls \cup OutputCalls :
       Releases[c] \cap {"mi_sys", "locks", "audio_buffer"} = {}
  /\ Releases["MI_SYS_Exit"] = {"mi_sys"}
  /\ "aec" \in Releases["MI_AI_DisableVqe"]
  /\ \A c \in InputCalls : Releases[c] \cap Output = {}
  /\ \A c \in OutputCalls : "aec" \notin Releases[c]
BY DEF Releases, Calls, InputCalls, OutputCalls, Resources, Output, Input

LEMMA CallSets ==
  /\ InputCalls \in SUBSET Calls /\ OutputCalls \in SUBSET Calls
  /\ {"MI_SYS_Exit"} \in SUBSET Calls
BY DEF Calls

\* What the calls of a function leave, whichever of them fail.
LEMMA DisableEffect ==
  ASSUME NEW calls \in SUBSET Calls, NEW freed, Disable(calls, freed)
  PROVE  /\ up' \subseteq up \ freed
         /\ failed \subseteq failed' /\ failed' \subseteq failed \cup calls
         /\ Made(calls)'
         /\ \A r \in up \ freed :
              (\A c \in calls : r \notin Releases[c]) => r \in up'
<1>1. PICK errors \in SUBSET calls :
        /\ failed' = failed \cup errors
        /\ up' = (up \ freed) \ UNION {Releases[c] : c \in calls \ errors}
  BY DEF Disable, Succeeding
<1>2. \A c \in calls \ errors : \A r \in Releases[c] : r \notin up'
  BY <1>1
<1>3. Made(calls)'
  BY <1>1, <1>2 DEF Made
<1> QED
  BY <1>1, <1>3

\* So disable_audio_input touches nothing of the output's, MI_SYS or the locks,
LEMMA InputOff ==
  ASSUME TypeOK, DisableInput
  PROVE  /\ up' \subseteq up /\ failed \subseteq failed' /\ failed' \subseteq Calls
         /\ Made(InputCalls)'
         /\ \A r \in {"mi_sys", "locks"} \cup Output : r \in up => r \in up'
<1>1. Disable(InputCalls, {})
  BY DEF DisableInput
<1>2. /\ up' \subseteq up \ {}
      /\ failed \subseteq failed' /\ failed' \subseteq failed \cup InputCalls
      /\ Made(InputCalls)'
      /\ \A r \in up \ {} :
           (\A c \in InputCalls : r \notin Releases[c]) => r \in up'
  BY <1>1, CallSets, DisableEffect
<1>3. \A r \in {"mi_sys", "locks"} \cup Output :
        \A c \in InputCalls : r \notin Releases[c]
  BY ReleasesFacts
<1> QED
  BY <1>2, <1>3, CallSets DEF TypeOK

\* disable_audio_output nothing of MI_SYS or the locks,
LEMMA OutputOff ==
  ASSUME TypeOK, DisableOutput
  PROVE  /\ up' \subseteq up \ {"audio_buffer"}
         /\ failed \subseteq failed' /\ failed' \subseteq Calls
         /\ Made(OutputCalls)'
         /\ \A r \in {"mi_sys", "locks"} : r \in up => r \in up'
<1>1. Disable(OutputCalls, {"audio_buffer"})
  BY DEF DisableOutput
<1>2. /\ up' \subseteq up \ {"audio_buffer"}
      /\ failed \subseteq failed' /\ failed' \subseteq failed \cup OutputCalls
      /\ Made(OutputCalls)'
      /\ \A r \in up \ {"audio_buffer"} :
           (\A c \in OutputCalls : r \notin Releases[c]) => r \in up'
  BY <1>1, CallSets, DisableEffect
<1>3. \A r \in {"mi_sys", "locks"} :
        r # "audio_buffer" /\ \A c \in OutputCalls : r \notin Releases[c]
  BY ReleasesFacts
<1> QED
  BY <1>2, <1>3, CallSets DEF TypeOK

\* and MI_SYS_Exit at most MI_SYS.
LEMMA SysOff ==
  ASSUME TypeOK, SysExit
  PROVE  /\ up' \subseteq up /\ failed \subseteq failed' /\ failed' \subseteq Calls
         /\ Made({"MI_SYS_Exit"})'
<1>1. Disable({"MI_SYS_Exit"}, {})
  BY DEF SysExit
<1>2. /\ up' \subseteq up \ {}
      /\ failed \subseteq failed' /\ failed' \subseteq failed \cup {"MI_SYS_Exit"}
      /\ Made({"MI_SYS_Exit"})'
  BY <1>1, CallSets, DisableEffect
<1> QED
  BY <1>2, CallSets DEF TypeOK

\* Calls made once stay made: nothing is set up again after the boot.
LEMMA MadeStays ==
  ASSUME up' \subseteq up, failed \subseteq failed'
  PROVE  \A calls : Made(calls) => Made(calls)'
  BY DEF Made

\* IInv holds when main has parsed its command line.
LEMMA InitIInv == Init => IInv
  BY ThreadNames DEF Init, IInv, TypeOK, BootInv, ThreadInv, TeardownInv,
     EchoNeedsOutput,
     Booting, Working, Teardown, Created, Wanted, InUse, Resources, Places

\* No step gives a variable a value of another type.
LEMMA TypeStep == TypeOK /\ [Next]_vars => TypeOK'
<1> SUFFICES ASSUME TypeOK, [Next]_vars PROVE TypeOK'
  OBVIOUS
<1> USE ThreadNames DEF TypeOK, Main, options, hardware,
        Places
<1>1. CASE LoadConfig
  BY <1>1 DEF LoadConfig
<1>2. CASE InitSys
  BY <1>2 DEF InitSys, Resources
<1>3. CASE InitOutput
  BY <1>3 DEF InitOutput, PartsOfOutput, Resources, Output
<1>4. CASE InitInput
  BY <1>4 DEF InitInput, PartsOfInput, EchoReference, Resources, Input
<1>5. CASE AllCreated
  BY <1>5 DEF AllCreated
<1>6. CASE MainLoop
  BY <1>6 DEF MainLoop
<1>7. CASE AllJoined
  BY <1>7 DEF AllJoined, ToJoin
<1>8. CASE DisableInput
  BY <1>8, InputOff DEF DisableInput
<1>9. CASE DisableOutput
  BY <1>9, OutputOff DEF DisableOutput
<1>10. CASE ConfigCleanup
  BY <1>10 DEF ConfigCleanup
<1>11. CASE DestroyLocks
  BY <1>11 DEF DestroyLocks
<1>12. CASE SysExit
  BY <1>12, SysOff DEF SysExit
<1>13. ASSUME NEW t \in Threads, CreateThread(t) PROVE TypeOK'
  BY <1>13 DEF CreateThread, NextToCreate
<1>14. ASSUME NEW t \in Threads, AbortStartup(t) PROVE TypeOK'
  BY <1>14 DEF AbortStartup, NextToCreate, ExitsWithFailure
<1>15. ASSUME NEW t \in Threads, Join(t) PROVE TypeOK'
  BY <1>15 DEF Join, ToJoin
<1>16. ASSUME NEW t \in Threads, ThreadRuns(t) PROVE TypeOK'
  BY <1>16 DEF ThreadRuns, Moves, Alive
<1>17. ASSUME NEW t \in Threads, SetupFails(t) PROVE TypeOK'
  BY <1>17 DEF SetupFails, Moves, Alive
<1>18. ASSUME NEW t \in Threads, ThreadEnds(t) PROVE TypeOK'
  BY <1>18 DEF ThreadEnds, Moves, Alive
<1>19. CASE InputAborts
  BY <1>19 DEF InputAborts, Alive
<1>20. CASE ControlFails
  BY <1>20 DEF ControlFails, Moves, Alive
<1>21. CASE OutputBlocks
  BY <1>21 DEF OutputBlocks, Moves, Alive
<1>22. CASE ClientActs
  BY <1>22 DEF ClientActs, Moves, Alive
<1>23. CASE HandleSigint
  BY <1>23 DEF HandleSigint, Alive
<1>24. CASE HandleSigintInOutput
  BY <1>24 DEF HandleSigintInOutput, Alive
<1>25. CASE ControlServes
  BY <1>25 DEF ControlServes, Moves, Alive
<1>26. CASE ControlServed
  BY <1>26 DEF ControlServed, Moves, Alive
<1>27. CASE UNCHANGED vars
  BY <1>27 DEF vars
<1> QED
  BY <1>1, <1>2, <1>3, <1>4, <1>5, <1>6, <1>7, <1>8, <1>9, <1>10,
     <1>11, <1>12, <1>13, <1>14, <1>15, <1>16, <1>17, <1>18, <1>19, <1>20,
     <1>21, <1>22, <1>23, <1>24, <1>25, <1>26, <1>27
     DEF Next, MainStep, Boot, Cleanup, ThreadStep

\* No step leaves BootInv.
LEMMA BootStep == TypeOK /\ BootInv /\ [Next]_vars => BootInv'
<1> SUFFICES ASSUME TypeOK /\ BootInv, [Next]_vars PROVE BootInv'
  OBVIOUS
<1> USE ThreadNames DEF TypeOK, BootInv, Booting, Working, Teardown, Main,
        options, hardware
<1>1. CASE LoadConfig
  BY <1>1 DEF LoadConfig
<1>2. CASE InitSys
  BY <1>2 DEF InitSys
<1>3. CASE InitOutput
  BY <1>3 DEF InitOutput, PartsOfOutput, Output
<1>4. CASE InitInput
  BY <1>4 DEF InitInput, PartsOfInput, EchoReference, Output, Input
<1>5. CASE AllCreated
  BY <1>5 DEF AllCreated
<1>6. CASE MainLoop
  BY <1>6 DEF MainLoop
<1>7. CASE AllJoined
  BY <1>7 DEF AllJoined, ToJoin
<1>8. CASE DisableInput
  BY <1>8, InputOff DEF DisableInput
<1>9. CASE DisableOutput
  BY <1>9, OutputOff DEF DisableOutput
<1>10. CASE ConfigCleanup
  BY <1>10 DEF ConfigCleanup
<1>11. CASE DestroyLocks
  BY <1>11 DEF DestroyLocks
<1>12. CASE SysExit
  BY <1>12, SysOff DEF SysExit
<1>13. ASSUME NEW t \in Threads, CreateThread(t) PROVE BootInv'
  BY <1>13 DEF CreateThread, NextToCreate
<1>14. ASSUME NEW t \in Threads, AbortStartup(t) PROVE BootInv'
  BY <1>14 DEF AbortStartup, NextToCreate, ExitsWithFailure
<1>15. ASSUME NEW t \in Threads, Join(t) PROVE BootInv'
  BY <1>15 DEF Join, ToJoin
<1>16. ASSUME NEW t \in Threads, ThreadRuns(t) PROVE BootInv'
  BY <1>16 DEF ThreadRuns, Moves, Alive
<1>17. ASSUME NEW t \in Threads, SetupFails(t) PROVE BootInv'
  BY <1>17 DEF SetupFails, Moves, Alive
<1>18. ASSUME NEW t \in Threads, ThreadEnds(t) PROVE BootInv'
  BY <1>18 DEF ThreadEnds, Moves, Alive
<1>19. CASE InputAborts
  BY <1>19 DEF InputAborts, Alive
<1>20. CASE ControlFails
  BY <1>20 DEF ControlFails, Moves, Alive
<1>21. CASE OutputBlocks
  BY <1>21 DEF OutputBlocks, Moves, Alive
<1>22. CASE ClientActs
  BY <1>22 DEF ClientActs, Moves, Alive
<1>23. CASE HandleSigint
  BY <1>23 DEF HandleSigint, Alive
<1>24. CASE HandleSigintInOutput
  BY <1>24 DEF HandleSigintInOutput, Alive
<1>25. CASE ControlServes
  BY <1>25 DEF ControlServes, Moves, Alive
<1>26. CASE ControlServed
  BY <1>26 DEF ControlServed, Moves, Alive
<1>27. CASE UNCHANGED vars
  BY <1>27 DEF vars
<1> QED
  BY <1>1, <1>2, <1>3, <1>4, <1>5, <1>6, <1>7, <1>8, <1>9, <1>10,
     <1>11, <1>12, <1>13, <1>14, <1>15, <1>16, <1>17, <1>18, <1>19, <1>20,
     <1>21, <1>22, <1>23, <1>24, <1>25, <1>26, <1>27
     DEF Next, MainStep, Boot, Cleanup, ThreadStep

\* No step leaves ThreadInv.
LEMMA ThreadsStep == TypeOK /\ BootInv /\ ThreadInv /\ [Next]_vars => ThreadInv'
<1> SUFFICES ASSUME TypeOK /\ BootInv /\ ThreadInv, [Next]_vars PROVE ThreadInv'
  OBVIOUS
<1> USE ThreadNames DEF TypeOK, BootInv, ThreadInv, Booting, Working,
        Teardown, Created, Wanted, InUse, Main, options, hardware
<1>1. CASE LoadConfig
  BY <1>1 DEF LoadConfig
<1>2. CASE InitSys
  BY <1>2 DEF InitSys
<1>3. CASE InitOutput
  BY <1>3 DEF InitOutput
<1>4. CASE InitInput
  BY <1>4 DEF InitInput, EchoReference
<1>5. CASE AllCreated
  BY <1>5 DEF AllCreated
<1>6. CASE MainLoop
  BY <1>6 DEF MainLoop
<1>7. CASE AllJoined
  BY <1>7 DEF AllJoined, ToJoin
<1>8. CASE DisableInput
  BY <1>8 DEF DisableInput
<1>9. CASE DisableOutput
  BY <1>9 DEF DisableOutput
<1>10. CASE ConfigCleanup
  BY <1>10 DEF ConfigCleanup
<1>11. CASE DestroyLocks
  BY <1>11 DEF DestroyLocks
<1>12. CASE SysExit
  BY <1>12 DEF SysExit
<1>13. ASSUME NEW t \in Threads, CreateThread(t) PROVE ThreadInv'
  BY <1>13 DEF CreateThread, NextToCreate
<1>14. ASSUME NEW t \in Threads, AbortStartup(t) PROVE ThreadInv'
  BY <1>14 DEF AbortStartup, NextToCreate, ExitsWithFailure
<1>15. ASSUME NEW t \in Threads, Join(t) PROVE ThreadInv'
  BY <1>15 DEF Join, ToJoin
<1>16. ASSUME NEW t \in Threads, ThreadRuns(t) PROVE ThreadInv'
  BY <1>16 DEF ThreadRuns, Moves, Alive
<1>17. ASSUME NEW t \in Threads, SetupFails(t) PROVE ThreadInv'
  BY <1>17 DEF SetupFails, Moves, Alive
<1>18. ASSUME NEW t \in Threads, ThreadEnds(t) PROVE ThreadInv'
  BY <1>18 DEF ThreadEnds, Moves, Alive
<1>19. CASE InputAborts
  BY <1>19 DEF InputAborts, Alive
<1>20. CASE ControlFails
  BY <1>20 DEF ControlFails, Moves, Alive
<1>21. CASE OutputBlocks
  BY <1>21 DEF OutputBlocks, Moves, Alive
<1>22. CASE ClientActs
  BY <1>22 DEF ClientActs, Moves, Alive
<1>23. CASE HandleSigint
  BY <1>23 DEF HandleSigint, Alive
<1>24. CASE HandleSigintInOutput
  BY <1>24 DEF HandleSigintInOutput, Alive
<1>25. CASE ControlServes
  BY <1>25 DEF ControlServes, Moves, Alive
<1>26. CASE ControlServed
  BY <1>26 DEF ControlServed, Moves, Alive
<1>27. CASE UNCHANGED vars
  BY <1>27 DEF vars
<1> QED
  BY <1>1, <1>2, <1>3, <1>4, <1>5, <1>6, <1>7, <1>8, <1>9, <1>10,
     <1>11, <1>12, <1>13, <1>14, <1>15, <1>16, <1>17, <1>18, <1>19, <1>20,
     <1>21, <1>22, <1>23, <1>24, <1>25, <1>26, <1>27
     DEF Next, MainStep, Boot, Cleanup, ThreadStep

\* No step leaves TeardownInv or EchoNeedsOutput.
LEMMA TeardownStep ==
  TypeOK /\ BootInv /\ TeardownInv /\ EchoNeedsOutput /\ [Next]_vars
    => (TeardownInv /\ EchoNeedsOutput)'
<1> SUFFICES ASSUME TypeOK /\ BootInv /\ TeardownInv /\ EchoNeedsOutput,
                    [Next]_vars
             PROVE  (TeardownInv /\ EchoNeedsOutput)'
  OBVIOUS
<1> USE ThreadNames DEF TypeOK, BootInv, TeardownInv, EchoNeedsOutput, Booting,
        Working, Teardown, Main, options, hardware
<1>1. CASE LoadConfig
  BY <1>1 DEF LoadConfig
<1>2. CASE InitSys
  BY <1>2 DEF InitSys
<1>3. CASE InitOutput
  BY <1>3 DEF InitOutput, PartsOfOutput, Output
<1>4. CASE InitInput
  BY <1>4 DEF InitInput, PartsOfInput, EchoReference, Output, Input
<1>5. CASE AllCreated
  BY <1>5 DEF AllCreated, Made
<1>6. CASE MainLoop
  BY <1>6 DEF MainLoop, Made
<1>7. CASE AllJoined
  BY <1>7 DEF AllJoined, ToJoin, Made
<1>8. CASE DisableInput
  <2>1. mpc' = "disable_ao" /\ config' = config
    BY <1>8 DEF DisableInput
  <2>2. Made(InputCalls)' /\ up' \subseteq up /\ failed \subseteq failed'
    BY <1>8, InputOff
  <2>3. Output \subseteq up => Output \subseteq up'
    BY <1>8, InputOff
  <2> QED
    BY <2>1, <2>2, <2>3
<1>9. CASE DisableOutput
  <2>1. mpc = "disable_ao" /\ mpc' = "config_cleanup" /\ config' = config
    BY <1>9 DEF DisableOutput
  <2>2. /\ Made(OutputCalls)' /\ up' \subseteq up \ {"audio_buffer"}
        /\ failed \subseteq failed'
    BY <1>9, OutputOff
  <2>3. Made(InputCalls)'
    BY <2>1, <2>2, MadeStays
  <2>4. "aec" \in up' => "MI_AI_DisableVqe" \in failed'
    BY <2>3, ReleasesFacts DEF InputCalls, Made
  <2> QED
    BY <2>1, <2>2, <2>3, <2>4
<1>10. CASE ConfigCleanup
  BY <1>10, MadeStays DEF ConfigCleanup
<1>11. CASE DestroyLocks
  <2>1. /\ mpc = "destroy" /\ mpc' = "sys_exit" /\ config' = config
        /\ up' = up \ {"locks"} /\ failed' = failed
    BY <1>11 DEF DestroyLocks
  <2>2. Made(InputCalls)' /\ Made(OutputCalls)'
    BY <2>1, MadeStays
  <2>3. "aec" \in up' => "MI_AI_DisableVqe" \in failed'
    BY <2>1, <2>2, ReleasesFacts DEF InputCalls, Made
  <2> QED
    BY <2>1, <2>2, <2>3
<1>12. CASE SysExit
  <2>1. mpc = "sys_exit" /\ mpc' = "done" /\ config' = config
    BY <1>12 DEF SysExit
  <2>2. /\ Made({"MI_SYS_Exit"})' /\ up' \subseteq up /\ failed \subseteq failed'
    BY <1>12, SysOff
  <2>3. Made(InputCalls)' /\ Made(OutputCalls)'
    BY <2>1, <2>2, MadeStays
  <2>4. "aec" \in up' => "MI_AI_DisableVqe" \in failed'
    BY <2>3, ReleasesFacts DEF InputCalls, Made
  <2> QED
    BY <2>1, <2>2, <2>3, <2>4
<1>13. ASSUME NEW t \in Threads, CreateThread(t)
      PROVE  (TeardownInv /\ EchoNeedsOutput)'
  BY <1>13 DEF CreateThread, NextToCreate, Made
<1>14. ASSUME NEW t \in Threads, AbortStartup(t)
      PROVE  (TeardownInv /\ EchoNeedsOutput)'
  BY <1>14 DEF AbortStartup, NextToCreate, ExitsWithFailure, Made
<1>15. ASSUME NEW t \in Threads, Join(t)
      PROVE  (TeardownInv /\ EchoNeedsOutput)'
  BY <1>15 DEF Join, ToJoin, Made
<1>16. ASSUME NEW t \in Threads, ThreadRuns(t)
      PROVE  (TeardownInv /\ EchoNeedsOutput)'
  BY <1>16 DEF ThreadRuns, Moves, Alive, Made
<1>17. ASSUME NEW t \in Threads, SetupFails(t)
      PROVE  (TeardownInv /\ EchoNeedsOutput)'
  BY <1>17 DEF SetupFails, Moves, Alive, Made
<1>18. ASSUME NEW t \in Threads, ThreadEnds(t)
      PROVE  (TeardownInv /\ EchoNeedsOutput)'
  BY <1>18 DEF ThreadEnds, Moves, Alive, Made
<1>19. CASE InputAborts
  BY <1>19 DEF InputAborts, Alive, Made
<1>20. CASE ControlFails
  BY <1>20 DEF ControlFails, Moves, Alive, Made
<1>21. CASE OutputBlocks
  BY <1>21 DEF OutputBlocks, Moves, Alive, Made
<1>22. CASE ClientActs
  BY <1>22 DEF ClientActs, Moves, Alive, Made
<1>23. CASE HandleSigint
  BY <1>23 DEF HandleSigint, Alive, Made
<1>24. CASE HandleSigintInOutput
  BY <1>24 DEF HandleSigintInOutput, Alive, Made
<1>25. CASE ControlServes
  BY <1>25 DEF ControlServes, Moves, Alive, Made
<1>26. CASE ControlServed
  BY <1>26 DEF ControlServed, Moves, Alive, Made
<1>27. CASE UNCHANGED vars
  BY <1>27 DEF vars, Made
<1> QED
  BY <1>1, <1>2, <1>3, <1>4, <1>5, <1>6, <1>7, <1>8, <1>9, <1>10,
     <1>11, <1>12, <1>13, <1>14, <1>15, <1>16, <1>17, <1>18, <1>19, <1>20,
     <1>21, <1>22, <1>23, <1>24, <1>25, <1>26, <1>27
     DEF Next, MainStep, Boot, Cleanup, ThreadStep

\* IInv holds in every reachable state.
LEMMA Invariance == Spec => []IInv
<1>1. IInv /\ [Next]_vars => IInv'
  BY TypeStep, BootStep, ThreadsStep, TeardownStep DEF IInv
<1> QED
  BY <1>1, InitIInv, PTL DEF Spec

\* Every variable keeps to its type.
THEOREM TypeCorrect == Spec => []TypeOK
<1>1. IInv => TypeOK
  BY DEF IInv
<1> QED
  BY <1>1, Invariance, PTL

\* What a thread uses is there from before its start until after its end,
\* whichever of the four thread creations succeeded.
THEOREM OutlivesThreads == Spec => []ResourcesOutliveThreads
<1>1. IInv => ResourcesOutliveThreads
  BY ThreadNames DEF IInv, TypeOK, BootInv, ThreadInv, TeardownInv, Booting,
     Working, Teardown,
     ResourcesOutliveThreads, InUse, Needs, Alive, Created, Wanted
<1> QED
  BY <1>1, Invariance, PTL

\* The echo canceller refers to an output that is not set up only after a failed
\* MI_AI_DisableVqe.
THEOREM EchoBinding == Spec => []EchoNeedsOutput
<1>1. IInv => EchoNeedsOutput
  BY DEF IInv
<1> QED
  BY <1>1, Invariance, PTL

\* main returns with nothing left but what a call failed to disable, and with an
\* exit code that is truthful of the startup.
THEOREM ReturnsClean == Spec => []CleanReturn
<1>1. IInv => CleanReturn
  <2> SUFFICES ASSUME IInv, mpc = "done" PROVE CleanReturn
    BY DEF CleanReturn
  <2>1. Made(InputCalls) /\ Made(OutputCalls) /\ Made({"MI_SYS_Exit"})
    BY DEF IInv, TeardownInv, Teardown
  <2>2. "audio_buffer" \notin up /\ "locks" \notin up /\ up \subseteq Resources
    BY DEF IInv, TypeOK, BootInv, TeardownInv, Teardown
  <2>3. \A r \in up : \E c \in failed : r \in Releases[c]
    BY <2>1, <2>2, ReleasesFacts DEF Made, Calls
  <2>4. /\ config = "freed" /\ \A t \in Threads : ~InUse(t)
        /\ exit_code = 0 => Created = Wanted
    BY DEF IInv, ThreadInv, TeardownInv, Teardown
  <2> QED
    BY <2>3, <2>4 DEF CleanReturn
<1> QED
  BY <1>1, Invariance, PTL
=============================================================================
