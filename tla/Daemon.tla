------------------------------- MODULE Daemon --------------------------------
(***************************************************************************)
(* iad's main: it reads the configuration, initializes the hardware,       *)
(* starts the threads, waits for a stop, joins the threads and tears       *)
(* everything down.  What a thread does between its start and its end is   *)
(* in AudioOutput, AudioInput and ControlServer; here it matters only what *)
(* it uses, that the AO server may be blocked in accept() or recv(), and   *)
(* that the control server sees no stop while it has clients.              *)
(*                                                                         *)
(* Every call of the SDK may fail, in the boot and in the teardown.        *)
(*                                                                         *)
(* The wake-up of condition variables, in ABORT_STARTUP and before the     *)
(* joins, is in AudioOutput.                                               *)
(***************************************************************************)
EXTENDS Integers, Sequences

\* The order in which main creates the threads, and joins them.
Order == <<"control", "input", "output", "play">>

Threads == {Order[i] : i \in DOMAIN Order}

Before(t) == {Order[i] : i \in {j \in 1..4 : \E k \in 1..4 : j < k /\ Order[k] = t}}

\* A configuration, as far as main looks: does each direction say "enabled"?
\* A file that fails validation is used like any other; without a file, or
\* without JSON in it, both directions are enabled.
Configs == [ai : BOOLEAN, ao : BOOLEAN]

VARIABLES
  mpc,                     \* main
  disable_ai, disable_ao,  \* options first, then the final states
  config,                  \* "unread", "live" or "freed"
  up,                      \* what is initialized, of Resources
  failed,                  \* the calls of the teardown that returned an error
  thread,                  \* where each thread is
  joined, exit_code, g_stop_thread

options == <<disable_ai, disable_ao>>
hardware == <<up, failed>>
vars == <<mpc, options, config, hardware, thread, joined, exit_code,
          g_stop_thread>>

\* What the initialization of a direction sets up, in this order.
Output == {"ao_attributes", "ao_device", "ao_channel"}
Input  == {"ai_attributes", "ai_device", "ai_channel"}

\* MI_SYS; the devices; their signal processing (VQE), and the reference of the
\* input's to the output; the buffer allocated; the locks not destroyed.
Resources == {"mi_sys", "ao_vqe", "ai_vqe", "aec", "audio_buffer", "locks"}
               \cup Output \cup Input

\* The calls of the teardown, and what each disables.
Releases == [MI_AI_DisableVqe |-> {"ai_vqe", "aec"},
             MI_AI_DisableChn |-> {"ai_channel"},
             MI_AI_Disable    |-> {"ai_device"},
             MI_AI_ClrPubAttr |-> {"ai_attributes"},
             MI_AO_DisableVqe |-> {"ao_vqe"},
             MI_AO_DisableChn |-> {"ao_channel"},
             MI_AO_Disable    |-> {"ao_device"},
             MI_AO_ClrPubAttr |-> {"ao_attributes"},
             MI_SYS_Exit      |-> {"mi_sys"}]

InputCalls  == {"MI_AI_DisableVqe", "MI_AI_DisableChn", "MI_AI_Disable",
                "MI_AI_ClrPubAttr"}
OutputCalls == {"MI_AO_DisableVqe", "MI_AO_DisableChn", "MI_AO_Disable",
                "MI_AO_ClrPubAttr"}
Calls == InputCalls \cup OutputCalls \cup {"MI_SYS_Exit"}

\* "blocked": the AO server is in accept() or recv(); "serving": the control
\* server has a connection to accept or to answer.
Places == {"none", "starting", "running", "blocked", "serving", "ended"}

TypeOK ==
  /\ mpc \in {"config", "sys", "ao", "ai", "create", "loop", "join",
              "disable_ai", "disable_ao", "config_cleanup", "destroy",
              "sys_exit", "done", "exited"}
  /\ disable_ai \in BOOLEAN /\ disable_ao \in BOOLEAN
  /\ config \in {"unread", "live", "freed"}
  /\ up \subseteq Resources /\ failed \subseteq Calls
  /\ thread \in [Threads -> Places]
  /\ joined \subseteq Threads
  /\ exit_code \in {0, 1}
  /\ g_stop_thread \in BOOLEAN

\* The command line is parsed and the signal handlers are set.
Init ==
  /\ mpc = "config"
  /\ disable_ai \in BOOLEAN /\ disable_ao \in BOOLEAN
  /\ config = "unread"
  /\ up = {"locks"} /\ failed = {}
  /\ thread = [t \in Threads |-> "none"]
  /\ joined = {} /\ exit_code = 0 /\ g_stop_thread = FALSE

-----------------------------------------------------------------------------
(* main boots.                                                             *)

Main(from, to) == mpc = from /\ mpc' = to

\* config_load_from_file, and the final AI / AO states
LoadConfig ==
  /\ Main("config", "sys")
  /\ \E c \in Configs :
       /\ disable_ai' = (disable_ai \/ ~c.ai)
       /\ disable_ao' = (disable_ao \/ ~c.ao)
  /\ config' = "live"
  /\ UNCHANGED <<hardware, thread, joined, exit_code, g_stop_thread>>

\* MI_SYS_Init, or exit(EXIT_FAILURE)
InitSys ==
  /\ \/ Main("sys", "ao") /\ up' = up \cup {"mi_sys"}
     \/ Main("sys", "exited") /\ UNCHANGED up
  /\ UNCHANGED <<options, config, failed, thread, joined, exit_code, g_stop_thread>>

\* What one call after the other has set up when the next, or malloc(), fails.
PartsOfOutput == {{}, {"ao_attributes"}, {"ao_attributes", "ao_device"}, Output,
                  Output \cup {"ao_vqe"}}

\* initialize_audio_output_device; a failure is exit(EXIT_FAILURE), which
\* leaves the hardware as it is, except that the VQE is done without.
InitOutput ==
  /\ \/ Main("ao", "ai") /\ disable_ao /\ UNCHANGED up
     \/ /\ Main("ao", "ai") /\ ~disable_ao
        /\ \E vqe \in {{}, {"ao_vqe"}} :
             up' = up \cup Output \cup vqe \cup {"audio_buffer"}
     \/ /\ Main("ao", "exited") /\ ~disable_ao
        /\ \E part \in PartsOfOutput : up' = up \cup part
  /\ UNCHANGED <<options, config, failed, thread, joined, exit_code, g_stop_thread>>

\* MI_AO_GetPubAttr tells whether the output's attributes are set; only then
\* does the input's VQE refer to it.  The bug: no look.
AlwaysBinds == {"aec"}
EchoReference == IF "ao_attributes" \in up THEN {"aec"} ELSE {}

\* initialize_audio_input_device, with the VQE and the reference if the calls for
\* them succeed.
PartsOfInput == {{}, {"ai_attributes"}, {"ai_attributes", "ai_device"}}

InitInput ==
  /\ \/ Main("ai", "create") /\ disable_ai /\ UNCHANGED up
     \/ /\ Main("ai", "create") /\ ~disable_ai
        /\ \E vqe \in {{}, {"ai_vqe"}, {"ai_vqe"} \cup EchoReference} :
             up' = up \cup Input \cup vqe
     \/ /\ Main("ai", "exited") /\ ~disable_ai
        /\ \E part \in PartsOfInput : up' = up \cup part
  /\ UNCHANGED <<options, config, failed, thread, joined, exit_code, g_stop_thread>>

\* The threads this configuration calls for.
Wanted == {"control"} \cup (IF disable_ai THEN {} ELSE {"input"})
                      \cup (IF disable_ao THEN {} ELSE {"output", "play"})

Created == {t \in Threads : thread[t] # "none"}

NextToCreate(t) ==
  /\ t \in Wanted \ Created
  /\ Before(t) \cap Wanted \subseteq Created

\* create_thread succeeds,
CreateThread(t) ==
  /\ mpc = "create" /\ NextToCreate(t)
  /\ thread' = [thread EXCEPT ![t] = "starting"]
  /\ UNCHANGED <<mpc, options, config, hardware, joined, exit_code, g_stop_thread>>

\* or fails: ABORT_STARTUP, whose exit code is 1
ExitsWithFailure == exit_code' = 1

AbortStartup(t) ==
  /\ Main("create", "loop") /\ NextToCreate(t)
  /\ ExitsWithFailure
  /\ g_stop_thread' = TRUE
  /\ UNCHANGED <<options, config, hardware, thread, joined>>

AllCreated ==
  /\ Main("create", "loop") /\ Wanted \subseteq Created
  /\ UNCHANGED <<options, config, hardware, thread, joined, exit_code,
                 g_stop_thread>>

-----------------------------------------------------------------------------
(* main waits, joins and cleans up.                                        *)

MainLoop ==
  /\ Main("loop", "join") /\ g_stop_thread
  /\ UNCHANGED <<options, config, hardware, thread, joined, exit_code,
                 g_stop_thread>>

\* A thread is joined if its _up flag is set.  The bugs: the joins are skipped
\* after a failed startup; they do not look at the flags.
SkipsJoins == IF exit_code = 0 THEN Created ELSE {}
JoinsAll == Threads
ToJoin == Created

\* pthread_join, in order
Join(t) ==
  /\ mpc = "join" /\ t \in ToJoin \ joined
  /\ Before(t) \cap ToJoin \subseteq joined
  /\ thread[t] = "ended"
  /\ joined' = joined \cup {t}
  /\ UNCHANGED <<mpc, options, config, hardware, thread, exit_code, g_stop_thread>>

AllJoined ==
  /\ Main("join", "disable_ai") /\ ToJoin \subseteq joined
  /\ UNCHANGED <<options, config, hardware, thread, joined, exit_code,
                 g_stop_thread>>

\* "Track errors but do not abort" (input.c:189, output.c:212): an error is
\* logged, the next call made, and nobody reads the -1 returned in the end.  The
\* bug: a function returns when the first of its calls has failed.
ReturnsEarly(calls, errors) ==
  IF {"MI_AI_DisableVqe", "MI_AO_DisableVqe"} \cap errors # {} THEN {}
  ELSE calls \ errors
Succeeding(calls, errors) == calls \ errors

Disable(calls, freed) ==
  \E errors \in SUBSET calls :
    /\ failed' = failed \cup errors
    /\ up' = (up \ freed) \ UNION {Releases[c] : c \in Succeeding(calls, errors)}

\* perform_cleanup: disable_audio_input, whether it was enabled or not
DisableInput ==
  /\ Main("disable_ai", "disable_ao")
  /\ Disable(InputCalls, {})
  /\ UNCHANGED <<options, config, thread, joined, exit_code, g_stop_thread>>

\* disable_audio_output and cleanup_audio_output
DisableOutput ==
  /\ Main("disable_ao", "config_cleanup")
  /\ Disable(OutputCalls, {"audio_buffer"})
  /\ UNCHANGED <<options, config, thread, joined, exit_code, g_stop_thread>>

\* config_cleanup
ConfigCleanup ==
  /\ Main("config_cleanup", "destroy")
  /\ config' = "freed"
  /\ UNCHANGED <<options, hardware, thread, joined, exit_code, g_stop_thread>>

\* The mutexes and the condition variable are destroyed.
DestroyLocks ==
  /\ Main("destroy", "sys_exit")
  /\ up' = up \ {"locks"}
  /\ UNCHANGED <<options, config, failed, thread, joined, exit_code, g_stop_thread>>

\* MI_SYS_Exit, whose result is not looked at, and return exit_code
SysExit ==
  /\ Main("sys_exit", "done")
  /\ Disable({"MI_SYS_Exit"}, {})
  /\ UNCHANGED <<options, config, thread, joined, exit_code, g_stop_thread>>

Boot == LoadConfig \/ InitSys \/ InitOutput \/ InitInput
Cleanup == DisableInput \/ DisableOutput \/ ConfigCleanup \/ DestroyLocks \/ SysExit
MainStep == \/ Boot \/ AllCreated \/ MainLoop \/ AllJoined \/ Cleanup
            \/ \E t \in Threads : CreateThread(t) \/ AbortStartup(t) \/ Join(t)

-----------------------------------------------------------------------------
(* The threads, and the signals.                                           *)

\* Nothing runs after exit() or the return from main.
Alive == mpc \notin {"done", "exited"}

Moves(t, from, to) ==
  /\ Alive /\ thread[t] = from
  /\ thread' = [thread EXCEPT ![t] = to]
  /\ UNCHANGED <<mpc, options, config, hardware, joined, exit_code, g_stop_thread>>

\* A thread reads the configuration and sets up its socket, if it has one.
ThreadRuns(t) == Moves(t, "starting", "running")

\* A server whose socket cannot be set up returns; the daemon goes on.
SetupFails(t) == t # "play" /\ Moves(t, "starting", "ended")

\* The AI server cannot start its recording thread: it returns and stops the
\* daemon.
InputAborts ==
  /\ Alive /\ thread["input"] = "starting"
  /\ thread' = [thread EXCEPT !["input"] = "ended"]
  /\ g_stop_thread' = TRUE
  /\ UNCHANGED <<mpc, options, config, hardware, joined, exit_code>>

\* select() fails in the control server, which returns.
ControlFails == Moves("control", "running", "ended")

\* select() reports a connection: the control server accepts it and waits for
\* its request, without a look at the flag.
ControlServes == Moves("control", "running", "serving")

\* The client has asked or left, or accept() has failed: select() again.
ControlServed == Moves("control", "serving", "running")

\* A thread returns once it has seen the flag.  The control server looks at it
\* only after a second in which nobody has connected.
ThreadEnds(t) == g_stop_thread /\ Moves(t, "running", "ended")

\* The AO server has seen no stop and calls accept() or recv(),
OutputBlocks == ~g_stop_thread /\ Moves("output", "running", "blocked")

\* where it stays until a client connects, sends or leaves.
ClientActs == Moves("output", "blocked", "running")

\* The signal is delivered to main or another thread that does not block,
HandleSigint ==
  /\ Alive /\ g_stop_thread' = TRUE
  /\ UNCHANGED <<mpc, options, config, hardware, thread, joined, exit_code>>

\* or to the AO server, whose call it interrupts.
HandleSigintInOutput ==
  /\ Alive /\ thread["output"] = "blocked"
  /\ thread' = [thread EXCEPT !["output"] = "running"]
  /\ g_stop_thread' = TRUE
  /\ UNCHANGED <<mpc, options, config, hardware, joined, exit_code>>

ThreadStep(t) == ThreadRuns(t) \/ SetupFails(t) \/ ThreadEnds(t)

Next == \/ MainStep
        \/ \E t \in Threads : ThreadStep(t)
        \/ InputAborts \/ OutputBlocks \/ ClientActs
        \/ ControlFails \/ ControlServes \/ ControlServed
        \/ HandleSigint \/ HandleSigintInOutput

Spec == Init /\ [][Next]_vars

\* Every thread is scheduled.
FairSpec ==
  Spec /\ WF_vars(MainStep) /\ \A t \in Threads : WF_vars(ThreadStep(t))

-----------------------------------------------------------------------------
(* Properties.                                                             *)

InUse(t) == thread[t] \notin {"none", "ended"}

\* What a thread uses, besides the configuration.
Needs(t) ==
  {"mi_sys", "locks"}
    \cup (IF t = "input" THEN Input ELSE {})
    \cup (IF t \in {"output", "play"} THEN Output \cup {"audio_buffer"} ELSE {})

\* The hardware is initialized before the threads that use it start, and
\* nothing a thread uses is disabled, freed or destroyed before it has ended,
\* whatever part of the startup succeeded.
ResourcesOutliveThreads ==
  \A t \in Threads : InUse(t) /\ Alive => config = "live" /\ Needs(t) \subseteq up

\* "Check if AO is actually running before binding" (input.c:87): the look at the
\* output's attributes tells that its device and channel are enabled too, and the
\* teardown takes the reference away before the output.  Only a failed
\* MI_AI_DisableVqe leaves the echo canceller with an output that is no more.
EchoNeedsOutput ==
  "aec" \in up => Output \subseteq up \/ "MI_AI_DisableVqe" \in failed

\* When main returns, what is still initialized is what a call of its own has
\* failed to disable: no failure keeps the calls after it from being made, and
\* the buffer, the configuration and the locks are released in any case.  No
\* thread is left.  The exit code is 0 only if all the threads the configuration
\* calls for had been started; of the teardown it says nothing.
CleanReturn ==
  mpc = "done" =>
    /\ \A r \in up : \E c \in failed : r \in Releases[c]
    /\ config = "freed"
    /\ \A t \in Threads : ~InUse(t)
    /\ exit_code = 0 => Created = Wanted

\* A client of the AO server acts or leaves in the end, and those of the control
\* server leave it a second without a connection.
OutputGetsOn  == []<>(thread["output"] # "blocked")
ControlIsLeft == <>[](thread["control"] # "serving")

\* A stop, by a signal or by a startup that fails, ends the program, unless the AO
\* server stays in accept() or recv(), or the control server is kept busy or in
\* recv(): nothing else that main joins or does holds the exit up.
StopEnds == OutputGetsOn /\ ControlIsLeft => (g_stop_thread ~> ~Alive)
=============================================================================
