----------------------------- MODULE AudioOutput -----------------------------
(***************************************************************************)
(* The audio-output path of iad: the AO server thread, which accepts one   *)
(* client at a time and deposits what it receives in the one-chunk         *)
(* audio_buffer, the play thread, which moves that chunk to the DMA, and   *)
(* the main thread's boot and shutdown of the two.  Clients are processes  *)
(* of their own: they connect, send and leave whenever they like.          *)
(*                                                                         *)
(* Granularity.  Every access to shared state that another thread can see  *)
(* is a step.  g_stop_thread is written without audio_buffer_lock (by the  *)
(* signal handler), so each evaluation of a wait predicate is a step of    *)
(* its own, separate from the wait it leads to.  What a thread does to the *)
(* buffer between two such reads, under the lock, is one step.             *)
(*                                                                         *)
(* Data.  A chunk is what one recv() returns; chunks are numbered in the   *)
(* order they are received.  0 stands for "no chunk" (in the buffer: the   *)
(* zeros of the memset).  audio_buffer_size counts chunks: the code only   *)
(* compares it with zero and hands it on with the bytes it counts.         *)
(***************************************************************************)
EXTENDS Integers, Sequences, FiniteSets

CONSTANTS Conns,      \* the client connections ever made to the AO socket
          NoClient,   \* the -1 of active_client_sock
          StreamLen   \* BOUND: chunks a client has to send before it closes

ASSUME OutputAssumption == /\ IsFiniteSet(Conns)
                           /\ NoClient \notin Conns
                           /\ StreamLen \in Nat

\* The backlog of listen(server_sock, 5).
Backlog == 5

VARIABLES
  \* --- globals of utils.c, output.c and output_server.c ---
  g_stop_thread,       \* the shutdown flag
  audio_buffer_lock,   \* which thread holds the mutex, or "none"
  audio_buffer,        \* the chunk in the buffer, 0 (zeroed), -1 (freed)
  audio_buffer_size,   \* 0 when the buffer is empty
  active_client_sock,  \* output_server.c's own copy
  \* --- threads: where each stands, and its locals ---
  spc, srv_buf,        \* AO server; its buf holds this chunk, 0 if none
  ppc, local_buffer,   \* play thread; the chunk it is about to play
  mpc,                 \* main thread
  \* --- clients and their sockets ---
  backlog,             \* connections waiting to be accepted, oldest first
  conn,                \* state of each connection
  unsent,              \* chunks each client has yet to send
  avail,               \* chunks sent and not yet received, per connection
  \* --- history ---
  received,            \* number of chunks received
  played, lost         \* what became of them

serverVars == <<spc, srv_buf, active_client_sock>>
playVars   == <<ppc, local_buffer>>
bufferVars == <<audio_buffer_lock, audio_buffer, audio_buffer_size>>
clientVars == <<backlog, conn, unsent, avail>>
history    == <<received, played, lost>>
vars == <<g_stop_thread, serverVars, playVars, mpc, bufferVars, clientVars,
          history>>

ServerStates ==
  {"none", "setup", "top", "accept", "inner", "recv", "lock", "check",
   "presleep", "sleep", "wake", "go", "cleanup", "shut", "done"}
PlayStates ==
  {"none", "lock", "check", "presleep", "sleep", "wake", "go", "send", "done"}
MainStates ==
  {"bootServer", "bootPlay", "abort", "loop", "wake", "joinServer", "joinPlay",
   "cleanup", "done"}

TypeOK ==
  /\ g_stop_thread \in BOOLEAN
  /\ audio_buffer_lock \in {"none", "server", "play"}
  /\ audio_buffer \in Int
  /\ audio_buffer_size \in {0, 1}
  /\ active_client_sock \in Conns \cup {NoClient}
  /\ spc \in ServerStates /\ srv_buf \in Nat
  /\ ppc \in PlayStates /\ local_buffer \in Nat
  /\ mpc \in MainStates
  /\ backlog \in Seq(Conns)
  /\ conn \in [Conns -> {"new", "connected", "gone", "closed"}]
  /\ unsent \in [Conns -> Nat]
  /\ avail \in [Conns -> Nat]
  /\ received \in Nat
  /\ played \subseteq Nat /\ lost \subseteq Nat

\* Main is about to create the two threads; initialize_audio_output_device
\* has allocated the buffer.
Init ==
  /\ g_stop_thread = FALSE
  /\ audio_buffer_lock = "none" /\ audio_buffer = 0 /\ audio_buffer_size = 0
  /\ active_client_sock = NoClient
  /\ spc = "none" /\ srv_buf = 0
  /\ ppc = "none" /\ local_buffer = 0
  /\ mpc = "bootServer"
  /\ backlog = <<>>
  /\ conn = [c \in Conns |-> "new"]
  /\ unsent = [c \in Conns |-> StreamLen]
  /\ avail = [c \in Conns |-> 0]
  /\ received = 0 /\ played = {} /\ lost = {}

-----------------------------------------------------------------------------
(* Condition variables.  The server is the only thread that ever waits on  *)
(* audio_free_cond and the play thread the only one on audio_data_cond, so *)
(* a signal and a broadcast do the same: the waiter, if there is one, goes *)
(* on to take the lock again.                                              *)

Woken(pc) == IF pc = "sleep" THEN "wake" ELSE pc

LockIsFree  == audio_buffer_lock = "none"
Lock(t)     == LockIsFree /\ audio_buffer_lock' = t
Unlock      == audio_buffer_lock' = "none"

\* The chunk in the buffer, if there is one.
Buffered   == IF audio_buffer_size > 0 THEN {audio_buffer} ELSE {}
NonZero(S) == S \ {0}

-----------------------------------------------------------------------------
(* AO server thread: output_server.c.                                      *)

\* socket(), unlink(), bind(), listen()
ServerSetup ==
  /\ spc = "setup"
  /\ spc' = "top"
  /\ UNCHANGED <<g_stop_thread, srv_buf, active_client_sock, playVars, mpc,
                 bufferVars, clientVars, history>>

\* One of them fails: the thread returns, and the daemon goes on without it.
ServerSetupFails ==
  /\ spc = "setup"
  /\ spc' = "done"
  /\ UNCHANGED <<g_stop_thread, srv_buf, active_client_sock, playVars, mpc,
                 bufferVars, clientVars, history>>

\* recv() returns data.
Readable(c) == avail[c] > 0

\* recv() returns 0: the client has closed and everything it sent is read.
\* The bug: the 0 is not taken for the end of the session.
HangupIgnored(c) == FALSE
Hangup(c) == conn[c] = "gone" /\ avail[c] = 0

\* The backpressure wait's condition.  The bug: no backpressure.
NoBackpressure == FALSE
ServerMustWait == audio_buffer_size > 0 /\ ~g_stop_thread

\* memset and audio_buffer_size = 0.  The bug: the size survives.
ClearBytesOnly == audio_buffer' = 0 /\ UNCHANGED audio_buffer_size
ClearBuffer == audio_buffer' = 0 /\ audio_buffer_size' = 0

\* while (!g_stop_thread) around accept()
ServerTop ==
  /\ spc = "top"
  /\ spc' = IF g_stop_thread THEN "shut" ELSE "accept"
  /\ UNCHANGED <<g_stop_thread, srv_buf, active_client_sock, playVars, mpc,
                 bufferVars, clientVars, history>>

ServerAccept ==
  /\ spc = "accept" /\ backlog # <<>>
  /\ active_client_sock' = Head(backlog)
  /\ backlog' = Tail(backlog)
  /\ spc' = "inner"
  /\ UNCHANGED <<g_stop_thread, srv_buf, playVars, mpc, bufferVars, conn,
                 unsent, avail, history>>

\* accept() fails on a pending connection (out of descriptors, aborted).
ServerAcceptError ==
  /\ spc = "accept" /\ backlog # <<>>
  /\ spc' = IF g_stop_thread THEN "shut" ELSE "top"
  /\ UNCHANGED <<g_stop_thread, srv_buf, active_client_sock, playVars, mpc,
                 bufferVars, clientVars, history>>

\* while (!g_stop_thread) around recv()
ServerInner ==
  /\ spc = "inner"
  /\ spc' = IF g_stop_thread THEN "cleanup" ELSE "recv"
  /\ UNCHANGED <<g_stop_thread, srv_buf, active_client_sock, playVars, mpc,
                 bufferVars, clientVars, history>>

ServerRecv ==
  /\ spc = "recv" /\ Readable(active_client_sock)
  /\ avail' = [avail EXCEPT ![active_client_sock] = @ - 1]
  /\ received' = received + 1
  /\ srv_buf' = received + 1
  /\ spc' = "lock"
  /\ UNCHANGED <<g_stop_thread, active_client_sock, playVars, mpc, bufferVars,
                 backlog, conn, unsent, played, lost>>

ServerRecvEnd ==
  /\ spc = "recv" /\ Hangup(active_client_sock)
  /\ spc' = "cleanup"
  /\ UNCHANGED <<g_stop_thread, srv_buf, active_client_sock, playVars, mpc,
                 bufferVars, clientVars, history>>

\* pthread_mutex_lock, and the same when pthread_cond_wait takes it back
ServerLock ==
  /\ spc \in {"lock", "wake"}
  /\ Lock("server")
  /\ spc' = "check"
  /\ UNCHANGED <<g_stop_thread, srv_buf, active_client_sock, playVars, mpc,
                 audio_buffer, audio_buffer_size, clientVars, history>>

\* one evaluation of the while condition
ServerCheck ==
  /\ spc = "check"
  /\ spc' = IF ServerMustWait THEN "presleep" ELSE "go"
  /\ UNCHANGED <<g_stop_thread, srv_buf, active_client_sock, playVars, mpc,
                 bufferVars, clientVars, history>>

\* pthread_cond_wait(&audio_free_cond): release and sleep in one step
ServerSleep ==
  /\ spc = "presleep"
  /\ Unlock
  /\ spc' = "sleep"
  /\ UNCHANGED <<g_stop_thread, srv_buf, active_client_sock, playVars, mpc,
                 audio_buffer, audio_buffer_size, clientVars, history>>

\* POSIX lets pthread_cond_wait return without a signal.
ServerSpurious ==
  /\ spc = "sleep"
  /\ spc' = "wake"
  /\ UNCHANGED <<g_stop_thread, srv_buf, active_client_sock, playVars, mpc,
                 bufferVars, clientVars, history>>

\* if (g_stop_thread) { unlock; break; }   srv_buf is dropped in the cleanup
ServerStopped ==
  /\ spc = "go" /\ g_stop_thread
  /\ Unlock
  /\ spc' = "cleanup"
  /\ UNCHANGED <<g_stop_thread, srv_buf, active_client_sock, playVars, mpc,
                 audio_buffer, audio_buffer_size, clientVars, history>>

\* memcpy into audio_buffer, signal audio_data_cond, unlock
ServerDeposit ==
  /\ spc = "go" /\ ~g_stop_thread
  /\ audio_buffer' = srv_buf /\ audio_buffer_size' = 1
  /\ srv_buf' = 0
  /\ ppc' = Woken(ppc)
  /\ Unlock
  /\ spc' = "inner"
  /\ UNCHANGED <<g_stop_thread, active_client_sock, local_buffer, mpc,
                 clientVars, history>>

\* Disconnect cleanup: under the lock, zero the buffer whatever it holds,
\* forget the client, wake everyone.
ServerCleanup ==
  /\ spc = "cleanup"
  /\ LockIsFree
  /\ lost' = lost \cup NonZero({srv_buf}) \cup Buffered
  /\ ClearBuffer
  /\ srv_buf' = 0
  /\ ppc' = Woken(ppc)
  /\ conn' = [conn EXCEPT ![active_client_sock] = "closed"]
  /\ active_client_sock' = NoClient
  /\ spc' = "top"
  /\ UNCHANGED <<g_stop_thread, local_buffer, mpc, audio_buffer_lock, backlog,
                 unsent, avail, received, played>>

\* close(server_sock), unlink: connections still in the backlog are dropped
ServerShut ==
  /\ spc = "shut"
  /\ spc' = "done"
  /\ backlog' = <<>>
  /\ conn' = [c \in Conns |->
                IF \E i \in DOMAIN backlog : backlog[i] = c
                THEN "closed" ELSE conn[c]]
  /\ UNCHANGED <<g_stop_thread, srv_buf, active_client_sock, playVars, mpc,
                 bufferVars, unsent, avail, history>>

ServerAdvance ==
  \/ ServerSetup \/ ServerSetupFails \/ ServerTop \/ ServerAccept
  \/ ServerInner \/ ServerRecv \/ ServerRecvEnd
  \/ ServerLock \/ ServerCheck \/ ServerSleep \/ ServerStopped \/ ServerDeposit
  \/ ServerCleanup \/ ServerShut

-----------------------------------------------------------------------------
(* Play thread: ao_play_thread in output.c.                                *)

\* The wait's condition.  The bug: an "if" for the "while".
PlaysSilence == FALSE
PlayMustWait == audio_buffer_size = 0 /\ ~g_stop_thread

\* audio_buffer_size = 0 after the copy
FreeBuffer == audio_buffer_size' = 0

\* pthread_cond_signal(&audio_free_cond).  The bug: it is missing.
NoSignal == UNCHANGED spc
SignalFree == spc' = Woken(spc)

PlayLock ==
  /\ ppc \in {"lock", "wake"}
  /\ Lock("play")
  /\ ppc' = "check"
  /\ UNCHANGED <<g_stop_thread, serverVars, local_buffer, mpc, audio_buffer,
                 audio_buffer_size, clientVars, history>>

PlayCheck ==
  /\ ppc = "check"
  /\ ppc' = IF PlayMustWait THEN "presleep" ELSE "go"
  /\ UNCHANGED <<g_stop_thread, serverVars, local_buffer, mpc, bufferVars,
                 clientVars, history>>

\* pthread_cond_wait(&audio_data_cond)
PlaySleep ==
  /\ ppc = "presleep"
  /\ Unlock
  /\ ppc' = "sleep"
  /\ UNCHANGED <<g_stop_thread, serverVars, local_buffer, mpc, audio_buffer,
                 audio_buffer_size, clientVars, history>>

PlaySpurious ==
  /\ ppc = "sleep"
  /\ ppc' = "wake"
  /\ UNCHANGED <<g_stop_thread, serverVars, local_buffer, mpc, bufferVars,
                 clientVars, history>>

\* if (g_stop_thread) { unlock; break; }
PlayStopped ==
  /\ ppc = "go" /\ g_stop_thread
  /\ Unlock
  /\ ppc' = "done"
  /\ UNCHANGED <<g_stop_thread, serverVars, local_buffer, mpc, audio_buffer,
                 audio_buffer_size, clientVars, history>>

\* Fast copy, audio_buffer_size = 0, signal audio_free_cond, unlock.  The
\* bytes stay in audio_buffer.
PlayTake ==
  /\ ppc = "go" /\ ~g_stop_thread
  /\ local_buffer' = audio_buffer
  /\ FreeBuffer
  /\ SignalFree
  /\ Unlock
  /\ ppc' = "send"
  /\ UNCHANGED <<g_stop_thread, srv_buf, active_client_sock, mpc, audio_buffer,
                 clientVars, history>>

\* MI_AO_SendFrame takes the chunk
PlaySend ==
  /\ ppc = "send"
  /\ played' = played \cup {local_buffer}
  /\ local_buffer' = 0
  /\ ppc' = "lock"
  /\ UNCHANGED <<g_stop_thread, serverVars, mpc, bufferVars, clientVars,
                 received, lost>>

\* MI_AO_SendFrame refuses it (200 ms passed, or a device error): no retry
PlaySendFails ==
  /\ ppc = "send"
  /\ lost' = lost \cup {local_buffer}
  /\ local_buffer' = 0
  /\ ppc' = IF g_stop_thread THEN "done" ELSE "lock"
  /\ UNCHANGED <<g_stop_thread, serverVars, mpc, bufferVars, clientVars,
                 received, played>>

PlayAdvance == \/ PlayLock \/ PlayCheck \/ PlaySleep \/ PlayStopped \/ PlayTake
               \/ PlaySend \/ PlaySendFails

-----------------------------------------------------------------------------
(* Main thread: iad.c, the end of the boot and the shutdown.               *)

MainUnchanged == UNCHANGED <<serverVars, local_buffer, clientVars, history>>

MainCreateServer ==
  /\ mpc = "bootServer"
  /\ spc' = "setup"
  /\ mpc' = "bootPlay"
  /\ UNCHANGED <<g_stop_thread, srv_buf, active_client_sock, playVars,
                 bufferVars, clientVars, history>>

MainCreatePlay ==
  /\ mpc = "bootPlay"
  /\ ppc' = "lock"
  /\ mpc' = "loop"
  /\ MainUnchanged /\ UNCHANGED <<g_stop_thread, bufferVars>>

\* create_thread fails, ABORT_STARTUP, first half: the flag (under
\* g_stop_thread_mutex, which no thread here reads it under)
MainCreateFails ==
  /\ mpc \in {"bootServer", "bootPlay"}
  /\ g_stop_thread' = TRUE
  /\ mpc' = "abort"
  /\ MainUnchanged /\ UNCHANGED <<ppc, bufferVars>>

\* lock; broadcast both conditions; unlock.  The bugs: the broadcast is sent
\* without the lock, or to the play thread only (the deadlock that iad.c's
\* "extern audio_free_cond" repaired).
BroadcastUnlocked == spc' = Woken(spc) /\ ppc' = Woken(ppc)
BroadcastDataOnly == LockIsFree /\ UNCHANGED spc /\ ppc' = Woken(ppc)
Broadcast == /\ LockIsFree
             /\ spc' = Woken(spc)
             /\ ppc' = Woken(ppc)

\* ABORT_STARTUP, second half
MainAbort ==
  /\ mpc = "abort"
  /\ Broadcast
  /\ mpc' = "loop"
  /\ UNCHANGED <<g_stop_thread, srv_buf, active_client_sock, local_buffer,
                 bufferVars, clientVars, history>>

\* while (!g_stop_thread) usleep(100000)
MainLoop ==
  /\ mpc = "loop" /\ g_stop_thread
  /\ mpc' = "wake"
  /\ MainUnchanged /\ UNCHANGED <<g_stop_thread, ppc, bufferVars>>

MainWake ==
  /\ mpc = "wake"
  /\ Broadcast
  /\ mpc' = "joinServer"
  /\ UNCHANGED <<g_stop_thread, srv_buf, active_client_sock, local_buffer,
                 bufferVars, clientVars, history>>

\* if (up) pthread_join(thread)
Joined(pc) == pc \in {"none", "done"}

MainJoinServer ==
  /\ mpc = "joinServer" /\ Joined(spc)
  /\ mpc' = "joinPlay"
  /\ MainUnchanged /\ UNCHANGED <<g_stop_thread, ppc, bufferVars>>

MainJoinPlay ==
  /\ mpc = "joinPlay" /\ Joined(ppc)
  /\ mpc' = "cleanup"
  /\ MainUnchanged /\ UNCHANGED <<g_stop_thread, ppc, bufferVars>>

\* perform_cleanup -> disable_audio_output -> cleanup_audio_output: free
MainCleanup ==
  /\ mpc = "cleanup"
  /\ audio_buffer' = -1
  /\ mpc' = "done"
  /\ MainUnchanged
  /\ UNCHANGED <<g_stop_thread, ppc, audio_buffer_lock, audio_buffer_size>>

MainAdvance == \/ MainCreateServer \/ MainCreatePlay \/ MainCreateFails
               \/ MainAbort \/ MainLoop \/ MainWake
               \/ MainJoinServer \/ MainJoinPlay \/ MainCleanup

-----------------------------------------------------------------------------
(* Environment.                                                            *)

\* SIGINT or SIGTERM, delivered to a thread that does not block in a call
HandleSigint ==
  /\ mpc # "done"
  /\ g_stop_thread' = TRUE
  /\ UNCHANGED <<serverVars, playVars, mpc, bufferVars, clientVars, history>>

\* The same, delivered to the server inside accept() or recv(): the handler
\* is installed without SA_RESTART, so the call returns -1.
HandleSigintInServer ==
  /\ spc \in {"accept", "recv"}
  /\ g_stop_thread' = TRUE
  /\ spc' = IF spc = "accept" THEN "shut" ELSE "cleanup"
  /\ UNCHANGED <<srv_buf, active_client_sock, playVars, mpc, bufferVars,
                 clientVars, history>>

ClientConnect(c) ==
  /\ conn[c] = "new" /\ spc \notin {"none", "setup", "done"}
  /\ Len(backlog) <= Backlog
  /\ conn' = [conn EXCEPT ![c] = "connected"]
  /\ backlog' = Append(backlog, c)
  /\ UNCHANGED <<g_stop_thread, serverVars, playVars, mpc, bufferVars, unsent,
                 avail, history>>

\* write() on the socket; the client may still be waiting in the backlog
ClientSend(c) ==
  /\ conn[c] = "connected" /\ unsent[c] > 0
  /\ unsent' = [unsent EXCEPT ![c] = @ - 1]
  /\ avail' = [avail EXCEPT ![c] = @ + 1]
  /\ UNCHANGED <<g_stop_thread, serverVars, playVars, mpc, bufferVars, backlog,
                 conn, history>>

\* close(), or the client dies; what it has sent stays readable
ClientClose(c) ==
  /\ conn[c] = "connected"
  /\ conn' = [conn EXCEPT ![c] = "gone"]
  /\ UNCHANGED <<g_stop_thread, serverVars, playVars, mpc, bufferVars, backlog,
                 unsent, avail, history>>

ClientStep == \E c \in Conns : ClientConnect(c) \/ ClientSend(c) \/ ClientClose(c)

Next == \/ ServerAdvance \/ ServerAcceptError \/ ServerSpurious
        \/ PlayAdvance \/ PlaySpurious
        \/ MainAdvance
        \/ HandleSigint \/ HandleSigintInServer
        \/ ClientStep

\* Threads that can run do run.  A mutex that is free again and again is
\* obtained, and accept() does not fail for ever (strong fairness); nothing
\* is assumed of clients, of signals or of spurious wakeups.
Fairness == /\ WF_vars(ServerAdvance) /\ SF_vars(ServerAccept)
            /\ SF_vars(ServerLock \/ ServerCleanup)
            /\ WF_vars(PlayAdvance) /\ SF_vars(PlayLock)
            /\ WF_vars(MainAdvance) /\ SF_vars(MainAbort \/ MainWake)

Spec == Init /\ [][Next]_vars
FairSpec == Spec /\ Fairness

-----------------------------------------------------------------------------
(* Properties.                                                             *)

\* The chunks received that are neither played nor lost.
InFlight == NonZero({srv_buf, local_buffer}) \cup Buffered

\* Every chunk recv() has returned is in exactly one place: played, lost, in
\* the server's buf, in audio_buffer or in the play thread's local_buffer.
\* The backpressure wait is what keeps the server from overwriting a chunk.
ChunksConserved ==
  /\ 1..received = played \cup lost \cup InFlight
  /\ played \cap lost = {}
  /\ InFlight \cap (played \cup lost) = {}

\* The device gets the chunks in the order they were received, none twice,
\* across sessions as well as within one.
InOrderPlayback ==
  [][PlaySend => \A m \in played : m < local_buffer]_vars

\* The path implements the abstract channel of FrameChannel, of depth three:
\* one chunk in each of the server's buf, audio_buffer and local_buffer.
Channel == INSTANCE FrameChannel
             WITH Clients <- Conns, Depth <- 3,
                  session <- active_client_sock, pipe <- InFlight
ImplementsChannel == Channel!Spec

\* A session starts on an empty buffer: nothing a client left behind is
\* played to, or makes wait, the one served after it.
SessionStartsEmpty ==
  spc \in {"top", "accept", "shut", "done"} =>
    audio_buffer_size = 0 /\ srv_buf = 0

\* Neither wait loses its wakeup.  A thread sleeps only while what it waits
\* for has not happened, and once main has broadcast on its way to joining
\* them no thread sleeps or is about to: the flag is set without the lock,
\* so a thread that read it just before must be found asleep by a broadcast
\* that takes the lock.
NoLostWakeup ==
  /\ spc = "sleep" => audio_buffer_size > 0
  /\ ppc = "sleep" => audio_buffer_size = 0
  /\ mpc \in {"joinServer", "joinPlay", "cleanup", "done"} =>
       {spc, ppc} \cap {"presleep", "sleep"} = {}

\* A thread that cannot go on by itself: it waits for a condition, for a
\* client, or for the lock of another.
ServerWaits == \/ spc \in {"none", "accept", "recv", "sleep", "done"}
               \/ spc \in {"lock", "wake", "cleanup"} /\ ~LockIsFree
PlayWaits   == \/ ppc = "sleep"
               \/ ppc \in {"lock", "wake"} /\ ~LockIsFree

\* The two threads never wait for each other: while a chunk is in the daemon
\* and the play thread is there, one of them can go on without a client, a
\* spurious wakeup or main.
NoStandstill ==
  InFlight # {} /\ ppc \notin {"none", "done"} => ~(ServerWaits /\ PlayWaits)

\* audio_buffer is freed only when no thread is left that could touch it.
NoUseAfterFree ==
  audio_buffer = -1 => spc \in {"none", "done"} /\ ppc \in {"none", "done"}

\* Every chunk received leaves the daemon, until it is told to stop: the
\* server and the play thread never wait for each other.
ChunksDrain ==
  \A n \in 1..(StreamLen * Cardinality(Conns)) :
    n \in InFlight ~> n \notin InFlight \/ g_stop_thread

InBacklog(c) == \E i \in DOMAIN backlog : backlog[i] = c

\* "Set the flag and let the threads gracefully exit" (utils.c:95), as far as
\* it is true of these two threads: once told to stop, main has joined both and
\* cleaned up, or the play thread ends and the server stays for ever in accept()
\* or recv().  No wait on a condition, no mutex and no client that is merely slow
\* holds them up.  What else main joins is in Daemon (StopEnds).
OnlySocketCallsDelayExit ==
  g_stop_thread ~>
    \/ mpc = "done"
    \/ [](spc \in {"accept", "recv"} /\ ppc \in {"none", "done"})

\* Clients queue for the one session.  If every client leaves in the end, as
\* iac does at the end of its input, every queued client is accepted, or the
\* daemon stops.
ClientsLeave == \A c \in Conns : []<>(conn[c] # "connected")

QueuedClientsServed ==
  ClientsLeave => \A c \in Conns : InBacklog(c) ~> ~InBacklog(c) \/ g_stop_thread
=============================================================================
