-------------------------- MODULE StandaloneDaemon --------------------------
(***************************************************************************)
(* The older, single-file audio_daemon of src/standalone, and audio_client *)
(* as its environment.  A server thread takes one client at a time and     *)
(* puts what it reads into audio_buffer, over what is there; a play thread *)
(* hands the buffer itself, not a copy, to the device, and holds           *)
(* audio_buffer_lock until the device has taken it.  There is no shutdown: *)
(* the process ends if main cannot create a thread, or by a signal.        *)
(*                                                                         *)
(* Granularity.  Here every read of shared state is under the lock, so a   *)
(* critical section is one step, but for the one that blocks in            *)
(* IMP_AO_SendFrame.                                                       *)
(*                                                                         *)
(* Data.  A frame is what one read() returns; frames are numbered as they  *)
(* are read.  audio_buffer_size counts frames: the code compares it with 0 *)
(* and hands it on with the bytes it counts.                               *)
(***************************************************************************)
EXTENDS Naturals, Sequences, FiniteSets

CONSTANTS Conns,      \* the connections clients ever make
          NoClient,   \* the -1 of active_client_sock and client_sock
          StreamLen   \* BOUND: frames a client has to send

ASSUME StandaloneAssumption ==
  IsFiniteSet(Conns) /\ NoClient \notin Conns /\ StreamLen \in Nat

\* The backlog of listen(sockfd, 5).
Backlog == 5

VARIABLES
  \* --- globals ---
  audio_buffer_lock,   \* "play" while the play thread blocks with it
  audio_buffer,        \* the frame in the buffer, 0 at first
  audio_buffer_size,   \* 0 when there is nothing to play
  active_client_sock,
  \* --- main and the threads, with their locals ---
  mpc,
  spc, client_sock, buf,
  ppc, frm,            \* frm: the frame the device has been handed
  \* --- clients and their sockets ---
  conn,                \* state of each connection
  backlog,             \* connections not yet accepted, oldest first
  unsent, avail,       \* frames to be sent, and sent but not yet read
  \* --- history ---
  played, taken        \* the last frame the device took, and how many it took

bufferVars == <<audio_buffer_lock, audio_buffer, audio_buffer_size>>
serverVars == <<spc, client_sock, buf, active_client_sock>>
playVars   == <<ppc, frm, played, taken>>
clientVars == <<conn, backlog, unsent, avail>>
vars == <<mpc, bufferVars, serverVars, playVars, clientVars>>

ServerStates == {"none", "setup", "accept", "activate", "read", "deposit",
                 "release", "close", "ended"}
PlayStates == {"none", "reinit", "lock", "sleep", "send"}

TypeOK ==
  /\ mpc \in {"play", "server", "join", "failed"}
  /\ audio_buffer_lock \in {"none", "play"}
  /\ audio_buffer \in Nat /\ audio_buffer_size \in {0, 1}
  /\ active_client_sock \in Conns \cup {NoClient}
  /\ spc \in ServerStates
  /\ client_sock \in Conns \cup {NoClient} /\ buf \in Nat
  /\ ppc \in PlayStates /\ frm \in Nat
  /\ played \in Nat /\ taken \in Nat
  /\ conn \in [Conns -> {"new", "connected", "gone", "closed"}]
  /\ backlog \in Seq(Conns)
  /\ unsent \in [Conns -> Nat] /\ avail \in [Conns -> Nat]

Init ==
  /\ mpc = "play"
  /\ audio_buffer_lock = "none" /\ audio_buffer = 0 /\ audio_buffer_size = 0
  /\ active_client_sock = NoClient
  /\ spc = "none" /\ client_sock = NoClient /\ buf = 0
  /\ ppc = "none" /\ frm = 0 /\ played = 0 /\ taken = 0
  /\ conn = [c \in Conns |-> "new"] /\ backlog = <<>>
  /\ unsent = [c \in Conns |-> StreamLen] /\ avail = [c \in Conns |-> 0]

Alive == mpc # "failed"
LockIsFree == audio_buffer_lock = "none"

\* pthread_cond_signal(&audio_data_cond).  Only the play thread ever waits on
\* it.  The bug: there is no signal.
NoSignal == UNCHANGED ppc
SignalData == ppc' = IF ppc = "sleep" THEN "lock" ELSE ppc

-----------------------------------------------------------------------------
(* audio_server_thread.                                                    *)

\* socket(), bind(), listen()
ServerSetup ==
  /\ spc = "setup"
  /\ spc' = "accept"
  /\ UNCHANGED <<mpc, bufferVars, client_sock, buf, active_client_sock,
                 playVars, clientVars>>

\* One of them fails: the daemon goes on without a server.
ServerSetupFails ==
  /\ spc = "setup"
  /\ spc' = "ended"
  /\ UNCHANGED <<mpc, bufferVars, client_sock, buf, active_client_sock,
                 playVars, clientVars>>

ServerAccept ==
  /\ spc = "accept" /\ backlog # <<>>
  /\ spc' = "activate"
  /\ client_sock' = Head(backlog) /\ backlog' = Tail(backlog)
  /\ UNCHANGED <<mpc, bufferVars, buf, active_client_sock, playVars, conn,
                 unsent, avail>>

ServerAcceptError == spc = "accept" /\ UNCHANGED vars

\* The loop that waits until no client is active
ServerActivate ==
  /\ spc = "activate" /\ LockIsFree /\ active_client_sock = NoClient
  /\ spc' = "read"
  /\ active_client_sock' = client_sock
  /\ UNCHANGED <<mpc, bufferVars, client_sock, buf, playVars, clientVars>>

ServerRead ==
  /\ spc = "read" /\ avail[client_sock] > 0
  /\ spc' = "deposit"
  /\ buf' = buf + 1
  /\ avail' = [avail EXCEPT ![client_sock] = @ - 1]
  /\ UNCHANGED <<mpc, bufferVars, client_sock, active_client_sock, playVars,
                 conn, backlog, unsent>>

\* read() returns 0: the client has closed, and all it sent is read
ServerReadEnd ==
  /\ spc = "read" /\ avail[client_sock] = 0 /\ conn[client_sock] = "gone"
  /\ spc' = "release"
  /\ UNCHANGED <<mpc, bufferVars, client_sock, buf, active_client_sock,
                 playVars, clientVars>>

\* memcpy(), without regard to what is still to be played
ServerDeposit ==
  /\ spc = "deposit" /\ LockIsFree
  /\ spc' = "read"
  /\ audio_buffer' = buf /\ audio_buffer_size' = 1
  /\ SignalData
  /\ UNCHANGED <<mpc, audio_buffer_lock, client_sock, buf, active_client_sock,
                 frm, played, taken, clientVars>>

\* active_client_sock = -1.  The bug: it is not reset.
StaysActive == UNCHANGED active_client_sock
ResetActive == active_client_sock' = NoClient

\* The broadcast wakes the play thread for nothing.
ServerRelease ==
  /\ spc = "release" /\ LockIsFree
  /\ spc' = "close"
  /\ ResetActive
  /\ ppc' = IF ppc = "sleep" THEN "lock" ELSE ppc
  /\ UNCHANGED <<mpc, bufferVars, client_sock, buf, frm, played, taken,
                 clientVars>>

ServerClose ==
  /\ spc = "close"
  /\ spc' = "accept"
  /\ conn' = [conn EXCEPT ![client_sock] = "closed"]
  /\ client_sock' = NoClient
  /\ UNCHANGED <<mpc, bufferVars, buf, active_client_sock, playVars, backlog,
                 unsent, avail>>

ServerAdvance ==
  Alive /\ \/ ServerSetup \/ ServerSetupFails
           \/ ServerAccept \/ ServerActivate \/ ServerRead \/ ServerReadEnd
           \/ ServerDeposit \/ ServerRelease \/ ServerClose

-----------------------------------------------------------------------------
(* ao_test_play_thread.                                                    *)

\* reinitialize_audio_device(); an error is reported, and not heeded
PlayReinit ==
  /\ ppc = "reinit"
  /\ ppc' = "lock"
  /\ UNCHANGED <<mpc, bufferVars, serverVars, frm, played, taken, clientVars>>

PlayWait ==
  /\ ppc = "lock" /\ LockIsFree /\ audio_buffer_size = 0
  /\ ppc' = "sleep"
  /\ UNCHANGED <<mpc, bufferVars, serverVars, frm, played, taken, clientVars>>

PlaySpurious ==
  /\ Alive /\ ppc = "sleep"
  /\ ppc' = "lock"
  /\ UNCHANGED <<mpc, bufferVars, serverVars, frm, played, taken, clientVars>>

\* The lock is kept while the device reads audio_buffer.  The bug: it is
\* released before the call.
UnlocksFirst == UNCHANGED audio_buffer_lock
KeepsLock == audio_buffer_lock' = "play"

\* IMP_AO_SendFrame(..., BLOCK) is called
PlaySend ==
  /\ ppc = "lock" /\ LockIsFree /\ audio_buffer_size > 0
  /\ ppc' = "send"
  /\ KeepsLock
  /\ frm' = audio_buffer
  /\ UNCHANGED <<mpc, audio_buffer, audio_buffer_size, serverVars, played,
                 taken, clientVars>>

\* audio_buffer_size = 0.  The bug: the frame is not taken out.
LeavesFrame == UNCHANGED audio_buffer_size
EmptyBuffer == audio_buffer_size' = 0

PlaySent ==
  /\ ppc = "send"
  /\ ppc' = "lock"
  /\ EmptyBuffer
  /\ audio_buffer_lock' = "none"
  /\ played' = frm /\ taken' = taken + 1
  /\ UNCHANGED <<mpc, audio_buffer, serverVars, frm, clientVars>>

\* The device is set up again, and gets what is in the buffer by then.
PlaySendFails ==
  /\ ppc = "send"
  /\ ppc' = "reinit"
  /\ audio_buffer_lock' = "none"
  /\ UNCHANGED <<mpc, audio_buffer, audio_buffer_size, serverVars, frm, played,
                 taken, clientVars>>

PlayAdvance ==
  Alive /\ (PlayReinit \/ PlayWait \/ PlaySend \/ PlaySent \/ PlaySendFails)

-----------------------------------------------------------------------------
(* main, and the clients.                                                  *)

MainCreatePlay ==
  /\ mpc = "play"
  /\ mpc' = "server" /\ ppc' = "reinit"
  /\ UNCHANGED <<bufferVars, serverVars, frm, played, taken, clientVars>>

MainCreateServer ==
  /\ mpc = "server"
  /\ mpc' = "join" /\ spc' = "setup"
  /\ UNCHANGED <<bufferVars, client_sock, buf, active_client_sock, playVars,
                 clientVars>>

\* return 1 ends the process, and a thread that may be there already
MainCreateFails ==
  /\ mpc \in {"play", "server"}
  /\ mpc' = "failed"
  /\ UNCHANGED <<bufferVars, serverVars, playVars, clientVars>>

MainAdvance == MainCreatePlay \/ MainCreateServer \/ MainCreateFails

Listening == spc \notin {"none", "setup", "ended"}

ClientConnect(c) ==
  /\ conn[c] = "new" /\ Listening /\ Len(backlog) <= Backlog
  /\ conn' = [conn EXCEPT ![c] = "connected"]
  /\ backlog' = Append(backlog, c)
  /\ UNCHANGED <<mpc, bufferVars, serverVars, playVars, unsent, avail>>

ClientSend(c) ==
  /\ conn[c] = "connected" /\ unsent[c] > 0
  /\ unsent' = [unsent EXCEPT ![c] = @ - 1]
  /\ avail' = [avail EXCEPT ![c] = @ + 1]
  /\ UNCHANGED <<mpc, bufferVars, serverVars, playVars, conn, backlog>>

\* at the end of the file, or when the client dies
ClientClose(c) ==
  /\ conn[c] = "connected"
  /\ conn' = [conn EXCEPT ![c] = "gone"]
  /\ UNCHANGED <<mpc, bufferVars, serverVars, playVars, backlog, unsent, avail>>

Next == \/ ServerAdvance \/ ServerAcceptError
        \/ PlayAdvance \/ PlaySpurious
        \/ MainAdvance
        \/ \E c \in Conns : ClientConnect(c) \/ ClientSend(c) \/ ClientClose(c)

Spec == Init /\ [][Next]_vars

\* Threads that can run do run; each obtains a lock that is free again and
\* again, and accept() and the device do not fail for ever.  Nothing is
\* assumed of clients.
FairSpec ==
  /\ Spec
  /\ WF_vars(ServerAdvance)
  /\ SF_vars(Alive /\ (ServerActivate \/ ServerDeposit \/ ServerRelease))
  /\ WF_vars(PlayAdvance)
  /\ SF_vars(Alive /\ PlaySend) /\ SF_vars(Alive /\ PlaySent)

-----------------------------------------------------------------------------
(* Properties.                                                             *)

\* Buffer, server and play thread together implement LatestFrame: whatever is
\* overwritten, retried or left by a client that has gone, the device takes
\* the newest frame whole, and none twice or after a newer one.
Latest == INSTANCE LatestFrame WITH offered <- audio_buffer
ImplementsLatest == Latest!Spec

\* The device reads audio_buffer itself while it blocks (audio_daemon.c:68):
\* the frame it has been handed stays there, and stays to be played.
FrameHeldStill ==
  ppc = "send" => audio_buffer = frm /\ audio_buffer_size > 0

\* Neither wait is for what only the waiting thread could bring about: the play
\* thread sleeps only while there is no frame, and the server, alone to assign
\* active_client_sock, never comes to its loop (audio_daemon.c:123) with a
\* client still active.
NoVainWait ==
  /\ ppc = "sleep" => audio_buffer_size = 0
  /\ spc = "activate" => active_client_sock = NoClient

\* A frame in the buffer is played or replaced, even if its client has gone
\* or the device has failed: neither thread waits for the other for ever.
FramesLeave ==
  \A n \in 1..(StreamLen * Cardinality(Conns)) :
    audio_buffer = n ~> played = n \/ audio_buffer > n

InBacklog(c) == \E i \in DOMAIN backlog : backlog[i] = c
ClientsLeave == \A c \in Conns : []<>(conn[c] # "connected")

\* Clients queue for the one session, and each gets it if those before it
\* leave, however often the device keeps the lock.
ClientsServed ==
  ClientsLeave => \A c \in Conns : InBacklog(c) ~> active_client_sock = c
=============================================================================
