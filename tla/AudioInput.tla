----------------------------- MODULE AudioInput -----------------------------
(***************************************************************************)
(* The audio-input path of iad: the AI server thread, which accepts        *)
(* clients and puts them at the head of a linked list, and the record      *)
(* thread, which sends every captured frame to every client of that list   *)
(* without ever blocking on one.  Main creates the server thread, the      *)
(* server thread creates and joins the record thread.                      *)
(*                                                                         *)
(* Granularity.  The list is only touched under client_list_lock, but the  *)
(* descriptor table is not: close() in the record thread gives a number    *)
(* back that accept() in the server thread, which holds no lock, may hand  *)
(* out at once.  So closing a client and unlinking its node are two steps. *)
(*                                                                         *)
(* Data.  Frames are numbered as they are captured.  A node is the number  *)
(* of its descriptor, the list the sequence of its nodes.  Of a socket's   *)
(* buffer only the number of frames in it is kept.                         *)
(***************************************************************************)
EXTENDS Integers, Sequences, FiniteSets, SequencesExt

CONSTANTS Conns,      \* the client connections ever made to the AI socket
          NoConn,     \* a descriptor that is not open
          MaxFds,     \* BOUND: descriptors left for clients (RLIMIT_NOFILE)
          SockCap,    \* BOUND: frames the buffer of a socket holds
          MaxFrames   \* BOUND: frames captured

ASSUME InputAssumption == /\ NoConn \notin Conns
                          /\ MaxFds \in Nat /\ SockCap \in Nat /\ MaxFrames \in Nat

Fds == 1..MaxFds

\* The backlog of listen(sockfd, 5).
Backlog == 5

VARIABLES
  g_stop_thread,      \* the shutdown flag
  \* --- input_server.c: the list, its lock and the server's locals ---
  client_list_lock,   \* "none", "server" or "record"
  client_list_head,   \* the nodes, head first
  spc, client_sock,   \* AI server thread; what accept() gave it, 0 if nothing
  \* --- input.c: the record thread ---
  rpc, current,       \* current: position in the list of the node it is at
  frame, held,        \* last frame captured; is it still the device's to get back?
  \* --- iad.c and the device ---
  mpc, ai_enabled,
  \* --- the kernel and the clients ---
  fdtab,              \* the connection each descriptor stands for
  backlog,            \* connections waiting to be accepted, oldest first
  conn,               \* "new", "open" or "gone": the client's end
  queued,             \* frames in the socket's buffer, not yet read
  \* --- history ---
  rx, tried, torn     \* last frame sent whole and last frame tried, per client;
                      \* has the client been sent a part of a frame?

serverVars == <<spc, client_sock>>
recordVars == <<rpc, current, frame, held>>
listVars   == <<client_list_lock, client_list_head>>
mainVars   == <<mpc, ai_enabled>>
socketVars == <<fdtab, backlog, conn, queued>>
history    == <<rx, tried, torn>>
vars == <<g_stop_thread, serverVars, recordVars, listVars, mainVars, socketVars,
          history>>

TypeOK ==
  /\ g_stop_thread \in BOOLEAN
  /\ client_list_lock \in {"none", "server", "record"}
  /\ client_list_head \in Seq(Fds)
  /\ spc \in {"none", "setup", "top", "select", "accept", "add", "join",
              "closing", "shut", "done"}
  /\ client_sock \in Fds \cup {0}
  /\ rpc \in {"none", "top", "get", "lock", "walk", "unlink", "release", "done"}
  /\ current \in Nat /\ frame \in Nat /\ held \in BOOLEAN
  /\ mpc \in {"boot", "loop", "join", "disable", "done"}
  /\ ai_enabled \in BOOLEAN
  /\ fdtab \in [Fds -> Conns \cup {NoConn}]
  /\ backlog \in Seq(Conns)
  /\ conn \in [Conns -> {"new", "open", "gone"}]
  /\ queued \in [Conns -> 0..SockCap]
  /\ rx \in [Conns -> Nat] /\ tried \in [Conns -> Nat]
  /\ torn \in [Conns -> BOOLEAN]

\* initialize_audio_input_device has run; main is about to create the thread.
Init ==
  /\ g_stop_thread = FALSE
  /\ client_list_lock = "none" /\ client_list_head = <<>>
  /\ spc = "none" /\ client_sock = 0
  /\ rpc = "none" /\ current = 0 /\ frame = 0 /\ held = FALSE
  /\ mpc = "boot" /\ ai_enabled = TRUE
  /\ fdtab = [fd \in Fds |-> NoConn]
  /\ backlog = <<>>
  /\ conn = [c \in Conns |-> "new"]
  /\ queued = [c \in Conns |-> 0]
  /\ rx = [c \in Conns |-> 0] /\ tried = [c \in Conns |-> 0]
  /\ torn = [c \in Conns |-> FALSE]

-----------------------------------------------------------------------------
(* AI server thread: audio_input_server_thread and                         *)
(* handle_audio_input_client in input_server.c.                            *)

ServerGoes(from, to) == spc = from /\ spc' = to

\* socket(), bind() or listen() fails: the thread returns, the daemon goes on.
ServerSetupFails ==
  /\ ServerGoes("setup", "done")
  /\ UNCHANGED <<g_stop_thread, client_sock, recordVars, listVars, mainVars,
                 socketVars, history>>

\* The socket is ready and pthread_create of the record thread succeeds
ServerSpawn ==
  /\ ServerGoes("setup", "top")
  /\ rpc' = "top"
  /\ UNCHANGED <<g_stop_thread, client_sock, current, frame, held, listVars,
                 mainVars, socketVars, history>>

\* or fails, which stops the whole daemon.
ServerSpawnFails ==
  /\ ServerGoes("setup", "done")
  /\ g_stop_thread' = TRUE
  /\ UNCHANGED <<client_sock, recordVars, listVars, mainVars, socketVars, history>>

\* The flag is read before each select().  The bug: it is not.
StopNotSeen == FALSE
StopSeen == g_stop_thread

ServerTop ==
  /\ ServerGoes("top", IF StopSeen THEN "join" ELSE "select")
  /\ UNCHANGED <<g_stop_thread, client_sock, recordVars, listVars, mainVars,
                 socketVars, history>>

\* select() finds a connection to accept.
SelectReady ==
  /\ backlog # <<>>
  /\ ServerGoes("select", "accept")
  /\ UNCHANGED <<g_stop_thread, client_sock, recordVars, listVars, mainVars,
                 socketVars, history>>

\* One second passes without any.
SelectTimeout ==
  /\ backlog = <<>>
  /\ ServerGoes("select", "top")
  /\ UNCHANGED <<g_stop_thread, client_sock, recordVars, listVars, mainVars,
                 socketVars, history>>

\* EINTR, or another error: that one leaves the loop
SelectError ==
  /\ \/ ServerGoes("select", "top") \/ ServerGoes("select", "join")
  /\ UNCHANGED <<g_stop_thread, client_sock, recordVars, listVars, mainVars,
                 socketVars, history>>

\* accept() hands out the lowest number that is free.
LowestFree(fd) == /\ fdtab[fd] = NoConn
                  /\ \A lower \in 1..(fd - 1) : fdtab[lower] # NoConn

ServerAccept ==
  \E fd \in Fds :
    /\ LowestFree(fd)
    /\ ServerGoes("accept", "add")
    /\ fdtab' = [fdtab EXCEPT ![fd] = Head(backlog)]
    /\ backlog' = Tail(backlog)
    /\ client_sock' = fd
    /\ UNCHANGED <<g_stop_thread, recordVars, listVars, mainVars, conn, queued,
                   history>>

\* accept() fails: back to the top after 10 ms.  The bug: its result is used.
UsesBadSocket == ServerGoes("accept", "add")
BacksOff == ServerGoes("accept", "top")

ServerAcceptError ==
  /\ BacksOff
  /\ UNCHANGED <<g_stop_thread, client_sock, recordVars, listVars, mainVars,
                 socketVars, history>>

ListIsFree == client_list_lock = "none"

\* handle_audio_input_client: the new node goes to the head of the list
AddClient ==
  /\ ListIsFree
  /\ ServerGoes("add", "top")
  /\ client_list_head' = <<client_sock>> \o client_list_head
  /\ client_sock' = 0
  /\ UNCHANGED <<g_stop_thread, recordVars, client_list_lock, mainVars,
                 socketVars, history>>

\* or malloc fails, and the socket is closed.
AddClientFails ==
  /\ ListIsFree
  /\ ServerGoes("add", "top")
  /\ fdtab' = [fdtab EXCEPT ![client_sock] = NoConn]
  /\ client_sock' = 0
  /\ UNCHANGED <<g_stop_thread, recordVars, listVars, mainVars, backlog, conn,
                 queued, history>>

\* pthread_join(hw_ai_thread).  The bug: pthread_detach instead.
Detached == TRUE
RecordEnded == rpc = "done"

ServerJoin ==
  /\ RecordEnded
  /\ ServerGoes("join", "closing")
  /\ UNCHANGED <<g_stop_thread, client_sock, recordVars, listVars, mainVars,
                 socketVars, history>>

\* Close every client and free its node.
ServerCloseAll ==
  /\ ListIsFree
  /\ ServerGoes("closing", "shut")
  /\ fdtab' = [fd \in Fds |-> IF Contains(client_list_head, fd) THEN NoConn
                                                              ELSE fdtab[fd]]
  /\ client_list_head' = <<>>
  /\ UNCHANGED <<g_stop_thread, client_sock, recordVars, client_list_lock,
                 mainVars, backlog, conn, queued, history>>

\* close(sockfd), unlink: connections still in the backlog are dropped
ServerShut ==
  /\ ServerGoes("shut", "done")
  /\ backlog' = <<>>
  /\ UNCHANGED <<g_stop_thread, client_sock, recordVars, listVars, mainVars,
                 fdtab, conn, queued, history>>

ServerAdvance ==
  \/ ServerSetupFails \/ ServerSpawn \/ ServerSpawnFails \/ ServerTop
  \/ SelectReady \/ SelectTimeout \/ ServerAccept \/ ServerAcceptError
  \/ AddClient \/ AddClientFails \/ ServerJoin \/ ServerCloseAll \/ ServerShut

-----------------------------------------------------------------------------
(* Record thread: ai_record_thread in input.c.                             *)

\* while (!g_stop_thread)
RecordTop ==
  /\ rpc = "top"
  /\ rpc' = IF g_stop_thread THEN "done" ELSE "get"
  /\ UNCHANGED <<g_stop_thread, serverVars, current, frame, held, listVars,
                 mainVars, socketVars, history>>

\* MI_AI_GetFrame returns a frame, which is the daemon's until it releases it,
RecordGet ==
  /\ rpc = "get" /\ frame < MaxFrames
  /\ frame' = frame + 1
  /\ held' = TRUE
  /\ rpc' = "lock"
  /\ UNCHANGED <<g_stop_thread, serverVars, current, listVars, mainVars,
                 socketVars, history>>

\* or 200 ms pass without one.
RecordGetFails ==
  /\ rpc = "get"
  /\ rpc' = "top"
  /\ UNCHANGED <<g_stop_thread, serverVars, current, frame, held, listVars,
                 mainVars, socketVars, history>>

RecordLock ==
  /\ rpc = "lock" /\ ListIsFree
  /\ client_list_lock' = "record"
  /\ current' = 1
  /\ rpc' = "walk"
  /\ UNCHANGED <<g_stop_thread, serverVars, frame, held, client_list_head,
                 mainVars, socketVars, history>>

AtNode == rpc = "walk" /\ current <= Len(client_list_head)
\* The client at the current node
Client == fdtab[client_list_head[current]]

\* current = current->next
Pass == /\ current' = current + 1
        /\ UNCHANGED <<rpc, fdtab>>

\* close(current->sockfd), before the node is unlinked
Kick == /\ fdtab' = [fdtab EXCEPT ![client_list_head[current]] = NoConn]
        /\ rpc' = "unlink"
        /\ UNCHANGED current

\* What follows a send() that fills the buffer's last bytes with a part of the
\* frame, and one that finds it full.  The bugs: Pass, and a send() that blocks.
AfterPartial == Kick
Blocks == FALSE
AfterFull == Pass

SendUnchanged == UNCHANGED <<g_stop_thread, serverVars, frame, held, listVars,
                             mainVars, backlog, conn>>

\* send() takes the whole frame.
SendWhole ==
  /\ AtNode /\ Client \in Conns
  /\ conn[Client] = "open" /\ queued[Client] < SockCap
  /\ queued' = [queued EXCEPT ![Client] = @ + 1]
  /\ rx' = [rx EXCEPT ![Client] = frame]
  /\ tried' = [tried EXCEPT ![Client] = frame]
  /\ Pass
  /\ SendUnchanged /\ UNCHANGED torn

\* It takes a part of it: the stream is misaligned from now on.
SendPartial ==
  /\ AtNode /\ Client \in Conns
  /\ conn[Client] = "open" /\ queued[Client] < SockCap
  /\ queued' = [queued EXCEPT ![Client] = @ + 1]
  /\ torn' = [torn EXCEPT ![Client] = TRUE]
  /\ tried' = [tried EXCEPT ![Client] = frame]
  /\ AfterPartial
  /\ SendUnchanged /\ UNCHANGED rx

\* EAGAIN: the client misses this frame.
SendFull ==
  /\ AtNode /\ Client \in Conns
  /\ conn[Client] = "open" /\ queued[Client] = SockCap
  /\ tried' = [tried EXCEPT ![Client] = frame]
  /\ AfterFull
  /\ SendUnchanged /\ UNCHANGED <<queued, rx, torn>>

\* EPIPE: the client has gone.
SendToGone ==
  /\ AtNode /\ Client \in Conns
  /\ conn[Client] = "gone"
  /\ Kick
  /\ SendUnchanged /\ UNCHANGED <<queued, history>>

\* Any other error: ENOBUFS, EBADF, ...
SendError ==
  /\ AtNode
  /\ Kick
  /\ SendUnchanged /\ UNCHANGED <<queued, history>>

\* The list without the node the walk is at.  The bug: the node stays.
NotUnlinked == client_list_head
Unlinked == RemoveAt(client_list_head, current)

\* current = head of the list, or temp->next: the node after the one unlinked.
\* The bugs: the walk starts again, or skips a node.
StartsAgain == 1
SkipsOne == current + 1
NodeAfter == current

RecordUnlink ==
  /\ rpc = "unlink"
  /\ client_list_head' = Unlinked
  /\ current' = NodeAfter
  /\ rpc' = "walk"
  /\ UNCHANGED <<g_stop_thread, serverVars, frame, held, client_list_lock,
                 mainVars, socketVars, history>>

RecordUnlock ==
  /\ rpc = "walk" /\ ~AtNode
  /\ client_list_lock' = "none"
  /\ rpc' = "release"
  /\ UNCHANGED <<g_stop_thread, serverVars, current, frame, held,
                 client_list_head, mainVars, socketVars, history>>

\* MI_AI_ReleaseFrame
RecordRelease ==
  /\ rpc = "release"
  /\ held' = FALSE
  /\ rpc' = "top"
  /\ UNCHANGED <<g_stop_thread, serverVars, current, frame, listVars, mainVars,
                 socketVars, history>>

RecordAdvance ==
  \/ RecordTop \/ RecordGet \/ RecordGetFails \/ RecordLock
  \/ SendWhole \/ SendPartial \/ SendFull \/ SendToGone
  \/ RecordUnlink \/ RecordUnlock \/ RecordRelease

-----------------------------------------------------------------------------
(* Main thread: what iad.c does about audio input.                         *)

MainUnchanged == UNCHANGED <<recordVars, client_sock, listVars, socketVars, history>>

MainCreateServer ==
  /\ mpc = "boot"
  /\ spc' = "setup"
  /\ mpc' = "loop"
  /\ MainUnchanged /\ UNCHANGED <<g_stop_thread, ai_enabled>>

\* create_thread fails: ABORT_STARTUP
MainCreateFails ==
  /\ mpc = "boot"
  /\ g_stop_thread' = TRUE
  /\ mpc' = "loop"
  /\ MainUnchanged /\ UNCHANGED <<spc, ai_enabled>>

\* while (!g_stop_thread) usleep(100000)
MainLoop ==
  /\ mpc = "loop" /\ g_stop_thread
  /\ mpc' = "join"
  /\ MainUnchanged /\ UNCHANGED <<g_stop_thread, spc, ai_enabled>>

\* if (input_up) pthread_join(input_server_thread)
MainJoin ==
  /\ mpc = "join" /\ spc \in {"none", "done"}
  /\ mpc' = "disable"
  /\ MainUnchanged /\ UNCHANGED <<g_stop_thread, spc, ai_enabled>>

\* perform_cleanup -> disable_audio_input
MainDisable ==
  /\ mpc = "disable"
  /\ ai_enabled' = FALSE
  /\ mpc' = "done"
  /\ MainUnchanged /\ UNCHANGED <<g_stop_thread, spc>>

MainAdvance == MainCreateServer \/ MainCreateFails \/ MainLoop \/ MainJoin \/ MainDisable

-----------------------------------------------------------------------------
(* Environment.                                                            *)

HandleSigint ==
  /\ mpc # "done"
  /\ g_stop_thread' = TRUE
  /\ UNCHANGED <<serverVars, recordVars, listVars, mainVars, socketVars, history>>

EnvUnchanged == UNCHANGED <<g_stop_thread, serverVars, recordVars, listVars,
                            mainVars, history>>

ClientConnect(c) ==
  /\ conn[c] = "new" /\ spc \notin {"none", "setup", "done"}
  /\ Len(backlog) <= Backlog
  /\ conn' = [conn EXCEPT ![c] = "open"]
  /\ backlog' = Append(backlog, c)
  /\ EnvUnchanged /\ UNCHANGED <<fdtab, queued>>

ClientRead(c) ==
  /\ conn[c] = "open" /\ queued[c] > 0
  /\ queued' = [queued EXCEPT ![c] = @ - 1]
  /\ EnvUnchanged /\ UNCHANGED <<fdtab, backlog, conn>>

ClientClose(c) ==
  /\ conn[c] = "open"
  /\ conn' = [conn EXCEPT ![c] = "gone"]
  /\ queued' = [queued EXCEPT ![c] = 0]
  /\ EnvUnchanged /\ UNCHANGED <<fdtab, backlog>>

ClientStep == \E c \in Conns : ClientConnect(c) \/ ClientRead(c) \/ ClientClose(c)

Next == \/ ServerAdvance \/ SelectError
        \/ RecordAdvance \/ SendError
        \/ MainAdvance
        \/ HandleSigint
        \/ ClientStep

\* Threads that can run do run, and a list lock that is free again and again
\* is obtained.  Errors of select() and send() may never come.  Nothing is
\* assumed of the clients, least of all that they read.
Fairness == /\ WF_vars(ServerAdvance)
            /\ SF_vars(AddClient \/ AddClientFails)
            /\ WF_vars(RecordAdvance) /\ SF_vars(RecordLock)
            /\ WF_vars(MainAdvance)

Spec == Init /\ [][Next]_vars
FairSpec == Spec /\ Fairness

-----------------------------------------------------------------------------
(* Properties.                                                             *)

\* The nodes whose sockets are theirs: all but the one being unlinked, whose
\* descriptor is closed and may already stand for someone else.
OwningNodes == {i \in DOMAIN client_list_head : ~(rpc = "unlink" /\ i = current)}

\* Every descriptor that is open for a client has one owner: a node of the
\* list, or the server between accept() and the list.  So none leaks, none is
\* closed twice, and no frame reaches the wrong client through a descriptor
\* that was reused.
SocketOwnership ==
  /\ {fd \in Fds : fdtab[fd] # NoConn} =
       {client_list_head[i] : i \in OwningNodes} \cup ({client_sock} \ {0})
  /\ \A i, j \in OwningNodes :
       client_list_head[i] = client_list_head[j] => i = j
  /\ \A i \in OwningNodes : client_list_head[i] # client_sock

\* A client gets each frame at most once, in the order of capture, whoever is
\* kicked out of the list during the walk.
NoDuplicateFrame ==
  [][SendWhole => rx[Client] < frame /\ tried[Client] < frame]_vars

\* When the walk ends, every client still listed has been tried with this
\* frame: no client misses one because its neighbour was kicked.
EveryClientTried ==
  rpc = "walk" /\ ~AtNode =>
    \A i \in DOMAIN client_list_head :
      tried[fdtab[client_list_head[i]]] = frame

\* A client that was sent a part of a frame is never sent anything again: the
\* samples it has are never shifted by half a frame.
StreamAligned ==
  [][\A c \in Conns : torn[c] => UNCHANGED <<rx[c], tried[c]>>]_vars

\* The device is disabled only when the record thread is over and has given
\* its frame back.
DeviceDisabledLast == ~ai_enabled => rpc \in {"none", "done"} /\ ~held

\* Every frame goes back to the device, whether clients read or not: one that
\* is slow or stopped never holds capture up.
FramesReturned == held ~> ~held

\* A stop ends the daemon's input side, whatever the clients do.
ShutdownCompletes == g_stop_thread ~> mpc = "done"
=============================================================================
