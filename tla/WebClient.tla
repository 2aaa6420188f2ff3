------------------------------ MODULE WebClient ------------------------------
(***************************************************************************)
(* web_client: WebSocket streams and HTTP uploads from browsers, put into  *)
(* one connection to the AO socket of the audio daemon.  libwebsockets     *)
(* calls ws_callback and http_callback from one thread, one event at a     *)
(* time; the sessions share daemon_sockfd and audio_buffer.  The daemon is *)
(* here what a client sees of it: it accepts one connection at a time,     *)
(* oldest first, and reads it to its end.  Local clients (iac) queue for   *)
(* it too.                                                                 *)
(*                                                                         *)
(* Granularity.  A callback is one step as far as its first call that may  *)
(* block, connect(), write() or usleep(); no other callback runs until     *)
(* that call has returned.                                                 *)
(*                                                                         *)
(* Data.  A chunk is what one RECEIVE or HTTP_BODY event brings; chunks    *)
(* are numbered as they come.  A connection is named after the session     *)
(* that opened it, since a session opens at most one.  What iac writes is  *)
(* not followed: AudioOutput does.                                         *)
(***************************************************************************)
EXTENDS Integers, Sequences, FiniteSets

CONSTANTS Streams,     \* the WebSocket sessions ever made
          Uploads,     \* the HTTP requests ever made
          Locals,      \* runs of iac, which plays to the same socket
          NoConn,      \* the -1 of daemon_sockfd
          MaxSessions, \* BOUND: how many of the sessions come about
          Chunks,      \* BOUND: chunks all sessions bring
          MaxLen,      \* BOUND: the largest HTTP_BODY; 1 fits the first buffer
          SockCap,     \* BOUND: chunks the buffer of a socket holds
          MaxRestarts  \* BOUND: how often the daemon is restarted

Sessions == Streams \cup Uploads
Conns == Sessions \cup Locals

ASSUME WebAssumption ==
  /\ IsFiniteSet(Conns) /\ NoConn \notin Conns
  /\ Streams \cap Uploads = {} /\ Sessions \cap Locals = {}
  /\ MaxSessions \in Nat /\ Chunks \in Nat /\ MaxLen \in Nat \ {0}
  /\ SockCap \in Nat \ {0} /\ MaxRestarts \in Nat

\* The backlog of the daemon's listen().
Backlog == 5

VARIABLES
  \* --- web_client.c: the globals ---
  active_ws_connections,
  daemon_sockfd,       \* the connection all sessions write to, or NoConn
  audio_buffer,        \* the chunks in it, oldest first
  audio_buffer_len,    \* their length
  audio_buffer_size,
  allocated,           \* audio_buffer is not NULL
  \* --- the event loop ---
  pc,                  \* "service", what a callback blocks in, or "ended"
  serving,             \* the session whose callback it is
  out,                 \* what write() has yet to hand over
  \* --- the sessions ---
  ws, up,              \* state of each stream and each upload
  brought,             \* number of chunks they have brought so far
  \* --- the connections and the daemon ---
  end,                 \* the client's end: "none", "open" or "closed"
  dead,                \* the connections the daemon has dropped
  sock,                \* the chunks in the socket's buffer
  backlog, session,    \* who waits, and who is served
  restarts

bufferVars == <<audio_buffer, audio_buffer_len, audio_buffer_size, allocated>>
loopVars   == <<pc, serving, out>>
webVars    == <<active_ws_connections, daemon_sockfd, bufferVars, loopVars>>
peerVars   == <<ws, up, brought>>
daemonVars == <<dead, backlog, session, restarts>>
vars == <<webVars, peerVars, end, sock, daemonVars>>

Lengths == 1..MaxLen
Chunk == 1..Chunks

TypeOK ==
  /\ active_ws_connections \in 0..Cardinality(Streams)
  /\ daemon_sockfd \in Sessions \cup {NoConn}
  /\ audio_buffer \in Seq(Chunk)
  /\ audio_buffer_len \in 0..audio_buffer_size
  /\ audio_buffer_size \in Lengths
  /\ allocated \in BOOLEAN
  /\ pc \in {"service", "connect", "write", "sleep", "ended"}
  /\ serving \in Sessions \cup {NoConn}
  /\ out \in Seq(Chunk)
  /\ ws \in [Streams -> {"new", "open", "over"}]
  /\ up \in [Uploads -> {"new", "open", "aborted", "over"}]
  /\ brought \in 0..Chunks
  /\ end \in [Conns -> {"none", "open", "closed"}]
  /\ dead \subseteq Conns
  /\ sock \in [Conns -> Seq(Chunk)]
  /\ backlog \in Seq(Conns)
  /\ session \in Conns \cup {NoConn}
  /\ restarts \in 0..MaxRestarts

\* main has set up the listening context and allocated the buffer.
Init ==
  /\ active_ws_connections = 0
  /\ daemon_sockfd = NoConn
  /\ audio_buffer = <<>> /\ audio_buffer_len = 0
  /\ audio_buffer_size = 1 /\ allocated = TRUE
  /\ pc = "service" /\ serving = NoConn /\ out = <<>>
  /\ ws = [s \in Streams |-> "new"]
  /\ up = [u \in Uploads |-> "new"]
  /\ brought = 0
  /\ end = [c \in Conns |-> "none"]
  /\ dead = {}
  /\ sock = [c \in Conns |-> <<>>]
  /\ backlog = <<>> /\ session = NoConn
  /\ restarts = 0

-----------------------------------------------------------------------------
(* The connection to the daemon: client_network.c.                         *)

Connected == daemon_sockfd # NoConn

\* if (daemon_sockfd == -1).  The bug: every session connects.
AlwaysConnects == TRUE
MustConnect == ~Connected

\* setup_client_connection(), if there is need of it
ConnectFor(x) ==
  IF MustConnect
  THEN pc' = "connect" /\ serving' = x
  ELSE UNCHANGED <<pc, serving>>

\* close_client_connection(daemon_sockfd); daemon_sockfd = -1.  The bug: the
\* descriptor is forgotten and not closed.
ForgetConnection == daemon_sockfd' = NoConn /\ UNCHANGED end
CloseConnection == /\ daemon_sockfd' = NoConn
                   /\ end' = [end EXCEPT ![daemon_sockfd] = "closed"]

Return == pc' = "service" /\ serving' = NoConn

\* connect() blocks while the backlog is full
Connect ==
  /\ pc = "connect" /\ Len(backlog) <= Backlog
  /\ daemon_sockfd' = serving
  /\ end' = [end EXCEPT ![serving] = "open"]
  /\ backlog' = Append(backlog, serving)
  /\ Return
  /\ UNCHANGED <<active_ws_connections, bufferVars, out, peerVars, dead, sock,
                 session, restarts>>

\* no daemon there: the next session will try again, this one will not
ConnectFails ==
  /\ pc = "connect"
  /\ Return
  /\ UNCHANGED <<active_ws_connections, daemon_sockfd, bufferVars, out,
                 peerVars, end, sock, daemonVars>>

\* A browser opens one session more.
Come == {s \in Streams : ws[s] # "new"} \cup {u \in Uploads : up[u] # "new"}
MayCome == Cardinality(Come) < MaxSessions

-----------------------------------------------------------------------------
(* ws_callback.                                                            *)

\* active_ws_connections++.  The bug: only the stream that connects counts.
CountConnecting ==
  active_ws_connections' = active_ws_connections + IF Connected THEN 0 ELSE 1
CountStream == active_ws_connections' = active_ws_connections + 1

\* LWS_CALLBACK_ESTABLISHED
Established(s) ==
  /\ pc = "service" /\ ws[s] = "new" /\ MayCome
  /\ ws' = [ws EXCEPT ![s] = "open"]
  /\ CountStream
  /\ ConnectFor(s)
  /\ UNCHANGED <<daemon_sockfd, bufferVars, out, up, brought, end, sock,
                 daemonVars>>

Brings == brought < Chunks /\ brought' = brought + 1

\* LWS_CALLBACK_RECEIVE; without a connection the chunk is dropped
Receive(s) ==
  /\ pc = "service" /\ ws[s] = "open"
  /\ Brings
  /\ IF Connected
     THEN pc' = "write" /\ serving' = s /\ out' = <<brought'>>
     ELSE UNCHANGED loopVars
  /\ UNCHANGED <<active_ws_connections, daemon_sockfd, bufferVars, ws, up, end,
                 sock, daemonVars>>

\* The count is 0 after its decrement.  The bug: it is looked at before.
CountedBefore == active_ws_connections = 0
NoStreamLeft == active_ws_connections' = 0

\* LWS_CALLBACK_CLOSED
Closed(s) ==
  /\ pc = "service" /\ ws[s] = "open"
  /\ ws' = [ws EXCEPT ![s] = "over"]
  /\ active_ws_connections' = active_ws_connections - 1
  /\ IF NoStreamLeft /\ Connected
     THEN CloseConnection
     ELSE UNCHANGED <<daemon_sockfd, end>>
  /\ UNCHANGED <<bufferVars, loopVars, up, brought, sock, daemonVars>>

-----------------------------------------------------------------------------
(* http_callback.                                                          *)

\* LWS_CALLBACK_HTTP: POST to /audio
HttpRequest(u) ==
  /\ pc = "service" /\ up[u] = "new" /\ MayCome
  /\ up' = [up EXCEPT ![u] = "open"]
  /\ ConnectFor(u)
  /\ UNCHANGED <<active_ws_connections, daemon_sockfd, bufferVars, out, ws,
                 brought, end, sock, daemonVars>>

\* another method or path
HttpRefused(u) ==
  /\ pc = "service" /\ up[u] = "new" /\ MayCome
  /\ up' = [up EXCEPT ![u] = "over"]
  /\ UNCHANGED <<webVars, ws, brought, end, sock, daemonVars>>

\* audio_buffer_len = 0.  The bug: the length stays.
KeepLength == UNCHANGED <<audio_buffer, audio_buffer_len>>
ResetLength == audio_buffer' = <<>> /\ audio_buffer_len' = 0

\* The bug: the buffer is taken to be large enough.
NeverGrows(len) == FALSE
MustGrow(len) == audio_buffer_len + len > audio_buffer_size

\* LWS_CALLBACK_HTTP_BODY, realloc() if need be, memcpy()
HttpBody(u, len) ==
  /\ pc = "service" /\ up[u] = "open" /\ Connected
  /\ MustGrow(len) \/ allocated
  /\ Brings
  /\ audio_buffer' = Append(audio_buffer, brought')
  /\ audio_buffer_len' = audio_buffer_len + len
  /\ audio_buffer_size' = IF MustGrow(len) THEN audio_buffer_len + len
                          ELSE audio_buffer_size
  /\ allocated' = TRUE
  /\ pc' = "write" /\ serving' = u /\ out' = audio_buffer'
  /\ UNCHANGED <<active_ws_connections, daemon_sockfd, ws, up, end, sock,
                 daemonVars>>

\* without a connection the body is dropped, and answered with 200 later on
HttpBodyDropped(u) ==
  /\ pc = "service" /\ up[u] = "open" /\ ~Connected
  /\ Brings
  /\ UNCHANGED <<webVars, ws, up, end, sock, daemonVars>>

\* realloc() fails: the pointer is lost, the size is kept, the request ends
HttpBodyNoMemory(u, len) ==
  /\ pc = "service" /\ up[u] = "open" /\ Connected
  /\ MustGrow(len)
  /\ Brings
  /\ audio_buffer_size' = audio_buffer_len + len
  /\ allocated' = FALSE
  /\ up' = [up EXCEPT ![u] = "aborted"]
  /\ UNCHANGED <<active_ws_connections, daemon_sockfd, audio_buffer,
                 audio_buffer_len, loopVars, ws, end, sock, daemonVars>>

\* The process is gone, with its memory, its connection and its sessions.
Ends ==
  /\ pc' = "ended" /\ serving' = NoConn /\ out' = <<>>
  /\ daemon_sockfd' = NoConn /\ active_ws_connections' = 0
  /\ ResetLength /\ audio_buffer_size' = 1 /\ allocated' = FALSE
  /\ end' = [c \in Conns |->
               IF c \in Sessions /\ end[c] = "open" THEN "closed" ELSE end[c]]
  /\ ws' = [s \in Streams |-> "over"]
  /\ up' = [u \in Uploads |-> IF up[u] = "open" THEN "aborted" ELSE up[u]]
  /\ UNCHANGED <<brought, sock, daemonVars>>

\* memcpy() to the NULL that an earlier realloc() left
HttpBodyCrash(u, len) ==
  /\ pc = "service" /\ up[u] = "open" /\ Connected
  /\ ~MustGrow(len) /\ ~allocated
  /\ Ends

\* LWS_CALLBACK_HTTP_BODY_COMPLETION: 200, then usleep()
HttpCompletion(u) ==
  /\ pc = "service" /\ up[u] = "open"
  /\ up' = [up EXCEPT ![u] = "over"]
  /\ pc' = "sleep" /\ serving' = u
  /\ UNCHANGED <<active_ws_connections, daemon_sockfd, bufferVars, out, ws,
                 brought, end, sock, daemonVars>>

\* whatever connection there is now is closed
HttpClose ==
  /\ pc = "sleep"
  /\ Return
  /\ IF Connected THEN CloseConnection ELSE UNCHANGED <<daemon_sockfd, end>>
  /\ UNCHANGED <<active_ws_connections, bufferVars, out, peerVars, sock,
                 daemonVars>>

\* The browser leaves in the middle of an upload: no case of the callback
HttpGone(u) ==
  /\ pc = "service" /\ up[u] = "open"
  /\ up' = [up EXCEPT ![u] = "aborted"]
  /\ UNCHANGED <<webVars, ws, brought, end, sock, daemonVars>>

-----------------------------------------------------------------------------
(* write(), of either callback: it blocks while the socket is full, and    *)
(* what it returns is not looked at.                                       *)

WriteReturns ==
  /\ Return
  /\ IF serving \in Uploads
     THEN ResetLength
     ELSE UNCHANGED <<audio_buffer, audio_buffer_len>>

Write ==
  /\ pc = "write" /\ daemon_sockfd \notin dead
  /\ Len(sock[daemon_sockfd]) < SockCap
  /\ sock' = [sock EXCEPT ![daemon_sockfd] = Append(@, Head(out))]
  /\ out' = Tail(out)
  /\ IF Len(out) = 1 THEN WriteReturns
     ELSE UNCHANGED <<pc, serving, audio_buffer, audio_buffer_len>>
  /\ UNCHANGED <<active_ws_connections, daemon_sockfd, audio_buffer_size,
                 allocated, peerVars, end, daemonVars>>

\* EPIPE; SIGPIPE is ignored, and the dead descriptor stays in use
WriteFails ==
  /\ pc = "write" /\ daemon_sockfd \in dead
  /\ out' = <<>>
  /\ WriteReturns
  /\ UNCHANGED <<active_ws_connections, daemon_sockfd, audio_buffer_size,
                 allocated, peerVars, end, sock, daemonVars>>

\* SIGINT or SIGTERM at any place
HandleSigint == pc # "ended" /\ Ends

-----------------------------------------------------------------------------
(* iac: it connects, writes its file and closes, or dies on the way.       *)

LocalConnect(l) ==
  /\ end[l] = "none" /\ Len(backlog) <= Backlog
  /\ end' = [end EXCEPT ![l] = "open"]
  /\ backlog' = Append(backlog, l)
  /\ UNCHANGED <<webVars, peerVars, sock, dead, session, restarts>>

LocalClose(l) ==
  /\ end[l] = "open"
  /\ end' = [end EXCEPT ![l] = "closed"]
  /\ UNCHANGED <<webVars, peerVars, sock, daemonVars>>

-----------------------------------------------------------------------------
(* The daemon, as AudioOutput's server thread appears to its clients.      *)

DaemonUnchanged == UNCHANGED <<webVars, peerVars, end>>

DaemonAccept ==
  /\ session = NoConn /\ backlog # <<>>
  /\ session' = Head(backlog)
  /\ backlog' = Tail(backlog)
  /\ DaemonUnchanged /\ UNCHANGED <<sock, dead, restarts>>

DaemonRecv ==
  /\ session # NoConn /\ sock[session] # <<>>
  /\ sock' = [sock EXCEPT ![session] = Tail(@)]
  /\ DaemonUnchanged /\ UNCHANGED <<dead, backlog, session, restarts>>

DaemonHangup ==
  /\ session # NoConn /\ sock[session] = <<>> /\ end[session] = "closed"
  /\ session' = NoConn
  /\ DaemonUnchanged /\ UNCHANGED <<sock, dead, backlog, restarts>>

\* The daemon ends or crashes, and is started again: its connections and
\* what is in them are lost.
DaemonRestart ==
  /\ restarts < MaxRestarts
  /\ restarts' = restarts + 1
  /\ dead' = {c \in Conns : end[c] # "none"}
  /\ sock' = [c \in Conns |-> <<>>]
  /\ backlog' = <<>> /\ session' = NoConn
  /\ DaemonUnchanged

-----------------------------------------------------------------------------
Callback ==
  \/ \E s \in Streams : Established(s) \/ Receive(s) \/ Closed(s)
  \/ \E u \in Uploads :
       \/ HttpRequest(u) \/ HttpRefused(u) \/ HttpBodyDropped(u)
       \/ HttpCompletion(u) \/ HttpGone(u)
       \/ \E len \in Lengths : HttpBody(u, len) \/ HttpBodyNoMemory(u, len)
                                 \/ HttpBodyCrash(u, len)

LoopAdvance == Connect \/ HttpClose \/ Write \/ WriteFails
DaemonAdvance == DaemonAccept \/ DaemonRecv \/ DaemonHangup

Next == \/ Callback \/ LoopAdvance \/ ConnectFails \/ HandleSigint
        \/ \E l \in Locals : LocalConnect(l) \/ LocalClose(l)
        \/ DaemonAdvance \/ DaemonRestart

Spec == Init /\ [][Next]_vars

\* A call that can return does, and the daemon's server thread gets on: it
\* waits for nothing but its client (ChunksDrain of AudioOutput).  Nothing is
\* assumed of browsers, of iac or of a failing connect().
FairSpec == Spec /\ WF_vars(LoopAdvance) /\ WF_vars(DaemonAdvance)

-----------------------------------------------------------------------------
(* Properties.                                                             *)

Open(x) == IF x \in Streams THEN ws[x] = "open" ELSE up[x] = "open"

\* The connections that hold audio, in the order in which the daemon comes to
\* them.
Lined == IF session = NoConn THEN backlog ELSE <<session>> \o backlog

Increasing(s) == \A m, n \in DOMAIN s : m < n => s[m] < s[n]
Precedes(s, t) == \A m \in DOMAIN s, n \in DOMAIN t : s[m] < t[n]

\* Audio stays in the order in which it came, and no chunk is sent twice,
\* though uploads share a buffer and the audio of a session may travel over
\* several connections, one after the other.
ChunksInOrder ==
  /\ \A i \in DOMAIN Lined :
       /\ Increasing(sock[Lined[i]])
       /\ Precedes(sock[Lined[i]], out)
       /\ \A j \in DOMAIN Lined :
            i < j => Precedes(sock[Lined[i]], sock[Lined[j]])
  /\ Increasing(out)

\* There is one connection at most: no descriptor is left open without being
\* daemon_sockfd.  And none is left once all sessions are over, unless an
\* upload was aborted: only its completion would have closed it.
NoConnectionLeaks ==
  /\ \A x \in Sessions : end[x] = "open" => daemon_sockfd = x
  /\ pc = "service" /\ Connected =>
       \/ \E x \in Sessions : Open(x)
       \/ \E u \in Uploads : up[u] = "aborted"

\* Streams do not cut each other off.  The connection outlives every stream
\* but the last, unless an upload completes (web_client.c:111 closes it under
\* the streams) or the program ends.
StreamsKeepConnection ==
  [][Connected /\ daemon_sockfd' = NoConn =>
       \/ \A s \in Streams : ws'[s] # "open"
       \/ pc = "sleep"]_vars

LocalsLeave == \A l \in Locals : []<>(end[l] # "open")
SessionsEnd == \A x \in Sessions : []<>~Open(x)
NoneAborted == [](\A u \in Uploads : up[u] # "aborted")

\* No callback keeps the event loop, and all other sessions with it, for ever:
\* if the local clients leave in the end, the daemon comes to this connection,
\* and every connect() and write() returns.  An older connection that was not
\* closed would stand before it for ever.
CallbacksReturn ==
  LocalsLeave => (pc # "service" ~> pc \in {"service", "ended"})

Waiting(l) == \E i \in DOMAIN backlog : backlog[i] = l
Served == \A l \in Locals : Waiting(l) ~> ~Waiting(l)

\* A local client that has queued for the speaker gets it, if all sessions
\* and other local clients come to an end and no upload is aborted.
LocalsServed == LocalsLeave /\ SessionsEnd /\ NoneAborted => Served

\* "AO supports queued playback from multiple sources" (README.md:24): the
\* same without the last condition.  The connection of an aborted upload stays
\* open, and with it the daemon's only session.
QueuedPlayback == LocalsLeave /\ SessionsEnd => Served
=============================================================================
