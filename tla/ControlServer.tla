---------------------------- MODULE ControlServer ----------------------------
(***************************************************************************)
(* The control server of iad: one thread that serves one short request per *)
(* connection, together with main's shutdown of it and as much of the      *)
(* audio-output path as it touches (audio_buffer_lock).                    *)
(*                                                                         *)
(* A client may be an iac about to play, which asks whether it will be     *)
(* queued, or a user of the GET / SET protocol.  A connection that is over *)
(* at both ends may be made again: it stands for the next client.          *)
(*                                                                         *)
(* Two variables of the program are called active_client_sock.  This is    *)
(* the one of utils.c, which utils.h exports and this server reads; the AO *)
(* server assigns a static one of its own, so this one is never assigned.  *)
(***************************************************************************)
EXTENDS Integers, Sequences, FiniteSets

CONSTANTS Conns,    \* connections open to the control socket at a time
          Requests, \* what clients ask, of Protocol below
          NoConn,   \* no connection, and the -1 of the descriptors
          Nothing   \* no request, no reply

\* The backlog of listen(sockfd, 5).
Backlog == 5

Names == {"sampleVariableA", "sampleVariableB"}

\* An int is named by its text.  "wide" stands for the ints of more than nine
\* characters, "cut" for what ten bytes keep of one, "junk" for a text that is
\* not a number.
Ints == {"0", "1", "wide"}

\* A request is what one recv() returns, by the branch it takes.  "GET" and
\* "SET" may lack an operand; sscanf() then leaves its buffer as it was.  An
\* operand has at most 99 characters, what these buffers hold: sscanf() does not
\* limit it, and what a longer one does is undefined and left out.
Protocol ==
  {[kind |-> "AUDIO_OUTPUT_REQUEST"], [kind |-> "other"],
   [kind |-> "GET"], [kind |-> "SET"]}
  \cup [kind : {"GET"}, name : Names \cup {"unknown"}]
  \cup [kind : {"SET"}, name : Names \cup {"unknown"}]
  \cup [kind : {"SET"}, name : Names \cup {"unknown"}, value : Ints \cup {"junk"}]

Replies == {"queued", "not_queued", "RESPONSE_OK", "RESPONSE_ERROR",
            "RESPONSE_UNKNOWN_VARIABLE"} \cup {"0", "1", "cut"}

ASSUME ControlAssumption == /\ NoConn \notin Conns
                            /\ Requests \subseteq Protocol
                            /\ Nothing \notin Requests /\ Nothing \notin Replies

VARIABLES
  g_stop_thread,
  \* --- control_server.c ---
  cpc, client_sock,     \* the thread, and the connection it serves
  accepted,             \* connections whose descriptor is open in the daemon
  \* --- network.c, utils.c ---
  sample,               \* sampleVariableA and sampleVariableB
  active_client_sock,   \* utils.c
  audio_buffer_lock,    \* "none", "control" or "output"
  \* --- main ---
  mpc,
  \* --- clients ---
  backlog, conn, request, reply

audioVars  == <<active_client_sock, audio_buffer_lock>>
clientVars == <<backlog, conn, request, reply>>
vars == <<g_stop_thread, cpc, client_sock, accepted, sample, audioVars, mpc,
          clientVars>>

TypeOK ==
  /\ g_stop_thread \in BOOLEAN
  /\ cpc \in {"setup", "select", "accept", "recv", "handle", "answer", "close",
              "shut", "done"}
  /\ client_sock \in Conns \cup {NoConn}
  /\ accepted \subseteq Conns
  /\ sample \in [Names -> Ints]
  /\ active_client_sock \in Conns \cup {NoConn}
  /\ audio_buffer_lock \in {"none", "control", "output"}
  /\ mpc \in {"loop", "join", "cleanup", "done"}
  /\ backlog \in Seq(Conns)
  /\ conn \in [Conns -> {"new", "open", "gone"}]
  /\ request \in [Conns -> Requests \cup {Nothing}]
  /\ reply \in [Conns -> Replies \cup {Nothing}]

\* main has created the thread.
Init ==
  /\ g_stop_thread = FALSE
  /\ cpc = "setup" /\ client_sock = NoConn /\ accepted = {}
  /\ sample = [n \in Names |-> IF n = "sampleVariableA" THEN "0" ELSE "1"]
  /\ active_client_sock = NoConn /\ audio_buffer_lock = "none"
  /\ mpc = "loop"
  /\ backlog = <<>>
  /\ conn = [c \in Conns |-> "new"]
  /\ request = [c \in Conns |-> Nothing]
  /\ reply = [c \in Conns |-> Nothing]

-----------------------------------------------------------------------------
(* The thread: audio_control_server_thread.                                *)

Goes(from, to) == cpc = from /\ cpc' = to

\* socket(), bind() and listen() succeed, or the thread returns.
Setup ==
  /\ Goes("setup", "select") \/ Goes("setup", "done")
  /\ UNCHANGED <<g_stop_thread, client_sock, accepted, sample, audioVars, mpc,
                 clientVars>>

SelectReady ==
  /\ backlog # <<>>
  /\ Goes("select", "accept")
  /\ UNCHANGED <<g_stop_thread, client_sock, accepted, sample, audioVars, mpc,
                 clientVars>>

\* One second without a connection, and only then a look at the flag.
\* The bug: no look.
KeepsSelecting == "select"
AfterTimeout == IF g_stop_thread THEN "shut" ELSE "select"

SelectTimeout ==
  /\ backlog = <<>>
  /\ Goes("select", AfterTimeout)
  /\ UNCHANGED <<g_stop_thread, client_sock, accepted, sample, audioVars, mpc,
                 clientVars>>

\* Any error of select(), EINTR included, ends the thread.
SelectError ==
  /\ Goes("select", "shut")
  /\ UNCHANGED <<g_stop_thread, client_sock, accepted, sample, audioVars, mpc,
                 clientVars>>

Accept ==
  /\ Goes("accept", "recv")
  /\ client_sock' = Head(backlog)
  /\ accepted' = accepted \cup {Head(backlog)}
  /\ backlog' = Tail(backlog)
  /\ UNCHANGED <<g_stop_thread, sample, audioVars, mpc, conn, request, reply>>

\* accept() fails: continue, without a look at the flag
AcceptError ==
  /\ Goes("accept", "select")
  /\ UNCHANGED <<g_stop_thread, client_sock, accepted, sample, audioVars, mpc,
                 clientVars>>

\* close(sockfd); the socket file stays
Shut ==
  /\ Goes("shut", "done")
  /\ backlog' = <<>>
  /\ UNCHANGED <<g_stop_thread, client_sock, accepted, sample, audioVars, mpc,
                 conn, request, reply>>

-----------------------------------------------------------------------------
(* handle_control_client.                                                  *)

Asked == request[client_sock]

\* recv() returns the request.
Recv ==
  /\ Goes("recv", "handle")
  /\ Asked # Nothing
  /\ UNCHANGED <<g_stop_thread, client_sock, accepted, sample, audioVars, mpc,
                 clientVars>>

\* recv() fails or returns 0: close and return.  The bug: return only.
ReturnsAtOnce == Goes("recv", "select")
ClosesFirst == Goes("recv", "close")

RecvFails ==
  /\ ClosesFirst
  /\ conn[client_sock] = "gone" /\ Asked = Nothing
  /\ UNCHANGED <<g_stop_thread, client_sock, accepted, sample, audioVars, mpc,
                 clientVars>>

\* A write() to a client that has gone fails, and that is ignored.
Answer(text) ==
  reply' = [reply EXCEPT ![client_sock] =
              IF conn[client_sock] = "open" THEN text ELSE @]

\* pthread_mutex_lock(&audio_buffer_lock)
HandleOutputRequest ==
  /\ Goes("handle", "answer")
  /\ Asked.kind = "AUDIO_OUTPUT_REQUEST"
  /\ audio_buffer_lock = "none" /\ audio_buffer_lock' = "control"
  /\ UNCHANGED <<g_stop_thread, client_sock, accepted, sample,
                 active_client_sock, mpc, clientVars>>

\* pthread_mutex_unlock.  The bug: it is missing.
KeepsLock == UNCHANGED audio_buffer_lock
ReleasesLock == audio_buffer_lock' = "none"

AnswerOutputRequest ==
  /\ Goes("answer", "close")
  /\ Answer(IF active_client_sock # NoConn THEN "queued" ELSE "not_queued")
  /\ ReleasesLock
  /\ UNCHANGED <<g_stop_thread, client_sock, accepted, sample,
                 active_client_sock, mpc, backlog, conn, request>>

\* The operand of a request, or whatever the buffer on the stack holds.
NameIn(r)  == IF "name" \in DOMAIN r THEN {r.name} ELSE Names \cup {"unknown"}
ValueIn(r) == IF "value" \in DOMAIN r THEN {r.value} ELSE Ints \cup {"junk"}

\* snprintf(value, 10, "%d", ...), and atoi().
Shown(v) == IF v = "wide" THEN "cut" ELSE v
Atoi(text) == IF text \in Ints THEN text ELSE "0"

\* get_variable_value
HandleGet ==
  /\ Goes("handle", "close")
  /\ Asked.kind = "GET"
  /\ \E name \in NameIn(Asked) :
       Answer(IF name \in Names THEN Shown(sample[name])
                                ELSE "RESPONSE_UNKNOWN_VARIABLE")
  /\ UNCHANGED <<g_stop_thread, client_sock, accepted, sample, audioVars, mpc,
                 backlog, conn, request>>

\* set_variable_value
HandleSet ==
  /\ Goes("handle", "close")
  /\ Asked.kind = "SET"
  /\ \E name \in NameIn(Asked), value \in ValueIn(Asked) :
       /\ sample' = IF name \in Names THEN [sample EXCEPT ![name] = Atoi(value)]
                                      ELSE sample
       /\ Answer(IF name \in Names THEN "RESPONSE_OK" ELSE "RESPONSE_ERROR")
  /\ UNCHANGED <<g_stop_thread, client_sock, accepted, audioVars, mpc,
                 backlog, conn, request>>

HandleOther ==
  /\ Goes("handle", "close")
  /\ Asked.kind = "other"
  /\ Answer("RESPONSE_ERROR")
  /\ UNCHANGED <<g_stop_thread, client_sock, accepted, sample, audioVars, mpc,
                 backlog, conn, request>>

Close ==
  /\ Goes("close", "select")
  /\ accepted' = accepted \ {client_sock}
  /\ client_sock' = NoConn
  /\ UNCHANGED <<g_stop_thread, sample, audioVars, mpc, clientVars>>

ControlAdvance ==
  \/ Setup \/ SelectReady \/ SelectTimeout \/ Accept \/ AcceptError \/ Shut
  \/ Recv \/ RecvFails
  \/ HandleOutputRequest \/ HandleGet \/ HandleSet \/ HandleOther
  \/ AnswerOutputRequest \/ Close

-----------------------------------------------------------------------------
(* The rest of the daemon.                                                 *)

AudioUnchanged == UNCHANGED <<g_stop_thread, cpc, client_sock, accepted, sample,
                              active_client_sock, mpc, clientVars>>

\* The AO server and the play thread take the lock and give it back.
OutputLock ==
  /\ audio_buffer_lock = "none" /\ audio_buffer_lock' = "output"
  /\ AudioUnchanged

OutputUnlock ==
  /\ audio_buffer_lock = "output" /\ audio_buffer_lock' = "none"
  /\ AudioUnchanged

MainUnchanged == UNCHANGED <<g_stop_thread, cpc, client_sock, accepted, sample,
                             audioVars, clientVars>>

\* while (!g_stop_thread) usleep(100000)
MainLoop == mpc = "loop" /\ g_stop_thread /\ mpc' = "join" /\ MainUnchanged

\* pthread_join(control_server_thread)
MainJoin == mpc = "join" /\ cpc = "done" /\ mpc' = "cleanup" /\ MainUnchanged

\* A signal delivered to main, or to this thread: select() is interrupted,
\* and so is recv(), whose client is closed.
HandleSigint ==
  /\ g_stop_thread' = TRUE
  /\ UNCHANGED <<cpc, client_sock, accepted, sample, audioVars, mpc, clientVars>>

HandleSigintInControl ==
  /\ Goes("select", "shut") \/ Goes("recv", "close")
  /\ g_stop_thread' = TRUE
  /\ UNCHANGED <<client_sock, accepted, sample, audioVars, mpc, clientVars>>

-----------------------------------------------------------------------------
(* Clients.                                                                *)

ClientUnchanged == UNCHANGED <<g_stop_thread, cpc, client_sock, accepted, sample,
                               audioVars, mpc>>

Connect(c) ==
  /\ conn[c] = "new" /\ cpc \notin {"setup", "done"}
  /\ Len(backlog) <= Backlog
  /\ conn' = [conn EXCEPT ![c] = "open"]
  /\ backlog' = Append(backlog, c)
  /\ ClientUnchanged /\ UNCHANGED <<request, reply>>

Send(c) ==
  /\ conn[c] = "open" /\ request[c] = Nothing
  /\ \E r \in Requests : request' = [request EXCEPT ![c] = r]
  /\ ClientUnchanged /\ UNCHANGED <<backlog, conn, reply>>

\* iac closes when it has read the reply; a client may also close before.
Hangup(c) ==
  /\ conn[c] = "open"
  /\ conn' = [conn EXCEPT ![c] = "gone"]
  /\ ClientUnchanged /\ UNCHANGED <<backlog, request, reply>>

InBacklog(c) == \E i \in DOMAIN backlog : backlog[i] = c

\* The next client.
Again(c) ==
  /\ conn[c] = "gone" /\ c \notin accepted /\ ~InBacklog(c)
  /\ conn' = [conn EXCEPT ![c] = "new"]
  /\ request' = [request EXCEPT ![c] = Nothing]
  /\ reply' = [reply EXCEPT ![c] = Nothing]
  /\ ClientUnchanged /\ UNCHANGED backlog

Next == \/ ControlAdvance \/ SelectError
        \/ OutputLock \/ OutputUnlock
        \/ MainLoop \/ MainJoin
        \/ HandleSigint \/ HandleSigintInControl
        \/ \E c \in Conns : Connect(c) \/ Send(c) \/ Hangup(c) \/ Again(c)

Spec == Init /\ [][Next]_vars

AsksOrLeaves(c) == Send(c) \/ (request[c] = Nothing /\ Hangup(c))

\* The thread runs, accept() does not fail for ever, the output threads give
\* the lock back, every client that connects asks something or leaves, and
\* signals stop interrupting the thread.
PoliteSpec ==
  /\ Spec
  /\ WF_vars(ControlAdvance) /\ SF_vars(Accept) /\ SF_vars(HandleOutputRequest)
  /\ WF_vars(OutputUnlock)
  /\ WF_vars(MainLoop) /\ WF_vars(MainJoin)
  /\ \A c \in Conns : WF_vars(AsksOrLeaves(c))
  /\ <>[][~HandleSigintInControl]_vars

-----------------------------------------------------------------------------
(* Properties.                                                             *)

\* Every path through handle_control_client closes the socket it was given,
\* so the daemon never has more than one control client open.
NoDescriptorLeak ==
  accepted = IF cpc \in {"recv", "handle", "answer", "close"}
             THEN {client_sock} ELSE {}

\* Whoever sends a request is answered, unless it leaves first, the server
\* ends, or a signal has interrupted recv() and its socket is closed.  One of
\* the answers needs the lock of the two output threads, which must come back.
Waiting(c) == c \in accepted \/ InBacklog(c)

EveryRequestAnswered ==
  \A c \in Conns :
    (Waiting(c) /\ request[c] # Nothing) ~>
      (\/ reply[c] # Nothing \/ conn[c] # "open" \/ cpc = "done"
       \/ g_stop_thread /\ ~Waiting(c))

\* If clients stop coming, the stop flag is seen.
StopSeenWhenQuiet ==
  <>[](\A c \in Conns : conn[c] # "open") => (g_stop_thread ~> mpc = "cleanup")

\* "Use select() to allow periodic g_stop_thread checks" (control_server.c:120):
\* the flag is looked at whether clients come or not.  The run shows it is
\* looked at only when a second passes without any.
StopSeen == g_stop_thread ~> cpc = "done"
=============================================================================
