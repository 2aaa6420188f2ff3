--------------------------- MODULE WebClient_proof ---------------------------
(***************************************************************************)
(* Theorems about WebClient, for any sessions, local clients and bounds.   *)
(*                                                                         *)
(* Why IInv is stronger than the properties.  That audio keeps its order   *)
(* over several connections is a matter of where the connection in use     *)
(* stands in the daemon's line: a chunk that is written goes behind all    *)
(* the audio there is, because nobody behind that connection has any       *)
(* (SockInv), because every connection stands there once (PlaceInv), and   *)
(* because a session connects only once, while it is new (SessionInv).     *)
(* That a connection is closed when the last stream ends is a matter of    *)
(* the count being right (CountInv) and of what the callback in progress   *)
(* holds (LoopInv, BufferInv).                                             *)
(***************************************************************************)
EXTENDS WebClient, SequenceTheorems, FiniteSetTheorems, TLAPS

\* A session that is new has no connection yet.
SessionInv ==
  /\ \A s \in Streams : ws[s] = "new" => end[s] = "none"
  /\ \A u \in Uploads : up[u] = "new" => end[u] = "none"

\* The callback in progress is one of an open session; it connects only if
\* there is no connection, and writes only if there is one.
LoopInv ==
  /\ pc \in {"service", "ended"} => serving = NoConn
  /\ pc \in {"connect", "write"} => serving \in Sessions /\ Open(serving)
  /\ pc = "connect" => ~Connected /\ end[serving] = "none"
  /\ pc = "write" => Connected

\* Between callbacks nothing is left to write, and audio_buffer is empty.
BufferInv ==
  /\ pc = "write" => Len(out) = 1
  /\ pc # "write" => out = <<>>
  /\ pc # "write" \/ serving \notin Uploads =>
       audio_buffer = <<>> /\ audio_buffer_len = 0

OpenStreams == {s \in Streams : ws[s] = "open"}

\* active_ws_connections counts the streams.
CountInv == active_ws_connections = Cardinality(OpenStreams)

\* Nobody is in the line twice.  The connection in use is in it, unless the
\* daemon was restarted since.
PlaceInv ==
  /\ \A i, j \in DOMAIN Lined : Lined[i] = Lined[j] => i = j
  /\ \A i \in DOMAIN Lined : Lined[i] \notin dead /\ end[Lined[i]] # "none"
  /\ \A c \in dead : end[c] # "none"
  /\ Connected =>
       /\ end[daemon_sockfd] = "open"
       /\ \/ daemon_sockfd \in dead
          \/ \E i \in DOMAIN Lined : Lined[i] = daemon_sockfd

\* Audio is only in the line, none of it behind the connection in use, and
\* none newer than the last chunk brought.
SockInv ==
  /\ \A c \in Conns : sock[c] # <<>> => \E i \in DOMAIN Lined : Lined[i] = c
  /\ \A i, j \in DOMAIN Lined :
       i < j /\ Lined[i] = daemon_sockfd => sock[Lined[j]] = <<>>
  /\ \A c \in Conns : \A m \in DOMAIN sock[c] : sock[c][m] <= brought
  /\ \A m \in DOMAIN out : out[m] <= brought

IInv == /\ TypeOK /\ SessionInv /\ LoopInv /\ BufferInv /\ CountInv
        /\ PlaceInv /\ SockInv /\ ChunksInOrder /\ NoConnectionLeaks

USE WebAssumption

-----------------------------------------------------------------------------
(* The count of streams.                                                   *)

\* Which steps change the streams and their count.
LEMMA StreamMoves ==
  Next => \/ UNCHANGED <<ws, active_ws_connections>>
          \/ \E s \in Streams : Established(s) \/ Closed(s)
          \/ Ends
BY DEF Next, Callback, LoopAdvance, DaemonAdvance, Receive, HttpRequest,
   HttpRefused, HttpBodyDropped, HttpCompletion, HttpGone, HttpBody,
   HttpBodyNoMemory, HttpBodyCrash, Connect, HttpClose, Write, WriteFails,
   ConnectFails, HandleSigint, LocalConnect, LocalClose, DaemonAccept,
   DaemonRecv, DaemonHangup, DaemonRestart, DaemonUnchanged, webVars, peerVars

LEMMA CountFacts ==
  /\ IsFiniteSet(Streams) /\ Cardinality(Streams) \in Nat
  /\ IsFiniteSet(OpenStreams) /\ Cardinality(OpenStreams) \in 0..Cardinality(Streams)
<1>1. Streams \subseteq Conns /\ OpenStreams \subseteq Streams
  BY DEF Conns, Sessions, OpenStreams
<1>2. IsFiniteSet(Streams)
  BY <1>1, FS_Subset
<1> QED
  BY <1>1, <1>2, FS_Subset, FS_CardinalityType

\* The count is that of the open streams, before and after.
LEMMA StepCount ==
  ASSUME TypeOK, CountInv, [Next]_vars
  PROVE  CountInv' /\ active_ws_connections' \in 0..Cardinality(Streams)
<1>1. CountInv'
  <2>1. CASE UNCHANGED <<ws, active_ws_connections>>
    <3>1. OpenStreams' = OpenStreams
      BY <2>1 DEF OpenStreams
    <3> QED
      BY <2>1, <3>1 DEF CountInv
  <2>2. ASSUME NEW s \in Streams, Established(s) PROVE CountInv'
    <3>1. s \notin OpenStreams /\ OpenStreams' = OpenStreams \cup {s}
      BY <2>2 DEF Established, OpenStreams, TypeOK
    <3>2. Cardinality(OpenStreams') = Cardinality(OpenStreams) + 1
      BY <3>1, CountFacts, FS_AddElement
    <3> QED
      BY <2>2, <3>2 DEF Established, CountStream, CountInv
  <2>3. ASSUME NEW s \in Streams, Closed(s) PROVE CountInv'
    <3>1. s \in OpenStreams /\ OpenStreams' = OpenStreams \ {s}
      BY <2>3 DEF Closed, OpenStreams, TypeOK
    <3>2. Cardinality(OpenStreams') = Cardinality(OpenStreams) - 1
      BY <3>1, CountFacts, FS_RemoveElement
    <3> QED
      BY <2>3, <3>2 DEF Closed, CountInv
  <2>4. CASE Ends
    <3>1. OpenStreams' = {}
      BY <2>4 DEF Ends, OpenStreams
    <3> QED
      BY <2>4, <3>1, FS_EmptySet DEF Ends, CountInv
  <2> QED
    BY <2>1, <2>2, <2>3, <2>4, StreamMoves DEF vars, webVars, peerVars
<1>2. OpenStreams' \subseteq Streams
  BY DEF OpenStreams
<1>3. Cardinality(OpenStreams') \in 0..Cardinality(Streams)
  BY <1>2, CountFacts, FS_Subset, FS_CardinalityType
<1> QED
  BY <1>1, <1>3 DEF CountInv

\* When the count comes to 0, or a stream ends with the count above 0.
LEMMA LastStream ==
  ASSUME TypeOK, CountInv, [Next]_vars
  PROVE  active_ws_connections' = 0 <=> \A s \in Streams : ws'[s] # "open"
<1>1. CountInv' /\ OpenStreams' \subseteq Streams
  BY StepCount DEF OpenStreams
<1>2. IsFiniteSet(OpenStreams')
  BY <1>1, CountFacts, FS_Subset
<1>3. Cardinality(OpenStreams') = 0 <=> OpenStreams' = {}
  BY <1>2, FS_EmptySet
<1> QED
  BY <1>1, <1>3 DEF CountInv, OpenStreams

-----------------------------------------------------------------------------
(* The daemon's line: who is served and who waits.                         *)

\* One element before a sequence.
LEMMA Prepended ==
  ASSUME NEW S, NEW e \in S, NEW s \in Seq(S)
  PROVE  /\ <<e>> \o s \in Seq(S)
         /\ Len(<<e>> \o s) = Len(s) + 1
         /\ (<<e>> \o s)[1] = e
         /\ \A i \in 1..Len(s) : (<<e>> \o s)[i + 1] = s[i]
<1>1. <<e>> \in Seq(S) /\ Len(<<e>>) = 1 /\ <<e>>[1] = e
  OBVIOUS
<1>2. Len(s) \in Nat
  BY LenProperties
<1>3. /\ <<e>> \o s \in Seq(S)
      /\ Len(<<e>> \o s) = 1 + Len(s)
      /\ \A i \in 1..(1 + Len(s)) :
           (<<e>> \o s)[i] = IF i <= 1 THEN <<e>>[i] ELSE s[i - 1]
  BY <1>1, ConcatProperties
<1> QED
  BY <1>1, <1>2, <1>3

\* A sequence of one element.
LEMMA One ==
  ASSUME NEW S, NEW s \in Seq(S), Len(s) = 1
  PROVE  /\ s # <<>> /\ Head(s) = s[1] /\ s[1] \in S /\ DOMAIN s = {1}
         /\ Tail(s) = <<>>
<1>1. s # <<>> /\ DOMAIN s = 1..1
  BY EmptySeq, LenProperties
<1>2. Tail(s) \in Seq(S) /\ Len(Tail(s)) = 0
  BY <1>1, HeadTailProperties
<1>3. Tail(s) = <<>>
  BY <1>2, EmptySeq
<1>4. Head(s) = s[1] /\ s[1] \in S
  BY <1>1, ElementOfSeq
<1> QED
  BY <1>1, <1>3, <1>4

LEMMA LinedFacts ==
  ASSUME TypeOK
  PROVE  /\ Lined \in Seq(Conns) /\ Len(Lined) \in Nat
         /\ DOMAIN Lined = 1..Len(Lined)
         /\ \A i \in DOMAIN Lined : Lined[i] \in Conns
<1>1. Lined \in Seq(Conns)
  BY Prepended DEF TypeOK, Lined
<1> QED
  BY <1>1, LenProperties, ElementOfSeq

\* A newcomer stands behind all the others.
LEMMA Joins ==
  ASSUME TypeOK, NEW c \in Conns, backlog' = Append(backlog, c),
         session' = session
  PROVE  /\ Lined' \in Seq(Conns) /\ Len(Lined') = Len(Lined) + 1
         /\ DOMAIN Lined' = 1..(Len(Lined) + 1)
         /\ \A i \in DOMAIN Lined : Lined'[i] = Lined[i]
         /\ Lined'[Len(Lined) + 1] = c
<1>1. Lined' = Append(Lined, c)
  <2>1. CASE session = NoConn
    BY <2>1 DEF Lined
  <2>2. CASE session # NoConn
    <3>1. session \in Conns /\ backlog \in Seq(Conns)
      BY <2>2 DEF TypeOK
    <3>2. <<session>> \in Seq(Conns) /\ <<c>> \in Seq(Conns)
      BY <3>1
    <3>3. <<session>> \o backlog \in Seq(Conns)
      BY <3>1, <3>2, ConcatProperties
    <3>4. Append(backlog, c) = backlog \o <<c>>
      BY <3>1, AppendIsConcat
    <3>5. Append(<<session>> \o backlog, c) = (<<session>> \o backlog) \o <<c>>
      BY <3>3, AppendIsConcat
    <3>6. (<<session>> \o backlog) \o <<c>> = <<session>> \o (backlog \o <<c>>)
      BY <3>1, <3>2, ConcatAssociative
    <3> QED
      BY <2>2, <3>4, <3>5, <3>6 DEF Lined
  <2> QED
    BY <2>1, <2>2
<1>2. Lined \in Seq(Conns) /\ DOMAIN Lined = 1..Len(Lined)
  BY LinedFacts
<1>3. /\ Lined' \in Seq(Conns) /\ Len(Lined') = Len(Lined) + 1
      /\ \A i \in 1..Len(Lined) : Lined'[i] = Lined[i]
      /\ Lined'[Len(Lined) + 1] = c
  BY <1>1, <1>2, AppendProperties
<1>4. DOMAIN Lined' = 1..(Len(Lined) + 1)
  BY <1>3, LenProperties
<1> QED
  BY <1>2, <1>3, <1>4

\* The first is accepted: the line stays.
LEMMA Accepted == ASSUME TypeOK, DaemonAccept PROVE Lined' = Lined
<1>1. /\ session = NoConn /\ backlog # <<>> /\ backlog \in Seq(Conns)
      /\ session' = Head(backlog) /\ backlog' = Tail(backlog)
  BY DEF DaemonAccept, TypeOK
<1>2. Len(backlog) \in Nat \ {0} /\ Head(backlog) = backlog[1]
  BY <1>1, EmptySeq
<1>3. /\ Head(backlog) \in Conns /\ Tail(backlog) \in Seq(Conns)
      /\ Len(Tail(backlog)) = Len(backlog) - 1
      /\ \A i \in 1..(Len(backlog) - 1) : Tail(backlog)[i] = backlog[i + 1]
  BY <1>1, HeadTailProperties
<1>4. session' # NoConn
  BY <1>1, <1>3
<1> DEFINE h == Head(backlog)
           t == Tail(backlog)
<1>5. h \in Conns /\ t \in Seq(Conns) /\ Len(t) = Len(backlog) - 1
  BY <1>3
<1> HIDE DEF h, t
<1>6. /\ <<h>> \o t \in Seq(Conns)
      /\ Len(<<h>> \o t) = Len(backlog)
      /\ (<<h>> \o t)[1] = h
      /\ \A i \in 1..(Len(backlog) - 1) : (<<h>> \o t)[i + 1] = t[i]
  BY <1>2, <1>5, Prepended
<1>7. ASSUME NEW i \in 1..Len(backlog) PROVE (<<h>> \o t)[i] = backlog[i]
  <2>1. CASE i = 1
    BY <1>2, <1>6, <2>1 DEF h
  <2>2. CASE i # 1
    <3>1. i - 1 \in 1..(Len(backlog) - 1) /\ (i - 1) + 1 = i
      BY <1>2, <2>2
    <3> QED
      BY <1>3, <1>6, <3>1 DEF t
  <2> QED
    BY <2>1, <2>2
<1>8. <<h>> \o t = backlog
  BY <1>1, <1>6, <1>7, SeqEqual
<1> QED
  BY <1>1, <1>4, <1>8 DEF Lined, h, t

\* The first leaves: the others move up.
LEMMA MovesUp ==
  ASSUME TypeOK, session # NoConn, session' = NoConn, backlog' = backlog
  PROVE  /\ 1 \in DOMAIN Lined /\ Lined[1] = session
         /\ DOMAIN Lined' = 1..(Len(Lined) - 1)
         /\ \A i \in DOMAIN Lined' : i + 1 \in DOMAIN Lined /\ Lined'[i] = Lined[i + 1]
         /\ \A i \in DOMAIN Lined : i # 1 => i - 1 \in DOMAIN Lined'
<1>1. Lined = <<session>> \o backlog /\ Lined' = backlog
  BY DEF Lined
<1>2. session \in Conns /\ backlog \in Seq(Conns)
  BY DEF TypeOK
<1>3. /\ Len(Lined) = Len(backlog) + 1 /\ Lined[1] = session
      /\ \A i \in 1..Len(backlog) : Lined[i + 1] = backlog[i]
  BY <1>1, <1>2, Prepended
<1>4. Len(backlog) \in Nat /\ DOMAIN backlog = 1..Len(backlog)
  BY <1>2, LenProperties
<1>5. DOMAIN Lined = 1..(Len(backlog) + 1)
  BY <1>3, LinedFacts
<1> QED
  BY <1>1, <1>3, <1>4, <1>5

-----------------------------------------------------------------------------
(* Types, and what the callback in progress is for.                        *)

LEMMA StepTypes ==
  ASSUME TypeOK, SessionInv, LoopInv, BufferInv, CountInv, [Next]_vars
  PROVE  TypeOK'
<1>0. active_ws_connections' \in 0..Cardinality(Streams)
  BY StepCount
<1> USE DEF Sessions, Conns
<1>1. ASSUME NEW s \in Streams, Established(s) PROVE TypeOK'
  BY <1>1, <1>0 DEF TypeOK, Established, ConnectFor, MustConnect, Connected,
     webVars, bufferVars, loopVars, peerVars, daemonVars
<1>2. ASSUME NEW s \in Streams, Receive(s) PROVE TypeOK'
  <2>1. brought' \in Chunk /\ <<brought'>> \in Seq(Chunk)
    BY <1>2 DEF TypeOK, Receive, Brings, Chunk
  <2>2. /\ out' \in Seq(Chunk) /\ serving' \in Sessions \cup {NoConn}
        /\ pc' \in {"service", "connect", "write", "sleep", "ended"}
    BY <1>2, <2>1 DEF TypeOK, Receive, loopVars
  <2>3. brought' \in 0..Chunks
    BY <2>1 DEF Chunk
  <2> QED
    BY <1>2, <1>0, <2>2, <2>3 DEF TypeOK, Receive, bufferVars, daemonVars
<1>3. ASSUME NEW s \in Streams, Closed(s) PROVE TypeOK'
  BY <1>3, <1>0 DEF TypeOK, Closed, CloseConnection, Connected, webVars,
     bufferVars, loopVars, peerVars, daemonVars
<1>4. ASSUME NEW u \in Uploads, HttpRequest(u) PROVE TypeOK'
  BY <1>4, <1>0 DEF TypeOK, HttpRequest, ConnectFor, MustConnect, Connected,
     webVars, bufferVars, loopVars, peerVars, daemonVars
<1>5. ASSUME NEW u \in Uploads, HttpRefused(u) PROVE TypeOK'
  BY <1>5, <1>0 DEF TypeOK, HttpRefused, webVars, bufferVars, loopVars,
     peerVars, daemonVars
<1>6. ASSUME NEW u \in Uploads, HttpBodyDropped(u) PROVE TypeOK'
  BY <1>6, <1>0 DEF TypeOK, HttpBodyDropped, Brings, Connected, webVars,
     bufferVars, loopVars, peerVars, daemonVars
<1>7. ASSUME NEW u \in Uploads, HttpCompletion(u) PROVE TypeOK'
  BY <1>7, <1>0 DEF TypeOK, HttpCompletion, webVars, bufferVars, loopVars,
     peerVars, daemonVars
<1>8. ASSUME NEW u \in Uploads, HttpGone(u) PROVE TypeOK'
  BY <1>8, <1>0 DEF TypeOK, HttpGone, webVars, bufferVars, loopVars,
     peerVars, daemonVars
<1>9. ASSUME NEW u \in Uploads, NEW len \in Lengths, HttpBody(u, len)
      PROVE  TypeOK'
  <2>1. brought' \in Chunk /\ audio_buffer' \in Seq(Chunk)
    BY <1>9, AppendProperties DEF TypeOK, HttpBody, Brings, Chunk
  <2>2. audio_buffer_len = 0
    BY <1>9 DEF BufferInv, HttpBody
  <2>3. /\ audio_buffer_size' \in Lengths
        /\ audio_buffer_len' \in 0..audio_buffer_size'
    BY <1>9, <2>2 DEF TypeOK, HttpBody, MustGrow, Lengths
  <2> QED
    BY <1>9, <1>0, <2>1, <2>3 DEF TypeOK, HttpBody, Chunk, daemonVars
<1>10. ASSUME NEW u \in Uploads, NEW len \in Lengths, HttpBodyNoMemory(u, len)
      PROVE  TypeOK'
  <2>1. audio_buffer_len = 0
    BY <1>10 DEF BufferInv, HttpBodyNoMemory
  <2>2. /\ audio_buffer_size' \in Lengths
        /\ audio_buffer_len' \in 0..audio_buffer_size'
    BY <1>10, <2>1 DEF TypeOK, HttpBodyNoMemory, MustGrow, Lengths
  <2>3. brought' \in 0..Chunks
    BY <1>10 DEF TypeOK, HttpBodyNoMemory, Brings
  <2>4. up' \in [Uploads -> {"new", "open", "aborted", "over"}]
    BY <1>10 DEF TypeOK, HttpBodyNoMemory
  <2> QED
    BY <1>10, <1>0, <2>2, <2>3, <2>4 DEF TypeOK, HttpBodyNoMemory, loopVars,
       daemonVars
<1>11. ASSUME NEW u \in Uploads, NEW len \in Lengths, HttpBodyCrash(u, len)
      PROVE  TypeOK'
  <2>1. <<>> \in Seq(Chunk) /\ 1 \in Lengths
    BY EmptySeq DEF Lengths
  <2>2. Ends
    BY <1>11 DEF HttpBodyCrash
  <2>3. end' \in [Conns -> {"none", "open", "closed"}]
    BY <2>2 DEF TypeOK, Ends
  <2>4. /\ ws' \in [Streams -> {"new", "open", "over"}]
        /\ up' \in [Uploads -> {"new", "open", "aborted", "over"}]
    BY <2>2 DEF TypeOK, Ends
  <2>5. /\ audio_buffer' \in Seq(Chunk) /\ out' \in Seq(Chunk)
        /\ audio_buffer_len' = 0 /\ audio_buffer_size' = 1
    BY <2>1, <2>2 DEF Ends, ResetLength
  <2>6. /\ audio_buffer_size' \in Lengths
        /\ audio_buffer_len' \in 0..audio_buffer_size'
    BY <2>1, <2>5
  <2> QED
    BY <1>0, <2>2, <2>3, <2>4, <2>5, <2>6 DEF TypeOK, Ends, daemonVars
<1>12. CASE Connect
  <2>1. serving \in Sessions /\ backlog' \in Seq(Conns)
    BY <1>12, AppendProperties DEF TypeOK, LoopInv, Connect
  <2> QED
    BY <1>12, <1>0, <2>1 DEF TypeOK, Connect, Return, bufferVars, peerVars
<1>13. CASE HttpClose
  BY <1>13, <1>0 DEF TypeOK, HttpClose, Return, CloseConnection, Connected,
     webVars, bufferVars, loopVars, peerVars, daemonVars
<1>14. CASE Write
  <2>0. <<>> \in Seq(Chunk) /\ 0 \in 0..audio_buffer_size
    BY EmptySeq DEF TypeOK, Lengths
  <2>1. Len(out) = 1 /\ daemon_sockfd \in Conns
    BY <1>14 DEF TypeOK, LoopInv, BufferInv, Write, Connected
  <2>2. Head(out) \in Chunk /\ out' \in Seq(Chunk)
    BY <1>14, <2>0, <2>1, One DEF TypeOK, Write
  <2>3. Append(sock[daemon_sockfd], Head(out)) \in Seq(Chunk)
    BY <2>1, <2>2, AppendProperties DEF TypeOK
  <2>4. /\ audio_buffer' \in Seq(Chunk)
        /\ audio_buffer_len' \in 0..audio_buffer_size
    BY <1>14, <2>0 DEF TypeOK, Write, WriteReturns, ResetLength, Lengths
  <2> QED
    BY <1>14, <1>0, <2>1, <2>2, <2>3, <2>4 DEF TypeOK, Write, WriteReturns,
       Return, peerVars, daemonVars
<1>15. CASE WriteFails
  <2>0. <<>> \in Seq(Chunk) /\ 0 \in 0..audio_buffer_size
    BY EmptySeq DEF TypeOK, Lengths
  <2>1. /\ audio_buffer' \in Seq(Chunk)
        /\ audio_buffer_len' \in 0..audio_buffer_size
    BY <1>15, <2>0 DEF TypeOK, WriteFails, WriteReturns, ResetLength, Lengths
  <2>2. out' \in Seq(Chunk)
    BY <1>15, <2>0 DEF WriteFails
  <2> QED
    BY <1>15, <1>0, <2>1, <2>2 DEF TypeOK, WriteFails, WriteReturns, Return,
       peerVars, daemonVars
<1>16. CASE ConnectFails
  BY <1>16, <1>0 DEF TypeOK, ConnectFails, Return, webVars, bufferVars,
     loopVars, peerVars, daemonVars
<1>17. CASE HandleSigint
  <2>1. <<>> \in Seq(Chunk) /\ 1 \in Lengths
    BY EmptySeq DEF Lengths
  <2>2. Ends
    BY <1>17 DEF HandleSigint
  <2>3. end' \in [Conns -> {"none", "open", "closed"}]
    BY <2>2 DEF TypeOK, Ends
  <2>4. /\ ws' \in [Streams -> {"new", "open", "over"}]
        /\ up' \in [Uploads -> {"new", "open", "aborted", "over"}]
    BY <2>2 DEF TypeOK, Ends
  <2>5. /\ audio_buffer' \in Seq(Chunk) /\ out' \in Seq(Chunk)
        /\ audio_buffer_len' = 0 /\ audio_buffer_size' = 1
    BY <2>1, <2>2 DEF Ends, ResetLength
  <2>6. /\ audio_buffer_size' \in Lengths
        /\ audio_buffer_len' \in 0..audio_buffer_size'
    BY <2>1, <2>5
  <2> QED
    BY <1>0, <2>2, <2>3, <2>4, <2>5, <2>6 DEF TypeOK, Ends, daemonVars
<1>18. ASSUME NEW l \in Locals, LocalConnect(l) PROVE TypeOK'
  <2>1. backlog' \in Seq(Conns)
    BY <1>18, AppendProperties DEF TypeOK, LocalConnect
  <2> QED
    BY <1>18, <1>0, <2>1 DEF TypeOK, LocalConnect, webVars, bufferVars,
       loopVars, peerVars
<1>19. ASSUME NEW l \in Locals, LocalClose(l) PROVE TypeOK'
  BY <1>19, <1>0 DEF TypeOK, LocalClose, webVars, bufferVars, loopVars,
     peerVars, daemonVars
<1>20. CASE DaemonAccept
  <2>1. session' \in Conns /\ backlog' \in Seq(Conns)
    BY <1>20, HeadTailProperties DEF TypeOK, DaemonAccept
  <2> QED
    BY <1>20, <1>0, <2>1 DEF TypeOK, DaemonAccept, DaemonUnchanged, webVars,
       bufferVars, loopVars, peerVars
<1>21. CASE DaemonRecv
  <2>1. sock[session] \in Seq(Chunk) /\ sock[session] # <<>>
    BY <1>21 DEF TypeOK, DaemonRecv
  <2>2. Tail(sock[session]) \in Seq(Chunk)
    BY <2>1, HeadTailProperties
  <2> QED
    BY <1>21, <1>0, <2>2 DEF TypeOK, DaemonRecv, DaemonUnchanged, webVars,
       bufferVars, loopVars, peerVars
<1>22. CASE DaemonHangup
  BY <1>22, <1>0 DEF TypeOK, DaemonHangup, DaemonUnchanged, webVars,
     bufferVars, loopVars, peerVars, daemonVars
<1>23. CASE DaemonRestart
  <2>1. backlog' \in Seq(Conns) /\ sock' \in [Conns -> Seq(Chunk)]
    BY <1>23, EmptySeq DEF DaemonRestart
  <2> QED
    BY <1>23, <1>0, <2>1 DEF TypeOK, DaemonRestart, DaemonUnchanged, webVars,
       bufferVars, loopVars, peerVars
<1>24. CASE UNCHANGED vars
  BY <1>24, <1>0 DEF TypeOK, vars, webVars, bufferVars, loopVars, peerVars,
     daemonVars
<1> QED
  BY <1>1, <1>2, <1>3, <1>4, <1>5, <1>6, <1>7, <1>8, <1>9, <1>10, <1>11,
     <1>12, <1>13, <1>14, <1>15, <1>16, <1>17, <1>18, <1>19, <1>20, <1>21,
     <1>22, <1>23, <1>24
  DEF Next, Callback, LoopAdvance, DaemonAdvance

LEMMA StepSession ==
  ASSUME TypeOK, SessionInv, LoopInv, PlaceInv, [Next]_vars PROVE SessionInv'
<1> USE DEF Sessions, Conns, Open, Connected, PlaceInv
<1>1. ASSUME NEW s \in Streams, Established(s) PROVE SessionInv'
  BY <1>1 DEF SessionInv, TypeOK, Established, ConnectFor, MustConnect,
     Connected, webVars, bufferVars, loopVars, peerVars, daemonVars
<1>2. ASSUME NEW s \in Streams, Receive(s) PROVE SessionInv'
  BY <1>2 DEF SessionInv, TypeOK, Receive, Brings, Connected, webVars,
     bufferVars, loopVars, peerVars, daemonVars
<1>3. ASSUME NEW s \in Streams, Closed(s) PROVE SessionInv'
  BY <1>3 DEF SessionInv, TypeOK, Closed, CloseConnection, Connected,
     webVars, bufferVars, loopVars, peerVars, daemonVars
<1>4. ASSUME NEW u \in Uploads, HttpRequest(u) PROVE SessionInv'
  BY <1>4 DEF SessionInv, TypeOK, HttpRequest, ConnectFor, MustConnect,
     Connected, webVars, bufferVars, loopVars, peerVars, daemonVars
<1>5. ASSUME NEW u \in Uploads, HttpRefused(u) PROVE SessionInv'
  BY <1>5 DEF SessionInv, TypeOK, HttpRefused, webVars, bufferVars, loopVars,
     peerVars, daemonVars
<1>6. ASSUME NEW u \in Uploads, HttpBodyDropped(u) PROVE SessionInv'
  BY <1>6 DEF SessionInv, TypeOK, HttpBodyDropped, Brings, Connected,
     webVars, bufferVars, loopVars, peerVars, daemonVars
<1>7. ASSUME NEW u \in Uploads, HttpCompletion(u) PROVE SessionInv'
  BY <1>7 DEF SessionInv, TypeOK, HttpCompletion, webVars, bufferVars,
     loopVars, peerVars, daemonVars
<1>8. ASSUME NEW u \in Uploads, HttpGone(u) PROVE SessionInv'
  BY <1>8 DEF SessionInv, TypeOK, HttpGone, webVars, bufferVars, loopVars,
     peerVars, daemonVars
<1>9. ASSUME NEW u \in Uploads, NEW len \in Lengths, HttpBody(u, len)
      PROVE  SessionInv'
  BY <1>9 DEF SessionInv, TypeOK, HttpBody, Brings, MustGrow, Connected,
     webVars, bufferVars, loopVars, peerVars, daemonVars
<1>10. ASSUME NEW u \in Uploads, NEW len \in Lengths, HttpBodyNoMemory(u, len)
      PROVE  SessionInv'
  BY <1>10 DEF SessionInv, TypeOK, HttpBodyNoMemory, Brings, MustGrow,
     Connected, webVars, bufferVars, loopVars, peerVars, daemonVars
<1>11. ASSUME NEW u \in Uploads, NEW len \in Lengths, HttpBodyCrash(u, len)
      PROVE  SessionInv'
  BY <1>11 DEF SessionInv, TypeOK, HttpBodyCrash, Ends, ResetLength,
     Connected, webVars, bufferVars, loopVars, peerVars, daemonVars
<1>12. CASE Connect
  <2>1. serving \in Sessions /\ Open(serving)
    BY <1>12 DEF Connect, LoopInv
  <2>2. /\ end' = [end EXCEPT ![serving] = "open"] /\ ws' = ws /\ up' = up
    BY <1>12 DEF Connect, peerVars
  <2>3. ASSUME NEW s \in Streams, ws'[s] = "new" PROVE end'[s] = "none"
    BY <2>1, <2>2, <2>3 DEF SessionInv, TypeOK
  <2>4. ASSUME NEW u \in Uploads, up'[u] = "new" PROVE end'[u] = "none"
    BY <2>1, <2>2, <2>4 DEF SessionInv, TypeOK
  <2> QED
    BY <2>3, <2>4 DEF SessionInv
<1>13. CASE HttpClose
  BY <1>13 DEF SessionInv, TypeOK, HttpClose, Return, CloseConnection,
     Connected, webVars, bufferVars, loopVars, peerVars, daemonVars
<1>14. CASE Write
  BY <1>14 DEF SessionInv, TypeOK, Write, WriteReturns, Return, ResetLength,
     webVars, bufferVars, loopVars, peerVars, daemonVars
<1>15. CASE WriteFails
  BY <1>15 DEF SessionInv, TypeOK, WriteFails, WriteReturns, Return,
     ResetLength, webVars, bufferVars, loopVars, peerVars, daemonVars
<1>16. CASE ConnectFails
  BY <1>16 DEF SessionInv, TypeOK, ConnectFails, Return, webVars, bufferVars,
     loopVars, peerVars, daemonVars
<1>17. CASE HandleSigint
  BY <1>17 DEF SessionInv, TypeOK, HandleSigint, Ends, ResetLength, webVars,
     bufferVars, loopVars, peerVars, daemonVars
<1>18. ASSUME NEW l \in Locals, LocalConnect(l) PROVE SessionInv'
  BY <1>18 DEF SessionInv, TypeOK, LocalConnect, webVars, bufferVars,
     loopVars, peerVars, daemonVars
<1>19. ASSUME NEW l \in Locals, LocalClose(l) PROVE SessionInv'
  BY <1>19 DEF SessionInv, TypeOK, LocalClose, webVars, bufferVars, loopVars,
     peerVars, daemonVars
<1>20. CASE DaemonAccept
  BY <1>20 DEF SessionInv, TypeOK, DaemonAccept, DaemonUnchanged, webVars,
     bufferVars, loopVars, peerVars, daemonVars
<1>21. CASE DaemonRecv
  BY <1>21 DEF SessionInv, TypeOK, DaemonRecv, DaemonUnchanged, webVars,
     bufferVars, loopVars, peerVars, daemonVars
<1>22. CASE DaemonHangup
  BY <1>22 DEF SessionInv, TypeOK, DaemonHangup, DaemonUnchanged, webVars,
     bufferVars, loopVars, peerVars, daemonVars
<1>23. CASE DaemonRestart
  BY <1>23 DEF SessionInv, TypeOK, DaemonRestart, DaemonUnchanged, webVars,
     bufferVars, loopVars, peerVars, daemonVars
<1>24. CASE UNCHANGED vars
  BY <1>24 DEF SessionInv, TypeOK, vars, webVars, bufferVars, loopVars,
     peerVars, daemonVars
<1> QED
  BY <1>1, <1>2, <1>3, <1>4, <1>5, <1>6, <1>7, <1>8, <1>9, <1>10, <1>11,
     <1>12, <1>13, <1>14, <1>15, <1>16, <1>17, <1>18, <1>19, <1>20, <1>21,
     <1>22, <1>23, <1>24
  DEF Next, Callback, LoopAdvance, DaemonAdvance

LEMMA StepLoop ==
  ASSUME TypeOK, SessionInv, LoopInv, [Next]_vars PROVE LoopInv'
<1> USE DEF Sessions, Conns, SessionInv, Open
<1>1. ASSUME NEW s \in Streams, Established(s) PROVE LoopInv'
  BY <1>1 DEF LoopInv, TypeOK, Connected, Established, ConnectFor,
     MustConnect, Connected, webVars, bufferVars, loopVars, peerVars,
     daemonVars
<1>2. ASSUME NEW s \in Streams, Receive(s) PROVE LoopInv'
  BY <1>2 DEF LoopInv, TypeOK, Connected, Receive, Brings, Connected,
     webVars, bufferVars, loopVars, peerVars, daemonVars
<1>3. ASSUME NEW s \in Streams, Closed(s) PROVE LoopInv'
  BY <1>3 DEF LoopInv, TypeOK, Connected, Closed, CloseConnection, Connected,
     webVars, bufferVars, loopVars, peerVars, daemonVars
<1>4. ASSUME NEW u \in Uploads, HttpRequest(u) PROVE LoopInv'
  BY <1>4 DEF LoopInv, TypeOK, Connected, HttpRequest, ConnectFor,
     MustConnect, Connected, webVars, bufferVars, loopVars, peerVars,
     daemonVars
<1>5. ASSUME NEW u \in Uploads, HttpRefused(u) PROVE LoopInv'
  BY <1>5 DEF LoopInv, TypeOK, Connected, HttpRefused, webVars, bufferVars,
     loopVars, peerVars, daemonVars
<1>6. ASSUME NEW u \in Uploads, HttpBodyDropped(u) PROVE LoopInv'
  BY <1>6 DEF LoopInv, TypeOK, Connected, HttpBodyDropped, Brings, Connected,
     webVars, bufferVars, loopVars, peerVars, daemonVars
<1>7. ASSUME NEW u \in Uploads, HttpCompletion(u) PROVE LoopInv'
  BY <1>7 DEF LoopInv, TypeOK, Connected, HttpCompletion, webVars,
     bufferVars, loopVars, peerVars, daemonVars
<1>8. ASSUME NEW u \in Uploads, HttpGone(u) PROVE LoopInv'
  BY <1>8 DEF LoopInv, TypeOK, Connected, HttpGone, webVars, bufferVars,
     loopVars, peerVars, daemonVars
<1>9. ASSUME NEW u \in Uploads, NEW len \in Lengths, HttpBody(u, len)
      PROVE  LoopInv'
  BY <1>9 DEF LoopInv, TypeOK, Connected, HttpBody, Brings, MustGrow,
     Connected, webVars, bufferVars, loopVars, peerVars, daemonVars
<1>10. ASSUME NEW u \in Uploads, NEW len \in Lengths, HttpBodyNoMemory(u, len)
      PROVE  LoopInv'
  BY <1>10 DEF LoopInv, TypeOK, Connected, HttpBodyNoMemory, Brings,
     MustGrow, Connected, webVars, bufferVars, loopVars, peerVars, daemonVars
<1>11. ASSUME NEW u \in Uploads, NEW len \in Lengths, HttpBodyCrash(u, len)
      PROVE  LoopInv'
  BY <1>11 DEF LoopInv, TypeOK, Connected, HttpBodyCrash, Ends, ResetLength,
     Connected, webVars, bufferVars, loopVars, peerVars, daemonVars
<1>12. CASE Connect
  BY <1>12 DEF LoopInv, TypeOK, Connected, Connect, Return, webVars,
     bufferVars, loopVars, peerVars, daemonVars
<1>13. CASE HttpClose
  BY <1>13 DEF LoopInv, TypeOK, Connected, HttpClose, Return,
     CloseConnection, Connected, webVars, bufferVars, loopVars, peerVars,
     daemonVars
<1>14. CASE Write
  BY <1>14 DEF LoopInv, TypeOK, Connected, Write, WriteReturns, Return,
     ResetLength, webVars, bufferVars, loopVars, peerVars, daemonVars
<1>15. CASE WriteFails
  BY <1>15 DEF LoopInv, TypeOK, Connected, WriteFails, WriteReturns, Return,
     ResetLength, webVars, bufferVars, loopVars, peerVars, daemonVars
<1>16. CASE ConnectFails
  BY <1>16 DEF LoopInv, TypeOK, Connected, ConnectFails, Return, webVars,
     bufferVars, loopVars, peerVars, daemonVars
<1>17. CASE HandleSigint
  BY <1>17 DEF LoopInv, TypeOK, Connected, HandleSigint, Ends, ResetLength,
     webVars, bufferVars, loopVars, peerVars, daemonVars
<1>18. ASSUME NEW l \in Locals, LocalConnect(l) PROVE LoopInv'
  BY <1>18 DEF LoopInv, TypeOK, Connected, LocalConnect, webVars, bufferVars,
     loopVars, peerVars, daemonVars
<1>19. ASSUME NEW l \in Locals, LocalClose(l) PROVE LoopInv'
  BY <1>19 DEF LoopInv, TypeOK, Connected, LocalClose, webVars, bufferVars,
     loopVars, peerVars, daemonVars
<1>20. CASE DaemonAccept
  BY <1>20 DEF LoopInv, TypeOK, Connected, DaemonAccept, DaemonUnchanged,
     webVars, bufferVars, loopVars, peerVars, daemonVars
<1>21. CASE DaemonRecv
  BY <1>21 DEF LoopInv, TypeOK, Connected, DaemonRecv, DaemonUnchanged,
     webVars, bufferVars, loopVars, peerVars, daemonVars
<1>22. CASE DaemonHangup
  BY <1>22 DEF LoopInv, TypeOK, Connected, DaemonHangup, DaemonUnchanged,
     webVars, bufferVars, loopVars, peerVars, daemonVars
<1>23. CASE DaemonRestart
  BY <1>23 DEF LoopInv, TypeOK, Connected, DaemonRestart, DaemonUnchanged,
     webVars, bufferVars, loopVars, peerVars, daemonVars
<1>24. CASE UNCHANGED vars
  BY <1>24 DEF LoopInv, TypeOK, Connected, vars, webVars, bufferVars,
     loopVars, peerVars, daemonVars
<1> QED
  BY <1>1, <1>2, <1>3, <1>4, <1>5, <1>6, <1>7, <1>8, <1>9, <1>10, <1>11,
     <1>12, <1>13, <1>14, <1>15, <1>16, <1>17, <1>18, <1>19, <1>20, <1>21,
     <1>22, <1>23, <1>24
  DEF Next, Callback, LoopAdvance, DaemonAdvance

LEMMA StepBuffer ==
  ASSUME TypeOK, LoopInv, BufferInv, [Next]_vars PROVE BufferInv'
<1>1. ASSUME NEW s \in Streams, Established(s) PROVE BufferInv'
  BY <1>1 DEF BufferInv, LoopInv, Established, ConnectFor, MustConnect,
     Connected, webVars, bufferVars, loopVars, peerVars, daemonVars
<1>2. ASSUME NEW s \in Streams, Receive(s) PROVE BufferInv'
  <2>1. s \notin Uploads /\ (out' # out => Len(out') = 1)
    BY <1>2 DEF Receive, loopVars
  <2> QED
    BY <1>2, <2>1 DEF BufferInv, LoopInv, TypeOK, Receive, loopVars,
       bufferVars
<1>3. ASSUME NEW s \in Streams, Closed(s) PROVE BufferInv'
  BY <1>3 DEF BufferInv, LoopInv, Closed, CloseConnection, Connected,
     webVars, bufferVars, loopVars, peerVars, daemonVars
<1>4. ASSUME NEW u \in Uploads, HttpRequest(u) PROVE BufferInv'
  BY <1>4 DEF BufferInv, LoopInv, HttpRequest, ConnectFor, MustConnect,
     Connected, webVars, bufferVars, loopVars, peerVars, daemonVars
<1>5. ASSUME NEW u \in Uploads, HttpRefused(u) PROVE BufferInv'
  BY <1>5 DEF BufferInv, LoopInv, HttpRefused, webVars, bufferVars, loopVars,
     peerVars, daemonVars
<1>6. ASSUME NEW u \in Uploads, HttpBodyDropped(u) PROVE BufferInv'
  BY <1>6 DEF BufferInv, LoopInv, HttpBodyDropped, Brings, Connected,
     webVars, bufferVars, loopVars, peerVars, daemonVars
<1>7. ASSUME NEW u \in Uploads, HttpCompletion(u) PROVE BufferInv'
  BY <1>7 DEF BufferInv, LoopInv, HttpCompletion, webVars, bufferVars,
     loopVars, peerVars, daemonVars
<1>8. ASSUME NEW u \in Uploads, HttpGone(u) PROVE BufferInv'
  BY <1>8 DEF BufferInv, LoopInv, HttpGone, webVars, bufferVars, loopVars,
     peerVars, daemonVars
<1>9. ASSUME NEW u \in Uploads, NEW len \in Lengths, HttpBody(u, len)
      PROVE  BufferInv'
  <2>1. audio_buffer = <<>>
    BY <1>9 DEF BufferInv, HttpBody
  <2>2. Len(audio_buffer') = 1
    BY <1>9, <2>1 DEF HttpBody
  <2> QED
    BY <1>9, <2>2 DEF BufferInv, HttpBody
<1>10. ASSUME NEW u \in Uploads, NEW len \in Lengths, HttpBodyNoMemory(u, len)
      PROVE  BufferInv'
  BY <1>10 DEF BufferInv, LoopInv, HttpBodyNoMemory, Brings, MustGrow,
     Connected, webVars, bufferVars, loopVars, peerVars, daemonVars
<1>11. ASSUME NEW u \in Uploads, NEW len \in Lengths, HttpBodyCrash(u, len)
      PROVE  BufferInv'
  BY <1>11 DEF BufferInv, LoopInv, HttpBodyCrash, Ends, ResetLength,
     Connected, webVars, bufferVars, loopVars, peerVars, daemonVars
<1>12. CASE Connect
  BY <1>12 DEF BufferInv, LoopInv, Connect, Return, webVars, bufferVars,
     loopVars, peerVars, daemonVars
<1>13. CASE HttpClose
  BY <1>13 DEF BufferInv, LoopInv, HttpClose, Return, CloseConnection,
     Connected, webVars, bufferVars, loopVars, peerVars, daemonVars
<1>14. CASE Write
  <2>1. Len(out) = 1 /\ out \in Seq(Chunk)
    BY <1>14 DEF BufferInv, Write, TypeOK
  <2>2. Tail(out) = <<>>
    BY <2>1, One
  <2>3. out' = <<>> /\ pc' = "service"
    BY <1>14, <2>1, <2>2 DEF Write, WriteReturns, Return
  <2> QED
    BY <1>14, <2>1, <2>3 DEF BufferInv, Write, WriteReturns, Return,
       ResetLength
<1>15. CASE WriteFails
  BY <1>15 DEF BufferInv, LoopInv, WriteFails, WriteReturns, Return,
     ResetLength, webVars, bufferVars, loopVars, peerVars, daemonVars
<1>16. CASE ConnectFails
  BY <1>16 DEF BufferInv, LoopInv, ConnectFails, Return, webVars, bufferVars,
     loopVars, peerVars, daemonVars
<1>17. CASE HandleSigint
  BY <1>17 DEF BufferInv, LoopInv, HandleSigint, Ends, ResetLength, webVars,
     bufferVars, loopVars, peerVars, daemonVars
<1>18. ASSUME NEW l \in Locals, LocalConnect(l) PROVE BufferInv'
  BY <1>18 DEF BufferInv, LoopInv, LocalConnect, webVars, bufferVars,
     loopVars, peerVars, daemonVars
<1>19. ASSUME NEW l \in Locals, LocalClose(l) PROVE BufferInv'
  BY <1>19 DEF BufferInv, LoopInv, LocalClose, webVars, bufferVars, loopVars,
     peerVars, daemonVars
<1>20. CASE DaemonAccept
  BY <1>20 DEF BufferInv, LoopInv, DaemonAccept, DaemonUnchanged, webVars,
     bufferVars, loopVars, peerVars, daemonVars
<1>21. CASE DaemonRecv
  BY <1>21 DEF BufferInv, LoopInv, DaemonRecv, DaemonUnchanged, webVars,
     bufferVars, loopVars, peerVars, daemonVars
<1>22. CASE DaemonHangup
  BY <1>22 DEF BufferInv, LoopInv, DaemonHangup, DaemonUnchanged, webVars,
     bufferVars, loopVars, peerVars, daemonVars
<1>23. CASE DaemonRestart
  BY <1>23 DEF BufferInv, LoopInv, DaemonRestart, DaemonUnchanged, webVars,
     bufferVars, loopVars, peerVars, daemonVars
<1>24. CASE UNCHANGED vars
  BY <1>24 DEF BufferInv, LoopInv, vars, webVars, bufferVars, loopVars,
     peerVars, daemonVars
<1> QED
  BY <1>1, <1>2, <1>3, <1>4, <1>5, <1>6, <1>7, <1>8, <1>9, <1>10, <1>11,
     <1>12, <1>13, <1>14, <1>15, <1>16, <1>17, <1>18, <1>19, <1>20, <1>21,
     <1>22, <1>23, <1>24
  DEF Next, Callback, LoopAdvance, DaemonAdvance
-----------------------------------------------------------------------------
(* What a step does to the daemon's line and to the audio in it.           *)

LineUnchanged == UNCHANGED <<session, backlog, dead, sock>>

\* No connection is opened, and the one in use does not change.
SameEnds ==
  /\ \A c \in Conns : end'[c] = "none" <=> end[c] = "none"
  /\ Connected => end'[daemon_sockfd] = end[daemon_sockfd]

Quiet == /\ LineUnchanged /\ SameEnds /\ daemon_sockfd' = daemon_sockfd
         /\ out' \in {out, <<>>} /\ brought' \in {brought, brought + 1}

BringsOne == /\ LineUnchanged /\ SameEnds /\ daemon_sockfd' = daemon_sockfd
             /\ Connected /\ brought' = brought + 1 /\ out' = <<brought'>>

Drops == /\ LineUnchanged /\ UNCHANGED brought
         /\ \A c \in Conns : end'[c] = "none" <=> end[c] = "none"
         /\ daemon_sockfd' = NoConn /\ out' = <<>>

JoinsLine(c) ==
  /\ c \in Conns /\ end[c] = "none"
  /\ daemon_sockfd' \in {daemon_sockfd, c}
  /\ end' = [end EXCEPT ![c] = "open"]
  /\ backlog' = Append(backlog, c)
  /\ UNCHANGED <<session, dead, sock, out, brought>>

LineMove == \/ Quiet \/ BringsOne \/ Drops \/ Write
            \/ \E c \in Conns : JoinsLine(c)
            \/ DaemonAccept \/ DaemonRecv \/ DaemonHangup \/ DaemonRestart

LEMMA LineMoves ==
  ASSUME TypeOK, LoopInv, BufferInv, PlaceInv, [Next]_vars PROVE LineMove
<1> USE DEF LineMove, LineUnchanged
<1>1. ASSUME NEW s \in Streams, Established(s) PROVE LineMove
  BY <1>1 DEF Quiet, BringsOne, SameEnds, Established, ConnectFor,
     MustConnect, Connected, webVars, bufferVars, loopVars, peerVars,
     daemonVars
<1>2. ASSUME NEW s \in Streams, Receive(s) PROVE LineMove
  BY <1>2 DEF Quiet, BringsOne, SameEnds, Receive, Brings, Connected,
     webVars, bufferVars, loopVars, peerVars, daemonVars
<1>3. ASSUME NEW s \in Streams, Closed(s) PROVE LineMove
  <2>1. out' = <<>>
    BY <1>3 DEF Closed, BufferInv, loopVars
  <2>2. LineUnchanged /\ UNCHANGED brought
    BY <1>3 DEF Closed, peerVars, daemonVars
  <2>3. CASE NoStreamLeft /\ Connected
    <3>1. /\ daemon_sockfd' = NoConn
          /\ end' = [end EXCEPT ![daemon_sockfd] = "closed"]
      BY <1>3, <2>3 DEF Closed, CloseConnection
    <3>2. daemon_sockfd \in Conns /\ end[daemon_sockfd] = "open"
      BY <2>3 DEF TypeOK, PlaceInv, Connected, Conns
    <3>3. \A c \in Conns : end'[c] = "none" <=> end[c] = "none"
      BY <3>1, <3>2 DEF TypeOK
    <3> QED
      BY <2>1, <2>2, <3>1, <3>3 DEF Drops
  <2>4. CASE ~(NoStreamLeft /\ Connected)
    <3>1. UNCHANGED <<daemon_sockfd, end>>
      BY <1>3, <2>4 DEF Closed
    <3> QED
      BY <2>1, <2>2, <3>1 DEF Quiet, SameEnds
  <2> QED
    BY <2>3, <2>4
<1>4. ASSUME NEW u \in Uploads, HttpRequest(u) PROVE LineMove
  BY <1>4 DEF Quiet, BringsOne, SameEnds, HttpRequest, ConnectFor,
     MustConnect, Connected, webVars, bufferVars, loopVars, peerVars,
     daemonVars
<1>5. ASSUME NEW u \in Uploads, HttpRefused(u) PROVE LineMove
  BY <1>5 DEF Quiet, BringsOne, SameEnds, HttpRefused, webVars, bufferVars,
     loopVars, peerVars, daemonVars
<1>6. ASSUME NEW u \in Uploads, HttpBodyDropped(u) PROVE LineMove
  BY <1>6 DEF Quiet, BringsOne, SameEnds, HttpBodyDropped, Brings, Connected,
     webVars, bufferVars, loopVars, peerVars, daemonVars
<1>7. ASSUME NEW u \in Uploads, HttpCompletion(u) PROVE LineMove
  BY <1>7 DEF Quiet, BringsOne, SameEnds, HttpCompletion, webVars,
     bufferVars, loopVars, peerVars, daemonVars
<1>8. ASSUME NEW u \in Uploads, HttpGone(u) PROVE LineMove
  BY <1>8 DEF Quiet, BringsOne, SameEnds, HttpGone, webVars, bufferVars,
     loopVars, peerVars, daemonVars
<1>9. ASSUME NEW u \in Uploads, NEW len \in Lengths, HttpBody(u, len)
      PROVE  LineMove
  <2>1. audio_buffer = <<>> /\ brought' \in Chunk
    BY <1>9 DEF BufferInv, HttpBody, TypeOK, Brings, Chunk
  <2>2. out' = <<brought'>>
    BY <1>9, <2>1 DEF HttpBody
  <2> QED
    BY <1>9, <2>2 DEF BringsOne, SameEnds, HttpBody, Brings, Connected,
       peerVars,
       daemonVars
<1>10. ASSUME NEW u \in Uploads, NEW len \in Lengths, HttpBodyNoMemory(u, len)
      PROVE  LineMove
  BY <1>10 DEF Quiet, BringsOne, SameEnds, HttpBodyNoMemory, Brings,
     MustGrow, Connected, webVars, bufferVars, loopVars, peerVars, daemonVars
<1>11. ASSUME NEW u \in Uploads, NEW len \in Lengths, HttpBodyCrash(u, len)
      PROVE  LineMove
  <2>1. Ends
    BY <1>11 DEF HttpBodyCrash
  <2>2. \A c \in Conns : end'[c] = "none" <=> end[c] = "none"
    BY <2>1 DEF Ends
  <2> QED
    BY <2>1, <2>2 DEF Drops, Ends, daemonVars
<1>12. CASE Connect
  <2>1. JoinsLine(serving)
    BY <1>12 DEF Connect, JoinsLine, LoopInv, Conns, peerVars
  <2> QED
    BY <2>1 DEF JoinsLine
<1>13. CASE HttpClose
  <2>1. out' = <<>>
    BY <1>13 DEF HttpClose, BufferInv, loopVars
  <2>2. LineUnchanged /\ UNCHANGED brought
    BY <1>13 DEF HttpClose, peerVars, daemonVars
  <2>3. CASE Connected
    <3>1. /\ daemon_sockfd' = NoConn
          /\ end' = [end EXCEPT ![daemon_sockfd] = "closed"]
      BY <1>13, <2>3 DEF HttpClose, CloseConnection
    <3>2. daemon_sockfd \in Conns /\ end[daemon_sockfd] = "open"
      BY <2>3 DEF TypeOK, PlaceInv, Connected, Conns
    <3>3. \A c \in Conns : end'[c] = "none" <=> end[c] = "none"
      BY <3>1, <3>2 DEF TypeOK
    <3> QED
      BY <2>1, <2>2, <3>1, <3>3 DEF Drops
  <2>4. CASE ~(Connected)
    <3>1. UNCHANGED <<daemon_sockfd, end>>
      BY <1>13, <2>4 DEF HttpClose
    <3> QED
      BY <2>1, <2>2, <3>1 DEF Quiet, SameEnds
  <2> QED
    BY <2>3, <2>4
<1>14. CASE Write
  BY <1>14
<1>15. CASE WriteFails
  BY <1>15 DEF Quiet, BringsOne, SameEnds, WriteFails, WriteReturns, Return,
     ResetLength, webVars, bufferVars, loopVars, peerVars, daemonVars
<1>16. CASE ConnectFails
  BY <1>16 DEF Quiet, BringsOne, SameEnds, ConnectFails, Return, webVars,
     bufferVars, loopVars, peerVars, daemonVars
<1>17. CASE HandleSigint
  <2>1. Ends
    BY <1>17 DEF HandleSigint
  <2>2. \A c \in Conns : end'[c] = "none" <=> end[c] = "none"
    BY <2>1 DEF Ends
  <2> QED
    BY <2>1, <2>2 DEF Drops, Ends, daemonVars
<1>18. ASSUME NEW l \in Locals, LocalConnect(l) PROVE LineMove
  <2>1. JoinsLine(l)
    BY <1>18 DEF LocalConnect, JoinsLine, Conns, webVars, loopVars, peerVars
  <2> QED
    BY <2>1 DEF JoinsLine
<1>19. ASSUME NEW l \in Locals, LocalClose(l) PROVE LineMove
  <2>1. l \in Conns /\ daemon_sockfd # l
    BY DEF TypeOK, Conns
  <2>2. SameEnds
    BY <1>19, <2>1 DEF SameEnds, LocalClose, TypeOK
  <2> QED
    BY <1>19, <2>2 DEF Quiet, LocalClose, webVars, loopVars, peerVars,
       daemonVars
<1>20. CASE DaemonAccept
  BY <1>20
<1>21. CASE DaemonRecv
  BY <1>21
<1>22. CASE DaemonHangup
  BY <1>22
<1>23. CASE DaemonRestart
  BY <1>23
<1>24. CASE UNCHANGED vars
  BY <1>24 DEF Quiet, BringsOne, SameEnds, vars, webVars, bufferVars,
     loopVars, peerVars, daemonVars
<1> QED
  BY <1>1, <1>2, <1>3, <1>4, <1>5, <1>6, <1>7, <1>8, <1>9, <1>10, <1>11,
     <1>12, <1>13, <1>14, <1>15, <1>16, <1>17, <1>18, <1>19, <1>20, <1>21,
     <1>22, <1>23, <1>24
  DEF Next, Callback, LoopAdvance, DaemonAdvance

\* The line is a function of backlog and session.
LEMMA SameLine ==
  ASSUME session' = session, backlog' = backlog PROVE Lined' = Lined
BY DEF Lined

LEMMA Restarted ==
  ASSUME DaemonRestart PROVE Lined' = <<>> /\ DOMAIN Lined' = {}
BY DEF DaemonRestart, Lined

LEMMA HangupFacts ==
  ASSUME TypeOK, PlaceInv, DaemonHangup
  PROVE  /\ session # NoConn /\ session \in Conns /\ session # daemon_sockfd
         /\ session' = NoConn /\ backlog' = backlog /\ sock[session] = <<>>
         /\ UNCHANGED <<daemon_sockfd, end, dead, sock, out, brought>>
BY DEF DaemonHangup, DaemonUnchanged, webVars, loopVars, peerVars, TypeOK,
   PlaceInv, Connected

\* A newcomer was not in the line, and has no audio in it.
LEMMA JoinFacts ==
  ASSUME TypeOK, PlaceInv, SockInv, NEW c \in Conns, JoinsLine(c)
  PROVE  /\ \A i \in DOMAIN Lined : Lined[i] # c
         /\ c \notin dead /\ c # daemon_sockfd /\ sock[c] = <<>>
<1>1. (\A i \in DOMAIN Lined : Lined[i] # c) /\ c \notin dead /\ c # daemon_sockfd
  BY DEF JoinsLine, PlaceInv, Connected
<1> QED
  BY <1>1 DEF SockInv

LEMMA StepPlace ==
  ASSUME TypeOK, PlaceInv, SockInv, LineMove PROVE PlaceInv'
<1>1. CASE Quiet
  <2>1. Lined' = Lined
    BY <1>1, SameLine DEF Quiet, LineUnchanged
  <2> QED
    BY <1>1, <2>1, LinedFacts DEF Quiet, LineUnchanged, SameEnds, PlaceInv,
       Connected, TypeOK
<1>2. CASE BringsOne
  <2>1. Lined' = Lined
    BY <1>2, SameLine DEF BringsOne, LineUnchanged
  <2> QED
    BY <1>2, <2>1, LinedFacts DEF BringsOne, LineUnchanged, SameEnds,
       PlaceInv, Connected, TypeOK
<1>3. CASE Drops
  <2>1. Lined' = Lined
    BY <1>3, SameLine DEF Drops, LineUnchanged
  <2> QED
    BY <1>3, <2>1, LinedFacts DEF Drops, LineUnchanged, PlaceInv, Connected,
       TypeOK
<1>4. CASE Write
  <2>1. /\ Lined' = Lined
        /\ UNCHANGED <<dead, end, daemon_sockfd>>
    BY <1>4, SameLine DEF Write, daemonVars
  <2> QED
    BY <2>1 DEF PlaceInv, Connected
<1>5. ASSUME NEW c \in Conns, JoinsLine(c) PROVE PlaceInv'
  <2> DEFINE n == Len(Lined)
  <2>1. /\ DOMAIN Lined' = 1..(n + 1) /\ Lined'[n + 1] = c
        /\ \A i \in DOMAIN Lined : Lined'[i] = Lined[i]
        /\ n \in Nat /\ DOMAIN Lined = 1..n
        /\ \A i \in DOMAIN Lined : Lined[i] \in Conns
    BY <1>5, Joins, LinedFacts DEF JoinsLine
  <2>2. /\ \A i \in DOMAIN Lined : Lined[i] # c
        /\ c \notin dead /\ c # daemon_sockfd
    BY <1>5, JoinFacts
  <2>3. /\ dead' = dead /\ daemon_sockfd' \in {daemon_sockfd, c}
        /\ end'[c] = "open" /\ \A d \in Conns : d # c => end'[d] = end[d]
    BY <1>5 DEF JoinsLine, TypeOK
  <2> HIDE DEF n
  <2>4. ASSUME NEW i \in DOMAIN Lined', NEW j \in DOMAIN Lined', Lined'[i] = Lined'[j]
        PROVE  i = j
    BY <2>1, <2>2, <2>4 DEF PlaceInv
  <2>5. ASSUME NEW i \in DOMAIN Lined'
        PROVE  Lined'[i] \notin dead' /\ end'[Lined'[i]] # "none"
    <3>1. CASE i = n + 1
      BY <2>1, <2>2, <2>3, <3>1
    <3>2. CASE i \in 1..n
      BY <2>1, <2>2, <2>3, <3>2 DEF PlaceInv
    <3> QED
      BY <2>1, <3>1, <3>2
  <2>6. \A d \in dead' : end'[d] # "none"
    BY <2>3 DEF PlaceInv, TypeOK
  <2>7. ASSUME Connected'
        PROVE  /\ end'[daemon_sockfd'] = "open"
               /\ \/ daemon_sockfd' \in dead'
                  \/ \E i \in DOMAIN Lined' : Lined'[i] = daemon_sockfd'
    <3>1. CASE daemon_sockfd' = c
      BY <2>1, <2>3, <3>1
    <3>2. CASE daemon_sockfd' # c
      <4>1. /\ daemon_sockfd' = daemon_sockfd
            /\ Connected
            /\ daemon_sockfd \in Conns
        BY <2>3, <2>7, <3>2 DEF Connected, TypeOK, Conns
      <4> QED
        BY <2>1, <2>3, <3>2, <4>1 DEF PlaceInv
    <3> QED
      BY <3>1, <3>2
  <2> QED
    BY <2>4, <2>5, <2>6, <2>7 DEF PlaceInv
<1>6. CASE DaemonAccept
  <2>1. Lined' = Lined /\ UNCHANGED <<dead, end, daemon_sockfd>>
    BY <1>6, Accepted DEF DaemonAccept, DaemonUnchanged, webVars
  <2> QED
    BY <2>1 DEF PlaceInv, Connected
<1>7. CASE DaemonRecv
  <2>1. Lined' = Lined /\ UNCHANGED <<dead, end, daemon_sockfd>>
    BY <1>7, SameLine DEF DaemonRecv, DaemonUnchanged, webVars
  <2> QED
    BY <2>1 DEF PlaceInv, Connected
<1>8. CASE DaemonHangup
  <2>1. /\ Lined[1] = session /\ session # daemon_sockfd
        /\ \A i \in DOMAIN Lined' : i + 1 \in DOMAIN Lined /\ Lined'[i] = Lined[i + 1]
        /\ \A i \in DOMAIN Lined : i # 1 => i - 1 \in DOMAIN Lined'
        /\ UNCHANGED <<dead, end, daemon_sockfd>>
    BY <1>8, HangupFacts, MovesUp
  <2>2. DOMAIN Lined \subseteq Nat /\ DOMAIN Lined' \subseteq Nat
    BY <1>8, HangupFacts, MovesUp, LinedFacts
  <2>3. ASSUME NEW i \in DOMAIN Lined', NEW j \in DOMAIN Lined', Lined'[i] = Lined'[j]
        PROVE  i = j
    BY <2>1, <2>2, <2>3 DEF PlaceInv
  <2>4. \A i \in DOMAIN Lined' : Lined'[i] \notin dead' /\ end'[Lined'[i]] # "none"
    BY <2>1 DEF PlaceInv
  <2>5. ASSUME NEW i \in DOMAIN Lined, Lined[i] = daemon_sockfd
        PROVE  \E j \in DOMAIN Lined' : Lined'[j] = daemon_sockfd'
    <3>1. i # 1
      BY <2>1, <2>5
    <3>2. i - 1 \in DOMAIN Lined' /\ (i - 1) + 1 = i
      BY <2>1, <2>2, <3>1
    <3> QED
      BY <2>1, <2>5, <3>2
  <2> QED
    BY <2>1, <2>3, <2>4, <2>5 DEF PlaceInv, Connected
<1>9. CASE DaemonRestart
  <2>1. /\ DOMAIN Lined' = {} /\ dead' = {c \in Conns : end[c] # "none"}
        /\ UNCHANGED <<end, daemon_sockfd>>
    BY <1>9, Restarted DEF DaemonRestart, DaemonUnchanged, webVars
  <2>2. Connected => daemon_sockfd \in Conns /\ end[daemon_sockfd] = "open"
    BY DEF PlaceInv, Connected, TypeOK, Conns
  <2> QED
    BY <2>1, <2>2 DEF PlaceInv, Connected
<1> QED
  BY <1>1, <1>2, <1>3, <1>4, <1>5, <1>6, <1>7, <1>8, <1>9 DEF LineMove
-----------------------------------------------------------------------------
(* The audio in the line.                                                  *)

\* What a write adds: its one chunk, to a connection that is in the line.
LEMMA WriteFacts ==
  ASSUME TypeOK, BufferInv, LoopInv, PlaceInv, Write
  PROVE  /\ out' = <<>> /\ 1 \in DOMAIN out /\ out[1] \in Chunk
         /\ \E i \in DOMAIN Lined : Lined[i] = daemon_sockfd
         /\ daemon_sockfd \in Conns
         /\ sock' = [sock EXCEPT ![daemon_sockfd] = Append(@, out[1])]
         /\ UNCHANGED <<session, backlog, dead, daemon_sockfd, brought>>
<1>1. /\ pc = "write" /\ daemon_sockfd \notin dead /\ out' = Tail(out)
      /\ sock' = [sock EXCEPT ![daemon_sockfd] = Append(@, Head(out))]
      /\ UNCHANGED <<session, backlog, dead, daemon_sockfd, brought>>
  BY DEF Write, peerVars, daemonVars
<1>2. out \in Seq(Chunk) /\ Len(out) = 1
  BY <1>1 DEF TypeOK, BufferInv
<1>3. /\ Tail(out) = <<>> /\ Head(out) = out[1] /\ out[1] \in Chunk
      /\ DOMAIN out = {1}
  BY <1>2, One
<1>4. daemon_sockfd \in Conns /\ \E i \in DOMAIN Lined : Lined[i] = daemon_sockfd
  BY <1>1 DEF LoopInv, PlaceInv, Connected, TypeOK, Conns
<1> QED
  BY <1>1, <1>3, <1>4

\* What the daemon's reading takes away: the oldest chunk it has.
LEMMA RecvFacts ==
  ASSUME TypeOK, DaemonRecv
  PROVE  /\ session \in Conns /\ sock[session] # <<>>
         /\ \A c \in Conns : c # session => sock'[c] = sock[c]
         /\ \A m \in DOMAIN sock'[session] :
              m + 1 \in DOMAIN sock[session] /\ sock'[session][m] = sock[session][m + 1]
         /\ DOMAIN sock'[session] \subseteq Nat
         /\ UNCHANGED <<session, backlog, daemon_sockfd, out, brought>>
<1>1. /\ session \in Conns /\ sock[session] # <<>>
      /\ sock' = [sock EXCEPT ![session] = Tail(@)]
      /\ UNCHANGED <<session, backlog, daemon_sockfd, out, brought>>
  BY DEF DaemonRecv, DaemonUnchanged, webVars, loopVars, peerVars, TypeOK
<1>2. sock[session] \in Seq(Chunk) /\ Len(sock[session]) \in Nat
  BY <1>1, LenProperties DEF TypeOK
<1> DEFINE t == Tail(sock[session])
<1>3. /\ t \in Seq(Chunk) /\ Len(t) = Len(sock[session]) - 1
      /\ \A m \in 1..Len(t) : t[m] = sock[session][m + 1]
  BY <1>1, <1>2, HeadTailProperties
<1>4. sock'[session] = t /\ \A c \in Conns : c # session => sock'[c] = sock[c]
  BY <1>1 DEF TypeOK
<1> HIDE DEF t
<1>5. DOMAIN t = 1..Len(t) /\ DOMAIN sock[session] = 1..Len(sock[session])
  BY <1>2, <1>3, LenProperties
<1>6. \A m \in DOMAIN t : m \in Nat /\ m + 1 \in DOMAIN sock[session] /\ t[m] = sock[session][m + 1]
  BY <1>2, <1>3, <1>5
<1> QED
  BY <1>1, <1>4, <1>6

\* What is in the sockets are numbers of chunks, at positions 1, 2 and so on.
LEMMA SockFacts ==
  ASSUME TypeOK, NEW c \in Conns
  PROVE  /\ sock[c] \in Seq(Chunk) /\ Len(sock[c]) \in Nat
         /\ DOMAIN sock[c] = 1..Len(sock[c])
         /\ \A m \in DOMAIN sock[c] : sock[c][m] \in Nat
<1>1. sock[c] \in Seq(Chunk)
  BY DEF TypeOK
<1> QED
  BY <1>1, LenProperties, ElementOfSeq DEF Chunk

LEMMA OutFacts ==
  ASSUME TypeOK PROVE DOMAIN out = 1..Len(out) /\ \A m \in DOMAIN out : out[m] \in Nat
<1>1. out \in Seq(Chunk)
  BY DEF TypeOK
<1> QED
  BY <1>1, LenProperties, ElementOfSeq DEF Chunk

\* A chunk behind the others.
LEMMA AppendFacts ==
  ASSUME TypeOK, NEW c \in Conns, NEW h \in Chunk
  PROVE  /\ Len(Append(sock[c], h)) = Len(sock[c]) + 1
         /\ DOMAIN Append(sock[c], h) = 1..(Len(sock[c]) + 1)
         /\ \A m \in 1..Len(sock[c]) : Append(sock[c], h)[m] = sock[c][m]
         /\ Append(sock[c], h)[Len(sock[c]) + 1] = h
<1>1. sock[c] \in Seq(Chunk)
  BY DEF TypeOK
<1>2. Append(sock[c], h) \in Seq(Chunk)
  BY <1>1, AppendProperties
<1> QED
  BY <1>1, <1>2, AppendProperties, LenProperties

LEMMA StepSock ==
  ASSUME TypeOK, LoopInv, BufferInv, PlaceInv, SockInv, LineMove PROVE SockInv'
<1>0. brought \in Nat
  BY DEF TypeOK
<1>1. CASE Quiet \/ BringsOne \/ Drops
  <2>1. /\ Lined' = Lined /\ sock' = sock
        /\ daemon_sockfd' \in {daemon_sockfd, NoConn}
        /\ brought' \in {brought, brought + 1}
        /\ out' \in {out, <<>>, <<brought'>>}
    BY <1>1, SameLine DEF Quiet, BringsOne, Drops, LineUnchanged
  <2>2. ASSUME NEW c \in Conns, NEW m \in DOMAIN sock[c]
        PROVE  sock[c][m] <= brought'
    BY <1>0, <2>1, SockFacts DEF SockInv
  <2>3. ASSUME NEW m \in DOMAIN out' PROVE out'[m] <= brought'
    <3>1. CASE out' = out
      BY <1>0, <2>1, <2>3, <3>1, OutFacts DEF SockInv
    <3>2. CASE out' = <<>>
      BY <2>3, <3>2
    <3>3. CASE out' = <<brought'>>
      BY <1>0, <2>1, <2>3, <3>3
    <3> QED
      BY <2>1, <3>1, <3>2, <3>3
  <2>4. ASSUME NEW i \in DOMAIN Lined, NEW j \in DOMAIN Lined, i < j,
               Lined[i] = daemon_sockfd'
        PROVE  sock[Lined[j]] = <<>>
    <3>1. daemon_sockfd' = daemon_sockfd
      BY <2>1, <2>4, LinedFacts
    <3> QED
      BY <2>4, <3>1 DEF SockInv
  <2> QED
    BY <2>1, <2>2, <2>3, <2>4 DEF SockInv
<1>2. CASE Write
  <2> DEFINE d == daemon_sockfd
  <2>1. /\ Lined' = Lined /\ d \in Conns /\ out[1] \in Chunk /\ 1 \in DOMAIN out
        /\ \E i \in DOMAIN Lined : Lined[i] = d
        /\ daemon_sockfd' = d /\ brought' = brought /\ out' = <<>>
        /\ sock' = [sock EXCEPT ![d] = Append(@, out[1])]
    BY <1>2, WriteFacts, SameLine
  <2>2. /\ sock'[d] = Append(sock[d], out[1])
        /\ \A c \in Conns : c # d => sock'[c] = sock[c]
    BY <2>1 DEF TypeOK
  <2>3. out[1] <= brought
    BY <2>1 DEF SockInv
  <2> HIDE DEF d
  <2>4. ASSUME NEW c \in Conns, sock'[c] # <<>>
        PROVE  \E i \in DOMAIN Lined : Lined[i] = c
    BY <2>1, <2>2, <2>4 DEF SockInv
  <2>5. ASSUME NEW i \in DOMAIN Lined, NEW j \in DOMAIN Lined, i < j, Lined[i] = d
        PROVE  sock'[Lined[j]] = <<>>
    <3>1. i # j
      BY <2>5, LinedFacts
    <3>2. Lined[j] # d /\ Lined[j] \in Conns
      BY <2>5, <3>1, LinedFacts DEF PlaceInv
    <3> QED
      BY <2>2, <2>5, <3>2 DEF SockInv, d
  <2>6. ASSUME NEW c \in Conns, NEW m \in DOMAIN sock'[c]
        PROVE  sock'[c][m] <= brought
    <3>1. CASE c = d
      <4>1. /\ DOMAIN sock'[c] = 1..(Len(sock[c]) + 1) /\ Len(sock[c]) \in Nat
            /\ \A k \in 1..Len(sock[c]) : sock'[c][k] = sock[c][k]
            /\ sock'[c][Len(sock[c]) + 1] = out[1] /\ DOMAIN sock[c] = 1..Len(sock[c])
        BY <2>1, <2>2, <3>1, AppendFacts, SockFacts
      <4> QED
        BY <2>3, <2>6, <4>1 DEF SockInv
    <3>2. CASE c # d
      BY <2>2, <2>6, <3>2 DEF SockInv
    <3> QED
      BY <3>1, <3>2
  <2>7. ASSUME NEW m \in DOMAIN out' PROVE out'[m] <= brought
    BY <2>1, <2>7
  <2> QED
    BY <2>1, <2>4, <2>5, <2>6, <2>7 DEF SockInv
<1>3. ASSUME NEW c \in Conns, JoinsLine(c) PROVE SockInv'
  <2> DEFINE n == Len(Lined)
  <2>1. /\ DOMAIN Lined' = 1..(n + 1) /\ Lined'[n + 1] = c
        /\ \A i \in DOMAIN Lined : Lined'[i] = Lined[i]
        /\ n \in Nat /\ DOMAIN Lined = 1..n
        /\ \A i \in DOMAIN Lined : Lined[i] \in Conns
    BY <1>3, Joins, LinedFacts DEF JoinsLine
  <2>2. (\A i \in DOMAIN Lined : Lined[i] # c) /\ sock[c] = <<>>
    BY <1>3, JoinFacts
  <2>3. /\ daemon_sockfd' \in {daemon_sockfd, c}
        /\ UNCHANGED <<sock, out, brought>>
    BY <1>3 DEF JoinsLine
  <2> HIDE DEF n
  <2>4. \A d \in Conns : sock[d] # <<>> => \E i \in DOMAIN Lined' : Lined'[i] = d
    BY <2>1 DEF SockInv
  <2>5. ASSUME NEW i \in DOMAIN Lined', NEW j \in DOMAIN Lined', i < j,
               Lined'[i] = daemon_sockfd'
        PROVE  sock[Lined'[j]] = <<>>
    <3>1. CASE j = n + 1
      BY <2>1, <2>2, <3>1
    <3>2. CASE j # n + 1
      <4>1. i \in DOMAIN Lined /\ j \in DOMAIN Lined
        BY <2>1, <2>5, <3>2
      <4>2. daemon_sockfd' = daemon_sockfd
        BY <2>1, <2>2, <2>3, <2>5, <4>1
      <4> QED
        BY <2>1, <2>5, <4>1, <4>2 DEF SockInv
    <3> QED
      BY <3>1, <3>2
  <2> QED
    BY <2>3, <2>4, <2>5 DEF SockInv
<1>4. CASE DaemonAccept
  <2>1. Lined' = Lined /\ UNCHANGED <<sock, daemon_sockfd, out, brought>>
    BY <1>4, Accepted DEF DaemonAccept, DaemonUnchanged, webVars, loopVars,
       peerVars
  <2> QED
    BY <2>1 DEF SockInv
<1>5. CASE DaemonRecv
  <2>1. /\ Lined' = Lined /\ UNCHANGED <<daemon_sockfd, out, brought>>
        /\ session \in Conns /\ sock[session] # <<>>
        /\ \A c \in Conns : c # session => sock'[c] = sock[c]
        /\ \A m \in DOMAIN sock'[session] :
             m + 1 \in DOMAIN sock[session] /\ sock'[session][m] = sock[session][m + 1]
    BY <1>5, RecvFacts, SameLine
  <2>2. \A c \in Conns : sock'[c] # <<>> => sock[c] # <<>>
    BY <2>1
  <2>3. \A c \in Conns : \A m \in DOMAIN sock'[c] : sock'[c][m] <= brought
    BY <2>1 DEF SockInv
  <2>4. \A i \in DOMAIN Lined : sock[Lined[i]] = <<>> => sock'[Lined[i]] = <<>>
    BY <2>1, LinedFacts
  <2> QED
    BY <2>1, <2>2, <2>3, <2>4 DEF SockInv
<1>6. CASE DaemonHangup
  <2>1. /\ UNCHANGED <<daemon_sockfd, sock, out, brought>>
        /\ Lined[1] = session /\ sock[session] = <<>>
        /\ \A i \in DOMAIN Lined' : i + 1 \in DOMAIN Lined /\ Lined'[i] = Lined[i + 1]
        /\ \A i \in DOMAIN Lined : i # 1 => i - 1 \in DOMAIN Lined'
        /\ DOMAIN Lined \subseteq Nat /\ DOMAIN Lined' \subseteq Nat
    BY <1>6, HangupFacts, MovesUp, LinedFacts
  <2>2. ASSUME NEW c \in Conns, sock[c] # <<>>
        PROVE  \E i \in DOMAIN Lined' : Lined'[i] = c
    <3>1. PICK i \in DOMAIN Lined : Lined[i] = c
      BY <2>2 DEF SockInv
    <3>2. i # 1
      BY <2>1, <2>2, <3>1
    <3>3. i - 1 \in DOMAIN Lined' /\ (i - 1) + 1 = i
      BY <2>1, <3>2
    <3> QED
      BY <2>1, <3>1, <3>3
  <2>3. ASSUME NEW i \in DOMAIN Lined', NEW j \in DOMAIN Lined', i < j,
               Lined'[i] = daemon_sockfd
        PROVE  sock[Lined'[j]] = <<>>
    <3>1. /\ i + 1 \in DOMAIN Lined /\ j + 1 \in DOMAIN Lined /\ i + 1 < j + 1
          /\ Lined'[i] = Lined[i + 1] /\ Lined'[j] = Lined[j + 1]
      BY <2>1, <2>3
    <3> QED
      BY <2>3, <3>1 DEF SockInv
  <2> QED
    BY <2>1, <2>2, <2>3 DEF SockInv
<1>7. CASE DaemonRestart
  <2>1. /\ DOMAIN Lined' = {} /\ \A c \in Conns : sock'[c] = <<>>
        /\ UNCHANGED <<out, brought>>
    BY <1>7, Restarted DEF DaemonRestart, DaemonUnchanged, webVars, loopVars,
       peerVars
  <2>2. \A c \in Conns : \A m \in DOMAIN sock'[c] : sock'[c][m] <= brought'
    BY <2>1
  <2> QED
    BY <2>1, <2>2 DEF SockInv
<1> QED
  BY <1>1, <1>2, <1>3, <1>4, <1>5, <1>6, <1>7 DEF LineMove

\* Audio keeps its order.  What is brought is newer than all that is in the
\* line; what is written has, by SockInv, nothing behind it.
LEMMA StepOrder ==
  ASSUME TypeOK, LoopInv, BufferInv, PlaceInv, SockInv, ChunksInOrder, LineMove
  PROVE  ChunksInOrder'
<1> USE DEF Increasing, Precedes
<1>0. brought \in Nat
  BY DEF TypeOK
<1>1. CASE Quiet \/ Drops
  <2>1. Lined' = Lined /\ sock' = sock /\ out' \in {out, <<>>}
    BY <1>1, SameLine DEF Quiet, Drops, LineUnchanged
  <2>2. CASE out' = out
    BY <2>1, <2>2 DEF ChunksInOrder
  <2>3. CASE out' = <<>>
    BY <2>1, <2>3 DEF ChunksInOrder
  <2> QED
    BY <2>1, <2>2, <2>3
<1>2. CASE BringsOne
  <2>1. /\ Lined' = Lined /\ sock' = sock /\ brought' = brought + 1
        /\ out' = <<brought'>>
    BY <1>2, SameLine DEF BringsOne, LineUnchanged
  <2>2. \A n \in DOMAIN out' : n = 1 /\ out'[n] = brought + 1
    BY <2>1
  <2>3. ASSUME NEW i \in DOMAIN Lined, NEW m \in DOMAIN sock[Lined[i]],
               NEW n \in DOMAIN out'
        PROVE  sock[Lined[i]][m] < out'[n]
    <3>1. Lined[i] \in Conns
      BY LinedFacts
    <3>2. sock[Lined[i]][m] \in Nat /\ sock[Lined[i]][m] <= brought
      BY <3>1, SockFacts DEF SockInv
    <3> QED
      BY <1>0, <2>2, <3>2
  <2>4. \A i \in DOMAIN Lined : Precedes(sock[Lined[i]], out')
    BY <2>3
  <2>5. Increasing(out')
    BY <2>2
  <2> QED
    BY <2>1, <2>4, <2>5 DEF ChunksInOrder
<1>3. CASE Write
  <2> DEFINE d == daemon_sockfd
             h == out[1]
  <2>1. /\ Lined' = Lined /\ d \in Conns /\ h \in Chunk /\ 1 \in DOMAIN out
        /\ out' = <<>> /\ sock' = [sock EXCEPT ![d] = Append(@, h)]
    BY <1>3, WriteFacts, SameLine
  <2>2. sock'[d] = Append(sock[d], h) /\ \A c \in Conns : c # d => sock'[c] = sock[c]
    BY <2>1 DEF TypeOK
  <2>3. \A i \in DOMAIN Lined : \A m \in DOMAIN sock[Lined[i]] : sock[Lined[i]][m] < h
    BY <2>1 DEF ChunksInOrder
  <2>4. \A i, j \in DOMAIN Lined : i < j /\ Lined[i] = d => sock[Lined[j]] = <<>>
    BY DEF SockInv
  <2>5. /\ DOMAIN sock'[d] = 1..(Len(sock[d]) + 1) /\ Len(sock[d]) \in Nat
        /\ \A k \in 1..Len(sock[d]) : sock'[d][k] = sock[d][k]
        /\ sock'[d][Len(sock[d]) + 1] = h /\ DOMAIN sock[d] = 1..Len(sock[d])
    BY <2>1, <2>2, AppendFacts, SockFacts
  <2> HIDE DEF d, h
  <2>6. ASSUME NEW i \in DOMAIN Lined PROVE Increasing(sock'[Lined[i]])
    <3>1. CASE Lined[i] = d
      <4> SUFFICES ASSUME NEW m \in DOMAIN sock'[d], NEW n \in DOMAIN sock'[d], m < n
                   PROVE  sock'[d][m] < sock'[d][n]
        BY <3>1
      <4>1. m \in DOMAIN sock[d] /\ sock'[d][m] = sock[d][m]
        BY <2>5
      <4>2. CASE n \in DOMAIN sock[d]
        <5>1. sock'[d][n] = sock[d][n]
          BY <2>5, <4>2
        <5> QED
          BY <3>1, <4>1, <4>2, <5>1 DEF ChunksInOrder
      <4>3. CASE n \notin DOMAIN sock[d]
        <5>1. sock'[d][n] = h
          BY <2>5, <4>3
        <5> QED
          BY <2>3, <3>1, <4>1, <5>1
      <4> QED
        BY <4>2, <4>3
    <3>2. CASE Lined[i] # d
      <4>1. sock'[Lined[i]] = sock[Lined[i]]
        BY <2>2, <3>2, LinedFacts
      <4> QED
        BY <4>1 DEF ChunksInOrder
    <3> QED
      BY <3>1, <3>2
  <2>7. ASSUME NEW i \in DOMAIN Lined, NEW j \in DOMAIN Lined, i < j
        PROVE  Precedes(sock'[Lined[i]], sock'[Lined[j]])
    <3>1. Lined[i] \in Conns /\ Lined[j] \in Conns
      BY LinedFacts
    <3>2. Lined[i] # Lined[j]
      BY <2>7, LinedFacts DEF PlaceInv
    <3>3. CASE Lined[i] = d
      <4>1. sock'[Lined[j]] = <<>>
        BY <2>2, <2>4, <2>7, <3>1, <3>2, <3>3
      <4> QED
        BY <4>1
    <3>4. CASE Lined[j] = d
      <4>1. sock'[Lined[i]] = sock[Lined[i]]
        BY <2>2, <3>1, <3>2, <3>4
      <4> SUFFICES ASSUME NEW m \in DOMAIN sock[Lined[i]], NEW n \in DOMAIN sock'[d]
                   PROVE  sock[Lined[i]][m] < sock'[d][n]
        BY <3>4, <4>1
      <4>2. CASE n \in DOMAIN sock[d]
        <5>1. sock'[d][n] = sock[d][n]
          BY <2>5, <4>2
        <5> QED
          BY <2>7, <3>4, <4>2, <5>1 DEF ChunksInOrder
      <4>3. CASE n \notin DOMAIN sock[d]
        <5>1. sock'[d][n] = h
          BY <2>5, <4>3
        <5> QED
          BY <2>3, <5>1
      <4> QED
        BY <4>2, <4>3
    <3>5. CASE Lined[i] # d /\ Lined[j] # d
      <4>1. sock'[Lined[i]] = sock[Lined[i]] /\ sock'[Lined[j]] = sock[Lined[j]]
        BY <2>2, <3>1, <3>5
      <4> QED
        BY <2>7, <4>1 DEF ChunksInOrder
    <3> QED
      BY <3>3, <3>4, <3>5
  <2> QED
    BY <2>1, <2>6, <2>7 DEF ChunksInOrder
<1>4. ASSUME NEW c \in Conns, JoinsLine(c) PROVE ChunksInOrder'
  <2> DEFINE n == Len(Lined)
  <2>1. /\ DOMAIN Lined' = 1..(n + 1) /\ Lined'[n + 1] = c
        /\ \A i \in DOMAIN Lined : Lined'[i] = Lined[i]
        /\ n \in Nat /\ DOMAIN Lined = 1..n
    BY <1>4, Joins, LinedFacts DEF JoinsLine
  <2>2. sock[c] = <<>> /\ UNCHANGED <<sock, out>>
    BY <1>4, JoinFacts DEF JoinsLine
  <2> HIDE DEF n
  <2>3. ASSUME NEW i \in DOMAIN Lined'
        PROVE  Increasing(sock[Lined'[i]]) /\ Precedes(sock[Lined'[i]], out)
    <3>1. CASE i = n + 1
      BY <2>1, <2>2, <3>1
    <3>2. CASE i \in DOMAIN Lined
      <4>1. Lined'[i] = Lined[i]
        BY <2>1, <3>2
      <4> QED
        BY <3>2, <4>1 DEF ChunksInOrder
    <3> QED
      BY <2>1, <3>1, <3>2
  <2>4. ASSUME NEW i \in DOMAIN Lined', NEW j \in DOMAIN Lined', i < j
        PROVE  Precedes(sock[Lined'[i]], sock[Lined'[j]])
    <3>1. CASE j = n + 1
      BY <2>1, <2>2, <3>1
    <3>2. CASE j # n + 1
      <4>1. /\ i \in DOMAIN Lined /\ j \in DOMAIN Lined
            /\ Lined'[i] = Lined[i] /\ Lined'[j] = Lined[j]
        BY <2>1, <2>4, <3>2
      <4> QED
        BY <2>4, <4>1 DEF ChunksInOrder
    <3> QED
      BY <3>1, <3>2
  <2> QED
    BY <2>2, <2>3, <2>4 DEF ChunksInOrder
<1>5. CASE DaemonAccept
  <2>1. Lined' = Lined /\ UNCHANGED <<sock, out>>
    BY <1>5, Accepted DEF DaemonAccept, DaemonUnchanged, webVars, loopVars
  <2> QED
    BY <2>1 DEF ChunksInOrder
<1>6. CASE DaemonRecv
  <2>1. /\ Lined' = Lined /\ out' = out
        /\ \A c \in Conns : c # session => sock'[c] = sock[c]
        /\ \A m \in DOMAIN sock'[session] :
             m + 1 \in DOMAIN sock[session] /\ sock'[session][m] = sock[session][m + 1]
        /\ DOMAIN sock'[session] \subseteq Nat
    BY <1>6, RecvFacts, SameLine
  <2> DEFINE k(c) == IF c = session THEN 1 ELSE 0
  <2>2. ASSUME NEW i \in DOMAIN Lined, NEW m \in DOMAIN sock'[Lined[i]]
        PROVE  /\ m \in Nat /\ m + k(Lined[i]) \in DOMAIN sock[Lined[i]]
               /\ sock'[Lined[i]][m] = sock[Lined[i]][m + k(Lined[i])]
    <3>1. CASE Lined[i] = session
      BY <2>1, <2>2, <3>1
    <3>2. CASE Lined[i] # session
      <4>1. Lined[i] \in Conns /\ sock'[Lined[i]] = sock[Lined[i]]
        BY <2>1, <3>2, LinedFacts
      <4>2. m \in Nat
        BY <2>2, <4>1, SockFacts
      <4> QED
        BY <2>2, <3>2, <4>1, <4>2
    <3> QED
      BY <3>1, <3>2
  <2>3. \A c : k(c) \in Nat
    OBVIOUS
  <2> HIDE DEF k
  <2>4. ASSUME NEW i \in DOMAIN Lined
        PROVE  Increasing(sock'[Lined[i]]) /\ Precedes(sock'[Lined[i]], out)
    <3>1. ASSUME NEW m \in DOMAIN sock'[Lined[i]], NEW n \in DOMAIN sock'[Lined[i]], m < n
          PROVE  sock'[Lined[i]][m] < sock'[Lined[i]][n]
      <4>1. m + k(Lined[i]) < n + k(Lined[i])
        BY <2>2, <2>3, <3>1
      <4> QED
        BY <2>2, <4>1 DEF ChunksInOrder
    <3>2. ASSUME NEW m \in DOMAIN sock'[Lined[i]], NEW n \in DOMAIN out
          PROVE  sock'[Lined[i]][m] < out[n]
      BY <2>2 DEF ChunksInOrder
    <3> QED
      BY <3>1, <3>2
  <2>5. ASSUME NEW i \in DOMAIN Lined, NEW j \in DOMAIN Lined, i < j,
               NEW m \in DOMAIN sock'[Lined[i]], NEW n \in DOMAIN sock'[Lined[j]]
        PROVE  sock'[Lined[i]][m] < sock'[Lined[j]][n]
    BY <2>2, <2>5 DEF ChunksInOrder
  <2> QED
    BY <2>1, <2>4, <2>5 DEF ChunksInOrder
<1>7. CASE DaemonHangup
  <2>1. /\ UNCHANGED <<sock, out>>
        /\ \A i \in DOMAIN Lined' : i + 1 \in DOMAIN Lined /\ Lined'[i] = Lined[i + 1]
        /\ DOMAIN Lined' \subseteq Nat
    BY <1>7, HangupFacts, MovesUp, LinedFacts
  <2>2. \A i \in DOMAIN Lined' : Increasing(sock[Lined'[i]]) /\ Precedes(sock[Lined'[i]], out)
    BY <2>1 DEF ChunksInOrder
  <2>3. ASSUME NEW i \in DOMAIN Lined', NEW j \in DOMAIN Lined', i < j
        PROVE  Precedes(sock[Lined'[i]], sock[Lined'[j]])
    <3>1. i + 1 \in DOMAIN Lined /\ j + 1 \in DOMAIN Lined /\ i + 1 < j + 1
      BY <2>1, <2>3
    <3>2. Lined'[i] = Lined[i + 1] /\ Lined'[j] = Lined[j + 1]
      BY <2>1
    <3> QED
      BY <3>1, <3>2 DEF ChunksInOrder
  <2> QED
    BY <2>1, <2>2, <2>3 DEF ChunksInOrder
<1>8. CASE DaemonRestart
  <2>1. DOMAIN Lined' = {} /\ out' = out
    BY <1>8, Restarted DEF DaemonRestart, DaemonUnchanged, webVars, loopVars
  <2> QED
    BY <2>1 DEF ChunksInOrder
<1> QED
  BY <1>1, <1>2, <1>3, <1>4, <1>5, <1>6, <1>7, <1>8 DEF LineMove

-----------------------------------------------------------------------------
(* Connections are closed, and streams keep theirs.                        *)

OneEnd == \A x \in Sessions : end[x] = "open" => daemon_sockfd = x

\* Someone is there who will close the connection, or would have.
Used == pc = "service" /\ Connected =>
          \/ \E x \in Sessions : Open(x)
          \/ \E u \in Uploads : up[u] = "aborted"

LEMMA StepOneEnd ==
  ASSUME TypeOK, LoopInv, OneEnd, [Next]_vars PROVE OneEnd'
<1> USE DEF Sessions, Conns, OneEnd
<1>1. ASSUME NEW s \in Streams, Established(s) PROVE OneEnd'
  BY <1>1 DEF TypeOK, LoopInv, Established, ConnectFor, MustConnect,
     Connected, webVars, bufferVars, loopVars, peerVars, daemonVars
<1>2. ASSUME NEW s \in Streams, Receive(s) PROVE OneEnd'
  BY <1>2 DEF TypeOK, LoopInv, Receive, Brings, Connected, webVars,
     bufferVars, loopVars, peerVars, daemonVars
<1>3. ASSUME NEW s \in Streams, Closed(s) PROVE OneEnd'
  BY <1>3 DEF TypeOK, LoopInv, Closed, CloseConnection, Connected, webVars,
     bufferVars, loopVars, peerVars, daemonVars
<1>4. ASSUME NEW u \in Uploads, HttpRequest(u) PROVE OneEnd'
  BY <1>4 DEF TypeOK, LoopInv, HttpRequest, ConnectFor, MustConnect,
     Connected, webVars, bufferVars, loopVars, peerVars, daemonVars
<1>5. ASSUME NEW u \in Uploads, HttpRefused(u) PROVE OneEnd'
  BY <1>5 DEF TypeOK, LoopInv, HttpRefused, webVars, bufferVars, loopVars,
     peerVars, daemonVars
<1>6. ASSUME NEW u \in Uploads, HttpBodyDropped(u) PROVE OneEnd'
  BY <1>6 DEF TypeOK, LoopInv, HttpBodyDropped, Brings, Connected, webVars,
     bufferVars, loopVars, peerVars, daemonVars
<1>7. ASSUME NEW u \in Uploads, HttpCompletion(u) PROVE OneEnd'
  BY <1>7 DEF TypeOK, LoopInv, HttpCompletion, webVars, bufferVars, loopVars,
     peerVars, daemonVars
<1>8. ASSUME NEW u \in Uploads, HttpGone(u) PROVE OneEnd'
  BY <1>8 DEF TypeOK, LoopInv, HttpGone, webVars, bufferVars, loopVars,
     peerVars, daemonVars
<1>9. ASSUME NEW u \in Uploads, NEW len \in Lengths, HttpBody(u, len)
      PROVE  OneEnd'
  BY <1>9 DEF TypeOK, LoopInv, HttpBody, Brings, MustGrow, Connected,
     webVars, bufferVars, loopVars, peerVars, daemonVars
<1>10. ASSUME NEW u \in Uploads, NEW len \in Lengths, HttpBodyNoMemory(u, len)
      PROVE  OneEnd'
  BY <1>10 DEF TypeOK, LoopInv, HttpBodyNoMemory, Brings, MustGrow,
     Connected, webVars, bufferVars, loopVars, peerVars, daemonVars
<1>11. ASSUME NEW u \in Uploads, NEW len \in Lengths, HttpBodyCrash(u, len)
      PROVE  OneEnd'
  BY <1>11 DEF TypeOK, LoopInv, HttpBodyCrash, Ends, ResetLength, Connected,
     webVars, bufferVars, loopVars, peerVars, daemonVars
<1>12. CASE Connect
  <2>1. /\ ~Connected /\ daemon_sockfd' = serving
        /\ end' = [end EXCEPT ![serving] = "open"]
    BY <1>12 DEF Connect, LoopInv
  <2>2. \A x \in Sessions : end[x] # "open"
    BY <2>1 DEF Connected
  <2> QED
    BY <2>1, <2>2 DEF TypeOK
<1>13. CASE HttpClose
  BY <1>13 DEF TypeOK, LoopInv, HttpClose, Return, CloseConnection,
     Connected, webVars, bufferVars, loopVars, peerVars, daemonVars
<1>14. CASE Write
  BY <1>14 DEF TypeOK, LoopInv, Write, WriteReturns, Return, ResetLength,
     webVars, bufferVars, loopVars, peerVars, daemonVars
<1>15. CASE WriteFails
  BY <1>15 DEF TypeOK, LoopInv, WriteFails, WriteReturns, Return,
     ResetLength, webVars, bufferVars, loopVars, peerVars, daemonVars
<1>16. CASE ConnectFails
  BY <1>16 DEF TypeOK, LoopInv, ConnectFails, Return, webVars, bufferVars,
     loopVars, peerVars, daemonVars
<1>17. CASE HandleSigint
  BY <1>17 DEF TypeOK, LoopInv, HandleSigint, Ends, ResetLength, webVars,
     bufferVars, loopVars, peerVars, daemonVars
<1>18. ASSUME NEW l \in Locals, LocalConnect(l) PROVE OneEnd'
  BY <1>18 DEF TypeOK, LoopInv, LocalConnect, webVars, bufferVars, loopVars,
     peerVars, daemonVars
<1>19. ASSUME NEW l \in Locals, LocalClose(l) PROVE OneEnd'
  BY <1>19 DEF TypeOK, LoopInv, LocalClose, webVars, bufferVars, loopVars,
     peerVars, daemonVars
<1>20. CASE DaemonAccept
  BY <1>20 DEF TypeOK, LoopInv, DaemonAccept, DaemonUnchanged, webVars,
     bufferVars, loopVars, peerVars, daemonVars
<1>21. CASE DaemonRecv
  BY <1>21 DEF TypeOK, LoopInv, DaemonRecv, DaemonUnchanged, webVars,
     bufferVars, loopVars, peerVars, daemonVars
<1>22. CASE DaemonHangup
  BY <1>22 DEF TypeOK, LoopInv, DaemonHangup, DaemonUnchanged, webVars,
     bufferVars, loopVars, peerVars, daemonVars
<1>23. CASE DaemonRestart
  BY <1>23 DEF TypeOK, LoopInv, DaemonRestart, DaemonUnchanged, webVars,
     bufferVars, loopVars, peerVars, daemonVars
<1>24. CASE UNCHANGED vars
  BY <1>24 DEF TypeOK, LoopInv, vars, webVars, bufferVars, loopVars,
     peerVars, daemonVars
<1> QED
  BY <1>1, <1>2, <1>3, <1>4, <1>5, <1>6, <1>7, <1>8, <1>9, <1>10, <1>11,
     <1>12, <1>13, <1>14, <1>15, <1>16, <1>17, <1>18, <1>19, <1>20, <1>21,
     <1>22, <1>23, <1>24
  DEF Next, Callback, LoopAdvance, DaemonAdvance

LEMMA StepUsed ==
  ASSUME TypeOK, LoopInv, CountInv, Used, [Next]_vars PROVE Used'
<1> USE DEF Sessions, Conns, Used
<1>0. ASSUME UNCHANGED <<pc, daemon_sockfd, ws, up>> PROVE Used'
  BY <1>0 DEF Open, Connected
<1>1. ASSUME NEW s \in Streams, Established(s) PROVE Used'
  <2>1. ws'[s] = "open"
    BY <1>1 DEF Established, TypeOK
  <2> QED
    BY <2>1 DEF Open
<1>2. ASSUME NEW s \in Streams, Receive(s) PROVE Used'
  BY <1>2, <1>0 DEF Receive, loopVars
<1>3. ASSUME NEW s \in Streams, Closed(s) PROVE Used'
  <2>1. CASE active_ws_connections' = 0
    <3>1. ~Connected'
      BY <1>3, <2>1 DEF Closed, NoStreamLeft, CloseConnection, Connected
    <3> QED
      BY <3>1
  <2>2. CASE active_ws_connections' # 0
    <3>1. PICK r \in Streams : ws'[r] = "open"
      BY <2>2, LastStream
    <3> QED
      BY <3>1 DEF Open
  <2> QED
    BY <2>1, <2>2
<1>4. ASSUME NEW u \in Uploads, HttpRequest(u) PROVE Used'
  <2>1. up'[u] = "open"
    BY <1>4 DEF HttpRequest, TypeOK
  <2> QED
    BY <2>1 DEF Open
<1>5. ASSUME NEW u \in Uploads, HttpRefused(u) PROVE Used'
  <2>1. /\ UNCHANGED <<pc, daemon_sockfd, ws>> /\ up[u] = "new"
        /\ \A v \in Uploads : v # u => up'[v] = up[v]
    BY <1>5 DEF HttpRefused, webVars, loopVars, TypeOK
  <2> QED
    BY <2>1 DEF Open, Connected
<1>6. ASSUME NEW u \in Uploads, HttpBodyDropped(u) PROVE Used'
  BY <1>6, <1>0 DEF HttpBodyDropped, webVars, loopVars, peerVars
<1>7. ASSUME NEW u \in Uploads, HttpCompletion(u) PROVE Used'
  BY <1>7 DEF HttpCompletion
<1>8. ASSUME NEW u \in Uploads, HttpGone(u) PROVE Used'
  <2>1. up'[u] = "aborted"
    BY <1>8 DEF HttpGone, TypeOK
  <2> QED
    BY <2>1
<1>9. ASSUME NEW u \in Uploads, NEW len \in Lengths, HttpBody(u, len)
      PROVE  Used'
  BY <1>9 DEF HttpBody
<1>10. ASSUME NEW u \in Uploads, NEW len \in Lengths, HttpBodyNoMemory(u, len)
      PROVE  Used'
  <2>1. up'[u] = "aborted"
    BY <1>10 DEF HttpBodyNoMemory, TypeOK
  <2> QED
    BY <2>1
<1>11. ASSUME NEW u \in Uploads, NEW len \in Lengths, HttpBodyCrash(u, len)
      PROVE  Used'
  BY <1>11 DEF HttpBodyCrash, Ends
<1>12. CASE Connect
  <2>1. serving \in Sessions /\ Open(serving)
    BY <1>12 DEF Connect, LoopInv
  <2>2. UNCHANGED <<ws, up>>
    BY <1>12 DEF Connect, peerVars
  <2> QED
    BY <2>1, <2>2 DEF Open
<1>13. CASE HttpClose
  BY <1>13 DEF HttpClose, CloseConnection, Connected
<1>14. CASE Write
  <2>1. serving \in Sessions /\ Open(serving)
    BY <1>14 DEF Write, LoopInv
  <2>2. UNCHANGED <<ws, up>>
    BY <1>14 DEF Write, peerVars
  <2> QED
    BY <2>1, <2>2 DEF Open
<1>15. CASE WriteFails
  <2>1. serving \in Sessions /\ Open(serving)
    BY <1>15 DEF WriteFails, LoopInv
  <2>2. UNCHANGED <<ws, up>>
    BY <1>15 DEF WriteFails, peerVars
  <2> QED
    BY <2>1, <2>2 DEF Open
<1>16. CASE ConnectFails
  BY <1>16 DEF ConnectFails, LoopInv, Connected
<1>17. CASE HandleSigint
  BY <1>17 DEF HandleSigint, Ends
<1>18. ASSUME NEW l \in Locals, LocalConnect(l) PROVE Used'
  BY <1>18, <1>0 DEF LocalConnect, webVars, loopVars, peerVars
<1>19. ASSUME NEW l \in Locals, LocalClose(l) PROVE Used'
  BY <1>19, <1>0 DEF LocalClose, webVars, loopVars, peerVars
<1>20. CASE DaemonAccept
  BY <1>20, <1>0 DEF DaemonAccept, webVars, loopVars, peerVars,
     DaemonUnchanged
<1>21. CASE DaemonRecv
  BY <1>21, <1>0 DEF DaemonRecv, webVars, loopVars, peerVars, DaemonUnchanged
<1>22. CASE DaemonHangup
  BY <1>22, <1>0 DEF DaemonHangup, webVars, loopVars, peerVars,
     DaemonUnchanged
<1>23. CASE DaemonRestart
  BY <1>23, <1>0 DEF DaemonRestart, webVars, loopVars, peerVars,
     DaemonUnchanged
<1>24. CASE UNCHANGED vars
  BY <1>24, <1>0 DEF vars, webVars, loopVars, peerVars
<1> QED
  BY <1>1, <1>2, <1>3, <1>4, <1>5, <1>6, <1>7, <1>8, <1>9, <1>10, <1>11,
     <1>12, <1>13, <1>14, <1>15, <1>16, <1>17, <1>18, <1>19, <1>20, <1>21,
     <1>22, <1>23, <1>24
  DEF Next, Callback, LoopAdvance, DaemonAdvance

-----------------------------------------------------------------------------
(* The inductive invariant.                                                *)

LEMMA InitIInv == ASSUME Init PROVE IInv
<1> USE DEF Init
<1>1. <<>> \in Seq(Chunk) /\ <<>> \in Seq(Conns) /\ 1 \in Lengths
  BY EmptySeq DEF Lengths
<1>2. OpenStreams = {}
  BY DEF OpenStreams
<1>3. CountInv /\ active_ws_connections \in 0..Cardinality(Streams)
  BY <1>2, CountFacts, FS_EmptySet DEF CountInv
<1>4. TypeOK
  BY <1>1, <1>3 DEF TypeOK
<1>5. Lined = <<>> /\ DOMAIN Lined = {}
  BY DEF Lined
<1>6. SessionInv /\ LoopInv /\ BufferInv
  BY DEF SessionInv, LoopInv, BufferInv, Conns, Sessions
<1>7. PlaceInv
  BY <1>5 DEF PlaceInv, Connected
<1>8. SockInv
  BY <1>5 DEF SockInv
<1>9. ChunksInOrder
  BY <1>5 DEF ChunksInOrder, Increasing
<1>10. NoConnectionLeaks
  BY DEF NoConnectionLeaks, Connected, Conns
<1> QED
  BY <1>3, <1>4, <1>6, <1>7, <1>8, <1>9, <1>10 DEF IInv

LEMMA StepIInv == ASSUME IInv, [Next]_vars PROVE IInv'
<1>1. /\ TypeOK /\ SessionInv /\ LoopInv /\ BufferInv /\ CountInv
      /\ PlaceInv /\ SockInv /\ ChunksInOrder /\ NoConnectionLeaks
  BY DEF IInv
<1>2. LineMove
  BY <1>1, LineMoves
<1>3. TypeOK'
  BY <1>1, StepTypes
<1>4. SessionInv'
  BY <1>1, StepSession
<1>5. LoopInv'
  BY <1>1, StepLoop
<1>6. BufferInv'
  BY <1>1, StepBuffer
<1>7. CountInv'
  BY <1>1, StepCount
<1>8. PlaceInv' /\ SockInv' /\ ChunksInOrder'
  BY <1>1, <1>2, StepPlace, StepSock, StepOrder
<1>9. NoConnectionLeaks'
  <2>1. OneEnd /\ Used
    BY <1>1 DEF NoConnectionLeaks, OneEnd, Used
  <2>2. OneEnd' /\ Used'
    BY <1>1, <2>1, StepOneEnd, StepUsed
  <2> QED
    BY <2>2 DEF NoConnectionLeaks, OneEnd, Used
<1> QED
  BY <1>3, <1>4, <1>5, <1>6, <1>7, <1>8, <1>9 DEF IInv

LEMMA Invariance == Spec => []IInv
<1>1. Init => IInv
  BY InitIInv
<1>2. IInv /\ [Next]_vars => IInv'
  BY StepIInv
<1> QED
  BY <1>1, <1>2, PTL DEF Spec

\* Every variable keeps its type; with it, audio_buffer_len never exceeds
\* audio_buffer_size, so that no memcpy() of http_callback goes beyond what
\* was allocated (web_client.c).
THEOREM TypeCorrect == Spec => []TypeOK
<1>1. IInv => TypeOK
  BY DEF IInv
<1> QED
  BY <1>1, Invariance, PTL

\* Neither callback leaves a descriptor behind: there is never more than one
\* connection, and none without a session, open or aborted, to close it.
THEOREM NoneLeaked == Spec => []NoConnectionLeaks
<1>1. IInv => NoConnectionLeaks
  BY DEF IInv
<1> QED
  BY <1>1, Invariance, PTL

\* The daemon plays the browsers' audio in the order in which it came, over
\* any number of connections and restarts.
THEOREM InOrder == Spec => []ChunksInOrder
<1>1. IInv => ChunksInOrder
  BY DEF IInv
<1> QED
  BY <1>1, Invariance, PTL

\* The daemon comes to web_client's connection without its help: who stands
\* before it has hung up already, or is a local client.  An older connection of
\* web_client's own that was still open would hold up both for ever, since the
\* event loop waits in write() while the daemon waits in recv().
NoneStandsBefore ==
  \A i, j \in DOMAIN Lined :
    i < j /\ Lined[j] = daemon_sockfd =>
      Lined[i] \in Locals \/ end[Lined[i]] = "closed"

THEOREM NoCircularWait == Spec => []NoneStandsBefore
<1>1. ASSUME IInv, NEW i \in DOMAIN Lined, NEW j \in DOMAIN Lined, i < j,
             Lined[j] = daemon_sockfd
      PROVE  Lined[i] \in Locals \/ end[Lined[i]] = "closed"
  <2> USE DEF IInv
  <2>1. Lined[i] \in Conns /\ end[Lined[i]] \in {"open", "closed"}
    BY <1>1, LinedFacts DEF PlaceInv, TypeOK
  <2>2. Lined[i] # daemon_sockfd
    BY <1>1, LinedFacts DEF PlaceInv
  <2>3. Lined[i] \in Sessions => end[Lined[i]] # "open"
    BY <1>1, <2>2 DEF NoConnectionLeaks
  <2> QED
    BY <2>1, <2>3 DEF Conns
<1>2. IInv => NoneStandsBefore
  BY <1>1 DEF NoneStandsBefore
<1> QED
  BY <1>2, Invariance, PTL

\* No stream loses its connection to the end of another stream.
THEOREM StreamsKept == Spec => StreamsKeepConnection
<1> DEFINE Keeps == Connected /\ daemon_sockfd' = NoConn =>
                      \/ \A s \in Streams : ws'[s] # "open"
                      \/ pc = "sleep"
<1>1. ASSUME IInv, Next PROVE Keeps
  <2> SUFFICES ASSUME Connected, daemon_sockfd' = NoConn PROVE Keeps
    OBVIOUS
  <2>1. \/ \E s \in Streams : Closed(s) /\ NoStreamLeft
        \/ pc = "sleep" \/ Ends
    BY <1>1 DEF Next, Callback, LoopAdvance, DaemonAdvance, Established,
       Receive, Closed, HttpRequest, HttpRefused, HttpBodyDropped,
       HttpCompletion, HttpGone, HttpBody, HttpBodyNoMemory, HttpBodyCrash,
       Connect, HttpClose, Write, WriteFails, ConnectFails, HandleSigint,
       LocalConnect, LocalClose, DaemonAccept, DaemonRecv, DaemonHangup,
       DaemonRestart, DaemonUnchanged, webVars, Connected, IInv, LoopInv
  <2>2. CASE \E s \in Streams : Closed(s) /\ NoStreamLeft
    BY <1>1, <2>2, LastStream DEF IInv, NoStreamLeft
  <2>3. CASE Ends
    BY <2>3 DEF Ends
  <2> QED
    BY <2>1, <2>2, <2>3
<1>2. IInv /\ [Next]_vars => [Keeps]_vars
  BY <1>1
<1>3. [][Keeps]_vars => StreamsKeepConnection
  BY DEF StreamsKeepConnection, Keeps
<1> QED
  BY <1>2, <1>3, Invariance, PTL DEF Spec
=============================================================================
