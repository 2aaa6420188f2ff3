------------------------- MODULE ControlServer_proof -------------------------
(***************************************************************************)
(* Theorems about ControlServer, for any connections and any requests of    *)
(* the protocol.                                                           *)
(*                                                                         *)
(* NoDescriptorLeak is inductive only with what the thread's place says     *)
(* (ThreadInv): that it has a connection while it serves one.  What a       *)
(* client may be told needs two more facts: a connection is in one place    *)
(* only, so that one that waits is not served as well and none is served    *)
(* twice (PlaceInv); and a reply is the last thing that happens to a        *)
(* connection before it is closed (ReplyInv).                              *)
(***************************************************************************)
EXTENDS ControlServer, SequenceTheorems, TLAPS

Serving == {"recv", "handle", "answer", "close"}

\* Where the thread stands tells whether it has a connection and the lock;
\* nothing assigns the active_client_sock of utils.c.
ThreadInv ==
  /\ client_sock # NoConn <=> cpc \in Serving
  /\ cpc = "accept" => backlog # <<>>
  /\ audio_buffer_lock = "control" <=> cpc = "answer"
  /\ active_client_sock = NoConn

InQueue == {backlog[i] : i \in DOMAIN backlog}

\* A connection is in one place only: it waits once, or is served, or neither.
PlaceInv ==
  /\ \A i, j \in DOMAIN backlog : backlog[i] = backlog[j] => i = j
  /\ client_sock \notin InQueue
  /\ \A c \in Conns : c = client_sock \/ c \in InQueue => conn[c] # "new"

\* What each kind of request can be told.
ReplyTo == [AUDIO_OUTPUT_REQUEST |-> {"not_queued"},
            GET   |-> {"0", "1", "cut", "RESPONSE_UNKNOWN_VARIABLE"},
            SET   |-> {"RESPONSE_OK", "RESPONSE_ERROR"},
            other |-> {"RESPONSE_ERROR"}]

\* A reply suits its request, and its connection is about to be closed or has
\* been.
ReplyInv ==
  /\ cpc \in {"handle", "answer"} => Asked # Nothing
  /\ cpc = "answer" => Asked.kind = "AUDIO_OUTPUT_REQUEST"
  /\ \A c \in Conns : reply[c] # Nothing =>
       /\ request[c] # Nothing
       /\ reply[c] \in ReplyTo[request[c].kind]
       /\ conn[c] # "new"
       /\ c \notin InQueue
       /\ c = client_sock => cpc = "close"

IInv == TypeOK /\ ThreadInv /\ NoDescriptorLeak /\ PlaceInv /\ ReplyInv

USE ControlAssumption

-----------------------------------------------------------------------------
(* The backlog.                                                            *)

\* The first in the queue leaves it, and with it every trace of it.
LEMMA Dequeued ==
  ASSUME NEW S, NEW q \in Seq(S), q # <<>>
  PROVE  /\ Head(q) \in {q[i] : i \in DOMAIN q}
         /\ Head(q) \in S /\ Tail(q) \in Seq(S)
         /\ (\A i, j \in DOMAIN q : q[i] = q[j] => i = j) =>
              /\ \A i, j \in DOMAIN Tail(q) : Tail(q)[i] = Tail(q)[j] => i = j
              /\ {Tail(q)[i] : i \in DOMAIN Tail(q)}
                   = {q[i] : i \in DOMAIN q} \ {Head(q)}
<1> DEFINE t == Tail(q)
           n == Len(q)
<1>1. n \in Nat \ {0} /\ DOMAIN q = 1..n /\ Head(q) = q[1]
  BY EmptySeq, LenProperties
<1>2. /\ t \in Seq(S) /\ Head(q) \in S /\ Len(t) = n - 1
      /\ \A i \in 1..(n - 1) : t[i] = q[i + 1]
  BY HeadTailProperties
<1>3. DOMAIN t = 1..(n - 1)
  BY <1>2, LenProperties
<1> HIDE DEF t, n
<1>4. ASSUME \A i, j \in DOMAIN q : q[i] = q[j] => i = j
      PROVE  /\ \A i, j \in DOMAIN t : t[i] = t[j] => i = j
             /\ {t[i] : i \in DOMAIN t} = {q[i] : i \in DOMAIN q} \ {q[1]}
  <2>1. ASSUME NEW i \in DOMAIN t, NEW j \in DOMAIN t, t[i] = t[j] PROVE i = j
    <3>1. i + 1 \in DOMAIN q /\ j + 1 \in DOMAIN q /\ q[i + 1] = q[j + 1]
      BY <1>1, <1>2, <1>3, <2>1
    <3>2. QED
      BY <1>3, <1>4, <3>1
  <2>2. ASSUME NEW i \in DOMAIN t
        PROVE  t[i] \in {q[k] : k \in DOMAIN q} \ {q[1]}
    <3>1. i + 1 \in DOMAIN q /\ 1 \in DOMAIN q /\ t[i] = q[i + 1] /\ i + 1 # 1
      BY <1>1, <1>2, <1>3
    <3>2. QED
      BY <1>4, <3>1
  <2>3. ASSUME NEW k \in DOMAIN q, q[k] # q[1]
        PROVE  q[k] \in {t[i] : i \in DOMAIN t}
    <3>1. k - 1 \in DOMAIN t /\ t[k - 1] = q[k]
      BY <1>1, <1>2, <1>3, <2>3
    <3>2. QED
      BY <3>1
  <2>4. QED
    BY <2>1, <2>2, <2>3
<1>5. Head(q) \in {q[i] : i \in DOMAIN q}
  BY <1>1
<1>6. QED
  BY <1>1, <1>2, <1>4, <1>5 DEF t

\* A newcomer is the last.
LEMMA Enqueued ==
  ASSUME NEW S, NEW q \in Seq(S), NEW e \in S
  PROVE  /\ Append(q, e) \in Seq(S)
         /\ {Append(q, e)[i] : i \in DOMAIN Append(q, e)}
              = {q[i] : i \in DOMAIN q} \cup {e}
         /\ /\ \A i, j \in DOMAIN q : q[i] = q[j] => i = j
            /\ e \notin {q[i] : i \in DOMAIN q}
            => \A i, j \in DOMAIN Append(q, e) :
                 Append(q, e)[i] = Append(q, e)[j] => i = j
<1> DEFINE a == Append(q, e)
           n == Len(q)
<1>1. n \in Nat /\ DOMAIN q = 1..n
  BY LenProperties
<1>2. /\ a \in Seq(S) /\ Len(a) = n + 1 /\ a[n + 1] = e
      /\ \A i \in 1..n : a[i] = q[i]
  BY AppendProperties
<1>3. DOMAIN a = 1..(n + 1)
  BY <1>2, LenProperties
<1> HIDE DEF a, n
<1>4. n + 1 \in DOMAIN a /\ \A i \in DOMAIN a : i = n + 1 \/ i \in DOMAIN q
  BY <1>1, <1>3
<1>5. DOMAIN q \subseteq DOMAIN a
  BY <1>1, <1>3
<1>6. {a[i] : i \in DOMAIN a} = {q[i] : i \in DOMAIN q} \cup {e}
  BY <1>1, <1>2, <1>4, <1>5
<1>7. ASSUME \A i, j \in DOMAIN q : q[i] = q[j] => i = j,
             e \notin {q[i] : i \in DOMAIN q}
      PROVE  \A i, j \in DOMAIN a : a[i] = a[j] => i = j
  BY <1>1, <1>2, <1>4, <1>7
<1>8. QED
  BY <1>2, <1>6, <1>7 DEF a

-----------------------------------------------------------------------------
LEMMA InitIInv == Init => IInv
<1> SUFFICES ASSUME Init PROVE IInv
  OBVIOUS
<1> USE DEF Init
<1>1. TypeOK
  <2>1. sample \in [Names -> Ints]
    BY DEF Names, Ints
  <2>2. backlog \in Seq(Conns)
    BY EmptySeq
  <2> QED
    BY <2>1, <2>2 DEF TypeOK
<1>2. ThreadInv /\ NoDescriptorLeak
  BY DEF ThreadInv, NoDescriptorLeak, Serving
<1>3. InQueue = {} /\ DOMAIN backlog = {}
  BY DEF InQueue
<1>4. PlaceInv
  BY <1>3 DEF PlaceInv
<1>5. ReplyInv
  BY DEF ReplyInv
<1> QED
  BY <1>1, <1>2, <1>4, <1>5 DEF IInv

\* Types.
LEMMA StepTypes == TypeOK /\ ThreadInv /\ [Next]_vars => TypeOK'
<1> SUFFICES ASSUME TypeOK, ThreadInv, [Next]_vars PROVE TypeOK'
  OBVIOUS
<1>1. CASE Setup
  BY <1>1 DEF TypeOK, Setup, Goes, audioVars, clientVars
<1>2. CASE SelectReady
  BY <1>2 DEF TypeOK, SelectReady, Goes, audioVars, clientVars
<1>3. CASE SelectTimeout
  BY <1>3 DEF TypeOK, SelectTimeout, Goes, AfterTimeout, audioVars, clientVars
<1>4. CASE Accept
  <2>1. Head(backlog) \in Conns /\ Tail(backlog) \in Seq(Conns)
    BY <1>4, Dequeued DEF TypeOK, ThreadInv, Accept, Goes
  <2> QED
    BY <1>4, <2>1 DEF TypeOK, Accept, Goes, audioVars
<1>5. CASE AcceptError
  BY <1>5 DEF TypeOK, AcceptError, Goes, audioVars, clientVars
<1>6. CASE Shut
  <2>1. backlog' \in Seq(Conns)
    BY <1>6, EmptySeq DEF Shut
  <2> QED
    BY <1>6, <2>1 DEF TypeOK, Shut, Goes, audioVars
<1>7. CASE Recv
  BY <1>7 DEF TypeOK, Recv, Goes, Asked, audioVars, clientVars
<1>8. CASE RecvFails
  BY <1>8 DEF TypeOK, RecvFails, ClosesFirst, Goes, Asked, audioVars,
     clientVars
<1>9. CASE HandleOutputRequest
  BY <1>9 DEF TypeOK, HandleOutputRequest, Goes, Asked, audioVars, clientVars
<1>10. CASE HandleGet
  <2>1. PICK name \in NameIn(Asked) :
          Answer(IF name \in Names THEN Shown(sample[name])
                                   ELSE "RESPONSE_UNKNOWN_VARIABLE")
    BY <1>10 DEF HandleGet
  <2>2. ASSUME name \in Names PROVE Shown(sample[name]) \in Replies
    BY <2>2 DEF TypeOK, Shown, Ints, Replies
  <2>3. reply' \in [Conns -> Replies \cup {Nothing}]
    BY <2>1, <2>2 DEF TypeOK, Answer, Replies
  <2> QED
    BY <1>10, <2>3 DEF TypeOK, HandleGet, Goes, audioVars
<1>11. CASE HandleSet
  <2>1. PICK name \in NameIn(Asked), value \in ValueIn(Asked) :
          /\ sample' = IF name \in Names
                       THEN [sample EXCEPT ![name] = Atoi(value)] ELSE sample
          /\ Answer(IF name \in Names THEN "RESPONSE_OK" ELSE "RESPONSE_ERROR")
    BY <1>11 DEF HandleSet
  <2>2. Atoi(value) \in Ints
    BY DEF Atoi, Ints
  <2>3. sample' \in [Names -> Ints]
    BY <2>1, <2>2 DEF TypeOK
  <2>4. reply' \in [Conns -> Replies \cup {Nothing}]
    BY <2>1 DEF TypeOK, Answer, Replies
  <2> QED
    BY <1>11, <2>3, <2>4 DEF TypeOK, HandleSet, Goes, audioVars
<1>12. CASE HandleOther
  <2>1. reply' \in [Conns -> Replies \cup {Nothing}]
    BY <1>12 DEF TypeOK, HandleOther, Answer, Replies
  <2> QED
    BY <1>12, <2>1 DEF TypeOK, HandleOther, Goes, ReleasesLock, audioVars
<1>13. CASE AnswerOutputRequest
  <2>1. reply' \in [Conns -> Replies \cup {Nothing}]
    BY <1>13 DEF TypeOK, AnswerOutputRequest, Answer, Replies
  <2> QED
    BY <1>13, <2>1 DEF TypeOK, AnswerOutputRequest, Goes, ReleasesLock,
       audioVars
<1>14. CASE Close
  BY <1>14 DEF TypeOK, Close, Goes, audioVars, clientVars
<1>15. CASE SelectError
  BY <1>15 DEF TypeOK, SelectError, Goes, audioVars, clientVars
<1>16. CASE OutputLock
  BY <1>16 DEF TypeOK, OutputLock, AudioUnchanged, audioVars, clientVars
<1>17. CASE OutputUnlock
  BY <1>17 DEF TypeOK, OutputUnlock, AudioUnchanged, audioVars, clientVars
<1>18. CASE MainLoop
  BY <1>18 DEF TypeOK, MainLoop, MainUnchanged, audioVars, clientVars
<1>19. CASE MainJoin
  BY <1>19 DEF TypeOK, MainJoin, MainUnchanged, audioVars, clientVars
<1>20. CASE HandleSigint
  BY <1>20 DEF TypeOK, HandleSigint, audioVars, clientVars
<1>21. CASE HandleSigintInControl
  BY <1>21 DEF TypeOK, HandleSigintInControl, Goes, audioVars, clientVars
<1>22. ASSUME NEW c \in Conns, Connect(c) PROVE TypeOK'
  <2>1. backlog' \in Seq(Conns)
    BY <1>22, Enqueued DEF TypeOK, Connect
  <2> QED
    BY <1>22, <2>1 DEF TypeOK, Connect, ClientUnchanged, audioVars
<1>23. ASSUME NEW c \in Conns, Send(c) PROVE TypeOK'
  BY <1>23 DEF TypeOK, Send, ClientUnchanged, audioVars, clientVars
<1>24. ASSUME NEW c \in Conns, Hangup(c) PROVE TypeOK'
  BY <1>24 DEF TypeOK, Hangup, ClientUnchanged, audioVars, clientVars
<1>25. ASSUME NEW c \in Conns, Again(c) PROVE TypeOK'
  BY <1>25 DEF TypeOK, Again, ClientUnchanged, InBacklog, audioVars, clientVars
<1>26. CASE UNCHANGED vars
  BY <1>26 DEF TypeOK, vars, audioVars, clientVars
<1> QED
  BY <1>1, <1>2, <1>3, <1>4, <1>5, <1>6, <1>7, <1>8, <1>9, <1>10, <1>11,
     <1>12, <1>13, <1>14, <1>15, <1>16, <1>17, <1>18, <1>19, <1>20, <1>21,
     <1>22, <1>23, <1>24, <1>25, <1>26
  DEF Next, ControlAdvance

\* Where the thread stands.
LEMMA StepThread == TypeOK /\ ThreadInv /\ [Next]_vars => ThreadInv'
<1> SUFFICES ASSUME TypeOK, ThreadInv, [Next]_vars PROVE ThreadInv'
  OBVIOUS
<1>1. CASE Setup
  BY <1>1 DEF ThreadInv, Serving, Setup, Goes, audioVars, clientVars
<1>2. CASE SelectReady
  BY <1>2 DEF ThreadInv, Serving, SelectReady, Goes, audioVars, clientVars
<1>3. CASE SelectTimeout
  BY <1>3 DEF ThreadInv, Serving, SelectTimeout, Goes, AfterTimeout,
     audioVars, clientVars
<1>4. CASE Accept
  <2>1. Head(backlog) \in Conns
    BY <1>4, Dequeued DEF TypeOK, ThreadInv, Accept, Goes
  <2> QED
    BY <1>4, <2>1 DEF ThreadInv, Serving, Accept, Goes, audioVars
<1>5. CASE AcceptError
  BY <1>5 DEF ThreadInv, Serving, AcceptError, Goes, audioVars, clientVars
<1>6. CASE Shut
  BY <1>6 DEF ThreadInv, Serving, Shut, Goes, audioVars, clientVars
<1>7. CASE Recv
  BY <1>7 DEF ThreadInv, Serving, Recv, Goes, Asked, audioVars, clientVars
<1>8. CASE RecvFails
  BY <1>8 DEF ThreadInv, Serving, RecvFails, ClosesFirst, Goes, Asked,
     audioVars, clientVars
<1>9. CASE HandleOutputRequest
  BY <1>9 DEF ThreadInv, Serving, HandleOutputRequest, Goes, Asked,
     audioVars, clientVars
<1>10. CASE HandleGet
  BY <1>10 DEF ThreadInv, Serving, HandleGet, Goes, Asked, Answer, audioVars,
     clientVars
<1>11. CASE HandleSet
  BY <1>11 DEF ThreadInv, Serving, HandleSet, Goes, Asked, Answer, audioVars,
     clientVars
<1>12. CASE HandleOther
  BY <1>12 DEF ThreadInv, Serving, HandleOther, Goes, Asked, Answer,
     audioVars, clientVars
<1>13. CASE AnswerOutputRequest
  BY <1>13 DEF ThreadInv, Serving, AnswerOutputRequest, Goes, Answer,
     ReleasesLock, audioVars, clientVars
<1>14. CASE Close
  BY <1>14 DEF ThreadInv, Serving, Close, Goes, audioVars, clientVars
<1>15. CASE SelectError
  BY <1>15 DEF ThreadInv, Serving, SelectError, Goes, audioVars, clientVars
<1>16. CASE OutputLock
  BY <1>16 DEF ThreadInv, Serving, OutputLock, AudioUnchanged, audioVars,
     clientVars
<1>17. CASE OutputUnlock
  BY <1>17 DEF ThreadInv, Serving, OutputUnlock, AudioUnchanged, audioVars,
     clientVars
<1>18. CASE MainLoop
  BY <1>18 DEF ThreadInv, Serving, MainLoop, MainUnchanged, audioVars,
     clientVars
<1>19. CASE MainJoin
  BY <1>19 DEF ThreadInv, Serving, MainJoin, MainUnchanged, audioVars,
     clientVars
<1>20. CASE HandleSigint
  BY <1>20 DEF ThreadInv, Serving, HandleSigint, audioVars, clientVars
<1>21. CASE HandleSigintInControl
  BY <1>21 DEF ThreadInv, Serving, HandleSigintInControl, Goes, audioVars,
     clientVars
<1>22. ASSUME NEW c \in Conns, Connect(c) PROVE ThreadInv'
  <2>1. backlog' # <<>>
    BY <1>22, AppendProperties DEF TypeOK, Connect
  <2> QED
    BY <1>22, <2>1 DEF ThreadInv, Serving, Connect, ClientUnchanged, audioVars
<1>23. ASSUME NEW c \in Conns, Send(c) PROVE ThreadInv'
  BY <1>23 DEF ThreadInv, Serving, Send, ClientUnchanged, audioVars, clientVars
<1>24. ASSUME NEW c \in Conns, Hangup(c) PROVE ThreadInv'
  BY <1>24 DEF ThreadInv, Serving, Hangup, ClientUnchanged, audioVars,
     clientVars
<1>25. ASSUME NEW c \in Conns, Again(c) PROVE ThreadInv'
  BY <1>25 DEF ThreadInv, Serving, Again, ClientUnchanged, InBacklog,
     audioVars, clientVars
<1>26. CASE UNCHANGED vars
  BY <1>26 DEF ThreadInv, Serving, vars, audioVars, clientVars
<1> QED
  BY <1>1, <1>2, <1>3, <1>4, <1>5, <1>6, <1>7, <1>8, <1>9, <1>10, <1>11,
     <1>12, <1>13, <1>14, <1>15, <1>16, <1>17, <1>18, <1>19, <1>20, <1>21,
     <1>22, <1>23, <1>24, <1>25, <1>26
  DEF Next, ControlAdvance

\* The descriptors.
LEMMA StepDescriptors ==
  ThreadInv /\ NoDescriptorLeak /\ [Next]_vars => NoDescriptorLeak'
<1> SUFFICES ASSUME ThreadInv, NoDescriptorLeak, [Next]_vars
             PROVE  NoDescriptorLeak'
  OBVIOUS
<1>1. CASE Setup
  BY <1>1 DEF NoDescriptorLeak, ThreadInv, Serving, Setup, Goes, audioVars,
     clientVars
<1>2. CASE SelectReady
  BY <1>2 DEF NoDescriptorLeak, ThreadInv, Serving, SelectReady, Goes,
     audioVars, clientVars
<1>3. CASE SelectTimeout
  BY <1>3 DEF NoDescriptorLeak, ThreadInv, Serving, SelectTimeout, Goes,
     AfterTimeout, audioVars, clientVars
<1>4. CASE Accept
  BY <1>4 DEF NoDescriptorLeak, ThreadInv, Serving, Accept, Goes, audioVars,
     clientVars
<1>5. CASE AcceptError
  BY <1>5 DEF NoDescriptorLeak, ThreadInv, Serving, AcceptError, Goes,
     audioVars, clientVars
<1>6. CASE Shut
  BY <1>6 DEF NoDescriptorLeak, ThreadInv, Serving, Shut, Goes, audioVars,
     clientVars
<1>7. CASE Recv
  BY <1>7 DEF NoDescriptorLeak, ThreadInv, Serving, Recv, Goes, Asked,
     audioVars, clientVars
<1>8. CASE RecvFails
  BY <1>8 DEF NoDescriptorLeak, ThreadInv, Serving, RecvFails, ClosesFirst,
     Goes, Asked, audioVars, clientVars
<1>9. CASE HandleOutputRequest
  BY <1>9 DEF NoDescriptorLeak, ThreadInv, Serving, HandleOutputRequest,
     Goes, Asked, audioVars, clientVars
<1>10. CASE HandleGet
  BY <1>10 DEF NoDescriptorLeak, ThreadInv, Serving, HandleGet, Goes, Asked,
     Answer, audioVars, clientVars
<1>11. CASE HandleSet
  BY <1>11 DEF NoDescriptorLeak, ThreadInv, Serving, HandleSet, Goes, Asked,
     Answer, audioVars, clientVars
<1>12. CASE HandleOther
  BY <1>12 DEF NoDescriptorLeak, ThreadInv, Serving, HandleOther, Goes,
     Asked, Answer, audioVars, clientVars
<1>13. CASE AnswerOutputRequest
  BY <1>13 DEF NoDescriptorLeak, ThreadInv, Serving, AnswerOutputRequest,
     Goes, Answer, ReleasesLock, audioVars, clientVars
<1>14. CASE Close
  BY <1>14 DEF NoDescriptorLeak, ThreadInv, Serving, Close, Goes, audioVars,
     clientVars
<1>15. CASE SelectError
  BY <1>15 DEF NoDescriptorLeak, ThreadInv, Serving, SelectError, Goes,
     audioVars, clientVars
<1>16. CASE OutputLock
  BY <1>16 DEF NoDescriptorLeak, ThreadInv, Serving, OutputLock,
     AudioUnchanged, audioVars, clientVars
<1>17. CASE OutputUnlock
  BY <1>17 DEF NoDescriptorLeak, ThreadInv, Serving, OutputUnlock,
     AudioUnchanged, audioVars, clientVars
<1>18. CASE MainLoop
  BY <1>18 DEF NoDescriptorLeak, ThreadInv, Serving, MainLoop, MainUnchanged,
     audioVars, clientVars
<1>19. CASE MainJoin
  BY <1>19 DEF NoDescriptorLeak, ThreadInv, Serving, MainJoin, MainUnchanged,
     audioVars, clientVars
<1>20. CASE HandleSigint
  BY <1>20 DEF NoDescriptorLeak, ThreadInv, Serving, HandleSigint, audioVars,
     clientVars
<1>21. CASE HandleSigintInControl
  BY <1>21 DEF NoDescriptorLeak, ThreadInv, Serving, HandleSigintInControl,
     Goes, audioVars, clientVars
<1>22. ASSUME NEW c \in Conns, Connect(c) PROVE NoDescriptorLeak'
  BY <1>22 DEF NoDescriptorLeak, ThreadInv, Serving, Connect,
     ClientUnchanged, audioVars, clientVars
<1>23. ASSUME NEW c \in Conns, Send(c) PROVE NoDescriptorLeak'
  BY <1>23 DEF NoDescriptorLeak, ThreadInv, Serving, Send, ClientUnchanged,
     audioVars, clientVars
<1>24. ASSUME NEW c \in Conns, Hangup(c) PROVE NoDescriptorLeak'
  BY <1>24 DEF NoDescriptorLeak, ThreadInv, Serving, Hangup, ClientUnchanged,
     audioVars, clientVars
<1>25. ASSUME NEW c \in Conns, Again(c) PROVE NoDescriptorLeak'
  BY <1>25 DEF NoDescriptorLeak, ThreadInv, Serving, Again, ClientUnchanged,
     InBacklog, audioVars, clientVars
<1>26. CASE UNCHANGED vars
  BY <1>26 DEF NoDescriptorLeak, ThreadInv, Serving, vars, audioVars,
     clientVars
<1> QED
  BY <1>1, <1>2, <1>3, <1>4, <1>5, <1>6, <1>7, <1>8, <1>9, <1>10, <1>11,
     <1>12, <1>13, <1>14, <1>15, <1>16, <1>17, <1>18, <1>19, <1>20, <1>21,
     <1>22, <1>23, <1>24, <1>25, <1>26
  DEF Next, ControlAdvance

\* The backlog, when it changes.
LEMMA StepQueue ==
  ASSUME TypeOK, PlaceInv
  PROVE  /\ Accept /\ ThreadInv => /\ Head(backlog) \in InQueue
                                  /\ InQueue' = InQueue \ {Head(backlog)}
         /\ Shut => InQueue' = {}
         /\ \A c \in Conns : Connect(c) => InQueue' = InQueue \cup {c}
         /\ backlog' = backlog => InQueue' = InQueue
<1>1. ASSUME Accept, ThreadInv
      PROVE  Head(backlog) \in InQueue /\ InQueue' = InQueue \ {Head(backlog)}
  <2>1. backlog \in Seq(Conns) /\ backlog # <<>> /\ backlog' = Tail(backlog)
    BY <1>1 DEF TypeOK, ThreadInv, Accept, Goes
  <2> QED
    BY <2>1, Dequeued DEF PlaceInv, InQueue
<1>2. ASSUME Shut PROVE InQueue' = {}
  BY <1>2 DEF Shut, InQueue
<1>3. ASSUME NEW c \in Conns, Connect(c) PROVE InQueue' = InQueue \cup {c}
  BY <1>3, Enqueued DEF TypeOK, Connect, InQueue
<1>4. ASSUME backlog' = backlog PROVE InQueue' = InQueue
  BY <1>4 DEF InQueue
<1> QED
  BY <1>1, <1>2, <1>3, <1>4

\* A connection is in one place.
LEMMA StepPlace ==
  TypeOK /\ ThreadInv /\ NoDescriptorLeak /\ PlaceInv /\ [Next]_vars => PlaceInv'
<1> SUFFICES ASSUME TypeOK, ThreadInv, NoDescriptorLeak, PlaceInv, [Next]_vars
             PROVE  PlaceInv'
  OBVIOUS
<1>1. CASE Setup
  BY <1>1 DEF PlaceInv, InQueue, Setup, Goes, audioVars, clientVars
<1>2. CASE SelectReady
  BY <1>2 DEF PlaceInv, InQueue, SelectReady, Goes, audioVars, clientVars
<1>3. CASE SelectTimeout
  BY <1>3 DEF PlaceInv, InQueue, SelectTimeout, Goes, AfterTimeout,
     audioVars, clientVars
<1>4. CASE Accept
  <2>1. Head(backlog) \in InQueue /\ InQueue' = InQueue \ {Head(backlog)}
    BY <1>4, StepQueue
  <2>2. \A i, j \in DOMAIN backlog' : backlog'[i] = backlog'[j] => i = j
    BY <1>4, Dequeued DEF TypeOK, ThreadInv, PlaceInv, Accept, Goes
  <2>3. client_sock' = Head(backlog) /\ conn' = conn
    BY <1>4 DEF Accept
  <2> QED
    BY <2>1, <2>2, <2>3 DEF PlaceInv
<1>5. CASE AcceptError
  BY <1>5 DEF PlaceInv, InQueue, AcceptError, Goes, audioVars, clientVars
<1>6. CASE Shut
  <2>1. InQueue' = {} /\ DOMAIN backlog' = {}
    BY <1>6, StepQueue DEF Shut
  <2>2. client_sock' = client_sock /\ conn' = conn
    BY <1>6 DEF Shut
  <2> QED
    BY <2>1, <2>2 DEF PlaceInv
<1>7. CASE Recv
  BY <1>7 DEF PlaceInv, InQueue, Recv, Goes, Asked, audioVars, clientVars
<1>8. CASE RecvFails
  BY <1>8 DEF PlaceInv, InQueue, RecvFails, ClosesFirst, Goes, Asked,
     audioVars, clientVars
<1>9. CASE HandleOutputRequest
  BY <1>9 DEF PlaceInv, InQueue, HandleOutputRequest, Goes, Asked, audioVars,
     clientVars
<1>10. CASE HandleGet
  BY <1>10 DEF PlaceInv, InQueue, HandleGet, Goes, Asked, Answer, audioVars,
     clientVars
<1>11. CASE HandleSet
  BY <1>11 DEF PlaceInv, InQueue, HandleSet, Goes, Asked, Answer, audioVars,
     clientVars
<1>12. CASE HandleOther
  BY <1>12 DEF PlaceInv, InQueue, HandleOther, Goes, Asked, Answer,
     audioVars, clientVars
<1>13. CASE AnswerOutputRequest
  BY <1>13 DEF PlaceInv, InQueue, AnswerOutputRequest, Goes, Answer,
     ReleasesLock, audioVars, clientVars
<1>14. CASE Close
  <2>1. InQueue \subseteq Conns
    BY LenProperties, ElementOfSeq DEF TypeOK, InQueue
  <2>2. InQueue' = InQueue
    BY <1>14, StepQueue DEF Close, clientVars
  <2>3. client_sock' = NoConn /\ conn' = conn /\ backlog' = backlog
    BY <1>14 DEF Close, clientVars
  <2> QED
    BY <2>1, <2>2, <2>3 DEF PlaceInv
<1>15. CASE SelectError
  BY <1>15 DEF PlaceInv, InQueue, SelectError, Goes, audioVars, clientVars
<1>16. CASE OutputLock
  BY <1>16 DEF PlaceInv, InQueue, OutputLock, AudioUnchanged, audioVars,
     clientVars
<1>17. CASE OutputUnlock
  BY <1>17 DEF PlaceInv, InQueue, OutputUnlock, AudioUnchanged, audioVars,
     clientVars
<1>18. CASE MainLoop
  BY <1>18 DEF PlaceInv, InQueue, MainLoop, MainUnchanged, audioVars,
     clientVars
<1>19. CASE MainJoin
  BY <1>19 DEF PlaceInv, InQueue, MainJoin, MainUnchanged, audioVars,
     clientVars
<1>20. CASE HandleSigint
  BY <1>20 DEF PlaceInv, InQueue, HandleSigint, audioVars, clientVars
<1>21. CASE HandleSigintInControl
  BY <1>21 DEF PlaceInv, InQueue, HandleSigintInControl, Goes, audioVars,
     clientVars
<1>22. ASSUME NEW c \in Conns, Connect(c) PROVE PlaceInv'
  <2>1. InQueue' = InQueue \cup {c} /\ conn[c] = "new" /\ c \notin InQueue
    BY <1>22, StepQueue DEF Connect, PlaceInv
  <2>2. \A i, j \in DOMAIN backlog' : backlog'[i] = backlog'[j] => i = j
    BY <1>22, <2>1, Enqueued DEF TypeOK, PlaceInv, Connect, InQueue
  <2>3. client_sock' = client_sock /\ conn' = [conn EXCEPT ![c] = "open"]
    BY <1>22 DEF Connect, ClientUnchanged
  <2>4. c # client_sock
    BY <2>1 DEF PlaceInv
  <2> QED
    BY <2>1, <2>2, <2>3, <2>4 DEF PlaceInv, TypeOK
<1>23. ASSUME NEW c \in Conns, Send(c) PROVE PlaceInv'
  BY <1>23 DEF PlaceInv, InQueue, Send, ClientUnchanged, audioVars, clientVars
<1>24. ASSUME NEW c \in Conns, Hangup(c) PROVE PlaceInv'
  <2>1. InQueue' = InQueue /\ backlog' = backlog
    BY <1>24, StepQueue DEF Hangup
  <2>2. client_sock' = client_sock /\ conn' = [conn EXCEPT ![c] = "gone"]
    BY <1>24 DEF Hangup, ClientUnchanged
  <2> QED
    BY <2>1, <2>2 DEF PlaceInv, TypeOK
<1>25. ASSUME NEW c \in Conns, Again(c) PROVE PlaceInv'
  <2>1. InQueue' = InQueue /\ backlog' = backlog /\ c \notin InQueue
    BY <1>25, StepQueue DEF Again, InBacklog, InQueue
  <2>2. client_sock' = client_sock /\ conn' = [conn EXCEPT ![c] = "new"]
    BY <1>25 DEF Again, ClientUnchanged
  <2>3. c # client_sock
    BY <1>25 DEF Again, NoDescriptorLeak, ThreadInv, Serving
  <2> QED
    BY <2>1, <2>2, <2>3 DEF PlaceInv, TypeOK
<1>26. CASE UNCHANGED vars
  BY <1>26 DEF PlaceInv, InQueue, vars, audioVars, clientVars
<1> QED
  BY <1>1, <1>2, <1>3, <1>4, <1>5, <1>6, <1>7, <1>8, <1>9, <1>10, <1>11,
     <1>12, <1>13, <1>14, <1>15, <1>16, <1>17, <1>18, <1>19, <1>20, <1>21,
     <1>22, <1>23, <1>24, <1>25, <1>26
  DEF Next, ControlAdvance

\* Replies.
LEMMA StepReply == IInv /\ [Next]_vars => ReplyInv'
<1> SUFFICES ASSUME IInv, [Next]_vars PROVE ReplyInv'
  OBVIOUS
<1>0. backlog' = backlog => InQueue' = InQueue
  BY StepQueue DEF IInv
<1>1. CASE Setup
  BY <1>1, <1>0 DEF ReplyInv, Asked, IInv, ThreadInv, PlaceInv, TypeOK,
     Serving, Setup, Goes, audioVars, clientVars
<1>2. CASE SelectReady
  BY <1>2, <1>0 DEF ReplyInv, Asked, IInv, ThreadInv, PlaceInv, TypeOK,
     Serving, SelectReady, Goes, audioVars, clientVars
<1>3. CASE SelectTimeout
  BY <1>3, <1>0 DEF ReplyInv, Asked, IInv, ThreadInv, PlaceInv, TypeOK,
     Serving, SelectTimeout, Goes, AfterTimeout, audioVars, clientVars
<1>4. CASE Accept
  <2>1. Head(backlog) \in InQueue /\ InQueue' = InQueue \ {Head(backlog)}
    BY <1>4, StepQueue DEF IInv
  <2> QED
    BY <1>4, <2>1 DEF IInv, TypeOK, ReplyInv, Accept, Goes, Asked
<1>5. CASE AcceptError
  BY <1>5, <1>0 DEF ReplyInv, Asked, IInv, ThreadInv, PlaceInv, TypeOK,
     Serving, AcceptError, Goes, audioVars, clientVars
<1>6. CASE Shut
  <2>1. InQueue' = {}
    BY <1>6, StepQueue DEF IInv
  <2> QED
    BY <1>6, <2>1 DEF IInv, ThreadInv, Serving, TypeOK, ReplyInv, Shut, Goes,
       Asked
<1>7. CASE Recv
  BY <1>7, <1>0 DEF ReplyInv, Asked, IInv, ThreadInv, PlaceInv, TypeOK,
     Serving, Recv, Goes, Asked, audioVars, clientVars
<1>8. CASE RecvFails
  BY <1>8, <1>0 DEF ReplyInv, Asked, IInv, ThreadInv, PlaceInv, TypeOK,
     Serving, RecvFails, ClosesFirst, Goes, Asked, audioVars, clientVars
<1>9. CASE HandleOutputRequest
  BY <1>9, <1>0 DEF ReplyInv, Asked, IInv, ThreadInv, PlaceInv, TypeOK,
     Serving, HandleOutputRequest, Goes, Asked, audioVars, clientVars
<1>10. CASE HandleGet
  <2>1. PICK text \in {"0", "1", "cut", "RESPONSE_UNKNOWN_VARIABLE"} : Answer(text)
    BY <1>10 DEF HandleGet, IInv, TypeOK, Shown, Ints
  <2> QED
    BY <1>10, <1>0, <2>1 DEF ReplyInv, IInv, ThreadInv, PlaceInv, TypeOK,
       Serving,
       ReplyTo, HandleGet, Goes, Asked, Answer, audioVars
<1>11. CASE HandleSet
  <2>1. PICK text \in {"RESPONSE_OK", "RESPONSE_ERROR"} : Answer(text)
    BY <1>11 DEF HandleSet
  <2> QED
    BY <1>11, <1>0, <2>1 DEF ReplyInv, IInv, ThreadInv, PlaceInv, TypeOK,
       Serving,
       ReplyTo, HandleSet, Goes, Asked, Answer, audioVars
<1>12. CASE HandleOther
  <2>1. PICK text \in {"RESPONSE_ERROR"} : Answer(text)
    BY <1>12 DEF HandleOther
  <2> QED
    BY <1>12, <1>0, <2>1 DEF ReplyInv, IInv, ThreadInv, PlaceInv, TypeOK,
       Serving,
       ReplyTo, HandleOther, Goes, Asked, Answer, audioVars
<1>13. CASE AnswerOutputRequest
  <2>1. PICK text \in {"not_queued"} : Answer(text)
    BY <1>13 DEF AnswerOutputRequest, IInv, ThreadInv
  <2> QED
    BY <1>13, <1>0, <2>1 DEF ReplyInv, IInv, ThreadInv, PlaceInv, TypeOK,
       Serving,
       ReplyTo, AnswerOutputRequest, Goes, Asked, Answer, audioVars
<1>14. CASE Close
  BY <1>14, <1>0 DEF ReplyInv, Asked, IInv, ThreadInv, PlaceInv, TypeOK,
     Serving, Close, Goes, audioVars, clientVars
<1>15. CASE SelectError
  BY <1>15, <1>0 DEF ReplyInv, Asked, IInv, ThreadInv, PlaceInv, TypeOK,
     Serving, SelectError, Goes, audioVars, clientVars
<1>16. CASE OutputLock
  BY <1>16, <1>0 DEF ReplyInv, Asked, IInv, ThreadInv, PlaceInv, TypeOK,
     Serving, OutputLock, AudioUnchanged, audioVars, clientVars
<1>17. CASE OutputUnlock
  BY <1>17, <1>0 DEF ReplyInv, Asked, IInv, ThreadInv, PlaceInv, TypeOK,
     Serving, OutputUnlock, AudioUnchanged, audioVars, clientVars
<1>18. CASE MainLoop
  BY <1>18, <1>0 DEF ReplyInv, Asked, IInv, ThreadInv, PlaceInv, TypeOK,
     Serving, MainLoop, MainUnchanged, audioVars, clientVars
<1>19. CASE MainJoin
  BY <1>19, <1>0 DEF ReplyInv, Asked, IInv, ThreadInv, PlaceInv, TypeOK,
     Serving, MainJoin, MainUnchanged, audioVars, clientVars
<1>20. CASE HandleSigint
  BY <1>20, <1>0 DEF ReplyInv, Asked, IInv, ThreadInv, PlaceInv, TypeOK,
     Serving, HandleSigint, audioVars, clientVars
<1>21. CASE HandleSigintInControl
  BY <1>21, <1>0 DEF ReplyInv, Asked, IInv, ThreadInv, PlaceInv, TypeOK,
     Serving, HandleSigintInControl, Goes, audioVars, clientVars
<1>22. ASSUME NEW c \in Conns, Connect(c) PROVE ReplyInv'
  <2>1. InQueue' = InQueue \cup {c}
    BY <1>22, StepQueue DEF IInv
  <2> QED
    BY <1>22, <2>1 DEF IInv, ReplyInv, TypeOK, Connect, ClientUnchanged, Asked
<1>23. ASSUME NEW c \in Conns, Send(c) PROVE ReplyInv'
  BY <1>23, <1>0 DEF ReplyInv, Asked, IInv, ThreadInv, PlaceInv, TypeOK,
     Serving, Send, ClientUnchanged, audioVars, clientVars
<1>24. ASSUME NEW c \in Conns, Hangup(c) PROVE ReplyInv'
  BY <1>24, <1>0 DEF ReplyInv, Asked, IInv, ThreadInv, PlaceInv, TypeOK,
     Serving, Hangup, ClientUnchanged, audioVars, clientVars
<1>25. ASSUME NEW c \in Conns, Again(c) PROVE ReplyInv'
  BY <1>25, <1>0 DEF ReplyInv, Asked, IInv, ThreadInv, PlaceInv, TypeOK,
     Serving, NoDescriptorLeak, Again, ClientUnchanged
<1>26. CASE UNCHANGED vars
  BY <1>26, <1>0 DEF ReplyInv, Asked, IInv, ThreadInv, PlaceInv, TypeOK,
     Serving, vars, audioVars, clientVars
<1> QED
  BY <1>1, <1>2, <1>3, <1>4, <1>5, <1>6, <1>7, <1>8, <1>9, <1>10, <1>11,
     <1>12, <1>13, <1>14, <1>15, <1>16, <1>17, <1>18, <1>19, <1>20, <1>21,
     <1>22, <1>23, <1>24, <1>25, <1>26
  DEF Next, ControlAdvance

LEMMA StepIInv == IInv /\ [Next]_vars => IInv'
BY StepTypes, StepThread, StepDescriptors, StepPlace, StepReply DEF IInv

LEMMA Invariance == Spec => []IInv
BY InitIInv, StepIInv, PTL DEF Spec

-----------------------------------------------------------------------------
\* The types of the whole state.
THEOREM TypeCorrect == Spec => []TypeOK
<1>1. IInv => TypeOK
  BY DEF IInv
<1> QED
  BY Invariance, <1>1, PTL

\* Every path through handle_control_client closes the descriptor it was given.
THEOREM DescriptorsClosed == Spec => []NoDescriptorLeak
<1>1. IInv => NoDescriptorLeak
  BY DEF IInv
<1> QED
  BY Invariance, <1>1, PTL

\* The thread holds audio_buffer_lock while it answers AUDIO_OUTPUT_REQUEST and
\* at no other time: it neither waits for a client with the lock held, which
\* would stop the player, nor ends with it.
LockHeldToAnswer == audio_buffer_lock = "control" <=> cpc = "answer"

THEOREM LockGivenBack == Spec => []LockHeldToAnswer
<1>1. IInv => LockHeldToAnswer
  BY DEF IInv, ThreadInv, LockHeldToAnswer
<1> QED
  BY Invariance, <1>1, PTL

\* What a client is told is an answer to what that client asked, whatever
\* else is read, lost, cut or interrupted; and nobody is ever told that it
\* will be queued, although the AO server may well be serving someone.
RepliesSuit ==
  \A c \in Conns : reply[c] # Nothing =>
    request[c] # Nothing /\ reply[c] \in ReplyTo[request[c].kind]

THEOREM RepliesSuitRequests == Spec => []RepliesSuit
<1>1. IInv => RepliesSuit
  BY DEF IInv, ReplyInv, RepliesSuit
<1> QED
  BY Invariance, <1>1, PTL

\* A connection is told one thing at most: what it was told stays until the
\* connection is over at both ends and stands for the next client.
OneReply ==
  [][\A c \in Conns : reply[c] # Nothing =>
       reply'[c] = reply[c] \/ (conn[c] = "gone" /\ conn'[c] = "new")]_vars

THEOREM RepliesStand == Spec => OneReply
<1>1. IInv /\ [Next]_vars =>
        [\A c \in Conns : reply[c] # Nothing =>
           reply'[c] = reply[c] \/ (conn[c] = "gone" /\ conn'[c] = "new")]_vars
  <2> SUFFICES ASSUME IInv, Next, NEW d \in Conns, reply[d] # Nothing
               PROVE  reply'[d] = reply[d] \/ (conn[d] = "gone" /\ conn'[d] = "new")
    OBVIOUS
  <2>1. CASE reply' = reply
    BY <2>1
  <2>2. CASE HandleGet \/ HandleSet \/ HandleOther \/ AnswerOutputRequest
    <3>1. /\ cpc \in {"handle", "answer"}
          /\ \A c \in Conns \ {client_sock} : reply'[c] = reply[c]
      BY <2>2 DEF HandleGet, HandleSet, HandleOther, AnswerOutputRequest,
         Goes, Answer, IInv, TypeOK
    <3>2. d # client_sock
      BY <3>1 DEF IInv, ReplyInv
    <3> QED
      BY <3>1, <3>2
  <2>3. ASSUME NEW c \in Conns, Again(c)
        PROVE  reply'[d] = reply[d] \/ (conn[d] = "gone" /\ conn'[d] = "new")
    BY <2>3 DEF Again, IInv, TypeOK
  <2>4. \/ reply' = reply \/ \E c \in Conns : Again(c)
        \/ HandleGet \/ HandleSet \/ HandleOther \/ AnswerOutputRequest
    BY DEF Next, ControlAdvance, Setup, SelectReady, SelectTimeout, Accept,
       AcceptError, Shut, Recv, RecvFails, HandleOutputRequest, Close,
       SelectError, OutputLock, OutputUnlock, AudioUnchanged, MainLoop,
       MainJoin, MainUnchanged, HandleSigint, HandleSigintInControl, Connect,
       Send, Hangup, ClientUnchanged, clientVars
  <2> QED
    BY <2>1, <2>2, <2>3, <2>4
<1> QED
  BY Invariance, <1>1, PTL DEF Spec, OneReply
=============================================================================
