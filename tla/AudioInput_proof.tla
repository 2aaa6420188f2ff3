-------------------------- MODULE AudioInput_proof --------------------------
(***************************************************************************)
(* Theorems about AudioInput, for any connections, descriptors, frames and *)
(* room in the sockets.                                                    *)
(*                                                                         *)
(* The strengthening IInv says, in this order: where the threads stand     *)
(* tells who has the lock, the frame and the socket just accepted; every   *)
(* open descriptor belongs to a node or to the server; a connection is in  *)
(* one place only, and one that is not listed yet has been sent nothing;   *)
(* and the nodes before the walk have been tried with this frame, the      *)
(* others have not.                                                        *)
(***************************************************************************)
EXTENDS AudioInput, SequenceTheorems, TLAPS

ThreadInv ==
  /\ client_list_lock = IF rpc \in {"walk", "unlink"} THEN "record" ELSE "none"
  /\ held <=> rpc \in {"lock", "walk", "unlink", "release"}
  /\ spc = "add" <=> client_sock # 0
  /\ mpc = "boot" => spc = "none"
  /\ spc \in {"none", "setup"} => rpc = "none"
  /\ spc \in {"closing", "shut"} => rpc = "done"
  /\ spc = "done" => rpc \in {"none", "done"}
  /\ mpc \in {"disable", "done"} => spc \in {"none", "done"}
  /\ ~ai_enabled => mpc = "done"

\* The walk is at a node of the list or just after the last one.
WalkInv ==
  /\ rpc = "walk" => current \in 1..(Len(client_list_head) + 1)
  /\ rpc = "unlink" => current \in 1..Len(client_list_head)

\* What select() found is still there when accept() is called.
QueueInv == spc = "accept" => backlog # <<>>

ControlInv == ThreadInv /\ WalkInv /\ QueueInv

\* SocketOwnership, descriptor by descriptor.
OwnInv ==
  /\ client_sock # 0 => fdtab[client_sock] # NoConn
  /\ \A i \in OwningNodes : /\ fdtab[client_list_head[i]] # NoConn
                            /\ client_list_head[i] # client_sock
  /\ \A i, j \in OwningNodes :
       client_list_head[i] = client_list_head[j] => i = j
  /\ \A fd \in Fds : fdtab[fd] # NoConn =>
       fd = client_sock \/ \E i \in OwningNodes : client_list_head[i] = fd

Waiting == {backlog[i] : i \in DOMAIN backlog}

\* The connections that are not in the list yet.
Fresh == {c \in Conns : \/ conn[c] = "new"
                        \/ c \in Waiting
                        \/ client_sock # 0 /\ fdtab[client_sock] = c}

ConnInv ==
  /\ \A f, g \in Fds : fdtab[f] = fdtab[g] /\ fdtab[f] # NoConn => f = g
  /\ \A f \in Fds, c \in Conns :
       fdtab[f] = c => conn[c] # "new" /\ c \notin Waiting
  /\ \A i, j \in DOMAIN backlog : backlog[i] = backlog[j] => i = j
  /\ \A c \in Waiting : conn[c] # "new"
  /\ \A c \in Fresh : tried[c] = 0 /\ ~torn[c]
  /\ \A c \in Conns : torn[c] => \A f \in Fds : fdtab[f] # c

FrameInv ==
  /\ \A c \in Conns : rx[c] <= tried[c] /\ tried[c] <= frame
  /\ rpc \in {"lock", "walk", "unlink"} => frame > 0
  /\ rpc = "lock" => \A c \in Conns : tried[c] < frame
  /\ rpc \in {"walk", "unlink"} => \A i \in OwningNodes :
       /\ i < current => tried[fdtab[client_list_head[i]]] = frame
       /\ i >= current => tried[fdtab[client_list_head[i]]] < frame

IInv == TypeOK /\ ControlInv /\ OwnInv /\ ConnInv /\ FrameInv

-----------------------------------------------------------------------------
(* The two ways in which the list changes.                                 *)

\* RemoveAt takes one element out and keeps the order of the others.
LEMMA Removed ==
  ASSUME NEW S, NEW s \in Seq(S), NEW i \in 1..Len(s)
  PROVE  /\ RemoveAt(s, i) \in Seq(S)
         /\ Len(RemoveAt(s, i)) = Len(s) - 1
         /\ \A j \in 1..(Len(s) - 1) :
              RemoveAt(s, i)[j] = IF j < i THEN s[j] ELSE s[j + 1]
<1>1. \A j \in 1..Len(s) : s[j] \in S
  BY ElementOfSeq
<1>2. Len(s) \in Nat
  BY LenProperties
<1> DEFINE before == SubSeq(s, 1, i - 1)
           after == SubSeq(s, i + 1, Len(s))
<1>3. /\ before \in Seq(S) /\ Len(before) = i - 1
      /\ \A j \in 1..(i - 1) : before[j] = s[j]
  BY <1>1, <1>2, SubSeqProperties
<1>4. /\ after \in Seq(S) /\ Len(after) = Len(s) - i
      /\ \A j \in 1..(Len(s) - i) : after[j] = s[i + j]
  BY <1>1, <1>2, SubSeqProperties
<1> HIDE DEF before, after
<1>5. /\ before \o after \in Seq(S)
      /\ Len(before \o after) = Len(s) - 1
      /\ \A j \in 1..(Len(s) - 1) :
           (before \o after)[j] = IF j < i THEN s[j] ELSE s[j + 1]
  <2>1. /\ before \o after \in Seq(S)
        /\ Len(before \o after) = Len(before) + Len(after)
        /\ \A j \in 1..(Len(before) + Len(after)) :
             (before \o after)[j] = IF j <= Len(before)
                                    THEN before[j]
                                    ELSE after[j - Len(before)]
    BY <1>3, <1>4, ConcatProperties
  <2>2. i \in Int /\ Len(before) = i - 1 /\ Len(before) + Len(after) = Len(s) - 1
    BY <1>2, <1>3, <1>4
  <2>3. ASSUME NEW j \in 1..(Len(s) - 1)
        PROVE  (before \o after)[j] = IF j < i THEN s[j] ELSE s[j + 1]
    <3>1. CASE j < i
      BY <1>2, <1>3, <2>1, <2>2, <3>1
    <3>2. CASE ~(j < i)
      <4>1. j - (i - 1) \in 1..(Len(s) - i) /\ i + (j - (i - 1)) = j + 1
        BY <1>2, <2>2, <3>2
      <4>2. after[j - (i - 1)] = s[j + 1]
        BY <1>4, <4>1
      <4>3. QED
        BY <1>2, <2>1, <2>2, <3>2, <4>2
    <3>3. QED
      BY <3>1, <3>2
  <2>4. QED
    BY <2>1, <2>2, <2>3
<1>6. RemoveAt(s, i) = before \o after
  BY DEF RemoveAt, before, after
<1>7. QED
  BY <1>5, <1>6

\* A node put before the list moves every other one up by one.
LEMMA Prepended ==
  ASSUME NEW S, NEW s \in Seq(S), NEW e \in S
  PROVE  /\ <<e>> \o s \in Seq(S)
         /\ Len(<<e>> \o s) = Len(s) + 1
         /\ (<<e>> \o s)[1] = e
         /\ \A j \in 2..(Len(s) + 1) : (<<e>> \o s)[j] = s[j - 1]
<1>1. <<e>> \in Seq(S) /\ Len(<<e>>) = 1 /\ <<e>>[1] = e
  OBVIOUS
<1>2. Len(s) \in Nat
  BY LenProperties
<1>3. QED
  BY <1>1, <1>2, ConcatProperties

-----------------------------------------------------------------------------
(* Types.                                                                  *)

\* The initial state satisfies the invariant.
LEMMA InitIInv == Init => IInv
<1> SUFFICES ASSUME Init PROVE IInv
  OBVIOUS
<1>1. /\ <<>> \in Seq(Fds) /\ <<>> \in Seq(Conns) /\ Len(<<>>) = 0
      /\ client_list_head = <<>> /\ backlog = <<>>
  BY EmptySeq DEF Init
<1>2. OwningNodes = {} /\ Waiting = {}
  BY <1>1 DEF OwningNodes, Waiting
<1>3. TypeOK
  <2>1. /\ fdtab \in [Fds -> Conns \cup {NoConn}]
        /\ conn \in [Conns -> {"new", "open", "gone"}]
        /\ rx \in [Conns -> Nat] /\ tried \in [Conns -> Nat]
        /\ torn \in [Conns -> BOOLEAN]
    BY DEF Init
  <2>2. queued \in [Conns -> 0..SockCap]
    BY InputAssumption DEF Init
  <2>3. QED
    BY <1>1, <2>1, <2>2 DEF Init, TypeOK
<1>4. ControlInv
  BY <1>1 DEF Init, ControlInv, ThreadInv, WalkInv, QueueInv
<1>5. OwnInv
  BY <1>2 DEF Init, OwnInv
<1>6. ConnInv
  BY <1>1, <1>2, InputAssumption DEF Init, ConnInv, Fresh
<1>7. FrameInv
  BY <1>2 DEF Init, FrameInv
<1>8. QED
  BY <1>3, <1>4, <1>5, <1>6, <1>7 DEF IInv

Kicks == SendPartial \/ SendToGone \/ SendError

\* No action gives a variable a value of another type.
LEMMA TypeStep == TypeOK /\ ControlInv /\ [Next]_vars => TypeOK'
<1> SUFFICES ASSUME TypeOK, ControlInv, [Next]_vars
             PROVE  TypeOK'
  OBVIOUS
<1> USE InputAssumption
    DEF TypeOK, serverVars, recordVars, listVars, mainVars, socketVars,
        history, ServerGoes, MainUnchanged, EnvUnchanged, SendUnchanged,
        ListIsFree
<1>1. CASE ServerSetupFails \/ ServerSpawn \/ ServerSpawnFails
  <2>1. CASE ServerSetupFails
    BY <2>1 DEF ServerSetupFails
  <2>2. CASE ServerSpawn
    BY <2>2 DEF ServerSpawn
  <2>3. CASE ServerSpawnFails
    BY <2>3 DEF ServerSpawnFails
  <2>4. QED
    BY <1>1, <2>1, <2>2, <2>3
<1>2. CASE ServerTop \/ SelectReady \/ SelectTimeout \/ SelectError
  BY <1>2 DEF ServerTop, SelectReady, SelectTimeout, SelectError, StopSeen
<1>3. CASE ServerAccept
  <2>1. Head(backlog) \in Conns /\ Tail(backlog) \in Seq(Conns)
    BY <1>3, HeadTailProperties DEF ServerAccept, ControlInv, QueueInv
  <2>2. QED
    BY <1>3, <2>1 DEF ServerAccept
<1>4. CASE ServerAcceptError \/ ServerJoin
  BY <1>4 DEF ServerAcceptError, BacksOff, ServerJoin, RecordEnded
<1>5. CASE AddClient
  <2>1. client_sock \in Fds
    BY <1>5 DEF AddClient, ControlInv, ThreadInv
  <2>2. <<client_sock>> \o client_list_head \in Seq(Fds)
    BY <2>1, Prepended
  <2>3. QED
    BY <1>5, <2>2 DEF AddClient
<1>6. CASE AddClientFails
  BY <1>6 DEF AddClientFails
<1>7. CASE ServerShut
  <2>1. <<>> \in Seq(Conns)
    BY EmptySeq
  <2>2. QED
    BY <1>7, <2>1 DEF ServerShut
<1>8. CASE ServerCloseAll
  <2>1. <<>> \in Seq(Fds)
    BY EmptySeq
  <2>2. QED
    BY <1>8, <2>1 DEF ServerCloseAll
<1>9. CASE RecordTop \/ RecordGet \/ RecordGetFails \/ RecordRelease
  <2>1. CASE RecordTop
    BY <2>1 DEF RecordTop
  <2>2. CASE RecordGet
    BY <2>2 DEF RecordGet
  <2>3. CASE RecordGetFails
    BY <2>3 DEF RecordGetFails
  <2>4. CASE RecordRelease
    BY <2>4 DEF RecordRelease
  <2>5. QED
    BY <1>9, <2>1, <2>2, <2>3, <2>4
<1>10. CASE RecordLock \/ RecordUnlock
  BY <1>10 DEF RecordLock, RecordUnlock
<1>11. CASE SendWhole
  <2>1. /\ queued' = [queued EXCEPT ![Client] = @ + 1]
        /\ Client \in Conns /\ queued[Client] < SockCap
    BY <1>11 DEF SendWhole
  <2>2. queued' \in [Conns -> 0..SockCap]
    BY <2>1
  <2>3. QED
    BY <1>11, <2>2 DEF SendWhole, Pass
<1>12. CASE SendFull
  BY <1>12 DEF SendFull, AfterFull, Pass
<1>13. CASE SendPartial
  <2>1. /\ queued' = [queued EXCEPT ![Client] = @ + 1]
        /\ Client \in Conns /\ queued[Client] < SockCap
    BY <1>13 DEF SendPartial
  <2>2. queued' \in [Conns -> 0..SockCap]
    BY <2>1
  <2>3. QED
    BY <1>13, <2>2 DEF SendPartial, AfterPartial, Kick
<1>14. CASE SendToGone \/ SendError
  <2>1. CASE SendToGone
    BY <2>1 DEF SendToGone, Kick
  <2>2. CASE SendError
    BY <2>2 DEF SendError, Kick
  <2>3. QED
    BY <1>14, <2>1, <2>2
<1>15. CASE RecordUnlink
  <2>1. Unlinked \in Seq(Fds)
    BY <1>15, Removed DEF RecordUnlink, Unlinked, ControlInv, WalkInv
  <2>2. QED
    BY <1>15, <2>1 DEF RecordUnlink, NodeAfter
<1>16. CASE MainAdvance
  <2>1. CASE MainCreateServer
    BY <2>1 DEF MainCreateServer
  <2>2. CASE MainCreateFails
    BY <2>2 DEF MainCreateFails
  <2>3. CASE MainLoop
    BY <2>3 DEF MainLoop
  <2>4. CASE MainJoin
    BY <2>4 DEF MainJoin
  <2>5. CASE MainDisable
    BY <2>5 DEF MainDisable
  <2>6. QED
    BY <1>16, <2>1, <2>2, <2>3, <2>4, <2>5 DEF MainAdvance
<1>17. CASE HandleSigint
  BY <1>17 DEF HandleSigint
<1>18. ASSUME NEW c \in Conns, ClientConnect(c) PROVE TypeOK'
  <2>1. Append(backlog, c) \in Seq(Conns)
    BY AppendProperties
  <2>2. QED
    BY <1>18, <2>1 DEF ClientConnect
<1>19. ASSUME NEW c \in Conns, ClientRead(c) PROVE TypeOK'
  <2>1. queued' = [queued EXCEPT ![c] = @ - 1] /\ queued[c] > 0
    BY <1>19 DEF ClientRead
  <2>2. queued' \in [Conns -> 0..SockCap]
    BY <2>1
  <2>3. QED
    BY <1>19, <2>2 DEF ClientRead
<1>20. ASSUME NEW c \in Conns, ClientClose(c) PROVE TypeOK'
  BY <1>20 DEF ClientClose
<1>21. CASE UNCHANGED vars
  BY <1>21 DEF vars
<1>22. QED
  BY <1>1, <1>2, <1>3, <1>4, <1>5, <1>6, <1>7, <1>8, <1>9, <1>10, <1>11,
     <1>12, <1>13, <1>14, <1>15, <1>16, <1>17, <1>18, <1>19, <1>20, <1>21
     DEF Next, ServerAdvance, RecordAdvance, ClientStep

-----------------------------------------------------------------------------
(* Control.                                                                *)

\* Who has the lock, the frame and the socket just accepted.
LEMMA ThreadStep == TypeOK /\ ThreadInv /\ [Next]_vars => ThreadInv'
<1> SUFFICES ASSUME TypeOK, ThreadInv, [Next]_vars
             PROVE  ThreadInv'
  OBVIOUS
<1>0. 0 \notin Fds /\ client_sock \in Fds \cup {0} /\ held \in BOOLEAN
      /\ ai_enabled \in BOOLEAN
  BY DEF Fds, TypeOK
<1> USE <1>0
    DEF ThreadInv, serverVars, recordVars, listVars, mainVars, ServerGoes,
        MainUnchanged, EnvUnchanged, SendUnchanged, ListIsFree
<1>1. CASE ServerSetupFails
  BY <1>1 DEF ServerSetupFails
<1>2. CASE ServerSpawn
  BY <1>2 DEF ServerSpawn
<1>3. CASE ServerSpawnFails
  BY <1>3 DEF ServerSpawnFails
<1>4. CASE ServerTop
  BY <1>4 DEF ServerTop
<1>5. CASE SelectReady
  BY <1>5 DEF SelectReady
<1>6. CASE SelectTimeout
  BY <1>6 DEF SelectTimeout
<1>7. CASE SelectError
  BY <1>7 DEF SelectError
<1>8. CASE ServerAccept
  BY <1>8 DEF ServerAccept
<1>9. CASE ServerAcceptError
  BY <1>9 DEF ServerAcceptError, BacksOff
<1>10. CASE AddClient
  BY <1>10 DEF AddClient
<1>11. CASE AddClientFails
  BY <1>11 DEF AddClientFails
<1>12. CASE ServerJoin
  BY <1>12 DEF ServerJoin, RecordEnded
<1>13. CASE ServerCloseAll
  BY <1>13 DEF ServerCloseAll
<1>14. CASE ServerShut
  BY <1>14 DEF ServerShut
<1>15. CASE RecordTop
  BY <1>15 DEF RecordTop
<1>16. CASE RecordGet
  BY <1>16 DEF RecordGet
<1>17. CASE RecordGetFails
  BY <1>17 DEF RecordGetFails
<1>18. CASE RecordLock
  BY <1>18 DEF RecordLock
<1>19. CASE SendWhole
  BY <1>19 DEF SendWhole, Pass
<1>20. CASE SendFull
  BY <1>20 DEF SendFull, AfterFull, Pass
<1>21. CASE SendPartial
  BY <1>21 DEF SendPartial, AtNode, AfterPartial, Kick
<1>22. CASE SendToGone
  BY <1>22 DEF SendToGone, AtNode, Kick
<1>23. CASE SendError
  BY <1>23 DEF SendError, AtNode, Kick
<1>24. CASE RecordUnlink
  BY <1>24 DEF RecordUnlink
<1>25. CASE RecordUnlock
  BY <1>25 DEF RecordUnlock
<1>26. CASE RecordRelease
  BY <1>26 DEF RecordRelease
<1>27. CASE MainCreateServer
  BY <1>27 DEF MainCreateServer
<1>28. CASE MainCreateFails
  BY <1>28 DEF MainCreateFails
<1>29. CASE MainLoop
  BY <1>29 DEF MainLoop
<1>30. CASE MainJoin
  BY <1>30 DEF MainJoin
<1>31. CASE MainDisable
  BY <1>31 DEF MainDisable
<1>32. CASE HandleSigint
  BY <1>32 DEF HandleSigint
<1>33. ASSUME NEW c \in Conns, ClientConnect(c) \/ ClientRead(c) \/ ClientClose(c)
       PROVE  ThreadInv'
  BY <1>33 DEF ClientConnect, ClientRead, ClientClose
<1>34. CASE UNCHANGED vars
  BY <1>34 DEF vars
<1>35. QED
  BY <1>1, <1>2, <1>3, <1>4, <1>5, <1>6, <1>7, <1>8, <1>9, <1>10, <1>11,
     <1>12, <1>13, <1>14, <1>15, <1>16, <1>17, <1>18, <1>19, <1>20, <1>21,
     <1>22, <1>23, <1>24, <1>25, <1>26, <1>27, <1>28, <1>29, <1>30, <1>31,
     <1>32, <1>33, <1>34
     DEF Next, ServerAdvance, RecordAdvance, MainAdvance, ClientStep

walkVars == <<rpc, current, client_list_head>>

\* Only the record thread moves along the list; the server thread changes the
\* list only when nobody walks it.
LEMMA WalkMoves ==
  ThreadInv /\ [Next]_vars =>
    \/ UNCHANGED walkVars
    \/ rpc' \notin {"walk", "unlink"}
    \/ RecordLock \/ SendWhole \/ SendFull \/ Kicks \/ RecordUnlink
<1> SUFFICES ASSUME ThreadInv, [Next]_vars,
                    ~(\/ RecordLock \/ SendWhole \/ SendFull \/ Kicks
                      \/ RecordUnlink)
             PROVE  UNCHANGED walkVars \/ rpc' \notin {"walk", "unlink"}
  OBVIOUS
<1> USE DEF walkVars, recordVars, listVars
<1>1. CASE UNCHANGED vars
  BY <1>1 DEF vars
<1>2. CASE AddClient \/ ServerCloseAll
  BY <1>2 DEF AddClient, ServerCloseAll, ListIsFree, ThreadInv
<1>3. CASE \/ ServerSetupFails \/ ServerSpawn \/ ServerSpawnFails \/ ServerTop
           \/ SelectReady \/ SelectTimeout \/ SelectError \/ ServerAccept
           \/ ServerAcceptError \/ AddClientFails \/ ServerJoin \/ ServerShut
  BY <1>3 DEF ServerSetupFails, ServerSpawn, ServerSpawnFails, ServerTop,
     SelectReady, SelectTimeout, SelectError, ServerAccept, ServerAcceptError,
     AddClientFails, ServerJoin, ServerShut
<1>4. CASE \/ RecordTop \/ RecordGet \/ RecordGetFails \/ RecordUnlock
           \/ RecordRelease
  BY <1>4 DEF RecordTop, RecordGet, RecordGetFails, RecordUnlock, RecordRelease
<1>5. CASE MainAdvance \/ HandleSigint \/ ClientStep
  BY <1>5 DEF MainAdvance, MainUnchanged, MainCreateServer, MainCreateFails,
     MainLoop, MainJoin, MainDisable, HandleSigint, EnvUnchanged, ClientStep,
     ClientConnect, ClientRead, ClientClose
<1>6. QED
  BY <1>1, <1>2, <1>3, <1>4, <1>5 DEF Next, ServerAdvance, RecordAdvance, Kicks

\* What the three sends that kick a client have in common.
LEMMA KickStep ==
  Kicks => /\ rpc = "walk" /\ current <= Len(client_list_head)
           /\ rpc' = "unlink"
           /\ fdtab' = [fdtab EXCEPT ![client_list_head[current]] = NoConn]
           /\ UNCHANGED <<current, client_list_head, client_sock, frame,
                          backlog, conn>>
  BY DEF Kicks, SendPartial, SendToGone, SendError, AtNode, AfterPartial, Kick,
     SendUnchanged, listVars, serverVars, mainVars

\* The walk stays inside the list.
LEMMA WalkStep == TypeOK /\ ThreadInv /\ WalkInv /\ [Next]_vars => WalkInv'
<1> SUFFICES ASSUME TypeOK, ThreadInv, WalkInv, [Next]_vars
             PROVE  WalkInv'
  OBVIOUS
<1>0. client_list_head \in Seq(Fds) /\ Len(client_list_head) \in Nat
      /\ current \in Nat
  BY LenProperties DEF TypeOK
<1>1. CASE UNCHANGED walkVars
  BY <1>1 DEF walkVars, WalkInv
<1>2. CASE rpc' \notin {"walk", "unlink"}
  BY <1>2 DEF WalkInv
<1>3. CASE RecordLock
  BY <1>0, <1>3 DEF RecordLock, WalkInv
<1>4. CASE SendWhole \/ SendFull
  <2>1. /\ rpc = "walk" /\ current <= Len(client_list_head)
        /\ rpc' = "walk" /\ current' = current + 1
        /\ UNCHANGED client_list_head
    BY <1>4 DEF SendWhole, SendFull, AfterFull, Pass, AtNode, SendUnchanged,
       listVars, mainVars
  <2>2. QED
    BY <1>0, <2>1 DEF WalkInv
<1>5. CASE Kicks
  BY <1>0, <1>5, KickStep DEF WalkInv
<1>6. CASE RecordUnlink
  <2>1. /\ current \in 1..Len(client_list_head)
        /\ rpc' = "walk" /\ current' = current
        /\ client_list_head' = RemoveAt(client_list_head, current)
    BY <1>6 DEF RecordUnlink, NodeAfter, Unlinked, WalkInv
  <2>2. Len(client_list_head') = Len(client_list_head) - 1
    BY <1>0, <2>1, Removed
  <2>3. QED
    BY <1>0, <2>1, <2>2 DEF WalkInv
<1>7. QED
  BY <1>1, <1>2, <1>3, <1>4, <1>5, <1>6, WalkMoves

\* Nobody but accept() takes a connection out of the queue before the server
\* thread is done with it.
LEMMA QueueStep == TypeOK /\ QueueInv /\ [Next]_vars => QueueInv'
<1> SUFFICES ASSUME TypeOK, QueueInv, [Next]_vars, spc' = "accept"
             PROVE  backlog' # <<>>
  BY DEF QueueInv
<1>1. CASE SelectReady
  BY <1>1 DEF SelectReady, socketVars
<1>2. ASSUME NEW c \in Conns, ClientConnect(c)
      PROVE  backlog' # <<>>
  <2>1. backlog \in Seq(Conns) /\ backlog' = Append(backlog, c)
    BY <1>2 DEF TypeOK, ClientConnect
  <2>2. QED
    BY <2>1, AppendProperties
<1>3. CASE spc = "accept" /\ UNCHANGED backlog
  BY <1>3 DEF QueueInv
<1> USE DEF ServerGoes, serverVars, socketVars
<1>4. CASE ServerAdvance \/ SelectError
  BY <1>1, <1>4 DEF ServerAdvance, ServerSetupFails, ServerSpawn,
     ServerSpawnFails, ServerTop, SelectTimeout, SelectError, ServerAccept,
     ServerAcceptError, BacksOff, AddClient, AddClientFails, ServerJoin,
     ServerCloseAll, ServerShut
<1>5. CASE RecordAdvance \/ SendError
  BY <1>3, <1>5 DEF RecordAdvance, RecordTop, RecordGet, RecordGetFails,
     RecordLock, SendUnchanged, SendWhole, SendPartial, SendFull, SendToGone,
     SendError, RecordUnlink, RecordUnlock, RecordRelease
<1>6. CASE MainAdvance \/ HandleSigint
  BY <1>3, <1>6 DEF MainAdvance, MainUnchanged, MainCreateServer,
     MainCreateFails, MainLoop, MainJoin, MainDisable, HandleSigint
<1>7. CASE ClientStep
  BY <1>2, <1>3, <1>7 DEF ClientStep, EnvUnchanged, ClientRead, ClientClose
<1>8. CASE UNCHANGED vars
  BY <1>3, <1>8 DEF vars
<1>9. QED
  BY <1>4, <1>5, <1>6, <1>7, <1>8 DEF Next

\* No action breaks ControlInv.
LEMMA ControlStep == TypeOK /\ ControlInv /\ [Next]_vars => ControlInv'
  BY ThreadStep, WalkStep, QueueStep DEF ControlInv

-----------------------------------------------------------------------------
(* Who owns the descriptors.                                               *)

ownVars == <<fdtab, client_list_head, client_sock>>

OwnersKept == /\ UNCHANGED ownVars
              /\ \/ UNCHANGED <<rpc, current>>
                 \/ rpc # "unlink" /\ rpc' # "unlink"

\* Only six kinds of steps change the descriptors, the list, or what owns what.
LEMMA OwnMoves ==
  ThreadInv /\ [Next]_vars =>
    \/ OwnersKept
    \/ ServerAccept \/ AddClient \/ AddClientFails \/ ServerCloseAll
    \/ Kicks \/ RecordUnlink
<1> SUFFICES ASSUME ThreadInv, [Next]_vars,
                    ~(\/ ServerAccept \/ AddClient \/ AddClientFails
                      \/ ServerCloseAll \/ Kicks \/ RecordUnlink)
             PROVE  OwnersKept
  OBVIOUS
<1> USE DEF OwnersKept, ownVars, recordVars, listVars, serverVars, socketVars
<1>1. CASE UNCHANGED vars
  BY <1>1 DEF vars
<1>2. CASE \/ ServerSetupFails \/ ServerSpawnFails \/ ServerTop
           \/ SelectReady \/ SelectTimeout \/ SelectError
           \/ ServerAcceptError \/ ServerJoin \/ ServerShut
  BY <1>2 DEF ServerSetupFails, ServerSpawnFails, ServerTop, SelectReady,
     SelectTimeout, SelectError, ServerAcceptError, ServerJoin, ServerShut
<1>2a. CASE ServerSpawn
  BY <1>2a DEF ServerSpawn, ServerGoes, ThreadInv
<1>3. CASE \/ RecordTop \/ RecordGet \/ RecordGetFails \/ RecordLock
           \/ RecordUnlock \/ RecordRelease
  BY <1>3 DEF RecordTop, RecordGet, RecordGetFails, RecordLock, RecordUnlock,
     RecordRelease
<1>4. CASE SendWhole \/ SendFull
  BY <1>4 DEF SendWhole, SendFull, AfterFull, Pass, SendUnchanged, AtNode
<1>5. CASE MainAdvance \/ HandleSigint \/ ClientStep
  BY <1>5 DEF MainAdvance, MainUnchanged, MainCreateServer, MainCreateFails,
     MainLoop, MainJoin, MainDisable, HandleSigint, EnvUnchanged, ClientStep,
     ClientConnect, ClientRead, ClientClose
<1>6. QED
  BY <1>1, <1>2, <1>2a, <1>3, <1>4, <1>5 DEF Next, ServerAdvance, RecordAdvance,
     Kicks

\* When a node is unlinked the others keep their sockets: those before it stay
\* where they are, those behind it move up.
LEMMA UnlinkStep ==
  TypeOK /\ ControlInv /\ RecordUnlink =>
    /\ current \in 1..Len(client_list_head)
    /\ rpc = "unlink" /\ rpc' = "walk"
    /\ UNCHANGED <<fdtab, client_sock, current, frame, rx, tried>>
    /\ OwningNodes = (1..Len(client_list_head)) \ {current}
    /\ OwningNodes' = 1..(Len(client_list_head) - 1)
    /\ \A j \in OwningNodes' :
         \/ /\ j < current /\ j \in OwningNodes
            /\ client_list_head'[j] = client_list_head[j]
         \/ /\ j >= current /\ j + 1 \in OwningNodes
            /\ client_list_head'[j] = client_list_head[j + 1]
<1> SUFFICES ASSUME TypeOK, ControlInv, RecordUnlink
             PROVE  /\ current \in 1..Len(client_list_head)
                    /\ rpc = "unlink" /\ rpc' = "walk"
                    /\ UNCHANGED <<fdtab, client_sock, current, frame, rx, tried>>
                    /\ OwningNodes = (1..Len(client_list_head)) \ {current}
                    /\ OwningNodes' = 1..(Len(client_list_head) - 1)
                    /\ \A j \in OwningNodes' :
                         \/ /\ j < current /\ j \in OwningNodes
                            /\ client_list_head'[j] = client_list_head[j]
                         \/ /\ j >= current /\ j + 1 \in OwningNodes
                            /\ client_list_head'[j] = client_list_head[j + 1]
  OBVIOUS
<1>1. /\ client_list_head \in Seq(Fds) /\ Len(client_list_head) \in Nat
      /\ DOMAIN client_list_head = 1..Len(client_list_head)
  BY LenProperties DEF TypeOK
<1>2. /\ current \in 1..Len(client_list_head)
      /\ rpc = "unlink" /\ rpc' = "walk"
      /\ client_list_head' = RemoveAt(client_list_head, current)
      /\ UNCHANGED <<fdtab, client_sock, current, frame, rx, tried>>
  BY DEF RecordUnlink, Unlinked, NodeAfter, ControlInv, WalkInv, serverVars,
     socketVars, history
<1>3. /\ client_list_head' \in Seq(Fds)
      /\ Len(client_list_head') = Len(client_list_head) - 1
      /\ \A j \in 1..(Len(client_list_head) - 1) : client_list_head'[j] =
           IF j < current THEN client_list_head[j] ELSE client_list_head[j + 1]
  BY <1>1, <1>2, Removed
<1>4. /\ OwningNodes = (1..Len(client_list_head)) \ {current}
      /\ OwningNodes' = 1..(Len(client_list_head) - 1)
  BY <1>1, <1>2, <1>3, LenProperties DEF OwningNodes
<1>5. \A j \in OwningNodes' :
        \/ /\ j < current /\ j \in OwningNodes
           /\ client_list_head'[j] = client_list_head[j]
        \/ /\ j >= current /\ j + 1 \in OwningNodes
           /\ client_list_head'[j] = client_list_head[j + 1]
  BY <1>1, <1>2, <1>3, <1>4
<1>6. QED
  BY <1>2, <1>4, <1>5

\* Each descriptor keeps its one owner.
LEMMA OwnStep == TypeOK /\ ControlInv /\ OwnInv /\ [Next]_vars => OwnInv'
<1> SUFFICES ASSUME TypeOK, ControlInv, OwnInv, [Next]_vars
             PROVE  OwnInv'
  OBVIOUS
<1>0. /\ client_list_head \in Seq(Fds) /\ Len(client_list_head) \in Nat
      /\ DOMAIN client_list_head = 1..Len(client_list_head)
      /\ \A i \in DOMAIN client_list_head : client_list_head[i] \in Fds
      /\ fdtab \in [Fds -> Conns \cup {NoConn}] /\ NoConn \notin Conns
      /\ client_sock \in Fds \cup {0} /\ 0 \notin Fds
  BY LenProperties, ElementOfSeq, InputAssumption DEF TypeOK, Fds
<1>a. rpc # "unlink" => OwningNodes = DOMAIN client_list_head
  BY DEF OwningNodes
<1>1. CASE OwnersKept
  <2>1. OwningNodes' = OwningNodes
    BY <1>1 DEF OwningNodes, OwnersKept, ownVars
  <2>2. QED
    BY <1>1, <2>1 DEF OwnInv, OwnersKept, ownVars
<1>2. CASE ServerAccept
  <2>1. PICK fd \in Fds :
          /\ fdtab[fd] = NoConn
          /\ fdtab' = [fdtab EXCEPT ![fd] = Head(backlog)]
          /\ client_sock' = fd
          /\ spc = "accept"
          /\ UNCHANGED <<client_list_head, rpc, current>>
    BY <1>2 DEF ServerAccept, LowestFree, ServerGoes, recordVars, listVars
  <2>2. /\ OwningNodes' = OwningNodes
        /\ OwningNodes \subseteq DOMAIN client_list_head
    BY <2>1 DEF OwningNodes
  <2>3. client_sock = 0
    BY <2>1 DEF ControlInv, ThreadInv
  <2>4. Head(backlog) \in Conns
    BY <2>1, HeadTailProperties DEF ControlInv, QueueInv, TypeOK
  <2>5. \A i \in OwningNodes : client_list_head[i] # fd
    BY <2>1 DEF OwnInv
  <2>6. QED
    BY <1>0, <2>1, <2>2, <2>3, <2>4, <2>5 DEF OwnInv
<1>3. CASE AddClient
  <2>1. /\ rpc # "unlink" /\ rpc' # "unlink"
        /\ client_sock \in Fds /\ client_sock # 0 /\ client_sock' = 0
        /\ client_list_head' = <<client_sock>> \o client_list_head
        /\ UNCHANGED fdtab
    BY <1>0, <1>3 DEF AddClient, ListIsFree, ServerGoes, ControlInv, ThreadInv,
       recordVars, socketVars
  <2>2. /\ client_list_head' \in Seq(Fds)
        /\ Len(client_list_head') = Len(client_list_head) + 1
        /\ client_list_head'[1] = client_sock
        /\ \A j \in 2..(Len(client_list_head) + 1) :
             client_list_head'[j] = client_list_head[j - 1]
    BY <1>0, <2>1, Prepended
  <2>3. /\ OwningNodes = 1..Len(client_list_head)
        /\ OwningNodes' = 1..(Len(client_list_head) + 1)
    BY <1>0, <2>1, <2>2 DEF OwningNodes
  <2>4. \A j \in OwningNodes' :
          \/ j = 1
          \/ j - 1 \in OwningNodes /\ j \in 2..(Len(client_list_head) + 1)
    BY <1>0, <2>3
  <2>5. \A i, j \in OwningNodes' :
          client_list_head'[i] = client_list_head'[j] => i = j
    <3>1. ASSUME NEW j \in OwningNodes', client_list_head'[j] = client_sock
          PROVE  j = 1
      BY <2>2, <2>4, <3>1 DEF OwnInv
    <3>2. ASSUME NEW i \in OwningNodes', NEW j \in OwningNodes', i # 1, j # 1,
                 client_list_head'[i] = client_list_head'[j]
          PROVE  i = j
      <4>1. i - 1 = j - 1
        BY <2>2, <2>4, <3>2 DEF OwnInv
      <4>2. QED
        BY <1>0, <2>3, <4>1
    <3>3. QED
      BY <2>2, <3>1, <3>2
  <2>6. \A i \in OwningNodes' : /\ fdtab'[client_list_head'[i]] # NoConn
                                /\ client_list_head'[i] # client_sock'
    BY <1>0, <2>1, <2>2, <2>3, <2>4 DEF OwnInv
  <2>7. \A i \in OwningNodes : /\ i + 1 \in OwningNodes'
                               /\ client_list_head'[i + 1] = client_list_head[i]
    BY <1>0, <2>2, <2>3
  <2>8. 1 \in OwningNodes'
    BY <1>0, <2>3
  <2>9. \A fd \in Fds : fdtab'[fd] # NoConn =>
          \E i \in OwningNodes' : client_list_head'[i] = fd
    <3>1. ASSUME NEW fd \in Fds, fdtab[fd] # NoConn, fd # client_sock
          PROVE  \E i \in OwningNodes' : client_list_head'[i] = fd
      <4>1. PICK i \in OwningNodes : client_list_head[i] = fd
        BY <3>1 DEF OwnInv
      <4>2. QED
        BY <2>7, <4>1
    <3>2. QED
      BY <2>1, <2>2, <2>8, <3>1
  <2>10. QED
    BY <2>1, <2>5, <2>6, <2>9 DEF OwnInv
<1>4. CASE AddClientFails
  <2>1. /\ client_sock \in Fds /\ client_sock' = 0
        /\ fdtab' = [fdtab EXCEPT ![client_sock] = NoConn]
        /\ UNCHANGED <<client_list_head, rpc, current>>
    BY <1>0, <1>4 DEF AddClientFails, ServerGoes, ControlInv, ThreadInv,
       recordVars, listVars
  <2>2. /\ OwningNodes' = OwningNodes
        /\ OwningNodes \subseteq DOMAIN client_list_head
    BY <2>1 DEF OwningNodes
  <2>3. QED
    BY <1>0, <2>1, <2>2 DEF OwnInv
<1>5. CASE ServerCloseAll
  <2>1. /\ rpc # "unlink" /\ client_sock = 0 /\ client_sock' = 0
        /\ client_list_head' = <<>>
        /\ fdtab' = [fd \in Fds |-> IF Contains(client_list_head, fd)
                                    THEN NoConn ELSE fdtab[fd]]
    BY <1>5 DEF ServerCloseAll, ServerGoes, ControlInv, ThreadInv
  <2>2. OwningNodes' = {}
    BY <2>1, EmptySeq DEF OwningNodes
  <2>3. \A fd \in Fds : fdtab[fd] # NoConn => Contains(client_list_head, fd)
    BY <1>0, <1>a, <2>1 DEF OwnInv, Contains
  <2>4. \A fd \in Fds : fdtab'[fd] = NoConn
    BY <2>1, <2>3
  <2>5. QED
    BY <2>1, <2>2, <2>4 DEF OwnInv
<1>6. CASE Kicks
  <2>1. /\ rpc = "walk" /\ rpc' = "unlink" /\ current \in 1..Len(client_list_head)
        /\ fdtab' = [fdtab EXCEPT ![client_list_head[current]] = NoConn]
        /\ UNCHANGED <<current, client_list_head, client_sock>>
    BY <1>0, <1>6, KickStep DEF ControlInv, WalkInv
  <2>2. /\ OwningNodes = DOMAIN client_list_head
        /\ OwningNodes' = OwningNodes \ {current} /\ current \in OwningNodes
    BY <1>0, <2>1 DEF OwningNodes
  <2>3. QED
    BY <1>0, <2>1, <2>2 DEF OwnInv
<1>7. CASE RecordUnlink
  <2>1. /\ current \in 1..Len(client_list_head)
        /\ UNCHANGED <<fdtab, client_sock>>
    BY <1>7, UnlinkStep
  <2>2. /\ OwningNodes = (1..Len(client_list_head)) \ {current}
        /\ OwningNodes' = 1..(Len(client_list_head) - 1)
    BY <1>7, UnlinkStep
  <2>4. \A j \in OwningNodes' :
          \/ /\ j < current /\ j \in OwningNodes
             /\ client_list_head'[j] = client_list_head[j]
          \/ /\ j >= current /\ j + 1 \in OwningNodes
             /\ client_list_head'[j] = client_list_head[j + 1]
    BY <1>7, UnlinkStep
  <2>5. \A i \in OwningNodes :
          \E j \in OwningNodes' : client_list_head'[j] = client_list_head[i]
    <3>1. ASSUME NEW i \in OwningNodes, i < current
          PROVE  i \in OwningNodes' /\ client_list_head'[i] = client_list_head[i]
      BY <1>0, <2>1, <2>2, <2>4, <3>1
    <3>2. ASSUME NEW i \in OwningNodes, ~(i < current)
          PROVE  /\ i - 1 \in OwningNodes'
                 /\ client_list_head'[i - 1] = client_list_head[i]
      <4>1. /\ i - 1 \in OwningNodes' /\ ~(i - 1 < current) /\ (i - 1) + 1 = i
        BY <1>0, <2>1, <2>2, <3>2
      <4>2. QED
        BY <2>4, <4>1
    <3>3. QED
      BY <3>1, <3>2
  <2>6. \A i, j \in OwningNodes' :
          client_list_head'[i] = client_list_head'[j] => i = j
    BY <1>0, <2>1, <2>2, <2>4 DEF OwnInv
  <2>7. QED
    BY <2>1, <2>4, <2>5, <2>6 DEF OwnInv
<1>8. QED
  BY <1>1, <1>2, <1>3, <1>4, <1>5, <1>6, <1>7, OwnMoves DEF ControlInv

-----------------------------------------------------------------------------
(* Where a connection is.                                                  *)

\* Connections may lose their descriptor or their place in the queue, but none
\* gets one.
OnlyCloses == /\ \A f \in Fds : fdtab'[f] \in {fdtab[f], NoConn}
              /\ client_sock' \in {client_sock, 0}
              /\ backlog' \in {backlog, <<>>}
              /\ \A c \in Conns : conn'[c] = "new" <=> conn[c] = "new"

Sends == SendWhole \/ SendFull \/ SendPartial

\* Only connect() and accept() give a connection a place, and only the sends
\* say what it got.
LEMMA ConnMoves ==
  TypeOK /\ [Next]_vars => \/ OnlyCloses /\ UNCHANGED <<tried, torn>>
                           \/ ServerAccept \/ Sends
                           \/ \E c \in Conns : ClientConnect(c)
<1> SUFFICES ASSUME TypeOK, [Next]_vars,
                    ~ServerAccept, ~Sends, \A c \in Conns : ~ClientConnect(c)
             PROVE  OnlyCloses /\ UNCHANGED <<tried, torn>>
  BY Zenon
<1> USE DEF serverVars, listVars, recordVars, mainVars, socketVars, history
<1>1. ASSUME UNCHANGED <<fdtab, client_sock, backlog, conn, tried, torn>>
      PROVE  OnlyCloses /\ UNCHANGED <<tried, torn>>
  BY <1>1 DEF OnlyCloses
<1>2. CASE UNCHANGED vars
  BY <1>1, <1>2 DEF vars
<1>3. CASE \/ ServerSetupFails \/ ServerSpawn \/ ServerSpawnFails \/ ServerTop
           \/ SelectReady \/ SelectTimeout \/ SelectError \/ ServerAcceptError
           \/ ServerJoin
  BY <1>1, <1>3 DEF ServerSetupFails, ServerSpawn, ServerSpawnFails, ServerTop,
     SelectReady, SelectTimeout, SelectError, ServerAcceptError, ServerJoin
<1>4. CASE AddClient \/ ServerShut
  BY <1>4 DEF AddClient, ServerShut, OnlyCloses
<1>5. CASE AddClientFails
  BY <1>5 DEF AddClientFails, OnlyCloses, TypeOK
<1>6. CASE ServerCloseAll
  BY <1>6 DEF ServerCloseAll, OnlyCloses
<1>7. CASE \/ RecordTop \/ RecordGet \/ RecordGetFails \/ RecordLock
           \/ RecordUnlink \/ RecordUnlock \/ RecordRelease
  BY <1>1, <1>7 DEF RecordTop, RecordGet, RecordGetFails, RecordLock,
     RecordUnlink, RecordUnlock, RecordRelease
<1>8. CASE SendToGone \/ SendError
  <2>1. /\ fdtab' = [fdtab EXCEPT ![client_list_head[current]] = NoConn]
        /\ UNCHANGED <<client_sock, backlog, conn, tried, torn>>
    BY <1>8 DEF SendToGone, SendError, Kick, SendUnchanged
  <2>2. QED
    BY <2>1 DEF OnlyCloses, TypeOK
<1>9. CASE MainAdvance \/ HandleSigint
  BY <1>1, <1>9 DEF MainAdvance, MainUnchanged, MainCreateServer,
     MainCreateFails, MainLoop, MainJoin, MainDisable, HandleSigint
<1>10. ASSUME NEW c \in Conns, ClientRead(c) \/ ClientClose(c)
       PROVE  OnlyCloses /\ UNCHANGED <<tried, torn>>
  BY <1>10 DEF EnvUnchanged, ClientRead, ClientClose, OnlyCloses, TypeOK
<1>11. QED
  BY <1>2, <1>3, <1>4, <1>5, <1>6, <1>7, <1>8, <1>9, <1>10
     DEF Next, ServerAdvance, RecordAdvance, ClientStep, Sends

\* The client a frame is sent to is listed, so it is nowhere else.
LEMMA Recipient ==
  TypeOK /\ ControlInv /\ OwnInv /\ ConnInv /\ Sends =>
    /\ rpc = "walk" /\ current \in OwningNodes /\ Client \in Conns
    /\ client_list_head[current] \in Fds
    /\ Client \notin Fresh /\ ~torn[Client]
    /\ \A i \in OwningNodes :
         i # current => fdtab[client_list_head[i]] # Client
<1> SUFFICES ASSUME TypeOK, ControlInv, OwnInv, ConnInv, Sends
             PROVE  /\ rpc = "walk" /\ current \in OwningNodes
                    /\ Client \in Conns
                    /\ client_list_head[current] \in Fds
                    /\ Client \notin Fresh /\ ~torn[Client]
                    /\ \A i \in OwningNodes :
                         i # current => fdtab[client_list_head[i]] # Client
  OBVIOUS
<1>1. /\ rpc = "walk" /\ current <= Len(client_list_head)
      /\ Client \in Conns /\ conn[Client] = "open"
  BY DEF Sends, SendWhole, SendFull, SendPartial, AtNode
<1>2. /\ client_list_head \in Seq(Fds) /\ Len(client_list_head) \in Nat
      /\ \A i \in DOMAIN client_list_head : client_list_head[i] \in Fds
      /\ DOMAIN client_list_head = 1..Len(client_list_head)
  BY LenProperties, ElementOfSeq DEF TypeOK
<1>3. current \in 1..Len(client_list_head)
  BY <1>1, <1>2 DEF ControlInv, WalkInv
<1>4. /\ current \in OwningNodes /\ OwningNodes = DOMAIN client_list_head
      /\ client_list_head[current] \in Fds
  BY <1>1, <1>2, <1>3 DEF OwningNodes
<1>5. Client = fdtab[client_list_head[current]] /\ Client # NoConn
  BY <1>1, InputAssumption DEF Client
<1>6. Client \notin Waiting /\ ~torn[Client]
  BY <1>1, <1>4, <1>5 DEF ConnInv
<1>7. client_sock # 0 => fdtab[client_sock] # Client
  <2>1. client_list_head[current] # client_sock /\ client_sock \in Fds \cup {0}
    BY <1>4 DEF OwnInv, TypeOK
  <2>2. QED
    BY <1>4, <1>5, <2>1 DEF ConnInv
<1>8. \A i \in OwningNodes : i # current => fdtab[client_list_head[i]] # Client
  BY <1>2, <1>4, <1>5 DEF OwnInv, ConnInv
<1>9. QED
  BY <1>1, <1>4, <1>6, <1>7, <1>8 DEF Fresh

\* A connection stays in one place, and one that is new has been sent nothing.
LEMMA ConnStep ==
  TypeOK /\ ControlInv /\ OwnInv /\ ConnInv /\ [Next]_vars => ConnInv'
<1> SUFFICES ASSUME TypeOK, ControlInv, OwnInv, ConnInv, [Next]_vars
             PROVE  ConnInv'
  OBVIOUS
<1>0. /\ fdtab \in [Fds -> Conns \cup {NoConn}] /\ NoConn \notin Conns
      /\ client_sock \in Fds \cup {0} /\ 0 \notin Fds
      /\ tried \in [Conns -> Nat] /\ torn \in [Conns -> BOOLEAN]
      /\ conn \in [Conns -> {"new", "open", "gone"}]
      /\ backlog \in Seq(Conns) /\ Len(backlog) \in Nat
      /\ DOMAIN backlog = 1..Len(backlog)
      /\ \A i \in DOMAIN backlog : backlog[i] \in Conns
  BY LenProperties, ElementOfSeq, InputAssumption DEF TypeOK, Fds
\* What a step that gives no connection a place keeps of the invariant.
<1>a. ASSUME OnlyCloses
      PROVE  /\ Fresh' \subseteq Fresh
             /\ \A f, g \in Fds :
                  fdtab'[f] = fdtab'[g] /\ fdtab'[f] # NoConn => f = g
             /\ \A f \in Fds, c \in Conns :
                  fdtab'[f] = c => conn'[c] # "new" /\ c \notin Waiting'
             /\ \A i, j \in DOMAIN backlog' : backlog'[i] = backlog'[j] => i = j
             /\ \A c \in Waiting' : conn'[c] # "new"
  <2>1. Waiting' \subseteq Waiting
    BY <1>a, EmptySeq DEF OnlyCloses, Waiting
  <2>2. Fresh' \subseteq Fresh
    BY <1>0, <1>a, <2>1 DEF OnlyCloses, Fresh
  <2>3. \A i, j \in DOMAIN backlog' : backlog'[i] = backlog'[j] => i = j
    BY <1>a, EmptySeq DEF OnlyCloses, ConnInv
  <2>4. \A f, g \in Fds :
          fdtab'[f] = fdtab'[g] /\ fdtab'[f] # NoConn => f = g
    BY <1>a DEF OnlyCloses, ConnInv
  <2>5. \A f \in Fds, c \in Conns : fdtab'[f] = c => fdtab[f] = c
    BY <1>0, <1>a DEF OnlyCloses
  <2>6. \A f \in Fds, c \in Conns :
          fdtab'[f] = c => conn'[c] # "new" /\ c \notin Waiting'
    BY <1>a, <2>1, <2>5 DEF OnlyCloses, ConnInv
  <2>7. Waiting \subseteq Conns
    BY <1>0 DEF Waiting
  <2>8. \A c \in Waiting' : conn'[c] # "new"
    BY <1>a, <2>1, <2>7 DEF OnlyCloses, ConnInv
  <2>9. QED
    BY <2>2, <2>3, <2>4, <2>6, <2>8
<1>1. CASE OnlyCloses /\ UNCHANGED <<tried, torn>>
  <2>1. \A c \in Conns : torn'[c] => \A f \in Fds : fdtab'[f] # c
    BY <1>0, <1>1 DEF OnlyCloses, ConnInv
  <2>2. QED
    BY <1>1, <1>a, <2>1 DEF ConnInv
<1>2. CASE ServerAccept
  <2>1. PICK fd \in Fds :
          /\ fdtab[fd] = NoConn
          /\ fdtab' = [fdtab EXCEPT ![fd] = Head(backlog)]
          /\ backlog' = Tail(backlog)
          /\ client_sock' = fd
          /\ UNCHANGED <<conn, tried, torn>> /\ spc = "accept"
    BY <1>2 DEF ServerAccept, LowestFree, ServerGoes, history
  <2>2. /\ backlog # <<>> /\ Head(backlog) = backlog[1]
        /\ 1 \in DOMAIN backlog
    BY <1>0, <2>1, EmptySeq DEF ControlInv, QueueInv
  <2> DEFINE h == Head(backlog)
  <2>3. h \in Waiting /\ h \in Conns
    BY <1>0, <2>2 DEF Waiting
  <2>4. /\ Len(backlog') = Len(backlog) - 1
        /\ DOMAIN backlog' = 1..(Len(backlog) - 1)
        /\ \A i \in 1..(Len(backlog) - 1) : backlog'[i] = backlog[i + 1]
    BY <1>0, <2>1, <2>2, HeadTailProperties, LenProperties
  <2>5. \A c \in Waiting' : c \in Waiting /\ c # h
    <3>1. ASSUME NEW i \in DOMAIN backlog'
          PROVE  /\ i + 1 \in DOMAIN backlog /\ i + 1 # 1
                 /\ backlog'[i] = backlog[i + 1]
      BY <1>0, <2>4
    <3>2. QED
      BY <2>2, <3>1 DEF Waiting, ConnInv
  <2>6. \A i, j \in DOMAIN backlog' : backlog'[i] = backlog'[j] => i = j
    <3>1. ASSUME NEW i \in DOMAIN backlog', NEW j \in DOMAIN backlog',
                 backlog'[i] = backlog'[j]
          PROVE  i + 1 = j + 1
      <4>1. /\ i + 1 \in DOMAIN backlog /\ backlog'[i] = backlog[i + 1]
            /\ j + 1 \in DOMAIN backlog /\ backlog'[j] = backlog[j + 1]
        BY <1>0, <2>4
      <4>2. QED
        BY <3>1, <4>1 DEF ConnInv
    <3>2. QED
      BY <1>0, <2>4, <3>1
  <2>7. \A f \in Fds : fdtab[f] # h
    BY <1>0, <2>3 DEF ConnInv
  <2>8. \A f \in Fds : fdtab'[f] = IF f = fd THEN h ELSE fdtab[f]
    BY <1>0, <2>1
  <2> HIDE DEF h
  <2>9. Fresh' \subseteq Fresh
    BY <1>0, <2>1, <2>3, <2>5, <2>8 DEF Fresh
  <2>10. ~torn[h]
    BY <2>3 DEF ConnInv, Fresh
  <2>11. \A f \in Fds, c \in Conns :
           fdtab'[f] = c => conn'[c] # "new" /\ c \notin Waiting'
    BY <2>1, <2>3, <2>5, <2>8 DEF ConnInv
  <2>12. QED
    BY <2>1, <2>5, <2>6, <2>7, <2>8, <2>9, <2>10, <2>11 DEF ConnInv
<1>3. CASE Sends
  <2>1. /\ Client \in Conns /\ client_list_head[current] \in Fds
        /\ Client \notin Fresh
    BY <1>3, Recipient
  <2>2. /\ tried' = [tried EXCEPT ![Client] = frame]
        /\ UNCHANGED <<client_sock, backlog, conn>>
        /\ \/ UNCHANGED <<fdtab, torn>>
           \/ /\ fdtab' = [fdtab EXCEPT ![client_list_head[current]] = NoConn]
              /\ torn' = [torn EXCEPT ![Client] = TRUE]
    BY <1>3 DEF Sends, SendWhole, SendFull, SendPartial, AfterFull, Pass,
       AfterPartial, Kick, SendUnchanged, serverVars
  <2>3. OnlyCloses
    BY <1>0, <2>2 DEF OnlyCloses
  <2>4. \A c \in Fresh : tried'[c] = 0 /\ ~torn'[c]
    <3>1. Fresh \subseteq Conns
      BY DEF Fresh
    <3>2. QED
      BY <1>0, <2>1, <2>2, <3>1 DEF ConnInv
  <2>5. \A c \in Conns : torn'[c] => \A f \in Fds : fdtab'[f] # c
    <3>1. Client = fdtab[client_list_head[current]]
      BY DEF Client
    <3>2. QED
      BY <1>0, <2>1, <2>2, <3>1 DEF ConnInv
  <2>6. QED
    BY <1>a, <2>3, <2>4, <2>5 DEF ConnInv
<1>4. ASSUME NEW c \in Conns, ClientConnect(c)
      PROVE  ConnInv'
  <2>1. /\ conn[c] = "new"
        /\ conn' = [conn EXCEPT ![c] = "open"]
        /\ backlog' = Append(backlog, c)
        /\ UNCHANGED <<fdtab, client_sock, tried, torn>>
    BY <1>4 DEF ClientConnect, EnvUnchanged, serverVars, history
  <2>2. /\ DOMAIN backlog' = 1..(Len(backlog) + 1)
        /\ \A i \in 1..Len(backlog) : backlog'[i] = backlog[i]
        /\ backlog'[Len(backlog) + 1] = c
    BY <1>0, <2>1, AppendProperties, LenProperties
  <2>3. \A d \in Waiting' : d \in Waiting \/ d = c
    <3>1. \A i \in DOMAIN backlog' : i \in 1..Len(backlog) \/ i = Len(backlog) + 1
      BY <1>0, <2>2
    <3>2. QED
      BY <1>0, <2>2, <3>1 DEF Waiting
  <2>4. c \notin Waiting /\ \A f \in Fds : fdtab[f] # c
    BY <1>0, <2>1 DEF ConnInv
  <2>5. \A i, j \in DOMAIN backlog' : backlog'[i] = backlog'[j] => i = j
    BY <1>0, <2>2, <2>4 DEF ConnInv, Waiting
  <2>6. Fresh' \subseteq Fresh
    BY <1>0, <2>1, <2>3 DEF Fresh
  <2>7. \A f \in Fds, d \in Conns :
          fdtab'[f] = d => conn'[d] # "new" /\ d \notin Waiting'
    BY <1>0, <2>1, <2>3, <2>4 DEF ConnInv
  <2>8. \A d \in Waiting' : conn'[d] # "new"
    BY <1>0, <2>1, <2>3 DEF ConnInv
  <2>9. QED
    BY <2>1, <2>5, <2>6, <2>7, <2>8 DEF ConnInv
<1>5. QED
  BY <1>1, <1>2, <1>3, <1>4, ConnMoves

-----------------------------------------------------------------------------
(* What each client was sent.                                              *)

\* The walk, the frame and the sockets of the nodes stay as they are.
FrameKept == /\ UNCHANGED <<rx, tried, frame, rpc, current>>
             /\ rpc \in {"walk", "unlink"} =>
                  /\ UNCHANGED client_list_head
                  /\ \A i \in OwningNodes :
                       fdtab'[client_list_head[i]] = fdtab[client_list_head[i]]

\* Outside the walk nobody is sent anything.
FrameIdle == UNCHANGED <<rx, tried, frame>> /\ rpc' \notin {"lock", "walk", "unlink"}

\* Only five kinds of steps concern the frame in hand.
LEMMA FrameMoves ==
  TypeOK /\ ControlInv /\ OwnInv /\ [Next]_vars =>
    \/ FrameKept \/ FrameIdle
    \/ RecordGet \/ RecordLock \/ Sends \/ Kicks \/ RecordUnlink
<1> SUFFICES ASSUME TypeOK, ControlInv, OwnInv, [Next]_vars,
                    ~(\/ RecordGet \/ RecordLock \/ Sends \/ Kicks
                      \/ RecordUnlink)
             PROVE  FrameKept \/ FrameIdle
  OBVIOUS
<1> USE DEF recordVars, listVars, serverVars, socketVars, history
<1>1. ASSUME UNCHANGED <<rx, tried, recordVars>>,
             UNCHANGED <<fdtab, client_list_head>> \/ client_list_lock = "none"
      PROVE  FrameKept
  BY <1>1 DEF FrameKept, ControlInv, ThreadInv
<1>2. CASE UNCHANGED vars
  BY <1>1, <1>2 DEF vars
<1>3. CASE \/ ServerSetupFails \/ ServerSpawnFails \/ ServerTop
           \/ SelectReady \/ SelectTimeout \/ SelectError
           \/ ServerAcceptError \/ ServerJoin \/ ServerShut
           \/ AddClient \/ AddClientFails \/ ServerCloseAll
  BY <1>1, <1>3 DEF ServerSetupFails, ServerSpawnFails, ServerTop, SelectReady,
     SelectTimeout, SelectError, ServerAcceptError, ServerJoin, ServerShut,
     AddClient, AddClientFails, ServerCloseAll, ListIsFree
<1>4. CASE ServerAccept
  <2>1. PICK fd \in Fds :
          /\ fdtab[fd] = NoConn
          /\ fdtab' = [fdtab EXCEPT ![fd] = Head(backlog)]
          /\ UNCHANGED <<rx, tried, recordVars, client_list_head>>
    BY <1>4 DEF ServerAccept, LowestFree
  <2>2. \A i \in OwningNodes :
          fdtab'[client_list_head[i]] = fdtab[client_list_head[i]]
    BY <2>1 DEF OwnInv, TypeOK
  <2>3. QED
    BY <2>1, <2>2 DEF FrameKept
<1>5. CASE ServerSpawn \/ RecordTop \/ RecordGetFails \/ RecordUnlock \/ RecordRelease
  BY <1>5 DEF FrameIdle, ServerSpawn, RecordTop, RecordGetFails, RecordUnlock,
     RecordRelease
<1>6. CASE MainAdvance \/ HandleSigint \/ ClientStep
  BY <1>1, <1>6 DEF MainAdvance, MainUnchanged, MainCreateServer,
     MainCreateFails, MainLoop, MainJoin, MainDisable, HandleSigint,
     EnvUnchanged, ClientStep, ClientConnect, ClientRead, ClientClose
<1>7. QED
  BY <1>2, <1>3, <1>4, <1>5, <1>6
     DEF Next, ServerAdvance, RecordAdvance, Sends, Kicks

\* The nodes before the walk have this frame behind them, the others do not.
LEMMA FrameStep ==
  TypeOK /\ ControlInv /\ OwnInv /\ ConnInv /\ FrameInv /\ [Next]_vars => FrameInv'
<1> SUFFICES ASSUME TypeOK, ControlInv, OwnInv, ConnInv, FrameInv, [Next]_vars
             PROVE  FrameInv'
  OBVIOUS
<1>0. /\ client_list_head \in Seq(Fds) /\ Len(client_list_head) \in Nat
      /\ DOMAIN client_list_head = 1..Len(client_list_head)
      /\ \A i \in DOMAIN client_list_head : client_list_head[i] \in Fds
      /\ OwningNodes \subseteq DOMAIN client_list_head
      /\ fdtab \in [Fds -> Conns \cup {NoConn}]
      /\ rx \in [Conns -> Nat] /\ tried \in [Conns -> Nat]
      /\ frame \in Nat /\ current \in Nat
  BY LenProperties, ElementOfSeq DEF TypeOK, OwningNodes
<1>a. \A i \in OwningNodes : fdtab[client_list_head[i]] \in Conns
  BY <1>0 DEF OwnInv
<1>1. CASE FrameKept
  <2>1. rpc \in {"walk", "unlink"} => OwningNodes' = OwningNodes
    BY <1>1 DEF FrameKept, OwningNodes
  <2>2. QED
    BY <1>1, <2>1 DEF FrameKept, FrameInv
<1>2. CASE FrameIdle
  BY <1>2 DEF FrameIdle, FrameInv
<1>3. CASE RecordGet
  <2>1. rpc' = "lock" /\ frame' = frame + 1 /\ UNCHANGED <<rx, tried>>
    BY <1>3 DEF RecordGet, history
  <2>2. QED
    BY <1>0, <2>1 DEF FrameInv
<1>4. CASE RecordLock
  <2>1. /\ rpc = "lock" /\ rpc' = "walk" /\ current' = 1
        /\ UNCHANGED <<rx, tried, frame, client_list_head, fdtab>>
    BY <1>4 DEF RecordLock, socketVars, history
  <2>2. OwningNodes' = OwningNodes
    BY <2>1 DEF OwningNodes
  <2>3. QED
    BY <1>0, <1>a, <2>1, <2>2 DEF FrameInv
<1>5. CASE Sends
  <2>1. /\ rpc = "walk" /\ current \in OwningNodes /\ Client \in Conns
        /\ \A i \in OwningNodes :
             i # current => fdtab[client_list_head[i]] # Client
        /\ Client = fdtab[client_list_head[current]]
    BY <1>5, Recipient DEF Client
  <2>2. /\ tried' = [tried EXCEPT ![Client] = frame]
        /\ rx' = [rx EXCEPT ![Client] = frame] \/ UNCHANGED rx
        /\ UNCHANGED <<frame, client_list_head>>
        /\ \/ /\ rpc' = "walk" /\ current' = current + 1
              /\ UNCHANGED fdtab
           \/ /\ rpc' = "unlink" /\ current' = current
              /\ fdtab' = [fdtab EXCEPT ![client_list_head[current]] = NoConn]
    BY <1>5, <2>1 DEF Sends, SendWhole, SendFull, SendPartial, AfterFull, Pass,
       AfterPartial, Kick, SendUnchanged, listVars, mainVars
  <2>3. \A c \in Conns : rx'[c] <= tried'[c] /\ tried'[c] <= frame'
    BY <1>0, <2>1, <2>2 DEF FrameInv
  <2>4. \A i \in OwningNodes : i # current =>
          /\ fdtab'[client_list_head[i]] = fdtab[client_list_head[i]]
          /\ tried'[fdtab[client_list_head[i]]] = tried[fdtab[client_list_head[i]]]
    BY <1>0, <1>a, <2>1, <2>2 DEF OwnInv
  <2>5. frame > 0
    BY <2>1 DEF FrameInv
  <2>6. CASE rpc' = "walk"
    <3>1. OwningNodes' = OwningNodes
      BY <2>1, <2>2, <2>6 DEF OwningNodes
    <3>2. tried'[fdtab'[client_list_head[current]]] = frame
      BY <1>0, <2>1, <2>2, <2>6
    <3>3. QED
      BY <1>0, <2>1, <2>2, <2>3, <2>4, <2>5, <2>6, <3>1, <3>2 DEF FrameInv
  <2>7. CASE rpc' = "unlink"
    <3>1. OwningNodes' = OwningNodes \ {current}
      BY <2>1, <2>2, <2>7 DEF OwningNodes
    <3>2. QED
      BY <1>0, <2>1, <2>2, <2>3, <2>4, <2>5, <2>7, <3>1 DEF FrameInv
  <2>8. QED
    BY <2>2, <2>6, <2>7
<1>6. CASE SendToGone \/ SendError
  <2>1. /\ rpc = "walk" /\ rpc' = "unlink" /\ current <= Len(client_list_head)
        /\ fdtab' = [fdtab EXCEPT ![client_list_head[current]] = NoConn]
        /\ UNCHANGED <<current, client_list_head, frame>>
    BY <1>6, KickStep DEF Kicks
  <2>2. UNCHANGED <<rx, tried>>
    BY <1>6 DEF SendToGone, SendError, history
  <2>3. current \in DOMAIN client_list_head
    BY <1>0, <2>1 DEF ControlInv, WalkInv
  <2>4. OwningNodes' = OwningNodes \ {current} /\ current \in OwningNodes
    BY <2>1, <2>3 DEF OwningNodes
  <2>5. \A i \in OwningNodes' :
          fdtab'[client_list_head[i]] = fdtab[client_list_head[i]]
    BY <1>0, <2>1, <2>4 DEF OwnInv
  <2>6. QED
    BY <2>1, <2>2, <2>4, <2>5 DEF FrameInv
<1>7. CASE RecordUnlink
  BY <1>0, <1>7, UnlinkStep DEF FrameInv
<1>8. QED
  BY <1>1, <1>2, <1>3, <1>4, <1>5, <1>6, <1>7, FrameMoves DEF Kicks, Sends

-----------------------------------------------------------------------------
(* The invariant and what follows from it.                                 *)

\* No step breaks the invariant.
LEMMA Inductive == IInv /\ [Next]_vars => IInv'
  BY TypeStep, ControlStep, OwnStep, ConnStep, FrameStep DEF IInv

\* Every reachable state satisfies the invariant.
LEMMA Invariance == Spec => []IInv
  BY InitIInv, Inductive, PTL DEF Spec

\* Every variable of input_server.c, input.c and of the kernel keeps its type,
\* for any number of clients, descriptors and frames.
THEOREM TypeCorrect == Spec => []TypeOK
<1>1. IInv => TypeOK
  BY DEF IInv
<1>2. QED
  BY <1>1, Invariance, PTL

\* Every descriptor accept() ever returned is open exactly as long as one node
\* of client_list_head, or the server between accept() and the list, owns it.
THEOREM Ownership == Spec => []SocketOwnership
<1>1. ASSUME IInv PROVE SocketOwnership
  <2>1. /\ client_sock \in Fds \cup {0} /\ 0 \notin Fds
        /\ \A i \in OwningNodes : client_list_head[i] \in Fds
    <3>1. /\ client_sock \in Fds \cup {0} /\ 0 \notin Fds
          /\ client_list_head \in Seq(Fds) /\ OwningNodes \subseteq DOMAIN client_list_head
      BY <1>1 DEF IInv, TypeOK, Fds, OwningNodes
    <3>2. \A i \in DOMAIN client_list_head : client_list_head[i] \in Fds
      BY <3>1, LenProperties, ElementOfSeq
    <3>3. QED
      BY <3>1, <3>2
  <2>2. ASSUME NEW fd \in Fds, fdtab[fd] # NoConn
        PROVE  fd \in {client_list_head[i] : i \in OwningNodes}
                        \cup ({client_sock} \ {0})
    BY <1>1, <2>1, <2>2 DEF IInv, OwnInv
  <2>3. ASSUME NEW fd \in {client_list_head[i] : i \in OwningNodes}
                             \cup ({client_sock} \ {0})
        PROVE  fd \in Fds /\ fdtab[fd] # NoConn
    BY <1>1, <2>1, <2>3 DEF IInv, OwnInv
  <2>4. {fd \in Fds : fdtab[fd] # NoConn} =
          {client_list_head[i] : i \in OwningNodes} \cup ({client_sock} \ {0})
    BY <2>2, <2>3
  <2>5. QED
    BY <1>1, <2>4 DEF SocketOwnership, IInv, OwnInv
<1>2. QED
  BY <1>1, Invariance, PTL

\* When ai_record_thread reaches the end of the list, every client that is
\* still in it has been tried with this frame, whoever was kicked on the way.
THEOREM Tried == Spec => []EveryClientTried
<1>1. ASSUME IInv PROVE EveryClientTried
  <2>1. SUFFICES ASSUME rpc = "walk", ~AtNode, NEW i \in DOMAIN client_list_head
                 PROVE  tried[fdtab[client_list_head[i]]] = frame
    BY DEF EveryClientTried
  <2>2. /\ DOMAIN client_list_head = 1..Len(client_list_head)
        /\ Len(client_list_head) \in Nat /\ current \in Nat
    BY <1>1, LenProperties DEF IInv, TypeOK
  <2>3. i \in OwningNodes /\ i < current
    BY <2>1, <2>2 DEF AtNode, OwningNodes
  <2>4. QED
    BY <1>1, <2>1, <2>3 DEF IInv, FrameInv
<1>2. QED
  BY <1>1, Invariance, PTL

\* disable_audio_input() runs only when the record thread has ended and has
\* given its last frame back.
THEOREM DisabledLast == Spec => []DeviceDisabledLast
<1>1. IInv => DeviceDisabledLast
  BY DEF IInv, TypeOK, ControlInv, ThreadInv, DeviceDisabledLast
<1>2. QED
  BY <1>1, Invariance, PTL

\* send() never gives a client the same frame twice, nor an older one.
THEOREM NoDuplicate == Spec => NoDuplicateFrame
<1>1. ASSUME IInv, SendWhole PROVE rx[Client] < frame /\ tried[Client] < frame
  <2>1. /\ rpc = "walk" /\ current \in OwningNodes /\ Client \in Conns
        /\ Client = fdtab[client_list_head[current]]
    BY <1>1, Recipient DEF IInv, Sends, Client
  <2>2. /\ tried[Client] \in Nat /\ rx[Client] \in Nat /\ frame \in Nat
        /\ current \in Nat
    BY <1>1, <2>1 DEF IInv, TypeOK
  <2>3. tried[Client] < frame
    <3>1. \A i \in OwningNodes : i >= current =>
            tried[fdtab[client_list_head[i]]] < frame
      BY <1>1, <2>1 DEF IInv, FrameInv
    <3>2. current >= current
      BY <2>2
    <3>3. QED
      BY <2>1, <3>1, <3>2
  <2>4. rx[Client] <= tried[Client]
    BY <1>1, <2>1 DEF IInv, FrameInv
  <2>5. QED
    BY <2>2, <2>3, <2>4
<1>2. IInv /\ [Next]_vars =>
        [SendWhole => rx[Client] < frame /\ tried[Client] < frame]_vars
  BY <1>1
<1>3. QED
  BY <1>2, Invariance, PTL DEF Spec, NoDuplicateFrame

\* A client that got a part of a frame is never sent another byte.
THEOREM Aligned == Spec => StreamAligned
<1>1. ASSUME IInv, [Next]_vars, NEW c \in Conns, torn[c]
      PROVE  UNCHANGED <<rx[c], tried[c]>>
  <2>1. rx \in [Conns -> Nat] /\ tried \in [Conns -> Nat]
    BY <1>1 DEF IInv, TypeOK
  <2>2. CASE Sends
    <3>1. Client \in Conns /\ Client # c
      BY <1>1, <2>2, Recipient DEF IInv
    <3>2. /\ tried' = [tried EXCEPT ![Client] = frame]
          /\ rx' = [rx EXCEPT ![Client] = frame] \/ UNCHANGED rx
      BY <2>2 DEF Sends, SendWhole, SendFull, SendPartial
    <3>3. QED
      BY <2>1, <3>1, <3>2
  <2>3. CASE FrameKept \/ FrameIdle
    BY <2>3 DEF FrameKept, FrameIdle
  <2>4. CASE RecordGet \/ RecordLock \/ SendToGone \/ SendError
    BY <2>4 DEF RecordGet, RecordLock, SendToGone, SendError, history
  <2>5. CASE RecordUnlink
    BY <1>1, <2>5, UnlinkStep DEF IInv
  <2>6. QED
    BY <1>1, <2>2, <2>3, <2>4, <2>5, FrameMoves DEF IInv, Kicks, Sends
<1>2. IInv /\ [Next]_vars =>
        [\A c \in Conns : torn[c] => UNCHANGED <<rx[c], tried[c]>>]_vars
  BY <1>1
<1>3. QED
  BY <1>2, Invariance, PTL DEF Spec, StreamAligned
=============================================================================
