---------------------------- MODULE Config_proof ----------------------------
(***************************************************************************)
(* Theorems about Config, for any configuration files: whatever each of     *)
(* them lacks or has of a wrong type, whatever it enables and however long  *)
(* its paths are.                                                          *)
(*                                                                         *)
(* ServersWhereConfigured is about a name that is bound, and not inductive: *)
(* it rests on the name a thread reads being finished while the other       *)
(* thread may still be writing the same array.  It is, because what is      *)
(* written is always the same: unless strdup() fails, each thread has       *)
(* copied its path, if the file gives it, before it reads, and nobody       *)
(* copies what the file does not give (PathInv).  The name it takes then is *)
(* the one the file gives (NameInv).                                       *)
(***************************************************************************)
EXTENDS Config, SequenceTheorems, TLAPS

\* Where a thread is past the copies.
Finished == {"unlink", "bind", "bound", "failed"}

\* Where it has taken its name.
Taken == {"bind", "bound", "failed"}

\* What validate_json() has said, and when.
VerdictInv ==
  /\ pc = "load" => verdict = "none"
  /\ verdict = "valid" => ValidJson /\ pc \in {"read", "run"}

\* The mutex is held inside the getters and nowhere else, once or twice.
MutexInv ==
  \A t \in Threads :
    /\ owner = t <=> tpc[t] \in {"inner", "leave", "fetch"}
    /\ tpc[t] \in {"inner", "fetch"} => count = 1
    /\ tpc[t] = "leave" => count = 2

\* Nothing is set or copied before the threads are there.
StartInv ==
  /\ pc # "run" =>
       /\ settings = {}
       /\ \A t \in Threads : tpc[t] = "off"
       /\ \A c \in Elements(network_keys) : path[c] = <<"default", "default">>
  /\ \A t \in Threads : tpc[t] = "off" => cell[t] = 1

\* The paths that the file gives.
GivenKeys == {c \in Elements(network_keys) : Given(c)}

\* A thread is past its own path, which the file gives, and had the memory to
\* read it.
HasOwn(t, i) ==
  /\ network_keys[i] = t /\ t \in GivenKeys \ unread
  /\ i < cell[t] \/ tpc[t] \in Finished

\* Such a thread has copied its path, and half of a path between the two halves
\* of strncpy(); nobody copies what the file lacks.
PathInv ==
  /\ \A t \in Threads, i \in 1..3 :
       HasOwn(t, i) => path[network_keys[i]] = <<"file", "file">>
  /\ \A t \in Threads :
       /\ tpc[t] \in {"first", "second"} => Current(t) \in GivenKeys
       /\ tpc[t] = "second" => path[Current(t)][1] = "file"
  /\ \A c \in Elements(network_keys) \ GivenKeys :
       path[c] = <<"default", "default">>

\* The name a server has taken is one of its own, and the right one.
NameInv ==
  \A t \in Threads :
    /\ sun_path[t][2] \in {t, "cut"}
    /\ tpc[t] \in Taken /\ t \notin unread => sun_path[t][1] # "torn"
    /\ tpc[t] \in Taken /\ (Given(t) => t \notin long \cup unread) =>
         sun_path[t] = Configured(t)

IInv == /\ TypeOK /\ VerdictInv /\ MutexInv /\ StartInv /\ PathInv /\ NameInv
        /\ ServersWhereConfigured /\ AcceptedMeansUsed

USE ConfigAssumption

-----------------------------------------------------------------------------
(* The keys.                                                               *)

\* The three paths, and the two that a thread of its own reads.
LEMMA KeyFacts ==
  /\ Len(network_keys) = 3 /\ DOMAIN network_keys = 1..3
  /\ Elements(network_keys) = {"output", "input", "control"}
  /\ \A i \in 1..3 : network_keys[i] \in Elements(network_keys)
  /\ \A i, j \in 1..3 : network_keys[i] = network_keys[j] => i = j
  /\ Threads \subseteq Elements(network_keys)
  /\ \A c \in Elements(network_keys) : \E i \in 1..3 : network_keys[i] = c
<1>1. Len(network_keys) = 3 /\ DOMAIN network_keys = 1..3
  BY DEF network_keys
<1>2. /\ network_keys[1] = "output" /\ network_keys[2] = "input"
      /\ network_keys[3] = "control"
  BY DEF network_keys
<1>3. \A i \in 1..3 : i = 1 \/ i = 2 \/ i = 3
  OBVIOUS
<1>4. Elements(network_keys) = {"output", "input", "control"}
  BY <1>1, <1>2, <1>3 DEF Elements
<1>5. \A i, j \in 1..3 : network_keys[i] = network_keys[j] => i = j
  BY <1>2, <1>3
<1>6. \A c \in Elements(network_keys) : \E i \in 1..3 : network_keys[i] = c
  BY <1>2, <1>4
<1> QED
  BY <1>1, <1>2, <1>3, <1>4, <1>5, <1>6 DEF Threads

\* The keys the getters look up are attributes of both devices.
LEMMA SettingKeys ==
  ASSUME NEW s \in Sections
  PROVE  /\ {1, 2, 3, 9} \subseteq 1..Len(Attributes[s])
         /\ Attributes[s][1] = "enabled" /\ Attributes[s][2] = "device_id"
         /\ Attributes[s][3] = "channel_id" /\ Attributes[s][9] = "SetVol"
<1>1. /\ Len(ao_attributes) = 14
      /\ ao_attributes[1] = "enabled" /\ ao_attributes[2] = "device_id"
      /\ ao_attributes[3] = "channel_id" /\ ao_attributes[9] = "SetVol"
  BY DEF ao_attributes, Device
<1>2. /\ Len(ai_attributes) = 17
      /\ ai_attributes[1] = "enabled" /\ ai_attributes[2] = "device_id"
      /\ ai_attributes[3] = "channel_id" /\ ai_attributes[9] = "SetVol"
  BY DEF ai_attributes, Device
<1>3. Attributes["AO"] = ao_attributes /\ Attributes["AI"] = ai_attributes
  BY DEF Attributes
<1>4. CASE s = "AO"
  BY <1>1, <1>3, <1>4
<1>5. CASE s = "AI"
  BY <1>2, <1>3, <1>5
<1> QED
  BY <1>4, <1>5 DEF Sections

\* They are among what validate_json() asks for, and so are the paths.
LEMMA ValidItems ==
  ASSUME ValidJson
  PROVE  /\ \A s \in Sections,
                key \in {"enabled", "device_id", "channel_id", "SetVol"} :
              Item(s, key) = "right"
         /\ \A c \in Elements(network_keys) : Given(c)
<1>1. ASSUME NEW s \in Sections, NEW i \in {1, 2, 3, 9}
      PROVE  Item(s, Attributes[s][i]) = "right"
  BY SettingKeys DEF ValidJson, ValidUpTo, IsValid
<1>2. \A c \in Elements(network_keys) : Given(c)
  BY DEF ValidJson, IsValid, Given
<1> QED
  BY <1>1, <1>2, SettingKeys

-----------------------------------------------------------------------------
(* The initial states, and what each step leaves alone.                    *)

LEMMA InitIInv == Init => IInv
<1> SUFFICES ASSUME Init PROVE IInv
  OBVIOUS
<1>1. TypeOK
  <2>1. cell \in [Threads -> 1..Len(network_keys)]
    BY KeyFacts DEF Init
  <2>2. path \in [Elements(network_keys) ->
                     {"default", "file"} \X {"default", "file"}]
    BY DEF Init
  <2>3. /\ socketAt \in [Names -> Threads \cup {NoThread}]
        /\ owner = NoThread /\ count = 0 /\ settings = {} /\ unread = {}
    BY DEF Init
  <2>4. tpc \in [Threads -> {"off", "outer", "inner", "leave", "fetch", "first",
                            "second", "unlink", "bind", "bound", "failed"}]
    BY DEF Init
  <2>5. /\ file \in Files /\ switched \in Switches
        /\ loud \in Louds /\ long \in Longs
        /\ config_root \in BOOLEAN /\ pc = "load" /\ verdict = "none"
    BY DEF Init
  <2>6. sun_path \in [Threads -> Names]
    BY KeyFacts DEF Init, Names
  <2> QED
    BY ONLY <2>1, <2>2, <2>3, <2>4, <2>5, <2>6 DEF TypeOK
<1>2. VerdictInv /\ AcceptedMeansUsed
  BY DEF Init, VerdictInv, AcceptedMeansUsed
<1>3. MutexInv
  BY DEF Init, MutexInv
<1>4. StartInv
  BY DEF Init, StartInv
<1>5. PathInv
  <2>1. \A t \in Threads, i \in 1..3 : ~ (i < cell[t]) /\ tpc[t] = "off"
    BY DEF Init
  <2>2. \A c \in Elements(network_keys) : path[c] = <<"default", "default">>
    BY DEF Init
  <2> QED
    BY <2>1, <2>2 DEF PathInv, HasOwn, Finished
<1>6. ServersWhereConfigured
  BY DEF Init, ServersWhereConfigured
<1>7. NameInv
  BY DEF Init, NameInv, Taken
<1> QED
  BY <1>1, <1>2, <1>3, <1>4, <1>5, <1>6, <1>7 DEF IInv

LEMMA ThreadsLeaveMain ==
  ASSUME NEW t \in Threads, ThreadAdvance(t)
  PROVE  /\ UNCHANGED <<file, switched, loud, long, config_root, pc, verdict,
                   settings>>
         /\ GivenKeys' = GivenKeys
         /\ \A c \in Elements(network_keys) : Given(c)' <=> Given(c)
         /\ unread \subseteq unread' /\ unread' \subseteq unread \cup {t}
<1>1. UNCHANGED <<file, switched, loud, long, config_root, pc, verdict,
                   settings>>
  BY DEF ThreadAdvance, GetPath, GetAudio, LeaveAudio, Fetch, CopyFirst,
     CopySecond, Unlink, Bind, BindFails, UntouchedByThreads, inputVars, mainVars
<1>2. unread \subseteq unread' /\ unread' \subseteq unread \cup {t}
  BY DEF ThreadAdvance, GetPath, GetAudio, LeaveAudio, Fetch, CopyFirst,
     CopySecond, Unlink, Bind, BindFails
<1> QED
  BY <1>1, <1>2 DEF GivenKeys, Given, Item, Section, Audio

LEMMA MainLeavesThreads ==
  ASSUME Load \/ Validate \/ ReadSettings
  PROVE  UNCHANGED <<file, switched, loud, long, owner, count, cell, unread, path,
                     sun_path, socketAt>>
BY DEF Load, Validate, ReadSettings, inputVars, threadVars

-----------------------------------------------------------------------------
(* Types, and the mutex.                                                   *)

\* The next path exists; a thread that is done with the last goes to unlink().
LEMMA NextPath ==
  ASSUME TypeOK, NEW t \in Threads, NEW here \in {"fetch", "second"},
         NextCell(t, here)
  PROVE  /\ cell[t] \in 1..3 /\ cell'[t] \in 1..3
         /\ tpc[t] = here
         /\ tpc' = [tpc EXCEPT ![t] = tpc'[t]]
         /\ cell' = [cell EXCEPT ![t] = cell'[t]]
         /\ \/ tpc'[t] = "unlink" /\ cell[t] = 3 /\ cell'[t] = 3
            \/ tpc'[t] = "outer" /\ cell'[t] = cell[t] + 1
<1>1. cell[t] \in 1..3 /\ LastCell = 3
  BY KeyFacts DEF TypeOK, LastCell
<1> QED
  BY <1>1 DEF NextCell, Goes, TypeOK

\* What a thread that reads its path finds in it.
LEMMA NameTypes ==
  ASSUME TypeOK, NEW t \in Threads
  PROVE  /\ NameIn(t) \in Names
         /\ \/ NameIn(t) \in {<<"default", t>>, <<"file", t>>, <<"torn", t>>}
            \/ NameIn(t) = <<"cut", "cut">>
BY KeyFacts DEF TypeOK, NameIn, Names

LEMMA MainTypes ==
  ASSUME TypeOK, Load \/ Validate \/ ReadSettings PROVE TypeOK'
<1>1. UNCHANGED <<file, switched, loud, long, owner, count, cell, unread, path,
                sun_path, socketAt>>
  BY MainLeavesThreads
<1>2. CASE Load \/ Validate
  BY <1>1, <1>2 DEF TypeOK, Load, Validate, Outcomes, threadVars
<1>3. CASE ReadSettings
  <2>1. PICK up \in SUBSET {s \in Sections : Enabled(s)} :
          /\ settings' = UNION {DeviceSettings(s) : s \in up}
          /\ tpc' = [t \in Threads |->
                       IF t = "input" /\ "AI" \notin up THEN "off" ELSE "outer"]
    BY <1>3 DEF ReadSettings
  <2>2. ASSUME NEW s \in Sections
        PROVE  DeviceSettings(s) \subseteq
                 Sections \X ({"device_id", "channel_id", "SetVol"} \cup Format)
                          \X {"file", "default", "unchecked", "constant"}
    BY DEF DeviceSettings, FromFile, Volume
  <2>3. settings' \subseteq
          Sections \X ({"device_id", "channel_id", "SetVol"} \cup Format)
                   \X {"file", "default", "unchecked", "constant"}
    BY <2>1, <2>2
  <2>4. tpc' \in [Threads -> {"off", "outer", "inner", "leave", "fetch", "first",
                             "second", "unlink", "bind", "bound", "failed"}]
    BY <2>1
  <2>5. UNCHANGED <<config_root, verdict>> /\ pc' = "run"
    BY <1>3 DEF ReadSettings
  <2> QED
    BY <1>1, <2>3, <2>4, <2>5 DEF TypeOK
<1> QED
  BY <1>2, <1>3

\* The mutex, whose count is never more than the two nested locks.
LEMMA ThreadMutex ==
  ASSUME TypeOK, MutexInv, NEW t \in Threads, ThreadAdvance(t)
  PROVE  /\ MutexInv'
         /\ owner' \in Threads \cup {NoThread} /\ count' \in 0..2
         /\ (count' = 0 <=> owner' = NoThread)
<1> USE DEF TypeOK, MutexInv
<1>1. CASE GetPath(t) \/ GetAudio(t)
  BY <1>1 DEF GetPath, GetAudio, Goes, LockConfig, CanLock
<1>2. CASE LeaveAudio(t)
  BY <1>2 DEF LeaveAudio, Goes, UnlockConfig
<1>3. CASE Fetch(t)
  <2>1. /\ tpc[t] = "fetch" /\ tpc'[t] \in {"first", "unlink", "outer"}
        /\ \A u \in Threads \ {t} : tpc'[u] = tpc[u]
    BY <1>3, NextPath DEF Fetch, Goes
  <2> QED
    BY <1>3, <2>1 DEF Fetch, UnlockConfig
<1>4. CASE CopySecond(t)
  <2>1. /\ tpc[t] = "second" /\ tpc'[t] \in {"unlink", "outer"}
        /\ \A u \in Threads \ {t} : tpc'[u] = tpc[u]
    BY <1>4, NextPath DEF CopySecond
  <2> QED
    BY <1>4, <2>1 DEF CopySecond
<1>5. CASE CopyFirst(t) \/ Unlink(t) \/ Bind(t) \/ BindFails(t)
  BY <1>5 DEF CopyFirst, Unlink, Bind, BindFails, Goes
<1> QED
  BY <1>1, <1>2, <1>3, <1>4, <1>5 DEF ThreadAdvance

LEMMA ThreadTypes ==
  ASSUME TypeOK, MutexInv, NEW t \in Threads, ThreadAdvance(t) PROVE TypeOK'
<1> DEFINE Places == {"off", "outer", "inner", "leave", "fetch", "first",
                      "second", "unlink", "bind", "bound", "failed"}
<1>1. /\ UNCHANGED <<file, switched, loud, long, config_root, pc, verdict,
                   settings>>
      /\ owner' \in Threads \cup {NoThread} /\ count' \in 0..2
      /\ (count' = 0 <=> owner' = NoThread)
  BY ThreadsLeaveMain, ThreadMutex
<1>2. /\ tpc' \in [Threads -> Places]
      /\ cell' \in [Threads -> 1..Len(network_keys)]
  <2>1. CASE CopySecond(t) \/ NextCell(t, "fetch")
    <3>1. \E here \in {"fetch", "second"} : NextCell(t, here)
      BY <2>1 DEF CopySecond
    <3> QED
      BY <3>1, NextPath, KeyFacts DEF TypeOK
  <2>2. CASE Goes(t, "fetch", "first") /\ cell' = cell
    BY <2>2 DEF Goes, TypeOK
  <2>3. CASE ~ CopySecond(t) /\ ~ Fetch(t)
    BY <2>3 DEF ThreadAdvance, GetPath, GetAudio, LeaveAudio, CopyFirst, Unlink,
       Bind, BindFails, Goes, TypeOK
  <2> QED
    BY <2>1, <2>2, <2>3 DEF Fetch
<1>3. path' \in [Elements(network_keys) ->
                   {"default", "file"} \X {"default", "file"}]
  <2>1. Current(t) \in Elements(network_keys)
    BY KeyFacts DEF TypeOK, Current
  <2>2. CASE CopyFirst(t) \/ CopySecond(t)
    <3>1. /\ path \in [Elements(network_keys) ->
                         {"default", "file"} \X {"default", "file"}]
          /\ \E half \in {"default", "file"} \X {"default", "file"} :
               path' = [path EXCEPT ![Current(t)] = half]
      BY <2>1, <2>2 DEF CopyFirst, CopySecond, TypeOK
    <3> QED
      BY <2>1, <3>1
  <2>3. CASE path' = path
    BY <2>3 DEF TypeOK
  <2> QED
    BY <2>2, <2>3 DEF ThreadAdvance, GetPath, GetAudio, LeaveAudio, Fetch,
       Unlink,
       Bind, BindFails
<1>4. socketAt' \in [Names -> Threads \cup {NoThread}]
  <2>1. CASE Unlink(t) \/ Bind(t)
    BY <2>1 DEF Unlink, Bind, TypeOK
  <2>2. CASE socketAt' = socketAt
    BY <2>2 DEF TypeOK
  <2> QED
    BY <2>1, <2>2 DEF ThreadAdvance, GetPath, GetAudio, LeaveAudio, Fetch,
       CopyFirst, CopySecond, BindFails
<1>5. sun_path' \in [Threads -> Names]
  <2>1. CASE Unlink(t)
    BY <2>1, NameTypes DEF Unlink, TypeOK
  <2>2. CASE ~ Unlink(t)
    <3>1. sun_path' = sun_path
      BY <2>2 DEF ThreadAdvance, GetPath, GetAudio, LeaveAudio, Fetch, CopyFirst,
         CopySecond, Bind, BindFails
    <3> QED
      BY <3>1 DEF TypeOK
  <2> QED
    BY <2>1, <2>2
<1>6. unread' \subseteq Threads
  BY ThreadsLeaveMain DEF TypeOK
<1> QED
  BY <1>1, <1>2, <1>3, <1>4, <1>5, <1>6 DEF TypeOK

-----------------------------------------------------------------------------
(* The settings of main.                                                   *)

LEMMA MainStep ==
  ASSUME IInv, Load \/ Validate \/ ReadSettings
  PROVE  VerdictInv' /\ MutexInv' /\ StartInv' /\ PathInv' /\ NameInv'
           /\ ServersWhereConfigured' /\ AcceptedMeansUsed'
<1>1. UNCHANGED <<file, switched, loud, long, owner, count, cell, unread, path,
                sun_path, socketAt>>
  BY MainLeavesThreads
<1>2. /\ pc \in {"load", "validate", "read"} /\ settings = {}
      /\ \A t \in Threads : tpc[t] = "off" /\ cell[t] = 1
      /\ \A c \in Elements(network_keys) : path[c] = <<"default", "default">>
  BY DEF Load, Validate, ReadSettings, IInv, StartInv
<1>3. \A t \in Threads : tpc'[t] \in {"off", "outer"}
  <2>1. CASE Load \/ Validate
    BY <1>2, <2>1 DEF Load, Validate, threadVars
  <2>2. CASE ReadSettings
    BY <2>2 DEF ReadSettings
  <2> QED
    BY <2>1, <2>2
<1>4. MutexInv'
  BY <1>1, <1>2, <1>3 DEF IInv, MutexInv
<1>5. StartInv'
  <2>1. CASE Load \/ Validate
    BY <1>1, <1>2, <2>1 DEF Load, Validate, threadVars, StartInv
  <2>2. CASE ReadSettings
    BY <1>1, <1>2, <2>2 DEF ReadSettings, StartInv
  <2> QED
    BY <2>1, <2>2
<1>6. PathInv'
  <2>1. \A t \in Threads, i \in 1..3 : ~ (i < cell'[t])
    BY <1>1, <1>2
  <2> QED
    BY <1>1, <1>2, <1>3, <2>1 DEF PathInv, HasOwn, Finished
<1>7. ServersWhereConfigured' /\ NameInv'
  BY <1>1, <1>3 DEF ServersWhereConfigured, IInv, NameInv, Taken
<1>8. VerdictInv'
  <2>1. CASE Load
    BY <2>1 DEF Load, IInv, VerdictInv
  <2>2. CASE Validate
    <3>1. verdict' = "valid" => ValidJson
      BY <2>2 DEF Validate, Outcomes
    <3>2. ValidJson' <=> ValidJson
      BY <1>1, <2>2 DEF Validate, ValidJson, ValidUpTo, IsValid, Item, Section,
         Audio
    <3> QED
      BY <2>2, <3>1, <3>2 DEF Validate, VerdictInv
  <2>3. CASE ReadSettings
    <3>1. ValidJson' <=> ValidJson
      BY <1>1, <2>3 DEF ReadSettings, ValidJson, ValidUpTo, IsValid, Item,
         Section, Audio
    <3> QED
      BY <2>3, <3>1 DEF ReadSettings, IInv, VerdictInv
  <2> QED
    BY <2>1, <2>2, <2>3
<1>9. AcceptedMeansUsed'
  <2> DEFINE Agrees(x) ==
               /\ x[1] \in switched
               /\ x[2] \in {"device_id", "channel_id"} => x[3] = "file"
               /\ x[2] = "SetVol" =>
                    x[3] = IF x[1] \in loud THEN "default" ELSE "file"
  <2> SUFFICES ASSUME verdict' = "valid"
               PROVE  /\ \A c \in Elements(network_keys) : Given(c)'
                      /\ \A x \in settings' : Agrees(x)
                      /\ (pc' = "run" /\ tpc'["input"] # "off") =>
                           "AI" \in switched'
    BY <1>1 DEF AcceptedMeansUsed
  <2>1. ~ Load /\ config_root' = config_root
    BY <1>2 DEF Load, Validate, ReadSettings, IInv, VerdictInv
  <2>2. ValidJson' /\ (ValidJson' <=> ValidJson)
    BY <1>1, <1>8, <2>1 DEF VerdictInv, ValidJson, ValidUpTo, IsValid, Item,
       Section, Audio
  <2>3. \A c \in Elements(network_keys) : Given(c) /\ Given(c)'
    BY <1>1, <2>1, <2>2, ValidItems DEF Given, Item, Section, Audio
  <2>4. CASE Validate
    <3>1. settings' = {} /\ pc' # "run"
      BY <1>2, <2>4 DEF Validate, IInv, StartInv
    <3> QED
      BY <2>3, <3>1
  <2>5. CASE ReadSettings
    <3>1. PICK up \in SUBSET {s \in Sections : Enabled(s)} :
            /\ settings' = UNION {DeviceSettings(s) : s \in up}
            /\ tpc' = [t \in Threads |->
                         IF t = "input" /\ "AI" \notin up THEN "off" ELSE "outer"]
      BY <2>5 DEF ReadSettings
    <3>2. \A s \in Sections :
            /\ Item(s, "device_id") = "right" /\ Item(s, "channel_id") = "right"
            /\ Item(s, "SetVol") = "right" /\ Item(s, "enabled") = "right"
      BY <2>2, ValidItems
    <3>3. \A s \in Sections : Enabled(s) => s \in switched
      BY <3>2 DEF Enabled, Item
    <3>4. ASSUME NEW s \in up, NEW x \in DeviceSettings(s) PROVE Agrees(x)
      <4>1. s \in Sections /\ s \in switched
        BY <3>1, <3>3
      <4>2. CASE \E key \in {"device_id", "channel_id"} : x = <<s, key, "file">>
        BY <4>1, <4>2
      <4>3. CASE x = <<s, "SetVol", IF s \in loud THEN "default" ELSE "file">>
        BY <4>1, <4>3
      <4>4. CASE \E key \in Format : x = <<s, key, "constant">>
        BY <4>1, <4>4 DEF Format
      <4> QED
        BY <3>2, <4>1, <4>2, <4>3, <4>4 DEF DeviceSettings, FromFile, Volume
    <3>5. \A x \in settings' : Agrees(x)
      BY <3>1, <3>4
    <3>6. tpc'["input"] # "off" => "AI" \in switched'
      BY <1>1, <3>1, <3>3 DEF Threads, Sections
    <3> QED
      BY <2>3, <3>5, <3>6
  <2> QED
    BY <2>1, <2>4, <2>5
<1> QED
  BY <1>4, <1>5, <1>6, <1>7, <1>8, <1>9

-----------------------------------------------------------------------------
(* The copies and the binds.                                               *)

\* A thread moves by itself, from where it has started to where it has ended.
LEMMA ThreadMoves ==
  ASSUME IInv, NEW t \in Threads, ThreadAdvance(t)
  PROVE  /\ tpc[t] \notin {"off", "bound", "failed"} /\ tpc'[t] # "off"
         /\ tpc'[t] = "bound" => Bind(t)
         /\ \A u \in Threads \ {t} : tpc'[u] = tpc[u] /\ cell'[u] = cell[u]
<1>1. CASE CopySecond(t) \/ NextCell(t, "fetch")
  <2>1. PICK here \in {"fetch", "second"} : NextCell(t, here)
    BY <1>1 DEF CopySecond
  <2>2. /\ tpc[t] = here /\ tpc'[t] \in {"unlink", "outer"}
        /\ tpc' = [tpc EXCEPT ![t] = tpc'[t]]
        /\ cell' = [cell EXCEPT ![t] = cell'[t]]
    BY <2>1, NextPath DEF IInv
  <2> QED
    BY <2>2 DEF IInv, TypeOK
<1>2. CASE Goes(t, "fetch", "first") /\ cell' = cell
  BY <1>2 DEF Goes, IInv, TypeOK
<1>3. CASE ~ CopySecond(t) /\ ~ Fetch(t)
  BY <1>3 DEF ThreadAdvance, GetPath, GetAudio, LeaveAudio, CopyFirst, Unlink,
     Bind, BindFails, Goes, IInv, TypeOK
<1> QED
  BY <1>1, <1>2, <1>3 DEF Fetch

LEMMA ThreadStart ==
  ASSUME IInv, NEW t \in Threads, ThreadAdvance(t)
  PROVE  VerdictInv' /\ StartInv' /\ AcceptedMeansUsed'
<1>1. /\ UNCHANGED <<file, switched, loud, long, config_root, pc, verdict,
                   settings>>
      /\ \A c \in Elements(network_keys) : Given(c)' <=> Given(c)
  BY ThreadsLeaveMain
<1>2. tpc[t] # "off" /\ tpc'[t] # "off"
  BY ThreadMoves
<1>3. \A u \in Threads \ {t} : tpc'[u] = tpc[u] /\ cell'[u] = cell[u]
  BY ThreadMoves
<1>4. pc = "run"
  BY <1>2 DEF IInv, StartInv
<1>5. StartInv'
  BY <1>1, <1>2, <1>3, <1>4 DEF IInv, StartInv
<1>6. VerdictInv'
  <2>1. ValidJson' <=> ValidJson
    BY <1>1 DEF ValidJson, ValidUpTo, IsValid, Item, Section, Audio
  <2> QED
    BY <1>1, <2>1 DEF IInv, VerdictInv
<1>7. AcceptedMeansUsed'
  <2>1. tpc'["input"] # "off" => tpc["input"] # "off"
    BY <1>2, <1>3 DEF Threads
  <2> QED
    BY <1>1, <2>1 DEF IInv, AcceptedMeansUsed
<1> QED
  BY <1>5, <1>6, <1>7

\* What is done with one path.
LEMMA ThreadPath ==
  ASSUME IInv, NEW t \in Threads, ThreadAdvance(t) PROVE PathInv'
<1>1. GivenKeys' = GivenKeys /\ unread \subseteq unread'
  BY ThreadsLeaveMain
<1>2. cell[t] \in 1..3 /\ \A u \in Threads : cell[u] \in 1..3
  BY KeyFacts DEF IInv, TypeOK
<1>3. /\ Current(t) \in Elements(network_keys)
      /\ \A i \in 1..3 : network_keys[i] = Current(t) => i = cell[t]
  BY <1>2, KeyFacts DEF Current
<1>4. CASE GetPath(t) \/ GetAudio(t) \/ LeaveAudio(t)
  BY <1>1, <1>4 DEF GetPath, GetAudio, LeaveAudio, Goes, IInv, TypeOK, PathInv,
     HasOwn, Finished, Current
<1>5. CASE Fetch(t) /\ Goes(t, "fetch", "first")
  <2>1. /\ tpc' = [tpc EXCEPT ![t] = "first"] /\ cell' = cell /\ path' = path
        /\ Current(t) \in GivenKeys
    BY <1>3, <1>5, NextPath DEF Fetch, Goes, Copies, GivenKeys, IInv, TypeOK
  <2> QED
    BY <1>1, <2>1 DEF IInv, TypeOK, PathInv, HasOwn, Finished, Current
<1>6. CASE Fetch(t) /\ NextCell(t, "fetch")
  <2>1. path' = path /\ ~ (Current(t) = t /\ t \in GivenKeys \ unread')
    BY <1>3, <1>6, NextPath DEF Fetch, Goes, Copies, GivenKeys, IInv, TypeOK
  <2>2. \A u \in Threads, i \in 1..3 : HasOwn(u, i)' => HasOwn(u, i)
    BY <1>1, <1>2, <1>6, <2>1, NextPath
       DEF IInv, TypeOK, HasOwn, Current, Finished
  <2>3. ASSUME NEW u \in Threads, tpc'[u] \in {"first", "second"}
        PROVE  tpc'[u] = tpc[u] /\ Current(u)' = Current(u)
    BY <1>6, <2>3, NextPath DEF IInv, TypeOK, Current
  <2> QED
    BY <1>1, <2>1, <2>2, <2>3 DEF IInv, PathInv
<1>7. CASE CopyFirst(t)
  <2>1. /\ tpc' = [tpc EXCEPT ![t] = "second"] /\ tpc[t] = "first"
        /\ cell' = cell
        /\ path' = [path EXCEPT ![Current(t)] = <<"file", @[2]>>]
    BY <1>7 DEF CopyFirst, Goes
  <2>2. Current(t) \in GivenKeys
    BY <2>1 DEF IInv, PathInv
  <2>3. /\ path'[Current(t)] = <<"file", path[Current(t)][2]>>
        /\ \A c \in Elements(network_keys) \ {Current(t)} : path'[c] = path[c]
    BY <1>3, <2>1 DEF IInv, TypeOK
  <2>4. ASSUME NEW u \in Threads, NEW i \in 1..3, HasOwn(u, i)'
        PROVE  path'[network_keys[i]] = <<"file", "file">>
    <3>1. HasOwn(u, i)
      BY <1>1, <2>1, <2>4 DEF IInv, TypeOK, HasOwn, Finished
    <3>2. path[network_keys[i]] = <<"file", "file">>
      BY <2>4, <3>1 DEF IInv, PathInv
    <3>3. path[network_keys[i]][2] = "file"
      BY <3>2
    <3> QED
      BY <2>3, <3>2, <3>3, KeyFacts
  <2>5. ASSUME NEW u \in Threads, tpc'[u] \in {"first", "second"}
        PROVE  /\ Current(u)' = Current(u) /\ Current(u) \in GivenKeys
               /\ tpc'[u] = "second" => path'[Current(u)][1] = "file"
    <3>1. Current(u)' = Current(u) /\ Current(u) \in GivenKeys
      BY <2>1, <2>2, <2>5 DEF IInv, TypeOK, PathInv, Current
    <3>2. CASE Current(u) = Current(t)
      BY <2>3, <3>1, <3>2
    <3>3. CASE Current(u) # Current(t)
      BY <2>1, <2>3, <2>5, <3>1, <3>3 DEF IInv, TypeOK, PathInv, GivenKeys
    <3> QED
      BY <3>1, <3>2, <3>3
  <2>6. \A c \in Elements(network_keys) \ GivenKeys : path'[c] = path[c]
    BY <2>2, <2>3
  <2> QED
    BY <1>1, <2>4, <2>5, <2>6 DEF IInv, PathInv
<1>8. CASE CopySecond(t)
  <2>1. /\ path' = [path EXCEPT ![Current(t)] = <<@[1], "file">>]
        /\ NextCell(t, "second")
    BY <1>8 DEF CopySecond
  <2>2. tpc[t] = "second"
    BY <2>1 DEF NextCell, Goes
  <2>3. Current(t) \in GivenKeys /\ path[Current(t)][1] = "file"
    BY <2>2 DEF IInv, PathInv
  <2>4. /\ path'[Current(t)] = <<"file", "file">>
        /\ \A c \in Elements(network_keys) \ {Current(t)} : path'[c] = path[c]
    BY <1>3, <2>1, <2>3 DEF IInv, TypeOK
  <2>5. ASSUME NEW u \in Threads, NEW i \in 1..3, HasOwn(u, i)'
        PROVE  path'[network_keys[i]] = <<"file", "file">>
    <3>1. HasOwn(u, i) \/ (u = t /\ i = cell[t])
      BY <1>1, <1>2, <2>1, <2>5, NextPath DEF IInv, TypeOK, HasOwn, Finished
    <3>2. CASE u = t /\ i = cell[t]
      BY <2>4, <3>2 DEF Current
    <3>3. CASE HasOwn(u, i)
      BY <2>4, <2>5, <3>3, KeyFacts DEF IInv, PathInv
    <3> QED
      BY <3>1, <3>2, <3>3
  <2>6. ASSUME NEW u \in Threads, tpc'[u] \in {"first", "second"}
        PROVE  /\ Current(u)' = Current(u) /\ Current(u) \in GivenKeys
               /\ tpc'[u] = "second" => path'[Current(u)][1] = "file"
    <3>1. u # t
      BY <2>1, <2>6, NextPath DEF IInv
    <3>2. tpc'[u] = tpc[u] /\ cell'[u] = cell[u]
      BY <2>1, <3>1, NextPath DEF IInv, TypeOK
    <3>3. Current(u)' = Current(u) /\ Current(u) \in GivenKeys
      BY <2>6, <3>2 DEF IInv, PathInv, Current
    <3>4. CASE Current(u) = Current(t)
      BY <2>4, <3>3, <3>4
    <3>5. CASE Current(u) # Current(t)
      BY <2>4, <2>6, <3>2, <3>3, <3>5 DEF IInv, PathInv, GivenKeys
    <3> QED
      BY <3>3, <3>4, <3>5
  <2>7. \A c \in Elements(network_keys) \ GivenKeys : path'[c] = path[c]
    BY <2>3, <2>4
  <2> QED
    BY <1>1, <2>5, <2>6, <2>7 DEF IInv, PathInv
<1>9. CASE Unlink(t) \/ Bind(t) \/ BindFails(t)
  BY <1>1, <1>9 DEF Unlink, Bind, BindFails, Goes, IInv, TypeOK, PathInv,
     HasOwn, Finished, Current
<1> QED
  BY <1>4, <1>5, <1>6, <1>7, <1>8, <1>9 DEF ThreadAdvance, Fetch

\* Reading its own array, a thread past the copies finds it whole, if it had the
\* memory to copy it itself.
LEMMA NameWhole ==
  ASSUME TypeOK, PathInv, NEW t \in Threads, tpc[t] \in Finished
  PROVE  /\ NameIn(t)[2] \in {t, "cut"}
         /\ t \notin unread => NameIn(t)[1] # "torn"
         /\ (Given(t) => t \notin long \cup unread) => NameIn(t) = Configured(t)
<1>1. PICK i \in 1..3 : network_keys[i] = t
  BY KeyFacts
<1>2. t \in Elements(network_keys)
  BY KeyFacts
<1>3. NameIn(t)[2] \in {t, "cut"}
  BY NameTypes
<1>4. CASE Given(t) /\ t \notin unread
  <2>1. path[t] = <<"file", "file">>
    BY <1>1, <1>2, <1>4 DEF PathInv, HasOwn, GivenKeys
  <2> QED
    BY <1>3, <1>4, <2>1 DEF NameIn, Configured
<1>5. CASE ~ Given(t)
  <2>1. path[t] = <<"default", "default">>
    BY <1>2, <1>5 DEF PathInv, GivenKeys
  <2> QED
    BY <1>3, <1>5, <2>1 DEF NameIn, Configured
<1> QED
  BY <1>3, <1>4, <1>5

\* The name is taken once, and kept.
LEMMA ThreadName ==
  ASSUME IInv, NEW t \in Threads, ThreadAdvance(t) PROVE NameInv'
<1>1. /\ long' = long /\ unread \subseteq unread'
      /\ \A u \in Threads :
           (Given(u)' <=> Given(u)) /\ Configured(u)' = Configured(u)
  BY ThreadsLeaveMain, KeyFacts DEF Configured
<1>2. CASE Unlink(t)
  <2>1. /\ tpc[t] \in Finished /\ unread' = unread
        /\ sun_path' = [sun_path EXCEPT ![t] = NameIn(t)]
        /\ \A u \in Threads \ {t} : tpc'[u] = tpc[u]
    BY <1>2, ThreadMoves DEF Unlink, Goes, Finished
  <2>2. /\ sun_path'[t] = NameIn(t)
        /\ \A u \in Threads \ {t} : sun_path'[u] = sun_path[u]
    BY <2>1 DEF IInv, TypeOK
  <2>3. /\ NameIn(t)[2] \in {t, "cut"}
        /\ t \notin unread => NameIn(t)[1] # "torn"
        /\ (Given(t) => t \notin long \cup unread) => NameIn(t) = Configured(t)
    BY <2>1, NameWhole DEF IInv
  <2> QED
    BY <1>1, <2>1, <2>2, <2>3 DEF IInv, NameInv
<1>3. CASE ~ Unlink(t)
  <2>1. sun_path' = sun_path
    BY <1>3 DEF ThreadAdvance, GetPath, GetAudio, LeaveAudio, Fetch, CopyFirst,
       CopySecond, Bind, BindFails
  <2>2. tpc'[t] \in Taken => tpc[t] \in Taken
    <3>1. CASE CopySecond(t) \/ NextCell(t, "fetch")
      BY <3>1, NextPath DEF CopySecond, IInv, Taken
    <3>2. CASE Goes(t, "fetch", "first")
      BY <3>2 DEF Goes, IInv, TypeOK, Taken
    <3>3. CASE ~ CopySecond(t) /\ ~ Fetch(t)
      BY <1>3, <3>3 DEF ThreadAdvance, GetPath, GetAudio, LeaveAudio, CopyFirst,
         Bind, BindFails, Goes, IInv, TypeOK, Taken
    <3> QED
      BY <3>1, <3>2, <3>3 DEF Fetch
  <2>3. \A u \in Threads : tpc'[u] \in Taken => tpc[u] \in Taken
    BY <2>2, ThreadMoves
  <2> QED
    BY <1>1, <2>1, <2>3 DEF IInv, NameInv
<1> QED
  BY <1>2, <1>3

LEMMA ThreadServers ==
  ASSUME IInv, NEW t \in Threads, ThreadAdvance(t)
  PROVE  ServersWhereConfigured'
<1>1. /\ long' = long /\ unread \subseteq unread'
      /\ \A u \in Threads :
           (Given(u)' <=> Given(u)) /\ Configured(u)' = Configured(u)
  BY ThreadsLeaveMain, KeyFacts DEF Configured
<1>2. SUFFICES ASSUME NEW u \in Threads, tpc'[u] = "bound",
                      Given(u) => u \notin long \cup unread
               PROVE  socketAt'[Configured(u)] = u
  BY <1>1 DEF ServersWhereConfigured
<1>3. Configured(u) \in Names /\ Configured(u)[2] = u
  BY KeyFacts DEF Configured, Names
<1>4. CASE Bind(t) /\ u = t
  <2>1. tpc[t] = "bind" /\ socketAt' = [socketAt EXCEPT ![sun_path[t]] = t]
    BY <1>4 DEF Bind, Goes
  <2>2. sun_path[t] = Configured(t)
    BY <1>2, <1>4, <2>1 DEF IInv, NameInv, Taken
  <2> QED
    BY <1>3, <1>4, <2>1, <2>2 DEF IInv, TypeOK
<1>5. CASE u # t /\ (Bind(t) \/ Unlink(t))
  <2>1. tpc[u] = "bound" /\ socketAt[Configured(u)] = u
    BY <1>2, <1>5, ThreadMoves DEF IInv, ServersWhereConfigured
  <2>2. NameIn(t) # Configured(u) /\ sun_path[t] # Configured(u)
    <3>1. NameIn(t)[2] \in {t, "cut"} /\ sun_path[t][2] \in {t, "cut"}
      BY NameTypes DEF IInv, NameInv
    <3>2. u \notin {t, "cut"}
      BY <1>5 DEF Threads
    <3> QED
      BY <1>3, <3>1, <3>2
  <2>3. \E n : socketAt' = [socketAt EXCEPT ![n] = socketAt'[n]]
                 /\ n # Configured(u)
    BY <1>5, <2>2, NameTypes DEF Bind, Unlink, IInv, TypeOK
  <2> QED
    BY <1>3, <2>1, <2>3 DEF IInv, TypeOK
<1>6. CASE tpc[u] = "bound" /\ socketAt' = socketAt
  BY <1>2, <1>6 DEF IInv, ServersWhereConfigured
<1>7. u # t => tpc[u] = "bound"
  BY <1>2, ThreadMoves
<1>8. u = t => Bind(t)
  BY <1>2, ThreadMoves
<1>9. Bind(t) \/ Unlink(t) \/ socketAt' = socketAt
  BY DEF ThreadAdvance, GetPath, GetAudio, LeaveAudio, Fetch, CopyFirst,
     CopySecond, BindFails
<1> QED
  BY <1>4, <1>5, <1>6, <1>7, <1>8, <1>9

-----------------------------------------------------------------------------
LEMMA StepIInv == IInv /\ [Next]_vars => IInv'
<1> SUFFICES ASSUME IInv, [Next]_vars PROVE IInv'
  OBVIOUS
<1>1. CASE Load \/ Validate \/ ReadSettings
  BY <1>1, MainTypes, MainStep DEF IInv
<1>2. ASSUME NEW t \in Threads, ThreadAdvance(t) PROVE IInv'
  BY <1>2, ThreadTypes, ThreadMutex, ThreadStart, ThreadPath, ThreadName,
     ThreadServers DEF IInv
<1>3. CASE UNCHANGED vars
  <2> USE <1>3 DEF vars, inputVars, mainVars, threadVars
  <2>1. TypeOK' /\ MutexInv'
    BY DEF IInv, TypeOK, MutexInv
  <2>2. \A c \in Elements(network_keys) : Given(c)' <=> Given(c)
    BY DEF Given, Item, Section, Audio
  <2>3. VerdictInv'
    BY DEF IInv, VerdictInv, ValidJson, ValidUpTo, IsValid, Item, Section, Audio
  <2>4. StartInv' /\ AcceptedMeansUsed'
    BY <2>2 DEF IInv, StartInv, AcceptedMeansUsed
  <2>5. GivenKeys' = GivenKeys
    BY <2>2 DEF GivenKeys
  <2>6. PathInv'
    BY <2>5 DEF IInv, PathInv, HasOwn, Current
  <2>7. ServersWhereConfigured' /\ NameInv'
    BY <2>2, KeyFacts DEF IInv, ServersWhereConfigured, NameInv, Configured
  <2> QED
    BY <2>1, <2>3, <2>4, <2>6, <2>7 DEF IInv
<1> QED
  BY <1>1, <1>2, <1>3 DEF Next

LEMMA Invariance == Spec => []IInv
BY InitIInv, StepIInv, PTL DEF Spec

\* The types of the whole state; the mutex is taken twice at most, and is free
\* exactly when its count is 0.
THEOREM TypeCorrect == Spec => []TypeOK
<1>1. IInv => TypeOK
  BY DEF IInv
<1> QED
  BY Invariance, <1>1, PTL

\* Every bound server is found where the file says, or at its default.
THEOREM BoundWhereConfigured == Spec => []ServersWhereConfigured
<1>1. IInv => ServersWhereConfigured
  BY DEF IInv
<1> QED
  BY Invariance, <1>1, PTL

\* What a file that was found valid says of the paths, of what is enabled, of
\* the devices and of the volumes in range is what main and the servers use.
THEOREM AcceptedIsUsed == Spec => []AcceptedMeansUsed
<1>1. IInv => AcceptedMeansUsed
  BY DEF IInv
<1> QED
  BY Invariance, <1>1, PTL

\* No server that had the memory to copy its path unlinks or binds a name put
\* together of two: strncpy() in the other thread is without the mutex, and
\* never leaves a path half done once this thread reads it.
NothingTorn ==
  \A t \in Threads \ unread : tpc[t] \in Taken => sun_path[t][1] # "torn"

THEOREM NamesWhole == Spec => []NothingTorn
<1>1. IInv => NothingTorn
  BY DEF IInv, NameInv, NothingTorn
<1> QED
  BY Invariance, <1>1, PTL

\* The recursive mutex is held by the thread that is inside the getters, as
\* often as it has locked it, and by nobody else.
THEOREM MutexBalanced == Spec => []MutexInv
<1>1. IInv => MutexInv
  BY DEF IInv
<1> QED
  BY Invariance, <1>1, PTL
=============================================================================
