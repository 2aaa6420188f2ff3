------------------------------- MODULE Config -------------------------------
(***************************************************************************)
(* The configuration of iad: loading and validating iad.json, the settings  *)
(* main takes from it, and the socket paths that two server threads copy    *)
(* out of it at the same time, under a recursive mutex, into three global   *)
(* arrays, before each binds its own (utils/config.c, network/network.c,    *)
(* audio/audio_common.c).                                                  *)
(*                                                                         *)
(* A file says of each key that it is missing, of another type than the     *)
(* code expects, or right.  A path is the two parts that strncpy() writes   *)
(* one after the other.  The AO server has no part in it: its path is       *)
(* written in output_server.c.                                             *)
(***************************************************************************)
EXTENDS Naturals, Sequences

CONSTANTS Files,    \* what an iad.json that is JSON may say, of Keys below
          Switches, \* which sections such a file may enable
          Louds,    \* which sections may have a SetVol out of -60..30
          Longs,    \* which of its paths may have more than 31 characters
          NoThread

-----------------------------------------------------------------------------
(***************************************************************************)
(* The keys, in the order in which validate_json() asks for them.          *)
(***************************************************************************)

Device == <<"enabled", "device_id", "channel_id", "sample_rate", "frmNum",
            "bitwidth", "soundmode", "chnCnt", "SetVol", "SetGain">>

ao_attributes ==
  Device \o <<"Enable_Agc", "AGC_attributes", "Enable_Hpf", "HPF_attributes">>

ai_attributes ==
  Device \o <<"SetAlcGain", "Enable_Ns", "Level_Ns", "Enable_Hpf", "EnableAec",
              "Enable_Agc", "AGC_attributes">>

agc_attributes == {"TargetLevelDbfs", "CompressionGaindB"}
hpf_attributes == {"SetHpfCoFrequency"}
network_keys == <<"output", "input", "control">>  \* audio_..._socket_path

Attributes == [AO |-> ao_attributes, AI |-> ai_attributes]
Sections == {"AO", "AI"}
Elements(s) == {s[i] : i \in DOMAIN s}

Keys ==
  {<<"root", "audio">>}
    \cup {"audio"} \X (Sections \cup {"network"})
    \cup {"AO"} \X Elements(ao_attributes)
    \cup {"AI"} \X Elements(ai_attributes)
    \cup {"AGC of AO", "AGC of AI"} \X agc_attributes
    \cup {"HPF of AO"} \X hpf_attributes
    \cup {"network"} \X Elements(network_keys)

Threads == {"control", "input"}

ASSUME ConfigAssumption ==
  /\ Files \subseteq [Keys -> {"missing", "wrong", "right"}]
  /\ Switches \subseteq SUBSET Sections
  /\ Louds \subseteq SUBSET Sections
  /\ Longs \subseteq SUBSET Elements(network_keys)
  /\ NoThread \notin Threads

VARIABLES
  file,       \* what iad.json says of each key
  switched,   \* the sections whose "enabled" is true in it
  loud,       \* the sections whose SetVol, if a number, is out of range
  long,       \* the paths in it of more than 31 characters
  config_root,\* whether a tree has been loaded
  pc,         \* where main is
  verdict,    \* what validate_json() has come to
  settings,   \* where each setting main applied comes from
  owner,      \* the thread that holds config_mutex
  count,      \* and how many times it does
  tpc,        \* where each server thread is
  cell,       \* the path each server thread is copying, by its number
  unread,     \* the servers whose own path strdup() had no memory for
  path,       \* the three global arrays, each in two parts
  sun_path,   \* the name that a server has taken from its array
  socketAt    \* the server that each name in the file system leads to

inputVars == <<file, switched, loud, long>>
mainVars == <<config_root, pc, verdict, settings>>
threadVars == <<owner, count, tpc, cell, unread, path, sun_path, socketAt>>
vars == <<inputVars, mainVars, threadVars>>

Names == {"default", "file", "torn"} \X Elements(network_keys)
           \cup {<<"cut", "cut">>}

Init ==
  /\ file \in Files
  /\ switched \in Switches
  /\ loud \in Louds
  /\ long \in Longs
  /\ config_root = FALSE
  /\ pc = "load"
  /\ verdict = "none"
  /\ settings = {}
  /\ owner = NoThread
  /\ count = 0
  /\ tpc = [t \in Threads |-> "off"]
  /\ cell = [t \in Threads |-> 1]
  /\ unread = {}
  /\ path = [c \in Elements(network_keys) |-> <<"default", "default">>]
  /\ sun_path = [t \in Threads |-> <<"default", t>>]
  /\ socketAt = [n \in Names |-> NoThread]

-----------------------------------------------------------------------------
(***************************************************************************)
(* The tree.  cJSON finds nothing in a missing item or in one that is not   *)
(* an object.                                                              *)
(***************************************************************************)

Audio == IF config_root THEN file[<<"root", "audio">>] ELSE "missing"
Section(s) == IF Audio = "right" THEN file[<<"audio", s>>] ELSE "missing"
Item(s, key) == IF Section(s) = "right" THEN file[<<s, key>>] ELSE "missing"

(***************************************************************************)
(* validate_json(), given get_audio_config().                              *)
(***************************************************************************)

Nested(s, key) ==
  CASE key = "AGC_attributes" -> {"AGC of " \o s} \X agc_attributes
    [] key = "HPF_attributes" /\ s = "AO" -> {"HPF of AO"} \X hpf_attributes
    [] OTHER -> {}

\* The item is there and of the right type, and so is all it must contain.
\* The bug: the type is not looked at.
IsThere(s, key) == Item(s, key) # "missing"
IsValid(s, key) ==
  Item(s, key) = "right" /\ \A k \in Nested(s, key) : file[k] = "right"

ValidUpTo(s, n) == \A i \in 1..n : IsValid(s, Attributes[s][i])

ValidJson ==
  /\ \A s \in Sections : ValidUpTo(s, Len(Attributes[s]))
  /\ \A key \in Elements(network_keys) : IsValid("network", key)

\* The attributes of AI are more than those of AO, but the test for
\* "HPF_attributes" reads ao_attributes[i] in both turns: the item after the
\* last is read and taken for a string.
ReadsPastTheEnd ==
  LET first == Len(ao_attributes) + 1
  IN  /\ ValidUpTo("AO", Len(ao_attributes))
      /\ ValidUpTo("AI", first)

\* What it may come to: reading past the end finds a string that is not
\* "HPF_attributes", or no string at all.
Outcomes ==
  {IF ValidJson THEN "valid" ELSE "invalid"}
    \cup (IF ReadsPastTheEnd THEN {"crashed"} ELSE {})

(***************************************************************************)
(* main.  No other thread is there yet, so each getter is one step.        *)
(***************************************************************************)

\* config_load_from_file(): no file, an empty one, no JSON, or a tree.
Load ==
  /\ pc = "load"
  /\ config_root' \in BOOLEAN
  /\ pc' = IF config_root' THEN "validate" ELSE "read"
  /\ UNCHANGED <<inputVars, verdict, settings, threadVars>>

\* An invalid configuration is reported, and stays in use.
Validate ==
  /\ pc = "validate"
  /\ verdict' \in Outcomes
  /\ pc' = IF verdict' = "crashed" THEN "ended" ELSE "read"
  /\ UNCHANGED <<inputVars, config_root, settings, threadVars>>

\* config_get_ai_enabled() and config_get_ao_enabled().
Enabled(s) ==
  \/ Section(s) = "missing"
  \/ Item(s, "enabled") = "right" /\ s \in switched

\* get_audio_input_device_attributes() and the one for output: a number from
\* the file, or a default.
FromFile(s, key) == IF Item(s, key) = "right" THEN "file" ELSE "default"

\* SetVol is used whatever its type is: the number in an item of another type
\* is 0 or 1.  Out of range, it is replaced.
Volume(s) ==
  CASE Item(s, "SetVol") = "missing" -> "default"
    [] Item(s, "SetVol") = "wrong" -> "unchecked"
    [] OTHER -> IF s \in loud THEN "default" ELSE "file"

\* The format is what the hardware needs, whatever the file says.
Format == {"sample_rate", "bitwidth", "soundmode", "frmNum", "chnCnt"}

DeviceSettings(s) ==
  {<<s, "device_id", FromFile(s, "device_id")>>,
   <<s, "channel_id", FromFile(s, "channel_id")>>,
   <<s, "SetVol", Volume(s)>>}
    \cup {<<s, key, "constant">> : key \in Format}

\* The flags, the devices of what is enabled, and the threads.  The command
\* line may disable either part.
ReadSettings ==
  /\ pc = "read"
  /\ \E up \in SUBSET {s \in Sections : Enabled(s)} :
       /\ settings' = UNION {DeviceSettings(s) : s \in up}
       /\ tpc' = [t \in Threads |->
                    IF t = "input" /\ "AI" \notin up THEN "off" ELSE "outer"]
  /\ pc' = "run"
  /\ UNCHANGED <<inputVars, config_root, verdict, owner, count, cell, unread,
                 path, sun_path, socketAt>>

-----------------------------------------------------------------------------
(***************************************************************************)
(* update_socket_paths_from_config(), in two threads.                      *)
(***************************************************************************)

Goes(t, here, there) == tpc[t] = here /\ tpc' = [tpc EXCEPT ![t] = there]
UntouchedByThreads == UNCHANGED <<inputVars, mainVars>>

\* config_mutex is recursive.  The bug: a default mutex.
CanLockOnce(t) == owner = NoThread
CanLock(t) == owner \in {NoThread, t}

LockConfig(t) == CanLock(t) /\ owner' = t /\ count' = count + 1

UnlockConfig(t) == /\ count' = count - 1
                   /\ owner' = IF count = 1 THEN NoThread ELSE owner

\* config_get_socket_path(): lock.
GetPath(t) ==
  /\ Goes(t, "outer", "inner")
  /\ LockConfig(t)
  /\ UNCHANGED <<cell, unread, path, sun_path, socketAt>>
  /\ UntouchedByThreads

\* get_audio_config(), called with the mutex held: lock.
GetAudio(t) ==
  /\ Goes(t, "inner", "leave")
  /\ LockConfig(t)
  /\ UNCHANGED <<cell, unread, path, sun_path, socketAt>>
  /\ UntouchedByThreads

LeaveAudio(t) ==
  /\ Goes(t, "leave", "fetch")
  /\ UnlockConfig(t)
  /\ UNCHANGED <<cell, unread, path, sun_path, socketAt>>
  /\ UntouchedByThreads

Current(t) == network_keys[cell[t]]

LastCell == Len(network_keys)

\* On to the next path, or to bind().
NextCell(t, here) ==
  /\ Goes(t, here, IF cell[t] = LastCell THEN "unlink" ELSE "outer")
  /\ cell' = [cell EXCEPT ![t] = IF @ = LastCell THEN @ ELSE @ + 1]

\* The path is in the tree.  The bug: an array whose beginning is already new
\* is taken for a finished one.
Given(c) == Item("network", c) = "right"
GivenAndNew(c) == Given(c) /\ path[c][1] # "file"
Copies(c) == Given(c)

\* strdup() and unlock.  Without memory the path is passed over, and the other
\* thread may still copy it.
Fetch(t) ==
  /\ UnlockConfig(t)
  /\ \/ /\ Copies(Current(t)) /\ Goes(t, "fetch", "first")
        /\ UNCHANGED <<cell, unread>>
     \/ /\ ~ Copies(Current(t)) /\ NextCell(t, "fetch")
        /\ UNCHANGED unread
     \/ /\ Copies(Current(t)) /\ NextCell(t, "fetch")
        /\ unread' = unread \cup ({t} \cap {Current(t)})
  /\ UNCHANGED <<path, sun_path, socketAt>> /\ UntouchedByThreads

\* strncpy() without the mutex, in two parts.
CopyFirst(t) ==
  /\ Goes(t, "first", "second")
  /\ path' = [path EXCEPT ![Current(t)] = <<"file", @[2]>>]
  /\ UNCHANGED <<owner, count, cell, unread, sun_path, socketAt>>
  /\ UntouchedByThreads

CopySecond(t) ==
  /\ NextCell(t, "second")
  /\ path' = [path EXCEPT ![Current(t)] = <<@[1], "file">>]
  /\ UNCHANGED <<owner, count, unread, sun_path, socketAt>>
  /\ UntouchedByThreads

\* The name a thread reads in its own array.  Long paths are cut after 31
\* characters, and those of one directory may then be the same.
NameIn(c) ==
  CASE path[c] = <<"default", "default">> -> <<"default", c>>
    [] path[c] = <<"file", "file">> -> IF c \in long THEN <<"cut", "cut">>
                                       ELSE <<"file", c>>
    [] OTHER -> <<"torn", c>>

\* The name is taken from the array, and what it leads to removed.
Unlink(t) ==
  /\ Goes(t, "unlink", "bind")
  /\ sun_path' = [sun_path EXCEPT ![t] = NameIn(t)]
  /\ socketAt' = [socketAt EXCEPT ![NameIn(t)] = NoThread]
  /\ UNCHANGED <<owner, count, cell, unread, path>> /\ UntouchedByThreads

\* A name that is taken refuses the bind().
Bind(t) ==
  /\ socketAt[sun_path[t]] = NoThread
  /\ Goes(t, "bind", "bound")
  /\ socketAt' = [socketAt EXCEPT ![sun_path[t]] = t]
  /\ UNCHANGED <<owner, count, cell, unread, path, sun_path>>
  /\ UntouchedByThreads

\* The name is taken, or the directory does not allow it.
BindFails(t) ==
  /\ Goes(t, "bind", "failed")
  /\ UNCHANGED <<owner, count, cell, unread, path, sun_path, socketAt>>
  /\ UntouchedByThreads

ThreadAdvance(t) ==
  \/ GetPath(t) \/ GetAudio(t) \/ LeaveAudio(t) \/ Fetch(t)
  \/ CopyFirst(t) \/ CopySecond(t) \/ Unlink(t) \/ Bind(t) \/ BindFails(t)

Next == Load \/ Validate \/ ReadSettings \/ \E t \in Threads : ThreadAdvance(t)

Spec == Init /\ [][Next]_vars

\* The scheduler runs every thread.
FairSpec == Spec /\ \A t \in Threads : WF_vars(ThreadAdvance(t))
-----------------------------------------------------------------------------
\* The values of the state; the mutex is taken at most twice, by one thread.
TypeOK ==
  /\ file \in Files
  /\ switched \in Switches
  /\ loud \in Louds
  /\ long \in Longs
  /\ config_root \in BOOLEAN
  /\ pc \in {"load", "validate", "read", "run", "ended"}
  /\ verdict \in {"none", "valid", "invalid", "crashed"}
  /\ settings \subseteq
       Sections \X ({"device_id", "channel_id", "SetVol"} \cup Format)
                \X {"file", "default", "unchecked", "constant"}
  /\ owner \in Threads \cup {NoThread}
  /\ count \in 0..2 /\ (count = 0 <=> owner = NoThread)
  /\ tpc \in [Threads -> {"off", "outer", "inner", "leave", "fetch", "first",
                          "second", "unlink", "bind", "bound", "failed"}]
  /\ cell \in [Threads -> 1..Len(network_keys)]
  /\ unread \subseteq Threads
  /\ path \in [Elements(network_keys) ->
                 {"default", "file"} \X {"default", "file"}]
  /\ sun_path \in [Threads -> Names]
  /\ socketAt \in [Names -> Threads \cup {NoThread}]

Configured(c) == IF Given(c) THEN <<"file", c>> ELSE <<"default", c>>

\* A server that has bound its socket is found under the path the file gives
\* it, or the default one if it gives none, though two threads write all three
\* arrays without a lock while each reads its own: unless the path is cut, or
\* there was no memory to read it.
ServersWhereConfigured ==
  \A t \in Threads :
    tpc[t] = "bound" /\ (Given(t) => t \notin long \cup unread) =>
      socketAt[Configured(t)] = t

\* validate_json() and the getters agree on a file that is accepted: it gives
\* every path, only what it enables is set up, at the device and the channel it
\* names, and no volume is taken from a thing that is not a number.  A default
\* replaces a volume that is out of range, and nothing else.
AcceptedMeansUsed ==
  verdict = "valid" =>
    /\ \A c \in Elements(network_keys) : Given(c)
    /\ \A x \in settings :
         /\ x[1] \in switched
         /\ x[2] \in {"device_id", "channel_id"} => x[3] = "file"
         /\ x[2] = "SetVol" =>
              x[3] = IF x[1] \in loud THEN "default" ELSE "file"
    /\ pc = "run" /\ tpc["input"] # "off" => "AI" \in switched

\* A thread that reads the paths comes to its bind(): the getters give the
\* mutex back, and do not wait for themselves.
GettersReturn ==
  \A t \in Threads :
    (tpc[t] # "off") ~> (tpc[t] \in {"bound", "failed"})

\* validate_json() returns 1 if the configuration is valid (config.c:80).  The
\* code may crash instead, on a file that has everything.
ValidAccepted ==
  (config_root /\ \A k \in Keys : file[k] = "right") =>
    verdict \in {"none", "valid"}
=============================================================================
