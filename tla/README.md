# A TLA+ model of the SigmaStar audio daemon

The repository holds `iad`, an audio daemon for SigmaStar cameras, and its
clients. `iad` owns the audio input (AI, microphone) and the audio output (AO,
speaker) of the SoC and shares them through three Unix-domain sockets: one for
sound to play, one for sound recorded, one for control requests. It is a C
program of one process and up to six threads. `web_client` feeds it from
browsers, and an older single-file daemon lies beside it. This directory holds
TLA+ modules that model these programs, the configurations with which TLC checks
them, and proofs of their main safety properties.

Paths below are relative to the repository's root; `iad/` stands for `src/iad/`.

## 1. Inventory

| Component | Source | State it keeps | Operations |
|---|---|---|---|
| main | `iad/iad.c`, `iad/utils/utils.c` | `disable_ai/ao`, `*_up` flags, `exit_code`, `g_stop_thread` | load configuration, initialize MI_SYS, AO, AI in this order, create threads, abort a start-up, wait, wake, join, tear down |
| AO server thread | `iad/network/output_server.c` | its static `active_client_sock`, `buf` | accept one client at a time, receive, wait for room, deposit, clean up after a disconnect |
| play thread | `iad/audio/output.c` | `local_buffer` | wait for data, copy it out, hand it to the DMA |
| shared by these two | `iad/utils/utils.c` | `audio_buffer`, `audio_buffer_size`, `audio_buffer_lock`, `audio_data_cond`, `audio_free_cond` | |
| AI server thread | `iad/network/input_server.c` | `client_list_head`, `client_list_lock` | create the record thread, select, accept, add to the list, join, close everybody |
| record thread | `iad/audio/input.c` | `current`, the captured frame | get a frame, send it to every client without blocking, kick the ones that fail, release the frame |
| control server thread | `iad/network/control_server.c`, `network.c` | `sampleVariableA/B`, the client being served | select, accept, one request per connection: AUDIO_OUTPUT_REQUEST, GET, SET |
| configuration | `iad/utils/config.c` | `config_root`, `config_mutex` | load, validate, getters with defaults, cleanup |
| socket paths | `network.c` | three 32-byte paths | update from the configuration |
| PID file | `src/web_client/web_client_src/utils.c` | the lock on the file | check, daemonize, remove |
| `web_client` | `src/web_client` | `active_ws_connections`, one `daemon_sockfd` and one growing `audio_buffer` for all sessions | WebSocket: open, receive, close; HTTP: request, body, completion; a stop |
| `iac` | `src/iac` | none beyond its sockets | ask the control server, then play or record |
| `wc-console` | `src/wc-console` | none | copies what a WebSocket brings to its standard output |
| standalone daemon and client | `src/standalone` | `audio_buffer`, `audio_buffer_size`, `active_client_sock`, one lock, one condition | accept, deposit, play, reinitialize |

Interaction: main creates the control, AI server, AO server and play threads;
the AI server creates the record thread. AO server and play thread share the
one-chunk buffer; AI server and record thread share the client list; the
control server reads `active_client_sock` under `audio_buffer_lock`. A signal
handler sets `g_stop_thread`, without a lock, and every thread polls it. Main
joins all the threads it created, the AI server the record thread; then
`perform_cleanup` releases devices, buffer, configuration and locks.
`web_client` is a client of the AO socket like `iac`, but one for many sessions:
libwebsockets calls its callbacks from one thread, and they connect, write and
close the shared descriptor.

What is hard in it: two condition variables under one mutex with a flag that is
set outside it; blocking socket calls against a shutdown; a disconnect while
chunks are under way in three places; a descriptor closed before the node that
names it is unlinked; sends that take a part of a frame; a start-up that fails
half way; resources destroyed while a thread may still run; sessions that open
and close each other's connection, inside an event loop whose calls block.
`PROJECT.json`
lists each of these hazards at its line, with the properties that cover it.

The commit is in the middle of a port, and some of it does not link as it is:
`iad/utils/utils.c` ends inside `daemonize()`, `mute_audio_output_device`,
`get_audio_attributes` and `is_already_running` have no definition in `iad`,
`client_list_head` has two, `output_server.c` does not include `utils.h`. Where a name is missing
it is read as what its uses evidently mean. The one place where this matters is
`active_client_sock`: `output_server.c:17` defines a static variable of that
name, so the file's assignments go there whatever header it includes. The
standalone daemon is built by no target, and `handle_audio_error` is commented
out in it: it is read as the report its name says.

The names at the two ends of the sockets do not meet at this commit: `iac` and
`web_client` connect to abstract names (`iac/client/client_network.c:42`), the AO
server binds a path under `/tmp`, and the AI server the path of the
configuration. A `connect()` of a client therefore may always fail in the
modules, and what follows from one that succeeds is modelled as the code of both
sides shows it.

## 2. Modules

| Module | Models |
|---|---|
| `FrameChannel` | abstract: what the AO path promises. Sessions one at a time; chunks enter a pipe of bounded depth and leave it oldest first; loss only by a refusal of the device or at the end of a session |
| `AudioOutput` | AO server thread, play thread, buffer, mutex, condition variables, clients, and main's part of their life |
| `AudioInput` | AI server thread, record thread, client list, descriptor table, sockets' buffers, main's part |
| `ControlServer` | control server thread, its requests and variables, the lock and the session it reads |
| `Daemon` | main from the configuration to the return; what the threads need, not what they do |
| `WebClient` | `web_client`'s callbacks and event loop, its connection, and the daemon and `iac` as they meet it at the AO socket |
| `LatestFrame` | abstract: what the standalone daemon's buffer promises. A register of the newest frame, which the device gets whole and at most once |
| `StandaloneDaemon` | the standalone daemon's main and both threads, and its clients |
| `Config` | the configuration file, its validation, the settings main takes from it, and the socket paths two threads copy out of it |
| `PidFile` | the PID file of `web_client`, its lock, `daemonize()` and the ends of a process |
| `AudioOutput_proof`, `AudioInput_proof`, `ControlServer_proof`, `Daemon_proof`, `Config_proof`, `PidFile_proof`, `WebClient_proof`, `StandaloneDaemon_proof` | theorems |
| `MC*` | instances for TLC |

`AudioOutput` implements `FrameChannel`: `Channel == INSTANCE FrameChannel WITH
Depth <- 3, session <- active_client_sock, pipe <- InFlight`, where `InFlight`
is the union of the chunks in the server's `buf`, in `audio_buffer` and in
`local_buffer`. `Daemon` composes with the three thread modules by abstraction:
each thread there is only starting, running, blocked or ended, and the modules
of the threads show when they end. `Config` is what `Daemon`'s `LoadConfig`
abstracts; `PidFile` is about processes, and shares no state with the others.
`WebClient` composes `web_client` with the daemon's AO server reduced to what a
client sees of it (accept the oldest connection, read it, go on at its end);
that this server always gets on is what `AudioOutput` checks. `StandaloneDaemon`
implements `LatestFrame` with `offered <- audio_buffer`.

### AudioOutput

One action per step that another thread can see. A wait
`while (P) pthread_cond_wait` is five places: `lock` (or `wake`, after a signal
or spuriously), `check` (one evaluation of P, which reads the flag that no lock
protects), `presleep` (P was true), `sleep` (lock released and waiting, in one
step as POSIX says) and `go`. `ServerDeposit`, `PlayTake`, `ServerCleanup` are
the critical sections between two of those. The server's `accept` and `recv`
places have no exit but a client, or a signal delivered to this thread
(`HandleSigintInServer`; the handler is installed without SA_RESTART); a signal
to any other thread is `HandleSigint`.

A chunk is what one `recv()` returns; chunks are numbered as they are received.
The history variables `played` and `lost` say what became of them.

### AudioInput

`fdtab` is the process's descriptor table restricted to the descriptors left
for clients; `ServerAccept` takes the lowest free one, which is what lets a
descriptor just closed be reused at once. Kicking a client is two steps, as in
the code: `Kick` closes the descriptor, `RecordUnlink` removes the node. Both are
under `client_list_lock`, but `accept()` is not. `send(MSG_DONTWAIT)` has its
five outcomes: whole, partial, full, peer gone, other error.

### ControlServer

A request is a record naming the branch of `handle_control_client` it takes;
its operands may be missing, and then `NameIn` and `ValueIn` range over all
that the uninitialized buffer may hold. `Atoi` and `Shown` are the two
conversions: text that is no number becomes 0, and a number of more than nine
characters is cut by `snprintf(value, 10, ...)`. `active_client_sock` is
`utils.c`'s variable, which nobody assigns (the AO server has a static one of
its own), so a client that asks is never told `queued`. A connection that is over may be made again, so the clients
never run out.

### Daemon

`mpc` walks through `main`; `up` is the set of resources initialized;
`exit(EXIT_FAILURE)` from a failed initialization is the state `exited`, a
return from main is `done`. The four creations and the four joins are
`CreateThread(t)` and `Join(t)` over the sequence `Order`. A function of the
teardown is one step, in which any of its SDK calls may fail: `Releases` says
what each call disables, `failed` which have returned an error. The code logs
it and goes on ("Track errors but do not abort"), so what the call should have
disabled stays in `up`, and everything after it is done all the same. A thread is
`blocked` while the AO server is in `accept()` or `recv()`, and `serving` while
the control server has a connection to accept or to answer: it looks at the stop
flag only after a second without one.

### Config

A file says of each key that it is missing, of a wrong type, or right. `Item`
is what cJSON finds (nothing in a missing parent, nothing in one that is not an
object), and both the validator and the getters are written with it. `settings`
says where each number that main gives to the SDK comes from: the file, a default
in its place (an identifier that is no number, a volume that is missing or, in
`loud`, out of -60..30), an item of another type read as a number, or a constant
of the code (the format: `sample_rate`, `bitwidth`, `soundmode`, `frmNum` and
`chnCnt` of the file are fetched and not used). The
validator is the predicate `ValidJson`, since nothing else runs at that time;
the read past the end of `ao_attributes` (`ReadsPastTheEnd`) adds the outcome
`crashed`. `update_socket_paths_from_config` is a step per lock, unlock and half
of a `strncpy`, in the control and the AI server thread: the two write all three
arrays outside the mutex. Each `strdup` may fail; a server whose own path was not
copied (`unread`) takes whatever its array holds. The AO server has a fixed path
and no part in it.

### PidFile

A launch is one process, or two after a fork. A file is named after the process
that created it and lives on when its name is removed: `path` is the file
PID_FILE names now, `fd` the one each process has opened. `lock` follows
`lockf()`: it belongs to a process, is not inherited, and ends with it.
`registered` counts the `atexit(remove_pid_file)` calls, which a child does
inherit, `signals` what the handler can still catch. `Kill` is a crash at any
place, or a signal before the handlers are set up.

### WebClient

A callback is one step as far as its first blocking call; then `pc` says which
call it is in (`connect`, `write`, `sleep`), and no other callback runs until it
returns, as in libwebsockets' single thread. A connection is named after the
session that opened it; `daemon_sockfd` is the connection all sessions write to,
`end` the client's end of each, `dead` those a restart of the daemon has dropped.
Chunks are numbered as the sessions bring them, so that order over several
connections can be told; what `iac` writes is not followed. `realloc()` may fail
(`HttpBodyNoMemory`), and a later `memcpy` then ends the process
(`HttpBodyCrash`). A browser that leaves in the middle of an upload is
`HttpGone`, which changes nothing in the program: `http_callback` has no case
for it.

### StandaloneDaemon

All shared state is read and written under `audio_buffer_lock`, so a critical
section is one step, except the one that blocks in `IMP_AO_SendFrame` with the
lock held (`PlaySend`, then `PlaySent` or `PlaySendFails`). The loop that waits
for `active_client_sock` to be -1 is the guard of `ServerActivate`. Nothing
clears the buffer when a client leaves, and nothing keeps the server from
overwriting it: a frame may be lost, which is what distinguishes `LatestFrame`
from `FrameChannel`.

## 3. Runs

| Run | Asks | Result |
|---|---|---|
| `AudioOutput` | `ChunksConserved`, `SessionStartsEmpty`, `NoLostWakeup`, `NoStandstill`, refinement `ImplementsChannel`, `OnlySocketCallsDelayExit`, `ChunksDrain`, `QueuedClientsServed` | hold |
| `AudioInput` | `SocketOwnership`, `EveryClientTried`, `NoDuplicateFrame`, `StreamAligned`, `DeviceDisabledLast`, `FramesReturned`, `ShutdownCompletes` | hold |
| `ControlServer` | `NoDescriptorLeak`, `EveryRequestAnswered`, `StopSeenWhenQuiet` | hold |
| `ControlServer_stop` | `StopSeen` | violated: the flag is read only when `select()` times out |
| `Daemon` | `ResourcesOutliveThreads`, `EchoNeedsOutput`, `CleanReturn`, `StopEnds` | hold |
| `Config` | `ServersWhereConfigured`, `AcceptedMeansUsed`, `GettersReturn` | hold |
| `Config_valid` | `ValidAccepted` | violated: a complete configuration may crash the validation |
| `PidFile` | `RunningOwnsItsFile`, `RefusedByTheLiving`, `NoFileLeft` | hold |
| `PidFile_one` | `OneInstance` | violated: the file is removed by name while others have it open |
| `WebClient` | `NoConnectionLeaks`, `ChunksInOrder`, `StreamsKeepConnection`, `CallbacksReturn`, `LocalsServed` | hold |
| `WebClient_abort` | `QueuedPlayback` | violated: an aborted upload keeps the daemon's session |
| `StandaloneDaemon` | `FrameHeldStill`, `NoVainWait`, refinement `ImplementsLatest`, `FramesLeave`, `ClientsServed` | hold |

The type invariants of `AudioInput` and `WebClient` are checked in their runs
and proved as well; those of the other modules are proved, as are `AudioOutput`'s
`InOrderPlayback` and `NoUseAfterFree`, `ControlServer`'s `LockHeldToAnswer`,
`RepliesSuit` and `OneReply`, and `Config`'s `NothingTorn`, and no run repeats
them.

The four violations state a sentence of the repository, quoted at the property
and under "findings". Each has a positive companion that says exactly how far
the sentence is true: `StopSeenWhenQuiet` (the flag is seen once clients stop
coming), `RunningOwnsItsFile` (no two instances run on the same file),
`AcceptedMeansUsed` (what an accepted file says of paths, enabled sections,
device and channel numbers and volumes in range is what is used) and
`LocalsServed` (clients are served if no upload is aborted).

A stop of `iad` does not always end it at once: the AO server's `accept()` and
`recv()` have no timeout, and a signal delivered to another thread does not
interrupt them. `OnlySocketCallsDelayExit` says that nothing else can hold the
two audio output threads up: otherwise they end, or the play thread has ended and
the server stays in one of these calls for ever. `StopEnds` is about the whole
program: every stop, failed start-ups included, ends it if the AO server does not
stay in these calls (`OutputGetsOn`) and the control server's clients leave it a
second without a connection in the end (`ControlIsLeft`). Neither premise can go:
without the first, a start-up that fails at the play thread waits in the join of
an AO server that is already in `accept()` (`iad.c:106`); without the second, main
waits for the control thread as in `ControlServer_stop`.

`EchoNeedsOutput` and `CleanReturn` say how far a teardown is one: an SDK call
that fails leaves what it should have disabled, and nothing else is left. With
`MI_AI_DisableVqe` failed the echo canceller does outlive the output, and the exit
code is 0 whatever failed in the teardown; no document promises otherwise.

The run of `PidFile_one` needs one launch in the background: its child opens
the parent's file, the parent removes it and dies, the child locks what nobody
can find any more, and a second launch makes a new file. In the foreground it
takes three launches: one that ends removes the file its successor has just made
(`handle_sigint` removes once, `exit()` again).

### Bounds, and why they are enough

- `AudioOutput`: two connections of two chunks. Three chunks can be under way at
  once (`buf`, `audio_buffer`, `local_buffer`), and a chunk of one session can be
  at the device while two of the next follow; one client is served while the
  other waits. A session of two chunks makes the server wait for room. What
  needs no fairness is proved for any number of both.
- `AudioInput`: two connections, two descriptors, one frame of room per socket,
  two frames. The two nodes give each way of unlinking: the only node, the head
  with a successor, the last with a predecessor; two connections suffice for a
  descriptor that is closed, handed out again and still named by the old node;
  with one frame of room the second finds the socket full unless the client
  reads, or continues a torn stream if nothing prevents it.
- `WebClient`: three sessions of two streams and two uploads (a stream can leave
  while the other stays, an upload can complete or fail beside them, and another
  one follow), one `iac`, two chunks, bodies of up to twice the first buffer,
  sockets that hold one chunk (so `write()` blocks), one restart of the daemon.
  The backlog is never full.
  `WebClient_abort` needs one upload and one local client. What needs no fairness
  is proved for any number of all of these, a full backlog included.
- `StandaloneDaemon`: two clients of three frames: one being played, one in the
  buffer, one that overwrites it.
- `ControlServer`: two connections used without end: one being served, one
  waiting. Five requests, one for each branch and outcome of the handler
  (`MCControlServer`).
- `Daemon` has no parameter and is finite.
- `Config`: the module is about any set of `Files`, of sections they switch on
  (`Switches`), of volumes out of range (`Louds`) and of paths that are too long
  (`Longs`). `MCConfig` gives it a complete file, the shipped one, which has only
  some keys, and complete ones in which one key is not right: each key that is
  shipped, missing or of a wrong type, and of the others, which only the
  validation looks at, one attribute and each nested key, missing. Validation
  stops at the first key that is not right and the getters read each key apart,
  so a second damaged key adds no new behaviour. Both sections are on or off (the
  command line switches them one by one), the volume of AO is out of range and
  that of AI is not, and the paths are all short or all too long. The proofs are
  for every choice.
- `PidFile`: three launches, one of them in the background: its two processes
  and both others race for one name. `PidFile_one` needs two.

`StreamLen`, `SockCap`, `MaxFds`, `MaxFrames`, `MaxSessions`, `Chunks`, `MaxLen`
and `MaxRestarts` are the only bounds; each is a guard of the action it bounds
and a CONSTANT of its module. A run says
`CHECK_DEADLOCK FALSE` where the program may end, return from main, or wait for
clients that never act; the control server's runs check deadlock.

### Fairness, and why the code justifies it

- Weak fairness of each thread's steps: the scheduler runs a thread that can run.
  The outcomes that may never come, errors of `accept()`, `select()` and
  `send()`, spurious wake-ups and signals, are left out of the fair steps.
- Strong fairness of taking a mutex (`ServerLock`, `ServerCleanup`, `PlayLock`,
  `MainAbort`, `MainWake`, `RecordLock`, `AddClient`, `HandleOutputRequest`): no
  thread holds a mutex while it blocks, and between two acquisitions each one
  blocks elsewhere (`MI_AO_SendFrame`, `recv`, `MI_AI_GetFrame`, a condition).
- Strong fairness of `ServerAccept` and the control server's `Accept`:
  `accept()` does not fail for ever.
- Nothing is assumed of clients in `FairSpec`; `QueuedClientsServed` has it as
  its premise that they leave in the end. `PoliteSpec` says of
  `ControlServer`'s clients that they ask something or leave, and that signals
  stop interrupting the thread. The properties checked under it say so.
- `Daemon`: weak fairness of main and of each thread's steps, of clients nothing:
  `StopEnds` names what it needs of them as its premises.
- `WebClient`: weak fairness of a blocked call that can return, and of the
  daemon's server thread. Nothing is assumed of browsers, of `iac` or of failing
  calls; `CallbacksReturn` and `LocalsServed` name what they need of them
  (`LocalsLeave`, `SessionsEnd`, `NoneAborted`) as premises.
- `StandaloneDaemon`: as for `iad`'s threads, and strong fairness of `PlaySent`:
  the device does not refuse for ever. The play thread sleeps or reinitializes the
  device between two acquisitions of the lock, unless it has just played a frame,
  and then it finds the buffer empty.
- `Config`: weak fairness of each server thread. `config_mutex` is taken for a
  few steps a bounded number of times, so weak fairness suffices.

## 4. Proofs

TLAPS proves for every value of the constants what the runs check for small
ones, and the type invariants.

`AudioOutput_proof`, for any finite set of clients and any `StreamLen`, from
`OutputAssumption` alone: `TypeCorrect`, `Conservation`, `FreshSessions`,
`Wakeups`, `NoDeadlock`, `FreedLast`, `PlaybackOrder` and `Refinement`. The
invariants are not inductive by themselves. The strengthening `IInv` adds:

- who holds `audio_buffer_lock` is who stands between taking and releasing it;
- which threads exist at each place of main, and that both have ended when main
  cleans up;
- `buf` holds a chunk from `recv()` to the deposit (or to the cleanup, if a stop
  or a disconnect comes between), `local_buffer` exactly while
  `MI_AO_SendFrame` has it, and the buffer is empty whenever no session is open;
- the chunks stand in order: every chunk played is older than all those in
  flight, and of these `local_buffer` is the oldest and `buf` the newest, the
  last one received;
- a thread about to sleep has seen its predicate under the lock, and once main
  has broadcast, the flag is set, so that no evaluation sends a thread to sleep
  again.

`NoDeadlock` is the safety half of `ChunksDrain`: if both threads waited with a
chunk under way, the lock would be free (its holder does not wait), so the play
thread would sleep on an empty buffer, the chunk would be in the server's `buf`,
and the server would sleep on a full one.

`ImplementsChannel` follows from the same invariant: deposit and copy are
stutters (a chunk only moves within the pipe), `recv` is `Receive`, the DMA's
two answers are `Play` and `Refuse` of the oldest chunk, because the order above
makes `local_buffer` the oldest, and `ServerCleanup` is `Close` keeping
`local_buffer` only.

`AudioInput_proof`, for any clients, descriptors, frames and room in the
sockets, from `InputAssumption`: `TypeCorrect`, `Ownership`, `Tried`,
`NoDuplicate`, `Aligned` and `DisabledLast`. The strengthening has four parts:

- `ControlInv`: the lock is held exactly during the walk, a frame exactly from
  `MI_AI_GetFrame` to its release, `client_sock` exactly between `accept()` and
  the list; `current` is a node of the list or just past it; the record thread
  is over when the server closes the list;
- `OwnInv`: `SocketOwnership`, descriptor by descriptor;
- `ConnInv`: a connection has at most one descriptor and is not in the backlog
  once it has one; one that is not in the list yet has been tried with nothing,
  which is why a client that joins between two frames does not break the order;
- `FrameInv`: nodes before `current` have been tried with this frame, the others
  have not. `Tried` and `NoDuplicate` are its two halves.

The step that needs all of it is the unlinking: `UnlinkStep` says that the nodes
behind the one removed move up by one, so `current` is then the next node and
the two halves stay what they are.

`Daemon_proof`: `TypeCorrect`, `OutlivesThreads`, `EchoBinding`,
`ReturnsClean`. The strengthening says what is initialized at each place of the
boot, that only wanted threads exist and every thread joined has ended, that past
the joins none runs, and at each place of the teardown which calls have been
`Made`: what they disable is gone, or they have failed. Nothing is set up again
after the boot, so calls once made stay made (`MadeStays`); `DisableEffect` says
what a function of the teardown does whichever of its calls fail. The order
of the joins is not needed for it; that they cover all created threads is.

`PidFile_proof`, for any number of launches, any of them in the background, from
`BackgroundAssumption` and `NoneAssumption`: `TypeCorrect`, `RunningOwns`,
`RefusalJustified`. That a running process holds its lock is not inductive: the
strengthening says that a lock is free or held by a process that took it and
has not ended, that a process past `lockf()` holds the lock of the file it
opened and past `write()` its number is in it, and that a child has done nothing
before its fork. The bound of `registered` in `TypeOK` needs that each check
adds one registration and a child has at most one more than its own.

`StandaloneDaemon_proof`, for any finite set of clients and any number of
frames, from `StandaloneAssumption`: `TypeCorrect`, `HeldStill`, `NoWaitInVain`, `Refinement`. The
strengthening says that the lock is held exactly while the device is being fed,
that `audio_buffer_size` tells a frame to be played from the one played last,
that the server has read one frame more than it has deposited, or none, and that
a client is active only from its turn to its release. A
deposit is then `Offer`, a frame taken is `Play`, and every other step a stutter.

`NothingLeft`, in the same module, is about the end of all launches and needs an
invariant of its own about the way there: as long as there was no fault, the file
PID_FILE names is locked or about to be (`Kept`), who has a file locked has it
open (`OwnLock`), and who has the named file locked will still register a removal
or has one registered (`WillRemove`). An ended process has neither, so no file has
the name.

`ControlServer_proof`, for any connections and any requests of the protocol, from
`ControlAssumption`: `TypeCorrect`, `DescriptorsClosed`, `LockGivenBack`,
`RepliesSuitRequests`, `RepliesStand`. The strengthening says what the thread
holds at each place (a connection from `accept()` to `close()`, the lock only
while it answers AUDIO_OUTPUT_REQUEST), that a connection waits once, or is
served, or neither, and that a reply is the last thing that happens to a
connection before it is closed. The second part is what keeps the answer to one
client from another that reuses its place. `RepliesSuitRequests` also states the
consequence of the two variables named `active_client_sock`: no client is ever
told that it is queued.

`Config_proof`, for any files, switches and path lengths, from
`ConfigAssumption`: `TypeCorrect`, `BoundWhereConfigured`, `AcceptedIsUsed`,
`NamesWhole`, `MutexBalanced`. Two threads write the same three arrays, half a
string at a time, outside the mutex; nothing excludes them. Why no name is torn:
both write the same text, so that a path once whole stays whole while it is
written again, and a thread reads its own path only after it has copied it,
unless `strdup` failed. `PathInv` says this: the own path of a thread that is past
it is whole, and no thread touches a path the file lacks; `NameInv`, that the name
a thread takes then is the one the file gives, and that no thread, whatever it
finds, takes a name of the other's. `AcceptedIsUsed` rests on `VerdictInv`: a
valid verdict comes only from `ValidJson`, key by key.

`WebClient_proof`, for any sessions, local clients, body lengths, room in the
sockets and restarts, from `WebAssumption`: `TypeCorrect`, `NoneLeaked`,
`InOrder`, `NoCircularWait`, `StreamsKept`. The strengthening has six parts:

- `SessionInv`: a session connects once, while it is new;
- `LoopInv`, `BufferInv`: what the callback in progress is for; between
  callbacks nothing is left to write and the shared buffer is empty;
- `CountInv`: `active_ws_connections` is the number of open streams, so it
  becomes 0 exactly when the last of them ends (`LastStream`);
- `PlaceInv`: every connection stands in the daemon's line once, and the one in
  use stands there unless the daemon was restarted since;
- `SockInv`: audio is only in the line, none of it behind the connection in use,
  and none newer than the last chunk brought.

`InOrder` is a matter of the last two: a chunk that is written goes behind all
the audio there is, although a new connection is behind others that may still
hold audio of the same session, and `iac`'s may stand between them. `LineMoves`
reduces the 23 actions to the nine ways in which a step can change the line;
`StepPlace`, `StepSock` and `StepOrder` go through these.

Only model-checked: the liveness properties (`OnlySocketCallsDelayExit`,
`ChunksDrain`, `QueuedClientsServed`, `FramesReturned`, `ShutdownCompletes`,
`EveryRequestAnswered`, `StopSeenWhenQuiet`, `GettersReturn`, `StopEnds`,
`CallbacksReturn`, `LocalsServed`, `FramesLeave`, `ClientsServed`), because
fairness is beyond the prover, and the four violations. Every other property of
a run is a theorem.

## 5. Plan

Done, in this order: `FrameChannel` and `AudioOutput` with proofs, `AudioInput`,
`ControlServer`, `Daemon` with proofs, `PidFile` with proofs, `Config`,
`WebClient`, `LatestFrame` and `StandaloneDaemon` with proofs, and the proofs of
`AudioInput`, `ControlServer`, `Config` and `WebClient`. Next:

1. An abstract specification of the control server as a client sees it (one
   reply, or none, per connection), and the refinement; the same for `AudioInput`
   (every listening client gets a gap-free stream until it is dropped).
2. The safety half of `OnlySocketCallsDelayExit`: after a stop, a thread that is
   not in a socket call can go on.

## 6. Not modelled

Sample formats, DSP settings and frame sizes; log messages; parsing of
command lines and JSON; byte counts within a chunk; the SDK and libwebsockets
themselves (their calls return success or an error at any time, in the boot and in
the teardown, and callbacks come in any order a session allows; the hardware is
taken to be off when `iad` starts). Operands of control requests longer than the
100 bytes that `control_server.c:54` keeps for them: `sscanf` writes on, and what
that does is undefined. Two socket paths of a configuration that are the same
text. The fixed names of the client's sockets (see
the inventory). `iac` appears as the client actions of the modules, which may do
all that it does on a socket, in any order; its control request before the audio
connection is not a module. `audioplay` is a sequential loop from a file to the
device. `wc-console` keeps no state. `playback.c` of `web_client`,
`config_get_ao_frame_size`, `get_network_config` and
`handle_and_reinitialize_output` have no caller. The browser examples, scripts
and the SDK headers are no part of the running system.

Of the repository's C code, about 13200 of 16300 lines are the SDK's headers,
declarations without behaviour; the programs themselves are about 3150 lines, and
what is left of those outside the modules is the above.
