------------------------------ MODULE PidFile ------------------------------
(***************************************************************************)
(* The PID file of web_client, by which a launch finds out that another     *)
(* one is running, and daemonize(), which forks between two such checks     *)
(* (web_client/web_client_src/utils.c, called from web_client.c).           *)
(*                                                                         *)
(* A launch is one process, or two when it goes to the background.  What    *)
(* the program gets from the kernel is modelled from how it is used here:   *)
(* a file that is unlinked lives on for whoever has it open, a lockf() lock *)
(* belongs to a process and to a file, is not inherited by fork() and ends  *)
(* with the process, and atexit() registrations are inherited.              *)
(***************************************************************************)
EXTENDS Naturals

CONSTANTS Launches,    \* the times somebody starts web_client
          Background,  \* those of them that are given -d
          None

ASSUME BackgroundAssumption == Background \subseteq Launches

Procs == Launches \X {"first", "child"}
First(l) == <<l, "first">>
Child(l) == <<l, "child">>

ASSUME NoneAssumption == None \notin Procs

VARIABLES
  pc,        \* where each process is
  path,      \* the file PID_FILE names; a file is called after the process
             \* that created it, since a process opens PID_FILE once
  fd,        \* the file each process has open
  lock,      \* the process that holds the lock of each file
  content,   \* the process whose number is written in each file
  registered,\* how often remove_pid_file will run when the process exits
  signals,   \* how many signals the process can still catch
  faulted    \* a process was killed outright, or lockf() failed: history

vars == <<pc, path, fd, lock, content, registered, signals, faulted>>

Init ==
  /\ pc = [p \in Procs |-> "off"]
  /\ path = None
  /\ fd = [p \in Procs |-> None]
  /\ lock = [f \in Procs |-> None]
  /\ content = [f \in Procs |-> None]
  /\ registered = [p \in Procs |-> 0]
  /\ signals = [p \in Procs |-> 0]
  /\ faulted = FALSE

Alive(p) == pc[p] \notin {"off", "gone"}
Go(p, here, there) == pc[p] = here /\ pc' = [pc EXCEPT ![p] = there]

-----------------------------------------------------------------------------
\* main() is entered.
Launch(l) ==
  /\ Go(First(l), "off", "open")
  /\ UNCHANGED <<path, fd, lock, content, registered, signals, faulted>>

(***************************************************************************)
(* is_already_running().                                                   *)
(***************************************************************************)

Open(p) ==
  /\ Go(p, "open", "lock")
  /\ path' = IF path = None THEN p ELSE path
  /\ fd' = [fd EXCEPT ![p] = path']
  /\ UNCHANGED <<lock, content, registered, signals, faulted>>

OpenFails(p) ==
  /\ Go(p, "open", "exit")
  /\ UNCHANGED <<path, fd, lock, content, registered, signals, faulted>>

\* lockf(fd, F_TLOCK, 0) gets the lock.  The bugs: its result is not looked
\* at, or the PID read from the file is taken for a lock.
LockIgnored(f) == TRUE
FileIsEmpty(f) == content[f] = None
LockIsFree(f) == lock[f] = None

Lock(p) ==
  /\ Go(p, "lock", "truncate")
  /\ LockIsFree(fd[p])
  /\ lock' = [lock EXCEPT ![fd[p]] = p]
  /\ UNCHANGED <<path, fd, content, registered, signals, faulted>>

\* EACCES or EAGAIN: the PID is read for the message, and the caller exits.
Refused(p) ==
  /\ Go(p, "lock", "exit")
  /\ ~ LockIsFree(fd[p])
  /\ UNCHANGED <<path, fd, lock, content, registered, signals, faulted>>

LockError(p) ==
  /\ Go(p, "lock", "exit")
  /\ faulted' = TRUE
  /\ UNCHANGED <<path, fd, lock, content, registered, signals>>

Truncate(p) ==
  /\ Go(p, "truncate", "write")
  /\ content' = [content EXCEPT ![fd[p]] = None]
  /\ UNCHANGED <<path, fd, lock, registered, signals, faulted>>

\* The first process of a background launch is still in daemonize().
AfterCheck(p) == IF \E l \in Background : p = First(l) THEN "fork" ELSE "start"

Write(p) ==
  /\ Go(p, "write", AfterCheck(p))
  /\ content' = [content EXCEPT ![fd[p]] = p]
  /\ registered' = [registered EXCEPT ![p] = @ + 1]
  /\ UNCHANGED <<path, fd, lock, signals, faulted>>

(***************************************************************************)
(* daemonize().  setsid() cannot fail in a child just forked.               *)
(***************************************************************************)

\* The registrations a child starts with
Inherited(l) == registered[First(l)]

Fork(l) ==
  /\ pc[First(l)] = "fork"
  /\ pc' = [pc EXCEPT ![First(l)] = "exit", ![Child(l)] = "open"]
  /\ registered' = [registered EXCEPT ![Child(l)] = Inherited(l)]
  /\ UNCHANGED <<path, fd, lock, content, signals, faulted>>

ForkFails(l) ==
  /\ Go(First(l), "fork", "exit")
  /\ UNCHANGED <<path, fd, lock, content, registered, signals, faulted>>

(***************************************************************************)
(* The rest of main(): signals are caught from setup_signal_handling() on.  *)
(* SIGINT and SIGTERM share a handler, and each is blocked while it is      *)
(* handled, so a process catches at most two.                               *)
(***************************************************************************)

Catchable == 2

Setup(p) ==
  /\ Go(p, "start", "serve")
  /\ signals' = [signals EXCEPT ![p] = Catchable]
  /\ UNCHANGED <<path, fd, lock, content, registered, faulted>>

\* No memory, or no WebSocket context: main returns.
StartFails(p) ==
  /\ Go(p, "start", "exit")
  /\ signals' = [signals EXCEPT ![p] = Catchable]
  /\ UNCHANGED <<path, fd, lock, content, registered, faulted>>

\* handle_sigint(): the signal it raises stays blocked, so it goes on to
\* exit(0), or goes on with the exit it interrupted.
HandleSignal(p) ==
  /\ pc[p] \in {"serve", "exit"}
  /\ signals[p] > 0
  /\ signals' = [signals EXCEPT ![p] = @ - 1]
  /\ pc' = [pc EXCEPT ![p] = "exit"]
  /\ path' = None
  /\ UNCHANGED <<fd, lock, content, registered, faulted>>

(***************************************************************************)
(* The end of a process.                                                   *)
(***************************************************************************)

Released(p) == [f \in Procs |-> IF lock[f] = p THEN None ELSE lock[f]]

\* exit() calls remove_pid_file() once for each time it was registered.  The
\* bug: the handler leaves the file.
LeavesPidFile(p) ==
  /\ pc[p] = "exit"
  /\ registered[p] > 0
  /\ registered' = [registered EXCEPT ![p] = @ - 1]
  /\ UNCHANGED <<pc, path, fd, lock, content, signals, faulted>>

RemovePidFile(p) ==
  /\ pc[p] = "exit"
  /\ registered[p] > 0
  /\ registered' = [registered EXCEPT ![p] = @ - 1]
  /\ path' = None
  /\ UNCHANGED <<pc, fd, lock, content, signals, faulted>>

Die(p) ==
  /\ Go(p, "exit", "gone")
  /\ registered[p] = 0
  /\ lock' = Released(p)
  /\ UNCHANGED <<path, fd, content, registered, signals, faulted>>

\* A crash, SIGKILL, or SIGINT and SIGTERM before they are caught.
Kill(p) ==
  /\ Alive(p)
  /\ pc' = [pc EXCEPT ![p] = "gone"]
  /\ lock' = Released(p)
  /\ faulted' = TRUE
  /\ UNCHANGED <<path, fd, content, registered, signals>>

Check(p) == Open(p) \/ OpenFails(p) \/ Lock(p) \/ Refused(p) \/ LockError(p)
              \/ Truncate(p) \/ Write(p)
Daemonize(l) == Fork(l) \/ ForkFails(l)
Serve(p) == Setup(p) \/ StartFails(p) \/ HandleSignal(p)
End(p) == RemovePidFile(p) \/ Die(p) \/ Kill(p)

Next ==
  \/ \E l \in Launches : Launch(l) \/ Daemonize(l)
  \/ \E p \in Procs : Check(p) \/ Serve(p) \/ End(p)

Spec == Init /\ [][Next]_vars
-----------------------------------------------------------------------------
\* The values of the state.
TypeOK ==
  /\ pc \in [Procs -> {"off", "open", "lock", "truncate", "write", "fork",
                       "start", "serve", "exit", "gone"}]
  /\ path \in Procs \cup {None}
  /\ {fd, lock, content} \subseteq [Procs -> Procs \cup {None}]
  /\ registered \in [Procs -> 0..2]
  /\ signals \in [Procs -> 0..Catchable]
  /\ faulted \in BOOLEAN

\* Past the check, on the way to the event loop or in it.
Running(p) == pc[p] \in {"start", "serve"}

\* A running instance holds the lock of its own file, and its number is what
\* a launch that is refused there reads: nobody truncates or writes the file
\* between, whatever crashed with it before and however many launches raced.
RunningOwnsItsFile ==
  \A p \in Procs : Running(p) => lock[fd[p]] = p /\ content[fd[p]] = p

\* A launch is turned away only by a live process that holds the lock: the
\* file that a crashed instance leaves behind keeps nobody from starting.
RefusedByTheLiving ==
  [][\A p \in Procs : Refused(p) =>
       \E q \in Procs \ {p} : Alive(q) /\ lock[fd[p]] = q]_vars

\* Once every process has ended on its own, refused and failed ones among
\* them, no PID file is left, in whatever order they opened and removed it.
NoFileLeft ==
  (~ faulted /\ \A p \in Procs : ~ Alive(p)) => path = None

\* At most one instance runs (web_client.c:159).  The code does not keep it:
\* an instance that ends removes PID_FILE by name, whichever file that now is, and
\* a child that opened the file of its parent locks it after its removal.
OneInstance == \A p, q \in Procs : Running(p) /\ Running(q) => p = q
=============================================================================
