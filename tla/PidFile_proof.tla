---------------------------- MODULE PidFile_proof ----------------------------
(***************************************************************************)
(* PidFile proved for any number of launches, in the foreground or not.     *)
(* RunningOwnsItsFile is not inductive: that a process keeps the lock it    *)
(* took rests on the lock being free or held by a process that took it      *)
(* itself (Holder), and on a child not being alive before its fork.         *)
(***************************************************************************)
EXTENDS PidFile, TLAPS

PCs == {"off", "open", "lock", "truncate", "write", "fork", "start", "serve",
        "exit", "gone"}

Files == Procs \cup {None}

Types == /\ pc \in [Procs -> PCs]
         /\ path \in Files
         /\ fd \in [Procs -> Files]
         /\ lock \in [Procs -> Files]
         /\ content \in [Procs -> Files]
         /\ registered \in [Procs -> Nat]
         /\ signals \in [Procs -> 0..Catchable]
         /\ faulted \in BOOLEAN

BeforeWrite == {"off", "open", "lock", "truncate", "write"}
Locked == {"truncate", "write", "fork", "start", "serve"}
Written == {"fork", "start", "serve"}

\* Past open(), a process has a file; past lockf(), that file's lock; past
\* write(), its number in it.
Owner == \A p \in Procs :
           /\ pc[p] = "lock" => fd[p] \in Procs
           /\ pc[p] \in Locked => fd[p] \in Procs /\ lock[fd[p]] = p
           /\ pc[p] \in Written => content[fd[p]] = p

\* A lock is held by a process that took it and has not ended.
Holder == \A f \in Procs :
            lock[f] # None => pc[lock[f]] \in Locked \cup {"exit"}

\* Only a first process forks, and its child does not exist before.
ForkFirst == \A l \in Launches :
               /\ pc[Child(l)] # "fork"
               /\ pc[First(l)] \in BeforeWrite \cup {"fork"}
                    => pc[Child(l)] = "off"

\* How often remove_pid_file has been registered: once by each check passed,
\* and a child has the registration of its parent as well.
Counted == \A l \in Launches :
             /\ registered[First(l)] <= 1
             /\ pc[First(l)] \in BeforeWrite => registered[First(l)] = 0
             /\ registered[Child(l)] <= 2
             /\ pc[Child(l)] \in BeforeWrite => registered[Child(l)] <= 1

IInv == Types /\ Owner /\ Holder /\ ForkFirst /\ Counted

USE NoneAssumption, BackgroundAssumption

\* The two processes of a launch are processes, and are not the same one.
LEMMA ProcFacts ==
  /\ \A l \in Launches : First(l) \in Procs /\ Child(l) \in Procs
  /\ \A l, k \in Launches : First(l) # Child(k)
  /\ \A l, k \in Launches : First(l) = First(k) => l = k
  /\ \A l, k \in Launches : Child(l) = Child(k) => l = k
  /\ \A p \in Procs : \E l \in Launches : p = First(l) \/ p = Child(l)
BY DEF Procs, First, Child

LEMMA InitIInv == Init => IInv
<1> SUFFICES ASSUME Init PROVE IInv
  OBVIOUS
<1> USE DEF Init
<1>1. Types
  <2>1. registered \in [Procs -> Nat] /\ signals \in [Procs -> 0..Catchable]
    BY DEF Catchable
  <2>2. fd \in [Procs -> Files] /\ lock \in [Procs -> Files]
    BY DEF Files
  <2>3. content \in [Procs -> Files] /\ path \in Files
    BY DEF Files
  <2>4. pc \in [Procs -> PCs] /\ faulted \in BOOLEAN
    BY DEF PCs
  <2> QED
    BY ONLY <2>1, <2>2, <2>3, <2>4 DEF Types
<1>2. Owner
  BY DEF Owner, Locked, Written
<1>3. Holder
  BY DEF Holder
<1>4. ForkFirst
  BY ProcFacts DEF ForkFirst
<1>5. Counted
  <2> SUFFICES ASSUME NEW l \in Launches
               PROVE /\ registered[First(l)] <= 1 /\ registered[First(l)] = 0
                     /\ registered[Child(l)] <= 2 /\ registered[Child(l)] <= 1
    BY Zenon DEF Counted
  <2>1. registered[First(l)] = 0 /\ registered[Child(l)] = 0
    BY ProcFacts
  <2> QED
    BY ONLY <2>1
<1> QED
  BY <1>1, <1>2, <1>3, <1>4, <1>5 DEF IInv
-----------------------------------------------------------------------------
(***************************************************************************)
(* Each action preserves the invariant.                                    *)
(***************************************************************************)

LEMMA LaunchStep ==
  ASSUME NEW l \in Launches, IInv, Launch(l) PROVE IInv'
<1> USE ProcFacts DEF IInv, Types, Launch, Go
<1>1. Types'
  BY DEF PCs, Files, Catchable
<1>2. Owner'
  BY DEF Owner, Locked, Written
<1>3. Holder'
  BY DEF Holder, Owner, Locked, Written
<1>4. ForkFirst'
  BY DEF ForkFirst, BeforeWrite
<1>5. Counted'
  BY DEF Counted, BeforeWrite
<1> QED
  BY <1>1, <1>2, <1>3, <1>4, <1>5

LEMMA OpenStep ==
  ASSUME NEW p \in Procs, IInv, Open(p) PROVE IInv'
<1> USE ProcFacts DEF IInv, Types, Open, Go
<1>1. Types'
  BY DEF PCs, Files, Catchable
<1>2. Owner'
  BY DEF Owner, Files, Locked, Written
<1>3. Holder'
  BY DEF Holder, Owner, Locked, Written
<1>4. ForkFirst'
  BY DEF ForkFirst, BeforeWrite
<1>5. Counted'
  BY DEF Counted, BeforeWrite
<1> QED
  BY <1>1, <1>2, <1>3, <1>4, <1>5

LEMMA OpenFailsStep ==
  ASSUME NEW p \in Procs, IInv, OpenFails(p) PROVE IInv'
<1> USE ProcFacts DEF IInv, Types, OpenFails, Go
<1>1. Types'
  BY DEF PCs, Files, Catchable
<1>2. Owner'
  BY DEF Owner, Locked, Written
<1>3. Holder'
  BY DEF Holder, Owner, Locked, Written
<1>4. ForkFirst'
  BY DEF ForkFirst, BeforeWrite
<1>5. Counted'
  BY DEF Counted, BeforeWrite
<1> QED
  BY <1>1, <1>2, <1>3, <1>4, <1>5

LEMMA LockStep ==
  ASSUME NEW p \in Procs, IInv, Lock(p) PROVE IInv'
<1> USE ProcFacts DEF IInv, Types, Lock, Go, LockIsFree
<1>1. Types'
  BY DEF PCs, Files, Catchable
<1>2. Owner'
  BY DEF Owner, Locked, Written
<1>3. Holder'
  BY DEF Holder, Owner, Locked, Written
<1>4. ForkFirst'
  BY DEF ForkFirst, BeforeWrite
<1>5. Counted'
  BY DEF Counted, BeforeWrite
<1> QED
  BY <1>1, <1>2, <1>3, <1>4, <1>5

LEMMA RefusedStep ==
  ASSUME NEW p \in Procs, IInv, Refused(p) PROVE IInv'
<1> USE ProcFacts DEF IInv, Types, Refused, Go, LockIsFree
<1>1. Types'
  BY DEF PCs, Files, Catchable
<1>2. Owner'
  BY DEF Owner, Locked, Written
<1>3. Holder'
  BY DEF Holder, Owner, Locked, Written
<1>4. ForkFirst'
  BY DEF ForkFirst, BeforeWrite
<1>5. Counted'
  BY DEF Counted, BeforeWrite
<1> QED
  BY <1>1, <1>2, <1>3, <1>4, <1>5

LEMMA LockErrorStep ==
  ASSUME NEW p \in Procs, IInv, LockError(p) PROVE IInv'
<1> USE ProcFacts DEF IInv, Types, LockError, Go
<1>1. Types'
  BY DEF PCs, Files, Catchable
<1>2. Owner'
  BY DEF Owner, Locked, Written
<1>3. Holder'
  BY DEF Holder, Owner, Locked, Written
<1>4. ForkFirst'
  BY DEF ForkFirst, BeforeWrite
<1>5. Counted'
  BY DEF Counted, BeforeWrite
<1> QED
  BY <1>1, <1>2, <1>3, <1>4, <1>5

LEMMA TruncateStep ==
  ASSUME NEW p \in Procs, IInv, Truncate(p) PROVE IInv'
<1> USE ProcFacts DEF IInv, Types, Truncate, Go
<1>1. Types'
  BY DEF PCs, Files, Catchable
<1>2. Owner'
  BY DEF Owner, Locked, Written
<1>3. Holder'
  BY DEF Holder, Owner, Locked, Written
<1>4. ForkFirst'
  BY DEF ForkFirst, BeforeWrite
<1>5. Counted'
  BY DEF Counted, BeforeWrite
<1> QED
  BY <1>1, <1>2, <1>3, <1>4, <1>5

LEMMA WriteStep ==
  ASSUME NEW p \in Procs, IInv, Write(p) PROVE IInv'
<1> USE ProcFacts DEF IInv, Types, Write, Go
<1>0. AfterCheck(p) \in {"fork", "start"}
  BY DEF AfterCheck
<1>1. Types'
  <2>1. pc' \in [Procs -> PCs] /\ registered' \in [Procs -> Nat]
    BY <1>0 DEF PCs
  <2>2. content' \in [Procs -> Files]
    BY DEF Files
  <2> QED
    BY <2>1, <2>2
<1>2. Owner'
  BY <1>0 DEF Owner, Locked, Written
<1>3. Holder'
  BY <1>0 DEF Holder, Owner, Locked, Written
<1>4. ForkFirst'
  BY DEF AfterCheck, ForkFirst, BeforeWrite
<1>5. Counted'
  BY <1>0 DEF Counted, BeforeWrite
<1> QED
  BY <1>1, <1>2, <1>3, <1>4, <1>5

LEMMA ForkStep ==
  ASSUME NEW l \in Launches, IInv, Fork(l) PROVE IInv'
<1> USE ProcFacts DEF IInv, Types, Fork, Go, Inherited
<1>1. Types'
  BY DEF PCs, Files, Catchable
<1>2. Owner'
  BY DEF Owner, Locked, Written
<1>3. Holder'
  BY DEF Holder, ForkFirst, BeforeWrite, Files, Locked
<1>4. ForkFirst'
  BY DEF ForkFirst, BeforeWrite
<1>5. Counted'
  BY DEF Counted, BeforeWrite
<1> QED
  BY <1>1, <1>2, <1>3, <1>4, <1>5

LEMMA ForkFailsStep ==
  ASSUME NEW l \in Launches, IInv, ForkFails(l) PROVE IInv'
<1> USE ProcFacts DEF IInv, Types, ForkFails, Go
<1>1. Types'
  BY DEF PCs, Files, Catchable
<1>2. Owner'
  BY DEF Owner, Locked, Written
<1>3. Holder'
  BY DEF Holder, Owner, Locked, Written
<1>4. ForkFirst'
  BY DEF ForkFirst, BeforeWrite
<1>5. Counted'
  BY DEF Counted, BeforeWrite
<1> QED
  BY <1>1, <1>2, <1>3, <1>4, <1>5

LEMMA SetupStep ==
  ASSUME NEW p \in Procs, IInv, Setup(p) PROVE IInv'
<1> USE ProcFacts DEF IInv, Types, Setup, Go
<1>1. Types'
  BY DEF PCs, Files, Catchable
<1>2. Owner'
  BY DEF Owner, Locked, Written
<1>3. Holder'
  BY DEF Holder, Owner, Locked, Written
<1>4. ForkFirst'
  BY DEF ForkFirst, BeforeWrite
<1>5. Counted'
  BY DEF Counted, BeforeWrite
<1> QED
  BY <1>1, <1>2, <1>3, <1>4, <1>5

LEMMA StartFailsStep ==
  ASSUME NEW p \in Procs, IInv, StartFails(p) PROVE IInv'
<1> USE ProcFacts DEF IInv, Types, StartFails, Go
<1>1. Types'
  BY DEF PCs, Files, Catchable
<1>2. Owner'
  BY DEF Owner, Locked, Written
<1>3. Holder'
  BY DEF Holder, Owner, Locked, Written
<1>4. ForkFirst'
  BY DEF ForkFirst, BeforeWrite
<1>5. Counted'
  BY DEF Counted, BeforeWrite
<1> QED
  BY <1>1, <1>2, <1>3, <1>4, <1>5

LEMMA HandleSignalStep ==
  ASSUME NEW p \in Procs, IInv, HandleSignal(p) PROVE IInv'
<1> USE ProcFacts DEF IInv, Types, HandleSignal, Go
<1>1. Types'
  BY DEF PCs, Files, Catchable
<1>2. Owner'
  BY DEF Owner, Locked, Written
<1>3. Holder'
  BY DEF Holder, Owner, Locked, Written
<1>4. ForkFirst'
  BY DEF ForkFirst, BeforeWrite
<1>5. Counted'
  BY DEF Counted, BeforeWrite
<1> QED
  BY <1>1, <1>2, <1>3, <1>4, <1>5

LEMMA RemovePidFileStep ==
  ASSUME NEW p \in Procs, IInv, RemovePidFile(p) PROVE IInv'
<1> USE ProcFacts DEF IInv, Types, RemovePidFile, Go
<1>1. Types'
  BY DEF PCs, Files, Catchable
<1>2. Owner'
  BY DEF Owner, Locked, Written
<1>3. Holder'
  BY DEF Holder, Owner, Locked, Written
<1>4. ForkFirst'
  BY DEF ForkFirst, BeforeWrite
<1>5. Counted'
  BY DEF Counted, BeforeWrite
<1> QED
  BY <1>1, <1>2, <1>3, <1>4, <1>5

LEMMA DieStep ==
  ASSUME NEW p \in Procs, IInv, Die(p) PROVE IInv'
<1> USE ProcFacts DEF IInv, Types, Die, Go, Released
<1>1. Types'
  BY DEF PCs, Files, Catchable
<1>2. Owner'
  BY DEF Owner, Locked, Written
<1>3. Holder'
  BY DEF Holder, Owner, Locked, Written
<1>4. ForkFirst'
  BY DEF ForkFirst, BeforeWrite
<1>5. Counted'
  BY DEF Counted, BeforeWrite
<1> QED
  BY <1>1, <1>2, <1>3, <1>4, <1>5

LEMMA KillStep ==
  ASSUME NEW p \in Procs, IInv, Kill(p) PROVE IInv'
<1> USE ProcFacts DEF IInv, Types, Kill, Go, Released, Alive
<1>1. Types'
  BY DEF PCs, Files, Catchable
<1>2. Owner'
  BY DEF Owner, Locked, Written
<1>3. Holder'
  BY DEF Holder, Owner, Locked, Written
<1>4. ForkFirst'
  BY DEF ForkFirst, BeforeWrite
<1>5. Counted'
  BY DEF Counted, BeforeWrite
<1> QED
  BY <1>1, <1>2, <1>3, <1>4, <1>5
-----------------------------------------------------------------------------
LEMMA StepIInv == IInv /\ [Next]_vars => IInv'
<1> SUFFICES ASSUME IInv, [Next]_vars PROVE IInv'
  OBVIOUS
<1>1. ASSUME NEW l \in Launches, Launch(l) \/ Daemonize(l) PROVE IInv'
  BY <1>1, LaunchStep, ForkStep, ForkFailsStep DEF Daemonize
<1>2. ASSUME NEW p \in Procs, Check(p) PROVE IInv'
  BY <1>2, OpenStep, OpenFailsStep, LockStep, RefusedStep, LockErrorStep,
     TruncateStep, WriteStep DEF Check
<1>3. ASSUME NEW p \in Procs, Serve(p) PROVE IInv'
  BY <1>3, SetupStep, StartFailsStep, HandleSignalStep DEF Serve
<1>4. ASSUME NEW p \in Procs, End(p) PROVE IInv'
  BY <1>4, RemovePidFileStep, DieStep, KillStep DEF End
<1>5. CASE UNCHANGED vars
  BY <1>5 DEF vars, IInv, Types, Owner, Holder, ForkFirst, Counted
<1> QED
  BY <1>1, <1>2, <1>3, <1>4, <1>5 DEF Next

\* The invariant of every launch and every process of it.
LEMMA Invariance == Spec => []IInv
BY InitIInv, StepIInv, PTL DEF Spec

\* The state is well typed; no process runs remove_pid_file more than twice
\* while it exits.
THEOREM TypeCorrect == Spec => []TypeOK
<1>1. IInv => TypeOK
  <2> SUFFICES ASSUME IInv PROVE TypeOK
    OBVIOUS
  <2>1. registered \in [Procs -> 0..2]
    <3>1. \A p \in Procs : registered[p] \in 0..2
      BY ProcFacts DEF IInv, Types, Counted
    <3> QED
      BY <3>1 DEF IInv, Types
  <2> QED
    BY <2>1 DEF IInv, Types, TypeOK, PCs, Files
<1> QED
  BY Invariance, <1>1, PTL

\* However many launches race, crash and exit, a running instance holds the
\* lock of the file it opened, and its number is in it.
THEOREM RunningOwns == Spec => []RunningOwnsItsFile
<1>1. IInv => RunningOwnsItsFile
  BY DEF IInv, Owner, RunningOwnsItsFile, Running, Locked, Written
<1> QED
  BY Invariance, <1>1, PTL

\* No launch is turned away but by a live process that holds the lock.
THEOREM RefusalJustified == Spec => RefusedByTheLiving
<1>1. IInv /\ [Next]_vars =>
        [\A p \in Procs : Refused(p) =>
           \E q \in Procs \ {p} : Alive(q) /\ lock[fd[p]] = q]_vars
  <2> SUFFICES ASSUME IInv, NEW p \in Procs, Refused(p)
               PROVE \E q \in Procs \ {p} : Alive(q) /\ lock[fd[p]] = q
    OBVIOUS
  <2> DEFINE q == lock[fd[p]]
  <2>1. pc[p] = "lock" /\ fd[p] \in Procs /\ q # None
    BY DEF Refused, Go, LockIsFree, IInv, Owner
  <2>2. q \in Procs /\ pc[q] \in Locked \cup {"exit"}
    BY <2>1 DEF IInv, Types, Files, Holder
  <2> QED
    BY <2>1, <2>2 DEF Alive, Locked
<1> QED
  BY Invariance, <1>1, PTL DEF Spec, RefusedByTheLiving
-----------------------------------------------------------------------------
(***************************************************************************)
(* The PID file itself.  NoFileLeft looks at the state in which everybody   *)
(* has ended; what leads there is that PID_FILE, while it exists, always    *)
(* has somebody who will remove it: a process about to try its lock, or one *)
(* that holds its lock and has yet to register remove_pid_file, or to run   *)
(* it.                                                                     *)
(***************************************************************************)

NotYetOpened == {"off", "open"}

\* A file, and a hold on it, come only from open().
Opened == /\ \A q \in Procs : fd[q] # None =>
                pc[q] \notin NotYetOpened /\ pc[fd[q]] \notin NotYetOpened
          /\ path # None => pc[path] \notin NotYetOpened

\* Who holds the lock of a file has that file open.
OwnLock == \A f \in Procs : lock[f] # None => fd[lock[f]] = f

\* Without a fault, the file PID_FILE names is about to be locked, or locked.
Kept == ~ faulted /\ path # None =>
          \/ \E q \in Procs : pc[q] = "lock" /\ fd[q] = path
          \/ lock[path] # None

\* Whoever has it locked has a call of remove_pid_file ahead.
WillRemove == path # None /\ lock[path] # None =>
                \/ pc[lock[path]] \in {"truncate", "write"}
                \/ registered[lock[path]] > 0

FileInv == Opened /\ OwnLock /\ Kept /\ WillRemove

LEMMA InitFileInv == Init => FileInv
BY DEF Init, FileInv, Opened, OwnLock, Kept, WillRemove

LEMMA LaunchFile ==
  ASSUME NEW l \in Launches, IInv, FileInv, Launch(l) PROVE FileInv'
<1> USE ProcFacts DEF IInv, Types, Files, FileInv, NotYetOpened, Launch, Go
<1>1. Opened'
  BY DEF Opened
<1>2. OwnLock'
  BY DEF OwnLock, Opened, Holder, Locked
<1>3. Kept'
  BY DEF Kept, Opened, WillRemove
<1>4. WillRemove'
  BY DEF WillRemove, OwnLock, Opened, Holder, Owner, Locked
<1> QED
  BY <1>1, <1>2, <1>3, <1>4

LEMMA OpenFile ==
  ASSUME NEW p \in Procs, IInv, FileInv, Open(p) PROVE FileInv'
<1> USE ProcFacts DEF IInv, Types, Files, FileInv, NotYetOpened, Open, Go
<1>1. Opened'
  BY DEF Opened
<1>2. OwnLock'
  BY DEF OwnLock, Opened, Holder, Locked
<1>3. Kept'
  BY DEF Kept, Opened, WillRemove
<1>4. WillRemove'
  BY DEF WillRemove, OwnLock, Opened, Holder, Owner, Locked
<1> QED
  BY <1>1, <1>2, <1>3, <1>4

LEMMA OpenFailsFile ==
  ASSUME NEW p \in Procs, IInv, FileInv, OpenFails(p) PROVE FileInv'
<1> USE ProcFacts DEF IInv, Types, Files, FileInv, NotYetOpened, OpenFails, Go
<1>1. Opened'
  BY DEF Opened
<1>2. OwnLock'
  BY DEF OwnLock, Opened, Holder, Locked
<1>3. Kept'
  BY DEF Kept, Opened, WillRemove
<1>4. WillRemove'
  BY DEF WillRemove, OwnLock, Opened, Holder, Owner, Locked
<1> QED
  BY <1>1, <1>2, <1>3, <1>4

LEMMA LockFile ==
  ASSUME NEW p \in Procs, IInv, FileInv, Lock(p) PROVE FileInv'
<1> USE ProcFacts DEF IInv, Types, Files, FileInv, NotYetOpened, Lock, Go,
   LockIsFree
<1>1. Opened'
  BY DEF Opened
<1>2. OwnLock'
  BY DEF OwnLock, Opened, Holder, Locked
<1>3. Kept'
  BY DEF Kept, Opened, WillRemove
<1>4. WillRemove'
  BY DEF WillRemove, OwnLock, Opened, Holder, Owner, Locked
<1> QED
  BY <1>1, <1>2, <1>3, <1>4

LEMMA RefusedFile ==
  ASSUME NEW p \in Procs, IInv, FileInv, Refused(p) PROVE FileInv'
<1> USE ProcFacts DEF IInv, Types, Files, FileInv, NotYetOpened, Refused, Go,
   LockIsFree
<1>1. Opened'
  BY DEF Opened
<1>2. OwnLock'
  BY DEF OwnLock, Opened, Holder, Locked
<1>3. Kept'
  BY DEF Kept, Opened, WillRemove
<1>4. WillRemove'
  BY DEF WillRemove, OwnLock, Opened, Holder, Owner, Locked
<1> QED
  BY <1>1, <1>2, <1>3, <1>4

LEMMA LockErrorFile ==
  ASSUME NEW p \in Procs, IInv, FileInv, LockError(p) PROVE FileInv'
<1> USE ProcFacts DEF IInv, Types, Files, FileInv, NotYetOpened, LockError, Go
<1>1. Opened'
  BY DEF Opened
<1>2. OwnLock'
  BY DEF OwnLock, Opened, Holder, Locked
<1>3. Kept'
  BY DEF Kept, Opened, WillRemove
<1>4. WillRemove'
  BY DEF WillRemove, OwnLock, Opened, Holder, Owner, Locked
<1> QED
  BY <1>1, <1>2, <1>3, <1>4

LEMMA TruncateFile ==
  ASSUME NEW p \in Procs, IInv, FileInv, Truncate(p) PROVE FileInv'
<1> USE ProcFacts DEF IInv, Types, Files, FileInv, NotYetOpened, Truncate, Go
<1>1. Opened'
  BY DEF Opened
<1>2. OwnLock'
  BY DEF OwnLock, Opened, Holder, Locked
<1>3. Kept'
  BY DEF Kept, Opened, WillRemove
<1>4. WillRemove'
  BY DEF WillRemove, OwnLock, Opened, Holder, Owner, Locked
<1> QED
  BY <1>1, <1>2, <1>3, <1>4

LEMMA WriteFile ==
  ASSUME NEW p \in Procs, IInv, FileInv, Write(p) PROVE FileInv'
<1> USE ProcFacts DEF IInv, Types, Files, FileInv, NotYetOpened, Write, Go,
   AfterCheck
<1>1. Opened'
  BY DEF Opened
<1>2. OwnLock'
  BY DEF OwnLock, Opened, Holder, Locked
<1>3. Kept'
  BY DEF Kept, Opened, WillRemove
<1>4. WillRemove'
  BY DEF WillRemove, OwnLock, Opened, Holder, Owner, Locked
<1> QED
  BY <1>1, <1>2, <1>3, <1>4

LEMMA ForkFile ==
  ASSUME NEW l \in Launches, IInv, FileInv, Fork(l) PROVE FileInv'
<1> USE DEF IInv, Types, Files, FileInv, NotYetOpened
<1> DEFINE parent == First(l)
           child == Child(l)
<1>1. /\ parent \in Procs /\ child \in Procs /\ parent # child
      /\ pc[parent] = "fork" /\ pc[child] = "off"
  BY ProcFacts DEF Fork, ForkFirst, BeforeWrite
<1>2. /\ pc'[parent] = "exit" /\ pc'[child] = "open"
      /\ \A q \in Procs \ {parent, child} : pc'[q] = pc[q]
  BY <1>1 DEF Fork
<1>3. \A q \in Procs \ {child} : registered'[q] = registered[q]
  BY <1>1 DEF Fork
<1>4. UNCHANGED <<path, fd, lock, faulted>>
  BY DEF Fork
<1> HIDE DEF parent, child
<1>5. Opened'
  BY <1>1, <1>2, <1>4 DEF Opened
<1>6. OwnLock'
  BY <1>4 DEF OwnLock
<1>7. Kept'
  BY <1>1, <1>2, <1>4 DEF Kept
<1>8. WillRemove'
  BY <1>1, <1>2, <1>3, <1>4 DEF WillRemove, Holder, Locked
<1> QED
  BY <1>5, <1>6, <1>7, <1>8

LEMMA ForkFailsFile ==
  ASSUME NEW l \in Launches, IInv, FileInv, ForkFails(l) PROVE FileInv'
<1> USE ProcFacts DEF IInv, Types, Files, FileInv, NotYetOpened, ForkFails, Go
<1>1. Opened'
  BY DEF Opened
<1>2. OwnLock'
  BY DEF OwnLock, Opened, Holder, Locked
<1>3. Kept'
  BY DEF Kept, Opened, WillRemove
<1>4. WillRemove'
  BY DEF WillRemove, OwnLock, Opened, Holder, Owner, Locked
<1> QED
  BY <1>1, <1>2, <1>3, <1>4

LEMMA SetupFile ==
  ASSUME NEW p \in Procs, IInv, FileInv, Setup(p) PROVE FileInv'
<1> USE ProcFacts DEF IInv, Types, Files, FileInv, NotYetOpened, Setup, Go
<1>1. Opened'
  BY DEF Opened
<1>2. OwnLock'
  BY DEF OwnLock, Opened, Holder, Locked
<1>3. Kept'
  BY DEF Kept, Opened, WillRemove
<1>4. WillRemove'
  BY DEF WillRemove, OwnLock, Opened, Holder, Owner, Locked
<1> QED
  BY <1>1, <1>2, <1>3, <1>4

LEMMA StartFailsFile ==
  ASSUME NEW p \in Procs, IInv, FileInv, StartFails(p) PROVE FileInv'
<1> USE ProcFacts DEF IInv, Types, Files, FileInv, NotYetOpened, StartFails, Go
<1>1. Opened'
  BY DEF Opened
<1>2. OwnLock'
  BY DEF OwnLock, Opened, Holder, Locked
<1>3. Kept'
  BY DEF Kept, Opened, WillRemove
<1>4. WillRemove'
  BY DEF WillRemove, OwnLock, Opened, Holder, Owner, Locked
<1> QED
  BY <1>1, <1>2, <1>3, <1>4

LEMMA HandleSignalFile ==
  ASSUME NEW p \in Procs, IInv, FileInv, HandleSignal(p) PROVE FileInv'
<1> USE ProcFacts DEF IInv, Types, Files, FileInv, NotYetOpened,
   HandleSignal, Go
<1>1. Opened'
  BY DEF Opened
<1>2. OwnLock'
  BY DEF OwnLock, Opened, Holder, Locked
<1>3. Kept'
  BY DEF Kept, Opened, WillRemove
<1>4. WillRemove'
  BY DEF WillRemove, OwnLock, Opened, Holder, Owner, Locked
<1> QED
  BY <1>1, <1>2, <1>3, <1>4

LEMMA RemovePidFileFile ==
  ASSUME NEW p \in Procs, IInv, FileInv, RemovePidFile(p) PROVE FileInv'
<1> USE ProcFacts DEF IInv, Types, Files, FileInv, NotYetOpened,
   RemovePidFile, Go
<1>1. Opened'
  BY DEF Opened
<1>2. OwnLock'
  BY DEF OwnLock, Opened, Holder, Locked
<1>3. Kept'
  BY DEF Kept, Opened, WillRemove
<1>4. WillRemove'
  BY DEF WillRemove, OwnLock, Opened, Holder, Owner, Locked
<1> QED
  BY <1>1, <1>2, <1>3, <1>4

LEMMA DieFile ==
  ASSUME NEW p \in Procs, IInv, FileInv, Die(p) PROVE FileInv'
<1> USE ProcFacts DEF IInv, Types, Files, FileInv, NotYetOpened, Die, Go,
   Released
<1>1. Opened'
  BY DEF Opened
<1>2. OwnLock'
  BY DEF OwnLock, Opened, Holder, Locked
<1>3. Kept'
  BY DEF Kept, Opened, WillRemove
<1>4. WillRemove'
  BY DEF WillRemove, OwnLock, Opened, Holder, Owner, Locked
<1> QED
  BY <1>1, <1>2, <1>3, <1>4

LEMMA KillFile ==
  ASSUME NEW p \in Procs, IInv, FileInv, Kill(p) PROVE FileInv'
<1> USE ProcFacts DEF IInv, Types, Files, FileInv, NotYetOpened, Kill, Go,
   Released, Alive
<1>1. Opened'
  BY DEF Opened
<1>2. OwnLock'
  BY DEF OwnLock, Opened, Holder, Locked
<1>3. Kept'
  BY DEF Kept, Opened, WillRemove
<1>4. WillRemove'
  BY DEF WillRemove, OwnLock, Opened, Holder, Owner, Locked
<1> QED
  BY <1>1, <1>2, <1>3, <1>4

LEMMA StepFileInv == IInv /\ FileInv /\ [Next]_vars => FileInv'
<1> SUFFICES ASSUME IInv, FileInv, [Next]_vars PROVE FileInv'
  OBVIOUS
<1>1. ASSUME NEW l \in Launches, Launch(l) \/ Daemonize(l) PROVE FileInv'
  BY <1>1, LaunchFile, ForkFile, ForkFailsFile DEF Daemonize
<1>2. ASSUME NEW p \in Procs, Check(p) PROVE FileInv'
  BY <1>2, OpenFile, OpenFailsFile, LockFile, RefusedFile, LockErrorFile,
     TruncateFile, WriteFile DEF Check
<1>3. ASSUME NEW p \in Procs, Serve(p) PROVE FileInv'
  BY <1>3, SetupFile, StartFailsFile, HandleSignalFile DEF Serve
<1>4. ASSUME NEW p \in Procs, End(p) PROVE FileInv'
  BY <1>4, RemovePidFileFile, DieFile, KillFile DEF End
<1>5. CASE UNCHANGED vars
  BY <1>5 DEF vars, FileInv, Opened, OwnLock, Kept, WillRemove
<1> QED
  BY <1>1, <1>2, <1>3, <1>4, <1>5 DEF Next

\* Once every process of every launch has ended on its own, no PID file is
\* left, in whatever order they opened, locked, lost and removed it.
THEOREM NothingLeft == Spec => []NoFileLeft
<1>1. IInv /\ FileInv => NoFileLeft
  <2> SUFFICES ASSUME IInv, FileInv, ~ faulted, path # None,
                      \A p \in Procs : ~ Alive(p)
               PROVE FALSE
    BY DEF NoFileLeft
  <2>1. path \in Procs /\ ~ \E q \in Procs : pc[q] = "lock"
    BY DEF IInv, Types, Files, Alive
  <2>2. lock[path] # None /\ lock[path] \in Procs
    BY <2>1 DEF FileInv, Kept, IInv, Types, Files
  <2>3. pc[lock[path]] \in Locked \cup {"exit"}
    BY <2>1, <2>2 DEF IInv, Holder
  <2> QED
    BY <2>2, <2>3 DEF Alive, Locked
<1> QED
  BY Invariance, InitFileInv, StepFileInv, <1>1, PTL DEF Spec
=============================================================================
