------------------------------ MODULE PidFile ------------------------------
(***************************************************************************)
(* How a service keeps to one instance on a host: the pid file of CDaemon  *)
(* (start, stop, restart) and the file lock of the decorator singleton,    *)
(* both of utils/misc.py.  Three kinds of programs use them:               *)
(*   "both"   - virtctl.py, where the pid file and the lock are one file   *)
(*   "daemon" - virtlet.py, the pid file only                              *)
(*   "lock"   - the *_in_docker.py programs, the lock only                 *)
(*                                                                         *)
(* A removed file that is made again is another inode, and a lock belongs  *)
(* to the inode.  Processes may be killed at any point, and commands may   *)
(* overlap: start returns at the first fork, before the pid is written.    *)
(***************************************************************************)
EXTENDS Naturals, FiniteSets

CONSTANTS
    Procs,      \* processes that "start" may become; each pid is used once
    Stops,      \* processes of "stop"
    Kinds,      \* kinds of programs
    Inodes,     \* inodes the file may get
    MaxKills    \* bound: processes that are killed from outside

ASSUME InodesAssumption == Inodes \subseteq Nat \ {0}

None == "none"      \* nobody, or an empty file
ASSUME NoneAssumption == None \notin Procs

NoFile == 0

\* Where a process is: the check of start(), the pid file of daemonize(), the
\* lock of singleton, the function, its end, the exit handler.
Pcs == {"none", "check", "open", "write", "open_lock", "lock",
        "truncate", "stamp", "run", "close", "remove", "atexit", "del", "gone"}

VARIABLES
    kind,     \* kind of the program
    name,     \* the inode the file name leads to, or NoFile
    content,  \* the pid in the file of that name; a file without a name is read
              \* by nobody
    holder,   \* the process that has locked an inode
    pc, fd,   \* of every process: where it is, and the inode it has opened
    stop,     \* of every stop: where it is, and the pid it read
    kills,
    doubled,  \* a start found no file while the daemon of another start had
              \* not opened its own yet
    robbed    \* a file was removed that another process relied on

vars == <<kind, name, content, holder, pc, fd, stop, kills, doubled, robbed>>
history == <<doubled, robbed>>

StopIdle == [pc |-> "none", pid |-> None]

Init ==
    /\ kind \in Kinds
    /\ name = NoFile
    /\ content = None
    /\ holder = [i \in Inodes |-> None]
    /\ pc = [p \in Procs |-> "none"]
    /\ fd = [p \in Procs |-> NoFile]
    /\ stop = [s \in Stops |-> StopIdle]
    /\ kills = 0
    /\ doubled = FALSE
    /\ robbed = FALSE

Running == {p \in Procs : pc[p] = "run"}
Alive(p) == pc[p] \notin {"none", "gone"}

\* A new file takes an inode nobody uses, the first of them: any would do.
FreeInodes == {i \in Inodes : i # name /\ \A p \in Procs : fd[p] # i}
FreshInodes == {i \in FreeInodes : \A j \in FreeInodes : i <= j}

\* What p writes to the inode it has open.
Writes(p, pid) == content' = IF fd[p] = name THEN pid ELSE content

Go(p, where) == pc' = [pc EXCEPT ![p] = where]

\* The process is gone, and with it its lock.
Released(p) == [i \in Inodes |-> IF holder[i] = p THEN None ELSE holder[i]]
Ends(p) ==
    /\ Go(p, "gone")
    /\ holder' = Released(p)
    /\ fd' = [fd EXCEPT ![p] = NoFile]

\* Every removal is by name, whosever file that is by now.  A process relies on
\* the file from when it has opened it to the end of its function.
Relying == {"write", "open_lock", "lock", "truncate", "stamp", "run"}
RemoveFile ==
    /\ name' = NoFile
    /\ content' = None
    /\ robbed' = (robbed \/ \E q \in Procs : fd[q] = name /\ pc[q] \in Relying)
    /\ UNCHANGED doubled

-----------------------------------------------------------------------------
(* CDaemon.start and daemonize.                                              *)

Start(p) ==
    /\ pc[p] = "none"
    /\ Go(p, IF kind = "lock" THEN "open_lock" ELSE "check")
    /\ UNCHANGED <<kind, name, content, holder, fd, stop, kills, history>>

\* start() gives up when get_pid finds a pid, or no number in the file.  Else
\* the command ends with the first fork, and p is the daemon from here on.
Check(p) ==
    /\ pc[p] = "check"
    /\ \/ /\ name = NoFile
          /\ Go(p, "open")
          /\ doubled' = (doubled \/ \E q \in Procs : pc[q] = "open")
          /\ UNCHANGED <<holder, fd>>
       \/ name # NoFile /\ Ends(p) /\ UNCHANGED doubled
    /\ UNCHANGED <<kind, name, content, stop, kills, robbed>>

\* open(pidfile): the inode of that name, or a new one.
OpenFile(p) ==
    \/ name # NoFile /\ fd' = [fd EXCEPT ![p] = name] /\ UNCHANGED name
    \/ /\ name = NoFile
       /\ \E i \in FreshInodes : name' = i /\ fd' = [fd EXCEPT ![p] = i]

\* After two forks, a new session, signal handlers and the registration of
\* del_pid for the exit, open(.., 'w+') truncates ...
OpenPid(p) ==
    /\ pc[p] = "open"
    /\ OpenFile(p)
    /\ content' = None
    /\ Go(p, "write")
    /\ UNCHANGED <<kind, holder, stop, kills, history>>

\* ... and the pid follows; virtlet's run() begins.
WritePid(p) ==
    /\ pc[p] = "write"
    /\ Writes(p, p)
    /\ Go(p, IF kind = "daemon" THEN "run" ELSE "open_lock")
    /\ UNCHANGED <<kind, name, holder, fd, stop, kills, history>>

-----------------------------------------------------------------------------
(* singleton.                                                                *)

\* Mutant: open(.., 'w+') empties the file of the process that has the lock.
OpenLockEmpties(p) ==
    /\ pc[p] = "open_lock"
    /\ OpenFile(p)
    /\ content' = None
    /\ Go(p, "lock")
    /\ UNCHANGED <<kind, holder, stop, kills, history>>

\* open(.., 'a+') keeps what is there.
OpenLock(p) ==
    /\ pc[p] = "open_lock"
    /\ OpenFile(p)
    /\ Go(p, "lock")
    /\ UNCHANGED <<kind, content, holder, stop, kills, history>>

\* The exit of the interpreter runs del_pid where daemonize registered it.
Exit(p) ==
    IF kind = "lock" THEN Ends(p) ELSE Go(p, "atexit") /\ UNCHANGED <<holder, fd>>

\* Mutant: a lock that another process holds is not noticed.
LockNot(p) ==
    /\ pc[p] = "lock"
    /\ holder' = [holder EXCEPT ![fd[p]] = p]
    /\ Go(p, "truncate")
    /\ UNCHANGED <<kind, name, content, fd, stop, kills, history>>

\* flock(LOCK_EX | LOCK_NB): who does not get it returns.
Lock(p) ==
    /\ pc[p] = "lock"
    /\ \/ /\ holder[fd[p]] = None
          /\ holder' = [holder EXCEPT ![fd[p]] = p]
          /\ Go(p, "truncate")
          /\ UNCHANGED fd
       \/ /\ holder[fd[p]] # None
          /\ Exit(p)
    /\ UNCHANGED <<kind, name, content, stop, kills, history>>

Truncate(p) ==
    /\ pc[p] = "truncate"
    /\ Writes(p, None)
    /\ Go(p, "stamp")
    /\ UNCHANGED <<kind, name, holder, fd, stop, kills, history>>

Stamp(p) ==
    /\ pc[p] = "stamp"
    /\ Writes(p, p)
    /\ Go(p, "run")
    /\ UNCHANGED <<kind, name, holder, fd, stop, kills, history>>

\* The function returns, by an exception that it has logged ...
Return(p) ==
    /\ pc[p] = "run"
    /\ IF kind = "daemon" THEN Exit(p)
       ELSE Go(p, "close") /\ UNCHANGED <<holder, fd>>
    /\ UNCHANGED <<kind, name, content, stop, kills, history>>

\* ... or raises: load_kube_config is before its try, and singleton has none, so
\* that the file is neither closed nor removed.
Raise(p) ==
    /\ pc[p] = "run"
    /\ Exit(p)
    /\ UNCHANGED <<kind, name, content, stop, kills, history>>

\* close() gives the lock back ...
Close(p) ==
    /\ pc[p] = "close"
    /\ holder' = Released(p)
    /\ Go(p, "remove")
    /\ UNCHANGED <<kind, name, content, fd, stop, kills, history>>

\* ... and then the file of that name is removed.
Remove(p) ==
    /\ pc[p] = "remove"
    /\ RemoveFile
    /\ Exit(p)
    /\ UNCHANGED <<kind, stop, kills>>

\* del_pid looks for the file and then removes it.
AtExit(p) ==
    /\ pc[p] = "atexit"
    /\ IF name = NoFile THEN Ends(p) ELSE Go(p, "del") /\ UNCHANGED <<holder, fd>>
    /\ UNCHANGED <<kind, name, content, stop, kills, history>>

DelPid(p) ==
    /\ pc[p] = "del"
    /\ RemoveFile
    /\ Ends(p)
    /\ UNCHANGED <<kind, stop, kills>>

Process(p) ==
    \/ Check(p) \/ OpenPid(p) \/ WritePid(p)
    \/ OpenLock(p) \/ Lock(p) \/ Truncate(p) \/ Stamp(p)
    \/ Close(p) \/ Remove(p) \/ AtExit(p) \/ DelPid(p)

-----------------------------------------------------------------------------
(* CDaemon.stop.                                                             *)

StopGone(s) == stop' = [stop EXCEPT ![s] = [pc |-> "gone", pid |-> None]]
StopGo(s, where) == stop' = [stop EXCEPT ![s] = [@ EXCEPT !.pc = where]]

Stop(s) ==
    /\ kind # "lock"
    /\ stop[s].pc = "none"
    /\ StopGo(s, "read")
    /\ UNCHANGED <<kind, name, content, holder, pc, fd, kills, history>>

\* get_pid: without a file there is no process to stop, and a file that has come
\* since is removed; a file without a number raises a ValueError.
StopRead(s) ==
    /\ stop[s].pc = "read"
    /\ \/ name = NoFile /\ StopGo(s, "remove")
       \/ name # NoFile /\ content = None /\ StopGone(s)
       \/ /\ name # NoFile /\ content # None
          /\ stop' = [stop EXCEPT ![s] = [pc |-> "term", pid |-> content]]
    /\ UNCHANGED <<kind, name, content, holder, pc, fd, kills, history>>

\* A daemon has a handler for SIGTERM that only sets a flag nobody reads; the
\* first signals of a second have no other effect than to find a dead process.
StopTerm(s) ==
    /\ stop[s].pc = "term"
    /\ StopGo(s, IF Alive(stop[s].pid) THEN "hup" ELSE "remove")
    /\ UNCHANGED <<kind, name, content, holder, pc, fd, kills, history>>

\* Mutant: only SIGTERM is sent.
StopHupNot(s) ==
    /\ stop[s].pc = "hup"
    /\ StopGo(s, "term")
    /\ UNCHANGED <<kind, name, content, holder, pc, fd, kills, history>>

\* Every tenth time SIGHUP is sent too, and it kills.
StopHup(s) ==
    /\ stop[s].pc = "hup"
    /\ LET p == stop[s].pid
       IN IF Alive(p) THEN Ends(p) /\ StopGo(s, "term")
          ELSE StopGo(s, "remove") /\ UNCHANGED <<pc, holder, fd>>
    /\ UNCHANGED <<kind, name, content, kills, history>>

\* "No such process": the pid file is removed.
StopRemove(s) ==
    /\ stop[s].pc = "remove"
    /\ RemoveFile
    /\ StopGone(s)
    /\ UNCHANGED <<kind, holder, pc, fd, kills>>

Stopper(s) == StopRead(s) \/ StopTerm(s) \/ StopHup(s) \/ StopRemove(s)

\* kill -9, the OOM killer: no exit handler runs, the file stays.
Kill(p) ==
    /\ kills < MaxKills
    /\ kills' = kills + 1
    /\ Alive(p)
    /\ Ends(p)
    /\ UNCHANGED <<kind, name, content, stop, history>>

Next ==
    \/ \E p \in Procs : Start(p) \/ Process(p) \/ Return(p) \/ Raise(p) \/ Kill(p)
    \/ \E s \in Stops : Stop(s) \/ Stopper(s)

\* Processes and stops run on; commands and failures need not happen.
Fairness ==
    /\ \A p \in Procs : WF_vars(Process(p))
    /\ \A s \in Stops : WF_vars(Stopper(s))

Spec == Init /\ [][Next]_vars
FairSpec == Spec /\ Fairness

-----------------------------------------------------------------------------
(* Properties.                                                               *)

\* The state is well formed; a stop that signals has a pid.
TypeOK ==
    /\ kind \in Kinds
    /\ name \in Inodes \cup {NoFile}
    /\ content \in Procs \cup {None}
    /\ holder \in [Inodes -> Procs \cup {None}]
    /\ pc \in [Procs -> Pcs]
    /\ fd \in [Procs -> Inodes \cup {NoFile}]
    /\ stop \in [Stops -> [pc: {"none", "read", "remove", "gone"}, pid: {None}]
                    \cup [pc: {"term", "hup", "remove"}, pid: Procs]]
    /\ kills \in Nat
    /\ doubled \in BOOLEAN
    /\ robbed \in BOOLEAN

\* One instance: however commands overlap, whoever is killed, returns or raises
\* and wherever, a program that takes the lock is in its function at most once,
\* unless a removal (lines 578, 1738, 1758, 1776) took a file from under a
\* process that had it open: its lock then guards an inode without a name.  The
\* check of start() is not what this rests on: starts that pass it side by side
\* meet at the lock.
OneInstance ==
    kind # "daemon" /\ ~ robbed => \A p, q \in Running : p = q

\* Stop finds the instance: the file leads to every process that is in the
\* function and holds its pid, so that a stop kills it and a start gives up,
\* unless one of two things happened: such a removal, or a start whose check
\* (1744) fell between the check of another and the opening of its file (1722).
\* Nothing else does it: no stale file of a killed instance, no start that meets
\* a half-written file, no instance that loses the race for the lock.
PidNamesDaemon ==
    ~ doubled /\ ~ robbed =>
        \A p \in Running : name # NoFile /\ content = p

\* A stop comes to its end: it kills the process, which ignores SIGTERM, or
\* finds it dead, and whatever other commands do to the file meanwhile.
StopEnds == \A s \in Stops : stop[s].pc = "read" ~> stop[s].pc = "gone"
=============================================================================
