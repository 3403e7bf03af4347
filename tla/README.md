# KubeVMM in TLA+

Specifications, model-checking configurations and proofs for the control
programs of kubevm (`src/core`): what happens between a `VirtualMachine`, disk
or pool object in Kubernetes and the libvirt resource it describes.

    tlc -workers 2 -config VirtctlSafety.cfg MCVirtctlWatcher
    tlapm VirtctlWatcher_proofs.tla

## 1. Inventory

### The system

On every node three daemons work on the custom objects of the node's virtual
machines, disks, pools and networks:

| Component | Code | State it keeps | Operations |
|---|---|---|---|
| API server (external) | used in `virtctl/services/watcher.py`, `utils/misc.py`, `utils/k8s.py` | objects with a `resourceVersion`, watches | get, replace (409 when the body is old), delete, list/watch |
| virtctl: watcher, executors | `virtctl/services/watcher.py`, `utils/kubernetes_event_utils.py` | one thread per watch event; a table of mutexes that are never taken (240); Kubernetes events | `doWatch`, `doExecutor`, `delete_lifecycle_in_kubernetes`, `write_result_to_kubernetes` |
| virtctl: conversion, policies | `virtctl/services/{convertor,executor}.py`, `virtctl/policies/*.py` | none | `toCmds`, `execute`, `runCmd` with three tries |
| libvirtwatcher: domain events | `libvirtwatcher/services/libvirt_event_handler.py` 53-379, 853-890, 1132-1291 | a semaphore of three permits, a lock, handler threads | `myDomainEventCallback`, `MyDomainEventHandler.run`: push, report, HA start, bind |
| libvirtwatcher: event loop | same file, 400-803 | handles, timers, clean-up list, self pipe | `run_once`, add/update/remove of handles and timers, `interrupt` |
| virtlet: host reporter | `virtlet/services/host_reporter.py` | `ha_check`, `ha_enable`, `fail_times`, the master in the kubeconfig | node report, ownership check, HA start, power state push |
| virtlet: file system events | `virtlet/services/os_event_handler.py` | inotify observer with its queue, watched pools | create, modify, delete of domain XML files and images; the turn over the pools |
| virshplus | `plugins/virshplus.py` | none of its own: host files, libvirt, objects | pools, disks, images, VMs, NICs, devices, passwords, by queues with rollback |
| K8sHelper, object helpers | `utils/k8s.py`; `utils/misc.py` 54-147, 810-890 | none | get/update/create/delete with retries, `report_failure` |
| snapshot chains | `utils/misc.py` 1112-1460 | backing files of a domain | `merge_snapshot`, `revert_snapshot`; not modelled, see section 5 |
| singleton, daemon | `utils/misc.py` 555-584, 1656-1794 | lock file, pid file | start, stop, exit handler |
| virtmonitor, kubevmm-adm, wrappers, docker | see `PROJECT.json` | none of interest | metrics, installation, wrappers |

How they interact. A user writes a command into `spec.lifecycle`. virtctl
watches the objects; each event starts a thread that deletes the lifecycle,
announces the command in a Kubernetes event, runs it - mostly as a virshplus
process - and writes the result back. virshplus works through a queue of shell
and libvirt operations and reports to the object by K8sHelper. The command
changes the domain, libvirt emits events, and libvirtwatcher's handlers push the
new state into the same object, deleting a lifecycle they find there. libvirt
also rewrites the domain's XML file, and virtlet's file handlers push the
definition. virtlet's host reporter removes domains that belong to another
host, starts highly available ones and pushes power states at start-up and after
an outage. All of them share nothing but the object, whose `resourceVersion`
makes each replace conditional on the version that was read.

### What is hard, and what correctness means

* virtctl: commands are taken out of the object by a read and a write while
  users and libvirtwatcher write it; replies are lost, watches end and replay,
  the process dies. A command must not come back once taken, must not be run by
  two lives of the process, must not stay in the object, and what is announced
  must be closed.
* libvirtwatcher: handlers run in any order, read the domain and the object at
  different times, and fail in a dozen ways inside a lock. Pushes must not go
  backwards, lock and permits must come back, the object must be up to date in
  the end, and a highly available machine that stopped must run or be reported.
* event loop: every thread changes the loop's lists without a lock. No wakeup may
  be lost, the timeout must fit the timers, and nothing that was freed may be
  called.
* host reporter: requests and libvirt calls fail in the middle of a turn, masters
  change, VMs are moved. What belongs elsewhere must go, a power state must not
  go backwards, the node gets its HA back only after its VMs were looked after,
  and these must run again.
* file events: events wait while what they tell of changes. Objects and files must
  agree in the end, other nodes' objects and later definitions must be kept, and
  a turn that fails half way must not leave a pool unwatched.
* virshplus: every operation may fail, with or without its effect, and the policy
  tries the whole command again on what the last try left. Objects must be
  deleted after, and be Ready not before, what they stand for; rollbacks must not
  leave a pool, a domain or a switch port behind. Nothing keeps two commands of
  one object apart.
* K8sHelper: answers are lost, and others write between the read and the replace.
  What returns must have been done, what raises must have been disturbed, and a
  write must not undo somebody else's.
* singleton, daemon: one instance, and `stop` must find it, whoever is killed and
  however commands overlap; `start` returns before the pid is written.

`PROJECT.json` lists the hazards line by line with the properties that cover them.

## 2. Modules

    VmObject            the object in the API server
      VirtctlWatcher      virtctl's threads            MCVirtctlWatcher
        implements CommandLife, the life of a command
      DomainEvents        libvirtwatcher's handlers    MCDomainEvents
    EventLoopPoll       libvirtwatcher's event loop    MCEventLoopPoll
    HostReporter        virtlet's host reporter        MCHostReporter
    FileEvents          virtlet's file watcher         MCFileEvents
    Virshplus           commands, queues, rollbacks    MCVirshplus
    K8sHelper           methods on one object          MCK8sHelper
    PidFile             daemon and singleton           MCPidFile
    *_proofs            theorems about the module they extend

The MC modules name the model values and the symmetry sets. Each module carries
beside some definitions a *mutant*: the definition with a plausible mistake. No
action uses them; they show that the properties can tell the difference.

### VmObject

`obj` is one `VirtualMachine`: existence, `rv` (resourceVersion), `lifecycle`
(the posted command or `None`), `spec` (the number of the domain state that the
rest of the spec describes) and `status` (a state, or a reported failure).
`Current`, `Store`, `Replace` and `Delete` are the requests, `Failure` is the body
of `report_failure`. The API server is not in the repository: its 409, and that a
replace without a change keeps the version, are taken from how the code reacts to
them.

### CommandLife and VirtctlWatcher

`CommandLife` is what virtctl promises: a command is posted once, waits in the
object until it is withdrawn or replaced, and is run only when it has left the
object and by one life of the process. `VirtctlWatcher` is what virtctl does.
`stream` and `connected` are the watch of `doWatch`; every thread has a `pc`, the
command of its event, the object as it last read it, the result, the state of its
Kubernetes event and the count of tries. Each request to the API server and each
command is one action, so that everything else may happen between two requests.

| Actions | Code |
|---|---|
| `Deliver` | `doWatch` 121-127, `doExecutor` 142-156: DELETED events and objects without a lifecycle are dropped, an unsupported command raises outside the try |
| `DelGet`, `DelPut` | `delete_lifecycle_in_kubernetes` 333-360 |
| `EvCreate`, `EvDone`, `EvError` | `create_event`, `update_evet` with nine tries, and the `finally` of 193-195 |
| `Invoke`, `Query` | `Executor.execute`: the invoke command may change the domain whether it succeeds or not; the query describes the domain as it is |
| `WrGet`, `WrPut` | `write_result_to_kubernetes` 277-330 |
| `ReportGet`, `ReportPut` | `report_failure` with the retries of `get_/update_custom_object` |
| `Submit`, `Remove`, `VmChange`, `Push` | the user, libvirt, libvirtwatcher |
| `Disconnect`, `Reconnect`, `Crash` | end of a watch, its replay, death of the process |

Every request may fail before or after it was carried out. The mutexes of
`watcher.py` 44-52 are absent because `_acquire_mutex_lock` compares the name of
a command with its command line and never takes one. The refinement maps
`pending` to the command in the object (if the object exists), `posted` to the
submitted commands and `runs` to the lives that ran each.

### DomainEvents

`vm` numbers the states of the domain, `queue` holds the events the loop has not
dispatched. Each permit of the semaphore is a handler with a `pc`, its event,
`read` (whether `jsondict` is unassigned, `None` or an object), the object, its
`host` label and the domain state it saw. `holder` is the lock.

| Actions | Code |
|---|---|
| `Dispatch` | `myDomainEventCallback` 874-879, which blocks the event loop until a permit is free |
| `Lock`, `Release` | 66-68 and the `finally` of 319-321 |
| `GetObject`, `Look`, `PutObject` | the push, 143-196 |
| `ReportGet`, `ReportPut` | `report_failure` of 197-204 and of 264-270, 311-316 |
| `HaCheck`, `HaStart` | 205-263: label `ha`, the host label read earlier, three tries |
| `Bind` | 271-316 |
| `DomainChange`, `Command`, `WriteResult`, `MoveHost`, `Remove` | the others |
| `Crash` | the close callback ends the process; it is started again without its events |

The history variable `lost` records that a push was lost (a conflict, the last
failed try, a migrating machine, an undefined domain, a crash) or that its state
was overwritten by a stale result of virtctl.

### EventLoopPoll

One thread is in `run_once` (`loop` is its next statement), the others and the
loop's own callbacks are in an operation (`pc`, `op`). One action per statement
that touches what they share; a walk over a list, which Python code may
interleave with appends, is one action at its end. Lists are sets. Handles and
timers are told apart by their opaque, which also stands for the file
descriptor; identifiers are computed as the code does, so that two may be equal.
`walks` says that the list that the timers' loop walks is still `self.timers`,
for then an appended timer is met by the walk. `instant` are the timers of
interval zero, `timed` says that `poll()` has a timeout, `changed` which lists
changed since the loop looked at them.

A clock is not modelled: a timer that waits may be due at any moment. The one
number that matters is zero. `next_timeout` returns 0 for "no timeout due", and
also for a timer of interval zero that was never fired (`BlankTimers`: due at
0 + 0, line 504); a timer after it in the list replaces a zero. So `NextTimeout`
may leave `timed` false when there is a blank timer, and a loop that is not timed
sleeps until a byte or input on a handle comes. Exceptions of callbacks are left
out, and EINTR too, since `poll()` retries it.

### HostReporter

Each host has its domains (`dom`; `cold` is defined and not started since the
host came up), the label `nodeHA`, the master in its kubeconfig and the masters
it can reach. Each followed reporter has a `pc` and the variables of `main`.

| Actions | Code |
|---|---|
| `Top`, `NextVm` | `main` 57-67: read of the node, list of the domains; `NodeStatusFails` is `HostCycler` in between (262-362), whose shell commands may end the turn |
| `CheckOwner`, `Backup`, `LookUp`, `DestroyVm`, `UndefineVm` | `_check_vm_by_hosting_node`; `OwnerMissed` is its bare `except` |
| `CheckHa`, `StartVm` | `_check_ha_and_autostart_vm` |
| `PowerGet`, `PowerRead`, `PowerPut` | `_check_vm_power_state`: its read of the domain is outside every `try`; after an API error that is not 404 it goes on without the object, which ends the turn if the domain exists |
| `ReportNode`, `EnableHa`, `CheckConn` | 68-73, 104-115, 165-166 |
| `FailedTurn`, `NextMaster` | the handler of `main` and `change_master_and_reload_config`: whether a failure counts as one of the network depends on its text, so that a refused request may or may not; an exception inside the handler ends the thread |
| `Restart`, `CrashHost`, `BootHost`, `Cut`, `Heal`, `DisableHa` | restarts, network, `kubevmm-adm` |
| `Failover`, `Migrate`, `Relabel` | the cluster and users: a VM with HA leaves a host that the cluster has lost, however few turns that took; a domain migrates and may leave its definition behind; the label `host` is changed |
| `ChangeDom`, `Push`, `Remove` | users and guests, libvirtwatcher |

The histories `missed` and `skipped` name the domains whose check was swallowed
in this or the last turn. `due` says that virtlet was started or a third turn in a
row failed since the last check began, and `moved` names the VMs that were moved
since then while no check was due. Nothing in the code looks at these again
before the next restart or outage: a host may keep the domain of a VM that was
given to another, and `ForeignGone` says so. The retries of one request are
inside its action.

### FileEvents

The observer thread (`queue`, `handler`, `alive`), the main thread's turn over
the pools (`scan`, `watched`), and what both look at: the VM's definition `def`
with a version, its object, the image files and their objects, the pools.

| Actions | Code |
|---|---|
| `Dispatch` | watchdog's dispatch and the guards of `on_moved`, `on_created`, `on_deleted`, `on_modified` |
| `VmXml`, `VmCreate` | 'Create' of a VM, 699-745; `Described` is the object of a definition, `Created` and `Gone` the helpers of `misc.py` 54-69 and 130-147 |
| `VmGet`, `VmRead`, `VmPut` | 'Modify' of a VM, 746-764: the read of the object is outside the `try` |
| `ImgXml`, `ImgCreate`, `ImgClear`, `ImgDelete` | the handler of image files |
| `ListPools`, `Filter`, `Unschedule`, `Schedule` | the loop of `main`, 1280-1312 |
| `ChangeVm`, `ChangeObj`, `ChangeImages`, `RenameImage`, `ChangePools`, `VirshplusEnds` | libvirt, other nodes, users, virshplus |
| `Crash` | virtlet is started again; the events of the time between are lost |

A refused call (an `ApiException` for four tries) is told from a call that does
not reach the server, which ends the observer thread where no handler catches it.

### Virshplus

What an operation leaves on the host or in the API server is a set of `facts`. An
operation is a record of the facts it needs, forbids, adds and removes, and of
those that decide whether the code performs it. A command is a `Queue` of
operations after the checks of `MayRun`; `Do` performs the next one, `Err` is its
failure (refused by the state, a fault without effect, a complaint on stderr with
effect, a refused report), after which `Rollback` gives the reverse queue, and
`Retry` the next of the three tries of `defaultPolicy.runCmd`.

virtctl starts a thread per event and takes no mutex, so any two commands run side
by side, also two of one object. Two such commands may undo each other's work: a
`create_vm` in its third try installs the domain between the `undefine` and the
deletion of the object; a `create_pool` defines the pool again that `delete_pool`
removes; an `unplug_nic` looks for the switch before the `plug_nic` beside it has
recorded it. No property of the code survives that, and none is claimed: the
history `crossed` names the threads whose command met another one of its object
(`Conflict`: the same object, or a creation or deletion of the VM beside any other
command of it), and the properties are about the steps of the others (`Alone`),
among whatever the crossed ones do or have done. `origin` keeps the facts a host
started with: `PortReleased` needs it to leave out a port that was bound before
with no record of its switch.

`Scenarios` are pairs of a host's facts and the commands that users post there.

### K8sHelper

Every caller is a process with a `pc` (the next request), the rounds of its
method and of the read in progress, and the body it has prepared. `Method` is a
record that says for each method of the class which requests it makes, what it
returns early on and what its body is. `fresh` abstracts the resourceVersion of
a copy to whether it is still that of the object. A request is carried out or
not, and answered or not (`ReadUnanswered`, `WriteUnanswered`). The histories
`took` and `trouble` record that the purpose of a call held at a moment of the
call, and how often the call was disturbed. `get_data` and `createAll` have the
control of `get` and `create`; the module has them and the run leaves them out.

### PidFile

A file name leads to an inode, locks belong to inodes. `Check`, `OpenPid`,
`WritePid` are `CDaemon.start` and `daemonize`: the command ends with the first fork
(1680), in `Check`, and what goes on is the daemon, which opens the file (1722)
when it gets there; so two starts that users type one after the other overlap.
`OpenLock`, `Lock`, `Truncate`, `Stamp`, `Return`, `Close`, `Remove` are the
decorator `singleton`; `Raise` is `load_kube_config`, which is outside the `try` of
the function (`virtctl.py:40`), so that the file is neither closed nor removed.
`AtExit` and `DelPid` are the exit handler; `StopRead`, `StopTerm`, `StopHup`,
`StopRemove` are `stop`; `Kill` may happen anywhere. `kind` is the program: virtctl
(pid file and lock in one file), virtlet (pid file) or a `*_in_docker` program
(lock).

Two races of the code are recorded instead of forbidden: `doubled`, a start that
found no file while the daemon of another had not opened its own yet, and
`robbed`, a removal (`RemoveFile`: 578, 1738, 1758, 1776, all by name) of the file
that another process had open.

## 3. Runs

| Run | Question | Bounds |
|---|---|---|
| `VirtctlSafety` | no command comes back (`NoReentry`), none is run by two lives (`RunInOneLife`), the whole implements `CommandLife` | 2 threads, 2 commands, 1 failing request, 1 closed watch, 1 crash, 1 domain change; event and update calls try once |
| `VirtctlLiveness` | one thread per command while the watch is open (`HandedOutOnce`), announcements are closed (`AnnouncedIsClosed`), a command leaves the object, Doing becomes Done | 2 threads, 1 command, 2 tries, 1 failing request, 1 closed watch |
| `VirtctlResultWritten` | violated: a result is dropped | 2 threads, 2 commands |
| `DomainEvents` | exclusion, pushes in order, `CaughtUp`; every event is handled; a stopped HA machine runs or is reported | 2 handlers, 2 domain changes, 1 write of others, 1 failing request, 1 crash |
| `EventLoop` | no lost wakeup, no freed handle is dispatched, a sleeping loop sees the news | 1 thread, the loop and its callbacks, 4 operations, of which the first two may be about timers |
| `EventLoopInstant` | violated: the loop sleeps without a timeout while a timer is due | 1 thread, 1 operation |
| `HostSafety` | `ForeignGone`, `StateNeverOlder`, `EnabledAfterCheck` | a reporter and a peer, 1 HA VM, 1 master; 1 fault, 1 cut, 1 crash or restart, 1 change or move |
| `HostLiveness` | a VM with HA runs again | the same with 2 masters and without faults |
| `FileEvents` | `ImagesAgree`, `ForeignKept`, `DefinitionNotOlder`, `PoolsWatched` | the VM, or 2 images, or 2 pools; 4 changes, 1 refused call, 1 unreachable, 1 restart |
| `Virshplus` | `DeletedLast`, `ReadyLast`, `PoolGone`, `FailedCreateStopped`, `PortReleased` | 2 threads, 3 commands of one of 8 mixes, which start on one or two hosts each, 1 fault, 1 complaint, 1 outage, 1 change by others |
| `K8sHelper` | `TookEffect`, `FailsOnlyWhenDisturbed`, `OneThingAtATime`, `CallEnds` | 2 calls of any methods, 2 rounds, 1 fault, 1 write of others |
| `PidFile` | `OneInstance`, `PidNamesDaemon`, `StopEnds` | 3 starts, 1 stop, each kind of program, 4 inodes, 1 kill |

The type invariants of VirtctlWatcher, DomainEvents, EventLoopPoll, K8sHelper and
PidFile are proved (section 4) and not repeated in the runs; the runs of the
other modules check theirs.

The limits in the properties are needed: TLC finds a counterexample when `Alone` is
replaced by `Threads` in any property of Virshplus, when `doubled` or `robbed` is
dropped from those of PidFile, and when `moved` is dropped from `ForeignGone`.

`FailedCreateStopped` allows one fault, the last one included, and `PoolGone` one
failure before the last. More break them: with two faults an installation over a
domain that runs undefined ends in a destroy that fails twice and is ignored
twice.

Why these bounds are enough to be of interest. Most properties are about a pair
of actors: two threads with the same or with different commands, a handler and a
writer, two commands on one host, two calls on one object, a start and a stop.
Two of each and one disturbance of each kind give every order of such a pair with
every disturbance; the counterexamples of the mutants all need no more. Tries are
reduced (nine, four and fifteen in the code, one to three in the runs) because
only two facts matter: whether there is a try left, and whether failures can
outnumber the tries; the runs have both. Four operations of the event loop let two
adds give equal identifiers, so that one remove takes both and an update or a
remove misses. The two masters of `HostLiveness` let the list wrap around; for the
safety of a turn it only counts whether the master is reached. Each mix of
Virshplus is a set of commands that act on the same facts, on the hosts where they
can succeed and where they cannot. A third start of PidFile lets one process be
between check and write while another ends, and with three processes alive a
new file always finds one of four inodes unused.

Fairness. virtctl: operating system threads are scheduled (`WF` of each thread's
next step), and `doWatch` loops for ever with a list call per turn (`WF` of
`Deliver` and `Reconnect`). libvirtwatcher: `run_loop` loops for ever (`WF` of
`Dispatch` for some handler), and threads that can run are scheduled; Python's
lock is not fair, but only finitely many events compete for it, so weak fairness
per handler suffices. Event loop: threads and the loop are scheduled; `poll()`
returns when its pipe has a byte or it was given a timeout (`WF` of `Wake` with
`pipe > 0 \/ timed`), and nothing is assumed of input on handles. Host reporter:
the thread loops for ever (`WF` of its turn), a host that is down comes up and a
network that is cut comes back.
File events: both threads loop for ever, and virshplus ends what it began.
K8sHelper and PidFile: a process goes on. No fairness is assumed of users,
failures or crashes, and none at all in Virshplus, which has safety properties
only.

What the liveness properties depend on: `LifecycleConsumed` is checked for one
failing request. With more, a thread may fail to delete the lifecycle and fail
to report it; the command then stays until the next watch. `RestartedOrReported`
assumes that there are no other writers and failing requests: the report itself
is dropped on a conflict. `HaVmRunsAgain` leaves out a thread that its own
handler ended, a VM that was deleted or given to another host, and one whose HA
check failed: the code tries no second time before the next check.

### Where code and comments disagree

`VirtctlResultWritten` is violated: `watcher.py:111` promises that a result with
a spec is written back; lines 308-310 drop it on a conflict and the command is
announced as done. The counterexample is two commands in a row.

`EventLoopInstant` is violated: `libvirt_event_handler.py:493-495` promises "the
absolute timestamp for the next timeout, or 0 if there is no timeout due". A timer
that is added with interval zero before the loop's first turn is due at 0, line 552
takes that for none, and line 560 sleeps with -1 although the timer is due; no byte
was written, since `interrupt` found `runningPoll` false. `SleepsInformed` and
`NewsIsSeen` are about all other news.

Others met while modelling; the models follow the code, and no run is spent on
them:

* `watcher.py:278-279` documents `{'spec':{}}` as the deletion of the object; the
  test on line 300 is false of the empty spec, and the delete cannot be reached.
* `libvirt_event_handler.py:161` logs "is migrating, just delete lifecycle", and
  line 162 raises, so that a failure is reported.
* `libvirt_event_handler.py:677` says of `remove_timer` "Stop firing the periodic
  timer"; the walk of 579-589 goes on over the old list and fires it. Line 610
  calls identifiers unique; 613-614 may give two threads the same. An item that is
  appended while another thread removes one is lost (674, 686). The properties of
  the event loop are checked and proved with all three.
* `os_event_handler.py:1291` deletes from the dictionary it iterates over: with a
  pool of other content every turn fails, and the pools that are gone (1292) and
  new (1302) are not looked at. `PoolsWatched` is about the other times.
* `os_event_handler.py:698`: a conflict is solved by `_solve_conflict_in_VM`, which
  cannot be reached, since `create_custom_object` swallows the exception.
* `misc.py:1743-1744` check "if the daemon already runs", but `start` returns at the
  first fork (1680) and the daemon writes the file later (1722): `start` twice gives
  two virtlet daemons; and an exit handler, a stop or an instance that ends may
  remove the file of another, whose lock then guards nothing (578, 1738, 1758, 1776).
  A kill between the truncation and the write leaves an empty file, and `int('')`
  then ends every start and stop.
* `misc.py:1318` decodes what `runCmdRaiseException` (737) returns, which is a `str`
  already: an `AttributeError` under Python 3, so that `merge_snapshot` and
  `revert_snapshot` never get to their commands. Lines 1225 and 1295 would skip the
  snapshot `s1` once `s10` is in the list: they test for a substring.
* `host_reporter.py:172-177`: an error of the API server that is not 404 is logged,
  and the code goes on with a name that was never assigned.
* `watcher.py:240` compares the name of a command with its command line, so that the
  mutexes of lines 44-52 are never taken.
* `k8s.py:390-391` returns without a write when the stored data *differ* from the
  new ones (`operator.eq(..) == 0`): existing data are never changed. `TookEffect`
  counts such a return for what it is.
* `virshplus.py` 626 removes the image of a failed `create_disk` and leaves its
  directory, so that the later tries are refused; 664 raises `KeyError` without
  `auto-start`, after the pool was made; `create_vmdi` and its relatives unpack one
  value into several names and always fail.

## 4. Theorems

All are proved for every value of the constants - any number of threads,
handlers, callers, processes, hosts, objects, commands, operations, tries,
failures and crashes - from the named assumptions of the modules only
(`CmdsAssumption`, `VirtctlAssumption`, `DomainAssumption`, `EventLoopAssumption`,
`ReporterAssumption`, `BoundsAssumption`, `RetryAssumption`, `HomeAssumption`,
`KindsAssumption`, `NoneAssumption`, `InodesAssumption`, `VirshplusAssumption`),
which say that bounds are numbers, that special values are special and, for
Virshplus, that users post the commands of `main()` on a host with any facts.

| Module | Theorem | Property |
|---|---|---|
| `VirtctlWatcher_proofs` | `TypeCorrect` | `TypeOK` |
| | `CommandNeverReenters` | `NoReentry` |
| | `CommandRunsInOneLife` | `RunInOneLife` |
| | `AnnouncementsAreClosed` | `AnnouncedIsClosed` |
| | `CommandHandedOutOnce` | `HandedOutOnce` |
| | `VirtctlImplementsCommandLife` | `ImplementsCommandLife`, the refinement |
| `DomainEvents_proofs` | `TypeCorrect` | `TypeOK` |
| | `HandlersExclude` | `OneInside` |
| | `PushesNeverStale` | `PushNeverStale` |
| | `HandlersCatchUp` | `CaughtUp` |
| `EventLoopPoll_proofs` | `TypeCorrect` | `TypeOK` |
| | `WakeupsAreNotLost` | `SleepsInformed` |
| | `HandlesDieAfterDispatch` | `HandleOpaqueAlive` |
| `HostReporter_proofs` | `TypeCorrect` | `TypeOK` |
| | `StatesNeverOlder` | `StateNeverOlder` |
| | `NothingForeignLeft` | `ForeignGone` |
| | `EnabledOnlyAfterCheck` | `EnabledAfterCheck` |
| `FileEvents_proofs` | `TypeCorrect` | `TypeOK` |
| | `DefinitionsNotOlder` | `DefinitionNotOlder` |
| | `ForeignObjectsKept` | `ForeignKept` |
| | `ImagesAgreeAtRest` | `ImagesAgree` |
| `Virshplus_proofs` | `TypeCorrect` | `TypeOK` |
| | `ObjectsDeletedLast` | `DeletedLast` |
| | `ReadyReportedLast` | `ReadyLast` |
| | `PoolsAreGone` | `PoolGone` |
| | `FailedCreatesStopped` | `FailedCreateStopped` |
| | `PortsAreReleased` | `PortReleased` |
| `K8sHelper_proofs` | `TypeCorrect` | `TypeOK` |
| | `ReturnedCallsTookEffect` | `TookEffect` |
| | `FailedCallsWereDisturbed` | `FailsOnlyWhenDisturbed` |
| | `WritesChangeOneThing` | `OneThingAtATime` |
| `PidFile_proofs` | `TypeCorrect` | `TypeOK` |
| | `OneInstanceAtMost` | `OneInstance` |
| | `PidFileNamesDaemon` | `PidNamesDaemon` |

The arguments:

* `NoReentry` (`HandoverInv`): every command in the object, in an event of the
  stream or with a thread was submitted before; a deleted object holds none; and
  a thread has a command exactly when it has left "idle". It is preserved because
  every body virtctl writes has its lifecycle removed, so only the client, which
  posts a command once, can put one into the object.
* `RunInOneLife` (`RunInv`): a command that was run was submitted and has left
  the object; one that was run by an earlier life is `Buried`: no event of the
  stream and no active thread has it, so no later thread can be given it.
* `ImplementsCommandLife`: a command that a thread runs has left the object, by
  `RunInv`; every request that changes the object is the post, the withdrawal or
  the end of the object, and the rest stutters.
* `HandedOutOnce` (`OncePlaced`): while the first watch stays open, a command is in
  one event of the stream or with one thread.
* `AnnouncedIsClosed` (`ClosedInv`): the failed tries of a thread are at most the
  failures so far, and a thread that has not announced its command, or is in the
  outer handler, has nothing to close.
* `PushNeverStale` (`OrderInv`): the version a handler has in hand is not newer
  than the object's, equal versions have equal contents, and at the push the
  state in that version is not newer than the state the handler saw; nothing is
  newer than the domain.
* `CaughtUp` (`CaughtInv`): unless something was lost, an object that is behind the
  domain has the news on its way: an event in the queue, a handler that has not
  yet looked at the domain, or one that is about to push the domain's state.
* `SleepsInformed`: `pendingWakeup` stands for a byte that is not consumed, or for
  a thread at the write (one more byte while the loop is about to read)
  (`WakeupInv`). A list that changed while the loop was on its way into `poll()`, or
  in it, has a thread in `interrupt()` or a byte beside it (`NewsInv`); if it did not
  change, the timeout is the one of the timers (`TimeoutFits`), except that a timer
  of interval zero that was never fired may count as none.
* `HandleOpaqueAlive`: a handle is registered, or about to be registered by
  exactly one thread, or gone; this holds even when two handles have the same
  identifier, because `poll.unregister` lets one thread only succeed. So what
  `poll()` watched was alive, and nothing is freed before the next iteration.
* `StateNeverOlder` (`Ages`): what is written of a host's domain is not newer than
  the domain, and while the object is still what the power check read, the state
  in it is not newer than the one about to be written.
* `ForeignGone` and `EnabledAfterCheck` (`HostInv`): a domain that belongs
  elsewhere, or one with HA that waits for its start, is in the history of the
  failed checks or still `Ahead` of the reporter: in the list of this turn, at a
  step before its end, or to be met by the turn that `ha_check` or a restart will
  bring. A check that is `due` will be made (`Standing`), so a VM that is moved then
  is `Ahead`, and one that is moved at any other time is in `moved`. For HA no such
  exception is needed: a domain waits for its start only after a crash of the host,
  and the reporter that comes up then meets all of these, whatever host their
  objects name meanwhile. Nothing is assumed of the time a turn or a failover takes.
* `DefinitionNotOlder` and `ForeignKept` (`Order`): what the handler holds was read
  before, and an accepted push is conditional on the version that was read.
* `ImagesAgree` (`Kept`): unless something was lost or refused, the last queued
  event about an image tells whether it has a file; without one, the handler in
  progress leaves the object so; without that, the object says so.
* Virshplus, the frame: the table of operations says which add and which drop a
  fact (`AddedBy`, `DroppedBy`, lemmas `Adders` and `Droppers`), and a fact is `Owned`
  by one or two kinds of resource. A thread of `Alone` has no other beside it whose
  command is in `Conflict` with its own (`Exclusion`): whoever is met by a command
  that begins becomes `crossed`, and so does that command (lemmas `PostMeets`,
  `WorkMeets`, `ExclusionKept`). So what such a thread has established stays until
  it acts itself (`ThreadCases`): the one lemma that all invariants below rest on.
* `DeletedLast` and `ReadyLast` (`Shape`, `Progress`): what is left of a queue is a
  suffix of it, in its order. Reports are at the end of a queue (`LastOps`), so a
  thread about to report has all the other operations of its queue behind it, and
  each of them has done what `Progress` says, or was tolerated: only `undefineVm`
  of a domain that is gone.
* `PoolGone` (`PoolTry`) counts what a failed try of `delete_pool` costs. It fails for
  free once, when the pool is not active; but its reverse queue starts the pool,
  and after that every failed try costs a fault or a complaint. Three tries
  therefore need two of them.
* `FailedCreateStopped` (`VmTry`) counts the same for the installation: it fails for
  free when there is a domain. A domain that is active when the reverse queue
  begins is destroyed, unless this destroy costs a fault; a domain that is neither
  active nor defined makes the next installation possible, and only a fault, or a
  complaint that leaves the domain defined, ends it.
* `PortReleased` (`PortKnown`, `PortFree`): while nothing failed by itself, a bound
  port's switch is on record, was bound before the behaviour without one
  (`Recorded` is false), or is the next thing to be recorded by some thread. No
  such thread runs beside an `unplug_nic` of `Alone`, so its lookup finds the
  switch, and `unbind-swport` is refused only when the port is free.
* K8sHelper: `Bodies` says that the body a caller is about to send serves its call
  and is that of the object if the write is accepted. On it rest `Effects` (a call
  that returned had its purpose true at some moment) and what a write may change.
  `Troubles` counts, round by round, that a round fails only when the caller was
  disturbed in it; a write of others disturbs exactly the callers that hold a copy.
* `OneInstance` and `PidNamesDaemon` (`FileInv`): whoever is past `lock` holds the lock
  of the inode it has opened (`Guards`), come what may. While nobody was robbed, that
  inode is the one the name leads to, for all who use the file (`Uses`); so two
  instances would hold one lock. While no start was one too many either, one
  daemon at most is between its check and the end of its function (`Single`), and
  so nobody else writes to the file of the one that runs.

Left to TLC, because liveness under fairness is out of this prover's reach:
`LifecycleConsumed`, `DoingBecomesDone`, `EventsHandled`, `RestartedOrReported`,
`NewsIsSeen`, `HaVmRunsAgain`, `PoolsWatched`, `CallEnds`, `StopEnds`. The two
violated runs are TLC's as well. Every other invariant and action property that a
run checks is stated by a theorem.

## 5. Not modelled

* virtmonitor reads counters and sets gauges; kubevmm-adm, device-passthrough,
  docker images, manifests and scripts are sequences of shell commands without a
  state of their own. Only the label `nodeHA` of kubevmm-adm's update matters to
  another component; `HostReporter` has it (`DisableHa`).
* The mapping of a lifecycle to a command line (`convertor.py`, the policies other
  than the retry loop of `runCmd`): text without a state. `VirtctlWatcher` has its
  outcomes, `Virshplus` the three tries. One lifecycle per object.
* Several objects: the daemons treat each object by itself; what they share
  (event loop, semaphore, lock, observer) is modelled for one domain or VM, where
  competition is strongest.
* Callbacks and handlers that only log: the other callbacks of
  `libvirt_event_handler.py`, and the handlers of volumes, snapshots and backups
  in `os_event_handler.py`.
* Snapshot chains (`misc.py` 1112-1460): `get_backing_file` raises at line 1318 for
  every file, so that `merge_snapshot` and `revert_snapshot` never compute a command;
  a model would be of a program that does not exist. Their callers
  (`virshplus.py` 1482-1494) are commented out.
* Commands of virshplus that unpack one value into several names fail before they
  touch anything; the code after that line cannot run.
* `Domain.get_rebase_backing_file_cmds`, `revert_disk`, `K8sHelper.list_node` and
  `replaceData`: nobody calls them.
* Contents of XML and JSON, numbers about nodes, log messages, metrics.
* Time: the 20 ms margin and the unit of the timeout of `poll()` (line 557).
* The wrappers of libvirt and of the network controller, apart from the calls that
  have an effect, which are actions of the module of the caller.

## 6. What could follow

The composition of virtctl, libvirtwatcher and virtlet on one `VmObject`, in which
`WriteResult`, `Push` and `PowerPut` become the actions of the module that makes
them: each module has the others' writes as actions of its own already, so that a
composition would show that these were chosen wide enough.
