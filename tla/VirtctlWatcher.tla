--------------------------- MODULE VirtctlWatcher ---------------------------
(***************************************************************************)
(* virtctl: doWatch and the doExecutor threads it starts, one per watch    *)
(* event (core/virtctl/services/watcher.py).  A thread takes the command   *)
(* of its event, removes spec.lifecycle from the object, announces the     *)
(* command in a Kubernetes event, runs it, writes the result back and      *)
(* closes the Kubernetes event; every failure goes through report_failure  *)
(* (core/utils/misc.py).                                                   *)
(*                                                                         *)
(* One action per request to the API server and per command that is run.   *)
(* The mutexes of lines 44-52 are absent: _acquire_mutex_lock compares the *)
(* name of the command with the text of its command line, the two are      *)
(* never equal, and no mutex is ever taken.                                *)
(***************************************************************************)
EXTENDS VmObject, Sequences, FiniteSets

CONSTANTS
  Threads,       \* the doExecutor threads; each handles one event
  Unsupported,   \* the commands toCmds refuses
  EventTries,    \* tries of create_event and update_evet: 9 in the code
  UpdateTries,   \* tries of get_/update_custom_object: 4 in the code
  MaxVm,         \* bound on the state changes of the domain
  MaxFaults,     \* bound on the requests that fail
  MaxCloses,     \* bound on the times the watch is closed
  MaxLives       \* bound on the crashes of virtctl

ASSUME VirtctlAssumption ==
  /\ Unsupported \subseteq Cmds
  /\ EventTries \in Nat \ {0} /\ UpdateTries \in Nat \ {0}
  /\ MaxVm \in Nat /\ MaxFaults \in Nat /\ MaxCloses \in Nat /\ MaxLives \in Nat

VARIABLES
  stream,     \* the watch events doWatch has not read yet
  connected,  \* a list/watch call of doWatch is open
  vm,         \* the number of state changes of the libvirt domain so far
  pushes,     \* the domain events libvirtwatcher has pushed so far
  submitted,  \* the commands posted so far
  pc,         \* the next step of each thread
  cmd,        \* the command of each thread's event
  snap,       \* the object as the thread last read it
  data,       \* the result of the commands the thread ran
  notice,     \* the thread's Kubernetes event
  tries,      \* the failed tries of the current call
  faults,     \* the requests that have failed
  closes,     \* the times the watch was closed
  life,       \* the crashes of virtctl so far
  ranIn,      \* history: the lives of virtctl in which each command was run
  wrote       \* history: the threads whose result reached the object

watchVars  == <<stream, connected>>
threadVars == <<pc, cmd, snap, data, notice, tries, wrote>>
worldVars  == <<vm, pushes, submitted, closes, life, ranIn>>
vars       == <<obj, watchVars, threadVars, worldVars, faults>>

Labels == {"idle", "delGet", "delPut", "evCreate", "invoke", "query", "wrGet",
           "wrPut", "evDone", "failGet", "failPut", "evError", "outerGet",
           "outerPut", "done", "killed"}

\* The thread has got past delete_lifecycle_in_kubernetes (line 156).
Accepted == {"evCreate", "invoke", "query", "wrGet", "wrPut", "evDone",
             "failGet", "failPut", "evError"}

Event == [type : {"ADDED", "MODIFIED", "DELETED"}, lifecycle : Cmds \cup {None}]

Active(t) == pc[t] \notin {"idle", "done", "killed"}

NoData == [kind |-> "none", spec |-> 0]

Init ==
  /\ obj = InitVersion
  /\ stream = <<>>
  /\ connected = TRUE
  /\ vm = 0
  /\ pushes = 0
  /\ submitted = {}
  /\ pc = [t \in Threads |-> "idle"]
  /\ cmd = [t \in Threads |-> None]
  /\ snap = [t \in Threads |-> InitVersion]
  /\ data = [t \in Threads |-> NoData]
  /\ notice = [t \in Threads |-> "none"]
  /\ tries = [t \in Threads |-> 0]
  /\ faults = 0
  /\ closes = 0
  /\ life = 0
  /\ ranIn = [c \in Cmds |-> {}]
  /\ wrote = {}

-----------------------------------------------------------------------------
(* The watch *)

\* While a watch is open every new version of the object is sent, and a
\* deletion with the last version.  Conjoined to every write of the object.
Announce ==
  /\ stream' = IF ~connected \/ obj' = obj THEN stream
               ELSE Append(stream,
                      IF obj'.exists
                      THEN [type |-> "MODIFIED", lifecycle |-> obj'.lifecycle]
                      ELSE [type |-> "DELETED", lifecycle |-> obj.lifecycle])
  /\ UNCHANGED connected

\* The watch ends by its timeout or an error; what doWatch has not read is lost.
Disconnect ==
  /\ connected
  /\ closes < MaxCloses
  /\ closes' = closes + 1
  /\ connected' = FALSE
  /\ stream' = <<>>
  /\ UNCHANGED <<obj, threadVars, faults, vm, pushes, submitted, life, ranIn>>

\* Mutant of Reconnect: the new watch continues where the old one ended instead
\* of replaying the objects.
ReconnectWithoutReplay ==
  /\ ~connected
  /\ connected' = TRUE
  /\ stream' = <<>>
  /\ UNCHANGED <<obj, threadVars, worldVars, faults>>

\* The next turn of doWatch's loop opens a watch without a resourceVersion, so
\* the API server first replays the objects that exist now.
Reconnect ==
  /\ ~connected
  /\ connected' = TRUE
  /\ stream' = IF obj.exists
               THEN <<[type |-> "ADDED", lifecycle |-> obj.lifecycle]>>
               ELSE <<>>
  /\ UNCHANGED <<obj, threadVars, worldVars, faults>>

-----------------------------------------------------------------------------
(* Steps of a thread *)

\* The thread goes to label with a fresh count of tries.
Goto(t, label) ==
  /\ pc' = [pc EXCEPT ![t] = label]
  /\ tries' = [tries EXCEPT ![t] = 0]

\* Mutant of FailedTry: one try less.
FailedTryOneLess(t, limit, label) ==
  /\ faults < MaxFaults
  /\ faults' = faults + 1
  /\ IF tries[t] + 2 < limit
     THEN pc' = pc /\ tries' = [tries EXCEPT ![t] = @ + 1]
     ELSE Goto(t, label)

\* A request fails and its caller tries again, up to limit times; after the
\* last try it goes on at label.
FailedTry(t, limit, label) ==
  /\ faults < MaxFaults
  /\ faults' = faults + 1
  /\ IF tries[t] + 1 < limit
     THEN pc' = pc /\ tries' = [tries EXCEPT ![t] = @ + 1]
     ELSE Goto(t, label)

\* A request fails and the caller gives up at once.
FailedCall(t, label) == FailedTry(t, 1, label)

\* Mutants of HasCommand: without the test for deletions; without the objects
\* that a new watch replays.
HasCommandOrDeleted(event) == event.lifecycle \notin Unsupported \cup {None}

HasModified(event) ==
  event.type = "MODIFIED" /\ event.lifecycle \notin Unsupported \cup {None}

\* The events doExecutor acts on: no deletion, no object without lifecycle, and
\* no command that toCmds refuses (it raises outside the try of doExecutor,
\* which ends the thread).
HasCommand(event) ==
  event.type # "DELETED" /\ event.lifecycle \notin Unsupported \cup {None}

Read(t) == snap' = [snap EXCEPT ![t] = obj]

Forget(t) == snap' = [snap EXCEPT ![t] = InitVersion]

\* doWatch reads the next event and starts a thread for it; a thread without a
\* command ends at once.
Deliver(t) ==
  /\ stream # <<>>
  /\ pc[t] = "idle"
  /\ stream' = Tail(stream)
  /\ IF HasCommand(Head(stream))
     THEN /\ Goto(t, "delGet")
          /\ cmd' = [cmd EXCEPT ![t] = Head(stream).lifecycle]
          /\ UNCHANGED <<snap, data, notice, wrote>>
     ELSE UNCHANGED threadVars
  /\ UNCHANGED <<obj, connected, worldVars, faults>>

\* Mutant of DelGet: a failed read is taken for a deleted object.
DelGetSwallowed(t) ==
  /\ pc[t] = "delGet"
  /\ \/ /\ obj.exists
        /\ Read(t)
        /\ Goto(t, "delPut")
        /\ UNCHANGED faults
     \/ /\ ~obj.exists
        /\ Goto(t, "evCreate")
        /\ UNCHANGED <<snap, faults>>
     \/ FailedCall(t, "evCreate") /\ UNCHANGED snap
  /\ UNCHANGED <<obj, watchVars, cmd, data, notice, wrote, worldVars>>

\* delete_lifecycle_in_kubernetes, the read: a deleted object is no error.
DelGet(t) ==
  /\ pc[t] = "delGet"
  /\ \/ /\ obj.exists
        /\ Read(t)
        /\ Goto(t, "delPut")
        /\ UNCHANGED faults
     \/ /\ ~obj.exists
        /\ Goto(t, "evCreate")
        /\ UNCHANGED <<snap, faults>>
     \/ FailedCall(t, "outerGet") /\ UNCHANGED snap
  /\ UNCHANGED <<obj, watchVars, cmd, data, notice, wrote, worldVars>>

\* Mutant of DelPut: a failed write is ignored, the way write_result_to_kubernetes
\* ignores a conflict.
DelPutIgnored(t) ==
  LET body == [snap[t] EXCEPT !.lifecycle = None] IN
  /\ pc[t] = "delPut"
  /\ \/ Replace(body) /\ Goto(t, "evCreate") /\ UNCHANGED faults
     \/ ~Current(body) /\ Goto(t, "outerGet") /\ UNCHANGED <<obj, faults>>
     \/ FailedCall(t, "evCreate") /\ UNCHANGED obj
  /\ Announce
  /\ Forget(t)
  /\ UNCHANGED <<cmd, data, notice, wrote, worldVars>>

\* delete_lifecycle_in_kubernetes, the write: any error, a conflict included,
\* becomes an InternalServerError that doExecutor's outer handler reports.  A
\* failed request may have been carried out.
DelPut(t) ==
  LET body == [snap[t] EXCEPT !.lifecycle = None] IN
  /\ pc[t] = "delPut"
  /\ \/ Replace(body) /\ Goto(t, "evCreate") /\ UNCHANGED faults
     \/ ~Current(body) /\ Goto(t, "outerGet") /\ UNCHANGED <<obj, faults>>
     \/ /\ FailedCall(t, "outerGet")
        /\ UNCHANGED obj \/ Replace(body)
  /\ Announce
  /\ Forget(t)
  /\ UNCHANGED <<cmd, data, notice, wrote, worldVars>>

\* The Kubernetes event of the command now says state: registering it and updating
\* it are the same PUT of an event of that name.
SetNotice(t, state) == notice' = [notice EXCEPT ![t] = state]

\* create_event(Doing, Normal): the request is a PUT of a named event, so a try
\* that failed after it was carried out does no harm.  When all tries fail the
\* exception has a reason and no message, and the outer handler fails on it.
EvCreate(t) ==
  /\ pc[t] = "evCreate"
  /\ \/ /\ SetNotice(t, "Doing")
        /\ Goto(t, "invoke")
        /\ UNCHANGED faults
     \/ /\ FailedTry(t, EventTries, "done")
        /\ \/ SetNotice(t, "Doing")
           \/ UNCHANGED notice
  /\ UNCHANGED <<obj, watchVars, cmd, snap, data, wrote, worldVars>>

\* The invoke command: whether it succeeds or is given up after its retries,
\* the domain may have changed state.
Invoke(t) ==
  /\ pc[t] = "invoke"
  /\ \/ Goto(t, "query")
     \/ Goto(t, "failGet")
  /\ vm' \in {vm, vm + 1} \cap 0..MaxVm
  /\ ranIn' = [ranIn EXCEPT ![cmd[t]] = @ \cup {life}]
  /\ UNCHANGED <<obj, watchVars, cmd, snap, data, notice, wrote, faults,
                 pushes, submitted, closes, life>>

\* The query command describes the domain as it is now.  Other commands print
\* nothing to write back, or the empty spec.
Query(t) ==
  /\ pc[t] = "query"
  /\ \/ /\ \E kind \in {"none", "empty", "spec"} :
             data' = [data EXCEPT ![t] =
               [kind |-> kind, spec |-> IF kind = "spec" THEN vm ELSE 0]]
        /\ Goto(t, "wrGet")
     \/ /\ Goto(t, "failGet")
        /\ UNCHANGED data
  /\ UNCHANGED <<obj, watchVars, cmd, snap, notice, wrote, worldVars, faults>>

\* write_result_to_kubernetes, the read.  The test data.get('spec') is false of
\* the empty spec too, so only a non-empty spec goes on to a write.
WrGet(t) ==
  /\ pc[t] = "wrGet"
  /\ \/ /\ obj.exists /\ data[t].kind = "spec"
        /\ Read(t)
        /\ Goto(t, "wrPut")
        /\ UNCHANGED faults
     \/ /\ ~(obj.exists /\ data[t].kind = "spec")
        /\ Goto(t, "evDone")
        /\ UNCHANGED <<snap, faults>>
     \/ FailedCall(t, "failGet") /\ UNCHANGED snap
  /\ UNCHANGED <<obj, watchVars, cmd, data, notice, wrote, worldVars>>

\* write_result_to_kubernetes, the write: the whole spec is replaced, and a
\* conflict is ignored.  Other errors are reported as a failure.
WrPut(t) ==
  LET body == [snap[t] EXCEPT !.lifecycle = None, !.spec = data[t].spec,
                              !.status = "state"]
  IN
  /\ pc[t] = "wrPut"
  /\ \/ /\ Replace(body)
        /\ wrote' = wrote \cup {t}
        /\ Goto(t, "evDone")
        /\ UNCHANGED faults
     \/ /\ ~Current(body)
        /\ Goto(t, IF obj.exists THEN "evDone" ELSE "failGet")
        /\ UNCHANGED <<obj, wrote, faults>>
     \/ /\ FailedCall(t, "failGet")
        /\ \/ UNCHANGED <<obj, wrote>>
           \/ Replace(body) /\ wrote' = wrote \cup {t}
  /\ Announce
  /\ Forget(t)
  /\ UNCHANGED <<cmd, data, notice, worldVars>>

\* update_evet(Done, Normal).  When all tries fail the inner handler takes
\* over: it cannot report the exception, and closes the event as an error.
EvDone(t) ==
  /\ pc[t] = "evDone"
  /\ \/ /\ SetNotice(t, "DoneNormal")
        /\ Goto(t, "done")
        /\ UNCHANGED faults
     \/ /\ FailedTry(t, EventTries, "evError")
        /\ \/ SetNotice(t, "DoneNormal")
           \/ UNCHANGED notice
  /\ UNCHANGED <<obj, watchVars, cmd, snap, data, wrote, worldVars>>

\* update_evet(Done, Error).
EvError(t) ==
  /\ pc[t] = "evError"
  /\ \/ /\ SetNotice(t, "DoneError")
        /\ Goto(t, "done")
        /\ UNCHANGED faults
     \/ /\ FailedTry(t, EventTries, "done")
        /\ \/ SetNotice(t, "DoneError")
           \/ UNCHANGED notice
  /\ UNCHANGED <<obj, watchVars, cmd, snap, data, wrote, worldVars>>

\* Mutant of AfterReport: the inner handler does not close the Kubernetes event.
AfterReportDone(t) == "done"

\* Where a thread goes on after report_failure: the inner handler closes the
\* Kubernetes event, the outer one ends the thread.
AfterReport(t) == IF pc[t] \in {"failGet", "failPut"} THEN "evError" ELSE "done"

\* report_failure, the read.  An ApiException is retried, any other exception
\* is raised at once; both end in the handler that called report_failure.
ReportGet(t) ==
  /\ pc[t] \in {"failGet", "outerGet"}
  /\ \/ /\ obj.exists
        /\ Read(t)
        /\ Goto(t, IF pc[t] = "failGet" THEN "failPut" ELSE "outerPut")
        /\ UNCHANGED faults
     \/ /\ ~obj.exists
        /\ Goto(t, AfterReport(t))
        /\ UNCHANGED <<snap, faults>>
     \/ /\ \E limit \in {1, UpdateTries} : FailedTry(t, limit, AfterReport(t))
        /\ UNCHANGED snap
  /\ UNCHANGED <<obj, watchVars, cmd, data, notice, wrote, worldVars>>

\* Mutant of ReportPut: the body is written whatever the object is by now, and
\* with the lifecycle that was read.
ReportPutForced(t) ==
  LET body == [snap[t] EXCEPT !.status = "failure"] IN
  /\ pc[t] \in {"failPut", "outerPut"}
  /\ obj.exists
  /\ Store(body)
  /\ Goto(t, AfterReport(t)) /\ Forget(t)
  /\ UNCHANGED faults
  /\ Announce
  /\ UNCHANGED <<cmd, data, notice, wrote, worldVars>>

\* report_failure, the write.  A conflict is retried with the same body, meets
\* the same conflict each time and is then dropped without an exception.
ReportPut(t) ==
  LET body == Failure(snap[t]) IN
  /\ pc[t] \in {"failPut", "outerPut"}
  /\ \/ /\ Current(body)
        /\ Store(body)
        /\ Goto(t, AfterReport(t)) /\ Forget(t)
        /\ UNCHANGED faults
     \/ /\ ~Current(body)
        /\ Goto(t, AfterReport(t)) /\ Forget(t)
        /\ UNCHANGED <<obj, faults>>
     \/ /\ \E limit \in {1, UpdateTries} : FailedTry(t, limit, AfterReport(t))
        /\ UNCHANGED obj \/ (Current(body) /\ Store(body))
        /\ UNCHANGED snap
  /\ Announce
  /\ UNCHANGED <<cmd, data, notice, wrote, worldVars>>

ThreadStep(t) ==
  \/ DelGet(t) \/ DelPut(t) \/ EvCreate(t) \/ Invoke(t) \/ Query(t)
  \/ WrGet(t) \/ WrPut(t) \/ EvDone(t) \/ EvError(t)
  \/ ReportGet(t) \/ ReportPut(t)

-----------------------------------------------------------------------------
(* Steps of the others *)

\* A user posts a command: SDK get and update in one step.
Submit(c) ==
  /\ obj.exists
  /\ c \notin submitted
  /\ submitted' = submitted \cup {c}
  /\ Store([obj EXCEPT !.lifecycle = c])
  /\ Announce
  /\ UNCHANGED <<threadVars, faults, vm, pushes, closes, life, ranIn>>

\* A user, or the delete_vm command, deletes the object.
Remove == Delete /\ Announce /\ UNCHANGED <<threadVars, worldVars, faults>>

\* The domain changes state by itself (guest shutdown, crash, ...).
VmChange ==
  /\ vm < MaxVm
  /\ vm' = vm + 1
  /\ UNCHANGED <<obj, watchVars, threadVars, faults, pushes, submitted, closes,
                 life, ranIn>>

\* libvirtwatcher's handler of a domain event pushes a state of the domain and
\* removes spec.lifecycle; a push built from an older version is refused.
Push ==
  /\ pushes < vm
  /\ pushes' = pushes + 1
  /\ obj.exists
  /\ \E seen \in 0..vm :
       Store([obj EXCEPT !.lifecycle = None, !.spec = seen, !.status = "state"])
  /\ Announce
  /\ UNCHANGED <<threadVars, faults, vm, submitted, closes, life, ranIn>>

\* The virtctl process dies with its daemon threads and its watch.
Crash ==
  /\ life < MaxLives
  /\ life' = life + 1
  /\ pc' = [t \in Threads |-> IF Active(t) THEN "killed" ELSE pc[t]]
  /\ connected' = FALSE
  /\ stream' = <<>>
  /\ UNCHANGED <<obj, cmd, snap, data, notice, tries, wrote, faults, vm,
                 pushes, submitted, closes, ranIn>>

\* Nothing is under way and no event is waiting for a thread: virtctl blocks in
\* the watch until the next request.
Waiting ==
  /\ \A t \in Threads : ~Active(t)
  /\ stream = <<>> \/ \A t \in Threads : pc[t] # "idle"
  /\ UNCHANGED vars

Next ==
  \/ \E t \in Threads : Deliver(t) \/ ThreadStep(t)
  \/ \E c \in Cmds : Submit(c)
  \/ Remove
  \/ VmChange
  \/ Push
  \/ Disconnect
  \/ Reconnect
  \/ Crash
  \/ Waiting

\* Threads are scheduled by the operating system, and doWatch's loop reads the
\* stream and reopens the watch for ever.
Fairness ==
  /\ WF_vars(\E t \in Threads : Deliver(t))
  /\ \A t \in Threads : WF_vars(ThreadStep(t))
  /\ WF_vars(Reconnect)

Spec == Init /\ [][Next]_vars

FairSpec == Spec /\ Fairness

-----------------------------------------------------------------------------
(* Properties *)

\* Every variable has its type.
TypeOK ==
  /\ obj \in Version
  /\ stream \in Seq(Event)
  /\ connected \in BOOLEAN
  /\ vm \in Nat /\ pushes \in Nat
  /\ submitted \subseteq Cmds
  /\ pc \in [Threads -> Labels]
  /\ cmd \in [Threads -> Cmds \cup {None}]
  /\ snap \in [Threads -> Version]
  /\ data \in [Threads -> [kind : {"none", "empty", "spec"}, spec : Nat]]
  /\ notice \in [Threads -> {"none", "Doing", "DoneNormal", "DoneError"}]
  /\ tries \in [Threads -> Nat]
  /\ faults \in Nat /\ closes \in Nat /\ life \in Nat
  /\ ranIn \in [Cmds -> SUBSET Nat]
  /\ wrote \subseteq Threads

\* What delete_lifecycle_in_kubernetes is for (watcher.py:334): once a thread
\* has got past it, the thread's command is not in the object, and no later
\* write of anybody, nor a replay of the object, can present it again.
NoReentry ==
  \A t \in Threads :
    pc[t] \in Accepted \/ notice[t] # "none" => obj.lifecycle # cmd[t]

\* A crash of virtctl never makes it run a command again: a command is run by
\* one life of the process only, whatever the new watch replays.
RunInOneLife == \A c \in Cmds : Cardinality(ranIn[c]) <= 1

\* While virtctl lives and its watch stays open, a command is handed to one
\* thread only: no write makes the stream repeat a command, and the deletion of
\* the object does not hand it out again.
HandedOutOnce ==
  closes = 0 /\ life = 0 =>
    \A t, u \in Threads : cmd[t] = cmd[u] /\ cmd[t] # None => t = u

\* A thread that announced its command closes the announcement before it ends,
\* as long as the API server fails less often than the event calls are tried.
AnnouncedIsClosed ==
  MaxFaults < EventTries =>
    \A t \in Threads : pc[t] = "done" => notice[t] # "Doing"

\* watcher.py:111: a result that contains a spec is written back to Kubernetes,
\* so it reached the object of every command that ended normally with one.
ResultWritten ==
  \A t \in Threads :
    data[t].kind = "spec" /\ notice[t] = "DoneNormal" /\ obj.exists =>
      t \in wrote

\* The refinement: the object's lifecycle is the pending command, and what the
\* threads, the watch, libvirtwatcher and crashes do is invisible but for the
\* moments when a command leaves the object and when it is run.
Life == INSTANCE CommandLife
          WITH posted <- submitted, pending <- obj.lifecycle, runs <- ranIn,
               Lives <- 0..MaxLives

\* virtctl keeps the promises of CommandLife: over all interleavings of its
\* threads, replays of the watch and crashes (watcher.py:136-265), a command
\* that has left the object never comes back, none is run while it is still in
\* the object, and none is run by a second life of the process.
ImplementsCommandLife == Life!Spec

\* A supported command does not stay in the object for ever.
LifecycleConsumed ==
  \A c \in Cmds \ Unsupported : obj.lifecycle = c ~> obj.lifecycle # c

\* A command that was announced as Doing is announced as Done.
DoingBecomesDone ==
  \A t \in Threads :
    notice[t] = "Doing" ~> notice[t] \in {"DoneNormal", "DoneError"}
=============================================================================
