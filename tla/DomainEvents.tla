---------------------------- MODULE DomainEvents ----------------------------
(***************************************************************************)
(* libvirtwatcher: the handlers of libvirt's domain events                 *)
(* (core/libvirtwatcher/services/libvirt_event_handler.py), for one domain *)
(* and its VirtualMachine object.                                          *)
(*                                                                         *)
(* The event loop's callback waits for a permit of a semaphore and starts  *)
(* one MyDomainEventHandler thread per event; the handlers take one lock,  *)
(* in any order.  Under the lock a handler reads the object, looks at the  *)
(* domain, pushes what it saw, and then starts a highly available domain   *)
(* that stopped, or binds the ports of one that started.                   *)
(*                                                                         *)
(* The states of the domain are numbered: vm is the current one, obj.spec  *)
(* the one the object describes.                                           *)
(***************************************************************************)
EXTENDS VmObject, Sequences

CONSTANTS
  Handlers,      \* the permits of the semaphore, one live handler each: 3
  Nobody,        \* the lock is free
  MigrateCmds,   \* the commands whose key is migrateVM
  HA,            \* the object has the label 'ha'
  UpdateTries,   \* tries of get_/update_custom_object: 4 in the code
  StartTries,    \* tries of a start by HA: 3 in the code
  MaxVm,         \* bound on the state changes of the domain by others
  MaxWrites,     \* bound on the writes of others to the object
  MaxFaults,     \* bound on the requests that fail
  MaxCrashes     \* bound on the crashes of libvirtwatcher

ASSUME DomainAssumption ==
  /\ Nobody \notin Handlers
  /\ MigrateCmds \subseteq Cmds
  /\ HA \in BOOLEAN
  /\ UpdateTries \in Nat \ {0} /\ StartTries \in Nat \ {0}
  /\ MaxVm \in Nat /\ MaxWrites \in Nat /\ MaxFaults \in Nat /\ MaxCrashes \in Nat

VARIABLES
  host,      \* the object's label 'host': this node or another one
  vm,        \* the number of state changes of the domain so far
  power,     \* whether the domain runs, is shut off, or is undefined
  queue,     \* the events the event loop has not dispatched yet
  holder,    \* the handler that holds the lock
  pc,        \* the next step of each handler
  event,     \* the event of each handler
  read,      \* jsondict: not assigned, None, or the object as read
  snap,      \* the object as the handler read it
  snapHost,  \* the label 'host' of that object
  seen,      \* the state of the domain the handler saw
  tries,     \* the failed tries of the current call
  writes,    \* the writes of others so far
  faults,    \* the requests that have failed
  crashes,   \* the crashes so far
  lost       \* history: a state was not pushed, or was overwritten

domainVars  == <<vm, power, queue>>
handlerVars == <<holder, pc, event, read, snap, snapHost, seen, tries>>
boundVars   == <<writes, faults, crashes>>
vars        == <<obj, host, domainVars, handlerVars, boundVars, lost>>

Labels == {"free", "wait", "get", "look", "put", "failGet", "failPut",
           "haCheck", "haStart", "bind", "lateGet", "latePut", "end"}

Event == [type : {"Started", "Stopped", "Undefined", "Other"}, migrated : BOOLEAN]

NoEvent == [type |-> "Other", migrated |-> FALSE]

\* The handler is inside the lock.
Inside(h) == pc[h] \notin {"free", "wait"}

Init ==
  /\ obj = InitVersion
  /\ host = "here"
  /\ vm = 0
  /\ power = "on"
  /\ queue = <<>>
  /\ holder = Nobody
  /\ pc = [h \in Handlers |-> "free"]
  /\ event = [h \in Handlers |-> NoEvent]
  /\ read = [h \in Handlers |-> "unassigned"]
  /\ snap = [h \in Handlers |-> InitVersion]
  /\ snapHost = [h \in Handlers |-> "here"]
  /\ seen = [h \in Handlers |-> 0]
  /\ tries = [h \in Handlers |-> 0]
  /\ writes = 0
  /\ faults = 0
  /\ crashes = 0
  /\ lost = FALSE

-----------------------------------------------------------------------------
(* Steps of a handler *)

Goto(h, label) ==
  /\ pc' = [pc EXCEPT ![h] = label]
  /\ tries' = [tries EXCEPT ![h] = 0]

\* The current try of a call that tries limit times is its last one.
LastTry(h, limit) == tries[h] + 1 >= limit

\* A request fails and is tried again; after the last try the handler goes on at
\* label.
FailedTry(h, limit, label) ==
  /\ faults < MaxFaults
  /\ faults' = faults + 1
  /\ IF LastTry(h, limit)
     THEN Goto(h, label)
     ELSE pc' = pc /\ tries' = [tries EXCEPT ![h] = @ + 1]

\* The lines after the push: a stop that is no migration may need a start by HA;
\* ports are bound after a start whose push was tried.
AfterPush(h, step1_done) ==
  CASE event[h].type = "Stopped" /\ ~event[h].migrated -> "haCheck"
    [] event[h].type = "Started" /\ step1_done         -> "bind"
    [] OTHER                                           -> "end"

\* The event loop calls myDomainEventCallback with the next event; the callback
\* takes a permit and starts a handler.
Dispatch(h) ==
  /\ queue # <<>>
  /\ pc[h] = "free"
  /\ queue' = Tail(queue)
  /\ event' = [event EXCEPT ![h] = Head(queue)]
  /\ Goto(h, "wait")
  /\ UNCHANGED <<obj, host, vm, power, holder, read, snap, snapHost, seen,
                 boundVars, lost>>

\* Mutants of Lock: the semaphore alone, without the lock; only starts and stops
\* are handled.
LockNot(h) ==
  /\ pc[h] = "wait"
  /\ holder' = h
  /\ read' = [read EXCEPT ![h] = "unassigned"]
  /\ IF event[h].type = "Undefined"
     THEN Goto(h, "end") /\ lost' = TRUE
     ELSE Goto(h, "get") /\ UNCHANGED lost
  /\ UNCHANGED <<obj, host, domainVars, event, snap, snapHost, seen, boundVars>>

LockStartsAndStops(h) ==
  /\ pc[h] = "wait"
  /\ holder = Nobody
  /\ holder' = h
  /\ read' = [read EXCEPT ![h] = "unassigned"]
  /\ IF event[h].type \notin {"Started", "Stopped"}
     THEN Goto(h, "end") /\ lost' = (lost \/ event[h].type = "Undefined")
     ELSE Goto(h, "get") /\ UNCHANGED lost
  /\ UNCHANGED <<obj, host, domainVars, event, snap, snapHost, seen, boundVars>>

\* The handler enters the lock.  The removal of a domain only moves its device
\* files away.
Lock(h) ==
  /\ pc[h] = "wait"
  /\ holder = Nobody
  /\ holder' = h
  /\ read' = [read EXCEPT ![h] = "unassigned"]
  /\ IF event[h].type = "Undefined"
     THEN Goto(h, "end") /\ lost' = TRUE
     ELSE Goto(h, "get") /\ UNCHANGED lost
  /\ UNCHANGED <<obj, host, domainVars, event, snap, snapHost, seen, boundVars>>

\* get_custom_object.  A missing object is not pushed to.  After the last
\* ApiException it returns None, which makes getCmdKey raise, and the failure is
\* reported; any other exception leaves jsondict unassigned, so that the report
\* raises as well.
GetObject(h) ==
  /\ pc[h] = "get"
  /\ \/ /\ obj.exists
        /\ read' = [read EXCEPT ![h] = "object"]
        /\ snap' = [snap EXCEPT ![h] = obj]
        /\ snapHost' = [snapHost EXCEPT ![h] = host]
        /\ Goto(h, "look")
        /\ UNCHANGED <<faults, lost>>
     \/ /\ ~obj.exists
        /\ Goto(h, AfterPush(h, FALSE))
        /\ UNCHANGED <<read, snap, snapHost, faults, lost>>
     \/ /\ FailedTry(h, UpdateTries, "failGet")
        /\ IF LastTry(h, UpdateTries)
           THEN read' = [read EXCEPT ![h] = "None"] /\ lost' = TRUE
           ELSE UNCHANGED <<read, lost>>
        /\ UNCHANGED <<snap, snapHost>>
     \/ /\ FailedTry(h, 1, AfterPush(h, FALSE))
        /\ lost' = TRUE
        /\ UNCHANGED <<read, snap, snapHost>>
  /\ UNCHANGED <<obj, host, domainVars, holder, event, seen, writes, crashes>>

Migrating(h) ==
  \/ snap[h].lifecycle \in MigrateCmds
  \/ event[h].migrated
  \/ snapHost[h] # "here"

\* The handler looks at the domain, which fails when it is undefined or libvirt
\* fails.  For a migrating VM spec.update(None) raises.
Look(h) ==
  /\ pc[h] = "look"
  /\ \/ /\ ~Migrating(h) /\ power # "undefined"
        /\ seen' = [seen EXCEPT ![h] = vm]
        /\ Goto(h, "put")
        /\ UNCHANGED <<faults, lost>>
     \/ /\ Migrating(h) \/ power = "undefined"
        /\ Goto(h, "failGet")
        /\ lost' = TRUE
        /\ UNCHANGED <<seen, faults>>
     \/ /\ FailedTry(h, 1, "failGet")
        /\ lost' = TRUE
        /\ UNCHANGED seen
  /\ UNCHANGED <<obj, host, domainVars, holder, event, read, snap, snapHost,
                 writes, crashes>>

\* The object o with what the handler saw of the domain instead of its command.
Described(o, spec) == [o EXCEPT !.lifecycle = None, !.spec = spec, !.status = "state"]

\* Mutant of PutObject: the body takes the resourceVersion of the current object,
\* so that there is no conflict.
PutObjectForced(h) ==
  LET body == [snap[h] EXCEPT !.lifecycle = None, !.spec = seen[h],
                              !.status = "state", !.rv = obj.rv]
      next == AfterPush(h, TRUE)
  IN
  /\ pc[h] = "put"
  /\ IF obj.exists
     THEN Store(body) /\ UNCHANGED lost
     ELSE lost' = TRUE /\ UNCHANGED obj
  /\ Goto(h, next)
  /\ UNCHANGED <<host, domainVars, holder, event, read, snap, snapHost, seen,
                 writes, faults, crashes>>

\* update_custom_object.  A conflict is retried with the same body, meets the
\* same conflict and is dropped; every other error is logged.  Whatever happens
\* step1_done becomes true.
PutObject(h) ==
  LET body == Described(snap[h], seen[h])
      next == AfterPush(h, TRUE)
  IN
  /\ pc[h] = "put"
  /\ \/ /\ Current(body) /\ Store(body)
        /\ Goto(h, next)
        /\ UNCHANGED <<faults, lost>>
     \/ /\ ~Current(body)
        /\ Goto(h, next)
        /\ lost' = TRUE
        /\ UNCHANGED <<obj, faults>>
     \/ /\ \E limit \in {1, UpdateTries} :
             /\ FailedTry(h, limit, next)
             /\ lost' = (lost \/ LastTry(h, limit))
        /\ UNCHANGED obj \/ (Current(body) /\ Store(body))
  /\ UNCHANGED <<host, domainVars, holder, event, read, snap, snapHost, seen,
                 writes, crashes>>

\* Where a handler goes on after report_failure.
AfterReport(h) ==
  IF pc[h] \in {"failGet", "failPut"} THEN AfterPush(h, FALSE) ELSE "end"

\* report_failure, the read; its exceptions are swallowed.
ReportGet(h) ==
  /\ pc[h] \in {"failGet", "lateGet"}
  /\ \/ /\ obj.exists
        /\ snap' = [snap EXCEPT ![h] = obj]
        /\ Goto(h, IF pc[h] = "failGet" THEN "failPut" ELSE "latePut")
        /\ UNCHANGED faults
     \/ /\ ~obj.exists
        /\ Goto(h, AfterReport(h))
        /\ UNCHANGED <<snap, faults>>
     \/ /\ \E limit \in {1, UpdateTries} : FailedTry(h, limit, AfterReport(h))
        /\ UNCHANGED snap
  /\ UNCHANGED <<obj, host, domainVars, holder, event, read, snapHost, seen,
                 writes, crashes, lost>>

\* report_failure, the write.
ReportPut(h) ==
  LET body == Failure(snap[h]) IN
  /\ pc[h] \in {"failPut", "latePut"}
  /\ \/ /\ Current(body) /\ Store(body)
        /\ Goto(h, AfterReport(h))
        /\ UNCHANGED faults
     \/ /\ ~Current(body)
        /\ Goto(h, AfterReport(h))
        /\ UNCHANGED <<obj, faults>>
     \/ /\ \E limit \in {1, UpdateTries} : FailedTry(h, limit, AfterReport(h))
        /\ UNCHANGED obj \/ (Current(body) /\ Store(body))
  /\ UNCHANGED <<host, domainVars, holder, event, read, snap, snapHost, seen,
                 writes, crashes, lost>>

\* A report needs jsondict, at least as None.
Report(h) == IF read[h] = "unassigned" THEN "end" ELSE "lateGet"

\* get_ha_from_kubernetes: a missing object is not highly available.
HaLabel == HA /\ obj.exists

\* A VM with the label 'ha' is started when the object read before the push says
\* it belongs to this node; the label 'ha' itself is read anew.
HaCheck(h) ==
  /\ pc[h] = "haCheck"
  /\ \/ /\ HaLabel
        /\ Goto(h, CASE read[h] # "object"     -> Report(h)
                     [] snapHost[h] = "here"   -> "haStart"
                     [] OTHER                  -> "end")
        /\ UNCHANGED faults
     \/ /\ ~HaLabel
        /\ Goto(h, "end")
        /\ UNCHANGED faults
     \/ \E limit \in {1, UpdateTries} : FailedTry(h, limit, Report(h))
  /\ UNCHANGED <<obj, host, domainVars, holder, event, read, snap, snapHost,
                 seen, writes, crashes, lost>>

\* Mutants of HaStart: the start is tried until it succeeds; the failure of the
\* last try is only logged.
HaStartForever(h) ==
  /\ pc[h] = "haStart"
  /\ \/ /\ power = "off"
        /\ power' = "on"
        /\ vm' = vm + 1
        /\ queue' = Append(queue, [type |-> "Started", migrated |-> FALSE])
        /\ Goto(h, "end")
     \/ UNCHANGED <<pc, tries, domainVars>>
  /\ UNCHANGED <<obj, host, holder, event, read, snap, snapHost, seen,
                 boundVars, lost>>

HaStartLogged(h) ==
  /\ pc[h] = "haStart"
  /\ \/ /\ power = "off"
        /\ power' = "on"
        /\ vm' = vm + 1
        /\ queue' = Append(queue, [type |-> "Started", migrated |-> FALSE])
        /\ Goto(h, "end")
     \/ /\ IF LastTry(h, StartTries)
           THEN Goto(h, "end")
           ELSE pc' = pc /\ tries' = [tries EXCEPT ![h] = @ + 1]
        /\ UNCHANGED domainVars
  /\ UNCHANGED <<obj, host, holder, event, read, snap, snapHost, seen,
                 boundVars, lost>>

\* A start fails when the domain is not shut off, or for libvirt's own reasons;
\* after the last try the failure is reported.
HaStart(h) ==
  /\ pc[h] = "haStart"
  /\ \/ /\ power = "off"
        /\ power' = "on"
        /\ vm' = vm + 1
        /\ queue' = Append(queue, [type |-> "Started", migrated |-> FALSE])
        /\ Goto(h, "end")
     \/ /\ IF LastTry(h, StartTries)
           THEN Goto(h, "lateGet")
           ELSE pc' = pc /\ tries' = [tries EXCEPT ![h] = @ + 1]
        /\ UNCHANGED domainVars
  /\ UNCHANGED <<obj, host, holder, event, read, snap, snapHost, seen,
                 boundVars, lost>>

\* The ports of a started domain are bound, or that fails.
Bind(h) ==
  /\ pc[h] = "bind"
  /\ Goto(h, "end") \/ Goto(h, "lateGet")
  /\ UNCHANGED <<obj, host, domainVars, holder, event, read, snap, snapHost,
                 seen, boundVars, lost>>

\* The finally clause: the lock and the permit are given back.
Release(h) ==
  /\ pc[h] = "end"
  /\ holder' = Nobody
  /\ Goto(h, "free")
  /\ event' = [event EXCEPT ![h] = NoEvent]
  /\ read' = [read EXCEPT ![h] = "unassigned"]
  /\ snap' = [snap EXCEPT ![h] = InitVersion]
  /\ snapHost' = [snapHost EXCEPT ![h] = "here"]
  /\ seen' = [seen EXCEPT ![h] = 0]
  /\ UNCHANGED <<obj, host, domainVars, boundVars, lost>>

HandlerStep(h) ==
  \/ Lock(h) \/ GetObject(h) \/ Look(h) \/ PutObject(h) \/ ReportGet(h)
  \/ ReportPut(h) \/ HaCheck(h) \/ HaStart(h) \/ Bind(h) \/ Release(h)

-----------------------------------------------------------------------------
(* Steps of the others *)

\* The domain changes state: a user, another node or the guest starts it, stops
\* it, undefines it, or does anything else that makes an event.
DomainChange(e) ==
  /\ vm < MaxVm
  /\ \/ e.type = "Started" /\ power = "off" /\ power' = "on"
     \/ e.type = "Stopped" /\ power = "on" /\ power' = "off"
     \/ e.type = "Undefined" /\ ~e.migrated /\ power = "off" /\ power' = "undefined"
     \/ e.type = "Other" /\ power # "undefined" /\ UNCHANGED power
  /\ vm' = vm + 1
  /\ queue' = Append(queue, e)
  /\ UNCHANGED <<obj, host, handlerVars, boundVars, lost>>

\* What every write of the others to the object has in common.
Write ==
  /\ writes < MaxWrites
  /\ obj.exists
  /\ writes' = writes + 1
  /\ UNCHANGED <<domainVars, handlerVars, faults, crashes>>

\* A user posts a command, or virtctl takes it out of the object.
Command ==
  /\ Write
  /\ \E c \in Cmds \cup {None} : Store([obj EXCEPT !.lifecycle = c])
  /\ UNCHANGED <<host, lost>>

\* virtctl writes a result back, which describes the domain as it was when the
\* command ended.
WriteResult ==
  /\ Write
  /\ \E s \in 0..vm :
       /\ Store([obj EXCEPT !.lifecycle = None, !.spec = s, !.status = "state"])
       /\ lost' = (lost \/ s < obj.spec)
  /\ UNCHANGED host

\* The VM is moved to another node, or back.
MoveHost ==
  /\ Write
  /\ host' = IF host = "here" THEN "there" ELSE "here"
  /\ Store(obj)
  /\ UNCHANGED lost

\* The object is deleted.
Remove ==
  /\ Write
  /\ Delete
  /\ UNCHANGED <<host, lost>>

\* The process ends, for one because the blocked event loop did not answer
\* libvirt's keepalive, and starts again; libvirt does not repeat events.
Crash ==
  /\ crashes < MaxCrashes
  /\ crashes' = crashes + 1
  /\ queue' = <<>>
  /\ holder' = Nobody
  /\ pc' = [h \in Handlers |-> "free"]
  /\ tries' = [h \in Handlers |-> 0]
  /\ event' = [h \in Handlers |-> NoEvent]
  /\ read' = [h \in Handlers |-> "unassigned"]
  /\ snap' = [h \in Handlers |-> InitVersion]
  /\ snapHost' = [h \in Handlers |-> "here"]
  /\ seen' = [h \in Handlers |-> 0]
  /\ lost' = TRUE
  /\ UNCHANGED <<obj, host, vm, power, writes, faults>>

Idle == queue = <<>> /\ \A h \in Handlers : pc[h] = "free"

\* Nothing to do until the next event.
Waiting == Idle /\ UNCHANGED vars

Next ==
  \/ \E h \in Handlers : Dispatch(h) \/ HandlerStep(h)
  \/ \E e \in Event : DomainChange(e)
  \/ Command
  \/ WriteResult
  \/ MoveHost
  \/ Remove
  \/ Crash
  \/ Waiting

\* The event loop runs for ever, and handler threads are scheduled; the lock is
\* not fair, but only finitely many events compete for it.
Fairness ==
  /\ WF_vars(\E h \in Handlers : Dispatch(h))
  /\ \A h \in Handlers : WF_vars(HandlerStep(h))

Spec == Init /\ [][Next]_vars

FairSpec == Spec /\ Fairness

-----------------------------------------------------------------------------
(* Properties *)

\* Every variable has its type.
TypeOK ==
  /\ obj \in Version
  /\ host \in {"here", "there"}
  /\ vm \in Nat
  /\ power \in {"on", "off", "undefined"}
  /\ queue \in Seq(Event)
  /\ holder \in Handlers \cup {Nobody}
  /\ pc \in [Handlers -> Labels]
  /\ event \in [Handlers -> Event]
  /\ read \in [Handlers -> {"unassigned", "None", "object"}]
  /\ snap \in [Handlers -> Version]
  /\ snapHost \in [Handlers -> {"here", "there"}]
  /\ seen \in [Handlers -> Nat]
  /\ tries \in [Handlers -> Nat]
  /\ writes \in Nat /\ faults \in Nat /\ crashes \in Nat
  /\ lost \in BOOLEAN

\* One handler at a time is between lock.acquire and lock.release, whichever way
\* the handlers before it ended.
OneInside == \A h \in Handlers : Inside(h) <=> holder = h

\* Although handlers run in any order, and others write the object meanwhile, a
\* push never replaces the description of a state of the domain by that of an
\* earlier state.
PushNeverStale ==
  [][\A h \in Handlers : PutObject(h) => obj'.spec >= obj.spec]_vars

\* When all events have been handled the object describes the current state of
\* the domain, unless a push was lost or its state overwritten.
CaughtUp == Idle /\ obj.exists /\ ~lost => obj.spec = vm

\* Every event is handled in the end, although the event loop waits for permits
\* and handlers wait for the lock.
EventsHandled == ~Idle ~> Idle

\* A highly available domain that stopped runs again or is reported to have
\* failed, unless its object is gone; other writers, failing requests and a crash
\* may prevent the report.
RestartedOrReported ==
  [](writes = 0 /\ faults = 0 /\ crashes = 0) =>
    \A h \in Handlers :
      HA /\ pc[h] = "wait" /\ event[h].type = "Stopped" /\ ~event[h].migrated ~>
        power = "on" \/ obj.status = "failure" \/ ~obj.exists
=============================================================================
