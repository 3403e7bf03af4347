---------------------------- MODULE EventLoopPoll ----------------------------
(***************************************************************************)
(* libvirtwatcher: virEventLoopPoll, the event loop that libvirt's client  *)
(* library uses in every thread of the process                             *)
(* (core/libvirtwatcher/services/libvirt_event_handler.py).                *)
(*                                                                         *)
(* One thread runs run_once for ever; it and the others add, update and    *)
(* remove handles and timers without any lock, and wake the loop with a    *)
(* byte in a pipe.  One action per statement that reads or writes what the *)
(* threads share.                                                          *)
(*                                                                         *)
(* A handle or timer is identified by its opaque, numbered in the order of *)
(* the calls, which also stands for the file descriptor of a handle; its   *)
(* id is what the loop returns for it.  Lists are sets: nothing depends on *)
(* their order but which of two equal ids is found first.                  *)
(***************************************************************************)
EXTENDS Integers

CONSTANTS
  Threads,     \* the threads that use libvirt
  LoopThread,  \* the thread that runs the loop
  MaxOps,      \* bound on the calls of the six operations
  MaxTimerOps  \* bound: the first calls, which alone may be about timers

ASSUME EventLoopAssumption ==
  LoopThread \notin Threads /\ {MaxOps, MaxTimerOps} \subseteq Nat

VARIABLES
  items,          \* self.handles and self.timers
  next,           \* self.nextHandleID and self.nextTimerID
  registered,     \* the handles that self.poll knows
  enabled,        \* the timers whose interval is not negative
  instant,        \* those whose interval is zero
  cleanup,        \* self.cleanup
  runningPoll,    \* self.runningPoll
  pendingWakeup,  \* self.pendingWakeup
  pipe,           \* the bytes in the self pipe
  changed,        \* the lists changed since the loop on its way to, or in
                  \* poll() looked at them (history)
  loop,           \* the next step of run_once
  timed,          \* poll() has a timeout: next_timeout did not return zero
  polled,         \* the handles this poll() watches
  events,         \* the handles with input that are not dispatched yet
  todo,           \* the timers of the list run_once walks that are to come
  walks,          \* that list is still self.timers
  current,        \* the handle or timer whose callback runs
  fired,          \* the timers that were fired once: lastfired is not zero
  freed,          \* the opaques that were freed
  pc,             \* the next step of the operation of each thread
  op,             \* its arguments and local variables
  copy,           \* the new list that remove builds
  owned,          \* the handles and timers libvirt may update and remove
  ops             \* the calls so far

listVars  == <<items, next, registered, enabled, instant, cleanup>>
wakeVars  == <<runningPoll, pendingWakeup, pipe, changed>>
walkVars  == <<events, todo, walks, current, fired>>
loopVars  == <<loop, timed, polled, walkVars, freed>>
opVars    == <<pc, op, copy, owned, ops>>
vars      == <<listVars, wakeVars, loopVars, opVars>>

Workers == Threads \cup {LoopThread}
Kinds   == {"handle", "timer"}
Item    == [id : Nat, opaque : Nat]
Ref     == [kind : Kinds, opaque : Nat]
Op      == [name : {"none", "add", "update", "remove"}, kind : Kinds, id : Nat,
            opaque : Nat, target : Nat]

NoOp   == [name |-> "none", kind |-> "handle", id |-> 0, opaque |-> 0, target |-> 0]
NoCall == [kind |-> "handle", opaque |-> 0]

\* An operation has changed something and has not finished interrupt() yet.
Interrupting == {"running", "pending", "set", "write"}
Labels       == Interrupting \cup {"idle", "bump", "append", "register", "update",
                                   "remove", "store"}
LoopLabels   == {"start", "free", "clear", "timeout", "poll", "sleep", "reset",
                 "read", "handles", "timers", "call"}

Opaques(list) == {i.opaque : i \in list}

Refs(k, opaques) == {[kind |-> k, opaque |-> o] : o \in opaques}

\* The timers of self.timers with an interval.
EnabledTimers == Opaques(items["timer"]) \cap enabled

\* Those that are due at time zero, which next_timeout takes for "no timer".
BlankTimers == (EnabledTimers \cap instant) \ fired

Init ==
  /\ items = [k \in Kinds |-> {}]
  /\ next = [k \in Kinds |-> 1]
  /\ registered = {} /\ enabled = {} /\ instant = {} /\ cleanup = {}
  /\ runningPoll = FALSE /\ pendingWakeup = FALSE /\ pipe = 0
  /\ changed = {}
  /\ loop = "start" /\ timed = FALSE /\ polled = {}
  /\ events = {} /\ todo = {} /\ walks = FALSE /\ current = NoCall
  /\ fired = {} /\ freed = {}
  /\ pc = [w \in Workers |-> "idle"]
  /\ op = [w \in Workers |-> NoOp]
  /\ copy = [w \in Workers |-> {}]
  /\ owned = [k \in Kinds |-> {}]
  /\ ops = 0

-----------------------------------------------------------------------------
(* The operations *)

Goto(w, label) == pc' = [pc EXCEPT ![w] = label]

\* The operation of w returns, or raises.  libvirt may use what was added or
\* updated from then on.
Return(w) ==
  LET k    == op[w].kind
      item == [id |-> op[w].id, opaque |-> op[w].opaque]
  IN
  /\ Goto(w, "idle")
  /\ op' = [op EXCEPT ![w] = NoOp]
  /\ copy' = [copy EXCEPT ![w] = {}]
  /\ IF op[w].name = "remove"
     THEN UNCHANGED owned
     ELSE owned' = [owned EXCEPT ![k] = @ \cup {item}]
  /\ UNCHANGED ops

\* libvirt calls an operation: in one of its threads, or in a callback.
Begin(w, label, call) ==
  /\ pc[w] = "idle"
  /\ w = LoopThread => loop = "call"
  /\ ops < MaxOps
  /\ call.kind = "timer" => ops < MaxTimerOps
  /\ ops' = ops + 1
  /\ Goto(w, label)
  /\ op' = [op EXCEPT ![w] = call]
  /\ UNCHANGED copy

\* add_handle and add_timer read the counter ...
Add(w, k) ==
  /\ Begin(w, "bump", [name |-> "add", kind |-> k, id |-> next[k] + 1,
                       opaque |-> ops + 1, target |-> ops + 1])
  /\ UNCHANGED <<owned, listVars, wakeVars, loopVars>>

\* ... and increase it in a second statement.
Bump(w) ==
  /\ pc[w] = "bump"
  /\ next' = [next EXCEPT ![op[w].kind] = @ + 1]
  /\ Goto(w, "append")
  /\ UNCHANGED <<items, registered, enabled, instant, cleanup, wakeVars, loopVars,
                 op, copy, owned, ops>>

\* The list k is no longer what next_timeout has looked at or poll() watches.
Touch(k) == changed' = changed \cup {i \in {k} : loop \in {"poll", "sleep"}}

\* A timer gets an interval, which is negative, zero or more.
SetInterval(o) ==
  \/ enabled' = enabled \ {o} /\ instant' = instant \ {o}
  \/ enabled' = enabled \cup {o} /\ instant' = instant \cup {o}
  \/ enabled' = enabled \cup {o} /\ instant' = instant \ {o}

\* The item joins the list, which run_once may be walking.
AppendItem(w) ==
  LET k    == op[w].kind
      item == [id |-> op[w].id, opaque |-> op[w].opaque]
  IN
  /\ pc[w] = "append"
  /\ items' = [items EXCEPT ![k] = @ \cup {item}]
  /\ IF k = "timer"
     THEN /\ SetInterval(item.opaque)
          /\ todo' = IF walks THEN todo \cup {item} ELSE todo
          /\ Touch(k)
          /\ Goto(w, "running")
     ELSE /\ Goto(w, "register")
          /\ UNCHANGED <<enabled, instant, todo, changed>>
  /\ UNCHANGED <<next, registered, cleanup, runningPoll, pendingWakeup, pipe,
                 loop, timed, polled, events, walks, current, fired, freed, op,
                 copy, owned, ops>>

\* poll.register, of add_handle and of update_handle.
Register(w) ==
  /\ pc[w] = "register"
  /\ registered' = registered \cup {op[w].target}
  /\ Touch("handle")
  /\ Goto(w, "running")
  /\ UNCHANGED <<items, next, enabled, instant, cleanup, runningPoll,
                 pendingWakeup, pipe, loopVars, op, copy, owned, ops>>

\* libvirt updates or removes what it owns, and does so in one thread at a time.
Change(w, k, name) ==
  \E i \in owned[k] :
    /\ Begin(w, name, [name |-> name, kind |-> k, id |-> i.id,
                       opaque |-> i.opaque, target |-> i.opaque])
    /\ owned' = [owned EXCEPT ![k] = @ \ {i}]
    /\ UNCHANGED <<listVars, wakeVars, loopVars>>

\* The items that have the id of the operation.
Found(w) == {i \in items[op[w].kind] : i.id = op[w].id}

\* update_handle and update_timer do nothing when the id is not found.
UpdateMissing(w) ==
  /\ pc[w] = "update"
  /\ Found(w) = {}
  /\ Return(w)
  /\ UNCHANGED <<listVars, wakeVars, loopVars>>

\* update_timer sets the interval of the first timer with the id.
UpdateTimer(w) ==
  /\ pc[w] = "update" /\ op[w].kind = "timer"
  /\ \E i \in Found(w) : SetInterval(i.opaque)
  /\ Touch("timer")
  /\ Goto(w, "running")
  /\ UNCHANGED <<items, next, registered, cleanup, runningPoll, pendingWakeup,
                 pipe, loopVars, op, copy, owned, ops>>

\* update_handle unregisters the first handle with the id before it registers
\* it anew; poll.unregister raises when it does not know the handle.
UpdateHandle(w) ==
  /\ pc[w] = "update" /\ op[w].kind = "handle"
  /\ \E i \in Found(w) :
       \/ /\ i.opaque \in registered
          /\ registered' = registered \ {i.opaque}
          /\ op' = [op EXCEPT ![w] = [@ EXCEPT !.target = i.opaque]]
          /\ Goto(w, "register")
          /\ UNCHANGED <<copy, owned, ops>>
       \/ /\ i.opaque \notin registered
          /\ Return(w)
          /\ UNCHANGED registered
  /\ UNCHANGED <<items, next, enabled, instant, cleanup, wakeVars, loopVars>>

\* Mutant of RemoveFind: the handle stays registered.
RemoveFindOnly(w) ==
  /\ pc[w] = "remove"
  /\ cleanup' = cleanup \cup Refs(op[w].kind, Opaques(Found(w)))
  /\ copy' = [copy EXCEPT ![w] = items[op[w].kind] \ Found(w)]
  /\ Goto(w, "store")
  /\ UNCHANGED <<items, next, registered, enabled, instant, wakeVars, loopVars,
                 op, owned, ops>>

\* remove_handle and remove_timer build a list without the id; what has the id
\* is unregistered and left for the clean-up.
RemoveFind(w) ==
  /\ pc[w] = "remove"
  /\ IF op[w].kind = "handle"
     THEN /\ Opaques(Found(w)) \subseteq registered
          /\ registered' = registered \ Opaques(Found(w))
     ELSE UNCHANGED registered
  /\ cleanup' = cleanup \cup Refs(op[w].kind, Opaques(Found(w)))
  /\ copy' = [copy EXCEPT ![w] = items[op[w].kind] \ Found(w)]
  /\ Goto(w, "store")
  /\ UNCHANGED <<items, next, enabled, instant, wakeVars, loopVars, op, owned,
                 ops>>

\* poll.unregister raises; what the walk met before it is done.
RemoveRaises(w) ==
  /\ pc[w] = "remove" /\ op[w].kind = "handle"
  /\ ~(Opaques(Found(w)) \subseteq registered)
  /\ \E done \in SUBSET (Opaques(Found(w)) \cap registered) :
       /\ registered' = registered \ done
       /\ cleanup' = cleanup \cup Refs("handle", done)
  /\ Return(w)
  /\ UNCHANGED <<items, next, enabled, instant, wakeVars, loopVars>>

\* The new list replaces the current one, with all that others did to it.
Store(w) ==
  LET k == op[w].kind IN
  /\ pc[w] = "store"
  /\ items' = [items EXCEPT ![k] = copy[w]]
  /\ walks' = (walks /\ k = "handle")
  /\ Touch(k)
  /\ Goto(w, "running")
  /\ UNCHANGED <<next, registered, enabled, instant, cleanup, runningPoll,
                 pendingWakeup, pipe, loop, timed, polled, events, todo, current,
                 fired, freed, op, copy, owned, ops>>

-----------------------------------------------------------------------------
(* interrupt, the end of every operation *)

ReadRunning(w) ==
  /\ pc[w] = "running"
  /\ \/ runningPoll /\ Goto(w, "pending") /\ UNCHANGED <<op, copy, owned, ops>>
     \/ ~runningPoll /\ Return(w)
  /\ UNCHANGED <<listVars, wakeVars, loopVars>>

ReadPending(w) ==
  /\ pc[w] = "pending"
  /\ \/ ~pendingWakeup /\ Goto(w, "set") /\ UNCHANGED <<op, copy, owned, ops>>
     \/ pendingWakeup /\ Return(w)
  /\ UNCHANGED <<listVars, wakeVars, loopVars>>

SetPending(w) ==
  /\ pc[w] = "set"
  /\ pendingWakeup' = TRUE
  /\ Goto(w, "write")
  /\ UNCHANGED <<listVars, runningPoll, pipe, changed, loopVars, op, copy, owned,
                 ops>>

\* Mutant of WriteByte: nothing is written.
WriteNothing(w) ==
  /\ pc[w] = "write"
  /\ Return(w)
  /\ UNCHANGED <<listVars, wakeVars, loopVars>>

WriteByte(w) ==
  /\ pc[w] = "write"
  /\ pipe' = pipe + 1
  /\ Return(w)
  /\ UNCHANGED <<listVars, runningPoll, pendingWakeup, changed, loopVars>>

OpStep(w) ==
  \/ Bump(w) \/ AppendItem(w) \/ Register(w)
  \/ UpdateMissing(w) \/ UpdateTimer(w) \/ UpdateHandle(w)
  \/ RemoveFind(w) \/ RemoveRaises(w) \/ Store(w)
  \/ ReadRunning(w) \/ ReadPending(w) \/ SetPending(w) \/ WriteByte(w)

-----------------------------------------------------------------------------
(* run_once *)

Start ==
  /\ loop = "start"
  /\ runningPoll' = TRUE
  /\ loop' = "free"
  /\ UNCHANGED <<listVars, pendingWakeup, pipe, changed, timed, polled, walkVars,
                 freed, opVars>>

\* The opaques of removed items are freed ...
Free ==
  /\ loop = "free"
  /\ freed' = freed \cup cleanup
  /\ loop' = "clear"
  /\ UNCHANGED <<listVars, wakeVars, timed, polled, walkVars, opVars>>

\* ... and a new list replaces theirs.
Clear ==
  /\ loop = "clear"
  /\ cleanup' = {}
  /\ loop' = "timeout"
  /\ UNCHANGED <<items, next, registered, enabled, instant, wakeVars, timed,
                 polled, walkVars, freed, opVars>>

\* next_timeout returns the least time at which a timer is due, or zero.  Zero
\* is also what a blank timer gives, and any timer after it in the list replaces
\* a zero: the result is zero if no timer has an interval or the last of them is
\* blank.
NextTimeout ==
  /\ loop = "timeout"
  /\ timed' \in BOOLEAN
  /\ timed' => EnabledTimers # BlankTimers
  /\ ~timed' => BlankTimers # {} \/ EnabledTimers = {}
  /\ loop' = "poll"
  /\ UNCHANGED <<listVars, wakeVars, polled, walkVars, freed, opVars>>

\* poll() watches the handles that are registered when it is called.
EnterPoll ==
  /\ loop = "poll"
  /\ polled' = registered
  /\ changed' = changed \ {"handle"}
  /\ loop' = "sleep"
  /\ UNCHANGED <<listVars, runningPoll, pendingWakeup, pipe, timed, walkVars,
                 freed, opVars>>

\* poll() returns: a byte is in the pipe, handles have input, or its timeout is
\* over.
Wake ==
  /\ loop = "sleep"
  /\ events' \in SUBSET polled
  /\ pipe > 0 \/ events' # {} \/ timed
  /\ loop' = IF pipe > 0 THEN "reset" ELSE "handles"
  /\ changed' = {}
  /\ UNCHANGED <<listVars, runningPoll, pendingWakeup, pipe, timed, polled, todo,
                 walks, current, fired, freed, opVars>>

\* Mutant of Reset: pendingWakeup stays true.
ResetNot ==
  /\ loop = "reset"
  /\ loop' = "read"
  /\ UNCHANGED <<listVars, wakeVars, timed, polled, walkVars, freed, opVars>>

Reset ==
  /\ loop = "reset"
  /\ pendingWakeup' = FALSE
  /\ loop' = "read"
  /\ UNCHANGED <<listVars, runningPoll, pipe, changed, timed, polled, walkVars,
                 freed, opVars>>

\* os.read blocks while the pipe is empty.
ReadPipe ==
  /\ loop = "read"
  /\ pipe > 0
  /\ pipe' = pipe - 1
  /\ loop' = "handles"
  /\ UNCHANGED <<listVars, runningPoll, pendingWakeup, changed, timed, polled,
                 walkVars, freed, opVars>>

\* A handle with input is looked up among the handles of now and dispatched.
DispatchHandle ==
  /\ loop = "handles"
  /\ \E fd \in events :
       /\ events' = events \ {fd}
       /\ IF fd \in Opaques(items["handle"])
          THEN current' = [kind |-> "handle", opaque |-> fd] /\ loop' = "call"
          ELSE UNCHANGED <<current, loop>>
  /\ UNCHANGED <<listVars, wakeVars, timed, polled, todo, walks, fired, freed,
                 opVars>>

\* The walk over self.timers begins.
BeginTimers ==
  /\ loop = "handles" /\ events = {}
  /\ todo' = items["timer"]
  /\ walks' = TRUE
  /\ loop' = "timers"
  /\ UNCHANGED <<listVars, wakeVars, timed, polled, events, current, fired,
                 freed, opVars>>

\* A timer with an interval is fired when it is due, a blank one always.
NextTimer ==
  /\ loop = "timers"
  /\ \E i \in todo :
       /\ todo' = todo \ {i}
       /\ \/ /\ i.opaque \in enabled
             /\ current' = [kind |-> "timer", opaque |-> i.opaque]
             /\ fired' = fired \cup {i.opaque}
             /\ loop' = "call"
          \/ /\ i.opaque \notin (enabled \cap instant) \ fired
             /\ UNCHANGED <<current, fired, loop>>
  /\ UNCHANGED <<listVars, wakeVars, timed, polled, events, walks, freed, opVars>>

\* The callback returns.
CallReturns ==
  /\ loop = "call" /\ pc[LoopThread] = "idle"
  /\ loop' = IF current.kind = "handle" THEN "handles" ELSE "timers"
  /\ current' = NoCall
  /\ UNCHANGED <<listVars, wakeVars, timed, polled, events, todo, walks, fired,
                 freed, opVars>>

\* The finally clause.
Finish ==
  /\ loop = "timers" /\ todo = {}
  /\ runningPoll' = FALSE
  /\ walks' = FALSE
  /\ loop' = "start"
  /\ UNCHANGED <<listVars, pendingWakeup, pipe, changed, timed, polled, events,
                 todo, current, fired, freed, opVars>>

LoopStep ==
  \/ Start \/ Free \/ Clear \/ NextTimeout \/ EnterPoll \/ Reset \/ ReadPipe
  \/ DispatchHandle \/ BeginTimers \/ NextTimer \/ CallReturns \/ Finish

\* The loop sleeps until libvirt does something.
Waiting ==
  /\ loop = "sleep" /\ pipe = 0
  /\ \A w \in Workers : pc[w] = "idle"
  /\ UNCHANGED vars

Next ==
  \/ \E w \in Workers :
       \/ \E k \in Kinds : Add(w, k) \/ Change(w, k, "update") \/ Change(w, k, "remove")
       \/ OpStep(w)
  \/ LoopStep
  \/ Wake
  \/ Waiting

\* Threads are scheduled, run_loop never ends, and poll() returns when its pipe
\* has a byte or its timeout is over; input on a handle need not come.
Fairness ==
  /\ \A w \in Workers : WF_vars(OpStep(w))
  /\ WF_vars(LoopStep)
  /\ WF_vars(Wake /\ (pipe > 0 \/ timed))

Spec == Init /\ [][Next]_vars

FairSpec == Spec /\ Fairness

-----------------------------------------------------------------------------
(* Properties *)

\* Every variable has its type.
TypeOK ==
  /\ items \in [Kinds -> SUBSET Item]
  /\ next \in [Kinds -> Nat]
  /\ registered \subseteq Nat /\ enabled \subseteq Nat /\ instant \subseteq Nat
  /\ cleanup \subseteq Ref
  /\ runningPoll \in BOOLEAN /\ pendingWakeup \in BOOLEAN /\ pipe \in Nat
  /\ changed \subseteq Kinds
  /\ loop \in LoopLabels
  /\ timed \in BOOLEAN /\ polled \subseteq Nat /\ events \subseteq Nat
  /\ todo \subseteq Item
  /\ walks \in BOOLEAN
  /\ current \in Ref
  /\ fired \subseteq Nat
  /\ freed \subseteq Ref
  /\ pc \in [Workers -> Labels]
  /\ op \in [Workers -> Op]
  /\ copy \in [Workers -> SUBSET Item]
  /\ owned \in [Kinds -> SUBSET Item]
  /\ ops \in Nat

\* There is something the sleeping loop does not know: since next_timeout looked
\* a timer was added, set or removed, or since poll() was called a handle was
\* registered or removed; or it does not wait for a timer that has an interval,
\* other than by taking a timer that is due at zero for none.
News ==
  \/ changed # {}
  \/ EnabledTimers # {} /\ BlankTimers = {} /\ ~timed

\* A byte wakes the loop, or a thread has yet to write one.
Informed == pipe > 0 \/ \E w \in Workers : pc[w] \in Interrupting

\* No wakeup is lost: while the loop sleeps without knowing what was added,
\* changed or removed, there is a byte in the pipe or a thread that has yet to
\* write one, in whatever order the threads and the loop set, test and reset the
\* flags.
SleepsInformed == loop = "sleep" /\ News => Informed

\* What the comments of next_timeout (493-495) and of the self pipe (481-485) say:
\* the loop does not sleep without a timeout while a timer has an interval, unless
\* it is being woken.  Zero stands for "no timeout due" and for a timer that is due
\* at zero.
TimerIsAwaited == loop = "sleep" /\ EnabledTimers # {} /\ ~timed => Informed

\* Although handles are removed while the loop is between poll() and their
\* dispatch, no handle's callback runs with an opaque that was freed.
HandleOpaqueAlive ==
  loop = "call" /\ current.kind = "handle" => current \notin freed

\* Whatever the sleeping loop does not know gets it out of poll() in the end.
NewsIsSeen == loop = "sleep" /\ News ~> loop # "sleep" \/ ~News
=============================================================================
