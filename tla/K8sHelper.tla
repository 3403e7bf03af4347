----------------------------- MODULE K8sHelper -----------------------------
(***************************************************************************)
(* The methods of K8sHelper (utils/k8s.py) on one custom object, called by *)
(* processes that know nothing of each other: every virshplus command is a *)
(* process of its own, and the front end and libvirtwatcher write the      *)
(* object too.  A method is a sequence of requests, and everything may     *)
(* happen between two of them; it tries RETRY_TIMES times, and the reads   *)
(* it makes (exist, get) try RETRY_TIMES times each on their own.          *)
(*                                                                         *)
(* The resourceVersion of a copy is abstracted to whether it is still that *)
(* of the object: the API server refuses to replace by another.            *)
(***************************************************************************)
EXTENDS Naturals

CONSTANTS
    Procs,         \* callers, one call each
    Kinds,         \* methods they may call
    Nodes, HomeNode, Data, Labels, Lives,
    RETRY_TIMES,   \* 15 in the code
    MaxFaults,     \* bound: requests that fail or whose answer is lost
    MaxWrites      \* bound: writes of the front end and libvirtwatcher

ASSUME RetryAssumption == RETRY_TIMES \in Nat \ {0}
ASSUME HomeAssumption == HomeNode \in Nodes
ASSUME BoundsAssumption == MaxFaults \in Nat /\ MaxWrites \in Nat

Methods == {"exist", "get", "get_data", "create", "create_all", "update",
            "add_label", "delete_lifecycle", "delete", "change_node"}
ASSUME KindsAssumption == Kinds \subseteq Methods

None == "none"
ASSUME NoneAssumption == None \notin Nodes \cup Data \cup Labels \cup Lives

VARIABLES
    obj,      \* the object in the API server
    fresh,    \* callers whose copy has the object's resourceVersion
    want,     \* what a caller called
    op,       \* the method it is in: change_node ends in update_all
    pc,       \* its next request, or how the call ended
    tries,    \* rounds of the method that failed
    inner,    \* rounds of the read in progress that failed
    body,     \* the copy of the object it has prepared
    took,     \* the purpose of the call held at a moment of the call
    trouble,  \* its failed requests and the writes of others during the call
    faults, writes

vars == <<obj, fresh, want, op, pc, tries, inner, body, took, trouble, faults, writes>>

NoObj == [here |-> FALSE, host |-> None, node |-> None, data |-> None,
          life |-> None, label |-> None]
Objects == [here : {TRUE}, host : Nodes, node : Nodes \cup {None},
            data : Data \cup {None}, life : Lives \cup {None},
            label : Labels \cup {None}]

\* A method and its argument.
Args(kind) ==
    CASE kind \in {"create", "create_all", "update"} -> Data
      [] kind = "add_label" -> Labels
      [] kind = "change_node" -> Nodes
      [] OTHER -> {None}
Calls == {c \in [kind : Kinds, arg : Data \cup Labels \cup Nodes \cup {None}] :
            c.arg \in Args(c.kind)}
NoCall == [kind |-> None, arg |-> None]
Pcs == {"none", "exist", "get", "write", "ok", "raised"}

Active(p) == pc[p] \in {"exist", "get", "write"}

\* The object as this code or the front end made it.
InitObjects ==
    {o \in Objects : /\ o.host = HomeNode
                     /\ o.node = HomeNode
                     /\ o.label = None}

Init ==
    /\ obj \in {NoObj} \cup InitObjects
    /\ fresh = {}
    /\ want = [p \in Procs |-> NoCall]
    /\ op = [p \in Procs |-> None]
    /\ pc = [p \in Procs |-> "none"]
    /\ tries = [p \in Procs |-> 0]
    /\ inner = [p \in Procs |-> 0]
    /\ body = [p \in Procs |-> NoObj]
    /\ took = [p \in Procs |-> FALSE]
    /\ trouble = [p \in Procs |-> 0]
    /\ faults = 0
    /\ writes = 0

-----------------------------------------------------------------------------
(* Bodies.                                                                   *)

\* create and get_create_jsondict: the object of a host that has these data.
NewBody(host, d) ==
    [here |-> TRUE, host |-> host, node |-> host, data |-> d, life |-> None,
     label |-> None]

NoLifecycle(o) == [o EXCEPT !.life = None]
Updated(o, d) == [o EXCEPT !.life = None, !.data = d]

\* change_node: the label, and nodeName where there is one.
ChangedNode(o, n) == [o EXCEPT !.host = n, !.node = IF @ = None THEN None ELSE n]

\* What the caller replaces its copy o by.
Prepared(c, o) ==
    CASE c.kind = "update" -> Updated(o, c.arg)
      [] c.kind = "add_label" -> [o EXCEPT !.label = c.arg]
      [] c.kind = "delete_lifecycle" -> NoLifecycle(o)
      [] c.kind = "change_node" -> NoLifecycle(ChangedNode(o, c.arg))
      [] OTHER -> o

\* Nothing is written: update returns when there are other data already,
\* delete_lifecycle when there is no command.
Content(c, o) ==
    \/ c.kind \in {"get", "get_data"}
    \/ c.kind = "update" /\ o.data \notin {None, c.arg}
    \/ c.kind = "delete_lifecycle" /\ o.life = None

\* The purpose of a call, which also the object's absence settles.
Purpose(c, o) ==
    CASE c.kind \in {"create", "create_all"} -> o.here
      [] c.kind = "delete" -> ~ o.here
      [] c.kind = "update" -> o.here => o.data # None
      [] c.kind = "add_label" -> o.here => o.label = c.arg
      [] c.kind = "delete_lifecycle" -> o.life = None
      [] c.kind = "change_node" ->
            o.here => o.host = c.arg /\ o.node \in {None, c.arg}
      [] OTHER -> c.kind # None

-----------------------------------------------------------------------------
(* Control of the methods.                                                   *)

\* A method: its first request, where exist leads when the object is there and
\* when it is not, what it writes, and whether its requests are tried again as a
\* whole.
Shape(first, here, absent, write, rounds) ==
    [first |-> first, here |-> here, absent |-> absent, write |-> write,
     rounds |-> rounds]

ExistMethod == Shape("exist", "ok", "ok", "nothing", FALSE)
GetMethod == Shape("get", "ok", "ok", "nothing", FALSE)
GetDataMethod == GetMethod

\* Mutant: create does what update does first, and returns where it should write.
CreateMethodAbsent == Shape("exist", "ok", "ok", "create", TRUE)

CreateMethod == Shape("exist", "ok", "write", "create", TRUE)
CreateAllMethod == CreateMethod

\* Mutant: update makes its body before the loop.
UpdateMethodOnce == Shape("exist", "get", "ok", "replace", FALSE)

UpdateMethod == Shape("exist", "get", "ok", "replace", TRUE)
AddLabelMethod == UpdateMethod
DeleteLifecycleMethod == UpdateMethod
DeleteMethod == Shape("write", "write", "write", "delete", TRUE)

\* Its body is the same in every round.
UpdateAllMethod == Shape("exist", "write", "ok", "replace", TRUE)

\* It goes on in updateAll when it has the object.
ChangeNodeMethod == Shape("exist", "get", "ok", "nothing", FALSE)

Method(kind) ==
    CASE kind = "exist" -> ExistMethod
      [] kind = "get" -> GetMethod
      [] kind = "get_data" -> GetDataMethod
      [] kind = "create" -> CreateMethod
      [] kind = "create_all" -> CreateAllMethod
      [] kind = "update" -> UpdateMethod
      [] kind = "add_label" -> AddLabelMethod
      [] kind = "update_all" -> UpdateAllMethod
      [] kind = "delete" -> DeleteMethod
      [] kind = "delete_lifecycle" -> DeleteLifecycleMethod
      [] kind = "change_node" -> ChangeNodeMethod

\* Where a caller goes, after how many failed rounds and reads, with which copy.
Go(p, where, round, read, copy) ==
    /\ pc' = [pc EXCEPT ![p] = where]
    /\ tries' = [tries EXCEPT ![p] = round]
    /\ inner' = [inner EXCEPT ![p] = read]
    /\ body' = [body EXCEPT ![p] = copy]

Ends(p, how) == Go(p, how, 0, 0, NoObj)
Passed(p, where) ==
    IF where = "ok" THEN Ends(p, "ok") ELSE Go(p, where, tries[p], 0, body[p])

\* Mutant: a round that failed is not counted.
RoundFailsUncounted(p) ==
    IF Method(op[p]).rounds THEN Go(p, Method(op[p]).first, tries[p], 0, body[p])
    ELSE Ends(p, "raised")

\* A round failed: the next begins, or the call raises (create ends the process).
RoundFails(p) ==
    IF Method(op[p]).rounds /\ tries[p] + 1 < RETRY_TIMES
    THEN Go(p, Method(op[p]).first, tries[p] + 1, 0, body[p])
    ELSE Ends(p, "raised")

\* A read failed: it is made again, or its BadRequest fails the round.
ReadFailed(p) ==
    IF inner[p] + 1 < RETRY_TIMES
    THEN Go(p, pc[p], tries[p], inner[p] + 1, body[p])
    ELSE RoundFails(p)

\* One more trouble for some callers, as far as it matters.
Troubled(who) ==
    trouble' = [q \in Procs |-> IF q \in who /\ trouble[q] < RETRY_TIMES
                                THEN trouble[q] + 1 ELSE trouble[q]]

\* The object becomes o.  A write that changes nothing else may leave the
\* resourceVersion as it is.
Stored(p, o) ==
    /\ obj' = o
    /\ \/ fresh' = {}
       \/ o = obj /\ UNCHANGED fresh

\* Others whom a write disturbs.
Others(p) == {q \in Procs \ {p} : Active(q)}

Noticed == took' = [q \in Procs |-> took[q] \/ Purpose(want'[q], obj')]

-----------------------------------------------------------------------------
Call(p, c) ==
    /\ pc[p] = "none"
    /\ want' = [want EXCEPT ![p] = c]
    /\ op' = [op EXCEPT ![p] = c.kind]
    /\ Go(p, Method(c.kind).first, 0, 0, NoObj)
    /\ UNCHANGED <<obj, fresh, trouble, faults, writes>>

\* The answer of exist.
Exist(p) ==
    /\ pc[p] = "exist"
    /\ Passed(p, IF obj.here THEN Method(op[p]).here ELSE Method(op[p]).absent)
    /\ UNCHANGED <<obj, fresh, want, op, trouble, faults, writes>>

\* The answer of get, from which the body is made.  change_node goes on in
\* updateAll.
Get(p) ==
    /\ pc[p] = "get"
    /\ obj.here
    /\ \/ /\ Content(want[p], obj)
          /\ Ends(p, "ok")
          /\ UNCHANGED <<fresh, op>>
       \/ /\ ~ Content(want[p], obj)
          /\ fresh' = fresh \cup {p}
          /\ op' = [op EXCEPT ![p] = IF @ = "change_node" THEN "update_all" ELSE @]
          /\ Go(p, IF op[p] = "change_node" THEN "exist" ELSE "write",
                tries[p], 0, Prepared(want[p], obj))
    /\ UNCHANGED <<obj, want, trouble, faults, writes>>

\* get takes Not Found for a failure like any other.
GetNotFound(p) ==
    /\ pc[p] = "get"
    /\ ~ obj.here
    /\ ReadFailed(p)
    /\ UNCHANGED <<obj, fresh, want, op, trouble, faults, writes>>

\* The API server does not answer a read.
ReadUnanswered(p) ==
    /\ pc[p] \in {"exist", "get"}
    /\ faults < MaxFaults
    /\ faults' = faults + 1
    /\ ReadFailed(p)
    /\ Troubled({p})
    /\ UNCHANGED <<obj, fresh, want, op, writes>>

\* Mutant: the body has no resourceVersion.
AcceptedAny(p) == obj.here = (Method(op[p]).write # "create")

\* The API server carries the write out.
Accepted(p) ==
    CASE Method(op[p]).write = "create" -> ~ obj.here
      [] Method(op[p]).write = "delete" -> obj.here
      [] OTHER -> obj.here /\ p \in fresh

Outcome(p, host) ==
    CASE Method(op[p]).write = "create" -> NewBody(host, want[p].arg)
      [] Method(op[p]).write = "delete" -> NoObj
      [] OTHER -> body[p]

\* The write of a round; delete takes Not Found for success.
Write(p) ==
    /\ pc[p] = "write"
    /\ IF Accepted(p)
       THEN /\ \E host \in Nodes : Stored(p, Outcome(p, host))
            /\ Passed(p, "ok")
            /\ Troubled(Others(p))
       ELSE /\ IF op[p] = "delete" THEN Passed(p, "ok") ELSE RoundFails(p)
            /\ UNCHANGED <<obj, fresh, trouble>>
    /\ UNCHANGED <<want, op, faults, writes>>

\* The write is not answered; it may have been carried out.
WriteUnanswered(p) ==
    /\ pc[p] = "write"
    /\ faults < MaxFaults
    /\ faults' = faults + 1
    /\ RoundFails(p)
    /\ \/ UNCHANGED <<obj, fresh>> /\ Troubled({p})
       \/ /\ Accepted(p)
          /\ \E host \in Nodes : Stored(p, Outcome(p, host))
          /\ Troubled({p} \cup Others(p))
    /\ UNCHANGED <<want, op, writes>>

\* The front end posts a command; libvirtwatcher pushes the data it has seen.
Elsewhere ==
    /\ writes < MaxWrites
    /\ writes' = writes + 1
    /\ obj.here
    /\ \E o \in {[obj EXCEPT !.life = l] : l \in Lives}
                \cup {[obj EXCEPT !.data = d] : d \in Data} :
         obj' = o /\ o # obj
    /\ fresh' = {}
    /\ Troubled({q \in Procs : Active(q)})
    /\ UNCHANGED <<want, op, pc, tries, inner, body, faults>>

Proceed(p) ==
    \/ Exist(p) \/ Get(p) \/ GetNotFound(p) \/ ReadUnanswered(p)
    \/ Write(p) \/ WriteUnanswered(p)

Next ==
    /\ \/ \E p \in Procs, c \in Calls : Call(p, c)
       \/ \E p \in Procs : Proceed(p)
       \/ Elsewhere
    /\ Noticed

Spec == Init /\ [][Next]_vars

\* A process that waits for an answer or sleeps goes on.
Fairness == \A p \in Procs : WF_vars(Proceed(p) /\ Noticed)

FairSpec == Spec /\ Fairness

-----------------------------------------------------------------------------
(* Properties.                                                               *)

\* The state is well formed.
TypeOK ==
    /\ obj \in Objects \cup {NoObj}
    /\ fresh \subseteq Procs
    /\ want \in [Procs -> Calls \cup {NoCall}]
    /\ op \in [Procs -> Kinds \cup {"update_all", None}]
    /\ pc \in [Procs -> Pcs]
    /\ tries \in [Procs -> 0 .. RETRY_TIMES - 1]
    /\ inner \in [Procs -> 0 .. RETRY_TIMES - 1]
    /\ body \in [Procs -> Objects \cup {NoObj}]
    /\ took \in [Procs -> BOOLEAN]
    /\ trouble \in [Procs -> 0 .. RETRY_TIMES]
    /\ faults \in 0 .. MaxFaults
    /\ writes \in 0 .. MaxWrites

\* A method that returns has done its work, or found it done: at a moment of
\* the call what it was called for was true of the object (or there was no
\* object to change), whatever the other processes did, and whichever answers
\* were lost.
TookEffect == \A p \in Procs : pc[p] = "ok" => took[p]

\* A method that raises was disturbed in each of its rounds: as many times as
\* it tries, a request of its own failed or somebody else wrote the object.
\* change_node sends one body in every round, so there one disturbance is
\* enough.
FailsOnlyWhenDisturbed ==
    \A p \in Procs : pc[p] = "raised" =>
        /\ want[p].kind \notin {"change_node", "get", "get_data"} =>
              trouble[p] = RETRY_TIMES
        /\ want[p].kind = "change_node" => trouble[p] > 0

\* A write brings nothing back that somebody else has changed: a step that
\* moves the object to another node leaves data and label, one that labels it
\* leaves node, data and command, one that stores data leaves node and label;
\* and the label host and spec.nodeName change together.
OneThingAtATime ==
    [][ obj.here /\ obj'.here =>
        /\ obj'.host # obj.host =>
              obj'.data = obj.data /\ obj'.label = obj.label
        /\ obj'.label # obj.label =>
              /\ obj'.host = obj.host /\ obj'.data = obj.data
              /\ obj'.life = obj.life
        /\ obj'.data # obj.data =>
              obj'.host = obj.host /\ obj'.label = obj.label
        /\ obj.node # None =>
              (obj'.host # obj.host <=> obj'.node # obj.node)
      ]_vars

\* Every call ends: the rounds are bounded, also where a body is refused again
\* and again.
CallEnds == \A p \in Procs : Active(p) ~> pc[p] \in {"ok", "raised"}

=============================================================================
