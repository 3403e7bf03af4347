-------------------------- MODULE K8sHelper_proofs --------------------------
(***************************************************************************)
(* Theorems about K8sHelper, for any number of callers, rounds, failures   *)
(* and writes of others.                                                   *)
(***************************************************************************)
EXTENDS K8sHelper, TLAPS

AllMethods == Methods \cup {"update_all"}

\* The control of every method, read off its definition.
LEMMA Shapes ==
  ASSUME NEW k \in AllMethods
  PROVE  /\ Method(k).first \in {"exist", "get", "write"}
         /\ Method(k).here \in {"ok", "get", "write"}
         /\ Method(k).absent \in {"ok", "write"}
         /\ Method(k).write = "create" <=> k \in {"create", "create_all"}
         /\ Method(k).write = "delete" <=> k = "delete"
         /\ Method(k).write = "replace" <=>
               k \in {"update", "add_label", "delete_lifecycle", "update_all"}
         /\ Method(k).first = "write" <=> k = "delete"
         /\ Method(k).first = "get" <=> k \in {"get", "get_data"}
         /\ k \notin {"get", "get_data"} =>
              /\ Method(k).here = "ok" <=> k \in {"exist", "create", "create_all"}
              /\ Method(k).here = "get" <=>
                   k \in {"update", "add_label", "delete_lifecycle", "change_node"}
         /\ Method(k).absent = "write" <=> k \in {"create", "create_all", "delete"}
         /\ Method(k).rounds <=> k \notin {"exist", "get", "get_data", "change_node"}
  BY DEF AllMethods, Methods, Method, Shape, ExistMethod, GetMethod, GetDataMethod,
         CreateMethod, CreateAllMethod, UpdateMethod, AddLabelMethod,
         DeleteLifecycleMethod, DeleteMethod, UpdateAllMethod, ChangeNodeMethod

-----------------------------------------------------------------------------
(* Bodies.                                                                   *)

AnyObject == Objects \cup {NoObj}

\* The argument of a call has the type of its method.
LEMMA CallArgs ==
  ASSUME NEW c \in Calls
  PROVE  /\ c.kind \in Methods
         /\ c.kind \in {"create", "create_all", "update"} => c.arg \in Data
         /\ c.kind = "add_label" => c.arg \in Labels
         /\ c.kind = "change_node" => c.arg \in Nodes
         /\ c = [kind |-> c.kind, arg |-> c.arg]
<1>1. c.kind \in Kinds /\ c.arg \in Args(c.kind) /\ c = [kind |-> c.kind, arg |-> c.arg]
  BY DEF Calls
<1>2. /\ c.kind \in {"create", "create_all", "update"} => Args(c.kind) = Data
      /\ c.kind = "add_label" => Args(c.kind) = Labels
      /\ c.kind = "change_node" => Args(c.kind) = Nodes
  BY DEF Args
<1> QED BY <1>1, <1>2, KindsAssumption

\* A body made from an object is an object, and serves the purpose of the call.
LEMMA PreparedObject ==
  ASSUME NEW c \in Calls, NEW o \in Objects
  PROVE  Prepared(c, o) \in Objects
<1>1. CASE c.kind = "update"
  <2>1. Prepared(c, o) = Updated(o, c.arg)
    BY <1>1 DEF Prepared
  <2> QED BY <1>1, <2>1, CallArgs DEF Updated, Objects
<1>2. CASE c.kind = "add_label"
  <2>1. Prepared(c, o) = [o EXCEPT !.label = c.arg]
    BY <1>2 DEF Prepared
  <2> QED BY <1>2, <2>1, CallArgs DEF Objects
<1>3. CASE c.kind = "delete_lifecycle"
  <2>1. Prepared(c, o) = NoLifecycle(o)
    BY <1>3 DEF Prepared
  <2> QED BY <2>1 DEF NoLifecycle, Objects
<1>4. CASE c.kind = "change_node"
  <2>1. Prepared(c, o) = NoLifecycle(ChangedNode(o, c.arg))
    BY <1>4 DEF Prepared
  <2> QED BY <1>4, <2>1, CallArgs DEF NoLifecycle, ChangedNode, Objects
<1>5. CASE c.kind \notin {"update", "add_label", "delete_lifecycle", "change_node"}
  BY <1>5 DEF Prepared
<1> QED BY <1>1, <1>2, <1>3, <1>4, <1>5

\* What each body changes of its object.
LEMMA PreparedFields ==
  ASSUME NEW c \in Calls, NEW o \in Objects
  PROVE  /\ Prepared(c, o).here = o.here
         /\ c.kind = "update" =>
              /\ Prepared(c, o).data = c.arg /\ Prepared(c, o).host = o.host
              /\ Prepared(c, o).node = o.node /\ Prepared(c, o).label = o.label
         /\ c.kind = "add_label" =>
              /\ Prepared(c, o).data = o.data /\ Prepared(c, o).host = o.host
              /\ Prepared(c, o).node = o.node /\ Prepared(c, o).label = c.arg
              /\ Prepared(c, o).life = o.life
         /\ c.kind = "delete_lifecycle" =>
              /\ Prepared(c, o).data = o.data /\ Prepared(c, o).host = o.host
              /\ Prepared(c, o).node = o.node /\ Prepared(c, o).label = o.label
              /\ Prepared(c, o).life = None
         /\ c.kind = "change_node" =>
              /\ Prepared(c, o).data = o.data /\ Prepared(c, o).host = c.arg
              /\ Prepared(c, o).label = o.label
              /\ Prepared(c, o).node = IF o.node = None THEN None ELSE c.arg
<1>1. CASE c.kind = "update"
  BY <1>1 DEF Prepared, Updated, Objects
<1>2. CASE c.kind = "add_label"
  BY <1>2 DEF Prepared, Objects
<1>3. CASE c.kind = "delete_lifecycle"
  BY <1>3 DEF Prepared, NoLifecycle, Objects
<1>4. CASE c.kind = "change_node"
  BY <1>4 DEF Prepared, NoLifecycle, ChangedNode, Objects
<1>5. CASE c.kind \notin {"update", "add_label", "delete_lifecycle", "change_node"}
  BY <1>5 DEF Prepared
<1> QED BY <1>1, <1>2, <1>3, <1>4, <1>5

LEMMA PreparedServes ==
  ASSUME NEW c \in Calls, NEW o \in Objects,
         c.kind \in {"update", "add_label", "delete_lifecycle", "change_node"}
  PROVE  Purpose(c, Prepared(c, o))
<1>1. CASE c.kind = "update"
  BY <1>1, PreparedFields, CallArgs, NoneAssumption DEF Purpose
<1>2. CASE c.kind = "add_label"
  BY <1>2, PreparedFields DEF Purpose
<1>3. CASE c.kind = "delete_lifecycle"
  BY <1>3, PreparedFields DEF Purpose
<1>4. CASE c.kind = "change_node"
  BY <1>4, PreparedFields DEF Purpose
<1> QED BY <1>1, <1>2, <1>3, <1>4

LEMMA ContentServes ==
  ASSUME NEW c \in Calls, NEW o, Content(c, o)
  PROVE  Purpose(c, o)
<1>1. c.kind \in Methods
  BY CallArgs
<1>2. CASE c.kind \in {"get", "get_data"}
  BY <1>2 DEF Purpose, None
<1>3. CASE c.kind = "update" /\ o.data \notin {None, c.arg}
  BY <1>3 DEF Purpose
<1>4. CASE c.kind = "delete_lifecycle" /\ o.life = None
  BY <1>4 DEF Purpose
<1> QED BY <1>2, <1>3, <1>4 DEF Content

LEMMA NewBodyObject ==
  ASSUME NEW h \in Nodes, NEW d \in Data
  PROVE  NewBody(h, d) \in Objects
  BY DEF NewBody, Objects

-----------------------------------------------------------------------------
(* Types, and the control of the callers.                                    *)

Tries == 0 .. RETRY_TIMES - 1

ControlOK ==
    /\ pc \in [Procs -> Pcs]
    /\ tries \in [Procs -> Tries]
    /\ inner \in [Procs -> Tries]
    /\ body \in [Procs -> AnyObject]

\* Which method a caller is in, and at which request.
PlaceOK(p) ==
    /\ pc[p] = "none" => want[p] = NoCall
    /\ pc[p] # "none" =>
         /\ want[p] \in Calls
         /\ \/ op[p] = want[p].kind
            \/ op[p] = "update_all" /\ want[p].kind = "change_node"
    /\ pc[p] = "exist" => op[p] \notin {"get", "get_data", "delete"}
    /\ pc[p] = "get" =>
         op[p] \in {"get", "get_data", "update", "add_label", "delete_lifecycle",
                   "change_node"}
    /\ pc[p] = "write" =>
         op[p] \in {"create", "create_all", "update", "add_label",
                   "delete_lifecycle", "update_all", "delete"}

Typed == TypeOK /\ \A p \in Procs : PlaceOK(p)

\* Everything about another caller is as it was.
Untouched(q) ==
    /\ want'[q] = want[q] /\ op'[q] = op[q] /\ pc'[q] = pc[q]
    /\ tries'[q] = tries[q] /\ inner'[q] = inner[q] /\ body'[q] = body[q]

LEMMA TryFacts ==
  /\ 0 \in Tries
  /\ \A n \in Tries : n \in Nat /\ n + 1 <= RETRY_TIMES
                   /\ (n + 1 < RETRY_TIMES => n + 1 \in Tries)
  BY RetryAssumption DEF Tries

\* In a method: it exists.
LEMMA InMethod ==
  ASSUME Typed, NEW p \in Procs, pc[p] # "none"
  PROVE  /\ op[p] \in AllMethods /\ want[p] \in Calls /\ want[p].kind \in Methods
         /\ \/ op[p] = want[p].kind
            \/ op[p] = "update_all" /\ want[p].kind = "change_node"
<1>1. /\ want[p] \in Calls
      /\ \/ op[p] = want[p].kind
         \/ op[p] = "update_all" /\ want[p].kind = "change_node"
  BY DEF Typed, PlaceOK
<1>2. want[p].kind \in Methods
  BY <1>1, CallArgs
<1> QED BY <1>1, <1>2 DEF AllMethods

LEMMA GoControl ==
  ASSUME TypeOK, NEW p \in Procs, NEW where \in Pcs, NEW round \in Tries,
         NEW read \in Tries, NEW copy \in AnyObject, Go(p, where, round, read, copy)
  PROVE  /\ ControlOK'
         /\ pc'[p] = where /\ tries'[p] = round /\ inner'[p] = read /\ body'[p] = copy
         /\ \A q \in Procs \ {p} : /\ pc'[q] = pc[q] /\ tries'[q] = tries[q]
                                  /\ inner'[q] = inner[q] /\ body'[q] = body[q]
  BY DEF Go, TypeOK, ControlOK, Tries, AnyObject

\* Where a caller may go: here is what Go makes of it.
Moved(p, where, round, read, copy) ==
    /\ ControlOK'
    /\ pc'[p] = where /\ tries'[p] = round /\ inner'[p] = read /\ body'[p] = copy
    /\ \A q \in Procs \ {p} : /\ pc'[q] = pc[q] /\ tries'[q] = tries[q]
                             /\ inner'[q] = inner[q] /\ body'[q] = body[q]

LEMMA OwnControl ==
  ASSUME TypeOK, NEW p \in Procs
  PROVE  /\ pc[p] \in Pcs /\ tries[p] \in Tries /\ inner[p] \in Tries
         /\ body[p] \in AnyObject /\ NoObj \in AnyObject
  BY DEF TypeOK, Tries, AnyObject

LEMMA EndsMoved ==
  ASSUME TypeOK, NEW p \in Procs, NEW how \in Pcs, Ends(p, how)
  PROVE  Moved(p, how, 0, 0, NoObj)
  BY OwnControl, GoControl, TryFacts DEF Ends, Moved

LEMMA PassedMoved ==
  ASSUME TypeOK, NEW p \in Procs, NEW where \in Pcs, Passed(p, where)
  PROVE  /\ where = "ok" => Moved(p, where, 0, 0, NoObj)
         /\ where # "ok" => Moved(p, where, tries[p], 0, body[p])
<1>1. CASE where = "ok"
  BY <1>1, EndsMoved DEF Passed, Pcs
<1>2. CASE where # "ok"
  <2>1. Go(p, where, tries[p], 0, body[p])
    BY <1>2 DEF Passed
  <2> QED BY <1>2, <2>1, OwnControl, GoControl, TryFacts DEF Moved
<1> QED BY <1>1, <1>2

\* A failed round: the next one or the end.
NextRound(p) ==
    /\ Method(op[p]).rounds /\ tries[p] + 1 < RETRY_TIMES
    /\ Moved(p, Method(op[p]).first, tries[p] + 1, 0, body[p])
LastRound(p) ==
    /\ ~ (Method(op[p]).rounds /\ tries[p] + 1 < RETRY_TIMES)
    /\ Moved(p, "raised", 0, 0, NoObj)

LEMMA RoundFailsMoved ==
  ASSUME Typed, NEW p \in Procs, pc[p] # "none", RoundFails(p)
  PROVE  NextRound(p) \/ LastRound(p)
<1>0. TypeOK /\ "raised" \in Pcs /\ {"exist", "get", "write"} \subseteq Pcs
  BY DEF Typed, Pcs
<1>1. CASE Method(op[p]).rounds /\ tries[p] + 1 < RETRY_TIMES
  <2>1. Go(p, Method(op[p]).first, tries[p] + 1, 0, body[p])
    BY <1>1 DEF RoundFails
  <2>2. Method(op[p]).first \in Pcs
    BY <1>0, InMethod, Shapes
  <2>3. tries[p] + 1 \in Tries
    BY <1>0, <1>1, OwnControl, TryFacts
  <2> QED BY <1>0, <1>1, <2>1, <2>2, <2>3, OwnControl, GoControl, TryFacts
          DEF Moved, NextRound
<1>2. CASE ~ (Method(op[p]).rounds /\ tries[p] + 1 < RETRY_TIMES)
  <2>1. Ends(p, "raised")
    BY <1>2, Zenon DEF RoundFails
  <2> QED BY <1>0, <1>2, <2>1, EndsMoved, Zenon DEF LastRound
<1> QED BY <1>1, <1>2

\* A failed read: the same again, or a failed round.
AgainRead(p) ==
    /\ inner[p] + 1 < RETRY_TIMES
    /\ Moved(p, pc[p], tries[p], inner[p] + 1, body[p])

LEMMA ReadFailedMoved ==
  ASSUME Typed, NEW p \in Procs, pc[p] # "none", ReadFailed(p)
  PROVE  \/ AgainRead(p)
         \/ inner[p] + 1 = RETRY_TIMES /\ (NextRound(p) \/ LastRound(p))
<1>0. TypeOK
  BY DEF Typed
<1>1. CASE inner[p] + 1 < RETRY_TIMES
  <2>1. Go(p, pc[p], tries[p], inner[p] + 1, body[p])
    BY <1>1 DEF ReadFailed
  <2> QED BY <1>0, <1>1, <2>1, OwnControl, GoControl, TryFacts DEF Moved, AgainRead
<1>2. CASE ~ (inner[p] + 1 < RETRY_TIMES)
  <2>1. RoundFails(p)
    BY <1>2 DEF ReadFailed
  <2>2. inner[p] + 1 = RETRY_TIMES
    BY <1>0, <1>2, OwnControl, TryFacts, RetryAssumption
  <2> QED BY <2>1, <2>2, RoundFailsMoved
<1> QED BY <1>1, <1>2

-----------------------------------------------------------------------------
(* Every step of a caller is one of these.                                   *)

\* The caller goes on in its method: at the next request, in the next round, or
\* out of it.
LEMMA PlaceStep ==
  ASSUME Typed, NEW p \in Procs, pc[p] # "none",
         want' = want,
         NEW where, NEW round, NEW read, NEW copy,
         Moved(p, where, round, read, copy),
         \A q \in Procs \ {p} : op'[q] = op[q],
         where # "none",
         \/ op'[p] = op[p]
         \/ op'[p] = "update_all" /\ want[p].kind = "change_node",
         where = "exist" => op'[p] \notin {"get", "get_data", "delete"},
         where = "get" => op'[p] \in {"get", "get_data", "update", "add_label",
                                     "delete_lifecycle", "change_node"},
         where = "write" => op'[p] \in {"create", "create_all", "update", "add_label",
                                     "delete_lifecycle", "update_all", "delete"}
  PROVE  \A q \in Procs : PlaceOK(q)'
<1> SUFFICES ASSUME NEW q \in Procs
             PROVE  PlaceOK(q)'
  OBVIOUS
<1>1. CASE q # p
  BY <1>1 DEF Typed, PlaceOK, Moved
<1>2. CASE q = p
  BY <1>2, InMethod DEF PlaceOK, Moved
<1> QED BY <1>1, <1>2

\* The last two rounds' moves keep the place.
LEMMA PlaceRound ==
  ASSUME Typed, NEW p \in Procs, pc[p] # "none", want' = want, op' = op,
         NextRound(p) \/ LastRound(p)
  PROVE  \A q \in Procs : PlaceOK(q)'
<1>1. CASE NextRound(p)
  <2> DEFINE first == Method(op[p]).first
  <2>1. op[p] \in AllMethods
    BY InMethod
  <2>2. Moved(p, first, tries[p] + 1, 0, body[p])
    BY <1>1 DEF NextRound
  <2>3. /\ first \in {"exist", "get", "write"}
        /\ first = "write" => op[p] = "delete"
        /\ first = "get" => op[p] \in {"get", "get_data"}
        /\ first = "exist" => op[p] \notin {"get", "get_data", "delete"}
    BY <2>1, Shapes
  <2> HIDE DEF first
  <2> QED BY <2>2, <2>3, PlaceStep
<1>2. CASE LastRound(p)
  BY <1>2, PlaceStep DEF LastRound
<1> QED BY <1>1, <1>2

LEMMA PlaceRead ==
  ASSUME Typed, NEW p \in Procs, pc[p] \in {"exist", "get"}, want' = want, op' = op,
         ReadFailed(p)
  PROVE  /\ ControlOK'
         /\ \A q \in Procs : PlaceOK(q)'
<1>1. \/ AgainRead(p)
      \/ NextRound(p) \/ LastRound(p)
  BY ReadFailedMoved
<1>2. CASE AgainRead(p)
  <2>1. Moved(p, pc[p], tries[p], inner[p] + 1, body[p])
    BY <1>2 DEF AgainRead
  <2>2. PlaceOK(p)
    BY DEF Typed
  <2>3. /\ pc[p] = "exist" => op[p] \notin {"get", "get_data", "delete"}
        /\ pc[p] = "get" => op[p] \in {"get", "get_data", "update", "add_label",
                                     "delete_lifecycle", "change_node"}
    BY <2>2 DEF PlaceOK
  <2> DEFINE where == pc[p]
  <2>4. Moved(p, where, tries[p], inner[p] + 1, body[p])
    BY <2>1
  <2>5. where \in {"exist", "get"}
    OBVIOUS
  <2> HIDE DEF where
  <2>6. \A q \in Procs : PlaceOK(q)'
    BY <2>3, <2>4, <2>5, PlaceStep DEF where
  <2> QED BY <2>1, <2>6 DEF Moved
<1>3. CASE NextRound(p) \/ LastRound(p)
  BY <1>3, PlaceRound DEF NextRound, LastRound, Moved
<1> QED BY <1>1, <1>2, <1>3

\* What is not control.
RestOK ==
    /\ obj \in AnyObject
    /\ fresh \subseteq Procs
    /\ want \in [Procs -> Calls \cup {NoCall}]
    /\ op \in [Procs -> Kinds \cup {"update_all", None}]
    /\ took \in [Procs -> BOOLEAN]
    /\ trouble \in [Procs -> 0 .. RETRY_TIMES]
    /\ faults \in 0 .. MaxFaults
    /\ writes \in 0 .. MaxWrites

LEMMA TypesSplit == TypeOK <=> ControlOK /\ RestOK
  BY DEF TypeOK, ControlOK, RestOK, AnyObject, Tries

LEMMA TypedNext ==
  ASSUME ControlOK', RestOK', \A q \in Procs : PlaceOK(q)'
  PROVE  Typed'
<1>1. TypeOK'
  BY DEF TypeOK, ControlOK, RestOK, AnyObject, Tries
<1> QED BY <1>1 DEF Typed

LEMMA TroubledType ==
  ASSUME TypeOK, NEW who, Troubled(who)
  PROVE  trouble' \in [Procs -> 0 .. RETRY_TIMES]
  BY RetryAssumption DEF TypeOK, Troubled

LEMMA NoticedType ==
  ASSUME Noticed
  PROVE  took' \in [Procs -> BOOLEAN]
<1>1. \A q \in Procs : (took[q] \/ Purpose(want'[q], obj')) \in BOOLEAN
  BY Zenon
<1> QED BY <1>1 DEF Noticed

\* What the write of a caller makes of the object is an object.
LEMMA OutcomeObject ==
  ASSUME Typed, NEW p \in Procs, pc[p] = "write", NEW host \in Nodes
  PROVE  Outcome(p, host) \in AnyObject
<1>1. /\ op[p] \in AllMethods /\ want[p].kind \in Methods /\ want[p] \in Calls
      /\ op[p] = want[p].kind \/ op[p] = "update_all"
  BY InMethod
<1>2. CASE Method(op[p]).write = "create"
  <2>1. want[p].kind \in {"create", "create_all"}
    BY <1>1, <1>2, Shapes
  <2>2. want[p].arg \in Data
    BY <1>1, <2>1, CallArgs
  <2>3. Outcome(p, host) = NewBody(host, want[p].arg)
    BY <1>2 DEF Outcome
  <2> QED BY <2>2, <2>3, NewBodyObject DEF AnyObject
<1>3. CASE Method(op[p]).write = "delete"
  BY <1>3 DEF Outcome, AnyObject
<1>4. CASE Method(op[p]).write \notin {"create", "delete"}
  <2>1. Outcome(p, host) = body[p]
    BY <1>4 DEF Outcome
  <2> QED BY <2>1, OwnControl DEF Typed
<1> QED BY <1>2, <1>3, <1>4

-----------------------------------------------------------------------------
(* Type correctness.                                                         *)

LEMMA TypedStart == Init => Typed
<1> SUFFICES ASSUME Init
             PROVE  Typed
  OBVIOUS
<1>1. obj \in AnyObject
  BY DEF Init, InitObjects, AnyObject
<1>2. took \in [Procs -> BOOLEAN]
  BY Zenon DEF Init
<1>3. /\ fresh \subseteq Procs /\ want \in [Procs -> Calls \cup {NoCall}]
      /\ op \in [Procs -> Kinds \cup {"update_all", None}]
      /\ trouble \in [Procs -> 0 .. RETRY_TIMES]
      /\ faults \in 0 .. MaxFaults /\ writes \in 0 .. MaxWrites
  BY RetryAssumption, BoundsAssumption DEF Init
<1>4. ControlOK
  BY TryFacts DEF Init, ControlOK, Pcs, AnyObject
<1>5. TypeOK
  BY <1>1, <1>2, <1>3, <1>4, TypesSplit DEF RestOK
<1>6. \A p \in Procs : PlaceOK(p)
  BY DEF Init, PlaceOK
<1> QED BY <1>5, <1>6 DEF Typed

LEMMA TypedCall ==
  ASSUME Typed, Noticed, NEW p \in Procs, NEW c \in Calls, Call(p, c)
  PROVE  Typed'
<1>0. TypeOK /\ RestOK
  BY TypesSplit DEF Typed
<1>1. /\ c.kind \in Methods /\ c.kind \in Kinds
  BY CallArgs DEF Calls
<1> DEFINE first == Method(c.kind).first
<1>2. /\ first \in {"exist", "get", "write"}
      /\ first = "write" => c.kind = "delete"
      /\ first = "get" => c.kind \in {"get", "get_data"}
      /\ first = "exist" => c.kind \notin {"get", "get_data", "delete"}
  BY <1>1, Shapes DEF AllMethods
<1>3. Go(p, first, 0, 0, NoObj)
  BY DEF Call
<1> HIDE DEF first
<1>4. first \in Pcs
  BY <1>2 DEF Pcs
<1>5. Moved(p, first, 0, 0, NoObj)
  BY <1>0, <1>3, <1>4, GoControl, OwnControl, TryFacts DEF Moved
<1>6. /\ want' = [want EXCEPT ![p] = c] /\ op' = [op EXCEPT ![p] = c.kind]
      /\ UNCHANGED <<obj, fresh, trouble, faults, writes>>
  BY DEF Call
<1>7. RestOK'
  BY <1>0, <1>1, <1>6, NoticedType DEF RestOK
<1>8. ControlOK'
  BY <1>5 DEF Moved
<1>9. ASSUME NEW q \in Procs
      PROVE  PlaceOK(q)'
  <2>1. CASE q = p
    <3>1. want'[p] = c /\ op'[p] = c.kind
      BY <1>0, <1>6 DEF RestOK
    <3> QED BY <1>2, <1>5, <2>1, <3>1 DEF PlaceOK, Moved
  <2>2. CASE q # p
    <3>1. want'[q] = want[q] /\ op'[q] = op[q] /\ pc'[q] = pc[q]
      BY <1>0, <1>5, <1>6, <2>2 DEF RestOK, Moved
    <3> QED BY <3>1 DEF Typed, PlaceOK
  <2> QED BY <2>1, <2>2
<1> QED BY <1>7, <1>8, <1>9, TypedNext

LEMMA TypedExist ==
  ASSUME Typed, Noticed, NEW p \in Procs, Exist(p)
  PROVE  Typed'
<1> DEFINE where == IF obj.here THEN Method(op[p]).here ELSE Method(op[p]).absent
<1>0. /\ TypeOK /\ RestOK /\ pc[p] = "exist" /\ PlaceOK(p) /\ Passed(p, where)
      /\ UNCHANGED <<obj, fresh, want, op, trouble, faults, writes>>
  BY TypesSplit DEF Typed, Exist
<1>1. op[p] \in AllMethods /\ op[p] \notin {"get", "get_data", "delete"}
  BY <1>0, InMethod DEF PlaceOK
<1>2. Method(op[p]).here \in {"ok", "get", "write"} /\ Method(op[p]).absent \in {"ok", "write"}
  BY <1>1, Shapes
<1>3. /\ where \in {"ok", "get", "write"}
      /\ where = "get" => op[p] \in {"get", "get_data", "update", "add_label",
                                    "delete_lifecycle", "change_node"}
      /\ where = "write" => op[p] \in {"create", "create_all", "update", "add_label",
                                     "delete_lifecycle", "update_all", "delete"}
  <2>1. CASE obj.here
    <3>1. where = Method(op[p]).here
      BY <2>1
    <3>2. /\ Method(op[p]).here = "ok" <=> op[p] \in {"exist", "create", "create_all"}
          /\ Method(op[p]).here = "get" <=>
               op[p] \in {"update", "add_label", "delete_lifecycle", "change_node"}
      BY <1>1, Shapes
    <3>3. op[p] \in {"exist", "create", "create_all", "update", "add_label",
                    "delete_lifecycle", "change_node", "update_all"}
      BY <1>1 DEF AllMethods, Methods
    <3> HIDE DEF where
    <3> QED BY <1>2, <3>1, <3>2, <3>3
  <2>2. CASE ~ obj.here
    <3>1. where = Method(op[p]).absent
      BY <2>2
    <3>2. Method(op[p]).absent = "write" <=> op[p] \in {"create", "create_all", "delete"}
      BY <1>1, Shapes
    <3> HIDE DEF where
    <3> QED BY <1>2, <3>1, <3>2
  <2> QED BY <2>1, <2>2
<1> HIDE DEF where
<1>4. where \in Pcs
  BY <1>3 DEF Pcs
<1>5. /\ where = "ok" => Moved(p, where, 0, 0, NoObj)
      /\ where # "ok" => Moved(p, where, tries[p], 0, body[p])
  BY <1>0, <1>4, PassedMoved
<1>6. \A q \in Procs : PlaceOK(q)'
  BY <1>0, <1>3, <1>5, PlaceStep
<1>7. RestOK'
  BY <1>0, NoticedType DEF RestOK
<1>8. ControlOK'
  BY <1>5 DEF Moved
<1> QED BY <1>6, <1>7, <1>8, TypedNext

LEMMA TypedGet ==
  ASSUME Typed, Noticed, NEW p \in Procs, Get(p)
  PROVE  Typed'
<1>0. /\ TypeOK /\ RestOK /\ pc[p] = "get" /\ PlaceOK(p) /\ want[p] \in Calls
      /\ obj \in Objects
      /\ UNCHANGED <<obj, want, trouble, faults, writes>>
  BY TypesSplit, InMethod DEF Typed, Get, RestOK, AnyObject, NoObj
<1>1. CASE Content(want[p], obj) /\ Ends(p, "ok") /\ UNCHANGED <<fresh, op>>
  <2>1. Moved(p, "ok", 0, 0, NoObj)
    BY <1>0, <1>1, EndsMoved DEF Pcs
  <2>2. \A q \in Procs : PlaceOK(q)'
    BY <1>0, <1>1, <2>1, PlaceStep
  <2>3. RestOK'
    BY <1>0, <1>1, NoticedType DEF RestOK
  <2> QED BY <2>1, <2>2, <2>3, TypedNext DEF Moved
<1>2. CASE ~ Content(want[p], obj)
  <2> DEFINE where == IF op[p] = "change_node" THEN "exist" ELSE "write"
             copy == Prepared(want[p], obj)
  <2>1. /\ fresh' = fresh \cup {p}
        /\ op' = [op EXCEPT ![p] = IF @ = "change_node" THEN "update_all" ELSE @]
        /\ Go(p, where, tries[p], 0, copy)
    BY <1>2 DEF Get
  <2>2. copy \in AnyObject
    BY <1>0, PreparedObject DEF AnyObject
  <2>3. where \in Pcs
    BY DEF Pcs
  <2>4. Moved(p, where, tries[p], 0, copy)
    <3> HIDE DEF where, copy
    <3> QED BY <1>0, <2>1, <2>2, <2>3, GoControl, OwnControl, TryFacts DEF Moved
  <2>5. /\ op'[p] = IF op[p] = "change_node" THEN "update_all" ELSE op[p]
        /\ \A q \in Procs \ {p} : op'[q] = op[q]
    BY <1>0, <2>1 DEF RestOK
  <2>6. op[p] \notin {"get", "get_data"}
    <3>1. op[p] \in {"get", "get_data"} => want[p].kind = op[p]
      BY <1>0, InMethod
    <3> QED BY <1>2, <3>1 DEF Content
  <2>7. op[p] = "change_node" => want[p].kind = "change_node"
    BY <1>0, InMethod
  <2>8. op[p] \in {"update", "add_label", "delete_lifecycle", "change_node"}
    BY <1>0, <2>6 DEF PlaceOK
  <2>9. \A q \in Procs : PlaceOK(q)'
    <3>1. /\ where \in {"exist", "write"}
          /\ where = "exist" => op[p] = "change_node"
          /\ where = "write" => op[p] # "change_node"
      OBVIOUS
    <3> HIDE DEF where, copy
    <3>2. /\ where = "exist" => op'[p] = "update_all"
          /\ where = "write" => op'[p] = op[p]
      BY <2>5, <3>1
    <3> QED BY <1>0, <2>4, <2>5, <2>7, <2>8, <3>1, <3>2, PlaceStep
  <2>10. RestOK'
    BY <1>0, <2>1, NoticedType DEF RestOK
  <2> QED BY <2>4, <2>9, <2>10, TypedNext DEF Moved
<1> QED BY <1>1, <1>2 DEF Get

LEMMA TypedGetNotFound ==
  ASSUME Typed, Noticed, NEW p \in Procs, GetNotFound(p)
  PROVE  Typed'
<1>1. ControlOK' /\ \A q \in Procs : PlaceOK(q)'
  BY PlaceRead DEF GetNotFound
<1>2. RestOK'
  BY TypesSplit, NoticedType DEF Typed, GetNotFound, RestOK
<1> QED BY <1>1, <1>2, TypedNext

LEMMA TypedReadUnanswered ==
  ASSUME Typed, Noticed, NEW p \in Procs, ReadUnanswered(p)
  PROVE  Typed'
<1>1. ControlOK' /\ \A q \in Procs : PlaceOK(q)'
  BY PlaceRead DEF ReadUnanswered
<1>2. faults' \in 0 .. MaxFaults
  BY TypesSplit, BoundsAssumption DEF Typed, ReadUnanswered, RestOK
<1>3. trouble' \in [Procs -> 0 .. RETRY_TIMES]
  BY TroubledType DEF Typed, ReadUnanswered
<1>4. RestOK'
  BY <1>2, <1>3, TypesSplit, NoticedType DEF Typed, ReadUnanswered, RestOK
<1> QED BY <1>1, <1>4, TypedNext

\* A write that is carried out leaves an object, or none.
LEMMA StoredType ==
  ASSUME Typed, NEW p \in Procs, pc[p] = "write",
         \E host \in Nodes : Stored(p, Outcome(p, host))
  PROVE  obj' \in AnyObject /\ fresh' \subseteq Procs
  BY OutcomeObject DEF Stored, Typed, TypeOK

LEMMA TypedWrite ==
  ASSUME Typed, Noticed, NEW p \in Procs, Write(p)
  PROVE  Typed'
<1>0. /\ TypeOK /\ RestOK /\ pc[p] = "write" /\ pc[p] # "none" /\ "ok" \in Pcs
      /\ UNCHANGED <<want, op, faults, writes>>
  BY TypesSplit DEF Typed, Write, Pcs
<1>3. ControlOK' /\ \A q \in Procs : PlaceOK(q)'
  <2>1. CASE Passed(p, "ok")
    <3>1. Moved(p, "ok", 0, 0, NoObj)
      BY <1>0, <2>1, PassedMoved
    <3> QED BY <1>0, <3>1, PlaceStep DEF Moved
  <2>2. CASE RoundFails(p)
    <3>1. NextRound(p) \/ LastRound(p)
      BY <1>0, <2>2, RoundFailsMoved
    <3> QED BY <1>0, <3>1, PlaceRound DEF NextRound, LastRound, Moved
  <2> QED BY <2>1, <2>2 DEF Write
<1>4. obj' \in AnyObject /\ fresh' \subseteq Procs /\ trouble' \in [Procs -> 0 .. RETRY_TIMES]
  BY <1>0, StoredType, TroubledType DEF Write, RestOK
<1>5. RestOK'
  BY <1>0, <1>4, NoticedType DEF RestOK
<1> QED BY <1>3, <1>5, TypedNext

LEMMA TypedWriteUnanswered ==
  ASSUME Typed, Noticed, NEW p \in Procs, WriteUnanswered(p)
  PROVE  Typed'
<1>0. /\ TypeOK /\ RestOK /\ pc[p] = "write" /\ pc[p] # "none"
      /\ UNCHANGED <<want, op, writes>>
  BY TypesSplit DEF Typed, WriteUnanswered
<1>1. ControlOK' /\ \A q \in Procs : PlaceOK(q)'
  <2>1. NextRound(p) \/ LastRound(p)
    BY <1>0, RoundFailsMoved DEF WriteUnanswered
  <2> QED BY <1>0, <2>1, PlaceRound DEF NextRound, LastRound, Moved
<1>2. faults' \in 0 .. MaxFaults
  BY <1>0, BoundsAssumption DEF WriteUnanswered, RestOK
<1>3. obj' \in AnyObject /\ fresh' \subseteq Procs /\ trouble' \in [Procs -> 0 .. RETRY_TIMES]
  BY <1>0, StoredType, TroubledType DEF WriteUnanswered, RestOK
<1>4. RestOK'
  BY <1>0, <1>2, <1>3, NoticedType DEF RestOK
<1> QED BY <1>1, <1>4, TypedNext

LEMMA TypedElsewhere ==
  ASSUME Typed, Noticed, Elsewhere
  PROVE  Typed'
<1>0. TypeOK /\ RestOK /\ ControlOK /\ UNCHANGED <<want, op, pc, tries, inner, body, faults>>
  BY TypesSplit DEF Typed, Elsewhere
<1>1. obj \in Objects
  BY <1>0 DEF Elsewhere, RestOK, AnyObject, NoObj
<1>2. obj' \in AnyObject
  <2>1. PICK o \in {[obj EXCEPT !.life = l] : l \in Lives}
                   \cup {[obj EXCEPT !.data = d] : d \in Data} : obj' = o
    BY DEF Elsewhere
  <2>2. ASSUME NEW l \in Lives
        PROVE  [obj EXCEPT !.life = l] \in Objects
    BY <1>1 DEF Objects
  <2>3. ASSUME NEW d \in Data
        PROVE  [obj EXCEPT !.data = d] \in Objects
    BY <1>1 DEF Objects
  <2> QED BY <2>1, <2>2, <2>3 DEF AnyObject
<1>3. writes' \in 0 .. MaxWrites
  BY <1>0, BoundsAssumption DEF Elsewhere, RestOK
<1>4. trouble' \in [Procs -> 0 .. RETRY_TIMES]
  BY <1>0, TroubledType DEF Elsewhere
<1>5. fresh' = {}
  BY DEF Elsewhere
<1>6. RestOK'
  BY <1>0, <1>2, <1>3, <1>4, <1>5, NoticedType DEF RestOK
<1>7. ControlOK' /\ \A q \in Procs : PlaceOK(q)'
  BY <1>0 DEF ControlOK, Typed, PlaceOK
<1> QED BY <1>6, <1>7, TypedNext

LEMMA TypedStep ==
  ASSUME Typed, [Next]_vars
  PROVE  Typed'
<1>1. ASSUME NEW p \in Procs, NEW c \in Calls, Call(p, c), Noticed
      PROVE  Typed'
  BY <1>1, TypedCall
<1>2. ASSUME NEW p \in Procs, Proceed(p), Noticed
      PROVE  Typed'
  BY <1>2, TypedExist, TypedGet, TypedGetNotFound, TypedReadUnanswered, TypedWrite,
     TypedWriteUnanswered DEF Proceed
<1>3. ASSUME Elsewhere, Noticed
      PROVE  Typed'
  BY <1>3, TypedElsewhere
<1>4. CASE UNCHANGED vars
  BY <1>4 DEF vars, Typed, TypeOK, PlaceOK
<1> QED BY <1>1, <1>2, <1>3, <1>4 DEF Next

LEMMA TypedAlways == Spec => []Typed
<1> QED BY TypedStart, TypedStep, PTL DEF Spec

\* The variables have their types, whatever the callers call and however many
\* of them there are: rounds and reads are never counted beyond RETRY_TIMES.
THEOREM TypeCorrect == Spec => []TypeOK
<1>1. Typed => TypeOK
  BY DEF Typed
<1> QED BY <1>1, TypedAlways, PTL

-----------------------------------------------------------------------------
(* The bodies that callers send.                                             *)

\* The caller has made its body and is to send it.
Sends(p) ==
    \/ pc[p] = "write" /\ op[p] \in {"update", "add_label", "delete_lifecycle"}
    \/ pc[p] \in {"exist", "write"} /\ op[p] = "update_all"

\* The label host and spec.nodeName agree.
Consistent(o) == o.node \in {None, o.host}

\* A body serves its call, and is that of the object when it is accepted.
BodyOK(p) ==
    Sends(p) =>
      /\ body[p] \in Objects /\ Consistent(body[p])
      /\ Purpose(want[p], body[p])
      /\ p \in fresh => /\ obj \in Objects
                        /\ body[p] = Prepared(want[p], obj)

Bodies == Consistent(obj) /\ \A p \in Procs : BodyOK(p)

\* A caller's body is left alone, and its copy gets no newer by a step that
\* leaves the object, or leaves no copy current.
LEMMA BodyKept ==
  ASSUME NEW q \in Procs, BodyOK(q), want'[q] = want[q],
         Sends(q)' => Sends(q) /\ body'[q] = body[q],
         \/ q \notin fresh'
         \/ obj' = obj /\ (q \in fresh' => q \in fresh)
  PROVE  BodyOK(q)'
  BY DEF BodyOK

LEMMA SendsSame ==
  ASSUME NEW q \in Procs, pc'[q] = pc[q], op'[q] = op[q], body'[q] = body[q]
  PROVE  Sends(q)' => Sends(q) /\ body'[q] = body[q]
  BY DEF Sends

\* A failed round makes the body anew, but for update_all, which keeps it.
LEMMA SendsRound ==
  ASSUME Typed, NEW p \in Procs, Active(p), op' = op, NextRound(p) \/ LastRound(p),
         op[p] = "update_all" => pc[p] # "get"
  PROVE  Sends(p)' => Sends(p) /\ body'[p] = body[p]
<1>1. op'[p] = op[p] /\ op[p] \in AllMethods
  BY InMethod DEF Active
<1>2. CASE NextRound(p)
  <2>1. pc'[p] = Method(op[p]).first /\ body'[p] = body[p]
    BY <1>2 DEF NextRound, Moved
  <2>2. /\ Method(op[p]).first = "write" => op[p] = "delete"
        /\ Method(op[p]).first \in {"exist", "get", "write"}
    BY <1>1, Shapes
  <2>3. Sends(p)' => op[p] = "update_all"
    BY <1>1, <2>1, <2>2 DEF Sends
  <2>4. op[p] = "update_all" => Sends(p)
    BY DEF Sends, Active
  <2> QED BY <2>1, <2>3, <2>4
<1>3. CASE LastRound(p)
  BY <1>3 DEF LastRound, Moved, Sends
<1> QED BY <1>2, <1>3

LEMMA SendsRead ==
  ASSUME Typed, NEW p \in Procs, pc[p] \in {"exist", "get"}, op' = op, ReadFailed(p)
  PROVE  /\ Sends(p)' => Sends(p) /\ body'[p] = body[p]
         /\ \A q \in Procs \ {p} : /\ pc'[q] = pc[q] /\ body'[q] = body[q]
                                  /\ tries'[q] = tries[q] /\ inner'[q] = inner[q]
<1>1. AgainRead(p) \/ NextRound(p) \/ LastRound(p)
  BY ReadFailedMoved
<1>2. Active(p) /\ (op[p] = "update_all" => pc[p] # "get")
  BY DEF Active, Typed, PlaceOK
<1>3. CASE AgainRead(p)
  BY <1>3, SendsSame DEF AgainRead, Moved
<1>4. CASE NextRound(p) \/ LastRound(p)
  BY <1>2, <1>4, SendsRound DEF NextRound, LastRound, Moved
<1> QED BY <1>1, <1>3, <1>4

\* What a write that is carried out does to the object.
Written(p) ==
    /\ \/ fresh' = {}
       \/ obj' = obj /\ fresh' = fresh
    /\ \/ /\ op[p] \in {"create", "create_all"} /\ ~ obj.here
          /\ obj' \in Objects /\ Consistent(obj')
       \/ op[p] = "delete" /\ obj.here /\ obj' = NoObj
       \/ Sends(p) /\ p \in fresh /\ obj' = body[p]

LEMMA WriteDoes ==
  ASSUME Typed, NEW p \in Procs, pc[p] = "write", Accepted(p),
         \E host \in Nodes : Stored(p, Outcome(p, host))
  PROVE  Written(p)
<1>1. PICK host \in Nodes : Stored(p, Outcome(p, host))
  OBVIOUS
<1>2. /\ op[p] \in AllMethods /\ want[p].kind \in Methods /\ want[p] \in Calls
      /\ op[p] = want[p].kind \/ op[p] = "update_all"
      /\ op[p] \in {"create", "create_all", "update", "add_label",
                   "delete_lifecycle", "update_all", "delete"}
  BY InMethod DEF Typed, PlaceOK
<1>3. /\ \/ fresh' = {}
         \/ obj' = obj /\ fresh' = fresh
      /\ obj' = Outcome(p, host)
  BY <1>1 DEF Stored
<1>4. CASE op[p] \in {"create", "create_all"}
  <2>1. Method(op[p]).write = "create"
    BY <1>2, <1>4, Shapes
  <2>2. ~ obj.here /\ obj' = NewBody(host, want[p].arg)
    BY <1>3, <2>1 DEF Accepted, Outcome
  <2>3. want[p].arg \in Data
    BY <1>2, <1>4, CallArgs
  <2>4. obj' \in Objects /\ Consistent(obj')
    BY <2>2, <2>3, NewBodyObject DEF NewBody, Consistent
  <2> QED BY <1>3, <1>4, <2>2, <2>4 DEF Written
<1>5. CASE op[p] = "delete"
  <2>1. Method(op[p]).write = "delete"
    BY <1>2, <1>5, Shapes
  <2>2. obj.here /\ obj' = NoObj
    BY <1>3, <2>1 DEF Accepted, Outcome
  <2> QED BY <1>3, <1>5, <2>2 DEF Written
<1>6. CASE op[p] \in {"update", "add_label", "delete_lifecycle", "update_all"}
  <2>1. Method(op[p]).write = "replace"
    BY <1>2, <1>6, Shapes
  <2>2. p \in fresh /\ obj' = body[p]
    BY <1>3, <2>1 DEF Accepted, Outcome
  <2> QED BY <1>3, <1>6, <2>2 DEF Written, Sends
<1> QED BY <1>2, <1>4, <1>5, <1>6

\* The four ways in which a step deals with the object and the copies.
LEMMA WriteSteps ==
  ASSUME Typed, NEW p \in Procs, Write(p) \/ WriteUnanswered(p)
  PROVE  /\ want' = want /\ op' = op /\ pc[p] = "write"
         /\ Written(p) \/ UNCHANGED <<obj, fresh>>
         /\ Sends(p)' => Sends(p) /\ body'[p] = body[p]
         /\ \A q \in Procs \ {p} : /\ pc'[q] = pc[q] /\ body'[q] = body[q]
                                  /\ tries'[q] = tries[q] /\ inner'[q] = inner[q]
<1>1. want' = want /\ op' = op /\ pc[p] = "write" /\ pc[p] # "none" /\ Active(p)
  BY DEF Write, WriteUnanswered, Active
<1>2. Written(p) \/ UNCHANGED <<obj, fresh>>
  BY <1>1, WriteDoes DEF Write, WriteUnanswered
<1>3. CASE Passed(p, "ok")
  <2>1. Moved(p, "ok", 0, 0, NoObj)
    BY <1>3, PassedMoved DEF Typed, Pcs
  <2> QED BY <1>1, <1>2, <2>1 DEF Moved, Sends
<1>4. CASE RoundFails(p)
  <2>1. NextRound(p) \/ LastRound(p)
    BY <1>1, <1>4, RoundFailsMoved
  <2>2. Sends(p)' => Sends(p) /\ body'[p] = body[p]
    BY <1>1, <2>1, SendsRound
  <2> QED BY <1>1, <1>2, <2>1, <2>2 DEF NextRound, LastRound, Moved
<1> QED BY <1>3, <1>4 DEF Write, WriteUnanswered

\* The object after a write is consistent.
LEMMA WrittenConsistent ==
  ASSUME Typed, Bodies, NEW p \in Procs, Written(p)
  PROVE  Consistent(obj')
  BY DEF Written, Bodies, BodyOK, Consistent, NoObj

LEMMA BodiesStart == Init => Bodies
  BY DEF Init, InitObjects, NoObj, Bodies, BodyOK, Sends, Consistent

LEMMA BodiesCall ==
  ASSUME Typed, Bodies, NEW p \in Procs, NEW c \in Calls, Call(p, c)
  PROVE  Bodies'
<1>1. c.kind \in Methods
  BY CallArgs
<1>2. /\ Method(c.kind).first \in {"exist", "get", "write"}
      /\ Method(c.kind).first = "write" => c.kind = "delete"
      /\ c.kind # "update_all"
  BY <1>1, Shapes DEF AllMethods, Methods
<1>3. /\ pc'[p] = Method(c.kind).first /\ op'[p] = c.kind /\ UNCHANGED <<obj, fresh>>
      /\ \A q \in Procs \ {p} : /\ pc'[q] = pc[q] /\ op'[q] = op[q]
                               /\ want'[q] = want[q] /\ body'[q] = body[q]
  BY TypesSplit DEF Typed, Call, Go, ControlOK, RestOK
<1>4. BodyOK(p)'
  BY <1>2, <1>3 DEF BodyOK, Sends
<1>5. ASSUME NEW q \in Procs \ {p}
      PROVE  BodyOK(q)'
  BY <1>3, SendsSame, BodyKept DEF Bodies
<1> QED BY <1>3, <1>4, <1>5 DEF Bodies, Consistent

\* Where only p moves, and its body is left alone.
LEMMA BodiesMove ==
  ASSUME Bodies, NEW p \in Procs, want' = want, op' = op,
         Sends(p)' => Sends(p) /\ body'[p] = body[p],
         \A q \in Procs \ {p} : pc'[q] = pc[q] /\ body'[q] = body[q],
         \/ fresh' = {}
         \/ obj' = obj /\ fresh' = fresh,
         Consistent(obj')
  PROVE  Bodies'
<1>1. BodyOK(p)'
  BY BodyKept DEF Bodies
<1>2. ASSUME NEW q \in Procs \ {p}
      PROVE  BodyOK(q)'
  BY SendsSame, BodyKept DEF Bodies
<1> QED BY <1>1, <1>2 DEF Bodies, Consistent

\* The answer of exist takes a caller to a request or out of its method.
LEMMA ExistGoes ==
  ASSUME Typed, NEW p \in Procs, Exist(p)
  PROVE  /\ pc[p] = "exist" /\ want' = want /\ op' = op /\ UNCHANGED <<obj, fresh, trouble>>
         /\ op[p] \in AllMethods \ {"get", "get_data", "delete"}
         /\ \A q \in Procs \ {p} : /\ pc'[q] = pc[q] /\ body'[q] = body[q]
                                  /\ tries'[q] = tries[q] /\ inner'[q] = inner[q]
         /\ obj.here => pc'[p] = Method(op[p]).here
         /\ ~ obj.here => pc'[p] = Method(op[p]).absent
         /\ pc'[p] # "ok" => body'[p] = body[p] /\ tries'[p] = tries[p] /\ inner'[p] = 0
<1> DEFINE where == IF obj.here THEN Method(op[p]).here ELSE Method(op[p]).absent
<1>1. /\ pc[p] = "exist" /\ Passed(p, where) /\ want' = want /\ op' = op
      /\ UNCHANGED <<obj, fresh, trouble>> /\ TypeOK
  BY DEF Exist, Typed
<1>2. op[p] \in AllMethods \ {"get", "get_data", "delete"}
  BY <1>1, InMethod DEF Typed, PlaceOK
<1>3. where \in Pcs
  BY <1>2, Shapes DEF Pcs
<1>4. /\ where = "ok" => Moved(p, where, 0, 0, NoObj)
      /\ where # "ok" => Moved(p, where, tries[p], 0, body[p])
  <2> HIDE DEF where
  <2> QED BY <1>1, <1>3, PassedMoved
<1>5. /\ obj.here => where = Method(op[p]).here
      /\ ~ obj.here => where = Method(op[p]).absent
  OBVIOUS
<1> HIDE DEF where
<1> QED BY <1>1, <1>2, <1>4, <1>5 DEF Moved

LEMMA BodiesExist ==
  ASSUME Typed, Bodies, NEW p \in Procs, Exist(p)
  PROVE  Bodies'
<1>1. /\ pc[p] = "exist" /\ want' = want /\ op' = op /\ UNCHANGED <<obj, fresh>>
      /\ op[p] \in AllMethods \ {"get", "get_data", "delete"}
      /\ \A q \in Procs \ {p} : pc'[q] = pc[q] /\ body'[q] = body[q]
      /\ pc'[p] # "ok" => body'[p] = body[p]
      /\ pc'[p] \in {Method(op[p]).here, Method(op[p]).absent}
  BY ExistGoes
<1>2. /\ Method(op[p]).here \in {"ok", "get", "write"}
      /\ Method(op[p]).absent \in {"ok", "write"}
      /\ op[p] \in {"update", "add_label", "delete_lifecycle"} =>
           Method(op[p]).here = "get" /\ Method(op[p]).absent = "ok"
  BY <1>1, Shapes
<1>3. Sends(p)' => Sends(p) /\ body'[p] = body[p]
  BY <1>1, <1>2 DEF Sends
<1>4. Consistent(obj')
  BY <1>1 DEF Bodies, Consistent
<1> QED BY <1>1, <1>3, <1>4, BodiesMove

\* The answer of get: the call ends, or has its body.
GetEnds(p) ==
    /\ Content(want[p], obj) /\ UNCHANGED <<op, fresh>> /\ pc'[p] = "ok"

GetPrepares(p) ==
    /\ ~ Content(want[p], obj) /\ fresh' = fresh \cup {p}
    /\ want[p].kind \in {"update", "add_label", "delete_lifecycle", "change_node"}
    /\ op[p] = want[p].kind
    /\ op'[p] = IF op[p] = "change_node" THEN "update_all" ELSE op[p]
    /\ pc'[p] = IF op[p] = "change_node" THEN "exist" ELSE "write"
    /\ body'[p] = Prepared(want[p], obj)
    /\ tries'[p] = tries[p] /\ inner'[p] = 0

LEMMA GetGoes ==
  ASSUME Typed, NEW p \in Procs, Get(p)
  PROVE  /\ pc[p] = "get" /\ want' = want /\ UNCHANGED <<obj, trouble>>
         /\ want[p] \in Calls /\ obj \in Objects
         /\ \A q \in Procs \ {p} : /\ op'[q] = op[q] /\ pc'[q] = pc[q]
                                  /\ body'[q] = body[q]
                                  /\ tries'[q] = tries[q] /\ inner'[q] = inner[q]
         /\ GetEnds(p) \/ GetPrepares(p)
<1>0. /\ TypeOK /\ RestOK /\ pc[p] = "get" /\ PlaceOK(p) /\ want[p] \in Calls
      /\ obj \in Objects /\ want' = want /\ UNCHANGED <<obj, trouble>>
  BY TypesSplit, InMethod DEF Typed, Get, RestOK, AnyObject, NoObj
<1>1. CASE Content(want[p], obj) /\ Ends(p, "ok") /\ UNCHANGED <<fresh, op>>
  <2>1. Moved(p, "ok", 0, 0, NoObj)
    BY <1>0, <1>1, EndsMoved DEF Pcs
  <2> QED BY <1>0, <1>1, <2>1 DEF GetEnds, Moved
<1>2. CASE ~ Content(want[p], obj)
  <2> DEFINE where == IF op[p] = "change_node" THEN "exist" ELSE "write"
             copy == Prepared(want[p], obj)
  <2>1. /\ fresh' = fresh \cup {p}
        /\ op' = [op EXCEPT ![p] = IF @ = "change_node" THEN "update_all" ELSE @]
        /\ Go(p, where, tries[p], 0, copy)
    BY <1>2 DEF Get
  <2>2. copy \in AnyObject /\ where \in Pcs
    BY <1>0, PreparedObject DEF AnyObject, Pcs
  <2>4. Moved(p, where, tries[p], 0, copy)
    <3> HIDE DEF where, copy
    <3> QED BY <1>0, <2>1, <2>2, GoControl, OwnControl, TryFacts DEF Moved
  <2>5. /\ op'[p] = IF op[p] = "change_node" THEN "update_all" ELSE op[p]
        /\ \A q \in Procs \ {p} : op'[q] = op[q]
    BY <1>0, <2>1 DEF RestOK
  <2>6. op[p] \notin {"get", "get_data"}
    <3>1. op[p] \in {"get", "get_data"} => want[p].kind = op[p]
      BY <1>0, InMethod
    <3> QED BY <1>2, <3>1 DEF Content
  <2>7. op[p] \in {"update", "add_label", "delete_lifecycle", "change_node"}
    BY <1>0, <2>6 DEF PlaceOK
  <2>8. op[p] = want[p].kind
    BY <1>0, <2>7, InMethod
  <2>9. GetPrepares(p)
    BY <1>2, <2>1, <2>4, <2>5, <2>7, <2>8 DEF Moved, GetPrepares
  <2> QED BY <1>0, <2>4, <2>5, <2>9 DEF Moved
<1> QED BY <1>1, <1>2 DEF Get

LEMMA BodiesGet ==
  ASSUME Typed, Bodies, NEW p \in Procs, Get(p)
  PROVE  Bodies'
<1>1. /\ want' = want /\ obj' = obj /\ want[p] \in Calls /\ obj \in Objects
      /\ \A q \in Procs \ {p} : op'[q] = op[q] /\ pc'[q] = pc[q] /\ body'[q] = body[q]
      /\ GetEnds(p) \/ GetPrepares(p)
  BY GetGoes
<1>2. fresh' \subseteq fresh \cup {p}
  BY <1>1 DEF GetEnds, GetPrepares
<1>3. ASSUME NEW q \in Procs \ {p}
      PROVE  BodyOK(q)'
  BY <1>1, <1>2, SendsSame, BodyKept DEF Bodies
<1>4. CASE GetEnds(p)
  BY <1>1, <1>3, <1>4 DEF GetEnds, Bodies, BodyOK, Sends, Consistent
<1>5. CASE GetPrepares(p)
  <2>1. /\ body'[p] = Prepared(want[p], obj)
        /\ want[p].kind \in {"update", "add_label", "delete_lifecycle", "change_node"}
    BY <1>5 DEF GetPrepares
  <2>2. Prepared(want[p], obj) \in Objects /\ Purpose(want[p], Prepared(want[p], obj))
    BY <1>1, <2>1, PreparedObject, PreparedServes
  <2>3. Consistent(Prepared(want[p], obj))
    <3>1. Consistent(obj)
      BY DEF Bodies
    <3> QED BY <1>1, <2>1, <3>1, PreparedFields DEF Consistent
  <2>4. BodyOK(p)'
    BY <1>1, <2>1, <2>2, <2>3 DEF BodyOK, Consistent
  <2> QED BY <1>1, <1>3, <2>4 DEF Bodies, Consistent
<1> QED BY <1>1, <1>4, <1>5

LEMMA BodiesStep ==
  ASSUME Typed, Bodies, [Next]_vars
  PROVE  Bodies'
<1>1. ASSUME NEW p \in Procs, NEW c \in Calls, Call(p, c)
      PROVE  Bodies'
  BY <1>1, BodiesCall
<1>2. ASSUME NEW p \in Procs, GetNotFound(p) \/ ReadUnanswered(p)
      PROVE  Bodies'
  <2>1. /\ pc[p] \in {"exist", "get"} /\ op' = op /\ want' = want
        /\ UNCHANGED <<obj, fresh>> /\ ReadFailed(p)
    BY <1>2 DEF GetNotFound, ReadUnanswered
  <2> QED BY <2>1, SendsRead, BodiesMove DEF Bodies, Consistent
<1>3. ASSUME NEW p \in Procs, Write(p) \/ WriteUnanswered(p)
      PROVE  Bodies'
  <2>1. Consistent(obj)
    BY DEF Bodies
  <2>2. Consistent(obj')
    BY <1>3, <2>1, WriteSteps, WrittenConsistent
  <2> QED BY <1>3, <2>2, WriteSteps, BodiesMove DEF Written
<1>4. CASE Elsewhere
  <2>1. /\ obj.here /\ fresh' = {} /\ UNCHANGED <<want, op, pc, body>>
        /\ \E o \in {[obj EXCEPT !.life = l] : l \in Lives}
                    \cup {[obj EXCEPT !.data = d] : d \in Data} : obj' = o
    BY <1>4 DEF Elsewhere
  <2>2. obj \in Objects
    BY <2>1, TypesSplit DEF Typed, RestOK, AnyObject, NoObj
  <2>3. obj'.host = obj.host /\ obj'.node = obj.node
    BY <2>1, <2>2 DEF Objects
  <2>4. ASSUME NEW q \in Procs
        PROVE  BodyOK(q)'
    BY <2>1, SendsSame, BodyKept DEF Bodies
  <2> QED BY <2>3, <2>4 DEF Bodies, Consistent
<1>5. CASE UNCHANGED vars
  BY <1>5 DEF vars, Bodies, BodyOK, Sends, Consistent
<1> QED BY <1>1, <1>2, <1>3, <1>4, <1>5, BodiesExist, BodiesGet DEF Next, Proceed

-----------------------------------------------------------------------------
(* A call that returns took its effect.                                      *)

EffectOK(p) ==
    /\ Purpose(want[p], obj) => took[p]
    /\ pc[p] = "ok" => took[p]

Effects == \A p \in Procs : EffectOK(p)

LEMMA NoticedTook ==
  ASSUME Noticed, NEW q \in Procs
  PROVE  /\ took[q] => took'[q]
         /\ Purpose(want'[q], obj') => took'[q]
<1>1. took'[q] = (took[q] \/ Purpose(want'[q], obj'))
  BY DEF Noticed
<1> QED BY <1>1, Zenon

\* The end of a call is the only thing to show.
LEMMA EffectsMove ==
  ASSUME Effects, Noticed, NEW p \in Procs,
         \A q \in Procs \ {p} : pc'[q] = pc[q],
         pc'[p] = "ok" => Purpose(want'[p], obj') \/ took[p]
  PROVE  Effects'
<1>1. ASSUME NEW q \in Procs
      PROVE  pc'[q] = "ok" => took'[q]
  <2>1. CASE q = p
    BY <2>1, NoticedTook
  <2>2. CASE q # p
    BY <2>2, NoticedTook DEF Effects, EffectOK
  <2> QED BY <2>1, <2>2
<1>2. ASSUME NEW q \in Procs
      PROVE  Purpose(want'[q], obj') => took'[q]
  BY NoticedTook
<1>3. ASSUME NEW q \in Procs
      PROVE  EffectOK(q)'
  <2>1. Purpose(want[q], obj)' => took[q]'
    BY <1>2 DEF Purpose
  <2> QED BY <1>1, <2>1 DEF EffectOK
<1> QED BY <1>3 DEF Effects

\* exist ends a call for which there is nothing to do.
LEMMA ExistServes ==
  ASSUME Typed, NEW p \in Procs, Exist(p), pc'[p] = "ok"
  PROVE  Purpose(want'[p], obj')
<1>1. /\ pc[p] = "exist" /\ want' = want /\ obj' = obj
      /\ op[p] \in AllMethods \ {"get", "get_data", "delete"}
      /\ obj.here => Method(op[p]).here = "ok"
      /\ ~ obj.here => Method(op[p]).absent = "ok"
  BY ExistGoes
<1>2. /\ want[p].kind \in Methods
      /\ \/ op[p] = want[p].kind
         \/ op[p] = "update_all" /\ want[p].kind = "change_node"
  BY <1>1, InMethod
<1>3. CASE obj.here
  <2>1. op[p] \in {"exist", "create", "create_all"}
    BY <1>1, <1>3, Shapes
  <2>2. want[p].kind \in {"exist", "create", "create_all"}
    BY <1>2, <2>1
  <2>3. CASE want[p].kind = "exist"
    BY <1>1, <2>3 DEF Purpose, None
  <2>4. CASE want[p].kind \in {"create", "create_all"}
    BY <1>1, <1>3, <2>4 DEF Purpose
  <2> QED BY <2>2, <2>3, <2>4
<1>4. CASE ~ obj.here
  <2>1. op[p] \notin {"create", "create_all", "delete"}
    BY <1>1, <1>4, Shapes
  <2>2. want[p].kind \in {"exist", "update", "add_label", "delete_lifecycle", "change_node"}
    BY <1>1, <1>2, <2>1 DEF Methods
  <2>3. obj = NoObj
    BY <1>4, TypesSplit DEF Typed, RestOK, AnyObject, Objects
  <2>4. CASE want[p].kind = "exist"
    BY <1>1, <2>4 DEF Purpose, None
  <2>5. CASE want[p].kind = "delete_lifecycle"
    BY <1>1, <2>3, <2>5 DEF Purpose, NoObj
  <2>6. CASE want[p].kind = "update"
    BY <1>1, <1>4, <2>6 DEF Purpose
  <2>7. CASE want[p].kind = "add_label"
    BY <1>1, <1>4, <2>7 DEF Purpose
  <2>8. CASE want[p].kind = "change_node"
    BY <1>1, <1>4, <2>8 DEF Purpose
  <2> QED BY <2>2, <2>4, <2>5, <2>6, <2>7, <2>8
<1> QED BY <1>3, <1>4

\* A write that is answered with success has served its call; delete also takes
\* Not Found for success.
LEMMA WriteServes ==
  ASSUME Typed, Bodies, NEW p \in Procs, Write(p), pc'[p] = "ok"
  PROVE  Purpose(want'[p], obj')
<1>1. /\ pc[p] = "write" /\ pc[p] # "none" /\ want' = want
  BY DEF Write
<1>2. /\ op[p] \in AllMethods /\ want[p].kind \in Methods
      /\ \/ op[p] = want[p].kind
         \/ op[p] = "update_all" /\ want[p].kind = "change_node"
  BY <1>1, InMethod
<1>3. CASE Accepted(p)
  <2>1. Written(p)
    BY <1>1, <1>3, WriteDoes DEF Write
  <2>2. CASE op[p] \in {"create", "create_all"} /\ obj' \in Objects
    <3>1. want[p].kind \in {"create", "create_all"} /\ obj'.here
      BY <1>2, <2>2 DEF Objects
    <3> QED BY <1>1, <3>1 DEF Purpose
  <2>3. CASE op[p] = "delete" /\ obj' = NoObj
    <3>1. want[p].kind = "delete" /\ ~ obj'.here
      BY <1>2, <2>3 DEF NoObj
    <3> QED BY <1>1, <3>1 DEF Purpose
  <2>4. CASE Sends(p) /\ obj' = body[p]
    <3>1. Purpose(want[p], body[p])
      BY <2>4 DEF Bodies, BodyOK
    <3> QED BY <1>1, <2>4, <3>1
  <2> QED BY <2>1, <2>2, <2>3, <2>4 DEF Written
<1>4. CASE ~ Accepted(p) /\ op[p] = "delete"
  <2>1. obj' = obj /\ ~ obj.here
    BY <1>2, <1>4, Shapes DEF Write, Accepted
  <2>2. want[p].kind = "delete"
    BY <1>2, <1>4
  <2> QED BY <1>1, <2>1, <2>2 DEF Purpose
<1>5. CASE ~ Accepted(p) /\ op[p] # "delete"
  <2>1. RoundFails(p)
    BY <1>5 DEF Write
  <2>2. NextRound(p) \/ LastRound(p)
    BY <1>1, <2>1, RoundFailsMoved
  <2>3. pc'[p] \in {"raised", "exist", "get", "write"}
    BY <1>2, <2>2, Shapes DEF NextRound, LastRound, Moved
  <2> QED BY <2>3
<1> QED BY <1>3, <1>4, <1>5

\* A failed read or round is no return.
LEMMA FailureIsNoReturn ==
  ASSUME Typed, NEW p \in Procs,
         \/ pc[p] \in {"exist", "get"} /\ ReadFailed(p)
         \/ pc[p] = "write" /\ RoundFails(p)
  PROVE  /\ pc'[p] # "ok"
         /\ \A q \in Procs \ {p} : pc'[q] = pc[q]
<1>1. pc[p] # "none" /\ op[p] \in AllMethods
  BY InMethod
<1>2. (pc[p] \in {"exist", "get"} /\ AgainRead(p)) \/ NextRound(p) \/ LastRound(p)
  BY <1>1, ReadFailedMoved, RoundFailsMoved
<1> QED BY <1>1, <1>2, Shapes DEF AgainRead, NextRound, LastRound, Moved

LEMMA EffectsStart == Init => Effects
<1> SUFFICES ASSUME Init, NEW p \in Procs
             PROVE  EffectOK(p)
  BY DEF Effects
<1>1. want[p] = NoCall /\ pc[p] = "none"
  BY DEF Init
<1>2. ~ Purpose(NoCall, obj)
  BY DEF NoCall, Purpose, None
<1> QED BY <1>1, <1>2 DEF EffectOK

LEMMA EffectsStep ==
  ASSUME Typed, Bodies, Effects, [Next]_vars
  PROVE  Effects'
<1>1. ASSUME NEW p \in Procs, NEW c \in Calls, Call(p, c), Noticed
      PROVE  Effects'
  <2>1. c.kind \in AllMethods
    BY CallArgs DEF AllMethods
  <2>2. Method(c.kind).first # "ok"
    BY <2>1, Shapes
  <2>3. /\ pc'[p] = Method(c.kind).first
        /\ \A q \in Procs \ {p} : pc'[q] = pc[q]
    BY <1>1, TypesSplit DEF Typed, Call, Go, ControlOK
  <2> QED BY <1>1, <2>2, <2>3, EffectsMove
<1>2. ASSUME NEW p \in Procs, Exist(p), Noticed
      PROVE  Effects'
  BY <1>2, ExistGoes, ExistServes, EffectsMove
<1>3. ASSUME NEW p \in Procs, Get(p), Noticed
      PROVE  Effects'
  <2>1. /\ want' = want /\ obj' = obj /\ want[p] \in Calls
        /\ \A q \in Procs \ {p} : pc'[q] = pc[q]
        /\ GetEnds(p) \/ GetPrepares(p)
    BY <1>3, GetGoes
  <2>2. pc'[p] = "ok" => Content(want[p], obj)
    BY <2>1 DEF GetEnds, GetPrepares
  <2>3. pc'[p] = "ok" => Purpose(want'[p], obj')
    BY <2>1, <2>2, ContentServes
  <2> QED BY <1>3, <2>1, <2>3, EffectsMove
<1>4. ASSUME NEW p \in Procs, GetNotFound(p) \/ ReadUnanswered(p), Noticed
      PROVE  Effects'
  BY <1>4, FailureIsNoReturn, EffectsMove DEF GetNotFound, ReadUnanswered
<1>5. ASSUME NEW p \in Procs, Write(p), Noticed
      PROVE  Effects'
  BY <1>5, WriteSteps, WriteServes, EffectsMove
<1>6. ASSUME NEW p \in Procs, WriteUnanswered(p), Noticed
      PROVE  Effects'
  BY <1>6, FailureIsNoReturn, EffectsMove DEF WriteUnanswered
<1>7. ASSUME Elsewhere, Noticed
      PROVE  Effects'
  <2>1. pc' = pc
    BY <1>7 DEF Elsewhere
  <2>2. CASE Procs = {}
    BY <2>2 DEF Effects
  <2>3. ASSUME NEW p \in Procs
        PROVE  Effects'
    <3>1. pc'[p] = "ok" => took[p]
      BY <2>1 DEF Effects, EffectOK
    <3> QED BY <1>7, <2>1, <3>1, EffectsMove
  <2> QED BY <2>2, <2>3
<1>8. CASE UNCHANGED vars
  BY <1>8 DEF vars, Effects, EffectOK
<1> QED BY <1>1, <1>2, <1>3, <1>4, <1>5, <1>6, <1>7, <1>8 DEF Next, Proceed

LEMMA EffectsAlways == Spec => [](Typed /\ Bodies /\ Effects)
<1>1. Init => Typed /\ Bodies /\ Effects
  BY TypedStart, BodiesStart, EffectsStart
<1>2. Typed /\ Bodies /\ Effects /\ [Next]_vars => (Typed /\ Bodies /\ Effects)'
  BY TypedStep, BodiesStep, EffectsStep
<1> QED BY <1>1, <1>2, PTL DEF Spec

\* A method of K8sHelper that returns found or made its purpose true at a moment
\* of its call, however many processes write the object, however many requests
\* fail and however many answers are lost.
THEOREM ReturnedCallsTookEffect == Spec => []TookEffect
<1>1. Effects => TookEffect
  BY DEF Effects, EffectOK, TookEffect
<1> QED BY <1>1, EffectsAlways, PTL

-----------------------------------------------------------------------------
(* A write changes one thing.                                                *)

\* What one write may do to the object.
OneThing ==
    obj.here /\ obj'.here =>
        /\ obj'.host # obj.host =>
              obj'.data = obj.data /\ obj'.label = obj.label
        /\ obj'.label # obj.label =>
              /\ obj'.host = obj.host /\ obj'.data = obj.data
              /\ obj'.life = obj.life
        /\ obj'.data # obj.data =>
              obj'.host = obj.host /\ obj'.label = obj.label
        /\ obj.node # None =>
              (obj'.host # obj.host <=> obj'.node # obj.node)

LEMMA WrittenOneThing ==
  ASSUME Typed, Bodies, NEW p \in Procs, Written(p), pc[p] = "write"
  PROVE  OneThing
<1>1. CASE op[p] \in {"create", "create_all"} /\ ~ obj.here
  BY <1>1 DEF OneThing
<1>2. CASE obj' = NoObj
  BY <1>2 DEF OneThing, NoObj
<1>3. CASE Sends(p) /\ p \in fresh /\ obj' = body[p]
  <2>1. obj \in Objects /\ obj' = Prepared(want[p], obj) /\ Consistent(obj')
    BY <1>3 DEF Bodies, BodyOK, Consistent
  <2>2. /\ want[p] \in Calls
        /\ want[p].kind \in {"update", "add_label", "delete_lifecycle", "change_node"}
    <3>1. op[p] \in {"update", "add_label", "delete_lifecycle", "update_all"}
      BY <1>3 DEF Sends
    <3>2. pc[p] # "none"
      OBVIOUS
    <3>3. /\ want[p] \in Calls /\ want[p].kind \in Methods
          /\ \/ op[p] = want[p].kind
             \/ op[p] = "update_all" /\ want[p].kind = "change_node"
      BY <3>2, InMethod
    <3> QED BY <3>1, <3>3 DEF Methods
  <2>3. Consistent(obj)
    BY DEF Bodies
  <2>4. CASE want[p].kind = "update"
    BY <2>1, <2>2, <2>3, <2>4, PreparedFields DEF OneThing, Consistent
  <2>5. CASE want[p].kind = "add_label"
    BY <2>1, <2>2, <2>3, <2>5, PreparedFields DEF OneThing, Consistent
  <2>6. CASE want[p].kind = "delete_lifecycle"
    BY <2>1, <2>2, <2>3, <2>6, PreparedFields DEF OneThing, Consistent
  <2>7. CASE want[p].kind = "change_node"
    BY <2>1, <2>2, <2>3, <2>7, PreparedFields DEF OneThing, Consistent
  <2> QED BY <2>2, <2>4, <2>5, <2>6, <2>7
<1> QED BY <1>1, <1>2, <1>3 DEF Written

LEMMA OneThingStep ==
  ASSUME Typed, Bodies, [Next]_vars
  PROVE  OneThing
<1>1. CASE obj' = obj
  BY <1>1 DEF OneThing
<1>2. ASSUME NEW p \in Procs, Write(p) \/ WriteUnanswered(p)
      PROVE  OneThing
  BY <1>1, <1>2, WriteSteps, WrittenOneThing
<1>3. CASE Elsewhere
  <2>1. /\ obj.here
        /\ \E o \in {[obj EXCEPT !.life = l] : l \in Lives}
                    \cup {[obj EXCEPT !.data = d] : d \in Data} : obj' = o
    BY <1>3 DEF Elsewhere
  <2>2. obj \in Objects
    BY <2>1, TypesSplit DEF Typed, RestOK, AnyObject, NoObj
  <2> QED BY <2>1, <2>2 DEF OneThing, Objects
<1> QED BY <1>1, <1>2, <1>3 DEF Next, Proceed, Call, Exist, Get, GetNotFound,
        ReadUnanswered, vars

\* No write of K8sHelper brings back what another process changed in between:
\* a move leaves data and labels, a label leaves node, data and command, data
\* leave node and labels; host and nodeName move together.
THEOREM WritesChangeOneThing == Spec => OneThingAtATime
<1>1. Typed /\ Bodies /\ [Next]_vars => [OneThing]_vars
  BY OneThingStep
<1> QED BY <1>1, EffectsAlways, PTL DEF Spec, OneThingAtATime, OneThing

-----------------------------------------------------------------------------
(* A call that raises was disturbed in each of its rounds.                   *)

\* Methods that make their body, if any, in every round.
Anew(p) == op[p] \in {"create", "create_all", "update", "add_label",
                     "delete_lifecycle", "delete"}

\* The round is going to fail unless a retry of a read helps.
Due(p) ==
    \/ inner[p] > 0
    \/ pc[p] = "get" /\ ~ obj.here
    \/ pc[p] = "write" /\ op[p] # "delete" /\ ~ Accepted(p)

RaisedOK(p) ==
    pc[p] = "raised" =>
        /\ want[p].kind \notin {"change_node", "get", "get_data"} =>
              trouble[p] = RETRY_TIMES
        /\ want[p].kind = "change_node" => trouble[p] > 0

TroubleOK(p) ==
    /\ RaisedOK(p)
    /\ Active(p) =>
         /\ Anew(p) => /\ trouble[p] >= tries[p]
                       /\ Due(p) => trouble[p] >= tries[p] + 1
         /\ op[p] = "exist" => trouble[p] >= inner[p]
         /\ op[p] = "change_node" /\ (Due(p) \/ tries[p] > 0) => trouble[p] > 0
         /\ op[p] = "update_all" /\ (Due(p) \/ tries[p] > 0 \/ p \notin fresh \/ ~ obj.here) =>
              trouble[p] > 0

Troubles == \A p \in Procs : TroubleOK(p)

\* The caller is disturbed now.
Bumped(q) ==
    /\ trouble'[q] >= trouble[q]
    /\ trouble'[q] = RETRY_TIMES \/ trouble'[q] >= trouble[q] + 1

LEMMA TroubleTypes ==
  ASSUME Typed, NEW q \in Procs
  PROVE  /\ trouble[q] \in 0 .. RETRY_TIMES /\ tries[q] \in Tries /\ inner[q] \in Tries
         /\ RETRY_TIMES \in Nat /\ RETRY_TIMES > 0
  BY RetryAssumption DEF Typed, TypeOK, Tries

LEMMA TroubledBumps ==
  ASSUME Typed, NEW who, Troubled(who), NEW q \in Procs
  PROVE  /\ q \in who => Bumped(q)
         /\ q \notin who => trouble'[q] = trouble[q]
         /\ trouble'[q] >= trouble[q]
<1>1. trouble'[q] = IF q \in who /\ trouble[q] < RETRY_TIMES
                    THEN trouble[q] + 1 ELSE trouble[q]
  BY DEF Troubled
<1> QED BY <1>1, TroubleTypes DEF Bumped

\* Accepted looks at the object, the method and the copy only.
LEMMA AcceptedSame ==
  ASSUME NEW q \in Procs, op'[q] = op[q], obj' = obj, q \in fresh' <=> q \in fresh
  PROVE  Accepted(q)' <=> Accepted(q)
  BY DEF Accepted, Method, Shape, ExistMethod, GetMethod, GetDataMethod,
     CreateMethod, CreateAllMethod, UpdateMethod, AddLabelMethod,
     DeleteLifecycleMethod, DeleteMethod, UpdateAllMethod, ChangeNodeMethod

\* Another caller: it keeps its object, or is disturbed.
LEMMA TroubleOther ==
  ASSUME Typed, Typed', NEW q \in Procs, TroubleOK(q),
         want'[q] = want[q], op'[q] = op[q], pc'[q] = pc[q],
         tries'[q] = tries[q], inner'[q] = inner[q],
         trouble'[q] >= trouble[q],
         \/ Active(q) /\ Bumped(q)
         \/ ~ Active(q)
         \/ obj' = obj /\ (q \in fresh' <=> q \in fresh)
  PROVE  TroubleOK(q)'
<1>1. /\ trouble[q] \in 0 .. RETRY_TIMES /\ tries[q] \in Tries /\ inner[q] \in Tries
      /\ RETRY_TIMES \in Nat /\ RETRY_TIMES > 0
      /\ \A n \in Tries : n \in Nat /\ n + 1 <= RETRY_TIMES
  BY TroubleTypes, TryFacts
<1>2. trouble'[q] \in 0 .. RETRY_TIMES
  BY DEF Typed, TypeOK
<1>3. RaisedOK(q)'
  BY <1>1, <1>2 DEF TroubleOK, RaisedOK
<1>4. CASE Active(q) /\ Bumped(q)
  <2>1. trouble'[q] = RETRY_TIMES \/ trouble'[q] >= trouble[q] + 1
    BY <1>4 DEF Bumped
  <2>2. /\ Anew(q) => trouble[q] >= tries[q]
        /\ op[q] = "exist" => trouble[q] >= inner[q]
    BY <1>4 DEF TroubleOK
  <2>3. trouble'[q] > 0
    BY <1>1, <1>2, <2>1
  <2>4. /\ Anew(q) => trouble'[q] >= tries[q] + 1
        /\ op[q] = "exist" => trouble'[q] >= inner[q]
    BY <1>1, <1>2, <2>1, <2>2
  <2>5. Anew(q) => trouble'[q] >= tries[q]
    BY <1>1, <1>2, <2>4
  <2> QED BY <1>3, <2>3, <2>4, <2>5 DEF TroubleOK, Anew
<1>5. CASE ~ Active(q)
  BY <1>3, <1>5 DEF TroubleOK, Active
<1>6. CASE obj' = obj /\ (q \in fresh' <=> q \in fresh)
  <2>1. Due(q)' <=> Due(q)
    BY <1>6, AcceptedSame DEF Due
  <2> QED BY <1>1, <1>2, <1>3, <1>6, <2>1 DEF TroubleOK, Anew, Active
<1> QED BY <1>4, <1>5, <1>6

\* The round fails for a reason: it was disturbed.
Cause(p) ==
    /\ Anew(p) => trouble'[p] >= tries[p] + 1
    /\ op[p] = "exist" => trouble'[p] >= inner[p] + 1
    /\ op[p] \in {"change_node", "update_all"} => trouble'[p] > 0

LEMMA FailedRound ==
  ASSUME Typed, Typed', NEW p \in Procs, pc[p] # "none", want' = want, op' = op,
         Cause(p), NextRound(p) \/ LastRound(p),
         op[p] = "exist" => inner[p] + 1 = RETRY_TIMES
  PROVE  TroubleOK(p)'
<1>1. /\ op[p] \in AllMethods /\ want[p].kind \in Methods
      /\ \/ op[p] = want[p].kind
         \/ op[p] = "update_all" /\ want[p].kind = "change_node"
  BY InMethod
<1>2. /\ tries[p] \in Tries /\ RETRY_TIMES \in Nat /\ RETRY_TIMES > 0
      /\ tries[p] \in Nat /\ tries[p] + 1 <= RETRY_TIMES
  BY TroubleTypes, TryFacts
<1>3. trouble'[p] \in 0 .. RETRY_TIMES
  BY DEF Typed, TypeOK
<1>4. CASE NextRound(p)
  <2>1. /\ op[p] \notin {"exist", "get", "get_data", "change_node"}
        /\ Method(op[p]).first \in {"exist", "write"}
        /\ Method(op[p]).first = "write" => op[p] = "delete"
    BY <1>1, <1>4, Shapes DEF NextRound
  <2>2. /\ pc'[p] = Method(op[p]).first /\ tries'[p] = tries[p] + 1 /\ inner'[p] = 0
    BY <1>4 DEF NextRound, Moved
  <2>3. ~ Due(p)' \/ op[p] = "update_all"
    BY <2>1, <2>2 DEF Due
  <2>4. RaisedOK(p)'
    BY <2>1, <2>2 DEF RaisedOK
  <2>5. Anew(p) => trouble'[p] >= tries'[p] /\ ~ Due(p)'
    BY <2>2, <2>3 DEF Cause, Anew
  <2>6. op[p] = "update_all" => trouble'[p] > 0
    BY DEF Cause
  <2> QED BY <2>1, <2>4, <2>5, <2>6 DEF TroubleOK, Anew
<1>5. CASE LastRound(p)
  <2>1. pc'[p] = "raised" /\ ~ (Method(op[p]).rounds /\ tries[p] + 1 < RETRY_TIMES)
    BY <1>5 DEF LastRound, Moved
  <2>2. Anew(p) => tries[p] + 1 = RETRY_TIMES
    <3>1. Anew(p) => Method(op[p]).rounds
      BY <1>1, Shapes DEF Anew
    <3> QED BY <1>2, <2>1, <3>1
  <2>3. Anew(p) \/ op[p] = "exist" => trouble'[p] = RETRY_TIMES
    BY <1>2, <1>3, <2>2 DEF Cause
  <2>4. want[p].kind \notin {"change_node", "get", "get_data"} => Anew(p) \/ op[p] = "exist"
    BY <1>1 DEF Methods, Anew
  <2>5. want[p].kind = "change_node" => trouble'[p] > 0
    BY <1>1 DEF Cause
  <2>6. RaisedOK(p)'
    BY <2>3, <2>4, <2>5 DEF RaisedOK
  <2> QED BY <2>1, <2>6 DEF TroubleOK, Active
<1> QED BY <1>4, <1>5

LEMMA FailedRead ==
  ASSUME Typed, Typed', NEW p \in Procs, pc[p] \in {"exist", "get"},
         want' = want, op' = op, Cause(p), ReadFailed(p)
  PROVE  TroubleOK(p)'
<1>1. CASE AgainRead(p)
  <2>1. pc'[p] = pc[p] /\ tries'[p] = tries[p] /\ inner'[p] = inner[p] + 1
    BY <1>1 DEF AgainRead, Moved
  <2>2. /\ tries[p] \in Nat /\ inner[p] \in Nat /\ trouble'[p] \in Nat
    BY TroubleTypes, TryFacts DEF Typed, TypeOK
  <2>3. /\ Anew(p) => trouble'[p] >= tries[p] /\ trouble'[p] >= tries[p] + 1
        /\ op[p] = "exist" => trouble'[p] >= inner'[p]
        /\ op[p] \in {"change_node", "update_all"} => trouble'[p] > 0
    BY <2>1, <2>2 DEF Cause
  <2>4. RaisedOK(p)'
    BY <2>1 DEF RaisedOK
  <2> QED BY <2>1, <2>3, <2>4 DEF TroubleOK, Anew
<1>2. CASE inner[p] + 1 = RETRY_TIMES /\ (NextRound(p) \/ LastRound(p))
  BY <1>2, FailedRound
<1> QED BY <1>1, <1>2, ReadFailedMoved

LEMMA TroublesStart == Init => Troubles
  BY DEF Init, Troubles, TroubleOK, RaisedOK, Active

\* p moves, and nobody is disturbed.
LEMMA TroublesMove ==
  ASSUME Typed, Typed', Troubles, NEW p \in Procs, obj' = obj, trouble' = trouble,
         \A q \in Procs \ {p} :
            /\ want'[q] = want[q] /\ op'[q] = op[q] /\ pc'[q] = pc[q]
            /\ tries'[q] = tries[q] /\ inner'[q] = inner[q]
            /\ q \in fresh' <=> q \in fresh,
         TroubleOK(p)'
  PROVE  Troubles'
<1>1. ASSUME NEW q \in Procs \ {p}
      PROVE  TroubleOK(q)'
  <2>1. TroubleOK(q) /\ trouble'[q] >= trouble[q]
    BY TroubleTypes DEF Troubles
  <2> QED BY <2>1, TroubleOther
<1> QED BY <1>1 DEF Troubles

LEMMA TroublesCall ==
  ASSUME Typed, Typed', Troubles, NEW p \in Procs, NEW c \in Calls, Call(p, c)
  PROVE  Troubles'
<1>1. c.kind \in Methods
  BY CallArgs
<1>2. /\ Method(c.kind).first \in {"exist", "get", "write"}
      /\ Method(c.kind).first = "write" => c.kind = "delete"
      /\ Method(c.kind).first = "get" => c.kind \in {"get", "get_data"}
      /\ c.kind # "update_all"
  BY <1>1, Shapes DEF AllMethods, Methods
<1>3. /\ pc'[p] = Method(c.kind).first /\ op'[p] = c.kind
      /\ tries'[p] = 0 /\ inner'[p] = 0 /\ UNCHANGED <<obj, fresh, trouble>>
      /\ \A q \in Procs \ {p} : /\ want'[q] = want[q] /\ op'[q] = op[q] /\ pc'[q] = pc[q]
                               /\ tries'[q] = tries[q] /\ inner'[q] = inner[q]
  BY TypesSplit DEF Typed, Call, Go, ControlOK, RestOK
<1>4. trouble'[p] >= 0
  BY TroubleTypes DEF Typed, TypeOK
<1>5. Anew(p)' \/ op'[p] = "change_node" => ~ Due(p)'
  BY <1>2, <1>3 DEF Anew, Due
<1>6. RaisedOK(p)'
  BY <1>2, <1>3 DEF RaisedOK
<1>7. TroubleOK(p)'
  BY <1>2, <1>3, <1>4, <1>5, <1>6 DEF TroubleOK
<1> QED BY <1>3, <1>7, TroublesMove

LEMMA TroublesExist ==
  ASSUME Typed, Typed', Troubles, NEW p \in Procs, Exist(p)
  PROVE  Troubles'
<1>1. /\ pc[p] = "exist" /\ want' = want /\ op' = op /\ UNCHANGED <<obj, fresh, trouble>>
      /\ op[p] \in AllMethods \ {"get", "get_data", "delete"}
      /\ \A q \in Procs \ {p} : /\ pc'[q] = pc[q] /\ tries'[q] = tries[q]
                               /\ inner'[q] = inner[q]
      /\ obj.here => pc'[p] = Method(op[p]).here
      /\ ~ obj.here => pc'[p] = Method(op[p]).absent
      /\ pc'[p] # "ok" => tries'[p] = tries[p] /\ inner'[p] = 0
  BY ExistGoes
<1>2. /\ Method(op[p]).here \in {"ok", "get", "write"}
      /\ Method(op[p]).absent \in {"ok", "write"}
      /\ Method(op[p]).absent = "write" => op[p] \in {"create", "create_all"}
      /\ op[p] \in {"create", "create_all", "exist"} => Method(op[p]).here = "ok"
      /\ op[p] \in {"update", "add_label", "delete_lifecycle", "change_node"} =>
           Method(op[p]).here = "get"
  BY <1>1, Shapes
<1>3. CASE pc'[p] = "ok"
  <2>1. TroubleOK(p)'
    BY <1>3 DEF TroubleOK, RaisedOK, Active
  <2> QED BY <1>1, <2>1, TroublesMove
<1>4. CASE pc'[p] # "ok"
  <2>1. TroubleOK(p) /\ Active(p)
    BY <1>1 DEF Troubles, Active
  <2>2. Anew(p) \/ op[p] = "change_node" => ~ Due(p)'
    <3>1. CASE obj.here
      BY <1>1, <1>2, <1>4, <3>1 DEF Due, Anew
    <3>2. CASE ~ obj.here
      <4>1. op[p] \in {"create", "create_all"} /\ op'[p] = op[p] /\ pc'[p] = "write"
        BY <1>1, <1>2, <1>4, <3>2
      <4>2. Method(op[p]).write = "create"
        BY <1>1, <4>1, Shapes
      <4>3. Accepted(p)
        BY <3>2, <4>2 DEF Accepted
      <4>4. Accepted(p)'
        BY <1>1, <4>1, <4>3, AcceptedSame
      <4> QED BY <1>1, <1>4, <4>1, <4>4 DEF Due
    <3> QED BY <3>1, <3>2
  <2>3. RaisedOK(p)'
    BY <1>1, <1>2, <1>4 DEF RaisedOK
  <2>4. op[p] # "exist"
    BY <1>1, <1>2, <1>4, Shapes
  <2>5. op[p] = "change_node" => (tries[p] > 0 => trouble[p] > 0)
    BY <2>1 DEF TroubleOK
  <2>6. op[p] = "update_all" =>
          (tries[p] > 0 \/ p \notin fresh \/ ~ obj.here => trouble[p] > 0)
    BY <2>1 DEF TroubleOK
  <2>7. op[p] = "update_all" /\ Due(p)' => p \notin fresh \/ ~ obj.here
    <3>1. ASSUME op[p] = "update_all", p \in fresh, obj.here
          PROVE  ~ Due(p)'
      <4>1. Method(op[p]).here = "write" /\ Method(op[p]).write = "replace"
        BY <3>1, <1>1, Shapes DEF Method, UpdateAllMethod, Shape
      <4>2. Accepted(p)
        BY <3>1, <4>1 DEF Accepted
      <4>3. Accepted(p)'
        BY <1>1, <4>2, AcceptedSame
      <4> QED BY <1>1, <1>4, <3>1, <4>1, <4>3 DEF Due
    <3> QED BY <3>1
  <2>8. TroubleOK(p)'
    BY <1>1, <1>4, <2>1, <2>2, <2>3, <2>4, <2>5, <2>6, <2>7 DEF TroubleOK, Anew
  <2> QED BY <1>1, <2>8, TroublesMove
<1> QED BY <1>3, <1>4

LEMMA TroublesGet ==
  ASSUME Typed, Typed', Troubles, NEW p \in Procs, Get(p)
  PROVE  Troubles'
<1>1. /\ pc[p] = "get" /\ want' = want /\ UNCHANGED <<obj, trouble>> /\ obj.here
      /\ \A q \in Procs \ {p} : /\ op'[q] = op[q] /\ pc'[q] = pc[q]
                               /\ tries'[q] = tries[q] /\ inner'[q] = inner[q]
      /\ GetEnds(p) \/ GetPrepares(p)
  BY GetGoes DEF Objects
<1>2. fresh' = fresh \/ fresh' = fresh \cup {p}
  BY <1>1 DEF GetEnds, GetPrepares
<1>3. \A q \in Procs \ {p} : q \in fresh' <=> q \in fresh
  BY <1>2
<1>4. CASE GetEnds(p)
  <2>1. TroubleOK(p)'
    BY <1>4 DEF GetEnds, TroubleOK, RaisedOK, Active
  <2> QED BY <1>1, <1>3, <2>1, TroublesMove
<1>5. CASE GetPrepares(p)
  <2>1. /\ p \in fresh' /\ tries'[p] = tries[p] /\ inner'[p] = 0
        /\ op[p] \in {"update", "add_label", "delete_lifecycle", "change_node"}
        /\ op'[p] = IF op[p] = "change_node" THEN "update_all" ELSE op[p]
        /\ pc'[p] = IF op[p] = "change_node" THEN "exist" ELSE "write"
    BY <1>5 DEF GetPrepares
  <2>2. TroubleOK(p) /\ Active(p)
    BY <1>1 DEF Troubles, Active
  <2>3. ~ Due(p)'
    <3>1. CASE op[p] = "change_node"
      BY <2>1, <3>1 DEF Due
    <3>2. CASE op[p] # "change_node"
      <4>1. op'[p] = op[p] /\ Method(op[p]).write = "replace"
        BY <2>1, <3>2, Shapes DEF AllMethods, Methods
      <4>2. Method(op'[p]).write = "replace"
        BY <4>1
      <4>3. Accepted(p)'
        BY <1>1, <2>1, <4>2 DEF Accepted, Method, Shape, ExistMethod, GetMethod,
           GetDataMethod, CreateMethod, CreateAllMethod, UpdateMethod, AddLabelMethod,
           DeleteLifecycleMethod, DeleteMethod, UpdateAllMethod, ChangeNodeMethod
      <4> QED BY <2>1, <3>2, <4>3 DEF Due
    <3> QED BY <3>1, <3>2
  <2>4. RaisedOK(p)'
    BY <2>1 DEF RaisedOK
  <2>5. CASE op[p] = "change_node"
    <3>1. tries[p] > 0 => trouble[p] > 0
      BY <2>2, <2>5 DEF TroubleOK
    <3> QED
      <4>1. TroubleOK(p)'
        BY <1>1, <2>1, <2>3, <2>4, <2>5, <3>1 DEF TroubleOK, Anew
      <4> QED BY <1>1, <1>3, <4>1, TroublesMove
  <2>6. CASE op[p] # "change_node"
    <3>1. Anew(p) /\ trouble[p] >= tries[p]
      BY <2>1, <2>2, <2>6 DEF TroubleOK, Anew
    <3>2. TroubleOK(p)'
      BY <1>1, <2>1, <2>3, <2>4, <2>6, <3>1 DEF TroubleOK, Anew
    <3> QED BY <1>1, <1>3, <3>2, TroublesMove
  <2> QED BY <2>5, <2>6
<1> QED BY <1>1, <1>4, <1>5

\* A disturbance is reason enough for a round to fail.
LEMMA BumpCauses ==
  ASSUME Typed, Typed', NEW p \in Procs, TroubleOK(p), Active(p), Bumped(p)
  PROVE  Cause(p)
<1>1. /\ trouble[p] \in 0 .. RETRY_TIMES /\ tries[p] \in Nat /\ inner[p] \in Nat
      /\ RETRY_TIMES \in Nat /\ RETRY_TIMES > 0
      /\ tries[p] + 1 <= RETRY_TIMES /\ inner[p] + 1 <= RETRY_TIMES
  BY TroubleTypes, TryFacts
<1>2. trouble'[p] \in 0 .. RETRY_TIMES
  BY DEF Typed, TypeOK
<1>3. /\ Anew(p) => trouble[p] >= tries[p]
      /\ op[p] = "exist" => trouble[p] >= inner[p]
  BY DEF TroubleOK
<1>4. trouble'[p] = RETRY_TIMES \/ trouble'[p] >= trouble[p] + 1
  BY DEF Bumped
<1> QED BY <1>1, <1>2, <1>3, <1>4 DEF Cause

LEMMA TroublesRead ==
  ASSUME Typed, Typed', Troubles, NEW p \in Procs, GetNotFound(p) \/ ReadUnanswered(p)
  PROVE  Troubles'
<1>1. /\ pc[p] \in {"exist", "get"} /\ op' = op /\ want' = want
      /\ UNCHANGED <<obj, fresh>> /\ ReadFailed(p) /\ Active(p) /\ pc[p] # "none"
  BY DEF GetNotFound, ReadUnanswered, Active
<1>2. TroubleOK(p)
  BY DEF Troubles
<1>3. CASE GetNotFound(p)
  <2>1. /\ Due(p) /\ trouble' = trouble
        /\ op[p] \in {"get", "get_data", "update", "add_label", "delete_lifecycle",
                      "change_node"}
    BY <1>3 DEF GetNotFound, Due, Typed, PlaceOK
  <2>2. Cause(p)
    BY <1>1, <1>2, <2>1 DEF TroubleOK, Cause
  <2>3. TroubleOK(p)'
    BY <1>1, <2>2, FailedRead
  <2> QED BY <1>1, <2>1, <2>3, SendsRead, TroublesMove
<1>4. CASE ReadUnanswered(p)
  <2>1. Troubled({p})
    BY <1>4 DEF ReadUnanswered
  <2>2. /\ Bumped(p)
        /\ \A q \in Procs \ {p} : trouble'[q] >= trouble[q]
    BY <2>1, TroubledBumps
  <2>3. TroubleOK(p)'
    BY <1>1, <1>2, <2>2, BumpCauses, FailedRead
  <2>4. ASSUME NEW q \in Procs \ {p}
        PROVE  TroubleOK(q)'
    <3>1. /\ pc'[q] = pc[q] /\ tries'[q] = tries[q] /\ inner'[q] = inner[q]
          /\ TroubleOK(q)
      BY <1>1, SendsRead DEF Troubles
    <3> QED BY <1>1, <2>2, <3>1, TroubleOther
  <2> QED BY <2>3, <2>4 DEF Troubles
<1> QED BY <1>3, <1>4

\* A write of p disturbs the others, unless it leaves object and copies.
LEMMA TroublesOthers ==
  ASSUME Typed, Typed', Troubles, NEW p \in Procs, Write(p) \/ WriteUnanswered(p)
  PROVE  \A q \in Procs \ {p} : TroubleOK(q)'
<1> SUFFICES ASSUME NEW q \in Procs \ {p}
             PROVE  TroubleOK(q)'
  OBVIOUS
<1>1. /\ want' = want /\ op' = op
      /\ pc'[q] = pc[q] /\ tries'[q] = tries[q] /\ inner'[q] = inner[q]
  BY WriteSteps
<1>2. \/ UNCHANGED <<obj, fresh, trouble>>
      \/ UNCHANGED <<obj, fresh>> /\ Troubled({p})
      \/ Troubled(Others(p)) \/ Troubled({p} \cup Others(p))
  BY DEF Write, WriteUnanswered
<1>3. TroubleOK(q)
  BY DEF Troubles
<1>4. Active(q) => q \in Others(p)
  BY DEF Others
<1>5. CASE UNCHANGED <<obj, fresh, trouble>>
  <2>1. trouble'[q] >= trouble[q]
    BY <1>5, TroubleTypes
  <2> QED BY <1>1, <1>3, <1>5, <2>1, TroubleOther
<1>6. CASE UNCHANGED <<obj, fresh>> /\ Troubled({p})
  <2>1. trouble'[q] >= trouble[q]
    BY <1>6, TroubledBumps
  <2> QED BY <1>1, <1>3, <1>6, <2>1, TroubleOther
<1>7. CASE Troubled(Others(p)) \/ Troubled({p} \cup Others(p))
  <2>1. trouble'[q] >= trouble[q] /\ (Active(q) => Bumped(q))
    BY <1>4, <1>7, TroubledBumps
  <2> QED BY <1>1, <1>3, <2>1, TroubleOther
<1> QED BY <1>2, <1>5, <1>6, <1>7

LEMMA TroublesWrite ==
  ASSUME Typed, Typed', Troubles, NEW p \in Procs, Write(p)
  PROVE  Troubles'
<1>1. /\ pc[p] = "write" /\ pc[p] # "none" /\ Active(p) /\ want' = want /\ op' = op
      /\ PlaceOK(p) /\ TroubleOK(p) /\ TypeOK /\ "ok" \in Pcs
  BY DEF Write, Active, Typed, Troubles, Pcs
<1>2. CASE Passed(p, "ok")
  <2>1. pc'[p] = "ok"
    BY <1>1, <1>2, PassedMoved DEF Moved
  <2>2. TroubleOK(p)'
    BY <2>1 DEF TroubleOK, RaisedOK, Active
  <2> QED BY <2>2, TroublesOthers DEF Troubles
<1>3. CASE ~ Accepted(p) /\ op[p] # "delete" /\ RoundFails(p) /\ trouble' = trouble
  <2>1. Due(p)
    BY <1>1, <1>3 DEF Due
  <2>2. op[p] \notin {"exist", "change_node"}
    BY <1>1 DEF PlaceOK
  <2>3. Cause(p)
    BY <1>1, <1>3, <2>1, <2>2 DEF TroubleOK, Cause
  <2>4. NextRound(p) \/ LastRound(p)
    BY <1>1, <1>3, RoundFailsMoved
  <2>5. TroubleOK(p)'
    BY <1>1, <2>2, <2>3, <2>4, FailedRound
  <2> QED BY <2>5, TroublesOthers DEF Troubles
<1> QED BY <1>2, <1>3 DEF Write

LEMMA TroublesWriteUnanswered ==
  ASSUME Typed, Typed', Troubles, NEW p \in Procs, WriteUnanswered(p)
  PROVE  Troubles'
<1>1. /\ pc[p] = "write" /\ pc[p] # "none" /\ Active(p) /\ want' = want /\ op' = op
      /\ PlaceOK(p) /\ TroubleOK(p) /\ RoundFails(p)
      /\ Troubled({p}) \/ Troubled({p} \cup Others(p))
  BY DEF WriteUnanswered, Active, Typed, Troubles
<1>2. Bumped(p)
  BY <1>1, TroubledBumps
<1>3. Cause(p)
  BY <1>1, <1>2, BumpCauses
<1>4. NextRound(p) \/ LastRound(p)
  BY <1>1, RoundFailsMoved
<1>5. op[p] # "exist"
  BY <1>1 DEF PlaceOK
<1>6. TroubleOK(p)'
  BY <1>1, <1>3, <1>4, <1>5, FailedRound
<1> QED BY <1>6, TroublesOthers DEF Troubles

LEMMA TroublesElsewhere ==
  ASSUME Typed, Typed', Troubles, Elsewhere
  PROVE  Troubles'
<1>1. /\ UNCHANGED <<want, op, pc, tries, inner>>
      /\ Troubled({q \in Procs : Active(q)})
  BY DEF Elsewhere
<1>2. ASSUME NEW q \in Procs
      PROVE  TroubleOK(q)'
  <2>1. trouble'[q] >= trouble[q] /\ (Active(q) => Bumped(q)) /\ TroubleOK(q)
    BY <1>1, TroubledBumps DEF Troubles
  <2> QED BY <1>1, <2>1, TroubleOther
<1> QED BY <1>2 DEF Troubles

LEMMA TroublesStep ==
  ASSUME Typed, Troubles, [Next]_vars
  PROVE  Troubles'
<1>1. Typed'
  BY TypedStep
<1>2. CASE UNCHANGED vars
  <2>1. ASSUME NEW q \in Procs
        PROVE  TroubleOK(q)'
    <3>1. trouble'[q] >= trouble[q]
      BY <1>2, TroubleTypes DEF vars
    <3> QED BY <1>1, <1>2, <3>1, TroubleOther DEF vars, Troubles
  <2> QED BY <2>1 DEF Troubles
<1> QED BY <1>1, <1>2, TroublesCall, TroublesExist, TroublesGet, TroublesRead,
        TroublesWrite, TroublesWriteUnanswered, TroublesElsewhere DEF Next, Proceed

\* A method that raises met, in each of its RETRY_TIMES rounds, a request of its
\* own that failed or a write of somebody else; change_node, which sends the same
\* body in every round, met one at least.
THEOREM FailedCallsWereDisturbed == Spec => []FailsOnlyWhenDisturbed
<1>1. Init => Typed /\ Troubles
  BY TypedStart, TroublesStart
<1>2. Typed /\ Troubles /\ [Next]_vars => (Typed /\ Troubles)'
  BY TypedStep, TroublesStep
<1>3. Troubles => FailsOnlyWhenDisturbed
  BY DEF Troubles, TroubleOK, RaisedOK, FailsOnlyWhenDisturbed
<1> QED BY <1>1, <1>2, <1>3, PTL DEF Spec

=============================================================================
