------------------------- MODULE DomainEvents_proofs -------------------------
(***************************************************************************)
(* Theorems about DomainEvents, for every value of its constants.          *)
(***************************************************************************)
EXTENDS DomainEvents, TLAPS
-----------------------------------------------------------------------------
(* The requests on the object.                                               *)

\* The object starts as a version, and a deletion leaves one.
LEMMA InitVersionType == InitVersion \in Version
  BY DEF InitVersion, Version

LEMMA DeleteType ==
  ASSUME obj \in Version, Delete
  PROVE  /\ obj' \in Version /\ ~obj'.exists /\ obj'.lifecycle = None
         /\ obj'.spec = obj.spec /\ obj'.rv = obj.rv + 1
<1> DEFINE gone == [exists |-> FALSE, rv |-> obj.rv + 1, lifecycle |-> None,
                    spec |-> obj.spec, status |-> obj.status]
<1>1. obj' = gone
  BY DEF Delete, Version
<1>2. gone \in Version
  BY DEF Version
<1> QED BY <1>1, <1>2

\* A PUT of a body that is a version leaves a version with its lifecycle, its
\* state and the next resourceVersion.
LEMMA StoreType ==
  ASSUME obj \in Version, NEW body \in Version, Store(body)
  PROVE  /\ obj' \in Version /\ obj'.exists /\ obj'.lifecycle = body.lifecycle
         /\ obj'.spec = body.spec /\ obj'.rv = obj.rv + 1
<1> DEFINE new == [exists |-> TRUE, rv |-> obj.rv + 1,
                   lifecycle |-> body.lifecycle, spec |-> body.spec,
                   status |-> body.status]
<1>1. obj' = new
  BY DEF Store, Version
<1>2. new \in Version
  BY DEF Version
<1> QED BY <1>1, <1>2
-----------------------------------------------------------------------------
\* Going to a label, or failing a try, leaves pc, tries and faults of their
\* types.
LEMMA GotoType ==
  ASSUME TypeOK, NEW h \in Handlers, NEW label \in Labels, Goto(h, label)
  PROVE  pc' \in [Handlers -> Labels] /\ tries' \in [Handlers -> Nat]
  BY DEF Goto, TypeOK

LEMMA FailedTryType ==
  ASSUME TypeOK, NEW h \in Handlers, NEW limit \in Nat, NEW label \in Labels,
         FailedTry(h, limit, label)
  PROVE  /\ pc' \in [Handlers -> Labels]
         /\ tries' \in [Handlers -> Nat]
         /\ faults' \in Nat
<1>1. faults' \in Nat
  BY DEF FailedTry, TypeOK
<1>2. CASE ~LastTry(h, limit)
  <2>1. pc' = pc /\ tries' = [tries EXCEPT ![h] = @ + 1]
    BY <1>2 DEF FailedTry
  <2> QED BY <1>1, <2>1 DEF TypeOK
<1>3. CASE LastTry(h, limit)
  BY <1>1, <1>3, GotoType DEF FailedTry
<1> QED BY <1>2, <1>3

\* Where they leave the handler.
LEMMA Moves ==
  ASSUME TypeOK, NEW h \in Handlers, NEW label
  PROVE  /\ Goto(h, label) =>
              /\ pc'[h] = label
              /\ \A u \in Handlers \ {h} : pc'[u] = pc[u]
         /\ \A limit : FailedTry(h, limit, label) =>
              /\ pc'[h] = IF LastTry(h, limit) THEN label ELSE pc[h]
              /\ \A u \in Handlers \ {h} : pc'[u] = pc[u]
<1>1. ASSUME Goto(h, label)
      PROVE  /\ pc'[h] = label
             /\ \A u \in Handlers \ {h} : pc'[u] = pc[u]
  BY <1>1 DEF Goto, TypeOK
<1>2. ASSUME NEW limit, FailedTry(h, limit, label)
      PROVE  /\ pc'[h] = IF LastTry(h, limit) THEN label ELSE pc[h]
             /\ \A u \in Handlers \ {h} : pc'[u] = pc[u]
  <2>1. CASE ~LastTry(h, limit)
    BY <1>2, <2>1 DEF FailedTry
  <2>2. CASE LastTry(h, limit)
    <3>1. Goto(h, label)
      BY <1>2, <2>2 DEF FailedTry
    <3> QED BY <1>1, <2>2, <3>1
  <2> QED BY <2>1, <2>2
<1> QED BY <1>1, <1>2

\* A step that goes to label, or fails a try before it, leaves the other handlers
\* where they are.
LEMMA Hop ==
  ASSUME TypeOK, NEW h \in Handlers, NEW label,
         Goto(h, label) \/ \E limit \in Nat : FailedTry(h, limit, label)
  PROVE  /\ pc'[h] \in {label, pc[h]}
         /\ \A u \in Handlers \ {h} : pc'[u] = pc[u]
<1>1. CASE Goto(h, label)
  BY <1>1, Moves
<1>2. ASSUME NEW limit \in Nat, FailedTry(h, limit, label)
      PROVE  /\ pc'[h] \in {label, pc[h]}
             /\ \A u \in Handlers \ {h} : pc'[u] = pc[u]
  BY <1>2, Moves
<1> QED BY <1>1, <1>2

\* The labels after a push, a failed push and a failed report.
LEMMA NextLabels ==
  ASSUME NEW h \in Handlers
  PROVE  /\ \A done \in BOOLEAN : AfterPush(h, done) \in Labels
         /\ AfterReport(h) \in Labels
         /\ Report(h) \in Labels
  BY DEF AfterPush, AfterReport, Report, Labels

\* None of them is a push.
LEMMA NoPushNext ==
  ASSUME NEW h \in Handlers
  PROVE  /\ \A done : AfterPush(h, done) # "put"
         /\ AfterReport(h) # "put"
         /\ Report(h) # "put"
  BY DEF AfterPush, AfterReport, Report

\* The initial states have the types.
LEMMA TypeStart == Init => TypeOK
<1> SUFFICES ASSUME Init
             PROVE  TypeOK
  OBVIOUS
<1>1. NoEvent \in Event
  BY DEF NoEvent, Event
<1>2. queue \in Seq(Event)
  BY DEF Init
<1>3. lost \in BOOLEAN
  BY Zenon DEF Init
<1> QED BY <1>1, <1>2, <1>3, InitVersionType DEF Init, TypeOK, Labels

\* Every step preserves the types.
LEMMA TypeStep ==
  ASSUME TypeOK, [Next]_vars
  PROVE  TypeOK'
<1> USE DEF domainVars, handlerVars, boundVars
<1>0. /\ obj \in Version /\ InitVersion \in Version
      /\ UpdateTries \in Nat /\ 1 \in Nat /\ queue \in Seq(Event)
      /\ TRUE \in BOOLEAN /\ FALSE \in BOOLEAN
  BY InitVersionType, DomainAssumption DEF TypeOK
<1>1. ASSUME NEW h \in Handlers, Dispatch(h)
      PROVE  TypeOK'
  <2>1. "wait" \in Labels
    BY DEF Labels
  <2>2. queue # <<>> /\ queue' = Tail(queue)
    BY <1>1 DEF Dispatch
  <2>3. Head(queue) \in Event /\ queue' \in Seq(Event)
    BY <1>0, <2>2
  <2>4. pc' \in [Handlers -> Labels] /\ tries' \in [Handlers -> Nat]
    BY <1>1, <2>1, GotoType DEF Dispatch
  <2>5. event' \in [Handlers -> Event]
    BY <1>1, <2>3 DEF Dispatch, TypeOK
  <2> QED BY <1>1, <2>3, <2>4, <2>5 DEF Dispatch, TypeOK
<1>2. ASSUME NEW h \in Handlers, Lock(h)
      PROVE  TypeOK'
  <2>1. {"get", "end"} \subseteq Labels
    BY DEF Labels
  <2>2. pc' \in [Handlers -> Labels] /\ tries' \in [Handlers -> Nat]
    BY <1>2, <2>1, GotoType DEF Lock
  <2>3. lost' \in BOOLEAN
    BY <1>0, <1>2, Zenon DEF Lock, TypeOK
  <2>4. /\ holder' \in Handlers \cup {Nobody}
        /\ read' \in [Handlers -> {"unassigned", "None", "object"}]
    BY <1>2 DEF Lock, TypeOK
  <2> QED BY <1>2, <2>2, <2>3, <2>4 DEF Lock, TypeOK
<1>3. ASSUME NEW h \in Handlers, GetObject(h)
      PROVE  TypeOK'
  <2>1. {"look", "failGet", AfterPush(h, FALSE)} \subseteq Labels
    BY NextLabels, <1>0 DEF Labels
  <2>2. /\ pc' \in [Handlers -> Labels]
        /\ tries' \in [Handlers -> Nat]
        /\ faults' \in Nat
    BY <1>0, <1>3, <2>1, GotoType, FailedTryType DEF GetObject, TypeOK
  <2>3. read' \in [Handlers -> {"unassigned", "None", "object"}]
    <3>1. \E r \in {"object", "None"} :
            read' = read \/ read' = [read EXCEPT ![h] = r]
      BY <1>3 DEF GetObject
    <3> QED BY <3>1 DEF TypeOK
  <2>3a. snap' \in [Handlers -> Version]
    <3>1. snap' = snap \/ snap' = [snap EXCEPT ![h] = obj]
      BY <1>3 DEF GetObject
    <3> QED BY <3>1 DEF TypeOK
  <2>3b. snapHost' \in [Handlers -> {"here", "there"}]
    <3>1. snapHost' = snapHost \/ snapHost' = [snapHost EXCEPT ![h] = host]
      BY <1>3 DEF GetObject
    <3> QED BY <3>1 DEF TypeOK
  <2>4. lost' \in BOOLEAN
    BY <1>0, <1>3, Zenon DEF GetObject, TypeOK
  <2> QED BY <1>3, <2>2, <2>3, <2>3a, <2>3b, <2>4 DEF GetObject, TypeOK
<1>4. ASSUME NEW h \in Handlers, Look(h)
      PROVE  TypeOK'
  <2>1. {"put", "failGet"} \subseteq Labels
    BY DEF Labels
  <2>2. /\ pc' \in [Handlers -> Labels]
        /\ tries' \in [Handlers -> Nat]
        /\ faults' \in Nat
    BY <1>0, <1>4, <2>1, GotoType, FailedTryType DEF Look, TypeOK
  <2>3. seen' \in [Handlers -> Nat]
    BY <1>4 DEF Look, TypeOK
  <2>4. lost' \in BOOLEAN
    BY <1>0, <1>4, Zenon DEF Look, TypeOK
  <2> QED BY <1>4, <2>2, <2>3, <2>4 DEF Look, TypeOK
<1>5. ASSUME NEW h \in Handlers, PutObject(h)
      PROVE  TypeOK'
  <2> DEFINE body == [snap[h] EXCEPT !.lifecycle = None, !.spec = seen[h],
                                     !.status = "state"]
  <2>1. AfterPush(h, TRUE) \in Labels
    BY NextLabels, <1>0
  <2>2. /\ pc' \in [Handlers -> Labels]
        /\ tries' \in [Handlers -> Nat]
        /\ faults' \in Nat
    BY <1>0, <1>5, <2>1, GotoType, FailedTryType DEF PutObject, TypeOK, Described
  <2>3. body \in Version
    BY DEF TypeOK, Version
  <2>4. UNCHANGED obj \/ Store(body)
    BY <1>5 DEF PutObject, Described
  <2>5. obj' \in Version
    BY <1>0, <2>3, <2>4, StoreType
  <2>6. lost' \in BOOLEAN
    BY <1>0, <1>5, Zenon DEF PutObject, TypeOK, Described
  <2> QED BY <1>5, <2>2, <2>5, <2>6 DEF PutObject, TypeOK, Described
<1>6. ASSUME NEW h \in Handlers, ReportGet(h)
      PROVE  TypeOK'
  <2>1. {"failPut", "latePut", AfterReport(h)} \subseteq Labels
    BY NextLabels DEF Labels
  <2>2. /\ pc' \in [Handlers -> Labels]
        /\ tries' \in [Handlers -> Nat]
        /\ faults' \in Nat
    BY <1>0, <1>6, <2>1, GotoType, FailedTryType DEF ReportGet, TypeOK
  <2>3. snap' \in [Handlers -> Version]
    BY <1>6 DEF ReportGet, TypeOK
  <2> QED BY <1>6, <2>2, <2>3 DEF ReportGet, TypeOK
<1>7. ASSUME NEW h \in Handlers, ReportPut(h)
      PROVE  TypeOK'
  <2> DEFINE body == [snap[h] EXCEPT !.lifecycle = None, !.status = "failure"]
  <2>1. AfterReport(h) \in Labels
    BY NextLabels
  <2>2. /\ pc' \in [Handlers -> Labels]
        /\ tries' \in [Handlers -> Nat]
        /\ faults' \in Nat
    BY <1>0, <1>7, <2>1, GotoType, FailedTryType DEF ReportPut, TypeOK, Failure
  <2>3. body \in Version
    BY DEF TypeOK, Version
  <2>4. UNCHANGED obj \/ Store(body)
    BY <1>7 DEF ReportPut, Failure
  <2>5. obj' \in Version
    BY <1>0, <2>3, <2>4, StoreType
  <2> QED BY <1>7, <2>2, <2>5 DEF ReportPut, TypeOK, Failure
<1>8. ASSUME NEW h \in Handlers, HaCheck(h)
      PROVE  TypeOK'
  <2>1. {"haStart", "end", Report(h)} \subseteq Labels
    BY NextLabels DEF Labels
  <2>2. /\ pc' \in [Handlers -> Labels]
        /\ tries' \in [Handlers -> Nat]
        /\ faults' \in Nat
    BY <1>0, <1>8, <2>1, GotoType, FailedTryType DEF HaCheck, TypeOK
  <2> QED BY <1>8, <2>2 DEF HaCheck, TypeOK
<1>9. ASSUME NEW h \in Handlers, HaStart(h)
      PROVE  TypeOK'
  <2>1. {"end", "lateGet"} \subseteq Labels
    BY DEF Labels
  <2>2. pc' \in [Handlers -> Labels] /\ tries' \in [Handlers -> Nat]
    <3>1. \/ Goto(h, "end") \/ Goto(h, "lateGet")
          \/ pc' = pc /\ tries' = [tries EXCEPT ![h] = @ + 1]
      BY <1>9 DEF HaStart
    <3> QED BY <2>1, <3>1, GotoType DEF TypeOK
  <2>3. [type |-> "Started", migrated |-> FALSE] \in Event
    BY DEF Event
  <2>4. queue' \in Seq(Event)
    <3>1. queue' = queue
            \/ queue' = Append(queue, [type |-> "Started", migrated |-> FALSE])
      BY <1>9 DEF HaStart
    <3> QED BY <1>0, <2>3, <3>1
  <2>5. vm' \in Nat /\ power' \in {"on", "off", "undefined"}
    BY <1>9 DEF HaStart, TypeOK
  <2> QED BY <1>9, <2>2, <2>4, <2>5 DEF HaStart, TypeOK
<1>10. ASSUME NEW h \in Handlers, Bind(h)
       PROVE  TypeOK'
  <2>1. {"end", "lateGet"} \subseteq Labels
    BY DEF Labels
  <2>2. pc' \in [Handlers -> Labels] /\ tries' \in [Handlers -> Nat]
    BY <1>10, <2>1, GotoType DEF Bind
  <2> QED BY <1>10, <2>2 DEF Bind, TypeOK
<1>11. ASSUME NEW h \in Handlers, Release(h)
       PROVE  TypeOK'
  <2>1. "free" \in Labels /\ NoEvent \in Event
    BY DEF Labels, NoEvent, Event
  <2>2. pc' \in [Handlers -> Labels] /\ tries' \in [Handlers -> Nat]
    BY <1>11, <2>1, GotoType DEF Release
  <2>3. event' \in [Handlers -> Event] /\ snap' \in [Handlers -> Version]
    BY <1>0, <1>11, <2>1 DEF Release, TypeOK
  <2> QED BY <1>11, <2>2, <2>3 DEF Release, TypeOK
<1>12. ASSUME NEW e \in Event, DomainChange(e)
       PROVE  TypeOK'
  <2>1. queue' \in Seq(Event)
    BY <1>0, <1>12 DEF DomainChange
  <2>2. vm' \in Nat /\ power' \in {"on", "off", "undefined"}
    BY <1>12 DEF DomainChange, TypeOK
  <2> QED BY <1>12, <2>1, <2>2 DEF DomainChange, TypeOK
<1>13. ASSUME Write, obj' \in Version, host' \in {"here", "there"},
              lost' \in BOOLEAN
       PROVE  TypeOK'
  BY <1>13 DEF Write, TypeOK
<1>14. CASE Command
  <2>1. PICK c \in Cmds \cup {None} : Store([obj EXCEPT !.lifecycle = c])
    BY <1>14 DEF Command
  <2> DEFINE body == [obj EXCEPT !.lifecycle = c]
  <2>2. body \in Version
    BY <1>0 DEF Version
  <2>3. obj' \in Version
    <3> HIDE DEF body
    <3>1. Store(body)
      BY <2>1 DEF body
    <3> QED BY <1>0, <2>2, <3>1, StoreType
  <2>4. host' \in {"here", "there"}
    BY <1>14 DEF Command, TypeOK
  <2>5. lost' \in BOOLEAN
    BY <1>14, Zenon DEF Command, TypeOK
  <2> QED BY <1>13, <1>14, <2>3, <2>4, <2>5 DEF Command
<1>15. CASE WriteResult
  <2>1. PICK s \in 0..vm :
          /\ Store([obj EXCEPT !.lifecycle = None, !.spec = s, !.status = "state"])
          /\ lost' = (lost \/ s < obj.spec)
    BY <1>15 DEF WriteResult
  <2> DEFINE body == [obj EXCEPT !.lifecycle = None, !.spec = s,
                                 !.status = "state"]
  <2>2. body \in Version
    <3>1. s \in Nat
      BY DEF TypeOK
    <3> QED BY <1>0, <3>1 DEF Version
  <2>3. obj' \in Version
    <3> HIDE DEF body
    <3>1. Store(body)
      BY <2>1 DEF body
    <3> QED BY <1>0, <2>2, <3>1, StoreType
  <2>4. host' \in {"here", "there"}
    BY <1>15 DEF WriteResult, TypeOK
  <2>5. lost' \in BOOLEAN
    BY <2>1, Zenon
  <2> QED BY <1>13, <1>15, <2>3, <2>4, <2>5 DEF WriteResult
<1>16. CASE MoveHost
  <2>1. obj' \in Version
    BY <1>0, <1>16, StoreType DEF MoveHost
  <2>2. host' \in {"here", "there"}
    BY <1>16 DEF MoveHost
  <2>3. lost' \in BOOLEAN
    BY <1>16, Zenon DEF MoveHost, TypeOK
  <2> QED BY <1>13, <1>16, <2>1, <2>2, <2>3 DEF MoveHost
<1>17. CASE Remove
  <2>1. obj' \in Version
    BY <1>0, <1>17, DeleteType DEF Remove
  <2>2. host' \in {"here", "there"}
    BY <1>17 DEF Remove, TypeOK
  <2>3. lost' \in BOOLEAN
    BY <1>17, Zenon DEF Remove, TypeOK
  <2> QED BY <1>13, <1>17, <2>1, <2>2, <2>3 DEF Remove
<1>18. CASE Crash
  <2>1. NoEvent \in Event
    BY DEF NoEvent, Event
  <2>2. queue' \in Seq(Event)
    BY <1>18 DEF Crash
  <2>3. lost' \in BOOLEAN
    BY <1>18, Zenon DEF Crash
  <2> QED BY <1>0, <1>18, <2>1, <2>2, <2>3 DEF Crash, TypeOK, Labels
<1>19. CASE UNCHANGED vars
  BY <1>19 DEF vars, TypeOK
<1> QED
  BY <1>1, <1>2, <1>3, <1>4, <1>5, <1>6, <1>7, <1>8, <1>9, <1>10, <1>11,
     <1>12, <1>14, <1>15, <1>16, <1>17, <1>18, <1>19
     DEF Next, HandlerStep, Waiting

\* Every variable has its type in every state of every behaviour.
THEOREM TypeCorrect == Spec => []TypeOK
  BY TypeStart, TypeStep, PTL DEF Spec

-----------------------------------------------------------------------------
(* The order of what is read, seen and pushed *)

\* What a handler read was the object at its resourceVersion, and what it pushes
\* was seen after that.
Ordered(h) ==
  /\ snap[h].rv <= obj.rv
  /\ snap[h].rv = obj.rv => snap[h].spec = obj.spec
  /\ snap[h].spec <= vm
  /\ seen[h] <= vm
  /\ pc[h] = "put" => snap[h].spec <= seen[h]

OrderInv ==
  /\ obj.rv = 0 => obj.spec = 0
  /\ obj.spec <= vm
  /\ \A h \in Handlers : Ordered(h)

\* The initial states are ordered.
LEMMA OrderStart == Init => OrderInv
<1> SUFFICES ASSUME Init
             PROVE  OrderInv
  OBVIOUS
<1>1. \A h \in Handlers : Ordered(h)
  BY DEF Init, InitVersion, Ordered
<1> QED BY <1>1 DEF Init, InitVersion, OrderInv

\* A push that is stored replaces the version the handler read.
LEMMA PutEffect ==
  ASSUME TypeOK, OrderInv, NEW h \in Handlers, PutObject(h)
  PROVE  \/ UNCHANGED obj
         \/ /\ obj' \in Version /\ obj'.exists
            /\ obj'.rv = obj.rv + 1 /\ obj'.spec = seen[h]
            /\ obj.spec <= seen[h]
<1> DEFINE body == [snap[h] EXCEPT !.lifecycle = None, !.spec = seen[h],
                                   !.status = "state"]
<1>1. body \in Version /\ body.spec = seen[h] /\ body.rv = snap[h].rv
      /\ obj \in Version
  BY DEF TypeOK, Version
<1>2. UNCHANGED obj \/ (Current(body) /\ Store(body))
  BY DEF PutObject, Described
<1> HIDE DEF body
<1>3. CASE Current(body) /\ Store(body)
  <2>1. snap[h].rv = obj.rv /\ pc[h] = "put"
    BY <1>1, <1>3 DEF Current, PutObject, Described
  <2>2. obj.spec <= seen[h]
    BY <2>1 DEF OrderInv, Ordered
  <2> QED BY <1>1, <1>3, <2>2, StoreType
<1> QED BY <1>2, <1>3

\* A report that is stored keeps the state of the domain.
LEMMA ReportEffect ==
  ASSUME TypeOK, OrderInv, NEW h \in Handlers, ReportPut(h)
  PROVE  \/ UNCHANGED obj
         \/ /\ obj' \in Version /\ obj'.exists
            /\ obj'.rv = obj.rv + 1 /\ obj'.spec = obj.spec
<1> DEFINE body == [snap[h] EXCEPT !.lifecycle = None, !.status = "failure"]
<1>1. body \in Version /\ body.spec = snap[h].spec /\ body.rv = snap[h].rv
      /\ obj \in Version
  BY DEF TypeOK, Version
<1>2. UNCHANGED obj \/ (Current(body) /\ Store(body))
  BY DEF ReportPut, Failure
<1> HIDE DEF body
<1>3. CASE Current(body) /\ Store(body)
  <2>1. snap[h].spec = obj.spec
    BY <1>1, <1>3 DEF Current, OrderInv, Ordered
  <2> QED BY <1>1, <1>3, <2>1, StoreType
<1> QED BY <1>2, <1>3

\* What the others write.
LEMMA WriteEffect ==
  ASSUME TypeOK, OrderInv, Command \/ WriteResult \/ MoveHost \/ Remove
  PROVE  /\ obj' \in Version /\ obj'.rv = obj.rv + 1 /\ obj'.spec <= vm
         /\ obj.exists
         /\ UNCHANGED <<domainVars, handlerVars>>
         /\ obj'.spec < obj.spec => lost'
         /\ lost => lost'
<1>0. obj \in Version /\ obj.spec <= vm /\ vm \in Nat
  BY DEF TypeOK, OrderInv
<1>1. obj.exists /\ UNCHANGED <<domainVars, handlerVars>>
  BY DEF Command, WriteResult, MoveHost, Remove, Write
<1>2. CASE Command
  <2>1. PICK c \in Cmds \cup {None} : Store([obj EXCEPT !.lifecycle = c])
    BY <1>2 DEF Command
  <2> DEFINE body == [obj EXCEPT !.lifecycle = c]
  <2>2. body \in Version /\ body.spec = obj.spec
    BY <1>0 DEF Version
  <2>3. obj' \in Version /\ obj'.rv = obj.rv + 1 /\ obj'.spec = obj.spec
    <3> HIDE DEF body
    <3>1. Store(body)
      BY <2>1 DEF body
    <3> QED BY <1>0, <2>2, <3>1, StoreType
  <2>4. lost => lost'
    BY <1>2 DEF Command
  <2>5. ~(obj.spec < obj.spec)
    BY <1>0 DEF Version
  <2> QED BY <1>0, <1>1, <2>3, <2>4, <2>5
<1>3. CASE WriteResult
  <2>1. PICK s \in 0..vm :
          /\ Store([obj EXCEPT !.lifecycle = None, !.spec = s, !.status = "state"])
          /\ lost' = (lost \/ s < obj.spec)
    BY <1>3 DEF WriteResult
  <2> DEFINE body == [obj EXCEPT !.lifecycle = None, !.spec = s,
                                 !.status = "state"]
  <2>s. s \in Nat /\ s <= vm
    BY <1>0
  <2>2. body \in Version /\ body.spec = s
    BY <1>0, <2>s DEF Version
  <2>3. obj' \in Version /\ obj'.rv = obj.rv + 1 /\ obj'.spec = s
    <3> HIDE DEF body
    <3>1. Store(body)
      BY <2>1 DEF body
    <3> QED BY <1>0, <2>2, <3>1, StoreType
  <2> QED BY <1>0, <1>1, <2>s, <2>1, <2>3
<1>4. CASE MoveHost
  <2>1. obj' \in Version /\ obj'.rv = obj.rv + 1 /\ obj'.spec = obj.spec
    BY <1>0, <1>4, StoreType DEF MoveHost
  <2>2. ~(obj.spec < obj.spec)
    BY <1>0 DEF Version
  <2>3. lost => lost'
    BY <1>4 DEF MoveHost
  <2> QED BY <1>0, <1>1, <2>1, <2>2, <2>3
<1>5. CASE Remove
  <2>1. obj' \in Version /\ obj'.rv = obj.rv + 1 /\ obj'.spec = obj.spec
    BY <1>0, <1>5, DeleteType DEF Remove
  <2>2. ~(obj.spec < obj.spec)
    BY <1>0 DEF Version
  <2>3. lost => lost'
    BY <1>5 DEF Remove
  <2> QED BY <1>0, <1>1, <2>1, <2>2, <2>3
<1> QED BY <1>2, <1>3, <1>4, <1>5

\* Every step preserves the order.
LEMMA OrderStep ==
  ASSUME TypeOK, OrderInv, [Next]_vars
  PROVE  OrderInv'
<1> USE DEF domainVars, handlerVars, boundVars
<1>0. TypeOK' /\ InitVersion \in Version /\ InitVersion.rv = 0
      /\ InitVersion.spec = 0 /\ obj \in Version /\ vm \in Nat
  BY TypeStep, InitVersionType DEF TypeOK, InitVersion
<1>1. ASSUME vm <= vm',
             UNCHANGED obj \/ (obj'.rv = obj.rv + 1 /\ obj'.spec <= vm'),
             \A u \in Handlers :
               \/ /\ snap'[u] = snap[u] /\ seen'[u] = seen[u]
                  /\ pc'[u] = "put" => pc[u] = "put"
               \/ Ordered(u)'
      PROVE  OrderInv'
  <2>0. obj' \in Version /\ vm' \in Nat
    BY <1>0 DEF TypeOK
  <2>1. (obj'.rv = 0 => obj'.spec = 0) /\ obj'.spec <= vm'
    BY <1>0, <1>1, <2>0 DEF OrderInv, Version
  <2>2. ASSUME NEW u \in Handlers
        PROVE  Ordered(u)'
    <3>1. CASE /\ snap'[u] = snap[u] /\ seen'[u] = seen[u]
               /\ pc'[u] = "put" => pc[u] = "put"
      <4>1. snap[u] \in Version /\ seen[u] \in Nat
        BY DEF TypeOK
      <4>2. /\ snap[u].rv \in Nat /\ snap[u].spec \in Nat
            /\ obj.rv \in Nat /\ obj.spec \in Nat /\ obj'.rv \in Nat
        BY <1>0, <2>0, <4>1 DEF Version
      <4>3. Ordered(u)
        BY DEF OrderInv
      <4> QED BY <1>0, <1>1, <2>0, <3>1, <4>1, <4>2, <4>3 DEF Ordered
    <3> QED BY <1>1, <2>2, <3>1
  <2> QED BY <2>1, <2>2 DEF OrderInv
<1>v. vm <= vm
  BY <1>0
<1>2. ASSUME NEW h \in Handlers, GetObject(h)
      PROVE  OrderInv'
  <2>1. /\ UNCHANGED <<obj, vm, seen>>
        /\ \A u \in Handlers \ {h} : pc'[u] = pc[u]
        /\ pc'[h] # "put"
    <3>1. \E label \in {"look", "failGet", AfterPush(h, FALSE)} :
            Goto(h, label) \/ \E limit \in Nat : FailedTry(h, limit, label)
      BY <1>2, DomainAssumption DEF GetObject
    <3>2. pc[h] = "get" /\ UNCHANGED <<obj, vm, seen>>
      BY <1>2 DEF GetObject
    <3> QED BY <3>1, <3>2, Hop, NoPushNext
  <2>2. \A u \in Handlers \ {h} : snap'[u] = snap[u]
    BY <1>2 DEF GetObject, TypeOK
  <2>3. snap'[h] = snap[h] \/ snap'[h] = obj
    BY <1>2 DEF GetObject, TypeOK
  <2>4. CASE snap'[h] = obj
    <3>1. Ordered(h)'
      <4>1. obj.rv \in Nat /\ obj.spec \in Nat
        BY <1>0 DEF Version
      <4> QED BY <2>1, <2>4, <4>1 DEF Ordered, OrderInv
    <3> QED BY <1>1, <1>v, <2>1, <2>2, <3>1
  <2>5. CASE snap'[h] = snap[h]
    BY <1>1, <1>v, <2>1, <2>2, <2>5
  <2> QED BY <2>3, <2>4, <2>5
<1>3. ASSUME NEW h \in Handlers, Look(h)
      PROVE  OrderInv'
  <2>1. /\ UNCHANGED <<obj, vm, snap>>
        /\ \A u \in Handlers \ {h} : pc'[u] = pc[u] /\ seen'[u] = seen[u]
    <3>1. \E label \in {"put", "failGet"} :
            Goto(h, label) \/ \E limit \in Nat : FailedTry(h, limit, label)
      BY <1>3 DEF Look
    <3>2. UNCHANGED <<obj, vm, snap>>
          /\ \A u \in Handlers \ {h} : seen'[u] = seen[u]
      BY <1>3 DEF Look, TypeOK
    <3> QED BY <3>1, <3>2, Hop
  <2>2. \/ pc'[h] # "put" /\ seen'[h] = seen[h]
        \/ seen'[h] = vm
    <3>1. CASE seen' = [seen EXCEPT ![h] = vm]
      BY <3>1 DEF TypeOK
    <3>2. CASE seen' # [seen EXCEPT ![h] = vm]
      <4>1. /\ Goto(h, "failGet") \/ \E limit \in Nat : FailedTry(h, limit, "failGet")
            /\ UNCHANGED seen /\ pc[h] = "look"
        BY <1>3, <3>2 DEF Look
      <4> QED BY <4>1, Hop
    <3> QED BY <3>1, <3>2
  <2>3. CASE seen'[h] = vm
    <3>1. Ordered(h)'
      <4>1. Ordered(h)
        BY DEF OrderInv
      <4> QED BY <1>0, <2>1, <2>3, <4>1 DEF Ordered
    <3> QED BY <1>1, <1>v, <2>1, <3>1
  <2>4. CASE pc'[h] # "put" /\ seen'[h] = seen[h]
    BY <1>1, <1>v, <2>1, <2>4
  <2> QED BY <2>2, <2>3, <2>4
<1>4. ASSUME NEW h \in Handlers, PutObject(h)
      PROVE  OrderInv'
  <2>1. UNCHANGED <<vm, snap, seen>> /\ pc[h] = "put"
        /\ \A u \in Handlers \ {h} : pc'[u] = pc[u]
    BY <1>4, Moves DEF PutObject, Described
  <2>2. UNCHANGED obj \/ (obj'.rv = obj.rv + 1 /\ obj'.spec <= vm)
    BY <1>4, PutEffect DEF OrderInv, Ordered
  <2> QED BY <1>1, <1>v, <2>1, <2>2
<1>5. ASSUME NEW h \in Handlers, ReportGet(h)
      PROVE  OrderInv'
  <2>1. /\ UNCHANGED <<obj, vm, seen>>
        /\ \A u \in Handlers \ {h} : pc'[u] = pc[u]
        /\ pc'[h] # "put"
    <3>1. \E label \in {"failPut", "latePut", AfterReport(h)} :
            Goto(h, label) \/ \E limit \in Nat : FailedTry(h, limit, label)
      BY <1>5, DomainAssumption DEF ReportGet
    <3>2. pc[h] # "put" /\ UNCHANGED <<obj, vm, seen>>
      BY <1>5 DEF ReportGet
    <3> QED BY <3>1, <3>2, Hop, NoPushNext
  <2>2. \A u \in Handlers \ {h} : snap'[u] = snap[u]
    BY <1>5 DEF ReportGet, TypeOK
  <2>3. snap'[h] = snap[h] \/ snap'[h] = obj
    BY <1>5 DEF ReportGet, TypeOK
  <2>4. CASE snap'[h] = obj
    <3>1. Ordered(h)'
      <4>1. obj.rv \in Nat /\ obj.spec \in Nat
        BY <1>0 DEF Version
      <4> QED BY <2>1, <2>4, <4>1 DEF Ordered, OrderInv
    <3> QED BY <1>1, <1>v, <2>1, <2>2, <3>1
  <2>5. CASE snap'[h] = snap[h]
    BY <1>1, <1>v, <2>1, <2>2, <2>5
  <2> QED BY <2>3, <2>4, <2>5
<1>6. ASSUME NEW h \in Handlers, ReportPut(h)
      PROVE  OrderInv'
  <2>1. UNCHANGED <<vm, snap, seen>> /\ pc'[h] # "put"
        /\ \A u \in Handlers \ {h} : pc'[u] = pc[u]
    <3>1. \/ Goto(h, AfterReport(h))
          \/ \E limit \in Nat : FailedTry(h, limit, AfterReport(h))
      BY <1>6, DomainAssumption DEF ReportPut, Failure
    <3>2. pc[h] # "put" /\ UNCHANGED <<vm, snap, seen>>
      BY <1>6 DEF ReportPut, Failure
    <3> QED BY <3>1, <3>2, Hop, NoPushNext
  <2>2. UNCHANGED obj \/ (obj'.rv = obj.rv + 1 /\ obj'.spec <= vm)
    BY <1>6, ReportEffect DEF OrderInv
  <2> QED BY <1>1, <1>v, <2>1, <2>2
<1>7. ASSUME NEW h \in Handlers,
             Dispatch(h) \/ Lock(h) \/ HaCheck(h) \/ HaStart(h) \/ Bind(h)
      PROVE  OrderInv'
  <2>1. UNCHANGED <<obj, snap, seen>> /\ vm <= vm'
    BY <1>0, <1>7 DEF Dispatch, Lock, HaCheck, HaStart, Bind
  <2>2. \A u \in Handlers : pc'[u] = "put" => pc[u] = "put"
    <3>1. \/ pc' = pc
          \/ \E label \in {"wait", "get", "end", "haStart", "lateGet", Report(h)} :
               Goto(h, label) \/ \E limit \in Nat : FailedTry(h, limit, label)
      <4>1. CASE HaCheck(h)
        <5> DEFINE next == CASE read[h] # "object"   -> Report(h)
                             [] snapHost[h] = "here" -> "haStart"
                             [] OTHER                -> "end"
        <5>1. next \in {"end", "haStart", Report(h)}
          OBVIOUS
        <5>2. \/ Goto(h, next) \/ Goto(h, "end")
              \/ \E limit \in {1, UpdateTries} : FailedTry(h, limit, Report(h))
          BY <4>1 DEF HaCheck
        <5>3. {1, UpdateTries} \subseteq Nat
          BY DomainAssumption
        <5> HIDE DEF next
        <5> QED BY <5>1, <5>2, <5>3
      <4>2. CASE HaStart(h)
        BY <4>2 DEF HaStart
      <4> QED BY <1>7, <4>1, <4>2 DEF Dispatch, Lock, Bind
    <3>2. CASE \E label \in {"wait", "get", "end", "haStart", "lateGet", Report(h)} :
                 Goto(h, label) \/ \E limit \in Nat : FailedTry(h, limit, label)
      <4>1. /\ pc'[h] \in {"wait", "get", "end", "haStart", "lateGet", Report(h), pc[h]}
            /\ \A u \in Handlers \ {h} : pc'[u] = pc[u]
        BY <3>2, Hop
      <4> QED BY <4>1, NoPushNext
    <3> QED BY <3>1, <3>2
  <2> QED BY <1>1, <2>1, <2>2
<1>8. ASSUME NEW u \in Handlers, snap'[u] = InitVersion, seen'[u] = 0,
             pc'[u] = "free", UNCHANGED <<obj, vm>>
      PROVE  Ordered(u)'
  <2>1. obj.rv \in Nat /\ obj.spec \in Nat
    BY <1>0 DEF Version
  <2> QED BY <1>0, <1>8, <2>1 DEF Ordered, OrderInv
<1>9. ASSUME NEW h \in Handlers, Release(h)
      PROVE  OrderInv'
  <2>1. /\ UNCHANGED <<obj, vm>>
        /\ pc'[h] = "free" /\ snap'[h] = InitVersion /\ seen'[h] = 0
        /\ \A u \in Handlers \ {h} : /\ pc'[u] = pc[u] /\ snap'[u] = snap[u]
                                     /\ seen'[u] = seen[u]
    BY <1>9, Moves DEF Release, TypeOK
  <2> QED BY <1>1, <1>v, <1>8, <2>1
<1>10. CASE Crash
  <2>1. /\ UNCHANGED <<obj, vm>>
        /\ \A u \in Handlers : /\ pc'[u] = "free" /\ snap'[u] = InitVersion
                               /\ seen'[u] = 0
    BY <1>10 DEF Crash
  <2> QED BY <1>1, <1>v, <1>8, <2>1
<1>11. CASE Command \/ WriteResult \/ MoveHost \/ Remove
  BY <1>1, <1>v, <1>11, WriteEffect
<1>12. CASE \E e \in Event : DomainChange(e)
  BY <1>0, <1>1, <1>12 DEF DomainChange
<1>13. CASE UNCHANGED vars
  BY <1>1, <1>v, <1>13 DEF vars
<1> QED
  BY <1>2, <1>3, <1>4, <1>5, <1>6, <1>7, <1>9, <1>10, <1>11, <1>12, <1>13
     DEF Next, HandlerStep, Waiting

\* A push never replaces the description of a state of the domain by that of an
\* earlier one.
THEOREM PushesNeverStale == Spec => PushNeverStale
<1>1. Init => TypeOK /\ OrderInv
  BY OrderStart, TypeStart
<1>2. TypeOK /\ OrderInv /\ [Next]_vars => (TypeOK /\ OrderInv)'
  BY TypeStep, OrderStep
<1>3. TypeOK /\ OrderInv /\ [Next]_vars =>
        [\A h \in Handlers : PutObject(h) => obj'.spec >= obj.spec]_vars
  <2>1. ASSUME TypeOK, OrderInv, NEW h \in Handlers, PutObject(h)
        PROVE  obj'.spec >= obj.spec
    <3>1. obj.spec \in Nat /\ seen[h] \in Nat
      BY <2>1 DEF TypeOK, Version
    <3>2. UNCHANGED obj \/ (obj'.spec = seen[h] /\ obj.spec <= seen[h])
      BY <2>1, PutEffect
    <3> QED BY <3>1, <3>2
  <2> QED BY <2>1
<1> QED BY <1>1, <1>2, <1>3, PTL DEF Spec, PushNeverStale

-----------------------------------------------------------------------------
(* The lock *)

\* The places a handler goes to from inside the lock are inside the lock.
LEMMA StaysInside ==
  ASSUME NEW h \in Handlers
  PROVE  /\ \A done : AfterPush(h, done) \notin {"free", "wait"}
         /\ AfterReport(h) \notin {"free", "wait"}
         /\ Report(h) \notin {"free", "wait"}
  BY DEF AfterPush, AfterReport, Report

\* The steps between Lock and Release move one handler inside the lock.
LEMMA WorkInside ==
  ASSUME TypeOK, NEW h \in Handlers,
         \/ GetObject(h) \/ Look(h) \/ PutObject(h) \/ ReportGet(h)
         \/ ReportPut(h) \/ HaCheck(h) \/ HaStart(h) \/ Bind(h)
  PROVE  /\ holder' = holder
         /\ pc[h] \notin {"free", "wait"} /\ pc'[h] \notin {"free", "wait"}
         /\ \A u \in Handlers \ {h} : pc'[u] = pc[u]
<1>1. holder' = holder /\ pc[h] \notin {"free", "wait"}
  BY DEF GetObject, Look, PutObject, ReportGet, ReportPut, HaCheck, HaStart, Bind, Described, Failure
<1>2. \/ pc' = pc
      \/ \E label \in {"look", "put", "failGet", "failPut", "latePut", "haStart",
                       "lateGet", "end", AfterPush(h, FALSE), AfterPush(h, TRUE),
                       AfterReport(h), Report(h)} :
           Goto(h, label) \/ \E limit \in Nat : FailedTry(h, limit, label)
  <2>0. {1, UpdateTries} \subseteq Nat
    BY DomainAssumption
  <2>1. CASE GetObject(h)
    BY <2>0, <2>1 DEF GetObject
  <2>2. CASE Look(h)
    BY <2>0, <2>2 DEF Look
  <2>3. CASE PutObject(h)
    BY <2>0, <2>3 DEF PutObject, Described
  <2>4. CASE ReportGet(h)
    BY <2>0, <2>4 DEF ReportGet
  <2>5. CASE ReportPut(h)
    BY <2>0, <2>5 DEF ReportPut, Failure
  <2>6. CASE HaCheck(h)
    <3> DEFINE next == CASE read[h] # "object"   -> Report(h)
                         [] snapHost[h] = "here" -> "haStart"
                         [] OTHER                -> "end"
    <3>1. next \in {"end", "haStart", Report(h)}
      OBVIOUS
    <3>2. \/ Goto(h, next) \/ Goto(h, "end")
          \/ \E limit \in {1, UpdateTries} : FailedTry(h, limit, Report(h))
      BY <2>6 DEF HaCheck
    <3> HIDE DEF next
    <3> QED BY <2>0, <3>1, <3>2
  <2>7. CASE HaStart(h)
    BY <2>7 DEF HaStart
  <2>8. CASE Bind(h)
    BY <2>8 DEF Bind
  <2> QED BY <2>1, <2>2, <2>3, <2>4, <2>5, <2>6, <2>7, <2>8
<1> QED BY <1>1, <1>2, Hop, StaysInside

\* Every step preserves mutual exclusion.
LEMMA InsideStep ==
  ASSUME TypeOK, OneInside, [Next]_vars
  PROVE  OneInside'
<1> USE DEF domainVars, handlerVars, boundVars
<1>1. ASSUME holder' = holder, \A u \in Handlers : Inside(u)' <=> Inside(u)
      PROVE  OneInside'
  BY <1>1 DEF OneInside
<1>2. ASSUME NEW h \in Handlers, Dispatch(h)
      PROVE  OneInside'
  <2>1. /\ holder' = holder /\ pc[h] = "free" /\ pc'[h] = "wait"
        /\ \A u \in Handlers \ {h} : pc'[u] = pc[u]
    BY <1>2, Moves DEF Dispatch
  <2> QED BY <1>1, <2>1 DEF Inside
<1>3. ASSUME NEW h \in Handlers, Lock(h)
      PROVE  OneInside'
  <2>1. /\ holder = Nobody /\ holder' = h /\ pc'[h] \in {"end", "get"}
        /\ \A u \in Handlers \ {h} : pc'[u] = pc[u]
    BY <1>3, Moves DEF Lock
  <2>2. \A u \in Handlers : ~Inside(u)
    BY <2>1, DomainAssumption DEF OneInside
  <2> QED BY <2>1, <2>2 DEF OneInside, Inside
<1>4. ASSUME NEW h \in Handlers,
             \/ GetObject(h) \/ Look(h) \/ PutObject(h) \/ ReportGet(h)
             \/ ReportPut(h) \/ HaCheck(h) \/ HaStart(h) \/ Bind(h)
      PROVE  OneInside'
  BY <1>1, <1>4, WorkInside DEF Inside
<1>5. ASSUME NEW h \in Handlers, Release(h)
      PROVE  OneInside'
  <2>1. /\ pc[h] = "end" /\ holder' = Nobody /\ pc'[h] = "free"
        /\ \A u \in Handlers \ {h} : pc'[u] = pc[u]
    BY <1>5, Moves DEF Release
  <2>2. \A u \in Handlers \ {h} : ~Inside(u)
    BY <2>1 DEF OneInside, Inside
  <2> QED BY <2>1, <2>2, DomainAssumption DEF OneInside, Inside
<1>6. CASE Crash
  BY <1>6, DomainAssumption DEF Crash, OneInside, Inside
<1>7. CASE \/ Command \/ WriteResult \/ MoveHost \/ Remove
           \/ \E e \in Event : DomainChange(e)
           \/ UNCHANGED vars
  <2>1. holder' = holder /\ pc' = pc
    BY <1>7 DEF Command, WriteResult, MoveHost, Remove, Write, DomainChange, vars
  <2> QED BY <1>1, <2>1 DEF Inside
<1> QED
  BY <1>2, <1>3, <1>4, <1>5, <1>6, <1>7 DEF Next, HandlerStep, Waiting

\* One handler at a time is inside the lock, whichever way the earlier ones ended.
THEOREM HandlersExclude == Spec => []OneInside
<1>1. Init => OneInside
  BY DomainAssumption DEF Init, OneInside, Inside
<1>2. TypeOK /\ OneInside /\ [Next]_vars => OneInside'
  BY InsideStep
<1> QED BY <1>1, <1>2, TypeCorrect, PTL DEF Spec

-----------------------------------------------------------------------------
(* Catching up *)

\* The state of the domain is still on its way: in an event, in a handler that
\* will look at the domain, or in one that saw the current state.
OnItsWay ==
  \/ queue # <<>>
  \/ \E h \in Handlers :
       \/ pc[h] \in {"wait", "get", "look"}
       \/ pc[h] = "put" /\ seen[h] = vm

CaughtInv == ~lost /\ obj.exists /\ obj.spec # vm => OnItsWay

\* Every step preserves CaughtInv.
LEMMA CaughtStep ==
  ASSUME TypeOK, OrderInv, CaughtInv, [Next]_vars
  PROVE  CaughtInv'
<1> USE DEF domainVars, handlerVars, boundVars
<1>0. /\ obj \in Version /\ obj.spec \in Nat /\ vm \in Nat /\ obj.spec <= vm
      /\ \A h \in Handlers : seen[h] \in Nat /\ seen[h] <= vm
  BY DEF TypeOK, OrderInv, Ordered, Version
<1>1. ASSUME lost => lost',
             obj'.exists => obj.exists,
             vm' = vm,
             obj'.spec # vm => obj.spec # vm,
             OnItsWay => OnItsWay' \/ lost' \/ obj'.spec = vm \/ ~obj'.exists
      PROVE  CaughtInv'
  BY <1>1 DEF CaughtInv
<1>2. ASSUME NEW h \in Handlers, Dispatch(h)
      PROVE  CaughtInv'
  <2>1. pc'[h] = "wait" /\ UNCHANGED <<obj, vm, lost>>
    BY <1>2, Moves DEF Dispatch
  <2> QED BY <1>1, <2>1 DEF OnItsWay
<1>3. ASSUME NEW h \in Handlers, UNCHANGED <<obj, vm, queue, seen>>,
             lost => lost',
             pc'[h] \in {"wait", "get", "look"} \/ lost' \/ ~obj.exists
               \/ (pc[h] \notin {"wait", "get", "look", "put"})
               \/ (pc'[h] = "put" /\ pc[h] = "put"),
             \A u \in Handlers \ {h} : pc'[u] = pc[u]
      PROVE  CaughtInv'
  BY <1>1, <1>3 DEF OnItsWay
<1>4. ASSUME NEW h \in Handlers, Lock(h)
      PROVE  CaughtInv'
  <2>1. /\ UNCHANGED <<obj, vm, queue, seen>>
        /\ pc'[h] = "get" \/ lost'
        /\ \A u \in Handlers \ {h} : pc'[u] = pc[u]
    BY <1>4, Moves DEF Lock
  <2>2. lost => lost'
    BY <1>4, Zenon DEF Lock
  <2> QED BY <1>3, <2>1, <2>2
<1>5. ASSUME NEW h \in Handlers, GetObject(h)
      PROVE  CaughtInv'
  <2>1. UNCHANGED <<obj, vm, queue, seen>> /\ pc[h] = "get"
    BY <1>5 DEF GetObject
  <2>2. \A u \in Handlers \ {h} : pc'[u] = pc[u]
    BY <1>5, WorkInside
  <2>3. lost => lost'
    BY <1>5, Zenon DEF GetObject
  <2>4. pc'[h] \in {"get", "look"} \/ lost' \/ ~obj.exists
    <3>1. \/ Goto(h, "look")
          \/ ~obj.exists
          \/ FailedTry(h, UpdateTries, "failGet") /\ ~LastTry(h, UpdateTries)
          \/ lost'
      BY <1>5 DEF GetObject
    <3> QED BY <2>1, <3>1, Moves
  <2> QED BY <1>3, <2>1, <2>2, <2>3, <2>4
<1>6. ASSUME NEW h \in Handlers, Look(h)
      PROVE  CaughtInv'
  <2>1. UNCHANGED <<obj, vm, queue>>
    BY <1>6 DEF Look
  <2>2. lost => lost'
    BY <1>6, Zenon DEF Look
  <2>3. lost' \/ (seen' = [seen EXCEPT ![h] = vm] /\ Goto(h, "put"))
    BY <1>6 DEF Look
  <2>4. CASE seen' = [seen EXCEPT ![h] = vm] /\ Goto(h, "put")
    <3>1. seen'[h] = vm /\ pc'[h] = "put"
      BY <2>4, Moves DEF TypeOK
    <3> QED BY <1>1, <2>1, <2>2, <3>1 DEF OnItsWay
  <2> QED BY <2>3, <2>4 DEF CaughtInv
<1>7. ASSUME NEW h \in Handlers, PutObject(h)
      PROVE  CaughtInv'
  <2>1. /\ UNCHANGED <<vm, queue, seen>> /\ pc[h] = "put"
        /\ \A u \in Handlers \ {h} : pc'[u] = pc[u]
    BY <1>7, WorkInside DEF PutObject, Described
  <2>2. lost => lost'
    BY <1>7, Zenon DEF PutObject, Described
  <2>3. \/ UNCHANGED obj
        \/ obj.exists /\ obj'.spec = seen[h] /\ obj.spec <= seen[h]
    <3>1. UNCHANGED obj \/ obj.exists
      BY <1>7 DEF PutObject, Current, Described
    <3> QED BY <1>7, <3>1, PutEffect
  <2>4. lost' \/ pc'[h] = "put" \/ obj'.spec = seen[h]
    <3> DEFINE body == [snap[h] EXCEPT !.lifecycle = None, !.spec = seen[h],
                                       !.status = "state"]
    <3>1. body \in Version /\ body.spec = seen[h]
      BY <1>0 DEF TypeOK, Version
    <3>2. \/ Store(body)
          \/ lost'
          \/ \E limit : FailedTry(h, limit, AfterPush(h, TRUE)) /\ ~LastTry(h, limit)
      BY <1>7 DEF PutObject, Described
    <3> HIDE DEF body
    <3> QED BY <1>0, <2>1, <3>1, <3>2, StoreType, Moves
  <2>5. obj'.spec # vm => obj.spec # vm
    BY <1>0, <2>3
  <2>6. OnItsWay => OnItsWay' \/ lost' \/ obj'.spec = vm
    BY <1>0, <2>1, <2>4 DEF OnItsWay
  <2> QED BY <1>1, <2>1, <2>2, <2>3, <2>5, <2>6
<1>8. ASSUME NEW h \in Handlers,
             ReportGet(h) \/ ReportPut(h) \/ HaCheck(h) \/ Bind(h)
      PROVE  CaughtInv'
  <2>1. /\ UNCHANGED <<vm, queue, seen>>
        /\ pc[h] \notin {"wait", "get", "look", "put"}
        /\ \A u \in Handlers \ {h} : pc'[u] = pc[u]
    BY <1>8, WorkInside DEF ReportGet, ReportPut, HaCheck, Bind, Failure
  <2>2. lost => lost'
    BY <1>8, Zenon DEF ReportGet, ReportPut, HaCheck, Bind, Failure
  <2>3. obj'.spec = obj.spec /\ (obj'.exists => obj.exists)
    <3>1. CASE ReportPut(h)
      BY <3>1, ReportEffect DEF ReportPut, Current, Failure
    <3> QED BY <1>8, <3>1 DEF ReportGet, HaCheck, Bind
  <2>4. OnItsWay => OnItsWay'
    BY <2>1 DEF OnItsWay
  <2> QED BY <1>1, <2>1, <2>2, <2>3, <2>4
<1>9. ASSUME queue' # <<>>
      PROVE  CaughtInv'
  BY <1>9 DEF CaughtInv, OnItsWay
<1>10. ASSUME NEW h \in Handlers, HaStart(h)
       PROVE  CaughtInv'
  <2>1. CASE queue' = Append(queue, [type |-> "Started", migrated |-> FALSE])
    BY <1>9, <2>1 DEF TypeOK
  <2>2. CASE UNCHANGED domainVars
    <3>1. /\ UNCHANGED <<obj, vm, queue, seen, lost>> /\ pc[h] = "haStart"
          /\ \A u \in Handlers \ {h} : pc'[u] = pc[u]
      BY <1>10, <2>2, WorkInside DEF HaStart
    <3> QED BY <1>3, <3>1
  <2> QED BY <1>10, <2>1, <2>2 DEF HaStart
<1>11. ASSUME NEW h \in Handlers, Release(h)
       PROVE  CaughtInv'
  <2>1. /\ UNCHANGED <<obj, vm, queue, lost>> /\ pc[h] = "end"
        /\ \A u \in Handlers \ {h} : pc'[u] = pc[u] /\ seen'[u] = seen[u]
    BY <1>11, Moves DEF Release, TypeOK
  <2> QED BY <1>1, <2>1 DEF OnItsWay
<1>12. CASE \E e \in Event : DomainChange(e)
  BY <1>9, <1>12 DEF DomainChange, TypeOK
<1>13. CASE Command \/ WriteResult \/ MoveHost \/ Remove
  <2>1. /\ UNCHANGED <<domainVars, handlerVars>> /\ obj.exists
        /\ obj'.spec < obj.spec => lost'
        /\ lost => lost'
        /\ obj'.spec \in Nat /\ obj'.spec <= vm
    BY <1>13, WriteEffect DEF Version
  <2>2. OnItsWay' <=> OnItsWay
    BY <2>1 DEF OnItsWay
  <2> QED BY <1>0, <2>1, <2>2 DEF CaughtInv
<1>14. CASE Crash
  BY <1>14 DEF Crash, CaughtInv
<1>15. CASE UNCHANGED vars
  BY <1>15 DEF vars, CaughtInv, OnItsWay
<1> QED
  BY <1>2, <1>4, <1>5, <1>6, <1>7, <1>8, <1>10, <1>11, <1>12, <1>13, <1>14,
     <1>15 DEF Next, HandlerStep, Waiting

\* When all events have been handled and nothing was lost, the object describes
\* the current state of the domain.
THEOREM HandlersCatchUp == Spec => []CaughtUp
<1>1. Init => OrderInv /\ CaughtInv
  BY OrderStart DEF Init, InitVersion, CaughtInv
<1>2. TypeOK /\ OrderInv /\ CaughtInv /\ [Next]_vars => (OrderInv /\ CaughtInv)'
  BY OrderStep, CaughtStep
<1>3. CaughtInv => CaughtUp
  BY DEF CaughtInv, OnItsWay, CaughtUp, Idle
<1> QED BY <1>1, <1>2, <1>3, TypeCorrect, PTL DEF Spec
=============================================================================
