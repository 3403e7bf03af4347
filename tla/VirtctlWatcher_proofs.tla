------------------------ MODULE VirtctlWatcher_proofs ------------------------
(***************************************************************************)
(* Theorems about VirtctlWatcher, for every value of its constants.        *)
(***************************************************************************)
EXTENDS VirtctlWatcher, FiniteSetTheorems, TLAPS
-----------------------------------------------------------------------------
(* The requests on the object.                                               *)

\* The object starts as a version, and a deletion leaves one.
LEMMA InitVersionType == InitVersion \in Version
  BY DEF InitVersion, Version

LEMMA DeleteType ==
  ASSUME obj \in Version, Delete
  PROVE  /\ obj' \in Version /\ ~obj'.exists /\ obj'.lifecycle = None
         /\ obj'.spec = obj.spec /\ obj'.rv = obj.rv + 1
<1> DEFINE gone == [exists |-> FALSE, rv |-> obj.rv + 1, lifecycle |-> None,
                    spec |-> obj.spec, status |-> obj.status]
<1>1. obj' = gone
  BY DEF Delete, Version
<1>2. gone \in Version
  BY DEF Version
<1> QED BY <1>1, <1>2

\* A PUT of a body that is a version leaves a version with its lifecycle, its
\* state and the next resourceVersion.
LEMMA StoreType ==
  ASSUME obj \in Version, NEW body \in Version, Store(body)
  PROVE  /\ obj' \in Version /\ obj'.exists /\ obj'.lifecycle = body.lifecycle
         /\ obj'.spec = body.spec /\ obj'.rv = obj.rv + 1
<1> DEFINE new == [exists |-> TRUE, rv |-> obj.rv + 1,
                   lifecycle |-> body.lifecycle, spec |-> body.spec,
                   status |-> body.status]
<1>1. obj' = new
  BY DEF Store, Version
<1>2. new \in Version
  BY DEF Version
<1> QED BY <1>1, <1>2

LEMMA ReplaceType ==
  ASSUME obj \in Version, NEW body \in Version, Replace(body)
  PROVE  obj' \in Version /\ obj'.exists /\ obj'.lifecycle = body.lifecycle
  BY StoreType DEF Replace, Current
-----------------------------------------------------------------------------
\* Going to a label leaves pc and tries of their types.
LEMMA GotoType ==
  ASSUME TypeOK, NEW t \in Threads, NEW label \in Labels, Goto(t, label)
  PROVE  /\ pc' \in [Threads -> Labels]
         /\ tries' \in [Threads -> Nat]
  BY DEF Goto, TypeOK

\* So does a failed try, when the label it may go on at is one.
LEMMA FailedTryType ==
  ASSUME TypeOK, NEW t \in Threads, NEW limit \in Nat, NEW label \in Labels,
         FailedTry(t, limit, label)
  PROVE  /\ pc' \in [Threads -> Labels]
         /\ tries' \in [Threads -> Nat]
         /\ faults' \in Nat
<1>1. faults' \in Nat
  BY DEF FailedTry, TypeOK
<1>2. CASE tries[t] + 1 < limit
  <2>1. pc' = pc /\ tries' = [tries EXCEPT ![t] = @ + 1]
    BY <1>2 DEF FailedTry
  <2> QED BY <1>1, <2>1 DEF TypeOK
<1>3. CASE ~(tries[t] + 1 < limit)
  <2>1. Goto(t, label)
    BY <1>3 DEF FailedTry
  <2> QED BY <1>1, <2>1, GotoType
<1> QED BY <1>2, <1>3

\* The stream keeps its type when a version is announced.
LEMMA AnnounceType ==
  ASSUME TypeOK, obj' \in Version, Announce
  PROVE  stream' \in Seq(Event) /\ connected' \in BOOLEAN
<1>1. connected' \in BOOLEAN
  BY DEF Announce, TypeOK
<1> DEFINE event == IF obj'.exists
                    THEN [type |-> "MODIFIED", lifecycle |-> obj'.lifecycle]
                    ELSE [type |-> "DELETED", lifecycle |-> obj.lifecycle]
<1>2. event \in Event
  BY DEF TypeOK, Version, Event
<1>3. stream' \in {stream, Append(stream, event)}
  BY DEF Announce
<1>4. stream \in Seq(Event)
  BY DEF TypeOK
<1> HIDE DEF event
<1>5. stream' \in Seq(Event)
  BY <1>2, <1>3, <1>4
<1> QED BY <1>1, <1>5

\* A version announced without a command adds an event without one.
LEMMA AnnounceEmpty ==
  ASSUME TypeOK, obj' \in Version, obj'.exists, obj'.lifecycle = None, Announce
  PROVE  /\ connected' = connected
         /\ stream' \in {stream, Append(stream, [type |-> "MODIFIED",
                                                 lifecycle |-> None])}
  BY DEF Announce

\* A push leaves the object without a command, too.
LEMMA PushEffect ==
  ASSUME TypeOK, Push
  PROVE  /\ obj' \in Version /\ obj'.exists /\ obj'.lifecycle = None
         /\ UNCHANGED <<cmd, submitted, connected, closes, life, ranIn, pc,
                        tries, notice, faults>>
         /\ stream' \in {stream, Append(stream, [type |-> "MODIFIED",
                                                 lifecycle |-> None])}
<1>1. PICK seen \in 0..vm :
        Store([obj EXCEPT !.lifecycle = None, !.spec = seen, !.status = "state"])
  BY DEF Push
<1> DEFINE body == [obj EXCEPT !.lifecycle = None, !.spec = seen,
                               !.status = "state"]
<1>2. body \in Version /\ body.lifecycle = None /\ obj \in Version
  <2>1. obj \in Version /\ seen \in Nat
    BY DEF TypeOK
  <2> QED BY <2>1 DEF Version
<1> HIDE DEF body
<1>3. obj' \in Version /\ obj'.exists /\ obj'.lifecycle = None
  <2>1. Store(body)
    BY <1>1 DEF body
  <2> QED BY <1>2, <2>1, StoreType
<1>4. UNCHANGED <<cmd, submitted, closes, life, ranIn, pc, tries, notice, faults>>
  BY DEF Push, threadVars
<1>5. Announce
  BY DEF Push
<1>6. /\ connected' = connected
      /\ stream' \in {stream, Append(stream, [type |-> "MODIFIED",
                                              lifecycle |-> None])}
  BY <1>3, <1>5, AnnounceEmpty
<1> QED BY <1>3, <1>4, <1>6

\* Every step preserves the types.
LEMMA TypeStep ==
  ASSUME TypeOK, [Next]_vars
  PROVE  TypeOK'
<1> USE DEF watchVars, threadVars, worldVars
<1>1. ASSUME NEW t \in Threads, Deliver(t)
      PROVE  TypeOK'
  <2>1. stream \in Seq(Event) /\ stream # <<>>
    BY <1>1 DEF Deliver, TypeOK
  <2>2. stream' \in Seq(Event) /\ Head(stream) \in Event
    BY <1>1, <2>1 DEF Deliver
  <2>3. CASE UNCHANGED threadVars
    BY <1>1, <2>2, <2>3 DEF Deliver, TypeOK
  <2>4. CASE /\ Goto(t, "delGet")
             /\ cmd' = [cmd EXCEPT ![t] = Head(stream).lifecycle]
             /\ UNCHANGED <<snap, data, notice, wrote>>
    <3>1. "delGet" \in Labels
      BY DEF Labels
    <3>2. pc' \in [Threads -> Labels] /\ tries' \in [Threads -> Nat]
      BY <2>4, <3>1, GotoType
    <3>3. Head(stream).lifecycle \in Cmds \cup {None}
      BY <2>2 DEF Event
    <3>4. cmd' \in [Threads -> Cmds \cup {None}]
      BY <2>4, <3>3 DEF TypeOK
    <3> QED BY <1>1, <2>2, <2>4, <3>2, <3>4 DEF Deliver, TypeOK
  <2> QED BY <1>1, <2>3, <2>4 DEF Deliver
<1>2. ASSUME NEW t \in Threads, DelGet(t)
      PROVE  TypeOK'
  <2>1. {"delPut", "evCreate", "outerGet"} \subseteq Labels
    BY DEF Labels
  <2>2. /\ pc' \in [Threads -> Labels]
        /\ tries' \in [Threads -> Nat]
        /\ faults' \in Nat
    BY <1>2, <2>1, GotoType, FailedTryType DEF DelGet, FailedCall, TypeOK
  <2>3. snap' \in [Threads -> Version]
    BY <1>2 DEF DelGet, Read, TypeOK
  <2> QED BY <1>2, <2>2, <2>3 DEF DelGet, TypeOK
<1>3. ASSUME NEW t \in Threads, DelPut(t)
      PROVE  TypeOK'
  <2> DEFINE body == [snap[t] EXCEPT !.lifecycle = None]
  <2>1. {"evCreate", "outerGet"} \subseteq Labels
    BY DEF Labels
  <2>2. /\ pc' \in [Threads -> Labels]
        /\ tries' \in [Threads -> Nat]
        /\ faults' \in Nat
    BY <1>3, <2>1, GotoType, FailedTryType DEF DelPut, FailedCall, TypeOK
  <2>3. body \in Version /\ obj \in Version
    BY DEF TypeOK, Version
  <2>4. UNCHANGED obj \/ Replace(body)
    BY <1>3 DEF DelPut
  <2>5. obj' \in Version
    BY <2>3, <2>4, ReplaceType
  <2>6. stream' \in Seq(Event) /\ connected' \in BOOLEAN
    BY <1>3, <2>5, AnnounceType DEF DelPut
  <2>7. snap' \in [Threads -> Version]
    BY <1>3, InitVersionType DEF DelPut, Forget, TypeOK
  <2> QED BY <1>3, <2>2, <2>5, <2>6, <2>7 DEF DelPut, TypeOK
<1>4. ASSUME NEW t \in Threads, EvCreate(t)
      PROVE  TypeOK'
  <2>1. {"invoke", "done"} \subseteq Labels
    BY DEF Labels
  <2>2. /\ pc' \in [Threads -> Labels]
        /\ tries' \in [Threads -> Nat]
        /\ faults' \in Nat
    BY <1>4, <2>1, GotoType, FailedTryType, VirtctlAssumption DEF EvCreate, TypeOK, SetNotice
  <2> QED BY <1>4, <2>2 DEF EvCreate, TypeOK, SetNotice
<1>5. ASSUME NEW t \in Threads, Invoke(t)
      PROVE  TypeOK'
  <2>1. {"query", "failGet"} \subseteq Labels
    BY DEF Labels
  <2>2. pc' \in [Threads -> Labels] /\ tries' \in [Threads -> Nat]
    BY <1>5, <2>1, GotoType DEF Invoke
  <2>3. vm' \in Nat
    BY <1>5 DEF Invoke, TypeOK
  <2>4. ranIn' \in [Cmds -> SUBSET Nat]
    BY <1>5 DEF Invoke, TypeOK
  <2> QED BY <1>5, <2>2, <2>3, <2>4 DEF Invoke, TypeOK
<1>6. ASSUME NEW t \in Threads, Query(t)
      PROVE  TypeOK'
  <2>1. {"wrGet", "failGet"} \subseteq Labels
    BY DEF Labels
  <2>2. pc' \in [Threads -> Labels] /\ tries' \in [Threads -> Nat]
    BY <1>6, <2>1, GotoType DEF Query
  <2> DEFINE Result == [kind : {"none", "empty", "spec"}, spec : Nat]
  <2>3. data' \in [Threads -> Result]
    <3>1. CASE UNCHANGED data
      BY <3>1 DEF TypeOK
    <3>2. ASSUME NEW kind \in {"none", "empty", "spec"},
                 data' = [data EXCEPT ![t] =
                   [kind |-> kind, spec |-> IF kind = "spec" THEN vm ELSE 0]]
          PROVE  data' \in [Threads -> Result]
      <4>1. [kind |-> kind, spec |-> IF kind = "spec" THEN vm ELSE 0] \in Result
        BY DEF TypeOK
      <4>2. data \in [Threads -> Result]
        BY DEF TypeOK
      <4> QED BY <3>2, <4>1, <4>2
    <3> QED BY <1>6, <3>1, <3>2 DEF Query
  <2> QED BY <1>6, <2>2, <2>3 DEF Query, TypeOK
<1>7. ASSUME NEW t \in Threads, WrGet(t)
      PROVE  TypeOK'
  <2>1. {"wrPut", "evDone", "failGet"} \subseteq Labels
    BY DEF Labels
  <2>2. /\ pc' \in [Threads -> Labels]
        /\ tries' \in [Threads -> Nat]
        /\ faults' \in Nat
    BY <1>7, <2>1, GotoType, FailedTryType DEF WrGet, FailedCall, TypeOK
  <2>3. snap' \in [Threads -> Version]
    BY <1>7 DEF WrGet, Read, TypeOK
  <2> QED BY <1>7, <2>2, <2>3 DEF WrGet, TypeOK
<1>8. ASSUME NEW t \in Threads, WrPut(t)
      PROVE  TypeOK'
  <2> DEFINE body == [snap[t] EXCEPT !.lifecycle = None,
                                   !.spec = data[t].spec, !.status = "state"]
  <2>1. {"evDone", "failGet"} \subseteq Labels
    BY DEF Labels
  <2>2. /\ pc' \in [Threads -> Labels]
        /\ tries' \in [Threads -> Nat]
        /\ faults' \in Nat
    BY <1>8, <2>1, GotoType, FailedTryType DEF WrPut, FailedCall, TypeOK
  <2>3. body \in Version /\ obj \in Version
    BY DEF TypeOK, Version
  <2>4. UNCHANGED obj \/ Replace(body)
    BY <1>8 DEF WrPut
  <2>5. obj' \in Version
    BY <2>3, <2>4, ReplaceType
  <2>6. stream' \in Seq(Event) /\ connected' \in BOOLEAN
    BY <1>8, <2>5, AnnounceType DEF WrPut
  <2>7. snap' \in [Threads -> Version]
    BY <1>8, InitVersionType DEF WrPut, Forget, TypeOK
  <2>8. wrote' \subseteq Threads
    BY <1>8 DEF WrPut, TypeOK
  <2> QED BY <1>8, <2>2, <2>5, <2>6, <2>7, <2>8 DEF WrPut, TypeOK
<1>9. ASSUME NEW t \in Threads, EvDone(t)
      PROVE  TypeOK'
  <2>1. {"done", "evError"} \subseteq Labels
    BY DEF Labels
  <2>2. /\ pc' \in [Threads -> Labels]
        /\ tries' \in [Threads -> Nat]
        /\ faults' \in Nat
    BY <1>9, <2>1, GotoType, FailedTryType, VirtctlAssumption DEF EvDone, TypeOK, SetNotice
  <2> QED BY <1>9, <2>2 DEF EvDone, TypeOK, SetNotice
<1>10. ASSUME NEW t \in Threads, EvError(t)
      PROVE  TypeOK'
  <2>1. {"done"} \subseteq Labels
    BY DEF Labels
  <2>2. /\ pc' \in [Threads -> Labels]
        /\ tries' \in [Threads -> Nat]
        /\ faults' \in Nat
    BY <1>10, <2>1, GotoType, FailedTryType, VirtctlAssumption DEF EvError, TypeOK, SetNotice
  <2> QED BY <1>10, <2>2 DEF EvError, TypeOK, SetNotice
<1>11. ASSUME NEW t \in Threads, ReportGet(t)
      PROVE  TypeOK'
  <2>0. AfterReport(t) \in Labels
    BY DEF AfterReport, Labels
  <2>1. {"failPut", "outerPut"} \subseteq Labels
    BY DEF Labels
  <2>2. /\ pc' \in [Threads -> Labels]
        /\ tries' \in [Threads -> Nat]
        /\ faults' \in Nat
    BY <1>11, <2>1, GotoType, FailedTryType, VirtctlAssumption, <2>0 DEF ReportGet, TypeOK
  <2>3. snap' \in [Threads -> Version]
    BY <1>11 DEF ReportGet, Read, TypeOK
  <2> QED BY <1>11, <2>2, <2>3 DEF ReportGet, TypeOK
<1>12. ASSUME NEW t \in Threads, ReportPut(t)
      PROVE  TypeOK'
  <2> DEFINE body == [snap[t] EXCEPT !.lifecycle = None,
                                     !.status = "failure"]
  <2>1. AfterReport(t) \in Labels
    BY DEF AfterReport, Labels
  <2>2. /\ pc' \in [Threads -> Labels]
        /\ tries' \in [Threads -> Nat]
        /\ faults' \in Nat
    BY <1>12, <2>1, GotoType, FailedTryType, VirtctlAssumption
       DEF ReportPut, TypeOK, Failure
  <2>3. body \in Version /\ obj \in Version
    BY DEF TypeOK, Version
  <2>4. UNCHANGED obj \/ Store(body)
    BY <1>12 DEF ReportPut, Failure
  <2>5. obj' \in Version
    BY <2>3, <2>4, StoreType
  <2>6. stream' \in Seq(Event) /\ connected' \in BOOLEAN
    BY <1>12, <2>5, AnnounceType DEF ReportPut, Failure
  <2>7. snap' \in [Threads -> Version]
    <3>1. Forget(t) \/ UNCHANGED snap
      BY <1>12 DEF ReportPut, Failure
    <3> QED BY <3>1, InitVersionType DEF Forget, TypeOK
  <2> QED BY <1>12, <2>2, <2>5, <2>6, <2>7 DEF ReportPut, TypeOK, Failure
<1>13. ASSUME NEW c \in Cmds, Submit(c)
       PROVE  TypeOK'
  <2>1. [obj EXCEPT !.lifecycle = c] \in Version
    BY DEF TypeOK, Version
  <2>2. obj' \in Version
    BY <1>13, <2>1, StoreType DEF Submit, TypeOK
  <2>3. stream' \in Seq(Event) /\ connected' \in BOOLEAN
    BY <1>13, <2>2, AnnounceType DEF Submit
  <2> QED BY <1>13, <2>2, <2>3 DEF Submit, TypeOK
<1>14. ASSUME Remove
       PROVE  TypeOK'
  <2>1. obj' \in Version
    BY <1>14, DeleteType DEF Remove, TypeOK
  <2>2. stream' \in Seq(Event) /\ connected' \in BOOLEAN
    BY <1>14, <2>1, AnnounceType DEF Remove
  <2> QED BY <1>14, <2>1, <2>2 DEF Remove, TypeOK
<1>15. CASE VmChange
  BY <1>15 DEF VmChange, TypeOK
<1>16. CASE Disconnect
  <2>1. stream' \in Seq(Event)
    BY <1>16 DEF Disconnect
  <2>2. connected' \in BOOLEAN
    BY <1>16, Zenon DEF Disconnect
  <2> QED BY <1>16, <2>1, <2>2 DEF Disconnect, TypeOK
<1>17. CASE Reconnect
  <2>1. [type |-> "ADDED", lifecycle |-> obj.lifecycle] \in Event
    BY DEF TypeOK, Version, Event
  <2>2. stream' \in Seq(Event)
    BY <1>17, <2>1 DEF Reconnect
  <2> QED BY <1>17, <2>2 DEF Reconnect, TypeOK
<1>18. CASE Crash
  <2>1. stream' \in Seq(Event)
    BY <1>18 DEF Crash
  <2>2. connected' \in BOOLEAN
    BY <1>18, Zenon DEF Crash
  <2>3. pc' \in [Threads -> Labels]
    BY <1>18 DEF Crash, TypeOK, Labels
  <2> QED BY <1>18, <2>1, <2>2, <2>3 DEF Crash, TypeOK
<1>19. CASE UNCHANGED vars
  BY <1>19 DEF vars, TypeOK
<1>20. CASE Push
  <2>1. obj' \in Version
    BY <1>20, PushEffect
  <2>2. stream' \in Seq(Event) /\ connected' \in BOOLEAN
    BY <1>20, <2>1, AnnounceType DEF Push
  <2> QED BY <1>20, <2>1, <2>2 DEF Push, TypeOK
<1> QED
  BY <1>1, <1>2, <1>3, <1>4, <1>5, <1>6, <1>7, <1>8, <1>9, <1>10, <1>11,
     <1>12, <1>13, <1>14, <1>15, <1>16, <1>17, <1>18, <1>19, <1>20
     DEF Next, ThreadStep, Waiting

\* The initial states have the types.
LEMMA TypeStart == Init => TypeOK
  BY VirtctlAssumption
     DEF Init, TypeOK, InitVersion, Version, NoData, Labels, Event

\* Every variable has its type in every state of every behaviour.
THEOREM TypeCorrect == Spec => []TypeOK
<1>1. Init => TypeOK
  BY TypeStart
<1>2. TypeOK /\ [Next]_vars => TypeOK'
  BY TypeStep
<1> QED BY <1>1, <1>2, PTL DEF Spec

-----------------------------------------------------------------------------
(* The handover of a command: the parts of the inductive invariant *)

\* Everything that names a command names one that was posted.
Posted ==
  /\ obj.lifecycle \in submitted \cup {None}
  /\ \A i \in DOMAIN stream : stream[i].lifecycle \in submitted \cup {None}
  /\ \A t \in Threads : cmd[t] \in submitted \cup {None}

\* A deleted object holds no command.
DeadIsEmpty == ~obj.exists => obj.lifecycle = None

\* A thread has a command from the moment it leaves "idle".
Started ==
  \A t \in Threads :
    IF pc[t] = "idle" THEN cmd[t] = None /\ notice[t] = "none"
                      ELSE cmd[t] # None

HandoverInv == TypeOK /\ Posted /\ DeadIsEmpty /\ Started /\ NoReentry

\* No trace of command c is left by which a thread could be given it.
Buried(c) ==
  /\ obj.lifecycle # c
  /\ \A i \in DOMAIN stream : stream[i].lifecycle # c
  /\ \A t \in Threads : Active(t) => cmd[t] # c

\* A command that was run has left the object, and one that was run by an
\* earlier life of virtctl is buried.
RunInv ==
  \A c \in Cmds : \A l \in ranIn[c] :
    /\ c \in submitted
    /\ obj.lifecycle # c
    /\ l <= life
    /\ l < life => Buried(c)
    /\ \A m \in ranIn[c] : l = m

\* The failed tries of a call are among the requests that failed, and a thread
\* in the outer handler has announced nothing.
ClosedInv ==
  /\ faults <= MaxFaults
  /\ \A t \in Threads :
       /\ tries[t] <= faults
       /\ pc[t] \in {"idle", "delGet", "delPut", "outerGet", "outerPut"} =>
            notice[t] = "none"
  /\ AnnouncedIsClosed

\* An event that hands a command to a thread.
Hands(event) == event.type # "DELETED" /\ event.lifecycle # None

\* While the watch stays open a command is in one place only: in one event of
\* the stream, or with one thread.
OncePlaced ==
  closes = 0 /\ life = 0 =>
    /\ connected
    /\ \A i, j \in DOMAIN stream :
         Hands(stream[i]) /\ Hands(stream[j])
           /\ stream[i].lifecycle = stream[j].lifecycle => i = j
    /\ \A i \in DOMAIN stream, t \in Threads :
         Hands(stream[i]) => cmd[t] # stream[i].lifecycle
    /\ HandedOutOnce

-----------------------------------------------------------------------------
(* What a thread's step does to the shared state *)

\* A step of a thread leaves the commands and the other threads alone; if it
\* writes the object at all, it leaves it without a command.
LEMMA ThreadStepEffect ==
  ASSUME TypeOK, NEW t \in Threads, ThreadStep(t)
  PROVE  /\ UNCHANGED <<cmd, submitted, connected, closes, life>>
         /\ \/ UNCHANGED <<obj, stream>>
            \/ /\ obj'.exists /\ obj'.lifecycle = None
               /\ stream' \in {stream, Append(stream, [type |-> "MODIFIED",
                                                       lifecycle |-> None])}
<1> USE DEF watchVars, worldVars
<1>1. ASSUME NEW body \in Version, body.lifecycle = None, Announce,
             UNCHANGED obj \/ Replace(body) \/ Store(body)
      PROVE  /\ connected' = connected
             /\ \/ UNCHANGED <<obj, stream>>
                \/ /\ obj'.exists /\ obj'.lifecycle = None
                   /\ stream' \in {stream, Append(stream,
                                             [type |-> "MODIFIED",
                                              lifecycle |-> None])}
  <2>0. obj \in Version
    BY DEF TypeOK
  <2>1. CASE UNCHANGED obj
    BY <1>1, <2>1 DEF Announce
  <2>2. CASE Store(body)
    BY <1>1, <2>0, <2>2, StoreType, AnnounceEmpty
  <2> QED BY <1>1, <2>1, <2>2 DEF Replace
<1>2. CASE DelPut(t)
  <2> DEFINE body == [snap[t] EXCEPT !.lifecycle = None]
  <2>1. body \in Version /\ body.lifecycle = None
    BY DEF TypeOK, Version
  <2>2. UNCHANGED obj \/ Replace(body)
    BY <1>2 DEF DelPut
  <2> HIDE DEF body
  <2> QED BY <1>1, <1>2, <2>1, <2>2 DEF DelPut
<1>3. CASE WrPut(t)
  <2> DEFINE body == [snap[t] EXCEPT !.lifecycle = None,
                                     !.spec = data[t].spec, !.status = "state"]
  <2>1. body \in Version /\ body.lifecycle = None
    BY DEF TypeOK, Version
  <2>2. UNCHANGED obj \/ Replace(body)
    BY <1>3 DEF WrPut
  <2> HIDE DEF body
  <2> QED BY <1>1, <1>3, <2>1, <2>2 DEF WrPut
<1>4. CASE ReportPut(t)
  <2> DEFINE body == [snap[t] EXCEPT !.lifecycle = None, !.status = "failure"]
  <2>1. body \in Version /\ body.lifecycle = None
    BY DEF TypeOK, Version
  <2>2. UNCHANGED obj \/ Store(body)
    BY <1>4 DEF ReportPut, Failure
  <2> HIDE DEF body
  <2> QED BY <1>1, <1>4, <2>1, <2>2 DEF ReportPut, Failure
<1>5. CASE DelGet(t)
  BY <1>5 DEF DelGet
<1>6. CASE EvCreate(t)
  BY <1>6 DEF EvCreate, SetNotice
<1>7. CASE Invoke(t)
  BY <1>7 DEF Invoke
<1>8. CASE Query(t)
  BY <1>8 DEF Query
<1>9. CASE WrGet(t)
  BY <1>9 DEF WrGet
<1>10. CASE EvDone(t)
  BY <1>10 DEF EvDone, SetNotice
<1>11. CASE EvError(t)
  BY <1>11 DEF EvError, SetNotice
<1>12. CASE ReportGet(t)
  BY <1>12 DEF ReportGet
<1> QED
  BY <1>2, <1>3, <1>4, <1>5, <1>6, <1>7, <1>8, <1>9, <1>10, <1>11, <1>12
     DEF ThreadStep

\* A step of a thread moves this thread only: from a label where it is active,
\* to another or to its end.
LEMMA ThreadStepControl ==
  ASSUME TypeOK, NEW t \in Threads, ThreadStep(t)
  PROVE  /\ Active(t)
         /\ pc'[t] \notin {"idle", "killed"}
         /\ \A u \in Threads \ {t} : /\ pc'[u] = pc[u]
                                     /\ tries'[u] = tries[u]
                                     /\ notice'[u] = notice[u]
<1>1. Active(t)
  BY DEF ThreadStep, DelGet, DelPut, EvCreate, Invoke, Query, WrGet, WrPut,
         EvDone, EvError, ReportGet, ReportPut, Active, SetNotice, Failure
<1>2. ASSUME NEW label, label \notin {"idle", "killed"}, Goto(t, label)
      PROVE  /\ pc'[t] \notin {"idle", "killed"}
             /\ \A u \in Threads \ {t} : pc'[u] = pc[u] /\ tries'[u] = tries[u]
  BY <1>2 DEF Goto, TypeOK
<1>3. ASSUME NEW limit, NEW label, label \notin {"idle", "killed"},
             FailedTry(t, limit, label)
      PROVE  /\ pc'[t] \notin {"idle", "killed"}
             /\ \A u \in Threads \ {t} : pc'[u] = pc[u] /\ tries'[u] = tries[u]
  <2>1. Goto(t, label) \/ (pc' = pc /\ tries' = [tries EXCEPT ![t] = @ + 1])
    BY <1>3 DEF FailedTry
  <2> QED BY <1>1, <1>2, <1>3, <2>1 DEF TypeOK, Active
<1>4. AfterReport(t) \notin {"idle", "killed"}
  BY DEF AfterReport
<1>5. \A u \in Threads \ {t} : notice'[u] = notice[u]
  BY DEF ThreadStep, DelGet, DelPut, EvCreate, Invoke, Query, WrGet, WrPut,
         EvDone, EvError, ReportGet, ReportPut, TypeOK, SetNotice, Failure
<1>6. \/ \E label \in Labels \ {"idle", "killed"} : Goto(t, label)
      \/ \E label \in Labels \ {"idle", "killed"}, limit \in Nat :
           FailedTry(t, limit, label)
  <2> DEFINE Ends == Labels \ {"idle", "killed"}
             Moves == \/ \E label \in Ends : Goto(t, label)
                      \/ \E label \in Ends, limit \in Nat :
                           FailedTry(t, limit, label)
  <2>1. /\ AfterReport(t) \in Ends
        /\ {"delPut", "evCreate", "invoke", "query", "wrGet", "wrPut", "evDone",
            "failGet", "failPut", "evError", "outerGet", "outerPut", "done"}
             \subseteq Ends
    BY DEF Labels, AfterReport
  <2>2. EventTries \in Nat /\ UpdateTries \in Nat /\ 1 \in Nat
    BY VirtctlAssumption
  <2>3. ASSUME NEW label \in Ends, Goto(t, label)
        PROVE  Moves
    BY <2>3
  <2>4. ASSUME NEW limit \in Nat, NEW label \in Ends, FailedTry(t, limit, label)
        PROVE  Moves
    BY <2>4
  <2> SUFFICES Moves
    OBVIOUS
  <2> HIDE DEF Ends, Moves
  <2>5. CASE DelGet(t)
    BY <2>1, <2>2, <2>3, <2>4, <2>5 DEF DelGet, FailedCall
  <2>6. CASE DelPut(t)
    BY <2>1, <2>2, <2>3, <2>4, <2>6 DEF DelPut, FailedCall
  <2>7. CASE EvCreate(t)
    BY <2>1, <2>2, <2>3, <2>4, <2>7 DEF EvCreate, SetNotice
  <2>8. CASE Invoke(t)
    BY <2>1, <2>2, <2>3, <2>4, <2>8 DEF Invoke
  <2>9. CASE Query(t)
    BY <2>1, <2>2, <2>3, <2>4, <2>9 DEF Query
  <2>10. CASE WrGet(t)
    BY <2>1, <2>2, <2>3, <2>4, <2>10 DEF WrGet, FailedCall
  <2>11. CASE WrPut(t)
    BY <2>1, <2>2, <2>3, <2>4, <2>11 DEF WrPut, FailedCall
  <2>12. CASE EvDone(t)
    BY <2>1, <2>2, <2>3, <2>4, <2>12 DEF EvDone, SetNotice
  <2>13. CASE EvError(t)
    BY <2>1, <2>2, <2>3, <2>4, <2>13 DEF EvError, SetNotice
  <2>14. CASE ReportGet(t)
    BY <2>1, <2>2, <2>3, <2>4, <2>14 DEF ReportGet
  <2>15. CASE ReportPut(t)
    BY <2>1, <2>2, <2>3, <2>4, <2>15 DEF ReportPut, Failure
  <2> QED
    BY <2>5, <2>6, <2>7, <2>8, <2>9, <2>10, <2>11, <2>12, <2>13, <2>14, <2>15
       DEF ThreadStep
<1> QED BY <1>1, <1>2, <1>3, <1>5, <1>6

\* A thread gets past delete_lifecycle_in_kubernetes, or announces its command,
\* only when the object is without command.
LEMMA AcceptedWithoutCommand ==
  ASSUME HandoverInv, NEW t \in Threads, ThreadStep(t)
  PROVE  pc'[t] \in Accepted \/ notice'[t] # "none" => obj'.lifecycle # cmd[t]
<1>1. Active(t) /\ cmd[t] # None
  BY ThreadStepControl DEF HandoverInv, Started, Active
<1>2. obj'.lifecycle \in {obj.lifecycle, None}
  BY ThreadStepEffect DEF HandoverInv
<1>3. CASE pc[t] \in Accepted \/ notice[t] # "none"
  BY <1>1, <1>2, <1>3 DEF HandoverInv, NoReentry
<1>4. CASE pc[t] \notin Accepted /\ notice[t] = "none"
  <2>1. pc[t] \in {"delGet", "delPut", "outerGet", "outerPut"}
    BY <1>1, <1>4 DEF HandoverInv, TypeOK, Labels, Accepted, Active
  <2>2. CASE DelGet(t)
    <3>1. notice' = notice
      BY <2>2 DEF DelGet
    <3>2. CASE ~obj.exists
      BY <1>1, <1>2, <3>2 DEF HandoverInv, DeadIsEmpty
    <3>3. CASE obj.exists
      <4>1. pc'[t] \in {"delGet", "delPut", "outerGet"}
        BY <2>2, <3>3 DEF DelGet, FailedCall, FailedTry, Goto, HandoverInv, TypeOK
      <4> QED BY <1>4, <3>1, <4>1 DEF Accepted
    <3> QED BY <3>2, <3>3
  <2>3. CASE DelPut(t)
    <3> DEFINE body == [snap[t] EXCEPT !.lifecycle = None]
    <3>1. notice' = notice
      BY <2>3 DEF DelPut
    <3>2. CASE Replace(body)
      <4>1. body \in Version /\ body.lifecycle = None /\ obj \in Version
        BY DEF HandoverInv, TypeOK, Version
      <4>2. obj'.lifecycle = None
        BY <3>2, <4>1, ReplaceType
      <4> QED BY <1>1, <4>2
    <3>3. CASE ~Replace(body)
      <4>1. pc'[t] \in {"delPut", "outerGet"}
        BY <2>3, <3>3 DEF DelPut, FailedCall, FailedTry, Goto, HandoverInv, TypeOK
      <4> QED BY <1>4, <3>1, <4>1 DEF Accepted
    <3> QED BY <3>2, <3>3
  <2>4. CASE ReportGet(t)
    <3>1. notice' = notice
      BY <2>4 DEF ReportGet
    <3>2. pc[t] = "outerGet"
      BY <1>4, <2>4 DEF ReportGet, Accepted
    <3>3. pc'[t] \in {"outerGet", "outerPut", "done"}
      BY <2>4, <3>2 DEF ReportGet, AfterReport, FailedTry, Goto, HandoverInv, TypeOK
    <3> QED BY <1>4, <3>1, <3>3 DEF Accepted
  <2>5. CASE ReportPut(t)
    <3>1. notice' = notice
      BY <2>5 DEF ReportPut, Failure
    <3>2. pc[t] = "outerPut"
      BY <1>4, <2>5 DEF ReportPut, Accepted, Failure
    <3>3. pc'[t] \in {"outerPut", "done"}
      BY <2>5, <3>2 DEF ReportPut, AfterReport, FailedTry, Goto, HandoverInv, TypeOK, Failure
    <3> QED BY <1>4, <3>1, <3>3 DEF Accepted
  <2> QED
    BY <2>1, <2>2, <2>3, <2>4, <2>5
       DEF ThreadStep, EvCreate, Invoke, Query, WrGet, WrPut, EvDone, EvError, SetNotice
<1> QED BY <1>3, <1>4

\* Every step preserves the handover invariant.
LEMMA HandoverStep ==
  ASSUME HandoverInv, [Next]_vars
  PROVE  HandoverInv'
<1> USE DEF watchVars, threadVars, worldVars
<1>0. TypeOK /\ TypeOK'
  BY TypeStep DEF HandoverInv
<1>1. ASSUME NEW t \in Threads, Deliver(t)
      PROVE  HandoverInv'
  <2>1. stream # <<>> /\ stream' = Tail(stream) /\ pc[t] = "idle" /\ UNCHANGED <<obj, submitted>>
    BY <1>1 DEF Deliver
  <2>2. stream \in Seq(Event)
    BY <1>0 DEF TypeOK
  <2>3. /\ Head(stream).lifecycle \in submitted \cup {None}
        /\ \A i \in DOMAIN stream' : stream'[i].lifecycle \in submitted \cup {None}
    BY <2>1, <2>2 DEF HandoverInv, Posted
  <2>4. CASE UNCHANGED threadVars
    BY <1>0, <2>1, <2>3, <2>4
       DEF HandoverInv, Posted, DeadIsEmpty, Started, NoReentry
  <2>5. CASE /\ HasCommand(Head(stream))
             /\ Goto(t, "delGet")
             /\ cmd' = [cmd EXCEPT ![t] = Head(stream).lifecycle]
             /\ UNCHANGED <<snap, data, notice, wrote>>
    <3>1. /\ pc' = [pc EXCEPT ![t] = "delGet"]
          /\ notice[t] = "none"
          /\ Head(stream).lifecycle # None
      BY <2>1, <2>5 DEF Goto, HandoverInv, Started, HasCommand
    <3>2. Posted'
      BY <1>0, <2>1, <2>3, <2>5 DEF HandoverInv, Posted, TypeOK
    <3>3. Started'
      BY <1>0, <2>5, <3>1 DEF HandoverInv, Started, TypeOK
    <3>4. NoReentry'
      BY <1>0, <2>1, <2>5, <3>1 DEF HandoverInv, NoReentry, Accepted, TypeOK
    <3>5. DeadIsEmpty'
      BY <2>1 DEF HandoverInv, DeadIsEmpty
    <3> QED BY <1>0, <3>2, <3>3, <3>4, <3>5 DEF HandoverInv
  <2> QED BY <1>1, <2>4, <2>5 DEF Deliver
<1>2. ASSUME NEW t \in Threads, ThreadStep(t)
      PROVE  HandoverInv'
  <2>1. /\ UNCHANGED <<cmd, submitted>>
        /\ \/ UNCHANGED <<obj, stream>>
           \/ /\ obj'.exists /\ obj'.lifecycle = None
              /\ stream' \in {stream, Append(stream, [type |-> "MODIFIED",
                                                      lifecycle |-> None])}
    BY <1>0, <1>2, ThreadStepEffect
  <2>2. /\ Active(t)
        /\ pc'[t] \notin {"idle", "killed"}
        /\ \A u \in Threads \ {t} : pc'[u] = pc[u] /\ notice'[u] = notice[u]
    BY <1>0, <1>2, ThreadStepControl
  <2>3. stream \in Seq(Event)
    BY <1>0 DEF TypeOK
  <2>4. Posted'
    BY <2>1, <2>3 DEF HandoverInv, Posted
  <2>5. DeadIsEmpty'
    BY <2>1 DEF HandoverInv, DeadIsEmpty
  <2>6. Started'
    BY <2>1, <2>2 DEF HandoverInv, Started, Active
  <2>7. NoReentry'
    <3> SUFFICES ASSUME NEW u \in Threads, pc'[u] \in Accepted \/ notice'[u] # "none"
                 PROVE  obj'.lifecycle # cmd'[u]
      BY DEF NoReentry
    <3>1. CASE u = t
      BY <1>2, <2>1, <3>1, AcceptedWithoutCommand
    <3>2. CASE u # t
      <4>1. cmd[u] # None
        BY <2>2, <3>2 DEF HandoverInv, Started, Accepted
      <4> QED BY <2>1, <2>2, <3>2, <4>1 DEF HandoverInv, NoReentry
    <3> QED BY <3>1, <3>2
  <2> QED BY <1>0, <2>4, <2>5, <2>6, <2>7 DEF HandoverInv
<1>3. ASSUME NEW c \in Cmds, Submit(c)
      PROVE  HandoverInv'
  <2> DEFINE body == [obj EXCEPT !.lifecycle = c]
  <2>1. body \in Version /\ body.lifecycle = c /\ obj \in Version
    BY <1>0 DEF TypeOK, Version
  <2>2. obj'.exists /\ obj'.lifecycle = c
    BY <1>3, <2>1, StoreType DEF Submit
  <2>3. stream' \in {stream, Append(stream, [type |-> "MODIFIED", lifecycle |-> c])}
    BY <1>3, <2>2 DEF Submit, Announce
  <2>4. /\ c \notin submitted /\ c # None /\ submitted' = submitted \cup {c}
        /\ UNCHANGED <<pc, cmd, notice>>
    BY <1>3, CmdsAssumption DEF Submit
  <2>5. stream \in Seq(Event)
    BY <1>0 DEF TypeOK
  <2>6. Posted'
    BY <2>2, <2>3, <2>4, <2>5 DEF HandoverInv, Posted
  <2>7. NoReentry'
    BY <2>2, <2>4 DEF HandoverInv, Posted, NoReentry
  <2> QED BY <1>0, <2>2, <2>4, <2>6, <2>7 DEF HandoverInv, DeadIsEmpty, Started
<1>4. CASE Remove
  <2>1. obj'.lifecycle = None
    BY <1>0, <1>4, DeleteType DEF Remove, TypeOK
  <2>2. stream' \in {stream, Append(stream, [type |-> "MODIFIED", lifecycle |-> None]),
                     Append(stream, [type |-> "DELETED", lifecycle |-> obj.lifecycle])}
    BY <1>4, <2>1 DEF Remove, Announce
  <2>3. UNCHANGED <<submitted, pc, cmd, notice>>
    BY <1>4 DEF Remove
  <2>4. stream \in Seq(Event)
    BY <1>0 DEF TypeOK
  <2>5. Posted'
    BY <2>1, <2>2, <2>3, <2>4 DEF HandoverInv, Posted
  <2>6. NoReentry'
    BY <2>1, <2>3 DEF HandoverInv, NoReentry, Started, Accepted
  <2> QED BY <1>0, <2>1, <2>3, <2>5, <2>6 DEF HandoverInv, DeadIsEmpty, Started
<1>5. CASE VmChange
  BY <1>0, <1>5 DEF VmChange, HandoverInv, Posted, DeadIsEmpty, Started, NoReentry
<1>6. CASE Disconnect
  BY <1>0, <1>6 DEF Disconnect, HandoverInv, Posted, DeadIsEmpty, Started, NoReentry
<1>7. CASE Reconnect
  <2>1. stream' \in {<<>>, <<[type |-> "ADDED", lifecycle |-> obj.lifecycle]>>}
    BY <1>7 DEF Reconnect
  <2>2. \A i \in DOMAIN stream' : stream'[i].lifecycle = obj.lifecycle
    BY <2>1
  <2> QED
    BY <1>0, <1>7, <2>2
       DEF Reconnect, HandoverInv, Posted, DeadIsEmpty, Started, NoReentry
<1>8. CASE Crash
  <2>1. \A t \in Threads : pc'[t] = IF Active(t) THEN "killed" ELSE pc[t]
    BY <1>8 DEF Crash
  <2>2. UNCHANGED <<obj, submitted, cmd, notice>> /\ stream' = <<>>
    BY <1>8 DEF Crash
  <2>3. Posted' /\ DeadIsEmpty'
    BY <2>2 DEF HandoverInv, Posted, DeadIsEmpty
  <2>4. Started' /\ NoReentry'
    BY <2>1, <2>2 DEF HandoverInv, Started, NoReentry, Active, Accepted
  <2> QED BY <1>0, <2>3, <2>4 DEF HandoverInv
<1>9. CASE UNCHANGED vars
  BY <1>0, <1>9 DEF vars, HandoverInv, Posted, DeadIsEmpty, Started, NoReentry
<1>10. CASE Push
  <2>1. /\ obj'.exists /\ obj'.lifecycle = None
        /\ UNCHANGED <<cmd, submitted, pc, notice>>
        /\ stream' \in {stream, Append(stream, [type |-> "MODIFIED",
                                                lifecycle |-> None])}
    BY <1>0, <1>10, PushEffect
  <2>2. stream \in Seq(Event)
    BY <1>0 DEF TypeOK
  <2>3. Posted'
    BY <2>1, <2>2 DEF HandoverInv, Posted
  <2>4. NoReentry'
    BY <2>1 DEF HandoverInv, NoReentry, Started, Accepted
  <2> QED BY <1>0, <2>1, <2>3, <2>4 DEF HandoverInv, DeadIsEmpty, Started
<1> QED
  BY <1>1, <1>2, <1>3, <1>4, <1>5, <1>6, <1>7, <1>8, <1>9, <1>10
     DEF Next, Waiting

LEMMA HandoverInvariant == Spec => []HandoverInv
<1>1. Init => HandoverInv
  <2> SUFFICES ASSUME Init
               PROVE  HandoverInv
    OBVIOUS
  <2>1. TypeOK
    BY TypeStart
  <2> QED BY <2>1 DEF Init, HandoverInv, Posted, DeadIsEmpty, Started,
                      NoReentry, InitVersion, Accepted
<1>2. HandoverInv /\ [Next]_vars => HandoverInv'
  BY HandoverStep
<1> QED BY <1>1, <1>2, PTL DEF Spec

\* A command that delete_lifecycle_in_kubernetes has let through is never in
\* the object again, whatever the other writers, the watch and crashes do.
THEOREM CommandNeverReenters == Spec => []NoReentry
<1>1. HandoverInv => NoReentry
  BY DEF HandoverInv
<1> QED BY <1>1, HandoverInvariant, PTL

-----------------------------------------------------------------------------
(* A command is run by one life of virtctl *)

\* A step other than Invoke leaves the runs alone.
LEMMA OnlyInvokeRuns ==
  ASSUME NEW t \in Threads, ThreadStep(t), ~Invoke(t)
  PROVE  ranIn' = ranIn
  BY DEF ThreadStep, DelGet, DelPut, EvCreate, Query, WrGet, WrPut, EvDone,
         EvError, ReportGet, ReportPut, worldVars, SetNotice, Failure

\* What is buried stays buried: only Submit brings a command into the object,
\* and it brings a new one.
LEMMA StaysBuried ==
  ASSUME HandoverInv, [Next]_vars, NEW c \in submitted, Buried(c)
  PROVE  Buried(c)'
<1> USE DEF watchVars, threadVars, worldVars
<1>0. TypeOK /\ stream \in Seq(Event) /\ c # None
  BY CmdsAssumption DEF HandoverInv, TypeOK
<1>1. ASSUME NEW t \in Threads, Deliver(t)
      PROVE  Buried(c)'
  <2>1. stream # <<>> /\ stream' = Tail(stream) /\ UNCHANGED obj
    BY <1>1 DEF Deliver
  <2>2. /\ Head(stream).lifecycle # c
        /\ \A i \in DOMAIN stream' : stream'[i].lifecycle # c
    BY <1>0, <2>1 DEF Buried
  <2>3. CASE UNCHANGED threadVars
    BY <2>1, <2>2, <2>3 DEF Buried, Active
  <2>4. CASE /\ Goto(t, "delGet")
             /\ cmd' = [cmd EXCEPT ![t] = Head(stream).lifecycle]
    BY <1>0, <2>1, <2>2, <2>4 DEF Goto, Buried, Active, TypeOK
  <2> QED BY <1>1, <2>3, <2>4 DEF Deliver
<1>2. ASSUME NEW t \in Threads, ThreadStep(t)
      PROVE  Buried(c)'
  <2>1. /\ UNCHANGED cmd
        /\ \/ UNCHANGED <<obj, stream>>
           \/ /\ obj'.lifecycle = None
              /\ stream' \in {stream, Append(stream, [type |-> "MODIFIED",
                                                      lifecycle |-> None])}
    BY <1>0, <1>2, ThreadStepEffect
  <2>2. Active(t) /\ \A u \in Threads \ {t} : pc'[u] = pc[u]
    BY <1>0, <1>2, ThreadStepControl
  <2>3. obj'.lifecycle # c /\ \A i \in DOMAIN stream' : stream'[i].lifecycle # c
    BY <1>0, <2>1 DEF Buried
  <2> QED BY <2>1, <2>2, <2>3 DEF Buried, Active
<1>3. ASSUME NEW d \in Cmds, Submit(d)
      PROVE  Buried(c)'
  <2>1. [obj EXCEPT !.lifecycle = d] \in Version
        /\ [obj EXCEPT !.lifecycle = d].lifecycle = d /\ obj \in Version
    BY <1>0 DEF TypeOK, Version
  <2>2. obj'.exists /\ obj'.lifecycle = d /\ d # c
    BY <1>3, <2>1, StoreType DEF Submit
  <2>3. stream' \in {stream, Append(stream, [type |-> "MODIFIED", lifecycle |-> d])}
    BY <1>3, <2>2 DEF Submit, Announce
  <2>4. \A i \in DOMAIN stream' : stream'[i].lifecycle # c
    BY <1>0, <2>2, <2>3 DEF Buried
  <2> QED BY <1>3, <2>2, <2>4 DEF Submit, Buried, Active
<1>4. CASE Remove
  <2>1. obj'.lifecycle = None
    BY <1>0, <1>4, DeleteType DEF Remove, TypeOK
  <2>2. stream' \in {stream, Append(stream, [type |-> "MODIFIED", lifecycle |-> None]),
                     Append(stream, [type |-> "DELETED", lifecycle |-> obj.lifecycle])}
    BY <1>4, <2>1 DEF Remove, Announce
  <2>3. \A i \in DOMAIN stream' : stream'[i].lifecycle # c
    BY <1>0, <2>2 DEF Buried
  <2> QED BY <1>0, <1>4, <2>1, <2>3 DEF Remove, Buried, Active
<1>5. CASE VmChange \/ UNCHANGED vars
  BY <1>5 DEF VmChange, vars, Buried, Active
<1>6. CASE Disconnect
  BY <1>6 DEF Disconnect, Buried, Active
<1>7. CASE Reconnect
  <2>1. stream' \in {<<>>, <<[type |-> "ADDED", lifecycle |-> obj.lifecycle]>>}
    BY <1>7 DEF Reconnect
  <2>2. \A i \in DOMAIN stream' : stream'[i].lifecycle = obj.lifecycle
    BY <2>1
  <2> QED BY <1>7, <2>2 DEF Reconnect, Buried, Active
<1>8. CASE Crash
  BY <1>8 DEF Crash, Buried, Active
<1>9. CASE Push
  <2>1. /\ obj'.lifecycle = None /\ UNCHANGED <<cmd, pc>>
        /\ stream' \in {stream, Append(stream, [type |-> "MODIFIED",
                                                lifecycle |-> None])}
    BY <1>0, <1>9, PushEffect
  <2>2. \A i \in DOMAIN stream' : stream'[i].lifecycle # c
    BY <1>0, <2>1 DEF Buried
  <2> QED BY <1>0, <2>1, <2>2 DEF Buried, Active
<1> QED
  BY <1>1, <1>2, <1>3, <1>4, <1>5, <1>6, <1>7, <1>8, <1>9 DEF Next, Waiting

\* A command that has left the object stays out of it.
LEMMA StaysOut ==
  ASSUME HandoverInv, [Next]_vars, NEW c \in submitted, obj.lifecycle # c
  PROVE  c \in submitted' /\ obj'.lifecycle # c
<1> USE DEF watchVars, worldVars
<1>0. TypeOK /\ c # None
  BY CmdsAssumption DEF HandoverInv, TypeOK
<1>1. CASE \E t \in Threads : ThreadStep(t)
  BY <1>0, <1>1, ThreadStepEffect
<1>2. ASSUME NEW d \in Cmds, Submit(d)
      PROVE  c \in submitted' /\ obj'.lifecycle # c
  <2>1. [obj EXCEPT !.lifecycle = d] \in Version
        /\ [obj EXCEPT !.lifecycle = d].lifecycle = d /\ obj \in Version
    BY <1>0 DEF TypeOK, Version
  <2> QED BY <1>2, <2>1, StoreType DEF Submit
<1>3. CASE Remove
  BY <1>0, <1>3, DeleteType DEF Remove, TypeOK
<1>4. CASE UNCHANGED <<obj, submitted>>
  BY <1>4
<1>5. CASE Push
  BY <1>0, <1>5, PushEffect
<1> QED
  BY <1>1, <1>2, <1>3, <1>4, <1>5
     DEF Next, Deliver, VmChange, Disconnect, Reconnect, Crash, Waiting, vars

\* Every step preserves what is known of the runs.
LEMMA RunStep ==
  ASSUME HandoverInv, RunInv, [Next]_vars
  PROVE  RunInv'
<1> USE DEF watchVars, threadVars, worldVars
<1>0. TypeOK
  BY DEF HandoverInv
<1>1. ASSUME ranIn' = ranIn, life' = life
      PROVE  RunInv'
  <2> SUFFICES ASSUME NEW c \in Cmds, NEW l \in ranIn[c]
               PROVE  /\ c \in submitted'
                      /\ obj'.lifecycle # c
                      /\ l <= life
                      /\ l < life => Buried(c)'
                      /\ \A m \in ranIn[c] : l = m
    BY <1>1 DEF RunInv
  <2>1. /\ c \in submitted /\ obj.lifecycle # c /\ l <= life
        /\ l < life => Buried(c)
        /\ \A m \in ranIn[c] : l = m
    BY DEF RunInv
  <2> QED BY <2>1, StaysOut, StaysBuried
<1>2. ASSUME NEW t \in Threads, Invoke(t)
      PROVE  RunInv'
  <2>1. /\ pc[t] = "invoke"
        /\ ranIn' = [ranIn EXCEPT ![cmd[t]] = @ \cup {life}]
        /\ UNCHANGED <<life, obj, submitted, cmd, stream>>
    BY <1>2 DEF Invoke
  <2>2. cmd[t] \in submitted /\ obj.lifecycle # cmd[t] /\ cmd[t] \in Cmds
    BY <1>0, <2>1
       DEF HandoverInv, Started, Posted, NoReentry, Accepted, TypeOK
  <2>3. \A l \in ranIn[cmd[t]] : l = life
    <3> SUFFICES ASSUME NEW l \in ranIn[cmd[t]]
                 PROVE  l = life
      OBVIOUS
    <3>1. ~Buried(cmd[t])
      BY <2>1 DEF Buried, Active
    <3>2. l <= life /\ ~(l < life)
      BY <2>2, <3>1 DEF RunInv
    <3>3. l \in Nat /\ life \in Nat
      BY <1>0, <2>2 DEF TypeOK
    <3> QED BY <3>2, <3>3
  <2> SUFFICES ASSUME NEW c \in Cmds, NEW l \in ranIn'[c]
               PROVE  /\ c \in submitted
                      /\ obj.lifecycle # c
                      /\ l <= life
                      /\ l < life => Buried(c)'
                      /\ \A m \in ranIn'[c] : l = m
    BY <2>1 DEF RunInv
  <2>4. CASE c = cmd[t]
    <3>1. ranIn'[c] = ranIn[c] \cup {life}
      BY <1>0, <2>1, <2>4 DEF TypeOK
    <3>2. l = life /\ \A m \in ranIn'[c] : m = life
      BY <2>3, <2>4, <3>1
    <3>3. life \in Nat
      BY <1>0 DEF TypeOK
    <3>4. l <= life /\ ~(l < life)
      BY <3>2, <3>3
    <3>5. \A m \in ranIn'[c] : l = m
      BY <3>2
    <3> QED BY <2>2, <2>4, <3>4, <3>5
  <2>5. CASE c # cmd[t]
    <3>1. ranIn'[c] = ranIn[c]
      BY <1>0, <2>1, <2>5 DEF TypeOK
    <3>2. /\ c \in submitted /\ obj.lifecycle # c /\ l <= life
          /\ l < life => Buried(c)
          /\ \A m \in ranIn[c] : l = m
      BY <3>1 DEF RunInv
    <3> QED BY <3>1, <3>2, StaysBuried
  <2> QED BY <2>4, <2>5
<1>3. CASE Crash
  <2>1. /\ life' = life + 1 /\ stream' = <<>>
        /\ UNCHANGED <<obj, submitted, ranIn, cmd>>
        /\ \A t \in Threads : pc'[t] = IF Active(t) THEN "killed" ELSE pc[t]
    BY <1>3 DEF Crash
  <2> SUFFICES ASSUME NEW c \in Cmds, NEW l \in ranIn[c]
               PROVE  /\ c \in submitted
                      /\ obj.lifecycle # c
                      /\ l <= life + 1
                      /\ Buried(c)'
                      /\ \A m \in ranIn[c] : l = m
    BY <2>1 DEF RunInv
  <2>2. /\ c \in submitted /\ obj.lifecycle # c /\ l <= life
        /\ \A m \in ranIn[c] : l = m
    BY DEF RunInv
  <2>3. Buried(c)'
    BY <2>1, <2>2 DEF Buried, Active
  <2>4. l <= life + 1
    BY <1>0, <2>2 DEF TypeOK
  <2> QED BY <2>2, <2>3, <2>4
<1>4. CASE ranIn' = ranIn /\ life' = life
  BY <1>1, <1>4
<1>5. ASSUME NEW t \in Threads, ThreadStep(t), ~Invoke(t)
      PROVE  RunInv'
  BY <1>0, <1>1, <1>5, OnlyInvokeRuns, ThreadStepEffect
<1> QED
  BY <1>2, <1>3, <1>4, <1>5
     DEF Next, Deliver, Submit, Remove, VmChange, Push, Disconnect, Reconnect,
         Waiting, vars

\* No command is run by two lives of virtctl: what a new watch replays after a
\* crash is never a command that was run before it.
THEOREM CommandRunsInOneLife == Spec => []RunInOneLife
<1>1. Init => RunInv
  BY DEF Init, RunInv
<1>2. HandoverInv /\ RunInv /\ [Next]_vars => RunInv'
  BY RunStep
<1>3. RunInv => RunInOneLife
  <2> SUFFICES ASSUME RunInv, NEW c \in Cmds
               PROVE  Cardinality(ranIn[c]) <= 1
    BY DEF RunInOneLife
  <2>1. CASE ranIn[c] = {}
    <3>1. Cardinality(ranIn[c]) = 0
      BY <2>1, FS_EmptySet
    <3> QED BY <3>1
  <2>2. ASSUME NEW l \in ranIn[c]
        PROVE  Cardinality(ranIn[c]) <= 1
    <3>1. ranIn[c] = {l}
      BY <2>2 DEF RunInv
    <3>2. Cardinality(ranIn[c]) = 1
      BY <3>1, FS_Singleton
    <3> QED BY <3>2
  <2> QED BY <2>1, <2>2
<1> QED BY <1>1, <1>2, <1>3, HandoverInvariant, PTL DEF Spec

-----------------------------------------------------------------------------
(* virtctl implements CommandLife *)

\* The life of virtctl that a run is recorded for is one of the bounded lives.
LifeBound == life \in 0..MaxLives

LEMMA LifeBoundStep ==
  ASSUME TypeOK, LifeBound, [Next]_vars
  PROVE  LifeBound'
<1> USE VirtctlAssumption DEF worldVars
<1>1. CASE Crash
  BY <1>1 DEF Crash, LifeBound, TypeOK
<1>2. ASSUME NEW t \in Threads, ThreadStep(t)
      PROVE  LifeBound'
  BY <1>2, ThreadStepEffect DEF LifeBound
<1>3. CASE life' = life
  BY <1>3 DEF LifeBound
<1> QED
  BY <1>1, <1>2, <1>3
     DEF Next, Deliver, Submit, Remove, VmChange, Push, Disconnect, Reconnect,
         Waiting, vars

\* A run is a step of CommandLife: its command has left the object, and every
\* run of it so far was in this life.
LEMMA InvokeRefines ==
  ASSUME HandoverInv, RunInv, LifeBound, NEW t \in Threads, Invoke(t)
  PROVE  Life!Run(cmd[t], life) /\ cmd[t] \in Cmds
<1>0. TypeOK
  BY DEF HandoverInv
<1>1. /\ pc[t] = "invoke"
      /\ ranIn' = [ranIn EXCEPT ![cmd[t]] = @ \cup {life}]
      /\ UNCHANGED <<obj, submitted>>
  BY DEF Invoke
<1>2. cmd[t] \in submitted /\ obj.lifecycle # cmd[t] /\ cmd[t] \in Cmds
  BY <1>0, <1>1 DEF HandoverInv, Started, Posted, NoReentry, Accepted, TypeOK
<1>3. ranIn[cmd[t]] \subseteq {life}
  <2> SUFFICES ASSUME NEW l \in ranIn[cmd[t]]
               PROVE  l = life
    OBVIOUS
  <2>1. ~Buried(cmd[t])
    BY <1>1 DEF Buried, Active
  <2>2. l <= life /\ ~(l < life)
    BY <1>2, <2>1 DEF RunInv
  <2>3. l \in Nat /\ life \in Nat
    BY <1>0, <1>2 DEF TypeOK
  <2> QED BY <2>2, <2>3
<1> QED BY <1>1, <1>2, <1>3 DEF Life!Run

\* Every step of virtctl and its environment is a step of CommandLife or leaves
\* its variables alone.
LEMMA CommandLifeStep ==
  ASSUME HandoverInv, RunInv, LifeBound, [Next]_vars
  PROVE  [Life!Next]_(Life!vars)
<1> USE DEF worldVars
<1>0. TypeOK
  BY DEF HandoverInv
<1>1. ASSUME obj'.lifecycle \in {obj.lifecycle, None}, UNCHANGED <<submitted, ranIn>>
      PROVE  [Life!Next]_(Life!vars)
  <2>1. CASE obj'.lifecycle = None
    BY <1>1, <2>1 DEF Life!Next, Life!Withdraw
  <2>2. CASE obj'.lifecycle = obj.lifecycle
    BY <1>1, <2>2 DEF Life!vars
  <2> QED BY <1>1, <2>1, <2>2
<1>2. ASSUME NEW t \in Threads, Invoke(t)
      PROVE  Life!Next
  BY <1>2, InvokeRefines DEF Life!Next, LifeBound
<1>3. ASSUME NEW t \in Threads, ThreadStep(t), ~Invoke(t)
      PROVE  [Life!Next]_(Life!vars)
  BY <1>0, <1>1, <1>3, ThreadStepEffect, OnlyInvokeRuns
<1>4. ASSUME NEW c \in Cmds, Submit(c)
      PROVE  Life!Next
  <2>1. [obj EXCEPT !.lifecycle = c] \in Version
        /\ [obj EXCEPT !.lifecycle = c].lifecycle = c /\ obj \in Version
    BY <1>0 DEF TypeOK, Version
  <2>2. obj'.lifecycle = c
    BY <1>4, <2>1, StoreType DEF Submit
  <2>3. Life!Post(c)
    BY <1>4, <2>2 DEF Submit, Life!Post
  <2> QED BY <2>3 DEF Life!Next
<1>5. CASE Remove
  <2>1. obj'.lifecycle = None
    BY <1>0, <1>5, DeleteType DEF Remove, TypeOK
  <2> QED BY <1>1, <1>5, <2>1 DEF Remove
<1>6. CASE Push
  BY <1>0, <1>1, <1>6, PushEffect
<1>7. CASE UNCHANGED <<obj, submitted, ranIn>>
  BY <1>1, <1>7
<1> QED
  BY <1>2, <1>3, <1>4, <1>5, <1>6, <1>7
     DEF Next, Deliver, VmChange, Disconnect, Reconnect, Crash, Waiting, vars

\* The refinement: threads, watch, crashes and libvirtwatcher together do to a
\* posted command only what CommandLife allows.
THEOREM VirtctlImplementsCommandLife == Spec => ImplementsCommandLife
<1>1. Init => Life!Init /\ RunInv /\ LifeBound
  BY VirtctlAssumption
     DEF Init, InitVersion, Life!Init, RunInv, LifeBound
<1>2. HandoverInv /\ RunInv /\ LifeBound /\ [Next]_vars => RunInv' /\ LifeBound'
  BY RunStep, LifeBoundStep DEF HandoverInv
<1>3. HandoverInv /\ RunInv /\ LifeBound /\ [Next]_vars => [Life!Next]_(Life!vars)
  BY CommandLifeStep
<1> QED
  BY <1>1, <1>2, <1>3, HandoverInvariant, PTL
     DEF Spec, ImplementsCommandLife, Life!Spec

-----------------------------------------------------------------------------
(* Announced commands are closed *)

\* Every step preserves ClosedInv.
LEMMA ClosedStep ==
  ASSUME HandoverInv, ClosedInv, [Next]_vars
  PROVE  ClosedInv'
<1> USE DEF watchVars, threadVars, worldVars
<1>0. TypeOK /\ TypeOK' /\ MaxFaults \in Nat /\ EventTries \in Nat
  BY TypeStep, VirtctlAssumption DEF HandoverInv
<1> DEFINE Outer == {"idle", "delGet", "delPut", "outerGet", "outerPut"}
           Fine(t) == /\ tries[t] <= faults
                      /\ pc[t] \in Outer => notice[t] = "none"
                      /\ MaxFaults < EventTries =>
                           (pc[t] = "done" => notice[t] # "Doing")
<1>1. ClosedInv <=> faults <= MaxFaults /\ \A t \in Threads : Fine(t)
  BY DEF ClosedInv, AnnouncedIsClosed
<1>2. ClosedInv' <=> faults' <= MaxFaults /\ \A t \in Threads : Fine(t)'
  BY DEF ClosedInv, AnnouncedIsClosed
<1>3. ASSUME NEW t \in Threads, ThreadStep(t)
      PROVE  ClosedInv'
  <2>1. \A u \in Threads \ {t} : /\ pc'[u] = pc[u]
                                 /\ tries'[u] = tries[u]
                                 /\ notice'[u] = notice[u]
    BY <1>0, <1>3, ThreadStepControl
  <2> DEFINE Fails == /\ faults < MaxFaults /\ faults' = faults + 1
                      /\ tries'[t] \in {0, tries[t] + 1}
  <2>t. /\ tries[t] \in Nat /\ faults \in Nat /\ tries[t] <= faults
        /\ faults <= MaxFaults
    BY <1>0, <1>1 DEF TypeOK
  <2>g. ASSUME NEW label, Goto(t, label)
        PROVE  tries'[t] = 0 /\ pc'[t] = label
    BY <1>0, <2>g DEF Goto, TypeOK
  <2>f. ASSUME NEW limit, NEW label, FailedTry(t, limit, label)
        PROVE  /\ Fails /\ pc'[t] \in {pc[t], label}
               /\ MaxFaults < EventTries /\ limit = EventTries =>
                    pc'[t] = pc[t]
    <3>1. CASE tries[t] + 1 < limit
      BY <1>0, <2>f, <3>1 DEF FailedTry, TypeOK
    <3>2. CASE ~(tries[t] + 1 < limit)
      <4>1. Goto(t, label) /\ faults < MaxFaults /\ faults' = faults + 1
        BY <2>f, <3>2 DEF FailedTry
      <4>2. ~(MaxFaults < EventTries /\ limit = EventTries)
        BY <1>0, <2>t, <3>2, <4>1
      <4> QED BY <2>g, <4>1, <4>2
    <3> QED BY <3>1, <3>2
  <2>2. /\ faults <= faults' /\ faults' <= MaxFaults
        /\ tries'[t] <= faults'
    <3>1. Fails \/ (faults' = faults /\ tries'[t] = 0)
      <4> HIDE DEF Fails
      <4> QED BY <1>3, <2>g, <2>f
                 DEF ThreadStep, DelGet, DelPut, EvCreate, Invoke, Query, WrGet,
                     WrPut, EvDone, EvError, ReportGet, ReportPut, FailedCall, SetNotice, Failure
    <3> QED BY <1>0, <2>t, <3>1
  <2>3. pc'[t] \in Outer => notice'[t] = "none"
    <3>1. CASE pc[t] \in Outer
      <4>1. notice'[t] = notice[t]
        BY <1>3, <3>1
           DEF ThreadStep, DelGet, DelPut, EvCreate, Invoke, Query, WrGet,
               WrPut, EvDone, EvError, ReportGet, ReportPut, SetNotice, Failure
      <4> QED BY <1>1, <3>1, <4>1
    <3>2. CASE pc[t] \notin Outer
      <4>1. pc'[t] \notin Outer
        <5> HIDE DEF Fails
        <5> QED BY <1>3, <2>g, <2>f, <3>2
                   DEF ThreadStep, DelGet, DelPut, EvCreate, Invoke, Query,
                       WrGet, WrPut, EvDone, EvError, ReportGet, ReportPut,
                       FailedCall, AfterReport, SetNotice, Failure
      <4> QED BY <4>1
    <3> QED BY <3>1, <3>2
  <2>4. MaxFaults < EventTries => (pc'[t] = "done" => notice'[t] # "Doing")
    <3> SUFFICES ASSUME MaxFaults < EventTries, pc'[t] = "done"
                 PROVE  notice'[t] # "Doing"
      OBVIOUS
    <3> HIDE DEF Fails
    <3>1. CASE EvDone(t)
      BY <1>0, <2>f, <3>1 DEF EvDone, Goto, TypeOK, SetNotice
    <3>2. CASE EvError(t)
      BY <1>0, <2>f, <3>2 DEF EvError, Goto, TypeOK, SetNotice
    <3>3. CASE ReportGet(t)
      <4>1. pc[t] = "outerGet" /\ notice' = notice
        BY <2>g, <2>f, <3>3 DEF ReportGet, AfterReport
      <4> QED BY <1>1, <4>1
    <3>4. CASE ReportPut(t)
      <4>1. pc[t] = "outerPut" /\ notice' = notice
        BY <2>g, <2>f, <3>4 DEF ReportPut, AfterReport, Failure
      <4> QED BY <1>1, <4>1
    <3>5. CASE EvCreate(t)
      BY <2>g, <2>f, <3>5 DEF EvCreate, SetNotice
    <3> QED
      BY <1>3, <2>g, <2>f, <3>1, <3>2, <3>3, <3>4, <3>5
         DEF ThreadStep, DelGet, DelPut, Invoke, Query, WrGet, WrPut, FailedCall
  <2>5. \A u \in Threads : Fine(u)'
    <3> SUFFICES ASSUME NEW u \in Threads
                 PROVE  Fine(u)'
      OBVIOUS
    <3>1. CASE u = t
      BY <2>2, <2>3, <2>4, <3>1
    <3>2. CASE u # t
      <4>1. tries'[u] <= faults'
        <5>1. tries[u] \in Nat /\ faults \in Nat /\ faults' \in Nat
          BY <1>0 DEF TypeOK
        <5> QED BY <1>1, <2>1, <2>2, <3>2, <5>1
      <4> QED BY <1>1, <2>1, <3>2, <4>1
    <3> QED BY <3>1, <3>2
  <2> QED BY <1>2, <2>2, <2>5
<1>4. ASSUME NEW t \in Threads, Deliver(t)
      PROVE  ClosedInv'
  <2>1. CASE UNCHANGED threadVars
    BY <1>1, <1>2, <1>4, <2>1 DEF Deliver
  <2>2. CASE Goto(t, "delGet") /\ UNCHANGED notice
    <3>1. /\ pc' = [pc EXCEPT ![t] = "delGet"]
          /\ tries' = [tries EXCEPT ![t] = 0]
          /\ notice[t] = "none"
      BY <1>4, <2>2 DEF Goto, Deliver, HandoverInv, Started
    <3> QED BY <1>0, <1>1, <1>2, <1>4, <2>2, <3>1 DEF Deliver, TypeOK
  <2> QED BY <1>4, <2>1, <2>2 DEF Deliver
<1>5. CASE Crash
  <2>1. /\ UNCHANGED <<faults, tries, notice>>
        /\ \A t \in Threads : pc'[t] \in {"killed", pc[t]}
    BY <1>5 DEF Crash
  <2> QED BY <1>1, <1>2, <2>1
<1>6. CASE UNCHANGED <<pc, tries, notice, faults>>
  BY <1>1, <1>2, <1>6
<1> QED
  BY <1>3, <1>4, <1>5, <1>6
     DEF Next, Submit, Remove, VmChange, Push, Disconnect, Reconnect, Waiting, vars

\* A thread that announced its command closes the announcement, when requests
\* fail less often than create_event and update_evet try.
THEOREM AnnouncementsAreClosed == Spec => []AnnouncedIsClosed
<1>1. Init => ClosedInv
  BY VirtctlAssumption DEF Init, ClosedInv, AnnouncedIsClosed
<1>2. HandoverInv /\ ClosedInv /\ [Next]_vars => ClosedInv'
  BY ClosedStep
<1>3. ClosedInv => AnnouncedIsClosed
  BY DEF ClosedInv
<1> QED BY <1>1, <1>2, <1>3, HandoverInvariant, PTL DEF Spec

-----------------------------------------------------------------------------
(* A command is handed out once *)

\* An event without command changes nothing about where commands are.
LEMMA PlacedByEmptyEvent ==
  ASSUME OncePlaced, stream \in Seq(Event),
         NEW event \in Event, ~Hands(event),
         stream' \in {stream, Append(stream, event)},
         UNCHANGED <<cmd, connected, closes, life>>
  PROVE  OncePlaced'
<1> SUFFICES ASSUME closes = 0, life = 0
             PROVE  /\ connected
                    /\ \A i, j \in DOMAIN stream' :
                         Hands(stream'[i]) /\ Hands(stream'[j])
                           /\ stream'[i].lifecycle = stream'[j].lifecycle => i = j
                    /\ \A i \in DOMAIN stream', t \in Threads :
                         Hands(stream'[i]) => cmd[t] # stream'[i].lifecycle
                    /\ HandedOutOnce
  BY DEF OncePlaced, HandedOutOnce, Hands
<1>1. \A i \in DOMAIN stream' :
        Hands(stream'[i]) => i \in DOMAIN stream /\ stream'[i] = stream[i]
  OBVIOUS
<1> QED BY <1>1 DEF OncePlaced

\* Every step preserves OncePlaced.
LEMMA OncePlacedStep ==
  ASSUME HandoverInv, OncePlaced, [Next]_vars
  PROVE  OncePlaced'
<1> USE DEF watchVars, threadVars, worldVars
<1>0. TypeOK /\ stream \in Seq(Event) /\ closes \in Nat /\ life \in Nat
  BY DEF HandoverInv, TypeOK
<1>1. ASSUME NEW t \in Threads, Deliver(t)
      PROVE  OncePlaced'
  <2> SUFFICES ASSUME closes = 0, life = 0
               PROVE  /\ connected'
                      /\ \A i, j \in DOMAIN stream' :
                           Hands(stream'[i]) /\ Hands(stream'[j])
                             /\ stream'[i].lifecycle = stream'[j].lifecycle
                             => i = j
                      /\ \A i \in DOMAIN stream', u \in Threads :
                           Hands(stream'[i]) => cmd'[u] # stream'[i].lifecycle
                      /\ \A u, v \in Threads :
                           cmd'[u] = cmd'[v] /\ cmd'[u] # None => u = v
    BY <1>1 DEF Deliver, OncePlaced, HandedOutOnce, Hands
  <2>0. /\ connected
        /\ \A i, j \in DOMAIN stream :
             Hands(stream[i]) /\ Hands(stream[j])
               /\ stream[i].lifecycle = stream[j].lifecycle => i = j
        /\ \A i \in DOMAIN stream, u \in Threads :
             Hands(stream[i]) => cmd[u] # stream[i].lifecycle
        /\ \A u, v \in Threads : cmd[u] = cmd[v] /\ cmd[u] # None => u = v
    BY DEF OncePlaced, HandedOutOnce
  <2>1. stream # <<>> /\ stream' = Tail(stream) /\ connected' = connected
    BY <1>1 DEF Deliver
  <2>2. /\ 1 \in DOMAIN stream /\ Head(stream) = stream[1]
        /\ \A i \in DOMAIN stream' : /\ i \in Nat /\ i + 1 \in DOMAIN stream
                                     /\ i + 1 # 1
                                     /\ stream'[i] = stream[i + 1]
    BY <1>0, <2>1
  <2>3. \A i, j \in DOMAIN stream' :
          Hands(stream'[i]) /\ Hands(stream'[j])
            /\ stream'[i].lifecycle = stream'[j].lifecycle => i = j
    <3> SUFFICES ASSUME NEW i \in DOMAIN stream', NEW j \in DOMAIN stream',
                        Hands(stream'[i]), Hands(stream'[j]),
                        stream'[i].lifecycle = stream'[j].lifecycle
                 PROVE  i = j
      OBVIOUS
    <3>1. i + 1 = j + 1
      BY <2>0, <2>2
    <3> QED BY <2>2, <3>1
  <2>4. CASE UNCHANGED cmd
    BY <2>0, <2>1, <2>2, <2>3, <2>4
  <2>5. CASE /\ HasCommand(Head(stream))
             /\ cmd' = [cmd EXCEPT ![t] = Head(stream).lifecycle]
    <3> DEFINE c == stream[1].lifecycle
    <3>1. Hands(stream[1])
      BY <2>2, <2>5 DEF HasCommand, Hands
    <3>2. \A u \in Threads : cmd'[u] = IF u = t THEN c ELSE cmd[u]
      BY <1>0, <2>2, <2>5 DEF TypeOK
    <3>3. \A u \in Threads : cmd[u] # c
      BY <2>0, <2>2, <3>1
    <3>4. \A i \in DOMAIN stream' : Hands(stream'[i]) => stream'[i].lifecycle # c
      BY <2>0, <2>2, <3>1
    <3> HIDE DEF c
    <3> QED BY <2>0, <2>1, <2>2, <2>3, <3>2, <3>3, <3>4
  <2> QED BY <1>1, <2>4, <2>5 DEF Deliver
<1>2. ASSUME NEW t \in Threads, ThreadStep(t)
      PROVE  OncePlaced'
  <2>1. /\ UNCHANGED <<cmd, connected, closes, life>>
        /\ stream' \in {stream, Append(stream, [type |-> "MODIFIED",
                                                lifecycle |-> None])}
    BY <1>0, <1>2, ThreadStepEffect
  <2>2. [type |-> "MODIFIED", lifecycle |-> None] \in Event
        /\ ~Hands([type |-> "MODIFIED", lifecycle |-> None])
    BY DEF Event, Hands
  <2> QED BY <1>0, <2>1, <2>2, PlacedByEmptyEvent
<1>3. ASSUME NEW c \in Cmds, Submit(c)
      PROVE  OncePlaced'
  <2> SUFFICES ASSUME closes = 0, life = 0
               PROVE  /\ connected'
                      /\ \A i, j \in DOMAIN stream' :
                           Hands(stream'[i]) /\ Hands(stream'[j])
                             /\ stream'[i].lifecycle = stream'[j].lifecycle
                             => i = j
                      /\ \A i \in DOMAIN stream', u \in Threads :
                           Hands(stream'[i]) => cmd'[u] # stream'[i].lifecycle
                      /\ \A u, v \in Threads :
                           cmd'[u] = cmd'[v] /\ cmd'[u] # None => u = v
    BY <1>3 DEF Submit, OncePlaced, HandedOutOnce, Hands
  <2>0. /\ connected
        /\ \A i, j \in DOMAIN stream :
             Hands(stream[i]) /\ Hands(stream[j])
               /\ stream[i].lifecycle = stream[j].lifecycle => i = j
        /\ \A i \in DOMAIN stream, u \in Threads :
             Hands(stream[i]) => cmd[u] # stream[i].lifecycle
        /\ \A u, v \in Threads : cmd[u] = cmd[v] /\ cmd[u] # None => u = v
    BY DEF OncePlaced, HandedOutOnce
  <2>1. [obj EXCEPT !.lifecycle = c] \in Version
        /\ [obj EXCEPT !.lifecycle = c].lifecycle = c /\ obj \in Version
    BY <1>0 DEF TypeOK, Version
  <2>2. obj'.exists /\ obj'.lifecycle = c
    BY <1>3, <2>1, StoreType DEF Submit
  <2> DEFINE event == [type |-> "MODIFIED", lifecycle |-> c]
  <2>3. stream' \in {stream, Append(stream, event)} /\ connected' = connected
    BY <1>3, <2>2 DEF Submit, Announce
  <2>4. cmd' = cmd /\ c \notin submitted
    BY <1>3 DEF Submit
  <2>5. /\ \A u \in Threads : cmd[u] # c
        /\ \A i \in DOMAIN stream : stream[i].lifecycle # c
    BY <2>4, CmdsAssumption DEF HandoverInv, Posted
  <2>6. \A i \in DOMAIN stream' :
          \/ i \in DOMAIN stream /\ stream'[i] = stream[i]
          \/ i = Len(stream) + 1 /\ stream'[i].lifecycle = c
    BY <1>0, <2>3
  <2> QED BY <2>0, <2>3, <2>4, <2>5, <2>6
<1>4. CASE Remove
  <2>1. obj'.lifecycle = None /\ ~obj'.exists
    BY <1>0, <1>4, DeleteType DEF Remove, TypeOK
  <2> DEFINE event == [type |-> "DELETED", lifecycle |-> obj.lifecycle]
  <2>2. stream' \in {stream, Append(stream, event)}
    BY <1>4, <2>1 DEF Remove, Announce
  <2>3. event \in Event /\ ~Hands(event)
    BY <1>0 DEF Event, Hands, TypeOK, Version
  <2>4. UNCHANGED <<cmd, connected, closes, life>>
    BY <1>4 DEF Remove, Announce
  <2> QED BY <1>0, <2>2, <2>3, <2>4, PlacedByEmptyEvent
<1>5. CASE VmChange
  BY <1>5 DEF VmChange, OncePlaced, HandedOutOnce, Hands
<1>6. CASE Disconnect
  BY <1>0, <1>6 DEF Disconnect, OncePlaced
<1>7. CASE Reconnect
  BY <1>7 DEF Reconnect, OncePlaced
<1>8. CASE Crash
  BY <1>0, <1>8 DEF Crash, OncePlaced
<1>9. CASE UNCHANGED vars
  BY <1>9 DEF vars, OncePlaced, HandedOutOnce, Hands
<1>10. CASE Push
  <2>1. /\ UNCHANGED <<cmd, connected, closes, life>>
        /\ stream' \in {stream, Append(stream, [type |-> "MODIFIED",
                                                lifecycle |-> None])}
    BY <1>0, <1>10, PushEffect
  <2>2. [type |-> "MODIFIED", lifecycle |-> None] \in Event
        /\ ~Hands([type |-> "MODIFIED", lifecycle |-> None])
    BY DEF Event, Hands
  <2> QED BY <1>0, <2>1, <2>2, PlacedByEmptyEvent
<1> QED
  BY <1>1, <1>2, <1>3, <1>4, <1>5, <1>6, <1>7, <1>8, <1>9, <1>10
     DEF Next, Waiting

\* While virtctl lives and its watch stays open, no two threads get the same
\* command.
THEOREM CommandHandedOutOnce == Spec => []HandedOutOnce
<1>1. Init => OncePlaced
  BY DEF Init, OncePlaced, HandedOutOnce
<1>2. HandoverInv /\ OncePlaced /\ [Next]_vars => OncePlaced'
  BY OncePlacedStep
<1>3. OncePlaced => HandedOutOnce
  BY DEF OncePlaced, HandedOutOnce
<1> QED BY <1>1, <1>2, <1>3, HandoverInvariant, PTL DEF Spec
=============================================================================
