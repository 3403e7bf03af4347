------------------------ MODULE EventLoopPoll_proofs ------------------------
(***************************************************************************)
(* Theorems about EventLoopPoll, for every value of its constants.         *)
(***************************************************************************)
EXTENDS EventLoopPoll, TLAPS

\* The flags of the self pipe: a set pendingWakeup stands for a byte the loop
\* has not consumed, or for one that is on its way.
WakeupInv ==
  /\ runningPoll <=> loop # "start"
  /\ loop \in {"reset", "read"} => pipe > 0
  /\ pendingWakeup =>
       \/ pipe > (IF loop = "read" THEN 1 ELSE 0)
       \/ \E w \in Workers : pc[w] = "write"

\* The timeout of poll() fits the timers, unless they changed.
TimeoutFits ==
  "timer" \in changed \/ EnabledTimers = {} \/ BlankTimers # {} \/ timed

\* What the loop does not know on its way to poll() and in it.
NewsInv ==
  /\ changed # {} => loop \in {"poll", "sleep"} /\ Informed
  /\ loop \in {"poll", "sleep"} => TimeoutFits

\* The handles that were put up for the clean-up or freed.
Gone == {o \in Nat : [kind |-> "handle", opaque |-> o] \in cleanup \cup freed}

\* The threads that are going to register a handle.
Registering == {w \in Workers : \/ pc[w] = "register"
                                \/ pc[w] \in {"bump", "append"} /\ op[w].kind = "handle"}

\* A handle is registered, or about to be registered by one thread, or gone.
AliveInv ==
  /\ registered \cap Gone = {}
  /\ \A w \in Registering :
       /\ op[w].target \notin registered \cup Gone
       /\ \A u \in Registering : op[u].target = op[w].target => u = w
  /\ \A o \in registered \cup Gone : o <= ops
  /\ \A w \in Registering : op[w].target <= ops

\* What poll() watches was alive when it was called, and nothing is freed until
\* the next iteration.
PolledInv ==
  /\ loop \in {"sleep", "reset", "read", "handles", "timers", "call"} =>
       \A o \in polled : [kind |-> "handle", opaque |-> o] \notin freed
  /\ loop \in {"reset", "read", "handles", "timers", "call"} => events \subseteq polled
  /\ loop = "call" /\ current.kind = "handle" => current.opaque \in polled

-----------------------------------------------------------------------------
(* Types *)

LEMMA TypeStart == Init => TypeOK
<1> SUFFICES ASSUME Init
             PROVE  TypeOK
  OBVIOUS
<1>1. runningPoll \in BOOLEAN /\ pendingWakeup \in BOOLEAN /\ walks \in BOOLEAN
  BY Zenon DEF Init
<1>2. NoOp \in Op /\ NoCall \in Ref
  BY DEF NoOp, Op, NoCall, Ref, Kinds
<1> QED BY <1>1, <1>2 DEF Init, TypeOK, Labels, LoopLabels, Kinds

\* The end of an operation leaves the variables of the threads of their types.
LEMMA ReturnType ==
  ASSUME TypeOK, NEW w \in Workers, Return(w)
  PROVE  /\ pc' \in [Workers -> Labels]
         /\ op' \in [Workers -> Op]
         /\ copy' \in [Workers -> SUBSET Item]
         /\ owned' \in [Kinds -> SUBSET Item]
         /\ ops' \in Nat
<1> DEFINE item == [id |-> op[w].id, opaque |-> op[w].opaque]
<1>1. op[w] \in Op /\ op[w].kind \in Kinds /\ op[w].opaque \in Nat /\ item \in Item
  BY DEF TypeOK, Op, Item
<1>2. pc' \in [Workers -> Labels]
  BY DEF Return, Goto, TypeOK, Labels
<1>3. NoOp \in Op
  BY DEF NoOp, Op, Kinds
<1>4. op' \in [Workers -> Op]
  BY <1>3 DEF Return, TypeOK
<1>5. copy' \in [Workers -> SUBSET Item]
  BY DEF Return, TypeOK
<1>6. ops' \in Nat
  BY DEF Return, TypeOK
<1>7. owned' \in {owned, [owned EXCEPT ![op[w].kind] = @ \cup {item}]}
  BY DEF Return
<1> HIDE DEF item
<1>9. owned' \in [Kinds -> SUBSET Item]
  BY <1>1, <1>7 DEF TypeOK
<1> QED BY <1>2, <1>4, <1>5, <1>6, <1>9

\* So does its beginning.
LEMMA BeginType ==
  ASSUME TypeOK, NEW w \in Workers, NEW label \in Labels, NEW call \in Op,
         Begin(w, label, call)
  PROVE  /\ pc' \in [Workers -> Labels]
         /\ op' \in [Workers -> Op]
         /\ copy' \in [Workers -> SUBSET Item]
         /\ ops' \in Nat
  BY DEF Begin, Goto, TypeOK

LEMMA FoundType ==
  ASSUME TypeOK, NEW w \in Workers
  PROVE  /\ Found(w) \subseteq Item
         /\ op[w].kind \in Kinds
         /\ Refs(op[w].kind, Opaques(Found(w))) \subseteq Ref
<1>1. op[w].kind \in Kinds
  BY DEF TypeOK, Op
<1>2. Found(w) \subseteq Item
  BY <1>1 DEF Found, TypeOK
<1>3. Opaques(Found(w)) \subseteq Nat
  BY <1>2 DEF Opaques, Item
<1>4. Refs(op[w].kind, Opaques(Found(w))) \subseteq Ref
  BY <1>1, <1>3 DEF Refs, Ref
<1> QED BY <1>1, <1>2, <1>4

LEMMA TypeStep ==
  ASSUME TypeOK, [Next]_vars
  PROVE  TypeOK'
<1> USE DEF listVars, wakeVars, walkVars, loopVars, opVars
<1>0. \A label \in {"idle", "bump", "append", "register", "update", "remove",
                    "store", "running", "pending", "set", "write"} : label \in Labels
  BY DEF Labels, Interrupting
<1>00. /\ runningPoll \in BOOLEAN /\ pendingWakeup \in BOOLEAN /\ walks \in BOOLEAN
       /\ timed \in BOOLEAN /\ TRUE \in BOOLEAN /\ FALSE \in BOOLEAN
  BY DEF TypeOK
<1>000. ASSUME NEW k \in Kinds, Touch(k)
        PROVE  changed' \subseteq Kinds
  BY <1>000 DEF Touch, TypeOK
<1>0000. ASSUME NEW o \in Nat, SetInterval(o)
         PROVE  enabled' \subseteq Nat /\ instant' \subseteq Nat
  BY <1>0000 DEF SetInterval, TypeOK
<1>1. ASSUME NEW w \in Workers, NEW k \in Kinds, Add(w, k)
      PROVE  TypeOK'
  <2> DEFINE call == [name |-> "add", kind |-> k, id |-> next[k] + 1,
                      opaque |-> ops + 1, target |-> ops + 1]
  <2>1. call \in Op
    BY DEF Op, TypeOK
  <2>2. Begin(w, "bump", call)
    BY <1>1 DEF Add
  <2> HIDE DEF call
  <2>3. /\ pc' \in [Workers -> Labels] /\ op' \in [Workers -> Op]
        /\ copy' \in [Workers -> SUBSET Item] /\ ops' \in Nat
    BY <1>0, <2>1, <2>2, BeginType
  <2> QED BY <1>1, <1>00, <2>3 DEF Add, TypeOK
<1>2. ASSUME NEW w \in Workers, NEW k \in Kinds, NEW name \in {"update", "remove"},
             Change(w, k, name)
      PROVE  TypeOK'
  <2>1. PICK i \in owned[k] :
          /\ Begin(w, name, [name |-> name, kind |-> k, id |-> i.id,
                             opaque |-> i.opaque, target |-> i.opaque])
          /\ owned' = [owned EXCEPT ![k] = @ \ {i}]
    BY <1>2 DEF Change
  <2> DEFINE call == [name |-> name, kind |-> k, id |-> i.id,
                      opaque |-> i.opaque, target |-> i.opaque]
  <2>2. i \in Item
    BY DEF TypeOK
  <2>3. call \in Op
    BY <2>2 DEF Op, Item
  <2>4. Begin(w, name, call)
    BY <2>1
  <2> HIDE DEF call
  <2>5. /\ pc' \in [Workers -> Labels] /\ op' \in [Workers -> Op]
        /\ copy' \in [Workers -> SUBSET Item] /\ ops' \in Nat
    BY <1>0, <2>3, <2>4, BeginType
  <2>6. owned' \in [Kinds -> SUBSET Item]
    BY <2>1 DEF TypeOK
  <2> QED BY <1>2, <1>00, <2>5, <2>6 DEF Change, TypeOK
<1>3. ASSUME NEW w \in Workers, Bump(w)
      PROVE  TypeOK'
  <2>1. next' \in [Kinds -> Nat] /\ pc' \in [Workers -> Labels]
    BY <1>0, <1>3 DEF Bump, Goto, TypeOK, Op
  <2> QED BY <1>3, <1>00, <2>1 DEF Bump, TypeOK
<1>4. ASSUME NEW w \in Workers, AppendItem(w)
      PROVE  TypeOK'
  <2> DEFINE k    == op[w].kind
             item == [id |-> op[w].id, opaque |-> op[w].opaque]
  <2>1. k \in Kinds /\ item \in Item /\ item.opaque \in Nat
    BY DEF TypeOK, Op, Item
  <2>2. /\ items' = [items EXCEPT ![k] = @ \cup {item}]
        /\ SetInterval(item.opaque) \/ UNCHANGED <<enabled, instant>>
        /\ todo' \in {todo, todo \cup {item}}
        /\ Touch(k) \/ UNCHANGED changed
        /\ pc' \in {[pc EXCEPT ![w] = "running"], [pc EXCEPT ![w] = "register"]}
    BY <1>4 DEF AppendItem, Goto
  <2> HIDE DEF k, item
  <2>3. items' \in [Kinds -> SUBSET Item] /\ todo' \subseteq Item
    BY <2>1, <2>2 DEF TypeOK
  <2>5. enabled' \subseteq Nat /\ instant' \subseteq Nat /\ changed' \subseteq Kinds
    BY <1>000, <1>0000, <2>1, <2>2 DEF TypeOK
  <2>4. pc' \in [Workers -> Labels]
    BY <1>0, <2>2 DEF TypeOK
  <2> QED BY <1>4, <1>00, <2>3, <2>4, <2>5 DEF AppendItem, TypeOK
<1>5. ASSUME NEW w \in Workers, Register(w)
      PROVE  TypeOK'
  <2>1. registered' \subseteq Nat /\ pc' \in [Workers -> Labels]
    BY <1>0, <1>5 DEF Register, Goto, TypeOK, Op
  <2>2. changed' \subseteq Kinds
    BY <1>5, <1>000 DEF Register, Kinds
  <2> QED BY <1>5, <1>00, <2>1, <2>2 DEF Register, TypeOK
<1>6. ASSUME NEW w \in Workers, UpdateMissing(w)
      PROVE  TypeOK'
  BY <1>6, <1>00, ReturnType DEF UpdateMissing, TypeOK
<1>7. ASSUME NEW w \in Workers, UpdateTimer(w)
      PROVE  TypeOK'
  <2>1. PICK i \in Found(w) : SetInterval(i.opaque)
    BY <1>7 DEF UpdateTimer
  <2>2. i.opaque \in Nat
    BY FoundType DEF Item
  <2>3. /\ enabled' \subseteq Nat /\ instant' \subseteq Nat
        /\ changed' \subseteq Kinds /\ pc' \in [Workers -> Labels]
    BY <1>0, <1>7, <1>000, <1>0000, <2>1, <2>2 DEF UpdateTimer, Goto, TypeOK, Kinds
  <2> QED BY <1>7, <1>00, <2>3 DEF UpdateTimer, TypeOK
<1>8. ASSUME NEW w \in Workers, UpdateHandle(w)
      PROVE  TypeOK'
  <2>1. PICK i \in Found(w) :
          \/ /\ registered' = registered \ {i.opaque}
             /\ op' = [op EXCEPT ![w] = [@ EXCEPT !.target = i.opaque]]
             /\ Goto(w, "register")
             /\ UNCHANGED <<copy, owned, ops>>
          \/ Return(w) /\ UNCHANGED registered
    BY <1>8 DEF UpdateHandle
  <2>2. i.opaque \in Nat
    BY FoundType DEF Item
  <2>3. UNCHANGED <<items, next, enabled, instant, cleanup, wakeVars, loopVars>>
    BY <1>8 DEF UpdateHandle
  <2>4. CASE Return(w) /\ UNCHANGED registered
    BY <1>00, <2>3, <2>4, ReturnType DEF TypeOK
  <2>5. CASE /\ registered' = registered \ {i.opaque}
             /\ op' = [op EXCEPT ![w] = [@ EXCEPT !.target = i.opaque]]
             /\ Goto(w, "register")
             /\ UNCHANGED <<copy, owned, ops>>
    <3>1. op' \in [Workers -> Op]
      BY <2>2, <2>5 DEF TypeOK, Op
    <3>2. registered' \subseteq Nat /\ pc' \in [Workers -> Labels]
      BY <1>0, <2>5 DEF TypeOK, Goto
    <3> QED BY <1>00, <2>3, <2>5, <3>1, <3>2 DEF TypeOK
  <2> QED BY <2>1, <2>4, <2>5
<1>9. ASSUME NEW w \in Workers, RemoveFind(w)
      PROVE  TypeOK'
  <2>1. registered' \in {registered, registered \ Opaques(Found(w))}
    BY <1>9 DEF RemoveFind
  <2>2. registered' \subseteq Nat
    BY <2>1 DEF TypeOK
  <2>3. cleanup' \subseteq Ref
    BY <1>9, FoundType DEF RemoveFind, TypeOK
  <2>4. items[op[w].kind] \ Found(w) \in SUBSET Item
    BY FoundType DEF TypeOK
  <2>5. copy' \in [Workers -> SUBSET Item]
    BY <1>9, <2>4 DEF RemoveFind, TypeOK
  <2>6. pc' \in [Workers -> Labels]
    BY <1>0, <1>9 DEF RemoveFind, Goto, TypeOK
  <2> QED BY <1>9, <1>00, <2>2, <2>3, <2>5, <2>6 DEF RemoveFind, TypeOK
<1>10. ASSUME NEW w \in Workers, RemoveRaises(w)
      PROVE  TypeOK'
  <2>1. PICK done \in SUBSET (Opaques(Found(w)) \cap registered) :
          registered' = registered \ done /\ cleanup' = cleanup \cup Refs("handle", done)
    BY <1>10 DEF RemoveRaises
  <2>2. registered' \subseteq Nat
    BY <2>1 DEF TypeOK
  <2>3. done \subseteq Nat
    BY DEF TypeOK
  <2>4. Refs("handle", done) \subseteq Ref
    BY <2>3 DEF Refs, Ref, Kinds
  <2>5. cleanup' \subseteq Ref
    BY <2>1, <2>4 DEF TypeOK
  <2>6. Return(w) /\ UNCHANGED <<items, next, enabled, instant, wakeVars, loopVars>>
    BY <1>10 DEF RemoveRaises
  <2> QED BY <1>00, <2>2, <2>5, <2>6, ReturnType DEF TypeOK
<1>11. ASSUME NEW w \in Workers, Store(w)
      PROVE  TypeOK'
  <2>1. items' \in [Kinds -> SUBSET Item]
    BY <1>11 DEF Store, TypeOK, Op
  <2>2. walks' \in BOOLEAN
    BY <1>11, Zenon DEF Store
  <2>3. pc' \in [Workers -> Labels]
    BY <1>0, <1>11 DEF Store, Goto, TypeOK
  <2>4. changed' \subseteq Kinds
    BY <1>11, <1>000 DEF Store, TypeOK, Op
  <2> QED BY <1>11, <1>00, <2>1, <2>2, <2>3, <2>4 DEF Store, TypeOK
<1>12. ASSUME NEW w \in Workers, ReadRunning(w) \/ ReadPending(w)
      PROVE  TypeOK'
  <2>1. UNCHANGED <<listVars, wakeVars, loopVars>>
    BY <1>12 DEF ReadRunning, ReadPending
  <2>2. CASE Return(w)
    BY <1>00, <2>1, <2>2, ReturnType DEF TypeOK
  <2>3. ASSUME NEW label \in {"pending", "set"}, Goto(w, label),
               UNCHANGED <<op, copy, owned, ops>>
        PROVE  TypeOK'
    <3>1. pc' \in [Workers -> Labels]
      BY <1>0, <2>3 DEF Goto, TypeOK
    <3> QED BY <1>00, <2>1, <2>3, <3>1 DEF TypeOK
  <2> QED BY <1>12, <2>2, <2>3 DEF ReadRunning, ReadPending
<1>13. ASSUME NEW w \in Workers, SetPending(w)
      PROVE  TypeOK'
  <2>1. pc' \in [Workers -> Labels]
    BY <1>0, <1>13 DEF SetPending, Goto, TypeOK
  <2>2. pendingWakeup' \in BOOLEAN
    BY <1>13, Zenon DEF SetPending
  <2> QED BY <1>00, <1>13, <2>1, <2>2 DEF SetPending, TypeOK
<1>14. ASSUME NEW w \in Workers, WriteByte(w)
      PROVE  TypeOK'
  <2>1. pipe' \in Nat
    BY <1>14 DEF WriteByte, TypeOK
  <2> QED BY <1>00, <1>14, <2>1, ReturnType DEF WriteByte, TypeOK
<1>15. ASSUME LoopStep
      PROVE  TypeOK'
  <2> USE <1>00 DEF LoopLabels
  <2>1. CASE Start
    <3>1. runningPoll' \in BOOLEAN
      BY <2>1, Zenon DEF Start
    <3> QED BY <2>1, <3>1 DEF Start, TypeOK
  <2>2. CASE Free
    BY <2>2 DEF Free, TypeOK
  <2>3. CASE Clear
    BY <2>3 DEF Clear, TypeOK
  <2>4. CASE NextTimeout
    <3>1. timed' \in BOOLEAN
      BY <2>4, Zenon DEF NextTimeout
    <3> QED BY <2>4, <3>1 DEF NextTimeout, TypeOK
  <2>5. CASE EnterPoll
    BY <2>5 DEF EnterPoll, TypeOK
  <2>6. CASE Reset
    <3>1. pendingWakeup' \in BOOLEAN
      BY <2>6, Zenon DEF Reset
    <3> QED BY <2>6, <3>1 DEF Reset, TypeOK
  <2>7. CASE ReadPipe
    BY <2>7 DEF ReadPipe, TypeOK
  <2>8. CASE DispatchHandle
    <3>1. PICK fd \in events :
            /\ events' = events \ {fd}
            /\ current' \in {current, [kind |-> "handle", opaque |-> fd]}
            /\ loop' \in {loop, "call"}
      BY <2>8 DEF DispatchHandle
    <3>2. [kind |-> "handle", opaque |-> fd] \in Ref
      BY DEF Ref, Kinds, TypeOK
    <3>3. events' \subseteq Nat /\ current' \in Ref /\ loop' \in LoopLabels
      BY <3>1, <3>2 DEF TypeOK
    <3> QED BY <2>8, <3>3 DEF DispatchHandle, TypeOK
  <2>9. CASE BeginTimers
    <3>1. walks' \in BOOLEAN
      BY <2>9, Zenon DEF BeginTimers
    <3>2. todo' \subseteq Item
      BY <2>9 DEF BeginTimers, TypeOK, Kinds
    <3> QED BY <2>9, <3>1, <3>2 DEF BeginTimers, TypeOK
  <2>10. CASE NextTimer
    <3>1. PICK i \in todo :
            /\ todo' = todo \ {i}
            /\ current' \in {current, [kind |-> "timer", opaque |-> i.opaque]}
            /\ fired' \in {fired, fired \cup {i.opaque}}
            /\ loop' \in {loop, "call"}
      BY <2>10 DEF NextTimer
    <3>2. [kind |-> "timer", opaque |-> i.opaque] \in Ref
      BY DEF Ref, Kinds, TypeOK, Item
    <3>3. todo' \subseteq Item /\ current' \in Ref /\ loop' \in LoopLabels
          /\ fired' \subseteq Nat
      BY <3>1, <3>2 DEF TypeOK, Item
    <3> QED BY <2>10, <3>3 DEF NextTimer, TypeOK
  <2>11. CASE CallReturns
    BY <2>11 DEF CallReturns, TypeOK, NoCall, Ref, Kinds
  <2>12. CASE Finish
    <3>1. runningPoll' \in BOOLEAN /\ walks' \in BOOLEAN
      BY <2>12, Zenon DEF Finish
    <3> QED BY <2>12, <3>1 DEF Finish, TypeOK
  <2> QED BY <1>15, <2>1, <2>2, <2>3, <2>4, <2>5, <2>6, <2>7, <2>8, <2>9, <2>10,
             <2>11, <2>12 DEF LoopStep
<1>16. CASE Wake
  <2>1. events' \subseteq Nat /\ loop' \in LoopLabels
    BY <1>16 DEF Wake, TypeOK, LoopLabels
  <2> QED BY <1>16, <1>00, <2>1 DEF Wake, TypeOK
<1>17. CASE UNCHANGED vars
  BY <1>17, <1>00 DEF vars, TypeOK
<1> QED
  BY <1>1, <1>2, <1>3, <1>4, <1>5, <1>6, <1>7, <1>8, <1>9, <1>10, <1>11, <1>12,
     <1>13, <1>14, <1>15, <1>16, <1>17 DEF Next, OpStep, Waiting

\* Every variable keeps its type, however many threads use the loop.
THEOREM TypeCorrect == Spec => []TypeOK
<1>1. Init => TypeOK
  BY TypeStart
<1>2. TypeOK /\ [Next]_vars => TypeOK'
  BY TypeStep
<1> QED BY <1>1, <1>2, PTL DEF Spec

-----------------------------------------------------------------------------
(* Wakeups *)

\* A step of a thread leaves the others where they are.
LEMMA OthersStay ==
  ASSUME TypeOK, NEW w \in Workers
  PROVE  /\ \A label : Goto(w, label) =>
              pc'[w] = label /\ \A u \in Workers \ {w} : pc'[u] = pc[u]
         /\ \A label, call : Begin(w, label, call) =>
              /\ pc'[w] = label /\ pc[w] = "idle"
              /\ \A u \in Workers \ {w} : pc'[u] = pc[u]
         /\ Return(w) =>
              pc'[w] = "idle" /\ \A u \in Workers \ {w} : pc'[u] = pc[u]
  BY DEF Goto, Begin, Return, TypeOK

\* What every step of an operation except the writing of pendingWakeup and of the
\* pipe leaves alone.
LEMMA OpFrame ==
  ASSUME TypeOK, NEW w \in Workers,
         \/ \E k \in Kinds : Add(w, k) \/ Change(w, k, "update") \/ Change(w, k, "remove")
         \/ Bump(w) \/ AppendItem(w) \/ Register(w)
         \/ UpdateMissing(w) \/ UpdateTimer(w) \/ UpdateHandle(w)
         \/ RemoveFind(w) \/ RemoveRaises(w) \/ Store(w)
  PROVE  /\ pc[w] \notin Interrupting
         /\ \A u \in Workers \ {w} : pc'[u] = pc[u]
         /\ UNCHANGED <<runningPoll, pendingWakeup, pipe, loop, timed, polled,
                        events, current, fired, freed>>
<1> USE DEF listVars, wakeVars, walkVars, loopVars, Interrupting
<1>1. ASSUME NEW k \in Kinds, Add(w, k)
      PROVE  /\ pc[w] \notin Interrupting
             /\ \A u \in Workers \ {w} : pc'[u] = pc[u]
             /\ UNCHANGED <<runningPoll, pendingWakeup, pipe, loop, timed, polled,
                        events, current, fired, freed>>
  BY <1>1, OthersStay DEF Add
<1>2. ASSUME NEW k \in Kinds, NEW name \in {"update", "remove"}, Change(w, k, name)
      PROVE  /\ pc[w] \notin Interrupting
             /\ \A u \in Workers \ {w} : pc'[u] = pc[u]
             /\ UNCHANGED <<runningPoll, pendingWakeup, pipe, loop, timed, polled,
                        events, current, fired, freed>>
  <2>1. PICK i \in owned[k] :
          /\ Begin(w, name, [name |-> name, kind |-> k, id |-> i.id,
                             opaque |-> i.opaque, target |-> i.opaque])
          /\ UNCHANGED <<listVars, wakeVars, loopVars>>
    BY <1>2 DEF Change
  <2> QED BY <2>1, OthersStay
<1>3. CASE Bump(w)
  BY <1>3, OthersStay DEF Bump
<1>4. CASE AppendItem(w)
  BY <1>4, OthersStay DEF AppendItem
<1>5. CASE Register(w)
  BY <1>5, OthersStay DEF Register
<1>6. CASE UpdateMissing(w)
  BY <1>6, OthersStay DEF UpdateMissing
<1>7. CASE UpdateTimer(w)
  BY <1>7, OthersStay DEF UpdateTimer
<1>8. CASE UpdateHandle(w)
  BY <1>8, OthersStay DEF UpdateHandle
<1>9. CASE RemoveFind(w)
  BY <1>9, OthersStay DEF RemoveFind
<1>10. CASE RemoveRaises(w)
  BY <1>10, OthersStay DEF RemoveRaises
<1>11. CASE Store(w)
  BY <1>11, OthersStay DEF Store
<1> QED BY <1>1, <1>2, <1>3, <1>4, <1>5, <1>6, <1>7, <1>8, <1>9, <1>10, <1>11

LEMMA WakeupStep ==
  ASSUME TypeOK, WakeupInv, [Next]_vars
  PROVE  WakeupInv'
<1> USE DEF listVars, wakeVars, walkVars, loopVars, opVars
<1>1. ASSUME NEW w \in Workers, pc[w] # "write",
             \A u \in Workers \ {w} : pc'[u] = pc[u],
             UNCHANGED <<runningPoll, pendingWakeup, pipe, loop>>
      PROVE  WakeupInv'
  <2>1. \A u \in Workers : pc[u] = "write" => pc'[u] = "write"
    BY <1>1
  <2> QED BY <1>1, <2>1, Zenon DEF WakeupInv
<1>2. ASSUME NEW w \in Workers,
             \/ \E k \in Kinds : Add(w, k) \/ Change(w, k, "update") \/ Change(w, k, "remove")
             \/ Bump(w) \/ AppendItem(w) \/ Register(w)
             \/ UpdateMissing(w) \/ UpdateTimer(w) \/ UpdateHandle(w)
             \/ RemoveFind(w) \/ RemoveRaises(w) \/ Store(w)
      PROVE  WakeupInv'
  BY <1>1, <1>2, OpFrame DEF Interrupting
<1>3. ASSUME NEW w \in Workers, ReadRunning(w) \/ ReadPending(w)
      PROVE  WakeupInv'
  <2>1. /\ pc[w] # "write" /\ \A u \in Workers \ {w} : pc'[u] = pc[u]
        /\ UNCHANGED <<runningPoll, pendingWakeup, pipe, loop>>
    BY <1>3, OthersStay DEF ReadRunning, ReadPending
  <2> QED BY <1>1, <2>1
<1>4. ASSUME NEW w \in Workers, SetPending(w)
      PROVE  WakeupInv'
  <2>1. pc'[w] = "write"
    BY <1>4, OthersStay DEF SetPending
  <2>2. UNCHANGED <<runningPoll, pipe, loop>>
    BY <1>4 DEF SetPending
  <2> QED BY <2>1, <2>2, Zenon DEF WakeupInv
<1>5. ASSUME NEW w \in Workers, WriteByte(w)
      PROVE  WakeupInv'
  <2>1. UNCHANGED <<runningPoll, pendingWakeup, loop>> /\ pipe' = pipe + 1
    BY <1>5 DEF WriteByte
  <2>2. pipe' > (IF loop' = "read" THEN 1 ELSE 0)
    BY <2>1 DEF WakeupInv, TypeOK
  <2>3. loop' \in {"reset", "read"} => pipe' > 0
    BY <2>1 DEF WakeupInv, TypeOK
  <2> QED BY <2>1, <2>2, <2>3, Zenon DEF WakeupInv
<1>6. ASSUME LoopStep \/ Wake
      PROVE  WakeupInv'
  <2>1. pc' = pc
    BY <1>6 DEF LoopStep, Wake, Start, Free, Clear, NextTimeout, EnterPoll, Reset,
                ReadPipe, DispatchHandle, BeginTimers, NextTimer, CallReturns, Finish
  <2>2. CASE Start
    <3>1. runningPoll' = TRUE /\ loop' = "free" /\ loop = "start"
          /\ UNCHANGED <<pendingWakeup, pipe>>
      BY <2>2 DEF Start
    <3> QED BY <2>1, <3>1 DEF WakeupInv
  <2>3. CASE Finish
    <3>1. runningPoll' = FALSE /\ loop' = "start" /\ loop = "timers"
          /\ UNCHANGED <<pendingWakeup, pipe>>
      BY <2>3 DEF Finish
    <3> QED BY <2>1, <3>1 DEF WakeupInv
  <2>4. CASE Reset
    <3>1. pendingWakeup' = FALSE /\ loop' = "read" /\ loop = "reset"
          /\ UNCHANGED <<runningPoll, pipe>>
      BY <2>4 DEF Reset
    <3> QED BY <2>1, <3>1 DEF WakeupInv
  <2>5. CASE ReadPipe
    <3>1. pipe' = pipe - 1 /\ loop' = "handles" /\ loop = "read"
          /\ UNCHANGED <<runningPoll, pendingWakeup>>
      BY <2>5 DEF ReadPipe
    <3>2. pipe > 1 => pipe' > 0
      BY <3>1 DEF TypeOK
    <3> QED BY <2>1, <3>1, <3>2 DEF WakeupInv
  <2>6. CASE Wake
    <3>1. loop = "sleep" /\ loop' = (IF pipe > 0 THEN "reset" ELSE "handles")
          /\ UNCHANGED <<runningPoll, pendingWakeup, pipe>>
      BY <2>6 DEF Wake
    <3> QED BY <2>1, <3>1 DEF WakeupInv
  <2>7. CASE \/ Free \/ Clear \/ NextTimeout \/ EnterPoll \/ DispatchHandle
             \/ BeginTimers \/ NextTimer \/ CallReturns
    <3>1. /\ loop \notin {"start", "read", "reset"} /\ loop' \notin {"start", "read", "reset"}
          /\ UNCHANGED <<runningPoll, pendingWakeup, pipe>>
      BY <2>7 DEF Free, Clear, NextTimeout, EnterPoll, DispatchHandle, BeginTimers,
                  NextTimer, CallReturns
    <3> QED BY <2>1, <3>1 DEF WakeupInv
  <2> QED BY <1>6, <2>2, <2>3, <2>4, <2>5, <2>6, <2>7 DEF LoopStep
<1>7. CASE UNCHANGED vars
  BY <1>7 DEF vars, WakeupInv
<1> QED
  BY <1>2, <1>3, <1>4, <1>5, <1>6, <1>7 DEF Next, OpStep, Waiting

LEMMA NewsStep ==
  ASSUME TypeOK, WakeupInv, NewsInv, [Next]_vars
  PROVE  NewsInv'
<1> USE DEF listVars, wakeVars, walkVars, loopVars, opVars
<1>1. ASSUME NEW w \in Workers, pc[w] \notin Interrupting,
             \A u \in Workers \ {w} : pc'[u] = pc[u],
             UNCHANGED <<pipe, loop, timed, changed, fired, enabled, instant>>,
             items'["timer"] = items["timer"]
      PROVE  NewsInv'
  <2>1. Informed => Informed'
    BY <1>1 DEF Informed
  <2>2. TimeoutFits' = TimeoutFits
    BY <1>1 DEF TimeoutFits, EnabledTimers, BlankTimers
  <2> QED BY <1>1, <2>1, <2>2 DEF NewsInv
<1>2. ASSUME NEW w \in Workers, pc'[w] \in Interrupting,
             UNCHANGED <<loop, timed, changed, fired, enabled, instant, items>>
      PROVE  NewsInv'
  <2>1. TimeoutFits' = TimeoutFits
    BY <1>2 DEF TimeoutFits, EnabledTimers, BlankTimers
  <2> QED BY <1>2, <2>1 DEF NewsInv, Informed
<1>3. ASSUME NEW w \in Workers, NEW k \in Kinds, Touch(k), pc'[w] \in Interrupting,
             UNCHANGED <<loop, timed, fired>>,
             k = "timer" \/ (UNCHANGED <<enabled, instant>> /\ items'["timer"] = items["timer"])
      PROVE  NewsInv'
  <2>1. Informed'
    BY <1>3 DEF Informed
  <2>2. changed' # {} => loop' \in {"poll", "sleep"}
    BY <1>3 DEF Touch, NewsInv
  <2>3. ASSUME loop \in {"poll", "sleep"}
        PROVE  TimeoutFits'
    <3>1. changed' = changed \cup {k}
      BY <1>3, <2>3 DEF Touch
    <3>2. CASE k = "timer"
      BY <3>1, <3>2 DEF TimeoutFits
    <3>3. CASE k # "timer"
      <4>1. EnabledTimers' = EnabledTimers /\ BlankTimers' = BlankTimers
        BY <1>3, <3>3 DEF EnabledTimers, BlankTimers
      <4> QED BY <1>3, <2>3, <3>1, <4>1 DEF TimeoutFits, NewsInv
    <3> QED BY <3>2, <3>3
  <2> QED BY <1>3, <2>1, <2>2, <2>3 DEF NewsInv
<1>4. ASSUME NEW w \in Workers,
             \/ \E k \in Kinds : Add(w, k) \/ Change(w, k, "update") \/ Change(w, k, "remove")
             \/ Bump(w) \/ UpdateMissing(w) \/ UpdateHandle(w)
             \/ RemoveFind(w) \/ RemoveRaises(w)
      PROVE  NewsInv'
  <2>1. UNCHANGED <<items, enabled, instant, changed>>
    BY <1>4 DEF Add, Change, Bump, UpdateMissing, UpdateHandle, RemoveFind, RemoveRaises
  <2> QED BY <1>1, <1>4, <2>1, OpFrame
<1>5. ASSUME NEW w \in Workers, AppendItem(w)
      PROVE  NewsInv'
  <2>1. UNCHANGED <<loop, timed, fired, pipe>>
    BY <1>5 DEF AppendItem
  <2>2. CASE op[w].kind = "timer"
    <3>1. pc'[w] \in Interrupting /\ Touch("timer")
      BY <1>5, <2>2, OthersStay DEF AppendItem, Interrupting
    <3> QED BY <1>3, <2>1, <3>1 DEF Kinds
  <2>3. CASE op[w].kind # "timer"
    <3>1. op[w].kind \in Kinds \ {"timer"}
      BY <2>3 DEF TypeOK, Op
    <3>2. items'["timer"] = items["timer"] /\ UNCHANGED <<enabled, instant, changed>>
      BY <1>5, <3>1 DEF AppendItem, TypeOK, Kinds
    <3> QED BY <1>1, <1>5, <2>1, <3>2, OpFrame
  <2> QED BY <2>2, <2>3
<1>6. ASSUME NEW w \in Workers, Register(w) \/ UpdateTimer(w) \/ Store(w)
      PROVE  NewsInv'
  <2>1. pc'[w] \in Interrupting /\ UNCHANGED <<loop, timed, fired>>
    BY <1>6, OthersStay DEF Register, UpdateTimer, Store, Interrupting
  <2>2. CASE Register(w)
    BY <1>3, <2>1, <2>2 DEF Register, Kinds
  <2>3. CASE UpdateTimer(w)
    BY <1>3, <2>1, <2>3 DEF UpdateTimer, Kinds
  <2>4. CASE Store(w)
    <3>1. /\ op[w].kind \in Kinds /\ Touch(op[w].kind)
          /\ UNCHANGED <<enabled, instant>>
          /\ items' = [items EXCEPT ![op[w].kind] = copy[w]]
      BY <2>4 DEF Store, TypeOK, Op
    <3>2. op[w].kind = "timer" \/ items'["timer"] = items["timer"]
      BY <3>1 DEF TypeOK, Kinds
    <3> QED BY <1>3, <2>1, <3>1, <3>2
  <2> QED BY <1>6, <2>2, <2>3, <2>4
<1>7. ASSUME NEW w \in Workers, ReadRunning(w)
      PROVE  NewsInv'
  <2>1. UNCHANGED <<loop, timed, changed, fired, enabled, instant, items>>
    BY <1>7 DEF ReadRunning
  <2>2. CASE runningPoll
    BY <1>2, <1>7, <2>1, <2>2, OthersStay DEF ReadRunning, Interrupting
  <2>3. CASE ~runningPoll
    BY <2>1, <2>3 DEF NewsInv, WakeupInv
  <2> QED BY <2>2, <2>3
<1>8. ASSUME NEW w \in Workers, ReadPending(w)
      PROVE  NewsInv'
  <2>1. UNCHANGED <<loop, timed, changed, fired, enabled, instant, items>>
    BY <1>8 DEF ReadPending
  <2>2. CASE ~pendingWakeup
    BY <1>2, <1>8, <2>1, <2>2, OthersStay DEF ReadPending, Interrupting
  <2>3. CASE pendingWakeup
    <3>1. /\ pc[w] = "pending" /\ \A u \in Workers \ {w} : pc'[u] = pc[u]
          /\ UNCHANGED pipe
      BY <1>8, <2>3, OthersStay DEF ReadPending
    <3>2. pipe > 0 \/ \E u \in Workers : pc[u] = "write"
      BY <2>3 DEF WakeupInv, TypeOK
    <3>3. Informed'
      BY <3>1, <3>2 DEF Informed, Interrupting
    <3>4. TimeoutFits' = TimeoutFits
      BY <2>1 DEF TimeoutFits, EnabledTimers, BlankTimers
    <3> QED BY <2>1, <3>3, <3>4 DEF NewsInv
  <2> QED BY <2>2, <2>3
<1>9. ASSUME NEW w \in Workers, SetPending(w)
      PROVE  NewsInv'
  BY <1>2, <1>9, OthersStay DEF SetPending, Interrupting
<1>10. ASSUME NEW w \in Workers, WriteByte(w)
      PROVE  NewsInv'
  <2>1. Informed' /\ UNCHANGED <<loop, timed, changed, fired, enabled, instant, items>>
    BY <1>10 DEF WriteByte, TypeOK, Informed
  <2>2. TimeoutFits' = TimeoutFits
    BY <2>1 DEF TimeoutFits, EnabledTimers, BlankTimers
  <2> QED BY <2>1, <2>2 DEF NewsInv
<1>11. ASSUME LoopStep \/ Wake
      PROVE  NewsInv'
  <2>1. CASE NextTimeout
    <3>1. /\ loop = "timeout" /\ UNCHANGED changed
          /\ EnabledTimers' = EnabledTimers /\ BlankTimers' = BlankTimers
          /\ ~timed' => BlankTimers # {} \/ EnabledTimers = {}
      BY <2>1 DEF NextTimeout, EnabledTimers, BlankTimers
    <3> QED BY <3>1 DEF NewsInv, TimeoutFits
  <2>2. CASE EnterPoll
    <3>1. /\ loop = "poll" /\ loop' = "sleep" /\ changed' = changed \ {"handle"}
          /\ UNCHANGED <<timed, pipe, pc>>
          /\ EnabledTimers' = EnabledTimers /\ BlankTimers' = BlankTimers
      BY <2>2 DEF EnterPoll, EnabledTimers, BlankTimers
    <3> QED BY <3>1 DEF NewsInv, TimeoutFits, Informed
  <2>3. CASE Wake
    <3>1. loop' \notin {"poll", "sleep"} /\ changed' = {}
      BY <2>3 DEF Wake
    <3> QED BY <3>1 DEF NewsInv
  <2>4. CASE ~NextTimeout /\ ~EnterPoll /\ ~Wake
    <3>1. loop \notin {"poll", "sleep"} /\ loop' \notin {"poll", "sleep"} /\ UNCHANGED changed
      BY <1>11, <2>4 DEF LoopStep, Start, Free, Clear, Reset, ReadPipe,
                         DispatchHandle, BeginTimers, NextTimer, CallReturns, Finish
    <3> QED BY <3>1 DEF NewsInv
  <2> QED BY <2>1, <2>2, <2>3, <2>4
<1>12. CASE UNCHANGED vars
  <2>1. NewsInv' <=> NewsInv
    BY <1>12 DEF vars, NewsInv, TimeoutFits, EnabledTimers, BlankTimers, Informed
  <2> QED BY <2>1
<1> QED
  BY <1>4, <1>5, <1>6, <1>7, <1>8, <1>9, <1>10, <1>11, <1>12 DEF Next, OpStep, Waiting

\* While the loop sleeps without knowing all that changed, or without waiting for a
\* timer that has an interval, a byte or a thread about to write one wakes it;
\* except for timers of interval zero that were never fired.
THEOREM WakeupsAreNotLost == Spec => []SleepsInformed
<1> DEFINE IInv == TypeOK /\ WakeupInv /\ NewsInv
<1>1. Init => IInv
  <2>1. Init => WakeupInv /\ NewsInv
    BY DEF Init, WakeupInv, NewsInv
  <2> QED BY <2>1, TypeStart
<1>2. IInv /\ [Next]_vars => IInv'
  BY TypeStep, WakeupStep, NewsStep
<1>3. IInv => SleepsInformed
  BY DEF NewsInv, TimeoutFits, News, SleepsInformed
<1> QED BY <1>1, <1>2, <1>3, PTL DEF Spec

-----------------------------------------------------------------------------
(* Handles that are dispatched are alive *)

\* A step that registers nothing, removes nothing and begins no registration.
LEMMA AliveFrame ==
  ASSUME TypeOK, AliveInv,
         registered' \subseteq registered, Gone' \subseteq Gone,
         Registering' \subseteq Registering,
         \A w \in Registering' : op'[w].target = op[w].target,
         ops' \in {ops, ops + 1}
  PROVE  AliveInv'
<1>1. \A o \in registered \cup Gone : o \in Nat /\ o <= ops'
  BY DEF AliveInv, TypeOK, Gone
<1>2. \A w \in Registering : op[w].target \in Nat /\ op[w].target <= ops'
  BY DEF AliveInv, TypeOK, Op, Registering
<1>3. registered' \cap Gone' = {}
  BY DEF AliveInv
<1>4. \A w \in Registering' :
        /\ op'[w].target \notin registered' \cup Gone'
        /\ \A u \in Registering' : op'[u].target = op'[w].target => u = w
  BY DEF AliveInv
<1> QED BY <1>1, <1>2, <1>3, <1>4 DEF AliveInv

\* The threads that register, when w alone moves.
LEMMA RegisteringFrame ==
  ASSUME TypeOK, NEW w \in Workers,
         \A u \in Workers \ {w} : pc'[u] = pc[u] /\ op'[u] = op[u]
  PROVE  /\ Registering' \ {w} = Registering \ {w}
         /\ \A u \in Registering' \ {w} : op'[u].target = op[u].target
  BY DEF Registering

LEMMA OpsStay ==
  ASSUME TypeOK, NEW w \in Workers
  PROVE  /\ \A label, call : Begin(w, label, call) =>
              op'[w] = call /\ \A u \in Workers \ {w} : op'[u] = op[u]
         /\ Return(w) => \A u \in Workers \ {w} : op'[u] = op[u]
  BY DEF Begin, Return, TypeOK

LEMMA AliveStep ==
  ASSUME TypeOK, AliveInv, [Next]_vars
  PROVE  AliveInv'
<1> USE DEF listVars, wakeVars, walkVars, loopVars, opVars
<1>1. ASSUME NEW w \in Workers,
             registered' \subseteq registered, UNCHANGED <<cleanup, freed>>,
             \A u \in Workers \ {w} : pc'[u] = pc[u] /\ op'[u] = op[u],
             \/ pc'[w] \notin {"register", "bump", "append"}
             \/ pc'[w] = "bump" /\ op'[w].kind # "handle"
             \/ w \in Registering /\ op'[w] = op[w],
             ops' \in {ops, ops + 1}
      PROVE  AliveInv'
  <2>1. Gone' = Gone
    BY <1>1 DEF Gone
  <2>2. w \in Registering' => w \in Registering /\ op'[w] = op[w]
    BY <1>1 DEF Registering
  <2>3. /\ Registering' \subseteq Registering
        /\ \A u \in Registering' : op'[u].target = op[u].target
    BY <1>1, <2>2, RegisteringFrame
  <2> QED BY <1>1, <2>1, <2>3, AliveFrame
<1>2. ASSUME NEW w \in Workers, NEW k \in Kinds, Add(w, k)
      PROVE  AliveInv'
  <2> DEFINE call == [name |-> "add", kind |-> k, id |-> next[k] + 1,
                      opaque |-> ops + 1, target |-> ops + 1]
  <2>1. /\ Begin(w, "bump", call) /\ UNCHANGED <<registered, cleanup, freed>>
        /\ call.kind = k /\ call.target = ops + 1
    BY <1>2 DEF Add
  <2> HIDE DEF call
  <2>0. ops' = ops + 1
    BY <2>1 DEF Begin
  <2>2. /\ pc'[w] = "bump" /\ op'[w] = call
        /\ \A u \in Workers \ {w} : pc'[u] = pc[u] /\ op'[u] = op[u]
    BY <2>1, OthersStay, OpsStay
  <2>3. CASE k # "handle"
    BY <1>1, <2>1, <2>0, <2>2, <2>3
  <2>4. CASE k = "handle"
    <3>1. Gone' = Gone
      BY <2>1 DEF Gone
    <3>2. \A u \in Registering' \ {w} : u \in Registering /\ op'[u].target = op[u].target
      BY <2>0, <2>2, RegisteringFrame
    <3>3. \A o \in registered \cup Gone : o \in Nat /\ o <= ops /\ o # ops + 1 /\ o <= ops + 1
      BY DEF AliveInv, TypeOK, Gone
    <3>4. \A u \in Registering : /\ op[u].target \in Nat
                                 /\ op[u].target # ops + 1 /\ op[u].target <= ops + 1
      BY DEF AliveInv, TypeOK, Op, Registering
    <3>5. op'[w].target = ops + 1 /\ ops + 1 <= ops + 1
      BY <2>1, <2>0, <2>2 DEF TypeOK
    <3>6. registered' \cap Gone' = {} /\ \A o \in registered' \cup Gone' : o <= ops'
      BY <2>1, <2>0, <2>2, <3>1, <3>3 DEF AliveInv
    <3>7. \A u \in Registering' : op'[u].target <= ops'
      BY <2>0, <2>2, <3>2, <3>4, <3>5
    <3>8. \A u \in Registering' : op'[u].target \notin registered' \cup Gone'
      BY <2>1, <3>1, <3>2, <3>3, <3>5 DEF AliveInv
    <3>9. \A u, v \in Registering' : op'[u].target = op'[v].target => u = v
      BY <3>2, <3>4, <3>5 DEF AliveInv
    <3> QED BY <3>6, <3>7, <3>8, <3>9 DEF AliveInv
  <2> QED BY <2>3, <2>4
<1>3. ASSUME NEW w \in Workers, NEW k \in Kinds, NEW name \in {"update", "remove"},
             Change(w, k, name)
      PROVE  AliveInv'
  <2>1. PICK i \in owned[k] :
          Begin(w, name, [name |-> name, kind |-> k, id |-> i.id,
                          opaque |-> i.opaque, target |-> i.opaque])
    BY <1>3 DEF Change
  <2>2. /\ pc'[w] = name /\ ops' = ops + 1
        /\ \A u \in Workers \ {w} : pc'[u] = pc[u] /\ op'[u] = op[u]
    BY <2>1, OthersStay, OpsStay DEF Begin
  <2>3. UNCHANGED <<registered, cleanup, freed>>
    BY <1>3 DEF Change
  <2> QED BY <1>1, <2>2, <2>3
<1>4. ASSUME NEW w \in Workers, Bump(w)
      PROVE  AliveInv'
  <2>1. /\ pc[w] = "bump" /\ pc'[w] = "append"
        /\ UNCHANGED <<op, registered, cleanup, freed, ops>>
        /\ \A u \in Workers \ {w} : pc'[u] = pc[u]
    BY <1>4, OthersStay DEF Bump
  <2>2. w \in Registering' => w \in Registering
    BY <2>1 DEF Registering
  <2>3. Registering' \subseteq Registering
    BY <2>1, <2>2, RegisteringFrame
  <2>4. Gone' = Gone
    BY <2>1 DEF Gone
  <2> QED BY <2>1, <2>3, <2>4, AliveFrame
<1>5. ASSUME NEW w \in Workers, AppendItem(w)
      PROVE  AliveInv'
  <2>1. /\ pc[w] = "append"
        /\ pc'[w] = (IF op[w].kind = "timer" THEN "running" ELSE "register")
        /\ UNCHANGED <<op, registered, cleanup, freed, ops>>
        /\ \A u \in Workers \ {w} : pc'[u] = pc[u]
    BY <1>5, OthersStay DEF AppendItem
  <2>2. op[w].kind \in Kinds
    BY DEF TypeOK, Op
  <2>3. w \in Registering' => w \in Registering
    BY <2>1, <2>2 DEF Registering, Kinds
  <2> QED BY <1>1, <2>1, <2>3 DEF Registering
<1>6. ASSUME NEW w \in Workers, Register(w)
      PROVE  AliveInv'
  <2>1. /\ pc[w] = "register" /\ pc'[w] = "running"
        /\ registered' = registered \cup {op[w].target}
        /\ UNCHANGED <<op, cleanup, freed, ops>>
        /\ \A u \in Workers \ {w} : pc'[u] = pc[u]
    BY <1>6, OthersStay DEF Register
  <2>2. w \in Registering /\ w \notin Registering' /\ Registering' \subseteq Registering
    BY <2>1, RegisteringFrame DEF Registering
  <2>3. Gone' = Gone
    BY <2>1 DEF Gone
  <2> QED BY <2>1, <2>2, <2>3 DEF AliveInv
<1>7. ASSUME NEW w \in Workers,
             \/ UpdateMissing(w) \/ UpdateTimer(w) \/ Store(w)
             \/ ReadRunning(w) \/ ReadPending(w) \/ SetPending(w) \/ WriteByte(w)
      PROVE  AliveInv'
  <2>1. /\ pc'[w] \in {"idle", "running", "pending", "set", "write"}
        /\ UNCHANGED <<registered, cleanup, freed, ops>>
        /\ \A u \in Workers \ {w} : pc'[u] = pc[u] /\ op'[u] = op[u]
    BY <1>7, OthersStay, OpsStay
       DEF UpdateMissing, UpdateTimer, Store, ReadRunning, ReadPending, SetPending,
           WriteByte, Return
  <2> QED BY <1>1, <2>1
<1>8. ASSUME NEW w \in Workers, UpdateHandle(w)
      PROVE  AliveInv'
  <2>1. PICK i \in Found(w) :
          \/ /\ i.opaque \in registered
             /\ registered' = registered \ {i.opaque}
             /\ op' = [op EXCEPT ![w] = [@ EXCEPT !.target = i.opaque]]
             /\ Goto(w, "register")
             /\ UNCHANGED <<copy, owned, ops>>
          \/ Return(w) /\ UNCHANGED registered
    BY <1>8 DEF UpdateHandle
  <2>2. UNCHANGED <<cleanup, freed>>
    BY <1>8 DEF UpdateHandle
  <2>3. CASE Return(w) /\ UNCHANGED registered
    <3>1. /\ pc'[w] = "idle" /\ UNCHANGED ops
          /\ \A u \in Workers \ {w} : pc'[u] = pc[u] /\ op'[u] = op[u]
      BY <2>3, OthersStay, OpsStay DEF Return
    <3> QED BY <1>1, <2>2, <2>3, <3>1
  <2>4. CASE /\ i.opaque \in registered
             /\ registered' = registered \ {i.opaque}
             /\ op' = [op EXCEPT ![w] = [@ EXCEPT !.target = i.opaque]]
             /\ Goto(w, "register")
             /\ UNCHANGED <<copy, owned, ops>>
    <3>1. /\ op'[w].target = i.opaque
          /\ \A u \in Workers \ {w} : pc'[u] = pc[u] /\ op'[u] = op[u]
      BY <2>4, OthersStay DEF TypeOK, Op
    <3>2. Gone' = Gone
      BY <2>2 DEF Gone
    <3>3. \A u \in Registering' \ {w} : u \in Registering /\ op'[u].target = op[u].target
      BY <3>1, RegisteringFrame
    <3>4. i.opaque \notin Gone /\ i.opaque <= ops
          /\ \A u \in Registering : op[u].target # i.opaque
      BY <2>4 DEF AliveInv
    <3>5. registered' \cap Gone' = {} /\ \A o \in registered' \cup Gone' : o <= ops'
      BY <2>4, <3>2 DEF AliveInv
    <3>6. \A u \in Registering' :
            op'[u].target \notin registered' \cup Gone' /\ op'[u].target <= ops'
      BY <2>4, <3>1, <3>2, <3>3, <3>4 DEF AliveInv
    <3>7. \A u, v \in Registering' : op'[u].target = op'[v].target => u = v
      BY <3>1, <3>3, <3>4 DEF AliveInv
    <3> QED BY <3>5, <3>6, <3>7 DEF AliveInv
  <2> QED BY <2>1, <2>3, <2>4
<1>9. ASSUME NEW w \in Workers, NEW d \in SUBSET registered,
             registered' = registered \ d,
             cleanup' = cleanup \cup Refs("handle", d), freed' = freed, ops' = ops,
             pc'[w] \in {"idle", "store"},
             \A u \in Workers \ {w} : pc'[u] = pc[u] /\ op'[u] = op[u]
      PROVE  AliveInv'
  <2>1. Gone' \subseteq Gone \cup d
    BY <1>9 DEF Gone, Refs
  <2>2. /\ Registering' \subseteq Registering
        /\ \A u \in Registering' : op'[u].target = op[u].target
    BY <1>9, RegisteringFrame DEF Registering
  <2>3. registered' \cup Gone' \subseteq registered \cup Gone /\ registered' \cap Gone' = {}
    BY <1>9, <2>1 DEF AliveInv
  <2> QED BY <1>9, <2>2, <2>3 DEF AliveInv
<1>10. ASSUME NEW w \in Workers, RemoveFind(w)
       PROVE  AliveInv'
  <2>1. /\ pc'[w] = "store" /\ UNCHANGED <<op, freed, ops>>
        /\ \A u \in Workers \ {w} : pc'[u] = pc[u]
    BY <1>10, OthersStay DEF RemoveFind
  <2>2. cleanup' = cleanup \cup Refs(op[w].kind, Opaques(Found(w)))
    BY <1>10 DEF RemoveFind
  <2>3. CASE op[w].kind = "handle"
    <3>1. /\ Opaques(Found(w)) \in SUBSET registered
          /\ registered' = registered \ Opaques(Found(w))
      BY <1>10, <2>3 DEF RemoveFind
    <3> QED BY <1>9, <2>1, <2>2, <2>3, <3>1
  <2>4. CASE op[w].kind # "handle"
    <3>1. registered' = registered
      BY <1>10, <2>4 DEF RemoveFind
    <3>2. Gone' = Gone
      BY <2>1, <2>2, <2>4 DEF Gone, Refs
    <3>3. /\ Registering' \subseteq Registering
          /\ \A u \in Registering' : op'[u].target = op[u].target
      BY <2>1, RegisteringFrame DEF Registering
    <3> QED BY <2>1, <3>1, <3>2, <3>3, AliveFrame
  <2> QED BY <2>3, <2>4
<1>11. ASSUME NEW w \in Workers, RemoveRaises(w)
       PROVE  AliveInv'
  <2>1. PICK done \in SUBSET (Opaques(Found(w)) \cap registered) :
          registered' = registered \ done /\ cleanup' = cleanup \cup Refs("handle", done)
    BY <1>11 DEF RemoveRaises
  <2>2. done \in SUBSET registered
    OBVIOUS
  <2>3. /\ pc'[w] = "idle" /\ freed' = freed /\ ops' = ops
        /\ \A u \in Workers \ {w} : pc'[u] = pc[u] /\ op'[u] = op[u]
    BY <1>11, OthersStay, OpsStay DEF RemoveRaises, Return
  <2> QED BY <1>9, <2>1, <2>2, <2>3
<1>12. ASSUME LoopStep \/ Wake
       PROVE  AliveInv'
  <2>1. UNCHANGED <<registered, opVars>>
    BY <1>12 DEF LoopStep, Wake, Start, Free, Clear, NextTimeout, EnterPoll, Reset,
                 ReadPipe, DispatchHandle, BeginTimers, NextTimer, CallReturns, Finish
  <2>2. cleanup' \cup freed' \subseteq cleanup \cup freed
    BY <1>12 DEF LoopStep, Wake, Start, Free, Clear, NextTimeout, EnterPoll, Reset,
                 ReadPipe, DispatchHandle, BeginTimers, NextTimer, CallReturns, Finish
  <2>3. Gone' \subseteq Gone
    BY <2>2 DEF Gone
  <2>4. Registering' = Registering
    BY <2>1 DEF Registering
  <2> QED BY <2>1, <2>3, <2>4, AliveFrame
<1>13. CASE UNCHANGED vars
  <2>1. Gone' = Gone /\ Registering' = Registering
    BY <1>13 DEF vars, Gone, Registering
  <2> QED BY <1>13, <2>1 DEF vars, AliveInv
<1> QED
  BY <1>2, <1>3, <1>4, <1>5, <1>6, <1>7, <1>8, <1>10, <1>11, <1>12, <1>13
     DEF Next, OpStep, Waiting

LEMMA PolledStep ==
  ASSUME TypeOK, AliveInv, PolledInv, [Next]_vars
  PROVE  PolledInv'
<1> USE DEF listVars, wakeVars, walkVars, loopVars, opVars
<1>1. ASSUME UNCHANGED <<loop, polled, events, current, freed>>
      PROVE  PolledInv'
  BY <1>1 DEF PolledInv
<1>2. ASSUME NEW w \in Workers,
             \/ \E k \in Kinds : Add(w, k) \/ Change(w, k, "update") \/ Change(w, k, "remove")
             \/ OpStep(w)
      PROVE  PolledInv'
  <2>1. CASE ReadRunning(w) \/ ReadPending(w) \/ SetPending(w) \/ WriteByte(w)
    BY <1>1, <2>1 DEF ReadRunning, ReadPending, SetPending, WriteByte
  <2>2. CASE ~(ReadRunning(w) \/ ReadPending(w) \/ SetPending(w) \/ WriteByte(w))
    BY <1>1, <1>2, <2>2, OpFrame DEF OpStep
  <2> QED BY <2>1, <2>2
<1>3. CASE EnterPoll
  <2>1. \A o \in registered : [kind |-> "handle", opaque |-> o] \notin freed
    BY DEF AliveInv, Gone, TypeOK
  <2>2. loop' = "sleep" /\ polled' = registered /\ freed' = freed
    BY <1>3 DEF EnterPoll
  <2> QED BY <2>1, <2>2 DEF PolledInv
<1>4. CASE Wake
  <2>1. /\ loop = "sleep" /\ loop' \in {"reset", "handles"}
        /\ events' \subseteq polled /\ UNCHANGED <<polled, freed>>
    BY <1>4 DEF Wake
  <2> QED BY <2>1 DEF PolledInv
<1>5. CASE Reset \/ ReadPipe
  <2>1. /\ loop \in {"reset", "read"} /\ loop' \in {"read", "handles"}
        /\ UNCHANGED <<polled, freed, events>>
    BY <1>5 DEF Reset, ReadPipe
  <2> QED BY <2>1 DEF PolledInv
<1>6. CASE DispatchHandle
  <2>1. PICK fd \in events :
          /\ events' = events \ {fd}
          /\ \/ current' = [kind |-> "handle", opaque |-> fd] /\ loop' = "call"
             \/ UNCHANGED <<current, loop>>
    BY <1>6 DEF DispatchHandle
  <2>2. loop = "handles" /\ UNCHANGED <<polled, freed>>
    BY <1>6 DEF DispatchHandle
  <2> QED BY <2>1, <2>2 DEF PolledInv
<1>7. CASE BeginTimers
  BY <1>7 DEF BeginTimers, PolledInv
<1>8. CASE NextTimer
  <2>1. PICK i \in todo :
          \/ current' = [kind |-> "timer", opaque |-> i.opaque] /\ loop' = "call"
          \/ UNCHANGED <<current, loop>>
    BY <1>8 DEF NextTimer
  <2>2. loop = "timers" /\ UNCHANGED <<polled, freed, events>>
    BY <1>8 DEF NextTimer
  <2> QED BY <2>1, <2>2 DEF PolledInv
<1>9. CASE CallReturns
  <2>1. /\ loop = "call" /\ loop' \in {"handles", "timers"}
        /\ UNCHANGED <<polled, freed, events>>
    BY <1>9 DEF CallReturns
  <2> QED BY <2>1 DEF PolledInv
<1>10. CASE Start \/ Free \/ Clear \/ NextTimeout \/ Finish
  <2>1. loop' \in {"start", "free", "clear", "timeout", "poll"}
    BY <1>10 DEF Start, Free, Clear, NextTimeout, Finish
  <2> QED BY <2>1 DEF PolledInv
<1>11. CASE UNCHANGED vars
  BY <1>1, <1>11 DEF vars
<1> QED
  BY <1>2, <1>3, <1>4, <1>5, <1>6, <1>7, <1>8, <1>9, <1>10, <1>11
     DEF Next, LoopStep, Waiting

\* No handle is dispatched with an opaque that was freed, however removals,
\* updates and clean-ups interleave with poll() and the dispatch.
THEOREM HandlesDieAfterDispatch == Spec => []HandleOpaqueAlive
<1> DEFINE IInv == TypeOK /\ AliveInv /\ PolledInv
<1>1. Init => IInv
  <2>1. Init => Gone = {} /\ Registering = {}
    BY DEF Init, Gone, Registering
  <2>2. Init => AliveInv /\ PolledInv
    BY <2>1 DEF Init, AliveInv, PolledInv
  <2> QED BY <2>2, TypeStart
<1>2. IInv /\ [Next]_vars => IInv'
  BY TypeStep, AliveStep, PolledStep
<1>3. IInv => HandleOpaqueAlive
  <2> SUFFICES ASSUME IInv, loop = "call", current.kind = "handle"
               PROVE  current \notin freed
    BY DEF HandleOpaqueAlive
  <2>1. current = [kind |-> "handle", opaque |-> current.opaque]
    BY DEF TypeOK, Ref
  <2> QED BY <2>1 DEF PolledInv
<1> QED BY <1>1, <1>2, <1>3, PTL DEF Spec
=============================================================================
