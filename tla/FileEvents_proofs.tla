-------------------------- MODULE FileEvents_proofs --------------------------
(***************************************************************************)
(* Theorems about FileEvents, for any images, pools and bounds: the types, *)
(* the agreement of image files and their objects when the observer has    *)
(* nothing left to do, and the two promises of a handler's push.           *)
(***************************************************************************)
EXTENDS FileEvents, TLAPS

VmPcs == {"vm_xml", "vm_create", "vm_get", "vm_read", "vm_put"}
ImgPcs == {"img_xml", "img_create", "img_clear", "img_delete"}
Reads == [host: {Me, Other}, rev: Nat, ver: Nat]

\* A handler of an image file has an event with an image.
Busy ==
    /\ handler.pc \in ImgPcs => handler.ev \in ImgEvents
    /\ handler.pc = "idle" => handler.ev = NoEvent
    /\ handler.pc \in VmPcs => handler.ev \in VmEvents

Typed == TypeOK /\ Busy

-----------------------------------------------------------------------------
(* Lemmas about the helpers.                                                 *)

LEMMA EventsApart ==
    /\ \A e \in VmEvents : e.on \in {"vm_moved", "vm_modified", "vm_deleted"}
    /\ \A e \in ImgEvents : /\ e.on \in {"img_created", "img_moved", "img_deleted"}
                            /\ e.img \in Images
    /\ \A i \in Images, on \in {"img_created", "img_moved", "img_deleted"} :
          /\ ImgEv(on, i) \in ImgEvents
          /\ ImgEv(on, i).on = on /\ ImgEv(on, i).img = i
    /\ \A on \in {"vm_moved", "vm_modified", "vm_deleted"} :
          Ev(on) \in VmEvents /\ Ev(on).on = on
    /\ NoEvent.on = "none"
  BY DEF VmEvents, ImgEvents, ImgEv, Ev, NoEvent

\* A spent budget is smaller, the others are as they were.
LEMMA SpendLess ==
    ASSUME left \in [Budgets -> Nat], NEW b \in Budgets, Spend(b)
    PROVE  /\ left' \in [Budgets -> Nat]
           /\ \A c \in Budgets : left'[c] <= left[c]
           /\ left'[b] < left[b]
  BY DEF Spend

\* The handler goes on with a typed read.
LEMMA ToTyped ==
    ASSUME Typed, NEW pc, NEW read, To(pc, read), read \in Reads,
           \/ handler.pc \in VmPcs /\ pc \in VmPcs
           \/ handler.pc \in ImgPcs /\ pc \in ImgPcs
    PROVE  /\ handler' \in [pc: {"idle"} \cup VmPcs \cup ImgPcs,
                            ev: VmEvents \cup ImgEvents \cup {NoEvent},
                            read: Reads]
           /\ Busy'
           /\ handler'.pc = pc /\ handler'.ev = handler.ev /\ handler'.read = read
  BY DEF To, Typed, TypeOK, Busy, VmPcs, ImgPcs, Reads

\* The handler ends.
LEMMA DoneTyped ==
    ASSUME Done
    PROVE  /\ handler' = Idle
           /\ handler' \in [pc: {"idle"} \cup VmPcs \cup ImgPcs,
                            ev: VmEvents \cup ImgEvents \cup {NoEvent},
                            read: Reads]
           /\ Busy'
  BY DEF Done, Idle, NoRead, Me, Busy, VmPcs, ImgPcs, Reads

Handlers == [pc: {"idle"} \cup VmPcs \cup ImgPcs,
             ev: VmEvents \cup ImgEvents \cup {NoEvent}, read: Reads]

LEMMA HandlersAre ==
    Handlers = [pc: {"idle", "vm_xml", "vm_create", "vm_get", "vm_read",
                     "vm_put", "img_xml", "img_create", "img_clear",
                     "img_delete"},
                ev: VmEvents \cup ImgEvents \cup {NoEvent},
                read: [host: {Me, Other}, rev: Nat, ver: Nat]]
  <1>1. {"idle"} \cup VmPcs \cup ImgPcs =
            {"idle", "vm_xml", "vm_create", "vm_get", "vm_read", "vm_put",
             "img_xml", "img_create", "img_clear", "img_delete"}
    BY DEF VmPcs, ImgPcs
  <1> QED BY <1>1 DEF Handlers, Reads

Objs == [here: BOOLEAN, host: {Me, Other}, rev: Nat, ver: Nat]

\* The parts of the types, with the handler's in one name.
LEMMA Parts ==
    TypeOK <=>
        /\ def \in [on: BOOLEAN, ver: Nat]
        /\ obj \in Objs
        /\ files \subseteq Images /\ imgObj \subseteq Images /\ doomed \subseteq Images
        /\ queue \in Seq(VmEvents \cup ImgEvents)
        /\ handler \in Handlers
        /\ alive \in BOOLEAN /\ missed \in BOOLEAN
        /\ pools \in [Pools -> Contents]
        /\ scan \in [pc: {"list", "filter", "unschedule", "schedule"},
                     found: SUBSET Pools]
        /\ watched \subseteq Pools
        /\ left \in [Budgets -> Nat]
  BY HandlersAre DEF TypeOK, Objs

LEMMA PartsNext ==
    ASSUME def' \in [on: BOOLEAN, ver: Nat],
           obj' \in Objs,
           files' \subseteq Images, imgObj' \subseteq Images, doomed' \subseteq Images,
           queue' \in Seq(VmEvents \cup ImgEvents),
           handler' \in Handlers,
           alive' \in BOOLEAN, missed' \in BOOLEAN,
           pools' \in [Pools -> Contents],
           scan' \in [pc: {"list", "filter", "unschedule", "schedule"},
                      found: SUBSET Pools],
           watched' \subseteq Pools,
           left' \in [Budgets -> Nat]
    PROVE  TypeOK'
  BY HandlersAre DEF TypeOK, Objs

-----------------------------------------------------------------------------
(* Types.                                                                    *)

LEMMA InitTyped == Init => Typed
  <1> SUFFICES ASSUME Init PROVE Typed
    OBVIOUS
  <1>1. handler \in Handlers /\ Busy
    BY DEF Init, Idle, NoRead, Me, Handlers, Reads, Busy, VmPcs, ImgPcs
  <1>2. def \in [on: BOOLEAN, ver: Nat]
    <2> DEFINE On == IF scope = "vm" THEN BOOLEAN ELSE {FALSE}
    <2>1. On \subseteq BOOLEAN
      OBVIOUS
    <2>2. def \in [on: On, ver: {1}]
      BY DEF Init
    <2> HIDE DEF On
    <2> QED BY <2>1, <2>2
  <1>6. obj \in Objs
    <2> DEFINE Here == [here |-> TRUE, host |-> Me, rev |-> 1, ver |-> 1]
    <2>1. obj = Here \/ obj = NoObj
      BY Zenon DEF Init
    <2>2. Here \in Objs /\ NoObj \in Objs
      BY DEF NoObj, Objs, Me
    <2> QED BY <2>1, <2>2, Zenon
  <1>3. left \in [Budgets -> Nat]
    BY BoundsAssumption DEF Init, Full, Budgets
  <1>4. scan \in [pc: {"list", "filter", "unschedule", "schedule"},
                  found: SUBSET Pools]
    BY DEF Init, FreshScan
  <1>5. /\ files \subseteq Images /\ imgObj \subseteq Images /\ doomed \subseteq Images
        /\ queue \in Seq(VmEvents \cup ImgEvents)
        /\ alive \in BOOLEAN /\ missed \in BOOLEAN
        /\ watched \subseteq Pools
    <2>1. files \in IF scope = "images" THEN SUBSET Images ELSE {{}}
      BY Zenon DEF Init
    <2>2. files \subseteq Images
      BY <2>1
    <2>3. imgObj = files /\ doomed = {} /\ queue = <<>> /\ watched = {}
      BY DEF Init
    <2>4. alive \in BOOLEAN /\ missed \in BOOLEAN
      BY Zenon DEF Init
    <2>5. queue \in Seq(VmEvents \cup ImgEvents)
      BY <2>3
    <2> QED BY <2>2, <2>3, <2>4, <2>5
  <1>7. pools \in [Pools -> Contents]
    <2>1. /\ pools \in [Pools -> IF scope = "pools" THEN {"absent", "vmd"} ELSE {"absent"}]
      BY DEF Init
    <2> QED BY <2>1 DEF Contents
  <1> QED BY <1>1, <1>2, <1>3, <1>4, <1>5, <1>6, <1>7, Parts DEF Typed

\* What a step of the observer leaves alone beside its own variables.
LEMMA ObserverFrame ==
    ASSUME Observer
    PROVE  UNCHANGED <<def, files, doomed, poolVars, scope>>
  BY DEF Observer, Dispatch, VmXml, VmCreate, VmGet, VmRead, VmPut, ImgXml,
         ImgCreate, ImgClear, ImgDelete, FileStep, Created, Gone

LEMMA LeftOfObserver ==
    ASSUME Typed, Observer
    PROVE  left' \in [Budgets -> Nat] /\ \A c \in Budgets : left'[c] <= left[c]
  <1> USE DEF Typed
  <1>1. left \in [Budgets -> Nat]
    BY Parts
  <1>2. {"refusals", "unreachable"} \subseteq Budgets
    BY DEF Budgets
  <1>3. UNCHANGED left \/ Spend("refusals") \/ Spend("unreachable")
    BY DEF Observer, Dispatch, VmXml, VmCreate, VmGet, VmRead, VmPut, ImgXml,
           ImgCreate, ImgClear, ImgDelete, Created, Gone
  <1> QED BY <1>1, <1>2, <1>3, SpendLess

LEMMA ObjEdits ==
    \A o \in Objs, n, v \in Nat :
        /\ [o EXCEPT !.rev = n] \in Objs
        /\ [o EXCEPT !.rev = n, !.ver = v] \in Objs
        /\ [o EXCEPT !.rev = n, !.host = Other] \in Objs
        /\ [o EXCEPT !.here = FALSE] \in Objs
  BY DEF Objs, Other

\* The object a handler leaves is typed.
LEMMA PutTyped ==
    ASSUME obj \in Objs, NEW r \in Reads, Put(r) \/ Report \/ UNCHANGED obj
    PROVE  obj' \in Objs
  <1> DEFINE Pushed == [obj EXCEPT !.rev = obj.rev + 1, !.ver = r.ver]
             Reported == [obj EXCEPT !.rev = obj.rev + 1]
  <1>1. obj' = Pushed \/ obj' = Reported \/ obj' = obj
    BY Zenon DEF Put, Report, Described
  <1>2. obj.rev + 1 \in Nat /\ r.ver \in Nat
    BY DEF Objs, Reads
  <1>3. Pushed \in Objs /\ Reported \in Objs
    BY <1>2, ObjEdits, Zenon
  <1> QED BY <1>1, <1>2, <1>3, Zenon

LEMMA ObserverTyped == ASSUME Typed, Observer PROVE Typed'
  <1> USE DEF Typed
  <1>0. /\ obj \in Objs /\ def \in [on: BOOLEAN, ver: Nat] /\ handler \in Handlers
        /\ queue \in Seq(VmEvents \cup ImgEvents)
        /\ files \subseteq Images /\ imgObj \subseteq Images
        /\ alive \in BOOLEAN /\ missed \in BOOLEAN
        /\ pools \in [Pools -> Contents] /\ doomed \subseteq Images
        /\ scan \in [pc: {"list", "filter", "unschedule", "schedule"},
                     found: SUBSET Pools]
        /\ watched \subseteq Pools
    BY Parts
  <1>1. handler.read \in Reads /\ handler.read.ver \in Nat /\ handler.read.rev \in Nat
    BY <1>0 DEF Handlers, Reads
  <1>2. alive' \in BOOLEAN /\ missed' \in BOOLEAN
    BY <1>0 DEF Observer, Dispatch, VmXml, VmCreate, VmGet, VmRead, VmPut, ImgXml,
           ImgCreate, ImgClear, ImgDelete, FileStep, Dies, Created, Gone
  <1>3. SUFFICES obj' \in Objs /\ imgObj' \subseteq Images /\ handler' \in Handlers
                 /\ Busy' /\ queue' \in Seq(VmEvents \cup ImgEvents)
    <2>1. UNCHANGED <<def, files, doomed, poolVars>> /\ left' \in [Budgets -> Nat]
      BY ObserverFrame, LeftOfObserver
    <2> QED BY <1>0, <1>2, <1>3, <2>1, PartsNext DEF poolVars
  <1>4. CASE Dispatch
    <2>1. queue # <<>> /\ Head(queue) \in VmEvents \cup ImgEvents
          /\ Tail(queue) \in Seq(VmEvents \cup ImgEvents)
      BY <1>0, <1>4 DEF Dispatch
    <2>2. UNCHANGED <<obj, imgObj>> /\ queue' = Tail(queue)
      BY <1>4 DEF Dispatch
    <2>3. NoRead \in Reads
      BY DEF NoRead, Reads, Me
    <2>4. handler' \in Handlers /\ Busy'
      <3> DEFINE ev == Head(queue)
      <3>1. \/ /\ ev \in VmEvents
               /\ \E pc \in VmPcs : handler' = [pc |-> pc, ev |-> ev, read |-> NoRead]
            \/ Done
            \/ /\ ev \in ImgEvents
               /\ \E pc \in ImgPcs : handler' = [pc |-> pc, ev |-> ev, read |-> NoRead]
        BY <1>4, <2>1, EventsApart DEF Dispatch, Dies, VmPcs, ImgPcs
      <3>2. CASE Done
        BY <3>2, DoneTyped DEF Handlers
      <3>3. CASE /\ ev \in VmEvents
                 /\ \E pc \in VmPcs : handler' = [pc |-> pc, ev |-> ev, read |-> NoRead]
        BY <3>3, <2>3 DEF Handlers, Busy, VmPcs, ImgPcs
      <3>4. CASE /\ ev \in ImgEvents
                 /\ \E pc \in ImgPcs : handler' = [pc |-> pc, ev |-> ev, read |-> NoRead]
        BY <3>4, <2>3 DEF Handlers, Busy, VmPcs, ImgPcs
      <3> QED BY <3>1, <3>2, <3>3, <3>4
    <2> QED BY <1>0, <2>1, <2>2, <2>4
  <1>5. CASE VmXml
    <2>1. [NoRead EXCEPT !.ver = def.ver] \in Reads
      BY <1>0 DEF NoRead, Reads, Me
    <2>2. handler' \in Handlers /\ Busy'
      BY <1>5, <2>1, ToTyped, DoneTyped DEF VmXml, Handlers, VmPcs
    <2>3. obj' \in Objs
      BY <1>0, <1>1, <1>5, PutTyped DEF VmXml
    <2> QED BY <1>0, <1>5, <2>2, <2>3 DEF VmXml, FileStep
  <1>6. CASE VmCreate
    <2> DEFINE New == [here |-> TRUE, host |-> Me, rev |-> obj.rev + 1,
                       ver |-> handler.read.ver]
    <2>0. obj' = New \/ obj' = obj
      BY <1>6, Zenon DEF VmCreate, Created
    <2>01. New \in Objs
      BY <1>0, <1>1 DEF Objs, Me
    <2>1. obj' \in Objs
      BY <1>0, <2>0, <2>01, Zenon
    <2> QED BY <1>0, <1>6, <2>1, DoneTyped DEF VmCreate, FileStep, Handlers, Created
  <1>7. CASE VmGet
    <2>1. [host |-> obj.host, rev |-> obj.rev, ver |-> 0] \in Reads
      BY <1>0 DEF Reads, Objs
    <2>2. handler' \in Handlers /\ Busy'
      BY <1>7, <2>1, ToTyped, DoneTyped DEF VmGet, Handlers, VmPcs, Dies
    <2> QED BY <1>0, <1>7, <2>2 DEF VmGet, FileStep
  <1>8. CASE VmRead
    <2>1. [handler.read EXCEPT !.ver = def.ver] \in Reads
      BY <1>0, <1>1 DEF Reads
    <2>2. handler' \in Handlers /\ Busy'
      BY <1>8, <2>1, ToTyped, DoneTyped DEF VmRead, Handlers, VmPcs
    <2>3. obj' \in Objs
      BY <1>0, <1>1, <1>8, PutTyped DEF VmRead
    <2> QED BY <1>0, <1>8, <2>2, <2>3 DEF VmRead, FileStep
  <1>9. CASE VmPut
    <2>1. obj' \in Objs
      BY <1>0, <1>1, <1>9, PutTyped DEF VmPut
    <2> QED BY <1>0, <1>9, <2>1, DoneTyped DEF VmPut, FileStep, Handlers
  <1>10. CASE ImgXml
    <2>1. NoRead \in Reads
      BY DEF NoRead, Reads, Me
    <2>2. handler' \in Handlers /\ Busy'
      BY <1>10, <2>1, ToTyped, DoneTyped DEF ImgXml, Handlers, ImgPcs
    <2> QED BY <1>0, <1>10, <2>2 DEF ImgXml, FileStep
  <1>11. CASE ImgCreate
    <2>1. handler.ev.img \in Images
      BY <1>11, EventsApart DEF ImgCreate, Busy, ImgPcs
    <2> QED BY <1>0, <1>11, <2>1, DoneTyped DEF ImgCreate, FileStep, Handlers
  <1>12. CASE ImgClear
    <2>1. NoRead \in Reads
      BY DEF NoRead, Reads, Me
    <2>2. handler' \in Handlers /\ Busy'
      BY <1>12, <2>1, ToTyped DEF ImgClear, Handlers, ImgPcs
    <2> QED BY <1>0, <1>12, <2>2 DEF ImgClear, FileStep
  <1>13. CASE ImgDelete
    BY <1>0, <1>13, DoneTyped DEF ImgDelete, FileStep, Handlers, Gone
  <1> QED
    BY <1>4, <1>5, <1>6, <1>7, <1>8, <1>9, <1>10, <1>11, <1>12, <1>13 DEF Observer

LEMMA MainTyped == ASSUME Typed, Main PROVE Typed'
  <1> USE DEF Typed
  <1>0. /\ pools \in [Pools -> Contents] /\ left \in [Budgets -> Nat]
        /\ scan \in [pc: {"list", "filter", "unschedule", "schedule"},
                     found: SUBSET Pools]
        /\ watched \subseteq Pools
    BY Parts
  <1>1. UNCHANGED <<fileVars, pools>>
    BY DEF Main, ListPools, Filter, Unschedule, Schedule, PoolStep
  <1>2. Busy'
    BY <1>1 DEF Busy, fileVars
  <1>3. left' \in [Budgets -> Nat]
    <2>1. UNCHANGED left \/ Spend("unreachable")
      BY DEF Main, ListPools, Filter, Unschedule, Schedule
    <2> QED BY <1>0, <2>1, SpendLess DEF Budgets
  <1>4. Present \subseteq Pools
    BY DEF Present
  <1>5. /\ scan' \in [pc: {"list", "filter", "unschedule", "schedule"},
                      found: SUBSET Pools]
        /\ watched' \subseteq Pools
    <2>1. CASE ListPools
      BY <1>0, <1>4, <2>1 DEF ListPools
    <2>2. CASE Filter
      <3>1. scan' = FreshScan \/ scan' = [scan EXCEPT !.pc = "unschedule"]
        BY <2>2, Zenon DEF Filter
      <3> QED BY <1>0, <2>2, <3>1 DEF Filter, FreshScan
    <2>3. CASE Unschedule
      BY <1>0, <2>3 DEF Unschedule
    <2>4. CASE Schedule
      BY <1>0, <2>4 DEF Schedule, FreshScan
    <2> QED BY <2>1, <2>2, <2>3, <2>4 DEF Main
  <1>6.
        /\ def \in [on: BOOLEAN, ver: Nat] /\ obj \in Objs
        /\ files \subseteq Images /\ imgObj \subseteq Images /\ doomed \subseteq Images
        /\ queue \in Seq(VmEvents \cup ImgEvents)
        /\ handler \in Handlers
        /\ alive \in BOOLEAN /\ missed \in BOOLEAN
    BY Parts
  <1> QED BY <1>0, <1>1, <1>2, <1>3, <1>5, <1>6, PartsNext DEF fileVars

\* Events that are told to a watcher.
LEMMA NotifyTyped ==
    ASSUME queue \in Seq(VmEvents \cup ImgEvents),
           NEW e \in VmEvents \cup ImgEvents, Notify(<<e>>)
    PROVE  queue' \in Seq(VmEvents \cup ImgEvents)
  <1>1. queue' = queue \o <<e>> \/ queue' = queue
    BY Zenon DEF Notify
  <1>2. queue \o <<e>> \in Seq(VmEvents \cup ImgEvents)
    OBVIOUS
  <1> QED BY <1>1, <1>2, Zenon

LEMMA LoseTyped == ASSUME Lose PROVE missed' \in BOOLEAN
  BY Zenon DEF Lose

LEMMA DefMoved ==
    \A d \in [on: BOOLEAN, ver: Nat] :
        [on |-> TRUE, ver |-> d.ver + 1] \in [on: BOOLEAN, ver: Nat]
  OBVIOUS

LEMMA DefChanged ==
    \A d \in [on: BOOLEAN, ver: Nat] :
        [d EXCEPT !.ver = d.ver + 1] \in [on: BOOLEAN, ver: Nat]
  OBVIOUS

LEMMA DefGone ==
    \A d \in [on: BOOLEAN, ver: Nat] :
        [d EXCEPT !.on = FALSE] \in [on: BOOLEAN, ver: Nat]
  OBVIOUS

LEMMA OthersTyped == ASSUME Typed, Others PROVE Typed'
  <1> USE DEF Typed
  <1>0. /\ def \in [on: BOOLEAN, ver: Nat] /\ obj \in Objs
        /\ files \subseteq Images /\ imgObj \subseteq Images /\ doomed \subseteq Images
        /\ queue \in Seq(VmEvents \cup ImgEvents)
        /\ handler \in Handlers
        /\ alive \in BOOLEAN /\ missed \in BOOLEAN
        /\ pools \in [Pools -> Contents]
        /\ scan \in [pc: {"list", "filter", "unschedule", "schedule"},
                     found: SUBSET Pools]
        /\ watched \subseteq Pools /\ left \in [Budgets -> Nat]
    BY Parts
  <1>1. /\ UNCHANGED <<scan, watched, handler, alive>>
        /\ left' \in [Budgets -> Nat]
    BY <1>0, SpendLess DEF Others, Budgets, ChangePools, fileVars
  <1>2. Busy'
    BY <1>1 DEF Busy
  <1>3. SUFFICES /\ def' \in [on: BOOLEAN, ver: Nat] /\ obj' \in Objs
                 /\ files' \subseteq Images /\ imgObj' \subseteq Images
                 /\ doomed' \subseteq Images
                 /\ queue' \in Seq(VmEvents \cup ImgEvents)
                 /\ missed' \in BOOLEAN /\ pools' \in [Pools -> Contents]
    BY <1>0, <1>1, <1>2, PartsNext
  <1>4. CASE ChangeVm /\ UNCHANGED pools
    <2>1. def' \in [on: BOOLEAN, ver: Nat]
      <3>1. \/ def' = [on |-> TRUE, ver |-> def.ver + 1]
            \/ def' = [def EXCEPT !.ver = def.ver + 1]
            \/ def' = [def EXCEPT !.on = FALSE]
        BY <1>4, Zenon DEF ChangeVm
      <3> QED BY <1>0, <3>1, DefMoved, DefChanged, DefGone, Zenon
    <2>2. queue' \in Seq(VmEvents \cup ImgEvents)
      BY <1>0, <1>4, EventsApart, NotifyTyped DEF ChangeVm
    <2> QED BY <1>0, <1>4, <2>1, <2>2, LoseTyped DEF ChangeVm
  <1>5. CASE ChangeObj /\ UNCHANGED pools
    <2>1. \/ obj' = [obj EXCEPT !.rev = obj.rev + 1, !.ver = def.ver]
          \/ obj' = [obj EXCEPT !.rev = obj.rev + 1, !.host = Other]
          \/ obj' = [obj EXCEPT !.here = FALSE]
      BY <1>5, Zenon DEF ChangeObj
    <2>2. obj.rev + 1 \in Nat /\ def.ver \in Nat
      BY <1>0 DEF Objs
    <2>3. obj' \in Objs
      <3>1. CASE obj' = [obj EXCEPT !.rev = obj.rev + 1, !.ver = def.ver]
        BY <1>0, <2>2, <3>1, ObjEdits
      <3>2. CASE obj' = [obj EXCEPT !.rev = obj.rev + 1, !.host = Other]
        BY <1>0, <2>2, <3>2, ObjEdits
      <3>3. CASE obj' = [obj EXCEPT !.here = FALSE]
        BY <1>0, <3>3, ObjEdits
      <3> QED BY <2>1, <3>1, <3>2, <3>3, Zenon
    <2> QED BY <1>0, <1>5, <2>3 DEF ChangeObj
  <1>6. CASE ChangeImages /\ UNCHANGED pools
    <2>1. PICK i \in Images, on \in {"img_created", "img_deleted"} :
             /\ Notify(<<ImgEv(on, i)>>) /\ Lose
             /\ files' \in {files \cup {i}, files \ {i}}
             /\ doomed' \in {doomed, doomed \cup {i}}
             /\ UNCHANGED imgObj
      BY <1>6 DEF ChangeImages
    <2>2. queue' \in Seq(VmEvents \cup ImgEvents)
      BY <1>0, <2>1, EventsApart, NotifyTyped
    <2> QED BY <1>0, <1>6, <2>1, <2>2, LoseTyped DEF ChangeImages
  <1>7. CASE RenameImage /\ UNCHANGED pools
    <2>1. queue' \in Seq(VmEvents \cup ImgEvents)
      BY <1>0, <1>7, EventsApart, NotifyTyped DEF RenameImage
    <2>2. missed' \in BOOLEAN
      BY <1>7, Zenon DEF RenameImage
    <2> QED BY <1>0, <1>7, <2>1, <2>2 DEF RenameImage
  <1>8. CASE ChangePools
    BY <1>0, <1>8 DEF ChangePools, fileVars
  <1> QED BY <1>4, <1>5, <1>6, <1>7, <1>8 DEF Others

LEMMA RestTyped == ASSUME Typed, VirshplusEnds \/ Crash PROVE Typed'
  <1> USE DEF Typed
  <1>0. /\ def \in [on: BOOLEAN, ver: Nat] /\ obj \in Objs
        /\ files \subseteq Images /\ imgObj \subseteq Images /\ doomed \subseteq Images
        /\ queue \in Seq(VmEvents \cup ImgEvents)
        /\ handler \in Handlers
        /\ alive \in BOOLEAN /\ missed \in BOOLEAN
        /\ pools \in [Pools -> Contents]
        /\ scan \in [pc: {"list", "filter", "unschedule", "schedule"},
                     found: SUBSET Pools]
        /\ watched \subseteq Pools /\ left \in [Budgets -> Nat]
    BY Parts
  <1>1. CASE VirshplusEnds
    <2>1. UNCHANGED <<def, obj, files, queue, handler, alive, missed, pools, scan,
                      watched, left>>
      BY <1>1 DEF VirshplusEnds, poolVars
    <2>2. doomed' \subseteq Images /\ imgObj' \subseteq Images
      BY <1>0, <1>1 DEF VirshplusEnds
    <2>3. Busy'
      BY <2>1 DEF Busy
    <2> QED BY <1>0, <2>1, <2>2, <2>3, PartsNext
  <1>2. CASE Crash
    <2>1. UNCHANGED <<def, obj, files, imgObj, doomed, pools>>
      BY <1>2 DEF Crash
    <2>2. left' \in [Budgets -> Nat]
      BY <1>0, <1>2, SpendLess DEF Crash, Budgets
    <2>3. handler' \in Handlers /\ Busy'
      BY <1>2, DoneTyped DEF Crash, Done, Handlers
    <2>4. alive' \in BOOLEAN /\ missed' \in BOOLEAN
      BY <1>2, Zenon DEF Crash
    <2>5. queue' \in Seq(VmEvents \cup ImgEvents) /\ watched' \subseteq Pools
          /\ scan' \in [pc: {"list", "filter", "unschedule", "schedule"},
                        found: SUBSET Pools]
      BY <1>2 DEF Crash, FreshScan
    <2> QED BY <1>0, <2>1, <2>2, <2>3, <2>4, <2>5, PartsNext
  <1> QED BY <1>1, <1>2

LEMMA NextTyped == ASSUME Typed, [Next]_vars PROVE Typed'
  <1>1. CASE UNCHANGED vars
    <2>1. UNCHANGED <<def, obj, files, imgObj, doomed, queue, handler, alive,
                      missed, pools, scan, watched, left>>
      BY <1>1 DEF vars, fileVars, poolVars
    <2> QED BY <2>1, Parts, PartsNext DEF Typed, Busy
  <1> QED
    BY <1>1, ObserverTyped, MainTyped, OthersTyped, RestTyped DEF Next

\* The types of all variables, for any images, pools and bounds.
THEOREM TypeCorrect == Spec => []TypeOK
  <1>1. Typed /\ [Next]_vars => Typed'
    BY NextTyped
  <1>2. Spec => []Typed
    BY <1>1, InitTyped, PTL DEF Spec
  <1> QED BY <1>2, PTL DEF Typed


-----------------------------------------------------------------------------
(* The two promises of a push.                                               *)

\* What the handler has read is never ahead of the definition, and as long as
\* the object is the one it read, the object is this node's and not newer than
\* what the handler is about to write.
Order ==
    /\ obj.ver <= def.ver
    /\ handler.read.ver <= def.ver
    /\ handler.pc \in {"vm_read", "vm_put"} =>
          /\ handler.read.rev <= obj.rev
          /\ obj.rev = handler.read.rev => obj.host = Me
    /\ handler.pc = "vm_put" /\ obj.rev = handler.read.rev =>
          obj.ver <= handler.read.ver

Numbers ==
    /\ obj.ver \in Nat /\ obj.rev \in Nat /\ def.ver \in Nat
    /\ handler.read.ver \in Nat /\ handler.read.rev \in Nat

LEMMA TypedNumbers == Typed => Numbers /\ obj \in Objs /\ handler \in Handlers
                               /\ def \in [on: BOOLEAN, ver: Nat]
  <1> SUFFICES ASSUME Typed PROVE Numbers /\ obj \in Objs /\ handler \in Handlers
                                  /\ def \in [on: BOOLEAN, ver: Nat]
    OBVIOUS
  <1>1. obj \in Objs /\ handler \in Handlers /\ def \in [on: BOOLEAN, ver: Nat]
    BY Parts DEF Typed
  <1> QED BY <1>1 DEF Numbers, Objs, Handlers, Reads

LEMMA InitOrdered == Init => Order
  <1> SUFFICES ASSUME Init PROVE Order
    OBVIOUS
  <1>1. obj = [here |-> TRUE, host |-> Me, rev |-> 1, ver |-> 1] \/ obj = NoObj
    BY Zenon DEF Init
  <1>2. obj.ver <= 1
    BY <1>1 DEF NoObj
  <1>3. def.ver = 1
    <2> DEFINE On == IF scope = "vm" THEN BOOLEAN ELSE {FALSE}
    <2>1. def \in [on: On, ver: {1}]
      BY DEF Init
    <2> HIDE DEF On
    <2> QED BY <2>1
  <1>4. handler = Idle
    BY DEF Init
  <1> QED BY <1>2, <1>3, <1>4 DEF Order, Idle, NoRead

\* A handler that has ended or has not read the object yet.
LEMMA FreshOrdered ==
    ASSUME Order, Numbers, def' = def,
           handler'.pc \notin {"vm_read", "vm_put"},
           handler'.read.ver \in {0, def.ver},
           obj'.ver \in {obj.ver, handler.read.ver}
    PROVE  Order'
  BY DEF Order, Numbers

\* The handler is where it was; the definition is not older.
LEMMA OutsideOrdered ==
    ASSUME Order, Numbers, handler' = handler,
           def'.ver \in Nat, def'.ver >= def.ver,
           \/ /\ obj'.rev = obj.rev /\ obj'.ver = obj.ver /\ obj'.host = obj.host
           \/ obj'.rev = obj.rev + 1 /\ obj'.ver \in {obj.ver, def.ver}
    PROVE  Order'
  BY DEF Order, Numbers

LEMMA IdleIsFresh ==
    ASSUME handler' = Idle
    PROVE  handler'.pc = "idle" /\ handler'.read.ver = 0
  BY DEF Idle, NoRead

LEMMA ObserverOrdered == ASSUME Typed, Order, Observer PROVE Order'
  <1>0. Numbers /\ obj \in Objs /\ handler \in Handlers
        /\ def \in [on: BOOLEAN, ver: Nat]
    BY TypedNumbers
  <1>1. def' = def
    BY ObserverFrame
  <1>2. NoRead.ver = 0
    BY DEF NoRead
  <1>3. CASE Dispatch
    <2>1. obj' = obj
      BY <1>3 DEF Dispatch
    <2>2. \/ handler' = Idle
          \/ \E pc \in {"vm_xml", "vm_get", "img_xml", "img_clear"} : \E ev :
                handler' = [pc |-> pc, ev |-> ev, read |-> NoRead]
      BY <1>3, Zenon DEF Dispatch, Dies, Done
    <2>3. handler'.pc \notin {"vm_read", "vm_put"} /\ handler'.read.ver = 0
      BY <2>2, <1>2, IdleIsFresh
    <2> QED BY <1>0, <1>1, <2>1, <2>3, FreshOrdered
  <1>4. CASE VmXml
    <2>1. CASE To("vm_create", [NoRead EXCEPT !.ver = def.ver]) /\ UNCHANGED obj
      <3>1. handler'.pc = "vm_create" /\ handler'.read.ver = def.ver
        BY <1>0, <2>1 DEF To, Handlers, NoRead
      <3> QED BY <1>0, <1>1, <2>1, <3>1, FreshOrdered
    <2>2. CASE Report /\ Done
      <3>1. obj' = [obj EXCEPT !.rev = obj.rev + 1] \/ obj' = obj
        BY <2>2, Zenon DEF Report
      <3>2. obj'.ver = obj.ver
        BY <1>0, <3>1 DEF Objs
      <3> QED BY <1>0, <1>1, <2>2, <3>2, IdleIsFresh, FreshOrdered DEF Done
    <2> QED BY <1>4, <2>1, <2>2 DEF VmXml
  <1>5. CASE VmCreate
    <2>1. \/ obj' = obj
          \/ obj' = [here |-> TRUE, host |-> Me, rev |-> obj.rev + 1,
                     ver |-> handler.read.ver]
      BY <1>5, Zenon DEF VmCreate, Created
    <2>2. obj'.ver \in {obj.ver, handler.read.ver}
      BY <2>1
    <2> QED BY <1>0, <1>1, <1>5, <2>2, IdleIsFresh, FreshOrdered DEF VmCreate, Done, Created
  <1>6. CASE VmGet
    <2>1. obj' = obj
      BY <1>6 DEF VmGet
    <2>2. \/ handler' = Idle
          \/ /\ obj.host = Me
             /\ To("vm_read", [host |-> obj.host, rev |-> obj.rev, ver |-> 0])
      BY <1>6, Zenon DEF VmGet, Dies, Done
    <2>3. CASE handler' = Idle
      BY <1>0, <1>1, <2>1, <2>3, IdleIsFresh, FreshOrdered
    <2>4. CASE /\ obj.host = Me
               /\ To("vm_read", [host |-> obj.host, rev |-> obj.rev, ver |-> 0])
      <3>1. /\ handler'.pc = "vm_read" /\ handler'.read.ver = 0
            /\ handler'.read.rev = obj.rev
        BY <1>0, <2>4 DEF To, Handlers
      <3> QED BY <1>0, <1>1, <2>1, <2>4, <3>1 DEF Order, Numbers
    <2> QED BY <2>2, <2>3, <2>4
  <1>7. CASE VmRead
    <2>1. CASE To("vm_put", [handler.read EXCEPT !.ver = def.ver]) /\ UNCHANGED obj
      <3>1. /\ handler'.pc = "vm_put" /\ handler'.read.ver = def.ver
            /\ handler'.read.rev = handler.read.rev
        BY <1>0, <2>1 DEF To, Handlers, Reads
      <3>2. handler.pc = "vm_read"
        BY <1>7 DEF VmRead
      <3> QED BY <1>0, <1>1, <2>1, <3>1, <3>2 DEF Order, Numbers
    <2>2. CASE Report /\ Done
      <3>1. obj' = [obj EXCEPT !.rev = obj.rev + 1] \/ obj' = obj
        BY <2>2, Zenon DEF Report
      <3>2. obj'.ver = obj.ver
        BY <1>0, <3>1 DEF Objs
      <3> QED BY <1>0, <1>1, <2>2, <3>2, IdleIsFresh, FreshOrdered DEF Done
    <2> QED BY <1>7, <2>1, <2>2 DEF VmRead
  <1>8. CASE VmPut
    <2>1. \/ obj' = obj
          \/ obj' = [obj EXCEPT !.rev = obj.rev + 1, !.ver = handler.read.ver]
      BY <1>8, Zenon DEF VmPut, Put, Described
    <2>2. obj'.ver \in {obj.ver, handler.read.ver}
      BY <1>0, <2>1 DEF Objs
    <2> QED BY <1>0, <1>1, <1>8, <2>2, IdleIsFresh, FreshOrdered DEF VmPut, Done
  <1>9. CASE ImgXml \/ ImgCreate \/ ImgClear \/ ImgDelete
    <2>1. obj' = obj
      BY <1>9 DEF ImgXml, ImgCreate, ImgClear, ImgDelete, Gone
    <2>2. \/ handler' = Idle
          \/ \E pc \in {"img_create", "img_delete"} : To(pc, NoRead)
      BY <1>9, Zenon DEF ImgXml, ImgCreate, ImgClear, ImgDelete, Done, Gone
    <2>3. handler'.pc \notin {"vm_read", "vm_put"} /\ handler'.read.ver = 0
      BY <1>0, <1>2, <2>2, IdleIsFresh DEF To, Handlers
    <2> QED BY <1>0, <1>1, <2>1, <2>3, FreshOrdered
  <1> QED BY <1>3, <1>4, <1>5, <1>6, <1>7, <1>8, <1>9 DEF Observer

LEMMA NextOrdered == ASSUME Typed, Order, [Next]_vars PROVE Order'
  <1>0. Numbers /\ obj \in Objs /\ handler \in Handlers
        /\ def \in [on: BOOLEAN, ver: Nat]
    BY TypedNumbers
  <1>1. CASE UNCHANGED <<def, obj, handler>>
    BY <1>0, <1>1, OutsideOrdered DEF Numbers
  <1>2. CASE Main \/ VirshplusEnds \/ UNCHANGED vars
    BY <1>1, <1>2 DEF Main, ListPools, Filter, Unschedule, Schedule, PoolStep,
                      fileVars, VirshplusEnds, vars
  <1>3. CASE Crash
    BY <1>0, <1>3, IdleIsFresh, FreshOrdered DEF Crash
  <1>4. CASE Others
    <2>1. CASE ChangeImages \/ RenameImage \/ ChangePools
      <3>1. UNCHANGED <<def, obj, handler>>
        BY <1>4, <2>1 DEF Others, ChangeImages, RenameImage, ChangePools, fileVars
      <3> QED BY <1>1, <3>1
    <2>2. CASE ChangeVm /\ UNCHANGED handler
      <3>1. \/ def' = [on |-> TRUE, ver |-> def.ver + 1]
            \/ def' = [def EXCEPT !.ver = def.ver + 1]
            \/ def' = [def EXCEPT !.on = FALSE]
        BY <2>2, Zenon DEF ChangeVm
      <3>2. def'.ver \in {def.ver, def.ver + 1}
        BY <1>0, <3>1
      <3>3. def'.ver \in Nat /\ def'.ver >= def.ver
        BY <1>0, <3>2 DEF Numbers
      <3> QED BY <1>0, <2>2, <3>3, OutsideOrdered DEF ChangeVm
    <2>3. CASE ChangeObj /\ UNCHANGED handler
      <3>1. \/ obj' = [obj EXCEPT !.rev = obj.rev + 1, !.ver = def.ver]
            \/ obj' = [obj EXCEPT !.rev = obj.rev + 1, !.host = Other]
            \/ obj' = [obj EXCEPT !.here = FALSE]
        BY <2>3, Zenon DEF ChangeObj
      <3>2. \/ /\ obj'.rev = obj.rev /\ obj'.ver = obj.ver /\ obj'.host = obj.host
            \/ obj'.rev = obj.rev + 1 /\ obj'.ver \in {obj.ver, def.ver}
        BY <1>0, <3>1 DEF Objs
      <3> QED BY <1>0, <2>3, <3>2, OutsideOrdered DEF ChangeObj, Numbers
    <2> QED BY <1>4, <2>1, <2>2, <2>3 DEF Others
  <1> QED BY <1>2, <1>3, <1>4, ObserverOrdered DEF Next

LEMMA AlwaysOrdered == Spec => [](Typed /\ Order)
  <1>1. Init => Typed /\ Order
    BY InitTyped, InitOrdered
  <1>2. (Typed /\ Order) /\ [Next]_vars => (Typed /\ Order)'
    BY NextTyped, NextOrdered
  <1> QED BY <1>1, <1>2, PTL DEF Spec

\* What a step of the observer does to an object that exists.
LEMMA PushOfObserver ==
    ASSUME Typed, Observer, obj.here, obj'.ver # obj.ver
    PROVE  /\ handler.pc = "vm_put" /\ obj.rev = handler.read.rev
           /\ obj'.ver = handler.read.ver
  <1>0. obj \in Objs
    BY TypedNumbers
  <1>1. CASE Report
    <2>1. obj' = [obj EXCEPT !.rev = obj.rev + 1] \/ obj' = obj
      BY <1>1, Zenon DEF Report
    <2> QED BY <1>0, <2>1 DEF Objs
  <1>2. CASE VmPut
    <2>1. \/ obj' = obj
          \/ /\ obj.rev = handler.read.rev
             /\ obj' = [obj EXCEPT !.rev = obj.rev + 1, !.ver = handler.read.ver]
      BY <1>2, Zenon DEF VmPut, Put, Described
    <2> QED BY <1>0, <1>2, <2>1 DEF Objs, VmPut
  <1>3. CASE UNCHANGED obj
    BY <1>3
  <1>4. CASE VmCreate
    <2>1. obj' = obj
      BY <1>4, Zenon DEF VmCreate, Created
    <2> QED BY <2>1
  <1>5. Report \/ VmPut \/ VmCreate \/ UNCHANGED obj
    BY DEF Observer, Dispatch, VmXml, VmCreate, VmGet, VmRead, ImgXml, ImgCreate,
           ImgClear, ImgDelete, Created, Gone
  <1> QED BY <1>1, <1>2, <1>3, <1>4, <1>5

\* A push never replaces a later definition by an earlier one.
THEOREM DefinitionsNotOlder == Spec => DefinitionNotOlder
  <1>1. Typed /\ Order /\ [Next]_vars =>
            [Observer /\ obj.here => obj'.ver >= obj.ver]_vars
    <2> SUFFICES ASSUME Typed, Order, Observer, obj.here
                 PROVE  obj'.ver >= obj.ver
      OBVIOUS
    <2> QED BY PushOfObserver, TypedNumbers DEF Order, Numbers
  <1> QED BY <1>1, AlwaysOrdered, PTL DEF Spec, DefinitionNotOlder

\* A handler never changes an object that another node has taken over.
THEOREM ForeignObjectsKept == Spec => ForeignKept
  <1>1. Typed /\ Order /\ [Next]_vars =>
            [Observer /\ obj.here /\ obj.host = Other => obj'.ver = obj.ver]_vars
    <2> SUFFICES ASSUME Typed, Order, Observer, obj.here, obj.host = Other
                 PROVE  obj'.ver = obj.ver
      OBVIOUS
    <2> QED BY PushOfObserver DEF Order, Me, Other
  <1> QED BY <1>1, AlwaysOrdered, PTL DEF Spec, ForeignKept


-----------------------------------------------------------------------------
(* The agreement of image files and their objects.                           *)

\* Nothing was lost, refused or out of reach so far.
Calm ==
    /\ ~ missed
    /\ left["refusals"] = Full["refusals"]
    /\ left["unreachable"] = Full["unreachable"]

About(e, i) == e \in ImgEvents /\ e.img = i
Queued(i) == \E k \in 1..Len(queue) : About(queue[k], i)
Handled(i) == handler.pc \in ImgPcs /\ handler.ev.img = i

\* The last event about an image that waits tells whether it has a file; when
\* none waits, the one the handler works on does; when there is none either,
\* the object does.
Pending ==
    /\ doomed \cap files = {}
    /\ \A k \in 1..Len(queue), i \in Images :
          /\ About(queue[k], i)
          /\ \A l \in (k + 1)..Len(queue) : ~ About(queue[l], i)
          => (queue[k].on # "img_deleted" <=> i \in files)
    /\ handler.pc \in {"img_xml", "img_create"} => handler.ev.on # "img_deleted"
    /\ handler.pc \in {"img_clear", "img_delete"} => handler.ev.on = "img_deleted"
    /\ \A i \in Images :
          ~ Queued(i) /\ Handled(i) => (handler.ev.on # "img_deleted" <=> i \in files)
    /\ \A i \in Images :
          ~ Queued(i) /\ ~ Handled(i) => (i \in imgObj <=> i \in files)

Kept ==
    /\ \A b \in Budgets : left[b] <= Full[b]
    /\ ~ alive => missed
    /\ Calm => Pending

LEMMA InitKept == Init => Kept
  <1> SUFFICES ASSUME Init PROVE Kept
    OBVIOUS
  <1>1. left = Full /\ Full \in [Budgets -> Nat]
    BY BoundsAssumption DEF Init, Full, Budgets
  <1>2. alive
    BY Zenon DEF Init
  <1>3. queue = <<>> /\ handler = Idle /\ doomed = {} /\ imgObj = files
    BY DEF Init
  <1>4. Len(queue) = 0 /\ handler.pc = "idle"
    BY <1>3 DEF Idle
  <1>5. \A i \in Images : ~ Queued(i) /\ ~ Handled(i)
    BY <1>4 DEF Queued, Handled, ImgPcs
  <1>6. Pending
    BY <1>3, <1>4, <1>5 DEF Pending
  <1> QED BY <1>1, <1>2, <1>6 DEF Kept

\* What was calm after a step was calm before it, and no budget was used.
LEMMA CalmBefore ==
    ASSUME Typed, Kept, [Next]_vars
    PROVE  /\ \A b \in Budgets : left'[b] <= Full[b]
           /\ Calm' => /\ Calm /\ alive
                       /\ ~ Spend("refusals") /\ ~ Spend("unreachable")
                       /\ ~ missed'
  <1>0. left \in [Budgets -> Nat] /\ Full \in [Budgets -> Nat]
        /\ {"refusals", "unreachable", "moves", "crashes"} = Budgets
    BY Parts, BoundsAssumption DEF Typed, Full, Budgets
  <1>1. UNCHANGED left \/ \E b \in Budgets : Spend(b)
    BY <1>0 DEF Next, Observer, Main, Dispatch, VmXml, VmCreate, VmGet, VmRead,
           VmPut, ImgXml, ImgCreate, ImgClear, ImgDelete, ListPools, Filter,
           Unschedule, Schedule, Others, VirshplusEnds, Crash, vars, Created, Gone
  <1>2. \A b \in Budgets : left'[b] \in Nat /\ left[b] \in Nat /\ Full[b] \in Nat
                           /\ left'[b] <= left[b]
    BY <1>0, <1>1, SpendLess
  <1>3. \A b \in Budgets : left'[b] <= Full[b]
    BY <1>2 DEF Kept
  <1>4. missed => missed'
    BY Zenon DEF Next, Observer, Main, Dispatch, VmXml, VmCreate, VmGet, VmRead,
           VmPut, ImgXml, ImgCreate, ImgClear, ImgDelete, ListPools, Filter,
           Unschedule, Schedule, PoolStep, Others, ChangeVm, ChangeObj,
           ChangeImages, RenameImage, ChangePools, Lose, Dies, VirshplusEnds,
           Crash, vars, fileVars, Created, Gone
  <1>5. ASSUME NEW b \in Budgets, left'[b] = Full[b]
        PROVE  left[b] = Full[b] /\ ~ Spend(b)
    BY <1>0, <1>2, <1>5, SpendLess DEF Kept
  <1>6. Calm' => Calm /\ ~ Spend("refusals") /\ ~ Spend("unreachable") /\ ~ missed'
    BY <1>0, <1>4, <1>5 DEF Calm
  <1>7. Calm => alive
    BY DEF Calm, Kept
  <1> QED BY <1>3, <1>6, <1>7

\* A thread that has ended has lost events.
LEMMA DeadMissed == ASSUME Kept, [Next]_vars PROVE ~ alive' => missed'
  <1>1. (~ alive => missed)
    BY DEF Kept
  <1>2. CASE Observer
    <2>1. UNCHANGED <<alive, missed>> \/ missed' = TRUE
      BY <1>2 DEF Observer, Dispatch, VmXml, VmCreate, VmGet, VmRead, VmPut, ImgXml,
             ImgCreate, ImgClear, ImgDelete, Dies, Created, Gone
    <2> QED BY <1>1, <2>1, Zenon
  <1>3. CASE Main \/ VirshplusEnds \/ UNCHANGED vars
    <2>1. UNCHANGED <<alive, missed>>
      BY <1>3 DEF Main, ListPools, Filter, Unschedule, Schedule, PoolStep, fileVars,
             VirshplusEnds, vars
    <2> QED BY <1>1, <2>1, Zenon
  <1>4. CASE Others
    <2>1. \/ UNCHANGED alive /\ Lose
          \/ UNCHANGED <<alive, missed>>
          \/ missed' = TRUE
      BY <1>4, Zenon DEF Others, ChangeVm, ChangeObj, ChangeImages, RenameImage,
             ChangePools, fileVars
    <2> QED BY <1>1, <2>1, Zenon DEF Lose
  <1>5. CASE Crash
    BY <1>5, Zenon DEF Crash
  <1> QED BY <1>2, <1>3, <1>4, <1>5 DEF Next

\* A step that only moves the VM, or the handler of an event of a VM.
LEMMA PendingStays ==
    ASSUME Pending, UNCHANGED <<files, imgObj, queue>>, doomed' \subseteq doomed,
           \/ handler' = handler
           \/ handler.pc \notin ImgPcs /\ handler'.pc \notin ImgPcs
    PROVE  Pending'
  <1>1. \A i : (Queued(i))' <=> Queued(i)
    BY DEF Queued, About
  <1>2. \A i : (Handled(i))' <=> Handled(i)
    BY DEF Handled
  <1>3. \/ handler' = handler
        \/ /\ handler'.pc \notin ImgPcs
           /\ \A i : ~ (Handled(i))'
    BY DEF Handled
  <1> QED BY <1>1, <1>2, <1>3 DEF Pending, About, ImgPcs

\* A new last event that tells what is so.
LEMMA PendingTold ==
    ASSUME Typed, Pending, NEW e \in ImgEvents, queue' = queue \o <<e>>,
           UNCHANGED <<handler, imgObj>>, doomed' \cap files' = {},
           \A i \in Images : i # e.img => (i \in files' <=> i \in files),
           e.on # "img_deleted" <=> e.img \in files'
    PROVE  Pending'
  <1>0. queue \in Seq(VmEvents \cup ImgEvents)
    BY Parts DEF Typed
  <1>1. /\ Len(queue') = Len(queue) + 1 /\ Len(queue) \in Nat
        /\ \A k \in 1..Len(queue) : queue'[k] = queue[k]
        /\ queue'[Len(queue) + 1] = e
    BY <1>0
  <1>2. \A k \in 1..Len(queue'), i \in Images :
           /\ About(queue'[k], i)
           /\ \A l \in (k + 1)..Len(queue') : ~ About(queue'[l], i)
           => (queue'[k].on # "img_deleted" <=> i \in files')
    <2> SUFFICES ASSUME NEW k \in 1..Len(queue'), NEW i \in Images,
                        About(queue'[k], i),
                        \A l \in (k + 1)..Len(queue') : ~ About(queue'[l], i)
                 PROVE  queue'[k].on # "img_deleted" <=> i \in files'
      OBVIOUS
    <2>1. CASE k = Len(queue) + 1
      BY <1>1, <2>1 DEF About
    <2>2. CASE k # Len(queue) + 1
      <3>1. k \in 1..Len(queue) /\ Len(queue) + 1 \in (k + 1)..Len(queue')
        BY <1>1, <2>2
      <3>2. i # e.img
        BY <1>1, <3>1 DEF About
      <3>3. About(queue[k], i) /\ \A l \in (k + 1)..Len(queue) : ~ About(queue[l], i)
        BY <1>1, <3>1
      <3> QED BY <1>1, <3>1, <3>2, <3>3 DEF Pending
    <2> QED BY <2>1, <2>2
  <1>3. ASSUME NEW i \in Images, ~ (Queued(i))'
        PROVE  i # e.img /\ ~ Queued(i)
    <2>1. \A k \in 1..Len(queue') : ~ About(queue'[k], i)
      BY <1>3 DEF Queued, About
    <2>2. ~ About(e, i)
      BY <1>1, <2>1
    <2>3. \A k \in 1..Len(queue) : ~ About(queue[k], i)
      BY <1>1, <2>1
    <2> QED BY <2>2, <2>3 DEF Queued, About
  <1>4. \A i : (Handled(i))' <=> Handled(i)
    BY DEF Handled
  <1> QED BY <1>2, <1>3, <1>4 DEF Pending, About

\* A new last event about the VM.
LEMMA PendingVm ==
    ASSUME Typed, Pending, NEW e \in VmEvents, queue' = queue \o <<e>>,
           UNCHANGED <<handler, imgObj, files, doomed>>
    PROVE  Pending'
  <1>0. queue \in Seq(VmEvents \cup ImgEvents)
    BY Parts DEF Typed
  <1>1. /\ Len(queue') = Len(queue) + 1 /\ Len(queue) \in Nat
        /\ \A k \in 1..Len(queue) : queue'[k] = queue[k]
        /\ queue'[Len(queue) + 1] = e
    BY <1>0
  <1>2. \A i : ~ About(e, i)
    BY EventsApart DEF About
  <1>3. \A k \in 1..Len(queue'), i \in Images :
           /\ About(queue'[k], i)
           /\ \A l \in (k + 1)..Len(queue') : ~ About(queue'[l], i)
           => (queue'[k].on # "img_deleted" <=> i \in files')
    <2> SUFFICES ASSUME NEW k \in 1..Len(queue'), NEW i \in Images,
                        About(queue'[k], i),
                        \A l \in (k + 1)..Len(queue') : ~ About(queue'[l], i)
                 PROVE  queue'[k].on # "img_deleted" <=> i \in files'
      OBVIOUS
    <2>1. k \in 1..Len(queue)
      BY <1>1, <1>2
    <2>2. About(queue[k], i) /\ \A l \in (k + 1)..Len(queue) : ~ About(queue[l], i)
      BY <1>1, <2>1
    <2> QED BY <1>1, <2>1, <2>2 DEF Pending
  <1>4. ASSUME NEW i \in Images
        PROVE  (Queued(i))' <=> Queued(i)
    <2>1. (Queued(i))' <=> \E k \in 1..Len(queue') : About(queue'[k], i)
      BY DEF Queued, About
    <2> QED BY <1>1, <1>2, <2>1 DEF Queued
  <1>5. \A i : (Handled(i))' <=> Handled(i)
    BY DEF Handled
  <1> QED BY <1>3, <1>4, <1>5 DEF Pending, About

\* The observer takes the first event.
LEMMA PendingTaken ==
    ASSUME Typed, Pending, handler.pc = "idle", queue # <<>>, queue' = Tail(queue),
           UNCHANGED <<files, imgObj, doomed>>,
           \/ Head(queue) \in VmEvents /\ handler'.pc \notin ImgPcs
           \/ /\ Head(queue) \in ImgEvents /\ handler'.ev = Head(queue)
              /\ handler'.pc = IF Head(queue).on = "img_deleted"
                               THEN "img_clear" ELSE "img_xml"
    PROVE  Pending'
  <1>0. queue \in Seq(VmEvents \cup ImgEvents)
    BY Parts DEF Typed
  <1>1. /\ Len(queue) \in Nat /\ Len(queue') = Len(queue) - 1 /\ Len(queue) > 0
        /\ \A k \in 1..Len(queue') : queue'[k] = queue[k + 1]
        /\ Head(queue) = queue[1]
    BY <1>0
  <1>2. \A k \in 1..Len(queue'), i \in Images :
           /\ About(queue'[k], i)
           /\ \A l \in (k + 1)..Len(queue') : ~ About(queue'[l], i)
           => (queue'[k].on # "img_deleted" <=> i \in files')
    <2> SUFFICES ASSUME NEW k \in 1..Len(queue'), NEW i \in Images,
                        About(queue'[k], i),
                        \A l \in (k + 1)..Len(queue') : ~ About(queue'[l], i)
                 PROVE  queue'[k].on # "img_deleted" <=> i \in files'
      OBVIOUS
    <2>1. k + 1 \in 1..Len(queue) /\ About(queue[k + 1], i)
      BY <1>1
    <2>2. ASSUME NEW l \in (k + 2)..Len(queue) PROVE ~ About(queue[l], i)
      <3>1. l - 1 \in (k + 1)..Len(queue') /\ (l - 1) + 1 = l
            /\ l - 1 \in 1..Len(queue')
        BY <1>1
      <3> QED BY <1>1, <3>1
    <2>3. (k + 1) + 1 = k + 2
      OBVIOUS
    <2> QED BY <1>1, <2>1, <2>2, <2>3 DEF Pending
  <1>3. ASSUME NEW i \in Images, ~ (Queued(i))'
        PROVE  \A l \in 2..Len(queue) : ~ About(queue[l], i)
    <2> TAKE l \in 2..Len(queue)
    <2>1. l - 1 \in 1..Len(queue') /\ (l - 1) + 1 = l
      BY <1>1
    <2>2. ~ About(queue'[l - 1], i)
      BY <1>3, <2>1 DEF Queued, About
    <2> QED BY <1>1, <2>1, <2>2
  <1>4. \A i : ~ Handled(i)
    BY DEF Handled, ImgPcs
  <1>5. ASSUME NEW i \in Images, ~ (Queued(i))', ~ About(queue[1], i)
        PROVE  ~ Queued(i)
    <2>1. ASSUME NEW k \in 1..Len(queue) PROVE ~ About(queue[k], i)
      <3>1. k = 1 \/ k \in 2..Len(queue)
        BY <1>1
      <3> QED BY <1>3, <1>5, <3>1
    <2> QED BY <2>1 DEF Queued
  <1>6. CASE Head(queue) \in VmEvents /\ handler'.pc \notin ImgPcs
    <2>1. \A i \in Images : ~ About(queue[1], i)
      BY <1>1, <1>6, EventsApart DEF About
    <2>2. \A i : ~ (Handled(i))'
      BY <1>6 DEF Handled
    <2> QED BY <1>2, <1>4, <1>5, <1>6, <2>1, <2>2 DEF Pending, About, ImgPcs
  <1>7. CASE /\ Head(queue) \in ImgEvents /\ handler'.ev = Head(queue)
             /\ handler'.pc = IF Head(queue).on = "img_deleted"
                              THEN "img_clear" ELSE "img_xml"
    <2>1. \A i : (Handled(i))' <=> queue[1].img = i
      BY <1>1, <1>7 DEF Handled, ImgPcs
    <2>2. ASSUME NEW i \in Images, ~ (Queued(i))', (Handled(i))'
          PROVE  handler'.ev.on # "img_deleted" <=> i \in files'
      <3>1. 1 \in 1..Len(queue) /\ About(queue[1], i) /\ 1 + 1 = 2
        BY <1>1, <1>7, <2>1, <2>2 DEF About
      <3>2. \A l \in (1 + 1)..Len(queue) : ~ About(queue[l], i)
        BY <1>3, <2>2, <3>1
      <3> QED BY <1>1, <1>7, <3>1, <3>2 DEF Pending
    <2>3. ASSUME NEW i \in Images, ~ (Queued(i))', ~ (Handled(i))'
          PROVE  i \in imgObj' <=> i \in files'
      <3>1. ~ About(queue[1], i)
        BY <2>1, <2>3 DEF About
      <3> QED BY <1>4, <1>5, <2>3, <3>1 DEF Pending
    <2> QED BY <1>2, <1>7, <2>2, <2>3 DEF Pending, About
  <1> QED BY <1>6, <1>7

\* The handler of an image goes on, or ends with what its event says.
LEMMA PendingWorked ==
    ASSUME Typed, Pending, UNCHANGED <<files, queue, doomed>>,
           handler.pc \in ImgPcs,
           \/ /\ handler'.ev = handler.ev /\ UNCHANGED imgObj
              /\ \/ handler.pc = "img_xml" /\ handler'.pc = "img_create"
                 \/ handler.pc = "img_clear" /\ handler'.pc = "img_delete"
           \/ /\ handler'.pc = "idle" /\ UNCHANGED imgObj
              /\ handler.pc = "img_xml" /\ handler.ev.img \notin files
           \/ /\ handler'.pc = "idle" /\ handler.pc = "img_create"
              /\ imgObj' = imgObj \cup {handler.ev.img}
           \/ /\ handler'.pc = "idle" /\ handler.pc = "img_delete"
              /\ imgObj' = imgObj \ {handler.ev.img}
    PROVE  Pending'
  <1>1. \A i : (Queued(i))' <=> Queued(i)
    BY DEF Queued, About
  <1>2. \A i : Handled(i) <=> handler.ev.img = i
    BY DEF Handled
  <1>3. CASE handler'.pc = "idle"
    <2>1. \A i : ~ (Handled(i))'
      BY <1>3 DEF Handled, ImgPcs
    <2>2. ASSUME NEW i \in Images, ~ Queued(i)
          PROVE  i \in imgObj' <=> i \in files'
      <3>1. CASE handler.ev.img = i
        BY <1>2, <1>3, <2>2, <3>1 DEF Pending, ImgPcs
      <3>2. CASE handler.ev.img # i
        BY <1>2, <1>3, <2>2, <3>2 DEF Pending, ImgPcs
      <3> QED BY <3>1, <3>2
    <2> QED BY <1>1, <1>3, <2>1, <2>2 DEF Pending, About
  <1>4. CASE /\ handler'.ev = handler.ev /\ UNCHANGED imgObj
             /\ \/ handler.pc = "img_xml" /\ handler'.pc = "img_create"
                \/ handler.pc = "img_clear" /\ handler'.pc = "img_delete"
    <2>1. \A i : (Handled(i))' <=> Handled(i)
      BY <1>4 DEF Handled, ImgPcs
    <2> QED BY <1>1, <1>4, <2>1 DEF Pending, About
  <1> QED BY <1>3, <1>4


LEMMA ObserverPending ==
    ASSUME Typed, Pending, Observer, alive, ~ missed', ~ Spend("refusals"),
           ~ Spend("unreachable")
    PROVE  Pending'
  <1>0. queue \in Seq(VmEvents \cup ImgEvents) /\ handler \in Handlers
    BY Parts DEF Typed
  <1>1. UNCHANGED <<files, doomed>>
    BY ObserverFrame
  <1>2. ~ Dies
    BY Zenon DEF Dies
  <1>3. CASE Dispatch
    <2>1. /\ handler.pc = "idle" /\ queue # <<>> /\ queue' = Tail(queue)
          /\ UNCHANGED imgObj
      BY <1>3 DEF Dispatch
    <2>2. Head(queue) \in VmEvents \cup ImgEvents
      BY <1>0, <2>1
    <2>3. \/ Head(queue) \in VmEvents /\ handler'.pc \notin ImgPcs
          \/ /\ Head(queue) \in ImgEvents /\ handler'.ev = Head(queue)
             /\ handler'.pc = IF Head(queue).on = "img_deleted"
                              THEN "img_clear" ELSE "img_xml"
      <3> DEFINE ev == Head(queue)
                 To2(pc) == handler' = [pc |-> pc, ev |-> ev, read |-> NoRead]
      <3>1. \/ /\ ev.on \in {"vm_moved", "vm_modified", "vm_deleted"}
               /\ To2("vm_xml") \/ To2("vm_get") \/ Done
            \/ ev.on \in {"img_created", "img_moved"} /\ To2("img_xml")
            \/ ev.on = "img_deleted" /\ To2("img_clear")
        BY <1>2, <1>3, EventsApart DEF Dispatch
      <3>2. CASE /\ ev.on \in {"vm_moved", "vm_modified", "vm_deleted"}
                 /\ To2("vm_xml") \/ To2("vm_get") \/ Done
        <4>1. ev \in VmEvents
          BY <2>2, <3>2, EventsApart
        <4>2. handler'.pc \in {"vm_xml", "vm_get", "idle"}
          BY <3>2 DEF Done, Idle
        <4> QED BY <4>1, <4>2 DEF ImgPcs
      <3>3. CASE ev.on \in {"img_created", "img_moved"} /\ To2("img_xml")
        <4>1. ev \in ImgEvents
          BY <2>2, <3>3, EventsApart
        <4> QED BY <3>3, <4>1
      <3>4. CASE ev.on = "img_deleted" /\ To2("img_clear")
        <4>1. ev \in ImgEvents
          BY <2>2, <3>4, EventsApart
        <4> QED BY <3>4, <4>1
      <3> QED BY <3>1, <3>2, <3>3, <3>4
    <2> QED BY <1>1, <2>1, <2>3, PendingTaken
  <1>4. CASE VmXml \/ VmCreate \/ VmGet \/ VmRead \/ VmPut
    <2>1. UNCHANGED <<imgObj, queue>> /\ handler.pc \notin ImgPcs
      BY <1>4 DEF VmXml, VmCreate, VmGet, VmRead, VmPut, FileStep, ImgPcs, Created
    <2>2. handler'.pc \in {"idle", "vm_create", "vm_read", "vm_put"}
      <3>1. \/ handler' = Idle
            \/ \E pc \in {"vm_create", "vm_read", "vm_put"} : \E read : To(pc, read)
        BY <1>2, <1>4, Zenon DEF VmXml, VmCreate, VmGet, VmRead, VmPut, Done, Created
      <3>2. \A pc, read : To(pc, read) => handler'.pc = pc
        BY <1>0 DEF To, Handlers
      <3>3. Idle.pc = "idle"
        BY DEF Idle
      <3> QED BY <3>1, <3>2, <3>3, Zenon
    <2> QED BY <1>1, <2>1, <2>2, PendingStays DEF ImgPcs
  <1>5. CASE ImgXml \/ ImgClear
    <2>1. UNCHANGED <<imgObj, queue>> /\ handler.pc \in ImgPcs
      BY <1>5 DEF ImgXml, ImgClear, FileStep, ImgPcs
    <2>2. \/ /\ handler'.ev = handler.ev
             /\ \/ handler.pc = "img_xml" /\ handler'.pc = "img_create"
                \/ handler.pc = "img_clear" /\ handler'.pc = "img_delete"
          \/ /\ handler'.pc = "idle"
             /\ handler.pc = "img_xml" /\ handler.ev.img \notin files
      <3>1. \A pc : To(pc, NoRead) => handler'.pc = pc /\ handler'.ev = handler.ev
        BY <1>0 DEF To, Handlers
      <3>2. Done => handler'.pc = "idle"
        BY DEF Done, Idle
      <3>3. CASE ImgXml
        BY <3>1, <3>2, <3>3, Zenon DEF ImgXml
      <3>4. CASE ImgClear
        BY <3>1, <3>4, Zenon DEF ImgClear
      <3> QED BY <1>5, <3>3, <3>4
    <2>3. CASE /\ handler'.ev = handler.ev
               /\ \/ handler.pc = "img_xml" /\ handler'.pc = "img_create"
                  \/ handler.pc = "img_clear" /\ handler'.pc = "img_delete"
      BY <1>1, <2>1, <2>3, PendingWorked
    <2>4. CASE /\ handler'.pc = "idle"
               /\ handler.pc = "img_xml" /\ handler.ev.img \notin files
      BY <1>1, <2>1, <2>4, PendingWorked
    <2> QED BY <2>2, <2>3, <2>4
  <1>6. CASE ImgCreate
    BY <1>1, <1>6, PendingWorked DEF ImgCreate, FileStep, Done, Idle, ImgPcs
  <1>7. CASE ImgDelete
    BY <1>1, <1>7, PendingWorked DEF ImgDelete, FileStep, Done, Idle, ImgPcs, Gone
  <1> QED BY <1>3, <1>4, <1>5, <1>6, <1>7 DEF Observer

LEMMA OthersPending ==
    ASSUME Typed, Pending, Others, alive, ~ missed'
    PROVE  Pending'
  <1>0. queue \in Seq(VmEvents \cup ImgEvents) /\ files \subseteq Images
    BY Parts DEF Typed
  <1>1. \A e : Notify(<<e>>) => queue' = queue \o <<e>>
    BY DEF Notify
  <1>2. CASE ChangeObj \/ ChangePools
    <2>1. UNCHANGED <<files, imgObj, queue, doomed, handler>>
      BY <1>2 DEF Others, ChangeObj, ChangePools, fileVars
    <2> QED BY <2>1, PendingStays
  <1>3. CASE ChangeVm
    <2>1. UNCHANGED <<files, imgObj, doomed, handler>>
      BY <1>3 DEF Others, ChangeVm, ChangePools, fileVars
    <2>2. PICK e \in VmEvents : queue' = queue \o <<e>>
      BY <1>1, <1>3, EventsApart DEF ChangeVm
    <2> QED BY <2>1, <2>2, PendingVm
  <1>4. CASE ChangeImages
    <2>1. UNCHANGED <<imgObj, handler>>
      BY <1>4 DEF Others, ChangeImages, ChangePools, fileVars
    <2>2. CASE \E i \in Images : /\ i \notin files \cup doomed
                                 /\ files' = files \cup {i}
                                 /\ Notify(<<ImgEv("img_created", i)>>)
                                 /\ doomed' = doomed
      <3>1. PICK i \in Images : /\ i \notin files \cup doomed
                                /\ files' = files \cup {i}
                                /\ Notify(<<ImgEv("img_created", i)>>)
                                /\ doomed' = doomed
        BY <2>2
      <3> DEFINE e == ImgEv("img_created", i)
      <3>2. e \in ImgEvents /\ e.img = i /\ e.on # "img_deleted"
        BY EventsApart
      <3>3. queue' = queue \o <<e>>
        BY <1>1, <3>1
      <3>4. doomed' \cap files' = {}
        BY <3>1 DEF Pending
      <3> HIDE DEF e
      <3> QED BY <2>1, <3>1, <3>2, <3>3, <3>4, PendingTold
    <2>3. CASE \E i \in Images : /\ i \in files
                                 /\ files' = files \ {i}
                                 /\ Notify(<<ImgEv("img_deleted", i)>>)
                                 /\ doomed' \in {doomed, doomed \cup {i}}
      <3>1. PICK i \in Images : /\ i \in files
                                /\ files' = files \ {i}
                                /\ Notify(<<ImgEv("img_deleted", i)>>)
                                /\ doomed' \in {doomed, doomed \cup {i}}
        BY <2>3
      <3> DEFINE e == ImgEv("img_deleted", i)
      <3>2. e \in ImgEvents /\ e.img = i /\ e.on = "img_deleted"
        BY EventsApart
      <3>3. queue' = queue \o <<e>>
        BY <1>1, <3>1
      <3>4. doomed' \cap files' = {}
        BY <3>1 DEF Pending
      <3> HIDE DEF e
      <3> QED BY <2>1, <3>1, <3>2, <3>3, <3>4, PendingTold
    <2> QED BY <1>4, <2>2, <2>3 DEF ChangeImages
  <1>5. ~ RenameImage
    BY Zenon DEF RenameImage
  <1> QED BY <1>2, <1>3, <1>4, <1>5 DEF Others

LEMMA NextKept == ASSUME Typed, Kept, [Next]_vars PROVE Kept'
  <1>1. (~ alive' => missed') /\ \A b \in Budgets : left'[b] <= Full[b]
    BY CalmBefore, DeadMissed
  <1>2. SUFFICES ASSUME Calm' PROVE Pending'
    BY <1>1 DEF Kept
  <1>3. /\ Calm /\ alive /\ ~ missed' /\ Pending
        /\ ~ Spend("refusals") /\ ~ Spend("unreachable")
    BY <1>2, CalmBefore DEF Kept
  <1>4. CASE Main \/ UNCHANGED vars
    <2>1. UNCHANGED <<files, imgObj, queue, doomed, handler>>
      BY <1>4 DEF Main, ListPools, Filter, Unschedule, Schedule, PoolStep, vars,
             fileVars
    <2> QED BY <1>3, <2>1, PendingStays
  <1>5. CASE VirshplusEnds
    <2>1. PICK i \in doomed : doomed' = doomed \ {i} /\ imgObj' = imgObj \ {i}
      BY <1>5 DEF VirshplusEnds
    <2>2. UNCHANGED <<files, queue, handler>>
      BY <1>5 DEF VirshplusEnds
    <2>3. i \notin files
      BY <1>3 DEF Pending
    <2>4. \A j : ((Queued(j))' <=> Queued(j)) /\ ((Handled(j))' <=> Handled(j))
      BY <2>2 DEF Queued, About, Handled
    <2> QED BY <1>3, <2>1, <2>2, <2>3, <2>4 DEF Pending, About
  <1>6. CASE Crash
    <2>1. queue = <<>> /\ handler = Idle
      BY <1>3, <1>6, Zenon DEF Crash
    <2>2. UNCHANGED <<files, imgObj, queue, doomed, handler>>
      BY <1>6, <2>1 DEF Crash
    <2> QED BY <1>3, <2>2, PendingStays
  <1> QED BY <1>3, <1>4, <1>5, <1>6, ObserverPending, OthersPending DEF Next

\* When the observer has nothing left to do, there is an object for exactly the
\* images that have a file, unless an event was lost or a call failed.
THEOREM ImagesAgreeAtRest == Spec => []ImagesAgree
  <1>1. Init => Typed /\ Kept
    BY InitTyped, InitKept
  <1>2. (Typed /\ Kept) /\ [Next]_vars => (Typed /\ Kept)'
    BY NextTyped, NextKept
  <1>3. Typed /\ Kept => ImagesAgree
    <2> SUFFICES ASSUME Typed, Kept, queue = <<>>, handler = Idle, doomed = {},
                        ~ missed, Spent("refusals") = 0, Spent("unreachable") = 0
                 PROVE  imgObj = files
      BY DEF ImagesAgree
    <2>0. /\ files \subseteq Images /\ imgObj \subseteq Images
          /\ left \in [Budgets -> Nat] /\ Full \in [Budgets -> Nat]
          /\ {"refusals", "unreachable"} \subseteq Budgets
      BY Parts, BoundsAssumption DEF Typed, Full, Budgets
    <2>1. Calm
      BY <2>0 DEF Calm, Spent
    <2>2. \A i : ~ Queued(i) /\ ~ Handled(i)
      BY DEF Queued, Handled, Idle, ImgPcs
    <2> QED BY <2>0, <2>1, <2>2 DEF Kept, Pending
  <1> QED BY <1>1, <1>2, <1>3, PTL DEF Spec

=============================================================================
