------------------------ MODULE HostReporter_proofs ------------------------
(***************************************************************************)
(* Theorems about HostReporter, for any hosts, VMs, masters and bounds:    *)
(* the types, that a power state never goes backwards, that nothing is     *)
(* left behind that belongs to another host, and that a node gets its HA   *)
(* back only after its VMs were looked after.                              *)
(***************************************************************************)
EXTENDS HostReporter, TLAPS

-----------------------------------------------------------------------------
(* Types.                                                                    *)

LEMMA Update ==
  ASSUME NEW A, NEW f \in [Hosts -> A], NEW h \in Hosts, NEW x \in A
  PROVE  [f EXCEPT ![h] = x] \in [Hosts -> A]
  OBVIOUS

LEMMA SpendTyped ==
  ASSUME TypeOK, NEW kind \in Bounded, NEW max, Spend(kind, max)
  PROVE  bounds' \in [Bounded -> Nat]
  BY DEF TypeOK, Spend

LEMMA RequestTyped ==
  ASSUME TypeOK, NEW h, Reached(h) \/ Refused(h) \/ LibvirtFails
  PROVE  bounds' \in [Bounded -> Nat]
<1>1. UNCHANGED bounds \/ Spend("faults", MaxFaults)
  BY DEF Reached, Refused, LibvirtFails
<1> QED BY <1>1, SpendTyped DEF Bounded, TypeOK

LEMMA GotoTyped ==
  ASSUME TypeOK, NEW h \in Hosts, NEW label \in Steps, Goto(h, label)
  PROVE  pc' \in [Hosts -> Steps]
  BY DEF TypeOK, Goto

LEMMA Remainder == \A a \in Nat : a % NMasters \in Masters
  BY ReporterAssumption DEF Masters

LEMMA FailedTurnTyped ==
  ASSUME TypeOK, NEW h \in Hosts, NEW network, FailedTurn(h, network)
  PROVE  /\ pc' \in [Hosts -> Steps] /\ haCheck' \in [Hosts -> BOOLEAN]
         /\ fails' \in [Hosts -> Nat] /\ due' \in [Hosts -> BOOLEAN]
         /\ master' \in [Hosts -> Masters]
<1>1. pc' \in [Hosts -> Steps]
  <2>1. Goto(h, "top") \/ Goto(h, "dead")
    BY Zenon DEF FailedTurn
  <2> QED BY <2>1, GotoTyped DEF Steps
<1>2. haCheck' \in [Hosts -> BOOLEAN]
  <2> DEFINE b == haCheck[h] \/ fails[h] + 1 >= 3
  <2>1. b \in BOOLEAN
    BY Zenon
  <2>2. haCheck' = haCheck \/ haCheck' = [haCheck EXCEPT ![h] = b]
    BY Zenon DEF FailedTurn
  <2> HIDE DEF b
  <2> QED BY <2>1, <2>2 DEF TypeOK
<1>3. fails' \in [Hosts -> Nat]
  <2>1. fails' = fails \/ fails' = [fails EXCEPT ![h] = Bump(fails[h])]
    BY Zenon DEF FailedTurn
  <2>2. fails[h] \in Nat /\ Bump(fails[h]) \in Nat
    BY DEF TypeOK, Bump
  <2> QED BY <2>1, <2>2 DEF TypeOK
<1>4. due' \in [Hosts -> BOOLEAN]
  <2> DEFINE b == due[h] \/ fails[h] + 1 >= 3
  <2>1. b \in BOOLEAN
    BY Zenon
  <2>2. due' = due \/ due' = [due EXCEPT ![h] = b]
    BY Zenon DEF FailedTurn
  <2> HIDE DEF b
  <2> QED BY <2>1, <2>2 DEF TypeOK
<1>5. master' \in [Hosts -> Masters]
  <2>1. \/ master' = master
        \/ master' = [master EXCEPT ![h] = NextMaster(master[h], fails[h])]
    BY Zenon DEF FailedTurn
  <2>2. NextMaster(master[h], fails[h]) \in Masters
    BY Remainder DEF TypeOK, NextMaster
  <2> QED BY <2>1, <2>2 DEF TypeOK
<1> QED BY <1>1, <1>2, <1>3, <1>4, <1>5

LEMMA AtTyped ==
  ASSUME NEW S, NEW f \in [Hosts -> [Vms -> S]], NEW h \in Hosts, NEW v \in Vms, NEW x \in S
  PROVE  At(f, h, v, x) \in [Hosts -> [Vms -> S]]
  BY DEF At

LEMMA SetDomTyped ==
  ASSUME TypeOK, NEW h \in Hosts, NEW v \in Vms, NEW s \in DomState, SetDom(h, v, s)
  PROVE  /\ dom' \in [Hosts -> [Vms -> DomState]]
         /\ ver' \in [Hosts -> [Vms -> Nat]]
         /\ obj' \in [Vms -> Object]
<1>1. dom' \in [Hosts -> [Vms -> DomState]]
  BY AtTyped DEF TypeOK, SetDom
<1>2. ver' \in [Hosts -> [Vms -> Nat]]
  <2>1. ver \in [Hosts -> [Vms -> Nat]] /\ ver[h][v] + 1 \in Nat
    BY DEF TypeOK
  <2>2. At(ver, h, v, ver[h][v] + 1) \in [Hosts -> [Vms -> Nat]]
    BY <2>1, AtTyped
  <2> QED BY <2>2 DEF SetDom
<1> QED BY <1>1, <1>2 DEF SetDom, TypeOK

Labels == Hosts \cup {Unknown}

LEMMA RecordEdits ==
  ASSUME NEW W, NEW n \in Nat, NEW s \in Nat, NEW h \in W,
         NEW o \in [exists : BOOLEAN, host : W, rv : Nat, by : W, seq : Nat]
  PROVE  /\ [o EXCEPT !.rv = n, !.by = h, !.seq = s]
               \in [exists : BOOLEAN, host : W, rv : Nat, by : W, seq : Nat]
         /\ [o EXCEPT !.host = h, !.rv = n]
               \in [exists : BOOLEAN, host : W, rv : Nat, by : W, seq : Nat]
         /\ [o EXCEPT !.exists = FALSE, !.rv = n]
               \in [exists : BOOLEAN, host : W, rv : Nat, by : W, seq : Nat]
<1>1. [o EXCEPT !.rv = n, !.by = h, !.seq = s]
         \in [exists : BOOLEAN, host : W, rv : Nat, by : W, seq : Nat]
  OBVIOUS
<1>2. [o EXCEPT !.host = h, !.rv = n]
         \in [exists : BOOLEAN, host : W, rv : Nat, by : W, seq : Nat]
  OBVIOUS
<1>3. [o EXCEPT !.exists = FALSE, !.rv = n]
         \in [exists : BOOLEAN, host : W, rv : Nat, by : W, seq : Nat]
  OBVIOUS
<1> QED BY <1>1, <1>2, <1>3, Zenon

LEMMA Objects ==
  Object = [exists : BOOLEAN, host : Labels, rv : Nat, by : Labels, seq : Nat]
  BY Zenon DEF Object, Labels

LEMMA ObjectEdits ==
  ASSUME NEW o \in Object, NEW s \in Nat, NEW h \in Hosts
  PROVE  /\ Written(o, h, s) \in Object
         /\ [o EXCEPT !.host = h, !.rv = o.rv + 1] \in Object
<1>1. h \in Labels
  BY DEF Labels
<1>2. o.rv + 1 \in Nat
  BY Objects
<1> QED BY <1>1, <1>2, Objects, RecordEdits, Zenon DEF Written

LEMMA RemovedTyped ==
  ASSUME NEW o \in Object
  PROVE  [o EXCEPT !.exists = FALSE, !.rv = o.rv + 1] \in Object
<1>1. o.rv + 1 \in Nat /\ o.by \in Labels /\ o.seq \in Nat
  BY Objects
<1> QED BY <1>1, Objects, RecordEdits, Zenon

LEMMA WritePowerTyped ==
  ASSUME TypeOK, NEW h \in Hosts, WritePower(h)
  PROVE  obj' \in [Vms -> Object]
<1>1. /\ obj[cur[h]] \in Object /\ seen[h] \in Nat
      /\ cur[h] \in Vms /\ obj \in [Vms -> Object]
  BY DEF TypeOK
<1>2. Written(obj[cur[h]], h, seen[h]) \in Object
  BY <1>1, ObjectEdits
<1>3. obj' = [obj EXCEPT ![cur[h]] = Written(obj[cur[h]], h, seen[h])]
  BY Zenon DEF WritePower
<1> QED BY <1>1, <1>2, <1>3

LEMMA InitTyped == Init => TypeOK
<1> SUFFICES ASSUME Init PROVE TypeOK
  OBVIOUS
<1>1. obj \in [Vms -> Object]
  <2> DEFINE First == [exists : {TRUE}, host : Hosts \cup {Unknown}, rv : {0},
                       by : {Unknown}, seq : {0}]
  <2>1. First \subseteq Object
    <3>1. {TRUE} \subseteq BOOLEAN /\ {0} \subseteq Nat
          /\ {Unknown} \subseteq Hosts \cup {Unknown}
      OBVIOUS
    <3> QED BY <3>1, Zenon DEF Object
  <2>2. obj \in [Vms -> First]
    BY DEF Init
  <2> HIDE DEF First
  <2> QED BY <2>1, <2>2
<1>2. dom \in [Hosts -> [Vms -> DomState]]
  BY DEF Init, DomState
<1>3. pc \in [Hosts -> Steps]
  BY DEF Init, Steps
<1>4. cur \in [Hosts -> Vms]
  BY ReporterAssumption DEF Init
<1>5. /\ haCheck \in [Hosts -> BOOLEAN] /\ haEnable \in [Hosts -> BOOLEAN]
      /\ nodeHA \in [Hosts -> BOOLEAN] /\ due \in [Hosts -> BOOLEAN]
  <2>1. \A b \in BOOLEAN : [h \in Hosts |-> b] \in [Hosts -> BOOLEAN]
    OBVIOUS
  <2>2. TRUE \in BOOLEAN /\ FALSE \in BOOLEAN
    OBVIOUS
  <2> QED BY <2>1, <2>2, Zenon DEF Init
<1>6. master \in [Hosts -> Masters]
  BY ReporterAssumption DEF Init, Masters
<1>7. /\ ver \in [Hosts -> [Vms -> Nat]] /\ fails \in [Hosts -> Nat]
      /\ snap \in [Hosts -> Nat] /\ seen \in [Hosts -> Nat]
      /\ todo \in [Hosts -> SUBSET Vms] /\ reach \in [Hosts -> SUBSET Masters]
      /\ missed \in [Hosts -> SUBSET Vms] /\ skipped \in [Hosts -> SUBSET Vms]
      /\ moved \in [Hosts -> SUBSET Vms] /\ bounds \in [Bounded -> Nat]
  BY DEF Init
<1> QED BY <1>1, <1>2, <1>3, <1>4, <1>5, <1>6, <1>7 DEF TypeOK

\* Three kinds of steps: of the check, of the reporter beside its check, and of
\* the domains.
LEMMA CheckTyped ==
  ASSUME TypeOK, NEW h \in Hosts,
         CheckOwner(h) \/ Backup(h) \/ LookUp(h) \/ DestroyVm(h) \/ UndefineVm(h)
         \/ CheckHa(h) \/ StartVm(h)
  PROVE  TypeOK'
<1>1. UNCHANGED <<haCheck, haEnable, fails, todo, cur, snap, seen, nodeVars, due, moved>>
  BY DEF CheckOwner, Backup, LookUp, DestroyVm, UndefineVm, CheckHa, StartVm
<1>2. bounds' \in [Bounded -> Nat]
  <2>1. UNCHANGED bounds \/ Reached(h) \/ Refused(h) \/ LibvirtFails
    BY DEF CheckOwner, Backup, LookUp, DestroyVm, UndefineVm, CheckHa, StartVm
  <2> QED BY <2>1, RequestTyped DEF TypeOK
<1>3. pc' \in [Hosts -> Steps]
  <2>1. PICK label \in Steps : Goto(h, label)
    BY DEF CheckOwner, Backup, LookUp, DestroyVm, UndefineVm, CheckHa, StartVm,
           OwnerMissed, HaSkipped, Steps
  <2> QED BY <2>1, GotoTyped
<1>4. cur[h] \in Vms
  BY DEF TypeOK
<1>5. missed' \in [Hosts -> SUBSET Vms]
  <2>1. UNCHANGED missed \/ OwnerMissed(h)
    BY DEF CheckOwner, Backup, LookUp, DestroyVm, UndefineVm, CheckHa, StartVm
  <2> DEFINE s == missed[h] \cup {cur[h]}
  <2>2. missed' = missed \/ missed' = [missed EXCEPT ![h] = s]
    BY <2>1, Zenon DEF OwnerMissed
  <2>3. missed \in [Hosts -> SUBSET Vms] /\ s \in SUBSET Vms
    BY <1>4 DEF TypeOK
  <2> HIDE DEF s
  <2> QED BY <2>2, <2>3, Update
<1>6. skipped' \in [Hosts -> SUBSET Vms]
  <2>1. UNCHANGED skipped \/ HaSkipped(h)
    BY DEF CheckOwner, Backup, LookUp, DestroyVm, UndefineVm, CheckHa, StartVm
  <2> DEFINE s == skipped[h] \cup {cur[h]}
  <2>2. skipped' = skipped \/ skipped' = [skipped EXCEPT ![h] = s]
    BY <2>1, Zenon DEF HaSkipped
  <2>3. skipped \in [Hosts -> SUBSET Vms] /\ s \in SUBSET Vms
    BY <1>4 DEF TypeOK
  <2> HIDE DEF s
  <2> QED BY <2>2, <2>3, Update
<1>7. /\ dom' \in [Hosts -> [Vms -> DomState]]
      /\ ver' \in [Hosts -> [Vms -> Nat]] /\ obj' \in [Vms -> Object]
  <2>1. UNCHANGED objVars \/ \E s \in DomState : SetDom(h, cur[h], s)
    BY DEF CheckOwner, Backup, LookUp, DestroyVm, UndefineVm, CheckHa, StartVm, DomState
  <2> QED BY <1>4, <2>1, SetDomTyped DEF TypeOK, objVars
<1> QED
  BY <1>1, <1>2, <1>3, <1>5, <1>6, <1>7 DEF TypeOK, nodeVars

LEMMA TurnTyped == ASSUME TypeOK, NEW h \in Hosts, Turn(h) PROVE TypeOK'
<1>0. cur[h] \in Vms
  BY DEF TypeOK
<1>1. bounds' \in [Bounded -> Nat]
  <2>1. UNCHANGED bounds \/ Reached(h) \/ Refused(h) \/ LibvirtFails
    BY DEF LibvirtFails, Turn, Top, NextVm, CheckOwner, Backup, LookUp, DestroyVm, UndefineVm,
           CheckHa, StartVm, PowerGet, PowerRead, PowerPut, ReportNode, EnableHa,
           CheckConn, NodeStatusFails
  <2> QED BY <2>1, RequestTyped DEF TypeOK
<1>2. CASE CheckOwner(h) \/ Backup(h) \/ LookUp(h) \/ DestroyVm(h) \/ UndefineVm(h)
           \/ CheckHa(h) \/ StartVm(h)
  BY <1>2, CheckTyped
<1>3. CASE Top(h)
  <2>0. UNCHANGED <<objVars, haEnable, cur, snap, seen, nodeHA, reach>>
    BY <1>3 DEF Top, NodeStatusFails
  <2>1. CASE /\ \E network \in BOOLEAN : FailedTurn(h, network)
             /\ UNCHANGED <<todo, missed, skipped, moved>>
    BY <1>1, <2>0, <2>1, FailedTurnTyped DEF TypeOK, objVars
  <2>3. CASE /\ \/ /\ Goto(h, "next")
                   /\ todo' = [todo EXCEPT ![h] = {v \in Vms : dom[h][v] # "none"}]
                   /\ missed' = [missed EXCEPT ![h] = {}]
                   /\ skipped' = [skipped EXCEPT ![h] = {}]
                   /\ due' = [due EXCEPT ![h] = FALSE]
                   /\ moved' = [moved EXCEPT ![h] = {}]
                \/ Goto(h, "status") /\ UNCHANGED <<todo, history>>
             /\ UNCHANGED <<haCheck, fails, master>>
    <3>1. pc' \in [Hosts -> Steps]
      BY <2>3, GotoTyped DEF Steps
    <3>2. due' \in [Hosts -> BOOLEAN] /\ moved' \in [Hosts -> SUBSET Vms]
      BY <2>3 DEF TypeOK, history
    <3>3. todo' \in [Hosts -> SUBSET Vms]
      <4> DEFINE s == {v \in Vms : dom[h][v] # "none"}
      <4>1. todo' = todo \/ todo' = [todo EXCEPT ![h] = s]
        BY <2>3, Zenon
      <4>2. todo \in [Hosts -> SUBSET Vms] /\ s \in SUBSET Vms
        BY DEF TypeOK
      <4> HIDE DEF s
      <4> QED BY <4>1, <4>2, Update
    <3>4. missed' \in [Hosts -> SUBSET Vms] /\ skipped' \in [Hosts -> SUBSET Vms]
      BY <2>3 DEF TypeOK, history
    <3> QED BY <1>1, <2>0, <2>3, <3>1, <3>2, <3>3, <3>4 DEF TypeOK, objVars
  <2>4. TRUE \in BOOLEAN
    OBVIOUS
  <2> QED BY <1>3, <2>1, <2>3, <2>4, Zenon DEF Top, NodeStatusFails
<1>4. CASE NextVm(h)
  <2>0. UNCHANGED <<objVars, haEnable, fails, snap, seen, nodeVars, history>>
    BY <1>4 DEF NextVm
  <2>1. pc' \in [Hosts -> Steps]
    BY <1>4, GotoTyped DEF NextVm, Steps
  <2>2. haCheck' \in [Hosts -> BOOLEAN]
    <3>1. haCheck' = haCheck \/ haCheck' = [haCheck EXCEPT ![h] = FALSE]
      BY <1>4 DEF NextVm
    <3> QED BY <3>1 DEF TypeOK
  <2>3. cur' \in [Hosts -> Vms] /\ todo' \in [Hosts -> SUBSET Vms]
    <3>1. /\ todo \in [Hosts -> SUBSET Vms] /\ cur \in [Hosts -> Vms]
          /\ todo[h] \subseteq Vms
      BY DEF TypeOK
    <3>2. CASE UNCHANGED <<todo, cur>>
      BY <3>1, <3>2
    <3>3. CASE \E v \in todo[h] : /\ cur' = [cur EXCEPT ![h] = v]
                                  /\ todo' = [todo EXCEPT ![h] = todo[h] \ {v}]
      <4>1. PICK v \in todo[h] : /\ cur' = [cur EXCEPT ![h] = v]
                                 /\ todo' = [todo EXCEPT ![h] = todo[h] \ {v}]
        BY <3>3
      <4>2. v \in Vms /\ todo[h] \ {v} \in SUBSET Vms
        BY <3>1
      <4>3. cur' \in [Hosts -> Vms]
        BY <3>1, <4>1, <4>2, Update
      <4>4. todo' \in [Hosts -> SUBSET Vms]
        BY <3>1, <4>1, <4>2, Update
      <4> QED BY <4>3, <4>4
    <3> QED BY <1>4, <3>2, <3>3, Zenon DEF NextVm
  <2> QED BY <1>1, <2>0, <2>1, <2>2, <2>3 DEF TypeOK, objVars, nodeVars, history
<1>5. CASE PowerGet(h)
  <2>0. UNCHANGED <<objVars, haEnable, todo, cur, seen, nodeHA, reach, missed, skipped,
                    moved>>
    BY <1>5 DEF PowerGet
  <2>1. pc' \in [Hosts -> Steps]
    <3>1. Goto(h, "powerRead") \/ Goto(h, "next") \/ FailedTurn(h, FALSE)
      BY <1>5, Zenon DEF PowerGet
    <3> QED BY <3>1, GotoTyped, FailedTurnTyped DEF Steps
  <2>3. /\ haCheck' \in [Hosts -> BOOLEAN] /\ fails' \in [Hosts -> Nat]
        /\ due' \in [Hosts -> BOOLEAN] /\ master' \in [Hosts -> Masters]
    <3>1. UNCHANGED <<haCheck, fails, master, due>> \/ FailedTurn(h, FALSE)
      BY <1>5, Zenon DEF PowerGet
    <3> QED BY <3>1, FailedTurnTyped DEF TypeOK
  <2>2. snap' \in [Hosts -> Nat]
    <3>1. snap' = snap \/ snap' = [snap EXCEPT ![h] = obj[cur[h]].rv]
      BY <1>5, Zenon DEF PowerGet
    <3>2. obj[cur[h]].rv \in Nat
      BY <1>0 DEF TypeOK, Object
    <3> QED BY <3>1, <3>2 DEF TypeOK
  <2> QED BY <1>1, <2>0, <2>1, <2>2, <2>3 DEF TypeOK, objVars
<1>6. CASE PowerRead(h)
  <2>0. UNCHANGED <<objVars, haEnable, todo, cur, snap, nodeHA, reach, missed, skipped,
                    moved>>
    BY <1>6 DEF PowerRead
  <2>1. CASE FailedTurn(h, FALSE) /\ UNCHANGED seen
    BY <1>1, <2>0, <2>1, FailedTurnTyped DEF TypeOK, objVars, history
  <2>2. CASE /\ \/ Goto(h, "next") /\ UNCHANGED seen
                \/ /\ Goto(h, "powerPut")
                   /\ seen' = [seen EXCEPT ![h] = ver[h][cur[h]]]
             /\ UNCHANGED <<haCheck, fails, master, due>>
    <3>1. pc' \in [Hosts -> Steps]
      BY <2>2, GotoTyped DEF Steps
    <3>2. seen' \in [Hosts -> Nat]
      <4>1. seen \in [Hosts -> Nat] /\ ver[h][cur[h]] \in Nat
        BY <1>0 DEF TypeOK
      <4> QED BY <2>2, <4>1, Update, Zenon
    <3> QED BY <1>1, <2>0, <2>2, <3>1, <3>2 DEF TypeOK, objVars, history
  <2> QED BY <1>6, <2>1, <2>2, Zenon DEF PowerRead
<1>7. CASE PowerPut(h)
  <2>0. UNCHANGED <<dom, ver, haCheck, haEnable, fails, todo, cur, nodeVars, history>>
    BY <1>7 DEF PowerPut
  <2>1. pc' \in [Hosts -> Steps]
    BY <1>7, GotoTyped DEF PowerPut, Steps
  <2>2. snap' \in [Hosts -> Nat] /\ seen' \in [Hosts -> Nat]
    BY <1>7 DEF PowerPut, TypeOK
  <2>3. obj' \in [Vms -> Object]
    <3>1. WritePower(h) \/ UNCHANGED obj
      BY <1>7, Zenon DEF PowerPut
    <3> QED BY <3>1, WritePowerTyped DEF TypeOK
  <2> QED BY <1>1, <2>0, <2>1, <2>2, <2>3 DEF TypeOK, nodeVars, history
<1>8. CASE ReportNode(h)
  <2>0. UNCHANGED <<objVars, haCheck, haEnable, fails, todo, cur, snap, seen,
                    nodeVars, history>>
    BY <1>8 DEF ReportNode
  <2>1. Goto(h, "enable") \/ Goto(h, "conn")
    BY <1>8, Zenon DEF ReportNode
  <2>2. pc' \in [Hosts -> Steps]
    BY <2>1, GotoTyped DEF Steps
  <2> QED BY <1>1, <2>0, <2>2 DEF TypeOK, objVars, nodeVars, history
<1>9. CASE EnableHa(h)
  <2>0. UNCHANGED <<objVars, todo, cur, snap, seen, reach, missed, skipped, moved>>
    BY <1>9 DEF EnableHa
  <2>1. CASE (\E network \in BOOLEAN : FailedTurn(h, network))
             /\ UNCHANGED <<haEnable, nodeHA>>
    BY <1>1, <2>0, <2>1, FailedTurnTyped DEF TypeOK, objVars, history
  <2>2. CASE /\ nodeHA' = [nodeHA EXCEPT ![h] = FALSE]
             /\ haEnable' = [haEnable EXCEPT ![h] = FALSE]
             /\ Goto(h, "conn")
             /\ UNCHANGED <<haCheck, fails, master, due>>
    <3>1. pc' \in [Hosts -> Steps]
      BY <2>2, GotoTyped DEF Steps
    <3>2. nodeHA' \in [Hosts -> BOOLEAN] /\ haEnable' \in [Hosts -> BOOLEAN]
      BY <2>2 DEF TypeOK
    <3> QED BY <1>1, <2>0, <2>2, <3>1, <3>2 DEF TypeOK, objVars, history
  <2> QED BY <1>9, <2>1, <2>2, Zenon DEF EnableHa
<1>10. CASE CheckConn(h)
  <2>0. UNCHANGED <<objVars, haEnable, todo, cur, snap, seen, nodeHA, reach, missed,
                    skipped, moved>>
    BY <1>10 DEF CheckConn
  <2>1. CASE FailedTurn(h, FALSE)
    BY <1>1, <2>0, <2>1, FailedTurnTyped DEF TypeOK, objVars, history
  <2>2. CASE /\ fails' = [fails EXCEPT ![h] = 0]
             /\ Goto(h, "top")
             /\ UNCHANGED <<haCheck, master, due>>
    <3>1. pc' \in [Hosts -> Steps]
      BY <2>2, GotoTyped DEF Steps
    <3>2. fails' \in [Hosts -> Nat]
      BY <2>2 DEF TypeOK
    <3> QED BY <1>1, <2>0, <2>2, <3>1, <3>2 DEF TypeOK, objVars, history
  <2> QED BY <1>10, <2>1, <2>2, Zenon DEF CheckConn
<1> QED
  BY <1>2, <1>3, <1>4, <1>5, <1>6, <1>7, <1>8, <1>9, <1>10 DEF Turn

LEMMA FreshTyped ==
  ASSUME TypeOK, NEW h \in Hosts, Fresh(h)
  PROVE  /\ pc' \in [Hosts -> Steps] /\ haCheck' \in [Hosts -> BOOLEAN]
         /\ haEnable' \in [Hosts -> BOOLEAN] /\ fails' \in [Hosts -> Nat]
         /\ due' \in [Hosts -> BOOLEAN]
         /\ UNCHANGED <<todo, cur, snap, seen>>
<1>1. pc' \in [Hosts -> Steps]
  BY GotoTyped DEF Fresh, Steps
<1>2. /\ haCheck' \in [Hosts -> BOOLEAN] /\ haEnable' \in [Hosts -> BOOLEAN]
      /\ due' \in [Hosts -> BOOLEAN]
  BY DEF Fresh, TypeOK
<1>3. fails' \in [Hosts -> Nat]
  BY DEF Fresh, TypeOK
<1> QED BY <1>1, <1>2, <1>3 DEF Fresh

LEMMA HostTyped ==
  ASSUME TypeOK, NEW h \in Hosts,
         Restart(h) \/ DisableHa(h) \/ CrashHost(h) \/ BootHost(h) \/ Cut(h) \/ Heal(h)
  PROVE  TypeOK'
<1>1. bounds' \in [Bounded -> Nat]
  <2>1. UNCHANGED bounds \/ Spend("boots", MaxBoots) \/ Spend("cuts", MaxCuts)
    BY DEF Restart, DisableHa, CrashHost, BootHost, Cut, Heal
  <2> QED BY <2>1, SpendTyped DEF TypeOK, Bounded
<1>2. CASE Restart(h) \/ BootHost(h)
  <2>1. Fresh(h) /\ UNCHANGED <<objVars, nodeVars, missed, skipped, moved>>
    BY <1>2 DEF Restart, BootHost
  <2> QED BY <1>1, <2>1, FreshTyped DEF TypeOK, objVars, nodeVars
<1>3. CASE DisableHa(h)
  <2>1. nodeHA' \in [Hosts -> BOOLEAN]
    BY <1>3 DEF DisableHa, TypeOK
  <2>2. UNCHANGED <<objVars, repVars, master, reach, history>>
    BY <1>3 DEF DisableHa
  <2> QED BY <1>1, <2>1, <2>2 DEF TypeOK, objVars, repVars, history
<1>4. CASE CrashHost(h)
  <2>1. pc' \in [Hosts -> Steps]
    BY <1>4, GotoTyped DEF CrashHost, Steps
  <2>2. dom' \in [Hosts -> [Vms -> DomState]]
    BY <1>4 DEF CrashHost, TypeOK, DomState
  <2>3. ver' \in [Hosts -> [Vms -> Nat]]
    BY <1>4 DEF CrashHost, TypeOK
  <2>4. UNCHANGED <<obj, haCheck, haEnable, fails, todo, cur, snap, seen, nodeVars,
                    history>>
    BY <1>4 DEF CrashHost
  <2> QED BY <1>1, <2>1, <2>2, <2>3, <2>4 DEF TypeOK, nodeVars, history
<1>5. CASE Cut(h) \/ Heal(h)
  <2>1. reach' \in [Hosts -> SUBSET Masters]
    BY <1>5 DEF Cut, Heal, TypeOK
  <2>2. UNCHANGED <<objVars, repVars, nodeHA, master, history>>
    BY <1>5 DEF Cut, Heal
  <2> QED BY <1>1, <2>1, <2>2 DEF TypeOK, objVars, repVars, history
<1> QED BY <1>2, <1>3, <1>4, <1>5

\* The steps that are not of a reporter or its host.
ClusterStep ==
  \/ \E h \in Reporters, v \in Vms : ChangeDom(h, v)
  \/ \E h \in Hosts, v \in Vms : Push(h, v)
  \/ \E v \in Vms, g, h \in Hosts : Failover(v, g, h) \/ Migrate(v, g, h)
  \/ \E v \in Vms, h \in Hosts : Relabel(v, h)
  \/ \E v \in Vms : Remove(v)

LEMMA HostSet ==
  ASSUME TypeOK, NEW v \in Vms, NEW h \in Hosts, SetHost(v, h)
  PROVE  obj' \in [Vms -> Object]
<1> DEFINE o == [obj[v] EXCEPT !.host = h, !.rv = obj[v].rv + 1]
<1>1. obj[v] \in Object
  BY DEF TypeOK
<1>2. o \in Object
  BY <1>1, ObjectEdits
<1>3. obj' = [obj EXCEPT ![v] = o]
  BY DEF SetHost
<1> HIDE DEF o
<1> QED BY <1>2, <1>3 DEF TypeOK

LEMMA MovesTyped ==
  ASSUME TypeOK, NEW v \in Vms, Moves(v)
  PROVE  moved' \in [Hosts -> SUBSET Vms]
  BY DEF TypeOK, Moves

LEMMA ClusterTyped == ASSUME TypeOK, ClusterStep PROVE TypeOK'
<1>0. UNCHANGED <<repVars, nodeVars, missed, skipped, due>>
  BY DEF ClusterStep, ChangeDom, Push, Failover, Migrate, Relabel, Remove, Moves, history
<1>1. bounds' \in [Bounded -> Nat]
  <2>1. UNCHANGED bounds \/ Spend("changes", MaxChanges)
    BY DEF ClusterStep, ChangeDom, Push, Failover, Migrate, Relabel, Remove, Moves
  <2> QED BY <2>1, SpendTyped DEF TypeOK, Bounded
<1>2. SUFFICES /\ obj' \in [Vms -> Object] /\ dom' \in [Hosts -> [Vms -> DomState]]
               /\ ver' \in [Hosts -> [Vms -> Nat]]
  <2>1. moved' \in [Hosts -> SUBSET Vms]
    <3>1. UNCHANGED moved \/ \E v \in Vms : Moves(v)
      BY DEF ClusterStep, ChangeDom, Push, Failover, Migrate, Relabel, Remove, history
    <3> QED BY <3>1, MovesTyped DEF TypeOK
  <2> QED BY <1>0, <1>1, <2>1 DEF TypeOK, repVars, nodeVars
<1>3. ASSUME NEW h \in Reporters, NEW v \in Vms, ChangeDom(h, v)
      PROVE  /\ obj' \in [Vms -> Object] /\ dom' \in [Hosts -> [Vms -> DomState]]
             /\ ver' \in [Hosts -> [Vms -> Nat]]
  <2>1. h \in Hosts
    BY ReporterAssumption
  <2>2. SetDom(h, v, "on") \/ SetDom(h, v, "off")
    BY <1>3, Zenon DEF ChangeDom
  <2> QED BY <2>1, <2>2, SetDomTyped DEF DomState
<1>4. ASSUME NEW h \in Hosts, NEW v \in Vms, Push(h, v)
      PROVE  /\ obj' \in [Vms -> Object] /\ dom' \in [Hosts -> [Vms -> DomState]]
             /\ ver' \in [Hosts -> [Vms -> Nat]]
  <2>1. obj[v] \in Object /\ ver[h][v] \in Nat
    BY DEF TypeOK
  <2>2. Written(obj[v], h, ver[h][v]) \in Object
    BY <2>1, ObjectEdits
  <2>3. obj' = [obj EXCEPT ![v] = Written(obj[v], h, ver[h][v])]
        /\ UNCHANGED <<dom, ver>>
    BY <1>4 DEF Push
  <2> QED BY <2>2, <2>3 DEF TypeOK
<1>5. ASSUME NEW h \in Hosts, NEW g \in Hosts, NEW v \in Vms, Failover(v, g, h)
      PROVE  /\ obj' \in [Vms -> Object] /\ dom' \in [Hosts -> [Vms -> DomState]]
             /\ ver' \in [Hosts -> [Vms -> Nat]]
  <2>1. obj' \in [Vms -> Object]
    BY <1>5, HostSet DEF Failover
  <2>2. dom' \in [Hosts -> [Vms -> DomState]]
    BY <1>5, AtTyped DEF Failover, TypeOK, DomState
  <2>3. ver' \in [Hosts -> [Vms -> Nat]]
    <3>1. ver \in [Hosts -> [Vms -> Nat]] /\ ver[h][v] + 1 \in Nat
      BY DEF TypeOK
    <3>2. At(ver, h, v, ver[h][v] + 1) \in [Hosts -> [Vms -> Nat]]
      BY <3>1, AtTyped
    <3> QED BY <1>5, <3>2 DEF Failover
  <2> QED BY <2>1, <2>2, <2>3
<1>7. ASSUME NEW h \in Hosts, NEW g \in Hosts, NEW v \in Vms, Migrate(v, g, h)
      PROVE  /\ obj' \in [Vms -> Object] /\ dom' \in [Hosts -> [Vms -> DomState]]
             /\ ver' \in [Hosts -> [Vms -> Nat]]
  <2>1. dom' \in [Hosts -> [Vms -> DomState]]
    <3>1. PICK left \in {"off", "none"} : dom' = At(At(dom, g, v, left), h, v, "on")
      BY <1>7, Zenon DEF Migrate
    <3>2. left \in DomState /\ "on" \in DomState
      BY DEF DomState
    <3>3. At(dom, g, v, left) \in [Hosts -> [Vms -> DomState]]
      BY <3>2, AtTyped DEF TypeOK
    <3> QED BY <3>1, <3>2, <3>3, AtTyped
  <2>2. ver' \in [Hosts -> [Vms -> Nat]]
    <3>1. ver' = At(At(ver, g, v, ver[g][v] + 1), h, v, ver[h][v] + 1)
      BY <1>7, Zenon DEF Migrate
    <3>2. ver[g][v] + 1 \in Nat /\ ver[h][v] + 1 \in Nat
      BY DEF TypeOK
    <3>3. At(ver, g, v, ver[g][v] + 1) \in [Hosts -> [Vms -> Nat]]
      BY <3>2, AtTyped DEF TypeOK
    <3> QED BY <3>1, <3>2, <3>3, AtTyped
  <2> QED BY <1>7, <2>1, <2>2 DEF Migrate, TypeOK
<1>8. ASSUME NEW h \in Hosts, NEW v \in Vms, Relabel(v, h)
      PROVE  /\ obj' \in [Vms -> Object] /\ dom' \in [Hosts -> [Vms -> DomState]]
             /\ ver' \in [Hosts -> [Vms -> Nat]]
  BY <1>8, HostSet DEF Relabel, TypeOK
<1>6. ASSUME NEW v \in Vms, Remove(v)
      PROVE  /\ obj' \in [Vms -> Object] /\ dom' \in [Hosts -> [Vms -> DomState]]
             /\ ver' \in [Hosts -> [Vms -> Nat]]
  <2> DEFINE o == [obj[v] EXCEPT !.exists = FALSE, !.rv = obj[v].rv + 1]
  <2>1. obj[v] \in Object
    BY DEF TypeOK
  <2>3. o \in Object
    BY <2>1, RemovedTyped
  <2>4. obj' = [obj EXCEPT ![v] = o] /\ UNCHANGED <<dom, ver>>
    BY <1>6 DEF Remove
  <2> HIDE DEF o
  <2> QED BY <2>3, <2>4 DEF TypeOK
<1> QED BY <1>3, <1>4, <1>5, <1>6, <1>7, <1>8 DEF ClusterStep

LEMMA NextIs ==
  Next <=> \/ \E h \in Reporters :
                Turn(h) \/ Restart(h) \/ DisableHa(h) \/ CrashHost(h) \/ BootHost(h)
                \/ Cut(h) \/ Heal(h)
           \/ ClusterStep
  BY Zenon DEF Next, ClusterStep

LEMMA NextTyped == ASSUME TypeOK, [Next]_vars PROVE TypeOK'
<1>1. CASE UNCHANGED vars
  BY <1>1 DEF vars, objVars, repVars, nodeVars, history, TypeOK
<1>2. CASE \E h \in Reporters :
             Turn(h) \/ Restart(h) \/ DisableHa(h) \/ CrashHost(h) \/ BootHost(h)
             \/ Cut(h) \/ Heal(h)
  BY <1>2, TurnTyped, HostTyped, ReporterAssumption
<1> QED BY <1>1, <1>2, ClusterTyped, NextIs

\* The types of all variables, for any number of hosts, VMs, masters and faults.
THEOREM TypeCorrect == Spec => []TypeOK
<1>1. TypeOK /\ [Next]_vars => TypeOK'
  BY NextTyped
<1> QED BY <1>1, InitTyped, PTL DEF Spec

-----------------------------------------------------------------------------
(* Power states.                                                             *)

Power == {"powerRead", "powerPut"}

\* What is written of a host's domain is not newer than the domain; the object
\* is not older than what a power check has read; and while it is what was
\* read, the state in it is not newer than the one about to be written.
Ages ==
  /\ \A h \in Hosts, v \in Vms : obj[v].by = h => obj[v].seq <= ver[h][v]
  /\ \A h \in Hosts :
       /\ pc[h] \in Power => snap[h] <= obj[cur[h]].rv
       /\ pc[h] = "powerPut" =>
            /\ seen[h] <= ver[h][cur[h]]
            /\ obj[cur[h]].rv = snap[h] /\ obj[cur[h]].by = h =>
                 obj[cur[h]].seq <= seen[h]

LEMMA Values ==
  ASSUME TypeOK
  PROVE  /\ \A v \in Vms : obj[v] \in Object /\ obj[v].rv \in Nat /\ obj[v].seq \in Nat
         /\ \A h \in Hosts, v \in Vms : ver[h][v] \in Nat /\ dom[h][v] \in DomState
         /\ \A h \in Hosts : cur[h] \in Vms /\ snap[h] \in Nat /\ seen[h] \in Nat
<1>1. \A v \in Vms : obj[v] \in Object
  BY DEF TypeOK
<1>2. \A v \in Vms : obj[v].rv \in Nat /\ obj[v].seq \in Nat
  BY <1>1 DEF Object
<1> QED BY <1>1, <1>2 DEF TypeOK

LEMMA ValuesNext ==
  ASSUME TypeOK'
  PROVE  /\ \A v \in Vms : obj'[v] \in Object /\ obj'[v].rv \in Nat /\ obj'[v].seq \in Nat
         /\ \A h \in Hosts, v \in Vms : ver'[h][v] \in Nat /\ dom'[h][v] \in DomState
         /\ \A h \in Hosts : cur'[h] \in Vms /\ snap'[h] \in Nat /\ seen'[h] \in Nat
<1>1. \A v \in Vms : obj'[v] \in Object
  BY DEF TypeOK
<1>2. \A v \in Vms : obj'[v].rv \in Nat /\ obj'[v].seq \in Nat
  BY <1>1 DEF Object
<1> QED BY <1>1, <1>2 DEF TypeOK

\* The host h writes the state s of its domain v.
Writes(v, h, s) == obj' = [obj EXCEPT ![v] = Written(obj[v], h, s)]

\* What a write of the state s of a domain of h changes.
LEMMA WrittenIs ==
  ASSUME TypeOK, NEW v \in Vms, NEW h, NEW s, Writes(v, h, s)
  PROVE  /\ \A u \in Vms : u # v => obj'[u] = obj[u]
         /\ obj'[v].rv = obj[v].rv + 1 /\ obj'[v].by = h /\ obj'[v].seq = s
         /\ obj'[v].exists = obj[v].exists /\ obj'[v].host = obj[v].host
<1>1. obj[v] \in Object
  BY DEF TypeOK
<1>2. obj'[v] = Written(obj[v], h, s) /\ \A u \in Vms : u # v => obj'[u] = obj[u]
  BY DEF TypeOK, Writes
<1>3. /\ obj'[v].rv = obj[v].rv + 1 /\ obj'[v].by = h /\ obj'[v].seq = s
      /\ obj'[v].exists = obj[v].exists /\ obj'[v].host = obj[v].host
  <2> DEFINE n == obj[v].rv + 1
  <2>1. obj'[v] = [obj[v] EXCEPT !.rv = n, !.by = h, !.seq = s]
    BY <1>2, Zenon DEF Written
  <2> HIDE DEF n
  <2>2. /\ obj'[v].rv = n /\ obj'[v].by = h /\ obj'[v].seq = s
        /\ obj'[v].exists = obj[v].exists /\ obj'[v].host = obj[v].host
    BY <1>1, <2>1, Objects
  <2> QED BY <2>2 DEF n
<1> QED BY <1>2, <1>3

\* What other writes change.
LEMMA MovedIs ==
  ASSUME TypeOK, NEW v \in Vms,
         (\E h \in Hosts : SetHost(v, h)) \/ Remove(v)
  PROVE  /\ \A u \in Vms : u # v => obj'[u] = obj[u]
         /\ obj'[v].rv = obj[v].rv + 1 /\ obj'[v].by = obj[v].by
         /\ obj'[v].seq = obj[v].seq
<1>1. obj[v] \in Object
  BY DEF TypeOK
<1>2. \/ \E h : obj' = [obj EXCEPT ![v] = [obj[v] EXCEPT !.host = h, !.rv = obj[v].rv + 1]]
      \/ obj' = [obj EXCEPT ![v] = [obj[v] EXCEPT !.exists = FALSE, !.rv = obj[v].rv + 1]]
  BY Zenon DEF SetHost, Remove
<1>3. /\ \A u \in Vms : u # v => obj'[u] = obj[u]
      /\ \/ \E h : obj'[v] = [obj[v] EXCEPT !.host = h, !.rv = obj[v].rv + 1]
         \/ obj'[v] = [obj[v] EXCEPT !.exists = FALSE, !.rv = obj[v].rv + 1]
  BY <1>2 DEF TypeOK
<1> QED BY <1>1, <1>3 DEF Object

\* The steps that write to an object.
LEMMA Writers ==
  ASSUME [Next]_vars
  PROVE  \/ UNCHANGED obj
         \/ \E h \in Hosts : PowerPut(h) /\ WritePower(h)
         \/ \E h \in Hosts, v \in Vms : Push(h, v)
         \/ \E v \in Vms, h \in Hosts : SetHost(v, h)
         \/ \E v \in Vms : Remove(v)
<1>1. CASE UNCHANGED vars
  BY <1>1 DEF vars, objVars
<1>2. ASSUME NEW h \in Reporters, Turn(h)
      PROVE  UNCHANGED obj \/ (PowerPut(h) /\ WritePower(h))
  BY <1>2 DEF Turn, Top, NextVm, CheckOwner, Backup, LookUp, DestroyVm, UndefineVm,
     CheckHa, StartVm, PowerGet, PowerRead, PowerPut, ReportNode, EnableHa, CheckConn,
     objVars, SetDom, NodeStatusFails
<1>3. ASSUME NEW h \in Reporters,
             Restart(h) \/ DisableHa(h) \/ CrashHost(h) \/ BootHost(h) \/ Cut(h) \/ Heal(h)
      PROVE  UNCHANGED obj
  BY <1>3 DEF Restart, DisableHa, CrashHost, BootHost, Cut, Heal, objVars
<1>4. ASSUME NEW h \in Reporters, NEW v \in Vms, ChangeDom(h, v)
      PROVE  UNCHANGED obj
  BY <1>4 DEF ChangeDom, SetDom
<1>5. ASSUME NEW v \in Vms, NEW g \in Hosts, NEW h \in Hosts,
             Failover(v, g, h) \/ Migrate(v, g, h) \/ Relabel(v, h)
      PROVE  UNCHANGED obj \/ SetHost(v, h)
  BY <1>5, Zenon DEF Failover, Migrate, Relabel
<1> QED BY <1>1, <1>2, <1>3, <1>4, <1>5, ReporterAssumption DEF Next

\* Every write gives the object a new version, and a state that is neither newer
\* than its domain nor older than the host's last one.
LEMMA ObjectSteps ==
  ASSUME TypeOK, Ages, [Next]_vars, NEW v \in Vms
  PROVE  \/ obj'[v] = obj[v]
         \/ /\ obj'[v].rv = obj[v].rv + 1
            /\ obj'[v].by = obj[v].by /\ obj'[v].seq = obj[v].seq
         \/ /\ obj'[v].rv = obj[v].rv + 1
            /\ obj'[v].by \in Hosts /\ obj'[v].seq <= ver[obj'[v].by][v]
            /\ obj'[v].by = obj[v].by => obj'[v].seq >= obj[v].seq
<1>1. CASE UNCHANGED obj
  BY <1>1
<1>2. ASSUME NEW h \in Hosts, PowerPut(h), WritePower(h)
      PROVE  \/ obj'[v] = obj[v]
             \/ /\ obj'[v].rv = obj[v].rv + 1
                /\ obj'[v].by \in Hosts /\ obj'[v].seq <= ver[obj'[v].by][v]
                /\ obj'[v].by = obj[v].by => obj'[v].seq >= obj[v].seq
  <2>1. /\ obj' = [obj EXCEPT ![cur[h]] = Written(obj[cur[h]], h, seen[h])]
        /\ obj[cur[h]].rv = snap[h] /\ pc[h] = "powerPut"
    BY <1>2 DEF PowerPut, WritePower
  <2>2. /\ cur[h] # v => obj'[v] = obj[v]
        /\ cur[h] = v => /\ obj'[v].rv = obj[v].rv + 1 /\ obj'[v].by = h
                         /\ obj'[v].seq = seen[h]
    <3> DEFINE w == cur[h]
               s == seen[h]
    <3>1. w \in Vms
      BY Values
    <3>2. Writes(w, h, s)
      BY <2>1, Zenon DEF Writes
    <3> HIDE DEF w, s
    <3>3. /\ \A u \in Vms : u # w => obj'[u] = obj[u]
          /\ obj'[w].rv = obj[w].rv + 1 /\ obj'[w].by = h /\ obj'[w].seq = s
      BY <3>1, <3>2, WrittenIs
    <3>4. /\ w # v => obj'[v] = obj[v]
          /\ w = v => /\ obj'[v].rv = obj[v].rv + 1 /\ obj'[v].by = h
                      /\ obj'[v].seq = s
      BY <3>3, Zenon
    <3> QED BY <3>4, Zenon DEF w, s
  <2> QED BY <2>1, <2>2, Values DEF Ages
<1>3. ASSUME NEW h \in Hosts, NEW u \in Vms, Push(h, u)
      PROVE  \/ obj'[v] = obj[v]
             \/ /\ obj'[v].rv = obj[v].rv + 1
                /\ obj'[v].by \in Hosts /\ obj'[v].seq <= ver[obj'[v].by][v]
                /\ obj'[v].by = obj[v].by => obj'[v].seq >= obj[v].seq
  <2>1. /\ obj' = [obj EXCEPT ![u] = Written(obj[u], h, ver[h][u])]
        /\ obj[u].by # h \/ obj[u].seq < ver[h][u]
    BY <1>3 DEF Push
  <2>2. /\ u # v => obj'[v] = obj[v]
        /\ u = v => /\ obj'[v].rv = obj[v].rv + 1 /\ obj'[v].by = h
                    /\ obj'[v].seq = ver[h][v]
    <3> DEFINE s == ver[h][u]
    <3>1. Writes(u, h, s)
      BY <2>1, Zenon DEF Writes
    <3> HIDE DEF s
    <3>2. /\ \A x \in Vms : x # u => obj'[x] = obj[x]
          /\ obj'[u].rv = obj[u].rv + 1 /\ obj'[u].by = h /\ obj'[u].seq = s
      BY <3>1, WrittenIs
    <3>3. /\ u # v => obj'[v] = obj[v]
          /\ u = v => /\ obj'[v].rv = obj[v].rv + 1 /\ obj'[v].by = h
                      /\ obj'[v].seq = s
      BY <3>2, Zenon
    <3> QED BY <3>3, Zenon DEF s
  <2> QED BY <2>1, <2>2, Values
<1>4. ASSUME NEW u \in Vms, (\E h \in Hosts : SetHost(u, h)) \/ Remove(u)
      PROVE  \/ obj'[v] = obj[v]
             \/ /\ obj'[v].rv = obj[v].rv + 1
                /\ obj'[v].by = obj[v].by /\ obj'[v].seq = obj[v].seq
  BY <1>4, MovedIs
<1> QED BY <1>1, <1>2, <1>3, <1>4, Writers

\* Two domains of a VM change at once.
BothChange(v, g, h) == ver' = At(At(ver, g, v, ver[g][v] + 1), h, v, ver[h][v] + 1)

\* Domains only grow older.
LEMMA VersionsGrow ==
  ASSUME TypeOK, [Next]_vars
  PROVE  \A h \in Hosts, v \in Vms : ver[h][v] <= ver'[h][v]
<1>1. \/ UNCHANGED ver
      \/ \E g \in Hosts, u \in Vms :
            ver' = At(ver, g, u, ver[g][u] + 1)
      \/ \E g \in Hosts : ver' = [ver EXCEPT ![g] = [v \in Vms |-> ver[g][v] + 1]]
      \/ \E g, h \in Hosts, v \in Vms : BothChange(v, g, h)
  <2>1. CASE UNCHANGED vars
    BY <2>1 DEF vars, objVars
  <2>2. ASSUME NEW h \in Reporters, Turn(h)
        PROVE  \/ UNCHANGED ver
               \/ \E g \in Hosts, u \in Vms :
                     ver' = At(ver, g, u, ver[g][u] + 1)
    <3>1. UNCHANGED ver \/ \E s : SetDom(h, cur[h], s)
      BY <2>2 DEF Turn, Top, NextVm, CheckOwner, Backup, LookUp, DestroyVm,
         UndefineVm, CheckHa, StartVm, PowerGet, PowerRead, PowerPut, ReportNode,
         EnableHa, CheckConn, objVars, NodeStatusFails
    <3>2. h \in Hosts /\ cur[h] \in Vms
      BY Values, ReporterAssumption
    <3> QED BY <3>1, <3>2, Zenon DEF SetDom
  <2>3. ASSUME NEW h \in Reporters,
               Restart(h) \/ DisableHa(h) \/ CrashHost(h) \/ BootHost(h) \/ Cut(h)
               \/ Heal(h)
        PROVE  \/ UNCHANGED ver
               \/ ver' = [ver EXCEPT ![h] = [v \in Vms |-> ver[h][v] + 1]]
    BY <2>3 DEF Restart, DisableHa, CrashHost, BootHost, Cut, Heal, objVars
  <2>4. ASSUME ClusterStep
        PROVE  \/ UNCHANGED ver
               \/ \E h \in Hosts, v \in Vms :
                     ver' = At(ver, h, v, ver[h][v] + 1)
               \/ \E g, h \in Hosts, v \in Vms : BothChange(v, g, h)
    BY <2>4, ReporterAssumption DEF ClusterStep, ChangeDom, Push, Failover, Migrate,
       Relabel, Remove, SetDom, BothChange
  <2>5. CASE \E h \in Reporters :
                 Turn(h) \/ (Restart(h) \/ DisableHa(h) \/ CrashHost(h) \/ BootHost(h)
                             \/ Cut(h) \/ Heal(h))
    <3>1. PICK h \in Reporters :
             Turn(h) \/ (Restart(h) \/ DisableHa(h) \/ CrashHost(h) \/ BootHost(h)
                         \/ Cut(h) \/ Heal(h))
      BY <2>5, Zenon
    <3>2. h \in Hosts
      BY ReporterAssumption
    <3> QED BY <2>2, <2>3, <3>1, <3>2, Zenon
  <2> QED BY <2>1, <2>4, <2>5, NextIs, Zenon
<1>2. ver \in [Hosts -> [Vms -> Nat]]
  BY DEF TypeOK
<1>3. ASSUME NEW g \in Hosts, NEW u \in Vms,
             ver' = At(ver, g, u, ver[g][u] + 1)
      PROVE  \A h \in Hosts, v \in Vms : ver[h][v] <= ver'[h][v]
  <2> SUFFICES ASSUME NEW h \in Hosts, NEW v \in Vms PROVE ver[h][v] <= ver'[h][v]
    OBVIOUS
  <2>1. ver'[h][v] = ver[h][v] \/ ver'[h][v] = ver[h][v] + 1
    BY <1>2, <1>3 DEF At
  <2> QED BY <1>2, <2>1
<1>4. ASSUME NEW g \in Hosts, ver' = [ver EXCEPT ![g] = [v \in Vms |-> ver[g][v] + 1]]
      PROVE  \A h \in Hosts, v \in Vms : ver[h][v] <= ver'[h][v]
  <2> SUFFICES ASSUME NEW h \in Hosts, NEW v \in Vms PROVE ver[h][v] <= ver'[h][v]
    OBVIOUS
  <2>1. ver'[h][v] = ver[h][v] \/ ver'[h][v] = ver[h][v] + 1
    BY <1>2, <1>4
  <2> QED BY <1>2, <2>1
<1>5. CASE UNCHANGED ver
  BY <1>2, <1>5
<1>6. ASSUME NEW f \in Hosts, NEW g \in Hosts, NEW u \in Vms, BothChange(u, f, g)
      PROVE  \A h \in Hosts, v \in Vms : ver[h][v] <= ver'[h][v]
  <2> SUFFICES ASSUME NEW h \in Hosts, NEW v \in Vms PROVE ver[h][v] <= ver'[h][v]
    OBVIOUS
  <2> DEFINE w == At(ver, f, u, ver[f][u] + 1)
  <2>1. w \in [Hosts -> [Vms -> Nat]] /\ (w[h][v] = ver[h][v] \/ w[h][v] = ver[h][v] + 1)
    BY <1>2 DEF At
  <2>2. ver' = At(w, g, u, ver[g][u] + 1)
    BY <1>6, Zenon DEF BothChange
  <2> HIDE DEF w
  <2>4. ver'[h][v] = w[h][v] \/ (h = g /\ v = u /\ ver'[h][v] = ver[h][v] + 1)
    BY <2>1, <2>2 DEF At
  <2> QED BY <1>2, <2>1, <2>4
<1> QED BY <1>1, <1>3, <1>4, <1>5, <1>6

\* The host is not in its power check, or stands where it stood.
Stands(h) ==
  \/ pc'[h] \notin Power
  \/ pc'[h] = pc[h] /\ cur'[h] = cur[h] /\ snap'[h] = snap[h] /\ seen'[h] = seen[h]

\* A turn of g is about g.
LEMMA TurnFrame ==
  ASSUME NEW g, Turn(g)
  PROVE  /\ \E l : pc' = [pc EXCEPT ![g] = l]
         /\ cur' = cur \/ \E x : cur' = [cur EXCEPT ![g] = x]
         /\ snap' = snap \/ \E x : snap' = [snap EXCEPT ![g] = x]
         /\ seen' = seen \/ \E x : seen' = [seen EXCEPT ![g] = x]
<1>1. \E l : Goto(g, l)
  BY Zenon DEF Turn, Top, NextVm, CheckOwner, Backup, LookUp, DestroyVm, UndefineVm,
     CheckHa, StartVm, PowerGet, PowerRead, PowerPut, ReportNode, EnableHa, CheckConn,
     OwnerMissed, HaSkipped, FailedTurn, NodeStatusFails
<1>2. cur' = cur \/ \E x : cur' = [cur EXCEPT ![g] = x]
  BY Zenon DEF Turn, Top, NextVm, CheckOwner, Backup, LookUp, DestroyVm, UndefineVm,
     CheckHa, StartVm, PowerGet, PowerRead, PowerPut, ReportNode, EnableHa, CheckConn, NodeStatusFails
<1>3. snap' = snap \/ \E x : snap' = [snap EXCEPT ![g] = x]
  BY Zenon DEF Turn, Top, NextVm, CheckOwner, Backup, LookUp, DestroyVm, UndefineVm,
     CheckHa, StartVm, PowerGet, PowerRead, PowerPut, ReportNode, EnableHa, CheckConn, NodeStatusFails
<1>4. seen' = seen \/ \E x : seen' = [seen EXCEPT ![g] = x]
  BY Zenon DEF Turn, Top, NextVm, CheckOwner, Backup, LookUp, DestroyVm, UndefineVm,
     CheckHa, StartVm, PowerGet, PowerRead, PowerPut, ReportNode, EnableHa, CheckConn, NodeStatusFails
<1> QED BY <1>1, <1>2, <1>3, <1>4 DEF Goto

LEMMA PowerSteps ==
  ASSUME TypeOK, [Next]_vars, NEW h \in Hosts
  PROVE  \/ Stands(h)
         \/ /\ pc'[h] = "powerRead" /\ cur'[h] = cur[h] /\ UNCHANGED obj
            /\ snap'[h] = obj[cur[h]].rv
         \/ /\ pc[h] = "powerRead" /\ pc'[h] = "powerPut" /\ UNCHANGED <<obj, ver>>
            /\ cur'[h] = cur[h] /\ snap'[h] = snap[h] /\ seen'[h] = ver[h][cur[h]]
<1>1. CASE UNCHANGED <<pc, cur, snap, seen>>
  BY <1>1 DEF Stands
<1>2. CASE UNCHANGED vars \/ ClusterStep
  <2>1. UNCHANGED repVars
    BY <1>2, Zenon DEF vars, ClusterStep, ChangeDom, Push, Failover, Migrate, Relabel,
       Remove, Moves
  <2> QED BY <1>1, <2>1 DEF repVars
<1>3. ASSUME NEW g \in Reporters,
             Restart(g) \/ DisableHa(g) \/ CrashHost(g) \/ BootHost(g) \/ Cut(g) \/ Heal(g)
      PROVE  Stands(h)
  <2>1. \/ UNCHANGED <<pc, cur, snap, seen>>
        \/ /\ pc' = [pc EXCEPT ![g] = "top"] \/ pc' = [pc EXCEPT ![g] = "down"]
           /\ UNCHANGED <<cur, snap, seen>>
    BY <1>3 DEF Restart, DisableHa, CrashHost, BootHost, Cut, Heal, Fresh, Goto, repVars
  <2> QED BY <1>1, <2>1 DEF Stands, TypeOK, Power
<1>4. ASSUME NEW g \in Reporters, Turn(g), g # h
      PROVE  Stands(h)
  <2>1. /\ \E l : pc' = [pc EXCEPT ![g] = l]
        /\ cur' = cur \/ \E x : cur' = [cur EXCEPT ![g] = x]
        /\ snap' = snap \/ \E x : snap' = [snap EXCEPT ![g] = x]
        /\ seen' = seen \/ \E x : seen' = [seen EXCEPT ![g] = x]
    BY <1>4, TurnFrame
  <2> QED BY <1>4, <2>1 DEF Stands, TypeOK
<1>5. ASSUME h \in Reporters, Turn(h)
      PROVE  \/ Stands(h)
             \/ /\ pc'[h] = "powerRead" /\ cur'[h] = cur[h] /\ UNCHANGED obj
                /\ snap'[h] = obj[cur[h]].rv
             \/ /\ pc[h] = "powerRead" /\ pc'[h] = "powerPut" /\ UNCHANGED <<obj, ver>>
                /\ cur'[h] = cur[h] /\ snap'[h] = snap[h] /\ seen'[h] = ver[h][cur[h]]
  <2>0. \A l : Goto(h, l) => pc'[h] = l
    BY DEF Goto, TypeOK
  <2>1. \A network : FailedTurn(h, network) => pc'[h] \in {"top", "dead"}
    BY <2>0, Zenon DEF FailedTurn
  <2>2. CASE PowerGet(h)
    <3>1. \/ pc'[h] = "next"
          \/ pc'[h] \in {"top", "dead"}
          \/ pc'[h] = "powerRead" /\ snap' = [snap EXCEPT ![h] = obj[cur[h]].rv]
      BY <2>0, <2>1, <2>2, Zenon DEF PowerGet
    <3> QED BY <2>2, <3>1 DEF PowerGet, Stands, Power, objVars, TypeOK
  <2>3. CASE PowerRead(h)
    <3>1. \/ pc'[h] \in {"next", "top", "dead"}
          \/ pc'[h] = "powerPut" /\ seen' = [seen EXCEPT ![h] = ver[h][cur[h]]]
      BY <2>0, <2>1, <2>3 DEF PowerRead
    <3> QED BY <2>3, <3>1 DEF PowerRead, Stands, Power, objVars, TypeOK
  <2>4. CASE ~ PowerGet(h) /\ ~ PowerRead(h)
    <3>1. pc'[h] \notin Power
      BY <1>5, <2>0, <2>1, <2>4 DEF Turn, Top, NextVm, CheckOwner, Backup, LookUp,
         DestroyVm, UndefineVm, CheckHa, StartVm, PowerPut, ReportNode, EnableHa,
         CheckConn, OwnerMissed, HaSkipped, Power, NodeStatusFails
    <3> QED BY <3>1 DEF Stands
  <2> QED BY <2>2, <2>3, <2>4
<1> QED BY <1>2, <1>3, <1>4, <1>5, NextIs

LEMMA InitAges == Init => Ages
<1> SUFFICES ASSUME Init PROVE Ages
  OBVIOUS
<1>1. \A v \in Vms : obj[v].by = Unknown
  <2> DEFINE First == [exists : {TRUE}, host : Hosts \cup {Unknown}, rv : {0},
                       by : {Unknown}, seq : {0}]
  <2>1. \A o \in First : o.by = Unknown
    BY Zenon
  <2>2. obj \in [Vms -> First]
    BY DEF Init
  <2> HIDE DEF First
  <2> QED BY <2>1, <2>2
<1>2. \A h \in Hosts : pc[h] \notin Power
  BY DEF Init, Power
<1> QED BY <1>1, <1>2, ReporterAssumption DEF Ages, Power

LEMMA NextAges == ASSUME TypeOK, Ages, [Next]_vars PROVE Ages'
<1>0. TypeOK'
  BY NextTyped
<1>1. ASSUME NEW h \in Hosts, NEW v \in Vms, obj'[v].by = h
      PROVE  obj'[v].seq <= ver'[h][v]
  <2>1. ver[h][v] <= ver'[h][v] /\ ver[h][v] \in Nat /\ ver'[h][v] \in Nat
        /\ obj[v].seq \in Nat /\ obj'[v].seq \in Nat
    BY <1>0, VersionsGrow, Values, ValuesNext
  <2>2. obj'[v].seq <= ver[h][v]
    BY <1>1, <2>1, ObjectSteps DEF Ages
  <2> QED BY <2>1, <2>2
<1>2. ASSUME NEW h \in Hosts
      PROVE  /\ pc'[h] \in Power => snap'[h] <= obj'[cur'[h]].rv
             /\ pc'[h] = "powerPut" =>
                  /\ seen'[h] <= ver'[h][cur'[h]]
                  /\ obj'[cur'[h]].rv = snap'[h] /\ obj'[cur'[h]].by = h =>
                       obj'[cur'[h]].seq <= seen'[h]
  <2>1. cur[h] \in Vms /\ cur'[h] \in Vms /\ snap[h] \in Nat /\ seen[h] \in Nat
        /\ obj[cur[h]].rv \in Nat /\ obj[cur[h]].seq \in Nat
        /\ ver[h][cur[h]] \in Nat /\ ver'[h][cur[h]] \in Nat
        /\ ver[h][cur[h]] <= ver'[h][cur[h]]
    BY <1>0, VersionsGrow, Values, ValuesNext
  <2>2. CASE Stands(h)
    <3>1. \/ obj'[cur[h]] = obj[cur[h]]
          \/ obj'[cur[h]].rv = obj[cur[h]].rv + 1
      BY <2>1, ObjectSteps
    <3> QED BY <2>1, <2>2, <3>1 DEF Stands, Ages, Power
  <2>3. CASE /\ pc'[h] = "powerRead" /\ cur'[h] = cur[h] /\ UNCHANGED obj
             /\ snap'[h] = obj[cur[h]].rv
    BY <2>1, <2>3
  <2>4. CASE /\ pc[h] = "powerRead" /\ pc'[h] = "powerPut" /\ UNCHANGED <<obj, ver>>
             /\ cur'[h] = cur[h] /\ snap'[h] = snap[h] /\ seen'[h] = ver[h][cur[h]]
    BY <2>1, <2>4 DEF Ages, Power
  <2> QED BY <2>2, <2>3, <2>4, PowerSteps
<1> QED BY <1>1, <1>2 DEF Ages

\* A power state never replaces a later one of the same host.
THEOREM StatesNeverOlder == Spec => StateNeverOlder
<1>1. Init => TypeOK /\ Ages
  BY InitTyped, InitAges
<1>2. (TypeOK /\ Ages) /\ [Next]_vars => (TypeOK /\ Ages)'
  BY NextTyped, NextAges
<1>3. TypeOK /\ Ages /\ [Next]_vars =>
        [\A v \in Vms : obj'[v].by = obj[v].by => obj'[v].seq >= obj[v].seq]_vars
  <2> SUFFICES ASSUME TypeOK, Ages, Next, NEW v \in Vms, obj'[v].by = obj[v].by
               PROVE  obj'[v].seq >= obj[v].seq
    BY Zenon
  <2> QED BY ObjectSteps, Values
<1> QED BY <1>1, <1>2, <1>3, PTL DEF Spec, StateNeverOlder

-----------------------------------------------------------------------------
(* What a check of all domains achieves.                                     *)

OwnerSteps == {"owner", "backup", "active", "destroy", "undefine"}
HaSteps    == OwnerSteps \cup {"ha", "start"}
Loop       == HaSteps \cup {"next", "powerGet", "powerRead", "powerPut"}
Reports    == {"status", "enable", "conn"}

\* The domain belongs elsewhere, and was not moved behind the reporter's back; the
\* VM with HA waits for its start, whatever host its object names.
Left(h, v)  == dom[h][v] # "none" /\ Foreign(h, v) /\ v \notin moved[h]
Waits(h, v) == v \in HaVms /\ obj[v].exists /\ dom[h][v] = "cold"

\* The domain v is in the list of the failed ones, or the reporter will still
\* come to it: in this turn, in the next one, or when it is started.
Ahead(h, v, marked, steps) ==
  \/ v \in marked
  \/ pc[h] = "top" /\ haCheck[h] = TRUE
  \/ pc[h] \in Loop /\ (v \in todo[h] \/ (v = cur[h] /\ pc[h] \in steps))
  \/ ~Alive(h)

\* A check is over when ha_check is; a check that is due will be made.
Standing(h) ==
  /\ pc[h] \in Loop => haCheck[h] = TRUE
  /\ pc[h] \in Reports => haCheck[h] = FALSE
  /\ pc[h] \in Loop \cup Reports => due[h] = FALSE
  /\ due[h] = TRUE => haCheck[h] = TRUE
  /\ h \notin Reporters => pc[h] = "peer"

HostInv(h) ==
  /\ Standing(h)
  /\ \A v \in Vms : Left(h, v) => Ahead(h, v, missed[h], OwnerSteps)
  /\ \A v \in Vms : Waits(h, v) => Ahead(h, v, skipped[h], HaSteps)
  /\ pc[h] = "undefine" /\ Foreign(h, cur[h]) =>
       dom[h][cur[h]] # "on" \/ cur[h] \in moved[h]

\* Nobody gets an object or another owner, but VMs may lose theirs.
Kept == \A v \in Vms : obj'[v].exists => obj[v].exists /\ obj'[v].host = obj[v].host

Standstill(h) ==
  /\ pc'[h] = pc[h] /\ haCheck'[h] = haCheck[h] /\ due'[h] = due[h]
  /\ todo'[h] = todo[h] /\ cur'[h] = cur[h]
  /\ missed'[h] = missed[h] /\ skipped'[h] = skipped[h]

LEMMA KeptIs ==
  ASSUME Kept, NEW h \in Hosts, NEW v \in Vms, moved[h] \subseteq moved'[h]
  PROVE  /\ Foreign(h, v)' => Foreign(h, v)
         /\ dom'[h][v] = dom[h][v] => /\ Left(h, v)' => Left(h, v)
                                      /\ Waits(h, v)' => Waits(h, v)
         /\ (dom'[h][v] = "cold" => dom[h][v] = "cold") => (Waits(h, v)' => Waits(h, v))
         /\ (dom'[h][v] # "none" => dom[h][v] # "none") => (Left(h, v)' => Left(h, v))
  BY DEF Kept, Foreign, Left, Waits

LEMMA StillKept ==
  ASSUME TypeOK, NEW h \in Hosts, HostInv(h), Kept, Standstill(h), dom'[h] = dom[h],
         moved'[h] = moved[h]
  PROVE  HostInv(h)'
<1>1. \A v \in Vms : (Left(h, v)' => Left(h, v)) /\ (Waits(h, v)' => Waits(h, v))
                     /\ (Foreign(h, v)' => Foreign(h, v))
  BY KeptIs
<1>2. Standing(h)'
  BY DEF HostInv, Standing, Standstill
<1>3. \A v \in Vms :
        /\ Ahead(h, v, missed[h], OwnerSteps) => Ahead(h, v, missed[h], OwnerSteps)'
        /\ Ahead(h, v, skipped[h], HaSteps) => Ahead(h, v, skipped[h], HaSteps)'
  BY DEF Ahead, Standstill, Alive, Loop, OwnerSteps, HaSteps
<1>4. \A v \in Vms : Left(h, v)' => Ahead(h, v, missed[h], OwnerSteps)'
  BY <1>1, <1>3 DEF HostInv
<1>5. \A v \in Vms : Waits(h, v)' => Ahead(h, v, skipped[h], HaSteps)'
  BY <1>1, <1>3 DEF HostInv
<1>6. cur[h] \in Vms
  BY Values
<1>7. pc'[h] = "undefine" /\ Foreign(h, cur[h])' =>
         dom'[h][cur'[h]] # "on" \/ cur'[h] \in moved'[h]
  BY <1>1, <1>6 DEF HostInv, Standstill, Foreign
<1> QED BY <1>2, <1>4, <1>5, <1>7 DEF HostInv

\* A failed turn.
LEMMA FailedIs ==
  ASSUME TypeOK, NEW h \in Hosts, NEW network, FailedTurn(h, network)
  PROVE  /\ pc'[h] \in {"top", "dead"}
         /\ haCheck'[h] = TRUE \/ (haCheck'[h] = haCheck[h] /\ due'[h] = due[h])
<1>1. pc'[h] \in {"top", "dead"}
  <2>1. Goto(h, "top") \/ Goto(h, "dead")
    BY Zenon DEF FailedTurn
  <2> QED BY <2>1 DEF Goto, TypeOK
<1> DEFINE b == fails[h] + 1 >= 3
           c == haCheck[h] \/ b
           d == due[h] \/ b
<1>2. \/ UNCHANGED <<haCheck, due>>
      \/ /\ haCheck' = [haCheck EXCEPT ![h] = c]
         /\ due' = [due EXCEPT ![h] = d]
  BY Zenon DEF FailedTurn
<1>3. c = TRUE \/ (c = haCheck[h] /\ d = due[h])
  <2>1. haCheck[h] \in BOOLEAN /\ due[h] \in BOOLEAN
    BY DEF TypeOK
  <2> HIDE DEF b
  <2> QED BY <2>1, Zenon DEF c, d
<1> HIDE DEF b, c, d
<1> QED BY <1>1, <1>2, <1>3 DEF TypeOK

LEMMA FailedKept ==
  ASSUME TypeOK, NEW h \in Reporters, HostInv(h), Kept, NEW network, FailedTurn(h, network),
         pc[h] \in Loop \cup Reports \cup {"top"},
         UNCHANGED <<dom, missed, skipped, moved>>
  PROVE  HostInv(h)'
<1>0. h \in Hosts
  BY ReporterAssumption
<1>1. /\ pc'[h] \in {"top", "dead"}
      /\ haCheck'[h] = TRUE \/ (haCheck'[h] = haCheck[h] /\ due'[h] = due[h])
  BY <1>0, FailedIs
<1>2. \A v \in Vms : (Left(h, v)' => Left(h, v)) /\ (Waits(h, v)' => Waits(h, v))
  BY <1>0, KeptIs
<1>3. Standing(h)'
  BY <1>0, <1>1 DEF HostInv, Standing, Loop, Reports, HaSteps, OwnerSteps
<1>4. ASSUME NEW v \in Vms, NEW marked, NEW steps, Ahead(h, v, marked, steps)
      PROVE  v \in marked \/ (pc'[h] = "top" /\ haCheck'[h] = TRUE) \/ ~Alive(h)'
  BY <1>0, <1>1, <1>4 DEF Ahead, HostInv, Standing, Loop, Reports, HaSteps, OwnerSteps, Alive
<1>5. \A v \in Vms : Left(h, v)' => Ahead(h, v, missed[h], OwnerSteps)'
  BY <1>2, <1>4 DEF HostInv, Ahead
<1>6. \A v \in Vms : Waits(h, v)' => Ahead(h, v, skipped[h], HaSteps)'
  BY <1>2, <1>4 DEF HostInv, Ahead
<1> QED BY <1>1, <1>3, <1>5, <1>6 DEF HostInv

\* A step inside the loop over the domains that keeps its current domain c:
\* what it left undone with c it marks, or comes back to.
LEMMA StepKept ==
  ASSUME TypeOK, NEW h \in Reporters, HostInv(h), Kept,
         pc[h] \in Loop, pc'[h] \in Loop,
         haCheck' = haCheck, due' = due, moved' = moved, todo' = todo, cur' = cur,
         missed[h] \subseteq missed'[h], skipped[h] \subseteq skipped'[h],
         \A v \in Vms : v # cur[h] => dom'[h][v] = dom[h][v],
         pc[h] \in OwnerSteps /\ Left(h, cur[h])' =>
           Left(h, cur[h]) /\ (pc'[h] \in OwnerSteps \/ cur[h] \in missed'[h]),
         pc[h] \notin OwnerSteps /\ Left(h, cur[h])' => Left(h, cur[h]),
         pc[h] \in HaSteps /\ Waits(h, cur[h])' =>
           Waits(h, cur[h]) /\ (pc'[h] \in HaSteps \/ cur[h] \in skipped'[h]),
         pc[h] \notin HaSteps /\ Waits(h, cur[h])' => Waits(h, cur[h]),
         pc'[h] = "undefine" /\ Foreign(h, cur[h])' =>
           dom'[h][cur[h]] # "on" \/ cur[h] \in moved[h]
  PROVE  HostInv(h)'
<1>0. h \in Hosts /\ cur[h] \in Vms
  BY ReporterAssumption, Values
<1>1. Standing(h)'
  BY <1>0 DEF HostInv, Standing, Loop, Reports, HaSteps, OwnerSteps
<1>2. ASSUME NEW v \in Vms, Left(h, v)'
      PROVE  Ahead(h, v, missed[h], OwnerSteps)'
  <2>1. Left(h, v)
    BY <1>0, <1>2, KeptIs
  <2>2. Ahead(h, v, missed[h], OwnerSteps)
    BY <2>1 DEF HostInv
  <2>3. v \in missed[h] \/ v \in todo[h] \/ (v = cur[h] /\ pc[h] \in OwnerSteps)
    BY <2>2 DEF Ahead, Alive, Loop, HaSteps, OwnerSteps
  <2>4. v = cur[h] /\ pc[h] \in OwnerSteps => pc'[h] \in OwnerSteps \/ v \in missed'[h]
    BY <1>2
  <2> QED BY <2>3, <2>4 DEF Ahead
<1>3. ASSUME NEW v \in Vms, Waits(h, v)'
      PROVE  Ahead(h, v, skipped[h], HaSteps)'
  <2>1. Waits(h, v)
    BY <1>0, <1>3, KeptIs
  <2>2. Ahead(h, v, skipped[h], HaSteps)
    BY <2>1 DEF HostInv
  <2>3. v \in skipped[h] \/ v \in todo[h] \/ (v = cur[h] /\ pc[h] \in HaSteps)
    BY <2>2 DEF Ahead, Alive, Loop, HaSteps, OwnerSteps
  <2>4. v = cur[h] /\ pc[h] \in HaSteps => pc'[h] \in HaSteps \/ v \in skipped'[h]
    BY <1>3
  <2> QED BY <2>3, <2>4 DEF Ahead
<1> QED BY <1>0, <1>1, <1>2, <1>3 DEF HostInv

\* The steps of the loop over the domains that do no more than that.
LEMMA GoneTo == ASSUME TypeOK, NEW h \in Hosts, NEW l, Goto(h, l) PROVE pc'[h] = l
  BY DEF TypeOK, Goto

LEMMA MissedIs ==
  ASSUME TypeOK, NEW h \in Hosts, OwnerMissed(h)
  PROVE  pc'[h] = "ha" /\ cur[h] \in missed'[h] /\ missed[h] \subseteq missed'[h]
  BY DEF TypeOK, OwnerMissed, Goto

LEMMA SkippedIs ==
  ASSUME TypeOK, NEW h \in Hosts, HaSkipped(h)
  PROVE  pc'[h] = "powerGet" /\ cur[h] \in skipped'[h] /\ skipped[h] \subseteq skipped'[h]
  BY DEF TypeOK, HaSkipped, Goto

LEMMA DomIs ==
  ASSUME TypeOK, NEW h \in Hosts, NEW v \in Vms, NEW s, SetDom(h, v, s)
  PROVE  /\ dom'[h][v] = s /\ \A u \in Vms : u # v => dom'[h][u] = dom[h][u]
         /\ \A g \in Hosts : g # h => dom'[g] = dom[g]
         /\ UNCHANGED obj
  BY DEF TypeOK, SetDom, At

LEMMA OwnerKept ==
  ASSUME TypeOK, NEW h \in Reporters, HostInv(h), CheckOwner(h) \/ Backup(h)
  PROVE  HostInv(h)'
<1>0. h \in Hosts /\ cur[h] \in Vms
  BY ReporterAssumption, Values
<1>1. UNCHANGED <<obj, dom, haCheck, due, moved, todo, cur, skipped>>
  BY DEF CheckOwner, Backup, objVars, nodeVars
<1>2. /\ missed' = missed \/ OwnerMissed(h)
      /\ \/ pc'[h] \in {"active", "backup"}
         \/ pc'[h] = "ha" /\ (OwnerMissed(h) \/ ~ Foreign(h, cur[h]))
      /\ pc[h] \in {"owner", "backup"}
  <2>1. CASE CheckOwner(h)
    <3>1. \/ UNCHANGED missed /\ Goto(h, "active")
          \/ UNCHANGED missed /\ Goto(h, "ha") /\ obj[cur[h]].host \in {h, Unknown}
          \/ UNCHANGED missed /\ Goto(h, "backup")
          \/ OwnerMissed(h)
      BY <2>1, Zenon DEF CheckOwner
    <3> QED BY <1>0, <2>1, <3>1, GoneTo, MissedIs DEF CheckOwner, Foreign
  <2>2. CASE Backup(h)
    BY <1>0, <2>2, GoneTo, MissedIs DEF Backup
  <2> QED BY <2>1, <2>2
<1>3. Kept
  BY <1>1 DEF Kept
<1>4. Foreign(h, cur[h])' = Foreign(h, cur[h])
  BY <1>1 DEF Foreign
<1> QED BY <1>0, <1>1, <1>2, <1>3, <1>4, StepKept, MissedIs, KeptIs
       DEF Loop, HaSteps, OwnerSteps, Left

LEMMA UndoKept ==
  ASSUME TypeOK, NEW h \in Reporters, HostInv(h), LookUp(h) \/ DestroyVm(h) \/ UndefineVm(h)
  PROVE  HostInv(h)'
<1>0. h \in Hosts /\ cur[h] \in Vms
  BY ReporterAssumption, Values
<1>1. UNCHANGED <<obj, haCheck, due, moved, todo, cur, skipped>>
  BY DEF LookUp, DestroyVm, UndefineVm, objVars, nodeVars, SetDom
<1> DEFINE d == dom[h][cur[h]]
<1>2. /\ pc[h] \in {"active", "destroy", "undefine"}
      /\ \/ OwnerMissed(h) /\ UNCHANGED dom
         \/ UNCHANGED <<dom, missed>> /\ pc'[h] = "ha" /\ d = "none"
         \/ UNCHANGED <<dom, missed>> /\ pc'[h] = "destroy"
         \/ UNCHANGED <<dom, missed>> /\ pc'[h] = "undefine" /\ d # "on"
         \/ SetDom(h, cur[h], "off") /\ UNCHANGED missed /\ pc'[h] = "undefine" /\ d # "none"
         \/ SetDom(h, cur[h], "none") /\ UNCHANGED missed /\ pc'[h] = "ha"
         \/ /\ pc[h] = "undefine" /\ d = "on"
            /\ UNCHANGED <<dom, missed>> /\ pc'[h] = "ha"
  <2>1. CASE LookUp(h)
    <3>1. \/ OwnerMissed(h) /\ UNCHANGED dom
          \/ UNCHANGED <<dom, missed>> /\ Goto(h, "ha") /\ d = "none"
          \/ UNCHANGED <<dom, missed>> /\ Goto(h, "destroy")
          \/ UNCHANGED <<dom, missed>> /\ Goto(h, "undefine") /\ d # "on"
      BY <2>1, Zenon DEF LookUp, objVars
    <3> QED BY <1>0, <2>1, <3>1, GoneTo DEF LookUp
  <2>2. CASE DestroyVm(h)
    BY <1>0, <2>2, GoneTo DEF DestroyVm, objVars
  <2>3. CASE UndefineVm(h)
    BY <1>0, <2>3, GoneTo DEF UndefineVm, objVars
  <2> QED BY <2>1, <2>2, <2>3
<1>3. Kept
  BY <1>1 DEF Kept
<1>4. Foreign(h, cur[h])' = Foreign(h, cur[h])
  BY <1>1 DEF Foreign
<1>5. /\ \A v \in Vms : v # cur[h] => dom'[h][v] = dom[h][v]
      /\ dom'[h][cur[h]] # "none" => d # "none"
      /\ dom'[h][cur[h]] = "cold" => d = "cold"
      /\ pc'[h] = "undefine" => dom'[h][cur[h]] # "on"
  BY <1>0, <1>2, DomIs, MissedIs
<1>6. /\ pc'[h] \in {"ha", "destroy", "undefine"}
      /\ missed[h] \subseteq missed'[h]
      /\ pc'[h] = "ha" => \/ cur[h] \in missed'[h]
                          \/ dom'[h][cur[h]] = "none"
                          \/ pc[h] = "undefine" /\ d = "on"
  BY <1>0, <1>2, DomIs, MissedIs
<1>7. pc[h] = "undefine" /\ Left(h, cur[h]) => d # "on"
  BY DEF HostInv, Left
<1>8. Left(h, cur[h])' => Left(h, cur[h]) /\ (pc'[h] \in OwnerSteps \/ cur[h] \in missed'[h])
  BY <1>4, <1>5, <1>6, <1>7, <1>1 DEF Left, OwnerSteps
<1>9. Waits(h, cur[h])' => Waits(h, cur[h])
  BY <1>1, <1>5 DEF Left, Waits, Foreign
<1> HIDE DEF d
<1>10. pc[h] \in Loop /\ pc[h] \in OwnerSteps /\ pc[h] \in HaSteps /\ pc'[h] \in Loop
       /\ pc'[h] \in HaSteps
  BY <1>2, <1>6 DEF Loop, HaSteps, OwnerSteps
<1> QED BY <1>1, <1>3, <1>5, <1>6, <1>8, <1>9, <1>10, StepKept

LEMMA HaKept ==
  ASSUME TypeOK, NEW h \in Reporters, HostInv(h), CheckHa(h) \/ StartVm(h)
  PROVE  HostInv(h)'
<1>0. h \in Hosts /\ cur[h] \in Vms
  BY ReporterAssumption, Values
<1>1. UNCHANGED <<obj, haCheck, due, moved, todo, cur, missed>>
  BY DEF CheckHa, StartVm, objVars, nodeVars, SetDom
<1> DEFINE d == dom[h][cur[h]]
<1>2. /\ pc[h] \in {"ha", "start"}
      /\ \/ HaSkipped(h) /\ UNCHANGED dom
         \/ UNCHANGED <<dom, skipped>> /\ pc'[h] = "start"
         \/ UNCHANGED <<dom, skipped>> /\ pc'[h] = "powerGet" /\ ~ Waits(h, cur[h])
         \/ /\ SetDom(h, cur[h], "on") /\ UNCHANGED skipped /\ pc'[h] = "powerGet"
            /\ d # "none"
  <2>1. CASE CheckHa(h)
    <3>1. \/ HaSkipped(h) /\ UNCHANGED dom
          \/ UNCHANGED <<dom, skipped>> /\ Goto(h, "start")
          \/ UNCHANGED <<dom, skipped>> /\ Goto(h, "powerGet") /\ ~ Waits(h, cur[h])
      BY <2>1, Zenon DEF CheckHa, objVars, Waits
    <3> QED BY <1>0, <2>1, <3>1, GoneTo DEF CheckHa
  <2>2. CASE StartVm(h)
    BY <1>0, <2>2, GoneTo DEF StartVm, objVars
  <2> QED BY <2>1, <2>2
<1>3. Kept
  BY <1>1 DEF Kept
<1>5. /\ \A v \in Vms : v # cur[h] => dom'[h][v] = dom[h][v]
      /\ dom'[h][cur[h]] # "none" => d # "none"
      /\ dom'[h][cur[h]] = "cold" => d = "cold"
  BY <1>0, <1>2, DomIs, SkippedIs
<1>6. /\ pc'[h] \in {"start", "powerGet"}
      /\ skipped[h] \subseteq skipped'[h]
      /\ pc'[h] = "powerGet" => \/ cur[h] \in skipped'[h]
                                \/ dom'[h][cur[h]] = "on"
                                \/ ~ Waits(h, cur[h])
  BY <1>0, <1>2, DomIs, SkippedIs
<1>7. (Left(h, cur[h])' => Left(h, cur[h])) /\ (Waits(h, cur[h])' => Waits(h, cur[h]))
  BY <1>1, <1>5 DEF Left, Waits, Foreign
<1>8. Waits(h, cur[h])' => pc'[h] \in HaSteps \/ cur[h] \in skipped'[h]
  BY <1>1, <1>6, <1>7 DEF Waits, HaSteps
<1> HIDE DEF d
<1>10. pc[h] \in Loop /\ pc[h] \notin OwnerSteps /\ pc[h] \in HaSteps /\ pc'[h] \in Loop
       /\ pc'[h] # "undefine"
  BY <1>2, <1>6 DEF Loop, HaSteps, OwnerSteps
<1> QED BY <1>1, <1>3, <1>5, <1>6, <1>7, <1>8, <1>10, StepKept

LEMMA PowerKept ==
  ASSUME TypeOK, NEW h \in Reporters, HostInv(h), PowerGet(h) \/ PowerRead(h) \/ PowerPut(h)
  PROVE  HostInv(h)'
<1>0. h \in Hosts /\ cur[h] \in Vms
  BY ReporterAssumption, Values
<1>1. UNCHANGED <<dom, todo, cur, missed, skipped, moved>>
  BY DEF PowerGet, PowerRead, PowerPut, objVars, nodeVars, history
<1>2. Kept
  <2>1. CASE UNCHANGED obj
    BY <2>1 DEF Kept
  <2>2. CASE WritePower(h)
    <3> DEFINE w == cur[h]
               s == seen[h]
    <3>1. Writes(w, h, s)
      BY <2>2, Zenon DEF Writes, WritePower
    <3>2. w \in Vms
      BY <1>0
    <3> HIDE DEF w, s
    <3>3. /\ \A u \in Vms : u # w => obj'[u] = obj[u]
          /\ obj'[w].exists = obj[w].exists /\ obj'[w].host = obj[w].host
      BY <3>1, <3>2, WrittenIs
    <3> QED BY <3>2, <3>3 DEF Kept
  <2> QED BY <2>1, <2>2 DEF PowerGet, PowerRead, PowerPut, objVars
<1>3. pc[h] \in {"powerGet", "powerRead", "powerPut"}
  BY DEF PowerGet, PowerRead, PowerPut
<1>4. CASE \E network : FailedTurn(h, network)
  BY <1>1, <1>2, <1>3, <1>4, FailedKept DEF Loop
<1>5. CASE ~ \E network : FailedTurn(h, network)
  <2>1. UNCHANGED <<haCheck, due>>
    BY <1>5, Zenon DEF PowerGet, PowerRead, PowerPut, history
  <2>2. Goto(h, "next") \/ Goto(h, "powerRead") \/ Goto(h, "powerPut")
    BY <1>5, Zenon DEF PowerGet, PowerRead, PowerPut
  <2>3. pc'[h] \in {"next", "powerRead", "powerPut"}
    BY <1>0, <2>2, GoneTo
  <2>4. (Left(h, cur[h])' => Left(h, cur[h])) /\ (Waits(h, cur[h])' => Waits(h, cur[h]))
    BY <1>0, <1>1, <1>2, KeptIs
  <2>5. pc[h] \in Loop /\ pc[h] \notin HaSteps /\ pc[h] \notin OwnerSteps /\ pc'[h] \in Loop
        /\ pc'[h] # "undefine"
    BY <1>3, <2>3 DEF Loop, HaSteps, OwnerSteps
  <2> QED BY <1>1, <1>2, <2>1, <2>4, <2>5, StepKept
<1> QED BY <1>4, <1>5

\* The next domain, or the end of the check: nothing is ahead that was not met.
LEMMA NextVmKept ==
  ASSUME TypeOK, NEW h \in Reporters, HostInv(h), NextVm(h)
  PROVE  HostInv(h)'
<1>0. h \in Hosts
  BY ReporterAssumption
<1>1. UNCHANGED <<obj, dom, due, moved, missed, skipped>> /\ pc[h] = "next"
  BY DEF NextVm, objVars, nodeVars, history
<1>2. Alive(h) /\ pc[h] \in Loop /\ pc[h] \notin HaSteps /\ pc[h] \notin OwnerSteps
      /\ pc[h] # "top"
  BY <1>1 DEF Alive, Loop, HaSteps, OwnerSteps
<1>3. /\ \A v \in Vms : Left(h, v) => v \in missed[h] \cup todo[h]
      /\ \A v \in Vms : Waits(h, v) => v \in skipped[h] \cup todo[h]
  BY <1>2 DEF HostInv, Ahead
<1>4. \A v \in Vms : (Left(h, v)' = Left(h, v)) /\ (Waits(h, v)' = Waits(h, v))
  BY <1>1 DEF Left, Waits, Foreign
<1>5. due[h] = FALSE /\ haCheck[h] = TRUE
  BY <1>1, <1>2 DEF HostInv, Standing
<1>6. CASE todo[h] = {} /\ haCheck' = [haCheck EXCEPT ![h] = FALSE] /\ Goto(h, "status")
  <2>1. pc'[h] = "status" /\ haCheck'[h] = FALSE
    BY <1>0, <1>6, GoneTo DEF TypeOK
  <2>2. Standing(h)'
    BY <1>0, <1>1, <1>5, <2>1 DEF Standing, Loop, HaSteps, OwnerSteps
  <2>3. \A v \in Vms : (Left(h, v)' => v \in missed'[h]) /\ (Waits(h, v)' => v \in skipped'[h])
    BY <1>1, <1>3, <1>4, <1>6
  <2> QED BY <2>1, <2>2, <2>3 DEF HostInv, Ahead
<1>7. CASE /\ \E v \in todo[h] : /\ cur' = [cur EXCEPT ![h] = v]
                                 /\ todo' = [todo EXCEPT ![h] = @ \ {v}]
           /\ Goto(h, "owner") /\ UNCHANGED haCheck
  <2>1. PICK u \in todo[h] : /\ cur' = [cur EXCEPT ![h] = u]
                             /\ todo' = [todo EXCEPT ![h] = @ \ {u}]
    BY <1>7
  <2>2. pc'[h] = "owner" /\ cur'[h] = u /\ todo'[h] = todo[h] \ {u} /\ haCheck' = haCheck
    BY <1>0, <1>7, <2>1, GoneTo DEF TypeOK
  <2>3. Standing(h)'
    BY <1>0, <1>1, <1>5, <2>2 DEF Standing, Loop, HaSteps, OwnerSteps, Reports, HostInv
  <2>4. /\ \A v \in Vms : Left(h, v)' => v \in missed'[h] \cup todo'[h] \cup {cur'[h]}
        /\ \A v \in Vms : Waits(h, v)' => v \in skipped'[h] \cup todo'[h] \cup {cur'[h]}
    BY <1>1, <1>3, <1>4, <2>2
  <2>5. pc'[h] \in Loop /\ pc'[h] \in OwnerSteps /\ pc'[h] \in HaSteps
    BY <2>2 DEF Loop, HaSteps, OwnerSteps
  <2> QED BY <2>2, <2>3, <2>4, <2>5 DEF HostInv, Ahead
<1> QED BY <1>6, <1>7 DEF NextVm

LEMMA TopKept ==
  ASSUME TypeOK, NEW h \in Reporters, HostInv(h), Top(h)
  PROVE  HostInv(h)'
<1>0. h \in Hosts /\ haCheck[h] \in BOOLEAN /\ due[h] \in BOOLEAN
  BY ReporterAssumption DEF TypeOK
<1>1. UNCHANGED <<obj, dom, cur>> /\ pc[h] = "top"
  BY DEF Top, objVars, NodeStatusFails
<1>2. Kept
  BY <1>1 DEF Kept
<1>4. \/ UNCHANGED <<missed, skipped, moved>> /\ \E network : FailedTurn(h, network)
      \/ /\ UNCHANGED haCheck
         /\ \/ /\ haCheck[h] = TRUE /\ Goto(h, "next")
               /\ todo' = [todo EXCEPT ![h] = {v \in Vms : dom[h][v] # "none"}]
               /\ missed' = [missed EXCEPT ![h] = {}]
               /\ skipped' = [skipped EXCEPT ![h] = {}]
               /\ due' = [due EXCEPT ![h] = FALSE]
            \/ /\ haCheck[h] = FALSE /\ Goto(h, "status")
               /\ UNCHANGED <<missed, skipped, due, moved>>
  BY <1>0, Zenon DEF Top, history, NodeStatusFails
<1>5. CASE UNCHANGED <<missed, skipped, moved>> /\ \E network : FailedTurn(h, network)
  BY <1>1, <1>2, <1>5, FailedKept
<1>6. CASE /\ UNCHANGED haCheck /\ due' = [due EXCEPT ![h] = FALSE]
           /\ haCheck[h] = TRUE /\ Goto(h, "next")
           /\ todo' = [todo EXCEPT ![h] = {v \in Vms : dom[h][v] # "none"}]
           /\ missed' = [missed EXCEPT ![h] = {}]
           /\ skipped' = [skipped EXCEPT ![h] = {}]
  <2>1. pc'[h] = "next" /\ due'[h] = FALSE /\ haCheck'[h] = TRUE
        /\ todo'[h] = {v \in Vms : dom[h][v] # "none"}
    BY <1>0, <1>6, GoneTo DEF TypeOK
  <2>2. Standing(h)'
    BY <2>1 DEF Standing, Reports
  <2>3. \A v \in Vms : (Left(h, v)' => v \in todo'[h]) /\ (Waits(h, v)' => v \in todo'[h])
    BY <1>1, <2>1 DEF Left, Waits
  <2>4. pc'[h] \in Loop
    BY <2>1 DEF Loop
  <2> QED BY <2>1, <2>2, <2>3, <2>4 DEF HostInv, Ahead
<1>7. CASE /\ UNCHANGED <<haCheck, missed, skipped, due, moved>>
           /\ haCheck[h] = FALSE /\ Goto(h, "status")
  <2>0. due[h] = FALSE
    BY <1>0, <1>7 DEF HostInv, Standing
  <2>1. pc'[h] = "status" /\ due'[h] = FALSE /\ haCheck'[h] = FALSE
    BY <1>0, <1>7, <2>0, GoneTo DEF TypeOK
  <2>5. \A v \in Vms : (Left(h, v)' = Left(h, v)) /\ (Waits(h, v)' = Waits(h, v))
    BY <1>1, <1>7 DEF Left, Waits, Foreign
  <2>2. Standing(h)'
    BY <1>0, <1>7, <2>1 DEF Standing, Loop, HaSteps, OwnerSteps
  <2>3. /\ \A v \in Vms : Left(h, v) => v \in missed[h]
        /\ \A v \in Vms : Waits(h, v) => v \in skipped[h]
    BY <1>1, <1>7 DEF HostInv, Ahead, Loop, HaSteps, OwnerSteps, Alive
  <2> QED BY <1>7, <2>1, <2>2, <2>3, <2>5 DEF HostInv, Ahead
<1> QED BY <1>4, <1>5, <1>6, <1>7

\* The report of the node, the end of nodeHA and the end of the turn.
LEMMA ReportKept ==
  ASSUME TypeOK, NEW h \in Reporters, HostInv(h), ReportNode(h) \/ EnableHa(h) \/ CheckConn(h)
  PROVE  HostInv(h)'
<1>0. h \in Hosts
  BY ReporterAssumption
<1>1. UNCHANGED <<obj, dom, cur, todo, missed, skipped, moved>> /\ pc[h] \in Reports
  BY DEF ReportNode, EnableHa, CheckConn, objVars, history, Reports
<1>2. Kept
  BY <1>1 DEF Kept
<1>3. CASE \E network : FailedTurn(h, network)
  BY <1>1, <1>2, <1>3, FailedKept
<1>4. CASE ~ \E network : FailedTurn(h, network)
  <2>1. /\ UNCHANGED <<haCheck, due>>
        /\ Goto(h, "enable") \/ Goto(h, "conn") \/ Goto(h, "top")
    BY <1>4, Zenon DEF ReportNode, EnableHa, CheckConn, history
  <2>2. pc'[h] \in {"enable", "conn", "top"}
    BY <1>0, <2>1, GoneTo
  <2>3. haCheck'[h] = FALSE /\ due'[h] = FALSE /\ haCheck[h] = FALSE
    BY <1>1, <2>1 DEF HostInv, Standing
  <2>4. Standing(h)'
    BY <1>0, <2>2, <2>3 DEF Standing, Loop, HaSteps, OwnerSteps, Reports
  <2>5. \A v \in Vms : (Left(h, v)' = Left(h, v)) /\ (Waits(h, v)' = Waits(h, v))
    BY <1>1 DEF Left, Waits, Foreign
  <2>6. /\ \A v \in Vms : Left(h, v) => v \in missed[h]
        /\ \A v \in Vms : Waits(h, v) => v \in skipped[h]
    BY <1>1, <2>3 DEF HostInv, Ahead, Loop, HaSteps, OwnerSteps, Alive, Reports
  <2> QED BY <1>1, <2>2, <2>4, <2>5, <2>6 DEF HostInv, Ahead
<1> QED BY <1>3, <1>4

LEMMA TurnKept ==
  ASSUME TypeOK, NEW h \in Reporters, HostInv(h), Turn(h)
  PROVE  HostInv(h)'
  BY TopKept, NextVmKept, OwnerKept, UndoKept, HaKept, PowerKept, ReportKept DEF Turn

\* A turn does not give an object to anybody.
LEMMA TurnGives ==
  ASSUME TypeOK, NEW g \in Reporters, Turn(g)
  PROVE  Kept
<1>1. CASE UNCHANGED obj
  BY <1>1 DEF Kept
<1>2. CASE WritePower(g)
  <2> DEFINE w == cur[g]
             s == seen[g]
  <2>1. Writes(w, g, s)
    BY <1>2, Zenon DEF Writes, WritePower
  <2>2. w \in Vms
    BY Values, ReporterAssumption
  <2> HIDE DEF w, s
  <2>3. /\ \A u \in Vms : u # w => obj'[u] = obj[u]
        /\ obj'[w].exists = obj[w].exists /\ obj'[w].host = obj[w].host
    BY <2>1, <2>2, WrittenIs
  <2> QED BY <2>2, <2>3 DEF Kept
<1>3. UNCHANGED obj \/ WritePower(g)
  BY DEF Turn, Top, NextVm, CheckOwner, Backup, LookUp, DestroyVm, UndefineVm,
     CheckHa, StartVm, PowerGet, PowerRead, PowerPut, ReportNode, EnableHa, CheckConn,
     objVars, SetDom, NodeStatusFails
<1> QED BY <1>1, <1>2, <1>3

LEMMA TurnElsewhere ==
  ASSUME TypeOK, NEW g \in Reporters, Turn(g), NEW h \in Hosts, h # g
  PROVE  Standstill(h) /\ dom'[h] = dom[h] /\ moved'[h] = moved[h]
<1>1. pc'[h] = pc[h] /\ cur'[h] = cur[h]
  <2>1. /\ \E l : pc' = [pc EXCEPT ![g] = l]
        /\ cur' = cur \/ \E x : cur' = [cur EXCEPT ![g] = x]
    BY TurnFrame, Zenon
  <2> QED BY <2>1 DEF TypeOK
<1>2. /\ haCheck' = haCheck \/ \E x : haCheck' = [haCheck EXCEPT ![g] = x]
      /\ due' = due \/ \E x : due' = [due EXCEPT ![g] = x]
  <2>1. \A network : FailedTurn(g, network) =>
           /\ haCheck' = haCheck \/ \E x : haCheck' = [haCheck EXCEPT ![g] = x]
           /\ due' = due \/ \E x : due' = [due EXCEPT ![g] = x]
    BY Zenon DEF FailedTurn
  <2> QED BY <2>1, Zenon DEF Turn, Top, NextVm, CheckOwner, Backup, LookUp, DestroyVm,
     UndefineVm, CheckHa, StartVm, PowerGet, PowerRead, PowerPut, ReportNode, EnableHa,
     CheckConn, history, NodeStatusFails
<1>3. /\ todo' = todo \/ \E x : todo' = [todo EXCEPT ![g] = x]
      /\ missed' = missed \/ \E x : missed' = [missed EXCEPT ![g] = x]
      /\ skipped' = skipped \/ \E x : skipped' = [skipped EXCEPT ![g] = x]
      /\ dom' = dom \/ \E x : dom' = [dom EXCEPT ![g] = x]
      /\ moved' = moved \/ \E x : moved' = [moved EXCEPT ![g] = x]
  BY Zenon DEF Turn, Top, NextVm, CheckOwner, Backup, LookUp, DestroyVm,
     UndefineVm, CheckHa, StartVm, PowerGet, PowerRead, PowerPut, ReportNode, EnableHa,
     CheckConn, history, objVars, SetDom, At, OwnerMissed, HaSkipped, NodeStatusFails
<1>4. haCheck'[h] = haCheck[h] /\ due'[h] = due[h]
  BY <1>2 DEF TypeOK
<1>5. todo'[h] = todo[h] /\ missed'[h] = missed[h] /\ skipped'[h] = skipped[h]
      /\ dom'[h] = dom[h] /\ moved'[h] = moved[h]
  BY <1>3 DEF TypeOK
<1> QED BY <1>1, <1>4, <1>5 DEF Standstill

\* Crashes, restarts and the network.
LEMMA HostKept ==
  ASSUME TypeOK, NEW g \in Reporters, NEW h \in Hosts, HostInv(h),
         Restart(g) \/ DisableHa(g) \/ CrashHost(g) \/ BootHost(g) \/ Cut(g) \/ Heal(g)
  PROVE  HostInv(h)'
<1>1. Kept
  BY DEF Restart, DisableHa, CrashHost, BootHost, Cut, Heal, objVars, Kept
<1>2. CASE DisableHa(g) \/ Cut(g) \/ Heal(g)
  <2>1. UNCHANGED <<pc, haCheck, due, moved, todo, cur, missed, skipped, dom>>
    BY <1>2 DEF DisableHa, Cut, Heal, objVars, repVars, history
  <2> QED BY <1>1, <2>1, StillKept DEF Standstill
<1>3. CASE Restart(g) \/ BootHost(g)
  <2>1. /\ pc' = [pc EXCEPT ![g] = "top"] /\ haCheck' = [haCheck EXCEPT ![g] = TRUE]
        /\ due' = [due EXCEPT ![g] = TRUE]
        /\ UNCHANGED <<todo, cur, moved, missed, skipped, dom>>
    BY <1>3 DEF Restart, BootHost, Fresh, Goto, objVars
  <2>2. CASE h # g
    <3>1. Standstill(h) /\ dom'[h] = dom[h] /\ moved'[h] = moved[h]
      BY <2>1, <2>2 DEF Standstill, TypeOK
    <3> QED BY <1>1, <3>1, StillKept
  <2>3. CASE h = g
    <3>1. pc'[h] = "top" /\ haCheck'[h] = TRUE
      BY <2>1, <2>3 DEF TypeOK
    <3>2. Standing(h)'
      BY <2>3, <3>1 DEF Standing, Loop, HaSteps, OwnerSteps, Reports
    <3> QED BY <3>1, <3>2 DEF HostInv, Ahead
  <2> QED BY <2>2, <2>3
<1>4. CASE CrashHost(g)
  <2>1. /\ pc' = [pc EXCEPT ![g] = "down"] /\ \E x : dom' = [dom EXCEPT ![g] = x]
        /\ UNCHANGED <<haCheck, due, moved, todo, cur, missed, skipped>>
    BY <1>4, Zenon DEF CrashHost, Goto, history
  <2>2. CASE h # g
    <3>1. Standstill(h) /\ dom'[h] = dom[h] /\ moved'[h] = moved[h]
      BY <2>1, <2>2 DEF Standstill, TypeOK
    <3> QED BY <1>1, <3>1, StillKept
  <2>3. CASE h = g
    <3>1. pc'[h] = "down"
      BY <2>1, <2>3 DEF TypeOK
    <3>2. Standing(h)'
      BY <2>1, <2>3, <3>1 DEF Standing, Loop, HaSteps, OwnerSteps, Reports, HostInv
    <3> QED BY <3>1, <3>2 DEF HostInv, Ahead, Alive
  <2> QED BY <2>2, <2>3
<1> QED BY <1>2, <1>3, <1>4

\* A VM is moved: the reporter is going to look at it, or it is marked as moved.
LEMMA MovedKept ==
  ASSUME TypeOK, NEW v \in Vms, Moves(v), NEW h \in Hosts, HostInv(h),
         \A u \in Vms : u # v => obj'[u] = obj[u] /\ dom'[h][u] = dom[h][u],
         obj'[v].exists => obj[v].exists, dom'[h][v] = "cold" => dom[h][v] = "cold"
  PROVE  HostInv(h)'
<1>1. Standstill(h)
  BY DEF Moves, Standstill, repVars
<1>2. moved[h] \subseteq moved'[h] /\ (CheckDue(h) \/ v \in moved'[h])
  <2>1. moved'[h] = IF CheckDue(h) THEN moved[h] ELSE moved[h] \cup {v}
    BY Zenon DEF Moves
  <2> QED BY <2>1
<1>3. CheckDue(h) => ~Alive(h) \/ (haCheck[h] = TRUE /\ pc[h] = "top")
  <2>1. due[h] \in BOOLEAN /\ pc[h] \in Steps
    BY DEF TypeOK
  <2> QED BY <2>1 DEF CheckDue, Alive, HostInv, Standing, Steps, Loop, Reports, HaSteps,
             OwnerSteps
<1>4. \A u \in Vms : u # v => (Left(h, u)' => Left(h, u))
  BY <1>2 DEF Left, Foreign
<1>12. \A u \in Vms : Waits(h, u)' => Waits(h, u)
  BY DEF Waits
<1>5. Standing(h)'
  BY <1>1 DEF HostInv, Standing, Standstill
<1>6. \A u \in Vms :
        /\ Ahead(h, u, missed[h], OwnerSteps) => Ahead(h, u, missed[h], OwnerSteps)'
        /\ Ahead(h, u, skipped[h], HaSteps) => Ahead(h, u, skipped[h], HaSteps)'
  BY <1>1 DEF Ahead, Standstill, Alive, Loop, OwnerSteps, HaSteps
<1>7. CheckDue(h) => Ahead(h, v, missed[h], OwnerSteps)
  BY <1>3 DEF Ahead
<1>8. v \in moved'[h] => ~Left(h, v)'
  BY DEF Left
<1>9. ASSUME NEW u \in Vms, Left(h, u)' PROVE Ahead(h, u, missed[h], OwnerSteps)'
  <2>1. CASE u = v
    BY <1>2, <1>6, <1>7, <1>8, <1>9, <2>1
  <2>2. CASE u # v
    BY <1>4, <1>6, <1>9, <2>2 DEF HostInv
  <2> QED BY <2>1, <2>2
<1>10. ASSUME NEW u \in Vms, Waits(h, u)' PROVE Ahead(h, u, skipped[h], HaSteps)'
  BY <1>6, <1>10, <1>12 DEF HostInv
<1>11. pc'[h] = "undefine" /\ Foreign(h, cur[h])' =>
         dom'[h][cur'[h]] # "on" \/ cur'[h] \in moved'[h]
  <2> SUFFICES ASSUME pc'[h] = "undefine", Foreign(h, cur[h])'
               PROVE  dom'[h][cur'[h]] # "on" \/ cur'[h] \in moved'[h]
    OBVIOUS
  <2>1. pc[h] = "undefine" /\ cur'[h] = cur[h] /\ cur[h] \in Vms
    BY <1>1, Values DEF Standstill
  <2>2. CASE cur[h] = v
    BY <1>2, <1>3, <2>1, <2>2 DEF Alive
  <2>3. CASE cur[h] # v
    <3>1. obj'[cur[h]] = obj[cur[h]] /\ dom'[h][cur[h]] = dom[h][cur[h]]
      BY <2>1, <2>3
    <3>2. Foreign(h, cur[h])
      BY <2>1, <3>1 DEF Foreign
    <3> QED BY <1>2, <2>1, <3>1, <3>2 DEF HostInv
  <2> QED BY <2>2, <2>3
<1> QED BY <1>5, <1>9, <1>10, <1>11 DEF HostInv

\* Another host for an object, and other states for its domains, are about one VM.
LEMMA SetHostIs ==
  ASSUME TypeOK, NEW v \in Vms, NEW g, SetHost(v, g)
  PROVE  /\ \A u \in Vms : u # v => obj'[u] = obj[u]
         /\ obj'[v].exists = obj[v].exists
  BY DEF TypeOK, SetHost, Object

LEMMA FailoverKept ==
  ASSUME TypeOK, NEW v \in Vms, NEW f \in Hosts, NEW g \in Hosts, Failover(v, f, g),
         NEW h \in Hosts, HostInv(h)
  PROVE  HostInv(h)'
<1>1. /\ \A u \in Vms : u # v => dom'[h][u] = dom[h][u]
      /\ dom'[h][v] = "cold" => dom[h][v] = "cold"
  BY DEF Failover, TypeOK, At
<1> QED BY <1>1, SetHostIs, MovedKept DEF Failover

LEMMA MigrateKept ==
  ASSUME TypeOK, NEW v \in Vms, NEW f \in Hosts, NEW g \in Hosts, Migrate(v, f, g),
         NEW h \in Hosts, HostInv(h)
  PROVE  HostInv(h)'
<1>1. /\ \A u \in Vms : u # v => dom'[h][u] = dom[h][u]
      /\ dom'[h][v] = "cold" => dom[h][v] = "cold"
  <2>1. PICK left \in {"off", "none"} : dom' = At(At(dom, f, v, left), g, v, "on")
    BY Zenon DEF Migrate
  <2> DEFINE d == At(dom, f, v, left)
  <2>2. left \in DomState
    BY DEF DomState
  <2>3. /\ d \in [Hosts -> [Vms -> DomState]] /\ \A u \in Vms : u # v => d[h][u] = dom[h][u]
        /\ d[h][v] = "cold" => dom[h][v] = "cold"
    BY <2>2 DEF TypeOK, At
  <2> HIDE DEF d
  <2>4. dom' = At(d, g, v, "on")
    BY <2>1 DEF d
  <2> QED BY <2>3, <2>4 DEF At
<1> QED BY <1>1, MovedKept DEF Migrate

LEMMA RelabelKept ==
  ASSUME TypeOK, NEW v \in Vms, NEW g \in Hosts, Relabel(v, g), NEW h \in Hosts, HostInv(h)
  PROVE  HostInv(h)'
  BY SetHostIs, MovedKept DEF Relabel

LEMMA ClusterKept ==
  ASSUME TypeOK, ClusterStep, NEW h \in Hosts, HostInv(h)
  PROVE  HostInv(h)'
<1>1. ASSUME NEW v \in Vms, Remove(v) \/ \E g \in Hosts : Push(g, v)
      PROVE  HostInv(h)'
  <2>1. Standstill(h) /\ dom'[h] = dom[h] /\ moved'[h] = moved[h]
    BY <1>1 DEF Remove, Push, Standstill, repVars, nodeVars, history
  <2>2. Kept
    <3>1. CASE Remove(v)
      <4> DEFINE o == [obj[v] EXCEPT !.exists = FALSE, !.rv = obj[v].rv + 1]
      <4>1. obj' = [obj EXCEPT ![v] = o]
        BY <3>1, Zenon DEF Remove
      <4>2. obj[v] \in Object
        BY DEF TypeOK
      <4>3. ~ o.exists
        BY <4>2, Zenon DEF Object
      <4> HIDE DEF o
      <4> QED BY <4>1, <4>3 DEF Kept, TypeOK
    <3>2. ASSUME NEW g \in Hosts, Push(g, v) PROVE Kept
      <4> DEFINE s == ver[g][v]
      <4>1. Writes(v, g, s)
        BY <3>2, Zenon DEF Push, Writes
      <4> HIDE DEF s
      <4>2. /\ \A u \in Vms : u # v => obj'[u] = obj[u]
            /\ obj'[v].exists = obj[v].exists /\ obj'[v].host = obj[v].host
        BY <4>1, WrittenIs
      <4> QED BY <4>2 DEF Kept
    <3> QED BY <1>1, <3>1, <3>2
  <2> QED BY <2>1, <2>2, StillKept
<1>2. ASSUME NEW g \in Reporters, NEW v \in Vms, ChangeDom(g, v)
      PROVE  HostInv(h)'
  <2>0. g \in Hosts
    BY ReporterAssumption
  <2>1. Standstill(h) /\ UNCHANGED <<obj, moved>>
    BY <1>2 DEF ChangeDom, SetDom, Standstill, repVars, nodeVars, history
  <2>2. /\ \A x \in Hosts : x # g => dom'[x] = dom[x]
        /\ \A u \in Vms : u # v => dom'[g][u] = dom[g][u]
        /\ dom'[g][v] \in {"on", "off"} /\ dom[g][v] # "none"
        /\ dom'[g][v] = "on" => ~ Foreign(g, v)
    <3>1. \/ dom[g][v] \in {"cold", "off"} /\ ~ Foreign(g, v) /\ SetDom(g, v, "on")
          \/ dom[g][v] = "on" /\ SetDom(g, v, "off")
      BY <1>2, Zenon DEF ChangeDom
    <3> QED BY <2>0, <3>1, DomIs
  <2>3. Kept
    BY <2>1 DEF Kept
  <2>4. CASE h # g
    BY <2>1, <2>2, <2>3, <2>4, StillKept
  <2>5. CASE h = g
    <3>1. \A u \in Vms : Foreign(h, u)' = Foreign(h, u)
      BY <2>1 DEF Foreign
    <3>2. \A u \in Vms : (Left(h, u)' => Left(h, u)) /\ (Waits(h, u)' => Waits(h, u))
      <4> SUFFICES ASSUME NEW u \in Vms
                   PROVE  (Left(h, u)' => Left(h, u)) /\ (Waits(h, u)' => Waits(h, u))
        OBVIOUS
      <4>1. CASE u = v
        BY <2>1, <2>2, <2>5, <4>1 DEF Left, Waits, Foreign
      <4>2. CASE u # v
        BY <2>1, <2>2, <2>5, <4>2 DEF Left, Waits, Foreign
      <4> QED BY <4>1, <4>2
    <3>3. Standing(h)'
      BY <2>1 DEF HostInv, Standing, Standstill
    <3>4. \A u \in Vms : \A steps :
             /\ Ahead(h, u, missed[h], steps) => Ahead(h, u, missed[h], steps)'
             /\ Ahead(h, u, skipped[h], steps) => Ahead(h, u, skipped[h], steps)'
      BY <2>1 DEF Ahead, Standstill, Alive
    <3>5. ASSUME pc'[h] = "undefine", Foreign(h, cur[h])'
          PROVE  dom'[h][cur'[h]] # "on" \/ cur'[h] \in moved'[h]
      <4>1. cur[h] \in Vms /\ cur'[h] = cur[h] /\ pc[h] = "undefine"
        BY <2>1, <3>5, Values DEF Standstill
      <4>2. Foreign(h, cur[h])
        BY <2>1, <3>5, <4>1 DEF Foreign
      <4>3. dom[h][cur[h]] # "on" \/ cur[h] \in moved[h]
        BY <4>1, <4>2 DEF HostInv
      <4> QED BY <2>1, <2>2, <2>5, <4>1, <4>2, <4>3
    <3>6. pc'[h] = "undefine" /\ Foreign(h, cur[h])' =>
            dom'[h][cur'[h]] # "on" \/ cur'[h] \in moved'[h]
      BY <3>5
    <3>7. cur'[h] = cur[h]
      BY <2>1 DEF Standstill
    <3> QED BY <3>2, <3>3, <3>4, <3>6, <3>7, <2>1 DEF HostInv, Foreign
  <2> QED BY <2>4, <2>5
<1>3. ASSUME NEW v \in Vms, NEW f \in Hosts, NEW g \in Hosts, Failover(v, f, g)
      PROVE  HostInv(h)'
  BY <1>3, FailoverKept
<1>4. ASSUME NEW v \in Vms, NEW f \in Hosts, NEW g \in Hosts, Migrate(v, f, g)
      PROVE  HostInv(h)'
  BY <1>4, MigrateKept
<1>5. ASSUME NEW v \in Vms, NEW g \in Hosts, Relabel(v, g)
      PROVE  HostInv(h)'
  BY <1>5, RelabelKept
<1> QED BY <1>1, <1>2, <1>3, <1>4, <1>5 DEF ClusterStep

LEMMA InitChecks == Init => \A h \in Hosts : HostInv(h)
<1> SUFFICES ASSUME Init, NEW h \in Hosts PROVE HostInv(h)
  OBVIOUS
<1>1. /\ pc[h] = "top" \/ (pc[h] = "peer" /\ h \notin Reporters)
      /\ pc[h] = "top" => h \in Reporters
      /\ haCheck[h] = TRUE
  BY DEF Init
<1>2. Standing(h)
  BY <1>1 DEF Standing, Loop, HaSteps, OwnerSteps, Reports
<1> QED BY <1>1, <1>2 DEF HostInv, Ahead, Alive

LEMMA NextChecks ==
  ASSUME TypeOK, \A h \in Hosts : HostInv(h), [Next]_vars
  PROVE  (\A h \in Hosts : HostInv(h))'
<1> SUFFICES ASSUME NEW h \in Hosts PROVE HostInv(h)'
  OBVIOUS
<1>0. HostInv(h)
  OBVIOUS
<1>1. CASE UNCHANGED vars
  <2>1. Standstill(h) /\ dom'[h] = dom[h] /\ moved'[h] = moved[h] /\ Kept
    BY <1>1 DEF vars, objVars, repVars, nodeVars, history, Standstill, Kept
  <2> QED BY <1>0, <2>1, StillKept
<1>2. ASSUME NEW g \in Reporters, Turn(g)
      PROVE  HostInv(h)'
  <2>1. CASE h = g
    BY <1>0, <1>2, <2>1, TurnKept
  <2>2. CASE h # g
    BY <1>0, <1>2, <2>2, TurnGives, TurnElsewhere, StillKept
  <2> QED BY <2>1, <2>2
<1>3. ASSUME NEW g \in Reporters,
             Restart(g) \/ DisableHa(g) \/ CrashHost(g) \/ BootHost(g) \/ Cut(g) \/ Heal(g)
      PROVE  HostInv(h)'
  BY <1>0, <1>3, HostKept
<1>4. CASE ClusterStep
  BY <1>0, <1>4, ClusterKept
<1>5. CASE \E g \in Reporters :
             Turn(g) \/ (Restart(g) \/ DisableHa(g) \/ CrashHost(g) \/ BootHost(g)
                         \/ Cut(g) \/ Heal(g))
  BY <1>2, <1>3, <1>5
<1> QED BY <1>1, <1>4, <1>5, NextIs, Zenon

LEMMA Checks == Spec => [](TypeOK /\ \A h \in Hosts : HostInv(h))
<1>1. Init => TypeOK /\ \A h \in Hosts : HostInv(h)
  BY InitTyped, InitChecks
<1>2. (TypeOK /\ \A h \in Hosts : HostInv(h)) /\ [Next]_vars
        => (TypeOK /\ \A h \in Hosts : HostInv(h))'
  BY NextTyped, NextChecks
<1> QED BY <1>1, <1>2, PTL DEF Spec

\* A reporter that is content with its host has no domain there that belongs to
\* another host, unless its check of that domain failed or the VM was moved since
\* the check began while no other was due.
THEOREM NothingForeignLeft == Spec => []ForeignGone
<1>1. (TypeOK /\ \A h \in Hosts : HostInv(h)) => ForeignGone
  BY DEF ForeignGone, HostInv, Left, Ahead, Standing
<1> QED BY <1>1, Checks, PTL

\* A node gets its HA back only when its VMs with HA were started or are known to
\* have failed.
THEOREM EnabledOnlyAfterCheck == Spec => EnabledAfterCheck
<1>1. ASSUME TypeOK, \A h \in Hosts : HostInv(h), Next, NEW h \in Hosts,
             nodeHA[h], ~ nodeHA'[h], NEW v \in HaVms,
             obj[v].exists, obj[v].host = h, dom[h][v] = "cold"
      PROVE  v \in skipped[h]
  <2>1. h \in Reporters /\ pc[h] = "enable"
    <3>1. PICK g \in Reporters : pc[g] = "enable" /\ nodeHA' = [nodeHA EXCEPT ![g] = FALSE]
      <4>0. nodeHA' # nodeHA /\ \A g : nodeHA' # [nodeHA EXCEPT ![g] = TRUE]
        <5>1. nodeHA \in [Hosts -> BOOLEAN] /\ nodeHA[h] = TRUE /\ nodeHA'[h] # TRUE
          BY <1>1 DEF TypeOK
        <5> QED BY <5>1
      <4>1. ClusterStep => nodeHA' = nodeHA
        BY DEF ClusterStep, ChangeDom, Push, Failover, Migrate, Relabel, Remove, Moves,
           nodeVars
      <4>2. ASSUME NEW g \in Reporters,
                   Restart(g) \/ DisableHa(g) \/ CrashHost(g) \/ BootHost(g) \/ Cut(g)
                   \/ Heal(g)
            PROVE  nodeHA' = nodeHA \/ nodeHA' = [nodeHA EXCEPT ![g] = TRUE]
        BY <4>2 DEF Restart, DisableHa, CrashHost, BootHost, Cut, Heal, nodeVars
      <4>3. ASSUME NEW g \in Reporters, Turn(g)
            PROVE  \/ nodeHA' = nodeHA
                   \/ pc[g] = "enable" /\ nodeHA' = [nodeHA EXCEPT ![g] = FALSE]
        BY <4>3, Zenon DEF Turn, Top, NextVm, CheckOwner, Backup, LookUp, DestroyVm,
           UndefineVm, CheckHa, StartVm, PowerGet, PowerRead, PowerPut, ReportNode,
           EnableHa, CheckConn, nodeVars, NodeStatusFails
      <4>5. PICK g \in Reporters :
               Turn(g) \/ (Restart(g) \/ DisableHa(g) \/ CrashHost(g) \/ BootHost(g)
                           \/ Cut(g) \/ Heal(g))
        BY <1>1, <4>0, <4>1, NextIs, Zenon
      <4> QED BY <4>0, <4>2, <4>3, <4>5
    <3> QED BY <1>1, <3>1 DEF TypeOK
  <2>2. haCheck[h] = FALSE
    BY <1>1, <2>1 DEF HostInv, Standing, Reports
  <2>3. v \in Vms /\ Waits(h, v)
    BY <1>1, ReporterAssumption DEF Waits
  <2>4. Ahead(h, v, skipped[h], HaSteps)
    BY <1>1, <2>3 DEF HostInv
  <2> QED BY <2>1, <2>2, <2>4 DEF Ahead, Alive, Loop, HaSteps, OwnerSteps
<1>2. (TypeOK /\ \A h \in Hosts : HostInv(h)) /\ [Next]_vars =>
        [\A h \in Hosts :
           nodeHA[h] /\ ~nodeHA'[h] =>
             \A v \in HaVms :
               obj[v].exists /\ obj[v].host = h /\ dom[h][v] = "cold" =>
                 v \in skipped[h]]_vars
  BY <1>1, Zenon
<1> QED BY <1>2, Checks, PTL DEF Spec, EnabledAfterCheck

=============================================================================
