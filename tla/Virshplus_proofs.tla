-------------------------- MODULE Virshplus_proofs --------------------------
(***************************************************************************)
(* Theorems about Virshplus, for every value of its constants: any threads, *)
(* any commands posted, any start, any number of faults and complaints.    *)
(*                                                                         *)
(* A step of the model performs one operation of a table, so the proofs    *)
(* speak of facts: who adds and who drops a fact (AddedBy, DroppedBy),     *)
(* which commands own it (Owned), and what a command has established by    *)
(* the operations that are behind it (Progress), as long as it has met no  *)
(* other command of its object (Alone, Exclusion).  That three tries are   *)
(* enough rests on a count of what a failed try costs (PoolTry, VmTry).    *)
(***************************************************************************)
EXTENDS Virshplus, SequenceTheorems, TLAPS
-----------------------------------------------------------------------------
(* The operations.                                                           *)

\* OpOf finds the record of every operation.
LEMMA OpRecords ==
  /\ \A o \in DOMAIN PoolOp : OpOf(o) = PoolOp[o]
  /\ \A o \in DOMAIN DiskOp : OpOf(o) = DiskOp[o]
  /\ \A o \in DOMAIN VmOp : OpOf(o) = VmOp[o]
  /\ \A o \in DOMAIN NicOp : OpOf(o) = NicOp[o]
  /\ \A o \in DOMAIN DeviceOp : OpOf(o) = DeviceOp[o]
  /\ \A o \in DOMAIN GraphicOp : OpOf(o) = GraphicOp[o]
  /\ \A o \in DOMAIN ApiOp : OpOf(o) = ApiOp[o]
  BY DEF OpOf, PoolOp, DiskOp, VmOp, NicOp, DeviceOp, GraphicOp, ApiOp

\* What an operation adds is a fact.
LEMMA AddsFacts ==
  ASSUME NEW o \in OpNames, NEW f \in OpOf(o).adds
  PROVE  f \in Facts
<1>1. CASE o \in DOMAIN PoolOp
  BY <1>1, OpRecords DEF PoolOp, Shell, Op, Facts
<1>2. CASE o \in DOMAIN DiskOp
  BY <1>2, OpRecords DEF DiskOp, Shell, Op, Facts
<1>3. CASE o \in DOMAIN VmOp
  BY <1>3, OpRecords DEF VmOp, Shell, Op, Facts
<1>4. CASE o \in DOMAIN NicOp
  BY <1>4, OpRecords DEF NicOp, Shell, Op, Facts
<1>5. CASE o \in DOMAIN DeviceOp
  BY <1>5, OpRecords DEF DeviceOp, Shell, Op, Facts
<1>6. CASE o \in DOMAIN GraphicOp
  BY <1>6, OpRecords DEF GraphicOp, Shell, Op, Facts
<1>7. CASE o \in DOMAIN ApiOp
  BY <1>7, OpRecords DEF ApiOp, Shell, Op, Facts
<1> QED BY <1>1, <1>2, <1>3, <1>4, <1>5, <1>6, <1>7 DEF OpNames

\* The only operations that establish the facts of pools, disks, images,
\* domains, ports and objects (startIfStopped and defineXml are in After).
AddedBy(f) ==
    CASE f = "poolDir" -> {"mkdirPool"}
      [] f = "poolDefined" -> {"defineAs"}
      [] f = "poolActive" -> {"poolStart"}
      [] f = "poolContent" -> {"writeContent"}
      [] f = "poolReady" -> {"updatePool"}
      [] f = "diskDir" -> {"mkdirDisk"}
      [] f = "diskImage" -> {"qemuCreate"}
      [] f = "diskConfig" -> {"writeConfig"}
      [] f = "diskReady" -> {"updateDisk"}
      [] f = "vmDefined" -> {"virtInstall", "defineXml"}
      [] f = "vmActive" -> {"virtInstall", "startIfStopped"}
      [] f = "port" -> {"bindPort"}
      [] f = "switchCfg" -> {"echoSwitch"}
      [] OTHER -> {}

DroppedBy(f) ==
    CASE f = "poolDefined" -> {"poolUndefine"}
      [] f = "poolActive" -> {"poolDestroy"}
      [] f = "poolObj" -> {"deletePool"}
      [] f = "poolReady" -> {"deletePool"}
      [] f = "diskDir" -> {"rmDiskDir"}
      [] f = "diskImage" -> {"rmImage", "rmDiskDir"}
      [] f = "diskConfig" -> {"rmDiskDir"}
      [] f = "diskObj" -> {"deleteDisk"}
      [] f = "diskReady" -> {"deleteDisk"}
      [] f = "vmdiDir" -> {"rmVmdiDir"}
      [] f = "vmdiObj" -> {"deleteVmdi"}
      [] f = "vmDefined" -> {"undefineVm"}
      [] f = "vmActive" -> {"destroyIfActive"}
      [] f = "vmObj" -> {"deleteVm"}
      [] f = "port" -> {"unbindPort"}
      [] OTHER -> {}

\* The facts that the invariants speak of.
Tracked == {"poolDir", "poolDefined", "poolActive", "poolContent", "poolObj",
            "poolReady", "diskDir", "diskImage", "diskConfig", "diskObj",
            "diskReady", "vmdiDir", "vmdiObj", "vmDefined", "vmActive", "vmObj",
            "port", "switchCfg"}

LEMMA Adders ==
  ASSUME NEW o \in OpNames, NEW f \in Tracked, f \in OpOf(o).adds
  PROVE  o \in AddedBy(f)
<1>1. CASE o \in DOMAIN PoolOp
  BY <1>1, OpRecords DEF PoolOp, Shell, Op, Tracked, AddedBy
<1>2. CASE o \in DOMAIN DiskOp
  BY <1>2, OpRecords DEF DiskOp, Shell, Op, Tracked, AddedBy
<1>3. CASE o \in DOMAIN VmOp
  BY <1>3, OpRecords DEF VmOp, Shell, Op, Tracked, AddedBy
<1>4. CASE o \in DOMAIN NicOp
  BY <1>4, OpRecords DEF NicOp, Shell, Op, Tracked, AddedBy
<1>5. CASE o \in DOMAIN DeviceOp
  BY <1>5, OpRecords DEF DeviceOp, Shell, Op, Tracked, AddedBy
<1>6. CASE o \in DOMAIN GraphicOp
  BY <1>6, OpRecords DEF GraphicOp, Shell, Op, Tracked, AddedBy
<1>7. CASE o \in DOMAIN ApiOp
  BY <1>7, OpRecords DEF ApiOp, Shell, Op, Tracked, AddedBy
<1> QED BY <1>1, <1>2, <1>3, <1>4, <1>5, <1>6, <1>7 DEF OpNames

LEMMA Droppers ==
  ASSUME NEW o \in OpNames, NEW f \in Tracked, f \in OpOf(o).dels
  PROVE  o \in DroppedBy(f)
<1>1. CASE o \in DOMAIN PoolOp
  BY <1>1, OpRecords DEF PoolOp, Shell, Op, Tracked, DroppedBy
<1>2. CASE o \in DOMAIN DiskOp
  BY <1>2, OpRecords DEF DiskOp, Shell, Op, Tracked, DroppedBy
<1>3. CASE o \in DOMAIN VmOp
  BY <1>3, OpRecords DEF VmOp, Shell, Op, Tracked, DroppedBy
<1>4. CASE o \in DOMAIN NicOp
  BY <1>4, OpRecords DEF NicOp, Shell, Op, Tracked, DroppedBy
<1>5. CASE o \in DOMAIN DeviceOp
  BY <1>5, OpRecords DEF DeviceOp, Shell, Op, Tracked, DroppedBy
<1>6. CASE o \in DOMAIN GraphicOp
  BY <1>6, OpRecords DEF GraphicOp, Shell, Op, Tracked, DroppedBy
<1>7. CASE o \in DOMAIN ApiOp
  BY <1>7, OpRecords DEF ApiOp, Shell, Op, Tracked, DroppedBy
<1> QED BY <1>1, <1>2, <1>3, <1>4, <1>5, <1>6, <1>7 DEF OpNames

\* No operation can only be performed under conditions of the code, except the
\* start, the stop and the reports to the API server.
LEMMA NotSkipped ==
  ASSUME NEW o \in OpNames,
         o \notin {"startIfStopped", "destroyIfActive", "updatePool", "updateDisk"}
  PROVE  ~ Skipped(o)
<1>1. CASE o \in DOMAIN PoolOp
  BY <1>1, OpRecords DEF PoolOp, Shell, Op, Skipped
<1>2. CASE o \in DOMAIN DiskOp
  BY <1>2, OpRecords DEF DiskOp, Shell, Op, Skipped
<1>3. CASE o \in DOMAIN VmOp
  BY <1>3, OpRecords DEF VmOp, Shell, Op, Skipped
<1>4. CASE o \in DOMAIN NicOp
  BY <1>4, OpRecords DEF NicOp, Shell, Op, Skipped
<1>5. CASE o \in DOMAIN DeviceOp
  BY <1>5, OpRecords DEF DeviceOp, Shell, Op, Skipped
<1>6. CASE o \in DOMAIN GraphicOp
  BY <1>6, OpRecords DEF GraphicOp, Shell, Op, Skipped
<1>7. CASE o \in DOMAIN ApiOp
  BY <1>7, OpRecords DEF ApiOp, Shell, Op, Skipped
<1> QED BY <1>1, <1>2, <1>3, <1>4, <1>5, <1>6, <1>7 DEF OpNames

LEMMA LiveAway == \A f \in Tracked : f \notin Live \cup {"nicConf", "devConf", "vncConf"}
  BY DEF Tracked, Live

\* What a step of the domain's devices leaves alone.
LEMMA PerformFrame ==
  ASSUME NEW o \in OpNames, NEW f \in Tracked, tmpXml \subseteq {"nicConf", "devConf"},
         Perform(o)
  PROVE  /\ f \notin facts /\ f \in facts' => o \in AddedBy(f)
         /\ f \in facts /\ f \notin facts' => o \in DroppedBy(f)
<1>1. CASE Skipped(o)
  BY <1>1 DEF Perform
<1>2. CASE ~ Skipped(o) /\ o \notin {"startIfStopped", "destroyIfActive", "defineXml"}
  <2>1. facts' = (facts \ OpOf(o).dels) \cup OpOf(o).adds
    BY <1>2 DEF Perform, After
  <2> QED BY <2>1, Adders, Droppers
<1>3. CASE ~ Skipped(o) /\ o = "startIfStopped"
  <2>1. facts' = facts \cup {"vmActive"} \cup AsLive(facts)
    BY <1>3 DEF Perform, After, Started
  <2>2. AsLive(facts) \subseteq Live
    BY DEF AsLive, Live
  <2> QED BY <1>3, <2>1, <2>2, LiveAway DEF AddedBy
<1>4. CASE ~ Skipped(o) /\ o = "destroyIfActive"
  <2>1. facts' = facts \ ({"vmActive"} \cup Live)
    BY <1>4 DEF Perform, After, Stopped
  <2> QED BY <1>4, <2>1, LiveAway DEF DroppedBy
<1>5. CASE ~ Skipped(o) /\ o = "defineXml"
  <2>1. facts' = (facts \ {"nicConf", "devConf", "vncConf"})
                   \cup {"vmDefined"} \cup tmpXml
    BY <1>5 DEF Perform, After
  <2> QED BY <1>5, <2>1, LiveAway DEF AddedBy
<1> QED BY <1>1, <1>2, <1>3, <1>4, <1>5
-----------------------------------------------------------------------------
(* The inductive invariant.                                                  *)

Running(t) == proc[t].pc # "idle"

\* The operations that thread t still has to perform in this queue.
OpsIn(s) == {s[i] : i \in 1 .. Len(s)}
Rest(t) == OpsIn(proc[t].todo)

\* The tries that failed before this one.
Past(t) == Tries - proc[t].tries

\* No bound was ever raised.
LeftOK == \A b \in Budgets : left[b] <= Full[b]

\* A thread that is alone shares its object with no other one.
Exclusion ==
    \A t, u \in Threads :
        t # u /\ Running(t) /\ Running(u) /\ t \in Alone
          => ~ Conflict(Resource(proc[t].cmd), Resource(proc[u].cmd))

Creates == {"create_pool", "create_pool_noauto"}
Unplugs == {"unplug_nic", "unplug_nic_config"}
Installs == {"create_vm", "create_vm_malformed"}

\* The operations of a command's queue and of its reverse queue.
RunKit(c) ==
    CASE c \in Creates -> (DOMAIN PoolOp \ {"poolDestroy", "poolUndefine"})
                          \cup {"updatePool"}
      [] c = "delete_pool" -> {"poolDestroy", "poolUndefine", "deletePool"}
      [] c = "create_disk" -> {"mkdirDisk", "qemuCreate", "writeConfig",
                               "updateDisk"}
      [] c = "delete_disk" -> {"rmDiskDir", "deleteDisk"}
      [] c = "delete_vmdi" -> {"rmVmdiDir", "deleteVmdi"}
      [] c = "create_vm" -> {"virtInstall", "startIfStopped", "dommemstat",
                             "attachNic", "unbindPort", "bindPort",
                             "echoSwitch", "echoIp"}
      [] c = "delete_vm" -> {"destroyIfActive", "undefineVm", "deleteVm"}
      [] c \in {"plug_bridge", "plug_l3", "plug_l3_config"}
            -> {"attachNic", "attachNicConfig", "unbindPort", "bindPort",
                "echoSwitch", "echoIp"}
      [] c \in Unplugs -> {"unbindPort", "detachNic", "detachNicConfig"}
      [] c = "set_boot_order" -> {"dumpXml", "defineXml"}
      [] c \in Misparsed \cup Malformed -> {}
      [] OTHER -> {"attachDisk", "detachDisk", "setVnc", "unsetVnc",
                   "customize", "deleteNet"}

UndoKit(c) ==
    CASE c \in Creates -> {"poolDestroy", "poolUndefine"}
      [] c = "delete_pool" -> {"poolStart"}
      [] c = "create_disk" -> {"rmImage"}
      [] c \in Installs -> {"destroyIfActive"}
      [] OTHER -> {}

Kit(t) == IF proc[t].pc = "run" THEN RunKit(proc[t].cmd)
          ELSE IF proc[t].pc = "undo" THEN UndoKit(proc[t].cmd) ELSE {}

\* What the order of a queue means to its suffixes.
FirstOps == {"poolDestroy", "virtInstall"}
LastOps == {"updatePool", "deletePool", "updateDisk", "deleteDisk",
            "deleteVmdi", "deleteVm"}

Ordered(s) ==
    \A i \in 1 .. Len(s) :
        /\ s[i] \in FirstOps => i = 1
        /\ s[i] \in LastOps => i = Len(s)
        /\ s[i] = "bindPort" => i < Len(s) /\ s[i + 1] = "echoSwitch"

\* A thread with a command has a try left; it is somewhere in a queue of it.
PlaceOf(t) ==
    /\ Running(t) => proc[t].cmd \in Commands /\ proc[t].tries \in 1 .. Tries
    /\ Rest(t) \subseteq Kit(t) /\ Ordered(proc[t].todo)

Place == \A t \in Threads : PlaceOf(t)

\* The types of the variables that are not history.
Typed ==
    /\ facts \subseteq Facts
    /\ tmpXml \subseteq {"nicConf", "devConf"}
    /\ proc \in [Threads -> [cmd: Commands \cup {NoCmd},
                            pc: {"idle", "start", "run", "undo"},
                            todo: Seq(OpNames), tries: 0 .. Tries,
                            out: {"none", "done", "failed"}]]
    /\ mix \subseteq Commands
    /\ left \in [Budgets -> Nat]

History == origin \subseteq Facts /\ crossed \subseteq Threads

Shape == Typed /\ LeftOK /\ Place

\* What a thread has established by the operations that are behind it.
Achieved(t, o, there, gone) ==
    o \notin Rest(t) => there \subseteq facts /\ gone \cap facts = {}

ProgressOf(t) ==
    proc[t].pc = "run" =>
      /\ proc[t].cmd \in Creates =>
            /\ Achieved(t, "mkdirPool", {"poolDir"}, {})
            /\ Achieved(t, "defineAs", {"poolDefined"}, {})
            /\ Achieved(t, "poolStart", {"poolActive"}, {})
            /\ Achieved(t, "writeContent", {"poolContent"}, {})
      /\ proc[t].cmd = "create_disk" =>
            /\ Achieved(t, "mkdirDisk", {"diskDir"}, {})
            /\ Achieved(t, "qemuCreate", {"diskImage"}, {})
            /\ Achieved(t, "writeConfig", {"diskConfig"}, {})
      /\ proc[t].cmd = "delete_pool" =>
            Achieved(t, "poolUndefine", {}, {"poolDefined", "poolActive"})
      /\ proc[t].cmd = "delete_disk" =>
            Achieved(t, "rmDiskDir", {}, {"diskDir", "diskImage", "diskConfig"})
      /\ proc[t].cmd = "delete_vmdi" => Achieved(t, "rmVmdiDir", {}, {"vmdiDir"})
      /\ proc[t].cmd = "delete_vm" => Achieved(t, "undefineVm", {}, {"vmDefined"})

Progress == \A t \in Alone : ProgressOf(t)

\* Why three tries are enough for delete_pool: what a failed try costs.
Slips == Spent("faults") + Spent("grumbles")

PoolTryOf(t) ==
    Running(t) /\ proc[t].cmd = "delete_pool"
               /\ {"poolDefined", "poolDir"} \subseteq facts =>
      /\ proc[t].pc = "start" \/ "poolDestroy" \in Rest(t) =>
            Past(t) <= Slips + (IF "poolActive" \in facts THEN 1 ELSE 0)
      /\ proc[t].pc = "run" /\ "poolDestroy" \notin Rest(t) =>
            "poolActive" \notin facts /\ Past(t) <= Slips + 1
      /\ proc[t].pc = "undo" =>
            /\ Past(t) <= Slips
            /\ "poolStart" \notin Rest(t) => "poolActive" \in facts

PoolTry == \A t \in Alone : PoolTryOf(t)

\* Why they are enough for create_and_start_vm_from_iso.
Undone(t) == proc[t].pc = "undo" /\ "destroyIfActive" \notin Rest(t)

MalformedTryOf(t) ==
    Running(t) /\ proc[t].cmd = "create_vm_malformed" /\ Spent("moves") = 0 =>
      /\ "vmActive" \in facts => Past(t) <= Spent("faults")
      /\ Undone(t) => "vmActive" \notin facts

InstallTryOf(t) ==
    LET active == "vmActive" \in facts
        defined == "vmDefined" \in facts
        faults == Spent("faults")
        installed == proc[t].pc = "run" /\ "virtInstall" \notin Rest(t)
    IN Running(t) /\ proc[t].cmd = "create_vm" /\ Spent("moves") = 0 =>
         /\ installed => Past(t) <= faults + 1 /\ defined
         /\ ~ installed =>
               /\ active => Past(t) <= faults + 1
               /\ active /\ ~ defined => Past(t) <= faults
               /\ ~ active /\ ~ defined =>
                     IF proc[t].pc = "undo" THEN Past(t) <= faults
                                            ELSE Past(t) <= faults + 1
         /\ Undone(t) => ~ active

VmTryOf(t) == MalformedTryOf(t) /\ InstallTryOf(t)

VmTry == \A t \in Alone : VmTryOf(t)

\* A bound port's switch is on record, or is about to be.
Recorded == "port" \in origin => "switchCfg" \in origin

PortKnown ==
    Slips = 0 /\ Recorded /\ "port" \in facts /\ "switchCfg" \notin facts =>
      \E t \in Threads : /\ proc[t].pc = "run"
                         /\ proc[t].todo # <<>>
                         /\ Head(proc[t].todo) = "echoSwitch"

\* A thread that unplugs the NIC is past the port when the port is free.
PortFreeOf(t) ==
    /\ Slips = 0 /\ Recorded /\ proc[t].pc = "run" /\ proc[t].cmd \in Unplugs
    /\ "unbindPort" \notin Rest(t)
    => "port" \notin facts

PortFree == \A t \in Alone : PortFreeOf(t)
-----------------------------------------------------------------------------
(* The building blocks of the actions.                                       *)

ProcType == [cmd: Commands \cup {NoCmd}, pc: {"idle", "start", "run", "undo"},
             todo: Seq(OpNames), tries: 0 .. Tries, out: {"none", "done", "failed"}]

LEMMA EmptyQueue == <<>> \in Seq(OpNames)
  OBVIOUS

\* The threads other than t stay as they are.
OnlyThread(t) == \A u \in Threads \ {t} : proc'[u] = proc[u]

\* An assignment to the record of one thread.
LEMMA ProcUpdate ==
  ASSUME proc \in [Threads -> ProcType], NEW t \in Threads, NEW p \in ProcType,
         proc' = [proc EXCEPT ![t] = p]
  PROVE  proc' \in [Threads -> ProcType] /\ proc'[t] = p /\ OnlyThread(t)
  BY DEF OnlyThread

\* Retry ends the command or starts its next try.
LEMMA RetryEffect ==
  ASSUME proc \in [Threads -> ProcType], NEW t \in Threads,
         proc[t].tries \in 1 .. Tries, Retry(t)
  PROVE  /\ proc' \in [Threads -> ProcType] /\ OnlyThread(t)
         /\ proc'[t].cmd = proc[t].cmd /\ proc'[t].todo = <<>>
         /\ \/ /\ proc[t].tries = 1 /\ proc'[t].tries = 1
               /\ proc'[t].pc = "idle" /\ proc'[t].out = "failed"
            \/ /\ proc'[t].tries \in 1 .. Tries
               /\ proc'[t].tries = proc[t].tries - 1
               /\ proc'[t].pc = "start"
<1> DEFINE p == proc[t]
           last == [p EXCEPT !.pc = "idle", !.todo = <<>>, !.out = "failed"]
           next == [p EXCEPT !.pc = "start", !.todo = <<>>, !.tries = p.tries - 1]
<1>0. p \in ProcType
  OBVIOUS
<1>1. CASE p.tries = 1
  <2>1. proc' = [proc EXCEPT ![t] = last]
    BY <1>1 DEF Retry
  <2>2. last \in ProcType
    BY <1>0, EmptyQueue DEF ProcType
  <2>3. /\ last.cmd = p.cmd /\ last.todo = <<>> /\ last.tries = p.tries
        /\ last.pc = "idle" /\ last.out = "failed"
    BY <1>0 DEF ProcType
  <2> HIDE DEF last
  <2> QED BY <1>1, <2>1, <2>2, <2>3, ProcUpdate
<1>2. CASE p.tries # 1
  <2>1. proc' = [proc EXCEPT ![t] = next]
    BY <1>2 DEF Retry
  <2>2. p.tries - 1 \in 0 .. Tries /\ p.tries - 1 \in 1 .. Tries
    BY <1>2 DEF Tries
  <2>3. next \in ProcType
    BY <1>0, <2>2, EmptyQueue DEF ProcType
  <2>4. /\ next.cmd = p.cmd /\ next.todo = <<>> /\ next.tries = p.tries - 1
        /\ next.pc = "start"
    BY <1>0 DEF ProcType
  <2> HIDE DEF next
  <2> QED BY <2>1, <2>2, <2>3, <2>4, ProcUpdate
<1> QED BY <1>1, <1>2

\* Advance takes the head off the queue.
LEMMA AdvanceEffect ==
  ASSUME proc \in [Threads -> ProcType], NEW t \in Threads,
         proc[t].todo # <<>>, Advance(t)
  PROVE  /\ proc' \in [Threads -> ProcType] /\ OnlyThread(t)
         /\ proc'[t].cmd = proc[t].cmd /\ proc'[t].pc = proc[t].pc
         /\ proc'[t].tries = proc[t].tries /\ proc'[t].out = proc[t].out
         /\ proc'[t].todo = Tail(proc[t].todo)
<1> DEFINE p == proc[t]
           s == Tail(p.todo)
           next == [p EXCEPT !.todo = s]
<1>0. p \in ProcType /\ s \in Seq(OpNames)
  BY DEF ProcType
<1>1. proc' = [proc EXCEPT ![t] = next]
  BY DEF Advance
<1> HIDE DEF s
<1>2. next \in ProcType
  BY <1>0 DEF ProcType
<1>3. /\ next.cmd = p.cmd /\ next.todo = s /\ next.tries = p.tries
      /\ next.pc = p.pc /\ next.out = p.out
  BY <1>0 DEF ProcType
<1> HIDE DEF next
<1> QED BY <1>1, <1>2, <1>3, ProcUpdate DEF s

\* The reverse queues have operations only.
LEMMA RollbackType ==
  ASSUME NEW c, NEW o
  PROVE  Rollback(c, o) \in Seq(OpNames)
<1>1. {"poolDestroy", "poolUndefine", "poolStart", "rmImage", "destroyIfActive"}
        \subseteq OpNames
  BY DEF OpNames, PoolOp, DiskOp, VmOp
<1>2. Rollback(c, o) \in {<<>>, <<"poolDestroy", "poolUndefine">>, <<"poolStart">>,
                          <<"rmImage">>, <<"destroyIfActive">>}
  BY DEF Rollback
<1> DEFINE N == OpNames
<1> HIDE DEF N
<1>3. \A x, y \in N : <<x, y>> \in Seq(N) /\ <<x>> \in Seq(N)
  OBVIOUS
<1> QED BY <1>1, <1>2, <1>3, EmptyQueue DEF N

\* Undo starts the reverse queue, or retries when there is none.
LEMMA UndoEffect ==
  ASSUME proc \in [Threads -> ProcType], NEW t \in Threads, NEW o, Undo(t, o)
  PROVE  \/ Rollback(proc[t].cmd, o) = <<>> /\ Retry(t)
         \/ /\ proc' \in [Threads -> ProcType] /\ OnlyThread(t)
            /\ proc'[t].cmd = proc[t].cmd /\ proc'[t].pc = "undo"
            /\ proc'[t].tries = proc[t].tries
            /\ proc'[t].todo = Rollback(proc[t].cmd, o)
<1> DEFINE p == proc[t]
           r == Rollback(proc[t].cmd, o)
           next == [p EXCEPT !.pc = "undo", !.todo = r]
<1>0. p \in ProcType /\ r \in Seq(OpNames)
  BY RollbackType
<1>1. CASE r = <<>>
  BY <1>1 DEF Undo
<1>2. CASE r # <<>>
  <2>1. proc' = [proc EXCEPT ![t] = next]
    BY <1>2 DEF Undo
  <2> HIDE DEF r
  <2>2. next \in ProcType
    BY <1>0 DEF ProcType
  <2>3. /\ next.cmd = p.cmd /\ next.todo = r /\ next.tries = p.tries
        /\ next.pc = "undo"
    BY <1>0 DEF ProcType
  <2> HIDE DEF next
  <2> QED BY <2>1, <2>2, <2>3, ProcUpdate DEF r
<1> QED BY <1>1, <1>2

\* A bound that is spent.
LEMMA SpendEffect ==
  ASSUME left \in [Budgets -> Nat], NEW b \in Budgets, Spend(b)
  PROVE  /\ left' \in [Budgets -> Nat] /\ Spent(b)' = Spent(b) + 1
         /\ \A a \in Budgets \ {b} : left'[a] = left[a] /\ Spent(a)' = Spent(a)
  BY VirshplusAssumption DEF Spend, Spent

-----------------------------------------------------------------------------
(* Queues.                                                                   *)

\* The operations and the order of a suffix.
LEMMA TailOps ==
  ASSUME NEW S, NEW s \in Seq(S), s # <<>>
  PROVE  /\ Tail(s) \in Seq(S) /\ Head(s) \in S
         /\ Head(s) \in OpsIn(s) /\ OpsIn(Tail(s)) \subseteq OpsIn(s)
         /\ OpsIn(s) \subseteq {Head(s)} \cup OpsIn(Tail(s))
<1>1. Len(s) \in Nat /\ Len(s) > 0 /\ Head(s) = s[1] /\ Tail(s) \in Seq(S)
  BY HeadTailProperties, EmptySeq
<1>2. Len(Tail(s)) = Len(s) - 1 /\ \A i \in 1 .. Len(s) - 1 : Tail(s)[i] = s[i + 1]
  BY <1>1, HeadTailProperties
<1>3. Head(s) \in OpsIn(s) /\ Head(s) \in S
  BY <1>1 DEF OpsIn
<1>4. OpsIn(Tail(s)) \subseteq OpsIn(s)
  <2> SUFFICES ASSUME NEW i \in 1 .. Len(Tail(s))
               PROVE  Tail(s)[i] \in OpsIn(s)
    BY DEF OpsIn
  <2> QED BY <1>1, <1>2 DEF OpsIn
<1>5. OpsIn(s) \subseteq {Head(s)} \cup OpsIn(Tail(s))
  <2> SUFFICES ASSUME NEW i \in 1 .. Len(s), i # 1
               PROVE  s[i] \in OpsIn(Tail(s))
    BY <1>1 DEF OpsIn
  <2>1. i - 1 \in 1 .. Len(Tail(s)) /\ Tail(s)[i - 1] = s[i]
    BY <1>1, <1>2
  <2> QED BY <2>1 DEF OpsIn
<1> QED BY <1>1, <1>3, <1>4, <1>5

LEMMA TailOrdered ==
  ASSUME NEW S, NEW s \in Seq(S), s # <<>>, Ordered(s)
  PROVE  /\ Ordered(Tail(s)) /\ OpsIn(Tail(s)) \cap FirstOps = {}
         /\ Head(s) \in LastOps => Tail(s) = <<>> /\ OpsIn(Tail(s)) = {}
         /\ Head(s) = "bindPort" => Tail(s) # <<>> /\ Head(Tail(s)) = "echoSwitch"
<1> DEFINE r == Tail(s)
           n == Len(s)
           k == Len(r)
<1>1. n \in Nat /\ n > 0 /\ Head(s) = s[1] /\ r \in Seq(S)
  BY HeadTailProperties, EmptySeq
<1>2. k \in Nat /\ n = k + 1 /\ \A i \in 1 .. k : r[i] = s[i + 1]
  BY <1>1, HeadTailProperties
<1>3. \A i \in 1 .. n :
        /\ s[i] \in FirstOps => i = 1
        /\ s[i] \in LastOps => i = n
        /\ s[i] = "bindPort" => i < n /\ s[i + 1] = "echoSwitch"
  BY DEF Ordered
<1>4. (r # <<>> => Head(r) = r[1]) /\ (r = <<>> => k = 0)
  <2> HIDE DEF r
  <2> QED BY <1>1, EmptySeq
<1>5. k = 0 => r = <<>>
  <2> HIDE DEF r
  <2> QED BY <1>1, EmptySeq
<1>6. OpsIn(r) = {r[i] : i \in 1 .. k}
  BY DEF OpsIn
<1>7. Ordered(r) <=>
        \A i \in 1 .. k :
            /\ r[i] \in FirstOps => i = 1
            /\ r[i] \in LastOps => i = k
            /\ r[i] = "bindPort" => i < k /\ r[i + 1] = "echoSwitch"
  BY DEF Ordered
<1> HIDE DEF r, n, k
<1>8. 1 \in 1 .. n
  BY <1>1
<1>9. Head(s) \in LastOps => r = <<>> /\ OpsIn(r) = {}
  BY <1>1, <1>2, <1>3, <1>5, <1>6, <1>8
<1>10. Head(s) = "bindPort" => r # <<>> /\ Head(r) = "echoSwitch"
  <2> SUFFICES ASSUME s[1] = "bindPort"
               PROVE  r # <<>> /\ Head(r) = "echoSwitch"
    BY <1>1
  <2>1. 1 < n /\ s[1 + 1] = "echoSwitch"
    BY <1>3, <1>8
  <2>2. k > 0 /\ 1 \in 1 .. k
    BY <1>2, <2>1
  <2>3. r[1] = "echoSwitch"
    BY <1>2, <2>1, <2>2
  <2> QED BY <1>4, <2>2, <2>3
<1>11. \A i \in 1 .. k : r[i] \notin FirstOps
  <2> SUFFICES ASSUME NEW i \in 1 .. k
               PROVE  r[i] \notin FirstOps
    OBVIOUS
  <2>1. i + 1 \in 1 .. n /\ i + 1 # 1 /\ r[i] = s[i + 1]
    BY <1>2
  <2> QED BY <1>3, <2>1
<1>12. Ordered(r)
  <2> SUFFICES ASSUME NEW i \in 1 .. k
               PROVE  /\ r[i] \in LastOps => i = k
                      /\ r[i] = "bindPort" => i < k /\ r[i + 1] = "echoSwitch"
    BY <1>7, <1>11
  <2> DEFINE j == i + 1
  <2>1. j \in 1 .. n /\ r[i] = s[j]
    BY <1>2
  <2>2. /\ s[j] \in LastOps => j = n
        /\ s[j] = "bindPort" => j < n /\ s[j + 1] = "echoSwitch"
    BY <1>3, <2>1
  <2>3. j = n => i = k
    BY <1>2
  <2>4. j < n => i < k /\ j \in 1 .. k
    BY <1>2
  <2>5. j \in 1 .. k => r[j] = s[j + 1]
    BY <1>2
  <2> HIDE DEF j
  <2> QED BY <2>1, <2>2, <2>3, <2>4, <2>5 DEF j
<1> QED BY <1>6, <1>9, <1>10, <1>11, <1>12 DEF r

\* Two queues of operations with the same elements are equal.
LEMMA SameQueue ==
  ASSUME NEW x \in Seq(OpNames), NEW y \in Seq(OpNames), Len(x) = Len(y),
         \A i \in 1 .. Len(y) : x[i] = y[i]
  PROVE  x = y
  BY SeqEqual

\* Concatenation of the parts of the queues of a NIC.
LEMMA Concat12 ==
  ASSUME NEW a \in OpNames, NEW b \in OpNames, NEW c \in OpNames
  PROVE  <<a>> \o <<b, c>> = <<a, b, c>>
<1> DEFINE N == OpNames
<1> HIDE DEF N
<1>1. <<a>> \in Seq(N) /\ <<b, c>> \in Seq(N) /\ <<a, b, c>> \in Seq(N)
  BY DEF N
<1> DEFINE x == <<a>> \o <<b, c>>
           y == <<a, b, c>>
<1>2. x \in Seq(N) /\ Len(x) = 3 /\ \A i \in 1 .. 3 : x[i] = y[i]
  BY <1>1, ConcatProperties DEF N
<1>3. y \in Seq(N) /\ Len(y) = 3
  BY <1>1 DEF N
<1> HIDE DEF x, y
<1>4. x = y
  BY <1>2, <1>3, SameQueue DEF N
<1> QED BY <1>4 DEF x, y

LEMMA Concat11 ==
  ASSUME NEW a \in OpNames, NEW b \in OpNames
  PROVE  <<a>> \o <<b>> = <<a, b>> /\ <<a>> \o <<>> = <<a>> /\ <<>> \o <<a>> = <<a>>
<1> DEFINE N == OpNames
<1> HIDE DEF N
<1>1. <<a>> \in Seq(N) /\ <<b>> \in Seq(N) /\ <<a, b>> \in Seq(N)
  BY DEF N
<1>2. <<a>> \o <<>> = <<a>> /\ <<>> \o <<a>> = <<a>>
  BY <1>1, ConcatEmptySeq DEF N
<1> DEFINE x == <<a>> \o <<b>>
           y == <<a, b>>
<1>3. x \in Seq(N) /\ Len(x) = 2 /\ \A i \in 1 .. 2 : x[i] = y[i]
  BY <1>1, ConcatProperties DEF N
<1>4. y \in Seq(N) /\ Len(y) = 2
  BY <1>1 DEF N
<1> HIDE DEF x, y
<1>5. x = y
  BY <1>3, <1>4, SameQueue DEF N
<1> QED BY <1>2, <1>5 DEF x, y

\* A queue is well formed when its operations are and their order is right.
QueueOK(q, c) == q \in Seq(OpNames) /\ Ordered(q) /\ OpsIn(q) \subseteq RunKit(c)

LEMMA PoolQueues ==
  ASSUME NEW c \in {"create_pool", "create_pool_noauto", "delete_pool"}
  PROVE  /\ QueueOK(Queue(c), c)
         /\ c \in Creates => {"mkdirPool", "defineAs", "poolStart", "writeContent"}
                                \subseteq OpsIn(Queue(c))
         /\ c = "delete_pool" => {"poolDestroy", "poolUndefine"}
                                    \subseteq OpsIn(Queue(c))
<1> USE DEF QueueOK
<1>1. CASE c = "create_pool"
  <2> DEFINE q == <<"mkdirPool", "defineAs", "autostart", "poolStart",
                    "writeContent", "delAutoStart", "updatePool">>
  <2>1. Queue(c) = q
    BY <1>1 DEF Queue
  <2>2. q \in Seq(OpNames)
    BY DEF OpNames, PoolOp, ApiOp
  <2>3. Ordered(q)
    BY DEF Ordered, FirstOps, LastOps
  <2>4. OpsIn(q) = {"mkdirPool", "defineAs", "autostart", "poolStart",
                    "writeContent", "delAutoStart", "updatePool"}
    BY DEF OpsIn
  <2>5. RunKit(c) = (DOMAIN PoolOp \ {"poolDestroy", "poolUndefine"})
                       \cup {"updatePool"}
    BY <1>1 DEF RunKit, Creates, Unplugs, Misparsed, Malformed
  <2> HIDE DEF q
  <2>6. OpsIn(q) \subseteq RunKit(c)
    BY <2>4, <2>5 DEF PoolOp
  <2>7. {"mkdirPool", "defineAs", "poolStart", "writeContent"} \subseteq OpsIn(q)
    BY <2>4
  <2> QED BY <1>1, <2>1, <2>2, <2>3, <2>6, <2>7
<1>2. CASE c = "create_pool_noauto"
  <2> DEFINE q == <<"mkdirPool", "defineAs", "poolStart",
                    "writeContent", "delAutoStart", "updatePool">>
  <2>1. Queue(c) = q
    BY <1>2 DEF Queue
  <2>2. q \in Seq(OpNames)
    BY DEF OpNames, PoolOp, ApiOp
  <2>3. Ordered(q)
    BY DEF Ordered, FirstOps, LastOps
  <2>4. OpsIn(q) = {"mkdirPool", "defineAs", "poolStart",
                    "writeContent", "delAutoStart", "updatePool"}
    BY DEF OpsIn
  <2>5. RunKit(c) = (DOMAIN PoolOp \ {"poolDestroy", "poolUndefine"})
                       \cup {"updatePool"}
    BY <1>2 DEF RunKit, Creates, Unplugs, Misparsed, Malformed
  <2> HIDE DEF q
  <2>6. OpsIn(q) \subseteq RunKit(c)
    BY <2>4, <2>5 DEF PoolOp
  <2>7. {"mkdirPool", "defineAs", "poolStart", "writeContent"} \subseteq OpsIn(q)
    BY <2>4
  <2> QED BY <1>2, <2>1, <2>2, <2>3, <2>6, <2>7
<1>3. CASE c = "delete_pool"
  <2> DEFINE q == <<"poolDestroy", "poolUndefine", "deletePool">>
  <2>1. Queue(c) = q
    BY <1>3 DEF Queue
  <2>2. q \in Seq(OpNames)
    BY DEF OpNames, PoolOp, ApiOp
  <2>3. Ordered(q)
    BY DEF Ordered, FirstOps, LastOps
  <2>4. OpsIn(q) = {"poolDestroy", "poolUndefine", "deletePool"}
    BY DEF OpsIn
  <2> HIDE DEF q
  <2>5. RunKit(c) = OpsIn(q)
    BY <1>3, <2>4 DEF RunKit, Creates, Unplugs, Misparsed, Malformed
  <2>6. {"poolDestroy", "poolUndefine"} \subseteq OpsIn(q)
    BY <2>4
  <2> QED BY <1>3, <2>1, <2>2, <2>3, <2>5, <2>6 DEF Creates
<1> QED BY <1>1, <1>2, <1>3

LEMMA DiskQueues ==
  ASSUME NEW c \in {"create_disk", "delete_disk", "delete_vmdi"}
  PROVE  /\ QueueOK(Queue(c), c)
         /\ c = "create_disk" => {"mkdirDisk", "qemuCreate", "writeConfig"}
                                    \subseteq OpsIn(Queue(c))
         /\ c = "delete_disk" => "rmDiskDir" \in OpsIn(Queue(c))
         /\ c = "delete_vmdi" => "rmVmdiDir" \in OpsIn(Queue(c))
<1> USE DEF QueueOK
<1>1. CASE c = "create_disk"
  <2> DEFINE q == <<"mkdirDisk", "qemuCreate", "writeConfig", "updateDisk">>
  <2>1. Queue(c) = q
    BY <1>1 DEF Queue
  <2>2. q \in Seq(OpNames)
    BY DEF OpNames, DiskOp, ApiOp
  <2>3. Ordered(q)
    BY DEF Ordered, FirstOps, LastOps
  <2>4. OpsIn(q) = {"mkdirDisk", "qemuCreate", "writeConfig", "updateDisk"}
    BY DEF OpsIn
  <2>5. OpsIn(q) \subseteq RunKit(c)
    BY <1>1, <2>4 DEF RunKit, Creates, Unplugs, Misparsed, Malformed
  <2> HIDE DEF q
  <2> QED BY <1>1, <2>1, <2>2, <2>3, <2>4, <2>5
<1>2. CASE c = "delete_disk"
  <2> DEFINE q == <<"rmDiskDir", "deleteDisk">>
  <2>1. Queue(c) = q
    BY <1>2 DEF Queue
  <2>2. q \in Seq(OpNames)
    BY DEF OpNames, DiskOp, ApiOp
  <2>3. Ordered(q)
    BY DEF Ordered, FirstOps, LastOps
  <2>4. OpsIn(q) = {"rmDiskDir", "deleteDisk"}
    BY DEF OpsIn
  <2>5. OpsIn(q) \subseteq RunKit(c)
    BY <1>2, <2>4 DEF RunKit, Creates, Unplugs, Misparsed, Malformed
  <2> HIDE DEF q
  <2> QED BY <1>2, <2>1, <2>2, <2>3, <2>4, <2>5
<1>3. CASE c = "delete_vmdi"
  <2> DEFINE q == <<"rmVmdiDir", "deleteVmdi">>
  <2>1. Queue(c) = q
    BY <1>3 DEF Queue
  <2>2. q \in Seq(OpNames)
    BY DEF OpNames, DiskOp, ApiOp
  <2>3. Ordered(q)
    BY DEF Ordered, FirstOps, LastOps
  <2>4. OpsIn(q) = {"rmVmdiDir", "deleteVmdi"}
    BY DEF OpsIn
  <2>5. OpsIn(q) \subseteq RunKit(c)
    BY <1>3, <2>4 DEF RunKit, Creates, Unplugs, Misparsed, Malformed
  <2> HIDE DEF q
  <2> QED BY <1>3, <2>1, <2>2, <2>3, <2>4, <2>5
<1> QED BY <1>1, <1>2, <1>3

\* The queue that brings a NIC to its switch, of a running and a dead VM.
LEMMA L3Live ==
  ASSUME NEW a \in OpNames
  PROVE  L3Queue(a, TRUE) = <<a, "unbindPort", "bindPort", "echoSwitch", "echoIp">>
<1>1. /\ "unbindPort" \in OpNames /\ "bindPort" \in OpNames
      /\ "echoSwitch" \in OpNames /\ "echoIp" \in OpNames
  BY DEF OpNames, NicOp
<1>2. L3Queue(a, TRUE) = (<<a>> \o <<"unbindPort", "bindPort">>)
                           \o <<"echoSwitch", "echoIp">>
  BY DEF L3Queue
<1>3. <<a>> \o <<"unbindPort", "bindPort">> = <<a, "unbindPort", "bindPort">>
  BY <1>1, Concat12
<1> DEFINE N == OpNames
           x == <<a, "unbindPort", "bindPort">> \o <<"echoSwitch", "echoIp">>
           y == <<a, "unbindPort", "bindPort", "echoSwitch", "echoIp">>
<1>4. x = y
  <2> HIDE DEF N
  <2>1. /\ <<a, "unbindPort", "bindPort">> \in Seq(N)
        /\ <<"echoSwitch", "echoIp">> \in Seq(N) /\ y \in Seq(N) /\ Len(y) = 5
    BY <1>1 DEF N
  <2>2. x \in Seq(N) /\ Len(x) = 5 /\ \A i \in 1 .. 5 : x[i] = y[i]
    BY <2>1, ConcatProperties
  <2> HIDE DEF x, y
  <2> QED BY <2>1, <2>2, SameQueue DEF N
<1> QED BY <1>2, <1>3, <1>4

LEMMA L3Dead ==
  ASSUME NEW a \in OpNames
  PROVE  L3Queue(a, FALSE) = <<a, "echoSwitch", "echoIp">>
<1>1. {"echoSwitch", "echoIp"} \subseteq OpNames
  BY DEF OpNames, NicOp
<1>2. L3Queue(a, FALSE) = (<<a>> \o <<>>) \o <<"echoSwitch", "echoIp">>
  BY DEF L3Queue
<1> QED BY <1>1, <1>2, Concat11, Concat12

LEMMA VmQueues ==
  ASSUME NEW c \in {"create_vm", "delete_vm"}
  PROVE  /\ QueueOK(Queue(c), c)
         /\ c = "create_vm" => "virtInstall" \in OpsIn(Queue(c))
         /\ c = "delete_vm" => "undefineVm" \in OpsIn(Queue(c))
<1> USE DEF QueueOK
<1>1. CASE c = "create_vm"
  <2> DEFINE q == <<"virtInstall", "startIfStopped", "dommemstat", "attachNic",
                   "unbindPort", "bindPort", "echoSwitch", "echoIp">>
  <2>1. Queue(c) = q
    <3>1. /\ "virtInstall" \in OpNames /\ "startIfStopped" \in OpNames
          /\ "dommemstat" \in OpNames /\ "attachNic" \in OpNames
          /\ "unbindPort" \in OpNames /\ "bindPort" \in OpNames
          /\ "echoSwitch" \in OpNames /\ "echoIp" \in OpNames
      BY DEF OpNames, VmOp, NicOp
    <3>2. L3Queue("attachNic", TRUE)
            = <<"attachNic", "unbindPort", "bindPort", "echoSwitch", "echoIp">>
      BY L3Live, <3>1
    <3>3. Queue(c) = <<"virtInstall", "startIfStopped", "dommemstat">>
                       \o L3Queue("attachNic", TRUE)
      BY <1>1 DEF Queue
    <3> DEFINE N == OpNames
               x == <<"virtInstall", "startIfStopped", "dommemstat">>
                      \o <<"attachNic", "unbindPort", "bindPort",
                           "echoSwitch", "echoIp">>
    <3>4. x = q
      <4> HIDE DEF N
      <4>1. /\ <<"virtInstall", "startIfStopped", "dommemstat">> \in Seq(N)
            /\ <<"attachNic", "unbindPort", "bindPort", "echoSwitch", "echoIp">>
                  \in Seq(N)
            /\ q \in Seq(N) /\ Len(q) = 8
        BY <3>1 DEF N
      <4>2. x \in Seq(N) /\ Len(x) = 8 /\ \A i \in 1 .. 8 : x[i] = q[i]
        BY <4>1, ConcatProperties
      <4> HIDE DEF x, q
      <4> QED BY <4>1, <4>2, SameQueue DEF N
    <3> QED BY <3>2, <3>3, <3>4
  <2>2. q \in Seq(OpNames)
    BY DEF OpNames, VmOp, NicOp
  <2>3. Ordered(q)
    BY DEF Ordered, FirstOps, LastOps
  <2>4. OpsIn(q) = {"virtInstall", "startIfStopped", "dommemstat", "attachNic",
                    "unbindPort", "bindPort", "echoSwitch", "echoIp"}
    BY DEF OpsIn
  <2>5. OpsIn(q) \subseteq RunKit(c)
    BY <1>1, <2>4 DEF RunKit, Creates, Unplugs, Misparsed, Malformed
  <2> HIDE DEF q
  <2> QED BY <1>1, <2>1, <2>2, <2>3, <2>4, <2>5
<1>2. CASE c = "delete_vm"
  <2> DEFINE q == <<"destroyIfActive", "undefineVm", "deleteVm">>
  <2>1. Queue(c) = q
    BY <1>2 DEF Queue
  <2>2. q \in Seq(OpNames)
    BY DEF OpNames, VmOp, ApiOp
  <2>3. Ordered(q)
    BY DEF Ordered, FirstOps, LastOps
  <2>4. OpsIn(q) = {"destroyIfActive", "undefineVm", "deleteVm"}
    BY DEF OpsIn
  <2>5. OpsIn(q) \subseteq RunKit(c)
    BY <1>2, <2>4 DEF RunKit, Creates, Unplugs, Misparsed, Malformed
  <2> HIDE DEF q
  <2> QED BY <1>2, <2>1, <2>2, <2>3, <2>4, <2>5
<1> QED BY <1>1, <1>2

LEMMA DeviceQueues ==
  ASSUME NEW c \in {"plug_bridge", "plug_disk", "unplug_disk", "set_boot_order",
                    "set_vnc_password", "unset_vnc_password",
                    "set_guest_password", "delete_network"}
  PROVE  QueueOK(Queue(c), c)
<1> USE DEF QueueOK
<1>1. CASE c = "plug_bridge"
  <2> DEFINE q == <<"attachNic">>
  <2>1. Queue(c) = q
    BY <1>1 DEF Queue
  <2>2. q \in Seq(OpNames)
    BY DEF OpNames, NicOp
  <2>3. Ordered(q)
    BY DEF Ordered, FirstOps, LastOps
  <2>4. OpsIn(q) = {"attachNic"}
    BY DEF OpsIn
  <2>5. OpsIn(q) \subseteq RunKit(c)
    BY <1>1, <2>4 DEF RunKit, Creates, Unplugs, Misparsed, Malformed
  <2> HIDE DEF q
  <2> QED BY <1>1, <2>1, <2>2, <2>3, <2>4, <2>5
<1>2. CASE c = "plug_disk"
  <2> DEFINE q == <<"attachDisk">>
  <2>1. Queue(c) = q
    BY <1>2 DEF Queue
  <2>2. q \in Seq(OpNames)
    BY DEF OpNames, DeviceOp
  <2>3. Ordered(q)
    BY DEF Ordered, FirstOps, LastOps
  <2>4. OpsIn(q) = {"attachDisk"}
    BY DEF OpsIn
  <2>5. OpsIn(q) \subseteq RunKit(c)
    BY <1>2, <2>4 DEF RunKit, Creates, Unplugs, Misparsed, Malformed
  <2> HIDE DEF q
  <2> QED BY <1>2, <2>1, <2>2, <2>3, <2>4, <2>5
<1>3. CASE c = "unplug_disk"
  <2> DEFINE q == <<"detachDisk">>
  <2>1. Queue(c) = q
    BY <1>3 DEF Queue
  <2>2. q \in Seq(OpNames)
    BY DEF OpNames, DeviceOp
  <2>3. Ordered(q)
    BY DEF Ordered, FirstOps, LastOps
  <2>4. OpsIn(q) = {"detachDisk"}
    BY DEF OpsIn
  <2>5. OpsIn(q) \subseteq RunKit(c)
    BY <1>3, <2>4 DEF RunKit, Creates, Unplugs, Misparsed, Malformed
  <2> HIDE DEF q
  <2> QED BY <1>3, <2>1, <2>2, <2>3, <2>4, <2>5
<1>4. CASE c = "set_boot_order"
  <2> DEFINE q == <<"dumpXml", "defineXml">>
  <2>1. Queue(c) = q
    BY <1>4 DEF Queue, BootQueue
  <2>2. q \in Seq(OpNames)
    BY DEF OpNames, VmOp
  <2>3. Ordered(q)
    BY DEF Ordered, FirstOps, LastOps
  <2>4. OpsIn(q) = {"dumpXml", "defineXml"}
    BY DEF OpsIn
  <2>5. OpsIn(q) \subseteq RunKit(c)
    BY <1>4, <2>4 DEF RunKit, Creates, Unplugs, Misparsed, Malformed
  <2> HIDE DEF q
  <2> QED BY <1>4, <2>1, <2>2, <2>3, <2>4, <2>5
<1>5. CASE c = "set_vnc_password"
  <2> DEFINE q == <<"setVnc">>
  <2>1. Queue(c) = q
    BY <1>5 DEF Queue
  <2>2. q \in Seq(OpNames)
    BY DEF OpNames, GraphicOp
  <2>3. Ordered(q)
    BY DEF Ordered, FirstOps, LastOps
  <2>4. OpsIn(q) = {"setVnc"}
    BY DEF OpsIn
  <2>5. OpsIn(q) \subseteq RunKit(c)
    BY <1>5, <2>4 DEF RunKit, Creates, Unplugs, Misparsed, Malformed
  <2> HIDE DEF q
  <2> QED BY <1>5, <2>1, <2>2, <2>3, <2>4, <2>5
<1>6. CASE c = "unset_vnc_password"
  <2> DEFINE q == <<"unsetVnc">>
  <2>1. Queue(c) = q
    BY <1>6 DEF Queue
  <2>2. q \in Seq(OpNames)
    BY DEF OpNames, GraphicOp
  <2>3. Ordered(q)
    BY DEF Ordered, FirstOps, LastOps
  <2>4. OpsIn(q) = {"unsetVnc"}
    BY DEF OpsIn
  <2>5. OpsIn(q) \subseteq RunKit(c)
    BY <1>6, <2>4 DEF RunKit, Creates, Unplugs, Misparsed, Malformed
  <2> HIDE DEF q
  <2> QED BY <1>6, <2>1, <2>2, <2>3, <2>4, <2>5
<1>7. CASE c = "set_guest_password"
  <2> DEFINE q == <<"customize">>
  <2>1. Queue(c) = q
    BY <1>7 DEF Queue
  <2>2. q \in Seq(OpNames)
    BY DEF OpNames, VmOp
  <2>3. Ordered(q)
    BY DEF Ordered, FirstOps, LastOps
  <2>4. OpsIn(q) = {"customize"}
    BY DEF OpsIn
  <2>5. OpsIn(q) \subseteq RunKit(c)
    BY <1>7, <2>4 DEF RunKit, Creates, Unplugs, Misparsed, Malformed
  <2> HIDE DEF q
  <2> QED BY <1>7, <2>1, <2>2, <2>3, <2>4, <2>5
<1>8. CASE c = "delete_network"
  <2> DEFINE q == <<"deleteNet">>
  <2>1. Queue(c) = q
    BY <1>8 DEF Queue
  <2>2. q \in Seq(OpNames)
    BY DEF OpNames, ApiOp
  <2>3. Ordered(q)
    BY DEF Ordered, FirstOps, LastOps
  <2>4. OpsIn(q) = {"deleteNet"}
    BY DEF OpsIn
  <2>5. OpsIn(q) \subseteq RunKit(c)
    BY <1>8, <2>4 DEF RunKit, Creates, Unplugs, Misparsed, Malformed
  <2> HIDE DEF q
  <2> QED BY <1>8, <2>1, <2>2, <2>3, <2>4, <2>5
<1> QED BY <1>1, <1>2, <1>3, <1>4, <1>5, <1>6, <1>7, <1>8

\* The queues of the commands that plug and unplug a NIC.
LEMMA L3QueueOK ==
  ASSUME NEW a \in {"attachNic", "attachNicConfig"}, NEW l \in BOOLEAN,
         NEW c \in {"plug_l3", "plug_l3_config"}
  PROVE  QueueOK(L3Queue(a, l), c)
<1> USE DEF QueueOK
<1>1. a \in OpNames
  BY DEF OpNames, NicOp
<1>2. RunKit(c) = {"attachNic", "attachNicConfig", "unbindPort", "bindPort",
                   "echoSwitch", "echoIp"}
  BY DEF RunKit, Creates, Unplugs, Misparsed, Malformed
<1>3. CASE l = TRUE
  <2> DEFINE q == <<a, "unbindPort", "bindPort", "echoSwitch", "echoIp">>
  <2>1. q \in Seq(OpNames)
    BY DEF OpNames, NicOp
  <2>2. Ordered(q)
    BY DEF Ordered, FirstOps, LastOps
  <2>3. OpsIn(q) \subseteq {"attachNic", "attachNicConfig", "unbindPort", "bindPort",
                            "echoSwitch", "echoIp"}
    BY DEF OpsIn
  <2> HIDE DEF q
  <2>4. QueueOK(q, c)
    BY <1>2, <2>1, <2>2, <2>3
  <2> QED BY <1>1, <1>3, <2>4, L3Live DEF q
<1>4. CASE l = FALSE
  <2> DEFINE q == <<a, "echoSwitch", "echoIp">>
  <2>1. q \in Seq(OpNames)
    BY DEF OpNames, NicOp
  <2>2. Ordered(q)
    BY DEF Ordered, FirstOps, LastOps
  <2>3. OpsIn(q) \subseteq {"attachNic", "attachNicConfig", "unbindPort", "bindPort",
                            "echoSwitch", "echoIp"}
    BY DEF OpsIn
  <2> HIDE DEF q
  <2>4. QueueOK(q, c)
    BY <1>2, <2>1, <2>2, <2>3
  <2> QED BY <1>1, <1>4, <2>4, L3Dead DEF q
<1> QED BY <1>3, <1>4

LEMMA UnplugQueueOK ==
  ASSUME NEW d \in {"detachNic", "detachNicConfig"}, NEW c \in Unplugs
  PROVE  /\ QueueOK(UnplugQueue(d), c)
         /\ "switchCfg" \in facts => "unbindPort" \in OpsIn(UnplugQueue(d))
<1> USE DEF QueueOK
<1>1. d \in OpNames /\ "unbindPort" \in OpNames
  BY DEF OpNames, NicOp
<1>2. RunKit(c) = {"unbindPort", "detachNic", "detachNicConfig"}
  BY DEF RunKit, Creates, Unplugs, Misparsed, Malformed
<1>3. CASE "switchCfg" \in facts
  <2> DEFINE q == <<"unbindPort", d>>
  <2>0. UnplugQueue(d) = <<"unbindPort">> \o <<d>>
    BY <1>3 DEF UnplugQueue
  <2>1. q \in Seq(OpNames)
    BY <1>1
  <2>2. Ordered(q)
    BY DEF Ordered, FirstOps, LastOps
  <2>3. OpsIn(q) = {"unbindPort", d}
    BY DEF OpsIn
  <2> HIDE DEF q
  <2>4. QueueOK(q, c) /\ "unbindPort" \in OpsIn(q)
    BY <1>2, <2>1, <2>2, <2>3
  <2> QED BY <1>1, <2>0, <2>4, Concat11 DEF q
<1>4. CASE "switchCfg" \notin facts
  <2> DEFINE q == <<d>>
  <2>0. UnplugQueue(d) = <<>> \o <<d>>
    BY <1>4 DEF UnplugQueue
  <2>1. q \in Seq(OpNames)
    BY <1>1
  <2>2. Ordered(q)
    BY DEF Ordered, FirstOps, LastOps
  <2>3. OpsIn(q) = {d}
    BY DEF OpsIn
  <2> HIDE DEF q
  <2>4. QueueOK(q, c)
    BY <1>2, <2>1, <2>2, <2>3
  <2> QED BY <1>1, <1>4, <2>0, <2>4, Concat11 DEF q
<1> QED BY <1>3, <1>4
\* The queue of a command that passed its checks.
LEMMA QueueFacts ==
  ASSUME NEW c \in Commands, MayRun(c)
  PROVE  /\ QueueOK(Queue(c), c) /\ c \notin Misparsed \cup Malformed
         /\ c \in Creates => {"mkdirPool", "defineAs", "poolStart", "writeContent"}
                                \subseteq OpsIn(Queue(c))
         /\ c = "delete_pool" => {"poolDestroy", "poolUndefine"}
                                    \subseteq OpsIn(Queue(c))
         /\ c = "create_disk" => {"mkdirDisk", "qemuCreate", "writeConfig"}
                                    \subseteq OpsIn(Queue(c))
         /\ c = "delete_disk" => "rmDiskDir" \in OpsIn(Queue(c))
         /\ c = "delete_vmdi" => "rmVmdiDir" \in OpsIn(Queue(c))
         /\ c = "create_vm" => "virtInstall" \in OpsIn(Queue(c))
         /\ c = "delete_vm" => "undefineVm" \in OpsIn(Queue(c))
         /\ c \in Unplugs /\ "switchCfg" \in facts => "unbindPort" \in OpsIn(Queue(c))
<1> USE DEF QueueOK
<1>0. c \notin Misparsed \cup Malformed
  BY DEF MayRun, Misparsed, Malformed
<1>1. CASE c \in {"create_pool", "create_pool_noauto", "delete_pool"}
  BY <1>0, <1>1, PoolQueues DEF Creates, Unplugs
<1>2. CASE c \in {"create_disk", "delete_disk", "delete_vmdi"}
  BY <1>0, <1>2, DiskQueues DEF Creates, Unplugs
<1>3. CASE c \in {"create_vm", "delete_vm"}
  BY <1>0, <1>3, VmQueues DEF Creates, Unplugs
<1>4. CASE c \in {"plug_bridge", "plug_disk", "unplug_disk", "set_boot_order",
                  "set_vnc_password", "unset_vnc_password",
                  "set_guest_password", "delete_network"}
  BY <1>0, <1>4, DeviceQueues DEF Creates, Unplugs
<1>5. CASE c \in {"plug_l3", "plug_l3_config"}
  <2>1. Queue(c) \in {L3Queue("attachNic", "vmActive" \in facts),
                      L3Queue("attachNicConfig", "vmActive" \in facts)}
    BY <1>5 DEF Queue
  <2>2. ("vmActive" \in facts) \in BOOLEAN
    OBVIOUS
  <2>3. QueueOK(Queue(c), c)
    BY <1>5, <2>1, <2>2, L3QueueOK
  <2> QED BY <1>0, <1>5, <2>3 DEF Creates, Unplugs
<1>6. CASE c \in Unplugs
  <2>1. Queue(c) \in {UnplugQueue("detachNic"), UnplugQueue("detachNicConfig")}
    BY <1>6 DEF Queue, Unplugs
  <2>2. QueueOK(Queue(c), c)
        /\ ("switchCfg" \in facts => "unbindPort" \in OpsIn(Queue(c)))
    BY <1>6, <2>1, UnplugQueueOK
  <2> QED BY <1>0, <1>6, <2>2 DEF Creates, Unplugs
<1> QED BY <1>0, <1>1, <1>2, <1>3, <1>4, <1>5, <1>6
        DEF Commands, Unplugs, Misparsed, Malformed

LEMMA EmptyOps == OpsIn(<<>>) = {} /\ Ordered(<<>>)
  BY DEF OpsIn, Ordered

\* The reverse queue of a command.
LEMMA RollbackFacts ==
  ASSUME NEW c, NEW o
  PROVE  /\ OpsIn(Rollback(c, o)) \subseteq UndoKit(c) /\ Ordered(Rollback(c, o))
         /\ c = "delete_pool" =>
               IF o \in {"poolDestroy", "poolUndefine"}
               THEN OpsIn(Rollback(c, o)) = {"poolStart"}
               ELSE Rollback(c, o) = <<>>
         /\ c \in Installs => /\ Rollback(c, o) # <<>>
                              /\ OpsIn(Rollback(c, o)) = {"destroyIfActive"}
<1>1. /\ OpsIn(<<"poolDestroy", "poolUndefine">>) = {"poolDestroy", "poolUndefine"}
      /\ OpsIn(<<"poolStart">>) = {"poolStart"}
      /\ OpsIn(<<"rmImage">>) = {"rmImage"}
      /\ OpsIn(<<"destroyIfActive">>) = {"destroyIfActive"}
  BY DEF OpsIn
<1>2. /\ Ordered(<<"poolDestroy", "poolUndefine">>) /\ Ordered(<<"poolStart">>)
      /\ Ordered(<<"rmImage">>) /\ Ordered(<<"destroyIfActive">>)
  BY DEF Ordered, FirstOps, LastOps
<1>3. Rollback(c, o) = <<>> \/ Rollback(c, o) # <<>>
  OBVIOUS
<1>4. CASE Rollback(c, o) = <<>> /\ c # "delete_pool" /\ c \notin Installs
  BY <1>4, EmptyOps
<1>5. CASE c \in Creates /\ Rollback(c, o) # <<>>
  <2>1. Rollback(c, o) = <<"poolDestroy", "poolUndefine">>
    BY <1>5 DEF Rollback, Creates
  <2> QED BY <1>1, <1>2, <1>5, <2>1 DEF UndoKit, Creates, Installs
<1>6. CASE c = "delete_pool"
  <2>1. Rollback(c, o) = IF o \in {"poolDestroy", "poolUndefine"}
                         THEN <<"poolStart">> ELSE <<>>
    BY <1>6 DEF Rollback
  <2> QED BY <1>1, <1>2, <1>6, <2>1, EmptyOps DEF UndoKit, Creates, Installs
<1>7. CASE c = "create_disk" /\ Rollback(c, o) # <<>>
  <2>1. Rollback(c, o) = <<"rmImage">>
    BY <1>7 DEF Rollback
  <2> QED BY <1>1, <1>2, <1>7, <2>1 DEF UndoKit, Creates, Installs
<1>8. CASE c \in Installs
  <2>1. Rollback(c, o) = <<"destroyIfActive">>
    BY <1>8 DEF Rollback, Installs
  <2> QED BY <1>1, <1>2, <1>8, <2>1 DEF UndoKit, Creates, Installs
<1>9. CASE c \notin Creates \cup Installs \cup {"delete_pool", "create_disk"}
  <2>1. Rollback(c, o) = <<>>
    BY <1>9 DEF Rollback, Creates, Installs
  <2> QED BY <1>9, <2>1, EmptyOps
<1> QED BY <1>3, <1>4, <1>5, <1>6, <1>7, <1>8, <1>9 DEF Creates, Installs
-----------------------------------------------------------------------------
(* The shape of the state.                                                   *)

\* Every operation of a queue belongs to the resource of its command.
LEMMA KitResource ==
  ASSUME NEW c \in Commands, NEW o \in RunKit(c) \cup UndoKit(c)
  PROVE  /\ o \in DOMAIN PoolOp \cup {"updatePool", "deletePool"} => Resource(c) = "pool"
         /\ o \in {"mkdirDisk", "qemuCreate", "rmImage", "rmDiskDir", "writeConfig",
                   "updateDisk", "deleteDisk"} => Resource(c) = "disk"
         /\ o \in {"rmVmdiDir", "deleteVmdi"} => Resource(c) = "vmdi"
         /\ o \in {"virtInstall", "startIfStopped", "destroyIfActive", "undefineVm",
                   "deleteVm"} => Resource(c) = "vm"
         /\ o = "defineXml" => Resource(c) = "boot"
         /\ o \in {"bindPort", "unbindPort", "echoSwitch"} => Resource(c) \in {"vm", "nic"}
         /\ o \in OpNames
<1>1. CASE c \in Creates \cup {"delete_pool"}
  <2>1. o \in DOMAIN PoolOp \cup {"updatePool", "deletePool"}
    BY <1>1 DEF RunKit, UndoKit, Creates, Installs, Unplugs, Misparsed, Malformed, PoolOp
  <2>2. Resource(c) = "pool"
    BY <1>1 DEF Resource, Creates
  <2> QED BY <2>1, <2>2 DEF PoolOp, OpNames, ApiOp
<1>2. CASE c \in {"create_disk", "delete_disk"}
  <2>1. o \in {"mkdirDisk", "qemuCreate", "rmImage", "rmDiskDir", "writeConfig",
               "updateDisk", "deleteDisk"}
    BY <1>2 DEF RunKit, UndoKit, Creates, Installs, Unplugs, Misparsed, Malformed
  <2>2. Resource(c) = "disk"
    BY <1>2 DEF Resource
  <2> QED BY <2>1, <2>2 DEF PoolOp, OpNames, DiskOp, ApiOp
<1>3. CASE c = "delete_vmdi"
  <2>1. o \in {"rmVmdiDir", "deleteVmdi"}
    BY <1>3 DEF RunKit, UndoKit, Creates, Installs, Unplugs, Misparsed, Malformed
  <2>2. Resource(c) = "vmdi"
    BY <1>3 DEF Resource
  <2> QED BY <2>1, <2>2 DEF PoolOp, OpNames, DiskOp, ApiOp
<1>4. CASE c \in Installs \cup {"delete_vm"}
  <2>1. o \in {"virtInstall", "startIfStopped", "dommemstat", "attachNic", "unbindPort",
               "bindPort", "echoSwitch", "echoIp", "destroyIfActive", "undefineVm",
               "deleteVm"}
    BY <1>4 DEF RunKit, UndoKit, Creates, Installs, Unplugs, Misparsed, Malformed
  <2>2. Resource(c) = "vm"
    BY <1>4 DEF Resource, Installs
  <2> QED BY <2>1, <2>2 DEF PoolOp, OpNames, VmOp, NicOp, ApiOp
<1>5. CASE c \in {"plug_bridge", "plug_l3", "plug_l3_config"} \cup Unplugs
  <2>1. o \in {"attachNic", "attachNicConfig", "detachNic", "detachNicConfig",
               "unbindPort", "bindPort", "echoSwitch", "echoIp"}
    BY <1>5 DEF RunKit, UndoKit, Creates, Installs, Unplugs, Misparsed, Malformed
  <2>2. Resource(c) = "nic"
    BY <1>5 DEF Resource, Unplugs
  <2> QED BY <2>1, <2>2 DEF PoolOp, OpNames, NicOp
<1>6. CASE c = "set_boot_order"
  <2>1. o \in {"dumpXml", "defineXml"}
    BY <1>6 DEF RunKit, UndoKit, Creates, Installs, Unplugs, Misparsed, Malformed
  <2>2. Resource(c) = "boot"
    BY <1>6 DEF Resource
  <2> QED BY <2>1, <2>2 DEF PoolOp, OpNames, VmOp
<1>7. CASE c \notin Creates \cup Installs \cup Unplugs
                \cup {"delete_pool", "create_disk", "delete_disk", "delete_vmdi",
                      "delete_vm", "plug_bridge", "plug_l3", "plug_l3_config",
                      "set_boot_order"}
  <2>1. o \in {"attachDisk", "detachDisk", "setVnc", "unsetVnc", "customize", "deleteNet"}
    BY <1>7 DEF RunKit, UndoKit, Creates, Installs, Unplugs, Misparsed, Malformed
  <2> QED BY <2>1 DEF PoolOp, OpNames, VmOp, DeviceOp, GraphicOp, ApiOp
<1> QED BY <1>1, <1>2, <1>3, <1>4, <1>5, <1>6, <1>7

\* What the type invariant says of one thread.
LEMMA ProcTypeOK ==
  Typed <=> /\ facts \subseteq Facts /\ tmpXml \subseteq {"nicConf", "devConf"}
             /\ proc \in [Threads -> ProcType] /\ mix \subseteq Commands
             /\ left \in [Budgets -> Nat]
  BY DEF Typed, ProcType

LEMMA HeadInKit ==
  ASSUME Shape, NEW t \in Threads, proc[t].todo # <<>>
  PROVE  /\ Head(proc[t].todo) \in OpNames /\ Head(proc[t].todo) \in Rest(t)
         /\ Head(proc[t].todo) \in Kit(t) /\ Running(t) /\ proc[t].pc \in {"run", "undo"}
         /\ proc[t].todo \in Seq(OpNames)
         /\ proc[t].pc = "run" => proc[t].cmd \notin Misparsed \cup Malformed
<1>1. proc[t].todo \in Seq(OpNames) /\ proc[t].pc \in {"idle", "start", "run", "undo"}
  BY ProcTypeOK DEF Shape, ProcType
<1>2. Head(proc[t].todo) \in OpNames /\ Head(proc[t].todo) \in Rest(t)
  BY <1>1, TailOps DEF Rest
<1>3. Head(proc[t].todo) \in Kit(t)
  BY <1>2 DEF Shape, Place, PlaceOf
<1>4. proc[t].pc \in {"run", "undo"}
  BY <1>1, <1>3 DEF Kit
<1>5. proc[t].pc = "run" => proc[t].cmd \notin Misparsed \cup Malformed
  BY <1>3 DEF Kit, RunKit, Misparsed, Malformed, Creates, Unplugs
<1> QED BY <1>1, <1>2, <1>3, <1>4, <1>5 DEF Running

\* An operation that is performed leaves facts.
LEMMA PerformType ==
  ASSUME Typed, NEW o \in OpNames, Perform(o)
  PROVE  facts' \subseteq Facts /\ tmpXml' \subseteq {"nicConf", "devConf"}
<1>1. Dumped(facts) \subseteq {"nicConf", "devConf"}
  BY DEF Dumped, AsConf
<1>2. tmpXml' \subseteq {"nicConf", "devConf"}
  BY <1>1 DEF Perform, Typed
<1>3. Started(facts) \subseteq Facts /\ Stopped(facts) \subseteq Facts
  BY DEF Typed, Started, Stopped, AsLive, Live, Facts
<1>4. (facts \ {"nicConf", "devConf", "vncConf"}) \cup {"vmDefined"} \cup tmpXml
        \subseteq Facts
  BY DEF Typed, Facts
<1>5. (facts \ OpOf(o).dels) \cup OpOf(o).adds \subseteq Facts
  BY AddsFacts DEF Typed
<1>6. After(o) \subseteq Facts
  BY <1>3, <1>4, <1>5 DEF After
<1>7. facts \subseteq Facts
  BY DEF Typed
<1> QED BY <1>2, <1>6, <1>7 DEF Perform
\* A step of a thread that keeps its command and its place.
LEMMA KeepShape ==
  ASSUME Shape, NEW t \in Threads, Running(t), OnlyThread(t), PlaceOf(t)',
         proc'[t].cmd = proc[t].cmd
  PROVE  Place'
<1>1. \A u \in Threads : u # t => (Running(u)' <=> Running(u)) /\ (PlaceOf(u)' <=> PlaceOf(u))
  BY DEF OnlyThread, Running, PlaceOf, Rest, Kit
<1>2. Place'
  BY <1>1 DEF Shape, Place
<1> QED BY <1>2

\* The next operation, as the invariants see it.
LEMMA AdvanceShape ==
  ASSUME Shape, NEW t \in Threads, proc[t].todo # <<>>, Advance(t)
  PROVE  /\ proc' \in [Threads -> ProcType] /\ OnlyThread(t) /\ Place'
         /\ proc'[t].cmd = proc[t].cmd /\ proc'[t].pc = proc[t].pc
         /\ proc'[t].tries = proc[t].tries
         /\ Rest(t)' \subseteq Rest(t)
         /\ Rest(t) \subseteq {Head(proc[t].todo)} \cup Rest(t)'
         /\ Rest(t)' \cap FirstOps = {}
         /\ Head(proc[t].todo) \in LastOps => Rest(t)' = {}
         /\ Head(proc[t].todo) = "bindPort" =>
               proc'[t].todo # <<>> /\ Head(proc'[t].todo) = "echoSwitch"
<1>1. proc \in [Threads -> ProcType] /\ PlaceOf(t)
  BY ProcTypeOK DEF Shape, Place
<1>2. /\ proc' \in [Threads -> ProcType] /\ OnlyThread(t)
      /\ proc'[t].cmd = proc[t].cmd /\ proc'[t].pc = proc[t].pc
      /\ proc'[t].tries = proc[t].tries /\ proc'[t].out = proc[t].out
      /\ proc'[t].todo = Tail(proc[t].todo)
  BY <1>1, AdvanceEffect
<1>3. proc[t].todo \in Seq(OpNames) /\ Running(t)
  BY HeadInKit
<1>4. Rest(t)' = OpsIn(Tail(proc[t].todo)) /\ Ordered(proc[t].todo)
  BY <1>1, <1>2 DEF Rest, PlaceOf
<1>5. /\ Rest(t)' \subseteq Rest(t)
      /\ Rest(t) \subseteq {Head(proc[t].todo)} \cup Rest(t)'
  BY <1>3, <1>4, TailOps DEF Rest
<1>6. /\ Ordered(proc'[t].todo) /\ Rest(t)' \cap FirstOps = {}
      /\ Head(proc[t].todo) \in LastOps => Rest(t)' = {}
      /\ Head(proc[t].todo) = "bindPort" =>
            proc'[t].todo # <<>> /\ Head(proc'[t].todo) = "echoSwitch"
  BY <1>2, <1>3, <1>4, TailOrdered
<1>7. PlaceOf(t)'
  BY <1>1, <1>2, <1>5, <1>6 DEF PlaceOf, Kit, Running
<1> QED BY <1>2, <1>3, <1>5, <1>6, <1>7, KeepShape

LEMMA RetryShape ==
  ASSUME Shape, NEW t \in Threads, Running(t), Retry(t)
  PROVE  /\ proc' \in [Threads -> ProcType] /\ OnlyThread(t) /\ Place'
         /\ proc'[t].cmd = proc[t].cmd /\ Rest(t)' = {} /\ proc'[t].todo = <<>>
         /\ \/ /\ Past(t) = Tries - 1 /\ ~ Running(t)'
               /\ proc'[t].pc = "idle" /\ proc'[t].out = "failed"
            \/ Past(t)' = Past(t) + 1 /\ proc'[t].pc = "start"
<1>1. proc \in [Threads -> ProcType] /\ PlaceOf(t) /\ proc[t].tries \in 1 .. Tries
  BY ProcTypeOK DEF Shape, Place, PlaceOf
<1>2. /\ proc' \in [Threads -> ProcType] /\ OnlyThread(t)
      /\ proc'[t].cmd = proc[t].cmd /\ proc'[t].todo = <<>>
      /\ \/ /\ proc[t].tries = 1 /\ proc'[t].tries = 1
            /\ proc'[t].pc = "idle" /\ proc'[t].out = "failed"
         \/ /\ proc'[t].tries \in 1 .. Tries
            /\ proc'[t].tries = proc[t].tries - 1
            /\ proc'[t].pc = "start"
  BY <1>1, RetryEffect
<1>3. Rest(t)' = {} /\ Ordered(proc'[t].todo)
  BY <1>2, EmptyOps DEF Rest
<1>4. PlaceOf(t)'
  BY <1>1, <1>2, <1>3 DEF PlaceOf, Running
<1>5. \/ Past(t) = Tries - 1 /\ ~ Running(t)' /\ proc'[t].pc = "idle"
      \/ Past(t)' = Past(t) + 1 /\ proc'[t].pc = "start"
  BY <1>1, <1>2 DEF Past, Running, Tries
<1> QED BY <1>2, <1>3, <1>4, <1>5, KeepShape

LEMMA UndoShape ==
  ASSUME Shape, NEW t \in Threads, Running(t), NEW o, Undo(t, o)
  PROVE  /\ proc' \in [Threads -> ProcType] /\ OnlyThread(t) /\ Place'
         /\ proc'[t].cmd = proc[t].cmd
         /\ \/ Rollback(proc[t].cmd, o) = <<>> /\ Retry(t)
            \/ /\ proc'[t].pc = "undo" /\ proc'[t].tries = proc[t].tries
               /\ Rest(t)' = OpsIn(Rollback(proc[t].cmd, o))
<1>1. proc \in [Threads -> ProcType] /\ PlaceOf(t)
  BY ProcTypeOK DEF Shape, Place
<1>2. CASE Rollback(proc[t].cmd, o) = <<>> /\ Retry(t)
  BY <1>2, RetryShape
<1>3. CASE /\ proc' \in [Threads -> ProcType] /\ OnlyThread(t)
           /\ proc'[t].cmd = proc[t].cmd /\ proc'[t].pc = "undo"
           /\ proc'[t].tries = proc[t].tries
           /\ proc'[t].todo = Rollback(proc[t].cmd, o)
  <2>1. Rest(t)' = OpsIn(Rollback(proc[t].cmd, o))
    BY <1>3 DEF Rest
  <2>2. Kit(t)' = UndoKit(proc[t].cmd)
    BY <1>3 DEF Kit
  <2>3. Rest(t)' \subseteq Kit(t)' /\ Ordered(proc'[t].todo)
    BY <1>3, <2>1, <2>2, RollbackFacts
  <2>4. PlaceOf(t)'
    BY <1>1, <1>3, <2>3 DEF PlaceOf, Running
  <2> QED BY <1>3, <2>1, <2>4, KeepShape
<1> QED BY <1>1, <1>2, <1>3, UndoEffect

\* The bounds only grow smaller.
LEMMA SpendShape ==
  ASSUME Shape, NEW b \in Budgets, Spend(b)
  PROVE  /\ left' \in [Budgets -> Nat] /\ LeftOK' /\ Spent(b)' = Spent(b) + 1
         /\ \A a \in Budgets \ {b} : Spent(a)' = Spent(a)
<1>1. left \in [Budgets -> Nat] /\ LeftOK
  BY ProcTypeOK DEF Shape
<1>2. /\ left' \in [Budgets -> Nat] /\ Spent(b)' = Spent(b) + 1
      /\ \A a \in Budgets \ {b} : left'[a] = left[a] /\ Spent(a)' = Spent(a)
  BY <1>1, SpendEffect
<1>3. left'[b] = left[b] - 1
  BY <1>1 DEF Spend
<1>4. \A a \in Budgets : left[a] \in Nat /\ Full[a] \in Nat /\ left[a] <= Full[a]
  BY <1>1, VirshplusAssumption DEF LeftOK
<1>5. LeftOK'
  BY <1>2, <1>3, <1>4 DEF LeftOK
<1> QED BY <1>2, <1>5

LEMMA SpentNat ==
  ASSUME Shape
  PROVE  \A b \in Budgets : Spent(b) \in Nat
<1>1. \A b \in Budgets : left[b] \in Nat /\ Full[b] \in Nat /\ left[b] <= Full[b]
  BY ProcTypeOK, VirshplusAssumption DEF Shape, LeftOK
<1> QED BY <1>1 DEF Spent
-----------------------------------------------------------------------------
(* The actions, as the invariants see them.                                  *)

\* No bound is spent.
Steady == \A b \in Budgets : Spent(b)' = Spent(b)

LEMMA UnchangedLeft ==
  ASSUME Shape, left' = left
  PROVE  left' \in [Budgets -> Nat] /\ LeftOK' /\ Steady
  BY ProcTypeOK DEF Shape, LeftOK, Steady, Spent

LEMMA ShapeParts ==
  /\ Shape => /\ facts \subseteq Facts /\ tmpXml \subseteq {"nicConf", "devConf"}
              /\ proc \in [Threads -> ProcType] /\ mix \subseteq Commands
              /\ left \in [Budgets -> Nat] /\ LeftOK /\ Place
  /\ /\ facts' \subseteq Facts /\ tmpXml' \subseteq {"nicConf", "devConf"}
     /\ proc' \in [Threads -> ProcType] /\ mix' \subseteq Commands
     /\ left' \in [Budgets -> Nat] /\ LeftOK' /\ Place'
     => Shape'
<1>1. Shape => /\ facts \subseteq Facts /\ tmpXml \subseteq {"nicConf", "devConf"}
               /\ proc \in [Threads -> ProcType] /\ mix \subseteq Commands
               /\ left \in [Budgets -> Nat] /\ LeftOK /\ Place
  BY ProcTypeOK DEF Shape
<1>2. Typed' <=> /\ facts' \subseteq Facts /\ tmpXml' \subseteq {"nicConf", "devConf"}
                  /\ proc' \in [Threads -> ProcType] /\ mix' \subseteq Commands
                  /\ left' \in [Budgets -> Nat]
  BY DEF Typed, ProcType
<1> QED BY <1>1, <1>2 DEF Shape

LEMMA InitShape ==
  ASSUME Init
  PROVE  Shape
<1>1. Idle \in ProcType /\ Idle.pc = "idle" /\ Idle.todo = <<>>
  BY EmptyQueue DEF Idle, ProcType, Tries
<1>2. proc \in [Threads -> ProcType] /\ \A t \in Threads : proc[t] = Idle
  BY <1>1 DEF Init
<1>3. facts \subseteq Facts /\ tmpXml = {} /\ mix \subseteq Commands /\ left = Full
  BY VirshplusAssumption DEF Init
<1>4. left \in [Budgets -> Nat] /\ LeftOK
  <2>1. \A b \in Budgets : Full[b] \in Nat
    BY VirshplusAssumption
  <2>2. Full = [b \in Budgets |-> Full[b]]
    BY DEF Full, Budgets
  <2> QED BY <1>3, <2>1, <2>2 DEF LeftOK
<1>5. Place
  BY <1>1, <1>2, EmptyOps DEF Place, PlaceOf, Running, Rest
<1> QED BY <1>2, <1>3, <1>4, <1>5, ProcTypeOK DEF Shape

LEMMA PostEffect ==
  ASSUME Shape, NEW t \in Threads, NEW c \in mix, Post(t, c)
  PROVE  /\ Shape' /\ OnlyThread(t) /\ ~ Running(t)
         /\ proc'[t].cmd = c /\ proc'[t].pc = "start" /\ Past(t)' = 0
         /\ Rest(t)' = {} /\ Meet(t, c)
         /\ facts' = facts \cup Posted(c) /\ Spent("faults")' = Spent("faults")
         /\ Spent("grumbles")' = Spent("grumbles") /\ Spent("moves")' = Spent("moves")
<1> DEFINE p == [cmd |-> c, pc |-> "start", todo |-> <<>>, tries |-> Tries, out |-> "none"]
<1>0. c \in Commands /\ proc \in [Threads -> ProcType]
  BY ShapeParts
<1>1. p \in ProcType /\ p.cmd = c /\ p.pc = "start" /\ p.todo = <<>> /\ p.tries = Tries
  BY <1>0, EmptyQueue DEF ProcType, Tries
<1>2. proc' = [proc EXCEPT ![t] = p] /\ proc[t].pc = "idle" /\ Meet(t, c)
  BY DEF Post
<1> HIDE DEF p
<1>3. proc' \in [Threads -> ProcType] /\ proc'[t] = p /\ OnlyThread(t)
  BY <1>0, <1>1, <1>2, ProcUpdate
<1>4. /\ left' \in [Budgets -> Nat] /\ LeftOK'
      /\ \A a \in Budgets \ {"cmds"} : Spent(a)' = Spent(a)
  BY SpendShape DEF Post, Budgets
<1>5. facts' \subseteq Facts
  <2>1. Posted(c) \subseteq Facts
    BY DEF Posted, Facts
  <2> QED BY <2>1, ShapeParts DEF Post
<1>6. PlaceOf(t)' /\ Rest(t)' = {}
  BY <1>0, <1>1, <1>3, EmptyOps DEF PlaceOf, Rest, Tries
<1>7. \A u \in Threads : u # t => (Running(u)' <=> Running(u)) /\ (PlaceOf(u)' <=> PlaceOf(u))
  BY <1>3 DEF OnlyThread, Running, PlaceOf, Rest, Kit
<1>8. Place'
  BY <1>6, <1>7, ShapeParts DEF Place
<1>11. tmpXml' \subseteq {"nicConf", "devConf"} /\ mix' \subseteq Commands
  BY ShapeParts DEF Post
<1>12. Shape'
  BY <1>3, <1>4, <1>5, <1>8, <1>11, ShapeParts
<1>13. Past(t)' = 0
  BY <1>1, <1>3 DEF Past, Tries
<1> QED BY <1>1, <1>2, <1>3, <1>4, <1>6, <1>12, <1>13 DEF Post, Running, Budgets

LEMMA PrepareEffect ==
  ASSUME Shape, NEW t \in Threads, Prepare(t)
  PROVE  /\ Shape' /\ OnlyThread(t) /\ Running(t) /\ proc[t].pc = "start"
         /\ proc'[t].cmd = proc[t].cmd /\ proc[t].cmd \in Commands /\ Steady
         /\ \/ /\ MayRun(proc[t].cmd) /\ facts' = facts \cup Written(proc[t].cmd)
               /\ proc'[t].pc = "run" /\ Past(t)' = Past(t)
               /\ Rest(t)' = OpsIn(Queue(proc[t].cmd))
            \/ ~ MayRun(proc[t].cmd) /\ facts' = facts /\ Undo(t, "checks")
<1> USE DEF QueueOK
<1> DEFINE c == proc[t].cmd
<1>0. /\ proc \in [Threads -> ProcType] /\ PlaceOf(t) /\ proc[t].pc = "start"
      /\ Running(t) /\ c \in Commands
  BY ShapeParts DEF Prepare, Running, Place, PlaceOf
<1>1. left' \in [Budgets -> Nat] /\ LeftOK' /\ Steady
  BY UnchangedLeft DEF Prepare
<1>2. tmpXml' \subseteq {"nicConf", "devConf"} /\ mix' \subseteq Commands
  BY ShapeParts DEF Prepare
<1>3. CASE MayRun(c)
  <2> DEFINE q == Queue(c)
             p == [proc[t] EXCEPT !.pc = "run", !.todo = q]
  <2>1. proc' = [proc EXCEPT ![t] = p] /\ facts' = facts \cup Written(c)
    BY <1>3 DEF Prepare
  <2>2. QueueOK(q, c)
    BY <1>0, <1>3, QueueFacts
  <2> HIDE DEF q
  <2>3. /\ p \in ProcType /\ p.pc = "run" /\ p.todo = q /\ p.cmd = proc[t].cmd
        /\ p.tries = proc[t].tries
    BY <1>0, <2>2 DEF ProcType
  <2> HIDE DEF p
  <2>4. proc' \in [Threads -> ProcType] /\ proc'[t] = p /\ OnlyThread(t)
    BY <1>0, <2>1, <2>3, ProcUpdate
  <2>5. PlaceOf(t)' /\ Rest(t)' = OpsIn(q) /\ Past(t)' = Past(t)
    BY <1>0, <2>2, <2>3, <2>4 DEF PlaceOf, Rest, Kit, Past
  <2>6. Place'
    BY <1>0, <2>3, <2>4, <2>5, KeepShape
  <2>7. Written(c) \subseteq Facts
    BY DEF Written, Facts
  <2>8. facts' \subseteq Facts
    BY <2>1, <2>7, ShapeParts
  <2>9. Shape'
    BY <1>1, <1>2, <2>4, <2>6, <2>8, ShapeParts
  <2> QED BY <1>0, <1>1, <1>3, <2>1, <2>3, <2>4, <2>5, <2>9 DEF q
<1>4. CASE ~ MayRun(c)
  <2>1. Undo(t, "checks") /\ facts' = facts
    BY <1>4 DEF Prepare
  <2>2. /\ proc' \in [Threads -> ProcType] /\ OnlyThread(t) /\ Place'
        /\ proc'[t].cmd = proc[t].cmd
    BY <1>0, <2>1, UndoShape
  <2>3. facts' \subseteq Facts
    BY <2>1, ShapeParts
  <2>4. Shape'
    BY <1>1, <1>2, <2>2, <2>3, ShapeParts
  <2> QED BY <1>0, <1>1, <1>4, <2>1, <2>2, <2>4
<1> QED BY <1>3, <1>4

LEMMA DoEffect ==
  ASSUME Shape, NEW t \in Threads, Do(t)
  PROVE  LET o == Head(proc[t].todo)
         IN /\ Shape' /\ OnlyThread(t) /\ Running(t) /\ Steady /\ proc[t].todo # <<>>
            /\ (Skipped(o) \/ Allowed(o)) /\ Perform(o) /\ Advance(t)
<1> DEFINE o == Head(proc[t].todo)
<1>1. /\ proc[t].todo # <<>> /\ (Skipped(o) \/ Allowed(o)) /\ Perform(o)
      /\ Advance(t) /\ left' = left /\ mix' = mix
  BY DEF Do
<1>2. o \in OpNames /\ Running(t)
  BY <1>1, HeadInKit
<1>3. proc' \in [Threads -> ProcType] /\ OnlyThread(t) /\ Place'
  BY <1>1, AdvanceShape
<1>4. facts' \subseteq Facts /\ tmpXml' \subseteq {"nicConf", "devConf"}
  BY <1>1, <1>2, PerformType DEF Shape
<1>5. left' \in [Budgets -> Nat] /\ LeftOK' /\ Steady /\ mix' \subseteq Commands
  BY <1>1, UnchangedLeft, ShapeParts
<1>6. Shape'
  BY <1>3, <1>4, <1>5, ShapeParts
<1> QED BY <1>1, <1>2, <1>3, <1>5, <1>6

\* What a failing operation costs, and what it has done.
ErrCost(o) ==
    \/ Refused(o) /\ facts' = facts /\ Steady
    \/ /\ o \notin DOMAIN ApiOp \cup {"delAutoStart"} /\ facts' = facts
       /\ Spent("faults")' = Spent("faults") + 1
       /\ Spent("grumbles")' = Spent("grumbles") /\ Spent("moves")' = Spent("moves")
    \/ /\ o \in DOMAIN ApiOp /\ facts' = facts
       /\ Spent("faults")' = Spent("faults")
       /\ Spent("grumbles")' = Spent("grumbles") /\ Spent("moves")' = Spent("moves")
    \/ /\ o \notin Silent /\ Allowed(o) /\ Perform(o)
       /\ Spent("faults")' = Spent("faults")
       /\ Spent("grumbles")' = Spent("grumbles") + 1 /\ Spent("moves")' = Spent("moves")

LEMMA ErrEffect ==
  ASSUME Shape, NEW t \in Threads, Err(t)
  PROVE  LET o == Head(proc[t].todo)
         IN /\ Shape' /\ OnlyThread(t) /\ Running(t) /\ proc[t].todo # <<>>
            /\ ~ Skipped(o) /\ ErrCost(o)
            /\ \/ /\ proc[t].pc = "run" /\ Tolerates(proc[t].cmd, o, facts')
                  /\ Advance(t)
               \/ /\ proc[t].pc = "run" /\ ~ Tolerates(proc[t].cmd, o, facts')
                  /\ Undo(t, o)
               \/ proc[t].pc = "undo" /\ Retry(t)
<1> DEFINE o == Head(proc[t].todo)
<1>1. /\ proc[t].todo # <<>> /\ ~ Skipped(o) /\ mix' = mix
      /\ \/ Refused(o) /\ Nothing /\ UNCHANGED left
         \/ /\ o \notin DOMAIN ApiOp \cup {"delAutoStart"}
            /\ Spend("faults") /\ Nothing
         \/ o \in DOMAIN ApiOp /\ Spend("outages") /\ Nothing
         \/ o \notin Silent /\ Allowed(o) /\ Spend("grumbles") /\ Perform(o)
      /\ IF proc[t].pc = "run" THEN Fail(t, o) ELSE Abort(t)
  BY DEF Err
<1>2. o \in OpNames /\ Running(t) /\ proc[t].pc \in {"run", "undo"}
  BY <1>1, HeadInKit
<1>3. \/ proc[t].pc = "run" /\ Tolerates(proc[t].cmd, o, facts') /\ Advance(t)
      \/ proc[t].pc = "run" /\ ~ Tolerates(proc[t].cmd, o, facts') /\ Undo(t, o)
      \/ proc[t].pc = "undo" /\ Retry(t)
  BY <1>1, <1>2 DEF Fail, Abort
<1>4. proc' \in [Threads -> ProcType] /\ OnlyThread(t) /\ Place'
  BY <1>1, <1>2, <1>3, AdvanceShape, RetryShape, UndoShape
<1>5. /\ ErrCost(o) /\ left' \in [Budgets -> Nat] /\ LeftOK'
      /\ facts' \subseteq Facts /\ tmpXml' \subseteq {"nicConf", "devConf"}
  <2>0. "faults" \in Budgets /\ "grumbles" \in Budgets /\ "outages" \in Budgets
        /\ "moves" \in Budgets
    BY DEF Budgets
  <2>1. CASE Refused(o) /\ Nothing /\ UNCHANGED left
    BY <2>1, UnchangedLeft, ShapeParts DEF ErrCost, Nothing
  <2>2. CASE /\ o \notin DOMAIN ApiOp \cup {"delAutoStart"}
             /\ Spend("faults") /\ Nothing
    BY <2>0, <2>2, SpendShape, ShapeParts DEF ErrCost, Nothing
  <2>3. CASE o \in DOMAIN ApiOp /\ Spend("outages") /\ Nothing
    BY <2>0, <2>3, SpendShape, ShapeParts DEF ErrCost, Nothing
  <2>4. CASE o \notin Silent /\ Allowed(o) /\ Spend("grumbles") /\ Perform(o)
    <3>1. facts' \subseteq Facts /\ tmpXml' \subseteq {"nicConf", "devConf"}
      BY <1>2, <2>4, PerformType DEF Shape
    <3> QED BY <2>0, <2>4, <3>1, SpendShape DEF ErrCost
  <2> QED BY <1>1, <2>1, <2>2, <2>3, <2>4
<1>6. Shape'
  BY <1>1, <1>4, <1>5, ShapeParts
<1> QED BY <1>1, <1>2, <1>3, <1>4, <1>5, <1>6

LEMMA FinishEffect ==
  ASSUME Shape, NEW t \in Threads, Finish(t)
  PROVE  /\ Shape' /\ OnlyThread(t) /\ Running(t) /\ Steady /\ facts' = facts
         /\ Rest(t) = {} /\ proc'[t].cmd = proc[t].cmd
         /\ \/ /\ proc[t].pc = "run" /\ ~ Running(t)' /\ proc'[t].out = "done"
               /\ proc'[t].pc = "idle"
            \/ proc[t].pc = "undo" /\ Retry(t)
<1>0. /\ proc \in [Threads -> ProcType] /\ PlaceOf(t) /\ proc[t].todo = <<>> /\ Rest(t) = {}
      /\ proc[t].pc \in {"run", "undo"} /\ Running(t) /\ facts' = facts
  BY ShapeParts, EmptyOps DEF Finish, Running, Place, Rest
<1>1. left' \in [Budgets -> Nat] /\ LeftOK' /\ Steady
  BY UnchangedLeft DEF Finish
<1>2. tmpXml' \subseteq {"nicConf", "devConf"} /\ mix' \subseteq Commands /\ facts' \subseteq Facts
  BY ShapeParts DEF Finish
<1>3. CASE proc[t].pc = "run"
  <2> DEFINE p == [proc[t] EXCEPT !.pc = "idle", !.out = "done"]
  <2>1. proc' = [proc EXCEPT ![t] = p]
    BY <1>3 DEF Finish
  <2>2. /\ p \in ProcType /\ p.pc = "idle" /\ p.todo = proc[t].todo
        /\ p.cmd = proc[t].cmd /\ p.out = "done"
    BY <1>0 DEF ProcType
  <2> HIDE DEF p
  <2>3. proc' \in [Threads -> ProcType] /\ proc'[t] = p /\ OnlyThread(t)
    BY <1>0, <2>1, <2>2, ProcUpdate
  <2>4. PlaceOf(t)' /\ ~ Running(t)'
    BY <1>0, <2>2, <2>3, EmptyOps DEF PlaceOf, Rest, Running
  <2>5. Place'
    BY <1>0, <2>2, <2>3, <2>4, KeepShape
  <2>6. Shape'
    BY <1>1, <1>2, <2>3, <2>5, ShapeParts
  <2> QED BY <1>0, <1>1, <1>3, <2>2, <2>3, <2>4, <2>6
<1>4. CASE proc[t].pc = "undo"
  <2>1. Retry(t)
    BY <1>4 DEF Finish
  <2>2. /\ proc' \in [Threads -> ProcType] /\ OnlyThread(t) /\ Place'
        /\ proc'[t].cmd = proc[t].cmd
    BY <1>0, <2>1, RetryShape
  <2>3. Shape'
    BY <1>1, <1>2, <2>2, ShapeParts
  <2> QED BY <1>0, <1>1, <1>4, <2>1, <2>2, <2>3
<1> QED BY <1>0, <1>3, <1>4

LEMMA OthersEffect ==
  ASSUME Shape, Others
  PROVE  /\ Shape' /\ proc' = proc /\ Spent("moves")' = Spent("moves") + 1
         /\ Spent("faults")' = Spent("faults")
         /\ Spent("grumbles")' = Spent("grumbles")
         /\ \A f \in Tracked \ {"vmActive"} :
               \/ f \in facts' <=> f \in facts
               \/ f = "poolActive" /\ AtPool \subseteq crossed'
         /\ crossed \subseteq crossed'
<1>1. /\ Spend("moves") /\ proc' = proc /\ mix' = mix /\ tmpXml' = tmpXml
      /\ \/ facts' = Started(facts) /\ crossed' = crossed
         \/ facts' = Stopped(facts) /\ crossed' = crossed
         \/ facts' = facts \ {"poolActive"} /\ crossed' = crossed \cup AtPool
  BY DEF Others
<1>2. /\ left' \in [Budgets -> Nat] /\ LeftOK' /\ Spent("moves")' = Spent("moves") + 1
      /\ Spent("faults")' = Spent("faults") /\ Spent("grumbles")' = Spent("grumbles")
  BY <1>1, SpendShape DEF Budgets
<1>3. Started(facts) \subseteq Facts /\ Stopped(facts) \subseteq Facts /\ facts \subseteq Facts
  BY ShapeParts DEF Started, Stopped, AsLive, Live, Facts
<1>4. Place'
  BY <1>1, ShapeParts DEF Place, PlaceOf, Running, Rest, Kit
<1>5. Shape'
  <2>1. facts' \subseteq Facts
    BY <1>1, <1>3
  <2> QED BY <1>1, <1>2, <1>4, <2>1, ShapeParts
<1>6. AsLive(facts) \subseteq Live
  BY DEF AsLive, Live
<1>7. \A f \in Tracked \ {"vmActive"} :
         \/ f \in facts' <=> f \in facts
         \/ f = "poolActive" /\ AtPool \subseteq crossed'
  BY <1>1, <1>6, LiveAway DEF Started, Stopped
<1> QED BY <1>1, <1>2, <1>5, <1>7
\* What the operations do that the invariants count on.
LEMMA PoolOpDoes ==
  ASSUME NEW o \in DOMAIN PoolOp, Perform(o), Skipped(o) \/ Allowed(o)
  PROVE  /\ o = "mkdirPool" => "poolDir" \in facts'
         /\ o = "defineAs" => "poolDefined" \in facts'
         /\ o = "poolStart" => "poolActive" \in facts'
         /\ o = "writeContent" => "poolContent" \in facts'
         /\ o = "poolDestroy" => "poolActive" \notin facts' /\ "poolActive" \in facts
         /\ o = "poolUndefine" => /\ "poolDefined" \notin facts'
                                  /\ "poolActive" \notin facts /\ "poolActive" \notin facts'
<1>1. ~ Skipped(o)
  BY NotSkipped DEF PoolOp, OpNames
<1>2. Allowed(o) /\ facts' = (facts \ PoolOp[o].dels) \cup PoolOp[o].adds
  BY <1>1, OpRecords DEF Perform, After, PoolOp
<1>3. PoolOp[o].needs \subseteq facts /\ PoolOp[o].forbids \cap facts = {}
  BY <1>2, OpRecords DEF Allowed
<1> QED BY <1>2, <1>3 DEF PoolOp, Shell, Op

LEMMA DiskOpDoes ==
  ASSUME NEW o \in DOMAIN DiskOp, Perform(o), Skipped(o) \/ Allowed(o)
  PROVE  /\ o = "mkdirDisk" => "diskDir" \in facts'
         /\ o = "qemuCreate" => "diskImage" \in facts'
         /\ o = "writeConfig" => "diskConfig" \in facts'
         /\ o = "rmDiskDir" => {"diskDir", "diskImage", "diskConfig"} \cap facts' = {}
         /\ o = "rmVmdiDir" => "vmdiDir" \notin facts'
<1>1. ~ Skipped(o)
  BY NotSkipped DEF DiskOp, OpNames
<1>2. facts' = (facts \ DiskOp[o].dels) \cup DiskOp[o].adds
  BY <1>1, OpRecords DEF Perform, After, DiskOp
<1> QED BY <1>2 DEF DiskOp, Shell, Op

LEMMA VmOpDoes ==
  ASSUME NEW o \in DOMAIN VmOp, Perform(o), Skipped(o) \/ Allowed(o)
  PROVE  /\ o = "undefineVm" => "vmDefined" \notin facts'
         /\ o = "virtInstall" => /\ {"vmDefined", "vmActive"} \subseteq facts'
                                 /\ {"vmDefined", "vmActive"} \cap facts = {}
         /\ o = "destroyIfActive" => "vmActive" \notin facts'
<1>1. CASE o \in {"undefineVm", "virtInstall"}
  <2>1. ~ Skipped(o)
    BY <1>1, NotSkipped DEF VmOp, OpNames
  <2>2. Allowed(o) /\ facts' = (facts \ VmOp[o].dels) \cup VmOp[o].adds
    BY <1>1, <2>1, OpRecords DEF Perform, After
  <2>3. VmOp[o].needs \subseteq facts /\ VmOp[o].forbids \cap facts = {}
    BY <2>2, OpRecords DEF Allowed
  <2> QED BY <1>1, <2>2, <2>3 DEF VmOp, Shell, Op
<1>2. CASE o = "destroyIfActive"
  <2>1. Skipped(o) <=> "vmActive" \notin facts
    BY <1>2, OpRecords DEF Skipped, VmOp, Op
  <2>2. "vmActive" \notin Stopped(facts)
    BY DEF Stopped
  <2> QED BY <1>2, <2>1, <2>2 DEF Perform, After
<1> QED BY <1>1, <1>2

LEMMA NicOpDoes ==
  ASSUME NEW o \in DOMAIN NicOp, Perform(o), Skipped(o) \/ Allowed(o)
  PROVE  /\ o = "unbindPort" => "port" \notin facts'
         /\ o = "echoSwitch" => "switchCfg" \in facts'
<1>1. ~ Skipped(o)
  BY NotSkipped DEF NicOp, OpNames
<1>2. facts' = (facts \ NicOp[o].dels) \cup NicOp[o].adds
  BY <1>1, OpRecords DEF Perform, After, NicOp
<1> QED BY <1>2 DEF NicOp, Shell, Op

\* When an operation is refused.
LEMMA RefusedWhen ==
  ASSUME NEW o \in OpNames, Refused(o)
  PROVE  /\ o # "echoSwitch"
         /\ o = "unbindPort" => "port" \notin facts
         /\ o = "poolDestroy" => "poolActive" \notin facts
         /\ o = "poolUndefine" => "poolActive" \in facts \/ "poolDefined" \notin facts
         /\ o = "poolStart" => \/ "poolActive" \in facts
                               \/ ~ ({"poolDefined", "poolDir"} \subseteq facts)
         /\ o = "virtInstall" => {"vmDefined", "vmActive"} \cap facts # {}
         /\ o # "destroyIfActive"
<1>1. CASE o \in {"echoSwitch", "unbindPort"}
  <2>1. ~ Allowed(o) /\ OpOf(o) = NicOp[o]
    BY <1>1, OpRecords DEF Refused, NicOp
  <2> QED BY <1>1, <2>1 DEF Allowed, NicOp, Shell, Op
<1>2. CASE o \in {"poolDestroy", "poolUndefine", "poolStart"}
  <2>1. ~ Allowed(o) /\ OpOf(o) = PoolOp[o]
    BY <1>2, OpRecords DEF Refused, PoolOp
  <2> QED BY <1>2, <2>1 DEF Allowed, PoolOp, Shell, Op
<1>3. CASE o \in {"virtInstall", "destroyIfActive"}
  <2>1. ~ Allowed(o) /\ OpOf(o) = VmOp[o]
    BY <1>3, OpRecords DEF Refused, VmOp
  <2> QED BY <1>3, <2>1 DEF Allowed, VmOp, Shell, Op
<1> QED BY <1>1, <1>2, <1>3

-----------------------------------------------------------------------------
(* What the other threads leave alone.                                       *)

\* The facts that only the commands of a resource change.
Owned(r) ==
    CASE r = "pool" -> {"poolDir", "poolDefined", "poolActive", "poolContent"}
      [] r = "disk" -> {"diskDir", "diskImage", "diskConfig"}
      [] r = "vmdi" -> {"vmdiDir"}
      [] r = "vm" -> {"vmDefined", "vmActive", "port"}
      [] r = "nic" -> {"port"}
      [] OTHER -> {}

LEMMA OwnedTracked ==
  ASSUME NEW r, NEW f \in Owned(r)
  PROVE  /\ f \in Tracked
         /\ f \in {"poolDir", "poolDefined", "poolActive", "poolContent"} => r = "pool"
         /\ f \in {"diskDir", "diskImage", "diskConfig"} => r = "disk"
         /\ f = "vmdiDir" => r = "vmdi"
         /\ f \in {"vmDefined", "vmActive"} => r = "vm"
         /\ f = "port" => r \in {"vm", "nic"}
         /\ f \in {"poolDir", "poolDefined", "poolActive", "poolContent", "diskDir",
                   "diskImage", "diskConfig", "vmdiDir", "vmDefined", "vmActive", "port"}
<1>1. r \in {"pool", "disk", "vmdi", "vm", "nic"}
  BY DEF Owned
<1> QED BY <1>1 DEF Owned, Tracked

LEMMA OwnedOps ==
  ASSUME NEW r, NEW f \in Owned(r), NEW c \in Commands,
         NEW o \in RunKit(c) \cup UndoKit(c), o \in AddedBy(f) \cup DroppedBy(f)
  PROVE  Conflict(r, Resource(c))
<1>1. CASE f \in {"poolDir", "poolDefined", "poolActive", "poolContent"}
  <2>1. o \in DOMAIN PoolOp
    BY <1>1 DEF AddedBy, DroppedBy, PoolOp
  <2> QED BY <1>1, <2>1, KitResource, OwnedTracked DEF Conflict
<1>2. CASE f \in {"diskDir", "diskImage", "diskConfig"}
  <2>1. o \in {"mkdirDisk", "qemuCreate", "rmImage", "rmDiskDir", "writeConfig"}
    BY <1>2 DEF AddedBy, DroppedBy
  <2> QED BY <1>2, <2>1, KitResource, OwnedTracked DEF Conflict
<1>3. CASE f = "vmdiDir"
  <2>1. o = "rmVmdiDir"
    BY <1>3 DEF AddedBy, DroppedBy
  <2> QED BY <1>3, <2>1, KitResource, OwnedTracked DEF Conflict
<1>4. CASE f \in {"vmDefined", "vmActive"}
  <2>1. o \in {"virtInstall", "startIfStopped", "destroyIfActive", "undefineVm", "defineXml"}
    BY <1>4 DEF AddedBy, DroppedBy
  <2>2. Resource(c) \in {"vm", "boot"} /\ r = "vm"
    BY <1>4, <2>1, KitResource, OwnedTracked
  <2> QED BY <2>2 DEF Conflict, OfVm
<1>5. CASE f = "port"
  <2>1. o \in {"bindPort", "unbindPort"}
    BY <1>5 DEF AddedBy, DroppedBy
  <2>2. Resource(c) \in {"vm", "nic"} /\ r \in {"vm", "nic"}
    BY <1>5, <2>1, KitResource, OwnedTracked
  <2> QED BY <2>2 DEF Conflict, OfVm
<1> QED BY <1>1, <1>2, <1>3, <1>4, <1>5, OwnedTracked

\* The steps of a thread for a command that it has.
Work(t) == Prepare(t) \/ Do(t) \/ Err(t) \/ Finish(t)

LEMMA PostedWritten ==
  ASSUME NEW c
  PROVE  /\ Posted(c) \subseteq {"poolObj", "diskObj", "vmObj"}
         /\ Written(c) \subseteq {"nicXml", "devXml"}
  BY DEF Posted, Written

\* A thread at work meets nobody: only a command that is posted, and a stop of
\* the pool, do.
LEMMA WorkMeets ==
  ASSUME NEW t \in Threads, Work(t)
  PROVE  crossed' = crossed /\ origin' = origin
  BY DEF Work, Prepare, Do, Err, Finish

LEMMA PostMeets ==
  ASSUME NEW t \in Threads, NEW c \in mix, Post(t, c)
  PROVE  /\ origin' = origin
         /\ \A u \in Threads \ {t} :
               u \notin crossed' => u \notin crossed /\ u \notin Rivals(t, c)
         /\ t \notin crossed' => Rivals(t, c) = {}
<1>1. origin' = origin /\ Meet(t, c)
  BY DEF Post
<1>2. CASE Rivals(t, c) = {}
  BY <1>1, <1>2 DEF Meet
<1>3. CASE Rivals(t, c) # {}
  BY <1>1, <1>3 DEF Meet
<1> QED BY <1>2, <1>3, <1>1

\* A command that is alone after a step was alone before it.
LEMMA AloneBefore ==
  ASSUME Shape, [Next]_vars, NEW t \in Alone', Running(t)
  PROVE  t \in Alone /\ t \in Threads
<1>1. t \in Threads /\ t \notin crossed'
  BY DEF Alone
<1>2. CASE UNCHANGED vars
  BY <1>1, <1>2 DEF vars, Alone
<1>3. CASE Others
  BY <1>1, <1>3, OthersEffect DEF Alone
<1>4. CASE \E u \in Threads : Work(u)
  BY <1>1, <1>4, WorkMeets DEF Alone
<1>5. ASSUME NEW u \in Threads, NEW c \in mix, Post(u, c)
      PROVE  t \in Alone
  <2>1. u # t
    BY <1>5, PostEffect
  <2> QED BY <1>1, <1>5, <2>1, PostMeets DEF Alone
<1> QED BY <1>1, <1>2, <1>3, <1>4, <1>5 DEF Next, Work

LEMMA ExclusionKept ==
  ASSUME Shape, Exclusion, [Next]_vars
  PROVE  Exclusion'
<1> SUFFICES ASSUME NEW t \in Threads, NEW u \in Threads, t # u, Running(t)', Running(u)',
                    t \in Alone'
             PROVE  ~ Conflict(Resource(proc'[t].cmd), Resource(proc'[u].cmd))
  BY DEF Exclusion
<1>0. t \notin crossed'
  BY DEF Alone
<1>1. ASSUME Running(t), Running(u), proc'[t].cmd = proc[t].cmd, proc'[u].cmd = proc[u].cmd
      PROVE  ~ Conflict(Resource(proc'[t].cmd), Resource(proc'[u].cmd))
  BY <1>1, AloneBefore DEF Exclusion
<1>2. CASE UNCHANGED vars
  BY <1>1, <1>2 DEF vars, Running
<1>3. CASE Others
  BY <1>1, <1>3, OthersEffect DEF Running
<1>4. ASSUME NEW v \in Threads, Work(v)
      PROVE  ~ Conflict(Resource(proc'[t].cmd), Resource(proc'[u].cmd))
  <2>1. OnlyThread(v) /\ Running(v) /\ proc'[v].cmd = proc[v].cmd
    BY <1>4, PrepareEffect, DoEffect, ErrEffect, FinishEffect, AdvanceShape, UndoShape,
       RetryShape DEF Work
  <2>2. \A w \in Threads : proc'[w].cmd = proc[w].cmd /\ (Running(w)' => Running(w))
    BY <2>1 DEF OnlyThread, Running
  <2> QED BY <1>1, <2>2
<1>5. ASSUME NEW v \in Threads, NEW c \in mix, Post(v, c)
      PROVE  ~ Conflict(Resource(proc'[t].cmd), Resource(proc'[u].cmd))
  <2>1. OnlyThread(v) /\ proc'[v].cmd = c
    BY <1>5, PostEffect
  <2>2. \A w \in Threads \ {v} : proc'[w].cmd = proc[w].cmd /\ (Running(w)' <=> Running(w))
    BY <2>1 DEF OnlyThread, Running
  <2>3. \A r, s : Conflict(r, s) <=> Conflict(s, r)
    BY DEF Conflict
  <2>4. CASE v = t
    <3>1. Rivals(t, c) = {}
      BY <1>0, <1>5, <2>4, PostMeets
    <3>2. Running(u) => ~ Conflict(Resource(c), Resource(proc[u].cmd))
      BY <3>1 DEF Rivals, Running
    <3> QED BY <2>1, <2>2, <2>4, <3>2
  <2>5. CASE v = u
    <3>1. t \notin Rivals(u, c)
      BY <1>0, <1>5, <2>5, PostMeets
    <3>2. Running(t) => ~ Conflict(Resource(c), Resource(proc[t].cmd))
      BY <3>1 DEF Rivals, Running
    <3> QED BY <2>1, <2>2, <2>3, <2>5, <3>2
  <2>6. CASE v # t /\ v # u
    BY <1>1, <2>2, <2>6
  <2> QED BY <2>4, <2>5, <2>6
<1> QED BY <1>2, <1>3, <1>4, <1>5 DEF Next, Work

LEMMA OtherThread ==
  ASSUME Shape, Exclusion, NEW t \in Alone, t \in Threads, NEW u \in Threads \ {t}, Running(t),
         Work(u) \/ \E c \in mix : Post(u, c),
         NEW f \in Owned(Resource(proc[t].cmd))
  PROVE  f \in facts' <=> f \in facts
<1>0. f \in Tracked /\ f \notin {"poolObj", "diskObj", "vmObj", "nicXml", "devXml"}
  BY OwnedTracked DEF Tracked
<1>1. CASE \E c \in mix : Post(u, c)
  BY <1>0, <1>1, PostedWritten DEF Post
<1>2. CASE Prepare(u)
  BY <1>0, <1>2, PrepareEffect, PostedWritten
<1>3. CASE Finish(u)
  BY <1>3, FinishEffect
<1> DEFINE o == Head(proc[u].todo)
<1>4. ASSUME Perform(o), proc[u].todo # <<>>
      PROVE  f \in facts' <=> f \in facts
  <2>1. /\ o \in OpNames /\ o \in Kit(u) /\ Running(u) /\ proc[u].cmd \in Commands
    BY <1>4, HeadInKit, ShapeParts DEF Place, PlaceOf
  <2>2. o \in RunKit(proc[u].cmd) \cup UndoKit(proc[u].cmd)
    BY <2>1 DEF Kit
  <2>3. ~ Conflict(Resource(proc[t].cmd), Resource(proc[u].cmd))
    BY <2>1 DEF Exclusion
  <2>4. o \notin AddedBy(f) \cup DroppedBy(f)
    BY <2>1, <2>2, <2>3, OwnedOps
  <2> QED BY <1>0, <1>4, <2>1, <2>4, PerformFrame, ShapeParts
<1>5. CASE Do(u)
  BY <1>4, <1>5, DoEffect
<1>6. CASE Err(u)
  BY <1>4, <1>6, ErrEffect DEF ErrCost
<1> QED BY <1>1, <1>2, <1>3, <1>5, <1>6 DEF Work

\* What happens to a thread that takes no step itself.
Bystands(t) ==
    /\ proc'[t] = proc[t] /\ Rest(t)' = Rest(t) /\ Past(t)' = Past(t)
    /\ t \in Alone' =>
          \A f \in Owned(Resource(proc[t].cmd)) :
             (f \in facts' <=> f \in facts) \/ (f = "vmActive" /\ Spent("moves")' > 0)
    /\ Spent("faults")' >= Spent("faults") /\ Slips' >= Slips
    /\ Spent("moves")' >= Spent("moves")
    /\ Spent("faults")' \in Nat /\ Spent("moves")' \in Nat /\ Slips' \in Nat

LEMMA SpentGrows ==
  ASSUME Shape, NEW t \in Threads, Work(t) \/ \E c \in mix : Post(t, c)
  PROVE  /\ Spent("faults")' >= Spent("faults") /\ Slips' >= Slips
         /\ Spent("moves")' = Spent("moves")
         /\ Spent("faults")' \in Nat /\ Spent("moves")' \in Nat /\ Slips' \in Nat
<1>0. Spent("faults") \in Nat /\ Spent("grumbles") \in Nat /\ Spent("moves") \in Nat
  BY SpentNat DEF Budgets
<1>1. CASE \E c \in mix : Post(t, c)
  BY <1>0, <1>1, PostEffect DEF Slips
<1>2. CASE Prepare(t)
  BY <1>0, <1>2, PrepareEffect DEF Slips, Steady, Budgets
<1>3. CASE Do(t)
  BY <1>0, <1>3, DoEffect DEF Slips, Steady, Budgets
<1>4. CASE Err(t)
  BY <1>0, <1>4, ErrEffect DEF Slips, Steady, Budgets, ErrCost
<1>5. CASE Finish(t)
  BY <1>0, <1>5, FinishEffect DEF Slips, Steady, Budgets
<1> QED BY <1>1, <1>2, <1>3, <1>4, <1>5 DEF Work

LEMMA ThreadCases ==
  ASSUME Shape, Exclusion, [Next]_vars, NEW t \in Threads
  PROVE  \/ Running(t) /\ Work(t)
         \/ Running(t) /\ Bystands(t)
         \/ ~ Running(t) /\ \E c \in mix : Post(t, c)
         \/ ~ Running(t) /\ proc'[t] = proc[t]
<1>0. Spent("faults") \in Nat /\ Spent("grumbles") \in Nat /\ Spent("moves") \in Nat
  BY SpentNat DEF Budgets
<1>1. CASE UNCHANGED vars
  BY <1>0, <1>1 DEF vars, Bystands, Rest, Past, Spent, Slips
<1>2. CASE Work(t)
  BY <1>2, PrepareEffect, DoEffect, ErrEffect, FinishEffect DEF Work
<1>3. CASE \E c \in mix : Post(t, c)
  BY <1>3, PostEffect
<1>4. ASSUME NEW u \in Threads \ {t}, Work(u) \/ \E c \in mix : Post(u, c)
      PROVE  (Running(t) => Bystands(t)) /\ proc'[t] = proc[t]
  <2>1. OnlyThread(u)
    BY <1>4, PrepareEffect, DoEffect, ErrEffect, FinishEffect, PostEffect DEF Work
  <2>2. proc'[t] = proc[t]
    BY <2>1 DEF OnlyThread
  <2>3. Rest(t)' = Rest(t) /\ Past(t)' = Past(t)
    BY <2>2 DEF Rest, Past
  <2>4. /\ Spent("faults")' >= Spent("faults") /\ Slips' >= Slips
        /\ Spent("moves")' = Spent("moves")
        /\ Spent("faults")' \in Nat /\ Spent("moves")' \in Nat /\ Slips' \in Nat
    BY <1>4, SpentGrows
  <2>5. Running(t) /\ t \in Alone' =>
           \A f \in Owned(Resource(proc[t].cmd)) : (f \in facts' <=> f \in facts)
    BY <1>4, OtherThread, AloneBefore
  <2> QED BY <1>0, <2>2, <2>3, <2>4, <2>5 DEF Bystands
<1>5. CASE Others
  <2>1. /\ proc' = proc /\ Spent("moves")' = Spent("moves") + 1
        /\ Spent("faults")' = Spent("faults") /\ Spent("grumbles")' = Spent("grumbles")
        /\ \A f \in Tracked \ {"vmActive"} :
              \/ f \in facts' <=> f \in facts
              \/ f = "poolActive" /\ AtPool \subseteq crossed'
    BY <1>5, OthersEffect
  <2>2. Rest(t)' = Rest(t) /\ Past(t)' = Past(t)
    BY <2>1 DEF Rest, Past
  <2>3. ASSUME Running(t), t \in Alone', NEW f \in Owned(Resource(proc[t].cmd)), f # "vmActive"
        PROVE  f \in facts' <=> f \in facts
    <3>1. f \in Tracked /\ (f = "poolActive" => Resource(proc[t].cmd) = "pool")
      BY OwnedTracked
    <3>2. f = "poolActive" => ~ (AtPool \subseteq crossed')
      BY <2>3, <3>1 DEF AtPool, Alone, Running
    <3> QED BY <2>1, <2>3, <3>1, <3>2
  <2> QED BY <1>0, <2>1, <2>2, <2>3 DEF Bystands, Slips
<1> QED BY <1>1, <1>2, <1>3, <1>4, <1>5 DEF Next, Work
-----------------------------------------------------------------------------
(* Progress.                                                                 *)

\* A performed operation of a queue keeps what the queue has achieved.
LEMMA ProgressDo ==
  ASSUME Shape, NEW t \in Threads, ProgressOf(t), Do(t), proc[t].pc = "run"
  PROVE  ProgressOf(t)'
<1> DEFINE o == Head(proc[t].todo)
           c == proc[t].cmd
<1>1. /\ proc[t].todo # <<>> /\ (Skipped(o) \/ Allowed(o)) /\ Perform(o) /\ Advance(t)
  BY DoEffect
<1>2. /\ proc'[t].cmd = c /\ proc'[t].pc = "run" /\ Rest(t) \subseteq {o} \cup Rest(t)'
  BY <1>1, AdvanceShape
<1>3. o \in OpNames /\ o \in RunKit(c) /\ c \in Commands
  BY <1>1, HeadInKit, ShapeParts DEF Kit, Place, PlaceOf
<1>4. \A f \in Tracked : /\ f \notin facts /\ f \in facts' => o \in AddedBy(f)
                         /\ f \in facts /\ f \notin facts' => o \in DroppedBy(f)
  BY <1>1, <1>3, PerformFrame, ShapeParts
<1> HIDE DEF o, c
<1>5. CASE c \in Creates
  <2>1. o \in DOMAIN PoolOp \ {"poolDestroy", "poolUndefine"} \/ o = "updatePool"
    BY <1>3, <1>5 DEF RunKit, Creates, Unplugs, Misparsed, Malformed
  <2>2. \A f \in {"poolDir", "poolDefined", "poolActive", "poolContent"} :
           f \in facts => f \in facts'
    <3>1. \A f \in {"poolDir", "poolDefined", "poolActive", "poolContent"} :
             f \in Tracked /\ o \notin DroppedBy(f)
      BY <2>1 DEF Tracked, DroppedBy, PoolOp
    <3> QED BY <1>4, <3>1
  <2>3. /\ o = "mkdirPool" => "poolDir" \in facts'
        /\ o = "defineAs" => "poolDefined" \in facts'
        /\ o = "poolStart" => "poolActive" \in facts'
        /\ o = "writeContent" => "poolContent" \in facts'
    BY <1>1, <2>1, PoolOpDoes DEF o
  <2>4. /\ Achieved(t, "mkdirPool", {"poolDir"}, {})'
        /\ Achieved(t, "defineAs", {"poolDefined"}, {})'
        /\ Achieved(t, "poolStart", {"poolActive"}, {})'
        /\ Achieved(t, "writeContent", {"poolContent"}, {})'
    BY <1>2, <1>5, <2>2, <2>3 DEF ProgressOf, Achieved, c
  <2> QED BY <1>2, <1>5, <2>4 DEF ProgressOf, Creates, c
<1>6. CASE c = "create_disk"
  <2>1. o \in {"mkdirDisk", "qemuCreate", "writeConfig", "updateDisk"}
    BY <1>3, <1>6 DEF RunKit, Creates, Unplugs, Misparsed, Malformed
  <2>2. \A f \in {"diskDir", "diskImage", "diskConfig"} : f \in facts => f \in facts'
    <3>1. \A f \in {"diskDir", "diskImage", "diskConfig"} :
             f \in Tracked /\ o \notin DroppedBy(f)
      BY <2>1 DEF Tracked, DroppedBy
    <3> QED BY <1>4, <3>1
  <2>3. /\ o = "mkdirDisk" => "diskDir" \in facts'
        /\ o = "qemuCreate" => "diskImage" \in facts'
        /\ o = "writeConfig" => "diskConfig" \in facts'
    BY <1>1, <2>1, DiskOpDoes DEF o, DiskOp
  <2>4. /\ Achieved(t, "mkdirDisk", {"diskDir"}, {})'
        /\ Achieved(t, "qemuCreate", {"diskImage"}, {})'
        /\ Achieved(t, "writeConfig", {"diskConfig"}, {})'
    BY <1>2, <1>6, <2>2, <2>3 DEF ProgressOf, Achieved, c
  <2> QED BY <1>2, <1>6, <2>4 DEF ProgressOf, Creates, c
<1>7. CASE c = "delete_pool"
  <2>1. o \in {"poolDestroy", "poolUndefine", "deletePool"}
    BY <1>3, <1>7 DEF RunKit, Creates, Unplugs, Misparsed, Malformed
  <2>2. \A f \in {"poolDefined", "poolActive"} : f \notin facts => f \notin facts'
    <3>1. \A f \in {"poolDefined", "poolActive"} : f \in Tracked /\ o \notin AddedBy(f)
      BY <2>1 DEF Tracked, AddedBy
    <3> QED BY <1>4, <3>1
  <2>3. o = "poolUndefine" => "poolDefined" \notin facts' /\ "poolActive" \notin facts'
    BY <1>1, <2>1, PoolOpDoes DEF o, PoolOp
  <2>4. Achieved(t, "poolUndefine", {}, {"poolDefined", "poolActive"})'
    BY <1>2, <1>7, <2>2, <2>3 DEF ProgressOf, Achieved, c
  <2> QED BY <1>2, <1>7, <2>4 DEF ProgressOf, Creates, c
<1>8. CASE c = "delete_disk"
  <2>1. o \in {"rmDiskDir", "deleteDisk"}
    BY <1>3, <1>8 DEF RunKit, Creates, Unplugs, Misparsed, Malformed
  <2>2. \A f \in {"diskDir", "diskImage", "diskConfig"} : f \notin facts => f \notin facts'
    <3>1. \A f \in {"diskDir", "diskImage", "diskConfig"} :
             f \in Tracked /\ o \notin AddedBy(f)
      BY <2>1 DEF Tracked, AddedBy
    <3> QED BY <1>4, <3>1
  <2>3. o = "rmDiskDir" => {"diskDir", "diskImage", "diskConfig"} \cap facts' = {}
    BY <1>1, <2>1, DiskOpDoes DEF o, DiskOp
  <2>4. Achieved(t, "rmDiskDir", {}, {"diskDir", "diskImage", "diskConfig"})'
    BY <1>2, <1>8, <2>2, <2>3 DEF ProgressOf, Achieved, c
  <2> QED BY <1>2, <1>8, <2>4 DEF ProgressOf, Creates, c
<1>9. CASE c = "delete_vmdi"
  <2>1. o \in {"rmVmdiDir", "deleteVmdi"}
    BY <1>3, <1>9 DEF RunKit, Creates, Unplugs, Misparsed, Malformed
  <2>2. "vmdiDir" \notin facts => "vmdiDir" \notin facts'
    BY <1>4, <2>1 DEF Tracked, AddedBy
  <2>3. o = "rmVmdiDir" => "vmdiDir" \notin facts'
    BY <1>1, <2>1, DiskOpDoes DEF o, DiskOp
  <2>4. Achieved(t, "rmVmdiDir", {}, {"vmdiDir"})'
    BY <1>2, <1>9, <2>2, <2>3 DEF ProgressOf, Achieved, c
  <2> QED BY <1>2, <1>9, <2>4 DEF ProgressOf, Creates, c
<1>10. CASE c = "delete_vm"
  <2>1. o \in {"destroyIfActive", "undefineVm", "deleteVm"}
    BY <1>3, <1>10 DEF RunKit, Creates, Unplugs, Misparsed, Malformed
  <2>2. "vmDefined" \notin facts => "vmDefined" \notin facts'
    BY <1>4, <2>1 DEF Tracked, AddedBy
  <2>3. o = "undefineVm" => "vmDefined" \notin facts'
    BY <1>1, <2>1, VmOpDoes DEF o, VmOp
  <2>4. Achieved(t, "undefineVm", {}, {"vmDefined"})'
    BY <1>2, <1>10, <2>2, <2>3 DEF ProgressOf, Achieved, c
  <2> QED BY <1>2, <1>10, <2>4 DEF ProgressOf, Creates, c
<1> QED BY <1>2, <1>5, <1>6, <1>7, <1>8, <1>9, <1>10 DEF ProgressOf, c

\* Only delete_vm goes on after a failure, and only without a domain.
LEMMA ProgressTolerated ==
  ASSUME Shape, NEW t \in Threads, ProgressOf(t), Err(t), proc[t].pc = "run", Advance(t),
         Tolerates(proc[t].cmd, Head(proc[t].todo), facts')
  PROVE  ProgressOf(t)'
<1> DEFINE o == Head(proc[t].todo)
           c == proc[t].cmd
<1>1. proc[t].todo # <<>> /\ (facts' = facts \/ Perform(o))
  BY ErrEffect DEF ErrCost
<1>2. /\ proc'[t].cmd = c /\ proc'[t].pc = "run" /\ Rest(t) \subseteq {o} \cup Rest(t)'
  BY <1>1, AdvanceShape
<1>3. o \in RunKit(c) /\ o \in OpNames
  BY <1>1, HeadInKit DEF Kit
<1> HIDE DEF o, c
<1>4. CASE c = "delete_vm" /\ o = "undefineVm" /\ {"vmDefined", "vmActive"} \cap facts' = {}
  BY <1>2, <1>4 DEF ProgressOf, Achieved, Creates, c
<1>5. CASE o = "unbindPort"
  <2>1. c \in {"create_vm", "plug_bridge", "plug_l3", "plug_l3_config"} \cup Unplugs
    BY <1>3, <1>5 DEF RunKit, Creates, Unplugs, Misparsed, Malformed, PoolOp
  <2> QED BY <1>2, <2>1 DEF ProgressOf, Creates, Unplugs, c
<1> QED BY <1>4, <1>5 DEF Tolerates, o, c

LEMMA ProgressKept ==
  ASSUME Shape, Exclusion, Progress, [Next]_vars
  PROVE  Progress'
<1> SUFFICES ASSUME NEW t \in Alone', t \in Threads, proc'[t].pc = "run" PROVE ProgressOf(t)'
  BY DEF Progress, ProgressOf, Alone
<1>0. Running(t) => ProgressOf(t)
  BY AloneBefore DEF Progress
<1>1. CASE Running(t) /\ Bystands(t)
  <2>1. proc'[t] = proc[t] /\ Rest(t)' = Rest(t)
    BY <1>1 DEF Bystands
  <2>2. ASSUME NEW f \in Owned(Resource(proc[t].cmd)), f # "vmActive"
        PROVE  f \in facts' <=> f \in facts
    BY <1>1, <2>2 DEF Bystands
  <2> USE <1>1
  <2>3. CASE proc[t].cmd \in Creates
    <3>1. Owned(Resource(proc[t].cmd)) = {"poolDir", "poolDefined", "poolActive", "poolContent"}
      BY <2>3 DEF Resource, Owned, Creates
    <3> QED BY <1>0, <2>1, <2>2, <2>3, <3>1 DEF ProgressOf, Achieved, Creates
  <2>4. CASE proc[t].cmd = "delete_pool"
    <3>1. Owned(Resource(proc[t].cmd)) = {"poolDir", "poolDefined", "poolActive", "poolContent"}
      BY <2>4 DEF Resource, Owned
    <3> QED BY <1>0, <2>1, <2>2, <2>4, <3>1 DEF ProgressOf, Achieved, Creates
  <2>5. CASE proc[t].cmd \in {"create_disk", "delete_disk"}
    <3>1. Owned(Resource(proc[t].cmd)) = {"diskDir", "diskImage", "diskConfig"}
      BY <2>5 DEF Resource, Owned
    <3> QED BY <1>0, <2>1, <2>2, <2>5, <3>1 DEF ProgressOf, Achieved, Creates
  <2>6. CASE proc[t].cmd = "delete_vmdi"
    <3>1. Owned(Resource(proc[t].cmd)) = {"vmdiDir"}
      BY <2>6 DEF Resource, Owned
    <3> QED BY <1>0, <2>1, <2>2, <2>6, <3>1 DEF ProgressOf, Achieved, Creates
  <2>7. CASE proc[t].cmd = "delete_vm"
    <3>1. Owned(Resource(proc[t].cmd)) = {"vmDefined", "vmActive", "port"}
      BY <2>7 DEF Resource, Owned
    <3> QED BY <1>0, <2>1, <2>2, <2>7, <3>1 DEF ProgressOf, Achieved, Creates
  <2> QED BY <2>1, <2>3, <2>4, <2>5, <2>6, <2>7 DEF ProgressOf
<1>2. CASE Prepare(t)
  <2>1. /\ proc'[t].cmd = proc[t].cmd /\ proc[t].cmd \in Commands
        /\ MayRun(proc[t].cmd) /\ Rest(t)' = OpsIn(Queue(proc[t].cmd))
    BY <1>2, PrepareEffect, UndoShape, RetryShape
  <2> QED BY <2>1, QueueFacts DEF ProgressOf, Achieved
<1>3. CASE Do(t)
  <2>1. proc[t].pc = "run" /\ Running(t)
    BY <1>3, DoEffect, AdvanceShape
  <2> QED BY <1>0, <1>3, <2>1, ProgressDo
<1>4. CASE Err(t)
  <2>1. /\ proc[t].pc = "run" /\ Advance(t) /\ Running(t)
        /\ Tolerates(proc[t].cmd, Head(proc[t].todo), facts')
    BY <1>4, ErrEffect, UndoShape, RetryShape
  <2> QED BY <1>0, <1>4, <2>1, ProgressTolerated
<1>5. CASE Finish(t)
  BY <1>5, FinishEffect, RetryShape
<1>6. CASE \E c \in mix : Post(t, c)
  BY <1>6, PostEffect
<1>7. CASE ~ Running(t) /\ proc'[t] = proc[t]
  BY <1>7 DEF Running
<1> QED BY <1>1, <1>2, <1>3, <1>4, <1>5, <1>6, <1>7, ThreadCases DEF Work
-----------------------------------------------------------------------------
(* Why three tries are enough for delete_pool.                               *)

\* The first operations are at the head of a queue, the last ones at its end.
LEMMA HeadOrder ==
  ASSUME Shape, NEW t \in Threads, proc[t].todo # <<>>
  PROVE  /\ \A f \in FirstOps : Head(proc[t].todo) # f => f \notin Rest(t)
         /\ Head(proc[t].todo) \in LastOps => Rest(t) = {Head(proc[t].todo)}
<1>1. proc[t].todo \in Seq(OpNames) /\ Ordered(proc[t].todo)
  BY HeadInKit, ShapeParts DEF Place, PlaceOf
<1>2. /\ Head(proc[t].todo) \in Rest(t)
      /\ Rest(t) \subseteq {Head(proc[t].todo)} \cup OpsIn(Tail(proc[t].todo))
  BY <1>1, TailOps DEF Rest
<1>3. /\ OpsIn(Tail(proc[t].todo)) \cap FirstOps = {}
      /\ Head(proc[t].todo) \in LastOps => OpsIn(Tail(proc[t].todo)) = {}
  BY <1>1, TailOrdered
<1> QED BY <1>2, <1>3

LEMMA PastNat ==
  ASSUME Shape, NEW t \in Threads, Running(t)
  PROVE  Past(t) \in 0 .. Tries - 1 /\ proc[t].cmd \in Commands
<1>1. proc[t].tries \in 1 .. Tries /\ proc[t].cmd \in Commands
  BY ShapeParts DEF Place, PlaceOf
<1> QED BY <1>1 DEF Past, Tries

LEMMA SlipsNat ==
  ASSUME Shape
  PROVE  /\ Spent("faults") \in Nat /\ Spent("grumbles") \in Nat
         /\ Spent("moves") \in Nat /\ Slips \in Nat
  BY SpentNat DEF Budgets, Slips

\* A thread that starts a reverse queue keeps its tries.
LEMMA UndoPast ==
  ASSUME Shape, NEW t \in Threads, Running(t), NEW o, Undo(t, o),
         Rollback(proc[t].cmd, o) # <<>>
  PROVE  /\ proc'[t].cmd = proc[t].cmd /\ proc'[t].pc = "undo" /\ Past(t)' = Past(t)
         /\ Rest(t)' = OpsIn(Rollback(proc[t].cmd, o))
  BY UndoShape DEF Past

LEMMA AdvancePast ==
  ASSUME Shape, NEW t \in Threads, proc[t].todo # <<>>, Advance(t)
  PROVE  Past(t)' = Past(t)
  BY AdvanceShape DEF Past

\* Nothing a delete_pool does defines the pool or makes its directory.
LEMMA PoolStays ==
  ASSUME Shape, NEW t \in Threads, Work(t), Running(t), proc[t].cmd = "delete_pool",
         {"poolDefined", "poolDir"} \subseteq facts'
  PROVE  {"poolDefined", "poolDir"} \subseteq facts
<1> DEFINE o == Head(proc[t].todo)
<1>1. CASE Prepare(t)
  <2>1. facts' = facts \/ facts' = facts \cup Written("delete_pool")
    BY <1>1, PrepareEffect
  <2>2. Written("delete_pool") = {}
    BY DEF Written
  <2> QED BY <2>1, <2>2
<1>2. CASE Finish(t)
  BY <1>2, FinishEffect
<1>3. ASSUME proc[t].todo # <<>>, Perform(o)
      PROVE  {"poolDefined", "poolDir"} \subseteq facts
  <2>1. o \in OpNames /\ o \in Kit(t)
    BY <1>3, HeadInKit
  <2>2. o \in {"poolDestroy", "poolUndefine", "deletePool", "poolStart"}
    BY <2>1 DEF Kit, RunKit, UndoKit, Creates, Unplugs, Installs, Misparsed, Malformed
  <2>3. o \notin AddedBy("poolDefined") /\ o \notin AddedBy("poolDir")
    BY <2>2 DEF AddedBy
  <2>4. "poolDefined" \in Tracked /\ "poolDir" \in Tracked
    BY DEF Tracked
  <2> QED BY <1>3, <2>1, <2>3, <2>4, PerformFrame, ShapeParts
<1>4. CASE Do(t)
  BY <1>3, <1>4, DoEffect
<1>5. CASE Err(t)
  BY <1>3, <1>5, ErrEffect DEF ErrCost
<1> QED BY <1>1, <1>2, <1>4, <1>5 DEF Work

LEMMA PoolTryDo ==
  ASSUME Shape, NEW t \in Threads, ProgressOf(t), PoolTryOf(t), Do(t), Running(t),
         proc[t].cmd = "delete_pool", {"poolDefined", "poolDir"} \subseteq facts,
         {"poolDefined", "poolDir"} \subseteq facts'
  PROVE  PoolTryOf(t)'
<1> DEFINE o == Head(proc[t].todo)
<1>1. /\ proc[t].todo # <<>> /\ Perform(o) /\ (Skipped(o) \/ Allowed(o))
      /\ Advance(t) /\ Steady
  BY DoEffect
<1>2. Slips' = Slips
  BY <1>1 DEF Steady, Slips, Budgets
<1>3. o \in OpNames /\ o \in Kit(t) /\ proc[t].pc \in {"run", "undo"} /\ o \in Rest(t)
  BY <1>1, HeadInKit
<1>4. /\ proc'[t].cmd = "delete_pool" /\ proc'[t].pc = proc[t].pc /\ Past(t)' = Past(t)
      /\ Rest(t)' \cap FirstOps = {} /\ Rest(t) \subseteq {o} \cup Rest(t)'
      /\ Rest(t)' \subseteq Rest(t)
  BY <1>1, AdvanceShape, AdvancePast
<1>5. "poolDestroy" \notin Rest(t)'
  BY <1>4 DEF FirstOps
<1>6. CASE proc[t].pc = "run"
  <2>1. o \in {"poolDestroy", "poolUndefine", "deletePool"}
    BY <1>3, <1>6 DEF Kit, RunKit, Creates, Unplugs, Misparsed, Malformed
  <2>2. CASE o = "poolDestroy"
    <3>1. "poolActive" \notin facts' /\ "poolActive" \in facts
      BY <1>1, <2>2, PoolOpDoes DEF PoolOp
    <3>2. Past(t) <= Slips + 1
      BY <1>3, <1>6, <2>2, <3>1 DEF PoolTryOf
    <3> QED BY <1>2, <1>4, <1>5, <1>6, <3>1, <3>2 DEF PoolTryOf
  <2>3. CASE o = "poolUndefine"
    BY <1>1, <2>3, PoolOpDoes DEF PoolOp
  <2>4. CASE o = "deletePool"
    <3>1. Rest(t) = {"deletePool"}
      BY <1>1, <2>4, HeadOrder DEF LastOps
    <3> QED BY <1>6, <3>1 DEF ProgressOf, Achieved
  <2> QED BY <2>1, <2>2, <2>3, <2>4
<1>7. CASE proc[t].pc = "undo"
  <2>1. o = "poolStart"
    BY <1>3, <1>7 DEF Kit, UndoKit, Creates, Installs
  <2>2. "poolActive" \in facts'
    BY <1>1, <2>1, PoolOpDoes DEF PoolOp
  <2>3. Past(t) <= Slips
    BY <1>7 DEF PoolTryOf
  <2> QED BY <1>2, <1>4, <1>5, <1>7, <2>2, <2>3 DEF PoolTryOf
<1> QED BY <1>3, <1>6, <1>7

LEMMA PoolTryErr ==
  ASSUME Shape, NEW t \in Threads, ProgressOf(t), PoolTryOf(t), Err(t), Running(t),
         proc[t].cmd = "delete_pool", {"poolDefined", "poolDir"} \subseteq facts,
         {"poolDefined", "poolDir"} \subseteq facts'
  PROVE  PoolTryOf(t)'
<1> DEFINE o == Head(proc[t].todo)
<1>1. /\ proc[t].todo # <<>> /\ ~ Skipped(o) /\ ErrCost(o)
      /\ \/ proc[t].pc = "run" /\ Tolerates(proc[t].cmd, o, facts') /\ Advance(t)
         \/ proc[t].pc = "run" /\ ~ Tolerates(proc[t].cmd, o, facts') /\ Undo(t, o)
         \/ proc[t].pc = "undo" /\ Retry(t)
  BY ErrEffect
<1>2. o \in OpNames /\ o \in Kit(t) /\ proc[t].pc \in {"run", "undo"} /\ o \in Rest(t)
  BY <1>1, HeadInKit
<1>3. Past(t) \in 0 .. Tries - 1 /\ Slips \in Nat
  BY PastNat, SlipsNat
<1>4. o \notin DOMAIN ApiOp =>
         \/ Refused(o) /\ facts' = facts /\ Slips' = Slips
         \/ facts' = facts /\ Slips' = Slips + 1
         \/ Allowed(o) /\ Perform(o) /\ Slips' = Slips + 1
  BY <1>1, SlipsNat DEF ErrCost, Steady, Slips, Budgets
<1>5. CASE proc[t].pc = "run"
  <2>1. o \in {"poolDestroy", "poolUndefine", "deletePool"}
    BY <1>2, <1>5 DEF Kit, RunKit, Creates, Unplugs, Misparsed, Malformed
  <2>2. ~ Tolerates(proc[t].cmd, o, facts') /\ Undo(t, o)
    BY <1>1, <1>5, <2>1 DEF Tolerates
  <2>3. CASE o = "deletePool"
    <3>1. Rest(t) = {"deletePool"}
      BY <1>1, <2>3, HeadOrder DEF LastOps
    <3> QED BY <1>5, <3>1 DEF ProgressOf, Achieved
  <2>4. CASE o \in {"poolDestroy", "poolUndefine"}
    <3>1. OpsIn(Rollback(proc[t].cmd, o)) = {"poolStart"}
      BY <2>4, RollbackFacts
    <3>2. Rollback(proc[t].cmd, o) # <<>>
      BY <3>1, EmptyOps
    <3>3. /\ proc'[t].cmd = proc[t].cmd /\ proc'[t].pc = "undo" /\ Past(t)' = Past(t)
          /\ Rest(t)' = {"poolStart"}
      BY <2>2, <3>1, <3>2, UndoPast
    <3>4. o \notin DOMAIN ApiOp
      BY <2>4 DEF ApiOp
    <3>5. Past(t) <= Slips'
      <4>1. CASE o = "poolDestroy"
        <5>1. Past(t) <= Slips + (IF "poolActive" \in facts THEN 1 ELSE 0)
          BY <1>2, <1>5, <4>1 DEF PoolTryOf
        <5>2. Refused(o) => "poolActive" \notin facts
          BY <1>2, <4>1, RefusedWhen
        <5> QED BY <1>3, <1>4, <3>4, <5>1, <5>2
      <4>2. CASE o = "poolUndefine"
        <5>1. "poolDestroy" \notin Rest(t)
          BY <1>1, <4>2, HeadOrder DEF FirstOps
        <5>2. Past(t) <= Slips + 1 /\ "poolActive" \notin facts
          BY <1>5, <5>1 DEF PoolTryOf
        <5>3. ~ Refused(o)
          BY <1>2, <4>2, <5>2, RefusedWhen
        <5> QED BY <1>3, <1>4, <3>4, <5>2, <5>3
      <4> QED BY <2>4, <4>1, <4>2
    <3> QED BY <3>3, <3>5 DEF PoolTryOf
  <2> QED BY <2>1, <2>3, <2>4
<1>6. CASE proc[t].pc = "undo"
  <2>1. o = "poolStart"
    BY <1>2, <1>6 DEF Kit, UndoKit, Creates, Installs
  <2>2. /\ Rest(t)' = {} /\ proc'[t].cmd = proc[t].cmd
        /\ ~ Running(t)' \/ (Past(t)' = Past(t) + 1 /\ proc'[t].pc = "start")
    BY <1>1, <1>6, RetryShape
  <2>3. o \notin DOMAIN ApiOp
    BY <2>1 DEF ApiOp
  <2>4. Refused(o) => "poolActive" \in facts
    BY <1>2, <2>1, RefusedWhen
  <2>5. Past(t) <= Slips
    BY <1>6 DEF PoolTryOf
  <2>6. Past(t) + 1 <= Slips' + (IF "poolActive" \in facts' THEN 1 ELSE 0)
    BY <1>3, <1>4, <2>3, <2>4, <2>5
  <2> QED BY <2>2, <2>6 DEF PoolTryOf
<1> QED BY <1>2, <1>5, <1>6

LEMMA PoolTryKept ==
  ASSUME Shape, Exclusion, Progress, PoolTry, [Next]_vars
  PROVE  PoolTry'
<1> SUFFICES ASSUME NEW t \in Alone', t \in Threads, proc'[t].cmd = "delete_pool", Running(t)',
                    {"poolDefined", "poolDir"} \subseteq facts'
             PROVE  PoolTryOf(t)'
  BY DEF PoolTry, PoolTryOf, Alone
<1>0. (Running(t) => ProgressOf(t) /\ PoolTryOf(t)) /\ Slips \in Nat
  BY AloneBefore, SlipsNat DEF Progress, PoolTry
<1>1. CASE Running(t) /\ Bystands(t)
  <2>1. /\ proc'[t] = proc[t] /\ Rest(t)' = Rest(t) /\ Past(t)' = Past(t) /\ Slips' >= Slips
        /\ \A f \in Owned(Resource(proc[t].cmd)) :
              (f \in facts' <=> f \in facts) \/ f = "vmActive"
    BY <1>1 DEF Bystands
  <2>2. Owned(Resource(proc[t].cmd)) = {"poolDir", "poolDefined", "poolActive", "poolContent"}
    BY <2>1 DEF Resource, Owned
  <2>3. \A f \in {"poolDir", "poolDefined", "poolActive"} : f \in facts' <=> f \in facts
    BY <2>1, <2>2
  <2>4. Past(t) \in 0 .. Tries - 1 /\ Slips' \in Nat
    BY <1>1, PastNat DEF Bystands
  <2> QED BY <1>0, <1>1, <2>1, <2>3, <2>4 DEF PoolTryOf
<1>2. CASE Running(t) /\ Work(t)
  <2>1. proc[t].cmd = "delete_pool"
    BY <1>2, PrepareEffect, DoEffect, ErrEffect, FinishEffect, AdvanceShape, UndoShape,
       RetryShape DEF Work
  <2>2. {"poolDefined", "poolDir"} \subseteq facts
    BY <1>2, <2>1, PoolStays
  <2>3. CASE Prepare(t)
    <3>1. MayRun(proc[t].cmd)
      BY <2>1 DEF MayRun, Misparsed, Malformed
    <3>2. /\ proc[t].pc = "start" /\ proc'[t].pc = "run" /\ Past(t)' = Past(t) /\ Steady
          /\ facts' = facts \cup Written(proc[t].cmd) /\ proc[t].cmd \in Commands
          /\ Rest(t)' = OpsIn(Queue(proc[t].cmd))
      BY <2>3, <3>1, PrepareEffect
    <3>3. facts' = facts /\ Slips' = Slips
      BY <2>1, <3>2 DEF Written, Steady, Slips, Budgets
    <3>4. "poolDestroy" \in Rest(t)'
      BY <2>1, <3>1, <3>2, QueueFacts
    <3> QED BY <1>0, <1>2, <2>1, <2>2, <3>2, <3>3, <3>4 DEF PoolTryOf
  <2>4. CASE Do(t)
    BY <1>0, <1>2, <2>1, <2>2, <2>4, PoolTryDo
  <2>5. CASE Err(t)
    BY <1>0, <1>2, <2>1, <2>2, <2>5, PoolTryErr
  <2>6. CASE Finish(t)
    <3>1. /\ Rest(t) = {} /\ facts' = facts /\ Steady /\ proc[t].pc = "undo" /\ Retry(t)
      BY <2>6, FinishEffect
    <3>2. Rest(t)' = {} /\ Past(t)' = Past(t) + 1 /\ proc'[t].pc = "start"
      BY <1>2, <3>1, RetryShape
    <3>3. Past(t) <= Slips /\ "poolActive" \in facts
      BY <1>0, <1>2, <2>1, <2>2, <3>1 DEF PoolTryOf
    <3>4. Slips' = Slips /\ Past(t) \in 0 .. Tries - 1
      BY <1>2, <3>1, PastNat DEF Steady, Slips, Budgets
    <3> QED BY <1>0, <3>1, <3>2, <3>3, <3>4 DEF PoolTryOf
  <2> QED BY <1>2, <2>3, <2>4, <2>5, <2>6 DEF Work
<1>3. CASE \E c \in mix : Post(t, c)
  <2>1. proc'[t].pc = "start" /\ Past(t)' = 0 /\ Rest(t)' = {} /\ Slips' = Slips
    BY <1>3, PostEffect DEF Slips
  <2> QED BY <1>0, <2>1 DEF PoolTryOf
<1>4. CASE ~ Running(t) /\ proc'[t] = proc[t]
  BY <1>4 DEF Running
<1> QED BY <1>1, <1>2, <1>3, <1>4, ThreadCases
-----------------------------------------------------------------------------
(* Why three tries are enough for create_and_start_vm_from_iso.              *)

\* What an installation does to the domain.
LEMMA InstallFrame ==
  ASSUME Shape, NEW t \in Threads, proc[t].cmd = "create_vm", proc[t].todo # <<>>,
         facts' = facts \/ Perform(Head(proc[t].todo))
  PROVE  /\ "vmDefined" \in facts => "vmDefined" \in facts'
         /\ proc[t].pc = "undo" => ("vmDefined" \in facts' <=> "vmDefined" \in facts)
<1> DEFINE o == Head(proc[t].todo)
<1>1. o \in OpNames /\ o \in Kit(t)
  BY HeadInKit
<1>2. o \in RunKit("create_vm") \cup UndoKit("create_vm")
  BY <1>1 DEF Kit
<1>3. o # "undefineVm" /\ (proc[t].pc = "undo" => o = "destroyIfActive")
  BY <1>1, <1>2 DEF Kit, RunKit, UndoKit, Creates, Unplugs, Installs, Misparsed, Malformed
<1>4. /\ o \notin DroppedBy("vmDefined")
      /\ proc[t].pc = "undo" => o \notin AddedBy("vmDefined")
  BY <1>3 DEF DroppedBy, AddedBy
<1>5. "vmDefined" \in Tracked
  BY DEF Tracked
<1> QED BY <1>1, <1>4, <1>5, PerformFrame, ShapeParts

\* What the failure of the reverse queue of an installation costs.
LEMMA DestroyFails ==
  ASSUME Shape, NEW t \in Threads, Err(t), proc[t].cmd \in Installs, proc[t].pc = "undo"
  PROVE  /\ facts' = facts /\ Spent("faults")' = Spent("faults") + 1
         /\ Spent("moves")' = Spent("moves") /\ Retry(t)
<1> DEFINE o == Head(proc[t].todo)
<1>1. proc[t].todo # <<>> /\ ErrCost(o) /\ Retry(t)
  BY ErrEffect
<1>2. o \in OpNames /\ o \in UndoKit(proc[t].cmd)
  BY <1>1, HeadInKit DEF Kit
<1>3. o = "destroyIfActive"
  BY <1>2 DEF UndoKit, Installs, Creates
<1>4. o \in Silent /\ o \notin DOMAIN ApiOp /\ ~ Refused(o)
  BY <1>2, <1>3, RefusedWhen DEF Silent, ApiOp
<1> QED BY <1>1, <1>4 DEF ErrCost

\* The reverse queue of an installation, once performed.
LEMMA DestroyDone ==
  ASSUME Shape, NEW t \in Threads, Do(t), proc[t].cmd \in Installs, proc[t].pc = "undo"
  PROVE  "vmActive" \notin facts'
<1> DEFINE o == Head(proc[t].todo)
<1>1. proc[t].todo # <<>> /\ Perform(o) /\ (Skipped(o) \/ Allowed(o))
  BY DoEffect
<1>2. o \in UndoKit(proc[t].cmd)
  BY <1>1, HeadInKit DEF Kit
<1>3. o = "destroyIfActive"
  BY <1>2 DEF UndoKit, Installs, Creates
<1> QED BY <1>1, <1>3, VmOpDoes DEF VmOp

LEMMA MalformedTryKept ==
  ASSUME Shape, NEW t \in Threads, MalformedTryOf(t), Running(t), Work(t),
         proc[t].cmd = "create_vm_malformed", Spent("moves") = 0
  PROVE  MalformedTryOf(t)'
<1>0. /\ Past(t) \in 0 .. Tries - 1 /\ Spent("faults") \in Nat
      /\ proc[t].cmd \in Installs /\ proc[t].cmd \in Malformed
  BY PastNat, SlipsNat DEF Installs, Malformed
<1>1. /\ "vmActive" \in facts => Past(t) <= Spent("faults")
      /\ Undone(t) => "vmActive" \notin facts
  BY DEF MalformedTryOf
<1>2. CASE Prepare(t)
  <2>1. ~ MayRun(proc[t].cmd)
    BY <1>0 DEF MayRun
  <2>2. Undo(t, "checks") /\ facts' = facts /\ Steady
    BY <1>2, <2>1, PrepareEffect
  <2>3. /\ Rollback(proc[t].cmd, "checks") # <<>>
        /\ OpsIn(Rollback(proc[t].cmd, "checks")) = {"destroyIfActive"}
    BY <1>0, RollbackFacts
  <2>4. Past(t)' = Past(t) /\ Rest(t)' = {"destroyIfActive"}
    BY <2>2, <2>3, UndoPast
  <2>5. Spent("faults")' = Spent("faults")
    BY <2>2 DEF Steady, Budgets
  <2> QED BY <1>1, <2>2, <2>4, <2>5 DEF MalformedTryOf, Undone
<1>3. CASE Do(t)
  <2>1. proc[t].pc = "undo"
    BY <1>0, <1>3, DoEffect, HeadInKit
  <2>2. "vmActive" \notin facts'
    BY <1>0, <1>3, <2>1, DestroyDone
  <2> QED BY <2>2 DEF MalformedTryOf
<1>4. CASE Err(t)
  <2>1. proc[t].pc = "undo"
    BY <1>0, <1>4, ErrEffect, HeadInKit
  <2>2. facts' = facts /\ Spent("faults")' = Spent("faults") + 1 /\ Retry(t)
    BY <1>0, <1>4, <2>1, DestroyFails
  <2>3. ~ Running(t)' \/ (Past(t)' = Past(t) + 1 /\ proc'[t].pc = "start")
    BY <2>2, RetryShape
  <2>4. "vmActive" \in facts' => Past(t) + 1 <= Spent("faults")'
    BY <1>0, <1>1, <2>2
  <2> QED BY <2>3, <2>4 DEF MalformedTryOf, Undone
<1>5. CASE Finish(t)
  <2>1. facts' = facts /\ Rest(t) = {} /\ (~ Running(t)' \/ (proc[t].pc = "undo" /\ Retry(t)))
    BY <1>5, FinishEffect
  <2>2. CASE ~ Running(t)'
    BY <2>2 DEF MalformedTryOf
  <2>3. CASE proc[t].pc = "undo"
    BY <1>1, <2>1, <2>3 DEF MalformedTryOf, Undone
  <2> QED BY <2>1, <2>2, <2>3
<1> QED BY <1>2, <1>3, <1>4, <1>5 DEF Work

LEMMA InstallTryErr ==
  ASSUME Shape, NEW t \in Threads, InstallTryOf(t), Running(t), Err(t),
         proc[t].cmd = "create_vm", Spent("moves") = 0, proc[t].pc = "run"
  PROVE  InstallTryOf(t)'
<1> DEFINE o == Head(proc[t].todo)
<1>0. Past(t) \in 0 .. Tries - 1 /\ Spent("faults") \in Nat /\ proc[t].cmd \in Installs
  BY PastNat, SlipsNat DEF Installs
<1>1. /\ proc[t].todo # <<>> /\ ErrCost(o)
      /\ \/ Tolerates(proc[t].cmd, o, facts') /\ Advance(t)
         \/ ~ Tolerates(proc[t].cmd, o, facts') /\ Undo(t, o)
  BY ErrEffect
<1>2. /\ facts' = facts \/ Perform(o)
      /\ Spent("faults")' \in {Spent("faults"), Spent("faults") + 1}
  BY <1>0, <1>1 DEF ErrCost, Steady, Budgets
<1>3. o \in OpNames /\ o \in Rest(t) /\ o \in RunKit(proc[t].cmd)
  BY <1>1, HeadInKit DEF Kit
<1>4. "vmDefined" \in facts => "vmDefined" \in facts'
  BY <1>1, <1>2, InstallFrame
<1>5. CASE o # "virtInstall"
  <2>1. "virtInstall" \notin Rest(t)
    BY <1>1, <1>5, HeadOrder DEF FirstOps
  <2>2. Past(t) <= Spent("faults") + 1 /\ "vmDefined" \in facts'
    BY <1>4, <2>1 DEF InstallTryOf
  <2>3. Past(t) <= Spent("faults")' + 1
    BY <1>0, <1>2, <2>2
  <2>4. CASE Advance(t)
    <3>1. proc'[t].pc = "run" /\ Rest(t)' \subseteq Rest(t) /\ Past(t)' = Past(t)
      BY <1>1, <2>4, AdvanceShape, AdvancePast
    <3> QED BY <2>1, <2>2, <2>3, <3>1 DEF InstallTryOf, Undone
  <2>5. CASE Undo(t, o)
    <3>1. proc'[t].pc = "undo" /\ Past(t)' = Past(t) /\ Rest(t)' = {"destroyIfActive"}
      BY <1>0, <2>5, UndoPast, RollbackFacts
    <3> QED BY <2>2, <2>3, <3>1 DEF InstallTryOf, Undone
  <2> QED BY <1>1, <2>4, <2>5
<1>6. CASE o = "virtInstall"
  <2>1. Undo(t, o)
    BY <1>1, <1>6 DEF Tolerates
  <2>2. proc'[t].pc = "undo" /\ Past(t)' = Past(t) /\ Rest(t)' = {"destroyIfActive"}
    BY <1>0, <2>1, UndoPast, RollbackFacts
  <2>3. /\ "vmActive" \in facts => Past(t) <= Spent("faults") + 1
        /\ "vmActive" \in facts /\ "vmDefined" \notin facts => Past(t) <= Spent("faults")
        /\ "vmActive" \notin facts /\ "vmDefined" \notin facts => Past(t) <= Spent("faults") + 1
    BY <1>3, <1>6 DEF InstallTryOf
  <2>4. o \notin DOMAIN ApiOp
    BY <1>6 DEF ApiOp
  <2>5. /\ "vmActive" \in facts' => Past(t) <= Spent("faults")' + 1
        /\ "vmActive" \in facts' /\ "vmDefined" \notin facts' => Past(t) <= Spent("faults")'
        /\ "vmActive" \notin facts' /\ "vmDefined" \notin facts' => Past(t) <= Spent("faults")'
    <3>1. CASE Refused(o) /\ facts' = facts /\ Steady
      <4>1. {"vmDefined", "vmActive"} \cap facts # {}
        BY <1>3, <1>6, <3>1, RefusedWhen
      <4>2. Spent("faults")' = Spent("faults")
        BY <3>1 DEF Steady, Budgets
      <4> QED BY <2>3, <3>1, <4>1, <4>2
    <3>2. CASE facts' = facts /\ Spent("faults")' = Spent("faults") + 1
      BY <1>0, <2>3, <3>2
    <3>3. CASE Allowed(o) /\ Perform(o) /\ Spent("faults")' = Spent("faults")
      <4>1. /\ {"vmDefined", "vmActive"} \subseteq facts'
            /\ {"vmDefined", "vmActive"} \cap facts = {}
        BY <1>6, <3>3, VmOpDoes DEF VmOp
      <4> QED BY <2>3, <3>3, <4>1
    <3> QED BY <1>1, <2>4, <3>1, <3>2, <3>3 DEF ErrCost
  <2> QED BY <2>2, <2>5 DEF InstallTryOf, Undone
<1> QED BY <1>5, <1>6

LEMMA InstallTryDo ==
  ASSUME Shape, NEW t \in Threads, InstallTryOf(t), Running(t), Do(t),
         proc[t].cmd = "create_vm", Spent("moves") = 0
  PROVE  InstallTryOf(t)'
<1> DEFINE o == Head(proc[t].todo)
<1>0. proc[t].cmd \in Installs
  BY DEF Installs
<1>1. /\ proc[t].todo # <<>> /\ Advance(t) /\ Perform(o) /\ (Skipped(o) \/ Allowed(o))
      /\ Steady
  BY DoEffect
<1>2. /\ Spent("faults")' = Spent("faults") /\ Spent("moves")' = Spent("moves")
      /\ o \in Rest(t) /\ proc[t].pc \in {"run", "undo"}
      /\ proc'[t].pc = proc[t].pc /\ proc'[t].cmd = proc[t].cmd
      /\ Past(t)' = Past(t) /\ Rest(t)' \cap FirstOps = {}
  BY <1>1, HeadInKit, AdvanceShape, AdvancePast DEF Steady, Budgets
<1>3. /\ "vmDefined" \in facts => "vmDefined" \in facts'
      /\ proc[t].pc = "undo" => ("vmDefined" \in facts' <=> "vmDefined" \in facts)
  BY <1>1, InstallFrame
<1>4. CASE proc[t].pc = "run"
  <2>1. "virtInstall" \notin Rest(t)'
    BY <1>2 DEF FirstOps
  <2>2. CASE o = "virtInstall"
    <3>1. /\ {"vmDefined", "vmActive"} \subseteq facts'
          /\ {"vmDefined", "vmActive"} \cap facts = {}
      BY <1>1, <2>2, VmOpDoes DEF VmOp
    <3>2. Past(t) <= Spent("faults") + 1
      BY <1>2, <1>4, <2>2, <3>1 DEF InstallTryOf
    <3> QED BY <1>2, <1>4, <2>1, <3>1, <3>2 DEF InstallTryOf, Undone
  <2>3. CASE o # "virtInstall"
    <3>1. "virtInstall" \notin Rest(t)
      BY <1>1, <2>3, HeadOrder DEF FirstOps
    <3>2. Past(t) <= Spent("faults") + 1 /\ "vmDefined" \in facts'
      BY <1>3, <1>4, <3>1 DEF InstallTryOf
    <3> QED BY <1>2, <1>4, <2>1, <3>2 DEF InstallTryOf, Undone
  <2> QED BY <2>2, <2>3
<1>5. CASE proc[t].pc = "undo"
  <2>1. "vmActive" \notin facts'
    BY <1>0, <1>5, DestroyDone
  <2>2. "vmDefined" \notin facts => Past(t) <= Spent("faults")
    BY <1>5 DEF InstallTryOf
  <2> QED BY <1>2, <1>3, <1>5, <2>1, <2>2 DEF InstallTryOf
<1> QED BY <1>2, <1>4, <1>5

LEMMA InstallTryKept ==
  ASSUME Shape, NEW t \in Threads, InstallTryOf(t), Running(t), Work(t),
         proc[t].cmd = "create_vm", Spent("moves") = 0
  PROVE  InstallTryOf(t)'
<1>0. Past(t) \in 0 .. Tries - 1 /\ Spent("faults") \in Nat /\ proc[t].cmd \in Installs
  BY PastNat, SlipsNat DEF Installs
<1>1. CASE Prepare(t)
  <2>1. MayRun(proc[t].cmd)
    BY DEF MayRun, Misparsed, Malformed
  <2>2. /\ proc[t].pc = "start" /\ proc'[t].pc = "run" /\ Past(t)' = Past(t) /\ Steady
        /\ facts' = facts \cup Written(proc[t].cmd) /\ proc[t].cmd \in Commands
        /\ Rest(t)' = OpsIn(Queue(proc[t].cmd))
    BY <1>1, <2>1, PrepareEffect
  <2>3. "virtInstall" \in Rest(t)'
    BY <2>1, <2>2, QueueFacts
  <2>4. \A f \in {"vmActive", "vmDefined"} : f \in facts' <=> f \in facts
    BY <2>2, PostedWritten
  <2>5. Spent("faults")' = Spent("faults")
    BY <2>2 DEF Steady, Budgets
  <2> QED BY <2>2, <2>3, <2>4, <2>5 DEF InstallTryOf, Undone
<1>2. CASE Do(t)
  BY <1>2, InstallTryDo
<1>3. CASE Err(t) /\ proc[t].pc = "run"
  BY <1>3, InstallTryErr
<1>4. CASE Err(t) /\ proc[t].pc = "undo"
  <2>1. facts' = facts /\ Spent("faults")' = Spent("faults") + 1 /\ Retry(t)
    BY <1>0, <1>4, DestroyFails
  <2>2. ~ Running(t)' \/ (Past(t)' = Past(t) + 1 /\ proc'[t].pc = "start")
    BY <2>1, RetryShape
  <2>3. /\ "vmActive" \in facts => Past(t) <= Spent("faults") + 1
        /\ "vmActive" \in facts /\ "vmDefined" \notin facts => Past(t) <= Spent("faults")
        /\ "vmActive" \notin facts /\ "vmDefined" \notin facts => Past(t) <= Spent("faults")
    BY <1>4 DEF InstallTryOf
  <2>4. /\ "vmActive" \in facts' => Past(t) + 1 <= Spent("faults")' + 1
        /\ "vmDefined" \notin facts' => Past(t) + 1 <= Spent("faults")'
    BY <1>0, <2>1, <2>3
  <2>5. Past(t) + 1 <= Spent("faults")' => Past(t) + 1 <= Spent("faults")' + 1
    BY <1>0, <2>1
  <2> QED BY <2>2, <2>4, <2>5 DEF InstallTryOf, Undone
<1>5. CASE Finish(t)
  <2>1. /\ facts' = facts /\ Rest(t) = {} /\ Steady
        /\ ~ Running(t)' \/ (proc[t].pc = "undo" /\ Retry(t))
    BY <1>5, FinishEffect
  <2>2. CASE ~ Running(t)'
    BY <2>2 DEF InstallTryOf
  <2>3. CASE proc[t].pc = "undo" /\ Retry(t)
    <3>1. ~ Running(t)' \/ (Past(t)' = Past(t) + 1 /\ proc'[t].pc = "start")
      BY <2>3, RetryShape
    <3>2. "vmActive" \notin facts /\ ("vmDefined" \notin facts => Past(t) <= Spent("faults"))
      BY <2>1, <2>3 DEF InstallTryOf, Undone
    <3>3. Spent("faults")' = Spent("faults")
      BY <2>1 DEF Steady, Budgets
    <3>4. "vmDefined" \notin facts => Past(t) + 1 <= Spent("faults") + 1
      BY <1>0, <3>2
    <3> QED BY <2>1, <3>1, <3>2, <3>3, <3>4 DEF InstallTryOf, Undone
  <2> QED BY <2>1, <2>2, <2>3
<1> QED BY <1>1, <1>2, <1>3, <1>4, <1>5, ErrEffect DEF Work

LEMMA VmTryKept ==
  ASSUME Shape, Exclusion, VmTry, [Next]_vars
  PROVE  VmTry'
<1> SUFFICES ASSUME NEW t \in Alone', t \in Threads, proc'[t].cmd \in Installs, Running(t)',
                    Spent("moves")' = 0
             PROVE  VmTryOf(t)'
  BY DEF VmTry, VmTryOf, MalformedTryOf, InstallTryOf, Installs, Alone
<1>0. /\ Running(t) => MalformedTryOf(t) /\ InstallTryOf(t)
      /\ Spent("moves") \in Nat /\ Spent("faults") \in Nat
  BY AloneBefore, SlipsNat DEF VmTry, VmTryOf
<1>1. CASE Running(t) /\ Bystands(t)
  <2>1. /\ proc'[t] = proc[t] /\ Rest(t)' = Rest(t) /\ Past(t)' = Past(t)
        /\ Spent("faults")' >= Spent("faults") /\ Spent("faults")' \in Nat
        /\ Spent("moves") = 0
        /\ \A f \in Owned(Resource(proc[t].cmd)) : f \in facts' <=> f \in facts
    BY <1>0, <1>1 DEF Bystands
  <2>2. Owned(Resource(proc[t].cmd)) = {"vmDefined", "vmActive", "port"}
    BY <2>1 DEF Resource, Owned, Installs
  <2>3. \A f \in {"vmDefined", "vmActive"} : f \in facts' <=> f \in facts
    BY <2>1, <2>2
  <2>4. Past(t) \in 0 .. Tries - 1 /\ (Undone(t)' <=> Undone(t))
    BY <1>1, <2>1, PastNat DEF Undone
  <2>5. MalformedTryOf(t)'
    BY <1>0, <1>1, <2>1, <2>3, <2>4 DEF MalformedTryOf
  <2>6. InstallTryOf(t)'
    BY <1>0, <1>1, <2>1, <2>3, <2>4 DEF InstallTryOf
  <2> QED BY <2>5, <2>6 DEF VmTryOf
<1>2. CASE Running(t) /\ Work(t)
  <2>1. proc'[t].cmd = proc[t].cmd
    BY <1>2, PrepareEffect, DoEffect, ErrEffect, FinishEffect, AdvanceShape, UndoShape,
       RetryShape DEF Work
  <2>2. Spent("moves") = 0
    BY <1>2, SpentGrows
  <2>3. CASE proc[t].cmd = "create_vm"
    BY <1>0, <1>2, <2>1, <2>2, <2>3, InstallTryKept DEF VmTryOf, MalformedTryOf
  <2>4. CASE proc[t].cmd = "create_vm_malformed"
    BY <1>0, <1>2, <2>1, <2>2, <2>4, MalformedTryKept DEF VmTryOf, InstallTryOf
  <2> QED BY <2>1, <2>3, <2>4 DEF Installs
<1>3. CASE \E c \in mix : Post(t, c)
  <2>1. /\ proc'[t].pc = "start" /\ Past(t)' = 0 /\ Spent("faults")' = Spent("faults")
    BY <1>3, PostEffect
  <2> QED BY <1>0, <2>1 DEF VmTryOf, MalformedTryOf, InstallTryOf, Undone
<1>4. CASE ~ Running(t) /\ proc'[t] = proc[t]
  BY <1>4 DEF Running
<1> QED BY <1>1, <1>2, <1>3, <1>4, ThreadCases
-----------------------------------------------------------------------------
(* The port of a NIC, and who changes a fact.                                *)

\* The operation that thread u performs in this step.
Performs(u, S) ==
    /\ Do(u) \/ Err(u)
    /\ proc[u].todo # <<>> /\ Head(proc[u].todo) \in S /\ Perform(Head(proc[u].todo))

LEMMA PerformerMoves ==
  ASSUME Shape, NEW u \in Threads, NEW S, Performs(u, S), NEW t \in Threads, Moves(t)
  PROVE  u = t
  BY DoEffect, ErrEffect DEF Performs, OnlyThread, Moves

LEMMA Changer ==
  ASSUME Shape, [Next]_vars, NEW f \in Tracked \ {"poolActive", "vmActive"}
  PROVE  /\ f \in facts /\ f \notin facts' => \E u \in Threads : Performs(u, DroppedBy(f))
         /\ f \notin facts /\ f \in facts' /\ f \notin {"poolObj", "diskObj", "vmObj"}
              => \E u \in Threads : Performs(u, AddedBy(f))
<1>1. CASE UNCHANGED vars
  BY <1>1 DEF vars
<1>2. CASE Others
  BY <1>2, OthersEffect
<1>3. CASE \E u \in Threads, c \in mix : Post(u, c)
  BY <1>3, PostEffect, PostedWritten
<1>4. CASE \E u \in Threads : Prepare(u)
  <2>1. f \notin {"nicXml", "devXml"}
    BY DEF Tracked
  <2> QED BY <1>4, <2>1, PrepareEffect, PostedWritten
<1>5. CASE \E u \in Threads : Finish(u)
  BY <1>5, FinishEffect
<1>6. ASSUME NEW u \in Threads, Do(u) \/ Err(u)
      PROVE  /\ f \in facts /\ f \notin facts' => Performs(u, DroppedBy(f))
             /\ f \notin facts /\ f \in facts' => Performs(u, AddedBy(f))
  <2>1. /\ proc[u].todo # <<>>
        /\ facts' = facts \/ Perform(Head(proc[u].todo))
    BY <1>6, DoEffect, ErrEffect DEF ErrCost
  <2>2. Head(proc[u].todo) \in OpNames
    BY <2>1, HeadInKit
  <2> QED BY <1>6, <2>1, <2>2, PerformFrame, ShapeParts DEF Performs
<1> QED BY <1>1, <1>2, <1>3, <1>4, <1>5, <1>6 DEF Next

\* The commands of the operations that matter to a user.
LEMMA KitCommand ==
  ASSUME NEW t \in Threads, NEW o \in Kit(t)
  PROVE  /\ o = "deletePool" => proc[t].pc = "run" /\ proc[t].cmd = "delete_pool"
         /\ o = "deleteDisk" => proc[t].pc = "run" /\ proc[t].cmd = "delete_disk"
         /\ o = "deleteVmdi" => proc[t].pc = "run" /\ proc[t].cmd = "delete_vmdi"
         /\ o = "deleteVm" => proc[t].pc = "run" /\ proc[t].cmd = "delete_vm"
         /\ o = "updatePool" => proc[t].pc = "run" /\ proc[t].cmd \in Creates
         /\ o = "updateDisk" => proc[t].pc = "run" /\ proc[t].cmd = "create_disk"
         /\ o = "bindPort" => proc[t].pc = "run"
<1>1. CASE proc[t].pc = "run"
  BY <1>1 DEF Kit, RunKit, Creates, Unplugs, Misparsed, Malformed, PoolOp
<1>2. CASE proc[t].pc = "undo"
  BY <1>2 DEF Kit, UndoKit, Creates, Installs
<1> QED BY <1>1, <1>2 DEF Kit

\* A failure by itself is counted.
LEMMA NoSlip ==
  ASSUME Shape, NEW t \in Threads, Err(t), Slips' = 0,
         Head(proc[t].todo) \notin DOMAIN ApiOp
  PROVE  Refused(Head(proc[t].todo)) /\ facts' = facts
  BY ErrEffect, SlipsNat DEF ErrCost, Slips

\* The slips only grow.
LEMMA SlipsGrow ==
  ASSUME Shape, [Next]_vars, Slips' = 0
  PROVE  Slips = 0
<1>1. CASE UNCHANGED vars
  BY <1>1 DEF vars, Slips, Spent
<1>2. CASE Others
  BY <1>2, OthersEffect, SlipsNat DEF Slips
<1>3. CASE \E t \in Threads : Work(t) \/ \E c \in mix : Post(t, c)
  BY <1>3, SpentGrows, SlipsNat
<1> QED BY <1>1, <1>2, <1>3 DEF Next, Work

\* A thread about to record the switch.
Recording(t) ==
    proc[t].pc = "run" /\ proc[t].todo # <<>> /\ Head(proc[t].todo) = "echoSwitch"

LEMMA RecordingKept ==
  ASSUME Shape, Exclusion, [Next]_vars, NEW t \in Threads, Recording(t), Slips' = 0,
         "switchCfg" \notin facts'
  PROVE  Recording(t)'
<1>1. proc[t].pc = "run" /\ proc[t].todo # <<>> /\ Head(proc[t].todo) = "echoSwitch"
  BY DEF Recording
<1>2. "echoSwitch" \in OpNames /\ "echoSwitch" \notin DOMAIN ApiOp
  BY DEF OpNames, NicOp, ApiOp
<1>3. ~ Do(t)
  BY <1>1, DoEffect, NicOpDoes DEF NicOp
<1>4. ~ Err(t)
  BY <1>1, <1>2, NoSlip, RefusedWhen
<1>5. ~ Prepare(t) /\ ~ Finish(t) /\ Running(t)
  BY <1>1 DEF Prepare, Finish, Running
<1>6. proc'[t] = proc[t]
  BY <1>3, <1>4, <1>5, ThreadCases DEF Work, Bystands
<1> QED BY <1>1, <1>6 DEF Recording

LEMMA OriginKept ==
  ASSUME [Next]_vars
  PROVE  origin' = origin /\ (Recorded' <=> Recorded)
<1>1. CASE UNCHANGED vars
  BY <1>1 DEF vars, Recorded
<1>2. CASE Others
  BY <1>2 DEF Others, Recorded
<1>3. CASE \E t \in Threads : Work(t) \/ \E c \in mix : Post(t, c)
  BY <1>3, WorkMeets, PostMeets DEF Recorded
<1> QED BY <1>1, <1>2, <1>3 DEF Next, Work

LEMMA PortKnownKept ==
  ASSUME Shape, Exclusion, PortKnown, [Next]_vars
  PROVE  PortKnown'
<1> SUFFICES ASSUME Slips' = 0, Recorded', "port" \in facts', "switchCfg" \notin facts'
             PROVE  \E t \in Threads : Recording(t)'
  BY DEF PortKnown, Recording
<1>0. Slips = 0 /\ Recorded
  BY SlipsGrow, OriginKept
<1>1. "switchCfg" \notin facts
  <2>1. "switchCfg" \in Tracked \ {"poolActive", "vmActive"} /\ DroppedBy("switchCfg") = {}
    BY DEF Tracked, DroppedBy
  <2> QED BY <2>1, Changer DEF Performs
<1>2. CASE "port" \in facts
  <2>1. PICK t \in Threads : Recording(t)
    BY <1>0, <1>1, <1>2 DEF PortKnown, Recording
  <2> QED BY <2>1, RecordingKept
<1>3. CASE "port" \notin facts
  <2>1. "port" \in Tracked \ {"poolActive", "vmActive"} /\ AddedBy("port") = {"bindPort"}
    BY DEF Tracked, AddedBy
  <2>2. PICK u \in Threads : Performs(u, {"bindPort"})
    BY <1>3, <2>1, Changer
  <2>3. /\ proc[u].todo # <<>> /\ Head(proc[u].todo) = "bindPort" /\ (Do(u) \/ Err(u))
    BY <2>2 DEF Performs
  <2>4. proc[u].pc = "run"
    BY <2>3, HeadInKit, KitCommand
  <2>5. ~ Err(u)
    <3>1. "bindPort" \notin DOMAIN ApiOp
      BY DEF ApiOp
    <3> QED BY <1>3, <2>3, <3>1, NoSlip
  <2>6. Advance(u)
    BY <2>3, <2>5, DoEffect
  <2>7. Recording(u)'
    BY <2>3, <2>4, <2>6, AdvanceShape DEF Recording
  <2> QED BY <2>7
<1> QED BY <1>2, <1>3

LEMMA PortFreeKept ==
  ASSUME Shape, Exclusion, PortKnown, PortFree, [Next]_vars
  PROVE  PortFree'
<1> SUFFICES ASSUME NEW t \in Alone', t \in Threads, Slips' = 0, Recorded', proc'[t].pc = "run",
                    proc'[t].cmd \in Unplugs, "unbindPort" \notin Rest(t)'
             PROVE  "port" \notin facts'
  BY DEF PortFree, PortFreeOf, Alone
<1>0. (Running(t) => PortFreeOf(t) /\ t \in Alone) /\ Slips = 0 /\ Recorded
  BY AloneBefore, SlipsGrow, OriginKept DEF PortFree
<1>1. CASE Running(t) /\ Bystands(t)
  <2>1. /\ proc'[t] = proc[t] /\ Rest(t)' = Rest(t)
        /\ \A f \in Owned(Resource(proc[t].cmd)) :
              (f \in facts' <=> f \in facts) \/ f = "vmActive"
    BY <1>1 DEF Bystands
  <2>2. Owned(Resource(proc[t].cmd)) = {"port"}
    BY <2>1 DEF Resource, Owned, Unplugs
  <2> QED BY <1>0, <1>1, <2>1, <2>2 DEF PortFreeOf
<1>2. CASE Prepare(t)
  <2>1. /\ proc'[t].cmd = proc[t].cmd /\ proc[t].cmd \in Commands /\ Running(t)
        /\ MayRun(proc[t].cmd) /\ Rest(t)' = OpsIn(Queue(proc[t].cmd))
        /\ facts' = facts \cup Written(proc[t].cmd) /\ proc[t].pc = "start"
    BY <1>2, PrepareEffect, UndoShape, RetryShape
  <2>2. "switchCfg" \notin facts
    BY <2>1, QueueFacts
  <2>3. ASSUME "port" \in facts
        PROVE  FALSE
    <3>1. PICK u \in Threads : /\ proc[u].pc = "run" /\ proc[u].todo # <<>>
                               /\ Head(proc[u].todo) = "echoSwitch"
      BY <1>0, <2>2, <2>3 DEF PortKnown
    <3>2. "echoSwitch" \in RunKit(proc[u].cmd) /\ Running(u) /\ proc[u].cmd \in Commands
      BY <3>1, HeadInKit, PastNat DEF Kit
    <3>3. Resource(proc[u].cmd) \in {"vm", "nic"}
      BY <3>2, KitResource
    <3>4. Resource(proc[t].cmd) = "nic"
      BY <2>1 DEF Resource, Unplugs
    <3>5. u # t /\ ~ Conflict(Resource(proc[t].cmd), Resource(proc[u].cmd))
      BY <1>0, <2>1, <3>1, <3>2 DEF Exclusion
    <3> QED BY <3>3, <3>4, <3>5 DEF Conflict, OfVm
  <2> QED BY <2>1, <2>3, PostedWritten
<1> DEFINE o == Head(proc[t].todo)
<1>3. CASE Do(t)
  <2>1. /\ proc[t].todo # <<>> /\ Perform(o) /\ (Skipped(o) \/ Allowed(o)) /\ Advance(t)
        /\ Running(t)
    BY <1>3, DoEffect
  <2>2. /\ proc[t].pc = "run" /\ proc[t].cmd \in Unplugs
        /\ Rest(t) \subseteq {o} \cup Rest(t)'
    BY <2>1, AdvanceShape
  <2>3. o \in OpNames /\ o \in RunKit(proc[t].cmd)
    BY <2>1, <2>2, HeadInKit DEF Kit
  <2>4. o \in {"unbindPort", "detachNic", "detachNicConfig"}
    BY <2>2, <2>3 DEF RunKit, Creates, Unplugs, Misparsed, Malformed
  <2>5. CASE o = "unbindPort"
    BY <2>1, <2>5, NicOpDoes DEF NicOp
  <2>6. CASE o # "unbindPort"
    <3>1. "port" \notin facts
      BY <1>0, <2>1, <2>2, <2>6 DEF PortFreeOf
    <3>2. "port" \in Tracked /\ o \notin AddedBy("port")
      BY <2>4 DEF Tracked, AddedBy
    <3> QED BY <2>1, <2>3, <3>1, <3>2, PerformFrame, ShapeParts
  <2> QED BY <2>5, <2>6
<1>4. CASE Err(t)
  <2>1. /\ proc[t].todo # <<>> /\ proc[t].pc = "run" /\ Advance(t)
        /\ Tolerates(proc[t].cmd, o, facts')
    BY <1>4, ErrEffect, UndoShape, RetryShape
  <2>2. proc[t].cmd \in Unplugs /\ o \in OpNames
    BY <2>1, AdvanceShape, HeadInKit
  <2>3. o = "unbindPort"
    BY <2>1, <2>2 DEF Tolerates, Unplugs
  <2>4. "unbindPort" \notin DOMAIN ApiOp
    BY DEF ApiOp
  <2> QED BY <1>4, <2>2, <2>3, <2>4, NoSlip, RefusedWhen
<1>5. CASE Finish(t)
  BY <1>5, FinishEffect, RetryShape
<1>6. CASE \E c \in mix : Post(t, c)
  BY <1>6, PostEffect
<1>7. CASE ~ Running(t) /\ proc'[t] = proc[t]
  BY <1>7 DEF Running
<1> QED BY <1>1, <1>2, <1>3, <1>4, <1>5, <1>6, <1>7, ThreadCases DEF Work
-----------------------------------------------------------------------------
(* The invariant and the theorems.                                           *)

Inv == Shape /\ History /\ Exclusion /\ Progress /\ PoolTry /\ VmTry /\ PortKnown /\ PortFree

LEMMA InitInv == Init => Inv
<1> SUFFICES ASSUME Init
             PROVE  Inv
  OBVIOUS
<1>1. Shape
  BY InitShape
<1>2. \A t \in Threads : proc[t].pc = "idle"
  BY DEF Init, Idle
<1>3. Exclusion /\ Progress /\ PoolTry /\ VmTry /\ PortFree
  BY <1>2 DEF Exclusion, Progress, ProgressOf, PoolTry, PoolTryOf, VmTry, VmTryOf,
              MalformedTryOf, InstallTryOf, PortFree, PortFreeOf, Running, Alone
<1>4. PortKnown /\ History
  <2>1. origin \subseteq Facts
    BY VirshplusAssumption DEF Init
  <2> QED BY <2>1 DEF Init, PortKnown, Recorded, History
<1> QED BY <1>1, <1>3, <1>4 DEF Inv

LEMMA NextInv == Inv /\ [Next]_vars => Inv'
<1> SUFFICES ASSUME Inv, [Next]_vars
             PROVE  Inv'
  OBVIOUS
<1>0. /\ Shape /\ History /\ Exclusion /\ Progress /\ PoolTry /\ VmTry
      /\ PortKnown /\ PortFree
  BY DEF Inv
<1>1. Shape'
  <2>1. CASE UNCHANGED vars
    BY <1>0, <2>1 DEF vars, Shape, Typed, LeftOK, Place, PlaceOf, Running, Rest, Kit
  <2>2. CASE Others
    BY <1>0, <2>2, OthersEffect
  <2>3. CASE \E t \in Threads : Work(t) \/ \E c \in mix : Post(t, c)
    BY <1>0, <2>3, PostEffect, PrepareEffect, DoEffect, ErrEffect, FinishEffect DEF Work
  <2> QED BY <2>1, <2>2, <2>3 DEF Next, Work
<1>2. Exclusion' /\ Progress' /\ PoolTry' /\ VmTry' /\ PortKnown' /\ PortFree'
  BY <1>0, ExclusionKept, ProgressKept, PoolTryKept, VmTryKept, PortKnownKept, PortFreeKept
<1>3. History'
  <2>1. CASE UNCHANGED vars
    BY <1>0, <2>1 DEF vars, History
  <2>2. CASE Others
    BY <1>0, <2>2 DEF Others, AtPool, History
  <2>3. CASE \E t \in Threads : Work(t)
    BY <1>0, <2>3, WorkMeets DEF History
  <2>4. CASE \E t \in Threads, c \in mix : Post(t, c)
    BY <1>0, <2>4 DEF Post, Meet, Rivals, History
  <2> QED BY <2>1, <2>2, <2>3, <2>4 DEF Next, Work
<1> QED BY <1>1, <1>2, <1>3 DEF Inv

LEMMA Invariance == Spec => []Inv
  BY InitInv, NextInv, PTL DEF Spec

\* The state stays well formed whatever is posted and whatever fails.
THEOREM TypeCorrect == Spec => []TypeOK
<1>1. Inv => TypeOK
  BY DEF Inv, Shape, Typed, History, TypeOK
<1> QED BY <1>1, Invariance, PTL

\* A command that is alone deletes no object before its resource is gone from
\* the host: the last operation of a queue runs only behind the one that removes
\* the resource, and the other threads leave the resource alone.
THEOREM ObjectsDeletedLast == Spec => DeletedLast
<1>1. ASSUME Inv, [Next]_vars, NEW t \in Alone, NEW o \in DOMAIN Resources,
             Moves(t), o \in facts, o \notin facts'
      PROVE  Resources[o] \cap facts' = {}
  <2>0. Shape /\ Progress /\ t \in Threads
    BY <1>1 DEF Inv, Alone
  <2>1. /\ o \in Tracked \ {"poolActive", "vmActive"}
        /\ \/ o = "poolObj" /\ DroppedBy(o) = {"deletePool"}
           \/ o = "diskObj" /\ DroppedBy(o) = {"deleteDisk"}
           \/ o = "vmdiObj" /\ DroppedBy(o) = {"deleteVmdi"}
           \/ o = "vmObj" /\ DroppedBy(o) = {"deleteVm"}
    BY <1>1 DEF Resources, Tracked, DroppedBy
  <2>2. PICK u \in Alone : Performs(u, DroppedBy(o)) /\ u \in Threads
    BY <1>1, <2>0, <2>1, Changer, PerformerMoves
  <2> DEFINE h == Head(proc[u].todo)
  <2>3. /\ proc[u].todo # <<>> /\ h \in DroppedBy(o) /\ Perform(h) /\ h \in LastOps
        /\ ProgressOf(u) /\ u \in Threads
    BY <2>0, <2>1, <2>2 DEF Performs, LastOps, Progress
  <2>4. h \in OpNames /\ h \in Kit(u) /\ Rest(u) = {h}
    BY <2>0, <2>3, HeadInKit, HeadOrder
  <2>5. ASSUME NEW f \in Tracked, f \notin facts, AddedBy(f) \cap LastOps = {}
        PROVE  f \notin facts'
    BY <2>0, <2>3, <2>4, <2>5, PerformFrame, ShapeParts
  <2>6. \A f \in {"poolDefined", "poolActive", "diskDir", "diskImage", "diskConfig",
                  "vmdiDir", "vmDefined"} :
           f \in Tracked /\ AddedBy(f) \cap LastOps = {}
    BY DEF Tracked, AddedBy, LastOps
  <2>7. \A f \in Resources[o] : f \notin facts /\ f \in Tracked /\ AddedBy(f) \cap LastOps = {}
    <3>1. CASE o = "poolObj" /\ h = "deletePool"
      <4>1. {"poolDefined", "poolActive"} \cap facts = {}
        BY <2>3, <2>4, <3>1, KitCommand DEF ProgressOf, Achieved
      <4> QED BY <2>6, <3>1, <4>1 DEF Resources
    <3>2. CASE o = "diskObj" /\ h = "deleteDisk"
      <4>1. {"diskDir", "diskImage", "diskConfig"} \cap facts = {}
        BY <2>3, <2>4, <3>2, KitCommand DEF ProgressOf, Achieved
      <4> QED BY <2>6, <3>2, <4>1 DEF Resources
    <3>3. CASE o = "vmdiObj" /\ h = "deleteVmdi"
      <4>1. "vmdiDir" \notin facts
        BY <2>3, <2>4, <3>3, KitCommand DEF ProgressOf, Achieved
      <4> QED BY <2>6, <3>3, <4>1 DEF Resources
    <3>4. CASE o = "vmObj" /\ h = "deleteVm"
      <4>1. "vmDefined" \notin facts
        BY <2>3, <2>4, <3>4, KitCommand DEF ProgressOf, Achieved
      <4> QED BY <2>6, <3>4, <4>1 DEF Resources
    <3> QED BY <2>1, <2>3, <3>1, <3>2, <3>3, <3>4
  <2> QED BY <2>5, <2>7
<1>2. Inv /\ [Next]_vars =>
        [\A t \in Alone, o \in DOMAIN Resources :
            Moves(t) /\ o \in facts /\ o \notin facts'
               => Resources[o] \cap facts' = {}]_vars
  BY <1>1
<1> QED BY <1>2, Invariance, PTL DEF Spec, DeletedLast

\* A command that is alone reports Ready only of a complete pool or disk.
THEOREM ReadyReportedLast == Spec => ReadyLast
<1>1. ASSUME Inv, [Next]_vars, NEW t \in Alone, NEW o \in DOMAIN Complete,
             Moves(t), o \notin facts, o \in facts'
      PROVE  Complete[o] \subseteq facts'
  <2>0. Shape /\ Progress /\ t \in Threads
    BY <1>1 DEF Inv, Alone
  <2>1. /\ o \in Tracked \ {"poolActive", "vmActive"} /\ o \notin {"poolObj", "diskObj", "vmObj"}
        /\ \/ o = "poolReady" /\ AddedBy(o) = {"updatePool"}
           \/ o = "diskReady" /\ AddedBy(o) = {"updateDisk"}
    BY <1>1 DEF Complete, Tracked, AddedBy
  <2>2. PICK u \in Alone : Performs(u, AddedBy(o)) /\ u \in Threads
    BY <1>1, <2>0, <2>1, Changer, PerformerMoves
  <2> DEFINE h == Head(proc[u].todo)
  <2>3. /\ proc[u].todo # <<>> /\ h \in AddedBy(o) /\ Perform(h) /\ ProgressOf(u)
        /\ h \in {"updatePool", "updateDisk"} /\ h \in LastOps /\ u \in Threads
    BY <2>0, <2>1, <2>2 DEF Performs, LastOps, Progress
  <2>4. h \in OpNames /\ h \in Kit(u) /\ Rest(u) = {h}
    BY <2>0, <2>3, HeadInKit, HeadOrder
  <2>5. \A f \in {"poolDir", "poolDefined", "poolActive", "poolContent",
                  "diskDir", "diskImage", "diskConfig"} :
           f \in Tracked /\ {"updatePool", "updateDisk"} \cap DroppedBy(f) = {}
    BY DEF Tracked, DroppedBy
  <2>6. \A f \in {"poolDir", "poolDefined", "poolActive", "poolContent",
                  "diskDir", "diskImage", "diskConfig"} : f \in facts => f \in facts'
    BY <2>0, <2>3, <2>4, <2>5, PerformFrame, ShapeParts
  <2>7. CASE o = "poolReady" /\ h = "updatePool"
    <3>1. {"poolDir", "poolDefined", "poolActive", "poolContent"} \subseteq facts
      BY <2>3, <2>4, <2>7, KitCommand DEF ProgressOf, Achieved
    <3> QED BY <2>6, <2>7, <3>1 DEF Complete
  <2>8. CASE o = "diskReady" /\ h = "updateDisk"
    <3>1. {"diskDir", "diskImage", "diskConfig"} \subseteq facts
      BY <2>3, <2>4, <2>8, KitCommand DEF ProgressOf, Achieved
    <3> QED BY <2>6, <2>8, <3>1 DEF Complete
  <2> QED BY <2>1, <2>3, <2>7, <2>8
<1>2. Inv /\ [Next]_vars =>
        [\A t \in Alone, o \in DOMAIN Complete :
            Moves(t) /\ o \notin facts /\ o \in facts'
               => Complete[o] \subseteq facts']_vars
  BY <1>1
<1> QED BY <1>2, Invariance, PTL DEF Spec, ReadyLast

\* How a command of thread t ends.
LEMMA Ending ==
  ASSUME Shape, Exclusion, [Next]_vars, NEW t \in Threads, Running(t),
         proc'[t].pc = "idle"
  PROVE  \/ /\ Finish(t) /\ proc[t].pc = "run" /\ proc'[t].out = "done"
         \/ /\ Finish(t) \/ Err(t)
            /\ proc[t].pc = "undo" /\ Retry(t) /\ Past(t) = Tries - 1
            /\ proc'[t].out = "failed"
         \/ /\ \/ Prepare(t) /\ ~ MayRun(proc[t].cmd) /\ Undo(t, "checks")
                  /\ Rollback(proc[t].cmd, "checks") = <<>>
               \/ Err(t) /\ proc[t].pc = "run" /\ Undo(t, Head(proc[t].todo))
                  /\ Rollback(proc[t].cmd, Head(proc[t].todo)) = <<>>
            /\ proc'[t].out = "failed"
<1>1. Work(t)
  BY ThreadCases DEF Running, Bystands
<1>2. CASE Prepare(t)
  BY <1>2, PrepareEffect, UndoShape, RetryShape
<1>3. CASE Do(t)
  BY <1>3, DoEffect, AdvanceShape DEF Running
<1>4. CASE Err(t)
  BY <1>4, ErrEffect, AdvanceShape, UndoShape, RetryShape DEF Running
<1>5. CASE Finish(t)
  BY <1>5, FinishEffect, RetryShape
<1> QED BY <1>1, <1>2, <1>3, <1>4, <1>5 DEF Work

\* A delete_pool that is alone never gives up on a pool that is still defined after at most one
\* failure of another kind than the one its own reverse queue repairs.
THEOREM PoolsAreGone == Spec => PoolGone
<1>1. ASSUME Inv, [Next]_vars, NEW t \in Alone, Ends(t, {"delete_pool"}, "failed"),
             Spent("faults") + Spent("grumbles") <= 1, "poolDir" \in facts
      PROVE  "poolDefined" \notin facts'
  <2>0. /\ Shape /\ Exclusion /\ t \in Threads
        /\ ProgressOf(t) /\ PoolTryOf(t) /\ Slips <= 1
    BY <1>1 DEF Inv, Progress, PoolTry, Slips, Alone
  <2>1. /\ proc[t].cmd = "delete_pool" /\ Running(t) /\ proc'[t].pc = "idle"
        /\ proc'[t].out = "failed"
    BY <1>1 DEF Ends, Running
  <2>2. MayRun(proc[t].cmd)
    BY <2>1 DEF MayRun, Misparsed, Malformed
  <2>3. proc[t].todo # <<>> /\ Err(t) =>
           ("poolDefined" \notin facts => "poolDefined" \notin facts')
    <3> DEFINE o == Head(proc[t].todo)
    <3> SUFFICES ASSUME Err(t), proc[t].todo # <<>>
                 PROVE  "poolDefined" \notin facts => "poolDefined" \notin facts'
      OBVIOUS
    <3>1. o \in OpNames /\ o \in Kit(t) /\ (facts' = facts \/ Perform(o))
      BY <2>0, HeadInKit, ErrEffect DEF ErrCost
    <3>2. o \in {"poolDestroy", "poolUndefine", "deletePool", "poolStart"}
      BY <2>1, <3>1 DEF Kit, RunKit, UndoKit, Creates, Unplugs, Installs, Misparsed, Malformed
    <3>3. "poolDefined" \in Tracked /\ o \notin AddedBy("poolDefined")
      BY <3>2 DEF Tracked, AddedBy
    <3> QED BY <2>0, <3>1, <3>3, PerformFrame, ShapeParts
  <2>4. CASE (Finish(t) \/ Err(t)) /\ proc[t].pc = "undo" /\ Past(t) = Tries - 1
    <3>1. Past(t) <= Slips => FALSE
      BY <2>0, <2>4, SlipsNat DEF Tries
    <3>2. "poolDefined" \notin facts
      BY <1>1, <2>0, <2>1, <2>4, <3>1 DEF PoolTryOf
    <3> QED BY <2>0, <2>3, <2>4, <3>2, FinishEffect, ErrEffect
  <2>5. CASE /\ Err(t) /\ proc[t].pc = "run"
             /\ Rollback(proc[t].cmd, Head(proc[t].todo)) = <<>>
    <3> DEFINE o == Head(proc[t].todo)
    <3>1. proc[t].todo # <<>> /\ o \in RunKit(proc[t].cmd)
      BY <2>0, <2>5, ErrEffect, HeadInKit DEF Kit
    <3>2. o \in {"poolDestroy", "poolUndefine", "deletePool"}
      BY <2>1, <3>1 DEF RunKit, Creates, Unplugs, Misparsed, Malformed
    <3>3. o \notin {"poolDestroy", "poolUndefine"}
      <4>1. o \in {"poolDestroy", "poolUndefine"} =>
               OpsIn(Rollback(proc[t].cmd, o)) = {"poolStart"}
        BY <2>1, RollbackFacts
      <4>2. OpsIn(Rollback(proc[t].cmd, o)) = {}
        BY <2>5, EmptyOps
      <4> QED BY <4>1, <4>2
    <3>4. Rest(t) = {"deletePool"}
      BY <2>0, <3>1, <3>2, <3>3, HeadOrder DEF LastOps
    <3>5. "poolDefined" \notin facts
      BY <2>0, <2>1, <2>5, <3>4 DEF ProgressOf, Achieved
    <3> QED BY <2>3, <2>5, <3>1, <3>5
  <2> QED BY <1>1, <2>0, <2>1, <2>2, <2>4, <2>5, Ending
<1>2. Inv /\ [Next]_vars =>
        [\A t \in Alone :
            /\ Ends(t, {"delete_pool"}, "failed")
            /\ Spent("faults") + Spent("grumbles") <= 1
            /\ "poolDir" \in facts
            => "poolDefined" \notin facts']_vars
  BY <1>1
<1> QED BY <1>2, Invariance, PTL DEF Spec, PoolGone

\* An installation that failed and was alone leaves no running domain behind.
THEOREM FailedCreatesStopped == Spec => FailedCreateStopped
<1>1. ASSUME Inv, [Next]_vars, NEW t \in Alone,
             Ends(t, {"create_vm", "create_vm_malformed"}, "failed"),
             Spent("moves") = 0, Spent("faults")' <= 1
      PROVE  "vmActive" \notin facts'
  <2>0. Shape /\ Exclusion /\ t \in Threads /\ MalformedTryOf(t) /\ InstallTryOf(t)
    BY <1>1 DEF Inv, VmTry, VmTryOf, Alone
  <2>1. /\ proc[t].cmd \in Installs /\ Running(t) /\ proc'[t].pc = "idle"
        /\ proc'[t].out = "failed"
    BY <1>1 DEF Ends, Running, Installs
  <2>2. \A o : Rollback(proc[t].cmd, o) # <<>>
    BY <2>1, RollbackFacts
  <2>3. /\ Finish(t) \/ Err(t)
        /\ proc[t].pc = "undo" /\ Past(t) = Tries - 1
    BY <1>1, <2>0, <2>1, <2>2, Ending
  <2>4. CASE Finish(t)
    <3>1. Undone(t) /\ facts' = facts
      BY <2>0, <2>3, <2>4, FinishEffect DEF Undone
    <3> QED BY <1>1, <2>0, <2>1, <3>1 DEF MalformedTryOf, InstallTryOf, Installs
  <2>5. CASE Err(t)
    <3>1. facts' = facts /\ Spent("faults")' = Spent("faults") + 1
      BY <2>0, <2>1, <2>3, <2>5, DestroyFails
    <3>2. Spent("faults") = 0
      BY <1>1, <2>0, <3>1, SlipsNat
    <3>3. "vmActive" \in facts => Past(t) <= 1
      <4>1. "vmActive" \in facts => Past(t) <= Spent("faults") \/ Past(t) <= Spent("faults") + 1
        BY <1>1, <2>0, <2>1, <2>3 DEF MalformedTryOf, InstallTryOf, Installs
      <4> QED BY <2>3, <3>2, <4>1 DEF Tries
    <3> QED BY <2>3, <3>1, <3>3 DEF Tries
  <2> QED BY <2>3, <2>4, <2>5
<1>2. Inv /\ [Next]_vars =>
        [\A t \in Alone :
            /\ Ends(t, {"create_vm", "create_vm_malformed"}, "failed")
            /\ Spent("moves") = 0 /\ Spent("faults")' <= 1
            => "vmActive" \notin facts']_vars
  BY <1>1
<1> QED BY <1>2, Invariance, PTL DEF Spec, FailedCreateStopped

\* An unplug that was alone and met no failure leaves no port of the switch, if
\* the ports that were bound before have their record.
THEOREM PortsAreReleased == Spec => PortReleased
<1>1. ASSUME Inv, [Next]_vars, NEW t \in Alone,
             Ends(t, {"unplug_nic", "unplug_nic_config"}, "done"),
             Spent("faults") + Spent("grumbles") = 0, Recorded
      PROVE  "port" \notin facts'
  <2>1. Shape /\ Exclusion /\ t \in Threads /\ PortFreeOf(t) /\ Slips = 0 /\ Recorded
    BY <1>1 DEF Inv, PortFree, Slips, Alone
  <2>2. /\ proc[t].cmd \in Unplugs /\ Running(t) /\ proc'[t].pc = "idle"
        /\ proc'[t].out = "done"
    BY <1>1 DEF Ends, Running, Unplugs
  <2>3. Finish(t) /\ proc[t].pc = "run"
    BY <1>1, <2>1, <2>2, Ending
  <2>4. Rest(t) = {} /\ facts' = facts
    BY <2>1, <2>3, FinishEffect
  <2> QED BY <2>1, <2>2, <2>3, <2>4 DEF PortFreeOf
<1>2. Inv /\ [Next]_vars =>
        [\A t \in Alone :
            /\ Ends(t, {"unplug_nic", "unplug_nic_config"}, "done")
            /\ Spent("faults") + Spent("grumbles") = 0
            /\ "port" \in origin => "switchCfg" \in origin
            => "port" \notin facts']_vars
  BY <1>1 DEF Recorded
<1> QED BY <1>2, Invariance, PTL DEF Spec, PortReleased
=============================================================================
