----------------------------- MODULE Virshplus -----------------------------
(***************************************************************************)
(* The commands of virshplus.py as virtctl's executor threads run them: an *)
(* attempt is a process that performs a queue of shell and libvirt         *)
(* operations and then reports to the API server; a failed attempt may run *)
(* a reverse queue, and the policy tries every command three times.        *)
(*                                                                         *)
(* One pool, one disk of it, one disk image, one VM with one NIC and one   *)
(* disk device, one switch.  What an operation leaves on the host or in    *)
(* the API server is a set of facts.  An operation fails when the facts do *)
(* not allow it, by a fault (nothing happened) or by a grumble (it did     *)
(* happen, but it wrote to stderr, which runCmd takes for a failure).      *)
(***************************************************************************)
EXTENDS Naturals, Sequences, FiniteSets

CONSTANTS
    Threads,     \* executor threads of virtctl, each with one command at most
    Scenarios,   \* pairs: facts a host starts with, commands that users post
    MaxCmds,     \* bound: commands posted in a behaviour
    MaxFaults,   \* bound: operations that fail without an effect
    MaxGrumbles, \* bound: operations that take effect but complain
    MaxOutages,  \* bound: reports the API server refuses for fifteen tries
    MaxMoves     \* bound: starts and stops by others

\* Tries of the policies: defaultPolicy.runCmd and cmdrpc.rpcCallWithResult.
Tries == 3

Facts ==
    {"poolDir", "poolDefined", "poolActive", "poolAuto", "poolContent",
     "diskDir", "diskImage", "diskConfig", "vmdiDir",
     "vmDefined", "vmActive", "statsPeriod",
     "nicLive", "nicConf", "nicXml", "port", "switchCfg", "ipCfg",
     "devLive", "devConf", "devXml", "vncLive", "vncConf", "guestPw",
     "poolObj", "poolReady", "diskObj", "diskReady", "vmdiObj", "vmObj",
     "netObj"}

\* Commands of main() with the flags and types that change what they do.
\* The misparsed ones unpack a tuple of the wrong length on their first line.
Misparsed == {"create_vmdi_from_disk", "create_disk_from_vmdi",
              "create_vmdi", "update_os"}

\* Parameters that the parsers of networks and disks refuse: no source, no
\* type, an unknown type, no target; for an unplug, no mac.
Malformed == {"create_vm_malformed", "plug_malformed"}

Commands == Misparsed \cup Malformed \cup
    {"create_pool", "create_pool_noauto", "delete_pool", "create_disk",
     "delete_disk", "delete_vmdi", "create_vm", "delete_vm",
     "plug_bridge", "plug_l3", "plug_l3_config", "unplug_nic",
     "unplug_nic_config", "plug_disk", "unplug_disk", "set_boot_order",
     "set_vnc_password", "unset_vnc_password", "set_guest_password",
     "delete_network"}

NoCmd == "none"

\* The object a command belongs to.
Resource(c) ==
    CASE c \in {"create_pool", "create_pool_noauto", "delete_pool"} -> "pool"
      [] c \in {"create_disk", "delete_disk", "create_disk_from_vmdi"} -> "disk"
      [] c \in {"delete_vmdi", "create_vmdi", "create_vmdi_from_disk"} -> "vmdi"
      [] c \in {"create_vm", "create_vm_malformed", "delete_vm"} -> "vm"
      [] c \in {"plug_bridge", "plug_l3", "plug_l3_config", "unplug_nic",
                "unplug_nic_config", "plug_malformed"} -> "nic"
      [] c \in {"plug_disk", "unplug_disk"} -> "dev"
      [] c \in {"set_boot_order"} -> "boot"
      [] c \in {"set_vnc_password", "unset_vnc_password"} -> "vnc"
      [] c \in {"set_guest_password", "update_os"} -> "guest"
      [] OTHER -> "net"

OfVm == {"vm", "nic", "dev", "boot", "vnc", "guest"}

-----------------------------------------------------------------------------
(* Operations.  when / unless: facts that decide whether the code performs   *)
(* the operation; needs / forbids: facts without / with which it fails.      *)

Op(when, unless, needs, forbids, adds, dels) ==
    [when |-> when, unless |-> unless, needs |-> needs,
     forbids |-> forbids, adds |-> adds, dels |-> dels]

Shell(needs, forbids, adds, dels) == Op({}, {}, needs, forbids, adds, dels)

PoolOp == [
    mkdirPool   |-> Shell({}, {}, {"poolDir"}, {}),
    defineAs    |-> Shell({}, {"poolDefined"}, {"poolDefined"}, {}),
    autostart   |-> Shell({"poolDefined"}, {}, {"poolAuto"}, {}),
    poolStart   |-> Shell({"poolDefined", "poolDir"}, {"poolActive"},
                          {"poolActive"}, {}),
    poolDestroy |-> Shell({"poolActive"}, {}, {}, {"poolActive"}),
    poolUndefine |-> Shell({"poolDefined"}, {"poolActive"}, {},
                           {"poolDefined", "poolAuto"}),
    writeContent |-> Shell({"poolDir"}, {}, {"poolContent"}, {}),
    \* del data['auto-start'] raises KeyError when the parameter was left out,
    \* that is, when the queue had no pool-autostart
    delAutoStart |-> Shell({"poolAuto"}, {}, {}, {})]

DiskOp == [
    mkdirDisk   |-> Shell({}, {}, {"diskDir"}, {}),
    qemuCreate  |-> Shell({"diskDir"}, {}, {"diskImage"}, {}),
    rmImage     |-> Shell({}, {}, {}, {"diskImage"}),
    rmDiskDir   |-> Shell({}, {}, {}, {"diskDir", "diskImage", "diskConfig"}),
    writeConfig |-> Shell({"diskDir"}, {}, {"diskConfig"}, {}),
    rmVmdiDir   |-> Shell({}, {}, {}, {"vmdiDir"})]

VmOp == [
    virtInstall |-> Shell({}, {"vmDefined", "vmActive"},
                          {"vmDefined", "vmActive"}, {}),
    startIfStopped |-> Op({"vmDefined"}, {"vmActive"}, {}, {}, {"vmActive"}, {}),
    dommemstat  |-> Shell({"vmDefined", "vmActive"}, {}, {"statsPeriod"}, {}),
    destroyIfActive |-> Op({"vmActive"}, {}, {}, {}, {}, {"vmActive"}),
    undefineVm  |-> Shell({"vmDefined"}, {}, {}, {"vmDefined", "statsPeriod",
                          "nicConf", "devConf", "vncConf"}),
    dumpXml     |-> Shell({}, {}, {}, {}),
    defineXml   |-> Shell({}, {}, {"vmDefined"}, {}),
    customize   |-> Shell({}, {}, {"guestPw"}, {})]

NicOp == [
    attachNic       |-> Shell({"vmDefined", "vmActive"}, {},
                              {"nicLive", "nicConf"}, {}),
    attachNicConfig |-> Shell({"vmDefined"}, {}, {"nicConf"}, {}),
    detachNic       |-> Shell({"vmActive", "nicLive", "nicConf"}, {}, {},
                              {"nicLive", "nicConf"}),
    detachNicConfig |-> Shell({"nicConf"}, {}, {}, {"nicConf"}),
    unbindPort      |-> Shell({"port"}, {}, {}, {"port"}),
    bindPort        |-> Shell({}, {"port"}, {"port"}, {}),
    echoSwitch      |-> Shell({}, {}, {"switchCfg"}, {"ipCfg"}),
    echoIp          |-> Shell({}, {}, {"ipCfg"}, {})]

DeviceOp == [
    attachDisk      |-> Shell({"vmDefined", "vmActive"}, {"devLive", "devConf"},
                              {"devLive", "devConf"}, {}),
    detachDisk      |-> Shell({"vmActive", "devLive", "devConf"}, {}, {},
                              {"devLive", "devConf"})]

\* update-device with the XML of a graphic, which has the password or has none.
GraphicOp == [
    setVnc          |-> Shell({"vmDefined", "vmActive"}, {},
                              {"vncLive", "vncConf"}, {}),
    unsetVnc        |-> Shell({"vmDefined", "vmActive"}, {}, {},
                              {"vncLive", "vncConf"})]

\* K8sHelper.update returns in silence when the object is gone; delete takes
\* Not Found for success; write_result_to_server 'delete' does the same.
ApiOp == [
    updatePool |-> Op({"poolObj"}, {}, {}, {}, {"poolReady"}, {}),
    updateDisk |-> Op({"diskObj"}, {}, {}, {}, {"diskReady"}, {}),
    deletePool |-> Op({}, {}, {}, {}, {}, {"poolObj", "poolReady"}),
    deleteDisk |-> Op({}, {}, {}, {}, {}, {"diskObj", "diskReady"}),
    deleteVm   |-> Op({}, {}, {}, {}, {}, {"vmObj"}),
    deleteNet  |-> Op({}, {}, {}, {}, {}, {"netObj"}),
    deleteVmdi |-> Op({}, {}, {}, {}, {}, {"vmdiObj"})]

OpNames == DOMAIN PoolOp \cup DOMAIN DiskOp \cup DOMAIN VmOp
           \cup DOMAIN NicOp \cup DOMAIN DeviceOp \cup DOMAIN GraphicOp
           \cup DOMAIN ApiOp

OpOf(o) ==
    CASE o \in DOMAIN PoolOp -> PoolOp[o]
      [] o \in DOMAIN DiskOp -> DiskOp[o]
      [] o \in DOMAIN VmOp -> VmOp[o]
      [] o \in DOMAIN NicOp -> NicOp[o]
      [] o \in DOMAIN DeviceOp -> DeviceOp[o]
      [] o \in DOMAIN GraphicOp -> GraphicOp[o]
      [] OTHER -> ApiOp[o]

\* The commands whose stderr runCmd reads; the others are calls of Python.
Silent == {"writeContent", "delAutoStart", "writeConfig", "startIfStopped",
           "destroyIfActive"} \cup DOMAIN ApiOp
-----------------------------------------------------------------------------
VARIABLES
    facts,    \* what the host and the API server hold
    tmpXml,   \* devices of /tmp/<vm>.xml, written by set_boot_order
    proc,     \* what every executor thread runs
    mix,      \* the commands posted in this behaviour
    origin,   \* history: the facts the host started with
    crossed,  \* history: threads whose command met another one of its object
    left      \* what is left of every bound

vars == <<facts, tmpXml, proc, mix, origin, crossed, left>>

Budgets == {"cmds", "faults", "grumbles", "outages", "moves"}

Full == [cmds |-> MaxCmds, faults |-> MaxFaults, grumbles |-> MaxGrumbles,
         outages |-> MaxOutages, moves |-> MaxMoves]

Spend(b) == left[b] > 0 /\ left' = [left EXCEPT ![b] = @ - 1]

Idle == [cmd |-> NoCmd, pc |-> "idle", todo |-> <<>>, tries |-> 0, out |-> "none"]

\* The users post commands of main(), the bounds are numbers, and a host
\* starts with facts.
ASSUME VirshplusAssumption ==
    /\ Scenarios \subseteq (SUBSET Facts) \X (SUBSET Commands)
    /\ \A b \in Budgets : Full[b] \in Nat

Init ==
    /\ \E s \in Scenarios : origin = s[1] /\ mix = s[2]
    /\ facts = origin
    /\ crossed = {}
    /\ tmpXml = {}
    /\ proc = [t \in Threads |-> Idle]
    /\ left = Full

-----------------------------------------------------------------------------
(* The queue of a command.                                                   *)

\* A dead VM has no port to bind; an installed one runs when its NIC is plugged.
L3Queue(attach, live) ==
    <<attach>> \o (IF live THEN <<"unbindPort", "bindPort">> ELSE <<>>)
               \o <<"echoSwitch", "echoIp">>

\* Mutant: the recorded switch is not looked up.
UnplugNoLookup(detach) == <<detach>>

UnplugQueue(detach) ==
    (IF "switchCfg" \in facts THEN <<"unbindPort">> ELSE <<>>) \o <<detach>>

\* The XML of the domain as it runs is edited and defined.
BootQueue == <<"dumpXml", "defineXml">>

Queue(c) ==
    CASE c = "create_pool" -> <<"mkdirPool", "defineAs", "autostart",
                "poolStart", "writeContent", "delAutoStart", "updatePool">>
      [] c = "create_pool_noauto" -> <<"mkdirPool", "defineAs",
                "poolStart", "writeContent", "delAutoStart", "updatePool">>
      [] c = "delete_pool" -> <<"poolDestroy", "poolUndefine", "deletePool">>
      [] c = "create_disk" -> <<"mkdirDisk", "qemuCreate", "writeConfig",
                                "updateDisk">>
      [] c = "delete_disk" -> <<"rmDiskDir", "deleteDisk">>
      [] c = "delete_vmdi" -> <<"rmVmdiDir", "deleteVmdi">>
      [] c = "create_vm" -> <<"virtInstall", "startIfStopped", "dommemstat">>
                            \o L3Queue("attachNic", TRUE)
      [] c = "delete_vm" -> <<"destroyIfActive", "undefineVm", "deleteVm">>
      [] c = "plug_bridge" -> <<"attachNic">>
      [] c = "plug_l3" -> L3Queue("attachNic", "vmActive" \in facts)
      [] c = "plug_l3_config" -> L3Queue("attachNicConfig", "vmActive" \in facts)
      [] c = "unplug_nic" -> UnplugQueue("detachNic")
      [] c = "unplug_nic_config" -> UnplugQueue("detachNicConfig")
      [] c = "plug_disk" -> <<"attachDisk">>
      [] c = "unplug_disk" -> <<"detachDisk">>
      [] c = "set_boot_order" -> BootQueue
      [] c = "set_vnc_password" -> <<"setVnc">>
      [] c = "unset_vnc_password" -> <<"unsetVnc">>
      [] c = "set_guest_password" -> <<"customize">>
      [] OTHER -> <<"deleteNet">>

\* What a command checks before its queue: the url in the pool's object, a
\* free disk path, the pool's path, the domain and its devices, and, for an
\* unplug, the XML file whose absence makes the detach command a TypeError.
MayRun(c) ==
    CASE c \in Misparsed \cup Malformed -> FALSE
      [] c = "create_disk" -> /\ {"poolReady", "poolDir"} \subseteq facts
                              /\ "diskDir" \notin facts
      [] c = "delete_disk" -> {"poolReady", "poolDir"} \subseteq facts
      [] c = "delete_vmdi" -> "poolDefined" \in facts
      [] c \in {"unplug_nic", "unplug_nic_config"} -> "nicXml" \in facts
      [] c \in {"set_boot_order", "set_guest_password", "plug_l3",
                "plug_l3_config"} -> {"vmDefined", "vmActive"} \cap facts # {}
      [] OTHER -> TRUE

\* The device XML is written while the queue is put together.
Written(c) ==
    CASE c \in {"create_vm", "plug_bridge", "plug_l3", "plug_l3_config"}
            -> {"nicXml"}
      [] c = "plug_disk" -> {"devXml"}
      [] OTHER -> {}

\* Mutant: delete_pool leaves what a failure left.
RollbackNoStart(c, o) == IF c = "create_vm" THEN <<"destroyIfActive">> ELSE <<>>

\* Mutant: create_and_start_vm_from_iso does.
RollbackNoDestroy(c, o) == IF c = "delete_pool" THEN <<"poolStart">> ELSE <<>>

\* The reverse queue of a command that failed in operation o.  The parser is
\* inside the try of create_and_start_vm_from_iso.
Rollback(c, o) ==
    CASE /\ c \in {"create_pool", "create_pool_noauto"}
         /\ o \in {"mkdirPool", "defineAs", "autostart", "poolStart"}
            -> <<"poolDestroy", "poolUndefine">>
      [] c = "delete_pool" /\ o \in {"poolDestroy", "poolUndefine"}
            -> <<"poolStart">>
      [] c = "create_disk" /\ o \in {"mkdirDisk", "qemuCreate"} -> <<"rmImage">>
      [] c \in {"create_vm", "create_vm_malformed"} -> <<"destroyIfActive">>
      [] OTHER -> <<>>

\* Mutant: delete_vm does not ask whether the domain is gone.
ToleratesUndefine(c, o, f) ==
    \/ o = "unbindPort"
    \/ c = "delete_vm" /\ o = "undefineVm"

\* Mutant: create_disk runs qemu-img with raise_it = False.
ToleratesQemu(c, o, f) == o \in {"qemuCreate", "unbindPort"}

\* delete_vm goes on when the domain is gone, and nobody asks how an
\* unbind-swport ended.
Tolerates(c, o, f) ==
    \/ o = "unbindPort"
    \/ c = "delete_vm" /\ o = "undefineVm" /\ {"vmDefined", "vmActive"} \cap f = {}

-----------------------------------------------------------------------------
(* The effect of an operation.                                               *)

Skipped(o) == ~ (OpOf(o).when \subseteq facts /\ OpOf(o).unless \cap facts = {})

Allowed(o) == OpOf(o).needs \subseteq facts /\ OpOf(o).forbids \cap facts = {}

\* A domain that starts gets its persistent devices, one that stops loses the
\* live ones; virsh dumpxml shows the live ones of a running domain, and it
\* never shows a password.
Live == {"nicLive", "devLive", "vncLive"}
AsConf(f) == (IF "nicLive" \in f THEN {"nicConf"} ELSE {})
             \cup (IF "devLive" \in f THEN {"devConf"} ELSE {})
AsLive(f) == (IF "nicConf" \in f THEN {"nicLive"} ELSE {})
             \cup (IF "devConf" \in f THEN {"devLive"} ELSE {})
             \cup (IF "vncConf" \in f THEN {"vncLive"} ELSE {})
Dumped(f) == IF "vmActive" \in f THEN AsConf(f) ELSE f \cap {"nicConf", "devConf"}
Started(f) == f \cup {"vmActive"} \cup AsLive(f)
Stopped(f) == f \ ({"vmActive"} \cup Live)

After(o) ==
    CASE o = "startIfStopped" -> Started(facts)
      [] o = "destroyIfActive" -> Stopped(facts)
      [] o = "defineXml" -> (facts \ {"nicConf", "devConf", "vncConf"})
                            \cup {"vmDefined"} \cup tmpXml
      [] OTHER -> (facts \ OpOf(o).dels) \cup OpOf(o).adds

Perform(o) ==
    /\ facts' = IF Skipped(o) THEN facts ELSE After(o)
    /\ tmpXml' = IF o = "dumpXml" THEN Dumped(facts) ELSE tmpXml

Nothing == UNCHANGED <<facts, tmpXml>>

-----------------------------------------------------------------------------
(* A command's attempts.                                                     *)

\* Commands of one object, and a creation or deletion of a VM with any other
\* command of it.  virtctl runs them side by side, each on a thread of its own:
\* the mutexes it declares for them are never taken.
Conflict(r, s) == r = s \/ ("vm" \in {r, s} /\ {r, s} \subseteq OfVm)

Rivals(t, c) ==
    {u \in Threads \ {t} :
        proc[u].pc # "idle" /\ Conflict(Resource(c), Resource(proc[u].cmd))}

\* A command that thread t begins meets those that are at work on its object.
Meet(t, c) ==
    crossed' = IF Rivals(t, c) = {} THEN crossed \ {t}
               ELSE crossed \cup {t} \cup Rivals(t, c)

\* A user creates the object together with the command that makes it.
Posted(c) ==
    CASE c \in {"create_pool", "create_pool_noauto"} -> {"poolObj"}
      [] c = "create_disk" -> {"diskObj"}
      [] c \in {"create_vm", "create_vm_malformed"} -> {"vmObj"}
      [] OTHER -> {}

Post(t, c) ==
    /\ proc[t].pc = "idle"
    /\ c \in mix
    /\ Meet(t, c)
    /\ Spend("cmds")
    /\ proc' = [proc EXCEPT ![t] = [cmd |-> c, pc |-> "start", todo |-> <<>>,
                                    tries |-> Tries, out |-> "none"]]
    /\ facts' = facts \cup Posted(c)
    /\ UNCHANGED <<tmpXml, mix, origin>>

\* Mutant: the last try is tried again.
RetryMore(t) ==
    LET p == proc[t]
    IN proc' = [proc EXCEPT ![t] = [p EXCEPT !.pc = "start", !.todo = <<>>,
                                             !.tries = p.tries - 1]]

\* runCmd of the policy: the next try, or the end of the command.
Retry(t) ==
    LET p == proc[t]
    IN proc' = [proc EXCEPT ![t] =
          IF p.tries = 1
          THEN [p EXCEPT !.pc = "idle", !.todo = <<>>, !.out = "failed"]
          ELSE [p EXCEPT !.pc = "start", !.todo = <<>>, !.tries = p.tries - 1]]

Advance(t) == proc' = [proc EXCEPT ![t].todo = Tail(proc[t].todo)]

\* The reverse queue, if the command has one, or the next try.
Undo(t, o) ==
    LET r == Rollback(proc[t].cmd, o)
    IN IF r = <<>> THEN Retry(t)
       ELSE proc' = [proc EXCEPT ![t] = [@ EXCEPT !.pc = "undo", !.todo = r]]

Prepare(t) ==
    /\ proc[t].pc = "start"
    /\ LET c == proc[t].cmd
       IN \/ /\ MayRun(c)
             /\ facts' = facts \cup Written(c)
             /\ proc' = [proc EXCEPT ![t] = [@ EXCEPT !.pc = "run",
                                                      !.todo = Queue(c)]]
          \/ /\ ~ MayRun(c)
             /\ Undo(t, "checks")
             /\ UNCHANGED facts
    /\ UNCHANGED <<tmpXml, mix, origin, crossed, left>>

\* The attempt failed in operation o.
Fail(t, o) ==
    IF Tolerates(proc[t].cmd, o, facts') THEN Advance(t) ELSE Undo(t, o)

\* A reverse operation that fails ends the reverse queue with its exception.
Abort(t) == Retry(t)

Do(t) ==
    /\ proc[t].pc \in {"run", "undo"}
    /\ proc[t].todo # <<>>
    /\ LET o == Head(proc[t].todo)
       IN (Skipped(o) \/ Allowed(o)) /\ Perform(o)
    /\ Advance(t)
    /\ UNCHANGED <<mix, origin, crossed, left>>

\* The operation fails: refused in this state, by a fault, or by a report that
\* the API server refuses; a NIC with a MAC that is in use may be refused.
Refused(o) ==
    /\ ~ Skipped(o)
    /\ \/ ~ Allowed(o)
       \/ o = "attachNic" /\ {"nicLive", "nicConf"} \cap facts # {}
       \/ o = "attachNicConfig" /\ "nicConf" \in facts

Err(t) ==
    /\ proc[t].pc \in {"run", "undo"}
    /\ proc[t].todo # <<>>
    /\ LET o == Head(proc[t].todo)
       IN /\ ~ Skipped(o)
          /\ \/ Refused(o) /\ Nothing /\ UNCHANGED left
             \/ /\ o \notin DOMAIN ApiOp \cup {"delAutoStart"}
                /\ Spend("faults") /\ Nothing
             \/ o \in DOMAIN ApiOp /\ Spend("outages") /\ Nothing
             \/ o \notin Silent /\ Allowed(o) /\ Spend("grumbles") /\ Perform(o)
          /\ IF proc[t].pc = "run" THEN Fail(t, o) ELSE Abort(t)
    /\ UNCHANGED <<mix, origin, crossed>>

\* The end of a queue: of the command, or of the reverse queue, after which
\* the exception is raised again.
Finish(t) ==
    /\ proc[t].todo = <<>>
    /\ \/ /\ proc[t].pc = "run"
          /\ proc' = [proc EXCEPT ![t] = [@ EXCEPT !.pc = "idle", !.out = "done"]]
       \/ /\ proc[t].pc = "undo"
          /\ Retry(t)
    /\ UNCHANGED <<facts, tmpXml, mix, origin, crossed, left>>

-----------------------------------------------------------------------------
(* The others: users, guests, libvirtwatcher's HA start, kubesds-adm.        *)

\* The threads that are at work on the pool.
AtPool == {t \in Threads : proc[t].pc # "idle" /\ Resource(proc[t].cmd) = "pool"}

Others ==
    /\ Spend("moves")
    /\ \/ /\ "vmDefined" \in facts /\ "vmActive" \notin facts
          /\ facts' = Started(facts)
          /\ UNCHANGED crossed
       \/ /\ "vmActive" \in facts
          /\ facts' = Stopped(facts)
          /\ UNCHANGED crossed
       \/ /\ "poolActive" \in facts
          /\ facts' = facts \ {"poolActive"}
          /\ crossed' = crossed \cup AtPool
    /\ UNCHANGED <<tmpXml, proc, mix, origin>>

Next ==
    \/ \E t \in Threads :
          \/ \E c \in mix : Post(t, c)
          \/ Prepare(t)
          \/ Do(t)
          \/ Err(t)
          \/ Finish(t)
    \/ Others

Spec == Init /\ [][Next]_vars
-----------------------------------------------------------------------------
(* Properties.                                                               *)

\* The state is well formed.
TypeOK ==
    /\ facts \subseteq Facts
    /\ tmpXml \subseteq {"nicConf", "devConf"}
    /\ proc \in [Threads -> [cmd: Commands \cup {NoCmd},
                            pc: {"idle", "start", "run", "undo"},
                            todo: Seq(OpNames), tries: 0 .. Tries,
                            out: {"none", "done", "failed"}]]
    /\ mix \subseteq Commands
    /\ origin \subseteq Facts
    /\ crossed \subseteq Threads
    /\ left \in [Budgets -> Nat]

Spent(b) == Full[b] - left[b]

\* Threads whose command has had its object for itself.  What follows is about
\* the steps of these: two commands of one object that overlap may undo each
\* other's work in any order, and nothing in the code prevents it.
Alone == Threads \ crossed

\* Thread t performs an operation in this step.
Moves(t) == proc'[t] # proc[t]

\* Thread t's command, one of cs, ends in this step with outcome o.
Ends(t, cs, o) ==
    /\ proc[t].cmd \in cs
    /\ proc[t].pc # "idle" /\ proc'[t].pc = "idle"
    /\ proc'[t].out = o

\* What must be gone before the object is.
Resources == [poolObj |-> {"poolDefined", "poolActive"},
              diskObj |-> {"diskDir", "diskImage", "diskConfig"},
              vmdiObj |-> {"vmdiDir"}, vmObj |-> {"vmDefined"}]

\* delete_pool, delete_disk, delete_vmdi and delete_vm delete the object only
\* when the resource is gone from the host, whatever failed, was tried again or
\* was rolled back before: an object is the only handle a user has on it.  (Not
\* when another command of the object ran meanwhile: a create_vm in its third
\* try may install the domain between the undefine and the deletion.)
DeletedLast ==
    [][\A t \in Alone, o \in DOMAIN Resources :
          Moves(t) /\ o \in facts /\ o \notin facts'
             => Resources[o] \cap facts' = {}]_vars

\* What must be there before the object says so.
Complete == [poolReady |-> {"poolDir", "poolDefined", "poolActive", "poolContent"},
             diskReady |-> {"diskDir", "diskImage", "diskConfig"}]

\* create_pool and create_disk report Ready only for a complete resource, also
\* in a second or third try and next to the commands of other objects.
ReadyLast ==
    [][\A t \in Alone, o \in DOMAIN Complete :
          Moves(t) /\ o \notin facts /\ o \in facts'
             => Complete[o] \subseteq facts']_vars

\* delete_pool of a pool that is not active fails in pool-destroy; its reverse
\* queue starts the pool, and so the next try succeeds: with at most one other
\* failure a delete_pool that nobody disturbs (no other command of the pool,
\* no stop of it by others) never gives up on a pool that is still defined.
PoolGone ==
    [][\A t \in Alone :
          /\ Ends(t, {"delete_pool"}, "failed")
          /\ Spent("faults") + Spent("grumbles") <= 1
          /\ "poolDir" \in facts
          => "poolDefined" \notin facts']_vars

\* A create_and_start_vm_from_iso that failed leaves no running domain behind,
\* although its handler ignores a destroy that fails: the later tries find the
\* domain and destroy it again.  (No other command of the VM overlaps, nobody
\* else starts or stops the domain, and at most one operation fails by itself,
\* this last one included: with two faults a domain that ran undefined when the
\* command was posted survives.)
FailedCreateStopped ==
    [][\A t \in Alone :
          /\ Ends(t, {"create_vm", "create_vm_malformed"}, "failed")
          /\ Spent("moves") = 0 /\ Spent("faults")' <= 1
          => "vmActive" \notin facts']_vars

\* An unplug that runs by itself gives the switch port back, whether the port
\* was bound by plug_nic or at the installation, also by commands that had
\* overlapped before, and whether the VM was stopped and started in between, if
\* no operation failed by itself.  (A port that was bound before the behaviour
\* and whose record is missing stays: unplug_nic does not know its switch.)
PortReleased ==
    [][\A t \in Alone :
          /\ Ends(t, {"unplug_nic", "unplug_nic_config"}, "done")
          /\ Spent("faults") + Spent("grumbles") = 0
          /\ "port" \in origin => "switchCfg" \in origin
          => "port" \notin facts']_vars
=============================================================================
