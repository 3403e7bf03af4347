---------------------------- MODULE HostReporter ----------------------------
(***************************************************************************)
(* virtlet's host reporter, one per host (core/virtlet/services/           *)
(* host_reporter.py), with the libvirt of its host (core/utils/            *)
(* libvirt_util.py) and the VM objects of the cluster.  After a start, and *)
(* after three failed turns in a row, a turn goes over all domains of the  *)
(* host: it removes those that belong elsewhere, starts those with the ha  *)
(* label and writes the power state back.  Every turn then reports the     *)
(* node, and the first one that gets there gives the node its HA back.     *)
(*                                                                         *)
(* One action per request and per libvirt call that reads or changes       *)
(* state.  The retries of the requests are inside the actions: a request   *)
(* that fails here has failed in all its tries.                            *)
(***************************************************************************)
EXTENDS Naturals, FiniteSets

CONSTANTS
  Hosts,
  Reporters,   \* the hosts whose reporter is followed; the others are peers
  Vms,
  Unknown,     \* the host label 'UNKNOWN'
  HaVms,       \* the VMs with the ha label
  NMasters,    \* Kubernetes masters in the list of get_master_ips
  MaxFaults,   \* bound on the requests and libvirt calls that fail
  MaxCuts,     \* bound on the times a host loses the masters
  MaxBoots,    \* bound on the crashes of hosts and restarts of virtlet
  MaxChanges   \* bound on the steps of users, guests and the cluster

ASSUME ReporterAssumption ==
  /\ Unknown \notin Hosts
  /\ Reporters \subseteq Hosts
  /\ Vms # {} /\ HaVms \subseteq Vms
  /\ NMasters \in Nat \ {0}
  /\ MaxFaults \in Nat /\ MaxCuts \in Nat /\ MaxBoots \in Nat /\ MaxChanges \in Nat

VARIABLES
  obj,      \* the VM objects
  dom,      \* the domains of each host
  ver,      \* the state changes of each domain so far
  pc,       \* the next step of each reporter
  haCheck,  \* ha_check: the turn goes over the domains
  haEnable, \* ha_enable: the turn removes the label nodeHA
  fails,    \* fail_times
  todo,     \* the domains the turn has yet to go over
  cur,      \* the domain under check
  snap,     \* the version of the object that the power check read
  seen,     \* the state of the domain that the power check read
  nodeHA,   \* the label nodeHA=disable of each node
  master,   \* the master in each host's kubeconfig
  reach,    \* the masters each host can reach
  missed,   \* history: domains whose owner the last check failed to enforce
  skipped,  \* history: domains whose HA check failed in the last check
  due,      \* history: since the last check began, virtlet was started or a
            \* third turn in a row failed
  moved,    \* history: VMs moved since the last check began while none was due
  bounds    \* faults, cuts, boots and changes so far

objVars  == <<obj, dom, ver>>
repVars  == <<pc, haCheck, haEnable, fails, todo, cur, snap, seen>>
nodeVars == <<nodeHA, master, reach>>
history  == <<missed, skipped, due, moved>>
vars     == <<objVars, repVars, nodeVars, history, bounds>>

Masters == 0 .. NMasters - 1

Steps == {"top", "next", "owner", "backup", "active", "destroy", "undefine",
          "ha", "start", "powerGet", "powerRead", "powerPut", "status",
          "enable", "conn", "down", "dead", "peer"}

\* cold: defined, and not started since the host came up.
DomState == {"none", "cold", "off", "on"}

Object == [exists : BOOLEAN, host : Hosts \cup {Unknown}, rv : Nat,
           by : Hosts \cup {Unknown}, seq : Nat]

Alive(h)     == pc[h] \notin {"down", "dead", "peer"}
\* The object names another host.
Foreign(h, v) == obj[v].exists /\ obj[v].host \notin {h, Unknown}
Connected(h) == master[h] \in reach[h]

Bounded == {"faults", "cuts", "boots", "changes"}

\* No domain runs yet; a host may still have domains that were moved away.
Init ==
  /\ obj \in [Vms -> [exists : {TRUE}, host : Hosts \cup {Unknown}, rv : {0},
                       by : {Unknown}, seq : {0}]]
  /\ dom \in [Hosts -> [Vms -> {"none", "cold"}]]
  /\ \A h \in Hosts, v \in Vms :
       IF obj[v].host = h THEN dom[h][v] = "cold"
       ELSE h \notin Reporters => dom[h][v] = "none"
  /\ ver = [h \in Hosts |-> [v \in Vms |-> 0]]
  /\ pc = [h \in Hosts |-> IF h \in Reporters THEN "top" ELSE "peer"]
  /\ haCheck = [h \in Hosts |-> TRUE]
  /\ haEnable = [h \in Hosts |-> TRUE]
  /\ fails = [h \in Hosts |-> 0]
  /\ todo = [h \in Hosts |-> {}]
  /\ cur = [h \in Hosts |-> CHOOSE v \in Vms : TRUE]
  /\ snap = [h \in Hosts |-> 0]
  /\ seen = [h \in Hosts |-> 0]
  /\ nodeHA = [h \in Hosts |-> FALSE]
  /\ master = [h \in Hosts |-> 0]
  /\ reach = [h \in Hosts |-> Masters]
  /\ missed = [h \in Hosts |-> {}]
  /\ skipped = [h \in Hosts |-> {}]
  /\ due = [h \in Hosts |-> TRUE]
  /\ moved = [h \in Hosts |-> {}]
  /\ bounds = [k \in Bounded |-> 0]

-----------------------------------------------------------------------------
(* Failures *)

\* One more of a bounded kind of event.
Spend(kind, max) ==
  /\ bounds[kind] < max
  /\ bounds' = [bounds EXCEPT ![kind] = @ + 1]

\* A request of the host succeeds, or fails: always when its master is out of
\* reach, else by a fault.
Reached(h) == Connected(h) /\ UNCHANGED bounds
Refused(h) == \/ ~Connected(h) /\ UNCHANGED bounds
              \/ Spend("faults", MaxFaults)

\* A libvirt call fails although the domain allows it.
LibvirtFails == Spend("faults", MaxFaults)

Goto(h, label) == pc' = [pc EXCEPT ![h] = label]

\* fail_times only matters up to 3 and modulo the number of masters.
Bump(k) == IF k + 1 = 3 + NMasters THEN 3 ELSE k + 1

\* Mutant of NextMaster: the step over the current master leaves the list.
NextMasterBeyond(current, count) ==
  LET m == count % NMasters IN
  IF m = current THEN m + 1 ELSE m

\* change_master_and_reload_config: the master for this count, or the one after
\* it when that is the current one.
NextMaster(current, count) ==
  LET m == count % NMasters IN
  IF m = current THEN (count + 1) % NMasters ELSE m

\* Mutant of FailedTurn: fail_times does not bring the check back.
FailedTurnNoCheck(h, network) ==
  \/ /\ Goto(h, "top")
     /\ UNCHANGED haCheck
     /\ IF network
        THEN /\ master' = [master EXCEPT ![h] = NextMaster(@, fails[h])]
             /\ fails' = [fails EXCEPT ![h] = Bump(@)]
             /\ due' = [due EXCEPT ![h] = @ \/ fails[h] + 1 >= 3]
        ELSE UNCHANGED <<master, fails, due>>
  \/ /\ Goto(h, "dead")
     /\ UNCHANGED <<haCheck, master, fails, due>>

\* The handler of main: an exception that names the network changes the master,
\* counts the turn and brings the check back with the third one; the others
\* only start the next turn.  An exception of the handler itself (sed on the
\* kubeconfig, docker stop) is not caught and ends the thread.
FailedTurn(h, network) ==
  \/ /\ Goto(h, "top")
     /\ IF network
        THEN /\ master' = [master EXCEPT ![h] = NextMaster(@, fails[h])]
             /\ fails' = [fails EXCEPT ![h] = Bump(@)]
             /\ haCheck' = [haCheck EXCEPT ![h] = @ \/ fails[h] + 1 >= 3]
             /\ due' = [due EXCEPT ![h] = @ \/ fails[h] + 1 >= 3]
        ELSE UNCHANGED <<master, fails, haCheck, due>>
  \/ /\ Goto(h, "dead")
     /\ UNCHANGED <<haCheck, master, fails, due>>

-----------------------------------------------------------------------------
(* A turn of the reporter *)

\* HostCycler puts the status of the node together.  What libvirt does not tell
\* becomes 0, but a shell command of get_status_node_info that fails ends the
\* turn, with a text that names no network; a request may fail that way as well.
NodeStatusFails(h) == Spend("faults", MaxFaults) /\ FailedTurn(h, FALSE)

\* The turn reads the node and the domains of the host; without ha_check it
\* goes straight on to the report of the node.  A master out of reach is always a
\* failure of the network, what else fails may or may not count as one.
Top(h) ==
  /\ pc[h] = "top"
  /\ \/ /\ Reached(h)
        /\ IF haCheck[h]
           THEN /\ Goto(h, "next")
                /\ todo' = [todo EXCEPT ![h] = {v \in Vms : dom[h][v] # "none"}]
                /\ missed' = [missed EXCEPT ![h] = {}]
                /\ skipped' = [skipped EXCEPT ![h] = {}]
                /\ due' = [due EXCEPT ![h] = FALSE]
                /\ moved' = [moved EXCEPT ![h] = {}]
           ELSE Goto(h, "status") /\ UNCHANGED <<todo, history>>
        /\ UNCHANGED <<haCheck, fails, master>>
     \/ /\ \/ ~Connected(h) /\ UNCHANGED bounds /\ FailedTurn(h, TRUE)
           \/ Spend("faults", MaxFaults) /\ FailedTurn(h, TRUE)
           \/ NodeStatusFails(h)
        /\ UNCHANGED <<todo, missed, skipped, moved>>
  /\ UNCHANGED <<objVars, haEnable, cur, snap, seen, nodeHA, reach>>

\* The next domain of the list, or the end of the check.
NextVm(h) ==
  /\ pc[h] = "next"
  /\ \/ /\ todo[h] = {}
        /\ haCheck' = [haCheck EXCEPT ![h] = FALSE]
        /\ Goto(h, "status")
        /\ UNCHANGED <<todo, cur>>
     \/ /\ \E v \in todo[h] :
             /\ cur' = [cur EXCEPT ![h] = v]
             /\ todo' = [todo EXCEPT ![h] = @ \ {v}]
        /\ Goto(h, "owner")
        /\ UNCHANGED haCheck
  /\ UNCHANGED <<objVars, haEnable, fails, snap, seen, nodeVars, history, bounds>>

\* Every exception of _check_vm_by_hosting_node is swallowed; the HA check
\* comes next all the same.
OwnerMissed(h) ==
  /\ missed' = [missed EXCEPT ![h] = @ \cup {cur[h]}]
  /\ Goto(h, "ha")

\* _check_vm_by_hosting_node reads the label host of the object.
CheckOwner(h) ==
  LET o == obj[cur[h]] IN
  /\ pc[h] = "owner"
  /\ \/ /\ Reached(h)
        /\ Goto(h, IF ~o.exists THEN "active"
                   ELSE IF o.host \in {h, Unknown} THEN "ha" ELSE "backup")
        /\ UNCHANGED missed
     \/ Refused(h) /\ OwnerMissed(h)
  /\ UNCHANGED <<objVars, haCheck, haEnable, fails, todo, cur, snap, seen,
                 nodeVars, skipped, due, moved>>

\* _backup_json_to_file reads the object once more; a deleted one is no error.
Backup(h) ==
  /\ pc[h] = "backup"
  /\ \/ Reached(h) /\ Goto(h, "active") /\ UNCHANGED missed
     \/ Refused(h) /\ OwnerMissed(h)
  /\ UNCHANGED <<objVars, haCheck, haEnable, fails, todo, cur, snap, seen,
                 nodeVars, skipped, due, moved>>

\* is_vm_exists and is_vm_active.
LookUp(h) ==
  LET d == dom[h][cur[h]] IN
  /\ pc[h] = "active"
  /\ \/ /\ Goto(h, IF d = "none" THEN "ha"
                   ELSE IF d = "on" THEN "destroy" ELSE "undefine")
        /\ UNCHANGED <<missed, bounds>>
     \/ LibvirtFails /\ OwnerMissed(h)
  /\ UNCHANGED <<objVars, haCheck, haEnable, fails, todo, cur, snap, seen,
                 nodeVars, skipped, due, moved>>

\* The table f with the value x for the domain v of host h.
At(f, h, v, x) == [f EXCEPT ![h] = [f[h] EXCEPT ![v] = x]]

\* The domain v of host h changes to state s.
SetDom(h, v, s) ==
  /\ dom' = At(dom, h, v, s)
  /\ ver' = At(ver, h, v, ver[h][v] + 1)
  /\ UNCHANGED obj

\* _destroy_vm_retries: five tries; destroy of a domain that does not run fails.
DestroyVm(h) ==
  /\ pc[h] = "destroy"
  /\ \/ /\ dom[h][cur[h]] = "on"
        /\ SetDom(h, cur[h], "off")
        /\ Goto(h, "undefine")
        /\ UNCHANGED <<missed, bounds>>
     \/ /\ dom[h][cur[h]] # "on"
        /\ OwnerMissed(h)
        /\ UNCHANGED <<objVars, bounds>>
     \/ LibvirtFails /\ OwnerMissed(h) /\ UNCHANGED objVars
  /\ UNCHANGED <<haCheck, haEnable, fails, todo, cur, snap, seen, nodeVars, skipped, due, moved>>

\* undefine: a domain that runs again goes on running without its definition.
UndefineVm(h) ==
  LET d == dom[h][cur[h]] IN
  /\ pc[h] = "undefine"
  /\ \/ /\ d \in {"cold", "off"}
        /\ SetDom(h, cur[h], "none")
        /\ Goto(h, "ha")
        /\ UNCHANGED <<missed, bounds>>
     \/ /\ d = "on"
        /\ Goto(h, "ha")
        /\ UNCHANGED <<objVars, missed, bounds>>
     \/ d = "none" /\ OwnerMissed(h) /\ UNCHANGED <<objVars, bounds>>
     \/ LibvirtFails /\ OwnerMissed(h) /\ UNCHANGED objVars
  /\ UNCHANGED <<haCheck, haEnable, fails, todo, cur, snap, seen, nodeVars, skipped, due, moved>>

HaSkipped(h) ==
  /\ skipped' = [skipped EXCEPT ![h] = @ \cup {cur[h]}]
  /\ Goto(h, "powerGet")

\* _check_ha_and_autostart_vm: the label ha of the object decides, whatever the
\* label host says; an exception is swallowed.
CheckHa(h) ==
  LET v == cur[h] IN
  /\ pc[h] = "ha"
  /\ \/ /\ Reached(h)
        /\ Goto(h, IF obj[v].exists /\ v \in HaVms /\ dom[h][v] \in {"cold", "off"}
                   THEN "start" ELSE "powerGet")
        /\ UNCHANGED skipped
     \/ Refused(h) /\ HaSkipped(h)
     \/ LibvirtFails /\ HaSkipped(h)
  /\ UNCHANGED <<objVars, haCheck, haEnable, fails, todo, cur, snap, seen,
                 nodeVars, missed, due, moved>>

\* start fails for a domain that runs or is gone.
StartVm(h) ==
  LET d == dom[h][cur[h]] IN
  /\ pc[h] = "start"
  /\ \/ /\ d \in {"cold", "off"}
        /\ SetDom(h, cur[h], "on")
        /\ Goto(h, "powerGet")
        /\ UNCHANGED <<skipped, bounds>>
     \/ d \in {"none", "on"} /\ HaSkipped(h) /\ UNCHANGED <<objVars, bounds>>
     \/ LibvirtFails /\ HaSkipped(h) /\ UNCHANGED objVars
  /\ UNCHANGED <<haCheck, haEnable, fails, todo, cur, snap, seen, nodeVars, missed, due, moved>>

\* _check_vm_power_state, the read of the object.  Nothing is written when it is
\* gone or could not be read; after an error of the API server that is not 404 the
\* code goes on without the object, which ends the turn if the domain exists.
PowerGet(h) ==
  /\ pc[h] = "powerGet"
  /\ \/ /\ Reached(h)
        /\ IF obj[cur[h]].exists
           THEN Goto(h, "powerRead") /\ snap' = [snap EXCEPT ![h] = obj[cur[h]].rv]
           ELSE Goto(h, "next") /\ UNCHANGED snap
        /\ UNCHANGED <<haCheck, fails, master, due>>
     \/ /\ Refused(h)
        /\ Goto(h, "next")
        /\ UNCHANGED <<snap, haCheck, fails, master, due>>
     \/ /\ Spend("faults", MaxFaults)
        /\ dom[h][cur[h]] # "none"
        /\ FailedTurn(h, FALSE)
        /\ UNCHANGED snap
  /\ UNCHANGED <<objVars, haEnable, todo, cur, seen, nodeHA, reach, missed,
                 skipped, moved>>

\* The read of the domain.  Its exceptions are not caught here: the turn fails
\* and the next one goes over all domains again.
PowerRead(h) ==
  /\ pc[h] = "powerRead"
  /\ \/ /\ IF dom[h][cur[h]] = "none"
           THEN Goto(h, "next") /\ UNCHANGED seen
           ELSE Goto(h, "powerPut") /\ seen' = [seen EXCEPT ![h] = ver[h][cur[h]]]
        /\ UNCHANGED <<haCheck, fails, master, due, bounds>>
     \/ LibvirtFails /\ FailedTurn(h, FALSE) /\ UNCHANGED seen
  /\ UNCHANGED <<objVars, haEnable, todo, cur, snap, nodeHA, reach, missed, skipped,
                 moved>>

\* An object in which host h has written the state s of the domain.
Written(o, h, s) == [o EXCEPT !.rv = o.rv + 1, !.by = h, !.seq = s]

\* Mutant of WritePower: without the resourceVersion the API server accepts
\* every body.
WritePowerAlways(h) ==
  LET v == cur[h] IN
  /\ obj[v].exists
  /\ obj' = [obj EXCEPT ![v] = Written(obj[v], h, seen[h])]

\* The object takes the state of the domain, if nobody wrote it since the read.
WritePower(h) ==
  LET v == cur[h] IN
  /\ obj[v].exists /\ obj[v].rv = snap[h]
  /\ obj' = [obj EXCEPT ![v] = Written(obj[v], h, seen[h])]

\* _check_vm_power_state, the write: a conflict meets the same conflict in all
\* tries and is dropped, and so is every other exception.
PowerPut(h) ==
  /\ pc[h] = "powerPut"
  /\ \/ /\ Reached(h)
        /\ \/ WritePower(h)
           \/ obj[cur[h]].rv # snap[h] /\ UNCHANGED obj
     \/ /\ Refused(h)
        /\ UNCHANGED obj \/ (Connected(h) /\ WritePower(h))
  /\ Goto(h, "next")
  /\ snap' = [snap EXCEPT ![h] = 0]
  /\ seen' = [seen EXCEPT ![h] = 0]
  /\ UNCHANGED <<dom, ver, haCheck, haEnable, fails, todo, cur, nodeVars, history>>

\* _replace_node_status swallows its failures.
ReportNode(h) ==
  /\ pc[h] = "status"
  /\ Goto(h, IF haEnable[h] THEN "enable" ELSE "conn")
  /\ UNCHANGED <<objVars, haCheck, haEnable, fails, todo, cur, snap, seen,
                 nodeVars, history, bounds>>

\* Mutant of EnableHa: the label goes before the check.
EnableHaEarly(h) ==
  /\ pc[h] \in {"top", "enable"}
  /\ Reached(h)
  /\ nodeHA' = [nodeHA EXCEPT ![h] = FALSE]
  /\ haEnable' = [haEnable EXCEPT ![h] = FALSE]
  /\ IF pc[h] = "enable" THEN Goto(h, "conn") ELSE UNCHANGED pc
  /\ UNCHANGED <<objVars, haCheck, fails, todo, cur, snap, seen, master, reach,
                 history>>

\* _check_and_enable_HA removes the label nodeHA; what kubectl prints when that
\* fails may or may not count as a failure of the network.
EnableHa(h) ==
  /\ pc[h] = "enable"
  /\ \/ /\ Reached(h)
        /\ nodeHA' = [nodeHA EXCEPT ![h] = FALSE]
        /\ haEnable' = [haEnable EXCEPT ![h] = FALSE]
        /\ Goto(h, "conn")
        /\ UNCHANGED <<haCheck, fails, master, due>>
     \/ /\ Refused(h)
        /\ \E network \in BOOLEAN : FailedTurn(h, network)
        /\ UNCHANGED <<haEnable, nodeHA>>
  /\ UNCHANGED <<objVars, todo, cur, snap, seen, reach, missed, skipped, moved>>

\* The turn ends with a connection to libvirt; without one the handler stops
\* the libvirtwatcher container.
CheckConn(h) ==
  /\ pc[h] = "conn"
  /\ \/ /\ fails' = [fails EXCEPT ![h] = 0]
        /\ Goto(h, "top")
        /\ UNCHANGED <<haCheck, master, due, bounds>>
     \/ LibvirtFails /\ FailedTurn(h, FALSE)
  /\ UNCHANGED <<objVars, haEnable, todo, cur, snap, seen, nodeHA, reach, missed,
                 skipped, moved>>

Turn(h) ==
  \/ Top(h) \/ NextVm(h) \/ CheckOwner(h) \/ Backup(h) \/ LookUp(h)
  \/ DestroyVm(h) \/ UndefineVm(h) \/ CheckHa(h) \/ StartVm(h) \/ PowerGet(h)
  \/ PowerRead(h) \/ PowerPut(h) \/ ReportNode(h) \/ EnableHa(h) \/ CheckConn(h)

-----------------------------------------------------------------------------
(* Steps of the others *)

\* Mutant of Fresh: main does not start with ha_check.
FreshNoCheck(h) ==
  /\ Goto(h, "top")
  /\ haEnable' = [haEnable EXCEPT ![h] = TRUE]
  /\ fails' = [fails EXCEPT ![h] = 0]
  /\ due' = [due EXCEPT ![h] = TRUE]
  /\ UNCHANGED <<haCheck, todo, cur, snap, seen>>

\* The reporter of h starts with the initial values of main.
Fresh(h) ==
  /\ Goto(h, "top")
  /\ haCheck' = [haCheck EXCEPT ![h] = TRUE]
  /\ haEnable' = [haEnable EXCEPT ![h] = TRUE]
  /\ fails' = [fails EXCEPT ![h] = 0]
  /\ due' = [due EXCEPT ![h] = TRUE]
  /\ UNCHANGED <<todo, cur, snap, seen>>

\* The virtlet container is started again.
Restart(h) ==
  /\ pc[h] # "down"
  /\ Spend("boots", MaxBoots)
  /\ Fresh(h)
  /\ UNCHANGED <<objVars, nodeVars, missed, skipped, moved>>

\* kubevmm-adm labels the node before it updates virtlet.
DisableHa(h) ==
  /\ ~nodeHA[h]
  /\ Spend("boots", MaxBoots)
  /\ nodeHA' = [nodeHA EXCEPT ![h] = TRUE]
  /\ UNCHANGED <<objVars, repVars, master, reach, history>>

\* The host goes down with its domains, which stay defined.
CrashHost(h) ==
  /\ pc[h] # "down"
  /\ Spend("boots", MaxBoots)
  /\ Goto(h, "down")
  /\ dom' = [dom EXCEPT ![h] = [v \in Vms |-> IF @[v] = "none" THEN "none" ELSE "cold"]]
  /\ ver' = [ver EXCEPT ![h] = [v \in Vms |-> @[v] + 1]]
  /\ UNCHANGED <<obj, haCheck, haEnable, fails, todo, cur, snap, seen, nodeVars, history>>

BootHost(h) ==
  /\ pc[h] = "down"
  /\ Fresh(h)
  /\ UNCHANGED <<objVars, nodeVars, missed, skipped, moved, bounds>>

\* A host loses the masters, and gets some of them back.
Cut(h) ==
  /\ reach[h] # {}
  /\ Spend("cuts", MaxCuts)
  /\ reach' = [reach EXCEPT ![h] = {}]
  /\ UNCHANGED <<objVars, repVars, nodeHA, master, history>>

Heal(h) ==
  /\ reach[h] = {}
  /\ \E masters \in SUBSET Masters \ {{}} : reach' = [reach EXCEPT ![h] = masters]
  /\ UNCHANGED <<objVars, repVars, nodeHA, master, history, bounds>>

\* The reporter of h is to go over its domains before anything else.
CheckDue(h) == ~Alive(h) \/ due[h]

\* Somebody moves a VM, whether or not a check is due anywhere.
Moves(v) ==
  /\ Spend("changes", MaxChanges)
  /\ moved' = [h \in Hosts |-> IF CheckDue(h) THEN moved[h] ELSE moved[h] \cup {v}]
  /\ UNCHANGED <<repVars, nodeVars, missed, skipped, due>>

\* The object of v names the host h.
SetHost(v, h) ==
  obj' = [obj EXCEPT ![v] = [obj[v] EXCEPT !.host = h, !.rv = obj[v].rv + 1]]

\* The cluster may give up a host that is down, whose reporter is dead, or that
\* does not reach its master, however few turns that took; a peer at any time.
Lost(h) == pc[h] \in {"down", "dead", "peer"} \/ ~Connected(h)

\* The cluster moves a VM with HA away from a host it has lost, unless the node
\* is labelled: the object names the new host, where the domain is started.
Failover(v, g, h) ==
  /\ g # h
  /\ obj[v].exists /\ obj[v].host = g
  /\ v \in HaVms
  /\ Lost(g) /\ ~nodeHA[g]
  /\ h \in Reporters => ~Lost(h)
  /\ Moves(v)
  /\ SetHost(v, h)
  /\ dom' = At(dom, h, v, "on")
  /\ ver' = At(ver, h, v, ver[h][v] + 1)

\* A domain migrates while its object still names another host; its definition
\* may stay behind.
Migrate(v, g, h) ==
  /\ g # h
  /\ pc[h] # "down"
  /\ dom[g][v] = "on"
  /\ Moves(v)
  /\ \E left \in {"off", "none"} :
       dom' = At(At(dom, g, v, left), h, v, "on")
  /\ ver' = At(At(ver, g, v, ver[g][v] + 1), h, v, ver[h][v] + 1)
  /\ UNCHANGED obj

\* A migration ends, or a user edits the object: it names another host.
Relabel(v, h) ==
  /\ obj[v].exists /\ obj[v].host # h
  /\ Moves(v)
  /\ SetHost(v, h)
  /\ UNCHANGED <<dom, ver>>

\* A user starts a domain on its host, or a user or the guest stops it.
ChangeDom(h, v) ==
  /\ pc[h] # "down"
  /\ Spend("changes", MaxChanges)
  /\ \/ dom[h][v] \in {"cold", "off"} /\ ~Foreign(h, v) /\ SetDom(h, v, "on")
     \/ dom[h][v] = "on" /\ SetDom(h, v, "off")
  /\ UNCHANGED <<repVars, nodeVars, history>>

\* libvirtwatcher on the VM's host pushes the state of the domain.
Push(h, v) ==
  /\ pc[h] # "down" /\ Connected(h)
  /\ obj[v].exists /\ obj[v].host = h
  /\ dom[h][v] # "none"
  /\ obj[v].by # h \/ obj[v].seq < ver[h][v]
  /\ obj' = [obj EXCEPT ![v] = Written(obj[v], h, ver[h][v])]
  /\ UNCHANGED <<dom, ver, repVars, nodeVars, history, bounds>>

\* A user deletes the object.
Remove(v) ==
  /\ obj[v].exists
  /\ Spend("changes", MaxChanges)
  /\ obj' = [obj EXCEPT ![v] = [obj[v] EXCEPT !.exists = FALSE, !.rv = obj[v].rv + 1]]
  /\ UNCHANGED <<dom, ver, repVars, nodeVars, history>>

Next ==
  \/ \E h \in Reporters :
       \/ Turn(h) \/ Restart(h) \/ DisableHa(h) \/ CrashHost(h) \/ BootHost(h)
       \/ Cut(h) \/ Heal(h)
  \/ \E h \in Reporters, v \in Vms : ChangeDom(h, v)
  \/ \E h \in Hosts, v \in Vms : Push(h, v)
  \/ \E v \in Vms, g, h \in Hosts : Failover(v, g, h) \/ Migrate(v, g, h)
  \/ \E v \in Vms, h \in Hosts : Relabel(v, h)
  \/ \E v \in Vms : Remove(v)

Spec == Init /\ [][Next]_vars

\* The reporter is a thread in an endless loop; hosts and networks come back.
Fairness ==
  \A h \in Reporters : WF_vars(Turn(h)) /\ WF_vars(BootHost(h)) /\ WF_vars(Heal(h))

FairSpec == Spec /\ Fairness

-----------------------------------------------------------------------------
(* Properties *)

\* Every variable has its type.
TypeOK ==
  /\ obj \in [Vms -> Object]
  /\ dom \in [Hosts -> [Vms -> DomState]]
  /\ ver \in [Hosts -> [Vms -> Nat]]
  /\ pc \in [Hosts -> Steps]
  /\ haCheck \in [Hosts -> BOOLEAN] /\ haEnable \in [Hosts -> BOOLEAN]
  /\ fails \in [Hosts -> Nat]
  /\ todo \in [Hosts -> SUBSET Vms] /\ cur \in [Hosts -> Vms]
  /\ snap \in [Hosts -> Nat] /\ seen \in [Hosts -> Nat]
  /\ nodeHA \in [Hosts -> BOOLEAN]
  /\ master \in [Hosts -> Masters] /\ reach \in [Hosts -> SUBSET Masters]
  /\ missed \in [Hosts -> SUBSET Vms] /\ skipped \in [Hosts -> SUBSET Vms]
  /\ due \in [Hosts -> BOOLEAN] /\ moved \in [Hosts -> SUBSET Vms]
  /\ bounds \in [Bounded -> Nat]

\* What the check at the start and after three failed turns is for
\* (host_reporter.py:57-67, 91-92, 117-140): a reporter that is content with its
\* host has no domain there whose object names another host, unless its check of
\* that very domain failed and was swallowed, or the VM was moved since that check
\* began, before another start or a third failed turn in a row: nothing makes the
\* reporter look at such a domain again.
ForeignGone ==
  \A h \in Hosts, v \in Vms :
    Alive(h) /\ ~haCheck[h] /\ dom[h][v] # "none" /\ Foreign(h, v) =>
      v \in missed[h] \cup moved[h]

\* A power state never replaces a later one of the same host
\* (host_reporter.py:168-196): the object is read before the domain, so that a
\* push of libvirtwatcher in between makes the write conflict.
StateNeverOlder ==
  [][\A v \in Vms : obj'[v].by = obj[v].by => obj'[v].seq >= obj[v].seq]_vars

\* A node gets its HA back only when each of its VMs with HA that did not run
\* since the host came up has been started or is known to have failed, whatever
\* turns failed before and whatever was moved meanwhile (host_reporter.py:63-72).
EnabledAfterCheck ==
  [][\A h \in Hosts :
       nodeHA[h] /\ ~nodeHA'[h] =>
         \A v \in HaVms :
           obj[v].exists /\ obj[v].host = h /\ dom[h][v] = "cold" =>
             v \in skipped[h]]_vars

\* A VM with HA does not stay down after its host came up again: the reporter
\* starts it, unless its HA check failed and was swallowed, the VM was given to
\* another host or deleted, or the thread ended with an exception of its handler.
HaVmRunsAgain ==
  \A h \in Reporters, v \in HaVms :
    dom[h][v] = "cold" ~>
      \/ dom[h][v] # "cold" \/ v \in skipped[h] \/ pc[h] = "dead"
      \/ ~obj[v].exists \/ obj[v].host # h
=============================================================================
