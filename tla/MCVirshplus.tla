---------------------------- MODULE MCVirshplus ----------------------------
(* A small host for Virshplus: two executor threads, which are alike, and    *)
(* the commands that meet each other on a host where they matter.            *)
EXTENDS Virshplus, TLC

CONSTANTS t1, t2

MCThreads == {t1, t2}

Symmetry == Permutations(MCThreads)

PoolCommands == {"create_pool", "create_pool_noauto", "delete_pool"}
DiskCommands == {"create_disk", "delete_disk", "delete_pool"}
VmCommands == {"create_vm", "delete_vm", "unplug_nic"}
OldVmCommands == {"create_vm", "create_vm_malformed", "delete_vm"}
NicCommands == {"plug_l3", "plug_bridge", "unplug_nic", "set_boot_order"}
DeadNicCommands == {"plug_l3_config", "unplug_nic_config"}
DeviceCommands == {"plug_disk", "unplug_disk", "set_vnc_password",
                   "unset_vnc_password", "set_boot_order"}
OtherCommands == {"delete_vmdi", "delete_network", "update_os",
                  "set_guest_password", "plug_malformed"}

Pool == {"poolObj", "poolReady", "poolDir", "poolDefined", "poolActive",
         "poolContent"}
Vm == {"vmObj", "vmDefined"}
Plugged == {"vmActive", "nicXml", "nicLive", "nicConf", "port"}

\* An empty host, one with a pool that runs or not, one with a VM that runs or
\* not, with a NIC whose switch is on record or not, one with an image.
MCScenarios ==
    ({{}, Pool \ {"poolActive"}} \X {PoolCommands})
    \cup ({Pool} \X {DiskCommands})
    \cup ({{}} \X {VmCommands})
    \cup ({Vm} \X {OldVmCommands})
    \cup ({Vm \cup {"vmActive"}, Vm \cup Plugged} \X {NicCommands})
    \cup ({Vm, Vm \cup Plugged \cup {"switchCfg"}} \X {DeadNicCommands})
    \cup ({Vm \cup {"vmActive"}} \X {DeviceCommands})
    \cup ({Pool \cup Vm \cup {"vmdiObj", "vmdiDir", "netObj"}} \X {OtherCommands})
=============================================================================
