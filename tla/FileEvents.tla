----------------------------- MODULE FileEvents -----------------------------
(***************************************************************************)
(* virtlet's file system watcher, os_event_handler.py: one observer thread *)
(* handles the events of the directory with the domain XML files and of    *)
(* the one with the disk images in their order, and the main thread keeps  *)
(* the set of watched storage pools up to date once per second.            *)
(*                                                                         *)
(* One VM, a few images and a few pools of this node.  The definition of   *)
(* the VM is a version; the handlers read it from libvirt, not from the    *)
(* event.  The API server refuses a call (an ApiException) or cannot be    *)
(* reached (any other exception, which ends the observer thread where the  *)
(* handler does not catch it).                                             *)
(***************************************************************************)
EXTENDS Naturals, Sequences, FiniteSets

CONSTANTS
    Images,        \* names of image files
    Pools,         \* names of storage pools, each with a path of its own
    Scopes,        \* what changes in one behaviour: "vm", "images", "pools"
    MaxMoves,      \* bound: changes by others
    MaxRefusals,   \* bound: calls the API server refuses for four tries
    MaxUnreachable,\* bound: calls that do not reach the API server or libvirt
    MaxCrashes     \* bound: restarts of virtlet

ASSUME BoundsAssumption ==
    {MaxMoves, MaxRefusals, MaxUnreachable, MaxCrashes} \subseteq Nat

Me == "me"
Other == "other"
Contents == {"absent", "vmd", "mixed"}   \* a pool's content file; none is vmd

VARIABLES
    def,      \* the VM's definition: defined or not, and its version
    obj,      \* the VM's custom object
    files,    \* image files in the directory
    imgObj,   \* custom objects of images
    doomed,   \* image whose file virshplus has removed, its object not yet
    queue,    \* events the observer has not dispatched
    handler,  \* the event handler that runs in the observer thread
    alive,    \* the observer thread runs
    missed,   \* an event was lost with the process or the thread
    pools,    \* storage pools of libvirt
    scan,     \* the main thread's turn over the pools
    watched,  \* OLD_PATH_WATCHERS
    scope, left

fileVars == <<def, obj, files, imgObj, doomed, queue, handler, alive, missed>>
poolVars == <<pools, scan, watched>>
vars == <<fileVars, poolVars, scope, left>>

Budgets == {"moves", "refusals", "unreachable", "crashes"}
Full == [moves |-> MaxMoves, refusals |-> MaxRefusals,
         unreachable |-> MaxUnreachable, crashes |-> MaxCrashes]
Spend(b) == left[b] > 0 /\ left' = [left EXCEPT ![b] = @ - 1]
Spent(b) == Full[b] - left[b]

VmEvents == [on: {"vm_moved", "vm_modified", "vm_deleted"}]
ImgEvents == [on: {"img_created", "img_moved", "img_deleted"}, img: Images]
Ev(on) == [on |-> on]
ImgEv(on, i) == [on |-> on, img |-> i]
NoEvent == [on |-> "none"]

NoObj == [here |-> FALSE, host |-> Me, rev |-> 0, ver |-> 0]
NoRead == [host |-> Me, rev |-> 0, ver |-> 0]
Idle == [pc |-> "idle", ev |-> NoEvent, read |-> NoRead]
FreshScan == [pc |-> "list", found |-> {}]

Init ==
    /\ scope \in Scopes
    /\ def \in [on: IF scope = "vm" THEN BOOLEAN ELSE {FALSE}, ver: {1}]
    /\ obj = IF def.on THEN [here |-> TRUE, host |-> Me, rev |-> 1, ver |-> 1]
                       ELSE NoObj
    /\ files \in IF scope = "images" THEN SUBSET Images ELSE {{}}
    /\ imgObj = files
    /\ doomed = {}
    /\ queue = <<>>
    /\ handler = Idle
    /\ alive = TRUE
    /\ missed = FALSE
    /\ pools \in [Pools -> IF scope = "pools" THEN {"absent", "vmd"} ELSE {"absent"}]
    /\ scan = FreshScan
    /\ watched = {}
    /\ left = Full

-----------------------------------------------------------------------------
(* The API server.                                                           *)

\* Mutant: only a takeover is noticed.
PutSameHost(r) ==
    obj' = IF obj.here /\ obj.host = r.host
           THEN [obj EXCEPT !.rev = @ + 1, !.ver = r.ver] ELSE obj

\* The object with definition ver in its spec, which a push updates.
Described(ver) == [obj EXCEPT !.rev = @ + 1, !.ver = ver]

\* replace_namespaced_custom_object with the version that was read.
Put(r) ==
    obj' = IF obj.here /\ obj.rev = r.rev
           THEN Described(r.ver) ELSE obj

\* report_failure reads the object anew and writes a status.
Report == obj' = IF obj.here THEN [obj EXCEPT !.rev = @ + 1] ELSE obj

-----------------------------------------------------------------------------
(* The observer thread.                                                      *)

To(pc, read) == handler' = [handler EXCEPT !.pc = pc, !.read = read]
Done == handler' = Idle

\* An exception that the handler class does not catch ends the thread.
Dies ==
    /\ alive' = FALSE
    /\ missed' = TRUE
    /\ Done

\* dispatch_events, and the guards of on_moved, on_created, on_deleted and
\* on_modified: events of a VM count when libvirt knows it, or not any more.
Dispatch ==
    /\ alive /\ handler.pc = "idle" /\ queue # <<>>
    /\ queue' = Tail(queue)
    /\ LET ev == Head(queue)
           To2(pc) == handler' = [pc |-> pc, ev |-> ev, read |-> NoRead]
       IN \/ /\ \/ ev.on = "vm_moved" /\ def.on /\ To2("vm_xml")
                \/ ev.on = "vm_modified" /\ def.on /\ To2("vm_get")
                \/ /\ \/ ev.on \in {"vm_moved", "vm_modified"} /\ ~ def.on
                      \/ ev.on = "vm_deleted"
                   /\ Done
                \/ ev.on \in {"img_created", "img_moved"} /\ To2("img_xml")
                \/ ev.on = "img_deleted" /\ To2("img_clear")
             /\ UNCHANGED <<alive, missed, left>>
          \/ ev.on \in {"vm_moved", "vm_modified", "vm_deleted"}
             /\ Spend("unreachable") /\ Dies   \* is_vm_exists raises
    /\ UNCHANGED <<def, obj, files, imgObj, doomed, poolVars, scope>>

FileStep == UNCHANGED <<def, files, doomed, queue, poolVars, scope>>

\* create_custom_object: an object that exists stays as it is, for the conflict is
\* swallowed with the four tries.
Created(ver) ==
    IF obj.here THEN obj
    ELSE [here |-> TRUE, host |-> Me, rev |-> obj.rev + 1, ver |-> ver]

\* 'Create' of a VM: the XML and state from libvirt, then a new object.
VmXml ==
    /\ alive /\ handler.pc = "vm_xml"
    /\ \/ def.on /\ To("vm_create", [NoRead EXCEPT !.ver = def.ver]) /\ UNCHANGED obj
       \/ ~ def.on /\ Report /\ Done
    /\ FileStep /\ UNCHANGED <<imgObj, alive, missed, left>>

VmCreate ==
    /\ alive /\ handler.pc = "vm_create"
    /\ \/ obj' = Created(handler.read.ver) /\ UNCHANGED left
       \/ Spend("refusals") /\ UNCHANGED obj
       \/ Spend("unreachable") /\ UNCHANGED obj
    /\ Done
    /\ FileStep /\ UNCHANGED <<imgObj, alive, missed>>

\* Mutant: the label is not looked at.
VmGetAny ==
    /\ alive /\ handler.pc = "vm_get"
    /\ \/ /\ obj.here
          /\ To("vm_read", [host |-> obj.host, rev |-> obj.rev, ver |-> 0])
       \/ ~ obj.here /\ Done
    /\ FileStep /\ UNCHANGED <<obj, imgObj, alive, missed, left>>

\* Mutant: a refused get is taken for an object.
VmGetNone ==
    /\ alive /\ handler.pc = "vm_get"
    /\ \/ /\ obj.here
          /\ To("vm_read", [host |-> obj.host, rev |-> obj.rev, ver |-> 0])
          /\ UNCHANGED left
       \/ Spend("refusals") /\ To("vm_read", [NoRead EXCEPT !.host = "none"])
    /\ FileStep /\ UNCHANGED <<obj, imgObj, alive, missed>>

\* 'Modify' of a VM reads the object outside its try block: Not Found is an
\* ApiException, which on_modified catches; refused means None, which the try
\* block catches; unreachable ends the thread.
VmGet ==
    /\ alive /\ handler.pc = "vm_get"
    /\ \/ /\ obj.here /\ obj.host = Me
          /\ To("vm_read", [host |-> obj.host, rev |-> obj.rev, ver |-> 0])
          /\ UNCHANGED <<alive, missed, left>>
       \/ /\ obj.here => obj.host # Me
          /\ Done
          /\ UNCHANGED <<alive, missed, left>>
       \/ Spend("refusals") /\ Done /\ UNCHANGED <<alive, missed>>
       \/ Spend("unreachable") /\ Dies
    /\ FileStep /\ UNCHANGED <<obj, imgObj>>

VmRead ==
    /\ alive /\ handler.pc = "vm_read"
    /\ \/ def.on /\ To("vm_put", [handler.read EXCEPT !.ver = def.ver]) /\ UNCHANGED obj
       \/ ~ def.on /\ Report /\ Done
    /\ FileStep /\ UNCHANGED <<imgObj, alive, missed, left>>

\* Four tries with the same body: a conflict stays a conflict.
VmPut ==
    /\ alive /\ handler.pc = "vm_put"
    /\ \/ Put(handler.read) /\ UNCHANGED left
       \/ Spend("refusals") /\ UNCHANGED obj
       \/ Spend("unreachable") /\ UNCHANGED obj
    /\ Done
    /\ FileStep /\ UNCHANGED <<imgObj, alive, missed>>

\* 'Create' of an image needs its volume; a moved one is looked up under the
\* name it had.
ImgXml ==
    /\ alive /\ handler.pc = "img_xml"
    /\ IF handler.ev.img \in files THEN To("img_create", NoRead) ELSE Done
    /\ FileStep /\ UNCHANGED <<obj, imgObj, alive, missed, left>>

ImgCreate ==
    /\ alive /\ handler.pc = "img_create"
    /\ \/ imgObj' = imgObj \cup {handler.ev.img} /\ UNCHANGED left
       \/ Spend("refusals") /\ UNCHANGED imgObj
       \/ Spend("unreachable") /\ UNCHANGED imgObj
    /\ Done
    /\ FileStep /\ UNCHANGED <<obj, alive, missed>>

\* 'Delete' of an image: first the object is emptied, whatever comes of it ...
ImgClear ==
    /\ alive /\ handler.pc = "img_clear"
    /\ To("img_delete", NoRead)
    /\ FileStep /\ UNCHANGED <<obj, imgObj, alive, missed, left>>

\* delete_custom_object: an object that does not exist is no error.
Gone(img) == imgObj' = imgObj \ {img}

\* Mutant: an event that finds the object stops there.
ImgDeleteNot ==
    /\ alive /\ handler.pc = "img_delete"
    /\ Done
    /\ FileStep /\ UNCHANGED <<obj, imgObj, alive, missed, left>>

\* ... then it is deleted.
ImgDelete ==
    /\ alive /\ handler.pc = "img_delete"
    /\ \/ Gone(handler.ev.img) /\ UNCHANGED left
       \/ Spend("refusals") /\ UNCHANGED imgObj
       \/ Spend("unreachable") /\ UNCHANGED imgObj
    /\ Done
    /\ FileStep /\ UNCHANGED <<obj, alive, missed>>

Observer ==
    \/ Dispatch \/ VmXml \/ VmCreate \/ VmGet \/ VmRead \/ VmPut
    \/ ImgXml \/ ImgCreate \/ ImgClear \/ ImgDelete

-----------------------------------------------------------------------------
(* The main thread: main()'s loop over the storage pools.                    *)

PoolStep == UNCHANGED <<fileVars, pools, scope>>
Present == {p \in Pools : pools[p] # "absent"}
VmdPools == {p \in Pools : pools[p] = "vmd"}

\* _get_all_pool_path stops at an error of libvirt and returns what it has.
ListPools ==
    /\ scan.pc = "list"
    /\ \/ scan' = [pc |-> "filter", found |-> Present] /\ UNCHANGED left
       \/ \E part \in SUBSET Present :
             Spend("unreachable") /\ scan' = [pc |-> "filter", found |-> part]
    /\ UNCHANGED watched /\ PoolStep

\* del paths[..] in the loop over paths.items() raises RuntimeError: the turn
\* ends when a pool's content is not vmd.
Filter ==
    /\ scan.pc = "filter"
    /\ scan' = IF \E p \in scan.found : pools[p] = "mixed" THEN FreshScan
               ELSE [scan EXCEPT !.pc = "unschedule"]
    /\ UNCHANGED <<watched, left>> /\ PoolStep

\* Mutant: a path stays in OLD_PATH_WATCHERS.
UnscheduleNot ==
    /\ scan.pc = "unschedule"
    /\ scan' = [scan EXCEPT !.pc = "schedule"]
    /\ UNCHANGED <<watched, left>> /\ PoolStep

Unschedule ==
    /\ scan.pc = "unschedule"
    /\ watched' = watched \cap scan.found
    /\ scan' = [scan EXCEPT !.pc = "schedule"]
    /\ UNCHANGED left /\ PoolStep

\* Paths that are directories; schedule may fail at the limit of inotify.
Schedule ==
    /\ scan.pc = "schedule"
    /\ LET new == {p \in scan.found \ watched : pools[p] # "absent"}
       IN \/ watched' = watched \cup new /\ UNCHANGED left
          \/ \E part \in SUBSET new :
                part # new /\ Spend("unreachable") /\ watched' = watched \cup part
    /\ scan' = FreshScan
    /\ PoolStep

Main == ListPools \/ Filter \/ Unschedule \/ Schedule

-----------------------------------------------------------------------------
(* The others.                                                               *)

Notify(evs) == queue' = IF alive THEN queue \o evs ELSE queue
Lose == missed' = (missed \/ ~ alive)

\* libvirt rewrites the XML file by renaming a new one; somebody edits it in
\* place; it goes when the VM is undefined.
ChangeVm ==
    /\ scope = "vm"
    /\ \/ /\ def' = [on |-> TRUE, ver |-> def.ver + 1]
          /\ Notify(<<Ev("vm_moved")>>)
       \/ /\ def.on
          /\ def' = [def EXCEPT !.ver = @ + 1]
          /\ Notify(<<Ev("vm_modified")>>)
       \/ /\ def.on
          /\ def' = [def EXCEPT !.on = FALSE]
          /\ Notify(<<Ev("vm_deleted")>>)
    /\ Lose
    /\ UNCHANGED <<obj, files, imgObj, doomed>>

\* libvirtwatcher's push, a migration or failover, and the end of the object.
ChangeObj ==
    /\ scope = "vm" /\ obj.here
    /\ \/ def.on /\ obj' = [obj EXCEPT !.rev = @ + 1, !.ver = def.ver]
       \/ obj' = [obj EXCEPT !.rev = @ + 1, !.host = Other]
       \/ obj' = [obj EXCEPT !.here = FALSE]
    /\ UNCHANGED <<def, files, imgObj, doomed, queue, missed>>

\* Images are uploaded, removed by hand, and removed by virshplus delete_vmdi,
\* which deletes the file first and the object later.  A name is used again
\* only after delete_vmdi has ended.
ChangeImages ==
    /\ scope = "images"
    /\ \E i \in Images :
          \/ /\ i \notin files \cup doomed
             /\ files' = files \cup {i}
             /\ Notify(<<ImgEv("img_created", i)>>) /\ Lose
             /\ UNCHANGED <<imgObj, doomed>>
          \/ /\ i \in files
             /\ files' = files \ {i}
             /\ doomed' \in {doomed, doomed \cup {i}}
             /\ Notify(<<ImgEv("img_deleted", i)>>) /\ Lose
             /\ UNCHANGED imgObj
    /\ UNCHANGED <<def, obj>>

\* A file that is renamed within the directory.
RenameImage ==
    /\ scope = "images"
    /\ \E i \in files, j \in Images \ (files \cup doomed) :
          /\ files' = (files \ {i}) \cup {j}
          /\ Notify(<<ImgEv("img_moved", i)>>)
    /\ missed' = TRUE
    /\ UNCHANGED <<def, obj, imgObj, doomed>>

ChangePools ==
    /\ scope = "pools"
    /\ \E p \in Pools, c \in Contents : c # pools[p] /\ pools' = [pools EXCEPT ![p] = c]
    /\ UNCHANGED fileVars

Others ==
    /\ Spend("moves")
    /\ \/ /\ ChangeVm \/ ChangeObj \/ ChangeImages \/ RenameImage
          /\ UNCHANGED <<handler, alive, pools>>
       \/ ChangePools
    /\ UNCHANGED <<scan, watched, scope>>

\* The end of delete_vmdi.
VirshplusEnds ==
    /\ \E i \in doomed : doomed' = doomed \ {i} /\ imgObj' = imgObj \ {i}
    /\ UNCHANGED <<def, obj, files, queue, handler, alive, missed, poolVars,
                   scope, left>>

\* virtlet is killed and started again: events and watchers are gone.
Crash ==
    /\ Spend("crashes")
    /\ missed' = (missed \/ queue # <<>> \/ handler # Idle)
    /\ queue' = <<>> /\ handler' = Idle /\ alive' = TRUE
    /\ scan' = FreshScan /\ watched' = {}
    /\ UNCHANGED <<def, obj, files, imgObj, doomed, pools, scope>>

Next == Observer \/ Main \/ Others \/ VirshplusEnds \/ Crash

\* Both threads run until they end; virshplus finishes what it began.
Fairness == WF_vars(Observer) /\ WF_vars(Main) /\ WF_vars(VirshplusEnds)

Spec == Init /\ [][Next]_vars
FairSpec == Spec /\ Fairness

-----------------------------------------------------------------------------
(* Properties.                                                               *)

\* The state is well formed.
TypeOK ==
    /\ def \in [on: BOOLEAN, ver: Nat]
    /\ obj \in [here: BOOLEAN, host: {Me, Other}, rev: Nat, ver: Nat]
    /\ files \subseteq Images /\ imgObj \subseteq Images /\ doomed \subseteq Images
    /\ queue \in Seq(VmEvents \cup ImgEvents)
    /\ handler \in [pc: {"idle", "vm_xml", "vm_create", "vm_get", "vm_read",
                         "vm_put", "img_xml", "img_create", "img_clear",
                         "img_delete"},
                    ev: VmEvents \cup ImgEvents \cup {NoEvent},
                    read: [host: {Me, Other}, rev: Nat, ver: Nat]]
    /\ alive \in BOOLEAN /\ missed \in BOOLEAN
    /\ pools \in [Pools -> Contents]
    /\ scan \in [pc: {"list", "filter", "unschedule", "schedule"},
                 found: SUBSET Pools]
    /\ watched \subseteq Pools
    /\ left \in [Budgets -> Nat]

\* When the observer has handled all events and delete_vmdi has ended, there is
\* an object for exactly the images that have a file, in whatever order files
\* came and went while events waited; but not after a lost event, a refused
\* call, or a rename (which the handler looks up under the old name).
ImagesAgree ==
    /\ queue = <<>> /\ handler = Idle /\ doomed = {}
    /\ ~ missed /\ Spent("refusals") = 0 /\ Spent("unreachable") = 0
    => imgObj = files

\* A handler never changes the object of a VM that another node has taken over,
\* not even when it took it over after the handler had looked at the label.
\* (A report of a failure is no push: it changes the status only.)
ForeignKept ==
    [][Observer /\ obj.here /\ obj.host = Other => obj'.ver = obj.ver]_vars

\* A push never replaces a later definition by an earlier one, for the handler
\* reads the object before it reads the definition.
DefinitionNotOlder ==
    [][Observer /\ obj.here => obj'.ver >= obj.ver]_vars

\* While no pool has other content than vmd, the watched paths become those of
\* the pools and stay so, after any changes, errors of libvirt and restarts.
PoolsWatched == <>[]((Present = VmdPools) => watched = VmdPools)
=============================================================================
