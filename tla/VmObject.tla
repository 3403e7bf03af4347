------------------------------ MODULE VmObject ------------------------------
(***************************************************************************)
(* One VirtualMachine custom object as the Kubernetes API server keeps it. *)
(* The API server is not in the repository: its behaviour is read off the  *)
(* way core/virtctl/services/watcher.py and core/utils/misc.py use it.     *)
(*                                                                         *)
(* The properties tell apart five things of the object: whether it exists, *)
(* its resourceVersion, the command in spec.lifecycle, which state of the  *)
(* domain the rest of spec describes, and whether spec.status reports a    *)
(* failure.  Commands are identified by the request that posted them, so   *)
(* a value of Cmds is posted at most once.                                 *)
(***************************************************************************)
EXTENDS Naturals

CONSTANTS
  Cmds,       \* the requests users may post in spec.lifecycle
  None        \* no lifecycle in the spec

ASSUME CmdsAssumption == None \notin Cmds

VARIABLE obj  \* the object in the API server

Version == [exists    : BOOLEAN,
            rv        : Nat,
            lifecycle : Cmds \cup {None},
            spec      : Nat,
            status    : {"state", "failure"}]

InitVersion == [exists |-> TRUE, rv |-> 0, lifecycle |-> None,
                spec |-> 0, status |-> "state"]

\* replace_namespaced_custom_object answers 409 (or 404) unless the body was
\* built from the current version.
Current(body) == obj.exists /\ body.rv = obj.rv

\* The new version gets the next resourceVersion.
Store(body) == obj' = [body EXCEPT !.exists = TRUE, !.rv = obj.rv + 1]

\* A successful PUT.  One that changes nothing keeps the resourceVersion.
Replace(body) ==
  /\ Current(body)
  /\ IF body = obj THEN UNCHANGED obj ELSE Store(body)

\* The body of report_failure: the object o without its command, with a status
\* that tells the failure.
Failure(o) == [o EXCEPT !.lifecycle = None, !.status = "failure"]

\* A successful DELETE.
Delete ==
  /\ obj.exists
  /\ obj' = [obj EXCEPT !.exists = FALSE, !.rv = @ + 1, !.lifecycle = None]
=============================================================================
