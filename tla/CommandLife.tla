---------------------------- MODULE CommandLife ----------------------------
(***************************************************************************)
(* What virtctl promises about the commands that users post in             *)
(* spec.lifecycle, without its threads, its watch and its requests: a      *)
(* command is posted once, may be replaced by a later one or withdrawn,    *)
(* and is run only after it has left the object and by one life of the     *)
(* process only.  That it is run at all, or run once, is not promised: a   *)
(* withdrawn command may be lost, and two threads may be handed the same.  *)
(* VirtctlWatcher implements this.                                         *)
(***************************************************************************)
CONSTANTS
  Cmds,    \* the requests users may post
  None,    \* no command
  Lives    \* the lives of the process

VARIABLES
  posted,   \* the commands posted so far
  pending,  \* the command in the object, or None
  runs      \* the lives that have run each command

vars == <<posted, pending, runs>>

Init ==
  /\ posted = {}
  /\ pending = None
  /\ runs = [c \in Cmds |-> {}]

\* A user posts a command, over one that still waits if there is one.
Post(c) ==
  /\ c \notin posted
  /\ posted' = posted \cup {c}
  /\ pending' = c
  /\ UNCHANGED runs

\* The waiting command leaves the object: taken, dropped or deleted with it.
Withdraw ==
  /\ pending' = None
  /\ UNCHANGED <<posted, runs>>

\* A life of the process runs a command that has left the object, unless
\* another life has run it.
Run(c, l) ==
  /\ c \in posted /\ c # pending
  /\ runs[c] \subseteq {l}
  /\ runs' = [runs EXCEPT ![c] = @ \cup {l}]
  /\ UNCHANGED <<posted, pending>>

Next ==
  \/ \E c \in Cmds : Post(c)
  \/ Withdraw
  \/ \E c \in Cmds, l \in Lives : Run(c, l)

Spec == Init /\ [][Next]_vars
=============================================================================
