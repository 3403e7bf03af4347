-------------------------- MODULE MCVirtctlWatcher --------------------------
(***************************************************************************)
(* Instances of VirtctlWatcher for TLC.                                    *)
(***************************************************************************)
EXTENDS VirtctlWatcher, TLC

CONSTANTS t1, t2, a, b

\* Threads are interchangeable, and so are the supported commands.
Symmetry == Permutations(Threads) \cup Permutations(Cmds \ Unsupported)
=============================================================================
