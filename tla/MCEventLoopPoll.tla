-------------------------- MODULE MCEventLoopPoll --------------------------
(***************************************************************************)
(* Instances of EventLoopPoll for TLC.                                     *)
(***************************************************************************)
EXTENDS EventLoopPoll, TLC

CONSTANTS t1, t2

\* Threads are interchangeable.
Symmetry == Permutations(Threads)
=============================================================================
