--------------------------- MODULE MCHostReporter ---------------------------
(***************************************************************************)
(* Instances of HostReporter for TLC.                                      *)
(***************************************************************************)
EXTENDS HostReporter, TLC

CONSTANTS h1, h2, v1
=============================================================================
