----------------------------- MODULE MCPidFile -----------------------------
(* A small host for PidFile.                                                 *)
EXTENDS PidFile

CONSTANTS d1, d2, d3, s1

MCProcs == {d1, d2, d3}
MCStops == {s1}
=============================================================================
