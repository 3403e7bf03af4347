---------------------------- MODULE MCFileEvents ----------------------------
(* A small node for FileEvents: two images and two pools, and one part of    *)
(* the node that changes.                                                    *)
EXTENDS FileEvents

CONSTANTS i1, i2, p1, p2

MCImages == {i1, i2}
MCPools == {p1, p2}
=============================================================================
