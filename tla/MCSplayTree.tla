---------------------------- MODULE MCSplayTree ----------------------------
(* SplayTree on five keys, so that chains deep enough for two rotations and *)
(* links to both sides occur.                                               *)
EXTENDS SplayTree

MCKeys == 1 .. 5
=============================================================================
