----------------------------- MODULE MCBBCache -----------------------------
(* BBCacheProgram on a call block, a return block and two plain blocks. *)
EXTENDS BBCacheProgram

MCBlocks == 1 .. 3
MCEndState == [b \in Blocks |-> <<"call", "ret", "other", "other">>[b]]
MCRefNum == [b \in Blocks |-> <<1, 0, 2, 0>>[b]]
=============================================================================
