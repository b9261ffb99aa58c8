------------------------------- MODULE MCCCT -------------------------------
(* CCT on small instances: the three kinds of block.                        *)
EXTENDS CCTCallStack, TLC

MCBlocks == 1 .. 3
MCSlotNum == <<2, 1, 1>>
MCEndState == <<"call", "ret", "other">>

\* The plain block is cut at the size limit of blocks, where the call block goes on.
MCSlotPc == << <<1, 2>>, <<3>>, <<1>> >>

Symmetry == Permutations(Threads)
=============================================================================
