---------------------------- MODULE MCCCTSignals ----------------------------
(* CCTSignals on one thread with the three kinds of block. *)
EXTENDS CCTSignals

MCBlocks == 1 .. 3
MCSlotNum == <<1, 1, 1>>
MCEndState == <<"call", "ret", "other">>
MCSlotPc == << <<1>>, <<2>>, <<3>> >>
=============================================================================
