----------------------------- MODULE MCBBShadow -----------------------------
(* BBShadow with code at four addresses, two versions of it at one of them. *)
EXTENDS BBShadow, TLC

CONSTANTS a1, a2, b, c, d

\* An address is named after the first block at it.
MCTagOf == a1 :> a1 @@ a2 :> a1 @@ b :> b @@ c :> c @@ d :> d
MCSlotNum == a1 :> 1 @@ a2 :> 2 @@ b :> 2 @@ c :> 1 @@ d :> 1
MCBlocks == {a1, a2, b, c, d}

Symmetry == Permutations(Threads) \cup Permutations({c, d})
=============================================================================
