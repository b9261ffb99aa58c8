---------------------------- MODULE MCDataCentric ----------------------------
(***************************************************************************)
(* Eight addresses: two directory entries, two pages each, two cells a     *)
(* page.                                                                   *)
(***************************************************************************)
EXTENDS DataCentric, TLC

CONSTANTS m1, m2

MCSymbols ==
  (m1 :> <<[at |-> 5, size |-> 1, len |-> 2]>>) @@
  (m2 :> <<[at |-> 0, size |-> 2, len |-> 1], [at |-> 1, size |-> 2, len |-> 0]>>)

Symm == Permutations(Threads) \cup Permutations(Contexts)
=============================================================================
