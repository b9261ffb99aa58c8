--------------------------- MODULE MCReuseDistance ---------------------------
(***************************************************************************)
(* Windows of three in eight references and a buffer of two: up to two     *)
(* windows, each entered and left in the middle of a buffer or at its end. *)
(***************************************************************************)
EXTENDS ReuseDistance

Ref(addr, hndl) == [addr |-> addr, hndl |-> hndl]
MCBlocks == {<<Ref(1, 1)>>, <<Ref(2, 2)>>, <<Ref(0, 1), Ref(1, 2)>>}

MCObjects == {7, -3}
MCJunk == {Ref(0, 0), Ref(1, 9)}

MCFirstOwner == [a \in 1 .. 2 |-> IF a = 1 THEN 7 ELSE -3]

Entry(k, count) ==
  [use |-> k, reuse |-> 1, create |-> IF k = 4 /\ count = 3 THEN -1 ELSE 1,
   count |-> count, distance |-> count * k]
MCLists ==
  {[k \in 1 .. n |-> Entry(k, counts[k])] : n \in 0 .. 4, counts \in [1 .. 4 -> 1 .. 3]}
=============================================================================
