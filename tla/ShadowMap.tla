------------------------------ MODULE ShadowMap ------------------------------
(***************************************************************************)
(* What the shadow memory promises: a map from addresses to values, in     *)
(* which each step sets at most one address, and which is emptied as a     *)
(* whole.                                                                  *)
(***************************************************************************)
CONSTANTS Addresses, Values, Empty

VARIABLE map

Init == map = [a \in Addresses |-> Empty]

Set(a, v) == map' = [map EXCEPT ![a] = v]

Clear == map' = [a \in Addresses |-> Empty]

Next ==
  \/ \E a \in Addresses, v \in Values : Set(a, v)
  \/ Clear

Spec == Init /\ [][Next]_map
=============================================================================
