----------------------------- MODULE CalleeMap -----------------------------
(***************************************************************************)
(* What a node's splay tree promises its caller: it is asked for a block's *)
(* key, a payload is made for the key the first time, and the same payload *)
(* is found ever after.  Module CCT uses the trees through this contract.  *)
(***************************************************************************)
EXTENDS Integers

CONSTANTS
  Keys,
  Payloads,  \* what a payload can be
  NULL

VARIABLES
  payloads,  \* key -> its payload, for the keys answered so far
  asked,     \* the key of the last question
  answer     \* its answer, or NULL while it is open

Init ==
  /\ payloads = [k \in {} |-> NULL]
  /\ asked = NULL
  /\ answer = NULL

Ask(k) ==
  /\ asked = NULL \/ answer # NULL
  /\ asked' = k
  /\ answer' = NULL
  /\ UNCHANGED payloads

Known ==
  /\ answer = NULL
  /\ asked \in DOMAIN payloads
  /\ answer' = payloads[asked]
  /\ UNCHANGED <<payloads, asked>>

\* A payload no other key has.
New(p) ==
  /\ answer = NULL
  /\ answer' = p
  /\ UNCHANGED asked
  /\ asked \in Keys \ DOMAIN payloads
  /\ \A j \in DOMAIN payloads : payloads[j] # p
  /\ payloads' = [j \in DOMAIN payloads \cup {asked} |->
                    IF j = asked THEN p ELSE payloads[j]]

Next == (\E k \in Keys : Ask(k)) \/ Known \/ (\E p \in Payloads : New(p))

Spec == Init /\ [][Next]_<<payloads, asked, answer>>
=============================================================================
