----------------------------- MODULE SplayTree -----------------------------
(***************************************************************************)
(* The callee tree of a node (src/src/drcctlib/splay_tree.cpp): a top-down *)
(* splay tree that is searched, extended and rebalanced by one loop.  One  *)
(* iteration of the loop is a step, so that what holds while the tree is   *)
(* in pieces can be stated: the middle tree at root, and a left and a      *)
(* right tree that hang from dummy_node and grow at their tips.            *)
(*                                                                         *)
(* One thread uses the tree, with the caller's part in drcctlib.cpp.       *)
(***************************************************************************)
EXTENDS Integers, FiniteSets

CONSTANT Keys

ASSUME KeysAssumption == IsFiniteSet(Keys) /\ Keys \subseteq Nat \ {0}

Sides == {"left", "right"}
Opposite(d) == IF d = "left" THEN "right" ELSE "left"

\* Node objects in the order of the splay_node_cache, and the dummy.
NULL == 0
dummy == -1
Count == Cardinality(Keys) + 1
Nodes == 1 .. Count

VARIABLES
  child,    \* side -> node -> splay_node_t.left, splay_node_t.right
  key,      \* splay_node_t.key
  payload,  \* splay_node_t.payload: the number of the bb node, or NULL
  root,     \* the root the loop has got to, callee_splay_tree_root between accesses
  tip,      \* ltree_max_node at "right" and rtree_min_node at "left"
  spare,    \* pt->next_splay_node
  made,     \* bb nodes made so far
  sought,   \* the key of the access under way, or of the last one
  pc

tree == <<child, key, root>>
vars == <<tree, payload, tip, spare, made, sought, pc>>

Init ==
  /\ child = [d \in Sides |-> [n \in Nodes \cup {dummy} |-> NULL]]
  /\ key = [n \in Nodes |-> 0]
  /\ payload = [n \in Nodes |-> NULL]
  /\ root = NULL
  /\ tip = [d \in Sides |-> dummy]
  /\ spare = 1
  /\ made = 0
  /\ sought = 0
  /\ pc = "idle"

----------------------------------------------------------------------------
(* splay_tree_update *)

\* The first access to an empty tree.
Plant(k) ==
  /\ pc = "idle"
  /\ root = NULL
  /\ sought' = k
  /\ key' = [key EXCEPT ![spare] = k]
  /\ root' = spare
  /\ pc' = "use"
  /\ UNCHANGED <<child, payload, tip, spare, made>>

Begin(k) ==
  /\ pc = "idle"
  /\ root # NULL
  /\ sought' = k
  /\ child' = [d \in Sides |-> [child[d] EXCEPT ![dummy] = NULL]]
  /\ tip' = [d \in Sides |-> dummy]
  /\ pc' = "splay"
  /\ UNCHANGED <<key, payload, root, spare, made>>

\* k lies on side d of x.
Beyond(d, k, x) == IF d = "left" THEN k < x ELSE k > x

\* The new node takes the place of a missing child.
Grow(ch, d, r) == IF ch[d][r] = NULL THEN [ch EXCEPT ![d][r] = spare] ELSE ch

\* Mutants: the subtree between the two is dropped; the nodes are relinked without
\* the old child of t.
RotateDrops(ch, d, r) ==
  LET t == ch[d][r] IN [ch EXCEPT ![d][r] = NULL, ![Opposite(d)][t] = r]
RotateKeepsLink(ch, d, r) ==
  LET t == ch[d][r] IN [ch EXCEPT ![Opposite(d)][t] = r]

\* child t of r on side d comes up, r goes down to the other side.
Rotate(ch, d, r) ==
  LET t == ch[d][r] IN [ch EXCEPT ![d][r] = ch[Opposite(d)][t], ![Opposite(d)][t] = r]

\* One iteration: d is the side of root on which the key lies.
Step(d) ==
  LET grown == Grow(child, d, root)
      next == grown[d][root]
      zig == next # spare /\ Beyond(d, sought, key[next])
      top == IF zig THEN next ELSE root
      ch == IF zig THEN Grow(Rotate(grown, d, root), d, top) ELSE grown
  IN
  /\ pc = "splay"
  /\ Beyond(d, sought, key[root])
  /\ key' = IF ch[d][top] = spare THEN [key EXCEPT ![spare] = sought] ELSE key
  /\ child' = [ch EXCEPT ![d][tip[d]] = top]
  /\ tip' = [tip EXCEPT ![d] = top]
  /\ root' = ch[d][top]
  /\ UNCHANGED <<payload, spare, made, sought, pc>>

\* Mutants: the side trees come back on the wrong sides, or are not closed.
AssembleSwapped ==
  LET closed == [d \in Sides |-> [child[d] EXCEPT ![tip[d]] = child[Opposite(d)][root]]]
  IN
  /\ pc = "splay"
  /\ key[root] = sought
  /\ child' = [d \in Sides |-> [closed[d] EXCEPT ![root] = closed[d][dummy]]]
  /\ pc' = "use"
  /\ UNCHANGED <<key, payload, root, tip, spare, made, sought>>

\* The loop is over: the subtrees of root close the side trees, and these become
\* its subtrees.
Assemble ==
  LET closed == [d \in Sides |-> [child[d] EXCEPT ![tip[d]] = child[Opposite(d)][root]]]
  IN
  /\ pc = "splay"
  /\ key[root] = sought
  /\ child' = [d \in Sides |-> [closed[d] EXCEPT ![root] = closed[Opposite(d)][dummy]]]
  /\ pc' = "use"
  /\ UNCHANGED <<key, payload, root, tip, spare, made, sought>>

----------------------------------------------------------------------------
(* instrument_before_bb_first_instr *)

UseKnown ==
  /\ pc = "use"
  /\ payload[root] # NULL
  /\ pc' = "idle"
  /\ UNCHANGED <<tree, payload, tip, spare, made, sought>>

\* Mutant: next_splay_node is not replaced.
UseNewKeepsSpare ==
  /\ pc = "use"
  /\ payload[root] = NULL
  /\ made' = made + 1
  /\ payload' = [payload EXCEPT ![root] = made']
  /\ pc' = "idle"
  /\ UNCHANGED <<tree, tip, spare, sought>>

\* bb_node_create, and the next object of the splay_node_cache.
UseNew ==
  /\ pc = "use"
  /\ payload[root] = NULL
  /\ made' = made + 1
  /\ payload' = [payload EXCEPT ![root] = made']
  /\ spare' = spare + 1
  /\ pc' = "idle"
  /\ UNCHANGED <<tree, tip, sought>>

Next ==
  \/ \E k \in Keys : Plant(k) \/ Begin(k)
  \/ \E d \in Sides : Step(d)
  \/ Assemble
  \/ UseKnown
  \/ UseNew

\* The thread goes on with an access it has begun.
Fairness ==
  /\ WF_vars(\E d \in Sides : Step(d))
  /\ WF_vars(Assemble)
  /\ WF_vars(UseKnown \/ UseNew)

Spec == Init /\ [][Next]_vars /\ Fairness

----------------------------------------------------------------------------
(* Properties. *)

\* The links that count: a tip's inner link is about to be overwritten.
Link(d, n) == IF pc = "splay" /\ n = tip[d] THEN NULL ELSE child[d][n]

\* The nodes at and below n.
Below(n) ==
  LET closure[s \in SUBSET Nodes] ==
        LET more == s \cup ({Link(d, m) : d \in Sides, m \in s} \ {NULL})
        IN IF more = s THEN s ELSE closure[more]
  IN closure[{n} \ {NULL}]

\* The side tree that grows on side d, and everything in the tree.
SideTree(d) == IF pc = "splay" THEN Below(Link(d, dummy)) ELSE {}
InTree == Below(root) \cup SideTree("left") \cup SideTree("right")

\* The search order holds in every piece of the tree, also between two iterations:
\* all nodes of a subtree lie on its side of their root, the left tree lies left of
\* the middle and of the key, the right tree right of them.
Ordered ==
  /\ \A d \in Sides : \A n \in InTree : \A m \in Below(Link(d, n)) :
       Beyond(d, key[m], key[n])
  /\ \A d \in Sides : \A n \in SideTree(d) :
       /\ Beyond(d, sought, key[n])
       /\ \A m \in Below(root) : Beyond(d, key[m], key[n])

\* The spare node is in the tree only until it gets its payload, so the same
\* object is never linked in twice; and what an access ends at is the key.
SpareUsedOnce ==
  /\ spare \in InTree => root = spare
  /\ pc = "use" => key[root] = sought /\ (payload[root] = NULL <=> root = spare)

\* Every access ends: the loop never runs in a circle of links.
AccessEnds == pc = "splay" ~> pc = "idle"

\* The payloads the tree can find, by key.
FoundPayloads ==
  LET reached == {n \in InTree : payload[n] # NULL} IN
  [k \in {key[n] : n \in reached} |-> payload[CHOOSE n \in reached : key[n] = k]]

Map == INSTANCE CalleeMap WITH
  Payloads <- 1 .. Count,
  payloads <- FoundPayloads,
  asked <- sought,
  answer <- IF pc = "idle" /\ root # NULL THEN payload[root] ELSE NULL

\* The tree is the map module CCT takes it for: a block entered again under the same
\* caller gets the bb node it got before, whatever the accesses in between did.
ImplementsMap == Map!Spec
=============================================================================
