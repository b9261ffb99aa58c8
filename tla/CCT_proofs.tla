----------------------------- MODULE CCT_proofs -----------------------------
(***************************************************************************)
(* Theorems about CCT for every set of threads and blocks and every limit. *)
(* IndInv is inductive; each safety property is one of its conjuncts or    *)
(* follows from them.  The proof that a step preserves it treats the four  *)
(* actions that touch the tree (creating a node, one store of the fill     *)
(* loop, the two publications) one conjunct at a time.                     *)
(***************************************************************************)
EXTENDS CCT, TLAPS

\* The constants and the range of a node are numbers.
LEMMA RangeType ==
  ASSUME TypeOK, NEW n \in DOMAIN node
  PROVE  /\ n \in NodeId
         /\ n[1] \in Threads /\ n[2] \in Nat /\ n = <<n[1], n[2]>>
         /\ node[n] \in NodeRec
         /\ node[n].parent_bb \in NodeId \cup {NULL}
         /\ node[n].key \in Blocks \cup {RootKey}
         /\ node[n].start \in Nat
         /\ node[n].max_slots \in Nat \ {0}
         /\ EndCtxt(n) \in Nat
         /\ node[n].start <= EndCtxt(n)
  BY DEF TypeOK, NodeRec, NodeId, EndCtxt

\* Before any thread starts there is no node and no handle is given: the invariant holds.
THEOREM InitInv == Init => IndInv
<1> SUFFICES ASSUME Init PROVE IndInv
  OBVIOUS
<1>1. TypeOK
  BY DEF Init, TypeOK, FirstHandle, Pcs, PreStates, EndStates, NodeRec
<1>2. NodeInv /\ FillInv /\ CalleeInv
  BY DEF Init, NodeInv, FillInv, CalleeInv
<1>3. ThreadInv
  <2>1. \A t \in Threads :
          /\ building[t] = NULL /\ root_bb[t] = NULL /\ cur_bb[t] = NULL
          /\ sig_bb[t] = NULL /\ pc[t] = "unborn" /\ pre_state[t] = "root"
          /\ sig_depth[t] = 0
    BY DEF Init
  <2>2. SUFFICES ASSUME NEW t \in Threads PROVE ThreadInv!(t)
    BY DEF ThreadInv
  <2>. QED  BY <2>1 DEF Owned
<1>4. HandleRangesDisjoint /\ OneNodePerCallPath /\ CallersAreCallSites
  BY DEF Init, HandleRangesDisjoint, OneNodePerCallPath, CallersAreCallSites
<1>. QED
  BY <1>1, <1>2, <1>3, <1>4 DEF IndInv, Init, FirstHandle

\* The node a running thread hangs the next block under is its own, published,
\* and a root or a call site.
LEMMA CallerOK ==
  ASSUME IndInv, NEW t \in Threads, pc[t] = "run", NewCaller(t) # NULL
  PROVE  /\ NewCaller(t) \in DOMAIN node
         /\ NewCaller(t)[1] = t
         /\ Published(NewCaller(t))
         /\ \/ node[NewCaller(t)].key = RootKey
            \/ EndState[node[NewCaller(t)].key] = "call"
<1> DEFINE c == cur_bb[t]
<1> DEFINE Good(x) == /\ x \in DOMAIN node /\ x[1] = t /\ Published(x)
                      /\ node[x].key = RootKey \/ EndState[node[x].key] = "call"
<1>1. root_bb[t] \in DOMAIN node /\ c \in DOMAIN node
  BY DEF IndInv, TypeOK, ThreadInv
<1>2. Good(root_bb[t])
  BY <1>1 DEF IndInv, ThreadInv, Owned
<1>3. c[1] = t /\ Published(c)
  BY <1>1 DEF IndInv, ThreadInv, Owned
<1>4. ASSUME NEW n \in DOMAIN node, n[1] = t, node[n].parent_bb # NULL
      PROVE  Good(node[n].parent_bb)
  BY <1>4 DEF IndInv, NodeInv, CallersAreCallSites
<1>5. pre_state[t] \in {"root", "call", "ret", "other"}
  BY DEF IndInv, TypeOK, PreStates, EndStates
<1>6. CASE pre_state[t] = "root"
  BY <1>6, <1>2 DEF NewCaller
<1>7. CASE pre_state[t] = "call"
  BY <1>7, <1>1, <1>3 DEF NewCaller, IndInv, ThreadInv
<1>8. CASE pre_state[t] = "other"
  <2>1. NewCaller(t) = node[c].parent_bb
    BY <1>8, <1>1 DEF NewCaller, ParentOf
  <2>. QED  BY <2>1, <1>1, <1>3, <1>4
<1>9. CASE pre_state[t] = "ret"
  <2>1. CASE node[c].parent_bb = root_bb[t]
    BY <2>1, <1>9, <1>1, <1>2 DEF NewCaller, ParentOf
  <2>2. CASE node[c].parent_bb # root_bb[t]
    <3>1. /\ node[c].parent_bb # NULL
          /\ NewCaller(t) = node[node[c].parent_bb].parent_bb
      BY <2>2, <1>9, <1>1 DEF NewCaller, ParentOf
    <3>2. Good(node[c].parent_bb)
      BY <3>1, <1>1, <1>3, <1>4
    <3>. QED  BY <3>1, <3>2, <1>4
  <2>. QED  BY <2>1, <2>2
<1>. QED  BY <1>5, <1>6, <1>7, <1>8, <1>9

----------------------------------------------------------------------------
(* Steps that only move a thread leave the trees as they are. *)

TreeInv ==
  /\ idle_idx >= FirstHandle
  /\ NodeInv /\ HandleRangesDisjoint /\ FillInv
  /\ CalleeInv /\ OneNodePerCallPath /\ CallersAreCallSites

\* What IndInv says of the tree depends on the shared globals and on nodes under
\* construction only: a step that touches neither keeps it.
LEMMA Quiet ==
  ASSUME TreeInv, UNCHANGED <<shared, build>>
  PROVE  TreeInv'
BY DEF TreeInv, shared, build, NodeInv, HandleRangesDisjoint, FillInv, CalleeInv,
       OneNodePerCallPath, CallersAreCallSites, EndCtxt, CtxtRange, Published, Found

\* A thread that takes an id touches nothing of the tree.
LEMMA ThreadStartInv ==
  ASSUME IndInv, NEW t \in Threads, ThreadStart(t)
  PROVE  IndInv'
<1>. USE DEF ThreadStart, NewId, shared, registry, build, position, signals
<1>1. TreeInv'
  BY Quiet DEF IndInv, TreeInv
<1>2. TypeOK'
  BY DEF IndInv, TypeOK, Pcs
<1>3. ThreadInv'
  <2>1. SUFFICES ASSUME NEW u \in Threads PROVE ThreadInv!(u)'
    BY DEF ThreadInv
  <2>2. pc'[u] = IF u = t THEN IF thread_id_max > ThreadMax THEN "exit" ELSE "init"
                 ELSE pc[u]
    BY DEF IndInv, TypeOK
  <2>3. ThreadInv!(u)
    BY DEF IndInv, ThreadInv
  <2>. QED  BY <2>2, <2>3 DEF Owned, Published
<1>. QED  BY <1>1, <1>2, <1>3 DEF IndInv, TreeInv

\* A thread that ends, or follows a null caller, leaves the tree as it is.
LEMMA ThreadStopInv ==
  ASSUME IndInv, NEW t \in Threads, ThreadEnd(t) \/ EnterNull(t)
  PROVE  IndInv'
<1>. USE DEF ThreadEnd, EnterNull, shared, registry, build, position, signals
<1>1. TreeInv'
  BY Quiet DEF IndInv, TreeInv
<1>2. TypeOK'
  BY DEF IndInv, TypeOK, Pcs
<1>3. ThreadInv'
  <2>1. SUFFICES ASSUME NEW u \in Threads PROVE ThreadInv!(u)'
    BY DEF ThreadInv
  <2>2. \/ pc'[u] = pc[u]
        \/ u = t /\ pc[u] = "run" /\ pc'[u] \in {"ended", "crash"}
    BY DEF IndInv, TypeOK
  <2>3. ThreadInv!(u)
    BY DEF IndInv, ThreadInv
  <2>. QED  BY <2>2, <2>3 DEF Owned, Published
<1>. QED  BY <1>1, <1>2, <1>3 DEF IndInv, TreeInv

\* A kernel transfer saves or restores the cursor and nothing else; a restored cursor is
\* a node of the thread's own tree, and no call site is pending then.
LEMMA SignalKeeps ==
  ASSUME IndInv, NEW t \in Threads, SignalDeliver(t) \/ SignalReturn(t)
  PROVE  IndInv'
<1>. USE DEF SignalDeliver, SignalReturn, shared, registry, build, position, signals
<1>1. TreeInv'
  BY Quiet DEF IndInv, TreeInv
<1>2. TypeOK'
  <2>1. sig_depth' \in [Threads -> Nat]
    <3>1. /\ sig_depth \in [Threads -> Nat]
          /\ \/ sig_depth' = [sig_depth EXCEPT ![t] = @ + 1]
             \/ sig_depth[t] > 0 /\ sig_depth' = [sig_depth EXCEPT ![t] = @ - 1]
      BY DEF IndInv, TypeOK
    <3>2. sig_depth[t] \in Nat
      BY <3>1
    <3>. QED  BY <3>1, <3>2
  <2>2. CASE SignalDeliver(t)
    BY <2>1, <2>2 DEF IndInv, TypeOK
  <2>3. CASE SignalReturn(t)
    BY <2>1, <2>3 DEF IndInv, TypeOK
  <2>. QED  BY <2>2, <2>3
<1>3. ThreadInv'
  <2>1. SUFFICES ASSUME NEW u \in Threads PROVE ThreadInv!(u)'
    BY DEF ThreadInv
  <2>2. ThreadInv!(u) /\ sig_depth[u] \in Nat
    BY DEF IndInv, ThreadInv, TypeOK
  <2>3. CASE u # t
    BY <2>2, <2>3 DEF IndInv, TypeOK, Owned, Published
  <2>4. CASE u = t /\ SignalDeliver(t)
    BY <2>2, <2>4 DEF IndInv, TypeOK, Owned, Published
  <2>5. CASE u = t /\ SignalReturn(t)
    BY <2>2, <2>5 DEF IndInv, TypeOK, Owned, Published
  <2>. QED  BY <2>3, <2>4, <2>5
<1>. QED  BY <1>1, <1>2, <1>3 DEF IndInv, TreeInv

\* Entering a block whose node is there moves the cursor to a child of the new caller.
LEMMA EnterKnownInv ==
  ASSUME IndInv, NEW t \in Threads, NEW b \in Blocks, EnterKnown(t, b)
  PROVE  IndInv'
<1>. USE DEF EnterKnown, MoveTo, shared, registry, build, position, signals
<1>1. TreeInv'
  BY Quiet DEF IndInv, TreeInv
<1>2. PICK n \in Found(NewCaller(t), b) : MoveTo(t, n)
  BY DEF EnterKnown
<1>3. NewCaller(t) \in DOMAIN node /\ NewCaller(t)[1] = t
  BY CallerOK
<1>4. /\ n \in DOMAIN node /\ node[n].key = b /\ b # RootKey
      /\ Published(n) /\ node[n].parent_bb = NewCaller(t)
  BY <1>2, <1>3, BlocksAssumption DEF Found, IndInv, TypeOK, CalleeInv
<1>5. n[1] = t
  BY <1>3, <1>4 DEF IndInv, NodeInv
<1>6. TypeOK'
  <2>1. EndState[b] \in PreStates /\ node[n].start \in Nat
    BY <1>4, BlocksAssumption DEF IndInv, TypeOK, PreStates, NodeRec
  <2>. QED  BY <1>2, <1>4, <2>1 DEF IndInv, TypeOK
<1>7. ThreadInv'
  <2>1. SUFFICES ASSUME NEW u \in Threads PROVE ThreadInv!(u)'
    BY DEF ThreadInv
  <2>2. ThreadInv!(u) /\ NULL \notin DOMAIN node
    BY NullAssumption DEF IndInv, ThreadInv, TypeOK
  <2>3. CASE u # t
    BY <1>2, <2>2, <2>3 DEF IndInv, TypeOK, Owned, Published
  <2>4. CASE u = t
    <3>1. /\ cur_bb'[t] = n /\ pre_state'[t] = EndState[b]
      BY <1>2, <1>4 DEF IndInv, TypeOK
    <3>. QED  BY <2>2, <2>4, <3>1, <1>4, <1>5 DEF IndInv, TypeOK, Owned, Published
  <2>. QED  BY <2>3, <2>4
<1>. QED  BY <1>1, <1>6, <1>7 DEF IndInv, TreeInv

----------------------------------------------------------------------------
(* bb_node_create: the fetch-and-add and the new object. *)

\* bb_node_create behind the handle limit: the mark has moved and the thread exits.
LEMMA CreateExit ==
  ASSUME IndInv, NEW t \in Threads, pc[t] \in {"init", "run"},
         NEW num \in Nat \ {0}, idle_idx' = idle_idx + num,
         pc' = [pc EXCEPT ![t] = "exit"],
         UNCHANGED <<ip_node, node, callees, build, registry, position, signals>>
  PROVE  IndInv'
<1>. USE DEF registry, build, position, signals
<1>1. NodeInv' /\ FillInv' /\ CalleeInv' /\ OneNodePerCallPath' /\ CallersAreCallSites'
  BY DEF IndInv, NodeInv, FillInv, CalleeInv, OneNodePerCallPath,
         CallersAreCallSites, EndCtxt, CtxtRange, Published, Found
<1>2. idle_idx' >= FirstHandle /\ HandleRangesDisjoint'
  <2>1. idle_idx \in Nat /\ idle_idx >= FirstHandle /\ idle_idx < idle_idx'
    BY DEF IndInv, TypeOK, FirstHandle
  <2>2. \A n \in DOMAIN node : EndCtxt(n) \in Nat /\ EndCtxt(n) < idle_idx
    BY RangeType DEF IndInv, HandleRangesDisjoint
  <2>3. \A n \in DOMAIN node : EndCtxt(n)' = EndCtxt(n)
    BY DEF EndCtxt
  <2>4. \A n \in DOMAIN node : EndCtxt(n)' < idle_idx'
    BY <2>1, <2>2, <2>3
  <2>. QED  BY <2>1, <2>3, <2>4 DEF IndInv, HandleRangesDisjoint, FirstHandle
<1>3. TypeOK'
  <2>1. TypeOK
    BY DEF IndInv
  <2>. QED  BY <2>1 DEF TypeOK, Pcs
<1>4. ThreadInv'
  <2>1. SUFFICES ASSUME NEW u \in Threads PROVE ThreadInv!(u)'
    BY DEF ThreadInv
  <2>2. pc'[u] = IF u = t THEN "exit" ELSE pc[u]
    BY DEF IndInv, TypeOK
  <2>3. ThreadInv!(u)
    BY DEF IndInv, ThreadInv
  <2>. QED  BY <2>2, <2>3 DEF Owned, Published
<1>. QED  BY <1>1, <1>2, <1>3, <1>4 DEF IndInv

\* bb_node_create below the handle limit: the range it carves out of the array is above
\* every other, and its node is of a key the caller's tree does not hold.
LEMMA CreateInv ==
  ASSUME IndInv, NEW t \in Threads, pc[t] \in {"init", "run"},
         NEW num \in Nat \ {0}, NEW key \in Blocks \cup {RootKey},
         NEW parent \in DOMAIN node \cup {NULL},
         parent = NULL <=> key = RootKey,
         root_bb[t] = NULL <=> key = RootKey,
         parent # NULL => /\ parent[1] = t /\ Published(parent)
                          /\ Found(parent, key) = {}
                          /\ \/ node[parent].key = RootKey
                             \/ EndState[node[parent].key] = "call",
         CreateNode(t, key, parent, num), idle_idx' < HandleMax,
         UNCHANGED <<ip_node, registry, position, signals>>
  PROVE  IndInv'
<1>n. PICK n : n = <<t, made[t]>>
  OBVIOUS
<1>. USE DEF registry, position, signals
<1>. DEFINE rec == [parent_bb |-> parent, key |-> key, start |-> idle_idx,
                    max_slots |-> num]
<1>1. /\ idle_idx \in Nat /\ idle_idx >= 2 /\ idle_idx' = idle_idx + num
      /\ idle_idx' \in Nat /\ made[t] \in Nat /\ building[t] = NULL
      /\ n \in NodeId /\ NULL \notin NodeId
  <2>1. idle_idx \in Nat /\ idle_idx >= 2 /\ made[t] \in Nat
    BY DEF IndInv, TypeOK, FirstHandle
  <2>2. building[t] = NULL
    BY DEF IndInv, ThreadInv
  <2>3. idle_idx' = idle_idx + num
    BY DEF CreateNode
  <2>. QED  BY <1>n, <2>1, <2>2, <2>3, NullAssumption DEF NodeId
<1>0. /\ node' = [m \in DOMAIN node \cup {n} |-> IF m = n THEN rec ELSE node[m]]
      /\ callees' = [m \in DOMAIN node \cup {n} |-> IF m = n THEN {} ELSE callees[m]]
      /\ made' = [made EXCEPT ![t] = @ + 1]
      /\ building' = [building EXCEPT ![t] = n]
      /\ filled' = [filled EXCEPT ![t] = 0]
      /\ pc' = [pc EXCEPT ![t] = "fill"]
  <2>1. ~ (idle_idx' >= HandleMax)
    BY <1>1, LimitsAssumption
  <2>. QED  BY <1>n, <2>1 DEF CreateNode, ClaimedStart, build
<1>2. n \notin DOMAIN node
  <2>1. \A m \in DOMAIN node : m[2] < made[m[1]] /\ m[2] \in Nat
    BY RangeType DEF IndInv, NodeInv
  <2>. QED  BY <1>n, <1>1, <2>1
<1>3. /\ DOMAIN node' = DOMAIN node \cup {n}
      /\ \A m \in DOMAIN node : node'[m] = node[m]
      /\ node'[n].parent_bb = parent /\ node'[n].key = key
      /\ node'[n].start = idle_idx /\ node'[n].max_slots = num
      /\ node'[n] \in NodeRec
  <2>1. rec \in NodeRec
    BY <1>1 DEF NodeRec, IndInv, TypeOK
  <2>. QED  BY <2>1, <1>0, <1>2
<1>4. /\ DOMAIN callees' = DOMAIN node'
      /\ \A m \in DOMAIN node : callees'[m] = callees[m]
      /\ callees'[n] = {}
  <2>. QED  BY <1>0, <1>2, <1>3
<1>6. /\ \A u \in Threads : building'[u] = IF u = t THEN n ELSE building[u]
      /\ \A u \in Threads : filled'[u] = IF u = t THEN 0 ELSE filled[u]
      /\ \A u \in Threads : pc'[u] = IF u = t THEN "fill" ELSE pc[u]
      /\ \A u \in Threads : made'[u] = IF u = t THEN made[t] + 1 ELSE made[u]
  BY <1>0 DEF IndInv, TypeOK
<1>7. \A m \in DOMAIN node : Published(m)' <=> Published(m)
  BY ZenonT(60), <1>1, <1>2, <1>6 DEF Published, IndInv, TypeOK
<1>8. /\ \A m \in DOMAIN node : EndCtxt(m)' = EndCtxt(m) /\ CtxtRange(m)' = CtxtRange(m)
      /\ EndCtxt(n)' = idle_idx' - 1
  <2>1. \A m \in DOMAIN node : EndCtxt(m)' = EndCtxt(m) /\ CtxtRange(m)' = CtxtRange(m)
    BY <1>3 DEF EndCtxt, CtxtRange
  <2>2. EndCtxt(n)' = node'[n].start + node'[n].max_slots - 1
    BY DEF EndCtxt
  <2>3. EndCtxt(n)' = idle_idx + num - 1
    BY <2>2, <1>3
  <2>. QED  BY <2>1, <2>3, <1>1
<1>9. TypeOK'
  <2>1. node' \in [DOMAIN node' -> NodeRec] /\ DOMAIN node' \subseteq NodeId
    <3>1. \A m \in DOMAIN node' : node'[m] \in NodeRec
      BY <1>3 DEF IndInv, TypeOK
    <3>2. node' = [m \in DOMAIN node' |-> node'[m]]
      BY <1>0
    <3>. QED  BY <3>1, <3>2, <1>1, <1>3 DEF IndInv, TypeOK
  <2>2. callees' \in [DOMAIN node' -> SUBSET DOMAIN node']
    <3>1. \A m \in DOMAIN node' : callees'[m] \in SUBSET DOMAIN node'
      BY <1>3, <1>4 DEF IndInv, TypeOK
    <3>2. callees' = [m \in DOMAIN node' |-> callees'[m]]
      BY <1>0, <1>3
    <3>. QED  BY <3>1, <3>2
  <2>3. /\ made' \in [Threads -> Nat] /\ filled' \in [Threads -> Nat]
        /\ pc' \in [Threads -> Pcs] /\ building' \in [Threads -> DOMAIN node' \cup {NULL}]
    BY <1>0, <1>1, <1>3 DEF IndInv, TypeOK, Pcs
  <2>4. /\ root_bb' \in [Threads -> DOMAIN node' \cup {NULL}]
        /\ cur_bb' \in [Threads -> DOMAIN node' \cup {NULL}]
        /\ sig_bb' \in [Threads -> DOMAIN node' \cup {NULL}]
    BY <1>3 DEF IndInv, TypeOK
  <2>. QED  BY <1>1, <2>1, <2>2, <2>3, <2>4 DEF IndInv, TypeOK
<1>10. NodeInv'
  <2>1. SUFFICES ASSUME NEW m \in DOMAIN node' PROVE NodeInv!(m)'
    BY DEF NodeInv
  <2>2. CASE m \in DOMAIN node
    <3>1. NodeInv!(m) /\ m[1] \in Threads /\ m[2] \in Nat /\ made[m[1]] \in Nat
      BY <2>2, RangeType DEF IndInv, NodeInv, TypeOK
    <3>2. made[m[1]] <= made'[m[1]] /\ made'[m[1]] \in Nat
      BY <3>1, <1>1, <1>6
    <3>. QED  BY <3>1, <3>2, <2>2, <1>3, <1>7, <1>8
  <2>3. CASE m = n
    <3>1. parent # NULL => EndCtxt(parent) < idle_idx /\ EndCtxt(parent)' = EndCtxt(parent)
      BY <1>8 DEF IndInv, HandleRangesDisjoint
    <3>. QED  BY <2>3, <3>1, <1>n, <1>1, <1>3, <1>6, <1>7
  <2>. QED  BY <1>3, <2>2, <2>3
<1>11. ThreadInv'
  <2>1. SUFFICES ASSUME NEW u \in Threads PROVE ThreadInv!(u)'
    BY DEF ThreadInv
  <2>2. ThreadInv!(u)
    BY DEF IndInv, ThreadInv
  <2>3. \A x \in DOMAIN node \cup {NULL} : Owned(u, x) => Owned(u, x)'
    BY <1>7 DEF Owned
  <2>4. /\ root_bb[u] \in DOMAIN node \cup {NULL} /\ cur_bb[u] \in DOMAIN node \cup {NULL}
        /\ sig_bb[u] \in DOMAIN node \cup {NULL} /\ building[u] \in DOMAIN node \cup {NULL}
    BY DEF IndInv, TypeOK
  <2>5. Owned(u, root_bb[u])' /\ Owned(u, cur_bb[u])' /\ Owned(u, sig_bb[u])'
    BY <2>2, <2>3, <2>4 DEF Owned
  <2>6. CASE u # t
    BY <2>2, <2>4, <2>5, <2>6, <1>3, <1>6
  <2>7. CASE u = t
    BY <2>2, <2>4, <2>5, <2>7, <1>n, <1>1, <1>3, <1>6
  <2>. QED  BY <2>6, <2>7
<1>12. HandleRangesDisjoint'
  <2>1. \A m \in DOMAIN node :
          /\ FirstHandle <= node[m].start /\ node[m].start \in Nat
          /\ EndCtxt(m) \in Nat /\ EndCtxt(m) < idle_idx /\ EndCtxt(m) < HandleMax
    BY RangeType DEF IndInv, HandleRangesDisjoint
  <2>2. \A m \in DOMAIN node' :
          /\ FirstHandle <= node'[m].start
          /\ EndCtxt(m)' < idle_idx' /\ EndCtxt(m)' < HandleMax
    <3>1. \A m \in DOMAIN node : EndCtxt(m) < idle_idx'
      BY <2>1, <1>1
    <3>2. /\ FirstHandle <= node'[n].start
          /\ EndCtxt(n)' < idle_idx' /\ EndCtxt(n)' < HandleMax
      BY <1>1, <1>3, <1>8, LimitsAssumption DEF FirstHandle
    <3>. QED  BY <2>1, <3>1, <3>2, <1>3, <1>8
  <2>3. ASSUME NEW m \in DOMAIN node', NEW k \in DOMAIN node', m # k
        PROVE  EndCtxt(m)' < node'[k].start \/ EndCtxt(k)' < node'[m].start
    BY <2>1, <2>3, <1>1, <1>3, <1>8 DEF IndInv, HandleRangesDisjoint
  <2>. QED  BY <2>2, <2>3 DEF HandleRangesDisjoint, FirstHandle
<1>13. FillInv'
  <2>1. \A m \in DOMAIN node' : Published(m)' => m \in DOMAIN node
    BY <1>3, <1>6 DEF Published
  <2>2. \A u \in Threads : building'[u] # NULL =>
          \A i \in 0 .. filled'[u] - 1 : ip_node'[node'[building'[u]].start + i] = building'[u]
    <3>1. \A u \in Threads : building[u] # NULL => building[u] \in DOMAIN node
      BY DEF IndInv, TypeOK
    <3>. QED  BY <3>1, <1>3, <1>6 DEF IndInv, FillInv
  <2>. QED  BY <2>1, <2>2, <1>7, <1>8 DEF IndInv, FillInv
<1>14. CalleeInv'
  <2>1. \A c \in DOMAIN node : \A m \in callees[c] : m \in DOMAIN node
    BY DEF IndInv, TypeOK
  <2>2. \A c \in DOMAIN node' : \A m \in callees'[c] :
          node'[m].parent_bb = c /\ Published(m)'
    BY <2>1, <1>3, <1>4, <1>7 DEF IndInv, CalleeInv
  <2>3. \A m \in DOMAIN node' : Published(m)' /\ node'[m].parent_bb # NULL
          => m \in callees'[node'[m].parent_bb]
    BY <1>3, <1>4, <1>6, <1>7 DEF IndInv, CalleeInv, NodeInv, Published
  <2>4. ASSUME NEW c \in DOMAIN node, NEW k PROVE Found(c, k)' = Found(c, k)
    BY <2>1, <1>3, <1>4 DEF Found
  <2>5. ASSUME NEW u \in Threads, building'[u] # NULL,
               node'[building'[u]].parent_bb # NULL
        PROVE  Found(node[building[u]].parent_bb, node[building[u]].key)' = {}
    <3>1. CASE u = t
      BY <3>1, <2>4, <2>5, <1>3, <1>6
    <3>2. CASE u # t
      <4>1. building'[u] = building[u] /\ building[u] \in DOMAIN node
        BY <3>2, <2>5, <1>6 DEF IndInv, TypeOK
      <4>2. /\ node'[building[u]] = node[building[u]]
            /\ node[building[u]].parent_bb \in DOMAIN node
        BY <4>1, <2>5, <1>3 DEF IndInv, NodeInv
      <4>3. Found(node[building[u]].parent_bb, node[building[u]].key) = {}
        BY <4>1, <4>2, <2>5 DEF IndInv, CalleeInv
      <4>. QED  BY <4>1, <4>2, <4>3, <2>4
    <3>. QED  BY <3>1, <3>2
  <2>. QED  BY <2>2, <2>3, <2>5 DEF CalleeInv
<1>15. OneNodePerCallPath'
  <2>1. ASSUME NEW m \in DOMAIN node, node[m].parent_bb = parent, parent # NULL
        PROVE  node[m].key # key
    <3>1. m[1] = t
      BY <2>1 DEF IndInv, NodeInv
    <3>2. Published(m)
      <4>1. \A u \in Threads : building[u] # NULL => building[u][1] = u
        BY DEF IndInv, ThreadInv
      <4>2. m # NULL
        BY <1>1 DEF IndInv, TypeOK
      <4>. QED  BY <4>1, <4>2, <3>1, <1>1 DEF Published
    <3>3. m \in callees[parent]
      BY <2>1, <3>2 DEF IndInv, CalleeInv
    <3>. QED  BY <2>1, <3>3 DEF Found
  <2>2. ASSUME NEW m \in DOMAIN node', NEW k \in DOMAIN node', m # k,
               node'[m].parent_bb # NULL
        PROVE  node'[m].parent_bb # node'[k].parent_bb \/ node'[m].key # node'[k].key
    BY <2>1, <2>2, <1>3 DEF IndInv, OneNodePerCallPath
  <2>. QED  BY <2>2 DEF OneNodePerCallPath
<1>16. CallersAreCallSites'
  BY <1>3 DEF IndInv, CallersAreCallSites, NodeInv
<1>. QED
  BY <1>1, <1>9, <1>10, <1>11, <1>12, <1>13, <1>14, <1>15, <1>16 DEF IndInv, FirstHandle

\* The root of a new thread's tree, whichever side of the limit its handle is on.
LEMMA CreateRootInv ==
  ASSUME IndInv, NEW t \in Threads, CreateRoot(t)
  PROVE  IndInv'
<1>1. root_bb[t] = NULL /\ pc[t] = "init"
  BY DEF CreateRoot, IndInv, ThreadInv
<1>2. CASE idle_idx' >= HandleMax
  BY <1>1, <1>2, CreateExit DEF CreateRoot, CreateNode
<1>3. CASE ~ (idle_idx' >= HandleMax)
  <2>1. idle_idx' < HandleMax
    BY <1>3, LimitsAssumption DEF CreateRoot, CreateNode, IndInv, TypeOK
  <2>. QED  BY <1>1, <2>1, CreateInv DEF CreateRoot
<1>. QED  BY <1>2, <1>3

\* A block entered for the first time under its caller, on either side of the limit.
LEMMA EnterNewInv ==
  ASSUME IndInv, NEW t \in Threads, NEW b \in Blocks, EnterNew(t, b)
  PROVE  IndInv'
<1>1. /\ root_bb[t] # NULL /\ pc[t] = "run"
      /\ b # RootKey /\ SlotNum[b] \in Nat \ {0}
  BY BlocksAssumption DEF EnterNew, IndInv, ThreadInv
<1>2. CASE idle_idx' >= HandleMax
  BY <1>1, <1>2, CreateExit DEF EnterNew, CreateNode
<1>3. CASE ~ (idle_idx' >= HandleMax)
  <2>1. idle_idx' < HandleMax
    <3>1. idle_idx' \in Nat
      BY <1>1 DEF EnterNew, CreateNode, IndInv, TypeOK
    <3>. QED  BY <3>1, <1>3, LimitsAssumption
  <2>2. /\ NewCaller(t) \in DOMAIN node /\ NewCaller(t) # NULL
        /\ NewCaller(t)[1] = t /\ Published(NewCaller(t))
        /\ \/ node[NewCaller(t)].key = RootKey
           \/ EndState[node[NewCaller(t)].key] = "call"
    BY CallerOK DEF EnterNew
  <2>. QED  BY <1>1, <2>1, <2>2, CreateInv DEF EnterNew
<1>. QED  BY <1>2, <1>3

----------------------------------------------------------------------------
(* bb_node_create: the loop over the IP nodes. *)

\* One turn of the loop over the IP nodes: the slot is in the thread's own range, so no
\* handle another thread has published changes.
LEMMA FillSlotInv ==
  ASSUME IndInv, NEW t \in Threads, FillSlot(t)
  PROVE  IndInv'
<1>n. PICK n : n = building[t]
  OBVIOUS
<1>. DEFINE h == node[n].start + filled[t]
<1>1. /\ n \in DOMAIN node /\ n # NULL /\ filled[t] \in Nat /\ filled[t] < node[n].max_slots
      /\ node[n].start \in Nat /\ node[n].max_slots \in Nat /\ h \in Nat /\ h <= EndCtxt(n)
      /\ ~ Published(n) /\ pc[t] = "fill"
  <2>1. n \in DOMAIN node /\ n # NULL /\ filled[t] \in Nat /\ pc[t] = "fill"
    BY <1>n DEF FillSlot, IndInv, TypeOK, ThreadInv
  <2>2. /\ filled[t] < node[n].max_slots
        /\ node[n].start \in Nat /\ node[n].max_slots \in Nat
    BY <1>n, <2>1, RangeType DEF FillSlot, Filled, IndInv
  <2>. QED  BY <1>n, <2>1, <2>2 DEF EndCtxt, Published
<1>2. h \in 0 .. HandleMax - 1
  <2>1. EndCtxt(n) \in Nat /\ EndCtxt(n) < HandleMax
    BY <1>1, RangeType DEF IndInv, HandleRangesDisjoint
  <2>. QED  BY <2>1, <1>1, LimitsAssumption
<1>3. /\ ip_node' = [ip_node EXCEPT ![h] = n]
      /\ filled' = [filled EXCEPT ![t] = @ + 1]
      /\ UNCHANGED <<idle_idx, node, callees, thread_id_max, pt_cache, id, pc, made, building>>
      /\ UNCHANGED <<root_bb, cur_bb, pre_state, ctxt_idx, sig_bb, sig_depth, sig_ran>>
  BY <1>n DEF FillSlot, registry, position, signals
<1>4. /\ \A g \in 0 .. HandleMax - 1 : ip_node'[g] = IF g = h THEN n ELSE ip_node[g]
      /\ \A u \in Threads : filled'[u] = IF u = t THEN filled[t] + 1 ELSE filled[u]
  BY <1>2, <1>3 DEF IndInv, TypeOK
<1>5. TypeOK'
  <2>1. ip_node' \in [0 .. HandleMax - 1 -> NodeId \cup {NULL}]
    BY <1>1, <1>2, <1>3 DEF IndInv, TypeOK
  <2>2. filled' \in [Threads -> Nat]
    BY <1>1, <1>3 DEF IndInv, TypeOK
  <2>. QED  BY <1>3, <2>1, <2>2 DEF IndInv, TypeOK
<1>6. /\ idle_idx' >= FirstHandle
      /\ NodeInv' /\ HandleRangesDisjoint' /\ CalleeInv'
      /\ OneNodePerCallPath' /\ CallersAreCallSites'
  BY <1>3 DEF IndInv, NodeInv, HandleRangesDisjoint, CalleeInv, OneNodePerCallPath,
              CallersAreCallSites, EndCtxt, Published, Found
<1>7. ThreadInv'
  <2>1. SUFFICES ASSUME NEW u \in Threads PROVE ThreadInv!(u)'
    BY DEF ThreadInv
  <2>2. ThreadInv!(u)
    BY DEF IndInv, ThreadInv
  <2>3. filled'[t] <= node[n].max_slots
    BY <1>1, <1>4
  <2>. QED  BY <2>2, <2>3, <1>n, <1>3, <1>4 DEF Owned, Published
<1>8. FillInv'
  <2>1. ASSUME NEW m \in DOMAIN node, NEW g \in CtxtRange(m)
        PROVE  /\ g \in 0 .. HandleMax - 1
               /\ m # n => g # h
    <3>1. /\ node[m].start \in Nat /\ EndCtxt(m) \in Nat /\ EndCtxt(m) < HandleMax
          /\ node[m].start <= g /\ g <= EndCtxt(m) /\ g \in Int
      BY <2>1, RangeType DEF IndInv, HandleRangesDisjoint, CtxtRange
    <3>2. m # n => EndCtxt(m) < node[n].start \/ EndCtxt(n) < node[m].start
      BY <1>1 DEF IndInv, HandleRangesDisjoint
    <3>3. EndCtxt(n) \in Nat
      BY <1>1, RangeType DEF IndInv
    <3>. QED  BY <3>1, <3>2, <3>3, <1>1, LimitsAssumption
  <2>2. ASSUME NEW m \in DOMAIN node, Published(m), NEW g \in CtxtRange(m)
        PROVE  ip_node'[g] = m
    BY <2>1, <2>2, <1>1, <1>4 DEF IndInv, FillInv
  <2>3. ASSUME NEW u \in Threads, building[u] # NULL, NEW i \in 0 .. filled'[u] - 1
        PROVE  ip_node'[node[building[u]].start + i] = building[u]
    <3>. DEFINE m == building[u]
    <3>1. m \in DOMAIN node /\ m[1] = u /\ filled[u] \in Nat /\ filled[u] <= node[m].max_slots
      BY <2>3 DEF IndInv, TypeOK, ThreadInv
    <3>2. node[m].start \in Nat /\ node[m].max_slots \in Nat
      BY <3>1, RangeType DEF IndInv
    <3>3. CASE u = t
      <4>1. m = n /\ i \in Nat /\ i <= filled[t]
        BY <3>3, <2>3, <1>n, <1>1, <1>4
      <4>2. CASE i = filled[t]
        BY <4>1, <4>2, <1>2, <1>4
      <4>3. CASE i < filled[t]
        <5>1. i \in 0 .. filled[t] - 1 /\ ip_node[node[m].start + i] = m
          BY <4>1, <4>3, <3>1, <3>3, <2>3 DEF IndInv, FillInv
        <5>2. node[m].start + i \in 0 .. HandleMax - 1 /\ node[m].start + i # h
          <6>1. node[n].start + i \in 0 .. HandleMax - 1 /\ node[n].start + i # h
            BY <4>1, <4>3, <1>1, <1>2, LimitsAssumption
          <6>. QED  BY <4>1, <6>1
        <5>. QED  BY <5>1, <5>2, <1>4
      <4>. QED  BY <4>1, <4>2, <4>3, <1>1
    <3>4. CASE u # t
      <4>1. i \in 0 .. filled[u] - 1 /\ ip_node[node[m].start + i] = m
        BY <3>4, <2>3, <1>4 DEF IndInv, FillInv
      <4>2. m # n
        BY <3>1, <3>4, <1>n, <1>1 DEF IndInv, ThreadInv
      <4>3. node[m].start + i \in CtxtRange(m)
        BY <4>1, <3>1, <3>2 DEF CtxtRange, EndCtxt
      <4>. QED  BY <4>1, <4>2, <4>3, <3>1, <2>1, <1>4
    <3>. QED  BY <3>3, <3>4
  <2>. QED  BY <2>2, <2>3, <1>3 DEF FillInv, Published, CtxtRange, EndCtxt
<1>. QED  BY <1>5, <1>6, <1>7, <1>8 DEF IndInv

----------------------------------------------------------------------------
(* Publication: the root in pt_init, a block's node in                     *)
(* instrument_before_bb_first_instr.                                       *)

\* A thread's finished node is its own, filled to the end, and not published.
LEMMA Finished ==
  ASSUME IndInv, NEW t \in Threads, pc[t] = "fill",
         Filled(t)
  PROVE  /\ building[t] \in DOMAIN node /\ building[t] # NULL
         /\ building[t][1] = t
         /\ \A g \in CtxtRange(building[t]) : ip_node[g] = building[t]
         /\ \A u \in Threads : u # t => building[u] # building[t]
<1>1. /\ building[t] \in DOMAIN node /\ building[t] # NULL /\ building[t][1] = t
  BY DEF IndInv, TypeOK, ThreadInv
<1>2. \A u \in Threads : u # t => building[u] # building[t]
  BY <1>1 DEF IndInv, ThreadInv
<1>4. filled[t] = node[building[t]].max_slots
  <2>1. filled[t] \in Nat /\ filled[t] <= node[building[t]].max_slots
    BY <1>1 DEF IndInv, TypeOK, ThreadInv
  <2>. QED  BY <2>1, <1>1, RangeType DEF Filled, IndInv
<1>3. ASSUME NEW g \in CtxtRange(building[t]) PROVE ip_node[g] = building[t]
  <2>. DEFINE s == node[building[t]].start
  <2>1. /\ s \in Nat /\ node[building[t]].max_slots \in Nat /\ g \in Int
        /\ s <= g /\ g <= s + node[building[t]].max_slots - 1
    BY <1>1, <1>3, RangeType DEF IndInv, CtxtRange, EndCtxt
  <2>2. g - s \in 0 .. filled[t] - 1 /\ s + (g - s) = g
    BY <2>1, <1>4
  <2>3. ip_node[s + (g - s)] = building[t]
    BY <2>2, <1>1 DEF IndInv, FillInv
  <2>. QED  BY <2>2, <2>3
<1>. QED  BY <1>1, <1>2, <1>3

\* The root is published when its one slot is filled.
LEMMA PublishRootInv ==
  ASSUME IndInv, NEW t \in Threads, PublishRoot(t)
  PROVE  IndInv'
<1>n. PICK n : n = building[t]
  OBVIOUS
<1>1. /\ n \in DOMAIN node /\ n # NULL /\ n[1] = t /\ NULL \notin DOMAIN node
      /\ \A g \in CtxtRange(n) : ip_node[g] = n
      /\ \A u \in Threads : u # t => building[u] # n
      /\ node[n].key = RootKey /\ node[n].parent_bb = NULL /\ pc[t] = "fill"
  <2>1. pc[t] = "fill" /\ Filled(t)
    BY DEF PublishRoot
  <2>2. n \in DOMAIN node /\ node[n].key = RootKey
    BY <1>n, <2>1, Finished DEF PublishRoot
  <2>3. node[n].parent_bb = NULL
    BY <2>2 DEF IndInv, NodeInv
  <2>. QED  BY <1>n, <2>1, <2>2, <2>3, Finished, NullAssumption DEF IndInv, TypeOK
<1>2. /\ root_bb' = [root_bb EXCEPT ![t] = n]
      /\ cur_bb' = [cur_bb EXCEPT ![t] = n]
      /\ pre_state' = [pre_state EXCEPT ![t] = "root"]
      /\ ctxt_idx' = [ctxt_idx EXCEPT ![t] = node[n].start]
      /\ sig_bb' = [sig_bb EXCEPT ![t] = NULL]
      /\ pt_cache' = [pt_cache EXCEPT ![id[t]] = t]
      /\ building' = [building EXCEPT ![t] = NULL]
      /\ pc' = [pc EXCEPT ![t] = "run"]
      /\ UNCHANGED <<idle_idx, ip_node, node, callees, thread_id_max, id, made, filled,
                     sig_depth, sig_ran>>
  BY <1>n DEF PublishRoot, shared
<1>3. \A m \in DOMAIN node : Published(m)' <=> (Published(m) \/ m = n)
  BY <1>n, <1>1, <1>2 DEF Published, IndInv, TypeOK
<1>4. TypeOK'
  <2>1. /\ root_bb' \in [Threads -> DOMAIN node \cup {NULL}]
        /\ cur_bb' \in [Threads -> DOMAIN node \cup {NULL}]
        /\ sig_bb' \in [Threads -> DOMAIN node \cup {NULL}]
        /\ building' \in [Threads -> DOMAIN node \cup {NULL}]
    BY <1>1, <1>2 DEF IndInv, TypeOK
  <2>2. /\ pre_state' \in [Threads -> PreStates] /\ pc' \in [Threads -> Pcs]
        /\ ctxt_idx' \in [Threads -> Nat]
        /\ pt_cache' \in [0 .. ThreadMax -> Threads \cup {NULL}]
    BY <1>1, <1>2, RangeType DEF IndInv, TypeOK, PreStates, Pcs
  <2>. QED  BY <1>2, <2>1, <2>2 DEF IndInv, TypeOK
<1>5. NodeInv' /\ HandleRangesDisjoint' /\ OneNodePerCallPath' /\ CallersAreCallSites'
  BY <1>2, <1>3 DEF IndInv, NodeInv, HandleRangesDisjoint, OneNodePerCallPath,
                    CallersAreCallSites, EndCtxt
<1>6. ThreadInv'
  <2>1. SUFFICES ASSUME NEW u \in Threads PROVE ThreadInv!(u)'
    BY DEF ThreadInv
  <2>2. ThreadInv!(u)
    BY DEF IndInv, ThreadInv
  <2>3. /\ root_bb[u] \in DOMAIN node \cup {NULL} /\ cur_bb[u] \in DOMAIN node \cup {NULL}
        /\ sig_bb[u] \in DOMAIN node \cup {NULL} /\ sig_depth[u] \in Nat
    BY DEF IndInv, TypeOK
  <2>4. CASE u # t
    <3>1. /\ Owned(u, root_bb[u]) => Owned(u, root_bb[u])'
          /\ Owned(u, cur_bb[u]) => Owned(u, cur_bb[u])'
          /\ Owned(u, sig_bb[u]) => Owned(u, sig_bb[u])'
      BY <2>3, <2>4, <1>2, <1>3 DEF Owned, IndInv, TypeOK
    <3>. QED  BY <2>2, <2>4, <3>1, <1>2 DEF IndInv, TypeOK
  <2>5. CASE u = t
    <3>1. /\ root_bb'[t] = n /\ cur_bb'[t] = n /\ sig_bb'[t] = NULL
          /\ building'[t] = NULL /\ pc'[t] = "run" /\ pre_state'[t] = "root"
      BY <1>2 DEF IndInv, TypeOK
    <3>2. root_bb[t] = NULL /\ sig_depth[t] = 0
      BY <1>n, <1>1 DEF IndInv, ThreadInv
    <3>3. Owned(t, n)'
      BY <1>1, <1>3 DEF Owned
    <3>. QED  BY <2>5, <3>1, <3>2, <3>3, <1>1, <1>2 DEF Owned
  <2>. QED  BY <2>4, <2>5
<1>7. FillInv'
  <2>1. \A m \in DOMAIN node : Published(m)' => \A g \in CtxtRange(m) : ip_node[g] = m
    BY <1>1, <1>3 DEF IndInv, FillInv
  <2>2. \A u \in Threads : building'[u] # NULL => building'[u] = building[u]
    BY <1>2 DEF IndInv, TypeOK
  <2>. QED  BY <2>1, <2>2, <1>2 DEF IndInv, FillInv, CtxtRange, EndCtxt
<1>8. CalleeInv'
  <2>1. \A u \in Threads : building'[u] # NULL => building'[u] = building[u]
    BY <1>2 DEF IndInv, TypeOK
  <2>2. \A c \in DOMAIN node : \A m \in callees[c] : m \in DOMAIN node
    BY DEF IndInv, TypeOK
  <2>. QED  BY <2>1, <2>2, <1>1, <1>2, <1>3 DEF IndInv, CalleeInv, Found
<1>. QED  BY <1>2, <1>4, <1>5, <1>6, <1>7, <1>8 DEF IndInv

\* A node is published when all its slots are filled, under the caller the thread is at.
LEMMA PublishInv ==
  ASSUME IndInv, NEW t \in Threads, Publish(t)
  PROVE  IndInv'
<1>n. PICK n : n = building[t]
  OBVIOUS
<1>p. PICK p : p = node[n].parent_bb
  OBVIOUS
<1>1. /\ n \in DOMAIN node /\ n # NULL /\ n[1] = t /\ NULL \notin DOMAIN node
      /\ \A g \in CtxtRange(n) : ip_node[g] = n
      /\ \A u \in Threads : u # t => building[u] # n
      /\ node[n].key # RootKey /\ node[n].key \in Blocks /\ pc[t] = "fill"
      /\ p \in DOMAIN node /\ p # NULL /\ p[1] = t
      /\ Found(p, node[n].key) = {}
  <2>1. pc[t] = "fill" /\ Filled(t)
    BY DEF Publish
  <2>2. n \in DOMAIN node /\ n # NULL /\ n[1] = t /\ node[n].key # RootKey
    BY <1>n, <2>1, Finished DEF Publish
  <2>3. p \in DOMAIN node /\ p # NULL /\ p[1] = t
    BY <2>2, <1>p DEF IndInv, NodeInv
  <2>4. Found(p, node[n].key) = {}
    BY <1>n, <1>p, <2>2, <2>3 DEF IndInv, CalleeInv
  <2>5. node[n].key \in Blocks
    BY <2>2, RangeType DEF IndInv
  <2>. QED  BY <1>n, <2>1, <2>2, <2>3, <2>4, <2>5, Finished, NullAssumption DEF IndInv, TypeOK
<1>2. /\ callees' = [callees EXCEPT ![p] = @ \cup {n}]
      /\ cur_bb' = [cur_bb EXCEPT ![t] = n]
      /\ pre_state' = [pre_state EXCEPT ![t] = EndState[node[n].key]]
      /\ ctxt_idx' = [ctxt_idx EXCEPT ![t] = node[n].start]
      /\ sig_ran' = [sig_ran EXCEPT ![t] = TRUE]
      /\ building' = [building EXCEPT ![t] = NULL]
      /\ pc' = [pc EXCEPT ![t] = "run"]
      /\ UNCHANGED <<idle_idx, ip_node, node, thread_id_max, pt_cache, id, made, filled,
                     root_bb, sig_bb, sig_depth>>
  BY <1>n, <1>p DEF Publish, AddCallee, MoveTo, registry
<1>3. \A m \in DOMAIN node : Published(m)' <=> (Published(m) \/ m = n)
  BY <1>n, <1>1, <1>2 DEF Published, IndInv, TypeOK
<1>4. \A c \in DOMAIN node : callees'[c] = IF c = p THEN callees[c] \cup {n} ELSE callees[c]
  BY <1>2 DEF IndInv, TypeOK
<1>5. TypeOK'
  <2>1. callees' \in [DOMAIN node -> SUBSET DOMAIN node]
    BY <1>1, <1>2 DEF IndInv, TypeOK
  <2>2. /\ cur_bb' \in [Threads -> DOMAIN node \cup {NULL}]
        /\ building' \in [Threads -> DOMAIN node \cup {NULL}]
        /\ sig_ran' \in [Threads -> BOOLEAN] /\ pc' \in [Threads -> Pcs]
    BY <1>1, <1>2 DEF IndInv, TypeOK, Pcs
  <2>3. pre_state' \in [Threads -> PreStates] /\ ctxt_idx' \in [Threads -> Nat]
    BY <1>1, <1>2, RangeType, BlocksAssumption DEF IndInv, TypeOK, PreStates
  <2>. QED  BY <1>2, <2>1, <2>2, <2>3 DEF IndInv, TypeOK
<1>6. NodeInv' /\ HandleRangesDisjoint' /\ OneNodePerCallPath' /\ CallersAreCallSites'
  BY <1>2, <1>3 DEF IndInv, NodeInv, HandleRangesDisjoint, OneNodePerCallPath,
                    CallersAreCallSites, EndCtxt
<1>7. ThreadInv'
  <2>1. SUFFICES ASSUME NEW u \in Threads PROVE ThreadInv!(u)'
    BY DEF ThreadInv
  <2>2. ThreadInv!(u)
    BY DEF IndInv, ThreadInv
  <2>3. /\ root_bb[u] \in DOMAIN node \cup {NULL} /\ cur_bb[u] \in DOMAIN node \cup {NULL}
        /\ sig_bb[u] \in DOMAIN node \cup {NULL} /\ sig_depth[u] \in Nat
    BY DEF IndInv, TypeOK
  <2>4. /\ Owned(u, root_bb[u]) => Owned(u, root_bb[u])'
        /\ Owned(u, sig_bb[u]) => Owned(u, sig_bb[u])'
        /\ u # t /\ Owned(u, cur_bb[u]) => Owned(u, cur_bb[u])'
    BY <2>3, <1>2, <1>3 DEF Owned, IndInv, TypeOK
  <2>5. CASE u # t
    BY <2>2, <2>4, <2>5, <1>2 DEF IndInv, TypeOK
  <2>6. CASE u = t
    <3>1. /\ cur_bb'[t] = n /\ building'[t] = NULL /\ pc'[t] = "run"
          /\ pre_state'[t] = EndState[node[n].key]
      BY <1>2 DEF IndInv, TypeOK
    <3>2. root_bb[t] # NULL
      BY <1>n, <1>1 DEF IndInv, ThreadInv
    <3>3. Owned(t, n)'
      BY <1>1, <1>3 DEF Owned
    <3>. QED  BY <2>2, <2>4, <2>6, <3>1, <3>2, <3>3, <1>1, <1>2
  <2>. QED  BY <2>5, <2>6
<1>8. FillInv'
  <2>1. \A m \in DOMAIN node : Published(m)' => \A g \in CtxtRange(m) : ip_node[g] = m
    BY <1>1, <1>3 DEF IndInv, FillInv
  <2>2. \A u \in Threads : building'[u] # NULL => building'[u] = building[u]
    BY <1>2 DEF IndInv, TypeOK
  <2>. QED  BY <2>1, <2>2, <1>2 DEF IndInv, FillInv, CtxtRange, EndCtxt
<1>9. CalleeInv'
  <2>1. \A c \in DOMAIN node : \A m \in callees'[c] : node[m].parent_bb = c /\ Published(m)'
    <3>1. \A c \in DOMAIN node : \A m \in callees[c] :
            m \in DOMAIN node /\ node[m].parent_bb = c /\ Published(m)'
      BY <1>3 DEF IndInv, TypeOK, CalleeInv
    <3>2. node[n].parent_bb = p /\ Published(n)'
      BY <1>p, <1>1, <1>3
    <3>3. \A c \in DOMAIN node : \A m \in callees'[c] : m \in callees[c] \/ (m = n /\ c = p)
      BY <1>4
    <3>. QED  BY <3>1, <3>2, <3>3
  <2>2. \A m \in DOMAIN node : Published(m)' /\ node[m].parent_bb # NULL
          => m \in callees'[node[m].parent_bb]
    BY <1>p, <1>1, <1>3, <1>4 DEF IndInv, CalleeInv, NodeInv
  <2>3. ASSUME NEW u \in Threads, building'[u] # NULL, node[building[u]].parent_bb # NULL
        PROVE  /\ building'[u] = building[u]
               /\ Found(node[building[u]].parent_bb, node[building[u]].key)' = {}
    <3>1. u # t /\ building'[u] = building[u] /\ building[u] \in DOMAIN node
      BY <2>3, <1>2 DEF IndInv, TypeOK
    <3>2. node[building[u]].parent_bb \in DOMAIN node /\ node[building[u]].parent_bb # p
      BY <2>3, <3>1, <1>1 DEF IndInv, NodeInv, ThreadInv
    <3>3. Found(node[building[u]].parent_bb, node[building[u]].key) = {}
      BY <2>3, <3>1 DEF IndInv, CalleeInv
    <3>4. callees'[node[building[u]].parent_bb] = callees[node[building[u]].parent_bb]
      BY <3>2, <1>4
    <3>. QED  BY <3>1, <3>3, <3>4, <1>2 DEF Found
  <2>. QED  BY <2>1, <2>2, <2>3, <1>2 DEF CalleeInv, Found
<1>. QED  BY <1>2, <1>5, <1>6, <1>7, <1>8, <1>9 DEF IndInv

----------------------------------------------------------------------------
(* The theorems. *)

\* IndInv is kept by every step of every thread.
THEOREM NextInv == IndInv /\ [Next]_vars => IndInv'
<1> SUFFICES ASSUME IndInv, [Next]_vars PROVE IndInv'
  OBVIOUS
<1>1. CASE UNCHANGED vars
  <2>1. TreeInv'
    BY <1>1, Quiet DEF IndInv, TreeInv, vars
  <2>2. TypeOK' /\ ThreadInv'
    BY <1>1 DEF IndInv, TypeOK, ThreadInv, Owned, Published, vars, shared, registry,
                build, position, signals
  <2>. QED  BY <2>1, <2>2 DEF IndInv, TreeInv
<1>2. CASE Next
  <2>1. PICK t \in Threads :
          \/ ThreadStart(t) \/ CreateRoot(t) \/ FillSlot(t) \/ PublishRoot(t)
          \/ \E b \in Blocks : EnterKnown(t, b) \/ EnterNew(t, b)
          \/ EnterNull(t) \/ Publish(t) \/ SignalDeliver(t) \/ SignalReturn(t)
          \/ ThreadEnd(t)
    BY <1>2 DEF Next
  <2>. QED
    BY <2>1, ThreadStartInv, CreateRootInv, FillSlotInv, PublishRootInv, EnterKnownInv,
       EnterNewInv, ThreadStopInv, PublishInv, SignalKeeps
<1>. QED  BY <1>1, <1>2

\* In every run of every program on any number of threads the inductive
\* invariant holds.
THEOREM Invariant == Spec => []IndInv
BY InitInv, NextInv, PTL DEF Spec

\* The fields of every object keep their types (type invariant).
THEOREM TypeCorrect == Spec => []TypeOK
<1>1. IndInv => TypeOK
  BY DEF IndInv
<1>. QED  BY <1>1, Invariant, PTL

\* However the threads' fetch-and-adds interleave, and up to the moment the
\* handles run out, no handle is given to two nodes.
THEOREM HandlesUnique == Spec => []HandleRangesDisjoint
<1>1. IndInv => HandleRangesDisjoint
  BY DEF IndInv
<1>. QED  BY <1>1, Invariant, PTL

\* Every handle of a published node resolves to that node.
THEOREM HandlesSafe == Spec => []HandlesResolve
<1>1. IndInv => HandlesResolve
  <2> SUFFICES ASSUME IndInv, NEW n \in DOMAIN node, Published(n), NEW h \in CtxtRange(n)
               PROVE  CtxtIsValid(h) /\ ip_node[h] = n
    BY DEF HandlesResolve
  <2>1. /\ node[n].start \in Nat /\ EndCtxt(n) \in Nat /\ idle_idx \in Nat
        /\ FirstHandle <= node[n].start /\ EndCtxt(n) < idle_idx
        /\ h \in Int /\ node[n].start <= h /\ h <= EndCtxt(n)
    BY RangeType DEF IndInv, TypeOK, HandleRangesDisjoint, CtxtRange
  <2>2. RootCaller <= h /\ h < idle_idx
    BY <2>1 DEF FirstHandle, RootCaller
  <2>. QED  BY <2>2 DEF IndInv, FillInv, CtxtIsValid
<1>. QED  BY <1>1, Invariant, PTL

\* A call path of a thread has one node: two nodes never share caller and block.
THEOREM OneNode == Spec => []OneNodePerCallPath
<1>1. IndInv => OneNodePerCallPath
  BY DEF IndInv
<1>. QED  BY <1>1, Invariant, PTL

\* Only roots and blocks that end in a call have callees.
THEOREM CallSites == Spec => []CallersAreCallSites
<1>1. IndInv => CallersAreCallSites
  BY DEF IndInv
<1>. QED  BY <1>1, Invariant, PTL

\* The walk to the callers of a client's handle stays on published nodes of one
\* thread and descends, so it ends at the root.
THEOREM WalkEnds == Spec => []CallerWalkDescends
<1>1. IndInv => CallerWalkDescends
  <2> SUFFICES ASSUME IndInv, NEW n \in DOMAIN node, Published(n), NEW h \in CtxtRange(n)
               PROVE  CallerWalkDescends!(n)!2!(h)
    BY DEF CallerWalkDescends
  <2>1. ip_node[h] = n
    BY DEF IndInv, FillInv
  <2>2. CASE node[n].parent_bb = NULL
    BY <2>1, <2>2 DEF CallerHandle, CallerCtxt, IndInv, NodeInv
  <2>3. CASE node[n].parent_bb # NULL
    <3>. DEFINE p == node[n].parent_bb
    <3>1. /\ p \in DOMAIN node /\ p[1] = n[1] /\ Published(p) /\ EndCtxt(p) < node[n].start
      BY <2>3 DEF IndInv, NodeInv
    <3>2. FirstHandle <= EndCtxt(p) /\ EndCtxt(p) \in CtxtRange(p)
      BY <3>1, RangeType DEF IndInv, HandleRangesDisjoint, CtxtRange, FirstHandle
    <3>3. ip_node[EndCtxt(p)] = p
      BY <3>1, <3>2 DEF IndInv, FillInv
    <3>4. CallerHandle(h) = EndCtxt(p)
      BY <2>1, <2>3 DEF CallerHandle, CallerCtxt
    <3>. QED  BY <3>1, <3>2, <3>3, <3>4
  <2>. QED  BY <2>2, <2>3
<1>. QED  BY <1>1, Invariant, PTL

\* What a client's handle denotes never changes: no later step of any thread
\* rewrites the node or its entries of the IP-node array.
THEOREM HandlesStable == Spec => StableHandles
<1>. DEFINE Stable == \A n \in DOMAIN node :
       Published(n) => /\ n \in DOMAIN node' /\ node'[n] = node[n]
                       /\ \A h \in CtxtRange(n) : ip_node'[h] = ip_node[h]
<1>1. IndInv /\ IndInv' /\ [Next]_vars => Stable
  <2> SUFFICES ASSUME IndInv, IndInv', [Next]_vars,
                      NEW n \in DOMAIN node, Published(n)
               PROVE  /\ n \in DOMAIN node' /\ node'[n] = node[n]
                      /\ Published(n)'
    BY DEF IndInv, FillInv, CtxtRange, EndCtxt
  <2>1. ASSUME NEW t \in Threads, NEW key, NEW parent, NEW num,
               CreateNode(t, key, parent, num)
        PROVE  /\ n \in DOMAIN node' /\ node'[n] = node[n]
               /\ Published(n)'
    <3>1. n # <<t, made[t]>>
      BY RangeType DEF IndInv, NodeInv, TypeOK
    <3>2. CASE idle_idx' >= HandleMax
      BY <3>2, <2>1 DEF CreateNode, build, Published
    <3>3. CASE ~ (idle_idx' >= HandleMax)
      <4>1. n \in DOMAIN node' /\ node'[n] = node[n]
        BY <3>1, <3>3, <2>1 DEF CreateNode
      <4>2. building' = [building EXCEPT ![t] = <<t, made[t]>>]
        BY <3>3, <2>1 DEF CreateNode
      <4>. QED  BY <4>1, <4>2, <3>1 DEF Published, IndInv, TypeOK
    <3>. QED  BY <3>2, <3>3
  <2>2. CASE UNCHANGED <<node, building>>
    BY <2>2 DEF Published
  <2>3. ASSUME NEW t \in Threads, PublishRoot(t) \/ Publish(t)
        PROVE  /\ n \in DOMAIN node' /\ node'[n] = node[n]
               /\ Published(n)'
    <3>1. node' = node /\ building' = [building EXCEPT ![t] = NULL]
      BY <2>3 DEF PublishRoot, Publish, shared
    <3>2. n # NULL
      BY NullAssumption DEF IndInv, TypeOK
    <3>. QED  BY <3>1, <3>2 DEF Published, IndInv, TypeOK
  <2>. QED
    BY <2>1, <2>2, <2>3 DEF Next, ThreadStart, CreateRoot, FillSlot, EnterKnown, EnterNew,
       EnterNull, SignalDeliver, SignalReturn, ThreadEnd, vars, shared, build
<1>2. Stable => [Stable]_vars
  OBVIOUS
<1>. QED  BY <1>1, Invariant, PTL DEF Spec, StableHandles
----------------------------------------------------------------------------
(* The registry: ids, pt_cache and the roots. *)

\* The steps other than a thread's start and the publication of its root change
\* neither ids, table nor roots, and publish no root.
LEMMA RegistryKept ==
  ASSUME TypeOK, RegistryInv, UNCHANGED <<registry, root_bb>>,
         \A u \in Threads :
           /\ pc'[u] # "unborn" <=> pc[u] # "unborn"
           /\ pc'[u] \in {"init", "fill", "run"} => pc[u] \in {"init", "fill", "run"},
         \A n \in DOMAIN node' : Published(n)' /\ node'[n].key = RootKey
           => n \in DOMAIN node /\ Published(n) /\ node[n].key = RootKey
  PROVE  RegistryInv'
BY DEF RegistryInv, registry, TypeOK

\* A thread starts under an id nobody has: that of the counter, which moves on.
LEMMA RegistryStart ==
  ASSUME IndInv, RegistryInv, NEW t \in Threads, ThreadStart(t)
  PROVE  RegistryInv'
<1>1. /\ \A u \in Threads : id'[u] = IF u = t THEN thread_id_max ELSE id[u]
      /\ \A u \in Threads : pc'[u] = IF u = t
                              THEN IF thread_id_max > ThreadMax THEN "exit" ELSE "init"
                              ELSE pc[u]
      /\ thread_id_max' = thread_id_max + 1 /\ thread_id_max \in Nat
      /\ UNCHANGED <<pt_cache, root_bb, node, building>>
  BY DEF ThreadStart, NewId, IndInv, TypeOK, shared, build, position
<1>2. /\ pc[t] = "unborn" /\ root_bb[t] = NULL
      /\ \A i \in 0 .. ThreadMax : pt_cache[i] # NULL => pt_cache[i] \in Threads
  BY DEF ThreadStart, IndInv, ThreadInv, TypeOK
<1>3. \A u \in Threads :
        /\ pc'[u] # "unborn" => id'[u] \in Nat /\ id'[u] < thread_id_max'
        /\ pc'[u] \in {"init", "fill", "run"} => id'[u] <= ThreadMax
        /\ root_bb'[u] # NULL =>
             pc'[u] # "unborn" /\ id'[u] <= ThreadMax /\ pt_cache'[id'[u]] = u
  BY <1>1, <1>2, LimitsAssumption DEF RegistryInv
<1>4. \A u, v \in Threads :
        pc'[u] # "unborn" /\ pc'[v] # "unborn" /\ id'[u] = id'[v] => u = v
  BY <1>1 DEF RegistryInv
<1>5. \A i \in 0 .. ThreadMax :
        pt_cache'[i] # NULL => /\ pc'[pt_cache'[i]] # "unborn" /\ id'[pt_cache'[i]] = i
                               /\ root_bb'[pt_cache'[i]] # NULL
  BY <1>1, <1>2 DEF RegistryInv
<1>6. \A n \in DOMAIN node' : Published(n)' /\ node'[n].key = RootKey => root_bb'[n[1]] = n
  BY <1>1 DEF RegistryInv, Published
<1>7. ASSUME NEW i \in 0 .. thread_id_max' - 1
      PROVE  \E u \in Threads : pc'[u] # "unborn" /\ id'[u] = i
  <2>1. CASE i = thread_id_max
    <3>1. pc'[t] # "unborn" /\ id'[t] = i
      BY <1>1, <2>1
    <3>. QED  BY <3>1
  <2>2. CASE i # thread_id_max
    <3>1. i \in 0 .. thread_id_max - 1
      BY <1>1, <2>2
    <3>2. PICK u \in Threads : pc[u] # "unborn" /\ id[u] = i
      BY <3>1 DEF RegistryInv
    <3>3. pc'[u] # "unborn" /\ id'[u] = i
      BY <1>1, <1>2, <3>2
    <3>. QED  BY <3>3
  <2>. QED  BY <2>1, <2>2
<1>. QED  BY <1>3, <1>4, <1>5, <1>6, <1>7 DEF RegistryInv

\* A root is published as its thread enters global_pt_cache_buff under its id.
LEMMA RegistryPublishRoot ==
  ASSUME IndInv, RegistryInv, NEW t \in Threads, PublishRoot(t)
  PROVE  RegistryInv'
<1>n. PICK n : n = building[t]
  OBVIOUS
<1>1. /\ n \in DOMAIN node /\ n[1] = t /\ n # NULL /\ pc[t] = "fill"
  BY <1>n, Finished DEF PublishRoot
<1>2. /\ \A u \in Threads : root_bb'[u] = IF u = t THEN n ELSE root_bb[u]
      /\ \A u \in Threads : pc'[u] = IF u = t THEN "run" ELSE pc[u]
      /\ \A u \in Threads : building'[u] = IF u = t THEN NULL ELSE building[u]
      /\ pt_cache' = [pt_cache EXCEPT ![id[t]] = t]
      /\ UNCHANGED <<thread_id_max, id, node>>
  BY <1>n DEF PublishRoot, IndInv, TypeOK, shared
<1>3. id[t] \in 0 .. ThreadMax /\ id[t] < thread_id_max
  BY <1>1, LimitsAssumption DEF RegistryInv, IndInv, TypeOK
<1>4. \A i \in 0 .. ThreadMax : pt_cache'[i] = IF i = id[t] THEN t ELSE pt_cache[i]
  BY <1>2 DEF IndInv, TypeOK
<1>5. \A u \in Threads :
        /\ pc'[u] # "unborn" => id'[u] \in Nat /\ id'[u] < thread_id_max'
        /\ pc'[u] \in {"init", "fill", "run"} => id'[u] <= ThreadMax
        /\ root_bb'[u] # NULL =>
             pc'[u] # "unborn" /\ id'[u] <= ThreadMax /\ pt_cache'[id'[u]] = u
  <2>1. SUFFICES ASSUME NEW u \in Threads, u # t, root_bb[u] # NULL
                 PROVE  pt_cache'[id[u]] = u
    BY <1>1, <1>2, <1>3, <1>4 DEF RegistryInv
  <2>2. /\ pc[u] # "unborn" /\ id[u] \in 0 .. ThreadMax /\ pt_cache[id[u]] = u
        /\ id[u] # id[t]
    BY <2>1, <1>1, LimitsAssumption DEF RegistryInv
  <2>. QED  BY <2>2, <1>4
<1>6. \A u, v \in Threads :
        pc'[u] # "unborn" /\ pc'[v] # "unborn" /\ id'[u] = id'[v] => u = v
  BY <1>1, <1>2 DEF RegistryInv
<1>7. \A i \in 0 .. ThreadMax :
        pt_cache'[i] # NULL => /\ pc'[pt_cache'[i]] # "unborn" /\ id'[pt_cache'[i]] = i
                               /\ root_bb'[pt_cache'[i]] # NULL
  <2>1. \A i \in 0 .. ThreadMax : pt_cache[i] # NULL => pt_cache[i] \in Threads
    BY DEF IndInv, TypeOK
  <2>. QED  BY <2>1, <1>1, <1>2, <1>4 DEF RegistryInv
<1>8. ASSUME NEW m \in DOMAIN node, Published(m)', node[m].key = RootKey
      PROVE  root_bb'[m[1]] = m
  <2>1. CASE m = n
    BY <2>1, <1>1, <1>2
  <2>2. CASE m # n
    <3>1. Published(m)
      BY <2>2, <1>n, <1>2, <1>8 DEF Published
    <3>2. root_bb[m[1]] = m /\ m[1] \in Threads
      BY <3>1, <1>8, RangeType DEF RegistryInv, IndInv
    <3>3. root_bb[t] = NULL
      BY <1>n, <1>1 DEF PublishRoot, IndInv, ThreadInv
    <3>4. m # NULL
      BY NullAssumption DEF IndInv, TypeOK
    <3>. QED  BY <3>2, <3>3, <3>4, <1>2
  <2>. QED  BY <2>1, <2>2
<1>9. \A i \in 0 .. thread_id_max' - 1 : \E u \in Threads : pc'[u] # "unborn" /\ id'[u] = i
  BY <1>1, <1>2 DEF RegistryInv
<1>. QED  BY <1>2, <1>5, <1>6, <1>7, <1>8, <1>9 DEF RegistryInv

\* A step leaves the published roots alone, unless it publishes one.
LEMMA RegistryNext ==
  ASSUME IndInv, RegistryInv, [Next]_vars
  PROVE  RegistryInv'
<1>. USE DEF shared, registry, build, position, signals
<1>1. CASE UNCHANGED vars
  BY <1>1, RegistryKept DEF vars, IndInv, Published
<1>2. ASSUME NEW t \in Threads, NEW key \in Blocks \cup {RootKey}, NEW parent, NEW num,
             pc[t] \in {"init", "run"}, CreateNode(t, key, parent, num),
             UNCHANGED <<registry, root_bb>>
      PROVE  RegistryInv'
  <2>1. CASE idle_idx' >= HandleMax
    <3>1. /\ \A u \in Threads : pc'[u] = IF u = t THEN "exit" ELSE pc[u]
          /\ node' = node /\ building' = building
      BY <1>2, <2>1 DEF CreateNode, IndInv, TypeOK
    <3>. QED  BY <3>1, <1>2, RegistryKept DEF IndInv, Published
  <2>2. CASE ~ (idle_idx' >= HandleMax)
    <3>n. PICK n : n = <<t, made[t]>>
      OBVIOUS
    <3>1. /\ \A u \in Threads : pc'[u] = IF u = t THEN "fill" ELSE pc[u]
          /\ \A u \in Threads : building'[u] = IF u = t THEN n ELSE building[u]
          /\ DOMAIN node' = DOMAIN node \cup {n}
          /\ \A m \in DOMAIN node : m # n => node'[m] = node[m]
      BY <3>n, <1>2, <2>2 DEF CreateNode, IndInv, TypeOK
    <3>2. building[t] = NULL /\ n # NULL
      BY <3>n, <1>2, NullAssumption DEF IndInv, ThreadInv, TypeOK, NodeId
    <3>3. ~ Published(n)'
      BY <3>1 DEF Published
    <3>4. \A m \in DOMAIN node' : Published(m)' => m \in DOMAIN node /\ m # n
      BY <3>1, <3>3
    <3>5. \A m \in DOMAIN node : Published(m)' => Published(m)
      BY <3>1, <3>2, NullAssumption DEF Published, IndInv, TypeOK
    <3>. QED  BY <3>1, <3>4, <3>5, <1>2, RegistryKept DEF IndInv
  <2>. QED  BY <2>1, <2>2
<1>3. ASSUME NEW t \in Threads, Publish(t)
      PROVE  RegistryInv'
  <2>1. /\ UNCHANGED <<registry, root_bb, node>>
        /\ pc[t] = "fill" /\ \A u \in Threads : pc'[u] = IF u = t THEN "run" ELSE pc[u]
        /\ \A u \in Threads : building'[u] = IF u = t THEN NULL ELSE building[u]
        /\ node[building[t]].key # RootKey
    BY <1>3 DEF Publish, IndInv, TypeOK
  <2>2. \A m \in DOMAIN node : Published(m)' /\ node[m].key = RootKey => Published(m)
    BY <2>1 DEF Published
  <2>. QED  BY <2>1, <2>2, RegistryKept DEF IndInv
<1>4. CASE Next
  <2>1. PICK t \in Threads :
          \/ ThreadStart(t) \/ CreateRoot(t) \/ FillSlot(t) \/ PublishRoot(t)
          \/ \E b \in Blocks : EnterKnown(t, b) \/ EnterNew(t, b)
          \/ EnterNull(t) \/ Publish(t) \/ SignalDeliver(t) \/ SignalReturn(t)
          \/ ThreadEnd(t)
    BY <1>4 DEF Next
  <2>2. CASE CreateRoot(t) \/ \E b \in Blocks : EnterNew(t, b)
    BY <2>2, <1>2 DEF CreateRoot, EnterNew
  <2>3. CASE \/ FillSlot(t) \/ EnterNull(t) \/ SignalDeliver(t) \/ SignalReturn(t)
             \/ ThreadEnd(t) \/ \E b \in Blocks : EnterKnown(t, b)
    <3>1. /\ UNCHANGED <<registry, root_bb, node, building>>
          /\ \A u \in Threads : \/ pc'[u] = pc[u]
                                \/ pc[u] = "run" /\ pc'[u] \in {"ended", "crash"}
      BY <2>3 DEF FillSlot, EnterKnown, EnterNull, SignalDeliver, SignalReturn, ThreadEnd,
                  IndInv, TypeOK
    <3>. QED  BY <3>1, RegistryKept DEF IndInv, Published
  <2>. QED  BY <2>1, <2>2, <2>3, <1>3, RegistryStart, RegistryPublishRoot
<1>. QED  BY <1>1, <1>4

\* In every reachable state the ids taken differ and are below the counter, and the table has
\* each registered thread under its own: what the walk that ends at a root reads.
THEOREM RegistryInvariant == Spec => [](IndInv /\ RegistryInv)
<1>1. Init => RegistryInv
  BY DEF Init, RegistryInv
<1>2. IndInv /\ RegistryInv /\ [Next]_vars => RegistryInv'
  BY RegistryNext
<1>. QED  BY InitInv, <1>1, NextInv, <1>2, PTL DEF Spec

\* The root of a published node's path leads the scan of the table to the thread that
\* owns the node, after that has ended too: or to a null entry, and exactly when a thread
\* with a smaller id is still registering.
THEOREM RootOwner == Spec => []RootNamesOwner
<1>1. IndInv /\ RegistryInv => RootNamesOwner
  <2> SUFFICES ASSUME IndInv, RegistryInv, NEW n \in DOMAIN node, Published(n),
                      node[n].key = RootKey
               PROVE  ThreadIdOfRoot(n) = IF \E t \in Threads : Registering(t) /\ id[t] < id[n[1]]
                                          THEN NullRead ELSE id[n[1]]
    BY DEF RootNamesOwner
  <2>. DEFINE unset == {i \in DOMAIN pt_cache : i < thread_id_max /\ pt_cache[i] = NULL}
              hits  == {i \in DOMAIN pt_cache : /\ i < thread_id_max /\ i \notin unset
                                                /\ root_bb[pt_cache[i]] = n}
              own   == id[n[1]]
  <2>1. /\ DOMAIN pt_cache = 0 .. ThreadMax /\ n # NULL /\ n[1] \in Threads
        /\ root_bb[n[1]] = n /\ thread_id_max \in Nat
        /\ \A i \in 0 .. ThreadMax : pt_cache[i] # NULL => pt_cache[i] \in Threads
    BY RangeType, NullAssumption DEF IndInv, TypeOK, RegistryInv
  <2>2. /\ own \in 0 .. ThreadMax /\ own < thread_id_max
        /\ pt_cache[own] = n[1] /\ n[1] # NULL
    BY <2>1, LimitsAssumption, NullAssumption DEF RegistryInv
  <2>3. ASSUME NEW i \in hits PROVE i = own
    <3>1. pt_cache[i] \in Threads /\ root_bb[pt_cache[i]] = n /\ id[pt_cache[i]] = i
      BY <2>1 DEF RegistryInv
    <3>2. n[1] = pt_cache[i]
      BY <3>1, <2>1 DEF IndInv, ThreadInv, Owned
    <3>. QED  BY <3>1, <3>2
  <2>4. hits = {own}
    BY <2>1, <2>2, <2>3
  <2>5. (\E i \in unset : \A j \in hits : i < j) <=> \E i \in unset : i < own
    <3>. HIDE DEF unset, hits, own
    <3>. QED  BY <2>4
  <2>6. ASSUME NEW i \in unset, i < own
        PROVE  \E t \in Threads : Registering(t) /\ id[t] < own
    <3>1. i \in 0 .. thread_id_max - 1 /\ i \in 0 .. ThreadMax /\ pt_cache[i] = NULL
      BY <2>1, LimitsAssumption
    <3>2. PICK t \in Threads : pc[t] # "unborn" /\ id[t] = i
      BY <3>1 DEF RegistryInv
    <3>3. root_bb[t] = NULL
      BY <3>1, <3>2, NullAssumption DEF RegistryInv
    <3>. QED  BY <2>6, <3>2, <3>3 DEF Registering
  <2>7. ASSUME NEW t \in Threads, Registering(t), id[t] < own
        PROVE  \E i \in unset : i < own
    <3>1. id[t] \in 0 .. ThreadMax /\ id[t] < thread_id_max
      BY <2>2, <2>7, LimitsAssumption DEF RegistryInv, Registering
    <3>2. ASSUME pt_cache[id[t]] # NULL PROVE FALSE
      <4>1. /\ pt_cache[id[t]] \in Threads /\ pc[pt_cache[id[t]]] # "unborn"
            /\ id[pt_cache[id[t]]] = id[t] /\ root_bb[pt_cache[id[t]]] # NULL
        BY <2>1, <3>1, <3>2 DEF RegistryInv
      <4>2. pt_cache[id[t]] = t
        BY <2>7, <4>1 DEF RegistryInv, Registering
      <4>. QED  BY <2>7, <4>1, <4>2 DEF Registering
    <3>3. id[t] \in unset
      BY <2>1, <3>1, <3>2
    <3>. QED  BY <2>7, <3>3
  <2>8. (\E i \in unset : i < own) <=> \E t \in Threads : Registering(t) /\ id[t] < own
    BY <2>6, <2>7
  <2>9. (CHOOSE i \in hits : \A j \in hits : i <= j) = own
    BY <2>2, <2>4
  <2>10. ThreadIdOfRoot(n) = IF \E i \in unset : \A j \in hits : i < j THEN NullRead ELSE own
    <3>1. hits # {}
      BY <2>4
    <3>2. ThreadIdOfRoot(n) =
            CASE \E i \in unset : \A j \in hits : i < j -> NullRead
              [] hits = {} -> -1
              [] OTHER -> CHOOSE i \in hits : \A j \in hits : i <= j
      BY DEF ThreadIdOfRoot
    <3>. HIDE DEF hits, unset, own
    <3>. QED  BY <2>9, <3>1, <3>2
  <2>. QED  BY <2>5, <2>8, <2>10
<1>. QED  BY <1>1, RegistryInvariant, PTL

----------------------------------------------------------------------------
(* Programs without signals: no null dereference. *)

\* A thread finds a caller to hang a block under, if its last block ended in a return
\* or in neither a call nor a return only below its root: a node below the root
\* has a parent, and the double step up after a return stops at the root.
LEMMA CallerFound ==
  ASSUME IndInv, RegistryInv, NEW t \in Threads, pc[t] = "run",
         pre_state[t] \in {"ret", "other"} => cur_bb[t] # root_bb[t]
  PROVE  NewCaller(t) # NULL
<1>1. /\ root_bb[t] \in DOMAIN node /\ cur_bb[t] \in DOMAIN node
      /\ cur_bb[t][1] = t /\ Published(cur_bb[t])
      /\ NULL \notin DOMAIN node
  BY NullAssumption DEF IndInv, TypeOK, ThreadInv, Owned
<1>2. ASSUME NEW n \in DOMAIN node, n[1] = t, Published(n), n # root_bb[t]
      PROVE  /\ node[n].parent_bb \in DOMAIN node
             /\ node[n].parent_bb[1] = t /\ Published(node[n].parent_bb)
  BY <1>2 DEF IndInv, NodeInv, RegistryInv
<1>3. CASE pre_state[t] \in {"root", "call"}
  BY <1>1, <1>3 DEF NewCaller
<1>4. CASE pre_state[t] \in {"ret", "other"}
  <2>. DEFINE p == node[cur_bb[t]].parent_bb
  <2>1. p \in DOMAIN node /\ ParentOf(cur_bb[t]) = p /\ ParentOf(p) = node[p].parent_bb
    BY <1>1, <1>2, <1>4 DEF ParentOf
  <2>2. p # root_bb[t] => node[p].parent_bb \in DOMAIN node
    BY <1>1, <1>2, <1>4
  <2>. QED  BY <1>1, <1>4, <2>1, <2>2 DEF NewCaller
<1>. QED  BY <1>3, <1>4 DEF IndInv, TypeOK, PreStates, EndStates

\* A step keeps PathInv: a block hangs under the root or deeper, so a thread that
\* has left its root stands on a node with a parent.
LEMMA PathNext ==
  ASSUME IndInv, RegistryInv, PathInv, SigMax = 0, [Next]_vars
  PROVE  PathInv'
<1>. USE DEF shared, registry, build, position, signals
<1>1. CASE UNCHANGED vars
  BY <1>1 DEF vars, PathInv
<1>2. CASE Next
  <2>1. PICK t \in Threads :
          \/ ThreadStart(t) \/ CreateRoot(t) \/ FillSlot(t) \/ PublishRoot(t)
          \/ \E b \in Blocks : EnterKnown(t, b) \/ EnterNew(t, b)
          \/ EnterNull(t) \/ Publish(t) \/ SignalDeliver(t) \/ SignalReturn(t)
          \/ ThreadEnd(t)
    BY <1>2 DEF Next
  <2>2. ~ SignalDeliver(t) /\ ~ SignalReturn(t)
    BY DEF SignalDeliver, SignalReturn, PathInv
  <2>3. CASE \/ ThreadStart(t) \/ CreateRoot(t) \/ FillSlot(t) \/ ThreadEnd(t)
             \/ \E b \in Blocks : EnterNew(t, b)
    <3>1. UNCHANGED <<position, sig_depth>>
      BY <2>3 DEF ThreadStart, CreateRoot, FillSlot, ThreadEnd, EnterNew
    <3>2. \A u \in Threads : pc'[u] = pc[u] \/ pc'[u] # "crash"
      BY <2>3 DEF ThreadStart, CreateRoot, FillSlot, ThreadEnd, EnterNew, CreateNode,
                  IndInv, TypeOK
    <3>. QED  BY <3>1, <3>2 DEF PathInv
  <2>4. CASE PublishRoot(t)
    <3>1. \A u \in Threads :
            /\ root_bb'[u] = IF u = t THEN building[t] ELSE root_bb[u]
            /\ cur_bb'[u] = IF u = t THEN building[t] ELSE cur_bb[u]
            /\ pre_state'[u] = IF u = t THEN "root" ELSE pre_state[u]
            /\ pc'[u] = IF u = t THEN "run" ELSE pc[u]
      BY <2>4 DEF PublishRoot, IndInv, TypeOK
    <3>2. sig_depth' = sig_depth
      BY <2>4 DEF PublishRoot
    <3>. QED  BY <3>1, <3>2 DEF PathInv
  <2>5. ASSUME NEW n \in DOMAIN node, node[n].parent_bb # NULL, MoveTo(t, n),
               root_bb[t] # NULL,
               UNCHANGED <<root_bb, sig_depth>>, \A u \in Threads : pc'[u] # "crash"
        PROVE  PathInv'
    <3>1. node[n].key \in Blocks
      BY <2>5, RangeType DEF IndInv, NodeInv
    <3>2. /\ EndState[node[n].key] # "root"
          /\ n # root_bb[t]
      <4>1. EndState[node[n].key] \in EndStates
        BY <3>1, BlocksAssumption
      <4>. QED  BY <4>1, <2>5 DEF EndStates, IndInv, NodeInv, ThreadInv
    <3>3. \A u \in Threads :
            /\ cur_bb'[u] = IF u = t THEN n ELSE cur_bb[u]
            /\ pre_state'[u] = IF u = t THEN EndState[node[n].key] ELSE pre_state[u]
      BY <2>5 DEF MoveTo, IndInv, TypeOK
    <3>. QED  BY <2>5, <3>2, <3>3 DEF PathInv
  <2>6. ASSUME NEW b \in Blocks, EnterKnown(t, b)
        PROVE  PathInv'
    <3>1. PICK n \in Found(NewCaller(t), b) : MoveTo(t, n)
      BY <2>6 DEF EnterKnown
    <3>2. NewCaller(t) \in DOMAIN node /\ NewCaller(t) # NULL /\ root_bb[t] # NULL
      BY <2>6, CallerOK DEF EnterKnown, IndInv, ThreadInv
    <3>3. n \in DOMAIN node /\ node[n].parent_bb = NewCaller(t)
      BY <3>2 DEF Found, IndInv, TypeOK, CalleeInv
    <3>. QED  BY <2>5, <2>6, <3>1, <3>2, <3>3 DEF EnterKnown, PathInv
  <2>7. CASE Publish(t)
    <3>1. /\ building[t] \in DOMAIN node /\ node[building[t]].parent_bb # NULL
          /\ root_bb[t] # NULL
      BY <2>7, Finished DEF Publish, IndInv, NodeInv, ThreadInv
    <3>2. /\ MoveTo(t, building[t]) /\ UNCHANGED <<root_bb, sig_depth>>
          /\ \A u \in Threads : pc'[u] # "crash"
      BY <2>7 DEF Publish, PathInv, IndInv, TypeOK
    <3>. QED  BY <2>5, <3>1, <3>2
  <2>8. ~ EnterNull(t)
    BY CallerFound, NullAssumption DEF EnterNull, PathInv, IndInv, ThreadInv
  <2>. QED  BY <2>1, <2>2, <2>3, <2>4, <2>6, <2>7, <2>8
<1>. QED  BY <1>1, <1>2

\* Without signals no thread ever follows a null parent, and a thread is in the state of a
\* root exactly while its cursor is at its root.
THEOREM PathInvariant ==
  ASSUME SigMax = 0
  PROVE  Spec => [](IndInv /\ RegistryInv /\ PathInv)
<1>1. Init => PathInv
  BY DEF Init, PathInv
<1>2. IndInv /\ RegistryInv /\ PathInv /\ [Next]_vars => PathInv'
  BY PathNext
<1>. QED  BY <1>1, <1>2, RegistryInvariant, PTL DEF Spec

\* No thread follows the null parent of a root when the program takes no signals,
\* whatever blocks it enters: the double step up after a return stops at the root.
THEOREM CallerExists ==
  ASSUME SigMax = 0
  PROVE  Spec => []CallerNeverNull
<1>1. PathInv => CallerNeverNull
  BY DEF PathInv, CallerNeverNull
<1>. QED  BY <1>1, PathInvariant, PTL
=============================================================================
