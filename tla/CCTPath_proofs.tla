--------------------------- MODULE CCTPath_proofs ---------------------------
(***************************************************************************)
(* The path a node stands for, for every program: CCT implements CallStack *)
(* when there are no signals, step by step, and beside a program whose     *)
(* signals are plain it stays on that program's path.  What both rest on   *)
(* is where a block is hung: CallerCalls.                                  *)
(***************************************************************************)
EXTENDS CCTSignals, CCTCallStack, CCT_proofs, SequenceTheorems, WellFoundedInduction

\* Induction over the numbers, for a set instead of a predicate.
LEMMA SetInduction ==
  ASSUME NEW S, 0 \in S, \A n \in Nat : n \in S => n + 1 \in S
  PROVE  Nat \subseteq S
<1> DEFINE R == {ss \in Nat \X Nat : ss[1] < ss[2]}
<1>1. IsWellFoundedOn(R, Nat)
  BY NatLessThanWellFounded DEF OpToRel
<1>2. SUFFICES ASSUME Nat \ S # {} PROVE FALSE
  OBVIOUS
<1>3. PICK m \in Nat \ S : \A y \in Nat \ S : ~ (<<y, m>> \in R)
  BY <1>1, <1>2, WFMin
<1>4. m # 0 /\ m - 1 \in Nat /\ m - 1 \notin S
  OBVIOUS
<1>5. <<m - 1, m>> \in R
  BY <1>4
<1>. HIDE DEF R
<1>. QED BY <1>3, <1>4, <1>5

\* What Append added, Front takes away.
LEMMA FrontAppend ==
  ASSUME NEW S, NEW s \in Seq(S), NEW e \in S
  PROVE  Append(s, e) # <<>> /\ Front(Append(s, e)) = s
<1>1. /\ Append(s, e) \in Seq(S) /\ Len(Append(s, e)) = Len(s) + 1 /\ Len(s) \in Nat
      /\ \A i \in 1 .. Len(s) : Append(s, e)[i] = s[i]
  BY AppendProperties, LenProperties
<1>2. Front(Append(s, e)) = [i \in 1 .. Len(s) |-> s[i]]
  BY <1>1 DEF Front
<1>3. s = [i \in 1 .. Len(s) |-> s[i]]
  BY LenProperties
<1>. QED  BY <1>1, <1>2, <1>3

----------------------------------------------------------------------------
(* CallsOf: the recursion ends, since handles grow from callers to callees. *)

\* One step of the recursion, for a function f of the callers.
CallsStep(f, n) ==
  LET p == node[n].parent_bb IN
  IF p = NULL THEN <<>>
  ELSE IF node[p].key = RootKey THEN <<>>
  ELSE Append(f[p], node[p].key)

\* The nodes whose handles start below k.
Below(k) == {n \in DOMAIN node : node[n].start < k}

\* A parent's range begins below its child's: the order the recursion descends along.
LEMMA ParentBelow ==
  ASSUME IndInv, NEW k \in Nat, NEW n \in Below(k + 1), node[n].parent_bb # NULL
  PROVE  /\ node[n].parent_bb \in Below(k)
         /\ node[node[n].parent_bb].key # RootKey => node[node[n].parent_bb].key \in Blocks
<1>1. /\ n \in DOMAIN node /\ node[n].start \in Nat /\ node[n].start < k + 1
  BY RangeType DEF Below, IndInv
<1>2. /\ node[n].parent_bb \in DOMAIN node
      /\ EndCtxt(node[n].parent_bb) < node[n].start
  BY <1>1 DEF IndInv, NodeInv
<1>. QED  BY <1>1, <1>2, RangeType DEF Below, IndInv

\* A step from paths of the nodes below gives paths.
LEMMA StepType ==
  ASSUME IndInv, NEW k \in Nat, NEW n \in Below(k + 1),
         NEW f, \A m \in Below(k) : f[m] \in Seq(Blocks)
  PROVE  CallsStep(f, n) \in Seq(Blocks)
<1>1. CASE node[n].parent_bb = NULL
  BY <1>1 DEF CallsStep
<1>2. CASE node[n].parent_bb # NULL
  <2>1. f[node[n].parent_bb] \in Seq(Blocks)
    BY <1>2, ParentBelow
  <2>2. CASE node[node[n].parent_bb].key = RootKey
    BY <1>2, <2>2 DEF CallsStep
  <2>3. CASE node[node[n].parent_bb].key # RootKey
    <3>1. CallsStep(f, n) = Append(f[node[n].parent_bb], node[node[n].parent_bb].key)
      BY <1>2, <2>3 DEF CallsStep
    <3>2. node[node[n].parent_bb].key \in Blocks
      BY <1>2, <2>3, ParentBelow
    <3>. QED  BY <2>1, <3>1, <3>2, AppendProperties
  <2>. QED  BY <2>2, <2>3
<1>. QED  BY <1>1, <1>2

\* All nodes start below the mark.
LEMMA AllBelow ==
  IndInv => idle_idx \in Nat /\ Below(idle_idx) = DOMAIN node
<1> SUFFICES ASSUME IndInv PROVE idle_idx \in Nat /\ Below(idle_idx) = DOMAIN node
  OBVIOUS
<1>1. ASSUME NEW n \in DOMAIN node PROVE node[n].start < idle_idx
  <2>1. /\ node[n].start \in Nat /\ EndCtxt(n) \in Nat /\ idle_idx \in Nat
        /\ node[n].start <= EndCtxt(n) /\ EndCtxt(n) < idle_idx
    BY RangeType DEF IndInv, HandleRangesDisjoint, TypeOK
  <2>. QED  BY <2>1
<1>. QED  BY <1>1 DEF Below, IndInv, TypeOK

\* A function satisfies the equation CallsOf is chosen by: by induction over where the
\* ranges of the nodes start.
LEMMA CallsExist ==
  ASSUME IndInv
  PROVE  \E f \in [DOMAIN node -> Seq(Blocks)] : f = [n \in DOMAIN node |-> CallsStep(f, n)]
<1>. DEFINE Defined(f, k) == /\ f \in [Below(k) -> Seq(Blocks)]
                             /\ f = [n \in Below(k) |-> CallsStep(f, n)]
            S == {k \in Nat : \E f : Defined(f, k)}
<1>1. 0 \in S
  <2>1. Below(0) = {}
    BY RangeType DEF Below, IndInv
  <2>2. Defined([n \in {} |-> <<>>], 0)
    BY <2>1
  <2>. QED  BY <2>2
<1>2. ASSUME NEW k \in Nat, k \in S PROVE k + 1 \in S
  <2>1. PICK f : Defined(f, k)
    BY <1>2
  <2>. DEFINE g == [n \in Below(k + 1) |-> CallsStep(f, n)]
  <2>2. \A n \in Below(k) : n \in Below(k + 1) /\ g[n] = f[n]
    BY <2>1, RangeType DEF Below, IndInv
  <2>3. \A n \in Below(k + 1) : CallsStep(g, n) = CallsStep(f, n)
    BY <2>2, ParentBelow DEF CallsStep
  <2>4. ASSUME NEW n \in Below(k + 1) PROVE CallsStep(f, n) \in Seq(Blocks)
    BY <2>1, StepType
  <2>5. Defined(g, k + 1)
    BY <2>3, <2>4
  <2>6. \E h : Defined(h, k + 1)
    BY <2>5
  <2>. QED  BY <2>6
<1>3. idle_idx \in S
  <2>. HIDE DEF S
  <2>1. Nat \subseteq S
    BY <1>1, <1>2, SetInduction
  <2>. QED  BY <2>1, AllBelow
<1>. QED  BY <1>3, AllBelow

\* Whatever satisfies the equation gives paths: by the same induction.
LEMMA SolutionType ==
  ASSUME IndInv, NEW f, f = [n \in DOMAIN node |-> CallsStep(f, n)]
  PROVE  f \in [DOMAIN node -> Seq(Blocks)]
<1>. DEFINE S == {k \in Nat : \A n \in Below(k) : f[n] \in Seq(Blocks)}
<1>1. 0 \in S
  BY RangeType DEF Below, IndInv
<1>2. ASSUME NEW k \in Nat, k \in S PROVE k + 1 \in S
  <2>1. ASSUME NEW n \in Below(k + 1) PROVE f[n] \in Seq(Blocks)
    <3>1. CallsStep(f, n) \in Seq(Blocks)
      BY <1>2, StepType
    <3>2. n \in DOMAIN node
      BY DEF Below
    <3>. HIDE DEF S
    <3>3. f[n] = CallsStep(f, n)
      BY <3>2
    <3>. QED  BY <3>1, <3>3
  <2>. QED  BY <2>1
<1>3. idle_idx \in S
  <2>. HIDE DEF S
  <2>1. Nat \subseteq S
    BY <1>1, <1>2, SetInduction
  <2>. QED  BY <2>1, AllBelow
<1>4. \A n \in DOMAIN node : f[n] \in Seq(Blocks)
  BY <1>3, AllBelow
<1>5. DOMAIN f = DOMAIN node /\ f = [n \in DOMAIN f |-> f[n]]
  OBVIOUS
<1>. QED  BY <1>4, <1>5

\* The path of a node is that of its caller and the call there.
LEMMA CallsUnfold ==
  IndInv => /\ CallsOf \in [DOMAIN node -> Seq(Blocks)]
            /\ \A n \in DOMAIN node : CallsOf[n] = CallsStep(CallsOf, n)
<1> SUFFICES ASSUME IndInv
             PROVE  /\ CallsOf \in [DOMAIN node -> Seq(Blocks)]
                    /\ \A n \in DOMAIN node : CallsOf[n] = CallsStep(CallsOf, n)
  OBVIOUS
<1>1. CallsOf = CHOOSE f : f = [n \in DOMAIN node |-> CallsStep(f, n)]
  BY DEF CallsOf, CallsStep
<1>2. PICK f \in [DOMAIN node -> Seq(Blocks)] : f = [n \in DOMAIN node |-> CallsStep(f, n)]
  BY CallsExist
<1>3. CallsOf = [n \in DOMAIN node |-> CallsStep(CallsOf, n)]
  BY <1>1, <1>2
<1>4. CallsOf \in [DOMAIN node -> Seq(Blocks)]
  BY <1>3, SolutionType
<1>5. \A n \in DOMAIN node : CallsOf[n] = CallsStep(CallsOf, n)
  BY <1>3
<1>. QED  BY <1>4, <1>5

\* The same in the next state.
LEMMA CallsUnfoldNext ==
  IndInv' => (\A n \in DOMAIN node : CallsOf[n] = CallsStep(CallsOf, n))'
<1>1. IndInv => \A n \in DOMAIN node : CallsOf[n] = CallsStep(CallsOf, n)
  BY CallsUnfold
<1>. QED  BY <1>1, PTL

\* A step adds nodes and changes none.
LEMMA NodesKept ==
  ASSUME IndInv, [Next]_vars
  PROVE  DOMAIN node \subseteq DOMAIN node' /\ \A n \in DOMAIN node : node'[n] = node[n]
<1>1. ASSUME NEW t \in Threads, NEW key, NEW parent, NEW num, CreateNode(t, key, parent, num)
      PROVE  DOMAIN node \subseteq DOMAIN node' /\ \A n \in DOMAIN node : node'[n] = node[n]
  <2>1. \A n \in DOMAIN node : n # <<t, made[t]>>
    BY RangeType DEF IndInv, NodeInv, TypeOK
  <2>. QED  BY <1>1, <2>1 DEF CreateNode
<1>2. CASE UNCHANGED node
  BY <1>2
<1>. QED
  BY <1>1, <1>2 DEF Next, ThreadStart, CreateRoot, FillSlot, PublishRoot, Publish, EnterKnown,
     EnterNew, EnterNull, SignalDeliver, SignalReturn, ThreadEnd, vars, shared

\* The path a node stands for never changes.
LEMMA CallsKept ==
  ASSUME IndInv, IndInv', [Next]_vars
  PROVE  \A n \in DOMAIN node : CallsOf'[n] = CallsOf[n]
<1>. DEFINE S == {k \in Nat : \A n \in Below(k) : CallsOf'[n] = CallsOf[n]}
<1>1. 0 \in S
  BY RangeType DEF Below, IndInv
<1>2. ASSUME NEW k \in Nat, k \in S PROVE k + 1 \in S
  <2>1. SUFFICES ASSUME NEW n \in Below(k + 1) PROVE CallsOf'[n] = CallsOf[n]
    OBVIOUS
  <2>2. n \in DOMAIN node /\ n \in DOMAIN node' /\ node'[n] = node[n]
    BY NodesKept DEF Below
  <2>3. CallsOf[n] = CallsStep(CallsOf, n)
    BY <2>2, CallsUnfold
  <2>5. CallsOf'[n] = CallsStep(CallsOf, n)'
    BY <2>2, CallsUnfoldNext
  <2>6. CASE node[n].parent_bb = NULL
    BY <2>2, <2>3, <2>5, <2>6 DEF CallsStep
  <2>7. CASE node[n].parent_bb # NULL
    <3>1. node[n].parent_bb \in Below(k)
      BY <2>7, ParentBelow
    <3>2. /\ CallsOf'[node[n].parent_bb] = CallsOf[node[n].parent_bb]
          /\ node'[node[n].parent_bb] = node[node[n].parent_bb]
      BY <1>2, <3>1, NodesKept DEF Below
    <3>. QED  BY <2>2, <2>3, <2>5, <2>7, <3>2 DEF CallsStep
  <2>. QED  BY <2>6, <2>7
<1>3. Nat \subseteq S
  <2>. HIDE DEF S
  <2>. QED  BY <1>1, <1>2, SetInduction
<1>4. ASSUME NEW n \in DOMAIN node PROVE CallsOf'[n] = CallsOf[n]
  <2>1. node[n].start + 1 \in S /\ node[n].start \in Nat
    BY <1>3, RangeType DEF IndInv
  <2>2. n \in Below(node[n].start + 1)
    BY <2>1 DEF Below
  <2>. QED  BY <2>1, <2>2
<1>. QED  BY <1>4

----------------------------------------------------------------------------
(* Where a block is hung. *)

\* The calls a node hung under the caller that NewCaller finds is inside of, for each
\* way the previous block may have ended: those of the thread's current node, with the
\* call made, without the call returned from, or as they are.
LEMMA CallerCalls ==
  ASSUME IndInv, RegistryInv, NEW t \in Threads, root_bb[t] # NULL, cur_bb[t] # NULL,
         NewCaller(t) # NULL, NEW n \in DOMAIN node, node[n].parent_bb = NewCaller(t)
  PROVE  /\ cur_bb[t] \in DOMAIN node /\ CallsOf[cur_bb[t]] \in Seq(Blocks)
         /\ pre_state[t] = "root" => CallsOf[n] = <<>>
         /\ pre_state[t] = "call" =>
              CallsOf[n] = Append(CallsOf[cur_bb[t]], node[cur_bb[t]].key)
         /\ pre_state[t] = "ret" /\ cur_bb[t] # root_bb[t] =>
              CallsOf[n] = IF CallsOf[cur_bb[t]] = <<>> THEN <<>>
                           ELSE Front(CallsOf[cur_bb[t]])
         /\ pre_state[t] = "other" /\ cur_bb[t] # root_bb[t] =>
              CallsOf[n] = CallsOf[cur_bb[t]]
<1>. DEFINE c == cur_bb[t]
            p == node[c].parent_bb
<1>1. /\ c \in DOMAIN node /\ root_bb[t] \in DOMAIN node
      /\ node[root_bb[t]].key = RootKey
      /\ c[1] = t /\ Published(c) /\ NULL \notin DOMAIN node
  BY NullAssumption DEF IndInv, TypeOK, ThreadInv, Owned
<1>2. /\ CallsOf[c] \in Seq(Blocks) /\ CallsOf[c] = CallsStep(CallsOf, c)
      /\ CallsOf[n] = CallsStep(CallsOf, n)
  BY <1>1, CallsUnfold
<1>3. ASSUME NEW m \in DOMAIN node, m[1] = t, Published(m), m # root_bb[t]
      PROVE  /\ node[m].parent_bb \in DOMAIN node /\ node[m].parent_bb # NULL
             /\ node[m].key # RootKey /\ node[m].key \in Blocks
             /\ node[m].parent_bb[1] = t /\ Published(node[m].parent_bb)
  <2>1. node[m].key # RootKey
    BY <1>3 DEF RegistryInv
  <2>. QED  BY <1>1, <1>3, <2>1, RangeType DEF IndInv, NodeInv
<1>4. CASE pre_state[t] = "root"
  BY <1>1, <1>2, <1>4 DEF NewCaller, CallsStep
<1>5. CASE pre_state[t] = "call"
  <2>1. NewCaller(t) = c /\ node[c].key # RootKey
    BY <1>5 DEF NewCaller, IndInv, ThreadInv
  <2>. QED  BY <1>1, <1>2, <1>5, <2>1 DEF CallsStep
<1>6. ASSUME c # root_bb[t], pre_state[t] \in {"ret", "other"}
      PROVE  /\ pre_state[t] = "ret" => CallsOf[n] = IF CallsOf[c] = <<>> THEN <<>>
                                                     ELSE Front(CallsOf[c])
             /\ pre_state[t] = "other" => CallsOf[n] = CallsOf[c]
  <2>1. /\ p \in DOMAIN node /\ p # NULL /\ p[1] = t /\ Published(p)
        /\ ParentOf(c) = p /\ ParentOf(p) = node[p].parent_bb
    BY <1>1, <1>3, <1>6 DEF ParentOf
  <2>2. CASE pre_state[t] = "other"
    <3>1. NewCaller(t) = p
      BY <2>1, <2>2 DEF NewCaller
    <3>. QED  BY <1>2, <2>1, <2>2, <3>1 DEF CallsStep
  <2>3. CASE pre_state[t] = "ret" /\ p = root_bb[t]
    <3>1. NewCaller(t) = root_bb[t]
      BY <2>1, <2>3 DEF NewCaller
    <3>2. CallsOf[c] = <<>> /\ CallsOf[n] = <<>>
      BY <1>1, <1>2, <2>1, <2>3, <3>1 DEF CallsStep
    <3>. QED  BY <2>3, <3>2
  <2>4. CASE pre_state[t] = "ret" /\ p # root_bb[t]
    <3>. DEFINE q == node[p].parent_bb
    <3>1. NewCaller(t) = q
      BY <2>1, <2>4 DEF NewCaller
    <3>2. q \in DOMAIN node /\ q # NULL /\ node[p].key # RootKey /\ node[p].key \in Blocks
      BY SMTT(60), <2>1, <2>4, <1>3
    <3>3. CallsOf[c] = Append(CallsOf[p], node[p].key) /\ CallsOf[p] \in Seq(Blocks)
      BY <1>2, <2>1, <3>2, CallsUnfold DEF CallsStep
    <3>4. CallsOf[n] = CallsOf[p]
      BY <1>1, <1>2, <2>1, <3>1, <3>2, CallsUnfold DEF CallsStep
    <3>5. CallsOf[c] # <<>> /\ Front(CallsOf[c]) = CallsOf[p]
      BY <3>2, <3>3, FrontAppend
    <3>. QED  BY <2>4, <3>4, <3>5
  <2>. QED  BY <1>6, <2>2, <2>3, <2>4
<1>. QED  BY <1>1, <1>2, <1>4, <1>5, <1>6

\* NewCaller is what it was while the thread's place is.
LEMMA NewCallerKept ==
  ASSUME IndInv, [Next]_vars, NEW t \in Threads, root_bb[t] # NULL, cur_bb[t] # NULL,
         root_bb'[t] = root_bb[t], cur_bb'[t] = cur_bb[t], pre_state'[t] = pre_state[t]
  PROVE  NewCaller(t)' = NewCaller(t)
<1>1. /\ cur_bb[t] \in DOMAIN node
      /\ node[cur_bb[t]].parent_bb # NULL => node[cur_bb[t]].parent_bb \in DOMAIN node
  BY DEF IndInv, TypeOK, NodeInv
<1>2. /\ node'[cur_bb[t]] = node[cur_bb[t]]
      /\ node[cur_bb[t]].parent_bb # NULL =>
           node'[node[cur_bb[t]].parent_bb] = node[node[cur_bb[t]].parent_bb]
  BY <1>1, NodesKept
<1>3. /\ ParentOf(cur_bb[t])' = ParentOf(cur_bb[t])
      /\ ParentOf(ParentOf(cur_bb[t]))' = ParentOf(ParentOf(cur_bb[t]))
  BY <1>2 DEF ParentOf
<1>. QED  BY <1>3 DEF NewCaller

\* A thread with a root keeps a current node, and a node it is creating hangs under the
\* caller it found when it entered the block.
LEMMA BuildNext ==
  ASSUME IndInv, BuildInv, [Next]_vars
  PROVE  BuildInv'
<1>. USE DEF shared, registry, build, position, signals
<1>1. ASSUME NEW t \in Threads, root_bb[t] # NULL,
             root_bb'[t] = root_bb[t], cur_bb'[t] = cur_bb[t], pre_state'[t] = pre_state[t],
             building'[t] = building[t]
      PROVE  BuildInv!(t)'
  <2>1. /\ cur_bb[t] # NULL
        /\ building[t] # NULL => /\ NewCaller(t) # NULL
                                 /\ node[building[t]].parent_bb = NewCaller(t)
    BY <1>1 DEF BuildInv
  <2>2. building[t] # NULL => node'[building[t]] = node[building[t]]
    BY NodesKept DEF IndInv, TypeOK
  <2>3. NewCaller(t)' = NewCaller(t)
    BY <1>1, <2>1, NewCallerKept
  <2>. QED  BY <1>1, <2>1, <2>2, <2>3
<1>2. CASE UNCHANGED vars
  <2>. SUFFICES ASSUME NEW t \in Threads PROVE BuildInv!(t)'
    BY DEF BuildInv
  <2>. QED  BY <1>1, <1>2 DEF vars
<1>3. CASE Next
  <2>1. PICK u \in Threads :
          \/ ThreadStart(u) \/ CreateRoot(u) \/ FillSlot(u) \/ PublishRoot(u)
          \/ \E b \in Blocks : EnterKnown(u, b) \/ EnterNew(u, b)
          \/ EnterNull(u) \/ Publish(u) \/ SignalDeliver(u) \/ SignalReturn(u)
          \/ ThreadEnd(u)
    BY <1>3 DEF Next
  <2>2. SUFFICES ASSUME NEW t \in Threads PROVE BuildInv!(t)'
    BY DEF BuildInv
  <2>3. CASE t # u
    <3>1. /\ root_bb'[t] = root_bb[t] /\ cur_bb'[t] = cur_bb[t]
          /\ pre_state'[t] = pre_state[t] /\ building'[t] = building[t]
      BY <2>1, <2>3 DEF ThreadStart, CreateRoot, FillSlot, PublishRoot, EnterKnown, EnterNew,
         EnterNull, Publish, SignalDeliver, SignalReturn, ThreadEnd, CreateNode, MoveTo,
         IndInv, TypeOK
    <3>. QED  BY <1>1, <3>1
  <2>4. CASE t = u /\ (ThreadStart(u) \/ FillSlot(u) \/ EnterNull(u) \/ SignalDeliver(u)
                        \/ ThreadEnd(u))
    <3>1. UNCHANGED <<position, building>>
      BY <2>4 DEF ThreadStart, FillSlot, EnterNull, SignalDeliver, ThreadEnd
    <3>. QED  BY <1>1, <2>4, <3>1
  <2>5. CASE t = u /\ CreateRoot(u)
    BY <2>5 DEF CreateRoot, IndInv, ThreadInv
  <2>6. CASE t = u /\ (PublishRoot(u) \/ Publish(u))
    <3>1. building'[t] = NULL /\ cur_bb'[t] = building[t] /\ building[t] # NULL
      BY <2>6 DEF PublishRoot, Publish, MoveTo, IndInv, TypeOK, ThreadInv
    <3>. QED  BY <3>1
  <2>7. CASE t = u /\ \E b \in Blocks : EnterKnown(u, b)
    <3>1. PICK b \in Blocks : EnterKnown(t, b)
      BY <2>7
    <3>2. PICK n \in Found(NewCaller(t), b) : MoveTo(t, n)
      BY <3>1 DEF EnterKnown
    <3>3. NewCaller(t) \in DOMAIN node
      BY <3>1, CallerOK DEF EnterKnown
    <3>4. n \in DOMAIN node /\ n # NULL
      BY <3>3, NullAssumption DEF Found, IndInv, TypeOK
    <3>5. building'[t] = NULL /\ cur_bb'[t] = n
      BY <3>1, <3>2 DEF EnterKnown, MoveTo, IndInv, TypeOK, ThreadInv
    <3>. QED  BY <3>4, <3>5
  <2>8. CASE t = u /\ \E b \in Blocks : EnterNew(u, b)
    <3>1. PICK b \in Blocks : EnterNew(t, b)
      BY <2>8
    <3>2. /\ NewCaller(t) # NULL /\ CreateNode(t, b, NewCaller(t), SlotNum[b])
          /\ UNCHANGED position /\ pc[t] = "run"
      BY <3>1 DEF EnterNew
    <3>3. root_bb[t] # NULL /\ cur_bb[t] # NULL /\ building[t] = NULL
      BY <3>2 DEF IndInv, ThreadInv
    <3>4. CASE idle_idx' >= HandleMax
      BY <1>1, <3>2, <3>3, <3>4 DEF CreateNode
    <3>5. CASE ~ (idle_idx' >= HandleMax)
      <4>1. PICK n : n = <<t, made[t]>>
        OBVIOUS
      <4>2. /\ building'[t] = n /\ node'[n].parent_bb = NewCaller(t)
        BY <3>2, <3>5, <4>1 DEF CreateNode, IndInv, TypeOK
      <4>3. NewCaller(t)' = NewCaller(t)
        BY <3>2, <3>3, NewCallerKept
      <4>. QED  BY <3>2, <3>3, <4>2, <4>3
    <3>. QED  BY <3>4, <3>5
  <2>9. CASE t = u /\ SignalReturn(u)
    <3>1. pc[t] = "run" /\ sig_depth[t] > 0 /\ UNCHANGED building /\ cur_bb'[t] = sig_bb[t]
      BY <2>9 DEF SignalReturn, IndInv, TypeOK
    <3>2. building'[t] = NULL /\ cur_bb'[t] # NULL
      BY <3>1 DEF IndInv, ThreadInv
    <3>. QED  BY <3>2
  <2>. QED  BY <2>1, <2>3, <2>4, <2>5, <2>6, <2>7, <2>8, <2>9
<1>. QED  BY <1>2, <1>3

----------------------------------------------------------------------------
(* The refinement: programs without signals. *)

PathInvs == IndInv /\ RegistryInv /\ PathInv /\ BuildInv /\ PlaceInv

\* Only MoveTo and the publication of a root move a thread without signals.
LEMMA Moves ==
  ASSUME PathInvs, SigMax = 0, [Next]_vars
  PROVE  \/ UNCHANGED position
         \/ \E t \in Threads : PublishRoot(t)
         \/ \E t \in Threads, n \in DOMAIN node :
              /\ MoveTo(t, n) /\ UNCHANGED <<root_bb, node>>
              /\ root_bb[t] # NULL /\ cur_bb[t] # NULL
              /\ NewCaller(t) # NULL /\ node[n].parent_bb = NewCaller(t)
<1>1. ASSUME NEW t \in Threads, NEW b \in Blocks, EnterKnown(t, b)
      PROVE  \E n \in DOMAIN node :
               /\ MoveTo(t, n) /\ UNCHANGED <<root_bb, node>>
               /\ root_bb[t] # NULL /\ cur_bb[t] # NULL
               /\ NewCaller(t) # NULL /\ node[n].parent_bb = NewCaller(t)
  <2>1. PICK n \in Found(NewCaller(t), b) : MoveTo(t, n)
    BY <1>1 DEF EnterKnown
  <2>2. NewCaller(t) \in DOMAIN node /\ NewCaller(t) # NULL
    BY <1>1, CallerOK DEF EnterKnown, PathInvs
  <2>3. n \in DOMAIN node /\ node[n].parent_bb = NewCaller(t)
    BY <2>2 DEF Found, PathInvs, IndInv, TypeOK, CalleeInv
  <2>4. root_bb[t] # NULL /\ cur_bb[t] # NULL /\ UNCHANGED <<root_bb, node>>
    BY <1>1 DEF EnterKnown, shared, PathInvs, IndInv, ThreadInv
  <2>. QED  BY <2>1, <2>2, <2>3, <2>4
<1>2. ASSUME NEW t \in Threads, Publish(t)
      PROVE  \E n \in DOMAIN node :
               /\ MoveTo(t, n) /\ UNCHANGED <<root_bb, node>>
               /\ root_bb[t] # NULL /\ cur_bb[t] # NULL
               /\ NewCaller(t) # NULL /\ node[n].parent_bb = NewCaller(t)
  <2>1. /\ building[t] \in DOMAIN node /\ building[t] # NULL
        /\ MoveTo(t, building[t]) /\ UNCHANGED <<root_bb, node>>
    BY <1>2, Finished DEF Publish, PathInvs
  <2>2. root_bb[t] # NULL
    BY <1>2, <2>1 DEF Publish, PathInvs, IndInv, ThreadInv
  <2>3. cur_bb[t] # NULL /\ NewCaller(t) # NULL /\ node[building[t]].parent_bb = NewCaller(t)
    BY <2>1, <2>2 DEF PathInvs, BuildInv
  <2>. QED  BY <2>1, <2>2, <2>3
<1>3. ASSUME NEW t \in Threads PROVE ~ SignalReturn(t)
  BY <1>3 DEF SignalReturn, PathInvs, PathInv
<1>4. CASE UNCHANGED vars
  BY <1>4 DEF vars
<1>5. CASE Next
  BY <1>1, <1>2, <1>3, <1>5 DEF Next, ThreadStart, CreateRoot, FillSlot, EnterNew, EnterNull,
     SignalDeliver, ThreadEnd
<1>. QED  BY <1>4, <1>5

\* What MoveTo does to the place of every thread.
LEMMA MovePlace ==
  ASSUME PathInvs, NEW t \in Threads, NEW n \in DOMAIN node, MoveTo(t, n),
         UNCHANGED <<root_bb, node>>, node[n].parent_bb # NULL
  PROVE  /\ \A u \in Threads : cur_bb'[u] = IF u = t THEN n ELSE cur_bb[u]
         /\ pre_state' = [pre_state EXCEPT ![t] = EndState[node[n].key]]
         /\ n # root_bb[t] /\ node[n].key \in Blocks
<1>1. \A u \in Threads : cur_bb'[u] = IF u = t THEN n ELSE cur_bb[u]
  BY DEF MoveTo, PathInvs, IndInv, TypeOK
<1>2. node[n].key \in Blocks
  BY RangeType DEF PathInvs, IndInv, NodeInv
<1>3. n # root_bb[t]
  BY NullAssumption DEF PathInvs, IndInv, TypeOK, NodeInv, ThreadInv
<1>. QED  BY <1>1, <1>2, <1>3 DEF MoveTo

\* Without signals, a thread's place stays that of its last block in every step.
LEMMA PlaceNext ==
  ASSUME PathInvs, SigMax = 0, [Next]_vars
  PROVE  PlaceInv'
<1>1. \A t \in Threads : cur_bb[t] \in DOMAIN node =>
        cur_bb[t] \in DOMAIN node' /\ node'[cur_bb[t]] = node[cur_bb[t]]
  BY NodesKept DEF PathInvs
<1>2. \A t \in Threads : root_bb[t] # NULL => cur_bb[t] \in DOMAIN node
  BY DEF PathInvs, BuildInv, IndInv, TypeOK
<1>3. CASE UNCHANGED position
  BY <1>1, <1>2, <1>3 DEF position, PathInvs, PlaceInv
<1>4. ASSUME NEW t \in Threads, PublishRoot(t) PROVE PlaceInv'
  <2>1. /\ \A u \in Threads : root_bb'[u] = IF u = t THEN building[t] ELSE root_bb[u]
        /\ \A u \in Threads : cur_bb'[u] = IF u = t THEN building[t] ELSE cur_bb[u]
        /\ \A u \in Threads : u # t => pre_state'[u] = pre_state[u]
        /\ node' = node
    BY <1>4 DEF PublishRoot, shared, PathInvs, IndInv, TypeOK
  <2>2. PlaceInv
    BY DEF PathInvs
  <2>. QED  BY <2>1, <2>2 DEF PlaceInv
<1>5. ASSUME NEW t \in Threads, NEW n \in DOMAIN node, MoveTo(t, n),
             UNCHANGED <<root_bb, node>>, node[n].parent_bb # NULL
      PROVE  PlaceInv'
  <2>1. \A u \in Threads : pre_state'[u] = IF u = t THEN EndState[node[n].key] ELSE pre_state[u]
    <3>1. DOMAIN pre_state = Threads
      BY DEF PathInvs, IndInv, TypeOK
    <3>2. pre_state' = [pre_state EXCEPT ![t] = EndState[node[n].key]]
      BY <1>5, MovePlace
    <3>. QED  BY <3>1, <3>2
  <2>. QED  BY <1>5, <2>1, MovePlace DEF PathInvs, PlaceInv
<1>. QED  BY <1>3, <1>4, <1>5, Moves

\* A thread whose place and whose node stay has the context it had.
LEMMA ContextKept ==
  ASSUME PathInvs, IndInv', [Next]_vars, NEW t \in Threads,
         root_bb'[t] = root_bb[t], cur_bb'[t] = cur_bb[t]
  PROVE  ContextOf(t)' = ContextOf(t)
<1>1. root_bb[t] # NULL => cur_bb[t] \in DOMAIN node
  BY DEF PathInvs, BuildInv, IndInv, TypeOK
<1>2. root_bb[t] # NULL => /\ CallsOf'[cur_bb[t]] = CallsOf[cur_bb[t]]
                           /\ node'[cur_bb[t]] = node[cur_bb[t]]
  BY <1>1, CallsKept, NodesKept DEF PathInvs
<1>. QED  BY <1>2 DEF ContextOf

\* The contexts are those of CallStack.
LEMMA ContextType ==
  ASSUME PathInvs, NEW t \in Threads, root_bb[t] # NULL
  PROVE  ContextOf(t) \in Stack!Contexts /\ ContextOf(t) # NULL
<1>1. CASE cur_bb[t] = root_bb[t]
  <2>1. ContextOf(t) = [calls |-> <<>>, last |-> NULL]
    BY <1>1 DEF ContextOf
  <2>2. <<>> \in Seq(Blocks)
    OBVIOUS
  <2>3. ContextOf(t) \in Stack!Contexts
    BY <2>1, <2>2 DEF Stack!Contexts
  <2>. QED  BY <2>3, ContextAssumption
<1>2. CASE cur_bb[t] # root_bb[t]
  <2>1. cur_bb[t] \in DOMAIN node /\ Published(cur_bb[t]) /\ cur_bb[t][1] = t
    BY NullAssumption DEF PathInvs, BuildInv, IndInv, TypeOK, ThreadInv, Owned
  <2>2. node[cur_bb[t]].key \in Blocks
    BY <1>2, <2>1, RangeType DEF PathInvs, IndInv, RegistryInv
  <2>3. CallsOf[cur_bb[t]] \in Seq(Blocks)
    BY <2>1, CallsUnfold DEF PathInvs
  <2>4. ContextOf(t) \in Stack!Contexts
    BY <1>2, <2>2, <2>3 DEF ContextOf, Stack!Contexts
  <2>. QED  BY <2>4, ContextAssumption
<1>. QED  BY <1>1, <1>2

\* What CallStack makes of the previous block, case by case.
LEMMA CallsNowIs ==
  ASSUME NEW q, NEW b, NEW c, c = [calls |-> q, last |-> b]
  PROVE  /\ b = NULL => Stack!CallsNow(c) = q
         /\ b # NULL /\ EndState[b] = "call" => Stack!CallsNow(c) = Append(q, b)
         /\ b # NULL /\ EndState[b] = "ret" =>
              Stack!CallsNow(c) = IF q = <<>> THEN <<>> ELSE Front(q)
         /\ b # NULL /\ EndState[b] = "other" => Stack!CallsNow(c) = q
<1>1. c.calls = q /\ c.last = b
  OBVIOUS
<1>2. ASSUME b = NULL PROVE Stack!CallsNow(c) = q
  BY <1>1, <1>2 DEF Stack!CallsNow
<1>3. ASSUME b # NULL, EndState[b] = "call" PROVE Stack!CallsNow(c) = Append(q, b)
  BY <1>1, <1>3 DEF Stack!CallsNow
<1>4. ASSUME b # NULL, EndState[b] = "ret"
      PROVE  Stack!CallsNow(c) = IF q = <<>> THEN <<>> ELSE Front(q)
  <2>1. "ret" # "call" /\ "ret" # "other"
    OBVIOUS
  <2>2. Stack!CallsNow(c) = IF q = <<>> THEN <<>> ELSE Stack!Front(q)
    BY <1>1, <1>4, <2>1 DEF Stack!CallsNow
  <2>3. Stack!Front(q) = Front(q)
    BY DEF Stack!Front, Front
  <2>. QED  BY <2>2, <2>3
<1>5. ASSUME b # NULL, EndState[b] = "other" PROVE Stack!CallsNow(c) = q
  BY <1>1, <1>5 DEF Stack!CallsNow
<1>. QED  BY <1>2, <1>3, <1>4, <1>5

\* The context after a block is the one CallStack says: the calls the program is
\* inside of after the previous block, and the block.
LEMMA MoveContext ==
  ASSUME PathInvs, IndInv', [Next]_vars, NEW t \in Threads, NEW n \in DOMAIN node,
         MoveTo(t, n), UNCHANGED <<root_bb, node>>,
         root_bb[t] # NULL, cur_bb[t] # NULL, NewCaller(t) # NULL,
         node[n].parent_bb = NewCaller(t)
  PROVE  ContextOf(t)' = [calls |-> Stack!CallsNow(ContextOf(t)), last |-> node[n].key]
<1>1. /\ root_bb'[t] # NULL /\ cur_bb'[t] = n /\ n # root_bb'[t] /\ node'[n] = node[n]
  BY MovePlace
<1>2. CallsOf'[n] = CallsOf[n]
  BY CallsKept DEF PathInvs
<1>3. ContextOf(t)' = [calls |-> CallsOf[n], last |-> node[n].key]
  BY <1>1, <1>2 DEF ContextOf
<1>4. /\ pre_state[t] = "root" => CallsOf[n] = <<>>
      /\ pre_state[t] = "call" =>
           CallsOf[n] = Append(CallsOf[cur_bb[t]], node[cur_bb[t]].key)
      /\ pre_state[t] = "ret" /\ cur_bb[t] # root_bb[t] =>
           CallsOf[n] = IF CallsOf[cur_bb[t]] = <<>> THEN <<>> ELSE Front(CallsOf[cur_bb[t]])
      /\ pre_state[t] = "other" /\ cur_bb[t] # root_bb[t] => CallsOf[n] = CallsOf[cur_bb[t]]
  BY CallerCalls DEF PathInvs
<1>6. CASE cur_bb[t] # root_bb[t]
  <2>1. pre_state[t] = EndState[node[cur_bb[t]].key]
    BY <1>6 DEF PathInvs, PlaceInv
  <2>2. ContextOf(t) = [calls |-> CallsOf[cur_bb[t]], last |-> node[cur_bb[t]].key]
    BY <1>6 DEF ContextOf
  <2>3. node[cur_bb[t]].key # NULL /\ pre_state[t] \in EndStates
    <3>0. cur_bb[t] \in DOMAIN node /\ Published(cur_bb[t]) /\ cur_bb[t][1] = t
      BY NullAssumption DEF PathInvs, BuildInv, IndInv, TypeOK, ThreadInv, Owned
    <3>1. node[cur_bb[t]].key \in Blocks
      BY <1>6, <3>0, RangeType DEF PathInvs, IndInv, RegistryInv
    <3>. QED  BY <2>1, <3>1, NullAssumption, BlocksAssumption
  <2>4. CallsOf[n] = Stack!CallsNow(ContextOf(t))
    <3>1. PICK q, b : q = CallsOf[cur_bb[t]] /\ b = node[cur_bb[t]].key
      OBVIOUS
    <3>2. ContextOf(t) = [calls |-> q, last |-> b] /\ pre_state[t] = EndState[b] /\ b # NULL
      BY <2>1, <2>2, <2>3, <3>1
    <3>3. CASE EndState[b] = "call"
      <4>1. Stack!CallsNow(ContextOf(t)) = Append(q, b)
        BY <3>2, <3>3, CallsNowIs
      <4>. QED  BY <1>4, <3>1, <3>2, <3>3, <4>1
    <3>4. CASE EndState[b] = "ret"
      <4>1. Stack!CallsNow(ContextOf(t)) = IF q = <<>> THEN <<>> ELSE Front(q)
        BY <3>2, <3>4, CallsNowIs
      <4>. QED  BY <1>4, <1>6, <3>1, <3>2, <3>4, <4>1
    <3>5. CASE EndState[b] = "other"
      <4>1. Stack!CallsNow(ContextOf(t)) = q
        BY <3>2, <3>5, CallsNowIs
      <4>. QED  BY <1>4, <1>6, <3>1, <3>2, <3>5, <4>1
    <3>. QED  BY <2>3, <3>2, <3>3, <3>4, <3>5 DEF EndStates
  <2>. QED  BY <1>3, <2>4
<1>7. CASE cur_bb[t] = root_bb[t]
  <2>1. ContextOf(t) = [calls |-> <<>>, last |-> NULL] /\ pre_state[t] = "root"
    BY <1>7 DEF ContextOf, PathInvs, PathInv
  <2>2. CallsOf[n] = Stack!CallsNow(ContextOf(t))
    BY <1>4, <2>1, CallsNowIs
  <2>. QED  BY <1>3, <2>2
<1>. QED  BY <1>6, <1>7

\* A thread's place and its path are those of its last block, in every state of a
\* program without signals.
THEOREM PlaceInvariant ==
  ASSUME SigMax = 0
  PROVE  Spec => []PathInvs
<1>1. Init => BuildInv /\ PlaceInv
  BY DEF Init, BuildInv, PlaceInv
<1>2. PathInvs /\ [Next]_vars => BuildInv' /\ PlaceInv'
  BY BuildNext, PlaceNext DEF PathInvs
<1>. QED  BY <1>1, <1>2, PathInvariant, PTL DEF Spec, PathInvs

\* The contexts of the step of one thread: what CallStack's actions ask for.
LEMMA StackStep ==
  ASSUME PathInvs, IndInv', SigMax = 0, [Next]_vars
  PROVE  [Stack!Next]_(Stack!vars)
<1>. DEFINE stack == [t \in Threads |-> ContextOf(t)]
<1>1. ASSUME NEW t \in Threads, root_bb'[t] = root_bb[t], cur_bb'[t] = cur_bb[t]
      PROVE  ContextOf(t)' = ContextOf(t)
  BY <1>1, ContextKept
<1>2. CASE UNCHANGED position
  <2>1. \A t \in Threads : ContextOf(t)' = ContextOf(t)
    BY <1>1, <1>2 DEF position
  <2>. QED  BY <2>1 DEF Stack!vars
<1>3. ASSUME NEW t \in Threads, PublishRoot(t) PROVE Stack!Start(t)
  <2>1. \A u \in Threads : u # t => root_bb'[u] = root_bb[u] /\ cur_bb'[u] = cur_bb[u]
    BY <1>3 DEF PublishRoot, PathInvs, IndInv, TypeOK
  <2>2. root_bb'[t] = building[t] /\ cur_bb'[t] = building[t] /\ building[t] # NULL
    BY <1>3 DEF PublishRoot, PathInvs, IndInv, TypeOK, ThreadInv
  <2>3. root_bb[t] = NULL
    BY <1>3, <2>2 DEF PublishRoot, PathInvs, IndInv, ThreadInv
  <2>4. ContextOf(t) = NULL /\ ContextOf(t)' = [calls |-> <<>>, last |-> NULL]
    BY <2>2, <2>3 DEF ContextOf
  <2>5. stack' = [stack EXCEPT ![t] = [calls |-> <<>>, last |-> NULL]]
    BY <2>1, <2>4, <1>1
  <2>. QED  BY <2>4, <2>5 DEF Stack!Start
<1>4. ASSUME NEW t \in Threads, NEW n \in DOMAIN node, MoveTo(t, n),
             UNCHANGED <<root_bb, node>>, root_bb[t] # NULL, cur_bb[t] # NULL,
             NewCaller(t) # NULL, node[n].parent_bb = NewCaller(t)
      PROVE  Stack!Enter(t, node[n].key) /\ node[n].key \in Blocks
  <2>1. /\ \A u \in Threads : u # t => root_bb'[u] = root_bb[u] /\ cur_bb'[u] = cur_bb[u]
        /\ node[n].key \in Blocks
    BY <1>4, MovePlace
  <2>2. ContextOf(t)' = [calls |-> Stack!CallsNow(ContextOf(t)), last |-> node[n].key]
    BY <1>4, MoveContext
  <2>3. ContextOf(t) # NULL
    BY <1>4, ContextType
  <2>4. stack' = [stack EXCEPT ![t] = [calls |-> Stack!CallsNow(stack[t]), last |-> node[n].key]]
    BY <2>1, <2>2, <1>1
  <2>. QED  BY <2>1, <2>3, <2>4 DEF Stack!Enter
<1>. QED  BY <1>2, <1>3, <1>4, Moves DEF Stack!Next

\* CCT implements CallStack: whatever the threads of a program without signals do, and
\* however they share the handles, the path to the node cur_bb_node of each of them is
\* the stack of calls the thread is inside of.
THEOREM Tracks ==
  ASSUME SigMax = 0
  PROVE  Spec => TracksCallStack
<1>1. Init => Stack!Init
  BY DEF Init, Stack!Init, ContextOf
<1>2. PathInvs /\ PathInvs' /\ [Next]_vars => [Stack!Next]_(Stack!vars)
  BY StackStep DEF PathInvs
<1>. QED  BY <1>1, <1>2, PlaceInvariant, PTL DEF Spec, TracksCallStack, Stack!Spec

----------------------------------------------------------------------------
(* Plain signals. *)

JointInv == IndInv /\ RegistryInv /\ BuildInv /\ SignalInv

\* The joint steps are steps of the tree.
LEMMA JointStep == [JointNext]_jointvars => [Next]_vars
  BY DEF JointNext, jointvars, Begin, Enter, Deliver, Return, Silent, Next

\* What SignalInv says of one thread.
SignalOK(t) ==
  plain[t] =>
    /\ pc[t] # "crash"
    /\ root_bb[t] # NULL => OnPath(t)
    /\ sig_depth[t] = 0 => saved[t] = <<>>
    /\ sig_depth[t] # 0 =>
         /\ sig_depth[t] = 1 /\ sig_bb[t] # root_bb[t]
         /\ saved[t] = << [calls |-> CallsOf[sig_bb[t]], last |-> NULL] >>

\* A thread that takes no step stays where it is, and so does one that only creates
\* a node.
LEMMA SignalKept ==
  ASSUME JointInv, IndInv', [Next]_vars, NEW t \in Threads,
         root_bb'[t] = root_bb[t], cur_bb'[t] = cur_bb[t], pre_state'[t] = pre_state[t],
         sig_bb'[t] = sig_bb[t], sig_depth'[t] = sig_depth[t],
         ctx'[t] = ctx[t], saved'[t] = saved[t], plain'[t] = plain[t],
         pc[t] # "crash" => pc'[t] # "crash"
  PROVE  SignalOK(t)'
<1>1. SignalOK(t)
  BY DEF JointInv, SignalInv, SignalOK
<1>2. root_bb[t] # NULL => cur_bb[t] \in DOMAIN node
  BY DEF JointInv, BuildInv, IndInv, TypeOK
<1>3. root_bb[t] # NULL => CallsOf'[cur_bb[t]] = CallsOf[cur_bb[t]] /\ node'[cur_bb[t]] = node[cur_bb[t]]
  BY <1>2, CallsKept, NodesKept DEF JointInv
<1>4. sig_depth[t] # 0 => sig_bb[t] \in DOMAIN node
  BY DEF JointInv, IndInv, TypeOK, ThreadInv
<1>5. sig_depth[t] # 0 => CallsOf'[sig_bb[t]] = CallsOf[sig_bb[t]]
  BY <1>4, CallsKept DEF JointInv
<1>6. root_bb[t] # NULL /\ OnPath(t) => OnPath(t)'
  BY <1>3 DEF OnPath
<1>. QED  BY <1>1, <1>5, <1>6 DEF SignalOK

\* The calls a new block of a thread on its path is inside of are the program's.
LEMMA ProgramCalls ==
  ASSUME IndInv, RegistryInv, NEW t \in Threads, root_bb[t] # NULL, cur_bb[t] # NULL,
         NewCaller(t) # NULL, NEW n \in DOMAIN node, node[n].parent_bb = NewCaller(t),
         OnPath(t)
  PROVE  CallsOf[n] = Program!CallsNow(ctx[t])
<1>1. /\ pre_state[t] = "root" => CallsOf[n] = <<>>
      /\ pre_state[t] = "call" =>
           CallsOf[n] = Append(CallsOf[cur_bb[t]], node[cur_bb[t]].key)
      /\ pre_state[t] = "ret" /\ cur_bb[t] # root_bb[t] =>
           CallsOf[n] = IF CallsOf[cur_bb[t]] = <<>> THEN <<>> ELSE Front(CallsOf[cur_bb[t]])
      /\ pre_state[t] = "other" /\ cur_bb[t] # root_bb[t] => CallsOf[n] = CallsOf[cur_bb[t]]
  BY CallerCalls
<1>2. CASE ctx[t].last = NULL
  <2>1. Program!CallsNow(ctx[t]) = ctx[t].calls
    BY <1>2 DEF Program!CallsNow
  <2>. QED  BY <1>1, <1>2, <2>1 DEF OnPath
<1>3. CASE ctx[t].last # NULL
  <2>1. PICK q, b : q = ctx[t].calls /\ b = ctx[t].last
    OBVIOUS
  <2>2. /\ cur_bb[t] # root_bb[t] /\ node[cur_bb[t]].key = b /\ CallsOf[cur_bb[t]] = q
        /\ pre_state[t] = EndState[b] /\ b # NULL /\ b \in Blocks
    <3>1. /\ cur_bb[t] # root_bb[t] /\ node[cur_bb[t]].key = b /\ CallsOf[cur_bb[t]] = q
          /\ pre_state[t] = EndState[b] /\ b # NULL
      BY <1>3, <2>1 DEF OnPath
    <3>2. cur_bb[t] \in DOMAIN node /\ Published(cur_bb[t]) /\ cur_bb[t][1] = t
      BY NullAssumption DEF IndInv, TypeOK, ThreadInv, Owned
    <3>3. node[cur_bb[t]].key \in Blocks
      BY <3>1, <3>2, RangeType DEF IndInv, RegistryInv
    <3>. QED  BY <3>1, <3>3
  <2>3. CASE EndState[b] = "call"
    <3>1. Program!CallsNow(ctx[t]) = Append(q, b)
      BY <2>1, <2>2, <2>3 DEF Program!CallsNow
    <3>. QED  BY <1>1, <2>2, <2>3, <3>1
  <2>4. CASE EndState[b] = "ret"
    <3>1. "ret" # "call" /\ "ret" # "other"
      OBVIOUS
    <3>2. Program!CallsNow(ctx[t]) = IF q = <<>> THEN <<>> ELSE Program!Front(q)
      BY <2>1, <2>2, <2>4, <3>1 DEF Program!CallsNow
    <3>3. Program!Front(q) = Front(q)
      BY DEF Program!Front, Front
    <3>. QED  BY <1>1, <2>2, <2>4, <3>2, <3>3
  <2>5. CASE EndState[b] = "other"
    <3>1. Program!CallsNow(ctx[t]) = q
      BY <2>1, <2>2, <2>5 DEF Program!CallsNow
    <3>. QED  BY <1>1, <2>2, <2>5, <3>1
  <2>. QED  BY <2>2, <2>3, <2>4, <2>5, BlocksAssumption DEF EndStates
<1>. QED  BY <1>2, <1>3

\* A block a thread on its path enters leaves it on its path.
LEMMA SignalEnter ==
  ASSUME JointInv, IndInv', [Next]_vars, NEW t \in Threads, NEW n \in DOMAIN node,
         MoveTo(t, n), UNCHANGED <<root_bb, node, sig_bb, sig_depth, saved, plain>>,
         root_bb[t] # NULL, cur_bb[t] # NULL, NewCaller(t) # NULL,
         node[n].parent_bb = NewCaller(t), Program!Enter(t, node[n].key),
         pc'[t] # "crash"
  PROVE  SignalOK(t)'
<1>1. SignalOK(t)
  BY DEF JointInv, SignalInv, SignalOK
<1>2. /\ cur_bb'[t] = n /\ pre_state'[t] = EndState[node[n].key] /\ n # root_bb[t]
      /\ node[n].key \in Blocks /\ node[n].key # NULL
  <2>1. cur_bb'[t] = n /\ pre_state'[t] = EndState[node[n].key]
    BY DEF MoveTo, JointInv, IndInv, TypeOK
  <2>2. node[n].parent_bb # NULL
    OBVIOUS
  <2>3. node[n].key \in Blocks /\ n # root_bb[t]
    BY <2>2, RangeType DEF JointInv, IndInv, NodeInv, ThreadInv
  <2>. QED  BY <2>1, <2>3, NullAssumption
<1>3. /\ CallsOf'[n] = CallsOf[n] /\ node'[n] = node[n]
      /\ sig_depth[t] # 0 => CallsOf'[sig_bb[t]] = CallsOf[sig_bb[t]]
  <2>1. sig_depth[t] # 0 => sig_bb[t] \in DOMAIN node
    BY DEF JointInv, IndInv, TypeOK, ThreadInv
  <2>2. IndInv
    BY DEF JointInv
  <2>. QED  BY <2>1, <2>2, CallsKept
<1>4. ctx'[t] = [calls |-> Program!CallsNow(ctx[t]), last |-> node[n].key]
  BY DEF Program!Enter, JointInv, SignalInv
<1>5. OnPath(t) => CallsOf[n] = Program!CallsNow(ctx[t])
  BY ProgramCalls DEF JointInv
<1>6. OnPath(t) => OnPath(t)'
  BY <1>2, <1>3, <1>4, <1>5 DEF OnPath
<1>. QED  BY <1>1, <1>3, <1>6 DEF SignalOK

\* A delivery saves the node of the thread's last block, which ends in neither a call
\* nor a return, and leaves the thread there.
LEMMA SignalDelivered ==
  ASSUME JointInv, IndInv', [Next]_vars, NEW t \in Threads, Deliver(t)
  PROVE  SignalOK(t)'
<1>1. /\ cur_bb' = cur_bb /\ root_bb' = root_bb /\ pre_state' = pre_state /\ pc' = pc
      /\ node' = node /\ pc[t] = "run" /\ root_bb[t] # NULL /\ cur_bb[t] \in DOMAIN node
      /\ sig_bb'[t] = cur_bb[t] /\ sig_depth'[t] = sig_depth[t] + 1
      /\ plain'[t] => plain[t] /\ sig_depth[t] = 0 /\ pre_state[t] = "other"
  <2>1. SignalDeliver(t)
    BY DEF Deliver
  <2>2. /\ cur_bb' = cur_bb /\ root_bb' = root_bb /\ pre_state' = pre_state /\ pc' = pc
        /\ node' = node /\ pc[t] = "run" /\ root_bb[t] # NULL /\ cur_bb[t] \in DOMAIN node
        /\ sig_bb'[t] = cur_bb[t] /\ sig_depth'[t] = sig_depth[t] + 1
    BY <2>1 DEF SignalDeliver, shared, position, JointInv, IndInv, TypeOK, ThreadInv
  <2>3. plain'[t] = (plain[t] /\ sig_depth[t] = 0 /\ pre_state[t] = "other")
    BY Zenon DEF Deliver, JointInv, SignalInv
  <2>. QED  BY <2>2, <2>3
<1>2. CallsOf'[cur_bb[t]] = CallsOf[cur_bb[t]]
  BY <1>1, CallsKept DEF JointInv
<1>3. SUFFICES ASSUME plain'[t] PROVE SignalOK(t)'
  BY DEF SignalOK
<1>4. OnPath(t) /\ pre_state[t] = "other" /\ saved[t] = <<>> /\ sig_depth[t] = 0
  BY <1>1, <1>3 DEF JointInv, SignalInv
<1>5. cur_bb[t] # root_bb[t] /\ CallsOf[cur_bb[t]] = ctx[t].calls
  BY <1>4 DEF OnPath
<1>6. Program!CallsNow(ctx[t]) = ctx[t].calls
  BY <1>4 DEF OnPath, Program!CallsNow
<1>7. PICK c \in {ctx[t].calls, Program!CallsNow(ctx[t])} :
        /\ ctx' = [ctx EXCEPT ![t] = [calls |-> c, last |-> NULL]]
        /\ saved' = [saved EXCEPT ![t] = Append(@, [calls |-> c, last |-> NULL])]
  BY DEF Deliver, Program!Deliver
<1>8. /\ ctx'[t] = [calls |-> ctx[t].calls, last |-> NULL]
      /\ saved'[t] = Append(<<>>, [calls |-> ctx[t].calls, last |-> NULL])
  BY <1>4, <1>6, <1>7 DEF JointInv, SignalInv
<1>9. saved'[t] = << [calls |-> ctx[t].calls, last |-> NULL] >>
  BY <1>8
<1>10. OnPath(t)'
  BY <1>1, <1>2, <1>4, <1>5, <1>8 DEF OnPath
<1>11. sig_depth'[t] = 1
  BY <1>1, <1>4
<1>. QED  BY <1>1, <1>2, <1>5, <1>9, <1>10, <1>11 DEF SignalOK

\* The return from a plain signal takes the thread back to the saved node, in the state
\* it had there.
LEMMA SignalReturned ==
  ASSUME JointInv, IndInv', [Next]_vars, NEW t \in Threads, Return(t)
  PROVE  SignalOK(t)'
<1>1. /\ root_bb' = root_bb /\ pre_state' = pre_state /\ pc' = pc /\ node' = node
      /\ pc[t] = "run" /\ root_bb[t] # NULL /\ sig_bb[t] \in DOMAIN node
      /\ sig_bb' = sig_bb /\ sig_depth'[t] = sig_depth[t] - 1 /\ cur_bb'[t] = sig_bb[t]
      /\ sig_depth[t] # 0
      /\ plain'[t] => plain[t] /\ pre_state[t] = "other"
  <2>1. SignalReturn(t)
    BY DEF Return
  <2>2. /\ root_bb' = root_bb /\ pre_state' = pre_state /\ pc' = pc /\ node' = node
        /\ pc[t] = "run" /\ root_bb[t] # NULL /\ sig_bb[t] \in DOMAIN node
        /\ sig_bb' = sig_bb /\ sig_depth'[t] = sig_depth[t] - 1 /\ cur_bb'[t] = sig_bb[t]
        /\ sig_depth[t] # 0
    BY <2>1 DEF SignalReturn, shared, JointInv, IndInv, TypeOK, ThreadInv
  <2>3. plain'[t] = (plain[t] /\ pre_state[t] = "other")
    BY Zenon DEF Return, JointInv, SignalInv
  <2>. QED  BY <2>2, <2>3
<1>2. CallsOf'[sig_bb[t]] = CallsOf[sig_bb[t]]
  BY <1>1, CallsKept DEF JointInv
<1>3. SUFFICES ASSUME plain'[t] PROVE SignalOK(t)'
  BY DEF SignalOK
<1>4. /\ pre_state[t] = "other" /\ sig_depth[t] = 1 /\ sig_bb[t] # root_bb[t]
      /\ saved[t] = << [calls |-> CallsOf[sig_bb[t]], last |-> NULL] >>
  BY <1>1, <1>3 DEF JointInv, SignalInv
<1>5. ctx'[t] = Program!Last(saved[t]) /\ saved'[t] = Program!Front(saved[t])
  BY DEF Return, Program!Return, JointInv, SignalInv
<1>6. PICK p : p = [calls |-> CallsOf[sig_bb[t]], last |-> NULL]
  OBVIOUS
<1>7. Program!Last(<<p>>) = p /\ Program!Front(<<p>>) = <<>>
  <2>1. Len(<<p>>) = 1 /\ <<p>>[1] = p
    OBVIOUS
  <2>2. Program!Last(<<p>>) = p
    BY <2>1 DEF Program!Last
  <2>3. Program!Front(<<p>>) = <<>>
    BY <2>1 DEF Program!Front
  <2>. QED  BY <2>2, <2>3
<1>8. ctx'[t] = p /\ saved'[t] = <<>>
  BY <1>4, <1>5, <1>6, <1>7
<1>9. OnPath(t)'
  BY <1>1, <1>2, <1>4, <1>6, <1>8 DEF OnPath
<1>10. sig_depth'[t] = 0
  BY <1>1, <1>4
<1>. QED  BY <1>1, <1>4, <1>8, <1>9, <1>10 DEF SignalOK

\* A thread starts at its root, before its first block.
LEMMA SignalBegin ==
  ASSUME JointInv, IndInv', [Next]_vars, NEW t \in Threads, Begin(t)
  PROVE  SignalOK(t)'
<1>1. /\ root_bb'[t] = building[t] /\ cur_bb'[t] = building[t] /\ pre_state'[t] = "root"
      /\ pc'[t] = "run" /\ sig_depth'[t] = 0 /\ sig_depth[t] = 0
      /\ saved' = saved /\ plain' = plain /\ ctx'[t] = [calls |-> <<>>, last |-> NULL]
  <2>1. root_bb[t] = NULL /\ sig_depth[t] = 0
    BY DEF Begin, PublishRoot, JointInv, IndInv, TypeOK, ThreadInv
  <2>. QED  BY <2>1 DEF Begin, PublishRoot, Program!Start, JointInv, IndInv, TypeOK, SignalInv
<1>2. OnPath(t)'
  BY <1>1 DEF OnPath
<1>3. plain[t] => saved[t] = <<>>
  BY <1>1 DEF JointInv, SignalInv
<1>. QED  BY <1>1, <1>2, <1>3 DEF SignalOK

\* The block a step enters: a known one, or the one just created.
LEMMA EnterMoves ==
  ASSUME JointInv, [Next]_vars, NEW t \in Threads, Enter(t)
  PROVE  \E n \in DOMAIN node :
           /\ MoveTo(t, n) /\ UNCHANGED <<root_bb, node, sig_bb, sig_depth, saved, plain>>
           /\ root_bb[t] # NULL /\ cur_bb[t] # NULL
           /\ NewCaller(t) # NULL /\ node[n].parent_bb = NewCaller(t)
           /\ Program!Enter(t, node[n].key)
           /\ pc'[t] # "crash"
<1>. DEFINE Moved(n) ==
       /\ MoveTo(t, n) /\ UNCHANGED <<root_bb, node, sig_bb, sig_depth, saved, plain>>
       /\ root_bb[t] # NULL /\ cur_bb[t] # NULL
       /\ NewCaller(t) # NULL /\ node[n].parent_bb = NewCaller(t)
       /\ Program!Enter(t, node[n].key)
       /\ pc'[t] # "crash"
<1>1. ASSUME NEW b \in Blocks, EnterKnown(t, b), Program!Enter(t, b)
      PROVE  \E n \in DOMAIN node : Moved(n)
  <2>1. PICK n \in Found(NewCaller(t), b) : MoveTo(t, n)
    BY <1>1 DEF EnterKnown
  <2>2. NewCaller(t) \in DOMAIN node /\ NewCaller(t) # NULL
    BY <1>1, CallerOK DEF EnterKnown, JointInv
  <2>3. n \in DOMAIN node /\ node[n].parent_bb = NewCaller(t) /\ node[n].key = b
    BY <2>2 DEF Found, JointInv, IndInv, TypeOK, CalleeInv
  <2>4. /\ root_bb[t] # NULL /\ cur_bb[t] # NULL /\ pc'[t] # "crash"
        /\ UNCHANGED <<root_bb, node, sig_bb, sig_depth, saved, plain>>
    BY <1>1 DEF EnterKnown, shared, JointInv, IndInv, ThreadInv, Enter, Program!Enter
  <2>. QED  BY <1>1, <2>1, <2>2, <2>3, <2>4
<1>2. ASSUME Publish(t), Program!Enter(t, node[building[t]].key)
      PROVE  \E n \in DOMAIN node : Moved(n)
  <2>1. /\ building[t] \in DOMAIN node /\ building[t] # NULL
        /\ MoveTo(t, building[t]) /\ pc'[t] # "crash"
        /\ UNCHANGED <<root_bb, node, sig_bb, sig_depth, saved, plain>>
    BY <1>2, Finished DEF Publish, JointInv, Enter, Program!Enter, IndInv, TypeOK
  <2>2. root_bb[t] # NULL
    BY <1>2, <2>1 DEF Publish, JointInv, IndInv, ThreadInv
  <2>3. cur_bb[t] # NULL /\ NewCaller(t) # NULL /\ node[building[t]].parent_bb = NewCaller(t)
    BY <2>1, <2>2 DEF JointInv, BuildInv
  <2>. QED  BY <1>2, <2>1, <2>2, <2>3
<1>3. \/ \E b \in Blocks : EnterKnown(t, b) /\ Program!Enter(t, b)
      \/ Publish(t) /\ Program!Enter(t, node[building[t]].key)
  BY DEF Enter
<1>. QED  BY <1>1, <1>2, <1>3

\* Every joint step keeps every thread on its path.
LEMMA SignalNext ==
  ASSUME JointInv, IndInv', [JointNext]_jointvars
  PROVE  SignalInv'
<1>1. [Next]_vars
  BY JointStep
<1>2. plain' \in [Threads -> BOOLEAN] /\ DOMAIN ctx' = Threads /\ DOMAIN saved' = Threads
  <2>1. CASE UNCHANGED jointvars
    BY <2>1 DEF jointvars, JointInv, SignalInv
  <2>2. CASE JointNext
    BY <2>2 DEF JointNext, Begin, Enter, Deliver, Return, Silent, Program!Start, Program!Enter,
       Program!Deliver, Program!Return, JointInv, SignalInv
  <2>. QED  BY <2>1, <2>2
<1>a. ASSUME NEW t \in Threads, NEW u \in Threads, t # u,
             Begin(u) \/ Enter(u) \/ Deliver(u) \/ Return(u) \/ Silent(u)
      PROVE  ctx'[t] = ctx[t] /\ saved'[t] = saved[t] /\ plain'[t] = plain[t]
  BY <1>a DEF Begin, Enter, Deliver, Return, Silent, Program!Start, Program!Enter,
     Program!Deliver, Program!Return, JointInv, SignalInv
<1>3. SUFFICES ASSUME NEW t \in Threads PROVE SignalOK(t)'
  BY <1>2 DEF SignalInv, SignalOK
<1>4. CASE UNCHANGED jointvars
  BY <1>1, <1>4, SignalKept DEF jointvars, vars, position, signals
<1>5. ASSUME NEW u \in Threads, t # u,
             Begin(u) \/ Enter(u) \/ Deliver(u) \/ Return(u) \/ Silent(u)
      PROVE  SignalOK(t)'
  <2>1. /\ root_bb'[t] = root_bb[t] /\ cur_bb'[t] = cur_bb[t] /\ pre_state'[t] = pre_state[t]
        /\ sig_bb'[t] = sig_bb[t] /\ sig_depth'[t] = sig_depth[t] /\ pc'[t] = pc[t]
    <3>1. CASE Begin(u)
      BY <1>5, <3>1 DEF Begin, PublishRoot, JointInv, IndInv, TypeOK
    <3>2. CASE Enter(u)
      BY SMTT(60), <1>5, <3>2 DEF Enter, EnterKnown, Publish, MoveTo, JointInv, IndInv, TypeOK
    <3>3. CASE Deliver(u)
      BY <1>5, <3>3 DEF Deliver, SignalDeliver, position, JointInv, IndInv, TypeOK
    <3>5. CASE Return(u)
      BY <1>5, <3>5 DEF Return, SignalReturn, JointInv, IndInv, TypeOK
    <3>4. CASE Silent(u)
      BY <1>5, <3>4 DEF Silent, ThreadStart, CreateRoot, FillSlot, EnterNew, EnterNull,
         ThreadEnd, CreateNode, position, signals, JointInv, IndInv, TypeOK
    <3>. QED  BY <1>5, <3>1, <3>2, <3>3, <3>4, <3>5
  <2>. QED  BY <1>1, <1>2, <1>a, <1>5, <2>1, SignalKept
<1>6. CASE Begin(t)
  BY <1>1, <1>6, SignalBegin
<1>7. CASE Enter(t)
  BY <1>1, <1>7, EnterMoves, SignalEnter
<1>8. CASE Deliver(t)
  BY <1>1, <1>8, SignalDelivered
<1>9. CASE Return(t)
  BY <1>1, <1>9, SignalReturned
<1>10. CASE Silent(t)
  <2>1. CASE EnterNull(t)
    <3>1. plain[t] => FALSE
      <4>1. SUFFICES ASSUME plain[t] PROVE FALSE
        OBVIOUS
      <4>2. pc[t] = "run" /\ NewCaller(t) = NULL /\ root_bb[t] # NULL
        BY <2>1 DEF EnterNull, JointInv, IndInv, ThreadInv
      <4>3. pre_state[t] \in {"ret", "other"} => cur_bb[t] # root_bb[t]
        BY <4>1, <4>2 DEF JointInv, SignalInv, OnPath
      <4>. QED  BY <4>2, <4>3, CallerFound DEF JointInv
    <3>2. plain'[t] = plain[t]
      BY <1>10 DEF Silent
    <3>. QED  BY <3>1, <3>2 DEF SignalOK
  <2>2. CASE ~ EnterNull(t)
    <3>1. /\ UNCHANGED <<position, signals, ctx, saved, plain>>
          /\ pc[t] # "crash" => pc'[t] # "crash"
      BY <1>10, <2>2 DEF Silent, ThreadStart, CreateRoot, FillSlot, EnterNew, ThreadEnd,
         CreateNode, JointInv, IndInv, TypeOK
    <3>. QED  BY <1>1, <3>1, SignalKept DEF position, signals
  <2>. QED  BY <2>1, <2>2
<1>. QED  BY <1>4, <1>5, <1>6, <1>7, <1>8, <1>9, <1>10 DEF JointNext

\* A thread whose signals are plain is always attributed to the calls it is in, in the
\* handler and after it, however many such signals it takes, whatever the program is
\* and whatever the other threads' signals are; and it never follows a null parent.
THEOREM PlainSignals == JointSpec => []PlainSignalsKeepPath
<1>1. JointInit => Init /\ BuildInv /\ SignalInv
  BY DEF JointInit, Init, Program!Init, BuildInv, SignalInv
<1>2. [JointNext]_jointvars => [Next]_vars
  BY JointStep
<1>3. IndInv /\ BuildInv /\ [Next]_vars => BuildInv'
  BY BuildNext
<1>4. JointInv /\ IndInv' /\ [JointNext]_jointvars => SignalInv'
  BY SignalNext
<1>5. JointSpec => Spec
  BY <1>1, <1>2, PTL DEF JointSpec, Spec
<1>6. JointSpec => []JointInv
  BY <1>1, <1>2, <1>3, <1>4, <1>5, RegistryInvariant, PTL DEF JointSpec, JointInv
<1>7. JointInv => PlainSignalsKeepPath
  BY DEF JointInv, IndInv, ThreadInv, SignalInv, OnPath, PlainSignalsKeepPath, InCalls
<1>. QED  BY <1>6, <1>7, PTL
=============================================================================
