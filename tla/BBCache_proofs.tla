--------------------------- MODULE BBCache_proofs ---------------------------
(***************************************************************************)
(* What the inline caches promise, for every program: each block reaches   *)
(* the client once, in order, with its own references, and at its call     *)
(* path.  The argument is about a drain: its loop goes through the cached  *)
(* entries, and what it has in hand after k of them is the k-th of the     *)
(* blocks that were begun and not reported.                                *)
(***************************************************************************)
EXTENDS BBCacheProgram, SequenceTheorems, WellFoundedInduction, TLAPS

----------------------------------------------------------------------------
(* Numbers and sequences. *)

\* A set of numbers has a least one.
LEMMA LeastNumber ==
  ASSUME NEW S \in SUBSET Nat, S # {}
  PROVE  \E m \in S : \A k \in S : m <= k
<1> DEFINE R == {ss \in Nat \X Nat : ss[1] < ss[2]}
<1>1. IsWellFoundedOn(R, Nat)
  BY NatLessThanWellFounded DEF OpToRel
<1>2. PICK m \in S : \A y \in S : ~ (<<y, m>> \in R)
  BY <1>1, WFMin
<1>3. ASSUME NEW k \in S PROVE m <= k
  <2>1. <<k, m>> \notin R /\ k \in Nat /\ m \in Nat
    BY <1>2
  <2>2. k < m => <<k, m>> \in R
    BY <2>1
  <2>. HIDE DEF R
  <2>. QED  BY <2>1, <2>2
<1>. QED  BY <1>3

\* Induction over the numbers, for a set instead of a predicate.
LEMMA NumberInduction ==
  ASSUME NEW S, 0 \in S, \A n \in Nat : n \in S => n + 1 \in S
  PROVE  Nat \subseteq S
<1>1. SUFFICES ASSUME Nat \ S # {} PROVE FALSE
  OBVIOUS
<1>2. PICK m \in Nat \ S : \A k \in Nat \ S : m <= k
  BY <1>1, LeastNumber
<1>3. m # 0 /\ m - 1 \in Nat /\ m - 1 \notin S
  BY <1>2
<1>. QED  BY <1>2, <1>3

\* What Append added, Front takes away.
LEMMA FrontOf ==
  ASSUME NEW S, NEW s \in Seq(S), NEW e \in S
  PROVE  Append(s, e) # <<>> /\ Front(Append(s, e)) = s
<1>1. /\ Append(s, e) \in Seq(S) /\ Len(Append(s, e)) = Len(s) + 1 /\ Len(s) \in Nat
      /\ \A i \in 1 .. Len(s) : Append(s, e)[i] = s[i]
  BY AppendProperties, LenProperties
<1>2. Front(Append(s, e)) = [i \in 1 .. Len(s) |-> s[i]]
  BY <1>1 DEF Front
<1>3. s = [i \in 1 .. Len(s) |-> s[i]]
  BY LenProperties
<1>. QED  BY <1>1, <1>2, <1>3

\* Front of a sequence is one.
LEMMA FrontType ==
  ASSUME NEW S, NEW s \in Seq(S), s # <<>>
  PROVE  Front(s) \in Seq(S) /\ Len(Front(s)) = Len(s) - 1
<1>1. Len(s) \in Nat /\ Len(s) # 0 /\ \A i \in 1 .. Len(s) : s[i] \in S
  BY EmptySeq, LenProperties, ElementOfSeq
<1>2. Front(s) = [i \in 1 .. Len(s) - 1 |-> s[i]]
  BY DEF Front
<1>3. Len(s) - 1 \in Nat /\ \A i \in 1 .. Len(s) - 1 : s[i] \in S
  BY <1>1
<1>. QED  BY <1>2, <1>3

----------------------------------------------------------------------------
(* The loop. *)

Index == 0 .. BBMax - 1

\* One equation of the recursion, for a function f of the numbers of entries.
LoopStep(cache, f, n) == IF n = 0 THEN Locals ELSE DrainEntry(f[n - 1], cache[n])

\* Up to any number of entries a function satisfies the equations.
LEMMA LoopExists ==
  ASSUME NEW cache, NEW m \in Nat
  PROVE  \E f : f = [n \in 0 .. m |-> LoopStep(cache, f, n)]
<1>. DEFINE Defined(f, k) == f = [n \in 0 .. k |-> LoopStep(cache, f, n)]
            S == {k \in Nat : \E f : Defined(f, k)}
<1>1. 0 \in S
  <2>. DEFINE g == [n \in 0 .. 0 |-> Locals]
  <2>1. \A n \in 0 .. 0 : LoopStep(cache, g, n) = Locals
    BY DEF LoopStep
  <2>2. Defined(g, 0)
    BY <2>1
  <2>. HIDE DEF Defined, g
  <2>. QED  BY <2>2
<1>2. ASSUME NEW k \in Nat, k \in S PROVE k + 1 \in S
  <2>1. PICK f : Defined(f, k)
    BY <1>2
  <2>. DEFINE g == [n \in 0 .. k + 1 |-> LoopStep(cache, f, n)]
  <2>2. \A n \in 0 .. k : g[n] = f[n]
    BY <2>1
  <2>3. ASSUME NEW n \in 0 .. k + 1 PROVE LoopStep(cache, g, n) = LoopStep(cache, f, n)
    <3>1. n # 0 => g[n - 1] = f[n - 1]
      BY SMTT(60), <2>2
    <3>. HIDE DEF g
    <3>. QED  BY <3>1 DEF LoopStep
  <2>4. Defined(g, k + 1)
    BY <2>3
  <2>. HIDE DEF Defined, g
  <2>. QED  BY <2>4
<1>. HIDE DEF S
<1>3. Nat \subseteq S
  BY <1>1, <1>2, NumberInduction
<1>. QED  BY <1>3 DEF S

\* The loop's locals: before the first entry, and after each of them.
LEMMA LoopUnfold ==
  ASSUME NEW cache
  PROVE  /\ Loop(cache)[0] = Locals
         /\ \A n \in 1 .. BBMax - 1 : Loop(cache)[n] = DrainEntry(Loop(cache)[n - 1], cache[n])
<1>1. BBMax - 1 \in Nat
  BY CacheSizesAssumption
<1>2. \E f : f = [n \in 0 .. BBMax - 1 |-> LoopStep(cache, f, n)]
  BY <1>1, LoopExists
<1>3. Loop(cache) = CHOOSE f : f = [n \in 0 .. BBMax - 1 |-> LoopStep(cache, f, n)]
  BY DEF Loop, LoopStep
<1>4. Loop(cache) = [n \in 0 .. BBMax - 1 |-> LoopStep(cache, Loop(cache), n)]
  BY <1>2, <1>3
<1>. HIDE DEF Loop
<1>. QED  BY <1>1, <1>4 DEF LoopStep

\* The entries before the first empty one are those in use.
LEMMA UsedIs ==
  ASSUME NEW cache, NEW m \in Index, \A i \in 1 .. m : cache[i] # NULL,
         m < BBMax - 1 => cache[m + 1] = NULL
  PROVE  Used(cache) = m
<1>1. /\ m = BBMax - 1 \/ cache[m + 1] = NULL
      /\ BBMax \in Nat
  BY CacheSizesAssumption DEF Index
<1>2. ASSUME NEW n \in 0 .. BBMax - 1, n = BBMax - 1 \/ cache[n + 1] = NULL,
             \A i \in 1 .. n : cache[i] # NULL
      PROVE  n = m
  <2>1. CASE n < m
    <3>1. n + 1 \in 1 .. m /\ n # BBMax - 1
      BY <1>1, <2>1 DEF Index
    <3>. QED  BY <1>2, <3>1
  <2>2. CASE m < n
    <3>1. m + 1 \in 1 .. n /\ m < BBMax - 1
      BY <1>1, <2>2 DEF Index
    <3>. QED  BY <1>2, <3>1
  <2>. QED  BY <1>1, <2>1, <2>2 DEF Index
<1>. QED  BY <1>1, <1>2 DEF Used, Index

----------------------------------------------------------------------------
(* One entry. *)

Nodes    == Seq(Blocks)
Keys     == Blocks \cup {Root}
Callback == [node : Nodes, key : Keys, refs : Seq(Refs \cup {NULL})]
Locs     == [node : Nodes \cup {NULL}, pre : Keys, start : Nat, cbs : Seq(Callback)]

\* What the loop needs to know of the state.
LoopTypes ==
  /\ cur_bb \in Nodes
  /\ pre_bb \in Keys
  /\ mem_cache \in [0 .. MemMax - 1 -> Refs \cup {NULL}]

\* Blocks are not Root, and nothing is the null pointer.
LEMMA KeyFacts ==
  /\ Root \notin Blocks /\ NULL \notin Blocks /\ NULL \notin Refs /\ NULL \notin Nodes
  /\ NULL # <<>> /\ <<>> \in Nodes
  /\ \A b \in Blocks : EndState[b] \in {"call", "ret", "other"} /\ RefNum[b] \in Nat
<1>1. <<>> \in Nodes
  BY EmptySeq DEF Nodes
<1>. QED  BY <1>1, CacheBlocksAssumption, CacheNullAssumption DEF Nodes

\* A parent is a node or none.
LEMMA ParentType ==
  ASSUME NEW n \in Nodes \cup {NULL}
  PROVE  /\ ParentOf(n) \in Nodes \cup {NULL}
         /\ n \in Nodes /\ n # <<>> => ParentOf(n) = Front(n) /\ Front(n) \in Nodes
<1>1. n \in Nodes /\ n # <<>> => Front(n) \in Nodes
  BY FrontType DEF Nodes
<1>. QED  BY <1>1, KeyFacts DEF ParentOf

\* Where a block hangs, by the last instruction of the block before.
LEMMA CallerIs ==
  ASSUME NEW n, NEW pre \in Keys
  PROVE  /\ pre = Root => Caller(n, pre) = <<>>
         /\ pre # Root /\ EndState[pre] = "call" => Caller(n, pre) = n
         /\ pre # Root /\ EndState[pre] = "ret" =>
              Caller(n, pre) = IF ParentOf(n) = <<>> THEN <<>> ELSE ParentOf(ParentOf(n))
         /\ pre # Root /\ EndState[pre] = "other" => Caller(n, pre) = ParentOf(n)
         /\ pre = Root \/ EndState[pre] = "call" \/ EndState[pre] = "ret" \/ EndState[pre] = "other"
<1>1. pre = Root \/ EndState[pre] = "call" \/ EndState[pre] = "ret" \/ EndState[pre] = "other"
  BY KeyFacts DEF Keys
<1>2. CASE pre = Root
  BY <1>2 DEF Caller
<1>3. CASE pre # Root /\ EndState[pre] = "call"
  BY <1>3 DEF Caller
<1>4. CASE pre # Root /\ EndState[pre] = "ret"
  BY <1>4 DEF Caller
<1>5. CASE pre # Root /\ EndState[pre] = "other"
  BY <1>5 DEF Caller
<1>. QED  BY <1>1, <1>2, <1>3, <1>4, <1>5

\* It is a node, or none.
LEMMA CallerType ==
  ASSUME NEW n \in Nodes \cup {NULL}, NEW pre \in Keys
  PROVE  Caller(n, pre) \in Nodes \cup {NULL}
<1>1. ParentOf(n) \in Nodes \cup {NULL} /\ ParentOf(ParentOf(n)) \in Nodes \cup {NULL}
  BY ParentType
<1>. QED  BY <1>1, CallerIs, KeyFacts

\* The number of references of a block.
LEMMA RefsOfType ==
  ASSUME NEW b \in Keys
  PROVE  RefsOf(b) \in Nat
BY KeyFacts DEF RefsOf, Keys

\* What the client is told of the block in hand.
CallbackOf(s) ==
  [node |-> s.node, key |-> s.pre,
   refs |-> [i \in 1 .. RefsOf(s.pre) |-> MemAt(s.start + i - 1)]]

\* An entry of the reference cache is a reference or null, and so is what is read
\* behind its end.
LEMMA MemAtType ==
  ASSUME LoopTypes, NEW i \in Int
  PROVE  MemAt(i) \in Refs \cup {NULL}
BY DEF MemAt, LoopTypes

\* An entry behind a node.
LEMMA EntryIs ==
  ASSUME LoopTypes, NEW s \in Locs, NEW b \in Blocks, s.node # NULL
  PROVE  LET d == DrainEntry(s, b) IN
         /\ d \in Locs
         /\ d.node = IF Caller(s.node, s.pre) = NULL THEN NULL ELSE Append(Caller(s.node, s.pre), b)
         /\ d.pre = b
         /\ d.start = s.start + RefsOf(s.pre)
         /\ d.cbs = Append(s.cbs, CallbackOf(s))
         /\ CallbackOf(s) \in Callback
<1>1. /\ s.node \in Nodes /\ s.pre \in Keys /\ s.start \in Nat /\ s.cbs \in Seq(Callback)
  BY DEF Locs
<1>2. RefsOf(s.pre) \in Nat
  BY <1>1, RefsOfType
<1>3. [i \in 1 .. RefsOf(s.pre) |-> MemAt(s.start + i - 1)] \in Seq(Refs \cup {NULL})
  <2>1. \A i \in 1 .. RefsOf(s.pre) : s.start + i - 1 \in Int
    BY <1>1, <1>2
  <2>2. \A i \in 1 .. RefsOf(s.pre) : MemAt(s.start + i - 1) \in Refs \cup {NULL}
    BY <2>1, MemAtType
  <2>. QED  BY <1>2, <2>2, IsASeq
<1>4. CallbackOf(s) \in Callback
  BY <1>1, <1>3 DEF CallbackOf, Callback
<1>5. Append(s.cbs, CallbackOf(s)) \in Seq(Callback)
  BY <1>1, <1>4, AppendProperties
<1>. DEFINE up == IF Caller(s.node, s.pre) = NULL THEN NULL ELSE Append(Caller(s.node, s.pre), b)
<1>6. up \in Nodes \cup {NULL}
  <2>1. Caller(s.node, s.pre) \in Nodes \cup {NULL}
    BY <1>1, CallerType
  <2>2. \A n \in Nodes : Append(n, b) \in Nodes
    BY AppendProperties DEF Nodes
  <2>. QED  BY <2>1, <2>2
<1>7. DrainEntry(s, b) = [node |-> up, pre |-> b, start |-> s.start + RefsOf(s.pre),
                         cbs |-> Append(s.cbs, CallbackOf(s))]
  BY DEF DrainEntry, CallbackOf
<1>8. s.start + RefsOf(s.pre) \in Nat /\ b \in Keys
  BY <1>1, <1>2 DEF Keys
<1>. HIDE DEF up
<1>9. DrainEntry(s, b) \in Locs
  BY <1>5, <1>6, <1>7, <1>8 DEF Locs
<1>10. /\ DrainEntry(s, b).node = up /\ DrainEntry(s, b).pre = b
       /\ DrainEntry(s, b).start = s.start + RefsOf(s.pre)
       /\ DrainEntry(s, b).cbs = Append(s.cbs, CallbackOf(s))
  BY <1>7
<1>. QED  BY <1>4, <1>9, <1>10 DEF up

----------------------------------------------------------------------------
(* The loop after k entries. *)

\* The block the loop has in hand before it takes entry i.
KeyAt(cache, i) == IF i = 1 THEN pre_bb ELSE cache[i - 1]

\* One callback per entry, each for the block before it, as long as the node is known.
LoopOK(cache, k) ==
  LET s == Loop(cache)[k] IN
  /\ s \in Locs
  /\ Len(s.cbs) <= k
  /\ \A i \in 1 .. Len(s.cbs) : s.cbs[i].key = KeyAt(cache, i)
  /\ s.node # NULL => Len(s.cbs) = k /\ s.pre = KeyAt(cache, k + 1)

\* Before the first entry.
LEMMA LoopFirst ==
  ASSUME LoopTypes, NEW cache
  PROVE  /\ Loop(cache)[0] \in Locs
         /\ Loop(cache)[0].node = cur_bb /\ Loop(cache)[0].pre = pre_bb
         /\ Loop(cache)[0].start = 0 /\ Loop(cache)[0].cbs = <<>>
<1>1. Loop(cache)[0] = [node |-> cur_bb, pre |-> pre_bb, start |-> 0, cbs |-> <<>>]
  BY LoopUnfold DEF Locals
<1>2. <<>> \in Seq(Callback)
  BY EmptySeq
<1>. QED  BY <1>1, <1>2 DEF LoopTypes, Locs

\* A null node stays.
LEMMA EntryStops ==
  ASSUME NEW s, NEW b, s.node = NULL
  PROVE  DrainEntry(s, b) = s
BY DEF DrainEntry

\* The types and the keys, after any number of entries.
LEMMA LoopType ==
  ASSUME LoopTypes, NEW cache, NEW m \in Index, \A i \in 1 .. m : cache[i] \in Blocks,
         NEW k \in 0 .. m
  PROVE  LoopOK(cache, k)
<1>. DEFINE S == {j \in Nat : j <= m => LoopOK(cache, j)}
<1>1. 0 \in S
  <2>1. Len(<<>>) = 0 /\ KeyAt(cache, 1) = pre_bb
    BY DEF KeyAt
  <2>2. LoopOK(cache, 0)
    BY <2>1, LoopFirst DEF LoopOK
  <2>. QED  BY <2>2
<1>2. ASSUME NEW j \in Nat, j \in S PROVE j + 1 \in S
  <2>1. SUFFICES ASSUME j + 1 <= m PROVE LoopOK(cache, j + 1)
    OBVIOUS
  <2>. DEFINE s == Loop(cache)[j]
              d == Loop(cache)[j + 1]
              b == cache[j + 1]
  <2>2. j \in 0 .. m /\ j + 1 \in 1 .. m /\ j + 1 \in 1 .. BBMax - 1
    BY <2>1, CacheSizesAssumption DEF Index
  <2>3. /\ s \in Locs /\ Len(s.cbs) <= j /\ Len(s.cbs) \in Nat
        /\ \A i \in 1 .. Len(s.cbs) : s.cbs[i].key = KeyAt(cache, i)
        /\ s.node # NULL => Len(s.cbs) = j /\ s.pre = KeyAt(cache, j + 1)
    BY <1>2, <2>2, LenProperties DEF LoopOK, Locs
  <2>4. d = DrainEntry(s, b) /\ b \in Blocks
    <3>1. (j + 1) - 1 = j
      OBVIOUS
    <3>. QED  BY <2>2, <3>1, LoopUnfold
  <2>. HIDE DEF s, d, b
  <2>5. CASE s.node = NULL
    <3>1. d = s
      BY <2>4, <2>5, EntryStops
    <3>2. Len(s.cbs) <= j + 1
      BY <2>3
    <3>. QED  BY <2>3, <2>5, <3>1, <3>2 DEF LoopOK, d
  <2>6. CASE s.node # NULL
    <3>1. /\ d \in Locs /\ d.pre = b /\ d.cbs = Append(s.cbs, CallbackOf(s))
          /\ CallbackOf(s) \in Callback /\ CallbackOf(s).key = s.pre
      BY <2>3, <2>4, <2>6, EntryIs DEF CallbackOf
    <3>2. s.cbs \in Seq(Callback)
      BY <2>3 DEF Locs
    <3>3. /\ Len(d.cbs) = j + 1 /\ d.cbs[j + 1] = CallbackOf(s)
          /\ \A i \in 1 .. j : d.cbs[i] = s.cbs[i]
      BY <2>3, <2>6, <3>1, <3>2, AppendProperties
    <3>4. ASSUME NEW i \in 1 .. j + 1 PROVE d.cbs[i].key = KeyAt(cache, i)
      <4>1. CASE i = j + 1
        BY <2>3, <2>6, <3>1, <3>3, <4>1
      <4>2. CASE i # j + 1
        <5>1. i \in 1 .. j
          BY <4>2
        <5>. QED  BY <2>3, <2>6, <3>3, <5>1
      <4>. QED  BY <4>1, <4>2
    <3>5. d.pre = KeyAt(cache, j + 1 + 1)
      BY <3>1 DEF KeyAt, b
    <3>. QED  BY <3>1, <3>3, <3>4, <3>5 DEF LoopOK, d
  <2>. QED  BY <2>5, <2>6
<1>. HIDE DEF S
<1>3. k \in S
  BY <1>1, <1>2, NumberInduction DEF Index
<1>. QED  BY <1>3 DEF S, Index

----------------------------------------------------------------------------
(* The blocks begun and not reported, and what a drain makes of them. *)

\* A block due.
Due == [node : Nodes, key : Keys, refs : Seq(Refs)]

\* Entries 1 .. m are in use, the others are empty.
Filled(cache, m) == \A i \in Index : cache[i] # NULL <=> 1 <= i /\ i <= m

\* The blocks all are the one in hand and those of the m entries.
Holds(cache, all, m) ==
  /\ cache \in [Index -> Blocks \cup {NULL}]
  /\ m \in Index
  /\ Filled(cache, m)
  /\ all \in Seq(Due)
  /\ Len(all) = m + 1
  /\ \A i \in 1 .. m + 1 : all[i].key = KeyAt(cache, i)

\* The node of the k-th block, the first being at node n.
At(n, all, k) == IF k = 1 THEN n ELSE all[k].node

\* Each block hangs where the one before it says.
Chain(n, all) ==
  \A k \in 1 .. Len(all) - 1 :
    LET caller == Caller(At(n, all, k), all[k].key) IN
    caller \in Nodes /\ all[k + 1].node = Append(caller, all[k + 1].key)

\* The references of the blocks lie in the cache one behind the other, those of
\* block k from off[k]; the last block has still to make rest.
Stored(mem, ptr, all, off, rest) ==
  /\ off \in [1 .. Len(all) -> Nat] /\ off[1] = 0
  /\ \A k \in 1 .. Len(all) - 1 :
       /\ off[k + 1] = off[k] + RefsOf(all[k].key)
       /\ Len(all[k].refs) = RefsOf(all[k].key)
  /\ \A k \in 1 .. Len(all) : off[k] + Len(all[k].refs) <= ptr
  /\ ptr = off[Len(all)] + Len(all[Len(all)].refs)
  /\ Len(all[Len(all)].refs) + rest = RefsOf(all[Len(all)].key)
  /\ \A k \in 1 .. Len(all) : \A i \in 1 .. Len(all[k].refs) :
       /\ mem[off[k] + i - 1] \in {all[k].refs[i], NULL}
       /\ k # 1 => mem[off[k] + i - 1] = all[k].refs[i]
  /\ MemAddr => ptr < MemMax /\ \A i \in ptr .. MemMax - 1 : mem[i] = NULL
  /\ ~ MemAddr => ptr = 0

\* The entries, as the loop meets them.
LEMMA HoldsFacts ==
  ASSUME NEW cache, NEW all, NEW m, Holds(cache, all, m)
  PROVE  /\ m \in Nat /\ m <= BBMax - 1 /\ BBMax \in Nat
         /\ \A i \in 1 .. m : cache[i] \in Blocks /\ all[i + 1].key = cache[i]
         /\ all[1].key = pre_bb
         /\ \A i \in 1 .. m + 1 : all[i] \in Due
         /\ Used(cache) = m
         /\ Drained(cache) = Loop(cache)[m]
         /\ (cache[1] = NULL) <=> m = 0
<1>1. m \in Nat /\ m <= BBMax - 1 /\ BBMax \in Nat /\ 1 \in Index /\ 1 .. m \subseteq Index
  BY CacheSizesAssumption DEF Holds, Index
<1>2. \A i \in 1 .. m : cache[i] \in Blocks /\ cache[i] # NULL
  BY <1>1 DEF Holds, Filled
<1>3. m < BBMax - 1 => m + 1 \in Index /\ cache[m + 1] = NULL
  BY <1>1 DEF Holds, Filled, Index
<1>4. Used(cache) = m
  BY <1>1, <1>2, <1>3, UsedIs DEF Holds
<1>5. ASSUME NEW i \in 1 .. m PROVE all[i + 1].key = cache[i]
  <2>1. i + 1 \in 1 .. m + 1 /\ i + 1 # 1 /\ (i + 1) - 1 = i
    BY <1>1
  <2>. QED  BY <2>1 DEF Holds, KeyAt
<1>6. all[1].key = pre_bb
  BY <1>1 DEF Holds, KeyAt
<1>7. \A i \in 1 .. m + 1 : all[i] \in Due
  BY <1>1, ElementOfSeq DEF Holds
<1>8. (cache[1] = NULL) <=> m = 0
  BY <1>1 DEF Holds, Filled
<1>. QED  BY <1>1, <1>2, <1>4, <1>5, <1>6, <1>7, <1>8 DEF Drained

\* A node of the chain is a node.
LEMMA AtType ==
  ASSUME NEW n \in Nodes, NEW all \in Seq(Due), NEW k \in 1 .. Len(all)
  PROVE  At(n, all, k) \in Nodes /\ all[k].key \in Keys
<1>1. all[k] \in Due
  BY ElementOfSeq
<1>. QED  BY <1>1 DEF At, Due

\* Along a chain the loop reaches the node of each block, and calls back with it.
LEMMA LoopNodes ==
  ASSUME LoopTypes, NEW cache, NEW all, NEW m, Holds(cache, all, m), Chain(cur_bb, all),
         NEW k \in 0 .. m
  PROVE  /\ Loop(cache)[k].node = At(cur_bb, all, k + 1)
         /\ Len(Loop(cache)[k].cbs) = k
         /\ \A i \in 1 .. k : Loop(cache)[k].cbs[i].node = At(cur_bb, all, i)
<1>. DEFINE OK(j) == /\ Loop(cache)[j].node = At(cur_bb, all, j + 1)
                     /\ Len(Loop(cache)[j].cbs) = j
                     /\ \A i \in 1 .. j : Loop(cache)[j].cbs[i].node = At(cur_bb, all, i)
            S == {j \in Nat : j <= m => OK(j)}
<1>0. /\ m \in Nat /\ m <= BBMax - 1 /\ BBMax \in Nat /\ m \in Index
      /\ all \in Seq(Due) /\ Len(all) = m + 1 /\ cur_bb \in Nodes
      /\ \A i \in 1 .. m : cache[i] \in Blocks /\ all[i + 1].key = cache[i]
  <2>1. /\ m \in Nat /\ m <= BBMax - 1 /\ BBMax \in Nat
        /\ \A i \in 1 .. m : cache[i] \in Blocks /\ all[i + 1].key = cache[i]
    BY SMTT(60), HoldsFacts
  <2>2. m \in Index /\ all \in Seq(Due) /\ Len(all) = m + 1
    BY Zenon DEF Holds
  <2>3. cur_bb \in Nodes
    BY Zenon DEF LoopTypes
  <2>. QED  BY <2>1, <2>2, <2>3
<1>1. 0 \in S
  <2>1. At(cur_bb, all, 0 + 1) = cur_bb /\ Len(<<>>) = 0
    BY DEF At
  <2>2. OK(0)
    BY <2>1, LoopFirst
  <2>. QED  BY <2>2
<1>2. ASSUME NEW j \in Nat, j \in S PROVE j + 1 \in S
  <2>1. SUFFICES ASSUME j + 1 <= m PROVE OK(j + 1)
    OBVIOUS
  <2>. DEFINE s == Loop(cache)[j]
              d == Loop(cache)[j + 1]
              b == cache[j + 1]
              n == At(cur_bb, all, j + 1)
              caller == Caller(n, all[j + 1].key)
  <2>2. /\ j \in 0 .. m /\ j + 1 \in 1 .. m /\ j + 1 \in 1 .. BBMax - 1 /\ m \in Index
        /\ \A i \in 1 .. m : cache[i] \in Blocks
        /\ all[j + 1 + 1].key = b /\ b \in Blocks /\ j + 1 \in 1 .. Len(all) - 1
    BY <1>0, <2>1
  <2>3. s \in Locs /\ s.node # NULL => s.pre = KeyAt(cache, j + 1)
    BY <2>2, LoopType DEF LoopOK
  <2>4. s.node = n /\ Len(s.cbs) = j /\ \A i \in 1 .. j : s.cbs[i].node = At(cur_bb, all, i)
    BY <1>0, <1>2, <2>1
  <2>5. d = DrainEntry(s, b)
    <3>1. (j + 1) - 1 = j
      OBVIOUS
    <3>. QED  BY <2>2, <3>1, LoopUnfold
  <2>6. n \in Nodes /\ n # NULL
    <3>1. all \in Seq(Due) /\ j + 1 \in 1 .. Len(all) /\ cur_bb \in Nodes
      BY <1>0, <2>2
    <3>. QED  BY <3>1, AtType, KeyFacts
  <2>7. all[j + 1].key = KeyAt(cache, j + 1)
    BY <2>2 DEF Holds
  <2>8. s \in Locs
    BY <2>2, LoopType DEF LoopOK
  <2>9. caller \in Nodes /\ all[j + 1 + 1].node = Append(caller, all[j + 1 + 1].key)
    BY <2>2 DEF Chain
  <2>10. s.pre = all[j + 1].key
    BY <2>3, <2>4, <2>6, <2>7, <2>8
  <2>. HIDE DEF s, d, b, n, caller
  <2>11. /\ d.node = IF caller = NULL THEN NULL ELSE Append(caller, b)
         /\ d.cbs = Append(s.cbs, CallbackOf(s)) /\ CallbackOf(s) \in Callback
         /\ CallbackOf(s).node = n
    <3>1. s.node # NULL
      BY <2>4, <2>6
    <3>2. /\ DrainEntry(s, b).node = IF Caller(s.node, s.pre) = NULL THEN NULL
                                     ELSE Append(Caller(s.node, s.pre), b)
          /\ DrainEntry(s, b).cbs = Append(s.cbs, CallbackOf(s)) /\ CallbackOf(s) \in Callback
      BY <2>2, <2>8, <3>1, EntryIs
    <3>3. Caller(s.node, s.pre) = caller
      BY <2>4, <2>10 DEF caller
    <3>4. CallbackOf(s).node = s.node
      BY DEF CallbackOf
    <3>. QED  BY <2>4, <2>5, <3>2, <3>3, <3>4
  <2>12. d.node = At(cur_bb, all, j + 1 + 1)
    BY <2>2, <2>9, <2>11, KeyFacts DEF At
  <2>13. s.cbs \in Seq(Callback)
    BY <2>8 DEF Locs
  <2>14. /\ Len(d.cbs) = j + 1 /\ d.cbs[j + 1] = CallbackOf(s)
         /\ \A i \in 1 .. j : d.cbs[i] = s.cbs[i]
    BY <2>4, <2>11, <2>13, AppendProperties
  <2>15. ASSUME NEW i \in 1 .. j + 1 PROVE d.cbs[i].node = At(cur_bb, all, i)
    <3>1. CASE i = j + 1
      BY <2>11, <2>14, <3>1 DEF n
    <3>2. CASE i # j + 1
      <4>1. i \in 1 .. j
        BY <3>2
      <4>. QED  BY <2>4, <2>14, <4>1
    <3>. QED  BY <3>1, <3>2
  <2>. QED  BY <2>12, <2>14, <2>15 DEF d
<1>. HIDE DEF S
<1>3. k \in S
  <2>. QED  BY <1>0, <1>1, <1>2, NumberInduction
<1>. QED  BY <1>0, <1>3 DEF S

\* The references of the block in hand, read from where the loop says.
LEMMA CallbackRefs ==
  ASSUME LoopTypes, NEW all \in Seq(Due), NEW off, NEW ptr, NEW rest \in Nat,
         Stored(mem_cache, ptr, all, off, rest),
         NEW k \in 1 .. Len(all) - 1, NEW s, s.pre = all[k].key, s.start = off[k]
  PROVE  RefsMatch(CallbackOf(s).refs, all[k].refs)
<1>. DEFINE n == RefsOf(s.pre)
            got == CallbackOf(s).refs
<1>1. Len(all) \in Nat /\ k \in 1 .. Len(all)
  BY LenProperties
<1>2. all[k].key \in Keys /\ all[k].refs \in Seq(Refs)
  <2>1. all[k] \in Due
    BY <1>1, ElementOfSeq
  <2>. QED  BY <2>1 DEF Due
<1>3. n \in Nat /\ Len(all[k].refs) = n /\ off[k] \in Nat
  BY <1>1, <1>2, RefsOfType DEF Stored
<1>4. got = [i \in 1 .. n |-> MemAt(s.start + i - 1)]
  BY DEF CallbackOf
<1>5. Len(got) = n
  BY <1>3, <1>4
<1>6. ASSUME NEW i \in 1 .. n PROVE got[i] \in {all[k].refs[i], NULL}
  <2>1. got[i] = MemAt(off[k] + i - 1)
    BY <1>3, <1>4
  <2>2. MemAddr
    BY <1>3 DEF RefsOf
  <2>3. /\ off[k] + n <= ptr /\ ptr < MemMax
        /\ ptr = off[Len(all)] + Len(all[Len(all)].refs)
    BY <1>1, <1>3, <2>2 DEF Stored
  <2>4. off[Len(all)] \in Nat /\ Len(all[Len(all)].refs) \in Nat /\ MemMax \in Nat
    <3>1. Len(all) \in 1 .. Len(all)
      BY <1>1
    <3>2. all[Len(all)].refs \in Seq(Refs)
      <4>1. all[Len(all)] \in Due
        BY <3>1, ElementOfSeq
      <4>. QED  BY <4>1 DEF Due
    <3>. QED  BY <3>1, <3>2, LenProperties, CacheSizesAssumption DEF Stored
  <2>5. off[k] + i - 1 \in 0 .. MemMax - 1
    BY SMTT(60), <1>3, <2>3, <2>4
  <2>6. MemAt(off[k] + i - 1) = mem_cache[off[k] + i - 1]
    BY <2>5 DEF MemAt, LoopTypes
  <2>7. mem_cache[off[k] + i - 1] \in {all[k].refs[i], NULL}
    BY <1>1, <1>3 DEF Stored
  <2>. QED  BY <2>1, <2>6, <2>7
<1>. QED  BY <1>3, <1>5, <1>6 DEF RefsMatch

\* The loop's start index is where the references of the block in hand begin, and
\* every callback has the references of its block.
LEMMA LoopRefs ==
  ASSUME LoopTypes, NEW cache, NEW all, NEW m, Holds(cache, all, m),
         NEW off, NEW ptr, NEW rest \in Nat, Stored(mem_cache, ptr, all, off, rest),
         NEW k \in 0 .. m
  PROVE  /\ Loop(cache)[k].node # NULL => Loop(cache)[k].start = off[k + 1]
         /\ \A i \in 1 .. Len(Loop(cache)[k].cbs) :
              RefsMatch(Loop(cache)[k].cbs[i].refs, all[i].refs)
<1>. DEFINE OK(j) == /\ Loop(cache)[j].node # NULL => Loop(cache)[j].start = off[j + 1]
                     /\ \A i \in 1 .. Len(Loop(cache)[j].cbs) :
                          RefsMatch(Loop(cache)[j].cbs[i].refs, all[i].refs)
            S == {j \in Nat : j <= m => OK(j)}
<1>0. /\ m \in Nat /\ m <= BBMax - 1 /\ BBMax \in Nat /\ m \in Index
      /\ all \in Seq(Due) /\ Len(all) = m + 1
      /\ \A i \in 1 .. m : cache[i] \in Blocks /\ all[i + 1].key = cache[i]
  BY HoldsFacts DEF Holds
<1>1. 0 \in S
  <2>1. off[0 + 1] = 0 /\ Len(<<>>) = 0
    BY DEF Stored
  <2>2. OK(0)
    BY <2>1, LoopFirst
  <2>. QED  BY <2>2
<1>2. ASSUME NEW j \in Nat, j \in S PROVE j + 1 \in S
  <2>1. SUFFICES ASSUME j + 1 <= m PROVE OK(j + 1)
    OBVIOUS
  <2>. DEFINE s == Loop(cache)[j]
              d == Loop(cache)[j + 1]
              b == cache[j + 1]
  <2>2. /\ j \in 0 .. m /\ j + 1 \in 1 .. m /\ j + 1 \in 1 .. BBMax - 1
        /\ b \in Blocks /\ j + 1 \in 1 .. Len(all) - 1
    BY <1>0, <2>1
  <2>3. /\ s.node # NULL => s.start = off[j + 1]
        /\ \A i \in 1 .. Len(s.cbs) : RefsMatch(s.cbs[i].refs, all[i].refs)
    BY <1>0, <1>2, <2>1
  <2>4. d = DrainEntry(s, b)
    <3>1. (j + 1) - 1 = j
      OBVIOUS
    <3>. QED  BY <2>2, <3>1, LoopUnfold
  <2>5. /\ s \in Locs
        /\ s.node # NULL => Len(s.cbs) = j /\ s.pre = KeyAt(cache, j + 1)
    BY <1>0, <2>2, LoopType DEF LoopOK
  <2>6. all[j + 1].key = KeyAt(cache, j + 1) /\ off[j + 1 + 1] = off[j + 1] + RefsOf(all[j + 1].key)
    <3>1. j + 1 \in 1 .. m + 1
      BY <1>0, <2>2
    <3>. QED  BY <2>2, <3>1 DEF Holds, Stored
  <2>. HIDE DEF s, d, b
  <2>7. CASE s.node = NULL
    <3>1. d = s
      BY <2>4, <2>7, EntryStops
    <3>. QED  BY <2>3, <2>7, <3>1 DEF d
  <2>8. CASE s.node # NULL
    <3>1. /\ d.start = s.start + RefsOf(s.pre)
          /\ d.cbs = Append(s.cbs, CallbackOf(s)) /\ CallbackOf(s) \in Callback
      BY <2>2, <2>4, <2>5, <2>8, EntryIs
    <3>2. s.cbs \in Seq(Callback)
      BY <2>5 DEF Locs
    <3>3. /\ Len(d.cbs) = j + 1 /\ d.cbs[j + 1] = CallbackOf(s)
          /\ \A i \in 1 .. j : d.cbs[i] = s.cbs[i]
      BY <2>5, <2>8, <3>1, <3>2, AppendProperties
    <3>4. RefsMatch(CallbackOf(s).refs, all[j + 1].refs)
      BY <1>0, <2>2, <2>3, <2>5, <2>6, <2>8, CallbackRefs
    <3>5. ASSUME NEW i \in 1 .. Len(d.cbs) PROVE RefsMatch(d.cbs[i].refs, all[i].refs)
      <4>1. CASE i = j + 1
        BY <3>3, <3>4, <4>1
      <4>2. CASE i # j + 1
        <5>1. i \in 1 .. j /\ i \in 1 .. Len(s.cbs)
          BY <2>5, <2>8, <3>3, <4>2
        <5>. QED  BY <2>3, <3>3, <5>1
      <4>. QED  BY <4>1, <4>2
    <3>6. d.start = off[j + 1 + 1]
      BY <2>3, <2>5, <2>6, <2>8, <3>1
    <3>. QED  BY <3>5, <3>6 DEF d
  <2>. QED  BY <2>7, <2>8
<1>. HIDE DEF S
<1>3. k \in S
  BY <1>0, <1>1, <1>2, NumberInduction
<1>. QED  BY <1>0, <1>3 DEF S

----------------------------------------------------------------------------
(* The references left over. *)

\* The index after the references stored from start is at most num later.
LEMMA LastIndexType ==
  ASSUME LoopTypes, NEW start \in Nat, NEW num \in Nat
  PROVE  LastIndex(start, num) \in Nat /\ LastIndex(start, num) >= start
         /\ LastIndex(start, num) <= start + num
         /\ (LastIndex(start, num) = start \/ LastIndex(start, num) <= MemMax)
<1>. DEFINE end == IF MemMax >= start + num THEN start + num ELSE MemMax
            to  == IF end > start THEN end ELSE start
            Good(k) == /\ k >= end \/ mem_cache[k] = NULL
                       /\ \A i \in start .. k - 1 : mem_cache[i] # NULL
            S == {k \in Nat : k >= start /\ (k >= end \/ mem_cache[k] = NULL)}
<1>1. MemMax \in Nat /\ end \in Nat /\ to \in Nat /\ to >= end /\ to >= start /\ to <= start + num
      /\ (to = start \/ to <= MemMax)
  BY CacheSizesAssumption
<1>2. to \in S
  BY <1>1
<1>. HIDE DEF end, to
<1>3. PICK k \in S : \A j \in S : k <= j
  BY <1>2, LeastNumber
<1>4. k \in start .. to /\ (k >= end \/ mem_cache[k] = NULL)
  BY <1>1, <1>2, <1>3
<1>5. ASSUME NEW i \in start .. k - 1 PROVE mem_cache[i] # NULL
  <2>1. i \in Nat /\ i < k /\ i >= start
    BY <1>1, <1>4
  <2>2. i \notin S
    BY <1>3, <1>4, <2>1
  <2>. QED  BY <2>1, <2>2
<1>6. Good(k)
  BY <1>4, <1>5
<1>. HIDE DEF Good
<1>7. LastIndex(start, num) = CHOOSE j \in start .. to : Good(j)
  BY DEF LastIndex, Good, to, end
<1>8. LastIndex(start, num) \in start .. to
  BY <1>4, <1>6, <1>7
<1>. QED  BY <1>1, <1>8

\* When the references from start are those up to ptr, it is ptr.
LEMMA LastIndexIs ==
  ASSUME LoopTypes, NEW start \in Nat, NEW num \in Nat, NEW ptr \in Nat,
         start <= ptr, ptr <= start + num, ptr < MemMax,
         \A i \in start .. ptr - 1 : mem_cache[i] # NULL,
         mem_cache[ptr] = NULL,
         MemMax >= start + num \/ ptr = start
  PROVE  LastIndex(start, num) = ptr
<1>. DEFINE end == IF MemMax >= start + num THEN start + num ELSE MemMax
            to  == IF end > start THEN end ELSE start
            Good(k) == /\ k >= end \/ mem_cache[k] = NULL
                       /\ \A i \in start .. k - 1 : mem_cache[i] # NULL
<1>1. MemMax \in Nat /\ end \in Nat /\ to \in Nat /\ to >= end /\ to >= start
      /\ ptr <= to /\ ptr <= end
  BY CacheSizesAssumption
<1>. HIDE DEF end, to
<1>2. Good(ptr) /\ ptr \in start .. to
  BY <1>1
<1>3. ASSUME NEW k \in start .. to, Good(k) PROVE k = ptr
  <2>1. CASE k < ptr
    <3>1. k \in start .. ptr - 1 /\ ~ (k >= end)
      BY <1>1, <2>1
    <3>. QED  BY <1>3, <3>1
  <2>2. CASE ptr < k
    <3>1. ptr \in start .. k - 1
      BY <1>1, <2>2
    <3>. QED  BY <1>3, <3>1
  <2>. QED  BY <1>1, <2>1, <2>2
<1>. HIDE DEF Good
<1>4. LastIndex(start, num) = CHOOSE j \in start .. to : Good(j)
  BY DEF LastIndex, Good, to, end
<1>. QED  BY <1>2, <1>3, <1>4

----------------------------------------------------------------------------
(* A refresh. *)

\* With no entry in use nothing changes.
LEMMA RefreshEmpty ==
  ASSUME NEW cache, NEW c, c = FirstMoved(cache), NEW all, Holds(c, all, 0)
  PROVE  Refreshed(cache) =
           [bb_cache |-> c, bb_ptr |-> bb_ptr, mem_cache |-> mem_cache, mem_ptr |-> mem_ptr,
            cur_bb |-> cur_bb, pre_bb |-> pre_bb, cbs |-> <<>>, pc |-> "run"]
<1>1. c[1] = NULL
  BY HoldsFacts
<1>. QED  BY <1>1 DEF Refreshed

\* What the loop found out replaces the state, when the node is known.
RefreshFields(r, c, s, last) ==
  /\ s.node = NULL =>
       /\ r.bb_cache = c /\ r.bb_ptr = bb_ptr /\ r.mem_cache = mem_cache /\ r.mem_ptr = mem_ptr
       /\ r.cur_bb = cur_bb /\ r.pre_bb = pre_bb /\ r.cbs = s.cbs /\ r.pc = "crash"
  /\ s.node # NULL =>
       /\ r.bb_cache = [i \in Index |-> NULL] /\ r.bb_ptr = 1
       /\ r.mem_cache = (IF MemAddr THEN MemMoved(s.start, last) ELSE mem_cache)
       /\ r.mem_ptr = (IF MemAddr THEN last - s.start ELSE mem_ptr)
       /\ r.cur_bb = s.node /\ r.pre_bb = s.pre /\ r.cbs = s.cbs /\ r.pc = "run"

\* With m entries in use, it is what the loop has in hand after m of them.
LEMMA RefreshSome ==
  ASSUME NEW cache, NEW c, c = FirstMoved(cache), NEW all, NEW m, Holds(c, all, m), m # 0,
         NEW s, s = Loop(c)[m]
  PROVE  RefreshFields(Refreshed(cache), c, s, LastIndex(s.start, RefsOf(s.pre)))
<1>. DEFINE last == LastIndex(s.start, RefsOf(s.pre))
<1>1. c[1] # NULL /\ Used(c) = m /\ Drained(c) = s /\ m \in Nat
  BY HoldsFacts
<1>2. DOMAIN c = Index /\ \A i \in Index : (i \in 1 .. m \/ c[i] = NULL)
  BY <1>1 DEF Holds, Filled, Index
<1>3. [i \in DOMAIN c |-> IF i \in 1 .. m THEN NULL ELSE c[i]] = [i \in Index |-> NULL]
  BY <1>2
<1>4. CASE s.node = NULL
  <2>1. Refreshed(cache) =
          [[bb_cache |-> c, bb_ptr |-> bb_ptr, mem_cache |-> mem_cache, mem_ptr |-> mem_ptr,
            cur_bb |-> cur_bb, pre_bb |-> pre_bb, cbs |-> <<>>, pc |-> "run"]
            EXCEPT !.cbs = s.cbs, !.pc = "crash"]
    BY <1>1, <1>4 DEF Refreshed
  <2>. QED  BY <1>4, <2>1 DEF RefreshFields
<1>5. CASE s.node # NULL
  <2>1. Refreshed(cache) =
          [bb_cache |-> [i \in DOMAIN c |-> IF i \in 1 .. m THEN NULL ELSE c[i]],
           bb_ptr |-> 1,
           mem_cache |-> IF MemAddr THEN MemMoved(s.start, last) ELSE mem_cache,
           mem_ptr |-> IF MemAddr THEN last - s.start ELSE mem_ptr,
           cur_bb |-> s.node, pre_bb |-> s.pre, cbs |-> s.cbs, pc |-> "run"]
    BY <1>1, <1>5 DEF Refreshed
  <2>. QED  BY <1>3, <1>5, <2>1 DEF RefreshFields
<1>. QED  BY <1>4, <1>5

\* The types of what a refresh leaves behind.
RefreshTypes(r) ==
  /\ r.bb_cache \in [Index -> Blocks \cup {NULL}]
  /\ r.bb_ptr \in Index
  /\ r.mem_cache \in [0 .. MemMax - 1 -> Refs \cup {NULL}]
  /\ r.mem_ptr \in Nat
  /\ r.cur_bb \in Nodes
  /\ r.pre_bb \in Keys
  /\ r.cbs \in Seq(Callback)
  /\ r.pc \in {"run", "crash"}

\* Its callbacks are for the oldest of the blocks, all but the last of them when it
\* succeeds; then no entry is left.
RefreshKeys(r, all, m) ==
  /\ Len(r.cbs) <= m
  /\ \A i \in 1 .. Len(r.cbs) : r.cbs[i].key = all[i].key
  /\ r.pc = "run" =>
       /\ Len(r.cbs) = m /\ r.pre_bb = all[m + 1].key /\ Filled(r.bb_cache, 0)
       /\ r.bb_ptr = (IF m = 0 THEN bb_ptr ELSE 1)
       /\ MemAddr /\ m # 0 => r.mem_ptr <= RefsOf(r.pre_bb)
       /\ ~ MemAddr \/ m = 0 => r.mem_ptr = mem_ptr /\ r.mem_cache = mem_cache
  /\ r.pc # "run" => r.mem_ptr = mem_ptr

\* A cell moved or not is a reference or null.
LEMMA MemMovedType ==
  ASSUME LoopTypes, NEW start \in Nat, NEW last \in Nat, last = start \/ last <= MemMax
  PROVE  MemMoved(start, last) \in [0 .. MemMax - 1 -> Refs \cup {NULL}]
<1>1. DOMAIN mem_cache = 0 .. MemMax - 1 /\ MemMax \in Nat
      /\ \A i \in 0 .. MemMax - 1 : mem_cache[i] \in Refs \cup {NULL}
  BY CacheSizesAssumption DEF LoopTypes
<1>. DEFINE new(i) == IF start # 0 /\ i < last - start THEN mem_cache[start + i]
                      ELSE IF i < last THEN NULL ELSE mem_cache[i]
<1>2. ASSUME NEW i \in 0 .. MemMax - 1 PROVE new(i) \in Refs \cup {NULL}
  <2>1. i < last - start => start + i \in 0 .. MemMax - 1
    BY <1>1
  <2>. QED  BY <1>1, <2>1
<1>. HIDE DEF new
<1>3. MemMoved(start, last) = [i \in 0 .. MemMax - 1 |-> new(i)]
  BY <1>1 DEF MemMoved, new
<1>. QED  BY <1>2, <1>3

\* The types and the keys of every refresh.
LEMMA RefreshTyped ==
  ASSUME LoopTypes, bb_ptr \in Index, mem_ptr \in Nat,
         NEW cache, NEW c, c = FirstMoved(cache), NEW all, NEW m, Holds(c, all, m),
         NEW r, r = Refreshed(cache)
  PROVE  RefreshTypes(r) /\ RefreshKeys(r, all, m)
<1>0. /\ m \in Nat /\ m \in Index /\ 1 \in Index /\ c \in [Index -> Blocks \cup {NULL}]
      /\ \A i \in 1 .. m : c[i] \in Blocks
      /\ \A i \in 1 .. m + 1 : all[i].key = KeyAt(c, i)
      /\ all[1].key = pre_bb /\ Filled(c, m)
  <2>1. m \in Index /\ c \in [Index -> Blocks \cup {NULL}] /\ Filled(c, m)
        /\ \A i \in 1 .. m + 1 : all[i].key = KeyAt(c, i)
    BY DEF Holds
  <2>2. 1 \in Index
    BY CacheSizesAssumption DEF Index
  <2>. QED  BY <2>1, <2>2, HoldsFacts
<1>1. CASE m = 0
  <2>1. r = [bb_cache |-> c, bb_ptr |-> bb_ptr, mem_cache |-> mem_cache, mem_ptr |-> mem_ptr,
             cur_bb |-> cur_bb, pre_bb |-> pre_bb, cbs |-> <<>>, pc |-> "run"]
    BY <1>1, RefreshEmpty
  <2>2. <<>> \in Seq(Callback) /\ Len(<<>>) = 0
    BY EmptySeq
  <2>3. RefreshTypes(r)
    BY <1>0, <2>1, <2>2 DEF RefreshTypes, LoopTypes
  <2>4. RefreshKeys(r, all, m)
    BY <1>0, <1>1, <2>1, <2>2 DEF RefreshKeys
  <2>. QED  BY <2>3, <2>4
<1>2. CASE m # 0
  <2>. DEFINE s == Loop(c)[m]
              last == LastIndex(s.start, RefsOf(s.pre))
  <2>1. LoopOK(c, m)
    BY <1>0, LoopType
  <2>2. /\ s \in Locs /\ Len(s.cbs) <= m
        /\ \A i \in 1 .. Len(s.cbs) : s.cbs[i].key = KeyAt(c, i)
        /\ s.node # NULL => Len(s.cbs) = m /\ s.pre = KeyAt(c, m + 1)
    BY <2>1 DEF LoopOK
  <2>3. /\ s.node \in Nodes \cup {NULL} /\ s.pre \in Keys /\ s.start \in Nat
        /\ s.cbs \in Seq(Callback) /\ Len(s.cbs) \in Nat
    BY <2>2, LenProperties DEF Locs
  <2>4. RefreshFields(r, c, s, last)
    BY <1>2, RefreshSome
  <2>5. RefsOf(s.pre) \in Nat
    BY <2>3, RefsOfType
  <2>6. /\ last \in Nat /\ last >= s.start /\ last <= s.start + RefsOf(s.pre)
        /\ (last = s.start \/ last <= MemMax)
    BY <2>3, <2>5, LastIndexType
  <2>7. MemMoved(s.start, last) \in [0 .. MemMax - 1 -> Refs \cup {NULL}]
    BY <2>3, <2>6, MemMovedType
  <2>8. last - s.start \in Nat /\ last - s.start <= RefsOf(s.pre)
    BY <2>3, <2>5, <2>6
  <2>9. \A i \in 1 .. Len(s.cbs) : s.cbs[i].key = all[i].key
    BY <1>0, <2>2, <2>3
  <2>10. [i \in Index |-> NULL] \in [Index -> Blocks \cup {NULL}] /\ Filled([i \in Index |-> NULL], 0)
    BY DEF Filled, Index
  <2>. HIDE DEF s, last
  <2>11. CASE s.node = NULL
    <3>1. /\ r.bb_cache = c /\ r.bb_ptr = bb_ptr /\ r.mem_cache = mem_cache /\ r.mem_ptr = mem_ptr
          /\ r.cur_bb = cur_bb /\ r.pre_bb = pre_bb /\ r.cbs = s.cbs /\ r.pc = "crash"
      BY <2>4, <2>11 DEF RefreshFields
    <3>2. RefreshTypes(r)
      BY <1>0, <2>3, <3>1 DEF RefreshTypes, LoopTypes
    <3>. QED  BY <2>2, <2>9, <3>1, <3>2 DEF RefreshKeys
  <2>12. CASE s.node # NULL
    <3>1. /\ r.bb_cache = [i \in Index |-> NULL] /\ r.bb_ptr = 1
          /\ r.mem_cache = (IF MemAddr THEN MemMoved(s.start, last) ELSE mem_cache)
          /\ r.mem_ptr = (IF MemAddr THEN last - s.start ELSE mem_ptr)
          /\ r.cur_bb = s.node /\ r.pre_bb = s.pre /\ r.cbs = s.cbs /\ r.pc = "run"
      BY <2>4, <2>12 DEF RefreshFields
    <3>2. r.mem_cache \in [0 .. MemMax - 1 -> Refs \cup {NULL}] /\ r.mem_ptr \in Nat
      BY <2>7, <2>8, <3>1 DEF LoopTypes
    <3>3. RefreshTypes(r)
      BY <1>0, <2>3, <2>10, <2>12, <3>1, <3>2 DEF RefreshTypes
    <3>4. RefreshKeys(r, all, m)
      BY <1>0, <1>2, <2>2, <2>8, <2>9, <2>10, <2>12, <3>1 DEF RefreshKeys
    <3>. QED  BY <3>3, <3>4
  <2>. QED  BY <2>11, <2>12
<1>. QED  BY <1>1, <1>2

\* Along a chain it succeeds, at the node of the last block.
LEMMA RefreshNodes ==
  ASSUME LoopTypes, NEW cache, NEW c, c = FirstMoved(cache), NEW all, NEW m, Holds(c, all, m),
         Chain(cur_bb, all), NEW r, r = Refreshed(cache)
  PROVE  /\ r.pc = "run" /\ r.cur_bb = At(cur_bb, all, m + 1)
         /\ \A i \in 1 .. m : r.cbs[i].node = At(cur_bb, all, i)
<1>0. m \in Nat
  BY HoldsFacts
<1>1. CASE m = 0
  <2>1. r.cur_bb = cur_bb /\ r.pc = "run"
    BY <1>1, RefreshEmpty
  <2>. QED  BY <1>1, <2>1 DEF At
<1>2. CASE m # 0
  <2>. DEFINE s == Loop(c)[m]
  <2>1. /\ s.node = At(cur_bb, all, m + 1)
        /\ \A i \in 1 .. m : s.cbs[i].node = At(cur_bb, all, i)
    BY <1>0, LoopNodes
  <2>2. RefreshFields(r, c, s, LastIndex(s.start, RefsOf(s.pre)))
    BY <1>2, RefreshSome
  <2>3. all \in Seq(Due) /\ m + 1 \in 1 .. Len(all) /\ cur_bb \in Nodes
    BY <1>0 DEF Holds, LoopTypes
  <2>4. s.node # NULL
    BY <2>1, <2>3, AtType, KeyFacts
  <2>5. r.cur_bb = s.node /\ r.cbs = s.cbs /\ r.pc = "run"
    BY <2>2, <2>4 DEF RefreshFields
  <2>. QED  BY <2>1, <2>5
<1>. QED  BY <1>1, <1>2

\* Where the last block's references begin, and where they end.
LEMMA LastBlock ==
  ASSUME LoopTypes, NEW all \in Seq(Due), NEW m \in Nat, m # 0, Len(all) = m + 1,
         NEW off, NEW ptr \in Nat, NEW rest \in Nat, Stored(mem_cache, ptr, all, off, rest),
         MemAddr, ptr + rest <= MemMax \/ all[m + 1].refs = <<>>
  PROVE  LET own == all[m + 1].refs IN
         /\ off[m + 1] \in Nat /\ Len(own) \in Nat /\ ptr = off[m + 1] + Len(own) /\ ptr < MemMax
         /\ \A i \in 1 .. Len(own) : mem_cache[off[m + 1] + i - 1] = own[i] /\ own[i] \in Refs
         /\ LastIndex(off[m + 1], RefsOf(all[m + 1].key)) = ptr
<1>. DEFINE own == all[m + 1].refs
            start == off[m + 1]
            num == RefsOf(all[m + 1].key)
<1>1. m + 1 \in 1 .. Len(all) /\ m + 1 # 1 /\ Len(all) = m + 1
  OBVIOUS
<1>2. own \in Seq(Refs) /\ all[m + 1].key \in Keys
  <2>1. all[m + 1] \in Due
    BY <1>1, ElementOfSeq
  <2>. QED  BY <2>1 DEF Due
<1>3. /\ Len(own) \in Nat /\ num \in Nat /\ start \in Nat
      /\ \A i \in 1 .. Len(own) : own[i] \in Refs
  BY <1>1, <1>2, LenProperties, ElementOfSeq, RefsOfType DEF Stored
<1>4. ptr = start + Len(own) /\ Len(own) + rest = num /\ ptr < MemMax
      /\ \A i \in ptr .. MemMax - 1 : mem_cache[i] = NULL
  BY <1>1 DEF Stored
<1>5. \A i \in 1 .. Len(own) : mem_cache[start + i - 1] = own[i]
  BY <1>1 DEF Stored
<1>. HIDE DEF own, start, num
<1>6. MemMax \in Nat /\ mem_cache[ptr] = NULL
  <2>1. MemMax \in Nat
    BY CacheSizesAssumption
  <2>2. ptr \in ptr .. MemMax - 1
    BY <1>4, <2>1
  <2>. QED  BY <1>4, <2>1, <2>2
<1>7. ASSUME NEW i \in start .. ptr - 1 PROVE mem_cache[i] # NULL
  <2>1. i - start + 1 \in 1 .. Len(own) /\ start + (i - start + 1) - 1 = i
    BY <1>3, <1>4
  <2>2. mem_cache[i] = own[i - start + 1]
    BY <1>5, <2>1
  <2>. QED  BY <1>3, <2>1, <2>2, KeyFacts
<1>8. MemMax >= start + num \/ ptr = start
  <2>1. own = <<>> => Len(own) = 0
    OBVIOUS
  <2>2. ptr + rest = start + num
    BY <1>3, <1>4
  <2>. QED  BY <1>3, <1>4, <1>6, <2>1, <2>2 DEF own
<1>9. start <= ptr /\ ptr <= start + num
  BY <1>3, <1>4
<1>10. LastIndex(start, num) = ptr
  BY <1>3, <1>4, <1>6, <1>7, <1>8, <1>9, LastIndexIs
<1>. QED  BY <1>3, <1>4, <1>5, <1>10 DEF own, start, num

\* Moved to the front, the last block's references are its own or lost.
LEMMA MovedRefs ==
  ASSUME LoopTypes, NEW own \in Seq(Refs), NEW start \in Nat, start + Len(own) < MemMax,
         \A i \in 1 .. Len(own) : mem_cache[start + i - 1] = own[i],
         \A i \in start + Len(own) .. MemMax - 1 : mem_cache[i] = NULL
  PROVE  LET moved == MemMoved(start, start + Len(own)) IN
         /\ \A i \in 1 .. Len(own) : moved[i - 1] \in {own[i], NULL}
         /\ \A i \in Len(own) .. MemMax - 1 : moved[i] = NULL
<1>. DEFINE n == Len(own)
            ptr == start + n
<1>0. n \in Nat
  BY LenProperties
<1>1. /\ MemMax \in Nat /\ ptr \in Nat /\ ptr - start = n /\ ptr = start + n /\ ptr < MemMax
      /\ DOMAIN mem_cache = 0 .. MemMax - 1
  BY <1>0, CacheSizesAssumption DEF LoopTypes
<1>. HIDE DEF n, ptr
<1>2. \A i \in 0 .. MemMax - 1 :
        MemMoved(start, ptr)[i] = IF start # 0 /\ i < n THEN mem_cache[start + i]
                                  ELSE IF i < ptr THEN NULL ELSE mem_cache[i]
  BY <1>1 DEF MemMoved
<1>3. ASSUME NEW i \in 1 .. n PROVE MemMoved(start, ptr)[i - 1] \in {own[i], NULL}
  <2>1. i - 1 \in 0 .. MemMax - 1 /\ i - 1 < n /\ i - 1 < ptr /\ start + (i - 1) = start + i - 1
    BY <1>0, <1>1
  <2>2. CASE start # 0
    <3>1. MemMoved(start, ptr)[i - 1] = mem_cache[start + i - 1]
      BY <1>2, <2>1, <2>2
    <3>. QED  BY <2>1, <3>1 DEF n
  <2>3. CASE start = 0
    <3>1. MemMoved(start, ptr)[i - 1] = NULL
      BY <1>2, <2>1, <2>3
    <3>. QED  BY <3>1
  <2>. QED  BY <2>2, <2>3
<1>4. ASSUME NEW i \in n .. MemMax - 1 PROVE MemMoved(start, ptr)[i] = NULL
  <2>1. i \in 0 .. MemMax - 1 /\ ~ (i < n)
    BY <1>0, <1>1
  <2>2. CASE i < ptr
    BY <1>2, <2>1, <2>2
  <2>3. CASE ~ (i < ptr)
    <3>1. i \in ptr .. MemMax - 1
      BY <1>1, <2>1, <2>3
    <3>2. MemMoved(start, ptr)[i] = mem_cache[i]
      BY <1>2, <2>1, <2>3
    <3>. QED  BY <3>1, <3>2 DEF ptr, n
  <2>. QED  BY <2>2, <2>3
<1>. QED  BY <1>3, <1>4 DEF n, ptr

\* One block whose references lie at the front.
LEMMA StoredOne ==
  ASSUME NEW d \in Due, NEW mem, NEW ptr \in Nat, NEW rest \in Nat, ptr = Len(d.refs),
         ptr + rest = RefsOf(d.key),
         \A i \in 1 .. ptr : mem[i - 1] \in {d.refs[i], NULL},
         MemAddr => ptr < MemMax /\ \A i \in ptr .. MemMax - 1 : mem[i] = NULL,
         ~ MemAddr => ptr = 0
  PROVE  Stored(mem, ptr, <<d>>, <<0>>, rest)
<1>1. /\ Len(<<d>>) = 1 /\ <<d>>[1] = d /\ <<0>>[1] = 0 /\ <<0>> \in [1 .. 1 -> Nat]
      /\ 1 .. 1 = {1} /\ 1 .. 1 - 1 = {}
  OBVIOUS
<1>2. \A i \in 1 .. ptr : 0 + i - 1 = i - 1
  OBVIOUS
<1>3. /\ <<0>> \in [1 .. Len(<<d>>) -> Nat] /\ <<0>>[1] = 0
      /\ \A k \in 1 .. Len(<<d>>) - 1 :
           /\ <<0>>[k + 1] = <<0>>[k] + RefsOf(<<d>>[k].key)
           /\ Len(<<d>>[k].refs) = RefsOf(<<d>>[k].key)
  BY <1>1
<1>4. /\ \A k \in 1 .. Len(<<d>>) : <<0>>[k] + Len(<<d>>[k].refs) <= ptr
      /\ ptr = <<0>>[Len(<<d>>)] + Len(<<d>>[Len(<<d>>)].refs)
      /\ Len(<<d>>[Len(<<d>>)].refs) + rest = RefsOf(<<d>>[Len(<<d>>)].key)
  BY <1>1
<1>5. ASSUME NEW k \in 1 .. Len(<<d>>), NEW i \in 1 .. Len(<<d>>[k].refs)
      PROVE  /\ mem[<<0>>[k] + i - 1] \in {<<d>>[k].refs[i], NULL}
             /\ k # 1 => mem[<<0>>[k] + i - 1] = <<d>>[k].refs[i]
  <2>1. k = 1
    BY <1>1
  <2>2. i \in 1 .. ptr /\ <<d>>[k] = d /\ <<0>>[k] = 0
    BY <1>1, <2>1
  <2>3. <<0>>[k] + i - 1 = i - 1
    BY <1>2, <2>2
  <2>. QED  BY <2>1, <2>2, <2>3
<1>. QED  BY <1>3, <1>4, <1>5 DEF Stored

\* Every callback of a refresh has the references of its block; afterwards those of the
\* last block lie at the front.
LEMMA RefreshRefs ==
  ASSUME LoopTypes, NEW cache, NEW c, c = FirstMoved(cache), NEW all, NEW m, Holds(c, all, m),
         NEW r, r = Refreshed(cache), mem_ptr \in Nat,
         NEW off, NEW rest \in Nat, Stored(mem_cache, mem_ptr, all, off, rest),
         MemAddr => mem_ptr + rest <= MemMax \/ all[m + 1].refs = <<>>
  PROVE  /\ \A i \in 1 .. Len(r.cbs) : RefsMatch(r.cbs[i].refs, all[i].refs)
         /\ r.pc = "run" => \E o : Stored(r.mem_cache, r.mem_ptr, <<all[m + 1]>>, o, rest)
<1>0. m \in Nat /\ all \in Seq(Due) /\ Len(all) = m + 1 /\ all[m + 1] \in Due
      /\ m + 1 \in 1 .. Len(all)
  <2>1. m \in Nat
    BY HoldsFacts
  <2>. QED  BY <2>1, ElementOfSeq DEF Holds
<1>1. CASE m = 0
  <2>1. r.mem_cache = mem_cache /\ r.mem_ptr = mem_ptr /\ r.cbs = <<>> /\ r.pc = "run"
    BY <1>1, RefreshEmpty
  <2>2. <<all[m + 1]>> = all
    BY <1>0, <1>1
  <2>3. Len(r.cbs) = 0
    BY <2>1
  <2>. QED  BY <2>1, <2>2, <2>3
<1>2. CASE m # 0
  <2>. DEFINE s == Loop(c)[m]
              last == LastIndex(s.start, RefsOf(s.pre))
              d == all[m + 1]
  <2>1. m \in 0 .. m /\ \A i \in 1 .. m : c[i] \in Blocks
    BY <1>0, HoldsFacts
  <2>2. /\ s.node # NULL => s.start = off[m + 1]
        /\ \A i \in 1 .. Len(s.cbs) : RefsMatch(s.cbs[i].refs, all[i].refs)
    BY <2>1, LoopRefs
  <2>3. s.node # NULL => s.pre = d.key
    <3>1. LoopOK(c, m)
      BY <2>1, LoopType DEF Holds
    <3>2. d.key = KeyAt(c, m + 1)
      BY <1>0 DEF Holds
    <3>. QED  BY <3>1, <3>2 DEF LoopOK
  <2>4. RefreshFields(r, c, s, last)
    BY <1>2, RefreshSome
  <2>5. /\ r.cbs = s.cbs
        /\ r.pc = "run" =>
             /\ s.node # NULL
             /\ r.mem_cache = (IF MemAddr THEN MemMoved(s.start, last) ELSE mem_cache)
             /\ r.mem_ptr = (IF MemAddr THEN last - s.start ELSE mem_ptr)
    <3>. HIDE DEF s, last
    <3>. QED  BY <2>4 DEF RefreshFields
  <2>6. ASSUME r.pc = "run" PROVE Stored(r.mem_cache, r.mem_ptr, <<d>>, <<0>>, rest)
    <3>. DEFINE own == d.refs
                start == off[m + 1]
    <3>1. s.start = start /\ last = LastIndex(start, RefsOf(d.key))
      BY <2>2, <2>3, <2>5, <2>6
    <3>2. /\ mem_ptr = start + Len(own) /\ Len(own) + rest = RefsOf(d.key)
          /\ start \in Nat /\ Len(own) \in Nat /\ \A i \in 1 .. Len(own) : own[i] \in Refs
      <4>1. own \in Seq(Refs)
        BY <1>0 DEF Due
      <4>. QED  BY <1>0, <4>1, LenProperties, ElementOfSeq DEF Stored
    <3>3. CASE MemAddr
      <4>1. last = mem_ptr /\ mem_ptr < MemMax
            /\ \A i \in 1 .. Len(own) : mem_cache[start + i - 1] = own[i]
        BY <1>0, <1>2, <3>1, <3>3, LastBlock
      <4>2. r.mem_cache = MemMoved(start, mem_ptr) /\ r.mem_ptr = Len(own)
        BY <2>5, <2>6, <3>1, <3>2, <3>3, <4>1
      <4>3. \A i \in mem_ptr .. MemMax - 1 : mem_cache[i] = NULL
        BY <3>3 DEF Stored
      <4>4. /\ \A i \in 1 .. Len(own) : r.mem_cache[i - 1] \in {own[i], NULL}
            /\ \A i \in Len(own) .. MemMax - 1 : r.mem_cache[i] = NULL
        <5>1. /\ \A i \in 1 .. Len(own) : MemMoved(start, mem_ptr)[i - 1] \in {own[i], NULL}
              /\ \A i \in Len(own) .. MemMax - 1 : MemMoved(start, mem_ptr)[i] = NULL
          <6>1. /\ mem_ptr = start + Len(own) /\ start + Len(own) < MemMax
                /\ start \in Nat /\ own \in Seq(Refs)
                /\ \A i \in 1 .. Len(own) : mem_cache[start + i - 1] = own[i]
                /\ \A i \in start + Len(own) .. MemMax - 1 : mem_cache[i] = NULL
            BY <1>0, <3>2, <4>1, <4>3 DEF Due
          <6>. HIDE DEF own, start, last, s, d
          <6>. QED  BY <6>1, MovedRefs
        <5>. QED  BY <4>2, <5>1
      <4>5. Len(own) < MemMax
        BY <3>2, <4>1, CacheSizesAssumption
      <4>. QED  BY <1>0, <3>2, <3>3, <4>2, <4>4, <4>5, StoredOne
    <3>4. CASE ~ MemAddr
      <4>1. RefsOf(d.key) = 0
        BY <3>4 DEF RefsOf
      <4>2. Len(own) = 0 /\ mem_ptr = 0 /\ rest = 0
        BY <3>2, <3>4, <4>1 DEF Stored
      <4>3. r.mem_ptr = 0
        BY <2>5, <2>6, <3>4, <4>2
      <4>4. /\ d \in Due /\ r.mem_ptr \in Nat /\ r.mem_ptr = Len(d.refs)
            /\ r.mem_ptr + rest = RefsOf(d.key)
            /\ \A i \in 1 .. r.mem_ptr : r.mem_cache[i - 1] \in {d.refs[i], NULL}
        BY <1>0, <4>1, <4>2, <4>3
      <4>. HIDE DEF d
      <4>. QED  BY <3>4, <4>3, <4>4, StoredOne
    <3>. QED  BY <3>3, <3>4
  <2>. QED  BY <2>2, <2>5, <2>6
<1>. QED  BY <1>1, <1>2

----------------------------------------------------------------------------
(* The invariant. *)

\* The entries in use.
Entries == IF bb_ptr = 0 THEN 0 ELSE bb_ptr - 1

Types ==
  /\ bb_cache \in [Index -> Blocks \cup {NULL}] /\ bb_ptr \in Index
  /\ mem_cache \in [0 .. MemMax - 1 -> Refs \cup {NULL}] /\ mem_ptr \in Nat
  /\ cur_bb \in Nodes /\ pre_bb \in Keys
  /\ todo \in 0 .. MemMax
  /\ out \in Seq(Callback)
  /\ sig_bb \in Nodes \cup {NULL} /\ (sig_depth > 0 => sig_bb # NULL)
  /\ sig_depth \in 0 .. SigMax /\ sig_ran \in BOOLEAN
  /\ pc \in {"run", "ended", "crash"}

Contexts == [calls : Nodes, last : Blocks \cup {NULL}]

GhostTypes ==
  /\ ctx \in [{T} -> Contexts]
  /\ saved \in [{T} -> Seq([calls : Nodes, last : {NULL}])] /\ Len(saved[T]) = sig_depth
  /\ due \in Seq(Due) /\ expect \in Seq(Due)
  /\ whole \in BOOLEAN /\ returned \in BOOLEAN /\ plain \in BOOLEAN

\* The blocks due are the one in hand and those of the entries; the last of them is
\* the last block the program entered.
DueInv ==
  pc = "run" =>
    /\ Holds(bb_cache, due, Entries)
    /\ ctx[T].last # NULL => due[Len(due)].key = ctx[T].last
    /\ todo > 0 => /\ ctx[T].last # NULL /\ todo <= RefNum[ctx[T].last]
                   /\ MemAddr

\* Their references lie in the cache, and those to come will fit.
MemInv ==
  pc = "run" /\ whole =>
    /\ \E off : Stored(mem_cache, mem_ptr, due, off, todo)
    /\ MemAddr => mem_ptr + todo < MemMax

\* The node of the last block.
NodeNow == At(cur_bb, due, Len(due))

\* The nodes form a chain that ends at the program's calls.
PathInv ==
  /\ Chain(cur_bb, due)
  /\ Caller(NodeNow, due[Len(due)].key) = Program!CallsNow(ctx[T])
  /\ ctx[T].last # NULL => NodeNow = Append(ctx[T].calls, ctx[T].last)

\* The node is that of the program until a handler returns, and longer when every
\* signal found the save slot as it needs it.
NodeInv ==
  pc = "run" =>
    /\ (plain \/ (whole /\ ~ returned)) => PathInv
    /\ whole /\ ~ returned => cur_bb = due[1].node

\* What the save slot holds is a block hanging where the signal came.
SlotInv ==
  pc = "run" /\ plain /\ sig_depth > 0 =>
    sig_depth = 1 /\ sig_bb # <<>> /\ Front(sig_bb) = saved[T][1].calls

EndInv == (pc = "ended" => due = <<>>) /\ (plain => pc # "crash")

JInv ==
  /\ Types /\ GhostTypes /\ DueInv /\ MemInv /\ NodeInv /\ SlotInv /\ EndInv
  /\ CallbacksInOrder

----------------------------------------------------------------------------
(* Calls. *)

\* The calls the next block is inside of, case by case.
LEMMA CallsNowIs ==
  ASSUME NEW c \in Contexts
  PROVE  /\ c.last = NULL => Program!CallsNow(c) = c.calls
         /\ c.last # NULL /\ EndState[c.last] = "call" => Program!CallsNow(c) = Append(c.calls, c.last)
         /\ c.last # NULL /\ EndState[c.last] = "ret" =>
              Program!CallsNow(c) = IF c.calls = <<>> THEN <<>> ELSE Front(c.calls)
         /\ c.last # NULL /\ EndState[c.last] = "other" => Program!CallsNow(c) = c.calls
         /\ \/ c.last = NULL \/ EndState[c.last] = "call" \/ EndState[c.last] = "ret"
            \/ EndState[c.last] = "other"
<1>1. c.last \in Blocks \cup {NULL}
  BY DEF Contexts
<1>2. \/ c.last = NULL \/ EndState[c.last] = "call" \/ EndState[c.last] = "ret"
      \/ EndState[c.last] = "other"
  BY <1>1, KeyFacts
<1>3. CASE c.last = NULL
  BY <1>3 DEF Program!CallsNow
<1>4. CASE c.last # NULL /\ EndState[c.last] = "call"
  BY <1>4 DEF Program!CallsNow
<1>5. CASE c.last # NULL /\ EndState[c.last] = "ret"
  <2>1. c.last # NULL /\ EndState[c.last] # "call" /\ EndState[c.last] # "other"
    BY <1>5
  <2>2. Program!CallsNow(c) = IF c.calls = <<>> THEN <<>> ELSE Front(c.calls)
    BY <1>5, <2>1 DEF Program!CallsNow, Program!Front, Front
  <2>. QED  BY <1>5, <2>1, <2>2
<1>6. CASE c.last # NULL /\ EndState[c.last] = "other"
  BY <1>6 DEF Program!CallsNow
<1>. QED  BY <1>2, <1>3, <1>4, <1>5, <1>6

\* They are a node's name.
LEMMA CallsNowType ==
  ASSUME NEW c \in Contexts
  PROVE  Program!CallsNow(c) \in Nodes
<1>1. c.calls \in Nodes /\ c.last \in Blocks \cup {NULL}
  BY DEF Contexts
<1>2. c.last # NULL => Append(c.calls, c.last) \in Nodes
  BY <1>1, AppendProperties DEF Nodes
<1>3. c.calls # <<>> => Front(c.calls) \in Nodes
  BY <1>1, FrontType DEF Nodes
<1>. QED  BY <1>1, <1>2, <1>3, CallsNowIs, KeyFacts

\* Below the node of a block the next one hangs where the program's calls say.
LEMMA CallerFollows ==
  ASSUME NEW c \in Contexts, c.last # NULL
  PROVE  Caller(Append(c.calls, c.last), c.last) = Program!CallsNow(c)
<1>. DEFINE b == c.last
            n == Append(c.calls, b)
<1>1. c.calls \in Nodes /\ b \in Blocks /\ b \in Keys /\ b # Root
  BY KeyFacts DEF Contexts, Keys
<1>2. n # <<>> /\ Front(n) = c.calls /\ n \in Nodes
  BY <1>1, FrontOf, AppendProperties DEF Nodes
<1>3. ParentOf(n) = c.calls
  BY <1>2, ParentType
<1>4. c.calls # <<>> => ParentOf(c.calls) = Front(c.calls)
  BY <1>1, ParentType
<1>5. /\ EndState[b] = "call" => Caller(n, b) = n
      /\ EndState[b] = "ret" =>
           Caller(n, b) = IF ParentOf(n) = <<>> THEN <<>> ELSE ParentOf(ParentOf(n))
      /\ EndState[b] = "other" => Caller(n, b) = ParentOf(n)
  BY <1>1, CallerIs
<1>6. /\ EndState[b] = "call" => Program!CallsNow(c) = n
      /\ EndState[b] = "ret" => Program!CallsNow(c) = IF c.calls = <<>> THEN <<>> ELSE Front(c.calls)
      /\ EndState[b] = "other" => Program!CallsNow(c) = c.calls
      /\ EndState[b] = "call" \/ EndState[b] = "ret" \/ EndState[b] = "other"
  BY CallsNowIs
<1>. HIDE DEF b, n
<1>7. Caller(n, b) = Program!CallsNow(c)
  BY <1>3, <1>4, <1>5, <1>6
<1>. QED  BY <1>7 DEF b, n

----------------------------------------------------------------------------
(* The report of a step. *)

\* The blocks passed and those that stay due.
LEMMA ReportFacts ==
  ASSUME NEW all \in Seq(Due), NEW k \in 0 .. Len(all)
  PROVE  LET e == SubSeq(all, 1, k)
             d == SubSeq(all, k + 1, Len(all))
         IN
         /\ e \in Seq(Due) /\ d \in Seq(Due) /\ Len(e) = k
         /\ \A i \in 1 .. k : e[i] = all[i]
         /\ k = 0 => d = all
         /\ k = Len(all) => d = <<>>
         /\ k + 1 = Len(all) => d = <<all[Len(all)]>>
<1>. DEFINE e == SubSeq(all, 1, k)
            d == SubSeq(all, k + 1, Len(all))
<1>1. Len(all) \in Nat /\ k \in Nat /\ \A i \in 1 .. Len(all) : all[i] \in Due
  BY LenProperties, ElementOfSeq
<1>2. e \in Seq(Due) /\ Len(e) = k /\ \A i \in 1 .. k : e[i] = all[i]
  <2>1. \A i \in 1 .. k : all[i] \in Due
    BY <1>1
  <2>2. SubSeq(all, 1, k) \in Seq(Due) /\ Len(SubSeq(all, 1, k)) = (IF 1 <= k THEN k - 1 + 1 ELSE 0)
        /\ \A i \in 1 .. k - 1 + 1 : SubSeq(all, 1, k)[i] = all[1 + i - 1]
    BY <1>1, <2>1, SubSeqProperties
  <2>3. \A i \in 1 .. k : 1 + i - 1 = i
    BY <1>1
  <2>. QED  BY <1>1, <2>2, <2>3
<1>3. d \in Seq(Due)
  <2>1. \A i \in k + 1 .. Len(all) : all[i] \in Due
    BY <1>1
  <2>. QED  BY <1>1, <2>1, SubSeqProperties
<1>4. k = 0 => d = all
  BY <1>1, SubSeqFull
<1>5. k = Len(all) => d = <<>>
  BY <1>1, SubSeqEmpty
<1>6. ASSUME k + 1 = Len(all) PROVE d = <<all[Len(all)]>>
  <2>. DEFINE l == Len(all)
  <2>1. \A i \in l .. l : all[i] \in Due
    BY <1>1, <1>6
  <2>2. d = SubSeq(all, l, l)
    BY <1>6
  <2>. HIDE DEF l
  <2>3. l \in Int
    BY <1>1 DEF l
  <2>4. /\ Len(SubSeq(all, l, l)) = (IF l <= l THEN l - l + 1 ELSE 0)
        /\ \A i \in 1 .. l - l + 1 : SubSeq(all, l, l)[i] = all[l + i - 1]
    BY <2>1, <2>3, SubSeqProperties
  <2>5. 1 \in 1 .. l - l + 1 /\ l + 1 - 1 = l /\ l <= l /\ l - l + 1 = 1
    BY <2>3
  <2>6. Len(d) = 1 /\ d[1] = all[l]
    BY <2>2, <2>4, <2>5
  <2>7. d = <<all[l]>>
    <3>. DEFINE x == <<all[l]>>
    <3>1. x \in Seq(Due) /\ Len(x) = 1 /\ x[1] = all[l]
      <4>1. all[l] \in Due
        BY <2>1, <2>3
      <4>. QED  BY <4>1
    <3>. HIDE DEF x
    <3>2. \A i \in 1 .. 1 : x[i] = d[i]
      BY <2>6, <3>1
    <3>3. x = d
      BY <1>3, <2>6, <3>1, <3>2, SeqEqual
    <3>. QED  BY <3>3 DEF x
  <2>. QED  BY <2>7 DEF l
<1>. QED  BY <1>2, <1>3, <1>4, <1>5, <1>6

\* A single block's references fit.
LEMMA StoredFits ==
  ASSUME NEW mem, NEW ptr, NEW d \in Due, NEW off, NEW rest \in Nat,
         Stored(mem, ptr, <<d>>, off, rest), MemAddr
  PROVE  ptr + rest < MemMax
<1>1. Len(<<d>>) = 1 /\ <<d>>[1] = d
  OBVIOUS
<1>2. /\ off[1] = 0 /\ ptr = off[1] + Len(d.refs) /\ Len(d.refs) + rest = RefsOf(d.key)
  BY <1>1 DEF Stored
<1>3. Len(d.refs) \in Nat /\ d.key \in Keys
  BY LenProperties DEF Due
<1>4. RefsOf(d.key) < MemMax
  <2>1. MemMax > 0 /\ \A b \in Blocks : RefNum[b] \in Nat /\ RefNum[b] < MemMax
    BY CacheBlocksAssumption, CacheSizesAssumption
  <2>2. d.key # Root => d.key \in Blocks
    BY <1>3 DEF Keys
  <2>. QED  BY <2>1, <2>2 DEF RefsOf
<1>. QED  BY <1>2, <1>3, <1>4

----------------------------------------------------------------------------
(* A refresh, and the blocks due. *)

\* The nodes are those of the program's path.
OnPath == plain \/ (whole /\ ~ returned)

\* All that a refresh promises of the blocks all, m of them in entries.
RefreshAll(r, all, m, rest) ==
  /\ RefreshTypes(r) /\ RefreshKeys(r, all, m)
  /\ whole =>
       /\ \A i \in 1 .. Len(r.cbs) : RefsMatch(r.cbs[i].refs, all[i].refs)
       /\ r.pc = "run" => \E o : Stored(r.mem_cache, r.mem_ptr, <<all[m + 1]>>, o, rest)
  /\ OnPath =>
       /\ r.pc = "run" /\ r.cur_bb = At(cur_bb, all, m + 1)
       /\ \A i \in 1 .. m : r.cbs[i].node = At(cur_bb, all, i)

\* It does when their references are stored and their nodes a chain.
LEMMA RefreshDoes ==
  ASSUME Types, NEW cache, NEW c, c = FirstMoved(cache), NEW all, NEW m, Holds(c, all, m),
         NEW rest \in Nat,
         whole => \E off : Stored(mem_cache, mem_ptr, all, off, rest),
         whole /\ MemAddr => mem_ptr + rest <= MemMax \/ all[m + 1].refs = <<>>,
         OnPath => Chain(cur_bb, all),
         NEW r, r = Refreshed(cache)
  PROVE  RefreshAll(r, all, m, rest)
<1>1. LoopTypes /\ bb_ptr \in Index /\ mem_ptr \in Nat
  BY DEF LoopTypes, Types
<1>2. RefreshTypes(r) /\ RefreshKeys(r, all, m)
  BY <1>1, RefreshTyped
<1>3. ASSUME whole
      PROVE  /\ \A i \in 1 .. Len(r.cbs) : RefsMatch(r.cbs[i].refs, all[i].refs)
             /\ r.pc = "run" => \E o : Stored(r.mem_cache, r.mem_ptr, <<all[m + 1]>>, o, rest)
  <2>1. PICK off : Stored(mem_cache, mem_ptr, all, off, rest)
    BY <1>3
  <2>. QED  BY <1>1, <1>3, <2>1, RefreshRefs
<1>4. ASSUME OnPath
      PROVE  /\ r.pc = "run" /\ r.cur_bb = At(cur_bb, all, m + 1)
             /\ \A i \in 1 .. m : r.cbs[i].node = At(cur_bb, all, i)
  BY <1>1, <1>4, RefreshNodes
<1>. QED  BY <1>2, <1>3, <1>4 DEF RefreshAll

\* What is in the entries while the thread runs.
LEMMA EntriesFacts ==
  ASSUME Types, GhostTypes, DueInv, pc = "run"
  PROVE  /\ Entries \in Nat /\ Len(due) = Entries + 1 /\ due \in Seq(Due)
         /\ Holds(bb_cache, due, Entries)
         /\ Entries = 0 <=> bb_ptr \in {0, 1}
         /\ bb_ptr # 0 => Entries = bb_ptr - 1
         /\ bb_cache[0] = NULL /\ FirstMoved(bb_cache) = bb_cache
         /\ BBMax \in Nat /\ BBMax >= 2 /\ bb_ptr \in 0 .. BBMax - 1
<1>1. Holds(bb_cache, due, Entries)
  BY DEF DueInv
<1>2. BBMax \in Nat /\ BBMax >= 2 /\ bb_ptr \in 0 .. BBMax - 1
  BY CacheSizesAssumption DEF Types, Index
<1>3. /\ Entries \in Nat /\ bb_ptr # 0 => Entries = bb_ptr - 1
      /\ Entries = 0 <=> bb_ptr \in {0, 1}
  BY <1>2 DEF Entries
<1>4. bb_cache[0] = NULL
  <2>1. 0 \in Index
    BY <1>2 DEF Index
  <2>. QED  BY <1>1, <2>1 DEF Holds, Filled
<1>5. FirstMoved(bb_cache) = bb_cache
  BY <1>4 DEF FirstMoved
<1>. QED  BY SMTT(60), <1>1, <1>2, <1>3, <1>4, <1>5 DEF Holds

\* A refresh outside the inserted code.
LEMMA QuietRefresh ==
  ASSUME JInv, pc = "run"
  PROVE  RefreshAll(Refreshed(bb_cache), due, Entries, todo)
<1>1. Types /\ GhostTypes /\ DueInv /\ MemInv /\ NodeInv
  BY DEF JInv
<1>2. Holds(bb_cache, due, Entries) /\ FirstMoved(bb_cache) = bb_cache
  BY <1>1, EntriesFacts
<1>3. /\ whole => \E off : Stored(mem_cache, mem_ptr, due, off, todo)
      /\ whole /\ MemAddr => mem_ptr + todo < MemMax
  BY <1>1 DEF MemInv
<1>4. todo \in Nat /\ mem_ptr \in Nat /\ MemMax \in Nat
  BY <1>1, CacheSizesAssumption DEF Types
<1>5. whole /\ MemAddr => mem_ptr + todo <= MemMax
  BY <1>3, <1>4
<1>6. OnPath => Chain(cur_bb, due)
  BY <1>1 DEF NodeInv, OnPath, PathInv
<1>. QED  BY <1>1, <1>2, <1>3, <1>4, <1>5, <1>6, RefreshDoes

\* The block that is entered, behind those due.
LEMMA DueWithFacts ==
  ASSUME GhostTypes, NEW b \in Blocks
  PROVE  /\ DueWith(b) \in Seq(Due) /\ Len(DueWith(b)) = Len(due) + 1 /\ Len(due) \in Nat
         /\ \A i \in 1 .. Len(due) : DueWith(b)[i] = due[i]
         /\ DueWith(b)[Len(due) + 1].key = b /\ DueWith(b)[Len(due) + 1].refs = <<>>
         /\ DueWith(b)[Len(due) + 1].node = Append(Program!CallsNow(ctx[T]), b)
<1>. DEFINE d == Run(Append(Program!CallsNow(ctx[T]), b), b, <<>>)
<1>1. due \in Seq(Due) /\ ctx[T] \in Contexts
  BY DEF GhostTypes
<1>2. Append(Program!CallsNow(ctx[T]), b) \in Nodes
  BY <1>1, CallsNowType, AppendProperties DEF Nodes
<1>3. /\ d \in Due /\ d.key = b /\ d.refs = <<>>
      /\ d.node = Append(Program!CallsNow(ctx[T]), b)
  <2>1. <<>> \in Seq(Refs) /\ b \in Keys
    BY EmptySeq DEF Keys
  <2>. QED  BY <1>2, <2>1 DEF Run, Due
<1>4. DueWith(b) = Append(due, d)
  BY DEF DueWith
<1>. HIDE DEF d
<1>. QED  BY <1>1, <1>3, <1>4, AppendProperties, LenProperties

\* With it the entries hold one more.
LEMMA EnterHolds ==
  ASSUME Types, GhostTypes, DueInv, pc = "run", NEW b \in Blocks
  PROVE  Holds(FirstMoved([bb_cache EXCEPT ![bb_ptr] = b]), DueWith(b), Entries + 1)
<1>. DEFINE cache == [bb_cache EXCEPT ![bb_ptr] = b]
            c == FirstMoved(cache)
            m == Entries + 1
            all == DueWith(b)
<1>1. /\ Entries \in Nat /\ Len(due) = Entries + 1 /\ Holds(bb_cache, due, Entries)
      /\ bb_ptr # 0 => Entries = bb_ptr - 1
      /\ Entries = 0 <=> bb_ptr \in {0, 1}
      /\ BBMax \in Nat /\ BBMax >= 2 /\ bb_ptr \in 0 .. BBMax - 1
  BY EntriesFacts
<1>2. bb_cache \in [Index -> Blocks \cup {NULL}] /\ Filled(bb_cache, Entries)
      /\ \A i \in 1 .. Entries + 1 : due[i].key = KeyAt(bb_cache, i)
  BY <1>1 DEF Holds
<1>3. /\ all \in Seq(Due) /\ Len(all) = m + 1 /\ all[m + 1].key = b
      /\ \A i \in 1 .. m : all[i] = due[i]
  BY <1>1, DueWithFacts
<1>4. m \in Nat /\ m \in Index /\ (bb_ptr # 0 => m = bb_ptr) /\ (bb_ptr = 0 => m = 1)
      /\ 0 \in Index /\ 1 \in Index /\ bb_ptr \in Index
  BY <1>1 DEF Index
<1>5. b # NULL /\ bb_cache[0] = NULL
  BY <1>2, <1>4, KeyFacts DEF Filled
<1>. HIDE DEF all, m
<1>6. c = [bb_cache EXCEPT ![m] = b]
  <2>1. CASE bb_ptr = 0
    <3>1. cache[0] = b
      BY <1>2, <1>4, <2>1
    <3>2. c = [cache EXCEPT ![1] = b, ![0] = NULL]
      BY <1>5, <3>1 DEF FirstMoved
    <3>3. \A i \in Index : c[i] = IF i = 1 THEN b ELSE bb_cache[i]
      BY <1>2, <1>4, <1>5, <2>1, <3>2
    <3>4. DOMAIN c = Index /\ c = [i \in DOMAIN c |-> c[i]]
      BY <1>2, <3>2
    <3>. HIDE DEF c
    <3>5. c = [i \in Index |-> IF i = 1 THEN b ELSE bb_cache[i]]
      BY <3>3, <3>4
    <3>. QED  BY <1>2, <1>4, <2>1, <3>5
  <2>2. CASE bb_ptr # 0
    <3>1. cache[0] = NULL /\ m = bb_ptr
      BY <1>2, <1>4, <1>5, <2>2
    <3>. QED  BY <3>1 DEF FirstMoved
  <2>. QED  BY <2>1, <2>2
<1>. HIDE DEF c
<1>7. /\ c \in [Index -> Blocks \cup {NULL}] /\ c[m] = b
      /\ \A i \in Index : i # m => c[i] = bb_cache[i]
  BY <1>2, <1>4, <1>6
<1>8. Filled(c, m)
  <2>1. ASSUME NEW i \in Index PROVE c[i] # NULL <=> 1 <= i /\ i <= m
    <3>1. CASE i = m
      BY <1>1, <1>4, <1>5, <1>7, <3>1 DEF m
    <3>2. CASE i # m
      <4>1. i \in Int /\ (i <= m <=> i <= Entries)
        BY <1>1, <3>2 DEF Index, m
      <4>. QED  BY <1>2, <1>7, <3>2, <4>1 DEF Filled
    <3>. QED  BY <3>1, <3>2
  <2>. QED  BY <2>1 DEF Filled
<1>9. ASSUME NEW i \in 1 .. m + 1 PROVE all[i].key = KeyAt(c, i)
  <2>1. CASE i = m + 1
    <3>1. i # 1 /\ i - 1 = m
      BY <1>1, <1>4, <2>1 DEF m
    <3>. QED  BY <1>3, <1>7, <2>1, <3>1 DEF KeyAt
  <2>2. CASE i # m + 1
    <3>1. i \in 1 .. m /\ i \in 1 .. Entries + 1
      BY <1>4, <2>2 DEF m
    <3>2. i # 1 => i - 1 \in Index /\ i - 1 # m
      BY <1>1, <1>4, <3>1 DEF Index
    <3>3. KeyAt(c, i) = KeyAt(bb_cache, i)
      BY <1>7, <3>2 DEF KeyAt
    <3>. QED  BY <1>2, <1>3, <3>1, <3>3
  <2>. QED  BY <2>1, <2>2
<1>10. Holds(c, all, m)
  BY <1>3, <1>4, <1>7, <1>8, <1>9 DEF Holds
<1>. QED  BY <1>10 DEF c, all, m

\* Its references will lie behind those of the blocks due.
LEMMA EnterStored ==
  ASSUME Types, GhostTypes, NEW b \in Blocks, NEW off, due # <<>>,
         Stored(mem_cache, mem_ptr, due, off, 0)
  PROVE  \E o : Stored(mem_cache, mem_ptr, DueWith(b), o, RefsOf(b))
<1>. DEFINE l == Len(due)
            all == DueWith(b)
            o == [k \in 1 .. l + 1 |-> IF k <= l THEN off[k] ELSE mem_ptr]
<1>1. /\ all \in Seq(Due) /\ Len(all) = l + 1 /\ l \in Nat /\ l # 0
      /\ \A k \in 1 .. l : all[k] = due[k]
      /\ all[l + 1].key = b /\ all[l + 1].refs = <<>>
  <2>1. due \in Seq(Due)
    BY DEF GhostTypes
  <2>. QED  BY <2>1, EmptySeq, DueWithFacts
<1>2. /\ off \in [1 .. l -> Nat] /\ off[1] = 0
      /\ \A k \in 1 .. l - 1 :
           off[k + 1] = off[k] + RefsOf(due[k].key) /\ Len(due[k].refs) = RefsOf(due[k].key)
      /\ \A k \in 1 .. l : off[k] + Len(due[k].refs) <= mem_ptr
      /\ mem_ptr = off[l] + Len(due[l].refs) /\ Len(due[l].refs) + 0 = RefsOf(due[l].key)
  BY DEF Stored
<1>3. /\ \A k \in 1 .. l : \A i \in 1 .. Len(due[k].refs) :
           /\ mem_cache[off[k] + i - 1] \in {due[k].refs[i], NULL}
           /\ k # 1 => mem_cache[off[k] + i - 1] = due[k].refs[i]
      /\ MemAddr => mem_ptr < MemMax /\ \A i \in mem_ptr .. MemMax - 1 : mem_cache[i] = NULL
      /\ ~ MemAddr => mem_ptr = 0
  BY DEF Stored
<1>4. mem_ptr \in Nat /\ Len(<<>>) = 0 /\ RefsOf(b) \in Nat /\ Len(due[l].refs) \in Nat
  <2>1. due[l] \in Due
    BY <1>1, ElementOfSeq DEF GhostTypes
  <2>2. b \in Keys
    BY DEF Keys
  <2>. QED  BY <2>1, <2>2, RefsOfType, LenProperties DEF Types, Due
<1>. HIDE DEF all
<1>5. /\ o \in [1 .. l + 1 -> Nat] /\ (\A k \in 1 .. l : o[k] = off[k]) /\ o[l + 1] = mem_ptr
  BY <1>1, <1>2, <1>4
<1>. HIDE DEF o, l
<1>6. o[1] = 0
  BY <1>1, <1>2, <1>5
<1>7. ASSUME NEW k \in 1 .. l
      PROVE  o[k + 1] = o[k] + RefsOf(all[k].key) /\ Len(all[k].refs) = RefsOf(all[k].key)
  <2>1. all[k] = due[k] /\ o[k] = off[k]
    BY <1>1, <1>5
  <2>2. CASE k = l
    BY <1>1, <1>2, <1>4, <1>5, <2>1, <2>2
  <2>3. CASE k # l
    <3>1. k \in 1 .. l - 1 /\ k + 1 \in 1 .. l
      BY <1>1, <2>3
    <3>. QED  BY <1>2, <1>5, <2>1, <3>1
  <2>. QED  BY <2>2, <2>3
<1>8. ASSUME NEW k \in 1 .. l + 1 PROVE o[k] + Len(all[k].refs) <= mem_ptr
  <2>1. CASE k = l + 1
    BY <1>1, <1>4, <1>5, <2>1
  <2>2. CASE k # l + 1
    <3>1. k \in 1 .. l
      BY <1>1, <2>2
    <3>. QED  BY <1>1, <1>2, <1>5, <3>1
  <2>. QED  BY <2>1, <2>2
<1>9. ASSUME NEW k \in 1 .. l + 1, NEW i \in 1 .. Len(all[k].refs)
      PROVE  /\ mem_cache[o[k] + i - 1] \in {all[k].refs[i], NULL}
             /\ k # 1 => mem_cache[o[k] + i - 1] = all[k].refs[i]
  <2>1. k \in 1 .. l
    BY <1>1, <1>4
  <2>2. all[k] = due[k] /\ o[k] = off[k]
    BY <1>1, <1>5, <2>1
  <2>. QED  BY <1>3, <2>1, <2>2
<1>10. /\ o \in [1 .. Len(all) -> Nat] /\ o[1] = 0
       /\ \A k \in 1 .. Len(all) - 1 :
            o[k + 1] = o[k] + RefsOf(all[k].key) /\ Len(all[k].refs) = RefsOf(all[k].key)
       /\ \A k \in 1 .. Len(all) : o[k] + Len(all[k].refs) <= mem_ptr
  <2>1. Len(all) - 1 = l
    BY <1>1
  <2>. QED  BY <1>1, <1>5, <1>6, <1>7, <1>8, <2>1
<1>11. /\ mem_ptr = o[Len(all)] + Len(all[Len(all)].refs)
       /\ Len(all[Len(all)].refs) + RefsOf(b) = RefsOf(all[Len(all)].key)
  BY <1>1, <1>4, <1>5
<1>12. Stored(mem_cache, mem_ptr, all, o, RefsOf(b))
  BY <1>1, <1>3, <1>9, <1>10, <1>11 DEF Stored
<1>. QED  BY <1>12 DEF all

\* It hangs where the last of them says.
LEMMA EnterPath ==
  ASSUME GhostTypes, PathInv, due # <<>>, NEW b \in Blocks
  PROVE  /\ Chain(cur_bb, DueWith(b))
         /\ At(cur_bb, DueWith(b), Len(due) + 1) = Append(Program!CallsNow(ctx[T]), b)
<1>. DEFINE l == Len(due)
            all == DueWith(b)
<1>1. /\ Len(all) = l + 1 /\ l \in Nat /\ l # 0
      /\ \A k \in 1 .. l : all[k] = due[k]
      /\ all[l + 1].key = b /\ all[l + 1].node = Append(Program!CallsNow(ctx[T]), b)
  <2>1. due \in Seq(Due)
    BY DEF GhostTypes
  <2>. QED  BY <2>1, EmptySeq, DueWithFacts
<1>2. Caller(At(cur_bb, due, l), due[l].key) = Program!CallsNow(ctx[T])
  BY DEF PathInv, NodeNow
<1>3. Program!CallsNow(ctx[T]) \in Nodes
  <2>1. ctx[T] \in Contexts
    BY DEF GhostTypes
  <2>. QED  BY <2>1, CallsNowType
<1>4. \A k \in 1 .. l - 1 :
        /\ Caller(At(cur_bb, due, k), due[k].key) \in Nodes
        /\ due[k + 1].node = Append(Caller(At(cur_bb, due, k), due[k].key), due[k + 1].key)
  BY DEF PathInv, Chain
<1>. HIDE DEF l, all
<1>5. ASSUME NEW k \in 1 .. l
      PROVE  /\ Caller(At(cur_bb, all, k), all[k].key) \in Nodes
             /\ all[k + 1].node = Append(Caller(At(cur_bb, all, k), all[k].key), all[k + 1].key)
  <2>1. all[k] = due[k] /\ At(cur_bb, all, k) = At(cur_bb, due, k)
    BY <1>1 DEF At
  <2>2. CASE k = l
    BY <1>1, <1>2, <1>3, <2>1, <2>2
  <2>3. CASE k # l
    <3>1. k \in 1 .. l - 1 /\ k + 1 \in 1 .. l
      BY <1>1, <2>3
    <3>2. all[k + 1] = due[k + 1]
      BY <1>1, <3>1
    <3>. QED  BY <1>4, <2>1, <3>1, <3>2
  <2>. QED  BY <2>2, <2>3
<1>6. Len(all) - 1 = l
  BY <1>1
<1>7. Chain(cur_bb, all)
  BY <1>5, <1>6 DEF Chain
<1>8. At(cur_bb, all, l + 1) = all[l + 1].node
  BY <1>1 DEF At
<1>. QED  BY <1>1, <1>7, <1>8 DEF l, all

\* A refresh when the block is entered.
LEMMA EnterRefresh ==
  ASSUME JInv, pc = "run", todo = 0, NEW b \in Blocks
  PROVE  RefreshAll(Refreshed([bb_cache EXCEPT ![bb_ptr] = b]), DueWith(b), Entries + 1, RefsOf(b))
<1>1. Types /\ GhostTypes /\ DueInv /\ MemInv /\ NodeInv
  BY DEF JInv
<1>2. Holds(FirstMoved([bb_cache EXCEPT ![bb_ptr] = b]), DueWith(b), Entries + 1)
  BY <1>1, EnterHolds
<1>3. due # <<>> /\ Len(due) = Entries + 1 /\ Entries \in Nat
  <2>1. Len(<<>>) = 0
    OBVIOUS
  <2>. QED  BY <1>1, <2>1, EntriesFacts
<1>4. whole => \E o : Stored(mem_cache, mem_ptr, DueWith(b), o, RefsOf(b))
  BY <1>1, <1>3, EnterStored DEF MemInv
<1>5. DueWith(b)[Entries + 1 + 1].refs = <<>>
  BY <1>1, <1>3, DueWithFacts
<1>6. OnPath => Chain(cur_bb, DueWith(b))
  BY <1>1, <1>3, EnterPath DEF NodeInv, OnPath
<1>7. RefsOf(b) \in Nat
  <2>1. b \in Keys
    BY DEF Keys
  <2>. QED  BY <2>1, RefsOfType
<1>. QED  BY <1>1, <1>2, <1>4, <1>5, <1>6, <1>7, RefreshDoes

----------------------------------------------------------------------------
(* What a refreshing step establishes. *)

\* The callbacks are in order, the last block alone stays due, and its references are
\* stored.
LEMMA AfterRefresh ==
  ASSUME Types, GhostTypes, NEW all \in Seq(Due), NEW m \in Nat, Len(all) = m + 1,
         NEW rest \in Nat, NEW r, RefreshAll(r, all, m, rest), m = 0 => bb_ptr \in {0, 1},
         whole /\ ~ returned => cur_bb = all[1].node,
         RefreshTo(r), out' = r.cbs, pc' = r.pc, Report(all),
         whole' => whole /\ todo' = rest, ~ returned' => ~ returned
  PROVE  /\ due' \in Seq(Due) /\ expect' \in Seq(Due)
         /\ CallbacksInOrder'
         /\ pc' = "run" => /\ due' = <<all[m + 1]>> /\ pre_bb' = all[m + 1].key
                           /\ Entries' = 0 /\ Holds(bb_cache, due, Entries)'
         /\ MemInv'
<1>1. /\ RefreshTypes(r) /\ RefreshKeys(r, all, m)
      /\ whole =>
           /\ \A i \in 1 .. Len(r.cbs) : RefsMatch(r.cbs[i].refs, all[i].refs)
           /\ r.pc = "run" => \E o : Stored(r.mem_cache, r.mem_ptr, <<all[m + 1]>>, o, rest)
      /\ OnPath => \A i \in 1 .. m : r.cbs[i].node = At(cur_bb, all, i)
  BY DEF RefreshAll
<1>. DEFINE k == Len(r.cbs)
<1>2. /\ r.cbs \in Seq(Callback) /\ k \in Nat /\ k <= m
      /\ \A i \in 1 .. k : r.cbs[i].key = all[i].key
      /\ r.pc = "run" => k = m /\ r.pre_bb = all[m + 1].key /\ Filled(r.bb_cache, 0)
                         /\ r.bb_ptr = (IF m = 0 THEN bb_ptr ELSE 1)
  BY <1>1, LenProperties DEF RefreshTypes, RefreshKeys
<1>3. /\ expect' = SubSeq(all, 1, k) /\ due' = SubSeq(all, k + 1, Len(all))
  BY DEF Report
<1>4. k \in 0 .. Len(all)
  BY <1>2
<1>5. /\ expect' \in Seq(Due) /\ due' \in Seq(Due) /\ Len(expect') = k
      /\ \A i \in 1 .. k : expect'[i] = all[i]
      /\ k + 1 = Len(all) => due' = <<all[Len(all)]>>
  <2>. DEFINE e == SubSeq(all, 1, k)
              d == SubSeq(all, k + 1, Len(all))
  <2>. HIDE DEF k
  <2>1. /\ e \in Seq(Due) /\ d \in Seq(Due) /\ Len(e) = k
        /\ \A i \in 1 .. k : e[i] = all[i]
        /\ k + 1 = Len(all) => d = <<all[Len(all)]>>
    BY <1>4, ReportFacts
  <2>. HIDE DEF e, d
  <2>2. expect' = e /\ due' = d
    BY <1>3 DEF e, d
  <2>. QED  BY <2>1, <2>2
<1>6. all[m + 1] \in Due
  <2>1. m + 1 \in 1 .. Len(all)
    OBVIOUS
  <2>. QED  BY <2>1, ElementOfSeq
<1>. HIDE DEF k
<1>7. CallbacksInOrder'
  <2>1. SUFFICES ASSUME whole'
                 PROVE  /\ Len(out') = Len(expect')
                        /\ \A i \in 1 .. Len(out') :
                             /\ out'[i].key = expect'[i].key
                             /\ RefsMatch(out'[i].refs, expect'[i].refs)
                             /\ ~ returned' => out'[i].node = expect'[i].node
    BY DEF CallbacksInOrder, RefsMatch
  <2>2. whole
    BY <2>1
  <2>3. Len(out') = k /\ Len(expect') = k
    BY <1>5 DEF k
  <2>4. ASSUME NEW i \in 1 .. k
        PROVE  /\ out'[i].key = expect'[i].key
               /\ RefsMatch(out'[i].refs, expect'[i].refs)
               /\ ~ returned' => out'[i].node = expect'[i].node
    <3>1. out'[i] = r.cbs[i] /\ expect'[i] = all[i] /\ i \in 1 .. m
      BY <1>2, <1>5
    <3>2. RefsMatch(r.cbs[i].refs, all[i].refs)
      BY <1>1, <2>2 DEF k
    <3>3. ASSUME ~ returned' PROVE r.cbs[i].node = all[i].node
      <4>1. OnPath /\ cur_bb = all[1].node
        BY <2>2, <3>3 DEF OnPath
      <4>2. r.cbs[i].node = At(cur_bb, all, i)
        BY <1>1, <3>1, <4>1
      <4>. QED  BY <4>1, <4>2 DEF At
    <3>. QED  BY <1>2, <3>1, <3>2, <3>3
  <2>. QED  BY <2>3, <2>4
<1>8. ASSUME pc' = "run"
      PROVE  /\ due' = <<all[m + 1]>> /\ pre_bb' = all[m + 1].key
             /\ Entries' = 0 /\ Holds(bb_cache, due, Entries)'
  <2>1. due' = <<all[m + 1]>>
    BY <1>2, <1>5, <1>8
  <2>2. pre_bb' = all[m + 1].key /\ bb_cache' = r.bb_cache /\ bb_ptr' \in {0, 1}
    BY <1>2, <1>8 DEF RefreshTo
  <2>3. Entries' = 0
    BY <2>2 DEF Entries
  <2>4. /\ bb_cache' \in [Index -> Blocks \cup {NULL}] /\ Filled(bb_cache', 0)
    BY <1>1, <1>2, <1>8, <2>2 DEF RefreshTypes
  <2>5. 0 \in Index
    BY CacheSizesAssumption DEF Index
  <2>6. /\ Len(due') = 0 + 1 /\ \A i \in 1 .. 0 + 1 : i = 1
        /\ due'[1].key = all[m + 1].key
    BY <2>1
  <2>7. \A i \in 1 .. 0 + 1 : due'[i].key = KeyAt(bb_cache, i)'
    BY <2>2, <2>6 DEF KeyAt
  <2>8. Holds(bb_cache, due, Entries)'
    BY <1>5, <2>3, <2>4, <2>5, <2>6, <2>7 DEF Holds, Filled
  <2>. QED  BY <2>1, <2>2, <2>3, <2>8
<1>9. MemInv'
  <2>1. SUFFICES ASSUME pc' = "run", whole'
                 PROVE  /\ \E off : Stored(mem_cache', mem_ptr', due', off, todo')
                        /\ MemAddr => mem_ptr' + todo' < MemMax
    BY DEF MemInv, Stored, RefsOf
  <2>2. PICK o : Stored(r.mem_cache, r.mem_ptr, <<all[m + 1]>>, o, rest)
    BY <1>1, <2>1
  <2>3. /\ mem_cache' = r.mem_cache /\ mem_ptr' = r.mem_ptr /\ todo' = rest
        /\ due' = <<all[m + 1]>>
    BY <1>8, <2>1 DEF RefreshTo
  <2>4. Stored(mem_cache', mem_ptr', due', o, todo')
    BY <2>2, <2>3
  <2>5. MemAddr => r.mem_ptr + rest < MemMax
    BY <1>6, <2>2, StoredFits
  <2>. QED  BY <2>3, <2>4, <2>5
<1>. QED  BY <1>5, <1>7, <1>8, <1>9

\* When the node of the last block is kept, the path goes on from it.
LEMMA AfterNode ==
  ASSUME Types, NEW all \in Seq(Due), NEW m \in Nat, Len(all) = m + 1,
         NEW rest, NEW r, RefreshAll(r, all, m, rest), cur_bb' = r.cur_bb,
         pc' = "run" => due' = <<all[m + 1]>>,
         OnPath' => OnPath, whole' /\ ~ returned' => whole /\ ~ returned,
         whole /\ ~ returned => cur_bb = all[1].node,
         OnPath' =>
           /\ Caller(At(cur_bb, all, m + 1), all[m + 1].key) = Program!CallsNow(ctx'[T])
           /\ ctx'[T].last # NULL =>
                At(cur_bb, all, m + 1) = Append(ctx'[T].calls, ctx'[T].last)
  PROVE  NodeInv' /\ (OnPath => r.pc = "run")
<1>1. OnPath => r.pc = "run" /\ r.cur_bb = At(cur_bb, all, m + 1)
  BY DEF RefreshAll
<1>2. ASSUME pc' = "run", OnPath' PROVE PathInv'
  <2>1. due' = <<all[m + 1]>> /\ cur_bb' = At(cur_bb, all, m + 1)
    BY <1>1, <1>2
  <2>2. Len(due') = 1 /\ due'[1] = all[m + 1] /\ 1 .. 1 - 1 = {}
    BY <2>1
  <2>3. Chain(cur_bb', due')
    BY <2>2 DEF Chain
  <2>4. NodeNow' = cur_bb'
    BY <2>2 DEF NodeNow, At
  <2>5. /\ Caller(NodeNow', due'[1].key) = Program!CallsNow(ctx'[T])
        /\ ctx'[T].last # NULL => NodeNow' = Append(ctx'[T].calls, ctx'[T].last)
    BY <1>2, <2>1, <2>2, <2>4
  <2>. QED  BY <2>2, <2>3, <2>5 DEF PathInv, Chain, At, Caller, ParentOf, Program!CallsNow
<1>3. ASSUME pc' = "run", whole', ~ returned' PROVE cur_bb' = due'[1].node
  <2>1. due'[1] = all[m + 1] /\ OnPath /\ cur_bb' = At(cur_bb, all, m + 1) /\ cur_bb = all[1].node
    BY <1>1, <1>3 DEF OnPath
  <2>. QED  BY <2>1 DEF At
<1>. QED  BY <1>1, <1>2, <1>3 DEF NodeInv, OnPath

----------------------------------------------------------------------------
(* The steps. *)

\* The references of a block fit the cache.
LEMMA RefsOfFit ==
  ASSUME NEW b \in Blocks
  PROVE  /\ RefsOf(b) \in 0 .. MemMax /\ RefsOf(b) <= RefNum[b] /\ RefsOf(b) < MemMax
         /\ RefsOf(b) > 0 => MemAddr
         /\ RefNum[b] \in Nat /\ RefNum[b] + 1 < MemMax /\ MemMax \in Nat
<1>1. RefNum[b] \in Nat /\ RefNum[b] + 1 < MemMax /\ MemMax \in Nat
  BY CacheBlocksAssumption, CacheSizesAssumption
<1>. QED  BY <1>1 DEF RefsOf

\* No callback: none was due.
LEMMA NoCallback ==
  ASSUME NEW all \in Seq(Due), Report(all), out' = <<>>
  PROVE  due' = all /\ expect' = <<>> /\ expect' \in Seq(Due) /\ CallbacksInOrder'
<1>1. Len(out') = 0 /\ 0 \in 0 .. Len(all)
  BY LenProperties
<1>2. expect' = SubSeq(all, 1, 0) /\ due' = SubSeq(all, 0 + 1, Len(all))
  BY <1>1 DEF Report
<1>3. expect' \in Seq(Due) /\ Len(expect') = 0 /\ due' = all
  BY <1>1, <1>2, ReportFacts
<1>4. expect' = <<>>
  BY <1>3, EmptySeq
<1>5. CallbacksInOrder'
  BY <1>1, <1>3 DEF CallbacksInOrder
<1>. QED  BY <1>3, <1>4, <1>5

\* The program's call stack when it enters a block.
LEMMA EnterGhost ==
  ASSUME GhostTypes, NEW b \in Blocks, Program!Enter(T, b)
  PROVE  /\ ctx' \in [{T} -> Contexts] /\ ctx'[T] \in Contexts /\ saved' = saved
         /\ ctx'[T].calls = Program!CallsNow(ctx[T]) /\ ctx'[T].last = b /\ b # NULL
         /\ Caller(Append(Program!CallsNow(ctx[T]), b), b) = Program!CallsNow(ctx'[T])
<1>. DEFINE x == [calls |-> Program!CallsNow(ctx[T]), last |-> b]
<1>1. ctx \in [{T} -> Contexts] /\ ctx[T] \in Contexts
  BY DEF GhostTypes
<1>2. ctx' = [ctx EXCEPT ![T] = x] /\ saved' = saved
  BY DEF Program!Enter
<1>3. x \in Contexts /\ x.calls = Program!CallsNow(ctx[T]) /\ x.last = b
  BY <1>1, CallsNowType DEF Contexts
<1>. HIDE DEF x
<1>4. ctx' \in [{T} -> Contexts] /\ ctx'[T] = x
  BY <1>1, <1>2, <1>3
<1>5. Caller(Append(x.calls, x.last), x.last) = Program!CallsNow(x)
  BY <1>3, KeyFacts, CallerFollows
<1>. QED  BY <1>2, <1>3, <1>4, <1>5, KeyFacts

\* A block is entered, and its entry only stored.
LEMMA EnterStores ==
  ASSUME JInv, NEW b \in Blocks, ProgramEnter(b), ~ CallNeeded(b),
         bb_cache' = [bb_cache EXCEPT ![bb_ptr] = b], bb_ptr' = bb_ptr + 1, out' = <<>>,
         UNCHANGED <<mem_cache, mem_ptr, place, pc>>
  PROVE  JInv'
<1>1. Types /\ GhostTypes /\ DueInv /\ MemInv /\ NodeInv /\ SlotInv /\ EndInv
  BY DEF JInv
<1>2. /\ pc = "run" /\ todo = 0 /\ todo' = RefsOf(b) /\ sig_ran' = TRUE
      /\ UNCHANGED <<sig_bb, sig_depth, whole, returned, plain>>
      /\ Program!Enter(T, b) /\ Report(DueWith(b))
  BY DEF ProgramEnter, Enter
<1>3. /\ cur_bb' = cur_bb /\ pre_bb' = pre_bb /\ pc' = pc
      /\ mem_cache' = mem_cache /\ mem_ptr' = mem_ptr
  BY DEF place
<1>4. /\ ctx' \in [{T} -> Contexts] /\ ctx'[T] \in Contexts /\ saved' = saved
      /\ ctx'[T].calls = Program!CallsNow(ctx[T]) /\ ctx'[T].last = b /\ b # NULL
      /\ Caller(Append(Program!CallsNow(ctx[T]), b), b) = Program!CallsNow(ctx'[T])
  BY <1>1, <1>2, EnterGhost
<1>5. /\ Entries \in Nat /\ Len(due) = Entries + 1 /\ due \in Seq(Due)
      /\ (bb_ptr # 0 => Entries = bb_ptr - 1)
      /\ bb_cache[0] = NULL /\ BBMax \in Nat /\ BBMax >= 2 /\ bb_ptr \in 0 .. BBMax - 1
  BY <1>1, <1>2, EntriesFacts
<1>6. bb_ptr # 0 /\ bb_ptr + 1 # BBMax /\ (MemAddr => mem_ptr + 1 + RefNum[b] < MemMax)
  <2>1. bb_ptr + 1 # 1 /\ bb_ptr + 1 # BBMax /\ ~ MemFull(b)
    BY DEF CallNeeded
  <2>2. mem_ptr \in Nat /\ RefNum[b] \in Nat /\ MemMax \in Nat
    BY <1>1, RefsOfFit DEF Types
  <2>. QED  BY <1>5, <2>1, <2>2 DEF MemFull
<1>7. /\ DueWith(b) \in Seq(Due) /\ Len(DueWith(b)) = Len(due) + 1
      /\ \A i \in 1 .. Len(due) : DueWith(b)[i] = due[i]
      /\ DueWith(b)[Len(due) + 1].key = b
  BY <1>1, DueWithFacts
<1>8. due' = DueWith(b) /\ expect' \in Seq(Due) /\ CallbacksInOrder'
  BY <1>2, <1>7, NoCallback
<1>9. Types'
  <2>1. bb_cache' \in [Index -> Blocks \cup {NULL}] /\ bb_ptr' \in Index
    BY <1>1, <1>5, <1>6 DEF Types, Index
  <2>2. todo' \in 0 .. MemMax /\ out' \in Seq(Callback)
    BY <1>2, RefsOfFit, EmptySeq
  <2>. QED  BY <1>1, <1>2, <1>3, <2>1, <2>2 DEF Types
<1>10. GhostTypes'
  BY <1>1, <1>2, <1>4, <1>7, <1>8 DEF GhostTypes
<1>11. DueInv'
  <2>1. Entries' = Entries + 1
    BY <1>5, <1>6 DEF Entries
  <2>2. FirstMoved(bb_cache') = bb_cache'
    <3>1. bb_cache'[0] = NULL
      BY <1>1, <1>5, <1>6 DEF Types, Index
    <3>. QED  BY <3>1 DEF FirstMoved
  <2>3. Holds(bb_cache', due', Entries')
    BY <1>1, <1>2, <1>8, <2>1, <2>2, EnterHolds
  <2>4. Holds(bb_cache, due, Entries)'
    BY <1>3, <2>3 DEF Holds, KeyAt, Filled
  <2>5. due'[Len(due')].key = b
    BY <1>7, <1>8
  <2>6. todo' > 0 => todo' <= RefNum[b] /\ MemAddr
    BY <1>2, RefsOfFit
  <2>. QED  BY <1>4, <2>4, <2>5, <2>6 DEF DueInv
<1>12. MemInv'
  <2>1. due # <<>>
    BY <1>5
  <2>2. whole => \E o : Stored(mem_cache, mem_ptr, DueWith(b), o, RefsOf(b))
    BY <1>1, <1>2, <2>1, EnterStored DEF MemInv
  <2>3. MemAddr => mem_ptr + RefsOf(b) < MemMax
    <3>1. mem_ptr \in Nat
      BY <1>1 DEF Types
    <3>. QED  BY <1>6, <3>1, RefsOfFit
  <2>4. whole' => \E o : Stored(mem_cache', mem_ptr', due', o, todo')
    BY <1>2, <1>3, <1>8, <2>2
  <2>5. MemAddr => mem_ptr' + todo' < MemMax
    BY <1>2, <1>3, <2>3
  <2>. QED  BY <2>4, <2>5 DEF MemInv, Stored, RefsOf
<1>13. NodeInv'
  <2>1. ASSUME PathInv PROVE PathInv'
    <3>1. /\ Chain(cur_bb, DueWith(b))
          /\ At(cur_bb, DueWith(b), Len(due) + 1) = Append(Program!CallsNow(ctx[T]), b)
      BY <1>1, <1>5, <2>1, EnterPath
    <3>2. Len(due') = Len(due) + 1 /\ due'[Len(due')].key = b
      BY <1>7, <1>8
    <3>3. NodeNow' = Append(Program!CallsNow(ctx[T]), b)
      BY <1>3, <1>8, <3>1, <3>2 DEF NodeNow, At
    <3>4. Chain(cur_bb', due')
      BY <1>3, <1>8, <3>1
    <3>5. Caller(NodeNow', due'[Len(due')].key) = Program!CallsNow(ctx'[T])
      BY <1>4, <3>2, <3>3
    <3>6. NodeNow' = Append(ctx'[T].calls, ctx'[T].last)
      BY <1>4, <3>3
    <3>. QED  BY <3>4, <3>5, <3>6 DEF PathInv, Chain, At, Caller, ParentOf, Program!CallsNow
  <2>2. whole /\ ~ returned => cur_bb' = due'[1].node
    BY <1>1, <1>2, <1>3, <1>5, <1>7, <1>8 DEF NodeInv
  <2>. QED  BY SMTT(60), <1>1, <1>2, <2>1, <2>2 DEF NodeInv
<1>14. SlotInv' /\ EndInv'
  BY <1>1, <1>2, <1>3, <1>4 DEF SlotInv, EndInv
<1>. QED  BY <1>8, <1>9, <1>10, <1>11, <1>12, <1>13, <1>14 DEF JInv

\* The types after a refresh.
LEMMA RefreshedTypes ==
  ASSUME Types, NEW r, RefreshTypes(r), RefreshTo(r), out' = r.cbs, cur_bb' \in Nodes,
         pc' \in {"run", "ended", "crash"}, todo' \in 0 .. MemMax,
         sig_bb' \in Nodes \cup {NULL}, sig_depth' \in 0 .. SigMax, sig_ran' \in BOOLEAN,
         sig_depth' > 0 => sig_bb' # NULL
  PROVE  Types'
BY DEF Types, RefreshTypes, RefreshTo

\* A block is entered, and its entry calls the refresh.
LEMMA EnterCalls ==
  ASSUME JInv, NEW b \in Blocks, ProgramEnter(b),
         NEW r, r = Refreshed([bb_cache EXCEPT ![bb_ptr] = b]),
         RefreshTo(r), cur_bb' = r.cur_bb, out' = r.cbs, pc' = r.pc
  PROVE  JInv'
<1>. DEFINE all == DueWith(b)
            m == Entries + 1
<1>1. Types /\ GhostTypes /\ DueInv /\ MemInv /\ NodeInv /\ SlotInv /\ EndInv
  BY DEF JInv
<1>2. /\ pc = "run" /\ todo = 0 /\ todo' = RefsOf(b) /\ sig_ran' = TRUE
      /\ UNCHANGED <<sig_bb, sig_depth, whole, returned, plain>>
      /\ Program!Enter(T, b) /\ Report(all)
  BY DEF ProgramEnter, Enter
<1>3. RefreshAll(r, all, m, RefsOf(b))
  BY <1>2, EnterRefresh
<1>4. /\ ctx' \in [{T} -> Contexts] /\ ctx'[T] \in Contexts /\ saved' = saved
      /\ ctx'[T].calls = Program!CallsNow(ctx[T]) /\ ctx'[T].last = b /\ b # NULL
      /\ Caller(Append(Program!CallsNow(ctx[T]), b), b) = Program!CallsNow(ctx'[T])
  BY <1>1, <1>2, EnterGhost
<1>5. Entries \in Nat /\ Len(due) = Entries + 1 /\ due # <<>>
  <2>1. Entries \in Nat /\ Len(due) = Entries + 1
    BY <1>1, <1>2, EntriesFacts
  <2>. QED  BY <2>1
<1>6. /\ all \in Seq(Due) /\ Len(all) = m + 1 /\ all[1] = due[1] /\ all[m + 1].key = b
      /\ m \in Nat /\ m # 0
  BY <1>1, <1>5, DueWithFacts
<1>7. whole /\ ~ returned => cur_bb = all[1].node
  BY <1>1, <1>2, <1>6 DEF NodeInv
<1>8. RefsOf(b) \in Nat /\ RefsOf(b) \in 0 .. MemMax
  BY RefsOfFit
<1>9. OnPath => At(cur_bb, all, m + 1) = Append(Program!CallsNow(ctx[T]), b)
  BY <1>1, <1>2, <1>5, EnterPath DEF NodeInv, OnPath
<1>10. RefreshTypes(r)
  BY <1>3 DEF RefreshAll
<1>. HIDE DEF all, m
<1>11. /\ due' \in Seq(Due) /\ expect' \in Seq(Due) /\ CallbacksInOrder'
       /\ pc' = "run" => /\ due' = <<all[m + 1]>>
                         /\ Entries' = 0 /\ Holds(bb_cache, due, Entries)'
       /\ MemInv'
  BY <1>1, <1>2, <1>3, <1>6, <1>7, <1>8, AfterRefresh
<1>12. NodeInv' /\ (OnPath => r.pc = "run")
  <2>1. (OnPath' <=> OnPath) /\ (whole' /\ ~ returned' => whole /\ ~ returned)
    BY <1>2 DEF OnPath
  <2>2. OnPath =>
          /\ Caller(At(cur_bb, all, m + 1), all[m + 1].key) = Program!CallsNow(ctx'[T])
          /\ ctx'[T].last # NULL =>
               At(cur_bb, all, m + 1) = Append(ctx'[T].calls, ctx'[T].last)
    BY <1>4, <1>6, <1>9
  <2>. QED  BY <1>1, <1>3, <1>6, <1>7, <1>11, <2>1, <2>2, AfterNode
<1>13. Types'
  <2>1. r.cur_bb \in Nodes /\ r.pc \in {"run", "crash"}
    BY <1>10 DEF RefreshTypes
  <2>. QED  BY <1>1, <1>2, <1>8, <1>10, <2>1, RefreshedTypes DEF Types
<1>14. GhostTypes'
  BY <1>1, <1>2, <1>4, <1>11 DEF GhostTypes
<1>15. DueInv'
  <2>1. SUFFICES ASSUME pc' = "run"
                 PROVE  /\ Holds(bb_cache, due, Entries)'
                        /\ due'[Len(due')].key = ctx'[T].last
                        /\ todo' > 0 => todo' <= RefNum[ctx'[T].last] /\ MemAddr
    BY <1>4 DEF DueInv, Holds, KeyAt, Filled, Entries
  <2>2. due'[Len(due')].key = b
    <3>1. due' = <<all[m + 1]>>
      BY <1>11, <2>1
    <3>. QED  BY <1>6, <3>1
  <2>. QED  BY <1>2, <1>4, <1>11, <2>1, <2>2, RefsOfFit
<1>16. SlotInv' /\ EndInv'
  <2>1. pc' # "ended"
    BY <1>10 DEF RefreshTypes
  <2>2. plain' => pc' = "run"
    BY <1>2, <1>12 DEF OnPath
  <2>. QED  BY <1>1, <1>2, <1>4, <2>1, <2>2 DEF SlotInv, EndInv
<1>. QED  BY <1>11, <1>12, <1>13, <1>14, <1>15, <1>16 DEF JInv

\* The newest block with one more reference.
LEMMA DueRefFacts ==
  ASSUME due \in Seq(Due), due # <<>>, NEW x \in Refs
  PROVE  LET l == Len(due)  new == DueRef(x) IN
         /\ new \in Seq(Due) /\ Len(new) = l /\ l \in Nat /\ l # 0
         /\ \A i \in 1 .. l : i # l => new[i] = due[i]
         /\ new[l].key = due[l].key /\ new[l].node = due[l].node
         /\ new[l].refs = Append(due[l].refs, x)
         /\ due[l].refs \in Seq(Refs) /\ due[l].key \in Keys
<1>. DEFINE l == Len(due)
            d == [due[l] EXCEPT !.refs = Append(@, x)]
<1>1. l \in Nat /\ l # 0 /\ l \in 1 .. l /\ due[l] \in Due
  <2>1. l \in Nat /\ l # 0
    BY EmptySeq, LenProperties
  <2>. QED  BY <2>1, ElementOfSeq
<1>2. due[l].refs \in Seq(Refs) /\ due[l].key \in Keys /\ due[l].node \in Nodes
  BY <1>1 DEF Due
<1>3. Append(due[l].refs, x) \in Seq(Refs)
  BY <1>2, AppendProperties
<1>4. /\ d \in Due /\ d.key = due[l].key /\ d.node = due[l].node
      /\ d.refs = Append(due[l].refs, x)
  BY <1>1, <1>3 DEF Due
<1>5. DueRef(x) = [due EXCEPT ![l] = d]
  BY <1>1 DEF DueRef
<1>. HIDE DEF d
<1>6. due \in [1 .. l -> Due] /\ DOMAIN due = 1 .. l
  BY LenProperties
<1>7. /\ DueRef(x) \in Seq(Due) /\ Len(DueRef(x)) = l
  <2>1. DueRef(x) \in [1 .. l -> Due]
    BY <1>1, <1>4, <1>5, <1>6
  <2>. HIDE DEF l
  <2>. QED  BY <1>1, <2>1
<1>8. DueRef(x)[l] = d /\ \A i \in 1 .. l : i # l => DueRef(x)[i] = due[i]
  BY <1>1, <1>5, <1>6
<1>. QED  BY <1>1, <1>2, <1>4, <1>7, <1>8

\* It lies in the cache where the pointer is.
LEMMA RefStored ==
  ASSUME Types, due \in Seq(Due), due # <<>>, NEW x \in Refs, MemAddr,
         NEW off, Stored(mem_cache, mem_ptr, due, off, todo), todo > 0,
         mem_ptr + todo < MemMax
  PROVE  Stored([mem_cache EXCEPT ![mem_ptr] = x], mem_ptr + 1, DueRef(x), off, todo - 1)
<1>. DEFINE l == Len(due)
            new == DueRef(x)
            mem == [mem_cache EXCEPT ![mem_ptr] = x]
<1>1. /\ new \in Seq(Due) /\ Len(new) = l /\ l \in Nat /\ l # 0
      /\ \A i \in 1 .. l : i # l => new[i] = due[i]
      /\ new[l].key = due[l].key
      /\ new[l].refs = Append(due[l].refs, x)
      /\ due[l].refs \in Seq(Refs)
  BY DueRefFacts
<1>2. /\ Len(new[l].refs) = Len(due[l].refs) + 1 /\ Len(due[l].refs) \in Nat
      /\ new[l].refs[Len(due[l].refs) + 1] = x
      /\ \A i \in 1 .. Len(due[l].refs) : new[l].refs[i] = due[l].refs[i]
  BY <1>1, AppendProperties, LenProperties
<1>3. /\ off \in [1 .. l -> Nat] /\ off[1] = 0
      /\ \A k \in 1 .. l - 1 :
           off[k + 1] = off[k] + RefsOf(due[k].key) /\ Len(due[k].refs) = RefsOf(due[k].key)
      /\ \A k \in 1 .. l : off[k] + Len(due[k].refs) <= mem_ptr
      /\ mem_ptr = off[l] + Len(due[l].refs) /\ Len(due[l].refs) + todo = RefsOf(due[l].key)
  BY DEF Stored
<1>4. /\ \A k \in 1 .. l : \A i \in 1 .. Len(due[k].refs) :
           /\ mem_cache[off[k] + i - 1] \in {due[k].refs[i], NULL}
           /\ k # 1 => mem_cache[off[k] + i - 1] = due[k].refs[i]
      /\ \A i \in mem_ptr .. MemMax - 1 : mem_cache[i] = NULL
  BY DEF Stored
<1>5. /\ mem_ptr \in Nat /\ todo \in Nat /\ MemMax \in Nat
      /\ mem_cache \in [0 .. MemMax - 1 -> Refs \cup {NULL}]
  BY CacheSizesAssumption DEF Types
<1>6. mem[mem_ptr] = x /\ \A i \in 0 .. MemMax - 1 : i # mem_ptr => mem[i] = mem_cache[i]
  <2>1. mem_ptr \in 0 .. MemMax - 1
    BY <1>5
  <2>. QED  BY <1>5, <2>1
<1>. DEFINE n == Len(due[l].refs)
<1>. HIDE DEF new, mem, l
<1>7. /\ mem_ptr = off[l] + n /\ off[l] \in Nat /\ n \in Nat /\ Len(new[l].refs) = n + 1
      /\ n + todo = RefsOf(new[l].key)
  BY <1>1, <1>2, <1>3
<1>. HIDE DEF n
<1>8. ASSUME NEW k \in 1 .. l - 1
      PROVE  off[k + 1] = off[k] + RefsOf(new[k].key) /\ Len(new[k].refs) = RefsOf(new[k].key)
  <2>1. k \in 1 .. l /\ k # l
    BY <1>1
  <2>2. new[k] = due[k]
    BY <1>1, <2>1
  <2>. QED  BY <1>3, <2>2
<1>9. ASSUME NEW k \in 1 .. l PROVE off[k] + Len(new[k].refs) <= mem_ptr + 1
  <2>1. off[k] \in Nat
    BY <1>3
  <2>2. CASE k = l
    BY Z3T(60), <1>7, <1>5, <2>2
  <2>3. CASE k # l
    <3>1. new[k] = due[k] /\ off[k] + Len(due[k].refs) <= mem_ptr
      BY <1>1, <1>3, <2>3
    <3>2. Len(due[k].refs) \in Nat
      <4>1. k \in 1 .. l - 1
        BY <1>1, <2>3
      <4>2. due[k] \in Due
        BY <1>1, ElementOfSeq DEF l
      <4>. QED  BY <4>2, LenProperties DEF Due
    <3>. QED  BY <1>5, <2>1, <3>1, <3>2
  <2>. QED  BY <2>2, <2>3
<1>10. ASSUME NEW k \in 1 .. l, NEW i \in 1 .. Len(new[k].refs)
      PROVE  /\ mem[off[k] + i - 1] \in {new[k].refs[i], NULL}
             /\ k # 1 => mem[off[k] + i - 1] = new[k].refs[i]
  <2>1. off[k] \in Nat
    BY <1>3
  <2>2. CASE k = l /\ i = Len(due[l].refs) + 1
    <3>1. off[k] + i - 1 = mem_ptr
      BY <1>2, <1>3, <2>1, <2>2
    <3>. QED  BY <1>2, <1>6, <2>2, <3>1
  <2>3. CASE ~ (k = l /\ i = Len(due[l].refs) + 1)
    <3>1. i \in 1 .. Len(due[k].refs) /\ new[k].refs[i] = due[k].refs[i]
      <4>1. CASE k = l
        BY <1>2, <2>3, <4>1
      <4>2. CASE k # l
        BY <1>1, <4>2
      <4>. QED  BY <4>1, <4>2
    <3>2. off[k] + Len(due[k].refs) <= mem_ptr
      BY <1>3
    <3>3. Len(due[k].refs) \in Nat
      <4>1. due[k] \in Due
        BY <1>1, ElementOfSeq DEF l
      <4>. QED  BY <4>1, LenProperties DEF Due
    <3>4. off[k] + i - 1 \in 0 .. MemMax - 1 /\ off[k] + i - 1 # mem_ptr
      <4>. DEFINE q == Len(due[k].refs)
                  o == off[k]
      <4>1. o \in Nat /\ q \in Nat /\ o + q <= mem_ptr /\ i \in 1 .. q
        BY <2>1, <3>1, <3>2, <3>3
      <4>2. mem_ptr < MemMax
        BY <1>5
      <4>. HIDE DEF q, o
      <4>3. o + i - 1 \in 0 .. MemMax - 1 /\ o + i - 1 # mem_ptr
        BY <1>5, <4>1, <4>2
      <4>. QED  BY <4>3 DEF o
    <3>5. mem[off[k] + i - 1] = mem_cache[off[k] + i - 1]
      BY <1>6, <3>4
    <3>. QED  BY <1>4, <3>1, <3>5
  <2>. QED  BY <2>2, <2>3
<1>11. ASSUME NEW i \in mem_ptr + 1 .. MemMax - 1 PROVE mem[i] = NULL
  <2>1. i \in 0 .. MemMax - 1 /\ i # mem_ptr /\ i \in mem_ptr .. MemMax - 1
    BY <1>5
  <2>. QED  BY <1>4, <1>6, <2>1
<1>12. /\ mem_ptr + 1 = off[l] + Len(new[l].refs)
       /\ Len(new[l].refs) + (todo - 1) = RefsOf(new[l].key)
       /\ mem_ptr + 1 < MemMax
  <2>. DEFINE o == off[l]
  <2>1. o \in Nat /\ n \in Nat /\ mem_ptr = o + n
    BY <1>7
  <2>2. mem_ptr + 1 < MemMax
    BY <1>5
  <2>. HIDE DEF o
  <2>3. n + 1 + (todo - 1) = n + todo /\ mem_ptr + 1 = o + (n + 1)
    BY <1>5, <2>1
  <2>. QED  BY <1>7, <2>2, <2>3 DEF o
<1>13. Stored(mem, mem_ptr + 1, new, off, todo - 1)
  BY <1>1, <1>3, <1>8, <1>9, <1>10, <1>11, <1>12 DEF Stored
<1>. QED  BY <1>13 DEF mem, new

\* A reference is made.
LEMMA RefMade ==
  ASSUME JInv, ProgramRef
  PROVE  JInv'
<1>. DEFINE b == ctx[T].last
            x == <<b, RefNum[b] - todo + 1>>
            l == Len(due)
            new == DueRef(x)
<1>1. Types /\ GhostTypes /\ DueInv /\ MemInv /\ NodeInv /\ SlotInv /\ EndInv
  BY DEF JInv
<1>2. /\ pc = "run" /\ todo > 0 /\ mem_cache' = [mem_cache EXCEPT ![mem_ptr] = x]
      /\ mem_ptr' = mem_ptr + 1 /\ todo' = todo - 1 /\ out' = <<>> /\ Report(new)
      /\ UNCHANGED <<bb_cache, bb_ptr, cur_bb, pre_bb, sig_bb, sig_depth, sig_ran, pc>>
      /\ UNCHANGED <<ctx, saved, whole, returned, plain>>
  BY DEF ProgramRef, MakeRef, place, signals
<1>3. /\ b # NULL /\ todo <= RefNum[b] /\ MemAddr /\ b \in Blocks /\ due[l].key = b
      /\ Holds(bb_cache, due, Entries)
  BY <1>1, <1>2 DEF DueInv, GhostTypes, Contexts
<1>4. todo \in 0 .. MemMax /\ mem_ptr \in Nat /\ RefNum[b] \in Nat /\ RefNum[b] + 1 < MemMax
      /\ MemMax \in Nat
  BY <1>1, <1>3, RefsOfFit DEF Types
<1>5. x \in Refs
  <2>1. RefNum[b] - todo + 1 \in 1 .. MemMax
    BY SMTT(60), <1>2, <1>3, <1>4
  <2>. QED  BY <1>3, <2>1 DEF Refs
<1>6. due \in Seq(Due) /\ due # <<>> /\ Len(due) = Entries + 1
  <2>1. due \in Seq(Due) /\ Len(due) = Entries + 1 /\ Entries \in Nat
    BY <1>1, <1>2, EntriesFacts
  <2>. QED  BY <2>1
<1>. HIDE DEF x
<1>7. /\ new \in Seq(Due) /\ Len(new) = l /\ l \in Nat /\ l # 0
      /\ \A i \in 1 .. l : i # l => new[i] = due[i]
      /\ new[l].key = due[l].key /\ new[l].node = due[l].node
  BY <1>5, <1>6, DueRefFacts
<1>8. /\ due' = new /\ expect' \in Seq(Due) /\ CallbacksInOrder'
  BY <1>2, <1>7, NoCallback
<1>9. \A i \in 1 .. l : new[i].key = due[i].key /\ new[i].node = due[i].node
  BY <1>7
<1>. HIDE DEF new, l, b
<1>10. Types'
  <2>1. mem_cache' \in [0 .. MemMax - 1 -> Refs \cup {NULL}]
    BY <1>1, <1>2, <1>5 DEF Types
  <2>2. mem_ptr' \in Nat /\ todo' \in 0 .. MemMax /\ out' \in Seq(Callback)
    BY <1>2, <1>4, EmptySeq
  <2>. QED  BY <1>1, <1>2, <2>1, <2>2 DEF Types
<1>11. GhostTypes'
  BY <1>1, <1>2, <1>7, <1>8 DEF GhostTypes
<1>12. Len(due') = l /\ Len(due) = l /\ l \in 1 .. l /\ \A k \in 1 .. l : At(cur_bb, due', k) = At(cur_bb, due, k)
  BY <1>7, <1>8, <1>9 DEF l, At
<1>13. DueInv'
  <2>1. Entries' = Entries
    BY <1>2 DEF Entries
  <2>2. Holds(bb_cache, due, Entries)'
    <3>1. \A i \in 1 .. Entries + 1 : due'[i].key = due[i].key
      BY <1>6, <1>8, <1>9, <1>12
    <3>2. due' \in Seq(Due) /\ Len(due') = Entries + 1
      BY <1>6, <1>7, <1>8, <1>12
    <3>. QED  BY <1>2, <1>3, <2>1, <3>1, <3>2 DEF Holds, Filled, KeyAt
  <2>3. due'[Len(due')].key = ctx'[T].last
    BY <1>2, <1>3, <1>7, <1>8, <1>12 DEF b
  <2>4. todo' <= RefNum[ctx'[T].last]
    BY <1>2, <1>3, <1>4 DEF b
  <2>5. ctx'[T].last # NULL
    BY <1>2, <1>3 DEF b
  <2>. QED  BY <1>3, <2>2, <2>3, <2>4, <2>5 DEF DueInv
<1>14. MemInv'
  <2>1. SUFFICES ASSUME whole
                 PROVE  /\ \E off : Stored(mem_cache', mem_ptr', due', off, todo')
                        /\ mem_ptr' + todo' < MemMax
    BY <1>2 DEF MemInv, Stored, RefsOf
  <2>2. mem_ptr + todo < MemMax
    BY <1>1, <1>2, <1>3, <2>1 DEF MemInv
  <2>3. PICK off : Stored(mem_cache, mem_ptr, due, off, todo)
    BY <1>1, <1>2, <2>1 DEF MemInv
  <2>4. Stored([mem_cache EXCEPT ![mem_ptr] = x], mem_ptr + 1, DueRef(x), off, todo - 1)
    BY <1>1, <1>2, <1>3, <1>5, <1>6, <2>2, <2>3, RefStored
  <2>5. Stored(mem_cache', mem_ptr', due', off, todo')
    BY <1>2, <1>8, <2>4 DEF new
  <2>6. mem_ptr' + todo' < MemMax
    BY <1>2, <1>4, <2>2
  <2>. QED  BY <2>5, <2>6
<1>15. NodeInv'
  <2>1. ASSUME PathInv PROVE PathInv'
    <3>1. /\ \A k \in 1 .. l - 1 :
               LET caller == Caller(At(cur_bb, due, k), due[k].key) IN
               caller \in Nodes /\ due[k + 1].node = Append(caller, due[k + 1].key)
          /\ Caller(At(cur_bb, due, l), due[l].key) = Program!CallsNow(ctx[T])
          /\ ctx[T].last # NULL => At(cur_bb, due, l) = Append(ctx[T].calls, ctx[T].last)
      BY <2>1, <1>12 DEF PathInv, Chain, NodeNow
    <3>2. ASSUME NEW k \in 1 .. l - 1
          PROVE  LET caller == Caller(At(cur_bb', due', k), due'[k].key) IN
                 caller \in Nodes /\ due'[k + 1].node = Append(caller, due'[k + 1].key)
      <4>1. k \in 1 .. l /\ k + 1 \in 1 .. l
        BY <1>7
      <4>2. /\ At(cur_bb', due', k) = At(cur_bb, due, k) /\ due'[k].key = due[k].key
            /\ due'[k + 1].key = due[k + 1].key /\ due'[k + 1].node = due[k + 1].node
        BY <1>2, <1>8, <1>9, <1>12, <4>1
      <4>. QED  BY <3>1, <4>2
    <3>3. Chain(cur_bb', due')
      BY <1>12, <3>2 DEF Chain
    <3>4. NodeNow' = At(cur_bb, due, l) /\ due'[Len(due')].key = due[l].key
      BY <1>2, <1>7, <1>8, <1>12 DEF NodeNow, At
    <3>5. /\ Caller(NodeNow', due'[Len(due')].key) = Program!CallsNow(ctx'[T])
          /\ ctx'[T].last # NULL => NodeNow' = Append(ctx'[T].calls, ctx'[T].last)
      BY <1>2, <3>1, <3>4
    <3>. QED  BY <3>3, <3>5 DEF PathInv, Chain, At, Caller, ParentOf, Program!CallsNow
  <2>2. whole /\ ~ returned => cur_bb' = due'[1].node
    <3>1. 1 \in 1 .. l
      BY <1>7
    <3>. QED  BY <1>1, <1>2, <1>8, <1>9, <3>1 DEF NodeInv
  <2>. QED  BY SMTT(60), <1>1, <1>2, <2>1, <2>2 DEF NodeInv
<1>16. SlotInv' /\ EndInv'
  BY <1>1, <1>2 DEF SlotInv, EndInv
<1>. QED  BY <1>8, <1>10, <1>11, <1>13, <1>14, <1>15, <1>16 DEF JInv

\* A refresh of the blocks due: what the steps outside the inserted code share.
LEMMA Quieter ==
  ASSUME JInv, pc = "run", NEW r, r = Refreshed(bb_cache)
  PROVE  /\ due \in Seq(Due) /\ Entries \in Nat /\ Len(due) = Entries + 1
         /\ RefreshAll(r, due, Entries, todo) /\ RefreshTypes(r)
         /\ Entries = 0 => bb_ptr \in {0, 1}
         /\ todo \in Nat /\ (whole /\ ~ returned => cur_bb = due[1].node)
         /\ ctx[T].last # NULL => due[Entries + 1].key = ctx[T].last
         /\ OnPath => /\ r.pc = "run"
                      /\ Caller(At(cur_bb, due, Entries + 1), due[Entries + 1].key) =
                           Program!CallsNow(ctx[T])
                      /\ ctx[T].last # NULL =>
                           At(cur_bb, due, Entries + 1) = Append(ctx[T].calls, ctx[T].last)
<1>1. Types /\ GhostTypes /\ DueInv /\ NodeInv
  BY DEF JInv
<1>2. /\ due \in Seq(Due) /\ Entries \in Nat /\ Len(due) = Entries + 1
      /\ Entries = 0 => bb_ptr \in {0, 1}
  BY <1>1, EntriesFacts
<1>3. RefreshAll(r, due, Entries, todo) /\ RefreshTypes(r)
  BY QuietRefresh DEF RefreshAll
<1>4. todo \in Nat /\ (whole /\ ~ returned => cur_bb = due[1].node)
      /\ (ctx[T].last # NULL => due[Entries + 1].key = ctx[T].last)
  BY <1>1, <1>2 DEF Types, NodeInv, DueInv
<1>5. ASSUME OnPath
      PROVE  /\ r.pc = "run"
             /\ Caller(At(cur_bb, due, Entries + 1), due[Entries + 1].key) =
                  Program!CallsNow(ctx[T])
             /\ ctx[T].last # NULL =>
                  At(cur_bb, due, Entries + 1) = Append(ctx[T].calls, ctx[T].last)
  <2>1. PathInv
    BY <1>1, <1>5 DEF NodeInv, OnPath
  <2>2. r.pc = "run"
    BY <1>3, <1>5 DEF RefreshAll
  <2>. QED  BY <1>2, <2>1, <2>2 DEF PathInv, NodeNow
<1>. QED  BY <1>2, <1>3, <1>4, <1>5

\* A handle is asked for while a block is built.
LEMMA BuildKeeps ==
  ASSUME JInv, BuildBlock, Report(due), UNCHANGED <<ctx, saved, whole, returned, plain>>
  PROVE  JInv'
<1>. DEFINE r == Refreshed(bb_cache)
            m == Entries
<1>1. Types /\ GhostTypes /\ DueInv /\ MemInv /\ NodeInv /\ SlotInv /\ EndInv
  BY DEF JInv
<1>2. /\ pc = "run" /\ todo = 0 /\ RefreshTo(r) /\ cur_bb' = r.cur_bb /\ out' = r.cbs
      /\ pc' = r.pc /\ UNCHANGED <<todo, sig_bb, sig_depth, sig_ran>>
  BY DEF BuildBlock, signals
<1>. HIDE DEF r
<1>3. /\ due \in Seq(Due) /\ m \in Nat /\ Len(due) = m + 1
      /\ RefreshAll(r, due, m, todo) /\ RefreshTypes(r)
      /\ m = 0 => bb_ptr \in {0, 1}
      /\ todo \in Nat /\ (whole /\ ~ returned => cur_bb = due[1].node)
      /\ ctx[T].last # NULL => due[m + 1].key = ctx[T].last
      /\ OnPath => /\ r.pc = "run"
                   /\ Caller(At(cur_bb, due, m + 1), due[m + 1].key) = Program!CallsNow(ctx[T])
                   /\ ctx[T].last # NULL =>
                        At(cur_bb, due, m + 1) = Append(ctx[T].calls, ctx[T].last)
  BY <1>2, Quieter DEF r
<1>. HIDE DEF m
<1>4. whole' = whole /\ returned' = returned /\ (OnPath' <=> OnPath) /\ ctx' = ctx
  BY DEF OnPath
<1>5. /\ due' \in Seq(Due) /\ expect' \in Seq(Due) /\ CallbacksInOrder'
      /\ pc' = "run" => /\ due' = <<due[m + 1]>>
                        /\ Entries' = 0 /\ Holds(bb_cache, due, Entries)'
      /\ MemInv'
  BY <1>1, <1>2, <1>3, <1>4, AfterRefresh
<1>6. NodeInv'
  BY <1>1, <1>2, <1>3, <1>4, <1>5, AfterNode
<1>7. Types'
  <2>1. r.cur_bb \in Nodes /\ r.pc \in {"run", "crash"}
    BY <1>3 DEF RefreshTypes
  <2>. QED  BY <1>1, <1>2, <1>3, <2>1, RefreshedTypes DEF Types
<1>8. GhostTypes'
  BY <1>1, <1>2, <1>5 DEF GhostTypes
<1>9. DueInv'
  <2>1. SUFFICES ASSUME pc' = "run"
                 PROVE  /\ Holds(bb_cache, due, Entries)'
                        /\ ctx'[T].last # NULL => due'[Len(due')].key = ctx'[T].last
                        /\ ~ (todo' > 0)
    BY DEF DueInv, Holds, KeyAt, Filled, Entries
  <2>2. Len(due') = 1 /\ due'[1] = due[m + 1]
    BY <1>5, <2>1
  <2>. QED  BY <1>2, <1>3, <1>4, <1>5, <2>1, <2>2
<1>10. SlotInv' /\ EndInv'
  <2>1. pc' # "ended" /\ (plain => pc' = "run")
    BY <1>2, <1>3 DEF RefreshTypes, OnPath
  <2>. QED  BY <1>1, <1>2, <2>1 DEF SlotInv, EndInv
<1>. QED  BY <1>5, <1>6, <1>7, <1>8, <1>9, <1>10 DEF JInv

\* The thread ends: the last block is passed, too.
LEMMA EndKeeps ==
  ASSUME JInv, ThreadEnd, Report(due), UNCHANGED <<ctx, saved, whole, returned, plain>>
  PROVE  JInv'
<1>. DEFINE r == Refreshed(bb_cache)
            m == Entries
            final == [node |-> r.cur_bb, key |-> r.pre_bb, refs |-> <<>>]
<1>1. Types /\ GhostTypes /\ DueInv /\ MemInv /\ NodeInv /\ SlotInv /\ EndInv
  BY DEF JInv
<1>2. /\ pc = "run" /\ todo = 0 /\ RefreshTo(r) /\ cur_bb' = r.cur_bb
      /\ out' = (IF r.pc = "run" THEN Append(r.cbs, final) ELSE r.cbs)
      /\ pc' = (IF r.pc = "run" THEN "ended" ELSE r.pc)
      /\ UNCHANGED <<todo, sig_bb, sig_depth, sig_ran>>
  BY DEF ThreadEnd, signals
<1>3. final.node = r.cur_bb /\ final.key = r.pre_bb /\ final.refs = <<>>
  OBVIOUS
<1>. HIDE DEF r
<1>4. /\ due \in Seq(Due) /\ m \in Nat /\ Len(due) = m + 1
      /\ RefreshAll(r, due, m, todo) /\ RefreshTypes(r)
      /\ m = 0 => bb_ptr \in {0, 1}
      /\ todo \in Nat /\ (whole /\ ~ returned => cur_bb = due[1].node)
      /\ OnPath => r.pc = "run"
  BY <1>2, Quieter DEF r
<1>. HIDE DEF m
<1>5. /\ r.bb_cache \in [Index -> Blocks \cup {NULL}] /\ r.bb_ptr \in Index
      /\ r.mem_cache \in [0 .. MemMax - 1 -> Refs \cup {NULL}] /\ r.mem_ptr \in Nat
      /\ r.cur_bb \in Nodes /\ r.pre_bb \in Keys /\ r.cbs \in Seq(Callback)
      /\ r.pc \in {"run", "crash"}
  BY <1>4 DEF RefreshTypes
<1>6. final \in Callback
  <2>1. <<>> \in Seq(Refs \cup {NULL})
    BY EmptySeq
  <2>. QED  BY <1>5, <2>1 DEF Callback
<1>. HIDE DEF final
<1>7. out' \in Seq(Callback) /\ pc' \in {"ended", "crash"}
  BY <1>2, <1>5, <1>6, AppendProperties
<1>8. Types'
  <2>1. /\ bb_cache' = r.bb_cache /\ bb_ptr' = r.bb_ptr /\ mem_cache' = r.mem_cache
        /\ mem_ptr' = r.mem_ptr /\ pre_bb' = r.pre_bb
    BY <1>2 DEF RefreshTo
  <2>. QED  BY <1>1, <1>2, <1>5, <1>7, <2>1 DEF Types
<1>9. DueInv' /\ MemInv' /\ NodeInv' /\ SlotInv'
  BY <1>7 DEF DueInv, MemInv, NodeInv, SlotInv
<1>10. CASE r.pc = "crash"
  <2>1. out' = r.cbs /\ pc' = r.pc /\ pc' # "ended"
    BY <1>2, <1>10
  <2>2. due' \in Seq(Due) /\ expect' \in Seq(Due) /\ CallbacksInOrder'
    BY <1>1, <1>2, <1>4, <2>1, AfterRefresh
  <2>3. GhostTypes' /\ EndInv'
    BY <1>1, <1>2, <1>4, <1>10, <2>1, <2>2 DEF GhostTypes, EndInv, OnPath
  <2>. QED  BY <1>8, <1>9, <2>2, <2>3 DEF JInv
<1>11. CASE r.pc = "run"
  <2>1. pc' = "ended" /\ out' = Append(r.cbs, final)
    BY <1>2, <1>11
  <2>2. /\ Len(r.cbs) = m /\ \A i \in 1 .. m : r.cbs[i].key = due[i].key
        /\ r.pre_bb = due[m + 1].key
        /\ whole => \A i \in 1 .. m : RefsMatch(r.cbs[i].refs, due[i].refs)
        /\ OnPath => /\ r.cur_bb = At(cur_bb, due, m + 1)
                     /\ \A i \in 1 .. m : r.cbs[i].node = At(cur_bb, due, i)
    BY <1>4, <1>11 DEF RefreshAll, RefreshKeys
  <2>3. /\ Len(out') = m + 1 /\ out'[m + 1] = final
        /\ \A i \in 1 .. m : out'[i] = r.cbs[i]
    BY <1>5, <1>6, <2>1, <2>2, AppendProperties
  <2>4. /\ expect' = SubSeq(due, 1, m + 1) /\ due' = SubSeq(due, m + 1 + 1, Len(due))
    BY <2>3 DEF Report
  <2>5. m + 1 \in 0 .. Len(due) /\ m + 1 = Len(due)
    BY <1>4
  <2>6. /\ expect' \in Seq(Due) /\ due' = <<>> /\ due' \in Seq(Due) /\ Len(expect') = m + 1
        /\ \A i \in 1 .. m + 1 : expect'[i] = due[i]
    BY <1>4, <2>4, <2>5, ReportFacts
  <2>7. ASSUME whole', NEW i \in 1 .. m + 1
        PROVE  /\ out'[i].key = expect'[i].key
               /\ pc' # "ended" \/ i # m + 1 => RefsMatch(out'[i].refs, expect'[i].refs)
               /\ ~ returned' => out'[i].node = expect'[i].node
    <3>1. expect'[i] = due[i] /\ whole
      BY <2>6, <2>7
    <3>2. ~ returned' => OnPath /\ cur_bb = due[1].node
      BY <1>4, <3>1 DEF OnPath
    <3>3. OnPath /\ cur_bb = due[1].node => At(cur_bb, due, i) = due[i].node
      BY DEF At
    <3>4. CASE i = m + 1
      BY <1>3, <2>1, <2>2, <2>3, <3>1, <3>2, <3>3, <3>4
    <3>5. CASE i # m + 1
      <4>1. i \in 1 .. m
        BY <1>4, <3>5
      <4>. QED  BY <2>2, <2>3, <3>1, <3>2, <3>3, <4>1
    <3>. QED  BY <3>4, <3>5
  <2>8. CallbacksInOrder'
    BY <2>3, <2>6, <2>7 DEF CallbacksInOrder, RefsMatch
  <2>9. GhostTypes' /\ EndInv'
    BY <1>1, <1>2, <2>1, <2>6 DEF GhostTypes, EndInv
  <2>. QED  BY <1>8, <1>9, <2>8, <2>9 DEF JInv
<1>. QED  BY <1>5, <1>10, <1>11

\* A signal is delivered.
LEMMA DeliverKeeps ==
  ASSUME JInv, ProgramDeliver
  PROVE  JInv'
<1>. DEFINE r == Refreshed(bb_cache)
            m == Entries
            point == ctx'[T]
<1>1. Types /\ GhostTypes /\ DueInv /\ MemInv /\ NodeInv /\ SlotInv /\ EndInv
  BY DEF JInv
<1>2. /\ pc = "run" /\ sig_depth < SigMax /\ RefreshTo(r) /\ cur_bb' = r.cur_bb
      /\ sig_bb' = r.cur_bb /\ sig_depth' = sig_depth + 1 /\ sig_ran' = FALSE /\ todo' = 0
      /\ out' = r.cbs /\ pc' = r.pc
  BY DEF ProgramDeliver, SignalDeliver
<1>3. /\ Program!Deliver(T) /\ Report(due) /\ whole' = (whole /\ todo = 0)
      /\ plain' = (plain /\ sig_depth = 0 /\ pre_bb' # Root /\ EndState[pre_bb'] = "other")
      /\ returned' = returned
      /\ ctx'[T].calls = IF todo > 0 THEN ctx[T].calls ELSE Program!CallsNow(ctx[T])
  BY DEF ProgramDeliver
<1>. HIDE DEF r
<1>4. /\ due \in Seq(Due) /\ m \in Nat /\ Len(due) = m + 1
      /\ RefreshAll(r, due, m, todo) /\ RefreshTypes(r)
      /\ m = 0 => bb_ptr \in {0, 1}
      /\ todo \in Nat /\ (whole /\ ~ returned => cur_bb = due[1].node)
      /\ ctx[T].last # NULL => due[m + 1].key = ctx[T].last
      /\ OnPath => /\ r.pc = "run"
                   /\ Caller(At(cur_bb, due, m + 1), due[m + 1].key) = Program!CallsNow(ctx[T])
  BY <1>2, Quieter DEF r
<1>. HIDE DEF m
<1>5. /\ ctx \in [{T} -> Contexts] /\ ctx[T] \in Contexts
      /\ saved \in [{T} -> Seq([calls : Nodes, last : {NULL}])] /\ Len(saved[T]) = sig_depth
      /\ Program!CallsNow(ctx[T]) \in Nodes /\ ctx[T].calls \in Nodes
  BY <1>1, CallsNowType DEF GhostTypes, Contexts
<1>6. /\ ctx' \in [{T} -> Contexts] /\ point.last = NULL /\ point.calls \in Nodes
      /\ saved' \in [{T} -> Seq([calls : Nodes, last : {NULL}])]
      /\ saved'[T] = Append(saved[T], point)
  <2>1. PICK calls \in {ctx[T].calls, Program!CallsNow(ctx[T])} :
          /\ ctx' = [ctx EXCEPT ![T] = [calls |-> calls, last |-> NULL]]
          /\ saved' = [saved EXCEPT ![T] = Append(@, [calls |-> calls, last |-> NULL])]
    BY <1>3 DEF Program!Deliver
  <2>. DEFINE x == [calls |-> calls, last |-> NULL]
  <2>2. x \in Contexts /\ x \in [calls : Nodes, last : {NULL}] /\ x.calls \in Nodes /\ x.last = NULL
    BY <1>5, <2>1 DEF Contexts
  <2>. HIDE DEF x
  <2>3. ctx' = [ctx EXCEPT ![T] = x] /\ saved' = [saved EXCEPT ![T] = Append(saved[T], x)]
    BY <2>1 DEF x
  <2>4. Append(saved[T], x) \in Seq([calls : Nodes, last : {NULL}])
    BY <1>5, <2>2, AppendProperties
  <2>. QED  BY <1>5, <2>2, <2>3, <2>4
<1>7. /\ point.calls = (IF todo > 0 THEN ctx[T].calls ELSE Program!CallsNow(ctx[T]))
      /\ Program!CallsNow(point) = point.calls
  <2>1. point \in Contexts
    BY <1>6
  <2>. QED  BY <1>3, <1>6, <2>1, CallsNowIs
<1>8. /\ due' \in Seq(Due) /\ expect' \in Seq(Due) /\ CallbacksInOrder'
      /\ pc' = "run" => /\ due' = <<due[m + 1]>> /\ pre_bb' = due[m + 1].key
                        /\ Entries' = 0 /\ Holds(bb_cache, due, Entries)'
      /\ MemInv'
  <2>1. whole' => whole /\ todo' = todo
    BY <1>2, <1>3
  <2>. QED  BY <1>1, <1>2, <1>3, <1>4, <2>1, AfterRefresh
<1>9. (OnPath' => OnPath) /\ (whole' /\ ~ returned' => whole /\ ~ returned)
  BY <1>3 DEF OnPath
<1>10. OnPath' => Program!CallsNow(ctx[T]) = point.calls
  <2>1. SUFFICES ASSUME OnPath', todo > 0 PROVE Program!CallsNow(ctx[T]) = ctx[T].calls
    BY <1>7
  <2>2. plain'
    <3>1. todo # 0
      BY <1>4, <2>1
    <3>2. ~ whole'
      BY <1>3, <3>1
    <3>. QED  BY <2>1, <3>2 DEF OnPath
  <2>3. pc' = "run" /\ EndState[pre_bb'] = "other"
    BY <1>2, <1>3, <1>4, <1>9, <2>1, <2>2
  <2>4. ctx[T].last # NULL /\ ctx[T].last = pre_bb'
    BY <1>1, <1>2, <1>4, <1>8, <2>1, <2>3 DEF DueInv
  <2>. QED  BY <1>5, <2>3, <2>4, CallsNowIs
<1>11. NodeInv'
  <2>1. OnPath' =>
          /\ Caller(At(cur_bb, due, m + 1), due[m + 1].key) = Program!CallsNow(ctx'[T])
          /\ ctx'[T].last = NULL
    BY <1>4, <1>6, <1>7, <1>9, <1>10
  <2>. QED  BY <1>1, <1>2, <1>4, <1>8, <1>9, <2>1, AfterNode
<1>12. r.cur_bb \in Nodes /\ r.pc \in {"run", "crash"} /\ SigMax \in Nat /\ MemMax \in Nat
       /\ sig_depth \in Nat
  BY <1>1, <1>4, CacheSizesAssumption DEF RefreshTypes, Types
<1>13. Types'
  <2>1. todo' \in 0 .. MemMax
    BY <1>2, <1>12, CacheSizesAssumption
  <2>2. sig_depth' \in 0 .. SigMax
    BY <1>2, <1>12
  <2>3. sig_bb' \in Nodes \cup {NULL} /\ cur_bb' \in Nodes /\ sig_ran' \in BOOLEAN
    BY <1>2, <1>12
  <2>4. pc' \in {"run", "ended", "crash"}
    BY <1>2, <1>12
  <2>5. sig_depth' > 0 => sig_bb' # NULL
    BY <1>2, <1>12, KeyFacts
  <2>. QED  BY <1>1, <1>2, <1>4, <2>1, <2>2, <2>3, <2>4, <2>5, RefreshedTypes
<1>14. GhostTypes'
  <2>1. Len(saved'[T]) = sig_depth'
    BY <1>2, <1>5, <1>6
  <2>2. plain' \in BOOLEAN /\ whole' \in BOOLEAN /\ returned' \in BOOLEAN
    BY <1>1, <1>3 DEF GhostTypes
  <2>. QED  BY <1>6, <1>8, <2>1, <2>2 DEF GhostTypes
<1>15. DueInv'
  BY <1>2, <1>6, <1>8 DEF DueInv, Holds, Filled, KeyAt, Entries
<1>16. SlotInv'
  <2>1. SUFFICES ASSUME pc' = "run", plain'
                 PROVE  sig_depth' = 1 /\ sig_bb' # <<>> /\ Front(sig_bb') = saved'[T][1].calls
    BY DEF SlotInv
  <2>2. sig_depth = 0 /\ pre_bb' # Root /\ EndState[pre_bb'] = "other" /\ OnPath /\ OnPath'
    BY <1>3, <2>1 DEF OnPath
  <2>3. pre_bb' = due[m + 1].key /\ pre_bb' \in Keys
    BY <1>8, <1>13, <2>1 DEF Types
  <2>. DEFINE n == At(cur_bb, due, m + 1)
  <2>4. r.cur_bb = n
    BY <1>4, <2>2 DEF RefreshAll
  <2>5. Caller(n, pre_bb') = point.calls
    BY <1>4, <1>10, <2>2, <2>3
  <2>. HIDE DEF n
  <2>6. ParentOf(n) = point.calls
    BY <2>2, <2>3, <2>5, CallerIs
  <2>7. n # <<>> /\ n # NULL
    BY <1>6, <2>6, KeyFacts DEF ParentOf
  <2>8. Front(n) = point.calls
    BY <2>6, <2>7 DEF ParentOf
  <2>9. saved'[T][1] = point
    <3>1. Len(saved[T]) = 0
      BY <1>5, <2>2
    <3>. QED  BY <1>5, <1>6, <3>1
  <2>10. sig_depth' = 1
    BY <1>2, <2>2
  <2>. QED  BY <1>2, <2>4, <2>7, <2>8, <2>9, <2>10
<1>17. EndInv'
  <2>1. pc' # "ended"
    BY <1>2, <1>12
  <2>2. plain' => pc' = "run"
    BY <1>2, <1>3, <1>4 DEF OnPath
  <2>. QED  BY <2>1, <2>2 DEF EndInv
<1>. QED  BY <1>8, <1>11, <1>13, <1>14, <1>15, <1>16, <1>17 DEF JInv

\* A handler returns.
LEMMA ReturnKeeps ==
  ASSUME JInv, ProgramReturn
  PROVE  JInv'
<1>. DEFINE r == Refreshed(bb_cache)
            m == Entries
            point == ctx'[T]
<1>1. Types /\ GhostTypes /\ DueInv /\ MemInv /\ NodeInv /\ SlotInv /\ EndInv
  BY DEF JInv
<1>2. /\ pc = "run" /\ todo = 0 /\ sig_depth > 0 /\ RefreshTo(r) /\ cur_bb' = sig_bb
      /\ sig_depth' = sig_depth - 1 /\ sig_ran' = FALSE /\ todo' = todo /\ sig_bb' = sig_bb
      /\ out' = r.cbs /\ pc' = r.pc
  BY DEF ProgramReturn, SignalReturn
<1>3. /\ ctx[T].last # NULL /\ Program!Return(T) /\ Report(due) /\ whole' = whole
      /\ plain' = (plain /\ EndState[ctx[T].last] = "other") /\ returned' = TRUE
  BY DEF ProgramReturn
<1>. HIDE DEF r
<1>4. /\ due \in Seq(Due) /\ m \in Nat /\ Len(due) = m + 1
      /\ RefreshAll(r, due, m, todo) /\ RefreshTypes(r)
      /\ m = 0 => bb_ptr \in {0, 1}
      /\ todo \in Nat /\ (whole /\ ~ returned => cur_bb = due[1].node)
      /\ due[m + 1].key = ctx[T].last
      /\ OnPath => r.pc = "run"
  BY <1>2, <1>3, Quieter DEF r
<1>. HIDE DEF m
<1>5. /\ ctx \in [{T} -> Contexts]
      /\ saved \in [{T} -> Seq([calls : Nodes, last : {NULL}])] /\ Len(saved[T]) = sig_depth
      /\ sig_depth \in Nat /\ sig_depth \in 0 .. SigMax /\ SigMax \in Nat
      /\ sig_bb \in Nodes /\ ctx[T].last \in Blocks
  BY <1>1, <1>2, <1>3, CacheSizesAssumption DEF GhostTypes, Contexts, Types
<1>6. /\ ctx' \in [{T} -> Contexts] /\ point \in Contexts
      /\ point.last = NULL /\ point.calls \in Nodes
      /\ saved' \in [{T} -> Seq([calls : Nodes, last : {NULL}])]
      /\ Len(saved'[T]) = sig_depth - 1
      /\ sig_depth = 1 => point = saved[T][1]
  <2>. DEFINE s == saved[T]
              P == [calls : Nodes, last : {NULL}]
  <2>1. s \in Seq(P) /\ Len(s) = sig_depth /\ Len(s) \in Nat /\ Len(s) # 0
    BY <1>2, <1>5
  <2>2. /\ ctx' = [ctx EXCEPT ![T] = Program!Last(s)]
        /\ saved' = [saved EXCEPT ![T] = Program!Front(s)]
    BY <1>3 DEF Program!Return
  <2>. HIDE DEF s, P
  <2>3. Program!Last(s) = s[Len(s)] /\ s[Len(s)] \in P
    <3>1. Len(s) \in 1 .. Len(s)
      BY <2>1
    <3>. QED  BY <2>1, <3>1, ElementOfSeq DEF Program!Last
  <2>4. Program!Front(s) \in Seq(P) /\ Len(Program!Front(s)) = Len(s) - 1
    <3>1. s # <<>>
      BY <2>1
    <3>2. Program!Front(s) = Front(s)
      BY DEF Program!Front, Front
    <3>3. Front(s) \in Seq(P) /\ Len(Front(s)) = Len(s) - 1
      BY <2>1, <3>1, FrontType
    <3>. QED  BY <3>2, <3>3
  <2>5. s[Len(s)] \in Contexts /\ s[Len(s)].last = NULL /\ s[Len(s)].calls \in Nodes
    BY <2>3 DEF Contexts, P
  <2>6. point = s[Len(s)] /\ saved'[T] = Program!Front(s)
    BY <1>5, <2>2, <2>3
  <2>7. ctx' \in [{T} -> Contexts] /\ saved' \in [{T} -> Seq(P)]
    BY <1>5, <2>2, <2>3, <2>4, <2>5
  <2>. QED  BY <2>1, <2>3, <2>4, <2>5, <2>6, <2>7 DEF s, P
<1>7. /\ due' \in Seq(Due) /\ expect' \in Seq(Due) /\ CallbacksInOrder'
      /\ pc' = "run" => /\ due' = <<due[m + 1]>> /\ pre_bb' = due[m + 1].key
                        /\ Entries' = 0 /\ Holds(bb_cache, due, Entries)'
      /\ MemInv'
  BY <1>1, <1>2, <1>3, <1>4, AfterRefresh
<1>8. plain' => plain /\ OnPath /\ EndState[ctx[T].last] = "other" /\ pc' = "run"
  BY <1>2, <1>3, <1>4 DEF OnPath
<1>9. r.pc \in {"run", "crash"}
  BY <1>4 DEF RefreshTypes
<1>10. plain' => sig_depth = 1 /\ sig_bb # <<>> /\ Front(sig_bb) = saved[T][1].calls
  BY <1>1, <1>2, <1>8 DEF SlotInv
<1>11. NodeInv'
  <2>1. SUFFICES ASSUME pc' = "run", plain' PROVE PathInv'
    BY <1>3 DEF NodeInv
  <2>2. due' = <<due[m + 1]>> /\ due[m + 1].key = ctx[T].last /\ Len(due') = 1
        /\ due'[1] = due[m + 1]
    BY <1>4, <1>7, <2>1
  <2>3. At(cur_bb', due', Len(due')) = sig_bb
    BY <1>2, <2>2 DEF At
  <2>4. ctx[T].last \in Keys /\ ctx[T].last # Root
    BY <1>5, KeyFacts DEF Keys
  <2>5. Caller(sig_bb, ctx[T].last) = ParentOf(sig_bb)
    BY <1>8, <2>1, <2>4, CallerIs
  <2>6. ParentOf(sig_bb) = Front(sig_bb)
    BY <1>5, <1>10, <2>1, ParentType
  <2>7. Program!CallsNow(point) = point.calls
    BY <1>6, CallsNowIs
  <2>8. Caller(sig_bb, ctx[T].last) = Program!CallsNow(point)
    BY SMTT(60), <1>6, <1>10, <2>1, <2>5, <2>6, <2>7
  <2>9. SUFFICES /\ Chain(cur_bb', due')
                 /\ Caller(At(cur_bb', due', Len(due')), due'[Len(due')].key) =
                      Program!CallsNow(ctx'[T])
                 /\ ctx'[T].last # NULL =>
                      At(cur_bb', due', Len(due')) = Append(ctx'[T].calls, ctx'[T].last)
    BY DEF PathInv, NodeNow, Chain, At, Caller, ParentOf, Program!CallsNow
  <2>10. Chain(cur_bb', due')
    BY <2>2 DEF Chain
  <2>. QED  BY <1>6, <2>2, <2>3, <2>8, <2>10
<1>12. Types'
  <2>1. cur_bb' \in Nodes /\ sig_bb' \in Nodes \cup {NULL} /\ sig_bb' # NULL
        /\ sig_ran' \in BOOLEAN /\ pc' \in {"run", "ended", "crash"}
    BY <1>2, <1>5, <1>9, KeyFacts
  <2>2. sig_depth' \in 0 .. SigMax
    BY <1>2, <1>5
  <2>3. todo' \in 0 .. MemMax
    BY <1>1, <1>2 DEF Types
  <2>. QED  BY <1>1, <1>2, <1>4, <2>1, <2>2, <2>3, RefreshedTypes
<1>13. GhostTypes'
  <2>1. Len(saved'[T]) = sig_depth'
    BY <1>2, <1>6
  <2>2. plain' \in BOOLEAN /\ whole' \in BOOLEAN /\ returned' \in BOOLEAN
    BY <1>1, <1>3 DEF GhostTypes
  <2>. QED  BY <1>6, <1>7, <2>1, <2>2 DEF GhostTypes
<1>14. DueInv'
  BY <1>2, <1>6, <1>7 DEF DueInv, Holds, Filled, KeyAt, Entries
<1>15. SlotInv'
  <2>1. plain' => sig_depth' = 0
    BY <1>2, <1>10
  <2>. QED  BY <2>1 DEF SlotInv
<1>16. EndInv'
  <2>1. pc' # "ended"
    BY <1>2, <1>9
  <2>. QED  BY <1>8, <2>1 DEF EndInv
<1>. QED  BY <1>7, <1>11, <1>12, <1>13, <1>14, <1>15, <1>16 DEF JInv

\* The first state: only the root is due, and nothing is stored.
LEMMA JointInitHolds ==
  ASSUME JointInit
  PROVE  JInv
<1>. DEFINE d == Run(<<>>, Root, <<>>)
<1>1. /\ BBMax \in Nat /\ BBMax >= 2 /\ MemMax \in Nat /\ MemMax > 0 /\ SigMax \in Nat
      /\ MemAddr \in BOOLEAN
  BY CacheSizesAssumption
<1>2. PICK old \in {NULL} \cup {<<b, 1>> : b \in {c \in Blocks : RefNum[c] > 0}} :
        mem_cache = [i \in 0 .. MemMax - 1 |-> old]
  BY DEF JointInit, Init
<1>3. /\ bb_cache = [i \in Index |-> NULL] /\ bb_ptr = 0 /\ mem_ptr = 0 /\ cur_bb = <<>>
      /\ pre_bb = Root /\ todo = 0 /\ out = <<>> /\ sig_bb = NULL /\ sig_depth = 0
      /\ sig_ran = FALSE /\ pc = "run"
  BY DEF JointInit, Init, Index
<1>4. /\ ctx = [t \in {T} |-> [calls |-> <<>>, last |-> NULL]]
      /\ saved = [t \in {T} |-> <<>>] /\ due = <<d>> /\ expect = <<>>
      /\ whole = (MemAddr => mem_cache[0] = NULL) /\ returned = FALSE /\ plain = TRUE
  BY DEF JointInit
<1>5. d = [node |-> <<>>, key |-> Root, refs |-> <<>>]
  BY DEF Run
<1>6. d \in Due
  <2>1. <<>> \in Nodes /\ <<>> \in Seq(Refs) /\ Root \in Keys
    BY KeyFacts, EmptySeq DEF Keys
  <2>2. \A n \in Nodes, k \in Keys, refs \in Seq(Refs) : Run(n, k, refs) \in Due
    BY DEF Run, Due
  <2>. QED  BY <2>1, <2>2
<1>7. due \in Seq(Due) /\ Len(due) = 1 /\ due[1] = d
  BY <1>4, <1>6
<1>8. Entries = 0
  BY <1>3 DEF Entries
<1>9. old \in Refs \cup {NULL}
  BY <1>1, <1>2 DEF Refs
<1>10. Types
  <2>1. mem_cache \in [0 .. MemMax - 1 -> Refs \cup {NULL}]
    BY <1>2, <1>9
  <2>2. bb_ptr \in Index /\ todo \in 0 .. MemMax /\ sig_depth \in 0 .. SigMax /\ mem_ptr \in Nat
    BY <1>1, <1>3 DEF Index
  <2>3. cur_bb \in Nodes /\ pre_bb \in Keys /\ out \in Seq(Callback)
    BY <1>3, KeyFacts, EmptySeq DEF Keys
  <2>. QED  BY <1>3, <2>1, <2>2, <2>3 DEF Types
<1>11. GhostTypes
  <2>1. ctx[T] \in Contexts
    BY <1>4, KeyFacts DEF Contexts
  <2>2. saved[T] = <<>> /\ saved[T] \in Seq([calls : Nodes, last : {NULL}]) /\ Len(saved[T]) = 0
    BY <1>4, EmptySeq
  <2>3. expect \in Seq(Due)
    BY <1>4, EmptySeq
  <2>. QED  BY <1>3, <1>4, <1>7, <2>1, <2>2, <2>3 DEF GhostTypes
<1>12. Holds(bb_cache, due, 0)
  <2>1. 0 \in Index /\ bb_cache \in [Index -> Blocks \cup {NULL}]
    BY <1>1, <1>3 DEF Index
  <2>2. Filled(bb_cache, 0)
    BY <1>1, <1>3 DEF Filled, Index
  <2>3. due[1].key = KeyAt(bb_cache, 1)
    BY <1>3, <1>5, <1>7 DEF KeyAt
  <2>. QED  BY <1>7, <2>1, <2>2, <2>3 DEF Holds
<1>13. DueInv
  BY <1>3, <1>4, <1>8, <1>12 DEF DueInv
<1>14. MemInv
  <2>1. SUFFICES ASSUME whole PROVE Stored(mem_cache, mem_ptr, due, <<0>>, todo)
    BY <1>1, <1>3 DEF MemInv
  <2>. DEFINE off == <<0>>
  <2>2. off \in [1 .. 1 -> Nat] /\ off[1] = 0
    OBVIOUS
  <2>3. MemAddr => \A i \in 0 .. MemMax - 1 : mem_cache[i] = NULL
    <3>1. \A i \in 0 .. MemMax - 1 : mem_cache[i] = old
      BY <1>2
    <3>2. mem_cache[0] = old
      BY <1>1, <3>1
    <3>3. MemAddr => old = NULL
      BY <1>4, <2>1, <3>2
    <3>. QED  BY <3>1, <3>3
  <2>4. d.refs = <<>> /\ Len(d.refs) = 0 /\ d.key = Root /\ RefsOf(Root) = 0
    BY <1>5 DEF RefsOf
  <2>. HIDE DEF off, d
  <2>. QED  BY <1>1, <1>3, <1>7, <2>2, <2>3, <2>4 DEF Stored
<1>15. NodeInv
  <2>1. NodeNow = <<>>
    BY <1>3, <1>7 DEF NodeNow, At
  <2>2. Program!CallsNow(ctx[T]) = <<>> /\ ctx[T].last = NULL
    BY <1>4, <1>11, CallsNowIs DEF GhostTypes
  <2>3. Root \in Keys
    BY DEF Keys
  <2>4. Caller(<<>>, Root) = <<>>
    BY <2>3, CallerIs
  <2>5. Chain(cur_bb, due)
    BY <1>7 DEF Chain
  <2>6. due[1].node = <<>> /\ due[1].key = Root
    BY <1>5, <1>7
  <2>7. PathInv
    BY <1>7, <2>1, <2>2, <2>4, <2>5, <2>6 DEF PathInv
  <2>. QED  BY <1>3, <2>6, <2>7 DEF NodeInv
<1>16. SlotInv /\ EndInv
  BY <1>3 DEF SlotInv, EndInv
<1>17. CallbacksInOrder
  BY <1>3, <1>4 DEF CallbacksInOrder
<1>. QED  BY <1>10, <1>11, <1>13, <1>14, <1>15, <1>16, <1>17 DEF JInv

\* A step that changes nothing.
LEMMA StutterKeeps ==
  ASSUME JInv, UNCHANGED jointvars
  PROVE  JInv'
<1>1. /\ UNCHANGED <<bb_cache, bb_ptr, mem_cache, mem_ptr, cur_bb, pre_bb, todo, out,
                     sig_bb, sig_depth, sig_ran, pc>>
      /\ UNCHANGED <<ctx, saved, due, expect, whole, returned, plain>>
  BY DEF jointvars, vars, ghosts, caches, place, signals
<1>2. Types' /\ GhostTypes' /\ CallbacksInOrder'
  BY <1>1 DEF JInv, Types, GhostTypes, CallbacksInOrder
<1>3. DueInv'
  BY <1>1 DEF JInv, DueInv, Holds, KeyAt, Filled, Entries
<1>4. MemInv'
  BY SMTT(60), <1>1 DEF JInv, MemInv, Stored, RefsOf
<1>5. NodeInv'
  <2>1. Chain(cur_bb, due)' <=> Chain(cur_bb, due)
    BY <1>1 DEF Chain, At, Caller, ParentOf
  <2>2. NodeNow' = NodeNow
    BY <1>1 DEF NodeNow, At
  <2>3. Caller(NodeNow, due[Len(due)].key)' = Caller(NodeNow, due[Len(due)].key)
    BY <1>1, <2>2 DEF Caller, ParentOf
  <2>4. Program!CallsNow(ctx[T])' = Program!CallsNow(ctx[T])
    BY <1>1 DEF Program!CallsNow
  <2>5. PathInv' <=> PathInv
    BY <1>1, <2>1, <2>2, <2>3, <2>4 DEF PathInv
  <2>. QED  BY <1>1, <2>5 DEF JInv, NodeInv
<1>6. SlotInv' /\ EndInv'
  BY <1>1 DEF JInv, SlotInv, EndInv
<1>. QED  BY <1>2, <1>3, <1>4, <1>5, <1>6 DEF JInv

\* Every step of the two caches beside the program keeps the invariant.
LEMMA JointStep ==
  ASSUME JInv, [JointNext]_jointvars
  PROVE  JInv'
<1>1. ASSUME NEW b \in Blocks, ProgramEnter(b)
      PROVE  JInv'
  <2>. DEFINE cache == [bb_cache EXCEPT ![bb_ptr] = b]
              r == Refreshed(cache)
  <2>1. \/ /\ CallNeeded(b) /\ RefreshTo(r) /\ cur_bb' = r.cur_bb /\ out' = r.cbs /\ pc' = r.pc
        \/ /\ ~ CallNeeded(b) /\ bb_cache' = cache /\ bb_ptr' = bb_ptr + 1 /\ out' = <<>>
           /\ UNCHANGED <<mem_cache, mem_ptr, place, pc>>
    BY <1>1 DEF ProgramEnter, Enter
  <2>2. CASE RefreshTo(r) /\ cur_bb' = r.cur_bb /\ out' = r.cbs /\ pc' = r.pc
    <3>1. r = Refreshed([bb_cache EXCEPT ![bb_ptr] = b])
      OBVIOUS
    <3>. HIDE DEF r
    <3>. QED  BY <1>1, <2>2, <3>1, EnterCalls
  <2>3. CASE /\ ~ CallNeeded(b) /\ bb_cache' = cache /\ bb_ptr' = bb_ptr + 1 /\ out' = <<>>
             /\ UNCHANGED <<mem_cache, mem_ptr, place, pc>>
    BY <1>1, <2>3, EnterStores
  <2>. HIDE DEF r
  <2>. QED  BY <2>1, <2>2, <2>3
<1>2. ASSUME Quiet PROVE JInv'
  BY <1>2, BuildKeeps, EndKeeps DEF Quiet
<1>. QED  BY <1>1, <1>2, RefMade, DeliverKeeps, ReturnKeeps, StutterKeeps DEF JointNext

\* Always: the blocks due lie in the cache in the order the program entered them, their
\* references behind one another in the other, their nodes chained to the calls the
\* program is inside of; and what the client is passed is what it is owed.
THEOREM CachesHold == JointSpec => []JInv
<1>1. JointInit => JInv
  BY JointInitHolds
<1>2. JInv /\ [JointNext]_jointvars => JInv'
  BY JointStep
<1>. QED  BY <1>1, <1>2, PTL DEF JointSpec

----------------------------------------------------------------------------
(* What it means for the client. *)

\* Every block is passed to the client exactly once, in program order, with its own
\* references, and, until a signal handler returns, with the node of its call path:
\* for every size of the two caches the entry code of a block can be given.
THEOREM BlocksPassedInOrder == JointSpec => []CallbacksInOrder
<1>1. JInv => CallbacksInOrder
  BY DEF JInv
<1>. QED  BY <1>1, CachesHold, PTL

\* A thread that ended has passed every block, and no refresh stops at an empty entry
\* with blocks behind it.
THEOREM EveryBlockPassed == JointSpec => []AllReported
<1>1. ASSUME JInv
      PROVE  AllReported
  <2>1. Types /\ GhostTypes /\ DueInv /\ EndInv
    BY <1>1 DEF JInv
  <2>2. SUFFICES ASSUME pc = "run", bb_ptr > 0, NEW i \in DOMAIN bb_cache
                 PROVE  bb_cache[i] # NULL <=> 1 <= i /\ i < bb_ptr
    BY <2>1 DEF AllReported, EndInv
  <2>3. /\ Holds(bb_cache, due, Entries) /\ Entries \in Nat /\ bb_ptr \in 0 .. BBMax - 1
        /\ BBMax \in Nat /\ (bb_ptr # 0 => Entries = bb_ptr - 1)
    BY <2>1, <2>2, EntriesFacts
  <2>4. bb_cache \in [Index -> Blocks \cup {NULL}] /\ Filled(bb_cache, Entries)
    BY <2>3 DEF Holds
  <2>5. i \in Index /\ i \in Int
    BY <2>2, <2>3, <2>4 DEF Index
  <2>6. bb_cache[i] # NULL <=> 1 <= i /\ i <= Entries
    BY <2>4, <2>5 DEF Filled
  <2>7. Entries = bb_ptr - 1 /\ bb_ptr \in Int
    BY <2>2, <2>3
  <2>. QED  BY <2>5, <2>6, <2>7
<1>. QED  BY <1>1, CachesHold, PTL

\* Draining the entries whenever it happens leads to the program's own call path,
\* and never to a null parent, for signals the save slot covers.
THEOREM DrainKeepsPath == JointSpec => []DrainsToPath
<1>1. ASSUME JInv
      PROVE  DrainsToPath
  <2>1. Types /\ GhostTypes /\ DueInv /\ NodeInv /\ EndInv
    BY <1>1 DEF JInv
  <2>2. SUFFICES ASSUME plain, pc = "run", ctx[T].last # NULL
                 PROVE  Drained(FirstMoved(bb_cache)).node = Append(ctx[T].calls, ctx[T].last)
    BY <2>1 DEF DrainsToPath, EndInv
  <2>3. /\ Holds(bb_cache, due, Entries) /\ FirstMoved(bb_cache) = bb_cache
        /\ Entries \in Nat /\ Len(due) = Entries + 1
    BY <2>1, <2>2, EntriesFacts
  <2>4. Chain(cur_bb, due) /\ NodeNow = Append(ctx[T].calls, ctx[T].last)
    BY <2>1, <2>2 DEF NodeInv, PathInv
  <2>5. Drained(bb_cache) = Loop(bb_cache)[Entries]
    BY <2>3, HoldsFacts
  <2>6. LoopTypes /\ Entries \in 0 .. Entries
    BY <2>1, <2>3 DEF LoopTypes, Types
  <2>7. Loop(bb_cache)[Entries].node = At(cur_bb, due, Entries + 1)
    BY <2>3, <2>4, <2>6, LoopNodes
  <2>. QED  BY <2>3, <2>4, <2>5, <2>7 DEF NodeNow
<1>. QED  BY <1>1, CachesHold, PTL

----------------------------------------------------------------------------
(* The pointer of the reference cache stays inside it, when a block's references *)
(* fill at most half of it: a clean call at a full cache is made after the block *)
(* is stored, and may take stale addresses for references of it, as many again   *)
(* as it is about to make.                                                       *)

HalfFits == \A b \in Blocks : 2 * RefNum[b] <= MemMax

\* What is stored and what is still to be made fits.
RoomInv ==
  /\ mem_ptr \in 0 .. MemMax
  /\ pc = "run" => mem_ptr + todo <= MemMax
  /\ ~ MemAddr => mem_ptr = 0

\* Behind a refresh the pointer is inside.
LEMMA PtrFits ==
  ASSUME Types, RoomInv, NEW r, NEW all, NEW m, RefreshTypes(r), RefreshKeys(r, all, m)
  PROVE  r.mem_ptr \in 0 .. MemMax /\ (~ MemAddr => r.mem_ptr = 0)
<1>1. r.mem_ptr \in Nat /\ r.pre_bb \in Keys /\ MemMax \in Nat
  BY CacheSizesAssumption DEF RefreshTypes
<1>2. CASE r.mem_ptr = mem_ptr
  BY <1>2 DEF RoomInv
<1>3. CASE r.mem_ptr <= RefsOf(r.pre_bb) /\ MemAddr
  <2>1. RefsOf(r.pre_bb) \in Nat /\ RefsOf(r.pre_bb) <= MemMax
    <3>1. CASE r.pre_bb = Root
      BY <1>1, <3>1 DEF RefsOf
    <3>2. CASE r.pre_bb \in Blocks
      BY <1>1, <3>2, RefsOfFit
    <3>. QED  BY <1>1, <3>1, <3>2 DEF Keys
  <2>. QED  BY <1>1, <1>3, <2>1
<1>. QED  BY <1>2, <1>3 DEF RefreshKeys

\* A step that refreshes and leaves nothing to be made.
LEMMA RoomAfter ==
  ASSUME Types, RoomInv, NEW r, NEW all, NEW m, RefreshTypes(r), RefreshKeys(r, all, m),
         RefreshTo(r), pc' = "run" => todo' = 0
  PROVE  RoomInv'
<1>1. r.mem_ptr \in 0 .. MemMax /\ (~ MemAddr => r.mem_ptr = 0) /\ mem_ptr' = r.mem_ptr
  BY PtrFits DEF RefreshTo
<1>2. MemMax \in Nat
  BY CacheSizesAssumption
<1>. QED  BY <1>1, <1>2 DEF RoomInv

\* A block is entered.
LEMMA EnterRoom ==
  ASSUME HalfFits, JInv, RoomInv, NEW b \in Blocks, ProgramEnter(b)
  PROVE  RoomInv'
<1>. DEFINE r == Refreshed([bb_cache EXCEPT ![bb_ptr] = b])
            all == DueWith(b)
            m == Entries + 1
<1>1. Types /\ GhostTypes /\ DueInv
  BY DEF JInv
<1>2. /\ pc = "run" /\ todo = 0 /\ todo' = RefsOf(b)
      /\ \/ RefreshTo(r) /\ pc' = r.pc
         \/ ~ MemFull(b) /\ mem_ptr' = mem_ptr /\ pc' = pc
  BY DEF ProgramEnter, Enter, CallNeeded
<1>3. /\ MemMax \in Nat /\ RefNum[b] \in Nat /\ RefsOf(b) \in Nat /\ RefsOf(b) <= RefNum[b]
      /\ (~ MemAddr => RefsOf(b) = 0) /\ 2 * RefNum[b] <= MemMax
  <2>1. 2 * RefNum[b] <= MemMax
    BY DEF HalfFits
  <2>. QED  BY <2>1, RefsOfFit
<1>4. CASE ~ MemFull(b) /\ mem_ptr' = mem_ptr /\ pc' = pc
  <2>1. mem_ptr \in 0 .. MemMax /\ (~ MemAddr => mem_ptr = 0)
    BY DEF RoomInv
  <2>2. MemAddr => mem_ptr + 1 + RefNum[b] < MemMax
    BY <1>3, <1>4, <2>1 DEF MemFull
  <2>3. mem_ptr + RefsOf(b) <= MemMax
    BY <1>3, <2>1, <2>2
  <2>. QED  BY <1>2, <1>4, <2>1, <2>3 DEF RoomInv
<1>5. CASE RefreshTo(r) /\ pc' = r.pc
  <2>1. RefreshAll(r, all, m, RefsOf(b))
    BY <1>2, EnterRefresh
  <2>. HIDE DEF r
  <2>2. RefreshTypes(r) /\ RefreshKeys(r, all, m)
    BY <2>1 DEF RefreshAll
  <2>. HIDE DEF all
  <2>3. /\ r.mem_ptr \in 0 .. MemMax /\ (~ MemAddr => r.mem_ptr = 0)
        /\ mem_ptr' = r.mem_ptr
    BY <1>1, <1>5, <2>2, PtrFits DEF RefreshTo
  <2>4. Entries \in Nat
    BY <1>1, <1>2, EntriesFacts
  <2>5. m # 0 /\ m + 1 = Entries + 2
    BY <2>4
  <2>6. all[m + 1].key = b
    <3>1. Len(due) = Entries + 1 /\ due \in Seq(Due)
      BY <1>1, <1>2, EntriesFacts
    <3>2. all = Append(due, Run(Append(Program!CallsNow(ctx[T]), b), b, <<>>))
      BY DEF all, DueWith
    <3>3. all[m + 1] = Run(Append(Program!CallsNow(ctx[T]), b), b, <<>>)
      BY <2>4, <2>5, <3>1, <3>2, AppendProperties
    <3>. QED  BY <3>3 DEF Run
  <2>. HIDE DEF m
  <2>7. r.pc = "run" => r.mem_ptr <= RefsOf(b) \/ ~ MemAddr
    BY <2>2, <2>5, <2>6 DEF RefreshKeys
  <2>8. r.pc = "run" => r.mem_ptr + RefsOf(b) <= MemMax
    BY <1>3, <2>3, <2>7
  <2>. QED  BY <1>2, <1>5, <2>3, <2>8 DEF RoomInv
<1>. QED  BY <1>2, <1>4, <1>5

\* Every step leaves room.
LEMMA RoomStep ==
  ASSUME HalfFits, JInv, RoomInv, [JointNext]_jointvars
  PROVE  RoomInv'
<1>. DEFINE r == Refreshed(bb_cache)
<1>1. Types /\ GhostTypes /\ DueInv
  BY DEF JInv
<1>2. ASSUME pc = "run", RefreshTo(r), pc' = "run" => todo' = 0
      PROVE  RoomInv'
  <2>1. r = Refreshed(bb_cache)
    OBVIOUS
  <2>. HIDE DEF r
  <2>2. RefreshAll(r, due, Entries, todo)
    BY <1>2, <2>1, Quieter
  <2>3. RefreshTypes(r) /\ RefreshKeys(r, due, Entries)
    BY <2>2 DEF RefreshAll
  <2>. QED  BY <1>1, <1>2, <2>3, RoomAfter
<1>3. ASSUME ProgramRef PROVE RoomInv'
  <2>1. todo > 0 /\ mem_ptr' = mem_ptr + 1 /\ todo' = todo - 1 /\ pc = "run"
    BY <1>3 DEF ProgramRef, MakeRef
  <2>2. todo \in Nat /\ mem_ptr \in 0 .. MemMax /\ mem_ptr + todo <= MemMax /\ MemMax \in Nat
    BY <1>1, <2>1, CacheSizesAssumption DEF Types, RoomInv
  <2>3. MemAddr
    BY <1>1, <2>1 DEF DueInv
  <2>. QED  BY <2>1, <2>2, <2>3 DEF RoomInv
<1>4. ASSUME ProgramDeliver PROVE RoomInv'
  <2>1. pc = "run" /\ RefreshTo(r) /\ todo' = 0
    BY <1>4 DEF ProgramDeliver, SignalDeliver
  <2>. QED  BY <1>2, <2>1
<1>5. ASSUME ProgramReturn PROVE RoomInv'
  <2>1. pc = "run" /\ RefreshTo(r) /\ todo' = 0
    BY <1>5 DEF ProgramReturn, SignalReturn
  <2>. QED  BY <1>2, <2>1
<1>6. ASSUME Quiet PROVE RoomInv'
  <2>1. pc = "run" /\ RefreshTo(r) /\ todo' = 0
    BY <1>6 DEF Quiet, BuildBlock, ThreadEnd
  <2>. QED  BY <1>2, <2>1
<1>7. ASSUME UNCHANGED jointvars PROVE RoomInv'
  BY <1>7 DEF RoomInv, jointvars, vars, caches
<1>. HIDE DEF r
<1>. QED  BY <1>3, <1>4, <1>5, <1>6, <1>7, EnterRoom DEF JointNext

\* The caches, their pointers and the rest have their types: neither pointer leaves
\* its cache, whatever was left in the second one before.
THEOREM CacheTypeCorrect ==
  ASSUME HalfFits
  PROVE  JointSpec => []TypeOK
<1>1. JointInit => RoomInv
  <2>. SUFFICES ASSUME JointInit PROVE RoomInv
    OBVIOUS
  <2>1. mem_ptr = 0 /\ todo = 0 /\ MemMax \in Nat
    BY CacheSizesAssumption DEF JointInit, Init
  <2>. QED  BY <2>1 DEF RoomInv
<1>2. JInv /\ RoomInv /\ [JointNext]_jointvars => RoomInv'
  BY RoomStep
<1>3. JInv /\ RoomInv => TypeOK
  <2>. SUFFICES ASSUME JInv, RoomInv PROVE TypeOK
    OBVIOUS
  <2>1. Types
    BY DEF JInv
  <2>2. \A i \in DOMAIN out : out[i].key \in Blocks \cup {Root}
    <3>1. out \in Seq(Callback)
      BY <2>1 DEF Types
    <3>2. \A i \in DOMAIN out : out[i] \in Callback
      BY <3>1
    <3>. QED  BY <3>2 DEF Callback, Keys
  <2>. QED  BY <2>1, <2>2 DEF Types, TypeOK, RoomInv, Index, Keys, Nodes
<1>. QED  BY <1>1, <1>2, <1>3, CachesHold, PTL DEF JointSpec
=============================================================================
