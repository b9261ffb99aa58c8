-------------------------- MODULE HpcFormat_proofs --------------------------
(***************************************************************************)
(* The profiles of HpcFormat, for every number of writers, every list of   *)
(* paths, calling context tree and set of modules, and however writers,    *)
(* loads and other processes interleave.  FormatInv is inductive: one part *)
(* of it at a time, and then what the runs check follows.                  *)
(***************************************************************************)
EXTENDS HpcFormat, FiniteSetTheorems, FunctionTheorems, SequenceTheorems, WellFoundedInduction, TLAPS

(* Numbers and sequences.                                                  *)

\* A set of numbers with an element has a least one.
LEMMA MinOf ==
  ASSUME NEW S \in SUBSET Nat, S # {}
  PROVE  /\ Min(S) \in S
         /\ \A y \in S : Min(S) <= y
<1>0. PICK n \in S : TRUE
  OBVIOUS
<1>. DEFINE R == {ss \in Nat \X Nat : ss[1] < ss[2]}
<1>1. IsWellFoundedOn(R, Nat)
  BY NatLessThanWellFounded DEF OpToRel
<1>2. PICK m \in S : \A y \in S : ~ (<<y, m>> \in R)
  BY <1>0, <1>1, WFMin
<1>3. ASSUME NEW y \in S PROVE m <= y
  <2>1. ~ (<<y, m>> \in R) /\ y \in Nat /\ m \in Nat
    BY <1>2
  <2>. QED  BY <2>1
<1>. QED  BY <1>3 DEF Min

\* An interval from 1 has one end.
LEMMA SameInterval ==
  ASSUME NEW a \in Nat, NEW b \in Nat, 1 .. a = 1 .. b
  PROVE  a = b
OBVIOUS

\* What appending does.
LEMMA Appended ==
  ASSUME NEW S, NEW s \in Seq(S), NEW e \in S
  PROVE  /\ Append(s, e) \in Seq(S)
         /\ Len(s) \in Nat /\ Len(Append(s, e)) = Len(s) + 1
         /\ DOMAIN s = 1 .. Len(s) /\ DOMAIN Append(s, e) = DOMAIN s \cup {Len(s) + 1}
         /\ \A i \in DOMAIN s : Append(s, e)[i] = s[i]
         /\ Append(s, e)[Len(s) + 1] = e
<1>1. /\ Append(s, e) \in Seq(S) /\ Len(Append(s, e)) = Len(s) + 1 /\ Len(s) \in Nat
      /\ \A i \in 1 .. Len(s) : Append(s, e)[i] = s[i]
      /\ Append(s, e)[Len(s) + 1] = e
  BY AppendProperties, LenProperties
<1>2. DOMAIN s = 1 .. Len(s) /\ DOMAIN Append(s, e) = 1 .. Len(s) + 1
  BY <1>1, LenProperties
<1>. QED  BY <1>1, <1>2

\* What taking the first element off does.
LEMMA Rest ==
  ASSUME NEW S, NEW s \in Seq(S), s # << >>
  PROVE  /\ Tail(s) \in Seq(S) /\ s[1] \in S /\ Head(s) = s[1]
         /\ Len(s) \in Nat \ {0} /\ DOMAIN s = 1 .. Len(s)
         /\ Len(Tail(s)) = Len(s) - 1 /\ DOMAIN Tail(s) = 1 .. Len(s) - 1
         /\ \A i \in DOMAIN Tail(s) : Tail(s)[i] = s[i + 1]
<1>1. Len(s) \in Nat /\ DOMAIN s = 1 .. Len(s) /\ Len(s) # 0
  BY LenProperties, EmptySeq
<1>2. /\ Tail(s) \in Seq(S) /\ Head(s) \in S /\ Len(Tail(s)) = Len(s) - 1
      /\ \A i \in 1 .. Len(Tail(s)) : Tail(s)[i] = s[i + 1]
  BY HeadTailProperties
<1>3. Head(s) = s[1]
  BY <1>1
<1>. QED  BY <1>1, <1>2, <1>3, LenProperties
-----------------------------------------------------------------------------
(* What steps leave alone.                                                 *)

WriterInv(x) == Placed(x) /\ Signed(x) /\ Recorded(x) /\ Covered(x)

\* The types of what belongs to one writer.
LEMMA Types ==
  ASSUME TypeInv, NEW x \in Writers
  PROVE  /\ tree[x] \in Seq(Node) /\ w[x] \in Writer /\ count[x] \in Nat
         /\ profile[x] \in [size : Nat, map : Seq(Module), count : Nat, rows : Seq(Row)]
         /\ Rows(x) \in Seq(Row)
         /\ DOMAIN tree[x] = 1 .. Len(tree[x]) /\ Len(tree[x]) \in Nat
         /\ DOMAIN Rows(x) = 1 .. Len(Rows(x)) /\ Len(Rows(x)) \in Nat
         /\ \A i \in DOMAIN tree[x] : tree[x][i] \in Node
         /\ \A i \in DOMAIN Rows(x) : Rows(x)[i] \in Row
<1>1. /\ tree[x] \in Seq(Node) /\ w[x] \in Writer /\ count[x] \in Nat
      /\ profile[x] \in [size : Nat, map : Seq(Module), count : Nat, rows : Seq(Row)]
  BY DEF TypeInv
<1>2. Rows(x) \in Seq(Row)
  BY <1>1 DEF Rows
<1>. QED  BY <1>1, <1>2, LenProperties, ElementOfSeq

\* What is said of a writer's tree, place and rows stays with its variables.
LEMMA PlacedKept ==
  ASSUME NEW y, w'[y] = w[y], tree'[y] = tree[y], count'[y] = count[y], profile'[y] = profile[y]
  PROVE  /\ Placed(y)' <=> Placed(y)
         /\ Signed(y)' <=> Signed(y)
         /\ Half(y)' <=> Half(y)
         /\ Written(y)' = Written(y) /\ Rows(y)' = Rows(y)
         /\ Addresses(y)' = Addresses(y)
<1>1. Rows(y)' = Rows(y)
  BY DEF Rows
<1>2. Written(y)' = Written(y)
  BY <1>1 DEF Written
<1>3. Placed(y)' <=> Placed(y)
  BY DEF Placed
<1>4. Signed(y)' <=> Signed(y)
  BY DEF Signed
<1>5. Half(y)' <=> Half(y)
  BY <1>1, <1>2 DEF Half, Pending
<1>6. Addresses(y)' = Addresses(y)
  BY DEF Addresses
<1>. QED  BY <1>1, <1>2, <1>3, <1>4, <1>5, <1>6

\* Rows stay in order when the table of modules only grows.
LEMMA RowsKept ==
  ASSUME NEW y, tree'[y] = tree[y], profile'[y].rows = profile[y].rows, table \subseteq table',
         RowsOK(y)
  PROVE  RowsOK(y)'
<1>1. Rows(y)' = Rows(y)
  BY DEF Rows
<1>2. (\A k \in DOMAIN Rows(y) : \E i \in DOMAIN tree[y] : RowFor(Rows(y)[k], tree[y][i]))'
  BY <1>1 DEF RowsOK, RowFor
<1>. QED  BY <1>1, <1>2 DEF RowsOK

\* A writer's part of the invariant stays with its variables, whatever modules are
\* loaded or unloaded, unless one comes while the writer maps them.
LEMMA WriterKept ==
  ASSUME NEW y, w'[y] = w[y], tree'[y] = tree[y], count'[y] = count[y], profile'[y] = profile[y],
         table \subseteq table', disturbed \subseteq disturbed', unloaded => unloaded',
         y \in raced => y \in raced',
         table' = table \/ (y \notin disturbed' => w[y].pc \notin {"alloc", "fill", "list"}),
         WriterInv(y)
  PROVE  WriterInv(y)'
<1>1. Placed(y)' /\ Signed(y)'
  BY PlacedKept DEF WriterInv
<1>2. Recorded(y)'
  <2>1. Recorded(y)
    BY DEF WriterInv
  <2>2. RowsOK(y)'
    BY <2>1, RowsKept DEF Recorded
  <2>. QED  BY <2>1, <2>2, PlacedKept DEF Recorded
<1>3. Covered(y)'
  <2>1. Covered(y)
    BY DEF WriterInv
  <2>2. Executed(Addresses(y))'
    BY <2>1, PlacedKept DEF Covered, Executed, Generated
  <2>4. Outside(y)' <=> Outside(y)
    BY DEF Outside, Generated
  <2>3. ASSUME y \notin disturbed' PROVE Mapping(y)'
    <3>1. Mapping(y)
      BY <2>1, <2>3 DEF Covered
    <3>2. CASE table' = table
      BY <3>1, <3>2, <2>4, PlacedKept DEF Mapping, Entries, Generated
    <3>3. CASE w[y].pc \notin {"alloc", "fill", "list"}
      BY <3>1, <3>3, <2>4, PlacedKept DEF Mapping, Generated
    <3>. QED  BY <3>2, <3>3, <2>3
  <2>. QED  BY <2>2, <2>3 DEF Covered
<1>. QED  BY <1>1, <1>2, <1>3 DEF WriterInv

\* The table's part of the invariant stays with the modules.
LEMMA TableKept ==
  ASSUME TableInv, UNCHANGED tableVars
  PROVE  TableInv' /\ Entries' = Entries
BY DEF TableInv, Entries, tableVars

\* The files' part of the invariant stays when a writer moves on that neither holds
\* files_lock nor gets its file.
LEMMA FilesKept ==
  ASSUME FileInv, TypeInv, NEW x \in Writers, NEW wx, UNCHANGED fileVars,
         w' = [w EXCEPT ![x] = wx], wx.pc # "try", w[x].pc # "try",
         w[x].pc \in Opened <=> wx.pc \in Opened
  PROVE  FileInv'
<1>1. w'[x] = wx /\ \A y \in Writers \ {x} : w'[y] = w[y]
  BY DEF TypeInv
<1>2. lock' = lock /\ disk' = disk
  BY DEF fileVars
<1>3. lock' \in Writers \cup {None}
  BY <1>2 DEF FileInv
<1>4. ASSUME NEW y \in Writers
      PROVE  /\ (w[y].pc = "try")' <=> w[y].pc = "try"
             /\ (w[y].pc \in Opened)' <=> w[y].pc \in Opened
  BY <1>1, <1>4
<1>. QED  BY <1>2, <1>3, <1>4 DEF FileInv

\* The types after a step of one writer.
LEMMA TypesKept ==
  ASSUME TypeInv, NEW x \in Writers, NEW wx \in Writer, w' = [w EXCEPT ![x] = wx],
         NEW tx \in Seq(Node), tree' = [tree EXCEPT ![x] = tx],
         NEW cx \in Nat, count' = [count EXCEPT ![x] = cx], next_id' \in Nat,
         NEW px \in [size : Nat, map : Seq(Module), count : Nat, rows : Seq(Row)],
         profile' = [profile EXCEPT ![x] = px], UNCHANGED tableVars
  PROVE  TypeInv'
<1>1. tree' \in [Writers -> Seq(Node)]
  BY DEF TypeInv
<1>2. count' \in [Writers -> Nat]
  BY DEF TypeInv
<1>3. w' \in [Writers -> Writer]
  BY DEF TypeInv
<1>4. profile' \in [Writers -> [size : Nat, map : Seq(Module), count : Nat, rows : Seq(Row)]]
  BY DEF TypeInv
<1>5. table' \subseteq Module /\ IsFiniteSet(table') /\ next_key' = Entries' + 1
  BY DEF TypeInv, tableVars, Entries
<1>. QED  BY <1>1, <1>2, <1>3, <1>4, <1>5 DEF TypeInv

\* Everything of the other writers stays, when a step is one writer's.
LEMMA OthersKept ==
  ASSUME FormatInv, NEW x \in Writers, NEW wx, w' = [w EXCEPT ![x] = wx],
         NEW tx, tree' = [tree EXCEPT ![x] = tx], NEW cx, count' = [count EXCEPT ![x] = cx],
         NEW px, profile' = [profile EXCEPT ![x] = px], UNCHANGED tableVars,
         \A y \in Writers \ {x} : y \in raced => y \in raced'
  PROVE  /\ \A y \in Writers \ {x} : WriterInv(y)'
         /\ w'[x] = wx /\ tree'[x] = tx /\ count'[x] = cx /\ profile'[x] = px
         /\ TableInv'
         /\ WriterInv(x)' => \A y \in Writers : (Placed(y) /\ Signed(y) /\ Recorded(y) /\ Covered(y))'
<1>1. w'[x] = wx /\ tree'[x] = tx /\ count'[x] = cx /\ profile'[x] = px
  BY DEF FormatInv, TypeInv
<1>2. ASSUME NEW y \in Writers \ {x} PROVE WriterInv(y)'
  <2>1. w'[y] = w[y] /\ tree'[y] = tree[y] /\ count'[y] = count[y] /\ profile'[y] = profile[y]
    BY DEF FormatInv, TypeInv
  <2>2. WriterInv(y)
    BY DEF FormatInv, WriterInv
  <2>3. table' = table /\ disturbed' = disturbed /\ unloaded' = unloaded
    BY DEF tableVars
  <2>. QED  BY <2>1, <2>2, <2>3, WriterKept
<1>3. TableInv'
  BY TableKept DEF FormatInv
<1>4. ASSUME WriterInv(x)', NEW y \in Writers
      PROVE  (Placed(y) /\ Signed(y) /\ Recorded(y) /\ Covered(y))'
  <2>1. CASE y = x
    BY <1>4, <2>1 DEF WriterInv
  <2>2. CASE y # x
    BY <1>2, <2>2 DEF WriterInv
  <2>. QED  BY <2>1, <2>2
<1>. QED  BY <1>1, <1>2, <1>3, <1>4

\* A step that leaves all writers alone.
LEMMA AllKept ==
  ASSUME FormatInv, UNCHANGED <<treeVars, w, profile, moduleVars>>, FileInv'
  PROVE  FormatInv'
<1>1. /\ table' = table /\ disturbed' = disturbed /\ unloaded' = unloaded
      /\ raced' = raced /\ UNCHANGED tableVars
      /\ w' = w /\ tree' = tree /\ count' = count /\ next_id' = next_id /\ profile' = profile
  BY DEF moduleVars, tableVars, treeVars
<1>2. ASSUME NEW y \in Writers PROVE (Placed(y) /\ Signed(y) /\ Recorded(y) /\ Covered(y))'
  <2>1. WriterInv(y)
    BY DEF FormatInv, WriterInv
  <2>2. WriterInv(y)'
    BY <1>1, <2>1, WriterKept
  <2>. QED  BY <2>2 DEF WriterInv
<1>3. TypeInv'
  BY <1>1 DEF FormatInv, TypeInv, Entries, moduleVars, tableVars
<1>4. TreeInv'
  BY <1>1 DEF FormatInv, TreeInv, TreeOK
<1>5. TableInv'
  BY <1>1, TableKept DEF FormatInv
<1>. QED  BY <1>2, <1>3, <1>4, <1>5 DEF FormatInv
-----------------------------------------------------------------------------
(* Trees.                                                                  *)

\* The trees' part of the invariant stays with the trees.
LEMMA TreesKept ==
  ASSUME TreeInv, UNCHANGED treeVars
  PROVE  TreeInv'
BY DEF TreeInv, TreeOK, treeVars

\* An id is found in the bounds of the counter.
LEMMA IdBounds ==
  ASSUME TypeInv, TreeInv, NEW y \in Writers, NEW i \in DOMAIN tree[y]
  PROVE  /\ tree[y][i].id \in Int /\ tree[y][i].id # 0
         /\ - next_id <= tree[y][i].id /\ tree[y][i].id <= next_id
         /\ next_id \in Nat
BY DEF TypeInv, TreeInv, TreeOK

\* A node made by constructIPNodeFromIP, for a tree that is otherwise as it was
\* (constructIPNodeFromIP) or gone (build_progress_custom_cct_hpurun_format).
LEMMA NodeType ==
  ASSUME TypeInv, NEW x \in Writers, NEW ip \in Ips \cup {0}, NEW sign \in {1, -1},
         NEW metric \in Int, NEW up \in Nat, up = 0 \/ up \in DOMAIN tree[x],
         NEW n, n = NewNode(x, ip, up, sign, metric)
  PROVE  /\ n \in Node
         /\ n.ip = ip /\ n.up = up /\ n.metric = metric
         /\ n.parent = (IF up = 0 THEN 0 ELSE tree[x][up].id)
         /\ n.id \in {NewId, - NewId}
         /\ IF sign = 1 THEN ~ (n.id < 0) ELSE n.id < 0
         /\ NewId \in Nat /\ NewId > next_id
<1>1. next_id \in Nat
  BY DEF TypeInv
<1>2. NewId \in Nat /\ NewId > next_id
  BY <1>1 DEF NewId
<1>3. sign * NewId = IF sign = 1 THEN NewId ELSE - NewId
  BY <1>2
<1>4. (IF up = 0 THEN 0 ELSE tree[x][up].id) \in Int
  BY Types DEF Node
<1>5. n = [ip |-> ip, up |-> up, id |-> sign * NewId, metric |-> metric,
           parent |-> IF up = 0 THEN 0 ELSE tree[x][up].id]
  BY DEF NewNode
<1>6. /\ sign * NewId \in Int /\ sign * NewId \in {NewId, - NewId}
      /\ IF sign = 1 THEN ~ (sign * NewId < 0) ELSE sign * NewId < 0
  BY <1>1, <1>2, <1>3
<1>7. n \in Node
  BY <1>4, <1>5, <1>6 DEF Node
<1>. QED  BY <1>2, <1>5, <1>6, <1>7

\* The trees stay in order when one of them gets a node with the next id, below a
\* node it has: the id is that of no other node, with either sign.
LEMMA Grown ==
  ASSUME TypeInv, TreeInv, NEW x \in Writers, NEW n \in Node,
         NEW t \in Seq(Node), t = tree[x] \/ t = << >>,
         tree' = [tree EXCEPT ![x] = Append(t, n)],
         count' = [count EXCEPT ![x] = Len(t) + 1],
         next_id' = NewId, n.id \in {NewId, - NewId},
         IF t = << >> THEN n.up = 0 /\ n.parent = 0
         ELSE n.up \in DOMAIN t /\ n.parent = t[n.up].id
  PROVE  TreeInv'
<1>. DEFINE m == Len(t) + 1
<1>1. /\ tree'[x] = Append(t, n) /\ count'[x] = m /\ Len(tree'[x]) = m /\ m \in Nat \ {0}
      /\ DOMAIN t = 1 .. m - 1 /\ DOMAIN tree'[x] = 1 .. m
      /\ \A i \in DOMAIN t : tree'[x][i] = t[i]
      /\ tree'[x][m] = n
  <2>1. tree'[x] = Append(t, n) /\ count'[x] = m
    BY DEF TypeInv
  <2>2. /\ Len(t) \in Nat /\ Len(Append(t, n)) = Len(t) + 1 /\ DOMAIN t = 1 .. Len(t)
        /\ \A i \in DOMAIN t : Append(t, n)[i] = t[i]
        /\ Append(t, n)[Len(t) + 1] = n /\ DOMAIN Append(t, n) = DOMAIN t \cup {Len(t) + 1}
    BY Appended
  <2>. QED  BY <2>1, <2>2
<1>2. \A y \in Writers \ {x} : tree'[y] = tree[y] /\ count'[y] = count[y]
  BY DEF TypeInv
<1>3. next_id \in Nat /\ next_id' = next_id + 2 /\ n.id \in Int
  BY DEF TypeInv, NewId, Node
<1>4. \A i \in DOMAIN t : t = tree[x] /\ i \in DOMAIN tree[x]
  BY <1>1
<1>. HIDE DEF m
<1>5. TreeOK(x)'
  <2>1. ASSUME NEW i \in 1 .. m
        PROVE  /\ IF i = 1 THEN tree'[x][i].up = 0 /\ tree'[x][i].parent = 0
                  ELSE /\ tree'[x][i].up \in 1 .. i - 1
                       /\ tree'[x][i].parent = tree'[x][tree'[x][i].up].id
               /\ tree'[x][i].id \in (- next_id' .. next_id') \ {0}
    <3>1. CASE i = m
      <4>1. n.id \in (- next_id' .. next_id') \ {0}
        BY <1>3 DEF NewId
      <4>2. CASE t = << >>
        <5>1. m = 1
          BY <4>2, <1>1
        <5>. QED  BY <5>1, <3>1, <4>1, <4>2, <1>1
      <4>3. CASE t # << >>
        <5>1. m # 1
          BY <4>3, EmptySeq, <1>1
        <5>2. n.up \in 1 .. m - 1 /\ n.parent = tree'[x][n.up].id
          BY <4>3, <1>1
        <5>. QED  BY <5>1, <5>2, <3>1, <4>1, <1>1
      <4>. QED  BY <4>2, <4>3
    <3>2. CASE i # m
      <4>1. i \in DOMAIN t /\ tree'[x][i] = t[i] /\ i \in Nat
        BY <3>2, <1>1, <2>1
      <4>2. /\ IF i = 1 THEN t[i].up = 0 /\ t[i].parent = 0
               ELSE /\ t[i].up \in 1 .. i - 1
                    /\ t[i].parent = t[t[i].up].id
            /\ t[i].id \in (- next_id .. next_id) \ {0}
        BY <4>1, <1>4 DEF TreeInv, TreeOK
      <4>3. i # 1 => t[i].up \in DOMAIN t /\ tree'[x][t[i].up] = t[t[i].up]
        BY <4>1, <4>2, <1>1
      <4>4. t[i].id \in (- next_id' .. next_id') \ {0}
        BY <4>2, <1>3
      <4>. QED  BY <4>1, <4>2, <4>3, <4>4
    <3>. QED  BY <3>1, <3>2
  <2>. QED  BY <1>1, <2>1 DEF TreeOK
<1>6. ASSUME NEW y \in Writers \ {x} PROVE TreeOK(y)'
  <2>1. TreeOK(y) /\ tree'[y] = tree[y] /\ count'[y] = count[y]
    BY <1>2 DEF TreeInv
  <2>2. \A i \in DOMAIN tree[y] : tree[y][i].id \in (- next_id' .. next_id') \ {0}
    <3>1. \A i \in DOMAIN tree[y] : tree[y][i].id \in (- next_id .. next_id) \ {0}
      BY <2>1 DEF TreeOK
    <3>. QED  BY <3>1, <1>3
  <2>. QED  BY <2>1, <2>2 DEF TreeOK
<1>7. ASSUME NEW y \in Writers, NEW i \in DOMAIN tree'[y], ~ (y = x /\ i = m)
      PROVE  i \in DOMAIN tree[y] /\ tree'[y][i] = tree[y][i]
  BY <1>1, <1>2, <1>4, <1>7
<1>8. ASSUME NEW y \in Writers, NEW i \in DOMAIN tree'[y], ~ (y = x /\ i = m)
      PROVE  ~ SameId(tree'[y][i].id, n.id) /\ ~ SameId(n.id, tree'[y][i].id)
  <2>1. /\ tree'[y][i].id \in Int /\ - next_id <= tree'[y][i].id /\ tree'[y][i].id <= next_id
    BY <1>7, <1>8, IdBounds
  <2>. QED  BY Z3T(60), <2>1, <1>3 DEF NewId, SameId
<1>9. ASSUME NEW y \in Writers, NEW z \in Writers,
             NEW i \in DOMAIN tree'[y], NEW k \in DOMAIN tree'[z],
             SameId(tree'[y][i].id, tree'[z][k].id)
      PROVE  y = z /\ i = k
  <2>1. CASE y = x /\ i = m
    BY <1>8, <1>9, <2>1, <1>1
  <2>2. CASE z = x /\ k = m
    BY <1>8, <1>9, <2>2, <1>1
  <2>3. CASE ~ (y = x /\ i = m) /\ ~ (z = x /\ k = m)
    <3>1. /\ i \in DOMAIN tree[y] /\ tree'[y][i] = tree[y][i]
          /\ k \in DOMAIN tree[z] /\ tree'[z][k] = tree[z][k]
      BY <1>7, <2>3
    <3>. QED  BY <3>1, <1>9 DEF TreeInv
  <2>. QED  BY <2>1, <2>2, <2>3
<1>. QED  BY <1>5, <1>6, <1>9 DEF TreeInv, SameId

\* A tree whose nodes stay in their places: metrics change, and signs of leaves.
Similar(s, t) ==
  /\ DOMAIN s = DOMAIN t
  /\ \A i \in DOMAIN s :
       /\ s[i].up = t[i].up /\ s[i].parent = t[i].parent
       /\ SameId(s[i].id, t[i].id)
       /\ s[i].id = t[i].id \/ IsLeaf(t, i)

\* The trees stay in order when ids of leaves change their sign: nobody names a leaf
\* as its parent, and an id is unique up to its sign.
LEMMA Alike ==
  ASSUME TypeInv, TreeInv, NEW x \in Writers, NEW t \in Seq(Node),
         tree' = [tree EXCEPT ![x] = t], next_id' = next_id, count' = count,
         Similar(t, tree[x])
  PROVE  TreeInv'
<1>0. /\ DOMAIN t = DOMAIN tree[x]
      /\ \A i \in DOMAIN t :
           /\ t[i].up = tree[x][i].up /\ t[i].parent = tree[x][i].parent
           /\ SameId(t[i].id, tree[x][i].id)
           /\ t[i].id = tree[x][i].id \/ IsLeaf(tree[x], i)
  BY DEF Similar
<1>1. tree'[x] = t /\ \A y \in Writers \ {x} : tree'[y] = tree[y]
  BY DEF TypeInv
<1>2. /\ DOMAIN t = 1 .. Len(t) /\ Len(t) \in Nat
      /\ DOMAIN tree[x] = 1 .. Len(tree[x]) /\ Len(tree[x]) \in Nat
  BY <1>0, Types, LenProperties
<1>3. Len(t) = Len(tree[x])
  BY <1>0, <1>2, SameInterval
<1>4. next_id \in Nat
  BY DEF TypeInv
<1>5. TreeOK(x)'
  <2>1. TreeOK(x)
    BY DEF TreeInv
  <2>2. ASSUME NEW i \in DOMAIN t
        PROVE  /\ IF i = 1 THEN t[i].up = 0 /\ t[i].parent = 0
                  ELSE t[i].up \in 1 .. i - 1 /\ t[i].parent = t[t[i].up].id
               /\ t[i].id \in (- next_id .. next_id) \ {0}
    <3>0. i \in 1 .. Len(tree[x]) /\ i \in Nat
      <4>1. i \in 1 .. Len(t)
        BY <1>2, Zenon
      <4>. QED  BY <4>1, <1>2, <1>3
    <3>1. /\ IF i = 1 THEN tree[x][i].up = 0 /\ tree[x][i].parent = 0
             ELSE /\ tree[x][i].up \in 1 .. i - 1
                  /\ tree[x][i].parent = tree[x][tree[x][i].up].id
          /\ tree[x][i].id \in (- next_id .. next_id) \ {0}
      BY <2>1, <1>0 DEF TreeOK
    <3>2. t[i].id \in (- next_id .. next_id) \ {0}
      BY <3>1, <1>0, <1>4 DEF SameId
    <3>3. CASE i = 1
      BY <3>1, <3>2, <3>3, <1>0
    <3>4. CASE i # 1
      <4>1. t[i].up \in DOMAIN t /\ t[i].up \in 1 .. i - 1
        BY <3>0, <3>1, <3>4, <1>0, <1>2
      <4>2. ~ IsLeaf(tree[x], t[i].up)
        BY <3>4, <1>0 DEF IsLeaf, Children
      <4>3. t[t[i].up].id = tree[x][tree[x][i].up].id
        BY <4>1, <4>2, <1>0
      <4>. QED  BY <3>1, <3>2, <3>4, <4>1, <4>3, <1>0
    <3>. QED  BY <3>3, <3>4
  <2>3. count'[x] = Len(tree'[x])
    BY <1>1, <1>3, <2>1 DEF TreeOK
  <2>. QED  BY <1>1, <2>2, <2>3 DEF TreeOK
<1>6. ASSUME NEW y \in Writers \ {x} PROVE TreeOK(y)'
  BY <1>1 DEF TreeInv, TreeOK
<1>7. ASSUME NEW y \in Writers, NEW i \in DOMAIN tree'[y]
      PROVE  /\ i \in DOMAIN tree[y] /\ SameId(tree'[y][i].id, tree[y][i].id)
             /\ tree[y][i].id \in Int
  <2>1. i \in DOMAIN tree[y]
    BY <1>0, <1>1
  <2>2. tree[y][i].id \in Int
    BY <2>1, IdBounds
  <2>3. SameId(tree'[y][i].id, tree[y][i].id)
    <3>1. CASE y = x
      BY <3>1, <1>0, <1>1, <2>1
    <3>2. CASE y # x
      BY <3>2, <1>1 DEF SameId
    <3>. QED  BY <3>1, <3>2
  <2>. QED  BY <2>1, <2>2, <2>3
<1>8. ASSUME NEW y \in Writers, NEW z \in Writers,
             NEW i \in DOMAIN tree'[y], NEW k \in DOMAIN tree'[z],
             SameId(tree'[y][i].id, tree'[z][k].id)
      PROVE  y = z /\ i = k
  <2>1. /\ i \in DOMAIN tree[y] /\ SameId(tree'[y][i].id, tree[y][i].id) /\ tree[y][i].id \in Int
        /\ k \in DOMAIN tree[z] /\ SameId(tree'[z][k].id, tree[z][k].id) /\ tree[z][k].id \in Int
    BY <1>7
  <2>2. SameId(tree[y][i].id, tree[z][k].id)
    BY <2>1, <1>8 DEF SameId
  <2>. QED  BY <2>1, <2>2 DEF TreeInv
<1>. QED  BY <1>5, <1>6, <1>8 DEF TreeInv, SameId

\* The tree and the count a step leaves a writer with.
SetCount(x, c) == count' = [count EXCEPT ![x] = c]
Adds(x, n, ip, up, sign, metric) ==
  /\ n.ip = ip /\ n.up = up /\ n.metric = metric
  /\ IF sign = 1 THEN ~ (n.id < 0) ELSE n.id < 0
  /\ tree' = [tree EXCEPT ![x] = Append(tree[x], n)]

\* What Construct does.
LEMMA Constructed ==
  ASSUME TypeInv, TreeInv, NEW x \in Writers, NEW ip \in Ips \cup {0}, NEW sign \in {1, -1},
         NEW metric \in Int, NEW up \in Nat,
         tree[x] = << >> => up = 0, tree[x] # << >> => up \in DOMAIN tree[x],
         Construct(x, ip, up, sign, metric)
  PROVE  /\ TreeInv' /\ next_id' \in Nat
         /\ \E cx \in Nat : SetCount(x, cx)
         /\ \E n \in Node : Adds(x, n, ip, up, sign, metric)
<1>1. tree[x] \in Seq(Node) /\ Len(tree[x]) \in Nat /\ DOMAIN tree[x] = 1 .. Len(tree[x])
  BY Types
<1>2. up = 0 \/ up \in DOMAIN tree[x]
  OBVIOUS
<1>3. PICK n : n = NewNode(x, ip, up, sign, metric)
  OBVIOUS
<1>4. /\ n \in Node /\ n.ip = ip /\ n.up = up /\ n.metric = metric
      /\ n.parent = (IF up = 0 THEN 0 ELSE tree[x][up].id)
      /\ n.id \in {NewId, - NewId}
      /\ IF sign = 1 THEN ~ (n.id < 0) ELSE n.id < 0
      /\ NewId \in Nat
  BY SMTT(60), <1>2, <1>3, NodeType
<1>5. /\ next_id' = NewId /\ tree' = [tree EXCEPT ![x] = Append(tree[x], n)]
      /\ count' = [count EXCEPT ![x] = count[x] + 1]
  BY <1>3 DEF Construct
<1>6. count[x] = Len(tree[x])
  BY DEF TreeInv, TreeOK
<1>7. IF tree[x] = << >> THEN n.up = 0 /\ n.parent = 0
      ELSE n.up \in DOMAIN tree[x] /\ n.parent = tree[x][n.up].id
  <2>1. CASE tree[x] = << >>
    BY <1>4, <2>1
  <2>2. CASE tree[x] # << >>
    BY <1>1, <1>4, <2>2
  <2>. QED  BY <2>1, <2>2
<1>8. TreeInv'
  BY <1>1, <1>4, <1>5, <1>6, <1>7, Grown
<1>9. next_id' \in Nat /\ count[x] + 1 \in Nat
  BY <1>1, <1>4, <1>5, <1>6
<1>10. Adds(x, n, ip, up, sign, metric) /\ SetCount(x, count[x] + 1)
  BY <1>4, <1>5 DEF Adds, SetCount
<1>. QED  BY <1>4, <1>8, <1>9, <1>10

\* A step on one writer's tree, before it has written any row.
LEMMA TreeStep ==
  ASSUME FormatInv, NEW x \in Writers,
         NEW wx \in Writer, w' = [w EXCEPT ![x] = wx],
         NEW tx \in Seq(Node), tree' = [tree EXCEPT ![x] = tx],
         NEW cx \in Nat, count' = [count EXCEPT ![x] = cx], next_id' \in Nat,
         UNCHANGED <<fileVars, moduleVars, profile>>,
         w[x].pc \in {"idle", "insert", "rows"}, wx.pc \in {"idle", "insert", "rows"},
         w[x].pc = "rows" <=> wx.pc = "rows",
         wx.kids = w[x].kids, wx.last = w[x].last,
         TreeInv', Placed(x)', Signed(x)',
         \A ip \in Addresses(x)' \ {0} :
           ip \in Addresses(x) \/ (wx.pc # "rows" /\ Executed({ip}))
  PROVE  FormatInv'
<1>0. TypeInv /\ FileInv /\ Recorded(x) /\ Covered(x)
  BY DEF FormatInv
<1>1. profile' = [profile EXCEPT ![x] = profile[x]]
  BY <1>0 DEF TypeInv
<1>2. profile[x] \in [size : Nat, map : Seq(Module), count : Nat, rows : Seq(Row)]
  BY <1>0, Types
<1>01. UNCHANGED tableVars /\ raced' = raced
  BY DEF moduleVars
<1>3. TypeInv'
  BY <1>0, <1>01, <1>1, <1>2, TypesKept
<1>4. FileInv'
  BY <1>0, FilesKept DEF Opened
<1>5. w'[x] = wx /\ profile'[x] = profile[x]
  BY <1>0 DEF TypeInv
<1>6. Rows(x)' = << >>
  BY <1>0, <1>5 DEF Recorded, Rows
<1>7. Recorded(x)'
  <2>1. RowsOK(x)'
    BY <1>6, EmptySeq DEF RowsOK
  <2>. QED  BY <1>0, <1>5, <1>6, <2>1 DEF Recorded
<1>8. Covered(x)'
  <2>1. table' = table /\ disturbed' = disturbed /\ unloaded' = unloaded
    BY DEF moduleVars, tableVars
  <2>2. Executed(Addresses(x))'
    BY <1>0, <2>1 DEF Covered, Executed, Generated
  <2>3. ASSUME x \notin disturbed' PROVE Mapping(x)'
    <3>1. Mapping(x)
      BY <1>0, <2>1, <2>3 DEF Covered
    <3>. QED  BY <3>1, <1>5, <2>1 DEF Mapping, Generated
  <2>. QED  BY <2>2, <2>3 DEF Covered
<1>9. WriterInv(x)'
  BY <1>7, <1>8 DEF WriterInv
<1>10. TableInv' /\ \A y \in Writers : (Placed(y) /\ Signed(y) /\ Recorded(y) /\ Covered(y))'
  BY <1>01, <1>1, <1>9, OthersKept
<1>. QED  BY <1>3, <1>4, <1>10 DEF FormatInv
-----------------------------------------------------------------------------
(* Steps on trees.                                                         *)

\* The record of a writer that starts a call to build.
LEMMA BuildRecord ==
  ASSUME NEW r \in Writer, NEW list \in Seq(Paths)
  PROVE  LET s == [r EXCEPT !.pc = "insert", !.todo = list, !.cur = 1, !.builds = @ + 1] IN
         /\ s \in Writer /\ r.builds \in Nat
         /\ s.pc = "insert" /\ s.todo = list /\ s.cur = 1 /\ s.builds = r.builds + 1
         /\ s.at = r.at /\ s.kids = r.kids /\ s.last = r.last
<1>1. ASSUME NEW b \in Nat
      PROVE  LET s == [r EXCEPT !.pc = "insert", !.todo = list, !.cur = 1, !.builds = b] IN
             /\ s \in Writer
             /\ s.pc = "insert" /\ s.todo = list /\ s.cur = 1 /\ s.builds = b
             /\ s.at = r.at /\ s.kids = r.kids /\ s.last = r.last
  BY DEF Writer
<1>2. r.builds \in Nat /\ r.builds + 1 \in Nat
  BY DEF Writer
<1>. QED  BY <1>1, <1>2

\* The start of a call to build, once there is a root.
LEMMA BuildStep ==
  ASSUME FormatInv, NEW x \in Writers, NEW list \in Selections[x],
         w[x].pc = "idle", Mode[x] = "custom", Executed(Passed(list)),
         w' = [w EXCEPT ![x] = [w[x] EXCEPT !.pc = "insert", !.todo = list, !.cur = 1, !.builds = @ + 1]],
         NEW tx \in Seq(Node), tree' = [tree EXCEPT ![x] = tx], tx # << >>,
         \A i \in DOMAIN tx : tx[i].ip = 0 \/ (i \in DOMAIN tree[x] /\ tx[i] = tree[x][i]),
         w[x].builds = 0 => \A i \in DOMAIN tx : ~ (tx[i].id < 0),
         NEW cx \in Nat, count' = [count EXCEPT ![x] = cx], next_id' \in Nat,
         TreeInv', UNCHANGED <<fileVars, moduleVars, profile>>
  PROVE  FormatInv'
<1>1. TypeInv /\ Placed(x) /\ w[x] \in Writer
  BY Types DEF FormatInv
<1>2. list \in Seq(Paths)
  BY ListsAssumption DEF Paths
<1>. DEFINE wx == [w[x] EXCEPT !.pc = "insert", !.todo = list, !.cur = 1, !.builds = @ + 1]
<1>3. /\ wx \in Writer /\ w' = [w EXCEPT ![x] = wx] /\ w[x].builds \in Nat
      /\ wx.pc = "insert" /\ wx.todo = list /\ wx.cur = 1 /\ wx.builds = w[x].builds + 1
      /\ wx.at = w[x].at /\ wx.kids = w[x].kids /\ wx.last = w[x].last
  <2>1. LET s == wx IN
        /\ s \in Writer /\ w[x].builds \in Nat
        /\ s.pc = "insert" /\ s.todo = list /\ s.cur = 1 /\ s.builds = w[x].builds + 1
        /\ s.at = w[x].at /\ s.kids = w[x].kids /\ s.last = w[x].last
    BY <1>1, <1>2, BuildRecord
  <2>. QED  BY <2>1
<1>. HIDE DEF wx
<1>4. w'[x] = wx /\ tree'[x] = tx
  BY <1>1, <1>3 DEF TypeInv
<1>5. DOMAIN tx = 1 .. Len(tx) /\ Len(tx) \in Nat /\ 1 \in DOMAIN tx
  BY LenProperties, EmptySeq
<1>6. w[x].at = <<0>>
  BY <1>1 DEF Placed
<1>7. Placed(x)'
  <2>1. wx.at # << >> /\ wx.at[1] = 0 /\ \A k \in DOMAIN wx.at : ~ (k > 1)
    BY <1>3, <1>6
  <2>. QED  BY <2>1, <1>2, <1>3, <1>4, <1>5, <1>6 DEF Placed
<1>8. Signed(x)'
  <2>1. wx.builds # 0 /\ (wx.builds = 1 => \A i \in DOMAIN tx : ~ (tx[i].id < 0))
    BY <1>3
  <2>. QED  BY <2>1, <1>3, <1>4 DEF Signed
<1>9. ASSUME NEW ip \in Addresses(x)' \ {0}
      PROVE  ip \in Addresses(x) \/ (wx.pc # "rows" /\ Executed({ip}))
  <2>1. ip \in {tx[i].ip : i \in DOMAIN tx} \/ ip \in Passed(list)
    BY <1>3, <1>4 DEF Addresses
  <2>2. ip \in {tx[i].ip : i \in DOMAIN tx} => ip \in {tree[x][i].ip : i \in DOMAIN tree[x]}
    OBVIOUS
  <2>3. ip \in Passed(list) => Executed({ip})
    BY DEF Executed
  <2>. QED  BY <2>1, <2>2, <2>3, <1>3 DEF Addresses
<1>. QED  BY <1>3, <1>7, <1>8, <1>9, TreeStep

\* build_thread_custom_cct_hpurun_format makes a root the first time only.
LEMMA BuildInv ==
  ASSUME FormatInv, NEW x \in Writers, NEW list \in Selections[x], Build(x, list)
  PROVE  FormatInv'
<1>1. /\ TypeInv /\ TreeInv /\ Signed(x) /\ Placed(x) /\ tree[x] \in Seq(Node)
      /\ count[x] \in Nat /\ next_id \in Nat
  BY Types DEF FormatInv, TypeInv
<1>2. /\ w[x].pc = "idle" /\ Mode[x] = "custom" /\ Executed(Passed(list))
      /\ w' = [w EXCEPT ![x] = [w[x] EXCEPT !.pc = "insert", !.todo = list, !.cur = 1, !.builds = @ + 1]]
      /\ IF tree[x] = << >> THEN Construct(x, 0, 0, 1, 0) ELSE UNCHANGED treeVars
      /\ UNCHANGED <<fileVars, moduleVars, profile>>
  BY DEF Build
<1>3. CASE tree[x] = << >>
  <2>0. PICK ip \in Ips \cup {0}, up \in Nat, metric \in Int, sign \in {1, -1} :
          ip = 0 /\ up = 0 /\ metric = 0 /\ sign = 1
    OBVIOUS
  <2>1. Construct(x, ip, up, sign, metric) /\ (tree[x] = << >> => up = 0)
    BY <1>2, <1>3, <2>0
  <2>2. TreeInv' /\ next_id' \in Nat
    BY <1>1, <1>3, <2>1, Constructed
  <2>3. PICK cx \in Nat : SetCount(x, cx)
    BY <1>1, <1>3, <2>1, Constructed
  <2>4. PICK n \in Node : Adds(x, n, ip, up, sign, metric)
    BY <1>1, <1>3, <2>1, Constructed
  <2>5. PICK tx : tx = Append(tree[x], n)
    OBVIOUS
  <2>6. tx \in Seq(Node) /\ tx # << >> /\ DOMAIN tx = {1} /\ tx[1] = n
    BY <1>1, <1>3, <2>5, Appended, EmptySeq
  <2>7. \A i \in DOMAIN tx : tx[i].ip = 0 /\ ~ (tx[i].id < 0)
    BY <2>0, <2>4, <2>6 DEF Adds
  <2>8. tree' = [tree EXCEPT ![x] = tx] /\ count' = [count EXCEPT ![x] = cx]
    BY <2>3, <2>4, <2>5 DEF Adds, SetCount
  <2>. QED  BY <1>2, <2>2, <2>6, <2>7, <2>8, BuildStep
<1>4. CASE tree[x] # << >>
  <2>1. TreeInv'
    BY <1>1, <1>2, <1>4, TreesKept
  <2>2. tree' = [tree EXCEPT ![x] = tree[x]] /\ count' = [count EXCEPT ![x] = count[x]] /\ next_id' \in Nat
    BY <1>1, <1>2, <1>4 DEF treeVars, TypeInv
  <2>3. w[x].builds = 0 => tree[x] = << >>
    BY <1>1, <1>2 DEF Signed
  <2>. QED  BY <1>1, <1>2, <1>4, <2>1, <2>2, <2>3, BuildStep
<1>. QED  BY <1>3, <1>4

\* build_progress_custom_cct_hpurun_format puts a new root in place of the tree.
LEMMA BuildAnewInv ==
  ASSUME FormatInv, NEW x \in Writers, NEW list \in Selections[x], BuildAnew(x, list)
  PROVE  FormatInv'
<1>1. TypeInv /\ TreeInv
  BY DEF FormatInv
<1>0. PICK n : n = NewNode(x, 0, 0, 1, 0)
  OBVIOUS
<1>2. /\ w[x].pc = "idle" /\ Mode[x] = "custom" /\ Executed(Passed(list))
      /\ w' = [w EXCEPT ![x] = [w[x] EXCEPT !.pc = "insert", !.todo = list, !.cur = 1, !.builds = @ + 1]]
      /\ next_id' = NewId /\ tree' = [tree EXCEPT ![x] = <<n>>]
      /\ count' = [count EXCEPT ![x] = 1]
      /\ UNCHANGED <<fileVars, moduleVars, profile>>
  BY <1>0 DEF BuildAnew
<1>3. /\ n \in Node /\ n.ip = 0 /\ n.up = 0 /\ n.parent = 0 /\ ~ (n.id < 0)
      /\ n.id \in {NewId, - NewId} /\ NewId \in Nat
  BY <1>0, <1>1, NodeType
<1>4. <<n>> \in Seq(Node) /\ <<n>> = Append(<< >>, n) /\ << >> \in Seq(Node) /\ Len(<< >>) = 0
  BY <1>3, EmptySeq
<1>5. tree' = [tree EXCEPT ![x] = Append(<< >>, n)] /\ count' = [count EXCEPT ![x] = Len(<< >>) + 1]
  BY <1>2, <1>4
<1>6. TreeInv'
  BY <1>1, <1>2, <1>3, <1>4, <1>5, Grown
<1>7. DOMAIN <<n>> = {1} /\ <<n>>[1] = n /\ <<n>> # << >>
  OBVIOUS
<1>. QED  BY ZenonT(60), <1>2, <1>3, <1>4, <1>6, <1>7, BuildStep

\* Less of the first path, or one path less: no new addresses.
LEMMA PassedShorter ==
  ASSUME NEW list \in Seq(Paths), list # << >>
  PROVE  /\ list[1].path \in Seq(Ips \cup {0}) /\ Tail(list) \in Seq(Paths)
         /\ Passed(Tail(list)) \subseteq Passed(list)
         /\ list[1].path # << >> =>
              /\ list[1].path[1] \in Passed(list) /\ list[1].path[1] \in Ips \cup {0}
              /\ [list EXCEPT ![1].path = Tail(@)] \in Seq(Paths) \ {<< >>}
              /\ Passed([list EXCEPT ![1].path = Tail(@)]) \subseteq Passed(list)
<1>1. /\ Len(list) \in Nat \ {0} /\ DOMAIN list = 1 .. Len(list) /\ list[1] \in Paths
      /\ Tail(list) \in Seq(Paths) /\ DOMAIN Tail(list) = 1 .. Len(list) - 1
      /\ \A i \in DOMAIN Tail(list) : Tail(list)[i] = list[i + 1]
  BY Rest
<1>2. list[1].path \in Seq(Ips \cup {0})
  BY <1>1 DEF Paths
<1>3. \A i \in DOMAIN Tail(list) : i + 1 \in DOMAIN list
  BY <1>1
<1>4. Passed(Tail(list)) \subseteq Passed(list)
  BY <1>1, <1>3 DEF Passed
<1>5. ASSUME list[1].path # << >>
      PROVE  /\ list[1].path[1] \in Passed(list) /\ list[1].path[1] \in Ips \cup {0}
             /\ [list EXCEPT ![1].path = Tail(@)] \in Seq(Paths) \ {<< >>}
             /\ Passed([list EXCEPT ![1].path = Tail(@)]) \subseteq Passed(list)
  <2>. DEFINE path == list[1].path
  <2>1. /\ Tail(path) \in Seq(Ips \cup {0}) /\ path[1] \in Ips \cup {0}
        /\ Len(path) \in Nat \ {0} /\ DOMAIN path = 1 .. Len(path)
        /\ DOMAIN Tail(path) = 1 .. Len(path) - 1
        /\ \A i \in DOMAIN Tail(path) : Tail(path)[i] = path[i + 1]
    BY <1>2, <1>5, Rest
  <2>2. path[1] \in ToSet(path) /\ ToSet(Tail(path)) \subseteq ToSet(path)
    <3>1. 1 \in DOMAIN path /\ \A i \in DOMAIN Tail(path) : i + 1 \in DOMAIN path
      BY <2>1
    <3>. QED  BY <2>1, <3>1 DEF ToSet
  <2>3. PICK p : p = [list[1] EXCEPT !.path = Tail(path)]
    OBVIOUS
  <2>4. p \in Paths /\ p.path = Tail(path)
    BY <1>1, <2>1, <2>3 DEF Paths
  <2>5. PICK l : l = [list EXCEPT ![1].path = Tail(@)]
    OBVIOUS
  <2>6. l = [list EXCEPT ![1] = p]
    BY <1>1, <2>3, <2>5
  <2>7. l \in Seq(Paths) /\ DOMAIN l = DOMAIN list /\ Len(l) = Len(list)
    BY <1>1, <2>4, <2>6, ExceptSeq
  <2>8. \A k \in DOMAIN l : l[k] = IF k = 1 THEN p ELSE list[k]
    BY <2>6, <2>7
  <2>9. \A k \in DOMAIN l : ToSet(l[k].path) \subseteq ToSet(list[k].path)
    BY <2>2, <2>4, <2>7, <2>8
  <2>10. Passed(l) \subseteq Passed(list)
    BY <2>7, <2>9 DEF Passed
  <2>11. path[1] \in Passed(list)
    BY <1>1, <2>2 DEF Passed
  <2>12. l # << >>
    BY <1>1, <2>7, EmptySeq
  <2>. QED  BY <2>1, <2>5, <2>7, <2>10, <2>11, <2>12
<1>. QED  BY <1>1, <1>2, <1>4, <1>5

\* The record r of a writer that inserts an address, or a metric, becomes s.
Consumes(r, c, s) ==
  \/ /\ r.todo[1].path # << >>
     /\ s = [r EXCEPT !.cur = c, !.todo[1].path = Tail(@)]
  \/ s = [r EXCEPT !.cur = c, !.todo = Tail(@)]

Consumed(r, c, s) ==
  /\ s \in Writer /\ s.todo \in Seq(Paths) /\ Passed(s.todo) \subseteq Passed(r.todo)
  /\ s.cur = c /\ s.pc = r.pc /\ s.at = r.at /\ s.builds = r.builds
  /\ s.kids = r.kids /\ s.last = r.last

\* What hpcrun_insert_path has left to insert has been passed before.
LEMMA InsertRecord ==
  ASSUME NEW r \in Writer, r.todo \in Seq(Paths), r.todo # << >>, NEW c \in Nat, NEW s,
         Consumes(r, c, s)
  PROVE  Consumed(r, c, s)
<1>1. PICK l \in Seq(Paths) :
        s = [r EXCEPT !.cur = c, !.todo = l] /\ Passed(l) \subseteq Passed(r.todo)
  <2>1. CASE r.todo[1].path # << >> /\ s = [r EXCEPT !.cur = c, !.todo[1].path = Tail(@)]
    <3>1. PICK l : l = [r.todo EXCEPT ![1].path = Tail(@)]
      OBVIOUS
    <3>2. l \in Seq(Paths) /\ Passed(l) \subseteq Passed(r.todo)
      BY <2>1, <3>1, PassedShorter
    <3>3. s = [r EXCEPT !.cur = c, !.todo = l]
      BY <2>1, <3>1 DEF Writer
    <3>. QED  BY <3>2, <3>3
  <2>2. CASE s = [r EXCEPT !.cur = c, !.todo = Tail(@)]
    <3>1. Tail(r.todo) \in Seq(Paths) /\ Passed(Tail(r.todo)) \subseteq Passed(r.todo)
      BY PassedShorter
    <3>. QED  BY <2>2, <3>1
  <2>. QED  BY <2>1, <2>2 DEF Consumes
<1>2. /\ s \in Writer /\ s.todo = l
      /\ s.cur = c /\ s.pc = r.pc /\ s.at = r.at /\ s.builds = r.builds
      /\ s.kids = r.kids /\ s.last = r.last
  BY <1>1 DEF Writer
<1>. QED  BY <1>1, <1>2 DEF Consumed

\* A step of hpcrun_insert_path, on a tree that may have grown.
LEMMA InsertStep ==
  ASSUME FormatInv, NEW x \in Writers, w[x].pc = "insert", w[x].todo # << >>,
         NEW c \in Nat, NEW wx, Consumed(w[x], c, wx),
         w' = [w EXCEPT ![x] = wx],
         NEW tx \in Seq(Node), tree' = [tree EXCEPT ![x] = tx],
         NEW cx \in Nat, count' = [count EXCEPT ![x] = cx], next_id' \in Nat,
         c \in DOMAIN tx,
         \A i \in DOMAIN tx : \/ tx[i].ip \in Passed(w[x].todo)
                              \/ i \in DOMAIN tree[x] /\ tx[i].ip = tree[x][i].ip,
         w[x].builds = 1 => \A i \in DOMAIN tx : ~ (tx[i].id < 0),
         TreeInv', UNCHANGED <<fileVars, moduleVars, profile>>
  PROVE  FormatInv'
<1>1. TypeInv /\ Placed(x) /\ Signed(x) /\ w[x] \in Writer
  BY Types DEF FormatInv
<1>2. w[x].todo \in Seq(Paths) /\ Mode[x] = "custom"
  BY <1>1 DEF Placed
<1>3. /\ wx \in Writer /\ wx.todo \in Seq(Paths) /\ Passed(wx.todo) \subseteq Passed(w[x].todo)
      /\ wx.cur = c /\ wx.pc = w[x].pc /\ wx.at = w[x].at /\ wx.builds = w[x].builds
      /\ wx.kids = w[x].kids /\ wx.last = w[x].last
  BY DEF Consumed
<1>4. w'[x] = wx /\ tree'[x] = tx
  BY <1>1 DEF TypeInv
<1>5. tx # << >>
  OBVIOUS
<1>6. w[x].at = <<0>>
  BY <1>1, <1>2 DEF Placed
<1>7. Placed(x)'
  <2>1. wx.at # << >> /\ wx.at[1] = 0 /\ \A k \in DOMAIN wx.at : ~ (k > 1)
    BY <1>3, <1>6
  <2>. QED  BY <2>1, <1>2, <1>3, <1>4, <1>5, <1>6 DEF Placed
<1>8. Signed(x)'
  BY <1>1, <1>2, <1>3, <1>4 DEF Signed
<1>9. ASSUME NEW ip \in Addresses(x)' \ {0}
      PROVE  ip \in Addresses(x) \/ (wx.pc # "rows" /\ Executed({ip}))
  <2>1. ip \in {tx[i].ip : i \in DOMAIN tx} \/ ip \in Passed(wx.todo)
    BY <1>3, <1>4 DEF Addresses
  <2>2. ip \in Passed(w[x].todo) \/ ip \in {tree[x][i].ip : i \in DOMAIN tree[x]}
    BY <2>1, <1>3
  <2>. QED  BY <2>2 DEF Addresses
<1>. QED  BY <1>3, <1>7, <1>8, <1>9, TreeStep

\* hpcrun_insert_path goes down to a node that is there, or adds one below.
LEMMA InsertIPInv ==
  ASSUME FormatInv, NEW x \in Writers, InsertIP(x)
  PROVE  FormatInv'
<1>1. /\ TypeInv /\ TreeInv /\ Placed(x) /\ Signed(x) /\ w[x] \in Writer /\ tree[x] \in Seq(Node)
      /\ DOMAIN tree[x] = 1 .. Len(tree[x]) /\ Len(tree[x]) \in Nat
      /\ count[x] \in Nat /\ next_id \in Nat
  BY Types DEF FormatInv, TypeInv
<1>2. PICK ip, cur, same :
        ip = w[x].todo[1].path[1] /\ cur = w[x].cur /\ same = SameIP(x, ip, cur)
  OBVIOUS
<1>3. /\ w[x].pc = "insert" /\ w[x].todo # << >> /\ w[x].todo[1].path # << >>
      /\ ip # 0
      /\ IF same # {}
         THEN /\ w' = [w EXCEPT ![x] = [w[x] EXCEPT !.cur = Min(same), !.todo[1].path = Tail(@)]]
              /\ UNCHANGED treeVars
         ELSE /\ Construct(x, ip, cur, 1, 0)
              /\ w' = [w EXCEPT ![x] = [w[x] EXCEPT !.cur = Len(tree[x]) + 1,
                                                    !.todo[1].path = Tail(@)]]
      /\ UNCHANGED <<fileVars, moduleVars, profile>>
  BY <1>2 DEF InsertIP
<1>4. w[x].todo \in Seq(Paths) /\ cur \in DOMAIN tree[x] /\ cur \in Nat
  <2>1. w[x].todo \in Seq(Paths) /\ cur \in DOMAIN tree[x]
    BY <1>1, <1>2, <1>3 DEF Placed
  <2>. QED  BY <2>1, <1>1
<1>5. ip \in Passed(w[x].todo) /\ ip \in Ips
  BY <1>2, <1>3, <1>4, PassedShorter
<1>6. w[x].builds = 1 => \A i \in DOMAIN tree[x] : ~ (tree[x][i].id < 0)
  BY <1>1, <1>3 DEF Signed, Placed
<1>7. CASE same # {}
  <2>1. PICK c : c = Min(same)
    OBVIOUS
  <2>2. same \subseteq DOMAIN tree[x] /\ DOMAIN tree[x] \subseteq Nat
    BY <1>1, <1>2 DEF SameIP, Children
  <2>3. c \in DOMAIN tree[x] /\ c \in Nat
    BY <1>7, <2>1, <2>2, MinOf
  <2>4. tree' = [tree EXCEPT ![x] = tree[x]] /\ count' = [count EXCEPT ![x] = count[x]] /\ next_id' \in Nat
    BY <1>1, <1>3, <1>7 DEF treeVars, TypeInv
  <2>5. TreeInv'
    BY <1>1, <1>3, <1>7, TreesKept
  <2>6. PICK wx : wx = [w[x] EXCEPT !.cur = c, !.todo[1].path = Tail(@)]
    OBVIOUS
  <2>7. w' = [w EXCEPT ![x] = wx]
    BY <1>3, <1>7, <2>1, <2>6
  <2>8. Consumes(w[x], c, wx)
    BY <1>3, <2>6 DEF Consumes
  <2>9. Consumed(w[x], c, wx)
    BY <1>1, <1>3, <1>4, <2>3, <2>8, InsertRecord
  <2>. QED  BY <1>1, <1>3, <1>6, <2>3, <2>4, <2>5, <2>7, <2>9, InsertStep
<1>8. CASE same = {}
  <2>0. PICK metric \in Int, sign \in {1, -1} : metric = 0 /\ sign = 1
    OBVIOUS
  <2>1. /\ Construct(x, ip, cur, sign, metric) /\ (tree[x] = << >> => cur = 0)
        /\ ip \in Ips \cup {0}
    BY <1>3, <1>4, <1>5, <1>8, <2>0
  <2>2. TreeInv' /\ next_id' \in Nat
    BY <1>1, <1>4, <2>1, Constructed
  <2>3. PICK cx \in Nat : SetCount(x, cx)
    BY <1>1, <1>4, <2>1, Constructed
  <2>4. PICK n \in Node : Adds(x, n, ip, cur, sign, metric)
    BY <1>1, <1>4, <2>1, Constructed
  <2>5. PICK c, tx : c = Len(tree[x]) + 1 /\ tx = Append(tree[x], n)
    OBVIOUS
  <2>6. /\ tx \in Seq(Node) /\ DOMAIN tx = DOMAIN tree[x] \cup {c}
        /\ \A i \in DOMAIN tree[x] : tx[i] = tree[x][i]
        /\ tx[c] = n /\ c \in Nat
    BY <1>1, <2>5, Appended
  <2>7. tree' = [tree EXCEPT ![x] = tx] /\ count' = [count EXCEPT ![x] = cx]
    BY <2>3, <2>4, <2>5 DEF Adds, SetCount
  <2>8. n.ip = ip /\ ~ (n.id < 0)
    BY <2>0, <2>4 DEF Adds
  <2>9. PICK wx : wx = [w[x] EXCEPT !.cur = c, !.todo[1].path = Tail(@)]
    OBVIOUS
  <2>10. w' = [w EXCEPT ![x] = wx]
    BY <1>3, <1>8, <2>5, <2>9
  <2>11. \A i \in DOMAIN tx : \/ tx[i].ip \in Passed(w[x].todo)
                              \/ i \in DOMAIN tree[x] /\ tx[i].ip = tree[x][i].ip
    BY <1>5, <2>6, <2>8
  <2>12. w[x].builds = 1 => \A i \in DOMAIN tx : ~ (tx[i].id < 0)
    BY <1>6, <2>6, <2>8
  <2>13. c \in DOMAIN tx
    BY <2>6
  <2>14. Consumed(w[x], c, wx)
    <3>1. Consumes(w[x], c, wx)
      BY <1>3, <2>9 DEF Consumes
    <3>. QED  BY <1>1, <1>3, <1>4, <2>6, <3>1, InsertRecord
  <2>. QED  BY <1>3, <2>2, <2>6, <2>7, <2>10, <2>11, <2>12, <2>13, <2>14, InsertStep
<1>. QED  BY <1>7, <1>8

\* hpcrun_insert_path returns from an empty list.
LEMMA SkipPathInv ==
  ASSUME FormatInv, NEW x \in Writers, SkipPath(x)
  PROVE  FormatInv'
<1>1. /\ TypeInv /\ TreeInv /\ Placed(x) /\ Signed(x) /\ w[x] \in Writer /\ tree[x] \in Seq(Node)
      /\ count[x] \in Nat /\ next_id \in Nat
  BY Types DEF FormatInv, TypeInv
<1>2. PICK wx, c : wx = [w[x] EXCEPT !.todo = Tail(@)] /\ c = w[x].cur
  OBVIOUS
<1>3. /\ w[x].pc = "insert" /\ w[x].todo # << >> /\ w' = [w EXCEPT ![x] = wx]
      /\ UNCHANGED treeVars /\ UNCHANGED <<fileVars, moduleVars, profile>>
  BY <1>1, <1>2 DEF SkipPath, TypeInv, Writer
<1>4. w[x].todo \in Seq(Paths) /\ c \in DOMAIN tree[x] /\ c \in Nat
  BY <1>1, <1>2, <1>3 DEF Placed, Writer
<1>5. wx = [w[x] EXCEPT !.cur = c, !.todo = Tail(@)]
  BY <1>1, <1>2 DEF Writer
<1>6. Consumed(w[x], c, wx)
  BY <1>1, <1>3, <1>4, <1>5, InsertRecord DEF Consumes
<1>7. w[x].builds = 1 => \A i \in DOMAIN tree[x] : ~ (tree[x][i].id < 0)
  BY <1>1, <1>3 DEF Signed, Placed
<1>8. tree' = [tree EXCEPT ![x] = tree[x]] /\ count' = [count EXCEPT ![x] = count[x]] /\ next_id' \in Nat
  BY <1>1, <1>3 DEF treeVars, TypeInv
<1>9. TreeInv'
  BY <1>1, <1>3, TreesKept
<1>. QED  BY <1>1, <1>3, <1>4, <1>6, <1>7, <1>8, <1>9, InsertStep

\* A metric changes no id, and no place in a tree.
LEMMA AddMetricInv ==
  ASSUME FormatInv, NEW x \in Writers, AddMetric(x)
  PROVE  FormatInv'
<1>1. /\ TypeInv /\ TreeInv /\ Placed(x) /\ Signed(x) /\ w[x] \in Writer /\ tree[x] \in Seq(Node)
      /\ DOMAIN tree[x] = 1 .. Len(tree[x]) /\ Len(tree[x]) \in Nat
      /\ \A i \in DOMAIN tree[x] : tree[x][i] \in Node
      /\ count[x] \in Nat /\ next_id \in Nat
  BY Types DEF FormatInv, TypeInv
<1>2. PICK wx, cur, t, m : /\ wx = [w[x] EXCEPT !.cur = 1, !.todo = Tail(@)]
                           /\ cur = w[x].cur /\ t = tree[x] /\ m = w[x].todo[1].metric
  OBVIOUS
<1>3. PICK tx : tx = [t EXCEPT ![cur].metric = @ + m]
  OBVIOUS
<1>4. /\ w[x].pc = "insert" /\ w[x].todo # << >>
      /\ tree' = [tree EXCEPT ![x] = tx]
      /\ w' = [w EXCEPT ![x] = wx]
      /\ next_id' = next_id /\ count' = count /\ UNCHANGED <<fileVars, moduleVars, profile>>
  <2>1. /\ w[x].pc = "insert" /\ w[x].todo # << >>
        /\ tree' = [tree EXCEPT ![x][cur].metric = @ + m]
        /\ w' = [w EXCEPT ![x].cur = 1, ![x].todo = Tail(@)]
        /\ next_id' = next_id /\ count' = count /\ UNCHANGED <<fileVars, moduleVars, profile>>
    BY <1>2 DEF AddMetric
  <2>2. tree' = [tree EXCEPT ![x] = tx]
    BY <1>1, <1>2, <1>3, <2>1 DEF TypeInv
  <2>3. w' = [w EXCEPT ![x] = wx]
    BY <1>1, <1>2, <2>1 DEF TypeInv, Writer
  <2>. QED  BY <2>1, <2>2, <2>3
<1>5. w[x].todo \in Seq(Paths) /\ cur \in DOMAIN t
  BY <1>1, <1>2, <1>4 DEF Placed
<1>6. m \in Int
  <2>1. w[x].todo[1] \in Paths
    BY <1>4, <1>5, Rest
  <2>. QED  BY <1>2, <2>1 DEF Paths
<1>7. PICK n : n = [t[cur] EXCEPT !.metric = @ + m]
  OBVIOUS
<1>8. /\ n \in Node /\ n.ip = t[cur].ip /\ n.up = t[cur].up /\ n.parent = t[cur].parent
      /\ n.id = t[cur].id
  <2>1. t[cur] \in Node
    BY <1>1, <1>2, <1>5
  <2>2. PICK v : v = t[cur].metric + m
    OBVIOUS
  <2>3. v \in Int /\ n = [t[cur] EXCEPT !.metric = v]
    BY <1>6, <1>7, <2>1, <2>2 DEF Node
  <2>. QED  BY <2>1, <2>3 DEF Node
<1>9. /\ tx \in Seq(Node) /\ DOMAIN tx = DOMAIN t
      /\ \A i \in DOMAIN t : tx[i] = IF i = cur THEN n ELSE t[i]
  <2>1. tx = [t EXCEPT ![cur] = n]
    BY <1>1, <1>2, <1>3, <1>5, <1>7 DEF Node
  <2>2. tx \in Seq(Node)
    BY <1>1, <1>2, <1>5, <1>8, <2>1, ExceptSeq
  <2>. QED  BY <1>5, <2>1, <2>2
<1>10. \A i \in DOMAIN tx : /\ tx[i].ip = t[i].ip /\ tx[i].up = t[i].up
                            /\ tx[i].parent = t[i].parent /\ tx[i].id = t[i].id
  BY <1>8, <1>9
<1>11. TreeInv'
  <2>1. Similar(tx, tree[x])
    BY <1>2, <1>9, <1>10 DEF Similar, SameId
  <2>. QED  BY <1>1, <1>4, <1>9, <2>1, Alike
<1>12. w[x].builds = 1 => \A i \in DOMAIN tx : ~ (tx[i].id < 0)
  BY <1>1, <1>2, <1>4, <1>9, <1>10 DEF Signed, Placed
<1>13. 1 \in DOMAIN tx /\ 1 \in Nat
  BY <1>1, <1>2, <1>5, <1>9
<1>14. Consumed(w[x], 1, wx)
  <2>1. PICK c \in Nat : c = 1
    BY <1>13
  <2>2. Consumes(w[x], c, wx)
    BY <1>2, <2>1 DEF Consumes
  <2>3. Consumed(w[x], c, wx)
    BY <1>1, <1>4, <1>5, <2>2, InsertRecord
  <2>. QED  BY <2>1, <2>3
<1>15. \A i \in DOMAIN tx : \/ tx[i].ip \in Passed(w[x].todo)
                            \/ i \in DOMAIN tree[x] /\ tx[i].ip = tree[x][i].ip
  BY <1>2, <1>9, <1>10
<1>16. PICK c \in Nat, cx \in Nat : c = 1 /\ cx = count[x]
  BY <1>1, <1>13
<1>17. count' = [count EXCEPT ![x] = cx] /\ next_id' \in Nat
  BY <1>1, <1>4, <1>16 DEF TypeInv
<1>18. Consumed(w[x], c, wx) /\ c \in DOMAIN tx
  BY <1>13, <1>14, <1>16
<1>. QED  BY <1>4, <1>9, <1>11, <1>12, <1>15, <1>17, <1>18, InsertStep

\* reset_leaf_node_id changes the sign of leaves: after the first build the leaves are
\* the nodes with negative ids.
LEMMA EndBuildInv ==
  ASSUME FormatInv, NEW x \in Writers, EndBuild(x)
  PROVE  FormatInv'
<1>1. /\ TypeInv /\ TreeInv /\ Placed(x) /\ Signed(x) /\ w[x] \in Writer /\ tree[x] \in Seq(Node)
      /\ DOMAIN tree[x] = 1 .. Len(tree[x]) /\ Len(tree[x]) \in Nat
      /\ \A i \in DOMAIN tree[x] : tree[x][i] \in Node
      /\ count[x] \in Nat /\ next_id \in Nat
  BY Types DEF FormatInv, TypeInv
<1>2. PICK wx, t, tx : wx = [w[x] EXCEPT !.pc = "idle"] /\ t = tree[x] /\ tx = LeavesReset(t)
  OBVIOUS
<1>3. /\ w[x].pc = "insert" /\ w[x].todo = << >>
      /\ tree' = [tree EXCEPT ![x] = tx]
      /\ w' = [w EXCEPT ![x] = wx]
      /\ next_id' = next_id /\ count' = count /\ UNCHANGED <<fileVars, moduleVars, profile>>
  <2>1. /\ w[x].pc = "insert" /\ w[x].todo = << >>
        /\ tree' = [tree EXCEPT ![x] = tx]
        /\ w' = [w EXCEPT ![x].pc = "idle"]
        /\ next_id' = next_id /\ count' = count /\ UNCHANGED <<fileVars, moduleVars, profile>>
    BY <1>2 DEF EndBuild, Goto
  <2>. QED  BY <2>1, <1>1, <1>2 DEF TypeInv, Writer
<1>4. /\ wx \in Writer /\ wx.pc = "idle" /\ wx.todo = << >> /\ wx.at = w[x].at
      /\ wx.builds = w[x].builds /\ wx.kids = w[x].kids /\ wx.last = w[x].last
  BY <1>1, <1>2, <1>3 DEF Writer
<1>5. /\ DOMAIN tx = DOMAIN t
      /\ \A i \in DOMAIN tx :
           /\ tx[i] \in Node /\ tx[i].ip = t[i].ip /\ tx[i].up = t[i].up /\ tx[i].parent = t[i].parent
           /\ tx[i].id = IF IsLeaf(t, i) THEN - t[i].id ELSE t[i].id
  <2>1. tx = [i \in DOMAIN t |-> [t[i] EXCEPT !.id = IF IsLeaf(t, i) THEN - t[i].id ELSE t[i].id]]
    BY <1>2 DEF LeavesReset
  <2>2. ASSUME NEW i \in DOMAIN t
        PROVE  /\ tx[i] \in Node /\ tx[i].ip = t[i].ip /\ tx[i].up = t[i].up /\ tx[i].parent = t[i].parent
               /\ tx[i].id = IF IsLeaf(t, i) THEN - t[i].id ELSE t[i].id
    <3>1. PICK id : id = IF IsLeaf(t, i) THEN - t[i].id ELSE t[i].id
      OBVIOUS
    <3>2. t[i] \in Node
      BY <1>1, <1>2
    <3>3. id \in Int
      BY <3>1, <3>2 DEF Node
    <3>4. tx[i] = [t[i] EXCEPT !.id = id]
      BY <2>1, <3>1
    <3>. QED  BY <3>1, <3>2, <3>3, <3>4 DEF Node
  <2>. QED  BY <2>1, <2>2
<1>6. tx \in Seq(Node)
  <2>1. tx = [i \in 1 .. Len(t) |-> tx[i]]
    <3>1. tx = [i \in DOMAIN t |-> [t[i] EXCEPT !.id = IF IsLeaf(t, i) THEN - t[i].id ELSE t[i].id]]
      BY <1>2 DEF LeavesReset
    <3>. QED  BY <3>1, <1>1, <1>2, <1>5
  <2>2. tx \in [1 .. Len(t) -> Node] /\ Len(t) \in Nat
    BY <2>1, <1>1, <1>2, <1>5
  <2>. QED  BY <2>2, SeqDef
<1>7. TreeInv'
  <2>1. Similar(tx, tree[x])
    BY <1>1, <1>2, <1>5 DEF Similar, SameId, Node
  <2>. QED  BY <1>1, <1>3, <1>6, <2>1, Alike
<1>8. w'[x] = wx /\ tree'[x] = tx
  BY <1>1, <1>3 DEF TypeInv
<1>9. Mode[x] = "custom" /\ t # << >> /\ w[x].at = <<0>>
  BY <1>1, <1>2, <1>3 DEF Placed
<1>10. tx # << >>
  <2>1. 1 \in DOMAIN t
    BY <1>1, <1>2, <1>9, EmptySeq
  <2>. QED  BY <2>1, <1>5
<1>11. Placed(x)'
  <2>1. wx.at # << >> /\ wx.at[1] = 0 /\ \A k \in DOMAIN wx.at : ~ (k > 1)
    BY <1>4, <1>9
  <2>2. << >> \in Seq(Visits) /\ DOMAIN << >> = {}
    BY EmptySeq
  <2>. QED  BY <2>1, <2>2, <1>4, <1>8, <1>9, <1>10 DEF Placed
<1>12. Signed(x)'
  <2>1. \A i \in DOMAIN tx : IsLeaf(tx, i) <=> IsLeaf(t, i)
    BY <1>5 DEF IsLeaf, Children
  <2>2. wx.builds # 0
    BY <1>1, <1>3, <1>4, <1>9 DEF Signed
  <2>3. wx.builds = 1 => \A i \in DOMAIN t : ~ (t[i].id < 0)
    BY <1>1, <1>2, <1>3, <1>4, <1>9 DEF Signed
  <2>4. \A i \in DOMAIN t : t[i].id \in Int /\ t[i].id # 0
    BY <1>1, <1>2, IdBounds
  <2>5. wx.builds = 1 => \A i \in DOMAIN tx : tx[i].id < 0 <=> IsLeaf(tx, i)
    BY <2>1, <2>3, <2>4, <1>5
  <2>. QED  BY <2>2, <2>5, <1>4, <1>8, <1>9 DEF Signed
<1>13. ASSUME NEW ip \in Addresses(x)' \ {0}
       PROVE  ip \in Addresses(x)
  <2>1. ip \in {tx[i].ip : i \in DOMAIN tx}
    BY <1>4, <1>8 DEF Addresses
  <2>. QED  BY <2>1, <1>2, <1>5 DEF Addresses
<1>14. PICK cx \in Nat : cx = count[x]
  BY <1>1
<1>15. count' = [count EXCEPT ![x] = cx] /\ next_id' \in Nat
  BY SMTT(60), <1>1, <1>3, <1>14 DEF TypeInv
<1>. QED  BY <1>3, <1>4, <1>6, <1>7, <1>11, <1>12, <1>13, <1>15, TreeStep

\* The record r of a writer that merges an instruction, its node being at `here', becomes s.
Visited(r, here, s) ==
  LET d == r.todo[1].depth IN
  /\ s \in Writer /\ s.pc = r.pc /\ s.kids = r.kids /\ s.last = r.last
  /\ s.todo \in Seq(Visits) /\ s.todo = Tail(r.todo)
  /\ s.at # << >> /\ Len(s.at) = d + 1 /\ DOMAIN s.at = 1 .. d + 1
  /\ \A k \in 1 .. d + 1 : IF k = d + 1 THEN s.at[k] = here ELSE k \in DOMAIN r.at /\ s.at[k] = r.at[k]

\* mergeIP's way down: the nodes above stay, and the node is put behind them.
LEMMA VisitRecord ==
  ASSUME NEW r \in Writer, r.todo \in Seq(Visits), r.todo # << >>, NEW d, d = r.todo[1].depth,
         d \in 1 .. Len(r.at), NEW here \in Nat, NEW s,
         s = [r EXCEPT !.todo = Tail(@), !.at = Append(SubSeq(@, 1, d), here)]
  PROVE  Visited(r, here, s)
<1>1. PICK t, a : t = Tail(r.todo) /\ a = Append(SubSeq(r.at, 1, d), here)
  OBVIOUS
<1>2. t \in Seq(Visits)
  BY <1>1, Rest
<1>3. r.at \in Seq(Nat) /\ Len(r.at) \in Nat /\ DOMAIN r.at = 1 .. Len(r.at)
  <2>1. r.at \in Seq(Nat)
    BY DEF Writer
  <2>. QED  BY <2>1, LenProperties
<1>4. PICK b : b = SubSeq(r.at, 1, d)
  OBVIOUS
<1>5. b \in Seq(Nat) /\ Len(b) = d /\ \A k \in 1 .. d : b[k] = r.at[k]
  <2>1. /\ b \in Seq(Nat)
        /\ Len(b) = IF 1 <= d THEN d - 1 + 1 ELSE 0
        /\ \A k \in 1 .. d - 1 + 1 : b[k] = r.at[1 + k - 1]
    <3>0. PICK one \in Int, m \in Int : one = 1 /\ m = d
      BY <1>3
    <3>1. PICK q : q = r.at /\ one = 1 /\ m = d
      BY <3>0
    <3>2. \A i \in one .. m : q[i] \in Nat
      <4>1. \A i \in one .. m : i \in DOMAIN r.at
        BY <1>3, <3>1
      <4>. QED  BY <1>3, <3>1, <4>1, ElementOfSeq
    <3>3. /\ SubSeq(q, one, m) \in Seq(Nat)
          /\ Len(SubSeq(q, one, m)) = IF one <= m THEN m - one + 1 ELSE 0
          /\ \A i \in 1 .. m - one + 1 : SubSeq(q, one, m)[i] = q[one + i - 1]
      BY <3>2, SubSeqProperties
    <3>. QED  BY <1>4, <3>1, <3>3
  <2>2. d \in Nat \ {0}
    BY <1>3
  <2>. QED  BY SMTT(60), <2>1, <2>2
<1>6. /\ a \in Seq(Nat) /\ Len(a) = d + 1 /\ DOMAIN a = 1 .. d + 1
      /\ \A k \in 1 .. d + 1 : IF k = d + 1 THEN a[k] = here ELSE k \in DOMAIN r.at /\ a[k] = r.at[k]
  <2>1. a = Append(b, here) /\ d \in Nat \ {0} /\ d <= Len(r.at)
    BY <1>1, <1>3, <1>4
  <2>2. /\ a \in Seq(Nat) /\ Len(a) = d + 1 /\ DOMAIN b = 1 .. d /\ DOMAIN a = DOMAIN b \cup {d + 1}
        /\ \A k \in DOMAIN b : a[k] = b[k]
        /\ a[d + 1] = here
    BY SMTT(60), <1>5, <2>1, Appended
  <2>. QED  BY SMTT(60), <1>3, <1>5, <2>1, <2>2
<1>7. a # << >>
  BY <1>3, <1>6, EmptySeq
<1>8. s = [r EXCEPT !.todo = t, !.at = a]
  BY <1>1
<1>9. s \in Writer /\ s.pc = r.pc /\ s.kids = r.kids /\ s.last = r.last /\ s.todo = t /\ s.at = a
  BY <1>2, <1>6, <1>8 DEF Writer
<1>. QED  BY <1>1, <1>2, <1>6, <1>7, <1>9 DEF Visited

\* A step that merges an instruction keeps the invariant if the tree after it does,
\* has the node and nothing else that is new, and marks it.
LEMMA MergeStep ==
  ASSUME FormatInv, NEW x \in Writers, w[x].pc = "rows", w[x].todo # << >>,
         NEW here \in Nat, NEW wx, Visited(w[x], here, wx), w' = [w EXCEPT ![x] = wx],
         NEW tx \in Seq(Node), tree' = [tree EXCEPT ![x] = tx],
         NEW cx \in Nat, count' = [count EXCEPT ![x] = cx], next_id' \in Nat,
         DOMAIN tree[x] \subseteq DOMAIN tx, here \in DOMAIN tx,
         \A i \in DOMAIN tx : \/ tx[i].ip = w[x].todo[1].ip
                              \/ i \in DOMAIN tree[x] /\ tx[i].ip = tree[x][i].ip,
         \A i \in DOMAIN tx : tx[i].id < 0 <=> tx[i].metric = 1,
         TreeInv', UNCHANGED <<fileVars, moduleVars, profile>>
  PROVE  FormatInv'
<1>1. TypeInv /\ Placed(x) /\ w[x] \in Writer
  BY Types DEF FormatInv
<1>2. /\ w[x].todo \in Seq(Visits) /\ Mode[x] # "custom"
      /\ w[x].at # << >> /\ w[x].at[1] = 0
      /\ \A k \in DOMAIN w[x].at : k > 1 => w[x].at[k] \in DOMAIN tree[x]
      /\ \A k \in DOMAIN w[x].todo : k > 1 => w[x].todo[k].depth \in 2 .. w[x].todo[k - 1].depth + 1
  BY <1>1 DEF Placed
<1>3. PICK d : d = w[x].todo[1].depth
  OBVIOUS
<1>4. /\ wx \in Writer /\ wx.pc = "rows" /\ wx.kids = w[x].kids /\ wx.last = w[x].last
      /\ wx.todo \in Seq(Visits) /\ wx.todo = Tail(w[x].todo)
      /\ wx.at # << >> /\ Len(wx.at) = d + 1 /\ DOMAIN wx.at = 1 .. d + 1
      /\ \A k \in 1 .. d + 1 : IF k = d + 1 THEN wx.at[k] = here
                               ELSE k \in DOMAIN w[x].at /\ wx.at[k] = w[x].at[k]
  BY <1>3 DEF Visited
<1>5. w'[x] = wx /\ tree'[x] = tx
  BY <1>1 DEF TypeInv
<1>6. /\ w[x].todo[1] \in Visits /\ Len(w[x].todo) \in Nat \ {0} /\ DOMAIN w[x].todo = 1 .. Len(w[x].todo)
      /\ DOMAIN wx.todo = 1 .. Len(w[x].todo) - 1
      /\ \A k \in DOMAIN wx.todo : wx.todo[k] = w[x].todo[k + 1]
  BY <1>2, <1>4, Rest
<1>7. d \in Nat \ {0}
  BY <1>3, <1>6 DEF Visits
<1>8. Placed(x)'
  <2>1. wx.at[1] = 0
    BY <1>2, <1>4, <1>7
  <2>2. \A k \in DOMAIN wx.at : k > 1 => wx.at[k] \in DOMAIN tx
    BY <1>2, <1>4, <1>7
  <2>3. tx # << >>
    OBVIOUS
  <2>4. ASSUME NEW k \in DOMAIN wx.todo, k > 1
        PROVE  wx.todo[k].depth \in 2 .. wx.todo[k - 1].depth + 1
    <3>1. /\ k \in Nat /\ k + 1 \in DOMAIN w[x].todo /\ k + 1 > 1 /\ (k + 1) - 1 = k
          /\ k - 1 \in DOMAIN wx.todo /\ (k - 1) + 1 = k
      BY SMTT(60), <1>6, <2>4
    <3>2. wx.todo[k] = w[x].todo[k + 1] /\ wx.todo[k - 1] = w[x].todo[k]
      BY <1>6, <2>4, <3>1
    <3>. QED  BY <1>2, <3>1, <3>2
  <2>5. ASSUME wx.todo # << >> PROVE wx.todo[1].depth \in 2 .. Len(wx.at)
    <3>1. 1 \in DOMAIN wx.todo /\ 2 \in DOMAIN w[x].todo
      <4>1. Len(wx.todo) \in Nat \ {0} /\ DOMAIN wx.todo = 1 .. Len(wx.todo)
        BY <1>4, <2>5, Rest
      <4>2. 1 \in DOMAIN wx.todo
        BY <4>1
      <4>. QED  BY <1>6, <4>2
    <3>2. wx.todo[1] = w[x].todo[2]
      <4>1. \A k \in DOMAIN wx.todo : wx.todo[k] = w[x].todo[k + 1]
        BY <1>6
      <4>2. wx.todo[1] = w[x].todo[1 + 1]
        BY <3>1, <4>1, Zenon
      <4>. QED  BY <4>2
    <3>3. w[x].todo[2].depth \in 2 .. w[x].todo[1].depth + 1
      <4>1. w[x].todo[2].depth \in 2 .. w[x].todo[2 - 1].depth + 1 /\ 2 - 1 = 1
        BY <1>2, <3>1
      <4>. QED  BY <4>1
    <3>. QED  BY <1>3, <1>4, <3>2, <3>3
  <2>. QED  BY <2>1, <2>2, <2>3, <2>4, <2>5, <1>2, <1>4, <1>5 DEF Placed
<1>9. Signed(x)'
  BY <1>2, <1>5 DEF Signed
<1>10. ASSUME NEW ip \in Addresses(x)' \ {0}
       PROVE  ip \in Addresses(x)
  <2>1. ip \in {tx[i].ip : i \in DOMAIN tx} \/ ip \in {wx.todo[k].ip : k \in DOMAIN wx.todo}
    <3>1. w'[x].pc # "insert"
      BY <1>4, <1>5
    <3>2. Addresses(x)' = {tree'[x][i].ip : i \in DOMAIN tree'[x]} \cup
            IF w'[x].pc = "insert" THEN Passed(w'[x].todo)
            ELSE {w'[x].todo[k].ip : k \in DOMAIN w'[x].todo}
      BY DEF Addresses, Passed
    <3>3. Addresses(x)' = {tree'[x][i].ip : i \in DOMAIN tree'[x]} \cup
            {w'[x].todo[k].ip : k \in DOMAIN w'[x].todo}
      BY <3>1, <3>2, Zenon
    <3>. QED  BY <3>3, <1>5
  <2>2. \A k \in DOMAIN wx.todo : k + 1 \in DOMAIN w[x].todo
    BY <1>6
  <2>3. ip \in {tree[x][i].ip : i \in DOMAIN tree[x]} \/ ip \in {w[x].todo[k].ip : k \in DOMAIN w[x].todo}
    <3>1. 1 \in DOMAIN w[x].todo
      BY <1>6
    <3>2. CASE ip \in {tx[i].ip : i \in DOMAIN tx}
      BY <3>1, <3>2
    <3>3. CASE ip \in {wx.todo[k].ip : k \in DOMAIN wx.todo}
      BY SMTT(60), <3>3, <2>2, <1>6
    <3>. QED  BY <2>1, <3>2, <3>3
  <2>. QED  BY <2>3 DEF Addresses
<1>. QED  BY <1>4, <1>8, <1>9, <1>10, TreeStep

\* mergeIP finds the instruction under its caller, or adds it.
LEMMA MergeIPInv ==
  ASSUME FormatInv, NEW x \in Writers, MergeIP(x)
  PROVE  FormatInv'
<1>1. /\ TypeInv /\ TreeInv /\ Placed(x) /\ Signed(x) /\ w[x] \in Writer /\ tree[x] \in Seq(Node)
      /\ DOMAIN tree[x] = 1 .. Len(tree[x]) /\ Len(tree[x]) \in Nat
      /\ count[x] \in Nat /\ next_id \in Nat
  BY Types DEF FormatInv, TypeInv
<1>2. PICK job, d, ip, up, same, here :
        /\ job = w[x].todo[1] /\ d = job.depth /\ ip = job.ip /\ up = w[x].at[d]
        /\ same = SameIP(x, ip, up)
        /\ here = IF same # {} THEN Min(same) ELSE Len(tree[x]) + 1
  OBVIOUS
<1>3. PICK wx : wx = [w[x] EXCEPT !.todo = Tail(@), !.at = Append(SubSeq(@, 1, d), here)]
  OBVIOUS
<1>4. /\ w[x].pc = "rows" /\ w[x].todo # << >>
      /\ same # {} => UNCHANGED treeVars
      /\ same = {} /\ job.callee => Construct(x, ip, up, 1, 0)
      /\ same = {} /\ ~ job.callee => Construct(x, ip, up, -1, 1)
      /\ w' = [w EXCEPT ![x] = wx]
      /\ UNCHANGED <<fileVars, moduleVars, profile>>
  <2>1. /\ w[x].pc = "rows" /\ w[x].todo # << >>
        /\ same # {} => UNCHANGED treeVars
        /\ same = {} /\ job.callee => Construct(x, ip, up, 1, 0)
        /\ same = {} /\ ~ job.callee => Construct(x, ip, up, -1, 1)
        /\ UNCHANGED <<fileVars, moduleVars, profile>>
    BY ZenonT(60), <1>2 DEF MergeIP
  <2>2. w' = [w EXCEPT ![x].todo = Tail(@), ![x].at = Append(SubSeq(@, 1, d), here)]
    BY <1>2 DEF MergeIP
  <2>3. w' = [w EXCEPT ![x] = wx]
    BY <1>1, <1>3, <2>2 DEF TypeInv, Writer
  <2>. QED  BY <2>1, <2>3
<1>5. /\ w[x].todo \in Seq(Visits) /\ Mode[x] # "custom"
      /\ w[x].at # << >> /\ w[x].at[1] = 0
      /\ \A k \in DOMAIN w[x].at : k > 1 => w[x].at[k] \in DOMAIN tree[x]
      /\ IF tree[x] = << >> THEN d = 1 ELSE d \in 2 .. Len(w[x].at)
  BY ZenonT(60), <1>1, <1>2, <1>4 DEF Placed
<1>6. job \in Visits /\ w[x].at \in Seq(Nat)
  BY <1>1, <1>2, <1>4, <1>5, Rest DEF Writer
<1>7. /\ ip \in Ips \cup {0} /\ d \in 1 .. Len(w[x].at) /\ up \in Nat
      /\ (tree[x] = << >> => up = 0) /\ (tree[x] # << >> => up \in DOMAIN tree[x])
  <2>1. ip \in Ips \cup {0}
    BY <1>2, <1>6 DEF Visits
  <2>2. Len(w[x].at) \in Nat \ {0} /\ DOMAIN w[x].at = 1 .. Len(w[x].at)
    BY SMTT(60), <1>5, <1>6, Rest
  <2>3. CASE tree[x] = << >>
    BY SMTT(60), <1>2, <1>5, <2>1, <2>2, <2>3
  <2>4. CASE tree[x] # << >>
    <3>1. d \in 1 .. Len(w[x].at) /\ d > 1
      BY <1>5, <2>2, <2>4
    <3>2. up \in DOMAIN tree[x]
      BY <1>2, <1>5, <2>2, <3>1
    <3>. QED  BY <1>1, <2>1, <2>4, <3>1, <3>2
  <2>. QED  BY <2>3, <2>4
<1>8. \A i \in DOMAIN tree[x] : tree[x][i].id < 0 <=> tree[x][i].metric = 1
  BY <1>1, <1>5 DEF Signed
<1>9. CASE same # {}
  <2>1. same \subseteq DOMAIN tree[x] /\ DOMAIN tree[x] \subseteq Nat
    BY <1>1, <1>2 DEF SameIP, Children
  <2>2. here \in DOMAIN tree[x] /\ here \in Nat
    BY <1>2, <1>9, <2>1, MinOf
  <2>3. PICK cx \in Nat : cx = count[x]
    BY <1>1
  <2>4. tree' = [tree EXCEPT ![x] = tree[x]] /\ count' = [count EXCEPT ![x] = cx] /\ next_id' \in Nat
    BY SMTT(60), <1>1, <1>4, <1>9, <2>3 DEF treeVars, TypeInv
  <2>5. TreeInv'
    BY <1>1, <1>4, <1>9, TreesKept
  <2>6. Visited(w[x], here, wx)
    BY <1>1, <1>2, <1>3, <1>4, <1>5, <1>7, <2>2, VisitRecord
  <2>. QED  BY <1>1, <1>4, <1>8, <2>2, <2>4, <2>5, <2>6, MergeStep
<1>10. CASE same = {}
  <2>0. PICK metric \in Int, sign \in {1, -1} :
          Construct(x, ip, up, sign, metric) /\ (sign = 1 <=> metric # 1)
    <3>1. CASE job.callee
      <4>1. PICK metric \in Int, sign \in {1, -1} : metric = 0 /\ sign = 1
        OBVIOUS
      <4>2. Construct(x, ip, up, sign, metric) /\ (sign = 1 <=> metric # 1)
        BY <1>4, <1>10, <3>1, <4>1
      <4>. QED  BY <4>2
    <3>2. CASE ~ job.callee
      <4>1. PICK metric \in Int, sign \in {1, -1} : metric = 1 /\ sign = -1
        OBVIOUS
      <4>2. Construct(x, ip, up, sign, metric) /\ (sign = 1 <=> metric # 1)
        BY <1>4, <1>10, <3>2, <4>1
      <4>. QED  BY <4>2
    <3>. QED  BY <3>1, <3>2
  <2>2. TreeInv' /\ next_id' \in Nat
    BY <1>1, <1>7, <2>0, Constructed
  <2>3. PICK cx \in Nat : SetCount(x, cx)
    BY <1>1, <1>7, <2>0, Constructed
  <2>4. PICK n \in Node : Adds(x, n, ip, up, sign, metric)
    BY <1>1, <1>7, <2>0, Constructed
  <2>5. PICK tx : tx = Append(tree[x], n)
    OBVIOUS
  <2>6. /\ tx \in Seq(Node) /\ DOMAIN tx = DOMAIN tree[x] \cup {here}
        /\ \A i \in DOMAIN tree[x] : tx[i] = tree[x][i]
        /\ tx[here] = n /\ here \in Nat
    BY <1>1, <1>2, <1>10, <2>5, Appended
  <2>7. tree' = [tree EXCEPT ![x] = tx] /\ count' = [count EXCEPT ![x] = cx]
    BY <2>3, <2>4, <2>5 DEF Adds, SetCount
  <2>8. n.ip = ip /\ (n.id < 0 <=> n.metric = 1)
    BY SMTT(60), <2>0, <2>4 DEF Adds
  <2>11. \A i \in DOMAIN tx : \/ tx[i].ip = w[x].todo[1].ip
                              \/ i \in DOMAIN tree[x] /\ tx[i].ip = tree[x][i].ip
    BY <1>2, <2>6, <2>8
  <2>12. \A i \in DOMAIN tx : tx[i].id < 0 <=> tx[i].metric = 1
    BY <1>8, <2>6, <2>8
  <2>13. here \in DOMAIN tx /\ DOMAIN tree[x] \subseteq DOMAIN tx
    BY SMTT(60), <2>6
  <2>14. Visited(w[x], here, wx)
    BY <1>1, <1>2, <1>3, <1>4, <1>5, <1>7, <2>6, VisitRecord
  <2>. QED  BY <1>4, <2>2, <2>6, <2>7, <2>11, <2>12, <2>13, <2>14, MergeStep
<1>. QED  BY <1>9, <1>10
-----------------------------------------------------------------------------
(* Steps between the tree and the rows.                                    *)

Profiles == [size : Nat, map : Seq(Module), count : Nat, rows : Seq(Row)]

\* A writer goes on, s instead of r, with the same place in its tree, and perhaps
\* in its rows.
Stays(r, s) == s \in Writer /\ s.todo = r.todo /\ s.at = r.at /\ s.builds = r.builds

Carries(r, s) == Stays(r, s) /\ s.kids = r.kids /\ s.last = r.last

\* A writer that keeps its place keeps it right, and the addresses to come.
LEMMA PlaceCarried ==
  ASSUME NEW x, Placed(x), Signed(x), Stays(w[x], w'[x]), tree'[x] = tree[x],
         w[x].pc \notin {"idle", "insert"}, w'[x].pc \notin {"idle", "insert"}
  PROVE  Placed(x)' /\ Signed(x)' /\ Addresses(x)' = Addresses(x)
<1>1. /\ w'[x].todo = w[x].todo /\ w'[x].at = w[x].at /\ w'[x].builds = w[x].builds
      /\ w[x].pc # "idle" /\ w[x].pc # "insert" /\ w'[x].pc # "idle" /\ w'[x].pc # "insert"
  BY DEF Stays
<1>2. Placed(x)'
  BY <1>1 DEF Placed
<1>3. Signed(x)'
  BY <1>1 DEF Signed
<1>4. Addresses(x)' = Addresses(x)
  <2>1. Addresses(x) = {tree[x][i].ip : i \in DOMAIN tree[x]} \cup
          IF w[x].pc = "insert" THEN Passed(w[x].todo)
          ELSE {w[x].todo[k].ip : k \in DOMAIN w[x].todo}
    BY DEF Addresses
  <2>2. Addresses(x) = {tree[x][i].ip : i \in DOMAIN tree[x]} \cup
          {w[x].todo[k].ip : k \in DOMAIN w[x].todo}
    BY <1>1, <2>1, Zenon
  <2>3. Addresses(x)' = {tree'[x][i].ip : i \in DOMAIN tree'[x]} \cup
          IF w'[x].pc = "insert" THEN Passed(w'[x].todo)
          ELSE {w'[x].todo[k].ip : k \in DOMAIN w'[x].todo}
    BY DEF Addresses, Passed
  <2>4. Addresses(x)' = {tree'[x][i].ip : i \in DOMAIN tree'[x]} \cup
          {w'[x].todo[k].ip : k \in DOMAIN w'[x].todo}
    BY <1>1, <2>3, Zenon
  <2>. QED  BY <1>1, <2>2, <2>4
<1>. QED  BY <1>2, <1>3, <1>4

\* A step of a writer between its tree and its rows keeps the invariant if what it
\* writes of the modules is right.
LEMMA QuietStep ==
  ASSUME FormatInv, NEW x \in Writers, NEW wx \in Writer, w' = [w EXCEPT ![x] = wx],
         wx.kids = w[x].kids, wx.last = w[x].last,
         NEW px \in Profiles, profile' = [profile EXCEPT ![x] = px], px.rows = profile[x].rows,
         UNCHANGED treeVars, UNCHANGED moduleVars, FileInv',
         w[x].pc \notin {"write", "done", "crash"}, wx.pc \notin {"write", "done"},
         Placed(x)', Signed(x)', Addresses(x)' \subseteq Addresses(x) \/ Executed(Addresses(x)'),
         x \notin disturbed => Mapping(x)'
  PROVE  FormatInv'
<1>0. TypeInv /\ TreeInv /\ Recorded(x) /\ Covered(x)
  BY DEF FormatInv
<1>1. PICK tx \in Seq(Node), cx \in Nat : tx = tree[x] /\ cx = count[x]
  BY <1>0, Types
<1>2. tree' = [tree EXCEPT ![x] = tx] /\ count' = [count EXCEPT ![x] = cx] /\ next_id' \in Nat
  BY <1>0, <1>1 DEF treeVars, TypeInv
<1>01. UNCHANGED tableVars /\ raced' = raced
  BY DEF moduleVars
<1>3. TypeInv'
  BY <1>0, <1>01, <1>1, <1>2, TypesKept DEF Profiles
<1>4. TreeInv'
  BY <1>0, TreesKept
<1>5. w'[x] = wx /\ profile'[x] = px
  BY <1>0 DEF TypeInv
<1>6. Rows(x)' = << >>
  BY <1>0, <1>5 DEF Recorded, Rows
<1>7. Recorded(x)'
  <2>1. RowsOK(x)'
    BY <1>6, EmptySeq DEF RowsOK
  <2>. QED  BY <1>0, <1>5, <1>6, <2>1 DEF Recorded
<1>8. Covered(x)'
  <2>1. table' = table /\ disturbed' = disturbed
    BY DEF moduleVars, tableVars
  <2>2. Executed(Addresses(x))'
    BY <1>0, <2>1 DEF Covered, Executed, Generated
  <2>. QED  BY <2>1, <2>2 DEF Covered
<1>9. WriterInv(x)'
  BY <1>7, <1>8 DEF WriterInv
<1>10. TableInv' /\ \A y \in Writers : (Placed(y) /\ Signed(y) /\ Recorded(y) /\ Covered(y))'
  BY <1>01, <1>2, <1>9, OthersKept
<1>. QED  BY <1>3, <1>4, <1>10 DEF FormatInv

\* A step that only moves on, or reads the number of modules or their table.
LEMMA GoOn ==
  ASSUME FormatInv, NEW x \in Writers, NEW wx, Carries(w[x], wx), w' = [w EXCEPT ![x] = wx],
         NEW px \in Profiles, profile' = [profile EXCEPT ![x] = px], px.rows = profile[x].rows,
         UNCHANGED treeVars, UNCHANGED moduleVars, FileInv',
         w[x].pc \notin {"idle", "insert", "write", "done", "crash"},
         wx.pc \notin {"idle", "insert", "write", "done"},
         x \notin disturbed => Mapping(x)'
  PROVE  FormatInv'
<1>1. Placed(x) /\ Signed(x) /\ w'[x] = wx /\ tree'[x] = tree[x]
  BY DEF FormatInv, TypeInv, treeVars
<1>2. Placed(x)' /\ Signed(x)' /\ Addresses(x)' = Addresses(x)
  BY <1>1, PlaceCarried DEF Carries, Stays
<1>3. wx \in Writer /\ wx.kids = w[x].kids /\ wx.last = w[x].last
  BY DEF Carries, Stays
<1>. QED  BY <1>2, <1>3, QuietStep

\* The record of a writer that only moves on.
LEMMA PcRecord ==
  ASSUME NEW r \in Writer, NEW pc, NEW s, s = [r EXCEPT !.pc = pc],
         pc \in {"idle", "insert", "open", "try", "failed"} \cup Opened
  PROVE  Carries(r, s) /\ s.pc = pc
BY DEF Writer, Carries, Stays

\* Goto is an update of one record.
LEMMA GotoIs ==
  ASSUME TypeInv, NEW x \in Writers, NEW pc, Goto(x, pc), NEW wx, wx = [w[x] EXCEPT !.pc = pc]
  PROVE  w' = [w EXCEPT ![x] = wx]
BY DEF Goto, TypeInv

\* files_lock
LEMMA LockInv ==
  ASSUME FormatInv, NEW x \in Writers, Lock(x)
  PROVE  FormatInv'
<1>1. TypeInv /\ FileInv /\ w[x] \in Writer /\ profile[x] \in Profiles
  BY Types DEF FormatInv, Profiles
<1>2. PICK wx : wx = [w[x] EXCEPT !.pc = "try"]
  OBVIOUS
<1>3. /\ w[x].pc = "open" /\ lock = None /\ lock' = x /\ disk' = disk
      /\ Goto(x, "try") /\ UNCHANGED treeVars /\ UNCHANGED moduleVars /\ profile' = profile
  BY DEF Lock
<1>4. w' = [w EXCEPT ![x] = wx] /\ Carries(w[x], wx) /\ wx.pc = "try"
  BY <1>1, <1>2, <1>3, GotoIs, PcRecord
<1>5. FileInv'
  <2>1. w'[x] = wx /\ \A y \in Writers \ {x} : w'[y] = w[y]
    BY <1>1, <1>4 DEF TypeInv
  <2>2. lock' \in Writers \cup {None}
    BY <1>3
  <2>3. ASSUME NEW y \in Writers
        PROVE  /\ w'[y].pc = "try" <=> lock' = y
               /\ w'[y].pc \in Opened <=> w[y].pc \in Opened
    <3>1. w[y].pc = "try" <=> lock = y
      BY <1>1 DEF FileInv
    <3>2. CASE y = x
      BY <3>2, <2>1, <1>3, <1>4 DEF Opened
    <3>3. CASE y # x
      BY <3>1, <3>3, <2>1, <1>3, WritersAssumption
    <3>. QED  BY <3>2, <3>3
  <2>4. ASSUME NEW y \in Writers
        PROVE  /\ w'[y].pc \notin Opened => \A n \in DOMAIN disk : disk[n] # y
               /\ w'[y].pc \in Opened => \E n \in DOMAIN disk :
                    disk[n] = y /\ \A m \in DOMAIN disk : disk[m] = y => m = n
    BY <1>1, <2>3 DEF FileInv
  <2>. QED  BY <1>3, <2>2, <2>3, <2>4 DEF FileInv
<1>6. profile' = [profile EXCEPT ![x] = profile[x]]
  BY <1>1, <1>3 DEF TypeInv
<1>7. Mapping(x)'
  <2>1. w'[x].pc = "try"
    BY <1>1, <1>4 DEF TypeInv
  <2>. QED  BY <2>1 DEF Mapping
<1>. QED  BY <1>1, <1>3, <1>4, <1>5, <1>6, <1>7, GoOn

\* hpcrun_open_file gets a name that nobody has, and the lock is released.
LEMMA OpenNewInv ==
  ASSUME FormatInv, NEW x \in Writers, OpenNew(x)
  PROVE  FormatInv'
<1>1. TypeInv /\ FileInv /\ w[x] \in Writer /\ profile[x] \in Profiles
  BY Types DEF FormatInv, Profiles
<1>2. PICK wx, n : wx = [w[x] EXCEPT !.pc = "size"] /\ n = Name(x)
  OBVIOUS
<1>3. /\ w[x].pc = "try" /\ n \notin DOMAIN disk /\ lock' = None
      /\ disk' = [m \in DOMAIN disk \cup {n} |-> IF m = n THEN x ELSE disk[m]]
      /\ Goto(x, "size") /\ UNCHANGED treeVars /\ UNCHANGED moduleVars /\ profile' = profile
  BY <1>2 DEF OpenNew, Excluded, Taken
<1>4. w' = [w EXCEPT ![x] = wx] /\ Carries(w[x], wx) /\ wx.pc = "size"
  BY <1>1, <1>2, <1>3, GotoIs, PcRecord DEF Opened
<1>5. FileInv'
  <2>1. w'[x] = wx /\ \A y \in Writers \ {x} : w'[y] = w[y]
    BY <1>1, <1>4 DEF TypeInv
  <2>2. /\ DOMAIN disk' = DOMAIN disk \cup {n} /\ disk'[n] = x
        /\ \A m \in DOMAIN disk : m # n /\ disk'[m] = disk[m]
    BY <1>3
  <2>3. lock = x /\ \A m \in DOMAIN disk : disk[m] # x
    BY <1>1, <1>3 DEF FileInv, Opened
  <2>4. ASSUME NEW y \in Writers
        PROVE  /\ w'[y].pc = "try" <=> lock' = y
               /\ w'[y].pc \notin Opened => \A m \in DOMAIN disk' : disk'[m] # y
               /\ w'[y].pc \in Opened => \E m \in DOMAIN disk' :
                    disk'[m] = y /\ \A k \in DOMAIN disk' : disk'[k] = y => k = m
    <3>1. CASE y = x
      <4>1. disk'[n] = x /\ \A k \in DOMAIN disk' : disk'[k] = x => k = n
        BY <2>2, <2>3
      <4>2. lock' # y
        BY <1>3, <3>1, WritersAssumption
      <4>. QED  BY <4>1, <4>2, <3>1, <2>1, <2>2, <1>4 DEF Opened
    <3>2. CASE y # x
      <4>1. w'[y] = w[y] /\ w[y].pc # "try" /\ lock' # y
        BY <1>1, <1>3, <2>1, <2>3, <3>2, WritersAssumption DEF FileInv
      <4>2. w[y].pc \notin Opened => \A m \in DOMAIN disk' : disk'[m] # y
        <5>1. w[y].pc \notin Opened => \A m \in DOMAIN disk : disk[m] # y
          BY <1>1 DEF FileInv
        <5>. QED  BY <5>1, <2>2, <3>2
      <4>3. ASSUME w[y].pc \in Opened
            PROVE  \E m \in DOMAIN disk' : disk'[m] = y /\ \A k \in DOMAIN disk' : disk'[k] = y => k = m
        <5>1. PICK m \in DOMAIN disk : disk[m] = y /\ \A k \in DOMAIN disk : disk[k] = y => k = m
          BY <1>1, <4>3 DEF FileInv
        <5>. QED  BY <5>1, <2>2, <3>2
      <4>. QED  BY <4>1, <4>2, <4>3
    <3>. QED  BY <3>1, <3>2
  <2>. QED  BY <1>3, <2>4 DEF FileInv
<1>6. profile' = [profile EXCEPT ![x] = profile[x]]
  BY <1>1, <1>3 DEF TypeInv
<1>7. Mapping(x)'
  <2>1. w'[x].pc = "size"
    BY <1>1, <1>4 DEF TypeInv
  <2>. QED  BY <2>1 DEF Mapping
<1>. QED  BY <1>1, <1>3, <1>4, <1>5, <1>6, <1>7, GoOn

\* Where no file can be had the lock is released too.
LEMMA NoFileInv ==
  ASSUME FormatInv, NEW x \in Writers, NoFile(x)
  PROVE  FormatInv'
<1>1. TypeInv /\ FileInv /\ w[x] \in Writer /\ profile[x] \in Profiles
  BY Types DEF FormatInv, Profiles
<1>2. PICK wx : wx = [w[x] EXCEPT !.pc = "failed"]
  OBVIOUS
<1>3. /\ w[x].pc = "try" /\ lock' = None /\ disk' = disk
      /\ Goto(x, "failed") /\ UNCHANGED treeVars /\ UNCHANGED moduleVars /\ profile' = profile
  BY DEF NoFile
<1>4. w' = [w EXCEPT ![x] = wx] /\ Carries(w[x], wx) /\ wx.pc = "failed"
  BY <1>1, <1>2, <1>3, GotoIs, PcRecord
<1>5. FileInv'
  <2>1. w'[x] = wx /\ \A y \in Writers \ {x} : w'[y] = w[y]
    BY <1>1, <1>4 DEF TypeInv
  <2>2. lock = x
    BY <1>1, <1>3 DEF FileInv
  <2>3. ASSUME NEW y \in Writers
        PROVE  /\ w'[y].pc = "try" <=> lock' = y
               /\ w'[y].pc \in Opened <=> w[y].pc \in Opened
    <3>1. w[y].pc = "try" <=> lock = y
      BY <1>1 DEF FileInv
    <3>2. lock' # y
      BY <1>3, WritersAssumption
    <3>3. CASE y = x
      BY <3>2, <3>3, <2>1, <1>3, <1>4 DEF Opened
    <3>4. CASE y # x
      BY <3>1, <3>2, <3>4, <2>1, <2>2
    <3>. QED  BY <3>3, <3>4
  <2>4. ASSUME NEW y \in Writers
        PROVE  /\ w'[y].pc \notin Opened => \A n \in DOMAIN disk : disk[n] # y
               /\ w'[y].pc \in Opened => \E n \in DOMAIN disk :
                    disk[n] = y /\ \A m \in DOMAIN disk : disk[m] = y => m = n
    BY <1>1, <2>3 DEF FileInv
  <2>. QED  BY <1>3, <2>3, <2>4 DEF FileInv
<1>6. profile' = [profile EXCEPT ![x] = profile[x]]
  BY <1>1, <1>3 DEF TypeInv
<1>7. Mapping(x)'
  <2>1. w'[x].pc = "failed"
    BY <1>1, <1>4 DEF TypeInv
  <2>. QED  BY <2>1 DEF Mapping
<1>. QED  BY <1>1, <1>3, <1>4, <1>5, <1>6, <1>7, GoOn

\* hpcrun_files_next_id only changes the names.
LEMMA NextNameInv ==
  ASSUME FormatInv, NEW x \in Writers, NextName(x)
  PROVE  FormatInv'
<1>1. UNCHANGED <<treeVars, w, profile, moduleVars>> /\ disk' = disk /\ lock' = lock /\ w' = w
  BY DEF NextName
<1>2. FileInv'
  BY <1>1 DEF FormatInv, FileInv
<1>. QED  BY <1>1, <1>2, AllKept

\* A file of another process is no writer's.
LEMMA ForeignInv ==
  ASSUME FormatInv, NEW n, Foreign(n)
  PROVE  FormatInv'
<1>1. /\ UNCHANGED <<treeVars, w, profile, moduleVars>> /\ lock' = lock /\ w' = w
      /\ n \notin DOMAIN disk
      /\ disk' = [m \in DOMAIN disk \cup {n} |-> IF m = n THEN None ELSE disk[m]]
  BY DEF Foreign, Taken
<1>2. /\ DOMAIN disk' = DOMAIN disk \cup {n} /\ disk'[n] = None
      /\ \A m \in DOMAIN disk : m # n /\ disk'[m] = disk[m]
  BY <1>1
<1>3. FileInv
  BY DEF FormatInv
<1>4. ASSUME NEW y \in Writers
      PROVE  /\ w[y].pc = "try" <=> lock = y
             /\ w[y].pc \notin Opened => \A m \in DOMAIN disk' : disk'[m] # y
             /\ w[y].pc \in Opened => \E m \in DOMAIN disk' :
                  disk'[m] = y /\ \A k \in DOMAIN disk' : disk'[k] = y => k = m
  <2>0. y # None
    BY WritersAssumption
  <2>1. w[y].pc = "try" <=> lock = y
    BY <1>3 DEF FileInv
  <2>2. w[y].pc \notin Opened => \A m \in DOMAIN disk' : disk'[m] # y
    <3>1. w[y].pc \notin Opened => \A m \in DOMAIN disk : disk[m] # y
      BY <1>3 DEF FileInv
    <3>. QED  BY <3>1, <1>2, <2>0
  <2>3. ASSUME w[y].pc \in Opened
        PROVE  \E m \in DOMAIN disk' : disk'[m] = y /\ \A k \in DOMAIN disk' : disk'[k] = y => k = m
    <3>1. PICK m \in DOMAIN disk : disk[m] = y /\ \A k \in DOMAIN disk : disk[k] = y => k = m
      BY <1>3, <2>3 DEF FileInv
    <3>. QED  BY <3>1, <1>2, <2>0
  <2>. QED  BY <2>1, <2>2, <2>3
<1>5. FileInv'
  BY <1>1, <1>3, <1>4 DEF FileInv
<1>. QED  BY <1>1, <1>5, AllKept

\* There are finitely many modules.
LEMMA EntriesNat ==
  ASSUME TypeInv
  PROVE  Entries \in Nat
BY FS_CardinalityType DEF TypeInv, Entries

\* The tree that is written has been built.
LEMMA WriteCustomInv ==
  ASSUME FormatInv, NEW x \in Writers, WriteCustom(x)
  PROVE  FormatInv'
<1>1. /\ TypeInv /\ FileInv /\ Placed(x) /\ Signed(x) /\ w[x] \in Writer /\ profile[x] \in Profiles
  BY Types DEF FormatInv, Profiles
<1>2. PICK wx : wx = [w[x] EXCEPT !.pc = "open"]
  OBVIOUS
<1>3. /\ w[x].pc = "idle" /\ Mode[x] = "custom" /\ w[x].builds > 0
      /\ Goto(x, "open") /\ UNCHANGED treeVars /\ UNCHANGED moduleVars /\ profile' = profile
      /\ UNCHANGED fileVars
  BY DEF WriteCustom
<1>4. w' = [w EXCEPT ![x] = wx] /\ Carries(w[x], wx) /\ wx.pc = "open"
  BY <1>1, <1>2, <1>3, GotoIs, PcRecord
<1>5. FileInv'
  BY <1>1, <1>3, <1>4, FilesKept DEF Opened
<1>6. w'[x] = wx /\ tree'[x] = tree[x]
  BY <1>1, <1>3, <1>4 DEF TypeInv, treeVars
<1>7. /\ wx \in Writer /\ wx.todo = w[x].todo /\ wx.at = w[x].at /\ wx.builds = w[x].builds
      /\ wx.kids = w[x].kids /\ wx.last = w[x].last
  BY <1>4 DEF Carries, Stays
<1>8. tree[x] # << >> /\ w[x].todo = << >> /\ w[x].builds # 0
  BY <1>1, <1>3 DEF Placed, Writer
<1>9. Placed(x)'
  BY <1>1, <1>3, <1>4, <1>6, <1>7, <1>8 DEF Placed
<1>10. Signed(x)'
  BY <1>1, <1>3, <1>4, <1>6, <1>7, <1>8 DEF Signed
<1>11. ASSUME NEW ip \in Addresses(x)' PROVE ip \in Addresses(x)
  <2>1. ip \in {tree[x][i].ip : i \in DOMAIN tree[x]}
    BY <1>4, <1>6, <1>7, <1>8 DEF Addresses
  <2>. QED  BY <2>1 DEF Addresses
<1>12. Mapping(x)'
  BY <1>4, <1>6 DEF Mapping
<1>13. profile' = [profile EXCEPT ![x] = profile[x]]
  BY <1>1, <1>3 DEF TypeInv
<1>. QED  BY <1>1, <1>3, <1>4, <1>5, <1>7, <1>9, <1>10, <1>11, <1>12, <1>13, QuietStep

\* A calling context tree is merged into an empty tree, from its root.
LEMMA WriteAllInv ==
  ASSUME FormatInv, NEW x \in Writers, NEW contexts \in Contexts, WriteAll(x, contexts)
  PROVE  FormatInv'
<1>1. /\ TypeInv /\ FileInv /\ Placed(x) /\ Signed(x) /\ w[x] \in Writer /\ profile[x] \in Profiles
  BY Types DEF FormatInv, Profiles
<1>2. PICK wx : wx = [w[x] EXCEPT !.pc = "open", !.todo = contexts]
  OBVIOUS
<1>3. /\ w[x].pc = "idle" /\ Mode[x] = "all" /\ Executed({contexts[k].ip : k \in DOMAIN contexts})
      /\ w' = [w EXCEPT ![x] = wx]
      /\ UNCHANGED treeVars /\ UNCHANGED moduleVars /\ profile' = profile /\ UNCHANGED fileVars
  BY <1>1, <1>2 DEF WriteAll, TypeInv, Writer
<1>4. /\ contexts \in Seq(Visits) /\ contexts # << >>
      /\ \A k \in DOMAIN contexts : IF k = 1 THEN contexts[k].depth = 1
                                    ELSE contexts[k].depth \in 2 .. contexts[k - 1].depth + 1
  BY ListsAssumption DEF Visits
<1>5. /\ wx \in Writer /\ wx.pc = "open" /\ wx.todo = contexts /\ wx.at = w[x].at
      /\ wx.builds = w[x].builds /\ wx.kids = w[x].kids /\ wx.last = w[x].last
  BY <1>1, <1>2, <1>4 DEF Writer
<1>6. FileInv'
  BY <1>1, <1>3, <1>5, FilesKept DEF Opened
<1>7. w'[x] = wx /\ tree'[x] = tree[x]
  BY <1>1, <1>3 DEF TypeInv, treeVars
<1>8. tree[x] = << >> /\ Mode[x] # "custom"
  BY <1>1, <1>3 DEF Placed
<1>9. Placed(x)'
  <2>1. contexts[1].depth = 1
    <3>1. 1 \in DOMAIN contexts
      BY <1>4, Rest
    <3>. QED  BY <1>4, <3>1
  <2>2. \A k \in DOMAIN contexts : k > 1 => contexts[k].depth \in 2 .. contexts[k - 1].depth + 1
    <3>1. \A k \in DOMAIN contexts : k > 1 => k # 1
      OBVIOUS
    <3>. QED  BY <1>4, <3>1
  <2>3. /\ wx.at # << >> /\ wx.at[1] = 0
        /\ \A k \in DOMAIN wx.at : k > 1 => wx.at[k] \in DOMAIN tree[x]
    BY <1>1, <1>5 DEF Placed
  <2>. QED  BY <1>4, <1>5, <1>7, <1>8, <2>1, <2>2, <2>3 DEF Placed
<1>10. Signed(x)'
  BY <1>1, <1>7, <1>8 DEF Signed
<1>11. Executed(Addresses(x)')
  <2>1. Addresses(x)' = {contexts[k].ip : k \in DOMAIN contexts}
    <3>1. w'[x].pc # "insert" /\ w'[x].todo = contexts
      BY <1>5, <1>7
    <3>2. Addresses(x)' = {tree'[x][i].ip : i \in DOMAIN tree'[x]} \cup
            IF w'[x].pc = "insert" THEN Passed(w'[x].todo)
            ELSE {w'[x].todo[k].ip : k \in DOMAIN w'[x].todo}
      BY DEF Addresses, Passed
    <3>3. {tree'[x][i].ip : i \in DOMAIN tree'[x]} = {}
      BY <1>7, <1>8, EmptySeq
    <3>4. Addresses(x)' = {} \cup {w'[x].todo[k].ip : k \in DOMAIN w'[x].todo}
      BY <3>1, <3>2, <3>3, Zenon
    <3>. QED  BY <3>1, <3>4
  <2>. QED  BY <2>1, <1>3
<1>12. Mapping(x)'
  BY <1>5, <1>7 DEF Mapping
<1>13. profile' = [profile EXCEPT ![x] = profile[x]]
  BY <1>1, <1>3 DEF TypeInv
<1>. QED  BY <1>1, <1>3, <1>5, <1>6, <1>9, <1>10, <1>11, <1>12, <1>13, QuietStep

\* The size announced is the number of modules.
LEMMA LoadmapSizeInv ==
  ASSUME FormatInv, NEW x \in Writers, LoadmapSize(x)
  PROVE  FormatInv'
<1>1. TypeInv /\ FileInv /\ w[x] \in Writer /\ profile[x] \in Profiles /\ Entries \in Nat
  BY Types, EntriesNat DEF FormatInv, Profiles
<1>2. PICK wx, px, n : /\ wx = [w[x] EXCEPT !.pc = "alloc"] /\ n = Entries
                       /\ px = [profile[x] EXCEPT !.size = n]
  OBVIOUS
<1>3. /\ w[x].pc = "size" /\ profile' = [profile EXCEPT ![x] = px]
      /\ Goto(x, "alloc") /\ UNCHANGED treeVars /\ UNCHANGED moduleVars /\ UNCHANGED fileVars
  BY <1>1, <1>2 DEF LoadmapSize, TypeInv
<1>4. w' = [w EXCEPT ![x] = wx] /\ Carries(w[x], wx) /\ wx.pc = "alloc"
  BY SMTT(60), <1>1, <1>2, <1>3, GotoIs, PcRecord DEF Opened
<1>5. FileInv'
  BY <1>1, <1>3, <1>4, FilesKept DEF Opened
<1>6. px \in Profiles /\ px.rows = profile[x].rows /\ px.size = n
  BY <1>1, <1>2 DEF Profiles
<1>7. Mapping(x)'
  <2>1. w'[x].pc = "alloc" /\ profile'[x] = px
    BY <1>1, <1>3, <1>4 DEF TypeInv
  <2>2. Entries' = n
    BY <1>2, <1>3 DEF moduleVars, tableVars, Entries
  <2>. QED  BY <1>6, <2>1, <2>2 DEF Mapping
<1>. QED  BY <1>1, <1>3, <1>4, <1>5, <1>6, <1>7, GoOn

\* The vector has as many places, if no module came.
LEMMA LoadmapAllocInv ==
  ASSUME FormatInv, NEW x \in Writers, LoadmapAlloc(x)
  PROVE  FormatInv'
<1>1. /\ TypeInv /\ FileInv /\ w[x] \in Writer /\ profile[x] \in Profiles /\ Entries \in Nat
      /\ Covered(x)
  BY Types, EntriesNat DEF FormatInv, Profiles
<1>2. PICK wx, n : n = Entries /\ wx = [w[x] EXCEPT !.pc = "fill", !.n = n]
  OBVIOUS
<1>3. /\ w[x].pc = "alloc" /\ w' = [w EXCEPT ![x] = wx]
      /\ UNCHANGED treeVars /\ UNCHANGED moduleVars /\ UNCHANGED fileVars /\ profile' = profile
  BY <1>1, <1>2 DEF LoadmapAlloc, TypeInv, Writer
<1>4. Carries(w[x], wx) /\ wx.pc = "fill" /\ wx.n = n
  BY <1>1, <1>2 DEF Carries, Stays, Writer, Opened
<1>5. FileInv'
  BY <1>1, <1>3, <1>4, FilesKept DEF Opened
<1>6. profile' = [profile EXCEPT ![x] = profile[x]]
  BY <1>1, <1>3 DEF TypeInv
<1>7. ASSUME x \notin disturbed PROVE Mapping(x)'
  <2>1. w'[x] = wx /\ profile'[x] = profile[x]
    BY <1>1, <1>3 DEF TypeInv
  <2>2. Entries' = n
    BY <1>2, <1>3 DEF moduleVars, tableVars, Entries
  <2>3. profile[x].size = n
    BY <1>1, <1>2, <1>3, <1>7 DEF Covered, Mapping
  <2>. QED  BY <1>4, <2>1, <2>2, <2>3 DEF Mapping
<1>. QED  BY <1>1, <1>3, <1>4, <1>5, <1>6, <1>7, GoOn

\* hpcrun_fmt_loadmap_fwrite writes behind the vector's end only where a module came.
LEMMA LoadmapFillInv ==
  ASSUME FormatInv, NEW x \in Writers, LoadmapFill(x)
  PROVE  FormatInv'
<1>1. /\ TypeInv /\ FileInv /\ TableInv /\ w[x] \in Writer /\ profile[x] \in Profiles /\ Covered(x)
      /\ table \subseteq Module
  BY Types DEF FormatInv, Profiles, TypeInv
<1>2. /\ w[x].pc = "fill"
      /\ UNCHANGED treeVars /\ UNCHANGED moduleVars /\ UNCHANGED fileVars /\ profile' = profile
  BY DEF LoadmapFill
<1>3. profile' = [profile EXCEPT ![x] = profile[x]]
  BY <1>1, <1>2 DEF TypeInv
<1>4. Entries' = Entries /\ table' = table
  BY <1>2 DEF moduleVars, tableVars, Entries
<1>5. x \notin disturbed => profile[x].size = Entries /\ w[x].n = Entries
  BY <1>1, <1>2 DEF Covered, Mapping
<1>6. CASE \A e \in table : e.id <= w[x].n
  <2>1. PICK wx, t : t = table /\ wx = [w[x] EXCEPT !.pc = "list", !.vector = t]
    OBVIOUS
  <2>2. w' = [w EXCEPT ![x] = wx]
    BY <1>1, <1>6, <2>1 DEF LoadmapFill, TypeInv, Writer
  <2>3. Carries(w[x], wx) /\ wx.pc = "list" /\ wx.n = w[x].n /\ wx.vector = table
    BY <1>1, <2>1 DEF Carries, Stays, Writer, Opened
  <2>4. FileInv'
    BY <1>1, <1>2, <2>2, <2>3, FilesKept DEF Opened
  <2>5. w'[x] = wx /\ profile'[x] = profile[x]
    BY <1>1, <1>2, <2>2 DEF TypeInv
  <2>6. x \notin disturbed => Mapping(x)'
    BY <1>4, <1>5, <2>3, <2>5 DEF Mapping
  <2>. QED  BY <1>1, <1>2, <1>3, <2>2, <2>3, <2>4, <2>6, GoOn
<1>7. CASE ~ \A e \in table : e.id <= w[x].n
  <2>1. PICK wx : wx = [w[x] EXCEPT !.pc = "crash"]
    OBVIOUS
  <2>2. Goto(x, "crash")
    BY <1>7 DEF LoadmapFill
  <2>3. w' = [w EXCEPT ![x] = wx] /\ Carries(w[x], wx) /\ wx.pc = "crash"
    BY <1>1, <2>1, <2>2, GotoIs, PcRecord DEF Opened
  <2>4. FileInv'
    BY <1>1, <1>2, <2>3, FilesKept DEF Opened
  <2>5. x \in disturbed
    <3>1. PICK e \in table : ~ (e.id <= w[x].n)
      BY <1>7
    <3>2. e.id \in 1 .. Entries
      BY <1>1, <3>1 DEF TableInv
    <3>3. Entries \in Nat
      BY <1>1, EntriesNat
    <3>. QED  BY <1>5, <3>1, <3>2, <3>3
  <2>. QED  BY <1>1, <1>2, <1>3, <2>3, <2>4, <2>5, GoOn
<1>. QED  BY <1>6, <1>7

\* hpcrun_fmt_loadmap_fwrite lists a module at each id, each address' module among
\* them, or crashes where a module came since it read their number.
LEMMA LoadmapListInv ==
  ASSUME FormatInv, NEW x \in Writers, LoadmapList(x)
  PROVE  FormatInv'
<1>. DEFINE at(i) == {e \in w[x].vector : e.id = i}
<1>1. /\ TypeInv /\ FileInv /\ TableInv /\ w[x] \in Writer /\ profile[x] \in Profiles /\ Covered(x)
      /\ table \subseteq Module /\ Entries \in Nat /\ Placed(x) /\ Signed(x)
  BY Types, EntriesNat DEF FormatInv, Profiles, TypeInv
<1>2. /\ w[x].pc = "list"
      /\ UNCHANGED treeVars /\ UNCHANGED moduleVars /\ UNCHANGED fileVars
  BY DEF LoadmapList
<1>3. Entries' = Entries /\ table' = table
  BY <1>2 DEF moduleVars, tableVars, Entries
<1>4. x \notin disturbed => profile[x].size = Entries /\ w[x].vector = table
  BY <1>1, <1>2 DEF Covered, Mapping
<1>5. CASE \A i \in 1 .. Entries : at(i) # {}
  <2>1. PICK m : m = [i \in 1 .. Entries |-> CHOOSE e \in at(i) : TRUE]
    OBVIOUS
  <2>2. PICK wx, px : wx = [w[x] EXCEPT !.pc = "rows"] /\ px = [profile[x] EXCEPT !.map = m]
    OBVIOUS
  <2>3. profile' = [profile EXCEPT ![x] = px] /\ Goto(x, "rows")
    BY <1>1, <1>5, <2>1, <2>2 DEF LoadmapList, TypeInv
  <2>4. w' = [w EXCEPT ![x] = wx] /\ Carries(w[x], wx) /\ wx.pc = "rows"
    BY <1>1, <2>2, <2>3, GotoIs, PcRecord DEF Opened
  <2>5. FileInv'
    BY <1>1, <1>2, <2>4, FilesKept DEF Opened
  <2>6. \A i \in 1 .. Entries : m[i] \in w[x].vector /\ m[i].id = i
    <3>. SUFFICES ASSUME NEW i \in 1 .. Entries PROVE m[i] \in at(i)
      OBVIOUS
    <3>1. m[i] = CHOOSE e \in at(i) : TRUE
      BY <2>1
    <3>2. at(i) # {}
      BY <1>5
    <3>. HIDE DEF at
    <3>. QED  BY <3>1, <3>2
  <2>7. m \in Seq(Module) /\ Len(m) = Entries /\ DOMAIN m = 1 .. Entries
    <3>1. w[x].vector \subseteq Module
      BY <1>1 DEF Writer
    <3>2. m \in [1 .. Entries -> Module]
      BY <2>1, <2>6, <3>1
    <3>3. m \in Seq(Module)
      BY <1>1, <3>2, SeqDef
    <3>. QED  BY <1>1, <3>2, <3>3, LenProperties
  <2>8. px \in Profiles /\ px.rows = profile[x].rows /\ px.map = m /\ px.size = profile[x].size
    BY <1>1, <2>2, <2>7 DEF Profiles
  <2>9. ASSUME x \notin disturbed PROVE Mapping(x)'
    <3>1. w'[x] = wx /\ profile'[x] = px /\ tree'[x] = tree[x]
      BY <1>1, <1>2, <2>3, <2>4 DEF TypeInv, treeVars
    <3>2. Addresses(x)' = Addresses(x)
      BY <1>1, <1>2, <2>4, <3>1, PlaceCarried DEF Carries, Stays
    <3>3. \A k \in DOMAIN m : m[k] \in table' /\ m[k].id = k
      BY <1>3, <1>4, <2>6, <2>7, <2>9
    <3>4. ASSUME NEW ip \in Addresses(x) \ {0} PROVE Generated(ip) \/ \E k \in DOMAIN m : m[k].base = BaseOf[ip]
      <4>. SUFFICES ASSUME ~ Generated(ip) PROVE \E k \in DOMAIN m : m[k].base = BaseOf[ip]
        OBVIOUS
      <4>1. PICK e \in table : e.base = BaseOf[ip]
        BY <1>1 DEF Covered, Executed
      <4>2. e.id \in 1 .. Entries
        BY <1>1 DEF TableInv
      <4>3. m[e.id] \in table /\ m[e.id].id = e.id
        BY <1>4, <2>6, <2>9, <4>2
      <4>4. m[e.id] = e
        BY <1>1, <4>3 DEF TableInv
      <4>. QED  BY <4>1, <4>2, <4>4, <2>7
    <3>. QED  BY <1>4, <2>4, <2>7, <2>8, <2>9, <3>1, <3>2, <3>3, <3>4 DEF Mapping, Generated
  <2>. QED  BY <1>1, <1>2, <2>3, <2>4, <2>5, <2>8, <2>9, GoOn
<1>6. CASE ~ \A i \in 1 .. Entries : at(i) # {}
  <2>1. PICK wx : wx = [w[x] EXCEPT !.pc = "crash"]
    OBVIOUS
  <2>2. Goto(x, "crash") /\ profile' = profile
    BY <1>6 DEF LoadmapList
  <2>3. w' = [w EXCEPT ![x] = wx] /\ Carries(w[x], wx) /\ wx.pc = "crash"
    BY <1>1, <2>1, <2>2, GotoIs, PcRecord DEF Opened
  <2>4. FileInv'
    BY <1>1, <1>2, <2>3, FilesKept DEF Opened
  <2>5. x \in disturbed
    <3>1. PICK i \in 1 .. Entries : at(i) = {}
      BY <1>6
    <3>2. PICK e \in table : e.id = i
      BY <1>1 DEF TableInv
    <3>. QED  BY <1>4, <3>1, <3>2
  <2>6. profile' = [profile EXCEPT ![x] = profile[x]]
    BY <1>1, <2>2 DEF TypeInv
  <2>. QED  BY <1>1, <1>2, <2>3, <2>4, <2>5, <2>6, GoOn
<1>. QED  BY <1>5, <1>6
-----------------------------------------------------------------------------
(* Modules come and go.                                                    *)

\* Loading touches the table only by a new entry, with the next id and a new base.
LEMMA EntryAdded ==
  ASSUME TypeInv, TableInv, NEW e \in Module, e.id = next_key,
         e.base # None, \A f \in table : f.base # e.base,
         table' = table \cup {e}, next_key' = next_key + 1, unloaded' = unloaded,
         loaded' = loaded \cup {[base |-> e.base, mod |-> e.mod]}
  PROVE  /\ table' \subseteq Module /\ IsFiniteSet(table') /\ next_key' = Entries' + 1
         /\ TableInv'
<1>1. Entries \in Nat /\ IsFiniteSet(table) /\ next_key = Entries + 1 /\ table \subseteq Module
  BY EntriesNat DEF TypeInv
<1>2. e \notin table
  OBVIOUS
<1>3. IsFiniteSet(table') /\ Entries' = Entries + 1
  BY <1>1, <1>2, FS_AddElement DEF Entries
<1>4. \A f \in table' : f.id \in 1 .. Entries'
  BY <1>1, <1>3 DEF TableInv
<1>5. \A f, g \in table' : f.id = g.id \/ f.base = g.base => f = g
  <2>1. \A f \in table : f.id # e.id /\ f.base # e.base
    BY <1>1 DEF TableInv
  <2>2. \A f, g \in table : f.id = g.id \/ f.base = g.base => f = g
    BY DEF TableInv
  <2>. QED  BY <2>1, <2>2
<1>6. \A k \in 1 .. Entries' : \E f \in table' : f.id = k
  <2>1. \A k \in 1 .. Entries : \E f \in table : f.id = k
    BY DEF TableInv
  <2>2. \A k \in 1 .. Entries' : k \in 1 .. Entries \/ k = next_key
    BY <1>1, <1>3
  <2>. QED  BY <2>1, <2>2
<1>7. ~ unloaded' => \A f \in table' : [base |-> f.base, mod |-> f.mod] \in loaded'
  BY DEF TableInv
<1>8. \A f \in table' : f.base # None
  BY DEF TableInv
<1>9. \A f \in loaded' : \E g \in table' : g.base = f.base
  BY DEF TableInv
<1>. QED  BY <1>1, <1>3, <1>4, <1>5, <1>6, <1>7, <1>8, <1>9 DEF TableInv

\* A step that only concerns modules.
LEMMA ModulesStep ==
  ASSUME FormatInv, UNCHANGED treeVars, UNCHANGED fileVars, w' = w, profile' = profile,
         table \subseteq table', disturbed \subseteq disturbed', unloaded => unloaded',
         raced \subseteq raced',
         table' = table \/ {x \in Writers : w[x].pc \in {"alloc", "fill", "list"}} \subseteq disturbed',
         TableInv', table' \subseteq Module /\ IsFiniteSet(table') /\ next_key' = Entries' + 1
  PROVE  FormatInv'
<1>1. /\ tree' = tree /\ count' = count /\ next_id' = next_id /\ lock' = lock /\ disk' = disk
      /\ TypeInv /\ FileInv /\ TreeInv
  BY DEF FormatInv, treeVars, fileVars
<1>2. TypeInv'
  BY <1>1 DEF TypeInv
<1>3. FileInv'
  BY <1>1 DEF FileInv
<1>4. TreeInv'
  BY <1>1, TreesKept
<1>5. ASSUME NEW y \in Writers PROVE (Placed(y) /\ Signed(y) /\ Recorded(y) /\ Covered(y))'
  <2>1. WriterInv(y)
    BY DEF FormatInv, WriterInv
  <2>2. table' = table \/ (y \notin disturbed' => w[y].pc \notin {"alloc", "fill", "list"})
    OBVIOUS
  <2>3. WriterInv(y)'
    BY <1>1, <2>1, <2>2, WriterKept
  <2>. QED  BY <2>3 DEF WriterInv
<1>. QED  BY <1>2, <1>3, <1>4, <1>5 DEF FormatInv

\* A module gets the next id, and its base is nobody's.
LEMMA ModuleLoadInv ==
  ASSUME FormatInv, NEW m \in Libs, NEW ip \in Ips, ModuleLoad(m, BaseOf[ip])
  PROVE  FormatInv'
<1>. DEFINE b == BaseOf[ip]
<1>1. /\ b # None /\ loaded' = loaded \cup {[base |-> b, mod |-> m]}
      /\ UNCHANGED treeVars /\ UNCHANGED fileVars /\ w' = w /\ profile' = profile
      /\ unloaded' = unloaded /\ TypeInv /\ TableInv
  BY DEF ModuleLoad, FormatInv
<1>2. CASE \E e \in table : e.base = b
  <2>1. table' = table /\ next_key' = next_key /\ disturbed' = disturbed /\ raced' = raced
    BY <1>2 DEF ModuleLoad
  <2>2. TableInv' /\ Entries' = Entries
    BY <1>1, <1>2, <2>1 DEF TableInv, Entries
  <2>3. table' \subseteq Module /\ IsFiniteSet(table') /\ next_key' = Entries' + 1
    BY <1>1, <2>1, <2>2 DEF TypeInv
  <2>. QED  BY <1>1, <2>1, <2>2, <2>3, ModulesStep
<1>3. CASE ~ \E e \in table : e.base = b
  <2>1. PICK e : e = [base |-> b, mod |-> m, id |-> ModuleId(m)]
    OBVIOUS
  <2>2. /\ table' = table \cup {e} /\ next_key' = next_key + 1
        /\ disturbed' = disturbed \cup {x \in Writers : w[x].pc \in {"alloc", "fill", "list"}}
        /\ raced \subseteq raced'
    BY <1>3, <2>1 DEF ModuleLoad
  <2>3. e.base = b /\ e.mod = m /\ e.id = next_key
    BY <2>1, ModulesAssumption DEF ModuleId
  <2>4. Entries \in Nat /\ next_key \in Nat
    BY <1>1, EntriesNat DEF TypeInv
  <2>5. e \in Module
    BY <2>1, <2>3, <2>4 DEF Module, Bases
  <2>6. \A f \in table : f.base # e.base
    BY <1>3, <2>3
  <2>7. TableInv' /\ table' \subseteq Module /\ IsFiniteSet(table') /\ next_key' = Entries' + 1
    BY <1>1, <2>2, <2>3, <2>5, <2>6, EntryAdded
  <2>. QED  BY <1>1, <2>2, <2>7, ModulesStep
<1>. QED  BY <1>2, <1>3

\* An entry stays when its module goes.
LEMMA ModuleUnloadInv ==
  ASSUME FormatInv, NEW e, ModuleUnload(e)
  PROVE  FormatInv'
<1>1. /\ UNCHANGED treeVars /\ UNCHANGED fileVars /\ w' = w /\ profile' = profile
      /\ unloaded' = TRUE /\ table' = table /\ next_key' = next_key /\ disturbed' = disturbed
      /\ raced' = raced /\ loaded' \subseteq loaded
      /\ TypeInv /\ TableInv
  BY DEF ModuleUnload, FormatInv
<1>2. TableInv' /\ Entries' = Entries
  BY <1>1 DEF TableInv, Entries
<1>3. table' \subseteq Module /\ IsFiniteSet(table') /\ next_key' = Entries' + 1
  BY <1>1, <1>2 DEF TypeInv
<1>. QED  BY <1>1, <1>2, <1>3, ModulesStep
-----------------------------------------------------------------------------
(* The rows.                                                               *)

\* A step of a writer that writes rows, when its record of them is right after it.
LEMMA RowsStep ==
  ASSUME FormatInv, NEW x \in Writers, NEW wx, Stays(w[x], wx), w' = [w EXCEPT ![x] = wx],
         NEW px \in Profiles, profile' = [profile EXCEPT ![x] = px],
         px.size = profile[x].size, px.map = profile[x].map,
         UNCHANGED treeVars, UNCHANGED tableVars, UNCHANGED fileVars,
         \A y \in Writers \ {x} : y \in raced => y \in raced',
         w[x].pc \in {"rows", "write"}, wx.pc \in {"write", "done", "crash"},
         x \notin disturbed /\ wx.pc = "crash" => unloaded \/ x \in raced' \/ Outside(x),
         Recorded(x)'
  PROVE  FormatInv'
<1>0. TypeInv /\ TreeInv /\ FileInv /\ Placed(x) /\ Signed(x) /\ Covered(x)
  BY DEF FormatInv
<1>1. PICK tx \in Seq(Node), cx \in Nat : tx = tree[x] /\ cx = count[x]
  BY <1>0, Types
<1>2. tree' = [tree EXCEPT ![x] = tx] /\ count' = [count EXCEPT ![x] = cx] /\ next_id' \in Nat
  BY <1>0, <1>1 DEF treeVars, TypeInv
<1>3. wx \in Writer
  BY DEF Stays
<1>4. TypeInv'
  BY <1>0, <1>1, <1>2, <1>3, TypesKept DEF Profiles
<1>5. TreeInv'
  BY <1>0, TreesKept
<1>6. FileInv'
  BY <1>0, FilesKept DEF Opened
<1>7. w'[x] = wx /\ profile'[x] = px /\ tree'[x] = tree[x]
  BY <1>0 DEF TypeInv, treeVars
<1>8. Placed(x)' /\ Signed(x)' /\ Addresses(x)' = Addresses(x)
  BY <1>0, <1>7, PlaceCarried
<1>9. table' = table /\ disturbed' = disturbed /\ unloaded' = unloaded
  BY DEF tableVars
<1>10. Covered(x)'
  <2>1. Executed(Addresses(x))'
    BY <1>0, <1>8, <1>9 DEF Covered, Executed, Generated
  <2>2. ASSUME x \notin disturbed PROVE Mapping(x)'
    <3>1. Mapping(x)
      BY <1>0, <2>2 DEF Covered
    <3>2. /\ profile[x].size = Len(profile[x].map)
          /\ \A k \in DOMAIN profile[x].map : profile[x].map[k] \in table /\ profile[x].map[k].id = k
          /\ \A ip \in Addresses(x) \ {0} :
               Generated(ip) \/ \E k \in DOMAIN profile[x].map : profile[x].map[k].base = BaseOf[ip]
      BY <3>1 DEF Mapping
    <3>3. w'[x].pc \in {"write", "done", "crash"} /\ (w'[x].pc = "crash" => unloaded' \/ x \in raced' \/ Outside(x)')
      BY <1>7, <1>9, <2>2 DEF Outside, Generated
    <3>4. profile'[x].size = profile[x].size /\ profile'[x].map = profile[x].map
      BY <1>7
    <3>. QED  BY <1>8, <1>9, <3>2, <3>3, <3>4 DEF Mapping, Generated
  <2>. QED  BY <1>9, <2>1, <2>2 DEF Covered
<1>11. WriterInv(x)'
  BY <1>8, <1>10 DEF WriterInv
<1>12. TableInv' /\ \A y \in Writers : (Placed(y) /\ Signed(y) /\ Recorded(y) /\ Covered(y))'
  BY <1>2, <1>11, OthersKept
<1>. QED  BY <1>4, <1>5, <1>6, <1>12 DEF FormatInv

\* A tree has its root, the only node without a parent.
LEMMA RootOf ==
  ASSUME FormatInv, NEW x \in Writers, tree[x] # << >>
  PROVE  /\ Children(tree[x], 0) = {1} /\ 1 \in DOMAIN tree[x]
         /\ tree[x][1].parent = 0
         /\ \A i \in DOMAIN tree[x] : i # 1 => /\ tree[x][i].up \in DOMAIN tree[x]
                                                /\ tree[x][i].up < i
                                                /\ tree[x][i].parent = tree[x][tree[x][i].up].id
<1>1. tree[x] \in Seq(Node) /\ DOMAIN tree[x] = 1 .. Len(tree[x]) /\ Len(tree[x]) \in Nat
  BY Types DEF FormatInv
<1>2. TreeOK(x)
  BY DEF FormatInv, TreeInv
<1>3. 1 \in DOMAIN tree[x]
  BY <1>1, EmptySeq, Rest
<1>4. \A i \in DOMAIN tree[x] : i # 1 =>
        /\ tree[x][i].up \in 1 .. i - 1
        /\ tree[x][i].parent = tree[x][tree[x][i].up].id
  BY <1>2 DEF TreeOK
<1>5. \A i \in DOMAIN tree[x] : i # 1 => /\ tree[x][i].up \in DOMAIN tree[x]
                                          /\ tree[x][i].up < i /\ tree[x][i].up # 0
  BY <1>1, <1>4
<1>6. tree[x][1].up = 0 /\ tree[x][1].parent = 0
  BY <1>2, <1>3 DEF TreeOK
<1>. QED  BY <1>3, <1>4, <1>5, <1>6 DEF Children

\* The number of nodes is written, and the root's row comes next.
LEMMA WriteCountInv ==
  ASSUME FormatInv, NEW x \in Writers, WriteCount(x)
  PROVE  FormatInv'
<1>1. /\ TypeInv /\ Placed(x) /\ Recorded(x) /\ w[x] \in Writer /\ profile[x] \in Profiles
      /\ count[x] \in Nat
  BY Types DEF FormatInv, Profiles
<1>2. PICK wx, px, ps, c : /\ ps = <<0>> /\ wx = [w[x] EXCEPT !.pc = "write", !.parents = ps]
                           /\ c = count[x] /\ px = [profile[x] EXCEPT !.count = c]
  OBVIOUS
<1>3. /\ w[x].pc = "rows" /\ w[x].todo = << >>
      /\ profile' = [profile EXCEPT ![x] = px] /\ w' = [w EXCEPT ![x] = wx]
      /\ UNCHANGED treeVars /\ UNCHANGED tableVars /\ raced' = raced /\ UNCHANGED fileVars
  BY <1>1, <1>2 DEF WriteCount, TypeInv, Writer, moduleVars
<1>4. /\ Stays(w[x], wx) /\ wx.pc = "write" /\ wx.parents = ps
      /\ wx.kids = w[x].kids /\ wx.last = w[x].last
  <2>1. ps \in Seq(Nat)
    BY <1>2
  <2>. QED  BY <1>1, <1>2, <2>1 DEF Stays, Writer, Opened
<1>5. /\ px \in Profiles /\ px.size = profile[x].size /\ px.map = profile[x].map
      /\ px.rows = profile[x].rows /\ px.count = c
  BY <1>1, <1>2 DEF Profiles
<1>6. w'[x] = wx /\ profile'[x] = px /\ tree'[x] = tree[x] /\ count'[x] = count[x] /\ table' = table
  BY <1>1, <1>3 DEF TypeInv, treeVars, tableVars
<1>7. profile[x].rows = << >> /\ w[x].kids = << >> /\ w[x].last = 0
  BY <1>1, <1>3 DEF Recorded, Rows
<1>8. tree[x] # << >>
  BY <1>1, <1>3 DEF Placed
<1>9. Rows(x)' = << >> /\ Written(x)' = {}
  BY <1>5, <1>6, <1>7, EmptySeq DEF Rows, Written
<1>10. RowsOK(x)'
  BY <1>9, EmptySeq DEF RowsOK
<1>11. Half(x)'
  <2>1. /\ Head(ps) = 0 /\ ps # << >> /\ IsInjective(ps) /\ ToSet(ps) = {0}
    BY <1>2 DEF IsInjective, ToSet
  <2>2. IsInjective(wx.kids) /\ ToSet(wx.kids) = {}
    BY <1>4, <1>7, EmptySeq DEF IsInjective, ToSet
  <2>3. /\ w'[x].parents = ps /\ w'[x].kids = << >> /\ w'[x].last = 0
    BY <1>4, <1>6, <1>7
  <2>4. Pending(x)' = {0}
    BY <1>4, <1>6, <2>1, <2>2 DEF Pending
  <2>5. Children(tree'[x], 0) = {1}
    BY <1>6, <1>8, RootOf
  <2>6. ~ IsLeaf(tree'[x], 0) /\ \E k \in Children(tree'[x], 0) : k > 0
    BY <2>5 DEF IsLeaf
  <2>7. ASSUME NEW i \in DOMAIN tree'[x] PROVE ~ (i <= 0)
    BY <1>1, <1>6, <2>7, Types
  <2>8. \A i \in DOMAIN tree'[x] :
          LET q == tree'[x][i].up IN
          i \in Written(x)' <=> \/ q \in (Written(x)' \cup {0}) \ Pending(x)'
                                \/ q = 0 /\ i <= 0
    BY <1>9, <2>4, <2>7
  <2>9. (\A q \in Pending(x) : ~ IsLeaf(tree[x], q))'
    BY <2>4, <2>6
  <2>10. Head(w'[x].parents) = 0
    BY <2>1, <2>3
  <2>11. (IF Rows(x) = << >> THEN w[x].parents = <<0>> /\ w[x].kids = << >> /\ w[x].last = 0
          ELSE Pending(x) \subseteq Written(x))'
    BY <1>2, <1>9, <2>3
  <2>12. /\ w'[x].parents # << >> /\ IsInjective(w'[x].parents) /\ IsInjective(w'[x].kids)
         /\ ToSet(w'[x].parents) \cap ToSet(w'[x].kids) = {}
    BY <1>4, <1>6, <2>1, <2>2
  <2>13. \E k \in Children(tree'[x], 0) : k > w'[x].last
    BY <2>3, <2>6
  <2>14. \A i \in DOMAIN tree'[x] :
          LET q == tree'[x][i].up IN
          i \in Written(x)' <=> \/ q \in (Written(x)' \cup {0}) \ Pending(x)'
                                \/ q = 0 /\ i <= w'[x].last
    BY <2>3, <2>8
  <2>. QED  BY <2>9, <2>10, <2>11, <2>12, <2>13, <2>14, Zenon DEF Half
<1>12. Recorded(x)'
  BY <1>2, <1>4, <1>5, <1>6, <1>10, <1>11 DEF Recorded
<1>13. wx.pc # "crash"
  BY <1>4
<1>. QED  BY <1>3, <1>4, <1>5, <1>12, <1>13, RowsStep

\* What one element more does to the elements of a sequence.
LEMMA AppendSet ==
  ASSUME NEW s \in Seq(Nat), NEW e \in Nat
  PROVE  /\ Append(s, e) \in Seq(Nat) /\ ToSet(Append(s, e)) = ToSet(s) \cup {e}
         /\ IsInjective(s) /\ e \notin ToSet(s) => IsInjective(Append(s, e))
<1>1. /\ Append(s, e) \in Seq(Nat) /\ Len(s) \in Nat /\ DOMAIN s = 1 .. Len(s)
      /\ DOMAIN Append(s, e) = DOMAIN s \cup {Len(s) + 1} /\ Len(s) + 1 \notin DOMAIN s
      /\ \A i \in DOMAIN s : Append(s, e)[i] = s[i]
      /\ Append(s, e)[Len(s) + 1] = e
  BY Appended
<1>2. PICK a, m : a = Append(s, e) /\ m = Len(s) + 1
  OBVIOUS
<1>3. DOMAIN a = DOMAIN s \cup {m} /\ m \notin DOMAIN s /\ a[m] = e /\ \A i \in DOMAIN s : a[i] = s[i]
  BY <1>1, <1>2
<1>4. ToSet(a) = ToSet(s) \cup {e}
  BY <1>3 DEF ToSet
<1>5. IsInjective(s) /\ e \notin ToSet(s) => IsInjective(a)
  BY <1>3 DEF ToSet, IsInjective
<1>. QED  BY <1>1, <1>2, <1>4, <1>5

\* What putting one sequence behind another does.
LEMMA ConcatSet ==
  ASSUME NEW s \in Seq(Nat), NEW t \in Seq(Nat), IsInjective(s), IsInjective(t),
         ToSet(s) \cap ToSet(t) = {}
  PROVE  s \o t \in Seq(Nat) /\ ToSet(s \o t) = ToSet(s) \cup ToSet(t) /\ IsInjective(s \o t)
<1>1. PICK c, m : c = s \o t /\ m = Len(s)
  OBVIOUS
<1>2. /\ c \in Seq(Nat) /\ m \in Nat /\ DOMAIN s = 1 .. m /\ Len(c) = m + Len(t)
      /\ \A i \in 1 .. Len(c) : c[i] = IF i <= m THEN s[i] ELSE t[i - m]
  BY <1>1, ConcatProperties, LenProperties
<1>3. DOMAIN c = 1 .. m + Len(t) /\ DOMAIN t = 1 .. Len(t) /\ Len(t) \in Nat
  BY <1>2, LenProperties
<1>4. \A i \in DOMAIN c : \/ i \in DOMAIN s /\ c[i] = s[i]
                          \/ i > m /\ i - m \in DOMAIN t /\ c[i] = t[i - m]
  <2>. TAKE i \in DOMAIN c
  <2>1. i \in 1 .. Len(c) /\ i \in Int /\ c[i] = IF i <= m THEN s[i] ELSE t[i - m]
    BY <1>2, <1>3
  <2>2. CASE i <= m
    BY <1>2, <2>1, <2>2
  <2>3. CASE ~ (i <= m)
    <3>1. i > m /\ i - m \in 1 .. Len(t)
      BY <1>2, <1>3, <2>1, <2>3
    <3>. QED  BY <1>3, <2>1, <2>3, <3>1
  <2>. QED  BY <2>2, <2>3
<1>5. \A i \in DOMAIN s : i \in DOMAIN c /\ c[i] = s[i]
  BY <1>2, <1>3
<1>6. \A i \in DOMAIN t : i + m \in DOMAIN c /\ c[i + m] = t[i]
  <2>. TAKE i \in DOMAIN t
  <2>1. i + m \in 1 .. Len(c) /\ ~ (i + m <= m) /\ (i + m) - m = i
    BY SMTT(60), <1>2, <1>3
  <2>. QED  BY <1>2, <1>3, <2>1
<1>7. ToSet(c) = ToSet(s) \cup ToSet(t)
  BY <1>4, <1>5, <1>6 DEF ToSet
<1>8. ASSUME NEW i \in DOMAIN c, NEW j \in DOMAIN c, c[i] = c[j] PROVE i = j
  <2>1. \A a \in DOMAIN s, b \in DOMAIN t : s[a] # t[b]
    BY DEF ToSet
  <2>2. CASE i \in DOMAIN s /\ c[i] = s[i] /\ j \in DOMAIN s /\ c[j] = s[j]
    BY <1>8, <2>2 DEF IsInjective
  <2>3. CASE /\ i > m /\ i - m \in DOMAIN t /\ c[i] = t[i - m]
             /\ j > m /\ j - m \in DOMAIN t /\ c[j] = t[j - m]
    <3>1. i - m = j - m
      BY <1>8, <2>3 DEF IsInjective
    <3>. QED  BY <3>1, <1>2, <1>3
  <2>. QED  BY <1>4, <1>8, <2>1, <2>2, <2>3
<1>. QED  BY <1>1, <1>2, <1>7, <1>8 DEF IsInjective

\* What taking the first element off does to the elements.
LEMMA TailSet ==
  ASSUME NEW s \in Seq(Nat), s # << >>, IsInjective(s)
  PROVE  /\ Tail(s) \in Seq(Nat) /\ IsInjective(Tail(s)) /\ Head(s) \in ToSet(s)
         /\ ToSet(Tail(s)) = ToSet(s) \ {Head(s)}
<1>1. PICK t, n : t = Tail(s) /\ n = Len(s)
  OBVIOUS
<1>2. /\ t \in Seq(Nat) /\ n \in Nat \ {0} /\ DOMAIN s = 1 .. n /\ DOMAIN t = 1 .. n - 1
      /\ Head(s) = s[1] /\ \A i \in DOMAIN t : t[i] = s[i + 1]
  BY <1>1, Rest
<1>3. \A i \in DOMAIN t : i + 1 \in DOMAIN s /\ i + 1 # 1 /\ i \in Int
  BY <1>2
<1>4. \A j \in DOMAIN s : j # 1 => j - 1 \in DOMAIN t /\ (j - 1) + 1 = j
  BY <1>2
<1>5. 1 \in DOMAIN s
  BY <1>2
<1>6. \A j \in DOMAIN s : s[j] = s[1] => j = 1
  BY <1>5 DEF IsInjective
<1>7. ASSUME NEW v \in ToSet(t) PROVE v \in ToSet(s) \ {s[1]}
  <2>1. PICK i \in DOMAIN t : v = t[i]
    BY DEF ToSet
  <2>. QED  BY <1>2, <1>3, <1>6, <2>1 DEF ToSet
<1>8. ASSUME NEW v \in ToSet(s) \ {s[1]} PROVE v \in ToSet(t)
  <2>1. PICK j \in DOMAIN s : v = s[j] /\ j # 1
    BY DEF ToSet
  <2>2. v = t[j - 1] /\ j - 1 \in DOMAIN t
    BY <1>2, <1>4, <2>1
  <2>. QED  BY <2>2 DEF ToSet
<1>9. ASSUME NEW i \in DOMAIN t, NEW j \in DOMAIN t, t[i] = t[j] PROVE i = j
  <2>1. s[i + 1] = s[j + 1]
    BY <1>2, <1>9
  <2>2. i + 1 = j + 1
    BY <1>3, <2>1 DEF IsInjective
  <2>. QED  BY <1>3, <2>2
<1>10. s[1] \in ToSet(s)
  BY <1>5 DEF ToSet
<1>. QED  BY <1>1, <1>2, <1>7, <1>8, <1>9, <1>10 DEF IsInjective

\* WriteRow's next row is that of n, a node of h; K is {n} if n has nodes itself.
NextIs(x, h, n, K) ==
  /\ w[x].pc = "write" /\ h = Head(w[x].parents)
  /\ n = Min({k \in Children(tree[x], h) : k > w[x].last})
  /\ K = IF IsLeaf(tree[x], n) THEN {} ELSE {n}

\* The node whose row comes next is a child of the first pending parent and has no
\* row, though its parent has one.
LEMMA NextRow ==
  ASSUME FormatInv, NEW x \in Writers, NEW h, NEW n, NEW K, NextIs(x, h, n, K)
  PROVE  /\ n \in DOMAIN tree[x] /\ tree[x][n].up = h /\ n \in Nat \ {0} /\ n > w[x].last
         /\ \A k \in Children(tree[x], h) : k > w[x].last => n <= k
         /\ n \notin Written(x) /\ n # h
         /\ h \in Pending(x) /\ h \in Written(x) \cup {0} /\ h \in Nat
         /\ Rows(x) = << >> => /\ h = 0 /\ n = 1 /\ Children(tree[x], h) = {1}
                               /\ Pending(x) = {0} /\ w[x].kids = << >>
         /\ Rows(x) # << >> => /\ h \in Written(x) /\ n # 1 /\ tree[x][n].parent = tree[x][h].id
                               /\ Pending(x) \subseteq Written(x)
         /\ n \notin Pending(x) /\ tree[x] # << >>
<1>0. /\ w[x].pc = "write" /\ h = Head(w[x].parents)
      /\ n = Min({k \in Children(tree[x], h) : k > w[x].last})
  BY DEF NextIs
<1>1. /\ Half(x) /\ w[x] \in Writer /\ tree[x] \in Seq(Node)
      /\ DOMAIN tree[x] = 1 .. Len(tree[x]) /\ Len(tree[x]) \in Nat
  BY <1>0, Types DEF FormatInv, Recorded
<1>2. PICK S : S = {k \in Children(tree[x], h) : k > w[x].last}
  OBVIOUS
<1>3. S \in SUBSET Nat /\ S # {}
  BY <1>0, <1>1, <1>2 DEF Half, Children
<1>4. n \in S /\ \A k \in S : n <= k
  BY <1>0, <1>2, <1>3, MinOf
<1>5. n \in DOMAIN tree[x] /\ tree[x][n].up = h /\ n > w[x].last /\ n \in Nat \ {0}
  <2>1. n \in DOMAIN tree[x] /\ tree[x][n].up = h /\ n > w[x].last
    BY <1>2, <1>4 DEF Children
  <2>2. n \in Nat \ {0}
    BY <1>1, <2>1
  <2>. QED  BY <2>1, <2>2
<1>6. tree[x] # << >>
  BY <1>5, EmptySeq
<1>7. /\ Children(tree[x], 0) = {1}
      /\ \A i \in DOMAIN tree[x] : i # 1 => /\ tree[x][i].up \in DOMAIN tree[x]
                                            /\ tree[x][i].up < i
                                            /\ tree[x][i].parent = tree[x][tree[x][i].up].id
  BY <1>6, RootOf
<1>8. /\ w[x].parents \in Seq(Nat) /\ w[x].parents # << >> /\ IsInjective(w[x].parents)
      /\ w[x].last \in Nat
  BY <1>1 DEF Half, Writer
<1>9. h \in ToSet(w[x].parents) /\ h \in Nat
  BY <1>0, <1>8, TailSet, Rest
<1>10. h \in Pending(x)
  BY <1>9 DEF Pending
<1>11. n \notin Written(x)
  <2>1. n \in Written(x) <=> \/ tree[x][n].up \in (Written(x) \cup {0}) \ Pending(x)
                             \/ tree[x][n].up = h /\ n <= w[x].last
    BY <1>0, <1>1, <1>5 DEF Half
  <2>2. ~ (n <= w[x].last)
    BY <1>5, <1>8
  <2>. QED  BY <1>5, <1>10, <2>1, <2>2
<1>12. Rows(x) # << >> => Pending(x) \subseteq Written(x)
  BY <1>1 DEF Half
<1>13. ASSUME Rows(x) = << >>
       PROVE  h = 0 /\ n = 1 /\ Children(tree[x], h) = {1} /\ Pending(x) = {0} /\ w[x].kids = << >>
  <2>1. w[x].parents = <<0>> /\ w[x].kids = << >>
    BY <1>1, <1>13 DEF Half
  <2>2. h = 0
    BY <1>0, <2>1
  <2>3. n = 1
    BY <1>2, <1>4, <1>7, <2>2
  <2>4. Pending(x) = {0}
    BY <2>1, EmptySeq DEF Pending, ToSet
  <2>. QED  BY <1>7, <2>1, <2>2, <2>3, <2>4
<1>14. ASSUME Rows(x) # << >>
       PROVE  h \in Written(x) /\ n # 1 /\ tree[x][n].parent = tree[x][h].id
  <2>1. h \in Written(x) /\ h \in DOMAIN tree[x]
    BY <1>10, <1>12, <1>14 DEF Written
  <2>2. h # 0
    BY <1>1, <2>1
  <2>3. 1 \in Children(tree[x], 0)
    BY <1>7
  <2>4. n # 1
    BY <1>5, <2>2, <2>3 DEF Children
  <2>. QED  BY <1>5, <1>7, <2>1, <2>4
<1>15. n # h
  <2>1. CASE n = 1
    <3>1. 1 \in Children(tree[x], 0)
      BY <1>7
    <3>. QED  BY <1>5, <2>1, <3>1 DEF Children
  <2>2. CASE n # 1
    <3>1. h < n
      BY <1>5, <1>7, <2>2
    <3>. QED  BY <1>5, <3>1
  <2>. QED  BY <2>1, <2>2
<1>16. h \in Written(x) \cup {0}
  BY <1>13, <1>14
<1>17. n \notin Pending(x)
  BY <1>5, <1>11, <1>12, <1>13
<1>18. \A k \in Children(tree[x], h) : k > w[x].last => n <= k
  BY <1>2, <1>4
<1>. QED  BY <1>5, <1>6, <1>9, <1>10, <1>11, <1>12, <1>13, <1>14, <1>15, <1>16, <1>17, <1>18

\* IPNode_fwrite's row of a node is the node's: the module it names is in the table.
LEMMA RowIs ==
  ASSUME FormatInv, NEW x \in Writers, NEW n \in DOMAIN tree[x], Mapped(tree[x][n])
  PROVE  RowOf(tree[x][n]) \in Row /\ RowFor(RowOf(tree[x][n]), tree[x][n])
<1>1. PICK d : d = tree[x][n]
  OBVIOUS
<1>2. /\ d \in Node /\ TableInv /\ table \subseteq Module /\ Covered(x) /\ Entries \in Nat
  BY <1>1, Types, EntriesNat DEF FormatInv, TypeInv
<1>3. /\ d.ip \in Ips \cup {0} /\ d.id \in Int /\ d.parent \in Int /\ d.metric \in Int
  BY <1>2 DEF Node
<1>. DEFINE mod == IF d.ip = 0 THEN 0 ELSE (CHOOSE e \in table : e.base = BaseOf[d.ip]).id
<1>6. mod \in Nat /\ IF d.ip = 0 THEN mod = 0
                     ELSE \E e \in table : e.base = BaseOf[d.ip] /\ mod = e.id
  <2>1. CASE d.ip = 0
    BY <2>1
  <2>2. CASE d.ip # 0
    <3>1. \E e \in table : e.base = BaseOf[d.ip]
      BY <1>1, <1>2, <2>2 DEF Mapped, TableInv
    <3>2. PICK e \in table : e = (CHOOSE f \in table : f.base = BaseOf[d.ip]) /\ e.base = BaseOf[d.ip]
      BY <3>1
    <3>3. mod = e.id /\ e.id \in Nat
      BY <1>2, <2>2, <3>2 DEF Module
    <3>. QED  BY <2>2, <3>2, <3>3
  <2>. QED  BY <2>1, <2>2
<1>7. PICK moved \in BOOLEAN : moved = (d.ip # 0 /\ d.id > 0)
  OBVIOUS
<1>8. RowOf(d) = [id |-> d.id, parent |-> d.parent, mod |-> mod, metric |-> d.metric,
                  ip |-> d.ip, moved |-> moved]
  BY <1>7 DEF RowOf
<1>. HIDE DEF mod
<1>9. RowOf(d) \in Row /\ RowFor(RowOf(d), d)
  BY <1>3, <1>6, <1>8 DEF Row, RowFor
<1>. QED  BY <1>1, <1>9

\* The row of a node that has none is written behind that of its parent.
LEMMA RowAdded ==
  ASSUME FormatInv, NEW x \in Writers, NEW n \in DOMAIN tree[x], n \notin Written(x), Mapped(tree[x][n]),
         NEW rows \in Seq(Row), rows = Append(Rows(x), RowOf(tree[x][n])),
         Rows(x) = << >> => n = 1,
         Rows(x) # << >> => \E h \in Written(x) : tree[x][n].parent = tree[x][h].id,
         profile'[x].rows = rows, tree'[x] = tree[x], table' = table
  PROVE  RowsOK(x)' /\ Written(x)' = Written(x) \cup {n} /\ Rows(x)' # << >>
<1>1. PICK r, m, R, t : r = RowOf(tree[x][n]) /\ R = Rows(x) /\ m = Len(R) + 1 /\ t = tree[x]
  OBVIOUS
<1>2. r \in Row /\ RowFor(r, t[n])
  BY <1>1, RowIs
<1>3. R \in Seq(Row) /\ RowsOK(x)
  BY <1>1, Types DEF FormatInv, Recorded
<1>4. /\ DOMAIN R = 1 .. Len(R) /\ Len(R) \in Nat
      /\ DOMAIN rows = DOMAIN R \cup {m} /\ rows[m] = r /\ \A k \in DOMAIN R : rows[k] = R[k]
  BY <1>1, <1>2, <1>3, Appended
<1>5. m \notin DOMAIN R /\ m \in Nat \ {0}
  BY <1>1, <1>4
<1>6. Rows(x)' = rows /\ tree'[x] = t
  BY <1>1 DEF Rows
<1>7. r.id = t[n].id /\ r.parent = t[n].parent
  BY <1>2 DEF RowFor
<1>8. \A k \in DOMAIN R : R[k].id # r.id
  BY <1>1, <1>7 DEF Written
<1>9. Written(x)' = Written(x) \cup {n}
  <2>1. \A i \in DOMAIN t : t[i].id = t[n].id => i = n
    BY <1>1 DEF FormatInv, TreeInv, SameId
  <2>2. Written(x)' = {i \in DOMAIN t : \E k \in DOMAIN rows : rows[k].id = t[i].id}
    BY <1>6 DEF Written
  <2>3. Written(x) = {i \in DOMAIN t : \E k \in DOMAIN R : R[k].id = t[i].id}
    BY <1>1 DEF Written
  <2>4. ASSUME NEW i \in DOMAIN t
        PROVE  (\E k \in DOMAIN rows : rows[k].id = t[i].id)
                 <=> (\E k \in DOMAIN R : R[k].id = t[i].id) \/ i = n
    BY <1>4, <1>7, <2>1
  <2>. QED  BY SMTT(60), <1>1, <2>2, <2>3, <2>4
<1>10. \A k \in DOMAIN rows : \E i \in DOMAIN t : RowFor(rows[k], t[i])
  <2>1. \A k \in DOMAIN R : \E i \in DOMAIN t : RowFor(R[k], t[i])
    BY <1>1, <1>3 DEF RowsOK
  <2>2. \E i \in DOMAIN t : RowFor(r, t[i])
    BY <1>1, <1>2
  <2>. QED  BY <1>4, <2>1, <2>2
<1>11. \A j, k \in DOMAIN rows : rows[j].id = rows[k].id => j = k
  <2>1. \A j, k \in DOMAIN R : R[j].id = R[k].id => j = k
    BY <1>1, <1>3 DEF RowsOK
  <2>. QED  BY Z3T(60), <1>4, <1>8, <2>1
<1>12. ASSUME NEW k \in DOMAIN rows
       PROVE  IF k = 1 THEN rows[k].parent = 0
              ELSE \E j \in 1 .. k - 1 : rows[j].id = rows[k].parent
  <2>1. CASE k \in DOMAIN R
    <3>1. IF k = 1 THEN R[k].parent = 0 ELSE \E j \in 1 .. k - 1 : R[j].id = R[k].parent
      BY <1>1, <1>3, <2>1 DEF RowsOK
    <3>2. \A j \in 1 .. k - 1 : j \in DOMAIN R
      BY <1>4, <2>1
    <3>. QED  BY <1>4, <2>1, <3>1, <3>2
  <2>2. CASE k = m
    <3>1. CASE R = << >>
      <4>1. m = 1 /\ n = 1
        BY <1>1, <3>1
      <4>2. t # << >>
        BY <1>1, EmptySeq
      <4>3. t[1].parent = 0
        BY <1>1, <4>2, RootOf
      <4>. QED  BY <1>4, <1>7, <2>2, <4>1, <4>3
    <3>2. CASE R # << >>
      <4>1. PICK h \in Written(x) : t[n].parent = t[h].id
        BY <1>1, <3>2
      <4>2. PICK j \in DOMAIN R : R[j].id = t[h].id
        BY <1>1, <4>1 DEF Written
      <4>3. j \in 1 .. m - 1 /\ m # 1
        BY <1>1, <1>4, <4>2
      <4>4. rows[j].id = rows[m].parent
        BY <1>4, <1>7, <4>1, <4>2
      <4>. QED  BY <2>2, <4>3, <4>4
    <3>. QED  BY <3>1, <3>2
  <2>. QED  BY <1>4, <2>1, <2>2
<1>13. rows # << >>
  BY <1>4, EmptySeq
<1>14. RowsOK(x)'
  <2>1. (\A k \in DOMAIN Rows(x) : \E i \in DOMAIN tree[x] : RowFor(Rows(x)[k], tree[x][i]))'
    BY <1>6, <1>10 DEF RowFor
  <2>. QED  BY <1>6, <1>11, <1>12, <2>1 DEF RowsOK
<1>. QED  BY <1>6, <1>9, <1>13, <1>14

\* Which nodes have rows, when the next row is written: told from the pending
\* parents with the node among them if it is one, and without the first parent when
\* that was the last of its nodes.
LEMMA AsBefore ==
  ASSUME FormatInv, NEW x \in Writers, NEW h, NEW n, NEW K, NextIs(x, h, n, K),
         NEW i \in DOMAIN tree[x], NEW q, q = tree[x][i].up, NEW W, W = Written(x) \cup {n}
  PROVE  /\ i \in W <=> q \in (W \cup {0}) \ (Pending(x) \cup K) \/ (q = h /\ i <= n)
         /\ ~ (\E k \in Children(tree[x], h) : k > n)
              => (i \in W <=> q \in (W \cup {0}) \ ((Pending(x) \ {h}) \cup K))
<1>1. /\ n \in DOMAIN tree[x] /\ tree[x][n].up = h /\ n \in Nat \ {0} /\ n > w[x].last
      /\ \A k \in Children(tree[x], h) : k > w[x].last => n <= k
      /\ n \notin Written(x) /\ n # h /\ h \in Pending(x) /\ h \in Written(x) \cup {0}
      /\ n \notin Pending(x) /\ tree[x] # << >> /\ h \in Nat
  BY NextRow
<1>0. K = IF IsLeaf(tree[x], n) THEN {} ELSE {n}
  BY DEF NextIs
<1>2. /\ i \in Written(x) <=> \/ q \in (Written(x) \cup {0}) \ Pending(x)
                              \/ q = h /\ i <= w[x].last
      /\ w[x].last \in Nat
  BY Types DEF FormatInv, Recorded, Half, Writer, NextIs
<1>3. i \in Nat /\ q # i
  <2>1. i \in Nat \ {0}
    BY Types DEF FormatInv
  <2>2. CASE i = 1
    <3>1. 1 \in Children(tree[x], 0)
      BY <1>1, RootOf
    <3>. QED  BY <2>1, <2>2, <3>1 DEF Children
  <2>3. CASE i # 1
    <3>1. q < i
      BY <1>1, <2>3, RootOf
    <3>. QED  BY <2>1, <3>1
  <2>. QED  BY <2>1, <2>2, <2>3
<1>4. q = h /\ i > w[x].last => n <= i
  BY <1>1 DEF Children
<1>5. q = h /\ ~ (\E k \in Children(tree[x], h) : k > n) => i <= n
  <2>1. q = h => i \in Children(tree[x], h)
    BY DEF Children
  <2>. QED  BY <1>1, <1>3, <2>1
<1>6. CASE q = n
  <2>1. i \in Children(tree[x], n)
    BY <1>6 DEF Children
  <2>2. K = {n}
    BY <1>0, <2>1 DEF IsLeaf
  <2>3. i \notin W
    BY <1>1, <1>2, <1>3, <1>6
  <2>. QED  BY <1>1, <1>6, <2>2, <2>3
<1>7. CASE q # n
  <2>1. i \in W <=> q \in (Written(x) \cup {0}) \ Pending(x) \/ (q = h /\ i <= n)
    <3>1. q = h /\ i <= n <=> (q = h /\ i <= w[x].last) \/ i = n
      BY <1>1, <1>2, <1>3, <1>4
    <3>. QED  BY <1>2, <3>1
  <2>2. K \subseteq {n}
    BY <1>0
  <2>3. q \in (W \cup {0}) \ (Pending(x) \cup K) <=> q \in (Written(x) \cup {0}) \ Pending(x)
    BY <1>7, <2>2
  <2>4. q \in (W \cup {0}) \ ((Pending(x) \ {h}) \cup K)
          <=> q \in (Written(x) \cup {0}) \ Pending(x) \/ q = h
    BY <1>1, <1>7, <2>2
  <2>. QED  BY <1>5, <2>1, <2>3, <2>4
<1>. QED  BY <1>6, <1>7

\* The nodes with rows are all nodes when no parent is pending.
LEMMA AllWritten ==
  ASSUME FormatInv, NEW x \in Writers, NEW W, W \subseteq DOMAIN tree[x],
         \A i \in DOMAIN tree[x] : tree[x][i].up \in W \cup {0} => i \in W
  PROVE  W = DOMAIN tree[x]
<1>. DEFINE S == DOMAIN tree[x] \ W
<1>1. SUFFICES ASSUME S # {} PROVE FALSE
  OBVIOUS
<1>2. DOMAIN tree[x] = 1 .. Len(tree[x]) /\ Len(tree[x]) \in Nat
  BY Types DEF FormatInv
<1>3. S \in SUBSET Nat
  BY <1>2
<1>4. PICK i \in S : \A k \in S : i <= k
  <2>. HIDE DEF S
  <2>. QED  BY <1>1, <1>3, MinOf
<1>5. tree[x] # << >>
  BY <1>4, EmptySeq
<1>6. CASE i = 1
  <2>1. 1 \in Children(tree[x], 0)
    BY <1>5, RootOf
  <2>. QED  BY <1>4, <1>6, <2>1 DEF Children
<1>7. CASE i # 1
  <2>1. tree[x][i].up \in DOMAIN tree[x] /\ tree[x][i].up < i
    BY <1>4, <1>5, <1>7, RootOf
  <2>2. tree[x][i].up \notin S
    BY <1>2, <1>3, <1>4, <2>1
  <2>. QED  BY <1>4, <2>1, <2>2
<1>. QED  BY <1>6, <1>7

\* A row is written and its parent has more nodes: they are next.
LEMMA SameParent ==
  ASSUME FormatInv, NEW x \in Writers, NEW h, NEW n, NEW K, NextIs(x, h, n, K),
         NEW kids, kids = IF IsLeaf(tree[x], n) THEN w[x].kids ELSE Append(w[x].kids, n),
         \E k \in Children(tree[x], h) : k > n,
         w'[x].parents = w[x].parents, w'[x].kids = kids, w'[x].last = n, tree'[x] = tree[x],
         Written(x)' = Written(x) \cup {n}, Rows(x)' # << >>
  PROVE  Half(x)'
<1>0. PICK W, ks : W = Written(x) \cup {n} /\ ks = w[x].kids
  OBVIOUS
<1>00. /\ w[x].pc = "write" /\ h = Head(w[x].parents)
       /\ K = IF IsLeaf(tree[x], n) THEN {} ELSE {n}
  BY DEF NextIs
<1>1. /\ n \in Nat \ {0} /\ n \notin Pending(x) /\ n \in DOMAIN tree[x]
      /\ Rows(x) = << >> => n = 1 /\ Children(tree[x], h) = {1}
      /\ Rows(x) # << >> => Pending(x) \subseteq Written(x)
  <2>1. n \in Nat \ {0} /\ n \notin Pending(x) /\ n \in DOMAIN tree[x]
    BY NextRow
  <2>2. Rows(x) = << >> => n = 1 /\ Children(tree[x], h) = {1}
    BY ZenonT(60), NextRow
  <2>3. Rows(x) # << >> => Pending(x) \subseteq Written(x)
    BY NextRow
  <2>. QED  BY <2>1, <2>2, <2>3
<1>2. /\ w[x].parents \in Seq(Nat) /\ w[x].kids \in Seq(Nat) /\ w[x].parents # << >>
      /\ IsInjective(w[x].parents) /\ IsInjective(w[x].kids)
      /\ ToSet(w[x].parents) \cap ToSet(w[x].kids) = {}
      /\ \A q \in Pending(x) : ~ IsLeaf(tree[x], q)
  BY <1>00, Types DEF FormatInv, Recorded, Half, Writer
<1>3. kids \in Seq(Nat) /\ ToSet(kids) = ToSet(w[x].kids) \cup K /\ IsInjective(kids)
  <2>1. CASE IsLeaf(tree[x], n)
    BY <1>00, <1>2, <2>1
  <2>2. CASE ~ IsLeaf(tree[x], n)
    <3>1. n \notin ToSet(ks) /\ n \in Nat /\ ks \in Seq(Nat) /\ IsInjective(ks)
      BY <1>0, <1>1, <1>2 DEF Pending
    <3>2. kids = Append(ks, n) /\ K = {n}
      BY <1>0, <1>00, <2>2
    <3>3. /\ Append(ks, n) \in Seq(Nat) /\ ToSet(Append(ks, n)) = ToSet(ks) \cup {n}
          /\ IsInjective(Append(ks, n))
      BY <3>1, AppendSet
    <3>. QED  BY <1>0, <3>2, <3>3
  <2>. QED  BY <2>1, <2>2
<1>4. Pending(x)' = Pending(x) \cup K
  BY <1>3 DEF Pending
<1>5. Rows(x) # << >>
  BY <1>1
<1>6. K \subseteq {n}
  BY <1>00
<1>7. ToSet(w[x].parents) \cap ToSet(kids) = {}
  BY <1>1, <1>2, <1>3, <1>6 DEF Pending
<1>8. Pending(x)' \subseteq Written(x)'
  BY <1>1, <1>4, <1>5, <1>6
<1>9. \A q \in Pending(x)' : ~ IsLeaf(tree[x], q)
  BY <1>00, <1>2, <1>4
<1>10. \A i \in DOMAIN tree[x] :
         LET q == tree[x][i].up IN
         i \in Written(x)' <=> \/ q \in (Written(x)' \cup {0}) \ Pending(x)'
                               \/ q = h /\ i <= n
  <2>. TAKE i \in DOMAIN tree[x]
  <2>1. PICK q : q = tree[x][i].up
    OBVIOUS
  <2>2. i \in W <=> q \in (W \cup {0}) \ (Pending(x) \cup K) \/ (q = h /\ i <= n)
    BY <1>0, <2>1, AsBefore
  <2>. QED  BY <1>0, <1>4, <2>1, <2>2
<1>11. (\A q \in Pending(x) : ~ IsLeaf(tree[x], q))'
  BY <1>9
<1>12. /\ w'[x].parents # << >> /\ IsInjective(w'[x].parents) /\ IsInjective(w'[x].kids)
       /\ ToSet(w'[x].parents) \cap ToSet(w'[x].kids) = {}
  BY <1>2, <1>3, <1>7
<1>13. Head(w'[x].parents) = h /\ \E k \in Children(tree'[x], h) : k > w'[x].last
  BY <1>00
<1>14. \A i \in DOMAIN tree'[x] :
         LET q == tree'[x][i].up IN
         i \in Written(x)' <=> \/ q \in (Written(x)' \cup {0}) \ Pending(x)'
                               \/ q = h /\ i <= w'[x].last
  BY <1>10
<1>15. (IF Rows(x) = << >> THEN w[x].parents = <<0>> /\ w[x].kids = << >> /\ w[x].last = 0
        ELSE Pending(x) \subseteq Written(x))'
  BY <1>8
<1>. QED  BY <1>11, <1>12, <1>13, <1>14, <1>15, Zenon DEF Half

\* A row is written and its parent has no more nodes: the nodes of this parent that
\* have nodes of their own are next, and the parents that waited behind it.
LEMMA NextParents ==
  ASSUME FormatInv, NEW x \in Writers, NEW h, NEW n, NEW K, NextIs(x, h, n, K),
         NEW kids, kids = IF IsLeaf(tree[x], n) THEN w[x].kids ELSE Append(w[x].kids, n),
         ~ \E k \in Children(tree[x], h) : k > n,
         NEW next, next = kids \o Tail(w[x].parents),
         w'[x].parents = next, w'[x].kids = << >>, w'[x].last = 0, tree'[x] = tree[x],
         Written(x)' = Written(x) \cup {n}, Rows(x)' # << >>
  PROVE  /\ next # << >> => Half(x)'
         /\ next = << >> => Written(x)' = DOMAIN tree[x]
<1>0. PICK W, ks : W = Written(x) \cup {n} /\ ks = w[x].kids
  OBVIOUS
<1>00. /\ w[x].pc = "write" /\ h = Head(w[x].parents)
       /\ K = IF IsLeaf(tree[x], n) THEN {} ELSE {n}
  BY DEF NextIs
<1>1. /\ n \in Nat \ {0} /\ n \notin Pending(x) /\ n \in DOMAIN tree[x] /\ h \in Pending(x)
      /\ Rows(x) = << >> => Pending(x) = {0} /\ h = 0
      /\ Rows(x) # << >> => Pending(x) \subseteq Written(x)
  BY NextRow
<1>2. /\ w[x].parents \in Seq(Nat) /\ w[x].kids \in Seq(Nat) /\ w[x].parents # << >>
      /\ IsInjective(w[x].parents) /\ IsInjective(w[x].kids)
      /\ ToSet(w[x].parents) \cap ToSet(w[x].kids) = {}
      /\ \A q \in Pending(x) : ~ IsLeaf(tree[x], q)
  BY <1>00, Types DEF FormatInv, Recorded, Half, Writer
<1>3. kids \in Seq(Nat) /\ ToSet(kids) = ToSet(w[x].kids) \cup K /\ IsInjective(kids)
  <2>1. CASE IsLeaf(tree[x], n)
    BY <1>00, <1>2, <2>1
  <2>2. CASE ~ IsLeaf(tree[x], n)
    <3>1. n \notin ToSet(ks) /\ n \in Nat /\ ks \in Seq(Nat) /\ IsInjective(ks)
      BY <1>0, <1>1, <1>2 DEF Pending
    <3>2. kids = Append(ks, n) /\ K = {n}
      BY <1>0, <1>00, <2>2
    <3>3. /\ Append(ks, n) \in Seq(Nat) /\ ToSet(Append(ks, n)) = ToSet(ks) \cup {n}
          /\ IsInjective(Append(ks, n))
      BY <3>1, AppendSet
    <3>. QED  BY <1>0, <3>2, <3>3
  <2>. QED  BY <2>1, <2>2
<1>4. PICK rest : rest = Tail(w[x].parents)
  OBVIOUS
<1>5. /\ rest \in Seq(Nat) /\ IsInjective(rest) /\ h \in ToSet(w[x].parents)
      /\ ToSet(rest) = ToSet(w[x].parents) \ {h}
  BY <1>00, <1>2, <1>4, TailSet
<1>6. K \subseteq {n}
  BY <1>00
<1>7. ToSet(kids) \cap ToSet(rest) = {}
  BY <1>1, <1>2, <1>3, <1>5, <1>6 DEF Pending
<1>8. /\ next \in Seq(Nat) /\ IsInjective(next)
      /\ ToSet(next) = (Pending(x) \ {h}) \cup K
  <2>1. next = kids \o rest
    BY <1>4
  <2>2. kids \in Seq(Nat) /\ IsInjective(kids)
    BY <1>3
  <2>3. rest \in Seq(Nat) /\ IsInjective(rest)
    BY <1>5
  <2>4. /\ kids \o rest \in Seq(Nat) /\ ToSet(kids \o rest) = ToSet(kids) \cup ToSet(rest)
        /\ IsInjective(kids \o rest)
    BY <1>7, <2>2, <2>3, ConcatSet
  <2>5. ToSet(kids) \cup ToSet(rest) = (Pending(x) \ {h}) \cup K
    BY <1>2, <1>3, <1>5 DEF Pending
  <2>. QED  BY <2>1, <2>4, <2>5
<1>9. ToSet(<< >>) = {} /\ IsInjective(<< >>)
  BY EmptySeq DEF ToSet, IsInjective
<1>10. Pending(x)' = (Pending(x) \ {h}) \cup K
  BY <1>8, <1>9 DEF Pending
<1>11. Pending(x)' \subseteq Written(x)'
  BY <1>1, <1>6, <1>10
<1>12. \A q \in Pending(x)' : ~ IsLeaf(tree[x], q)
  BY <1>00, <1>2, <1>10
<1>13. \A i \in DOMAIN tree[x] :
         i \in Written(x)' <=> tree[x][i].up \in (Written(x)' \cup {0}) \ Pending(x)'
  <2>. TAKE i \in DOMAIN tree[x]
  <2>1. PICK q : q = tree[x][i].up
    OBVIOUS
  <2>2. i \in W <=> q \in (W \cup {0}) \ ((Pending(x) \ {h}) \cup K)
    BY <1>0, <2>1, AsBefore
  <2>. QED  BY <1>0, <1>10, <2>1, <2>2
<1>14. ASSUME next # << >> PROVE Half(x)'
  <2>1. Head(next) \in ToSet(next) /\ Head(next) \in Pending(x)'
    BY <1>8, <1>10, <1>14, TailSet
  <2>2. PICK k \in Children(tree[x], Head(next)) : TRUE
    BY <1>12, <2>1 DEF IsLeaf
  <2>3. DOMAIN tree[x] = 1 .. Len(tree[x]) /\ Len(tree[x]) \in Nat
    BY Types DEF FormatInv
  <2>4. k > 0 /\ \A i \in DOMAIN tree[x] : ~ (i <= 0)
    <3>1. \A i \in DOMAIN tree[x] : i > 0 /\ ~ (i <= 0)
      BY <2>3
    <3>2. k \in DOMAIN tree[x]
      BY <2>2 DEF Children
    <3>. QED  BY <3>1, <3>2
  <2>5. (\A q \in Pending(x) : ~ IsLeaf(tree[x], q))'
    BY SMTT(60), <1>12
  <2>6. /\ w'[x].parents # << >> /\ IsInjective(w'[x].parents) /\ IsInjective(w'[x].kids)
        /\ ToSet(w'[x].parents) \cap ToSet(w'[x].kids) = {}
    BY SMTT(60), <1>8, <1>9, <1>14
  <2>7. Head(w'[x].parents) = Head(next) /\ \E j \in Children(tree'[x], Head(next)) : j > w'[x].last
    BY <2>2, <2>4
  <2>8. \A i \in DOMAIN tree'[x] :
          LET q == tree'[x][i].up IN
          i \in Written(x)' <=> \/ q \in (Written(x)' \cup {0}) \ Pending(x)'
                                \/ q = Head(next) /\ i <= w'[x].last
    BY <1>13, <2>4
  <2>9. (IF Rows(x) = << >> THEN w[x].parents = <<0>> /\ w[x].kids = << >> /\ w[x].last = 0
         ELSE Pending(x) \subseteq Written(x))'
    BY <1>11
  <2>. QED  BY <2>5, <2>6, <2>7, <2>8, <2>9, Zenon DEF Half
<1>15. ASSUME next = << >> PROVE Written(x)' = DOMAIN tree[x]
  <2>1. Pending(x)' = {}
    BY <1>8, <1>9, <1>10, <1>15
  <2>2. PICK all : all = Written(x)'
    OBVIOUS
  <2>3. all \subseteq DOMAIN tree[x]
    BY <1>1, <2>2 DEF Written
  <2>4. \A i \in DOMAIN tree[x] : tree[x][i].up \in all \cup {0} => i \in all
    BY <1>13, <2>1, <2>2
  <2>. QED  BY <2>2, <2>3, <2>4, AllWritten
<1>. QED  BY <1>14, <1>15

\* A step that writes a row, and a step that crashes in looking the module up.
LEMMA WriteRowInv ==
  ASSUME FormatInv, NEW x \in Writers, WriteRow(x)
  PROVE  FormatInv'
<1>1. /\ TypeInv /\ TableInv /\ Recorded(x) /\ Covered(x) /\ w[x] \in Writer
      /\ profile[x] \in Profiles /\ Rows(x) \in Seq(Row)
  BY Types DEF FormatInv, Profiles
<1>2. PICK h, n, K, d, kids, next :
        /\ h = Head(w[x].parents)
        /\ n = Min({k \in Children(tree[x], h) : k > w[x].last})
        /\ K = (IF IsLeaf(tree[x], n) THEN {} ELSE {n})
        /\ d = tree[x][n]
        /\ kids = IF IsLeaf(tree[x], n) THEN w[x].kids ELSE Append(w[x].kids, n)
        /\ next = kids \o Tail(w[x].parents)
  OBVIOUS
<1>3. /\ w[x].pc = "write" /\ UNCHANGED treeVars /\ UNCHANGED tableVars /\ UNCHANGED fileVars
  BY DEF WriteRow
<1>4. NextIs(x, h, n, K)
  BY <1>2, <1>3 DEF NextIs
<1>5. /\ n \in DOMAIN tree[x] /\ n \in Nat /\ n \notin Written(x)
      /\ Rows(x) = << >> => n = 1
      /\ Rows(x) # << >> => h \in Written(x) /\ tree[x][n].parent = tree[x][h].id
  BY <1>4, NextRow
<1>6. Half(x)
  BY <1>1, <1>3 DEF Recorded
<1>7. /\ w[x].parents \in Seq(Nat) /\ w[x].parents # << >> /\ w[x].kids \in Seq(Nat)
  BY <1>1, <1>6 DEF Half, Writer
<1>8. kids \in Seq(Nat) /\ Tail(w[x].parents) \in Seq(Nat)
  BY <1>2, <1>5, <1>7, AppendProperties, Rest
<1>9. next \in Seq(Nat)
  BY <1>2, <1>8, ConcatProperties
<1>10. tree'[x] = tree[x] /\ count'[x] = count[x] /\ table' = table /\ unloaded' = unloaded
  <2>1. tree' = tree /\ count' = count
    BY <1>3 DEF treeVars
  <2>2. table' = table /\ unloaded' = unloaded
    BY <1>3, Zenon DEF tableVars
  <2>. QED  BY <2>1, <2>2
<1>. DEFINE Crashes == /\ ~ Mapped(d) \/ MayMiss(x, d)
                      /\ Goto(x, "crash") /\ profile' = profile /\ raced' = raced
            Goes == IF \E k \in Children(tree[x], h) : k > n
                    THEN w' = [w EXCEPT ![x].last = n, ![x].kids = kids]
                    ELSE w' = [w EXCEPT ![x].last = 0, ![x].kids = << >>, ![x].parents = next,
                                        ![x].pc = IF next = << >> THEN "done" ELSE "write"]
            Writes == /\ Mapped(d) /\ raced' = raced \ {x}
                      /\ profile' = [profile EXCEPT ![x].rows = Append(@, RowOf(d))]
                      /\ Goes
<1>01. Crashes \/ Writes
  BY <1>2 DEF WriteRow
<1>11. CASE Crashes
  <2>1. PICK wx : wx = [w[x] EXCEPT !.pc = "crash"]
    OBVIOUS
  <2>2. Goto(x, "crash") /\ profile' = profile /\ raced' = raced
    BY <1>11
  <2>3. w' = [w EXCEPT ![x] = wx] /\ Carries(w[x], wx) /\ wx.pc = "crash"
    <3>1. w' = [w EXCEPT ![x] = wx]
      BY <1>1, <2>1, <2>2, GotoIs
    <3>2. Carries(w[x], wx) /\ wx.pc = "crash"
      <4>1. w[x] \in Writer /\ "crash" \in {"idle", "insert", "open", "try", "failed"} \cup Opened
        BY <1>1 DEF Opened
      <4>2. PICK r, pc : r = w[x] /\ pc = "crash"
        OBVIOUS
      <4>3. Carries(r, wx) /\ wx.pc = pc
        BY <2>1, <4>1, <4>2, PcRecord
      <4>. QED  BY <4>2, <4>3
    <3>. QED  BY <3>1, <3>2
  <2>4. profile' = [profile EXCEPT ![x] = profile[x]]
    BY <1>1, <2>2 DEF TypeInv
  <2>5. unloaded \/ x \in raced' \/ Outside(x)
    <3>3. MayMiss(x, d) => x \in raced'
      BY <2>2 DEF MayMiss
    <3>4. ~ Mapped(d) /\ Generated(d.ip) => Outside(x)
      <4>1. ~ Mapped(d) => d.ip # 0
        BY DEF Mapped
      <4>. QED  BY <1>2, <1>5, <4>1, Zenon DEF Outside
    <3>0. SUFFICES ASSUME ~ MayMiss(x, d), ~ Generated(d.ip) PROVE unloaded
      BY <1>11, <3>3, <3>4, Zenon
    <3>1. d.ip # 0 /\ d.ip \in Addresses(x)
      BY <1>2, <1>5, <1>11, <3>0 DEF Mapped, Addresses
    <3>2. PICK e \in table : e.base = BaseOf[d.ip]
      BY <1>1, <3>0, <3>1 DEF Covered, Executed
    <3>5. ASSUME ~ unloaded PROVE FALSE
      <4>1. [base |-> e.base, mod |-> e.mod] \in loaded
        BY <1>1, <3>2, <3>5 DEF TableInv
      <4>2. [base |-> e.base, mod |-> e.mod].base = BaseOf[d.ip]
        BY <3>2
      <4>. QED  BY <1>11, <3>0, <4>1, <4>2 DEF Mapped
    <3>. QED  BY SMTT(60), <3>5
  <2>6. w'[x] = wx /\ profile'[x] = profile[x]
    BY <1>1, <2>2, <2>3 DEF TypeInv
  <2>7. RowsOK(x)'
    BY <1>1, <1>10, <2>6, RowsKept DEF Recorded
  <2>8. Recorded(x)'
    BY <2>3, <2>6, <2>7 DEF Recorded
  <2>. QED  BY <1>1, <1>3, <2>2, <2>3, <2>4, <2>5, <2>8, RowsStep DEF Carries
<1>12. CASE Writes
  <2>0. Mapped(d) /\ \A y \in Writers \ {x} : y \in raced => y \in raced'
    BY <1>12
  <2>1. RowOf(d) \in Row
    BY <1>2, <1>5, <2>0, RowIs
  <2>2. PICK rows, px : rows = Append(Rows(x), RowOf(d)) /\ px = [profile[x] EXCEPT !.rows = rows]
    OBVIOUS
  <2>3. rows \in Seq(Row)
    BY <1>1, <2>1, <2>2, AppendProperties
  <2>4. profile' = [profile EXCEPT ![x] = px]
    BY <1>1, <1>12, <2>2 DEF TypeInv, Rows
  <2>5. /\ px \in Profiles /\ px.size = profile[x].size /\ px.map = profile[x].map
        /\ px.rows = rows /\ px.count = profile[x].count
    BY <1>1, <2>2, <2>3 DEF Profiles
  <2>6. profile'[x] = px
    BY <1>1, <2>4 DEF TypeInv
  <2>7. RowsOK(x)' /\ Written(x)' = Written(x) \cup {n} /\ Rows(x)' # << >>
    BY <1>2, <1>5, <1>10, <2>0, <2>2, <2>3, <2>5, <2>6, RowAdded
  <2>8. px.count = count[x]
    BY <1>1, <1>3, <2>5 DEF Recorded
  <2>9. CASE \E k \in Children(tree[x], h) : k > n
    <3>1. PICK wx : wx = [w[x] EXCEPT !.last = n, !.kids = kids]
      BY SMTT(60)
    <3>2. w' = [w EXCEPT ![x] = wx]
      BY <1>1, <1>12, <2>9, <3>1 DEF TypeInv, Writer
    <3>3. /\ Stays(w[x], wx) /\ wx.pc = "write" /\ wx.parents = w[x].parents
          /\ wx.kids = kids /\ wx.last = n
      BY <1>1, <1>3, <1>5, <1>8, <3>1 DEF Stays, Writer
    <3>4. w'[x] = wx
      BY SMTT(60), <1>1, <3>2 DEF TypeInv
    <3>5. Half(x)'
      BY <1>2, <1>4, <1>10, <2>7, <2>9, <3>3, <3>4, SameParent
    <3>6. Recorded(x)'
      BY <1>10, <2>6, <2>7, <2>8, <3>3, <3>4, <3>5 DEF Recorded
    <3>. QED  BY <1>3, <2>0, <2>4, <2>5, <3>2, <3>3, <3>6, RowsStep
  <2>10. CASE ~ \E k \in Children(tree[x], h) : k > n
    <3>1. PICK pc, wx : /\ pc = (IF next = << >> THEN "done" ELSE "write")
                        /\ wx = [w[x] EXCEPT !.last = 0, !.kids = << >>, !.parents = next, !.pc = pc]
      OBVIOUS
    <3>2. w' = [w EXCEPT ![x] = wx]
      BY ZenonT(60), <1>1, <1>12, <2>10, <3>1 DEF TypeInv, Writer
    <3>3. pc \in {"write", "done"} /\ (next = << >> <=> pc = "done")
      BY <3>1, Zenon
    <3>4. << >> \in Seq(Nat) /\ 0 \in Nat
      OBVIOUS
    <3>5. /\ Stays(w[x], wx) /\ wx.pc = pc /\ wx.parents = next
          /\ wx.kids = << >> /\ wx.last = 0
      BY <1>1, <1>9, <3>1, <3>3, <3>4 DEF Stays, Writer, Opened
    <3>6. w'[x] = wx
      BY SMTT(60), <1>1, <3>2 DEF TypeInv
    <3>7. /\ next # << >> => Half(x)'
          /\ next = << >> => Written(x)' = DOMAIN tree[x]
      BY <1>2, <1>4, <1>10, <2>7, <2>10, <3>5, <3>6, NextParents
    <3>8. Recorded(x)'
      BY <1>10, <2>6, <2>7, <2>8, <3>3, <3>5, <3>6, <3>7 DEF Recorded
    <3>. QED  BY <1>3, <2>0, <2>4, <2>5, <3>2, <3>3, <3>5, <3>8, RowsStep
  <2>. QED  BY <2>9, <2>10
<1>. QED  BY <1>01, <1>11, <1>12
-----------------------------------------------------------------------------
(* The invariant.                                                          *)

\* At the start there is the application's module and nothing of any profile.
LEMMA InitInv ==
  ASSUME Init
  PROVE  FormatInv
<1>1. PICK e : e = [base |-> AppBase, mod |-> App, id |-> 1]
  OBVIOUS
<1>2. table = {e} /\ next_key = 2 /\ loaded = {[base |-> f.base, mod |-> f.mod] : f \in table}
  BY <1>1 DEF Init, ModuleId
<1>3. /\ next_id = 0 /\ lock = None /\ disk = << >> /\ disturbed = {} /\ unloaded = FALSE
      /\ tree = [x \in Writers |-> << >>] /\ count = [x \in Writers |-> 0]
      /\ w = [x \in Writers |-> Idle] /\ profile = [x \in Writers |-> NoProfile]
  BY DEF Init
<1>4. IsFiniteSet(table) /\ Entries = 1
  BY <1>2, FS_Singleton DEF Entries
<1>5. e \in Module
  BY <1>1 DEF Module, Bases
<1>6. << >> \in Seq(Node) /\ << >> \in Seq(Module) /\ << >> \in Seq(Row) /\ << >> \in Seq(Nat)
      /\ << >> \in Seq(Visits) /\ <<0>> \in Seq(Nat) /\ Len(<< >>) = 0 /\ DOMAIN << >> = {}
  BY EmptySeq
<1>7. /\ Idle \in Writer /\ Idle.pc = "idle" /\ Idle.todo = << >> /\ Idle.at = <<0>>
      /\ Idle.builds = 0 /\ Idle.kids = << >> /\ Idle.last = 0
  BY <1>6 DEF Idle, Writer
<1>8. NoProfile \in Profiles /\ NoProfile.rows = << >>
  BY <1>6 DEF NoProfile, Profiles
<1>9. TypeInv
  <2>1. /\ tree \in [Writers -> Seq(Node)] /\ count \in [Writers -> Nat] /\ next_id \in Nat
    BY <1>3, <1>6
  <2>2. w \in [Writers -> Writer]
    BY <1>3, <1>7
  <2>3. profile \in [Writers -> Profiles]
    BY <1>3, <1>8
  <2>4. table \subseteq Module /\ next_key = Entries + 1
    BY <1>2, <1>4, <1>5
  <2>. QED  BY <1>4, <2>1, <2>2, <2>3, <2>4 DEF TypeInv, Profiles
<1>10. FileInv
  <2>1. \A x \in Writers : w[x].pc = "idle" /\ x # None
    BY <1>3, <1>7, WritersAssumption
  <2>. QED  BY <1>3, <1>6, <2>1 DEF FileInv, Opened
<1>11. TreeInv
  BY <1>3, <1>6 DEF TreeInv, TreeOK
<1>12. TableInv
  <2>1. e.id = 1
    BY <1>1
  <2>2. e.base # None
    BY <1>1, ModulesAssumption
  <2>. QED  BY <1>2, <1>4, <2>1, <2>2 DEF TableInv
<1>13. ASSUME NEW x \in Writers PROVE Placed(x) /\ Signed(x) /\ Recorded(x) /\ Covered(x)
  <2>1. /\ w[x].pc = "idle" /\ w[x].todo = << >> /\ w[x].at = <<0>> /\ w[x].builds = 0
        /\ w[x].kids = << >> /\ w[x].last = 0 /\ tree[x] = << >> /\ Rows(x) = << >>
    BY <1>3, <1>7, <1>8 DEF Rows
  <2>2. Placed(x)
    <3>1. <<0>> # << >> /\ <<0>>[1] = 0 /\ \A k \in DOMAIN <<0>> : ~ (k > 1)
      OBVIOUS
    <3>. QED  BY <1>6, <2>1, <3>1 DEF Placed
  <2>3. Signed(x)
    BY <1>6, <2>1 DEF Signed
  <2>4. Recorded(x)
    BY <1>6, <2>1 DEF Recorded, RowsOK
  <2>5. Addresses(x) = {}
    BY <1>6, <2>1 DEF Addresses
  <2>6. Covered(x)
    BY <2>1, <2>5 DEF Covered, Executed, Mapping
  <2>. QED  BY <2>2, <2>3, <2>4, <2>6
<1>. QED  BY <1>9, <1>10, <1>11, <1>12, <1>13 DEF FormatInv

\* A step in one of the calls of a writer keeps the invariant.
LEMMA StepInv ==
  ASSUME FormatInv, NEW x \in Writers, Step(x)
  PROVE  FormatInv'
<1>1. CASE InsertIP(x)
  BY <1>1, InsertIPInv
<1>2. CASE AddMetric(x)
  BY <1>2, AddMetricInv
<1>3. CASE EndBuild(x)
  BY <1>3, EndBuildInv
<1>4. CASE MergeIP(x)
  BY <1>4, MergeIPInv
<1>5. CASE Lock(x)
  BY <1>5, LockInv
<1>6. CASE OpenNew(x)
  BY <1>6, OpenNewInv
<1>7. CASE NextName(x)
  BY <1>7, NextNameInv
<1>8. CASE OpenFails(x)
  BY <1>8, NoFileInv DEF OpenFails
<1>9. CASE LoadmapSize(x)
  BY <1>9, LoadmapSizeInv
<1>10. CASE LoadmapAlloc(x)
  BY <1>10, LoadmapAllocInv
<1>11. CASE LoadmapFill(x)
  BY <1>11, LoadmapFillInv
<1>12. CASE LoadmapList(x)
  BY <1>12, LoadmapListInv
<1>13. CASE WriteCount(x)
  BY <1>13, WriteCountInv
<1>14. CASE WriteRow(x)
  BY <1>14, WriteRowInv
<1>15. CASE SkipPath(x)
  BY <1>15, SkipPathInv
<1>. QED  BY <1>1, <1>2, <1>3, <1>4, <1>5, <1>6, <1>7, <1>8, <1>9, <1>10, <1>11, <1>12, <1>13, <1>14, <1>15
          DEF Step

\* Every step keeps the invariant.
LEMMA NextInv ==
  ASSUME FormatInv, [Next]_vars
  PROVE  FormatInv'
<1>1. ASSUME NEW x \in Writers, NEW list \in Selections[x], Build(x, list) PROVE FormatInv'
  BY <1>1, BuildInv
<1>2. ASSUME NEW x \in Writers, NEW list \in Selections[x], BuildAnew(x, list) PROVE FormatInv'
  BY <1>2, BuildAnewInv
<1>3. ASSUME NEW x \in Writers, WriteCustom(x) PROVE FormatInv'
  BY <1>3, WriteCustomInv
<1>4. ASSUME NEW x \in Writers, NEW contexts \in Contexts, WriteAll(x, contexts) PROVE FormatInv'
  BY <1>4, WriteAllInv
<1>5. ASSUME NEW x \in Writers, Step(x) PROVE FormatInv'
  BY <1>5, StepInv
<1>6. ASSUME NEW n \in Others, Foreign(n) PROVE FormatInv'
  BY <1>6, ForeignInv
<1>7. ASSUME NEW m \in Libs, NEW ip \in Ips, ModuleLoad(m, BaseOf[ip]) PROVE FormatInv'
  BY <1>7, ModuleLoadInv
<1>8. ASSUME NEW e \in loaded, ModuleUnload(e) PROVE FormatInv'
  BY <1>8, ModuleUnloadInv
<1>10. ASSUME NEW x \in Writers, OpenErrors(x) PROVE FormatInv'
  BY <1>10, NoFileInv DEF OpenErrors
<1>9. CASE UNCHANGED vars
  <2>1. UNCHANGED <<treeVars, w, profile, moduleVars>> /\ lock' = lock /\ disk' = disk /\ w' = w
    BY <1>9 DEF vars, treeVars, moduleVars, tableVars, fileVars
  <2>2. FileInv'
    BY <2>1 DEF FormatInv, FileInv
  <2>. QED  BY <2>1, <2>2, AllKept
<1>. QED  BY <1>1, <1>2, <1>3, <1>4, <1>5, <1>6, <1>7, <1>8, <1>9, <1>10 DEF Next

\* FormatInv always holds.
THEOREM FormatInvariant == Spec => []FormatInv
<1>. QED  BY InitInv, NextInv, PTL DEF Spec
-----------------------------------------------------------------------------
(* What the runs check.                                                    *)

\* A writer past opening has one file: it made the name with O_EXCL, under
\* files_lock, and never opens another.
THEOREM FilesOwned == Spec => []OwnFile
<1>1. ASSUME FormatInv PROVE OwnFile
  <2>1. ASSUME NEW x \in Writers, w[x].pc \in Opened
        PROVE  Cardinality({n \in DOMAIN disk : disk[n] = x}) = 1
    <3>1. PICK n \in DOMAIN disk : disk[n] = x /\ \A m \in DOMAIN disk : disk[m] = x => m = n
      BY <1>1, <2>1 DEF FormatInv, FileInv
    <3>2. {m \in DOMAIN disk : disk[m] = x} = {n}
      BY <3>1
    <3>. QED  BY <3>2, FS_Singleton
  <2>. QED  BY <2>1 DEF OwnFile, Opened
<1>. QED  BY <1>1, FormatInvariant, PTL

\* The map of modules is of the size announced and resolves every row, unless a
\* module came while it was written or one has been unloaded.  A writer only crashes
\* where its tree leads through generated code, or a module came while it wrote rows.
THEOREM LoadmapResolves == Spec => []LoadmapCovers
<1>1. ASSUME FormatInv, NEW x \in Writers, x \notin disturbed, ~ unloaded
      PROVE  /\ w[x].pc = "crash" => x \in raced \/ Outside(x)
             /\ w[x].pc = "done" =>
                  /\ profile[x].size = Len(profile[x].map)
                  /\ \A k \in DOMAIN profile[x].map : profile[x].map[k].id = k
                  /\ \A k \in DOMAIN Rows(x) : Rows(x)[k].mod # 0 =>
                       [base |-> BaseOf[Rows(x)[k].ip], mod |-> profile[x].map[Rows(x)[k].mod].mod]
                         \in loaded
  <2>1. Mapping(x) /\ TableInv /\ RowsOK(x)
    BY <1>1 DEF FormatInv, Covered, Recorded
  <2>2. w[x].pc = "crash" => x \in raced \/ Outside(x)
    BY <1>1, <2>1 DEF Mapping
  <2>3. PICK map : map = profile[x].map
    OBVIOUS
  <2>4. w[x].pc = "done" =>
          /\ profile[x].size = Len(map)
          /\ \A k \in DOMAIN map : map[k] \in table /\ map[k].id = k
          /\ \A ip \in Addresses(x) \ {0} : Generated(ip) \/ \E k \in DOMAIN map : map[k].base = BaseOf[ip]
    BY <2>1, <2>3 DEF Mapping
  <2>5. ASSUME w[x].pc = "done", NEW k \in DOMAIN Rows(x), Rows(x)[k].mod # 0
        PROVE  [base |-> BaseOf[Rows(x)[k].ip], mod |-> map[Rows(x)[k].mod].mod] \in loaded
    <3>1. PICK r : r = Rows(x)[k]
      OBVIOUS
    <3>2. PICK i \in DOMAIN tree[x] : RowFor(r, tree[x][i])
      BY <2>1, <3>1 DEF RowsOK
    <3>3. r.ip = tree[x][i].ip /\ r.ip # 0 /\ \E e \in table : e.base = BaseOf[r.ip] /\ r.mod = e.id
      BY <2>5, <3>1, <3>2 DEF RowFor
    <3>4. PICK e \in table : e.base = BaseOf[r.ip] /\ r.mod = e.id
      BY <3>3
    <3>5. r.ip \in Addresses(x) \ {0}
      BY <3>3 DEF Addresses
    <3>6. PICK j \in DOMAIN map : map[j].base = BaseOf[r.ip]
      BY <2>1, <2>4, <2>5, <3>4, <3>5 DEF TableInv, Generated
    <3>7. map[j] = e /\ j = e.id
      BY <2>1, <2>4, <2>5, <3>4, <3>6 DEF TableInv
    <3>8. [base |-> e.base, mod |-> e.mod] \in loaded
      BY <1>1, <2>1 DEF TableInv
    <3>9. [base |-> BaseOf[r.ip], mod |-> map[r.mod].mod] = [base |-> e.base, mod |-> e.mod]
      BY <3>4, <3>7
    <3>. QED  BY <3>1, <3>8, <3>9
  <2>. QED  BY <2>2, <2>3, <2>4, <2>5
<1>2. FormatInv => LoadmapCovers
  BY <1>1 DEF LoadmapCovers
<1>. QED  BY <1>2, FormatInvariant, PTL

\* There are as many rows as nodes when each node has a row.
LEMMA RowPerNode ==
  ASSUME FormatInv, NEW x \in Writers, Written(x) = DOMAIN tree[x]
  PROVE  Len(Rows(x)) = Len(tree[x])
<1>1. /\ DOMAIN tree[x] = 1 .. Len(tree[x]) /\ Len(tree[x]) \in Nat
      /\ DOMAIN Rows(x) = 1 .. Len(Rows(x)) /\ Len(Rows(x)) \in Nat
      /\ RowsOK(x)
  BY Types DEF FormatInv, Recorded
<1>2. PICK S, T, R, t : S = DOMAIN Rows(x) /\ T = DOMAIN tree[x] /\ R = Rows(x) /\ t = tree[x]
  OBVIOUS
<1>3. \A k \in S : \E i \in T : R[k].id = t[i].id
  BY <1>1, <1>2 DEF RowsOK, RowFor
<1>4. \A i \in T : \E k \in S : R[k].id = t[i].id
  BY <1>2 DEF Written
<1>5. \A j, k \in S : R[j].id = R[k].id => j = k
  BY <1>1, <1>2 DEF RowsOK
<1>6. \A i, j \in T : t[i].id = t[j].id => i = j
  BY <1>2 DEF FormatInv, TreeInv, SameId
<1>7. PICK f : f = [k \in S |-> CHOOSE i \in T : R[k].id = t[i].id]
  OBVIOUS
<1>8. \A k \in S : f[k] \in T /\ R[k].id = t[f[k]].id
  <2>. TAKE k \in S
  <2>1. f[k] = CHOOSE i \in T : R[k].id = t[i].id
    BY <1>7
  <2>2. \E i \in T : R[k].id = t[i].id
    BY <1>3
  <2>. QED  BY <2>1, <2>2
<1>9. f \in [S -> T]
  BY <1>7, <1>8
<1>10. \A a, b \in S : f[a] = f[b] => a = b
  BY <1>5, <1>8
<1>11. \A i \in T : \E k \in S : f[k] = i
  BY <1>4, <1>6, <1>8
<1>12. f \in Bijection(S, T)
  BY <1>9, <1>10, <1>11, Fun_IsBij
<1>13. ExistsBijection(S, T)
  BY <1>12 DEF ExistsBijection
<1>14. IsFiniteSet(S) /\ Cardinality(S) = Len(R) /\ Cardinality(T) = Len(t)
  <2>1. ASSUME NEW n \in Nat PROVE IsFiniteSet(1 .. n) /\ Cardinality(1 .. n) = n
    <3>1. PICK one \in Int, m \in Int : one = 1 /\ m = n
      OBVIOUS
    <3>2. IsFiniteSet(one .. m) /\ Cardinality(one .. m) = IF one > m THEN 0 ELSE m - one + 1
      BY FS_Interval
    <3>. QED  BY <3>1, <3>2
  <2>2. S = 1 .. Len(R) /\ Len(R) \in Nat /\ T = 1 .. Len(t) /\ Len(t) \in Nat
    BY <1>1, <1>2
  <2>. QED  BY <2>1, <2>2
<1>15. Cardinality(T) = Cardinality(S)
  BY <1>13, <1>14, FS_Bijection
<1>. QED  BY <1>2, <1>14, <1>15

\* Which nodes have negative ids in a finished profile that is consistent.
LEMMA LeavesMarked ==
  ASSUME FormatInv, NEW x \in Writers, w[x].pc = "done", Consistent(x),
         NEW i \in DOMAIN tree[x]
  PROVE  tree[x][i].id < 0 <=> IsLeaf(tree[x], i)
<1>1. Signed(x)
  BY DEF FormatInv
<1>2. CASE Mode[x] = "custom"
  <2>1. w[x].builds = 1 /\ w[x].pc # "insert"
    BY <1>2 DEF Consistent
  <2>. QED  BY <1>1, <1>2, <2>1 DEF Signed
<1>3. CASE Mode[x] # "custom"
  <2>1. IsLeaf(tree[x], i) <=> tree[x][i].metric = 1
    BY <1>3 DEF Consistent
  <2>. QED  BY <1>1, <1>3, <2>1 DEF Signed
<1>. QED  BY <1>2, <1>3

\* A node with a row has nodes of its own when a row names it as its parent.
LEMMA ParentsNamed ==
  ASSUME FormatInv, NEW x \in Writers, Written(x) = DOMAIN tree[x], NEW i \in DOMAIN tree[x]
  PROVE  IsLeaf(tree[x], i) <=> \A j \in DOMAIN Rows(x) : Rows(x)[j].parent # tree[x][i].id
<1>1. TypeInv /\ TreeInv /\ RowsOK(x)
  BY DEF FormatInv, Recorded
<1>2. PICK R, t : R = Rows(x) /\ t = tree[x]
  OBVIOUS
<1>3. t[i].id # 0 /\ t # << >> /\ i # 0 /\ i \in DOMAIN t
  <2>1. DOMAIN tree[x] = 1 .. Len(tree[x]) /\ Len(tree[x]) \in Nat
    BY <1>1, Types
  <2>2. tree[x][i].id # 0
    BY <1>1, IdBounds
  <2>. QED  BY <1>2, <2>1, <2>2, EmptySeq
<1>4. \A a, b \in DOMAIN t : t[a].id = t[b].id => a = b
  BY <1>1, <1>2 DEF TreeInv, SameId
<1>5. \A j \in DOMAIN R : \E k \in DOMAIN t : R[j].id = t[k].id /\ R[j].parent = t[k].parent
  BY <1>1, <1>2 DEF RowsOK, RowFor
<1>6. \A k \in DOMAIN t : \E j \in DOMAIN R : R[j].id = t[k].id
  BY <1>2 DEF Written
<1>7. /\ 1 \in DOMAIN t /\ t[1].parent = 0 /\ t[1].up = 0
      /\ \A k \in DOMAIN t : k # 1 => t[k].up \in DOMAIN t /\ t[k].parent = t[t[k].up].id
  <2>1. 1 \in Children(t, 0)
    BY <1>2, <1>3, RootOf
  <2>. QED  BY <1>2, <1>3, <2>1, RootOf DEF Children
<1>8. ASSUME NEW j \in DOMAIN R, R[j].parent = t[i].id PROVE ~ IsLeaf(t, i)
  <2>1. PICK k \in DOMAIN t : R[j].parent = t[k].parent
    BY <1>5
  <2>2. k # 1
    BY <1>3, <1>7, <1>8, <2>1
  <2>3. t[k].up \in DOMAIN t /\ t[t[k].up].id = t[i].id
    BY <1>7, <1>8, <2>1, <2>2
  <2>4. t[k].up = i
    BY <1>3, <1>4, <2>3
  <2>. QED  BY <2>4 DEF IsLeaf, Children
<1>9. ASSUME ~ IsLeaf(t, i) PROVE \E j \in DOMAIN R : R[j].parent = t[i].id
  <2>1. PICK k \in DOMAIN t : t[k].up = i
    BY <1>9 DEF IsLeaf, Children
  <2>2. k # 1
    BY <1>3, <1>7, <2>1
  <2>3. t[k].parent = t[i].id
    BY <1>7, <2>1, <2>2
  <2>4. PICK j \in DOMAIN R : R[j].id = t[k].id
    BY <1>6
  <2>5. R[j].parent = t[k].parent
    BY <1>4, <1>5, <2>4
  <2>. QED  BY <2>3, <2>5
<1>. QED  BY <1>2, <1>8, <1>9

\* A profile that has been written can be read as a tree: as many rows as it
\* announces, each behind its parent's, ids found nowhere else, leaves marked.
THEOREM ProfilesReadable == Spec => []ProfileWellFormed
<1>1. ASSUME FormatInv, NEW x \in Writers, w[x].pc = "done"
      PROVE  /\ profile[x].count = Len(Rows(x))
             /\ \A k \in DOMAIN Rows(x) :
                  /\ IF k = 1 THEN Rows(x)[k].parent = 0
                     ELSE \E j \in 1 .. k - 1 : Rows(x)[j].id = Rows(x)[k].parent
                  /\ \A y \in Writers : \A j \in DOMAIN Rows(y) :
                       Rows(y)[j].id \in {Rows(x)[k].id, -Rows(x)[k].id} => x = y /\ j = k
                  /\ Consistent(x) =>
                       (Rows(x)[k].id < 0 <=>
                          \A j \in DOMAIN Rows(x) : Rows(x)[j].parent # Rows(x)[k].id)
  <2>1. /\ Written(x) = DOMAIN tree[x] /\ profile[x].count = count[x] /\ RowsOK(x)
        /\ count[x] = Len(tree[x])
    BY <1>1 DEF FormatInv, Recorded, TreeInv, TreeOK
  <2>2. profile[x].count = Len(Rows(x))
    BY <1>1, <2>1, RowPerNode
  <2>3. ASSUME NEW k \in DOMAIN Rows(x)
        PROVE  IF k = 1 THEN Rows(x)[k].parent = 0
               ELSE \E j \in 1 .. k - 1 : Rows(x)[j].id = Rows(x)[k].parent
    BY <2>1 DEF RowsOK
  <2>4. ASSUME NEW k \in DOMAIN Rows(x), NEW y \in Writers, NEW j \in DOMAIN Rows(y),
               Rows(y)[j].id \in {Rows(x)[k].id, -Rows(x)[k].id}
        PROVE  x = y /\ j = k
    <3>1. PICK i \in DOMAIN tree[x] : Rows(x)[k].id = tree[x][i].id
      BY <2>1 DEF RowsOK, RowFor
    <3>2. RowsOK(y)
      BY <1>1 DEF FormatInv, Recorded
    <3>3. PICK m \in DOMAIN tree[y] : Rows(y)[j].id = tree[y][m].id
      BY <3>2 DEF RowsOK, RowFor
    <3>4. SameId(tree[y][m].id, tree[x][i].id)
      BY <2>4, <3>1, <3>3 DEF SameId
    <3>5. y = x /\ m = i
      BY <1>1, <3>4 DEF FormatInv, TreeInv
    <3>6. Rows(x)[j].id = Rows(x)[k].id
      BY <3>1, <3>3, <3>5
    <3>. QED  BY <2>1, <3>5, <3>6 DEF RowsOK
  <2>5. ASSUME NEW k \in DOMAIN Rows(x), Consistent(x)
        PROVE  Rows(x)[k].id < 0 <=>
                 \A j \in DOMAIN Rows(x) : Rows(x)[j].parent # Rows(x)[k].id
    <3>1. PICK i \in DOMAIN tree[x] : Rows(x)[k].id = tree[x][i].id
      BY <2>1 DEF RowsOK, RowFor
    <3>2. tree[x][i].id < 0 <=> IsLeaf(tree[x], i)
      BY <1>1, <2>5, LeavesMarked
    <3>3. IsLeaf(tree[x], i) <=> \A j \in DOMAIN Rows(x) : Rows(x)[j].parent # tree[x][i].id
      BY <1>1, <2>1, ParentsNamed
    <3>. QED  BY <3>1, <3>2, <3>3
  <2>. QED  BY <2>2, <2>3, <2>4, <2>5
<1>2. FormatInv => ProfileWellFormed
  BY <1>1, Zenon DEF ProfileWellFormed
<1>. QED  BY <1>2, FormatInvariant, PTL
-----------------------------------------------------------------------------
(* Paths of nodes, and sums over the jobs passed.                          *)

\* Parents come before their children.
Ordered(t) == \A i \in DOMAIN t : IF i = 1 THEN t[i].up = 0 ELSE t[i].up \in 1 .. i - 1

\* One equation of each recursion.
PathStep(t, f, i) == IF i = 0 THEN << >> ELSE Append(f[t[i].up], t[i].ip)

Share(list, path, k) == IF Passes(list[k], path) THEN list[k].metric ELSE 0

SumStep(list, path, f, k) == IF k = 0 THEN 0 ELSE f[k - 1] + Share(list, path, k)

\* Induction, for a set of numbers.
LEMMA NumberInduction ==
  ASSUME NEW S, 0 \in S, \A n \in Nat : n \in S => n + 1 \in S
  PROVE  Nat \subseteq S
<1>1. SUFFICES ASSUME Nat \ S # {} PROVE FALSE
  OBVIOUS
<1>2. PICK m \in Nat \ S : \A k \in Nat \ S : m <= k
  BY <1>1, MinOf
<1>3. m # 0 /\ m - 1 \in Nat /\ m - 1 \notin S
  BY <1>2
<1>. QED  BY <1>2, <1>3

\* A tree in order, node by node: the parent's place is 0 or a node's before.
LEMMA UpBefore ==
  ASSUME NEW t \in Seq(Node), Ordered(t)
  PROVE  /\ Len(t) \in Nat /\ DOMAIN t = 1 .. Len(t)
         /\ \A i \in DOMAIN t : /\ t[i].up \in 0 .. i - 1 /\ t[i].up \in 0 .. Len(t)
                                /\ t[i].ip \in Ips \cup {0}
<1>1. Len(t) \in Nat /\ DOMAIN t = 1 .. Len(t) /\ \A i \in 1 .. Len(t) : t[i] \in Node
  BY LenProperties, ElementOfSeq
<1>2. ASSUME NEW i \in DOMAIN t
      PROVE  t[i].up \in 0 .. i - 1 /\ t[i].up \in 0 .. Len(t) /\ t[i].ip \in Ips \cup {0}
  <2>1. t[i] \in Node /\ i \in 1 .. Len(t)
    BY <1>1
  <2>2. t[i].up \in 0 .. i - 1
    BY <1>1, <2>1 DEF Ordered
  <2>. QED  BY <1>1, <2>1, <2>2 DEF Node
<1>. QED  BY <1>1, <1>2

\* Up to any node there is a function that satisfies the equations.
LEMMA PathExists ==
  ASSUME NEW t \in Seq(Node), Ordered(t), NEW m \in Nat
  PROVE  m <= Len(t) => \E f : f = [i \in 0 .. m |-> PathStep(t, f, i)]
<1>. DEFINE Defined(f, k) == f = [i \in 0 .. k |-> PathStep(t, f, i)]
            S == {k \in Nat : k <= Len(t) => \E f : Defined(f, k)}
<1>0. Len(t) \in Nat /\ DOMAIN t = 1 .. Len(t)
      /\ \A i \in DOMAIN t : t[i].up \in 0 .. i - 1
  BY UpBefore
<1>1. 0 \in S
  <2>. DEFINE g == [i \in 0 .. 0 |-> << >>]
  <2>1. \A i \in 0 .. 0 : PathStep(t, g, i) = << >>
    BY DEF PathStep
  <2>2. Defined(g, 0)
    BY <2>1
  <2>. HIDE DEF Defined, g
  <2>. QED  BY <2>2
<1>2. ASSUME NEW k \in Nat, k \in S PROVE k + 1 \in S
  <2>0. SUFFICES ASSUME k + 1 <= Len(t) PROVE \E f : Defined(f, k + 1)
    BY <1>2
  <2>1. PICK f : Defined(f, k)
    BY <1>0, <1>2, <2>0
  <2>. DEFINE g == [i \in 0 .. k + 1 |-> PathStep(t, f, i)]
  <2>2. \A i \in 0 .. k : g[i] = f[i]
    BY <2>1
  <2>3. ASSUME NEW i \in 0 .. k + 1 PROVE PathStep(t, g, i) = PathStep(t, f, i)
    <3>1. i # 0 => t[i].up \in 0 .. k
      BY <1>0, <2>0
    <3>2. i # 0 => g[t[i].up] = f[t[i].up]
      BY <2>2, <3>1
    <3>. HIDE DEF g
    <3>. QED  BY <3>2 DEF PathStep
  <2>4. Defined(g, k + 1)
    BY <2>3
  <2>. HIDE DEF Defined, g
  <2>. QED  BY <2>4
<1>. HIDE DEF S
<1>3. Nat \subseteq S
  BY <1>1, <1>2, NumberInduction
<1>. QED  BY <1>3 DEF S

\* A node's path is its parent's and its address.
LEMMA PathUnfold ==
  ASSUME NEW t \in Seq(Node), Ordered(t)
  PROVE  /\ PathOf(t)[0] = << >>
         /\ \A i \in DOMAIN t : PathOf(t)[i] = Append(PathOf(t)[t[i].up], t[i].ip)
<1>1. \E f : f = [i \in 0 .. Len(t) |-> PathStep(t, f, i)]
  BY PathExists, UpBefore
<1>2. PathOf(t) = CHOOSE f : f = [i \in 0 .. Len(t) |-> PathStep(t, f, i)]
  BY DEF PathOf, PathStep
<1>3. PathOf(t) = [i \in 0 .. Len(t) |-> PathStep(t, PathOf(t), i)]
  BY <1>1, <1>2
<1>. HIDE DEF PathOf
<1>4. Len(t) \in Nat /\ DOMAIN t = 1 .. Len(t)
  BY UpBefore
<1>5. \A i \in 0 .. Len(t) : PathOf(t)[i] = PathStep(t, PathOf(t), i)
  BY <1>3
<1>6. \A i \in DOMAIN t : i \in 0 .. Len(t) /\ i # 0
  BY <1>4
<1>7. PathOf(t)[0] = << >>
  BY <1>4, <1>5 DEF PathStep
<1>8. ASSUME NEW i \in DOMAIN t PROVE PathOf(t)[i] = Append(PathOf(t)[t[i].up], t[i].ip)
  BY <1>5, <1>6 DEF PathStep
<1>. QED  BY <1>7, <1>8

\* It is a sequence of addresses, and none only above the root.
LEMMA PathType ==
  ASSUME NEW t \in Seq(Node), Ordered(t), NEW i \in 0 .. Len(t)
  PROVE  PathOf(t)[i] \in Seq(Ips \cup {0}) /\ (PathOf(t)[i] = << >> => i = 0)
<1>. DEFINE OK(j) == PathOf(t)[j] \in Seq(Ips \cup {0}) /\ (PathOf(t)[j] = << >> => j = 0)
            Bad == {j \in Nat : j <= Len(t) /\ ~ OK(j)}
<1>1. SUFFICES ASSUME Bad # {} PROVE FALSE
  BY UpBefore
<1>2. PICK j \in Bad : \A k \in Bad : j <= k
  BY <1>1, MinOf
<1>3. j \in Nat /\ j <= Len(t) /\ ~ OK(j)
  BY <1>2
<1>4. j # 0
  BY <1>3, PathUnfold, EmptySeq
<1>5. j \in DOMAIN t /\ t[j].up \in 0 .. j - 1 /\ t[j].up \in 0 .. Len(t) /\ t[j].ip \in Ips \cup {0}
  BY <1>3, <1>4, UpBefore
<1>6. OK(t[j].up)
  <2>1. t[j].up \in Nat /\ t[j].up <= Len(t) /\ ~ (j <= t[j].up)
    BY <1>3, <1>5
  <2>2. t[j].up \notin Bad
    BY <1>2, <2>1
  <2>. QED  BY <2>1, <2>2
<1>7. PathOf(t)[j] = Append(PathOf(t)[t[j].up], t[j].ip)
  BY <1>5, PathUnfold
<1>8. PathOf(t)[j] \in Seq(Ips \cup {0}) /\ PathOf(t)[j] # << >>
  BY SMTT(60), <1>5, <1>6, <1>7, AppendProperties
<1>. QED  BY <1>3, <1>8

\* Trees that agree up to a node agree on its path.
LEMMA PathsSame ==
  ASSUME NEW s \in Seq(Node), NEW t \in Seq(Node), Ordered(s), Ordered(t),
         NEW m \in Nat, m <= Len(s), m <= Len(t),
         \A i \in 1 .. m : s[i].up = t[i].up /\ s[i].ip = t[i].ip
  PROVE  \A i \in 0 .. m : PathOf(s)[i] = PathOf(t)[i]
<1>. DEFINE Bad == {j \in Nat : j <= m /\ PathOf(s)[j] # PathOf(t)[j]}
<1>1. SUFFICES ASSUME Bad # {} PROVE FALSE
  OBVIOUS
<1>2. PICK j \in Bad : \A k \in Bad : j <= k
  BY <1>1, MinOf
<1>3. j \in Nat /\ j <= m /\ PathOf(s)[j] # PathOf(t)[j]
  BY <1>2
<1>4. j # 0
  BY <1>3, PathUnfold
<1>5. j \in DOMAIN s /\ j \in DOMAIN t /\ j \in 1 .. m /\ t[j].up \in 0 .. j - 1
  BY <1>3, <1>4, UpBefore
<1>6. s[j].up = t[j].up /\ s[j].ip = t[j].ip
  BY <1>5
<1>7. PathOf(s)[t[j].up] = PathOf(t)[t[j].up]
  <2>1. t[j].up \in Nat /\ t[j].up <= m /\ ~ (j <= t[j].up)
    BY <1>3, <1>5
  <2>2. t[j].up \notin Bad
    BY <1>2, <2>1
  <2>. QED  BY <2>1, <2>2
<1>8. /\ PathOf(s)[j] = Append(PathOf(s)[s[j].up], s[j].ip)
      /\ PathOf(t)[j] = Append(PathOf(t)[t[j].up], t[j].ip)
  BY <1>5, PathUnfold
<1>. QED  BY <1>3, <1>6, <1>7, <1>8

\* What is appended can be told from the result.
LEMMA AppendApart ==
  ASSUME NEW S, NEW a \in Seq(S), NEW b \in Seq(S), NEW c \in S, NEW d \in S,
         Append(a, c) = Append(b, d)
  PROVE  a = b /\ c = d
<1>1. /\ Len(a) \in Nat /\ Len(b) \in Nat
      /\ Len(Append(a, c)) = Len(a) + 1 /\ Len(Append(b, d)) = Len(b) + 1
      /\ \A i \in 1 .. Len(a) : Append(a, c)[i] = a[i]
      /\ \A i \in 1 .. Len(b) : Append(b, d)[i] = b[i]
      /\ Append(a, c)[Len(a) + 1] = c /\ Append(b, d)[Len(b) + 1] = d
  BY AppendProperties, LenProperties
<1>2. Len(a) = Len(b)
  BY <1>1
<1>3. \A i \in 1 .. Len(a) : a[i] = b[i]
  BY <1>1, <1>2
<1>. QED  BY <1>1, <1>2, <1>3, SeqEqual

\* When siblings differ, paths do.
LEMMA PathsDiffer ==
  ASSUME NEW t \in Seq(Node), Ordered(t), Distinct(t),
         NEW i \in 0 .. Len(t), NEW k \in 0 .. Len(t), PathOf(t)[i] = PathOf(t)[k]
  PROVE  i = k
<1>. DEFINE Bad == {j \in Nat : j <= Len(t) /\ \E l \in 0 .. Len(t) : PathOf(t)[l] = PathOf(t)[j] /\ l # j}
<1>0. Len(t) \in Nat
  BY UpBefore
<1>1. SUFFICES ASSUME Bad # {} PROVE FALSE
  BY <1>0
<1>2. PICK j \in Bad : \A n \in Bad : j <= n
  BY <1>1, MinOf
<1>3. j \in Nat /\ j <= Len(t)
  BY <1>2
<1>4. PICK l \in 0 .. Len(t) : PathOf(t)[l] = PathOf(t)[j] /\ l # j
  BY <1>2
<1>5. j # 0 /\ l # 0
  <2>1. PathOf(t)[0] = << >>
    BY PathUnfold
  <2>2. j \in 0 .. Len(t)
    BY <1>0, <1>3
  <2>. QED  BY <1>4, <2>1, <2>2, PathType
<1>6. /\ j \in DOMAIN t /\ t[j].up \in 0 .. j - 1 /\ t[j].up \in 0 .. Len(t) /\ t[j].ip \in Ips \cup {0}
      /\ l \in DOMAIN t /\ t[l].up \in 0 .. Len(t) /\ t[l].ip \in Ips \cup {0}
  BY <1>0, <1>3, <1>5, UpBefore
<1>7. /\ PathOf(t)[j] = Append(PathOf(t)[t[j].up], t[j].ip)
      /\ PathOf(t)[l] = Append(PathOf(t)[t[l].up], t[l].ip)
  BY <1>6, PathUnfold
<1>8. PathOf(t)[t[j].up] \in Seq(Ips \cup {0}) /\ PathOf(t)[t[l].up] \in Seq(Ips \cup {0})
  BY <1>6, PathType
<1>9. PathOf(t)[t[l].up] = PathOf(t)[t[j].up] /\ t[l].ip = t[j].ip
  <2>. DEFINE a == PathOf(t)[t[l].up]
              b == PathOf(t)[t[j].up]
              c == t[l].ip
              d == t[j].ip
              S == Ips \cup {0}
  <2>1. a \in Seq(S) /\ b \in Seq(S) /\ c \in S /\ d \in S /\ Append(a, c) = Append(b, d)
    BY <1>4, <1>6, <1>7, <1>8
  <2>. HIDE DEF a, b, c, d, S
  <2>2. a = b /\ c = d
    BY <2>1, AppendApart
  <2>. QED  BY <2>2 DEF a, b, c, d
<1>10. t[l].up = t[j].up
  <2>1. t[j].up \in Nat /\ t[j].up <= Len(t) /\ ~ (j <= t[j].up)
    BY <1>0, <1>3, <1>6
  <2>2. t[j].up \notin Bad
    BY <1>2, <2>1
  <2>. QED  BY <1>6, <1>9, <2>1, <2>2
<1>. QED  BY <1>4, <1>6, <1>9, <1>10 DEF Distinct

\* Up to any job there is a function that satisfies the equations of the sum.
LEMMA SumsExist ==
  ASSUME NEW list, NEW path, NEW m \in Nat
  PROVE  \E f : f = [k \in 0 .. m |-> SumStep(list, path, f, k)]
<1>. DEFINE Defined(f, n) == f = [k \in 0 .. n |-> SumStep(list, path, f, k)]
            S == {n \in Nat : \E f : Defined(f, n)}
<1>1. 0 \in S
  <2>. DEFINE g == [k \in 0 .. 0 |-> 0]
  <2>1. \A k \in 0 .. 0 : SumStep(list, path, g, k) = 0
    BY DEF SumStep
  <2>2. Defined(g, 0)
    BY <2>1
  <2>. HIDE DEF Defined, g
  <2>. QED  BY <2>2
<1>2. ASSUME NEW n \in Nat, n \in S PROVE n + 1 \in S
  <2>1. PICK f : Defined(f, n)
    BY <1>2
  <2>. DEFINE g == [k \in 0 .. n + 1 |-> SumStep(list, path, f, k)]
  <2>2. \A k \in 0 .. n : g[k] = f[k]
    BY <2>1
  <2>3. ASSUME NEW k \in 0 .. n + 1 PROVE SumStep(list, path, g, k) = SumStep(list, path, f, k)
    <3>1. k # 0 => k - 1 \in 0 .. n
      OBVIOUS
    <3>2. k # 0 => g[k - 1] = f[k - 1]
      BY <2>2, <3>1
    <3>. HIDE DEF g
    <3>. QED  BY <3>2 DEF SumStep
  <2>4. Defined(g, n + 1)
    BY <2>3
  <2>. HIDE DEF Defined, g
  <2>. QED  BY <2>4
<1>. HIDE DEF S
<1>3. Nat \subseteq S
  BY <1>1, <1>2, NumberInduction
<1>. QED  BY <1>3 DEF S

\* A sum grows job by job.
LEMMA SumsUnfold ==
  ASSUME NEW list \in Seq(Paths), NEW path
  PROVE  /\ Sums(list, path)[0] = 0
         /\ \A n \in Nat : n + 1 <= Len(list) =>
              Sums(list, path)[n + 1] = Sums(list, path)[n] + Share(list, path, n + 1)
<1>1. Len(list) \in Nat
  BY LenProperties
<1>2. \E f : f = [k \in 0 .. Len(list) |-> SumStep(list, path, f, k)]
  BY <1>1, SumsExist
<1>3. Sums(list, path) = CHOOSE f : f = [k \in 0 .. Len(list) |-> SumStep(list, path, f, k)]
  BY DEF Sums, SumStep, Share
<1>. DEFINE s == Sums(list, path)
<1>4. s = [k \in 0 .. Len(list) |-> SumStep(list, path, s, k)]
  BY <1>2, <1>3
<1>. HIDE DEF s
<1>5. \A k \in 0 .. Len(list) : s[k] = SumStep(list, path, s, k)
  BY <1>4
<1>6. s[0] = 0
  BY <1>1, <1>5 DEF SumStep
<1>7. ASSUME NEW n \in Nat, n + 1 <= Len(list)
      PROVE  s[n + 1] = s[n] + Share(list, path, n + 1)
  <2>1. n + 1 \in 0 .. Len(list) /\ n + 1 # 0 /\ (n + 1) - 1 = n
    BY <1>1, <1>7
  <2>. QED  BY <1>5, <2>1 DEF SumStep
<1>. QED  BY <1>6, <1>7 DEF s

\* A number.
LEMMA SumsType ==
  ASSUME NEW list \in Seq(Paths), NEW path, NEW m \in Nat
  PROVE  m <= Len(list) => Sums(list, path)[m] \in Int
<1>. DEFINE S == {n \in Nat : n <= Len(list) => Sums(list, path)[n] \in Int}
<1>1. Len(list) \in Nat /\ \A k \in 1 .. Len(list) : list[k] \in Paths
  BY LenProperties, ElementOfSeq
<1>2. 0 \in S
  BY SumsUnfold
<1>3. ASSUME NEW n \in Nat, n \in S PROVE n + 1 \in S
  <2>1. SUFFICES ASSUME n + 1 <= Len(list) PROVE Sums(list, path)[n + 1] \in Int
    OBVIOUS
  <2>2. n + 1 \in 1 .. Len(list) /\ (n + 1) - 1 = n /\ Sums(list, path)[n] \in Int
    BY <1>1, <1>3, <2>1
  <2>3. list[n + 1].metric \in Int
    BY <1>1, <2>2 DEF Paths
  <2>4. Sums(list, path)[n + 1] =
          Sums(list, path)[n] + Share(list, path, n + 1)
    BY <2>1, SumsUnfold
  <2>. QED  BY <2>2, <2>3, <2>4 DEF Share
<1>. HIDE DEF S
<1>4. Nat \subseteq S
  BY <1>2, <1>3, NumberInduction
<1>. QED  BY <1>4 DEF S

\* Jobs behind a number do not count for the sums up to it.
LEMMA SumsSame ==
  ASSUME NEW l1 \in Seq(Paths), NEW l2 \in Seq(Paths), NEW path, NEW m \in Nat,
         m <= Len(l1), m <= Len(l2), \A k \in 1 .. m : l1[k] = l2[k]
  PROVE  Sums(l1, path)[m] = Sums(l2, path)[m]
<1>. DEFINE S == {n \in Nat : n <= m => Sums(l1, path)[n] = Sums(l2, path)[n]}
<1>1. Len(l1) \in Nat /\ Len(l2) \in Nat
  BY LenProperties
<1>2. 0 \in S
  BY SumsUnfold
<1>3. ASSUME NEW n \in Nat, n \in S PROVE n + 1 \in S
  <2>1. SUFFICES ASSUME n + 1 <= m PROVE Sums(l1, path)[n + 1] = Sums(l2, path)[n + 1]
    OBVIOUS
  <2>2. /\ n + 1 \in 1 .. Len(l1) /\ n + 1 \in 1 .. Len(l2) /\ n + 1 \in 1 .. m /\ (n + 1) - 1 = n
        /\ Sums(l1, path)[n] = Sums(l2, path)[n]
    BY <1>1, <1>3, <2>1
  <2>3. l1[n + 1] = l2[n + 1]
    BY <2>2
  <2>4. /\ Sums(l1, path)[n + 1] =
             Sums(l1, path)[n] + Share(l1, path, n + 1)
        /\ Sums(l2, path)[n + 1] =
             Sums(l2, path)[n] + Share(l2, path, n + 1)
    BY <2>1, SumsUnfold
  <2>. QED  BY <2>2, <2>3, <2>4 DEF Share
<1>. HIDE DEF S
<1>4. Nat \subseteq S
  BY <1>2, <1>3, NumberInduction
<1>. QED  BY <1>4 DEF S

\* What was not passed has no sum.
LEMMA SumsZero ==
  ASSUME NEW list \in Seq(Paths), NEW path, NEW m \in Nat, m <= Len(list),
         \A k \in 1 .. m : ~ Passes(list[k], path)
  PROVE  Sums(list, path)[m] = 0
<1>. DEFINE S == {n \in Nat : n <= m => Sums(list, path)[n] = 0}
<1>1. Len(list) \in Nat
  BY LenProperties
<1>2. 0 \in S
  BY SumsUnfold
<1>3. ASSUME NEW n \in Nat, n \in S PROVE n + 1 \in S
  <2>1. SUFFICES ASSUME n + 1 <= m PROVE Sums(list, path)[n + 1] = 0
    OBVIOUS
  <2>2. n + 1 \in 1 .. Len(list) /\ n + 1 \in 1 .. m /\ (n + 1) - 1 = n /\ Sums(list, path)[n] = 0
    BY <1>1, <1>3, <2>1
  <2>3. Sums(list, path)[n + 1] =
          Sums(list, path)[n] + Share(list, path, n + 1)
    BY <2>1, SumsUnfold
  <2>. QED  BY <2>2, <2>3 DEF Share
<1>. HIDE DEF S
<1>4. Nat \subseteq S
  BY <1>2, <1>3, NumberInduction
<1>. QED  BY <1>4 DEF S
-----------------------------------------------------------------------------
(* Paths and metrics, step by step.                                        *)

\* What is left of a path leads from a node to the one the path is for.
Leads(t, cur, left, path) ==
  /\ PathOf(t)[cur] \o Credited(left) = <<0>> \o Credited(path)
  /\ path = << >> <=> left = << >> /\ cur = 1

\* Attributed, of a tree, the jobs passed, and what is left of them, n of them done.
SoundAt(t, list, inserting, rest, cur, n) ==
  /\ n \in Nat
  /\ IF t = << >> THEN list = << >> ELSE t[1].ip = 0
  /\ \A i \in DOMAIN t : t[i].metric = Sums(list, PathOf(t)[i])[n]
  /\ \A k \in 1 .. n : list[k].path # << >> => \E i \in DOMAIN t : Passes(list[k], PathOf(t)[i])
  /\ inserting =>
       /\ \A k \in DOMAIN rest : rest[k].metric = list[n + k].metric
       /\ \A k \in DOMAIN rest : k > 1 => rest[k].path = list[n + k].path
       /\ rest # << >> => Leads(t, cur, rest[1].path, list[n + 1].path)

Sound(t, list, inserting, rest, cur) ==
  SoundAt(t, list, inserting, rest, cur,
          IF inserting THEN Len(list) - Len(rest) ELSE Len(list))

\* The two say the same, before a step and behind it.
LEMMA SoundIs ==
  ASSUME NEW x \in Writers
  PROVE  /\ Attributed(x) <=> Sound(tree[x], asked[x], w[x].pc = "insert", w[x].todo, w[x].cur)
         /\ Attributed(x)' <=>
              Sound(tree'[x], asked'[x], w'[x].pc = "insert", w'[x].todo, w'[x].cur)
         /\ Distinct(tree[x])' <=> Distinct(tree'[x])
<1>1. Attributed(x) <=> Sound(tree[x], asked[x], w[x].pc = "insert", w[x].todo, w[x].cur)
  BY DEF Attributed, Sound, SoundAt, Leads, JobsDone
<1>2. Attributed(x)' <=>
        Sound(tree'[x], asked'[x], w'[x].pc = "insert", w'[x].todo, w'[x].cur)
  BY DEF Attributed, Sound, SoundAt, Leads, JobsDone, PathOf, Sums, Passes, Credited
<1>3. Distinct(tree[x])' <=> Distinct(tree'[x])
  BY DEF Distinct
<1>. QED  BY <1>1, <1>2, <1>3

\* Sound gives the path of the root.
LEMMA RootPath ==
  ASSUME NEW t \in Seq(Node), Ordered(t), t # << >>, t[1].ip = 0
  PROVE  1 \in DOMAIN t /\ PathOf(t)[1] = <<0>>
<1>1. Len(t) \in Nat /\ DOMAIN t = 1 .. Len(t) /\ Len(t) # 0
  BY LenProperties, EmptySeq
<1>2. 1 \in DOMAIN t /\ t[1].up = 0
  BY <1>1 DEF Ordered
<1>3. PathOf(t)[1] = Append(PathOf(t)[0], 0) /\ PathOf(t)[0] = << >>
  BY <1>2, PathUnfold
<1>. QED  BY <1>2, <1>3

\* The jobs of a call: behind those done before.
LEMMA JobsAppended ==
  ASSUME NEW list \in Seq(Paths), NEW jobs \in Seq(Paths)
  PROVE  /\ list \o jobs \in Seq(Paths) /\ Len(list \o jobs) = Len(list) + Len(jobs)
         /\ Len(list) \in Nat /\ Len(jobs) \in Nat /\ DOMAIN jobs = 1 .. Len(jobs)
         /\ \A k \in 1 .. Len(list) : (list \o jobs)[k] = list[k]
         /\ \A k \in 1 .. Len(jobs) : (list \o jobs)[Len(list) + k] = jobs[k]
<1>1. /\ Len(list) \in Nat /\ Len(jobs) \in Nat /\ DOMAIN jobs = 1 .. Len(jobs)
      /\ list \o jobs \in Seq(Paths) /\ Len(list \o jobs) = Len(list) + Len(jobs)
      /\ \A i \in 1 .. Len(list) + Len(jobs) : (list \o jobs)[i] =
           IF i <= Len(list) THEN list[i] ELSE jobs[i - Len(list)]
  BY LenProperties, ConcatProperties
<1>2. ASSUME NEW k \in 1 .. Len(list) PROVE (list \o jobs)[k] = list[k]
  BY <1>1
<1>3. ASSUME NEW k \in 1 .. Len(jobs) PROVE (list \o jobs)[Len(list) + k] = jobs[k]
  <2>1. /\ Len(list) + k \in 1 .. Len(list) + Len(jobs) /\ ~ (Len(list) + k <= Len(list))
        /\ (Len(list) + k) - Len(list) = k
    BY <1>1
  <2>. QED  BY <1>1, <2>1
<1>. QED  BY <1>1, <1>2, <1>3

\* A call to build begins, on a tree there is.
LEMMA SoundBegun ==
  ASSUME NEW t \in Seq(Node), Ordered(t), t # << >>, NEW list \in Seq(Paths), NEW rest0, NEW cur0,
         Sound(t, list, FALSE, rest0, cur0), NEW jobs \in Seq(Paths)
  PROVE  Sound(t, list \o jobs, TRUE, jobs, 1)
<1>. DEFINE l2 == list \o jobs
            n == Len(list)
<1>1. /\ l2 \in Seq(Paths) /\ Len(l2) = n + Len(jobs) /\ n \in Nat /\ Len(jobs) \in Nat
      /\ DOMAIN jobs = 1 .. Len(jobs)
      /\ \A k \in 1 .. n : l2[k] = list[k]
      /\ \A k \in 1 .. Len(jobs) : l2[n + k] = jobs[k]
  BY JobsAppended
<1>2. /\ t[1].ip = 0
      /\ \A i \in DOMAIN t : t[i].metric = Sums(list, PathOf(t)[i])[n]
      /\ \A k \in 1 .. n : list[k].path # << >> => \E i \in DOMAIN t : Passes(list[k], PathOf(t)[i])
  BY DEF Sound, SoundAt
<1>. HIDE DEF l2, n
<1>3. Len(l2) - Len(jobs) = n
  BY <1>1
<1>4. ASSUME NEW i \in DOMAIN t PROVE t[i].metric = Sums(l2, PathOf(t)[i])[n]
  <2>1. n <= Len(list) /\ n <= Len(l2)
    BY <1>1 DEF n
  <2>2. \A k \in 1 .. n : list[k] = l2[k]
    BY Zenon, <1>1
  <2>3. \A path : Sums(list, path)[n] = Sums(l2, path)[n]
    <3>1. l2 \in Seq(Paths) /\ n \in Nat
      BY Zenon, <1>1
    <3>. QED  BY ZenonT(60), <2>1, <2>2, <3>1, SumsSame
  <2>. QED  BY Zenon, <1>2, <2>3
<1>5. ASSUME NEW k \in 1 .. n, l2[k].path # << >> PROVE \E i \in DOMAIN t : Passes(l2[k], PathOf(t)[i])
  BY <1>1, <1>2, <1>5
<1>6. PathOf(t)[1] = <<0>>
  BY <1>2, RootPath
<1>7. jobs # << >> => Leads(t, 1, jobs[1].path, l2[n + 1].path)
  <2>1. SUFFICES ASSUME jobs # << >> PROVE jobs[1] = l2[n + 1]
    BY <1>6 DEF Leads
  <2>2. 1 \in 1 .. Len(jobs)
    BY <1>1, <2>1, EmptySeq
  <2>. QED  BY <1>1, <2>2
<1>8. \A k \in DOMAIN jobs : jobs[k] = l2[n + k]
  BY <1>1
<1>9. Sound(t, l2, TRUE, jobs, 1)
  <2>1. SoundAt(t, l2, TRUE, jobs, 1, n)
    BY <1>1, <1>2, <1>4, <1>5, <1>7, <1>8 DEF SoundAt
  <2>. QED  BY <1>3, <2>1 DEF Sound
<1>. QED  BY <1>9 DEF l2

\* A call to build begins with a new root.
LEMMA SoundFresh ==
  ASSUME NEW r \in Node, r.ip = 0, r.up = 0, r.metric = 0, NEW jobs \in Seq(Paths)
  PROVE  <<r>> \in Seq(Node) /\ Ordered(<<r>>) /\ Distinct(<<r>>) /\ Sound(<<r>>, jobs, TRUE, jobs, 1)
<1>. DEFINE t == <<r>>
<1>1. t \in Seq(Node) /\ DOMAIN t = {1} /\ t[1] = r /\ t # << >> /\ Len(t) = 1
  OBVIOUS
<1>. HIDE DEF t
<1>2. Ordered(t) /\ Distinct(t)
  BY <1>1 DEF Ordered, Distinct
<1>. DEFINE n == 0
<1>3. /\ Len(jobs) \in Nat /\ DOMAIN jobs = 1 .. Len(jobs) /\ Len(jobs) - Len(jobs) = n /\ n \in Nat
      /\ \A k \in DOMAIN jobs : jobs[k] = jobs[n + k]
      /\ jobs # << >> => jobs[1] = jobs[n + 1]
      /\ 1 .. n = {}
  BY LenProperties
<1>4. \A i \in DOMAIN t : t[i].metric = Sums(jobs, PathOf(t)[i])[n]
  BY <1>1, SumsUnfold
<1>. HIDE DEF n
<1>5. PathOf(t)[1] = <<0>>
  BY <1>1, <1>2, RootPath
<1>7. Sound(t, jobs, TRUE, jobs, 1)
  <2>1. SoundAt(t, jobs, TRUE, jobs, 1, n)
    BY <1>1, <1>3, <1>4, <1>5 DEF SoundAt, Leads
  <2>. QED  BY <1>3, <2>1 DEF Sound
<1>. QED  BY <1>1, <1>2, <1>7 DEF t

\* Taking the first address of what is left, and going down by it.
LEMMA PathShift ==
  ASSUME NEW S, NEW s \in Seq(S), NEW p \in Seq(S), p # << >>
  PROVE  Append(s, p[1]) \o Tail(p) = s \o p
<1>1. /\ Len(s) \in Nat /\ Len(p) \in Nat \ {0} /\ p[1] \in S
      /\ Tail(p) \in Seq(S) /\ Len(Tail(p)) = Len(p) - 1
      /\ \A i \in 1 .. Len(p) - 1 : Tail(p)[i] = p[i + 1]
  BY Rest, LenProperties
<1>. DEFINE a == Append(s, p[1])
            b == Tail(p)
<1>2. /\ a \in Seq(S) /\ Len(a) = Len(s) + 1 /\ \A i \in 1 .. Len(s) : a[i] = s[i]
      /\ a[Len(s) + 1] = p[1]
  BY <1>1, AppendProperties
<1>. HIDE DEF a, b
<1>3. b \in Seq(S) /\ Len(b) = Len(p) - 1 /\ \A i \in 1 .. Len(p) - 1 : b[i] = p[i + 1]
  BY <1>1 DEF b
<1>4. /\ a \o b \in Seq(S) /\ Len(a \o b) = Len(a) + Len(b)
      /\ \A i \in 1 .. Len(a) + Len(b) : (a \o b)[i] = IF i <= Len(a) THEN a[i] ELSE b[i - Len(a)]
  BY <1>2, <1>3, ConcatProperties
<1>5. /\ s \o p \in Seq(S) /\ Len(s \o p) = Len(s) + Len(p)
      /\ \A i \in 1 .. Len(s) + Len(p) : (s \o p)[i] = IF i <= Len(s) THEN s[i] ELSE p[i - Len(s)]
  BY ConcatProperties
<1>6. Len(a \o b) = Len(s \o p)
  BY <1>1, <1>2, <1>3, <1>4, <1>5
<1>7. ASSUME NEW i \in 1 .. Len(a \o b) PROVE (a \o b)[i] = (s \o p)[i]
  <2>0. i \in 1 .. Len(s) + Len(p) /\ i \in Nat /\ Len(a) + Len(b) = Len(s) + Len(p)
    BY <1>1, <1>2, <1>3, <1>4
  <2>1. CASE i <= Len(s)
    BY <1>1, <1>2, <1>4, <1>5, <2>0, <2>1
  <2>2. CASE i = Len(s) + 1
    <3>1. (a \o b)[i] = a[Len(s) + 1]
      BY <1>1, <1>2, <1>4, <2>0, <2>2
    <3>2. (s \o p)[i] = p[1]
      BY <1>1, <1>5, <2>0, <2>2
    <3>. QED  BY <1>2, <3>1, <3>2
  <2>3. CASE i > Len(s) + 1
    <3>1. /\ i - Len(a) \in 1 .. Len(p) - 1 /\ (i - Len(a)) + 1 = i - Len(s)
          /\ ~ (i <= Len(a)) /\ ~ (i <= Len(s))
      BY <1>1, <1>2, <2>0, <2>3
    <3>2. (a \o b)[i] = b[i - Len(a)] /\ (s \o p)[i] = p[i - Len(s)]
      BY <1>4, <1>5, <2>0, <3>1
    <3>3. b[i - Len(a)] = p[(i - Len(a)) + 1]
      BY <1>3, <3>1
    <3>. QED  BY <3>1, <3>2, <3>3
  <2>. QED  BY <1>1, <2>0, <2>1, <2>2, <2>3
<1>8. a \o b = s \o p
  BY <1>4, <1>5, <1>6, <1>7, SeqEqual
<1>. QED  BY <1>8 DEF a, b

\* The first elements of a sequence.
LEMMA FrontPart ==
  ASSUME NEW S, NEW s \in Seq(S), NEW m \in 0 .. Len(s)
  PROVE  /\ SubSeq(s, 1, m) \in Seq(S) /\ Len(SubSeq(s, 1, m)) = m
         /\ \A i \in 1 .. m : SubSeq(s, 1, m)[i] = s[i]
<1>1. Len(s) \in Nat /\ \A i \in 1 .. Len(s) : s[i] \in S
  BY LenProperties, ElementOfSeq
<1>2. PICK one \in Int, n \in Int : one = 1 /\ n = m
  BY <1>1
<1>3. \A i \in one .. n : s[i] \in S
  BY <1>1, <1>2
<1>4. /\ SubSeq(s, one, n) \in Seq(S)
      /\ Len(SubSeq(s, one, n)) = IF one <= n THEN n - one + 1 ELSE 0
      /\ \A i \in 1 .. n - one + 1 : SubSeq(s, one, n)[i] = s[one + i - 1]
  BY <1>3, SubSeqProperties
<1>5. n - one + 1 = m /\ (~ (one <= n) => m = 0) /\ \A i \in 1 .. m : one + i - 1 = i
  BY <1>1, <1>2
<1>6. SubSeq(s, one, n) = SubSeq(s, 1, m)
  BY <1>2
<1>. QED  BY <1>4, <1>5, <1>6

\* What is credited of a path is what comes before the first 0.
LEMMA CreditedIs ==
  ASSUME NEW S, NEW p \in Seq(S)
  PROVE  \E m \in 0 .. Len(p) : /\ Credited(p) = SubSeq(p, 1, m)
                                /\ \A k \in 1 .. m : p[k] # 0
                                /\ m < Len(p) => p[m + 1] = 0
<1>. DEFINE Zeros == {k \in 1 .. Len(p) : p[k] = 0}
            Valid == {n \in 0 .. Len(p) : \A k \in 1 .. n : p[k] # 0}
<1>1. Len(p) \in Nat
  BY LenProperties
<1>2. PICK m \in 0 .. Len(p) : (\A k \in 1 .. m : p[k] # 0) /\ (m < Len(p) => p[m + 1] = 0)
  <2>1. CASE Zeros = {}
    <3>1. Len(p) \in 0 .. Len(p) /\ \A k \in 1 .. Len(p) : p[k] # 0
      BY <1>1, <2>1
    <3>. QED  BY <1>1, <3>1
  <2>2. CASE Zeros # {}
    <3>0. Zeros \in SUBSET Nat
      OBVIOUS
    <3>1. PICK z \in Zeros : \A k \in Zeros : z <= k
      <4>. HIDE DEF Zeros
      <4>. QED  BY <2>2, <3>0, MinOf
    <3>2. z \in 1 .. Len(p) /\ p[z] = 0
      OBVIOUS
    <3>4. ASSUME NEW k \in 1 .. z - 1, p[k] = 0 PROVE FALSE
      BY <1>1, <3>1, <3>2, <3>4
    <3>3. /\ z - 1 \in 0 .. Len(p) /\ p[(z - 1) + 1] = 0
          /\ \A k \in 1 .. z - 1 : p[k] # 0
      BY <1>1, <3>2, <3>4
    <3>. QED  BY <3>3
  <2>. QED  BY <2>1, <2>2
<1>3. m \in Valid /\ \A n \in Valid : m >= n
  BY <1>1, <1>2
<1>4. Max(Valid) = m
  <2>1. Valid \subseteq Nat
    OBVIOUS
  <2>. HIDE DEF Valid
  <2>2. PICK v : v = Max(Valid)
    OBVIOUS
  <2>3. v \in Valid /\ \A n \in Valid : v >= n
    BY <1>3, <2>2, Zenon DEF Max
  <2>4. v >= m /\ m >= v /\ v \in Nat /\ m \in Nat
    BY <1>3, <2>1, <2>3
  <2>. QED  BY <2>2, <2>4
<1>5. Credited(p) = SubSeq(p, 1, m)
  BY <1>4 DEF Credited
<1>. QED  BY <1>2, <1>5

\* Nothing, at the end of a path and at a 0.
LEMMA CreditedNone ==
  ASSUME NEW S, NEW p \in Seq(S), p # << >> => p[1] = 0
  PROVE  Credited(p) = << >>
<1>1. PICK m \in 0 .. Len(p) : Credited(p) = SubSeq(p, 1, m) /\ \A k \in 1 .. m : p[k] # 0
  BY CreditedIs
<1>2. Len(p) \in Nat /\ (p = << >> <=> Len(p) = 0)
  BY LenProperties, EmptySeq
<1>3. m = 0
  BY <1>1, <1>2
<1>. QED  BY <1>1, <1>3

\* Otherwise the first address, and what is credited of the others.
LEMMA CreditedShift ==
  ASSUME NEW S, NEW s \in Seq(S), NEW p \in Seq(S), p # << >>, p[1] # 0
  PROVE  Append(s, p[1]) \o Credited(Tail(p)) = s \o Credited(p)
<1>1. /\ Len(p) \in Nat \ {0} /\ Tail(p) \in Seq(S) /\ Len(Tail(p)) = Len(p) - 1
      /\ \A i \in 1 .. Len(p) - 1 : Tail(p)[i] = p[i + 1]
  BY Rest
<1>2. PICK m \in 0 .. Len(p) : /\ Credited(p) = SubSeq(p, 1, m)
                               /\ \A k \in 1 .. m : p[k] # 0
                               /\ m < Len(p) => p[m + 1] = 0
  BY CreditedIs
<1>. DEFINE r == Tail(p)
<1>3. r \in Seq(S) /\ Len(r) = Len(p) - 1 /\ \A i \in 1 .. Len(p) - 1 : r[i] = p[i + 1]
  BY <1>1
<1>. HIDE DEF r
<1>4. PICK l \in 0 .. Len(r) : /\ Credited(r) = SubSeq(r, 1, l)
                               /\ \A k \in 1 .. l : r[k] # 0
                               /\ l < Len(r) => r[l + 1] = 0
  BY <1>3, CreditedIs
<1>5. m = l + 1
  <2>1. m # 0
    BY <1>1, <1>2
  <2>2. ~ (m < l + 1)
    <3>1. SUFFICES ASSUME m < l + 1 PROVE FALSE
      OBVIOUS
    <3>2. m \in 1 .. l /\ m \in 1 .. Len(p) - 1 /\ m < Len(p)
      BY <1>1, <1>2, <1>3, <1>4, <2>1, <3>1
    <3>. QED  BY <1>2, <1>3, <1>4, <3>2
  <2>3. ~ (m > l + 1)
    <3>1. SUFFICES ASSUME m > l + 1 PROVE FALSE
      OBVIOUS
    <3>2. l < Len(r) /\ l + 1 \in 1 .. Len(p) - 1 /\ (l + 1) + 1 \in 1 .. m
      BY <1>1, <1>2, <1>3, <1>4, <3>1
    <3>. QED  BY <1>2, <1>3, <1>4, <3>2
  <2>. QED  BY <1>1, <1>2, <1>3, <1>4, <2>2, <2>3
<1>. DEFINE q == SubSeq(p, 1, m)
<1>6. q \in Seq(S) /\ Len(q) = m /\ \A i \in 1 .. m : q[i] = p[i]
  BY FrontPart
<1>. HIDE DEF q
<1>7. q # << >> /\ q[1] = p[1]
  BY <1>4, <1>5, <1>6, EmptySeq
<1>8. Tail(q) = SubSeq(r, 1, l)
  <2>1. /\ Tail(q) \in Seq(S) /\ Len(Tail(q)) = m - 1
        /\ \A i \in 1 .. m - 1 : Tail(q)[i] = q[i + 1]
    BY <1>6, <1>7, Rest
  <2>. DEFINE a == Tail(q)
              b == SubSeq(r, 1, l)
  <2>2. b \in Seq(S) /\ Len(b) = l /\ \A i \in 1 .. l : b[i] = r[i]
    BY <1>3, FrontPart
  <2>3. a \in Seq(S) /\ Len(a) = l /\ \A i \in 1 .. l : a[i] = q[i + 1]
    BY <1>1, <1>4, <1>5, <2>1
  <2>. HIDE DEF a, b
  <2>4. ASSUME NEW i \in 1 .. l PROVE a[i] = b[i]
    <3>1. i + 1 \in 1 .. m /\ i \in 1 .. Len(p) - 1
      BY <1>1, <1>3, <1>4, <1>5
    <3>. QED  BY <1>3, <1>6, <2>2, <2>3, <3>1
  <2>5. a = b
    BY <2>2, <2>3, <2>4, SeqEqual
  <2>. QED  BY <2>5 DEF a, b
<1>9. Append(s, q[1]) \o Tail(q) = s \o q
  BY <1>6, <1>7, PathShift
<1>10. Credited(p) = q /\ Credited(Tail(p)) = Tail(q)
  BY <1>2, <1>4, <1>8 DEF q, r
<1>. QED  BY <1>7, <1>9, <1>10

\* A sequence of addresses is one of addresses or none.
LEMMA WiderSeq ==
  ASSUME NEW S, NEW T, S \subseteq T, NEW s \in Seq(S)
  PROVE  s \in Seq(T)
<1>1. Len(s) \in Nat /\ s = [i \in 1 .. Len(s) |-> s[i]] /\ \A i \in 1 .. Len(s) : s[i] \in S
  BY LenProperties, ElementOfSeq
<1>2. s \in [1 .. Len(s) -> T]
  BY <1>1
<1>. QED  BY <1>1, <1>2, SeqDef

\* The first job with less of its path.
LEMMA FirstShort ==
  ASSUME NEW rest \in Seq(Paths), rest # << >>, rest[1].path # << >>,
         NEW less, less = [rest EXCEPT ![1].path = Tail(@)]
  PROVE  /\ Len(rest) \in Nat \ {0} /\ DOMAIN rest = 1 .. Len(rest) /\ rest[1].path \in Seq(Ips \cup {0})
         /\ rest[1].path[1] \in Ips \cup {0}
         /\ less \in Seq(Paths) /\ less # << >> /\ Len(less) = Len(rest) /\ DOMAIN less = DOMAIN rest
         /\ less[1].path = Tail(rest[1].path) /\ less[1].metric = rest[1].metric
         /\ \A k \in DOMAIN rest : k > 1 => less[k] = rest[k]
<1>0. Len(rest) \in Nat \ {0} /\ DOMAIN rest = 1 .. Len(rest) /\ rest[1] \in Paths
  BY Rest
<1>1. /\ Len(rest) \in Nat \ {0} /\ DOMAIN rest = 1 .. Len(rest) /\ rest[1] \in Paths
      /\ rest[1].path \in Seq(Ips \cup {0}) /\ 1 \in 1 .. Len(rest)
  BY <1>0 DEF Paths
<1>2. Tail(rest[1].path) \in Seq(Ips \cup {0}) /\ rest[1].path[1] \in Ips \cup {0}
  BY <1>1, Rest
<1>3. PICK p : p = [rest[1] EXCEPT !.path = Tail(@)]
  OBVIOUS
<1>4. p \in Paths /\ p.path = Tail(rest[1].path) /\ p.metric = rest[1].metric
  BY <1>1, <1>2, <1>3 DEF Paths
<1>5. less = [rest EXCEPT ![1] = p]
  BY <1>1, <1>3
<1>6. less \in Seq(Paths) /\ DOMAIN less = DOMAIN rest /\ Len(less) = Len(rest)
  <2>1. [rest EXCEPT ![1] = p] \in Seq(Paths) /\ Len([rest EXCEPT ![1] = p]) = Len(rest)
    BY <1>1, <1>4, ExceptSeq
  <2>. QED  BY <1>5, <2>1
<1>7. less[1] = p /\ \A k \in DOMAIN rest : k > 1 => less[k] = rest[k]
  BY <1>1, <1>5
<1>8. less # << >>
  BY <1>1, <1>6, EmptySeq
<1>. QED  BY <1>1, <1>2, <1>4, <1>6, <1>7, <1>8

\* Down to the node of the next address.
LEMMA SoundDown ==
  ASSUME NEW t \in Seq(Node), Ordered(t), NEW list \in Seq(Paths), NEW rest \in Seq(Paths),
         rest # << >>, rest[1].path # << >>, rest[1].path[1] # 0,
         NEW cur \in 0 .. Len(t), Sound(t, list, TRUE, rest, cur),
         NEW here, here # 1, PathOf(t)[here] = Append(PathOf(t)[cur], rest[1].path[1]),
         NEW less, less = [rest EXCEPT ![1].path = Tail(@)]
  PROVE  Sound(t, list, TRUE, less, here)
<1>. DEFINE n == Len(list) - Len(rest)
<1>1. /\ Len(rest) \in Nat \ {0} /\ DOMAIN rest = 1 .. Len(rest) /\ rest[1].path \in Seq(Ips \cup {0})
      /\ less \in Seq(Paths) /\ less # << >> /\ Len(less) = Len(rest) /\ DOMAIN less = DOMAIN rest
      /\ less[1].path = Tail(rest[1].path) /\ less[1].metric = rest[1].metric
      /\ \A k \in DOMAIN rest : k > 1 => less[k] = rest[k]
  BY ZenonT(60), FirstShort
<1>2. /\ n \in Nat
      /\ IF t = << >> THEN list = << >> ELSE t[1].ip = 0
      /\ \A i \in DOMAIN t : t[i].metric = Sums(list, PathOf(t)[i])[n]
      /\ \A k \in 1 .. n : list[k].path # << >> => \E i \in DOMAIN t : Passes(list[k], PathOf(t)[i])
      /\ \A k \in DOMAIN rest : rest[k].metric = list[n + k].metric
      /\ \A k \in DOMAIN rest : k > 1 => rest[k].path = list[n + k].path
      /\ Leads(t, cur, rest[1].path, list[n + 1].path)
  BY DEF Sound, SoundAt
<1>3. Len(list) - Len(less) = n
  BY <1>1
<1>. HIDE DEF n
<1>4. PathOf(t)[here] \o Credited(less[1].path) = PathOf(t)[cur] \o Credited(rest[1].path)
  <2>. DEFINE S == Ips \cup {0}
              a == PathOf(t)[cur]
              p == rest[1].path
  <2>1. a \in Seq(S)
    BY PathType
  <2>2. p \in Seq(S) /\ p # << >> /\ p[1] # 0
    BY <1>1
  <2>3. PathOf(t)[here] = Append(a, p[1]) /\ less[1].path = Tail(p)
    BY <1>1
  <2>. HIDE DEF S, a, p
  <2>4. Append(a, p[1]) \o Credited(Tail(p)) = a \o Credited(p)
    BY <2>1, <2>2, CreditedShift
  <2>. QED  BY <2>3, <2>4 DEF a, p
<1>5. Leads(t, here, less[1].path, list[n + 1].path)
  BY <1>2, <1>4 DEF Leads
<1>6. ASSUME NEW k \in DOMAIN less
      PROVE  less[k].metric = list[n + k].metric /\ (k > 1 => less[k].path = list[n + k].path)
  <2>1. k = 1 \/ k > 1
    BY <1>1
  <2>2. k \in DOMAIN rest
    BY <1>1
  <2>. QED  BY <1>1, <1>2, <2>1, <2>2
<1>7. Sound(t, list, TRUE, less, here)
  <2>1. SoundAt(t, list, TRUE, less, here, n)
    BY <1>2, <1>5, <1>6 DEF SoundAt
  <2>. QED  BY <1>3, <2>1 DEF Sound
<1>. QED  BY <1>7

\* The tree u is t with a node d more, below the node a job has come to, which has none
\* with the address of d.
Grows(t, list, rest, cur, d, u, c) ==
  /\ t \in Seq(Node) /\ Ordered(t) /\ Distinct(t)
  /\ list \in Seq(Paths) /\ rest \in Seq(Paths) /\ rest # << >>
  /\ cur \in DOMAIN t /\ Sound(t, list, TRUE, rest, cur)
  /\ d \in Node /\ d.up = cur /\ d.metric = 0
  /\ \A i \in DOMAIN t : ~ (t[i].up = cur /\ t[i].ip = d.ip)
  /\ u = Append(t, d) /\ c = Len(t) + 1

\* A path that goes on from another.
GoesOn(u, c, cur, ip) == PathOf(u)[c] = Append(PathOf(u)[cur], ip)

\* Nothing else has the path of the new node, no job done has it, and so its metric is 0.
LEMMA SoundGrown ==
  ASSUME NEW t, NEW list, NEW rest, NEW cur, NEW d, NEW u, NEW c,
         Grows(t, list, rest, cur, d, u, c)
  PROVE  /\ u \in Seq(Node) /\ Ordered(u) /\ Distinct(u) /\ Sound(u, list, TRUE, rest, cur)
         /\ GoesOn(u, c, cur, d.ip)
<1>0. /\ t \in Seq(Node) /\ Ordered(t) /\ Distinct(t)
      /\ list \in Seq(Paths) /\ rest \in Seq(Paths) /\ rest # << >>
      /\ cur \in DOMAIN t /\ Sound(t, list, TRUE, rest, cur)
      /\ d \in Node /\ d.up = cur /\ d.metric = 0
      /\ \A i \in DOMAIN t : ~ (t[i].up = cur /\ t[i].ip = d.ip)
      /\ u = Append(t, d) /\ c = Len(t) + 1
  BY DEF Grows
<1>. USE <1>0
<1>. DEFINE L == Len(t)
            n == Len(list) - Len(rest)
<1>1. /\ u \in Seq(Node) /\ L \in Nat /\ Len(u) = L + 1 /\ DOMAIN t = 1 .. L
      /\ DOMAIN u = DOMAIN t \cup {L + 1} /\ \A i \in DOMAIN t : u[i] = t[i]
      /\ u[L + 1] = d
  BY Appended
<1>2. /\ n \in Nat
      /\ IF t = << >> THEN list = << >> ELSE t[1].ip = 0
      /\ \A i \in DOMAIN t : t[i].metric = Sums(list, PathOf(t)[i])[n]
      /\ \A k \in 1 .. n : list[k].path # << >> => \E i \in DOMAIN t : Passes(list[k], PathOf(t)[i])
      /\ \A k \in DOMAIN rest : rest[k].metric = list[n + k].metric
      /\ \A k \in DOMAIN rest : k > 1 => rest[k].path = list[n + k].path
      /\ Leads(t, cur, rest[1].path, list[n + 1].path)
  BY DEF Sound, SoundAt
<1>3. /\ n = Len(list) - Len(rest) /\ n <= Len(list) /\ 1 \in DOMAIN t /\ cur \in 1 .. L
      /\ t # << >> /\ L + 1 # 1
  <2>1. Len(list) \in Nat /\ Len(rest) \in Nat
    BY LenProperties
  <2>2. cur \in 1 .. L
    BY <1>1
  <2>3. t # << >>
    BY <1>1, <2>2
  <2>. QED  BY <1>1, <2>1, <2>2, <2>3
<1>. HIDE DEF L, n
<1>4. Ordered(u)
  <2>1. ASSUME NEW i \in DOMAIN u PROVE IF i = 1 THEN u[i].up = 0 ELSE u[i].up \in 1 .. i - 1
    <3>1. CASE i \in DOMAIN t
      BY <1>1, <3>1 DEF Ordered
    <3>2. CASE i = L + 1
      BY <1>1, <1>3, <3>2
    <3>. QED  BY <1>1, <3>1, <3>2
  <2>. QED  BY <2>1 DEF Ordered
<1>5. Distinct(u)
  <2>1. ASSUME NEW i \in DOMAIN u, NEW k \in DOMAIN u, u[i].up = u[k].up, u[i].ip = u[k].ip PROVE i = k
    <3>1. CASE i \in DOMAIN t /\ k \in DOMAIN t
      BY <1>1, <2>1, <3>1 DEF Distinct
    <3>2. CASE i = L + 1 /\ k \in DOMAIN t
      BY <1>1, <2>1, <3>2
    <3>3. CASE i \in DOMAIN t /\ k = L + 1
      BY <1>1, <2>1, <3>3
    <3>. QED  BY <1>1, <3>1, <3>2, <3>3
  <2>. QED  BY <2>1 DEF Distinct
<1>6. \A i \in 0 .. L : PathOf(t)[i] = PathOf(u)[i]
  <2>1. L <= Len(t) /\ L <= Len(u) /\ \A i \in 1 .. L : t[i].up = u[i].up /\ t[i].ip = u[i].ip
    BY <1>1 DEF L
  <2>. QED  BY <1>1, <1>4, <2>1, PathsSame
<1>7. PathOf(u)[cur] = PathOf(t)[cur] /\ \A i \in DOMAIN t : PathOf(u)[i] = PathOf(t)[i]
  BY <1>1, <1>3, <1>6
<1>8. PathOf(u)[L + 1] = Append(PathOf(u)[cur], d.ip)
  <2>1. L + 1 \in DOMAIN u /\ u[L + 1].up = cur /\ u[L + 1].ip = d.ip
    BY <1>1
  <2>2. PathOf(u)[L + 1] = Append(PathOf(u)[u[L + 1].up], u[L + 1].ip)
    BY <1>1, <1>4, <2>1, PathUnfold
  <2>. QED  BY <2>1, <2>2
<1>9. ASSUME NEW i \in DOMAIN u PROVE u[i].metric = Sums(list, PathOf(u)[i])[n]
  <2>1. CASE i \in DOMAIN t
    BY <1>1, <1>2, <1>7, <2>1
  <2>2. CASE i = L + 1
    <3>1. ASSUME NEW k \in 1 .. n, Passes(list[k], PathOf(u)[L + 1]) PROVE FALSE
      <4>1. PICK j \in DOMAIN t : Passes(list[k], PathOf(t)[j])
        BY <1>2, <3>1 DEF Passes
      <4>2. j \in 0 .. Len(u) /\ L + 1 \in 0 .. Len(u) /\ j # L + 1
        BY <1>1
      <4>3. PathOf(u)[j] # PathOf(u)[L + 1]
        BY <1>1, <1>4, <1>5, <4>2, PathsDiffer
      <4>. QED  BY <1>7, <3>1, <4>1, <4>3 DEF Passes
    <3>2. Sums(list, PathOf(u)[L + 1])[n] = 0
      BY ZenonT(60), <1>2, <1>3, <3>1, SumsZero
    <3>. QED  BY <1>1, <2>2, <3>2
  <2>. QED  BY <1>1, <2>1, <2>2
<1>10. \A k \in 1 .. n : list[k].path # << >> => \E i \in DOMAIN u : Passes(list[k], PathOf(u)[i])
  <2>1. SUFFICES ASSUME NEW k \in 1 .. n, list[k].path # << >>
                 PROVE  \E i \in DOMAIN u : Passes(list[k], PathOf(u)[i])
    OBVIOUS
  <2>2. PICK j \in DOMAIN t : Passes(list[k], PathOf(t)[j])
    BY <1>2, <2>1
  <2>3. j \in DOMAIN u /\ Passes(list[k], PathOf(u)[j])
    BY <1>1, <1>7, <2>2
  <2>. QED  BY <2>3
<1>11. IF u = << >> THEN list = << >> ELSE u[1].ip = 0
  <2>1. u # << >>
    BY <1>1, EmptySeq
  <2>. QED  BY <1>1, <1>2, <1>3, <2>1
<1>12. Leads(u, cur, rest[1].path, list[n + 1].path)
  BY <1>2, <1>7 DEF Leads
<1>13. Sound(u, list, TRUE, rest, cur)
  <2>1. SoundAt(u, list, TRUE, rest, cur, n)
    BY <1>2, <1>9, <1>10, <1>11, <1>12 DEF SoundAt
  <2>. QED  BY <1>3, <2>1 DEF Sound
<1>. QED  BY <1>1, <1>4, <1>5, <1>8, <1>13 DEF L, GoesOn

\* Places, addresses and metrics are all that counts.
LEMMA SoundLike ==
  ASSUME NEW t \in Seq(Node), Ordered(t), NEW u \in Seq(Node), DOMAIN u = DOMAIN t,
         \A i \in DOMAIN t : u[i].up = t[i].up /\ u[i].ip = t[i].ip
  PROVE  /\ Ordered(u) /\ Len(u) = Len(t)
         /\ Distinct(t) => Distinct(u)
         /\ \A i \in DOMAIN t : PathOf(u)[i] = PathOf(t)[i]
<1>1. /\ Len(t) \in Nat /\ DOMAIN t = 1 .. Len(t) /\ Len(u) \in Nat /\ DOMAIN u = 1 .. Len(u)
  BY LenProperties
<1>2. Len(u) = Len(t)
  BY <1>1, SameInterval
<1>3. Ordered(u)
  BY DEF Ordered
<1>4. Distinct(t) => Distinct(u)
  BY DEF Distinct
<1>5. \A i \in 0 .. Len(t) : PathOf(t)[i] = PathOf(u)[i]
  <2>1. Len(t) <= Len(t) /\ Len(t) <= Len(u) /\ \A i \in 1 .. Len(t) : t[i].up = u[i].up /\ t[i].ip = u[i].ip
    BY <1>1, <1>2
  <2>. QED  BY <1>1, <1>3, <2>1, PathsSame
<1>6. \A i \in DOMAIN t : i \in 0 .. Len(t)
  BY <1>1
<1>. QED  BY <1>2, <1>3, <1>4, <1>5, <1>6

\* The tree u is t with the metric of the job at hand on the node it has come to, or t
\* when its list of handles is empty.
Pays(t, list, rest, cur, skip, u) ==
  /\ t \in Seq(Node) /\ Ordered(t) /\ Distinct(t)
  /\ list \in Seq(Paths) /\ rest \in Seq(Paths) /\ rest # << >> /\ skip \in BOOLEAN
  /\ IF rest[1].path = << >> THEN skip <=> cur = 1 ELSE ~ skip /\ rest[1].path[1] = 0
  /\ cur \in DOMAIN t /\ Sound(t, list, TRUE, rest, cur)
  /\ u \in Seq(Node) /\ DOMAIN u = DOMAIN t
  /\ \A i \in DOMAIN t : /\ u[i].up = t[i].up /\ u[i].ip = t[i].ip
                         /\ u[i].metric = IF i = cur /\ ~ skip THEN t[i].metric + rest[1].metric
                                          ELSE t[i].metric

\* The job is done then: its path is that of the node, and of no other.
LEMMA SoundPaid ==
  ASSUME NEW t, NEW list, NEW rest, NEW cur, NEW skip, NEW u, Pays(t, list, rest, cur, skip, u)
  PROVE  Distinct(u) /\ Sound(u, list, TRUE, Tail(rest), 1)
<1>0. /\ t \in Seq(Node) /\ Ordered(t) /\ Distinct(t)
      /\ list \in Seq(Paths) /\ rest \in Seq(Paths) /\ rest # << >> /\ skip \in BOOLEAN
      /\ IF rest[1].path = << >> THEN skip <=> cur = 1 ELSE ~ skip /\ rest[1].path[1] = 0
      /\ cur \in DOMAIN t /\ Sound(t, list, TRUE, rest, cur)
      /\ u \in Seq(Node) /\ DOMAIN u = DOMAIN t
      /\ \A i \in DOMAIN t : /\ u[i].up = t[i].up /\ u[i].ip = t[i].ip
                             /\ u[i].metric = IF i = cur /\ ~ skip THEN t[i].metric + rest[1].metric
                                              ELSE t[i].metric
  BY DEF Pays
<1>. USE <1>0
<1>. DEFINE n == Len(list) - Len(rest)
            left == Tail(rest)
<1>1. /\ left \in Seq(Paths) /\ Len(left) = Len(rest) - 1 /\ DOMAIN left = 1 .. Len(rest) - 1
      /\ DOMAIN rest = 1 .. Len(rest) /\ Len(rest) \in Nat \ {0}
      /\ \A k \in DOMAIN left : left[k] = rest[k + 1]
  BY Rest
<1>2. /\ n \in Nat
      /\ IF t = << >> THEN list = << >> ELSE t[1].ip = 0
      /\ \A i \in DOMAIN t : t[i].metric = Sums(list, PathOf(t)[i])[n]
      /\ \A k \in 1 .. n : list[k].path # << >> => \E i \in DOMAIN t : Passes(list[k], PathOf(t)[i])
      /\ \A k \in DOMAIN rest : rest[k].metric = list[n + k].metric
      /\ \A k \in DOMAIN rest : k > 1 => rest[k].path = list[n + k].path
      /\ Leads(t, cur, rest[1].path, list[n + 1].path)
  BY DEF Sound, SoundAt
<1>3. /\ Len(list) - Len(left) = n + 1 /\ n + 1 <= Len(list) /\ Len(list) \in Nat
      /\ n \in Nat /\ n + 1 \in Nat /\ 1 \in DOMAIN rest
  BY <1>1, <1>2, LenProperties
<1>. HIDE DEF n, left
<1>4. /\ Ordered(u) /\ Len(u) = Len(t) /\ Distinct(u)
      /\ \A i \in DOMAIN t : PathOf(u)[i] = PathOf(t)[i]
  BY SoundLike
<1>5. /\ DOMAIN t = 1 .. Len(t) /\ Len(t) \in Nat /\ t # << >> /\ 1 \in DOMAIN t
      /\ \A i \in DOMAIN t : i \in 0 .. Len(t) /\ t[i].metric \in Int
  <2>1. DOMAIN t = 1 .. Len(t) /\ Len(t) \in Nat
    BY LenProperties
  <2>2. cur \in 1 .. Len(t)
    BY <2>1
  <2>3. \A i \in DOMAIN t : t[i] \in Node
    BY <2>1, ElementOfSeq
  <2>4. \A i \in DOMAIN t : t[i].metric \in Int
    BY <2>3 DEF Node
  <2>. QED  BY <2>1, <2>2, <2>4
<1>6. PathOf(t)[cur] = <<0>> \o Credited(list[n + 1].path) /\ (list[n + 1].path = << >> <=> skip)
  <2>. DEFINE S == Ips \cup {0}
              a == PathOf(t)[cur]
              p == rest[1].path
  <2>1. a \in Seq(S)
    BY <1>5, PathType
  <2>2. p \in Seq(S) /\ (p # << >> => p[1] = 0)
    <3>1. rest[1] \in Paths
      BY Rest
    <3>. QED  BY <3>1 DEF Paths
  <2>. HIDE DEF S, a, p
  <2>3. a \o << >> = a
    BY <2>1, ConcatEmptySeq
  <2>4. Credited(p) = << >>
    BY <2>2, CreditedNone
  <2>5. /\ a \o Credited(p) = <<0>> \o Credited(list[n + 1].path)
        /\ list[n + 1].path = << >> <=> p = << >> /\ cur = 1
    BY <1>2 DEF Leads, a, p
  <2>6. p = << >> /\ cur = 1 <=> skip
    BY DEF p
  <2>7. a = <<0>> \o Credited(list[n + 1].path)
    BY <2>3, <2>4, <2>5
  <2>. QED  BY <2>5, <2>6, <2>7 DEF a
<1>7. rest[1].metric = list[n + 1].metric
  BY <1>2, <1>3
<1>8. ASSUME NEW i \in DOMAIN u PROVE u[i].metric = Sums(list, PathOf(u)[i])[n + 1]
  <2>1. Sums(list, PathOf(t)[i])[n + 1] = Sums(list, PathOf(t)[i])[n] + Share(list, PathOf(t)[i], n + 1)
    BY <1>2, <1>3, SumsUnfold
  <2>2. CASE i = cur /\ ~ skip
    <3>1. Share(list, PathOf(t)[i], n + 1) = rest[1].metric
      BY <1>6, <1>7, <2>2 DEF Share, Passes
    <3>. QED  BY <1>2, <1>4, <2>1, <2>2, <3>1
  <2>3. CASE i # cur \/ skip
    <3>1. i # cur => PathOf(t)[i] # PathOf(t)[cur]
      BY <1>5, PathsDiffer
    <3>2. Share(list, PathOf(t)[i], n + 1) = 0
      BY <1>6, <2>3, <3>1 DEF Share, Passes
    <3>3. t[i].metric \in Int
      BY <1>5
    <3>4. t[i].metric = Sums(list, PathOf(t)[i])[n] /\ u[i].metric = t[i].metric
      BY <1>2, <2>3
    <3>. QED  BY <1>4, <2>1, <3>2, <3>3, <3>4
  <2>. QED  BY <2>2, <2>3
<1>9. ASSUME NEW k \in 1 .. n + 1, list[k].path # << >>
      PROVE  \E i \in DOMAIN u : Passes(list[k], PathOf(u)[i])
  <2>1. CASE k \in 1 .. n
    <3>1. PICK j \in DOMAIN t : Passes(list[k], PathOf(t)[j])
      BY <1>2, <1>9, <2>1
    <3>. QED  BY <1>4, <3>1
  <2>2. CASE k = n + 1
    <3>1. cur \in DOMAIN u /\ Passes(list[k], PathOf(u)[cur])
      BY <1>4, <1>6, <1>9, <2>2 DEF Passes
    <3>. QED  BY <3>1
  <2>3. k \in 1 .. n \/ k = n + 1
    BY <1>3
  <2>. QED  BY <2>1, <2>2, <2>3
<1>10. ASSUME NEW k \in DOMAIN left
       PROVE  left[k].metric = list[(n + 1) + k].metric /\ left[k].path = list[(n + 1) + k].path
  <2>0. k \in 1 .. Len(rest) - 1 /\ Len(rest) \in Nat /\ n \in Nat
    BY <1>1, <1>3
  <2>2. k + 1 \in 1 .. Len(rest) /\ k + 1 > 1 /\ n + (k + 1) = (n + 1) + k
    BY <2>0
  <2>1. k + 1 \in DOMAIN rest /\ k + 1 > 1 /\ n + (k + 1) = (n + 1) + k /\ left[k] = rest[k + 1]
    BY <1>1, <2>2
  <2>. QED  BY <1>2, <2>1
<1>11. left # << >> => Leads(u, 1, left[1].path, list[(n + 1) + 1].path)
  <2>1. SUFFICES ASSUME left # << >> PROVE Leads(u, 1, left[1].path, list[(n + 1) + 1].path)
    OBVIOUS
  <2>2. 1 \in DOMAIN left
    BY <1>1, <2>1, EmptySeq
  <2>3. PathOf(t)[1] = <<0>> /\ PathOf(u)[1] = PathOf(t)[1]
    BY <1>2, <1>4, <1>5, RootPath
  <2>. QED  BY <1>10, <2>2, <2>3 DEF Leads
<1>12. IF u = << >> THEN list = << >> ELSE u[1].ip = 0
  <2>1. u # << >>
    BY <1>4, <1>5, EmptySeq
  <2>. QED  BY <1>2, <1>5, <2>1
<1>13. SoundAt(u, list, TRUE, left, 1, n + 1)
  BY <1>3, <1>8, <1>9, <1>10, <1>11, <1>12 DEF SoundAt
<1>14. Sound(u, list, TRUE, left, 1)
  BY <1>3, <1>13 DEF Sound
<1>. QED  BY <1>4, <1>14 DEF left

\* A call to build ends with the tree u: t, except for ids.
Ends(t, list, cur, u) ==
  /\ t \in Seq(Node) /\ Ordered(t) /\ Distinct(t) /\ list \in Seq(Paths)
  /\ Sound(t, list, TRUE, << >>, cur)
  /\ u \in Seq(Node) /\ DOMAIN u = DOMAIN t
  /\ \A i \in DOMAIN t : u[i].up = t[i].up /\ u[i].ip = t[i].ip /\ u[i].metric = t[i].metric

\* No job is left.
LEMMA SoundEnd ==
  ASSUME NEW t, NEW list, NEW cur, NEW rest2, NEW cur2, NEW u, Ends(t, list, cur, u)
  PROVE  Distinct(u) /\ Sound(u, list, FALSE, rest2, cur2)
<1>0. /\ t \in Seq(Node) /\ Ordered(t) /\ Distinct(t) /\ list \in Seq(Paths)
      /\ Sound(t, list, TRUE, << >>, cur)
      /\ u \in Seq(Node) /\ DOMAIN u = DOMAIN t
      /\ \A i \in DOMAIN t : u[i].up = t[i].up /\ u[i].ip = t[i].ip /\ u[i].metric = t[i].metric
  BY DEF Ends
<1>. USE <1>0
<1>. DEFINE n == Len(list)
<1>1. n \in Nat /\ Len(list) - Len(<< >>) = n
  BY LenProperties, EmptySeq
<1>2. /\ Ordered(u) /\ Len(u) = Len(t) /\ Distinct(u)
      /\ \A i \in DOMAIN t : PathOf(u)[i] = PathOf(t)[i]
  BY SoundLike
<1>3. /\ t # << >> <=> 1 \in DOMAIN t
      /\ u # << >> <=> 1 \in DOMAIN u
  BY LenProperties, EmptySeq
<1>. HIDE DEF n
<1>4. SoundAt(t, list, TRUE, << >>, cur, n)
  BY <1>1 DEF Sound
<1>5. /\ IF t = << >> THEN list = << >> ELSE t[1].ip = 0
      /\ \A i \in DOMAIN t : t[i].metric = Sums(list, PathOf(t)[i])[n]
      /\ \A k \in 1 .. n : list[k].path # << >> => \E i \in DOMAIN t : Passes(list[k], PathOf(t)[i])
  BY <1>4, Zenon DEF SoundAt
<1>6. SoundAt(u, list, FALSE, rest2, cur2, n)
  <2>1. \A i \in DOMAIN u : u[i].metric = Sums(list, PathOf(u)[i])[n]
    BY <1>2, <1>5
  <2>2. ASSUME NEW k \in 1 .. n, list[k].path # << >> PROVE \E i \in DOMAIN u : Passes(list[k], PathOf(u)[i])
    BY <1>2, <1>5, <2>2
  <2>3. IF u = << >> THEN list = << >> ELSE u[1].ip = 0
    BY <1>3, <1>5
  <2>. QED  BY <1>1, <2>1, <2>2, <2>3 DEF SoundAt
<1>. QED  BY <1>2, <1>6 DEF Sound, n
-----------------------------------------------------------------------------
(* AttributionInv is inductive, given FormatInv.                           *)

\* What FormatInv says of a tree, before a step and behind it.
LEMMA TreeFacts ==
  ASSUME FormatInv, NEW x \in Writers
  PROVE  /\ TypeInv /\ TreeInv /\ Placed(x) /\ w[x] \in Writer
         /\ tree[x] \in Seq(Node) /\ Ordered(tree[x])
         /\ DOMAIN tree[x] = 1 .. Len(tree[x]) /\ Len(tree[x]) \in Nat
<1>1. /\ TypeInv /\ TreeInv /\ Placed(x) /\ w[x] \in Writer /\ tree[x] \in Seq(Node)
      /\ DOMAIN tree[x] = 1 .. Len(tree[x]) /\ Len(tree[x]) \in Nat
  BY Types DEF FormatInv, TypeInv
<1>2. Ordered(tree[x])
  BY <1>1 DEF TreeInv, TreeOK, Ordered
<1>. QED  BY <1>1, <1>2

\* The tree behind a step is a sequence of nodes.
LEMMA TreeTypeBehind ==
  ASSUME FormatInv', NEW x \in Writers
  PROVE  tree'[x] \in Seq(Node)
BY DEF FormatInv, TypeInv

\* A node made with a positive id, the root or one below a node.
LEMMA NewNodeIs ==
  ASSUME TypeInv, NEW x \in Writers, NEW ip \in Ips \cup {0}, NEW up \in Nat,
         up = 0 \/ up \in DOMAIN tree[x], NEW d, d = NewNode(x, ip, up, 1, 0)
  PROVE  d \in Node /\ d.ip = ip /\ d.up = up /\ d.metric = 0
<1>1. PICK id, parent : id = 1 * NewId /\ parent = IF up = 0 THEN 0 ELSE tree[x][up].id
  OBVIOUS
<1>2. d = [ip |-> ip, up |-> up, id |-> id, metric |-> 0, parent |-> parent]
  BY <1>1, Zenon DEF NewNode
<1>3. id \in Int
  BY <1>1 DEF TypeInv, NewId
<1>4. parent \in Int
  <2>1. tree[x] \in Seq(Node)
    BY DEF TypeInv
  <2>2. up \in DOMAIN tree[x] => tree[x][up] \in Node
    BY <2>1, LenProperties, ElementOfSeq
  <2>3. up \in DOMAIN tree[x] => tree[x][up].id \in Int
    BY <2>2 DEF Node
  <2>. QED  BY <1>1, <2>3
<1>5. d \in Node
  BY <1>2, <1>3, <1>4 DEF Node
<1>. QED  BY <1>2, <1>5

\* The root, in particular.
LEMMA NewRootIs ==
  ASSUME TypeInv, NEW x \in Writers, NEW d, d = NewNode(x, 0, 0, 1, 0)
  PROVE  d \in Node /\ d.ip = 0 /\ d.up = 0 /\ d.metric = 0
<1>1. PICK ip \in Ips \cup {0}, up \in Nat : ip = 0 /\ up = 0
  OBVIOUS
<1>2. d = NewNode(x, ip, up, 1, 0)
  BY <1>1
<1>3. d \in Node /\ d.ip = ip /\ d.up = up /\ d.metric = 0
  BY <1>1, <1>2, NewNodeIs
<1>. QED  BY <1>1, <1>3

\* A step of one writer that keeps its part of the invariant.
LEMMA AttributionStep ==
  ASSUME FormatInv, AttributionInv, NEW x \in Writers,
         NEW tx, tree' = [tree EXCEPT ![x] = tx], Distinct(tx),
         NEW wx, w' = [w EXCEPT ![x] = wx],
         NEW ax \in Seq(Paths), asked' = [asked EXCEPT ![x] = ax],
         Mode[x] = "custom" => Sound(tx, ax, wx.pc = "insert", wx.todo, wx.cur)
  PROVE  AttributionInv'
<1>1. /\ tree'[x] = tx /\ w'[x] = wx /\ asked'[x] = ax
      /\ asked' \in [Writers -> Seq(Paths)]
      /\ \A y \in Writers \ {x} : tree'[y] = tree[y] /\ w'[y] = w[y] /\ asked'[y] = asked[y]
  BY DEF FormatInv, TypeInv, AttributionInv
<1>2. ASSUME NEW y \in Writers PROVE Distinct(tree[y])' /\ (Mode[y] = "custom" => Attributed(y)')
  <2>1. CASE y = x
    BY <1>1, <2>1, SoundIs
  <2>2. CASE y # x
    <3>1. Distinct(tree[y]) /\ (Mode[y] = "custom" => Attributed(y))
      BY DEF AttributionInv
    <3>2. tree'[y] = tree[y] /\ w'[y] = w[y] /\ asked'[y] = asked[y]
      BY <1>1, <2>2
    <3>. QED  BY <3>1, <3>2, SoundIs
  <2>. QED  BY <2>1, <2>2
<1>. QED  BY <1>1, <1>2 DEF AttributionInv

\* What the invariant says of a writer that does not build, and of one that does.
LEMMA SoundNow ==
  ASSUME FormatInv, AttributionInv, NEW x \in Writers
  PROVE  /\ Distinct(tree[x]) /\ asked[x] \in Seq(Paths)
         /\ Mode[x] = "custom" =>
              Sound(tree[x], asked[x], w[x].pc = "insert", w[x].todo, w[x].cur)
<1>1. Distinct(tree[x]) /\ asked[x] \in Seq(Paths) /\ (Mode[x] = "custom" => Attributed(x))
  BY DEF AttributionInv
<1>. QED  BY <1>1, SoundIs

\* Steps that neither build nor merge.
LEMMA AttributionKept ==
  ASSUME FormatInv, AttributionInv, UNCHANGED <<tree, asked>>,
         \A y \in Writers : w'[y] = w[y] \/ (w[y].pc # "insert" /\ w'[y].pc # "insert")
  PROVE  AttributionInv'
<1>1. ASSUME NEW y \in Writers PROVE Distinct(tree[y])' /\ (Mode[y] = "custom" => Attributed(y)')
  <2>1. Distinct(tree[y]) /\ (Mode[y] = "custom" => Attributed(y))
    BY DEF AttributionInv
  <2>2. Distinct(tree[y])'
    BY <2>1, SoundIs
  <2>3. ASSUME Mode[y] = "custom" PROVE Attributed(y)'
    <3>1. Sound(tree[y], asked[y], w[y].pc = "insert", w[y].todo, w[y].cur)
      BY <2>1, <2>3, SoundIs
    <3>2. Sound(tree[y], asked[y], w'[y].pc = "insert", w'[y].todo, w'[y].cur)
      <4>1. CASE w'[y] = w[y]
        BY SMTT(60), <3>1, <4>1
      <4>2. CASE w[y].pc # "insert" /\ w'[y].pc # "insert"
        BY <3>1, <4>2 DEF Sound, SoundAt
      <4>. QED  BY <4>1, <4>2
    <3>. QED  BY <3>2, SoundIs
  <2>. QED  BY <2>2, <2>3
<1>. QED  BY <1>1 DEF AttributionInv

\* build_thread_custom_cct_hpurun_format: jobs behind those done, or the first ones.
LEMMA BuildAttr ==
  ASSUME FormatInv, AttributionInv, NEW x \in Writers, NEW list \in Selections[x], Build(x, list)
  PROVE  AttributionInv'
<1>1. /\ TypeInv /\ TreeInv /\ w[x] \in Writer /\ tree[x] \in Seq(Node) /\ Ordered(tree[x])
  BY TreeFacts
<1>2. PICK wx : wx = [w[x] EXCEPT !.pc = "insert", !.todo = list, !.cur = 1, !.builds = @ + 1]
  OBVIOUS
<1>3. /\ w[x].pc = "idle" /\ Mode[x] = "custom"
      /\ w' = [w EXCEPT ![x] = wx]
      /\ asked' = [asked EXCEPT ![x] = asked[x] \o list]
      /\ IF tree[x] = << >> THEN Construct(x, 0, 0, 1, 0) ELSE UNCHANGED treeVars
  BY <1>2 DEF Build
<1>4. list \in Seq(Paths)
  BY ListsAssumption DEF Paths
<1>5. wx.pc = "insert" /\ wx.todo = list /\ wx.cur = 1
  BY <1>1, <1>2 DEF Writer
<1>6. Distinct(tree[x]) /\ asked[x] \in Seq(Paths) /\ Sound(tree[x], asked[x], FALSE, w[x].todo, w[x].cur)
  <2>1. ~ (w[x].pc = "insert")
    BY <1>3
  <2>. QED  BY <1>3, <2>1, SoundNow
<1>7. asked[x] \o list \in Seq(Paths)
  BY <1>4, <1>6, JobsAppended
<1>8. CASE tree[x] = << >>
  <2>1. asked[x] = << >>
    <3>1. SoundAt(tree[x], asked[x], FALSE, w[x].todo, w[x].cur, Len(asked[x]))
      BY <1>6 DEF Sound
    <3>. QED  BY <1>8, <3>1 DEF SoundAt
  <2>2. asked[x] \o list = list
    BY <1>4, <2>1, ConcatEmptySeq
  <2>3. PICK r : r = NewNode(x, 0, 0, 1, 0)
    OBVIOUS
  <2>4. r \in Node /\ r.ip = 0 /\ r.up = 0 /\ r.metric = 0
    BY <1>1, <2>3, NewRootIs
  <2>5. tree' = [tree EXCEPT ![x] = <<r>>]
    <3>1. tree' = [tree EXCEPT ![x] = Append(@, r)]
      BY <1>3, <1>8, <2>3 DEF Construct
    <3>2. Append(<< >>, r) = <<r>>
      OBVIOUS
    <3>. QED  BY <1>8, <3>1, <3>2
  <2>6. Distinct(<<r>>) /\ Sound(<<r>>, list, TRUE, list, 1)
    BY <1>4, <2>4, SoundFresh
  <2>7. Sound(<<r>>, asked[x] \o list, wx.pc = "insert", wx.todo, wx.cur)
    BY <1>5, <2>2, <2>6
  <2>. QED  BY <1>3, <1>7, <2>5, <2>6, <2>7, AttributionStep
<1>9. CASE tree[x] # << >>
  <2>1. tree' = [tree EXCEPT ![x] = tree[x]]
    BY <1>1, <1>3, <1>9 DEF treeVars, TypeInv
  <2>2. Sound(tree[x], asked[x] \o list, TRUE, list, 1)
    BY <1>1, <1>4, <1>6, <1>9, SoundBegun
  <2>3. Sound(tree[x], asked[x] \o list, wx.pc = "insert", wx.todo, wx.cur)
    BY <1>5, <2>2
  <2>. QED  BY <1>3, <1>6, <1>7, <2>1, <2>3, AttributionStep
<1>. QED  BY <1>8, <1>9

\* build_progress_custom_cct_hpurun_format: only these jobs.
LEMMA BuildAnewAttr ==
  ASSUME FormatInv, AttributionInv, NEW x \in Writers, NEW list \in Selections[x], BuildAnew(x, list)
  PROVE  AttributionInv'
<1>1. TypeInv /\ TreeInv /\ w[x] \in Writer
  BY TreeFacts
<1>2. PICK wx, r : /\ wx = [w[x] EXCEPT !.pc = "insert", !.todo = list, !.cur = 1, !.builds = @ + 1]
                   /\ r = NewNode(x, 0, 0, 1, 0)
  OBVIOUS
<1>3. /\ w' = [w EXCEPT ![x] = wx] /\ asked' = [asked EXCEPT ![x] = list]
      /\ tree' = [tree EXCEPT ![x] = <<r>>]
  BY <1>2 DEF BuildAnew
<1>4. list \in Seq(Paths)
  BY ListsAssumption DEF Paths
<1>5. wx.pc = "insert" /\ wx.todo = list /\ wx.cur = 1
  BY <1>1, <1>2 DEF Writer
<1>6. r \in Node /\ r.ip = 0 /\ r.up = 0 /\ r.metric = 0
  BY <1>1, <1>2, NewRootIs
<1>7. Distinct(<<r>>) /\ Sound(<<r>>, list, TRUE, list, 1)
  BY <1>4, <1>6, SoundFresh
<1>8. Sound(<<r>>, list, wx.pc = "insert", wx.todo, wx.cur)
  BY <1>5, <1>7
<1>. QED  BY <1>3, <1>4, <1>7, <1>8, AttributionStep

\* hpcrun_insert_path: down by an address, to a node that is there or a new one.
LEMMA InsertIPAttr ==
  ASSUME FormatInv, AttributionInv, NEW x \in Writers, InsertIP(x)
  PROVE  AttributionInv'
<1>1. /\ TypeInv /\ TreeInv /\ Placed(x) /\ w[x] \in Writer
      /\ tree[x] \in Seq(Node) /\ Ordered(tree[x])
      /\ DOMAIN tree[x] = 1 .. Len(tree[x]) /\ Len(tree[x]) \in Nat
  BY TreeFacts
<1>2. PICK t, rest, ip, cur, same :
        /\ t = tree[x] /\ rest = w[x].todo /\ cur = w[x].cur
        /\ ip = rest[1].path[1] /\ same = SameIP(x, ip, cur)
  OBVIOUS
<1>3. /\ w[x].pc = "insert" /\ rest # << >> /\ rest[1].path # << >> /\ ip # 0
      /\ IF same # {}
         THEN /\ w' = [w EXCEPT ![x] = [w[x] EXCEPT !.cur = Min(same), !.todo[1].path = Tail(@)]]
              /\ UNCHANGED treeVars
         ELSE /\ Construct(x, ip, cur, 1, 0)
              /\ w' = [w EXCEPT ![x] = [w[x] EXCEPT !.cur = Len(tree[x]) + 1,
                                                    !.todo[1].path = Tail(@)]]
      /\ asked' = asked
  BY <1>2 DEF InsertIP
<1>4. rest \in Seq(Paths) /\ cur \in DOMAIN t /\ Mode[x] = "custom" /\ cur \in Nat
  <2>1. rest \in Seq(Paths) /\ cur \in DOMAIN t /\ Mode[x] = "custom"
    BY <1>1, <1>2, <1>3 DEF Placed
  <2>. QED  BY <1>1, <1>2, <2>1
<1>5. Distinct(t) /\ asked[x] \in Seq(Paths) /\ Sound(t, asked[x], TRUE, rest, cur)
  BY <1>2, <1>3, <1>4, SoundNow
<1>6. PICK less : less = [rest EXCEPT ![1].path = Tail(@)]
  OBVIOUS
<1>7. ip \in Ips \cup {0}
  BY <1>2, <1>3, <1>4, <1>6, FirstShort
<1>8. ASSUME NEW c, NEW wx, wx = [w[x] EXCEPT !.cur = c, !.todo[1].path = Tail(@)]
      PROVE  wx.pc = "insert" /\ wx.todo = less /\ wx.cur = c
  BY <1>1, <1>2, <1>3, <1>6, <1>8 DEF Writer
<1>9. asked' = [asked EXCEPT ![x] = asked[x]]
  BY <1>3 DEF AttributionInv
<1>10. CASE same # {}
  <2>1. PICK c, wx : c = Min(same) /\ wx = [w[x] EXCEPT !.cur = c, !.todo[1].path = Tail(@)]
    OBVIOUS
  <2>2. same \subseteq DOMAIN t /\ DOMAIN t \subseteq Nat
    BY <1>1, <1>2 DEF SameIP, Children
  <2>3. c \in same
    BY <1>10, <2>1, <2>2, MinOf
  <2>4. c \in DOMAIN t /\ t[c].up = cur /\ t[c].ip = ip
    BY <1>2, <2>3 DEF SameIP, Children
  <2>5. PathOf(t)[c] = Append(PathOf(t)[cur], rest[1].path[1])
    BY <1>1, <1>2, <2>4, PathUnfold
  <2>6. cur \in 0 .. Len(t)
    BY <1>1, <1>2, <1>4
  <2>11. c # 1
    BY <1>1, <1>2, <1>4, <2>4 DEF Ordered
  <2>7. Sound(t, asked[x], TRUE, less, c)
    BY <1>1, <1>2, <1>3, <1>4, <1>5, <1>6, <2>5, <2>6, <2>11, SoundDown
  <2>8. wx.pc = "insert" /\ wx.todo = less /\ wx.cur = c
    BY <1>8, <2>1
  <2>9. Sound(t, asked[x], wx.pc = "insert", wx.todo, wx.cur)
    BY <2>7, <2>8
  <2>10. tree' = [tree EXCEPT ![x] = t] /\ w' = [w EXCEPT ![x] = wx]
    BY <1>1, <1>2, <1>3, <1>10, <2>1 DEF treeVars, TypeInv
  <2>. QED  BY <1>5, <1>9, <2>9, <2>10, AttributionStep
<1>11. CASE same = {}
  <2>1. PICK c, wx, d : /\ c = Len(t) + 1 /\ d = NewNode(x, ip, cur, 1, 0)
                        /\ wx = [w[x] EXCEPT !.cur = c, !.todo[1].path = Tail(@)]
    OBVIOUS
  <2>2. d \in Node /\ d.ip = ip /\ d.up = cur /\ d.metric = 0
    <3>1. TypeInv /\ cur \in Nat /\ (cur = 0 \/ cur \in DOMAIN tree[x]) /\ d = NewNode(x, ip, cur, 1, 0)
      BY <1>1, <1>2, <1>4, <2>1
    <3>. QED  BY SMTT(60), <1>7, <3>1, NewNodeIs
  <2>3. \A i \in DOMAIN t : ~ (t[i].up = cur /\ t[i].ip = d.ip)
    BY <1>2, <1>11, <2>2 DEF SameIP, Children
  <2>4. PICK u : u = Append(t, d)
    OBVIOUS
  <2>5. /\ u \in Seq(Node) /\ Ordered(u) /\ Distinct(u) /\ Sound(u, asked[x], TRUE, rest, cur)
        /\ GoesOn(u, c, cur, d.ip)
    <3>1. t \in Seq(Node) /\ Ordered(t) /\ rest # << >> /\ d.ip = ip
      BY <1>1, <1>2, <1>3, <2>2
    <3>2. Grows(t, asked[x], rest, cur, d, u, c)
      BY <1>4, <1>5, <2>1, <2>2, <2>3, <2>4, <3>1 DEF Grows
    <3>. QED  BY <3>2, SoundGrown
  <2>6. cur \in 0 .. Len(u)
    <3>1. DOMAIN u = DOMAIN t \cup {Len(t) + 1}
      BY <1>1, <1>2, <2>2, <2>4, Appended
    <3>2. DOMAIN u = 1 .. Len(u) /\ Len(u) \in Nat
      BY <2>5, LenProperties
    <3>. QED  BY <1>4, <3>1, <3>2
  <2>7. PathOf(u)[c] = Append(PathOf(u)[cur], rest[1].path[1])
    BY <1>2, <2>2, <2>5 DEF GoesOn
  <2>12. c # 1
    BY <1>1, <1>2, <1>4, <2>1
  <2>8. Sound(u, asked[x], TRUE, less, c)
    BY <1>2, <1>3, <1>4, <1>5, <1>6, <2>5, <2>6, <2>7, <2>12, SoundDown
  <2>9. wx.pc = "insert" /\ wx.todo = less /\ wx.cur = c
    BY <1>8, <2>1
  <2>10. Sound(u, asked[x], wx.pc = "insert", wx.todo, wx.cur)
    BY <2>8, <2>9
  <2>11. tree' = [tree EXCEPT ![x] = u] /\ w' = [w EXCEPT ![x] = wx]
    <3>1. Construct(x, ip, cur, 1, 0) /\ w' = [w EXCEPT ![x] = wx]
      BY <1>2, <1>3, <1>11, <2>1
    <3>2. tree' = [tree EXCEPT ![x] = Append(@, d)]
      BY <2>1, <3>1 DEF Construct
    <3>. QED  BY <1>2, <2>4, <3>1, <3>2
  <2>. QED  BY <1>5, <1>9, <2>5, <2>10, <2>11, AttributionStep
<1>. QED  BY <1>10, <1>11

\* The metric of a job: its path is that of the node it came to.
LEMMA AddMetricAttr ==
  ASSUME FormatInv, FormatInv', AttributionInv, NEW x \in Writers, AddMetric(x)
  PROVE  AttributionInv'
<1>1. /\ TypeInv /\ Placed(x) /\ w[x] \in Writer /\ tree[x] \in Seq(Node) /\ Ordered(tree[x])
      /\ DOMAIN tree[x] = 1 .. Len(tree[x])
  BY TreeFacts
<1>2. PICK wx, t, rest, cur, m :
        /\ wx = [w[x] EXCEPT !.cur = 1, !.todo = Tail(@)] /\ t = tree[x]
        /\ rest = w[x].todo /\ cur = w[x].cur /\ m = rest[1].metric
  OBVIOUS
<1>3. PICK u : u = [t EXCEPT ![cur].metric = @ + m]
  OBVIOUS
<1>4. /\ w[x].pc = "insert" /\ rest # << >>
      /\ IF rest[1].path = << >> THEN cur # 1 ELSE rest[1].path[1] = 0
      /\ tree' = [tree EXCEPT ![x][cur].metric = @ + m]
      /\ w' = [w EXCEPT ![x].cur = 1, ![x].todo = Tail(@)]
      /\ asked' = asked
  BY <1>2 DEF AddMetric
<1>5. tree' = [tree EXCEPT ![x] = u] /\ w' = [w EXCEPT ![x] = wx]
  <2>1. tree' = [tree EXCEPT ![x] = u]
    BY <1>1, <1>2, <1>3, <1>4 DEF TypeInv
  <2>2. w' = [w EXCEPT ![x] = wx]
    BY <1>1, <1>2, <1>4 DEF TypeInv, Writer
  <2>. QED  BY <2>1, <2>2
<1>6. u \in Seq(Node)
  BY <1>1, <1>5, TreeTypeBehind DEF TypeInv
<1>7. wx.pc = "insert" /\ wx.todo = Tail(rest) /\ wx.cur = 1
  BY <1>1, <1>2, <1>4 DEF Writer
<1>8. rest \in Seq(Paths) /\ cur \in DOMAIN t /\ Mode[x] = "custom"
  BY <1>1, <1>2, <1>4 DEF Placed
<1>9. Distinct(t) /\ asked[x] \in Seq(Paths) /\ Sound(t, asked[x], TRUE, rest, cur)
  BY <1>2, <1>4, <1>8, SoundNow
<1>10. /\ DOMAIN u = DOMAIN t
       /\ \A i \in DOMAIN t : /\ u[i].up = t[i].up /\ u[i].ip = t[i].ip
                              /\ u[i].metric = IF i = cur THEN t[i].metric + rest[1].metric
                                               ELSE t[i].metric
  <2>1. \A i \in DOMAIN t : t[i] \in Node
    BY <1>1, <1>2, ElementOfSeq
  <2>2. u = [t EXCEPT ![cur] = [t[cur] EXCEPT !.metric = t[cur].metric + m]]
    BY <1>3
  <2>3. DOMAIN u = DOMAIN t /\ \A i \in DOMAIN t : i # cur => u[i] = t[i]
    BY <2>2
  <2>4. u[cur].up = t[cur].up /\ u[cur].ip = t[cur].ip /\ u[cur].metric = t[cur].metric + m
    BY <1>8, <2>1, <2>2 DEF Node
  <2>. QED  BY <1>2, <2>3, <2>4
<1>11. Distinct(u) /\ Sound(u, asked[x], TRUE, Tail(rest), 1)
  <2>1. Pays(t, asked[x], rest, cur, FALSE, u)
    BY <1>1, <1>2, <1>4, <1>6, <1>8, <1>9, <1>10 DEF Pays
  <2>. QED  BY <2>1, SoundPaid
<1>12. Sound(u, asked[x], wx.pc = "insert", wx.todo, wx.cur)
  BY <1>7, <1>11
<1>13. asked' = [asked EXCEPT ![x] = asked[x]]
  BY <1>4 DEF AttributionInv
<1>. QED  BY <1>5, <1>9, <1>11, <1>12, <1>13, AttributionStep

\* A job with an empty list of handles adds nothing.
LEMMA SkipPathAttr ==
  ASSUME FormatInv, AttributionInv, NEW x \in Writers, SkipPath(x)
  PROVE  AttributionInv'
<1>1. /\ TypeInv /\ Placed(x) /\ w[x] \in Writer /\ tree[x] \in Seq(Node) /\ Ordered(tree[x])
  BY TreeFacts
<1>2. PICK wx, t, rest, cur :
        wx = [w[x] EXCEPT !.todo = Tail(@)] /\ t = tree[x] /\ rest = w[x].todo /\ cur = w[x].cur
  OBVIOUS
<1>3. /\ w[x].pc = "insert" /\ rest # << >> /\ rest[1].path = << >> /\ cur = 1
      /\ tree' = tree /\ asked' = asked /\ w' = [w EXCEPT ![x] = wx]
  BY <1>2 DEF SkipPath, treeVars
<1>4. wx.pc = "insert" /\ wx.todo = Tail(rest) /\ wx.cur = 1
  BY <1>1, <1>2, <1>3 DEF Writer
<1>5. rest \in Seq(Paths) /\ cur \in DOMAIN t /\ Mode[x] = "custom"
  BY <1>1, <1>2, <1>3 DEF Placed
<1>6. Distinct(t) /\ asked[x] \in Seq(Paths) /\ Sound(t, asked[x], TRUE, rest, cur)
  BY <1>2, <1>3, <1>5, SoundNow
<1>7. Sound(t, asked[x], TRUE, Tail(rest), 1)
  <2>1. Pays(t, asked[x], rest, cur, TRUE, t)
    BY <1>1, <1>2, <1>3, <1>5, <1>6 DEF Pays
  <2>. QED  BY <2>1, SoundPaid
<1>8. Sound(t, asked[x], wx.pc = "insert", wx.todo, wx.cur)
  BY <1>4, <1>7
<1>9. tree' = [tree EXCEPT ![x] = t] /\ asked' = [asked EXCEPT ![x] = asked[x]]
  BY <1>1, <1>2, <1>3 DEF AttributionInv, TypeInv
<1>. QED  BY <1>3, <1>6, <1>8, <1>9, AttributionStep

\* A call to build is over: every job is done, and ids are not what it is about.
LEMMA EndBuildAttr ==
  ASSUME FormatInv, FormatInv', AttributionInv, NEW x \in Writers, EndBuild(x)
  PROVE  AttributionInv'
<1>1. /\ TypeInv /\ Placed(x) /\ w[x] \in Writer /\ tree[x] \in Seq(Node) /\ Ordered(tree[x])
      /\ DOMAIN tree[x] = 1 .. Len(tree[x])
  BY TreeFacts
<1>2. PICK wx, t, u : wx = [w[x] EXCEPT !.pc = "idle"] /\ t = tree[x] /\ u = LeavesReset(t)
  OBVIOUS
<1>3. /\ w[x].pc = "insert" /\ w[x].todo = << >> /\ asked' = asked
      /\ tree' = [tree EXCEPT ![x] = u] /\ w' = [w EXCEPT ![x] = wx]
  <2>1. /\ w[x].pc = "insert" /\ w[x].todo = << >> /\ asked' = asked
        /\ tree' = [tree EXCEPT ![x] = u] /\ w' = [w EXCEPT ![x].pc = "idle"]
    BY <1>2 DEF EndBuild, Goto
  <2>. QED  BY <1>2, <2>1
<1>4. wx.pc = "idle"
  BY <1>1, <1>2 DEF Writer
<1>5. u \in Seq(Node)
  BY <1>1, <1>3, TreeTypeBehind DEF TypeInv
<1>6. Mode[x] = "custom"
  BY <1>1, <1>3 DEF Placed
<1>7. Distinct(t) /\ asked[x] \in Seq(Paths) /\ Sound(t, asked[x], TRUE, << >>, w[x].cur)
  BY <1>2, <1>3, <1>6, SoundNow
<1>8. /\ DOMAIN u = DOMAIN t
      /\ \A i \in DOMAIN t : u[i].up = t[i].up /\ u[i].ip = t[i].ip /\ u[i].metric = t[i].metric
  <2>1. \A i \in DOMAIN t : t[i] \in Node
    BY <1>1, <1>2, ElementOfSeq
  <2>2. u = [i \in DOMAIN t |-> [t[i] EXCEPT !.id = IF IsLeaf(t, i) THEN - t[i].id ELSE t[i].id]]
    BY <1>2 DEF LeavesReset
  <2>3. ASSUME NEW i \in DOMAIN t
        PROVE  u[i].up = t[i].up /\ u[i].ip = t[i].ip /\ u[i].metric = t[i].metric
    <3>1. PICK id : u[i] = [t[i] EXCEPT !.id = id]
      BY <2>2
    <3>. QED  BY <2>1, <3>1 DEF Node
  <2>. QED  BY <2>2, <2>3
<1>9. Distinct(u) /\ Sound(u, asked[x], FALSE, wx.todo, wx.cur)
  <2>1. Ends(t, asked[x], w[x].cur, u)
    BY <1>1, <1>2, <1>5, <1>7, <1>8 DEF Ends
  <2>. QED  BY <2>1, SoundEnd
<1>10. Sound(u, asked[x], wx.pc = "insert", wx.todo, wx.cur)
  BY <1>4, <1>9
<1>11. asked' = [asked EXCEPT ![x] = asked[x]]
  BY <1>3 DEF AttributionInv
<1>. QED  BY <1>3, <1>7, <1>9, <1>10, <1>11, AttributionStep

\* A node more that no sibling is like.
LEMMA StillDistinct ==
  ASSUME NEW t \in Seq(Node), Distinct(t), NEW d,
         \A i \in DOMAIN t : ~ (t[i].up = d.up /\ t[i].ip = d.ip)
  PROVE  Distinct(Append(t, d))
<1>. DEFINE u == Append(t, d)
            L == Len(t)
            S == Node \cup {d}
<1>1. t \in Seq(S) /\ d \in S
  BY WiderSeq
<1>. HIDE DEF S
<1>2. DOMAIN u = DOMAIN t \cup {L + 1} /\ (\A i \in DOMAIN t : u[i] = t[i]) /\ u[L + 1] = d
  BY <1>1, Appended
<1>. HIDE DEF u, L
<1>3. ASSUME NEW i \in DOMAIN u, NEW k \in DOMAIN u, u[i].up = u[k].up, u[i].ip = u[k].ip PROVE i = k
  <2>1. CASE i \in DOMAIN t /\ k \in DOMAIN t
    BY <1>2, <1>3, <2>1 DEF Distinct
  <2>2. CASE i = L + 1 /\ k \in DOMAIN t
    BY <1>2, <1>3, <2>2
  <2>3. CASE i \in DOMAIN t /\ k = L + 1
    BY <1>2, <1>3, <2>3
  <2>. QED  BY <1>2, <2>1, <2>2, <2>3
<1>4. Distinct(u)
  BY <1>3 DEF Distinct
<1>. QED  BY <1>4 DEF u

\* mergeIP adds a node only where findSameIP finds none.
LEMMA MergeIPAttr ==
  ASSUME FormatInv, AttributionInv, NEW x \in Writers, MergeIP(x)
  PROVE  AttributionInv'
<1>1. TypeInv /\ Placed(x) /\ w[x] \in Writer /\ tree[x] \in Seq(Node)
  BY TreeFacts
<1>2. PICK job, ip, up, same, here :
        /\ job = w[x].todo[1] /\ ip = job.ip /\ up = w[x].at[job.depth]
        /\ same = SameIP(x, ip, up)
        /\ here = IF same # {} THEN Min(same) ELSE Len(tree[x]) + 1
  OBVIOUS
<1>3. PICK wx : wx = [w[x] EXCEPT !.todo = Tail(@), !.at = Append(SubSeq(@, 1, job.depth), here)]
  OBVIOUS
<1>4. /\ w[x].pc = "rows" /\ w[x].todo # << >> /\ asked' = asked
      /\ same # {} => UNCHANGED treeVars
      /\ same = {} /\ job.callee => Construct(x, ip, up, 1, 0)
      /\ same = {} /\ ~ job.callee => Construct(x, ip, up, -1, 1)
  BY ZenonT(60), <1>2 DEF MergeIP
<1>5. w' = [w EXCEPT ![x] = wx]
  <2>1. w' = [w EXCEPT ![x].todo = Tail(@), ![x].at = Append(SubSeq(@, 1, job.depth), here)]
    BY <1>2 DEF MergeIP
  <2>. QED  BY <1>1, <1>3, <2>1 DEF TypeInv, Writer
<1>6. Mode[x] # "custom"
  BY ZenonT(60), <1>1, <1>4 DEF Placed
<1>7. Distinct(tree[x]) /\ asked[x] \in Seq(Paths)
  BY SoundNow
<1>8. asked' = [asked EXCEPT ![x] = asked[x]]
  BY <1>4 DEF AttributionInv
<1>9. CASE same # {}
  <2>1. tree' = [tree EXCEPT ![x] = tree[x]]
    BY <1>1, <1>4, <1>9 DEF treeVars, TypeInv
  <2>. QED  BY <1>5, <1>6, <1>7, <1>8, <2>1, AttributionStep
<1>10. CASE same = {}
  <2>1. PICK sign, metric : Construct(x, ip, up, sign, metric)
    BY <1>4, <1>10
  <2>2. PICK d : d = NewNode(x, ip, up, sign, metric)
    OBVIOUS
  <2>3. d.up = up /\ d.ip = ip
    BY <2>2 DEF NewNode
  <2>4. \A i \in DOMAIN tree[x] : ~ (tree[x][i].up = d.up /\ tree[x][i].ip = d.ip)
    BY <1>2, <1>10, <2>3 DEF SameIP, Children
  <2>5. Distinct(Append(tree[x], d))
    BY <1>1, <1>7, <2>4, StillDistinct
  <2>6. tree' = [tree EXCEPT ![x] = Append(tree[x], d)]
    BY <2>1, <2>2 DEF Construct
  <2>. QED  BY <1>5, <1>6, <1>7, <1>8, <2>5, <2>6, AttributionStep
<1>. QED  BY <1>9, <1>10

\* A writer goes on, or not, with something that is no building.
Aside(x) ==
  /\ UNCHANGED <<tree, asked>> /\ w[x].pc # "insert"
  /\ \E s : w' = [w EXCEPT ![x] = s] /\ s.pc # "insert"

\* Such a step keeps AttributionInv.
LEMMA AsideAttr ==
  ASSUME FormatInv, AttributionInv, NEW x \in Writers, Aside(x)
  PROVE  AttributionInv'
<1>1. PICK s : w' = [w EXCEPT ![x] = s] /\ s.pc # "insert"
  BY DEF Aside
<1>2. \A y \in Writers : w'[y] = w[y] \/ (w[y].pc # "insert" /\ w'[y].pc # "insert")
  <2>1. w \in [Writers -> Writer]
    BY DEF FormatInv, TypeInv
  <2>. QED  BY <1>1, <2>1 DEF Aside
<1>3. UNCHANGED <<tree, asked>>
  BY DEF Aside
<1>. QED  BY <1>2, <1>3, AttributionKept

\* Going to another place.
LEMMA GotoAside ==
  ASSUME FormatInv, NEW x \in Writers, UNCHANGED <<tree, asked>>, w[x].pc # "insert",
         NEW pc, pc # "insert", Goto(x, pc)
  PROVE  Aside(x)
<1>1. w[x] \in Writer /\ w \in [Writers -> Writer]
  BY DEF FormatInv, TypeInv
<1>2. PICK s : s = [w[x] EXCEPT !.pc = pc]
  OBVIOUS
<1>3. w' = [w EXCEPT ![x] = s]
  BY <1>2 DEF Goto
<1>4. s.pc = pc
  BY <1>1, <1>2 DEF Writer
<1>. QED  BY <1>3, <1>4 DEF Aside

\* The calls that write.
LEMMA WritingAside ==
  ASSUME FormatInv, NEW x \in Writers,
         \/ WriteCustom(x) \/ \E contexts \in Contexts : WriteAll(x, contexts)
         \/ Lock(x) \/ OpenNew(x) \/ NoFile(x) \/ LoadmapSize(x) \/ LoadmapAlloc(x)
         \/ LoadmapFill(x) \/ LoadmapList(x) \/ WriteCount(x) \/ WriteRow(x)
  PROVE  Aside(x)
<1>0. w[x] \in Writer /\ w \in [Writers -> Writer]
  BY DEF FormatInv, TypeInv
<1>1. CASE WriteCustom(x)
  BY <1>1, GotoAside DEF WriteCustom, treeVars
<1>2. ASSUME NEW contexts \in Contexts, WriteAll(x, contexts) PROVE Aside(x)
  <2>1. PICK s : s = [w[x] EXCEPT !.pc = "open", !.todo = contexts]
    OBVIOUS
  <2>2. w' = [w EXCEPT ![x] = s] /\ w[x].pc = "idle" /\ UNCHANGED <<tree, asked>>
    BY <1>2, <2>1 DEF WriteAll, treeVars
  <2>3. s.pc = "open"
    BY <1>0, <2>1 DEF Writer
  <2>. QED  BY <2>2, <2>3 DEF Aside
<1>3. CASE Lock(x)
  BY <1>3, GotoAside DEF Lock, treeVars
<1>4. CASE OpenNew(x)
  BY <1>4, GotoAside DEF OpenNew, treeVars
<1>5. CASE NoFile(x)
  BY <1>5, GotoAside DEF NoFile, treeVars
<1>6. CASE LoadmapSize(x)
  BY <1>6, GotoAside DEF LoadmapSize, treeVars
<1>7. CASE LoadmapAlloc(x)
  <2>1. PICK s : s = [w[x] EXCEPT !.pc = "fill", !.n = Entries]
    OBVIOUS
  <2>2. w' = [w EXCEPT ![x] = s] /\ w[x].pc = "alloc" /\ UNCHANGED <<tree, asked>>
    BY <1>7, <2>1 DEF LoadmapAlloc, treeVars
  <2>3. s.pc = "fill"
    BY <1>0, <2>1 DEF Writer
  <2>. QED  BY <2>2, <2>3 DEF Aside
<1>8. CASE LoadmapFill(x)
  <2>0. w[x].pc = "fill" /\ UNCHANGED <<tree, asked>>
    BY <1>8 DEF LoadmapFill, treeVars
  <2>1. CASE Goto(x, "crash")
    BY <2>0, <2>1, GotoAside
  <2>2. CASE w' = [w EXCEPT ![x].pc = "list", ![x].vector = table]
    <3>1. PICK s : s = [w[x] EXCEPT !.pc = "list", !.vector = table]
      OBVIOUS
    <3>2. w' = [w EXCEPT ![x] = s]
      BY <2>2, <3>1
    <3>3. s.pc = "list"
      BY <1>0, <3>1 DEF Writer
    <3>. QED  BY <2>0, <3>2, <3>3 DEF Aside
  <2>. QED  BY <1>8, <2>1, <2>2 DEF LoadmapFill
<1>9. CASE LoadmapList(x)
  <2>1. /\ w[x].pc = "list" /\ UNCHANGED <<tree, asked>>
        /\ Goto(x, "rows") \/ Goto(x, "crash")
    BY <1>9 DEF LoadmapList, treeVars
  <2>. QED  BY <2>1, GotoAside
<1>10. CASE WriteCount(x)
  <2>1. PICK s : s = [w[x] EXCEPT !.pc = "write", !.parents = <<0>>]
    OBVIOUS
  <2>2. w' = [w EXCEPT ![x] = s] /\ w[x].pc = "rows" /\ UNCHANGED <<tree, asked>>
    BY <1>10, <2>1 DEF WriteCount, treeVars
  <2>3. s.pc = "write"
    BY <1>0, <2>1 DEF Writer
  <2>. QED  BY <2>2, <2>3 DEF Aside
<1>11. CASE WriteRow(x)
  <2>0. w[x].pc = "write" /\ UNCHANGED <<tree, asked>>
    BY <1>11 DEF WriteRow, treeVars
  <2>1. \/ Goto(x, "crash")
        \/ \E n, kids : w' = [w EXCEPT ![x].last = n, ![x].kids = kids]
        \/ \E next, pc : /\ pc \in {"done", "write"}
                         /\ w' = [w EXCEPT ![x].last = 0, ![x].kids = << >>, ![x].parents = next,
                                           ![x].pc = pc]
    <3>1. PICK t, peers, n, kids, next, pc :
            /\ t = tree[x] /\ peers = Children(t, Head(w[x].parents))
            /\ n = Min({k \in peers : k > w[x].last})
            /\ kids = IF IsLeaf(t, n) THEN w[x].kids ELSE Append(w[x].kids, n)
            /\ next = kids \o Tail(w[x].parents)
            /\ pc = IF next = << >> THEN "done" ELSE "write"
      OBVIOUS
    <3>2. \/ Goto(x, "crash")
          \/ IF \E k \in peers : k > n
             THEN w' = [w EXCEPT ![x].last = n, ![x].kids = kids]
             ELSE w' = [w EXCEPT ![x].last = 0, ![x].kids = << >>, ![x].parents = next,
                                 ![x].pc = pc]
      BY ZenonT(60), <1>11, <3>1 DEF WriteRow
    <3>3. pc \in {"done", "write"}
      BY <3>1, Zenon
    <3>. QED  BY ZenonT(60), <3>2, <3>3
  <2>2. CASE Goto(x, "crash")
    BY <2>0, <2>2, GotoAside
  <2>3. ASSUME NEW n, NEW kids, w' = [w EXCEPT ![x].last = n, ![x].kids = kids] PROVE Aside(x)
    <3>1. PICK s : s = [w[x] EXCEPT !.last = n, !.kids = kids]
      OBVIOUS
    <3>2. w' = [w EXCEPT ![x] = s]
      BY <1>0, <2>3, <3>1
    <3>3. s.pc = "write"
      BY <1>0, <2>0, <3>1 DEF Writer
    <3>. QED  BY <2>0, <3>2, <3>3 DEF Aside
  <2>4. ASSUME NEW next, NEW pc \in {"done", "write"},
               w' = [w EXCEPT ![x].last = 0, ![x].kids = << >>, ![x].parents = next, ![x].pc = pc]
        PROVE  Aside(x)
    <3>1. PICK s : s = [w[x] EXCEPT !.last = 0, !.kids = << >>, !.parents = next, !.pc = pc]
      OBVIOUS
    <3>2. w' = [w EXCEPT ![x] = s]
      BY ZenonT(60), <1>0, <2>4, <3>1
    <3>3. s.pc = pc
      BY <1>0, <3>1 DEF Writer
    <3>. QED  BY <2>0, <3>2, <3>3 DEF Aside
  <2>. QED  BY ZenonT(60), <2>1, <2>2, <2>3, <2>4
<1>. QED  BY <1>1, <1>2, <1>3, <1>4, <1>5, <1>6, <1>7, <1>8, <1>9, <1>10, <1>11

\* Every step keeps AttributionInv.
LEMMA AttributionNext ==
  ASSUME FormatInv, FormatInv', AttributionInv, [Next]_vars
  PROVE  AttributionInv'
<1>1. ASSUME NEW x \in Writers, NEW list \in Selections[x], Build(x, list) PROVE AttributionInv'
  BY <1>1, BuildAttr
<1>2. ASSUME NEW x \in Writers, NEW list \in Selections[x], BuildAnew(x, list) PROVE AttributionInv'
  BY <1>2, BuildAnewAttr
<1>3. ASSUME NEW x \in Writers, WriteCustom(x) PROVE AttributionInv'
  BY <1>3, WritingAside, AsideAttr
<1>4. ASSUME NEW x \in Writers, NEW contexts \in Contexts, WriteAll(x, contexts) PROVE AttributionInv'
  BY <1>4, WritingAside, AsideAttr
<1>5. ASSUME NEW x \in Writers, Step(x) PROVE AttributionInv'
  <2>1. CASE InsertIP(x)
    BY <2>1, InsertIPAttr
  <2>2. CASE AddMetric(x)
    BY <2>2, AddMetricAttr
  <2>3. CASE EndBuild(x)
    BY <2>3, EndBuildAttr
  <2>4. CASE MergeIP(x)
    BY <2>4, MergeIPAttr
  <2>5. CASE NextName(x)
    <3>1. UNCHANGED <<tree, asked>> /\ w' = w
      BY <2>5 DEF NextName, treeVars
    <3>. QED  BY <3>1, AttributionKept
  <2>6. CASE \/ Lock(x) \/ OpenNew(x) \/ LoadmapSize(x) \/ LoadmapAlloc(x)
             \/ LoadmapFill(x) \/ LoadmapList(x) \/ WriteCount(x) \/ WriteRow(x)
    BY <2>6, WritingAside, AsideAttr
  <2>7. CASE SkipPath(x)
    BY <2>7, SkipPathAttr
  <2>8. CASE OpenFails(x)
    <3>1. NoFile(x)
      BY <2>8 DEF OpenFails
    <3>. QED  BY <3>1, WritingAside, AsideAttr
  <2>. QED  BY <1>5, <2>1, <2>2, <2>3, <2>4, <2>5, <2>6, <2>7, <2>8 DEF Step
<1>10. ASSUME NEW x \in Writers, OpenErrors(x) PROVE AttributionInv'
  <2>1. NoFile(x)
    BY <1>10 DEF OpenErrors
  <2>. QED  BY <2>1, WritingAside, AsideAttr
<1>6. ASSUME NEW n \in Others, Foreign(n) PROVE AttributionInv'
  <2>1. UNCHANGED <<tree, asked>> /\ w' = w
    BY <1>6 DEF Foreign, treeVars
  <2>. QED  BY <2>1, AttributionKept
<1>7. ASSUME NEW m \in Libs, NEW ip \in Ips, ModuleLoad(m, BaseOf[ip]) PROVE AttributionInv'
  <2>1. UNCHANGED <<tree, asked>> /\ w' = w
    BY <1>7 DEF ModuleLoad, treeVars
  <2>. QED  BY <2>1, AttributionKept
<1>8. ASSUME NEW e \in loaded, ModuleUnload(e) PROVE AttributionInv'
  <2>1. UNCHANGED <<tree, asked>> /\ w' = w
    BY <1>8 DEF ModuleUnload, treeVars
  <2>. QED  BY <2>1, AttributionKept
<1>9. CASE UNCHANGED vars
  <2>1. UNCHANGED <<tree, asked>> /\ w' = w
    BY <1>9 DEF vars, treeVars
  <2>. QED  BY <2>1, AttributionKept
<1>. QED  BY <1>1, <1>2, <1>3, <1>4, <1>5, <1>6, <1>7, <1>8, <1>9, <1>10 DEF Next

\* Before any call there is no tree, and nothing has been passed.
LEMMA AttributionInit ==
  ASSUME Init
  PROVE  AttributionInv
<1>1. FormatInv
  BY InitInv
<1>2. /\ tree = [x \in Writers |-> << >>] /\ asked = [x \in Writers |-> << >>]
      /\ w = [x \in Writers |-> Idle]
  BY DEF Init
<1>3. << >> \in Seq(Paths) /\ Len(<< >>) = 0 /\ DOMAIN << >> = {}
  BY EmptySeq
<1>4. ASSUME NEW x \in Writers PROVE Distinct(tree[x]) /\ Attributed(x)
  <2>1. tree[x] = << >> /\ asked[x] = << >> /\ w[x].pc # "insert"
    BY <1>2 DEF Idle
  <2>2. SoundAt(tree[x], asked[x], w[x].pc = "insert", w[x].todo, w[x].cur, 0)
    <3>1. /\ tree[x] = << >> /\ DOMAIN tree[x] = {} /\ ~ (w[x].pc = "insert") /\ 1 .. 0 = {}
          /\ asked[x] = << >> /\ 0 \in Nat
      BY <1>3, <2>1
    <3>. QED  BY <3>1, Zenon DEF SoundAt
  <2>3. Sound(tree[x], asked[x], w[x].pc = "insert", w[x].todo, w[x].cur)
    BY <1>3, <2>1, <2>2 DEF Sound
  <2>4. Distinct(tree[x])
    BY <1>3, <2>1 DEF Distinct
  <2>. QED  BY <2>3, <2>4, SoundIs
<1>5. asked \in [Writers -> Seq(Paths)]
  BY <1>2, <1>3
<1>. QED  BY <1>4, <1>5 DEF AttributionInv

\* AttributionInv always holds.
THEOREM AttributionInvariant == Spec => []AttributionInv
<1>. QED  BY AttributionInit, AttributionNext, FormatInvariant, PTL DEF Spec

\* However many lists of handles a client asks for, and however the threads' merging
\* interleaves, each path of a tree has one node, and the metric of a node is the sum
\* of what was passed with its path.  A list of handles passes its metric with the path
\* of its handles up to the first that is 0, which has a node; an empty list, and only
\* that, passes nothing.
THEOREM PathsAttributed == Spec => []MetricsAttributed
<1>1. ASSUME FormatInv, AttributionInv, NEW x \in Writers, w[x].pc \in {"idle", "done"}
      PROVE  /\ \A i, k \in DOMAIN tree[x] : PathOf(tree[x])[i] = PathOf(tree[x])[k] => i = k
             /\ Mode[x] = "custom" =>
                  /\ \A i \in DOMAIN tree[x] :
                       tree[x][i].metric = Sums(asked[x], PathOf(tree[x])[i])[Len(asked[x])]
                  /\ \A k \in DOMAIN asked[x] : asked[x][k].path # << >> =>
                       \E i \in DOMAIN tree[x] : Passes(asked[x][k], PathOf(tree[x])[i])
  <2>1. /\ tree[x] \in Seq(Node) /\ Ordered(tree[x]) /\ Len(tree[x]) \in Nat
        /\ DOMAIN tree[x] = 1 .. Len(tree[x])
    BY <1>1, TreeFacts
  <2>2. Distinct(tree[x]) /\ asked[x] \in Seq(Paths) /\ (Mode[x] = "custom" => Attributed(x))
    BY <1>1 DEF AttributionInv
  <2>3. ASSUME NEW i \in DOMAIN tree[x], NEW k \in DOMAIN tree[x],
               PathOf(tree[x])[i] = PathOf(tree[x])[k]
        PROVE  i = k
    <3>1. i \in 0 .. Len(tree[x]) /\ k \in 0 .. Len(tree[x])
      BY <2>1
    <3>. QED  BY <2>1, <2>2, <2>3, <3>1, PathsDiffer
  <2>4. JobsDone(x) = Len(asked[x])
    BY <1>1 DEF JobsDone
  <2>5. DOMAIN asked[x] = 1 .. Len(asked[x])
    BY <2>2, LenProperties
  <2>6. ASSUME Mode[x] = "custom"
        PROVE  /\ \A i \in DOMAIN tree[x] :
                    tree[x][i].metric = Sums(asked[x], PathOf(tree[x])[i])[Len(asked[x])]
               /\ \A k \in DOMAIN asked[x] : asked[x][k].path # << >> =>
                    \E i \in DOMAIN tree[x] : Passes(asked[x][k], PathOf(tree[x])[i])
    BY <2>2, <2>4, <2>5, <2>6, Zenon DEF Attributed
  <2>. QED  BY <2>3, <2>6
<1>2. FormatInv /\ AttributionInv => MetricsAttributed
  BY <1>1, Zenon DEF MetricsAttributed
<1>. QED  BY <1>2, FormatInvariant, AttributionInvariant, PTL
=============================================================================
