------------------------ MODULE ReuseDistance_proofs ------------------------
(***************************************************************************)
(* The buffer of references of ReuseDistance, for every size of it, every  *)
(* window and every set of blocks.  BufferInv is inductive: a block stores *)
(* only what it announced, whatever was left early, and the loops of a     *)
(* flush stay within what was announced.                                   *)
(***************************************************************************)
EXTENDS ReuseDistance, SequenceTheorems, TLAPS

Reference == [addr : Addrs \cup {0}, hndl : Nat]
Sighting == [addr : Addrs \cup {0}, hndl : Nat, owner : Objects \cup {0}]

\* The blocks refer to the addresses of Addrs, or to none.
LEMMA BlockType ==
  ASSUME NEW b \in Blocks
  PROVE  b \in Seq(Reference) /\ Len(b) \in Nat /\ Len(b) <= BufferSize
<1>1. b \in Seq([addr : Nat, hndl : Nat]) /\ Len(b) <= BufferSize
  BY BlockAssumption
<1>2. Len(b) \in Nat /\ DOMAIN b = 1 .. Len(b) /\ b \in [1 .. Len(b) -> [addr : Nat, hndl : Nat]]
  BY <1>1, LenProperties
<1>3. ASSUME NEW k \in 1 .. Len(b) PROVE b[k] \in Reference
  <2>1. b[k] \in [addr : Nat, hndl : Nat] /\ k \in DOMAIN b
    BY <1>2, <1>3
  <2>2. b[k].addr \in Addrs \cup {0}
    BY <2>1 DEF Addrs
  <2>. QED  BY <2>1, <2>2 DEF Reference
<1>4. b \in [1 .. Len(b) -> Reference]
  BY <1>2, <1>3
<1>. QED  BY SMTT(60), <1>1, <1>2, <1>4, SeqDef

\* What is left to store does not count when it is nothing.
LEMMA LessAdded == \A p, s, f \in Nat : p + s <= f => p + 0 <= f
OBVIOUS

\* A thread starts with an empty buffer and nothing announced.
LEMMA InitBuffer == Init => BufferInv
<1> SUFFICES ASSUME Init PROVE BufferInv
  OBVIOUS
<1>1. cur_buf_list \in [0 .. BufferSize - 1 -> [addr : Nat, hndl : Nat]]
  BY JunkAssumption DEF Init
<1>. QED  BY <1>1, OwnerAssumption, WindowAssumption DEF Init, BufferInv, BufferFits

\* What Flush does to the buffer, whichever of its loops runs: it is emptied, its
\* announced references are passed over, and no field but the addresses changes.
LEMMA FlushBuffer ==
  ASSUME BufferInv, Flush
  PROVE  /\ cur_mem_idx' = cur_mem_idx + cur_buf_fill_num
         /\ buf_ptr' = 0
         /\ cur_buf_list' \in [0 .. BufferSize - 1 -> [addr : Nat, hndl : Nat]]
<1>1. cur_buf_list \in [0 .. BufferSize - 1 -> [addr : Nat, hndl : Nat]]
  BY DEF BufferInv
<1>2. ASSUME NEW from, NEW to, Process(from, to)
      PROVE  cur_buf_list' \in [0 .. BufferSize - 1 -> [addr : Nat, hndl : Nat]]
  <2>1. PICK part : cur_buf_list' = [i \in DOMAIN cur_buf_list |->
          IF i \in ToSet(part) THEN [cur_buf_list[i] EXCEPT !.addr = 0] ELSE cur_buf_list[i]]
    BY <1>2 DEF Process
  <2>. QED  BY <1>1, <2>1
<1>3. \/ \E from, to : Process(from, to)
      \/ cur_buf_list' = cur_buf_list
  BY DEF Flush
<1>. QED  BY <1>1, <1>2, <1>3 DEF Flush

\* The clean call at a block's start makes room for the block.
LEMMA StartBuffer ==
  ASSUME BufferInv, todo = << >>, NEW n \in Nat, n <= BufferSize, BBStart(n)
  PROVE  /\ last_mem_idx' \in Nat /\ cur_mem_idx' = last_mem_idx'
         /\ cur_buf_fill_num' \in Nat /\ buf_ptr' \in Nat
         /\ cur_buf_list' \in [0 .. BufferSize - 1 -> [addr : Nat, hndl : Nat]]
         /\ buf_ptr' + n <= cur_buf_fill_num'
         /\ cur_buf_fill_num' <= BufferSize
         /\ whole /\ Running => /\ buf_ptr' + n = cur_buf_fill_num'
                                /\ last_mem_idx' + buf_ptr' = Len(seen)
<1>1. /\ last_mem_idx \in Nat /\ cur_mem_idx = last_mem_idx /\ last_mem_idx' = cur_mem_idx'
      /\ cur_buf_fill_num \in Nat /\ buf_ptr \in Nat /\ BufferSize \in Nat
      /\ buf_ptr <= cur_buf_fill_num
      /\ whole /\ Running => buf_ptr = cur_buf_fill_num /\ last_mem_idx + buf_ptr = Len(seen)
  BY WindowAssumption DEF BufferInv, BufferFits, BBStart
<1>2. CASE RoomFor(n)
  <2>1. /\ cur_buf_fill_num' = cur_buf_fill_num + n
        /\ UNCHANGED <<cur_mem_idx, cur_buf_list, buf_ptr>>
    BY <1>2 DEF BBStart
  <2>2. cur_buf_fill_num + n <= BufferSize
    BY <1>2 DEF RoomFor
  <2>. QED  BY <1>1, <2>1, <2>2 DEF BufferInv
<1>3. CASE ~ RoomFor(n)
  <2>1. Flush /\ cur_buf_fill_num' = n
    BY <1>3 DEF BBStart
  <2>. QED  BY <1>1, <2>1, FlushBuffer
<1>. QED  BY <1>2, <1>3

\* No step breaks the invariant.
LEMMA NextBuffer == BufferInv /\ [Next]_vars => BufferInv'
<1> SUFFICES ASSUME BufferInv, [Next]_vars PROVE BufferInv'
  OBVIOUS
<1>0. /\ todo \in Seq(Reference) /\ seen \in Seq(Sighting) /\ owner \in [Addrs -> Objects]
      /\ whole \in BOOLEAN /\ BufferSize \in Nat \ {0}
      /\ last_mem_idx \in Nat /\ cur_mem_idx = last_mem_idx
      /\ cur_buf_fill_num \in Nat /\ buf_ptr \in Nat
      /\ cur_buf_list \in [0 .. BufferSize - 1 -> [addr : Nat, hndl : Nat]]
      /\ BufferFits
  BY WindowAssumption DEF BufferInv, Reference, Sighting
<1>1. CASE UNCHANGED vars
  BY <1>1 DEF vars, bufVars, mapVars, BufferInv, BufferFits, Running
<1>2. ASSUME NEW b \in Blocks, EnterBlock(b) PROVE BufferInv'
  <2>1. /\ todo = << >> /\ BBStart(Len(b)) /\ todo' = b
        /\ UNCHANGED <<output, owner, seen, whole>>
    BY <1>2 DEF EnterBlock
  <2>. QED
    BY <1>0, <2>1, BlockType, StartBuffer DEF BufferInv, BufferFits, Running, Reference, Sighting
<1>3. CASE Refer
  <2>1. /\ todo # << >> /\ todo' = Tail(todo) /\ buf_ptr' = buf_ptr + 1
        /\ UNCHANGED <<last_mem_idx, cur_mem_idx, cur_buf_fill_num, output, owner, whole>>
        /\ cur_buf_list' = [cur_buf_list EXCEPT ![buf_ptr] = Head(todo)]
    BY <1>3 DEF Refer
  <2>2. /\ Head(todo) \in Reference /\ Tail(todo) \in Seq(Reference)
        /\ Len(todo) \in Nat /\ Len(Tail(todo)) = Len(todo) - 1 /\ Len(todo) > 0
    BY <1>0, <2>1
  <2>3. PICK e : /\ seen' = Append(seen, e)
                 /\ e = [addr |-> Head(todo).addr, hndl |-> Head(todo).hndl,
                         owner |-> IF Head(todo).addr = 0 THEN 0 ELSE owner[Head(todo).addr]]
    BY <1>3 DEF Refer
  <2>4. e \in Sighting
    BY <2>2, <2>3, <1>0 DEF Reference, Sighting
  <2>5. seen' \in Seq(Sighting) /\ Len(seen') = Len(seen) + 1 /\ Len(seen) \in Nat
    BY <1>0, <2>3, <2>4
  <2>6. Head(todo) \in [addr : Nat, hndl : Nat]
    <3>1. Addrs \subseteq Nat
      <4>1. ASSUME NEW b \in Blocks, NEW k \in DOMAIN b PROVE b[k].addr \in Nat
        <5>1. b \in Seq([addr : Nat, hndl : Nat])
          BY BlockAssumption
        <5>2. b[k] \in [addr : Nat, hndl : Nat]
          BY <5>1, LenProperties
        <5>. QED  BY <5>2
      <4>. QED  BY <4>1 DEF Addrs
    <3>2. Reference \subseteq [addr : Nat, hndl : Nat]
      <4>1. Addrs \cup {0} \subseteq Nat
        BY <3>1
      <4>. QED  BY <4>1 DEF Reference
    <3>. QED  BY <2>2, <3>2
  <2>7. cur_buf_list' \in [0 .. BufferSize - 1 -> [addr : Nat, hndl : Nat]]
    BY <1>0, <2>1, <2>6
  <2>8. BufferFits'
    <3>1. /\ buf_ptr' + Len(todo') = buf_ptr + Len(todo)
          /\ last_mem_idx' + buf_ptr' = last_mem_idx + buf_ptr + 1
      BY <1>0, <2>1, <2>2
    <3>2. Running' <=> Running
      BY <2>1 DEF Running
    <3>. QED  BY <1>0, <2>1, <2>5, <3>1, <3>2 DEF BufferFits
  <2>. QED  BY <1>0, <2>1, <2>2, <2>5, <2>7, <2>8 DEF BufferInv, Reference, Sighting
<1>4. CASE Fault
  <2>1. /\ todo' = << >> /\ whole' = FALSE
        /\ UNCHANGED <<last_mem_idx, cur_mem_idx, cur_buf_fill_num, cur_buf_list, buf_ptr,
                       owner, seen>>
    BY <1>4 DEF Fault, bufVars
  <2>2. Len(todo) \in Nat /\ Len(todo') = 0 /\ todo' \in Seq(Reference)
    BY <1>0, <2>1
  <2>3. BufferFits'
    BY <1>0, <2>1, <2>2 DEF BufferFits
  <2>. QED  BY <1>0, <2>1, <2>2, <2>3 DEF BufferInv, Reference, Sighting
<1>5. ASSUME NEW a \in Addrs, NEW o \in Objects, Move(a, o) PROVE BufferInv'
  BY <1>0, <1>5 DEF Move, bufVars, BufferInv, BufferFits, Running, Reference, Sighting
<1>6. CASE ThreadEnd
  <2>1. /\ todo = << >> /\ BBStart(BufferSize)
        /\ UNCHANGED <<todo, owner, seen, whole>>
        /\ Running
        /\ \E r : output' = [report |-> r]
    BY <1>6 DEF ThreadEnd
  <2>2. ~ Running'
    <3>1. PICK r : output' = [report |-> r]
      BY <2>1
    <3>2. "report" \in DOMAIN output'
      BY <3>1
    <3>3. DOMAIN None = {}
      BY DEF None
    <3>. QED  BY <3>2, <3>3 DEF Running, None
  <2>3. /\ last_mem_idx' \in Nat /\ cur_mem_idx' = last_mem_idx'
        /\ cur_buf_fill_num' \in Nat /\ buf_ptr' \in Nat
        /\ cur_buf_list' \in [0 .. BufferSize - 1 -> [addr : Nat, hndl : Nat]]
        /\ buf_ptr' + BufferSize <= cur_buf_fill_num'
        /\ cur_buf_fill_num' <= BufferSize
    BY <1>0, <2>1, StartBuffer
  <2>4. Len(todo') = 0
    BY <2>1
  <2>5. BufferFits'
    <3>1. buf_ptr' + Len(todo') <= cur_buf_fill_num'
      <4>1. buf_ptr' + 0 <= cur_buf_fill_num'
        BY <1>0, <2>3, LessAdded
      <4>. QED  BY <2>4, <4>1
    <3>. QED  BY <2>2, <2>3, <3>1 DEF BufferFits
  <2>. QED  BY <1>0, <2>1, <2>3, <2>5 DEF BufferInv, Reference, Sighting
<1>. QED  BY <1>1, <1>2, <1>3, <1>4, <1>5, <1>6 DEF Next

\* The remainder is what is left of a number when whole windows are taken off.
LEMMA Remainder ==
  ASSUME NEW u \in Nat \ {0}, NEW q \in Int, NEW r \in 0 .. u - 1
  PROVE  (q * u + r) % u = r
<1>1. PICK d \in Int, m \in 0 .. u - 1 : /\ q * u + r = d * u + m
                                          /\ m = (q * u + r) % u
  <2>1. q * u + r \in Int
    OBVIOUS
  <2>. QED  BY <2>1
<1>2. (q - d) * u = m - r
  BY <1>1
<1>3. ASSUME NEW k \in Int, k > 0 PROVE k * u >= u
  BY <1>3
<1>4. ~ (q > d)
  BY <1>2, <1>3
<1>5. ~ (d > q)
  <2>1. (d - q) * u = r - m
    BY <1>1
  <2>. QED  BY <2>1, <1>3
<1>6. q = d
  BY <1>4, <1>5
<1>. QED  BY <1>1, <1>6

\* Quotient and remainder, as SMT has to be told.
LEMMA Division ==
  \A x \in Int, u \in Nat \ {0} : x = (x \div u) * u + (x % u)
OBVIOUS

\* In every run BufferInv holds: in particular what the inserted code stores lies in
\* the buffer.
THEOREM BufferInvariant == Spec => []BufferInv
BY InitBuffer, NextBuffer, PTL DEF Spec

\* No store goes behind the buffer, and while no block was left early the number
\* announced is exactly what has been and will be stored, so each reference is
\* processed with its own index.
THEOREM StoresFit == Spec => []BufferFits
<1>1. BufferInv => BufferFits
  BY DEF BufferInv
<1>. QED  BY <1>1, BufferInvariant, PTL

\* The two loops that begin or stop with a window.
LEMMA LoopsLemma == BufferInv /\ WindowInv => LoopsInBuffer
<1> SUFFICES ASSUME BufferInv, WindowInv PROVE LoopsInBuffer
  OBVIOUS
<1>. DEFINE cur == cur_mem_idx + cur_buf_fill_num
<1>1. /\ last_mem_idx \in Nat /\ cur = last_mem_idx + cur_buf_fill_num
      /\ cur_buf_fill_num \in Nat /\ cur_buf_fill_num <= BufferSize
      /\ BufferSize \in Nat \ {0} /\ Sample \in Nat /\ Unite \in Nat
      /\ BufferSize <= Sample /\ Sample + 2 * BufferSize < Unite
  BY WindowAssumption DEF BufferInv, BufferFits
<1>q. PICK q \in Int : q = last_mem_idx \div Unite
  BY <1>1
<1>m. PICK m \in 0 .. Unite - 1 : m = last_mem_idx % Unite
  BY <1>1
<1>2. last_mem_idx = q * Unite + m /\ m < Unite /\ m \in Nat
  BY <1>1, <1>q, <1>m, Division
<1>3. CASE m + cur_buf_fill_num < Unite
  <2>1. cur % Unite = m + cur_buf_fill_num
    <3>1. PICK r \in 0 .. Unite - 1 : r = m + cur_buf_fill_num /\ cur = q * Unite + r
      BY <1>1, <1>2, <1>3
    <3>2. (q * Unite + r) % Unite = r
      BY <1>1, Remainder
    <3>. QED  BY <3>1, <3>2
  <2>. QED  BY <1>1, <1>2, <1>m, <1>3, <2>1 DEF LoopsInBuffer, WindowInv, InWindow, WindowRest,
                                          WindowStart
<1>4. CASE m + cur_buf_fill_num >= Unite
  <2>1. cur % Unite = m + cur_buf_fill_num - Unite
    <3>1. PICK r \in 0 .. Unite - 1, k \in Int :
            /\ r = m + cur_buf_fill_num - Unite /\ k = q + 1
            /\ cur = k * Unite + r
      <4>1. m + cur_buf_fill_num - Unite \in 0 .. Unite - 1
        BY <1>1, <1>2, <1>4
      <4>2. cur = (q + 1) * Unite + (m + cur_buf_fill_num - Unite)
        BY <1>1, <1>2
      <4>. QED  BY <4>1, <4>2
    <3>2. (k * Unite + r) % Unite = r
      BY <1>1, Remainder
    <3>. QED  BY <3>1, <3>2
  <2>. QED  BY <1>1, <1>2, <1>m, <1>4, <2>1 DEF LoopsInBuffer, WindowInv, InWindow, WindowRest,
                                          WindowStart
<1>. QED  BY <1>1, <1>2, <1>3, <1>4

\* A flush leaves sample_mem set unless it ends between two windows.
LEMMA NextWindow == BufferInv /\ WindowInv /\ [Next]_vars => WindowInv'
<1> SUFFICES ASSUME BufferInv, WindowInv, [Next]_vars PROVE WindowInv'
  OBVIOUS
<1>1. ASSUME NEW n, BBStart(n) PROVE WindowInv'
  <2>1. CASE RoomFor(n)
    BY <1>1, <2>1 DEF BBStart, BufferInv, WindowInv, mapVars, InWindow
  <2>2. CASE ~ RoomFor(n)
    <3>1. /\ Flush /\ last_mem_idx' = cur_mem_idx'
          /\ cur_mem_idx' = cur_mem_idx + cur_buf_fill_num
      BY <1>1, <2>2 DEF BBStart, Flush
    <3>2. \/ sample_mem' = TRUE
          \/ sample_mem' = FALSE /\ ~ InWindow(cur_mem_idx + cur_buf_fill_num)
      BY <3>1 DEF Flush
    <3>. QED  BY <3>1, <3>2 DEF WindowInv, InWindow
  <2>. QED  BY <2>1, <2>2
<1>2. CASE UNCHANGED <<last_mem_idx, sample_mem>>
  BY <1>2 DEF WindowInv, InWindow
<1>. QED
  BY <1>1, <1>2 DEF Next, EnterBlock, Refer, Fault, Move, ThreadEnd, vars, bufVars, mapVars

\* Whatever the blocks and wherever windows begin and end, no loop of a flush
\* processes what is not in the buffer: it starts and stops within what was announced.
THEOREM FlushInBuffer == Spec => []LoopsInBuffer
<1>a. Init => WindowInv
  BY DEF Init, WindowInv
<1>b. BufferInv /\ WindowInv => LoopsInBuffer
  BY LoopsLemma
<1>. QED  BY <1>a, <1>b, NextWindow, BufferInvariant, PTL DEF Spec
=============================================================================
