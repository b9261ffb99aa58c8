-------------------------- MODULE BBShadow_proofs --------------------------
(***************************************************************************)
(* Theorems about BBShadow for any number of threads and blocks, any       *)
(* interleaving and any number of analyses of a block.  IndInv is          *)
(* inductive: bb_shadow_lock is exclusive (LockInv), which keeps indices,  *)
(* pages and the table in step (PageInv, TableInv, AnalysisInv, CodeInv);  *)
(* SlotInv says who will still fill an empty slot.                         *)
(***************************************************************************)
EXTENDS BBShadow, TLAPS

LockInv ==
  \A t \in Threads : pc[t] \in Critical \cup {"exit"} <=> lock = t

\* Where the thread that holds the lock is.
Stage == IF lock = NoThread THEN "idle" ELSE pc[lock]

\* Only the thread that turns the page sees the page announced and not stored.
PageInv ==
  /\ last = pages * PageSize - 1 + IF Stage = "store" THEN PageSize ELSE 0
  /\ next <= last + IF Stage \in {"turn", "exit"} THEN 1 ELSE 0
  /\ Stage = "store" => pages < PageNum
  /\ next >= 1

TableInv ==
  /\ \A g \in Tags : table[g] # NotFound =>
       table[g] < next /\ table[g] < pages * PageSize
  /\ \A g, h \in Tags : table[g] = table[h] /\ table[g] # NotFound => g = h
  /\ \A k \in Keys \ {RootKey} :
       (\A g \in Tags : table[g] # k) => DOMAIN ip[k] = {}

AnalysisInv ==
  \A t \in Threads :
    /\ pc[t] \notin {"idle", "exit"} => block[t] \in Blocks
    /\ pc[t] \in {"turn", "store", "config"} =>
         /\ key[t] = next - 1 /\ key[t] # RootKey
         /\ table[TagOf[block[t]]] = NotFound
         /\ \A g \in Tags : table[g] # key[t]
    /\ pc[t] \in {"turn", "store"} => key[t] <= last
    /\ pc[t] = "config" => key[t] < pages * PageSize
    /\ pc[t] \in {"unlock", "create", "fill"} =>
         table[TagOf[block[t]]] = key[t] /\ key[t] # RootKey
    /\ pc[t] = "fill" => slot[t] <= SlotNum[block[t]]

CodeInv ==
  \A c \in code : table[TagOf[c.block]] = c.key /\ c.key # RootKey

\* Thread t is going to fill slot i of the shadow with key k.
WillFill(t, k, i) == Holds(t, k) /\ (pc[t] = "fill" => slot[t] <= i)

\* The shadow with key k, of block b: its array is there and right, or is going to be.
ShadowInv(b, k) ==
  /\ slot_num[k] = SlotNum[b]
  /\ \/ DOMAIN ip[k] = 0 .. SlotNum[b] - 1
     \/ DOMAIN ip[k] = {} /\ \E t \in Threads : Holds(t, k) /\ pc[t] # "fill"
  /\ \A i \in 0 .. SlotNum[b] - 1 :
       \/ i \in DOMAIN ip[k] /\ ip[k][i] = b
       \/ \E t \in Threads : WillFill(t, k, i)

SlotInv ==
  \A b \in Blocks :
    Steady(TagOf[b]) /\ table[TagOf[b]] # NotFound => ShadowInv(b, table[TagOf[b]])

IndInv ==
  /\ TypeOK /\ LockInv /\ PageInv /\ TableInv /\ AnalysisInv /\ CodeInv /\ SlotInv

----------------------------------------------------------------------------
(* Arithmetic of pages. *)

\* Multiples of the size of a page.
LEMMA PageProducts ==
  ASSUME NEW a \in Nat, NEW b \in Nat, a <= b
  PROVE  /\ a * PageSize \in Nat
         /\ (a + 1) * PageSize = a * PageSize + PageSize
         /\ a * PageSize <= b * PageSize
<1>1. PageSize \in Nat
  BY TableAssumption
<1>2. PICK d \in Nat : b = a + d
  <2>1. b - a \in Nat /\ b = a + (b - a)
    OBVIOUS
  <2>. QED  BY <2>1
<1>3. (a + d) * PageSize = a * PageSize + d * PageSize
  BY <1>1
<1>4. a * PageSize \in Nat /\ d * PageSize \in Nat
  BY <1>1
<1>5. (a + 1) * PageSize = a * PageSize + PageSize
  BY <1>1
<1>. QED  BY <1>2, <1>3, <1>4, <1>5

\* The constants' types, and the bounds of the keys.
LEMMA ConstantTypes ==
  /\ PageSize \in Nat /\ PageSize >= 2 /\ PageNum \in Nat /\ PageNum >= 1
  /\ MaxIndex \in Nat /\ MaxIndex >= 1 /\ MaxIndex = PageNum * PageSize - 1
  /\ Keys = 0 .. MaxIndex /\ RootKey \in Keys
  /\ \A b \in Blocks : TagOf[b] \in Tags /\ SlotNum[b] \in Nat /\ SlotNum[b] >= 1
  /\ Sizes \subseteq Nat
<1>1. PageSize \in Nat /\ PageSize >= 2 /\ PageNum \in Nat /\ PageNum >= 1
  BY TableAssumption
<1>2. 1 * PageSize <= PageNum * PageSize /\ PageNum * PageSize \in Nat
  BY <1>1, PageProducts
<1>3. 1 * PageSize = PageSize
  BY <1>1
<1>4. MaxIndex = PageNum * PageSize - 1
  BY DEF MaxIndex
<1>5. MaxIndex \in Nat /\ MaxIndex >= 1
  BY <1>1, <1>2, <1>3, <1>4
<1>6. \A b \in Blocks : TagOf[b] \in Tags /\ SlotNum[b] \in Nat /\ SlotNum[b] >= 1
  BY TableAssumption DEF Tags
<1>7. Sizes \subseteq Nat
  BY <1>6 DEF Sizes
<1>. QED  BY <1>1, <1>4, <1>5, <1>6, <1>7 DEF Keys, RootKey

\* What TypeOK says about one array.
LEMMA ArrayType ==
  ASSUME TypeOK, NEW k \in Keys
  PROVE  /\ ip[k] \in Arrays
         /\ ip[k] = [i \in DOMAIN ip[k] |-> ip[k][i]]
         /\ \A i \in DOMAIN ip[k] : ip[k][i] \in Blocks \cup {Unset}
         /\ DOMAIN ip[k] = {} \/ DOMAIN ip[k] = 0 .. slot_num[k] - 1
         /\ slot_num[k] \in Sizes
<1>1. ip[k] \in Arrays
  BY DEF TypeOK
<1>2. PICK n \in Sizes : ip[k] \in [0 .. n - 1 -> Blocks \cup {Unset}]
  BY <1>1 DEF Arrays
<1>. QED  BY <1>1, <1>2 DEF TypeOK

----------------------------------------------------------------------------
(* The lock. *)

\* The stage is that of the thread in the critical section.
LEMMA StageIs ==
  ASSUME TypeOK, LockInv, NEW t \in Threads
  PROVE  /\ pc[t] \in Critical \cup {"exit"} => Stage = pc[t]
         /\ pc[t] \in {"idle", "create", "fill"} => lock # t
  BY TableAssumption DEF TypeOK, LockInv, Stage, Critical, Pcs

\* The table starts with the root's shadow alone and the lock free: the invariant holds.
THEOREM InitInv == Init => IndInv
<1> SUFFICES ASSUME Init PROVE IndInv
  OBVIOUS
<1> USE ConstantTypes
<1>1. TypeOK
  <2>1. slot_num \in [Keys -> Sizes]
    BY DEF Init, Sizes
  <2>2. ip \in [Keys -> Arrays]
    <3>1. \A k \in Keys : [i \in 0 .. slot_num[k] - 1 |-> Unset]
                            \in [0 .. slot_num[k] - 1 -> Blocks \cup {Unset}]
      OBVIOUS
    <3>2. \A k \in Keys : slot_num[k] \in Sizes
      BY <2>1
    <3>3. \A k \in Keys : [i \in 0 .. slot_num[k] - 1 |-> Unset] \in Arrays
      BY <3>1, <3>2 DEF Arrays
    <3>. QED  BY <3>3 DEF Init
  <2>3. \A k \in Keys : DOMAIN ip[k] \in {{}, 0 .. slot_num[k] - 1}
    BY DEF Init
  <2>4. 0 \in Keys /\ PageSize - 1 <= MaxIndex
    <3>1. 1 * PageSize <= PageNum * PageSize
      BY PageProducts
    <3>. QED  BY <3>1
  <2>5. /\ lock \in Threads \cup {NoThread} /\ table \in [Tags -> Keys]
        /\ next \in 0 .. MaxIndex + 1 /\ last \in -1 .. MaxIndex
        /\ pages \in 0 .. PageNum
    BY <2>4 DEF Init, NotFound
  <2>6. /\ code \subseteq [block : Blocks, key : Keys]
        /\ pc \in [Threads -> Pcs]
        /\ block \in [Threads -> Blocks \cup {Unset}]
        /\ key \in [Threads -> Keys] /\ slot \in [Threads -> Nat]
    BY <2>4 DEF Init, Pcs, RootKey
  <2>. QED  BY <2>1, <2>2, <2>3, <2>5, <2>6 DEF TypeOK
<1>2. LockInv
  BY TableAssumption DEF Init, LockInv, Critical
<1>3. PageInv
  <2>1. Stage = "idle"
    BY DEF Init, Stage
  <2>2. 1 * PageSize = PageSize
    OBVIOUS
  <2>. QED  BY <2>1, <2>2 DEF Init, PageInv
<1>4. TableInv /\ AnalysisInv /\ CodeInv /\ SlotInv
  BY DEF Init, TableInv, AnalysisInv, CodeInv, SlotInv, NotFound, RootKey
<1>. QED  BY <1>1, <1>2, <1>3, <1>4 DEF IndInv

\* At most one thread is in the critical section of bb_shadow_lock, and it holds the lock.
LEMMA LockStep ==
  ASSUME TypeOK, LockInv, [Next]_vars
  PROVE  LockInv'
<1> USE TableAssumption DEF TypeOK, LockInv, Critical, Pcs, Goto
<1>1. CASE UNCHANGED vars
  BY <1>1 DEF vars
<1>2. ASSUME NEW t \in Threads, Acquire(t) PROVE LockInv'
  BY <1>2 DEF Acquire
<1>3. ASSUME NEW t \in Threads, Unlock(t) PROVE LockInv'
  BY <1>3 DEF Unlock
<1>4. ASSUME NEW t \in Threads,
             Found(t) \/ Claim(t) \/ TurnPage(t) \/ StorePage(t) \/ Config(t)
      PROVE  LockInv'
  BY <1>4 DEF Found, Claim, TurnPage, StorePage, Config
<1>5. ASSUME NEW t \in Threads, CreateCache(t) \/ Fill(t) \/ Emit(t) PROVE LockInv'
  BY <1>5 DEF CreateCache, Fill, Emit
<1>. QED  BY <1>1, <1>2, <1>3, <1>4, <1>5 DEF Next

\* A step outside the critical section leaves the stage, one inside moves it.
LEMMA StageStep ==
  ASSUME TypeOK, LockInv, TypeOK', LockInv', NEW t \in Threads,
         pc' = [pc EXCEPT ![t] = pc'[t]]
  PROVE  /\ pc'[t] \in Critical \cup {"exit"} => Stage' = pc'[t]
         /\ lock # t /\ lock' = lock => Stage' = Stage
         /\ lock' = NoThread => Stage' = "idle"
<1>1. pc'[t] \in Critical \cup {"exit"} => Stage' = pc'[t]
  BY TableAssumption DEF TypeOK, LockInv, Stage
<1>2. ASSUME lock # t, lock' = lock PROVE Stage' = Stage
  BY <1>2 DEF TypeOK, Stage
<1>. QED  BY <1>1, <1>2 DEF Stage

----------------------------------------------------------------------------
(* Types. *)

\* One turn of the loop that fills an array leaves an array of the same length.
LEMMA FillType ==
  ASSUME TypeOK, NEW k \in Keys, NEW i \in DOMAIN ip[k], NEW b \in Blocks
  PROVE  /\ [ip[k] EXCEPT ![i] = b] \in Arrays
         /\ DOMAIN [ip[k] EXCEPT ![i] = b] = DOMAIN ip[k]
<1>1. ip[k] \in Arrays
  BY DEF TypeOK
<1>2. PICK n \in Sizes : ip[k] \in [0 .. n - 1 -> Blocks \cup {Unset}]
  BY <1>1 DEF Arrays
<1>3. [ip[k] EXCEPT ![i] = b] \in [0 .. n - 1 -> Blocks \cup {Unset}]
  BY <1>2
<1>. QED  BY <1>2, <1>3 DEF Arrays

\* The variables keep their types.
LEMMA TypeStep ==
  ASSUME IndInv, [Next]_vars
  PROVE  TypeOK'
<1> USE DEF IndInv
<1> USE ConstantTypes
<1>1. CASE UNCHANGED vars
  BY <1>1 DEF vars, shadows, TypeOK
<1>2. ASSUME NEW t \in Threads, Acquire(t) PROVE TypeOK'
  <2>1. block' \in [Threads -> Blocks \cup {Unset}]
    BY <1>2 DEF Acquire, TypeOK
  <2>2. pc' \in [Threads -> Pcs]
    BY <1>2 DEF Acquire, TypeOK, Goto, Pcs, Critical
  <2>. QED  BY <1>2, <2>1, <2>2 DEF Acquire, TypeOK, shadows
<1>3. ASSUME NEW t \in Threads, Found(t) PROVE TypeOK'
  <2>1. block[t] \in Blocks
    BY <1>3 DEF Found, AnalysisInv
  <2>2. key' \in [Threads -> Keys]
    BY <1>3, <2>1 DEF Found, TypeOK, Known
  <2>3. pc' \in [Threads -> Pcs]
    BY <1>3 DEF Found, TypeOK, Goto, Pcs, Critical
  <2>. QED  BY <1>3, <2>2, <2>3 DEF Found, TypeOK, shadows
<1>4. ASSUME NEW t \in Threads, Claim(t) PROVE TypeOK'
  <2>1. Stage = "lookup"
    BY <1>4, StageIs DEF Claim, Critical
  <2>2. next \in Nat /\ last \in -1 .. MaxIndex /\ next <= last
    BY <2>1 DEF PageInv, TypeOK
  <2>3. next' \in 0 .. MaxIndex + 1
    BY <1>4, <2>2 DEF Claim
  <2>4. key' \in [Threads -> Keys]
    <3>1. next \in Keys
      BY <2>2
    <3>. QED  BY <1>4, <3>1 DEF Claim, Goto, TypeOK
  <2>5. pc' \in [Threads -> Pcs]
    BY <1>4 DEF Claim, TypeOK, Goto, Pcs, Critical
  <2>. QED  BY <1>4, <2>3, <2>4, <2>5 DEF Claim, TypeOK
<1>5. ASSUME NEW t \in Threads, TurnPage(t) PROVE TypeOK'
  <2>1. Stage = "turn"
    BY <1>5, StageIs DEF TurnPage, Critical
  <2>2. last = pages * PageSize - 1
    BY <2>1 DEF PageInv, TypeOK
  <2>3. ASSUME pages < PageNum
        PROVE  last + PageSize \in -1 .. MaxIndex
    <3>1. pages \in Nat /\ pages + 1 <= PageNum
      BY <2>3 DEF TypeOK
    <3>2. (pages + 1) * PageSize <= PageNum * PageSize
      BY <3>1, PageProducts
    <3>3. (pages + 1) * PageSize = pages * PageSize + PageSize /\ pages * PageSize \in Nat
      BY <3>1, PageProducts
    <3>. QED  BY <2>2, <3>2, <3>3, PageProducts
  <2>4. last' \in -1 .. MaxIndex
    BY <1>5, <2>3 DEF TurnPage, TypeOK
  <2>5. pc' \in [Threads -> Pcs]
    BY <1>5 DEF TurnPage, TypeOK, Goto, Pcs, Critical
  <2>. QED  BY <1>5, <2>4, <2>5 DEF TurnPage, TypeOK
<1>6. ASSUME NEW t \in Threads, StorePage(t) PROVE TypeOK'
  <2>1. Stage = "store"
    BY <1>6, StageIs DEF StorePage, Critical
  <2>2. pages' \in 0 .. PageNum
    BY <1>6, <2>1 DEF StorePage, PageInv, TypeOK
  <2>3. pc' \in [Threads -> Pcs]
    BY <1>6 DEF StorePage, TypeOK, Goto, Pcs, Critical
  <2>. QED  BY <1>6, <2>2, <2>3 DEF StorePage, TypeOK
<1>7. ASSUME NEW t \in Threads, Config(t) PROVE TypeOK'
  <2>1. block[t] \in Blocks /\ key[t] \in Keys \ {RootKey}
    BY <1>7 DEF Config, AnalysisInv, TypeOK
  <2>2. DOMAIN ip[key[t]] = {}
    BY <1>7, <2>1 DEF Config, AnalysisInv, TableInv
  <2>3. slot_num' \in [Keys -> Sizes]
    BY <1>7, <2>1 DEF Config, TypeOK, Sizes
  <2>4. table' \in [Tags -> Keys]
    BY <1>7, <2>1 DEF Config, TypeOK
  <2>5. \A k \in Keys : DOMAIN ip[k] \in {{}, 0 .. slot_num'[k] - 1}
    BY <1>7, <2>1, <2>2 DEF Config, TypeOK
  <2>6. pc' \in [Threads -> Pcs]
    BY <1>7 DEF Config, TypeOK, Goto, Pcs, Critical
  <2>. QED  BY <1>7, <2>3, <2>4, <2>5, <2>6 DEF Config, TypeOK, shadows
<1>8. ASSUME NEW t \in Threads, Unlock(t) PROVE TypeOK'
  BY <1>8 DEF Unlock, TypeOK, Goto, Pcs, Critical, shadows
<1>9. ASSUME NEW t \in Threads, CreateCache(t) PROVE TypeOK'
  <2> DEFINE k == key[t]
  <2> DEFINE array == [i \in 0 .. slot_num[k] - 1 |-> Unset]
  <2>1. k \in Keys /\ slot_num[k] \in Sizes
    BY DEF TypeOK
  <2>2. array \in [0 .. slot_num[k] - 1 -> Blocks \cup {Unset}]
    OBVIOUS
  <2>3. array \in Arrays
    BY <2>1, <2>2 DEF Arrays
  <2>4. ip' = [ip EXCEPT ![k] = array]
    BY <1>9 DEF CreateCache
  <2>5. ip' \in [Keys -> Arrays]
    BY <2>1, <2>3, <2>4 DEF TypeOK
  <2>6. DOMAIN array = 0 .. slot_num[k] - 1
    OBVIOUS
  <2>7. \A j \in Keys : DOMAIN ip'[j] \in {{}, 0 .. slot_num[j] - 1}
    BY <2>1, <2>4, <2>6 DEF TypeOK
  <2>8. pc' \in [Threads -> Pcs] /\ slot' \in [Threads -> Nat]
    BY <1>9 DEF CreateCache, TypeOK, Goto, Pcs
  <2>. QED  BY <1>9, <2>5, <2>7, <2>8 DEF CreateCache, TypeOK, shadows
<1>10. ASSUME NEW t \in Threads, Fill(t) PROVE TypeOK'
  <2> DEFINE k == key[t]
  <2>1. k \in Keys /\ block[t] \in Blocks /\ slot[t] \in Nat
    BY <1>10 DEF Fill, AnalysisInv, TypeOK
  <2>2. CASE slot[t] \notin DOMAIN ip[k]
    <3>1. ip' = ip
      BY <1>10, <2>2 DEF Fill
    <3>. QED  BY <1>10, <2>1, <3>1 DEF Fill, TypeOK, shadows
  <2>3. CASE slot[t] \in DOMAIN ip[k]
    <3> DEFINE array == [ip[k] EXCEPT ![slot[t]] = block[t]]
    <3>1. ip' = [ip EXCEPT ![k] = array]
      BY <1>10, <2>3 DEF Fill
    <3>2. array \in Arrays /\ DOMAIN array = DOMAIN ip[k]
      BY <2>1, <2>3, FillType
    <3>3. ip' \in [Keys -> Arrays]
      BY <2>1, <3>1, <3>2 DEF TypeOK
    <3>4. \A j \in Keys : DOMAIN ip'[j] \in {{}, 0 .. slot_num[j] - 1}
      BY <2>1, <3>1, <3>2 DEF TypeOK
    <3>5. slot' \in [Threads -> Nat]
      BY <1>10, <2>1 DEF Fill, TypeOK
    <3>. QED  BY <1>10, <3>3, <3>4, <3>5 DEF Fill, TypeOK, shadows
  <2>. QED  BY <2>2, <2>3
<1>11. ASSUME NEW t \in Threads, Emit(t) PROVE TypeOK'
  <2>1. block[t] \in Blocks /\ key[t] \in Keys
    BY <1>11 DEF Emit, AnalysisInv, TypeOK
  <2>2. code' \subseteq [block : Blocks, key : Keys]
    BY <1>11, <2>1 DEF Emit, TypeOK
  <2>3. pc' \in [Threads -> Pcs]
    BY <1>11 DEF Emit, TypeOK, Goto, Pcs
  <2>. QED  BY <1>11, <2>2, <2>3 DEF Emit, TypeOK, shadows
<1>. QED
  BY <1>1, <1>2, <1>3, <1>4, <1>5, <1>6, <1>7, <1>8, <1>9, <1>10, <1>11 DEF Next

----------------------------------------------------------------------------
(* Pages, table and analyses. *)

\* The mark of the pages and the stored pages agree, except between the two stores.
LEMMA PageStep ==
  ASSUME IndInv, TypeOK', LockInv', [Next]_vars
  PROVE  PageInv'
<1> USE DEF IndInv
<1> USE ConstantTypes
<1>1. CASE UNCHANGED vars
  BY <1>1 DEF vars, shadows, PageInv, Stage
<1>2. ASSUME NEW t \in Threads, Acquire(t) PROVE PageInv'
  <2>1. Stage = "idle" /\ Stage' = "lookup"
    BY <1>2, TableAssumption DEF Acquire, Stage, Goto, TypeOK
  <2>. QED  BY <1>2, <2>1 DEF Acquire, PageInv, shadows
<1>3. ASSUME NEW t \in Threads, Found(t) PROVE PageInv'
  <2>1. Stage = "lookup"
    BY <1>3, StageIs DEF Found, Critical
  <2>2. Stage' = "unlock"
    BY <1>3, StageStep DEF Found, Critical, Goto, TypeOK
  <2>. QED  BY <1>3, <2>1, <2>2 DEF Found, PageInv, shadows
<1>4. ASSUME NEW t \in Threads, Claim(t) PROVE PageInv'
  <2>1. Stage = "lookup"
    BY <1>4, StageIs DEF Claim, Critical
  <2>2. pc'[t] = IF next = MaxIndex THEN "exit"
                 ELSE IF next >= last THEN "turn" ELSE "config"
    BY <1>4 DEF Claim, Goto, TypeOK
  <2>3. pc' = [pc EXCEPT ![t] = pc'[t]]
    BY <1>4, <2>2 DEF Claim, Goto, TypeOK
  <2>4. Stage' = pc'[t]
    BY <2>2, <2>3, StageStep DEF Critical
  <2>5. next' = next + 1 /\ last' = last /\ pages' = pages
    BY <1>4 DEF Claim
  <2>6. next \in Nat /\ last \in Int /\ next <= last /\ next' >= 1
    BY <2>1, <2>5 DEF PageInv, TypeOK
  <2>7. next' <= last' + IF Stage' \in {"turn", "exit"} THEN 1 ELSE 0
    BY <2>2, <2>4, <2>5, <2>6
  <2>8. Stage' # "store"
    BY <2>2, <2>4
  <2>. QED  BY <2>1, <2>5, <2>6, <2>7, <2>8 DEF PageInv
<1>5. ASSUME NEW t \in Threads, TurnPage(t) PROVE PageInv'
  <2>1. Stage = "turn"
    BY <1>5, StageIs DEF TurnPage, Critical
  <2>2. pc'[t] = IF pages < PageNum THEN "store" ELSE "exit"
    BY <1>5 DEF TurnPage, Goto, TypeOK
  <2>3. Stage' = pc'[t]
    BY <1>5, <2>2, StageStep DEF TurnPage, Critical, Goto, TypeOK
  <2>4. last = pages * PageSize - 1 /\ next <= last + 1
    <3>1. pages * PageSize \in Nat
      BY PageProducts DEF TypeOK
    <3>2. last = pages * PageSize - 1 + 0 /\ next <= last + 1
      BY <2>1 DEF PageInv
    <3>. QED  BY <3>1, <3>2
  <2>5. last' = last + IF pages < PageNum THEN PageSize ELSE 0
    BY <1>5 DEF TurnPage, TypeOK
  <2>6. next \in Nat /\ last \in Int /\ pages' = pages /\ next' = next
    BY <1>5 DEF TurnPage, TypeOK
  <2>. QED  BY <2>2, <2>3, <2>4, <2>5, <2>6 DEF PageInv
<1>6. ASSUME NEW t \in Threads, StorePage(t) PROVE PageInv'
  <2>1. Stage = "store"
    BY <1>6, StageIs DEF StorePage, Critical
  <2>2. Stage' = "config"
    BY <1>6, StageStep DEF StorePage, Critical, Goto, TypeOK
  <2>3. pages \in Nat /\ pages' = pages + 1
    BY <1>6 DEF StorePage, TypeOK
  <2>4. pages' * PageSize = pages * PageSize + PageSize /\ pages * PageSize \in Nat
    BY <2>3, PageProducts
  <2>5. last' = last /\ next' = next
    BY <1>6 DEF StorePage
  <2>6. last = pages * PageSize - 1 + PageSize /\ next <= last + 0
    BY <2>1 DEF PageInv
  <2>7. last' = pages' * PageSize - 1 + 0
    BY <2>4, <2>5, <2>6
  <2>. QED  BY <2>2, <2>5, <2>6, <2>7 DEF PageInv
<1>7. ASSUME NEW t \in Threads, Config(t) PROVE PageInv'
  <2>1. Stage = "config"
    BY <1>7, StageIs DEF Config, Critical
  <2>2. Stage' = "unlock"
    BY <1>7, StageStep DEF Config, Critical, Goto, TypeOK
  <2>. QED  BY <1>7, <2>1, <2>2 DEF Config, PageInv, shadows
<1>8. ASSUME NEW t \in Threads, Unlock(t) PROVE PageInv'
  <2>1. Stage = "unlock"
    BY <1>8, StageIs DEF Unlock, Critical
  <2>2. Stage' = "idle"
    BY <1>8 DEF Unlock, Stage
  <2>. QED  BY <1>8, <2>1, <2>2 DEF Unlock, PageInv, shadows
<1>9. ASSUME NEW t \in Threads, CreateCache(t) \/ Fill(t) \/ Emit(t) PROVE PageInv'
  <2>1. lock # t /\ lock' = lock
    BY <1>9, StageIs DEF CreateCache, Fill, Emit
  <2>2. pc' = [pc EXCEPT ![t] = pc'[t]]
    BY <1>9 DEF CreateCache, Fill, Emit, Goto, TypeOK
  <2>3. Stage' = Stage
    BY <2>1, <2>2, StageStep
  <2>. QED  BY <1>9, <2>3 DEF CreateCache, Fill, Emit, PageInv, shadows
<1>. QED
  BY <1>1, <1>2, <1>3, <1>4, <1>5, <1>6, <1>7, <1>8, <1>9 DEF Next

\* Keys in the table are claimed, and no two entries share one.
LEMMA TableStep ==
  ASSUME IndInv, TypeOK', [Next]_vars
  PROVE  TableInv'
<1> USE DEF IndInv
<1> USE ConstantTypes
<1> DEFINE Fresh(k) == \A g \in Tags : table[g] # k
<1>1. ASSUME UNCHANGED <<table, pages, ip>>, next' \in Nat, next <= next'
      PROVE  TableInv'
  <2>1. next \in Nat /\ \A g \in Tags : table[g] \in Nat
    BY DEF TypeOK
  <2>2. \A g \in Tags : table[g] # NotFound => table[g] < next'
    BY <1>1, <2>1 DEF TableInv
  <2>. QED  BY <1>1, <2>2 DEF TableInv
<1>2. CASE UNCHANGED vars
  BY <1>1, <1>2 DEF vars, shadows, TypeOK
<1>3. ASSUME NEW t \in Threads,
             Acquire(t) \/ Found(t) \/ Claim(t) \/ TurnPage(t) \/ Unlock(t) \/ Emit(t)
      PROVE  TableInv'
  BY <1>1, <1>3 DEF Acquire, Found, Claim, TurnPage, Unlock, Emit, shadows, TypeOK
<1>4. ASSUME NEW t \in Threads, StorePage(t) PROVE TableInv'
  <2>1. pages' * PageSize = pages * PageSize + PageSize /\ pages * PageSize \in Nat
    BY <1>4, PageProducts DEF StorePage, TypeOK
  <2>2. \A g \in Tags : table[g] \in Nat
    BY DEF TypeOK
  <2>3. \A g \in Tags : table[g] # NotFound => table[g] < pages' * PageSize
    BY <2>1, <2>2 DEF TableInv
  <2>. QED  BY <1>4, <2>3 DEF StorePage, TableInv
<1>5. ASSUME NEW t \in Threads, Config(t) PROVE TableInv'
  <2> DEFINE g0 == TagOf[block[t]]
  <2>1. /\ key[t] = next - 1 /\ key[t] # RootKey /\ key[t] < pages * PageSize
        /\ Fresh(key[t]) /\ block[t] \in Blocks
    BY <1>5 DEF Config, AnalysisInv
  <2>2. g0 \in Tags /\ table' = [table EXCEPT ![g0] = key[t]]
    BY <1>5, <2>1 DEF Config
  <2>3. next' = next /\ pages' = pages /\ ip' = ip /\ next \in Nat /\ key[t] \in Keys
    BY <1>5 DEF Config, shadows, TypeOK
  <2>4. \A g \in Tags : table'[g] = IF g = g0 THEN key[t] ELSE table[g]
    BY <2>2 DEF TypeOK
  <2>5. \A g \in Tags : table'[g] # NotFound =>
          table'[g] < next' /\ table'[g] < pages' * PageSize
    BY <2>1, <2>3, <2>4 DEF TableInv
  <2>6. \A g, h \in Tags : table'[g] = table'[h] /\ table'[g] # NotFound => g = h
    BY <2>1, <2>4 DEF TableInv
  <2>7. \A k \in Keys \ {RootKey} :
          (\A g \in Tags : table'[g] # k) => DOMAIN ip'[k] = {}
    <3> SUFFICES ASSUME NEW k \in Keys \ {RootKey}, \A g \in Tags : table'[g] # k
                 PROVE  DOMAIN ip[k] = {}
      BY <2>3
    <3>1. \A g \in Tags : table[g] = k => g = g0
      BY <2>4
    <3>2. table[g0] # k
      BY <1>5 DEF Config, AnalysisInv, NotFound, RootKey
    <3>. QED  BY <3>1, <3>2 DEF TableInv
  <2>. QED  BY <2>5, <2>6, <2>7 DEF TableInv
<1>6. ASSUME NEW t \in Threads, CreateCache(t) \/ Fill(t) PROVE TableInv'
  <2>1. table[TagOf[block[t]]] = key[t] /\ TagOf[block[t]] \in Tags /\ key[t] \in Keys
    BY <1>6 DEF CreateCache, Fill, AnalysisInv, TypeOK
  <2>2. \A k \in Keys : k # key[t] => ip'[k] = ip[k]
    BY <1>6 DEF CreateCache, Fill, TypeOK
  <2>3. UNCHANGED <<table, next, pages>>
    BY <1>6 DEF CreateCache, Fill, shadows
  <2>4. \A k \in Keys \ {RootKey} : Fresh(k) => DOMAIN ip'[k] = {}
    BY <2>1, <2>2 DEF TableInv
  <2>. QED  BY <2>3, <2>4 DEF TableInv
<1>. QED  BY <1>2, <1>3, <1>4, <1>5, <1>6 DEF Next

\* Two threads in the critical section are one.
LEMMA Exclusive ==
  ASSUME LockInv, NEW t \in Threads, NEW u \in Threads,
         pc[t] \in Critical \cup {"exit"}, pc[u] \in Critical \cup {"exit"}
  PROVE  t = u
BY DEF LockInv

\* What a thread inside drcctlib_event_bb_analysis has read still holds.
LEMMA AnalysisStep ==
  ASSUME IndInv, TypeOK', LockInv', PageInv', [Next]_vars
  PROVE  AnalysisInv'
<1> USE DEF IndInv
<1> USE ConstantTypes
<1>1. CASE UNCHANGED vars
  BY <1>1 DEF vars, shadows, AnalysisInv
<1>2. SUFFICES ASSUME NEW t \in Threads, NEW u \in Threads,
                      \/ Acquire(t) \/ Found(t) \/ Claim(t) \/ TurnPage(t) \/ StorePage(t)
                      \/ Config(t) \/ Unlock(t) \/ CreateCache(t) \/ Fill(t) \/ Emit(t)
               PROVE  AnalysisInv!(u)'
  BY <1>1, <1>2 DEF Next, AnalysisInv
<1>3. AnalysisInv!(u) /\ AnalysisInv!(t)
  BY DEF AnalysisInv
<1>4. u # t /\ pc[t] \in Critical => pc[u] \notin Critical
  BY Exclusive
<1>5. CASE Acquire(t)
  BY <1>3, <1>4, <1>5 DEF Acquire, TypeOK, Goto, shadows, Critical
<1>6. CASE Found(t)
  <2>1. CASE u # t
    BY <1>3, <1>6, <2>1 DEF Found, TypeOK, Goto, shadows
  <2>2. CASE u = t
    BY <1>3, <1>6, <2>2 DEF Found, Known, TypeOK, Goto, shadows, NotFound, RootKey
  <2>. QED  BY <2>1, <2>2
<1>7. CASE Claim(t)
  <2>1. CASE u # t
    <3>1. pc[u] \notin {"turn", "store", "config"}
      BY <1>4, <1>7, <2>1 DEF Claim, Critical
    <3>2. pc'[u] = pc[u] /\ key'[u] = key[u]
      BY <1>7, <2>1 DEF Claim, TypeOK, Goto
    <3>. QED  BY <1>3, <1>7, <3>1, <3>2 DEF Claim
  <2>2. CASE u = t
    <3>1. Stage = "lookup"
      BY <1>7, StageIs DEF Claim, Critical
    <3>2. pages * PageSize \in Nat
      BY PageProducts DEF TypeOK
    <3>3. last = pages * PageSize - 1 + 0 /\ next <= last + 0 /\ next >= 1
      BY <3>1 DEF PageInv
    <3>4. next \in Nat /\ last \in Int /\ \A g \in Tags : table[g] \in Nat
      BY DEF TypeOK
    <3>5. \A g \in Tags : table[g] # next
      <4>1. \A g \in Tags : table[g] # 0 => table[g] < next
        BY DEF TableInv, NotFound
      <4>. QED  BY <3>3, <3>4, <4>1
    <3>6. /\ block[t] \in Blocks /\ table[TagOf[block[t]]] = NotFound
          /\ block' = block /\ table' = table /\ next' = next + 1
          /\ last' = last /\ pages' = pages
      BY <1>3, <1>7 DEF Claim, Known
    <3>7. CASE next = MaxIndex
      <4>1. pc'[t] = "exit"
        BY <1>7, <3>7 DEF Claim, Goto, TypeOK
      <4>. QED  BY <2>2, <4>1
    <3>8. CASE next # MaxIndex
      <4>1. key'[t] = next /\ pc'[t] = IF next >= last THEN "turn" ELSE "config"
        BY <1>7, <3>8 DEF Claim, Goto, TypeOK
      <4>2. pc'[t] = "config" => key'[t] < pages * PageSize
        BY <3>2, <3>3, <3>4, <4>1
      <4>. QED
        BY <2>2, <3>3, <3>4, <3>5, <3>6, <4>1, <4>2 DEF RootKey
    <3>. QED  BY <3>7, <3>8
  <2>. QED  BY <2>1, <2>2
<1>8. CASE TurnPage(t)
  <2>1. CASE u # t
    <3>1. pc[u] \notin {"turn", "store", "config"}
      BY <1>4, <1>8, <2>1 DEF TurnPage, Critical
    <3>2. pc'[u] = pc[u]
      BY <1>8, <2>1 DEF TurnPage, TypeOK, Goto
    <3>. QED  BY <1>3, <1>8, <3>1, <3>2 DEF TurnPage
  <2>2. CASE u = t
    <3>1. last \in Int /\ key[t] \in Int
      BY DEF TypeOK
    <3>2. CASE pages < PageNum
      <4>1. pc'[t] = "store" /\ last' = last + PageSize
        BY <1>8, <3>2 DEF TurnPage, Goto, TypeOK
      <4>. QED  BY <1>3, <1>8, <2>2, <3>1, <4>1 DEF TurnPage
    <3>3. CASE ~ pages < PageNum
      <4>1. pc'[t] = "exit"
        BY <1>8, <3>3 DEF TurnPage, Goto, TypeOK
      <4>. QED  BY <2>2, <4>1
    <3>. QED  BY <3>2, <3>3
  <2>. QED  BY <2>1, <2>2
<1>9. CASE StorePage(t)
  <2>1. CASE u # t
    <3>1. pc[u] \notin {"turn", "store", "config"}
      BY <1>4, <1>9, <2>1 DEF StorePage, Critical
    <3>2. pc'[u] = pc[u]
      BY <1>9, <2>1 DEF StorePage, TypeOK, Goto
    <3>. QED  BY <1>3, <1>9, <3>1, <3>2 DEF StorePage
  <2>2. CASE u = t
    <3>1. Stage = "store"
      BY <1>9, StageIs DEF StorePage, Critical
    <3>2. last = pages * PageSize - 1 + PageSize
      BY <3>1 DEF PageInv
    <3>3. pages' * PageSize = pages * PageSize + PageSize /\ pages * PageSize \in Nat
      <4>1. pages \in Nat /\ pages <= pages
        BY DEF TypeOK
      <4>2. pages * PageSize \in Nat /\ (pages + 1) * PageSize = pages * PageSize + PageSize
        BY <4>1, PageProducts
      <4>3. pages' = pages + 1
        BY <1>9 DEF StorePage
      <4>. QED  BY <4>2, <4>3
    <3>4. key[t] <= last /\ key[t] \in Int
      BY <1>3, <1>9 DEF StorePage, TypeOK
    <3>5. key[t] < pages' * PageSize
      BY <3>2, <3>3, <3>4
    <3>6. pc'[t] = "config"
      BY <1>9 DEF StorePage, Goto, TypeOK
    <3>. QED  BY <1>3, <1>9, <2>2, <3>5, <3>6 DEF StorePage
  <2>. QED  BY <2>1, <2>2
<1>10. CASE Config(t)
  <2>1. /\ block[t] \in Blocks /\ TagOf[block[t]] \in Tags
        /\ table[TagOf[block[t]]] = NotFound /\ key[t] # RootKey
    BY <1>3, <1>10 DEF Config
  <2>2. table' = [table EXCEPT ![TagOf[block[t]]] = key[t]]
    BY <1>10 DEF Config
  <2>3. CASE u # t
    <3>1. pc[u] \notin {"turn", "store", "config"}
      BY <1>4, <1>10, <2>3 DEF Config, Critical
    <3>2. pc'[u] = pc[u] /\ key' = key /\ block' = block /\ slot' = slot
      BY <1>10, <2>3 DEF Config, TypeOK, Goto
    <3>3. ASSUME pc[u] \in {"unlock", "create", "fill"}
          PROVE  table'[TagOf[block[u]]] = key[u] /\ key[u] # RootKey
      <4>1. /\ block[u] \in Blocks /\ table[TagOf[block[u]]] = key[u]
            /\ key[u] # RootKey
        BY <1>3, <3>3
      <4>2. TagOf[block[u]] # TagOf[block[t]]
        BY <2>1, <4>1 DEF NotFound, RootKey
      <4>. QED  BY <2>2, <4>1, <4>2 DEF TypeOK
    <3>. QED  BY <1>3, <3>1, <3>2, <3>3
  <2>4. CASE u = t
    <3>1. pc'[t] = "unlock" /\ table'[TagOf[block[t]]] = key[t]
      BY <1>10, <2>1, <2>2 DEF Config, Goto, TypeOK
    <3>. QED  BY <1>10, <2>1, <2>4, <3>1 DEF Config
  <2>. QED  BY <2>3, <2>4
<1>11. CASE Unlock(t)
  BY <1>3, <1>11 DEF Unlock, TypeOK, Goto, shadows
<1>12. CASE CreateCache(t)
  <2>1. SlotNum[block[t]] >= 0
    BY <1>3, <1>12 DEF CreateCache
  <2>. QED  BY <1>3, <1>12, <2>1 DEF CreateCache, TypeOK, Goto, shadows
<1>13. CASE Fill(t)
  <2>1. slot[t] \in Nat /\ SlotNum[block[t]] \in Nat
    BY <1>3, <1>13 DEF Fill, TypeOK
  <2>2. /\ slot' = [slot EXCEPT ![t] = slot[t] + 1] /\ slot[t] < SlotNum[block[t]]
        /\ UNCHANGED <<table, next, last, pages, pc, block, key>>
    BY <1>13 DEF Fill, shadows
  <2>3. u = t => slot'[u] <= SlotNum[block[u]]
    BY <2>1, <2>2 DEF TypeOK
  <2>4. u # t => slot'[u] = slot[u]
    BY <2>2 DEF TypeOK
  <2>. QED  BY <1>3, <2>2, <2>3, <2>4
<1>14. CASE Emit(t)
  BY <1>3, <1>14 DEF Emit, TypeOK, Goto, shadows
<1>. QED
  BY <1>2, <1>5, <1>6, <1>7, <1>8, <1>9, <1>10, <1>11, <1>12, <1>13, <1>14

\* The key inserted in the code of a block stays the one the table has for it.
LEMMA CodeStep ==
  ASSUME IndInv, TypeOK', [Next]_vars
  PROVE  CodeInv'
<1> USE DEF IndInv
<1> USE ConstantTypes
<1>1. ASSUME code' \subseteq code, table' = table PROVE CodeInv'
  BY <1>1 DEF CodeInv
<1>2. CASE UNCHANGED vars
  BY <1>1, <1>2 DEF vars
<1>3. ASSUME NEW t \in Threads,
             \/ Acquire(t) \/ Found(t) \/ Claim(t) \/ TurnPage(t) \/ StorePage(t)
             \/ Unlock(t) \/ CreateCache(t) \/ Fill(t)
      PROVE  CodeInv'
  BY <1>1, <1>3 DEF Acquire, Found, Claim, TurnPage, StorePage, Unlock, CreateCache, Fill
<1>4. ASSUME NEW t \in Threads, Config(t) PROVE CodeInv'
  <2>1. table[TagOf[block[t]]] = NotFound
    BY <1>4 DEF Config, AnalysisInv
  <2>2. ASSUME NEW c \in code PROVE table'[TagOf[c.block]] = c.key /\ c.key # RootKey
    <3>1. c.block \in Blocks /\ TagOf[c.block] \in Tags
      BY DEF TypeOK
    <3>2. table[TagOf[c.block]] = c.key /\ c.key # RootKey
      BY DEF CodeInv
    <3>3. TagOf[c.block] # TagOf[block[t]]
      BY <2>1, <3>2 DEF NotFound, RootKey
    <3>. QED  BY <1>4, <3>1, <3>2, <3>3 DEF Config, TypeOK
  <2>. QED  BY <1>4, <2>2 DEF Config, CodeInv
<1>5. ASSUME NEW t \in Threads, Emit(t) PROVE CodeInv'
  <2>1. table[TagOf[block[t]]] = key[t] /\ key[t] # RootKey
    BY <1>5 DEF Emit, AnalysisInv
  <2>. QED  BY <1>5, <2>1 DEF Emit, CodeInv
<1>. QED  BY <1>2, <1>3, <1>4, <1>5 DEF Next

----------------------------------------------------------------------------
(* Slots.  A thread that holds the key of a block whose code is never replaced is *)
(* building that block.                                                           *)

\* Who builds a key whose code is not replaced builds the block that key is of.
LEMMA SteadyHolder ==
  ASSUME TypeOK, TableInv, AnalysisInv,
         NEW b \in Blocks, Steady(TagOf[b]), NEW t \in Threads,
         table[TagOf[b]] # NotFound, Holds(t, table[TagOf[b]])
  PROVE  block[t] = b
<1>1. /\ block[t] \in Blocks
      /\ table[TagOf[block[t]]] = table[TagOf[b]]
  BY DEF Holds, AnalysisInv
<1>2. TagOf[block[t]] = TagOf[b]
  BY <1>1, ConstantTypes DEF TableInv
<1>. QED  BY <1>1, <1>2 DEF Steady

\* A step that leaves a shadow alone and takes no holder away from it.
LEMMA ShadowKept ==
  ASSUME NEW b \in Blocks, NEW k \in Keys, ShadowInv(b, k),
         ip'[k] = ip[k], slot_num'[k] = slot_num[k],
         \A t \in Threads : Holds(t, k) =>
           /\ Holds(t, k)'
           /\ pc'[t] = "fill" => pc[t] = "fill"
           /\ slot'[t] = slot[t]
  PROVE  ShadowInv(b, k)'
BY DEF ShadowInv, WillFill

\* Each slot of a key is right, or a thread will still pass it, in the next state too.
LEMMA SlotStep ==
  ASSUME IndInv, TypeOK', [Next]_vars
  PROVE  SlotInv'
<1> USE DEF IndInv
<1> USE ConstantTypes
<1> SUFFICES ASSUME NEW b \in Blocks, Steady(TagOf[b]), NEW k \in Keys,
                    k = table'[TagOf[b]], k # NotFound
             PROVE  ShadowInv(b, k)'
  <2>1. \A b \in Blocks : table'[TagOf[b]] \in Keys
    BY DEF TypeOK
  <2>. QED  BY <2>1 DEF SlotInv, Steady
<1>1. table[TagOf[b]] = k => ShadowInv(b, k)
  BY DEF SlotInv
<1>2. CASE UNCHANGED vars
  BY <1>1, <1>2, ShadowKept DEF vars, Holds
<1>3. ASSUME NEW t \in Threads,
             \/ Acquire(t) \/ Found(t) \/ Claim(t) \/ TurnPage(t) \/ StorePage(t)
             \/ Unlock(t)
      PROVE  ShadowInv(b, k)'
  <2>1. UNCHANGED <<table, ip, slot_num, slot>>
    BY <1>3 DEF Acquire, Found, Claim, TurnPage, StorePage, Unlock
  <2>2. \A u \in Threads : Holds(u, k) =>
          /\ pc'[u] \in {"unlock", "create", "fill"} /\ key'[u] = key[u]
          /\ pc'[u] = "fill" => pc[u] = "fill"
    BY <1>3 DEF Acquire, Found, Claim, TurnPage, StorePage, Unlock, Holds, Goto, TypeOK
  <2>. QED  BY <1>1, <2>1, <2>2, ShadowKept DEF Holds
<1>4. ASSUME NEW t \in Threads, Config(t) PROVE ShadowInv(b, k)'
  <2>1. /\ block[t] \in Blocks /\ TagOf[block[t]] \in Tags /\ TagOf[b] \in Tags
        /\ key[t] # RootKey /\ key[t] \in Keys
        /\ table[TagOf[block[t]]] = NotFound /\ \A g \in Tags : table[g] # key[t]
    BY <1>4 DEF Config, AnalysisInv, TypeOK
  <2>2. /\ table' = [table EXCEPT ![TagOf[block[t]]] = key[t]]
        /\ slot_num' = [slot_num EXCEPT ![key[t]] = SlotNum[block[t]]]
        /\ UNCHANGED <<ip, key, slot>>
    BY <1>4 DEF Config
  <2>3. pc' = [pc EXCEPT ![t] = "unlock"] /\ pc[t] = "config"
    BY <1>4 DEF Config, Goto
  <2>4. CASE TagOf[b] = TagOf[block[t]]
    <3>1. k = key[t] /\ b = block[t]
      BY <2>1, <2>2, <2>4 DEF TypeOK, Steady
    <3>2. slot_num'[k] = SlotNum[b]
      BY <2>2, <3>1 DEF TypeOK
    <3>3. DOMAIN ip'[k] = {}
      BY <2>1, <2>2, <3>1 DEF TableInv
    <3>4. Holds(t, k)' /\ pc'[t] # "fill"
      BY <2>2, <2>3, <3>1 DEF Holds, TypeOK
    <3>5. \A i \in 0 .. SlotNum[b] - 1 : WillFill(t, k, i)'
      BY <3>4 DEF WillFill
    <3>. QED  BY <3>2, <3>3, <3>4, <3>5 DEF ShadowInv
  <2>5. CASE TagOf[b] # TagOf[block[t]]
    <3>1. table[TagOf[b]] = k
      BY <2>1, <2>2, <2>5 DEF TypeOK
    <3>2. k # key[t]
      BY <2>1, <3>1
    <3>3. slot_num'[k] = slot_num[k] /\ ip'[k] = ip[k]
      BY <2>1, <2>2, <3>2 DEF TypeOK
    <3>4. \A u \in Threads : Holds(u, k) => pc'[u] = pc[u] /\ key'[u] = key[u]
      BY <2>2, <2>3 DEF Holds, TypeOK
    <3>. QED  BY <1>1, <2>2, <3>1, <3>3, <3>4, ShadowKept DEF Holds
  <2>. QED  BY <2>4, <2>5
<1>5. ASSUME NEW t \in Threads, CreateCache(t) PROVE ShadowInv(b, k)'
  <2>1. ShadowInv(b, k)
    BY <1>1, <1>5 DEF CreateCache
  <2>2. /\ ip' = [ip EXCEPT ![key[t]] = [i \in 0 .. slot_num[key[t]] - 1 |-> Unset]]
        /\ slot' = [slot EXCEPT ![t] = 0] /\ pc' = [pc EXCEPT ![t] = "fill"]
        /\ UNCHANGED <<slot_num, key>> /\ pc[t] = "create"
    BY <1>5 DEF CreateCache, Goto
  <2>3. CASE k = key[t]
    <3>1. DOMAIN ip'[k] = 0 .. SlotNum[b] - 1
      <4>1. ip'[k] = [i \in 0 .. slot_num[k] - 1 |-> Unset]
        BY <2>2, <2>3 DEF TypeOK
      <4>. QED  BY <2>1, <4>1 DEF ShadowInv
    <3>2. Holds(t, k)' /\ slot'[t] = 0
      BY <2>2, <2>3 DEF Holds, TypeOK
    <3>3. \A i \in 0 .. SlotNum[b] - 1 : WillFill(t, k, i)'
      BY <3>2 DEF WillFill
    <3>. QED  BY <2>1, <2>2, <3>1, <3>3 DEF ShadowInv
  <2>4. CASE k # key[t]
    <3>1. ip'[k] = ip[k] /\ slot_num'[k] = slot_num[k]
      BY <2>2, <2>4 DEF TypeOK
    <3>2. \A u \in Threads : Holds(u, k) =>
            u # t /\ pc'[u] = pc[u] /\ key'[u] = key[u] /\ slot'[u] = slot[u]
      BY <2>2, <2>4 DEF Holds, TypeOK
    <3>. QED  BY <2>1, <3>1, <3>2, ShadowKept DEF Holds
  <2>. QED  BY <2>3, <2>4
<1>6. ASSUME NEW t \in Threads, Fill(t) PROVE ShadowInv(b, k)'
  <2>1. ShadowInv(b, k)
    BY <1>1, <1>6 DEF Fill
  <2>2. /\ pc[t] = "fill" /\ slot[t] < SlotNum[block[t]] /\ UNCHANGED <<slot_num, key, pc>>
        /\ slot' = [slot EXCEPT ![t] = @ + 1] /\ slot[t] \in Nat /\ key[t] \in Keys
        /\ table[TagOf[b]] = k
    BY <1>6 DEF Fill, TypeOK
  <2>3. ip' = IF slot[t] \in DOMAIN ip[key[t]]
              THEN [ip EXCEPT ![key[t]] = [ip[key[t]] EXCEPT ![slot[t]] = block[t]]]
              ELSE ip
    BY <1>6 DEF Fill
  <2>4. CASE k = key[t]
    <3>1. block[t] = b /\ slot[t] \in 0 .. SlotNum[b] - 1
      <4>1. block[t] = b
        BY <2>2, <2>4, SteadyHolder DEF Holds
      <4>. QED  BY <2>2, <4>1
    <3>2. DOMAIN ip'[k] = DOMAIN ip[k]
      BY <2>2, <2>3, <2>4, <3>1, FillType DEF TypeOK
    <3>3. \A i \in DOMAIN ip[k] : ip'[k][i] = IF i = slot[t] THEN b ELSE ip[k][i]
      <4>1. ip[k] = [i \in DOMAIN ip[k] |-> ip[k][i]]
        BY ArrayType
      <4>. QED  BY <2>2, <2>3, <2>4, <3>1, <4>1 DEF TypeOK
    <3>4. \A u \in Threads : Holds(u, k)' <=> Holds(u, k)
      BY <2>2 DEF Holds
    <3>5. ASSUME NEW i \in 0 .. SlotNum[b] - 1
          PROVE  \/ i \in DOMAIN ip'[k] /\ ip'[k][i] = b
                 \/ \E u \in Threads : WillFill(u, k, i)'
      <4>1. CASE i \in DOMAIN ip[k] /\ (ip[k][i] = b \/ i = slot[t])
        BY <3>2, <3>3, <4>1
      <4>2. CASE DOMAIN ip[k] = {}
        <5>1. PICK u \in Threads : Holds(u, k) /\ pc[u] # "fill"
          BY <2>1, <4>2, <3>1 DEF ShadowInv
        <5>. QED  BY <2>2, <3>4, <5>1 DEF WillFill
      <4>3. CASE DOMAIN ip[k] # {} /\ ~ (ip[k][i] = b \/ i = slot[t])
        <5>1. PICK u \in Threads : WillFill(u, k, i)
          BY <2>1, <4>3 DEF ShadowInv
        <5>2. slot[u] \in Nat /\ i \in Nat /\ i # slot[t]
          BY <4>3 DEF TypeOK
        <5>3. pc[u] = "fill" => slot'[u] <= i
          BY <2>2, <5>1, <5>2 DEF WillFill, TypeOK
        <5>. QED  BY <2>2, <3>4, <5>1, <5>3 DEF WillFill
      <4>. QED  BY <2>1, <4>1, <4>2, <4>3 DEF ShadowInv
    <3>. QED  BY <2>1, <2>2, <3>2, <3>4, <3>5 DEF ShadowInv
  <2>5. CASE k # key[t]
    <3>1. ip'[k] = ip[k]
      BY <2>2, <2>3, <2>5 DEF TypeOK
    <3>2. \A u \in Threads : Holds(u, k) => u # t /\ slot'[u] = slot[u]
      BY <2>2, <2>5 DEF Holds, TypeOK
    <3>. QED  BY <2>1, <2>2, <3>1, <3>2, ShadowKept DEF Holds
  <2>. QED  BY <2>4, <2>5
<1>7. ASSUME NEW t \in Threads, Emit(t) PROVE ShadowInv(b, k)'
  <2>1. ShadowInv(b, k) /\ table[TagOf[b]] = k
    BY <1>1, <1>7 DEF Emit
  <2>2. /\ UNCHANGED <<ip, slot_num>> /\ pc[t] = "fill" /\ slot[t] = SlotNum[block[t]]
        /\ \A u \in Threads \ {t} :
             pc'[u] = pc[u] /\ key'[u] = key[u] /\ slot'[u] = slot[u]
    BY <1>7 DEF Emit, Goto, TypeOK
  <2>3. \A i \in 0 .. SlotNum[b] - 1 : ~ WillFill(t, k, i)
    <3>1. Holds(t, k) => block[t] = b
      BY <2>1, SteadyHolder
    <3>. QED  BY <2>2, <3>1 DEF WillFill
  <2>4. \A u \in Threads \ {t} : Holds(u, k)' <=> Holds(u, k)
    BY <2>2 DEF Holds
  <2>5. \A i \in 0 .. SlotNum[b] - 1, u \in Threads :
          WillFill(u, k, i) => WillFill(u, k, i)'
    BY <2>2, <2>3, <2>4 DEF WillFill
  <2>6. \A u \in Threads : Holds(u, k) /\ pc[u] # "fill" => Holds(u, k)' /\ pc'[u] # "fill"
    BY <2>2, <2>4
  <2>. QED  BY <2>1, <2>2, <2>5, <2>6 DEF ShadowInv
<1>. QED  BY <1>2, <1>3, <1>4, <1>5, <1>6, <1>7 DEF Next

----------------------------------------------------------------------------

\* IndInv holds in every reachable state.
THEOREM Invariant == Spec => []IndInv
<1>1. IndInv /\ [Next]_vars => IndInv'
  <2> SUFFICES ASSUME IndInv, [Next]_vars PROVE IndInv'
    OBVIOUS
  <2>1. TypeOK' /\ LockInv'
    BY TypeStep, LockStep DEF IndInv
  <2>2. PageInv'
    BY <2>1, PageStep
  <2>. QED
    BY <2>1, <2>2, TableStep, AnalysisStep, CodeStep, SlotStep DEF IndInv
<1>. QED  BY <1>1, InitInv, PTL DEF Spec

\* However many threads build blocks at once, the block table, the shadows and the state
\* of every analysis have their types; in particular no index passes the last shadow.
THEOREM TypeCorrect == Spec => []TypeOK
<1>1. IndInv => TypeOK
  BY DEF IndInv
<1>. QED  BY <1>1, Invariant, PTL

\* Code built at one pc carries one key, code at two pcs two, none the roots'.
THEOREM KeysUnique == Spec => []OneKeyPerBlock
<1>1. IndInv => OneKeyPerBlock
  <2> SUFFICES ASSUME IndInv PROVE OneKeyPerBlock
    OBVIOUS
  <2>1. \A c \in code : /\ TagOf[c.block] \in Tags
                        /\ table[TagOf[c.block]] = c.key /\ c.key # RootKey
    BY ConstantTypes DEF IndInv, CodeInv, TypeOK
  <2>2. \A c, d \in code : c.key = d.key => TagOf[c.block] = TagOf[d.block]
    BY <2>1 DEF IndInv, TableInv, NotFound, RootKey
  <2>. QED  BY <2>1, <2>2 DEF OneKeyPerBlock
<1>. QED  BY <1>1, Invariant, PTL

\* Every shadow a thread or a piece of code refers to lies in a stored page.
THEOREM PagesStored == Spec => []ShadowsStored
<1>1. IndInv => ShadowsStored
  <2> SUFFICES ASSUME IndInv PROVE ShadowsStored
    OBVIOUS
  <2>1. \A c \in code : c.key < pages * PageSize
    <3>1. \A c \in code : /\ TagOf[c.block] \in Tags
                          /\ table[TagOf[c.block]] = c.key /\ c.key # RootKey
      BY ConstantTypes DEF IndInv, CodeInv, TypeOK
    <3>. QED  BY <3>1 DEF IndInv, TableInv, NotFound, RootKey
  <2>2. ASSUME NEW t \in Threads, pc[t] \in {"unlock", "create", "fill"}
        PROVE  key[t] < pages * PageSize
    <3>1. /\ TagOf[block[t]] \in Tags
          /\ table[TagOf[block[t]]] = key[t] /\ key[t] # RootKey
      BY <2>2, ConstantTypes DEF IndInv, AnalysisInv
    <3>. QED  BY <3>1 DEF IndInv, TableInv, NotFound, RootKey
  <2>3. ASSUME NEW t \in Threads, pc[t] = "config" PROVE key[t] < pages * PageSize
    BY <2>3 DEF IndInv, AnalysisInv
  <2>. QED  BY <2>1, <2>2, <2>3 DEF ShadowsStored
<1>. QED  BY <1>1, Invariant, PTL

\* The shadow of a block whose code is never replaced is complete whenever nobody is
\* building the block again.
THEOREM SlotsComplete == Spec => []SlotsResolve
<1>1. IndInv => SlotsResolve
  <2> SUFFICES ASSUME IndInv, NEW c \in code, Steady(TagOf[c.block]),
                      \A t \in Threads : ~ Holds(t, c.key)
               PROVE  ip[c.key] = [i \in 0 .. SlotNum[c.block] - 1 |-> c.block]
    BY DEF SlotsResolve
  <2>1. /\ c.block \in Blocks /\ c.key \in Keys
        /\ table[TagOf[c.block]] = c.key /\ c.key # NotFound
    BY DEF IndInv, CodeInv, TypeOK, NotFound, RootKey
  <2>2. ShadowInv(c.block, c.key)
    BY <2>1 DEF IndInv, SlotInv
  <2>3. /\ DOMAIN ip[c.key] = 0 .. SlotNum[c.block] - 1
        /\ \A i \in 0 .. SlotNum[c.block] - 1 : ip[c.key][i] = c.block
    BY <2>2 DEF ShadowInv, WillFill
  <2>4. ip[c.key] = [i \in DOMAIN ip[c.key] |-> ip[c.key][i]]
    BY <2>1, ArrayType DEF IndInv
  <2>. QED  BY <2>3, <2>4
<1>. QED  BY <1>1, Invariant, PTL
=============================================================================
