------------------------ MODULE DataCentric_proofs ------------------------
(***************************************************************************)
(* The shadow memory and data-centric attribution for any number of        *)
(* threads, clients, modules and objects and any sizes: who owns memory,   *)
(* that the two levels are a map whatever the races, and that what the     *)
(* wrappers write is what a client reads.                                  *)
(***************************************************************************)
EXTENDS DataCentric, FiniteSetTheorems, WellFoundedInduction, TLAPS

(* Addresses. *)

\* A number is its quotient times the divisor and its remainder.
LEMMA Division ==
  \A x \in Nat, u \in Nat \ {0} :
    /\ x \div u \in Nat /\ x % u \in 0 .. u - 1 /\ x = (x \div u) * u + (x % u)
OBVIOUS

\* A smaller multiple is one of a smaller factor.
LEMMA Multiples ==
  \A a, b \in Nat, u \in Nat \ {0} : a * u < b * u => a < b
<1> SUFFICES ASSUME NEW a \in Nat, NEW b \in Nat, NEW u \in Nat \ {0}, a >= b
             PROVE  a * u >= b * u
  OBVIOUS
<1>1. PICK c \in Nat : a = b + c
  <2>1. a - b \in Nat /\ a = b + (a - b)
    OBVIOUS
  <2>. QED  BY <2>1
<1>2. a * u = b * u + c * u /\ c * u \in Nat /\ b * u \in Nat
  BY <1>1
<1>. QED  BY <1>2

\* Two multiples less than a divisor apart are the same.
LEMMA Near ==
  ASSUME NEW a \in Nat, NEW b \in Nat, NEW u \in Nat \ {0},
         NEW r \in 0 .. u - 1, NEW s \in 0 .. u - 1, a * u + r = b * u + s
  PROVE  a = b /\ r = s
<1>1. (a + 1) * u = a * u + u /\ (b + 1) * u = b * u + u /\ a * u \in Nat /\ b * u \in Nat
  OBVIOUS
<1>2. PICK x, y : x = a * u /\ y = b * u
  OBVIOUS
<1>3. x < y + u /\ y < x + u
  BY <1>1, <1>2
<1>4. a < b + 1 /\ b < a + 1
  <2>1. a * u < (b + 1) * u /\ b * u < (a + 1) * u
    BY <1>1, <1>2, <1>3
  <2>. QED  BY <2>1, Multiples
<1>5. a = b
  BY <1>4
<1>6. x = y /\ x + r = y + s /\ x \in Nat
  BY <1>1, <1>2, <1>5
<1>. QED  BY <1>5, <1>6

\* The number of entries of the two levels.
LEMMA SlotNums ==
  /\ Cardinality(Slots1) \in Nat \ {0} /\ Slots1 = 0 .. Cardinality(Slots1) - 1
  /\ Cardinality(Slots2) \in Nat \ {0} /\ Slots2 = 0 .. Cardinality(Slots2) - 1
  /\ PageSize \in Nat \ {0} /\ PageSize * Cardinality(Slots2) \in Nat \ {0}
<1>1. ASSUME NEW S \in {Slots1, Slots2}
      PROVE  Cardinality(S) \in Nat \ {0} /\ S = 0 .. Cardinality(S) - 1
  <2>1. IsFiniteSet(S) /\ S # {} /\ S = 0 .. Cardinality(S) - 1
    BY ShadowAssumption
  <2>. QED  BY <2>1, FS_CardinalityType, FS_EmptySet
<1>2. PageSize \in Nat \ {0}
  BY ShadowAssumption
<1>3. \A m, n \in Nat \ {0} : m * n \in Nat \ {0}
  OBVIOUS
<1>. QED  BY <1>1, <1>2, <1>3

\* The numbers the slots of an address are taken from.
LEMMA Addresses ==
  ASSUME NEW a \in Addr, NEW n1, NEW n2,
         n1 = Cardinality(Slots1), n2 = Cardinality(Slots2)
  PROVE  /\ a \in Nat /\ a < n1 * (PageSize * n2)
         /\ Slot1(a) = a \div (PageSize * n2) /\ Slot2(a) = (a \div PageSize) % n2
         /\ Offset(a) = a % PageSize
BY SlotNums DEF Addr, AddrNum, Slot1, Slot2, Offset

\* An address has an entry in the directory and in a table, and a place in a page.
LEMMA SlotsOf ==
  ASSUME NEW a \in Addr
  PROVE  a \in Nat /\ Slot1(a) \in Slots1 /\ Slot2(a) \in Slots2 /\ Offset(a) \in 0 .. PageSize - 1
<1>1. PICK n1, n2 : n1 = Cardinality(Slots1) /\ n2 = Cardinality(Slots2)
  OBVIOUS
<1>2. PICK u : u = PageSize * n2
  OBVIOUS
<1>3. n1 \in Nat \ {0} /\ n2 \in Nat \ {0} /\ u \in Nat \ {0} /\ PageSize \in Nat \ {0}
      /\ Slots1 = 0 .. n1 - 1 /\ Slots2 = 0 .. n2 - 1
  BY <1>1, <1>2, SlotNums
<1>4. /\ a \in Nat /\ a < n1 * u /\ Slot1(a) = a \div u /\ Slot2(a) = (a \div PageSize) % n2
      /\ Offset(a) = a % PageSize
  BY <1>1, <1>2, Addresses
<1>5. PICK q \in Nat : q = a \div u /\ q * u <= a
  <2>1. a \div u \in Nat /\ a % u \in 0 .. u - 1 /\ a = (a \div u) * u + (a % u)
    BY <1>3, <1>4, Division
  <2>2. PICK q, r : q = a \div u /\ r = a % u
    OBVIOUS
  <2>3. q \in Nat /\ r \in Nat /\ a = q * u + r
    BY <1>3, <2>1, <2>2
  <2>4. q * u <= a
    <3>1. q * u \in Nat
      BY <1>3, <2>3
    <3>2. PICK c : c = q * u
      OBVIOUS
    <3>. QED  BY <2>3, <3>1, <3>2
  <2>. QED  BY <2>2, <2>3, <2>4
<1>6. q < n1
  <2>1. q * u < n1 * u
    <3>1. q * u \in Nat /\ n1 * u \in Nat
      BY <1>3, <1>5
    <3>. QED  BY <1>4, <1>5, <3>1
  <2>. QED  BY <1>3, <2>1, Multiples
<1>7. (a \div PageSize) % n2 \in 0 .. n2 - 1 /\ a % PageSize \in 0 .. PageSize - 1
  BY <1>3, <1>4, Division
<1>. QED  BY <1>3, <1>4, <1>5, <1>6, <1>7

\* Two addresses do not share a cell.
LEMMA SlotsDiffer ==
  ASSUME NEW a \in Addr, NEW b \in Addr,
         Slot1(a) = Slot1(b), Slot2(a) = Slot2(b), Offset(a) = Offset(b)
  PROVE  a = b
<1>1. PICK n1, n2 : n1 = Cardinality(Slots1) /\ n2 = Cardinality(Slots2)
  OBVIOUS
<1>2. PICK p, u : p = PageSize /\ u = p * n2
  OBVIOUS
<1>3. n1 \in Nat \ {0} /\ n2 \in Nat \ {0} /\ u \in Nat \ {0} /\ p \in Nat \ {0}
  BY <1>1, <1>2, SlotNums
<1>4. \A x \in Addr : /\ x \in Nat
                      /\ Slot1(x) = x \div u /\ Slot2(x) = (x \div p) % n2 /\ Offset(x) = x % p
  BY <1>1, <1>2, Addresses
<1>5. PICK q \in Nat, r \in 0 .. u - 1, s \in 0 .. u - 1 : a = q * u + r /\ b = q * u + s
  <2>1. /\ a \div u \in Nat /\ a % u \in 0 .. u - 1 /\ a = (a \div u) * u + (a % u)
        /\ b % u \in 0 .. u - 1 /\ b = (b \div u) * u + (b % u)
    BY <1>3, <1>4, Division
  <2>. QED  BY <1>4, <2>1
<1>6. PICK x \in Nat, y \in Nat, o \in 0 .. p - 1 :
        a = x * p + o /\ b = y * p + o /\ x = a \div p /\ y = b \div p
  <2>1. /\ a \div p \in Nat /\ a % p \in 0 .. p - 1 /\ a = (a \div p) * p + (a % p)
        /\ b \div p \in Nat /\ b = (b \div p) * p + (b % p)
    BY <1>3, <1>4, Division
  <2>. QED  BY <1>4, <2>1
<1>7. PICK i \in Nat, k \in Nat, m \in 0 .. n2 - 1 : x = i * n2 + m /\ y = k * n2 + m
  <2>1. /\ x \div n2 \in Nat /\ x % n2 \in 0 .. n2 - 1 /\ x = (x \div n2) * n2 + (x % n2)
        /\ y \div n2 \in Nat /\ y = (y \div n2) * n2 + (y % n2)
    BY <1>3, Division
  <2>2. x % n2 = y % n2
    BY <1>4, <1>6
  <2>. QED  BY <2>1, <2>2
<1>8. PICK e : e = m * p + o /\ e \in 0 .. u - 1
  <2>1. (n2 - 1) * p = u - p /\ u - p \in Int
    BY <1>2, <1>3
  <2>2. m * p <= (n2 - 1) * p
    <3>1. PICK d \in Nat : n2 - 1 = m + d
      <4>1. n2 - 1 - m \in Nat /\ n2 - 1 = m + (n2 - 1 - m)
        BY <1>3
      <4>. QED  BY <4>1
    <3>2. (m + d) * p = m * p + d * p /\ d * p \in Nat /\ m * p \in Nat
      BY <1>3, <3>1
    <3>. QED  BY <3>1, <3>2
  <2>3. PICK z : z = m * p /\ z \in Nat
    BY <1>3
  <2>4. z <= u - p
    BY <2>1, <2>2, <2>3
  <2>5. z + o \in 0 .. u - 1
    BY <1>3, <2>3, <2>4
  <2>. QED  BY <2>3, <2>5
<1>9. a = i * u + e /\ b = k * u + e
  <2>1. x * p = i * u + m * p /\ y * p = k * u + m * p
    BY <1>2, <1>3, <1>7
  <2>2. /\ i * u \in Nat /\ k * u \in Nat /\ m * p \in Nat
    BY <1>3
  <2>3. PICK c, d, z : c = i * u /\ d = k * u /\ z = m * p
    OBVIOUS
  <2>4. a = (c + z) + o /\ b = (d + z) + o /\ e = z + o
    BY <1>6, <1>8, <2>1, <2>3
  <2>5. a = c + e /\ b = d + e
    BY <2>2, <2>3, <2>4
  <2>. QED  BY <2>3, <2>5
<1>10. i = q /\ k = q
  <2>1. i * u + e = q * u + r /\ k * u + e = q * u + s
    BY <1>5, <1>9
  <2>. QED  BY <1>3, <1>5, <1>7, <1>8, <2>1, Near
<1>. QED  BY <1>9, <1>10

\* The next address of the same page.
LEMMA SamePage ==
  ASSUME NEW a \in Addr, a + 1 \in Addr, Offset(a + 1) # 0
  PROVE  Slot1(a + 1) = Slot1(a) /\ Slot2(a + 1) = Slot2(a)
<1>1. PICK n1, n2 : n1 = Cardinality(Slots1) /\ n2 = Cardinality(Slots2)
  OBVIOUS
<1>2. PICK p, u : p = PageSize /\ u = p * n2
  OBVIOUS
<1>3. n1 \in Nat \ {0} /\ n2 \in Nat \ {0} /\ u \in Nat \ {0} /\ p \in Nat \ {0}
  BY <1>1, <1>2, SlotNums
<1>4. \A x \in Addr : /\ x \in Nat
                      /\ Slot1(x) = x \div u /\ Slot2(x) = (x \div p) % n2 /\ Offset(x) = x % p
  BY <1>1, <1>2, Addresses
<1>5. PICK b \in Nat : b = a + 1
  BY <1>4
<1>6. a \in Nat /\ b % p # 0
  BY <1>4, <1>5
<1>7. PICK x \in Nat, r \in 0 .. p - 1 : a = x * p + r /\ x = a \div p
  BY ZenonT(60), <1>3, <1>6, Division
<1>8. PICK y \in Nat, s \in 1 .. p - 1 : b = y * p + s /\ y = b \div p
  <2>1. b \div p \in Nat /\ b % p \in 0 .. p - 1 /\ b = (b \div p) * p + (b % p)
    BY <1>3, Division
  <2>2. b % p \in 1 .. p - 1
    BY <1>3, <1>6, <2>1
  <2>. QED  BY <2>1, <2>2
<1>9. x = y
  <2>1. PICK v, z : v = x * p /\ z = y * p /\ v \in Nat /\ z \in Nat
    BY <1>3
  <2>2. v + r = z + (s - 1) /\ s - 1 \in 0 .. p - 1
    BY <1>3, <1>5, <1>7, <1>8, <2>1
  <2>. QED  BY <1>3, <2>1, <2>2, Near
<1>10. PICK i \in Nat, e \in 0 .. u - 1 : a = i * u + e /\ i = a \div u
  BY ZenonT(60), <1>3, <1>6, Division
<1>11. PICK k \in Nat, f \in 0 .. u - 1 : b = k * u + f /\ k = b \div u
  BY <1>3, Division
<1>12. f # 0
  <2>1. SUFFICES ASSUME f = 0 PROVE FALSE
    OBVIOUS
  <2>2. k * u = (k * n2) * p /\ k * n2 \in Nat /\ k * u \in Nat
    BY <1>2, <1>3
  <2>3. (k * n2) * p + 0 = y * p + s
    BY <1>8, <1>11, <2>1, <2>2
  <2>4. 0 \in 0 .. p - 1 /\ s \in 0 .. p - 1
    BY <1>3
  <2>5. 0 = s
    <3>1. PICK v \in Nat : v = k * n2
      BY <2>2
    <3>2. v * p + 0 = y * p + s
      BY <2>3, <3>1
    <3>. QED  BY <1>3, <2>4, <3>2, Near
  <2>. QED  BY <2>5
<1>13. i = k
  <2>1. PICK v, z : v = i * u /\ z = k * u /\ v \in Nat /\ z \in Nat
    BY <1>3
  <2>2. v + e = z + (f - 1) /\ f - 1 \in 0 .. u - 1
    BY <1>3, <1>5, <1>10, <1>11, <1>12, <2>1
  <2>. QED  BY <1>3, <2>1, <2>2, Near
<1>14. Slot1(a) = i /\ Slot1(b) = k /\ Slot2(a) = x % n2 /\ Slot2(b) = y % n2
  BY <1>4, <1>5, <1>7, <1>8, <1>10, <1>11
<1>. QED  BY <1>5, <1>9, <1>13, <1>14

-----------------------------------------------------------------------------
(* The shadow memory. *)

\* A set of numbers with an element has a least one.
LEMMA MinOf ==
  ASSUME NEW S \in SUBSET Nat, S # {}
  PROVE  Min(S) \in S
<1>0. PICK n \in S : TRUE
  OBVIOUS
<1>. DEFINE R == {ss \in Nat \X Nat : ss[1] < ss[2]}
<1>1. IsWellFoundedOn(R, Nat)
  BY NatLessThanWellFounded DEF OpToRel
<1>2. PICK m \in S : \A y \in S : ~ (<<y, m>> \in R)
  BY <1>0, <1>1, WFMin
<1>3. ASSUME NEW y \in S PROVE m <= y
  <2>1. ~ (<<y, m>> \in R) /\ y \in Nat /\ m \in Nat
    BY <1>2
  <2>. QED  BY <2>1
<1>. QED  BY <1>3 DEF Min

\* Who is in an entry, and who is a thread's own.
LEMMA Where ==
  /\ \A n : n \in Reachable1 <=> n # None /\ \E s \in Slots1 : dir[s] = n
  /\ \A k : k \in Reachable2 <=>
              k # None /\ \E n \in Reachable1 : \E s \in Slots2 : table[n][s] = k
<1>1. \A n : n \in Reachable1 <=> n # None /\ \E s \in Slots1 : dir[s] = n
  BY DEF Reachable1
<1>2. \A k : k \in Reachable2 <=>
              k # None /\ \E n \in Reachable1 : \E s \in Slots2 : table[n][s] = k
  BY DEF Reachable2
<1>. QED  BY <1>1, <1>2

\* The same in the next state.
LEMMA WhereNext ==
  (/\ \A n : n \in Reachable1 <=> n # None /\ \E s \in Slots1 : dir[s] = n
   /\ \A k : k \in Reachable2 <=>
               k # None /\ \E n \in Reachable1 : \E s \in Slots2 : table[n][s] = k)'
BY Where, PTL

\* A thread that neither had memory of this kind nor has got some.
LEMMA OwnSame ==
  ASSUME NEW t, NEW p, access[t].pc # p, access'[t].pc # p,
         \A u \in Threads : u # t => access'[u] = access[u]
  PROVE  Own(p)' = Own(p)
<1>1. \A n : n \in Own(p) <=> \E u \in Threads : access[u].pc = p /\ access[u].fresh = n
  BY DEF Own
<1>2. \A n : n \in Own(p)' <=> \E u \in Threads : access'[u].pc = p /\ access'[u].fresh = n
  BY DEF Own
<1>3. \A u \in Threads : access'[u].pc = p <=> access[u].pc = p
  OBVIOUS
<1>4. \A u \in Threads : access[u].pc = p => access'[u] = access[u]
  OBVIOUS
<1>5. \A n : n \in Own(p)' <=> n \in Own(p)
  BY <1>1, <1>2, <1>3, <1>4
<1>. QED  BY <1>5

\* A thread that has got some.
LEMMA OwnMore ==
  ASSUME NEW t \in Threads, NEW p, access[t].pc # p, access'[t].pc = p,
         \A u \in Threads : u # t => access'[u] = access[u]
  PROVE  Own(p)' = Own(p) \cup {access'[t].fresh}
<1>1. \A n : n \in Own(p) <=> \E u \in Threads : access[u].pc = p /\ access[u].fresh = n
  BY DEF Own
<1>2. \A n : n \in Own(p)' <=> \E u \in Threads : access'[u].pc = p /\ access'[u].fresh = n
  BY DEF Own
<1>3. \A n : n \in Own(p)' <=> n \in Own(p) \/ n = access'[t].fresh
  BY <1>1, <1>2
<1>. QED  BY <1>3

\* A thread that has got rid of it.
LEMMA OwnLess ==
  ASSUME NEW t \in Threads, NEW p, access[t].pc = p, access'[t].pc # p,
         \A u \in Threads : u # t => access'[u] = access[u],
         \A u \in Threads : u # t /\ access[u].pc = p => access[u].fresh # access[t].fresh
  PROVE  Own(p)' = Own(p) \ {access[t].fresh} /\ access[t].fresh \in Own(p)
<1>1. \A n : n \in Own(p) <=> \E u \in Threads : access[u].pc = p /\ access[u].fresh = n
  BY DEF Own
<1>2. \A n : n \in Own(p)' <=> \E u \in Threads : access'[u].pc = p /\ access'[u].fresh = n
  BY DEF Own
<1>3. \A n : n \in Own(p)' <=> n \in Own(p) /\ n # access[t].fresh
  BY <1>1, <1>2
<1>. QED  BY <1>1, <1>3

\* A step of thread t that leaves its address alone.
Steps(t, x) ==
  /\ access' = [access EXCEPT ![t] = x]
  /\ x \in Accesses /\ x.addr = access[t].addr

\* What a step of thread t leaves to others.
LEMMA OthersStay ==
  ASSUME access \in [Threads -> Accesses], NEW t \in Threads, NEW x, Steps(t, x)
  PROVE  /\ access'[t] = x /\ access' \in [Threads -> Accesses]
         /\ \A u \in Threads : u # t => access'[u] = access[u]
BY DEF Steps

\* The entry of the directory is set: the thread goes on with the table there.
LEMMA Load1There ==
  ASSUME NEW V, ShadowInv(V), dir # None, NEW t \in Threads, Load1(t),
         dir[Slot1(access[t].addr)] # None
  PROVE  ShadowInv(V)' /\ UNCHANGED <<dir, table, page>>
<1>. DEFINE s == Slot1(access[t].addr)
            x == [access[t] EXCEPT !.pc = "load2", !.v1 = dir[s]]
<1>1. /\ access[t].pc = "load1" /\ access' = [access EXCEPT ![t] = x]
      /\ UNCHANGED <<dir, table, page, tables, pages>>
  BY DEF Load1
<1>2. /\ access \in [Threads -> Accesses] /\ dir \in [Slots1 -> Tables \cup {None}]
      /\ access[t] \in Accesses /\ access[t].addr \in Addr
  BY <1>1 DEF ShadowInv, ShadowTypes, Pointers
<1>3. s \in Slots1 /\ dir[s] \in Tables
  BY <1>2, SlotsOf
<1>4. /\ x \in Accesses /\ x.pc = "load2" /\ x.addr = access[t].addr /\ x.v1 = dir[s]
  BY <1>2, <1>3 DEF Accesses
<1>5. Steps(t, x)
  BY <1>1, <1>4 DEF Steps
<1>. HIDE DEF x
<1>6. /\ access'[t] = x /\ access' \in [Threads -> Accesses]
      /\ \A u \in Threads : u # t => access'[u] = access[u]
  BY <1>2, <1>5, OthersStay
<1>7. ShadowTypes(V)'
  BY <1>1, <1>6 DEF ShadowInv, ShadowTypes
<1>8. Reachable1' = Reachable1 /\ Reachable2' = Reachable2
  BY <1>1 DEF Reachable1, Reachable2
<1>9. Own("cas1")' = Own("cas1") /\ Own("cas2")' = Own("cas2")
  BY <1>1, <1>4, <1>6, OwnSame
<1>10. Owned'
  <2>1. Owned
    BY DEF ShadowInv
  <2>2. \A u, v \in Threads :
          u # v /\ access'[u].pc = access'[v].pc /\ access'[u].pc \in {"cas1", "cas2"} =>
            access'[u].fresh # access'[v].fresh
    BY <1>4, <1>6, <2>1 DEF Owned
  <2>. QED  BY <1>1, <1>8, <1>9, <2>1, <2>2 DEF Owned
<1>11. OneEntry'
  BY <1>1, <1>8 DEF ShadowInv, OneEntry
<1>12. ASSUME NEW u \in Threads PROVE Pointers(access[u])'
  <2>1. CASE u = t
    BY <1>1, <1>2, <1>3, <1>4, <1>6, <2>1 DEF Pointers
  <2>2. CASE u # t
    BY <1>1, <1>6, <1>8, <2>2 DEF ShadowInv, Pointers
  <2>. QED  BY <2>1, <2>2
<1>. QED  BY <1>1, <1>7, <1>10, <1>11, <1>12 DEF ShadowInv

\* It is empty: the thread allocates a table.
LEMMA Load1Empty ==
  ASSUME NEW V, ShadowInv(V), dir # None, NEW t \in Threads, Load1(t),
         dir[Slot1(access[t].addr)] = None
  PROVE  /\ ShadowInv(V)' /\ UNCHANGED <<dir, page>>
         /\ \A k \in Reachable1 : table'[k] = table[k]
<1>. DEFINE n == Min(Tables \ tables)
            x == [access[t] EXCEPT !.pc = "cas1", !.fresh = n]
<1>1. /\ access[t].pc = "load1" /\ access' = [access EXCEPT ![t] = x]
      /\ Tables \ tables # {} /\ tables' = tables \cup {n}
      /\ table' = [table EXCEPT ![n] = EmptyTable]
      /\ UNCHANGED <<dir, page, pages>>
  BY DEF Load1
<1>2. /\ access \in [Threads -> Accesses] /\ dir \in [Slots1 -> Tables \cup {None}]
      /\ access[t] \in Accesses /\ access[t].addr \in Addr
      /\ tables \subseteq Tables /\ table \in [Tables -> [Slots2 -> PageNames \cup {None}]]
      /\ Owned /\ OneEntry
  BY <1>1 DEF ShadowInv, ShadowTypes, Pointers
<1>3. n \in Tables \ tables
  BY <1>1, ShadowAssumption, MinOf
<1>. HIDE DEF n
<1>4. /\ x \in Accesses /\ x.pc = "cas1" /\ x.addr = access[t].addr /\ x.fresh = n
  BY <1>2, <1>3 DEF Accesses
<1>5. Steps(t, x)
  BY <1>1, <1>4 DEF Steps
<1>. HIDE DEF x
<1>6. /\ access'[t] = x /\ access' \in [Threads -> Accesses]
      /\ \A u \in Threads : u # t => access'[u] = access[u]
  BY <1>2, <1>5, OthersStay
<1>7. /\ table' \in [Tables -> [Slots2 -> PageNames \cup {None}]]
      /\ table'[n] = EmptyTable /\ \A k \in Tables : k # n => table'[k] = table[k]
  <2>1. EmptyTable \in [Slots2 -> PageNames \cup {None}]
    BY DEF EmptyTable
  <2>. QED  BY <1>1, <1>2, <1>3, <2>1
<1>8. ShadowTypes(V)'
  BY <1>1, <1>2, <1>3, <1>6, <1>7 DEF ShadowInv, ShadowTypes
<1>9. Reachable1' = Reachable1
  BY <1>1 DEF Reachable1
<1>10. \A k \in Reachable1 : k # n /\ k \in tables /\ table'[k] = table[k]
  BY <1>2, <1>3, <1>7 DEF Owned
<1>11. Reachable2' = Reachable2
  <2>1. \A k : k \in Reachable2' <=> k \in Reachable2
    BY <1>9, <1>10, Where, WhereNext
  <2>. QED  BY <2>1
<1>12. Own("cas1")' = Own("cas1") \cup {n} /\ Own("cas2")' = Own("cas2")
  BY <1>1, <1>4, <1>6, OwnSame, OwnMore
<1>13. \A u \in Threads : access[u].pc = "cas1" => access[u].fresh \in tables
  BY <1>2 DEF Owned, Own
<1>14. Owned'
  <2>2. \A u, v \in Threads :
          u # v /\ access'[u].pc = access'[v].pc /\ access'[u].pc \in {"cas1", "cas2"} =>
            access'[u].fresh # access'[v].fresh
    BY <1>2, <1>3, <1>4, <1>6, <1>13 DEF Owned
  <2>. QED  BY <1>1, <1>2, <1>9, <1>11, <1>12, <2>2 DEF Owned
<1>15. OneEntry'
  BY <1>1, <1>2, <1>9, <1>10 DEF OneEntry
<1>16. ASSUME NEW u \in Threads PROVE Pointers(access[u])'
  <2>1. CASE u = t
    BY <1>1, <1>2, <1>3, <1>4, <1>6, <1>7, <1>9, <1>10, <2>1 DEF Pointers
  <2>2. CASE u # t
    <3>1. Pointers(access[u]) /\ access[u] \in Accesses
      BY <1>2 DEF ShadowInv
    <3>2. access[u].pc = "cas1" => table'[access[u].fresh] = table[access[u].fresh]
      BY <1>3, <1>7, <1>13, <3>1 DEF Pointers
    <3>3. access[u].pc \in {"load2", "cas2", "got"} =>
            table'[access[u].v1] = table[access[u].v1]
      <4>1. access[u].pc \in {"load2", "cas2", "got"} => access[u].v1 \in Reachable1
        BY <3>1, SlotsOf, Where DEF Pointers
      <4>. QED  BY <1>10, <4>1
    <3>4. Pointers(access[u])' = Pointers(access[u])
      BY <1>1, <1>6, <1>9, <1>11, <2>2, <3>2, <3>3 DEF Pointers, EmptyTable, EmptyPage
    <3>. QED  BY <3>1, <3>4
  <2>. QED  BY <2>1, <2>2
<1>. QED  BY <1>1, <1>8, <1>10, <1>14, <1>15, <1>16 DEF ShadowInv

\* The compare-and-swap on the directory, won.
LEMMA Cas1Won ==
  ASSUME NEW V, ShadowInv(V), dir # None, NEW t \in Threads, Cas1(t),
         dir[Slot1(access[t].addr)] = None
  PROVE  /\ ShadowInv(V)' /\ dir' # None /\ UNCHANGED <<table, page>>
         /\ dir' = [dir EXCEPT ![Slot1(access[t].addr)] = access[t].fresh]
         /\ access[t].fresh # None /\ table[access[t].fresh] = EmptyTable
<1>. DEFINE s == Slot1(access[t].addr)
            n == access[t].fresh
            x == [access[t] EXCEPT !.pc = "load2", !.fresh = None, !.v1 = n]
<1>2. /\ access \in [Threads -> Accesses] /\ dir \in [Slots1 -> Tables \cup {None}]
      /\ access[t].pc = "cas1"
      /\ access[t] \in Accesses /\ access[t].addr \in Addr /\ s \in Slots1
      /\ tables \subseteq Tables /\ table \in [Tables -> [Slots2 -> PageNames \cup {None}]]
      /\ Owned /\ OneEntry /\ Pointers(access[t])
  BY SlotsOf DEF ShadowInv, ShadowTypes, Pointers, Cas1
<1>1. /\ dir' = [dir EXCEPT ![s] = n]
      /\ access' = [access EXCEPT ![t] = x]
      /\ UNCHANGED <<tables, table, page, pages>>
  <2>1. dir' = [dir EXCEPT ![s] = n] /\ UNCHANGED <<tables, table, page, pages>>
    BY DEF Cas1, InstallTable
  <2>2. dir'[s] = n
    BY <1>2, <2>1
  <2>. QED  BY <2>1, <2>2 DEF Cas1
<1>3. n \in Tables \ Reachable1 /\ n # None /\ table[n] = EmptyTable
  BY <1>2, ShadowAssumption DEF Pointers
<1>4. x \in Accesses /\ x.pc = "load2" /\ x.addr = access[t].addr /\ x.v1 = n
  BY <1>2, <1>3 DEF Accesses
<1>5. Steps(t, x)
  BY <1>1, <1>4 DEF Steps
<1>. HIDE DEF x
<1>6. /\ access'[t] = x /\ access' \in [Threads -> Accesses]
      /\ \A u \in Threads : u # t => access'[u] = access[u]
  BY <1>2, <1>5, OthersStay
<1>7. /\ dir' \in [Slots1 -> Tables \cup {None}] /\ dir'[s] = n /\ dir' # None
      /\ \A r \in Slots1 : r # s => dir'[r] = dir[r]
  <2>1. dir' \in [Slots1 -> Tables \cup {None}]
    BY <1>1, <1>2, <1>3
  <2>. QED  BY <1>1, <1>2, <2>1, ShadowAssumption
<1>8. ShadowTypes(V)'
  BY <1>1, <1>2, <1>6, <1>7 DEF ShadowInv, ShadowTypes
<1>9. Reachable1' = Reachable1 \cup {n}
  <2>1. \A k : k \in Reachable1' <=> k \in Reachable1 \/ k = n
    BY <1>2, <1>3, <1>7, Where, WhereNext
  <2>. QED  BY <2>1
<1>10. \A r \in Slots2 : table[n][r] = None
  BY <1>3 DEF EmptyTable
<1>11. Reachable2' = Reachable2
  <2>1. \A k : k \in Reachable2' <=> k \in Reachable2
    BY <1>1, <1>9, <1>10, Where, WhereNext
  <2>. QED  BY <2>1
<1>12. Own("cas1")' = Own("cas1") \ {n} /\ n \in Own("cas1") /\ Own("cas2")' = Own("cas2")
  <2>1. \A u \in Threads : u # t /\ access[u].pc = "cas1" => access[u].fresh # access[t].fresh
    BY <1>2 DEF Owned
  <2>. QED  BY ZenonT(60), <1>2, <1>4, <1>6, <2>1, OwnSame, OwnLess
<1>14. Owned'
  <2>2. \A u, v \in Threads :
          u # v /\ access'[u].pc = access'[v].pc /\ access'[u].pc \in {"cas1", "cas2"} =>
            access'[u].fresh # access'[v].fresh
    BY <1>2, <1>4, <1>6 DEF Owned
  <2>. QED  BY <1>1, <1>2, <1>9, <1>11, <1>12, <2>2 DEF Owned
<1>15. OneEntry'
  <2>1. \A s1, r1 \in Slots1 : dir'[s1] = dir'[r1] /\ dir'[s1] # None => s1 = r1
    <3>1. \A r \in Slots1 : r # s => dir'[r] # n
      BY <1>3, <1>7, Where
    <3>. QED  BY <1>2, <1>7, <3>1 DEF OneEntry
  <2>2. \A m, k \in Reachable1', s2, r2 \in Slots2 :
          table[m][s2] = table[k][r2] /\ table[m][s2] # None => m = k /\ s2 = r2
    BY <1>2, <1>9, <1>10 DEF OneEntry
  <2>. QED  BY <1>1, <2>1, <2>2 DEF OneEntry
<1>16. ASSUME NEW u \in Threads PROVE Pointers(access[u])'
  <2>1. CASE u = t
    BY <1>2, <1>3, <1>4, <1>6, <1>7, <2>1 DEF Pointers
  <2>2. CASE u # t
    <3>1. Pointers(access[u])
      BY DEF ShadowInv
    <3>2. access[u].pc = "cas1" => access[u].fresh # n
      BY <1>2, <2>2 DEF Owned
    <3>3. access[u].pc \in {"load2", "cas2", "got"} => access[u].v1 = dir'[Slot1(access[u].addr)]
      <4>1. access[u].pc \in {"load2", "cas2", "got"} =>
              Slot1(access[u].addr) \in Slots1 /\ Slot1(access[u].addr) # s
        BY <3>1, SlotsOf DEF Pointers
      <4>. QED  BY <1>7, <3>1, <4>1 DEF Pointers
    <3>4. Pointers(access[u])'
      BY <1>1, <1>6, <1>9, <1>11, <2>2, <3>1, <3>2, <3>3 DEF Pointers, EmptyTable, EmptyPage
    <3>. QED  BY <3>4
  <2>. QED  BY <2>1, <2>2
<1>. QED  BY <1>1, <1>3, <1>7, <1>8, <1>14, <1>15, <1>16 DEF ShadowInv

\* The compare-and-swap on the directory, lost: the thread gives its table back.
LEMMA Cas1Lost ==
  ASSUME NEW V, ShadowInv(V), dir # None, NEW t \in Threads, Cas1(t),
         dir[Slot1(access[t].addr)] # None
  PROVE  ShadowInv(V)' /\ UNCHANGED <<dir, table, page>>
<1>. DEFINE s == Slot1(access[t].addr)
            n == access[t].fresh
            x == [access[t] EXCEPT !.pc = "load2", !.fresh = None, !.v1 = dir[s]]
<1>2. /\ access \in [Threads -> Accesses] /\ dir \in [Slots1 -> Tables \cup {None}]
      /\ access[t].pc = "cas1"
      /\ access[t] \in Accesses /\ access[t].addr \in Addr /\ s \in Slots1 /\ dir[s] \in Tables
      /\ tables \subseteq Tables /\ table \in [Tables -> [Slots2 -> PageNames \cup {None}]]
      /\ Owned /\ OneEntry /\ Pointers(access[t])
  BY SlotsOf DEF ShadowInv, ShadowTypes, Pointers, Cas1
<1>1. /\ access' = [access EXCEPT ![t] = x] /\ tables' = tables \ {n}
      /\ UNCHANGED <<dir, table, page, pages>>
  BY DEF Cas1, InstallTable
<1>4. x \in Accesses /\ x.pc = "load2" /\ x.addr = access[t].addr /\ x.v1 = dir[s]
  BY <1>2 DEF Accesses
<1>5. Steps(t, x)
  BY <1>1, <1>4 DEF Steps
<1>. HIDE DEF x
<1>6. /\ access'[t] = x /\ access' \in [Threads -> Accesses]
      /\ \A u \in Threads : u # t => access'[u] = access[u]
  BY <1>2, <1>5, OthersStay
<1>7. ShadowTypes(V)'
  BY <1>1, <1>2, <1>6 DEF ShadowInv, ShadowTypes
<1>8. Reachable1' = Reachable1 /\ Reachable2' = Reachable2
  BY <1>1 DEF Reachable1, Reachable2
<1>9. Own("cas1")' = Own("cas1") \ {n} /\ n \in Own("cas1") /\ Own("cas2")' = Own("cas2")
  <2>1. \A u \in Threads : u # t /\ access[u].pc = "cas1" => access[u].fresh # access[t].fresh
    BY <1>2 DEF Owned
  <2>. QED  BY ZenonT(60), <1>2, <1>4, <1>6, <2>1, OwnSame, OwnLess
<1>10. Owned'
  <2>1. n \notin Reachable1
    BY <1>2 DEF Pointers
  <2>2. \A u, v \in Threads :
          u # v /\ access'[u].pc = access'[v].pc /\ access'[u].pc \in {"cas1", "cas2"} =>
            access'[u].fresh # access'[v].fresh
    BY <1>2, <1>4, <1>6 DEF Owned
  <2>. QED  BY <1>1, <1>2, <1>8, <1>9, <2>1, <2>2 DEF Owned
<1>11. OneEntry'
  BY <1>1, <1>8 DEF ShadowInv, OneEntry
<1>12. ASSUME NEW u \in Threads PROVE Pointers(access[u])'
  <2>1. CASE u = t
    BY <1>1, <1>2, <1>4, <1>6, <2>1 DEF Pointers
  <2>2. CASE u # t
    BY <1>1, <1>6, <1>8, <2>2 DEF ShadowInv, Pointers
  <2>. QED  BY <2>1, <2>2
<1>. QED  BY <1>1, <1>7, <1>10, <1>11, <1>12 DEF ShadowInv

\* The entry of the table is set: the thread goes on with the page there.
LEMMA Load2There ==
  ASSUME NEW V, ShadowInv(V), dir # None, NEW t \in Threads, Load2(t),
         table[access[t].v1][Slot2(access[t].addr)] # None
  PROVE  ShadowInv(V)' /\ UNCHANGED <<dir, table, page>>
<1>. DEFINE v == table[access[t].v1][Slot2(access[t].addr)]
            x == [access[t] EXCEPT !.pc = "got", !.v2 = v]
<1>1. /\ access[t].pc = "load2" /\ access' = [access EXCEPT ![t] = x]
      /\ UNCHANGED <<dir, table, page, tables, pages>>
  BY DEF Load2
<1>2. /\ access \in [Threads -> Accesses] /\ dir \in [Slots1 -> Tables \cup {None}]
      /\ access[t] \in Accesses /\ access[t].addr \in Addr
      /\ table \in [Tables -> [Slots2 -> PageNames \cup {None}]]
      /\ access[t].v1 \in Tables /\ Slot2(access[t].addr) \in Slots2 /\ Pointers(access[t])
  BY <1>1, SlotsOf DEF ShadowInv, ShadowTypes, Pointers, Accesses
<1>3. v \in PageNames /\ v # None
  BY <1>2
<1>4. /\ x \in Accesses /\ x.pc = "got" /\ x.addr = access[t].addr /\ x.v1 = access[t].v1
      /\ x.v2 = v
  BY <1>2, <1>3 DEF Accesses
<1>5. Steps(t, x)
  BY <1>1, <1>4 DEF Steps
<1>. HIDE DEF x
<1>6. /\ access'[t] = x /\ access' \in [Threads -> Accesses]
      /\ \A u \in Threads : u # t => access'[u] = access[u]
  BY <1>2, <1>5, OthersStay
<1>7. ShadowTypes(V)'
  BY <1>1, <1>6 DEF ShadowInv, ShadowTypes
<1>8. Reachable1' = Reachable1 /\ Reachable2' = Reachable2
  BY <1>1 DEF Reachable1, Reachable2
<1>9. Own("cas1")' = Own("cas1") /\ Own("cas2")' = Own("cas2")
  BY <1>1, <1>4, <1>6, OwnSame
<1>10. Owned'
  <2>1. Owned
    BY DEF ShadowInv
  <2>2. \A u, w \in Threads :
          u # w /\ access'[u].pc = access'[w].pc /\ access'[u].pc \in {"cas1", "cas2"} =>
            access'[u].fresh # access'[w].fresh
    BY <1>4, <1>6, <2>1 DEF Owned
  <2>. QED  BY <1>1, <1>8, <1>9, <2>1, <2>2 DEF Owned
<1>11. OneEntry'
  BY <1>1, <1>8 DEF ShadowInv, OneEntry
<1>12. ASSUME NEW u \in Threads PROVE Pointers(access[u])'
  <2>1. CASE u = t
    BY <1>1, <1>2, <1>3, <1>4, <1>6, <2>1 DEF Pointers
  <2>2. CASE u # t
    BY <1>1, <1>6, <1>8, <2>2 DEF ShadowInv, Pointers
  <2>. QED  BY <2>1, <2>2
<1>. QED  BY <1>1, <1>7, <1>10, <1>11, <1>12 DEF ShadowInv

\* It is empty: the thread allocates a page.
LEMMA Load2Empty ==
  ASSUME NEW V, Unknown \in V, ShadowInv(V), dir # None, NEW t \in Threads, Load2(t),
         table[access[t].v1][Slot2(access[t].addr)] = None
  PROVE  /\ ShadowInv(V)' /\ UNCHANGED <<dir, table>>
         /\ \A k \in Reachable2 : page'[k] = page[k]
<1>. DEFINE n == Min(PageNames \ pages)
            x == [access[t] EXCEPT !.pc = "cas2", !.fresh = n]
<1>1. /\ access[t].pc = "load2" /\ access' = [access EXCEPT ![t] = x]
      /\ PageNames \ pages # {} /\ pages' = pages \cup {n}
      /\ page' = [page EXCEPT ![n] = EmptyPage]
      /\ UNCHANGED <<dir, table, tables>>
  BY DEF Load2
<1>2. /\ access \in [Threads -> Accesses] /\ dir \in [Slots1 -> Tables \cup {None}]
      /\ access[t] \in Accesses /\ access[t].addr \in Addr
      /\ pages \subseteq PageNames /\ page \in [PageNames -> [0 .. PageSize - 1 -> V]]
      /\ Owned /\ OneEntry /\ Pointers(access[t])
  BY <1>1 DEF ShadowInv, ShadowTypes, Pointers
<1>3. n \in PageNames \ pages
  BY <1>1, ShadowAssumption, MinOf
<1>. HIDE DEF n
<1>4. /\ x \in Accesses /\ x.pc = "cas2" /\ x.addr = access[t].addr /\ x.fresh = n
      /\ x.v1 = access[t].v1
  BY <1>2, <1>3 DEF Accesses
<1>5. Steps(t, x)
  BY <1>1, <1>4 DEF Steps
<1>. HIDE DEF x
<1>6. /\ access'[t] = x /\ access' \in [Threads -> Accesses]
      /\ \A u \in Threads : u # t => access'[u] = access[u]
  BY <1>2, <1>5, OthersStay
<1>7. /\ page' \in [PageNames -> [0 .. PageSize - 1 -> V]]
      /\ page'[n] = EmptyPage /\ \A k \in PageNames : k # n => page'[k] = page[k]
  <2>1. EmptyPage \in [0 .. PageSize - 1 -> V]
    BY DEF EmptyPage
  <2>. QED  BY <1>1, <1>2, <1>3, <2>1
<1>8. ShadowTypes(V)'
  BY <1>1, <1>2, <1>3, <1>6, <1>7 DEF ShadowInv, ShadowTypes
<1>9. Reachable1' = Reachable1 /\ Reachable2' = Reachable2
  BY <1>1 DEF Reachable1, Reachable2
<1>10. \A k \in Reachable2 : k # n /\ k \in pages /\ page'[k] = page[k]
  BY <1>2, <1>3, <1>7 DEF Owned
<1>12. Own("cas2")' = Own("cas2") \cup {n} /\ Own("cas1")' = Own("cas1")
  BY <1>1, <1>4, <1>6, OwnSame, OwnMore
<1>13. \A u \in Threads : access[u].pc = "cas2" => access[u].fresh \in pages
  BY <1>2 DEF Owned, Own
<1>14. Owned'
  <2>2. \A u, v \in Threads :
          u # v /\ access'[u].pc = access'[v].pc /\ access'[u].pc \in {"cas1", "cas2"} =>
            access'[u].fresh # access'[v].fresh
    BY <1>2, <1>3, <1>4, <1>6, <1>13 DEF Owned
  <2>. QED  BY <1>1, <1>2, <1>9, <1>12, <2>2 DEF Owned
<1>15. OneEntry'
  BY <1>1, <1>2, <1>9 DEF OneEntry
<1>16. ASSUME NEW u \in Threads PROVE Pointers(access[u])'
  <2>1. CASE u = t
    BY <1>1, <1>2, <1>3, <1>4, <1>6, <1>7, <1>9, <1>10, <2>1 DEF Pointers
  <2>2. CASE u # t
    <3>1. Pointers(access[u])
      BY <1>2 DEF ShadowInv
    <3>2. access[u].pc = "cas2" => page'[access[u].fresh] = page[access[u].fresh]
      BY <1>3, <1>7, <1>13, <3>1 DEF Pointers
    <3>4. Pointers(access[u])' = Pointers(access[u])
      BY <1>1, <1>6, <1>9, <2>2, <3>2 DEF Pointers, EmptyTable, EmptyPage
    <3>. QED  BY <3>1, <3>4
  <2>. QED  BY <2>1, <2>2
<1>. QED  BY <1>1, <1>8, <1>10, <1>14, <1>15, <1>16 DEF ShadowInv

\* The compare-and-swap on the table, won.
LEMMA Cas2Won ==
  ASSUME NEW V, ShadowInv(V), dir # None, NEW t \in Threads, Cas2(t),
         table[access[t].v1][Slot2(access[t].addr)] = None
  PROVE  /\ ShadowInv(V)' /\ UNCHANGED <<dir, page>>
         /\ table' = [table EXCEPT ![access[t].v1][Slot2(access[t].addr)] = access[t].fresh]
         /\ access[t].fresh # None /\ page[access[t].fresh] = EmptyPage
         /\ access[t].v1 = dir[Slot1(access[t].addr)]
<1>. DEFINE m == access[t].v1
            s == Slot2(access[t].addr)
            n == access[t].fresh
            x == [access[t] EXCEPT !.pc = "got", !.fresh = None, !.v2 = n]
<1>2. /\ access \in [Threads -> Accesses] /\ dir \in [Slots1 -> Tables \cup {None}]
      /\ access[t].pc = "cas2"
      /\ access[t] \in Accesses /\ access[t].addr \in Addr /\ s \in Slots2
      /\ pages \subseteq PageNames /\ table \in [Tables -> [Slots2 -> PageNames \cup {None}]]
      /\ Owned /\ OneEntry /\ Pointers(access[t])
  BY SlotsOf DEF ShadowInv, ShadowTypes, Pointers, Cas2
<1>3. /\ n \in PageNames \ Reachable2 /\ n # None /\ page[n] = EmptyPage
      /\ m = dir[Slot1(access[t].addr)] /\ m \in Tables /\ m \in Reachable1
  <2>1. /\ n \in PageNames \ Reachable2 /\ page[n] = EmptyPage
        /\ m = dir[Slot1(access[t].addr)] /\ m # None
    BY <1>2 DEF Pointers
  <2>2. Slot1(access[t].addr) \in Slots1
    BY <1>2, SlotsOf
  <2>. QED  BY <1>2, <2>1, <2>2, ShadowAssumption, Where
<1>1. /\ table' = [table EXCEPT ![m][s] = n]
      /\ access' = [access EXCEPT ![t] = x]
      /\ UNCHANGED <<dir, tables, page, pages>>
  <2>1. table' = [table EXCEPT ![m][s] = n] /\ UNCHANGED <<dir, tables, page, pages>>
    BY DEF Cas2, InstallPage
  <2>2. table'[m][s] = n
    BY <1>2, <1>3, <2>1
  <2>. QED  BY <2>1, <2>2 DEF Cas2
<1>4. /\ x \in Accesses /\ x.pc = "got" /\ x.addr = access[t].addr /\ x.v1 = m
      /\ x.v2 = n
  BY <1>2, <1>3 DEF Accesses
<1>5. Steps(t, x)
  BY <1>1, <1>4 DEF Steps
<1>. HIDE DEF x
<1>6. /\ access'[t] = x /\ access' \in [Threads -> Accesses]
      /\ \A u \in Threads : u # t => access'[u] = access[u]
  BY <1>2, <1>5, OthersStay
<1>7. /\ table' \in [Tables -> [Slots2 -> PageNames \cup {None}]] /\ table'[m][s] = n
      /\ \A k \in Tables, r \in Slots2 : k # m \/ r # s => table'[k][r] = table[k][r]
      /\ \A k \in Tables : k # m => table'[k] = table[k]
  BY <1>1, <1>2, <1>3
<1>8. ShadowTypes(V)'
  BY <1>1, <1>2, <1>6, <1>7 DEF ShadowInv, ShadowTypes
<1>9. Reachable1' = Reachable1 /\ Reachable1 \subseteq Tables
  BY <1>1, <1>2 DEF Reachable1
<1>11. Reachable2' = Reachable2 \cup {n}
  <2>1. ASSUME NEW k \in Reachable2' PROVE k \in Reachable2 \cup {n}
    <3>1. PICK j \in Reachable1, r \in Slots2 : table'[j][r] = k /\ k # None
      BY <1>9, WhereNext
    <3>2. CASE j = m /\ r = s
      BY <1>7, <3>1, <3>2
    <3>3. CASE j # m \/ r # s
      BY <1>7, <1>9, <3>1, <3>3, Where
    <3>. QED  BY <3>2, <3>3
  <2>2. ASSUME NEW k \in Reachable2 PROVE k \in Reachable2'
    <3>1. PICK j \in Reachable1, r \in Slots2 : table[j][r] = k /\ k # None
      BY Where
    <3>2. table'[j][r] = k
      BY <1>7, <1>9, <3>1
    <3>. QED  BY <1>9, <3>1, <3>2, WhereNext
  <2>3. n \in Reachable2'
    BY <1>2, <1>3, <1>7, <1>9, WhereNext
  <2>. QED  BY <2>1, <2>2, <2>3
<1>12. Own("cas2")' = Own("cas2") \ {n} /\ n \in Own("cas2") /\ Own("cas1")' = Own("cas1")
  <2>1. \A u \in Threads : u # t /\ access[u].pc = "cas2" => access[u].fresh # access[t].fresh
    BY <1>2 DEF Owned
  <2>. QED  BY ZenonT(60), <1>2, <1>4, <1>6, <2>1, OwnSame, OwnLess
<1>14. Owned'
  <2>2. \A u, v \in Threads :
          u # v /\ access'[u].pc = access'[v].pc /\ access'[u].pc \in {"cas1", "cas2"} =>
            access'[u].fresh # access'[v].fresh
    BY <1>2, <1>4, <1>6 DEF Owned
  <2>. QED  BY <1>1, <1>2, <1>9, <1>11, <1>12, <2>2 DEF Owned
<1>15. OneEntry'
  <2>1. \A k \in Reachable1, r \in Slots2 : k # m \/ r # s => table'[k][r] # n
    BY <1>3, <1>7, <1>9, Where
  <2>2. \A j, k \in Reachable1, s2, r2 \in Slots2 :
          table'[j][s2] = table'[k][r2] /\ table'[j][s2] # None => j = k /\ s2 = r2
    BY <1>2, <1>3, <1>7, <1>9, <2>1 DEF OneEntry
  <2>. QED  BY <1>1, <1>2, <1>9, <2>2 DEF OneEntry
<1>16. ASSUME NEW u \in Threads PROVE Pointers(access[u])'
  <2>1. CASE u = t
    BY <1>1, <1>2, <1>3, <1>4, <1>6, <1>7, <2>1 DEF Pointers
  <2>2. CASE u # t
    <3>1. Pointers(access[u])
      BY DEF ShadowInv
    <3>2. access[u].pc = "cas2" => access[u].fresh # n
      BY <1>2, <2>2 DEF Owned
    <3>3. access[u].pc = "cas1" => table'[access[u].fresh] = table[access[u].fresh]
      BY <1>3, <1>7, <3>1 DEF Pointers
    <3>5. access[u].pc = "got" => access[u].v2 = table'[access[u].v1][Slot2(access[u].addr)]
      <4>1. access[u].pc = "got" =>
              /\ access[u].v1 \in Reachable1 /\ Slot2(access[u].addr) \in Slots2
              /\ access[u].v1 # m \/ Slot2(access[u].addr) # s
        BY <3>1, SlotsOf, Where DEF Pointers
      <4>. QED  BY <1>7, <1>9, <3>1, <4>1 DEF Pointers
    <3>4. Pointers(access[u])'
      BY <1>1, <1>6, <1>9, <1>11, <2>2, <3>1, <3>2, <3>3, <3>5 DEF Pointers, EmptyTable, EmptyPage
    <3>. QED  BY <3>4
  <2>. QED  BY <2>1, <2>2
<1>. QED  BY <1>1, <1>3, <1>8, <1>14, <1>15, <1>16 DEF ShadowInv

\* The compare-and-swap on the table, lost: the thread gives its page back.
LEMMA Cas2Lost ==
  ASSUME NEW V, ShadowInv(V), dir # None, NEW t \in Threads, Cas2(t),
         table[access[t].v1][Slot2(access[t].addr)] # None
  PROVE  ShadowInv(V)' /\ UNCHANGED <<dir, table, page>>
<1>. DEFINE v == table[access[t].v1][Slot2(access[t].addr)]
            n == access[t].fresh
            x == [access[t] EXCEPT !.pc = "got", !.fresh = None, !.v2 = v]
<1>1. /\ access[t].pc = "cas2" /\ access' = [access EXCEPT ![t] = x] /\ pages' = pages \ {n}
      /\ UNCHANGED <<dir, table, page, tables>>
  BY DEF Cas2, InstallPage
<1>2. /\ access \in [Threads -> Accesses] /\ dir \in [Slots1 -> Tables \cup {None}]
      /\ access[t] \in Accesses /\ access[t].addr \in Addr /\ pages \subseteq PageNames
      /\ table \in [Tables -> [Slots2 -> PageNames \cup {None}]]
      /\ access[t].v1 \in Tables /\ Slot2(access[t].addr) \in Slots2 /\ Pointers(access[t])
      /\ Owned /\ OneEntry
  BY <1>1, SlotsOf DEF ShadowInv, ShadowTypes, Pointers, Accesses
<1>3. v \in PageNames /\ v # None
  BY <1>2
<1>4. /\ x \in Accesses /\ x.pc = "got" /\ x.addr = access[t].addr /\ x.v1 = access[t].v1
      /\ x.v2 = v
  BY <1>2, <1>3 DEF Accesses
<1>5. Steps(t, x)
  BY <1>1, <1>4 DEF Steps
<1>. HIDE DEF x
<1>6. /\ access'[t] = x /\ access' \in [Threads -> Accesses]
      /\ \A u \in Threads : u # t => access'[u] = access[u]
  BY <1>2, <1>5, OthersStay
<1>7. ShadowTypes(V)'
  BY <1>1, <1>2, <1>6 DEF ShadowInv, ShadowTypes
<1>8. Reachable1' = Reachable1 /\ Reachable2' = Reachable2
  BY <1>1 DEF Reachable1, Reachable2
<1>9. Own("cas2")' = Own("cas2") \ {n} /\ n \in Own("cas2") /\ Own("cas1")' = Own("cas1")
  <2>1. \A u \in Threads : u # t /\ access[u].pc = "cas2" => access[u].fresh # access[t].fresh
    BY <1>1, <1>2 DEF Owned
  <2>. QED  BY <1>1, <1>4, <1>6, <2>1, OwnSame, OwnLess
<1>10. Owned'
  <2>1. n \notin Reachable2
    BY <1>1, <1>2 DEF Pointers
  <2>2. \A u, w \in Threads :
          u # w /\ access'[u].pc = access'[w].pc /\ access'[u].pc \in {"cas1", "cas2"} =>
            access'[u].fresh # access'[w].fresh
    BY <1>2, <1>4, <1>6 DEF Owned
  <2>. QED  BY <1>1, <1>2, <1>8, <1>9, <2>1, <2>2 DEF Owned
<1>11. OneEntry'
  BY <1>1, <1>8 DEF ShadowInv, OneEntry
<1>12. ASSUME NEW u \in Threads PROVE Pointers(access[u])'
  <2>1. CASE u = t
    BY <1>1, <1>2, <1>3, <1>4, <1>6, <2>1 DEF Pointers
  <2>2. CASE u # t
    BY <1>1, <1>6, <1>8, <2>2 DEF ShadowInv, Pointers
  <2>. QED  BY <2>1, <2>2
<1>. QED  BY <1>1, <1>7, <1>10, <1>11, <1>12 DEF ShadowInv

\* Where an address is found.
LEMMA LookupIs ==
  ASSUME NEW V, ShadowInv(V), dir # None, NEW a \in Addr
  PROVE  /\ Slot1(a) \in Slots1 /\ Slot2(a) \in Slots2 /\ Offset(a) \in 0 .. PageSize - 1
         /\ dir[Slot1(a)] = None => Lookup(a) = Unknown
         /\ dir[Slot1(a)] # None =>
              /\ dir[Slot1(a)] \in Reachable1 /\ dir[Slot1(a)] \in Tables
              /\ table[dir[Slot1(a)]][Slot2(a)] = None => Lookup(a) = Unknown
              /\ table[dir[Slot1(a)]][Slot2(a)] # None =>
                   /\ table[dir[Slot1(a)]][Slot2(a)] \in Reachable2
                   /\ table[dir[Slot1(a)]][Slot2(a)] \in PageNames
                   /\ Lookup(a) = page[table[dir[Slot1(a)]][Slot2(a)]][Offset(a)]
<1>1. Slot1(a) \in Slots1 /\ Slot2(a) \in Slots2 /\ Offset(a) \in 0 .. PageSize - 1
  BY SlotsOf
<1>2. dir \in [Slots1 -> Tables \cup {None}]
      /\ table \in [Tables -> [Slots2 -> PageNames \cup {None}]]
  BY DEF ShadowInv, ShadowTypes
<1>. QED  BY <1>1, <1>2, Where DEF Lookup

\* What a step of GetOrCreate may do to the shadow memory leaves every cell as it is.
LEMMA GetOrCreateKeeps ==
  ASSUME NEW V, Unknown \in V, ShadowInv(V), dir # None, NEW t \in Threads, GetOrCreate(t)
  PROVE  /\ ShadowInv(V)' /\ dir' # None
         /\ \A a \in Addr : Lookup(a)' = Lookup(a)
<1>. DEFINE s1 == Slot1(access[t].addr)
            s2 == Slot2(access[t].addr)
<1>1. ASSUME UNCHANGED <<dir, table, page>> PROVE \A a \in Addr : Lookup(a)' = Lookup(a)
  BY <1>1 DEF Lookup
<1>2. CASE Load1(t) /\ dir[s1] # None
  BY <1>1, <1>2, Load1There
<1>3. CASE Load1(t) /\ dir[s1] = None
  <2>1. /\ ShadowInv(V)' /\ UNCHANGED <<dir, page>>
        /\ \A k \in Reachable1 : table'[k] = table[k]
    BY <1>3, Load1Empty
  <2>2. ASSUME NEW a \in Addr PROVE Lookup(a)' = Lookup(a)
    BY <2>1, LookupIs DEF Lookup
  <2>. QED  BY <2>1, <2>2
<1>4. CASE Cas1(t) /\ dir[s1] = None
  <2>1. /\ ShadowInv(V)' /\ dir' # None /\ UNCHANGED <<table, page>>
        /\ dir' = [dir EXCEPT ![s1] = access[t].fresh]
        /\ access[t].fresh # None /\ table[access[t].fresh] = EmptyTable
    BY <1>4, Cas1Won
  <2>2. dir \in [Slots1 -> Tables \cup {None}]
    BY DEF ShadowInv, ShadowTypes
  <2>3. ASSUME NEW a \in Addr PROVE Lookup(a)' = Lookup(a)
    <3>1. CASE Slot1(a) = s1
      <4>1. dir'[Slot1(a)] = access[t].fresh
        BY <2>1, <2>2, <3>1, SlotsOf
      <4>2. Lookup(a)' = Unknown
        BY <2>1, <4>1, SlotsOf DEF Lookup, EmptyTable
      <4>. QED  BY <1>4, <3>1, <4>2 DEF Lookup
    <3>2. CASE Slot1(a) # s1
      BY <2>1, <2>2, <3>2, SlotsOf DEF Lookup
    <3>. QED  BY <3>1, <3>2
  <2>. QED  BY <2>1, <2>3
<1>5. CASE Cas1(t) /\ dir[s1] # None
  BY <1>1, <1>5, Cas1Lost
<1>6. CASE Load2(t) /\ table[access[t].v1][s2] # None
  BY <1>1, <1>6, Load2There
<1>7. CASE Load2(t) /\ table[access[t].v1][s2] = None
  <2>1. /\ ShadowInv(V)' /\ UNCHANGED <<dir, table>>
        /\ \A k \in Reachable2 : page'[k] = page[k]
    BY <1>7, Load2Empty
  <2>2. ASSUME NEW a \in Addr PROVE Lookup(a)' = Lookup(a)
    BY <2>1, LookupIs DEF Lookup
  <2>. QED  BY <2>1, <2>2
<1>8. CASE Cas2(t) /\ table[access[t].v1][s2] = None
  <2>1. /\ ShadowInv(V)' /\ UNCHANGED <<dir, page>>
        /\ table' = [table EXCEPT ![access[t].v1][s2] = access[t].fresh]
        /\ access[t].fresh # None /\ page[access[t].fresh] = EmptyPage
        /\ access[t].v1 = dir[s1]
    BY <1>8, Cas2Won
  <2>2. /\ dir \in [Slots1 -> Tables \cup {None}]
        /\ table \in [Tables -> [Slots2 -> PageNames \cup {None}]]
    BY DEF ShadowInv, ShadowTypes
  <2>3. ASSUME NEW a \in Addr PROVE Lookup(a)' = Lookup(a)
    <3>1. CASE dir[Slot1(a)] = None
      BY <2>1, <3>1 DEF Lookup
    <3>2. CASE dir[Slot1(a)] # None /\ dir[Slot1(a)] = access[t].v1 /\ Slot2(a) = s2
      <4>1. table'[dir[Slot1(a)]][Slot2(a)] = access[t].fresh
        BY <2>1, <2>2, <3>2, SlotsOf
      <4>2. Lookup(a)' = Unknown
        BY ZenonT(60), <2>1, <3>2, <4>1, SlotsOf DEF Lookup, EmptyPage
      <4>. QED  BY <1>8, <3>2, <4>2 DEF Lookup
    <3>3. CASE dir[Slot1(a)] # None /\ (dir[Slot1(a)] # access[t].v1 \/ Slot2(a) # s2)
      <4>1. table'[dir[Slot1(a)]][Slot2(a)] = table[dir[Slot1(a)]][Slot2(a)]
        BY <2>1, <2>2, <3>3, SlotsOf
      <4>. QED  BY <2>1, <3>3, <4>1 DEF Lookup
    <3>. QED  BY <3>1, <3>2, <3>3
  <2>. QED  BY <2>1, <2>3
<1>9. CASE Cas2(t) /\ table[access[t].v1][s2] # None
  BY SMTT(60), <1>1, <1>9, Cas2Lost
<1>. QED  BY <1>2, <1>3, <1>4, <1>5, <1>6, <1>7, <1>8, <1>9 DEF GetOrCreate

\* A store into the cell a thread has got sets its address and no other.
LEMMA StoreKeeps ==
  ASSUME NEW V, ShadowInv(V), dir # None, NEW t \in Threads, access[t].pc = "got",
         NEW h \in V, Store(t, h)
  PROVE  /\ page' \in [PageNames -> [0 .. PageSize - 1 -> V]]
         /\ \A k \in PageNames \ Reachable2 : page'[k] = page[k]
         /\ access[t].addr \in Addr
         /\ \A a \in Addr : Lookup(a)' = IF a = access[t].addr THEN h ELSE Lookup(a)
<1>. DEFINE b == access[t].addr
            n == access[t].v2
<1>1. /\ page' = [page EXCEPT ![n][Offset(b)] = h] /\ UNCHANGED <<dir, table, tables, pages>>
  BY DEF Store
<1>2. /\ page \in [PageNames -> [0 .. PageSize - 1 -> V]] /\ OneEntry
      /\ table \in [Tables -> [Slots2 -> PageNames \cup {None}]]
      /\ b \in Addr /\ dir[Slot1(b)] # None /\ n = table[dir[Slot1(b)]][Slot2(b)] /\ n # None
  BY DEF ShadowInv, ShadowTypes, Pointers
<1>3. /\ n \in Reachable2 /\ n \in PageNames /\ dir[Slot1(b)] \in Reachable1
      /\ Slot1(b) \in Slots1 /\ Slot2(b) \in Slots2 /\ Offset(b) \in 0 .. PageSize - 1
  BY SMTT(60), <1>2, LookupIs
<1>4. /\ page' \in [PageNames -> [0 .. PageSize - 1 -> V]]
      /\ page'[n][Offset(b)] = h
      /\ \A o \in 0 .. PageSize - 1 : o # Offset(b) => page'[n][o] = page[n][o]
      /\ \A k \in PageNames : k # n => page'[k] = page[k]
  BY ZenonT(60), <1>1, <1>2, <1>3
<1>5. ASSUME NEW a \in Addr PROVE Lookup(a)' = IF a = b THEN h ELSE Lookup(a)
  <2>1. CASE a = b
    BY <1>1, <1>2, <1>4, <2>1 DEF Lookup
  <2>2. CASE a # b
    <3>1. CASE dir[Slot1(a)] = None \/ table[dir[Slot1(a)]][Slot2(a)] = None
      BY <1>1, <2>2, <3>1 DEF Lookup
    <3>2. CASE dir[Slot1(a)] # None /\ table[dir[Slot1(a)]][Slot2(a)] # None
      <4>1. /\ dir[Slot1(a)] \in Reachable1 /\ table[dir[Slot1(a)]][Slot2(a)] \in PageNames
            /\ Slot1(a) \in Slots1 /\ Slot2(a) \in Slots2 /\ Offset(a) \in 0 .. PageSize - 1
        BY <3>2, LookupIs
      <4>2. CASE table[dir[Slot1(a)]][Slot2(a)] = n
        <5>1. dir[Slot1(a)] = dir[Slot1(b)] /\ Slot2(a) = Slot2(b)
          BY <1>2, <1>3, <3>2, <4>1, <4>2 DEF OneEntry
        <5>2. Slot1(a) = Slot1(b)
          BY <1>2, <1>3, <4>1, <5>1 DEF OneEntry
        <5>3. Offset(a) # Offset(b)
          BY <1>2, <2>2, <5>1, <5>2, SlotsDiffer
        <5>. QED  BY <1>1, <1>4, <2>2, <3>2, <4>1, <4>2, <5>3 DEF Lookup
      <4>3. CASE table[dir[Slot1(a)]][Slot2(a)] # n
        BY <1>1, <1>4, <2>2, <3>2, <4>1, <4>3 DEF Lookup
      <4>. QED  BY <4>2, <4>3
    <3>. QED  BY <3>1, <3>2
  <2>. QED  BY SMTT(60), <2>1, <2>2
<1>. QED  BY <1>2, <1>3, <1>4, <1>5

\* A thread that holds no memory of its own turns to another address, or to none; what
\* changes in the pages is in pages that are installed.
LEMMA AccessMoves ==
  ASSUME NEW V, ShadowInv(V), dir # None, NEW t \in Threads,
         NEW x \in Accesses, access' = [access EXCEPT ![t] = x], Pointers(x),
         access[t].pc \notin {"cas1", "cas2"}, x.pc \notin {"cas1", "cas2"},
         UNCHANGED <<dir, table, tables, pages>>,
         page' \in [PageNames -> [0 .. PageSize - 1 -> V]],
         \A k \in PageNames \ Reachable2 : page'[k] = page[k]
  PROVE  ShadowInv(V)'
<1>1. /\ access'[t] = x /\ access' \in [Threads -> Accesses]
      /\ \A u \in Threads : u # t => access'[u] = access[u]
  BY DEF ShadowInv, ShadowTypes
<1>2. ShadowTypes(V)'
  BY <1>1 DEF ShadowInv, ShadowTypes
<1>3. Reachable1' = Reachable1 /\ Reachable2' = Reachable2
  BY DEF Reachable1, Reachable2
<1>4. Own("cas1")' = Own("cas1") /\ Own("cas2")' = Own("cas2")
  BY <1>1, OwnSame
<1>5. Owned'
  <2>1. Owned
    BY DEF ShadowInv
  <2>2. \A u, v \in Threads :
          u # v /\ access'[u].pc = access'[v].pc /\ access'[u].pc \in {"cas1", "cas2"} =>
            access'[u].fresh # access'[v].fresh
    BY <1>1, <2>1 DEF Owned
  <2>. QED  BY <1>3, <1>4, <2>1, <2>2 DEF Owned
<1>6. OneEntry'
  BY <1>3 DEF ShadowInv, OneEntry
<1>7. ASSUME NEW u \in Threads PROVE Pointers(access[u])'
  <2>1. CASE u = t
    BY <1>1, <2>1 DEF Pointers
  <2>2. CASE u # t
    <3>1. Pointers(access[u])
      BY DEF ShadowInv
    <3>. QED  BY <1>1, <1>3, <2>2, <3>1 DEF Pointers, EmptyTable, EmptyPage
  <2>. QED  BY <2>1, <2>2
<1>. QED  BY <1>2, <1>5, <1>6, <1>7 DEF ShadowInv

\* A thread that starts on an address.
LEMMA SeekKeeps ==
  ASSUME NEW V, ShadowInv(V), dir # None, NEW t \in Threads, NEW a \in Addr,
         access[t].pc = "none", Seek(t, a), UNCHANGED <<dir, table, page, tables, pages>>
  PROVE  ShadowInv(V)'
<1>. DEFINE x == [Idle EXCEPT !.pc = "load1", !.addr = a]
<1>1. access' = [access EXCEPT ![t] = x]
  BY DEF Seek
<1>2. x \in Accesses /\ x.pc = "load1" /\ x.addr = a
  BY SlotsOf DEF Accesses, Idle
<1>. HIDE DEF x
<1>3. Pointers(x)
  BY <1>2 DEF Pointers
<1>4. page \in [PageNames -> [0 .. PageSize - 1 -> V]]
  BY DEF ShadowInv, ShadowTypes
<1>. QED  BY <1>1, <1>2, <1>3, <1>4, AccessMoves

\* A thread that stores, and is through or goes to the next address.
LEMMA StoreMoves ==
  ASSUME NEW V, ShadowInv(V), dir # None, NEW t \in Threads, access[t].pc = "got",
         NEW h \in V, Store(t, h),
         \/ access' = [access EXCEPT ![t] = Idle]
         \/ access' = NextCell(t) /\ access[t].addr + 1 \in Addr
  PROVE  ShadowInv(V)'
<1>1. /\ page' \in [PageNames -> [0 .. PageSize - 1 -> V]]
      /\ \A k \in PageNames \ Reachable2 : page'[k] = page[k]
      /\ access[t].addr \in Addr
  BY StoreKeeps
<1>2. UNCHANGED <<dir, table, tables, pages>>
  BY DEF Store
<1>3. PICK x \in Accesses : access' = [access EXCEPT ![t] = x] /\ Pointers(x)
                            /\ x.pc \notin {"cas1", "cas2"}
  <2>1. CASE access' = [access EXCEPT ![t] = Idle]
    <3>1. Idle \in Accesses /\ Idle.pc = "none"
      BY DEF Idle, Accesses
    <3>2. Pointers(Idle)
      BY <3>1 DEF Pointers
    <3>. QED  BY <2>1, <3>1, <3>2
  <2>2. CASE access' = NextCell(t) /\ access[t].addr + 1 \in Addr
    <3>. DEFINE a == access[t].addr + 1
    <3>1. CASE Offset(a) = 0
      <4>. DEFINE x == [Idle EXCEPT !.pc = "load1", !.addr = a]
      <4>1. access' = [access EXCEPT ![t] = x]
        BY <2>2, <3>1 DEF NextCell
      <4>2. x \in Accesses /\ x.pc = "load1" /\ x.addr = a
        BY <2>2, SlotsOf DEF Accesses, Idle
      <4>. HIDE DEF x
      <4>3. Pointers(x)
        BY <2>2, <4>2 DEF Pointers
      <4>. QED  BY <4>1, <4>2, <4>3
    <3>2. CASE Offset(a) # 0
      <4>. DEFINE x == [access[t] EXCEPT !.addr = a]
      <4>1. access' = [access EXCEPT ![t] = x]
        <5>1. access[t] \in Accesses /\ access \in [Threads -> Accesses]
          BY DEF ShadowInv, ShadowTypes
        <5>. QED  BY <2>2, <3>2, <5>1 DEF NextCell
      <4>2. /\ x \in Accesses /\ x.pc = "got" /\ x.addr = a
            /\ x.v1 = access[t].v1 /\ x.v2 = access[t].v2
        <5>1. access[t] \in Accesses
          BY DEF ShadowInv, ShadowTypes
        <5>. QED  BY <2>2, <5>1, SlotsOf DEF Accesses
      <4>. HIDE DEF x
      <4>3. Pointers(x)
        <5>1. Pointers(access[t])
          BY DEF ShadowInv
        <5>2. Slot1(a) = Slot1(access[t].addr) /\ Slot2(a) = Slot2(access[t].addr)
          BY <1>1, <2>2, <3>2, SamePage
        <5>. QED  BY <2>2, <4>2, <5>1, <5>2 DEF Pointers
      <4>. QED  BY <4>1, <4>2, <4>3
    <3>. QED  BY <3>1, <3>2
  <2>. QED  BY <2>1, <2>2
<1>4. access[t].pc \notin {"cas1", "cas2"}
  OBVIOUS
<1>. QED  BY <1>1, <1>2, <1>3, <1>4, AccessMoves

\* The constructor.
LEMMA NewKeeps ==
  ASSUME NEW V, ShadowInv(V), dir = None, dir' = NewShadow,
         UNCHANGED <<table, page, tables, pages, access>>
  PROVE  ShadowInv(V)' /\ dir' # None
<1>1. NewShadow \in [Slots1 -> Tables \cup {None}] /\ NewShadow # None
      /\ \A s \in Slots1 : NewShadow[s] = None
  BY ShadowAssumption DEF NewShadow
<1>2. ShadowTypes(V)'
  BY <1>1 DEF ShadowInv, ShadowTypes
<1>3. Reachable1' = {} /\ Reachable2' = {}
  <2>1. Reachable1' = {}
    BY <1>1, WhereNext
  <2>. QED  BY <2>1, WhereNext
<1>4. tables = {} /\ pages = {} /\ \A t \in Threads : access[t].pc = "none"
  BY DEF ShadowInv
<1>5. Own("cas1")' = {} /\ Own("cas2")' = {}
  BY <1>4 DEF Own
<1>6. Owned'
  BY <1>3, <1>4, <1>5 DEF Owned
<1>7. OneEntry'
  BY <1>1, <1>3 DEF OneEntry
<1>8. \A t \in Threads : Pointers(access[t])'
  BY <1>4 DEF Pointers
<1>. QED  BY <1>1, <1>2, <1>6, <1>7, <1>8 DEF ShadowInv

\* The destructor, when no thread is in a call: all memory is given back.
LEMMA DeleteKeeps ==
  ASSUME NEW V, ShadowInv(V), dir # None, \A t \in Threads : access[t].pc = "none", Delete
  PROVE  ShadowInv(V)' /\ dir' = None
<1>1. Own("cas1") = {} /\ Own("cas2") = {}
  BY DEF Own
<1>2. tables' = {} /\ pages' = {} /\ dir' = None /\ UNCHANGED <<table, page, access>>
  BY <1>1 DEF Delete, ShadowInv, Owned
<1>. QED  BY <1>2 DEF ShadowInv, ShadowTypes

-----------------------------------------------------------------------------
(* The attribution. *)

\* Where nothing happens to the shadow memory, it stays as it is.
LEMMA ShadowStays ==
  ASSUME NEW V, ShadowInv(V), UNCHANGED shadowVars
  PROVE  ShadowInv(V)' /\ dir' = dir /\ access' = access /\ \A a \in Addr : Lookup(a)' = Lookup(a)
<1>1. UNCHANGED <<dir, table, page, tables, pages, access>>
  BY DEF shadowVars
<1>2. \A a \in Addr : Lookup(a)' = Lookup(a)
  BY <1>1 DEF Lookup
<1>3. Reachable1' = Reachable1 /\ Reachable2' = Reachable2 /\ \A p : Own(p)' = Own(p)
  BY <1>1 DEF Reachable1, Reachable2, Own
<1>4. ShadowTypes(V)' /\ (Owned <=> Owned') /\ (OneEntry <=> OneEntry')
  BY <1>1, <1>3 DEF ShadowInv, ShadowTypes, Owned, OneEntry
<1>5. ASSUME NEW t \in Threads PROVE Pointers(access[t]) <=> Pointers(access[t])'
  BY <1>1, <1>3 DEF Pointers
<1>. QED  BY <1>1, <1>2, <1>4, <1>5 DEF ShadowInv

\* The cells of a range, and those of an object.
LEMMA Spans ==
  /\ \A lo, n : Span(lo, n) \subseteq Addr
  /\ \A lo, n, a : a \in Span(lo, n) <=> a \in Addr /\ lo <= a /\ a < lo + n
  /\ \A o : Units(o) = Span(o.lo, o.size)
  /\ Addr \subseteq Nat
BY SlotsOf DEF Span, Units

\* The clients that are in.
LEMMA Counted ==
  ASSUME ClientInv, NEW c \in Clients
  PROVE  /\ init_count \in Nat /\ IsFiniteSet({d \in Clients : client[d] = "in"})
         /\ init_count = 0 <=> \A d \in Clients : client[d] # "in"
<1>. DEFINE I == {d \in Clients : client[d] = "in"}
<1>1. IsFiniteSet(I)
  BY DataAssumption, FS_Subset
<1>2. init_count = Cardinality(I) /\ init_count \in Nat
  BY <1>1, FS_CardinalityType DEF ClientInv
<1>3. init_count = 0 <=> I = {}
  BY <1>1, <1>2, FS_EmptySet
<1>. QED  BY <1>1, <1>2, <1>3

\* A client is initialised: the first one makes the shadow memory.
LEMMA ClientInitKeeps ==
  ASSUME DataInv, NEW c \in Clients, ClientInit(c)
  PROVE  DataInv'
<1>1. /\ client[c] = "out" /\ \A d \in Clients : client[d] # "gone"
      /\ client' = [client EXCEPT ![c] = "in"] /\ init_count' = init_count + 1
      /\ dir' = IF init_count' > 1 THEN dir ELSE NewShadow
      /\ UNCHANGED <<table, page, tables, pages, access, pending, todo, idle_idx, exited>>
      /\ UNCHANGED programVars
  BY DEF ClientInit
<1>2. UNCHANGED <<calls, objects, poisoned, loaded, left>>
  BY <1>1 DEF programVars
<1>3. ClientInv /\ client \in [Clients -> {"out", "in", "gone"}]
  BY DEF DataInv, ClientInv
<1>4. /\ client' \in [Clients -> {"out", "in", "gone"}] /\ client'[c] = "in"
      /\ \A d \in Clients : d # c => client'[d] = client[d]
  BY <1>1, <1>3
<1>5. init_count \in Nat /\ (init_count = 0 <=> dir = None) /\ objects = {}
  BY <1>1, <1>3, Counted DEF ClientInv
<1>6. ShadowInv(Handles \cup {Unknown})' /\ dir' # None
  <2>1. CASE dir = None
    BY <1>1, <1>5, <2>1, NewKeeps DEF DataInv
  <2>2. CASE dir # None
    <3>1. dir' = dir
      BY <1>1, <1>5, <2>2
    <3>. QED  BY <1>1, <2>2, <3>1, ShadowStays DEF DataInv, shadowVars
  <2>. QED  BY <2>1, <2>2
<1>7. ClientInv'
  <2>. DEFINE I == {d \in Clients : client[d] = "in"}
              J == {d \in Clients : client'[d] = "in"}
  <2>1. J = I \cup {c} /\ c \notin I
    <3>1. \A d : d \in J <=> d \in I \cup {c}
      BY <1>1, <1>4
    <3>. QED  BY <1>1, <3>1
  <2>2. IsFiniteSet(I) /\ init_count = Cardinality(I)
    BY <1>3, Counted DEF ClientInv
  <2>3. Cardinality(J) = init_count + 1
    BY <2>1, <2>2, FS_AddElement
  <2>4. \A d \in Clients : client'[d] # "gone"
    BY <1>1, <1>4
  <2>. QED  BY <1>1, <1>2, <1>3, <1>4, <1>5, <1>6, <2>3, <2>4 DEF ClientInv
<1>8. CallInv' /\ RangeInv' /\ JobInv' /\ ObjectsAttributed'
  BY <1>1, <1>2, <1>5
  DEF DataInv, CallInv, RangeInv, JobInv, ObjectsAttributed, Units, Span, Disjoint
<1>9. WrittenInv'
  <2>1. CASE dir = None
    BY <1>1, <2>1 DEF WrittenInv, DataInv, ShadowInv
  <2>2. CASE dir # None
    <3>1. dir' = dir
      BY <1>1, <1>5, <2>2
    <3>. QED  BY <1>1, <1>2, <3>1 DEF DataInv, WrittenInv, Lookup, Units, Span
  <2>. QED  BY <2>1, <2>2
<1>. QED  BY <1>6, <1>7, <1>8, <1>9 DEF DataInv

\* A client exits: the last one gives all memory back.
LEMMA ClientExitKeeps ==
  ASSUME DataInv, NEW c \in Clients, ClientExit(c)
  PROVE  DataInv'
<1>1. /\ client[c] = "in" /\ \A d \in Clients : client[d] # "out"
      /\ client' = [client EXCEPT ![c] = "gone"] /\ init_count' = init_count - 1
      /\ IF init_count' = 0 THEN Delete ELSE UNCHANGED shadowVars
      /\ UNCHANGED <<pending, todo, idle_idx, exited>>
      /\ UNCHANGED programVars /\ \A t \in Threads : todo[t] = << >>
  BY DEF ClientExit, TearsDown, Quiet
<1>2. UNCHANGED <<calls, objects, poisoned, loaded, left>>
  BY <1>1 DEF programVars
<1>3. /\ ClientInv /\ client \in [Clients -> {"out", "in", "gone"}] /\ dir # None
      /\ ShadowInv(Handles \cup {Unknown}) /\ JobInv
  BY <1>1 DEF DataInv, ClientInv
<1>4. /\ client' \in [Clients -> {"out", "in", "gone"}] /\ client'[c] = "gone"
      /\ \A d \in Clients : d # c => client'[d] = client[d]
  BY <1>1, <1>3
<1>5. \A t \in Threads : access[t].pc = "none"
  BY <1>1, <1>3 DEF JobInv
<1>. DEFINE I == {d \in Clients : client[d] = "in"}
            J == {d \in Clients : client'[d] = "in"}
<1>6. J = I \ {c} /\ c \in I
  <2>1. \A d : d \in J <=> d \in I \ {c}
    BY <1>1, <1>4
  <2>. QED  BY <1>1, <2>1
<1>7. IsFiniteSet(J) /\ Cardinality(J) = init_count'
  <2>1. IsFiniteSet(I) /\ init_count = Cardinality(I)
    BY <1>3, Counted DEF ClientInv
  <2>2. IsFiniteSet(I \ {c}) /\ Cardinality(I \ {c}) = Cardinality(I) - 1
    BY <1>6, <2>1, FS_RemoveElement
  <2>. QED  BY <1>1, <1>6, <2>1, <2>2
<1>8. init_count' = 0 <=> J = {}
  BY <1>7, FS_EmptySet
<1>9. ShadowInv(Handles \cup {Unknown})' /\ access' = access /\ (dir' = None <=> J = {})
  <2>1. CASE init_count' = 0
    BY <1>1, <1>3, <1>5, <1>8, <2>1, DeleteKeeps DEF Delete
  <2>2. CASE init_count' # 0
    BY <1>1, <1>3, <1>8, <2>2, ShadowStays
  <2>. QED  BY <2>1, <2>2
<1>10. ClientInv'
  <2>1. \A d \in Clients : client'[d] # "out"
    BY <1>1, <1>4
  <2>. QED  BY <1>1, <1>2, <1>3, <1>4, <1>7, <1>9, <2>1 DEF ClientInv
<1>11. CallInv' /\ RangeInv' /\ JobInv'
  BY <1>1, <1>2, <1>9 DEF DataInv, CallInv, RangeInv, JobInv, Units, Span, Disjoint
<1>12. WrittenInv'
  BY <1>5, <1>9 DEF WrittenInv
<1>13. ObjectsAttributed'
  <2>1. CASE init_count' = 0
    BY <1>1, <2>1 DEF Delete, ObjectsAttributed
  <2>2. CASE init_count' # 0
    <3>1. \A a \in Addr : Lookup(a)' = Lookup(a)
      BY <1>1, <1>3, <2>2, ShadowStays
    <3>. QED  BY <1>2, <1>3, <3>1, Spans DEF DataInv, ObjectsAttributed
  <2>. QED  BY <2>1, <2>2
<1>. QED  BY <1>9, <1>10, <1>11, <1>12, <1>13 DEF DataInv

\* What a wrapper has just asked for: nothing of it is begun, it is about memory that nobody
\* else has, and what it writes outside of its object is poisoned.
Asked(t, js) ==
  /\ todo[t] = << >> /\ js \in Seq(Jobs) /\ todo' = [todo EXCEPT ![t] = js]
  /\ \A i \in DOMAIN js :
       /\ ~ js[i].begun
       /\ js[i].n # 0 => js[i].lo \in Addr
       /\ js[i].of.exact => js[i].lo = js[i].of.lo /\ js[i].n = js[i].of.size /\ js[i].h = js[i].of.h
       /\ Span(js[i].lo, js[i].n) \subseteq Units(js[i].of) \cup poisoned'
       /\ \A o \in objects : Disjoint(o, js[i].of)
       /\ \A u \in Threads : u # t => \A k \in DOMAIN todo[u] : Disjoint(js[i].of, todo[u][k].of)
       /\ \A k \in DOMAIN js : k # i => Disjoint(js[i].of, js[k].of)

\* Memory that two objects share is neither one's.
LEMMA DisjointIs ==
  \A o, p : /\ Disjoint(o, p)' <=> Disjoint(o, p)
            /\ Disjoint(o, p) <=> Disjoint(p, o)
            /\ Disjoint(o, p) /\ o.exact => \A a \in Units(o) : a \notin Units(p)
<1>1. \A o, p : Disjoint(o, p)' <=> Disjoint(o, p)
  BY DEF Disjoint, Units, Span
<1>2. \A o, p : Disjoint(o, p) <=> Disjoint(p, o)
  BY DEF Disjoint
<1>3. \A o, p : Disjoint(o, p) /\ o.exact => \A a \in Units(o) : a \notin Units(p)
  BY DEF Disjoint
<1>. QED  BY <1>1, <1>2, <1>3

\* A step of the program leaves the cells alone; what it asks for is about its own memory.
LEMMA AskedKeeps ==
  ASSUME DataInv, Running, UNCHANGED shadowVars, UNCHANGED <<client, init_count, idle_idx, exited>>,
         objects' \subseteq objects, poisoned \subseteq poisoned',
         NEW t \in Threads, NEW js, Asked(t, js)
  PROVE  ShadowInv(Handles \cup {Unknown})' /\ ClientInv' /\ JobInv' /\ RangeInv' /\ WrittenInv'
         /\ ObjectsAttributed'
<1>1. /\ ShadowInv(Handles \cup {Unknown})' /\ dir' = dir /\ access' = access
      /\ \A a \in Addr : Lookup(a)' = Lookup(a)
  BY ShadowStays DEF DataInv
<1>2. /\ todo \in [Threads -> Seq(Jobs)] /\ todo' \in [Threads -> Seq(Jobs)] /\ todo'[t] = js
      /\ \A u \in Threads : u # t => todo'[u] = todo[u]
  BY DEF DataInv, JobInv, Asked
<1>3. dir # None /\ \A c \in Clients : client[c] = "in"
  BY DataAssumption, FS_EmptySet DEF Running, DataInv, ClientInv
<1>4. ClientInv'
  BY <1>1, <1>3 DEF DataInv, ClientInv
<1>5. access[t].pc = "none"
  BY DEF DataInv, JobInv, Asked
<1>6. JobInv'
  <2>1. ASSUME NEW u \in Threads, NEW i \in DOMAIN todo'[u]
        PROVE  LET j == todo'[u][i] IN
               /\ j.n # 0 => j.lo \in Addr
               /\ j.of.exact => j.lo = j.of.lo /\ j.n = j.of.size /\ j.h = j.of.h
               /\ Span(j.lo, j.n) \subseteq Units(j.of) \cup poisoned'
               /\ j.begun => i = 1 /\ j.h # Unknown
    <3>1. CASE u = t
      BY <1>2, <2>1, <3>1 DEF Asked
    <3>2. CASE u # t
      <4>1. todo'[u] = todo[u] /\ i \in DOMAIN todo[u]
        BY <1>2, <3>2
      <4>2. PICK j : j = todo[u][i]
        OBVIOUS
      <4>3. /\ j.n # 0 => j.lo \in Addr
            /\ j.of.exact => j.lo = j.of.lo /\ j.n = j.of.size /\ j.h = j.of.h
            /\ Span(j.lo, j.n) \subseteq Units(j.of) \cup poisoned
            /\ j.begun => i = 1 /\ j.h # Unknown
        BY <4>1, <4>2 DEF DataInv, JobInv
      <4>. QED  BY <4>1, <4>2, <4>3
    <3>. QED  BY <3>1, <3>2
  <2>2. ASSUME NEW u \in Threads
        PROVE  /\ access'[u].pc # "none" <=> todo'[u] # << >> /\ todo'[u][1].begun
               /\ access'[u].pc # "none" =>
                    access'[u].addr \in Span(todo'[u][1].lo, todo'[u][1].n)
    <3>1. CASE u = t
      <4>1. js # << >> => 1 \in DOMAIN js
        BY DEF Asked
      <4>. QED  BY <1>1, <1>2, <1>5, <3>1, <4>1 DEF Asked
    <3>2. CASE u # t
      BY <1>1, <1>2, <3>2 DEF DataInv, JobInv
    <3>. QED  BY <3>1, <3>2
  <2>3. \A lo, n, o : Span(lo, n)' = Span(lo, n) /\ Units(o)' = Units(o)
    BY DEF Span, Units
  <2>. QED  BY <1>2, <2>1, <2>2, <2>3 DEF JobInv
<1>7. RangeInv'
  <2>1. RangeInv
    BY DEF DataInv
  <2>2. ASSUME NEW o \in objects', NEW u \in Threads, NEW i \in DOMAIN todo'[u]
        PROVE  Disjoint(o, todo'[u][i].of)
    <3>1. CASE u = t
      BY <1>2, <2>2, <3>1 DEF Asked
    <3>2. CASE u # t
      BY <1>2, <2>1, <2>2, <3>2 DEF RangeInv
    <3>. QED  BY <3>1, <3>2
  <2>3. ASSUME NEW u \in Threads, NEW v \in Threads, NEW i \in DOMAIN todo'[u],
               NEW k \in DOMAIN todo'[v], u # v \/ i # k
        PROVE  Disjoint(todo'[u][i].of, todo'[v][k].of)
    <3>1. CASE u = t /\ v = t
      BY <1>2, <2>3, <3>1 DEF Asked
    <3>2. CASE u = t /\ v # t
      BY <1>2, <2>3, <3>2 DEF Asked
    <3>3. CASE u # t /\ v = t
      <4>1. Disjoint(todo'[v][k].of, todo'[u][i].of)
        BY <1>2, <2>3, <3>3 DEF Asked
      <4>. QED  BY <4>1, DisjointIs
    <3>4. CASE u # t /\ v # t
      BY <1>2, <2>1, <2>3, <3>4 DEF RangeInv
    <3>. QED  BY <3>1, <3>2, <3>3, <3>4
  <2>4. objects' \subseteq Object /\ \A o, p \in objects' : o # p => Disjoint(o, p)
    BY <2>1 DEF RangeInv
  <2>5. Object' = Object
    BY DEF Object, SymbolSizes
  <2>. QED  BY <2>2, <2>3, <2>4, <2>5, DisjointIs DEF RangeInv
<1>8. WrittenInv'
  <2>1. ASSUME NEW u \in Threads, access'[u].pc # "none", todo'[u][1].of.exact,
               NEW a \in Units(todo'[u][1].of) \ poisoned', a < access'[u].addr
        PROVE  Lookup(a)' = todo'[u][1].h
    <3>1. u # t /\ access'[u] = access[u] /\ todo'[u] = todo[u]
      BY <1>1, <1>2, <1>5, <2>1
    <3>2. a \in Units(todo[u][1].of) \ poisoned /\ a \in Addr
      BY <2>1, <3>1, Spans
    <3>3. Lookup(a) = todo[u][1].h
      BY <2>1, <3>1, <3>2 DEF DataInv, WrittenInv
    <3>. QED  BY <1>1, <3>1, <3>2, <3>3
  <2>2. \A o : Units(o)' = Units(o)
    BY DEF Span, Units
  <2>. QED  BY <2>1, <2>2 DEF WrittenInv
<1>9. ObjectsAttributed'
  <2>1. ASSUME NEW o \in objects', o.exact, NEW a \in Units(o) \ poisoned'
        PROVE  Lookup(a)' = o.h
    BY <1>1, <1>3, <2>1, Spans DEF DataInv, ObjectsAttributed
  <2>2. \A o : Units(o)' = Units(o)
    BY DEF Span, Units
  <2>. QED  BY <2>1, <2>2 DEF ObjectsAttributed
<1>. QED  BY <1>1, <1>4, <1>6, <1>7, <1>8, <1>9

\* A wrapper before a call: the calls outside of it are no longer the thread's slot's.
LEMMA CaptureKeeps ==
  ASSUME DataInv, NEW t \in Threads, NEW n \in Sizes, NEW c \in Contexts, Capture(t, n, c)
  PROVE  DataInv'
<1>. DEFINE f == [size |-> n, ctxt |-> c, exact |-> TRUE]
            g == Inexact(calls[t])
<1>1. /\ Running /\ todo[t] = << >> /\ UNCHANGED shadowVars
      /\ UNCHANGED <<client, init_count, todo, idle_idx, exited, objects, poisoned, loaded>>
      /\ pending' = [pending EXCEPT ![t] = [size |-> n, ctxt |-> c]]
      /\ calls' = [calls EXCEPT ![t] = Append(g, f)]
  BY DEF Capture
<1>2. Asked(t, << >>)
  BY <1>1 DEF Asked, DataInv, JobInv
<1>3. /\ ShadowInv(Handles \cup {Unknown})' /\ ClientInv' /\ JobInv' /\ RangeInv' /\ WrittenInv'
      /\ ObjectsAttributed'
  BY <1>1, <1>2, AskedKeeps
<1>4. CallInv'
  <2>1. /\ pending \in [Threads -> [size : Sizes \cup {0}, ctxt : Contexts \cup {None}]]
        /\ calls \in [Threads -> Seq(Calls)]
    BY DEF DataInv, CallInv
  <2>2. /\ g \in Seq(Calls) /\ Len(g) = Len(calls[t])
        /\ \A i \in DOMAIN g : ~ g[i].exact
    <3>1. calls[t] \in Seq(Calls)
      BY <2>1
    <3>2. ASSUME NEW x \in Calls
          PROVE  [x EXCEPT !.exact = FALSE] \in Calls /\ ~ [x EXCEPT !.exact = FALSE].exact
      BY DEF Calls
    <3>3. g = [i \in 1 .. Len(calls[t]) |-> [calls[t][i] EXCEPT !.exact = FALSE]]
      BY <3>1 DEF Inexact
    <3>. HIDE DEF g
    <3>5. DOMAIN g = 1 .. Len(calls[t]) /\ Len(calls[t]) \in Nat
      BY <3>1, <3>3
    <3>6. ASSUME NEW i \in 1 .. Len(calls[t]) PROVE g[i] \in Calls /\ ~ g[i].exact
      <4>1. g[i] = [calls[t][i] EXCEPT !.exact = FALSE] /\ calls[t][i] \in Calls
        BY <3>1, <3>3
      <4>. QED  BY <3>2, <4>1
    <3>7. g \in Seq(Calls) /\ Len(g) = Len(calls[t])
      BY SMTT(60), <3>3, <3>5, <3>6
    <3>. QED  BY <3>5, <3>6, <3>7
  <2>. HIDE DEF g
  <2>3. f \in Calls
    BY DEF Calls
  <2>. DEFINE h == Append(g, f)
  <2>4. /\ h \in Seq(Calls) /\ Len(h) = Len(g) + 1 /\ h[Len(h)] = f
        /\ \A i \in DOMAIN h : i # Len(h) => i \in DOMAIN g /\ h[i] = g[i]
    BY <2>2, <2>3
  <2>. HIDE DEF h
  <2>5. calls' \in [Threads -> Seq(Calls)] /\ calls'[t] = h
        /\ \A u \in Threads : u # t => calls'[u] = calls[u] /\ pending'[u] = pending[u]
    BY <1>1, <2>1, <2>4 DEF h
  <2>6. /\ pending' \in [Threads -> [size : Sizes \cup {0}, ctxt : Contexts \cup {None}]]
        /\ pending'[t] = [size |-> n, ctxt |-> c]
    BY <1>1, <2>1
  <2>7. ASSUME NEW u \in Threads, NEW i \in DOMAIN calls'[u], calls'[u][i].exact
        PROVE  /\ i = Len(calls'[u])
               /\ pending'[u] = [size |-> calls'[u][i].size, ctxt |-> calls'[u][i].ctxt]
    <3>1. CASE u = t
      <4>1. i = Len(h)
        BY <2>2, <2>4, <2>5, <2>7, <3>1
      <4>. QED  BY <2>4, <2>5, <2>6, <3>1, <4>1
    <3>2. CASE u # t
      BY <2>5, <2>7, <3>2 DEF DataInv, CallInv
    <3>. QED  BY <3>1, <3>2
  <2>. QED  BY <2>5, <2>6, <2>7 DEF CallInv, Calls
<1>. QED  BY <1>3, <1>4 DEF DataInv

\* A free: the program has less.
LEMMA FreeKeeps ==
  ASSUME DataInv, NEW t \in Threads, NEW o \in objects, Free(t, o)
  PROVE  DataInv'
<1>1. /\ Running /\ todo[t] = << >> /\ UNCHANGED shadowVars
      /\ UNCHANGED <<client, init_count, pending, todo, idle_idx, exited, calls, poisoned, loaded>>
      /\ objects' \subseteq objects
  BY DEF Free, dataVars
<1>2. Asked(t, << >>)
  BY <1>1 DEF Asked, DataInv, JobInv
<1>3. /\ ShadowInv(Handles \cup {Unknown})' /\ ClientInv' /\ JobInv' /\ RangeInv' /\ WrittenInv'
      /\ ObjectsAttributed'
  BY <1>1, <1>2, AskedKeeps
<1>4. CallInv'
  BY <1>1 DEF DataInv, CallInv, Calls
<1>. QED  BY <1>3, <1>4 DEF DataInv

\* A remainder is not more than the number, and a number below the divisor is its own.
LEMMA Rest ==
  ASSUME NEW x \in Nat, NEW u \in Nat \ {0}
  PROVE  /\ x % u \in Nat /\ x % u <= x
         /\ x < u => x % u = x
<1>1. PICK q \in Nat, r \in 0 .. u - 1 : q = x \div u /\ r = x % u /\ x = q * u + r
  BY Division
<1>2. q * u \in Nat
  OBVIOUS
<1>3. r <= x
  <2>1. PICK v \in Nat : v = q * u
    BY <1>2
  <2>. QED  BY <1>1, <2>1
<1>4. x < u => x % u = x
  OBVIOUS
<1>. QED  BY <1>1, <1>3, <1>4

\* Memory that is free is nobody's, nor reserved for anybody.
LEMMA FreeIs ==
  ASSUME NEW o, o.lo \in Nat, o.size \in Nat, FreeRange(o.lo, o.size)
  PROVE  /\ \A p \in objects : Disjoint(p, o)
         /\ \A u \in Threads : \A k \in DOMAIN todo[u] : Disjoint(o, todo[u][k].of)
         /\ o.size # 0 => o.lo \in Addr
<1>1. \A a \in Units(o) : a \in (o.lo .. o.lo + o.size - 1) /\ a \in Addr
  <2>1. ASSUME NEW a \in Units(o) PROVE a \in (o.lo .. o.lo + o.size - 1) /\ a \in Addr
    <3>1. a \in Addr /\ a \in Nat /\ o.lo <= a /\ a < o.lo + o.size
      BY Spans
    <3>2. PICK l \in Nat, n \in Nat : l = o.lo /\ n = o.size
      OBVIOUS
    <3>. QED  BY <3>1, <3>2
  <2>. QED  BY <2>1
<1>2. \A a \in Units(o) : a \notin Busy
  BY <1>1 DEF FreeRange
<1>3. ASSUME NEW p \in objects PROVE Disjoint(p, o)
  BY <1>2 DEF Busy, Disjoint
<1>4. ASSUME NEW u \in Threads, NEW k \in DOMAIN todo[u] PROVE Disjoint(o, todo[u][k].of)
  <2>1. todo[u][k].of \in Reserved(u)
    BY DEF Reserved
  <2>2. Units(todo[u][k].of) \subseteq Busy
    BY <2>1 DEF Busy
  <2>. QED  BY <1>2, <2>2 DEF Disjoint
<1>5. o.size # 0 => o.lo \in Addr
  <2>1. PICK l \in Nat, n \in Nat : l = o.lo /\ n = o.size
    OBVIOUS
  <2>2. n # 0 => l \in (l .. l + n - 1)
    OBVIOUS
  <2>. QED  BY <2>1, <2>2 DEF FreeRange
<1>. QED  BY <1>3, <1>4, <1>5

\* A call that returns: the ones that are left have had one inside them.
LEMMA PoppedKeeps ==
  ASSUME CallInv, NEW t \in Threads, calls[t] # << >>, calls' = Popped(t), UNCHANGED pending
  PROVE  /\ CallInv' /\ Frame(t) \in Calls
         /\ Frame(t).exact => pending[t] = [size |-> Frame(t).size, ctxt |-> Frame(t).ctxt]
<1>. DEFINE s == calls[t]
            h == SubSeq(s, 1, Len(s) - 1)
<1>1. /\ calls \in [Threads -> Seq(Calls)] /\ calls' = [calls EXCEPT ![t] = h]
      /\ pending \in [Threads -> [size : Sizes \cup {0}, ctxt : Contexts \cup {None}]]
  BY DEF CallInv, Popped
<1>2. s \in Seq(Calls) /\ Len(s) \in DOMAIN s /\ s[Len(s)] \in Calls /\ Frame(t) = s[Len(s)]
  <2>1. s \in Seq(Calls) /\ s # << >>
    BY <1>1
  <2>. QED  BY <2>1 DEF Frame
<1>3. /\ h \in Seq(Calls)
      /\ \A i \in DOMAIN h : i \in DOMAIN s /\ i # Len(s) /\ h[i] = s[i]
  <2>1. PICK n \in Nat : n + 1 = Len(s)
    BY <1>2
  <2>2. h \in Seq(Calls) /\ Len(h) = n /\ \A i \in 1 .. n : h[i] = s[i]
    BY <1>2, <2>1
  <2>. QED  BY <1>2, <2>1, <2>2
<1>. HIDE DEF h
<1>4. calls' \in [Threads -> Seq(Calls)] /\ calls'[t] = h
      /\ \A u \in Threads : u # t => calls'[u] = calls[u]
  BY <1>1, <1>3
<1>5. ASSUME NEW u \in Threads, NEW i \in DOMAIN calls'[u], calls'[u][i].exact
      PROVE  /\ i = Len(calls'[u])
             /\ pending[u] = [size |-> calls'[u][i].size, ctxt |-> calls'[u][i].ctxt]
  <2>1. CASE u = t
    BY <1>3, <1>4, <1>5, <2>1 DEF CallInv
  <2>2. CASE u # t
    BY <1>4, <1>5, <2>2 DEF CallInv
  <2>. QED  BY <2>1, <2>2
<1>6. CallInv'
  BY <1>1, <1>4, <1>5 DEF CallInv, Calls
<1>7. Frame(t).exact => pending[t] = [size |-> Frame(t).size, ctxt |-> Frame(t).ctxt]
  BY <1>2 DEF CallInv
<1>. QED  BY <1>2, <1>6, <1>7

\* What a wrapper after a call writes: the cells of the address it got, as many as the slot
\* of its thread says.
LEMMA QueueIs ==
  ASSUME CallInv, NEW t \in Threads, NEW lo \in Nat, NEW o \in Object, Queue(t, lo, o),
         poisoned' = poisoned \cup Stray(t, lo, o)
  PROVE  LET j == Job(lo, pending[t].size % LenMod, Dynamic(pending[t].ctxt), o) IN
         /\ todo' = [todo EXCEPT ![t] = << j >>] /\ << j >> \in Seq(Jobs)
         /\ ~ j.begun /\ j.lo = lo /\ j.n = pending[t].size % LenMod
         /\ j.h = Dynamic(pending[t].ctxt) /\ j.of = o
         /\ Span(j.lo, j.n) \subseteq Units(o) \cup poisoned'
<1>1. pending[t] \in [size : Sizes \cup {0}, ctxt : Contexts \cup {None}]
  BY DEF CallInv
<1>2. PICK n \in Nat : n = pending[t].size % LenMod
  <2>1. pending[t].size \in Nat /\ LenMod \in Nat \ {0}
    <3>1. Sizes \cup {0} \subseteq Nat
      BY DataAssumption
    <3>2. pending[t].size \in Sizes \cup {0}
      BY <1>1
    <3>. QED  BY <3>1, <3>2, DataAssumption
  <2>. QED  BY <2>1, Rest
<1>3. Dynamic(pending[t].ctxt) \in Handles
  BY <1>1 DEF Handles
<1>4. PICK j : j = Job(lo, n, Dynamic(pending[t].ctxt), o)
  OBVIOUS
<1>5. /\ j \in Jobs /\ ~ j.begun /\ j.lo = lo /\ j.n = n
      /\ j.h = Dynamic(pending[t].ctxt) /\ j.of = o
  BY <1>3, <1>4 DEF Job, Jobs
<1>6. Span(lo, n) \subseteq Units(o) \cup poisoned'
  BY <1>2 DEF Stray
<1>. QED  BY <1>2, <1>4, <1>5, <1>6 DEF Queue

\* A wrapper after a call that succeeded.
LEMMA AllocKeeps ==
  ASSUME DataInv, NEW t \in Threads, NEW lo \in Places, Alloc(t, lo)
  PROVE  DataInv'
<1>. DEFINE f == Frame(t)
            o == [lo |-> lo, size |-> f.size, h |-> Dynamic(f.ctxt),
                  exact |-> f.exact /\ f.size < LenMod]
<1>1. /\ Running /\ calls[t] # << >> /\ todo[t] = << >> /\ FreeRange(lo, f.size)
      /\ Queue(t, lo, o) /\ poisoned' = poisoned \cup Stray(t, lo, o) /\ calls' = Popped(t)
      /\ UNCHANGED shadowVars
      /\ UNCHANGED <<client, init_count, pending, idle_idx, exited, objects, loaded, left>>
  BY DEF Alloc
<1>2. CallInv
  BY DEF DataInv
<1>3. /\ CallInv' /\ f \in Calls
      /\ f.exact => pending[t] = [size |-> f.size, ctxt |-> f.ctxt]
  BY <1>1, <1>2, PoppedKeeps
<1>. HIDE DEF f
<1>4. lo \in Addr /\ lo \in Nat /\ f.size \in Nat /\ f.size \in Sizes /\ f.ctxt \in Contexts
      /\ LenMod \in Nat \ {0} /\ f.exact \in BOOLEAN
  BY <1>3, DataAssumption, Spans DEF Calls
<1>5. /\ o.lo = lo /\ o.size = f.size /\ o.h = Dynamic(f.ctxt)
      /\ o.exact <=> f.exact /\ f.size < LenMod
  OBVIOUS
<1>6. o \in Object
  <2>1. Dynamic(f.ctxt) \in Handles
    BY <1>4 DEF Handles
  <2>. QED  BY <1>4, <2>1 DEF Object
<1>. HIDE DEF o
<1>. DEFINE j == Job(lo, pending[t].size % LenMod, Dynamic(pending[t].ctxt), o)
<1>7. /\ todo' = [todo EXCEPT ![t] = << j >>] /\ << j >> \in Seq(Jobs)
      /\ ~ j.begun /\ j.lo = lo /\ j.n = pending[t].size % LenMod
      /\ j.h = Dynamic(pending[t].ctxt) /\ j.of = o
      /\ Span(j.lo, j.n) \subseteq Units(o) \cup poisoned'
  BY <1>1, <1>2, <1>4, <1>6, QueueIs
<1>. HIDE DEF j
<1>8. o.exact => j.lo = o.lo /\ j.n = o.size /\ j.h = o.h
  <2>1. SUFFICES ASSUME o.exact PROVE j.lo = o.lo /\ j.n = o.size /\ j.h = o.h
    OBVIOUS
  <2>2. pending[t].size = f.size /\ pending[t].ctxt = f.ctxt
    BY <1>3, <1>5, <2>1
  <2>3. f.size % LenMod = f.size
    BY <1>4, <1>5, <2>1, Rest
  <2>. QED  BY <1>5, <1>7, <2>2, <2>3
<1>9. /\ \A p \in objects : Disjoint(p, o)
      /\ \A u \in Threads : \A k \in DOMAIN todo[u] : Disjoint(o, todo[u][k].of)
  BY <1>1, <1>4, <1>5, FreeIs
<1>10. Asked(t, << j >>)
  <2>1. \A i \in DOMAIN << j >> : i = 1 /\ << j >>[i] = j
    OBVIOUS
  <2>. QED  BY <1>1, <1>4, <1>7, <1>8, <1>9, <2>1 DEF Asked
<1>11. /\ ShadowInv(Handles \cup {Unknown})' /\ ClientInv' /\ JobInv' /\ RangeInv' /\ WrittenInv'
       /\ ObjectsAttributed'
  BY <1>1, <1>10, AskedKeeps
<1>. QED  BY <1>3, <1>11 DEF DataInv

\* A wrapper after a call that failed.
LEMMA AllocFailsKeeps ==
  ASSUME DataInv, NEW t \in Threads, AllocFails(t)
  PROVE  DataInv'
<1>1. /\ Running /\ calls[t] # << >> /\ todo[t] = << >>
      /\ Queue(t, 0, NoObject) /\ poisoned' = poisoned \cup Stray(t, 0, NoObject)
      /\ calls' = Popped(t) /\ UNCHANGED shadowVars
      /\ UNCHANGED <<client, init_count, pending, idle_idx, exited, objects, loaded, left>>
  BY DEF AllocFails
<1>2. CallInv
  BY DEF DataInv
<1>3. CallInv'
  BY <1>1, <1>2, PoppedKeeps
<1>4. NoObject \in Object /\ ~ NoObject.exact /\ NoObject.lo = 0 /\ NoObject.size = 0
  BY DEF NoObject, Object
<1>5. 0 \in Addr
  <2>1. \A m, n \in Nat \ {0} : m * n \in Nat \ {0}
    OBVIOUS
  <2>2. AddrNum \in Nat \ {0}
    BY <2>1, SlotNums DEF AddrNum
  <2>. QED  BY <2>2 DEF Addr
<1>6. Units(NoObject) = {}
  <2>1. ASSUME NEW a \in Units(NoObject) PROVE FALSE
    <3>1. a \in Nat /\ 0 <= a /\ a < 0 + 0
      BY <1>4, Spans
    <3>. QED  BY <3>1
  <2>. QED  BY <2>1
<1>. DEFINE j == Job(0, pending[t].size % LenMod, Dynamic(pending[t].ctxt), NoObject)
<1>7. /\ todo' = [todo EXCEPT ![t] = << j >>] /\ << j >> \in Seq(Jobs)
      /\ ~ j.begun /\ j.lo = 0 /\ j.of = NoObject
      /\ Span(j.lo, j.n) \subseteq Units(NoObject) \cup poisoned'
  BY <1>1, <1>2, <1>4, QueueIs
<1>. HIDE DEF j
<1>8. \A p : Disjoint(NoObject, p) /\ Disjoint(p, NoObject)
  BY <1>6 DEF Disjoint
<1>9. Asked(t, << j >>)
  <2>1. \A i \in DOMAIN << j >> : i = 1 /\ << j >>[i] = j
    OBVIOUS
  <2>. QED  BY <1>1, <1>4, <1>5, <1>7, <1>8, <2>1 DEF Asked
<1>10. /\ ShadowInv(Handles \cup {Unknown})' /\ ClientInv' /\ JobInv' /\ RangeInv' /\ WrittenInv'
       /\ ObjectsAttributed'
  BY <1>1, <1>9, AskedKeeps
<1>. QED  BY <1>3, <1>10 DEF DataInv

\* A module is loaded: one range per symbol of it.
LEMMA ModuleLoadKeeps ==
  ASSUME DataInv, NEW t \in Threads, NEW m \in Modules, NEW base \in Bases,
         ModuleLoad(t, m, base)
  PROVE  DataInv'
<1>. DEFINE N == Len(Symbols[m])
            Obj(i) == StaticObject(m, i, base)
            J(i) == [Job(Obj(i).lo, Obj(i).size % LenMod, Unknown, Obj(i))
                       EXCEPT !.len = Symbols[m][i].len]
            js == [i \in 1 .. N |-> J(i)]
<1>1. /\ Running /\ todo[t] = << >> /\ todo' = [todo EXCEPT ![t] = js]
      /\ \A i \in 1 .. N : FreeRange(base + Symbols[m][i].at, Symbols[m][i].size)
      /\ UNCHANGED shadowVars
      /\ UNCHANGED <<client, init_count, pending, idle_idx, exited, calls, objects, poisoned, left>>
  BY DEF ModuleLoad
<1>2. CallInv'
  BY <1>1 DEF DataInv, CallInv, Calls
<1>3. /\ N \in Nat /\ DOMAIN Symbols[m] = 1 .. N /\ LenMod \in Nat \ {0} /\ base \in Nat
      /\ \A i \in 1 .. N : Symbols[m][i] \in [at : Nat, size : Nat \ {0}, len : Nat]
  <2>1. Symbols[m] \in Seq([at : Nat, size : Nat \ {0}, len : Nat])
    BY DataAssumption
  <2>2. \A S, s : s \in Seq(S) => /\ Len(s) \in Nat /\ DOMAIN s = 1 .. Len(s)
                                 /\ \A i \in 1 .. Len(s) : s[i] \in S
    OBVIOUS
  <2>3. LenMod \in Nat \ {0} /\ base \in Nat
    BY DataAssumption
  <2>. QED  BY <2>1, <2>2, <2>3
<1>4. ASSUME NEW i \in 1 .. N
      PROVE  /\ Obj(i).lo = base + Symbols[m][i].at /\ Obj(i).size = Symbols[m][i].size
             /\ Obj(i).lo \in Nat /\ Obj(i).size \in Nat \ {0}
             /\ Obj(i).h = Unknown /\ Obj(i) \in Object
             /\ Units(Obj(i)) = SymbolUnits(m, i, base)
             /\ Obj(i).exact <=>
                  /\ Obj(i).size < LenMod
                  /\ \A k \in 1 .. N : k # i =>
                       SymbolUnits(m, i, base) \cap SymbolUnits(m, k, base) = {}
  <2>1. Symbols[m][i].at \in Nat /\ Symbols[m][i].size \in Nat \ {0}
    BY <1>3
  <2>2. PICK e \in BOOLEAN : e = (/\ Symbols[m][i].size < LenMod
                                  /\ \A k \in DOMAIN Symbols[m] \ {i} :
                                       SymbolUnits(m, i, base) \cap SymbolUnits(m, k, base) = {})
    OBVIOUS
  <2>3. Obj(i) = [lo |-> base + Symbols[m][i].at, size |-> Symbols[m][i].size, h |-> Unknown,
                  exact |-> e]
    BY <2>2 DEF StaticObject
  <2>4. /\ Obj(i).lo = base + Symbols[m][i].at /\ Obj(i).size = Symbols[m][i].size
        /\ Obj(i).h = Unknown /\ Obj(i).exact = e /\ base + Symbols[m][i].at \in Nat
    BY <1>3, <2>1, <2>3
  <2>5. Symbols[m][i].size \in SymbolSizes
    BY DEF SymbolSizes
  <2>6. Obj(i) \in Object
    BY <2>3, <2>4, <2>5 DEF Object
  <2>7. Units(Obj(i)) = SymbolUnits(m, i, base)
    BY <2>4, Spans DEF SymbolUnits
  <2>8. e <=> /\ Symbols[m][i].size < LenMod
              /\ \A k \in 1 .. N : k # i =>
                   SymbolUnits(m, i, base) \cap SymbolUnits(m, k, base) = {}
    BY <1>3, <2>2
  <2>. QED  BY <2>1, <2>4, <2>6, <2>7, <2>8
<1>. HIDE DEF Obj
<1>5. ASSUME NEW i \in 1 .. N
      PROVE  /\ J(i) \in Jobs /\ ~ J(i).begun /\ J(i).lo = Obj(i).lo /\ J(i).of = Obj(i)
             /\ J(i).n = Obj(i).size % LenMod /\ J(i).h = Unknown
  <2>1. Symbols[m][i].len \in Nat /\ Obj(i).lo \in Nat /\ Obj(i).size \in Nat /\ Obj(i) \in Object
    BY <1>3, <1>4
  <2>2. PICK n \in Nat : n = Obj(i).size % LenMod
    BY <1>3, <2>1, Rest
  <2>3. PICK j : j = Job(Obj(i).lo, n, Unknown, Obj(i))
    OBVIOUS
  <2>4. j \in Jobs /\ ~ j.begun /\ j.lo = Obj(i).lo /\ j.of = Obj(i) /\ j.n = n /\ j.h = Unknown
    BY <2>1, <2>2, <2>3 DEF Job, Jobs
  <2>5. PICK e \in Nat : e = Symbols[m][i].len
    BY <2>1
  <2>6. PICK k : k = [j EXCEPT !.len = e]
    OBVIOUS
  <2>7. k \in Jobs /\ ~ k.begun /\ k.lo = j.lo /\ k.of = j.of /\ k.n = j.n /\ k.h = j.h
    BY <2>4, <2>6 DEF Jobs
  <2>8. J(i) = k
    BY <2>2, <2>3, <2>5, <2>6
  <2>. QED  BY <2>2, <2>4, <2>7, <2>8
<1>. HIDE DEF J
<1>6. js \in Seq(Jobs) /\ DOMAIN js = 1 .. N /\ \A i \in 1 .. N : js[i] = J(i)
  BY <1>3, <1>5
<1>. HIDE DEF js
<1>7. ASSUME NEW i \in 1 .. N
      PROVE  /\ J(i).lo \in Addr
             /\ J(i).of.exact => J(i).lo = J(i).of.lo /\ J(i).n = J(i).of.size /\ J(i).h = J(i).of.h
             /\ Span(J(i).lo, J(i).n) \subseteq Units(J(i).of)
             /\ \A p \in objects : Disjoint(p, J(i).of)
             /\ \A u \in Threads : \A k \in DOMAIN todo[u] : Disjoint(J(i).of, todo[u][k].of)
  <2>1. FreeRange(Obj(i).lo, Obj(i).size)
    BY <1>1, <1>4
  <2>2. /\ \A p \in objects : Disjoint(p, Obj(i))
        /\ \A u \in Threads : \A k \in DOMAIN todo[u] : Disjoint(Obj(i), todo[u][k].of)
        /\ Obj(i).lo \in Addr
    BY <1>4, <2>1, FreeIs
  <2>3. Obj(i).exact => Obj(i).size % LenMod = Obj(i).size
    BY <1>3, <1>4, Rest
  <2>4. Span(Obj(i).lo, Obj(i).size % LenMod) \subseteq Units(Obj(i))
    <3>1. PICK l \in Nat, n \in Nat, r \in Nat :
            l = Obj(i).lo /\ n = Obj(i).size /\ r = Obj(i).size % LenMod /\ r <= n
      BY <1>3, <1>4, Rest
    <3>2. ASSUME NEW a \in Span(l, r) PROVE a \in Span(l, n)
      <4>1. a \in Addr /\ a \in Nat /\ l <= a /\ a < l + r
        BY Spans
      <4>2. a < l + n
        BY <3>1, <4>1
      <4>. QED  BY <4>1, <4>2, Spans
    <3>. QED  BY <3>1, <3>2, Spans
  <2>. QED  BY <1>4, <1>5, <2>2, <2>3, <2>4
<1>8. ASSUME NEW i \in 1 .. N, NEW k \in 1 .. N, k # i PROVE Disjoint(J(i).of, J(k).of)
  BY <1>4, <1>5, <1>8 DEF Disjoint
<1>9. Asked(t, js)
  <2>1. ASSUME NEW i \in DOMAIN js
        PROVE  /\ ~ js[i].begun
               /\ js[i].n # 0 => js[i].lo \in Addr
               /\ js[i].of.exact =>
                    js[i].lo = js[i].of.lo /\ js[i].n = js[i].of.size /\ js[i].h = js[i].of.h
               /\ Span(js[i].lo, js[i].n) \subseteq Units(js[i].of) \cup poisoned'
               /\ \A o \in objects : Disjoint(o, js[i].of)
               /\ \A u \in Threads : \A k \in DOMAIN todo[u] : Disjoint(js[i].of, todo[u][k].of)
               /\ \A k \in DOMAIN js : k # i => Disjoint(js[i].of, js[k].of)
    <3>1. i \in 1 .. N /\ js[i] = J(i)
      BY <1>6
    <3>2. \A k \in DOMAIN js : k # i => Disjoint(js[i].of, js[k].of)
      BY <1>6, <1>8, <3>1
    <3>. QED  BY <1>5, <1>7, <3>1, <3>2
  <2>. QED  BY <1>1, <1>6, <2>1 DEF Asked
<1>10. /\ ShadowInv(Handles \cup {Unknown})' /\ ClientInv' /\ JobInv' /\ RangeInv' /\ WrittenInv'
       /\ ObjectsAttributed'
  BY <1>1, <1>9, AskedKeeps
<1>. QED  BY <1>2, <1>10 DEF DataInv

\* A step towards the cell leaves the thread on its address.
LEMMA GetOrCreateStays ==
  ASSUME access \in [Threads -> Accesses], NEW t \in Threads, GetOrCreate(t)
  PROVE  /\ access[t].pc # "none"
         /\ \A u \in Threads : /\ access'[u].addr = access[u].addr
                               /\ access'[u].pc = "none" <=> access[u].pc = "none"
<1>1. \A u \in Threads : access[u] \in Accesses
  OBVIOUS
<1>2. CASE Load1(t)
  BY <1>1, <1>2 DEF Load1, Accesses
<1>3. CASE Cas1(t)
  BY <1>1, <1>3 DEF Cas1, Accesses
<1>4. CASE Load2(t)
  BY <1>1, <1>4 DEF Load2, Accesses
<1>5. CASE Cas2(t)
  BY <1>1, <1>5 DEF Cas2, Accesses
<1>. QED  BY <1>2, <1>3, <1>4, <1>5 DEF GetOrCreate

\* Neither who owns what nor what has been written is disturbed by it.
LEMMA SearchKeeps ==
  ASSUME DataInv, NEW t \in Threads, GetOrCreate(t), UNCHANGED <<dataVars, programVars>>
  PROVE  DataInv'
<1>1. UNCHANGED <<client, init_count, pending, todo, idle_idx, exited, calls, objects, poisoned>>
  BY DEF dataVars, programVars
<1>2. access \in [Threads -> Accesses]
  BY DEF DataInv, ShadowInv, ShadowTypes
<1>3. /\ access[t].pc # "none"
      /\ \A u \in Threads : /\ access'[u].addr = access[u].addr
                            /\ access'[u].pc = "none" <=> access[u].pc = "none"
  BY <1>2, GetOrCreateStays
<1>4. dir # None
  BY <1>3 DEF DataInv, ShadowInv
<1>5. ShadowInv(Handles \cup {Unknown})' /\ dir' # None /\ \A a \in Addr : Lookup(a)' = Lookup(a)
  BY <1>4, GetOrCreateKeeps DEF DataInv
<1>6. \A lo, n, o, p : /\ Span(lo, n)' = Span(lo, n) /\ Units(o)' = Units(o)
                       /\ Disjoint(o, p)' <=> Disjoint(o, p)
  BY DEF Span, Units, Disjoint
<1>7. CallInv' /\ RangeInv'
  BY <1>1, <1>6 DEF DataInv, CallInv, RangeInv
<1>8. ClientInv'
  BY <1>1, <1>4, <1>5 DEF DataInv, ClientInv
<1>9. JobInv'
  BY <1>1, <1>3, <1>6 DEF DataInv, JobInv
<1>10. WrittenInv'
  <2>1. ASSUME NEW u \in Threads, access'[u].pc # "none", todo[u][1].of.exact,
               NEW a \in Units(todo[u][1].of) \ poisoned, a < access'[u].addr
        PROVE  Lookup(a)' = todo[u][1].h
    BY <1>3, <1>5, <2>1, Spans DEF DataInv, WrittenInv
  <2>. QED  BY <1>1, <1>6, <2>1 DEF WrittenInv
<1>11. ObjectsAttributed'
  <2>1. ASSUME NEW o \in objects, o.exact, NEW a \in Units(o) \ poisoned PROVE Lookup(a)' = o.h
    BY <1>4, <1>5, <2>1, Spans DEF DataInv, ObjectsAttributed
  <2>. QED  BY <1>1, <1>6, <2>1 DEF ObjectsAttributed
<1>. QED  BY <1>5, <1>7, <1>8, <1>9, <1>10, <1>11 DEF DataInv

\* A symbol gets its handle, and the object with it; or the pool is full.
LEMMA NameSymbolKeeps ==
  ASSUME DataInv, ~ exited, NEW t \in Threads, NameSymbol(t)
  PROVE  DataInv'
<1>. DEFINE j == todo[t][1]
            idx == NameIdx(t)
            k == [j EXCEPT !.h = Static(idx), !.of.h = Static(idx)]
            full == PoolFull(idle_idx + j.len)
<1>1. /\ todo[t] # << >> /\ j.h = Unknown /\ idle_idx' = idle_idx + j.len
      /\ full => exited' = TRUE /\ UNCHANGED todo
      /\ ~ full => UNCHANGED exited
      /\ ~ full => todo' = [todo EXCEPT ![t][1] = k]
      /\ UNCHANGED shadowVars /\ UNCHANGED programVars
      /\ UNCHANGED <<client, init_count, pending>>
  BY DEF NameSymbol, NextIdx
<1>. HIDE DEF idx
<1>2. UNCHANGED <<calls, objects, poisoned>>
  BY <1>1 DEF programVars
<1>3. /\ todo \in [Threads -> Seq(Jobs)] /\ j \in Jobs /\ 1 \in DOMAIN todo[t]
  <2>1. todo \in [Threads -> Seq(Jobs)]
    BY DEF DataInv, JobInv
  <2>. QED  BY <1>1, <2>1
<1>4. /\ idle_idx \in Nat /\ idle_idx < PoolMax /\ j.len \in Nat /\ PoolMax \in Nat \ {0}
      /\ idle_idx' \in Nat
  BY <1>1, <1>3, DataAssumption DEF DataInv, ClientInv, Jobs
<1>5. Static(idx) \in Handles
  <2>1. idx = 0 \/ idx = idle_idx
    BY DEF idx, NameIdx
  <2>2. 0 \in 0 .. PoolMax - 1 /\ idle_idx \in 0 .. PoolMax - 1
    BY <1>4
  <2>3. idx \in 0 .. PoolMax - 1
    BY <2>1, <2>2
  <2>. QED  BY <2>3 DEF Handles
<1>6. ~ full <=> idle_idx' < PoolMax
  BY <1>1, <1>4 DEF PoolFull
<1>7. /\ k \in Jobs /\ k.lo = j.lo /\ k.n = j.n /\ k.begun = j.begun /\ k.h = k.of.h
      /\ k.of.lo = j.of.lo /\ k.of.size = j.of.size /\ k.of.exact = j.of.exact
  <2>1. j.of \in Object
    BY <1>3 DEF Jobs
  <2>2. PICK o : o = [j.of EXCEPT !.h = Static(idx)]
    OBVIOUS
  <2>3. o \in Object /\ o.lo = j.of.lo /\ o.size = j.of.size /\ o.exact = j.of.exact
        /\ o.h = Static(idx)
    BY <1>5, <2>1, <2>2 DEF Object
  <2>4. k = [j EXCEPT !.h = Static(idx), !.of = o]
    BY <1>3, <2>2 DEF Jobs
  <2>. QED  BY <1>3, <1>5, <2>3, <2>4 DEF Jobs
<1>14. ~ full => todo' = [todo EXCEPT ![t] = [todo[t] EXCEPT ![1] = k]]
  BY <1>1, <1>3
<1>. HIDE DEF k
<1>8. /\ ShadowInv(Handles \cup {Unknown})' /\ dir' = dir /\ access' = access
      /\ \A a \in Addr : Lookup(a)' = Lookup(a)
  BY <1>1, ShadowStays DEF DataInv
<1>9. CallInv'
  BY <1>1, <1>2 DEF DataInv, CallInv, Calls
<1>10. \A lo, n, o, p : /\ Span(lo, n)' = Span(lo, n) /\ Units(o)' = Units(o)
                        /\ Disjoint(o, p)' <=> Disjoint(o, p)
  BY DEF Span, Units, Disjoint
<1>11. ObjectsAttributed'
  <2>1. ASSUME dir # None, NEW o \in objects, o.exact, NEW a \in Units(o) \ poisoned
        PROVE  Lookup(a)' = o.h
    BY <1>8, <2>1, Spans DEF DataInv, ObjectsAttributed
  <2>. QED  BY <1>2, <1>8, <1>10, <2>1 DEF ObjectsAttributed
<1>12. CASE full
  <2>1. ClientInv'
    BY <1>1, <1>2, <1>4, <1>8, <1>12 DEF DataInv, ClientInv
  <2>2. JobInv' /\ RangeInv' /\ WrittenInv'
    <3>1. JobInv'
      BY <1>1, <1>2, <1>8, <1>10, <1>12 DEF DataInv, JobInv
    <3>2. RangeInv'
      BY <1>1, <1>2, <1>10, <1>12 DEF DataInv, RangeInv, Object
    <3>3. ASSUME NEW u \in Threads, access[u].pc # "none", todo[u][1].of.exact,
                 NEW a \in Units(todo[u][1].of) \ poisoned, a < access[u].addr
          PROVE  Lookup(a)' = todo[u][1].h
      BY <1>8, <3>3, Spans DEF DataInv, WrittenInv
    <3>4. WrittenInv'
      BY <1>1, <1>2, <1>8, <1>10, <1>12, <3>3 DEF WrittenInv
    <3>. QED  BY <3>1, <3>2, <3>4
  <2>. QED  BY <1>8, <1>9, <1>11, <2>1, <2>2 DEF DataInv
<1>13. CASE ~ full
  <2>1. /\ todo' \in [Threads -> Seq(Jobs)] /\ todo'[t][1] = k /\ todo'[t] # << >>
        /\ \A u \in Threads : u # t => todo'[u] = todo[u]
        /\ \A u \in Threads : DOMAIN todo'[u] = DOMAIN todo[u]
        /\ \A i \in DOMAIN todo[t] : i # 1 => todo'[t][i] = todo[t][i]
    <3>1. todo[t] \in Seq(Jobs)
      BY <1>3
    <3>2. PICK s : s = [todo[t] EXCEPT ![1] = k]
      OBVIOUS
    <3>3. s \in Seq(Jobs) /\ s[1] = k /\ s # << >> /\ DOMAIN s = DOMAIN todo[t]
          /\ \A i \in DOMAIN todo[t] : i # 1 => s[i] = todo[t][i]
      BY <1>3, <1>7, <3>1, <3>2
    <3>4. todo' = [todo EXCEPT ![t] = s]
      BY <1>13, <1>14, <3>2
    <3>. QED  BY <1>3, <3>3, <3>4
  <2>2. ~ j.begun /\ access[t].pc = "none"
    BY <1>1, <1>3 DEF DataInv, JobInv
  <2>3. ClientInv'
    BY <1>1, <1>2, <1>4, <1>6, <1>8, <1>13, <2>1 DEF DataInv, ClientInv
  <2>4. \A u \in Threads : \A i \in DOMAIN todo[u] :
          /\ Units(todo'[u][i].of) = Units(todo[u][i].of)
          /\ todo'[u][i].of.exact = todo[u][i].of.exact
    BY <1>7, <2>1, Spans
  <2>5. JobInv'
    <3>1. ASSUME NEW u \in Threads, NEW i \in DOMAIN todo'[u]
          PROVE  LET r == todo'[u][i] IN
                 /\ r.n # 0 => r.lo \in Addr
                 /\ r.of.exact => r.lo = r.of.lo /\ r.n = r.of.size /\ r.h = r.of.h
                 /\ Span(r.lo, r.n) \subseteq Units(r.of) \cup poisoned'
                 /\ r.begun => i = 1 /\ r.h # Unknown
      <4>1. PICK q : q = todo[u][i]
        OBVIOUS
      <4>2. /\ q.n # 0 => q.lo \in Addr
            /\ q.of.exact => q.lo = q.of.lo /\ q.n = q.of.size /\ q.h = q.of.h
            /\ Span(q.lo, q.n) \subseteq Units(q.of) \cup poisoned
            /\ q.begun => i = 1 /\ q.h # Unknown
        BY <2>1, <4>1 DEF DataInv, JobInv
      <4>3. CASE u = t /\ i = 1
        BY <1>2, <1>7, <2>1, <2>2, <2>4, <4>1, <4>2, <4>3
      <4>4. CASE u # t \/ i # 1
        BY <1>2, <2>1, <4>1, <4>2, <4>4
      <4>. QED  BY <4>3, <4>4
    <3>2. ASSUME NEW u \in Threads
          PROVE  /\ access'[u].pc # "none" <=> todo'[u] # << >> /\ todo'[u][1].begun
                 /\ access'[u].pc # "none" =>
                      access'[u].addr \in Span(todo'[u][1].lo, todo'[u][1].n)
      <4>1. CASE u = t
        BY <1>7, <1>8, <2>1, <2>2, <4>1
      <4>2. CASE u # t
        BY <1>8, <2>1, <4>2 DEF DataInv, JobInv
      <4>. QED  BY <4>1, <4>2
    <3>. QED  BY <1>2, <1>8, <1>10, <2>1, <3>1, <3>2 DEF JobInv
  <2>6. RangeInv'
    <3>1. \A o : \A u \in Threads : \A i \in DOMAIN todo[u] :
            Disjoint(o, todo'[u][i].of) <=> Disjoint(o, todo[u][i].of)
      BY <2>4 DEF Disjoint
    <3>2. \A u, v \in Threads : \A i \in DOMAIN todo[u] : \A l \in DOMAIN todo[v] :
            Disjoint(todo'[u][i].of, todo'[v][l].of) <=> Disjoint(todo[u][i].of, todo[v][l].of)
      BY <2>4 DEF Disjoint
    <3>3. RangeInv
      BY DEF DataInv
    <3>4. objects' \subseteq Object /\ \A o, p \in objects' : o # p => Disjoint(o, p)'
      BY <1>2, <1>10, <3>3 DEF RangeInv
    <3>5. \A o \in objects', u \in Threads : \A i \in DOMAIN todo'[u] : Disjoint(o, todo'[u][i].of)
      BY <1>2, <2>1, <3>1, <3>3 DEF RangeInv
    <3>6. \A u, v \in Threads : \A i \in DOMAIN todo'[u] : \A l \in DOMAIN todo'[v] :
            u # v \/ i # l => Disjoint(todo'[u][i].of, todo'[v][l].of)
      BY <2>1, <3>2, <3>3 DEF RangeInv
    <3>. QED  BY <1>10, <3>4, <3>5, <3>6 DEF RangeInv, Object
  <2>7. WrittenInv'
    <3>1. ASSUME NEW u \in Threads, access[u].pc # "none", todo'[u][1].of.exact,
                 NEW a \in Units(todo'[u][1].of) \ poisoned, a < access[u].addr
          PROVE  Lookup(a)' = todo'[u][1].h
      <4>1. u # t /\ todo'[u] = todo[u]
        BY <2>1, <2>2, <3>1
      <4>. QED  BY <1>8, <3>1, <4>1, Spans DEF DataInv, WrittenInv
    <3>. QED  BY <1>2, <1>8, <1>10, <3>1 DEF WrittenInv
  <2>. QED  BY <1>8, <1>9, <1>11, <2>3, <2>5, <2>6, <2>7 DEF DataInv
<1>. QED  BY <1>12, <1>13

\* What is left of a sequence without its first element.
LEMMA TailIs ==
  ASSUME NEW S, NEW s \in Seq(S), s # << >>
  PROVE  /\ 1 \in DOMAIN s /\ s[1] \in S /\ Tail(s) \in Seq(S)
         /\ \A i \in DOMAIN Tail(s) : /\ i + 1 \in DOMAIN s /\ i + 1 # 1 /\ i \in Nat \ {0}
                                      /\ Tail(s)[i] = s[i + 1]
OBVIOUS

\* A thread is through with a range: the program has the object, and the next range of the
\* thread is not begun.
LEMMA FinishKeeps ==
  ASSUME DataInv, NEW t \in Threads, todo[t] # << >>, objects' = Handed(t),
         todo' = [todo EXCEPT ![t] = Tail(@)], access'[t].pc = "none",
         \A u \in Threads : u # t => access'[u] = access[u], UNCHANGED poisoned
  PROVE  JobInv' /\ RangeInv'
<1>. DEFINE of == todo[t][1].of
            s == Tail(todo[t])
<1>1. todo \in [Threads -> Seq(Jobs)] /\ RangeInv
  BY DEF DataInv, JobInv
<1>2. /\ 1 \in DOMAIN todo[t] /\ todo[t][1] \in Jobs /\ s \in Seq(Jobs)
      /\ \A i \in DOMAIN s : i + 1 \in DOMAIN todo[t] /\ i + 1 # 1 /\ i \in Nat \ {0}
                             /\ s[i] = todo[t][i + 1]
  <2>1. todo[t] \in Seq(Jobs)
    BY <1>1
  <2>. QED  BY <2>1, TailIs
<1>. HIDE DEF s
<1>3. /\ todo' \in [Threads -> Seq(Jobs)] /\ todo'[t] = s
      /\ \A u \in Threads : u # t => todo'[u] = todo[u]
  BY <1>1, <1>2 DEF s
<1>4. ASSUME NEW u \in Threads, NEW i \in DOMAIN todo'[u]
      PROVE  \E k \in DOMAIN todo[u] : /\ todo'[u][i] = todo[u][k]
                                       /\ IF u = t THEN k = i + 1 /\ k # 1 ELSE k = i
  BY <1>2, <1>3
<1>5. \A lo, n, o, p : /\ Span(lo, n)' = Span(lo, n) /\ Units(o)' = Units(o)
                       /\ Disjoint(o, p)' <=> Disjoint(o, p)
  BY DEF Span, Units, Disjoint
<1>6. JobInv'
  <2>1. ASSUME NEW u \in Threads, NEW i \in DOMAIN todo'[u]
        PROVE  LET j == todo'[u][i] IN
               /\ j.n # 0 => j.lo \in Addr
               /\ j.of.exact => j.lo = j.of.lo /\ j.n = j.of.size /\ j.h = j.of.h
               /\ Span(j.lo, j.n) \subseteq Units(j.of) \cup poisoned'
               /\ j.begun => i = 1 /\ j.h # Unknown
    <3>1. PICK k \in DOMAIN todo[u] : /\ todo'[u][i] = todo[u][k]
                                      /\ IF u = t THEN k = i + 1 /\ k # 1 ELSE k = i
      BY <1>4
    <3>2. PICK q : q = todo[u][k]
      OBVIOUS
    <3>3. /\ q.n # 0 => q.lo \in Addr
          /\ q.of.exact => q.lo = q.of.lo /\ q.n = q.of.size /\ q.h = q.of.h
          /\ Span(q.lo, q.n) \subseteq Units(q.of) \cup poisoned
          /\ q.begun => k = 1 /\ q.h # Unknown
      BY ZenonT(60), <3>2 DEF DataInv, JobInv
    <3>. QED  BY <3>1, <3>2, <3>3
  <2>2. ASSUME NEW u \in Threads
        PROVE  /\ access'[u].pc # "none" <=> todo'[u] # << >> /\ todo'[u][1].begun
               /\ access'[u].pc # "none" =>
                    access'[u].addr \in Span(todo'[u][1].lo, todo'[u][1].n)
    <3>1. CASE u = t
      <4>1. todo'[t] # << >> => 1 \in DOMAIN todo'[t]
        BY <1>2, <1>3
      <4>2. \A k \in DOMAIN todo[t] : k # 1 => ~ todo[t][k].begun
        BY DEF DataInv, JobInv
      <4>. QED  BY <1>4, <3>1, <4>1, <4>2
    <3>2. CASE u # t
      BY <1>3, <3>2 DEF DataInv, JobInv
    <3>. QED  BY <3>1, <3>2
  <2>. QED  BY <1>3, <1>5, <2>1, <2>2 DEF JobInv
<1>7. RangeInv'
  <2>1. objects' \subseteq objects \cup {of} /\ of \in Object
    BY <1>2 DEF Handed, Jobs
  <2>2. \A p \in objects : Disjoint(p, of) /\ Disjoint(of, p)
    BY <1>1, <1>2, DisjointIs DEF RangeInv
  <2>3. ASSUME NEW u \in Threads, NEW i \in DOMAIN todo'[u] PROVE Disjoint(of, todo'[u][i].of)
    <3>1. PICK k \in DOMAIN todo[u] : /\ todo'[u][i] = todo[u][k]
                                      /\ IF u = t THEN k = i + 1 /\ k # 1 ELSE k = i
      BY <1>4
    <3>. QED  BY <1>1, <1>2, <3>1 DEF RangeInv
  <2>4. ASSUME NEW o \in objects, NEW u \in Threads, NEW i \in DOMAIN todo'[u]
        PROVE  Disjoint(o, todo'[u][i].of)
    BY <1>1, <1>4 DEF RangeInv
  <2>5. ASSUME NEW u \in Threads, NEW v \in Threads, NEW i \in DOMAIN todo'[u],
               NEW k \in DOMAIN todo'[v], u # v \/ i # k
        PROVE  Disjoint(todo'[u][i].of, todo'[v][k].of)
    <3>1. PICK l \in DOMAIN todo[u] : /\ todo'[u][i] = todo[u][l]
                                      /\ IF u = t THEN l = i + 1 /\ l # 1 ELSE l = i
      BY <1>4
    <3>2. PICK m \in DOMAIN todo[v] : /\ todo'[v][k] = todo[v][m]
                                      /\ IF v = t THEN m = k + 1 /\ m # 1 ELSE m = k
      BY <1>4
    <3>3. u # v \/ l # m
      <4>1. CASE u = v /\ u = t
        <5>1. i \in Nat /\ k \in Nat
          BY <1>2, <1>3, <4>1
        <5>. QED  BY <2>5, <3>1, <3>2, <4>1, <5>1
      <4>2. CASE u # v \/ u # t
        BY <2>5, <3>1, <3>2, <4>2
      <4>. QED  BY <4>1, <4>2
    <3>. QED  BY <1>1, <3>1, <3>2, <3>3 DEF RangeInv
  <2>6. \A o, p \in objects' : o # p => Disjoint(o, p)
    BY <1>1, <2>1, <2>2 DEF RangeInv
  <2>7. objects' \subseteq Object
    BY <1>1, <2>1 DEF RangeInv
  <2>8. \A o \in objects', u \in Threads : \A i \in DOMAIN todo'[u] : Disjoint(o, todo'[u][i].of)
    BY <2>1, <2>3, <2>4
  <2>. QED  BY <1>5, <2>5, <2>6, <2>7, <2>8 DEF RangeInv
<1>. QED  BY <1>6, <1>7

\* A range is begun, or has no cells: then its object has none to be read.
LEMMA BeginWriteKeeps ==
  ASSUME DataInv, NEW t \in Threads, BeginWrite(t)
  PROVE  DataInv'
<1>. DEFINE j == todo[t][1]
            k == [j EXCEPT !.begun = TRUE]
<1>1. /\ todo[t] # << >> /\ ~ j.begun /\ j.h # Unknown
      /\ UNCHANGED <<dir, table, page, tables, pages, client, init_count, pending, idle_idx,
                     exited, calls, poisoned, loaded, left>>
      /\ j.n = 0 => objects' = Handed(t) /\ todo' = [todo EXCEPT ![t] = Tail(@)]
                    /\ UNCHANGED access
      /\ j.n # 0 => todo' = [todo EXCEPT ![t][1].begun = TRUE] /\ Seek(t, j.lo)
                    /\ UNCHANGED objects
  BY DEF BeginWrite
<1>2. todo \in [Threads -> Seq(Jobs)] /\ j \in Jobs /\ 1 \in DOMAIN todo[t]
  <2>1. todo \in [Threads -> Seq(Jobs)]
    BY DEF DataInv, JobInv
  <2>. QED  BY <1>1, <2>1
<1>3. access[t].pc = "none" /\ dir # None
  BY <1>1 DEF DataInv, JobInv, ClientInv
<1>4. \A a \in Addr : Lookup(a)' = Lookup(a)
  BY <1>1 DEF Lookup
<1>5. \A lo, n, o, p : /\ Span(lo, n)' = Span(lo, n) /\ Units(o)' = Units(o)
                       /\ Disjoint(o, p)' <=> Disjoint(o, p)
  BY DEF Span, Units, Disjoint
<1>6. CallInv' /\ ClientInv'
  <2>1. CallInv'
    BY <1>1 DEF DataInv, CallInv
  <2>2. \A c \in Clients : client[c] # "out"
    BY <1>1, <1>3 DEF DataInv, ClientInv
  <2>3. ClientInv'
    BY <1>1, <1>3, <2>2 DEF DataInv, ClientInv
  <2>. QED  BY <2>1, <2>3
<1>7. CASE j.n = 0
  <2>1. ShadowInv(Handles \cup {Unknown})'
    BY <1>1, <1>7, ShadowStays DEF DataInv, shadowVars
  <2>2. JobInv' /\ RangeInv'
    BY <1>1, <1>3, <1>7, FinishKeeps
  <2>3. WrittenInv'
    <3>1. ASSUME NEW u \in Threads, access[u].pc # "none", todo'[u][1].of.exact,
                 NEW a \in Units(todo'[u][1].of) \ poisoned, a < access[u].addr
          PROVE  Lookup(a)' = todo'[u][1].h
      <4>1. u # t /\ todo'[u] = todo[u]
        BY <1>1, <1>2, <1>3, <1>7, <3>1
      <4>. QED  BY <1>4, <3>1, <4>1, Spans DEF DataInv, WrittenInv
    <3>. QED  BY <1>1, <1>5, <1>7, <3>1 DEF WrittenInv
  <2>4. ObjectsAttributed'
    <3>1. ASSUME NEW o \in objects', o.exact, NEW a \in Units(o) \ poisoned
          PROVE  Lookup(a)' = o.h
      <4>1. CASE o \in objects
        BY <1>3, <1>4, <3>1, <4>1, Spans DEF DataInv, ObjectsAttributed
      <4>2. CASE o = j.of
        <5>1. j.of.lo = j.lo /\ j.of.size = 0 /\ j.lo \in Nat
          BY <1>2, <1>7, <3>1, <4>2 DEF DataInv, JobInv, Jobs
        <5>2. a \in Nat /\ j.lo <= a /\ a < j.lo + 0
          BY <3>1, <4>2, <5>1, Spans
        <5>. QED  BY <5>1, <5>2
      <4>. QED  BY <1>1, <1>7, <3>1, <4>1, <4>2 DEF Handed
    <3>. QED  BY <1>1, <1>5, <3>1 DEF ObjectsAttributed
  <2>. QED  BY <1>6, <2>1, <2>2, <2>3, <2>4 DEF DataInv
<1>8. CASE j.n # 0
  <2>1. j.lo \in Addr /\ j.lo \in Nat /\ j.n \in Nat \ {0} /\ j.lo \in Span(j.lo, j.n)
    <3>1. j.lo \in Addr /\ j.lo \in Nat /\ j.n \in Nat \ {0}
      BY <1>2, <1>8 DEF DataInv, JobInv, Jobs
    <3>2. PICK l \in Nat, n \in Nat \ {0} : l = j.lo /\ n = j.n
      BY <3>1
    <3>3. l <= l /\ l < l + n
      OBVIOUS
    <3>. QED  BY <3>1, <3>2, <3>3, Spans
  <2>2. ShadowInv(Handles \cup {Unknown})'
    BY <1>1, <1>3, <1>8, <2>1, SeekKeeps DEF DataInv
  <2>3. /\ k \in Jobs /\ k.lo = j.lo /\ k.n = j.n /\ k.h = j.h /\ k.of = j.of /\ k.begun = TRUE
    BY <1>2 DEF Jobs
  <2>. HIDE DEF k
  <2>4. /\ todo' \in [Threads -> Seq(Jobs)] /\ todo'[t][1] = k /\ todo'[t] # << >>
        /\ \A u \in Threads : u # t => todo'[u] = todo[u]
        /\ \A u \in Threads : DOMAIN todo'[u] = DOMAIN todo[u]
        /\ \A i \in DOMAIN todo[t] : i # 1 => todo'[t][i] = todo[t][i]
    <3>1. todo[t] \in Seq(Jobs)
      BY <1>2
    <3>2. PICK s : s = [todo[t] EXCEPT ![1] = k]
      OBVIOUS
    <3>3. s \in Seq(Jobs) /\ s[1] = k /\ s # << >> /\ DOMAIN s = DOMAIN todo[t]
          /\ \A i \in DOMAIN todo[t] : i # 1 => s[i] = todo[t][i]
      BY <1>2, <2>3, <3>1, <3>2
    <3>4. todo' = [todo EXCEPT ![t] = s]
      BY <1>1, <1>2, <1>8, <3>2 DEF k
    <3>. QED  BY <1>2, <3>3, <3>4
  <2>5. /\ access'[t].pc = "load1" /\ access'[t].addr = j.lo
        /\ \A u \in Threads : u # t => access'[u] = access[u]
    <3>1. access \in [Threads -> Accesses]
      BY DEF DataInv, ShadowInv, ShadowTypes
    <3>2. access' = [access EXCEPT ![t] = [Idle EXCEPT !.pc = "load1", !.addr = j.lo]]
      BY <1>1, <1>8 DEF Seek
    <3>. QED  BY <3>1, <3>2 DEF Idle
  <2>6. \A u \in Threads : \A i \in DOMAIN todo[u] : todo'[u][i].of = todo[u][i].of
    BY <2>3, <2>4
  <2>7. JobInv'
    <3>1. ASSUME NEW u \in Threads, NEW i \in DOMAIN todo'[u]
          PROVE  LET r == todo'[u][i] IN
                 /\ r.n # 0 => r.lo \in Addr
                 /\ r.of.exact => r.lo = r.of.lo /\ r.n = r.of.size /\ r.h = r.of.h
                 /\ Span(r.lo, r.n) \subseteq Units(r.of) \cup poisoned'
                 /\ r.begun => i = 1 /\ r.h # Unknown
      <4>1. PICK q : q = todo[u][i]
        OBVIOUS
      <4>2. /\ q.n # 0 => q.lo \in Addr
            /\ q.of.exact => q.lo = q.of.lo /\ q.n = q.of.size /\ q.h = q.of.h
            /\ Span(q.lo, q.n) \subseteq Units(q.of) \cup poisoned
            /\ q.begun => i = 1 /\ q.h # Unknown
        BY <2>4, <4>1 DEF DataInv, JobInv
      <4>3. CASE u = t /\ i = 1
        BY <1>1, <2>3, <2>4, <4>1, <4>2, <4>3
      <4>4. CASE u # t \/ i # 1
        BY SMTT(60), <1>1, <2>4, <4>1, <4>2, <4>4
      <4>. QED  BY <4>3, <4>4
    <3>2. ASSUME NEW u \in Threads
          PROVE  /\ access'[u].pc # "none" <=> todo'[u] # << >> /\ todo'[u][1].begun
                 /\ access'[u].pc # "none" =>
                      access'[u].addr \in Span(todo'[u][1].lo, todo'[u][1].n)
      <4>1. CASE u = t
        BY <2>1, <2>3, <2>4, <2>5, <4>1
      <4>2. CASE u # t
        BY <2>4, <2>5, <4>2 DEF DataInv, JobInv
      <4>. QED  BY <4>1, <4>2
    <3>. QED  BY <1>5, <2>4, <3>1, <3>2 DEF JobInv
  <2>8. RangeInv'
    <3>1. RangeInv
      BY DEF DataInv
    <3>2. objects' \subseteq Object /\ \A o, p \in objects' : o # p => Disjoint(o, p)
      BY <1>1, <1>8, <3>1 DEF RangeInv
    <3>3. \A o \in objects', u \in Threads : \A i \in DOMAIN todo'[u] : Disjoint(o, todo'[u][i].of)
      BY <1>1, <1>8, <2>4, <2>6, <3>1 DEF RangeInv
    <3>4. \A u, v \in Threads : \A i \in DOMAIN todo'[u] : \A l \in DOMAIN todo'[v] :
            u # v \/ i # l => Disjoint(todo'[u][i].of, todo'[v][l].of)
      BY SMTT(60), <2>4, <2>6, <3>1 DEF RangeInv
    <3>. QED  BY <1>5, <3>2, <3>3, <3>4 DEF RangeInv
  <2>9. WrittenInv'
    <3>1. ASSUME NEW u \in Threads, access'[u].pc # "none", todo'[u][1].of.exact,
                 NEW a \in Units(todo'[u][1].of) \ poisoned, a < access'[u].addr
          PROVE  Lookup(a)' = todo'[u][1].h
      <4>1. CASE u = t
        <5>1. j.of.exact /\ j.of.lo = j.lo /\ a \in Units(j.of)
          BY <1>2, <2>3, <2>4, <3>1, <4>1 DEF DataInv, JobInv
        <5>2. a \in Nat /\ j.lo <= a /\ a < j.lo
          BY ZenonT(60), <2>5, <3>1, <4>1, <5>1, Spans
        <5>. QED  BY <2>1, <5>2
      <4>2. CASE u # t
        BY <1>4, <2>4, <2>5, <3>1, <4>2, Spans DEF DataInv, WrittenInv
      <4>. QED  BY <4>1, <4>2
    <3>. QED  BY <1>1, <1>5, <3>1 DEF WrittenInv
  <2>10. ObjectsAttributed'
    <3>1. ASSUME NEW o \in objects, o.exact, NEW a \in Units(o) \ poisoned
          PROVE  Lookup(a)' = o.h
      BY <1>3, <1>4, <3>1, Spans DEF DataInv, ObjectsAttributed
    <3>. QED  BY <1>1, <1>5, <1>8, <3>1 DEF ObjectsAttributed
  <2>. QED  BY <1>6, <2>2, <2>7, <2>8, <2>9, <2>10 DEF DataInv
<1>. QED  BY <1>7, <1>8

\* A cell is written: it is no other object's, and after the last one the object's cells say
\* whose they are.
LEMMA WriteKeeps ==
  ASSUME DataInv, NEW t \in Threads, Write(t)
  PROVE  /\ DataInv' /\ access[t].addr \in Addr /\ todo[t][1].h \in Handles
         /\ \A a \in Addr : Lookup(a)' = IF a = access[t].addr THEN todo[t][1].h ELSE Lookup(a)
<1>. DEFINE j == todo[t][1]
            b == access[t].addr
            V == Handles \cup {Unknown}
<1>1. /\ access[t].pc = "got" /\ Store(t, j.h)
      /\ Last(t) => todo' = [todo EXCEPT ![t] = Tail(@)] /\ objects' = Handed(t)
                    /\ access' = [access EXCEPT ![t] = Idle]
      /\ ~ Last(t) => access' = NextCell(t) /\ UNCHANGED <<todo, objects>>
      /\ UNCHANGED <<client, init_count, pending, idle_idx, exited, calls, poisoned, loaded, left>>
      /\ UNCHANGED dir
  BY DEF Write, Store
<1>2. todo[t] # << >> /\ j.begun /\ b \in Span(j.lo, j.n) /\ dir # None
  BY <1>1 DEF DataInv, JobInv, ShadowInv
<1>3. /\ todo \in [Threads -> Seq(Jobs)] /\ j \in Jobs /\ 1 \in DOMAIN todo[t]
      /\ j.h \in Handles /\ j.lo \in Nat /\ j.n \in Nat
  <2>1. todo \in [Threads -> Seq(Jobs)] /\ todo[t] \in Seq(Jobs)
    BY DEF DataInv, JobInv
  <2>2. j \in Jobs /\ 1 \in DOMAIN todo[t]
    BY <1>2, <2>1, TailIs
  <2>3. j.h # Unknown
    BY <1>2, <2>2 DEF DataInv, JobInv
  <2>. QED  BY <2>1, <2>2, <2>3 DEF Jobs
<1>4. /\ b \in Addr /\ b \in Nat /\ j.lo <= b /\ b < j.lo + j.n
      /\ \A a \in Addr : Lookup(a)' = IF a = b THEN j.h ELSE Lookup(a)
  <2>1. \A a \in Addr : Lookup(a)' = IF a = b THEN j.h ELSE Lookup(a)
    BY <1>1, <1>2, <1>3, StoreKeeps DEF DataInv
  <2>. QED  BY <1>2, <2>1, Spans
<1>5. Last(t) <=> b + 1 >= j.lo + j.n \/ b + 1 >= AddrNum
  <2>1. AddrNum \in Nat
    BY SlotNums DEF AddrNum
  <2>2. PICK m \in Nat, n \in Nat : m = j.lo + j.n /\ n = AddrNum
    BY <1>3, <2>1
  <2>. QED  BY <1>4, <2>2 DEF Last, Min2
<1>6. ~ Last(t) => b + 1 \in Addr /\ b + 1 < j.lo + j.n /\ j.lo <= b + 1
  <2>1. AddrNum \in Nat
    BY SlotNums DEF AddrNum
  <2>2. PICK m \in Nat, n \in Nat : m = j.lo + j.n /\ n = AddrNum
    BY <1>3, <2>1
  <2>3. PICK l \in Nat : l = j.lo
    BY <1>3
  <2>. QED  BY <1>4, <1>5, <2>2, <2>3 DEF Addr
<1>7. ShadowInv(V)'
  BY <1>1, <1>2, <1>3, <1>6, StoreMoves DEF DataInv
<1>8. access \in [Threads -> Accesses]
  BY DEF DataInv, ShadowInv, ShadowTypes
<1>9. /\ \A u \in Threads : u # t => access'[u] = access[u]
      /\ Last(t) => access'[t].pc = "none"
      /\ ~ Last(t) => access'[t].pc # "none" /\ access'[t].addr = b + 1
  <2>1. CASE Last(t)
    BY <1>1, <1>8, <2>1 DEF Idle
  <2>2. CASE ~ Last(t)
    <3>1. access[t] \in Accesses
      BY <1>8
    <3>. QED  BY ZenonT(60), <1>1, <1>8, <2>2, <3>1 DEF NextCell, Idle, Accesses
  <2>. QED  BY <2>1, <2>2
<1>10. \A lo, n, o, p : /\ Span(lo, n)' = Span(lo, n) /\ Units(o)' = Units(o)
                        /\ Disjoint(o, p)' <=> Disjoint(o, p)
  BY DEF Span, Units, Disjoint
<1>11. CallInv' /\ ClientInv'
  <2>1. CallInv'
    BY <1>1 DEF DataInv, CallInv
  <2>2. \A c \in Clients : client[c] # "out"
    BY <1>2 DEF DataInv, ClientInv
  <2>3. ClientInv'
    BY <1>1, <1>2, <2>2 DEF DataInv, ClientInv
  <2>. QED  BY <2>1, <2>3
<1>12. JobInv' /\ RangeInv'
  <2>1. CASE Last(t)
    BY <1>1, <1>2, <1>9, <2>1, FinishKeeps
  <2>2. CASE ~ Last(t)
    <3>1. b + 1 \in Span(j.lo, j.n)
      BY <1>6, <2>2, Spans
    <3>2. JobInv'
      <4>1. ASSUME NEW u \in Threads
            PROVE  /\ access'[u].pc # "none" <=> todo[u] # << >> /\ todo[u][1].begun
                   /\ access'[u].pc # "none" =>
                        access'[u].addr \in Span(todo[u][1].lo, todo[u][1].n)
        <5>1. CASE u = t
          BY <1>2, <1>9, <2>2, <3>1, <5>1
        <5>2. CASE u # t
          BY <1>9, <5>2 DEF DataInv, JobInv
        <5>. QED  BY <5>1, <5>2
      <4>2. UNCHANGED <<todo, poisoned>>
        BY <1>1, <2>2
      <4>. QED  BY <1>10, <4>1, <4>2 DEF DataInv, JobInv
    <3>3. RangeInv'
      BY <1>1, <1>10, <2>2 DEF DataInv, RangeInv
    <3>. QED  BY <3>2, <3>3
  <2>. QED  BY <2>1, <2>2
<1>13. b \in poisoned \/ b \in Units(j.of)
  BY <1>2, <1>3 DEF DataInv, JobInv
<1>14. WrittenInv'
  <2>1. ASSUME NEW u \in Threads, access'[u].pc # "none", todo'[u][1].of.exact,
               NEW a \in Units(todo'[u][1].of) \ poisoned, a < access'[u].addr
        PROVE  Lookup(a)' = todo'[u][1].h
    <3>1. todo'[u] = todo[u] /\ a \in Addr /\ a \in Nat
      <4>1. CASE Last(t)
        BY <1>1, <1>3, <1>9, <2>1, <4>1, Spans
      <4>2. CASE ~ Last(t)
        BY <1>1, <2>1, <4>2, Spans
      <4>. QED  BY <4>1, <4>2
    <3>2. CASE u = t
      <4>1. ~ Last(t) /\ a < b + 1
        BY <1>9, <2>1, <3>2
      <4>2. a = b \/ a < b
        BY <1>4, <3>1, <4>1
      <4>3. a < b => Lookup(a) = j.h
        BY <1>1, <2>1, <3>1, <3>2 DEF DataInv, WrittenInv
      <4>. QED  BY <1>4, <3>1, <3>2, <4>2, <4>3
    <3>3. CASE u # t
      <4>1. access'[u] = access[u]
        BY <1>9, <3>3
      <4>2. Lookup(a) = todo[u][1].h
        BY <2>1, <3>1, <4>1 DEF DataInv, WrittenInv
      <4>3. a # b
        <5>1. 1 \in DOMAIN todo[u]
          <6>1. todo[u] \in Seq(Jobs) /\ todo[u] # << >>
            BY <1>3, <2>1, <4>1 DEF DataInv, JobInv
          <6>. QED  BY <6>1, TailIs
        <5>2. Disjoint(todo[u][1].of, j.of)
          BY <1>3, <3>3, <5>1 DEF DataInv, RangeInv
        <5>. QED  BY <1>13, <2>1, <3>1, <5>2, DisjointIs
      <4>. QED  BY <1>4, <3>1, <4>2, <4>3
    <3>. QED  BY <3>2, <3>3
  <2>. QED  BY <1>1, <1>10, <2>1 DEF WrittenInv
<1>15. ObjectsAttributed'
  <2>1. ASSUME NEW o \in objects', o.exact, NEW a \in Units(o) \ poisoned
        PROVE  Lookup(a)' = o.h
    <3>1. a \in Addr /\ a \in Nat
      BY Spans
    <3>2. CASE o \in objects
      <4>1. Lookup(a) = o.h
        BY <1>2, <2>1, <3>2 DEF DataInv, ObjectsAttributed
      <4>2. Disjoint(o, j.of)
        BY <1>3, <3>2 DEF DataInv, RangeInv
      <4>3. a # b
        BY <1>13, <2>1, <4>2, DisjointIs
      <4>. QED  BY <1>4, <3>1, <4>1, <4>3
    <3>3. CASE Last(t) /\ o = j.of
      <4>1. j.lo = o.lo /\ j.n = o.size /\ j.h = o.h
        BY <1>3, <2>1, <3>3 DEF DataInv, JobInv
      <4>2. a < j.lo + j.n /\ a < AddrNum
        <5>1. a < j.lo + j.n
          BY <4>1, Spans
        <5>2. AddrNum \in Nat
          BY SlotNums DEF AddrNum
        <5>. QED  BY <3>1, <5>1, <5>2 DEF Addr
      <4>3. a = b \/ a < b
        <5>1. PICK m \in Nat : m = j.lo + j.n
          BY <1>3
        <5>2. PICK n \in Nat : n = AddrNum
          BY SlotNums DEF AddrNum
        <5>. QED  BY <1>4, <1>5, <3>1, <3>3, <4>2, <5>1, <5>2
      <4>4. a < b => Lookup(a) = j.h
        BY <1>1, <2>1, <3>3 DEF DataInv, WrittenInv
      <4>. QED  BY <1>4, <3>1, <4>1, <4>3, <4>4
    <3>4. o \in objects \/ (Last(t) /\ o = j.of)
      BY <1>1, <2>1 DEF Handed
    <3>. QED  BY <3>2, <3>3, <3>4
  <2>. QED  BY <1>1, <1>10, <2>1 DEF ObjectsAttributed
<1>. QED  BY <1>3, <1>4, <1>7, <1>11, <1>12, <1>14, <1>15 DEF DataInv

-----------------------------------------------------------------------------
\* No client is in, nothing is asked for and nothing is written.
LEMMA DataStart ==
  ASSUME Init PROVE DataInv
<1>1. ShadowInv(Handles \cup {Unknown})
  <2>1. table \in [Tables -> [Slots2 -> PageNames \cup {None}]]
    BY DEF Init, ShadowInit, EmptyTable
  <2>2. page \in [PageNames -> [0 .. PageSize - 1 -> Handles \cup {Unknown}]]
    BY DEF Init, ShadowInit, EmptyPage
  <2>3. access \in [Threads -> Accesses] /\ \A t \in Threads : access[t].pc = "none"
    BY DEF Init, ShadowInit, Idle, Accesses
  <2>. QED  BY <2>1, <2>2, <2>3 DEF Init, ShadowInit, ShadowInv, ShadowTypes
<1>2. CallInv
  BY DEF Init, CallInv
<1>3. ClientInv
  <2>1. {c \in Clients : client[c] = "in"} = {}
    BY DEF Init
  <2>2. client \in [Clients -> {"out", "in", "gone"}] /\ \A c \in Clients : client[c] = "out"
    BY DEF Init
  <2>3. 0 < PoolMax /\ 0 \in Nat
    BY DataAssumption
  <2>. QED  BY <2>1, <2>2, <2>3, FS_EmptySet DEF Init, ShadowInit, ClientInv
<1>4. JobInv /\ RangeInv /\ WrittenInv /\ ObjectsAttributed
  <2>1. \A t \in Threads : access[t].pc = "none" /\ todo[t] = << >>
    BY DEF Init, ShadowInit, Idle
  <2>2. todo \in [Threads -> Seq(Jobs)]
    BY DEF Init
  <2>3. JobInv
    BY <2>1, <2>2 DEF JobInv
  <2>4. RangeInv
    BY <2>1 DEF Init, RangeInv
  <2>5. WrittenInv /\ ObjectsAttributed
    BY <2>1 DEF Init, WrittenInv, ObjectsAttributed
  <2>. QED  BY <2>3, <2>4, <2>5
<1>. QED  BY <1>1, <1>2, <1>3, <1>4 DEF DataInv

\* Every step keeps the inductive invariant.
LEMMA DataNext ==
  ASSUME DataInv, [Next]_vars PROVE DataInv'
<1>1. ASSUME NEW c \in Clients, ClientInit(c) \/ ClientExit(c) PROVE DataInv'
  BY <1>1, ClientInitKeeps, ClientExitKeeps
<1>2. ASSUME NEW t \in Threads, NEW n \in Sizes, NEW c \in Contexts, Capture(t, n, c) PROVE DataInv'
  BY <1>2, CaptureKeeps
<1>3. ASSUME NEW t \in Threads, NEW lo \in Places, Alloc(t, lo) PROVE DataInv'
  BY <1>3, AllocKeeps
<1>4. ASSUME NEW t \in Threads, NEW o \in objects, Free(t, o) PROVE DataInv'
  BY <1>4, FreeKeeps
<1>5. ASSUME NEW t \in Threads, AllocFails(t) PROVE DataInv'
  BY <1>5, AllocFailsKeeps
<1>6. ASSUME NEW t \in Threads, NEW m \in Modules, NEW base \in Bases, ModuleLoad(t, m, base)
      PROVE  DataInv'
  BY <1>6, ModuleLoadKeeps
<1>7. ASSUME NEW t \in Threads, ShadowStep(t) PROVE DataInv'
  <2>1. CASE GetOrCreate(t) /\ UNCHANGED <<dataVars, programVars>>
    BY <2>1, SearchKeeps
  <2>2. CASE Write(t)
    BY <2>2, WriteKeeps
  <2>3. CASE ~ exited /\ NameSymbol(t)
    BY <2>3, NameSymbolKeeps
  <2>4. CASE BeginWrite(t)
    BY <2>4, BeginWriteKeeps
  <2>. QED  BY <1>7, <2>1, <2>2, <2>3, <2>4 DEF ShadowStep
<1>8. CASE UNCHANGED vars
  <2>1. /\ UNCHANGED shadowVars
        /\ UNCHANGED <<client, init_count, pending, todo, idle_idx, exited>>
        /\ UNCHANGED <<calls, objects, poisoned, loaded, left>>
    BY <1>8 DEF vars, dataVars, programVars
  <2>2. /\ ShadowInv(Handles \cup {Unknown})' /\ dir' = dir /\ access' = access
        /\ \A a \in Addr : Lookup(a)' = Lookup(a)
    BY <2>1, ShadowStays DEF DataInv
  <2>3. \A lo, n, o, p : /\ Span(lo, n)' = Span(lo, n) /\ Units(o)' = Units(o)
                         /\ Disjoint(o, p)' <=> Disjoint(o, p)
    BY DEF Span, Units, Disjoint
  <2>4. CallInv' /\ ClientInv' /\ JobInv' /\ RangeInv'
    <3>1. CallInv'
      BY <2>1 DEF DataInv, CallInv
    <3>2. ClientInv'
      BY <2>1, <2>2 DEF DataInv, ClientInv
    <3>3. JobInv'
      BY <2>1, <2>2, <2>3 DEF DataInv, JobInv
    <3>4. RangeInv'
      BY <2>1, <2>3 DEF DataInv, RangeInv
    <3>. QED  BY <3>1, <3>2, <3>3, <3>4
  <2>5. WrittenInv'
    BY <2>1, <2>2, <2>3, Spans DEF DataInv, WrittenInv
  <2>6. ObjectsAttributed'
    BY <2>1, <2>2, <2>3, Spans DEF DataInv, ObjectsAttributed
  <2>. QED  BY <2>2, <2>4, <2>5, <2>6 DEF DataInv
<1>. QED  BY <1>1, <1>2, <1>3, <1>4, <1>5, <1>6, <1>7, <1>8 DEF Next

\* The inductive invariant: who owns the memory of the shadow memory, what the calls,
\* clients and ranges of the wrappers are about, that no two of them share memory, and what
\* the cells say already.
THEOREM DataInvariant == Spec => []DataInv
BY DataStart, DataNext, PTL DEF Spec

\* Whatever threads, clients and modules do, the state has its types: init_count counts
\* clients, a thread is in the shadow memory exactly while it has begun a range, and the
\* string pool's index stays below its limit unless the process has been ended.
THEOREM DataTypes == Spec => []TypeOK
<1>1. ASSUME DataInv PROVE TypeOK
  <2>1. /\ dir = None \/ dir \in [Slots1 -> Tables \cup {None}]
        /\ tables \subseteq Tables /\ pages \subseteq PageNames
        /\ table \in [Tables -> [Slots2 -> PageNames \cup {None}]]
        /\ page \in [PageNames -> [0 .. PageSize - 1 -> Handles \cup {Unknown}]]
        /\ access \in [Threads -> Accesses]
    BY <1>1 DEF DataInv, ShadowInv, ShadowTypes
  <2>2. ASSUME NEW t \in Threads
        PROVE  /\ access[t].pc \in {"none", "load1", "cas1", "load2", "cas2", "got"}
               /\ access[t].pc # "none" <=> todo[t] # << >> /\ todo[t][1].begun
               /\ pending[t] \in [size : Sizes \cup {0}, ctxt : Contexts \cup {None}]
               /\ \A i \in 1 .. Len(todo[t]) : todo[t][i].of \in Object
    <3>1. todo[t] \in Seq(Jobs)
      BY <1>1 DEF DataInv, JobInv
    <3>2. \A i \in 1 .. Len(todo[t]) : todo[t][i].of \in Object
      <4>1. \A i \in 1 .. Len(todo[t]) : todo[t][i] \in Jobs
        BY <3>1
      <4>. QED  BY <4>1 DEF Jobs
    <3>3. access[t].pc \in {"none", "load1", "cas1", "load2", "cas2", "got"}
      BY <2>1 DEF Accesses
    <3>. QED  BY <1>1, <3>2, <3>3 DEF DataInv, JobInv, CallInv
  <2>3. init_count \in 0 .. Cardinality(Clients)
    <3>1. {c \in Clients : client[c] = "in"} \subseteq Clients /\ IsFiniteSet(Clients)
      BY DataAssumption
    <3>2. /\ IsFiniteSet({c \in Clients : client[c] = "in"})
          /\ Cardinality({c \in Clients : client[c] = "in"}) <= Cardinality(Clients)
      BY <3>1, FS_Subset
    <3>. QED  BY <1>1, <3>1, <3>2, FS_CardinalityType DEF DataInv, ClientInv
  <2>4. objects \subseteq Object /\ exited \in BOOLEAN /\ (exited \/ idle_idx < PoolMax)
        /\ client \in [Clients -> {"out", "in", "gone"}]
    BY <1>1 DEF DataInv, ClientInv, RangeInv
  <2>. QED  BY <2>1, <2>2, <2>3, <2>4 DEF TypeOK
<1>. QED  BY <1>1, DataInvariant, PTL

\* However the races for entries end, every table and page in use is in one entry or is one
\* thread's own, a thread that has got a cell has the one its address leads to, and the last
\* client's exit leaves nothing allocated.
THEOREM ShadowOwned == Spec => []MemoryOwned
<1>1. ASSUME DataInv PROVE MemoryOwned
  <2>1. (dir # None <=> \E c \in Clients : client[c] = "in")
        /\ (dir = None => tables = {} /\ pages = {})
    BY <1>1 DEF DataInv, ClientInv, ShadowInv
  <2>2. ASSUME dir # None
        PROVE  /\ tables = Reachable1 \cup Own("cas1")
               /\ pages = Reachable2 \cup Own("cas2")
               /\ Reachable1 \cap Own("cas1") = {} /\ Reachable2 \cap Own("cas2") = {}
               /\ \A s1, r1 \in Slots1 : dir[s1] = dir[r1] /\ dir[s1] # None => s1 = r1
               /\ \A n, k \in Reachable1, s2, r2 \in Slots2 :
                    table[n][s2] = table[k][r2] /\ table[n][s2] # None => n = k /\ s2 = r2
    <3>1. Owned /\ OneEntry /\ \A t \in Threads : Pointers(access[t])
      BY <1>1, <2>2 DEF DataInv, ShadowInv
    <3>2. \A n \in Own("cas1") : n \notin Reachable1
      BY <3>1 DEF Own, Pointers
    <3>3. \A n \in Own("cas2") : n \notin Reachable2
      BY <3>1 DEF Own, Pointers
    <3>. QED  BY <3>1, <3>2, <3>3 DEF Owned, OneEntry
  <2>3. ASSUME NEW t \in Threads
        PROVE  /\ access[t].pc \in {"load2", "cas2", "got"} =>
                    dir # None /\ access[t].v1 = dir[Slot1(access[t].addr)]
               /\ access[t].pc = "got" =>
                    access[t].v2 = table[access[t].v1][Slot2(access[t].addr)]
    BY <1>1 DEF DataInv, ShadowInv, Pointers
  <2>. QED  BY <2>1, <2>2, <2>3 DEF MemoryOwned
<1>. QED  BY <1>1, DataInvariant, PTL

\* A byte of an object the program has is attributed to the allocation that made it, or to
\* its symbol, for any number of threads and whatever the memory was before, under the
\* provisos of ObjectsAttributed.
THEOREM Attributed == Spec => []ObjectsAttributed
<1>1. DataInv => ObjectsAttributed
  BY DEF DataInv
<1>. QED  BY <1>1, DataInvariant, PTL

\* The shadow memory, two levels, races and all, implements a map: no step of a thread sets
\* more than one address, and no race undoes what was set.
THEOREM MapImplemented == Spec => ImplementsMap
<1>. DEFINE map == [a \in Addr |-> Lookup(a)]
<1>1. ASSUME Init PROVE Map!Init
  BY <1>1 DEF Map!Init, Init, ShadowInit, Lookup
<1>2. ASSUME DataInv, [Next]_vars PROVE [Map!Next]_map
  <2>1. ASSUME \A a \in Addr : Lookup(a)' = Lookup(a) PROVE map' = map
    BY <2>1
  <2>2. ASSUME UNCHANGED shadowVars PROVE map' = map
    <3>1. \A a \in Addr : Lookup(a)' = Lookup(a)
      BY <1>2, <2>2, ShadowStays DEF DataInv
    <3>. QED  BY <2>1, <3>1
  <2>3. ASSUME NEW c \in Clients, ClientInit(c) PROVE map' = map
    <3>1. CASE dir = None
      <4>1. dir' = NewShadow
        <5>1. init_count = 0
          BY <1>2, <3>1, Counted DEF DataInv, ClientInv
        <5>. QED  BY <2>3, <5>1 DEF ClientInit
      <4>2. ASSUME NEW a \in Addr PROVE Lookup(a)' = Lookup(a)
        BY <3>1, <4>1, SlotsOf DEF Lookup, NewShadow
      <4>. QED  BY <2>1, <4>2
    <3>2. CASE dir # None
      <4>1. init_count \in Nat \ {0}
        BY <1>2, <3>2, Counted DEF DataInv, ClientInv
      <4>2. UNCHANGED <<dir, table, page>>
        BY <2>3, <4>1 DEF ClientInit
      <4>3. ASSUME NEW a \in Addr PROVE Lookup(a)' = Lookup(a)
        BY <4>2 DEF Lookup
      <4>. QED  BY <2>1, <4>3
    <3>. QED  BY <3>1, <3>2
  <2>4. ASSUME NEW c \in Clients, ClientExit(c) PROVE Map!Clear \/ map' = map
    <3>1. CASE UNCHANGED shadowVars
      BY <2>2, <3>1
    <3>2. CASE Delete
      BY <3>2 DEF Delete, Lookup, Map!Clear
    <3>. QED  BY <2>4, <3>1, <3>2 DEF ClientExit
  <2>5. ASSUME NEW t \in Threads, GetOrCreate(t) PROVE map' = map
    <3>1. access \in [Threads -> Accesses]
      BY <1>2 DEF DataInv, ShadowInv, ShadowTypes
    <3>2. dir # None
      BY <1>2, <2>5, <3>1, GetOrCreateStays DEF DataInv, ShadowInv
    <3>3. \A a \in Addr : Lookup(a)' = Lookup(a)
      BY <1>2, <2>5, <3>2, GetOrCreateKeeps DEF DataInv
    <3>. QED  BY <2>1, <3>3
  <2>6. ASSUME NEW t \in Threads, Write(t)
        PROVE  Map!Set(access[t].addr, todo[t][1].h)
               /\ access[t].addr \in Addr /\ todo[t][1].h \in Handles
    <3>1. /\ access[t].addr \in Addr /\ todo[t][1].h \in Handles
          /\ \A a \in Addr : Lookup(a)' = IF a = access[t].addr THEN todo[t][1].h ELSE Lookup(a)
      BY <1>2, <2>6, WriteKeeps
    <3>. QED  BY <3>1 DEF Map!Set
  <2>7. ASSUME NEW t \in Threads, BeginWrite(t) PROVE map' = map
    BY <2>7 DEF BeginWrite, Lookup
  <2>8. ASSUME NEW t \in Threads, ShadowStep(t) PROVE [Map!Next]_map
    <3>1. CASE GetOrCreate(t) \/ BeginWrite(t)
      BY <2>5, <2>7, <3>1
    <3>2. CASE Write(t)
      BY <2>6, <3>2 DEF Map!Next
    <3>3. CASE NameSymbol(t)
      BY <2>2, <3>3 DEF NameSymbol
    <3>. QED  BY <2>8, <3>1, <3>2, <3>3 DEF ShadowStep
  <2>9. ASSUME NEW t \in Threads,
               \/ \E n \in Sizes, c \in Contexts : Capture(t, n, c)
               \/ \E lo \in Places : Alloc(t, lo)
               \/ \E o \in objects : Free(t, o)
               \/ AllocFails(t)
               \/ \E m \in Modules, base \in Bases : ModuleLoad(t, m, base)
        PROVE  UNCHANGED shadowVars
    BY <2>9 DEF Capture, Alloc, Free, AllocFails, ModuleLoad
  <2>10. CASE UNCHANGED vars
    BY <2>2, <2>10 DEF vars
  <2>. QED  BY <1>2, <2>2, <2>3, <2>4, <2>8, <2>9, <2>10 DEF Next, Map!Next
<1>. QED  BY <1>1, <1>2, DataInvariant, PTL DEF Spec, ImplementsMap, Map!Spec
=============================================================================
