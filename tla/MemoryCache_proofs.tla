------------------------ MODULE MemoryCache_proofs ------------------------
(***************************************************************************)
(* MemoryCache for any number of threads and any sizes: its types, that no *)
(* object is handed out twice, and that a refill from debris fits into the *)
(* frames.  The first lemmas are about ranges alone, whoever holds them;   *)
(* every action of the module is one or two of their moves.                *)
(***************************************************************************)
EXTENDS MemoryCache, SequenceTheorems, WellFoundedInduction, TLAPS

\* Induction over the numbers, for a set instead of a predicate.
LEMMA SetInduction ==
  ASSUME NEW S, 0 \in S, \A n \in Nat : n \in S => n + 1 \in S
  PROVE  Nat \subseteq S
<1> DEFINE R == {ss \in Nat \X Nat : ss[1] < ss[2]}
<1>1. IsWellFoundedOn(R, Nat)
  BY NatLessThanWellFounded DEF OpToRel
<1>2. SUFFICES ASSUME Nat \ S # {} PROVE FALSE
  OBVIOUS
<1>3. PICK m \in Nat \ S : \A y \in Nat \ S : ~ (<<y, m>> \in R)
  BY <1>1, <1>2, WFMin
<1>4. m # 0 /\ m - 1 \in Nat /\ m - 1 \notin S
  OBVIOUS
<1>5. <<m - 1, m>> \in R
  BY <1>4
<1>. HIDE DEF R
<1>. QED BY <1>3, <1>4, <1>5

\* A set of numbers with an element has a least one.
LEMMA Least ==
  ASSUME NEW S \in SUBSET Nat, NEW n \in S
  PROVE  \E m \in S : \A y \in S : m <= y
<1> DEFINE R == {ss \in Nat \X Nat : ss[1] < ss[2]}
<1>1. IsWellFoundedOn(R, Nat)
  BY NatLessThanWellFounded DEF OpToRel
<1>2. PICK m \in S : \A y \in S : ~ (<<y, m>> \in R)
  BY <1>1, WFMin
<1>3. ASSUME NEW y \in S PROVE m <= y
  <2>1. ~ (<<y, m>> \in R) /\ y \in Nat /\ m \in Nat
    BY <1>2
  <2>. QED  BY <2>1
<1>. QED  BY <1>3

----------------------------------------------------------------------------
(* The sizes of debris. *)

\* Debris is a list of runs: each has a start among the objects and a size.
LEMMA RunsOf ==
  ASSUME NEW d \in Seq(Runs)
  PROVE  /\ Len(d) \in Nat /\ DOMAIN d = 1 .. Len(d)
         /\ \A i \in 1 .. Len(d) : d[i] \in Runs /\ d[i].start \in Objects /\ d[i].size \in Nat
<1>1. Len(d) \in Nat /\ DOMAIN d = 1 .. Len(d)
  BY LenProperties
<1>2. ASSUME NEW i \in 1 .. Len(d)
      PROVE  d[i] \in Runs /\ d[i].start \in Objects /\ d[i].size \in Nat
  <2>1. d[i] \in Runs
    BY ElementOfSeq
  <2>. QED  BY <2>1 DEF Runs
<1>. QED  BY <1>1, <1>2

\* Total adds the sizes up from the end.
LEMMA TotalSum ==
  ASSUME NEW d \in Seq(Runs)
  PROVE  /\ Total(d, 0) = 0
         /\ \A k \in 0 .. Len(d) : Total(d, k) \in Nat
         /\ \A k \in 1 .. Len(d) : Total(d, k) = Total(d, k - 1) + d[Len(d) + 1 - k].size
<1>. DEFINE Step(f, i) == IF i = 0 THEN 0 ELSE f[i - 1] + d[Len(d) + 1 - i].size
            Sums(n) == \E f \in [0 .. n -> Nat] : f = [i \in 0 .. n |-> Step(f, i)]
            S == {n \in Nat : n <= Len(d) => Sums(n)}
<1>0. Len(d) \in Nat /\ \A i \in 1 .. Len(d) : d[i].size \in Nat
  BY RunsOf
<1>1. Sums(0)
  <2>. DEFINE f == [i \in 0 .. 0 |-> 0]
  <2>1. f \in [0 .. 0 -> Nat] /\ f = [i \in 0 .. 0 |-> Step(f, i)]
    OBVIOUS
  <2>. QED  BY <2>1
<1>2. ASSUME NEW n \in Nat, n + 1 <= Len(d), Sums(n) PROVE Sums(n + 1)
  <2>2. PICK f \in [0 .. n -> Nat] : f = [i \in 0 .. n |-> Step(f, i)]
    BY <1>2
  <2>. DEFINE g == [i \in 0 .. n + 1 |-> Step(f, i)]
  <2>3. \A i \in 0 .. n : g[i] = f[i]
    BY <2>2
  <2>4. ASSUME NEW i \in 0 .. n + 1 PROVE Step(g, i) = Step(f, i)
    <3>1. i # 0 => i - 1 \in 0 .. n
      OBVIOUS
    <3>2. i # 0 => g[i - 1] = f[i - 1]
      BY <2>3, <3>1
    <3>. HIDE DEF g
    <3>. QED  BY <3>2
  <2>5. \A i \in 0 .. n + 1 : Step(f, i) \in Nat
    <3>1. ASSUME NEW i \in 0 .. n + 1, i # 0 PROVE Step(f, i) \in Nat
      <4>1. f[i - 1] \in Nat /\ d[Len(d) + 1 - i].size \in Nat
        <5>1. i - 1 \in 0 .. n /\ Len(d) + 1 - i \in 1 .. Len(d)
          BY <1>0, <1>2, <3>1
        <5>2. f[i - 1] \in Nat
          BY <5>1
        <5>3. d[Len(d) + 1 - i].size \in Nat
          BY <1>0, <5>1
        <5>. QED  BY <5>2, <5>3
      <4>. QED  BY <3>1, <4>1
    <3>. QED  BY <3>1
  <2>6. g \in [0 .. n + 1 -> Nat] /\ g = [i \in 0 .. n + 1 |-> Step(g, i)]
    BY <2>4, <2>5
  <2>. QED  BY <2>6
<1>3. Sums(Len(d))
  <2>. HIDE DEF Sums
  <2>1. 0 \in S
    BY <1>1
  <2>2. ASSUME NEW n \in Nat, n \in S PROVE n + 1 \in S
    BY <1>0, <1>2, <2>2
  <2>3. Nat \subseteq S
    <3>. HIDE DEF S
    <3>. QED  BY <2>1, <2>2, SetInduction
  <2>. QED  BY <1>0, <2>3
<1>4. PICK f \in [0 .. Len(d) -> Nat] : f = [i \in 0 .. Len(d) |-> Step(f, i)]
  BY <1>3
<1>. DEFINE F == CHOOSE g : g = [i \in 0 .. Len(d) |-> Step(g, i)]
<1>5. F = [i \in 0 .. Len(d) |-> Step(F, i)]
  BY <1>4
<1>6. \A k : Total(d, k) = F[k]
  BY DEF Total
<1>7. \A k \in 0 .. Len(d) : F[k] \in Nat
  <2>. HIDE DEF F
  <2>. DEFINE T == {k \in Nat : k <= Len(d) => F[k] \in Nat}
  <2>1. 0 \in T
    BY <1>0, <1>5
  <2>2. ASSUME NEW k \in Nat, k \in T PROVE k + 1 \in T
    <3>1. SUFFICES ASSUME k + 1 <= Len(d) PROVE F[k + 1] \in Nat
      OBVIOUS
    <3>2. F[k + 1] = F[k] + d[Len(d) + 1 - (k + 1)].size
      BY <1>0, <1>5, <3>1
    <3>3. F[k] \in Nat /\ d[Len(d) + 1 - (k + 1)].size \in Nat
      BY <1>0, <2>2, <3>1
    <3>. QED  BY <3>2, <3>3
  <2>3. Nat \subseteq T
    <3>. HIDE DEF T
    <3>. QED  BY <2>1, <2>2, SetInduction
  <2>. QED  BY <1>0, <2>3
<1>. HIDE DEF F
<1>8. F[0] = 0 /\ \A k \in 1 .. Len(d) : F[k] = F[k - 1] + d[Len(d) + 1 - k].size
  BY <1>0, <1>5
<1>. QED  BY <1>6, <1>7, <1>8

\* What is popped makes MinNum or is all there is, and one less does not.
LEMMA PoppedFacts ==
  ASSUME NEW d \in Seq(Runs)
  PROVE  /\ Popped(d) \in 0 .. Len(d)
         /\ Popped(d) = Len(d) \/ Total(d, Popped(d)) >= MinNum
         /\ \A j \in 0 .. Popped(d) - 1 : Total(d, j) < MinNum
<1>. DEFINE S == {k \in 0 .. Len(d) : k = Len(d) \/ Total(d, k) >= MinNum}
<1>1. Len(d) \in Nat /\ MinNum \in Nat /\ \A k \in 0 .. Len(d) : Total(d, k) \in Nat
  BY LenProperties, TotalSum, SizesAssumption
<1>2. S \in SUBSET Nat /\ Len(d) \in S
  BY <1>1
<1>3. PICK m \in S : \A y \in S : m <= y
  <2>. HIDE DEF S
  <2>. QED  BY <1>2, Least
<1>4. \A j \in 0 .. m - 1 : Total(d, j) < MinNum
  BY <1>1, <1>3
<1>. QED  BY <1>3, <1>4 DEF Popped

\* Each range of the debris has DebrisMin objects.
LEMMA TotalBound ==
  ASSUME NEW d \in Seq(Runs), \A i \in DOMAIN d : d[i].size >= DebrisMin
  PROVE  \A k \in 0 .. Len(d) : Total(d, k) >= k * DebrisMin
<1>. DEFINE S == {k \in Nat : k <= Len(d) => Total(d, k) >= k * DebrisMin}
<1>0. /\ Len(d) \in Nat /\ DebrisMin \in Nat /\ DOMAIN d = 1 .. Len(d)
      /\ \A i \in 1 .. Len(d) : d[i].size \in Nat
  BY RunsOf, SizesAssumption
<1>1. 0 \in S
  BY <1>0, TotalSum
<1>2. ASSUME NEW k \in Nat, k \in S PROVE k + 1 \in S
  <2>1. SUFFICES ASSUME k + 1 <= Len(d) PROVE Total(d, k + 1) >= (k + 1) * DebrisMin
    OBVIOUS
  <2>2. /\ Total(d, k + 1) = Total(d, k) + d[Len(d) + 1 - (k + 1)].size
        /\ Total(d, k) \in Nat /\ Total(d, k) >= k * DebrisMin
    <3>1. k \in 0 .. Len(d) /\ k + 1 \in 1 .. Len(d) /\ (k + 1) - 1 = k
      BY <1>0, <2>1
    <3>2. Total(d, k + 1) = Total(d, (k + 1) - 1) + d[Len(d) + 1 - (k + 1)].size
      BY <3>1, TotalSum
    <3>. QED  BY <1>2, <3>1, <3>2, TotalSum
  <2>3. d[Len(d) + 1 - (k + 1)].size >= DebrisMin /\ d[Len(d) + 1 - (k + 1)].size \in Nat
    BY <1>0, <2>1
  <2>4. (k + 1) * DebrisMin = k * DebrisMin + DebrisMin /\ k * DebrisMin \in Nat
    BY <1>0
  <2>. QED  BY <1>0, <2>2, <2>3, <2>4
<1>3. Nat \subseteq S
  <2>. HIDE DEF S
  <2>. QED  BY <1>1, <1>2, SetInduction
<1>. QED  BY <1>0, <1>3

\* Quotient and remainder, as SMT has to be told.
LEMMA Division ==
  \A x \in Nat, u \in Nat \ {0} :
    /\ x \div u \in Nat /\ x % u \in 0 .. u - 1 /\ x = (x \div u) * u + (x % u)
OBVIOUS

\* Fewer units are fewer.
LEMMA Multiples ==
  \A a, b \in Nat, u \in Nat \ {0} : a * u < b * u => a < b
<1> SUFFICES ASSUME NEW a \in Nat, NEW b \in Nat, NEW u \in Nat \ {0}, a >= b
             PROVE  a * u >= b * u
  OBVIOUS
<1>1. PICK c \in Nat : a = b + c
  <2>1. a - b \in Nat /\ a = b + (a - b)
    OBVIOUS
  <2>. QED  BY <2>1
<1>2. a * u = b * u + c * u /\ c * u \in Nat /\ b * u \in Nat
  BY <1>1
<1>. QED  BY <1>2

\* The ranges popped are no more than cache_frame_vector_ has frames, and some are when
\* there is enough debris.
LEMMA PoppedFit ==
  ASSUME NEW d \in Seq(Runs), \A i \in DOMAIN d : d[i].size >= DebrisMin
  PROVE  /\ Popped(d) <= FrameNum /\ FrameNum \in Nat \ {0}
         /\ DebrisIsEnough(d) => Popped(d) >= 1
<1>. DEFINE k == Popped(d)
            q == MinNum \div DebrisMin
            r == MinNum % DebrisMin
<1>1. /\ MinNum \in Nat \ {0} /\ DebrisMin \in Nat \ {0} /\ Len(d) \in Nat /\ k \in 0 .. Len(d)
      /\ \A j \in 0 .. k - 1 : Total(d, j) < MinNum
      /\ k = Len(d) \/ Total(d, k) >= MinNum
  BY PoppedFacts, LenProperties, SizesAssumption
<1>2. q \in Nat /\ r \in 0 .. DebrisMin - 1 /\ MinNum = q * DebrisMin + r
  BY <1>1, Division
<1>3. FrameNum = q + IF r > 0 THEN 1 ELSE 0
  BY DEF FrameNum
<1>4. FrameNum \in Nat \ {0}
  BY <1>1, <1>2, <1>3
<1>5. MinNum <= FrameNum * DebrisMin
  <2>1. (q + 1) * DebrisMin = q * DebrisMin + DebrisMin /\ q * DebrisMin \in Nat
    BY <1>1, <1>2
  <2>. HIDE DEF q, r
  <2>. QED  BY <1>1, <1>2, <1>3, <2>1
<1>6. CASE k = 0
  <2>1. Len(d) = 0 \/ Total(d, 0) >= MinNum
    BY <1>1, <1>6
  <2>2. Len(d) = 0 /\ Total(d, 0) = 0
    BY <1>1, <2>1, TotalSum
  <2>3. ~ DebrisIsEnough(d)
    BY <1>1, <1>4, <2>2 DEF DebrisIsEnough
  <2>. QED  BY <1>4, <1>6, <2>3
<1>7. CASE k # 0
  <2>1. k - 1 \in Nat /\ k - 1 \in 0 .. Len(d) /\ Total(d, k - 1) < MinNum
    BY <1>1, <1>7
  <2>2. Total(d, k - 1) >= (k - 1) * DebrisMin /\ Total(d, k - 1) \in Nat
    BY <2>1, TotalBound, TotalSum
  <2>. HIDE DEF k, q, r
  <2>3. (k - 1) * DebrisMin \in Nat /\ FrameNum * DebrisMin \in Nat
    BY <1>1, <1>4, <2>1
  <2>4. (k - 1) * DebrisMin < FrameNum * DebrisMin
    BY <1>1, <1>5, <2>1, <2>2, <2>3
  <2>5. k - 1 < FrameNum
    BY <1>1, <1>4, <2>1, <2>4, Multiples
  <2>. QED  BY <1>1, <1>4, <1>7, <2>5 DEF k
<1>. QED  BY <1>6, <1>7

----------------------------------------------------------------------------
(* The moves of ranges. *)

Extents == [start : Nat, size : Nat]

Typed(mark, out, d, left) ==
  /\ mark \in 0 .. PageNum * PageSize
  /\ out \in [Objects -> Nat]
  /\ d \in Seq(Runs)
  /\ \A p \in DOMAIN left : left[p] \in Extents

Sound(mark, out, d, left) == Typed(mark, out, d, left) /\ Places(mark, out, d, left)

\* Thread t holds the frames f besides what left says of the others.
Extended(left, t, f, wider) ==
  /\ \A q \in DOMAIN left : q[1] # t
  /\ DOMAIN wider = DOMAIN left \cup ({t} \X (1 .. Len(f)))
  /\ \A q \in DOMAIN left : wider[q] = left[q]
  /\ \A i \in 1 .. Len(f) : wider[<<t, i>>] = f[i]

\* Ranges apart share no object, and a range apart from another stays so when it is cut
\* short at its start.
LEMMA ApartFacts ==
  ASSUME NEW r \in Extents, NEW s \in Extents, Apart(r, s)
  PROVE  /\ Apart(s, r)
         /\ s.size > 0 => s.start \notin Span(r)
         /\ r.size > 0 => r.start \notin Span(s)
         /\ r.size > 0 => Apart(Run(r.start + 1, r.size - 1), s)
BY DEF Apart, Span, Extents, Run

\* Runs are extents, and objects are numbers.
LEMMA RunsTyped == Runs \subseteq Extents /\ Objects \subseteq Nat /\ PageNum * PageSize \in Nat
BY SizesAssumption DEF Runs, Extents, Objects

\* Ranges that are no longer held, or a mark further on.
LEMMA PlacesFewer ==
  ASSUME NEW mark, NEW more, NEW out, NEW d, NEW left, NEW less,
         Typed(mark, out, d, left), Places(mark, out, d, left),
         more \in 0 .. PageNum * PageSize, mark <= more,
         DOMAIN less \subseteq DOMAIN left, \A p \in DOMAIN less : less[p] = left[p]
  PROVE  Typed(more, out, d, less) /\ Places(more, out, d, less)
<1>1. Typed(more, out, d, less)
  BY DEF Typed
<1>2. \A r \in Extents : Waits(r, mark, out) => Waits(r, more, out)
  BY DEF Typed, Waits, Extents
<1>3. \A i \in DOMAIN d : d[i] \in Extents
  BY RunsOf, RunsTyped DEF Typed
<1>4. \A o \in Objects : o >= more => out[o] = 0
  BY RunsTyped DEF Places, Typed
<1>. QED  BY <1>1, <1>2, <1>3, <1>4 DEF Places, Typed

\* A range from the mark on is new to all others.
LEMMA PlacesNew ==
  ASSUME NEW mark, NEW more, NEW out, NEW d, NEW left, NEW r \in Extents, NEW p, NEW wider,
         Typed(mark, out, d, left), Places(mark, out, d, left),
         more \in 0 .. PageNum * PageSize, mark <= r.start, r.start + r.size <= more,
         p \notin DOMAIN left, DOMAIN wider = DOMAIN left \cup {p}, wider[p] = r,
         \A q \in DOMAIN left : wider[q] = left[q]
  PROVE  Typed(more, out, d, wider) /\ Places(more, out, d, wider)
<1>0. mark \in Nat /\ r.start \in Nat /\ r.size \in Nat /\ more \in Nat
  BY RunsTyped DEF Typed, Extents
<1>1. Typed(more, out, d, wider)
  BY DEF Typed
<1>2. \A s \in Extents : Waits(s, mark, out) => Waits(s, more, out) /\ Apart(s, r) /\ Apart(r, s)
  BY <1>0 DEF Waits, Apart, Extents
<1>3. \A i \in DOMAIN d : d[i] \in Extents
  BY RunsOf, RunsTyped DEF Typed
<1>4. \A o \in Objects : o >= more => out[o] = 0
  BY <1>0, RunsTyped DEF Places
<1>5. Waits(r, more, out)
  <2>1. ASSUME NEW o \in Span(r) PROVE out[o] = 0
    <3>1. o \in Nat /\ mark <= o /\ o < more
      BY <1>0 DEF Span
    <3>2. o \in Objects
      BY <3>1, RunsTyped DEF Objects
    <3>. QED  BY <3>1, <3>2 DEF Places
  <2>. QED  BY <2>1 DEF Waits
<1>6. /\ DOMAIN wider = DOMAIN left \cup {p} /\ wider[p] = r
      /\ \A q \in DOMAIN left : q # p /\ wider[q] = left[q] /\ left[q] \in Extents
  BY DEF Typed
<1>7. \A i \in DOMAIN d : /\ d[i].size >= DebrisMin /\ Waits(d[i], more, out)
                          /\ Apart(r, d[i])
  BY <1>2, <1>3 DEF Places
<1>8. \A i, j \in DOMAIN d : i # j => Apart(d[i], d[j])
  BY DEF Places
<1>9. ASSUME NEW q \in DOMAIN wider
      PROVE  /\ Waits(wider[q], more, out)
             /\ \A i \in DOMAIN d : Apart(wider[q], d[i])
             /\ \A s \in DOMAIN wider : q # s => Apart(wider[q], wider[s])
  <2>1. CASE q = p
    BY <1>2, <1>5, <1>6, <1>7, <2>1 DEF Places
  <2>2. CASE q # p
    BY <1>2, <1>6, <2>2 DEF Places
  <2>. QED  BY <2>1, <2>2
<1>. QED  BY <1>1, <1>4, <1>7, <1>8, <1>9 DEF Places

\* A range held becomes debris, or is lost when it is short.
LEMMA PlacesDebris ==
  ASSUME NEW mark, NEW out, NEW d, NEW left, NEW p \in DOMAIN left, NEW less,
         Typed(mark, out, d, left), Places(mark, out, d, left),
         DOMAIN less = DOMAIN left \ {p}, \A q \in DOMAIN less : less[q] = left[q]
  PROVE  /\ Typed(mark, out, AddDebris(d, left[p]), less)
         /\ Places(mark, out, AddDebris(d, left[p]), less)
<1>. DEFINE r == left[p]
            e == Append(d, r)
<1>0. /\ mark \in Nat /\ mark <= PageNum * PageSize /\ r \in Extents
      /\ r.start \in Nat /\ r.size \in Nat /\ DebrisMin \in Nat \ {0}
  BY RunsTyped, SizesAssumption DEF Typed, Extents
<1>1. CASE r.size < DebrisMin
  BY <1>0, <1>1, PlacesFewer, RunsTyped DEF AddDebris, Typed
<1>2. CASE ~ (r.size < DebrisMin)
  <2>1. AddDebris(d, r) = e
    BY <1>2 DEF AddDebris
  <2>2. r \in Runs
    <3>1. r.start < PageNum * PageSize
      BY <1>0, <1>2, RunsTyped DEF Places, Waits
    <3>. QED  BY <1>0, <3>1, RunsTyped DEF Runs, Objects, Extents
  <2>3. /\ e \in Seq(Runs) /\ DOMAIN d = 1 .. Len(d) /\ DOMAIN e = 1 .. Len(d) + 1
        /\ Len(d) \in Nat /\ e[Len(d) + 1] = r /\ \A i \in 1 .. Len(d) : e[i] = d[i]
    BY <2>2, AppendProperties, RunsOf DEF Typed
  <2>4. Typed(mark, out, e, less)
    BY <2>3 DEF Typed
  <2>5. \A i \in DOMAIN d : d[i] \in Extents
    BY RunsOf, RunsTyped DEF Typed
  <2>6. ASSUME NEW i \in DOMAIN e
        PROVE  /\ e[i].size >= DebrisMin /\ Waits(e[i], mark, out)
               /\ \A j \in DOMAIN e : i # j => Apart(e[i], e[j])
               /\ \A q \in DOMAIN less : Apart(less[q], e[i])
    <3>1. CASE i = Len(d) + 1
      <4>1. e[i] = r /\ \A j \in DOMAIN e : i # j => j \in DOMAIN d /\ e[j] = d[j]
        BY <2>3, <3>1
      <4>. QED  BY <1>0, <1>2, <4>1 DEF Places
    <3>2. CASE i # Len(d) + 1
      <4>1. i \in DOMAIN d /\ e[i] = d[i]
        BY <2>3, <3>2
      <4>2. \A j \in DOMAIN d : i # j => Apart(e[i], e[j])
        BY <2>3, <4>1 DEF Places
      <4>3. Apart(e[i], r)
        BY <1>0, <2>5, <4>1, ApartFacts DEF Places
      <4>4. \A j \in DOMAIN e : j \in DOMAIN d \/ e[j] = r
        BY <2>3
      <4>. QED  BY <4>1, <4>2, <4>3, <4>4 DEF Places
    <3>. QED  BY <3>1, <3>2
  <2>7. Places(mark, out, e, less)
    BY <2>6 DEF Places
  <2>. QED  BY <2>1, <2>4, <2>7
<1>. QED  BY <1>1, <1>2

\* From out to out2 object o of range p is handed out, and less is what is left then.
Taken(out, left, p, o, out2, less) ==
  /\ p \in DOMAIN left /\ left[p].size > 0 /\ o = left[p].start
  /\ DOMAIN less \subseteq DOMAIN left
  /\ \A q \in DOMAIN less : less[q] = IF q = p THEN Run(left[p].start + 1, left[p].size - 1)
                                      ELSE left[q]
  /\ out2 = [out EXCEPT ![o] = @ + 1]

\* The first object of a range held is handed out.
LEMMA PlacesTake ==
  ASSUME NEW mark, NEW out, NEW d, NEW left, NEW p, NEW o, NEW less, NEW out2,
         Typed(mark, out, d, left), Places(mark, out, d, left),
         Taken(out, left, p, o, out2, less)
  PROVE  /\ Typed(mark, out2, d, less) /\ Places(mark, out2, d, less)
         /\ (\A x \in Objects : out[x] <= 1) => \A x \in Objects : out2[x] <= 1
<1>. USE DEF Taken
<1>. DEFINE r == left[p]
<1>0. /\ mark \in Nat /\ r \in Extents /\ r.start \in Nat /\ r.size \in Nat
      /\ r.start + r.size <= mark /\ mark <= PageNum * PageSize /\ o \in Span(r) /\ out[o] = 0
      /\ o \in Objects
  <2>1. mark \in Nat /\ mark <= PageNum * PageSize /\ r \in Extents
    BY RunsTyped DEF Typed
  <2>2. r.start \in Nat /\ r.size \in Nat /\ r.start + r.size <= mark /\ o \in Span(r)
    BY <2>1 DEF Extents, Span, Places, Waits
  <2>3. out[o] = 0 /\ o \in Objects
    BY <2>1, <2>2, RunsTyped DEF Places, Waits, Objects
  <2>. QED  BY <2>1, <2>2, <2>3
<1>1. /\ out2 \in [Objects -> Nat] /\ out2[o] = 1
      /\ \A x \in Objects : x # o => out2[x] = out[x]
  BY <1>0 DEF Typed
<1>2. \A x : x # o /\ out[x] = 0 => out2[x] = 0
  BY <1>0 DEF Typed
<1>3. ASSUME NEW s \in Extents, Apart(r, s), Waits(s, mark, out)
      PROVE  Waits(s, mark, out2)
  <2>1. o \notin Span(s)
    BY <1>0, <1>3, ApartFacts
  <2>. QED  BY <1>2, <1>3, <2>1 DEF Waits
<1>4. \A i \in DOMAIN d : d[i] \in Extents
  BY RunsOf, RunsTyped DEF Typed
<1>5. \A q \in DOMAIN left : left[q] \in Extents /\ (q # p => Apart(r, left[q]))
  BY DEF Typed, Places
<1>6. \A i \in DOMAIN d : d[i].size >= DebrisMin /\ Waits(d[i], mark, out2) /\ Apart(r, d[i])
  BY <1>3, <1>4 DEF Places
<1>. DEFINE c == Run(r.start + 1, r.size - 1)
<1>7. /\ c \in Extents /\ Waits(c, mark, out2)
      /\ \A s \in Extents : Apart(r, s) => Apart(c, s) /\ Apart(s, c)
  <2>1. c \in Extents /\ c.start = r.start + 1 /\ c.size = r.size - 1
    BY <1>0 DEF Extents, Run
  <2>2. \A x \in Span(c) : x \in Span(r) /\ x # o
    BY <1>0, <2>1 DEF Span
  <2>3. \A x \in Span(r) : out[x] = 0
    BY DEF Places, Waits
  <2>4. Waits(c, mark, out2)
    BY <1>0, <1>2, <2>1, <2>2, <2>3 DEF Waits
  <2>5. \A s \in Extents : Apart(r, s) => Apart(c, s) /\ Apart(s, c)
    BY <1>0, <2>1, ApartFacts
  <2>. QED  BY <2>1, <2>4, <2>5
<1>. HIDE DEF c
<1>8. \A q \in DOMAIN less : q \in DOMAIN left /\ less[q] = IF q = p THEN c ELSE left[q]
  BY DEF c
<1>9. Typed(mark, out2, d, less)
  BY <1>1, <1>5, <1>7, <1>8 DEF Typed
<1>10. ASSUME NEW q \in DOMAIN less
       PROVE  /\ Waits(less[q], mark, out2)
              /\ \A i \in DOMAIN d : Apart(less[q], d[i])
              /\ \A u \in DOMAIN less : q # u => Apart(less[q], less[u])
  <2>1. CASE q = p
    BY <1>4, <1>5, <1>6, <1>7, <1>8, <2>1
  <2>2. CASE q # p
    <3>1. q \in DOMAIN left /\ less[q] = left[q] /\ left[q] \in Extents /\ Apart(r, left[q])
      BY <1>5, <1>8, <2>2
    <3>2. Waits(left[q], mark, out2)
      BY <1>3, <3>1 DEF Places
    <3>3. \A u \in DOMAIN less : q # u => Apart(less[q], less[u])
      BY <1>7, <1>8, <3>1 DEF Places
    <3>. QED  BY <3>1, <3>2, <3>3 DEF Places
  <2>. QED  BY <2>1, <2>2
<1>11. \A x \in Objects : x >= mark => out2[x] = 0
  BY <1>0, <1>2, RunsTyped DEF Places
<1>12. Places(mark, out2, d, less)
  BY <1>6, <1>10, <1>11 DEF Places
<1>. QED  BY <1>1, <1>9, <1>12, RunsTyped

\* The last k ranges of the debris become frames of a thread that holds none.
LEMMA PlacesPop ==
  ASSUME NEW mark, NEW out, NEW d, NEW left, NEW t, NEW k, NEW g, NEW wider,
         Sound(mark, out, d, left), Extended(left, t, g, wider),
         k \in 0 .. Len(d), g \in Seq(Runs), Len(g) = k,
         \A i \in 1 .. k : g[i] = d[Len(d) + 1 - i]
  PROVE  /\ Sound(mark, out, SubSeq(d, 1, Len(d) - k), wider)
         /\ \A i \in 1 .. k : g[i].size >= DebrisMin
<1>. DEFINE e == SubSeq(d, 1, Len(d) - k)
            n == Len(d)
<1>00. Typed(mark, out, d, left) /\ Places(mark, out, d, left)
  BY DEF Sound
<1>0. /\ n \in Nat /\ k \in Nat /\ n - k \in Nat /\ d \in Seq(Runs) /\ DOMAIN d = 1 .. n
      /\ \A i \in 1 .. n : d[i] \in Runs /\ d[i] \in Extents
  BY <1>00, RunsOf, RunsTyped DEF Typed
<1>1. /\ e \in Seq(Runs) /\ DOMAIN e = 1 .. n - k
      /\ \A i \in 1 .. n - k : e[i] = d[i]
  <2>1. e = [i \in 1 .. n - k |-> d[i]]
    BY SMTT(60), <1>0 DEF SubSeq
  <2>. QED  BY <1>0, <2>1
<1>3. \A i \in 1 .. k : /\ n + 1 - i \in 1 .. n /\ g[i] = d[n + 1 - i] /\ g[i] \in Extents
  BY <1>0
<1>4. \A i \in 1 .. k : \A j \in 1 .. n - k : n + 1 - i # j
  BY <1>0
<1>5. \A i, j \in 1 .. k : i # j => n + 1 - i # n + 1 - j
  BY <1>0
<1>. HIDE DEF e, n
<1>6. \A q \in DOMAIN wider :
        \/ q \in DOMAIN left /\ wider[q] = left[q]
        \/ \E i \in 1 .. k : q = <<t, i>> /\ wider[q] = g[i]
  BY DEF Extended
<1>7. Typed(mark, out, e, wider)
  BY <1>00, <1>1, <1>3, <1>6 DEF Typed
<1>8. \A i \in DOMAIN e : /\ i \in DOMAIN d /\ e[i] = d[i]
  BY <1>0, <1>1
<1>9. ASSUME NEW q \in DOMAIN wider
      PROVE  /\ Waits(wider[q], mark, out)
             /\ \A i \in DOMAIN e : Apart(wider[q], e[i])
             /\ \A u \in DOMAIN wider : q # u => Apart(wider[q], wider[u])
  <2>1. CASE q \in DOMAIN left /\ wider[q] = left[q]
    <3>1. ASSUME NEW i \in 1 .. k PROVE Apart(wider[q], g[i])
      BY <1>00, <1>0, <1>3, <2>1 DEF Places
    <3>. QED  BY <1>00, <1>6, <1>8, <2>1, <3>1 DEF Places
  <2>2. ASSUME NEW i \in 1 .. k, q = <<t, i>>, wider[q] = g[i]
        PROVE  /\ Waits(wider[q], mark, out)
               /\ \A j \in DOMAIN e : Apart(wider[q], e[j])
               /\ \A u \in DOMAIN wider : q # u => Apart(wider[q], wider[u])
    <3>1. n + 1 - i \in DOMAIN d /\ wider[q] = d[n + 1 - i] /\ wider[q] \in Extents
      BY <1>0, <1>3, <2>2
    <3>2. Waits(wider[q], mark, out)
      BY <1>00, <3>1 DEF Places
    <3>3. \A j \in DOMAIN e : Apart(wider[q], e[j])
      BY <1>00, <1>1, <1>4, <1>8, <3>1 DEF Places
    <3>4. ASSUME NEW u \in DOMAIN left PROVE Apart(wider[q], left[u])
      BY <1>00, <1>3, <2>2, <3>1, ApartFacts DEF Typed, Places
    <3>5. ASSUME NEW j \in 1 .. k, j # i PROVE Apart(wider[q], g[j])
      BY <1>00, <1>0, <1>3, <1>5, <3>1, <3>5 DEF Places
    <3>6. \A u \in DOMAIN wider : q # u => Apart(wider[q], wider[u])
      BY <1>6, <2>2, <3>4, <3>5
    <3>. QED  BY <3>2, <3>3, <3>6
  <2>. QED  BY <1>6, <2>1, <2>2
<1>10. Places(mark, out, e, wider)
  BY <1>00, <1>0, <1>1, <1>8, <1>9 DEF Places
<1>11. \A i \in 1 .. k : g[i].size >= DebrisMin
  BY <1>00, <1>0, <1>3 DEF Places
<1>. QED  BY <1>7, <1>10, <1>11 DEF e, n, Sound

----------------------------------------------------------------------------
(* Refills. *)

\* Where the mark is.
LEMMA Marks ==
  ASSUME TypeOK, page < PageNum
  PROVE  /\ page \in Nat /\ place \in 0 .. PageSize /\ PageSize \in Nat \ {0} /\ PageNum \in Nat
         /\ MinNum \in 1 .. PageSize
         /\ page * PageSize \in Nat /\ (page + 1) * PageSize = page * PageSize + PageSize
         /\ (page + 1) * PageSize <= PageNum * PageSize
         /\ Fresh \in 0 .. PageNum * PageSize
         /\ Fresh = IF debris_mode THEN page * PageSize + PageSize ELSE page * PageSize + place
<1>1. /\ page \in Nat /\ place \in 0 .. PageSize /\ PageSize \in Nat \ {0} /\ PageNum \in Nat
      /\ MinNum \in 1 .. PageSize /\ debris_mode \in BOOLEAN
  BY SizesAssumption DEF TypeOK
<1>2. page * PageSize \in Nat /\ (page + 1) * PageSize = page * PageSize + PageSize
      /\ PageNum * PageSize \in Nat
  BY <1>1
<1>3. (page + 1) * PageSize <= PageNum * PageSize
  <2>1. PICK c \in Nat : PageNum = (page + 1) + c
    <3>1. PageNum - (page + 1) \in Nat /\ PageNum = (page + 1) + (PageNum - (page + 1))
      BY <1>1
    <3>. QED  BY <3>1
  <2>2. PageNum * PageSize = (page + 1) * PageSize + c * PageSize /\ c * PageSize \in Nat
    BY <1>1, <2>1
  <2>. QED  BY <1>1, <1>2, <2>2
<1>4. Fresh = IF debris_mode THEN page * PageSize + PageSize ELSE page * PageSize + place
  BY <1>2 DEF Fresh
<1>. QED  BY <1>1, <1>2, <1>3, <1>4

\* A list of one run.
LEMMA OneRun ==
  ASSUME NEW r \in Runs
  PROVE  <<r>> \in Seq(Runs) /\ Len(<<r>>) = 1 /\ DOMAIN <<r>> = 1 .. 1 /\ <<r>>[1] = r
OBVIOUS

\* A range from the mark on is new to all others, and is a frame.
LEMMA FreshFrame ==
  ASSUME NEW mark, NEW out, NEW d, NEW left, NEW t, NEW f, NEW start \in Nat, NEW wider,
         Sound(mark, out, d, left), Extended(left, t, f, wider),
         mark <= start, start + MinNum <= PageNum * PageSize,
         f = <<Run(start, MinNum)>>
  PROVE  /\ Sound(start + MinNum, out, d, wider)
         /\ f \in Seq(Runs) /\ Len(f) = 1 /\ \A i \in DOMAIN f : f[i].size > 0
<1>0. PICK more : more = start + MinNum
  OBVIOUS
<1>. DEFINE r == Run(start, MinNum)
            p == <<t, 1>>
<1>1. MinNum \in Nat \ {0} /\ PageNum * PageSize \in Nat
  BY SizesAssumption
<1>2. r.start = start /\ r.size = MinNum /\ r \in Runs /\ r \in Extents
  BY <1>1 DEF Run, Runs, Objects, Extents
<1>3. f = <<r>>
  OBVIOUS
<1>. HIDE DEF r
<1>4. f \in Seq(Runs) /\ Len(f) = 1 /\ DOMAIN f = 1 .. 1 /\ f[1] = r
  BY <1>2, <1>3, OneRun
<1>5. /\ DOMAIN wider = DOMAIN left \cup {p} /\ wider[p] = r
      /\ \A q \in DOMAIN left : wider[q] = left[q]
  <2>1. {t} \X (1 .. Len(f)) = {p}
    BY <1>4
  <2>. QED  BY <1>4, <2>1 DEF Extended
<1>6. p \notin DOMAIN left
  BY DEF Extended
<1>7. more \in 0 .. PageNum * PageSize /\ mark <= r.start /\ r.start + r.size <= more
  BY <1>0, <1>1, <1>2
<1>. HIDE DEF p
<1>8. Sound(more, out, d, wider)
  BY <1>2, <1>5, <1>6, <1>7, PlacesNew DEF Sound
<1>. QED  BY <1>0, <1>1, <1>2, <1>4, <1>8

\* A refill gives the thread frames it held none of before, and what the others hold
\* stays theirs.
LEMMA RefillPlaces ==
  ASSUME CacheInv, NEW t \in Threads, ~ RefillFails, Refill(t),
         NEW left, NEW wider,
         Sound(Fresh, handed, debris, left), Extended(left, t, frames'[t], wider)
  PROVE  /\ page' \in 0 .. PageNum - 1 /\ place' \in 0 .. PageSize /\ debris_mode' \in BOOLEAN
         /\ frames' = [frames EXCEPT ![t] = frames'[t]]
         /\ frames'[t] \in Seq(Runs) /\ Len(frames'[t]) \in 1 .. FrameNum
         /\ \A i \in DOMAIN frames'[t] : frames'[t][i].size > 0
         /\ Sound(Fresh', handed, debris', wider)
<1>. DEFINE d == IF debris_mode THEN debris ELSE AddDebris(debris, RestOfPage)
<1>0. PICK base, full : base = page * PageSize /\ full = base + PageSize
  OBVIOUS
<1>1. /\ page \in Nat /\ place \in 0 .. PageSize /\ PageSize \in Nat \ {0} /\ PageNum \in Nat
      /\ MinNum \in 1 .. PageSize /\ base \in Nat /\ (page + 1) * PageSize = full
      /\ full <= PageNum * PageSize /\ PageNum * PageSize \in Nat
      /\ Fresh \in 0 .. PageNum * PageSize
      /\ Fresh = IF debris_mode THEN full ELSE base + place
      /\ page < PageNum /\ debris_mode \in BOOLEAN /\ DebrisMin \in Nat \ {0}
      /\ frames \in [Threads -> Seq(Runs)] /\ FrameNum \in Nat \ {0}
  <2>1. TypeOK /\ page < PageNum
    BY DEF CacheInv, FrameInv
  <2>2. FrameNum \in Nat \ {0}
    BY PoppedFit DEF Sound, Typed, Places
  <2>. QED  BY <1>0, <2>1, <2>2, Marks, RunsTyped, SizesAssumption DEF TypeOK
<1>L. PICK top : /\ top = PageNum * PageSize /\ top \in Nat /\ full <= top
                 /\ base \in Nat /\ full = base + PageSize /\ PageSize \in Nat
                 /\ place \in 0 .. PageSize /\ MinNum \in 1 .. PageSize
                 /\ Fresh = IF debris_mode THEN full ELSE base + place
  BY <1>0, <1>1
<1>2. Sound(full, handed, d, left)
  <2>1. CASE debris_mode
    BY <1>1, <2>1
  <2>2. CASE ~ debris_mode
    <3>. DEFINE p == <<t, 0>>
                w == [q \in DOMAIN left \cup {p} |-> IF q = p THEN RestOfPage ELSE left[q]]
    <3>1. RestOfPage \in Extents /\ RestOfPage.start = base + place
          /\ RestOfPage.start + RestOfPage.size = full
      <4>1. RestOfPage = [start |-> base + place, size |-> PageSize - place]
        BY <1>0 DEF RestOfPage, Run
      <4>2. base + place \in Nat /\ PageSize - place \in Nat
            /\ (base + place) + (PageSize - place) = full
        BY <1>L
      <4>. QED  BY <4>1, <4>2 DEF Extents
    <3>2. p \notin DOMAIN left
      BY DEF Extended
    <3>3. Typed(full, handed, debris, w) /\ Places(full, handed, debris, w)
      <4>0. Typed(Fresh, handed, debris, left) /\ Places(Fresh, handed, debris, left)
        BY DEF Sound
      <4>1. full \in 0 .. PageNum * PageSize /\ Fresh <= RestOfPage.start
        BY <1>L, <2>2, <3>1
      <4>2. DOMAIN w = DOMAIN left \cup {p} /\ w[p] = RestOfPage
            /\ \A q \in DOMAIN left : w[q] = left[q]
        BY <3>2
      <4>3. RestOfPage.start + RestOfPage.size <= full
        BY <1>1, <3>1
      <4>. HIDE DEF p, w
      <4>. QED  BY <3>1, <3>2, <4>0, <4>1, <4>2, <4>3, PlacesNew
    <3>4. p \in DOMAIN w /\ w[p] = RestOfPage /\ DOMAIN left = DOMAIN w \ {p}
          /\ \A q \in DOMAIN left : left[q] = w[q]
      BY <3>2
    <3>. HIDE DEF w, p
    <3>5. /\ Typed(full, handed, AddDebris(debris, w[p]), left)
          /\ Places(full, handed, AddDebris(debris, w[p]), left)
      BY <3>3, <3>4, PlacesDebris
    <3>. QED  BY <2>2, <3>4, <3>5 DEF Sound
  <2>. QED  BY <2>1, <2>2
<1>3. CASE ~ debris_mode /\ PageSize - place >= MinNum
  <2>1. FromPage(t)
    BY <1>3 DEF Refill
  <2>2. /\ frames' = [frames EXCEPT ![t] = <<Run(base + place, MinNum)>>]
        /\ page' = page /\ place' = place + MinNum /\ debris' = debris
        /\ debris_mode' = debris_mode
    BY <1>0, <2>1 DEF FromPage
  <2>3. PICK f : f = <<Run(base + place, MinNum)>>
    OBVIOUS
  <2>4. frames'[t] = f /\ frames' = [frames EXCEPT ![t] = f]
    BY <1>1, <2>2, <2>3
  <2>5. PICK m : m = base + place + MinNum
    OBVIOUS
  <2>9. Fresh' = m
    BY <1>0, <1>1, <1>3, <2>2, <2>5 DEF Fresh
  <2>6. m <= PageNum * PageSize /\ Fresh = base + place
    BY <1>L, <1>3, <2>5
  <2>7. /\ Sound(m, handed, debris, wider)
        /\ f \in Seq(Runs) /\ Len(f) = 1 /\ \A i \in DOMAIN f : f[i].size > 0
    <3>1. PICK b : b = base + place
      OBVIOUS
    <3>2. b \in Nat /\ Fresh <= b /\ b + MinNum = m
      BY <1>L, <2>5, <2>6, <3>1
    <3>3. Extended(left, t, f, wider) /\ f = <<Run(b, MinNum)>>
      BY <2>3, <2>4, <3>1
    <3>. QED  BY <2>6, <3>2, <3>3, FreshFrame
  <2>8. page' \in 0 .. PageNum - 1 /\ place' \in 0 .. PageSize /\ debris_mode' \in BOOLEAN
    <3>1. page \in 0 .. PageNum - 1 /\ place + MinNum \in 0 .. PageSize
      BY <1>L, <1>1, <1>3
    <3>. QED  BY <1>1, <2>2, <3>1
  <2>10. Len(f) \in 1 .. FrameNum /\ debris' = debris
    BY <1>1, <2>2, <2>7
  <2>. HIDE DEF d
  <2>. QED  BY <2>4, <2>7, <2>8, <2>9, <2>10
<1>4. CASE ~ (~ debris_mode /\ PageSize - place >= MinNum) /\ DebrisIsEnough(d)
  <2>1. FromDebris(t, d)
    BY <1>4 DEF Refill
  <2>. DEFINE k == Popped(d)
              g == [i \in 1 .. k |-> d[Len(d) + 1 - i]]
  <2>2. /\ frames' = [frames EXCEPT ![t] = g] /\ frames'[t] = g
        /\ page' = page /\ place' = place /\ debris' = SubSeq(d, 1, Len(d) - k)
        /\ debris_mode' = TRUE
    BY <1>1, <2>1 DEF FromDebris
  <2>3. Fresh' = full
    BY <1>0, <1>1, <2>2 DEF Fresh
  <2>4. k \in 0 .. Len(d) /\ k \in 1 .. FrameNum /\ k \in Nat
    <3>1. d \in Seq(Runs) /\ \A i \in DOMAIN d : d[i].size >= DebrisMin
      BY <1>2 DEF Sound, Typed, Places
    <3>. HIDE DEF d
    <3>. QED  BY <1>1, <1>4, <3>1, PoppedFacts, PoppedFit, RunsOf
  <2>5. PICK e, gg : e = SubSeq(d, 1, Len(d) - k) /\ gg = g
    OBVIOUS
  <2>. HIDE DEF d, k, g
  <2>6. frames'[t] = gg /\ frames' = [frames EXCEPT ![t] = gg] /\ debris' = e
    BY <2>2, <2>5
  <2>7. /\ gg \in Seq(Runs) /\ Len(gg) = k
        /\ \A i \in 1 .. k : gg[i].size >= DebrisMin
        /\ Sound(full, handed, e, wider)
    <3>0. /\ d \in Seq(Runs) /\ Len(d) \in Nat /\ \A i \in 1 .. Len(d) : d[i] \in Runs
      BY <1>2, RunsOf DEF Sound, Typed
    <3>1. Len(gg) = k /\ gg \in Seq(Runs)
      <4>1. gg = [i \in 1 .. k |-> d[Len(d) + 1 - i]]
        BY <2>5 DEF g
      <4>2. \A i \in 1 .. k : d[Len(d) + 1 - i] \in Runs
        BY <2>4, <3>0
      <4>. QED  BY <2>4, <4>1, <4>2
    <3>2. Extended(left, t, gg, wider)
      BY <2>6
    <3>4. \A i \in 1 .. k : gg[i] = d[Len(d) + 1 - i]
      BY <2>5 DEF g
    <3>. QED  BY <1>2, <2>4, <2>5, <3>1, <3>2, <3>4, PlacesPop
  <2>8. DOMAIN gg = 1 .. k /\ \A i \in DOMAIN gg : gg[i].size > 0
    <3>1. DOMAIN gg = 1 .. k /\ \A i \in 1 .. k : gg[i].size \in Nat
      BY <2>7, RunsOf
    <3>. QED  BY <1>1, <2>7, <3>1
  <2>9. page \in 0 .. PageNum - 1
    BY <1>1
  <2>. QED  BY <1>1, <2>2, <2>3, <2>4, <2>6, <2>7, <2>8, <2>9
<1>5. CASE ~ (~ debris_mode /\ PageSize - place >= MinNum) /\ ~ DebrisIsEnough(d)
  <2>1. FromNewPage(t, d)
    BY <1>5 DEF Refill
  <2>2. /\ page' = page + 1 /\ frames' = [frames EXCEPT ![t] = <<Run(full, MinNum)>>]
        /\ place' = MinNum /\ debris' = d /\ debris_mode' = FALSE
    BY <1>1, <2>1 DEF FromNewPage
  <2>3. page + 1 < PageNum
    BY <1>1, <1>5 DEF RefillFails
  <2>4. full + PageSize <= PageNum * PageSize
    <3>1. PICK c \in Nat : PageNum = (page + 2) + c
      <4>1. PageNum - (page + 2) \in Nat /\ PageNum = (page + 2) + (PageNum - (page + 2))
        BY <1>1, <2>3
      <4>. QED  BY <4>1
    <3>2. /\ PageNum * PageSize = (page + 2) * PageSize + c * PageSize /\ c * PageSize \in Nat
          /\ (page + 2) * PageSize = base + PageSize + PageSize
      BY <1>0, <1>1, <3>1
    <3>. QED  BY <1>0, <1>1, <3>2
  <2>5. PICK f : f = <<Run(full, MinNum)>>
    OBVIOUS
  <2>6. frames'[t] = f /\ frames' = [frames EXCEPT ![t] = f]
    BY <1>1, <2>2, <2>5
  <2>7. PICK m : m = full + MinNum
    OBVIOUS
  <2>11. Fresh' = m
    BY <1>0, <1>1, <2>2, <2>7 DEF Fresh
  <2>. HIDE DEF d
  <2>8. m <= PageNum * PageSize /\ full \in Nat
    <3>1. base \in Nat /\ PageSize \in Nat /\ MinNum \in 1 .. PageSize /\ PageNum * PageSize \in Nat
      BY <1>1
    <3>2. PICK z : z = PageNum * PageSize
      OBVIOUS
    <3>. QED  BY <1>0, <2>4, <2>7, <3>1, <3>2
  <2>9. /\ Sound(m, handed, d, wider)
        /\ f \in Seq(Runs) /\ Len(f) = 1 /\ \A i \in DOMAIN f : f[i].size > 0
    <3>1. Extended(left, t, f, wider)
      BY <2>6
    <3>2. full <= full
      BY <2>8
    <3>. QED  BY <1>2, <2>5, <2>7, <2>8, <3>1, <3>2, FreshFrame
  <2>10. /\ page' \in 0 .. PageNum - 1 /\ place' \in 0 .. PageSize /\ debris_mode' \in BOOLEAN
         /\ Len(f) \in 1 .. FrameNum /\ debris' = d
    <3>1. page + 1 \in 0 .. PageNum - 1 /\ MinNum \in 0 .. PageSize
      BY <1>L, <1>1, <2>3
    <3>2. page' \in 0 .. PageNum - 1 /\ place' \in 0 .. PageSize /\ debris_mode' \in BOOLEAN
      BY <2>2, <3>1
    <3>3. Len(f) \in 1 .. FrameNum
      BY <1>1, <2>9
    <3>. QED  BY <2>2, <3>2, <3>3
  <2>. QED  BY <2>6, <2>9, <2>10, <2>11
<1>. QED  BY <1>3, <1>4, <1>5

----------------------------------------------------------------------------
(* The actions. *)

Lefts == [p \in Held |-> Left(p[1], p[2])]

\* The frames a live thread holds are those from the one in use to the last.
LEMMA HeldIs ==
  /\ \A t, i : <<t, i>> \in Held <=> t \in Threads /\ pc[t] = "live"
                                     /\ i \in frame[t] .. Len(frames[t])
  /\ \A p \in Held : p = <<p[1], p[2]>>
BY DEF Held

\* What HeldIs says of the next state.
LEMMA HeldIsNext ==
  (/\ \A t, i : <<t, i>> \in Held <=> t \in Threads /\ pc[t] = "live"
                                      /\ i \in frame[t] .. Len(frames[t])
   /\ \A p \in Held : p = <<p[1], p[2]>>)'
BY HeldIs, PTL

\* A live thread's frames, and what is left of them.
LEMMA LeftsAre ==
  ASSUME CacheInv, NEW t \in Threads, pc[t] = "live"
  PROVE  /\ frame[t] \in 1 .. Len(frames[t]) /\ Len(frames[t]) \in Nat
         /\ frames[t] \in Seq(Runs) /\ DOMAIN frames[t] = 1 .. Len(frames[t])
         /\ used[t] \in Int /\ used[t] >= -1 /\ used[t] < frames[t][frame[t]].size
         /\ \A i \in 1 .. Len(frames[t]) : /\ frames[t][i] \in Runs
                                           /\ frames[t][i].start \in Nat
                                           /\ frames[t][i].size \in Nat \ {0}
         /\ \A i \in 1 .. Len(frames[t]) : i # frame[t] => Left(t, i) = frames[t][i]
         /\ Left(t, frame[t]).start = frames[t][frame[t]].start + used[t] + 1
         /\ Left(t, frame[t]).size = frames[t][frame[t]].size - used[t] - 1
         /\ \A i \in frame[t] .. Len(frames[t]) : Left(t, i) \in Extents
<1>1. frames[t] \in Seq(Runs)
  BY DEF CacheInv, TypeOK
<1>2. /\ frame[t] \in 1 .. Len(frames[t]) /\ Len(frames[t]) \in Nat
      /\ DOMAIN frames[t] = 1 .. Len(frames[t])
      /\ \A i \in 1 .. Len(frames[t]) : /\ frames[t][i] \in Runs /\ frames[t][i].start \in Nat
                                        /\ frames[t][i].size \in Nat \ {0}
  <2>1. /\ Len(frames[t]) \in Nat /\ DOMAIN frames[t] = 1 .. Len(frames[t])
        /\ \A i \in 1 .. Len(frames[t]) : /\ frames[t][i] \in Runs
                                          /\ frames[t][i].start \in Objects
                                          /\ frames[t][i].size \in Nat
    BY <1>1, RunsOf
  <2>2. /\ frame[t] \in 1 .. Len(frames[t])
        /\ \A i \in DOMAIN frames[t] : frames[t][i].size > 0
    BY DEF CacheInv, FrameInv
  <2>3. Objects \subseteq Nat
    BY RunsTyped
  <2>4. ASSUME NEW i \in 1 .. Len(frames[t])
        PROVE  /\ frames[t][i] \in Runs /\ frames[t][i].start \in Nat
               /\ frames[t][i].size \in Nat \ {0}
    <3>1. frames[t][i].size > 0 /\ frames[t][i].size \in Nat
      BY <2>1, <2>2
    <3>2. frames[t][i] \in Runs /\ frames[t][i].start \in Nat
      BY <2>1, <2>3, Zenon
    <3>3. PICK n : n = frames[t][i].size
      OBVIOUS
    <3>4. n \in Nat \ {0}
      BY <3>1, <3>3
    <3>. QED  BY <3>2, <3>3, <3>4, Zenon
  <2>. QED  BY <2>1, <2>2, <2>4
<1>3. used[t] \in Int /\ used[t] >= -1 /\ used[t] < frames[t][frame[t]].size
  <2>1. used[t] \in -1 .. frames[t][frame[t]].size - 1 /\ frames[t][frame[t]].size \in Nat
    BY <1>2 DEF CacheInv, FrameInv
  <2>. QED  BY <2>1
<1>4. \A i \in 1 .. Len(frames[t]) : i # frame[t] => Left(t, i) = frames[t][i]
  BY DEF Left
<1>5. /\ Left(t, frame[t]).start = frames[t][frame[t]].start + used[t] + 1
      /\ Left(t, frame[t]).size = frames[t][frame[t]].size - used[t] - 1
      /\ Left(t, frame[t]) = [start |-> frames[t][frame[t]].start + used[t] + 1,
                              size |-> frames[t][frame[t]].size - used[t] - 1]
  BY DEF Left, Run
<1>6. ASSUME NEW i \in frame[t] .. Len(frames[t]) PROVE Left(t, i) \in Extents
  <2>1. CASE i = frame[t]
    <3>1. /\ frames[t][frame[t]].start + used[t] + 1 \in Nat
          /\ frames[t][frame[t]].size - used[t] - 1 \in Nat
      <4>1. PICK a \in Nat, b \in Nat, c \in Int :
              /\ a = frames[t][frame[t]].start /\ b = frames[t][frame[t]].size /\ c = used[t]
              /\ c >= -1 /\ c < b
        BY <1>2, <1>3
      <4>2. a + c + 1 \in Nat /\ b - c - 1 \in Nat
        <5>1. c >= -1 /\ c < b
          BY <4>1
        <5>. HIDE <4>1
        <5>. QED  BY <5>1
      <4>3. /\ frames[t][frame[t]].start + used[t] + 1 = a + c + 1
            /\ frames[t][frame[t]].size - used[t] - 1 = b - c - 1
        BY <4>1, Zenon
      <4>. QED  BY <4>2, <4>3, Zenon
    <3>. QED  BY <1>5, <2>1, <3>1 DEF Extents
  <2>2. CASE i # frame[t]
    <3>1. i \in 1 .. Len(frames[t])
      BY <1>2
    <3>. QED  BY <1>2, <1>4, <2>2, <3>1, RunsTyped
  <2>. QED  BY <2>1, <2>2
<1>. QED  BY <1>1, <1>2, <1>3, <1>4, <1>5, <1>6

\* What CacheInv says of the mark, the debris and the frames, as one fact about the runs
\* that are still to be handed out.
LEMMA LeftsSound ==
  ASSUME CacheInv
  PROVE  Sound(Fresh, handed, debris, Lefts)
<1>1. Fresh \in 0 .. PageNum * PageSize
  BY Marks DEF CacheInv, FrameInv
<1>2. \A p \in Held : Left(p[1], p[2]) \in Extents
  BY HeldIs, LeftsAre
<1>3. Places(Fresh, handed, debris, Lefts)
  BY DEF CacheInv, PlaceInv, Lefts
<1>4. Typed(Fresh, handed, debris, Lefts)
  BY <1>1, <1>2 DEF Typed, Lefts, CacheInv, TypeOK
<1>. QED  BY <1>3, <1>4 DEF Sound

\* What the next state has to keep.
LEMMA Kept ==
  ASSUME TypeOK', FramesFit', FrameInv', Sound(Fresh', handed', debris', Lefts'), HandedOnce'
  PROVE  CacheInv'
BY DEF CacheInv, PlaceInv, Sound, Lefts

\* What an action of thread t leaves to the other threads.
LEMMA Others ==
  ASSUME NEW t,
         \A u \in Threads : u # t => /\ pc'[u] = pc[u] /\ frames'[u] = frames[u]
                                     /\ frame'[u] = frame[u] /\ used'[u] = used[u]
  PROVE  \A p : p[1] # t => /\ p \in Held' <=> p \in Held
                            /\ p \in Held => Lefts'[p] = Lefts[p]
<1>1. ASSUME NEW p, p[1] # t PROVE p \in Held' <=> p \in Held
  <2>1. \A u, i : u # t => (<<u, i>> \in Held' <=> <<u, i>> \in Held)
    BY HeldIs, HeldIsNext
  <2>2. p \in Held \/ p \in Held' => p = <<p[1], p[2]>>
    BY HeldIs, HeldIsNext
  <2>. QED  BY <1>1, <2>1, <2>2
<1>2. ASSUME NEW p, p[1] # t, p \in Held PROVE Lefts'[p] = Lefts[p]
  <2>1. p[1] \in Threads
    BY <1>2 DEF Held
  <2>2. Left(p[1], p[2])' = Left(p[1], p[2])
    BY <1>2, <2>1 DEF Left
  <2>. QED  BY <1>1, <1>2, <2>2 DEF Lefts
<1>. QED  BY <1>1, <1>2

\* A thread may take objects from frames f, at object m of frame n.
Usable(f, n, m) ==
  n \in 1 .. Len(f) /\ m \in -1 .. f[n].size - 1 /\ \A i \in DOMAIN f : f[i].size > 0

\* The step puts thread t there.
Moves(t, c, f, n, m) ==
  /\ pc' = [pc EXCEPT ![t] = c]
  /\ frames' = [frames EXCEPT ![t] = f]
  /\ frame' = [frame EXCEPT ![t] = n]
  /\ used' = [used EXCEPT ![t] = m]

\* Where thread t stands after an action of its own.
LEMMA Stands ==
  ASSUME CacheInv, NEW t \in Threads, NEW c, NEW f, NEW n, NEW m,
         page' \in 0 .. PageNum - 1, place' \in 0 .. PageSize, debris' \in Seq(Runs),
         debris_mode' \in BOOLEAN, handed' \in [Objects -> Nat],
         Moves(t, c, f, n, m),
         c \in {"live", "ended", "exit"}, f \in Seq(Runs), Len(f) <= FrameNum,
         n \in Nat, m \in Int, c = "live" => Usable(f, n, m)
  PROVE  TypeOK' /\ FramesFit' /\ FrameInv'
<1>1. /\ pc \in [Threads -> {"none", "live", "ended", "exit"}]
      /\ frames \in [Threads -> Seq(Runs)]
      /\ frame \in [Threads -> Nat]
      /\ used \in [Threads -> Int]
  BY DEF CacheInv, TypeOK
<1>. USE DEF Moves
<1>2. TypeOK'
  <2>1. page' \in 0 .. PageNum
    BY SizesAssumption
  <2>. QED  BY <1>1, <2>1 DEF TypeOK
<1>3. /\ pc'[t] = c /\ frames'[t] = f /\ frame'[t] = n /\ used'[t] = m
      /\ \A u \in Threads : u # t => /\ pc'[u] = pc[u] /\ frames'[u] = frames[u]
                                     /\ frame'[u] = frame[u] /\ used'[u] = used[u]
  BY <1>1
<1>4. FramesFit'
  <2>1. \A u \in Threads : Len(frames[u]) <= FrameNum
    BY DEF CacheInv, FramesFit
  <2>2. ASSUME NEW u \in Threads PROVE Len(frames'[u]) <= FrameNum
    <3>1. CASE u = t
      BY <1>3, <3>1
    <3>2. CASE u # t
      BY <1>3, <2>1, <3>2
    <3>. QED  BY <3>1, <3>2
  <2>3. FrameNum' = FrameNum
    BY DEF FrameNum
  <2>. QED  BY <2>2, <2>3 DEF FramesFit
<1>5. FrameInv'
  <2>1. ASSUME NEW u \in Threads
        PROVE  /\ pc'[u] = "none" => frame'[u] = 1 /\ used'[u] = -1
               /\ pc'[u] = "live" =>
                    /\ frame'[u] \in 1 .. Len(frames'[u])
                    /\ used'[u] \in -1 .. frames'[u][frame'[u]].size - 1
                    /\ \A i \in DOMAIN frames'[u] : frames'[u][i].size > 0
    <3>1. CASE u = t
      BY <1>3, <3>1 DEF Usable
    <3>2. CASE u # t
      BY <1>3, <3>2 DEF CacheInv, FrameInv
    <3>. QED  BY <3>1, <3>2
  <2>2. page' < PageNum
    BY SizesAssumption
  <2>. QED  BY <2>1, <2>2 DEF FrameInv
<1>. QED  BY <1>2, <1>4, <1>5

\* A thread's first frames.
LEMMA CreateKeeps ==
  ASSUME CacheInv, NEW t \in Threads, Create(t)
  PROVE  CacheInv'
<1>1. /\ pc[t] = "none" /\ frame[t] = 1 /\ used[t] = -1
      /\ pc' = [pc EXCEPT ![t] = "live"] /\ frame' = frame /\ used' = used /\ handed' = handed
      /\ ~ RefillFails /\ Refill(t)
  BY DEF Create, CacheInv, FrameInv
<1>2. Sound(Fresh, handed, debris, Lefts)
  BY LeftsSound
<1>3. PICK f : f = frames'[t]
  OBVIOUS
<1>4. PICK wider : wider = [q \in DOMAIN Lefts \cup ({t} \X (1 .. Len(f))) |->
                              IF q[1] = t THEN f[q[2]] ELSE Lefts[q]]
  OBVIOUS
<1>5. \A q \in DOMAIN Lefts : q[1] # t
  BY <1>1, HeldIs DEF Lefts
<1>6. Extended(Lefts, t, f, wider)
  BY <1>4, <1>5 DEF Extended
<1>7. /\ page' \in 0 .. PageNum - 1 /\ place' \in 0 .. PageSize /\ debris_mode' \in BOOLEAN
      /\ frames' = [frames EXCEPT ![t] = f]
      /\ f \in Seq(Runs) /\ Len(f) \in 1 .. FrameNum
      /\ \A i \in DOMAIN f : f[i].size > 0
      /\ Sound(Fresh', handed, debris', wider)
  BY <1>1, <1>2, <1>3, <1>6, RefillPlaces
<1>8. frame' = [frame EXCEPT ![t] = 1] /\ used' = [used EXCEPT ![t] = -1]
  BY <1>1 DEF CacheInv, TypeOK
<1>9. TypeOK' /\ FramesFit' /\ FrameInv'
  <2>1. debris' \in Seq(Runs) /\ handed' \in [Objects -> Nat] /\ Len(f) <= FrameNum
    BY <1>1, <1>7 DEF Sound, Typed
  <2>2. Usable(f, 1, -1)
    <3>1. 1 \in DOMAIN f /\ f[1].size \in Nat /\ 1 \in 1 .. Len(f)
      BY <1>7, RunsOf
    <3>. QED  BY <1>7, <3>1 DEF Usable
  <2>3. Moves(t, "live", f, 1, -1)
    BY <1>1, <1>7, <1>8 DEF Moves
  <2>. QED  BY <1>7, <2>1, <2>2, <2>3, Stands
<1>10. pc'[t] = "live" /\ frame'[t] = 1 /\ used'[t] = -1 /\ frames'[t] = f
  BY <1>1, <1>3 DEF CacheInv, TypeOK
<1>11. \A u \in Threads : u # t => /\ pc'[u] = pc[u] /\ frames'[u] = frames[u]
                                   /\ frame'[u] = frame[u] /\ used'[u] = used[u]
  BY <1>1, <1>7 DEF CacheInv, TypeOK
<1>12. DOMAIN Lefts = Held /\ DOMAIN Lefts' = Held'
  BY DEF Lefts
<1>13. DOMAIN Lefts' \subseteq DOMAIN wider
  <2>1. ASSUME NEW p \in Held' PROVE p \in DOMAIN wider
    <3>1. CASE p[1] = t
      <4>1. p = <<t, p[2]>> /\ p[2] \in 1 .. Len(f)
        BY <1>10, <3>1, HeldIsNext
      <4>. QED  BY <1>4, <4>1
    <3>2. CASE p[1] # t
      BY <1>4, <1>11, <1>12, <3>2, Others
    <3>. QED  BY <3>1, <3>2
  <2>. QED  BY <1>12, <2>1
<1>14. ASSUME NEW p \in DOMAIN Lefts' PROVE Lefts'[p] = wider[p]
  <2>1. CASE p[1] = t
    <3>1. p = <<t, p[2]>> /\ p[2] \in 1 .. Len(f)
      BY <1>10, <1>12, <2>1, HeldIsNext
    <3>2. Left(p[1], p[2])' = f[p[2]]
      <4>1. f[1] = [start |-> f[1].start, size |-> f[1].size]
            /\ f[1].start \in Nat /\ f[1].size \in Nat
        <5>1. f[1] \in Runs
          BY <1>7, RunsOf
        <5>. QED  BY <5>1, RunsTyped DEF Extents
      <4>2. Run(f[1].start + (-1) + 1, f[1].size - (-1) - 1) = f[1]
        <5>1. f[1].start + (-1) + 1 = f[1].start /\ f[1].size - (-1) - 1 = f[1].size
          BY <4>1
        <5>. QED  BY <4>1, <5>1 DEF Run
      <4>. QED  BY <1>10, <2>1, <4>2 DEF Left
    <3>. QED  BY <1>4, <1>12, <1>13, <2>1, <3>2 DEF Lefts
  <2>2. CASE p[1] # t
    <3>1. p \in Held /\ Lefts'[p] = Lefts[p]
      BY <1>11, <1>12, <2>2, Others
    <3>. QED  BY <1>4, <1>12, <2>2, <3>1
  <2>. QED  BY <2>1, <2>2
<1>15. Sound(Fresh', handed', debris', Lefts')
  <2>1. Fresh' \in 0 .. PageNum * PageSize /\ Fresh' <= Fresh'
    BY <1>7, RunsTyped DEF Sound, Typed
  <2>. QED  BY <1>1, <1>7, <1>13, <1>14, <2>1, PlacesFewer DEF Sound
<1>16. HandedOnce'
  BY <1>1 DEF CacheInv, HandedOnce
<1>. QED  BY <1>9, <1>15, <1>16, Kept

\* An object handed out from frame n, where m of the frame were used before.
LEMMA TakeKeeps ==
  ASSUME CacheInv, NEW t \in Threads, pc[t] = "live", NEW n, NEW m, NEW o,
         Moves(t, "live", frames[t], n, m), UNCHANGED pool, HandOut(o),
         n \in frame[t] .. Len(frames[t]), m \in 0 .. frames[t][n].size - 1,
         o = frames[t][n].start + m, o = Left(t, n).start,
         Left(t, n).size = frames[t][n].size - m
  PROVE  CacheInv'
<1>1. /\ frame[t] \in 1 .. Len(frames[t]) /\ Len(frames[t]) \in Nat
      /\ frames[t] \in Seq(Runs) /\ DOMAIN frames[t] = 1 .. Len(frames[t])
      /\ \A i \in 1 .. Len(frames[t]) : i # frame[t] => Left(t, i) = frames[t][i]
      /\ \A i \in 1 .. Len(frames[t]) : /\ frames[t][i] \in Runs
                                        /\ frames[t][i].start \in Nat
                                        /\ frames[t][i].size \in Nat \ {0}
  BY LeftsAre
<1>2. n \in 1 .. Len(frames[t]) /\ n \in Nat /\ m \in Nat
  BY <1>1
<1>3. /\ page' = page /\ place' = place /\ debris' = debris /\ debris_mode' = debris_mode
      /\ Fresh' = Fresh
  BY DEF pool, Fresh
<1>4. /\ pc'[t] = "live" /\ frames'[t] = frames[t] /\ frame'[t] = n /\ used'[t] = m
      /\ \A u \in Threads : u # t => /\ pc'[u] = pc[u] /\ frames'[u] = frames[u]
                                     /\ frame'[u] = frame[u] /\ used'[u] = used[u]
  BY DEF CacheInv, TypeOK, Moves
<1>5. Sound(Fresh, handed, debris, Lefts)
  BY LeftsSound
<1>. DEFINE p == <<t, n>>
<1>6. DOMAIN Lefts = Held /\ DOMAIN Lefts' = Held' /\ p \in Held /\ Lefts[p] = Left(t, n)
  <2>1. p \in Held
    BY HeldIs
  <2>. QED  BY <2>1 DEF Lefts
<1>7. \A q \in Held' : /\ q \in Held
                       /\ q # p => Lefts'[q] = Lefts[q]
                       /\ q = p => Lefts'[q] = Run(Left(t, n).start + 1, Left(t, n).size - 1)
  <2>1. SUFFICES ASSUME NEW q \in Held'
                 PROVE  /\ q \in Held
                        /\ q # p => Lefts'[q] = Lefts[q]
                        /\ q = p => Lefts'[q] = Run(Left(t, n).start + 1, Left(t, n).size - 1)
    OBVIOUS
  <2>2. CASE q[1] # t
    <3>0. \A u \in Threads : u # t => /\ pc'[u] = pc[u] /\ frames'[u] = frames[u]
                                      /\ frame'[u] = frame[u] /\ used'[u] = used[u]
      BY <1>4
    <3>1. \A x : x[1] # t => /\ x \in Held' <=> x \in Held
                             /\ x \in Held => Lefts'[x] = Lefts[x]
      BY <3>0, Others
    <3>2. q \in Held /\ Lefts'[q] = Lefts[q]
      BY <2>2, <3>1
    <3>. QED  BY <2>2, <3>2
  <2>3. CASE q[1] = t
    <3>1. q = <<t, q[2]>> /\ q[2] \in n .. Len(frames[t])
      BY <1>4, <2>3, HeldIsNext
    <3>2. q[2] \in frame[t] .. Len(frames[t]) /\ q[2] \in 1 .. Len(frames[t])
      BY <1>1, <1>2, <3>1
    <3>3. q \in Held
      BY <3>1, <3>2, HeldIs
    <3>4. Lefts'[q] = Left(t, q[2])' /\ Lefts[q] = Left(t, q[2])
      BY <2>3, <3>3 DEF Lefts
    <3>5. CASE q[2] = n
      <4>1. Left(t, n)' = Run(frames[t][n].start + m + 1, frames[t][n].size - m - 1)
        BY <1>4 DEF Left
      <4>. QED  BY <3>1, <3>3, <3>4, <3>5, <4>1
    <3>6. CASE q[2] # n
      <4>1. q[2] # frame[t]
        BY <1>1, <1>2, <3>1, <3>6
      <4>2. Left(t, q[2]) = frames[t][q[2]]
        BY <1>1, <3>2, <4>1
      <4>3. Left(t, q[2])' = frames[t][q[2]]
        BY <1>4, <3>6 DEF Left
      <4>. QED  BY <3>1, <3>3, <3>4, <3>6, <4>2, <4>3
    <3>. QED  BY <3>5, <3>6
  <2>. QED  BY <2>2, <2>3
<1>8. Left(t, n).size > 0
  BY <1>1, <1>2
<1>. HIDE DEF p
<1>9. /\ Typed(Fresh, handed', debris, Lefts') /\ Places(Fresh, handed', debris, Lefts')
      /\ (\A x \in Objects : handed[x] <= 1) => \A x \in Objects : handed'[x] <= 1
  <2>1. Typed(Fresh, handed, debris, Lefts) /\ Places(Fresh, handed, debris, Lefts)
    BY <1>5 DEF Sound
  <2>2. /\ p \in DOMAIN Lefts /\ Lefts[p].size > 0 /\ o = Lefts[p].start
        /\ DOMAIN Lefts' \subseteq DOMAIN Lefts
        /\ \A q \in DOMAIN Lefts' :
             Lefts'[q] = IF q = p THEN Run(Lefts[p].start + 1, Lefts[p].size - 1) ELSE Lefts[q]
    BY <1>6, <1>7, <1>8
  <2>3. PICK less, out : less = Lefts' /\ out = handed'
    OBVIOUS
  <2>4. Taken(handed, Lefts, p, o, out, less)
    BY <2>2, <2>3 DEF HandOut, Taken
  <2>5. /\ Typed(Fresh, out, debris, less) /\ Places(Fresh, out, debris, less)
        /\ (\A x \in Objects : handed[x] <= 1) => \A x \in Objects : out[x] <= 1
    BY <2>1, <2>4, PlacesTake
  <2>. QED  BY <2>3, <2>5
<1>10. HandedOnce'
  BY <1>9 DEF CacheInv, HandedOnce
<1>11. TypeOK' /\ FramesFit' /\ FrameInv'
  <2>1. /\ page' \in 0 .. PageNum - 1 /\ place' \in 0 .. PageSize /\ debris' \in Seq(Runs)
        /\ debris_mode' \in BOOLEAN /\ handed' \in [Objects -> Nat]
        /\ Len(frames[t]) <= FrameNum
    BY <1>3, <1>9, SizesAssumption DEF CacheInv, TypeOK, FrameInv, FramesFit, Typed
  <2>2. Usable(frames[t], n, m)
    BY <1>1, <1>2 DEF Usable
  <2>3. m \in Int
    OBVIOUS
  <2>. QED  BY <1>1, <1>2, <2>1, <2>2, <2>3, Stands
<1>12. Sound(Fresh', handed', debris', Lefts')
  BY <1>3, <1>9 DEF Sound
<1>. QED  BY <1>10, <1>11, <1>12, Kept

\* The next object of the frame in use.
LEMMA NextInFrameKeeps ==
  ASSUME CacheInv, NEW t \in Threads, NextInFrame(t)
  PROVE  CacheInv'
<1>1. /\ pc[t] = "live" /\ InFrame(t) /\ UNCHANGED <<pool, pc, frames, frame>>
      /\ used' = [used EXCEPT ![t] = used[t] + 1]
      /\ HandOut(frames[t][frame[t]].start + used'[t])
  BY DEF NextInFrame
<1>. DEFINE n == frame[t]
            r == frames[t][n]
<1>2. /\ n \in 1 .. Len(frames[t]) /\ Len(frames[t]) \in Nat
      /\ DOMAIN frames[t] = 1 .. Len(frames[t])
      /\ r.start \in Nat /\ r.size \in Nat \ {0} /\ used[t] \in Int /\ used[t] >= -1
      /\ Left(t, n).start = r.start + used[t] + 1 /\ Left(t, n).size = r.size - used[t] - 1
  BY <1>1, LeftsAre
<1>3. used[t] + 1 < r.size
  BY <1>1, <1>2 DEF InFrame, FrameSize
<1>4. PICK m : m = used[t] + 1
  OBVIOUS
<1>5. Moves(t, "live", frames[t], n, m) /\ used'[t] = m
  BY <1>1, <1>4 DEF Moves, CacheInv, TypeOK
<1>6. PICK o : o = r.start + m
  OBVIOUS
<1>7. HandOut(o) /\ UNCHANGED pool
  BY <1>1, <1>5, <1>6
<1>. HIDE DEF n, r
<1>8. /\ m \in 0 .. r.size - 1 /\ n \in n .. Len(frames[t])
      /\ o = Left(t, n).start /\ Left(t, n).size = r.size - m
  <2>1. PICK a \in Nat, b \in Nat, c \in Int : a = r.start /\ b = r.size /\ c = used[t]
    BY <1>2
  <2>2. /\ c >= -1 /\ c + 1 < b /\ m = c + 1 /\ o = a + m
        /\ Left(t, n).start = a + c + 1 /\ Left(t, n).size = b - c - 1
    BY <1>2, <1>3, <1>4, <1>6, <2>1
  <2>3. m \in 0 .. b - 1 /\ o = Left(t, n).start /\ Left(t, n).size = b - m
    BY <2>2
  <2>. QED  BY <1>2, <2>1, <2>3
<1>. QED  BY <1>1, <1>5, <1>6, <1>7, <1>8, TakeKeeps DEF n, r

\* The first object of the next frame.
LEMMA NextFrameKeeps ==
  ASSUME CacheInv, NEW t \in Threads, NextFrame(t)
  PROVE  CacheInv'
<1>1. /\ pc[t] = "live" /\ UNCHANGED <<pool, pc, frames>>
      /\ FrameSize(t, frame[t] + 1) # 0
      /\ frame' = [frame EXCEPT ![t] = frame[t] + 1] /\ used' = [used EXCEPT ![t] = 0]
      /\ HandOut(frames[t][frame'[t]].start)
  BY DEF NextFrame
<1>2. PICK n : n = frame[t] + 1
  OBVIOUS
<1>3. /\ frame[t] \in 1 .. Len(frames[t]) /\ Len(frames[t]) \in Nat
      /\ DOMAIN frames[t] = 1 .. Len(frames[t])
      /\ \A i \in 1 .. Len(frames[t]) : /\ frames[t][i].start \in Nat
                                        /\ frames[t][i].size \in Nat \ {0}
      /\ \A i \in 1 .. Len(frames[t]) : i # frame[t] => Left(t, i) = frames[t][i]
  BY <1>1, LeftsAre
<1>4. n \in 1 .. Len(frames[t])
  BY <1>1, <1>2, <1>3 DEF FrameSize
<1>5. n # frame[t] /\ n \in frame[t] .. Len(frames[t])
  BY <1>2, <1>3, <1>4
<1>6. Moves(t, "live", frames[t], n, 0) /\ frame'[t] = n
  BY <1>1, <1>2 DEF Moves, CacheInv, TypeOK
<1>. DEFINE r == frames[t][n]
<1>7. PICK o : o = r.start
  OBVIOUS
<1>8. HandOut(o) /\ UNCHANGED pool
  BY <1>1, <1>6, <1>7
<1>9. Left(t, n) = r /\ r.start \in Nat /\ r.size \in Nat \ {0}
  BY <1>3, <1>4, <1>5
<1>. HIDE DEF r
<1>10. 0 \in 0 .. r.size - 1 /\ o = r.start + 0 /\ o = Left(t, n).start
       /\ Left(t, n).size = r.size - 0
  BY <1>7, <1>9
<1>. QED  BY <1>1, <1>5, <1>6, <1>8, <1>10, TakeKeeps DEF r

\* The first object of new frames.
LEMMA NextAfterRefillKeeps ==
  ASSUME CacheInv, NEW t \in Threads, NextAfterRefill(t)
  PROVE  CacheInv'
<1>1. /\ pc[t] = "live" /\ ~ RefillFails /\ Refill(t) /\ pc' = pc
      /\ frame' = [frame EXCEPT ![t] = 1] /\ used' = [used EXCEPT ![t] = 0]
      /\ HandOut(frames'[t][1].start)
  BY DEF NextAfterRefill
<1>2. Sound(Fresh, handed, debris, Lefts)
  BY LeftsSound
<1>3. PICK f : f = frames'[t]
  OBVIOUS
<1>4. PICK left : left = [q \in {x \in Held : x[1] # t} |-> Lefts[q]]
  OBVIOUS
<1>5. PICK wider : wider = [q \in DOMAIN left \cup ({t} \X (1 .. Len(f))) |->
                              IF q[1] = t THEN f[q[2]] ELSE left[q]]
  OBVIOUS
<1>6. Extended(left, t, f, wider)
  BY <1>4, <1>5 DEF Extended
<1>7. Sound(Fresh, handed, debris, left)
  <2>1. DOMAIN left \subseteq DOMAIN Lefts /\ \A p \in DOMAIN left : left[p] = Lefts[p]
    BY <1>4 DEF Lefts
  <2>2. Fresh \in 0 .. PageNum * PageSize /\ Fresh <= Fresh
    BY <1>2, RunsTyped DEF Sound, Typed
  <2>. QED  BY <1>2, <2>1, <2>2, PlacesFewer DEF Sound
<1>8. /\ page' \in 0 .. PageNum - 1 /\ place' \in 0 .. PageSize /\ debris_mode' \in BOOLEAN
      /\ frames' = [frames EXCEPT ![t] = f]
      /\ f \in Seq(Runs) /\ Len(f) \in 1 .. FrameNum
      /\ \A i \in DOMAIN f : f[i].size > 0
      /\ Sound(Fresh', handed, debris', wider)
  BY <1>1, <1>3, <1>6, <1>7, RefillPlaces
<1>9. Moves(t, "live", f, 1, 0)
  BY <1>1, <1>8 DEF CacheInv, TypeOK, Moves
<1>10. /\ pc'[t] = "live" /\ frame'[t] = 1 /\ used'[t] = 0 /\ frames'[t] = f
       /\ \A u \in Threads : u # t => /\ pc'[u] = pc[u] /\ frames'[u] = frames[u]
                                      /\ frame'[u] = frame[u] /\ used'[u] = used[u]
  BY <1>9 DEF CacheInv, TypeOK, Moves
<1>11. \A x : x[1] # t => /\ x \in Held' <=> x \in Held
                          /\ x \in Held => Lefts'[x] = Lefts[x]
  <2>1. \A u \in Threads : u # t => /\ pc'[u] = pc[u] /\ frames'[u] = frames[u]
                                    /\ frame'[u] = frame[u] /\ used'[u] = used[u]
    BY <1>10
  <2>. QED  BY <2>1, Others
<1>12. /\ DOMAIN f = 1 .. Len(f) /\ Len(f) \in Nat /\ 1 \in 1 .. Len(f)
       /\ f[1].size \in Nat \ {0} /\ f[1].start \in Nat
  <2>1. /\ DOMAIN f = 1 .. Len(f) /\ Len(f) \in Nat /\ 1 \in 1 .. Len(f)
    BY <1>8, RunsOf
  <2>2. f[1].size \in Nat /\ f[1].start \in Objects /\ f[1].size > 0
    BY <1>8, <2>1, RunsOf
  <2>3. f[1].start \in Nat
    BY <2>2, RunsTyped
  <2>4. PICK n : n = f[1].size
    OBVIOUS
  <2>5. n \in Nat \ {0}
    BY <2>2, <2>4
  <2>. QED  BY <2>1, <2>3, <2>4, <2>5, Zenon
<1>. DEFINE p == <<t, 1>>
<1>13. DOMAIN Lefts = Held /\ DOMAIN Lefts' = Held'
  BY DEF Lefts
<1>14. p \in DOMAIN wider /\ wider[p] = f[1]
  BY <1>5, <1>12
<1>15. ASSUME NEW q \in Held'
       PROVE  /\ q \in DOMAIN wider
              /\ q # p => Lefts'[q] = wider[q]
              /\ q = p => Lefts'[q] = Run(f[1].start + 1, f[1].size - 1)
  <2>1. CASE q[1] # t
    <3>1. q \in Held /\ Lefts'[q] = Lefts[q]
      BY <1>11, <2>1
    <3>. QED  BY <1>4, <1>5, <2>1, <3>1
  <2>2. CASE q[1] = t
    <3>1. q = <<t, q[2]>> /\ q[2] \in 1 .. Len(f)
      BY <1>10, <2>2, HeldIsNext
    <3>2. q \in DOMAIN wider /\ wider[q] = f[q[2]]
      BY <1>5, <3>1
    <3>3. Lefts'[q] = Left(t, q[2])'
      BY <2>2 DEF Lefts
    <3>4. Left(t, q[2])' = IF q[2] = 1 THEN Run(f[1].start + 0 + 1, f[1].size - 0 - 1)
                           ELSE f[q[2]]
      BY <1>10 DEF Left
    <3>5. f[1].start + 0 + 1 = f[1].start + 1 /\ f[1].size - 0 - 1 = f[1].size - 1
      BY <1>12
    <3>6. q # p => q[2] # 1
      BY <3>1
    <3>. QED  BY <3>1, <3>2, <3>3, <3>4, <3>5, <3>6
  <2>. QED  BY <2>1, <2>2
<1>. HIDE DEF p
<1>16. PICK o : o = f[1].start
  OBVIOUS
<1>17. Taken(handed, wider, p, o, handed', Lefts')
  <2>1. handed' = [handed EXCEPT ![o] = @ + 1]
    BY <1>1, <1>3, <1>16 DEF HandOut
  <2>. QED  BY <1>12, <1>13, <1>14, <1>15, <1>16, <2>1 DEF Taken
<1>18. /\ Typed(Fresh', handed', debris', Lefts') /\ Places(Fresh', handed', debris', Lefts')
       /\ (\A x \in Objects : handed[x] <= 1) => \A x \in Objects : handed'[x] <= 1
  <2>1. Typed(Fresh', handed, debris', wider) /\ Places(Fresh', handed, debris', wider)
    BY <1>8 DEF Sound
  <2>. QED  BY <1>17, <2>1, PlacesTake
<1>19. HandedOnce'
  BY <1>18 DEF CacheInv, HandedOnce
<1>20. TypeOK' /\ FramesFit' /\ FrameInv'
  <2>1. debris' \in Seq(Runs) /\ handed' \in [Objects -> Nat] /\ Len(f) <= FrameNum
    BY <1>8, <1>18 DEF Typed
  <2>2. Usable(f, 1, 0)
    BY <1>8, <1>12 DEF Usable
  <2>. QED  BY <1>8, <1>9, <2>1, <2>2, Stands
<1>. QED  BY <1>18, <1>19, <1>20, Kept DEF Sound

\* The process stops: nothing is handed out any more.
LEMMA ExitKeeps ==
  ASSUME CacheInv, NEW t \in Threads, Exit(t)
  PROVE  CacheInv'
<1>1. /\ pc' = [pc EXCEPT ![t] = "exit"] /\ UNCHANGED <<pool, cache, handed>>
  BY DEF Exit
<1>2. /\ page' = page /\ place' = place /\ debris' = debris /\ debris_mode' = debris_mode
      /\ frames' = frames /\ frame' = frame /\ used' = used /\ handed' = handed /\ Fresh' = Fresh
  BY <1>1 DEF pool, cache, Fresh
<1>3. Moves(t, "exit", frames[t], frame[t], used[t])
  BY <1>1, <1>2 DEF Moves, CacheInv, TypeOK
<1>4. TypeOK' /\ FramesFit' /\ FrameInv'
  <2>1. /\ page' \in 0 .. PageNum - 1 /\ place' \in 0 .. PageSize /\ debris' \in Seq(Runs)
        /\ debris_mode' \in BOOLEAN /\ handed' \in [Objects -> Nat]
        /\ frames[t] \in Seq(Runs) /\ Len(frames[t]) <= FrameNum
        /\ frame[t] \in Nat /\ used[t] \in Int
    BY <1>2, SizesAssumption DEF CacheInv, TypeOK, FrameInv, FramesFit
  <2>2. "exit" \in {"live", "ended", "exit"} /\ "exit" # "live"
    OBVIOUS
  <2>. QED  BY <1>3, <2>1, <2>2, Stands
<1>5. \A x \in Held' : x \in Held /\ Lefts'[x] = Lefts[x]
  <2>1. \A u \in Threads : pc'[u] = "live" => pc[u] = "live"
    BY <1>1 DEF CacheInv, TypeOK
  <2>2. \A x \in Held' : x \in Held
    BY <1>2, <2>1, HeldIs, HeldIsNext
  <2>3. \A x \in Held' : Left(x[1], x[2])' = Left(x[1], x[2])
    BY <1>2 DEF Left
  <2>. QED  BY <2>2, <2>3 DEF Lefts
<1>6. Sound(Fresh', handed', debris', Lefts')
  <2>1. Typed(Fresh, handed, debris, Lefts) /\ Places(Fresh, handed, debris, Lefts)
    BY LeftsSound DEF Sound
  <2>2. DOMAIN Lefts' \subseteq DOMAIN Lefts /\ \A p \in DOMAIN Lefts' : Lefts'[p] = Lefts[p]
    BY <1>5 DEF Lefts
  <2>3. Fresh \in 0 .. PageNum * PageSize /\ Fresh <= Fresh
    BY <2>1, RunsTyped DEF Typed
  <2>4. PICK less : less = Lefts'
    OBVIOUS
  <2>5. Typed(Fresh, handed, debris, less) /\ Places(Fresh, handed, debris, less)
    BY <2>1, <2>2, <2>3, <2>4, PlacesFewer
  <2>. QED  BY <1>2, <2>4, <2>5 DEF Sound
<1>7. HandedOnce'
  BY <1>2 DEF CacheInv, HandedOnce
<1>. QED  BY <1>4, <1>6, <1>7, Kept

\* A step that changes nothing.
LEMMA StutterKeeps ==
  ASSUME CacheInv, UNCHANGED vars
  PROVE  CacheInv'
<1>. USE DEF vars, pool, cache
<1>1. TypeOK' /\ FramesFit' /\ FrameInv' /\ HandedOnce'
  BY DEF CacheInv, TypeOK, FramesFit, FrameInv, HandedOnce
<1>2. Held' = Held /\ Fresh' = Fresh
  BY DEF Held, Fresh
<1>3. \A t, i : Left(t, i)' = Left(t, i)
  BY DEF Left
<1>4. PlaceInv'
  BY <1>2, <1>3 DEF CacheInv, PlaceInv
<1>. QED  BY <1>1, <1>4 DEF CacheInv

\* At the start every object is above the mark and no thread has a cache.
LEMMA Start == Init => CacheInv
<1>1. SUFFICES ASSUME Init PROVE CacheInv
  OBVIOUS
<1>2. TypeOK
  <2>1. \A o \in Objects : 0 \in Nat
    OBVIOUS
  <2>2. <<>> \in Seq(Runs) /\ 1 \in Nat /\ -1 \in Int
    OBVIOUS
  <2>3. page \in 0 .. PageNum /\ place \in 0 .. PageSize /\ debris_mode \in BOOLEAN
    <3>1. 0 \in 0 .. PageNum /\ 0 \in 0 .. PageSize
      BY SizesAssumption
    <3>. QED  BY <1>1, <3>1 DEF Init
  <2>6. debris \in Seq(Runs)
    <3>1. debris = <<>>
      BY <1>1 DEF Init
    <3>. QED  BY <2>2, <3>1
  <2>4. /\ pc \in [Threads -> {"none", "live", "ended", "exit"}]
        /\ frame \in [Threads -> Nat] /\ used \in [Threads -> Int]
        /\ handed \in [Objects -> Nat]
    BY <1>1, <2>2 DEF Init
  <2>5. frames \in [Threads -> Seq(Runs)]
    BY <1>1, <2>2 DEF Init
  <2>. QED  BY <2>3, <2>4, <2>5, <2>6 DEF TypeOK
<1>3. FrameInv
  BY <1>1, SizesAssumption DEF Init, FrameInv
<1>4. FramesFit
  <2>1. FrameNum \in Nat
    <3>1. <<>> \in Seq(Runs) /\ \A i \in DOMAIN <<>> : <<>>[i].size >= DebrisMin
      OBVIOUS
    <3>. QED  BY <3>1, PoppedFit
  <2>2. Len(<<>>) <= FrameNum
    BY <2>1
  <2>3. \A t \in Threads : frames[t] = <<>>
    BY <1>1 DEF Init
  <2>. QED  BY <2>2, <2>3 DEF FramesFit
<1>5. HandedOnce
  BY <1>1 DEF Init, HandedOnce
<1>6. PlaceInv
  <2>1. Held = {}
    BY <1>1 DEF Init, Held
  <2>2. \A i \in DOMAIN debris : FALSE
    BY <1>1 DEF Init
  <2>3. \A o \in Objects : handed[o] = 0
    BY <1>1 DEF Init
  <2>. QED  BY <2>1, <2>2, <2>3 DEF PlaceInv, Places
<1>. QED  BY <1>2, <1>3, <1>4, <1>5, <1>6 DEF CacheInv

\* What is left of the frames of a thread that ends becomes debris, frame after frame.
LEMMA FreeUnusedKeeps ==
  ASSUME CacheInv, NEW t \in Threads, FreeUnused(t)
  PROVE  CacheInv'
<1>. DEFINE m == frame[t]
            n == Len(frames[t])
            Step(g, i) == IF i < m THEN debris ELSE AddDebris(g[i - 1], Left(t, i))
            F == CHOOSE g : g = [i \in m - 1 .. n |-> Step(g, i)]
<1>1. /\ pc[t] = "live" /\ debris' = F[n] /\ frames' = [frames EXCEPT ![t] = <<>>]
      /\ pc' = [pc EXCEPT ![t] = "ended"]
      /\ UNCHANGED <<page, place, debris_mode, frame, used, handed>>
  BY DEF FreeUnused
<1>2. m \in 1 .. n /\ n \in Nat /\ m \in Nat /\ m - 1 \in Nat
  <2>1. m \in 1 .. n /\ n \in Nat
    BY <1>1, LeftsAre
  <2>. QED  BY <2>1
<1>3. F = [i \in m - 1 .. n |-> Step(F, i)]
  <2>. DEFINE Made(e) == \E g : g = [i \in m - 1 .. e |-> Step(g, i)]
              S == {k \in Nat : m - 1 + k <= n => Made(m - 1 + k)}
  <2>1. 0 \in S
    <3>. DEFINE g == [i \in m - 1 .. m - 1 |-> debris]
    <3>1. g = [i \in m - 1 .. m - 1 |-> Step(g, i)]
      BY <1>2
    <3>2. Made(m - 1)
      BY <3>1
    <3>. HIDE DEF Made
    <3>. QED  BY <1>2, <3>2
  <2>2. ASSUME NEW k \in Nat, k \in S PROVE k + 1 \in S
    <3>1. SUFFICES ASSUME m - 1 + (k + 1) <= n PROVE Made(m - 1 + (k + 1))
      OBVIOUS
    <3>2. PICK e : e = m - 1 + k
      OBVIOUS
    <3>3. e \in Nat /\ e >= m - 1 /\ m - 1 + (k + 1) = e + 1 /\ e + 1 >= m
      BY <1>2, <3>2
    <3>4. PICK g : g = [i \in m - 1 .. e |-> Step(g, i)]
      <4>1. Made(m - 1 + k)
        <5>. HIDE DEF Made
        <5>. QED  BY <1>2, <2>2, <3>1
      <4>. QED  BY <3>2, <4>1
    <3>. DEFINE h == [i \in m - 1 .. e + 1 |-> Step(g, i)]
    <3>5. \A i \in m - 1 .. e : h[i] = g[i]
      <4>1. \A i \in m - 1 .. e : i \in m - 1 .. e + 1
        BY <1>2, <3>3
      <4>2. \A i \in m - 1 .. e : g[i] = Step(g, i)
        <5>. HIDE DEF Step
        <5>. QED  BY <3>4, Zenon
      <4>. HIDE DEF Step
      <4>. QED  BY <4>1, <4>2
    <3>6. ASSUME NEW i \in m - 1 .. e + 1 PROVE Step(h, i) = Step(g, i)
      <4>1. CASE i < m
        BY <4>1
      <4>2. CASE ~ (i < m)
        <5>1. i - 1 \in m - 1 .. e
          BY <1>2, <3>3, <4>2
        <5>2. h[i - 1] = g[i - 1]
          BY <3>5, <5>1
        <5>. HIDE DEF h
        <5>. QED  BY <4>2, <5>2
      <4>. QED  BY <4>1, <4>2
    <3>7. h = [i \in m - 1 .. e + 1 |-> Step(h, i)]
      <4>1. \A i \in m - 1 .. e + 1 : Step(g, i) = Step(h, i)
        BY <3>6
      <4>2. [i \in m - 1 .. e + 1 |-> Step(g, i)] = [i \in m - 1 .. e + 1 |-> Step(h, i)]
        <5>. HIDE DEF Step, h
        <5>. QED  BY <4>1
      <4>. QED  BY <4>2
    <3>8. Made(e + 1)
      <4>. HIDE DEF h, Step
      <4>. QED  BY <3>7
    <3>. QED  BY <3>3, <3>8
  <2>3. Nat \subseteq S
    <3>. HIDE DEF S
    <3>. QED  BY <2>1, <2>2, SetInduction
  <2>4. n - (m - 1) \in Nat /\ m - 1 + (n - (m - 1)) = n
    BY <1>2
  <2>5. Made(n)
    <3>1. n - (m - 1) \in S
      BY <2>3, <2>4
    <3>2. Made(m - 1 + (n - (m - 1)))
      <4>. HIDE DEF Made
      <4>. QED  BY <1>2, <2>4, <3>1
    <3>. QED  BY <2>4, <3>2
  <2>. QED  BY <2>5
<1>. DEFINE Rest(e) == [p \in {x \in Held : x[1] # t \/ x[2] > e} |-> Lefts[p]]
            T == {k \in Nat : m - 1 + k <= n => Sound(Fresh, handed, F[m - 1 + k], Rest(m - 1 + k))}
<1>4. F[m - 1] = debris /\ \A i \in m .. n : F[i] = AddDebris(F[i - 1], Left(t, i))
  <2>. HIDE DEF F
  <2>1. m - 1 \in m - 1 .. n /\ \A i \in m .. n : i \in m - 1 .. n /\ ~ (i < m)
    BY <1>2
  <2>2. \A i \in m - 1 .. n : F[i] = Step(F, i)
    <3>. HIDE DEF Step
    <3>. QED  BY <1>3, Zenon
  <2>3. m - 1 < m
    BY <1>2
  <2>. QED  BY <2>1, <2>2, <2>3
<1>. HIDE DEF F
<1>5. Sound(Fresh, handed, debris, Lefts) /\ DOMAIN Lefts = Held
  BY LeftsSound DEF Lefts
<1>6. 0 \in T
  <2>1. \A x \in Held : x[1] = t => x[2] > m - 1
    <3>1. ASSUME NEW x \in Held, x[1] = t PROVE x[2] > m - 1
      <4>1. x[2] \in m .. n
        BY <3>1, HeldIs
      <4>. QED  BY <1>2, <4>1
    <3>. QED  BY <3>1
  <2>2. {x \in Held : x[1] # t \/ x[2] > m - 1} = Held
    BY <2>1
  <2>3. Rest(m - 1) = Lefts
    BY <2>2 DEF Lefts
  <2>. HIDE DEF Rest
  <2>. QED  BY <1>2, <1>4, <1>5, <2>3
<1>7. ASSUME NEW k \in Nat, k \in T PROVE k + 1 \in T
  <2>1. SUFFICES ASSUME m - 1 + (k + 1) <= n
                 PROVE  Sound(Fresh, handed, F[m - 1 + (k + 1)], Rest(m - 1 + (k + 1)))
    OBVIOUS
  <2>2. PICK e : e = m - 1 + k
    OBVIOUS
  <2>3. /\ e \in Nat /\ m - 1 + (k + 1) = e + 1 /\ e + 1 \in m .. n /\ (e + 1) - 1 = e
        /\ m - 1 + k <= n
    <3>. HIDE DEF m, n
    <3>1. PICK a \in Nat, b \in Nat : a = m /\ b = n
      BY <1>2
    <3>2. a >= 1 /\ e = a - 1 + k /\ a - 1 + (k + 1) <= b
      BY <1>2, <2>1, <2>2, <3>1
    <3>3. e \in Nat /\ a - 1 + (k + 1) = e + 1 /\ e + 1 \in a .. b /\ (e + 1) - 1 = e
          /\ a - 1 + k <= b
      BY <3>2
    <3>. QED  BY <3>1, <3>3
  <2>4. Sound(Fresh, handed, F[e], Rest(e))
    <3>. HIDE DEF Rest
    <3>. QED  BY <1>7, <2>2, <2>3
  <2>5. F[e + 1] = AddDebris(F[e], Left(t, e + 1))
    BY <1>4, <2>3
  <2>. DEFINE p == <<t, e + 1>>
  <2>6. p \in Held /\ Lefts[p] = Left(t, e + 1)
    <3>1. p \in Held
      BY <1>1, <2>3, HeldIs
    <3>. QED  BY <3>1 DEF Lefts
  <2>7. \A x \in Held : x[1] # t \/ (x = <<t, x[2]>> /\ x[2] \in m .. n)
    BY HeldIs
  <2>8. /\ p \in DOMAIN Rest(e) /\ Rest(e)[p] = Left(t, e + 1)
    BY <2>3, <2>6
  <2>9. \A x \in Held : (x[1] # t \/ x[2] > e + 1) <=> ((x[1] # t \/ x[2] > e) /\ x # p)
    <3>1. ASSUME NEW x \in Held, x[1] = t PROVE x[2] > e + 1 <=> (x[2] > e /\ x # p)
      <4>1. x = <<t, x[2]>> /\ x[2] \in m .. n
        BY <2>7, <3>1
      <4>2. x # p <=> x[2] # e + 1
        BY <4>1
      <4>. HIDE DEF p
      <4>. QED  BY <1>2, <2>3, <4>1, <4>2
    <3>2. ASSUME NEW x \in Held, x[1] # t PROVE x # p
      BY <3>2
    <3>. HIDE DEF p
    <3>. QED  BY <3>1, <3>2
  <2>10. DOMAIN Rest(e + 1) = DOMAIN Rest(e) \ {p}
    <3>. HIDE DEF p
    <3>. QED  BY <2>9
  <2>11. \A q \in DOMAIN Rest(e + 1) : Rest(e + 1)[q] = Rest(e)[q]
    <3>. HIDE DEF p
    <3>. QED  BY <2>10
  <2>. HIDE DEF p, Rest
  <2>12. Sound(Fresh, handed, AddDebris(F[e], Rest(e)[p]), Rest(e + 1))
    BY <2>4, <2>8, <2>10, <2>11, PlacesDebris DEF Sound
  <2>. QED  BY <2>3, <2>5, <2>8, <2>12
<1>8. Nat \subseteq T
  <2>. HIDE DEF T
  <2>. QED  BY <1>6, <1>7, SetInduction
<1>9. Sound(Fresh, handed, debris', Rest(n))
  <2>1. n - (m - 1) \in Nat /\ m - 1 + (n - (m - 1)) = n
    BY <1>2
  <2>2. n - (m - 1) \in T
    BY <1>8, <2>1
  <2>. HIDE DEF Rest
  <2>. QED  BY <1>1, <1>2, <2>1, <2>2
<1>10. Moves(t, "ended", <<>>, frame[t], used[t])
  BY <1>1 DEF Moves, CacheInv, TypeOK
<1>11. /\ page' = page /\ place' = place /\ debris_mode' = debris_mode /\ handed' = handed
       /\ Fresh' = Fresh
  BY <1>1 DEF Fresh
<1>12. TypeOK' /\ FramesFit' /\ FrameInv'
  <2>1. /\ page' \in 0 .. PageNum - 1 /\ place' \in 0 .. PageSize
        /\ debris_mode' \in BOOLEAN /\ handed' \in [Objects -> Nat]
        /\ frame[t] \in Nat /\ used[t] \in Int
    BY <1>11, SizesAssumption DEF CacheInv, TypeOK, FrameInv
  <2>2. debris' \in Seq(Runs)
    BY <1>9 DEF Sound, Typed
  <2>3. <<>> \in Seq(Runs) /\ Len(<<>>) <= FrameNum
    <3>1. FrameNum \in Nat
      BY <1>5, PoppedFit DEF Sound, Typed, Places
    <3>. QED  BY <3>1
  <2>4. "ended" \in {"live", "ended", "exit"} /\ "ended" # "live"
    OBVIOUS
  <2>. QED  BY <1>10, <2>1, <2>2, <2>3, <2>4, Stands
<1>13. /\ pc'[t] = "ended"
       /\ \A u \in Threads : u # t => /\ pc'[u] = pc[u] /\ frames'[u] = frames[u]
                                      /\ frame'[u] = frame[u] /\ used'[u] = used[u]
  BY <1>1, <1>10 DEF Moves, CacheInv, TypeOK
<1>14. \A x : x[1] # t => /\ x \in Held' <=> x \in Held
                          /\ x \in Held => Lefts'[x] = Lefts[x]
  <2>1. \A u \in Threads : u # t => /\ pc'[u] = pc[u] /\ frames'[u] = frames[u]
                                    /\ frame'[u] = frame[u] /\ used'[u] = used[u]
    BY <1>13
  <2>. QED  BY <2>1, Others
<1>15. \A x \in Held' : x[1] # t
  <2>1. \A x \in Held' : pc'[x[1]] = "live"
    BY HeldIsNext
  <2>. QED  BY <1>13, <2>1
<1>16. Sound(Fresh', handed', debris', Lefts')
  <2>1. PICK less, more, d : less = Lefts' /\ more = Rest(n) /\ d = debris'
    OBVIOUS
  <2>2. DOMAIN less \subseteq DOMAIN more /\ \A q \in DOMAIN less : less[q] = more[q]
    <3>1. DOMAIN less = Held'
      BY <2>1 DEF Lefts
    <3>2. DOMAIN more = {x \in Held : x[1] # t \/ x[2] > n}
          /\ \A q \in DOMAIN more : more[q] = Lefts[q]
      BY <2>1
    <3>. QED  BY <1>14, <1>15, <2>1, <3>1, <3>2
  <2>3. Typed(Fresh, handed, d, more) /\ Places(Fresh, handed, d, more)
    BY <1>9, <2>1 DEF Sound
  <2>4. Fresh \in 0 .. PageNum * PageSize /\ Fresh <= Fresh
    BY <2>3, RunsTyped DEF Typed
  <2>5. Typed(Fresh, handed, d, less) /\ Places(Fresh, handed, d, less)
    BY <2>2, <2>3, <2>4, PlacesFewer
  <2>. QED  BY <1>11, <2>1, <2>5 DEF Sound
<1>17. HandedOnce'
  BY <1>11 DEF CacheInv, HandedOnce
<1>. QED  BY <1>12, <1>16, <1>17, Kept

----------------------------------------------------------------------------
(* The theorems. *)

\* No step breaks the invariant.
LEMMA NextKeeps == CacheInv /\ [Next]_vars => CacheInv'
BY CreateKeeps, NextInFrameKeeps, NextFrameKeeps, NextAfterRefillKeeps, FreeUnusedKeeps,
   ExitKeeps, StutterKeeps DEF Next

\* CacheInv is inductive: whatever the threads do, the objects below the mark lie in one
\* frame or one piece of debris at most, those handed out in none, and the pages from the
\* mark on were never touched (init_sub_cache_frame, get_next_object, free_unuse_object).
THEOREM CacheInvariant == Spec => []CacheInv
<1>. QED  BY Start, NextKeeps, PTL DEF Spec

\* The types of the caches: page and place stay within the pages.
THEOREM CacheTypes == Spec => []TypeOK
<1>1. CacheInv => TypeOK
  BY DEF CacheInv
<1>. QED  BY <1>1, CacheInvariant, PTL

\* No object is ever handed out twice, for any number of threads, page size, block size
\* and debris limit: not to two threads and not again after its thread ended.
THEOREM OnlyOnce == Spec => []HandedOnce
<1>1. CacheInv => HandedOnce
  BY DEF CacheInv
<1>. QED  BY <1>1, CacheInvariant, PTL

\* A refill never writes past the end of cache_frame_vector_, however small and many the
\* remainders in the debris are.
THEOREM RefillsFit == Spec => []FramesFit
<1>1. CacheInv => FramesFit
  BY DEF CacheInv
<1>. QED  BY <1>1, CacheInvariant, PTL
=============================================================================
