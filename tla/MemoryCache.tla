---------------------------- MODULE MemoryCache ----------------------------
(***************************************************************************)
(* Where a thread's tree nodes come from (src/src/drcctlib/memory_cache.h).*)
(* One memory_cache_t of pages is shared; each thread's tls_memory_cache_t *)
(* takes a block of objects from it, hands them out one by one and, when   *)
(* the thread ends, returns what it did not use as debris for others.      *)
(* Every access to the shared cache is made under memory_cache_lock, so a  *)
(* critical section is one action.  An object is its index: the page       *)
(* number, page2_bit_ bits of place in the page.                           *)
(***************************************************************************)
EXTENDS Integers, Sequences

CONSTANTS
  Threads,
  PageNum,     \* page1_size_: pages there may be
  PageSize,    \* page2_size_: objects of a page
  MinNum,      \* cache_min_num_: objects a thread takes at a time
  DebrisMin    \* debris_min_size_: smaller remainders are dropped

\* The constructors exit unless MinNum <= PageSize.
ASSUME SizesAssumption ==
  /\ PageNum \in Nat \ {0} /\ PageSize \in Nat \ {0}
  /\ MinNum \in 1 .. PageSize
  /\ DebrisMin \in Nat \ {0}

\* cache_frame_num_: frames of DebrisMin objects that make MinNum.
FrameNum ==
  MinNum \div DebrisMin + IF MinNum % DebrisMin > 0 THEN 1 ELSE 0

VARIABLES
  page,         \* cur_page1_index_
  place,        \* cur_page2_index_
  debris,       \* debris_vector_ and debris_size_vector_
  debris_mode,  \* debris_mode_
  pc,           \* whether thread t's cache exists
  frames,       \* its frames of nonzero size
  frame,        \* last_use_frame_id_, from 1
  used,         \* last_use_num_
  handed        \* how often get_next_object returned each object

pool == <<page, place, debris, debris_mode>>
cache == <<frames, frame, used>>
vars == <<pool, pc, cache, handed>>

Objects == 0 .. PageNum * PageSize - 1
Runs == [start : Objects, size : Nat]

TypeOK ==
  /\ page \in 0 .. PageNum
  /\ place \in 0 .. PageSize
  /\ debris \in Seq(Runs)
  /\ debris_mode \in BOOLEAN
  /\ pc \in [Threads -> {"none", "live", "ended", "exit"}]
  /\ frames \in [Threads -> Seq(Runs)]
  /\ frame \in [Threads -> Nat]
  /\ used \in [Threads -> Int]
  /\ handed \in [Objects -> Nat]

Init ==
  /\ page = 0
  /\ place = 0
  /\ debris = <<>>
  /\ debris_mode = FALSE
  /\ pc = [t \in Threads |-> "none"]
  /\ frames = [t \in Threads |-> <<>>]
  /\ frame = [t \in Threads |-> 1]
  /\ used = [t \in Threads |-> -1]
  /\ handed = [o \in Objects |-> 0]

----------------------------------------------------------------------------
(* memory_cache_t *)

Run(start, size) == [start |-> start, size |-> size]

\* Mutant: every remainder is kept.
AddDebrisAny(d, r) == IF r.size <= 0 THEN d ELSE Append(d, r)

\* add_debris, of both its callers: small remainders are lost.
AddDebris(d, r) == IF r.size < DebrisMin THEN d ELSE Append(d, r)

RestOfPage == Run(page * PageSize + place, PageSize - place)

\* The size of the k ranges at the end of d.
Total(d, k) ==
  LET f[i \in 0 .. Len(d)] == IF i = 0 THEN 0 ELSE f[i - 1] + d[Len(d) + 1 - i].size
  IN f[k]

\* The ranges popped from the back until they make MinNum, or all of them.
Popped(d) ==
  CHOOSE k \in 0 .. Len(d) :
    /\ k = Len(d) \/ Total(d, k) >= MinNum
    /\ \A j \in 0 .. k - 1 : Total(d, j) < MinNum

FromPage(t) ==
  /\ frames' = [frames EXCEPT ![t] = <<Run(page * PageSize + place, MinNum)>>]
  /\ place' = place + MinNum
  /\ UNCHANGED <<page, debris, debris_mode>>

FromDebris(t, d) ==
  LET k == Popped(d) IN
  /\ frames' = [frames EXCEPT ![t] = [i \in 1 .. k |-> d[Len(d) + 1 - i]]]
  /\ debris' = SubSeq(d, 1, Len(d) - k)
  /\ debris_mode' = TRUE
  /\ UNCHANGED <<page, place>>

FromNewPage(t, d) ==
  /\ page' = page + 1
  /\ frames' = [frames EXCEPT ![t] = <<Run(page' * PageSize, MinNum)>>]
  /\ place' = MinNum
  /\ debris' = d
  /\ debris_mode' = FALSE

DebrisIsEnough(d) == FrameNum <= Len(d) \/ Total(d, Len(d)) >= MinNum

\* init_sub_cache_frame.  The process exits when the pages run out.
Refill(t) ==
  LET d == IF debris_mode THEN debris ELSE AddDebris(debris, RestOfPage) IN
  IF ~ debris_mode /\ PageSize - place >= MinNum THEN FromPage(t)
  ELSE IF DebrisIsEnough(d) THEN FromDebris(t, d)
  ELSE FromNewPage(t, d)

\* Mutant: one page too many.
RefillFailsLate ==
  /\ page + 1 > PageNum
  /\ debris_mode \/ PageSize - place < MinNum
  /\ ~ DebrisIsEnough(IF debris_mode THEN debris ELSE AddDebris(debris, RestOfPage))

RefillFails ==
  /\ page + 1 >= PageNum
  /\ debris_mode \/ PageSize - place < MinNum
  /\ ~ DebrisIsEnough(IF debris_mode THEN debris ELSE AddDebris(debris, RestOfPage))

----------------------------------------------------------------------------
(* tls_memory_cache_t *)

Create(t) ==
  /\ pc[t] = "none"
  /\ ~ RefillFails
  /\ Refill(t)
  /\ pc' = [pc EXCEPT ![t] = "live"]
  /\ UNCHANGED <<frame, used, handed>>

FrameSize(t, i) == IF i \in DOMAIN frames[t] THEN frames[t][i].size ELSE 0

HandOut(o) == handed' = [handed EXCEPT ![o] = @ + 1]

InFrame(t) == used[t] + 1 < FrameSize(t, frame[t])

\* get_next_object, from the frame in use ...
NextInFrame(t) ==
  /\ pc[t] = "live"
  /\ InFrame(t)
  /\ used' = [used EXCEPT ![t] = @ + 1]
  /\ HandOut(frames[t][frame[t]].start + used'[t])
  /\ UNCHANGED <<pool, pc, frames, frame>>

\* ... from the next one ...
NextFrame(t) ==
  /\ pc[t] = "live"
  /\ ~ InFrame(t)
  /\ frame[t] < FrameNum /\ FrameSize(t, frame[t] + 1) # 0
  /\ frame' = [frame EXCEPT ![t] = @ + 1]
  /\ used' = [used EXCEPT ![t] = 0]
  /\ HandOut(frames[t][frame'[t]].start)
  /\ UNCHANGED <<pool, pc, frames>>

\* ... and after a refill.
NextAfterRefill(t) ==
  /\ pc[t] = "live"
  /\ ~ InFrame(t)
  /\ ~ (frame[t] < FrameNum /\ FrameSize(t, frame[t] + 1) # 0)
  /\ ~ RefillFails
  /\ Refill(t)
  /\ frame' = [frame EXCEPT ![t] = 1]
  /\ used' = [used EXCEPT ![t] = 0]
  /\ HandOut(frames'[t][1].start)
  /\ UNCHANGED pc

Exit(t) ==
  /\ \/ pc[t] = "none"
     \/ /\ pc[t] = "live" /\ ~ InFrame(t)
        /\ ~ (frame[t] < FrameNum /\ FrameSize(t, frame[t] + 1) # 0)
  /\ RefillFails
  /\ pc' = [pc EXCEPT ![t] = "exit"]
  /\ UNCHANGED <<pool, cache, handed>>

\* Mutant: the object used last is returned too.
LeftIncludesUsed(t, i) ==
  LET r == frames[t][i] IN
  IF i = frame[t] THEN Run(r.start + used[t], r.size - used[t]) ELSE r

\* What is left of frame i of t.
Left(t, i) ==
  LET r == frames[t][i] IN
  IF i = frame[t] THEN Run(r.start + used[t] + 1, r.size - used[t] - 1) ELSE r

\* Mutant: only the frame in use is returned.
FreeUnusedCurrent(t) ==
  /\ pc[t] = "live"
  /\ debris' = AddDebris(debris, Left(t, frame[t]))
  /\ frames' = [frames EXCEPT ![t] = <<>>]
  /\ pc' = [pc EXCEPT ![t] = "ended"]
  /\ UNCHANGED <<page, place, debris_mode, frame, used, handed>>

\* free_unuse_object, at the end of the thread.
FreeUnused(t) ==
  LET f[i \in frame[t] - 1 .. Len(frames[t])] ==
        IF i < frame[t] THEN debris ELSE AddDebris(f[i - 1], Left(t, i))
  IN
  /\ pc[t] = "live"
  /\ debris' = f[Len(frames[t])]
  /\ frames' = [frames EXCEPT ![t] = <<>>]
  /\ pc' = [pc EXCEPT ![t] = "ended"]
  /\ UNCHANGED <<page, place, debris_mode, frame, used, handed>>

Next ==
  \E t \in Threads :
    Create(t) \/ NextInFrame(t) \/ NextFrame(t) \/ NextAfterRefill(t)
      \/ FreeUnused(t) \/ Exit(t)

Spec == Init /\ [][Next]_vars

----------------------------------------------------------------------------
(* Properties. *)

Span(r) == r.start .. r.start + r.size - 1

\* Objects thread t may still hand out.
Waiting(t) == UNION {Span(Left(t, i)) : i \in frame[t] .. Len(frames[t])}

Recycled == UNION {Span(debris[i]) : i \in DOMAIN debris}

\* No object is handed out twice, not even one that came back as debris when its
\* thread ended: a tree node belongs to one thread, and a new splay node still has the
\* NULLs its page was initialised with, on which splay_tree_update relies.
HandedOnce == \A o \in Objects : handed[o] <= 1

\* A refill from debris writes no more frames than cache_frame_vector_ has.
FramesFit == \A t \in Threads : Len(frames[t]) <= FrameNum

\* Where pages are multiples of the block a thread takes, the objects lost for good
\* are runs shorter than DebrisMin: all else is handed out or can still be.
LossBounded ==
  PageSize % MinNum = 0 /\ DebrisMin <= MinNum =>
    \A o \in 0 .. page * PageSize + place - DebrisMin :
      \E p \in o .. o + DebrisMin - 1 :
        \/ handed[p] > 0
        \/ p \in Recycled
        \/ \E t \in Threads : p \in Waiting(t)

----------------------------------------------------------------------------
(* The inductive invariant of MemoryCache_proofs. *)

\* No object from here on was ever in a frame or in the debris.
Fresh == IF debris_mode THEN (page + 1) * PageSize ELSE page * PageSize + place

Apart(r, s) == r.start + r.size <= s.start \/ s.start + s.size <= r.start

\* The objects of a run were taken from the pages below mark and not handed out.
Waits(r, mark, out) == r.start + r.size <= mark /\ \A o \in Span(r) : out[o] = 0

\* The ranges of a vector of debris and of a function of ranges, what is left of
\* frames, share no object: each object below the mark waits in one place at most, one
\* that was handed out in none, and none above it was handed out.
Places(mark, out, d, left) ==
  /\ \A i \in DOMAIN d : d[i].size >= DebrisMin /\ Waits(d[i], mark, out)
  /\ \A i, j \in DOMAIN d : i # j => Apart(d[i], d[j])
  /\ \A p \in DOMAIN left :
       /\ Waits(left[p], mark, out)
       /\ \A i \in DOMAIN d : Apart(left[p], d[i])
       /\ \A q \in DOMAIN left : p # q => Apart(left[p], left[q])
  /\ \A o \in Objects : o >= mark => out[o] = 0

\* The frames live threads still take objects from.
Held == UNION {{t} \X (frame[t] .. Len(frames[t])) : t \in {u \in Threads : pc[u] = "live"}}

PlaceInv == Places(Fresh, handed, debris, [p \in Held |-> Left(p[1], p[2])])

\* Where a thread stands in its frames.
FrameInv ==
  /\ page < PageNum
  /\ \A t \in Threads :
       /\ pc[t] = "none" => frame[t] = 1 /\ used[t] = -1
       /\ pc[t] = "live" =>
            /\ frame[t] \in 1 .. Len(frames[t])
            /\ used[t] \in -1 .. frames[t][frame[t]].size - 1
            /\ \A i \in DOMAIN frames[t] : frames[t][i].size > 0

CacheInv == TypeOK /\ FramesFit /\ FrameInv /\ PlaceInv /\ HandedOnce
=============================================================================
