---------------------------- MODULE ReuseDistance ----------------------------
(***************************************************************************)
(* One thread of the reuse distance client with a cache of its own         *)
(* (drcctlib_reuse_distance_client_cache.cpp).  Inserted code stores the   *)
(* memory references of a block in a buffer; the clean call at a block's   *)
(* start empties the buffer when the block's references would not fit,     *)
(* and of what it holds counts only what lies in a sampling window: the    *)
(* first Sample of every Unite references.  A reuse is a reference to an   *)
(* address and the next one to it in the same window.  All the state is    *)
(* the thread's own.  References are [addr, hndl]; the address is 0 where  *)
(* it cannot be computed.                                                  *)
(***************************************************************************)
EXTENDS Integers, SequencesExt

CONSTANTS
  Unite, Sample,        \* UNITE_NUM, SAMPLE_NUM
  BufferSize,           \* TLS_MEM_REF_BUFF_SIZE
  TopN, Thres, MinCount,\* OUTPUT_SIZE, REUSED_THRES, REUSED_PRINT_MIN_COUNT
  Blocks,               \* what blocks refer to: sequences of references
  Objects,              \* owners of memory: a path, 0, or the negative of a symbol,
  FirstOwner,           \* and who owns what at first
  Junk,                 \* what new memory may hold, read as a reference
  MaxRefs, MaxMishaps,  \* bounds of the program
  Lists                 \* entries of the reuse map, to check the report with

(* The buffer is small beside a window and beside the time between two,    *)
(* and a block's references fit it.                                        *)
ASSUME WindowAssumption ==
  /\ Unite \in Nat /\ Sample \in Nat
  /\ BufferSize \in Nat \ {0} /\ BufferSize <= Sample
  /\ Sample + 2 * BufferSize < Unite
ASSUME BlockAssumption ==
  \A b \in Blocks : b \in Seq([addr : Nat, hndl : Nat]) /\ Len(b) <= BufferSize

VARIABLES
  last_mem_idx, cur_mem_idx,
  cur_buf_fill_num,     \* references announced by the blocks since the buffer was emptied
  cur_buf_list,
  buf_ptr,              \* where inserted code stores next
  sample_mem,
  use_map,              \* by address [create, use, last]
  reuse_map,            \* [use, reuse, create, count, distance]
  todo,                 \* references the block is still to make
  output,               \* the report, None before the thread's end
  owner,                \* by address; the library's
  mishaps,
  (* history *)
  seen,                 \* every reference, with the owner it had
  first,                \* how many were in the first buffer
  whole,                \* no block was left early
  steady                \* no memory changed its owner in the window it was used in

bufVars == <<last_mem_idx, cur_mem_idx, cur_buf_fill_num, cur_buf_list, buf_ptr>>
mapVars == <<sample_mem, use_map, reuse_map>>
vars == <<bufVars, mapVars, todo, output, owner, mishaps, seen, first, whole, steady>>

None    == << >>
Running == output = None
Addrs   == (UNION {{b[k].addr : k \in DOMAIN b} : b \in Blocks}) \ {0}
ASSUME OwnerAssumption == FirstOwner \in [Addrs -> Objects]
ASSUME JunkAssumption  ==
  /\ Junk \subseteq [addr : Nat, hndl : Nat]
  /\ \A j \in Junk : j.addr \in Addrs \cup {0}
Blank   == [create |-> 0, use |-> 0, reuse |-> 0, count |-> 0, distance |-> 0]
Blanks  == [i \in 1 .. TopN |-> Blank]

(* ClientThreadStart.  The buffer's memory is not cleared.                 *)
Init ==
  /\ last_mem_idx = 0 /\ cur_mem_idx = 0
  /\ cur_buf_fill_num = 0 /\ buf_ptr = 0
  /\ cur_buf_list \in [0 .. BufferSize - 1 -> Junk]
  /\ sample_mem = FALSE
  /\ use_map = << >> /\ reuse_map = {}
  /\ todo = << >> /\ output = None
  /\ owner = FirstOwner
  /\ mishaps = 0
  /\ seen = << >> /\ first = 0
  /\ whole = TRUE /\ steady = TRUE

-----------------------------------------------------------------------------
(* UpdateUseAndReuseMap on m = [use, reuse].  The owner is looked up when  *)
(* the address enters the map.                                             *)
Counted(reuse, e, ref, distance) ==
  LET same == {r \in reuse : r.use = e.use /\ r.reuse = ref.hndl /\ r.create = e.create} IN
  IF same = {}
  THEN reuse \cup {[use |-> e.use, reuse |-> ref.hndl, create |-> e.create,
                    count |-> 1, distance |-> distance]}
  ELSE (reuse \ same) \cup
       {[r EXCEPT !.count = @ + 1, !.distance = @ + distance] : r \in same}

Update(m, ref, idx) ==
  IF ref.addr = 0 THEN m
  ELSE IF ref.addr \in DOMAIN m.use
  THEN LET e == m.use[ref.addr] IN
       [use   |-> [m.use EXCEPT ![ref.addr].use = ref.hndl, ![ref.addr].last = idx],
        reuse |-> Counted(m.reuse, e, ref, idx - e.last)]
  ELSE [m EXCEPT !.use = @ @@ (ref.addr :>
            [create |-> owner[ref.addr], use |-> ref.hndl, last |-> idx])]

(* The loops over the buffer.                                              *)
Process(from, to) ==
  LET part == SubSeq([k \in 1 .. BufferSize |-> k - 1], from + 1, to)
      step(m, i) == Update(m, cur_buf_list[i], last_mem_idx + i)
      done == FoldLeft(step, [use |-> use_map, reuse |-> reuse_map], part)
  IN
  /\ use_map' = done.use /\ reuse_map' = done.reuse
  /\ cur_buf_list' = [i \in DOMAIN cur_buf_list |->
        IF i \in ToSet(part) THEN [cur_buf_list[i] EXCEPT !.addr = 0] ELSE cur_buf_list[i]]

InWindow(idx) == idx % Unite <= Sample
WindowStart   == IF sample_mem THEN 0 ELSE Unite - (last_mem_idx % Unite)
WindowRest    == Sample - (last_mem_idx % Unite)

(* ResetPtMap, once between two windows.                                   *)
NeverForgets == use_map

AfterWindow == IF sample_mem THEN << >> ELSE use_map

Flush ==
  LET cur == cur_mem_idx + cur_buf_fill_num IN
  /\ cur_mem_idx' = cur
  /\ buf_ptr' = 0
  /\ first' = IF first = 0 THEN cur_buf_fill_num ELSE first
  /\ \/ /\ InWindow(cur)
        /\ Process(WindowStart, cur_buf_fill_num)
        /\ sample_mem' = TRUE
     \/ /\ ~InWindow(cur) /\ InWindow(last_mem_idx)
        /\ Process(0, WindowRest)
        /\ sample_mem' = TRUE
     \/ /\ ~InWindow(cur) /\ ~InWindow(last_mem_idx)
        /\ use_map' = AfterWindow
        /\ sample_mem' = FALSE
        /\ UNCHANGED <<reuse_map, cur_buf_list>>

RoomForMost(n) == cur_buf_fill_num + n - 1 <= BufferSize

RoomFor(n) == cur_buf_fill_num + n <= BufferSize

(* InstrumentBBStartInsertCallback                                         *)
BBStart(n) ==
  /\ IF RoomFor(n)
     THEN /\ cur_buf_fill_num' = cur_buf_fill_num + n
          /\ UNCHANGED <<cur_mem_idx, cur_buf_list, buf_ptr, mapVars, first>>
     ELSE /\ Flush
          /\ cur_buf_fill_num' = n
  /\ last_mem_idx' = cur_mem_idx'

EnterBlock(b) ==
  /\ Running /\ todo = << >>
  /\ Len(seen) + Len(b) <= MaxRefs
  /\ BBStart(Len(b))
  /\ todo' = b
  /\ UNCHANGED <<output, owner, mishaps, seen, whole, steady>>

(* The code InstrumentMem inserts.                                         *)
Refer ==
  /\ Running /\ todo # << >>
  /\ cur_buf_list' = [cur_buf_list EXCEPT ![buf_ptr] = Head(todo)]
  /\ buf_ptr' = buf_ptr + 1
  /\ LET ref == Head(todo) IN
       seen' = Append(seen, [addr |-> ref.addr, hndl |-> ref.hndl,
                             owner |-> IF ref.addr = 0 THEN 0 ELSE owner[ref.addr]])
  /\ todo' = Tail(todo)
  /\ UNCHANGED <<last_mem_idx, cur_mem_idx, cur_buf_fill_num, mapVars, output, owner, mishaps,
                 first, whole, steady>>

(* The program leaves the block, by a fault.                               *)
Fault ==
  /\ Running /\ todo # << >>
  /\ mishaps < MaxMishaps /\ mishaps' = mishaps + 1
  /\ todo' = << >> /\ whole' = FALSE
  /\ UNCHANGED <<bufVars, mapVars, output, owner, seen, first, steady>>

(* Memory is freed and allocated again elsewhere.                          *)
Move(a, o) ==
  /\ Running /\ owner[a] # o
  /\ mishaps < MaxMishaps /\ mishaps' = mishaps + 1
  /\ owner' = [owner EXCEPT ![a] = o]
  /\ steady' = (steady /\ \A k \in DOMAIN seen :
                  seen[k].addr = a => (k - 1) \div Unite < Len(seen) \div Unite)
  /\ UNCHANGED <<bufVars, mapVars, todo, output, seen, first, whole>>

-----------------------------------------------------------------------------
(* PrintTopN: the list's first place holds the least count.                *)
Item(r) == [r EXCEPT !.distance = r.distance \div r.count]
Qualifies(r) ==
  /\ r.distance \div r.count >= Thres
  /\ r.count >= MinCount
  /\ r.create > 0

LeastAt(list) ==
  CHOOSE i \in DOMAIN list : \A j \in DOMAIN list :
    \/ list[i].count < list[j].count
    \/ list[i].count = list[j].count /\ i <= j

OfferToFirst(list, r) ==
  IF Qualifies(r) /\ r.count > list[1].count THEN [list EXCEPT ![1] = Item(r)] ELSE list

Offer(list, r) ==
  IF Qualifies(r) /\ r.count > list[1].count
  THEN LET next  == [list EXCEPT ![1] = Item(r)]
           least == LeastAt(next)
       IN  [next EXCEPT ![1] = next[least], ![least] = Item(r)]
  ELSE list

(* Equal counts may come out in another order.                             *)
Report(entries) ==
  LET list == FoldLeft(Offer, Blanks, entries) IN
  SelectSeq(SortSeq(list, LAMBDA r, s : r.count > s.count), LAMBDA r : r.count # 0)

ByKey(r, s) ==
  \/ r.use < s.use
  \/ r.use = s.use /\ r.reuse < s.reuse
  \/ r.use = s.use /\ r.reuse = s.reuse /\ r.create < s.create

(* ClientThreadEnd                                                         *)
ThreadEnd ==
  /\ Running /\ todo = << >>
  /\ BBStart(BufferSize)
  /\ output' = [report |-> Report(SetToSortSeq(reuse_map', ByKey))]
  /\ UNCHANGED <<todo, owner, mishaps, seen, whole, steady>>

Next ==
  \/ \E b \in Blocks : EnterBlock(b)
  \/ Refer
  \/ Fault
  \/ \E a \in Addrs, o \in Objects : Move(a, o)
  \/ ThreadEnd

Spec == Init /\ [][Next]_vars

-----------------------------------------------------------------------------
(* No store goes behind the buffer: what the block still stores lies below *)
(* the number announced, whatever was left early before; and where nothing *)
(* was, the number is exactly what has been and will be stored, so each    *)
(* reference is processed with its own index.                              *)
BufferFits ==
  /\ buf_ptr + Len(todo) <= cur_buf_fill_num
  /\ cur_buf_fill_num <= BufferSize
  /\ whole /\ Running =>
       /\ buf_ptr + Len(todo) = cur_buf_fill_num
       /\ last_mem_idx + buf_ptr = Len(seen)

(* The inductive invariant of ReuseDistance_proofs: the two marks are the  *)
(* same outside the clean call, so the number announced since the buffer   *)
(* was emptied is the distance from last_mem_idx to the next reference.    *)
BufferInv ==
  /\ last_mem_idx \in Nat /\ cur_mem_idx = last_mem_idx
  /\ cur_buf_fill_num \in Nat /\ buf_ptr \in Nat
  /\ cur_buf_list \in [0 .. BufferSize - 1 -> [addr : Nat, hndl : Nat]]
  /\ todo \in Seq([addr : Addrs \cup {0}, hndl : Nat])
  /\ owner \in [Addrs -> Objects]
  /\ seen \in Seq([addr : Addrs \cup {0}, hndl : Nat, owner : Objects \cup {0}])
  /\ whole \in BOOLEAN
  /\ BufferFits

(* Outside the first buffer, sample_mem tells that the buffer began in a   *)
(* window.                                                                 *)
WindowInv ==
  sample_mem \in BOOLEAN /\ (sample_mem \/ ~InWindow(last_mem_idx) \/ last_mem_idx = 0)

(* Were the buffer emptied now: the loop over it begins and stops within   *)
(* what the blocks announced.  The loop over the first buffer begins       *)
(* behind it, and ends at once.                                            *)
LoopsInBuffer ==
  LET cur == cur_mem_idx + cur_buf_fill_num IN
  /\ cur_buf_fill_num <= BufferSize
  /\ InWindow(cur) =>
       \/ WindowStart \in 0 .. cur_buf_fill_num
       \/ last_mem_idx = 0 /\ WindowStart >= cur_buf_fill_num
  /\ ~InWindow(cur) /\ InWindow(last_mem_idx) => WindowRest \in 0 .. cur_buf_fill_num

(* The reuses among the references processed so far, as defined by the     *)
(* sequence of references alone.  Those of the first buffer are skipped.   *)
Sampled(i) == i % Unite < Sample /\ i >= first /\ seen[i + 1].addr # 0

Reuses ==
  {p \in (0 .. last_mem_idx - 1) \X (0 .. last_mem_idx - 1) :
     /\ p[1] < p[2]
     /\ Sampled(p[1]) /\ Sampled(p[2])
     /\ p[1] \div Unite = p[2] \div Unite
     /\ seen[p[1] + 1].addr = seen[p[2] + 1].addr
     /\ \A k \in p[1] + 1 .. p[2] - 1 : seen[k + 1].addr # seen[p[1] + 1].addr}

(* However blocks fill the buffer and windows begin and end in the middle  *)
(* of it, the reuse map counts every reuse under its two contexts, with    *)
(* the sum of the distances, none twice and none across windows; and under *)
(* the owner the memory had, if it did not change hands meanwhile.         *)
ReusesCounted ==
  whole =>
    \A u \in {seen[k].hndl : k \in DOMAIN seen}, v \in {seen[k].hndl : k \in DOMAIN seen} :
      LET pairs   == {p \in Reuses : seen[p[1] + 1].hndl = u /\ seen[p[2] + 1].hndl = v}
          entries == {r \in reuse_map : r.use = u /\ r.reuse = v}
      IN
      /\ MapThenSumSet(LAMBDA r : r.count, entries) = Cardinality(pairs)
      /\ MapThenSumSet(LAMBDA r : r.distance, entries)
           = MapThenSumSet(LAMBDA p : p[2] - p[1], pairs)
      /\ steady => \A r \in entries :
           r.count = Cardinality({p \in pairs : seen[p[1] + 1].owner = r.create})

(* The report has the TopN most frequent of the reuses that qualify, in    *)
(* order, each once, though the list is filled in the order of the map     *)
(* with the least of it replaced.                                          *)
IsTop(entries, report) ==
  LET fit == {Item(r) : r \in {q \in entries : Qualifies(q)}} IN
  /\ ToSet(report) \subseteq fit
  /\ Len(report) = Min({TopN, Cardinality(fit)})
  /\ \A i, j \in DOMAIN report : i < j =>
       report[i].count >= report[j].count /\ report[i] # report[j]
  /\ \A r \in fit \ ToSet(report) : \A i \in DOMAIN report : r.count <= report[i].count

ListsReported == \A list \in Lists : IsTop(ToSet(list), Report(list))

ReportsTopN ==
  /\ ListsReported
  /\ ~Running => IsTop(reuse_map, output.report)
=============================================================================
