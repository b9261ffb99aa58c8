---------------------------- MODULE ShadowMemory ----------------------------
(***************************************************************************)
(* ConcurrentShadowMemory of shadow_memory.h: a directory of tables of     *)
(* pages, shared by all threads.  A thread that finds an entry empty       *)
(* allocates memory of its own and tries to install it with one            *)
(* compare-and-swap; the thread that loses gives its memory back and uses  *)
(* the winner's.  dr_raw_mem_alloc and dr_raw_mem_free are the sets        *)
(* `tables' and `pages' of memory in use; memory given back is allocated   *)
(* again first.                                                            *)
(* TlsShadowMemory is the same code for one thread, without the            *)
(* compare-and-swap.                                                       *)
(***************************************************************************)
EXTENDS Integers, FiniteSetsExt

CONSTANTS
  Threads,
  Slots1,      \* entries of the directory (2^20 in the code), from 0
  Slots2,      \* entries of a table (2^12), from 0
  PageSize,    \* cells of a page (2^16)
  Tables,      \* names of memory for tables, naturals
  PageNames,   \* names of memory for pages, naturals
  None,        \* a null pointer
  Unknown      \* the content of fresh memory: UNKNOWN_OBJECT

ASSUME ShadowAssumption ==
  /\ \A S \in {Slots1, Slots2} : IsFiniteSet(S) /\ S # {} /\ S = 0 .. Cardinality(S) - 1
  /\ PageSize \in Nat \ {0}
  /\ Tables \subseteq Nat /\ PageNames \subseteq Nat
  /\ None \notin Tables \cup PageNames \cup [Slots1 -> Tables \cup {None}]

VARIABLES
  dir,      \* pageDirectory, None before the constructor and after delete
  table,    \* contents of the tables
  page,     \* contents of the pages
  tables,   \* tables allocated
  pages,    \* pages allocated
  access    \* per thread: the call of GetOrCreateShadowBaseAddress it is in

shadowVars == <<dir, table, page, tables, pages, access>>

AddrNum == Cardinality(Slots1) * (PageSize * Cardinality(Slots2))
Addr   == 0 .. AddrNum - 1
Slot1(a)  == a \div (PageSize * Cardinality(Slots2))
Slot2(a)  == (a \div PageSize) % Cardinality(Slots2)
Offset(a) == a % PageSize

Idle == [pc |-> "none", addr |-> 0, v1 |-> None, v2 |-> None, fresh |-> None]

EmptyTable == [s \in Slots2 |-> None]
EmptyPage  == [o \in 0 .. PageSize - 1 |-> Unknown]

ShadowInit ==
  /\ dir = None
  /\ table = [n \in Tables |-> EmptyTable]
  /\ page = [n \in PageNames |-> EmptyPage]
  /\ tables = {}
  /\ pages = {}
  /\ access = [t \in Threads |-> Idle]

(* The constructor.                                                        *)
NewShadow == [s \in Slots1 |-> None]

(* The address a thread wants a shadow cell for.                           *)
Seek(t, a) == access' = [access EXCEPT ![t] = [Idle EXCEPT !.pc = "load1", !.addr = a]]

-----------------------------------------------------------------------------
(* The directory's entry is there, or the thread allocates a table.        *)
Load1(t) ==
  LET s == Slot1(access[t].addr) IN
  /\ access[t].pc = "load1"
  /\ \/ /\ dir[s] # None
        /\ access' = [access EXCEPT ![t].pc = "load2", ![t].v1 = dir[s]]
        /\ UNCHANGED <<table, tables>>
     \/ /\ dir[s] = None
        /\ Tables \ tables # {}
        /\ LET n == Min(Tables \ tables) IN
             /\ tables' = tables \cup {n}
             /\ table' = [table EXCEPT ![n] = EmptyTable]
             /\ access' = [access EXCEPT ![t].pc = "cas1", ![t].fresh = n]
  /\ UNCHANGED <<dir, page, pages>>

(* compare_exchange_strong on the directory's entry.                       *)
InstallTableBlindly(t) ==
  /\ dir' = [dir EXCEPT ![Slot1(access[t].addr)] = access[t].fresh]
  /\ UNCHANGED tables

InstallTable(t) ==
  LET s == Slot1(access[t].addr) IN
  IF dir[s] = None
  THEN /\ dir' = [dir EXCEPT ![s] = access[t].fresh]
       /\ UNCHANGED tables
  ELSE /\ tables' = tables \ {access[t].fresh}
       /\ UNCHANGED dir

Cas1(t) ==
  /\ access[t].pc = "cas1"
  /\ InstallTable(t)
  /\ access' = [access EXCEPT ![t].pc = "load2", ![t].fresh = None,
                              ![t].v1 = dir'[Slot1(access[t].addr)]]
  /\ UNCHANGED <<table, page, pages>>

(* The table's entry is there, or the thread allocates a page.             *)
Load2(t) ==
  LET v1 == access[t].v1
      s  == Slot2(access[t].addr)
  IN
  /\ access[t].pc = "load2"
  /\ \/ /\ table[v1][s] # None
        /\ access' = [access EXCEPT ![t].pc = "got", ![t].v2 = table[v1][s]]
        /\ UNCHANGED <<page, pages>>
     \/ /\ table[v1][s] = None
        /\ PageNames \ pages # {}
        /\ LET n == Min(PageNames \ pages) IN
             /\ pages' = pages \cup {n}
             /\ page' = [page EXCEPT ![n] = EmptyPage]
             /\ access' = [access EXCEPT ![t].pc = "cas2", ![t].fresh = n]
  /\ UNCHANGED <<dir, table, tables>>

(* compare_exchange_strong on the table's entry.                           *)
InstallPage(t) ==
  LET v1 == access[t].v1
      s  == Slot2(access[t].addr)
  IN
  IF table[v1][s] = None
  THEN /\ table' = [table EXCEPT ![v1][s] = access[t].fresh]
       /\ UNCHANGED pages
  ELSE /\ pages' = pages \ {access[t].fresh}
       /\ UNCHANGED table

Cas2(t) ==
  /\ access[t].pc = "cas2"
  /\ InstallPage(t)
  /\ access' = [access EXCEPT ![t].pc = "got", ![t].fresh = None,
                  ![t].v2 = table'[access[t].v1][Slot2(access[t].addr)]]
  /\ UNCHANGED <<dir, page, tables>>

GetOrCreate(t) == Load1(t) \/ Cas1(t) \/ Load2(t) \/ Cas2(t)

(* status[i] = initializer, for the cell the thread got.                   *)
Store(t, h) ==
  /\ page' = [page EXCEPT ![access[t].v2][Offset(access[t].addr)] = h]
  /\ UNCHANGED <<dir, table, tables, pages>>

(* The destructor walks the directory and frees what it finds.             *)
Reachable1 == {dir[s] : s \in Slots1} \ {None}
Reachable2 == (UNION {{table[n][s] : s \in Slots2} : n \in Reachable1}) \ {None}

Delete ==
  /\ pages' = pages \ Reachable2
  /\ tables' = tables \ Reachable1
  /\ dir' = None
  /\ UNCHANGED <<table, page, access>>

-----------------------------------------------------------------------------
(* GetShadowAddress and the read of the cell.  Entries are set once, so    *)
(* reading the two levels at different moments gives an answer the table   *)
(* had at the second one, or Unknown.                                      *)
Lookup(a) ==
  IF dir = None THEN Unknown
  ELSE LET v1 == dir[Slot1(a)] IN
       IF v1 = None THEN Unknown
       ELSE LET v2 == table[v1][Slot2(a)] IN
            IF v2 = None THEN Unknown ELSE page[v2][Offset(a)]

-----------------------------------------------------------------------------
(* Memory threads have allocated and not installed yet.                    *)
Own(pc) == {access[t].fresh : t \in {u \in Threads : access[u].pc = pc}}

Accesses ==
  [pc : {"none", "load1", "cas1", "load2", "cas2", "got"}, addr : Nat,
   v1 : Tables \cup {None}, v2 : PageNames \cup {None}, fresh : Tables \cup PageNames \cup {None}]

(* The inductive invariant: memory is one thread's own, and empty, or in   *)
(* one entry, and a thread's pointers are those the entries hold.          *)
ShadowTypes(Content) ==
  /\ dir = None \/ dir \in [Slots1 -> Tables \cup {None}]
  /\ table \in [Tables -> [Slots2 -> PageNames \cup {None}]]
  /\ page \in [PageNames -> [0 .. PageSize - 1 -> Content]]
  /\ access \in [Threads -> Accesses]
  /\ tables \subseteq Tables /\ pages \subseteq PageNames

Owned ==
  /\ tables = Reachable1 \cup Own("cas1")
  /\ pages = Reachable2 \cup Own("cas2")
  /\ \A t, u \in Threads :
       t # u /\ access[t].pc = access[u].pc /\ access[t].pc \in {"cas1", "cas2"} =>
         access[t].fresh # access[u].fresh

OneEntry ==
  /\ \A s1, r1 \in Slots1 : dir[s1] = dir[r1] /\ dir[s1] # None => s1 = r1
  /\ \A n, k \in Reachable1, s2, r2 \in Slots2 :
       table[n][s2] = table[k][r2] /\ table[n][s2] # None => n = k /\ s2 = r2

Pointers(a) ==
  /\ a.pc # "none" => a.addr \in Addr
  /\ a.pc = "cas1" => a.fresh \in Tables \ Reachable1 /\ table[a.fresh] = EmptyTable
  /\ a.pc = "cas2" => a.fresh \in PageNames \ Reachable2 /\ page[a.fresh] = EmptyPage
  /\ a.pc \in {"load2", "cas2", "got"} => a.v1 = dir[Slot1(a.addr)] /\ a.v1 # None
  /\ a.pc = "got" => a.v2 = table[a.v1][Slot2(a.addr)] /\ a.v2 # None

ShadowInv(Content) ==
  /\ ShadowTypes(Content)
  /\ dir = None =>
       tables = {} /\ pages = {} /\ \A t \in Threads : access[t].pc = "none"
  /\ dir # None => Owned /\ OneEntry /\ \A t \in Threads : Pointers(access[t])
=============================================================================
