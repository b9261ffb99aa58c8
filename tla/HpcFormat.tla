------------------------------ MODULE HpcFormat ------------------------------
(***************************************************************************)
(* Profiles in hpcrun format (drcctlib_hpcviewer_format.cpp).  A writer (a *)
(* thread, or the process at its exit) merges call paths into a tree whose *)
(* nodes get ids from one counter, opens a file under a name nobody has,   *)
(* writes the map of loaded modules, and then one row per node.  A writer  *)
(* of mode "custom" builds its tree from selected paths, perhaps several   *)
(* times, and then writes it; one of mode "all" opens its file first and   *)
(* then merges the thread's calling context tree.                          *)
(* A node is [ip, up, id, parent, metric]: `up' is the place of its parent *)
(* in the sequence, `parent' the parent's ID when it was made.  A path is  *)
(* what a client's list of handles stands for: the addresses of each handle*)
(* one after the other, and 0 for a handle that is 0.  An empty path is an *)
(* empty list of handles.  A handle of a thread's root has no address; a   *)
(* list of such handles only is treated like one with a handle 0 alone.    *)
(***************************************************************************)
EXTENDS Integers, SequencesExt

CONSTANTS
  Writers,        \* the threads' ids, and perhaps Progress
  Progress,       \* the process, which writes at its exit: a negative number
  Mode,           \* per writer "custom" or "all"
  Ips,            \* addresses of instructions, positive
  BaseOf,         \* per address, where its module is loaded, None for generated code
  Selections,     \* per writer, the lists of [path, metric] a client may ask for
  Contexts,       \* calling context trees: lists of [depth, ip, callee], depth first
  App, AppBase,   \* the application's module, and where it is loaded
  Libs,           \* other modules
  Home, Hosts,    \* host ids: OSUtil_hostid and random ones
  MaxGen,         \* FILES_MAX_GEN
  RandomGen,      \* FILES_RANDOM_GEN
  MaxBuilds,      \* per writer, a bound of the client: calls to build
  Others,         \* bounds of other processes: the names they may take,
  MaxForeign,     \* and how many files they make
  None

ASSUME WritersAssumption == None \notin Writers
ASSUME ModulesAssumption == App \notin Libs /\ AppBase # None
(* A calling context tree has one root, which is visited first, and every  *)
(* other node after its parent.                                            *)
ASSUME ListsAssumption ==
  /\ \A x \in Writers : Selections[x] \subseteq Seq([path : Seq(Ips \cup {0}), metric : Int])
  /\ \A list \in Contexts :
       /\ list \in Seq([depth : Nat \ {0}, ip : Ips \cup {0}, callee : BOOLEAN]) \ {<< >>}
       /\ \A k \in DOMAIN list : IF k = 1 THEN list[k].depth = 1
                                ELSE list[k].depth \in 2 .. list[k - 1].depth + 1

VARIABLES
  next_id,        \* global_fmt_ip_node_start
  tree,           \* per writer: the nodes, in the order they were made
  count,          \* per writer: nodeCount
  w,              \* per writer: where it is in the functions of the client's calls
  lateid,         \* the generation of file names, None before the first file
  lock,           \* files_lock
  disk,           \* files: by name, their writer, or None for those of others
  profile,        \* per writer: what it has written
  table,          \* global_module_data_table: [base, mod, id]
  next_key,       \* global_module_next_key
  loaded,         \* the modules there are, [base, mod]
  raced,          \* writers whose lookup of a module may meet an addition to the table
  (* history *)
  asked,          \* per writer: the [path, metric] its calls have passed
  disturbed,      \* writers in whose loadmap a module was added
  unloaded        \* a module has been unloaded

treeVars == <<next_id, tree, count>>
fileVars == <<lateid, lock, disk>>
tableVars == <<table, next_key, loaded, disturbed, unloaded>>
moduleVars == <<tableVars, raced>>
vars == <<treeVars, fileVars, moduleVars, w, profile, asked>>

Idle == [pc |-> "idle", todo |-> << >>, cur |-> 1, at |-> <<0>>, builds |-> 0, n |-> 0, vector |-> {},
         parents |-> << >>, kids |-> << >>, last |-> 0]
NoProfile == [size |-> 0, map |-> << >>, count |-> 0, rows |-> << >>]
Tid(x) == IF x = Progress THEN 0 ELSE x

Children(t, i) == {k \in DOMAIN t : t[k].up = i}
IsLeaf(t, i)   == Children(t, i) = {}

(* offline_module_data_create: id 1 is the application's.                  *)
ModuleIdFromKey(m) == next_key
ModuleId(m) == IF m = App THEN 1 ELSE next_key

(* The application is loaded before any thread can write a profile.        *)
Init ==
  /\ next_id = 0
  /\ tree = [x \in Writers |-> << >>]
  /\ count = [x \in Writers |-> 0]
  /\ w = [x \in Writers |-> Idle]
  /\ lateid = None
  /\ lock = None
  /\ disk = << >>
  /\ profile = [x \in Writers |-> NoProfile]
  /\ next_key = 2
  /\ table = {[base |-> AppBase, mod |-> App, id |-> ModuleId(App)]}
  /\ loaded = {[base |-> e.base, mod |-> e.mod] : e \in table}
  /\ asked = [x \in Writers |-> << >>]
  /\ raced = {}
  /\ disturbed = {}
  /\ unloaded = FALSE

Goto(x, pc) == w' = [w EXCEPT ![x].pc = pc]

-----------------------------------------------------------------------------
(* constructIPNodeFromIP: the id from the shared counter, the parent's ID  *)
(* as it is now.                                                           *)
NewId == next_id + 2

NewNode(x, ip, up, sign, metric) ==
  [ip |-> ip, up |-> up, id |-> sign * NewId, metric |-> metric,
   parent |-> IF up = 0 THEN 0 ELSE tree[x][up].id]

Construct(x, ip, up, sign, metric) ==
  /\ next_id' = NewId
  /\ tree' = [tree EXCEPT ![x] = Append(@, NewNode(x, ip, up, sign, metric))]
  /\ count' = [count EXCEPT ![x] = @ + 1]

(* findSameIPbyIP, findSameIP.                                             *)
NoSameIP(x, ip, up) == {}

SameIP(x, ip, up) == {i \in Children(tree[x], up) : tree[x][i].ip = ip}

(* Addresses in a path have been executed: their modules have been loaded, *)
(* unless they are of generated code, which is in none.                    *)
Generated(ip) == BaseOf[ip] = None
Executed(ips) ==
  \A ip \in ips \ {0} : Generated(ip) \/ \E e \in table : e.base = BaseOf[ip]

Passed(list) == UNION {ToSet(list[k].path) : k \in DOMAIN list}

(* build_thread_custom_cct_hpurun_format: the root is kept from call to    *)
(* call.                                                                   *)
Build(x, list) ==
  /\ x # Progress
  /\ w[x].pc = "idle" /\ Mode[x] = "custom"
  /\ w[x].builds < MaxBuilds[x] /\ Executed(Passed(list))
  /\ w' = [w EXCEPT ![x].pc = "insert", ![x].todo = list, ![x].cur = 1, ![x].builds = @ + 1]
  /\ asked' = [asked EXCEPT ![x] = @ \o list]
  /\ IF tree[x] = << >> THEN Construct(x, 0, 0, 1, 0) ELSE UNCHANGED treeVars
  /\ UNCHANGED <<fileVars, moduleVars, profile>>

(* build_progress_custom_cct_hpurun_format starts with a new root.  It is  *)
(* called when the threads have ended.                                     *)
BuildAnew(x, list) ==
  /\ x = Progress
  /\ \A y \in Writers \ {x} : w[y].pc \in {"done", "failed"}
  /\ w[x].pc = "idle" /\ Mode[x] = "custom"
  /\ w[x].builds < MaxBuilds[x] /\ Executed(Passed(list))
  /\ w' = [w EXCEPT ![x].pc = "insert", ![x].todo = list, ![x].cur = 1, ![x].builds = @ + 1]
  /\ asked' = [asked EXCEPT ![x] = list]
  /\ next_id' = NewId
  /\ tree' = [tree EXCEPT ![x] = <<NewNode(x, 0, 0, 1, 0)>>]
  /\ count' = [count EXCEPT ![x] = 1]
  /\ UNCHANGED <<fileVars, moduleVars, profile>>

(* hpcrun_insert_path, one address of the path.  It returns at once from an*)
(* empty list of handles, and stops at a handle 0: the metric is the one of*)
(* the node it is at then.  Only before its first address is that the root.*)
InsertIP(x) ==
  LET path == w[x].todo[1].path
      cur  == w[x].cur
      same == SameIP(x, path[1], cur)
  IN
  /\ w[x].pc = "insert" /\ w[x].todo # << >>
  /\ path # << >> /\ path[1] # 0
  /\ IF same # {}
     THEN /\ w' = [w EXCEPT ![x].cur = Min(same), ![x].todo[1].path = Tail(@)]
          /\ UNCHANGED treeVars
     ELSE /\ Construct(x, path[1], cur, 1, 0)
          /\ w' = [w EXCEPT ![x].cur = Len(tree[x]) + 1, ![x].todo[1].path = Tail(@)]
  /\ UNCHANGED <<fileVars, moduleVars, profile, asked>>

SkipPath(x) ==
  /\ w[x].pc = "insert" /\ w[x].todo # << >>
  /\ w[x].todo[1].path = << >> /\ w[x].cur = 1
  /\ w' = [w EXCEPT ![x].todo = Tail(@)]
  /\ UNCHANGED <<treeVars, fileVars, moduleVars, profile, asked>>

AddMetric(x) ==
  /\ w[x].pc = "insert" /\ w[x].todo # << >>
  /\ IF w[x].todo[1].path = << >> THEN w[x].cur # 1 ELSE w[x].todo[1].path[1] = 0
  /\ tree' = [tree EXCEPT ![x][w[x].cur].metric = @ + w[x].todo[1].metric]
  /\ w' = [w EXCEPT ![x].cur = 1, ![x].todo = Tail(@)]
  /\ UNCHANGED <<next_id, count, fileVars, moduleVars, profile, asked>>

(* reset_leaf_node_id                                                      *)
AllReset(t) == [i \in DOMAIN t |-> [t[i] EXCEPT !.id = -@]]

LeavesReset(t) == [i \in DOMAIN t |-> [t[i] EXCEPT !.id = IF IsLeaf(t, i) THEN -@ ELSE @]]

EndBuild(x) ==
  /\ w[x].pc = "insert" /\ w[x].todo = << >>
  /\ tree' = [tree EXCEPT ![x] = LeavesReset(@)]
  /\ Goto(x, "idle")
  /\ UNCHANGED <<next_id, count, fileVars, moduleVars, profile, asked>>

(* tranverseIPs and mergeIP, one instruction: known under this caller, or  *)
(* a new node; an instruction without callees has a negative id.  `at' are *)
(* the nodes on the way to it.                                             *)
MergeIP(x) ==
  LET job  == w[x].todo[1]
      up   == w[x].at[job.depth]
      same == SameIP(x, job.ip, up)
      here == IF same # {} THEN Min(same) ELSE Len(tree[x]) + 1
  IN
  /\ w[x].pc = "rows" /\ w[x].todo # << >>
  /\ IF same # {}
     THEN UNCHANGED treeVars
     ELSE IF job.callee THEN Construct(x, job.ip, up, 1, 0) ELSE Construct(x, job.ip, up, -1, 1)
  /\ w' = [w EXCEPT ![x].todo = Tail(@), ![x].at = Append(SubSeq(@, 1, job.depth), here)]
  /\ UNCHANGED <<fileVars, moduleVars, profile, asked>>

-----------------------------------------------------------------------------
(* write_thread_custom_cct_hpurun_format, write_thread_all_cct...: both    *)
(* begin with lazy_open_data_file.  A client that writes has built: without*)
(* a tree the code would follow a null root.                               *)
WriteCustom(x) ==
  /\ w[x].pc = "idle" /\ Mode[x] = "custom"
  /\ w[x].builds > 0
  /\ Goto(x, "open")
  /\ UNCHANGED <<treeVars, fileVars, moduleVars, profile, asked>>

WriteAll(x, contexts) ==
  /\ w[x].pc = "idle" /\ Mode[x] = "all" /\ Executed({contexts[k].ip : k \in DOMAIN contexts})
  /\ w' = [w EXCEPT ![x].pc = "open", ![x].todo = contexts]
  /\ UNCHANGED <<treeVars, fileVars, moduleVars, profile, asked>>

(* hpcrun_files_init: the pid is that of the first call.                   *)
FilesInit == IF lateid = None THEN [done |-> FALSE, host |-> Home, gen |-> 0] ELSE lateid

(* hpcrun_open_profile_file: spinlock_lock, hpcrun_files_init.             *)
Lock(x) ==
  /\ w[x].pc = "open"
  /\ lock = None
  /\ lock' = x
  /\ lateid' = FilesInit
  /\ Goto(x, "try")
  /\ UNCHANGED <<treeVars, disk, moduleVars, profile, asked>>

Name(x) == [tid |-> Tid(x), host |-> lateid.host, gen |-> lateid.gen]
Taken(n) == n \in DOMAIN disk

(* hpcrun_open_file: open with O_EXCL succeeds.                            *)
NotExcluded(x) == FALSE
Excluded(x) == Taken(Name(x))

OpenNew(x) ==
  /\ w[x].pc = "try"
  /\ ~Excluded(x)
  /\ disk' = [n \in DOMAIN disk \cup {Name(x)} |-> IF n = Name(x) THEN x ELSE disk[n]]
  /\ lateid' = [lateid EXCEPT !.done = TRUE]
  /\ lock' = None
  /\ Goto(x, "size")
  /\ UNCHANGED <<treeVars, moduleVars, profile, asked>>

(* hpcrun_files_next_id                                                    *)
OutOfOptions == lateid.done \/ lateid.gen >= MaxGen

SameGen == lateid.gen
NextGen == lateid.gen + 1

NextName(x) ==
  /\ w[x].pc = "try"
  /\ Excluded(x) /\ ~OutOfOptions
  /\ \E h \in Hosts :
       /\ NextGen < RandomGen => h = lateid.host
       /\ lateid' = [lateid EXCEPT !.gen = NextGen, !.host = h]
  /\ UNCHANGED <<treeVars, disk, lock, moduleVars, w, profile, asked>>

(* Names run out, or open fails for a reason of its own (or the name is too*)
(* long): no file, and the generation stays for those after.               *)
NoFile(x) ==
  /\ w[x].pc = "try"
  /\ lateid' = [lateid EXCEPT !.done = TRUE]
  /\ lock' = None
  /\ Goto(x, "failed")
  /\ UNCHANGED <<treeVars, disk, moduleVars, profile, asked>>

OpenFails(x)  == NoFile(x) /\ Excluded(x) /\ OutOfOptions
OpenErrors(x) == NoFile(x)

(* A process with the same pid on another host that shares the directory,  *)
(* or an earlier one.                                                      *)
Foreign(n) ==
  /\ ~Taken(n)
  /\ Cardinality({m \in DOMAIN disk : disk[m] = None}) < MaxForeign
  /\ disk' = [m \in DOMAIN disk \cup {n} |-> IF m = n THEN None ELSE disk[m]]
  /\ UNCHANGED <<treeVars, lateid, lock, moduleVars, w, profile, asked>>

-----------------------------------------------------------------------------
(* event_module_load_analysis: the module gets an entry if nothing was     *)
(* ever loaded at its base.  The mutex keeps out other loads, not the      *)
(* lookups of writers.                                                     *)
ModuleLoad(m, b) ==
  /\ b # None
  /\ \A e \in loaded : e.mod # m /\ e.base # b
  /\ loaded' = loaded \cup {[base |-> b, mod |-> m]}
  /\ IF \E e \in table : e.base = b
     THEN UNCHANGED <<table, next_key, disturbed, raced>>
     ELSE /\ table' = table \cup {[base |-> b, mod |-> m, id |-> ModuleId(m)]}
          /\ next_key' = next_key + 1
          /\ disturbed' = disturbed \cup
               {x \in Writers : w[x].pc \in {"alloc", "fill", "list"}}
          /\ raced' = raced \cup {x \in Writers : w[x].pc = "write"}
  /\ UNCHANGED <<treeVars, fileVars, w, profile, asked, unloaded>>

(* Nothing is done about it.                                               *)
ModuleUnload(e) ==
  /\ e \in loaded /\ e.mod # App
  /\ loaded' = loaded \ {e}
  /\ unloaded' = TRUE
  /\ UNCHANGED <<treeVars, fileVars, table, next_key, disturbed, raced, w, profile, asked>>

(* hpcrun_fmt_loadmap_fwrite reads the number of entries three times and   *)
(* takes no lock.                                                          *)
Entries == Cardinality(table)

LoadmapSize(x) ==
  /\ w[x].pc = "size"
  /\ profile' = [profile EXCEPT ![x].size = Entries]
  /\ Goto(x, "alloc")
  /\ UNCHANGED <<treeVars, fileVars, moduleVars, asked>>

LoadmapAlloc(x) ==
  /\ w[x].pc = "alloc"
  /\ w' = [w EXCEPT ![x].pc = "fill", ![x].n = Entries]
  /\ UNCHANGED <<treeVars, fileVars, moduleVars, profile, asked>>

LoadmapFill(x) ==
  /\ w[x].pc = "fill"
  /\ IF \A e \in table : e.id <= w[x].n
     THEN w' = [w EXCEPT ![x].pc = "list", ![x].vector = table]
     ELSE Goto(x, "crash")
  /\ UNCHANGED <<treeVars, fileVars, moduleVars, profile, asked>>

LoadmapList(x) ==
  LET at(i) == {e \in w[x].vector : e.id = i} IN
  /\ w[x].pc = "list"
  /\ IF \A i \in 1 .. Entries : at(i) # {}
     THEN /\ profile' = [profile EXCEPT ![x].map =
                            [i \in 1 .. Entries |-> CHOOSE e \in at(i) : TRUE]]
          /\ Goto(x, "rows")
     ELSE /\ Goto(x, "crash")
          /\ UNCHANGED profile
  /\ UNCHANGED <<treeVars, fileVars, moduleVars, asked>>

-----------------------------------------------------------------------------
(* IPNode_fwrite.  The address of an internal node is moved behind the     *)
(* call; the tree is not used after that.  The module is looked up by its  *)
(* present base.                                                           *)
RowOf(n) ==
  LET id == IF n.ip = 0 THEN 0
            ELSE (CHOOSE e \in table : e.base = BaseOf[n.ip]).id
  IN  [id |-> n.id, parent |-> n.parent, mod |-> id, metric |-> n.metric,
       ip |-> n.ip, moved |-> n.ip # 0 /\ n.id > 0]

(* dr_lookup_module finds a module.                                        *)
Mapped(n) == n.ip # 0 => \E e \in loaded : e.base = BaseOf[n.ip]

(* hashtable_lookup, in a table that is not synchronised: it may miss its  *)
(* entry, or read freed memory, when an entry was added since the last row.*)
MayMiss(x, n) == n.ip # 0 /\ x \in raced

WriteCount(x) ==
  /\ w[x].pc = "rows" /\ w[x].todo = << >>
  /\ profile' = [profile EXCEPT ![x].count = count[x]]
  /\ w' = [w EXCEPT ![x].pc = "write", ![x].parents = <<0>>]
  /\ UNCHANGED <<treeVars, fileVars, moduleVars, asked>>

(* tranverseNewCCT, one row: the nodes of one parent, then those of each   *)
(* of them that has any.  Neither lookup is tested for null.               *)
WriteRow(x) ==
  LET t     == tree[x]
      peers == Children(t, Head(w[x].parents))
      n     == Min({k \in peers : k > w[x].last})
      kids  == IF IsLeaf(t, n) THEN w[x].kids ELSE Append(w[x].kids, n)
      next  == kids \o Tail(w[x].parents)
  IN
  /\ w[x].pc = "write"
  /\ \/ /\ ~Mapped(t[n]) \/ MayMiss(x, t[n])
        /\ Goto(x, "crash")
        /\ UNCHANGED <<profile, raced>>
     \/ /\ Mapped(t[n])
        /\ raced' = raced \ {x}
        /\ profile' = [profile EXCEPT ![x].rows = Append(@, RowOf(t[n]))]
        /\ IF \E k \in peers : k > n
           THEN w' = [w EXCEPT ![x].last = n, ![x].kids = kids]
           ELSE w' = [w EXCEPT ![x].last = 0, ![x].kids = << >>, ![x].parents = next,
                               ![x].pc = IF next = << >> THEN "done" ELSE "write"]
  /\ UNCHANGED <<treeVars, fileVars, tableVars, asked>>

-----------------------------------------------------------------------------
Step(x) ==
  \/ InsertIP(x) \/ SkipPath(x) \/ AddMetric(x) \/ EndBuild(x) \/ MergeIP(x)
  \/ Lock(x) \/ OpenNew(x) \/ NextName(x) \/ OpenFails(x)
  \/ LoadmapSize(x) \/ LoadmapAlloc(x) \/ LoadmapFill(x) \/ LoadmapList(x)
  \/ WriteCount(x) \/ WriteRow(x)

Next ==
  \/ \E x \in Writers :
       \/ \E list \in Selections[x] : Build(x, list) \/ BuildAnew(x, list)
       \/ WriteCustom(x)
       \/ \E contexts \in Contexts : WriteAll(x, contexts)
       \/ Step(x) \/ OpenErrors(x)
  \/ \E n \in Others : Foreign(n)
  \/ \E m \in Libs, ip \in Ips : ModuleLoad(m, BaseOf[ip])
  \/ \E e \in loaded : ModuleUnload(e)

(* A writer runs in an exit event, to its end.  That open fails for other  *)
(* reasons is nothing to count on.                                         *)
Spec == Init /\ [][Next]_vars /\ \A x \in Writers : WF_vars(Step(x))

-----------------------------------------------------------------------------
Rows(x) == profile[x].rows
Consistent(x) ==
  IF Mode[x] = "custom" THEN w[x].builds = 1
  ELSE \A i \in DOMAIN tree[x] : IsLeaf(tree[x], i) <=> tree[x][i].metric = 1

(* A profile that has been written can be read as a tree: as many rows as  *)
(* announced, each behind its parent's and naming it by the id its row     *)
(* has, ids unique over all profiles of the process though the threads     *)
(* build at once and ids change sign, and leaves marked by negative ids.   *)
(* The last is said of trees that were built once, and whose instructions  *)
(* either have callees whenever they occur or never.                       *)
ProfileWellFormed ==
  \A x \in Writers : w[x].pc = "done" =>
    /\ profile[x].count = Len(Rows(x))
    /\ \A k \in DOMAIN Rows(x) :
         /\ IF k = 1 THEN Rows(x)[k].parent = 0
            ELSE \E j \in 1 .. k - 1 : Rows(x)[j].id = Rows(x)[k].parent
         /\ \A y \in Writers : \A j \in DOMAIN Rows(y) :
              Rows(y)[j].id \in {Rows(x)[k].id, -Rows(x)[k].id} => x = y /\ j = k
         /\ Consistent(x) =>
              (Rows(x)[k].id < 0 <=>
                 \A j \in DOMAIN Rows(x) : Rows(x)[j].parent # Rows(x)[k].id)

(* However many lists of paths are merged, in parts that other threads'    *)
(* merging interleaves with, each path has one node, and its metric is the *)
(* sum of what was passed with the path: with an empty list of handles     *)
(* nothing is passed, and a list with a handle 0 passes the part of the    *)
(* path before it.                                                         *)
PathOf(t) ==
  LET path[i \in 0 .. Len(t)] ==
        IF i = 0 THEN << >> ELSE Append(path[t[i].up], t[i].ip)
  IN  path

Credited(path) ==
  LET valid == {n \in 0 .. Len(path) : \A k \in 1 .. n : path[k] # 0}
  IN  SubSeq(path, 1, Max(valid))

(* What the first k jobs of a list passed with a path.                     *)
Passes(job, path) == job.path # << >> /\ <<0>> \o Credited(job.path) = path

Sums(list, path) ==
  LET sum[k \in 0 .. Len(list)] ==
        IF k = 0 THEN 0
        ELSE sum[k - 1] + (IF Passes(list[k], path) THEN list[k].metric ELSE 0)
  IN  sum

MetricsAttributed ==
  \A x \in Writers : w[x].pc \in {"idle", "done"} =>
    LET path == PathOf(tree[x]) IN
    /\ \A i, k \in DOMAIN tree[x] : path[i] = path[k] => i = k
    /\ Mode[x] = "custom" =>
         /\ \A i \in DOMAIN tree[x] : tree[x][i].metric = Sums(asked[x], path[i])[Len(asked[x])]
         /\ \A k \in DOMAIN asked[x] : asked[x][k].path # << >> =>
              \E i \in DOMAIN tree[x] : Passes(asked[x][k], path[i])

(* The tree has an address that is in no module.                           *)
Outside(x) == \E i \in DOMAIN tree[x] : tree[x][i].ip # 0 /\ Generated(tree[x][i].ip)

(* The map of modules in a profile has the size announced, lists every     *)
(* module once at its id, and resolves each row to the module the address  *)
(* is in.  Not so, and the writer may crash, when a module is loaded while *)
(* the map is written, or was unloaded before the rows are.  Otherwise a   *)
(* writer crashes only at a path through generated code, or when a load    *)
(* adds to the table since its last row; such a load harms no row.         *)
LoadmapCovers ==
  \A x \in Writers : x \notin disturbed /\ ~unloaded =>
    /\ w[x].pc = "crash" => x \in raced \/ Outside(x)
    /\ w[x].pc = "done" =>
         /\ profile[x].size = Len(profile[x].map)
         /\ \A k \in DOMAIN profile[x].map : profile[x].map[k].id = k
         /\ \A k \in DOMAIN Rows(x) : Rows(x)[k].mod # 0 =>
              [base |-> BaseOf[Rows(x)[k].ip], mod |-> profile[x].map[Rows(x)[k].mod].mod]
                \in loaded

(* A writer that got past opening has a file of its own: neither another   *)
(* writer nor another process with the same pid and host id shares it.     *)
OwnFile ==
  \A x \in Writers :
    w[x].pc \in {"size", "alloc", "fill", "list", "rows", "write", "done", "crash"} =>
      Cardinality({n \in DOMAIN disk : disk[n] = x}) = 1

(* Writing ends, with a profile or without one: names run out, the lock is *)
(* released on every way out, the merge gets through its list.             *)
WritesEnd ==
  \A x \in Writers : w[x].pc = "open" ~> w[x].pc \in {"done", "failed", "crash"}
-----------------------------------------------------------------------------
(* The inductive invariant of HpcFormat_proofs.                            *)

Node   == [ip : Ips \cup {0}, up : Nat, id : Int, metric : Int, parent : Int]
Paths  == [path : Seq(Ips \cup {0}), metric : Int]
Visits == [depth : Nat \ {0}, ip : Ips \cup {0}, callee : BOOLEAN]
Bases  == {AppBase} \cup {BaseOf[ip] : ip \in Ips}
Module == [base : Bases, mod : Libs \cup {App}, id : Nat]
Row    == [id : Int, parent : Int, mod : Nat, metric : Int, ip : Ips \cup {0}, moved : BOOLEAN]
Opened == {"size", "alloc", "fill", "list", "rows", "write", "done", "crash"}
Writer == [pc : {"idle", "insert", "open", "try", "failed"} \cup Opened,
           todo : Seq(Paths) \cup Seq(Visits), cur : Nat, at : Seq(Nat), builds : Nat,
           n : Nat, vector : SUBSET Module, parents : Seq(Nat), kids : Seq(Nat), last : Nat]

TypeInv ==
  /\ next_id \in Nat
  /\ tree \in [Writers -> Seq(Node)]
  /\ count \in [Writers -> Nat]
  /\ w \in [Writers -> Writer]
  /\ profile \in [Writers -> [size : Nat, map : Seq(Module), count : Nat, rows : Seq(Row)]]
  /\ table \subseteq Module /\ IsFiniteSet(table) /\ next_key = Entries + 1

(* files_lock is with the writer that tries names, and a writer gets one   *)
(* file, on its way out of there.                                          *)
FileInv ==
  /\ lock \in Writers \cup {None}
  /\ \A x \in Writers :
       /\ w[x].pc = "try" <=> lock = x
       /\ w[x].pc \notin Opened => \A n \in DOMAIN disk : disk[n] # x
       /\ w[x].pc \in Opened => \E n \in DOMAIN disk :
            disk[n] = x /\ \A m \in DOMAIN disk : disk[m] = x => m = n

(* A tree is in order, its nodes name their parents by id, and no id is    *)
(* that of another node of any tree, with either sign.                     *)
TreeOK(x) ==
  /\ count[x] = Len(tree[x])
  /\ \A i \in DOMAIN tree[x] :
       /\ IF i = 1 THEN tree[x][i].up = 0 /\ tree[x][i].parent = 0
          ELSE /\ tree[x][i].up \in 1 .. i - 1
               /\ tree[x][i].parent = tree[x][tree[x][i].up].id
       /\ tree[x][i].id \in (- next_id .. next_id) \ {0}

SameId(a, b) == a = b \/ a = - b

TreeInv ==
  /\ \A x \in Writers : TreeOK(x)
  /\ \A x, y \in Writers : \A i \in DOMAIN tree[x], k \in DOMAIN tree[y] :
       SameId(tree[x][i].id, tree[y][k].id) => x = y /\ i = k

(* The places a writer remembers are in its tree, and what it still visits *)
(* hangs below one of them.                                                *)
Placed(x) ==
  LET list == w[x].todo
      at   == w[x].at
  IN
  /\ at # << >> /\ at[1] = 0
  /\ \A k \in DOMAIN at : k > 1 => at[k] \in DOMAIN tree[x]
  /\ w[x].pc # "idle" => list # << >> \/ tree[x] # << >>
  /\ IF w[x].pc = "insert"
     THEN Mode[x] = "custom" /\ w[x].cur \in DOMAIN tree[x] /\ list \in Seq(Paths)
     ELSE /\ list \in Seq(Visits)
          /\ Mode[x] = "custom" => list = << >>
          /\ \A k \in DOMAIN list : k > 1 => list[k].depth \in 2 .. list[k - 1].depth + 1
          /\ list # << >> => IF tree[x] = << >> THEN list[1].depth = 1
                             ELSE list[1].depth \in 2 .. Len(at)
  /\ IF Mode[x] = "custom" THEN at = <<0>> /\ (w[x].builds > 0 => tree[x] # << >>)
     ELSE w[x].pc = "idle" => tree[x] = << >>

(* Which ids are negative.                                                 *)
Signed(x) ==
  IF Mode[x] = "custom"
  THEN /\ w[x].builds = 0 => tree[x] = << >> /\ w[x].pc = "idle"
       /\ w[x].builds = 1 =>
            \A i \in DOMAIN tree[x] :
              tree[x][i].id < 0 <=> w[x].pc # "insert" /\ IsLeaf(tree[x], i)
  ELSE \A i \in DOMAIN tree[x] : tree[x][i].id < 0 <=> tree[x][i].metric = 1

(* A row is a node's, behind that of the node's parent.                    *)
RowFor(row, n) ==
  /\ row.id = n.id /\ row.parent = n.parent /\ row.ip = n.ip
  /\ IF n.ip = 0 THEN row.mod = 0
     ELSE \E e \in table : e.base = BaseOf[n.ip] /\ row.mod = e.id

RowsOK(x) ==
  /\ \A k \in DOMAIN Rows(x) : \E i \in DOMAIN tree[x] : RowFor(Rows(x)[k], tree[x][i])
  /\ \A j, k \in DOMAIN Rows(x) : Rows(x)[j].id = Rows(x)[k].id => j = k
  /\ \A k \in DOMAIN Rows(x) :
       IF k = 1 THEN Rows(x)[k].parent = 0
       ELSE \E j \in 1 .. k - 1 : Rows(x)[j].id = Rows(x)[k].parent

Written(x) == {i \in DOMAIN tree[x] : \E k \in DOMAIN Rows(x) : Rows(x)[k].id = tree[x][i].id}

(* The parents whose children still come, and what of the first one's has. *)
Pending(x) == ToSet(w[x].parents) \cup ToSet(w[x].kids)

Half(x) ==
  LET h == Head(w[x].parents) IN
  /\ w[x].parents # << >>
  /\ IsInjective(w[x].parents) /\ IsInjective(w[x].kids)
  /\ ToSet(w[x].parents) \cap ToSet(w[x].kids) = {}
  /\ IF Rows(x) = << >> THEN w[x].parents = <<0>> /\ w[x].kids = << >> /\ w[x].last = 0
     ELSE Pending(x) \subseteq Written(x)
  /\ \A q \in Pending(x) : ~IsLeaf(tree[x], q)
  /\ \E k \in Children(tree[x], h) : k > w[x].last
  /\ \A i \in DOMAIN tree[x] :
       LET q == tree[x][i].up IN
       i \in Written(x) <=> \/ q \in (Written(x) \cup {0}) \ Pending(x)
                            \/ q = h /\ i <= w[x].last

Recorded(x) ==
  /\ RowsOK(x)
  /\ w[x].pc \notin {"write", "done", "crash"} =>
       Rows(x) = << >> /\ w[x].kids = << >> /\ w[x].last = 0
  /\ w[x].pc \in {"write", "done"} => profile[x].count = count[x]
  /\ w[x].pc = "write" => Half(x)
  /\ w[x].pc = "done" => Written(x) = DOMAIN tree[x]

(* Ids of modules are 1 to their number, and an address of a tree, or one  *)
(* that is going to be, has a module.                                      *)
TableInv ==
  /\ \A e \in table : e.id \in 1 .. Entries
  /\ \A e, f \in table : e.id = f.id \/ e.base = f.base => e = f
  /\ \A k \in 1 .. Entries : \E e \in table : e.id = k
  /\ \A e \in table : e.base # None
  /\ \A e \in loaded : \E f \in table : f.base = e.base
  /\ ~unloaded => \A e \in table : [base |-> e.base, mod |-> e.mod] \in loaded

Addresses(x) ==
  {tree[x][i].ip : i \in DOMAIN tree[x]} \cup
    IF w[x].pc = "insert" THEN Passed(w[x].todo) ELSE {w[x].todo[k].ip : k \in DOMAIN w[x].todo}

(* What a writer has read of the number of modules, or of the table.       *)
Mapping(x) ==
  LET map == profile[x].map IN
  /\ w[x].pc \in {"alloc", "fill", "list"} => profile[x].size = Entries
  /\ w[x].pc \in {"fill", "list"} => w[x].n = Entries
  /\ w[x].pc = "list" => w[x].vector = table
  /\ w[x].pc \in {"rows", "write", "done"} =>
       /\ profile[x].size = Len(map)
       /\ \A k \in DOMAIN map : map[k] \in table /\ map[k].id = k
       /\ \A ip \in Addresses(x) \ {0} :
            Generated(ip) \/ \E k \in DOMAIN map : map[k].base = BaseOf[ip]
  /\ w[x].pc = "crash" => unloaded \/ x \in raced \/ Outside(x)

Covered(x) == Executed(Addresses(x)) /\ (x \notin disturbed => Mapping(x))

(* No two nodes of a parent have the same address.  The metrics are those  *)
(* of the jobs done, and what is left of the job under way leads from the  *)
(* node the writer is at to the one the job is for, and is empty at the    *)
(* root only if it was from the start.                                     *)
Distinct(t) == \A i, k \in DOMAIN t : t[i].up = t[k].up /\ t[i].ip = t[k].ip => i = k

JobsDone(x) ==
  IF w[x].pc = "insert" THEN Len(asked[x]) - Len(w[x].todo) ELSE Len(asked[x])

Attributed(x) ==
  LET t    == tree[x]
      path == PathOf(t)
      list == asked[x]
      rest == w[x].todo
      n    == JobsDone(x)
  IN
  /\ n \in Nat
  /\ IF t = << >> THEN list = << >> ELSE t[1].ip = 0
  /\ \A i \in DOMAIN t : t[i].metric = Sums(list, path[i])[n]
  /\ \A k \in 1 .. n : list[k].path # << >> => \E i \in DOMAIN t : Passes(list[k], path[i])
  /\ w[x].pc = "insert" =>
       /\ \A k \in DOMAIN rest : rest[k].metric = list[n + k].metric
       /\ \A k \in DOMAIN rest : k > 1 => rest[k].path = list[n + k].path
       /\ rest # << >> =>
            /\ path[w[x].cur] \o Credited(rest[1].path) = <<0>> \o Credited(list[n + 1].path)
            /\ list[n + 1].path = << >> <=> rest[1].path = << >> /\ w[x].cur = 1

AttributionInv ==
  /\ asked \in [Writers -> Seq(Paths)]
  /\ \A x \in Writers : Distinct(tree[x]) /\ (Mode[x] = "custom" => Attributed(x))

FormatInv ==
  /\ TypeInv /\ FileInv /\ TreeInv /\ TableInv
  /\ \A x \in Writers : Placed(x) /\ Signed(x) /\ Recorded(x) /\ Covered(x)
=============================================================================
