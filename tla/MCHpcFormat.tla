----------------------------- MODULE MCHpcFormat -----------------------------
(***************************************************************************)
(* Thread 0 and, after it, the process build their trees from paths;       *)
(* thread 1 writes its calling context tree.  Two places for modules, and  *)
(* one address of generated code; lists of handles that are empty or have a*)
(* handle 0 first or later.                                                *)
(***************************************************************************)
EXTENDS HpcFormat

MCProgress == -1
MCWriters == {0, 1, MCProgress}
MCMode == [x \in Writers |-> IF x = 1 THEN "all" ELSE "custom"]
MCMaxBuilds == [x \in Writers |-> IF x = 0 THEN 2 ELSE 1]
MCBaseOf == [ip \in Ips |-> CASE ip < 3 -> 1 [] ip = 3 -> 2 [] ip > 3 -> None]

Job(path, metric) == [path |-> path, metric |-> metric]
MCSelections == [x \in Writers |->
  IF x = 0 THEN {<<Job(<<3>>, 1)>>, <<Job(<<1, 0, 2>>, 2)>>}
           ELSE {<<Job(<<1, 3>>, 1), Job(<< >>, 8), Job(<<0, 1>>, 16), Job(<<1>>, 2)>>, <<Job(<<4>>, 1)>>}]

Visit(depth, ip, callee) == [depth |-> depth, ip |-> ip, callee |-> callee]
MCContexts == {
  <<Visit(1, 0, TRUE), Visit(2, 1, TRUE), Visit(3, 2, FALSE), Visit(2, 1, TRUE)>>}

Name0(tid, gen) == [tid |-> tid, host |-> Home, gen |-> gen]
MCOthers == {Name0(0, 0), Name0(0, 1)}
=============================================================================
