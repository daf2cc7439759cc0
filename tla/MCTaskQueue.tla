----------------------------- MODULE MCTaskQueue -----------------------------
(* Instances of TaskQueue for TLC.                                         *)
EXTENDS TaskQueue, FiniteSets, TLC

CONSTANTS t1, t2, s1, s2

\* t1 is a backup of a VM, t2 the start of a container.
MCServiceOf == (t1 :> "vms") @@ (t2 :> "containers")

\* The order of the hooks is the distance of the modules in the import graph;
\* AiModule imports VmsModule, nothing imports ContainersModule.
ActualOrder == {<<"vms", "containers">>}
AnyOrder == {<<"vms", "containers">>, <<"containers", "vms">>}

\* Tasks share only the executions and the handler: one task at a time, of
\* either kind, leaves room for more attempts, crashes and faults.
OneTask == Cardinality({t \in Task : row[t] # "none"}) <= 1

OneTaskSpec == Init /\ [][Next /\ OneTask']_vars /\ Fairness
=============================================================================
