--------------------------- MODULE MCVmOperations ---------------------------
(***************************************************************************)
(* What users do to virtual machines: the operations themselves             *)
(* (VmOperations), the pages that offer them (Access), and the form that    *)
(* orders a machine (VmForm).  Each behaviour follows the one chosen by     *)
(* focus and leaves the variables of the others alone.                      *)
(***************************************************************************)
EXTENDS VmOperations, Access, VmForm

VARIABLE focus

userVars == <<focus, vars, accessVars, formVars>>

\* Those that are not followed have one initial state.
UserInit ==
  /\ focus \in {"operations", "access", "form"}
  /\ Init
  /\ AccessInit
  /\ FormInit
  /\ focus # "access" => granted = {}

UserNext ==
  \/ focus = "operations" /\ Next /\ UNCHANGED <<focus, accessVars, formVars>>
  \/ focus = "access" /\ AccessNext /\ UNCHANGED <<focus, vars, formVars>>
  \/ focus = "form" /\ FormNext /\ UNCHANGED <<focus, vars, accessVars>>

UserSpec == UserInit /\ [][UserNext]_userVars

-----------------------------------------------------------------------------
(* Values of the constants and bounds.                                     *)

Requests == Permutations(Request)

\* Up to four requests while they wait for each other, three when calls are lost or
\* writes rejected, and two that overlap.
RequestsMade == Cardinality({r \in Request : job[r].phase # "none"})

RequestsUnderWay ==
  /\ overlapped => RequestsMade <= 2
  /\ faults > 0 => RequestsMade <= 3

\* One dialog at a time is left open: a page offers each by itself.  With a role that
\* was changed under it, only the way back to the role as it was would be left.
DialogsOpen ==
  /\ Cardinality(dialogs) <= 1
  /\ dialogs # {} => known = granted

\* The roles of the seed, and roles that give little more than a page.
SomeGrants ==
  SeededGrants \cup
  {{}, {"vm.read"}, {"vm.read", "vm.power"}, {"vm.read", "vm.create"},
   {"vm.read", "vm.create", "node.read", "network.read"}, {"vm.read", "backup.read"},
   {"node.read", "node.manage"},
   {"storage.read", "network.read", "network.manage", "audit.read"},
   {"user.manage", "license.read", "license.manage"}}

\* Two nodes and two networks with a pool each, a small and a large template.
PoolsOnNodes == [s1 |-> "n1", s2 |-> "n2"]
PoolsOfNetworks == [ip1 |-> "net1", ip2 |-> "net2"]
TwoTemplates == [small |-> 10, large |-> 60]

=============================================================================
