------------------------------ MODULE MCEdges ------------------------------
(***************************************************************************)
(* One run for what lies at the edges of the panel and shares no state with *)
(* each other: the nodes that join it, what an agent keeps for itself       *)
(* (images, consoles, firewall chains) and what a browser does (pages, the  *)
(* card of a plan).  Each behaviour follows the one chosen by focus, by the *)
(* actions of its own module, and leaves the variables of the others alone. *)
(***************************************************************************)
EXTENDS TemplateCache, NodeFleet, Console, Assistant, Firewall, Panel

CONSTANTS j1, j2, k1, v1, p1

VARIABLE focus

edgeVars == <<focus, vars, cacheVars, consoleVars, firewallVars, assistantVars, panelVars>>

\* Those that are not followed have one initial state.
EdgeInit ==
  /\ focus \in {"fleet", "images", "consoles", "firewall", "assistant", "panel"}
  /\ IF focus = "images" THEN TRUE ELSE version = [d \in Download |-> Expected]
  /\ IF focus = "panel" THEN TRUE ELSE view = CHOOSE q \in Views : TRUE
  /\ Init
  /\ CacheInit
  /\ ConsoleInit
  /\ FirewallInit
  /\ AssistantInit
  /\ PanelInit

EdgeNext ==
  \/ focus = "fleet" /\ Next
       /\ UNCHANGED <<focus, cacheVars, consoleVars, firewallVars, assistantVars, panelVars>>
  \/ focus = "images" /\ CacheNext
       /\ UNCHANGED <<focus, vars, consoleVars, firewallVars, assistantVars, panelVars>>
  \/ focus = "consoles" /\ ConsoleNext
       /\ UNCHANGED <<focus, vars, cacheVars, firewallVars, assistantVars, panelVars>>
  \/ focus = "firewall" /\ FirewallNext
       /\ UNCHANGED <<focus, vars, cacheVars, consoleVars, assistantVars, panelVars>>
  \/ focus = "assistant" /\ AssistantNext
       /\ UNCHANGED <<focus, vars, cacheVars, consoleVars, firewallVars, panelVars>>
  \/ focus = "panel" /\ PanelNext
       /\ UNCHANGED <<focus, vars, cacheVars, consoleVars, firewallVars, assistantVars>>

\* The fairness of Panel!PanelSpec and of NodeFleet!FairSpec; of the steps that
\* the latter speaks of, none is enabled as long as there is no node.
EdgeFairness ==
  /\ WF_panelVars(focus = "panel" /\ Answers)
  /\ WF_panelVars(focus = "panel" /\ Refetch)
  /\ WF_panelVars(focus = "panel" /\ Arrives)
  /\ Fairness

EdgeSpec == EdgeInit /\ [][EdgeNext]_edgeVars /\ EdgeFairness

-----------------------------------------------------------------------------
(* Values of the constants.                                                 *)

Kind(d, a, p, from, to, net, n) ==
  [direction |-> d, action |-> a, protocol |-> p, from |-> from, to |-> to,
   cidr |-> net, priority |-> n]

\* A range, a drop of a network, a single port, and a rule nft does not take.
SomeRules == {Kind("in", "accept", "tcp", 1, 2, "0.0.0.0/0", 1),
              Kind("in", "drop", "any", 0, 0, "10.0.0.0/8", 2),
              Kind("out", "accept", "udp", 2, 0, "0.0.0.0/0", 1),
              Kind("in", "accept", "tcp", 0, 0, "0.0.0.0/0", 2)}

\* The second step of one of the plans.
OneBackup == {<<p1, 2>>}

\* Two calls of join that present the same token.
OneToken == [j \in Node |-> k1]
Names == [k \in Token |-> "host"]
=============================================================================
