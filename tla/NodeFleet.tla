------------------------------ MODULE NodeFleet ------------------------------
(***************************************************************************)
(* The nodes of the panel: NodesService (backend/src/nodes) and pickNode   *)
(* of VmsService, interleaved with the heartbeats of the agents.           *)
(*                                                                         *)
(* A node row is inserted by a call of join, so a node has the name of the *)
(* call that made it.  Time is reduced to what the code asks of it: a      *)
(* token has expired or not, a last heartbeat is missing, recent, or older *)
(* than the 60 s of markStaleNodesOffline.                                 *)
(***************************************************************************)
EXTENDS Naturals, FiniteSets

CONSTANTS
  Node,        \* the calls of join, and the nodes they insert
  Token,       \* join tokens
  TokenOf,     \* TokenOf[j]: the token that call j presents
  NameOf,      \* NameOf[k]: the node name that token k is bound to
  Vm,          \* the calls of create, and the VMs they insert
  MaxToggles,  \* bound of the model: calls of setMaintenance
  NoNode

ASSUME FleetAssumption ==
  /\ TokenOf \in [Node -> Token]
  /\ DOMAIN NameOf = Token
  /\ MaxToggles \in Nat
  /\ NoNode \notin Node

VARIABLES
  node,     \* nodes.state; "none" before the insert, "gone" after the delete
  beat,     \* nodes.lastHeartbeatAt: "never", "recent" or "stale"
  used,     \* tokens with a usedAt
  expired,  \* tokens past their expiresAt
  joining,  \* where each join call stands
  alive,    \* nodes whose agent runs
  sent,     \* heartbeats that have been sent and not been handled
  picked,   \* the node that pickNode returned to a create call
  host,     \* vms.nodeId of the VMs that exist
  draining, \* nodes whose drain has read the VMs and not yet set maintenance
  removing, \* nodes whose remove has counted no VMs
  toggles   \* number of calls of setMaintenance and drain

vars == <<node, beat, used, expired, joining, alive, sent, picked, host,
          draining, removing, toggles>>
agents == <<alive, sent>>
tokens == <<used, expired, joining>>
placing == <<picked, host>>
admin == <<draining, removing, toggles>>

NodeState == {"joining", "online", "offline", "maintenance"}

TypeOK ==
  /\ node \in [Node -> NodeState \union {"none", "gone"}]
  /\ beat \in [Node -> {"never", "recent", "stale"}]
  /\ used \subseteq Token
  /\ expired \subseteq Token
  /\ joining \in [Node -> {"start", "signing", "joined", "rejected"}]
  /\ alive \subseteq Node
  /\ sent \subseteq Node
  /\ picked \in [Vm -> Node \union {NoNode}]
  /\ host \in [Vm -> Node \union {NoNode}]
  /\ draining \subseteq Node
  /\ removing \subseteq Node
  /\ toggles \in 0 .. MaxToggles

Init ==
  /\ node = [j \in Node |-> "none"]
  /\ beat = [j \in Node |-> "never"]
  /\ used = {}
  /\ expired = {}
  /\ joining = [j \in Node |-> "start"]
  /\ alive = {}
  /\ sent = {}
  /\ picked = [v \in Vm |-> NoNode]
  /\ host = [v \in Vm |-> NoNode]
  /\ draining = {}
  /\ removing = {}
  /\ toggles = 0

Exists(j) == node[j] \in NodeState
NodeName(j) == NameOf[TokenOf[j]]
VmsOn(j) == {v \in Vm : host[v] = j}

-----------------------------------------------------------------------------
(* join: the token is checked, the CSR is signed, and one transaction      *)
(* marks the token and inserts the node.                                   *)

Expire(k) ==
  /\ k \notin expired
  /\ expired' = expired \union {k}
  /\ UNCHANGED <<node, beat, used, joining, agents, placing, admin>>

Usable(k) == k \notin used /\ k \notin expired

CheckToken(j) ==
  /\ joining[j] = "start"
  /\ joining' = [joining EXCEPT ![j] = IF Usable(TokenOf[j]) THEN "signing"
                                                           ELSE "rejected"]
  /\ UNCHANGED <<node, beat, used, expired, agents, placing, admin>>

MutantNameNotUnique(j) == TRUE

\* The unique index on nodes.name.
NameFree(j) == \A i \in Node : Exists(i) => NodeName(i) # NodeName(j)

InitialState == "joining"

\* The transaction does not look at the token again.
CommitJoin(j) ==
  /\ joining[j] = "signing"
  /\ IF NameFree(j)
     THEN /\ node' = [node EXCEPT ![j] = InitialState]
          /\ used' = used \union {TokenOf[j]}
          /\ joining' = [joining EXCEPT ![j] = "joined"]
          /\ alive' = alive \union {j}
     ELSE /\ joining' = [joining EXCEPT ![j] = "rejected"]
          /\ UNCHANGED <<node, used, alive>>
  /\ UNCHANGED <<beat, expired, sent, placing, admin>>

-----------------------------------------------------------------------------
(* Heartbeats and the watch over them.                                     *)

SendHeartbeat(j) ==
  /\ j \in alive
  /\ sent' = sent \union {j}
  /\ UNCHANGED <<node, beat, tokens, alive, placing, admin>>

\* Whatever the state of the node was; the update throws without a row.
Heartbeat(j) ==
  /\ j \in sent
  /\ sent' = sent \ {j}
  /\ IF Exists(j)
     THEN /\ node' = [node EXCEPT ![j] = "online"]
          /\ beat' = [beat EXCEPT ![j] = "recent"]
     ELSE UNCHANGED <<node, beat>>
  /\ UNCHANGED <<tokens, alive, placing, admin>>

AgentDies(j) ==
  /\ j \in alive
  /\ alive' = alive \ {j}
  /\ UNCHANGED <<node, beat, tokens, sent, placing, admin>>

\* More than 60 s without a heartbeat: the agent is dead, or cut off.
MinutePasses(j) ==
  /\ beat[j] = "recent"
  /\ beat' = [beat EXCEPT ![j] = "stale"]
  /\ UNCHANGED <<node, tokens, agents, placing, admin>>

MutantSkipsIdle(j) == node[j] = "online" /\ beat[j] = "stale" /\ VmsOn(j) # {}

IsStale(j) == node[j] = "online" /\ beat[j] = "stale"

MarkStaleNodesOffline ==
  /\ \E j \in Node : IsStale(j)
  /\ node' = [j \in Node |-> IF IsStale(j) THEN "offline" ELSE node[j]]
  /\ UNCHANGED <<beat, tokens, agents, placing, admin>>

-----------------------------------------------------------------------------
(* Maintenance, drain and removal by an administrator.                     *)

SetMaintenance(j) ==
  /\ Exists(j)
  /\ toggles < MaxToggles
  /\ toggles' = toggles + 1
  /\ \E st \in {"maintenance", "online"} : node' = [node EXCEPT ![j] = st]
  /\ UNCHANGED <<beat, tokens, agents, placing, draining, removing>>

\* Drain reads the VMs that are neither being deleted nor in error and the nodes that
\* are online, enqueues a migration for each VM (which changes nothing here), and then
\* sets maintenance.  It is refused when there is a VM to move and no node for it;
\* the states of the VMs are not followed here, so it may go on with any of them.
BeginDrain(j) ==
  /\ Exists(j)
  /\ j \notin draining
  /\ toggles < MaxToggles
  /\ toggles' = toggles + 1
  /\ draining' = draining \union {j}
  /\ UNCHANGED <<node, beat, tokens, agents, placing, removing>>

EndDrain(j) ==
  /\ j \in draining
  /\ draining' = draining \ {j}
  /\ node' = IF Exists(j) THEN [node EXCEPT ![j] = "maintenance"] ELSE node
  /\ UNCHANGED <<beat, tokens, agents, placing, removing, toggles>>

CountVms(j) ==
  /\ Exists(j)
  /\ VmsOn(j) = {}
  /\ removing' = removing \union {j}
  /\ UNCHANGED <<node, beat, tokens, agents, placing, draining, toggles>>

\* The foreign key of vms.nodeId refuses the delete when a VM has come.
Deletable(j) == VmsOn(j) = {}

RemoveNode(j) ==
  /\ j \in removing
  /\ removing' = removing \ {j}
  /\ node' = IF Deletable(j) THEN [node EXCEPT ![j] = "gone"] ELSE node
  /\ UNCHANGED <<beat, tokens, agents, placing, draining, toggles>>

-----------------------------------------------------------------------------
(* create of VmsService: pickNode first, the insert later.                 *)

PickNode(v) ==
  /\ picked[v] = NoNode
  /\ \E j \in Node : node[j] = "online" /\ picked' = [picked EXCEPT ![v] = j]
  /\ UNCHANGED <<node, beat, tokens, agents, host, admin>>

\* The insert is refused when the node has gone.
PlaceVm(v) ==
  /\ picked[v] # NoNode
  /\ host[v] = NoNode
  /\ Exists(picked[v])
  /\ host' = [host EXCEPT ![v] = picked[v]]
  /\ UNCHANGED <<node, beat, tokens, agents, picked, admin>>

-----------------------------------------------------------------------------
Next ==
  \/ \E k \in Token : Expire(k)
  \/ \E j \in Node :
       \/ CheckToken(j)
       \/ CommitJoin(j)
       \/ SendHeartbeat(j)
       \/ Heartbeat(j)
       \/ AgentDies(j)
       \/ MinutePasses(j)
       \/ SetMaintenance(j)
       \/ BeginDrain(j)
       \/ EndDrain(j)
       \/ CountVms(j)
       \/ RemoveNode(j)
  \/ MarkStaleNodesOffline
  \/ \E v \in Vm : PickNode(v) \/ PlaceVm(v)

Spec == Init /\ [][Next]_vars

\* Time passes, the cron job runs every 30 s, and what was sent is handled.
Fairness ==
  /\ WF_vars(MarkStaleNodesOffline)
  /\ \A j \in Node : /\ WF_vars(MinutePasses(j))
                     /\ WF_vars(Heartbeat(j))
                     /\ WF_vars(EndDrain(j))

FairSpec == Spec /\ Fairness
-----------------------------------------------------------------------------
(* Properties.                                                             *)

JoinedWith(k) == {j \in Node : joining[j] = "joined" /\ TokenOf[j] = k}

\* A join token makes one node, although two calls may find it valid at the
\* same time and neither looks again when it marks it: the second insert runs
\* into the unique name.  Only the removal of the first node in between opens
\* the way again.
TokenMakesOneNode ==
  \A k \in Token : \A i, j \in JoinedWith(k) :
    i = j \/ "gone" \in {node[i], node[j]}

\* A VM lives on a node that exists, and so never on a node whose removal had
\* counted no VMs before it came.
HostExists == \A v \in Vm : host[v] # NoNode => Exists(host[v])

\* A node whose agent has died after a heartbeat does not stay online: late
\* heartbeats, toggled maintenance and drains only delay the mark.
SilentNodeGoesOffline ==
  \A j \in Node :
    (node[j] = "online" /\ j \notin alive /\ beat[j] # "never")
      ~> (node[j] # "online")
=============================================================================
