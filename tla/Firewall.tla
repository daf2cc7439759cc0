----------------------------- MODULE Firewall ------------------------------
(***************************************************************************)
(* Firewall rules of one VM: rows of table FirewallRule in the panel       *)
(* (VmsService.createFirewallRule, deleteFirewallRule, applyFirewallRules) *)
(* and the nftables chain the agent renders from them                      *)
(* (Server.handleApplyFirewall, firewall.Apply, buildRule).  Every change  *)
(* of a row reads the rows again and sends all of them, so the requests of *)
(* two administrators may reach the agent in either order.  nft itself is  *)
(* external: it takes a whole script or none of it, and the agent answers  *)
(* "applied" either way.                                                   *)
(***************************************************************************)
EXTENDS Naturals, Sequences, FiniteSets, SequencesExt

CONSTANTS RuleIds,     \* rows that may be created
          RuleKinds,   \* what a rule may say: [direction, action, protocol, from, to, cidr,
                       \* priority], 0 for a port that is not given
          Ports,       \* ports packets are sent to
          Calls        \* applyFirewall requests that may be under way

\* What createFirewallRule lets a rule say.
ASSUME FirewallAssumption ==
  /\ IsFiniteSet(RuleIds) /\ Ports \subseteq Nat
  /\ \A k \in RuleKinds : /\ k.direction \in {"in", "out"} /\ k.action \in {"accept", "drop"}
                          /\ k.protocol \in {"tcp", "udp", "icmp", "any"}
                          /\ {k.from, k.to, k.priority} \subseteq Nat

VARIABLES rule,        \* table FirewallRule, "none" for a row that is not there
          vmUp,        \* state of the Vm row is running
          sending,     \* what each request carries
          chain,       \* the chain of the VM's NIC
          source       \* history: the rules the chain was rendered from

firewallVars == <<rule, vmUp, sending, chain, source>>

NoRule == [direction |-> "none"]
Unsent == [step |-> "idle", rules |-> <<>>]

Rows == {r \in RuleIds : rule[r] # NoRule}

FirewallTypeOK ==
  /\ rule \in [RuleIds -> RuleKinds \cup {NoRule}]
  /\ vmUp \in BOOLEAN
  /\ sending \in [Calls -> [step : {"idle", "read", "sent"}, rules : Seq(RuleKinds)]]
  /\ source \in Seq(RuleKinds)
  /\ \A i \in DOMAIN chain : chain[i].action \in {"accept", "drop"}

FirewallInit ==
  /\ rule = [r \in RuleIds |-> NoRule]
  /\ vmUp = FALSE
  /\ sending = [c \in Calls |-> Unsent]
  /\ chain = <<>> /\ source = <<>>

-----------------------------------------------------------------------------
(* Rendering.  A line names the side of the MAC it matches, the network it *)
(* is restricted to, the protocol, the ports lo..hi or 0 for all of them,  *)
(* and the verdict.                                                        *)

\* (Defect for a mutant run: a range is cut to its first port.)
MutantPortMatch(r) == [lo |-> r.from, hi |-> r.from]

\* "dport a-b" when portTo is given and differs, "dport a" otherwise; icmp and any
\* have no ports.
PortMatch(r) ==
  IF r.protocol \notin {"tcp", "udp"} \/ r.from = 0 THEN [lo |-> 0, hi |-> 0]
  ELSE [lo |-> r.from, hi |-> IF r.to > 0 /\ r.to # r.from THEN r.to ELSE r.from]

BuildRule(r) == [side |-> r.direction, cidr |-> r.cidr, protocol |-> r.protocol,
                 ports |-> PortMatch(r), action |-> r.action]

DropAll(d) == [side |-> d, cidr |-> "0.0.0.0/0", protocol |-> "any",
               ports |-> [lo |-> 0, hi |-> 0], action |-> "drop"]

Mentions(rs, d) == \E i \in DOMAIN rs : rs[i].direction = d

\* The rules in the order they came, then one drop for each direction they mention.
Render(rs) ==
  [i \in DOMAIN rs |-> BuildRule(rs[i])]
    \o (IF Mentions(rs, "in") THEN <<DropAll("in")>> ELSE <<>>)
    \o (IF Mentions(rs, "out") THEN <<DropAll("out")>> ELSE <<>>)

-----------------------------------------------------------------------------
(* The panel.                                                               *)

\* orderBy priority asc: rows of one priority come in any order.
Ordered(S) == {s \in SetToSeqs(S) : \A i, j \in DOMAIN s :
                                      i < j => rule[s[i]].priority <= rule[s[j]].priority}

\* Every change of a row is followed by applyFirewallRules.
ThenApply(c) == /\ sending[c].step = "idle"
                /\ sending' = [sending EXCEPT ![c].step = "read"]

CreateRule(c, r, k) ==
  /\ rule[r] = NoRule
  /\ rule' = [rule EXCEPT ![r] = k]
  /\ ThenApply(c)
  /\ UNCHANGED <<vmUp, chain, source>>

\* deleteMany, which also follows through when the row is gone.
DeleteRule(c, r) ==
  /\ rule' = [rule EXCEPT ![r] = NoRule]
  /\ ThenApply(c)
  /\ UNCHANGED <<vmUp, chain, source>>

\* applyFirewallRules: one query reads the VM and its rules; nothing is sent for a
\* VM that is not running.
ReadRules(c) ==
  /\ sending[c].step = "read"
  /\ IF vmUp
       THEN \E s \in Ordered(Rows) :
              sending' = [sending EXCEPT ![c] =
                            [step |-> "sent", rules |-> [i \in DOMAIN s |-> rule[s[i]]]]]
       ELSE sending' = [sending EXCEPT ![c] = Unsent]
  /\ UNCHANGED <<rule, vmUp, chain, source>>

\* The request is lost, or the agent does not know the domain: a warning is logged.
ApplyLost(c) ==
  /\ sending[c].step = "sent"
  /\ sending' = [sending EXCEPT ![c] = Unsent]
  /\ UNCHANGED <<rule, vmUp, chain, source>>

\* "tcp accept" and "dport 5-3" are no nft syntax.
Malformed(r) == /\ r.protocol \in {"tcp", "udp"}
                /\ r.from = 0 \/ r.to \in 1..r.from - 1

\* nft does not take the script: the error is logged, and the answer is "applied".
ApplyRefused(c) ==
  /\ sending[c].step = "sent"
  /\ \E i \in DOMAIN sending[c].rules : Malformed(sending[c].rules[i])
  /\ sending' = [sending EXCEPT ![c] = Unsent]
  /\ UNCHANGED <<rule, vmUp, chain, source>>

\* flush and add in one script: nft replaces the chain or leaves it as it was.
Apply(c) ==
  /\ sending[c].step = "sent"
  /\ \A i \in DOMAIN sending[c].rules : ~Malformed(sending[c].rules[i])
  /\ chain' = Render(sending[c].rules)
  /\ source' = sending[c].rules
  /\ sending' = [sending EXCEPT ![c] = Unsent]
  /\ UNCHANGED <<rule, vmUp>>

\* Start and stop leave the rules and the chain alone; so does handleDeleteVm,
\* whose Flush names a chain without the part of the MAC that Apply adds.
VmChanges == vmUp' = ~vmUp /\ UNCHANGED <<rule, sending, chain, source>>

FirewallNext ==
  \/ \E c \in Calls :
       \/ \E r \in RuleIds : DeleteRule(c, r) \/ \E k \in RuleKinds : CreateRule(c, r, k)
       \/ ReadRules(c) \/ ApplyLost(c) \/ ApplyRefused(c) \/ Apply(c)
  \/ VmChanges

FirewallSpec == FirewallInit /\ [][FirewallNext]_firewallVars

-----------------------------------------------------------------------------
(* What a chain means, and what the rules mean.                             *)

Packets == [side : {"in", "out"}, protocol : {"tcp", "udp", "icmp"}, port : Ports,
            cidr : {RuleKind.cidr : RuleKind \in RuleKinds} \cup {"elsewhere"}]

LineMatches(l, p) ==
  /\ l.side = p.side
  /\ l.cidr \in {"0.0.0.0/0", p.cidr}
  /\ l.protocol \in {"any", p.protocol}
  /\ l.ports.lo > 0 => l.ports.lo <= p.port /\ p.port <= l.ports.hi

\* nftables: the first line that matches decides; FORWARD accepts the rest.
Verdict(ls, p) ==
  LET hits == {i \in DOMAIN ls : LineMatches(ls[i], p)}
  IN IF hits = {} THEN "accept" ELSE ls[CHOOSE i \in hits : \A j \in hits : i <= j].action

\* A rule speaks of the packets of its direction, network and protocol whose port
\* lies between portFrom and portTo, or is portFrom when there is no portTo.
SpeaksOf(r, p) ==
  /\ r.direction = p.side
  /\ r.cidr \in {"0.0.0.0/0", p.cidr}
  /\ r.protocol \in {"any", p.protocol}
  /\ r.protocol \in {"tcp", "udp"} /\ r.from > 0 =>
       p.port \in {q \in Ports : r.from <= q /\ (IF r.to = 0 THEN q = r.from ELSE q <= r.to)}

\* Whatever rules reached the agent, and in whatever order the requests of several
\* administrators arrived, a packet the chain accepts is one that a rule of the
\* lowest priority number among those that speak of it accepts, or one no rule
\* speaks of in a direction without rules; and the same for what it drops.
ChainMeansRules ==
  \A p \in Packets :
    LET S == {i \in DOMAIN source : SpeaksOf(source[i], p)}
        first == {i \in S : \A j \in S : source[i].priority <= source[j].priority}
    IN IF S = {}
         THEN Verdict(chain, p) = IF Mentions(source, p.side) THEN "drop" ELSE "accept"
         ELSE Verdict(chain, p) \in {source[i].action : i \in first}
=============================================================================
