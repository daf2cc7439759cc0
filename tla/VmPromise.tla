----------------------------- MODULE VmPromise -----------------------------
(***************************************************************************)
(* What users are promised about a VM, whatever tasks, retries, timeouts   *)
(* and late requests do underneath (docs/API.md; VmsService and the agent   *)
(* implement it): a name belongs to one VM at a time, and what is built     *)
(* under it is that VM's; nothing is taken away again before a removal was  *)
(* asked for and has begun; a VM is shown as running, stopped or paused     *)
(* only while it is complete; and it is gone only when nothing is left.     *)
(*                                                                         *)
(* A VM is excused when a deletion overlapped another command of its name,  *)
(* when a deletion of its name passed over an error of libvirt or of the    *)
(* storage (the agent reports success all the same), or when its guest may  *)
(* be paused by the hypervisor; nothing is promised of it any more.         *)
(* VmLifecycle implements this module: see KeepsVmPromise there.            *)
(***************************************************************************)
CONSTANTS Vm, Name, NameOf

VARIABLES
  life,   \* what has become of a VM
  asked,  \* VMs whose removal was asked for
  built   \* what there is of a VM on its node

vars == <<life, asked, built>>

Existing == {"ordered", "shown", "removing", "doomed"}
Life == Existing \union {"none", "gone", "excused"}
Parts == {"domain", "disks"}

Namesakes(v) == {w \in Vm \ {v} : NameOf[w] = NameOf[v]}

Init ==
  /\ life \in [Vm -> {"none", "excused"}]
  /\ asked = {}
  /\ built = [v \in Vm |-> {}]

Order(v) ==
  /\ life[v] = "none"
  /\ \A w \in Namesakes(v) : life[w] \notin Existing
  /\ life' = [life EXCEPT ![v] = "ordered"]
  /\ UNCHANGED <<asked, built>>

\* Once the removal has begun, asking again changes nothing.
AskRemoval(v) ==
  /\ life[v] \in Existing
  /\ life' = [life EXCEPT ![v] = IF @ = "doomed" THEN "doomed" ELSE "removing"]
  /\ asked' = asked \union {v}
  /\ UNCHANGED built

Build(v) ==
  /\ life[v] \in Existing
  /\ \A w \in Namesakes(v) : built[w] = {}
  /\ \E part \in Parts \ built[v] : built' = [built EXCEPT ![v] = @ \union {part}]
  /\ UNCHANGED <<life, asked>>

\* A late answer may bring back a VM whose removal has not begun.
Show(v) ==
  /\ life[v] \in {"ordered", "removing"}
  /\ built[v] = Parts
  /\ life' = [life EXCEPT ![v] = "shown"]
  /\ UNCHANGED <<asked, built>>

BeginRemoval(v) ==
  /\ life[v] \in {"ordered", "shown", "removing"}
  /\ v \in asked
  /\ life' = [life EXCEPT ![v] = "doomed"]
  /\ UNCHANGED <<asked, built>>

TakeAway(v) ==
  /\ life[v] = "doomed"
  /\ \E part \in built[v] : built' = [built EXCEPT ![v] = @ \ {part}]
  /\ UNCHANGED <<life, asked>>

Finish(v) ==
  /\ life[v] = "doomed"
  /\ built[v] = {}
  /\ life' = [life EXCEPT ![v] = "gone"]
  /\ UNCHANGED <<asked, built>>

\* All VMs of a name are excused together; their past no longer counts.
Excuse(n) ==
  LET V == {v \in Vm : NameOf[v] = n} IN
  /\ life' = [v \in Vm |-> IF v \in V THEN "excused" ELSE life[v]]
  /\ asked' = asked \ V
  /\ built' = [v \in Vm |-> IF v \in V THEN {} ELSE built[v]]

\* Most steps underneath change nothing here, so that comes first.
Next ==
  \/ UNCHANGED vars
  \/ \E v \in Vm : \/ Order(v) \/ AskRemoval(v) \/ Build(v) \/ Show(v)
                   \/ BeginRemoval(v) \/ TakeAway(v) \/ Finish(v)
  \/ \E n \in Name : Excuse(n)

Spec == Init /\ [][Next]_vars
=============================================================================
